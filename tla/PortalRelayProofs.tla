-------------------------- MODULE PortalRelayProofs --------------------------
(***************************************************************************)
(* Theorems about PortalRelay, for any connectors, connections, requests   *)
(* and faults: what the relay names and waits on, and that a connector     *)
(* keeps trying.                                                           *)
(***************************************************************************)
EXTENDS PortalRelay, TLAPS

-----------------------------------------------------------------------------
(* Types *)

\* What both ends and the wire may become, one change at a time.
LEMMA LinkChanges ==
    ASSUME NEW k \in Link
    PROVE  /\ NoConn \in Link /\ Left(k) \in Link
           /\ \A s \in {"connecting", "open", "closing"} : [k EXCEPT !.client = s] \in Link
           /\ \A s \in {"none"} : [k EXCEPT !.client = s, !.down = <<>>] \in Link
           /\ \A b \in BOOLEAN : [k EXCEPT !.reg = b] \in Link
           /\ [k EXCEPT !.relay = "closing"] \in Link
           /\ [k EXCEPT !.relay = "closed", !.reg = FALSE, !.up = <<>>] \in Link
           /\ [k EXCEPT !.cut = TRUE, !.up = <<>>, !.down = <<>>] \in Link
<1>1. /\ <<>> \in Seq({"register"} \cup Request) /\ <<>> \in Seq(Request)
    OBVIOUS
<1>2. NoConn \in Link
    BY <1>1 DEF NoConn, Link
<1>3. \A s \in {"connecting", "open", "closing"} : [k EXCEPT !.client = s] \in Link
    BY DEF Link
<1>4. \A s \in {"none"} : [k EXCEPT !.client = s, !.down = <<>>] \in Link
    BY <1>1 DEF Link
<1>5. (\A b \in BOOLEAN : [k EXCEPT !.reg = b] \in Link) /\ [k EXCEPT !.relay = "closing"] \in Link
    BY DEF Link
<1>6. [k EXCEPT !.relay = "closed", !.reg = FALSE, !.up = <<>>] \in Link
    BY <1>1 DEF Link
<1>7. [k EXCEPT !.cut = TRUE, !.up = <<>>, !.down = <<>>] \in Link
    BY <1>1 DEF Link
<1> QED
    BY <1>2, <1>3, <1>4, <1>5, <1>6, <1>7 DEF Left

\* A message is put on the wire or taken from it.
LEMMA WireChanges ==
    ASSUME NEW k \in Link
    PROVE  /\ \A r \in Request : /\ [k EXCEPT !.up = Append(@, r)] \in Link
                                 /\ [k EXCEPT !.down = Append(@, r)] \in Link
           /\ k.up # <<>> => [k EXCEPT !.up = Tail(@)] \in Link /\ Head(k.up) \in {"register"} \cup Request
           /\ k.down # <<>> => [k EXCEPT !.down = Tail(@)] \in Link /\ Head(k.down) \in Request
<1>1. k.up \in Seq({"register"} \cup Request) /\ k.down \in Seq(Request)
    BY DEF Link
<1>2. \A r \in Request : Append(k.up, r) \in Seq({"register"} \cup Request) /\ Append(k.down, r) \in Seq(Request)
    BY <1>1
<1>3. k.up # <<>> => Tail(k.up) \in Seq({"register"} \cup Request) /\ Head(k.up) \in {"register"} \cup Request
    BY <1>1
<1>4. k.down # <<>> => Tail(k.down) \in Seq(Request) /\ Head(k.down) \in Request
    BY <1>1
<1> QED
    BY <1>2, <1>3, <1>4 DEF Link

\* Closing a socket and sending over one.
LEMMA SocketChanges ==
    ASSUME conn \in [Conn -> Link], NEW d \in Conn \cup {None}, NEW r \in Request
    PROVE  /\ Shut(d) \in [Conn -> Link] /\ Sent(d, r) \in [Conn -> Link]
           /\ \A c \in Conn : Shut(d)[c].relay = conn[c].relay /\ Shut(d)[c].reg = conn[c].reg
           /\ \A c \in Conn : Sent(d, r)[c].relay = conn[c].relay /\ Sent(d, r)[c].reg = conn[c].reg
<1>1. \A c \in Conn : [conn[c] EXCEPT !.client = "closing"] \in Link
    BY LinkChanges
<1>2. \A c \in Conn : [conn[c] EXCEPT !.up = Append(@, r)] \in Link
    BY WireChanges
<1>3. Open(d) => d \in Conn
    BY DEF Open
<1>4. /\ Shut(d) \in [Conn -> Link]
      /\ \A c \in Conn : Shut(d)[c].relay = conn[c].relay /\ Shut(d)[c].reg = conn[c].reg
    BY <1>1 DEF Shut, Link
<1>5. /\ Sent(d, r) \in [Conn -> Link]
      /\ \A c \in Conn : Sent(d, r)[c].relay = conn[c].relay /\ Sent(d, r)[c].reg = conn[c].reg
    BY <1>2, <1>3 DEF Sent, Link
<1> QED
    BY <1>4, <1>5

\* The connector's own steps keep the types.
LEMMA ConnectorTypes ==
    ASSUME TypeOK, NEW x \in Connector,
           Quiet(x) \/ Stop(x) \/ Crash(x) \/ Reap(x) \/ \E c \in Conn : Connect(x, c)
    PROVE  TypeOK'
<1>1. /\ app \in [Connector -> [socket : Conn \cup {None}, retry : BOOLEAN, closed : BOOLEAN]]
      /\ conn \in [Conn -> Link] /\ run \in [Request -> {NotRun} \cup [by : Connector, on : Conn \cup {None}]]
      /\ faults \in Nat /\ MaxFaults \in Nat
    BY RelayAssumption DEF TypeOK, RelayAssumption
<1>2. Socket(x) \in Conn \cup {None}
    BY <1>1 DEF Socket
<1>3. Fault \/ Normal => faults' \in 0..MaxFaults
    BY <1>1 DEF Fault, Normal, TypeOK
<1>4. Shut(Socket(x)) \in [Conn -> Link]
    BY <1>1, <1>2 DEF Shut, Link
<1>5. CASE Quiet(x)
    BY <1>1, <1>3, <1>4, <1>5 DEF Quiet, CleanedUp, TypeOK, registry, requests
<1>6. CASE Stop(x)
    BY <1>1, <1>4, <1>6 DEF Stop, TypeOK, registry, requests
<1>7. CASE Crash(x)
    <2>1. app' \in [Connector -> [socket : Conn \cup {None}, retry : BOOLEAN, closed : BOOLEAN]]
        BY <1>1, <1>7 DEF Crash, Dies, Started
    <2>2. conn' \in [Conn -> Link]
        BY <1>1, <1>7, LinkChanges DEF Crash, Dies
    <2>3. run' \in [Request -> {NotRun} \cup [by : Connector, on : Conn \cup {None}]]
        BY <1>1, <1>7 DEF Crash, Dies
    <2> QED
        BY <1>3, <1>7, <2>1, <2>2, <2>3 DEF Crash, TypeOK, registry
<1>8. CASE Reap(x)
    BY <1>3, <1>8 DEF Reap, Unregister, TypeOK, requests
<1>9. ASSUME NEW c \in Conn, Connect(x, c) PROVE TypeOK'
    <2>1. conn[c] \in Link
        BY <1>1
    <2>2. [conn[c] EXCEPT !.client = "connecting"] \in Link
        BY <2>1, LinkChanges
    <2>3. conn' \in [Conn -> Link]
        BY <1>1, <1>9, <2>2 DEF Connect
    <2>4. app' \in [Connector -> [socket : Conn \cup {None}, retry : BOOLEAN, closed : BOOLEAN]]
        <3>1. \A a \in [socket : Conn \cup {None}, retry : BOOLEAN, closed : BOOLEAN] :
                 [a EXCEPT !.socket = c, !.retry = FALSE] \in [socket : Conn \cup {None}, retry : BOOLEAN, closed : BOOLEAN]
            OBVIOUS
        <3>2. app' = [app EXCEPT ![x] = [@ EXCEPT !.socket = c, !.retry = FALSE]]
            BY <1>1, <1>9 DEF Connect
        <3> QED
            BY <1>1, <3>1, <3>2
    <2> QED
        BY <1>3, <1>9, <2>3, <2>4 DEF Connect, TypeOK, registry, requests
<1> QED
    BY <1>5, <1>6, <1>7, <1>8, <1>9

\* So do the steps of a connection, at either end.
LEMMA ConnectionTypes ==
    ASSUME TypeOK, InReach, NEW c \in Conn,
           Opened(c) \/ ClientStep(c) \/ RelayStep(c) \/ Cut(c)
    PROVE  TypeOK'
<1> DEFINE x == OwnerOf[c]
<1>1. /\ app \in [Connector -> [socket : Conn \cup {None}, retry : BOOLEAN, closed : BOOLEAN]]
      /\ conn \in [Conn -> Link] /\ run \in [Request -> {NotRun} \cup [by : Connector, on : Conn \cup {None}]]
      /\ x \in Connector /\ conn[c] \in Link /\ faults \in Nat /\ MaxFaults \in Nat
    BY RelayAssumption DEF TypeOK, RelayAssumption
<1>2. Socket(x) \in Conn \cup {None}
    BY <1>1 DEF Socket
<1>3. Fault => faults' \in 0..MaxFaults
    BY <1>1 DEF Fault, TypeOK
<1>4. CASE Opened(c)
    <2>1. \A k \in Link : [k EXCEPT !.client = "open", !.relay = "open",
                                    !.up = IF Socket(x) = c THEN <<"register">> ELSE <<>>] \in Link
        <3>1. "register" \in {"register"} \cup Request
            OBVIOUS
        <3>2. <<"register">> \in Seq({"register"} \cup Request) /\ <<>> \in Seq({"register"} \cup Request)
            BY <3>1
        <3>3. \A w \in Seq({"register"} \cup Request), k \in Link :
                 [k EXCEPT !.client = "open", !.relay = "open", !.up = w] \in Link
            BY DEF Link
        <3> QED
            BY <3>2, <3>3
    <2>2. conn' \in [Conn -> Link]
        BY <1>1, <1>4, <2>1 DEF Opened
    <2> QED
        BY <1>4, <2>2 DEF Opened, TypeOK, registry, requests
<1>5. ASSUME NEW e \in BOOLEAN, ClientGone(c, e) PROVE TypeOK'
    <2> DEFINE after == IF e THEN Shut(Socket(x)) ELSE conn
    <2>1. after \in [Conn -> Link]
        BY <1>1, <1>2 DEF Shut, Link
    <2>2. [after[c] EXCEPT !.client = "none", !.down = <<>>] \in Link
        BY <2>1, LinkChanges
    <2>3. Left([after[c] EXCEPT !.client = "none", !.down = <<>>]) \in Link
        BY <2>2, LinkChanges
    <2>4. conn' \in [Conn -> Link]
        BY <1>5, <2>1, <2>3 DEF ClientGone
    <2>5. app' \in [Connector -> [socket : Conn \cup {None}, retry : BOOLEAN, closed : BOOLEAN]]
        BY <1>1, <1>5 DEF ClientGone, CleanedUp
    <2>6. run' \in [Request -> {NotRun} \cup [by : Connector, on : Conn \cup {None}]]
        <3>1. NotRun.on # c
            BY RelayAssumption DEF NotRun, RelayAssumption
        <3>2. \A a \in [by : Connector, on : Conn \cup {None}] :
                 [a EXCEPT !.on = None] \in [by : Connector, on : Conn \cup {None}]
            OBVIOUS
        <3>3. \A r \in Request : run'[r] = IF run[r].on = c THEN [run[r] EXCEPT !.on = None] ELSE run[r]
            BY <1>5 DEF ClientGone
        <3>4. \A r \in Request : run'[r] \in {NotRun} \cup [by : Connector, on : Conn \cup {None}]
            BY <1>1, <3>1, <3>2, <3>3
        <3> QED
            BY <1>5, <3>4 DEF ClientGone
    <2> QED
        BY <1>5, <2>4, <2>5, <2>6 DEF ClientGone, TypeOK, registry
<1>6. CASE Receive(c)
    <2>1. [conn[c] EXCEPT !.down = Tail(@)] \in Link /\ Head(conn[c].down) \in Request
        BY <1>1, <1>6, WireChanges DEF Receive
    <2>2. conn' \in [Conn -> Link]
        BY <1>1, <1>6, <2>1 DEF Receive
    <2>3. run' \in [Request -> {NotRun} \cup [by : Connector, on : Conn \cup {None}]]
        BY <1>1, <1>2, <1>6 DEF Receive
    <2> QED
        BY <1>6, <2>2, <2>3 DEF Receive, TypeOK, registry
<1>7. CASE Register(c)
    <2>1. [conn[c] EXCEPT !.up = Tail(@)] \in Link
        BY <1>1, <1>7, WireChanges DEF Register
    <2> DEFINE read == [conn EXCEPT ![c].up = Tail(@)]
    <2>2. read \in [Conn -> Link]
        BY <1>1, <2>1
    <2>3. /\ [read EXCEPT ![c].reg = TRUE] \in [Conn -> Link]
          /\ [read EXCEPT ![c].relay = "closing"] \in [Conn -> Link]
          /\ \A d \in Conn : [read EXCEPT ![c].reg = TRUE, ![d].relay = "closing"] \in [Conn -> Link]
        <3> HIDE DEF read
        <3>1. \A k \in Link : [k EXCEPT !.reg = TRUE] \in Link /\ [k EXCEPT !.relay = "closing"] \in Link
            BY LinkChanges
        <3>2. [read EXCEPT ![c].reg = TRUE] \in [Conn -> Link]
            BY <2>2, <3>1
        <3>3. [read EXCEPT ![c].relay = "closing"] \in [Conn -> Link]
            BY <2>2, <3>1
        <3>4. \A d \in Conn : [[read EXCEPT ![c].reg = TRUE] EXCEPT ![d].relay = "closing"] \in [Conn -> Link]
            BY <3>2, <3>1
        <3> QED
            BY <3>2, <3>3, <3>4
    <2>4. active \notin {None, x} => entry[active] \in Conn
        BY <1>1 DEF TypeOK, InReach
    <2>5. conn' \in [Conn -> Link]
        <3>1. CASE active \in {None, x}
            BY <1>7, <3>1, <2>3 DEF Register
        <3>2. CASE active \notin {None, x}
            BY <1>7, <3>2, <2>3, <2>4 DEF Register
        <3> QED
            BY <3>1, <3>2
    <2>6. active' \in Connector \cup {None} /\ entry' \in [Connector -> Conn \cup {None}]
        BY <1>1, <1>7 DEF Register, TypeOK, registry
    <2> QED
        BY <1>7, <2>5, <2>6 DEF Register, TypeOK, requests
<1>8. CASE Reply(c)
    <2>1. [conn[c] EXCEPT !.up = Tail(@)] \in Link
        BY <1>1, <1>8, WireChanges DEF Reply
    <2>2. conn' \in [Conn -> Link]
        BY <1>1, <1>8, <2>1 DEF Reply
    <2>3. via' \in [Request -> Conn \cup {None}]
        BY <1>8 DEF Reply, TypeOK
    <2> QED
        BY <1>8, <2>2, <2>3 DEF Reply, TypeOK, registry
<1>9. CASE RelayClosed(c)
    <2>1. [conn[c] EXCEPT !.relay = "closed", !.reg = FALSE, !.up = <<>>] \in Link
        BY <1>1, LinkChanges
    <2>2. Left([conn[c] EXCEPT !.relay = "closed", !.reg = FALSE, !.up = <<>>]) \in Link
        BY <2>1, LinkChanges
    <2>3. conn' \in [Conn -> Link]
        BY <1>1, <1>9, <2>2 DEF RelayClosed
    <2>4. active' \in Connector \cup {None} /\ entry' \in [Connector -> Conn \cup {None}]
        BY <1>9 DEF RelayClosed, Unregister, TypeOK, registry
    <2>5. via' \in [Request -> Conn \cup {None}]
        BY <1>9 DEF RelayClosed, Resolved, TypeOK
    <2> QED
        BY <1>9, <2>3, <2>4, <2>5 DEF RelayClosed, TypeOK
<1>10. CASE Cut(c)
    <2>1. [conn[c] EXCEPT !.cut = TRUE, !.up = <<>>, !.down = <<>>] \in Link
        BY <1>1, LinkChanges
    <2>2. conn' \in [Conn -> Link]
        BY <1>1, <1>10, <2>1 DEF Cut
    <2> QED
        BY <1>3, <1>10, <2>2 DEF Cut, TypeOK, registry, requests
<1> QED
    BY <1>4, <1>5, <1>6, <1>7, <1>8, <1>9, <1>10 DEF ClientStep, RelayStep

\* And those of the requests.
LEMMA RequestTypes ==
    ASSUME TypeOK, InReach, NEW r \in Request, Ask(r) \/ Answer(r) \/ Fails(r) \/ TimesOut(r)
    PROVE  TypeOK'
<1>1. /\ app \in [Connector -> [socket : Conn \cup {None}, retry : BOOLEAN, closed : BOOLEAN]]
      /\ conn \in [Conn -> Link] /\ run \in [Request -> {NotRun} \cup [by : Connector, on : Conn \cup {None}]]
    BY DEF TypeOK
<1>3. CASE Ask(r)
    <2>1. entry[active] \in Conn
        BY <1>3 DEF Ask, TypeOK, InReach
    <2>2. [conn[entry[active]] EXCEPT !.down = Append(@, r)] \in Link
        BY <1>1, <2>1, WireChanges
    <2>3. conn' \in [Conn -> Link]
        BY <1>1, <1>3, <2>1, <2>2 DEF Ask
    <2> QED
        BY <1>3, <2>1, <2>3 DEF Ask, TypeOK, registry
<1>4. CASE Answer(r)
    <2>1. run[r] \in [by : Connector, on : Conn \cup {None}]
        BY <1>1, <1>4 DEF Answer
    <2>2. Sent(run[r].on, r) \in [Conn -> Link]
        BY <1>1, <2>1, SocketChanges
    <2> QED
        BY <1>1, <1>4, <2>1, <2>2 DEF Answer, TypeOK, registry
<1>5. CASE Fails(r)
    <2>1. run[r] \in [by : Connector, on : Conn \cup {None}]
        BY <1>1, <1>5 DEF Fails
    <2>2. Socket(run[r].by) \in Conn \cup {None}
        BY <1>1, <2>1 DEF Socket
    <2>3. Sent(Socket(run[r].by), r) \in [Conn -> Link]
        BY <1>1, <2>2, SocketChanges
    <2>4. CASE Dies(run[r].by)
        <3>1. app' \in [Connector -> [socket : Conn \cup {None}, retry : BOOLEAN, closed : BOOLEAN]]
            BY <1>1, <2>1, <2>4 DEF Dies, Started
        <3>2. conn' \in [Conn -> Link]
            BY <1>1, <2>4, LinkChanges DEF Dies
        <3>3. run' \in [Request -> {NotRun} \cup [by : Connector, on : Conn \cup {None}]]
            BY <1>1, <2>4 DEF Dies
        <3> QED
            BY <1>5, <3>1, <3>2, <3>3 DEF Fails, TypeOK, registry
    <2>5. CASE ~Dies(run[r].by)
        BY <1>1, <1>5, <2>3, <2>5 DEF Fails, TypeOK, registry
    <2> QED
        BY <2>4, <2>5
<1>6. CASE TimesOut(r)
    BY <1>6 DEF TimesOut, TypeOK, registry
<1> QED
    BY <1>3, <1>4, <1>5, <1>6

LEMMA TypesNext == TypeOK /\ InReach /\ [Next]_vars => TypeOK'
<1> SUFFICES ASSUME TypeOK, InReach, [Next]_vars PROVE TypeOK'
    OBVIOUS
<1>1. CASE PortalRestart
    <2>1. conn \in [Conn -> Link] /\ faults \in Nat /\ MaxFaults \in Nat
        BY RelayAssumption DEF TypeOK, RelayAssumption
    <2>2. \A c \in Conn : Left([conn[c] EXCEPT !.relay = "closed", !.reg = FALSE, !.up = <<>>]) \in Link
        <3>1. \A k \in Link : [k EXCEPT !.relay = "closed", !.reg = FALSE, !.up = <<>>] \in Link /\ Left(k) \in Link
            BY LinkChanges
        <3> QED
            BY <2>1, <3>1
    <2>3. conn' \in [Conn -> Link]
        BY <1>1, <2>1, <2>2 DEF PortalRestart
    <2>4. active' \in Connector \cup {None} /\ entry' \in [Connector -> Conn \cup {None}]
        BY <1>1 DEF PortalRestart
    <2>5. via' \in [Request -> Conn \cup {None}]
        BY <1>1 DEF PortalRestart, Resolved, TypeOK
    <2>6. faults' \in 0..MaxFaults
        <3>1. Fault /\ faults \in 0..MaxFaults
            BY <1>1 DEF PortalRestart, TypeOK
        <3> QED
            BY <2>1, <3>1 DEF Fault
    <2> QED
        BY <1>1, <2>3, <2>4, <2>5, <2>6 DEF PortalRestart, TypeOK
<1>2. CASE UNCHANGED vars
    BY <1>2 DEF vars, registry, requests, TypeOK
<1> QED
    BY <1>1, <1>2, ConnectorTypes, ConnectionTypes, RequestTypes DEF Next
-----------------------------------------------------------------------------
(* The registry *)

\* What a step may do to the relay's end without touching the registry: it takes
\* nobody's connection away.
Kept(c) == conn'[c].relay = conn[c].relay /\ conn'[c].reg = conn[c].reg

LEMMA KeepsReach ==
    ASSUME TypeOK, InReach, UNCHANGED <<active, entry>>, \A c \in Conn : Attached(c) => Kept(c),
           \A r \in Request : \/ via'[r] \in {via[r], None}
                              \/ active # None /\ via'[r] = entry[active]
    PROVE  InReach'
<1>1. active' = active /\ entry' = entry
    OBVIOUS
<1>2. /\ \A x \in Connector : entry[x] # None => entry[x] \in Conn
      /\ \A r \in Request : via[r] # None => via[r] \in Conn
      /\ active # None => active \in Connector
    BY DEF TypeOK
<1>3. \A c \in Conn : Attached(c) => conn'[c].relay \in {"open", "closing"} /\ conn'[c].reg = conn[c].reg
    BY DEF Attached, Kept
<1>4. \A x \in Connector : entry[x] # None => conn'[entry[x]].relay \in {"open", "closing"} /\ conn'[entry[x]].reg
    BY <1>2, <1>3 DEF InReach
<1>5. \A x \in Connector : /\ entry[x] # None <=> active = x
                           /\ entry[x] # None => OwnerOf[entry[x]] = x
    BY DEF InReach
<1>6. \A r \in Request : via[r] # None => conn'[via[r]].relay \in {"open", "closing"}
    BY <1>2, <1>3 DEF InReach
<1>7. active # None => entry[active] # None
    BY <1>2 DEF InReach
<1>8. \A r \in Request : via'[r] # None => conn'[via'[r]].relay \in {"open", "closing"}
    BY <1>2, <1>4, <1>6, <1>7
<1> QED
    BY <1>1, <1>4, <1>5, <1>8 DEF InReach, Attached

\* The connector and its crashes leave the relay's end alone.
LEMMA ConnectorReach ==
    ASSUME TypeOK, InReach, NEW x \in Connector,
           Quiet(x) \/ Stop(x) \/ Crash(x) \/ \E c \in Conn : Connect(x, c)
    PROVE  InReach'
<1>1. conn \in [Conn -> Link]
    BY DEF TypeOK
<1>2. \A c \in Conn : Attached(c) => Kept(c)
    <2>1. CASE Quiet(x) \/ Stop(x)
        <3>1. conn' = Shut(Socket(x))
            BY <2>1 DEF Quiet, Stop
        <3> QED
            BY <1>1, <3>1 DEF Shut, Kept, Link
    <2>2. CASE Crash(x)
        BY <1>1, <2>2 DEF Crash, Dies, Left, Attached, Kept, Link
    <2>3. ASSUME NEW d \in Conn, Connect(x, d) PROVE \A c \in Conn : Attached(c) => Kept(c)
        BY <1>1, <2>3 DEF Connect, Kept, Link
    <2> QED
        BY <2>1, <2>2, <2>3
<1>3. UNCHANGED <<active, entry>> /\ UNCHANGED via
    BY DEF Quiet, Stop, Crash, Connect, registry, requests
<1> QED
    BY <1>2, <1>3, KeepsReach

\* The reaper and a closing connection of a registered connector clear its entry.
LEMMA UnregisterReach ==
    ASSUME TypeOK, InReach, NEW x \in Connector, Unregister(x),
           \A y \in Connector : y # x /\ entry[y] # None => Kept(entry[y]),
           \A r \in Request : via'[r] # None => via'[r] = via[r] /\ conn'[via[r]].relay \in {"open", "closing"}
    PROVE  InReach'
<1>1. /\ \A y \in Connector : entry'[y] = IF y = x THEN None ELSE entry[y]
      /\ active' = IF active = x THEN None ELSE active
    BY DEF Unregister, TypeOK
<1>2. None \notin Connector
    BY RelayAssumption DEF RelayAssumption
<1>3. \A y \in Connector : entry'[y] # None <=> active' = y
    BY <1>1, <1>2 DEF InReach
<1>4. \A y \in Connector : entry'[y] # None =>
          OwnerOf[entry'[y]] = y /\ conn'[entry'[y]].relay \in {"open", "closing"} /\ conn'[entry'[y]].reg
    BY <1>1 DEF InReach, Kept, Attached
<1> QED
    BY <1>3, <1>4 DEF InReach, Attached

\* Registering on a connection, over that of another connector or of its own.
LEMMA RegisterReach ==
    ASSUME TypeOK, InReach, NEW c \in Conn, Register(c)
    PROVE  InReach'
<1> DEFINE x == OwnerOf[c]
<1> DEFINE read == [conn EXCEPT ![c].up = Tail(@)]
<1>1. /\ conn \in [Conn -> Link] /\ entry \in [Connector -> Conn \cup {None}]
      /\ x \in Connector /\ None \notin Connector /\ None \notin Conn /\ via' = via
    BY RelayAssumption DEF TypeOK, RelayAssumption, Register, requests
<1>2. /\ \A d \in Conn : read[d].relay = conn[d].relay /\ read[d].reg = conn[d].reg
      /\ read \in [Conn -> Link] /\ Attached(c)
    <2>1. [conn[c] EXCEPT !.up = Tail(@)] \in Link /\ Attached(c)
        BY <1>1, WireChanges DEF Register
    <2>2. read \in [Conn -> Link]
        BY <1>1, <2>1
    <2>3. \A d \in Conn : read[d].relay = conn[d].relay /\ read[d].reg = conn[d].reg
        BY <1>1 DEF Link
    <2> QED
        BY <2>1, <2>2, <2>3
<1>3. CASE active \in {None, x}
    <2>1. entry' = [entry EXCEPT ![x] = c] /\ active' = x /\ conn' = [read EXCEPT ![c].reg = TRUE]
        BY <1>3 DEF Register
    <2>2. \A d \in Conn : conn'[d].relay = conn[d].relay /\ (conn'[d].reg = conn[d].reg \/ d = c)
        <3> HIDE DEF read
        <3> QED
            BY <1>2, <2>1 DEF Link
    <2>3. conn'[c].reg
        BY <1>1, <2>1 DEF Link
    <2>4. \A y \in Connector : entry'[y] = IF y = x THEN c ELSE None
        BY <1>1, <1>3, <2>1 DEF InReach
    <2>5. \A y \in Connector : entry'[y] # None <=> active' = y
        BY <1>1, <2>1, <2>4
    <2>6. \A r \in Request : via[r] # None => conn'[via[r]].relay \in {"open", "closing"}
        BY <2>2 DEF InReach, Attached, TypeOK
    <2> QED
        BY <1>1, <1>2, <2>2, <2>3, <2>4, <2>5, <2>6 DEF InReach, Attached
<1>4. CASE active \notin {None, x} /\ Priority[x] > Priority[active]
    <2> DEFINE e == entry[active]
    <2>1. /\ entry' = [entry EXCEPT ![active] = None, ![x] = c] /\ active' = x
          /\ conn' = [read EXCEPT ![c].reg = TRUE, ![e].relay = "closing"]
        <3>1. ~(Priority[x] <= Priority[active])
            BY <1>1, <1>4, RelayAssumption DEF TypeOK, RelayAssumption
        <3> QED
            BY <1>4, <3>1 DEF Register
    <2>2. active \in Connector /\ e \in Conn /\ Attached(e) /\ OwnerOf[e] = active /\ e # c
        BY <1>1, <1>4 DEF TypeOK, InReach
    <2>3. \A d \in Conn : conn'[d].relay = (IF d = e THEN "closing" ELSE conn[d].relay)
        <3> HIDE DEF read, e
        <3> QED
            BY <1>2, <2>1, <2>2 DEF Link
    <2>4. conn'[c].reg
        BY <1>1, <2>1, <2>2 DEF Link
    <2>5. \A y \in Connector : entry'[y] = IF y = x THEN c ELSE None
        BY <1>1, <1>4, <2>1, <2>2 DEF InReach
    <2>6. \A r \in Request : via[r] # None => conn'[via[r]].relay \in {"open", "closing"}
        BY <2>3 DEF InReach, Attached, TypeOK
    <2>7. conn'[c].relay \in {"open", "closing"}
        BY <1>2, <2>2, <2>3 DEF Attached
    <2> QED
        BY <1>1, <2>1, <2>4, <2>5, <2>6, <2>7 DEF InReach, Attached
<1>5. CASE active \notin {None, x} /\ Priority[x] <= Priority[active]
    <2>1. conn' = [read EXCEPT ![c].relay = "closing"] /\ active' = active /\ entry' = entry
        <3>1. ~(Priority[x] > Priority[active])
            BY <1>1, <1>5, RelayAssumption DEF TypeOK, RelayAssumption
        <3> QED
            BY <1>5, <3>1 DEF Register, registry
    <2>2. /\ \A d \in Conn : conn'[d].relay = (IF d = c THEN "closing" ELSE conn[d].relay)
          /\ \A d \in Conn : conn'[d].reg = conn[d].reg
        BY <1>1, <1>2, <2>1 DEF Link
    <2> QED
        BY <1>1, <2>1, <2>2 DEF InReach, Attached, TypeOK
<1> QED
    BY <1>3, <1>4, <1>5 DEF Register

\* The other steps of a connection.
LEMMA ConnectionReach ==
    ASSUME TypeOK, InReach, NEW c \in Conn,
           Opened(c) \/ ClientStep(c) \/ Reply(c) \/ Cut(c)
    PROVE  InReach'
<1>1. conn \in [Conn -> Link]
    BY DEF TypeOK
<1>2. CASE Opened(c)
    <2>1. \A d \in Conn : /\ conn'[d].reg = conn[d].reg
                          /\ conn'[d].relay = IF d = c THEN "open" ELSE conn[d].relay
        BY <1>1, <1>2 DEF Opened, Link
    <2>2. active' = active /\ entry' = entry /\ via' = via
        BY <1>2 DEF Opened, registry, requests
    <2> QED
        BY <2>1, <2>2 DEF InReach, Attached, TypeOK
<1>3. ASSUME NEW e \in BOOLEAN, ClientGone(c, e) PROVE InReach'
    <2> DEFINE after == IF e THEN Shut(Socket(OwnerOf[c])) ELSE conn
    <2>1. \A d \in Conn : after[d].relay = conn[d].relay /\ after[d].reg = conn[d].reg
        BY <1>1 DEF Shut, Link
    <2>2. after \in [Conn -> Link]
        BY <1>1, LinkChanges DEF Shut
    <2>3. conn' = [after EXCEPT ![c] = Left([@ EXCEPT !.client = "none", !.down = <<>>])]
        BY <1>3 DEF ClientGone
    <2>4. \A d \in Conn : Attached(d) => Kept(d)
        <3> HIDE DEF after
        <3> QED
            BY <2>1, <2>2, <2>3 DEF Attached, Kept, Left, Link
    <2>5. UNCHANGED <<active, entry>> /\ UNCHANGED via
        BY <1>3 DEF ClientGone, registry
    <2> QED
        BY <2>4, <2>5, KeepsReach
<1>4. CASE Receive(c) \/ Reply(c)
    <2>1. \A d \in Conn : Kept(d)
        <3>1. conn' = [conn EXCEPT ![c].up = Tail(@)] \/ conn' = [conn EXCEPT ![c].down = Tail(@)]
            BY <1>4 DEF Receive, Reply
        <3>2. CASE conn' = [conn EXCEPT ![c].up = Tail(@)]
            BY <1>1, <3>2 DEF Kept, Link
        <3>3. CASE conn' = [conn EXCEPT ![c].down = Tail(@)]
            BY <1>1, <3>3 DEF Kept, Link
        <3> QED
            BY <3>1, <3>2, <3>3
    <2>2. UNCHANGED <<active, entry>> /\ \A r \in Request : via'[r] \in {via[r], None}
        BY <1>4 DEF Receive, Reply, registry, TypeOK
    <2> QED
        BY <2>1, <2>2, KeepsReach
<1>5. CASE Cut(c)
    <2>1. \A d \in Conn : Kept(d)
        BY <1>1, <1>5 DEF Cut, Kept, Link
    <2>2. UNCHANGED <<active, entry>> /\ UNCHANGED via
        BY <1>5 DEF Cut, registry, requests
    <2> QED
        BY <2>1, <2>2, KeepsReach
<1> QED
    BY <1>2, <1>3, <1>4, <1>5 DEF ClientStep

\* Losing a connection, or all of them.
LEMMA LossReach ==
    ASSUME TypeOK, InReach, PortalRestart \/ \E c \in Conn : RelayClosed(c)
    PROVE  InReach'
<1>1. /\ conn \in [Conn -> Link] /\ via \in [Request -> Conn \cup {None}]
      /\ entry \in [Connector -> Conn \cup {None}]
    BY DEF TypeOK
<1>2. CASE PortalRestart
    <2>1. /\ \A x \in Connector : entry'[x] = None
          /\ \A r \in Request : via'[r] = None
          /\ active' = None /\ None \notin Connector
        BY <1>1, <1>2, RelayAssumption DEF PortalRestart, Resolved, RelayAssumption
    <2> QED
        BY <2>1 DEF InReach
<1>3. ASSUME NEW c \in Conn, RelayClosed(c) PROVE InReach'
    <2>1. \A d \in Conn : d # c => Kept(d)
        BY <1>1, <1>3 DEF RelayClosed, Kept
    <2>2. \A r \in Request : via'[r] # None => via'[r] = via[r] /\ via[r] # c /\ via[r] \in Conn
        BY <1>1, <1>3 DEF RelayClosed, Resolved
    <2>3. \A r \in Request : via'[r] # None => via'[r] = via[r] /\ conn'[via[r]].relay \in {"open", "closing"}
        BY <2>1, <2>2 DEF InReach, Attached, Kept
    <2>4. \A y \in Connector : entry[y] # None => entry[y] \in Conn /\ (entry[y] = c => y = OwnerOf[c] /\ conn[c].reg)
        BY <1>1 DEF InReach
    <2>5. CASE conn[c].reg
        <3>1. Unregister(OwnerOf[c]) /\ OwnerOf[c] \in Connector
            BY <1>3, <2>5, RelayAssumption DEF RelayClosed, RelayAssumption
        <3> QED
            BY <2>1, <2>3, <2>4, <3>1, UnregisterReach
    <2>6. CASE ~conn[c].reg
        <3>1. active' = active /\ entry' = entry
            BY <1>3, <2>6 DEF RelayClosed, registry
        <3>2. \A y \in Connector : entry[y] # None => Kept(entry[y])
            BY <2>1, <2>4, <2>6
        <3> QED
            BY <2>3, <3>1, <3>2 DEF InReach, Attached, Kept
    <2> QED
        BY <2>5, <2>6
<1> QED
    BY <1>2, <1>3

\* The reaper, and the requests.
LEMMA ReapReach ==
    ASSUME TypeOK, InReach, NEW x \in Connector, Reap(x)
    PROVE  InReach'
<1>1. Unregister(x) /\ via' = via /\ conn' = conn
    BY DEF Reap, requests
<1>2. \A c \in Conn : Kept(c)
    BY <1>1 DEF Kept
<1>3. \A r \in Request : via'[r] # None => via'[r] = via[r] /\ conn'[via[r]].relay \in {"open", "closing"}
    BY <1>1 DEF InReach, Attached
<1>4. \A y \in Connector : y # x /\ entry[y] # None => Kept(entry[y])
    BY <1>2 DEF TypeOK
<1> QED
    BY <1>1, <1>3, <1>4, UnregisterReach

LEMMA RequestReach ==
    ASSUME TypeOK, InReach, NEW r \in Request, Ask(r) \/ Answer(r) \/ Fails(r) \/ TimesOut(r)
    PROVE  InReach'
<1>1. conn \in [Conn -> Link] /\ via \in [Request -> Conn \cup {None}]
    BY DEF TypeOK
<1>2. \A c \in Conn : Attached(c) => Kept(c)
    <2>1. CASE Ask(r)
        BY <1>1, <2>1 DEF Ask, Kept, Link
    <2>2. ASSUME NEW d, conn' = Sent(d, r) PROVE \A c \in Conn : Attached(c) => Kept(c)
        BY <1>1, <2>2 DEF Sent, Kept, Link
    <2>3. CASE Dies(run[r].by)
        BY <1>1, <2>3 DEF Dies, Left, Attached, Kept, Link
    <2>4. CASE TimesOut(r)
        BY <2>4 DEF TimesOut, Kept
    <2> QED
        BY <2>1, <2>2, <2>3, <2>4 DEF Answer, Fails
<1>3. active' = active /\ entry' = entry
    BY DEF Ask, Answer, Fails, TimesOut, registry
<1>4. \A q \in Request : via'[q] \in {via[q], None} \/ (active # None /\ via'[q] = entry[active])
    <2>1. CASE Ask(r)
        BY <1>1, <2>1 DEF Ask
    <2>2. CASE ~Ask(r)
        BY <1>1, <2>2 DEF Answer, Fails, TimesOut
    <2> QED
        BY <2>1, <2>2
<1> QED
    BY <1>2, <1>3, <1>4, KeepsReach

LEMMA ReachNext == TypeOK /\ InReach /\ [Next]_vars => InReach'
<1> SUFFICES ASSUME TypeOK, InReach, [Next]_vars PROVE InReach'
    OBVIOUS
<1>1. CASE UNCHANGED vars
    BY <1>1 DEF vars, registry, requests, InReach, Attached
<1> QED
    BY <1>1, ConnectorReach, RegisterReach, ConnectionReach, LossReach, ReapReach, RequestReach
    DEF Next, RelayStep

LEMMA InitTypes == Init => TypeOK /\ InReach
<1> SUFFICES ASSUME Init PROVE TypeOK /\ InReach
    OBVIOUS
<1>1. NoConn \in Link
    <2>1. <<>> \in Seq({"register"} \cup Request) /\ <<>> \in Seq(Request)
        OBVIOUS
    <2> QED
        BY <2>1 DEF NoConn, Link
<1>2. 0 \in 0..MaxFaults /\ None \notin Connector
    BY RelayAssumption DEF RelayAssumption
<1>3. Started \in [socket : Conn \cup {None}, retry : BOOLEAN, closed : BOOLEAN]
    BY DEF Started
<1> QED
    BY <1>1, <1>2, <1>3 DEF Init, TypeOK, InReach
-----------------------------------------------------------------------------
\* Both ends, the wire, the registry and the requests keep their types, for any
\* number of connectors, connections, requests and faults.
THEOREM TypeCorrect == Spec => []TypeOK
<1>1. TypeOK /\ InReach /\ [Next]_vars => (TypeOK /\ InReach)'
    BY TypesNext, ReachNext
<1> QED
    BY <1>1, InitTypes, PTL DEF Spec

\* The registry of relay/registry.ts hands out one connector, by a connection the
\* relay has not lost, and so is every connection an HTTP handler waits on
\* (outboundPending), whichever close events, takeovers and restarts come in between.
THEOREM ReachCorrect == Spec => []InReach
<1>1. TypeOK /\ InReach /\ [Next]_vars => (TypeOK /\ InReach)'
    BY TypesNext, ReachNext
<1> QED
    BY <1>1, InitTypes, PTL DEF Spec
-----------------------------------------------------------------------------
(* The connector *)

\* A connector that was not stopped either has a connection of its own, which it is
\* opening or has open, or its reconnect timer is set, never both; a stopped one has
\* neither (scheduleReconnect, cleanupSocket, forceReconnect, stop).
KeepsTrying ==
    \A x \in Connector :
        /\ app[x].closed => Socket(x) = None /\ ~app[x].retry
        /\ ~app[x].closed => (app[x].retry <=> Socket(x) = None)
        /\ Socket(x) # None => OwnerOf[Socket(x)] = x /\ conn[Socket(x)].client \in {"connecting", "open"}

\* The variables of a connector that keeps on.
Sound(a) == IF a.closed THEN a.socket = None /\ ~a.retry ELSE a.retry <=> a.socket = None

\* A step that leaves the connectors' ends of current sockets alone.
LEMMA KeepsTryingStays ==
    ASSUME TypeOK, KeepsTrying,
           \A x \in Connector : /\ Sound(app'[x])
                                /\ app'[x].socket \in {None, Socket(x)},
           \A c \in Conn : conn[c].client \in {"connecting", "open"} /\ app'[OwnerOf[c]].socket = c
                           => conn'[c].client \in {"connecting", "open"}
    PROVE  KeepsTrying'
<1>1. \A x \in Connector : Socket(x) \in Conn \cup {None}
    BY DEF TypeOK, Socket
<1>2. ASSUME NEW x \in Connector, app'[x].socket # None
      PROVE  OwnerOf[app'[x].socket] = x /\ conn'[app'[x].socket].client \in {"connecting", "open"}
    <2>1. app'[x].socket = Socket(x) /\ Socket(x) \in Conn
        BY <1>1, <1>2
    <2>2. OwnerOf[Socket(x)] = x /\ conn[Socket(x)].client \in {"connecting", "open"}
        BY <1>2, <2>1 DEF KeepsTrying
    <2> QED
        BY <2>1, <2>2
<1> QED
    BY <1>2 DEF KeepsTrying, Sound, Socket

\* What the invariant says of the variables of a connector, before a step.
LEMMA SoundNow ==
    ASSUME KeepsTrying
    PROVE  \A x \in Connector : Sound(app[x])
BY DEF KeepsTrying, Sound, Socket

\* Clean-up, stop and death of a connector.
LEMMA GivesSocketUp ==
    ASSUME TypeOK, NEW x \in Connector, Sound(app[x])
    PROVE  /\ Sound(CleanedUp(x)) /\ CleanedUp(x).socket = None
           /\ Sound([socket |-> None, retry |-> FALSE, closed |-> TRUE])
           /\ Sound([Started EXCEPT !.retry = ~app[x].closed, !.closed = app[x].closed])
BY DEF TypeOK, Sound, CleanedUp, Started

\* Closing a socket or sending over one.
LEMMA OtherClients ==
    ASSUME conn \in [Conn -> Link], NEW d \in Conn \cup {None}, NEW r
    PROVE  /\ \A c \in Conn : c # d => Shut(d)[c].client = conn[c].client
           /\ \A c \in Conn : Sent(d, r)[c].client = conn[c].client
<1>1. \A c \in Conn : c # d => Shut(d)[c].client = conn[c].client
    BY DEF Shut, Link
<1>2. \A c \in Conn : Sent(d, r)[c].client = conn[c].client
    BY DEF Sent, Link
<1> QED
    BY <1>1, <1>2

LEMMA ConnectorTries ==
    ASSUME TypeOK, KeepsTrying, NEW x \in Connector,
           Quiet(x) \/ Stop(x) \/ Reap(x) \/ Dies(x) \/ \E c \in Conn : Connect(x, c)
    PROVE  KeepsTrying'
<1>1. /\ app \in [Connector -> [socket : Conn \cup {None}, retry : BOOLEAN, closed : BOOLEAN]]
      /\ conn \in [Conn -> Link] /\ Socket(x) \in Conn \cup {None} /\ None \notin Conn
    BY RelayAssumption DEF TypeOK, Socket, RelayAssumption
<1>2. \A y \in Connector : Sound(app[y]) /\ app[y].socket = Socket(y)
    BY SoundNow DEF Socket
<1>3. CASE Quiet(x) \/ Stop(x)
    <2>1. PICK a \in {CleanedUp(x), [socket |-> None, retry |-> FALSE, closed |-> TRUE]} :
              app' = [app EXCEPT ![x] = a]
        BY <1>3 DEF Quiet, Stop
    <2>2. Sound(a) /\ a.socket = None
        <3>1. CASE a = CleanedUp(x)
            BY <1>2, <3>1, GivesSocketUp
        <3>2. CASE a = [socket |-> None, retry |-> FALSE, closed |-> TRUE]
            BY <3>2 DEF Sound
        <3> QED
            BY <2>1, <3>1, <3>2
    <2>3. \A y \in Connector : app'[y] = IF y = x THEN a ELSE app[y]
        BY <1>1, <2>1
    <2>4. \A y \in Connector : Sound(app'[y]) /\ app'[y].socket \in {None, Socket(y)}
        BY <1>2, <2>2, <2>3
    <2>5. ASSUME NEW c \in Conn, conn[c].client \in {"connecting", "open"}, app'[OwnerOf[c]].socket = c
          PROVE  conn'[c].client \in {"connecting", "open"}
        <3>1. OwnerOf[c] \in Connector
            BY RelayAssumption DEF RelayAssumption
        <3>2. OwnerOf[c] # x /\ Socket(OwnerOf[c]) = c
            BY <1>1, <1>2, <2>2, <2>3, <2>5, <3>1
        <3>3. c # Socket(x)
            BY <1>1, <3>2 DEF KeepsTrying
        <3>4. conn' = Shut(Socket(x))
            BY <1>3 DEF Quiet, Stop
        <3> QED
            BY <1>1, <2>5, <3>3, <3>4, OtherClients
    <2> QED
        BY <2>4, <2>5, KeepsTryingStays
<1>4. CASE Reap(x)
    BY <1>2, <1>4, KeepsTryingStays DEF Reap
<1>5. CASE Dies(x)
    <2> DEFINE a == [Started EXCEPT !.retry = ~app[x].closed, !.closed = app[x].closed]
    <2>1. Sound(a) /\ a.socket = None
        BY <1>2, GivesSocketUp DEF Started
    <2>2. \A y \in Connector : app'[y] = IF y = x THEN a ELSE app[y]
        BY <1>1, <1>5 DEF Dies
    <2>3. \A y \in Connector : Sound(app'[y]) /\ app'[y].socket \in {None, Socket(y)}
        <3> HIDE DEF a
        <3> QED
            BY <1>2, <2>1, <2>2
    <2>4. ASSUME NEW c \in Conn, conn[c].client \in {"connecting", "open"}, app'[OwnerOf[c]].socket = c
          PROVE  conn'[c].client \in {"connecting", "open"}
        <3>1. OwnerOf[c] # x
            BY <1>1, <2>1, <2>2, <2>4
        <3>2. conn'[c] = conn[c]
            BY <1>5, <3>1 DEF Dies, Mine
        <3> QED
            BY <2>4, <3>2
    <2> QED
        BY <2>3, <2>4, KeepsTryingStays
<1>6. ASSUME NEW c \in Conn, Connect(x, c) PROVE KeepsTrying'
    <2>1. OwnerOf[c] = x /\ conn[c] = NoConn /\ conn' = [conn EXCEPT ![c].client = "connecting"]
        BY <1>6 DEF Connect
    <2>2. /\ \A y \in Connector \ {x} : app'[y] = app[y]
          /\ app'[x].socket = c /\ ~app'[x].retry /\ app'[x].closed = app[x].closed /\ app[x].retry
        <3>1. app' = [app EXCEPT ![x] = [@ EXCEPT !.socket = c, !.retry = FALSE]] /\ app[x].retry
            BY <1>1, <1>6 DEF Connect
        <3>2. app[x] \in [socket : Conn \cup {None}, retry : BOOLEAN, closed : BOOLEAN]
            BY <1>1
        <3>3. app'[x] = [app[x] EXCEPT !.socket = c, !.retry = FALSE]
            BY <1>1, <3>1
        <3> QED
            BY <1>1, <3>1, <3>2, <3>3
    <2>3. ~app[x].closed
        BY <2>2 DEF KeepsTrying
    <2>4. conn'[c].client = "connecting" /\ \A d \in Conn \ {c} : conn'[d] = conn[d]
        BY <1>1, <2>1 DEF Link
    <2>5. \A y \in Connector \ {x} : Socket(y) # None => Socket(y) \in Conn \ {c}
        BY <1>1, <2>1 DEF KeepsTrying, Socket
    <2> QED
        BY <1>1, <2>1, <2>2, <2>3, <2>4, <2>5 DEF KeepsTrying, Socket
<1> QED
    BY <1>3, <1>4, <1>5, <1>6

\* A close event takes the current socket away, whichever connection it belongs to.
LEMMA GoneTries ==
    ASSUME TypeOK, KeepsTrying, NEW c \in Conn, NEW e \in BOOLEAN, ClientGone(c, e)
    PROVE  KeepsTrying'
<1> DEFINE x == OwnerOf[c]
           after == IF e THEN Shut(Socket(x)) ELSE conn
<1>1. /\ app \in [Connector -> [socket : Conn \cup {None}, retry : BOOLEAN, closed : BOOLEAN]]
      /\ conn \in [Conn -> Link] /\ x \in Connector /\ Socket(x) \in Conn \cup {None} /\ None \notin Conn
    BY RelayAssumption DEF TypeOK, Socket, RelayAssumption
<1>2. \A y \in Connector : Sound(app[y]) /\ app[y].socket = Socket(y)
    BY SoundNow DEF Socket
<1>3. Sound(CleanedUp(x)) /\ CleanedUp(x).socket = None
    BY <1>1, <1>2, GivesSocketUp
<1>4. \A y \in Connector : app'[y] = IF y = x THEN CleanedUp(x) ELSE app[y]
    BY <1>1 DEF ClientGone
<1>5. \A y \in Connector : Sound(app'[y]) /\ app'[y].socket \in {None, Socket(y)}
    BY <1>2, <1>3, <1>4
<1>6. ASSUME NEW d \in Conn, conn[d].client \in {"connecting", "open"}, app'[OwnerOf[d]].socket = d
      PROVE  conn'[d].client \in {"connecting", "open"}
    <2>1. OwnerOf[d] \in Connector
        BY RelayAssumption DEF RelayAssumption
    <2>2. OwnerOf[d] # x /\ Socket(OwnerOf[d]) = d
        BY <1>1, <1>2, <1>3, <1>4, <1>6, <2>1
    <2>3. d # c /\ d # Socket(x)
        BY <1>1, <2>2 DEF KeepsTrying
    <2>4. after[d].client = conn[d].client
        BY <1>1, <2>3, OtherClients
    <2>5. conn'[d] = after[d]
        <3>1. after \in [Conn -> Link]
            BY <1>1, LinkChanges DEF Shut
        <3>2. conn' = [after EXCEPT ![c] = Left([@ EXCEPT !.client = "none", !.down = <<>>])]
            BY DEF ClientGone
        <3> HIDE DEF after
        <3> QED
            BY <2>3, <3>1, <3>2
    <2> QED
        BY <1>6, <2>4, <2>5
<1> QED
    BY <1>5, <1>6, KeepsTryingStays

\* The wire and the relay's end change, the connector's end does not.
LEMMA ClientStays ==
    ASSUME conn \in [Conn -> Link], NEW c \in Conn
    PROVE  \A d \in Conn : /\ [conn EXCEPT ![c].up = Tail(@)][d].client = conn[d].client
                           /\ [conn EXCEPT ![c].down = Tail(@)][d].client = conn[d].client
                           /\ [conn EXCEPT ![c].cut = TRUE, ![c].up = <<>>, ![c].down = <<>>][d].client
                                = conn[d].client
<1>1. \A k \in Link : /\ [k EXCEPT !.up = Tail(@)].client = k.client
                      /\ [k EXCEPT !.down = Tail(@)].client = k.client
                      /\ [k EXCEPT !.cut = TRUE, !.up = <<>>, !.down = <<>>].client = k.client
    BY DEF Link
<1> QED
    BY <1>1 DEF Link

LEMMA TryingNext == TypeOK /\ InReach /\ KeepsTrying /\ [Next]_vars => KeepsTrying'
<1> SUFFICES ASSUME TypeOK, InReach, KeepsTrying, [Next]_vars PROVE KeepsTrying'
    OBVIOUS
<1>1. conn \in [Conn -> Link] /\ run \in [Request -> {NotRun} \cup [by : Connector, on : Conn \cup {None}]]
    BY DEF TypeOK
<1>2. \A y \in Connector : Sound(app[y]) /\ app[y].socket = Socket(y)
    BY SoundNow DEF Socket
<1>3. ASSUME app' = app, \A c \in Conn : conn[c].client \in {"connecting", "open"}
                                         => conn'[c].client \in {"connecting", "open"}
      PROVE  KeepsTrying'
    BY <1>2, <1>3, KeepsTryingStays
<1>4. ASSUME NEW c \in Conn, Opened(c) \/ Receive(c) \/ RelayStep(c) \/ Cut(c) PROVE KeepsTrying'
    <2>1. app' = app
        BY <1>4 DEF Opened, Receive, RelayStep, Register, Reply, RelayClosed, Cut
    <2>2. ASSUME NEW d \in Conn, conn[d].client \in {"connecting", "open"}
          PROVE  conn'[d].client \in {"connecting", "open"}
        <3>1. CASE Opened(c)
            BY <1>1, <2>2, <3>1 DEF Opened, Link
        <3>2. CASE Receive(c) \/ Reply(c) \/ Cut(c)
            <4>1. CASE Receive(c)
                BY <1>1, <2>2, <4>1, ClientStays DEF Receive
            <4>2. CASE Reply(c)
                BY <1>1, <2>2, <4>2, ClientStays DEF Reply
            <4>3. CASE Cut(c)
                BY <1>1, <2>2, <4>3, ClientStays DEF Cut
            <4> QED
                BY <3>2, <4>1, <4>2, <4>3
        <3>3. CASE Register(c)
            <4> DEFINE read == [conn EXCEPT ![c].up = Tail(@)]
            <4>1. \A g \in Conn : read[g].client = conn[g].client
                BY <1>1, ClientStays
            <4>2. read \in [Conn -> Link]
                BY <1>1, <3>3, WireChanges DEF Register
            <4>3. \/ conn' = [read EXCEPT ![c].reg = TRUE]
                  \/ conn' = [[read EXCEPT ![c].reg = TRUE] EXCEPT ![entry[active]].relay = "closing"]
                  \/ conn' = [read EXCEPT ![c].relay = "closing"]
                BY <3>3 DEF Register
            <4> HIDE DEF read
            <4>4. conn'[d].client = read[d].client
                <5>1. CASE conn' = [read EXCEPT ![c].reg = TRUE]
                    BY <4>2, <5>1 DEF Link
                <5>2. CASE conn' = [read EXCEPT ![c].relay = "closing"]
                    BY <4>2, <5>2 DEF Link
                <5>3. ASSUME NEW e, conn' = [[read EXCEPT ![c].reg = TRUE] EXCEPT ![e].relay = "closing"]
                      PROVE  conn'[d].client = read[d].client
                    <6>1. /\ [read EXCEPT ![c].reg = TRUE] \in [Conn -> Link]
                          /\ [read EXCEPT ![c].reg = TRUE][d].client = read[d].client
                        BY <4>2 DEF Link
                    <6>2. \A f \in [Conn -> Link] : [f EXCEPT ![e].relay = "closing"][d].client = f[d].client
                        BY DEF Link
                    <6> QED
                        BY <5>3, <6>1, <6>2
                <5> QED
                    BY <4>3, <5>1, <5>2, <5>3
            <4> QED
                BY <2>2, <4>1, <4>4
        <3>4. CASE RelayClosed(c)
            BY <1>1, <2>2, <3>4 DEF RelayClosed, Left, Link
        <3> QED
            BY <1>4, <3>1, <3>2, <3>3, <3>4 DEF RelayStep
    <2> QED
        BY <1>3, <2>1, <2>2
<1>5. ASSUME NEW r \in Request, Ask(r) \/ Answer(r) \/ TimesOut(r) \/ Fails(r) PROVE KeepsTrying'
    <2>1. CASE Ask(r) \/ TimesOut(r)
        <3>1. \A d \in Conn : conn'[d].client = conn[d].client
            BY <1>1, <2>1 DEF Ask, TimesOut, Link
        <3> QED
            BY <1>3, <2>1, <3>1 DEF Ask, TimesOut
    <2>2. ASSUME NEW d \in Conn \cup {None}, conn' = Sent(d, r), app' = app PROVE KeepsTrying'
        BY <1>1, <1>3, <2>2, OtherClients
    <2>3. CASE Answer(r)
        <3>1. run[r] \in [by : Connector, on : Conn \cup {None}]
            BY <1>1, <2>3 DEF Answer
        <3> QED
            BY <2>2, <2>3, <3>1 DEF Answer
    <2>4. CASE Fails(r)
        <3>1. run[r] \in [by : Connector, on : Conn \cup {None}]
            BY <1>1, <2>4 DEF Fails
        <3>2. run[r].by \in Connector /\ Socket(run[r].by) \in Conn \cup {None}
            BY <3>1 DEF TypeOK, Socket
        <3>3. Dies(run[r].by) \/ (conn' = Sent(Socket(run[r].by), r) /\ app' = app)
            BY <2>4 DEF Fails
        <3> QED
            BY <2>2, <3>2, <3>3, ConnectorTries
    <2> QED
        BY <1>5, <2>1, <2>2, <2>3, <2>4
<1>7. CASE PortalRestart
    <2>1. app' = app /\ \A d \in Conn : conn[d].client \in {"connecting", "open"} => conn'[d].client = conn[d].client
        BY <1>1, <1>7 DEF PortalRestart, Left, Link
    <2> QED
        BY <1>3, <2>1
<1>8. CASE UNCHANGED vars
    BY <1>3, <1>8 DEF vars
<1> QED
    BY <1>4, <1>5, <1>7, <1>8, ConnectorTries, GoneTries DEF Next, ClientStep, Crash

\* The part of AssistantIsServed and StoppedIsOffline that needs no fairness: no order of
\* close events, silences, errors, restarts and takeovers leaves a connector that was not
\* stopped without a connection and without the timer that opens one, or with
\* both; a connector that was stopped never gets either again.
THEOREM TryingCorrect == Spec => []KeepsTrying
<1>1. Init => KeepsTrying
    <2>1. ASSUME Init, NEW x \in Connector PROVE app[x] = Started /\ Socket(x) = None
        BY <2>1 DEF Init, Socket, Started
    <2>2. Started.retry = TRUE /\ Started.closed = FALSE
        BY DEF Started
    <2> QED
        BY <2>1, <2>2 DEF KeepsTrying
<1>2. TypeOK /\ InReach /\ KeepsTrying /\ [Next]_vars => (TypeOK /\ InReach /\ KeepsTrying)'
    BY TypesNext, ReachNext, TryingNext
<1> QED
    BY <1>1, <1>2, InitTypes, PTL DEF Spec
=============================================================================
