---------------------------- MODULE PortalRelay ----------------------------
(***************************************************************************)
(* The connection between the runtimes of one assistant and the Portal     *)
(* (startPortalConnectorForScope of portal/connector.ts; relay/server.ts   *)
(* and relay/registry.ts of the Portal).  A connector opens a WebSocket,   *)
(* registers on it, sends heartbeats, and reconnects when a connection     *)
(* ends or stays silent.  The relay keeps one connector per assistant,     *)
(* sends it the requests of the Portal's HTTP handlers and forgets it when *)
(* a connection closes or the heartbeats stop.                             *)
(*                                                                         *)
(* All connections of a connector share its variables, and a late callback *)
(* does not look which connection it speaks of.  A connection keeps the    *)
(* order of its messages and gives each end a close event; nothing orders  *)
(* two connections, except that the five seconds before a reconnect are    *)
(* enough to open or to close one unless the network or a process stalls.  *)
(* Heartbeats and acknowledgements are no messages here: Beating says when *)
(* they get through.  Progress events, the synchronisation of              *)
(* conversations and the limit of concurrent chats are left out.           *)
(***************************************************************************)
EXTENDS Naturals, Sequences

CONSTANTS
    Connector,   \* the connector ids of the assistant
    Priority,    \* connectorPriority
    Conn,        \* bound: the connections that are not gone at both ends yet
    OwnerOf,     \* the connector that opens a connection
    Request,     \* the requests of the Portal
    MaxFaults,   \* bound: broken connections, stalls and deaths of a process
    None

ASSUME RelayAssumption ==
    /\ Priority \in [Connector -> Nat] /\ OwnerOf \in [Conn -> Connector]
    /\ Conn \subseteq Nat /\ MaxFaults \in Nat
    /\ None \notin Connector \cup Conn /\ "register" \notin Request

VARIABLES
    app,      \* the variables of startPortalConnectorForScope, for each connector
    conn,     \* the connections: both ends, `registered` of the relay, the wire
    active,   \* byAssistant: the connector of the assistant
    entry,    \* byConnector: the connection a registered connector is reached by
    via,      \* the connection in whose outboundPending a request waits
    run,      \* who runs a request, and the socket the answer will go to
    faults    \* counts towards MaxFaults

registry == <<active, entry>>
requests == <<via, run>>
vars == <<app, conn, registry, requests, faults>>

NoConn == [client |-> "none", relay |-> "none", reg |-> FALSE, cut |-> FALSE,
           up |-> <<>>, down |-> <<>>]
NotRun == [by |-> None, on |-> None]
Started == [socket |-> None, retry |-> TRUE, closed |-> FALSE]

Init ==
    /\ app = [x \in Connector |-> Started]
    /\ conn = [c \in Conn |-> NoConn]
    /\ active = None /\ entry = [x \in Connector |-> None]
    /\ via = [r \in Request |-> None]
    /\ run = [r \in Request |-> NotRun]
    /\ faults = 0

Fault == faults < MaxFaults /\ faults' = faults + 1
Normal == UNCHANGED faults

Socket(x) == app[x].socket
Mine(x) == {c \in Conn : OwnerOf[c] = x /\ conn[c] # NoConn}
Open(c) == c # None /\ conn[c].client = "open"
Attached(c) == conn[c].relay \in {"open", "closing"}

\* A connection both ends are done with is forgotten.
Left(record) ==
    IF record.client = "none" /\ record.relay \in {"none", "closed"} THEN NoConn ELSE record
-----------------------------------------------------------------------------
(* The connector *)

\* Slip: The reconnect timer is not set.
CleanedUpOnly(x) == [app[x] EXCEPT !.socket = None]

\* cleanupSocket, then scheduleReconnect
CleanedUp(x) == [app[x] EXCEPT !.socket = None, !.retry = @ \/ ~app[x].closed]

\* close() of a socket, which may be gone already
Shut(c) ==
    IF c # None /\ conn[c].client \in {"connecting", "open"}
    THEN [conn EXCEPT ![c].client = "closing"] ELSE conn

\* The close events of the connections that were closed in order have arrived.
HandshakesDone(x) ==
    \A c \in Mine(x) : conn[c].cut \/ (conn[c].client = "open" /\ conn[c].relay = "open")

\* The reconnect timer fires; an attempt that hangs has failed by then.
Connect(x, c) ==
    /\ app[x].retry
    /\ OwnerOf[c] = x /\ conn[c] = NoConn
    /\ \A d \in Conn : OwnerOf[d] = x /\ conn[d] = NoConn => c <= d
    /\ \A d \in Mine(x) : conn[d].client = "connecting" => conn[d].cut
    /\ IF HandshakesDone(x) THEN Normal ELSE Fault
    /\ app' = [app EXCEPT ![x].socket = c, ![x].retry = FALSE]
    /\ conn' = [conn EXCEPT ![c].client = "connecting"]
    /\ UNCHANGED <<registry, requests>>

\* The relay has accepted.  REGISTER goes out unless a late callback of another
\* connection took the socket away.
Opened(c) ==
    /\ conn[c].client = "connecting" /\ ~conn[c].cut
    /\ conn' = [conn EXCEPT ![c].client = "open", ![c].relay = "open",
                            ![c].up = IF Socket(OwnerOf[c]) = c THEN <<"register">> ELSE <<>>]
    /\ UNCHANGED <<app, registry, requests, faults>>

\* The liveness timer calls forceReconnect after 45 seconds without a message.
Quiet(x) ==
    /\ Open(Socket(x))
    /\ IF conn[Socket(x)].cut THEN Normal ELSE Fault
    /\ app' = [app EXCEPT ![x] = CleanedUp(x)]
    /\ conn' = Shut(Socket(x))
    /\ UNCHANGED <<registry, requests>>

\* The close event, after an error event if the connection broke.  Both handlers
\* clean up the current socket, and the one of errors closes it.
ClientGone(c, error) ==
    LET x == OwnerOf[c]
        after == IF error THEN Shut(Socket(x)) ELSE conn
    IN /\ \/ conn[c].client = "closing"
          \/ conn[c].client \in {"connecting", "open"} /\ conn[c].cut
          \/ /\ conn[c].client = "open" /\ conn[c].relay \in {"closing", "closed"}
             /\ conn[c].down = <<>>
       /\ error => conn[c].cut
       /\ app' = [app EXCEPT ![x] = CleanedUp(x)]
       /\ conn' = [after EXCEPT ![c] = Left([@ EXCEPT !.client = "none", !.down = <<>>])]
       /\ run' = [r \in Request |-> IF run[r].on = c THEN [run[r] EXCEPT !.on = None] ELSE run[r]]
       /\ UNCHANGED <<registry, via, faults>>

\* A request arrives.  The socket its answer will go to is read before the await.
Receive(c) ==
    LET x == OwnerOf[c]
        r == Head(conn[c].down)
    IN /\ Open(c) /\ ~conn[c].cut /\ conn[c].down # <<>>
       /\ conn' = [conn EXCEPT ![c].down = Tail(@)]
       /\ run' = IF Socket(x) = None THEN run
                 ELSE [run EXCEPT ![r] = [by |-> x, on |-> Socket(x)]]
       /\ UNCHANGED <<app, registry, via, faults>>

\* send: nothing leaves a socket that is not open, nothing arrives over a broken one.
Sent(d, r) ==
    IF Open(d) /\ ~conn[d].cut THEN [conn EXCEPT ![d].up = Append(@, r)] ELSE conn

Answer(r) ==
    /\ run[r] # NotRun
    /\ conn' = Sent(run[r].on, r)
    /\ run' = [run EXCEPT ![r] = NotRun]
    /\ UNCHANGED <<app, registry, via, faults>>

\* The process is gone and starts again; an archived project gets no connector.
Dies(x) ==
    /\ app' = [app EXCEPT ![x] = [Started EXCEPT !.retry = ~app[x].closed,
                                                 !.closed = app[x].closed]]
    /\ conn' = [c \in Conn |-> IF c \in Mine(x)
                               THEN Left([conn[c] EXCEPT !.client = "none", !.down = <<>>])
                               ELSE conn[c]]
    /\ run' = [r \in Request |-> IF run[r].by = x THEN NotRun ELSE run[r]]

\* The catch block reads the socket again.  Without one it throws in its turn, and
\* the unhandled rejection ends the process.
Fails(r) ==
    LET x == run[r].by
    IN /\ run[r] # NotRun
       /\ \/ /\ Socket(x) # None
             /\ conn' = Sent(Socket(x), r)
             /\ run' = [run EXCEPT ![r] = NotRun]
             /\ UNCHANGED app
          \/ Socket(x) = None /\ Dies(x)
       /\ UNCHANGED <<registry, via, faults>>

\* stop(): the project was archived.
Stop(x) ==
    /\ ~app[x].closed
    /\ app' = [app EXCEPT ![x] = [socket |-> None, retry |-> FALSE, closed |-> TRUE]]
    /\ conn' = Shut(Socket(x))
    /\ UNCHANGED <<registry, requests, faults>>
-----------------------------------------------------------------------------
(* The relay *)

\* Slip: The connector keeps its place in byConnector.
UnregisterAssistant(x) == UNCHANGED entry /\ active' = IF active = x THEN None ELSE active

\* ConnectorRegistry.unregister
Unregister(x) ==
    /\ entry' = [entry EXCEPT ![x] = None]
    /\ active' = IF active = x THEN None ELSE active

\* handleRegister, with register of the registry: a connector of higher priority
\* takes over, any other is refused while the assistant has one.
Register(c) ==
    LET x == OwnerOf[c]
        read == [conn EXCEPT ![c].up = Tail(@)]
    IN /\ Attached(c) /\ conn[c].up # <<>> /\ Head(conn[c].up) = "register"
       /\ \/ /\ active \in {None, x}
             /\ entry' = [entry EXCEPT ![x] = c] /\ active' = x
             /\ conn' = [read EXCEPT ![c].reg = TRUE]
          \/ /\ active \notin {None, x} /\ Priority[x] > Priority[active]
             /\ entry' = [entry EXCEPT ![active] = None, ![x] = c] /\ active' = x
             /\ conn' = [read EXCEPT ![c].reg = TRUE, ![entry[active]].relay = "closing"]
          \/ /\ active \notin {None, x} /\ Priority[x] <= Priority[active]
             /\ conn' = [read EXCEPT ![c].relay = "closing"]
             /\ UNCHANGED registry
       /\ UNCHANGED <<app, requests, faults>>

\* A reply resolves the request if it waits on the connection the reply comes over.
Reply(c) ==
    LET r == Head(conn[c].up)
    IN /\ Attached(c) /\ conn[c].up # <<>> /\ r # "register"
       /\ conn' = [conn EXCEPT ![c].up = Tail(@)]
       /\ via' = IF via[r] = c THEN [via EXCEPT ![r] = None] ELSE via
       /\ UNCHANGED <<app, registry, run, faults>>

\* Slip: Nobody tells those who wait.
ResolvedLater(lost) == UNCHANGED via

\* CONNECTOR_OFFLINE for everybody who waits on a connection that is lost
Resolved(lost) == via' = [r \in Request |-> IF via[r] \in lost THEN None ELSE via[r]]

\* Both close listeners.  The connector is unregistered whichever connection its
\* entry names by now.
RelayClosed(c) ==
    /\ Attached(c)
    /\ conn[c].cut \/ (conn[c].client \in {"closing", "none"} /\ conn[c].up = <<>>)
    /\ IF conn[c].reg THEN Unregister(OwnerOf[c]) ELSE UNCHANGED registry
    /\ Resolved({c})
    /\ conn' = [conn EXCEPT ![c] = Left([@ EXCEPT !.relay = "closed", !.reg = FALSE, !.up = <<>>])]
    /\ UNCHANGED <<app, run, faults>>

\* The heartbeats go over the current socket and count for the connector.
Beating(x) ==
    LET c == Socket(x)
    IN Open(c) /\ Attached(c) /\ conn[c].reg /\ ~conn[c].cut

\* Slip: The reaper looks at the connections that are closed.
ReapClosed(x) ==
    /\ entry[x] # None /\ conn[entry[x]].client = "none"
    /\ IF Beating(x) THEN Fault ELSE Normal
    /\ Unregister(x)
    /\ UNCHANGED <<app, conn, requests>>

\* reapStale: 45 seconds without a heartbeat.  The connection is left alone.
Reap(x) ==
    /\ entry[x] # None
    /\ IF Beating(x) THEN Fault ELSE Normal
    /\ Unregister(x)
    /\ UNCHANGED <<app, conn, requests>>

InFlight(r) ==
    \E c \in Conn : \/ \E i \in DOMAIN conn[c].up : conn[c].up[i] = r
                    \/ \E i \in DOMAIN conn[c].down : conn[c].down[i] = r

\* sendConnectorRequest.  Without a connector it returns at once; an id is not used
\* again while anything of it is left.
Ask(r) ==
    LET c == entry[active]
    IN /\ active # None /\ via[r] = None /\ run[r] = NotRun /\ ~InFlight(r)
       /\ via' = [via EXCEPT ![r] = c]
       /\ conn' = IF conn[c].relay = "open" /\ conn[c].client # "none" /\ ~conn[c].cut
                  THEN [conn EXCEPT ![c].down = Append(@, r)] ELSE conn
       /\ UNCHANGED <<app, registry, run, faults>>

TimesOut(r) ==
    /\ via[r] # None
    /\ via' = [via EXCEPT ![r] = None]
    /\ UNCHANGED <<app, conn, registry, run, faults>>
-----------------------------------------------------------------------------
(* Faults *)

\* Nothing gets through any more.  The two ends notice it on their own, or never.
Cut(c) ==
    /\ conn[c] # NoConn /\ ~conn[c].cut
    /\ Fault
    /\ conn' = [conn EXCEPT ![c].cut = TRUE, ![c].up = <<>>, ![c].down = <<>>]
    /\ UNCHANGED <<app, registry, requests>>

Crash(x) == Fault /\ Dies(x) /\ UNCHANGED <<registry, via>>

\* The relay and the HTTP handlers are one process; the registry lives in it.
PortalRestart ==
    /\ Fault
    /\ active' = None /\ entry' = [x \in Connector |-> None]
    /\ Resolved(Conn)
    /\ conn' = [c \in Conn |->
                  IF Attached(c)
                  THEN Left([conn[c] EXCEPT !.relay = "closed", !.reg = FALSE, !.up = <<>>])
                  ELSE conn[c]]
    /\ UNCHANGED <<app, run>>
-----------------------------------------------------------------------------
RelayStep(c) == Register(c) \/ Reply(c) \/ RelayClosed(c)
ClientStep(c) == Receive(c) \/ ClientGone(c, TRUE) \/ ClientGone(c, FALSE)

Next ==
    \/ \E x \in Connector : \/ Quiet(x) \/ Stop(x) \/ Reap(x) \/ Crash(x)
                            \/ \E c \in Conn : Connect(x, c)
    \/ \E c \in Conn : Opened(c) \/ ClientStep(c) \/ RelayStep(c) \/ Cut(c)
    \/ \E r \in Request : Ask(r) \/ Answer(r) \/ Fails(r) \/ TimesOut(r)
    \/ PortalRestart

\* Timers fire, callbacks run and commands end; an attempt to connect over a broken
\* network fails.  Whether anybody notices that an open connection broke, and
\* whether a request times out, is left open.
Fairness ==
    /\ \A x \in Connector :
         /\ WF_vars(\E c \in Conn : Connect(x, c) /\ Normal)
         /\ WF_vars(Quiet(x) /\ Normal) /\ WF_vars(Reap(x) /\ Normal)
    /\ \A c \in Conn :
         /\ WF_vars(Opened(c)) /\ WF_vars(~conn[c].cut /\ RelayStep(c))
         /\ WF_vars((conn[c].cut => conn[c].client = "connecting") /\ ClientStep(c))
    /\ \A r \in Request : WF_vars(Answer(r) \/ Fails(r))

Spec == Init /\ [][Next]_vars /\ Fairness
-----------------------------------------------------------------------------
(* Properties *)

Link == [client : {"none", "connecting", "open", "closing"},
         relay : {"none", "open", "closing", "closed"},
         reg : BOOLEAN, cut : BOOLEAN,
         up : Seq({"register"} \cup Request), down : Seq(Request)]

\* Connectors, connections, the registry and the requests keep their types.
TypeOK ==
    /\ app \in [Connector -> [socket : Conn \cup {None}, retry : BOOLEAN, closed : BOOLEAN]]
    /\ conn \in [Conn -> Link]
    /\ active \in Connector \cup {None}
    /\ entry \in [Connector -> Conn \cup {None}]
    /\ via \in [Request -> Conn \cup {None}]
    /\ run \in [Request -> {NotRun} \cup [by : Connector, on : Conn \cup {None}]]
    /\ faults \in 0..MaxFaults

\* The connector the assistant is reached through: the registry names the connection
\* it uses itself.
Served(x) ==
    /\ active = x /\ Open(Socket(x)) /\ entry[x] = Socket(x)
    /\ conn[Socket(x)].relay = "open" /\ ~conn[Socket(x)].cut

\* A connector that was registered on the connection it uses, gets its heartbeats
\* acknowledged, and is not, or not by this connection, in the registry any more.
Orphan(x) == Beating(x) /\ entry[x] # Socket(x)

\* "connector reconnects": after the last fault the assistant is back for good, over
\* connections that broke unnoticed, late close events, restarts of either side and
\* takeovers.  There is one way to stay offline, that of an orphan.
AssistantIsServed ==
    <>[](\/ \A x \in Connector : app[x].closed
         \/ \E x \in Connector : Served(x) \/ Orphan(x))

\* A stopped connector leaves the registry and does not return, also when it has
\* left connections open that nobody closes.
StoppedIsOffline == <>[](\A x \in Connector : app[x].closed => entry[x] = None)

\* The connector has lost sight of a connection that is still open.
Abandoned(c) == conn[c].cut \/ (conn[c].client = "open" /\ Socket(OwnerOf[c]) # c)

\* Who waits for a reply gets it, or hears that the assistant is offline, and need
\* not wait for the time limit of minutes, unless the connection broke unnoticed or was
\* abandoned by the connector.
WaitersAreTold ==
    \A r \in Request : via[r] # None ~> via[r] = None \/ Abandoned(via[r])

\* The registry has one connector and hands out a connection whose close event is
\* still to come at the relay; so is that of every connection somebody waits on.
InReach ==
    /\ \A x \in Connector :
         /\ entry[x] # None <=> active = x
         /\ entry[x] # None => /\ OwnerOf[entry[x]] = x /\ Attached(entry[x])
                               /\ conn[entry[x]].reg
    /\ \A r \in Request : via[r] # None => Attached(via[r])
=============================================================================
