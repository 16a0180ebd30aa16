--------------------------- MODULE MCPortalRelay ---------------------------
(* Instances of PortalRelay for TLC. *)
EXTENDS PortalRelay

CONSTANTS local, prod, q

\* connectorPriority: the connector of the production host comes first.
ProdFirst == [x \in Connector |-> IF x = prod THEN 100 ELSE 0]

\* The even connections are those of the production host.
Parity == [c \in Conn |-> IF c % 2 = 0 THEN prod ELSE local]
=============================================================================
