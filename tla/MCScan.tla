------------------------------- MODULE MCScan -------------------------------
(* A small instance of Scan for TLC. *)
EXTENDS Scan
MCRoles == {"line", "alias"}
MCPenalty == [r \in MCRoles |-> IF r = "line" THEN 0 ELSE 1]
\* Keys against the order of the slots, and one shipped again after its slot died.
MCHoldings == {<<3, 2, 1>>, <<2, 1, 2>>}
MCAsides == {{}, {<<1, 3>>, <<3, 1>>}, {<<2, 1>>, <<3, 1>>, <<3, 2>>}}
=============================================================================
