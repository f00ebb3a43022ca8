------------------------------ MODULE MCPlugin ------------------------------
(* One cpu of four addresses: a straight line, a branch and a tight loop.  *)
(* A breakpoint at l1 is at address 2; l2 resolves to nothing.             *)
EXTENDS M68KPlugin

CONSTANTS l1, l2

MCLocations == {l1, l2}
MCAddrs == 0 .. 3
MCSuccessors == [a \in MCAddrs |-> CASE a = 0 -> {1}
                                     [] a = 1 -> {2, 3}
                                     [] a = 2 -> {0}
                                     [] a = 3 -> {3}]
MCResolve == [loc \in MCLocations |-> IF loc = l1 THEN 2 ELSE NoPC]
=============================================================================
