------------------------------ MODULE MCPrLock ------------------------------
(* Five processes of two runs on two hosts: p1 and p2 share a pid on host A  *)
(* (one after the other), p3 is the same run under another pid, p4 has p1's  *)
(* run and pid on host B, p5 is another run on host A.                       *)
EXTENDS PrLock
CONSTANTS p1, p2, p3, p4, p5
MCProcs == {p1, p2, p3, p4, p5}
MCRunOf == [p \in MCProcs |-> IF p = p5 THEN "r2" ELSE "r1"]
MCHostOf == [p \in MCProcs |-> IF p = p4 THEN "B" ELSE "A"]
MCPidOf == [p \in MCProcs |-> IF p = p3 THEN 8 ELSE IF p = p5 THEN 9 ELSE 7]
=============================================================================
