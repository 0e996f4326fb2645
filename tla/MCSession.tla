------------------------------ MODULE MCSession ------------------------------
(* A run found in any phase, and one name for a tree at a time.              *)
EXTENDS Session
CONSTANTS t1
One == {t1}
=============================================================================
