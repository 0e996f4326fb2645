---------------------------- MODULE MCTreeLedger ----------------------------
(* Two headless hosts, for instance the coder and a reviewer.                *)
EXTENDS TreeLedger
CONSTANTS h1, h2
Two == {h1, h2}
=============================================================================
