------------------------------ MODULE UserWait ------------------------------
(***************************************************************************)
(* What the exchange with the user promises (ADR-0018): the run asks one   *)
(* thing at a time; a wait ends with the answer that is taken for it, or   *)
(* lapses because the run moved on; and a wait that is over is never       *)
(* opened again, so that nothing is taken for it twice.                    *)
(***************************************************************************)
EXTENDS Naturals

VARIABLES
  open,    \* the number of the wait that is open, or 0
  opened,  \* how many waits there have been
  taken    \* the waits whose answer was taken

wvars == <<open, opened, taken>>

WaitInit == open \in {0, opened} /\ opened \in {0, 1} /\ taken = {}

\* The run starts to wait for its user.
OpenWait ==
  /\ open = 0
  /\ opened' = opened + 1 /\ open' = opened'
  /\ UNCHANGED taken

\* The answer is taken, and the wait is over.
TakeAnswer ==
  /\ open # 0 /\ open' = 0
  /\ taken' = taken \cup {open}
  /\ UNCHANGED opened

\* The run no longer waits, without an answer.
Lapse ==
  /\ open # 0 /\ open' = 0
  /\ UNCHANGED <<opened, taken>>

WaitNext == OpenWait \/ TakeAnswer \/ Lapse

WaitSpec == WaitInit /\ [][WaitNext]_wvars
=============================================================================
