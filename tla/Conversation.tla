---------------------------- MODULE Conversation ----------------------------
(***************************************************************************)
(* The comments of a pull request over time, as the controller and others  *)
(* change them, judged by verify_record_chain.  The controller posts       *)
(* records and, when the chain is broken, incident records; a post whose   *)
(* answer was lost may be repeated; a checkpoint may remember how far the  *)
(* chain was verified.  Others edit and delete comments, or write records  *)
(* of their own.                                                           *)
(***************************************************************************)
EXTENDS RecordChain

CONSTANTS Texts, MaxSeq, MaxComments, MaxChanges

ASSUME BoundsAreNat == {MaxSeq, MaxComments, MaxChanges} \subseteq Nat

VARIABLES
  comments,   \* what GitHub shows
  ids,        \* comments ever created
  issued,     \* bodies the controller has posted
  mark,       \* high-water mark of the checkpoint
  known,      \* records the checkpoint knows
  changes     \* changes made by others

vars == <<comments, ids, issued, mark, known, changes>>

Chain == VerifyChain(comments, mark, known)

Comment(i, form, producer, body) ==
  [id |-> i, form |-> form, producer |-> producer, edited |-> FALSE, body |-> body]

Init ==
  /\ comments = {} /\ ids = 0 /\ issued = {}
  /\ mark = 0 /\ known = {} /\ changes = 0

Publish(form, producer, body) ==
  /\ ids < MaxComments
  /\ ids' = ids + 1
  /\ comments' = comments \cup {Comment(ids', form, producer, body)}

\* The key stands for run, number, kind, head and payload together.
Body(k, s, prev, anchor) == [key |-> k, seq |-> s, prev |-> prev, anchor |-> anchor]

\* produce_record and the post of what it issued.
PostRecord(t) ==
  /\ IsIntact(Chain) /\ NextSeq(Chain) <= MaxSeq
  /\ LET s == NextSeq(Chain)
         body == Body(<<s, t>>, s, LinkTo(Chain, s - 1), Absent)
     IN  /\ Publish("record", TRUE, body)
         /\ issued' = issued \cup {body}
  /\ UNCHANGED <<mark, known, changes>>

NextIncident == Body(<<IncidentSeq(Chain), "incident">>, IncidentSeq(Chain),
                     LinkTo(Chain, VerifiedTip(Chain)), VerifiedTip(Chain))

PostIncident ==
  /\ ~IsIntact(Chain) /\ IncidentSeq(Chain) <= MaxSeq
  /\ Publish("record", TRUE, NextIncident)
  /\ issued' = issued \cup {NextIncident}
  /\ UNCHANGED <<mark, known, changes>>

\* ensure_comment_posted repeats a post that it could not confirm.
Repost(body) ==
  /\ \E c \in comments : c.body = body
  /\ Publish("record", TRUE, body)
  /\ UNCHANGED <<issued, mark, known, changes>>

\* The checkpoint remembers the verified records.
Remember ==
  /\ IsIntact(Chain)
  /\ mark' = Chain.max_seq
  /\ known' = {[id |-> c.id, body |-> c.body] : c \in Chain.records}
  /\ UNCHANGED <<comments, ids, issued, changes>>

\* An edit that leaves no canonical marker leaves another text.
Edits == ({"record"} \X Texts) \cup {<<"malformed", "malformed">>, <<"plain", "plain">>}

Edit(c, form, t) ==
  /\ changes < MaxChanges
  /\ comments' = (comments \ {c}) \cup
       {[c EXCEPT !.form = form, !.edited = TRUE, !.body.key = <<@[1], t>>]}
  /\ changes' = changes + 1
  /\ UNCHANGED <<ids, issued, mark, known>>

Delete(c) ==
  /\ changes < MaxChanges
  /\ comments' = comments \ {c}
  /\ changes' = changes + 1
  /\ UNCHANGED <<ids, issued, mark, known>>

\* Someone who is no producer copies a record, or anyone writes a marker that
\* is not canonical.
Imitate(c, form) ==
  /\ changes < MaxChanges
  /\ Publish(form, form = "malformed", c.body)
  /\ changes' = changes + 1
  /\ UNCHANGED <<issued, mark, known>>

Next ==
  \/ \E t \in Texts : PostRecord(t)
  \/ PostIncident
  \/ \E body \in issued : Repost(body)
  \/ Remember
  \/ \E c \in comments, e \in Edits : Edit(c, e[1], e[2])
  \/ \E c \in comments : Delete(c)
  \/ \E c \in comments, form \in {"record", "malformed"} : Imitate(c, form)

Spec == Init /\ [][Next]_vars

-----------------------------------------------------------------------------
(* Properties *)

\* While nobody else touches the conversation the chain is intact, whatever
\* was posted twice, and shows exactly what was posted (no false alarm).
NoFalseAlarm ==
  changes = 0 => IsIntact(Chain) /\ {c.body : c \in Chain.records} = issued

\* An intact chain is a gapless chain of unaltered records of the controller,
\* each linked to the one before, that includes everything the checkpoint knows
\* (conditions 1 to 7 of record_chain.py together).
IntactIsFaithful ==
  LET chain == Chain IN
  IsIntact(chain) =>
    /\ {c.body.seq : c \in chain.records} = 1 .. chain.max_seq
    /\ chain.max_seq >= mark
    /\ \A c \in chain.records :
         /\ c.body \in issued
         /\ c.body.prev = LinkTo(chain, c.body.seq - 1)
    /\ \A k \in known : \E c \in comments : c.id = k.id /\ c.body = k.body

\* An incident record is verified as soon as it is posted, however broken the
\* chain is, and hides none of the violations: it takes no number that was
\* used and closes no gap (ADR-0024 decisions 15 to 17).
IncidentIsVerifiedAndHidesNothing ==
  [][ PostIncident => /\ \E c \in Chain'.records : c.body = NextIncident
                      /\ Chain'.violations = Chain.violations ]_vars
=============================================================================
