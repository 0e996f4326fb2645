---------------------------- MODULE RecordChain ----------------------------
(***************************************************************************)
(* verify_record_chain (identity/record_chain.py): what a run may believe  *)
(* of the comments it finds on its pull request.  The records of a run are *)
(* numbered from 1 and each carries the hash of the one before; an         *)
(* incident record names its predecessor explicitly, because it is written *)
(* when the chain is broken.                                               *)
(*                                                                         *)
(* A comment is a record with its id (ids grow with the creation time),    *)
(* its form (a canonical record of this run, one that carries the marker   *)
(* in a malformed way, or plain text), whether a producer of the allowlist *)
(* wrote it, whether it was edited, and its body.  Hashes are taken to be  *)
(* injective, so the hash of a body is the body.  A violation is a number  *)
(* that sorts as its binding iv:<condition>:<run>:<subject> does.          *)
(***************************************************************************)
EXTENDS Naturals, FiniteSets, FiniteSetsExt

CONSTANT Absent   \* Python's None in a marker

ASSUME AbsentIsNoNumber == Absent \notin Nat

\* A body: key, kind, seq, prev (a body or Absent), anchor (audit_prev, a
\* number or Absent) and covers (the violations an incident record names).
Anchored(b) == b.anchor # Absent

\* The conditions, in the order of their bindings.
Conditions == <<"actor", "chain", "edited", "gap", "marker", "missing", "seqconflict", "tamper">>
Violation(condition, subject) ==
  10 * (CHOOSE i \in DOMAIN Conditions : Conditions[i] = condition) + subject

\* Well-formed comments of this run by an allowed producer.
Candidates(cs) == {c \in cs : c.form = "record" /\ c.producer}
Observed(cs) == {c.body.seq : c \in Candidates(cs)}
MaxSeqOf(cs) == Max(Observed(cs) \cup {0})

\* Several comments claim one number: equal ones are harmless copies, of which
\* the oldest counts.
CandidatesAt(cs, s) == {c \in Candidates(cs) : c.body.seq = s}

\* Mutant: any two comments with one number conflict.
ConflictsOfCopies(cs) == {s \in Observed(cs) : Cardinality(CandidatesAt(cs, s)) > 1}

Conflicts(cs) ==
  {s \in Observed(cs) : \E c, d \in CandidatesAt(cs, s) : c.body # d.body}
Canonical(cs, s) ==
  CHOOSE c \in CandidatesAt(cs, s) : \A d \in CandidatesAt(cs, s) : c.id <= d.id

\* Mutant: an edited comment passes for the record it claims to be.
NoEditedSeqs(cs) == {}

EditedSeqs(cs) == {s \in Observed(cs) \ Conflicts(cs) : Canonical(cs, s).edited}
Reliable(cs) == Observed(cs) \ (Conflicts(cs) \cup EditedSeqs(cs))

Gaps(cs, n) == (1 .. Max({MaxSeqOf(cs), n})) \ Observed(cs)

\* Records the checkpoint knows (with id and body) that GitHub no longer has,
\* or has with another body.
MissingIds(cs, known) == {k.id : k \in {j \in known : \A c \in cs : c.id # j.id}}
TamperedIds(cs, known) ==
  {k.id : k \in {j \in known : \E c \in cs : c.id = j.id /\ c.body # j.body}}

\* Is the record at s linked to its predecessor, when the numbers in `broken'
\* are not?  A predecessor that is not reliable was reported already.
Linked(cs, reliable, tampered, s, broken) ==
  LET body == Canonical(cs, s).body
      eligible == {m \in reliable \ broken : m < s /\ Canonical(cs, m).id \notin tampered}
      previous == IF Anchored(body) THEN body.anchor ELSE s - 1
  IN  /\ Anchored(body) => body.anchor = Max(eligible \cup {0})
      /\ previous \in reliable => body.prev = Canonical(cs, previous).body

\* The records that are not, found in the order of their numbers.
Broken(cs, known) ==
  LET reliable == Reliable(cs)
      tampered == TamperedIds(cs, known)
      upTo[s \in 0 .. MaxSeqOf(cs)] ==
        IF s = 0 THEN {}
        ELSE UNION {b \cup {m \in {s} \cap reliable : ~Linked(cs, reliable, tampered, m, b)} :
                    b \in {upTo[s - 1]}}
  IN  upTo[MaxSeqOf(cs)]

ViolationsOf(cs, n, known) ==
       {Violation("marker", c.id) : c \in {d \in cs : d.form = "malformed"}}
  \cup {Violation("actor", c.id) : c \in {d \in cs : d.form = "record" /\ ~d.producer}}
  \cup {Violation("seqconflict", s) : s \in Conflicts(cs)}
  \cup {Violation("edited", Canonical(cs, s).id) : s \in EditedSeqs(cs)}
  \cup {Violation("gap", s) : s \in Gaps(cs, n)}
  \cup {Violation("missing", i) : i \in MissingIds(cs, known)}
  \cup {Violation("tamper", i) : i \in TamperedIds(cs, known)}
  \cup {Violation("chain", s) : s \in Broken(cs, known)}

\* ChainVerification: the records that no violation involves, and the rest.
VerifyChain(cs, n, known) ==
  [records |-> {c \in {Canonical(cs, s) : s \in Reliable(cs) \ Broken(cs, known)} :
                  c.id \notin TamperedIds(cs, known)},
   violations |-> ViolationsOf(cs, n, known),
   max_seq |-> MaxSeqOf(cs),
   high_water |-> n]

IsIntact(chain) == chain.violations = {}

-----------------------------------------------------------------------------
(* issue_transaction (workflow/transaction.py): number and link of the     *)
(* next record.                                                            *)

VerifiedTip(chain) == Max({c.body.seq : c \in chain.records} \cup {0})
VerifiedBody(chain, s) == (CHOOSE c \in chain.records : c.body.seq = s).body
LinkTo(chain, s) == IF s = 0 THEN Absent ELSE VerifiedBody(chain, s)

NextSeq(chain) == VerifiedTip(chain) + 1

\* Mutant: an incident record is numbered after the verified records.
IncidentSeqAfterVerified(chain) == VerifiedTip(chain) + 1

IncidentSeq(chain) == Max({VerifiedTip(chain), chain.max_seq, chain.high_water}) + 1
=============================================================================
