------------------------- MODULE ConversationProofs -------------------------
(***************************************************************************)
(* Every state of the conversation, whatever the controller and others     *)
(* have done: what an intact chain shows, that nothing but a change by     *)
(* others breaks it, and that an incident record hides nothing.  The       *)
(* bounds of Conversation may have any values.                             *)
(***************************************************************************)
EXTENDS Conversation, RecordChainProofs

\* The shape of a body and of a comment.  Keys and texts may be anything.
BodyFields(b) == b = [key |-> b.key, seq |-> b.seq, prev |-> b.prev, anchor |-> b.anchor]
IsBody(b) == BodyFields(b) /\ b.seq \in 1 .. MaxSeq

CommentFields(c) ==
  c = [id |-> c.id, form |-> c.form, producer |-> c.producer, edited |-> c.edited,
       body |-> c.body]
IsComment(c) ==
  /\ CommentFields(c) /\ c.edited \in BOOLEAN
  /\ c.id \in 1 .. ids
  /\ IsBody(c.body)

\* Comments and records are numbered within the bounds.
TypeInv ==
  /\ ids \in Nat /\ mark \in Nat /\ changes \in Nat
  /\ \A c \in comments : IsComment(c)
  /\ \A b \in issued : IsBody(b)
  /\ \A k \in known : k.id \in 1 .. ids

\* An unaltered record of a producer was issued, and the first record of a
\* chain has no predecessor.
IssuedInv ==
  /\ \A c \in comments : c.form = "record" /\ c.producer /\ ~c.edited => c.body \in issued
  /\ \A b \in issued : b.seq = 1 => b.prev = Absent

\* Without changes by others the conversation shows one line of records, and
\* the checkpoint knows some of them.
CleanInv ==
  changes = 0 =>
    \E n \in 0 .. MaxSeq :
      /\ IsLine(issued, n) /\ Shows(comments, issued)
      /\ mark \in 0 .. n
      /\ \A k \in known : \E c \in comments : c.id = k.id /\ c.body = k.body
      /\ \A c, d \in comments : c.id = d.id => c = d

\* The inductive invariant.
ConvInv == TypeInv /\ IssuedInv /\ CleanInv

-----------------------------------------------------------------------------
(* What the verification gives in such a state.                            *)

\* The lemmas on RecordChain apply to the comments.
LEMMA TypeNumbered == TypeInv => MaxSeq \in Nat /\ Numbered(comments, MaxSeq)
<1>. SUFFICES ASSUME TypeInv PROVE MaxSeq \in Nat /\ Numbered(comments, MaxSeq)
  OBVIOUS
<1>1. MaxSeq \in Nat
  BY BoundsAreNat
<1>2. \A c \in comments : c.id \in Nat /\ c.body.seq \in 1 .. MaxSeq
  BY DEF TypeInv, IsComment, IsBody
<1>. QED
  BY <1>1, <1>2 DEF Numbered, Candidates

\* When an ID names one comment, a noted comment that is there is unaltered.
LEMMA CleanKnows ==
  ASSUME NEW cs, NEW ks, \A k \in ks : \E c \in cs : c.id = k.id /\ c.body = k.body,
         \A c, d \in cs : c.id = d.id => c = d
  PROVE  Knows(cs, ks)
  BY DEF Knows

\* An untouched conversation verifies as the line of the issued records.
LEMMA CleanChain ==
  ASSUME ConvInv, changes = 0
  PROVE  \E n \in Nat :
           /\ IsLine(issued, n) /\ Shows(comments, issued)
           /\ IsIntact(Chain)
           /\ {c.body : c \in Chain.records} = issued
           /\ Chain.max_seq = n
           /\ VerifiedTip(Chain) = n
           /\ n # 0 => LinkTo(Chain, n) \in issued /\ LinkTo(Chain, n).seq = n
           /\ n = 0 => LinkTo(Chain, n) = Absent
<1>1. PICK n \in 0 .. MaxSeq :
        /\ IsLine(issued, n) /\ Shows(comments, issued)
        /\ mark \in 0 .. n
        /\ \A k \in known : \E c \in comments : c.id = k.id /\ c.body = k.body
        /\ \A c, d \in comments : c.id = d.id => c = d
  BY DEF ConvInv, CleanInv
<1>2. Knows(comments, known)
  BY <1>1, CleanKnows
<1>3. LET chain == VerifyChain(comments, mark, known) IN
      /\ IsIntact(chain)
      /\ {c.body : c \in chain.records} = issued
      /\ chain.max_seq = n
      /\ VerifiedTip(chain) = n
      /\ n # 0 => LinkTo(chain, n) \in issued /\ LinkTo(chain, n).seq = n
      /\ n = 0 => LinkTo(chain, n) = Absent
  BY <1>1, <1>2, LineIsIntact
<1>. QED
  BY <1>1, <1>3 DEF Chain

\* So it is intact.
LEMMA InvNoFalseAlarm == ConvInv => NoFalseAlarm
  BY CleanChain DEF NoFalseAlarm

\* An intact chain consists of issued records that are linked without a gap.
LEMMA InvFaithful == ConvInv => IntactIsFaithful
<1>. SUFFICES ASSUME ConvInv, IsIntact(Chain)
              PROVE  /\ {c.body.seq : c \in Chain.records} = 1 .. Chain.max_seq
                     /\ Chain.max_seq >= mark
                     /\ \A c \in Chain.records :
                          /\ c.body \in issued
                          /\ c.body.prev = LinkTo(Chain, c.body.seq - 1)
                     /\ \A k \in known : \E c \in comments : c.id = k.id /\ c.body = k.body
  BY DEF IntactIsFaithful
<1>1. MaxSeq \in Nat /\ Numbered(comments, MaxSeq) /\ mark \in Nat
  BY TypeNumbered DEF ConvInv, TypeInv
<1>2. LET chain == VerifyChain(comments, mark, known) IN
      /\ {c.body.seq : c \in chain.records} = 1 .. chain.max_seq
      /\ chain.max_seq \in Nat
      /\ chain.max_seq >= mark
      /\ Observed(comments) = 1 .. chain.max_seq
      /\ \A c \in chain.records :
           /\ c \in Candidates(comments) /\ ~c.edited
           /\ c.body.seq > 1 => c.body.prev = LinkTo(chain, c.body.seq - 1)
      /\ \A k \in known : \E c \in comments : c.id = k.id /\ c.body = k.body
  BY <1>1, IntactChain DEF Chain
<1>3. /\ {c.body.seq : c \in Chain.records} = 1 .. Chain.max_seq
      /\ Chain.max_seq \in Nat
      /\ Chain.max_seq >= mark
      /\ \A c \in Chain.records :
           /\ c \in Candidates(comments) /\ ~c.edited
           /\ c.body.seq > 1 => c.body.prev = LinkTo(Chain, c.body.seq - 1)
      /\ \A k \in known : \E c \in comments : c.id = k.id /\ c.body = k.body
  BY <1>2 DEF Chain
<1>4. ASSUME NEW c \in Chain.records
      PROVE  c.body \in issued /\ c.body.prev = LinkTo(Chain, c.body.seq - 1)
  <2>1. c.body \in issued
    BY <1>3 DEF Candidates, ConvInv, IssuedInv
  <2>2. c.body.seq \in Nat /\ c.body.seq >= 1
    BY <2>1 DEF ConvInv, TypeInv, IsBody
  <2>3. CASE c.body.seq = 1
    <3>1. c.body.seq - 1 = 0
      BY <2>3
    <3>. QED
      BY <2>1, <2>3, <3>1 DEF ConvInv, IssuedInv, LinkTo
  <2>4. CASE c.body.seq # 1
    <3>1. c.body.seq > 1
      BY <2>2, <2>4
    <3>. QED
      BY <1>3, <2>1, <3>1
  <2>. QED
    BY <2>3, <2>4
<1>. QED
  BY <1>3, <1>4

-----------------------------------------------------------------------------
(* The invariant is inductive.                                             *)

\* An empty conversation is the line of no records.
LEMMA ConvInit == Init => ConvInv
<1>. SUFFICES ASSUME Init PROVE ConvInv
  OBVIOUS
<1>1. TypeInv /\ IssuedInv
  BY DEF Init, TypeInv, IssuedInv
<1>2. 0 \in 0 .. MaxSeq /\ 0 \in 0 .. 0
  BY BoundsAreNat
<1>3. IsLine({}, 0) /\ Shows({}, {})
  BY DEF IsLine, Shows
<1>4. CleanInv
  BY <1>2, <1>3 DEF Init, CleanInv
<1>. QED
  BY <1>1, <1>4 DEF ConvInv

\* A new comment keeps the types, if its body has one.
LEMMA PublishTypes ==
  ASSUME TypeInv, NEW form, NEW producer, NEW body, IsBody(body),
         Publish(form, producer, body)
  PROVE  /\ ids' = ids + 1 /\ ids' \in Nat
         /\ comments' = comments \cup {Comment(ids + 1, form, producer, body)}
         /\ (\A c \in comments : IsComment(c))'
         /\ \A c \in comments : c.id # ids + 1
         /\ \A k \in known : k.id \in 1 .. ids' /\ k.id # ids + 1
<1>. DEFINE new == Comment(ids + 1, form, producer, body)
<1>1. ids \in Nat /\ ids' = ids + 1 /\ ids' \in Nat /\ comments' = comments \cup {new}
  BY DEF Publish, TypeInv
<1>2. /\ new.id = ids + 1 /\ new.form = form /\ new.producer = producer
      /\ ~new.edited /\ new.edited \in BOOLEAN /\ new.body = body /\ CommentFields(new)
  BY DEF Comment, CommentFields
<1>. HIDE DEF new
<1>3. \A i \in 1 .. ids : i \in 1 .. ids' /\ i # ids + 1
  BY <1>1
<1>4. ids + 1 \in 1 .. ids'
  BY <1>1
<1>5. ASSUME NEW c \in comments' PROVE IsComment(c)'
  <2>1. CASE c \in comments
    BY <1>3, <2>1 DEF TypeInv, IsComment, IsBody, CommentFields, BodyFields
  <2>2. CASE c = new
    BY <1>2, <1>4, <2>2 DEF IsComment, IsBody, CommentFields, BodyFields
  <2>. QED
    BY <1>1, <2>1, <2>2
<1>6. \A c \in comments : c.id # ids + 1
  BY <1>3 DEF TypeInv, IsComment
<1>7. \A k \in known : k.id \in 1 .. ids' /\ k.id # ids + 1
  BY <1>3 DEF TypeInv
<1>. QED
  BY <1>1, <1>2, <1>5, <1>6, <1>7 DEF new

\* produce_record and the post: the record continues the line.
LEMMA PostRecordKeeps ==
  ASSUME ConvInv, NEW t \in Texts, PostRecord(t)
  PROVE  ConvInv'
<1>. DEFINE s == NextSeq(Chain)
            body == Body(<<s, t>>, s, LinkTo(Chain, s - 1), Absent)
<1>1. /\ s <= MaxSeq /\ Publish("record", TRUE, body) /\ issued' = issued \cup {body}
      /\ UNCHANGED <<mark, known, changes>>
  BY DEF PostRecord
<1>2. VerifiedTip(Chain) \in Nat
  BY TypeNumbered, TipType DEF Chain, ConvInv
<1>3. s = VerifiedTip(Chain) + 1 /\ s \in 1 .. MaxSeq /\ s - 1 = VerifiedTip(Chain)
  BY <1>1, <1>2, BoundsAreNat DEF NextSeq
<1>4. /\ body.seq = s /\ body.prev = LinkTo(Chain, s - 1) /\ body.anchor = Absent
      /\ BodyFields(body)
  BY DEF Body, BodyFields
<1>. HIDE DEF body, s
<1>5. IsBody(body)
  BY <1>1, <1>3, <1>4 DEF IsBody
<1>. DEFINE new == Comment(ids + 1, "record", TRUE, body)
<1>6. /\ ids' = ids + 1 /\ ids' \in Nat
      /\ comments' = comments \cup {new}
      /\ (\A c \in comments : IsComment(c))'
      /\ \A c \in comments : c.id # ids + 1
      /\ \A k \in known : k.id \in 1 .. ids' /\ k.id # ids + 1
  BY <1>1, <1>5, PublishTypes DEF ConvInv
<1>61. /\ new.id = ids + 1 /\ new.form = "record" /\ new.producer
       /\ ~new.edited /\ new.body = body
  BY DEF Comment
<1>. HIDE DEF new
<1>62. new.id \in Nat
  BY <1>6, <1>61
<1>7. TypeInv'
  BY <1>1, <1>5, <1>6 DEF ConvInv, TypeInv, IsBody
<1>8. IssuedInv'
  <2>1. body.seq = 1 => body.prev = Absent
    BY <1>3, <1>4 DEF LinkTo
  <2>. QED
    BY <1>1, <1>6, <1>61, <2>1 DEF ConvInv, IssuedInv
<1>9. CleanInv'
  <2>. SUFFICES ASSUME changes = 0 PROVE CleanInv'
    BY <1>1 DEF CleanInv
  <2>1. PICK n \in Nat :
           /\ IsLine(issued, n) /\ Shows(comments, issued)
           /\ Chain.max_seq = n
           /\ VerifiedTip(Chain) = n
           /\ n # 0 => LinkTo(Chain, n) \in issued /\ LinkTo(Chain, n).seq = n
    BY CleanChain
  <2>2. PICK m \in 0 .. MaxSeq :
          /\ IsLine(issued, m) /\ Shows(comments, issued)
          /\ mark \in 0 .. m
          /\ \A k \in known : \E c \in comments : c.id = k.id /\ c.body = k.body
          /\ \A c, d \in comments : c.id = d.id => c = d
    BY DEF ConvInv, CleanInv
  <2>3. m = n
    <3>1. 1 .. m = 1 .. n /\ m \in Nat
      BY <2>1, <2>2, BoundsAreNat DEF IsLine
    <3>. QED
      BY <3>1
  <2>4. s = n + 1 /\ n + 1 \in 0 .. MaxSeq /\ mark \in 0 .. n + 1
    BY <1>3, <2>1, <2>2, <2>3
  <2>5. IsLine(issued', n + 1)
    <3>1. ~Anchored(body)
      BY <1>4 DEF Anchored
    <3>2. n # 0 => body.prev \in issued /\ body.prev.seq = n
      BY <1>3, <1>4, <2>1
    <3>. QED
      BY <1>1, <1>4, <2>1, <2>4, <3>1, <3>2, LineExtended
  <2>6. Shows(comments', issued')
    BY <1>1, <1>6, <1>61, <1>62, <2>1 DEF Shows
  <2>7. \A k \in known' : \E c \in comments' : c.id = k.id /\ c.body = k.body
    BY <1>1, <1>6, <2>2
  <2>8. \A c, d \in comments' : c.id = d.id => c = d
    BY <1>6, <1>61, <2>2
  <2>. QED
    BY <1>1, <2>4, <2>5, <2>6, <2>7, <2>8 DEF CleanInv
<1>. QED
  BY <1>7, <1>8, <1>9 DEF ConvInv

\* An incident record is posted only after others have changed something.
LEMMA PostIncidentKeeps ==
  ASSUME ConvInv, PostIncident
  PROVE  ConvInv'
<1>. DEFINE body == NextIncident
            q == IncidentSeq(Chain)
            tip == VerifiedTip(Chain)
<1>1. /\ ~IsIntact(Chain) /\ q <= MaxSeq /\ Publish("record", TRUE, body)
      /\ issued' = issued \cup {body}
      /\ UNCHANGED <<mark, known, changes>>
  BY DEF PostIncident
<1>2. MaxSeq \in Nat /\ Numbered(comments, MaxSeq) /\ mark \in Nat
  BY TypeNumbered DEF ConvInv, TypeInv
<1>3. IsAbove(comments, mark, q) /\ tip \in Nat /\ tip <= MaxSeqOf(comments)
  BY <1>2, IncidentNumber, TipType DEF Chain
<1>4. /\ body.seq = q /\ body.prev = LinkTo(Chain, tip) /\ body.anchor = tip
      /\ BodyFields(body)
  BY DEF NextIncident, Body, BodyFields
<1>5. q \in 1 .. MaxSeq
  BY <1>1, <1>2, <1>3 DEF IsAbove
<1>6. q = 1 => tip = 0
  <2>. SUFFICES ASSUME q = 1 PROVE tip = 0
    OBVIOUS
  <2>1. tip \in Verified(comments, known) \cup {0}
    BY <1>2, TipType DEF Chain
  <2>2. Verified(comments, known) \in SUBSET Observed(comments)
    BY <1>2, VerifiedRecords
  <2>3. Observed(comments) \in SUBSET (1 .. MaxSeq)
    BY <1>2, ObservedType
  <2>4. \A s \in Observed(comments) : s < 1 /\ s \in Nat /\ s >= 1
    BY <1>2, <1>3, <2>3 DEF IsAbove
  <2>. QED
    BY <2>1, <2>2, <2>4
<1>. HIDE DEF body, q, tip
<1>7. IsBody(body)
  BY <1>4, <1>5 DEF IsBody
<1>. DEFINE new == Comment(ids + 1, "record", TRUE, body)
<1>8. /\ ids' = ids + 1 /\ ids' \in Nat
      /\ comments' = comments \cup {new}
      /\ (\A c \in comments : IsComment(c))'
      /\ \A k \in known : k.id \in 1 .. ids' /\ k.id # ids + 1
  BY <1>1, <1>7, PublishTypes DEF ConvInv
<1>9. new.body = body
  BY DEF Comment
<1>. HIDE DEF new
<1>10. TypeInv'
  BY <1>1, <1>7, <1>8 DEF ConvInv, TypeInv, IsBody
<1>11. IssuedInv'
  <2>1. body.seq = 1 => body.prev = Absent
    BY <1>4, <1>6 DEF LinkTo
  <2>. QED
    BY <1>1, <1>8, <1>9, <2>1 DEF ConvInv, IssuedInv
<1>12. CleanInv'
  <2>1. changes # 0
    BY <1>1, CleanChain
  <2>. QED
    BY <1>1, <2>1 DEF CleanInv
<1>. QED
  BY <1>10, <1>11, <1>12 DEF ConvInv

\* A post that is repeated makes a copy.
LEMMA RepostKeeps ==
  ASSUME ConvInv, NEW body \in issued, Repost(body)
  PROVE  ConvInv'
<1>. DEFINE new == Comment(ids + 1, "record", TRUE, body)
<1>1. Publish("record", TRUE, body) /\ UNCHANGED <<issued, mark, known, changes>>
  BY DEF Repost
<1>2. IsBody(body)
  BY DEF ConvInv, TypeInv
<1>3. /\ ids' = ids + 1 /\ ids' \in Nat
      /\ comments' = comments \cup {new}
      /\ (\A c \in comments : IsComment(c))'
      /\ \A c \in comments : c.id # ids + 1
      /\ \A k \in known : k.id \in 1 .. ids' /\ k.id # ids + 1
  BY <1>1, <1>2, PublishTypes DEF ConvInv
<1>4. /\ new.id = ids + 1 /\ new.form = "record" /\ new.producer
      /\ ~new.edited /\ new.body = body
  BY DEF Comment
<1>. HIDE DEF new
<1>5. new.id \in Nat
  BY <1>3, <1>4
<1>6. TypeInv'
  BY <1>1, <1>3 DEF ConvInv, TypeInv
<1>7. IssuedInv'
  BY <1>1, <1>3, <1>4 DEF ConvInv, IssuedInv
<1>8. CleanInv'
  <2>. SUFFICES ASSUME changes = 0 PROVE CleanInv'
    BY <1>1 DEF CleanInv
  <2>1. PICK n \in 0 .. MaxSeq :
          /\ IsLine(issued, n) /\ Shows(comments, issued)
          /\ mark \in 0 .. n
          /\ \A k \in known : \E c \in comments : c.id = k.id /\ c.body = k.body
          /\ \A c, d \in comments : c.id = d.id => c = d
    BY DEF ConvInv, CleanInv
  <2>2. Shows(comments', issued')
    BY <1>1, <1>3, <1>4, <1>5, <2>1 DEF Shows
  <2>3. \A k \in known' : \E c \in comments' : c.id = k.id /\ c.body = k.body
    BY <1>1, <1>3, <2>1
  <2>4. \A c, d \in comments' : c.id = d.id => c = d
    BY <1>3, <1>4, <2>1
  <2>. QED
    BY <1>1, <2>1, <2>2, <2>3, <2>4 DEF CleanInv
<1>. QED
  BY <1>6, <1>7, <1>8 DEF ConvInv

\* The checkpoint takes over what was verified.
LEMMA RememberKeeps ==
  ASSUME ConvInv, Remember
  PROVE  ConvInv'
<1>1. /\ mark' = Chain.max_seq
      /\ known' = {[id |-> c.id, body |-> c.body] : c \in Chain.records}
      /\ UNCHANGED <<comments, ids, issued, changes>>
  BY DEF Remember
<1>2. MaxSeq \in Nat /\ Numbered(comments, MaxSeq)
  BY TypeNumbered DEF ConvInv
<1>3. mark' \in Nat
  <2>1. Chain.max_seq = MaxSeqOf(comments)
    BY DEF Chain, VerifyChain
  <2>. QED
    BY <1>1, <1>2, <2>1, ObservedType
<1>4. \A c \in Chain.records : c \in comments
  <2>1. Chain.records = {Canonical(comments, s) : s \in Verified(comments, known)}
    BY <1>2, VerifiedRecords DEF Chain
  <2>2. Verified(comments, known) \in SUBSET Observed(comments)
    BY <1>2, VerifiedRecords
  <2>. QED
    BY <1>2, <2>1, <2>2, CanonicalType
<1>5. \A k \in known' : \E c \in comments : c.id = k.id /\ c.body = k.body
  BY <1>1, <1>4
<1>6. TypeInv'
  <2>1. \A k \in known' : k.id \in 1 .. ids
    BY <1>5 DEF ConvInv, TypeInv, IsComment
  <2>2. (\A c \in comments : IsComment(c))'
    BY <1>1 DEF ConvInv, TypeInv, IsComment
  <2>. QED
    BY <1>1, <1>3, <2>1, <2>2 DEF ConvInv, TypeInv
<1>7. IssuedInv'
  BY <1>1 DEF ConvInv, IssuedInv
<1>8. CleanInv'
  <2>. SUFFICES ASSUME changes = 0 PROVE CleanInv'
    BY <1>1 DEF CleanInv
  <2>1. PICK n \in Nat : IsLine(issued, n) /\ Chain.max_seq = n
    BY CleanChain
  <2>2. PICK m \in 0 .. MaxSeq :
          /\ IsLine(issued, m) /\ Shows(comments, issued)
          /\ \A c, d \in comments : c.id = d.id => c = d
    BY DEF ConvInv, CleanInv
  <2>3. m = n
    <3>1. 1 .. m = 1 .. n /\ m \in Nat
      BY <1>2, <2>1, <2>2 DEF IsLine
    <3>. QED
      BY <3>1
  <2>4. mark' \in 0 .. m
    BY <1>1, <2>1, <2>3
  <2>. QED
    BY <1>1, <1>5, <2>2, <2>4 DEF CleanInv
<1>. QED
  BY <1>6, <1>7, <1>8 DEF ConvInv

\* What others do counts as a change; it alters no number and, if it leaves a
\* record, marks it as edited or has another author.
LEMMA EditKeeps ==
  ASSUME ConvInv, NEW c \in comments, NEW form, NEW t, Edit(c, form, t)
  PROVE  ConvInv'
<1>. DEFINE new == [c EXCEPT !.form = form, !.edited = TRUE, !.body.key = <<@[1], t>>]
<1>1. /\ comments' = (comments \ {c}) \cup {new} /\ changes' = changes + 1
      /\ UNCHANGED <<ids, issued, mark, known>>
  BY DEF Edit
<1>2. IsComment(c) /\ BodyFields(c.body)
  BY DEF ConvInv, TypeInv, IsComment, IsBody
<1>3. /\ CommentFields(new) /\ new.id = c.id /\ new.edited = TRUE
      /\ BodyFields(new.body) /\ new.body.seq = c.body.seq
  <2>. DEFINE b == c.body
              k == <<b.key[1], t>>
  <2>1. c = [id |-> c.id, form |-> c.form, producer |-> c.producer, edited |-> c.edited,
             body |-> b]
    BY <1>2 DEF IsComment, CommentFields
  <2>2. b = [key |-> b.key, seq |-> b.seq, prev |-> b.prev, anchor |-> b.anchor]
    BY <1>2 DEF BodyFields
  <2>3. new = [c EXCEPT !.form = form, !.edited = TRUE, !.body = [b EXCEPT !.key = k]]
    OBVIOUS
  <2>. HIDE DEF new, b, k
  <2>4. [b EXCEPT !.key = k] = [key |-> k, seq |-> b.seq, prev |-> b.prev, anchor |-> b.anchor]
    BY <2>2
  <2>5. new = [id |-> c.id, form |-> form, producer |-> c.producer, edited |-> TRUE,
               body |-> [b EXCEPT !.key = k]]
    BY <2>1, <2>3
  <2>6. new.body = [key |-> k, seq |-> b.seq, prev |-> b.prev, anchor |-> b.anchor]
    BY <2>4, <2>5
  <2>7. BodyFields(new.body) /\ new.body.seq = b.seq
    BY <2>6 DEF BodyFields
  <2>8. CommentFields(new) /\ new.id = c.id /\ new.edited = TRUE
    BY <2>5 DEF CommentFields
  <2>. QED
    BY <2>7, <2>8 DEF b
<1>. HIDE DEF new
<1>4. IsComment(new)
  <2>1. new.edited \in BOOLEAN
    BY <1>3
  <2>. QED
    BY <1>2, <1>3, <2>1 DEF IsComment, IsBody
<1>5. TypeInv'
  <2>1. (\A d \in comments : IsComment(d))'
    BY <1>1, <1>4 DEF ConvInv, TypeInv, IsComment
  <2>. QED
    BY <1>1, <2>1 DEF ConvInv, TypeInv
<1>6. IssuedInv'
  BY <1>1, <1>3 DEF ConvInv, IssuedInv
<1>7. CleanInv'
  BY <1>1 DEF ConvInv, TypeInv, CleanInv
<1>. QED
  BY <1>5, <1>6, <1>7 DEF ConvInv

\* A deletion by others is counted as a change; what is left was there before.
LEMMA DeleteKeeps ==
  ASSUME ConvInv, NEW c \in comments, Delete(c)
  PROVE  ConvInv'
<1>1. /\ comments' = comments \ {c} /\ changes' = changes + 1
      /\ UNCHANGED <<ids, issued, mark, known>>
  BY DEF Delete
<1>2. (\A d \in comments : IsComment(d))'
  BY <1>1 DEF ConvInv, TypeInv, IsComment
<1>3. TypeInv'
  BY <1>1, <1>2 DEF ConvInv, TypeInv
<1>4. IssuedInv'
  BY <1>1 DEF ConvInv, IssuedInv
<1>5. CleanInv'
  BY <1>1 DEF ConvInv, TypeInv, CleanInv
<1>. QED
  BY <1>3, <1>4, <1>5 DEF ConvInv

\* A copy by others is no unaltered record of a producer.
LEMMA ImitateKeeps ==
  ASSUME ConvInv, NEW c \in comments, NEW form \in {"record", "malformed"}, Imitate(c, form)
  PROVE  ConvInv'
<1>. DEFINE producer == form = "malformed"
            body == c.body
            new == Comment(ids + 1, form, producer, body)
<1>1. /\ Publish(form, producer, body) /\ changes' = changes + 1
      /\ UNCHANGED <<issued, mark, known>>
  BY DEF Imitate
<1>2. IsBody(body)
  BY DEF ConvInv, TypeInv, IsComment
<1>3. new.form = form /\ (new.producer <=> form = "malformed")
  BY DEF Comment
<1>. HIDE DEF producer, body
<1>4. /\ ids' = ids + 1 /\ ids' \in Nat
      /\ comments' = comments \cup {new}
      /\ (\A d \in comments : IsComment(d))'
      /\ \A k \in known : k.id \in 1 .. ids' /\ k.id # ids + 1
  BY <1>1, <1>2, PublishTypes DEF ConvInv
<1>. HIDE DEF new
<1>5. TypeInv'
  BY <1>1, <1>4 DEF ConvInv, TypeInv
<1>6. IssuedInv'
  <2>1. ~(new.form = "record" /\ new.producer)
    BY <1>3
  <2>. QED
    BY <1>1, <1>4, <2>1 DEF ConvInv, IssuedInv
<1>7. CleanInv'
  BY <1>1 DEF ConvInv, TypeInv, CleanInv
<1>. QED
  BY <1>5, <1>6, <1>7 DEF ConvInv

\* Every step keeps the invariant.
LEMMA ConvNext == ConvInv /\ [Next]_vars => ConvInv'
<1>. SUFFICES ASSUME ConvInv, [Next]_vars PROVE ConvInv'
  OBVIOUS
<1>1. CASE UNCHANGED vars
  BY <1>1 DEF vars, ConvInv, TypeInv, IssuedInv, CleanInv, IsComment
<1>2. CASE \E t \in Texts : PostRecord(t)
  BY <1>2, PostRecordKeeps
<1>3. CASE PostIncident
  BY <1>3, PostIncidentKeeps
<1>4. CASE \E body \in issued : Repost(body)
  BY <1>4, RepostKeeps
<1>5. CASE Remember
  BY <1>5, RememberKeeps
<1>6. CASE \E c \in comments, e \in Edits : Edit(c, e[1], e[2])
  BY <1>6, EditKeeps
<1>7. CASE \E c \in comments : Delete(c)
  BY <1>7, DeleteKeeps
<1>8. CASE \E c \in comments, form \in {"record", "malformed"} : Imitate(c, form)
  BY <1>8, ImitateKeeps
<1>. QED
  BY <1>1, <1>2, <1>3, <1>4, <1>5, <1>6, <1>7, <1>8 DEF Next

\* The types, the origin of the records and the line of an untouched
\* conversation hold in every state (workflow/transaction.py numbers and links
\* the records; transport posts them, perhaps twice).
THEOREM ConversationInvariant == Spec => []ConvInv
  BY ConvInit, ConvNext, PTL DEF Spec

\* While nobody else touches the conversation, verify_record_chain finds nothing
\* and shows exactly what was posted, whatever was posted twice.
THEOREM UntouchedIsIntact == Spec => []NoFalseAlarm
  BY ConversationInvariant, InvNoFalseAlarm, PTL

\* An intact chain is a gapless chain of unaltered records of the controller,
\* each linked to the one before, that includes what the checkpoint knows.
THEOREM IntactChainsAreFaithful == Spec => []IntactIsFaithful
  BY ConversationInvariant, InvFaithful, PTL

\* A post of an incident record: it is verified and hides nothing.
LEMMA IncidentStep ==
  ASSUME ConvInv, PostIncident
  PROVE  /\ \E c \in Chain'.records : c.body = NextIncident
         /\ Chain'.violations = Chain.violations
<1>. DEFINE body == NextIncident
            q == IncidentSeq(Chain)
            new == Comment(ids + 1, "record", TRUE, body)
<1>1. comments' = comments \cup {new} /\ UNCHANGED <<mark, known>>
  BY DEF PostIncident, Publish
<1>2. MaxSeq \in Nat /\ Numbered(comments, MaxSeq) /\ mark \in Nat /\ ids \in Nat
  BY TypeNumbered DEF ConvInv, TypeInv
<1>3. IsAbove(comments, mark, q)
  BY <1>2, IncidentNumber DEF Chain
<1>4. /\ body.seq = q /\ body.prev = LinkTo(Chain, VerifiedTip(Chain))
      /\ body.anchor = VerifiedTip(Chain)
  BY DEF NextIncident, Body
<1>. HIDE DEF body
<1>5. /\ new.id = ids + 1 /\ new.form = "record" /\ new.producer
      /\ ~new.edited /\ new.body = body
  BY DEF Comment
<1>6. \A k \in known : k.id # ids + 1
  BY <1>2 DEF ConvInv, TypeInv
<1>7. ids + 1 \in Nat
  BY <1>2
<1>8. Appends(comments, new, known, q)
  BY <1>3, <1>4, <1>5, <1>6, <1>7 DEF Appends, IsAbove
<1>. HIDE DEF new, q
<1>9. LET next == VerifyChain(comments \cup {new}, mark, known)
      IN  new \in next.records /\ next.violations = Chain.violations
  BY <1>2, <1>4, <1>5, <1>8, IncidentAppended DEF Chain, q
<1>10. Chain' = VerifyChain(comments \cup {new}, mark, known)
  BY <1>1 DEF Chain
<1>. QED
  BY <1>5, <1>9, <1>10 DEF body

\* However broken the chain is, the incident record of record_incident is
\* verified as soon as it is posted, and every violation is still reported.
THEOREM IncidentsHideNothing == Spec => IncidentIsVerifiedAndHidesNothing
<1>1. ConvInv /\ [Next]_vars =>
        [PostIncident => /\ \E c \in Chain'.records : c.body = NextIncident
                         /\ Chain'.violations = Chain.violations]_vars
  BY IncidentStep
<1>. QED
  BY <1>1, ConversationInvariant, PTL DEF Spec, IncidentIsVerifiedAndHidesNothing
=============================================================================
