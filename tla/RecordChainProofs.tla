------------------------- MODULE RecordChainProofs -------------------------
(***************************************************************************)
(* What verify_record_chain computes, for every conversation.              *)
(***************************************************************************)
EXTENDS RecordChain, WellFoundedInduction, TLAPS

-----------------------------------------------------------------------------
(* Induction and extrema, for sets of natural numbers.                     *)

\* A set of natural numbers has a least element.
LEMMA LeastElement ==
  ASSUME NEW T \in SUBSET Nat, T # {}
  PROVE  \E x \in T : \A y \in T : x <= y
<1>. DEFINE R == OpToRel(<, Nat)
<1>1. \E x \in T : \A y \in T : ~(<<y, x>> \in R)
  BY NatLessThanWellFounded, WFMin
<1>2. \A x, y \in Nat : y < x => <<y, x>> \in R
  BY DEF OpToRel
<1>. HIDE DEF R
<1>3. PICK x \in T : \A y \in T : ~(<<y, x>> \in R)
  BY <1>1
<1>4. x \in Nat
  BY <1>3
<1>5. ASSUME NEW y \in T PROVE x <= y
  <2>1. y \in Nat
    BY <1>5
  <2>2. ~(y < x)
    BY <1>2, <1>3, <1>4, <1>5, <2>1
  <2>. QED
    BY <1>4, <2>1, <2>2
<1>. QED
  BY <1>3, <1>5

\* Induction over the numbers 0 to n, for a set instead of a predicate.
LEMMA InductionUpTo ==
  ASSUME NEW n \in Nat, NEW S, 0 \in S,
         \A m \in 0 .. n : m \in S /\ m < n => m + 1 \in S
  PROVE  0 .. n \subseteq S
<1>. DEFINE T == (0 .. n) \ S
<1>. SUFFICES ASSUME T # {} PROVE FALSE
  OBVIOUS
<1>1. PICK x \in T : \A y \in T : x <= y
  <2>1. T \in SUBSET Nat
    OBVIOUS
  <2>. HIDE DEF T
  <2>. QED
    BY <2>1, LeastElement
<1>2. x \in 1 .. n /\ x - 1 \in 0 .. n /\ x - 1 < n /\ (x - 1) + 1 = x
  BY <1>1
<1>3. x - 1 \in S
  BY <1>1, <1>2
<1>. QED
  BY <1>1, <1>2, <1>3

\* Max of a bounded set of natural numbers is its greatest element.
LEMMA GreatestElement ==
  ASSUME NEW T \in SUBSET Nat, T # {}, NEW n \in Nat, \A y \in T : y <= n
  PROVE  Max(T) \in T /\ \A y \in T : y <= Max(T)
<1>. DEFINE B == {m \in Nat : \A y \in T : y <= m}
<1>1. PICK x \in B : \A m \in B : x <= m
  <2>1. B \in SUBSET Nat /\ n \in B
    OBVIOUS
  <2>. HIDE DEF B
  <2>. QED
    BY <2>1, LeastElement
<1>2. x \in T
  <2>. SUFFICES ASSUME x \notin T PROVE FALSE
    OBVIOUS
  <2>1. \A y \in T : y < x
    BY <1>1
  <2>2. x \in Nat /\ x # 0
    <3>1. PICK y \in T : TRUE
      OBVIOUS
    <3>. QED
      BY <1>1, <2>1, <3>1
  <2>3. x - 1 \in Nat /\ \A y \in Nat : y < x => y <= x - 1
    BY <2>2
  <2>4. x - 1 \in B
    BY <2>1, <2>3
  <2>5. ~(x <= x - 1)
    BY <2>2
  <2>. QED
    BY <1>1, <2>4, <2>5
<1>3. \E z \in T : \A y \in T : z >= y
  BY <1>1, <1>2
<1>4. Max(T) \in T /\ \A y \in T : Max(T) >= y
  BY <1>3 DEF Max
<1>. QED
  BY <1>4

\* A member that bounds a set of numbers is the maximum of FiniteSetsExt.
LEMMA MaxIs ==
  ASSUME NEW T \in SUBSET Nat, NEW x \in T, \A y \in T : y <= x
  PROVE  Max(T) = x
<1>1. Max(T) \in T /\ \A y \in T : y <= Max(T)
  BY GreatestElement
<1>2. Max(T) \in Nat /\ x \in Nat /\ x <= Max(T) /\ Max(T) <= x
  BY <1>1
<1>. QED
  BY <1>2

-----------------------------------------------------------------------------
(* The walk along the numbers that finds the broken links.                 *)

\* One step of the walk of Broken: the broken links after number s, given those
\* before it.
BrokenAt(cs, reliable, tampered, s, b) ==
  UNION {a \cup {m \in {s} \cap reliable : ~Linked(cs, reliable, tampered, m, a)} : a \in {b}}

\* f holds the broken links after each of the numbers up to n.
IsWalk(cs, known, n, f) ==
  f = [s \in 0 .. n |-> IF s = 0 THEN {}
                        ELSE BrokenAt(cs, Reliable(cs), TamperedIds(cs, known), s, f[s - 1])]

\* The recursive function inside Broken is well defined.
LEMMA WalkExists ==
  ASSUME NEW cs, NEW known, NEW n \in Nat
  PROVE  \E f : IsWalk(cs, known, n, f)
<1>. DEFINE S == {m \in Nat : \E f : IsWalk(cs, known, m, f)}
<1>1. 0 \in S
  <2>1. IsWalk(cs, known, 0, [s \in 0 .. 0 |-> {}])
    BY DEF IsWalk
  <2>. QED
    BY <2>1
<1>2. ASSUME NEW m \in 0 .. n, m \in S, m < n PROVE m + 1 \in S
  <2>1. PICK f : IsWalk(cs, known, m, f)
    BY <1>2
  <2>. DEFINE g == [s \in 0 .. m + 1 |-> IF s = 0 THEN {}
                ELSE BrokenAt(cs, Reliable(cs), TamperedIds(cs, known), s, f[s - 1])]
  <2>. DEFINE h(s, a) == BrokenAt(cs, Reliable(cs), TamperedIds(cs, known), s, a)
  <2>2. m \in Nat /\ \A s \in 0 .. m : s \in 0 .. m + 1
    OBVIOUS
  <2>3. f = [s \in 0 .. m |-> IF s = 0 THEN {} ELSE h(s, f[s - 1])]
    BY <2>1 DEF IsWalk
  <2>4. \A s \in 0 .. m + 1 : s # 0 => s - 1 \in 0 .. m
    BY <2>2
  <2>. HIDE DEF h
  <2>5. \A s \in 0 .. m : f[s] = IF s = 0 THEN {} ELSE h(s, f[s - 1])
    BY <2>3
  <2>6. g = [s \in 0 .. m + 1 |-> IF s = 0 THEN {} ELSE h(s, f[s - 1])]
    BY DEF h
  <2>. HIDE DEF g
  <2>7. \A s \in 0 .. m : g[s] = f[s]
    BY <2>2, <2>5, <2>6
  <2>8. g = [s \in 0 .. m + 1 |-> IF s = 0 THEN {} ELSE h(s, g[s - 1])]
    BY <2>4, <2>6, <2>7
  <2>9. IsWalk(cs, known, m + 1, g)
    BY <2>8 DEF IsWalk, h
  <2>. QED
    BY <2>2, <2>9
<1>. HIDE DEF S
<1>3. n \in S
  BY <1>1, <1>2, InductionUpTo
<1>. QED
  BY <1>3 DEF S

\* Broken is the value of such a walk at the highest number.
LEMMA BrokenIsWalk ==
  ASSUME NEW cs, NEW known, MaxSeqOf(cs) \in Nat
  PROVE  \E f : IsWalk(cs, known, MaxSeqOf(cs), f) /\ Broken(cs, known) = f[MaxSeqOf(cs)]
<1>. DEFINE w == CHOOSE f : IsWalk(cs, known, MaxSeqOf(cs), f)
<1>1. IsWalk(cs, known, MaxSeqOf(cs), w)
  BY WalkExists
<1>2. Broken(cs, known) = w[MaxSeqOf(cs)]
  BY DEF Broken, IsWalk, BrokenAt
<1>. QED
  BY <1>1, <1>2

\* What a walk does at number s, without the singleton of BrokenAt.
Steps(cs, known, f, s) ==
  f[s] = f[s - 1] \cup {m \in {s} \cap Reliable(cs) :
                         ~Linked(cs, Reliable(cs), TamperedIds(cs, known), m, f[s - 1])}

\* The walk starts with nothing, and at each number either adds it or not.
LEMMA WalkSteps ==
  ASSUME NEW cs, NEW known, NEW n \in Nat, NEW f, IsWalk(cs, known, n, f)
  PROVE  f[0] = {} /\ \A s \in 1 .. n : Steps(cs, known, f, s)
<1>1. \A s \in 0 .. n : f[s] = IF s = 0 THEN {} ELSE
        BrokenAt(cs, Reliable(cs), TamperedIds(cs, known), s, f[s - 1])
  BY DEF IsWalk
<1>2. \A s, b : BrokenAt(cs, Reliable(cs), TamperedIds(cs, known), s, b) = b \cup
        {m \in {s} \cap Reliable(cs) : ~Linked(cs, Reliable(cs), TamperedIds(cs, known), m, b)}
  BY DEF BrokenAt
<1>3. 0 \in 0 .. n /\ \A s \in 1 .. n : s \in 0 .. n /\ s # 0
  OBVIOUS
<1>. QED
  BY <1>1, <1>2, <1>3 DEF Steps

-----------------------------------------------------------------------------
(* Numbers and copies.                                                     *)

\* The comments that count as records have numbers from 1 to n.
Numbered(cs, n) == \A c \in Candidates(cs) : c.id \in Nat /\ c.body.seq \in 1 .. n

\* The numbers in a conversation are bounded, and the highest one is among them.
LEMMA ObservedType ==
  ASSUME NEW n \in Nat, NEW cs, Numbered(cs, n)
  PROVE  /\ Observed(cs) \in SUBSET (1 .. n)
         /\ MaxSeqOf(cs) \in Nat
         /\ MaxSeqOf(cs) \in Observed(cs) \cup {0}
         /\ \A s \in Observed(cs) : s <= MaxSeqOf(cs)
         /\ Observed(cs) \in SUBSET (1 .. MaxSeqOf(cs))
<1>1. Observed(cs) \in SUBSET (1 .. n)
  BY DEF Observed, Numbered
<1>. DEFINE T == Observed(cs) \cup {0}
<1>2. T \in SUBSET Nat /\ T # {} /\ \A s \in T : s <= n
  BY <1>1
<1>3. Max(T) \in T /\ \A s \in T : s <= Max(T)
  <2>. HIDE DEF T
  <2>. QED
    BY <1>2, GreatestElement
<1>4. MaxSeqOf(cs) = Max(T)
  BY DEF MaxSeqOf
<1>5. MaxSeqOf(cs) \in T /\ \A s \in T : s <= MaxSeqOf(cs)
  BY <1>3, <1>4
<1>6. MaxSeqOf(cs) \in Nat
  BY <1>2, <1>5
<1>. QED
  BY <1>1, <1>5, <1>6

\* The canonical record of a number that is used is the oldest with it.
LEMMA CanonicalType ==
  ASSUME NEW n \in Nat, NEW cs, Numbered(cs, n), NEW s \in Observed(cs)
  PROVE  /\ Canonical(cs, s) \in Candidates(cs)
         /\ Canonical(cs, s) \in cs
         /\ Canonical(cs, s).body.seq = s
         /\ Canonical(cs, s) \in CandidatesAt(cs, s)
<1>. DEFINE T == {c.id : c \in CandidatesAt(cs, s)}
<1>1. T \in SUBSET Nat /\ T # {}
  BY DEF CandidatesAt, Observed, Numbered
<1>2. PICK i \in T : \A j \in T : i <= j
  <2>. HIDE DEF T
  <2>. QED
    BY <1>1, LeastElement
<1>3. \E c \in CandidatesAt(cs, s) : \A d \in CandidatesAt(cs, s) : c.id <= d.id
  BY <1>2
<1>4. Canonical(cs, s) \in CandidatesAt(cs, s)
  BY <1>3 DEF Canonical
<1>. QED
  BY <1>4 DEF CandidatesAt, Candidates

\* Only an observed number is reliable.
LEMMA ReliableType ==
  ASSUME NEW cs
  PROVE  Reliable(cs) \in SUBSET Observed(cs)
  BY DEF Reliable

-----------------------------------------------------------------------------
(* Intact chains.                                                          *)

\* An intact chain has a violation of no kind.
LEMMA IntactHasNone ==
  ASSUME NEW cs, NEW n, NEW known, IsIntact(VerifyChain(cs, n, known))
  PROVE  /\ Conflicts(cs) = {} /\ EditedSeqs(cs) = {} /\ Gaps(cs, n) = {}
         /\ MissingIds(cs, known) = {} /\ TamperedIds(cs, known) = {}
         /\ Broken(cs, known) = {}
         /\ Reliable(cs) = Observed(cs)
<1>1. ViolationsOf(cs, n, known) = {}
  BY DEF IsIntact, VerifyChain
<1>2. /\ Conflicts(cs) = {} /\ EditedSeqs(cs) = {} /\ Gaps(cs, n) = {}
      /\ MissingIds(cs, known) = {} /\ TamperedIds(cs, known) = {}
      /\ Broken(cs, known) = {}
  BY <1>1 DEF ViolationsOf
<1>. QED
  BY <1>2 DEF Reliable

\* And without them it is intact.
LEMMA IntactIf ==
  ASSUME NEW cs, NEW n, NEW known,
         \A c \in cs : c.form = "record" /\ c.producer,
         Conflicts(cs) = {}, EditedSeqs(cs) = {}, Gaps(cs, n) = {},
         MissingIds(cs, known) = {}, TamperedIds(cs, known) = {}, Broken(cs, known) = {}
  PROVE  IsIntact(VerifyChain(cs, n, known))
<1>1. {d \in cs : d.form = "malformed"} = {} /\ {d \in cs : d.form = "record" /\ ~d.producer} = {}
  OBVIOUS
<1>2. ViolationsOf(cs, n, known) = {}
  BY <1>1 DEF ViolationsOf
<1>. QED
  BY <1>2 DEF IsIntact, VerifyChain

\* When no link is broken, every reliable record is linked.
LEMMA NoneBrokenLinked ==
  ASSUME NEW n \in Nat, NEW cs, Numbered(cs, n), NEW known, Broken(cs, known) = {},
         NEW s \in Reliable(cs)
  PROVE  Linked(cs, Reliable(cs), TamperedIds(cs, known), s, {})
<1>. DEFINE N == MaxSeqOf(cs)
<1>1. N \in Nat /\ s \in 1 .. N
  BY ObservedType, ReliableType
<1>2. PICK f : IsWalk(cs, known, N, f) /\ f[N] = {}
  BY <1>1, BrokenIsWalk
<1>3. f[0] = {} /\ \A m \in 1 .. N : Steps(cs, known, f, m)
  BY <1>1, <1>2, WalkSteps
<1>. DEFINE S == {m \in 0 .. N : f[N - m] = {}}
<1>. HIDE DEF N
<1>4. 0 .. N \subseteq S
  <2>1. 0 \in S
    BY <1>1, <1>2
  <2>2. ASSUME NEW m \in 0 .. N, m \in S, m < N PROVE m + 1 \in S
    <3>1. N - m \in 1 .. N /\ (N - m) - 1 = N - (m + 1) /\ m + 1 \in 0 .. N
      BY <1>1, <2>2
    <3>2. f[N - m] = {}
      BY <2>2
    <3>3. f[(N - m) - 1] \subseteq f[N - m]
      BY <1>3, <3>1 DEF Steps
    <3>. QED
      BY <3>1, <3>2, <3>3
  <2>. HIDE DEF S
  <2>. QED
    BY <1>1, <2>1, <2>2, InductionUpTo
<1>5. \A m \in 0 .. N : f[m] = {}
  <2>. SUFFICES ASSUME NEW m \in 0 .. N PROVE f[m] = {}
    OBVIOUS
  <2>1. N - m \in 0 .. N /\ N - (N - m) = m
    BY <1>1
  <2>. QED
    BY <1>4, <2>1
<1>6. s - 1 \in 0 .. N /\ s \in 0 .. N
  BY <1>1
<1>7. f[s - 1] = {} /\ f[s] = {}
  BY <1>5, <1>6
<1>8. Steps(cs, known, f, s)
  BY <1>1, <1>3
<1>9. f[s] = {} \cup {m \in {s} \cap Reliable(cs) :
                       ~Linked(cs, Reliable(cs), TamperedIds(cs, known), m, {})}
  BY <1>7, <1>8 DEF Steps
<1>. QED
  BY <1>7, <1>9

\* When every reliable record is linked, no link is broken.
LEMMA LinkedNoneBroken ==
  ASSUME NEW n \in Nat, NEW cs, Numbered(cs, n), NEW known,
         \A s \in Reliable(cs) : Linked(cs, Reliable(cs), TamperedIds(cs, known), s, {})
  PROVE  Broken(cs, known) = {}
<1>. DEFINE N == MaxSeqOf(cs)
<1>1. N \in Nat
  BY ObservedType
<1>2. PICK f : IsWalk(cs, known, N, f) /\ Broken(cs, known) = f[N]
  BY <1>1, BrokenIsWalk
<1>3. f[0] = {} /\ \A m \in 1 .. N : Steps(cs, known, f, m)
  BY <1>1, <1>2, WalkSteps
<1>. DEFINE S == {m \in 0 .. N : f[m] = {}}
<1>. HIDE DEF N
<1>4. 0 .. N \subseteq S
  <2>1. 0 \in S
    BY <1>1, <1>3
  <2>2. ASSUME NEW m \in 0 .. N, m \in S, m < N PROVE m + 1 \in S
    <3>1. m + 1 \in 1 .. N /\ (m + 1) - 1 = m /\ m + 1 \in 0 .. N
      BY <1>1, <2>2
    <3>2. f[m] = {}
      BY <2>2
    <3>3. f[m + 1] = {} \cup {l \in {m + 1} \cap Reliable(cs) :
            ~Linked(cs, Reliable(cs), TamperedIds(cs, known), l, {})}
      BY <1>3, <3>1, <3>2 DEF Steps
    <3>4. f[m + 1] = {}
      BY <3>3
    <3>. QED
      BY <3>1, <3>4
  <2>. HIDE DEF S
  <2>. QED
    BY <1>1, <2>1, <2>2, InductionUpTo
<1>5. f[N] = {}
  BY <1>1, <1>4
<1>. QED
  BY <1>2, <1>5

-----------------------------------------------------------------------------
(* The verified records.                                                   *)

\* The numbers of the verified records.
Verified(cs, known) ==
  {s \in Reliable(cs) \ Broken(cs, known) : Canonical(cs, s).id \notin TamperedIds(cs, known)}

\* The records of a verified chain are the canonical comments of the verified
\* numbers, one for each.
LEMMA VerifiedRecords ==
  ASSUME NEW N \in Nat, NEW cs, Numbered(cs, N), NEW n, NEW known
  PROVE  LET chain == VerifyChain(cs, n, known) IN
         /\ chain.records = {Canonical(cs, s) : s \in Verified(cs, known)}
         /\ {c.body.seq : c \in chain.records} = Verified(cs, known)
         /\ \A s \in Verified(cs, known) : VerifiedBody(chain, s) = Canonical(cs, s).body
         /\ Verified(cs, known) \in SUBSET Observed(cs)
<1>. DEFINE chain == VerifyChain(cs, n, known)
<1>1. Verified(cs, known) \in SUBSET Observed(cs)
  BY ReliableType DEF Verified
<1>2. chain.records = {Canonical(cs, s) : s \in Verified(cs, known)}
  BY DEF VerifyChain, Verified
<1>3. \A s \in Verified(cs, known) : Canonical(cs, s).body.seq = s
  BY <1>1, CanonicalType
<1>. HIDE DEF chain
<1>4. {c.body.seq : c \in chain.records} = Verified(cs, known)
  BY <1>2, <1>3
<1>5. ASSUME NEW s \in Verified(cs, known)
      PROVE  VerifiedBody(chain, s) = Canonical(cs, s).body
  <2>. DEFINE d == CHOOSE c \in chain.records : c.body.seq = s
  <2>1. \E c \in chain.records : c.body.seq = s
    BY <1>2, <1>3
  <2>2. d \in chain.records /\ d.body.seq = s
    BY <2>1
  <2>. HIDE DEF d
  <2>3. PICK m \in Verified(cs, known) : d = Canonical(cs, m)
    BY <1>2, <2>2
  <2>4. m = s
    BY <1>3, <2>2, <2>3
  <2>. QED
    BY <2>3, <2>4 DEF VerifiedBody, d
<1>. QED
  BY <1>1, <1>2, <1>4, <1>5 DEF chain

\* The number of the last verified record.
LEMMA TipType ==
  ASSUME NEW N \in Nat, NEW cs, Numbered(cs, N), NEW n, NEW known
  PROVE  LET tip == VerifiedTip(VerifyChain(cs, n, known)) IN
         /\ tip = Max(Verified(cs, known) \cup {0})
         /\ tip \in Nat /\ tip <= MaxSeqOf(cs)
         /\ tip \in Verified(cs, known) \cup {0}
         /\ \A s \in Verified(cs, known) : s <= tip
<1>. DEFINE T == Verified(cs, known) \cup {0}
            M == MaxSeqOf(cs)
            tip == VerifiedTip(VerifyChain(cs, n, known))
<1>1. M \in Nat /\ Verified(cs, known) \in SUBSET (1 .. M)
  BY VerifiedRecords, ObservedType
<1>2. tip = Max(T)
  BY VerifiedRecords DEF VerifiedTip
<1>. HIDE DEF M, tip
<1>3. T \in SUBSET Nat /\ T # {} /\ \A s \in T : s <= M
  BY <1>1
<1>4. Max(T) \in T /\ \A s \in T : s <= Max(T)
  <2>. HIDE DEF T
  <2>. QED
    BY <1>1, <1>3, GreatestElement
<1>5. tip \in T /\ \A s \in T : s <= tip
  BY <1>2, <1>4
<1>6. tip \in Nat /\ tip <= M
  BY <1>3, <1>5
<1>. QED
  BY <1>2, <1>5, <1>6 DEF M, tip

\* An intact chain is gapless, reaches the mark and links every record after
\* the first to the one before it.
LEMMA IntactChain ==
  ASSUME NEW N \in Nat, NEW cs, Numbered(cs, N), NEW n \in Nat, NEW known,
         IsIntact(VerifyChain(cs, n, known))
  PROVE  LET chain == VerifyChain(cs, n, known) IN
         /\ {c.body.seq : c \in chain.records} = 1 .. chain.max_seq
         /\ chain.max_seq \in Nat
         /\ chain.max_seq >= n
         /\ Observed(cs) = 1 .. chain.max_seq
         /\ \A c \in chain.records :
              /\ c \in Candidates(cs) /\ ~c.edited
              /\ c.body.seq > 1 => c.body.prev = LinkTo(chain, c.body.seq - 1)
         /\ \A k \in known : \E c \in cs : c.id = k.id /\ c.body = k.body
<1>. DEFINE M == MaxSeqOf(cs)
            chain == VerifyChain(cs, n, known)
<1>1. /\ Conflicts(cs) = {} /\ EditedSeqs(cs) = {} /\ Gaps(cs, n) = {}
      /\ MissingIds(cs, known) = {} /\ TamperedIds(cs, known) = {}
      /\ Broken(cs, known) = {}
      /\ Reliable(cs) = Observed(cs)
  BY IntactHasNone
<1>2. M \in Nat /\ Observed(cs) \in SUBSET (1 .. M)
  BY ObservedType
<1>3. Verified(cs, known) = Observed(cs)
  BY <1>1 DEF Verified
<1>4. chain.max_seq = M
  BY DEF VerifyChain
<1>5. Max({M, n}) \in Nat /\ M <= Max({M, n}) /\ n <= Max({M, n})
  <2>1. {M, n} \in SUBSET Nat /\ M \in {M, n} /\ n \in {M, n}
    BY <1>2
  <2>2. \E b \in Nat : \A y \in {M, n} : y <= b
    <3>1. M + n \in Nat /\ M <= M + n /\ n <= M + n
      BY <1>2
    <3>. QED
      BY <3>1
  <2>3. Max({M, n}) \in {M, n} /\ \A y \in {M, n} : y <= Max({M, n})
    BY <2>1, <2>2, GreatestElement
  <2>. QED
    BY <2>1, <2>3
<1>6. \A s \in 1 .. Max({M, n}) : s \in Observed(cs)
  BY <1>1 DEF Gaps
<1>. HIDE DEF M
<1>7. M >= n /\ Observed(cs) = 1 .. M
  <2>1. \A s \in Nat : s >= 1 /\ s <= Max({M, n}) => s <= M /\ s \in Observed(cs)
    BY <1>2, <1>5, <1>6
  <2>2. M >= n
    BY <1>2, <1>5, <2>1
  <2>3. 1 .. M \subseteq Observed(cs)
    BY <1>2, <1>5, <2>1
  <2>. QED
    BY <1>2, <2>2, <2>3
<1>8. {c.body.seq : c \in chain.records} = 1 .. M
  BY <1>3, <1>7, VerifiedRecords
<1>9. \A k \in known : \E c \in cs : c.id = k.id /\ c.body = k.body
  <2>1. \A k \in known : \E c \in cs : c.id = k.id
    BY <1>1 DEF MissingIds
  <2>2. \A k \in known : \A c \in cs : c.id = k.id => c.body = k.body
    BY <1>1 DEF TamperedIds
  <2>. QED
    BY <2>1, <2>2
<1>10. ASSUME NEW c \in chain.records
       PROVE  /\ c \in Candidates(cs) /\ ~c.edited
              /\ c.body.seq > 1 => c.body.prev = LinkTo(chain, c.body.seq - 1)
  <2>1. PICK s \in Observed(cs) : c = Canonical(cs, s)
    BY <1>3, VerifiedRecords
  <2>2. c \in Candidates(cs) /\ c.body.seq = s
    BY <2>1, CanonicalType
  <2>3. ~c.edited
    BY <1>1, <2>1 DEF EditedSeqs
  <2>4. ASSUME s > 1 PROVE c.body.prev = LinkTo(chain, s - 1)
    <3>1. s - 1 \in Observed(cs) /\ s - 1 # 0 /\ s \in Nat
      BY <1>2, <1>7, <2>4
    <3>2. Linked(cs, Observed(cs), {}, s, {})
      BY <1>1, NoneBrokenLinked
    <3>. DEFINE eligible == {m \in Observed(cs) \ {} : m < s /\ Canonical(cs, m).id \notin {}}
                previous == IF Anchored(c.body) THEN c.body.anchor ELSE s - 1
    <3>3. /\ Anchored(c.body) => c.body.anchor = Max(eligible \cup {0})
          /\ previous \in Observed(cs) => c.body.prev = Canonical(cs, previous).body
      BY <2>1, <3>2 DEF Linked
    <3>4. Max(eligible \cup {0}) = s - 1
      <4>. DEFINE T == eligible \cup {0}
      <4>1. T \in SUBSET Nat /\ s - 1 \in T /\ \A y \in T : y <= s - 1
        BY <1>2, <1>7, <3>1
      <4>. HIDE DEF T
      <4>2. Max(T) = s - 1
        BY <4>1, MaxIs
      <4>. QED
        BY <4>2 DEF T
    <3>5. previous = s - 1
      BY <3>3, <3>4
    <3>6. c.body.prev = Canonical(cs, s - 1).body
      BY <3>1, <3>3, <3>5
    <3>7. VerifiedBody(chain, s - 1) = Canonical(cs, s - 1).body
      BY <1>3, <3>1, VerifiedRecords
    <3>. QED
      BY <3>1, <3>6, <3>7 DEF LinkTo
  <2>. QED
    BY <2>2, <2>3, <2>4
<1>. QED
  BY <1>2, <1>4, <1>7, <1>8, <1>9, <1>10 DEF M

-----------------------------------------------------------------------------
(* A conversation nobody else has touched.                                 *)

\* One body for each number up to n, linked to the body before it.
IsLine(bodies, n) ==
  /\ {b.seq : b \in bodies} = 1 .. n
  /\ \A b, d \in bodies : b.seq = d.seq => b = d
  /\ \A b \in bodies : ~Anchored(b) /\ (b.seq > 1 => b.prev \in bodies /\ b.prev.seq = b.seq - 1)

\* The comments are unaltered records with these bodies, some perhaps twice.
Shows(cs, bodies) ==
  /\ \A c \in cs : c.form = "record" /\ c.producer /\ ~c.edited /\ c.id \in Nat /\ c.body \in bodies
  /\ \A b \in bodies : \E c \in cs : c.body = b

\* The comments the checkpoint has noted are there with the bodies it noted.
Knows(cs, known) ==
  \A k \in known : (\E c \in cs : c.id = k.id) /\ (\A c \in cs : c.id = k.id => c.body = k.body)

\* Whatever was posted twice, the verification finds nothing and shows exactly
\* the bodies that were posted.
LEMMA LineIsIntact ==
  ASSUME NEW n \in Nat, NEW bodies, IsLine(bodies, n), NEW cs, Shows(cs, bodies),
         NEW mark \in 0 .. n, NEW known, Knows(cs, known)
  PROVE  LET chain == VerifyChain(cs, mark, known) IN
         /\ IsIntact(chain)
         /\ {c.body : c \in chain.records} = bodies
         /\ chain.max_seq = n
         /\ VerifiedTip(chain) = n
         /\ n # 0 => LinkTo(chain, n) \in bodies /\ LinkTo(chain, n).seq = n
         /\ n = 0 => LinkTo(chain, n) = Absent
<1>. DEFINE chain == VerifyChain(cs, mark, known)
<1>1. Candidates(cs) = cs
  BY DEF Shows, Candidates
<1>2. Numbered(cs, n)
  BY <1>1 DEF Numbered, Shows, IsLine
<1>3. Observed(cs) = 1 .. n
  <2>1. \A c \in cs : c.body.seq \in 1 .. n
    BY DEF Shows, IsLine
  <2>2. \A s \in 1 .. n : \E b \in bodies : b.seq = s
    BY DEF IsLine
  <2>3. \A s \in 1 .. n : \E c \in cs : c.body.seq = s
    BY <2>2 DEF Shows
  <2>. QED
    BY <1>1, <2>1, <2>3 DEF Observed
<1>4. \A s \in 1 .. n : \A c, d \in CandidatesAt(cs, s) : c.body = d.body
  BY <1>1 DEF CandidatesAt, Shows, IsLine
<1>5. Conflicts(cs) = {}
  BY <1>3, <1>4 DEF Conflicts
<1>6. \A s \in 1 .. n : /\ Canonical(cs, s) \in cs /\ Canonical(cs, s).body.seq = s
                        /\ Canonical(cs, s).body \in bodies
  BY <1>2, <1>3, CanonicalType DEF Shows
<1>7. EditedSeqs(cs) = {}
  BY <1>3, <1>6 DEF EditedSeqs, Shows
<1>8. Reliable(cs) = 1 .. n
  BY <1>3, <1>5, <1>7 DEF Reliable
<1>9. MaxSeqOf(cs) = n
  <2>1. MaxSeqOf(cs) \in (1 .. n) \cup {0} /\ \A s \in 1 .. n : s <= MaxSeqOf(cs)
    BY <1>2, <1>3, ObservedType
  <2>. QED
    BY <2>1
<1>10. Gaps(cs, mark) = {}
  <2>1. Max({n, mark}) = n
    BY MaxIs
  <2>. QED
    BY <1>3, <1>9, <2>1 DEF Gaps
<1>11. MissingIds(cs, known) = {} /\ TamperedIds(cs, known) = {}
  BY DEF Knows, MissingIds, TamperedIds
<1>12. Broken(cs, known) = {}
  <2>1. ASSUME NEW s \in 1 .. n
        PROVE  Linked(cs, Reliable(cs), TamperedIds(cs, known), s, {})
    <3>. DEFINE body == Canonical(cs, s).body
    <3>1. body \in bodies /\ body.seq = s /\ ~Anchored(body)
      BY <1>6 DEF IsLine
    <3>2. ASSUME s - 1 \in 1 .. n PROVE body.prev = Canonical(cs, s - 1).body
      <4>1. s > 1
        BY <3>2
      <4>2. body.prev \in bodies /\ body.prev.seq = s - 1
        BY <3>1, <4>1 DEF IsLine
      <4>3. Canonical(cs, s - 1).body \in bodies /\ Canonical(cs, s - 1).body.seq = s - 1
        BY <1>6, <3>2
      <4>. QED
        BY <4>2, <4>3 DEF IsLine
    <3>. QED
      BY <1>8, <3>1, <3>2 DEF Linked
  <2>. QED
    BY <1>2, <1>8, <2>1, LinkedNoneBroken
<1>13. IsIntact(chain)
  BY <1>5, <1>7, <1>10, <1>11, <1>12, IntactIf DEF Shows
<1>14. Verified(cs, known) = 1 .. n
  BY <1>8, <1>11, <1>12 DEF Verified
<1>15. {c.body : c \in chain.records} = bodies
  <2>1. chain.records = {Canonical(cs, s) : s \in 1 .. n}
    BY <1>2, <1>14, VerifiedRecords
  <2>2. ASSUME NEW b \in bodies PROVE b = Canonical(cs, b.seq).body /\ b.seq \in 1 .. n
    BY <1>6 DEF IsLine
  <2>. HIDE DEF chain
  <2>. QED
    BY <1>6, <2>1, <2>2
<1>16. VerifiedTip(chain) = n
  <2>1. VerifiedTip(chain) = Max((1 .. n) \cup {0})
    BY <1>2, <1>14, TipType
  <2>. DEFINE T == (1 .. n) \cup {0}
  <2>2. T \in SUBSET Nat /\ n \in T /\ \A y \in T : y <= n
    OBVIOUS
  <2>. HIDE DEF T
  <2>3. Max(T) = n
    BY <2>2, MaxIs
  <2>. QED
    BY <2>1, <2>3 DEF T
<1>17. n # 0 => LinkTo(chain, n) \in bodies /\ LinkTo(chain, n).seq = n
  <2>. SUFFICES ASSUME n # 0 PROVE LinkTo(chain, n) \in bodies /\ LinkTo(chain, n).seq = n
    OBVIOUS
  <2>1. n \in 1 .. n
    OBVIOUS
  <2>2. LinkTo(chain, n) = Canonical(cs, n).body
    BY <1>2, <1>14, <2>1, VerifiedRecords DEF LinkTo
  <2>. QED
    BY <1>6, <2>1, <2>2
<1>18. n = 0 => LinkTo(chain, n) = Absent
  BY DEF LinkTo
<1>19. chain.max_seq = n
  BY <1>9 DEF VerifyChain
<1>. QED
  BY <1>13, <1>15, <1>16, <1>17, <1>18, <1>19

\* A record that is linked to the last one continues the line.
LEMMA LineExtended ==
  ASSUME NEW bodies, NEW n \in Nat, IsLine(bodies, n), NEW b,
         b.seq = n + 1, ~Anchored(b), n # 0 => b.prev \in bodies /\ b.prev.seq = n
  PROVE  IsLine(bodies \cup {b}, n + 1)
<1>1. \A d \in bodies : d.seq \in 1 .. n
  BY DEF IsLine
<1>2. \A d \in bodies : d.seq # n + 1
  BY <1>1
<1>3. {d.seq : d \in bodies \cup {b}} = 1 .. n + 1
  <2>1. {d.seq : d \in bodies \cup {b}} = {d.seq : d \in bodies} \cup {n + 1}
    OBVIOUS
  <2>2. {d.seq : d \in bodies} = 1 .. n
    BY DEF IsLine
  <2>3. (1 .. n) \cup {n + 1} = 1 .. n + 1
    OBVIOUS
  <2>. QED
    BY <2>1, <2>2, <2>3
<1>4. \A c, d \in bodies \cup {b} : c.seq = d.seq => c = d
  BY <1>2 DEF IsLine
<1>5. \A d \in bodies \cup {b} :
        ~Anchored(d) /\ (d.seq > 1 => d.prev \in bodies \cup {b} /\ d.prev.seq = d.seq - 1)
  <2>1. (n + 1) - 1 = n /\ (n + 1 > 1 => n # 0)
    OBVIOUS
  <2>. QED
    BY <2>1 DEF IsLine
<1>. QED
  BY <1>3, <1>4, <1>5 DEF IsLine

-----------------------------------------------------------------------------
(* A record with a number above all others.                                *)

\* A new comment takes a number of its own.
Appends(cs, x, known, q) ==
  /\ x.form = "record" /\ x.producer /\ ~x.edited
  /\ x.id \in Nat /\ \A k \in known : k.id # x.id
  /\ x.body.seq = q
  /\ \A s \in Observed(cs) : s < q

\* Only the number q was added, with x as its record.
OnlyAdds(cs, ds, x, known, q) ==
  /\ Observed(ds) = Observed(cs) \cup {q}
  /\ Canonical(ds, q) = x
  /\ \A s \in Observed(cs) : Canonical(ds, s) = Canonical(cs, s)
  /\ Conflicts(ds) = Conflicts(cs)
  /\ EditedSeqs(ds) = EditedSeqs(cs)
  /\ Reliable(ds) = Reliable(cs) \cup {q}
  /\ MaxSeqOf(ds) = q
  /\ MissingIds(ds, known) = MissingIds(cs, known)
  /\ TamperedIds(ds, known) = TamperedIds(cs, known)

\* It leaves every other number as it is, and is reliable.
LEMMA AppendKeepsOthers ==
  ASSUME NEW N \in Nat, NEW cs, Numbered(cs, N), NEW x, NEW known,
         NEW q \in Nat, q # 0, Appends(cs, x, known, q)
  PROVE  /\ \E M \in Nat : Numbered(cs \cup {x}, M)
         /\ OnlyAdds(cs, cs \cup {x}, x, known, q)
<1>. DEFINE ds == cs \cup {x}
<1>1. Candidates(ds) = Candidates(cs) \cup {x}
  BY DEF Candidates, Appends
<1>2. Observed(ds) = Observed(cs) \cup {q}
  BY <1>1 DEF Observed, Appends
<1>3. Observed(cs) \in SUBSET Nat /\ q \notin Observed(cs)
  <2>1. Observed(cs) \in SUBSET (1 .. N)
    BY ObservedType
  <2>2. Observed(cs) \in SUBSET Nat
    BY <2>1
  <2>. QED
    BY <2>2 DEF Appends
<1>4. N + q \in Nat /\ Numbered(ds, N + q)
  <2>1. \A c \in Candidates(cs) : c.body.seq \in 1 .. N + q
    BY DEF Numbered
  <2>2. x.body.seq \in 1 .. N + q
    BY DEF Appends
  <2>3. x.id \in Nat /\ \A c \in Candidates(cs) : c.id \in Nat
    BY DEF Numbered, Appends
  <2>4. N + q \in Nat
    OBVIOUS
  <2>. QED
    BY <1>1, <2>1, <2>2, <2>3, <2>4 DEF Numbered
<1>5. CandidatesAt(ds, q) = {x}
  BY <1>1, <1>3 DEF CandidatesAt, Observed, Appends
<1>6. \A s \in Observed(cs) : CandidatesAt(ds, s) = CandidatesAt(cs, s)
  BY <1>1, <1>3 DEF CandidatesAt, Appends
<1>7. Canonical(ds, q) = x
  <2>1. q \in Observed(ds)
    BY <1>2
  <2>2. Canonical(ds, q) \in CandidatesAt(ds, q)
    BY <1>4, <2>1, CanonicalType
  <2>. QED
    BY <1>5, <2>2
<1>8. \A s \in Observed(cs) : Canonical(ds, s) = Canonical(cs, s)
  BY <1>6 DEF Canonical
<1>. HIDE DEF ds
<1>9. Conflicts(ds) = Conflicts(cs)
  BY <1>2, <1>3, <1>5, <1>6 DEF Conflicts
<1>10. EditedSeqs(ds) = EditedSeqs(cs)
  BY <1>2, <1>3, <1>7, <1>8, <1>9 DEF EditedSeqs, Appends
<1>11. Reliable(ds) = Reliable(cs) \cup {q}
  BY <1>2, <1>3, <1>9, <1>10 DEF Reliable, Conflicts, EditedSeqs
<1>12. MaxSeqOf(ds) = q
  <2>. DEFINE T == Observed(ds) \cup {0}
  <2>1. T \in SUBSET Nat /\ q \in T /\ \A y \in T : y <= q
    BY <1>2, <1>3 DEF Appends
  <2>. HIDE DEF T
  <2>2. Max(T) = q
    BY <2>1, MaxIs
  <2>. QED
    BY <2>2 DEF T, MaxSeqOf
<1>13. MissingIds(ds, known) = MissingIds(cs, known)
  <2>1. {j \in known : \A c \in ds : c.id # j.id} = {j \in known : \A c \in cs : c.id # j.id}
    BY DEF ds, Appends
  <2>. QED
    BY <2>1 DEF MissingIds
<1>14. TamperedIds(ds, known) = TamperedIds(cs, known)
  <2>1. {j \in known : \E c \in ds : c.id = j.id /\ c.body # j.body}
          = {j \in known : \E c \in cs : c.id = j.id /\ c.body # j.body}
    BY DEF ds, Appends
  <2>. QED
    BY <2>1 DEF TamperedIds
<1>. QED
  BY <1>2, <1>4, <1>7, <1>8, <1>9, <1>10, <1>11, <1>12, <1>13, <1>14
     DEF ds, OnlyAdds

\* The links of the others stay as they are: nobody was linked to its number.
LEMMA AppendKeepsLinks ==
  ASSUME NEW N \in Nat, NEW cs, Numbered(cs, N), NEW x, NEW known,
         NEW q \in Nat, q # 0, Appends(cs, x, known, q),
         NEW tampered, NEW s \in Reliable(cs), NEW broken
  PROVE  Linked(cs \cup {x}, Reliable(cs \cup {x}), tampered, s, broken)
           <=> Linked(cs, Reliable(cs), tampered, s, broken)
<1>. DEFINE ds == cs \cup {x}
            body == Canonical(cs, s).body
            old == {m \in Reliable(cs) \ broken : m < s /\ Canonical(cs, m).id \notin tampered}
            new == {m \in Reliable(ds) \ broken : m < s /\ Canonical(ds, m).id \notin tampered}
            previous == IF Anchored(body) THEN body.anchor ELSE s - 1
<1>1. /\ Reliable(ds) = Reliable(cs) \cup {q}
      /\ \A m \in Reliable(cs) : Canonical(ds, m) = Canonical(cs, m)
  <2>1. OnlyAdds(cs, ds, x, known, q)
    BY AppendKeepsOthers
  <2>2. Reliable(cs) \in SUBSET Observed(cs)
    BY ReliableType
  <2>. QED
    BY <2>1, <2>2 DEF OnlyAdds
<1>2. Reliable(cs) \in SUBSET Nat /\ (\A m \in Reliable(cs) : m < q) /\ q \notin Reliable(cs)
  <2>1. Reliable(cs) \in SUBSET (1 .. N)
    BY ObservedType, ReliableType
  <2>2. Reliable(cs) \in SUBSET Nat
    BY <2>1
  <2>3. \A m \in Reliable(cs) : m < q
    BY ReliableType DEF Appends
  <2>. QED
    BY <2>2, <2>3
<1>. HIDE DEF ds
<1>3. new = old
  BY <1>1, <1>2
<1>4. Max(old \cup {0}) \in Nat /\ Max(old \cup {0}) < q
  <2>. DEFINE T == old \cup {0}
  <2>1. T \in SUBSET Nat /\ T # {} /\ (\A y \in T : y < q) /\ \A y \in T : y <= q
    BY <1>2
  <2>. HIDE DEF T
  <2>2. Max(T) \in T
    BY <2>1, GreatestElement
  <2>3. Max(T) \in Nat /\ Max(T) < q
    BY <2>1, <2>2
  <2>. QED
    BY <2>3 DEF T
<1>. DEFINE anchored == Anchored(body) => body.anchor = Max(old \cup {0})
<1>5. Linked(cs, Reliable(cs), tampered, s, broken) <=>
        anchored /\ (previous \in Reliable(cs) => body.prev = Canonical(cs, previous).body)
  BY DEF Linked
<1>6. Linked(ds, Reliable(ds), tampered, s, broken) <=>
        anchored /\ (previous \in Reliable(ds) => body.prev = Canonical(ds, previous).body)
  <2>1. Canonical(ds, s).body = body
    BY <1>1
  <2>2. Linked(ds, Reliable(ds), tampered, s, broken) <=>
          /\ Anchored(Canonical(ds, s).body) => Canonical(ds, s).body.anchor = Max(new \cup {0})
          /\ (IF Anchored(Canonical(ds, s).body) THEN Canonical(ds, s).body.anchor ELSE s - 1)
               \in Reliable(ds) => Canonical(ds, s).body.prev = Canonical(ds,
               IF Anchored(Canonical(ds, s).body) THEN Canonical(ds, s).body.anchor ELSE s - 1).body
    BY DEF Linked
  <2>. HIDE DEF body, old, new
  <2>. QED
    BY <1>3, <2>1, <2>2
<1>7. anchored => previous # q
  <2>1. s \in Nat /\ s < q
    BY <1>2
  <2>2. s - 1 # q
    BY <2>1
  <2>3. Max(old \cup {0}) # q
    BY <1>4
  <2>. QED
    BY <2>2, <2>3
<1>8. previous # q => (previous \in Reliable(ds) <=> previous \in Reliable(cs))
  BY <1>1
<1>9. previous \in Reliable(cs) => Canonical(ds, previous) = Canonical(cs, previous)
  BY <1>1
<1>. HIDE DEF anchored, previous, body, old, new
<1>10. Linked(ds, Reliable(ds), tampered, s, broken)
         <=> Linked(cs, Reliable(cs), tampered, s, broken)
  BY <1>5, <1>6, <1>7, <1>8, <1>9
<1>. QED
  BY <1>10 DEF ds

\* An appended record that is linked adds no broken link and mends none.
LEMMA AppendKeepsBroken ==
  ASSUME NEW N \in Nat, NEW cs, Numbered(cs, N), NEW x, NEW known,
         NEW q \in Nat, q # 0, Appends(cs, x, known, q),
         Linked(cs \cup {x}, Reliable(cs \cup {x}), TamperedIds(cs, known), q, Broken(cs, known))
  PROVE  Broken(cs \cup {x}, known) = Broken(cs, known)
<1>. DEFINE ds == cs \cup {x}
            M == MaxSeqOf(cs)
            tampered == TamperedIds(cs, known)
<1>1. /\ Reliable(ds) = Reliable(cs) \cup {q}
      /\ MaxSeqOf(ds) = q /\ TamperedIds(ds, known) = tampered
  BY AppendKeepsOthers DEF OnlyAdds
<1>2. M \in Nat /\ M < q /\ Reliable(cs) \in SUBSET (1 .. M)
  <2>1. M \in Nat /\ M \in Observed(cs) \cup {0} /\ Observed(cs) \in SUBSET (1 .. M)
    BY ObservedType
  <2>2. M < q
    BY <2>1 DEF Appends
  <2>. QED
    BY <2>1, <2>2, ReliableType
<1>3. PICK f : IsWalk(cs, known, M, f) /\ Broken(cs, known) = f[M]
  BY <1>2, BrokenIsWalk
<1>4. PICK g : IsWalk(ds, known, q, g) /\ Broken(ds, known) = g[q]
  BY <1>1, BrokenIsWalk
<1>5. f[0] = {} /\ \A s \in 1 .. M : Steps(cs, known, f, s)
  BY <1>2, <1>3, WalkSteps
<1>6. g[0] = {} /\ \A s \in 1 .. q : Steps(ds, known, g, s)
  BY <1>4, WalkSteps
<1>7. \A s \in Reliable(cs) : \A b : Linked(ds, Reliable(ds), tampered, s, b)
                                       <=> Linked(cs, Reliable(cs), tampered, s, b)
  BY AppendKeepsLinks
<1>. HIDE DEF ds, M, tampered
<1>8. \A s \in 0 .. M : g[s] = f[s]
  <2>. DEFINE S == {s \in 0 .. M : g[s] = f[s]}
  <2>1. 0 \in S
    BY <1>2, <1>5, <1>6
  <2>2. ASSUME NEW m \in 0 .. M, m \in S, m < M PROVE m + 1 \in S
    <3>. DEFINE b == f[m]
    <3>1. m + 1 \in 1 .. M /\ m + 1 \in 1 .. q /\ (m + 1) - 1 = m /\ m + 1 # q /\ m + 1 \in 0 .. M
      BY <1>2, <2>2
    <3>2. g[m] = b
      BY <2>2
    <3>. HIDE DEF b
    <3>3. f[m + 1] = b \cup {l \in {m + 1} \cap Reliable(cs) :
                              ~Linked(cs, Reliable(cs), tampered, l, b)}
      BY <1>5, <3>1 DEF Steps, tampered, b
    <3>4. g[m + 1] = b \cup {l \in {m + 1} \cap Reliable(ds) :
                              ~Linked(ds, Reliable(ds), tampered, l, b)}
      BY <1>1, <1>6, <3>1, <3>2 DEF Steps
    <3>5. {m + 1} \cap Reliable(ds) = {m + 1} \cap Reliable(cs)
      BY <1>1, <3>1
    <3>6. g[m + 1] = f[m + 1]
      BY <1>7, <3>3, <3>4, <3>5
    <3>. QED
      BY <3>1, <3>6
  <2>. HIDE DEF S
  <2>3. 0 .. M \subseteq S
    BY <1>2, <2>1, <2>2, InductionUpTo
  <2>. QED
    BY <2>3 DEF S
<1>. DEFINE b == f[M]
<1>9. \A s \in 0 .. q - 1 : s >= M => g[s] = b
  <2>. DEFINE S == {s \in 0 .. q - 1 : s >= M => g[s] = b}
  <2>1. 0 \in S
    BY <1>2, <1>8
  <2>2. ASSUME NEW m \in 0 .. q - 1, m \in S, m < q - 1 PROVE m + 1 \in S
    <3>1. m + 1 \in 1 .. q /\ (m + 1) - 1 = m /\ m + 1 # q /\ m + 1 \in 0 .. q - 1
      BY <2>2
    <3>2. CASE m + 1 > M
      <4>1. m >= M /\ m + 1 \notin Reliable(ds)
        BY <1>1, <1>2, <3>1, <3>2
      <4>2. g[m] = b
        BY <2>2, <4>1
      <4>3. Steps(ds, known, g, m + 1)
        BY <1>6, <3>1
      <4>4. {m + 1} \cap Reliable(ds) = {}
        BY <4>1
      <4>5. g[m + 1] = g[m]
        BY <3>1, <4>3, <4>4 DEF Steps
      <4>. QED
        BY <3>1, <4>2, <4>5
    <3>3. CASE ~(m + 1 > M)
      <4>1. m + 1 >= M => m + 1 = M
        BY <1>2, <3>1, <3>3
      <4>2. g[M] = b
        BY <1>2, <1>8
      <4>. QED
        BY <3>1, <4>1, <4>2
    <3>. QED
      BY <3>2, <3>3
  <2>3. q - 1 \in Nat
    OBVIOUS
  <2>. HIDE DEF S
  <2>4. 0 .. q - 1 \subseteq S
    BY <2>1, <2>2, <2>3, InductionUpTo
  <2>. QED
    BY <2>4 DEF S
<1>10. g[q - 1] = b
  BY <1>2, <1>9
<1>. HIDE DEF b
<1>11. g[q] = b \cup {l \in {q} \cap Reliable(ds) : ~Linked(ds, Reliable(ds), tampered, l, b)}
  <2>1. Steps(ds, known, g, q)
    BY <1>6
  <2>. QED
    BY <1>1, <1>10, <2>1 DEF Steps
<1>12. Linked(ds, Reliable(ds), tampered, q, b)
  BY <1>3 DEF b, ds, tampered
<1>13. g[q] = b
  BY <1>11, <1>12
<1>. QED
  BY <1>3, <1>4, <1>13 DEF b, ds

\* Only reliable records are reported as broken.
LEMMA BrokenAreReliable ==
  ASSUME NEW n \in Nat, NEW cs, Numbered(cs, n), NEW known
  PROVE  Broken(cs, known) \subseteq Reliable(cs)
<1>. DEFINE N == MaxSeqOf(cs)
<1>1. N \in Nat
  BY ObservedType
<1>2. PICK f : IsWalk(cs, known, N, f) /\ Broken(cs, known) = f[N]
  BY <1>1, BrokenIsWalk
<1>3. f[0] = {} /\ \A m \in 1 .. N : Steps(cs, known, f, m)
  BY <1>1, <1>2, WalkSteps
<1>. DEFINE S == {m \in 0 .. N : f[m] \subseteq Reliable(cs)}
<1>. HIDE DEF N
<1>4. 0 .. N \subseteq S
  <2>1. 0 \in S
    BY <1>1, <1>3
  <2>2. ASSUME NEW m \in 0 .. N, m \in S, m < N PROVE m + 1 \in S
    <3>1. m + 1 \in 1 .. N /\ (m + 1) - 1 = m /\ m + 1 \in 0 .. N
      BY <1>1, <2>2
    <3>2. Steps(cs, known, f, m + 1)
      BY <1>3, <3>1
    <3>3. f[m + 1] \subseteq f[m] \cup Reliable(cs)
      BY <3>1, <3>2 DEF Steps
    <3>. QED
      BY <2>2, <3>1, <3>3
  <2>. HIDE DEF S
  <2>. QED
    BY <1>1, <2>1, <2>2, InductionUpTo
<1>. QED
  BY <1>1, <1>2, <1>4

-----------------------------------------------------------------------------
(* Incident records.                                                       *)

\* The maximum that IncidentSeq takes is one of its three numbers and none of
\* them exceeds it.
LEMMA MaxOfThree ==
  ASSUME NEW a \in Nat, NEW b \in Nat, NEW c \in Nat
  PROVE  /\ Max({a, b, c}) \in {a, b, c}
         /\ a <= Max({a, b, c}) /\ b <= Max({a, b, c}) /\ c <= Max({a, b, c})
<1>1. a + b + c \in Nat /\ \A y \in {a, b, c} : y <= a + b + c
  OBVIOUS
<1>2. {a, b, c} \in SUBSET Nat /\ {a, b, c} # {}
  OBVIOUS
<1>3. Max({a, b, c}) \in {a, b, c} /\ \A y \in {a, b, c} : y <= Max({a, b, c})
  BY <1>1, <1>2, GreatestElement
<1>. QED
  BY <1>3

\* A number above every number that was used or remembered, such that the
\* numbers below it that are not used are the gaps that were there before.
IsAbove(cs, mark, q) ==
  /\ q \in Nat /\ q # 0
  /\ \A s \in Observed(cs) : s < q
  /\ Max({q, mark}) = q
  /\ q - 1 = Max({MaxSeqOf(cs), mark})

\* The number of an incident record is one.
LEMMA IncidentNumber ==
  ASSUME NEW N \in Nat, NEW cs, Numbered(cs, N), NEW mark \in Nat, NEW known
  PROVE  IsAbove(cs, mark, IncidentSeq(VerifyChain(cs, mark, known)))
<1>. DEFINE chain == VerifyChain(cs, mark, known)
            tip == VerifiedTip(chain)
            M == MaxSeqOf(cs)
            q == IncidentSeq(chain)
            big == Max({tip, M, mark})
<1>1. tip \in Nat /\ tip <= M
  BY TipType
<1>2. M \in Nat /\ \A s \in Observed(cs) : s \in Nat /\ s <= M
  BY ObservedType
<1>3. q = big + 1
  BY DEF VerifyChain, IncidentSeq
<1>. HIDE DEF tip, M, q, chain
<1>4. big \in {tip, M, mark} /\ tip <= big /\ M <= big /\ mark <= big
  BY <1>1, <1>2, MaxOfThree
<1>5. big \in Nat
  BY <1>1, <1>2, <1>4
<1>. HIDE DEF big
<1>6. q \in Nat /\ q # 0 /\ q - 1 = big /\ mark <= q
  BY <1>3, <1>4, <1>5
<1>7. \A s \in Observed(cs) : s < q
  BY <1>2, <1>3, <1>4, <1>5
<1>8. Max({q, mark}) = q
  <2>1. {q, mark} \in SUBSET Nat /\ q \in {q, mark} /\ \A y \in {q, mark} : y <= q
    BY <1>6
  <2>. QED
    BY <2>1, MaxIs
<1>9. Max({M, mark}) = big
  <2>1. big \in {M, mark} /\ {M, mark} \in SUBSET Nat /\ \A y \in {M, mark} : y <= big
    BY <1>1, <1>2, <1>4, <1>5
  <2>. QED
    BY <2>1, MaxIs
<1>. QED
  BY <1>6, <1>7, <1>8, <1>9 DEF q, chain, M, IsAbove

\* An incident record, as issue_transaction makes it, is verified at once and
\* every violation is still reported, and no other.
LEMMA IncidentAppended ==
  ASSUME NEW N \in Nat, NEW cs, Numbered(cs, N), NEW mark \in Nat, NEW known, NEW x,
         NEW chain, chain = VerifyChain(cs, mark, known),
         Appends(cs, x, known, IncidentSeq(chain)),
         x.body.anchor = VerifiedTip(chain),
         x.body.prev = LinkTo(chain, VerifiedTip(chain))
  PROVE  LET next == VerifyChain(cs \cup {x}, mark, known)
         IN  x \in next.records /\ next.violations = chain.violations
<1>. DEFINE ds == cs \cup {x}
            next == VerifyChain(ds, mark, known)
            q == IncidentSeq(chain)
            tip == VerifiedTip(chain)
            broken == Broken(cs, known)
            tampered == TamperedIds(cs, known)
<1>0. IsAbove(cs, mark, q)
  BY IncidentNumber
<1>. HIDE DEF q, tip
<1>1. /\ q \in Nat /\ q # 0
      /\ \A s \in Observed(cs) : s < q
      /\ Max({q, mark}) = q
      /\ q - 1 = Max({MaxSeqOf(cs), mark})
      /\ Appends(cs, x, known, q)
      /\ x.body.anchor = tip
      /\ x.body.prev = LinkTo(chain, tip)
  BY <1>0 DEF IsAbove, q, tip
<1>2. /\ tip = Max(Verified(cs, known) \cup {0})
      /\ tip \in Nat /\ tip \in Verified(cs, known) \cup {0}
  BY TipType DEF tip
<1>3. \A s \in Verified(cs, known) : VerifiedBody(chain, s) = Canonical(cs, s).body
  BY VerifiedRecords
<1>4. /\ Observed(ds) = Observed(cs) \cup {q}
      /\ Canonical(ds, q) = x
      /\ \A s \in Observed(cs) : Canonical(ds, s) = Canonical(cs, s)
      /\ Conflicts(ds) = Conflicts(cs)
      /\ EditedSeqs(ds) = EditedSeqs(cs)
      /\ Reliable(ds) = Reliable(cs) \cup {q}
      /\ MaxSeqOf(ds) = q
      /\ MissingIds(ds, known) = MissingIds(cs, known)
      /\ TamperedIds(ds, known) = tampered
  <2>1. q \in Nat /\ q # 0 /\ Appends(cs, x, known, q)
    BY <1>1
  <2>2. OnlyAdds(cs, ds, x, known, q)
    BY <2>1, AppendKeepsOthers
  <2>. QED
    BY <2>2 DEF OnlyAdds
<1>5. /\ Reliable(cs) \in SUBSET Observed(cs) /\ Observed(cs) \in SUBSET Nat
      /\ q \notin Observed(cs) /\ 0 \notin Observed(cs)
  <2>1. Observed(cs) \in SUBSET (1 .. N)
    BY ObservedType
  <2>2. Observed(cs) \in SUBSET Nat /\ 0 \notin Observed(cs)
    BY <2>1
  <2>3. q \notin Observed(cs)
    BY <1>1, <2>2
  <2>. QED
    BY <2>2, <2>3, ReliableType
<1>6. Linked(ds, Reliable(ds), tampered, q, broken)
  <2>. DEFINE eligible ==
         {m \in Reliable(ds) \ broken : m < q /\ Canonical(ds, m).id \notin tampered}
  <2>1. Anchored(x.body)
    BY <1>1, <1>2, AbsentIsNoNumber DEF Anchored
  <2>2. \A m : m \in eligible <=> m \in Verified(cs, known)
    <3>1. ~(q < q)
      BY <1>1
    <3>2. \A m \in Reliable(cs) : m < q /\ Canonical(ds, m) = Canonical(cs, m)
      BY <1>1, <1>4, <1>5
    <3>. QED
      BY <1>4, <3>1, <3>2 DEF Verified
  <2>3. eligible = Verified(cs, known)
    BY <2>2
  <2>4. x.body.anchor = Max(eligible \cup {0})
    BY <1>1, <1>2, <2>3
  <2>5. tip \in Reliable(ds) => x.body.prev = Canonical(ds, tip).body
    <3>. SUFFICES ASSUME tip \in Reliable(ds) PROVE x.body.prev = Canonical(ds, tip).body
      OBVIOUS
    <3>1. tip # q
      <4>1. \A s \in Verified(cs, known) : s < q
        BY <1>1, <1>5 DEF Verified
      <4>. QED
        BY <1>1, <1>2, <4>1
    <3>2. tip \in Reliable(cs) /\ tip # 0
      BY <1>4, <1>5, <3>1
    <3>3. tip \in Verified(cs, known)
      BY <1>2, <3>2
    <3>4. Canonical(ds, tip) = Canonical(cs, tip)
      BY <1>4, <1>5, <3>2
    <3>. QED
      BY <1>1, <1>3, <3>2, <3>3, <3>4 DEF LinkTo
  <2>. HIDE DEF ds, tampered, broken
  <2>. QED
    BY <1>1, <1>4, <2>1, <2>4, <2>5 DEF Linked
<1>7. Broken(ds, known) = broken
  BY <1>1, <1>6, AppendKeepsBroken
<1>8. Gaps(ds, mark) = Gaps(cs, mark)
  <2>1. Gaps(ds, mark) = (1 .. q) \ (Observed(cs) \cup {q})
    BY <1>1, <1>4 DEF Gaps
  <2>2. Gaps(cs, mark) = (1 .. q - 1) \ Observed(cs)
    BY <1>1 DEF Gaps
  <2>3. \A s : s \in 1 .. q /\ s # q <=> s \in 1 .. q - 1
    BY <1>1
  <2>. QED
    BY <2>1, <2>2, <2>3
<1>9. {Violation("edited", Canonical(ds, s).id) : s \in EditedSeqs(ds)}
        = {Violation("edited", Canonical(cs, s).id) : s \in EditedSeqs(cs)}
  <2>1. EditedSeqs(cs) \subseteq Observed(cs)
    BY DEF EditedSeqs
  <2>. QED
    BY <1>4, <2>1
<1>10. /\ {d \in ds : d.form = "malformed"} = {d \in cs : d.form = "malformed"}
       /\ {d \in ds : d.form = "record" /\ ~d.producer}
            = {d \in cs : d.form = "record" /\ ~d.producer}
  BY <1>1 DEF Appends
<1>11. ViolationsOf(ds, mark, known) = ViolationsOf(cs, mark, known)
  <2>. HIDE DEF ds
  <2>. QED
    BY <1>4, <1>7, <1>8, <1>9, <1>10 DEF ViolationsOf
<1>12. next.violations = chain.violations
  BY <1>11 DEF VerifyChain
<1>13. x \in next.records
  <2>1. PICK M \in Nat : Numbered(ds, M)
    BY <1>1, AppendKeepsOthers
  <2>2. q \in Reliable(ds) /\ q \notin Broken(ds, known)
    <3>1. Broken(cs, known) \subseteq Reliable(cs)
      BY BrokenAreReliable
    <3>. QED
      BY <1>4, <1>5, <1>7, <3>1
  <2>3. x.id \notin TamperedIds(ds, known)
    BY <1>1, <1>4 DEF TamperedIds, Appends
  <2>4. q \in Verified(ds, known)
    BY <1>4, <2>2, <2>3 DEF Verified
  <2>. HIDE DEF ds
  <2>5. next.records = {Canonical(ds, s) : s \in Verified(ds, known)}
    BY <2>1, VerifiedRecords
  <2>. QED
    BY <1>4, <2>4, <2>5
<1>. QED
  BY <1>12, <1>13
=============================================================================
