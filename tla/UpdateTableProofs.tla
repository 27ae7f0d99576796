------------------------- MODULE UpdateTableProofs -------------------------
(***************************************************************************)
(* Facts about the table of update rows, for every bound: what the newest  *)
(* id is, what a read answers, and what a compaction leaves.               *)
(***************************************************************************)
EXTENDS UpdateTable, TLAPS, FiniteSetTheorems, WellFoundedInduction

----------------------------------------------------------------------------
(* Numbers: the largest id of a set of rows. *)

\* A set of natural numbers has a least element: of the intervals 1 .. n there is
\* a minimal one.
LEMMA LeastElement ==
    ASSUME NEW T \in SUBSET Nat, T # {}
    PROVE  \E m \in T : \A n \in T : m <= n
<1> DEFINE Up == {1 .. n : n \in T}
           All == UNION Up
<1>1. \A n \in T : 1 .. n \in FiniteSubsetsOf(All)
  BY FS_Interval DEF FiniteSubsetsOf
<1>2. Up \subseteq FiniteSubsetsOf(All) /\ Up # {}
  BY <1>1
<1>3. IsWellFoundedOn(StrictSubsetOrdering(All), FiniteSubsetsOf(All))
  BY FS_StrictSubsetOrderingWellFounded
<1>4. PICK I \in Up : \A J \in Up : <<J, I>> \notin StrictSubsetOrdering(All)
  BY <1>2, <1>3, WFMin, Zenon
<1>5. PICK m \in T : I = 1 .. m
  BY <1>4
<1>6. ASSUME NEW n \in T, n < m
      PROVE  FALSE
  <2>1. 1 .. n \subseteq 1 .. m /\ 1 .. n # 1 .. m
    <3>1. m \in 1 .. m /\ m \notin 1 .. n
      BY <1>6
    <3> QED
      BY <1>6, <3>1
  <2>2. 1 .. n \in SUBSET All /\ 1 .. m \in SUBSET All
    OBVIOUS
  <2>3. <<1 .. n, 1 .. m>> \in StrictSubsetOrdering(All)
    BY <2>1, <2>2 DEF StrictSubsetOrdering
  <2> QED
    BY <1>4, <1>5, <2>3
<1> QED
  BY <1>6

\* A set of ids has a largest one: its least upper bound.
LEMMA LargestExists ==
    ASSUME NEW T \in SUBSET Seqs, T # {}
    PROVE  \E n \in T : \A s \in T : s <= n
<1> DEFINE Bounding == {n \in Nat : \A s \in T : s <= n}
<1>1. MaxSeq \in Bounding /\ T \subseteq Nat \ {0}
  BY BoundsAssumption DEF Seqs
<1>2. PICK n \in Bounding : \A m \in Bounding : n <= m
  BY <1>1, LeastElement
<1>3. ASSUME n \notin T
      PROVE  FALSE
  <2>1. PICK s \in T : TRUE
    OBVIOUS
  <2>2. n # 0
    BY <1>1, <2>1
  <2>3. n - 1 \in Bounding
    BY <1>1, <1>3, <2>2
  <2> QED
    BY <1>2, <2>3
<1> QED
  BY <1>3

\* Newest really is the largest id of a set of records with ids.
LEMMA NewestIsLargest ==
    ASSUME NEW R, SeqsOf(R) \in SUBSET Seqs, R # {}, NEW default
    PROVE  /\ Newest(R, default) \in SeqsOf(R)
           /\ \A r \in R : r.seq <= Newest(R, default)
<1>1. SeqsOf(R) # {}
  BY DEF SeqsOf
<1>2. \E n \in SeqsOf(R) : \A s \in SeqsOf(R) : s <= n
  BY <1>1, LargestExists
<1>3. /\ Newest(R, default) \in SeqsOf(R)
      /\ \A s \in SeqsOf(R) : s <= Newest(R, default)
  BY <1>2 DEF Newest
<1> QED BY <1>3 DEF SeqsOf

\* Any record at the top of a set is its newest.
LEMMA NewestUnique ==
    ASSUME NEW R, SeqsOf(R) \in SUBSET Seqs, NEW default,
           NEW r \in R, \A q \in R : q.seq <= r.seq
    PROVE  Newest(R, default) = r.seq
<1>1. /\ Newest(R, default) \in SeqsOf(R)
      /\ r.seq <= Newest(R, default)
  BY NewestIsLargest
<1>2. Newest(R, default) <= r.seq
  BY <1>1 DEF SeqsOf
<1>3. r.seq \in Nat /\ Newest(R, default) \in Nat
  BY <1>1, BoundsAssumption DEF SeqsOf, Seqs
<1> QED BY <1>1, <1>2, <1>3

\* The newest of a set of rows, or its default, is an id or 0.
LEMMA NewestType ==
    ASSUME NEW R, SeqsOf(R) \in SUBSET Seqs, NEW default \in 0..MaxSeq
    PROVE  Newest(R, default) \in 0..MaxSeq
<1>1. CASE R = {}
  BY <1>1 DEF Newest
<1>2. CASE R # {}
  BY <1>2, NewestIsLargest, BoundsAssumption DEF Seqs
<1> QED BY <1>1, <1>2

\* The ids of well-typed rows are ids.
LEMMA RowSeqs ==
    ASSUME NEW R \in SUBSET Row
    PROVE  SeqsOf(R) \in SUBSET Seqs
BY DEF SeqsOf, Row

\* What a read answers from well-typed columns and rows is well typed.
LEMMA ReadBodyType ==
    ASSUME NEW snap \in SUBSET Edits, NEW snapSeq \in 0..MaxSeq,
           NEW R \in SUBSET Row, NEW since \in {NoCursor} \cup 0..MaxSeq
    PROVE  /\ ReadBody(snap, snapSeq, R, since).edits \in SUBSET Edits
           /\ ReadBody(snap, snapSeq, R, since).seq \in 0..MaxSeq
<1> DEFINE resync == since < snapSeq
           found == IF resync THEN R ELSE After(R, since)
<1>1. found \in SUBSET Row
  BY DEF After
<1>2. EditsOf(found) \in SUBSET Edits
  BY <1>1 DEF EditsOf, Row
<1>3. (IF resync THEN snapSeq ELSE since) \in 0..MaxSeq
  BY BoundsAssumption DEF NoCursor
<1>4. Newest(found, IF resync THEN snapSeq ELSE since) \in 0..MaxSeq
  <2> HIDE DEF found, resync
  <2> QED BY <1>1, <1>3, RowSeqs, NewestType
<1> HIDE DEF found
<1> QED BY <1>2, <1>4 DEF ReadBody, found
============================================================================
