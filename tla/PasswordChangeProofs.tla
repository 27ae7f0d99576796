------------------------ MODULE PasswordChangeProofs ------------------------
(***************************************************************************)
(* PasswordChange, proved for every vault and every bound: no item is left *)
(* under a key that is gone, the index vouches for the rows, the batches   *)
(* keep to their limits, and a change nears its end with every step.       *)
(***************************************************************************)
EXTENDS PasswordChange, AccountSessionProofs, FiniteSetTheorems

-----------------------------------------------------------------------------
(* The inductive invariant *)

\* Nothing is of a generation that is still to come, and of a deleted account
\* nothing is stored.
GenInv ==
    /\ SessionOK(now, cred, session)
    /\ cred = 0 => \A i \in Items : key[i] = 0
    /\ cred # 0 => /\ \A i \in Items : key[i] <= cred
                   /\ write.key <= cred
                   /\ page.gen # 0 /\ page.gen <= cred
    /\ write = NoWrite \/ write.item \in Rows \cup {Index}

\* Up to the rotation, the page has what is stored of the items it has read.
ReadInv == ~hole => \A i \in AlreadyRead : key[i] # 0 => i \in page.plain

\* The index is sent with the last batch.
LastInv ==
    page.pc = "batch" => \A b \in DOMAIN page.todo : Index \in page.todo[b] => b = Len(page.todo)

\* What is under a key that is gone is in the copy of an earlier attempt; and
\* after a rotation the page has it, and it is still to be sent.
HeldInv ==
    ~hole => \A i \in Items : Stranded(i) =>
        CASE page.pc = "save" -> i \in page.plain
          [] page.pc = "batch" -> /\ i \in page.plain
                                  /\ \E b \in DOMAIN page.todo : i \in page.todo[b]
          [] OTHER -> i \in page.copy

\* A save of the index that was let in comes upon the index it was let in for, or
\* upon none, as long as the password has not changed.
WriteInv ==
    ~hole /\ write.item = Index /\ write.key = cred => key[Index] \in {0, cred}

\* The inductive invariant; NothingStranded follows from HeldInv.
IInv ==
    /\ TypeOK
    /\ GenInv
    /\ ReadInv
    /\ LastInv
    /\ HeldInv
    /\ WriteInv
    /\ CommitMarker

-----------------------------------------------------------------------------
(* Batches.  What the batches hold is proved by induction on the rows; the *)
(* induction is by the least counterexample.                               *)

\* A set of natural numbers has a least element: of the intervals 1 .. n there is
\* a minimal one.
LEMMA LeastElement ==
    ASSUME NEW T \in SUBSET Nat, T # {}
    PROVE  \E m \in T : \A n \in T : m <= n
<1> DEFINE Up == {1 .. n : n \in T}
           All == UNION Up
<1>1. \A n \in T : 1 .. n \in FiniteSubsetsOf(All)
  BY FS_Interval DEF FiniteSubsetsOf
<1>2. Up \subseteq FiniteSubsetsOf(All) /\ Up # {}
  BY <1>1
<1>3. IsWellFoundedOn(StrictSubsetOrdering(All), FiniteSubsetsOf(All))
  BY FS_StrictSubsetOrderingWellFounded
<1>4. PICK I \in Up : \A J \in Up : <<J, I>> \notin StrictSubsetOrdering(All)
  BY <1>2, <1>3, WFMin, Zenon
<1>5. PICK m \in T : I = 1 .. m
  BY <1>4
<1>6. ASSUME NEW n \in T, n < m
      PROVE  FALSE
  <2>1. 1 .. n \subseteq 1 .. m /\ 1 .. n # 1 .. m
    <3>1. m \in 1 .. m /\ m \notin 1 .. n
      BY <1>6
    <3> QED
      BY <1>6, <3>1
  <2>2. 1 .. n \in SUBSET All /\ 1 .. m \in SUBSET All
    OBVIOUS
  <2>3. <<1 .. n, 1 .. m>> \in StrictSubsetOrdering(All)
    BY <2>1, <2>2 DEF StrictSubsetOrdering
  <2> QED
    BY <1>4, <1>5, <2>3
<1> QED
  BY <1>6

\* Induction up to N, over a set.
LEMMA Induction ==
    ASSUME NEW N \in Nat, NEW G \in SUBSET (0 .. N), 0 \in G,
           \A k \in 0 .. N : k \in G /\ k < N => k + 1 \in G
    PROVE  N \in G
<1> SUFFICES ASSUME N \notin G PROVE FALSE
  OBVIOUS
<1> DEFINE T == (0 .. N) \ G
<1>1. T \in SUBSET Nat /\ N \in T
  OBVIOUS
<1>2. PICK m \in T : \A n \in T : m <= n
  BY <1>1, LeastElement
<1>3. m \in 0 .. N /\ m # 0 /\ m - 1 \in 0 .. N /\ m - 1 < N
  BY <1>2
<1>4. m - 1 \in G
  BY <1>2, <1>3
<1>5. (m - 1) + 1 \in G
  BY <1>3, <1>4
<1> QED
  BY <1>2, <1>3, <1>5

\* What batchNotePayloads does with the n-th item, and the function it computes.
Added(split, items, rows, n) ==
    IF n \in rows THEN Packed(split, items[n]) ELSE split

Computes(f, items, rows, k) ==
    f = [n \in 0 .. k |-> IF n = 0 THEN NoNotes ELSE Added(f[n - 1], items, rows, n)]

\* There is such a function, by induction on the items.
LEMMA BatchesExist ==
    ASSUME NEW items, NEW rows, NEW N \in Nat
    PROVE  \E f : Computes(f, items, rows, N)
<1> DEFINE G == {k \in 0 .. N : \E f : Computes(f, items, rows, k)}
<1>1. 0 \in G
  <2> DEFINE f == [n \in 0 .. 0 |-> NoNotes]
  <2>1. \A n \in 0 .. 0 : n = 0
    OBVIOUS
  <2>2. Computes(f, items, rows, 0)
    BY <2>1 DEF Computes
  <2> HIDE DEF f
  <2> QED
    BY <2>2
<1>2. ASSUME NEW k \in 0 .. N, k \in G, k < N
      PROVE  k + 1 \in G
  <2>1. PICK f : Computes(f, items, rows, k)
    BY <1>2
  <2> DEFINE g == [n \in 0 .. k + 1 |-> IF n <= k THEN f[n] ELSE Added(f[k], items, rows, k + 1)]
             e == [n \in 0 .. k + 1 |->
                      IF n = 0 THEN NoNotes ELSE Added(g[n - 1], items, rows, n)]
  <2>2. ASSUME NEW n \in 0 .. k + 1
        PROVE  g[n] = e[n]
    <3>1. CASE n = 0
      BY <2>1, <3>1 DEF Computes
    <3>2. CASE n # 0 /\ n <= k
      <4>1. n \in 0 .. k /\ n - 1 \in 0 .. k + 1 /\ n - 1 <= k
        BY <3>2
      <4>2. g[n] = f[n] /\ g[n - 1] = f[n - 1]
        BY <3>2, <4>1
      <4>3. f[n] = Added(f[n - 1], items, rows, n)
        BY <2>1, <3>2, <4>1 DEF Computes
      <4> HIDE DEF g
      <4> QED
        BY <3>2, <4>2, <4>3
    <3>3. CASE n = k + 1
      <4>1. n # 0 /\ ~(n <= k) /\ n - 1 = k /\ k \in 0 .. k + 1 /\ k <= k
        BY <3>3
      <4>2. g[n] = Added(f[k], items, rows, k + 1) /\ g[k] = f[k]
        BY <4>1
      <4> HIDE DEF g
      <4> QED
        BY <3>3, <4>1, <4>2
    <3> QED
      BY <3>1, <3>2, <3>3
  <2>3. g = e
    <3>1. DOMAIN g = DOMAIN e
      OBVIOUS
    <3> QED
      BY <2>2
  <2>4. Computes(g, items, rows, k + 1)
    BY <2>3 DEF Computes
  <2>5. k + 1 \in 0 .. N
    BY <1>2
  <2> HIDE DEF g
  <2> QED
    BY <2>4, <2>5
<1>3. N \in G
  <2> HIDE DEF G
  <2>1. G \in SUBSET (0 .. N)
    BY DEF G
  <2> QED
    BY <1>1, <1>2, <2>1, Induction
<1> QED
  BY <1>3

\* So batchNotePayloads is its last value.
LEMMA BatchesComputed ==
    ASSUME NEW items, NEW rows, Len(items) \in Nat
    PROVE  \E f : /\ Computes(f, items, rows, Len(items))
                  /\ batchNotePayloads(items, rows) = f[Len(items)].list
<1> DEFINE f == CHOOSE f : Computes(f, items, rows, Len(items))
<1>1. Computes(f, items, rows, Len(items))
  BY BatchesExist
<1>2. batchNotePayloads(items, rows) = f[Len(items)].list
  BY DEF batchNotePayloads, Computes, Added
<1> QED
  BY <1>1, <1>2

\* The batches hold the rows of R and no other.
Sent == [id : Nat, length : Nat]
Batched(bs, R) ==
    /\ bs \in Seq(Seq(Sent)) /\ Len(bs) >= 1
    /\ \A b \in DOMAIN bs : \A j \in DOMAIN bs[b] : bs[b][j].id \in R
    /\ \A i \in R : \E b \in DOMAIN bs : \E j \in DOMAIN bs[b] : bs[b][j].id = i

\* An item begins a batch.
LEMMA BatchBegun ==
    ASSUME NEW bs, NEW R, Batched(bs, R), NEW it \in Sent
    PROVE  Batched(Append(bs, <<it>>), R \cup {it.id})
<1> DEFINE cs == Append(bs, <<it>>)
<1>1. /\ cs \in Seq(Seq(Sent)) /\ Len(cs) = Len(bs) + 1 /\ Len(bs) \in Nat
      /\ DOMAIN cs = 1 .. Len(bs) + 1 /\ DOMAIN bs = 1 .. Len(bs)
      /\ \A b \in 1 .. Len(bs) : cs[b] = bs[b]
      /\ cs[Len(bs) + 1] = <<it>>
  BY DEF Batched
<1>2. DOMAIN <<it>> = 1 .. 1 /\ <<it>>[1] = it
  OBVIOUS
<1> HIDE DEF cs
<1>3. ASSUME NEW b \in DOMAIN cs, NEW j \in DOMAIN cs[b]
      PROVE  cs[b][j].id \in R \cup {it.id}
  <2>1. CASE b \in 1 .. Len(bs)
    BY <1>1, <2>1 DEF Batched
  <2>2. CASE b = Len(bs) + 1
    BY <1>1, <1>2, <2>2
  <2> QED
    BY <1>1, <2>1, <2>2
<1>4. ASSUME NEW i \in R \cup {it.id}
      PROVE  \E b \in DOMAIN cs : \E j \in DOMAIN cs[b] : cs[b][j].id = i
  <2>1. CASE i \in R
    <3>1. PICK b \in DOMAIN bs : \E j \in DOMAIN bs[b] : bs[b][j].id = i
      BY <2>1 DEF Batched
    <3> QED
      BY <1>1, <3>1
  <2>2. CASE i = it.id
    <3>1. Len(bs) + 1 \in DOMAIN cs /\ 1 \in DOMAIN cs[Len(bs) + 1]
          /\ cs[Len(bs) + 1][1].id = i
      BY <1>1, <1>2, <2>2
    <3> QED
      BY <3>1
  <2> QED
    BY <2>1, <2>2
<1>5. Batched(cs, R \cup {it.id})
  BY <1>1, <1>3, <1>4 DEF Batched
<1> QED
  BY <1>5 DEF cs

\* An item goes into the batch that was begun last.
LEMMA BatchExtended ==
    ASSUME NEW bs, NEW R, Batched(bs, R), NEW it \in Sent
    PROVE  Batched([bs EXCEPT ![Len(bs)] = Append(@, it)], R \cup {it.id})
<1> DEFINE L == Len(bs)
           last == Append(bs[L], it)
           cs == [bs EXCEPT ![L] = last]
<1>1. L \in Nat /\ L >= 1 /\ DOMAIN bs = 1 .. L /\ L \in 1 .. L /\ bs[L] \in Seq(Sent)
  BY DEF Batched
<1>2. /\ last \in Seq(Sent) /\ DOMAIN last = 1 .. Len(bs[L]) + 1 /\ Len(bs[L]) \in Nat
      /\ DOMAIN bs[L] = 1 .. Len(bs[L])
      /\ \A j \in 1 .. Len(bs[L]) : last[j] = bs[L][j]
      /\ last[Len(bs[L]) + 1] = it
  BY <1>1
<1> HIDE DEF last
<1>3. /\ cs \in Seq(Seq(Sent)) /\ Len(cs) = L /\ DOMAIN cs = 1 .. L
      /\ \A b \in 1 .. L : b # L => cs[b] = bs[b]
      /\ cs[L] = last
  <2>1. bs \in [1 .. L -> Seq(Sent)]
    BY <1>1 DEF Batched
  <2> HIDE DEF L
  <2>2. cs \in [1 .. L -> Seq(Sent)]
    BY <1>2, <2>1
  <2> QED
    BY <1>1, <2>1, <2>2
<1> HIDE DEF cs, L
<1>4. ASSUME NEW b \in DOMAIN cs, NEW j \in DOMAIN cs[b]
      PROVE  cs[b][j].id \in R \cup {it.id}
  <2>1. CASE b # L
    BY <1>1, <1>3, <2>1 DEF Batched
  <2>2. CASE b = L /\ j \in 1 .. Len(bs[L])
    BY <1>1, <1>2, <1>3, <2>2 DEF Batched
  <2>3. CASE b = L /\ j = Len(bs[L]) + 1
    BY <1>2, <1>3, <2>3
  <2>4. b = L => j \in 1 .. Len(bs[L]) \/ j = Len(bs[L]) + 1
    BY <1>2, <1>3
  <2> QED
    BY <2>1, <2>2, <2>3, <2>4
<1>5. ASSUME NEW i \in R \cup {it.id}
      PROVE  \E b \in DOMAIN cs : \E j \in DOMAIN cs[b] : cs[b][j].id = i
  <2>1. CASE i \in R
    <3>0. PICK b \in DOMAIN bs : \E j \in DOMAIN bs[b] : bs[b][j].id = i
      BY <2>1 DEF Batched
    <3>1. PICK j \in DOMAIN bs[b] : bs[b][j].id = i
      BY <3>0
    <3>2. b \in DOMAIN cs /\ j \in DOMAIN cs[b] /\ cs[b][j] = bs[b][j]
      <4>1. CASE b = L
        BY <1>1, <1>2, <1>3, <4>1
      <4>2. CASE b # L
        BY <1>1, <1>3, <4>2
      <4> QED
        BY <4>1, <4>2
    <3> QED
      BY <3>1, <3>2
  <2>2. CASE i = it.id
    <3>1. Len(bs[L]) + 1 \in DOMAIN cs[L] /\ L \in DOMAIN cs /\ cs[L][Len(bs[L]) + 1].id = i
      BY <1>1, <1>2, <1>3, <2>2
    <3> QED
      BY <3>1
  <2> QED
    BY <2>1, <2>2
<1>6. Batched(cs, R \cup {it.id})
  BY <1>1, <1>3, <1>4, <1>5 DEF Batched
<1> QED
  BY <1>6 DEF cs, last, L

\* batchNotePayloads sends each of the rows, and no other.
LEMMA BatchesHoldRows ==
    ASSUME NEW items \in Seq(Sent), NEW rows \in SUBSET (1 .. Len(items)),
           \A n \in 1 .. Len(items) : items[n].id = n
    PROVE  Batched(batchNotePayloads(items, rows), rows)
<1>1. Len(items) \in Nat /\ \A n \in 1 .. Len(items) : items[n] \in Sent
  OBVIOUS
<1>2. PICK f : /\ Computes(f, items, rows, Len(items))
               /\ batchNotePayloads(items, rows) = f[Len(items)].list
  BY <1>1, BatchesComputed
<1> DEFINE N == Len(items)
           G == {k \in 0 .. N : Batched(f[k].list, rows \cap (1 .. k))}
<1>3. f[0] = NoNotes /\ \A n \in 1 .. N : f[n] = Added(f[n - 1], items, rows, n)
  <2>1. 0 \in 0 .. N /\ \A n \in 1 .. N : n \in 0 .. N /\ n # 0
    BY <1>1
  <2> QED
    BY <1>2, <2>1 DEF Computes
<1>4. 0 \in G
  <2>1. Batched(<< <<>> >>, {})
    BY DEF Batched
  <2>2. rows \cap (1 .. 0) = {} /\ 0 \in 0 .. N
    BY <1>1
  <2> QED
    BY <1>3, <2>1, <2>2 DEF NoNotes
<1>5. ASSUME NEW k \in 0 .. N, k \in G, k < N
      PROVE  k + 1 \in G
  <2>1. k + 1 \in 1 .. N /\ k + 1 \in 0 .. N /\ (k + 1) - 1 = k
    BY <1>5
  <2>2. f[k + 1] = Added(f[k], items, rows, k + 1)
    BY <1>3, <2>1
  <2>3. Batched(f[k].list, rows \cap (1 .. k)) /\ items[k + 1] \in Sent /\ items[k + 1].id = k + 1
    BY <1>1, <1>5, <2>1
  <2>4. rows \cap (1 .. k + 1) =
            IF k + 1 \in rows THEN (rows \cap (1 .. k)) \cup {k + 1} ELSE rows \cap (1 .. k)
    BY <1>5
  <2>5. Batched(f[k + 1].list, rows \cap (1 .. k + 1))
    <3> DEFINE bs == f[k].list
               R == rows \cap (1 .. k)
    <3>1. Batched(bs, R)
      BY <2>3
    <3> HIDE DEF bs, R
    <3>2. k + 1 \in rows =>
             /\ Batched(Append(bs, <<items[k + 1]>>), R \cup {k + 1})
             /\ Batched([bs EXCEPT ![Len(bs)] = Append(@, items[k + 1])], R \cup {k + 1})
      <4> DEFINE it == items[k + 1]
      <4>1. it \in Sent /\ it.id = k + 1
        BY <2>3
      <4> HIDE DEF it
      <4>2. /\ Batched(Append(bs, <<it>>), R \cup {it.id})
            /\ Batched([bs EXCEPT ![Len(bs)] = Append(@, it)], R \cup {it.id})
        BY <3>1, <4>1, BatchBegun, BatchExtended
      <4> QED
        BY <4>1, <4>2 DEF it
    <3>3. /\ k + 1 \notin rows => f[k + 1].list = bs
          /\ k + 1 \in rows => \/ f[k + 1].list = Append(bs, <<items[k + 1]>>)
                               \/ f[k + 1].list = [bs EXCEPT ![Len(bs)] = Append(@, items[k + 1])]
      BY <2>2 DEF bs, Added, Packed
    <3>4. rows \cap (1 .. k + 1) = IF k + 1 \in rows THEN R \cup {k + 1} ELSE R
      BY <2>4 DEF R
    <3> QED
      BY <3>1, <3>2, <3>3, <3>4
  <2> QED
    BY <2>1, <2>5
<1>6. N \in G
  <2> HIDE DEF G
  <2>1. G \in SUBSET (0 .. N)
    BY DEF G
  <2> QED
    BY <1>1, <1>4, <1>5, <2>1, Induction
<1>7. rows \cap (1 .. N) = rows
  OBVIOUS
<1> QED
  BY <1>2, <1>6, <1>7

-----------------------------------------------------------------------------
(* The characters of a batch, a fold over the positions of its items *)

Summed(f, batch, k) ==
    f = [T \in SUBSET (1 .. k) |->
            IF T = {} THEN 0 ELSE f[T \ {Max(T)}] + batch[Max(T)].length]

\* The last position is the greatest.
LEMMA MaxLast ==
    ASSUME NEW n \in Nat, NEW T \in SUBSET (1 .. n), n \in T
    PROVE  Max(T) = n
<1>1. \A x \in T : x \in Int /\ x <= n
  OBVIOUS
<1>2. \A x \in T : (\A y \in T : x >= y) => x = n
  BY <1>1
<1>3. \A y \in T : n >= y
  BY <1>1
<1> QED
  BY <1>2, <1>3 DEF Max

\* There is such a fold, by induction on the items.
LEMMA SumsExist ==
    ASSUME NEW batch, NEW N \in Nat
    PROVE  \E f : Summed(f, batch, N)
<1> DEFINE G == {k \in 0 .. N : \E f : Summed(f, batch, k)}
<1>1. 0 \in G
  <2> DEFINE f == [T \in SUBSET (1 .. 0) |-> 0]
  <2>1. \A T \in SUBSET (1 .. 0) : T = {}
    OBVIOUS
  <2>2. Summed(f, batch, 0)
    BY <2>1 DEF Summed
  <2> HIDE DEF f
  <2> QED
    BY <2>2
<1>2. ASSUME NEW k \in 0 .. N, k \in G, k < N
      PROVE  k + 1 \in G
  <2>1. PICK f : Summed(f, batch, k)
    BY <1>2
  <2> DEFINE g == [T \in SUBSET (1 .. k + 1) |->
                      IF k + 1 \in T THEN f[T \ {k + 1}] + batch[k + 1].length ELSE f[T]]
             e == [T \in SUBSET (1 .. k + 1) |->
                      IF T = {} THEN 0 ELSE g[T \ {Max(T)}] + batch[Max(T)].length]
  <2>2. ASSUME NEW T \in SUBSET (1 .. k + 1)
        PROVE  g[T] = e[T]
    <3>1. CASE k + 1 \in T
      <4>1. Max(T) = k + 1
        BY <3>1, MaxLast
      <4>2. T \ {k + 1} \in SUBSET (1 .. k + 1) /\ k + 1 \notin T \ {k + 1}
        OBVIOUS
      <4>3. g[T \ {k + 1}] = f[T \ {k + 1}]
        BY <4>2
      <4>4. g[T] = f[T \ {k + 1}] + batch[k + 1].length
        BY <3>1
      <4> HIDE DEF g
      <4> QED
        BY <3>1, <4>1, <4>3, <4>4
    <3>2. CASE k + 1 \notin T
      <4>1. T \in SUBSET (1 .. k) /\ T \ {Max(T)} \in SUBSET (1 .. k + 1)
            /\ k + 1 \notin T \ {Max(T)}
        <5>1. \A x \in T : x \in 1 .. k + 1 /\ x # k + 1
          BY <3>2
        <5>2. \A x \in T : x \in 1 .. k
          BY <5>1
        <5> QED
          BY <3>2, <5>2
      <4>2. g[T] = f[T] /\ g[T \ {Max(T)}] = f[T \ {Max(T)}]
        BY <3>2, <4>1
      <4>3. f[T] = IF T = {} THEN 0 ELSE f[T \ {Max(T)}] + batch[Max(T)].length
        BY <2>1, <4>1 DEF Summed
      <4> HIDE DEF g
      <4> QED
        BY <4>2, <4>3
    <3> QED
      BY <3>1, <3>2
  <2>3. g = e
    <3>1. DOMAIN g = DOMAIN e
      OBVIOUS
    <3> QED
      BY <2>2
  <2>4. Summed(g, batch, k + 1)
    BY <2>3 DEF Summed
  <2>5. k + 1 \in 0 .. N
    BY <1>2
  <2> HIDE DEF g
  <2> QED
    BY <2>4, <2>5
<1>3. N \in G
  <2> HIDE DEF G
  <2>1. G \in SUBSET (0 .. N)
    BY DEF G
  <2> QED
    BY <1>1, <1>2, <2>1, Induction
<1> QED
  BY <1>3

\* Chars is its value for all positions.
LEMMA CharsSummed ==
    ASSUME NEW batch \in Seq(Sent)
    PROVE  \E f : Summed(f, batch, Len(batch)) /\ Chars(batch) = f[1 .. Len(batch)]
<1> DEFINE f == CHOOSE f : Summed(f, batch, Len(batch))
<1>1. Len(batch) \in Nat /\ DOMAIN batch = 1 .. Len(batch)
  OBVIOUS
<1>2. Summed(f, batch, Len(batch))
  BY <1>1, SumsExist
<1>3. Chars(batch) = f[1 .. Len(batch)]
  BY <1>1 DEF Chars, FoldLeft, MapThenFoldSet, Summed
<1> QED
  BY <1>2, <1>3

\* Position by position.
LEMMA SumsGrow ==
    ASSUME NEW f, NEW batch, NEW n \in Nat, Summed(f, batch, n)
    PROVE  /\ f[1 .. 0] = 0
           /\ \A j \in 1 .. n : f[1 .. j] = f[1 .. j - 1] + batch[j].length
<1>1. f[1 .. 0] = 0
  <2>1. 1 .. 0 = {} /\ {} \in SUBSET (1 .. n)
    OBVIOUS
  <2> QED
    BY <2>1 DEF Summed
<1>2. ASSUME NEW j \in 1 .. n
      PROVE  f[1 .. j] = f[1 .. j - 1] + batch[j].length
  <2>1. j \in Nat /\ j \in 1 .. j /\ 1 .. j \in SUBSET (1 .. n) /\ 1 .. j # {}
    OBVIOUS
  <2>2. Max(1 .. j) = j
    BY <2>1, MaxLast
  <2>3. (1 .. j) \ {j} = 1 .. j - 1
    BY <2>1
  <2> QED
    BY <2>1, <2>2, <2>3 DEF Summed
<1> QED
  BY <1>1, <1>2

\* No items, no characters; and an item adds its own.
LEMMA CharsAdded ==
    ASSUME NEW batch \in Seq(Sent), NEW it \in Sent
    PROVE  /\ Chars(<<>>) = 0
           /\ Chars(batch) \in Nat
           /\ Chars(Append(batch, it)) = Chars(batch) + it.length
<1>1. Chars(<<>>) = 0
  <2>1. <<>> \in Seq(Sent) /\ Len(<<>>) = 0
    OBVIOUS
  <2>2. PICK f : Summed(f, <<>>, 0) /\ Chars(<<>>) = f[1 .. 0]
    BY <2>1, CharsSummed
  <2> QED
    BY <2>2, SumsGrow
<1> DEFINE more == Append(batch, it)
           n == Len(batch)
<1>2. /\ n \in Nat /\ more \in Seq(Sent) /\ Len(more) = n + 1 /\ more[n + 1] = it
      /\ \A j \in 1 .. n : more[j] = batch[j] /\ batch[j] \in Sent
  OBVIOUS
<1> HIDE DEF more, n
<1>3. PICK f : Summed(f, batch, n) /\ Chars(batch) = f[1 .. n]
  BY CharsSummed DEF n
<1>4. PICK g : Summed(g, more, n + 1) /\ Chars(more) = g[1 .. n + 1]
  BY <1>2, CharsSummed
<1>5. /\ f[1 .. 0] = 0
      /\ \A j \in 1 .. n : f[1 .. j] = f[1 .. j - 1] + batch[j].length
  BY <1>2, <1>3, SumsGrow
<1>6. /\ g[1 .. 0] = 0
      /\ \A j \in 1 .. n + 1 : g[1 .. j] = g[1 .. j - 1] + more[j].length
  BY <1>2, <1>4, SumsGrow
<1>7. f[1 .. n] \in Nat /\ g[1 .. n] = f[1 .. n]
  <2> DEFINE G == {k \in 0 .. n : f[1 .. k] \in Nat /\ g[1 .. k] = f[1 .. k]}
  <2>1. 0 \in G
    BY <1>2, <1>5, <1>6
  <2>2. ASSUME NEW k \in 0 .. n, k \in G, k < n
        PROVE  k + 1 \in G
    <3>1. k + 1 \in 1 .. n /\ k + 1 \in 1 .. n + 1 /\ k + 1 \in 0 .. n /\ (k + 1) - 1 = k
      BY <1>2, <2>2
    <3>2. /\ f[1 .. k + 1] = f[1 .. k] + batch[k + 1].length
          /\ g[1 .. k + 1] = g[1 .. k] + more[k + 1].length
      BY <1>5, <1>6, <3>1
    <3>3. more[k + 1] = batch[k + 1] /\ batch[k + 1].length \in Nat
      BY <1>2, <3>1 DEF Sent
    <3> QED
      BY <2>2, <3>1, <3>2, <3>3
  <2>3. n \in G
    <3> HIDE DEF G
    <3>1. G \in SUBSET (0 .. n)
      BY DEF G
    <3> QED
      BY <1>2, <2>1, <2>2, <3>1, Induction
  <2> QED
    BY <2>3
<1>8. Chars(more) = Chars(batch) + it.length
  <2>1. n + 1 \in 1 .. n + 1 /\ (n + 1) - 1 = n
    BY <1>2
  <2> QED
    BY <1>2, <1>3, <1>4, <1>6, <1>7, <2>1
<1> QED
  BY <1>1, <1>3, <1>7, <1>8 DEF more

-----------------------------------------------------------------------------
(* The batches one after the other *)

Flattened(f, bs, k) ==
    f = [i \in 1 .. k |-> IF i = 1 THEN bs[i] ELSE f[i - 1] \o bs[i]]

\* The same, batch by batch, without the domain.
Joins(f, bs, k) == f[1] = bs[1] /\ \A i \in 2 .. k : f[i] = f[i - 1] \o bs[i]

\* There is such a function, by induction on the batches.
LEMMA FlattenedExist ==
    ASSUME NEW bs, NEW N \in Nat
    PROVE  \E f : Flattened(f, bs, N)
<1> DEFINE G == {k \in 0 .. N : \E f : Flattened(f, bs, k)}
<1>1. 0 \in G
  <2> DEFINE f == [i \in 1 .. 0 |-> bs[i]]
  <2>1. \A i \in 1 .. 0 : FALSE
    OBVIOUS
  <2>2. Flattened(f, bs, 0)
    BY <2>1 DEF Flattened
  <2> HIDE DEF f
  <2> QED
    BY <2>2
<1>2. ASSUME NEW k \in 0 .. N, k \in G, k < N
      PROVE  k + 1 \in G
  <2>1. PICK f : Flattened(f, bs, k)
    BY <1>2
  <2> DEFINE g == [i \in 1 .. k + 1 |->
                      IF i <= k THEN f[i] ELSE IF i = 1 THEN bs[i] ELSE f[k] \o bs[i]]
             e == [i \in 1 .. k + 1 |-> IF i = 1 THEN bs[i] ELSE g[i - 1] \o bs[i]]
  <2>2. ASSUME NEW i \in 1 .. k + 1
        PROVE  g[i] = e[i]
    <3>1. CASE i <= k
      <4>1. i \in 1 .. k /\ (i # 1 => i - 1 \in 1 .. k + 1 /\ i - 1 <= k)
        BY <3>1
      <4>2. g[i] = f[i] /\ (i # 1 => g[i - 1] = f[i - 1])
        BY <3>1, <4>1
      <4>3. f[i] = IF i = 1 THEN bs[i] ELSE f[i - 1] \o bs[i]
        BY <2>1, <4>1 DEF Flattened
      <4> HIDE DEF g
      <4> QED
        BY <4>2, <4>3
    <3>2. CASE ~(i <= k)
      <4>1. i = k + 1 /\ i - 1 = k /\ (i # 1 => k \in 1 .. k + 1 /\ k <= k)
        BY <3>2
      <4>2. g[i] = (IF i = 1 THEN bs[i] ELSE f[k] \o bs[i]) /\ (i # 1 => g[k] = f[k])
        BY <3>2, <4>1
      <4> HIDE DEF g
      <4> QED
        BY <4>1, <4>2
    <3> QED
      BY <3>1, <3>2
  <2>3. g = e
    <3>1. DOMAIN g = DOMAIN e
      OBVIOUS
    <3> QED
      BY <2>2
  <2>4. Flattened(g, bs, k + 1)
    BY <2>3 DEF Flattened
  <2>5. k + 1 \in 0 .. N
    BY <1>2
  <2> HIDE DEF g
  <2> QED
    BY <2>4, <2>5
<1>3. N \in G
  <2> HIDE DEF G
  <2>1. G \in SUBSET (0 .. N)
    BY DEF G
  <2> QED
    BY <1>1, <1>2, <2>1, Induction
<1> QED
  BY <1>3

\* FlattenSeq is its last value.
LEMMA FlattenComputed ==
    ASSUME NEW S, NEW bs \in Seq(Seq(S)), Len(bs) >= 1
    PROVE  \E f : /\ FlattenSeq(bs) = f[Len(bs)]
                  /\ Joins(f, bs, Len(bs))
                  /\ \A i \in 1 .. Len(bs) : f[i] \in Seq(S)
<1> DEFINE f == CHOOSE f : Flattened(f, bs, Len(bs))
<1>1. Len(bs) \in Nat /\ Len(bs) # 0
  OBVIOUS
<1>2. Flattened(f, bs, Len(bs))
  BY <1>1, FlattenedExist
<1>3. FlattenSeq(bs) = f[Len(bs)]
  BY <1>1 DEF FlattenSeq, Flattened
<1> HIDE DEF f
<1>4. f[1] = bs[1] /\ \A i \in 2 .. Len(bs) : f[i] = f[i - 1] \o bs[i]
  <2>1. 1 \in 1 .. Len(bs) /\ \A i \in 2 .. Len(bs) : i \in 1 .. Len(bs) /\ i # 1
    BY <1>1
  <2> QED
    BY <1>2, <2>1 DEF Flattened
<1>5. \A i \in 1 .. Len(bs) : f[i] \in Seq(S)
  <2> DEFINE N == Len(bs)
             G == {k \in 0 .. N : k = 0 \/ f[k] \in Seq(S)}
  <2>1. N \in Nat /\ \A i \in 1 .. N : bs[i] \in Seq(S)
    OBVIOUS
  <2> HIDE DEF N
  <2>2. \A m \in 0 .. N : m \in G
    <3>1. 0 \in G
      BY <2>1
    <3>2. ASSUME NEW k \in 0 .. N, k \in G, k < N
          PROVE  k + 1 \in G
      <4>1. k + 1 \in 1 .. N /\ k + 1 \in 0 .. N /\ bs[k + 1] \in Seq(S)
        BY <2>1, <3>2
      <4>2. CASE k = 0
        BY <1>4, <4>1, <4>2
      <4>3. CASE k # 0
        <5>1. k + 1 \in 2 .. Len(bs) /\ (k + 1) - 1 = k
          BY <4>1, <4>3 DEF N
        <5>2. f[k + 1] = f[k] \o bs[k + 1] /\ f[k] \in Seq(S)
          BY <1>4, <3>2, <4>3, <5>1
        <5>3. f[k] \o bs[k + 1] \in Seq(S)
          <6> DEFINE p == f[k]
                     q == bs[k + 1]
          <6>1. p \in Seq(S) /\ q \in Seq(S)
            BY <4>1, <5>2
          <6> HIDE DEF p, q
          <6>2. p \o q \in Seq(S)
            BY <6>1
          <6> QED
            BY <6>2 DEF p, q
        <5> QED
          BY <4>1, <5>2, <5>3
      <4> QED
        BY <4>2, <4>3
    <3> HIDE DEF G
    <3>3. ASSUME NEW m \in 0 .. N
          PROVE  m \in G
      <4> DEFINE H == G \cap (0 .. m)
      <4>1. H \in SUBSET (0 .. m) /\ 0 \in H /\ m \in Nat
        BY <2>1, <3>1
      <4>2. ASSUME NEW k \in 0 .. m, k \in H, k < m
            PROVE  k + 1 \in H
        <5>1. k \in 0 .. N /\ k < N /\ k + 1 \in 0 .. m
          BY <2>1, <4>2
        <5> QED
          BY <3>2, <4>2, <5>1
      <4> HIDE DEF H
      <4>3. m \in H
        BY <4>1, <4>2, Induction
      <4> QED
        BY <4>3 DEF H
    <3> QED
      BY <3>3
  <2> QED
    <3>1. \A i \in 1 .. N : i \in 0 .. N /\ i # 0
      BY <2>1
    <3> QED
      BY <2>2, <3>1 DEF N
<1> QED
  BY <1>3, <1>4, <1>5 DEF Joins

\* Where two lists of batches agree, so do they one after the other.
LEMMA FlattenAgree ==
    ASSUME NEW f, NEW g, NEW bs, NEW cs, NEW N \in Nat,
           N >= 1, Joins(f, bs, N), Joins(g, cs, N), \A i \in 1 .. N : bs[i] = cs[i]
    PROVE  f[N] = g[N]
<1> DEFINE G == {k \in 0 .. N : k = 0 \/ f[k] = g[k]}
<1>1. 0 \in G
  OBVIOUS
<1>2. ASSUME NEW k \in 0 .. N, k \in G, k < N
      PROVE  k + 1 \in G
  <2>1. k + 1 \in 1 .. N /\ k + 1 \in 0 .. N /\ bs[k + 1] = cs[k + 1]
    BY <1>2
  <2>2. CASE k = 0
    BY <2>1, <2>2 DEF Joins
  <2>3. CASE k # 0
    <3>1. k + 1 \in 2 .. N /\ (k + 1) - 1 = k
      BY <1>2, <2>3
    <3>2. f[k] = g[k] /\ f[k + 1] = f[k] \o bs[k + 1] /\ g[k + 1] = g[k] \o cs[k + 1]
      BY <1>2, <2>3, <3>1 DEF Joins
    <3> QED
      BY <2>1, <3>2
  <2> QED
    BY <2>2, <2>3
<1>3. N \in G
  <2> HIDE DEF G
  <2>1. G \in SUBSET (0 .. N)
    BY DEF G
  <2> QED
    BY <1>1, <1>2, <2>1, Induction
<1> QED
  BY <1>3

\* A batch is begun with an item, or the last one takes it: either way the item
\* comes last.
LEMMA FlattenAdded ==
    ASSUME NEW S, NEW bs \in Seq(Seq(S)), Len(bs) >= 1, NEW it \in S
    PROVE  /\ FlattenSeq(bs) \in Seq(S)
           /\ FlattenSeq(Append(bs, <<it>>)) = Append(FlattenSeq(bs), it)
           /\ FlattenSeq([bs EXCEPT ![Len(bs)] = Append(@, it)]) = Append(FlattenSeq(bs), it)
<1> DEFINE L == Len(bs)
<1>1. L \in Nat /\ L >= 1 /\ L \in 1 .. L /\ bs[L] \in Seq(S) /\ bs \in [1 .. L -> Seq(S)]
  OBVIOUS
<1>2. PICK f : /\ FlattenSeq(bs) = f[L]
               /\ Joins(f, bs, L)
               /\ \A i \in 1 .. L : f[i] \in Seq(S)
  BY FlattenComputed
<1>3. FlattenSeq(Append(bs, <<it>>)) = Append(FlattenSeq(bs), it)
  <2> DEFINE cs == Append(bs, <<it>>)
  <2>1. /\ cs \in Seq(Seq(S)) /\ Len(cs) = L + 1 /\ cs[L + 1] = <<it>>
        /\ \A i \in 1 .. L : bs[i] = cs[i]
    OBVIOUS
  <2> HIDE DEF cs, L
  <2>2. PICK g : /\ FlattenSeq(cs) = g[L + 1]
                 /\ Joins(g, cs, L + 1)
    <3>1. Len(cs) >= 1
      BY <1>1, <2>1
    <3>2. \E g : /\ FlattenSeq(cs) = g[Len(cs)]
                  /\ Joins(g, cs, Len(cs))
      BY <2>1, <3>1, FlattenComputed
    <3> QED
      BY <2>1, <3>2
  <2>3. /\ L + 1 \in 2 .. L + 1 /\ (L + 1) - 1 = L
        /\ \A i \in 2 .. L : i \in 2 .. L + 1
    BY <1>1
  <2>4. f[L] = g[L]
    <3>1. Joins(g, cs, L)
      BY <2>2, <2>3 DEF Joins
    <3> QED
      BY <1>1, <1>2, <2>1, <2>2, <3>1, FlattenAgree
  <2>5. g[L + 1] = f[L] \o <<it>>
    BY <2>1, <2>2, <2>3, <2>4 DEF Joins
  <2>6. f[L] \o <<it>> = Append(f[L], it)
    BY <1>1, <1>2
  <2> QED
    BY <1>2, <2>2, <2>5, <2>6 DEF cs
<1>4. FlattenSeq([bs EXCEPT ![L] = Append(@, it)]) = Append(FlattenSeq(bs), it)
  <2> DEFINE last == Append(bs[L], it)
             cs == [bs EXCEPT ![L] = last]
  <2>1. last \in Seq(S)
    BY <1>1
  <2> HIDE DEF last
  <2>2. /\ cs \in Seq(Seq(S)) /\ Len(cs) = L /\ cs[L] = last
        /\ \A i \in 1 .. L : i # L => bs[i] = cs[i]
    <3> HIDE DEF L
    <3>1. cs \in [1 .. L -> Seq(S)]
      BY <1>1, <2>1
    <3> QED
      BY <1>1, <3>1
  <2> HIDE DEF cs, L
  <2>3. PICK g : /\ FlattenSeq(cs) = g[L]
                 /\ Joins(g, cs, L)
    <3>1. Len(cs) >= 1
      BY <1>1, <2>2
    <3>2. \E g : /\ FlattenSeq(cs) = g[Len(cs)]
                  /\ Joins(g, cs, Len(cs))
      BY <2>2, <3>1, FlattenComputed
    <3> QED
      BY <2>2, <3>2
  <2>4. ASSUME L = 1
        PROVE  FlattenSeq(cs) = Append(FlattenSeq(bs), it)
    BY <1>2, <2>2, <2>3, <2>4 DEF last, Joins
  <2>5. ASSUME L # 1
        PROVE  FlattenSeq(cs) = Append(FlattenSeq(bs), it)
    <3>1. /\ L - 1 \in Nat /\ L - 1 >= 1 /\ L - 1 \in 1 .. L /\ L \in 2 .. L
          /\ \A i \in 1 .. L - 1 : i \in 1 .. L /\ i # L
          /\ \A i \in 2 .. L - 1 : i \in 2 .. L
          /\ 1 \in 1 .. L /\ 1 # L
      BY <1>1, <2>5
    <3>2. f[L - 1] = g[L - 1]
      <4> DEFINE N == L - 1
      <4>1. /\ N \in Nat /\ N >= 1
            /\ Joins(f, bs, N) /\ Joins(g, cs, N)
            /\ \A i \in 1 .. N : bs[i] = cs[i]
        BY <1>2, <2>2, <2>3, <3>1 DEF Joins
      <4> HIDE DEF N
      <4>2. f[N] = g[N]
        BY <4>1, FlattenAgree
      <4> QED
        BY <4>2 DEF N
    <3>3. f[L] = f[L - 1] \o bs[L] /\ g[L] = f[L - 1] \o last /\ f[L - 1] \in Seq(S)
      BY <1>2, <2>2, <2>3, <3>1, <3>2 DEF Joins
    <3>4. f[L - 1] \o last = Append(f[L - 1] \o bs[L], it)
      <4> DEFINE p == f[L - 1]
                 q == bs[L]
      <4>1. p \in Seq(S) /\ q \in Seq(S)
        BY <1>1, <3>3
      <4> HIDE DEF p, q
      <4>2. p \o Append(q, it) = Append(p \o q, it)
        BY <4>1
      <4> QED
        BY <4>2 DEF p, q, last
    <3> QED
      BY <1>2, <2>3, <3>3, <3>4
  <2>6. FlattenSeq(cs) = Append(FlattenSeq(bs), it)
    BY <2>4, <2>5
  <2> QED
    BY <2>6 DEF cs, last
<1> QED
  <2>1. FlattenSeq(bs) \in Seq(S)
    BY <1>1, <1>2
  <2> QED
    BY <1>3, <1>4, <2>1

-----------------------------------------------------------------------------
(* The limits *)

\* A split of the items: it fits them, and counts the characters of its last batch.
Splits(split, items) ==
    LET bs == split.list
    IN /\ bs \in Seq(Seq(Sent)) /\ Len(bs) >= 1
       /\ split.chars = Chars(bs[Len(bs)])
       /\ \A b \in DOMAIN bs : b > 1 => Len(bs[b]) >= 1
       /\ Fit(items, bs)

\* It does after one more item: one that begins a batch did not fit into the one
\* before, and one that exceeds the limit has found its batch empty.
LEMMA SplitGrows ==
    ASSUME NEW items, NEW split, Splits(split, items), NEW it \in Sent
    PROVE  Splits(Packed(split, it), Append(items, it))
<1> DEFINE bs == split.list
           L == Len(bs)
           last == bs[L]
<1>0. BATCH_MAX_NOTES \in Nat /\ BATCH_MAX_NOTES >= 1 /\ BATCH_MAX_CHARS \in Nat
  BY ChangeAssumption
<1>1. /\ bs \in Seq(Seq(Sent)) /\ L \in Nat /\ L >= 1 /\ L \in 1 .. L
      /\ DOMAIN bs = 1 .. L /\ last \in Seq(Sent) /\ Len(last) \in Nat
  BY DEF Splits
<1>2. /\ FlattenSeq(bs) = items /\ split.chars = Chars(last)
      /\ \A b \in 1 .. L : b > 1 => Len(bs[b]) >= 1
  BY <1>1 DEF Splits, Fit
<1>3. \A b \in 1 .. L :
        /\ Len(bs[b]) <= BATCH_MAX_NOTES
        /\ Chars(bs[b]) > BATCH_MAX_CHARS => Len(bs[b]) = 1
        /\ b > 1 => \/ Len(bs[b - 1]) = BATCH_MAX_NOTES
                    \/ Chars(bs[b - 1]) + bs[b][1].length > BATCH_MAX_CHARS
  BY <1>1 DEF Splits, Fit
<1>4. Chars(last) \in Nat /\ Chars(Append(last, it)) = Chars(last) + it.length
      /\ it.length \in Nat
  BY <1>1, CharsAdded DEF Sent
<1>5. Chars(<<it>>) = it.length
  <2>1. <<>> \in Seq(Sent) /\ Append(<<>>, it) = <<it>>
    OBVIOUS
  <2>2. Chars(<<>>) = 0 /\ Chars(Append(<<>>, it)) = Chars(<<>>) + it.length
    BY <2>1, CharsAdded
  <2> QED
    BY <1>4, <2>1, <2>2
<1>6. Overflows(split, it) <=> \/ Len(last) >= BATCH_MAX_NOTES
                               \/ Len(last) > 0 /\ Chars(last) + it.length > BATCH_MAX_CHARS
  BY <1>2 DEF Overflows, Last
<1>7. ASSUME Overflows(split, it)
      PROVE  Splits(Packed(split, it), Append(items, it))
  <2> DEFINE cs == Append(bs, <<it>>)
  <2>1. /\ cs \in Seq(Seq(Sent)) /\ Len(cs) = L + 1 /\ DOMAIN cs = 1 .. L + 1
        /\ cs[L + 1] = <<it>> /\ \A b \in 1 .. L : cs[b] = bs[b]
    BY <1>1
  <2>2. FlattenSeq(cs) = Append(items, it)
    BY <1>1, <1>2, FlattenAdded
  <2>3. Packed(split, it).list = cs /\ Packed(split, it).chars = it.length
    BY <1>7 DEF Packed
  <2> HIDE DEF cs, bs, L, last
  <2>4. Len(<<it>>) = 1 /\ <<it>>[1] = it
    OBVIOUS
  <2>5. \/ Len(bs[L]) = BATCH_MAX_NOTES
        \/ Chars(bs[L]) + it.length > BATCH_MAX_CHARS
    BY <1>0, <1>1, <1>3, <1>6, <1>7 DEF last
  <2>6. ASSUME NEW b \in 1 .. L + 1
        PROVE  /\ Len(cs[b]) <= BATCH_MAX_NOTES
               /\ Chars(cs[b]) > BATCH_MAX_CHARS => Len(cs[b]) = 1
               /\ b > 1 => \/ Len(cs[b - 1]) = BATCH_MAX_NOTES
                           \/ Chars(cs[b - 1]) + cs[b][1].length > BATCH_MAX_CHARS
               /\ b > 1 => Len(cs[b]) >= 1
    <3>1. CASE b = L + 1
      <4>1. b - 1 = L /\ cs[b] = <<it>> /\ cs[b - 1] = bs[L]
        BY <1>1, <2>1, <3>1
      <4> QED
        BY <1>0, <2>4, <2>5, <4>1
    <3>2. CASE b # L + 1
      <4>1. b \in 1 .. L /\ (b > 1 => b - 1 \in 1 .. L)
        BY <1>1, <3>2
      <4>2. cs[b] = bs[b] /\ (b > 1 => cs[b - 1] = bs[b - 1])
        BY <2>1, <4>1
      <4> QED
        BY <1>2, <1>3, <4>1, <4>2
    <3> QED
      BY <3>1, <3>2
  <2>7. Fit(Append(items, it), cs)
    BY <2>1, <2>2, <2>6 DEF Fit
  <2> QED
    <3>1. Len(cs) >= 1 /\ Chars(cs[Len(cs)]) = it.length
      BY <1>1, <1>5, <2>1
    <3> QED
      BY <2>1, <2>3, <2>6, <2>7, <3>1 DEF Splits
<1>8. ASSUME ~Overflows(split, it)
      PROVE  Splits(Packed(split, it), Append(items, it))
  <2> DEFINE more == Append(last, it)
             cs == [bs EXCEPT ![L] = more]
  <2>1. more \in Seq(Sent) /\ Len(more) = Len(last) + 1 /\ (Len(last) >= 1 => more[1] = last[1])
    BY <1>1
  <2>2. FlattenSeq([bs EXCEPT ![L] = Append(@, it)]) = Append(items, it)
    BY <1>1, <1>2, FlattenAdded
  <2>3. FlattenSeq(cs) = Append(items, it)
    BY <2>2
  <2>4. Packed(split, it).list = cs /\ Packed(split, it).chars = Chars(last) + it.length
    BY <1>2, <1>8 DEF Packed
  <2> HIDE DEF more
  <2>5. /\ cs \in Seq(Seq(Sent)) /\ Len(cs) = L /\ DOMAIN cs = 1 .. L
        /\ cs[L] = more /\ \A b \in 1 .. L : b # L => cs[b] = bs[b]
    <3>1. bs \in [1 .. L -> Seq(Sent)]
      BY <1>1
    <3> HIDE DEF bs, L, last
    <3>2. cs \in [1 .. L -> Seq(Sent)]
      BY <2>1, <3>1
    <3> QED
      BY <1>1, <3>1, <3>2
  <2> HIDE DEF cs, bs, L, last
  <2>6. Chars(more) = Chars(last) + it.length
    BY <1>4 DEF more
  <2>7. Len(more) <= BATCH_MAX_NOTES /\ (Chars(more) > BATCH_MAX_CHARS => Len(more) = 1)
    BY <1>0, <1>1, <1>4, <1>6, <1>8, <2>1, <2>6
  <2>8. ASSUME NEW b \in 1 .. L
        PROVE  /\ Len(cs[b]) <= BATCH_MAX_NOTES
               /\ Chars(cs[b]) > BATCH_MAX_CHARS => Len(cs[b]) = 1
               /\ b > 1 => \/ Len(cs[b - 1]) = BATCH_MAX_NOTES
                           \/ Chars(cs[b - 1]) + cs[b][1].length > BATCH_MAX_CHARS
               /\ b > 1 => Len(cs[b]) >= 1
    <3>1. b > 1 => b - 1 \in 1 .. L /\ b - 1 # L /\ cs[b - 1] = bs[b - 1]
      BY <1>1, <2>5
    <3>2. CASE b = L
      <4>1. cs[b] = more /\ (b > 1 => Len(last) >= 1 /\ more[1] = bs[b][1])
        BY <1>1, <1>2, <2>1, <2>5, <3>2 DEF last
      <4> QED
        BY <1>1, <1>3, <2>1, <2>7, <3>1, <4>1
    <3>3. CASE b # L
      BY <1>2, <1>3, <2>5, <3>1, <3>3
    <3> QED
      BY <3>2, <3>3
  <2>9. Fit(Append(items, it), cs)
    BY <2>3, <2>5, <2>8 DEF Fit
  <2> QED
    <3>1. Len(cs) >= 1 /\ Chars(cs[Len(cs)]) = Chars(last) + it.length
      BY <1>1, <2>5, <2>6
    <3> QED
      BY <2>4, <2>5, <2>8, <2>9, <3>1 DEF Splits
<1> QED
  BY <1>7, <1>8

\* Whatever the notes and whatever the limits, batchNotePayloads sends each note
\* once and in order, within both limits but for a note that alone exceeds one, and
\* begins a batch only for a note the one before could not take
\* (vault-migration.js:34-65).
THEOREM BatchesOfAnyNotesFit ==
    ASSUME NEW items \in Seq(Sent)
    PROVE  Fit(items, batchNotePayloads(items, 1 .. Len(items)))
<1> DEFINE N == Len(items)
           rows == 1 .. N
<1>1. N \in Nat /\ \A n \in 1 .. N : items[n] \in Sent
  OBVIOUS
<1>2. PICK f : /\ Computes(f, items, rows, N)
               /\ batchNotePayloads(items, rows) = f[N].list
  BY <1>1, BatchesComputed
<1> DEFINE first(k) == SubSeq(items, 1, k)
           G == {k \in 0 .. N : Splits(f[k], first(k))}
<1>3. f[0] = NoNotes /\ \A n \in 1 .. N : f[n] = Packed(f[n - 1], items[n])
  <2>1. 0 \in 0 .. N /\ \A n \in 1 .. N : n \in 0 .. N /\ n # 0 /\ n \in rows
    BY <1>1
  <2> QED
    BY <1>2, <2>1 DEF Computes, Added
<1>4. 0 \in G
  <2> DEFINE bs == << <<>> >>
  <2>1. /\ bs \in Seq(Seq(Sent)) /\ Len(bs) = 1 /\ DOMAIN bs = 1 .. 1 /\ bs[1] = <<>>
        /\ first(0) = <<>> /\ Len(<<>>) = 0 /\ <<>> \in Seq(Sent)
    BY <1>1
  <2>2. NoNotes.list = bs /\ NoNotes.chars = 0
    BY DEF NoNotes
  <2> HIDE DEF bs, first
  <2>3. FlattenSeq(bs) = <<>>
    <3>1. Len(bs) >= 1
      BY <2>1
    <3>2. \E g : FlattenSeq(bs) = g[Len(bs)] /\ Joins(g, bs, Len(bs))
      BY <2>1, <3>1, FlattenComputed
    <3> QED
      BY <2>1, <3>2 DEF Joins
  <2>4. Chars(<<>>) = 0
    <3>1. [id |-> 0, length |-> 0] \in Sent
      BY DEF Sent
    <3> QED
      BY <2>1, <3>1, CharsAdded
  <2>5. BATCH_MAX_NOTES \in Nat /\ BATCH_MAX_CHARS \in Nat
    BY ChangeAssumption
  <2>6. \A b \in DOMAIN bs : b = 1 /\ bs[b] = <<>>
    BY <2>1
  <2>7. Fit(<<>>, bs)
    BY <2>1, <2>3, <2>4, <2>5, <2>6 DEF Fit
  <2>8. Splits(f[0], first(0))
    <3>1. f[0].list = bs /\ f[0].chars = Chars(bs[Len(bs)]) /\ Len(bs) >= 1
      BY <1>3, <2>1, <2>2, <2>4
    <3>2. \A b \in DOMAIN bs : b > 1 => Len(bs[b]) >= 1
      BY <2>6
    <3> QED
      BY <2>1, <2>7, <3>1, <3>2 DEF Splits
  <2> QED
    BY <1>1, <2>8
<1>5. ASSUME NEW k \in 0 .. N, k \in G, k < N
      PROVE  k + 1 \in G
  <2>1. k + 1 \in 1 .. N /\ k + 1 \in 0 .. N /\ (k + 1) - 1 = k
    BY <1>1, <1>5
  <2>2. f[k + 1] = Packed(f[k], items[k + 1]) /\ items[k + 1] \in Sent /\ Splits(f[k], first(k))
    BY <1>1, <1>3, <1>5, <2>1
  <2>3. first(k + 1) = Append(first(k), items[k + 1])
    BY <1>1, <2>1
  <2> HIDE DEF first
  <2>4. Splits(Packed(f[k], items[k + 1]), Append(first(k), items[k + 1]))
    BY <2>2, SplitGrows
  <2> QED
    BY <2>1, <2>2, <2>3, <2>4
<1>6. N \in G
  <2> HIDE DEF G
  <2>1. G \in SUBSET (0 .. N)
    BY DEF G
  <2> QED
    BY <1>1, <1>4, <1>5, <2>1, Induction
<1>7. first(N) = items
  BY <1>1
<1> QED
  BY <1>2, <1>6, <1>7 DEF Splits

-----------------------------------------------------------------------------
(* The requests of a migration *)

\* The rows are numbered, and the index and the blob come after them.
LEMMA ItemFacts ==
    /\ Len(Size) \in Nat /\ Rows = 1 .. Len(Size) /\ Index \in Nat /\ Blob \in Nat
    /\ Index # 0 /\ Index # Blob /\ Index \notin Rows /\ Blob \notin Rows
    /\ Index \in Items /\ Blob \in Items /\ Rows \subseteq Items
    /\ 0 \notin Items
BY ChangeAssumption DEF Rows, Index, Blob, Items

\* The rows go out, each in a batch, and no other row does.
LEMMA RowBatchesHold ==
    ASSUME NEW rows \in SUBSET Rows
    PROVE  /\ RowBatches(rows) \in Seq(SUBSET Rows) /\ Len(RowBatches(rows)) >= 1
           /\ \A i \in rows : \E b \in DOMAIN RowBatches(rows) : i \in RowBatches(rows)[b]
           /\ \A b \in DOMAIN RowBatches(rows) : RowBatches(rows)[b] \subseteq rows
<1> DEFINE items == Payload(Size)
           batches == batchNotePayloads(items, rows)
<1>1. /\ items \in Seq(Sent) /\ Len(items) = Len(Size)
      /\ \A n \in 1 .. Len(items) : items[n].id = n
  <2>1. /\ Size \in Seq(Nat) /\ Len(Size) \in Nat /\ DOMAIN Size = 1 .. Len(Size)
    BY ChangeAssumption
  <2>2. items = [i \in 1 .. Len(Size) |-> [id |-> i, length |-> Size[i]]]
    BY <2>1 DEF Payload
  <2>3. \A i \in 1 .. Len(Size) : [id |-> i, length |-> Size[i]] \in Sent
    BY <2>1 DEF Sent
  <2> HIDE DEF items
  <2>4. items \in [1 .. Len(Size) -> Sent]
    BY <2>2, <2>3
  <2> QED
    BY <2>1, <2>2, <2>4
<1> HIDE DEF items
<1>2. Batched(batches, rows)
  BY <1>1, ItemFacts, BatchesHoldRows
<1>3. RowBatches(rows) = [b \in DOMAIN batches |-> {item.id : item \in Range(batches[b])}]
  BY DEF RowBatches, items
<1> HIDE DEF batches
<1>4. DOMAIN batches = 1 .. Len(batches) /\ Len(batches) \in Nat /\ Len(batches) >= 1
  BY <1>2 DEF Batched
<1>5. \A b \in DOMAIN batches : {item.id : item \in Range(batches[b])} \in SUBSET Rows
  BY <1>2 DEF Batched, Range
<1>6. RowBatches(rows) \in [1 .. Len(batches) -> SUBSET Rows]
  BY <1>3, <1>4, <1>5
<1>7. RowBatches(rows) \in Seq(SUBSET Rows) /\ Len(RowBatches(rows)) = Len(batches)
  BY <1>4, <1>6
<1>8. ASSUME NEW i \in rows
      PROVE  \E b \in DOMAIN RowBatches(rows) : i \in RowBatches(rows)[b]
  <2>1. PICK b \in DOMAIN batches : \E j \in DOMAIN batches[b] : batches[b][j].id = i
    BY <1>2 DEF Batched
  <2>2. i \in {item.id : item \in Range(batches[b])}
    BY <2>1 DEF Range
  <2> QED
    BY <1>3, <2>1, <2>2
<1>9. \A b \in DOMAIN batches : {item.id : item \in Range(batches[b])} \subseteq rows
  BY <1>2 DEF Batched, Range
<1>10. \A b \in DOMAIN RowBatches(rows) : RowBatches(rows)[b] \subseteq rows
  BY <1>3, <1>9
<1> QED
  BY <1>4, <1>7, <1>8, <1>10

\* What goes out is what the page has but the blob, all of it and nothing else,
\* and the index goes out with the last batch.
LEMMA PayloadsHold ==
    ASSUME NEW plain \in SUBSET Items
    PROVE  /\ Payloads(plain) \in Seq(SUBSET Items)
           /\ \A b \in DOMAIN Payloads(plain) :
                 Index \in Payloads(plain)[b] => b = Len(Payloads(plain))
           /\ \A i \in plain \ {Blob} :
                 \E b \in DOMAIN Payloads(plain) : i \in Payloads(plain)[b]
           /\ \A b \in DOMAIN Payloads(plain) : Payloads(plain)[b] \subseteq plain \ {Blob}
<1> DEFINE batches == RowBatches(plain \cap Rows)
           L == Len(batches)
           last == batches[L] \cup (plain \cap {Index})
           all == [batches EXCEPT ![L] = last]
<1>1. CASE plain \subseteq {Blob}
  <2>1. Payloads(plain) = <<>>
    BY <1>1 DEF Payloads
  <2> QED
    BY <1>1, <2>1
<1>2. CASE ~(plain \subseteq {Blob})
  <2>1. Payloads(plain) = all
    BY <1>2 DEF Payloads
  <2>2. /\ batches \in Seq(SUBSET Rows) /\ L \in Nat /\ L \in 1 .. L /\ DOMAIN batches = 1 .. L
        /\ \A i \in plain \cap Rows : \E b \in DOMAIN batches : i \in batches[b]
        /\ \A b \in DOMAIN batches : batches[b] \subseteq plain \cap Rows
    <3>1. plain \cap Rows \in SUBSET Rows
      OBVIOUS
    <3>2. /\ batches \in Seq(SUBSET Rows) /\ Len(batches) >= 1
          /\ \A i \in plain \cap Rows : \E b \in DOMAIN batches : i \in batches[b]
          /\ \A b \in DOMAIN batches : batches[b] \subseteq plain \cap Rows
      BY <3>1, RowBatchesHold
    <3> HIDE DEF batches
    <3> QED
      BY <3>2
  <2> HIDE DEF batches
  <2>3. \A b \in 1 .. L : batches[b] \in SUBSET Rows
    BY <2>2
  <2>4. last \in SUBSET Items /\ \A b \in 1 .. L : batches[b] \in SUBSET Items
    BY <2>2, <2>3, ItemFacts
  <2>5. all \in [1 .. L -> SUBSET Items] /\ all[L] = last /\ \A b \in 1 .. L : b # L => all[b] = batches[b]
    <3> HIDE DEF L, last
    <3>1. batches \in [1 .. L -> SUBSET Items]
      BY <2>2, <2>4
    <3> QED
      BY <2>2, <2>4, <3>1
  <2> HIDE DEF all
  <2>6. all \in Seq(SUBSET Items) /\ Len(all) = L /\ DOMAIN all = 1 .. L
    <3> HIDE DEF L, last
    <3> QED
      BY <2>2, <2>5
  <2>7. \A b \in 1 .. L : Index \in all[b] => b = L
    BY <2>3, <2>5, ItemFacts
  <2>8. ASSUME NEW i \in plain \ {Blob}
        PROVE  \E b \in 1 .. L : i \in all[b]
    <3>1. CASE i \in Rows
      <4>1. PICK b \in 1 .. L : i \in batches[b]
        BY <2>2, <3>1
      <4> QED
        BY <2>5, <4>1
    <3>2. CASE i = Index
      BY <2>2, <2>5, <3>2
    <3> QED
      BY <3>1, <3>2 DEF Items
  <2>9. \A b \in 1 .. L : all[b] \subseteq plain \ {Blob}
    BY <2>2, <2>5, ItemFacts
  <2> QED
    BY <2>1, <2>6, <2>7, <2>8, <2>9
<1> QED
  BY <1>1, <1>2

-----------------------------------------------------------------------------
(* What a step has to show *)

\* Generations are numbers.
LEMMA GenFacts ==
    ASSUME IInv
    PROVE  /\ now \in 0 .. MaxTime /\ cred \in Gens /\ cred \in Nat /\ SessionOK(now, cred, session)
           /\ \A i \in Items : key[i] \in Gens /\ key[i] \in Nat
           /\ write.key \in Nat /\ page.gen \in Nat
           /\ page \in Pages /\ hole \in BOOLEAN
BY Bounds DEF IInv, TypeOK, GenInv, SessionOK, Pages

\* A session in order has the type it should have.
LEMMA SessionTypes ==
    ASSUME SessionOK(now, cred, session)
    PROVE  SessionTypeOK
BY DEF SessionOK, SessionTypeOK

\* A gate that lets a request of the page in, which names a generation: it is the
\* one of the account.
LEMMA GateIsCurrent ==
    ASSUME IInv, NEW tool, Gate(tool, page.gen) = "ok"
    PROVE  cred # 0 /\ page.gen = cred
BY DEF IInv, GenInv, SessionOK, Gate, Authenticated

\* A step that leaves the password alone.
LEMMA SameGeneration ==
    ASSUME IInv, Longer, cred' = cred,
           key' \in [Items -> Gens],
           cred = 0 => \A i \in Items : key'[i] = 0,
           cred # 0 => \A i \in Items : key'[i] <= cred,
           ~hole' => key'[Index] \in {cred, key[Index]},
           \/ write' \in {write, NoWrite}
           \/ /\ write' \in [item : Rows \cup {Index}, key : {cred}, new : BOOLEAN]
              /\ write'.item = Index => key[Index] \in {0, cred},
           hole' \in BOOLEAN, hole => hole',
           page' \in Pages, page'.gen \in {page.gen, cred},
           ReadInv', LastInv', HeldInv', CommitMarker'
    PROVE  IInv'
<1> USE DEF IInv
<1>1. /\ cred \in Gens /\ cred \in Nat /\ Index \in Items /\ 0 # Index
      /\ NoWrite \in [item : {0} \cup Items, key : Gens, new : BOOLEAN]
      /\ NoWrite.item = 0 /\ NoWrite.key = 0
  BY GenFacts, ItemFacts, Bounds DEF NoWrite
<1>2. write' \in [item : {0} \cup Items, key : Gens, new : BOOLEAN]
  BY <1>1, ItemFacts DEF TypeOK
<1>3. SessionTypeOK'
  BY SessionTypes DEF Longer, SessionOK, SessionTypeOK
<1>4. TypeOK'
  BY <1>2, <1>3 DEF TypeOK
<1>5. cred # 0 => write'.key <= cred /\ page'.gen # 0 /\ page'.gen <= cred
  BY <1>1 DEF GenInv
<1>6. GenInv'
  BY <1>5 DEF GenInv, Longer
<1>7. WriteInv'
  BY <1>1 DEF WriteInv
<1> QED
  BY <1>4, <1>6, <1>7

\* A step of the page, or of the session, that stores nothing.
LEMMA NothingStored ==
    ASSUME IInv, Longer, UNCHANGED <<cred, key, write, hole>>,
           page' \in Pages, page'.gen = page.gen,
           ReadInv', LastInv', HeldInv'
    PROVE  IInv'
<1>1. CommitMarker'
  BY DEF IInv, CommitMarker, Stranded
<1> QED
  BY <1>1, SameGeneration, GenFacts DEF IInv, GenInv, TypeOK

\* The page itself stays as it is.
LEMMA PageRests ==
    ASSUME IInv, Longer, UNCHANGED <<cred, key, write, page, hole>>
    PROVE  IInv'
<1>1. ReadInv' /\ LastInv' /\ HeldInv'
  BY DEF IInv, ReadInv, AlreadyRead, LastInv, HeldInv, Stranded
<1> QED
  BY <1>1, NothingStored, GenFacts

\* A page at rest, or at the first read, whatever it remembers.
LEMMA PageAtRest ==
    ASSUME IInv, page.pc \notin {"save", "batch"},
           page' \in Pages, page'.pc \in {"form", "done", "blob"}, page'.copy = page.copy,
           UNCHANGED <<cred, key, hole>>
    PROVE  ReadInv' /\ LastInv' /\ HeldInv'
<1>1. AlreadyRead' = {}
  BY DEF AlreadyRead
<1>2. HeldInv'
  BY DEF IInv, HeldInv, Stranded
<1> QED
  BY <1>1, <1>2 DEF ReadInv, LastInv

-----------------------------------------------------------------------------
(* The steps *)

\* The account session, and the grants it renews.
LEMMA SessionKeeps ==
    ASSUME IInv, Session \/ Export, UNCHANGED <<key, write, page, hole>>
    PROVE  IInv'
<1>1. SessionOK(now, cred, session)
  BY GenFacts
<1>2. Longer /\ cred' = cred
  <2>1. CASE Tick
    BY <1>1, <2>1, TickIsLonger DEF Tick
  <2>2. CASE SignIn
    BY <1>1, <2>2, SignInIsLonger DEF SignIn
  <2>3. CASE SignOut
    BY <1>1, <2>3, FlushedIsLonger DEF SignOut
  <2>4. CASE RenewNoteAccess
    BY <1>1, <2>4, GrantedIsLonger DEF RenewNoteAccess, Gate, Tools
  <2>5. ASSUME NEW tools \in SUBSET Tools, ReauthView(tools)
        PROVE  Longer /\ cred' = cred
    BY <1>1, <2>5, GrantedIsLonger DEF ReauthView
  <2> QED
    BY <2>1, <2>2, <2>3, <2>4, <2>5 DEF Session, Export
<1> QED
  BY <1>2, PageRests

\* The submit, as far as the page's own password check.
LEMMA PreflightKeeps ==
    ASSUME IInv, Preflight
    PROVE  IInv'
<1>1. Longer /\ UNCHANGED <<cred, key, write, hole>>
  BY GenFacts, GrantedIsLonger, FlushedIsLonger DEF Preflight, ReauthView, Request
<1>2. \E pc \in {"blob", "form"} : page' = [page EXCEPT !.pc = pc]
  BY DEF Preflight
<1>3. /\ page' \in Pages /\ page'.gen = page.gen /\ page'.copy = page.copy
      /\ page'.pc \in {"form", "done", "blob"} /\ page.pc \notin {"save", "batch"}
  BY <1>2, GenFacts DEF Pages, Preflight, MaySubmit, Idle
<1> QED
  BY <1>1, <1>3, PageAtRest, NothingStored

\* The submit is given up before the rotation.
LEMMA AbortedFields ==
    ASSUME IInv
    PROVE  /\ Aborted \in Pages /\ Aborted.pc = "form" /\ Aborted.gen = page.gen
           /\ Aborted.copy = page.copy
BY GenFacts DEF Aborted, Pages, Idle

\* One of the reads: the page has what is stored of the items, or gives up.
LEMMA ReadKeeps ==
    ASSUME IInv, Longer, UNCHANGED <<cred, key, write, hole>>,
           NEW tool, NEW items \in SUBSET Items, NEW next \in {"index", "rows", "rotate"},
           page.pc \in {"blob", "index", "rows"}, readVaultJson(tool, items, next),
           next = "index" => items = {Blob},
           next = "rows" => page.pc = "index" /\ items = {Index},
           next = "rotate" => page.pc = "rows" /\ items = Rows
    PROVE  IInv'
<1>1. CASE page' = Aborted
  BY <1>1, AbortedFields, PageAtRest, NothingStored
<1>2. CASE page' = [page EXCEPT !.pc = next, !.plain = @ \cup {i \in items : key[i] # 0}]
  <2>1. /\ page' \in Pages /\ page'.gen = page.gen /\ page'.copy = page.copy /\ page'.pc = next
        /\ page'.plain = page.plain \cup {i \in items : key[i] # 0}
    BY <1>2, GenFacts DEF Pages
  <2>2. AlreadyRead' \subseteq AlreadyRead \cup items
    BY <2>1, ItemFacts DEF AlreadyRead, Items
  <2>3. ReadInv'
    BY <2>1, <2>2 DEF IInv, ReadInv
  <2>4. LastInv'
    BY <2>1 DEF LastInv
  <2>5. HeldInv'
    BY <2>1 DEF IInv, HeldInv, Stranded
  <2> QED
    BY <2>1, <2>3, <2>4, <2>5, NothingStored
<1> QED
  BY <1>1, <1>2 DEF readVaultJson

\* All the reads.
LEMMA RecoverKeeps ==
    ASSUME IInv, recoverVaultBeforeChange
    PROVE  IInv'
<1>1. Longer /\ UNCHANGED <<cred, key, write, hole>>
  BY GenFacts, FlushedIsLonger DEF recoverVaultBeforeChange, Request
<1> QED
  BY <1>1, ReadKeeps, ItemFacts DEF recoverVaultBeforeChange, recoverCurrentVaultData,
     recoverCurrentNoteVault

\* The account has a new password.  What the page holds is all there is, unless
\* the answer is lost.
LEMMA RotatedKeeps ==
    ASSUME IInv, page.pc = "rotate", Rotated
    PROVE  IInv'
<1> USE DEF IInv
<1>1. /\ cred \in Gens /\ cred \in Nat /\ cred' = cred + 1 /\ cred' \in Gens /\ cred' # 0
      /\ cred # 0 /\ UNCHANGED <<key, write>>
  <2>1. cred # 0 /\ cred < MaxCred
    BY GenFacts DEF Rotated, ChangePassword, Authenticated, SessionOK
  <2> QED
    BY <2>1, GenFacts, Bounds DEF Rotated, ChangePassword, Gens
<1>2. Longer
  <2>1. CASE ChangePassword
    BY <2>1, GenFacts, ChangePasswordIsLonger
  <2>2. CASE session' = NoSession(session.sid) /\ now' = now
    BY <1>1, <2>2, GenFacts, LostIsLonger
  <2> QED
    BY <2>1, <2>2 DEF Rotated
<1>3. \A i \in Items : key[i] \in Nat /\ key[i] <= cred /\ key'[i] = key[i]
  BY <1>1, GenFacts DEF GenInv
<1>4. /\ write.key \in Nat /\ write.key <= cred /\ page.gen \in Nat /\ page.gen # 0
      /\ page.gen <= cred /\ Index \in Items
  BY <1>1, GenFacts, ItemFacts DEF GenInv
<1>5. \/ page' = [page EXCEPT !.pc = "save", !.gen = cred + 1] /\ hole' = hole
      \/ page' = Aborted /\ hole' = TRUE
  BY DEF Rotated
<1>6. /\ page' \in Pages /\ page'.gen # 0 /\ page'.gen <= cred' /\ hole' \in BOOLEAN
      /\ AlreadyRead' = {}
      /\ ~hole' => page'.pc = "save" /\ page'.plain = page.plain /\ ~hole
      /\ page'.pc # "batch"
  <2>1. CASE page' = [page EXCEPT !.pc = "save", !.gen = cred + 1] /\ hole' = hole
    <3>1. /\ page'.pc = "save" /\ page'.gen = cred + 1 /\ page'.plain = page.plain
          /\ page' \in Pages
      <4>1. cred + 1 \in Gens /\ page \in Pages
        BY <1>1, GenFacts
      <4> QED
        BY <2>1, <4>1 DEF Pages
    <3>2. cred + 1 # 0 /\ cred + 1 <= cred' /\ hole \in BOOLEAN
      BY <1>1, GenFacts
    <3> QED
      BY <2>1, <3>1, <3>2 DEF AlreadyRead
  <2>2. CASE page' = Aborted /\ hole' = TRUE
    BY <1>1, <1>4, <2>2, AbortedFields DEF AlreadyRead
  <2> QED
    BY <1>5, <2>1, <2>2
<1>7. SessionTypeOK'
  BY <1>2 DEF Longer, SessionOK, SessionTypeOK
<1>8. TypeOK'
  BY <1>1, <1>6, <1>7 DEF TypeOK
<1>9. GenInv'
  BY <1>1, <1>2, <1>3, <1>4, <1>6 DEF GenInv, Longer
<1>10. ReadInv' /\ LastInv'
  BY <1>6 DEF ReadInv, LastInv
<1>11. HeldInv'
  <2> SUFFICES ASSUME ~hole', NEW i \in Items, Stranded(i)'
               PROVE  i \in page.plain
    BY <1>6 DEF HeldInv
  <2>1. key[i] # 0
    BY <1>3 DEF Stranded
  <2>2. AlreadyRead = Items
    BY DEF AlreadyRead
  <2> QED
    BY <1>6, <2>1, <2>2 DEF ReadInv
<1>12. write'.key # cred' /\ key'[Index] # cred'
  BY <1>1, <1>3, <1>4
<1>13. WriteInv' /\ CommitMarker'
  BY <1>12 DEF WriteInv, CommitMarker
<1> QED
  BY <1>8, <1>9, <1>10, <1>11, <1>13

\* The change is made or refused.
LEMMA PasswordChangeViewKeeps ==
    ASSUME IInv, PasswordChangeView
    PROVE  IInv'
<1>1. CASE Refused
  <2>1. Longer /\ UNCHANGED <<cred, key, write, hole>> /\ page' = Aborted
    BY <1>1, GenFacts, FlushedIsLonger DEF Refused, Request
  <2> QED
    BY <2>1, AbortedFields, PageAtRest, NothingStored DEF PasswordChangeView
<1> QED
  BY <1>1, RotatedKeeps DEF PasswordChangeView

\* Failed and Succeeded take the page to rest; a failure keeps what it held.
LEMMA EndFields ==
    ASSUME IInv
    PROVE  /\ Failed \in Pages /\ Failed.pc = "form" /\ Failed.gen = page.gen
           /\ Failed.copy = page.plain
           /\ Succeeded \in Pages /\ Succeeded.pc = "done" /\ Succeeded.gen = page.gen
           /\ StartBatches \in Pages /\ StartBatches.pc = "batch" /\ StartBatches.gen = page.gen
           /\ StartBatches.plain = page.plain /\ StartBatches.todo = Payloads(page.plain)
<1>1. page \in Pages /\ page.plain \in SUBSET Items /\ RETRY_DELAYS \in Nat
  BY GenFacts, ChangeAssumption DEF Pages
<1>2. Payloads(page.plain) \in Seq(SUBSET Items) /\ <<>> \in Seq(SUBSET Items)
  BY <1>1, PayloadsHold
<1>3. /\ Failed \in Pages /\ Failed.pc = "form" /\ Failed.gen = page.gen
      /\ Failed.copy = page.plain
  BY <1>1, <1>2 DEF Failed, Pages, Idle
<1>4. Succeeded \in Pages /\ Succeeded.pc = "done" /\ Succeeded.gen = page.gen
  BY <1>1, <1>2 DEF Succeeded, Pages, Idle
<1>5. /\ StartBatches \in Pages /\ StartBatches.pc = "batch" /\ StartBatches.gen = page.gen
      /\ StartBatches.plain = page.plain /\ StartBatches.todo = Payloads(page.plain)
  <2>1. 0 \in 0 .. RETRY_DELAYS
    BY <1>1
  <2> QED
    BY <1>1, <1>2, <2>1 DEF StartBatches, Pages
<1> QED
  BY <1>3, <1>4, <1>5

\* A failure after the rotation, with some of the items stored under the new key:
\* what is not, the page had, and offers as a copy.
LEMMA FailedKeeps ==
    ASSUME IInv, Longer, UNCHANGED <<cred, write, hole>>, page.pc \in {"save", "batch"},
           page' = Failed,
           key' \in [Items -> Gens],
           \A i \in Items : key'[i] = key[i] \/ (cred # 0 /\ key'[i] = cred),
           CommitMarker'
    PROVE  IInv'
<1>1. /\ cred = 0 => \A i \in Items : key'[i] = 0
      /\ cred # 0 => \A i \in Items : key'[i] <= cred
  BY GenFacts DEF IInv, GenInv
<1>2. ReadInv' /\ LastInv'
  BY EndFields DEF ReadInv, LastInv, AlreadyRead
<1>3. HeldInv'
  BY <1>1, EndFields DEF IInv, HeldInv, Stranded
<1> QED
  BY <1>1, <1>2, <1>3, SameGeneration, EndFields, GenFacts, ItemFacts

\* The password blob is stored under the new key, and the batches are made up.
LEMMA ResecureKeeps ==
    ASSUME IInv, resecureVaultAfterChange
    PROVE  IInv'
<1> USE DEF IInv
<1>1. page.pc = "save" /\ UNCHANGED <<now, cred, write, hole>>
  BY DEF resecureVaultAfterChange
<1>2. Longer
  BY <1>1, GenFacts, FlushedIsLonger DEF resecureVaultAfterChange, Store
<1>3. PICK items \in {{}, {Blob}} :
        /\ key' = [i \in Items |-> IF i \in items THEN cred ELSE key[i]]
        /\ items # {} => cred # 0
        /\ \/ page' = Failed
           \/ page' = StartBatches /\ (Blob \in items \/ Blob \notin page.plain)
  <2>1. key = [i \in Items |-> IF i \in {} THEN cred ELSE key[i]]
    BY DEF TypeOK
  <2>2. CASE Blob \in page.plain /\ Store("pass", {Blob}, StartBatches)
    <3>1. CASE UNCHANGED key /\ page' = Failed
      BY <2>1, <3>1
    <3>2. CASE /\ Gate("pass", page.gen) = "ok" /\ page' \in {StartBatches, Failed}
               /\ key' = [i \in Items |-> IF i \in {Blob} THEN page.gen ELSE key[i]]
      BY <3>2, GateIsCurrent
    <3> QED
      BY <2>2, <3>1, <3>2 DEF Store
  <2>3. CASE Blob \notin page.plain /\ page' = StartBatches /\ UNCHANGED <<session, key>>
    BY <2>1, <2>3
  <2> QED
    BY <2>2, <2>3 DEF resecureVaultAfterChange
<1>4. items \in SUBSET Items /\ Index \notin items /\ items \cap Rows = {}
  BY ItemFacts
<1>5. /\ key' \in [Items -> Gens]
      /\ \A i \in Items : key'[i] = IF i \in items THEN cred ELSE key[i]
      /\ cred = 0 => \A i \in Items : key'[i] = 0
      /\ cred # 0 => \A i \in Items : key'[i] <= cred
  BY <1>3, GenFacts DEF GenInv
<1>6. CommitMarker'
  BY <1>1, <1>4, <1>5, ItemFacts DEF CommitMarker, Stranded
<1>7. CASE page' = Failed
  <2>1. \A i \in Items : key'[i] = key[i] \/ (cred # 0 /\ key'[i] = cred)
    BY <1>3, <1>5
  <2> QED
    BY <1>1, <1>2, <1>5, <1>6, <1>7, <2>1, FailedKeeps
<1>8. CASE page' = StartBatches /\ (Blob \in items \/ Blob \notin page.plain)
  <2>1. ReadInv'
    BY <1>8, EndFields DEF ReadInv, AlreadyRead
  <2>2. page.plain \in SUBSET Items
    BY GenFacts DEF Pages
  <2>3. LastInv'
    BY <1>8, <2>2, EndFields, PayloadsHold DEF LastInv
  <2>4. HeldInv'
    <3> SUFFICES ASSUME ~hole, NEW i \in Items, Stranded(i)'
                 PROVE  i \in page.plain /\ \E b \in DOMAIN Payloads(page.plain) : i \in Payloads(page.plain)[b]
      BY <1>1, <1>8, EndFields DEF HeldInv
    <3>1. Stranded(i) /\ i \notin items
      BY <1>1, <1>5 DEF Stranded
    <3>2. i \in page.plain
      BY <1>1, <3>1 DEF HeldInv
    <3>3. i # Blob
      BY <1>8, <3>1, <3>2
    <3> QED
      BY <2>2, <3>2, <3>3, PayloadsHold
  <2> QED
    BY <1>1, <1>2, <1>4, <1>5, <1>6, <1>8, <2>1, <2>3, <2>4, SameGeneration, EndFields, GenFacts, ItemFacts
<1> QED
  BY <1>3, <1>7, <1>8

\* A batch is refused and sent again, or given up.
LEMMA RejectedKeeps ==
    ASSUME IInv, Longer, UNCHANGED <<cred, key, write, hole>>, page.pc = "batch",
           NEW status, page' = Rejected(status)
    PROVE  IInv'
<1>1. CASE page' = Failed
  <2>1. key' \in [Items -> Gens] /\ CommitMarker'
    BY DEF IInv, TypeOK, CommitMarker, Stranded
  <2> QED
    BY <1>1, <2>1, FailedKeeps
<1>2. CASE page' = [page EXCEPT !.tries = @ + 1] /\ page.tries < RETRY_DELAYS
  <2>1. page' \in Pages /\ page'.gen = page.gen /\ page'.pc = page.pc /\ page'.todo = page.todo
        /\ page'.plain = page.plain
    <3>1. page \in Pages /\ page.tries + 1 \in 0 .. RETRY_DELAYS
      <4>1. page.tries \in 0 .. RETRY_DELAYS /\ RETRY_DELAYS \in Nat
        BY GenFacts, ChangeAssumption DEF Pages
      <4> QED
        BY <1>2, <4>1, GenFacts
    <3> QED
      BY <1>2, <3>1 DEF Pages
  <2>2. ReadInv' /\ LastInv' /\ HeldInv'
    BY <2>1 DEF IInv, ReadInv, AlreadyRead, LastInv, HeldInv, Stranded
  <2> QED
    BY <2>1, <2>2, NothingStored
<1> QED
  BY <1>1, <1>2 DEF Rejected

\* A batch is stored, the last one with the index; or it is refused.
LEMMA BatchKeeps ==
    ASSUME IInv, postMigrationBatch
    PROVE  IInv'
<1> USE DEF IInv
<1>1. page.pc = "batch" /\ page.todo # <<>> /\ UNCHANGED <<now, cred, write, hole>>
  BY DEF postMigrationBatch
<1>2. Longer
  BY <1>1, GenFacts, FlushedIsLonger DEF postMigrationBatch, Store
<1> DEFINE items == Head(page.todo)
<1>3. /\ page.todo \in Seq(SUBSET Items) /\ Len(page.todo) \in Nat /\ Len(page.todo) >= 1
      /\ items = page.todo[1] /\ items \in SUBSET Items
      /\ Tail(page.todo) \in Seq(SUBSET Items) /\ Len(Tail(page.todo)) = Len(page.todo) - 1
      /\ DOMAIN page.todo = 1 .. Len(page.todo)
      /\ DOMAIN Tail(page.todo) = 1 .. Len(page.todo) - 1
      /\ \A b \in 1 .. Len(page.todo) - 1 : Tail(page.todo)[b] = page.todo[b + 1]
  <2>1. page.todo \in Seq(SUBSET Items)
    BY GenFacts DEF Pages
  <2> QED
    BY <1>1, <2>1
<1> HIDE DEF items
<1>4. ASSUME NEW status, page' = Rejected(status), UNCHANGED key
      PROVE  IInv'
  BY <1>1, <1>2, <1>4, RejectedKeeps
<1>5. ASSUME Store("note", items, [page EXCEPT !.todo = Tail(@), !.tries = 0]),
             page' = Failed, UNCHANGED key
      PROVE  IInv'
  <2>1. key' \in [Items -> Gens] /\ CommitMarker'
    BY <1>1, <1>5 DEF TypeOK, CommitMarker, Stranded
  <2> QED
    BY <1>1, <1>2, <1>5, <2>1, FailedKeeps
<1>6. ASSUME Gate("note", page.gen) = "ok",
             key' = [i \in Items |-> IF i \in items THEN page.gen ELSE key[i]],
             page' \in {[page EXCEPT !.todo = Tail(@), !.tries = 0], Failed}
      PROVE  IInv'
  <2>1. cred # 0 /\ page.gen = cred
    BY <1>6, GateIsCurrent
  <2>2. /\ key' = [i \in Items |-> IF i \in items THEN cred ELSE key[i]]
        /\ key' \in [Items -> Gens]
        /\ \A i \in Items : /\ key'[i] = IF i \in items THEN cred ELSE key[i]
                            /\ key'[i] <= cred
    BY <1>6, <2>1, GenFacts DEF GenInv
  <2>3. \A i \in Items : Stranded(i)' => Stranded(i) /\ i \notin items
    BY <1>1, <2>2 DEF Stranded
  <2>4. ASSUME ~hole, NEW i \in Items, Stranded(i)'
        PROVE  /\ i \in page.plain
               /\ \E b \in DOMAIN Tail(page.todo) : i \in Tail(page.todo)[b]
    <3>1. i \in page.plain /\ \E b \in DOMAIN page.todo : i \in page.todo[b]
      BY <1>1, <2>3, <2>4 DEF HeldInv
    <3>2. PICK b \in DOMAIN page.todo : i \in page.todo[b]
      BY <3>1
    <3>3. b # 1
      BY <1>3, <2>3, <2>4, <3>2
    <3>4. b - 1 \in DOMAIN Tail(page.todo) /\ Tail(page.todo)[b - 1] = page.todo[b]
      <4>1. b \in Nat /\ b >= 1 /\ b <= Len(page.todo)
        BY <1>3
      <4>2. b - 1 \in 1 .. Len(page.todo) - 1 /\ (b - 1) + 1 = b
        BY <1>3, <3>3, <4>1
      <4> QED
        BY <1>3, <4>2
    <3> QED
      BY <3>1, <3>2, <3>4
  <2>5. Index \in items => Len(page.todo) = 1
    <3>1. 1 \in DOMAIN page.todo
      BY <1>3
    <3> QED
      BY <1>1, <1>3, <3>1 DEF LastInv
  <2>6. CommitMarker'
    <3> SUFFICES ASSUME ~hole, key'[Index] = cred, NEW r \in Rows, Stranded(r)'
                 PROVE  FALSE
      BY <1>1 DEF CommitMarker
    <3>1. r \in Items /\ Index \in Items
      BY ItemFacts
    <3>2. CASE Index \in items
      <4>1. DOMAIN Tail(page.todo) = {}
        <5>1. DOMAIN Tail(page.todo) = 1 .. Len(page.todo) - 1 /\ Len(page.todo) = 1
          BY <1>3, <2>5, <3>2
        <5> QED
          BY <5>1
      <4> QED
        BY <2>4, <3>1, <4>1
    <3>3. CASE Index \notin items
      <4>1. key[Index] = cred
        BY <2>2, <3>1, <3>3
      <4> QED
        BY <2>3, <3>1, <4>1 DEF CommitMarker
    <3> QED
      BY <3>2, <3>3
  <2>7. CASE page' = Failed
    BY <1>1, <1>2, <1>3, <2>1, <2>2, <2>6, <2>7, FailedKeeps
  <2>8. CASE page' = [page EXCEPT !.todo = Tail(@), !.tries = 0]
    <3>1. /\ page' \in Pages /\ page'.pc = "batch" /\ page'.gen = page.gen
          /\ page'.plain = page.plain /\ page'.todo = Tail(page.todo)
      <4>1. page \in Pages /\ 0 \in 0 .. RETRY_DELAYS
        BY GenFacts, ChangeAssumption
      <4> QED
        BY <1>1, <1>3, <2>8, <4>1 DEF Pages
    <3>2. ReadInv'
      BY <3>1 DEF ReadInv, AlreadyRead
    <3>3. LastInv'
      <4> SUFFICES ASSUME NEW b \in DOMAIN Tail(page.todo), Index \in Tail(page.todo)[b]
                   PROVE  b = Len(Tail(page.todo))
        BY <3>1 DEF LastInv
      <4>1. b \in 1 .. Len(page.todo) - 1 /\ b + 1 \in 1 .. Len(page.todo)
        BY <1>3
      <4>2. b + 1 = Len(page.todo)
        BY <1>1, <1>3, <4>1 DEF LastInv
      <4> QED
        BY <1>3, <4>1, <4>2
    <3>4. HeldInv'
      BY <1>1, <2>4, <3>1 DEF HeldInv
    <3> QED
      BY <1>1, <1>2, <2>1, <2>2, <2>6, <3>1, <3>2, <3>3, <3>4, SameGeneration, GenFacts, ItemFacts
  <2> QED
    BY <1>6, <2>7, <2>8
<1> QED
  BY <1>4, <1>5, <1>6 DEF postMigrationBatch, Store, items

\* Nothing is left to send, so nothing is left behind.
LEMMA FinishKeeps ==
    ASSUME IInv, Finish
    PROVE  IInv'
<1>1. /\ page.pc = "batch" /\ page.todo = <<>> /\ page' = Succeeded
      /\ UNCHANGED <<now, cred, session, key, write, hole>>
  BY DEF Finish
<1>2. Longer
  BY <1>1, GenFacts, SameIsLonger DEF serverVars
<1>3. ReadInv' /\ LastInv'
  BY <1>1, EndFields DEF ReadInv, LastInv, AlreadyRead
<1>4. ~hole => \A i \in Items : ~Stranded(i)
  BY <1>1 DEF IInv, HeldInv
<1>5. HeldInv'
  BY <1>1, <1>4 DEF HeldInv, Stranded
<1> QED
  BY <1>1, <1>2, <1>3, <1>5, EndFields, NothingStored

\* Whatever is stranded, the page has it in the clear.
LEMMA HeldIsEnough ==
    ASSUME IInv
    PROVE  NothingStranded
BY DEF IInv, HeldInv, NothingStranded

\* The page is left.
LEMMA LeavesKeeps ==
    ASSUME IInv, AccountLeaves
    PROVE  IInv'
<1>1. /\ page' = Loaded /\ UNCHANGED <<now, cred, session, key, write>>
      /\ hole' = (hole \/ \E i \in page.plain \cup page.copy : Stranded(i))
  BY DEF AccountLeaves
<1>2. Longer /\ page' \in Pages /\ page'.gen = cred /\ page'.pc = "form"
  <2>1. 0 \in 0 .. RETRY_DELAYS /\ cred \in Gens
    BY GenFacts, ChangeAssumption
  <2> QED
    BY <1>1, <2>1, GenFacts, SameIsLonger DEF serverVars, Loaded, Pages, Idle
<1>3. ReadInv' /\ LastInv'
  BY <1>2 DEF ReadInv, LastInv, AlreadyRead
<1>4. ~hole' => ~hole /\ \A i \in Items : ~Stranded(i)
  BY <1>1, HeldIsEnough DEF NothingStranded
<1>5. HeldInv' /\ CommitMarker'
  BY <1>1, <1>4, ItemFacts DEF HeldInv, CommitMarker, Stranded
<1>6. hole' \in BOOLEAN /\ (hole => hole')
  BY <1>1
<1> QED
  BY <1>1, <1>2, <1>3, <1>5, <1>6, SameGeneration, GenFacts DEF IInv, GenInv, TypeOK

\* A save of a tab is let in: it has the key of the account, and so has the index.
LEMMA SaveGateKeeps ==
    ASSUME IInv, SaveGate
    PROVE  IInv'
<1>1. /\ UNCHANGED <<now, cred, session, key, page, hole>>
      /\ write' \in [item : Rows \cup {Index}, key : {cred}, new : BOOLEAN]
      /\ key[Index] \in {0, cred}
  BY DEF SaveGate
<1>2. Longer
  BY <1>1, GenFacts, SameIsLonger DEF serverVars
<1>3. ReadInv' /\ LastInv' /\ HeldInv' /\ CommitMarker'
  BY <1>1 DEF IInv, ReadInv, AlreadyRead, LastInv, HeldInv, CommitMarker, Stranded
<1> QED
  BY <1>1, <1>2, <1>3, SameGeneration, GenFacts DEF IInv, GenInv, TypeOK

\* What the page has read is an item of the account.
LEMMA ReadIsItem ==
    ASSUME IInv
    PROVE  AlreadyRead \subseteq Items
BY ItemFacts DEF AlreadyRead, Items

\* What was let in is stored, or is not.
LEMMA SaveWriteKeeps ==
    ASSUME IInv, SaveWrite
    PROVE  IInv'
<1> USE DEF IInv
<1>1. write # NoWrite /\ write' = NoWrite /\ UNCHANGED <<now, cred, session, page>>
  BY DEF SaveWrite
<1>2. Longer
  BY <1>1, GenFacts, SameIsLonger DEF serverVars
<1>3. write.item \in Rows \cup {Index} /\ write.item \in Items
  BY <1>1, ItemFacts DEF GenInv
<1>4. CASE UNCHANGED <<key, hole>>
  <2>1. ReadInv' /\ LastInv' /\ HeldInv' /\ CommitMarker'
    BY <1>1, <1>4 DEF ReadInv, AlreadyRead, LastInv, HeldInv, CommitMarker, Stranded
  <2> QED
    BY <1>1, <1>2, <1>4, <2>1, SameGeneration, GenFacts DEF GenInv, TypeOK
<1>5. CASE /\ cred # 0 /\ key' = [key EXCEPT ![write.item] = write.key]
           /\ hole' = (hole \/ Unforeseen(write))
  <2>1. /\ key' \in [Items -> Gens]
        /\ \A i \in Items : key'[i] = IF i = write.item THEN write.key ELSE key[i]
    BY <1>3, <1>5 DEF TypeOK
  <2>2. \A i \in Items : key'[i] <= cred
    BY <1>5, <2>1 DEF GenInv
  <2>3. ~hole' => ~hole /\ write.key = cred /\ ~Unforeseen(write)
    BY <1>5 DEF Unforeseen
  <2>4. ReadInv'
    <3>1. AlreadyRead' = AlreadyRead
      BY <1>1 DEF AlreadyRead
    <3>2. ASSUME ~hole', NEW i \in AlreadyRead, key'[i] # 0
          PROVE  i \in page.plain
      <4>1. ~Unforeseen(write) /\ ~hole /\ i \in Items
        BY <2>3, <3>2, ReadIsItem
      <4>2. key[i] # 0
        BY <2>1, <3>2, <4>1 DEF Unforeseen
      <4> QED
        BY <3>2, <4>1, <4>2 DEF ReadInv
    <3> QED
      BY <1>1, <3>1, <3>2 DEF ReadInv
  <2>5. LastInv'
    BY <1>1 DEF LastInv
  <2>6. ~hole' => \A i \in Items : Stranded(i)' => Stranded(i)
    BY <1>1, <2>1, <2>3 DEF Stranded
  <2>7. HeldInv'
    BY <1>1, <2>3, <2>6 DEF HeldInv
  <2>8. CommitMarker'
    <3> SUFFICES ASSUME ~hole', key'[Index] = cred, NEW r \in Rows, Stranded(r)'
                 PROVE  FALSE
      BY <1>1 DEF CommitMarker
    <3>1. ~hole /\ write.key = cred /\ ~Unforeseen(write) /\ Stranded(r)
      BY <2>3, <2>6, ItemFacts
    <3>2. key[Index] # cred
      BY <3>1 DEF CommitMarker
    <3>3. write.item = Index
      BY <2>1, <3>2, ItemFacts
    <3>4. key[Index] = 0
      BY <3>1, <3>2, <3>3 DEF WriteInv
    <3> QED
      BY <3>1, <3>3, <3>4 DEF Unforeseen
  <2>9. ~hole' => key'[Index] \in {cred, key[Index]}
    BY <2>1, <2>3, ItemFacts
  <2>10. hole' \in BOOLEAN /\ (hole => hole')
    BY <1>5
  <2> QED
    BY <1>1, <1>2, <1>5, <2>1, <2>2, <2>4, <2>5, <2>7, <2>8, <2>9, <2>10, SameGeneration, GenFacts
<1> QED
  BY <1>4, <1>5 DEF SaveWrite

\* A trashed row is deleted.
LEMMA SweepRowKeeps ==
    ASSUME IInv, SweepRow
    PROVE  IInv'
<1> USE DEF IInv
<1>1. PICK r \in Rows : key' = [key EXCEPT ![r] = 0]
  BY DEF SweepRow
<1>2. UNCHANGED <<now, cred, session, write, page, hole>>
  BY DEF SweepRow
<1>3. Longer
  BY <1>2, GenFacts, SameIsLonger DEF serverVars
<1>4. /\ key' \in [Items -> Gens] /\ key'[Index] = key[Index]
      /\ \A i \in Items : key'[i] = IF i = r THEN 0 ELSE key[i]
  BY <1>1, ItemFacts, Bounds DEF TypeOK
<1>5. \A i \in Items : cred # 0 => key'[i] <= cred
  BY <1>4, GenFacts DEF GenInv
<1>6. \A i \in Items : cred = 0 => key'[i] = 0
  BY <1>4 DEF GenInv
<1>7. \A i \in Items : Stranded(i)' => Stranded(i)
  BY <1>2, <1>4 DEF Stranded
<1>8. ReadInv' /\ LastInv' /\ HeldInv'
  <2>1. AlreadyRead' = AlreadyRead /\ AlreadyRead \subseteq Items
    BY <1>2, ReadIsItem DEF AlreadyRead
  <2>2. ReadInv'
    BY <1>2, <1>4, <2>1 DEF ReadInv
  <2>3. LastInv'
    BY <1>2 DEF LastInv
  <2>4. HeldInv'
    BY <1>2, <1>7 DEF HeldInv
  <2> QED
    BY <2>2, <2>3, <2>4
<1>9. CommitMarker'
  BY <1>2, <1>4, <1>7, ItemFacts DEF CommitMarker
<1> QED
  BY <1>2, <1>3, <1>4, <1>5, <1>6, <1>8, <1>9, SameGeneration, GenFacts

\* The account is deleted, and everything with it.
LEMMA DeletedKeeps ==
    ASSUME IInv, Longer, cred' = 0, key' = [i \in Items |-> 0], UNCHANGED <<write, page, hole>>
    PROVE  IInv'
<1>1. /\ key' \in [Items -> Gens] /\ \A i \in Items : key'[i] = 0 /\ ~Stranded(i)'
  BY Bounds DEF Stranded
<1>2. SessionTypeOK'
  BY DEF Longer, SessionOK, SessionTypeOK
<1>3. TypeOK'
  BY <1>1, <1>2 DEF IInv, TypeOK
<1>4. GenInv'
  BY <1>1 DEF IInv, GenInv, Longer
<1>5. ReadInv' /\ LastInv' /\ HeldInv'
  <2>1. AlreadyRead' = AlreadyRead /\ AlreadyRead \subseteq Items
    BY ReadIsItem DEF AlreadyRead
  <2>2. ReadInv'
    BY <1>1, <2>1 DEF ReadInv
  <2>3. LastInv'
    BY DEF IInv, LastInv
  <2>4. HeldInv'
    BY <1>1 DEF HeldInv
  <2> QED
    BY <2>2, <2>3, <2>4
<1>6. WriteInv' /\ CommitMarker'
  BY <1>1, ItemFacts DEF WriteInv, CommitMarker
<1> QED
  BY <1>3, <1>4, <1>5, <1>6 DEF IInv

\* It is deleted here or on another device, or the password was wrong.
LEMMA DeletionKeeps ==
    ASSUME IInv, AccountDeletionView \/ AccountDeletedElsewhere
    PROVE  IInv'
<1>1. SessionOK(now, cred, session) /\ 0 \in Gens
  BY GenFacts, Bounds
<1>2. CASE DeleteAccount /\ key' = [i \in Items |-> 0] /\ UNCHANGED <<write, page, hole>>
  BY <1>1, <1>2, LostIsLonger, DeletedKeeps DEF DeleteAccount
<1>3. CASE Request /\ UNCHANGED <<key, write, page, hole>>
  BY <1>1, <1>3, FlushedIsLonger, PageRests DEF Request
<1>4. CASE AccountDeletedElsewhere
  BY <1>1, <1>4, RotationIsLonger, DeletedKeeps DEF AccountDeletedElsewhere, DeleteElsewhere
<1> QED
  BY <1>2, <1>3, <1>4 DEF AccountDeletionView

\* Another device changes the password and takes everything with it.
LEMMA ChangeElsewhereKeeps ==
    ASSUME IInv, ChangeElsewhere
    PROVE  IInv'
<1> USE DEF IInv
<1>1. /\ UNCHANGED <<now, session, write, page, hole>> /\ cred' = cred + 1 /\ cred # 0
      /\ cred < MaxCred /\ key' = [i \in Items |-> IF key[i] = 0 THEN 0 ELSE cred + 1]
  BY DEF ChangeElsewhere, RotateElsewhere
<1>2. cred' \in Gens /\ cred \in Nat /\ cred' # 0
  BY <1>1, GenFacts, Bounds DEF Gens
<1>3. Longer
  BY <1>1, <1>2, GenFacts, RotationIsLonger
<1>4. /\ key' \in [Items -> Gens]
      /\ \A i \in Items : /\ key'[i] = IF key[i] = 0 THEN 0 ELSE cred'
                          /\ key'[i] <= cred' /\ ~Stranded(i)'
  BY <1>1, <1>2, Bounds DEF Stranded
<1>5. SessionTypeOK'
  BY <1>3 DEF Longer, SessionOK, SessionTypeOK
<1>6. TypeOK'
  BY <1>1, <1>4, <1>5 DEF TypeOK
<1>7. write.key <= cred' /\ page.gen # 0 /\ page.gen <= cred' /\ write.key # cred'
  BY <1>1, <1>2, GenFacts DEF GenInv
<1>8. GenInv'
  BY <1>1, <1>2, <1>3, <1>4, <1>7 DEF GenInv, Longer
<1>9. ReadInv' /\ LastInv' /\ HeldInv'
  <2>1. AlreadyRead' = AlreadyRead /\ AlreadyRead \subseteq Items
    BY <1>1, ReadIsItem DEF AlreadyRead
  <2>2. ReadInv'
    BY <1>1, <1>4, <2>1 DEF ReadInv
  <2>3. LastInv'
    BY <1>1 DEF LastInv
  <2>4. HeldInv'
    BY <1>1, <1>4 DEF HeldInv
  <2> QED
    BY <2>2, <2>3, <2>4
<1>10. WriteInv' /\ CommitMarker'
  BY <1>1, <1>4, <1>7, ItemFacts DEF WriteInv, CommitMarker
<1> QED
  BY <1>6, <1>8, <1>9, <1>10

-----------------------------------------------------------------------------
(* The theorems *)

\* An account whose vaults are under its first password.
LEMMA InitKeeps == Init => IInv
<1> SUFFICES ASSUME Init PROVE IInv
  OBVIOUS
<1>1. SessionOK(now, cred, session) /\ cred = 1 /\ cred \in Gens
  BY SessionInitOK, Bounds DEF Init, SessionInit
<1>2. /\ key \in [Items -> {0, 1}] /\ write = NoWrite /\ hole = FALSE
      /\ page = [pc |-> "form", gen |-> 1, plain |-> {}, copy |-> {}, todo |-> <<>>, tries |-> 0]
  BY <1>1 DEF Init, Loaded
<1>3. /\ page \in Pages /\ key \in [Items -> Gens]
      /\ write \in [item : {0} \cup Items, key : Gens, new : BOOLEAN]
  <2>1. 0 \in 0 .. RETRY_DELAYS
    BY ChangeAssumption
  <2> QED
    BY <1>1, <1>2, <2>1, Bounds DEF Pages, Idle, NoWrite
<1>4. TypeOK
  BY <1>1, <1>2, <1>3, SessionTypes DEF TypeOK
<1>5. \A i \in Items : ~Stranded(i) /\ key[i] <= 1
  BY <1>1, <1>2 DEF Stranded
<1>6. GenInv
  BY <1>1, <1>2, <1>5 DEF GenInv, NoWrite
<1>7. ReadInv /\ LastInv /\ HeldInv /\ CommitMarker
  BY <1>2, <1>5, ItemFacts DEF ReadInv, AlreadyRead, LastInv, HeldInv, CommitMarker
<1>8. WriteInv
  BY <1>2, ItemFacts DEF WriteInv, NoWrite
<1> QED
  BY <1>4, <1>6, <1>7, <1>8 DEF IInv

\* Every step keeps the invariant.
LEMMA StepKeeps ==
    ASSUME IInv, [Next]_vars
    PROVE  IInv'
<1>1. CASE UNCHANGED vars
  <2>1. Longer
    BY <1>1, GenFacts, SameIsLonger DEF vars, serverVars
  <2> QED
    BY <1>1, <2>1, PageRests DEF vars
<1>2. CASE PageStep
  BY <1>2, RecoverKeeps, PasswordChangeViewKeeps, ResecureKeeps, BatchKeeps, FinishKeeps DEF PageStep
<1>3. CASE Export
  BY <1>3, SessionKeeps DEF Export
<1> QED
  BY <1>1, <1>2, <1>3, SessionKeeps, PreflightKeeps, DeletionKeeps, LeavesKeeps, SaveGateKeeps,
     SaveWriteKeeps, SweepRowKeeps, ChangeElsewhereKeeps DEF Next

\* The inductive invariant of a password change.
THEOREM ChangeInvariant == Spec => []IInv
<1>1. IInv /\ [Next]_vars => IInv'
  BY StepKeeps
<1> QED
  BY <1>1, InitKeeps, PTL DEF Spec

\* The account, the vaults, the page and its batches have their types; a batch is
\* sent no oftener than there are delays (account.js:137-155).
THEOREM ChangeTypeOK == Spec => []TypeOK
<1>1. IInv => TypeOK
  BY DEF IInv
<1> QED
  BY <1>1, ChangeInvariant, PTL

\* Nothing is left under a key nobody has any more (account.js:203-208, 373-376,
\* 414-427; services.py:172-185).
THEOREM ChangeNothingStranded == Spec => []NothingStranded
<1>1. IInv => NothingStranded
  BY HeldIsEnough
<1> QED
  BY <1>1, ChangeInvariant, PTL

\* The notes of any small vault go out in batches within both limits
\* (vault-migration.js:34-65); of any vault at all by BatchesOfAnyNotesFit.
THEOREM ChangeBatchesFit == Spec => []BatchesFit
<1>1. AnyLengthsFit
  <2> SUFFICES ASSUME NEW n \in 0 .. 4, NEW lengths \in [1 .. n -> 1 .. BATCH_MAX_CHARS + 1]
               PROVE  Fit(Payload(lengths), batchNotePayloads(Payload(lengths), 1 .. n))
    BY DEF AnyLengthsFit
  <2> DEFINE items == Payload(lengths)
  <2>1. n \in Nat /\ DOMAIN lengths = 1 .. n /\ \A i \in 1 .. n : lengths[i] \in Nat
    BY ChangeAssumption
  <2>2. items = [i \in 1 .. n |-> [id |-> i, length |-> lengths[i]]]
    BY <2>1 DEF Payload
  <2>3. \A i \in 1 .. n : [id |-> i, length |-> lengths[i]] \in Sent
    BY <2>1 DEF Sent
  <2> HIDE DEF items
  <2>4. items \in [1 .. n -> Sent]
    BY <2>2, <2>3
  <2>5. items \in Seq(Sent) /\ Len(items) = n
    BY <2>1, <2>4
  <2>6. Fit(items, batchNotePayloads(items, 1 .. Len(items)))
    BY <2>5, BatchesOfAnyNotesFit
  <2> QED
    BY <2>5, <2>6 DEF items
<1>2. BatchesFit
  BY <1>1 DEF BatchesFit
<1> QED
  BY <1>2, PTL

\* An index under the current key vouches for every row (account.js:157-160;
\* services.py:822-826).
THEOREM ChangeCommitMarker == Spec => []CommitMarker
<1>1. IInv => CommitMarker
  BY DEF IInv
<1> QED
  BY <1>1, ChangeInvariant, PTL

-----------------------------------------------------------------------------
(* The end of a change *)

\* How far a page is from its end: its phase, the batches that are left, and the
\* attempts that are left of the one at hand.
Phase(p) ==
    CASE p.pc = "blob" -> 6
      [] p.pc = "index" -> 5
      [] p.pc = "rows" -> 4
      [] p.pc = "rotate" -> 3
      [] p.pc = "save" -> 2
      [] p.pc = "batch" -> 1
      [] OTHER -> 0

Measured(p) == Phase(p) \in Nat /\ Len(p.todo) \in Nat /\ RETRY_DELAYS - p.tries \in Nat

Nearer(p, q) ==
    \/ Phase(p) < Phase(q)
    \/ Phase(p) = Phase(q) /\ Len(p.todo) < Len(q.todo)
    \/ Phase(p) = Phase(q) /\ Len(p.todo) = Len(q.todo)
       /\ RETRY_DELAYS - p.tries < RETRY_DELAYS - q.tries

\* A batch that is taken is one less, and one that is throttled has one attempt less.
LEMMA BatchNearer ==
    ASSUME IInv, postMigrationBatch
    PROVE  Nearer(page', page)
<1>1. /\ page \in Pages /\ page.todo \in Seq(SUBSET Items) /\ page.todo # <<>>
      /\ page.pc = "batch" /\ page.tries \in 0 .. RETRY_DELAYS /\ RETRY_DELAYS \in Nat
  BY GenFacts, ChangeAssumption DEF Pages, postMigrationBatch
<1>2. Len(page.todo) \in Nat /\ Len(Tail(page.todo)) < Len(page.todo)
  BY <1>1
<1>3. Phase(page) = 1 /\ Failed.pc = "form" /\ Phase(Failed) = 0
  BY <1>1, EndFields DEF Phase
<1>4. CASE Store("note", Head(page.todo), [page EXCEPT !.todo = Tail(@), !.tries = 0])
  <2> DEFINE next == [page EXCEPT !.todo = Tail(@), !.tries = 0]
  <2>1. next.pc = "batch" /\ next.todo = Tail(page.todo)
    BY <1>1 DEF Pages
  <2> HIDE DEF next
  <2>2. page' \in {next, Failed}
    BY <1>4 DEF Store, next
  <2>3. Phase(next) = 1 /\ Len(next.todo) < Len(page.todo)
    BY <1>2, <2>1 DEF Phase
  <2> QED
    BY <1>3, <2>2, <2>3 DEF Nearer
<1>5. CASE \E status \in {"429", "500"} : page' = Rejected(status)
  <2> DEFINE again == [page EXCEPT !.tries = @ + 1]
  <2>1. /\ again.pc = "batch" /\ again.todo = page.todo
        /\ again.tries = page.tries + 1
    BY <1>1 DEF Pages
  <2>2. page' = again \/ page' = Failed
    BY <1>5 DEF Rejected
  <2> HIDE DEF again
  <2>3. Phase(again) = 1
    BY <2>1 DEF Phase
  <2>4. RETRY_DELAYS - again.tries < RETRY_DELAYS - page.tries
    BY <1>1, <2>1
  <2> QED
    BY <1>3, <2>1, <2>2, <2>3, <2>4 DEF Nearer
<1> QED
  BY <1>4, <1>5 DEF postMigrationBatch

\* Every other step of a change takes it to a later phase.
LEMMA PhaseNearer ==
    ASSUME IInv,
           recoverVaultBeforeChange \/ PasswordChangeView \/ resecureVaultAfterChange \/ Finish
    PROVE  Nearer(page', page)
<1>1. page \in Pages
  BY GenFacts
<1>2. /\ Failed.pc = "form" /\ Succeeded.pc = "done" /\ StartBatches.pc = "batch"
      /\ Aborted.pc = "form"
  BY EndFields, AbortedFields
<1>3. CASE recoverVaultBeforeChange
  <2>1. ASSUME NEW tool, NEW items, NEW next, readVaultJson(tool, items, next)
        PROVE  page'.pc \in {next, "form"}
    BY <1>1, <1>2, <2>1 DEF readVaultJson, Pages
  <2>2. \/ page.pc = "blob" /\ page'.pc \in {"index", "form"}
        \/ page.pc = "index" /\ page'.pc \in {"rows", "form"}
        \/ page.pc = "rows" /\ page'.pc \in {"rotate", "form"}
    BY <1>3, <2>1 DEF recoverVaultBeforeChange, recoverCurrentVaultData, recoverCurrentNoteVault
  <2> QED
    BY <2>2 DEF Nearer, Phase
<1>4. CASE PasswordChangeView
  <2>1. page.pc = "rotate" /\ page'.pc \in {"save", "form"}
    BY <1>1, <1>2, <1>4 DEF PasswordChangeView, Rotated, Refused, Pages
  <2> QED
    BY <2>1 DEF Nearer, Phase
<1>5. CASE resecureVaultAfterChange
  <2>1. page.pc = "save" /\ page' \in {StartBatches, Failed}
    BY <1>5 DEF resecureVaultAfterChange, Store
  <2>2. page.pc = "save" /\ page'.pc \in {"batch", "form"}
    BY <1>2, <2>1
  <2> QED
    BY <2>2 DEF Nearer, Phase
<1>6. CASE Finish
  <2>1. page.pc = "batch" /\ page'.pc = "done"
    BY <1>2, <1>6 DEF Finish
  <2> QED
    BY <2>1 DEF Nearer, Phase
<1> QED
  BY <1>3, <1>4, <1>5, <1>6

\* What is left of a change is a measure that cannot fall for ever, and every step
\* of the page lowers it, whatever is refused, throttled, lost or saved meanwhile;
\* so that a change that goes on at all comes to its end (account.js:137-155).
\* Other steps leave the page alone.
THEOREM ChangeNearsItsEnd ==
    Spec => [][page.pc \notin Idle => Measured(page) /\ Measured(page') /\ Nearer(page', page)]_page
<1>1. ASSUME IInv, IInv', [Next]_vars
      PROVE  [page.pc \notin Idle => Measured(page) /\ Measured(page') /\ Nearer(page', page)]_page
  <2>1. SUFFICES ASSUME page' # page, page.pc \notin Idle
                 PROVE  Measured(page) /\ Measured(page') /\ Nearer(page', page)
    OBVIOUS
  <2>2. ASSUME NEW p \in Pages
        PROVE  Measured(p)
    <3>1. p.todo \in Seq(SUBSET Items) /\ p.tries \in 0 .. RETRY_DELAYS /\ RETRY_DELAYS \in Nat
      BY ChangeAssumption DEF Pages
    <3>2. Len(p.todo) \in Nat /\ RETRY_DELAYS - p.tries \in Nat
      BY <3>1
    <3> QED
      BY <3>2 DEF Measured, Phase
  <2>3. Measured(page) /\ Measured(page')
    <3>1. page \in Pages /\ page' \in Pages
      BY <1>1 DEF IInv, TypeOK
    <3> QED
      BY <2>2, <3>1
  <2>4. PageStep \/ AccountLeaves
    BY <1>1, <2>1 DEF Next, vars, Session, Preflight, MaySubmit, AccountDeletionView, Export,
       SaveGate, SaveWrite, SweepRow, ChangeElsewhere, AccountDeletedElsewhere
  <2>5. ASSUME PageStep
        PROVE  Nearer(page', page)
    BY <1>1, <2>5, BatchNearer, PhaseNearer DEF PageStep
  <2>6. ASSUME AccountLeaves
        PROVE  Nearer(page', page)
    <3>1. page'.pc = "form" /\ Phase(page') = 0
      BY <2>6 DEF AccountLeaves, Loaded, Phase
    <3>2. page.pc \in {"blob", "index", "rows", "rotate", "save", "batch"}
      BY <1>1, <2>1, GenFacts DEF Pages
    <3>3. Phase(page) > 0
      BY <3>2 DEF Phase
    <3> QED
      BY <3>1, <3>3 DEF Nearer
  <2>7. Nearer(page', page)
    BY <2>4, <2>5, <2>6
  <2> QED
    BY <2>3, <2>7
<1> QED
  BY <1>1, ChangeInvariant, PTL DEF Spec

\* A page that reports success keeps nothing.
DoneInv == page.pc = "done" => page.plain = {} /\ page.copy = {}

\* Success is reported only when nothing is left under a key that is gone, and
\* stays true for as long as it is shown (account.js:414-427).
Reencrypted == page.pc = "done" => hole \/ \A i \in Items : ~Stranded(i)

\* A change that reports success has re-encrypted the blob, every row and the index,
\* unless one of the named ways out was taken.
THEOREM ChangeSuccessMeansAll == Spec => []Reencrypted
<1>1. Init => DoneInv
  BY DEF Init, Loaded, DoneInv
<1>2. ASSUME IInv, DoneInv, [Next]_vars
      PROVE  DoneInv'
  <2>1. CASE page' = page
    BY <1>2, <2>1 DEF DoneInv
  <2>2. CASE page' # page
    <3>1. Preflight \/ PageStep \/ AccountLeaves
      BY <1>2, <2>2 DEF Next, vars, Session, AccountDeletionView, Export,
         SaveGate, SaveWrite, SweepRow, ChangeElsewhere, AccountDeletedElsewhere
    <3>2. CASE Preflight
      <4>1. page'.pc \in {"blob", "form"}
        BY <1>2, <3>2, GenFacts DEF Preflight, Pages
      <4> QED
        BY <4>1 DEF DoneInv
    <3>3. CASE AccountLeaves
      BY <3>3 DEF AccountLeaves, Loaded, DoneInv
    <3>4. CASE Finish
      BY <1>2, <3>4, GenFacts DEF Finish, Succeeded, Pages, DoneInv
    <3>5. CASE PageStep /\ ~Finish
      <4>1. page'.pc # "done"
        <5>1. /\ page \in Pages /\ Failed.pc = "form" /\ StartBatches.pc = "batch"
              /\ Aborted.pc = "form"
          BY <1>2, GenFacts, EndFields, AbortedFields
        <5>2. ASSUME NEW tool, NEW items, NEW next, readVaultJson(tool, items, next)
              PROVE  page'.pc \in {next, "form"}
          BY <5>1, <5>2 DEF readVaultJson, Pages
        <5>3. CASE recoverVaultBeforeChange
          BY <5>2, <5>3 DEF recoverVaultBeforeChange, recoverCurrentVaultData, recoverCurrentNoteVault
        <5>4. CASE PasswordChangeView
          BY <5>1, <5>4 DEF PasswordChangeView, Rotated, Refused, Pages
        <5>5. CASE resecureVaultAfterChange
          BY <5>1, <5>5 DEF resecureVaultAfterChange, Store
        <5>6. CASE postMigrationBatch
          BY <5>1, <5>6 DEF postMigrationBatch, Store, Rejected, Pages
        <5> QED
          BY <3>5, <5>3, <5>4, <5>5, <5>6 DEF PageStep
      <4> QED
        BY <4>1 DEF DoneInv
    <3> QED
      BY <3>1, <3>2, <3>3, <3>4, <3>5
  <2> QED
    BY <2>1, <2>2
<1>3. IInv /\ DoneInv => Reencrypted
  BY DEF IInv, HeldInv, DoneInv, Reencrypted
<1> QED
  BY <1>1, <1>2, <1>3, ChangeInvariant, PTL DEF Spec
=============================================================================
