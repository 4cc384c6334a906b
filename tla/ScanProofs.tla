----------------------------- MODULE ScanProofs -----------------------------
(***************************************************************************)
(* What module Scan promises, for any number of slots, threads and answers *)
(* and any scores, keys and roles.  The argument: each heap holds the best *)
(* of what its thread has seen (HeapsAreBest); the shares cover the work;  *)
(* and what is not among the best of its own share is not among the best   *)
(* of the whole.                                                           *)
(***************************************************************************)
EXTENDS Scan, FiniteSetTheorems, TLAPS

DataOK ==
    /\ key \in [Slots -> Nat]
    /\ raw \in [Slots -> Int]
    /\ dead \in SUBSET Slots
    /\ \A a, b \in Slots \ dead : key[a] = key[b] => a = b
    /\ role \in [Slots -> Roles \cup {None}]
    /\ wide \in Roles
    /\ total \in 0..Last
    /\ k \in Nat
    /\ threads \in Nat

Seen(t) == {s \in Admitted : s \in (Cut(t) + 1)..(next[t] - 1)}

HeapsAreBest == \A t \in Pool : IsTop(heap[t], Seen(t), Size)

AnswerIsWhole ==
    /\ phase \in {"begin", "scan"} => found = {} /\ outcome = None
    /\ phase \in {"begin", "scan", "merge"} => added = {} /\ outcome # "answered"
    /\ phase \in {"scan", "merge"} => k > 0
    /\ phase = "merge" \/ outcome = "answered" => IsTop(found, Admitted, k)
    /\ outcome = "answered" /\ k > 0 => IsTop(added, Weighed, k)
    /\ found \cup added \subseteq Slots \ dead

IInv == DataOK /\ TypeOK /\ HeapsAreBest /\ AnswerIsWhole

----------------------------------------------------------------------------
(* Division, and where the shares are cut.                                 *)

\* Integer division rounds down.
LEMMA DivBounds ==
    ASSUME NEW a \in Nat, NEW n \in Nat \ {0}
    PROVE  /\ a \div n \in Nat
           /\ n * (a \div n) <= a
           /\ a < n * (a \div n) + n
OBVIOUS

\* A quotient is compared as its dividend is.
LEMMA DivCompares ==
    ASSUME NEW a \in Nat, NEW n \in Nat \ {0}, NEW s \in Nat
    PROVE  /\ a < s * n => a \div n < s
           /\ s * n <= a => s <= a \div n
<1> DEFINE q == a \div n
<1>1. q \in Nat /\ n * q <= a /\ a < n * q + n
  BY DivBounds
<1> HIDE DEF q
<1>2. a < s * n => q < s
  BY <1>1, SMTT(20)
<1>3. s * n <= a => s <= q
  BY <1>1, SMTT(20)
<1> QED
  BY <1>2, <1>3 DEF q

\* A multiple divides whole.
LEMMA DivWhole ==
    ASSUME NEW a \in Nat, NEW n \in Nat \ {0}
    PROVE  (a * n) \div n = a
<1> DEFINE q == (a * n) \div n
<1>1. a * n \in Nat
  OBVIOUS
<1>2. q \in Nat /\ n * q <= a * n /\ a * n < n * q + n
  BY <1>1, DivBounds
<1> HIDE DEF q
<1>3. q = a
  BY <1>2, SMTT(20)
<1> QED
  BY <1>3 DEF q

\* A larger dividend has no smaller quotient.
LEMMA DivGrows ==
    ASSUME NEW a \in Nat, NEW b \in Nat, a <= b, NEW n \in Nat \ {0}
    PROVE  a \div n <= b \div n
<1> DEFINE p == a \div n
           q == b \div n
<1>1. p \in Nat /\ n * p <= a
  BY DivBounds
<1>2. q \in Nat /\ b < n * q + n
  BY DivBounds
<1> HIDE DEF p, q
<1>3. n * p < n * q + n
  BY <1>1, <1>2
<1>4. p <= q
  BY <1>1, <1>2, <1>3, SMTT(20)
<1> QED
  BY <1>4 DEF p, q

\* There is at least one thread, and an answer has a size.
LEMMA Sizes ==
    ASSUME DataOK
    PROVE  Count \in Nat \ {0} /\ Size \in Nat /\ (k > 0 => Size > 0)
<1>1. (total + MinSlots - 1) \div MinSlots \in Nat
  <2>1. total + MinSlots - 1 \in Nat /\ MinSlots \in Nat \ {0}
    BY ScanAssumption DEF DataOK
  <2> QED
    BY <2>1, DivBounds
<1>2. total \in Nat /\ k \in Nat /\ threads \in Nat
  BY DEF DataOK
<1>3. Count \in Nat \ {0}
  BY <1>1, <1>2 DEF Count, AtMost, AtLeast
<1>4. Size \in Nat /\ (k > 0 => Size > 0)
  BY <1>2 DEF Size, AtMost, AtLeast
<1> QED
  BY <1>3, <1>4

\* The cuts are places in the work, in order, from its start to its end.
LEMMA Cuts ==
    ASSUME DataOK, NEW i \in 0..Count
    PROVE  /\ Cut(i) \in 0..total
           /\ i < Count => Cut(i) <= Cut(i + 1)
           /\ Cut(Count) = total
<1> USE Sizes
<1>1. total \in Nat /\ i \in Nat /\ i <= Count
  BY DEF DataOK
<1>2. total * i \in Nat /\ total * Count \in Nat /\ total * i <= total * Count
  BY <1>1, SMTT(20)
<1>3. Cut(Count) = total
  BY <1>1, DivWhole DEF Cut
<1>4. Cut(i) \in Nat
  BY <1>2, DivBounds DEF Cut
<1>5. Cut(i) <= Cut(Count)
  BY <1>2, DivGrows DEF Cut
<1>6. ASSUME i < Count PROVE Cut(i) <= Cut(i + 1)
  <2>1. total * (i + 1) \in Nat /\ total * i <= total * (i + 1)
    BY <1>1, SMTT(20)
  <2> QED
    BY <2>1, <1>2, DivGrows DEF Cut
<1> QED
  BY <1>1, <1>3, <1>4, <1>5, <1>6

\* Every place in the work is in some share.
LEMMA SharesCover ==
    ASSUME DataOK, NEW s \in 1..total
    PROVE  \E t \in Pool : s \in (Cut(t) + 1)..Cut(t + 1)
<1> USE Sizes
<1> DEFINE t == (s * Count - 1) \div total
<1>1. total \in Nat \ {0} /\ s \in Nat \ {0} /\ s <= total
  BY DEF DataOK
<1>2. s * Count \in Nat /\ s * Count >= 1 /\ s * Count <= total * Count
  BY <1>1, SMTT(20)
<1> DEFINE d == s * Count - 1
<1>a. d \in Nat /\ t = d \div total
  BY <1>2
<1> HIDE DEF t, d
<1>b. t \in Nat /\ total * t <= d /\ d < total * t + total
  BY <1>a, <1>1, DivBounds
<1>3. t \in Nat /\ total * t <= s * Count - 1 /\ s * Count - 1 < total * t + total
  BY <1>b DEF d
<1>4. total * t < total * Count
  BY <1>1, <1>2, <1>3
<1>5. t < Count
  BY <1>1, <1>3, <1>4, SMTT(20)
<1>6. total * t \in Nat /\ total * (t + 1) \in Nat /\ total * (t + 1) = total * t + total
  BY <1>1, <1>3, SMTT(20)
<1>7. total * t < s * Count /\ s * Count <= total * (t + 1)
  BY <1>2, <1>3, <1>6
<1>8. Cut(t) < s /\ s <= Cut(t + 1)
  BY <1>1, <1>6, <1>7, DivCompares DEF Cut
<1>9. Cut(t) \in Int /\ Cut(t + 1) \in Int
  BY <1>3, <1>5, Cuts
<1> QED
  BY <1>1, <1>3, <1>5, <1>8, <1>9 DEF Pool

----------------------------------------------------------------------------
(* The order of the candidates.                                            *)

\* A rank is a number no greater than the score.
LEMMA RankBelowScore ==
    ASSUME DataOK, NEW s \in Slots
    PROVE  Rank(s) \in Int /\ raw[s] \in Int /\ Rank(s) <= raw[s]
<1> DEFINE r == IF role[s] = None THEN wide ELSE role[s]
<1>1. r \in Roles
  BY DEF DataOK
<1>2. Penalty[r] \in Nat
  BY <1>1, ScanAssumption
<1>3. raw[s] \in Int
  BY DEF DataOK
<1> QED
  BY <1>2, <1>3 DEF Rank

\* The order is strict and total.
LEMMA TotalOrder ==
    ASSUME DataOK, NEW a \in Slots, NEW b \in Slots
    PROVE  /\ ~Before(a, a)
           /\ ~(Before(a, b) /\ Before(b, a))
           /\ a = b \/ Before(a, b) \/ Before(b, a)
<1>1. /\ Rank(a) \in Int /\ Rank(b) \in Int /\ key[a] \in Nat /\ key[b] \in Nat
      /\ a \in Int /\ b \in Int
  BY RankBelowScore, ScanAssumption DEF DataOK, Slots
<1> QED
  BY <1>1 DEF Before

\* The order is transitive.
LEMMA Transitive ==
    ASSUME DataOK, NEW a \in Slots, NEW b \in Slots, NEW c \in Slots,
           Before(a, b), Before(b, c)
    PROVE  Before(a, c)
<1>1. /\ Rank(a) \in Int /\ Rank(b) \in Int /\ Rank(c) \in Int
  BY RankBelowScore
<1>2. /\ key[a] \in Nat /\ key[b] \in Nat /\ key[c] \in Nat
      /\ a \in Int /\ b \in Int /\ c \in Int
  BY DEF DataOK, Slots
<1> QED
  BY <1>1, <1>2 DEF Before

\* Slots are finitely many.
LEMMA SomeSlots ==
    ASSUME NEW S \in SUBSET Slots
    PROVE  IsFiniteSet(S) /\ Cardinality(S) \in Nat
<1>1. IsFiniteSet(Slots)
  BY FS_Interval, ScanAssumption DEF Slots
<1> QED
  BY <1>1, FS_Subset, FS_CardinalityType

\* A slot passed over on its score is behind the worst one held.
LEMMA ScoreDecides ==
    ASSUME DataOK, NEW s \in Slots, NEW w \in Slots
    PROVE  Displaces(s, w) <=> Before(s, w)
<1>1. Rank(s) \in Int /\ raw[s] \in Int /\ Rank(s) <= raw[s] /\ Rank(w) \in Int
  BY RankBelowScore
<1> QED
  BY <1>1 DEF Displaces, Before

\* A heap with room takes the slot and still holds the best.
LEMMA Keeps ==
    ASSUME DataOK, NEW S \in SUBSET Slots, NEW H \in SUBSET S, NEW s \in Slots \ S,
           NEW n \in Nat, IsTop(H, S, n), Cardinality(H) # n
    PROVE  IsTop(H \cup {s}, S \cup {s}, n)
<1>1. H = S /\ Cardinality(H) < n /\ Cardinality(H) \in Nat /\ IsFiniteSet(H)
  BY SomeSlots DEF IsTop
<1>2. Cardinality(H \cup {s}) = Cardinality(H) + 1
  BY <1>1, FS_AddElement
<1>3. H \cup {s} = S \cup {s} /\ Cardinality(H \cup {s}) <= n
  BY <1>1, <1>2
<1> QED
  BY <1>3 DEF IsTop

\* A full heap gives up its worst for a slot before it.
LEMMA GivesUp ==
    ASSUME DataOK, NEW S \in SUBSET Slots, NEW H \in SUBSET S, NEW s \in Slots \ S,
           NEW n \in Nat, IsTop(H, S, n), Cardinality(H) = n,
           NEW w \in H, IsWorst(w, H), Before(s, w)
    PROVE  IsTop((H \ {w}) \cup {s}, S \cup {s}, n)
<1> DEFINE N == (H \ {w}) \cup {s}
<1>1. Cardinality(N) = n
  <2>1. IsFiniteSet(H) /\ IsFiniteSet(H \ {w}) /\ Cardinality(H) \in Nat
    BY SomeSlots
  <2>2. Cardinality(H \ {w}) = n - 1
    BY <2>1, FS_RemoveElement
  <2>3. Cardinality(N) = Cardinality(H \ {w}) + 1
    BY <2>1, FS_AddElement
  <2> QED
    BY <2>2, <2>3
<1>2. ASSUME NEW h \in N, NEW x \in (S \cup {s}) \ N PROVE Before(h, x)
  <2>1. CASE h = s /\ x = w
    BY <2>1
  <2>2. CASE h = s /\ x # w
    <3>1. x \in S \ H
      BY <2>2
    <3>2. Before(w, x)
      BY <3>1 DEF IsTop
    <3> QED
      BY <2>2, <3>1, <3>2, Transitive
  <2>3. CASE h # s /\ x = w
    BY <2>3 DEF IsWorst
  <2>4. CASE h # s /\ x # w
    <3>1. h \in H /\ x \in S \ H
      BY <2>4
    <3> QED
      BY <3>1 DEF IsTop
  <2> QED
    BY <2>1, <2>2, <2>3, <2>4
<1> QED
  BY <1>1, <1>2 DEF IsTop

\* A full heap whose worst is before the slot stays as it is.
LEMMA Stays ==
    ASSUME DataOK, NEW S \in SUBSET Slots, NEW H \in SUBSET S, NEW s \in Slots \ S,
           NEW n \in Nat, IsTop(H, S, n), Cardinality(H) = n,
           NEW w \in H, IsWorst(w, H), ~Before(s, w)
    PROVE  IsTop(H, S \cup {s}, n)
<1>1. Before(w, s)
  BY TotalOrder
<1>2. ASSUME NEW h \in H, NEW x \in (S \cup {s}) \ H PROVE Before(h, x)
  <2>1. CASE x # s
    BY <2>1 DEF IsTop
  <2>2. CASE x = s /\ h = w
    BY <2>2, <1>1
  <2>3. CASE x = s /\ h # w
    <3>1. Before(h, w)
      BY <2>3 DEF IsWorst
    <3> QED
      BY <2>3, <3>1, <1>1, Transitive
  <2> QED
    BY <2>1, <2>2, <2>3
<1> QED
  BY <1>2 DEF IsTop

\* The best of what the shares hold is the best of what they saw.
LEMMA BestOfTheShares ==
    ASSUME DataOK, TypeOK, HeapsAreBest,
           NEW F \in SUBSET Held, IsTop(F, Held, Size)
    PROVE  IsTop(F, UNION {Seen(t) : t \in Pool}, Size)
<1> DEFINE S == UNION {Seen(t) : t \in Pool}
<1> USE Sizes
<1>1. Held \subseteq S /\ Held \subseteq Slots
  BY DEF Held, HeapsAreBest, IsTop, TypeOK
<1>2. F = S \/ Cardinality(F) = Size
  <2> SUFFICES ASSUME Cardinality(F) # Size PROVE F = S
    OBVIOUS
  <2>1. F = Held /\ Cardinality(Held) < Size
    BY <1>1, SomeSlots DEF IsTop
  <2>2. ASSUME NEW t \in Pool PROVE heap[t] = Seen(t)
    <3>1. heap[t] \subseteq Held
      BY DEF Held
    <3>2. Cardinality(heap[t]) <= Cardinality(Held) /\ Cardinality(heap[t]) \in Nat
      BY <3>1, <1>1, SomeSlots, FS_Subset
    <3> QED
      BY <2>1, <3>2, <1>1, SomeSlots DEF HeapsAreBest, IsTop
  <2> QED
    BY <2>1, <2>2 DEF Held
<1>3. ASSUME NEW h \in F, NEW s \in S \ F PROVE Before(h, s)
  <2>1. CASE s \in Held
    BY <2>1 DEF IsTop
  <2>2. CASE s \notin Held
    <3>1. PICK t \in Pool : s \in Seen(t) /\ s \notin heap[t]
      BY <2>2 DEF Held
    <3>2. Cardinality(heap[t]) = Size /\ \A g \in heap[t] : Before(g, s)
      BY <3>1 DEF HeapsAreBest, IsTop
    <3>3. heap[t] \subseteq Held
      BY DEF Held
    <3>4. h \in Slots /\ s \in Slots /\ heap[t] \subseteq Slots
      <4>1. s \in 1..total /\ total \in 0..Last /\ Last \in Nat
        BY <3>1, ScanAssumption DEF Seen, Admitted, DataOK
      <4>2. s \in Slots
        BY <4>1 DEF Slots
      <4> QED
        BY <1>1, <3>3, <4>2
    <3>5. CASE h \in heap[t]
      BY <3>2, <3>5
    <3>6. CASE h \notin heap[t]
      <4>1. \E g \in heap[t] : g \notin F
        <5> SUFFICES ASSUME heap[t] \subseteq F PROVE FALSE
          OBVIOUS
        <5>1. F \subseteq Slots
          BY <1>1
        <5>2. Cardinality(F) = Cardinality(heap[t])
          BY <3>2, <5>1, SomeSlots, FS_Subset DEF IsTop
        <5>3. heap[t] = F
          BY <5>1, <5>2, SomeSlots, FS_Subset
        <5> QED
          BY <5>3, <3>6
      <4>2. PICK g \in heap[t] : g \notin F
        BY <4>1
      <4>3. Before(h, g)
        BY <4>2, <3>3 DEF IsTop
      <4> QED
        BY <4>2, <4>3, <3>2, <3>4, Transitive
    <3> QED
      BY <3>5, <3>6
  <2> QED
    BY <2>1, <2>2
<1> QED
  BY <1>1, <1>2, <1>3 DEF IsTop

\* A list long enough for the work is long enough for the answer.
LEMMA SizeIsEnough ==
    ASSUME DataOK, k > 0, NEW F \in SUBSET Admitted, IsTop(F, Admitted, Size)
    PROVE  IsTop(F, Admitted, k)
<1>1. Admitted \subseteq 1..total /\ Admitted \subseteq Slots
  BY ScanAssumption DEF Admitted, DataOK, Slots
<1>2. Cardinality(F) \in Nat /\ Cardinality(Admitted) \in Nat
      /\ Cardinality(F) <= Cardinality(Admitted)
  BY <1>1, SomeSlots, FS_Subset
<1>3. total \in Nat /\ k \in Nat
  BY DEF DataOK
<1>4. Cardinality(Admitted) <= total
  <2>1. IsFiniteSet(1..total) /\ Cardinality(1..total) = total
    BY <1>3, FS_Interval
  <2> QED
    BY <1>1, <2>1, FS_Subset
<1>5. CASE Size = k
  BY <1>5
<1>6. CASE Size # k
  <2>1. Size < k /\ Size >= total
    BY <1>6, <1>3 DEF Size, AtMost, AtLeast
  <2>2. Cardinality(F) = Size => F = Admitted
    <3> SUFFICES ASSUME Cardinality(F) = Size PROVE F = Admitted
      OBVIOUS
    <3>1. Cardinality(F) = Cardinality(Admitted)
      BY <1>2, <1>3, <1>4, <2>1, Sizes
    <3> QED
      BY <3>1, <1>1, SomeSlots, FS_Subset
  <2> QED
    BY <2>1, <2>2, <1>2, <1>3, Sizes DEF IsTop
<1> QED
  BY <1>5, <1>6

\* Live slots differ in their keys already.
LEMMA OnceAlready ==
    ASSUME DataOK, NEW S \in SUBSET (Slots \ dead)
    PROVE  OncePerKey(S) = S
BY DEF DataOK, OncePerKey

----------------------------------------------------------------------------
(* The invariant.                                                          *)

\* What depends on the set and the request alone does not change with them.
LEMMA Frame ==
    ASSUME UNCHANGED <<set, request>>
    PROVE  /\ \A a, b : Before(a, b)' <=> Before(a, b)
           /\ Admitted' = Admitted /\ Wanted' = Wanted
           /\ Size' = Size /\ Count' = Count /\ Pool' = Pool
           /\ \A i : Cut(i)' = Cut(i)
           /\ DataOK' <=> DataOK
<1> USE DEF set, request
<1>1. \A a, b : Before(a, b)' <=> Before(a, b)
  BY DEF Before, Rank
<1>2. Admitted' = Admitted /\ Wanted' = Wanted
  BY DEF Admitted, Wanted
<1>3. Size' = Size /\ Count' = Count
  BY DEF Size, Count, AtMost, AtLeast
<1>4. Pool' = Pool /\ \A i : Cut(i)' = Cut(i)
  BY <1>3 DEF Pool, Cut
<1>5. DataOK' <=> DataOK
  BY DEF DataOK
<1> QED
  BY <1>1, <1>2, <1>3, <1>4, <1>5

\* Nothing a step does touches the set or the request.
LEMMA StepKeepsRequest ==
    ASSUME [Next]_vars
    PROVE  UNCHANGED <<set, request>>
BY DEF Next, vars, Cancel, Begin, Visit, Stop, Join, MergeAlso, MergeStops

\* Of no slots, none is the best.
LEMMA TopOfNothing ==
    ASSUME NEW n \in Nat
    PROVE  IsTop({}, {}, n)
BY FS_EmptySet DEF IsTop

\* The invariant holds as a scan begins.
LEMMA Starts ==
    ASSUME Init
    PROVE  IInv
<1>1. DataOK
  <2>1. key \in [Slots -> Nat] /\ dead \in SUBSET Slots /\ k \in Nat /\ threads \in Nat
    BY ScanAssumption DEF Init
  <2>2. raw \in [Slots -> Int]
    BY ScanAssumption DEF Init
  <2> QED
    BY <2>1, <2>2 DEF Init, DataOK
<1>2. TypeOK
  <2> USE <1>1, Sizes
  <2>1. next \in [Pool -> Nat]
    <3>1. \A t \in Pool : Cut(t) \in Nat
      BY Cuts DEF Pool, DataOK
    <3> QED
      BY <3>1 DEF Init
  <2>2. ASSUME NEW t \in Pool
        PROVE  /\ next[t] \in (Cut(t) + 1)..(Cut(t + 1) + 1)
               /\ heap[t] = {} /\ Cardinality(heap[t]) <= Size
    <3>1. t \in 0..Count /\ t + 1 \in 0..Count /\ t < Count
      BY DEF Pool
    <3>2. Cut(t) \in Int /\ Cut(t + 1) \in Int /\ Cut(t) <= Cut(t + 1)
      BY <3>1, Cuts
    <3> QED
      BY <3>2, FS_EmptySet DEF Init
  <2> QED
    BY <2>1, <2>2 DEF Init, TypeOK
<1>3. HeapsAreBest
  <2> SUFFICES ASSUME NEW t \in Pool PROVE IsTop(heap[t], Seen(t), Size)
    BY DEF HeapsAreBest
  <2>1. Cut(t) \in Int
    BY <1>1, Sizes, Cuts DEF Pool
  <2>2. heap[t] = {} /\ Seen(t) = {}
    BY <2>1 DEF Init, Seen
  <2> QED
    BY <2>2, <1>1, Sizes, TopOfNothing
<1>4. AnswerIsWhole
  BY ScanAssumption DEF Init, AnswerIsWhole
<1> QED
  BY <1>1, <1>2, <1>3, <1>4 DEF IInv

\* A slot seen by its thread is offered to its heap, and the heap stays the
\* best of what the thread has seen.
LEMMA VisitKeepsTheBest ==
    ASSUME IInv, NEW t \in Pool, Visit(t)
    PROVE  /\ IsTop(heap'[t], {s \in Admitted : s \in (Cut(t) + 1)..next[t]}, Size)
           /\ heap'[t] \subseteq (Cut(t) + 1)..next[t]
           /\ heap' = [heap EXCEPT ![t] = heap'[t]]
<1> USE DEF IInv
<1> DEFINE n == next[t]
           S == Seen(t)
           T == {s \in Admitted : s \in (Cut(t) + 1)..n}
<1>1. /\ n \in Nat /\ Cut(t) \in Nat /\ Cut(t) < n /\ n <= Cut(t + 1)
      /\ Cut(t + 1) \in Nat /\ Cut(t + 1) <= total
  <2>1. t \in 0..Count /\ t + 1 \in 0..Count
    BY Sizes DEF Pool
  <2>2. Cut(t) \in 0..total /\ Cut(t + 1) \in 0..total /\ total \in Nat
    BY <2>1, Cuts DEF DataOK
  <2> QED
    BY <2>2 DEF TypeOK, Visit, Working
<1>2. n \in Slots /\ n \in 1..total
  BY <1>1, ScanAssumption DEF Slots, DataOK
<1>3. /\ IsTop(heap[t], S, Size) /\ heap[t] \in SUBSET S /\ S \in SUBSET Slots
      /\ n \notin S /\ heap[t] \subseteq (Cut(t) + 1)..(n - 1) /\ heap \in [Pool -> SUBSET Slots]
  <2>1. IsTop(heap[t], S, Size) /\ heap[t] \in SUBSET S
    BY DEF HeapsAreBest, IsTop
  <2>2. Admitted \subseteq Slots
    BY ScanAssumption DEF Admitted, Slots, DataOK
  <2> QED
    BY <2>1, <2>2, <1>1 DEF Seen, TypeOK
<1>4. Size \in Nat
  BY Sizes
<1>5. CASE n \in dead \/ role[n] = None
  <2>1. heap' = heap
    BY <1>5 DEF Visit
  <2>2. T = S
    BY <1>1, <1>5 DEF Seen, Admitted
  <2> QED
    BY <2>1, <2>2, <1>1, <1>3
<1>6. CASE ~(n \in dead \/ role[n] = None)
  <2>1. T = S \cup {n}
    BY <1>1, <1>2, <1>6 DEF Seen, Admitted
  <2>2. Offer(t, n)
    BY <1>6 DEF Visit
  <2>3. CASE ~Full(t) /\ Hold(t, heap[t] \cup {n})
    <3>1. heap'[t] = heap[t] \cup {n} /\ heap' = [heap EXCEPT ![t] = heap'[t]]
      BY <2>3, <1>3 DEF Hold
    <3>2. IsTop(heap[t] \cup {n}, S \cup {n}, Size)
      BY <2>3, <1>2, <1>3, <1>4, Keeps DEF Full
    <3> QED
      BY <3>1, <3>2, <2>1, <1>1, <1>3
  <2>4. ASSUME Full(t), NEW w \in heap[t], IsWorst(w, heap[t]),
               Hold(t, IF Displaces(n, w) THEN (heap[t] \ {w}) \cup {n} ELSE heap[t])
        PROVE  /\ IsTop(heap'[t], T, Size)
               /\ heap'[t] \subseteq (Cut(t) + 1)..n
               /\ heap' = [heap EXCEPT ![t] = heap'[t]]
    <3>1. w \in Slots
      BY <1>3
    <3>2. CASE Before(n, w)
      <4>1. heap'[t] = (heap[t] \ {w}) \cup {n} /\ heap' = [heap EXCEPT ![t] = heap'[t]]
        BY <2>4, <3>1, <3>2, <1>2, <1>3, ScoreDecides DEF Hold
      <4>2. IsTop((heap[t] \ {w}) \cup {n}, S \cup {n}, Size)
        BY <2>4, <3>2, <1>2, <1>3, <1>4, GivesUp DEF Full
      <4> QED
        BY <4>1, <4>2, <2>1, <1>1, <1>3
    <3>3. CASE ~Before(n, w)
      <4>1. heap'[t] = heap[t] /\ heap' = [heap EXCEPT ![t] = heap'[t]]
        BY <2>4, <3>1, <3>3, <1>2, <1>3, ScoreDecides DEF Hold
      <4>2. IsTop(heap[t], S \cup {n}, Size)
        BY <2>4, <3>3, <1>2, <1>3, <1>4, Stays DEF Full
      <4> QED
        BY <4>1, <4>2, <2>1, <1>1, <1>3
    <3> QED
      BY <3>2, <3>3
  <2> QED
    BY <2>2, <2>3, <2>4 DEF Offer
<1> QED
  BY <1>5, <1>6

\* Types, with every thread in its share.
LEMMA StepType ==
    ASSUME IInv, [Next]_vars
    PROVE  TypeOK'
<1> USE DEF IInv
<1>1. UNCHANGED <<set, request>>
  BY StepKeepsRequest
<1>2. Size' = Size /\ Pool' = Pool /\ \A i : Cut(i)' = Cut(i)
  BY <1>1, Frame
<1>3. CASE UNCHANGED vars
  BY <1>2, <1>3 DEF TypeOK, vars
<1>4. CASE Cancel
  BY <1>2, <1>4 DEF TypeOK, Cancel
<1>5. CASE Begin
  BY <1>2, <1>5 DEF TypeOK, Begin, End
<1>6. ASSUME NEW t \in Pool, Visit(t) PROVE TypeOK'
  <2>1. /\ heap'[t] \subseteq (Cut(t) + 1)..next[t]
        /\ heap' = [heap EXCEPT ![t] = heap'[t]]
        /\ Cardinality(heap'[t]) <= Size
    BY <1>6, VisitKeepsTheBest DEF IsTop
  <2>2. /\ next' = [next EXCEPT ![t] = next[t] + 1] /\ next[t] <= Cut(t + 1)
        /\ UNCHANGED <<phase, failed, cancelled, found, added, outcome>>
    BY <1>6 DEF Visit, Working
  <2>3. t \in 0..Count /\ t + 1 \in 0..Count
    BY Sizes DEF Pool
  <2>4. /\ Cut(t) \in Nat /\ Cut(t + 1) \in Nat /\ Cut(t + 1) <= total /\ total \in Nat
        /\ total <= Last /\ Last \in Nat
    BY <2>3, Cuts, ScanAssumption DEF DataOK
  <2>5. /\ next \in [Pool -> Nat] /\ heap \in [Pool -> SUBSET Slots]
        /\ next[t] \in (Cut(t) + 1)..(Cut(t + 1) + 1)
    BY DEF TypeOK
  <2>6. heap'[t] \subseteq Slots
    BY <2>1, <2>2, <2>4, <2>5 DEF Slots
  <2>7. next' \in [Pool -> Nat] /\ heap' \in [Pool -> SUBSET Slots]
    BY <2>1, <2>2, <2>5, <2>6
  <2>8. ASSUME NEW u \in Pool
        PROVE  /\ next'[u] \in (Cut(u) + 1)..(Cut(u + 1) + 1)
               /\ heap'[u] \subseteq (Cut(u) + 1)..(next'[u] - 1)
               /\ Cardinality(heap'[u]) <= Size
    <3>1. CASE u = t
      <4>1. next'[u] = next[t] + 1
        BY <2>2, <2>5, <3>1
      <4>2. next'[u] \in (Cut(u) + 1)..(Cut(u + 1) + 1) /\ next'[u] - 1 = next[t]
        BY <4>1, <2>2, <2>4, <2>5, <3>1
      <4> QED
        BY <4>2, <2>1, <3>1
    <3>2. CASE u # t
      <4>1. next'[u] = next[u] /\ heap'[u] = heap[u]
        BY <2>1, <2>2, <2>5, <3>2
      <4> QED
        BY <4>1 DEF TypeOK
    <3> QED
      BY <3>1, <3>2
  <2> QED
    BY <1>2, <2>2, <2>7, <2>8 DEF TypeOK
<1>7. ASSUME NEW t \in Pool, Stop(t) PROVE TypeOK'
  BY <1>2, <1>7 DEF TypeOK, Stop
<1>8. CASE Join
  <2>1. Held \subseteq Slots
    BY DEF Held, TypeOK
  <2>2. found' \subseteq Slots
    BY <2>1, <1>8 DEF Join, TypeOK
  <2> QED
    BY <1>2, <1>8, <2>2 DEF TypeOK, Join, End
<1>9. CASE MergeAlso
  BY <1>2, <1>9 DEF TypeOK, MergeAlso, End
<1>10. CASE MergeStops
  BY <1>2, <1>10 DEF TypeOK, MergeStops, End
<1> QED
  BY <1>3, <1>4, <1>5, <1>6, <1>7, <1>8, <1>9, <1>10 DEF Next

\* Only a visit changes what a thread has seen, or what it holds.
LEMMA StepHeaps ==
    ASSUME IInv, [Next]_vars
    PROVE  HeapsAreBest'
<1> USE DEF IInv
<1>1. UNCHANGED <<set, request>>
  BY StepKeepsRequest
<1>2. /\ Size' = Size /\ Pool' = Pool /\ Admitted' = Admitted /\ \A i : Cut(i)' = Cut(i)
      /\ \A a, b : Before(a, b)' <=> Before(a, b)
  BY <1>1, Frame
<1>3. CASE UNCHANGED <<next, heap>>
  <2> SUFFICES ASSUME NEW t \in Pool PROVE IsTop(heap[t], Seen(t), Size)'
    BY <1>2 DEF HeapsAreBest
  <2>1. IsTop(heap[t], Seen(t), Size)
    BY DEF HeapsAreBest
  <2> QED
    BY <2>1, <1>2, <1>3 DEF IsTop, Seen
<1>4. ASSUME NEW t \in Pool, Visit(t) PROVE HeapsAreBest'
  <2> SUFFICES ASSUME NEW u \in Pool PROVE IsTop(heap[u], Seen(u), Size)'
    BY <1>2 DEF HeapsAreBest
  <2>1. /\ IsTop(heap'[t], {s \in Admitted : s \in (Cut(t) + 1)..next[t]}, Size)
        /\ heap' = [heap EXCEPT ![t] = heap'[t]]
        /\ next' = [next EXCEPT ![t] = next[t] + 1]
        /\ next \in [Pool -> Nat] /\ heap \in [Pool -> SUBSET Slots]
    BY <1>4, VisitKeepsTheBest DEF Visit, TypeOK
  <2>2. CASE u = t
    <3>1. next'[u] - 1 = next[t]
      BY <2>1, <2>2
    <3>2. Seen(u)' = {s \in Admitted : s \in (Cut(t) + 1)..next[t]}
      BY <3>1, <1>2, <2>2 DEF Seen
    <3> QED
      BY <2>1, <2>2, <3>2, <1>2 DEF IsTop
  <2>3. CASE u # t
    <3>1. next'[u] = next[u] /\ heap'[u] = heap[u]
      BY <2>1, <2>3
    <3>2. Seen(u)' = Seen(u)
      BY <3>1, <1>2 DEF Seen
    <3>3. IsTop(heap[u], Seen(u), Size)
      BY DEF HeapsAreBest
    <3> QED
      BY <3>1, <3>2, <3>3, <1>2 DEF IsTop
  <2> QED
    BY <2>2, <2>3
<1> QED
  BY <1>3, <1>4 DEF Next, vars, Cancel, Begin, Stop, Join, MergeAlso, MergeStops

\* Shares all done with, none of them cut off, have seen the whole work.
LEMMA AllSeen ==
    ASSUME DataOK, TypeOK, \A t \in Pool : next[t] > Cut(t + 1)
    PROVE  UNION {Seen(t) : t \in Pool} = Admitted
<1>1. ASSUME NEW s \in Admitted PROVE \E t \in Pool : s \in Seen(t)
  <2>1. PICK t \in Pool : s \in (Cut(t) + 1)..Cut(t + 1)
    BY SharesCover DEF Admitted
  <2>2. Cut(t) \in Nat /\ Cut(t + 1) \in Nat /\ next[t] \in Nat
    BY Sizes, Cuts DEF Pool, TypeOK, DataOK
  <2>3. s \in (Cut(t) + 1)..(next[t] - 1)
    BY <2>1, <2>2
  <2> QED
    BY <2>3 DEF Seen
<1> QED
  BY <1>1 DEF Seen

\* What is found at the join is the best of the whole, and it stays so.
LEMMA StepAnswer ==
    ASSUME IInv, [Next]_vars
    PROVE  AnswerIsWhole'
<1> USE DEF IInv
<1>1. UNCHANGED <<set, request>>
  BY StepKeepsRequest
<1>2. /\ Admitted' = Admitted /\ \A a, b : Before(a, b)' <=> Before(a, b)
      /\ dead' = dead /\ k' = k /\ key' = key
      /\ Wanted' = Wanted
  BY <1>1, Frame DEF set, request
<1>3. ASSUME found' = found
      PROVE  /\ Weighed' = Weighed
             /\ IsTop(found, Admitted, k)' <=> IsTop(found, Admitted, k)
  BY <1>2, <1>3 DEF Weighed, OncePerKey, Keyed, IsTop
<1>4. ASSUME found' = found, added' = added
      PROVE  IsTop(added, Weighed, k)' <=> IsTop(added, Weighed, k)
  BY <1>2, <1>3, <1>4 DEF IsTop
<1>5. CASE UNCHANGED <<phase, found, added, outcome>>
  BY <1>2, <1>3, <1>4, <1>5 DEF AnswerIsWhole
<1>6. CASE Begin
  <2>1. UNCHANGED <<found, added>> /\ phase = "begin"
    BY <1>6 DEF Begin
  <2>2. found = {} /\ added = {} /\ outcome = None /\ k \in Nat
    BY <2>1 DEF AnswerIsWhole, DataOK
  <2>3. CASE ~cancelled /\ k = 0 /\ End("answered")
    <3>1. IsTop({}, Admitted, 0)
      BY FS_EmptySet DEF IsTop
    <3>2. IsTop(found, Admitted, k)'
      BY <3>1, <1>3, <2>1, <2>2, <2>3
    <3> QED
      BY <3>2, <1>2, <2>1, <2>2, <2>3 DEF AnswerIsWhole, End
  <2>4. CASE ~cancelled /\ k > 0 /\ phase' = "scan" /\ UNCHANGED outcome
    BY <1>2, <2>1, <2>2, <2>4, ScanAssumption DEF AnswerIsWhole
  <2>5. CASE cancelled /\ End("cancelled")
    BY <1>2, <2>1, <2>2, <2>5 DEF AnswerIsWhole, End
  <2> QED
    BY <1>6, <2>3, <2>4, <2>5 DEF Begin
<1>7. CASE Join
  <2>1. /\ phase = "scan" /\ UNCHANGED added /\ added = {} /\ k > 0 /\ found = {}
        /\ outcome = None
    BY <1>7 DEF Join, AnswerIsWhole
  <2>2. CASE failed # {}
    BY <1>2, <2>1, <2>2, <1>7 DEF Join, AnswerIsWhole, End
  <2>3. CASE failed = {}
    <3>1. /\ phase' = "merge" /\ UNCHANGED outcome /\ found' \in SUBSET Held
          /\ IsTop(found', OncePerKey(Held), Size)
      BY <1>7, <2>3 DEF Join
    <3>2. \A t \in Pool : next[t] > Cut(t + 1)
      <4> SUFFICES ASSUME NEW t \in Pool PROVE next[t] > Cut(t + 1)
        OBVIOUS
      <4>1. ~(next[t] <= Cut(t + 1))
        BY <1>7, <2>3 DEF Join, Working
      <4>2. next[t] \in Nat /\ Cut(t + 1) \in Nat
        BY Sizes, Cuts DEF TypeOK, Pool, DataOK
      <4> QED
        BY <4>1, <4>2
    <3>3. Held \subseteq Slots \ dead
      <4>1. Held \subseteq Admitted /\ Held \subseteq Slots
        BY DEF Held, HeapsAreBest, IsTop, Seen, TypeOK
      <4> QED
        BY <4>1 DEF Admitted
    <3>4. IsTop(found', Held, Size)
      BY <3>1, <3>3, OnceAlready
    <3>5. IsTop(found', Admitted, Size)
      BY <3>1, <3>2, <3>4, BestOfTheShares, AllSeen
    <3>6. IsTop(found', Admitted, k)
      BY <3>5, <2>1, SizeIsEnough DEF IsTop
    <3>7. IsTop(found, Admitted, k)'
      BY <3>6, <1>2 DEF IsTop
    <3> QED
      BY <1>2, <2>1, <3>1, <3>3, <3>7, ScanAssumption, <1>1
         DEF AnswerIsWhole, set, Slots
  <2> QED
    BY <2>2, <2>3
<1>8. CASE MergeAlso
  <2>1. /\ phase = "merge" /\ phase' = "done" /\ outcome' = "answered"
        /\ found' = found /\ IsTop(added', Weighed, k)
    BY <1>8 DEF MergeAlso, End
  <2>2. IsTop(found, Admitted, k)'
    BY <2>1, <1>3 DEF AnswerIsWhole
  <2>3. IsTop(added, Weighed, k)'
    BY <2>1, <1>2, <1>3 DEF IsTop
  <2>4. added' \subseteq Slots \ dead
    BY <2>1 DEF IsTop, Weighed, OncePerKey, Wanted
  <2> QED
    BY <1>2, <2>1, <2>2, <2>3, <2>4 DEF AnswerIsWhole
<1>9. CASE MergeStops
  <2>1. /\ phase = "merge" /\ phase' = "done" /\ outcome' = "cancelled"
        /\ found' = found /\ added' = added
    BY <1>9 DEF MergeStops, End
  <2> QED
    BY <1>2, <2>1 DEF AnswerIsWhole
<1> QED
  BY <1>5, <1>6, <1>7, <1>8, <1>9 DEF Next, vars, Cancel, Visit, Stop

\* The invariant is one.
LEMMA Invariant == Spec => []IInv
<1>1. Init => IInv
  BY Starts
<1>2. IInv /\ [Next]_vars => IInv'
  <2> SUFFICES ASSUME IInv, [Next]_vars PROVE IInv'
    OBVIOUS
  <2>1. DataOK'
    BY StepKeepsRequest, Frame DEF IInv
  <2> QED
    BY <2>1, StepType, StepHeaps, StepAnswer DEF IInv
<1> QED
  BY <1>1, <1>2, PTL DEF Spec

\* Every thread stays in its share, and no heap outgrows the answer.
THEOREM TypeCorrect == Spec => []TypeOK
BY Invariant, PTL DEF IInv

\* However a scan is shared and whenever it is cancelled, it answers with the
\* best of all the slots its filter admits, or not at all.
THEOREM BestAnswer == Spec => []AnswerIsTheBest
<1>1. IInv => AnswerIsTheBest
  BY DEF IInv, AnswerIsWhole, AnswerIsTheBest
<1> QED
  BY <1>1, Invariant, PTL

\* Slots named besides displace nothing, and come back when there is room.
THEOREM NamedAnswer == Spec => []NamedIsAnswered
<1>1. IInv => NamedIsAnswered
  <2> SUFFICES ASSUME IInv, outcome = "answered"
               PROVE  /\ \A a, b \in found \cup added : key[a] = key[b] => a = b
                      /\ (k > 0 /\ Cardinality(Wanted) <= k) =>
                             Keyed(Wanted) \subseteq Keyed(found \cup added)
    BY DEF NamedIsAnswered
  <2>1. \A a, b \in found \cup added : key[a] = key[b] => a = b
    BY DEF IInv, AnswerIsWhole, DataOK
  <2>2. ASSUME k > 0, Cardinality(Wanted) <= k
        PROVE  Keyed(Wanted) \subseteq Keyed(found \cup added)
    <3> DEFINE W == {s \in Wanted : key[s] \notin Keyed(found)}
    <3>1. W \subseteq Wanted /\ Wanted \subseteq Slots \ dead /\ DataOK /\ k \in Nat
      BY DEF Wanted, IInv, DataOK
    <3>2. Weighed = W
      BY <3>1, OnceAlready DEF Weighed
    <3>3. IsTop(added, W, k)
      BY <2>2, <3>2 DEF IInv, AnswerIsWhole
    <3>4. W \in SUBSET Slots /\ Wanted \in SUBSET Slots /\ added \in SUBSET W
      BY <3>1, <3>3 DEF IsTop
    <3>5. /\ Cardinality(W) <= Cardinality(Wanted) /\ Cardinality(added) <= Cardinality(W)
          /\ Cardinality(W) \in Nat /\ Cardinality(Wanted) \in Nat
          /\ Cardinality(added) \in Nat
      BY <3>1, <3>4, SomeSlots, FS_Subset
    <3>6. added = W
      <4> SUFFICES ASSUME Cardinality(added) = k PROVE added = W
        BY <3>3 DEF IsTop
      <4>1. Cardinality(added) = Cardinality(W)
        BY <2>2, <3>1, <3>5
      <4> QED
        BY <4>1, <3>4, SomeSlots, FS_Subset
    <3> QED
      BY <3>6 DEF Keyed
  <2> QED
    BY <2>1, <2>2
<1> QED
  BY <1>1, Invariant, PTL
=============================================================================
