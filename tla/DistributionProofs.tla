------------------------- MODULE DistributionProofs -------------------------
(***************************************************************************)
(* What the build machine keeps and what it ships.  Warehouse's            *)
(* invariants, for every set of texts and every number of readers, adds    *)
(* and records, where a handle whose add failed is dropped; and Release's, *)
(* for every set of lines and texts, every cosine and every number of      *)
(* releases, where every text of a plan is embedded before it is shipped.  *)
(***************************************************************************)
EXTENDS Warehouse, Release, FiniteSetTheorems, SequenceTheorems, WellFoundedInduction, TLAPS

(***************************************************************************)
(* The warehouse.                                                          *)
(***************************************************************************)

-----------------------------------------------------------------------------
(* Files and what counts their records.                                    *)

\* The file holds every text the batches count, at its record.
Copies(m, f) ==
  \A i \in DOMAIN m : \A at \in DOMAIN m[i].texts :
    m[i].first + at <= Len(f) /\ f[m[i].first + at] = m[i].texts[at]

\* The batches count every record up to their end, and none past it.
Tiled(m) ==
  /\ \A i \in DOMAIN m : m[i].first + Len(m[i].texts) <= Counted(m)
  /\ \A r \in 1 .. Counted(m) : \E i \in DOMAIN m : \E at \in DOMAIN m[i].texts :
       r = m[i].first + at

\* No text is counted at two records.
Distinct(m) ==
  \A i, j \in DOMAIN m : \A a \in DOMAIN m[i].texts : \A b \in DOMAIN m[j].texts :
    m[i].texts[a] = m[j].texts[b] => m[i].first + a = m[j].first + b

Good(m) == m \in Seq(Batches) /\ Tiled(m) /\ Distinct(m)

Prefix(m, n) == Len(m) <= Len(n) /\ \A i \in 1 .. Len(m) : m[i] = n[i]

\* The texts to add follow the n records that are counted.
Follows(f, n, adding) ==
  Len(f) = n + Len(adding) /\ \A j \in 1 .. Len(adding) : f[n + j] = adding[j]

\* What an index holds: records are numbered from 1.
Indices == [Texts -> (Nat \ {0}) \cup {None}]

Names(idx, m) == \A t \in Held(m) : idx[t] # None

\* The fields of a batch.
LEMMA BatchFields ==
  ASSUME NEW m \in Seq(Batches), NEW i \in DOMAIN m
  PROVE  /\ m[i].first \in Nat /\ m[i].texts \in Seq(Texts) /\ Len(m[i].texts) \in Nat
         /\ DOMAIN m[i].texts = 1 .. Len(m[i].texts)
         /\ i \in 1 .. Len(m)
<1>1. m[i] \in Batches
  OBVIOUS
<1>2. m[i].first \in Nat /\ m[i].texts \in Seq(Texts)
  BY <1>1 DEF Batches
<1> QED
  BY <1>2

\* What is counted is a number.
LEMMA CountedNat == ASSUME NEW m \in Seq(Batches) PROVE Counted(m) \in Nat
<1>1. CASE m = <<>>
  BY <1>1 DEF Counted
<1>2. CASE m # <<>>
  <2>1. Len(m) \in DOMAIN m
    BY <1>2
  <2>2. m[Len(m)].first \in Nat /\ Len(m[Len(m)].texts) \in Nat
    BY <2>1, BatchFields
  <2> QED
    BY <1>2, <2>2 DEF Counted
<1> QED
  BY <1>1, <1>2

\* A text the batches hold is one of theirs.
LEMMA HeldAt ==
  ASSUME NEW m, NEW t
  PROVE  t \in Held(m) <=> \E i \in DOMAIN m : \E at \in DOMAIN m[i].texts : m[i].texts[at] = t
BY DEF Held

\* A file that holds what is counted has that many records at least.
LEMMA CopiesLong ==
  ASSUME NEW m, Good(m), NEW f \in Seq(Texts), Copies(m, f)
  PROVE  /\ Counted(m) \in Nat /\ Counted(m) <= Len(f)
         /\ \A r \in 1 .. Counted(m) : r \in DOMAIN f /\ f[r] \in Held(m)
<1>1. m \in Seq(Batches) /\ Counted(m) \in Nat
  BY CountedNat DEF Good
<1>2. ASSUME NEW r \in 1 .. Counted(m) PROVE r <= Len(f) /\ r \in DOMAIN f /\ f[r] \in Held(m)
  <2>1. PICK i \in DOMAIN m : \E at \in DOMAIN m[i].texts : r = m[i].first + at
    BY DEF Good, Tiled
  <2>2. PICK at \in DOMAIN m[i].texts : r = m[i].first + at
    BY <2>1
  <2>3. r <= Len(f) /\ f[r] = m[i].texts[at]
    BY <2>2 DEF Copies
  <2> QED
    BY <1>1, <2>3, HeldAt
<1>3. Counted(m) <= Len(f)
  BY <1>1, <1>2
<1> QED
  BY <1>1, <1>2, <1>3

\* A file cut to what is counted, or to more, still holds it.
LEMMA CopiesCut ==
  ASSUME NEW m, Good(m), NEW f \in Seq(Texts), Copies(m, f)
  PROVE  /\ Cut(f, Counted(m)) \in Seq(Texts)
         /\ Len(Cut(f, Counted(m))) = Counted(m)
         /\ \A r \in 1 .. Counted(m) : Cut(f, Counted(m))[r] = f[r]
         /\ Copies(m, Cut(f, Counted(m)))
<1> DEFINE n == Counted(m)
           g == Cut(f, n)
<1>1. n \in Nat /\ n <= Len(f) /\ m \in Seq(Batches)
  BY CopiesLong DEF Good
<1>2. \A i \in 1 .. n : f[i] \in Texts
  BY <1>1
<1>3. g \in Seq(Texts) /\ Len(g) = n /\ \A r \in 1 .. n : g[r] = f[r]
  <2>1. /\ SubSeq(f, 1, n) \in Seq(Texts)
        /\ Len(SubSeq(f, 1, n)) = (IF 1 <= n THEN n - 1 + 1 ELSE 0)
        /\ \A i \in 1 .. n - 1 + 1 : SubSeq(f, 1, n)[i] = f[1 + i - 1]
    BY <1>1, <1>2, SubSeqProperties
  <2> QED
    BY <1>1, <2>1 DEF Cut
<1>4. Copies(m, g)
  <2> SUFFICES ASSUME NEW i \in DOMAIN m, NEW at \in DOMAIN m[i].texts
               PROVE  m[i].first + at <= Len(g) /\ g[m[i].first + at] = m[i].texts[at]
    BY DEF Copies
  <2> HIDE DEF g, n
  <2>1. m[i].first \in Nat /\ at \in 1 .. Len(m[i].texts) /\ Len(m[i].texts) \in Nat
    BY <1>1, BatchFields
  <2>2. m[i].first + Len(m[i].texts) <= n
    BY DEF Good, Tiled, n
  <2>3. m[i].first + at \in 1 .. n
    BY <1>1, <2>1, <2>2
  <2>4. f[m[i].first + at] = m[i].texts[at]
    BY DEF Copies
  <2> QED
    BY <1>1, <1>3, <2>3, <2>4
<1> QED
  BY <1>3, <1>4

\* A file that grows still holds it.
LEMMA CopiesGrow ==
  ASSUME NEW m \in Seq(Batches), NEW f \in Seq(Texts), Copies(m, f), NEW g \in Seq(Texts),
         Len(f) <= Len(g), \A r \in 1 .. Len(f) : g[r] = f[r]
  PROVE  Copies(m, g)
<1> SUFFICES ASSUME NEW i \in DOMAIN m, NEW at \in DOMAIN m[i].texts
             PROVE  m[i].first + at <= Len(g) /\ g[m[i].first + at] = m[i].texts[at]
  BY DEF Copies
<1>1. m[i].first \in Nat /\ at \in 1 .. Len(m[i].texts) /\ Len(m[i].texts) \in Nat
  BY BatchFields
<1>2. m[i].first + at <= Len(f) /\ f[m[i].first + at] = m[i].texts[at]
  BY DEF Copies
<1>3. m[i].first + at \in 1 .. Len(f) /\ Len(f) \in Nat /\ Len(g) \in Nat
  BY <1>1, <1>2
<1> QED
  BY <1>2, <1>3

\* What an older count held, the newer holds.
LEMMA PrefixHolds ==
  ASSUME NEW m \in Seq(Batches), NEW n \in Seq(Batches), Prefix(m, n)
  PROVE  /\ Held(m) \subseteq Held(n)
         /\ \A f : Copies(n, f) => Copies(m, f)
<1>1. \A i \in DOMAIN m : i \in DOMAIN n /\ m[i] = n[i]
  BY DEF Prefix
<1> QED
  BY <1>1, HeldAt DEF Copies

\* What a file holds of what is counted is there once.
LEMMA CutDistinct ==
  ASSUME NEW m, Good(m), NEW f \in Seq(Texts), Copies(m, f)
  PROVE  Injective(Cut(f, Counted(m)))
<1> DEFINE g == Cut(f, Counted(m))
<1>1. g \in Seq(Texts) /\ Len(g) = Counted(m) /\ Copies(m, g) /\ Counted(m) \in Nat
  BY CopiesCut, CopiesLong
<1> HIDE DEF g
<1> SUFFICES ASSUME NEW p \in DOMAIN g, NEW q \in DOMAIN g, g[p] = g[q] PROVE p = q
  BY DEF Injective, g
<1>2. PICK i \in DOMAIN m : \E a \in DOMAIN m[i].texts : p = m[i].first + a
  BY <1>1 DEF Good, Tiled
<1>3. PICK a \in DOMAIN m[i].texts : p = m[i].first + a
  BY <1>2
<1>4. PICK j \in DOMAIN m : \E b \in DOMAIN m[j].texts : q = m[j].first + b
  BY <1>1 DEF Good, Tiled
<1>5. PICK b \in DOMAIN m[j].texts : q = m[j].first + b
  BY <1>4
<1>6. m[i].texts[a] = m[j].texts[b]
  BY <1>1, <1>3, <1>5 DEF Copies
<1> QED
  BY <1>3, <1>5, <1>6 DEF Good, Distinct

-----------------------------------------------------------------------------
(* What an add makes of them.                                              *)

\* One more batch counts the texts added, after those counted before.
LEMMA ExtendedIsGood ==
  ASSUME NEW m, Good(m), NEW adding \in Seq(Texts), Injective(adding),
         \A j \in DOMAIN adding : adding[j] \notin Held(m)
  PROVE  /\ Good(Extended(m, adding)) /\ Prefix(m, Extended(m, adding))
         /\ Counted(Extended(m, adding)) = Counted(m) + Len(adding)
         /\ \A f \in Seq(Texts) : Copies(m, f) /\ Follows(f, Counted(m), adding)
              => Copies(Extended(m, adding), f)
         /\ \A t \in Held(Extended(m, adding)) :
              t \in Held(m) \/ \E j \in DOMAIN adding : adding[j] = t
<1> DEFINE n == Counted(m)
           last == [first |-> n, texts |-> adding]
           x == Extended(m, adding)
<1>1. m \in Seq(Batches) /\ n \in Nat /\ Len(m) \in Nat /\ Len(adding) \in Nat
  BY CountedNat DEF Good
<1>2. last \in Batches /\ last.first = n /\ last.texts = adding
  BY <1>1 DEF Batches
<1> HIDE DEF n
<1>3. /\ x \in Seq(Batches) /\ Len(x) = Len(m) + 1
      /\ \A i \in 1 .. Len(m) : x[i] = m[i]
      /\ x[Len(m) + 1] = last
  BY <1>1, <1>2, AppendProperties DEF Extended, n
<1> HIDE DEF last, x
<1>4. Prefix(m, x)
  BY <1>1, <1>3 DEF Prefix
<1>5. Counted(x) = n + Len(adding)
  <2>1. x # <<>> /\ Len(x) = Len(m) + 1
    BY <1>1, <1>3
  <2> QED
    BY <1>2, <1>3, <2>1 DEF Counted
<1>6. ASSUME NEW i \in DOMAIN x
      PROVE  \/ i \in DOMAIN m /\ x[i] = m[i]
             \/ i = Len(m) + 1 /\ x[i] = last
  BY <1>1, <1>3
<1>7. Tiled(x)
  <2>1. ASSUME NEW i \in DOMAIN x PROVE x[i].first + Len(x[i].texts) <= Counted(x)
    <3>1. CASE i \in DOMAIN m /\ x[i] = m[i]
      <4>1. m[i].first + Len(m[i].texts) <= n
        BY <3>1 DEF Good, Tiled, n
      <4>2. m[i].first + Len(m[i].texts) \in Nat
        BY <1>1, <3>1, BatchFields
      <4> QED
        BY <1>1, <1>5, <3>1, <4>1, <4>2
    <3>2. CASE i = Len(m) + 1 /\ x[i] = last
      BY <1>1, <1>2, <1>5, <3>2
    <3> QED
      BY <1>6, <3>1, <3>2
  <2>2. ASSUME NEW r \in 1 .. Counted(x)
        PROVE  \E i \in DOMAIN x : \E at \in DOMAIN x[i].texts : r = x[i].first + at
    <3>1. CASE r <= n
      <4>1. PICK i \in DOMAIN m : \E at \in DOMAIN m[i].texts : r = m[i].first + at
        BY <1>1, <3>1 DEF Good, Tiled, n
      <4>2. i \in DOMAIN x /\ x[i] = m[i]
        BY <1>1, <1>3
      <4> QED
        BY <4>1, <4>2
    <3>2. CASE r > n
      <4>1. r - n \in DOMAIN last.texts /\ r = last.first + (r - n)
        BY <1>1, <1>2, <1>5, <3>2
      <4>2. Len(m) + 1 \in DOMAIN x /\ x[Len(m) + 1] = last
        BY <1>1, <1>3
      <4> QED
        BY <4>1, <4>2
    <3> QED
      BY <1>1, <1>5, <3>1, <3>2
  <2> QED
    BY <2>1, <2>2 DEF Tiled
<1>8. ASSUME NEW i \in DOMAIN m, NEW at \in DOMAIN m[i].texts
      PROVE  m[i].texts[at] \in Held(m)
  BY HeldAt
<1>9. Distinct(x)
  <2> SUFFICES ASSUME NEW i \in DOMAIN x, NEW j \in DOMAIN x,
                      NEW a \in DOMAIN x[i].texts, NEW b \in DOMAIN x[j].texts,
                      x[i].texts[a] = x[j].texts[b]
               PROVE  x[i].first + a = x[j].first + b
    BY DEF Distinct
  <2>1. CASE i \in DOMAIN m /\ x[i] = m[i] /\ j \in DOMAIN m /\ x[j] = m[j]
    BY <2>1 DEF Good, Distinct
  <2>2. CASE x[i] = last /\ x[j] = last
    BY <1>2, <2>2 DEF Injective
  <2>3. CASE i \in DOMAIN m /\ x[i] = m[i] /\ x[j] = last
    BY <1>2, <1>8, <2>3
  <2>4. CASE x[i] = last /\ j \in DOMAIN m /\ x[j] = m[j]
    BY <1>2, <1>8, <2>4
  <2> QED
    BY <1>6, <2>1, <2>2, <2>3, <2>4
<1>10. ASSUME NEW f \in Seq(Texts), Copies(m, f), Follows(f, n, adding)
       PROVE  Copies(x, f)
  <2> SUFFICES ASSUME NEW i \in DOMAIN x, NEW at \in DOMAIN x[i].texts
               PROVE  x[i].first + at <= Len(f) /\ f[x[i].first + at] = x[i].texts[at]
    BY DEF Copies
  <2>1. CASE i \in DOMAIN m /\ x[i] = m[i]
    BY <1>10, <2>1 DEF Copies
  <2>2. CASE x[i] = last
    <3>1. at \in 1 .. Len(adding) /\ x[i].first = n /\ x[i].texts = adding
      BY <1>2, <2>2
    <3>2. Len(f) = n + Len(adding) /\ f[n + at] = adding[at]
      BY <1>10, <3>1 DEF Follows
    <3> QED
      BY <1>1, <3>1, <3>2
  <2> QED
    BY <1>6, <2>1, <2>2
<1>11. ASSUME NEW t \in Held(x)
       PROVE  t \in Held(m) \/ \E j \in DOMAIN adding : adding[j] = t
  <2>1. PICK i \in DOMAIN x : \E at \in DOMAIN x[i].texts : x[i].texts[at] = t
    BY HeldAt
  <2>2. PICK at \in DOMAIN x[i].texts : x[i].texts[at] = t
    BY <2>1
  <2>3. CASE i \in DOMAIN m /\ x[i] = m[i]
    BY <1>8, <2>2, <2>3
  <2>4. CASE x[i] = last
    BY <1>2, <2>2, <2>4
  <2> QED
    BY <1>6, <2>3, <2>4
<1> QED
  BY <1>3, <1>4, <1>5, <1>7, <1>9, <1>10, <1>11 DEF Good, n, x

-----------------------------------------------------------------------------
(* The index.                                                              *)

\* An index of as many entries as are counted, each of which the keys confirm, names
\* every text that is counted.
LEMMA ConfirmedNames ==
  ASSUME NEW m, Good(m), keys \in Seq(Texts), Copies(m, keys), NEW idx \in Indices,
         ~IndexFault(idx, Counted(m))
  PROVE  Names(idx, m)
<1> DEFINE n == Counted(m)
           named == {t \in Texts : idx[t] # None}
           there == {keys[r] : r \in 1 .. n}
<1>1. n \in Nat /\ \A r \in 1 .. n : r \in DOMAIN keys
  BY CopiesLong
<1> HIDE DEF n
<1>2. Cardinality(named) = n
  BY DEF IndexFault, Entries, n
<1>3. \A t \in named : idx[t] \in 1 .. n /\ keys[idx[t]] = t
  BY <1>1, WarehouseAssumption DEF IndexFault, Indices, n
<1>4. IsFiniteSet(there) /\ Cardinality(there) <= n
  <2> DEFINE f == [r \in 1 .. n |-> keys[r]]
  <2>1. f \in [1 .. n -> there] /\ \A t \in there : \E r \in 1 .. n : f[r] = t
    OBVIOUS
  <2>2. f \in Surjection(1 .. n, there)
    BY <2>1 DEF Surjection
  <2>3. IsFiniteSet(1 .. n) /\ Cardinality(1 .. n) = n
    BY <1>1, FS_Interval
  <2> QED
    BY <2>2, <2>3, FS_Surjection
<1>5. named \subseteq there
  BY <1>3
<1>6. named = there
  <2>1. IsFiniteSet(named) /\ Cardinality(named) <= Cardinality(there)
        /\ (Cardinality(named) = Cardinality(there) => named = there)
    BY <1>4, <1>5, FS_Subset
  <2>2. Cardinality(there) \in Nat
    BY <1>4, FS_CardinalityType
  <2> QED
    BY <1>1, <1>2, <1>4, <2>1, <2>2
<1>7. ASSUME NEW t \in Held(m) PROVE t \in there
  <2>1. PICK i \in DOMAIN m : \E at \in DOMAIN m[i].texts : m[i].texts[at] = t
    BY HeldAt
  <2>2. PICK at \in DOMAIN m[i].texts : m[i].texts[at] = t
    BY <2>1
  <2>3. /\ m[i].first \in Nat /\ at \in 1 .. Len(m[i].texts) /\ Len(m[i].texts) \in Nat
        /\ m[i].first + Len(m[i].texts) <= n
    BY <2>2, BatchFields DEF Good, Tiled, n
  <2>4. m[i].first + at \in 1 .. n
    BY <1>1, <2>3
  <2>5. keys[m[i].first + at] = t
    BY <2>2 DEF Copies
  <2> QED
    BY <2>4, <2>5
<1> QED
  BY <1>6, <1>7 DEF Names

\* An index that is built anew names every text the keys hold.
LEMMA RebuiltNames ==
  ASSUME NEW m, Good(m), keys \in Seq(Texts), Copies(m, keys)
  PROVE  Rebuilt(Counted(m)) \in Indices /\ Names(Rebuilt(Counted(m)), m)
<1> DEFINE n == Counted(m)
<1>1. n \in Nat /\ m \in Seq(Batches)
  BY CopiesLong DEF Good
<1> HIDE DEF n
<1>2. ASSUME NEW t \in Texts, \E r \in 1 .. n : keys[r] = t
      PROVE  Rebuilt(n)[t] \in 1 .. n
  BY <1>2 DEF Rebuilt
<1>3. ASSUME NEW t \in Texts, ~\E r \in 1 .. n : keys[r] = t
      PROVE  Rebuilt(n)[t] = None
  BY <1>3 DEF Rebuilt
<1>4. Rebuilt(n) \in Indices
  <2>1. \A t \in Texts : Rebuilt(n)[t] \in (Nat \ {0}) \cup {None}
    BY <1>1, <1>2, <1>3
  <2>2. DOMAIN Rebuilt(n) = Texts /\ Rebuilt(n) = [t \in Texts |-> Rebuilt(n)[t]]
    BY DEF Rebuilt
  <2> QED
    BY <2>1, <2>2 DEF Indices
<1>5. ASSUME NEW t \in Held(m) PROVE Rebuilt(n)[t] # None
  <2>1. PICK i \in DOMAIN m : \E at \in DOMAIN m[i].texts : m[i].texts[at] = t
    BY HeldAt
  <2>2. PICK at \in DOMAIN m[i].texts : m[i].texts[at] = t
    BY <2>1
  <2>3. /\ m[i].first \in Nat /\ at \in 1 .. Len(m[i].texts) /\ Len(m[i].texts) \in Nat
        /\ m[i].first + Len(m[i].texts) <= n /\ t \in Texts
    BY <1>1, <2>2, BatchFields DEF Good, Tiled, n
  <2>4. m[i].first + at \in 1 .. n /\ keys[m[i].first + at] = t
    BY <1>1, <2>2, <2>3 DEF Copies
  <2>5. Rebuilt(n)[t] \in 1 .. n
    BY <1>2, <2>3, <2>4
  <2> QED
    BY <1>1, <2>5, WarehouseAssumption
<1> QED
  BY <1>4, <1>5 DEF Names, n

\* The merged index names what the old one named and what is added.
LEMMA MergedNames ==
  ASSUME NEW idx \in Indices, NEW n \in Nat, NEW adding \in Seq(Texts)
  PROVE  /\ Merged(idx, n, adding) \in Indices
         /\ \A t \in Texts : idx[t] # None \/ (\E j \in DOMAIN adding : adding[j] = t)
              => Merged(idx, n, adding)[t] # None
<1>1. ASSUME NEW t \in Texts, \E j \in DOMAIN adding : adding[j] = t
      PROVE  Merged(idx, n, adding)[t] \in Nat \ {0}
  <2> DEFINE j == CHOOSE i \in DOMAIN adding : adding[i] = t
  <2>1. j \in DOMAIN adding
    BY <1>1
  <2>2. Merged(idx, n, adding)[t] = n + j
    BY <1>1 DEF Merged
  <2> HIDE DEF j
  <2>3. j \in Nat \ {0}
    BY <2>1
  <2> QED
    BY <2>2, <2>3
<1>2. ASSUME NEW t \in Texts, ~\E j \in DOMAIN adding : adding[j] = t
      PROVE  Merged(idx, n, adding)[t] = idx[t]
  BY <1>2 DEF Merged
<1>3. \A t \in Texts : Merged(idx, n, adding)[t] \in (Nat \ {0}) \cup {None}
  BY <1>1, <1>2 DEF Indices
<1>4. Merged(idx, n, adding) = [t \in Texts |-> Merged(idx, n, adding)[t]]
  BY DEF Merged
<1>5. Merged(idx, n, adding) \in Indices
  BY <1>3, <1>4 DEF Indices
<1> QED
  BY <1>1, <1>2, <1>5, WarehouseAssumption

-----------------------------------------------------------------------------
(* The inductive invariant.                                                *)

\* What is counted, or was when it was last flushed, is in both files, whatever a power
\* loss makes of them.
Disk ==
  /\ vectors \in Seq(Texts) /\ keys \in Seq(Texts) /\ index \in Indices
  /\ flushed \in [vectors : Seq(Texts), keys : Seq(Texts), index : Indices,
                  manifest : Seq(Batches)]
  /\ Good(manifest) /\ Good(flushed.manifest) /\ Prefix(flushed.manifest, manifest)
  /\ Copies(manifest, vectors) /\ Copies(manifest, keys)
  /\ Copies(manifest, flushed.vectors) /\ Copies(manifest, flushed.keys)
  /\ reported \subseteq Held(flushed.manifest)

Steps == {"closed", "cut vectors", "cut keys", "verify", "ready", "append", "undo vectors",
          "undo keys", "index", "commit", "count"}

Handles ==
  [pc : Steps, manifest : Seq(Batches), index : Indices \cup {None}, data : BOOLEAN,
   adding : Seq(Texts), toVectors : Seq(Texts), toKeys : Seq(Texts)]

\* What is written of the texts to add follows the n records counted, and the others wait.
Partly(f, rest, n, adding) ==
  /\ n <= Len(f) /\ Len(f) + Len(rest) = n + Len(adding)
  /\ \A j \in 1 .. Len(f) - n : f[n + j] = adding[j]
  /\ \A j \in 1 .. Len(rest) : rest[j] = adding[Len(f) - n + j]

\* A handle that is good for more than to be dropped.
Usable == writer.pc # "closed" /\ (writer.pc = "ready" => writer.data)

FilesCut ==
  /\ writer.pc \in {"cut keys", "verify", "ready", "undo keys"}
       => Len(vectors) = Counted(manifest)
  /\ writer.pc \in {"verify", "ready"} => Len(keys) = Counted(manifest)

IndexNames ==
  writer.pc \in {"ready", "append", "undo vectors", "undo keys", "index", "commit"} =>
    writer.index \in Indices /\ Names(writer.index, manifest)

AddingNew ==
  writer.pc \in {"append", "index", "commit", "count"} =>
    \A j \in DOMAIN writer.adding : writer.adding[j] \notin Held(manifest)

Appending ==
  writer.pc = "append" =>
    /\ Partly(vectors, writer.toVectors, Counted(manifest), writer.adding)
    /\ Partly(keys, writer.toKeys, Counted(manifest), writer.adding)

Appended ==
  writer.pc \in {"index", "commit", "count"} =>
    /\ Injective(writer.adding)
    /\ Follows(vectors, Counted(manifest), writer.adding)
    /\ Follows(keys, Counted(manifest), writer.adding)
    /\ Follows(flushed.vectors, Counted(manifest), writer.adding)
    /\ Follows(flushed.keys, Counted(manifest), writer.adding)

Indexed ==
  writer.pc = "count" =>
    \A t \in Texts :
      t \in Held(manifest) \/ (\E j \in DOMAIN writer.adding : writer.adding[j] = t)
        => index[t] # None

\* No add is on its way with a handle that vouches for the data.
Unvouched ==
  writer.pc \in {"append", "undo vectors", "undo keys", "index", "commit", "count"}
    => ~writer.data

WriterOK ==
  /\ writer \in Handles
  /\ Usable => /\ writer.manifest = manifest /\ FilesCut /\ IndexNames /\ AddingNew
               /\ Appending /\ Appended /\ Indexed /\ Unvouched

Visits == [pc : {"away", "read", "open"}, manifest : Seq(Batches), index : Indices \cup {None}]

\* What a reader opened on is counted still.
ReaderOK ==
  /\ reader \in [Readers -> Visits]
  /\ \A r \in Readers :
       /\ Good(reader[r].manifest) /\ Prefix(reader[r].manifest, manifest)
       /\ reader[r].pc = "open" => reader[r].index \in Indices

IInv == Disk /\ WriterOK /\ ReaderOK

\* Nothing counted is a good count.
LEMMA NoneCounted ==
  /\ <<>> \in Seq(Batches) /\ Good(<<>>)
  /\ \A m \in Seq(Batches) : Prefix(<<>>, m)
  /\ \A f : Copies(<<>>, f)
  /\ Held(<<>>) = {} /\ Counted(<<>>) = 0
BY DEF Good, Tiled, Distinct, Counted, Prefix, Copies, Held

\* A count that an older one extends is extended by what extends it.
LEMMA PrefixOfPrefix ==
  ASSUME NEW k \in Seq(Batches), NEW m \in Seq(Batches), NEW n \in Seq(Batches),
         Prefix(k, m), Prefix(m, n)
  PROVE  Prefix(k, n)
BY DEF Prefix

\* A count extends itself.
LEMMA PrefixSelf == ASSUME NEW m \in Seq(Batches) PROVE Prefix(m, m)
BY DEF Prefix

\* The readers' part, where no reader moves and nothing is uncounted.
LEMMA ReadersStand ==
  ASSUME IInv, UNCHANGED reader, manifest' \in Seq(Batches), Prefix(manifest, manifest')
  PROVE  ReaderOK'
<1>1. manifest \in Seq(Batches)
  BY DEF IInv, Disk, Good
<1>2. ASSUME NEW r \in Readers
      PROVE  /\ Good(reader[r].manifest) /\ Prefix(reader[r].manifest, manifest')
             /\ reader[r].pc = "open" => reader[r].index \in Indices
  BY <1>1, PrefixOfPrefix DEF IInv, ReaderOK, Good
<1>3. reader' \in [Readers -> Visits]
  BY DEF IInv, ReaderOK
<1> QED
  BY <1>2, <1>3 DEF ReaderOK

\* The same where the count stands.
LEMMA ReadersStay == ASSUME IInv, UNCHANGED <<reader, manifest>> PROVE ReaderOK'
BY DEF IInv, ReaderOK

\* A step of the handle alone.
LEMMA GotoFields ==
  ASSUME writer \in Handles, NEW pc \in Steps, Goto(pc)
  PROVE  /\ writer' \in Handles /\ writer'.pc = pc /\ writer'.manifest = writer.manifest
         /\ writer'.index = writer.index /\ writer'.data = writer.data
         /\ writer'.adding = writer.adding /\ writer'.toVectors = writer.toVectors
         /\ writer'.toKeys = writer.toKeys
BY DEF Handles, Goto

\* The files stay as they are.
LEMMA DiskStays == ASSUME IInv, UNCHANGED <<files, reported>> PROVE Disk'
BY DEF IInv, Disk, files

\* The files hold all that is counted, and an index is not None.
LEMMA Counts ==
  ASSUME IInv
  PROVE  /\ manifest \in Seq(Batches) /\ Good(manifest)
         /\ Counted(manifest) \in Nat
         /\ Counted(manifest) <= Len(vectors) /\ Counted(manifest) <= Len(keys)
         /\ \A idx \in Indices : idx # None
<1>1. \A idx \in Indices : idx \in [Texts -> Nat \cup {None}]
  BY DEF Indices
<1>2. \A idx \in Indices : idx # None
  BY <1>1, WarehouseAssumption
<1>3. Good(manifest) /\ Copies(manifest, vectors) /\ Copies(manifest, keys)
      /\ vectors \in Seq(Texts) /\ keys \in Seq(Texts)
  BY DEF IInv, Disk
<1> QED
  BY <1>2, <1>3, CopiesLong DEF Good

-----------------------------------------------------------------------------
(* Opening to add.                                                         *)

\* A handle that is closed is not usable.
LEMMA ClosedHandle == Closed \in Handles /\ Closed.pc = "closed"
BY NoneCounted DEF Closed, Handles, Steps

\* Opening reads what is counted.
LEMMA OpenToAddStep == ASSUME IInv, OpenToAdd PROVE IInv'
<1>1. manifest \in Seq(Batches)
  BY Counts
<1>2. writer' \in Handles /\ writer'.pc = "cut vectors" /\ writer'.manifest = manifest
  BY <1>1, ClosedHandle DEF OpenToAdd, Closed, Handles, Steps
<1>3. manifest' = manifest
  BY DEF OpenToAdd, files
<1>4. WriterOK'
  BY <1>2, <1>3
     DEF WriterOK, FilesCut, IndexNames, AddingNew, Appending, Appended, Indexed, Unvouched
<1>5. Disk'
  BY DiskStays DEF OpenToAdd
<1>6. ReaderOK'
  BY <1>3, ReadersStay DEF OpenToAdd
<1> QED
  BY <1>4, <1>5, <1>6 DEF IInv

\* A vector file that is cut holds what is counted, and no more.
LEMMA CutVectorsStep == ASSUME IInv, CutVectors PROVE IInv'
<1>1. writer \in Handles /\ writer.pc = "cut vectors" /\ writer.manifest = manifest
  BY DEF IInv, WriterOK, Usable, CutVectors
<1>2. Goto("cut keys") /\ "cut keys" \in Steps
  BY DEF CutVectors, Steps
<1>3. writer' \in Handles /\ writer'.pc = "cut keys" /\ writer'.manifest = manifest
  BY <1>1, <1>2, GotoFields
<1>4. vectors' = Cut(vectors, Counted(manifest)) /\ manifest' = manifest
  BY <1>1 DEF CutVectors
<1>5. /\ vectors' \in Seq(Texts) /\ Len(vectors') = Counted(manifest)
      /\ Copies(manifest, vectors')
  BY <1>4, CopiesCut DEF IInv, Disk
<1>6. WriterOK'
  BY <1>3, <1>4, <1>5
     DEF WriterOK, FilesCut, IndexNames, AddingNew, Appending, Appended, Indexed, Unvouched
<1>7. flushed' \in {flushed, [flushed EXCEPT !.vectors = vectors']}
  BY DEF CutVectors
<1>8. /\ flushed' \in [vectors : Seq(Texts), keys : Seq(Texts), index : Indices,
                       manifest : Seq(Batches)]
      /\ flushed'.vectors \in {flushed.vectors, vectors'} /\ flushed'.keys = flushed.keys
      /\ flushed'.manifest = flushed.manifest
  BY <1>5, <1>7 DEF IInv, Disk
<1>9. Disk'
  BY <1>4, <1>5, <1>8 DEF IInv, Disk, CutVectors
<1>10. ReaderOK'
  BY ReadersStay DEF CutVectors
<1> QED
  BY <1>6, <1>9, <1>10 DEF IInv

\* The same of the keys.
LEMMA CutKeysStep == ASSUME IInv, CutKeys PROVE IInv'
<1>1. /\ writer \in Handles /\ writer.pc = "cut keys" /\ writer.manifest = manifest
      /\ Len(vectors) = Counted(manifest)
  BY DEF IInv, WriterOK, Usable, FilesCut, CutKeys
<1>2. Goto("verify") /\ "verify" \in Steps
  BY DEF CutKeys, Steps
<1>3. writer' \in Handles /\ writer'.pc = "verify" /\ writer'.manifest = manifest
  BY <1>1, <1>2, GotoFields
<1>4. keys' = Cut(keys, Counted(manifest)) /\ manifest' = manifest /\ vectors' = vectors
  BY <1>1 DEF CutKeys
<1>5. keys' \in Seq(Texts) /\ Len(keys') = Counted(manifest) /\ Copies(manifest, keys')
  BY <1>4, CopiesCut DEF IInv, Disk
<1>6. WriterOK'
  BY <1>1, <1>3, <1>4, <1>5
     DEF WriterOK, FilesCut, IndexNames, AddingNew, Appending, Appended, Indexed, Unvouched
<1>7. flushed' \in {flushed, [flushed EXCEPT !.keys = keys']}
  BY DEF CutKeys
<1>8. /\ flushed' \in [vectors : Seq(Texts), keys : Seq(Texts), index : Indices,
                       manifest : Seq(Batches)]
      /\ flushed'.keys \in {flushed.keys, keys'} /\ flushed'.vectors = flushed.vectors
      /\ flushed'.manifest = flushed.manifest
  BY <1>5, <1>7 DEF IInv, Disk
<1>9. Disk'
  BY <1>4, <1>5, <1>8 DEF IInv, Disk, CutKeys
<1>10. ReaderOK'
  BY ReadersStay DEF CutKeys
<1> QED
  BY <1>6, <1>9, <1>10 DEF IInv

\* The index that a handle is ready with names all that is counted: the one on disk, where
\* verify has nothing against it, or the one that it builds.
LEMMA VerifyStep == ASSUME IInv, Verify PROVE IInv'
<1>1. /\ writer \in Handles /\ writer.pc = "verify" /\ writer.manifest = manifest
      /\ Len(vectors) = Counted(manifest) /\ Len(keys) = Counted(manifest)
  BY DEF IInv, WriterOK, Usable, FilesCut, Verify
<1>2. index' \in Indices /\ Names(index', manifest)
  <2>1. CASE IndexFault(index, Counted(manifest))
    <3>1. index' = Rebuilt(Counted(manifest))
      BY <1>1, <2>1 DEF Verify
    <3> QED
      BY <3>1, RebuiltNames DEF IInv, Disk
  <2>2. CASE ~IndexFault(index, Counted(manifest))
    <3>1. index' = index
      BY <1>1, <2>2 DEF Verify
    <3> QED
      BY <2>2, <3>1, ConfirmedNames DEF IInv, Disk
  <2> QED
    BY <2>1, <2>2
<1>3. writer' = [writer EXCEPT !.pc = "ready", !.index = index', !.data = TRUE]
  BY DEF Verify
<1>4. /\ writer' \in Handles /\ writer'.pc = "ready" /\ writer'.manifest = manifest
      /\ writer'.index = index'
  BY <1>1, <1>2, <1>3 DEF Handles, Steps
<1>5. vectors' = vectors /\ keys' = keys /\ manifest' = manifest
  BY DEF Verify
<1>6. WriterOK'
  BY <1>1, <1>2, <1>4, <1>5
     DEF WriterOK, FilesCut, IndexNames, AddingNew, Appending, Appended, Indexed, Unvouched,
         Names
<1>7. Disk'
  BY <1>2 DEF IInv, Disk, Verify
<1>8. ReaderOK'
  BY ReadersStay DEF Verify
<1> QED
  BY <1>6, <1>7, <1>8 DEF IInv

\* Nothing is asked of a handle that is dropped.
LEMMA DropStep == ASSUME IInv, Drop PROVE IInv'
<1>1. WriterOK'
  BY ClosedHandle DEF WriterOK, Usable, Drop
<1>2. Disk'
  BY DiskStays DEF Drop
<1>3. ReaderOK'
  BY ReadersStay DEF Drop, files
<1> QED
  BY <1>1, <1>2, <1>3 DEF IInv

-----------------------------------------------------------------------------
(* Adding.                                                                 *)

\* What an add picks is counted nowhere, and none of it is written yet.
LEMMA BeginAddStep == ASSUME IInv, ~GoesOn, BeginAdd PROVE IInv'
<1>1. /\ writer \in Handles /\ writer.pc = "ready" /\ writer.manifest = manifest
      /\ Len(vectors) = Counted(manifest) /\ Len(keys) = Counted(manifest)
      /\ writer.index \in Indices /\ Names(writer.index, manifest)
  BY DEF IInv, WriterOK, Usable, FilesCut, IndexNames, BeginAdd
<1>2. PICK size \in 0 .. MaxBatch : \E missing \in [1 .. size -> Missing] :
        writer' = [writer EXCEPT !.pc = "append", !.data = FALSE, !.adding = missing,
                                 !.toVectors = missing, !.toKeys = missing]
  BY DEF BeginAdd
<1>3. PICK missing \in [1 .. size -> Missing] :
        writer' = [writer EXCEPT !.pc = "append", !.data = FALSE, !.adding = missing,
                                 !.toVectors = missing, !.toKeys = missing]
  BY <1>2
<1>4. size \in Nat
  BY WarehouseAssumption
<1>5. \A t \in Missing : t \in Texts /\ t \notin Held(manifest)
  BY <1>1, Counts DEF Missing, Names
<1>6. missing \in [1 .. size -> Texts]
  BY <1>5
<1>7. missing \in Seq(Texts) /\ Len(missing) = size /\ DOMAIN missing = 1 .. size
  BY <1>4, <1>6
<1>8. /\ writer' \in Handles /\ writer'.pc = "append" /\ writer'.manifest = manifest
      /\ writer'.index = writer.index /\ writer'.data = FALSE /\ writer'.adding = missing
      /\ writer'.toVectors = missing /\ writer'.toKeys = missing
  BY <1>1, <1>3, <1>7 DEF Handles, Steps
<1>9. vectors' = vectors /\ keys' = keys /\ manifest' = manifest
  BY DEF BeginAdd, files
<1>10. ASSUME NEW f \in Seq(Texts), Len(f) = Counted(manifest)
       PROVE  Partly(f, missing, Counted(manifest), missing)
  <2>1. Counted(manifest) \in Nat
    BY Counts
  <2> QED
    BY <1>4, <1>7, <1>10, <2>1 DEF Partly
<1>11. /\ Partly(vectors, missing, Counted(manifest), missing)
       /\ Partly(keys, missing, Counted(manifest), missing)
  BY <1>1, <1>10 DEF IInv, Disk
<1>12. \A j \in DOMAIN missing : missing[j] \notin Held(manifest)
  BY <1>5
<1>13. WriterOK'
  BY <1>1, <1>8, <1>9, <1>11, <1>12
     DEF WriterOK, FilesCut, IndexNames, AddingNew, Appending, Appended, Indexed, Unvouched
<1>14. Disk'
  BY DiskStays DEF BeginAdd
<1>15. ReaderOK'
  BY ReadersStay DEF BeginAdd, files
<1> QED
  BY <1>13, <1>14, <1>15 DEF IInv

\* One more of the texts to add is written.
LEMMA PartlyGoesOn ==
  ASSUME NEW f \in Seq(Texts), NEW rest \in Seq(Texts), NEW n \in Nat,
         NEW adding \in Seq(Texts), Partly(f, rest, n, adding), rest # <<>>
  PROVE  /\ Append(f, Head(rest)) \in Seq(Texts) /\ Tail(rest) \in Seq(Texts)
         /\ Len(f) <= Len(Append(f, Head(rest)))
         /\ \A r \in 1 .. Len(f) : Append(f, Head(rest))[r] = f[r]
         /\ Partly(Append(f, Head(rest)), Tail(rest), n, adding)
<1> DEFINE g == Append(f, Head(rest))
           tail == Tail(rest)
<1>1. Len(rest) \in Nat /\ Len(rest) >= 1 /\ Len(f) \in Nat /\ Len(adding) \in Nat
  BY EmptySeq
<1>2. Head(rest) \in Texts /\ Head(rest) = rest[1]
  BY <1>1
<1>3. /\ g \in Seq(Texts) /\ Len(g) = Len(f) + 1
      /\ \A r \in 1 .. Len(f) : g[r] = f[r]
      /\ g[Len(f) + 1] = rest[1]
  BY <1>1, <1>2, AppendProperties
<1>4. /\ tail \in Seq(Texts) /\ Len(tail) = Len(rest) - 1
      /\ \A j \in 1 .. Len(tail) : tail[j] = rest[j + 1]
  BY <1>1, HeadTailProperties
<1> HIDE DEF g, tail
<1>5. n <= Len(f) /\ Len(f) + Len(rest) = n + Len(adding)
  BY DEF Partly
<1>6. ASSUME NEW j \in 1 .. Len(g) - n PROVE g[n + j] = adding[j]
  <2>1. CASE j = Len(f) + 1 - n
    <3>1. rest[1] = adding[Len(f) - n + 1]
      BY <1>1 DEF Partly
    <3>2. n + j = Len(f) + 1 /\ Len(f) - n + 1 = j
      BY <1>1, <2>1
    <3> QED
      BY <1>3, <3>1, <3>2
  <2>2. CASE j # Len(f) + 1 - n
    <3>1. j \in 1 .. Len(f) - n /\ n + j \in 1 .. Len(f)
      BY <1>1, <1>3, <1>5, <2>2
    <3>2. f[n + j] = adding[j]
      BY <3>1 DEF Partly
    <3> QED
      BY <1>3, <3>1, <3>2
  <2> QED
    BY <2>1, <2>2
<1>7. ASSUME NEW j \in 1 .. Len(tail) PROVE tail[j] = adding[Len(g) - n + j]
  <2>1. j + 1 \in 1 .. Len(rest)
    BY <1>1, <1>4
  <2>2. rest[j + 1] = adding[Len(f) - n + (j + 1)]
    BY <2>1 DEF Partly
  <2>3. Len(f) - n + (j + 1) = Len(g) - n + j
    BY <1>1, <1>3, <1>5
  <2> QED
    BY <1>4, <2>2, <2>3
<1>8. n <= Len(g) /\ Len(g) + Len(tail) = n + Len(adding)
  <2>1. Len(g) = Len(f) + 1 /\ Len(tail) = Len(rest) - 1
    BY <1>3, <1>4
  <2>2. ASSUME NEW a \in Nat, NEW b \in Nat, NEW c \in Nat, NEW x, NEW y,
               n <= a, a + b = n + c, x = a + 1, y = b - 1
        PROVE  n <= x /\ x + y = n + c
    BY <2>2
  <2> QED
    BY <1>1, <1>5, <2>1, <2>2
<1>9. Partly(g, tail, n, adding)
  BY <1>6, <1>7, <1>8 DEF Partly
<1> QED
  BY <1>1, <1>3, <1>4, <1>9 DEF g, tail

\* A vector is written.
LEMMA AppendVectorStep == ASSUME IInv, AppendVector PROVE IInv'
<1>1. /\ writer \in Handles /\ writer.pc = "append" /\ writer.manifest = manifest
      /\ writer.index \in Indices /\ Names(writer.index, manifest) /\ ~writer.data
      /\ Partly(vectors, writer.toVectors, Counted(manifest), writer.adding)
      /\ Partly(keys, writer.toKeys, Counted(manifest), writer.adding)
      /\ \A j \in DOMAIN writer.adding : writer.adding[j] \notin Held(manifest)
  BY DEF IInv, WriterOK, Usable, IndexNames, AddingNew, Appending, Unvouched, AppendVector
<1>2. /\ vectors' \in Seq(Texts) /\ Tail(writer.toVectors) \in Seq(Texts)
      /\ Len(vectors) <= Len(vectors') /\ \A r \in 1 .. Len(vectors) : vectors'[r] = vectors[r]
      /\ Partly(vectors', Tail(writer.toVectors), Counted(manifest), writer.adding)
  <2>1. /\ writer.toVectors \in Seq(Texts) /\ writer.adding \in Seq(Texts)
        /\ vectors \in Seq(Texts) /\ Counted(manifest) \in Nat
    BY <1>1, Counts DEF Handles, IInv, Disk
  <2>2. vectors' = Append(vectors, Head(writer.toVectors)) /\ writer.toVectors # <<>>
    BY DEF AppendVector
  <2> QED
    BY <1>1, <2>1, <2>2, PartlyGoesOn
<1>3. writer' = [writer EXCEPT !.toVectors = Tail(writer.toVectors)]
  BY DEF AppendVector
<1>4. /\ writer' \in Handles /\ writer'.pc = "append" /\ writer'.manifest = manifest
      /\ writer'.index = writer.index /\ writer'.data = writer.data
      /\ writer'.adding = writer.adding /\ writer'.toVectors = Tail(writer.toVectors)
      /\ writer'.toKeys = writer.toKeys
  BY <1>1, <1>2, <1>3 DEF Handles
<1>5. keys' = keys /\ manifest' = manifest
  BY DEF AppendVector
<1>6. WriterOK'
  BY <1>1, <1>2, <1>4, <1>5
     DEF WriterOK, FilesCut, IndexNames, AddingNew, Appending, Appended, Indexed, Unvouched
<1>7. Copies(manifest, vectors')
  BY <1>2, Counts, CopiesGrow DEF IInv, Disk
<1>8. Disk'
  BY <1>2, <1>7 DEF IInv, Disk, AppendVector
<1>9. ReaderOK'
  BY ReadersStay DEF AppendVector
<1> QED
  BY <1>6, <1>8, <1>9 DEF IInv

\* A key is written.
LEMMA AppendKeyStep == ASSUME IInv, AppendKey PROVE IInv'
<1>1. /\ writer \in Handles /\ writer.pc = "append" /\ writer.manifest = manifest
      /\ writer.index \in Indices /\ Names(writer.index, manifest) /\ ~writer.data
      /\ Partly(vectors, writer.toVectors, Counted(manifest), writer.adding)
      /\ Partly(keys, writer.toKeys, Counted(manifest), writer.adding)
      /\ \A j \in DOMAIN writer.adding : writer.adding[j] \notin Held(manifest)
  BY DEF IInv, WriterOK, Usable, IndexNames, AddingNew, Appending, Unvouched, AppendKey
<1>2. /\ keys' \in Seq(Texts) /\ Tail(writer.toKeys) \in Seq(Texts)
      /\ Len(keys) <= Len(keys') /\ \A r \in 1 .. Len(keys) : keys'[r] = keys[r]
      /\ Partly(keys', Tail(writer.toKeys), Counted(manifest), writer.adding)
  <2>1. /\ writer.toKeys \in Seq(Texts) /\ writer.adding \in Seq(Texts)
        /\ keys \in Seq(Texts) /\ Counted(manifest) \in Nat
    BY <1>1, Counts DEF Handles, IInv, Disk
  <2>2. keys' = Append(keys, Head(writer.toKeys)) /\ writer.toKeys # <<>>
    BY DEF AppendKey
  <2> QED
    BY <1>1, <2>1, <2>2, PartlyGoesOn
<1>3. writer' = [writer EXCEPT !.toKeys = Tail(writer.toKeys)]
  BY DEF AppendKey
<1>4. /\ writer' \in Handles /\ writer'.pc = "append" /\ writer'.manifest = manifest
      /\ writer'.index = writer.index /\ writer'.data = writer.data
      /\ writer'.adding = writer.adding /\ writer'.toVectors = writer.toVectors
      /\ writer'.toKeys = Tail(writer.toKeys)
  BY <1>1, <1>2, <1>3 DEF Handles
<1>5. vectors' = vectors /\ manifest' = manifest
  BY DEF AppendKey
<1>6. WriterOK'
  BY <1>1, <1>2, <1>4, <1>5
     DEF WriterOK, FilesCut, IndexNames, AddingNew, Appending, Appended, Indexed, Unvouched
<1>7. Copies(manifest, keys')
  BY <1>2, Counts, CopiesGrow DEF IInv, Disk
<1>8. Disk'
  BY <1>2, <1>7 DEF IInv, Disk, AppendKey
<1>9. ReaderOK'
  BY ReadersStay DEF AppendKey
<1> QED
  BY <1>6, <1>8, <1>9 DEF IInv

\* Once none waits, what was added follows what is counted; two that are the same are undone.
LEMMA FlushStep == ASSUME IInv, Flush PROVE IInv'
<1>1. /\ writer \in Handles /\ writer.pc = "append" /\ writer.manifest = manifest
      /\ writer.index \in Indices /\ Names(writer.index, manifest) /\ ~writer.data
      /\ Partly(vectors, <<>>, Counted(manifest), writer.adding)
      /\ Partly(keys, <<>>, Counted(manifest), writer.adding)
      /\ \A j \in DOMAIN writer.adding : writer.adding[j] \notin Held(manifest)
  BY DEF IInv, WriterOK, Usable, IndexNames, AddingNew, Appending, Unvouched, Flush
<1>2. /\ vectors' = vectors /\ keys' = keys /\ index' = index /\ manifest' = manifest
      /\ flushed' = [flushed EXCEPT !.vectors = vectors, !.keys = keys]
  BY DEF Flush
<1>3. /\ flushed' \in [vectors : Seq(Texts), keys : Seq(Texts), index : Indices,
                       manifest : Seq(Batches)]
      /\ flushed'.vectors = vectors /\ flushed'.keys = keys
      /\ flushed'.manifest = flushed.manifest
  BY <1>2 DEF IInv, Disk
<1>4. /\ writer.adding \in Seq(Texts) /\ vectors \in Seq(Texts) /\ keys \in Seq(Texts)
      /\ Counted(manifest) \in Nat
  BY <1>1, Counts DEF Handles, IInv, Disk
<1>5. ASSUME NEW f \in Seq(Texts), Partly(f, <<>>, Counted(manifest), writer.adding)
      PROVE  Follows(f, Counted(manifest), writer.adding)
  <2>1. Len(<<>>) = 0 /\ Len(f) \in Nat /\ Len(writer.adding) \in Nat
    BY <1>4
  <2>2. Len(f) = Counted(manifest) + Len(writer.adding)
    BY <1>4, <1>5, <2>1 DEF Partly
  <2>3. Len(f) - Counted(manifest) = Len(writer.adding)
    BY <1>4, <2>1, <2>2
  <2> QED
    BY <1>5, <2>2, <2>3 DEF Partly, Follows
<1>6. /\ Follows(vectors, Counted(manifest), writer.adding)
      /\ Follows(keys, Counted(manifest), writer.adding)
  BY <1>1, <1>4, <1>5
<1>7. PICK pc \in {"index", "undo vectors"} :
        Goto(pc) /\ (pc = "index" => Injective(writer.adding))
  BY DEF Flush
<1>8. pc \in Steps
  BY DEF Steps
<1>9. /\ writer' \in Handles /\ writer'.pc = pc /\ writer'.manifest = manifest
      /\ writer'.index = writer.index /\ writer'.data = writer.data
      /\ writer'.adding = writer.adding
  BY <1>1, <1>7, <1>8, GotoFields
<1>10. WriterOK'
  BY <1>1, <1>2, <1>3, <1>6, <1>7, <1>9
     DEF WriterOK, FilesCut, IndexNames, AddingNew, Appending, Appended, Indexed, Unvouched
<1>11. Disk'
  BY <1>2, <1>3 DEF IInv, Disk, Flush
<1>12. ReaderOK'
  BY ReadersStay DEF Flush
<1> QED
  BY <1>10, <1>11, <1>12 DEF IInv

\* An append that fails is undone.
LEMMA AppendFailsStep == ASSUME IInv, AppendFails PROVE IInv'
<1>1. /\ writer \in Handles /\ writer.pc = "append" /\ writer.manifest = manifest
      /\ writer.index \in Indices /\ Names(writer.index, manifest) /\ ~writer.data
  BY DEF IInv, WriterOK, Usable, IndexNames, Unvouched, AppendFails
<1>2. Goto("undo vectors") /\ "undo vectors" \in Steps /\ manifest' = manifest
  BY DEF AppendFails, Steps, files
<1>3. /\ writer' \in Handles /\ writer'.pc = "undo vectors" /\ writer'.manifest = manifest
      /\ writer'.index = writer.index /\ writer'.data = writer.data
  BY <1>1, <1>2, GotoFields
<1>4. WriterOK'
  BY <1>1, <1>2, <1>3
     DEF WriterOK, FilesCut, IndexNames, AddingNew, Appending, Appended, Indexed, Unvouched
<1>5. Disk'
  BY DiskStays DEF AppendFails
<1>6. ReaderOK'
  BY ReadersStay DEF AppendFails, files
<1> QED
  BY <1>4, <1>5, <1>6 DEF IInv

\* A handle whose add failed is of no more use.
LEMMA FailsIsUnusable ==
  ASSUME writer \in Handles, ~writer.data, Fails
  PROVE  WriterOK'
<1>1. writer' = [writer EXCEPT !.pc = "ready", !.adding = <<>>, !.toVectors = <<>>,
                               !.toKeys = <<>>]
  BY DEF Fails
<1>2. <<>> \in Seq(Texts) /\ "ready" \in Steps
  BY DEF Steps
<1>3. writer' \in Handles /\ writer'.pc = "ready" /\ writer'.data = writer.data
  BY <1>1, <1>2 DEF Handles
<1> QED
  BY <1>3 DEF WriterOK, Usable

\* The vectors are cut to what is counted, or stay as they are.
LEMMA UndoVectorsStep == ASSUME IInv, UndoVectors PROVE IInv'
<1>1. /\ writer \in Handles /\ writer.pc = "undo vectors" /\ writer.manifest = manifest
      /\ writer.index \in Indices /\ Names(writer.index, manifest) /\ ~writer.data
  BY DEF IInv, WriterOK, Usable, IndexNames, Unvouched, UndoVectors
<1>2. manifest' = manifest /\ UNCHANGED <<keys, index, flushed, reader, reported>>
  BY DEF UndoVectors
<1>3. CASE vectors' = Cut(vectors, Counted(writer.manifest)) /\ Goto("undo keys")
  <2>1. /\ vectors' \in Seq(Texts) /\ Len(vectors') = Counted(manifest)
        /\ Copies(manifest, vectors')
    BY <1>1, <1>3, CopiesCut DEF IInv, Disk
  <2>2. "undo keys" \in Steps
    BY DEF Steps
  <2>3. /\ writer' \in Handles /\ writer'.pc = "undo keys" /\ writer'.manifest = manifest
        /\ writer'.index = writer.index /\ writer'.data = writer.data
    BY <1>1, <1>3, <2>2, GotoFields
  <2>4. WriterOK'
    BY <1>1, <1>2, <2>1, <2>3
       DEF WriterOK, FilesCut, IndexNames, AddingNew, Appending, Appended, Indexed, Unvouched
  <2>5. Disk'
    BY <1>2, <2>1 DEF IInv, Disk
  <2> QED
    BY <1>2, <2>4, <2>5, ReadersStay DEF IInv
<1>4. CASE UNCHANGED vectors /\ Fails
  <2>1. WriterOK'
    BY <1>1, <1>4, FailsIsUnusable
  <2>2. Disk'
    BY <1>2, <1>4, DiskStays DEF files
  <2> QED
    BY <1>2, <2>1, <2>2, ReadersStay DEF IInv
<1> QED
  BY <1>3, <1>4 DEF UndoVectors

\* The keys too, and then the handle is what it was before the add.
LEMMA UndoKeysStep == ASSUME IInv, UndoKeys PROVE IInv'
<1>1. /\ writer \in Handles /\ writer.pc = "undo keys" /\ writer.manifest = manifest
      /\ writer.index \in Indices /\ Names(writer.index, manifest) /\ ~writer.data
      /\ Len(vectors) = Counted(manifest)
  BY DEF IInv, WriterOK, Usable, FilesCut, IndexNames, Unvouched, UndoKeys
<1>2. manifest' = manifest /\ UNCHANGED <<vectors, index, flushed, reader, reported>>
  BY DEF UndoKeys
<1>3. CASE /\ keys' = Cut(keys, Counted(writer.manifest))
           /\ writer' = [writer EXCEPT !.pc = "ready", !.data = TRUE, !.adding = <<>>,
                                       !.toVectors = <<>>, !.toKeys = <<>>]
  <2>1. keys' \in Seq(Texts) /\ Len(keys') = Counted(manifest) /\ Copies(manifest, keys')
    BY <1>1, <1>3, CopiesCut DEF IInv, Disk
  <2>2. "ready" \in Steps /\ <<>> \in Seq(Texts)
    BY DEF Steps
  <2>3. /\ writer' \in Handles /\ writer'.pc = "ready" /\ writer'.manifest = manifest
        /\ writer'.index = writer.index
    BY <1>1, <1>3, <2>2 DEF Handles
  <2>4. WriterOK'
    BY <1>1, <1>2, <2>1, <2>3
       DEF WriterOK, FilesCut, IndexNames, AddingNew, Appending, Appended, Indexed, Unvouched
  <2>5. Disk'
    BY <1>2, <2>1 DEF IInv, Disk
  <2> QED
    BY <1>2, <2>4, <2>5, ReadersStay DEF IInv
<1>4. CASE UNCHANGED keys /\ Fails
  <2>1. WriterOK'
    BY <1>1, <1>4, FailsIsUnusable
  <2>2. Disk'
    BY <1>2, <1>4, DiskStays DEF files
  <2> QED
    BY <1>2, <2>1, <2>2, ReadersStay DEF IInv
<1> QED
  BY <1>3, <1>4 DEF UndoKeys

-----------------------------------------------------------------------------
(* Committing what was added.                                              *)

\* What is appended is as it was.
LEMMA AppendedStays ==
  ASSUME AddingNew, Appended, writer.pc \in {"index", "commit"},
         writer'.pc \in {"commit", "count"}, writer'.adding = writer.adding,
         UNCHANGED <<vectors, keys, manifest, flushed>>
  PROVE  AddingNew' /\ Appended'
BY DEF AddingNew, Appended

\* The new index is written aside.
LEMMA WriteIndexStep == ASSUME IInv, WriteIndex PROVE IInv'
<1>1. /\ writer \in Handles /\ writer.pc = "index" /\ writer.manifest = manifest
      /\ writer.index \in Indices /\ Names(writer.index, manifest) /\ ~writer.data
      /\ AddingNew /\ Appended
  BY DEF IInv, WriterOK, Usable, IndexNames, Unvouched, WriteIndex
<1>2. manifest' = manifest /\ UNCHANGED <<vectors, keys, index, flushed, reader, reported>>
  BY DEF WriteIndex, files
<1>3. Disk'
  BY <1>2, DiskStays DEF files
<1>4. CASE Goto("commit")
  <2>1. "commit" \in Steps
    BY DEF Steps
  <2>2. /\ writer' \in Handles /\ writer'.pc = "commit" /\ writer'.manifest = manifest
        /\ writer'.index = writer.index /\ writer'.data = writer.data
        /\ writer'.adding = writer.adding
    BY <1>1, <1>4, <2>1, GotoFields
  <2>3. AddingNew' /\ Appended'
    BY <1>1, <1>2, <2>2, AppendedStays
  <2>4. WriterOK'
    BY <1>1, <1>2, <2>2, <2>3
       DEF WriterOK, FilesCut, IndexNames, Appending, Indexed, Unvouched
  <2> QED
    BY <1>2, <1>3, <2>4, ReadersStay DEF IInv
<1>5. CASE Fails
  BY <1>1, <1>2, <1>3, <1>5, FailsIsUnusable, ReadersStay DEF IInv
<1> QED
  BY <1>4, <1>5 DEF WriteIndex

\* The index on disk names what is counted and what is about to be.
LEMMA CommitIndexStep == ASSUME IInv, CommitIndex PROVE IInv'
<1>1. /\ writer \in Handles /\ writer.pc = "commit" /\ writer.manifest = manifest
      /\ writer.index \in Indices /\ Names(writer.index, manifest) /\ ~writer.data
      /\ AddingNew /\ Appended
  BY DEF IInv, WriterOK, Usable, IndexNames, Unvouched, CommitIndex
<1>2. manifest' = manifest /\ UNCHANGED <<vectors, keys, flushed, reader, reported>>
  BY DEF CommitIndex
<1>3. CASE /\ index' = Merged(writer.index, Counted(writer.manifest), writer.adding)
           /\ writer' = [writer EXCEPT !.pc = "count", !.index = None]
  <2>1. "count" \in Steps
    BY DEF Steps
  <2>2. /\ writer' \in Handles /\ writer'.pc = "count" /\ writer'.manifest = manifest
        /\ writer'.data = writer.data /\ writer'.adding = writer.adding
    BY <1>1, <1>3, <2>1 DEF Handles
  <2>3. AddingNew' /\ Appended'
    BY <1>1, <1>2, <2>2, AppendedStays
  <2>4. /\ index' \in Indices
        /\ \A t \in Texts :
             writer.index[t] # None \/ (\E j \in DOMAIN writer.adding : writer.adding[j] = t)
               => index'[t] # None
    BY <1>1, <1>3, Counts, MergedNames DEF Handles
  <2>5. Indexed'
    BY <1>1, <1>2, <2>2, <2>4 DEF Indexed, Names
  <2>6. WriterOK'
    BY <1>2, <1>1, <2>2, <2>3, <2>5 DEF WriterOK, FilesCut, IndexNames, Appending, Unvouched
  <2>7. Disk'
    BY <1>2, <2>4 DEF IInv, Disk
  <2> QED
    BY <1>2, <2>6, <2>7, ReadersStay DEF IInv
<1>4. CASE /\ UNCHANGED index
           /\ writer' = [writer EXCEPT !.pc = "ready", !.index = None, !.adding = <<>>]
  <2>1. "ready" \in Steps /\ <<>> \in Seq(Texts)
    BY DEF Steps
  <2>2. writer' \in Handles /\ writer'.pc = "ready" /\ writer'.data = writer.data
    BY <1>1, <1>4, <2>1 DEF Handles
  <2>3. WriterOK'
    BY <1>1, <2>2 DEF WriterOK, Usable
  <2>4. Disk'
    BY <1>2, <1>4, DiskStays DEF files
  <2> QED
    BY <1>2, <2>3, <2>4, ReadersStay DEF IInv
<1> QED
  BY <1>3, <1>4 DEF CommitIndex

\* What is counted with the batch that was added is in the files, flushed or not, and in
\* the index.
LEMMA CountHolds ==
  ASSUME IInv, writer.pc = "count"
  PROVE  LET more == Extended(manifest, writer.adding) IN
         /\ writer \in Handles /\ writer.manifest = manifest /\ ~writer.data
         /\ Good(more) /\ Prefix(manifest, more)
         /\ Copies(more, vectors) /\ Copies(more, keys)
         /\ Copies(more, flushed.vectors) /\ Copies(more, flushed.keys)
         /\ Counted(more) = Len(vectors) /\ Counted(more) = Len(keys)
         /\ Names(index, more)
<1>1. /\ writer \in Handles /\ writer.manifest = manifest /\ ~writer.data
      /\ AddingNew /\ Appended /\ Indexed
  BY DEF IInv, WriterOK, Usable, Unvouched
<1>2. /\ writer.adding \in Seq(Texts) /\ Good(manifest)
      /\ {vectors, keys, flushed.vectors, flushed.keys} \subseteq Seq(Texts)
      /\ Copies(manifest, vectors) /\ Copies(manifest, keys)
      /\ Copies(manifest, flushed.vectors) /\ Copies(manifest, flushed.keys)
  BY <1>1 DEF Handles, IInv, Disk
<1>3. /\ Injective(writer.adding)
      /\ \A j \in DOMAIN writer.adding : writer.adding[j] \notin Held(manifest)
      /\ Follows(vectors, Counted(manifest), writer.adding)
      /\ Follows(keys, Counted(manifest), writer.adding)
      /\ Follows(flushed.vectors, Counted(manifest), writer.adding)
      /\ Follows(flushed.keys, Counted(manifest), writer.adding)
  BY <1>1 DEF AddingNew, Appended
<1> DEFINE more == Extended(manifest, writer.adding)
<1>4. /\ Good(more) /\ Prefix(manifest, more)
      /\ Counted(more) = Counted(manifest) + Len(writer.adding)
      /\ \A f \in Seq(Texts) : Copies(manifest, f) /\ Follows(f, Counted(manifest), writer.adding)
           => Copies(more, f)
      /\ \A t \in Held(more) :
           t \in Held(manifest) \/ \E j \in DOMAIN writer.adding : writer.adding[j] = t
  BY <1>2, <1>3, ExtendedIsGood
<1> HIDE DEF more
<1>5. ASSUME NEW t \in Held(more) PROVE t \in Texts
  <2>1. PICK i \in DOMAIN more : \E at \in DOMAIN more[i].texts : more[i].texts[at] = t
    BY HeldAt
  <2>2. more[i].texts \in Seq(Texts)
    BY <1>4, <2>1, BatchFields DEF Good
  <2> QED
    BY <2>1, <2>2
<1>6. Names(index, more)
  BY <1>1, <1>4, <1>5 DEF Indexed, Names
<1>7. /\ Copies(more, vectors) /\ Copies(more, keys)
      /\ Copies(more, flushed.vectors) /\ Copies(more, flushed.keys)
  BY <1>2, <1>3, <1>4
<1>8. Counted(more) = Len(vectors) /\ Counted(more) = Len(keys)
  BY <1>3, <1>4 DEF Follows
<1> QED
  BY <1>1, <1>4, <1>6, <1>7, <1>8 DEF more

\* The count is written, or may have been and the handle is of no more use.
LEMMA CountStep == ASSUME IInv, Count PROVE IInv'
<1> DEFINE more == Extended(manifest, writer.adding)
<1>1. /\ writer \in Handles /\ writer.manifest = manifest /\ ~writer.data
      /\ Good(more) /\ Prefix(manifest, more)
      /\ Copies(more, vectors) /\ Copies(more, keys)
      /\ Copies(more, flushed.vectors) /\ Copies(more, flushed.keys)
      /\ Counted(more) = Len(vectors) /\ Counted(more) = Len(keys)
      /\ Names(index, more)
  BY CountHolds DEF Count
<1>2. more \in Seq(Batches) /\ "ready" \in Steps /\ <<>> \in Seq(Texts)
  BY <1>1 DEF Good, Steps
<1>3. UNCHANGED <<vectors, keys, index, reader>>
  BY DEF Count
<1>4. more = Extended(writer.manifest, writer.adding)
  BY <1>1
<1> HIDE DEF more
<1>5. CASE /\ manifest' = more
           /\ FlushDirectory
           /\ writer' = [writer EXCEPT !.pc = "ready", !.manifest = manifest', !.index = index,
                                       !.data = TRUE, !.adding = <<>>]
           /\ reported' = Held(manifest')
  <2>1. index \in Indices
    BY DEF IInv, Disk
  <2>2. writer' = [writer EXCEPT !.pc = "ready", !.manifest = more, !.index = index,
                                 !.data = TRUE, !.adding = <<>>]
    BY <1>5
  <2>3. /\ writer' \in Handles /\ writer'.pc = "ready" /\ writer'.manifest = more
        /\ writer'.index = index
    BY <1>1, <1>2, <2>1, <2>2 DEF Handles
  <2>4. WriterOK'
    BY <1>1, <1>3, <1>5, <2>1, <2>3
       DEF WriterOK, FilesCut, IndexNames, AddingNew, Appending, Appended, Indexed, Unvouched,
           Names
  <2>5. flushed' = [flushed EXCEPT !.index = index, !.manifest = more]
    BY <1>5 DEF FlushDirectory
  <2>6. /\ flushed' \in [vectors : Seq(Texts), keys : Seq(Texts), index : Indices,
                         manifest : Seq(Batches)]
        /\ flushed'.vectors = flushed.vectors /\ flushed'.keys = flushed.keys
        /\ flushed'.manifest = more
    BY <1>2, <2>1, <2>5 DEF IInv, Disk
  <2>7. Disk'
    BY <1>1, <1>2, <1>3, <1>5, <2>6, PrefixSelf DEF IInv, Disk
  <2>8. ReaderOK'
    BY <1>1, <1>2, <1>3, <1>5, ReadersStand
  <2> QED
    BY <2>4, <2>7, <2>8 DEF IInv
<1>6. CASE /\ manifest' \in {manifest, more}
           /\ writer' = [writer EXCEPT !.pc = "ready", !.adding = <<>>, !.manifest = more]
           /\ UNCHANGED <<flushed, reported>>
  <2>1. writer' \in Handles /\ writer'.pc = "ready" /\ writer'.data = writer.data
    BY <1>1, <1>2, <1>6 DEF Handles
  <2>2. WriterOK'
    BY <1>1, <2>1 DEF WriterOK, Usable
  <2>3. manifest \in Seq(Batches) /\ Good(manifest) /\ flushed.manifest \in Seq(Batches)
    BY Counts DEF IInv, Disk, Good
  <2>4. manifest' \in Seq(Batches) /\ Prefix(manifest, manifest')
    BY <1>1, <1>2, <1>6, <2>3, PrefixSelf
  <2>5. Prefix(flushed.manifest, manifest')
    BY <2>3, <2>4, PrefixOfPrefix DEF IInv, Disk
  <2>6. Disk'
    BY <1>1, <1>3, <1>6, <2>5 DEF IInv, Disk
  <2>7. ReaderOK'
    BY <1>3, <2>4, ReadersStand
  <2> QED
    BY <2>2, <2>6, <2>7 DEF IInv
<1> QED
  BY <1>4, <1>5, <1>6 DEF Count

-----------------------------------------------------------------------------
(* Power losses and readers.                                               *)

\* Each of the four comes back as it is or as it was flushed, and every count among them
\* is in every file.
LEMMA PowerLossStep == ASSUME IInv, PowerLoss PROVE IInv'
<1>1. Disk
  BY DEF IInv
<1>2. /\ vectors' \in {vectors, flushed.vectors} /\ keys' \in {keys, flushed.keys}
      /\ index' \in {index, flushed.index} /\ manifest' \in {manifest, flushed.manifest}
      /\ flushed' = [vectors |-> vectors', keys |-> keys', index |-> index',
                     manifest |-> manifest']
      /\ writer' = Closed /\ reader' = [r \in Readers |-> Away] /\ reported' = reported
  BY DEF PowerLoss
<1>3. /\ manifest \in Seq(Batches) /\ flushed.manifest \in Seq(Batches)
      /\ Held(flushed.manifest) \subseteq Held(manifest)
      /\ \A f : Copies(manifest, f) => Copies(flushed.manifest, f)
  BY <1>1, PrefixHolds DEF Disk, Good
<1>4. /\ manifest' \in Seq(Batches) /\ Good(manifest') /\ Prefix(manifest', manifest')
      /\ reported' \subseteq Held(manifest')
  BY <1>1, <1>2, <1>3, PrefixSelf DEF Disk
<1>5. /\ vectors' \in Seq(Texts) /\ keys' \in Seq(Texts) /\ index' \in Indices
      /\ Copies(manifest', vectors') /\ Copies(manifest', keys')
  BY <1>1, <1>2, <1>3 DEF Disk
<1>6. /\ flushed' \in [vectors : Seq(Texts), keys : Seq(Texts), index : Indices,
                       manifest : Seq(Batches)]
      /\ flushed'.vectors = vectors' /\ flushed'.keys = keys' /\ flushed'.manifest = manifest'
  BY <1>2, <1>4, <1>5
<1>7. Disk'
  BY <1>4, <1>5, <1>6 DEF Disk
<1>8. WriterOK'
  BY <1>2, ClosedHandle DEF WriterOK, Usable
<1>9. /\ Away \in Visits /\ Away.pc = "away" /\ Away.manifest = <<>>
      /\ Good(<<>>) /\ Prefix(<<>>, manifest')
  BY <1>4, NoneCounted DEF Away, Visits
<1>10. ReaderOK'
  BY <1>2, <1>9 DEF ReaderOK
<1> QED
  BY <1>7, <1>8, <1>10 DEF IInv

\* What a reader becomes, and the others stay.
LEMMA ReaderMoves ==
  ASSUME IInv, NEW r \in Readers, NEW visit \in Visits, reader' = [reader EXCEPT ![r] = visit],
         Good(visit.manifest), Prefix(visit.manifest, manifest),
         visit.pc = "open" => visit.index \in Indices,
         UNCHANGED <<files, writer, reported>>
  PROVE  IInv'
<1>1. Disk'
  BY DiskStays
<1>2. WriterOK'
  BY DEF IInv, WriterOK, Usable, FilesCut, IndexNames, AddingNew, Appending, Appended, Indexed,
         Unvouched, files
<1>3. manifest' = manifest
  BY DEF files
<1>4. ReaderOK'
  BY <1>3 DEF IInv, ReaderOK
<1> QED
  BY <1>1, <1>2, <1>4 DEF IInv

\* A reader reads what is counted, maps the index that is there then, or leaves.
LEMMA ReaderStep ==
  ASSUME IInv, NEW r \in Readers, ReadManifest(r) \/ Map(r) \/ Leave(r)
  PROVE  IInv'
<1>1. /\ manifest \in Seq(Batches) /\ Good(manifest) /\ index \in Indices
      /\ reader[r] \in Visits
      /\ Good(reader[r].manifest) /\ Prefix(reader[r].manifest, manifest)
  BY Counts DEF IInv, Disk, ReaderOK
<1>2. /\ Away \in Visits /\ Away.pc = "away" /\ Away.manifest = <<>>
      /\ Good(<<>>) /\ Prefix(<<>>, manifest)
  BY <1>1, NoneCounted DEF Away, Visits
<1>3. CASE ReadManifest(r)
  <2> DEFINE visit == [Away EXCEPT !.pc = "read", !.manifest = manifest]
  <2>1. visit \in Visits /\ visit.pc = "read" /\ visit.manifest = manifest
    BY <1>1 DEF Away, Visits
  <2>2. reader' = [reader EXCEPT ![r] = visit] /\ UNCHANGED <<files, writer, reported>>
    BY <1>3 DEF ReadManifest
  <2> HIDE DEF visit
  <2> QED
    BY <1>1, <2>1, <2>2, PrefixSelf, ReaderMoves
<1>4. CASE Map(r)
  <2> DEFINE open == [pc |-> "open", manifest |-> reader[r].manifest, index |-> index]
  <2>1. /\ open \in Visits /\ open.pc = "open" /\ open.manifest = reader[r].manifest
        /\ open.index = index
    BY <1>1 DEF Visits
  <2>2. UNCHANGED <<files, writer, reported>>
    BY <1>4 DEF Map
  <2>3. reader' = [reader EXCEPT ![r] = open] \/ reader' = [reader EXCEPT ![r] = Away]
    BY <1>4 DEF Map
  <2> HIDE DEF open
  <2>4. CASE reader' = [reader EXCEPT ![r] = open]
    BY <1>1, <2>1, <2>2, <2>4, ReaderMoves
  <2>5. CASE reader' = [reader EXCEPT ![r] = Away]
    BY <1>2, <2>2, <2>5, ReaderMoves
  <2> QED
    BY <2>3, <2>4, <2>5
<1>5. CASE Leave(r)
  BY <1>2, <1>5, ReaderMoves DEF Leave
<1> QED
  BY <1>3, <1>4, <1>5

-----------------------------------------------------------------------------
(* The theorems.                                                           *)

\* A warehouse that was created counts nothing.
LEMMA InitIInv == ASSUME Init PROVE IInv
<1>1. EmptyIndex \in Indices
  BY DEF EmptyIndex, Indices
<1>2. <<>> \in Seq(Texts) /\ <<>> \in Seq(Batches)
  OBVIOUS
<1>3. /\ flushed \in [vectors : Seq(Texts), keys : Seq(Texts), index : Indices,
                      manifest : Seq(Batches)]
      /\ flushed.manifest = <<>>
  BY <1>1, <1>2 DEF Init
<1>4. Disk
  BY <1>1, <1>2, <1>3, NoneCounted DEF Init, Disk
<1>5. WriterOK
  BY ClosedHandle DEF Init, WriterOK, Usable
<1>6. Away \in Visits /\ Away.pc = "away" /\ Away.manifest = <<>>
  BY NoneCounted DEF Away, Visits
<1>7. ReaderOK
  BY <1>2, <1>6, NoneCounted DEF Init, ReaderOK
<1> QED
  BY <1>4, <1>5, <1>7 DEF IInv

\* Every step keeps it.
LEMMA NextIInv == ASSUME ~GoesOn, IInv, [Next]_vars PROVE IInv'
<1>1. CASE UNCHANGED vars
  <2>1. Disk'
    BY <1>1, DiskStays DEF vars, files
  <2>2. WriterOK'
    BY <1>1 DEF IInv, WriterOK, Usable, FilesCut, IndexNames, AddingNew, Appending, Appended,
                Indexed, Unvouched, vars
  <2>3. ReaderOK'
    BY <1>1, ReadersStay DEF vars
  <2> QED
    BY <2>1, <2>2, <2>3 DEF IInv
<1>2. CASE OpenToAdd \/ CutVectors \/ CutKeys \/ Verify \/ Drop
  BY <1>2, OpenToAddStep, CutVectorsStep, CutKeysStep, VerifyStep, DropStep
<1>3. CASE \/ BeginAdd \/ AppendVector \/ AppendKey \/ Flush \/ AppendFails
           \/ UndoVectors \/ UndoKeys
  BY <1>3, BeginAddStep, AppendVectorStep, AppendKeyStep, FlushStep, AppendFailsStep,
     UndoVectorsStep, UndoKeysStep
<1>4. CASE WriteIndex \/ CommitIndex \/ Count \/ PowerLoss
  BY <1>4, WriteIndexStep, CommitIndexStep, CountStep, PowerLossStep
<1>5. CASE \E r \in Readers : ReadManifest(r) \/ Map(r) \/ Leave(r)
  BY <1>5, ReaderStep
<1> QED
  BY <1>1, <1>2, <1>3, <1>4, <1>5 DEF Next

\* In a warehouse whose handles are dropped when an add fails, the files hold, record by
\* record and each text once, all that is counted: IInv says it of every file a power loss
\* can bring back, with every count it can bring back.
THEOREM CountedIsKept == ASSUME ~GoesOn PROVE Spec => []CountedIsThere
<1>1. ASSUME IInv PROVE CountedIsThere
  <2>1. /\ Good(manifest) /\ Copies(manifest, vectors) /\ Copies(manifest, keys)
        /\ keys \in Seq(Texts)
    BY <1>1 DEF IInv, Disk
  <2>2. ASSUME NEW i \in DOMAIN manifest, NEW at \in DOMAIN manifest[i].texts
        PROVE  LET record == manifest[i].first + at IN
               /\ ~(record > Len(vectors)) /\ vectors[record] = manifest[i].texts[at]
               /\ ~(record > Len(keys)) /\ keys[record] = manifest[i].texts[at]
    <3>1. manifest[i].first \in Nat /\ at \in Nat
      BY <2>1, BatchFields DEF Good
    <3>2. vectors \in Seq(Texts)
      BY <1>1 DEF IInv, Disk
    <3> QED
      BY <2>1, <3>1, <3>2 DEF Copies
  <2>3. ~DataFault(manifest)
    BY <2>2 DEF DataFault
  <2> QED
    BY <2>1, <2>3, CutDistinct DEF CountedIsThere
<1> QED
  BY <1>1, InitIInv, NextIInv, PTL DEF Spec

\* A reader finds a text at no record but one of its count that holds the text's vector, and
\* finds all of them by an index that names as many and is confirmed by the keys.
THEOREM ReadersFind == ASSUME ~GoesOn PROVE Spec => []ReaderFinds
<1>1. ASSUME IInv PROVE ReaderFinds
  <2> SUFFICES ASSUME NEW r \in Readers, reader[r].pc = "open", NEW t \in Texts
               PROVE  LET found == Find(reader[r], t) IN
                      IF found # None
                      THEN t \in Held(reader[r].manifest) /\ vectors[found] = t
                      ELSE t \in Held(reader[r].manifest)
                             => IndexFault(reader[r].index, Counted(reader[r].manifest))
    BY DEF ReaderFinds
  <2> DEFINE m == reader[r].manifest
             idx == reader[r].index
  <2>1. /\ m \in Seq(Batches) /\ Good(m) /\ Prefix(m, manifest) /\ idx \in Indices
        /\ manifest \in Seq(Batches) /\ keys \in Seq(Texts)
        /\ Copies(manifest, vectors) /\ Copies(manifest, keys)
    BY <1>1 DEF IInv, Disk, ReaderOK, Good
  <2> HIDE DEF m, idx
  <2>2. Copies(m, vectors) /\ Copies(m, keys)
    BY <2>1, PrefixHolds
  <2>3. Counted(m) \in Nat /\ idx[t] \in (Nat \ {0}) \cup {None} /\ None \notin Nat
    BY <2>1, CountedNat, WarehouseAssumption DEF Indices
  <2>4. CASE idx[t] # None /\ idx[t] <= Counted(m) /\ keys[idx[t]] = t
    <3>1. Find(reader[r], t) = idx[t]
      BY <2>4 DEF Find, m, idx
    <3>2. idx[t] \in 1 .. Counted(m)
      BY <2>3, <2>4
    <3>3. PICK i \in DOMAIN m : \E at \in DOMAIN m[i].texts : idx[t] = m[i].first + at
      BY <2>1, <3>2 DEF Good, Tiled
    <3>4. PICK at \in DOMAIN m[i].texts : idx[t] = m[i].first + at
      BY <3>3
    <3>5. vectors[idx[t]] = m[i].texts[at] /\ keys[idx[t]] = m[i].texts[at]
      BY <2>2, <3>4 DEF Copies
    <3>6. t \in Held(m) /\ vectors[idx[t]] = t
      BY <2>4, <3>5, HeldAt
    <3> QED
      BY <2>4, <3>1, <3>6 DEF m, idx
  <2>5. CASE ~(idx[t] # None /\ idx[t] <= Counted(m) /\ keys[idx[t]] = t)
    <3>1. Find(reader[r], t) = None
      BY <2>5 DEF Find, m, idx
    <3>2. ASSUME t \in Held(m), ~IndexFault(idx, Counted(m)) PROVE FALSE
      <4>1. Names(idx, m)
        BY <2>1, <2>2, <3>2, ConfirmedNames
      <4>2. idx[t] # None
        BY <3>2, <4>1 DEF Names
      <4>3. ~(idx[t] > Counted(m)) /\ keys[idx[t]] = t
        BY <3>2, <4>2 DEF IndexFault
      <4> QED
        BY <2>3, <2>5, <4>2, <4>3
    <3> QED
      BY <3>1, <3>2 DEF m, idx
  <2> QED
    BY <2>4, <2>5
<1> QED
  BY <1>1, InitIInv, NextIInv, PTL DEF Spec

\* What an add reported as held was counted in the warehouse.json that it flushed, which
\* the one on disk extends.
THEOREM ReportedStays == ASSUME ~GoesOn PROVE Spec => []AddedStays
<1>1. ASSUME IInv PROVE AddedStays
  <2>1. /\ reported \subseteq Held(flushed.manifest) /\ Prefix(flushed.manifest, manifest)
        /\ flushed.manifest \in Seq(Batches) /\ manifest \in Seq(Batches)
    BY <1>1 DEF IInv, Disk, Good
  <2> QED
    BY <2>1, PrefixHolds DEF AddedStays
<1> QED
  BY <1>1, InitIInv, NextIInv, PTL DEF Spec


(***************************************************************************)
(* The releases.                                                           *)
(***************************************************************************)
-----------------------------------------------------------------------------
(* The inductive invariant: a device on the release, or about to take it as  *)
(* a delta, holds the ledger's keys, each in one live slot, lists each in     *)
(* each of its books and, once releases have snapshots, has one of each key  *)
(* that tells the plan's places; until then it has no snapshot at all.       *)

Sharing == chain = "sharing"
Snapped == ~Unsnapped
Aliases == Decide(plan, warehouse, Sharing)
PlanRows == Rows(Places(plan, warehouse, Aliases))
FromBase == <<Derived(release.base, {}, NoLinks)>>

\* What was published last.
Published ==
  version > 0 => /\ ledger = Ledger(plan, Aliases, Snapped, Sharing)
                 /\ release.base = Base(plan, warehouse, Aliases, Snapped)
                 /\ TextsOf(plan) \subseteq warehouse
                 /\ chain # "lines" => Snapped
Unpublished ==
  version = 0 => ledger.keys = {} /\ ledger.pairs = {} /\ device = <<>>

IsSequence(d) == Len(d) \in Nat /\ DOMAIN d = 1..Len(d)

\* A slice of a device, the segments it is linked to before it.
SliceOK(d, i) ==
  LET s == d[i].segment IN
  /\ SegmentOK(s)
  /\ d[i].deleted \subseteq KeysOf(s.own)
  /\ KeysOf(s.own) \cap KeysOf(s.foreign) = {}
  /\ DOMAIN d[i].links = s.foreign
  /\ \A r \in s.foreign :
      /\ d[i].links[r] \in 1..(i - 1)
      /\ r.key \in KeysOf(d[d[i].links[r]].segment.own)
WellMade(d) == IsSequence(d) /\ \A i \in DOMAIN d : SliceOK(d, i)

\* Each of the keys is live in one slot, and nothing else is.
Exact(d, ks) ==
  /\ Live(d) = ks
  /\ \A i, j \in DOMAIN d : i # j => LiveKeys(d, i) \cap LiveKeys(d, j) = {}

\* The newest snapshot of each of the keys tells the rows.
RowsOf(rows, k) == {r \in rows : r.key = k}
Telling(d, k) == {i \in DOMAIN d : \E r \in d[i].segment.rows : r.key = k}
Newest(d, k) == RowsOf(d[Max(Telling(d, k))].segment.rows, k)
Tells(d, ks, rows) ==
  \A k \in ks : Telling(d, k) # {} /\ Newest(d, k) = RowsOf(rows, k)

\* A live record of each key is there in each of its books.
Recorded(d, b) == KeysOf(UNION {Fresh(d, i, b) : i \in DOMAIN d})
Lists(d, pairs) == \A pair \in pairs : pair[2] \in Recorded(d, pair[1])

\* No segment has a snapshot.
Bare(d) == \A i \in DOMAIN d : d[i].segment.rows = {}

Answers(d) ==
  /\ WellMade(d) /\ Exact(d, ledger.keys) /\ Lists(d, ledger.pairs)
  /\ IF Snapped THEN Tells(d, ledger.keys, PlanRows) ELSE Bare(d)

Following ==
  /\ installed = 0 => version <= 1
  /\ installed > 0 /\ installed = version => Answers(device)
  /\ installed > 0 /\ installed # version =>
       /\ installed = version - 1 /\ WellMade(device)
       /\ Answers(Push(device, release.delta))

ReleaseInv == ReleaseTypeOK /\ Published /\ Unpublished /\ Following

-----------------------------------------------------------------------------
(* Least and greatest elements, and what is chosen among the lines.          *)

\* A set of numbers has a least one.
LEMMA LeastOf ==
  ASSUME NEW S, S \subseteq Nat, S # {}
  PROVE  \E i \in S : \A j \in S : i <= j
<1> DEFINE less == {ss \in Nat \X Nat : ss[1] < ss[2]}
<1>1. IsWellFoundedOn(less, Nat)
  BY NatLessThanWellFounded DEF OpToRel
<1>2. \E i \in S : \A j \in S : ~(<<j, i>> \in less)
  <2> HIDE DEF less
  <2> QED BY <1>1, WFMin
<1>3. \A i, j \in Nat : ~(<<j, i>> \in less) => i <= j
  <2> SUFFICES ASSUME NEW i \in Nat, NEW j \in Nat, ~(<<j, i>> \in less) PROVE i <= j
    OBVIOUS
  <2>1. <<j, i>> \in Nat \X Nat /\ <<j, i>>[1] = j /\ <<j, i>>[2] = i
    OBVIOUS
  <2> QED BY <2>1
<1> HIDE DEF less
<1> QED BY <1>2, <1>3

\* A bounded one has a greatest, which Max chooses.
LEMMA GreatestOf ==
  ASSUME NEW n \in Nat, NEW S, S \subseteq 1..n, S # {}
  PROVE  Max(S) \in S /\ \A j \in S : Max(S) >= j
<1> DEFINE T == {n - i : i \in S}
<1>0. PICK one \in S : n - one \in T
  OBVIOUS
<1>1. T \subseteq Nat /\ T # {}
  <2>1. \A i \in 1..n : n - i \in Nat
    OBVIOUS
  <2> QED BY <1>0, <2>1
<1>2. PICK t \in T : \A u \in T : t <= u
  BY <1>1, LeastOf
<1>3. PICK i \in S : t = n - i
  BY <1>2
<1>4. ASSUME NEW j \in S PROVE i >= j
  <2>1. n - j \in T
    OBVIOUS
  <2>2. n - i <= n - j
    BY <1>2, <1>3, <2>1
  <2>3. i \in 1..n /\ j \in 1..n
    OBVIOUS
  <2> HIDE DEF T
  <2> QED BY <2>2, <2>3
<1> QED BY <1>4 DEF Max

\* And there is no other.
LEMMA GreatestIs ==
  ASSUME NEW n \in Nat, NEW S, S \subseteq 1..n, NEW i \in S, \A j \in S : i >= j
  PROVE  Max(S) = i
<1>1. Max(S) \in S /\ \A j \in S : Max(S) >= j
  BY GreatestOf
<1>2. PICK m : m = Max(S)
  OBVIOUS
<1>3. m \in 1..n /\ i \in 1..n /\ i >= m /\ m >= i
  BY <1>1, <1>2
<1> QED BY <1>2, <1>3

\* A line is its book and its ordinal.
LEMMA LineParts ==
  ASSUME NEW l \in Lines
  PROVE  /\ l[1] \in Nat /\ l[2] \in Nat /\ l[1] \in Books /\ l = <<l[1], l[2]>>
BY ReleaseAssumption DEF Books

\* Where some line holds a key, a first one does.
LEMMA FirstLine ==
  ASSUME NEW S, S \subseteq Lines, NEW l \in S
  PROVE  \E m \in S : m[1] = l[1] /\ \A n \in S : n[1] = m[1] => m[2] <= n[2]
<1> DEFINE T == {m[2] : m \in {n \in S : n[1] = l[1]}}
<1>1. T \subseteq Nat /\ T # {}
  BY LineParts
<1>2. PICK t \in T : \A u \in T : t <= u
  BY <1>1, LeastOf
<1> QED BY <1>2

-----------------------------------------------------------------------------
(* What a plan places where.                                                 *)

\* The neighbour that is chosen is one: a line that has text of its own.
LEMMA TargetIsNeighbour ==
  ASSUME NEW p \in Plans, NEW w, NEW l \in Lines, p[l] \in Short, Neighbours(p, w, l) # {}
  PROVE  \E m \in Neighbours(p, w, l) : Target(p, w, l) = p[m]
<1> DEFINE S == Neighbours(p, w, l)
           c(m) == Cosine[p[l]][p[m]]
           measure(m) == 6 * (2 - c(m)) + Nth(l, m)
           T == {measure(m) : m \in S}
           best(m) == \A n \in S : c(m) > c(n) \/ (c(m) = c(n) /\ Nth(l, m) <= Nth(l, n))
<1>1. \A m \in S : c(m) \in 0..2 /\ Nth(l, m) \in 2..5
  BY ReleaseAssumption DEF Neighbours
<1>2. \E m \in S : best(m)
  <2> HIDE DEF c, S
  <2>1. \A m \in S : measure(m) \in Nat
    BY <1>1
  <2>2. T \subseteq Nat /\ T # {}
    BY <2>1 DEF S
  <2>3. PICK t \in T : \A u \in T : t <= u
    BY <2>2, LeastOf
  <2>4. PICK m \in S : t = measure(m)
    BY <2>3
  <2>5. \A n \in S : measure(m) <= measure(n)
    BY <2>3, <2>4
  <2>6. best(m)
    BY <1>1, <2>5
  <2> QED BY <2>6
<1>3. PICK m \in S : m = CHOOSE n \in S : best(n)
  <2> HIDE DEF best, S
  <2> QED BY <1>2
<1> QED BY <1>3 DEF Target

\* The line under whose key a line is placed: of its book, with its own vector.
LEMMA PlacedUnder ==
  ASSUME NEW p \in Plans, NEW w, NEW sharing, NEW l \in Lines, p[l] # NoText
  PROVE  LET a == Decide(p, w, sharing) IN
         \E m \in Lines : /\ m[1] = l[1] /\ p[m] \notin a \cup {NoText}
                          /\ p[m] = IF p[l] \in a THEN Target(p, w, l) ELSE p[l]
<1> DEFINE a == Decide(p, w, sharing)
<1>1. CASE p[l] \notin a
  BY <1>1
<1>2. CASE p[l] \in a
  <2>1. a = AliasedKeys(p, w)
    BY <1>2 DEF Decide
  <2>2. p[l] \in Short /\ Neighbours(p, w, l) # {} /\ a \subseteq Short
    BY <1>2, <2>1 DEF AliasedKeys, LinesOf
  <2>3. PICK m \in Neighbours(p, w, l) : Target(p, w, l) = p[m]
    BY <2>2, TargetIsNeighbour
  <2>4. m \in Lines /\ m[1] = l[1] /\ p[m] \in Keys /\ p[m] \notin Short
    BY <2>3 DEF Neighbours
  <2>5. p[m] \notin a \cup {NoText}
    BY <2>2, <2>4, NoTextAssumption
  <2> QED BY <1>2, <2>3, <2>4, <2>5
<1> QED BY <1>1, <1>2

\* Every line of a key that is no alias is recorded, by key and book.
LEMMA RecordsHave ==
  ASSUME NEW p \in Plans, NEW a, NEW l \in Lines, p[l] \notin a \cup {NoText}
  PROVE  \E r \in Records(p, a) : r.key = p[l] /\ r.book = l[1]
<1>1. LinesOf(p, p[l]) \subseteq Lines /\ l \in LinesOf(p, p[l])
  BY DEF LinesOf
<1>2. PICK m \in LinesOf(p, p[l]) :
        m[1] = l[1] /\ \A n \in LinesOf(p, p[l]) : n[1] = m[1] => m[2] <= n[2]
  BY <1>1, FirstLine
<1>3. m \in Lines /\ p[m] = p[l]
  BY <1>2 DEF LinesOf
<1>4. [key |-> p[m], book |-> m[1], hint |-> m[2]] \in Records(p, a)
  BY <1>2, <1>3 DEF Records
<1> QED BY <1>2, <1>3, <1>4

\* A record is of a line, under a text that is no alias.
LEMMA RecordsAre ==
  ASSUME NEW p \in Plans, NEW a, NEW r \in Records(p, a)
  PROVE  /\ r \in RecordType /\ r.key \notin a
         /\ \E l \in Lines : p[l] = r.key /\ l[1] = r.book /\ p[l] # NoText
<1>1. PICK l \in Lines : /\ p[l] \notin a \cup {NoText}
                         /\ r = [key |-> p[l], book |-> l[1], hint |-> l[2]]
  BY DEF Records
<1>2. p[l] \in Keys
  BY <1>1 DEF Plans
<1> QED BY <1>1, <1>2, LineParts DEF RecordType

\* A place: its anchor is its line's text.
LEMMA PlacesHave ==
  ASSUME NEW p \in Plans, NEW w, NEW a, NEW l \in Lines, p[l] # NoText
  PROVE  [key |-> IF p[l] \in a THEN Target(p, w, l) ELSE p[l],
          book |-> l[1], hint |-> l[2], anchor |-> p[l]] \in Places(p, w, a)
BY DEF Places

\* What a place says is of one line.
LEMMA PlacesAre ==
  ASSUME NEW p \in Plans, NEW w, NEW a, NEW r \in Places(p, w, a)
  PROVE  /\ \E l \in Lines : /\ p[l] = r.anchor /\ l[1] = r.book /\ l[2] = r.hint
                             /\ r = [key |-> r.key, book |-> l[1], hint |-> l[2], anchor |-> p[l]]
                             /\ r.key = IF p[l] \in a THEN Target(p, w, l) ELSE p[l]
         /\ r.anchor \in Keys /\ r.hint \in Nat /\ r.book \in Books
         /\ r.hint \in {l[2] : l \in Lines} /\ r.anchor # NoText
<1>1. PICK l \in Lines : /\ p[l] # NoText
                         /\ r = [key |-> IF p[l] \in a THEN Target(p, w, l) ELSE p[l],
                                 book |-> l[1], hint |-> l[2], anchor |-> p[l]]
  BY DEF Places
<1>2. p[l] \in Keys
  BY <1>1 DEF Plans
<1> QED BY <1>1, <1>2, LineParts

\* Places and records name the same keys in the same books.
LEMMA PlacesAndRecords ==
  ASSUME NEW p \in Plans, NEW w, NEW sharing
  PROVE  LET a == Decide(p, w, sharing) IN
         /\ \A r \in Places(p, w, a) :
              \E q \in Records(p, a) : q.key = r.key /\ q.book = r.book
         /\ \A q \in Records(p, a) :
              \E r \in Places(p, w, a) : r.key = q.key /\ r.book = q.book
<1> DEFINE a == Decide(p, w, sharing)
<1>1. ASSUME NEW r \in Places(p, w, a)
      PROVE  \E q \in Records(p, a) : q.key = r.key /\ q.book = r.book
  <2>1. PICK l \in Lines : /\ p[l] = r.anchor /\ l[1] = r.book /\ r.anchor # NoText
                           /\ r.key = IF p[l] \in a THEN Target(p, w, l) ELSE p[l]
    BY PlacesAre
  <2>2. PICK m \in Lines : /\ m[1] = l[1] /\ p[m] \notin a \cup {NoText}
                           /\ p[m] = IF p[l] \in a THEN Target(p, w, l) ELSE p[l]
    BY <2>1, PlacedUnder
  <2> HIDE DEF a
  <2> QED BY <2>1, <2>2, RecordsHave
<1>2. ASSUME NEW q \in Records(p, a)
      PROVE  \E r \in Places(p, w, a) : r.key = q.key /\ r.book = q.book
  <2> HIDE DEF a
  <2>1. PICK l \in Lines : p[l] = q.key /\ l[1] = q.book /\ p[l] # NoText /\ p[l] \notin a
    BY RecordsAre
  <2>2. [key |-> p[l], book |-> l[1], hint |-> l[2], anchor |-> p[l]] \in Places(p, w, a)
    BY <2>1, PlacesHave
  <2> QED BY <2>1, <2>2
<1> QED BY <1>1, <1>2

\* Lines alike in all but the hint are stored once, at the first of them.
LEMMA RowsHave ==
  ASSUME NEW P, \A r \in P : r.hint \in Nat, NEW r \in P
  PROVE  \E q \in Rows(P) : q.key = r.key /\ q.book = r.book /\ q.anchor = r.anchor
<1> DEFINE same == {q \in P : q.key = r.key /\ q.book = r.book /\ q.anchor = r.anchor}
           T == {q.hint : q \in same}
<1>1. T \subseteq Nat /\ T # {}
  OBVIOUS
<1>2. PICK t \in T : \A u \in T : t <= u
  BY <1>1, LeastOf
<1>3. PICK q \in same : t = q.hint
  BY <1>2
<1>4. q \in Rows(P)
  BY <1>2, <1>3 DEF Rows
<1> QED BY <1>3, <1>4

\* What is stored is some of the places.
LEMMA RowsAre == ASSUME NEW P PROVE Rows(P) \subseteq P
BY DEF Rows

\* A key's rows are those of its places.
LEMMA RowsByKey ==
  ASSUME NEW P, NEW Q, NEW k, RowsOf(P, k) = RowsOf(Q, k)
  PROVE  RowsOf(Rows(P), k) = RowsOf(Rows(Q), k)
<1>1. ASSUME NEW A, NEW B, RowsOf(A, k) = RowsOf(B, k), NEW r \in RowsOf(Rows(A), k)
      PROVE  r \in RowsOf(Rows(B), k)
  <2>1. r.key = k /\ \A q : q.key = k => (q \in A <=> q \in B)
    BY <1>1 DEF RowsOf, Rows
  <2> QED BY <1>1, <2>1 DEF RowsOf, Rows
<1> QED BY <1>1

\* What is stored already is stored again as it is.
LEMMA RowsOfRows == ASSUME NEW P PROVE Rows(Rows(P)) = Rows(P)
BY DEF Rows

-----------------------------------------------------------------------------
(* A warehouse that holds every text of a plan decides its places.           *)

\* A line has the neighbours and the target it has in any such warehouse.
LEMMA WholeNeighbours ==
  ASSUME NEW p \in Plans, NEW w, NEW v, TextsOf(p) \subseteq w, TextsOf(p) \subseteq v,
         NEW l \in Lines, p[l] # NoText
  PROVE  Neighbours(p, w, l) = Neighbours(p, v, l) /\ Target(p, w, l) = Target(p, v, l)
<1>1. \A m \in Lines : p[m] \in Keys => p[m] \in w /\ p[m] \in v
  BY NoTextAssumption DEF TextsOf
<1>2. p[l] \in w /\ p[l] \in v
  BY DEF TextsOf
<1>3. Neighbours(p, w, l) = Neighbours(p, v, l)
  BY <1>1, <1>2 DEF Neighbours
<1>4. PICK S : S = Neighbours(p, w, l)
  OBVIOUS
<1> QED BY <1>3, <1>4 DEF Target

\* And so a plan its aliases and its places: the release before is told again
\* by the warehouse of today as it was cut by the one of its day.
LEMMA WholePlaces ==
  ASSUME NEW p \in Plans, NEW w, NEW v, TextsOf(p) \subseteq w, TextsOf(p) \subseteq v,
         NEW sharing
  PROVE  /\ Decide(p, w, sharing) = Decide(p, v, sharing)
         /\ Places(p, w, Decide(p, w, sharing)) = Places(p, v, Decide(p, v, sharing))
<1>1. \A l \in Lines : p[l] # NoText =>
        Neighbours(p, w, l) = Neighbours(p, v, l) /\ Target(p, w, l) = Target(p, v, l)
  BY WholeNeighbours
<1>2. AliasedKeys(p, w) = AliasedKeys(p, v)
  BY <1>1 DEF AliasedKeys, LinesOf, TextsOf
<1>3. PICK a : a = Decide(p, w, sharing) /\ a = Decide(p, v, sharing)
  BY <1>2 DEF Decide
<1>4. Places(p, w, a) = Places(p, v, a)
  BY <1>1 DEF Places
<1> QED BY <1>3, <1>4

-----------------------------------------------------------------------------
(* What a device makes of a delta.                                           *)

Gone(segment) == segment.tombstones \cup KeysOf(segment.own)
Older(d, segment) ==
  [i \in DOMAIN d |->
     Derived(d[i].segment, d[i].deleted \cup (KeysOf(d[i].segment.own) \cap Gone(segment)),
             d[i].links)]
Holders(d, segment, r) == {i \in DOMAIN d : r.key \in LiveKeys(Older(d, segment), i)}
LinksTo(d, segment) ==
  [r \in segment.foreign |-> IF Holders(d, segment, r) = {} THEN 0
                             ELSE Max(Holders(d, segment, r))]

\* A device that took a delta: its older slices, and one that is new.
LEMMA PushParts ==
  ASSUME NEW d, IsSequence(d), NEW segment
  PROVE  LET e == Push(d, segment) IN
         /\ IsSequence(e) /\ Len(e) = Len(d) + 1
         /\ \A i \in DOMAIN d : e[i] = Older(d, segment)[i]
         /\ e[Len(d) + 1] = Derived(segment, {}, LinksTo(d, segment))
<1> DEFINE new == Derived(segment, {}, LinksTo(d, segment))
           S == {Older(d, segment)[i] : i \in DOMAIN d} \cup {new}
<1>1. Push(d, segment) = Append(Older(d, segment), new)
  BY DEF Push, Older, LinksTo, Holders, Gone
<1>2. Older(d, segment) \in Seq(S) /\ new \in S /\ Len(Older(d, segment)) = Len(d)
  <2>1. PICK n \in Nat : n = Len(d)
    BY DEF IsSequence
  <2>2. PICK f : f = Older(d, segment)
    OBVIOUS
  <2>3. DOMAIN f = 1..n /\ f = [i \in 1..n |-> f[i]] /\ \A i \in 1..n : f[i] \in S
    BY <2>1, <2>2 DEF IsSequence, Older
  <2> HIDE DEF S, new
  <2>4. f \in [1..n -> S]
    BY <2>3
  <2>5. f \in Seq(S) /\ Len(f) = n
    BY <2>4, <2>3, SeqDef, LenProperties
  <2> QED BY <2>1, <2>2, <2>5 DEF S
<1>3. PICK f : f = Older(d, segment)
  OBVIOUS
<1> HIDE DEF S, new
<1>4. /\ Append(f, new) \in Seq(S) /\ Len(Append(f, new)) = Len(f) + 1
      /\ \A i \in 1..Len(f) : Append(f, new)[i] = f[i]
      /\ Append(f, new)[Len(f) + 1] = new
  BY <1>2, <1>3, AppendProperties
<1>5. IsSequence(Append(f, new))
  BY <1>4, LenProperties DEF IsSequence
<1> QED BY <1>1, <1>2, <1>3, <1>4, <1>5 DEF IsSequence, new

\* Of an older segment a delta deletes what it ships again and what it buries.
LEMMA OlderParts ==
  ASSUME NEW d, NEW segment, NEW i \in DOMAIN d
  PROVE  /\ Older(d, segment)[i].segment = d[i].segment
         /\ Older(d, segment)[i].links = d[i].links
         /\ Older(d, segment)[i].deleted
              = d[i].deleted \cup (KeysOf(d[i].segment.own) \cap Gone(segment))
         /\ LiveKeys(Older(d, segment), i) = LiveKeys(d, i) \ Gone(segment)
BY DEF Older, Derived, LiveKeys

\* What a device of one segment holds.
LEMMA OneParts ==
  ASSUME NEW s
  PROVE  LET d == <<Derived(s, {}, NoLinks)>> IN
         /\ IsSequence(d) /\ Len(d) = 1 /\ DOMAIN d = {1}
         /\ d[1].segment = s /\ d[1].deleted = {} /\ d[1].links = NoLinks
         /\ LiveKeys(d, 1) = KeysOf(s.own) /\ Live(d) = KeysOf(s.own)
<1> DEFINE d == <<Derived(s, {}, NoLinks)>>
<1>1. Len(d) = 1 /\ DOMAIN d = 1..1 /\ 1..1 = {1} /\ d[1] = Derived(s, {}, NoLinks)
  OBVIOUS
<1>2. d[1].segment = s /\ d[1].deleted = {} /\ d[1].links = NoLinks
  BY <1>1 DEF Derived
<1>3. LiveKeys(d, 1) = KeysOf(s.own)
  BY <1>2 DEF LiveKeys
<1> HIDE DEF d
<1>4. Live(d) = KeysOf(s.own)
  BY <1>1, <1>3 DEF Live
<1> QED BY <1>1, <1>2, <1>3, <1>4 DEF IsSequence, d

-----------------------------------------------------------------------------
(* What a delta ships, and what a device that takes it holds.                *)

\* A key of records is the key of some record.
LEMMA KeyIn == ASSUME NEW R, NEW k PROVE k \in KeysOf(R) <=> \E r \in R : r.key = k
BY DEF KeysOf

\* A live key is live in some segment.
LEMMA LiveIn ==
  ASSUME NEW d, NEW k
  PROVE  k \in Live(d) <=> \E i \in DOMAIN d : k \in LiveKeys(d, i)
BY DEF Live

\* What is neither shipped nor named foreign was held, and stays.
LEMMA DeltaParts ==
  ASSUME NEW old, NEW p \in Plans, NEW w, NEW a, NEW snapshots
  PROVE  LET delta == Delta(old, p, w, a, snapshots)
             records == Records(p, a)
         IN /\ delta.own = {r \in records : r.key \notin old.keys}
            /\ delta.foreign \subseteq {r \in records : r.key \in old.keys}
            /\ delta.tombstones = old.keys \ KeysOf(records)
            /\ KeysOf(delta.own) = KeysOf(records) \ old.keys
            /\ \A k \in old.keys : k \in Gone(delta) <=> k \notin KeysOf(records)
            /\ \A r \in records : r.key \in old.keys /\ <<r.book, r.key>> \notin old.pairs
                                    => r \in delta.foreign
<1> DEFINE delta == Delta(old, p, w, a, snapshots)
           records == Records(p, a)
           held == {r \in records : r.key \in old.keys}
<1>1. /\ delta.own = records \ held /\ delta.tombstones = old.keys \ KeysOf(records)
      /\ delta.foreign \subseteq held
      /\ \A r \in held : PairOf(r) \notin old.pairs => r \in delta.foreign
  BY DEF Delta, Segment
<1> HIDE DEF delta, records
<1>2. KeysOf(delta.own) = KeysOf(records) \ old.keys
  BY <1>1 DEF KeysOf
<1>3. \A k \in old.keys : k \in Gone(delta) <=> k \notin KeysOf(records)
  BY <1>1, <1>2 DEF Gone
<1>4. delta.own = {r \in records : r.key \notin old.keys}
  BY <1>1
<1>5. \A r \in records : r.key \in old.keys /\ <<r.book, r.key>> \notin old.pairs
                           => r \in delta.foreign
  BY <1>1 DEF PairOf
<1> QED BY <1>1, <1>2, <1>3, <1>4, <1>5 DEF delta, records

\* The keys whose places changed come with their rows and all their records.
LEMMA DeltaRows ==
  ASSUME NEW old, NEW p \in Plans, NEW w, NEW a, NEW snapshots
  PROVE  LET delta == Delta(old, p, w, a, snapshots)
             changed == IF ~snapshots THEN {} ELSE IF old.plan = NoText THEN Keys
                        ELSE Changed(old, Places(p, w, a), w)
         IN /\ delta.rows = Rows({r \in Places(p, w, a) : r.key \in changed})
            /\ \A r \in Records(p, a) :
                 r.key \in old.keys /\ r.key \in changed => r \in delta.foreign
BY DEF Delta, Segment

\* A delta is one a reader takes.
LEMMA DeltaOK ==
  ASSUME NEW old, old.keys \subseteq Keys, NEW p \in Plans, NEW w, NEW sharing, NEW snapshots
  PROVE  SegmentOK(Delta(old, p, w, Decide(p, w, sharing), snapshots))
<1> DEFINE a == Decide(p, w, sharing)
           delta == Delta(old, p, w, a, snapshots)
           changed == IF ~snapshots THEN {} ELSE IF old.plan = NoText THEN Keys
                      ELSE Changed(old, Places(p, w, a), w)
<1>1. /\ delta.own = {r \in Records(p, a) : r.key \notin old.keys}
      /\ delta.foreign \subseteq Records(p, a)
      /\ delta.tombstones \subseteq Keys
  BY DeltaParts
<1>2. /\ delta.rows = Rows({r \in Places(p, w, a) : r.key \in changed})
      /\ \A r \in Records(p, a) : r.key \in old.keys /\ r.key \in changed => r \in delta.foreign
  BY DeltaRows
<1>3. Records(p, a) \subseteq RecordType
  BY RecordsAre
<1>4. ASSUME NEW r \in delta.rows
      PROVE  /\ [key |-> r.key, book |-> r.book, hint |-> r.hint] \in RecordType
             /\ r.anchor \in Keys
             /\ <<r.book, r.key>> \in {PairOf(q) : q \in delta.own \cup delta.foreign}
  <2>1. r \in Places(p, w, a) /\ r.key \in changed
    BY <1>2, RowsAre
  <2>2. PICK q \in Records(p, a) : q.key = r.key /\ q.book = r.book
    BY <2>1, PlacesAndRecords
  <2> HIDE DEF a, delta, changed
  <2>3. r.anchor \in Keys /\ r.book \in Books /\ r.hint \in {l[2] : l \in Lines}
    BY <2>1, PlacesAre
  <2>4. r.key \in Keys
    BY <1>3, <2>2 DEF RecordType
  <2>5. q \in delta.own \cup delta.foreign
    BY <1>1, <1>2, <2>1, <2>2
  <2>6. PairOf(q) = <<r.book, r.key>>
    BY <2>2 DEF PairOf
  <2> QED BY <2>3, <2>4, <2>5, <2>6 DEF RecordType
<1> HIDE DEF a, delta, changed
<1>5. SegmentOK(delta)
  BY <1>1, <1>3, <1>4 DEF SegmentOK
<1> QED BY <1>5 DEF a, delta

\* Each foreign record finds the slot that holds its key.
LEMMA LinkFinds ==
  ASSUME NEW d, IsSequence(d), NEW segment, NEW r \in segment.foreign,
         r.key \in Live(d), r.key \notin Gone(segment)
  PROVE  /\ LinksTo(d, segment)[r] \in DOMAIN d
         /\ r.key \in LiveKeys(Older(d, segment), LinksTo(d, segment)[r])
<1>1. PICK n \in Nat : n = Len(d) /\ DOMAIN d = 1..n
  BY DEF IsSequence
<1>2. Holders(d, segment, r) \subseteq 1..n
  BY <1>1 DEF Holders
<1>3. PICK i \in DOMAIN d : r.key \in LiveKeys(d, i)
  BY LiveIn
<1>4. i \in Holders(d, segment, r)
  BY <1>3, OlderParts DEF Holders
<1>5. Max(Holders(d, segment, r)) \in Holders(d, segment, r)
  BY <1>2, <1>4, GreatestOf
<1>6. LinksTo(d, segment)[r] = Max(Holders(d, segment, r))
  BY <1>4 DEF LinksTo
<1> QED BY <1>5, <1>6 DEF Holders

\* A device that takes a delta of keys it holds is one a reader takes.
LEMMA PushWellMade ==
  ASSUME NEW d, WellMade(d), NEW segment, SegmentOK(segment),
         KeysOf(segment.own) \cap KeysOf(segment.foreign) = {},
         \A r \in segment.foreign : r.key \in Live(d) /\ r.key \notin Gone(segment)
  PROVE  WellMade(Push(d, segment))
<1>1. PICK n \in Nat : n = Len(d) /\ DOMAIN d = 1..n
  BY DEF WellMade, IsSequence
<1>2. PICK e : e = Push(d, segment)
  OBVIOUS
<1>3. /\ IsSequence(e) /\ DOMAIN e = 1..(n + 1)
      /\ \A i \in 1..n : e[i] = Older(d, segment)[i]
      /\ e[n + 1] = Derived(segment, {}, LinksTo(d, segment))
  BY <1>1, <1>2, PushParts DEF WellMade, IsSequence
<1>4. \A i \in 1..n : /\ e[i].segment = d[i].segment /\ e[i].links = d[i].links
                      /\ e[i].deleted = d[i].deleted
                           \cup (KeysOf(d[i].segment.own) \cap Gone(segment))
  BY <1>1, <1>3, OlderParts
<1>5. ASSUME NEW i \in 1..n PROVE SliceOK(e, i)
  <2>1. SliceOK(d, i)
    BY <1>1 DEF WellMade
  <2>2. \A j \in 1..(i - 1) : j \in 1..n
    OBVIOUS
  <2> QED BY <1>4, <2>1, <2>2 DEF SliceOK
<1>6. SliceOK(e, n + 1)
  <2>1. /\ e[n + 1].segment = segment /\ e[n + 1].deleted = {}
        /\ e[n + 1].links = LinksTo(d, segment)
    BY <1>3 DEF Derived
  <2>2. DOMAIN LinksTo(d, segment) = segment.foreign
    BY DEF LinksTo
  <2>3. ASSUME NEW r \in segment.foreign
        PROVE  /\ LinksTo(d, segment)[r] \in 1..(n + 1 - 1)
               /\ r.key \in KeysOf(e[LinksTo(d, segment)[r]].segment.own)
    <3>1. PICK j : j = LinksTo(d, segment)[r]
      OBVIOUS
    <3>2. j \in DOMAIN d /\ r.key \in LiveKeys(Older(d, segment), j)
      BY <3>1, LinkFinds DEF WellMade
    <3>3. r.key \in KeysOf(e[j].segment.own)
      BY <1>1, <1>4, <3>2, OlderParts DEF LiveKeys
    <3> QED BY <1>1, <3>1, <3>2, <3>3
  <2> QED BY <2>1, <2>2, <2>3 DEF SliceOK
<1> QED BY <1>2, <1>3, <1>5, <1>6 DEF WellMade

\* The delta's own keys are live in it, and each older key in the slot it was in.
LEMMA PushLive ==
  ASSUME NEW d, IsSequence(d), NEW segment
  PROVE  LET e == Push(d, segment) IN
         /\ \A i \in DOMAIN d : LiveKeys(e, i) = LiveKeys(d, i) \ Gone(segment)
         /\ LiveKeys(e, Len(d) + 1) = KeysOf(segment.own)
         /\ DOMAIN e = DOMAIN d \cup {Len(d) + 1} /\ Len(d) + 1 \notin DOMAIN d
<1> DEFINE e == Push(d, segment)
<1>1. PICK n \in Nat : n = Len(d) /\ DOMAIN d = 1..n
  BY DEF IsSequence
<1>2. /\ DOMAIN e = 1..(n + 1)
      /\ \A i \in 1..n : e[i] = Older(d, segment)[i]
      /\ e[n + 1] = Derived(segment, {}, LinksTo(d, segment))
  BY <1>1, PushParts DEF IsSequence
<1>3. \A i \in 1..n : LiveKeys(e, i) = LiveKeys(Older(d, segment), i)
  BY <1>2 DEF LiveKeys
<1>4. LiveKeys(e, n + 1) = KeysOf(segment.own)
  BY <1>2 DEF LiveKeys, Derived
<1>5. 1..(n + 1) = 1..n \cup {n + 1} /\ n + 1 \notin 1..n
  OBVIOUS
<1> QED BY <1>1, <1>2, <1>3, <1>4, <1>5, OlderParts

\* After a delta the keys of the new ledger are live, each in one slot.
LEMMA PushExact ==
  ASSUME NEW d, IsSequence(d), NEW old, Exact(d, old.keys), NEW segment, NEW ks,
         KeysOf(segment.own) = ks \ old.keys,
         \A k \in old.keys : k \in Gone(segment) <=> k \notin ks
  PROVE  Exact(Push(d, segment), ks)
<1>1. PICK e : e = Push(d, segment)
  OBVIOUS
<1>2. PICK m : m = Len(d) + 1
  OBVIOUS
<1>3. /\ \A i \in DOMAIN d : LiveKeys(e, i) = LiveKeys(d, i) \ Gone(segment)
      /\ LiveKeys(e, m) = ks \ old.keys
      /\ DOMAIN e = DOMAIN d \cup {m} /\ m \notin DOMAIN d
  <2>1. /\ \A i \in DOMAIN d : LiveKeys(e, i) = LiveKeys(d, i) \ Gone(segment)
        /\ LiveKeys(e, Len(d) + 1) = KeysOf(segment.own)
        /\ DOMAIN e = DOMAIN d \cup {Len(d) + 1} /\ Len(d) + 1 \notin DOMAIN d
    BY <1>1, PushLive
  <2> QED BY <1>2, <2>1
<1>4. \A i \in DOMAIN d : LiveKeys(d, i) \subseteq old.keys
  BY LiveIn DEF Exact
<1>5. ASSUME NEW k PROVE k \in Live(e) <=> k \in ks
  <2>1. k \in Live(e) <=> \E i \in DOMAIN e : k \in LiveKeys(e, i)
    BY LiveIn
  <2>2. k \in old.keys <=> \E i \in DOMAIN d : k \in LiveKeys(d, i)
    BY LiveIn DEF Exact
  <2> QED BY <1>3, <1>4, <2>1, <2>2
<1>6. \A i, j \in DOMAIN e : i # j => LiveKeys(e, i) \cap LiveKeys(e, j) = {}
  BY <1>3, <1>4 DEF Exact
<1> QED BY <1>1, <1>5, <1>6 DEF Exact

\* What is told of a key after a delta: by the delta, if it has rows of it.
LEMMA PushTelling ==
  ASSUME NEW d, IsSequence(d), NEW segment, NEW e, e = Push(d, segment), NEW k
  PROVE  /\ (\E r \in segment.rows : r.key = k) =>
              Telling(e, k) # {} /\ Newest(e, k) = RowsOf(segment.rows, k)
         /\ ~(\E r \in segment.rows : r.key = k) =>
              Telling(e, k) = Telling(d, k)
              /\ (Telling(d, k) # {} => Newest(e, k) = Newest(d, k))
<1>1. PICK n \in Nat : n = Len(d) /\ DOMAIN d = 1..n
  BY DEF IsSequence
<1>2. /\ DOMAIN e = 1..(n + 1)
      /\ \A i \in 1..n : e[i].segment = d[i].segment
      /\ e[n + 1].segment = segment
  <2>1. /\ DOMAIN e = 1..(n + 1)
        /\ \A i \in 1..n : e[i] = Older(d, segment)[i]
        /\ e[n + 1] = Derived(segment, {}, LinksTo(d, segment))
    BY <1>1, PushParts DEF IsSequence
  <2>2. e[n + 1].segment = segment
    BY <2>1 DEF Derived
  <2> QED BY <1>1, <2>1, <2>2, OlderParts
<1>3. CASE \E r \in segment.rows : r.key = k
  <2>1. n + 1 \in Telling(e, k) /\ Telling(e, k) \subseteq 1..(n + 1)
    BY <1>2, <1>3 DEF Telling
  <2>2. \A i \in Telling(e, k) : n + 1 >= i
    BY <2>1
  <2>3. Max(Telling(e, k)) = n + 1
    BY <2>1, <2>2, GreatestIs
  <2> QED BY <1>2, <1>3, <2>1, <2>3 DEF Newest
<1>4. CASE ~(\E r \in segment.rows : r.key = k)
  <2>1. Telling(e, k) = Telling(d, k) /\ Telling(d, k) \subseteq 1..n
    BY <1>1, <1>2, <1>4 DEF Telling
  <2>2. Telling(d, k) # {} => Max(Telling(d, k)) \in 1..n
    BY <2>1, GreatestOf
  <2> QED BY <1>2, <1>4, <2>1, <2>2 DEF Newest
<1> QED BY <1>3, <1>4

\* What a book records, some segment does.
LEMMA RecordedIn ==
  ASSUME NEW d, NEW b, NEW k
  PROVE  k \in Recorded(d, b) <=> \E i \in DOMAIN d : \E q \in Fresh(d, i, b) : q.key = k
BY DEF Recorded, KeysOf

\* A delta leaves a live record of each key in each of its books: its own, or
\* a foreign one that leads to a live slot, or the one that was there.
LEMMA PushLists ==
  ASSUME NEW d, WellMade(d), NEW old, Exact(d, old.keys), Lists(d, old.pairs),
         NEW p \in Plans, NEW w, NEW a, NEW snapshots
  PROVE  Lists(Push(d, Delta(old, p, w, a, snapshots)), {PairOf(r) : r \in Records(p, a)})
<1>1. PICK segment : segment = Delta(old, p, w, a, snapshots)
  OBVIOUS
<1>2. PICK e : e = Push(d, segment)
  OBVIOUS
<1>3. PICK n \in Nat : n = Len(d) /\ DOMAIN d = 1..n
  BY DEF WellMade, IsSequence
<1>4. /\ DOMAIN e = 1..(n + 1)
      /\ \A i \in 1..n : e[i] = Older(d, segment)[i]
      /\ e[n + 1] = Derived(segment, {}, LinksTo(d, segment))
  BY <1>2, <1>3, PushParts DEF WellMade, IsSequence
<1>5. \A i \in 1..n : /\ e[i].segment = d[i].segment /\ e[i].links = d[i].links
                      /\ e[i].deleted = d[i].deleted
                           \cup (KeysOf(d[i].segment.own) \cap Gone(segment))
  BY <1>3, <1>4, OlderParts
<1>6. /\ e[n + 1].segment = segment /\ e[n + 1].deleted = {}
      /\ e[n + 1].links = LinksTo(d, segment)
  BY <1>4 DEF Derived
<1>7. /\ segment.own = {r \in Records(p, a) : r.key \notin old.keys}
      /\ \A k \in old.keys : k \in Gone(segment) <=> k \notin KeysOf(Records(p, a))
      /\ \A r \in Records(p, a) : r.key \in old.keys /\ <<r.book, r.key>> \notin old.pairs
                                    => r \in segment.foreign
  BY <1>1, DeltaParts
<1>8. ASSUME NEW r \in Records(p, a) PROVE r.key \in Recorded(e, r.book)
  <2>1. CASE r.key \notin old.keys
    <3>1. r \in Fresh(e, n + 1, r.book)
      BY <1>6, <1>7, <2>1 DEF Fresh
    <3>2. n + 1 \in DOMAIN e
      BY <1>4
    <3> QED BY <3>1, <3>2, RecordedIn
  <2>2. CASE r.key \in old.keys /\ <<r.book, r.key>> \notin old.pairs
    <3>1. r \in segment.foreign /\ r.key \in Live(d) /\ r.key \notin Gone(segment)
      BY <1>7, <2>2, KeyIn DEF Exact
    <3>2. PICK j : j = LinksTo(d, segment)[r]
      OBVIOUS
    <3>3. j \in 1..n /\ r.key \in LiveKeys(Older(d, segment), j)
      BY <1>3, <3>1, <3>2, LinkFinds DEF WellMade
    <3>4. j # 0 /\ r.key \notin e[j].deleted
      BY <1>4, <3>3 DEF LiveKeys
    <3>5. r \in Fresh(e, n + 1, r.book)
      BY <1>6, <3>1, <3>2, <3>4 DEF Fresh
    <3>6. n + 1 \in DOMAIN e
      BY <1>4
    <3> QED BY <3>5, <3>6, RecordedIn
  <2>3. CASE r.key \in old.keys /\ <<r.book, r.key>> \in old.pairs
    <3>1. r.key \in Recorded(d, r.book)
      BY <2>3 DEF Lists
    <3>2. PICK i \in 1..n : \E q \in Fresh(d, i, r.book) : q.key = r.key
      BY <1>3, <3>1, RecordedIn
    <3>3. PICK q \in Fresh(d, i, r.book) : q.key = r.key
      BY <3>2
    <3>4. r.key \notin Gone(segment)
      BY <1>7, <2>3, KeyIn
    <3>5. SliceOK(d, i)
      BY <1>3 DEF WellMade
    <3>6. q \in Fresh(e, i, r.book)
      <4>1. CASE q \in d[i].segment.own /\ q.book = r.book /\ q.key \notin d[i].deleted
        BY <1>5, <3>3, <3>4, <4>1 DEF Fresh
      <4>2. CASE /\ q \in d[i].segment.foreign /\ q.book = r.book
                 /\ d[i].links[q] # 0 /\ q.key \notin d[d[i].links[q]].deleted
        <5>1. d[i].links[q] \in 1..n
          BY <3>5, <4>2 DEF SliceOK
        <5>2. q.key \notin e[d[i].links[q]].deleted
          BY <1>5, <3>3, <3>4, <4>2, <5>1
        <5> QED BY <1>5, <4>2, <5>2 DEF Fresh
      <4> QED BY <3>3, <4>1, <4>2 DEF Fresh
    <3>7. i \in DOMAIN e
      BY <1>4
    <3> QED BY <3>3, <3>6, <3>7, RecordedIn
  <2> QED BY <2>1, <2>2, <2>3
<1>9. ASSUME NEW pair \in {PairOf(r) : r \in Records(p, a)}
      PROVE  pair[2] \in Recorded(e, pair[1])
  BY <1>8 DEF PairOf
<1> QED BY <1>1, <1>2, <1>9 DEF Lists

\* After a delta the newest snapshot of each key tells its places of the plan:
\* a changed key's is the delta's, and an unchanged one's says so already.
LEMMA PushTells ==
  ASSUME NEW d, IsSequence(d), NEW old, NEW p \in Plans, NEW w, NEW sharing,
         NEW snapshots, snapshots,
         NEW b, b = Decide(old.plan, w, old.sharing),
         old.plan # NoText =>
           /\ old.plan \in Plans /\ old.keys = KeysOf(Records(old.plan, b))
           /\ Tells(d, old.keys, Rows(Places(old.plan, w, b)))
  PROVE  LET a == Decide(p, w, sharing) IN
         Tells(Push(d, Delta(old, p, w, a, snapshots)), KeysOf(Records(p, a)),
               Rows(Places(p, w, a)))
<1> DEFINE a == Decide(p, w, sharing)
<1>1. PICK P : P = Places(p, w, a)
  OBVIOUS
<1>2. PICK B : B = Places(old.plan, w, b)
  OBVIOUS
<1>3. PICK changed : changed = IF old.plan = NoText THEN Keys ELSE Changed(old, P, w)
  OBVIOUS
<1>4. PICK segment : segment = Delta(old, p, w, a, snapshots)
  OBVIOUS
<1>5. PICK C : C = {r \in P : r.key \in changed}
  OBVIOUS
<1>6. segment.rows = Rows(C)
  <2>1. segment.rows = Rows({r \in P : r.key \in changed})
    BY <1>1, <1>3, <1>4 DEF Delta, Segment
  <2> QED BY <1>5, <2>1
<1>7. \A r \in P : r.hint \in Nat
  BY <1>1, PlacesAre
<1>8. PICK e : e = Push(d, segment)
  OBVIOUS
<1>9. ASSUME NEW k \in KeysOf(Records(p, a))
      PROVE  Telling(e, k) # {} /\ Newest(e, k) = RowsOf(Rows(P), k)
  <2>1. PICK q \in Records(p, a) : q.key = k
    BY KeyIn
  <2>2. k \in Keys
    BY <2>1, RecordsAre DEF RecordType
  <2>3. PICK r \in P : r.key = k
    BY <1>1, <2>1, PlacesAndRecords
  <2>4. CASE k \in changed
    <3>1. r \in C /\ C \subseteq P
      BY <1>5, <2>3, <2>4
    <3>2. \E s \in Rows(C) : s.key = r.key
      <4>1. \A s \in C : s.hint \in Nat
        BY <1>7, <3>1
      <4> QED BY <3>1, <4>1, RowsHave
    <3>3. RowsOf(C, k) = RowsOf(P, k)
      BY <1>5, <2>4 DEF RowsOf
    <3>4. RowsOf(Rows(C), k) = RowsOf(Rows(P), k)
      BY <3>3, RowsByKey
    <3>5. \E s \in segment.rows : s.key = k
      BY <1>6, <2>3, <3>2
    <3>6. Telling(e, k) # {} /\ Newest(e, k) = RowsOf(segment.rows, k)
      BY <1>8, <3>5, PushTelling
    <3> QED BY <1>6, <3>4, <3>6
  <2>5. CASE k \notin changed
    <3>1. old.plan # NoText /\ k \notin Changed(old, P, w)
      BY <1>3, <2>2, <2>5
    <3>2. RowsOf(P, k) = RowsOf(B, k)
      BY <1>2, <2>2, <3>1 DEF Changed, RowsOf
    <3>3. r \in B
      BY <2>3, <3>2 DEF RowsOf
    <3>4. k \in old.keys
      BY <1>2, <2>3, <3>1, <3>3, PlacesAndRecords, KeyIn
    <3>5. Telling(d, k) # {} /\ Newest(d, k) = RowsOf(Rows(B), k)
      BY <1>2, <3>1, <3>4 DEF Tells
    <3>6. ~(\E s \in segment.rows : s.key = k)
      BY <1>5, <1>6, <2>5, RowsAre
    <3>7. Telling(e, k) = Telling(d, k) /\ Newest(e, k) = Newest(d, k)
      BY <1>8, <3>5, <3>6, PushTelling
    <3>8. RowsOf(Rows(P), k) = RowsOf(Rows(B), k)
      BY <3>2, RowsByKey
    <3> QED BY <3>5, <3>7, <3>8
  <2> QED BY <2>4, <2>5
<1> QED BY <1>1, <1>4, <1>8, <1>9 DEF Tells

-----------------------------------------------------------------------------
(* A base, a publication and an installation.                                *)

\* A device of one segment, with nothing foreign.
LEMMA OneAnswers ==
  ASSUME NEW s, SegmentOK(s), s.foreign = {}
  PROVE  LET d == <<Derived(s, {}, NoLinks)>> IN
         /\ WellMade(d) /\ Exact(d, KeysOf(s.own)) /\ Lists(d, {PairOf(r) : r \in s.own})
         /\ \A b : Fresh(d, 1, b) = {r \in s.own : r.book = b}
         /\ \A k : (\E r \in s.rows : r.key = k) =>
                      Telling(d, k) # {} /\ Newest(d, k) = RowsOf(s.rows, k)
<1>1. PICK d : d = <<Derived(s, {}, NoLinks)>>
  OBVIOUS
<1>2. /\ IsSequence(d) /\ DOMAIN d = {1} /\ d[1].segment = s /\ d[1].deleted = {}
      /\ d[1].links = NoLinks /\ Live(d) = KeysOf(s.own)
  BY <1>1, OneParts
<1>3. SliceOK(d, 1)
  <2>1. KeysOf(s.own) \cap KeysOf(s.foreign) = {}
    BY DEF KeysOf
  <2>2. DOMAIN NoLinks = {}
    BY DEF NoLinks
  <2> QED BY <1>2, <2>1, <2>2 DEF SliceOK
<1>4. WellMade(d)
  BY <1>2, <1>3 DEF WellMade
<1>5. Exact(d, KeysOf(s.own))
  BY <1>2 DEF Exact
<1>6. \A b : Fresh(d, 1, b) = {r \in s.own : r.book = b}
  BY <1>2 DEF Fresh
<1>7. Lists(d, {PairOf(r) : r \in s.own})
  <2>1. ASSUME NEW r \in s.own PROVE r.key \in Recorded(d, r.book)
    BY <1>2, <1>6, RecordedIn
  <2> QED BY <2>1 DEF Lists, PairOf
<1>8. ASSUME NEW k, \E r \in s.rows : r.key = k
      PROVE  Telling(d, k) # {} /\ Newest(d, k) = RowsOf(s.rows, k)
  <2>1. 1 \in Telling(d, k) /\ Telling(d, k) \subseteq 1..1
    BY <1>2, <1>8 DEF Telling
  <2>2. Max(Telling(d, k)) = 1
    BY <2>1, GreatestIs
  <2> QED BY <1>2, <2>1, <2>2 DEF Newest
<1> QED BY <1>1, <1>4, <1>5, <1>6, <1>7, <1>8

\* A base is one a reader takes, and a device of it alone answers.
LEMMA BaseAnswers ==
  ASSUME NEW p \in Plans, NEW w, NEW sharing, NEW a, a = Decide(p, w, sharing),
         NEW snapshots
  PROVE  LET s == Base(p, w, a, snapshots)
             d == <<Derived(s, {}, NoLinks)>>
         IN /\ SegmentOK(s)
            /\ WellMade(d) /\ Exact(d, KeysOf(Records(p, a)))
            /\ Lists(d, {PairOf(r) : r \in Records(p, a)})
            /\ snapshots => Tells(d, KeysOf(Records(p, a)), Rows(Places(p, w, a)))
            /\ ~snapshots => Bare(d)
<1>1. PICK P : P = Places(p, w, a)
  OBVIOUS
<1>2. PICK s : s = Base(p, w, a, snapshots)
  OBVIOUS
<1>3. /\ s.own = Records(p, a) /\ s.foreign = {} /\ s.tombstones = {}
      /\ s.rows = IF snapshots THEN Rows(P) ELSE {}
  BY <1>1, <1>2 DEF Base, Segment
<1>4. Records(p, a) \subseteq RecordType
  BY RecordsAre
<1>5. ASSUME NEW r \in s.rows
      PROVE  /\ [key |-> r.key, book |-> r.book, hint |-> r.hint] \in RecordType
             /\ r.anchor \in Keys
             /\ <<r.book, r.key>> \in {PairOf(q) : q \in s.own \cup s.foreign}
  <2>1. r \in P
    BY <1>3, RowsAre
  <2>2. PICK q \in Records(p, a) : q.key = r.key /\ q.book = r.book
    BY <1>1, <2>1, PlacesAndRecords
  <2>3. r.anchor \in Keys /\ r.book \in Books /\ r.hint \in {l[2] : l \in Lines}
    BY <1>1, <2>1, PlacesAre
  <2>4. r.key \in Keys
    BY <1>4, <2>2 DEF RecordType
  <2>5. PairOf(q) = <<r.book, r.key>>
    BY <2>2 DEF PairOf
  <2> QED BY <1>3, <2>2, <2>3, <2>4, <2>5 DEF RecordType
<1>6. SegmentOK(s)
  BY <1>3, <1>4, <1>5 DEF SegmentOK
<1>7. PICK d : d = <<Derived(s, {}, NoLinks)>>
  OBVIOUS
<1>8. ASSUME snapshots PROVE Tells(d, KeysOf(Records(p, a)), Rows(P))
  <2>1. ASSUME NEW k \in KeysOf(Records(p, a))
        PROVE  Telling(d, k) # {} /\ Newest(d, k) = RowsOf(Rows(P), k)
    <3>1. PICK q \in Records(p, a) : q.key = k
      BY KeyIn
    <3>2. PICK r \in P : r.key = k
      BY <1>1, <3>1, PlacesAndRecords
    <3>3. \A r1 \in P : r1.hint \in Nat
      BY <1>1, PlacesAre
    <3>4. \E r1 \in Rows(P) : r1.key = k
      BY <3>2, <3>3, RowsHave
    <3>5. s.rows = Rows(P)
      BY <1>3, <1>8
    <3> QED BY <1>3, <1>6, <1>7, <3>4, <3>5, OneAnswers
  <2> QED BY <2>1 DEF Tells
<1>9. /\ WellMade(d) /\ Exact(d, KeysOf(Records(p, a)))
      /\ Lists(d, {PairOf(r) : r \in Records(p, a)})
  BY <1>3, <1>6, <1>7, OneAnswers
<1>10. ASSUME ~snapshots PROVE Bare(d)
  <2>1. DOMAIN d = {1} /\ d[1].segment = s
    BY <1>7, OneParts
  <2> QED BY <1>3, <1>10, <2>1 DEF Bare
<1> QED BY <1>1, <1>2, <1>6, <1>7, <1>8, <1>9, <1>10

\* A device that answers for a ledger, and takes the delta cut against it,
\* answers for the next one.
LEMMA PushAnswers ==
  ASSUME NEW d, WellMade(d), NEW old, old.keys \subseteq Keys, Exact(d, old.keys),
         Lists(d, old.pairs), NEW p \in Plans, NEW w, NEW sharing,
         NEW a, a = Decide(p, w, sharing),
         NEW snapshots, NEW b, b = Decide(old.plan, w, old.sharing),
         old.plan # NoText =>
           /\ old.plan \in Plans /\ old.keys = KeysOf(Records(old.plan, b))
           /\ Tells(d, old.keys, Rows(Places(old.plan, w, b)))
  PROVE  LET e == Push(d, Delta(old, p, w, a, snapshots)) IN
         /\ WellMade(e) /\ Exact(e, KeysOf(Records(p, a)))
         /\ Lists(e, {PairOf(r) : r \in Records(p, a)})
         /\ snapshots => Tells(e, KeysOf(Records(p, a)), Rows(Places(p, w, a)))
         /\ ~snapshots /\ Bare(d) => Bare(e)
<1>1. PICK delta : delta = Delta(old, p, w, a, snapshots)
  OBVIOUS
<1>2. PICK ks : ks = KeysOf(Records(p, a))
  OBVIOUS
<1>3. /\ delta.foreign \subseteq {r \in Records(p, a) : r.key \in old.keys}
      /\ KeysOf(delta.own) = ks \ old.keys
      /\ \A k \in old.keys : k \in Gone(delta) <=> k \notin ks
  BY <1>1, <1>2, DeltaParts
<1>4. ASSUME NEW r \in delta.foreign
      PROVE  r.key \in Live(d) /\ r.key \in ks /\ r.key \in old.keys /\ r.key \notin Gone(delta)
  <2>1. r \in Records(p, a) /\ r.key \in old.keys
    BY <1>3
  <2>2. r.key \in ks
    BY <1>2, <2>1, KeyIn
  <2> QED BY <1>3, <2>1, <2>2 DEF Exact
<1>5. KeysOf(delta.own) \cap KeysOf(delta.foreign) = {}
  BY <1>3, <1>4, KeyIn
<1>6. IsSequence(d)
  BY DEF WellMade
<1>7. SegmentOK(delta)
  BY <1>1, DeltaOK
<1>8. WellMade(Push(d, delta))
  BY <1>4, <1>5, <1>7, PushWellMade
<1>9. Exact(Push(d, delta), ks)
  BY <1>3, <1>6, PushExact
<1>10. Lists(Push(d, delta), {PairOf(r) : r \in Records(p, a)})
  BY <1>1, PushLists
<1>11. ASSUME snapshots
      PROVE  Tells(Push(d, delta), ks, Rows(Places(p, w, a)))
  BY <1>1, <1>2, <1>6, <1>11, PushTells
<1>12. ASSUME ~snapshots, Bare(d) PROVE Bare(Push(d, delta))
  <2>1. delta.rows = {}
    <3>1. delta.rows = Rows({r \in Places(p, w, a) : r.key \in {}})
      BY <1>1, <1>12, DeltaRows
    <3> QED BY <3>1 DEF Rows
  <2>2. PICK e : e = Push(d, delta)
    OBVIOUS
  <2>3. /\ IsSequence(e) /\ Len(e) = Len(d) + 1
        /\ \A i \in DOMAIN d : e[i].segment = d[i].segment
        /\ e[Len(d) + 1].segment = delta
    <3>1. /\ IsSequence(e) /\ Len(e) = Len(d) + 1
          /\ \A i \in DOMAIN d : e[i] = Older(d, delta)[i]
          /\ e[Len(d) + 1] = Derived(delta, {}, LinksTo(d, delta))
      BY <1>6, <2>2, PushParts
    <3>2. e[Len(d) + 1].segment = delta
      BY <3>1 DEF Derived
    <3> QED BY <3>1, <3>2, OlderParts
  <2>4. \A i \in DOMAIN e : i \in DOMAIN d \/ i = Len(d) + 1
    BY <1>6, <2>3 DEF IsSequence
  <2> QED BY <1>12, <2>1, <2>2, <2>3, <2>4 DEF Bare
<1> QED BY <1>1, <1>2, <1>8, <1>9, <1>10, <1>11, <1>12

\* A ledger's keys and pairs are those of the records it was made of.
LEMMA LedgerOK ==
  ASSUME NEW p \in Plans, NEW a
  PROVE  /\ KeysOf(Records(p, a)) \subseteq Keys
         /\ {PairOf(r) : r \in Records(p, a)} \subseteq Books \X Keys
<1>1. \A r \in Records(p, a) : r.key \in Keys /\ r.book \in Books
  BY RecordsAre DEF RecordType
<1> QED BY <1>1 DEF KeysOf, PairOf

\* A release is published: the device that is a step behind can take it either way.
LEMMA PublishKeeps ==
  ASSUME WarehouseWhole, ReleaseInv, PublishNext
  PROVE  ReleaseInv'
<1>1. PICK p \in Plans, snapshots \in Snapshots : Publish(p, warehouse \cup TextsOf(p), snapshots)
  BY DEF PublishNext, Warehouses
<1>2. PICK w : w = warehouse \cup TextsOf(p)
  OBVIOUS
<1>3. snapshots \in BOOLEAN /\ (chain # "lines" \/ Snapped => snapshots)
  BY DEF Snapshots, Snapped
<1>4. PICK a : a = Decide(p, w, Sharing)
  OBVIOUS
<1>5. PICK delta : delta = Delta(ledger, p, w, a, snapshots)
  OBVIOUS
<1>6. /\ version < MaxVersion /\ installed = version
      /\ version' = version + 1 /\ plan' = p /\ warehouse' = w
      /\ ledger' = Ledger(p, a, snapshots, Sharing)
      /\ release' = [delta |-> delta, base |-> Base(p, w, a, snapshots)]
      /\ chain' = chain /\ device' = device /\ installed' = installed
  BY <1>1, <1>2, <1>4, <1>5 DEF Publish, PublishNext, Sharing
<1>7. /\ version \in Nat /\ MaxVersion \in Nat /\ installed \in 0..version
      /\ ledger.keys \subseteq Keys
  BY ReleaseAssumption DEF ReleaseInv, ReleaseTypeOK
<1>8. /\ Sharing' = Sharing /\ Snapped' = snapshots /\ Aliases' = a
      /\ PlanRows' = Rows(Places(p, w, a))
  <2>1. p # NoText
    BY NoTextAssumption
  <2>2. Snapped' = snapshots
    BY <1>3, <1>6, <2>1 DEF Snapped, Unsnapped, Ledger
  <2> QED BY <1>4, <1>6, <2>2 DEF Sharing, Aliases, PlanRows
<1>9. /\ ledger'.keys = KeysOf(Records(p, a))
      /\ ledger'.pairs = {PairOf(r) : r \in Records(p, a)}
      /\ release'.delta = delta /\ release'.base = Base(p, w, a, snapshots)
  BY <1>6 DEF Ledger
<1>10. ReleaseTypeOK'
  <2>1. SegmentOK(delta) /\ SegmentOK(Base(p, w, a, snapshots))
    BY <1>4, <1>5, <1>7, DeltaOK, BaseAnswers
  <2>2. w \subseteq Keys
    BY <1>2 DEF ReleaseInv, ReleaseTypeOK, TextsOf, Plans
  <2>3. version' \in 0..MaxVersion /\ installed' \in 0..version'
    BY <1>6, <1>7
  <2>4. ledger'.keys \subseteq Keys /\ ledger'.pairs \subseteq Books \X Keys
    BY <1>9, LedgerOK
  <2> QED BY <1>6, <1>9, <2>1, <2>2, <2>3, <2>4 DEF ReleaseInv, ReleaseTypeOK
<1>11. Published' /\ Unpublished'
  <2>1. TextsOf(p) \subseteq w
    BY <1>2
  <2>2. version' # 0
    BY <1>6, <1>7
  <2> QED BY <1>3, <1>6, <1>8, <1>9, <2>1, <2>2 DEF Published, Unpublished
<1>12. Following'
  <2>1. CASE version = 0
    BY <1>6, <1>7, <2>1 DEF Following
  <2>2. CASE version > 0
    <3>1. Answers(device)
      BY <1>6, <1>7, <2>2 DEF ReleaseInv, Following
    <3>2. PICK b : b = Decide(ledger.plan, w, ledger.sharing)
      OBVIOUS
    <3>3. /\ WellMade(device) /\ Exact(device, ledger.keys) /\ Lists(device, ledger.pairs)
          /\ Snapped => Tells(device, ledger.keys, PlanRows)
          /\ ~snapshots => Bare(device)
      BY <1>3, <3>1 DEF Answers
    <3>4. /\ ledger = Ledger(plan, Aliases, Snapped, Sharing)
          /\ TextsOf(plan) \subseteq warehouse /\ plan \in Plans
      BY <1>7, <2>2 DEF ReleaseInv, Published, ReleaseTypeOK
    <3>5. ASSUME ledger.plan # NoText
          PROVE  /\ ledger.plan \in Plans /\ ledger.keys = KeysOf(Records(ledger.plan, b))
                 /\ Tells(device, ledger.keys, Rows(Places(ledger.plan, w, b)))
      <4>1. Snapped /\ ledger.plan = plan /\ ledger.sharing = Sharing
        BY <3>4, <3>5 DEF Ledger, Snapped, Unsnapped
      <4>2. /\ Aliases = b
            /\ Places(plan, warehouse, Aliases) = Places(plan, w, b)
        <5>1. TextsOf(plan) \subseteq w
          BY <1>2, <3>4
        <5>2. /\ Decide(plan, warehouse, Sharing) = Decide(plan, w, Sharing)
              /\ Places(plan, warehouse, Decide(plan, warehouse, Sharing))
                   = Places(plan, w, Decide(plan, w, Sharing))
          BY <3>4, <5>1, WholePlaces
        <5> QED BY <3>2, <4>1, <5>2 DEF Aliases
      <4> QED BY <3>3, <3>4, <4>1, <4>2 DEF Ledger, PlanRows
    <3>6. PICK e : e = Push(device, delta)
      OBVIOUS
    <3>7. /\ WellMade(e) /\ Exact(e, KeysOf(Records(p, a)))
          /\ Lists(e, {PairOf(r) : r \in Records(p, a)})
          /\ snapshots => Tells(e, KeysOf(Records(p, a)), Rows(Places(p, w, a)))
          /\ ~snapshots => Bare(e)
      BY <1>4, <1>5, <1>7, <3>2, <3>3, <3>5, <3>6, PushAnswers
    <3>8. Answers(Push(device, release.delta))'
      BY <1>6, <1>8, <1>9, <3>6, <3>7 DEF Answers
    <3>9. installed' > 0 /\ installed' = version' - 1 /\ WellMade(device)'
      BY <1>6, <1>7, <2>2, <3>3
    <3> QED BY <1>7, <3>8, <3>9 DEF Following
  <2> QED BY <1>7, <2>1, <2>2
<1> QED BY <1>10, <1>11, <1>12 DEF ReleaseInv

\* A device of the base alone answers for the ledger.
LEMMA BaseIsEnough ==
  ASSUME ReleaseInv, version > 0
  PROVE  Answers(FromBase)
<1>1. /\ ledger = Ledger(plan, Aliases, Snapped, Sharing) /\ plan \in Plans
      /\ release.base = Base(plan, warehouse, Aliases, Snapped)
  BY DEF ReleaseInv, Published, ReleaseTypeOK
<1>2. /\ ledger.keys = KeysOf(Records(plan, Aliases))
      /\ ledger.pairs = {PairOf(r) : r \in Records(plan, Aliases)}
  BY <1>1 DEF Ledger
<1>3. Aliases = Decide(plan, warehouse, Sharing)
  BY DEF Aliases
<1>4. PICK d : d = FromBase
  OBVIOUS
<1>5. PICK snapshots : snapshots = Snapped
  OBVIOUS
<1>6. /\ WellMade(d) /\ Exact(d, ledger.keys) /\ Lists(d, ledger.pairs)
      /\ Snapped => Tells(d, ledger.keys, PlanRows)
      /\ ~Snapped => Bare(d)
  <2>1. d = <<Derived(Base(plan, warehouse, Aliases, snapshots), {}, NoLinks)>>
    BY <1>1, <1>4, <1>5 DEF FromBase
  <2>2. /\ WellMade(d) /\ Exact(d, KeysOf(Records(plan, Aliases)))
        /\ Lists(d, {PairOf(r) : r \in Records(plan, Aliases)})
        /\ snapshots => Tells(d, KeysOf(Records(plan, Aliases)),
                               Rows(Places(plan, warehouse, Aliases)))
        /\ ~snapshots => Bare(d)
    BY <1>1, <1>3, <2>1, BaseAnswers
  <2> QED BY <1>2, <1>5, <2>2 DEF PlanRows
<1> QED BY <1>4, <1>6 DEF Answers

\* A base is installed in place of whatever was there.
LEMMA InstallBaseKeeps ==
  ASSUME ReleaseInv, InstallBase
  PROVE  ReleaseInv'
<1>1. /\ installed < version /\ device' = FromBase /\ installed' = version
      /\ chain' = chain /\ version' = version /\ plan' = plan /\ ledger' = ledger
      /\ warehouse' = warehouse /\ release' = release
  BY DEF InstallBase, FromBase
<1>2. version \in 1..MaxVersion /\ MaxVersion \in Nat
  BY <1>1, ReleaseAssumption DEF ReleaseInv, ReleaseTypeOK
<1>3. Answers(FromBase)
  BY <1>2, BaseIsEnough
<1>4. /\ Sharing' = Sharing /\ Snapped' = Snapped /\ Aliases' = Aliases
      /\ PlanRows' = PlanRows /\ FromBase' = FromBase
  BY <1>1 DEF Sharing, Snapped, Unsnapped, Aliases, PlanRows, FromBase
<1>5. Answers(device)'
  BY <1>1, <1>3, <1>4 DEF Answers
<1>6. WellMade(device)'
  BY <1>5 DEF Answers
<1>7. ReleaseTypeOK'
  <2>1. installed' \in 0..version'
    BY <1>1, <1>2
  <2> QED BY <1>1, <1>6, <2>1 DEF ReleaseInv, ReleaseTypeOK, WellMade, SliceOK
<1>8. Published' /\ Unpublished'
  BY <1>1, <1>2, <1>4 DEF ReleaseInv, Published, Unpublished
<1>9. Following'
  BY <1>1, <1>2, <1>5 DEF Following
<1> QED BY <1>7, <1>8, <1>9 DEF ReleaseInv

\* A delta is pushed on the device it was cut for.
LEMMA InstallDeltaKeeps ==
  ASSUME ReleaseInv, InstallDelta
  PROVE  ReleaseInv'
<1>1. /\ installed = version - 1 /\ installed > 0
      /\ device' = Push(device, release.delta) /\ installed' = version
      /\ chain' = chain /\ version' = version /\ plan' = plan /\ ledger' = ledger
      /\ warehouse' = warehouse /\ release' = release
  BY DEF InstallDelta
<1>2. version \in 1..MaxVersion /\ MaxVersion \in Nat
  BY <1>1, ReleaseAssumption DEF ReleaseInv, ReleaseTypeOK
<1>3. Answers(Push(device, release.delta))
  BY <1>1, <1>2 DEF ReleaseInv, Following
<1>4. /\ Sharing' = Sharing /\ Snapped' = Snapped /\ Aliases' = Aliases
      /\ PlanRows' = PlanRows /\ FromBase' = FromBase
  BY <1>1 DEF Sharing, Snapped, Unsnapped, Aliases, PlanRows, FromBase
<1>5. Answers(device)'
  BY <1>1, <1>3, <1>4 DEF Answers
<1>6. WellMade(device)'
  BY <1>5 DEF Answers
<1>7. ReleaseTypeOK'
  <2>1. installed' \in 0..version'
    BY <1>1, <1>2
  <2> QED BY <1>1, <1>6, <2>1 DEF ReleaseInv, ReleaseTypeOK, WellMade, SliceOK
<1>8. Published' /\ Unpublished'
  BY <1>1, <1>2, <1>4 DEF ReleaseInv, Published, Unpublished
<1>9. Following'
  BY <1>1, <1>2, <1>5 DEF Following
<1> QED BY <1>7, <1>8, <1>9 DEF ReleaseInv

-----------------------------------------------------------------------------
(* What a device tells of a book, and what compaction makes of it.           *)

\* What a row of a plan is: a place of it, under a key the release records there.
LEMMA RowFacts ==
  ASSUME NEW p \in Plans, NEW w, NEW sharing, NEW a, a = Decide(p, w, sharing),
         NEW R, R = Rows(Places(p, w, a))
  PROVE  /\ \A r \in R :
              /\ r = [key |-> r.key, book |-> r.book, hint |-> r.hint, anchor |-> r.anchor]
              /\ r.key \in KeysOf(Records(p, a)) /\ r.book \in Books /\ r.hint \in Nat
              /\ r.anchor \in Keys /\ r.anchor # NoText
              /\ PairOf(r) \in {PairOf(q) : q \in Records(p, a)}
              /\ \E l \in Lines : p[l] = r.anchor /\ l[1] = r.book /\ l[2] = r.hint
         /\ \A q \in Records(p, a) : \E r \in R : r.key = q.key /\ r.book = q.book
         /\ \A l \in Lines : p[l] # NoText => \E r \in R : r.book = l[1] /\ r.anchor = p[l]
<1>1. PICK P : P = Places(p, w, a)
  OBVIOUS
<1>2. \A r \in P : r.hint \in Nat
  BY <1>1, PlacesAre
<1>3. ASSUME NEW r \in R
      PROVE  /\ r = [key |-> r.key, book |-> r.book, hint |-> r.hint, anchor |-> r.anchor]
             /\ r.key \in KeysOf(Records(p, a)) /\ r.book \in Books /\ r.hint \in Nat
             /\ r.anchor \in Keys /\ r.anchor # NoText
             /\ PairOf(r) \in {PairOf(q) : q \in Records(p, a)}
             /\ \E l \in Lines : p[l] = r.anchor /\ l[1] = r.book /\ l[2] = r.hint
  <2>1. r \in P
    BY <1>1, RowsAre
  <2>2. PICK l \in Lines : /\ p[l] = r.anchor /\ l[1] = r.book /\ l[2] = r.hint
                           /\ r = [key |-> r.key, book |-> l[1], hint |-> l[2], anchor |-> p[l]]
    BY <1>1, <2>1, PlacesAre
  <2>3. r.anchor \in Keys /\ r.hint \in Nat /\ r.book \in Books /\ r.anchor # NoText
    BY <1>1, <2>1, PlacesAre
  <2>4. PICK q \in Records(p, a) : q.key = r.key /\ q.book = r.book
    BY <1>1, <2>1, PlacesAndRecords
  <2>5. r.key \in KeysOf(Records(p, a)) /\ PairOf(r) = PairOf(q)
    BY <2>4, KeyIn DEF PairOf
  <2> QED BY <2>2, <2>3, <2>5
<1>4. ASSUME NEW q \in Records(p, a) PROVE \E r \in R : r.key = q.key /\ r.book = q.book
  <2>1. PICK r \in P : r.key = q.key /\ r.book = q.book
    BY <1>1, PlacesAndRecords
  <2> QED BY <1>1, <1>2, <2>1, RowsHave
<1>5. ASSUME NEW l \in Lines, p[l] # NoText
      PROVE  \E r \in R : r.book = l[1] /\ r.anchor = p[l]
  <2>1. PICK r \in P : r.book = l[1] /\ r.anchor = p[l]
    <3>1. [key |-> IF p[l] \in a THEN Target(p, w, l) ELSE p[l],
           book |-> l[1], hint |-> l[2], anchor |-> p[l]] \in P
      BY <1>1, <1>5, PlacesHave
    <3> QED BY <3>1
  <2> QED BY <1>1, <1>2, <2>1, RowsHave
<1> QED BY <1>3, <1>4, <1>5

\* What is recorded is live.
LEMMA RecordedIsLive ==
  ASSUME NEW d, WellMade(d), NEW b, NEW k \in Recorded(d, b)
  PROVE  k \in Live(d)
<1>1. PICK i \in DOMAIN d : \E q \in Fresh(d, i, b) : q.key = k
  BY RecordedIn
<1>2. PICK q \in Fresh(d, i, b) : q.key = k
  BY <1>1
<1>3. CASE q \in d[i].segment.own /\ q.key \notin d[i].deleted
  BY <1>2, <1>3, KeyIn, LiveIn DEF LiveKeys
<1>4. CASE q \in d[i].segment.foreign /\ q.key \notin d[d[i].links[q]].deleted
  <2>1. d[i].links[q] \in 1..(i - 1) /\ k \in KeysOf(d[d[i].links[q]].segment.own)
    BY <1>2, <1>4 DEF WellMade, SliceOK
  <2>2. d[i].links[q] \in DOMAIN d
    BY <2>1 DEF WellMade, IsSequence
  <2> QED BY <1>2, <1>4, <2>1, <2>2, LiveIn DEF LiveKeys
<1> QED BY <1>2, <1>3, <1>4 DEF Fresh

\* What a book's occurrences are where every key has a snapshot.
LEMMA OccurrencesOf ==
  ASSUME NEW d, NEW b, \A k \in Recorded(d, b) : Telling(d, k) # {}
  PROVE  BookOccurrences(d, b) =
           UNION {{[key |-> k, hint |-> r.hint, anchor |-> r.anchor] :
                     r \in {q \in Newest(d, k) : q.book = b}} : k \in Recorded(d, b)}
<1> DEFINE fresh == [i \in DOMAIN d |-> Fresh(d, i, b)]
           telling(k) == {i \in DOMAIN d : \E r \in d[i].segment.rows : r.key = k}
           naming(k) == {i \in DOMAIN d : \E r \in fresh[i] : r.key = k}
           of(k) == IF telling(k) = {}
                    THEN {[key |-> k, hint |-> r.hint, anchor |-> NoText] :
                             r \in {f \in fresh[Max(naming(k))] : f.key = k}}
                    ELSE {[key |-> k, hint |-> r.hint, anchor |-> r.anchor] :
                             r \in {q \in d[Max(telling(k))].segment.rows :
                                       q.key = k /\ q.book = b}}
           told(k) == {[key |-> k, hint |-> r.hint, anchor |-> r.anchor] :
                          r \in {q \in Newest(d, k) : q.book = b}}
<1>1. KeysOf(UNION {fresh[i] : i \in DOMAIN d}) = Recorded(d, b)
  <2>1. {fresh[i] : i \in DOMAIN d} = {Fresh(d, i, b) : i \in DOMAIN d}
    OBVIOUS
  <2> QED BY <2>1 DEF Recorded
<1>2. BookOccurrences(d, b)
        = UNION {of(k) : k \in KeysOf(UNION {fresh[i] : i \in DOMAIN d})}
  BY DEF BookOccurrences
<1>3. ASSUME NEW k \in Recorded(d, b) PROVE of(k) = told(k)
  <2>1. telling(k) = Telling(d, k) /\ telling(k) # {}
    BY DEF Telling
  <2>2. {q \in d[Max(telling(k))].segment.rows : q.key = k /\ q.book = b}
          = {q \in Newest(d, k) : q.book = b}
    BY <2>1 DEF Newest, RowsOf
  <2> QED BY <2>1, <2>2
<1> HIDE DEF of, told, fresh
<1>4. {of(k) : k \in Recorded(d, b)} = {told(k) : k \in Recorded(d, b)}
  BY <1>3
<1> QED BY <1>1, <1>2, <1>4 DEF told

\* A device that tells a plan's rows gives each book its rows of the plan.
LEMMA OccurrencesAre ==
  ASSUME NEW d, WellMade(d), NEW ks, Exact(d, ks), NEW pairs, Lists(d, pairs),
         NEW R, Tells(d, ks, R), \A r \in R : PairOf(r) \in pairs, NEW b
  PROVE  /\ BookOccurrences(d, b)
              = {[key |-> r.key, hint |-> r.hint, anchor |-> r.anchor] :
                    r \in {q \in R : q.book = b}}
         /\ \A r \in R : r.key \in Recorded(d, r.book)
         /\ Recorded(d, b) \subseteq ks
<1>1. Recorded(d, b) \subseteq ks
  BY RecordedIsLive DEF Exact
<1>2. \A r \in R : r.key \in Recorded(d, r.book)
  BY DEF Lists, PairOf
<1>3. \A k \in Recorded(d, b) : Telling(d, k) # {} /\ Newest(d, k) = RowsOf(R, k)
  BY <1>1 DEF Tells
<1>4. BookOccurrences(d, b) =
        UNION {{[key |-> k, hint |-> r.hint, anchor |-> r.anchor] :
                  r \in {q \in Newest(d, k) : q.book = b}} : k \in Recorded(d, b)}
  BY <1>3, OccurrencesOf
<1>5. ASSUME NEW o
      PROVE  (\E k \in Recorded(d, b) : \E r \in Newest(d, k) :
                r.book = b /\ o = [key |-> k, hint |-> r.hint, anchor |-> r.anchor])
             <=> \E r \in R : r.book = b
                              /\ o = [key |-> r.key, hint |-> r.hint, anchor |-> r.anchor]
  BY <1>2, <1>3 DEF RowsOf
<1> QED BY <1>1, <1>2, <1>4, <1>5

\* Where no key has a snapshot, a book's occurrences are its records.
LEMMA OccurrencesUntold ==
  ASSUME NEW d, IsSequence(d), NEW b, \A k \in Recorded(d, b) : Telling(d, k) = {}
  PROVE  KeysOf(BookOccurrences(d, b)) = Recorded(d, b)
<1> DEFINE fresh == [i \in DOMAIN d |-> Fresh(d, i, b)]
           telling(k) == {i \in DOMAIN d : \E r \in d[i].segment.rows : r.key = k}
           naming(k) == {i \in DOMAIN d : \E r \in fresh[i] : r.key = k}
           untold(k) == {[key |-> k, hint |-> r.hint, anchor |-> NoText] :
                             r \in {f \in fresh[Max(naming(k))] : f.key = k}}
           of(k) == IF telling(k) = {}
                    THEN untold(k)
                    ELSE {[key |-> k, hint |-> r.hint, anchor |-> r.anchor] :
                             r \in {q \in d[Max(telling(k))].segment.rows :
                                       q.key = k /\ q.book = b}}
<1>1. KeysOf(UNION {fresh[i] : i \in DOMAIN d}) = Recorded(d, b)
  <2>1. {fresh[i] : i \in DOMAIN d} = {Fresh(d, i, b) : i \in DOMAIN d}
    OBVIOUS
  <2> QED BY <2>1 DEF Recorded
<1>2. BookOccurrences(d, b)
        = UNION {of(k) : k \in KeysOf(UNION {fresh[i] : i \in DOMAIN d})}
  BY DEF BookOccurrences
<1>3. ASSUME NEW k \in Recorded(d, b)
      PROVE  of(k) = untold(k) /\ untold(k) # {} /\ \A o \in untold(k) : o.key = k
  <2>1. telling(k) = Telling(d, k) /\ telling(k) = {}
    BY DEF Telling
  <2>2. naming(k) # {} /\ naming(k) \subseteq 1..Len(d) /\ Len(d) \in Nat
    <3>1. PICK i \in DOMAIN d : \E q \in Fresh(d, i, b) : q.key = k
      BY RecordedIn
    <3> QED BY <3>1 DEF IsSequence
  <2>3. PICK m : m = Max(naming(k))
    OBVIOUS
  <2>4. m \in naming(k)
    BY <2>2, <2>3, GreatestOf
  <2>5. PICK r \in fresh[m] : r.key = k
    BY <2>4
  <2>6. [key |-> k, hint |-> r.hint, anchor |-> NoText] \in untold(k)
    BY <2>3, <2>5
  <2>7. ASSUME NEW o \in untold(k) PROVE o.key = k
    <3>1. PICK f \in fresh[Max(naming(k))] : o = [key |-> k, hint |-> f.hint, anchor |-> NoText]
      OBVIOUS
    <3> QED BY <3>1
  <2>8. of(k) = untold(k)
    BY <2>1
  <2> HIDE DEF of, untold
  <2> QED BY <2>6, <2>7, <2>8
<1> HIDE DEF of, untold
<1>4. ASSUME NEW k PROVE k \in KeysOf(BookOccurrences(d, b)) <=> k \in Recorded(d, b)
  BY <1>1, <1>2, <1>3, KeyIn
<1> QED BY <1>4

\* Each of them is at a line's ordinal, and names no parent.
LEMMA UntoldAre ==
  ASSUME NEW d, WellMade(d), NEW b, \A k \in Recorded(d, b) : Telling(d, k) = {},
         NEW o \in BookOccurrences(d, b)
  PROVE  /\ o = [key |-> o.key, hint |-> o.hint, anchor |-> NoText]
         /\ o.key \in Recorded(d, b) /\ o.hint \in {l[2] : l \in Lines}
<1> DEFINE fresh == [i \in DOMAIN d |-> Fresh(d, i, b)]
           telling(k) == {i \in DOMAIN d : \E r \in d[i].segment.rows : r.key = k}
           naming(k) == {i \in DOMAIN d : \E r \in fresh[i] : r.key = k}
           untold(k) == {[key |-> k, hint |-> r.hint, anchor |-> NoText] :
                             r \in {f \in fresh[Max(naming(k))] : f.key = k}}
           of(k) == IF telling(k) = {}
                    THEN untold(k)
                    ELSE {[key |-> k, hint |-> r.hint, anchor |-> r.anchor] :
                             r \in {q \in d[Max(telling(k))].segment.rows :
                                       q.key = k /\ q.book = b}}
<1>1. KeysOf(UNION {fresh[i] : i \in DOMAIN d}) = Recorded(d, b)
  <2>1. {fresh[i] : i \in DOMAIN d} = {Fresh(d, i, b) : i \in DOMAIN d}
    OBVIOUS
  <2> QED BY <2>1 DEF Recorded
<1>2. BookOccurrences(d, b)
        = UNION {of(k) : k \in KeysOf(UNION {fresh[i] : i \in DOMAIN d})}
  BY DEF BookOccurrences
<1>3. PICK k \in Recorded(d, b) : o \in of(k)
  <2> HIDE DEF of, fresh
  <2> QED BY <1>1, <1>2
<1>4. telling(k) = {}
  BY <1>3 DEF Telling
<1>5. PICK f \in fresh[Max(naming(k))] : o = [key |-> k, hint |-> f.hint, anchor |-> NoText]
  BY <1>3, <1>4
<1>6. PICK m : m = Max(naming(k))
  OBVIOUS
<1>7. m \in naming(k)
  <2>1. PICK i \in DOMAIN d : \E q \in Fresh(d, i, b) : q.key = k
    BY <1>3, RecordedIn
  <2>2. naming(k) # {} /\ naming(k) \subseteq 1..Len(d) /\ Len(d) \in Nat
    BY <2>1 DEF WellMade, IsSequence
  <2> QED BY <1>6, <2>2, GreatestOf
<1>8. m \in DOMAIN d /\ f \in Fresh(d, m, b)
  BY <1>5, <1>6, <1>7
<1>9. f \in RecordType
  BY <1>8 DEF Fresh, WellMade, SliceOK, SegmentOK
<1>10. o.key = k /\ o.hint = f.hint /\ f.hint \in {l[2] : l \in Lines}
  BY <1>5, <1>9 DEF RecordType
<1> QED BY <1>3, <1>5, <1>10

\* A record without a parent goes to a line of its own text, if the book has one.
LEMMA RefreshedIs ==
  ASSUME NEW o, o = [key |-> o.key, hint |-> o.hint, anchor |-> NoText], o.hint \in Nat, NEW b
  PROVE  /\ \A x \in Refreshed(o, b) :
              /\ x = [key |-> o.key, hint |-> x.hint, anchor |-> NoText]
              /\ x.hint \in {l[2] : l \in Lines}
         /\ (\E l \in Lines : plan[l] = o.key /\ l[1] = b) => Refreshed(o, b) # {}
<1> DEFINE lines == {m[2] : m \in {n \in LinesOf(plan, o.key) : n[1] = b}}
           away(h) == IF h < o.hint THEN o.hint - h ELSE h - o.hint
           closest == CHOOSE h \in lines : \A q \in lines :
                        away(h) < away(q) \/ (away(h) = away(q) /\ h <= q)
<1>1. lines \subseteq Nat /\ lines \subseteq {l[2] : l \in Lines}
  BY LineParts DEF LinesOf
<1>2. o.anchor = NoText
  OBVIOUS
<1>3. Refreshed(o, b) = IF lines = {} THEN {} ELSE {[o EXCEPT !.hint = closest]}
  BY <1>2 DEF Refreshed
<1>4. (\E l \in Lines : plan[l] = o.key /\ l[1] = b) => lines # {}
  BY DEF LinesOf
<1>5. \A h \in lines : away(h) \in Nat
  BY <1>1
<1> HIDE DEF lines, away
<1>6. ASSUME lines # {} PROVE closest \in lines
  <2> DEFINE T == {away(h) : h \in lines}
  <2>1. T \subseteq Nat /\ T # {}
    BY <1>5, <1>6
  <2>2. PICK t \in T : \A u \in T : t <= u
    BY <2>1, LeastOf
  <2> DEFINE S == {h \in lines : away(h) = t}
  <2>3. S \subseteq Nat /\ S # {}
    BY <1>1, <2>2
  <2>4. PICK c \in S : \A h \in S : c <= h
    BY <2>3, LeastOf
  <2>5. \A q \in lines : away(c) < away(q) \/ (away(c) = away(q) /\ c <= q)
    <3>1. ASSUME NEW q \in lines PROVE away(c) < away(q) \/ (away(c) = away(q) /\ c <= q)
      <4>1. away(c) = t /\ t <= away(q) /\ away(q) \in Nat /\ t \in Nat
        BY <1>5, <2>1, <2>2, <2>4
      <4>2. away(q) = t => c <= q
        BY <2>4
      <4> QED BY <4>1, <4>2
    <3> QED BY <3>1
  <2>6. c \in lines
    BY <2>4
  <2> QED BY <2>5, <2>6
<1> HIDE DEF closest
<1>7. [o EXCEPT !.hint = closest] = [key |-> o.key, hint |-> closest, anchor |-> NoText]
  OBVIOUS
<1> QED BY <1>1, <1>3, <1>4, <1>6, <1>7

\* A record whose line has not moved stays at it.
LEMMA RefreshedIsSame ==
  ASSUME NEW o, o.anchor # NoText, o.hint \in Nat, NEW b, NEW l \in Lines,
         plan[l] = o.anchor, l[1] = b, l[2] = o.hint,
         o = [key |-> o.key, hint |-> o.hint, anchor |-> o.anchor]
  PROVE  Refreshed(o, b) = {o}
<1> DEFINE lines == {m[2] : m \in {n \in LinesOf(plan, o.anchor) : n[1] = b}}
           away(h) == IF h < o.hint THEN o.hint - h ELSE h - o.hint
           closest == CHOOSE h \in lines : \A q \in lines :
                        away(h) < away(q) \/ (away(h) = away(q) /\ h <= q)
<1>1. lines \subseteq Nat /\ o.hint \in lines
  BY LineParts DEF LinesOf
<1>2. \A h \in lines : away(h) \in Nat /\ (away(h) = 0 <=> h = o.hint)
  BY <1>1
<1>3. away(o.hint) = 0
  OBVIOUS
<1> HIDE DEF lines, away
<1>4. \A q \in lines : away(o.hint) < away(q) \/ (away(o.hint) = away(q) /\ o.hint <= q)
  BY <1>1, <1>2, <1>3
<1>5. closest \in lines /\ \A q \in lines :
                        away(closest) < away(q) \/ (away(closest) = away(q) /\ closest <= q)
  BY <1>1, <1>4
<1>6. closest = o.hint
  BY <1>1, <1>2, <1>3, <1>5
<1>7. Refreshed(o, b) = {[o EXCEPT !.hint = closest]}
  BY <1>1 DEF Refreshed, lines, away
<1>8. [o EXCEPT !.hint = o.hint] = o
  OBVIOUS
<1> QED BY <1>6, <1>7, <1>8

\* The records that compaction keeps of rows: a book and a key, at its first line.
Firsts(rows) ==
  {[key |-> r.key, book |-> r.book, hint |-> r.hint] :
      r \in {q \in rows : \A s \in rows :
                (s.key = q.key /\ s.book = q.book) => q.hint <= s.hint}}

\* Each book and key of the rows has one of them, and nothing else does.
LEMMA FirstsAre ==
  ASSUME NEW R, \A r \in R : r.hint \in Nat
  PROVE  /\ \A q \in Firsts(R) : \E r \in R : q = [key |-> r.key, book |-> r.book, hint |-> r.hint]
         /\ \A r \in R : \E q \in Firsts(R) : q.key = r.key /\ q.book = r.book
<1>1. \A q \in Firsts(R) : \E r \in R : q = [key |-> r.key, book |-> r.book, hint |-> r.hint]
  BY DEF Firsts
<1>2. ASSUME NEW r \in R PROVE \E q \in Firsts(R) : q.key = r.key /\ q.book = r.book
  <2> DEFINE same == {q \in R : q.key = r.key /\ q.book = r.book}
             T == {q.hint : q \in same}
  <2>1. T \subseteq Nat /\ r.hint \in T
    OBVIOUS
  <2>2. PICK h \in T : \A j \in T : h <= j
    BY <2>1, LeastOf
  <2>3. PICK q \in same : q.hint = h
    BY <2>2
  <2>4. \A s \in R : (s.key = q.key /\ s.book = q.book) => q.hint <= s.hint
    BY <2>2, <2>3
  <2>5. [key |-> q.key, book |-> q.book, hint |-> q.hint] \in Firsts(R)
    BY <2>3, <2>4 DEF Firsts
  <2> QED BY <2>3, <2>5
<1> QED BY <1>1, <1>2

\* Compaction makes one segment of the rows the device told, whichever books
\* the index knows.
LEMMA CompactMakes ==
  ASSUME ReleaseInv, version > 0, Answers(device), Snapped, NEW known, Compact(known)
  PROVE  device' = <<Derived(Segment(Firsts(PlanRows), {}, {}, PlanRows), {}, NoLinks)>>
<1>1. PICK R : R = PlanRows
  OBVIOUS
<1>2. /\ ledger = Ledger(plan, Aliases, Snapped, Sharing) /\ plan \in Plans
  BY DEF ReleaseInv, Published, ReleaseTypeOK
<1>3. /\ ledger.keys = KeysOf(Records(plan, Aliases))
      /\ ledger.pairs = {PairOf(r) : r \in Records(plan, Aliases)}
  BY <1>2 DEF Ledger
<1>4. \A r \in R :
         /\ r = [key |-> r.key, book |-> r.book, hint |-> r.hint, anchor |-> r.anchor]
         /\ r.key \in ledger.keys /\ r.book \in Books /\ r.hint \in Nat
         /\ r.anchor # NoText /\ PairOf(r) \in ledger.pairs
         /\ \E l \in Lines : plan[l] = r.anchor /\ l[1] = r.book /\ l[2] = r.hint
  <2>1. Aliases = Decide(plan, warehouse, Sharing) /\ R = Rows(Places(plan, warehouse, Aliases))
    BY <1>1 DEF PlanRows, Aliases
  <2>2. plan \in Plans
    BY <1>2
  <2>3. ASSUME NEW r \in R
        PROVE  /\ r = [key |-> r.key, book |-> r.book, hint |-> r.hint, anchor |-> r.anchor]
               /\ r.key \in ledger.keys /\ r.book \in Books /\ r.hint \in Nat
               /\ r.anchor # NoText /\ PairOf(r) \in ledger.pairs
               /\ \E l \in Lines : plan[l] = r.anchor /\ l[1] = r.book /\ l[2] = r.hint
    BY <1>3, <2>1, <2>2, RowFacts
  <2> QED BY <2>3
<1>5. \A b : BookOccurrences(device, b)
              = {[key |-> r.key, hint |-> r.hint, anchor |-> r.anchor] :
                    r \in {q \in R : q.book = b}}
  BY <1>1, <1>4, OccurrencesAre DEF Answers
<1> DEFINE at(b) == IF b \in known
                    THEN UNION {Refreshed(o, b) : o \in BookOccurrences(device, b)}
                    ELSE BookOccurrences(device, b)
           keptAt(b) == {[key |-> o.key, book |-> b, hint |-> o.hint, anchor |-> o.anchor] :
                            o \in {q \in at(b) : q.key \in Live(device)}}
           kept == UNION {keptAt(b) : b \in Books}
<1>6. ASSUME NEW b PROVE at(b) = BookOccurrences(device, b)
  <2>1. ASSUME NEW o \in BookOccurrences(device, b) PROVE Refreshed(o, b) = {o}
    <3>1. PICK r \in R : /\ r.book = b
                         /\ o = [key |-> r.key, hint |-> r.hint, anchor |-> r.anchor]
      BY <1>5
    <3>2. PICK l \in Lines : plan[l] = r.anchor /\ l[1] = r.book /\ l[2] = r.hint
      BY <1>4
    <3>3. o.key = r.key /\ o.hint = r.hint /\ o.anchor = r.anchor
      BY <3>1
    <3> QED BY <1>4, <3>1, <3>2, <3>3, RefreshedIsSame
  <2>2. UNION {Refreshed(o, b) : o \in BookOccurrences(device, b)} = BookOccurrences(device, b)
    BY <2>1
  <2> QED BY <2>2
<1>7. Live(device) = ledger.keys
  BY DEF Answers, Exact
<1> HIDE DEF at
<1>8. ASSUME NEW b \in Books PROVE keptAt(b) = {r \in R : r.book = b}
  <2>1. ASSUME NEW x \in keptAt(b) PROVE x \in R /\ x.book = b
    <3>1. PICK o \in BookOccurrences(device, b) :
             x = [key |-> o.key, book |-> b, hint |-> o.hint, anchor |-> o.anchor]
      BY <1>6
    <3>2. PICK r \in R : /\ r.book = b
                         /\ o = [key |-> r.key, hint |-> r.hint, anchor |-> r.anchor]
      BY <1>5
    <3>3. x = [key |-> r.key, book |-> r.book, hint |-> r.hint, anchor |-> r.anchor]
      BY <3>1, <3>2
    <3> QED BY <1>4, <3>2, <3>3
  <2>2. ASSUME NEW r \in R, r.book = b PROVE r \in keptAt(b)
    <3>1. PICK o : o = [key |-> r.key, hint |-> r.hint, anchor |-> r.anchor]
      OBVIOUS
    <3>2. o \in at(b) /\ o.key \in Live(device)
      BY <1>4, <1>5, <1>6, <1>7, <2>2, <3>1
    <3>3. r = [key |-> o.key, book |-> b, hint |-> o.hint, anchor |-> o.anchor]
      BY <1>4, <2>2, <3>1
    <3> QED BY <3>2, <3>3
  <2> QED BY <2>1, <2>2
<1> HIDE DEF keptAt
<1>9. kept = R
  BY <1>4, <1>8
<1>10. device' = <<Derived(Segment(Firsts(kept), {}, {}, Rows({r \in kept : r.anchor # NoText})),
                           {}, NoLinks)>>
  BY DEF Compact, Firsts, kept, keptAt, at
<1>11. Rows({r \in R : r.anchor # NoText}) = R
  <2>1. {r \in R : r.anchor # NoText} = R
    BY <1>4
  <2> QED BY <1>1, <2>1, RowsOfRows DEF PlanRows
<1> QED BY <1>1, <1>9, <1>10, <1>11

\* With snapshots, a compacted device tells the plan's rows still.
LEMMA CompactedSnapped ==
  ASSUME ReleaseInv, version > 0, Answers(device), Snapped, NEW known, Compact(known)
  PROVE  /\ WellMade(device') /\ Exact(device', ledger.keys) /\ Lists(device', ledger.pairs)
         /\ Tells(device', ledger.keys, PlanRows)
<1>5. PICK s : s = Segment(Firsts(PlanRows), {}, {}, PlanRows)
  OBVIOUS
<1>6. device' = <<Derived(s, {}, NoLinks)>>
  BY <1>5, CompactMakes
<1>7. PICK R : R = PlanRows
  OBVIOUS
<1>8. /\ ledger.keys = KeysOf(Records(plan, Aliases)) /\ plan \in Plans
      /\ ledger.pairs = {PairOf(r) : r \in Records(plan, Aliases)}
  BY DEF ReleaseInv, Published, ReleaseTypeOK, Ledger
<1>9. /\ \A r \in R :
           /\ r.key \in ledger.keys /\ r.book \in Books /\ r.hint \in Nat
           /\ r.anchor \in Keys /\ PairOf(r) \in ledger.pairs
           /\ \E l \in Lines : plan[l] = r.anchor /\ l[1] = r.book /\ l[2] = r.hint
      /\ \A q \in Records(plan, Aliases) : \E r \in R : r.key = q.key /\ r.book = q.book
  BY <1>7, <1>8, RowFacts DEF PlanRows, Aliases
<1>10. s.own = Firsts(R) /\ s.foreign = {} /\ s.tombstones = {} /\ s.rows = R
  BY <1>5, <1>7 DEF Segment
<1>11. /\ \A q \in Firsts(R) : \E r \in R : q = [key |-> r.key, book |-> r.book, hint |-> r.hint]
       /\ \A r \in R : \E q \in Firsts(R) : q.key = r.key /\ q.book = r.book
  BY <1>9, FirstsAre
<1>12. \A r \in R : [key |-> r.key, book |-> r.book, hint |-> r.hint] \in RecordType
  <2>1. ledger.keys \subseteq Keys
    BY DEF ReleaseInv, ReleaseTypeOK
  <2> QED BY <1>9, <2>1 DEF RecordType
<1>13. SegmentOK(s)
  <2>1. s.own \subseteq RecordType
    BY <1>10, <1>11, <1>12
  <2>2. \A r \in R : <<r.book, r.key>> \in {PairOf(q) : q \in s.own \cup s.foreign}
    BY <1>10, <1>11 DEF PairOf
  <2> QED BY <1>9, <1>10, <1>12, <2>1, <2>2 DEF SegmentOK
<1>14. KeysOf(s.own) = ledger.keys
  <2>1. ASSUME NEW k \in KeysOf(s.own) PROVE k \in ledger.keys
    BY <1>9, <1>10, <1>11, KeyIn
  <2>2. ASSUME NEW k \in ledger.keys PROVE k \in KeysOf(s.own)
    <3>1. PICK q \in Records(plan, Aliases) : q.key = k
      BY <1>8, KeyIn
    <3> QED BY <1>9, <1>10, <1>11, <3>1, KeyIn
  <2> QED BY <2>1, <2>2
<1>15. ledger.pairs \subseteq {PairOf(r) : r \in s.own}
  <2>1. ASSUME NEW q \in Records(plan, Aliases) PROVE \E r \in s.own : PairOf(r) = PairOf(q)
    BY <1>9, <1>10, <1>11 DEF PairOf
  <2> QED BY <1>8, <2>1
<1>16. PICK d : d = <<Derived(s, {}, NoLinks)>>
  OBVIOUS
<1>17. WellMade(d) /\ Exact(d, ledger.keys) /\ Lists(d, ledger.pairs)
  <2>1. /\ WellMade(d) /\ Exact(d, KeysOf(s.own)) /\ Lists(d, {PairOf(r) : r \in s.own})
    BY <1>10, <1>13, <1>16, OneAnswers
  <2> QED BY <1>14, <1>15, <2>1 DEF Lists
<1>18. Tells(d, ledger.keys, R)
  <2>1. ASSUME NEW k \in ledger.keys PROVE Telling(d, k) # {} /\ Newest(d, k) = RowsOf(R, k)
    <3>1. PICK q \in Records(plan, Aliases) : q.key = k
      BY <1>8, KeyIn
    <3>2. \E r \in s.rows : r.key = k
      BY <1>9, <1>10, <3>1
    <3> QED BY <1>10, <1>13, <1>16, <3>2, OneAnswers
  <2> QED BY <2>1 DEF Tells
<1> QED BY <1>6, <1>7, <1>16, <1>17, <1>18

\* Without, it keeps a record of each key in each of its books, and has none
\* of a dead key.
LEMMA CompactedBare ==
  ASSUME ReleaseInv, version > 0, Answers(device), ~Snapped, NEW known, Compact(known)
  PROVE  /\ WellMade(device') /\ Exact(device', ledger.keys) /\ Lists(device', ledger.pairs)
         /\ Bare(device')
<1> DEFINE hints == {l[2] : l \in Lines}
           at(b) == IF b \in known
                    THEN UNION {Refreshed(o, b) : o \in BookOccurrences(device, b)}
                    ELSE BookOccurrences(device, b)
           keptAt(b) == {[key |-> o.key, book |-> b, hint |-> o.hint, anchor |-> o.anchor] :
                            o \in {q \in at(b) : q.key \in Live(device)}}
           kept == UNION {keptAt(b) : b \in Books}
           plain(o) == o = [key |-> o.key, hint |-> o.hint, anchor |-> NoText] /\ o.hint \in hints
<1>1. /\ WellMade(device) /\ Live(device) = ledger.keys /\ Lists(device, ledger.pairs)
      /\ \A b : \A k \in Recorded(device, b) : k \in ledger.keys /\ Telling(device, k) = {}
  BY RecordedIsLive DEF Answers, Exact, Bare, Telling
<1>2. /\ ledger.keys = KeysOf(Records(plan, Aliases)) /\ plan \in Plans /\ ledger.keys \subseteq Keys
      /\ ledger.pairs = {PairOf(r) : r \in Records(plan, Aliases)}
  BY DEF ReleaseInv, Published, ReleaseTypeOK, Ledger
<1>3. hints \subseteq Nat
  BY LineParts
<1>4. ASSUME NEW b, NEW o \in BookOccurrences(device, b)
      PROVE  plain(o) /\ o.key \in ledger.keys
  BY <1>1, UntoldAre
<1>5. ASSUME NEW b, NEW x \in at(b) PROVE plain(x) /\ x.key \in ledger.keys
  <2>1. CASE b \in known
    <3>1. PICK o \in BookOccurrences(device, b) : x \in Refreshed(o, b)
      BY <1>5, <2>1
    <3>2. plain(o) /\ o.key \in ledger.keys /\ o.hint \in Nat
      BY <1>3, <1>4
    <3>3. x = [key |-> o.key, hint |-> x.hint, anchor |-> NoText] /\ x.hint \in hints
      BY <3>1, <3>2, RefreshedIs
    <3>4. x.key = o.key
      BY <3>3
    <3> QED BY <3>2, <3>3, <3>4
  <2>2. CASE b \notin known
    BY <1>4, <1>5, <2>2
  <2> QED BY <2>1, <2>2
<1>6. ASSUME NEW q \in Records(plan, Aliases) PROVE \E x \in at(q.book) : x.key = q.key
  <2>1. q.key \in Recorded(device, q.book)
    <3>1. <<q.book, q.key>> \in ledger.pairs
      BY <1>2 DEF PairOf
    <3> QED BY <1>1, <3>1 DEF Lists
  <2>2. KeysOf(BookOccurrences(device, q.book)) = Recorded(device, q.book)
    BY <1>1, OccurrencesUntold DEF WellMade
  <2>3. PICK o \in BookOccurrences(device, q.book) : o.key = q.key
    BY <2>1, <2>2, KeyIn
  <2>4. CASE q.book \in known
    <3>1. plain(o) /\ o.hint \in Nat
      BY <1>3, <1>4
    <3>2. \E l \in Lines : plan[l] = o.key /\ l[1] = q.book
      BY <1>2, <2>3, RecordsAre
    <3>3. PICK x \in Refreshed(o, q.book) : x = [key |-> o.key, hint |-> x.hint, anchor |-> NoText]
      BY <3>1, <3>2, RefreshedIs
    <3>4. x.key = q.key /\ x \in at(q.book)
      BY <2>3, <2>4, <3>3
    <3> QED BY <3>4
  <2>5. CASE q.book \notin known
    BY <2>3, <2>5
  <2> QED BY <2>4, <2>5
<1> HIDE DEF at
<1>7. ASSUME NEW r \in kept
      PROVE  /\ r.key \in ledger.keys /\ r.book \in Books /\ r.hint \in hints
             /\ r.anchor = NoText
             /\ [key |-> r.key, book |-> r.book, hint |-> r.hint] \in RecordType
  <2>1. PICK b \in Books : r \in keptAt(b)
    OBVIOUS
  <2>2. PICK o \in at(b) : r = [key |-> o.key, book |-> b, hint |-> o.hint, anchor |-> o.anchor]
    BY <2>1
  <2>3. plain(o) /\ o.key \in ledger.keys
    BY <1>5
  <2>4. o.anchor = NoText
    BY <2>3
  <2> QED BY <1>2, <2>2, <2>3, <2>4 DEF RecordType
<1>8. ASSUME NEW q \in Records(plan, Aliases) PROVE \E r \in kept : r.key = q.key /\ r.book = q.book
  <2>1. PICK x \in at(q.book) : x.key = q.key
    BY <1>6
  <2>2. q.book \in Books /\ q.key \in ledger.keys
    BY <1>2, RecordsAre, KeyIn DEF RecordType
  <2>3. PICK r : r = [key |-> x.key, book |-> q.book, hint |-> x.hint, anchor |-> x.anchor]
    OBVIOUS
  <2>4. r \in keptAt(q.book)
    BY <1>1, <2>1, <2>2, <2>3
  <2>5. r \in kept
    BY <2>2, <2>4
  <2>6. r.key = q.key /\ r.book = q.book
    BY <2>1, <2>3
  <2> QED BY <2>5, <2>6
<1>9. device' = <<Derived(Segment(Firsts(kept), {}, {}, Rows({r \in kept : r.anchor # NoText})),
                          {}, NoLinks)>>
  BY DEF Compact, Firsts, at
<1>10. PICK K : K = kept
  OBVIOUS
<1>11. PICK s : s = Segment(Firsts(K), {}, {}, {})
  OBVIOUS
<1>12. /\ \A r \in K : /\ r.key \in ledger.keys /\ r.hint \in Nat /\ r.anchor = NoText
                         /\ [key |-> r.key, book |-> r.book, hint |-> r.hint] \in RecordType
       /\ \A q \in Records(plan, Aliases) : \E r \in K : r.key = q.key /\ r.book = q.book
  BY <1>3, <1>7, <1>8, <1>10
<1> HIDE DEF kept
<1>13. device' = <<Derived(s, {}, NoLinks)>>
  <2>1. {r \in K : r.anchor # NoText} = {}
    BY <1>12
  <2>2. Rows({}) = {}
    BY DEF Rows
  <2> QED BY <1>9, <1>10, <1>11, <2>1, <2>2
<1>14. s.own = Firsts(K) /\ s.foreign = {} /\ s.tombstones = {} /\ s.rows = {}
  BY <1>11 DEF Segment
<1>15. /\ \A q \in Firsts(K) : \E r \in K : q = [key |-> r.key, book |-> r.book, hint |-> r.hint]
       /\ \A r \in K : \E q \in Firsts(K) : q.key = r.key /\ q.book = r.book
  BY <1>12, FirstsAre
<1>16. SegmentOK(s)
  <2>1. s.own \subseteq RecordType
    BY <1>12, <1>14, <1>15
  <2> QED BY <1>14, <2>1 DEF SegmentOK
<1>17. KeysOf(s.own) = ledger.keys
  <2>1. ASSUME NEW k \in KeysOf(s.own) PROVE k \in ledger.keys
    BY <1>12, <1>14, <1>15, KeyIn
  <2>2. ASSUME NEW k \in ledger.keys PROVE k \in KeysOf(s.own)
    <3>1. PICK q \in Records(plan, Aliases) : q.key = k
      BY <1>2, KeyIn
    <3> QED BY <1>12, <1>14, <1>15, <3>1, KeyIn
  <2> QED BY <2>1, <2>2
<1>18. ledger.pairs \subseteq {PairOf(r) : r \in s.own}
  <2>1. ASSUME NEW q \in Records(plan, Aliases) PROVE \E r \in s.own : PairOf(r) = PairOf(q)
    BY <1>12, <1>14, <1>15 DEF PairOf
  <2> QED BY <1>2, <2>1
<1>19. PICK d : d = <<Derived(s, {}, NoLinks)>>
  OBVIOUS
<1>20. WellMade(d) /\ Exact(d, ledger.keys) /\ Lists(d, ledger.pairs)
  <2>1. /\ WellMade(d) /\ Exact(d, KeysOf(s.own)) /\ Lists(d, {PairOf(r) : r \in s.own})
    BY <1>14, <1>16, <1>19, OneAnswers
  <2> QED BY <1>17, <1>18, <2>1 DEF Lists
<1>21. Bare(d)
  BY <1>14, <1>19, OneParts DEF Bare
<1> QED BY <1>13, <1>19, <1>20, <1>21

\* A device that answers for the ledger still does when it is compacted.
LEMMA CompactKeeps ==
  ASSUME ReleaseInv, NEW known, Compact(known)
  PROVE  ReleaseInv'
<1>1. /\ installed = version /\ Len(device) > 1
      /\ chain' = chain /\ version' = version /\ plan' = plan /\ ledger' = ledger
      /\ warehouse' = warehouse /\ release' = release /\ installed' = installed
  BY DEF Compact
<1>2. version \in 1..MaxVersion /\ MaxVersion \in Nat
  <2>1. version # 0
    BY <1>1 DEF ReleaseInv, Unpublished
  <2> QED BY <2>1, ReleaseAssumption DEF ReleaseInv, ReleaseTypeOK
<1>3. Answers(device)
  BY <1>1, <1>2 DEF ReleaseInv, Following
<1>4. /\ WellMade(device') /\ Exact(device', ledger.keys) /\ Lists(device', ledger.pairs)
      /\ IF Snapped THEN Tells(device', ledger.keys, PlanRows) ELSE Bare(device')
  <2>1. CASE Snapped
    BY <1>2, <1>3, <2>1, CompactedSnapped
  <2>2. CASE ~Snapped
    BY <1>2, <1>3, <2>2, CompactedBare
  <2> QED BY <2>1, <2>2
<1>5. /\ Sharing' = Sharing /\ Snapped' = Snapped /\ Aliases' = Aliases
      /\ PlanRows' = PlanRows
  BY <1>1 DEF Sharing, Snapped, Unsnapped, Aliases, PlanRows
<1>6. Answers(device)'
  BY <1>1, <1>4, <1>5 DEF Answers
<1>7. ReleaseTypeOK'
  <2>1. WellMade(device)'
    BY <1>6 DEF Answers
  <2> QED BY <1>1, <2>1 DEF ReleaseInv, ReleaseTypeOK, WellMade, SliceOK
<1>8. Published' /\ Unpublished'
  BY <1>1, <1>2, <1>5 DEF ReleaseInv, Published, Unpublished
<1>9. Following'
  BY <1>1, <1>2, <1>6 DEF Following
<1> QED BY <1>7, <1>8, <1>9 DEF ReleaseInv

-----------------------------------------------------------------------------
(* The properties.                                                           *)

\* What an up to date device is.
LEMMA UpToDateAnswers ==
  ASSUME ReleaseInv, UpToDate
  PROVE  /\ version > 0 /\ version \in Nat /\ Answers(device) /\ Answers(FromBase)
         /\ plan \in Plans /\ Aliases = Decide(plan, warehouse, Sharing)
         /\ ledger.keys = KeysOf(Records(plan, Aliases))
         /\ ledger.pairs = {PairOf(r) : r \in Records(plan, Aliases)}
<1>1. version > 0 /\ version \in Nat
  BY ReleaseAssumption DEF ReleaseInv, ReleaseTypeOK, UpToDate
<1>2. Answers(device) /\ Answers(FromBase)
  BY <1>1, BaseIsEnough DEF ReleaseInv, Following, UpToDate
<1> QED BY <1>1, <1>2 DEF ReleaseInv, Published, ReleaseTypeOK, Ledger, Aliases

\* Once snapshots are shipped, a device tells the rows of the plan.
LEMMA ToldAnswers ==
  ASSUME ReleaseInv, UpToDate, Snapped, NEW d, Answers(d), NEW b
  PROVE  /\ BookOccurrences(d, b)
              = {[key |-> r.key, hint |-> r.hint, anchor |-> r.anchor] :
                    r \in {q \in PlanRows : q.book = b}}
         /\ \A r \in PlanRows : r.key \in Recorded(d, r.book)
<1>1. PICK R : R = PlanRows
  OBVIOUS
<1>2. \A r \in R : PairOf(r) \in ledger.pairs
  <2>1. /\ plan \in Plans /\ Aliases = Decide(plan, warehouse, Sharing)
        /\ ledger.pairs = {PairOf(r) : r \in Records(plan, Aliases)}
    BY UpToDateAnswers
  <2> QED BY <1>1, <2>1, RowFacts DEF PlanRows
<1> QED BY <1>1, <1>2, OccurrencesAre DEF Answers

\* Before, it has the keys of its records, of which no snapshot tells.
LEMMA UntoldAnswers ==
  ASSUME ReleaseInv, UpToDate, ~Snapped, NEW d, Answers(d)
  PROVE  /\ chain = "lines"
         /\ \A k : Telling(d, k) = {}
         /\ \A b : KeysOf(BookOccurrences(d, b)) = Recorded(d, b)
<1>1. version > 0
  BY UpToDateAnswers
<1>2. chain = "lines"
  BY <1>1 DEF ReleaseInv, Published
<1>3. IsSequence(d) /\ Bare(d)
  BY DEF Answers, WellMade
<1>4. \A k : Telling(d, k) = {}
  BY <1>3 DEF Telling, Bare
<1> QED BY <1>2, <1>3, <1>4, OccurrencesUntold

\* The device and the base tell the same rows of each book; without snapshots,
\* the device names the base's keys, and none that is dead.
LEMMA AnswersAgree == ReleaseInv => AnswersAsBase
<1>1. SUFFICES ASSUME ReleaseInv, UpToDate, NEW b \in Books
               PROVE  IF ~Unsnapped THEN BookOccurrences(device, b) = BookOccurrences(FromBase, b)
                      ELSE /\ KeysOf(BookOccurrences(FromBase, b))
                                \subseteq KeysOf(BookOccurrences(device, b))
                           /\ KeysOf(BookOccurrences(device, b)) \subseteq ledger.keys
  BY DEF AnswersAsBase, FromBase
<1>2. Answers(device) /\ Answers(FromBase)
  BY <1>1, UpToDateAnswers
<1>3. CASE Snapped
  BY <1>1, <1>2, <1>3, ToldAnswers DEF Snapped
<1>4. CASE ~Snapped
  <2>1. /\ KeysOf(BookOccurrences(device, b)) = Recorded(device, b)
        /\ KeysOf(BookOccurrences(FromBase, b)) = Recorded(FromBase, b)
    BY <1>1, <1>2, <1>4, UntoldAnswers
  <2>2. Recorded(device, b) \subseteq ledger.keys
    BY <1>2, RecordedIsLive DEF Answers, Exact
  <2>3. ASSUME NEW k \in Recorded(FromBase, b) PROVE k \in Recorded(device, b)
    <3>1. /\ release.base.own = Records(plan, Aliases) /\ release.base.foreign = {}
          /\ ledger.pairs = {PairOf(r) : r \in Records(plan, Aliases)}
      BY <1>1, UpToDateAnswers DEF ReleaseInv, Published, Base, Segment
    <3>2. DOMAIN FromBase = {1} /\ FromBase[1].segment = release.base
      BY OneParts DEF FromBase
    <3>3. PICK q \in Fresh(FromBase, 1, b) : q.key = k
      BY <2>3, <3>2, RecordedIn
    <3>4. q \in Records(plan, Aliases) /\ q.book = b
      BY <3>1, <3>2, <3>3 DEF Fresh
    <3>5. <<b, k>> \in ledger.pairs
      BY <3>1, <3>3, <3>4 DEF PairOf
    <3> QED BY <1>2, <3>5 DEF Answers, Lists
  <2> QED BY <1>4, <2>1, <2>2, <2>3 DEF Snapped
<1> QED BY <1>3, <1>4

\* Every line is found.
LEMMA AllCovered == ReleaseInv => CoverageComplete
<1>1. SUFFICES ASSUME ReleaseInv, UpToDate, NEW l \in Lines, plan[l] # NoText
               PROVE  IF Unsnapped
                      THEN plan[l] \in KeysOf(BookOccurrences(device, l[1]))
                      ELSE plan[l] \in {o.anchor : o \in BookOccurrences(device, l[1])}
  BY DEF CoverageComplete
<1>2. /\ Answers(device) /\ plan \in Plans
      /\ Aliases = Decide(plan, warehouse, Sharing)
      /\ ledger.pairs = {PairOf(r) : r \in Records(plan, Aliases)}
  BY <1>1, UpToDateAnswers
<1>3. CASE Snapped
  <2>1. ~Unsnapped
    BY <1>3 DEF Snapped
  <2>2. PICK R : R = PlanRows
    OBVIOUS
  <2>3. PICK r \in R : r.book = l[1] /\ r.anchor = plan[l]
    BY <1>1, <1>2, <2>2, RowFacts DEF PlanRows
  <2>4. PICK o : o = [key |-> r.key, hint |-> r.hint, anchor |-> r.anchor]
    OBVIOUS
  <2>5. o \in BookOccurrences(device, l[1]) /\ o.anchor = plan[l]
    BY <1>1, <1>2, <1>3, <2>2, <2>3, <2>4, ToldAnswers
  <2> QED BY <2>1, <2>5
<1>4. CASE ~Snapped
  <2>1. /\ chain = "lines" /\ Unsnapped
        /\ KeysOf(BookOccurrences(device, l[1])) = Recorded(device, l[1])
    BY <1>1, <1>2, <1>4, UntoldAnswers DEF Snapped
  <2>2. Aliases = {}
    BY <1>2, <2>1 DEF Sharing, Decide
  <2>3. PICK r \in Records(plan, Aliases) : r.key = plan[l] /\ r.book = l[1]
    BY <1>1, <1>2, <2>2, RecordsHave
  <2>4. plan[l] \in Recorded(device, l[1])
    <3>1. <<l[1], plan[l]>> \in ledger.pairs
      BY <1>2, <2>3 DEF PairOf
    <3>2. Lists(device, ledger.pairs)
      BY <1>2 DEF Answers
    <3> QED BY <3>1, <3>2 DEF Lists
  <2> QED BY <2>1, <2>4
<1> QED BY <1>3, <1>4

\* A key is admitted in a book where a live slot of it is scanned there, and
\* the newest snapshot of it, if there is one, has a row there.
LEMMA AdmittedIn ==
  ASSUME NEW d, WellMade(d), NEW b, NEW k
  PROVE  k \in {at[2] : at \in Admitted(d, b)} <=>
           /\ k \in Recorded(d, b)
           /\ Telling(d, k) = {} \/ \E r \in Newest(d, k) : r.book = b
<1>1. ASSUME NEW at \in Scanned(d, b), at[2] = k
      PROVE  at[2] \in LiveKeys(d, at[1]) => k \in Recorded(d, b)
  <2>1. PICK i \in DOMAIN d :
           \/ \E r \in d[i].segment.own : r.book = b /\ at = <<i, r.key>>
           \/ \E r \in d[i].segment.foreign :
                r.book = b /\ d[i].links[r] # 0 /\ at = <<d[i].links[r], r.key>>
    BY DEF Scanned
  <2>2. CASE \E r \in d[i].segment.own : r.book = b /\ at = <<i, r.key>>
    <3>1. PICK r \in d[i].segment.own : r.book = b /\ at = <<i, r.key>>
      BY <2>2
    <3>2. at[1] = i /\ r.key = k
      BY <1>1, <3>1
    <3>3. SUFFICES ASSUME k \in LiveKeys(d, i) PROVE k \in Recorded(d, b)
      BY <1>1, <3>2
    <3>4. r \in Fresh(d, i, b)
      BY <3>1, <3>2, <3>3 DEF Fresh, LiveKeys
    <3> QED BY <3>2, <3>4, RecordedIn
  <2>3. CASE \E r \in d[i].segment.foreign :
                r.book = b /\ d[i].links[r] # 0 /\ at = <<d[i].links[r], r.key>>
    <3>1. PICK r \in d[i].segment.foreign :
                r.book = b /\ d[i].links[r] # 0 /\ at = <<d[i].links[r], r.key>>
      BY <2>3
    <3>2. at[1] = d[i].links[r] /\ r.key = k
      BY <1>1, <3>1
    <3>3. SUFFICES ASSUME k \in LiveKeys(d, d[i].links[r]) PROVE k \in Recorded(d, b)
      BY <1>1, <3>2
    <3>4. r \in Fresh(d, i, b)
      BY <3>1, <3>2, <3>3 DEF Fresh, LiveKeys
    <3> QED BY <3>2, <3>4, RecordedIn
  <2> QED BY <2>1, <2>2, <2>3
<1>2. ASSUME k \in Recorded(d, b)
      PROVE  \E at \in Scanned(d, b) : at[2] = k /\ at[2] \in LiveKeys(d, at[1])
  <2>1. PICK i \in DOMAIN d : \E q \in Fresh(d, i, b) : q.key = k
    BY <1>2, RecordedIn
  <2>2. PICK q \in Fresh(d, i, b) : q.key = k
    BY <2>1
  <2>3. CASE q \in d[i].segment.own /\ q.book = b /\ q.key \notin d[i].deleted
    <3>1. <<i, k>> \in Scanned(d, b)
      BY <2>2, <2>3 DEF Scanned
    <3>2. k \in LiveKeys(d, i)
      BY <2>2, <2>3, KeyIn DEF LiveKeys
    <3> QED BY <3>1, <3>2
  <2>4. CASE /\ q \in d[i].segment.foreign /\ q.book = b /\ d[i].links[q] # 0
             /\ q.key \notin d[d[i].links[q]].deleted
    <3>1. <<d[i].links[q], k>> \in Scanned(d, b)
      BY <2>2, <2>4 DEF Scanned
    <3>2. k \in LiveKeys(d, d[i].links[q])
      BY <2>2, <2>4 DEF LiveKeys, WellMade, SliceOK
    <3> QED BY <3>1, <3>2
  <2> QED BY <2>2, <2>3, <2>4 DEF Fresh
<1> DEFINE telling(key) == {i \in DOMAIN d : \E r \in d[i].segment.rows : r.key = key}
           told(key) == telling(key) = {} \/ \E r \in d[Max(telling(key))].segment.rows :
                                                r.key = key /\ r.book = b
<1>3. Admitted(d, b) = {at \in Scanned(d, b) : at[2] \in LiveKeys(d, at[1]) /\ told(at[2])}
  BY DEF Admitted
<1>4. told(k) <=> (Telling(d, k) = {} \/ \E r \in Newest(d, k) : r.book = b)
  <2>1. telling(k) = Telling(d, k)
    BY DEF Telling
  <2> QED BY <2>1 DEF Newest, RowsOf
<1> HIDE DEF told
<1>5. k \in {at[2] : at \in Admitted(d, b)} <=>
        \E at \in Scanned(d, b) : at[2] = k /\ k \in LiveKeys(d, at[1]) /\ told(k)
  BY <1>3
<1> QED BY <1>1, <1>2, <1>4, <1>5

\* What a filtered scan admits of a book and what the book records agree.
LEMMA FiltersAgree == ReleaseInv => FilterAgrees
<1>1. SUFFICES ASSUME ReleaseInv, UpToDate, NEW b \in Books, NEW k
               PROVE  k \in {at[2] : at \in Admitted(device, b)}
                        <=> k \in KeysOf(BookOccurrences(device, b))
  BY DEF FilterAgrees, KeysOf
<1>2. Answers(device) /\ WellMade(device)
  BY <1>1, UpToDateAnswers DEF Answers
<1>3. k \in {at[2] : at \in Admitted(device, b)} <=>
        /\ k \in Recorded(device, b)
        /\ Telling(device, k) = {} \/ \E r \in Newest(device, k) : r.book = b
  BY <1>2, AdmittedIn
<1>4. CASE Snapped
  <2>1. /\ Exact(device, ledger.keys) /\ Tells(device, ledger.keys, PlanRows)
    BY <1>2, <1>4 DEF Answers
  <2>2. k \in Recorded(device, b) =>
          Telling(device, k) # {} /\ Newest(device, k) = RowsOf(PlanRows, k)
    BY <1>2, <2>1, RecordedIsLive DEF Exact, Tells
  <2>3. k \in KeysOf(BookOccurrences(device, b)) <=> \E r \in PlanRows : r.key = k /\ r.book = b
    <3>1. BookOccurrences(device, b)
            = {[key |-> r.key, hint |-> r.hint, anchor |-> r.anchor] :
                  r \in {q \in PlanRows : q.book = b}}
      BY <1>1, <1>2, <1>4, ToldAnswers
    <3>2. ASSUME NEW r \in PlanRows, r.key = k, r.book = b
          PROVE  k \in KeysOf(BookOccurrences(device, b))
      <4>1. [key |-> r.key, hint |-> r.hint, anchor |-> r.anchor] \in BookOccurrences(device, b)
        BY <3>1, <3>2
      <4> QED BY <3>2, <4>1, KeyIn
    <3>3. ASSUME NEW o \in BookOccurrences(device, b), o.key = k
          PROVE  \E r \in PlanRows : r.key = k /\ r.book = b
      <4>1. PICK r \in PlanRows :
               r.book = b /\ o = [key |-> r.key, hint |-> r.hint, anchor |-> r.anchor]
        BY <3>1
      <4> QED BY <3>3, <4>1
    <3> QED BY <3>2, <3>3, KeyIn
  <2>4. \A r \in PlanRows : r.key \in Recorded(device, r.book)
    BY <1>1, <1>2, <1>4, ToldAnswers
  <2> QED BY <1>3, <2>2, <2>3, <2>4 DEF RowsOf
<1>5. CASE ~Snapped
  BY <1>1, <1>2, <1>3, <1>5, UntoldAnswers
<1> QED BY <1>4, <1>5

\* Nothing is published and nothing is installed.
LEMMA InitRelease == ReleaseInit => ReleaseInv
<1> SUFFICES ASSUME ReleaseInit PROVE ReleaseInv
  OBVIOUS
<1>1. /\ version = 0 /\ installed = 0 /\ device = <<>> /\ ledger.keys = {} /\ ledger.pairs = {}
      /\ chain \in Kinds /\ warehouse = {}
      /\ release.delta = Segment({}, {}, {}, {}) /\ release.base = Segment({}, {}, {}, {})
  BY DEF ReleaseInit
<1>2. plan \in Plans
  BY DEF ReleaseInit, Plans
<1>3. SegmentOK(Segment({}, {}, {}, {}))
  BY DEF SegmentOK, Segment
<1>4. ReleaseTypeOK
  BY <1>1, <1>2, <1>3, ReleaseAssumption DEF ReleaseTypeOK
<1> QED BY <1>1, <1>4 DEF ReleaseInv, Published, Unpublished, Following

\* Every step keeps the invariant, where every text of a plan is embedded.
LEMMA NextRelease ==
  ASSUME WarehouseWhole, ReleaseInv, [ReleaseNext]_releaseVars
  PROVE  ReleaseInv'
<1>1. CASE PublishNext
  BY <1>1, PublishKeeps
<1>2. CASE InstallDelta
  BY <1>2, InstallDeltaKeeps
<1>3. CASE InstallBase
  BY <1>3, InstallBaseKeeps
<1>4. ASSUME NEW known \in KnownBooks, Compact(known) PROVE ReleaseInv'
  BY <1>4, CompactKeeps
<1>5. CASE UNCHANGED releaseVars
  BY <1>5 DEF releaseVars, ReleaseInv, ReleaseTypeOK, Published, Unpublished, Following, Answers,
              Sharing, Snapped, Unsnapped, Aliases, PlanRows, FromBase
<1> QED BY <1>1, <1>2, <1>3, <1>4, <1>5 DEF ReleaseNext

\* And so it always holds.
LEMMA ReleaseInvariant == ASSUME WarehouseWhole PROVE ReleaseSpec => []ReleaseInv
<1> QED BY InitRelease, NextRelease, PTL DEF ReleaseSpec

\* Every set a device holds is one a reader takes, and so are the segments
\* published: links lead back to a segment that ships the key, no key is own and
\* foreign at once, and a row has its record (NewGeneration::push, assemble.rs).
THEOREM DeviceSound == ASSUME WarehouseWhole PROVE ReleaseSpec => []ReleaseTypeOK
<1>1. ReleaseInv => ReleaseTypeOK
  BY DEF ReleaseInv
<1> QED BY <1>1, ReleaseInvariant, PTL

\* The ledger a delta is cut against knows exactly the keys of a device that is
\* up to date, whatever it installed and compacted (ledger.rs classification).
THEOREM LedgerTrue == ASSUME WarehouseWhole PROVE ReleaseSpec => []LedgerKnowsTheDevice
<1>1. ReleaseInv => LedgerKnowsTheDevice
  BY UpToDateAnswers DEF LedgerKnowsTheDevice, Answers, Exact
<1> QED BY <1>1, ReleaseInvariant, PTL

\* Once releases have snapshots, a device that followed the deltas answers in each
\* book as one that took the base: no place of an older release survives.  Until
\* then, or for good in a chain without them, it names in each book at least the
\* base's keys and none that is dead (book_occurrences, compact).
THEOREM DeltasAreBases == ASSUME WarehouseWhole PROVE ReleaseSpec => []AnswersAsBase
<1> QED BY AnswersAgree, ReleaseInvariant, PTL

\* A filtered search admits a key in a book exactly where the book's own
\* occurrences name it (scan.rs effective_role, mod.rs book_occurrences).
THEOREM WalksAgree == ASSUME WarehouseWhole PROVE ReleaseSpec => []FilterAgrees
<1> QED BY FiltersAgree, ReleaseInvariant, PTL

\* Each line of the plan is found on a device that is up to date: at the line,
\* or, before the first release with snapshots, by its key (gates.rs coverage).
THEOREM EveryLineFound == ASSUME WarehouseWhole PROVE ReleaseSpec => []CoverageComplete
<1> QED BY AllCovered, ReleaseInvariant, PTL

=============================================================================
