-------------------------- MODULE CoordinatorProofs --------------------------
(***************************************************************************)
(* Coordinator's invariants, for every number of searches, every capacity  *)
(* and any interleaving of searches, operations and commits.               *)
(***************************************************************************)
EXTENDS Coordinator, FiniteSetTheorems, TLAPS

-----------------------------------------------------------------------------
(* The inductive invariant.                                                *)

\* No call has changed the vectors without beginning a generation since.
Settled == ~failed /\ batch # "dirty"

OfNow(answer) == answer = Degraded \/ answer.vectors = vectors

Knows(answer, known) == answer = Degraded \/ answer.host >= known

\* The key is that of the search's query and of the host it knows of.
KeyOK(v) ==
  v.kind = "cached" =>
    /\ v.key \in Keys
    /\ v.key.query = v.query /\ v.key.host = v.since /\ v.since <= host

\* From its scan to its insertion a search holds the lock, and its answer is that
\* of the vectors in service.
ComputedOK(v) ==
  v.pc \in {"fuse", "store", "put"} /\ v.kind = "cached" =>
    v.answer \in Answers /\ OfNow(v.answer) /\ Knows(v.answer, v.since)

StoredOK(v) ==
  /\ v.pc \in {"lookup", "look", "store", "put", "hit"} => v.kind = "cached"
  /\ v.pc \in {"store", "put"} => v.query \in answered
  /\ v.pc \in {"look", "put"} => v.seen <= gen

HitOK(v) ==
  v.pc = "hit" =>
    /\ v.answer \in Answers /\ Knows(v.answer, v.since)
    /\ Settled => OfNow(v.answer)

SearchOK(v) == v.pc # "rest" => KeyOK(v) /\ ComputedOK(v) /\ StoredOK(v) /\ HitOK(v)

AllSearches == \A s \in Searches : SearchOK(search[s])

\* An entry is what some caller got, of a generation that has begun.
EntryOK(e) ==
  /\ e.gen <= gen
  /\ e.key.query \in answered
  /\ Knows(e.answer, e.key.host)

\* A lookup may yet serve entries of the generation it saw.
Servable(e) ==
  e.gen = gen \/ \E s \in Searches : search[s].pc = "look" /\ search[s].seen = e.gen

AllEntries ==
  /\ \A e \in cache : EntryOK(e)
  /\ Settled => \A e \in cache : Servable(e) => OfNow(e.answer)

CachesFinite == IsFiniteSet(cache) /\ IsFiniteSet(embedded)

IInv ==
  TypeOK /\ CachesFinite /\ AllSearches /\ AllEntries /\ embedded \subseteq answered

-----------------------------------------------------------------------------
(* The caches.                                                             *)

\* What is left when one more must fit leaves room for it.
LEMMA EvictedFits ==
  ASSUME NEW entries, IsFiniteSet(entries), NEW limit \in Nat \ {0},
         NEW kept \in Evicted(entries, limit)
  PROVE  kept \subseteq entries /\ IsFiniteSet(kept) /\ Cardinality(kept) <= limit - 1
<1>1. Cardinality(entries) \in Nat
  BY FS_CardinalityType
<1>2. CASE Cardinality(entries) < limit
  <2>1. kept = entries
    BY <1>2 DEF Evicted
  <2> QED
    BY <1>1, <1>2, <2>1
<1>3. CASE ~(Cardinality(entries) < limit)
  <2>1. kept \in SUBSET entries /\ Cardinality(kept) = limit - 1
    BY <1>3 DEF Evicted
  <2>2. IsFiniteSet(kept)
    BY <2>1, FS_Subset
  <2> QED
    BY <2>1, <2>2
<1> QED
  BY <1>2, <1>3

\* One more element adds at most one.
LEMMA OneMore ==
  ASSUME NEW kept, IsFiniteSet(kept), NEW limit \in Nat \ {0},
         Cardinality(kept) <= limit - 1, NEW x
  PROVE  IsFiniteSet(kept \cup {x}) /\ Cardinality(kept \cup {x}) <= limit
<1>1. IsFiniteSet(kept \cup {x}) /\ Cardinality(kept) \in Nat
      /\ Cardinality(kept \cup {x}) \in {Cardinality(kept), Cardinality(kept) + 1}
  BY FS_AddElement, FS_CardinalityType
<1> QED
  BY <1>1

\* What insert_with_capacity leaves: the entry, and entries of other keys.
LEMMA InsertionKeeps ==
  ASSUME TypeOK, CachesFinite, NEW entry \in Entries, NEW limit \in 1 .. Capacity,
         Insertion(entry, limit)
  PROVE  /\ cache' \subseteq cache \cup {entry}
         /\ \A e \in cache' : e.key = entry.key => e = entry
         /\ IsFiniteSet(cache') /\ Cardinality(cache') <= Capacity
<1>0. Capacity \in Nat \ {0} /\ limit \in Nat \ {0} /\ limit <= Capacity
  BY CoordinatorAssumption
<1>1. CASE Under(entry.key) # {}
  <2>1. cache' = (cache \ Under(entry.key)) \cup {entry}
    BY <1>1 DEF Insertion
  <2>2. PICK old \in cache : old.key = entry.key
    BY <1>1 DEF Under
  <2>3. cache \ Under(entry.key) \subseteq cache \ {old}
    BY <2>2 DEF Under
  <2>4. IsFiniteSet(cache \ {old}) /\ Cardinality(cache \ {old}) = Cardinality(cache) - 1
    BY <2>2, FS_RemoveElement DEF CachesFinite
  <2>5. IsFiniteSet(cache \ Under(entry.key))
        /\ Cardinality(cache \ Under(entry.key)) <= Cardinality(cache \ {old})
    BY <2>3, <2>4, FS_Subset
  <2>6. Cardinality(cache) \in Nat /\ Cardinality(cache \ Under(entry.key)) \in Nat
    BY <2>5, FS_CardinalityType DEF CachesFinite
  <2>7. Cardinality(cache \ Under(entry.key)) <= Capacity - 1
    BY <1>0, <2>4, <2>5, <2>6 DEF TypeOK
  <2>8. IsFiniteSet(cache') /\ Cardinality(cache') <= Capacity
    BY <1>0, <2>1, <2>5, <2>7, OneMore
  <2> QED
    BY <2>1, <2>8 DEF Under
<1>2. CASE Under(entry.key) = {}
  <2>1. PICK kept \in Evicted(cache, limit) : cache' = kept \cup {entry}
    BY <1>2 DEF Insertion
  <2>2. kept \subseteq cache /\ IsFiniteSet(kept) /\ Cardinality(kept) <= limit - 1
    BY <1>0, EvictedFits DEF CachesFinite
  <2>3. Cardinality(kept) \in Nat
    BY <2>2, FS_CardinalityType
  <2>4. Cardinality(kept) <= Capacity - 1
    BY <1>0, <2>2, <2>3
  <2>5. IsFiniteSet(cache') /\ Cardinality(cache') <= Capacity
    BY <1>0, <2>1, <2>2, <2>4, OneMore
  <2> QED
    BY <1>2, <2>1, <2>2, <2>5 DEF Under
<1> QED
  BY <1>1, <1>2

\* The embedding cache stays within its capacity.
LEMMA EmbeddingKeeps ==
  ASSUME TypeOK, CachesFinite, NEW q \in Queries, Embedding(q)
  PROVE  /\ embedded' \subseteq embedded \cup {q}
         /\ IsFiniteSet(embedded') /\ Cardinality(embedded') <= EmbeddingCapacity
<1>0. EmbeddingCapacity \in Nat \ {0}
  BY CoordinatorAssumption
<1>1. CASE q \in embedded
  BY <1>1 DEF Embedding, TypeOK, CachesFinite
<1>2. CASE q \notin embedded
  <2>1. PICK kept \in Evicted(embedded, EmbeddingCapacity) : embedded' = kept \cup {q}
    BY <1>2 DEF Embedding
  <2>2. /\ kept \subseteq embedded /\ IsFiniteSet(kept)
        /\ Cardinality(kept) <= EmbeddingCapacity - 1
    BY <1>0, EvictedFits DEF CachesFinite
  <2> QED
    BY <1>0, <2>1, <2>2, OneMore
<1> QED
  BY <1>1, <1>2

\* Entries that go leave a cache within its bounds.
LEMMA FewerEntries ==
  ASSUME TypeOK, CachesFinite, cache' \subseteq cache
  PROVE  IsFiniteSet(cache') /\ Cardinality(cache') <= Capacity
<1>1. IsFiniteSet(cache') /\ Cardinality(cache') <= Cardinality(cache)
  BY FS_Subset DEF CachesFinite
<1>2. Cardinality(cache) \in Nat /\ Cardinality(cache') \in Nat
  BY <1>1, FS_CardinalityType DEF CachesFinite
<1> QED
  BY <1>1, <1>2, CoordinatorAssumption DEF TypeOK

-----------------------------------------------------------------------------
(* Frames.                                                                 *)

\* Every variable but the caches and the searches, and these.
RestOK ==
  /\ side \in {"self", "official"} /\ batch \in {"none", "clean", "dirty"}
  /\ {works, clearing, failed} \subseteq BOOLEAN
  /\ {vectors, current} \subseteq Versions /\ host \in 0 .. MaxHost /\ gen \in Nat

CacheOK ==
  /\ cache \subseteq Entries /\ Cardinality(cache) <= Capacity
  /\ \A d, e \in cache : d.key = e.key => d = e
  /\ IsFiniteSet(cache)

EmbeddedOK ==
  /\ embedded \subseteq Queries /\ Cardinality(embedded) <= EmbeddingCapacity
  /\ IsFiniteSet(embedded)

PositionsOK == search \in [Searches -> Positions \cup {AtRest}]

\* The parts of TypeOK and CachesFinite.
LEMMA Parts ==
  ASSUME IInv
  PROVE  RestOK /\ CacheOK /\ EmbeddedOK /\ PositionsOK /\ answered \subseteq Queries
BY DEF IInv, TypeOK, CachesFinite, RestOK, CacheOK, EmbeddedOK, PositionsOK

\* A cache that loses entries stays one.
LEMMA CacheShrinks == ASSUME IInv, cache' \subseteq cache PROVE CacheOK'
BY FewerEntries DEF IInv, TypeOK, CachesFinite, CacheOK

\* A caches that is left alone stays as it is.
LEMMA EmbeddedStays == ASSUME IInv, UNCHANGED embedded PROVE EmbeddedOK'
BY Parts DEF EmbeddedOK

\* What one search does to its own position leaves the others theirs.
LEMMA OneSearch ==
  ASSUME IInv, NEW s \in Searches, NEW w \in Positions \cup {AtRest},
         search' = [search EXCEPT ![s] = w]
  PROVE  /\ PositionsOK'
         /\ search'[s] = w
         /\ \A t \in Searches \ {s} : search'[t] = search[t]
BY Parts DEF PositionsOK

\* The searches' part of the invariant, where one search moves and the rest stands.
LEMMA SearchesFrame ==
  ASSUME IInv, NEW s \in Searches,
         \A t \in Searches \ {s} : search'[t] = search[t], SearchOK(search[s])',
         UNCHANGED <<vectors, host, gen, failed, batch>>, answered \subseteq answered'
  PROVE  AllSearches'
<1> SUFFICES ASSUME NEW t \in Searches, t # s PROVE SearchOK(search[t])'
  BY DEF AllSearches
<1>1. search'[t] = search[t] /\ SearchOK(search[t])
  BY DEF IInv, AllSearches
<1> QED
  BY <1>1 DEF SearchOK, KeyOK, ComputedOK, StoredOK, HitOK, Settled, OfNow, Knows

\* No search moves, and nothing it depends on but the host's generation, a generation
\* of the cache or the batch.
LEMMA SearchesStand ==
  ASSUME IInv, UNCHANGED <<search, vectors>>, Settled' => Settled,
         host' \in Nat, host <= host', gen' \in Nat, gen <= gen', answered \subseteq answered'
  PROVE  AllSearches'
<1> SUFFICES ASSUME NEW t \in Searches, search[t].pc # "rest" PROVE SearchOK(search[t])'
  BY DEF AllSearches, SearchOK
<1>1. SearchOK(search[t])
  BY DEF IInv, AllSearches
<1>2. search[t] \in Positions
  BY Parts DEF PositionsOK, AtRest
<1>3. search[t].since \in Nat /\ search[t].seen \in Nat /\ host \in Nat /\ gen \in Nat
  BY <1>2, Parts, CoordinatorAssumption DEF Positions, RestOK
<1>4. KeyOK(search[t])' /\ StoredOK(search[t])'
  BY <1>1, <1>3 DEF SearchOK, KeyOK, StoredOK
<1>5. ComputedOK(search[t])' /\ HitOK(search[t])'
  BY <1>1 DEF SearchOK, ComputedOK, HitOK, OfNow, Knows
<1> QED
  BY <1>4, <1>5 DEF SearchOK

\* Under the write lock no search holds anything of the index.
LEMMA SearchesFree ==
  ASSUME IInv, Writable, UNCHANGED <<search, host, answered>>
  PROVE  AllSearches'
<1> SUFFICES ASSUME NEW t \in Searches, search[t].pc # "rest" PROVE SearchOK(search[t])'
  BY DEF AllSearches, SearchOK
<1>1. SearchOK(search[t]) /\ search[t].pc \in Steps
  BY Parts DEF IInv, AllSearches, PositionsOK, Positions, AtRest
<1>2. search[t].pc = "fuse" /\ search[t].kind = "prepared"
  BY <1>1 DEF Writable, Reads
<1> QED
  BY <1>1, <1>2 DEF SearchOK, KeyOK, ComputedOK, StoredOK, HitOK

\* The entries' part, where vectors and generation stand and no lookup begins but on
\* the generation that is.
LEMMA EntriesFrame ==
  ASSUME IInv, UNCHANGED <<vectors, gen>>, Settled' => Settled, answered \subseteq answered',
         \A t \in Searches : search'[t].pc = "look" =>
           \/ search[t].pc = "look" /\ search'[t].seen = search[t].seen
           \/ search'[t].seen = gen,
         \A e \in cache' : e \in cache \/ (EntryOK(e)' /\ OfNow(e.answer)')
  PROVE  AllEntries'
<1>1. ASSUME NEW e \in cache' PROVE EntryOK(e)'
  <2>1. CASE e \in cache
    BY <2>1 DEF IInv, AllEntries, EntryOK, Knows
  <2> QED
    BY <2>1
<1>2. ASSUME Settled', NEW e \in cache', Servable(e)' PROVE OfNow(e.answer)'
  <2>1. CASE e \in cache
    <3>1. Servable(e)
      BY <1>2 DEF Servable
    <3> QED
      BY <1>2, <2>1, <3>1 DEF IInv, AllEntries, OfNow
  <2> QED
    BY <1>2, <2>1
<1> QED
  BY <1>1, <1>2 DEF AllEntries

\* A new generation, begun while no lookup runs, leaves nothing to serve.
LEMMA EntriesOutdated ==
  ASSUME IInv, Writable, gen' = gen + 1, UNCHANGED <<cache, search, answered>>
  PROVE  AllEntries'
<1>0. gen \in Nat
  BY Parts DEF RestOK
<1>1. ASSUME NEW e \in cache PROVE e.gen \in Nat /\ e.gen <= gen
  BY Parts DEF IInv, AllEntries, EntryOK, CacheOK, Entries
<1>2. \A e \in cache : EntryOK(e)'
  BY <1>0, <1>1 DEF IInv, AllEntries, EntryOK, Knows
<1>3. ASSUME NEW e \in cache PROVE ~Servable(e)'
  BY <1>0, <1>1 DEF Servable, Writable, Reads, Steps
<1> QED
  BY <1>2, <1>3 DEF AllEntries

\* Vectors change while no generation begins: then a call has failed, or a batch runs.
LEMMA EntriesUnsettled ==
  ASSUME IInv, ~Settled', UNCHANGED <<cache, gen, answered>>
  PROVE  AllEntries'
BY DEF IInv, AllEntries, EntryOK, Knows

-----------------------------------------------------------------------------
(* The steps of a search.                                                  *)

\* What a search that is under way is.
LEMMA UnderWay ==
  ASSUME IInv, NEW s \in Searches, search[s].pc # "rest"
  PROVE  /\ search[s] \in Positions
         /\ search[s].query \in Queries /\ search[s].since \in Nat
         /\ KeyOK(search[s]) /\ ComputedOK(search[s])
         /\ StoredOK(search[s]) /\ HitOK(search[s])
<1>1. search[s] \in Positions
  BY Parts DEF PositionsOK, AtRest
<1>2. search[s].query \in Queries /\ search[s].since \in Nat
  BY <1>1, CoordinatorAssumption DEF Positions
<1> QED
  BY <1>1, <1>2 DEF IInv, AllSearches, SearchOK

\* What the step of a search leaves: the index as it is, callers with their answers,
\* the caches within their bounds, and any new entry one that may be served.
Kept ==
  /\ UNCHANGED <<service, gen, clearing, batch, failed>>
  /\ answered \subseteq answered' /\ answered' \subseteq Queries
  /\ CacheOK' /\ EmbeddedOK' /\ embedded' \subseteq answered'
  /\ \A e \in cache' : e \in cache \/ (EntryOK(e)' /\ OfNow(e.answer)')

\* A step of one search, from its parts.
LEMMA SearchStep ==
  ASSUME IInv, NEW s \in Searches, NEW w, w \in Positions \cup {AtRest},
         search' = [search EXCEPT ![s] = w],
         search'[s] = w => SearchOK(search[s])',
         w.pc = "look" => w.seen = gen,
         Kept
  PROVE  IInv'
<1> USE DEF Kept
<1>1. PositionsOK' /\ search'[s] = w /\ \A t \in Searches \ {s} : search'[t] = search[t]
  BY OneSearch
<1>2. RestOK'
  BY Parts DEF RestOK, service
<1>3. UNCHANGED <<vectors, host, gen, failed, batch>>
  BY DEF service
<1>4. AllSearches'
  BY <1>1, <1>3, SearchesFrame
<1>5. \A t \in Searches : search'[t].pc = "look" =>
           \/ search[t].pc = "look" /\ search'[t].seen = search[t].seen
           \/ search'[t].seen = gen
  BY <1>1
<1>6. Settled' => Settled
  BY <1>3 DEF Settled
<1>7. AllEntries'
  BY <1>3, <1>5, <1>6, EntriesFrame
<1> QED
  BY <1>1, <1>2, <1>4, <1>7 DEF IInv, TypeOK, CachesFinite, RestOK, CacheOK,
     EmbeddedOK, PositionsOK

\* Neither cache changes.
LEMMA KeptAsItIs ==
  ASSUME IInv, UNCHANGED <<service, gen, cache, embedded, clearing, batch, failed, answered>>
  PROVE  Kept
<1>1. CacheOK' /\ EmbeddedOK'
  BY Parts DEF CacheOK, EmbeddedOK
<1>2. answered' \subseteq Queries /\ embedded' \subseteq answered'
  BY Parts DEF IInv
<1>3. \A e \in cache' : e \in cache
  OBVIOUS
<1>4. ASSUME NEW e \in cache' PROVE e \in cache \/ (EntryOK(e)' /\ OfNow(e.answer)')
  BY <1>3
<1>5. answered \subseteq answered'
  OBVIOUS
<1> QED
  BY <1>1, <1>2, <1>4, <1>5 DEF Kept

\* The step that begins a search.
LEMMA BeginStep == ASSUME IInv, NEW s \in Searches, Begin(s) PROVE IInv'
<1>1. PICK q \in Queries, kind \in {"cached", "plain", "prepared"} :
        search' = [search EXCEPT ![s] =
          [AtRest EXCEPT !.pc = IF kind = "cached" THEN "lookup" ELSE "search",
                         !.kind = kind, !.query = q,
                         !.key = IF kind = "cached" THEN Key(q) ELSE None,
                         !.since = IF kind = "cached" THEN host ELSE 0]]
  BY DEF Begin
<1> DEFINE pc == IF kind = "cached" THEN "lookup" ELSE "search"
           key == IF kind = "cached" THEN Key(q) ELSE None
           since == IF kind = "cached" THEN host ELSE 0
           w == [AtRest EXCEPT !.pc = pc, !.kind = kind, !.query = q, !.key = key,
                               !.since = since]
<1>2. Key(q) \in Keys /\ Key(q).query = q /\ Key(q).host = host
  BY Parts, CoordinatorAssumption DEF Key, Keys, RestOK, Versions
<1>3. pc \in Steps /\ key \in Keys \cup {None} /\ since \in 0 .. MaxHost
  BY <1>2, Parts, CoordinatorAssumption DEF Steps, RestOK
<1>4. search' = [search EXCEPT ![s] = w]
  BY <1>1
<1> HIDE DEF w, pc, key, since
<1>5. /\ w \in Positions
      /\ w.pc = pc /\ w.kind = kind /\ w.query = q /\ w.key = key /\ w.since = since
  <2>1. /\ w.pc = pc /\ w.kind = kind /\ w.query = q /\ w.key = key /\ w.since = since
        /\ w.seen = 0 /\ w.answer = None /\ w.fresh = FALSE
    BY DEF w, AtRest
  <2>2. w \in Positions
    BY <1>3, <2>1 DEF w, AtRest, Positions
  <2> QED
    BY <2>1, <2>2
<1>6. ASSUME search'[s] = w PROVE SearchOK(search[s])'
  <2>1. KeyOK(search[s])'
    <3>1. host' = host /\ host \in Nat /\ search[s]' = w
      BY <1>6, Parts, CoordinatorAssumption DEF Begin, service, RestOK
    <3> QED
      BY <1>2, <1>5, <3>1 DEF KeyOK, Keys, key, since
  <2>2. search[s]'.pc \notin {"look", "fuse", "store", "put", "hit"}
    BY <1>5, <1>6 DEF pc
  <2>3. search[s]'.pc = "lookup" => search[s]'.kind = "cached"
    BY <1>5, <1>6 DEF pc
  <2> QED
    BY <2>1, <2>2, <2>3 DEF SearchOK, ComputedOK, StoredOK, HitOK
<1> QED
  <2>1. Kept
    BY KeptAsItIs DEF Begin
  <2>2. w.pc # "look"
    BY <1>5 DEF pc
  <2> QED
    BY <1>4, <1>5, <1>6, <2>1, <2>2, SearchStep

\* The first half of a lookup.
LEMMA BeginLookupStep == ASSUME IInv, NEW s \in Searches, BeginLookup(s) PROVE IInv'
<1> DEFINE w == [search[s] EXCEPT !.pc = "look", !.seen = gen]
<1>1. search' = [search EXCEPT ![s] = w]
  BY DEF BeginLookup
<1>2. search[s] \in Positions /\ search[s].kind = "cached" /\ KeyOK(search[s])
  BY UnderWay DEF BeginLookup, StoredOK
<1>3. /\ w \in Positions /\ w.pc = "look" /\ w.seen = gen /\ w.kind = search[s].kind
      /\ w.key = search[s].key /\ w.query = search[s].query /\ w.since = search[s].since
  BY <1>2, Parts DEF Positions, Steps, RestOK
<1> HIDE DEF w
<1>4. ASSUME search'[s] = w PROVE SearchOK(search[s])'
  BY <1>2, <1>3, <1>4, Parts
     DEF BeginLookup, service, RestOK, SearchOK, KeyOK, ComputedOK, StoredOK, HitOK
<1> QED
  <2>1. Kept
    BY KeptAsItIs DEF BeginLookup
  <2> QED
    BY <1>1, <1>3, <1>4, <2>1, SearchStep

\* A search that ends.
LEMMA EndStep == ASSUME IInv, NEW s \in Searches, Ends(s), Kept PROVE IInv'
<1>1. search' = [search EXCEPT ![s] = AtRest] /\ AtRest \in Positions \cup {AtRest}
  BY DEF Ends
<1>2. search'[s] = AtRest => SearchOK(search[s])'
  BY DEF SearchOK, AtRest
<1>3. AtRest.pc # "look"
  BY DEF AtRest
<1> QED
  BY <1>1, <1>2, <1>3, SearchStep

\* The second half of a lookup that finds an entry.
LEMMA HitStep == ASSUME IInv, NEW s \in Searches, Hit(s) PROVE IInv'
<1>1. PICK e \in cache :
        /\ Valid(e, s)
        /\ cache' = (cache \ {e}) \cup {Served(e)}
        /\ search' = [search EXCEPT ![s].pc = "hit", ![s].seen = 0, ![s].answer = e.answer]
  BY DEF Hit
<1> DEFINE w == [search[s] EXCEPT !.pc = "hit", !.seen = 0, !.answer = e.answer]
<1>2. search' = [search EXCEPT ![s] = w]
  BY <1>1
<1>3. /\ search[s] \in Positions /\ search[s].pc = "look" /\ search[s].kind = "cached"
      /\ KeyOK(search[s])
  BY UnderWay DEF Hit, StoredOK
<1>4. e \in Entries /\ e.answer \in Answers
  BY Parts DEF CacheOK, Entries
<1>5. /\ w \in Positions /\ w.pc = "hit" /\ w.kind = search[s].kind /\ w.answer = e.answer
      /\ w.key = search[s].key /\ w.query = search[s].query /\ w.since = search[s].since
  BY <1>3, <1>4 DEF Positions, Steps
<1> HIDE DEF w
<1>6. Knows(e.answer, w.since) /\ (Settled => OfNow(e.answer))
  <2>1. e.key.host = w.since
    BY <1>1, <1>3, <1>5 DEF Valid, KeyOK
  <2>2. Servable(e)
    BY <1>1, <1>3 DEF Valid, Servable
  <2> QED
    BY <2>1, <2>2 DEF IInv, AllEntries, EntryOK
<1>7. Kept
  <2>1. cache' = cache
    BY <1>1 DEF Served
  <2> QED
    BY <2>1, KeptAsItIs DEF Hit
<1>8. ASSUME search'[s] = w PROVE SearchOK(search[s])'
  <2>1. host' = host /\ vectors' = vectors /\ Settled' = Settled
    BY <1>7 DEF Kept, service, Settled
  <2>2. KeyOK(search[s])'
    BY <1>3, <1>5, <1>8, <2>1 DEF KeyOK
  <2>3. HitOK(search[s])'
    BY <1>4, <1>5, <1>6, <1>8, <2>1 DEF HitOK, OfNow, Knows
  <2>4. search[s]'.pc = "hit" /\ search[s]'.kind = "cached"
    BY <1>3, <1>5, <1>8
  <2> QED
    BY <2>2, <2>3, <2>4 DEF SearchOK, ComputedOK, StoredOK
<1> QED
  BY <1>2, <1>5, <1>7, <1>8, SearchStep

\* The second half of a lookup that finds none.
LEMMA MissStep == ASSUME IInv, NEW s \in Searches, Miss(s) PROVE IInv'
<1> DEFINE w == [search[s] EXCEPT !.pc = "search", !.seen = 0]
<1>1. search' = [search EXCEPT ![s] = w]
  BY DEF Miss
<1>2. search[s] \in Positions /\ KeyOK(search[s])
  BY UnderWay DEF Miss
<1>3. /\ w \in Positions /\ w.pc = "search" /\ w.kind = search[s].kind
      /\ w.key = search[s].key /\ w.query = search[s].query /\ w.since = search[s].since
  BY <1>2 DEF Positions, Steps
<1> HIDE DEF w
<1>4. Kept
  <2>1. CacheOK'
    BY CacheShrinks DEF Miss
  <2>2. EmbeddedOK' /\ answered' = answered /\ answered' \subseteq Queries
    BY Parts, EmbeddedStays DEF Miss
  <2>3. \A e \in cache' : e \in cache
    BY DEF Miss
  <2> QED
    BY <2>1, <2>2, <2>3 DEF Kept, Miss, IInv
<1>5. ASSUME search'[s] = w PROVE SearchOK(search[s])'
  <2>1. KeyOK(search[s])'
    BY <1>2, <1>3, <1>4, <1>5 DEF KeyOK, Kept, service
  <2>2. search[s]'.pc = "search"
    BY <1>3, <1>5
  <2> QED
    BY <2>1, <2>2 DEF SearchOK, ComputedOK, StoredOK, HitOK
<1> QED
  BY <1>1, <1>3, <1>4, <1>5, SearchStep

\* What a search under the lock finds is of the vectors in service.
LEMMA FoundOfNow ==
  ASSUME IInv, NEW s \in Searches, search[s].pc = "search"
  PROVE  /\ Found(s) \in Answers \cup {None}
         /\ search[s].kind = "cached" =>
              Found(s) \in Answers /\ OfNow(Found(s)) /\ Knows(Found(s), search[s].since)
<1>1. search[s] \in Positions /\ KeyOK(search[s])
  BY UnderWay
<1>2. vectors \in Versions /\ host \in 0 .. MaxHost
  BY Parts DEF RestOK
<1>3. [vectors |-> vectors, host |-> host] \in Answers /\ Degraded \in Answers
  BY <1>2 DEF Answers
<1>4. search[s].kind = "cached" => search[s].since <= host
  BY <1>1 DEF KeyOK
<1> QED
  BY <1>3, <1>4 DEF Found, OfNow, Knows

\* The step of a search from its embedding to its fusion.
LEMMA PrepareStep == ASSUME IInv, NEW s \in Searches, Prepare(s) PROVE IInv'
<1>1. PICK fresh \in BOOLEAN :
        search' = [search EXCEPT ![s].pc = "fuse", ![s].fresh = fresh, ![s].answer = Found(s)]
  BY DEF Prepare
<1> DEFINE w == [search[s] EXCEPT !.pc = "fuse", !.fresh = fresh, !.answer = Found(s)]
<1>2. search' = [search EXCEPT ![s] = w]
  BY <1>1
<1>3. search[s].pc = "search" /\ search[s] \in Positions /\ KeyOK(search[s])
  BY UnderWay DEF Prepare
<1>4. Found(s) \in Answers \cup {None}
  BY <1>3, FoundOfNow
<1>5. /\ w \in Positions /\ w.pc = "fuse" /\ w.kind = search[s].kind /\ w.answer = Found(s)
      /\ w.key = search[s].key /\ w.query = search[s].query /\ w.since = search[s].since
  BY <1>3, <1>4 DEF Positions, Steps
<1> HIDE DEF w
<1>6. Kept
  BY KeptAsItIs DEF Prepare
<1>7. ASSUME search'[s] = w PROVE SearchOK(search[s])'
  <2>1. host' = host /\ vectors' = vectors
    BY <1>6 DEF Kept, service
  <2>2. KeyOK(search[s])'
    BY <1>3, <1>5, <1>7, <2>1 DEF KeyOK
  <2>3. ComputedOK(search[s])'
    BY <1>3, <1>5, <1>7, <2>1, FoundOfNow DEF ComputedOK, OfNow, Knows
  <2>4. search[s]'.pc = "fuse"
    BY <1>5, <1>7
  <2> QED
    BY <2>2, <2>3, <2>4 DEF SearchOK, StoredOK, HitOK
<1> QED
  BY <1>2, <1>5, <1>6, <1>7, SearchStep

\* A caller that gets its answer may leave its query's vector in the embedding cache.
LEMMA KeptAnswered ==
  ASSUME IInv, NEW q \in Queries, UNCHANGED <<service, gen, cache, clearing, batch, failed>>,
         answered' = answered \cup {q}, Embedding(q) \/ UNCHANGED embedded
  PROVE  Kept
<1>1. CacheOK'
  BY Parts DEF CacheOK
<1>2. EmbeddedOK' /\ embedded' \subseteq embedded \cup {q}
  <2>1. CASE Embedding(q)
    BY <2>1, EmbeddingKeeps, Parts DEF IInv, EmbeddedOK
  <2> QED
    BY <2>1, EmbeddedStays
<1>3. answered' \subseteq Queries /\ embedded' \subseteq answered'
  BY <1>2, Parts DEF IInv
<1>4. \A e \in cache' : e \in cache
  OBVIOUS
<1> QED
  BY <1>1, <1>2, <1>3, <1>4 DEF Kept

\* The fusion.
LEMMA FuseStep == ASSUME IInv, NEW s \in Searches, Fuse(s) PROVE IInv'
<1>1. /\ search[s] \in Positions /\ search[s].query \in Queries /\ search[s].pc = "fuse"
      /\ KeyOK(search[s]) /\ ComputedOK(search[s])
  BY UnderWay DEF Fuse
<1>2. Embedding(search[s].query) \/ UNCHANGED embedded
  BY DEF Fuse
<1>3. Kept
  BY <1>1, <1>2, KeptAnswered DEF Fuse
<1>4. CASE Ends(s)
  BY <1>3, <1>4, EndStep
<1>5. CASE search[s].kind = "cached"
  <2> DEFINE w == [search[s] EXCEPT !.pc = "store"]
  <2>1. search' = [search EXCEPT ![s] = w]
    BY <1>5 DEF Fuse, Goto
  <2>2. /\ w \in Positions /\ w.pc = "store" /\ w.kind = "cached"
        /\ w.answer = search[s].answer /\ w.key = search[s].key
        /\ w.query = search[s].query /\ w.since = search[s].since
    BY <1>1, <1>5 DEF Positions, Steps
  <2> HIDE DEF w
  <2>3. ASSUME search'[s] = w PROVE SearchOK(search[s])'
    <3>1. host' = host /\ vectors' = vectors /\ search[s].query \in answered'
      BY DEF Fuse, service
    <3>2. KeyOK(search[s])'
      BY <1>1, <1>5, <2>2, <2>3, <3>1 DEF KeyOK
    <3>3. ComputedOK(search[s])'
      BY <1>1, <1>5, <2>2, <2>3, <3>1 DEF ComputedOK, OfNow, Knows
    <3>4. search[s]'.pc = "store" /\ search[s]'.kind = "cached" /\ search[s]'.query \in answered'
      BY <2>2, <2>3, <3>1
    <3> QED
      BY <3>2, <3>3, <3>4 DEF SearchOK, StoredOK, HitOK
  <2> QED
    BY <1>3, <2>1, <2>2, <2>3, SearchStep
<1> QED
  BY <1>4, <1>5 DEF Fuse

\* The first half of an insertion.
LEMMA BeginInsertStep == ASSUME IInv, NEW s \in Searches, BeginInsert(s) PROVE IInv'
<1>1. Kept
  BY KeptAsItIs DEF BeginInsert
<1>2. CASE Ends(s)
  BY <1>1, <1>2, EndStep
<1>3. CASE search' = [search EXCEPT ![s].pc = "put", ![s].seen = gen]
  <2> DEFINE w == [search[s] EXCEPT !.pc = "put", !.seen = gen]
  <2>1. search' = [search EXCEPT ![s] = w]
    BY <1>3
  <2>2. /\ search[s] \in Positions /\ search[s].kind = "cached" /\ search[s].pc = "store"
        /\ search[s].query \in answered /\ KeyOK(search[s]) /\ ComputedOK(search[s])
    BY UnderWay DEF BeginInsert, StoredOK
  <2>3. /\ w \in Positions /\ w.pc = "put" /\ w.kind = "cached" /\ w.seen = gen
        /\ w.answer = search[s].answer /\ w.key = search[s].key
        /\ w.query = search[s].query /\ w.since = search[s].since
    BY <2>2, Parts DEF Positions, Steps, RestOK
  <2> HIDE DEF w
  <2>4. ASSUME search'[s] = w PROVE SearchOK(search[s])'
    <3>1. /\ host' = host /\ vectors' = vectors /\ gen' = gen /\ gen \in Nat
          /\ search[s].query \in answered'
      BY <2>2, Parts DEF BeginInsert, service, RestOK
    <3>2. KeyOK(search[s])'
      BY <2>2, <2>3, <2>4, <3>1 DEF KeyOK
    <3>3. ComputedOK(search[s])'
      BY <2>2, <2>3, <2>4, <3>1 DEF ComputedOK, OfNow, Knows
    <3>4. /\ search[s]'.pc = "put" /\ search[s]'.kind = "cached"
          /\ search[s]'.query \in answered' /\ search[s]'.seen <= gen'
      BY <2>3, <2>4, <3>1
    <3> QED
      BY <3>2, <3>3, <3>4 DEF SearchOK, StoredOK, HitOK
  <2> QED
    BY <1>1, <2>1, <2>3, <2>4, SearchStep
<1> QED
  BY <1>2, <1>3 DEF BeginInsert

\* The second half: the entry is of the vectors in service, under the lock.
LEMMA InsertStep == ASSUME IInv, NEW s \in Searches, Insert(s) PROVE IInv'
<1> SUFFICES ASSUME NEW entry,
                    entry = [key |-> search[s].key, answer |-> search[s].answer,
                             gen |-> search[s].seen, age |-> 0]
             PROVE  IInv'
  OBVIOUS
<1>1. /\ search[s] \in Positions /\ search[s].kind = "cached" /\ search[s].pc = "put"
      /\ KeyOK(search[s]) /\ ComputedOK(search[s])
      /\ search[s].query \in answered /\ search[s].seen <= gen
  BY UnderWay DEF Insert, StoredOK
<1>2. PICK limit \in 1 .. Capacity : Insertion(entry, limit)
  BY DEF Insert
<1>3. /\ entry \in Entries
      /\ entry.gen <= gen /\ entry.key.query \in answered
      /\ Knows(entry.answer, entry.key.host) /\ OfNow(entry.answer)
  BY <1>1, CoordinatorAssumption DEF Entries, Positions, KeyOK, ComputedOK
<1>4. Kept
  <2>1. /\ cache' \subseteq cache \cup {entry}
        /\ \A e \in cache' : e.key = entry.key => e = entry
        /\ IsFiniteSet(cache') /\ Cardinality(cache') <= Capacity
    BY <1>2, <1>3, InsertionKeeps DEF IInv
  <2>2. CacheOK'
    <3>1. cache' \subseteq Entries
      BY <1>3, <2>1, Parts DEF CacheOK
    <3>2. \A d, e \in cache' : d.key = e.key => d = e
      BY <2>1, Parts DEF CacheOK
    <3> QED
      BY <2>1, <3>1, <3>2 DEF CacheOK
  <2>3. EmbeddedOK' /\ answered' \subseteq Queries /\ embedded' \subseteq answered'
    BY Parts, EmbeddedStays DEF Insert, IInv
  <2>4. UNCHANGED <<service, gen, clearing, batch, failed, answered>>
    BY DEF Insert
  <2>5. EntryOK(entry)' /\ OfNow(entry.answer)'
    BY <1>3, <2>4 DEF EntryOK, OfNow, Knows, service
  <2> QED
    BY <2>1, <2>2, <2>3, <2>4, <2>5 DEF Kept
<1> QED
  BY <1>4, EndStep DEF Insert

\* A cached answer reaches its caller.
LEMMA ReturnStep == ASSUME IInv, NEW s \in Searches, Return(s) PROVE IInv'
<1>1. search[s].query \in Queries
  BY UnderWay DEF Return
<1>2. Kept
  BY <1>1, KeptAnswered DEF Return
<1> QED
  BY <1>2, EndStep DEF Return

\* A search that is cancelled.
LEMMA CancelStep == ASSUME IInv, NEW s \in Searches, Cancel(s) PROVE IInv'
<1>1. Kept
  BY KeptAsItIs DEF Cancel
<1> QED
  BY <1>1, EndStep DEF Cancel

\* A query embedded for another search.
LEMMA EmbedQueryStep == ASSUME IInv, NEW s \in Searches, EmbedQuery(s) PROVE IInv'
<1>1. PICK q \in Queries :
        \/ /\ q \in embedded
           /\ answered' = answered \cup {q} /\ UNCHANGED search
        \/ /\ q \notin embedded /\ works
           /\ search' = [search EXCEPT ![s] =
                [AtRest EXCEPT !.pc = "fuse", !.kind = "prepared", !.query = q, !.fresh = TRUE]]
           /\ UNCHANGED answered
  BY DEF EmbedQuery
<1>2. UNCHANGED <<service, gen, cache, embedded, clearing, batch, failed>>
  BY DEF EmbedQuery
<1>3. CASE answered' = answered \cup {q} /\ UNCHANGED search
  <2>1. Kept
    BY <1>2, <1>3, KeptAnswered
  <2>2. PositionsOK' /\ search' = [search EXCEPT ![s] = search[s]]
    BY <1>3, Parts DEF PositionsOK
  <2>3. AllSearches'
    <3>1. UNCHANGED <<vectors, host, gen, failed, batch>> /\ host \in Nat /\ gen \in Nat
      BY <1>2, Parts, CoordinatorAssumption DEF service, RestOK
    <3> QED
      BY <1>3, <3>1, SearchesStand DEF Settled
  <2>4. search[s] \in Positions \cup {AtRest}
    BY Parts DEF PositionsOK
  <2>5. SearchOK(search[s])' /\ (search[s].pc = "look" => search[s].seen = gen)
    BY <2>3, <1>1 DEF AllSearches, EmbedQuery
  <2> QED
    BY <2>1, <2>2, <2>4, <2>5, SearchStep
<1>4. CASE /\ search' = [search EXCEPT ![s] =
                [AtRest EXCEPT !.pc = "fuse", !.kind = "prepared", !.query = q, !.fresh = TRUE]]
           /\ UNCHANGED answered
  <2> DEFINE w == [AtRest EXCEPT !.pc = "fuse", !.kind = "prepared", !.query = q, !.fresh = TRUE]
  <2>1. Kept
    BY <1>2, <1>4, KeptAsItIs
  <2>2. /\ w.pc = "fuse" /\ w.kind = "prepared" /\ w.query = q /\ w.fresh = TRUE
        /\ w.key = None /\ w.seen = 0 /\ w.answer = None /\ w.since = 0
    BY DEF AtRest
  <2>3. w \in Positions
    <3>1. 0 \in 0 .. MaxHost
      BY CoordinatorAssumption
    <3> QED
      BY <2>2, <3>1 DEF AtRest, Positions, Steps
  <2>4. search' = [search EXCEPT ![s] = w]
    BY <1>4
  <2> HIDE DEF w
  <2>5. ASSUME search'[s] = w PROVE SearchOK(search[s])'
    BY <2>2, <2>5 DEF SearchOK, KeyOK, ComputedOK, StoredOK, HitOK
  <2> QED
    BY <2>1, <2>2, <2>3, <2>4, <2>5, SearchStep
<1> QED
  BY <1>1, <1>3, <1>4

-----------------------------------------------------------------------------
(* The steps of the others.                                                *)

\* What an operation leaves alone.
LEMMA Apart ==
  ASSUME IInv, UNCHANGED <<embedded, search, answered>>,
         RestOK', CacheOK', AllSearches', AllEntries'
  PROVE  IInv'
<1>1. /\ EmbeddedOK' /\ PositionsOK' /\ answered' \subseteq Queries
      /\ embedded' \subseteq answered'
  BY Parts DEF IInv, EmbeddedOK, PositionsOK
<1> QED
  BY <1>1 DEF IInv, TypeOK, CachesFinite, RestOK, CacheOK, EmbeddedOK, PositionsOK

\* The variables but the caches and the searches, after a change of these.
LEMMA RestParts ==
  ASSUME IInv, UNCHANGED side, batch' \in {"none", "clean", "dirty"},
         works' \in BOOLEAN, clearing' \in BOOLEAN, failed' \in BOOLEAN,
         vectors' \in Versions, current' \in Versions, host' \in 0 .. MaxHost, gen' \in Nat
  PROVE  RestOK'
BY Parts DEF RestOK

\* The types of these one by one.
LEMMA RestTypes ==
  ASSUME IInv
  PROVE  /\ batch \in {"none", "clean", "dirty"}
         /\ works \in BOOLEAN /\ clearing \in BOOLEAN /\ failed \in BOOLEAN
         /\ vectors \in Versions /\ current \in Versions /\ 0 \in Versions
         /\ vectors \in Nat /\ vectors <= MaxVectors /\ MaxVectors \in Nat
         /\ host \in 0 .. MaxHost /\ host \in Nat /\ gen \in Nat /\ gen + 1 \in Nat
BY Parts, CoordinatorAssumption DEF RestOK, Versions

\* A change of the vectors is one within their bound.
LEMMA ChangesOK == ASSUME IInv, Changes PROVE vectors' \in Versions
BY RestTypes DEF Changes, Versions

\* An operation under the write lock, that begins a generation or leaves a batch or a
\* failure behind, or leaves vectors and generation as they are.
LEMMA WriterStep ==
  ASSUME IInv, Writable, UNCHANGED <<side, current, host, works, cache, embedded, clearing,
                                     search, answered>>,
         vectors' \in Versions, batch' \in {"none", "clean", "dirty"}, failed' \in BOOLEAN,
         \/ gen' = gen + 1
         \/ gen' = gen /\ ~Settled'
         \/ gen' = gen /\ vectors' = vectors /\ (Settled' => Settled)
  PROVE  IInv'
<1>1. gen' \in Nat
  BY RestTypes
<1>2. RestOK'
  BY <1>1, RestParts, RestTypes
<1>3. CacheOK'
  BY Parts DEF CacheOK
<1>4. AllSearches'
  BY SearchesFree
<1>5. AllEntries'
  <2>1. CASE gen' = gen + 1
    BY <2>1, EntriesOutdated
  <2>2. CASE gen' = gen /\ ~Settled'
    BY <2>2, EntriesUnsettled
  <2>3. CASE gen' = gen /\ vectors' = vectors /\ (Settled' => Settled)
    <3>1. /\ \A t \in Searches : search'[t].pc = "look" =>
               search[t].pc = "look" /\ search'[t].seen = search[t].seen
          /\ \A e \in cache' : e \in cache
      OBVIOUS
    <3> QED
      BY <2>3, <3>1, EntriesFrame
  <2> QED
    BY <2>1, <2>2, <2>3
<1> QED
  BY <1>2, <1>3, <1>4, <1>5, Apart

\* The operations on the vectors.
LEMMA WriterSteps ==
  ASSUME IInv,
         IndexBook \/ IndexBookFails \/ EndBatch \/ EndBatchUnsaved \/ RemoveBooks
           \/ ResetIndex \/ Reload
  PROVE  IInv'
<1>1. CASE IndexBook
  BY <1>1, ChangesOK, RestTypes, WriterStep DEF IndexBook, SelfBuilt, Settled
<1>2. CASE IndexBookFails
  <2>1. vectors' \in Versions
    BY <1>2, ChangesOK, RestTypes DEF IndexBookFails
  <2> QED
    BY <1>2, <2>1, WriterStep DEF IndexBookFails, SelfBuilt, Invalidate
<1>3. CASE EndBatch
  <2>1. CASE batch = "dirty"
    BY <1>3, <2>1, RestTypes, WriterStep DEF EndBatch, SelfBuilt, Invalidate, service
  <2>2. CASE batch # "dirty"
    BY <1>3, <2>2, RestTypes, WriterStep DEF EndBatch, SelfBuilt, service, Settled
  <2> QED
    BY <2>1, <2>2
<1>4. CASE EndBatchUnsaved
  BY <1>4, RestTypes, WriterStep DEF EndBatchUnsaved, SelfBuilt, service, Settled
<1>5. CASE RemoveBooks
  <2>1. CASE Invalidate
    BY <1>5, <2>1, ChangesOK, RestTypes, WriterStep DEF RemoveBooks, SelfBuilt, Invalidate
  <2>2. CASE failed' = TRUE /\ UNCHANGED gen
    BY <1>5, <2>2, ChangesOK, RestTypes, WriterStep DEF RemoveBooks, SelfBuilt, Settled
  <2> QED
    BY <1>5, <2>1, <2>2 DEF RemoveBooks
<1>6. CASE ResetIndex
  <2>1. CASE Invalidate
    BY <1>6, <2>1, RestTypes, WriterStep DEF ResetIndex, SelfBuilt, Invalidate
  <2>2. CASE failed' = (failed \/ vectors > 0) /\ UNCHANGED gen
    <3>1. CASE vectors > 0
      BY <1>6, <2>2, <3>1, RestTypes, WriterStep DEF ResetIndex, SelfBuilt, Settled
    <3>2. CASE ~(vectors > 0)
      BY <1>6, <2>2, <3>2, RestTypes, WriterStep DEF ResetIndex, SelfBuilt, Settled
    <3> QED
      BY <3>1, <3>2
  <2> QED
    BY <1>6, <2>1, <2>2 DEF ResetIndex
<1>7. CASE Reload
  BY <1>7, RestTypes, WriterStep DEF Reload, Invalidate
<1> QED
  BY <1>1, <1>2, <1>3, <1>4, <1>5, <1>6, <1>7

\* A step that leaves the vectors, the generation and every entry as they are, and takes
\* no lock.
LEMMA LooseStep ==
  ASSUME IInv, UNCHANGED <<vectors, gen, embedded, search, answered>>, RestOK',
         cache' \subseteq cache, host <= host', Settled' => Settled
  PROVE  IInv'
<1>1. CacheOK'
  BY CacheShrinks
<1>2. host' \in Nat /\ gen' \in Nat /\ gen <= gen'
  BY RestTypes, CoordinatorAssumption DEF RestOK
<1>3. AllSearches'
  BY <1>2, SearchesStand
<1>4. /\ \A t \in Searches : search'[t].pc = "look" =>
            search[t].pc = "look" /\ search'[t].seen = search[t].seen
      /\ \A e \in cache' : e \in cache
  OBVIOUS
<1>5. AllEntries'
  BY <1>4, EntriesFrame
<1> QED
  BY <1>1, <1>3, <1>5, Apart

\* The first half of a clear: a lookup that saw the last generation may still serve its
\* entries, and they are of the vectors in service.
LEMMA BeginClearStep == ASSUME IInv, BeginClear PROVE IInv'
<1>1. /\ UNCHANGED <<vectors, embedded, search, answered, cache, host>>
      /\ gen' = gen + 1 /\ gen \in Nat /\ Settled' = Settled /\ host \in Nat
  BY RestTypes DEF BeginClear, service, Settled
<1>2. RestOK'
  BY RestTypes, RestParts DEF BeginClear, service
<1>3. CacheOK'
  BY <1>1, CacheShrinks
<1>4. AllSearches'
  BY <1>1, SearchesStand
<1>5. AllEntries'
  <2>1. ASSUME NEW e \in cache' PROVE EntryOK(e)'
    <3>1. e.gen \in Nat /\ EntryOK(e)
      BY <1>1, Parts DEF IInv, AllEntries, CacheOK, Entries
    <3> QED
      BY <1>1, <3>1 DEF EntryOK, Knows
  <2>2. ASSUME Settled', NEW e \in cache', Servable(e)' PROVE OfNow(e.answer)'
    <3>1. e.gen \in Nat /\ e.gen <= gen
      BY <1>1, Parts DEF IInv, AllEntries, EntryOK, CacheOK, Entries
    <3>2. Servable(e)
      BY <1>1, <2>2, <3>1 DEF Servable
    <3> QED
      BY <1>1, <2>2, <3>2 DEF IInv, AllEntries, OfNow
  <2> QED
    BY <2>1, <2>2 DEF AllEntries
<1> QED
  BY <1>1, <1>2, <1>3, <1>4, <1>5, Apart

\* Time makes entries older, and nothing else.
LEMMA TickStep == ASSUME IInv, Tick PROVE IInv'
<1>0. /\ UNCHANGED <<vectors, gen, embedded, search, answered, host, failed, batch>>
      /\ UNCHANGED <<service, clearing>>
      /\ cache' = {Older(e) : e \in cache}
  BY DEF Tick, service
<1>1. ASSUME NEW e \in cache
      PROVE  /\ Older(e) \in Entries /\ Older(e).key = e.key /\ Older(e).gen = e.gen
             /\ Older(e).answer = e.answer
  <2>1. e \in Entries /\ Lifetime \in Nat
    BY Parts, CoordinatorAssumption DEF CacheOK
  <2> QED
    BY <2>1 DEF Older, Entries
<1>2. CacheOK'
  <2>1. cache' \subseteq Entries
    BY <1>0, <1>1
  <2>2. IsFiniteSet(cache') /\ Cardinality(cache') <= Cardinality(cache)
    <3> DEFINE f == [e \in cache |-> Older(e)]
    <3>1. f \in [cache -> cache'] /\ \A d \in cache' : \E e \in cache : f[e] = d
      BY <1>0
    <3>2. f \in Surjection(cache, cache')
      BY <3>1 DEF Surjection
    <3> QED
      BY <3>2, Parts, FS_Surjection DEF CacheOK
  <2>3. Cardinality(cache') <= Capacity
    <3>1. Cardinality(cache) \in Nat /\ Cardinality(cache') \in Nat
      BY <2>2, Parts, FS_CardinalityType DEF CacheOK
    <3> QED
      BY <2>2, <3>1, Parts, CoordinatorAssumption DEF CacheOK
  <2>4. ASSUME NEW d \in cache', NEW e \in cache', d.key = e.key PROVE d = e
    <3>1. PICK a \in cache : d = Older(a)
      BY <1>0
    <3>2. PICK b \in cache : e = Older(b)
      BY <1>0
    <3>3. a.key = b.key
      BY <1>1, <2>4, <3>1, <3>2
    <3> QED
      BY <3>1, <3>2, <3>3, Parts DEF CacheOK
  <2> QED
    BY <2>1, <2>2, <2>3, <2>4 DEF CacheOK
<1>3. RestOK'
  BY <1>0, Parts DEF RestOK, service
<1>4. AllSearches'
  BY <1>0, RestTypes, SearchesStand DEF Settled
<1>5. AllEntries'
  <2>1. ASSUME NEW d \in cache' PROVE EntryOK(d)' /\ (Settled' /\ Servable(d)' => OfNow(d.answer)')
    <3>1. PICK e \in cache : d = Older(e)
      BY <1>0
    <3>2. d.key = e.key /\ d.gen = e.gen /\ d.answer = e.answer
      BY <1>1, <3>1
    <3>3. EntryOK(e) /\ (Settled /\ Servable(e) => OfNow(e.answer))
      BY DEF IInv, AllEntries
    <3> QED
      BY <1>0, <3>2, <3>3 DEF EntryOK, Servable, OfNow, Knows, Settled
  <2> QED
    BY <2>1 DEF AllEntries
<1> QED
  BY <1>0, <1>2, <1>3, <1>4, <1>5, Apart

\* The invariant holds where nothing is cached.
LEMMA InitIInv == Init => IInv
<1> SUFFICES ASSUME Init PROVE IInv
  OBVIOUS
<1>1. RestOK
  <2>1. 0 \in Versions /\ 1 \in Versions /\ 0 \in 0 .. MaxHost
    BY CoordinatorAssumption DEF Versions
  <2>2. vectors \in Versions
    BY <2>1 DEF Init
  <2> QED
    BY <2>1, <2>2 DEF Init, RestOK
<1>2. CacheOK /\ EmbeddedOK
  BY FS_EmptySet, CoordinatorAssumption DEF Init, CacheOK, EmbeddedOK
<1>3. PositionsOK
  BY DEF Init, PositionsOK
<1>4. AllSearches
  BY DEF Init, AllSearches, SearchOK, AtRest
<1>5. AllEntries /\ embedded \subseteq answered /\ answered \subseteq Queries
  BY DEF Init, AllEntries
<1> QED
  BY <1>1, <1>2, <1>3, <1>4, <1>5
     DEF IInv, TypeOK, CachesFinite, RestOK, CacheOK, EmbeddedOK, PositionsOK

\* Every step keeps the invariant.
LEMMA NextIInv == IInv /\ [Next]_vars => IInv'
<1> SUFFICES ASSUME IInv, [Next]_vars PROVE IInv'
  OBVIOUS
<1>1. ASSUME NEW s \in Searches,
             Begin(s) \/ Proceed(s) \/ Cancel(s) \/ EmbedQuery(s)
      PROVE  IInv'
  BY <1>1, BeginStep, BeginLookupStep, HitStep, MissStep, PrepareStep, FuseStep,
     BeginInsertStep, InsertStep, ReturnStep, CancelStep, EmbedQueryStep DEF Proceed
<1>2. CASE BeginBatch
  BY <1>2, RestTypes, RestParts, LooseStep DEF BeginBatch, service, Indexing, Settled
<1>3. CASE IndexBook \/ IndexBookFails \/ EndBatch \/ EndBatchUnsaved \/ RemoveBooks
             \/ ResetIndex \/ Reload
  BY <1>3, WriterSteps
<1>4. CASE BeginClear
  BY <1>4, BeginClearStep
<1>5. CASE Clear
  <2>1. /\ UNCHANGED <<side, vectors, current, host, works, gen, embedded, batch, search,
                       failed, answered>>
        /\ cache' \subseteq cache /\ clearing' = FALSE
    BY <1>5 DEF Clear, service
  <2>2. RestOK'
    BY <2>1, RestTypes, RestParts
  <2> QED
    BY <2>1, <2>2, RestTypes, LooseStep DEF Settled
<1>6. CASE SetInstalled
  <2>1. current' \in Versions
    BY <1>6, RestTypes DEF SetInstalled, Versions
  <2> QED
    BY <1>6, <2>1, RestTypes, RestParts, LooseStep DEF SetInstalled, Settled
<1>7. CASE HostCommits
  <2>1. host' \in 0 .. MaxHost /\ host <= host'
    BY <1>7, RestTypes, CoordinatorAssumption DEF HostCommits
  <2> QED
    BY <1>7, <2>1, RestTypes, RestParts, LooseStep DEF HostCommits, Settled
<1>8. CASE Toggles
  BY <1>8, RestTypes, RestParts, LooseStep DEF Toggles, Settled
<1>9. CASE Tick
  BY <1>9, TickStep
<1>10. CASE UNCHANGED vars
  <2>1. UNCHANGED <<side, vectors, current, host, works, gen, cache, embedded, clearing,
                    batch, search, failed, answered>>
    BY <1>10 DEF vars
  <2> QED
    BY <2>1, RestTypes, RestParts, LooseStep DEF Settled
<1> QED
  BY <1>1, <1>2, <1>3, <1>4, <1>5, <1>6, <1>7, <1>8, <1>9, <1>10 DEF Next

-----------------------------------------------------------------------------
(* The theorems.                                                           *)

\* The types, and that neither cache ever holds more than its capacity or two entries
\* under one key.
THEOREM CoordinatorTypes == Spec => []TypeOK
<1>1. IInv => TypeOK
  BY DEF IInv
<1> QED
  BY <1>1, InitIInv, NextIInv, PTL DEF Spec

\* While no batch runs and no call has failed, a cached answer is what the vectors in
\* service give: the read lock a search holds from its scan to its insertion and the
\* generation that every change of the vectors begins keep it so.
THEOREM CachedIsCurrent == Spec => []ServedIsCurrent
<1>1. IInv => ServedIsCurrent
  <2> SUFFICES ASSUME IInv, NEW s \in Searches, search[s].pc = "hit",
                      search[s].answer # Degraded, ~Indexing, ~failed
               PROVE  search[s].answer.vectors = vectors
    BY DEF ServedIsCurrent
  <2>1. HitOK(search[s])
    BY UnderWay
  <2>2. Settled
    BY DEF Settled, Indexing
  <2> QED
    BY <2>1, <2>2 DEF HitOK, OfNow
<1> QED
  BY <1>1, InitIInv, NextIInv, PTL DEF Spec

\* A cached answer knows every commit of the host's index that its search knows of.
THEOREM CachedKnowsTheHost == Spec => []ServedKnowsTheHost
<1>1. IInv => ServedKnowsTheHost
  <2> SUFFICES ASSUME IInv, NEW s \in Searches, search[s].pc = "hit",
                      search[s].answer # Degraded
               PROVE  search[s].answer.host >= search[s].since
    BY DEF ServedKnowsTheHost
  <2>1. HitOK(search[s])
    BY UnderWay
  <2> QED
    BY <2>1 DEF HitOK, Knows
<1> QED
  BY <1>1, InitIInv, NextIInv, PTL DEF Spec

\* What either cache holds, some caller got: a cancelled search leaves nothing.
THEOREM CachedWasAnswered == Spec => []NothingOfTheCancelled
<1>1. IInv => NothingOfTheCancelled
  BY DEF IInv, AllEntries, EntryOK, NothingOfTheCancelled
<1> QED
  BY <1>1, InitIInv, NextIInv, PTL DEF Spec
=============================================================================
