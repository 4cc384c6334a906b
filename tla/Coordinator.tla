----------------------------- MODULE Coordinator -----------------------------
(***************************************************************************)
(* A search through the coordinator (hybrid/coordinator.rs) and its two    *)
(* caches, beside the operations that change what a search reads.  A       *)
(* search holds the read lock of the semantic side from the key of its     *)
(* cache entry to the entry's insertion; an operation holds the write      *)
(* lock; a batch releases it between two books.  The query cache has a     *)
(* mutex and a generation of its own, which no lock ties together.         *)
(***************************************************************************)
EXTENDS Naturals, FiniteSets

CONSTANTS Searches, Queries,
          Capacity, EmbeddingCapacity, \* of the two caches
          Lifetime,                    \* ticks an entry may be served for
          MaxVectors, MaxHost, MaxGen, \* bounds: changes of the vectors, commits of
                                       \* the host's index, invalidations begun
          None

ASSUME CoordinatorAssumption ==
  /\ {Capacity, EmbeddingCapacity, MaxVectors} \subseteq Nat \ {0}
  /\ {Lifetime, MaxHost, MaxGen} \subseteq Nat
  /\ None \notin Queries

VARIABLES
  side,      \* which kind of index serves: SelfBuilt or Official
  vectors,   \* what the vectors in service are: every change makes another
  current,   \* official: the generation CURRENT names
  host,      \* the resolver's generation
  works,     \* the semantic path succeeds
  gen,       \* QueryCache.generation
  cache,     \* QueryCache.entries
  embedded,  \* EmbeddingCache.entries: the queries whose vectors it holds
  clearing,  \* a clear is between its generation and its entries
  batch,     \* a batch of books is being indexed: what it has done so far
  search,    \* the searches under way
  failed,    \* history: a call changed vectors and failed, and no generation since
  answered   \* history: the queries some caller got an answer to

vars == <<side, vectors, current, host, works, gen, cache, embedded, clearing, batch, search,
          failed, answered>>

service == <<side, vectors, current, host, works>>

Versions == 0 .. MaxVectors

\* A lexical answer, given because the semantic path failed.
Degraded == [vectors |-> None, host |-> None]

Answers == [vectors : Versions, host : 0 .. MaxHost] \cup {Degraded}

Keys == [query : Queries, host : 0 .. MaxHost, vectors : Versions]

Entries == [key : Keys, answer : Answers, gen : Nat, age : 0 .. Lifetime + 1]

\* key, seen and answer are of use to the query cache alone; since is history, the host's
\* generation when the search began.
AtRest ==
  [pc |-> "rest", kind |-> None, query |-> None, key |-> None, seen |-> 0, answer |-> None,
   fresh |-> FALSE, since |-> 0]

Steps == {"lookup", "look", "search", "fuse", "store", "put", "hit"}

-----------------------------------------------------------------------------
(* The locks and the caches.                                               *)

\* Prepared searches let go of the semantic side before they fuse.
Reads(s) ==
  \/ search[s].pc \in Steps \ {"fuse"}
  \/ search[s].pc = "fuse" /\ search[s].kind # "prepared"

Writable == \A s \in Searches : ~Reads(s)

Under(key) == {e \in cache : e.key = key}

\* What may be left of entries when one more must fit.  Both caches choose the ones used
\* least recently; the model leaves open which go.
Evicted(entries, limit) ==
  IF Cardinality(entries) < limit THEN {entries}
  ELSE {kept \in SUBSET entries : Cardinality(kept) = limit - 1}

\* insert_with_capacity: what is there under the key is replaced, and nothing else goes.
Insertion(entry, limit) ==
  IF Under(entry.key) # {} THEN cache' = (cache \ Under(entry.key)) \cup {entry}
  ELSE \E kept \in Evicted(cache, limit) : cache' = kept \cup {entry}

\* EmbeddingCache::insert
Embedding(q) ==
  IF q \in embedded THEN UNCHANGED embedded
  ELSE \E kept \in Evicted(embedded, EmbeddingCapacity) : embedded' = kept \cup {q}

Invalidate == gen' = gen + 1 /\ failed' = FALSE

-----------------------------------------------------------------------------
(* A search.  Kinds: one the query cache takes, one it does not (a short   *)
(* query, a profile that asks for none), and one in two halves.            *)

Goto(s, pc) == search' = [search EXCEPT ![s].pc = pc]

Ends(s) == search' = [search EXCEPT ![s] = AtRest]

\* Mutant: the resolver is not asked.
BareKey(q) == [query |-> q, host |-> 0, vectors |-> IF side = "official" THEN vectors ELSE 0]

Key(q) == [query |-> q, host |-> host, vectors |-> IF side = "official" THEN vectors ELSE 0]

Begin(s) ==
  /\ search[s].pc = "rest"
  /\ \E q \in Queries, kind \in {"cached", "plain", "prepared"} :
       search' = [search EXCEPT ![s] =
         [AtRest EXCEPT !.pc = IF kind = "cached" THEN "lookup" ELSE "search",
                        !.kind = kind, !.query = q,
                        !.key = IF kind = "cached" THEN Key(q) ELSE None,
                        !.since = IF kind = "cached" THEN host ELSE 0]]
  /\ UNCHANGED <<service, gen, cache, embedded, clearing, batch, failed, answered>>

\* QueryCache::get reads the generation before it has the entries.
BeginLookup(s) ==
  /\ search[s].pc = "lookup"
  /\ search' = [search EXCEPT ![s].pc = "look", ![s].seen = gen]
  /\ UNCHANGED <<service, gen, cache, embedded, clearing, batch, failed, answered>>

\* Mutant: an entry that is used lives on.
Renewed(e) == [e EXCEPT !.age = 0]

Served(e) == e

Valid(e, s) == e.key = search[s].key /\ e.gen = search[s].seen /\ e.age <= Lifetime

Hit(s) ==
  /\ search[s].pc = "look"
  /\ \E e \in cache :
       /\ Valid(e, s)
       /\ cache' = (cache \ {e}) \cup {Served(e)}
       /\ search' = [search EXCEPT ![s].pc = "hit", ![s].seen = 0, ![s].answer = e.answer]
  /\ UNCHANGED <<service, gen, embedded, clearing, batch, failed, answered>>

\* An entry that is of another generation or too old goes.
Miss(s) ==
  /\ search[s].pc = "look"
  /\ ~ \E e \in cache : Valid(e, s)
  /\ cache' = cache \ Under(search[s].key)
  /\ search' = [search EXCEPT ![s].pc = "search", ![s].seen = 0]
  /\ UNCHANGED <<service, gen, embedded, clearing, batch, failed, answered>>

Found(s) ==
  IF search[s].kind # "cached" THEN None
  ELSE IF works THEN [vectors |-> vectors, host |-> host] ELSE Degraded

\* Mutant: the vector is cached when it is computed.
PrepareAndKeep(s) ==
  LET q == search[s].query IN
  /\ search[s].pc = "search"
  /\ search' = [search EXCEPT ![s].pc = "fuse", ![s].answer = Found(s)]
  /\ Embedding(q)
  /\ UNCHANGED <<service, gen, cache, clearing, batch, failed, answered>>

\* prepare_with: the query's vector, the scan and the live lines.
Prepare(s) ==
  LET q == search[s].query IN
  /\ search[s].pc = "search"
  /\ \E fresh \in BOOLEAN :
       /\ q \in embedded => ~fresh
       /\ q \notin embedded /\ works => fresh
       /\ search' = [search EXCEPT ![s].pc = "fuse", ![s].fresh = fresh, ![s].answer = Found(s)]
  /\ UNCHANGED <<service, gen, cache, embedded, clearing, batch, failed, answered>>

\* fuse, past its last checkpoint.
Fuse(s) ==
  /\ search[s].pc = "fuse"
  /\ IF search[s].fresh THEN Embedding(search[s].query) ELSE UNCHANGED embedded
  /\ answered' = answered \cup {search[s].query}
  /\ IF search[s].kind = "cached" THEN Goto(s, "store") ELSE Ends(s)
  /\ UNCHANGED <<service, gen, cache, clearing, batch, failed>>

\* A capacity of 0 may be asked for: nothing is kept.
BeginInsert(s) ==
  /\ search[s].pc = "store"
  /\ \/ search' = [search EXCEPT ![s].pc = "put", ![s].seen = gen]
     \/ Ends(s)
  /\ UNCHANGED <<service, gen, cache, embedded, clearing, batch, failed, answered>>

Insert(s) ==
  /\ search[s].pc = "put"
  /\ \E limit \in 1 .. Capacity :
       Insertion([key |-> search[s].key, answer |-> search[s].answer,
                  gen |-> search[s].seen, age |-> 0], limit)
  /\ Ends(s)
  /\ UNCHANGED <<service, gen, embedded, clearing, batch, failed, answered>>

Return(s) ==
  /\ search[s].pc = "hit" /\ Ends(s)
  /\ answered' = answered \cup {search[s].query}
  /\ UNCHANGED <<service, gen, cache, embedded, clearing, batch, failed>>

\* At a checkpoint after the embedding, before the fusion or after it.
Cancel(s) ==
  /\ search[s].pc \in {"search", "fuse"} /\ Ends(s)
  /\ UNCHANGED <<service, gen, cache, embedded, clearing, batch, failed, answered>>

\* embed_query_cached, to the checkpoint; the vector is kept after it.
EmbedQuery(s) ==
  /\ search[s].pc = "rest"
  /\ \E q \in Queries :
       \/ /\ q \in embedded
          /\ answered' = answered \cup {q} /\ UNCHANGED search
       \/ /\ q \notin embedded /\ works
          /\ search' = [search EXCEPT ![s] =
               [AtRest EXCEPT !.pc = "fuse", !.kind = "prepared", !.query = q, !.fresh = TRUE]]
          /\ UNCHANGED answered
  /\ UNCHANGED <<service, gen, cache, embedded, clearing, batch, failed>>

-----------------------------------------------------------------------------
(* The operations on a self-built index.                                   *)

Indexing == batch # "none"

SelfBuilt == side = "self" /\ Writable

Changes == vectors < MaxVectors /\ vectors' = vectors + 1

BeginBatch ==
  /\ side = "self" /\ ~Indexing /\ gen < MaxGen
  /\ batch' = "clean"
  /\ UNCHANGED <<service, gen, cache, embedded, clearing, search, failed, answered>>

IndexBook ==
  /\ SelfBuilt /\ Indexing
  /\ Changes /\ batch' = "dirty"
  /\ UNCHANGED <<side, current, host, works, gen, cache, embedded, clearing, search, failed,
                 answered>>

\* The book's own error, with its vectors removed or not; what did land is saved, if
\* it can be.
IndexBookFails ==
  /\ SelfBuilt /\ Indexing
  /\ Changes \/ UNCHANGED vectors
  /\ Invalidate /\ batch' = "none"
  /\ UNCHANGED <<side, current, host, works, cache, embedded, clearing, search, answered>>

\* Mutant.
EndBatchQuietly ==
  /\ SelfBuilt /\ Indexing /\ batch' = "none"
  /\ UNCHANGED <<gen, failed>>
  /\ UNCHANGED <<service, cache, embedded, clearing, search, answered>>

\* Nothing to save, or saved.
EndBatch ==
  /\ SelfBuilt /\ Indexing /\ batch' = "none"
  /\ IF batch = "dirty" THEN Invalidate ELSE UNCHANGED <<gen, failed>>
  /\ UNCHANGED <<service, cache, embedded, clearing, search, answered>>

\* flush_manifest's error is returned before the cache is invalidated.
EndBatchUnsaved ==
  /\ SelfBuilt /\ batch = "dirty" /\ batch' = "none"
  /\ failed' = TRUE
  /\ UNCHANGED <<service, gen, cache, embedded, clearing, search, answered>>

RemoveBooks ==
  /\ SelfBuilt /\ ~Indexing /\ gen < MaxGen /\ vectors > 0
  /\ Changes
  /\ \/ Invalidate
     \/ \* the manifest could not be saved
        failed' = TRUE /\ UNCHANGED gen
  /\ UNCHANGED <<side, current, host, works, cache, embedded, clearing, batch, search, answered>>

ResetIndex ==
  /\ SelfBuilt /\ ~Indexing /\ gen < MaxGen
  /\ vectors' = 0
  /\ \/ Invalidate
     \/ failed' = (failed \/ vectors > 0) /\ UNCHANGED gen
  /\ UNCHANGED <<side, current, host, works, cache, embedded, clearing, batch, search, answered>>

-----------------------------------------------------------------------------
(* The others.                                                             *)

\* reload_semantic_vectors: the one open stays in service when the other cannot be.
Reload ==
  /\ side = "official" /\ Writable /\ gen < MaxGen
  /\ current # vectors /\ vectors' = current
  /\ Invalidate
  /\ UNCHANGED <<side, current, host, works, cache, embedded, clearing, batch, search, answered>>

\* clear_query_cache needs neither lock: the generation, then the entries.
BeginClear ==
  /\ ~clearing /\ gen < MaxGen
  /\ gen' = gen + 1 /\ clearing' = TRUE
  /\ UNCHANGED <<service, cache, embedded, batch, search, failed, answered>>

Clear ==
  /\ clearing /\ clearing' = FALSE /\ cache' = {}
  /\ UNCHANGED <<service, gen, embedded, batch, search, failed, answered>>

\* An install, a compaction, or an uninstall of the generation CURRENT names.
SetInstalled ==
  /\ side = "official" /\ \E g \in 1 .. MaxVectors : g # current /\ current' = g
  /\ UNCHANGED <<side, vectors, host, works, gen, cache, embedded, clearing, batch, search,
                 failed, answered>>

HostCommits ==
  /\ host < MaxHost /\ host' = host + 1
  /\ UNCHANGED <<side, vectors, current, works, gen, cache, embedded, clearing, batch, search,
                 failed, answered>>

\* A model that runs out of memory, a resolver that fails; and that it comes back.
Toggles ==
  /\ works' = ~works
  /\ UNCHANGED <<side, vectors, current, host, gen, cache, embedded, clearing, batch, search,
                 failed, answered>>

Older(e) == IF e.age <= Lifetime THEN [e EXCEPT !.age = e.age + 1] ELSE e

Tick ==
  /\ \E e \in cache : e.age <= Lifetime
  /\ cache' = {Older(e) : e \in cache}
  /\ UNCHANGED <<service, gen, embedded, clearing, batch, search, failed, answered>>

Init ==
  /\ side \in {"self", "official"}
  /\ vectors = IF side = "official" THEN 1 ELSE 0
  /\ current = 1 /\ host = 0 /\ works = TRUE
  /\ gen = 0 /\ cache = {} /\ embedded = {} /\ clearing = FALSE
  /\ batch = "none" /\ search = [s \in Searches |-> AtRest]
  /\ failed = FALSE /\ answered = {}

Proceed(s) ==
  \/ BeginLookup(s) \/ Hit(s) \/ Miss(s) \/ Prepare(s) \/ Fuse(s)
  \/ BeginInsert(s) \/ Insert(s) \/ Return(s)

Next ==
  \/ \E s \in Searches : Begin(s) \/ Proceed(s) \/ Cancel(s) \/ EmbedQuery(s)
  \/ BeginBatch \/ IndexBook \/ IndexBookFails \/ EndBatch \/ EndBatchUnsaved
  \/ RemoveBooks \/ ResetIndex \/ Reload \/ BeginClear \/ Clear
  \/ SetInstalled \/ HostCommits \/ Toggles \/ Tick

Spec == Init /\ [][Next]_vars

\* Time passes, and a thread that runs a search runs it to its end.
FairSpec == Spec /\ WF_vars(Tick) /\ \A s \in Searches : WF_vars(Proceed(s))

-----------------------------------------------------------------------------
(* Correctness.                                                            *)

Positions ==
  [pc : Steps, kind : {"cached", "plain", "prepared"}, query : Queries,
   key : Keys \cup {None}, seen : Nat, answer : Answers \cup {None}, fresh : BOOLEAN,
   since : 0 .. MaxHost]

\* Neither cache holds more than it may, or two entries under one key.
TypeOK ==
  /\ side \in {"self", "official"} /\ batch \in {"none", "clean", "dirty"}
  /\ {works, clearing, failed} \subseteq BOOLEAN
  /\ {vectors, current} \subseteq Versions /\ host \in 0 .. MaxHost /\ gen \in Nat
  /\ cache \subseteq Entries /\ Cardinality(cache) <= Capacity
  /\ \A d, e \in cache : d.key = e.key => d = e
  /\ embedded \subseteq Queries /\ Cardinality(embedded) <= EmbeddingCapacity
  /\ search \in [Searches -> Positions \cup {AtRest}]
  /\ answered \subseteq Queries

\* An answer from the cache is what the vectors in service give, whatever ran between
\* the search that computed it and the one that is served: while a batch runs, and
\* after a call that changed vectors and reported an error, it may be of others.
ServedIsCurrent ==
  \A s \in Searches :
    search[s].pc = "hit" /\ search[s].answer # Degraded /\ ~Indexing /\ ~failed =>
      search[s].answer.vectors = vectors

\* It never carries lines of the host's index from before the commit the search knows of,
\* although the resolver may commit at any time and no lock is taken.
ServedKnowsTheHost ==
  \A s \in Searches :
    search[s].pc = "hit" /\ search[s].answer # Degraded =>
      search[s].answer.host >= search[s].since

\* A cancelled search leaves nothing in either cache: what is there, some caller got.
NothingOfTheCancelled ==
  /\ embedded \subseteq answered
  /\ \A e \in cache : e.key.query \in answered

\* Once the semantic path works and no batch runs, cached answers that are degraded or
\* of vectors no longer in service come to an end, whatever call failed before and
\* however often the entry is asked for: an entry's age counts from its insertion.
StaleEnds ==
  <>[](works /\ ~Indexing) =>
    <>[](\A s \in Searches :
           search[s].pc = "hit" => search[s].answer # Degraded /\ search[s].answer.vectors = vectors)
=============================================================================
