------------------------------ MODULE Release ------------------------------
(***************************************************************************)
(* A chain of releases and the device that follows it: what the build      *)
(* machine ships (distribution/ledger.rs, alias.rs, assemble.rs), and what *)
(* a vector set makes of it (semantic/segment_set: NewGeneration::push,    *)
(* book_occurrences, compact).  A release is assembled twice from one      *)
(* plan: as a delta against the last ledger and as a base; a device takes  *)
(* either, and compacts when it likes.                                     *)
(*                                                                         *)
(* A plan gives each line of each book the key of its text.  Every line    *)
(* has one window, so a row is an alias exactly when its anchor is not its *)
(* key.  Vectors are not modelled: a slot holds its key's.                 *)
(***************************************************************************)
EXTENDS Integers, Sequences, FiniteSets, FiniteSetsExt

CONSTANTS
    Lines,              \* the places a line may be: <<book, ordinal>>
    Keys, NoText,       \* the texts; where there is none, and a ledger without a plan
    Short,              \* the keys of short lines
    Cosine,             \* [Short -> [Keys -> 0..2]]; 0 is below the threshold
    Kinds,              \* the kinds of chain in play
    MaxVersion,         \* bound: releases published
    MaxChange,          \* bound: lines a release changes
    WarehouseWhole      \* the warehouse is never lost nor left half filled

ASSUME ReleaseAssumption ==
    /\ Lines \subseteq (Nat \X Nat)
    /\ Short \subseteq Keys
    /\ Cosine \in [Short -> [Keys -> 0..2]]
    /\ Kinds \subseteq {"lines", "sharing"}
    /\ MaxVersion \in Nat \ {0} /\ MaxChange \in Nat
    /\ WarehouseWhole \in BOOLEAN

VARIABLES
    chain,      \* what the chain ships: one of Kinds
    version,    \* of the release last published; 0 before the first
    plan,       \* its plan
    ledger,     \* its ledger
    warehouse,  \* the keys a vector is held for
    release,    \* its two segments: a delta and a base
    device,     \* the set's segments, oldest first, each with what is derived
    installed   \* the version the set is of; 0 for none

releaseVars == <<chain, version, plan, ledger, warehouse, release, device, installed>>

Books == {l[1] : l \in Lines}
Plans == [Lines -> Keys \cup {NoText}]
ASSUME NoTextAssumption == NoText \notin Keys \cup Plans

\* "sharing": short lines share vectors, and every release has snapshots of its
\* rows.  "lines": none shares one, and releases have no snapshots until the
\* first that has, if one ever does: the producer is an older one, or its plans
\* are of lines without windows.

TextsOf(p) == {p[l] : l \in Lines} \ {NoText}
LinesOf(p, k) == {l \in Lines : p[l] = k}

----------------------------------------------------------------------------
(* alias.rs: the neighbour whose vector a short line shares.               *)

\* The order the neighbours are tried in: -1, +1, -2, +2.
Nth(l, m) == IF m[2] < l[2] THEN 2 * (l[2] - m[2]) ELSE 2 * (m[2] - l[2]) + 1

Neighbours(p, w, l) ==
    {m \in Lines : /\ m[1] = l[1]
                   /\ Nth(l, m) \in 2..5
                   /\ p[m] \in (Keys \ Short) \cap w
                   /\ p[l] \in w
                   /\ Cosine[p[l]][p[m]] > 0}

\* A key is aliased only where every line of it is.
AliasedKeys(p, w) ==
    {k \in Short \cap TextsOf(p) : \A l \in LinesOf(p, k) : Neighbours(p, w, l) # {}}

Target(p, w, l) ==
    LET shared == Neighbours(p, w, l)
        best == CHOOSE m \in shared : \A n \in shared :
                    LET cm == Cosine[p[l]][p[m]]
                        cn == Cosine[p[l]][p[n]]
                    IN cm > cn \/ (cm = cn /\ Nth(l, m) <= Nth(l, n))
    IN p[best]

Decide(p, w, sharing) == IF sharing THEN AliasedKeys(p, w) ELSE {}

\* The occurrences of a plan: an aliased line's is under its target's key.
Places(p, w, aliases) ==
    {[key    |-> IF p[l] \in aliases THEN Target(p, w, l) ELSE p[l],
      book   |-> l[1],
      hint   |-> l[2],
      anchor |-> p[l]] : l \in {m \in Lines : p[m] # NoText}}

\* What a segment stores of them: lines alike in all but the hint, once.
Rows(places) ==
    {r \in places : \A q \in places :
        (q.key = r.key /\ q.book = r.book /\ q.anchor = r.anchor) => r.hint <= q.hint}

----------------------------------------------------------------------------
(* ledger.rs, assemble.rs: what a release ships.                           *)

\* The records of a plan: a book and a key, at the first line that holds it.
Records(p, aliases) ==
    {[key |-> p[l], book |-> l[1], hint |-> l[2]] :
        l \in {m \in Lines : /\ p[m] \notin aliases \cup {NoText}
                             /\ \A n \in LinesOf(p, p[m]) : n[1] = m[1] => m[2] <= n[2]}}

KeysOf(records) == {r.key : r \in records}
PairOf(r) == <<r.book, r.key>>

\* Mutant: a place that is gone is not a change.
ChangedHere(old, places, w) ==
    LET before == Places(old.plan, w, Decide(old.plan, w, old.sharing))
    IN {r.key : r \in places \ before}

\* Mutant: a place that is new is not a change.
ChangedThere(old, places, w) ==
    LET before == Places(old.plan, w, Decide(old.plan, w, old.sharing))
    IN {r.key : r \in before \ places}

\* The keys whose places differ from the previous release's, as the previous
\* plan and the warehouse of today tell them.
Changed(old, places, w) ==
    LET before == Places(old.plan, w, Decide(old.plan, w, old.sharing))
    IN {k \in Keys : {r \in places : r.key = k} # {r \in before : r.key = k}}

Segment(own, foreign, tombstones, rows) ==
    [own |-> own, foreign |-> foreign, tombstones |-> tombstones, rows |-> rows]

Base(p, w, aliases, snapshots) ==
    Segment(Records(p, aliases), {}, {},
            IF snapshots THEN Rows(Places(p, w, aliases)) ELSE {})

Delta(old, p, w, aliases, snapshots) ==
    LET records == Records(p, aliases)
        places == Places(p, w, aliases)
        changed == IF ~snapshots THEN {}
                   ELSE IF old.plan = NoText THEN Keys
                   ELSE Changed(old, places, w)
        held == {r \in records : r.key \in old.keys}
    IN Segment(records \ held,
               {r \in held : PairOf(r) \notin old.pairs \/ r.key \in changed},
               old.keys \ KeysOf(records),
               Rows({r \in places : r.key \in changed}))

Ledger(p, aliases, snapshots, sharing) ==
    [keys    |-> KeysOf(Records(p, aliases)),
     pairs   |-> {PairOf(r) : r \in Records(p, aliases)},
     plan    |-> IF snapshots THEN p ELSE NoText,
     sharing |-> sharing]

\* A ledger without a plan is of a release without snapshots.
Unsnapped == ledger.plan = NoText
Snapshots == IF chain = "lines" /\ Unsnapped THEN BOOLEAN ELSE {TRUE}

\* Plan, embed, assemble: refused when a shipped key has no vector.
Publish(p, w, snapshots) ==
    LET sharing == chain = "sharing"
        aliases == Decide(p, w, sharing)
        delta == Delta(ledger, p, w, aliases, snapshots)
    IN /\ TextsOf(p) # {}
       /\ Cardinality({l \in Lines : p[l] # plan[l]}) <= MaxChange
       /\ KeysOf(delta.own) \subseteq w
       /\ version' = version + 1
       /\ plan' = p
       /\ warehouse' = w
       /\ ledger' = Ledger(p, aliases, snapshots, sharing)
       /\ release' = [delta |-> delta, base |-> Base(p, w, aliases, snapshots)]
       /\ UNCHANGED <<chain, device, installed>>

\* Every text of the plan the warehouse lacks is embedded and added; or, where
\* that is allowed, the warehouse was lost, or not every shard of it was added.
Warehouses(p) ==
    IF WarehouseWhole THEN {warehouse \cup TextsOf(p)} ELSE SUBSET (warehouse \cup TextsOf(p))

PublishNext ==
    /\ version < MaxVersion /\ installed = version
    /\ \E p \in Plans : \E w \in Warehouses(p) : \E snapshots \in Snapshots :
           Publish(p, w, snapshots)

----------------------------------------------------------------------------
(* segment_set: what a set makes of the segments it holds.                 *)

LiveKeys(d, i) == KeysOf(d[i].segment.own) \ d[i].deleted
Live(d) == UNION {LiveKeys(d, i) : i \in DOMAIN d}

Derived(segment, deleted, links) ==
    [segment |-> segment, deleted |-> deleted, links |-> links]

\* Mutant: tombstones are not applied.
PushWithoutTombstones(d, segment) ==
    LET gone == KeysOf(segment.own)
        older == [i \in DOMAIN d |->
                    Derived(d[i].segment,
                            d[i].deleted \cup (KeysOf(d[i].segment.own) \cap gone),
                            d[i].links)]
        holders(r) == {i \in DOMAIN d : r.key \in LiveKeys(older, i)}
        links == [r \in segment.foreign |-> IF holders(r) = {} THEN 0 ELSE Max(holders(r))]
    IN Append(older, Derived(segment, {}, links))

\* NewGeneration::push of a delta: tombstones and keys shipped again delete
\* older slots, and a foreign record is linked to the newest slot left.
Push(d, segment) ==
    LET gone == segment.tombstones \cup KeysOf(segment.own)
        older == [i \in DOMAIN d |->
                    Derived(d[i].segment,
                            d[i].deleted \cup (KeysOf(d[i].segment.own) \cap gone),
                            d[i].links)]
        holders(r) == {i \in DOMAIN d : r.key \in LiveKeys(older, i)}
        links == [r \in segment.foreign |-> IF holders(r) = {} THEN 0 ELSE Max(holders(r))]
    IN Append(older, Derived(segment, {}, links))

NoLinks == [r \in {} |-> 0]

InstallDelta ==
    /\ installed = version - 1 /\ installed > 0
    /\ device' = Push(device, release.delta)
    /\ installed' = version
    /\ UNCHANGED <<chain, version, plan, ledger, warehouse, release>>

InstallBase ==
    /\ installed < version
    /\ device' = <<Derived(release.base, {}, NoLinks)>>
    /\ installed' = version
    /\ UNCHANGED <<chain, version, plan, ledger, warehouse, release>>

\* The records of a book in one segment: its live slots', and the foreign
\* ones whose link still leads to a live slot.
Fresh(d, i, b) ==
    {r \in d[i].segment.own : r.book = b /\ r.key \notin d[i].deleted}
    \cup
    {r \in d[i].segment.foreign :
        /\ r.book = b
        /\ d[i].links[r] # 0
        /\ r.key \notin d[d[i].links[r]].deleted}

\* book_occurrences: the newest snapshot of a key replaces every older place.
BookOccurrences(d, b) ==
    LET fresh == [i \in DOMAIN d |-> Fresh(d, i, b)]
        recorded == KeysOf(UNION {fresh[i] : i \in DOMAIN d})
        of(k) ==
            LET telling == {i \in DOMAIN d : \E r \in d[i].segment.rows : r.key = k}
                naming == {i \in DOMAIN d : \E r \in fresh[i] : r.key = k}
            IN IF telling = {}
               THEN {[key |-> k, hint |-> r.hint, anchor |-> NoText] :
                        r \in {f \in fresh[Max(naming)] : f.key = k}}
               ELSE {[key |-> k, hint |-> r.hint, anchor |-> r.anchor] :
                        r \in {q \in d[Max(telling)].segment.rows :
                                  q.key = k /\ q.book = b}}
    IN UNION {of(k) : k \in recorded}

\* Mutant: the book's foreign records are not followed.
ScannedOwn(d, b) ==
    UNION {{<<i, r.key>> : r \in {q \in d[i].segment.own : q.book = b}} : i \in DOMAIN d}

\* The slots a search under a filter visits: the book's own, and those its
\* foreign records lead to.
Scanned(d, b) ==
    UNION {{<<i, r.key>> : r \in {q \in d[i].segment.own : q.book = b}}
           \cup
           {<<d[i].links[r], r.key>> :
               r \in {q \in d[i].segment.foreign : q.book = b /\ d[i].links[q] # 0}}
           : i \in DOMAIN d}

\* effective_role: of those, the newest snapshot of the key, if there is one,
\* admits the slots that still have a row in the book.
Admitted(d, b) ==
    {at \in Scanned(d, b) :
        /\ at[2] \in LiveKeys(d, at[1])
        /\ LET telling == {i \in DOMAIN d : \E r \in d[i].segment.rows : r.key = at[2]}
           IN telling = {} \/ \E r \in d[Max(telling)].segment.rows :
                                  r.key = at[2] /\ r.book = b}

\* A record against an index of the set's own version that holds its book: it
\* goes to the closest line of its parent's text, or goes.
Refreshed(occurrence, b) ==
    LET text == IF occurrence.anchor = NoText THEN occurrence.key ELSE occurrence.anchor
        lines == {l[2] : l \in {m \in LinesOf(plan, text) : m[1] = b}}
        away(o) == IF o < occurrence.hint THEN occurrence.hint - o ELSE o - occurrence.hint
    IN IF lines = {} THEN {}
       ELSE {[occurrence EXCEPT !.hint =
                CHOOSE o \in lines : \A q \in lines :
                    away(o) < away(q) \/ (away(o) = away(q) /\ o <= q)]}

\* compact: one segment of every live key some book still records.
Compact(known) ==
    LET at(b) == IF b \in known
                 THEN UNION {Refreshed(o, b) : o \in BookOccurrences(device, b)}
                 ELSE BookOccurrences(device, b)
        live == Live(device)
        kept == UNION {{[key |-> o.key, book |-> b, hint |-> o.hint, anchor |-> o.anchor] :
                            o \in {q \in at(b) : q.key \in live}} : b \in Books}
        own == {[key |-> r.key, book |-> r.book, hint |-> r.hint] :
                   r \in {q \in kept : \A s \in kept :
                             (s.key = q.key /\ s.book = q.book) => q.hint <= s.hint}}
    IN /\ installed = version
       /\ Len(device) > 1
       /\ own # {}
       /\ device' = <<Derived(Segment(own, {}, {}, Rows({r \in kept : r.anchor # NoText})),
                              {}, NoLinks)>>
       /\ UNCHANGED <<chain, version, plan, ledger, warehouse, release, installed>>

----------------------------------------------------------------------------
ReleaseInit ==
    /\ chain \in Kinds
    /\ version = 0
    /\ plan = [l \in Lines |-> NoText]
    /\ ledger = [keys |-> {}, pairs |-> {}, plan |-> NoText, sharing |-> FALSE]
    /\ warehouse = {}
    /\ release = [delta |-> Segment({}, {}, {}, {}), base |-> Segment({}, {}, {}, {})]
    /\ device = <<>>
    /\ installed = 0

\* The books a host's index knows: none, or those with a line in the plan and
\* maybe others.  What a book it does not know records is kept.
KnownBooks == {{}} \cup {known \in SUBSET Books : \A l \in Lines : plan[l] # NoText => l[1] \in known}

ReleaseNext ==
    \/ PublishNext
    \/ InstallDelta
    \/ InstallBase
    \/ \E known \in KnownBooks : Compact(known)

ReleaseSpec == ReleaseInit /\ [][ReleaseNext]_releaseVars

----------------------------------------------------------------------------
UpToDate == installed > 0 /\ installed = version

RecordType == [key : Keys, book : Books, hint : {l[2] : l \in Lines}]

SegmentOK(s) ==
    /\ s.own \subseteq RecordType
    /\ s.foreign \subseteq RecordType
    /\ s.tombstones \subseteq Keys
    /\ \A r \in s.rows :
        /\ [key |-> r.key, book |-> r.book, hint |-> r.hint] \in RecordType
        /\ r.anchor \in Keys
        /\ <<r.book, r.key>> \in {PairOf(q) : q \in s.own \cup s.foreign}

\* Every set is one a reader takes: a link leads to a segment older than its
\* own that ships the record's key, no key is both a segment's own and foreign
\* to it, and a snapshot's row has a vector record in its book (writer.rs
\* add_occurrences refuses one without).
ReleaseTypeOK ==
    /\ chain \in Kinds
    /\ version \in 0..MaxVersion /\ installed \in 0..version
    /\ plan \in Plans
    /\ ledger.keys \subseteq Keys /\ ledger.pairs \subseteq Books \X Keys
    /\ warehouse \subseteq Keys
    /\ SegmentOK(release.delta) /\ SegmentOK(release.base)
    /\ \A i \in DOMAIN device :
        LET s == device[i].segment IN
        /\ SegmentOK(s)
        /\ device[i].deleted \subseteq KeysOf(s.own)
        /\ KeysOf(s.own) \cap KeysOf(s.foreign) = {}
        /\ DOMAIN device[i].links = s.foreign
        /\ \A r \in s.foreign :
            /\ device[i].links[r] \in 1..(i - 1)
            /\ r.key \in KeysOf(device[device[i].links[r]].segment.own)

\* A device on the release answers with every line of its plan: the gate G3
\* (gates.rs coverage), without the gate.
CoverageComplete ==
    UpToDate => \A b \in Books :
        LET found == BookOccurrences(device, b)
            reached == IF Unsnapped THEN KeysOf(found) ELSE {o.anchor : o \in found}
        IN {plan[l] : l \in {m \in Lines : m[1] = b}} \subseteq reached \cup {NoText}

\* A device that followed the deltas, compacting or not, answers exactly as
\* one that took the base: no place of an older release survives in it.  In a
\* chain without snapshots a book's record stays while its key lives on in
\* another book, and the device names at least the base's keys, none of them dead.
AnswersAsBase ==
    UpToDate =>
        LET fresh == <<Derived(release.base, {}, NoLinks)>>
        IN \A b \in Books :
            LET told == BookOccurrences(device, b)
                base == BookOccurrences(fresh, b)
            IN IF ~Unsnapped THEN told = base
               ELSE KeysOf(base) \subseteq KeysOf(told) /\ KeysOf(told) \subseteq ledger.keys

\* A search under a filter finds a key in a book exactly where the book's own
\* occurrences name it: scan.rs and mod.rs read the same segments each by a
\* walk of its own, and compaction keeps what the second one tells.
FilterAgrees ==
    UpToDate => \A b \in Books :
        {at[2] : at \in Admitted(device, b)} = {o.key : o \in BookOccurrences(device, b)}

\* The ledger a delta is cut against knows exactly the keys a device holds,
\* each of them live in one slot: what is neither shipped nor named foreign is
\* there, and what is dead is never found.
LedgerKnowsTheDevice ==
    UpToDate => /\ Live(device) = ledger.keys
                /\ \A i, j \in DOMAIN device :
                    i # j => LiveKeys(device, i) \cap LiveKeys(device, j) = {}
=============================================================================
