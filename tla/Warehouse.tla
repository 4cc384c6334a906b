------------------------------ MODULE Warehouse ------------------------------
(***************************************************************************)
(* The build machine's store of vectors (distribution/warehouse.rs): two   *)
(* data files that only grow, an index, and warehouse.json, which counts   *)
(* what is committed.  One process at a time adds, under a lock; others    *)
(* open to read whenever they like, without one.  A record is the text it  *)
(* is the vector, or the key, of; records are numbered from 1.             *)
(***************************************************************************)
EXTENDS Naturals, Sequences, FiniteSets

CONSTANTS Texts, Readers,
          MaxBatch,  \* bound: the records that one add is to add
          MaxFile,   \* bound: the records in a data file when an add begins
          GoesOn,    \* a handle whose add failed is used again; main.rs drops it
          None

ASSUME WarehouseAssumption ==
  /\ {MaxBatch, MaxFile} \subseteq Nat /\ GoesOn \in BOOLEAN
  /\ None \notin Texts \cup Nat \cup [Texts -> Nat \cup {None}]

VARIABLES
  vectors, keys, \* vectors.f32 and keys.bin
  index,         \* index.bin: the record of each text, None for one it does not name
  manifest,      \* warehouse.json: its batches
  flushed,       \* what a power loss may bring back of each of the four
  writer,        \* the process that adds, and the handle it has open
  reader,        \* the others
  reported       \* history: the texts that an add reported as held

vars == <<vectors, keys, index, manifest, flushed, writer, reader, reported>>

files == <<vectors, keys, index, manifest, flushed>>

\* What a batch recorded of what it hashed stands for the digests of both files.
Batches == [first : Nat, texts : Seq(Texts)]

Indexes == [Texts -> Nat \cup {None}]

EmptyIndex == [t \in Texts |-> None]

\* The batches tile the records.
Counted(m) == IF m = <<>> THEN 0 ELSE m[Len(m)].first + Len(m[Len(m)].texts)

Entries(idx) == Cardinality({t \in Texts : idx[t] # None})

Closed == [pc |-> "closed", manifest |-> <<>>, index |-> None, data |-> FALSE,
           adding |-> <<>>, toVectors |-> <<>>, toKeys |-> <<>>]

Cut(file, n) == SubSeq(file, 1, n)

Injective(s) == \A i, j \in DOMAIN s : s[i] = s[j] => i = j

-----------------------------------------------------------------------------
(* The checks.                                                             *)

\* faults, of the data: every batch is re-hashed.
DataFault(m) ==
  \E i \in DOMAIN m : \E at \in DOMAIN m[i].texts :
    LET record == m[i].first + at IN
    \/ record > Len(vectors) \/ vectors[record] # m[i].texts[at]
    \/ record > Len(keys) \/ keys[record] # m[i].texts[at]

\* index_fault
IndexFault(idx, n) ==
  \/ Entries(idx) # n
  \/ \E t \in Texts : idx[t] # None /\ (idx[t] > n \/ keys[idx[t]] # t)

\* rebuild_index
Rebuilt(n) ==
  [t \in Texts |->
     IF \E r \in 1 .. n : keys[r] = t THEN CHOOSE r \in 1 .. n : keys[r] = t ELSE None]

-----------------------------------------------------------------------------
(* Opening to add.                                                         *)

Goto(pc) == writer' = [writer EXCEPT !.pc = pc]

\* The lock is free, and taken.
OpenToAdd ==
  /\ writer.pc = "closed"
  /\ writer' = [Closed EXCEPT !.pc = "cut vectors", !.manifest = manifest]
  /\ UNCHANGED <<files, reader, reported>>

CutVectors ==
  LET n == Counted(writer.manifest) IN
  /\ writer.pc = "cut vectors" /\ Len(vectors) >= n
  /\ vectors' = Cut(vectors, n)
  /\ flushed' = IF Len(vectors) > n THEN [flushed EXCEPT !.vectors = vectors'] ELSE flushed
  /\ Goto("cut keys")
  /\ UNCHANGED <<keys, index, manifest, reader, reported>>

CutKeys ==
  LET n == Counted(writer.manifest) IN
  /\ writer.pc = "cut keys" /\ Len(keys) >= n
  /\ keys' = Cut(keys, n)
  /\ flushed' = IF Len(keys) > n THEN [flushed EXCEPT !.keys = keys'] ELSE flushed
  /\ Goto("verify")
  /\ UNCHANGED <<vectors, index, manifest, reader, reported>>

\* A data fault is a refusal; an index that is not the keys' is built anew.
Verify ==
  LET n == Counted(writer.manifest) IN
  /\ writer.pc = "verify" /\ ~DataFault(writer.manifest)
  /\ IF IndexFault(index, n)
     THEN Injective(Cut(keys, n)) /\ index' = Rebuilt(n)
     ELSE UNCHANGED index
  /\ writer' = [writer EXCEPT !.pc = "ready", !.index = index', !.data = TRUE]
  /\ UNCHANGED <<vectors, keys, manifest, flushed, reader, reported>>

\* The handle is dropped: done, an error while it opened, a panic or a kill.
Drop ==
  /\ writer.pc # "closed" /\ writer' = Closed
  /\ UNCHANGED <<files, reader, reported>>

-----------------------------------------------------------------------------
(* Adding.                                                                 *)

\* What the mapped index does not name: without one, everything.
Missing == {t \in Texts : writer.index = None \/ writer.index[t] = None}

\* Shards that pass verify_shards, and of those what is missing; two may hold one key.
BeginAdd ==
  /\ writer.pc = "ready" /\ (writer.data \/ GoesOn)
  /\ Len(vectors) <= MaxFile /\ Len(keys) <= MaxFile /\ Len(writer.manifest) < MaxFile
  /\ \E size \in 0 .. MaxBatch : \E missing \in [1 .. size -> Missing] :
       writer' = [writer EXCEPT !.pc = "append", !.data = FALSE,
                    !.adding = missing, !.toVectors = missing, !.toKeys = missing]
  /\ UNCHANGED <<files, reader, reported>>

\* Both files are written through buffers: which is ahead is anybody's guess.
AppendVector ==
  /\ writer.pc = "append" /\ writer.toVectors # <<>>
  /\ vectors' = Append(vectors, Head(writer.toVectors))
  /\ writer' = [writer EXCEPT !.toVectors = Tail(writer.toVectors)]
  /\ UNCHANGED <<keys, index, manifest, flushed, reader, reported>>

AppendKey ==
  /\ writer.pc = "append" /\ writer.toKeys # <<>>
  /\ keys' = Append(keys, Head(writer.toKeys))
  /\ writer' = [writer EXCEPT !.toKeys = Tail(writer.toKeys)]
  /\ UNCHANGED <<vectors, index, manifest, flushed, reader, reported>>

Flush ==
  /\ writer.pc = "append" /\ writer.toVectors = <<>> /\ writer.toKeys = <<>>
  /\ flushed' = [flushed EXCEPT !.vectors = vectors, !.keys = keys]
  /\ Goto(IF Injective(writer.adding) THEN "index" ELSE "undo vectors")
  /\ UNCHANGED <<vectors, keys, index, manifest, reader, reported>>

AppendFails ==
  /\ writer.pc = "append" /\ Goto("undo vectors")
  /\ UNCHANGED <<files, reader, reported>>

\* The error is returned with the handle as it is.
Fails == writer' = [writer EXCEPT !.pc = "ready", !.adding = <<>>, !.toVectors = <<>>,
                                  !.toKeys = <<>>]

\* Mutant.
UndoNothing ==
  /\ writer.pc = "undo vectors" /\ Goto("undo keys")
  /\ UNCHANGED <<files, reader, reported>>

\* truncate: each file may refuse, and then what was appended stays.
UndoVectors ==
  /\ writer.pc = "undo vectors"
  /\ \/ vectors' = Cut(vectors, Counted(writer.manifest)) /\ Goto("undo keys")
     \/ UNCHANGED vectors /\ Fails
  /\ UNCHANGED <<keys, index, manifest, flushed, reader, reported>>

UndoKeys ==
  /\ writer.pc = "undo keys"
  /\ \/ /\ keys' = Cut(keys, Counted(writer.manifest))
        /\ writer' = [writer EXCEPT !.pc = "ready", !.data = TRUE, !.adding = <<>>,
                                    !.toVectors = <<>>, !.toKeys = <<>>]
     \/ UNCHANGED keys /\ Fails
  /\ UNCHANGED <<vectors, index, manifest, flushed, reader, reported>>

\* The old index and the new entries under a temporary name; there is no old index
\* after an add that failed past this point, and the process panics (Drop).
WriteIndex ==
  /\ writer.pc = "index" /\ writer.index # None
  /\ Goto("commit") \/ Fails
  /\ UNCHANGED <<files, reader, reported>>

Merged(idx, n, adding) ==
  [t \in Texts |->
     IF \E i \in DOMAIN adding : adding[i] = t
     THEN n + (CHOOSE i \in DOMAIN adding : adding[i] = t)
     ELSE idx[t]]

CommitIndex ==
  /\ writer.pc = "commit"
  /\ \/ /\ index' = Merged(writer.index, Counted(writer.manifest), writer.adding)
        /\ writer' = [writer EXCEPT !.pc = "count", !.index = None]
     \/ \* the rename is refused, with the old index already unmapped
        /\ UNCHANGED index
        /\ writer' = [writer EXCEPT !.pc = "ready", !.index = None, !.adding = <<>>]
  /\ UNCHANGED <<vectors, keys, manifest, flushed, reader, reported>>

Extended(m, adding) == Append(m, [first |-> Counted(m), texts |-> adding])

Held(m) == UNION {{m[i].texts[at] : at \in DOMAIN m[i].texts} : i \in DOMAIN m}

\* Mutant: the directory is not flushed.
Unflushed == UNCHANGED flushed

FlushDirectory == flushed' = [flushed EXCEPT !.index = index, !.manifest = manifest']

\* The count in memory is the new one whether the write succeeds or not.
Count ==
  /\ writer.pc = "count"
  /\ \/ \* written, and mapped again
        /\ manifest' = Extended(writer.manifest, writer.adding)
        /\ FlushDirectory
        /\ writer' = [writer EXCEPT !.pc = "ready", !.manifest = manifest', !.index = index,
                                    !.data = TRUE, !.adding = <<>>]
        /\ reported' = Held(manifest')
     \/ \* an error before the rename of warehouse.json, or after it
        /\ manifest' \in {manifest, Extended(writer.manifest, writer.adding)}
        /\ writer' = [writer EXCEPT !.pc = "ready", !.adding = <<>>,
                        !.manifest = Extended(writer.manifest, writer.adding)]
        /\ UNCHANGED <<flushed, reported>>
  /\ UNCHANGED <<vectors, keys, index, reader>>

-----------------------------------------------------------------------------
(* Reading.                                                                *)

Away == [pc |-> "away", manifest |-> <<>>, index |-> None]

\* Also again, while it waits for a count that an add is about to write.
ReadManifest(r) ==
  /\ reader[r].pc = "away"
  /\ reader' = [reader EXCEPT ![r] = [Away EXCEPT !.pc = "read", !.manifest = manifest]]
  /\ UNCHANGED <<files, writer, reported>>

Mappable(m) ==
  /\ Len(vectors) >= Counted(m) /\ Len(keys) >= Counted(m)
  /\ Entries(index) = Counted(m)

Map(r) ==
  /\ reader[r].pc = "read"
  /\ reader' = [reader EXCEPT ![r] =
       IF Mappable(reader[r].manifest)
       THEN [pc |-> "open", manifest |-> reader[r].manifest, index |-> index]
       ELSE Away]
  /\ UNCHANGED <<files, writer, reported>>

Leave(r) ==
  /\ reader[r].pc = "open" /\ reader' = [reader EXCEPT ![r] = Away]
  /\ UNCHANGED <<files, writer, reported>>

\* Mutant: what the index says is not confirmed.
FindIndexed(handle, t) ==
  LET r == handle.index[t] IN IF r # None /\ r <= Counted(handle.manifest) THEN r ELSE None

\* find, with what confirmed reads of keys.bin through the mapping: the file itself.
Find(handle, t) ==
  LET r == handle.index[t] IN
  IF r # None /\ r <= Counted(handle.manifest) /\ keys[r] = t THEN r ELSE None

PowerLoss ==
  /\ vectors' \in {vectors, flushed.vectors} /\ keys' \in {keys, flushed.keys}
  /\ index' \in {index, flushed.index} /\ manifest' \in {manifest, flushed.manifest}
  /\ flushed' = [vectors |-> vectors', keys |-> keys', index |-> index', manifest |-> manifest']
  /\ writer' = Closed /\ reader' = [r \in Readers |-> Away]
  /\ UNCHANGED reported

\* create left both files empty, an index of nothing and a count of none.
Init ==
  /\ vectors = <<>> /\ keys = <<>> /\ index = EmptyIndex /\ manifest = <<>>
  /\ flushed = [vectors |-> <<>>, keys |-> <<>>, index |-> EmptyIndex, manifest |-> <<>>]
  /\ writer = Closed /\ reader = [r \in Readers |-> Away] /\ reported = {}

Next ==
  \/ OpenToAdd \/ CutVectors \/ CutKeys \/ Verify \/ Drop
  \/ BeginAdd \/ AppendVector \/ AppendKey \/ Flush \/ AppendFails \/ UndoVectors \/ UndoKeys
  \/ WriteIndex \/ CommitIndex \/ Count \/ PowerLoss
  \/ \E r \in Readers : ReadManifest(r) \/ Map(r) \/ Leave(r)

Spec == Init /\ [][Next]_vars

-----------------------------------------------------------------------------
(* Correctness.                                                            *)

\* An index names no record past the ones there can be.
Sound(idx) == \A t \in Texts : idx[t] # None => idx[t] \in 1 .. Cardinality(Texts)

TypeOK ==
  /\ {vectors, keys} \subseteq Seq(Texts)
  /\ index \in Indexes /\ Sound(index)
  /\ manifest \in Seq(Batches)
  /\ {flushed.vectors, flushed.keys} \subseteq Seq(Texts)
  /\ flushed.index \in Indexes /\ flushed.manifest \in Seq(Batches)
  /\ {writer.adding, writer.toVectors, writer.toKeys} \subseteq Seq(Texts)
  /\ writer.manifest \in Seq(Batches)
  /\ writer.index \in Indexes \cup {None} /\ writer.data \in BOOLEAN
  /\ \A r \in Readers :
       reader[r].manifest \in Seq(Batches) /\ reader[r].index \in Indexes \cup {None}
  /\ reported \subseteq Texts

\* What warehouse.json counts is there, record by record in both files and each text
\* once, wherever an add, a crash or a power loss stopped: opening to add never finds
\* data that fails its digest, which nothing here could repair.
CountedIsThere ==
  /\ ~DataFault(manifest)
  /\ Injective(Cut(keys, Counted(manifest)))

\* A handle opened to read finds a text only at a record of its count that holds the text's
\* own vector, while adds go on, fail and are undone beside it; and it finds every text
\* its count covers, unless a power loss brought an index back that verify refuses.
ReaderFinds ==
  \A r \in Readers : reader[r].pc = "open" =>
    \A t \in Texts :
      LET found == Find(reader[r], t) IN
      IF found # None
      THEN t \in Held(reader[r].manifest) /\ vectors[found] = t
      ELSE t \in Held(reader[r].manifest)
             => IndexFault(reader[r].index, Counted(reader[r].manifest))

\* What an add reported as held is counted from then on, whatever happens.
AddedStays == reported \subseteq Held(manifest)
=============================================================================
