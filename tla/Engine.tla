------------------------------- MODULE Engine -------------------------------
(***************************************************************************)
(* The self-built index (semantic/engine.rs): vectors in memory, and a     *)
(* manifest that says which books they are of and what made them.  A call  *)
(* is a sequence of steps; each can fail, and the process can end between  *)
(* two.  The vectors do not outlive it, the manifest does.  Of the file it *)
(* is saved in, what ManifestFile shows is taken: a load finds the last    *)
(* manifest a save reported or one that a later save began.                *)
(***************************************************************************)
EXTENDS Naturals, FiniteSets

CONSTANTS Books, Texts, \* a text has chunks to embed
          Blank,        \* a revision of a book that has none
          Configs,      \* what the manifest compares but the model's own identity
          Models,       \* what a model file holds
          None,
          MaxFind       \* bound: the manifests a restart may find when a save begins

ASSUME EngineAssumption ==
  /\ Blank \notin Texts /\ None \notin Texts \cup {Blank}
  /\ None \notin Configs /\ None \notin Models
  /\ None \notin [text : Texts, model : Models, config : Configs]
  /\ MaxFind \in Nat

VARIABLES
  file,     \* the bytes under the configured model path; the host may change them
  config,   \* the configuration the engine was opened with, None while closed
  runtime,  \* the model in memory
  store,    \* per book, what its vectors are of
  manifest, \* the manifest in memory
  refused,  \* the recorded incompatibilities are not empty
  op,       \* the call that runs
  found,    \* the manifests a restart may find
  noted     \* history: books a reported save recorded as blank and nobody touched since

vars == <<file, config, runtime, store, manifest, refused, op, found, noted>>

Revisions == Texts \cup {Blank}

Vectors == [text : Texts, model : Models, config : Configs]

Manifests ==
  [config : Configs, model : Models \cup {None}, books : [Books -> Revisions \cup {None}]]

Idle == [call |-> "idle"]

Calls ==
  [call : {"load", "replace", "save"}, book : Books \cup {None},
   revision : Revisions \cup {None}, alone : BOOLEAN]

NoVectors == [b \in Books |-> None]

NoBooks == [b \in Books |-> None]

\* SemanticManifest::new, before the model is known.
Fresh(c) == [config |-> c, model |-> None, books |-> NoBooks]

\* Where the engine is closed.
NoManifest == [config |-> None, model |-> None, books |-> NoBooks]

-----------------------------------------------------------------------------
(* The manifest.                                                           *)

\* validate: what the caller does not know yet is no mismatch.
Matches(m, model) == m.config = config /\ (None \in {m.model, model} \/ m.model = model)

Blanks(m) == {b \in Books : m.books[b] = Blank}

\* save: reported, or refused at a step before or after the rename.
SavesAs(m) == found' = {m} /\ noted' = Blanks(m)

SaveFails(m) ==
  Cardinality(found) <= MaxFind /\ found' = found \cup {m} /\ noted' = noted \cap Blanks(m)

Unsaved == UNCHANGED <<found, noted>>

\* Mutant: clear_books.
AllDropped(m) == [m EXCEPT !.books = NoBooks]

\* clear_books_with_vectors
Emptied(m) == [m EXCEPT !.books = [b \in Books |-> IF m.books[b] = Blank THEN Blank ELSE None]]

-----------------------------------------------------------------------------
(* Opening and closing.                                                    *)

Opens(c, m, bad) ==
  /\ config' = c /\ manifest' = m /\ refused' = bad
  /\ store' = NoVectors /\ runtime' = None /\ op' = Idle
  /\ UNCHANGED file

StaysClosed == UNCHANGED <<file, config, runtime, store, manifest, refused, op>>

\* The records that claim vectors are dropped, unless the index is of another
\* configuration: it is refused as it is.
OpenFound(c, m) ==
  \/ m.config # c /\ Opens(c, m, TRUE) /\ Unsaved
  \/ m.config = c /\ Emptied(m) = m /\ Opens(c, m, FALSE) /\ Unsaved
  \/ /\ m.config = c /\ Emptied(m) # m /\ Opens(c, Emptied(m), FALSE)
     /\ found' = {Emptied(m)} /\ UNCHANGED noted
  \/ /\ m.config = c /\ Emptied(m) # m /\ StaysClosed
     /\ Cardinality(found) <= MaxFind
     /\ found' = found \cup {Emptied(m)} /\ UNCHANGED noted

\* No manifest, or one that could not be loaded and is set aside, if it can be:
\* a fresh one takes its place.
OpenFresh(c) ==
  \/ Opens(c, Fresh(c), FALSE) /\ SavesAs(Fresh(c))
  \/ StaysClosed /\ SaveFails(Fresh(c))

Open ==
  /\ config = None
  /\ \E c \in Configs : OpenFresh(c) \/ \E m \in found : OpenFound(c, m)

\* The engine is dropped, or the process killed at any step.
Close ==
  /\ config # None
  /\ config' = None /\ runtime' = None /\ store' = NoVectors /\ manifest' = NoManifest
  /\ refused' = FALSE /\ op' = Idle
  /\ UNCHANGED <<file, found, noted>>

SwapModelFile == \E f \in Models : file' = f /\ UNCHANGED
                   <<config, runtime, store, manifest, refused, op, found, noted>>

-----------------------------------------------------------------------------
(* The steps a call may come to.                                           *)

Goto(call) == op' = [op EXCEPT !.call = call]

Call(call, b, r, alone) ==
  op' = [call |-> call, book |-> b, revision |-> r, alone |-> alone]

\* load_model, called by the host or by an index that has something to embed.
\* The model stays loaded whatever comes after.
Recorded(m, model) == IF m.model = None THEN [m EXCEPT !.model = model] ELSE m

AfterLoading == IF op.book = None THEN op' = Idle ELSE Goto("replace")

LoadModel ==
  /\ op.call = "load"
  /\ \/ \* the file could not be loaded
        op' = Idle /\ UNCHANGED <<runtime, manifest, refused>> /\ Unsaved
     \/ /\ runtime' = file /\ ~Matches(manifest, file)
        /\ refused' = TRUE /\ op' = Idle /\ UNCHANGED manifest /\ Unsaved
     \/ /\ runtime' = file /\ Matches(manifest, file) /\ UNCHANGED refused
        /\ manifest' = Recorded(manifest, file)
        /\ \/ manifest.model # None /\ Unsaved
           \/ manifest.model = None /\ SavesAs(manifest')
        \* an index that was refused before is not usable now
        /\ AfterLoading
     \/ /\ runtime' = file /\ Matches(manifest, file) /\ manifest.model = None
        /\ manifest' = Recorded(manifest, file) /\ UNCHANGED refused
        /\ SaveFails(manifest') /\ op' = Idle
  /\ UNCHANGED <<file, config, store>>

\* Everything is embedded before a vector is removed.
EmbeddingFails ==
  /\ op.call = "replace" /\ op.revision # Blank
  /\ op' = Idle
  /\ UNCHANGED <<file, config, runtime, store, manifest, refused, found, noted>>

Replaced(b, r) ==
  [store EXCEPT ![b] =
     IF r = Blank THEN None ELSE [text |-> r, model |-> runtime, config |-> config]]

Marked(b, r) == [manifest EXCEPT !.books[b] = r]

Replace ==
  /\ op.call = "replace"
  /\ store' = Replaced(op.book, op.revision)
  /\ manifest' = Marked(op.book, op.revision)
  /\ noted' = noted \ {op.book}
  /\ IF op.alone THEN Goto("save") ELSE op' = Idle
  /\ UNCHANGED <<file, config, runtime, refused, found>>

\* Mutant: the record of what was removed stays.
InsertFailsSilently ==
  /\ op.call = "replace" /\ op.revision # Blank
  /\ store' = [store EXCEPT ![op.book] = None]
  /\ noted' = noted \ {op.book}
  /\ op' = Idle
  /\ UNCHANGED <<file, config, runtime, manifest, refused, found>>

\* Mutant: the record goes and the old vectors stay.
InsertFailsEarly ==
  /\ op.call = "replace" /\ op.revision # Blank
  /\ manifest' = Marked(op.book, None)
  /\ noted' = noted \ {op.book}
  /\ op' = Idle
  /\ UNCHANGED <<file, config, runtime, store, refused, found>>

\* The batch is refused as a whole, and the record of what was removed goes.
InsertFails ==
  /\ op.call = "replace" /\ op.revision # Blank
  /\ store' = [store EXCEPT ![op.book] = None]
  /\ manifest' = Marked(op.book, None)
  /\ noted' = noted \ {op.book}
  /\ op' = Idle
  /\ UNCHANGED <<file, config, runtime, refused, found>>

Save ==
  /\ op.call = "save" /\ op' = Idle
  /\ SavesAs(manifest) \/ SaveFails(manifest)
  /\ UNCHANGED <<file, config, runtime, store, manifest, refused>>

-----------------------------------------------------------------------------
(* The calls.                                                              *)

Ready == config # None /\ op = Idle

BeginLoad ==
  /\ Ready /\ runtime = None
  /\ Call("load", None, None, TRUE)
  /\ UNCHANGED <<file, config, runtime, store, manifest, refused>> /\ Unsaved

UnloadModel ==
  /\ Ready /\ runtime' = None
  /\ UNCHANGED <<file, config, store, manifest, refused, op>> /\ Unsaved

\* book_is_already_current, with the count of the vectors that are there.
Current(b, r) == manifest.books[b] = r /\ (r = Blank <=> store[b] = None)

\* index_book, alone, and index_book_deferred; index_books is a sequence of the
\* latter.  A refused index and a current book end it here.
BeginIndex ==
  /\ Ready /\ ~refused
  /\ \E b \in Books, r \in Revisions, alone \in BOOLEAN :
       /\ ~Current(b, r)
       /\ IF r = Blank \/ runtime # None
          THEN Call("replace", b, r, alone)
          ELSE Call("load", b, r, alone)
  /\ UNCHANGED <<file, config, runtime, store, manifest, refused>> /\ Unsaved

\* flush_manifest; the end of index_books, also after a book that failed.
BeginFlush ==
  /\ Ready /\ Call("save", None, None, TRUE)
  /\ UNCHANGED <<file, config, runtime, store, manifest, refused>> /\ Unsaved

\* remove_books, refused index or not.
RemoveBooks ==
  /\ Ready
  /\ \E gone \in SUBSET Books :
       /\ \E b \in gone : store[b] # None \/ manifest.books[b] # None
       /\ store' = [b \in Books |-> IF b \in gone THEN None ELSE store[b]]
       /\ manifest' =
            [manifest EXCEPT !.books =
               [b \in Books |-> IF b \in gone THEN None ELSE manifest.books[b]]]
       /\ noted' = noted \ gone
  /\ Call("save", None, None, TRUE)
  /\ UNCHANGED <<file, config, runtime, refused, found>>

\* Mutant: the signature of the index it replaces.
SignedAsBefore == [Fresh(config) EXCEPT !.model = manifest.model]

\* What reset_index signs: the model in memory, whatever the manifest said.
Signed == [Fresh(config) EXCEPT !.model = runtime]

ResetIndex ==
  /\ Ready
  /\ store' = NoVectors /\ manifest' = Signed
  /\ \/ refused' = FALSE /\ SavesAs(manifest')
     \/ UNCHANGED refused /\ SaveFails(manifest')
  /\ UNCHANGED <<file, config, runtime, op>>

Init ==
  /\ file \in Models
  /\ config = None /\ runtime = None /\ store = NoVectors /\ manifest = NoManifest
  /\ refused = FALSE /\ op = Idle /\ found = {} /\ noted = {}

Next ==
  \/ Open \/ Close \/ SwapModelFile
  \/ BeginLoad \/ UnloadModel \/ BeginIndex \/ BeginFlush \/ RemoveBooks \/ ResetIndex
  \/ LoadModel \/ EmbeddingFails \/ Replace \/ InsertFails \/ Save

Spec == Init /\ [][Next]_vars

-----------------------------------------------------------------------------
(* Correctness.                                                            *)

TypeOK ==
  /\ file \in Models
  /\ config \in Configs \cup {None}
  /\ runtime \in Models \cup {None}
  /\ store \in [Books -> Vectors \cup {None}]
  /\ manifest \in Manifests \cup {NoManifest}
  /\ refused \in BOOLEAN
  /\ op \in Calls \cup {Idle}
  /\ found \in SUBSET Manifests
  /\ noted \in SUBSET Books

\* A record never claims vectors that are not there, whatever failed and however
\* often the process was restarted: a diff that calls a book up to date, and an
\* index that skips it, leave it searchable.
ClaimedIsStored ==
  config # None /\ ~refused =>
    \A b \in Books : manifest.books[b] \in Texts =>
      store[b] # None /\ store[b].text = manifest.books[b]

\* Nor are there vectors without a record: a book that left the library is among
\* what a diff reports as removed, and can be removed.
StoredIsClaimed ==
  \A b \in Books : store[b] # None => manifest.books[b] = store[b].text

\* A query is compared only with vectors of the model and configuration that
\* embed it, whatever file was behind the model's path in between.
Comparable ==
  runtime # None /\ ~refused =>
    \A b \in Books : store[b] # None => store[b].model = runtime /\ store[b].config = config

\* A book that a save recorded as blank is not handed over again at every start.
BlankStaysKnown ==
  config # None => \A b \in noted : manifest.books[b] = Blank
=============================================================================
