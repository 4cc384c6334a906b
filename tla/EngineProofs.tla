---------------------------- MODULE EngineProofs ----------------------------
(***************************************************************************)
(* Engine's invariants, for every set of books, texts, configurations and  *)
(* models, and any sequence of calls, failures and restarts.               *)
(***************************************************************************)
EXTENDS Engine, TLAPS

-----------------------------------------------------------------------------
(* The inductive invariant.                                                *)

OpenOrNot ==
  IF config = None
  THEN /\ manifest = NoManifest /\ store = NoVectors /\ runtime = None
       /\ refused = FALSE /\ op = Idle
  ELSE manifest \in Manifests

\* The vectors, the records and the signature agree, refused or not.
Agree ==
  \A b \in Books : store[b] # None =>
    /\ manifest.books[b] = store[b].text
    /\ store[b].config = config /\ manifest.config = config
    /\ store[b].model = manifest.model

\* An index in use is signed by the model that embeds.
Usable ==
  config # None /\ ~refused =>
    /\ manifest.config = config
    /\ runtime # None => manifest.model = runtime
    /\ \A b \in Books : manifest.books[b] \in Texts => store[b] # None

\* Nothing is replaced in a refused index, or without a model to embed it.
Replacing ==
  /\ op.call = "replace" =>
       /\ ~refused /\ op.book \in Books /\ op.revision \in Revisions
       /\ op.revision # Blank => runtime # None
  /\ op.call = "load" /\ op.book # None => ~refused /\ op.revision \in Revisions
  /\ op.call = "load" => runtime = None

BlanksKept ==
  /\ config # None => noted \subseteq Blanks(manifest)
  /\ \A m \in found : noted \subseteq Blanks(m)

IInv == TypeOK /\ OpenOrNot /\ Agree /\ Usable /\ Replacing /\ BlanksKept

-----------------------------------------------------------------------------
(* What the helpers return.                                                *)

\* A new manifest has no books.
LEMMA FreshFields ==
  ASSUME NEW c \in Configs
  PROVE  /\ Fresh(c) \in Manifests /\ Blanks(Fresh(c)) = {}
         /\ Fresh(c).config = c /\ Fresh(c).model = None /\ Fresh(c).books = NoBooks
<1>1. Fresh(c) \in Manifests
  BY DEF Fresh, Manifests, NoBooks
<1>2. Blanks(Fresh(c)) = {}
  BY EngineAssumption DEF Fresh, Blanks, NoBooks
<1> QED
  BY <1>1, <1>2 DEF Fresh

\* Dropping the records of vectors keeps the blanks, and nothing else.
LEMMA EmptiedFields ==
  ASSUME NEW m \in Manifests
  PROVE  /\ Emptied(m) \in Manifests /\ Blanks(Emptied(m)) = Blanks(m)
         /\ Emptied(m).config = m.config
         /\ \A b \in Books : Emptied(m).books[b] \notin Texts
<1> DEFINE books == [b \in Books |-> IF m.books[b] = Blank THEN Blank ELSE None]
<1>1. Emptied(m) = [config |-> m.config, model |-> m.model, books |-> books]
  BY DEF Emptied, Manifests
<1>2. Emptied(m) \in Manifests
  <2>1. books \in [Books -> Revisions \cup {None}]
    BY DEF Revisions
  <2> QED
    BY <1>1, <2>1 DEF Manifests
<1>3. Blanks(Emptied(m)) = Blanks(m)
  BY <1>1, EngineAssumption DEF Blanks
<1>4. \A b \in Books : Emptied(m).books[b] \notin Texts
  BY <1>1, EngineAssumption
<1> QED
  BY <1>1, <1>2, <1>3, <1>4

\* Marking a book changes no other record and not the signature.
LEMMA MarkedFields ==
  ASSUME manifest \in Manifests, NEW b \in Books, NEW r \in Revisions \cup {None}
  PROVE  /\ Marked(b, r) \in Manifests
         /\ Marked(b, r).config = manifest.config /\ Marked(b, r).model = manifest.model
         /\ \A a \in Books :
              Marked(b, r).books[a] = IF a = b THEN r ELSE manifest.books[a]
BY DEF Marked, Manifests

\* Recording a model's identity changes no record of a book.
LEMMA RecordedFields ==
  ASSUME manifest \in Manifests, NEW f \in Models
  PROVE  /\ Recorded(manifest, f) \in Manifests
         /\ Recorded(manifest, f).config = manifest.config
         /\ Recorded(manifest, f).books = manifest.books
         /\ Recorded(manifest, f).model
              = IF manifest.model = None THEN f ELSE manifest.model
         /\ Blanks(Recorded(manifest, f)) = Blanks(manifest)
<1>1. /\ Recorded(manifest, f) \in Manifests
      /\ Recorded(manifest, f).config = manifest.config
      /\ Recorded(manifest, f).books = manifest.books
      /\ Recorded(manifest, f).model
           = IF manifest.model = None THEN f ELSE manifest.model
  BY DEF Recorded, Manifests
<1> QED
  BY <1>1 DEF Blanks

\* Replacing a book's vectors changes no other book's.
LEMMA ReplacedFields ==
  ASSUME TypeOK, runtime # None, config # None, NEW b \in Books, NEW r \in Texts
  PROVE  /\ Replaced(b, r) \in [Books -> Vectors \cup {None}]
         /\ Replaced(b, r)[b] = [text |-> r, model |-> runtime, config |-> config]
         /\ \A a \in Books : a # b => Replaced(b, r)[a] = store[a]
BY EngineAssumption DEF TypeOK, Replaced, Vectors

\* A book without text loses its vectors.
LEMMA RemovedFields ==
  ASSUME TypeOK, NEW b \in Books
  PROVE  /\ Replaced(b, Blank) \in [Books -> Vectors \cup {None}]
         /\ Replaced(b, Blank)[b] = None
         /\ \A a \in Books : a # b => Replaced(b, Blank)[a] = store[a]
BY DEF TypeOK, Replaced

\* What a reset signs.
LEMMA SignedFields ==
  ASSUME TypeOK, config # None
  PROVE  /\ Signed \in Manifests /\ Signed.config = config /\ Signed.model = runtime
         /\ Signed.books = NoBooks /\ Blanks(Signed) = {}
<1>1. Signed = [config |-> config, model |-> runtime, books |-> NoBooks]
  BY DEF Signed, Fresh
<1>2. Signed \in Manifests
  BY <1>1 DEF TypeOK, Manifests, NoBooks
<1>3. Blanks(Signed) = {}
  BY <1>1, EngineAssumption DEF Blanks, NoBooks
<1> QED
  BY <1>1, <1>2, <1>3

\* A step belongs to a call.
LEMMA Running ==
  ASSUME TypeOK, op.call \in {"load", "replace", "save"}
  PROVE  /\ op \in Calls
         /\ \A c \in {"load", "replace", "save"} : [op EXCEPT !.call = c] \in Calls
<1>1. op # Idle
  BY DEF Idle
<1> QED
  BY <1>1 DEF TypeOK, Calls

\* The initial states satisfy the invariant.
LEMMA InitIInv == Init => IInv
<1> SUFFICES ASSUME Init PROVE IInv
  OBVIOUS
<1> USE EngineAssumption
<1>1. TypeOK
  BY DEF Init, TypeOK, NoVectors
<1>2. OpenOrNot /\ Agree /\ Usable /\ Replacing /\ BlanksKept
  BY DEF Init, OpenOrNot, Agree, Usable, Replacing, BlanksKept, NoVectors, Idle
<1> QED
  BY <1>1, <1>2 DEF IInv

\* Every step keeps the types.
LEMMA StepTypeOK == ASSUME IInv, Next PROVE TypeOK'
<1> USE EngineAssumption DEF IInv, TypeOK
<1>1. CASE Open
  <2> PICK c \in Configs : OpenFresh(c) \/ \E m \in found : OpenFound(c, m)
    BY <1>1 DEF Open
  <2>1. CASE OpenFresh(c)
    <3>1. Blanks(Fresh(c)) = {} /\ Fresh(c) \in Manifests
      BY FreshFields
    <3> QED
      BY <1>1, <2>1, <3>1
       DEF Open, OpenFresh, Opens, StaysClosed, SavesAs, SaveFails, OpenOrNot, Replacing, NoVectors
  <2>2. ASSUME NEW m \in found, OpenFound(c, m)
        PROVE  TypeOK'
    <3>1. m \in Manifests
      OBVIOUS
    <3> QED
      BY <1>1, <2>2, <3>1, EmptiedFields DEF Open, OpenFound, Opens,
         StaysClosed, Unsaved, OpenOrNot, Replacing, NoVectors
  <2> QED
    BY <2>1, <2>2
<1>2. CASE Close
  BY <1>2 DEF Close, OpenOrNot, Replacing, NoVectors, Manifests, Calls, Idle
<1>3. CASE SwapModelFile
  BY <1>3 DEF SwapModelFile, OpenOrNot, Replacing, NoVectors, Manifests, Calls, Idle
<1>4. CASE BeginLoad
  BY <1>4 DEF BeginLoad, Ready, Call, Unsaved, OpenOrNot, Replacing, NoVectors,
     Manifests, Calls, Idle
<1>5. CASE UnloadModel
  BY <1>5 DEF UnloadModel, Ready, Unsaved, OpenOrNot, Replacing, NoVectors,
     Manifests, Calls, Idle
<1>6. CASE BeginIndex
  BY <1>6 DEF BeginIndex, Ready, Call, Unsaved, Current, OpenOrNot, Replacing,
     NoVectors, Manifests, Calls, Idle
<1>7. CASE BeginFlush
  BY <1>7 DEF BeginFlush, Ready, Call, Unsaved, OpenOrNot, Replacing, NoVectors,
     Manifests, Calls, Idle
<1>8. CASE RemoveBooks
  BY <1>8 DEF RemoveBooks, Ready, Call, OpenOrNot, Replacing, NoVectors,
     Manifests, Calls, Idle
<1>9. CASE ResetIndex
  BY <1>9, SignedFields DEF ResetIndex, Ready, SavesAs, SaveFails, OpenOrNot,
     Replacing, NoVectors, Manifests, Calls, Idle
<1>10. CASE LoadModel
  <2>0. manifest \in Manifests /\ config # None /\ file \in Models
    BY <1>10 DEF LoadModel, OpenOrNot, Idle
  <2>1. CASE op' = Idle /\ UNCHANGED <<runtime, manifest, refused>> /\ Unsaved
    BY <1>10, <2>0, <2>1 DEF LoadModel, Unsaved, OpenOrNot, Replacing,
       NoVectors, Idle, Blanks
  <2>2. CASE runtime' = file /\ ~Matches(manifest, file) /\ refused' = TRUE
             /\ op' = Idle /\ UNCHANGED manifest /\ Unsaved
    BY <1>10, <2>0, <2>2 DEF LoadModel, Unsaved, OpenOrNot, Replacing,
       NoVectors, Idle, Blanks
  <2>3. CASE runtime' = file /\ Matches(manifest, file) /\ UNCHANGED refused
             /\ manifest' = Recorded(manifest, file)
    BY <1>10, <2>0, <2>3, RecordedFields, Running
       DEF LoadModel, Matches, SavesAs, SaveFails, Unsaved, AfterLoading, Goto, OpenOrNot, Replacing, NoVectors, Idle, Blanks
  <2> QED
    BY <1>10, <2>1, <2>2, <2>3 DEF LoadModel
<1>11. CASE EmbeddingFails
  BY <1>11 DEF EmbeddingFails, OpenOrNot, Replacing, NoVectors, Manifests, Calls, Idle
<1>12. CASE Replace
  <2>0. manifest \in Manifests /\ config # None /\ op.book \in Books
    BY <1>12 DEF Replace, OpenOrNot, Replacing, Idle
  <2>1. CASE op.revision = Blank
    BY <1>12, <2>0, <2>1, MarkedFields, RemovedFields, Running DEF Replace,
       Goto, Revisions, OpenOrNot, Replacing, NoVectors
  <2>2. CASE op.revision \in Texts
    <3>1. runtime # None /\ op.revision # Blank
      BY <1>12, <2>2 DEF Replace, Replacing
    <3> QED
      BY <1>12, <3>1, <2>0, <2>2, MarkedFields, ReplacedFields, Running DEF
         Replace, Goto, Revisions, OpenOrNot, Replacing, NoVectors
  <2> QED
    BY <1>12, <2>1, <2>2 DEF Replace, Replacing, Revisions
<1>13. CASE InsertFails
  BY <1>13, MarkedFields, MarkedFields DEF InsertFails, OpenOrNot, Replacing,
     NoVectors, Manifests, Calls, Idle
<1>14. CASE Save
  BY <1>14, Running DEF Save, SavesAs, SaveFails, OpenOrNot, Blanks, Idle
<1> QED
  BY <1>1, <1>2, <1>3, <1>4, <1>5, <1>6, <1>7, <1>8, <1>9, <1>10, <1>11, <1>12,
     <1>13, <1>14
     DEF Next

\* A closed engine holds nothing.
LEMMA StepOpenOrNot == ASSUME IInv, Next PROVE OpenOrNot'
<1> USE EngineAssumption DEF IInv, TypeOK
<1>1. CASE Open
  BY <1>1, FreshFields, EmptiedFields DEF Open, OpenFresh, OpenFound, Opens,
     StaysClosed, SavesAs, SaveFails, OpenOrNot, Replacing, Manifests, Idle
<1>2. CASE Close
  BY <1>2 DEF Close, OpenOrNot, Replacing, Manifests, Idle
<1>3. CASE SwapModelFile
  BY <1>3 DEF SwapModelFile, OpenOrNot, Replacing, Manifests, Idle
<1>4. CASE BeginLoad
  BY <1>4 DEF BeginLoad, Ready, Call, Unsaved, OpenOrNot, Replacing, Manifests, Idle
<1>5. CASE UnloadModel
  BY <1>5 DEF UnloadModel, Ready, Unsaved, OpenOrNot, Replacing, Manifests, Idle
<1>6. CASE BeginIndex
  BY <1>6 DEF BeginIndex, Ready, Call, Unsaved, Current, OpenOrNot, Replacing,
     Manifests, Idle
<1>7. CASE BeginFlush
  BY <1>7 DEF BeginFlush, Ready, Call, Unsaved, OpenOrNot, Replacing, Manifests, Idle
<1>8. CASE RemoveBooks
  BY <1>8 DEF RemoveBooks, Ready, Call, OpenOrNot, Replacing, Manifests, Idle
<1>9. CASE ResetIndex
  BY <1>9, SignedFields DEF ResetIndex, Ready, SavesAs, SaveFails, OpenOrNot,
     Replacing, Manifests, Idle
<1>10. CASE LoadModel
  BY <1>10, RecordedFields DEF LoadModel, Matches, AfterLoading, Goto, SavesAs,
     SaveFails, Unsaved, OpenOrNot, Replacing, Manifests, Idle
<1>11. CASE EmbeddingFails
  BY <1>11 DEF EmbeddingFails, OpenOrNot, Replacing, Manifests, Idle
<1>12. CASE Replace
  BY <1>12, MarkedFields, ReplacedFields, RemovedFields DEF Replace, Goto,
     OpenOrNot, Replacing, Manifests, Idle
<1>13. CASE InsertFails
  BY <1>13, MarkedFields, MarkedFields DEF InsertFails, OpenOrNot, Replacing,
     Manifests, Idle
<1>14. CASE Save
  BY <1>14 DEF Save, SavesAs, SaveFails, OpenOrNot, Replacing, Manifests, Idle
<1> QED
  BY <1>1, <1>2, <1>3, <1>4, <1>5, <1>6, <1>7, <1>8, <1>9, <1>10, <1>11, <1>12,
     <1>13, <1>14
     DEF Next

\* Vectors, records and signature go on agreeing.
LEMMA StepAgree == ASSUME IInv, Next PROVE Agree'
<1> USE EngineAssumption DEF IInv, TypeOK
<1>1. CASE Open
  BY <1>1, FreshFields, EmptiedFields DEF Open, OpenFresh, OpenFound, Opens,
     StaysClosed, SavesAs, SaveFails, OpenOrNot, Agree, Usable, Replacing,
     NoVectors, Manifests
<1>2. CASE Close
  BY <1>2 DEF Close, OpenOrNot, Agree, Usable, Replacing, NoVectors, Manifests
<1>3. CASE SwapModelFile
  BY <1>3 DEF SwapModelFile, OpenOrNot, Agree, Usable, Replacing, NoVectors, Manifests
<1>4. CASE BeginLoad
  BY <1>4 DEF BeginLoad, Ready, Call, Unsaved, OpenOrNot, Agree, Usable,
     Replacing, NoVectors, Manifests
<1>5. CASE UnloadModel
  BY <1>5 DEF UnloadModel, Ready, Unsaved, OpenOrNot, Agree, Usable, Replacing,
     NoVectors, Manifests
<1>6. CASE BeginIndex
  BY <1>6 DEF BeginIndex, Ready, Call, Unsaved, Current, OpenOrNot, Agree,
     Usable, Replacing, NoVectors, Manifests
<1>7. CASE BeginFlush
  BY <1>7 DEF BeginFlush, Ready, Call, Unsaved, OpenOrNot, Agree, Usable,
     Replacing, NoVectors, Manifests
<1>8. CASE RemoveBooks
  BY <1>8 DEF RemoveBooks, Ready, Call, OpenOrNot, Agree, Usable, Replacing,
     NoVectors, Manifests
<1>9. CASE ResetIndex
  BY <1>9, SignedFields DEF ResetIndex, Ready, SavesAs, SaveFails, OpenOrNot,
     Agree, Usable, Replacing, NoVectors, Manifests
<1>10. CASE LoadModel
  <2>0. manifest \in Manifests /\ config # None /\ file \in Models
    BY <1>10 DEF LoadModel, OpenOrNot, Idle
  <2>1. CASE op' = Idle /\ UNCHANGED <<runtime, manifest, refused>> /\ Unsaved
    BY <1>10, <2>0, <2>1 DEF LoadModel, Unsaved, OpenOrNot, Agree, Usable,
       Replacing, Vectors
  <2>2. CASE runtime' = file /\ ~Matches(manifest, file) /\ refused' = TRUE
             /\ op' = Idle /\ UNCHANGED manifest /\ Unsaved
    BY <1>10, <2>0, <2>2 DEF LoadModel, Unsaved, OpenOrNot, Agree, Usable,
       Replacing, Vectors
  <2>3. CASE runtime' = file /\ Matches(manifest, file) /\ UNCHANGED refused
             /\ manifest' = Recorded(manifest, file)
    BY <1>10, <2>0, <2>3, RecordedFields, Running
       DEF LoadModel, Matches, SavesAs, SaveFails, Unsaved, AfterLoading, Goto, OpenOrNot, Agree, Usable, Replacing, Vectors
  <2> QED
    BY <1>10, <2>1, <2>2, <2>3 DEF LoadModel
<1>11. CASE EmbeddingFails
  BY <1>11 DEF EmbeddingFails, OpenOrNot, Agree, Usable, Replacing, NoVectors,
     Manifests
<1>12. CASE Replace
  <2>0. manifest \in Manifests /\ config # None /\ op.book \in Books
    BY <1>12 DEF Replace, OpenOrNot, Replacing, Idle
  <2>1. /\ manifest'.config = manifest.config /\ manifest'.model = manifest.model
        /\ manifest.config = config /\ config' = config /\ runtime' = runtime
        /\ refused' = refused
    BY <1>12, <2>0, MarkedFields DEF Replace, Replacing, Usable
  <2>2. \A b \in Books : b # op.book =>
          store'[b] = store[b] /\ manifest'.books[b] = manifest.books[b]
    BY <1>12, <2>0, MarkedFields DEF Replace, Replacing, Replaced
  <2>3. CASE op.revision = Blank
    <3>1. store'[op.book] = None /\ manifest'.books[op.book] = Blank
      BY <1>12, <2>0, <2>3, MarkedFields, RemovedFields DEF Replace, Revisions
    <3> QED
      BY <2>1, <2>2, <3>1 DEF Agree, Usable
  <2>4. CASE op.revision \in Texts
    <3>1. runtime # None
      BY <1>12, <2>4 DEF Replace, Replacing
    <3>2. /\ manifest'.books[op.book] = op.revision
          /\ store'[op.book]
               = [text |-> op.revision, model |-> runtime, config |-> config]
      BY <1>12, <2>0, <2>4, <3>1, MarkedFields, ReplacedFields DEF Replace, Revisions
    <3>3. store'[op.book] # None
      BY <2>0, <2>4, <3>1, <3>2
    <3>4. manifest.model = runtime
      BY <1>12, <2>0, <3>1 DEF Replace, Replacing, Usable
    <3> QED
      BY <2>1, <2>2, <3>2, <3>3, <3>4 DEF Agree, Usable
  <2> QED
    BY <1>12, <2>3, <2>4 DEF Replace, Replacing, Revisions
<1>13. CASE InsertFails
  BY <1>13, MarkedFields, MarkedFields DEF InsertFails, OpenOrNot, Agree,
     Usable, Replacing, NoVectors, Manifests
<1>14. CASE Save
  BY <1>14 DEF Save, SavesAs, SaveFails, OpenOrNot, Agree, Usable, Replacing,
     NoVectors, Manifests
<1> QED
  BY <1>1, <1>2, <1>3, <1>4, <1>5, <1>6, <1>7, <1>8, <1>9, <1>10, <1>11, <1>12,
     <1>13, <1>14
     DEF Next

\* An index that is not refused stays usable.
LEMMA StepUsable == ASSUME IInv, Next PROVE Usable'
<1> USE EngineAssumption DEF IInv, TypeOK
<1>1. CASE Open
  BY <1>1, FreshFields, EmptiedFields DEF Open, OpenFresh, OpenFound, Opens,
     StaysClosed, SavesAs, SaveFails, OpenOrNot, Agree, Usable, Replacing,
     NoVectors, NoBooks, Manifests, Revisions
<1>2. CASE Close
  BY <1>2 DEF Close, OpenOrNot, Agree, Usable, Replacing, NoVectors, NoBooks,
     Manifests, Revisions
<1>3. CASE SwapModelFile
  BY <1>3 DEF SwapModelFile, OpenOrNot, Agree, Usable, Replacing, NoVectors,
     NoBooks, Manifests, Revisions
<1>4. CASE BeginLoad
  BY <1>4 DEF BeginLoad, Ready, Call, Unsaved, OpenOrNot, Agree, Usable,
     Replacing, NoVectors, NoBooks, Manifests, Revisions
<1>5. CASE UnloadModel
  BY <1>5 DEF UnloadModel, Ready, Unsaved, OpenOrNot, Agree, Usable, Replacing,
     NoVectors, NoBooks, Manifests, Revisions
<1>6. CASE BeginIndex
  BY <1>6 DEF BeginIndex, Ready, Call, Unsaved, Current, OpenOrNot, Agree,
     Usable, Replacing, NoVectors, NoBooks, Manifests, Revisions
<1>7. CASE BeginFlush
  BY <1>7 DEF BeginFlush, Ready, Call, Unsaved, OpenOrNot, Agree, Usable,
     Replacing, NoVectors, NoBooks, Manifests, Revisions
<1>8. CASE RemoveBooks
  BY <1>8 DEF RemoveBooks, Ready, Call, OpenOrNot, Agree, Usable, Replacing,
     NoVectors, NoBooks, Manifests, Revisions
<1>9. CASE ResetIndex
  BY <1>9, SignedFields DEF ResetIndex, Ready, SavesAs, SaveFails, OpenOrNot,
     Agree, Usable, Replacing, NoVectors, NoBooks, Manifests, Revisions
<1>10. CASE LoadModel
  BY <1>10, RecordedFields DEF LoadModel, Matches, AfterLoading, Goto, SavesAs,
     SaveFails, Unsaved, OpenOrNot, Agree, Usable, Replacing, NoVectors,
     NoBooks, Manifests, Revisions
<1>11. CASE EmbeddingFails
  BY <1>11 DEF EmbeddingFails, OpenOrNot, Agree, Usable, Replacing, NoVectors,
     NoBooks, Manifests, Revisions
<1>12. CASE Replace
  <2>0. manifest \in Manifests /\ config # None /\ op.book \in Books
    BY <1>12 DEF Replace, OpenOrNot, Replacing, Idle
  <2>1. /\ manifest'.config = manifest.config /\ manifest'.model = manifest.model
        /\ manifest.config = config /\ config' = config /\ runtime' = runtime
        /\ refused' = refused
    BY <1>12, <2>0, MarkedFields DEF Replace, Replacing, Usable
  <2>2. \A b \in Books : b # op.book =>
          store'[b] = store[b] /\ manifest'.books[b] = manifest.books[b]
    BY <1>12, <2>0, MarkedFields DEF Replace, Replacing, Replaced
  <2>3. CASE op.revision = Blank
    <3>1. store'[op.book] = None /\ manifest'.books[op.book] = Blank
      BY <1>12, <2>0, <2>3, MarkedFields, RemovedFields DEF Replace, Revisions
    <3> QED
      BY <2>1, <2>2, <3>1 DEF Agree, Usable
  <2>4. CASE op.revision \in Texts
    <3>1. runtime # None
      BY <1>12, <2>4 DEF Replace, Replacing
    <3>2. /\ manifest'.books[op.book] = op.revision
          /\ store'[op.book]
               = [text |-> op.revision, model |-> runtime, config |-> config]
      BY <1>12, <2>0, <2>4, <3>1, MarkedFields, ReplacedFields DEF Replace, Revisions
    <3>3. store'[op.book] # None
      BY <2>0, <2>4, <3>1, <3>2
    <3>4. manifest.model = runtime
      BY <1>12, <2>0, <3>1 DEF Replace, Replacing, Usable
    <3> QED
      BY <2>1, <2>2, <3>2, <3>3, <3>4 DEF Agree, Usable
  <2> QED
    BY <1>12, <2>3, <2>4 DEF Replace, Replacing, Revisions
<1>13. CASE InsertFails
  BY <1>13, MarkedFields, MarkedFields DEF InsertFails, OpenOrNot, Agree,
     Usable, Replacing, NoVectors, NoBooks, Manifests, Revisions
<1>14. CASE Save
  BY <1>14 DEF Save, SavesAs, SaveFails, OpenOrNot, Agree, Usable, Replacing,
     NoVectors, NoBooks, Manifests, Revisions
<1> QED
  BY <1>1, <1>2, <1>3, <1>4, <1>5, <1>6, <1>7, <1>8, <1>9, <1>10, <1>11, <1>12,
     <1>13, <1>14
     DEF Next

\* What holds at a step holds at the next.
LEMMA StepReplacing == ASSUME IInv, Next PROVE Replacing'
<1> USE EngineAssumption DEF IInv, TypeOK
<1>1. CASE Open
  BY <1>1, FreshFields, EmptiedFields DEF Open, OpenFresh, OpenFound, Opens,
     StaysClosed, SavesAs, SaveFails, OpenOrNot, Replacing, Calls, Idle,
     Revisions
<1>2. CASE Close
  BY <1>2 DEF Close, OpenOrNot, Replacing, Calls, Idle, Revisions
<1>3. CASE SwapModelFile
  BY <1>3 DEF SwapModelFile, OpenOrNot, Replacing, Calls, Idle, Revisions
<1>4. CASE BeginLoad
  BY <1>4 DEF BeginLoad, Ready, Call, Unsaved, OpenOrNot, Replacing, Calls,
     Idle, Revisions
<1>5. CASE UnloadModel
  BY <1>5 DEF UnloadModel, Ready, Unsaved, OpenOrNot, Replacing, Calls, Idle,
     Revisions
<1>6. CASE BeginIndex
  BY <1>6 DEF BeginIndex, Ready, Call, Unsaved, Current, OpenOrNot, Replacing,
     Calls, Idle, Revisions
<1>7. CASE BeginFlush
  BY <1>7 DEF BeginFlush, Ready, Call, Unsaved, OpenOrNot, Replacing, Calls,
     Idle, Revisions
<1>8. CASE RemoveBooks
  BY <1>8 DEF RemoveBooks, Ready, Call, OpenOrNot, Replacing, Calls, Idle, Revisions
<1>9. CASE ResetIndex
  BY <1>9, SignedFields DEF ResetIndex, Ready, SavesAs, SaveFails, OpenOrNot,
     Replacing, Calls, Idle, Revisions
<1>10. CASE LoadModel
  BY <1>10, RecordedFields DEF LoadModel, Matches, AfterLoading, Goto, SavesAs,
     SaveFails, Unsaved, OpenOrNot, Replacing, Calls, Idle, Revisions
<1>11. CASE EmbeddingFails
  BY <1>11 DEF EmbeddingFails, OpenOrNot, Replacing, Calls, Idle, Revisions
<1>12. CASE Replace
  BY <1>12, MarkedFields, ReplacedFields, RemovedFields DEF Replace, Goto,
     OpenOrNot, Replacing, Calls, Idle, Revisions
<1>13. CASE InsertFails
  BY <1>13, MarkedFields, MarkedFields DEF InsertFails, OpenOrNot, Replacing,
     Calls, Idle, Revisions
<1>14. CASE Save
  BY <1>14 DEF Save, SavesAs, SaveFails, OpenOrNot, Replacing, Calls, Idle, Revisions
<1> QED
  BY <1>1, <1>2, <1>3, <1>4, <1>5, <1>6, <1>7, <1>8, <1>9, <1>10, <1>11, <1>12,
     <1>13, <1>14
     DEF Next

\* What a save recorded as blank stays recorded.
LEMMA StepBlanksKept == ASSUME IInv, Next PROVE BlanksKept'
<1> USE EngineAssumption DEF IInv, TypeOK
<1>1. CASE Open
  <2> PICK c \in Configs : OpenFresh(c) \/ \E m \in found : OpenFound(c, m)
    BY <1>1 DEF Open
  <2>1. CASE OpenFresh(c)
    <3>1. Blanks(Fresh(c)) = {} /\ Fresh(c) \in Manifests
      BY FreshFields
    <3> QED
      BY <1>1, <2>1, <3>1
       DEF Open, OpenFresh, Opens, StaysClosed, SavesAs, SaveFails, BlanksKept
  <2>2. ASSUME NEW m \in found, OpenFound(c, m)
        PROVE  BlanksKept'
    <3>1. m \in Manifests
      OBVIOUS
    <3> QED
      BY <1>1, <2>2, <3>1, EmptiedFields DEF Open, OpenFound, Opens,
         StaysClosed, Unsaved, BlanksKept
  <2> QED
    BY <2>1, <2>2
<1>2. CASE Close
  BY <1>2 DEF Close, OpenOrNot, BlanksKept, Blanks, Manifests
<1>3. CASE SwapModelFile
  BY <1>3 DEF SwapModelFile, OpenOrNot, BlanksKept, Blanks, Manifests
<1>4. CASE BeginLoad
  BY <1>4 DEF BeginLoad, Ready, Call, Unsaved, OpenOrNot, BlanksKept, Blanks,
     Manifests
<1>5. CASE UnloadModel
  BY <1>5 DEF UnloadModel, Ready, Unsaved, OpenOrNot, BlanksKept, Blanks, Manifests
<1>6. CASE BeginIndex
  BY <1>6 DEF BeginIndex, Ready, Call, Unsaved, Current, OpenOrNot, BlanksKept,
     Blanks, Manifests
<1>7. CASE BeginFlush
  BY <1>7 DEF BeginFlush, Ready, Call, Unsaved, OpenOrNot, BlanksKept, Blanks,
     Manifests
<1>8. CASE RemoveBooks
  BY <1>8 DEF RemoveBooks, Ready, Call, OpenOrNot, BlanksKept, Blanks, Manifests
<1>9. CASE ResetIndex
  BY <1>9, SignedFields DEF ResetIndex, Ready, SavesAs, SaveFails, OpenOrNot,
     BlanksKept, Blanks, Manifests
<1>10. CASE LoadModel
  BY <1>10, RecordedFields DEF LoadModel, Matches, AfterLoading, Goto, SavesAs,
     SaveFails, Unsaved, OpenOrNot, BlanksKept, Blanks, Manifests
<1>11. CASE EmbeddingFails
  BY <1>11 DEF EmbeddingFails, OpenOrNot, BlanksKept, Blanks, Manifests
<1>12. CASE Replace
  <2>1. manifest \in Manifests /\ op.book \in Books /\ op.revision \in Revisions
    BY <1>12 DEF Replace, OpenOrNot, Replacing, Idle
  <2> QED
    BY <1>12, <2>1, MarkedFields DEF Replace, BlanksKept, Blanks
<1>13. CASE InsertFails
  <2>1. manifest \in Manifests /\ op.book \in Books
    BY <1>13 DEF InsertFails, OpenOrNot, Replacing, Idle
  <2> QED
    BY <1>13, <2>1, MarkedFields DEF InsertFails, BlanksKept, Blanks
<1>14. CASE Save
  BY <1>14 DEF Save, SavesAs, SaveFails, OpenOrNot, BlanksKept, Blanks, Manifests
<1> QED
  BY <1>1, <1>2, <1>3, <1>4, <1>5, <1>6, <1>7, <1>8, <1>9, <1>10, <1>11, <1>12,
     <1>13, <1>14
     DEF Next

\* Next keeps the inductive invariant, and so does a stutter.
LEMMA StepIInv == IInv /\ [Next]_vars => IInv'
<1> SUFFICES ASSUME IInv, [Next]_vars PROVE IInv'
  OBVIOUS
<1>1. CASE Next
  BY <1>1, StepTypeOK, StepOpenOrNot, StepAgree, StepUsable, StepReplacing,
     StepBlanksKept
     DEF IInv
<1>2. CASE UNCHANGED vars
  BY <1>2
     DEF vars, IInv, TypeOK, OpenOrNot, Agree, Usable, Replacing, BlanksKept, Blanks
<1> QED
  BY <1>1, <1>2

\* In every behaviour of an engine.
LEMMA Invariance == Spec => []IInv
BY InitIInv, StepIInv, PTL DEF Spec

\* The engine's state, its calls and the manifests a restart may find keep their
\* types: a record is of a text or of a blank revision (engine.rs, manifest.rs).
THEOREM TypeCorrect == Spec => []TypeOK
<1>1. IInv => TypeOK
  BY DEF IInv
<1> QED
  BY <1>1, Invariance, PTL

\* No record claims vectors that are absent, whatever failed or restarted
\* (index_book_inner, open_manifest).
THEOREM NothingIsClaimedInVain == Spec => []ClaimedIsStored
<1>1. IInv => ClaimedIsStored
  BY DEF IInv, Agree, Usable, ClaimedIsStored
<1> QED
  BY <1>1, Invariance, PTL

\* No vectors are without a record (index_book_inner, remove_books).
THEOREM NothingIsOrphaned == Spec => []StoredIsClaimed
<1>1. IInv => StoredIsClaimed
  BY DEF IInv, Agree, StoredIsClaimed
<1> QED
  BY <1>1, Invariance, PTL

\* A query meets only vectors of the model that embeds it (load_model,
\* reset_index, ensure_index_usable).
THEOREM OneModel == Spec => []Comparable
<1>1. IInv => Comparable
  BY DEF IInv, TypeOK, OpenOrNot, Agree, Usable, Comparable
<1> QED
  BY <1>1, Invariance, PTL

\* A blank book is handed over once (mark_book_indexed, clear_books_with_vectors).
THEOREM BlankOnce == Spec => []BlankStaysKnown
<1>1. IInv => BlankStaysKnown
  BY DEF IInv, BlanksKept, Blanks, BlankStaysKnown
<1> QED
  BY <1>1, Invariance, PTL

=============================================================================
