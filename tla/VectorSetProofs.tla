--------------------------- MODULE VectorSetProofs ---------------------------
(***************************************************************************)
(* Theorems about VectorSet, for every value of its constants.             *)
(***************************************************************************)
EXTENDS VectorSet, SequenceTheorems, WellFoundedInduction, TLAPS

-----------------------------------------------------------------------------
(* Documents *)

\* What the segments of a document are, and its newest.
LEMMA DocSegments ==
  ASSUME NEW d \in Docs
  PROVE  /\ d.model \in {r.model : r \in Releases}
         /\ d.segs \in Seq(Segments) /\ Len(d.segs) \in Nat \ {0}
         /\ DOMAIN d.segs = 1..Len(d.segs)
         /\ \A i \in 1..Len(d.segs) :
              /\ d.segs[i] \in Segments
              /\ d.segs[i].kind = "delta" <=> i # 1
              /\ d.segs[i].sha \in IF d.segs[i].kind = "compacted" THEN Seq(Shas) ELSE Shas
         /\ Version(d) \in Nat
<1>1. d.segs \in Seq(Segments) /\ d.segs # <<>> /\ d.model \in {r.model : r \in Releases}
  BY DEF Docs
<1>2. /\ Len(d.segs) \in Nat \ {0} /\ DOMAIN d.segs = 1..Len(d.segs)
      /\ \A i \in 1..Len(d.segs) : d.segs[i] \in Segments
  BY <1>1, EmptySeq, LenProperties, ElementOfSeq
<1>3. \A i \in 1..Len(d.segs) :
        /\ d.segs[i].kind = "delta" <=> i # 1
        /\ d.segs[i].sha \in IF d.segs[i].kind = "compacted" THEN Seq(Shas) ELSE Shas
  BY <1>2 DEF Docs
<1>4. Version(d) \in Nat
  <2>1. Len(d.segs) \in 1..Len(d.segs)
    BY <1>2
  <2> QED BY <1>2, <2>1 DEF Version, Segments
<1> QED BY <1>1, <1>2, <1>3, <1>4

\* The releases of a document's first segment, and of those after it.
FirstHeld(doc) == IF doc.segs[1].kind = "compacted" THEN doc.segs[1].sha
                  ELSE <<doc.segs[1].sha>>
LaterHeld(doc) == [i \in 1..(Len(doc.segs) - 1) |-> doc.segs[i + 1].sha]

LEMMA ContentParts ==
  ASSUME NEW d \in Docs
  PROVE  /\ FirstHeld(d) \in Seq(Shas) /\ LaterHeld(d) \in Seq(Shas)
         /\ Len(LaterHeld(d)) = Len(d.segs) - 1
<1>1. FirstHeld(d) \in Seq(Shas)
  <2>1. 1 \in 1..Len(d.segs)
    BY DocSegments
  <2> QED BY <2>1, DocSegments DEF FirstHeld
<1>2. LaterHeld(d) \in Seq(Shas) /\ Len(LaterHeld(d)) = Len(d.segs) - 1
  <2>1. \A i \in 1..(Len(d.segs) - 1) : d.segs[i + 1].sha \in Shas
    <3> SUFFICES ASSUME NEW i \in 1..(Len(d.segs) - 1)
                 PROVE  d.segs[i + 1].sha \in Shas
      OBVIOUS
    <3>1. i + 1 \in 1..Len(d.segs) /\ i + 1 # 1
      BY DocSegments
    <3>2. d.segs[i + 1].kind = "delta"
      BY <3>1, DocSegments
    <3> QED BY <3>1, <3>2, DocSegments
  <2>2. Len(d.segs) - 1 \in Nat
    BY DocSegments
  <2> QED BY <2>1, <2>2 DEF LaterHeld
<1> QED BY <1>1, <1>2

\* The releases a document holds are published bytes.
LEMMA ContentType ==
  ASSUME NEW d \in Docs
  PROVE  Content(d) \in Seq(Shas)
BY ContentParts, ConcatProperties DEF Content, FirstHeld, LaterHeld

\* What a release makes of the document it applies to is a document.
LEMMA NewDocumentType ==
  ASSUME NEW r \in Releases, NEW d,
         r.kind = "base" \/ (d \in Docs /\ Applies(r, d))
  PROVE  NewDocument(r, d) \in Docs
<1>1. SegmentOf(r) \in Segments
  BY ReleasesAssumption DEF SegmentOf, Segments, Bytes, Shas
<1>2. CASE r.kind = "base"
  <2>1. <<SegmentOf(r)>> \in Seq(Segments)
    BY <1>1
  <2> QED BY <1>2, <2>1 DEF NewDocument, Docs, SegmentOf, Shas
<1>3. CASE r.kind = "delta" /\ d \in Docs
  <2> DEFINE segs == Append(d.segs, SegmentOf(r))
  <2>1. /\ segs \in Seq(Segments) /\ Len(segs) = Len(d.segs) + 1
        /\ \A i \in 1..Len(d.segs) : segs[i] = d.segs[i]
        /\ segs[Len(d.segs) + 1] = SegmentOf(r)
        /\ DOMAIN segs = 1..(Len(d.segs) + 1)
    BY <1>1, <1>3, DocSegments, AppendProperties, LenProperties
  <2>2. \A i \in DOMAIN segs :
          /\ segs[i].kind = "delta" <=> i # 1
          /\ segs[i].sha \in IF segs[i].kind = "compacted" THEN Seq(Shas) ELSE Shas
    <3> SUFFICES ASSUME NEW i \in 1..(Len(d.segs) + 1)
                 PROVE  /\ segs[i].kind = "delta" <=> i # 1
                        /\ segs[i].sha \in IF segs[i].kind = "compacted"
                                           THEN Seq(Shas) ELSE Shas
      BY <2>1
    <3>1. CASE i \in 1..Len(d.segs)
      BY <1>3, <2>1, <3>1, DocSegments
    <3>2. CASE i = Len(d.segs) + 1
      BY <1>3, <2>1, <3>2, DocSegments DEF SegmentOf, Shas
    <3> QED BY <3>1, <3>2, DocSegments, <1>3
  <2>3. NewDocument(r, d) = [model |-> d.model, segs |-> segs]
    BY <1>3 DEF NewDocument
  <2>4. segs # <<>>
    BY <2>1, <1>3, DocSegments
  <2>5. [model |-> d.model, segs |-> segs] \in [model : {x.model : x \in Releases}, segs : Seq(Segments)]
    BY <2>1, <1>3, DocSegments
  <2> HIDE DEF segs
  <2> QED BY <2>2, <2>3, <2>4, <2>5 DEF Docs
<1> QED BY <1>2, <1>3, ReleasesAssumption

\* What a compaction writes is a document.
LEMMA MergedType ==
  ASSUME NEW d \in Docs
  PROVE  [model |-> d.model, segs |-> <<Merged(d)>>] \in Docs
<1>1. Merged(d) \in Segments
  BY ContentType, DocSegments DEF Merged, Segments, Bytes
<1> DEFINE segs == <<Merged(d)>>
<1>2. /\ segs \in Seq(Segments) /\ segs # <<>>
      /\ DOMAIN segs = {1} /\ segs[1] = Merged(d)
  BY <1>1
<1> HIDE DEF segs
<1>3. \A i \in DOMAIN segs :
        /\ segs[i].kind = "delta" <=> i # 1
        /\ segs[i].sha \in IF segs[i].kind = "compacted" THEN Seq(Shas) ELSE Shas
  BY <1>2, ContentType DEF Merged
<1>4. [model |-> d.model, segs |-> segs] \in [model : {r.model : r \in Releases}, segs : Seq(Segments)]
  BY <1>2, DocSegments
<1>5. [model |-> d.model, segs |-> segs] \in Docs
  BY <1>2, <1>3, <1>4 DEF Docs
<1> QED BY <1>5 DEF segs

-----------------------------------------------------------------------------
(* Type correctness *)

\* What the set opens at, and what PREVIOUS may become, are pointers.
LEMMA OpenedType ==
  ASSUME TypeOK
  PROVE  /\ Opened \in Pointers \cup {None}
         /\ Opened # None => Opened.doc \in Docs
         /\ Pointer(current) \in Pointers \cup {None}
         /\ Pointer(previous) \in Pointers \cup {None}
<1>1. /\ Pointer(current) \in Pointers \cup {None}
      /\ Pointer(previous) \in Pointers \cup {None}
  BY DEF TypeOK, Slots, Pointer
<1>2. Opened \in Pointers \cup {None}
  BY <1>1 DEF Opened
<1>3. \A p \in Pointers : p.doc \in Docs
  BY DEF Pointers
<1> QED BY <1>1, <1>2, <1>3

\* A writer's memory changes to one that fits.
LEMMA WriterUpdate ==
  ASSUME TypeOK, NEW w \in Writers, NEW v \in WriterStates, WriterOK(v),
         writer' = [writer EXCEPT ![w] = v]
  PROVE  writer' \in [Writers -> WriterStates] /\ \A x \in Writers : WriterOK(writer'[x])
<1>1. writer' \in [Writers -> WriterStates]
  BY DEF TypeOK
<1>2. \A x \in Writers : writer'[x] = IF x = w THEN v ELSE writer[x]
  BY DEF TypeOK
<1> QED BY <1>1, <1>2 DEF TypeOK

\* A writer that returns keeps the types of the lock and of the writers.
LEMMA ReturnType ==
  ASSUME TypeOK, NEW w \in Writers, Return(w)
  PROVE  /\ lock' \in Writers \cup {None}
         /\ writer' \in [Writers -> WriterStates] /\ \A x \in Writers : WriterOK(writer'[x])
<1>1. IdleWriter \in WriterStates
  BY BoundsAssumption DEF IdleWriter, WriterStates
<1>2. WriterOK(IdleWriter)
  BY DEF IdleWriter, WriterOK, Unflipped
<1> QED BY <1>1, <1>2, WriterUpdate DEF Return

\* A writer that goes on to its next step keeps them too, if it has what that step needs.
LEMMA GotoType ==
  ASSUME TypeOK, NEW w \in Writers, NEW pc, Goto(w, pc),
         pc \in Unflipped \cup {"flipped", "discarded"},
         writer[w].pc \in Unflipped \cup {"flipped", "discarded"},
         pc \in {"created", "written", "previous"} => writer[w].gen \in Numbers
  PROVE  /\ lock' \in Writers \cup {None}
         /\ writer' \in [Writers -> WriterStates] /\ \A x \in Writers : WriterOK(writer'[x])
<1> DEFINE v == [writer[w] EXCEPT !.pc = pc]
<1>1. writer[w] \in WriterStates /\ WriterOK(writer[w])
  BY DEF TypeOK
<1>2. v \in WriterStates
  BY <1>1 DEF WriterStates
<1>3. WriterOK(v)
  BY <1>1 DEF WriterStates, WriterOK, Unflipped
<1>4. writer' = [writer EXCEPT ![w] = v]
  BY DEF Goto, TypeOK
<1> QED BY <1>2, <1>3, <1>4, WriterUpdate DEF Goto, TypeOK

\* What a collection leaves is what there was.
LEMMA CollectType ==
  ASSUME TypeOK, CollectGarbage
  PROVE  /\ DOMAIN gens' \subseteq DOMAIN gens
         /\ \A n \in DOMAIN gens' : gens'[n] = gens[n]
BY DEF CollectGarbage, Restrict

\* Taking the lock and recovering keeps every type.
LEMMA TypeBegin ==
  ASSUME TypeOK, NEW w \in Writers, NEW pc \in {"locked", "merging"}, NEW job \in Releases \cup {None},
         pc = "locked" => job \in Releases, Begin(w, pc, job)
  PROVE  TypeOK'
<1> DEFINE take == job \in Downloads
           v == [writer[w] EXCEPT !.pc = pc, !.job = job, !.take = take]
<1>0. take \in BOOLEAN /\ (take => job \in Downloads)
  OBVIOUS
<1>4. writer' = [writer EXCEPT ![w] = v]
  BY DEF Begin, TypeOK
<1> HIDE DEF take
<1>1. writer[w] \in WriterStates /\ WriterOK(writer[w])
  BY DEF TypeOK
<1>2. v \in WriterStates
  BY <1>0, <1>1 DEF WriterStates
<1>3. WriterOK(v)
  BY <1>0, <1>1 DEF WriterStates, WriterOK, Unflipped
<1>5. writer' \in [Writers -> WriterStates] /\ \A x \in Writers : WriterOK(writer'[x])
  BY <1>2, <1>3, <1>4, WriterUpdate
<1> QED BY <1>5, CollectType DEF Begin, Recover, TypeOK, bounded

\* Preparing an install keeps every type: what it builds is a document.
LEMMA TypePrepare ==
  ASSUME TypeOK, NEW w \in Writers, Prepare(w)
  PROVE  TypeOK'
<1> DEFINE r == writer[w].job
           d == IF Opened = None THEN None ELSE Opened.doc
           v == [writer[w] EXCEPT !.pc = "staged", !.base = Opened, !.new = NewDocument(r, d)]
<1>1. writer[w] \in WriterStates /\ WriterOK(writer[w])
  BY DEF TypeOK
<1>2. r \in Releases
  BY <1>1 DEF Prepare, WriterOK
<1>3. CASE r.kind = "base" \/ (Opened # None /\ Applies(r, Opened.doc))
  <2>1. NewDocument(r, d) \in Docs
    BY <1>2, <1>3, OpenedType, NewDocumentType
  <2>2. v \in WriterStates
    BY <1>1, <2>1, OpenedType DEF WriterStates, Unflipped
  <2>3. WriterOK(v)
    BY <1>1, <2>1 DEF WriterStates, WriterOK, Unflipped
  <2>4. writer' = [writer EXCEPT ![w] = v] /\ UNCHANGED lock
    BY <1>3 DEF Prepare, TypeOK
  <2>5. writer' \in [Writers -> WriterStates] /\ \A x \in Writers : WriterOK(writer'[x])
    BY <2>2, <2>3, <2>4, WriterUpdate
  <2> QED BY <2>4, <2>5 DEF Prepare, TypeOK, bounded
<1>4. CASE ~(r.kind = "base" \/ (Opened # None /\ Applies(r, Opened.doc)))
  BY <1>4, ReturnType DEF Prepare, TypeOK, bounded
<1> QED BY <1>3, <1>4

\* Preparing a compaction keeps every type: what it merges is a document.
LEMMA TypePrepareCompaction ==
  ASSUME TypeOK, NEW w \in Writers, PrepareCompaction(w)
  PROVE  TypeOK'
<1> DEFINE new == [model |-> Opened.doc.model, segs |-> <<Merged(Opened.doc)>>]
           v == [writer[w] EXCEPT !.pc = "staged", !.base = Opened, !.new = new]
<1>1. writer[w] \in WriterStates /\ WriterOK(writer[w])
  BY DEF TypeOK
<1>2. CASE Return(w)
  BY <1>2, ReturnType DEF PrepareCompaction, TypeOK, bounded
<1>3. CASE Opened # None /\ FirstDamaged(Opened.doc) = None
  <2>1. new \in Docs
    BY <1>3, OpenedType, MergedType
  <2> HIDE DEF new
  <2>2. v \in WriterStates
    BY <1>1, <2>1, OpenedType DEF WriterStates, Unflipped
  <2>3. WriterOK(v)
    BY <1>1, <2>1 DEF WriterStates, WriterOK, Unflipped
  <2>4. writer' = [writer EXCEPT ![w] = v] /\ UNCHANGED lock
    BY <1>3 DEF PrepareCompaction, TypeOK, new
  <2>5. writer' \in [Writers -> WriterStates] /\ \A x \in Writers : WriterOK(writer'[x])
    BY <2>2, <2>3, <2>4, WriterUpdate
  <2> QED BY <2>4, <2>5 DEF PrepareCompaction, TypeOK, bounded
<1> QED BY <1>2, <1>3 DEF PrepareCompaction

\* Judging the segment to place keeps every type.
LEMMA TypeJudge ==
  ASSUME TypeOK, NEW w \in Writers, Judge(w)
  PROVE  TypeOK'
<1>1. CASE Return(w)
  BY <1>1, ReturnType DEF Judge, TypeOK, disk, bounded
<1>2. CASE ~Return(w)
  <2> DEFINE s == NewSegment(w)
             placed == IF s.id \notin DOMAIN file THEN "new"
                       ELSE IF file[s.id] = s.sha THEN "kept" ELSE "replaced"
             v == [writer[w] EXCEPT !.pc = "judged", !.placed = placed]
  <2>1. writer[w] \in WriterStates /\ WriterOK(writer[w]) /\ writer[w].pc = "staged"
    BY DEF TypeOK, Judge
  <2>2. placed \in {"new", "kept", "replaced"}
    OBVIOUS
  <2>3. writer' = [writer EXCEPT ![w] = v] /\ UNCHANGED lock
    BY <1>2 DEF Judge, TypeOK
  <2> HIDE DEF placed
  <2>4. v \in WriterStates /\ WriterOK(v)
    BY <2>1, <2>2 DEF WriterStates, WriterOK, Unflipped
  <2>5. writer' \in [Writers -> WriterStates] /\ \A x \in Writers : WriterOK(writer'[x])
    BY <2>3, <2>4, WriterUpdate
  <2> QED BY <2>3, <2>5 DEF Judge, TypeOK, disk, bounded
<1> QED BY <1>1, <1>2

\* What a give-back puts in incoming/ was downloaded.
LEMMA GiveBackType ==
  ASSUME TypeOK, NEW w \in Writers, GiveBack(w)
  PROVE  incoming' \subseteq Downloads
BY DEF GiveBack, TypeOK, WriterOK

\* Creating a generation's directory keeps every type: its number is within the bound.
LEMMA TypeCreateGeneration ==
  ASSUME TypeOK, NEW w \in Writers, CreateGeneration(w)
  PROVE  TypeOK'
<1>1. PICK n \in Numbers : /\ gens' = Put(gens, n, [doc |-> None, sound |-> TRUE])
                           /\ writer' = [writer EXCEPT ![w].pc = "created", ![w].gen = n]
  BY DEF CreateGeneration
<1> DEFINE v == [writer[w] EXCEPT !.pc = "created", !.gen = n]
<1>2. writer[w] \in WriterStates /\ WriterOK(writer[w]) /\ writer[w].pc = "moved"
  BY DEF TypeOK, CreateGeneration
<1>3. n \in 0..MaxGen
  BY BoundsAssumption DEF Numbers
<1>4. v \in WriterStates /\ WriterOK(v)
  BY <1>2, <1>3 DEF WriterStates, WriterOK, Unflipped
<1>5. writer' = [writer EXCEPT ![w] = v]
  BY <1>1 DEF TypeOK
<1>6. writer' \in [Writers -> WriterStates] /\ \A x \in Writers : WriterOK(writer'[x])
  BY <1>4, <1>5, WriterUpdate
<1>7. /\ DOMAIN gens' \subseteq Numbers
      /\ \A m \in DOMAIN gens' : gens'[m] \in [doc : Docs \cup {None}, sound : BOOLEAN]
  BY <1>1 DEF Put, TypeOK
<1> QED BY <1>6, <1>7 DEF CreateGeneration, TypeOK, bounded

\* Writing a generation's documents keeps every type.
LEMMA TypeWriteGeneration ==
  ASSUME TypeOK, NEW w \in Writers, WriteGeneration(w)
  PROVE  TypeOK'
<1>1. writer[w] \in WriterStates /\ WriterOK(writer[w]) /\ writer[w].pc = "created"
  BY DEF TypeOK, WriteGeneration
<1>2. writer[w].new \in Docs /\ writer[w].gen \in Numbers
  BY <1>1 DEF WriterOK, Unflipped
<1>3. /\ DOMAIN gens' \subseteq Numbers
      /\ \A m \in DOMAIN gens' : gens'[m] \in [doc : Docs \cup {None}, sound : BOOLEAN]
  BY <1>2 DEF WriteGeneration, TypeOK
<1>4. /\ lock' \in Writers \cup {None}
      /\ writer' \in [Writers -> WriterStates] /\ \A x \in Writers : WriterOK(writer'[x])
  BY <1>1, <1>2, GotoType DEF WriteGeneration, Unflipped
<1> QED BY <1>3, <1>4 DEF WriteGeneration, TypeOK, bounded

\* The pointer a flip writes, and the one PREVIOUS may become.
LEMMA PointerType ==
  ASSUME TypeOK, NEW w \in Writers, writer[w].pc \in {"written", "previous"}
  PROVE  NewPointer(w) \in Slots /\ FallbackFor(w) \in Pointers \cup {None}
<1>1. writer[w] \in WriterStates /\ WriterOK(writer[w])
  BY DEF TypeOK
<1>2. writer[w].new \in Docs /\ writer[w].gen \in Numbers
  BY <1>1 DEF WriterOK, Unflipped
<1>3. NewPointer(w) \in Slots
  BY <1>2 DEF NewPointer, Slots, Pointers
<1>4. FallbackFor(w) \in Pointers \cup {None}
  BY <1>1, OpenedType DEF FallbackFor, WriterStates
<1> QED BY <1>3, <1>4

\* Every step of an install or a compaction keeps every type.
LEMMA TypeWriterStep ==
  ASSUME TypeOK, NEW w \in Writers, WriterStep(w)
  PROVE  TypeOK'
<1>1. ASSUME NEW r \in Releases, BeginInstall(w, r) PROVE TypeOK'
  BY <1>1, TypeBegin DEF BeginInstall
<1>2. CASE BeginCompaction(w)
  BY <1>2, TypeBegin DEF BeginCompaction
<1>3. CASE Prepare(w)
  BY <1>3, TypePrepare
<1>4. CASE PrepareCompaction(w)
  BY <1>4, TypePrepareCompaction
<1>5. CASE Judge(w)
  BY <1>5, TypeJudge
<1>6. CASE Place(w)
  <2>1. /\ lock' \in Writers \cup {None}
        /\ writer' \in [Writers -> WriterStates] /\ \A x \in Writers : WriterOK(writer'[x])
    BY <1>6, GotoType DEF Place, Unflipped
  <2>2. incoming' \subseteq Downloads
    BY <1>6 DEF Place, TypeOK
  <2> QED BY <1>6, <2>1, <2>2 DEF Place, TypeOK, bounded
<1>7. CASE Settle(w)
  <2>1. /\ lock' \in Writers \cup {None}
        /\ writer' \in [Writers -> WriterStates] /\ \A x \in Writers : WriterOK(writer'[x])
    BY <1>7, GotoType DEF Settle, Unflipped
  <2> QED BY <1>7, <2>1 DEF Settle, TypeOK, bounded
<1>8. CASE SettleFails(w)
  BY <1>8, ReturnType, GiveBackType DEF SettleFails, TypeOK, bounded
<1>9. CASE CreateGeneration(w)
  BY <1>9, TypeCreateGeneration
<1>10. CASE WriteGeneration(w)
  BY <1>10, TypeWriteGeneration
<1>11. CASE WritePrevious(w)
  <2>1. writer[w].pc = "written" /\ WriterOK(writer[w])
    BY <1>11 DEF WritePrevious, TypeOK
  <2>2. /\ lock' \in Writers \cup {None}
        /\ writer' \in [Writers -> WriterStates] /\ \A x \in Writers : WriterOK(writer'[x])
    BY <1>11, <2>1, GotoType DEF WritePrevious, WriterOK, Unflipped
  <2>3. previous' \in Slots
    BY <1>11, <2>1, PointerType DEF WritePrevious, TypeOK, Slots
  <2> QED BY <1>11, <2>2, <2>3 DEF WritePrevious, TypeOK, bounded
<1>12. CASE FlipCurrent(w)
  <2>1. writer[w].pc = "previous" /\ WriterOK(writer[w])
    BY <1>12 DEF FlipCurrent, TypeOK
  <2>2. /\ lock' \in Writers \cup {None}
        /\ writer' \in [Writers -> WriterStates] /\ \A x \in Writers : WriterOK(writer'[x])
    BY <1>12, <2>1, GotoType DEF FlipCurrent, Unflipped
  <2>3. current' \in Slots
    BY <1>12, <2>1, PointerType DEF FlipCurrent
  <2> QED BY <1>12, <2>2, <2>3 DEF FlipCurrent, TypeOK, bounded
<1>13. CASE FlipUnflushed(w)
  <2>1. current' \in Slots
    BY <1>13, PointerType DEF FlipUnflushed
  <2> QED BY <1>13, <2>1, ReturnType, GiveBackType
          DEF FlipUnflushed, GiveBackDownload, TypeOK, bounded
<1>14. CASE DiscardPrevious(w)
  <2>1. /\ lock' \in Writers \cup {None}
        /\ writer' \in [Writers -> WriterStates] /\ \A x \in Writers : WriterOK(writer'[x])
    BY <1>14, GotoType DEF DiscardPrevious, Unflipped
  <2>2. previous' \in Slots
    BY <1>14 DEF DiscardPrevious, TypeOK, Slots, NoPointer
  <2> QED BY <1>14, <2>1, <2>2 DEF DiscardPrevious, TypeOK, bounded
<1>15. CASE Finish(w)
  BY <1>15, ReturnType, CollectType DEF Finish, DropKept, TypeOK, bounded
<1>16. CASE FinishUncollected(w)
  BY <1>16, ReturnType DEF FinishUncollected, DropKept, TypeOK, bounded
<1>17. CASE Abort(w)
  BY <1>17, ReturnType DEF Abort, TypeOK, disk, bounded
<1>18. CASE CommitFails(w)
  BY <1>18, ReturnType, GiveBackType DEF CommitFails, GiveBackDownload, TypeOK, bounded
<1>19. CASE Crash(w)
  BY <1>19, ReturnType, BoundsAssumption DEF Crash, TypeOK, disk
<1> QED BY <1>1, <1>2, <1>3, <1>4, <1>5, <1>6, <1>7, <1>8, <1>9, <1>10, <1>11, <1>12,
           <1>13, <1>14, <1>15, <1>16, <1>17, <1>18, <1>19 DEF WriterStep

\* So does every step of a scrub, a reader, a host, a session or the device.
LEMMA TypeOtherStep ==
  ASSUME TypeOK,
         \/ \E s \in Scrubs : ScrubStep(s)
         \/ \E r \in Readers : ReaderStep(r)
         \/ \E r \in Releases : Download(r)
         \/ SessionRecover
         \/ DeviceStep
  PROVE  TypeOK'
<1>1. ASSUME NEW s \in Scrubs, ScrubStep(s) PROVE TypeOK'
  BY <1>1, BoundsAssumption DEF ScrubStep, ScrubFinds, Condemn, HashAgain, JudgeGenerations,
                SettleCondemned, ScrubStops, TypeOK, disk, bounded
<1>2. ASSUME NEW r \in Readers, ReaderStep(r) PROVE TypeOK'
  BY <1>2 DEF ReaderStep, ReadCurrent, ReadPrevious, ReadDocument, MapSegments, Close,
              GiveUp, TypeOK, disk, bounded
<1>3. ASSUME NEW r \in Releases, Download(r) PROVE TypeOK'
  BY <1>3 DEF Download, TypeOK, bounded
<1>4. CASE SessionRecover
  BY <1>4, CollectType DEF SessionRecover, Recover, TypeOK, bounded
<1>5. CASE DeviceStep
  <2>1. ASSUME NEW id \in DOMAIN file, Rot(id) PROVE TypeOK'
    BY <2>1, BoundsAssumption DEF Rot, Fault, TypeOK
  <2>2. CASE HidePointer
    <3>1. current' \in Slots /\ previous' \in Slots
      BY <2>2 DEF HidePointer, TypeOK, Slots
    <3>2. faults' \in 0..MaxFaults
      BY <2>2, BoundsAssumption DEF HidePointer, Fault, TypeOK
    <3> QED BY <2>2, <3>1, <3>2 DEF HidePointer, TypeOK
  <2>3. CASE MendPointers
    <3>1. current' \in Slots /\ previous' \in Slots
      BY <2>3 DEF MendPointers, TypeOK, Slots
    <3> QED BY <2>3, <3>1 DEF MendPointers, TypeOK, bounded
  <2>4. CASE LoseCurrent
    <3>1. current' \in Slots
      BY <2>4 DEF LoseCurrent, Slots, NoPointer
    <3>2. faults' \in 0..MaxFaults
      BY <2>4, BoundsAssumption DEF LoseCurrent, Fault, TypeOK
    <3> QED BY <2>4, <3>1, <3>2 DEF LoseCurrent, TypeOK
  <2>5. ASSUME NEW n \in LiveGens \cap DOMAIN gens, DamageDerived(n) PROVE TypeOK'
    <3>1. faults' \in 0..MaxFaults
      BY <2>5, BoundsAssumption DEF DamageDerived, Fault, TypeOK
    <3>2. /\ DOMAIN gens' \subseteq Numbers
          /\ \A m \in DOMAIN gens' : gens'[m] \in [doc : Docs \cup {None}, sound : BOOLEAN]
      BY <2>5 DEF DamageDerived, TypeOK
    <3> QED BY <2>5, <3>1, <3>2 DEF DamageDerived, TypeOK
  <2> QED BY <1>5, <2>1, <2>2, <2>3, <2>4, <2>5 DEF DeviceStep
<1> QED BY <1>1, <1>2, <1>3, <1>4, <1>5

\* Every variable keeps its type, whatever is interrupted or damaged: the pointers,
\* the generations and what each install and compaction remembers.
THEOREM TypeCorrect == Spec => []TypeOK
<1>1. Init => TypeOK
  <2> SUFFICES ASSUME Init PROVE TypeOK
    OBVIOUS
  <2>1. IdleWriter \in WriterStates /\ WriterOK(IdleWriter)
    BY BoundsAssumption DEF IdleWriter, WriterStates, WriterOK, Unflipped
  <2>2. NoPointer \in Slots
    BY DEF NoPointer, Slots
  <2> QED BY <2>1, <2>2, BoundsAssumption DEF Init, TypeOK
<1>2. TypeOK /\ [Next]_vars => TypeOK'
  <2>1. TypeOK /\ UNCHANGED vars => TypeOK'
    BY DEF TypeOK, vars, disk, bounded
  <2> QED BY <2>1, TypeWriterStep, TypeOtherStep DEF Next
<1> QED BY <1>1, <1>2, PTL DEF Spec

-----------------------------------------------------------------------------
(* Interruptions alone never harm the set: whatever fails or is cut off, every  *)
(* generation a pointer names opens, on the bytes it names. Proved from the     *)
(* inductive invariant Safe, which holds until something on the device is       *)
(* damaged or lost.                                                             *)

\* A CURRENT whose directory was not flushed is not answered by giving a download
\* back; and, where that is assumed too, nothing is ever damaged or lost.
FlipsKept == UnflushedFlip => Downloads = {}
Sheltered == FlipsKept /\ FaultKinds = {}

\* A pointer whose generation is whole: its document is there, and so are the
\* bytes of each of its segments, and no verdict names others for them.
Holds(p) == /\ p.gen \in DOMAIN gens /\ gens[p.gen].doc = p.doc /\ gens[p.gen].sound
            /\ \A s \in Elems(p.doc.segs) :
                 /\ s.id \in DOMAIN file /\ file[s.id] = s.sha
                 /\ s.id \in DOMAIN verdict => verdict[s.id] = s.sha
Slotted == {current.to, previous.to} \ {None}

LockHeld == \A w \in Writers : writer[w].pc # "idle" <=> lock = w
PointersHold == /\ current.reads /\ previous.reads
                /\ \A p \in Slotted : Holds(p)
ScrubsIdle == \A s \in Scrubs : scrub[s].pc = "idle"

\* What a writer knows of the set until it flips: the generation it builds on is
\* still named, and its document adds one segment to that generation's.
Built(w) ==
  /\ writer[w].base # None => writer[w].base \in Slotted
  /\ \A s \in Elems(writer[w].new.segs) :
       s = NewSegment(w) \/ (writer[w].base # None /\ s \in Elems(writer[w].base.doc.segs))

\* What it judged: unless the file is kept, no pointer's generation has the id.
Judged(w) ==
  LET n == NewSegment(w) IN
  /\ writer[w].placed = "kept" => n.id \in DOMAIN file /\ file[n.id] = n.sha
  /\ writer[w].placed # "kept" => \A p \in Slotted : n.id \notin Ids(p.doc)

PlacedFile(w) == NewSegment(w).id \in DOMAIN file /\ file[NewSegment(w).id] = NewSegment(w).sha
SettledFile(w) == NewSegment(w).id \in DOMAIN verdict
                  => verdict[NewSegment(w).id] = NewSegment(w).sha
Unnamed(w) == /\ writer[w].gen \in DOMAIN gens /\ gens[writer[w].gen].sound
              /\ \A p \in Slotted : p.gen # writer[w].gen

Commits == {"moved", "created", "written", "previous"}
WriterReady(w) ==
  /\ writer[w].pc \in Unflipped => Built(w)
  /\ writer[w].pc \in Unflipped \ {"staged"} => Judged(w)
  /\ writer[w].pc \in Commits \cup {"placed"} => PlacedFile(w)
  /\ writer[w].pc \in Commits => SettledFile(w)
  /\ writer[w].pc \in {"created", "written", "previous"} => Unnamed(w)
  /\ writer[w].pc \in {"written", "previous"} => gens[writer[w].gen].doc = writer[w].new

Safe == /\ LockHeld /\ PointersHold /\ ScrubsIdle
        /\ \A w \in Writers : WriterReady(w)
-----------------------------------------------------------------------------
(* Pointers that hold *)

\* A generation that is whole opens.
LEMMA HoldsOpens ==
  ASSUME NEW p, p # None, Holds(p)
  PROVE  Opens(p)
BY DEF Holds, Opens, Reads, Condemned, Condemns, Ids

\* While every pointer holds, each that is there is one a session opens.
LEMMA SlottedOpens ==
  ASSUME PointersHold
  PROVE  /\ Named = Slotted /\ LivePointers = Slotted
         /\ Opened # None => Opened \in Slotted
<1>1. Pointer(current) = current.to /\ Pointer(previous) = previous.to
  BY DEF PointersHold, Pointer
<1>2. Named = Slotted
  BY <1>1 DEF Named, Slotted
<1>3. \A p \in Slotted : Opens(p)
  BY HoldsOpens DEF PointersHold, Slotted
<1>4. Opened # None => Opened \in Slotted
  BY <1>1 DEF Opened, Slotted
<1> QED BY <1>2, <1>3, <1>4 DEF LivePointers

\* A generation still holds when its directory, its files and their verdicts do.
LEMMA HoldsStays ==
  ASSUME NEW p, Holds(p),
         p.gen \in DOMAIN gens', gens'[p.gen] = gens[p.gen],
         \A s \in Elems(p.doc.segs) :
           /\ s.id \in DOMAIN file' /\ file'[s.id] = file[s.id]
           /\ s.id \in DOMAIN verdict' => verdict'[s.id] = s.sha
  PROVE  Holds(p)'
BY DEF Holds

\* A step that leaves the generations, the files and the verdicts alone leaves every
\* pointer that holds holding.
LEMMA HoldsUnchanged ==
  ASSUME NEW p, Holds(p), UNCHANGED <<gens, file, verdict>>
  PROVE  Holds(p)'
BY DEF Holds

\* A step that leaves the set's files alone leaves its pointers holding.
LEMMA PointersStay ==
  ASSUME PointersHold, UNCHANGED <<current, previous, gens, file, verdict>>
  PROVE  PointersHold'
BY HoldsUnchanged DEF PointersHold, Slotted

\* A collection takes nothing a pointer's generation needs.
LEMMA CollectHolds ==
  ASSUME PointersHold, CollectGarbage, UNCHANGED <<current, previous>>
  PROVE  PointersHold'
<1>1. Slotted' = Slotted
  BY DEF Slotted
<1>2. ASSUME NEW p \in Slotted PROVE Holds(p)'
  <2>1. Holds(p) /\ p \in Named
    BY SlottedOpens DEF PointersHold
  <2>2. p.gen \in LiveGens /\ \A s \in Elems(p.doc.segs) : s.id \in LiveIds
    BY <2>1 DEF LiveGens, LiveIds, Ids
  <2>3. p.gen \in DOMAIN gens' /\ gens'[p.gen] = gens[p.gen]
    BY <2>1, <2>2 DEF CollectGarbage, Restrict, Holds
  <2>4. ASSUME NEW s \in Elems(p.doc.segs)
        PROVE  /\ s.id \in DOMAIN file' /\ file'[s.id] = file[s.id]
               /\ s.id \in DOMAIN verdict' => verdict'[s.id] = s.sha
    <3>1. s.id \in LiveIds /\ s.id \in DOMAIN file
          /\ (s.id \in DOMAIN verdict => verdict[s.id] = s.sha)
      BY <2>1, <2>2 DEF Holds
    <3>2. s.id \in DOMAIN file' /\ file'[s.id] = file[s.id]
      BY <3>1 DEF CollectGarbage, Restrict
    <3>3. s.id \in DOMAIN verdict' => verdict'[s.id] = s.sha
      BY <3>1 DEF CollectGarbage, Restrict
    <3> QED BY <3>2, <3>3
  <2> QED BY <2>1, <2>3, <2>4, HoldsStays
<1> QED BY <1>1, <1>2 DEF PointersHold

-----------------------------------------------------------------------------
(* One writer at a time *)

\* The writer that holds the lock is the only one with anything under way.
LEMMA Alone ==
  ASSUME LockHeld, NEW w \in Writers, writer[w].pc # "idle"
  PROVE  lock = w /\ \A x \in Writers \ {w} : writer[x].pc = "idle"
BY DEF LockHeld

\* A writer with nothing under way has nothing to be ready with.
LEMMA IdleReady ==
  ASSUME \A x \in Writers : writer'[x].pc \notin Unflipped
  PROVE  \A x \in Writers : WriterReady(x)'
BY DEF WriterReady, Commits, Unflipped

\* After a writer returned, none has anything under way.
LEMMA ReturnReady ==
  ASSUME TypeOK, LockHeld, NEW w \in Writers, writer[w].pc # "idle", Return(w)
  PROVE  LockHeld' /\ \A x \in Writers : WriterReady(x)'
<1>1. \A x \in Writers : writer'[x].pc = "idle"
  BY Alone DEF Return, IdleWriter, TypeOK
<1>2. lock' = None /\ None \notin Writers
  BY WritersAssumption DEF Return, Writers
<1> QED BY <1>1, <1>2, IdleReady DEF LockHeld, Unflipped

\* A step of the writer that holds the lock concerns no other writer.
LEMMA StepReady ==
  ASSUME TypeOK, LockHeld, NEW w \in Writers, writer[w].pc # "idle",
         UNCHANGED lock, NEW v, v.pc # "idle", writer' = [writer EXCEPT ![w] = v],
         WriterReady(w)'
  PROVE  LockHeld' /\ \A x \in Writers : WriterReady(x)'
<1>1. writer'[w] = v /\ \A x \in Writers \ {w} : writer'[x].pc = "idle"
  BY Alone DEF TypeOK
<1>2. LockHeld'
  BY <1>1, Alone DEF LockHeld
<1>3. \A x \in Writers \ {w} : WriterReady(x)'
  BY <1>1 DEF WriterReady, Commits, Unflipped
<1> QED BY <1>2, <1>3

\* A writer that only moves on to its next step keeps what the others know.
LEMMA GotoReady ==
  ASSUME TypeOK, LockHeld, NEW w \in Writers, writer[w].pc # "idle",
         NEW pc, pc # "idle", Goto(w, pc), WriterReady(w)'
  PROVE  LockHeld' /\ \A x \in Writers : WriterReady(x)'
<1> DEFINE v == [writer[w] EXCEPT !.pc = pc]
<1>1. writer[w] \in WriterStates
  BY DEF TypeOK
<1>2. v.pc = pc /\ writer' = [writer EXCEPT ![w] = v] /\ UNCHANGED lock
  BY <1>1 DEF Goto, TypeOK, WriterStates
<1> HIDE DEF v
<1> QED BY <1>2, StepReady
-----------------------------------------------------------------------------
(* What a writer knows, step by step *)

\* What stays true of a writer that changes neither its base nor its document
\* while the pointers' generations lose none.
LEMMA BuiltStays ==
  ASSUME NEW w \in Writers, Built(w),
         writer'[w].base = writer[w].base, writer'[w].new = writer[w].new,
         writer[w].base # None => writer[w].base \in Slotted'
  PROVE  Built(w)' /\ NewSegment(w)' = NewSegment(w)
BY DEF Built, NewSegment

\* A step that leaves the pointers and files alone, and returns, keeps Safe.
LEMMA SafeReturn ==
  ASSUME TypeOK, Safe, NEW w \in Writers, writer[w].pc # "idle", Return(w),
         PointersHold', UNCHANGED scrub
  PROVE  Safe'
BY ReturnReady DEF Safe, ScrubsIdle

\* Taking the lock: nothing is built yet.
LEMMA SafeBegin ==
  ASSUME TypeOK, Safe, NEW w \in Writers, NEW pc \in {"locked", "merging"}, NEW job,
         Begin(w, pc, job)
  PROVE  Safe'
<1>1. PointersHold'
  BY CollectHolds DEF Begin, Recover, Safe
<1>2. \A x \in Writers : writer[x].pc = "idle"
  BY WritersAssumption DEF Begin, Safe, LockHeld, Writers
<1>3. writer'[w].pc = pc /\ \A x \in Writers \ {w} : writer'[x].pc = "idle"
  <2>1. writer[w] \in WriterStates
    BY DEF TypeOK
  <2> QED BY <1>2, <2>1 DEF Begin, TypeOK, WriterStates
<1>4. LockHeld'
  BY <1>3 DEF Begin, LockHeld
<1>5. \A x \in Writers : WriterReady(x)'
  BY <1>3, IdleReady DEF Unflipped
<1> QED BY <1>1, <1>4, <1>5 DEF Begin, Safe, ScrubsIdle

\* What a release makes of a document adds one segment, the last, to it.
LEMMA NewDocumentAdds ==
  ASSUME NEW r \in Releases, NEW d,
         r.kind = "base" \/ (d \in Docs /\ r.kind # "base")
  PROVE  LET new == NewDocument(r, d) IN
         \A s \in Elems(new.segs) :
           s = new.segs[Len(new.segs)] \/ (r.kind # "base" /\ s \in Elems(d.segs))
<1>1. CASE r.kind = "base"
  BY <1>1 DEF NewDocument, Elems
<1>2. CASE d \in Docs /\ r.kind # "base"
  <2> DEFINE segs == Append(d.segs, SegmentOf(r))
  <2>1. SegmentOf(r) \in Segments /\ d.segs \in Seq(Segments)
    BY <1>2, ReleasesAssumption, DocSegments DEF SegmentOf, Segments, Bytes, Shas
  <2>2. /\ Len(segs) = Len(d.segs) + 1 /\ DOMAIN segs = 1..(Len(d.segs) + 1)
        /\ \A i \in 1..Len(d.segs) : segs[i] = d.segs[i]
        /\ DOMAIN d.segs = 1..Len(d.segs) /\ Len(d.segs) \in Nat
    BY <1>2, <2>1, DocSegments, AppendProperties, LenProperties
  <2>3. NewDocument(r, d).segs = segs
    BY <1>2 DEF NewDocument
  <2> HIDE DEF segs
  <2>4. \A i \in DOMAIN segs : segs[i] = segs[Len(segs)] \/ segs[i] \in Elems(d.segs)
    BY <2>2 DEF Elems
  <2> QED BY <1>2, <2>3, <2>4 DEF Elems
<1> QED BY <1>1, <1>2

\* An install that verified its release knows its document is well built.
LEMMA SafePrepare ==
  ASSUME TypeOK, Safe, NEW w \in Writers, Prepare(w)
  PROVE  Safe'
<1> DEFINE r == writer[w].job
           d == IF Opened = None THEN None ELSE Opened.doc
           v == [writer[w] EXCEPT !.pc = "staged", !.base = Opened, !.new = NewDocument(r, d)]
<1>1. writer[w] \in WriterStates /\ WriterOK(writer[w]) /\ writer[w].pc = "locked"
  BY DEF TypeOK, Prepare
<1>2. r \in Releases
  BY <1>1 DEF WriterOK
<1>3. PointersHold' /\ UNCHANGED scrub
  BY PointersStay DEF Prepare, Safe
<1>4. CASE r.kind = "base" \/ (Opened # None /\ Applies(r, Opened.doc))
  <2>1. writer' = [writer EXCEPT ![w] = v] /\ UNCHANGED lock
    BY <1>4 DEF Prepare, TypeOK
  <2>2. /\ v.pc = "staged" /\ v.base = Opened /\ v.new = NewDocument(r, d)
        /\ writer'[w] = v
    BY <1>1, <2>1 DEF WriterStates, TypeOK
  <2> HIDE DEF v
  <2>3. \A s \in Elems(v.new.segs) :
          s = v.new.segs[Len(v.new.segs)] \/ (Opened # None /\ s \in Elems(Opened.doc.segs))
    <3>1. r.kind = "base" \/ (Opened # None /\ d = Opened.doc /\ d \in Docs /\ r.kind # "base")
      BY <1>4, OpenedType
    <3>2. \A s \in Elems(NewDocument(r, d).segs) :
            \/ s = NewDocument(r, d).segs[Len(NewDocument(r, d).segs)]
            \/ r.kind # "base" /\ s \in Elems(d.segs)
      <4> HIDE DEF r, d
      <4> QED BY <1>2, <3>1, NewDocumentAdds
    <3> QED BY <2>2, <3>1, <3>2
  <2>4. Opened # None => Opened \in Slotted'
    BY SlottedOpens DEF Safe, Prepare, Slotted
  <2>5. Built(w)'
    BY <2>2, <2>3, <2>4 DEF Built, NewSegment
  <2>6. WriterReady(w)'
    BY <2>2, <2>5 DEF WriterReady, Unflipped, Commits
  <2> QED BY <1>1, <1>3, <2>1, <2>2, <2>6, StepReady DEF Safe, ScrubsIdle
<1>5. CASE ~(r.kind = "base" \/ (Opened # None /\ Applies(r, Opened.doc)))
  BY <1>1, <1>3, <1>5, SafeReturn DEF Prepare
<1> QED BY <1>4, <1>5

\* While every pointer holds, a compaction finds no damaged source.
LEMMA NothingDamaged ==
  ASSUME TypeOK, Safe, Opened # None
  PROVE  FirstDamaged(Opened.doc) = None
<1> DEFINE d == Opened.doc
<1>1. Holds(Opened) /\ d \in Docs
  BY SlottedOpens, OpenedType DEF Safe, PointersHold
<1>2. ASSUME NEW i \in DOMAIN d.segs
      PROVE  file[d.segs[i].id] # Damaged
  <2>1. file[d.segs[i].id] = d.segs[i].sha
    BY <1>1 DEF Holds, Elems
  <2> HIDE DEF d
  <2>2. d.segs[i].sha \in Seq(Shas) \/ d.segs[i].sha \in Shas
    BY <1>1, DocSegments
  <2> QED BY <2>1, <2>2, DamagedAssumption DEF Bytes
<1> QED BY <1>2 DEF FirstDamaged

\* A compaction without faults finds no damage, so it condemns nothing and merges.
LEMMA SafePrepareCompaction ==
  ASSUME TypeOK, Safe, NEW w \in Writers, PrepareCompaction(w)
  PROVE  Safe'
<1> DEFINE new == [model |-> Opened.doc.model, segs |-> <<Merged(Opened.doc)>>]
           v == [writer[w] EXCEPT !.pc = "staged", !.base = Opened, !.new = new]
<1>1. writer[w] \in WriterStates /\ writer[w].pc = "merging"
  BY DEF TypeOK, PrepareCompaction
<1>2. UNCHANGED <<current, previous, gens, file, verdict, scrub>>
  BY NothingDamaged DEF PrepareCompaction
<1>3. PointersHold'
  BY <1>2, PointersStay DEF Safe
<1>4. CASE Opened = None
  BY <1>1, <1>2, <1>3, <1>4, SafeReturn DEF PrepareCompaction
<1>5. CASE Opened # None
  <2>1. writer' = [writer EXCEPT ![w] = v] /\ UNCHANGED lock
    BY <1>5, NothingDamaged DEF PrepareCompaction, TypeOK
  <2>2. v.pc = "staged" /\ v.base = Opened /\ v.new = new /\ writer'[w] = v
    BY <1>1, <2>1 DEF WriterStates, TypeOK
  <2>3. \A s \in Elems(new.segs) : s = new.segs[Len(new.segs)]
    BY DEF Elems
  <2>4. Opened \in Slotted'
    BY <1>2, <1>5, SlottedOpens DEF Safe, Slotted
  <2> HIDE DEF new, v
  <2>5. Built(w)'
    BY <2>2, <2>3, <2>4 DEF Built, NewSegment
  <2>6. WriterReady(w)'
    BY <2>2, <2>5 DEF WriterReady, Unflipped, Commits
  <2> QED BY <1>1, <1>2, <1>3, <2>1, <2>2, <2>6, StepReady DEF Safe, ScrubsIdle
<1> QED BY <1>4, <1>5

\* Judging the file: a segment that is not kept is one no pointer's generation has.
LEMMA SafeJudge ==
  ASSUME TypeOK, Safe, NEW w \in Writers, Judge(w)
  PROVE  Safe'
<1> DEFINE n == NewSegment(w)
           placed == IF n.id \notin DOMAIN file THEN "new"
                     ELSE IF file[n.id] = n.sha THEN "kept" ELSE "replaced"
           v == [writer[w] EXCEPT !.pc = "judged", !.placed = placed]
<1>1. writer[w] \in WriterStates /\ writer[w].pc = "staged" /\ Built(w)
  BY DEF TypeOK, Judge, Safe, WriterReady, Unflipped
<1>2. PointersHold' /\ UNCHANGED <<current, previous, gens, file, verdict, scrub>>
  BY PointersStay DEF Judge, disk, Safe
<1>3. CASE Return(w)
  BY <1>1, <1>2, <1>3, SafeReturn
<1>4. CASE ~Return(w)
  <2>1. /\ writer' = [writer EXCEPT ![w] = v] /\ UNCHANGED lock
        /\ ~(n.id \in DOMAIN file /\ file[n.id] # n.sha /\ Served(n.id, file[n.id]))
    BY <1>4 DEF Judge, TypeOK
  <2>2. /\ v.pc = "judged" /\ v.placed = placed /\ writer'[w] = v
        /\ v.base = writer[w].base /\ v.new = writer[w].new
    BY <1>1, <2>1 DEF WriterStates, TypeOK
  <2>3. placed # "kept" => \A p \in Slotted : n.id \notin Ids(p.doc)
    <3> SUFFICES ASSUME placed # "kept", NEW p \in Slotted, NEW g \in Elems(p.doc.segs),
                        g.id = n.id
                 PROVE  FALSE
      BY DEF Ids
    <3>1. p \in LivePointers /\ n.id \in DOMAIN file /\ file[n.id] = g.sha
      BY SlottedOpens DEF Safe, PointersHold, Holds
    <3>2. Served(n.id, file[n.id])
      BY <3>1 DEF Served
    <3> QED BY <2>1, <3>1, <3>2
  <2>4. placed = "kept" => n.id \in DOMAIN file /\ file[n.id] = n.sha
    OBVIOUS
  <2> HIDE DEF v, placed
  <2>5. Built(w)' /\ NewSegment(w)' = n
    BY <1>1, <1>2, <2>2, BuiltStays DEF Slotted, Built
  <2> HIDE DEF n
  <2>6. Judged(w)'
    BY <1>2, <2>2, <2>3, <2>4, <2>5 DEF Judged, Slotted
  <2>7. WriterReady(w)'
    BY <2>2, <2>5, <2>6 DEF WriterReady, Unflipped, Commits
  <2> QED BY <1>1, <1>2, <2>1, <2>2, <2>7, StepReady DEF Safe, ScrubsIdle
<1> QED BY <1>3, <1>4

\* What a step to pc leaves of the writer's memory.
LEMMA GotoKeeps ==
  ASSUME TypeOK, NEW w \in Writers, NEW pc, Goto(w, pc)
  PROVE  /\ writer'[w].pc = pc /\ writer'[w].base = writer[w].base
         /\ writer'[w].new = writer[w].new /\ writer'[w].gen = writer[w].gen
         /\ writer'[w].placed = writer[w].placed /\ writer'[w].job = writer[w].job
         /\ writer'[w].take = writer[w].take /\ NewSegment(w)' = NewSegment(w)
BY DEF TypeOK, Goto, WriterStates, NewSegment

\* Placing the segment: its file is one no pointer's generation names, or is
\* left as it is.
LEMMA SafePlace ==
  ASSUME TypeOK, Safe, NEW w \in Writers, Place(w)
  PROVE  Safe'
<1> DEFINE n == NewSegment(w)
<1>1. /\ writer[w].pc = "judged" /\ Built(w) /\ Judged(w) /\ Goto(w, "placed")
      /\ UNCHANGED <<current, previous, gens, verdict, scrub>>
      /\ file' = IF writer[w].placed = "kept" THEN file ELSE Put(file, n.id, n.sha)
  BY DEF Place, Safe, WriterReady, Unflipped
<1>2. PointersHold'
  <2> SUFFICES ASSUME NEW p \in Slotted PROVE Holds(p)'
    BY <1>1 DEF PointersHold, Slotted, Safe
  <2>1. Holds(p)
    BY DEF Safe, PointersHold
  <2>2. ASSUME NEW g \in Elems(p.doc.segs)
        PROVE  g.id \in DOMAIN file' /\ file'[g.id] = file[g.id]
    BY <1>1, <2>1 DEF Judged, Ids, Put, Holds
  <2> QED BY <1>1, <2>1, <2>2, HoldsStays DEF Holds
<1>3. /\ writer'[w].pc = "placed" /\ writer'[w].placed = writer[w].placed
      /\ Built(w)' /\ NewSegment(w)' = n
  BY <1>1, GotoKeeps, BuiltStays DEF Slotted, Built
<1>4. n.id \in DOMAIN file' /\ file'[n.id] = n.sha
  BY <1>1 DEF Judged, Put
<1> HIDE DEF n
<1>5. Judged(w)' /\ PlacedFile(w)'
  <2>1. writer[w].placed # "kept" => \A p \in Slotted : n.id \notin Ids(p.doc)
    BY <1>1 DEF Judged, n
  <2> QED BY <1>1, <1>3, <1>4, <2>1 DEF Judged, PlacedFile, Slotted
<1>6. WriterReady(w)'
  BY <1>3, <1>5 DEF WriterReady, Unflipped, Commits
<1> QED BY <1>1, <1>2, <1>6, GotoReady DEF Safe, ScrubsIdle

\* However far it comes, settling the verdict of a segment in its place condemns no
\* segment a pointer's generation names.
LEMMA SettledHolds ==
  ASSUME Safe, NEW w \in Writers, PlacedFile(w),
         verdict' \in {verdict, SettledVerdict(NewSegment(w).id, NewSegment(w).sha)},
         NEW p \in Slotted, NEW g \in Elems(p.doc.segs), g.id \in DOMAIN verdict'
  PROVE  verdict'[g.id] = g.sha
<1> DEFINE n == NewSegment(w)
<1>1. Holds(p)
  BY DEF Safe, PointersHold
<1>2. CASE verdict' = verdict
  BY <1>1, <1>2 DEF Holds
<1>3. CASE verdict' = SettledVerdict(n.id, n.sha)
  <2>1. /\ n.id \in DOMAIN verdict' => verdict'[n.id] = n.sha
        /\ \A id \in DOMAIN verdict' : id # n.id => id \in DOMAIN verdict
                                                  /\ verdict'[id] = verdict[id]
    BY <1>3 DEF SettledVerdict, Put, Without, Restrict
  <2>2. CASE g.id = n.id
    BY <1>1, <2>1, <2>2 DEF PlacedFile, Holds
  <2>3. CASE g.id # n.id
    BY <1>1, <2>1, <2>3 DEF Holds
  <2> QED BY <2>2, <2>3
<1> QED BY <1>2, <1>3

\* Settling the verdict: one that stays names the bytes just placed, which are
\* those of every pointer's generation that has the segment.
LEMMA SafeSettle ==
  ASSUME TypeOK, Safe, NEW w \in Writers, Settle(w)
  PROVE  Safe'
<1> DEFINE n == NewSegment(w)
<1>1. /\ writer[w].pc = "placed" /\ Built(w) /\ Judged(w) /\ PlacedFile(w)
      /\ Goto(w, "moved") /\ UNCHANGED <<current, previous, gens, file, scrub>>
      /\ verdict' = SettledVerdict(n.id, n.sha)
  BY DEF Settle, Safe, WriterReady, Unflipped
<1>2. n.id \in DOMAIN verdict' => verdict'[n.id] = n.sha
  BY <1>1 DEF SettledVerdict, Put, Without, Restrict
<1>3. PointersHold'
  <2> SUFFICES ASSUME NEW p \in Slotted PROVE Holds(p)'
    BY <1>1 DEF PointersHold, Slotted, Safe
  <2>1. Holds(p)
    BY DEF Safe, PointersHold
  <2>2. \A g \in Elems(p.doc.segs) : g.id \in DOMAIN verdict' => verdict'[g.id] = g.sha
    BY <1>1, SettledHolds
  <2> QED BY <1>1, <2>1, <2>2, HoldsStays DEF Holds
<1>4. /\ writer'[w].pc = "moved" /\ writer'[w].placed = writer[w].placed
      /\ Built(w)' /\ NewSegment(w)' = n
  BY <1>1, GotoKeeps, BuiltStays DEF Slotted, Built
<1>5. Judged(w)' /\ PlacedFile(w)' /\ SettledFile(w)'
  <2>1. /\ writer[w].placed # "kept" => \A p \in Slotted : n.id \notin Ids(p.doc)
        /\ n.id \in DOMAIN file /\ file[n.id] = n.sha
    BY <1>1 DEF Judged, PlacedFile
  <2> HIDE DEF n
  <2> QED BY <1>1, <1>2, <1>4, <2>1 DEF Judged, PlacedFile, SettledFile, Slotted
<1>6. WriterReady(w)'
  BY <1>4, <1>5 DEF WriterReady, Unflipped, Commits
<1> QED BY <1>1, <1>3, <1>6, GotoReady DEF Safe, ScrubsIdle

\* What is given back is a file no pointer's generation names.
LEMMA GiveBackHolds ==
  ASSUME TypeOK, Safe, NEW w \in Writers, Judged(w), writer[w].placed # "kept", GiveBack(w),
         UNCHANGED <<current, previous, gens>>,
         \A p \in Slotted : \A g \in Elems(p.doc.segs) :
           g.id \in DOMAIN verdict' => verdict'[g.id] = g.sha
  PROVE  PointersHold'
<1> SUFFICES ASSUME NEW p \in Slotted PROVE Holds(p)'
  BY DEF PointersHold, Slotted, Safe
<1>1. Holds(p)
  BY DEF Safe, PointersHold
<1>2. ASSUME NEW g \in Elems(p.doc.segs)
      PROVE  g.id \in DOMAIN file' /\ file'[g.id] = file[g.id]
  BY <1>1 DEF Judged, Ids, GiveBack, Without, Restrict, Holds
<1> QED BY <1>1, <1>2, HoldsStays DEF Holds

\* Giving a placed segment back hurts no generation a pointer names.
LEMMA SafeSettleFails ==
  ASSUME TypeOK, Safe, NEW w \in Writers, SettleFails(w)
  PROVE  Safe'
<1>1. /\ writer[w].pc = "placed" /\ Judged(w) /\ PlacedFile(w) /\ Return(w)
      /\ UNCHANGED <<current, previous, gens, scrub>>
      /\ verdict' \in {verdict, SettledVerdict(NewSegment(w).id, NewSegment(w).sha)}
  BY DEF SettleFails, Safe, WriterReady, Unflipped
<1>2. \A p \in Slotted : \A g \in Elems(p.doc.segs) :
        g.id \in DOMAIN verdict' => verdict'[g.id] = g.sha
  BY <1>1, SettledHolds
<1>3. PointersHold'
  <2>1. CASE writer[w].placed = "kept"
    <3> SUFFICES ASSUME NEW p \in Slotted PROVE Holds(p)'
      BY <1>1 DEF PointersHold, Slotted, Safe
    <3>1. Holds(p) /\ UNCHANGED file
      BY <2>1 DEF Safe, PointersHold, SettleFails
    <3> QED BY <1>1, <1>2, <3>1, HoldsStays DEF Holds
  <2>2. CASE writer[w].placed # "kept"
    BY <1>1, <1>2, <2>2, GiveBackHolds DEF SettleFails
  <2> QED BY <2>1, <2>2
<1> QED BY <1>1, <1>3, SafeReturn

\* A commit that fails before its flip leaves every pointer holding.
LEMMA SafeCommitFails ==
  ASSUME TypeOK, Safe, NEW w \in Writers, CommitFails(w)
  PROVE  Safe'
<1>1. /\ writer[w].pc \in Commits /\ Judged(w) /\ Return(w) /\ writer[w].pc # "idle"
      /\ UNCHANGED <<current, previous, gens, verdict, scrub>>
  BY DEF CommitFails, Safe, WriterReady, Unflipped, Commits
<1>2. PointersHold'
  <2>1. CASE writer[w].take /\ writer[w].placed # "kept"
    BY <1>1, <2>1, GiveBackHolds DEF CommitFails, GiveBackDownload, Safe, PointersHold, Holds
  <2>2. CASE ~(writer[w].take /\ writer[w].placed # "kept")
    BY <1>1, <2>2, PointersStay DEF CommitFails, GiveBackDownload, Safe
  <2> QED BY <2>1, <2>2
<1> QED BY <1>1, <1>2, SafeReturn

\* The new directory's number is past every pointer's.
LEMMA SafeCreateGeneration ==
  ASSUME TypeOK, Safe, NEW w \in Writers, CreateGeneration(w)
  PROVE  Safe'
<1>1. PICK m \in Numbers : /\ NextGeneration(m)
                           /\ gens' = Put(gens, m, [doc |-> None, sound |-> TRUE])
                           /\ writer' = [writer EXCEPT ![w].pc = "created", ![w].gen = m]
  BY DEF CreateGeneration
<1> DEFINE v == [writer[w] EXCEPT !.pc = "created", !.gen = m]
<1>2. /\ writer[w].pc = "moved" /\ Built(w) /\ Judged(w) /\ PlacedFile(w) /\ SettledFile(w)
      /\ UNCHANGED <<current, previous, file, verdict, lock, scrub>>
  BY DEF CreateGeneration, Safe, WriterReady, Unflipped, Commits
<1>3. /\ writer' = [writer EXCEPT ![w] = v] /\ writer'[w] = v
      /\ v.pc = "created" /\ v.gen = m /\ v.base = writer[w].base /\ v.new = writer[w].new
      /\ v.placed = writer[w].placed
  BY <1>1 DEF TypeOK, WriterStates
<1> HIDE DEF v
<1>4. \A p \in Slotted : p.gen # m
  <2> SUFFICES ASSUME NEW p \in Slotted, p.gen = m PROVE FALSE
    OBVIOUS
  <2>1. m \in DOMAIN gens
    BY DEF Safe, PointersHold, Holds
  <2> QED BY <1>1, <2>1 DEF NextGeneration, Numbered, Numbers
<1>5. PointersHold'
  <2> SUFFICES ASSUME NEW p \in Slotted PROVE Holds(p)'
    BY <1>2 DEF PointersHold, Slotted, Safe
  <2>1. Holds(p)
    BY DEF Safe, PointersHold
  <2> QED BY <1>1, <1>2, <1>4, <2>1, HoldsStays DEF Holds, Put
<1>6. Built(w)' /\ NewSegment(w)' = NewSegment(w)
  BY <1>2, <1>3, BuiltStays DEF Slotted, Built
<1>7. Judged(w)' /\ PlacedFile(w)' /\ SettledFile(w)'
  BY <1>2, <1>3, <1>6 DEF Judged, PlacedFile, SettledFile, Slotted
<1>8. Unnamed(w)'
  BY <1>1, <1>2, <1>3, <1>4 DEF Unnamed, Slotted, Put
<1>9. WriterReady(w)'
  BY <1>3, <1>6, <1>7, <1>8 DEF WriterReady, Unflipped, Commits
<1> QED BY <1>2, <1>3, <1>5, <1>9, StepReady DEF Safe, ScrubsIdle

\* The documents go to a directory no pointer names.
LEMMA SafeWriteGeneration ==
  ASSUME TypeOK, Safe, NEW w \in Writers, WriteGeneration(w)
  PROVE  Safe'
<1> DEFINE m == writer[w].gen
<1>1. /\ writer[w].pc = "created" /\ Built(w) /\ Judged(w) /\ PlacedFile(w) /\ SettledFile(w)
      /\ Unnamed(w) /\ Goto(w, "written")
      /\ gens' = [gens EXCEPT ![m].doc = writer[w].new]
      /\ UNCHANGED <<current, previous, file, verdict, scrub>>
  BY DEF WriteGeneration, Safe, WriterReady, Unflipped, Commits
<1>2. /\ m \in DOMAIN gens' /\ gens'[m].doc = writer[w].new /\ gens'[m].sound
      /\ \A k \in DOMAIN gens : k \in DOMAIN gens' /\ (k # m => gens'[k] = gens[k])
  BY <1>1 DEF Unnamed, TypeOK
<1>3. PointersHold'
  <2> SUFFICES ASSUME NEW p \in Slotted PROVE Holds(p)'
    BY <1>1 DEF PointersHold, Slotted, Safe
  <2>1. Holds(p) /\ p.gen # m
    BY <1>1 DEF Safe, PointersHold, Unnamed
  <2> QED BY <1>1, <1>2, <2>1, HoldsStays DEF Holds
<1>4. /\ writer'[w].pc = "written" /\ writer'[w].gen = m /\ writer'[w].new = writer[w].new
      /\ writer'[w].placed = writer[w].placed /\ Built(w)' /\ NewSegment(w)' = NewSegment(w)
  BY <1>1, GotoKeeps, BuiltStays DEF Slotted, Built
<1>5. Judged(w)' /\ PlacedFile(w)' /\ SettledFile(w)'
  BY <1>1, <1>4 DEF Judged, PlacedFile, SettledFile, Slotted
<1>6. Unnamed(w)' /\ gens'[writer'[w].gen].doc = writer'[w].new
  BY <1>1, <1>2, <1>4 DEF Unnamed, Slotted
<1>7. WriterReady(w)'
  BY <1>4, <1>5, <1>6 DEF WriterReady, Unflipped, Commits
<1> QED BY <1>1, <1>3, <1>7, GotoReady DEF Safe, ScrubsIdle

\* PREVIOUS becomes a pointer that was there already, and the base stays one.
LEMMA PreviousNarrows ==
  ASSUME TypeOK, Safe, NEW w \in Writers, WritePrevious(w)
  PROVE  Slotted' \subseteq Slotted /\ (writer[w].base # None => writer[w].base \in Slotted')
<1>1. /\ Built(w) /\ UNCHANGED current
      /\ previous' = IF FallbackFor(w) = None THEN previous
                     ELSE [to |-> FallbackFor(w), reads |-> TRUE]
  BY DEF WritePrevious, Safe, WriterReady, Unflipped
<1>2. FallbackFor(w) # None =>
        /\ FallbackFor(w) \in Slotted
        /\ writer[w].base # None => FallbackFor(w) = writer[w].base
  <2>1. Pointer(current) = current.to
    BY DEF Safe, PointersHold, Pointer
  <2> QED BY <1>1, <2>1 DEF FallbackFor, UsableFallback, Reads, Built, Slotted
<1>3. CASE FallbackFor(w) = None
  BY <1>1, <1>3 DEF Slotted, Built
<1>4. CASE FallbackFor(w) # None
  <2>1. current' = current /\ previous'.to = FallbackFor(w)
    BY <1>1, <1>4
  <2>2. Slotted' = {current.to, FallbackFor(w)} \ {None}
    BY <2>1 DEF Slotted
  <2>3. FallbackFor(w) \in Slotted'
    BY <1>4, <2>2
  <2>4. writer[w].base # None => writer[w].base \in Slotted'
    BY <1>2, <1>4, <2>3
  <2>5. Slotted' \subseteq Slotted
    <3>1. current.to \in Slotted \cup {None}
      BY DEF Slotted
    <3> QED BY <1>2, <1>4, <2>2, <3>1
  <2> QED BY <2>4, <2>5
<1> QED BY <1>3, <1>4

\* PREVIOUS becomes nothing a pointer did not name, and never drops the base.
LEMMA SafeWritePrevious ==
  ASSUME TypeOK, Safe, NEW w \in Writers, WritePrevious(w)
  PROVE  Safe'
<1>1. /\ writer[w].pc = "written" /\ Built(w) /\ Judged(w) /\ PlacedFile(w) /\ SettledFile(w)
      /\ Unnamed(w) /\ gens[writer[w].gen].doc = writer[w].new /\ Goto(w, "previous")
      /\ previous' = IF FallbackFor(w) = None THEN previous
                     ELSE [to |-> FallbackFor(w), reads |-> TRUE]
      /\ UNCHANGED <<current, gens, file, verdict, scrub>>
  BY DEF WritePrevious, Safe, WriterReady, Unflipped, Commits
<1>3. Slotted' \subseteq Slotted /\ (writer[w].base # None => writer[w].base \in Slotted')
  BY PreviousNarrows
<1>4. PointersHold'
  BY <1>1, <1>3, HoldsUnchanged DEF PointersHold, Safe
<1>5. /\ writer'[w].pc = "previous" /\ writer'[w].gen = writer[w].gen
      /\ writer'[w].new = writer[w].new /\ writer'[w].placed = writer[w].placed
      /\ Built(w)' /\ NewSegment(w)' = NewSegment(w)
  BY <1>1, <1>3, GotoKeeps, BuiltStays
<1>6. Judged(w)' /\ PlacedFile(w)' /\ SettledFile(w)' /\ Unnamed(w)'
  BY <1>1, <1>3, <1>5 DEF Judged, PlacedFile, SettledFile, Unnamed
<1>7. WriterReady(w)'
  BY <1>1, <1>5, <1>6 DEF WriterReady, Unflipped, Commits
<1> QED BY <1>1, <1>4, <1>7, GotoReady DEF Safe, ScrubsIdle

\* The generation a flip names is whole.
LEMMA NewPointerHolds ==
  ASSUME TypeOK, Safe, NEW w \in Writers, writer[w].pc = "previous", NEW p, p = NewPointer(w).to
  PROVE  Holds(p)
<1>1. /\ Built(w) /\ PlacedFile(w) /\ SettledFile(w) /\ Unnamed(w)
      /\ gens[writer[w].gen].doc = writer[w].new
  BY DEF Safe, WriterReady, Unflipped, Commits
<1>2. p.gen = writer[w].gen /\ p.doc = writer[w].new
  BY DEF NewPointer
<1>3. ASSUME NEW g \in Elems(p.doc.segs)
      PROVE  /\ g.id \in DOMAIN file /\ file[g.id] = g.sha
             /\ g.id \in DOMAIN verdict => verdict[g.id] = g.sha
  <2>1. CASE g = NewSegment(w)
    BY <1>1, <2>1 DEF PlacedFile, SettledFile
  <2>2. CASE writer[w].base # None /\ g \in Elems(writer[w].base.doc.segs)
    <3>1. Holds(writer[w].base)
      BY <1>1, <2>2 DEF Built, Safe, PointersHold
    <3> QED BY <2>2, <3>1 DEF Holds
  <2> QED BY <1>1, <1>2, <2>1, <2>2 DEF Built
<1> QED BY <1>1, <1>2, <1>3 DEF Holds, Unnamed

\* After a flip, CURRENT names the new generation and PREVIOUS what it named.
LEMMA FlippedHolds ==
  ASSUME TypeOK, Safe, NEW w \in Writers, writer[w].pc = "previous", current' = NewPointer(w),
         UNCHANGED <<previous, gens, file, verdict>>
  PROVE  PointersHold'
<1>1. PICK p : p = NewPointer(w).to
  OBVIOUS
<1>2. Holds(p)
  BY <1>1, NewPointerHolds
<1>3. current'.reads /\ current'.to = p
  BY <1>1 DEF NewPointer
<1>4. Slotted' \subseteq Slotted \cup {p}
  BY <1>3 DEF Slotted
<1> QED BY <1>2, <1>3, <1>4, HoldsUnchanged DEF PointersHold, Safe

LEMMA SafeFlip ==
  ASSUME FlipsKept, TypeOK, Safe, NEW w \in Writers, FlipCurrent(w) \/ FlipUnflushed(w)
  PROVE  Safe'
<1>1. CASE FlipCurrent(w)
  <2>1. /\ writer[w].pc = "previous" /\ Goto(w, "flipped") /\ current' = NewPointer(w)
        /\ UNCHANGED <<previous, gens, file, verdict, scrub>>
    BY <1>1 DEF FlipCurrent
  <2>2. PointersHold'
    BY <2>1, FlippedHolds
  <2>3. WriterReady(w)'
    BY <2>1, GotoKeeps DEF WriterReady, Unflipped, Commits
  <2> QED BY <2>1, <2>2, <2>3, GotoReady DEF Safe, ScrubsIdle
<1>2. CASE FlipUnflushed(w)
  <2>1. ~writer[w].take
    BY <1>2 DEF FlipUnflushed, FlipsKept, TypeOK, WriterOK
  <2>2. /\ writer[w].pc = "previous" /\ Return(w) /\ current' = NewPointer(w)
        /\ UNCHANGED <<previous, gens, file, verdict, scrub>>
    BY <1>2, <2>1 DEF FlipUnflushed, GiveBackDownload
  <2>3. PointersHold'
    BY <2>2, FlippedHolds
  <2> QED BY <2>2, <2>3, SafeReturn
<1> QED BY <1>1, <1>2

\* What follows the flip names nothing new.
LEMMA SafeAfterFlip ==
  ASSUME TypeOK, Safe, NEW w \in Writers,
         DiscardPrevious(w) \/ Finish(w) \/ FinishUncollected(w)
  PROVE  Safe'
<1>1. CASE DiscardPrevious(w)
  <2>1. /\ writer[w].pc = "flipped" /\ Goto(w, "discarded")
        /\ UNCHANGED <<current, gens, file, verdict, scrub>>
        /\ previous' \in {NoPointer, previous}
    BY <1>1 DEF DiscardPrevious
  <2>2. Slotted' \subseteq Slotted /\ previous'.reads
    BY <2>1 DEF Slotted, NoPointer, Safe, PointersHold
  <2>3. PointersHold'
    BY <2>1, <2>2, HoldsUnchanged DEF PointersHold, Safe
  <2>4. WriterReady(w)'
    BY <2>1, GotoKeeps DEF WriterReady, Unflipped, Commits
  <2> QED BY <2>1, <2>3, <2>4, GotoReady DEF Safe, ScrubsIdle
<1>2. CASE Finish(w)
  BY <1>2, CollectHolds, SafeReturn DEF Finish, Safe
<1>3. CASE FinishUncollected(w)
  BY <1>3, PointersStay, SafeReturn DEF FinishUncollected, Safe
<1> QED BY <1>1, <1>2, <1>3

-----------------------------------------------------------------------------
(* Every step *)

\* A step that concerns no writer and none of the set's files.
LEMMA SafeUnchanged ==
  ASSUME Safe, UNCHANGED <<current, previous, gens, file, verdict, lock, writer, scrub>>
  PROVE  Safe'
<1>1. PointersHold'
  BY PointersStay DEF Safe
<1>2. ASSUME NEW w \in Writers PROVE WriterReady(w)'
  BY DEF Safe, WriterReady, Built, Judged, PlacedFile, SettledFile, Unnamed, NewSegment, Slotted
<1> QED BY <1>1, <1>2 DEF Safe, LockHeld, ScrubsIdle

\* Every step of a writer keeps Safe.
LEMMA SafeWriterStep ==
  ASSUME FlipsKept, TypeOK, Safe, NEW w \in Writers, WriterStep(w)
  PROVE  Safe'
<1>1. ASSUME NEW r \in Releases, BeginInstall(w, r) PROVE Safe'
  BY <1>1, SafeBegin DEF BeginInstall
<1>2. CASE BeginCompaction(w)
  BY <1>2, SafeBegin DEF BeginCompaction
<1>3. CASE Prepare(w) \/ PrepareCompaction(w) \/ Judge(w) \/ Place(w) \/ Settle(w)
  BY <1>3, SafePrepare, SafePrepareCompaction, SafeJudge, SafePlace, SafeSettle
<1>4. CASE SettleFails(w) \/ CreateGeneration(w) \/ WriteGeneration(w) \/ WritePrevious(w)
  BY <1>4, SafeSettleFails, SafeCreateGeneration, SafeWriteGeneration, SafeWritePrevious
<1>5. CASE \/ FlipCurrent(w) \/ FlipUnflushed(w) \/ DiscardPrevious(w) \/ Finish(w)
           \/ FinishUncollected(w) \/ CommitFails(w)
  BY <1>5, SafeFlip, SafeAfterFlip, SafeCommitFails
<1>6. CASE Abort(w) \/ Crash(w)
  <2>1. writer[w].pc # "idle" /\ Return(w)
        /\ UNCHANGED <<current, previous, gens, file, verdict, scrub>>
    BY <1>6 DEF Abort, Crash, disk
  <2> QED BY <2>1, PointersStay, SafeReturn DEF Safe
<1> QED BY <1>1, <1>2, <1>3, <1>4, <1>5, <1>6 DEF WriterStep

\* A step of the device that counts as no fault mends a pointer, and none is broken.
LEMMA DeviceRests ==
  ASSUME TypeOK, PointersHold, faults = 0, faults' = 0, DeviceStep
  PROVE  FALSE
BY BoundsAssumption DEF DeviceStep, Rot, HidePointer, MendPointers, LoseCurrent,
   DamageDerived, Fault, PointersHold

\* A scrub finds nothing, the device does nothing, and no one else writes.
LEMMA SafeOtherStep ==
  ASSUME TypeOK, Safe, faults = 0, faults' = 0,
         \/ \E s \in Scrubs : ScrubStep(s)
         \/ \E r \in Readers : ReaderStep(r)
         \/ \E r \in Releases : Download(r)
         \/ SessionRecover
         \/ DeviceStep
  PROVE  Safe'
<1>1. ASSUME NEW s \in Scrubs, ScrubStep(s) PROVE Safe'
  BY <1>1, NothingDamaged DEF ScrubStep, ScrubFinds, Condemn, HashAgain, JudgeGenerations,
     SettleCondemned, ScrubStops, Safe, ScrubsIdle
<1>2. ASSUME NEW r \in Readers, ReaderStep(r) PROVE Safe'
  BY <1>2, SafeUnchanged DEF ReaderStep, ReadCurrent, ReadPrevious, ReadDocument,
     MapSegments, Close, disk
<1>3. ASSUME NEW r \in Releases, Download(r) PROVE Safe'
  BY <1>3, SafeUnchanged DEF Download
<1>4. CASE SessionRecover
  <2>1. PointersHold' /\ UNCHANGED <<lock, writer, scrub>>
    BY <1>4, CollectHolds DEF SessionRecover, Recover, Safe
  <2>2. \A w \in Writers : writer'[w].pc = "idle"
    BY <1>4, <2>1, WritersAssumption DEF SessionRecover, Safe, LockHeld, Writers
  <2> QED BY <2>1, <2>2, IdleReady DEF Safe, LockHeld, ScrubsIdle, Unflipped
<1>5. CASE DeviceStep
  BY <1>5, DeviceRests DEF Safe
<1> QED BY <1>1, <1>2, <1>3, <1>4, <1>5

\* What a writer's step leaves to others.
LEMMA WritersKeep ==
  ASSUME NEW w \in Writers, WriterStep(w)
  PROVE  UNCHANGED <<scrub, reader, faults>>
BY DEF WriterStep, BeginInstall, BeginCompaction, Begin, Prepare, PrepareCompaction,
   Judge, Place, Settle, SettleFails, CreateGeneration, WriteGeneration, WritePrevious,
   FlipCurrent, FlipUnflushed, DiscardPrevious, Finish, FinishUncollected, Abort,
   CommitFails, Crash, bounded

\* No step takes a fault back.
LEMMA FaultsStay ==
  ASSUME TypeOK, [Next]_vars, faults' = 0
  PROVE  faults = 0
<1>1. ASSUME NEW w \in Writers, WriterStep(w) PROVE faults' = faults
  BY <1>1, WritersKeep
<1>2. ASSUME NEW s \in Scrubs, ScrubStep(s) PROVE faults' = faults
  BY <1>2 DEF ScrubStep, ScrubFinds, Condemn, HashAgain, JudgeGenerations,
     SettleCondemned, ScrubStops, bounded
<1>3. ASSUME NEW r \in Readers, ReaderStep(r) PROVE faults' = faults
  BY <1>3 DEF ReaderStep, ReadCurrent, ReadPrevious, ReadDocument, MapSegments, Close, bounded
<1>4. CASE DeviceStep
  BY <1>4 DEF DeviceStep, Rot, HidePointer, MendPointers, LoseCurrent, DamageDerived,
     Fault, TypeOK, bounded
<1>5. CASE SessionRecover \/ \E r \in Releases : Download(r)
  BY <1>5 DEF SessionRecover, Download, bounded
<1> QED BY <1>1, <1>2, <1>3, <1>4, <1>5 DEF Next, vars, bounded

\* Safe holds until the first fault.
LEMMA SafeAlways ==
  ASSUME FlipsKept
  PROVE  Spec => [](TypeOK /\ (faults = 0 => Safe))
<1>1. Init => Safe
  <2> SUFFICES ASSUME Init PROVE Safe
    OBVIOUS
  <2>1. \A w \in Writers : writer[w].pc = "idle"
    BY DEF Init, IdleWriter
  <2>2. LockHeld /\ \A w \in Writers : WriterReady(w)
    BY <2>1, WritersAssumption DEF Init, LockHeld, WriterReady, Unflipped, Commits, Writers
  <2>3. PointersHold /\ ScrubsIdle
    BY DEF Init, NoPointer, IdleScrub, PointersHold, ScrubsIdle, Slotted
  <2> QED BY <2>2, <2>3 DEF Safe
<1>2. TypeOK /\ (faults = 0 => Safe) /\ [Next]_vars => (faults = 0 => Safe)'
  <2> SUFFICES ASSUME TypeOK, Safe, [Next]_vars, faults = 0, faults' = 0 PROVE Safe'
    BY FaultsStay
  <2>1. UNCHANGED vars => Safe'
    BY SafeUnchanged DEF vars, disk
  <2> QED BY <2>1, SafeWriterStep, SafeOtherStep DEF Next
<1> QED BY <1>1, <1>2, TypeCorrect, PTL DEF Spec

\* Where no flip goes unflushed, every generation a pointer names opens, until
\* something on the device is damaged or lost.
LEMMA SafeOpens ==
  ASSUME FlipsKept
  PROVE  Spec => [](faults = 0 => PointersOpen)
<1>1. Safe => PointersOpen
  BY HoldsOpens DEF Safe, PointersHold, PointersOpen, Slotted
<1> QED BY <1>1, SafeAlways, PTL

\* And it opens on the bytes it names, never on those of another publication of
\* the same segment, until something on the device is damaged or lost.
THEOREM NeverOnOtherBytes ==
  ASSUME FlipsKept
  PROVE  Spec => [](faults = 0 => NeverOpensOnOtherBytes)
<1>1. Safe => NeverOpensOnOtherBytes
  BY SlottedOpens DEF Safe, PointersHold, Holds, NeverOpensOnOtherBytes
<1> QED BY <1>1, SafeAlways, PTL

-----------------------------------------------------------------------------
(* Where CURRENT goes. Safe says that what the pointers name is whole; Traced,  *)
(* which holds until the first fault as well, says how CURRENT came to name it: *)
(* a flip replaces exactly the generation a writer built on, by one made of it. *)

Compaction(doc) == [model |-> doc.model, segs |-> <<Merged(doc)>>]

\* What a writer made of the generation it opened the set at.
Made(w) ==
  LET r == writer[w].job
      base == writer[w].base
  IN  \/ /\ r \in Releases
         /\ r.kind = "base" \/ (base # None /\ Applies(r, base.doc))
         /\ writer[w].new = NewDocument(r, IF base = None THEN None ELSE base.doc)
      \/ base # None /\ writer[w].new = Compaction(base.doc)

WriterTraced(w) == writer[w].pc \in Unflipped => writer[w].base = current.to /\ Made(w)

\* What a reader opens first is what it read in CURRENT.
ReaderTraced(r) ==
  /\ DOMAIN reader[r] = {"pc", "cur", "prev", "doc", "served", "opens"}
  /\ reader[r].pc \in {"first", "firstDoc"} => reader[r].cur # None
  /\ reader[r].pc = "firstDoc" => reader[r].doc = reader[r].cur

Traced == /\ current.to = None => previous.to = None
          /\ \A w \in Writers : WriterTraced(w)
          /\ \A r \in Readers : ReaderTraced(r)

\* While every pointer holds, the set opens at CURRENT's generation.
LEMMA OpensAtCurrent ==
  ASSUME TypeOK, PointersHold, current.to = None => previous.to = None
  PROVE  Opened = current.to /\ Pointer(current) = current.to
<1>1. Pointer(current) = current.to /\ Pointer(previous) = previous.to
  BY DEF PointersHold, Pointer
<1>2. current.to # None => Opens(current.to)
  BY HoldsOpens DEF PointersHold, Slotted
<1>3. current.to = None => ~Opens(current.to) /\ ~Opens(previous.to)
  BY DEF Opens, Reads
<1> QED BY <1>1, <1>2, <1>3 DEF Opened

\* Only a flip names a generation that no pointer named before, and it changes
\* nothing else of the set.
Flips(w) == /\ writer[w].pc = "previous"
            /\ current' = NewPointer(w) /\ UNCHANGED <<previous, reader>>

LEMMA WriterMoves ==
  ASSUME TypeOK, Safe, NEW w \in Writers, WriterStep(w)
  PROVE  Flips(w) \/ (current' = current /\ Slotted' \subseteq Slotted)
<1>1. CASE FlipCurrent(w) \/ FlipUnflushed(w)
  BY <1>1 DEF FlipCurrent, FlipUnflushed, Flips
<1>2. CASE WritePrevious(w)
  BY <1>2, PreviousNarrows DEF WritePrevious
<1>3. CASE DiscardPrevious(w)
  BY <1>3 DEF DiscardPrevious, Slotted, NoPointer
<1>4. CASE UNCHANGED <<current, previous>>
  BY <1>4 DEF Slotted
<1> QED BY <1>1, <1>2, <1>3, <1>4
        DEF WriterStep, BeginInstall, BeginCompaction, Begin, Prepare, PrepareCompaction,
            Judge, Place, Settle, SettleFails, CreateGeneration, WriteGeneration, Finish,
            FinishUncollected, Abort, CommitFails, Crash, disk

LEMMA Moves ==
  ASSUME TypeOK, Safe, faults = 0, faults' = 0, [Next]_vars
  PROVE  \/ \E w \in Writers : Flips(w)
         \/ current' = current /\ Slotted' \subseteq Slotted
<1>1. ASSUME NEW w \in Writers, WriterStep(w)
      PROVE  Flips(w) \/ (current' = current /\ Slotted' \subseteq Slotted)
  BY <1>1, WriterMoves
<1>2. CASE UNCHANGED <<current, previous>>
  BY <1>2 DEF Slotted
<1>3. CASE DeviceStep
  BY <1>3, DeviceRests DEF Safe
<1>4. CASE \/ \E s \in Scrubs : ScrubStep(s)
           \/ \E r \in Readers : ReaderStep(r)
           \/ \E r \in Releases : Download(r)
           \/ SessionRecover
  <2>1. UNCHANGED <<current, previous>>
    BY <1>4 DEF ScrubStep, ScrubFinds, Condemn, HashAgain, JudgeGenerations, SettleCondemned,
       ScrubStops, ReaderStep, ReadCurrent, ReadPrevious, ReadDocument, MapSegments, Close,
       Download, SessionRecover, disk
  <2> QED BY <1>2, <2>1
<1> QED BY <1>1, <1>2, <1>3, <1>4 DEF Next, vars, disk

\* A flip names the writer's generation.
LEMMA FlipNames ==
  ASSUME TypeOK, NEW w \in Writers, Flips(w)
  PROVE  /\ current'.to \in Pointers /\ current'.to # None
         /\ current'.to.gen = writer[w].gen /\ current'.to.doc = writer[w].new
         /\ writer[w].new \in Docs
<1>1. writer[w].new \in Docs /\ writer[w].gen \in Numbers
  BY DEF Flips, TypeOK, WriterOK, Unflipped
<1>2. current'.to = [gen |-> writer[w].gen, doc |-> writer[w].new]
  BY DEF Flips, NewPointer
<1> QED BY <1>1, <1>2, NoneAssumption DEF Pointers

\* A step of one writer tells nothing new of the others, which hold no lock.
LEMMA TracedAlone ==
  ASSUME LockHeld', NEW w \in Writers, writer'[w].pc # "idle" => WriterTraced(w)',
         lock' \in {w, None}
  PROVE  \A x \in Writers : WriterTraced(x)'
<1>1. \A x \in Writers : x # w => writer'[x].pc = "idle"
  BY WritersAssumption DEF LockHeld, Writers
<1>2. \A x \in Writers : writer'[x].pc = "idle" => WriterTraced(x)'
  BY DEF WriterTraced, Unflipped
<1> QED BY <1>1, <1>2

\* What a writer knows of its document while it moves on.
LEMMA MadeStays ==
  ASSUME NEW w \in Writers, Made(w), writer'[w].job = writer[w].job,
         writer'[w].base = writer[w].base, writer'[w].new = writer[w].new
  PROVE  Made(w)'
BY DEF Made

\* An install that verified its release builds on CURRENT's generation.
LEMMA TracedPrepare ==
  ASSUME TypeOK, Safe, Traced, NEW w \in Writers, Prepare(w)
  PROVE  writer'[w].pc # "idle" => WriterTraced(w)'
<1> DEFINE r == writer[w].job
           d == IF Opened = None THEN None ELSE Opened.doc
           v == [writer[w] EXCEPT !.pc = "staged", !.base = Opened, !.new = NewDocument(r, d)]
<1>1. writer[w] \in WriterStates /\ WriterOK(writer[w]) /\ writer[w].pc = "locked"
  BY DEF TypeOK, Prepare
<1>2. r \in Releases
  BY <1>1 DEF WriterOK
<1>3. CASE r.kind = "base" \/ (Opened # None /\ Applies(r, Opened.doc))
  <2>1. writer' = [writer EXCEPT ![w] = v]
    BY <1>3 DEF Prepare, TypeOK
  <2>2. /\ v.pc = "staged" /\ v.base = Opened /\ v.new = NewDocument(r, d) /\ v.job = r
        /\ writer'[w] = v
    BY <1>1, <2>1 DEF WriterStates, TypeOK
  <2> HIDE DEF v
  <2>3. v.base = current'.to
    BY <2>2, OpensAtCurrent DEF Prepare, Safe, Traced
  <2>4. Made(w)'
    BY <1>2, <1>3, <2>2 DEF Made
  <2> QED BY <2>2, <2>3, <2>4 DEF WriterTraced
<1>4. CASE ~(r.kind = "base" \/ (Opened # None /\ Applies(r, Opened.doc)))
  BY <1>4 DEF Prepare, Return, TypeOK, IdleWriter
<1> QED BY <1>3, <1>4

\* So does a compaction.
LEMMA TracedPrepareCompaction ==
  ASSUME TypeOK, Safe, Traced, NEW w \in Writers, PrepareCompaction(w)
  PROVE  writer'[w].pc # "idle" => WriterTraced(w)'
<1> DEFINE new == Compaction(Opened.doc)
           v == [writer[w] EXCEPT !.pc = "staged", !.base = Opened, !.new = new]
<1>1. writer[w] \in WriterStates /\ UNCHANGED current
  BY DEF TypeOK, PrepareCompaction
<1>2. CASE Opened = None
  BY <1>2 DEF PrepareCompaction, Return, TypeOK, IdleWriter
<1>3. CASE Opened # None
  <2>1. writer' = [writer EXCEPT ![w] = v]
    BY <1>3, NothingDamaged DEF PrepareCompaction, TypeOK, Compaction
  <2>2. v.pc = "staged" /\ v.base = Opened /\ v.new = new /\ writer'[w] = v
    BY <1>1, <2>1 DEF WriterStates, TypeOK
  <2> HIDE DEF v
  <2>3. v.base = current'.to
    BY <1>1, <2>2, OpensAtCurrent DEF Safe, Traced
  <2>4. Made(w)'
    BY <1>3, <2>2 DEF Made
  <2> QED BY <2>2, <2>3, <2>4 DEF WriterTraced
<1> QED BY <1>2, <1>3

\* A new generation's directory leaves the document it is made for alone.
LEMMA TracedCreateGeneration ==
  ASSUME TypeOK, Safe, Traced, NEW w \in Writers, CreateGeneration(w)
  PROVE  WriterTraced(w)'
<1>1. PICK m \in Numbers : writer' = [writer EXCEPT ![w].pc = "created", ![w].gen = m]
  BY DEF CreateGeneration
<1>2. /\ writer[w] \in WriterStates /\ writer[w].pc = "moved" /\ WriterTraced(w)
      /\ UNCHANGED current
  BY DEF TypeOK, CreateGeneration, Traced
<1> DEFINE v == [writer[w] EXCEPT !.pc = "created", !.gen = m]
<1>3. /\ writer'[w].pc = "created" /\ writer'[w].job = writer[w].job
      /\ writer'[w].base = writer[w].base /\ writer'[w].new = writer[w].new
  <2>1. writer'[w] = v
    BY <1>1 DEF TypeOK
  <2> QED BY <1>2, <2>1 DEF WriterStates
<1> QED BY <1>2, <1>3, MadeStays DEF WriterTraced, Unflipped

\* A writer that moves on without a flip.
LEMMA TracedGoto ==
  ASSUME TypeOK, Traced, NEW w \in Writers, NEW pc, Goto(w, pc),
         writer[w].pc \in Unflipped, UNCHANGED current
  PROVE  WriterTraced(w)'
<1>1. /\ writer'[w].pc = pc /\ writer'[w].job = writer[w].job
      /\ writer'[w].base = writer[w].base /\ writer'[w].new = writer[w].new
  BY GotoKeeps
<1> QED BY <1>1, MadeStays DEF Traced, WriterTraced

\* Judging keeps what the writer knows of its document.
LEMMA TracedJudge ==
  ASSUME TypeOK, Traced, NEW w \in Writers, Judge(w)
  PROVE  writer'[w].pc # "idle" => WriterTraced(w)'
<1>1. CASE Return(w)
  BY <1>1 DEF Return, TypeOK, IdleWriter
<1>2. CASE ~Return(w)
  <2>1. PICK placed :
          writer' = [writer EXCEPT ![w].pc = "judged", ![w].placed = placed]
    BY <1>2 DEF Judge
  <2> DEFINE v == [writer[w] EXCEPT !.pc = "judged", !.placed = placed]
  <2>2. writer[w] \in WriterStates /\ writer[w].pc = "staged" /\ UNCHANGED current
    BY DEF TypeOK, Judge, disk
  <2>3. writer'[w] = v
    BY <2>1 DEF TypeOK
  <2>4. /\ writer'[w].pc = "judged" /\ writer'[w].job = writer[w].job
        /\ writer'[w].base = writer[w].base /\ writer'[w].new = writer[w].new
    BY <2>2, <2>3 DEF WriterStates
  <2> QED BY <2>2, <2>4, MadeStays DEF Traced, WriterTraced, Unflipped
<1> QED BY <1>1, <1>2

\* Every step of a writer keeps what it knows of its document.
LEMMA TracedWriterStep ==
  ASSUME TypeOK, Safe, Traced, LockHeld', NEW w \in Writers, WriterStep(w)
  PROVE  \A x \in Writers : WriterTraced(x)'
<1> DEFINE Goal == (writer'[w].pc # "idle" => WriterTraced(w)') /\ lock' \in {w, None}
<1> SUFFICES Goal
  BY TracedAlone
<1>1. ASSUME NEW pc \in {"locked", "merging"}, NEW job, Begin(w, pc, job) PROVE Goal
  <2>1. writer'[w].pc = pc /\ lock' = w
    BY <1>1 DEF Begin, TypeOK, WriterStates
  <2> QED BY <2>1 DEF WriterTraced, Unflipped
<1>2. CASE Prepare(w)
  BY <1>2, TracedPrepare, Alone DEF Prepare, Return, Safe
<1>3. CASE PrepareCompaction(w)
  BY <1>3, TracedPrepareCompaction, Alone DEF PrepareCompaction, Return, Safe
<1>4. CASE Judge(w)
  BY <1>4, TracedJudge, Alone DEF Judge, Return, Safe
<1>5. CASE Place(w) \/ Settle(w) \/ WriteGeneration(w)
  <2>1. UNCHANGED <<lock, current>> /\ lock = w
    BY <1>5, Alone DEF Place, Settle, WriteGeneration, Goto, Safe
  <2>2. WriterTraced(w)'
    BY <1>5, <2>1, TracedGoto DEF Place, Settle, WriteGeneration, Unflipped
  <2> QED BY <2>1, <2>2
<1>6. CASE CreateGeneration(w)
  BY <1>6, TracedCreateGeneration, Alone DEF CreateGeneration, Safe
<1>7. CASE WritePrevious(w)
  <2>1. UNCHANGED <<lock, current>> /\ lock = w
    BY <1>7, Alone DEF WritePrevious, Goto, Safe
  <2>2. WriterTraced(w)'
    BY <1>7, <2>1, TracedGoto DEF WritePrevious, Unflipped
  <2> QED BY <2>1, <2>2
<1>8. CASE FlipCurrent(w) \/ DiscardPrevious(w)
  <2>1. UNCHANGED lock /\ lock = w
    BY <1>8, Alone DEF FlipCurrent, DiscardPrevious, Goto, Safe
  <2>2. writer'[w].pc \in {"flipped", "discarded"}
    BY <1>8, GotoKeeps DEF FlipCurrent, DiscardPrevious
  <2> QED BY <2>1, <2>2 DEF WriterTraced, Unflipped
<1>9. CASE Return(w)
  BY <1>9 DEF Return, TypeOK, IdleWriter
<1> QED BY <1>1, <1>2, <1>3, <1>4, <1>5, <1>6, <1>7, <1>8, <1>9
        DEF WriterStep, BeginInstall, BeginCompaction, SettleFails, FlipUnflushed, Finish,
            FinishUncollected, Abort, CommitFails, Crash

\* A generation whose document or segments a reader misses is one no pointer names.
LEMMA MissedIsUnnamed ==
  ASSUME PointersHold, NEW p,
         \/ ~Reads(p) \/ Condemned(p.doc)
         \/ ~(p.gen \in DOMAIN gens /\ gens[p.gen].sound /\ Ids(p.doc) \subseteq DOMAIN file)
  PROVE  p \notin Slotted
<1> SUFFICES ASSUME p \in Slotted PROVE FALSE
  OBVIOUS
<1>1. Holds(p) /\ p # None
  BY DEF PointersHold, Slotted
<1>2. Opens(p)
  BY <1>1, HoldsOpens
<1> QED BY <1>2 DEF Opens, Reads

\* A reader's own step keeps what it knows of CURRENT.
LEMMA TracedReaderStep ==
  ASSUME TypeOK, Traced, NEW r \in Readers, ReaderStep(r)
  PROVE  \A x \in Readers : ReaderTraced(x)'
<1>1. \A x \in Readers \ {r} : reader'[x] = reader[x]
  BY DEF ReaderStep, ReadCurrent, ReadPrevious, ReadDocument, MapSegments, Close, GiveUp,
     TypeOK
<1>2. \A x \in Readers \ {r} : ReaderTraced(x)'
  BY <1>1 DEF Traced, ReaderTraced
<1> DEFINE v == reader[r]
           Told(u) == /\ DOMAIN u = {"pc", "cur", "prev", "doc", "served", "opens"}
                      /\ u.pc \in {"first", "firstDoc"} => u.cur # None
                      /\ u.pc = "firstDoc" => u.doc = u.cur
<1>3. Told(v)
  BY DEF Traced, ReaderTraced
<1>4. \E u : reader'[r] = u /\ Told(u)
  <2>1. CASE ReadCurrent(r)
    <3> DEFINE u == [v EXCEPT !.pc = "current", !.cur = Pointer(current),
                              !.opens = Opened # None]
    <3>1. reader'[r] = u
      BY <2>1 DEF ReadCurrent, TypeOK
    <3>2. Told(u)
      BY <1>3
    <3> QED BY <3>1, <3>2
  <2>2. CASE ReadPrevious(r)
    <3> DEFINE u == [v EXCEPT !.prev = Pointer(previous),
                              !.pc = IF v.cur = None THEN "fallback" ELSE "first"]
    <3>1. reader'[r] = u
      BY <2>2 DEF ReadPrevious, TypeOK
    <3>2. Told(u)
      BY <1>3
    <3> QED BY <3>1, <3>2
  <2>3. CASE ReadDocument(r) /\ Reads(Trying(r)) /\ ~Condemned(Trying(r).doc)
    <3> DEFINE u == [v EXCEPT !.doc = Trying(r),
                              !.pc = IF v.pc = "first" THEN "firstDoc" ELSE "fallbackDoc"]
    <3>1. reader'[r] = u /\ v.pc \in {"first", "fallback"}
      BY <1>3, <2>3 DEF ReadDocument, TypeOK
    <3>2. Told(u)
      BY <1>3, <3>1 DEF Trying
    <3> QED BY <3>1, <3>2
  <2>4. CASE reader' = GiveUp(r)
    <3> DEFINE u == [v EXCEPT !.pc = IF v.pc \in {"first", "firstDoc"}
                                     THEN "fallback" ELSE "failed", !.doc = None]
    <3>1. reader'[r] = u
      BY <2>4 DEF GiveUp, TypeOK
    <3>2. Told(u)
      BY <1>3
    <3> QED BY <3>1, <3>2
  <2>5. CASE MapSegments(r) /\ reader' # GiveUp(r)
    <3>1. PICK served : reader' = [reader EXCEPT ![r].pc = "open", ![r].served = served]
      BY <2>5 DEF MapSegments
    <3> DEFINE u == [v EXCEPT !.pc = "open", !.served = served]
    <3>2. reader'[r] = u
      BY <3>1 DEF TypeOK
    <3>3. Told(u)
      BY <1>3
    <3> QED BY <3>2, <3>3
  <2>6. CASE Close(r)
    <3>1. reader'[r] = IdleReader
      BY <2>6 DEF Close, TypeOK
    <3> QED BY <3>1 DEF IdleReader
  <2> QED BY <2>1, <2>2, <2>3, <2>4, <2>5, <2>6 DEF ReaderStep, ReadDocument
<1>5. ReaderTraced(r)'
  BY <1>4 DEF ReaderTraced
<1> QED BY <1>2, <1>5

\* Traced holds until the first fault, as Safe does.
LEMMA TracedAlways ==
  ASSUME FlipsKept
  PROVE  Spec => [](TypeOK /\ (faults = 0 => Safe /\ Traced))
<1>1. Init => Traced
  BY DEF Init, NoPointer, IdleWriter, IdleReader, Traced, WriterTraced, ReaderTraced, Unflipped
<1>2. /\ TypeOK /\ TypeOK' /\ (faults = 0 => Safe) /\ (faults = 0 => Safe)'
      /\ (faults = 0 => Traced) /\ [Next]_vars
      => (faults = 0 => Traced)'
  <2> SUFFICES ASSUME TypeOK, TypeOK', Safe, Safe', Traced, [Next]_vars,
                      faults = 0, faults' = 0
               PROVE  Traced'
    BY FaultsStay
  <2>2. current'.to = None => previous'.to = None
    BY Moves, FlipNames DEF Traced, Slotted
  <2>3. \A w \in Writers : WriterTraced(w)'
    <3>1. CASE \E w \in Writers : WriterStep(w)
      BY <3>1, TracedWriterStep DEF Safe
    <3>2. CASE UNCHANGED <<current, previous, writer>>
      BY <3>2 DEF Traced, WriterTraced, Made
    <3>3. CASE DeviceStep
      BY <3>3, DeviceRests DEF Safe
    <3> QED BY <3>1, <3>2, <3>3
            DEF Next, vars, disk, ScrubStep, ScrubFinds, Condemn, HashAgain, JudgeGenerations,
                SettleCondemned, ScrubStops, ReaderStep, ReadCurrent, ReadPrevious,
                ReadDocument, MapSegments, Close, Download, SessionRecover
  <2>4. \A r \in Readers : ReaderTraced(r)'
    <3>1. CASE \E r \in Readers : ReaderStep(r)
      BY <3>1, TracedReaderStep
    <3>2. CASE UNCHANGED reader
      BY <3>2 DEF Traced, ReaderTraced
    <3>3. CASE DeviceStep
      BY <3>3, DeviceRests DEF Safe
    <3>4. ASSUME NEW w \in Writers, WriterStep(w) PROVE UNCHANGED reader
      BY <3>4, WritersKeep
    <3> QED BY <3>1, <3>2, <3>3, <3>4
            DEF Next, vars, ScrubStep, ScrubFinds, Condemn, HashAgain, JudgeGenerations,
                SettleCondemned, ScrubStops, Download, SessionRecover
  <2> QED BY <2>2, <2>3, <2>4 DEF Traced
<1> QED BY <1>1, <1>2, SafeAlways, PTL DEF Spec

-----------------------------------------------------------------------------
(* What the two invariants say of a step *)

\* While the device keeps what it was given, a session without recovery that
\* turns away from what it read in CURRENT read a generation that neither pointer
\* names any more: another try finds the newer one.
THEOREM FailsOnlyOnceUnnamed ==
  ASSUME FlipsKept
  PROVE  Spec => OpenFailsOnlyOnceUnnamed
<1>1. /\ TypeOK /\ (faults = 0 => Safe /\ Traced) /\ [Next]_vars
      => [\A r \in Readers :
            (/\ faults = 0 /\ reader[r].opens
             /\ reader[r].pc \in {"first", "firstDoc"} /\ reader'[r].pc = "fallback")
            => reader[r].cur \notin {current.to, previous.to}]_vars
  <2> SUFFICES ASSUME TypeOK, faults = 0, Safe, Traced, Next, NEW r \in Readers,
                      reader[r].pc \in {"first", "firstDoc"}, reader'[r].pc = "fallback"
               PROVE  reader[r].cur \notin {current.to, previous.to}
    BY DEF vars
  <2>1. /\ DOMAIN reader[r] = {"pc", "cur", "prev", "doc", "served", "opens"}
        /\ reader[r].cur # None /\ PointersHold
        /\ reader[r].pc = "firstDoc" => reader[r].doc = reader[r].cur
    BY DEF Traced, ReaderTraced, Safe
  <2>2. ReaderStep(r)
    <3>1. ASSUME NEW w \in Writers, WriterStep(w) PROVE UNCHANGED reader
      BY <3>1, WritersKeep
    <3>2. ASSUME NEW s \in Scrubs, ScrubStep(s) PROVE UNCHANGED reader
      BY <3>2 DEF ScrubStep, ScrubFinds, Condemn, HashAgain, JudgeGenerations,
         SettleCondemned, ScrubStops
    <3>3. CASE SessionRecover \/ \E d \in Releases : Download(d)
      BY <3>3 DEF SessionRecover, Download
    <3>4. CASE DeviceStep
      BY <3>4 DEF DeviceStep, Rot, HidePointer, MendPointers, LoseCurrent, DamageDerived
    <3>5. ASSUME NEW x \in Readers, x # r, ReaderStep(x) PROVE reader'[r] = reader[r]
      BY <3>5 DEF ReaderStep, ReadCurrent, ReadPrevious, ReadDocument, MapSegments, Close,
         GiveUp, TypeOK
    <3> QED BY <3>1, <3>2, <3>3, <3>4, <3>5 DEF Next
  <2>3. CASE ReadDocument(r)
    <3>1. ~(Reads(Trying(r)) /\ ~Condemned(Trying(r).doc))
      BY <2>1, <2>3 DEF ReadDocument, TypeOK
    <3>2. Trying(r) = reader[r].cur
      BY <2>3 DEF ReadDocument, Trying
    <3> QED BY <2>1, <3>1, <3>2, MissedIsUnnamed DEF Slotted
  <2>4. CASE MapSegments(r)
    <3> DEFINE p == reader[r].doc
    <3>1. ~(p.gen \in DOMAIN gens /\ gens[p.gen].sound /\ Ids(p.doc) \subseteq DOMAIN file)
      BY <2>1, <2>4 DEF MapSegments, TypeOK
    <3>2. p = reader[r].cur
      BY <2>1, <2>4 DEF MapSegments
    <3> QED BY <2>1, <3>1, <3>2, MissedIsUnnamed DEF Slotted
  <2> QED BY <2>2, <2>3, <2>4 DEF ReaderStep, ReadCurrent, ReadPrevious, Close
<1> QED BY <1>1, TracedAlways, PTL DEF Spec, OpenFailsOnlyOnceUnnamed

\* Where nothing is ever damaged or lost, both invariants hold throughout.
LEMMA ShelteredAlways ==
  ASSUME Sheltered
  PROVE  Spec => [](TypeOK /\ Safe /\ Traced /\ faults = 0)
<1>1. Init => faults = 0
  BY DEF Init
<1>2. TypeOK /\ faults = 0 /\ [Next]_vars => (faults = 0)'
  <2> SUFFICES ASSUME faults = 0, [Next]_vars PROVE faults' = 0
    OBVIOUS
  <2>1. ASSUME NEW w \in Writers, WriterStep(w) PROVE faults' = 0
    BY <2>1, WritersKeep
  <2>2. CASE DeviceStep
    BY <2>2 DEF DeviceStep, Rot, HidePointer, MendPointers, LoseCurrent, DamageDerived,
       Fault, Sheltered, bounded
  <2>3. CASE UNCHANGED faults
    BY <2>3
  <2> QED BY <2>1, <2>2, <2>3
          DEF Next, vars, bounded, ScrubStep, ScrubFinds, Condemn, HashAgain,
              JudgeGenerations, SettleCondemned, ScrubStops, ReaderStep, ReadCurrent,
              ReadPrevious, ReadDocument, MapSegments, Close, Download, SessionRecover
<1>3. Spec => [](faults = 0)
  BY <1>1, <1>2, TypeCorrect, PTL DEF Spec
<1>4. FlipsKept
  BY DEF Sheltered
<1> QED BY <1>3, <1>4, TracedAlways, PTL

\* No step both touches the segments' files and moves a pointer: a download is
\* given back only where no flip happened.
LEMMA FilesOrPointers ==
  ASSUME FlipsKept, TypeOK, [Next]_vars
  PROVE  UNCHANGED file \/ UNCHANGED <<current, previous>>
<1>1. ASSUME NEW w \in Writers, WriterStep(w)
      PROVE  UNCHANGED file \/ UNCHANGED <<current, previous>>
  <2>1. CASE FlipUnflushed(w)
    <3>1. ~writer[w].take
      BY <2>1 DEF FlipUnflushed, FlipsKept, TypeOK, WriterOK
    <3> QED BY <2>1, <3>1 DEF FlipUnflushed, GiveBackDownload
  <2> QED BY <1>1, <2>1
          DEF WriterStep, BeginInstall, BeginCompaction, Begin, Prepare, PrepareCompaction,
              Judge, Place, Settle, SettleFails, CreateGeneration, WriteGeneration,
              WritePrevious, FlipCurrent, DiscardPrevious, Finish, FinishUncollected, Abort,
              CommitFails, Crash, disk
<1>2. CASE DeviceStep
  BY <1>2 DEF DeviceStep, Rot, HidePointer, MendPointers, LoseCurrent, DamageDerived
<1>3. CASE UNCHANGED <<current, previous>>
  BY <1>3
<1> QED BY <1>1, <1>2, <1>3
        DEF Next, vars, disk, ScrubStep, ScrubFinds, Condemn, HashAgain, JudgeGenerations,
            SettleCondemned, ScrubStops, ReaderStep, ReadCurrent, ReadPrevious, ReadDocument,
            MapSegments, Close, Download, SessionRecover

\* Bytes a generation that opens names are never rewritten nor removed: not by a
\* placement, not by a collection, not by what a failure gives back.
THEOREM ServedBytesNeverTouched ==
  ASSUME Sheltered
  PROVE  Spec => ServedBytesStay
<1>1. Safe /\ TypeOK /\ Safe' /\ [Next]_vars
      => [OwnStep => \A id \in DOMAIN file :
            Served(id, file[id]) => id \in DOMAIN file' /\ file'[id] = file[id]]_vars
  <2> SUFFICES ASSUME Safe, TypeOK, Safe', [Next]_vars, NEW id \in DOMAIN file,
                      Served(id, file[id])
               PROVE  id \in DOMAIN file' /\ file'[id] = file[id]
    OBVIOUS
  <2>1. CASE UNCHANGED file
    BY <2>1
  <2>2. CASE UNCHANGED <<current, previous>>
    <3>1. PICK p \in Slotted : \E s \in Elems(p.doc.segs) : s.id = id /\ s.sha = file[id]
      BY SlottedOpens DEF Served, Safe
    <3>2. p \in Slotted' /\ Holds(p)'
      BY <2>2, <3>1 DEF Slotted, Safe, PointersHold
    <3> QED BY <3>1, <3>2 DEF Holds
  <2> QED BY <2>1, <2>2, FilesOrPointers DEF Sheltered
<1> QED BY <1>1, ShelteredAlways, PTL DEF Spec, ServedBytesStay

\* Where the set opens before and after a step.
LEMMA OpenedMoves ==
  ASSUME TypeOK, Safe, Traced, faults = 0, TypeOK', Safe', Traced', faults' = 0, [Next]_vars
  PROVE  /\ Opened = current.to /\ Opened' = current'.to
         /\ current'.to = current.to \/ \E w \in Writers : Flips(w)
<1>1. Opened = current.to
  BY OpensAtCurrent DEF Safe, Traced
<1>2. Opened' = current'.to
  <2>1. Pointer(current)' = current'.to /\ Pointer(previous)' = previous'.to
    BY DEF Safe, PointersHold, Pointer
  <2>2. ASSUME current'.to # None PROVE Opens(current.to)'
    BY <2>2 DEF Safe, PointersHold, Slotted, Holds, Opens, Reads, Condemned, Condemns, Ids
  <2>3. current'.to = None => ~Opens(current.to)' /\ previous'.to = None
    BY DEF Opens, Reads, Traced
  <2> QED BY <2>1, <2>2, <2>3 DEF Opened, Opens, Reads
<1> QED BY <1>1, <1>2, Moves

\* No install, compaction, recovery or crash closes a set that opens, or takes it
\* anywhere but to the generation CURRENT has just come to name.
THEOREM NothingCloses ==
  ASSUME Sheltered
  PROVE  Spec => NeverCloses
<1>1. /\ TypeOK /\ Safe /\ Traced /\ faults = 0
      /\ TypeOK' /\ Safe' /\ Traced' /\ (faults = 0)' /\ [Next]_vars
      => [OwnStep /\ Whole(Opened) =>
            \/ Opened' = Opened
            \/ current' # current /\ Opened' = current'.to /\ Opened' # None]_vars
  <2> SUFFICES ASSUME TypeOK, Safe, Traced, faults = 0, TypeOK', Safe', Traced', faults' = 0,
                      [Next]_vars, Opened' # Opened
               PROVE  current' # current /\ Opened' = current'.to /\ Opened' # None
    OBVIOUS
  <2>1. /\ Opened = current.to /\ Opened' = current'.to
        /\ current'.to = current.to \/ \E w \in Writers : Flips(w)
    BY OpenedMoves
  <2>2. PICK w \in Writers : Flips(w)
    BY <2>1
  <2>3. current'.to # None
    BY <2>2, FlipNames
  <2> QED BY <2>1, <2>3
<1> QED BY <1>1, ShelteredAlways, PTL DEF Spec, NeverCloses

-----------------------------------------------------------------------------
(* The set implements LiveSet *)

\* A document of one segment holds what that segment does.
LEMMA ContentOfOne ==
  ASSUME NEW m, NEW g,
         g.sha \in IF g.kind = "compacted" THEN Seq(Shas) ELSE Shas
  PROVE  LET d == [model |-> m, segs |-> <<g>>]
         IN  /\ Content(d) = IF g.kind = "compacted" THEN g.sha ELSE <<g.sha>>
             /\ Version(d) = g.to
<1> DEFINE d == [model |-> m, segs |-> <<g>>]
<1>1. d.segs = <<g>> /\ d.segs[1] = g /\ Len(d.segs) = 1
  OBVIOUS
<1>2. LaterHeld(d) = <<>>
  BY <1>1 DEF LaterHeld
<1>3. FirstHeld(d) = IF g.kind = "compacted" THEN g.sha ELSE <<g.sha>>
  BY <1>1 DEF FirstHeld
<1>4. Version(d) = g.to
  BY <1>1 DEF Version
<1> HIDE DEF d
<1>5. FirstHeld(d) \in Seq(Shas)
  <2>1. CASE g.kind = "compacted"
    BY <1>3, <2>1
  <2>2. CASE g.kind # "compacted"
    BY <1>3, <2>2
  <2> QED BY <2>1, <2>2
<1>6. FirstHeld(d) \o <<>> = FirstHeld(d)
  BY <1>5, ConcatEmptySeq
<1>7. Content(d) = FirstHeld(d)
  BY <1>2, <1>6 DEF Content, FirstHeld, LaterHeld
<1> QED BY <1>3, <1>4, <1>7 DEF d

\* A document that a delta is appended to holds it after what it held.
LEMMA ContentOfAppend ==
  ASSUME NEW d \in Docs, NEW g \in Segments, g.sha \in Shas, NEW m
  PROVE  LET e == [model |-> m, segs |-> Append(d.segs, g)]
         IN  /\ Content(e) = Append(Content(d), g.sha)
             /\ Version(e) = g.to
<1> DEFINE e == [model |-> m, segs |-> Append(d.segs, g)]
           n == Len(d.segs)
<1>1. /\ d.segs \in Seq(Segments) /\ n \in Nat \ {0}
  BY DocSegments
<1>2. /\ Len(e.segs) = n + 1 /\ e.segs[n + 1] = g
      /\ \A i \in 1..n : e.segs[i] = d.segs[i]
  BY <1>1, AppendProperties
<1> HIDE DEF e
<1>3. FirstHeld(e) = FirstHeld(d)
  BY <1>1, <1>2 DEF FirstHeld
<1>4. LaterHeld(e) = Append(LaterHeld(d), g.sha)
  <2>1. /\ LaterHeld(d) \in Seq(Shas) /\ Len(LaterHeld(d)) = n - 1
        /\ LaterHeld(d) = [i \in 1..(n - 1) |-> d.segs[i + 1].sha]
    BY ContentParts DEF LaterHeld
  <2>2. LaterHeld(e) = [i \in 1..n |-> e.segs[i + 1].sha]
    BY <1>1, <1>2 DEF LaterHeld
  <2>3. /\ Append(LaterHeld(d), g.sha) \in Seq(Shas)
        /\ Len(Append(LaterHeld(d), g.sha)) = n
        /\ \A i \in 1..(n - 1) : Append(LaterHeld(d), g.sha)[i] = LaterHeld(d)[i]
        /\ Append(LaterHeld(d), g.sha)[n] = g.sha
    BY <1>1, <2>1, AppendProperties
  <2>4. \A i \in 1..n : e.segs[i + 1].sha = Append(LaterHeld(d), g.sha)[i]
    <3> SUFFICES ASSUME NEW i \in 1..n
                 PROVE  e.segs[i + 1].sha = Append(LaterHeld(d), g.sha)[i]
      OBVIOUS
    <3>1. CASE i = n
      BY <1>2, <2>3, <3>1
    <3>2. CASE i \in 1..(n - 1)
      <4>1. i + 1 \in 1..n
        BY <1>1, <3>2
      <4> QED BY <1>2, <2>1, <2>3, <3>2, <4>1
    <3>3. i = n \/ i \in 1..(n - 1)
      BY <1>1
    <3> QED BY <3>1, <3>2, <3>3
  <2>5. Append(LaterHeld(d), g.sha) = [i \in 1..n |-> Append(LaterHeld(d), g.sha)[i]]
    BY <2>3, LenProperties
  <2> QED BY <2>2, <2>4, <2>5
<1>5. /\ FirstHeld(d) \in Seq(Shas) /\ LaterHeld(d) \in Seq(Shas) /\ <<g.sha>> \in Seq(Shas)
  BY ContentParts
<1>6. /\ LaterHeld(e) = LaterHeld(d) \o <<g.sha>>
      /\ FirstHeld(d) \o LaterHeld(d) \in Seq(Shas)
  BY <1>4, <1>5, AppendIsConcat, ConcatProperties
<1>7. FirstHeld(e) \o LaterHeld(e) = (FirstHeld(d) \o LaterHeld(d)) \o <<g.sha>>
  BY <1>3, <1>5, <1>6, ConcatAssociative
<1>8. FirstHeld(e) \o LaterHeld(e) = Append(FirstHeld(d) \o LaterHeld(d), g.sha)
  BY <1>6, <1>7, AppendIsConcat
<1>9. Content(e) = Append(Content(d), g.sha)
  BY <1>8 DEF Content, FirstHeld, LaterHeld
<1>10. Version(e) = g.to
  BY <1>2 DEF Version
<1> QED BY <1>9, <1>10 DEF e

\* The library a host answers from while CURRENT names p.
LibraryAt(p) == IF p = None THEN None
                ELSE [model |-> p.doc.model, version |-> Version(p.doc),
                      content |-> Content(p.doc)]

\* A flip replaces the library by a whole base, extends it by a whole delta that
\* starts where it stands, or, after a compaction, leaves it as it was.
LEMMA FlipIsLive ==
  ASSUME TypeOK, Traced, NEW w \in Writers, Flips(w),
         Library = LibraryAt(current.to), Library' = LibraryAt(current'.to)
  PROVE  Live!Next \/ UNCHANGED Library
<1> DEFINE r == writer[w].job
           base == writer[w].base
           new == writer[w].new
<1>1. Made(w) /\ base = current.to
  BY DEF Flips, Traced, WriterTraced, Unflipped
<1>2. Library' = [model |-> new.model, version |-> Version(new), content |-> Content(new)]
  BY FlipNames DEF LibraryAt
<1>3. base # None => base.doc \in Docs
  BY <1>1 DEF TypeOK, Slots, Pointers
<1>4. CASE r \in Releases /\ r.kind = "base" /\ new = [model |-> r.model, segs |-> <<SegmentOf(r)>>]
  <2>1. SegmentOf(r).kind = "base" /\ SegmentOf(r).sha = r.sha /\ SegmentOf(r).to = r.to
    BY <1>4 DEF SegmentOf
  <2>2. r.sha \in Shas
    BY <1>4 DEF Shas
  <2>3. SegmentOf(r).sha \in IF SegmentOf(r).kind = "compacted" THEN Seq(Shas) ELSE Shas
    BY <2>1, <2>2
  <2>4. /\ Content([model |-> r.model, segs |-> <<SegmentOf(r)>>]) = <<r.sha>>
        /\ Version([model |-> r.model, segs |-> <<SegmentOf(r)>>]) = r.to
    BY <2>1, <2>3, ContentOfOne
  <2>5. Content(new) = <<r.sha>> /\ Version(new) = r.to /\ new.model = r.model
    BY <1>4, <2>4
  <2> QED BY <1>2, <1>4, <2>5 DEF Live!Next, Live!Replace
<1>5. CASE /\ r \in Releases /\ r.kind = "delta" /\ base # None /\ Applies(r, base.doc)
           /\ new = [model |-> base.doc.model, segs |-> Append(base.doc.segs, SegmentOf(r))]
  <2>1. SegmentOf(r) \in Segments /\ SegmentOf(r).sha = r.sha /\ SegmentOf(r).to = r.to
        /\ r.sha \in Shas
    BY <1>5, ReleasesAssumption DEF SegmentOf, Segments, Bytes, Shas
  <2> DEFINE e == [model |-> base.doc.model, segs |-> Append(base.doc.segs, SegmentOf(r))]
  <2>2. Content(e) = Append(Content(base.doc), r.sha) /\ Version(e) = r.to
    BY <1>3, <1>5, <2>1, ContentOfAppend
  <2>3. Content(new) = Append(Content(base.doc), r.sha) /\ Version(new) = r.to
    BY <1>5, <2>2
  <2>4. new.model = r.model /\ r.model = base.doc.model /\ r.from = Version(base.doc)
    BY <1>5 DEF Applies
  <2>5. Library = [model |-> base.doc.model, version |-> Version(base.doc),
                   content |-> Content(base.doc)]
    BY <1>1, <1>5 DEF LibraryAt
  <2>6. Library # None
    BY <1>3, <1>5, <2>5, NoneAssumption, DocSegments, ContentType DEF Libraries
  <2>7. Library' = [model |-> r.model, version |-> r.to,
                    content |-> Append(Library.content, r.sha)]
    BY <1>2, <2>3, <2>4, <2>5
  <2>8. r.model = Library.model /\ r.from = Library.version
    BY <2>4, <2>5
  <2>9. r.kind = "delta" /\ r \in Releases
    BY <1>5
  <2> HIDE DEF r, base, new, e
  <2>10. Live!Extend(r)
    BY <2>6, <2>7, <2>8, <2>9 DEF Live!Extend
  <2> QED BY <2>9, <2>10 DEF Live!Next
<1>6. CASE base # None /\ new = Compaction(base.doc)
  <2>1. Content(base.doc) \in Seq(Shas)
    BY <1>3, <1>6, ContentType
  <2>2. /\ Merged(base.doc).kind = "compacted" /\ Merged(base.doc).sha = Content(base.doc)
        /\ Merged(base.doc).to = Version(base.doc)
    BY DEF Merged
  <2>3. /\ Content(Compaction(base.doc)) = Content(base.doc)
        /\ Version(Compaction(base.doc)) = Version(base.doc)
    <3>1. Merged(base.doc).sha
            \in IF Merged(base.doc).kind = "compacted" THEN Seq(Shas) ELSE Shas
      BY <2>1, <2>2
    <3> QED BY <2>2, <3>1, ContentOfOne DEF Compaction
  <2>4. Content(new) = Content(base.doc) /\ Version(new) = Version(base.doc)
        /\ new.model = base.doc.model
    BY <1>6, <2>3 DEF Compaction
  <2> QED BY <1>1, <1>2, <1>6, <2>4 DEF LibraryAt
<1> QED BY <1>1, <1>4, <1>5, <1>6, ReleasesAssumption DEF Made, NewDocument

\* Whatever fails or is cut off, a host answers from a whole library at every
\* step: from the one it had, or from the one a release makes of it.
THEOREM ImplementsLiveSet ==
  ASSUME Sheltered
  PROVE  Spec => Implements
<1>1. Init => Live!Init
  BY DEF Init, NoPointer, Pointer, Opened, Opens, Reads, Library, Live!Init
<1>2. /\ TypeOK /\ Safe /\ Traced /\ faults = 0
      /\ TypeOK' /\ Safe' /\ Traced' /\ (faults = 0)' /\ [Next]_vars
      => [Live!Next]_Library
  <2> SUFFICES ASSUME TypeOK, Safe, Traced, faults = 0, TypeOK', Safe', Traced', faults' = 0,
                      [Next]_vars
               PROVE  Live!Next \/ UNCHANGED Library
    OBVIOUS
  <2>1. Library = LibraryAt(current.to) /\ Library' = LibraryAt(current'.to)
    BY OpenedMoves DEF Library, LibraryAt
  <2>2. CASE current'.to = current.to
    BY <2>1, <2>2
  <2>3. ASSUME NEW w \in Writers, Flips(w) PROVE Live!Next \/ UNCHANGED Library
    BY <2>1, <2>3, FlipIsLive
  <2> QED BY <2>2, <2>3, OpenedMoves
<1> QED BY <1>1, <1>2, ShelteredAlways, PTL DEF Spec, Implements, Live!Spec

-----------------------------------------------------------------------------
(* A failed install does not lose its download. Whatever is damaged, lost or    *)
(* cut off, and whatever the constants are.                                     *)

\* A writer's step takes the lock, gives it up, or goes on under it.
LEMMA LockStep ==
  ASSUME TypeOK, NEW w \in Writers, WriterStep(w)
  PROVE  /\ \A x \in Writers \ {w} : writer'[x] = writer[x]
         /\ \/ /\ \E pc, job : Begin(w, pc, job)
               /\ lock = None /\ lock' = w /\ writer'[w].pc # "idle"
            \/ writer[w].pc # "idle" /\ Return(w) /\ lock' = None /\ writer'[w] = IdleWriter
            \/ writer[w].pc # "idle" /\ UNCHANGED lock /\ writer'[w].pc # "idle"
<1> DEFINE Kept == \A x \in Writers \ {w} : writer'[x] = writer[x]
           On == writer[w].pc # "idle" /\ UNCHANGED lock /\ writer'[w].pc # "idle"
<1>0. writer[w] \in WriterStates /\ DOMAIN writer = Writers
  BY DEF TypeOK
<1>1. ASSUME NEW pc \in {"locked", "merging"}, NEW job, Begin(w, pc, job)
      PROVE  Kept /\ lock = None /\ lock' = w /\ writer'[w].pc # "idle"
  BY <1>0, <1>1 DEF Begin, WriterStates
<1>2. ASSUME Return(w) PROVE Kept /\ lock' = None /\ writer'[w] = IdleWriter
  BY <1>0, <1>2 DEF Return
<1>3. ASSUME NEW pc, pc # "idle", Goto(w, pc), writer[w].pc # "idle" PROVE Kept /\ On
  BY <1>0, <1>3 DEF Goto, WriterStates
<1>4. CASE Prepare(w)
  <2>1. CASE Return(w)
    BY <1>2, <1>4, <2>1 DEF Prepare
  <2>2. CASE ~Return(w)
    BY <1>0, <1>4, <2>2 DEF Prepare, WriterStates
  <2> QED BY <2>1, <2>2
<1>5. CASE PrepareCompaction(w)
  <2>1. CASE Return(w)
    BY <1>2, <1>5, <2>1 DEF PrepareCompaction
  <2>2. CASE ~Return(w)
    BY <1>0, <1>5, <2>2 DEF PrepareCompaction, WriterStates
  <2> QED BY <2>1, <2>2
<1>6. CASE Judge(w)
  <2>1. CASE Return(w)
    BY <1>2, <1>6, <2>1 DEF Judge
  <2>2. CASE ~Return(w)
    BY <1>0, <1>6, <2>2 DEF Judge, WriterStates
  <2> QED BY <2>1, <2>2
<1>7. CASE CreateGeneration(w)
  BY <1>0, <1>7 DEF CreateGeneration, WriterStates
<1>8. CASE \/ Place(w) \/ Settle(w) \/ WriteGeneration(w) \/ WritePrevious(w)
           \/ FlipCurrent(w) \/ DiscardPrevious(w)
  BY <1>3, <1>8 DEF Place, Settle, WriteGeneration, WritePrevious, FlipCurrent, DiscardPrevious
<1>9. CASE \/ SettleFails(w) \/ FlipUnflushed(w) \/ Finish(w) \/ FinishUncollected(w)
           \/ Abort(w) \/ CommitFails(w) \/ Crash(w)
  BY <1>2, <1>9 DEF SettleFails, FlipUnflushed, Finish, FinishUncollected, Abort,
     CommitFails, Crash
<1> QED BY <1>1, <1>4, <1>5, <1>6, <1>7, <1>8, <1>9 DEF WriterStep, BeginInstall, BeginCompaction

\* No other step concerns a writer.
LEMMA OthersKeep ==
  ASSUME [Next]_vars, ~\E w \in Writers : WriterStep(w)
  PROVE  UNCHANGED <<lock, writer>> /\ incoming \subseteq incoming'
BY DEF Next, vars, disk, ScrubStep, ScrubFinds, Condemn, HashAgain, JudgeGenerations,
   SettleCondemned, ScrubStops, ReaderStep, ReadCurrent, ReadPrevious, ReadDocument,
   MapSegments, Close, Download, SessionRecover, DeviceStep, Rot, HidePointer, MendPointers,
   LoseCurrent, DamageDerived

\* One writer at a time, whatever happens to the device.
LEMMA LockAlways == Spec => []LockHeld
<1>1. Init => LockHeld
  BY WritersAssumption DEF Init, IdleWriter, LockHeld, Writers
<1>2. TypeOK /\ LockHeld /\ [Next]_vars => LockHeld'
  <2> SUFFICES ASSUME TypeOK, LockHeld, [Next]_vars PROVE LockHeld'
    OBVIOUS
  <2>1. ASSUME NEW w \in Writers, WriterStep(w) PROVE LockHeld'
    BY <2>1, LockStep, WritersAssumption DEF LockHeld, Writers, IdleWriter
  <2>2. CASE UNCHANGED <<lock, writer>>
    BY <2>2 DEF LockHeld
  <2> QED BY <2>1, <2>2, OthersKeep
<1> QED BY <1>1, <1>2, TypeCorrect, PTL DEF Spec

\* A download lies in incoming/ while an install that takes it has not moved it.
Unmoved(w) == \/ writer[w].pc \in {"locked", "staged", "judged"}
              \/ writer[w].pc \in Commits \cup {"placed"} /\ writer[w].placed = "kept"
Takes(w) == /\ writer[w].pc \in {"idle", "merging"} => ~writer[w].take
            /\ writer[w].take /\ Unmoved(w) => writer[w].job \in incoming

\* Each step of the writer that holds the lock.
LEMMA TakesStep ==
  ASSUME TypeOK, NEW w \in Writers, Takes(w), WriterStep(w)
  PROVE  Takes(w)'
<1> DEFINE v == writer[w]
           u == writer'[w]
<1>0. v \in WriterStates /\ DOMAIN writer = Writers
  BY DEF TypeOK
<1>1. CASE u = IdleWriter
  BY <1>1 DEF Takes, IdleWriter, Unmoved, Commits
<1>2. ASSUME NEW r \in Releases, BeginInstall(w, r) PROVE Takes(w)'
  <2>1. u.pc = "locked" /\ u.job = r /\ u.take = (r \in Downloads) /\ incoming' = incoming
    BY <1>0, <1>2 DEF BeginInstall, Begin, WriterStates
  <2> QED BY <1>2, <2>1 DEF Takes, BeginInstall
<1>3. CASE BeginCompaction(w)
  <2>1. u.pc = "merging" /\ u.take = (None \in Downloads)
    BY <1>0, <1>3 DEF BeginCompaction, Begin, WriterStates
  <2> QED BY <2>1, NoneAssumption, DownloadsAssumption DEF Takes, Unmoved, Commits
<1>4. ASSUME NEW pc, Goto(w, pc),
             u.take /\ Unmoved(w)' => Unmoved(w) /\ incoming \subseteq incoming',
             pc \notin {"idle", "merging"}
      PROVE  Takes(w)'
  BY <1>4, GotoKeeps DEF Takes
<1>5. CASE Prepare(w)
  <2>1. CASE Return(w)
    BY <1>0, <1>1, <2>1 DEF Return
  <2>2. CASE ~Return(w)
    <3>1. /\ v.pc = "locked" /\ u.pc = "staged" /\ u.take = v.take /\ u.job = v.job
          /\ incoming' = incoming
      BY <1>0, <1>5, <2>2 DEF Prepare, WriterStates
    <3> QED BY <3>1 DEF Takes, Unmoved
  <2> QED BY <2>1, <2>2
<1>6. CASE PrepareCompaction(w)
  <2>1. CASE Return(w)
    BY <1>0, <1>1, <2>1 DEF Return
  <2>2. CASE ~Return(w)
    <3>1. v.pc = "merging" /\ u.pc = "staged" /\ u.take = v.take
      BY <1>0, <1>6, <2>2 DEF PrepareCompaction, WriterStates
    <3> QED BY <3>1 DEF Takes
  <2> QED BY <2>1, <2>2
<1>7. CASE Judge(w)
  <2>1. CASE Return(w)
    BY <1>0, <1>1, <2>1 DEF Return
  <2>2. CASE ~Return(w)
    <3>1. /\ v.pc = "staged" /\ u.pc = "judged" /\ u.take = v.take /\ u.job = v.job
          /\ incoming' = incoming
      BY <1>0, <1>7, <2>2 DEF Judge, WriterStates, disk
    <3> QED BY <3>1 DEF Takes, Unmoved
  <2> QED BY <2>1, <2>2
<1>8. CASE Place(w)
  <2>1. Goto(w, "placed") /\ v.pc = "judged"
        /\ (v.placed = "kept" => incoming' = incoming)
    BY <1>8 DEF Place
  <2>2. u.pc = "placed" /\ u.placed = v.placed
    BY <2>1, GotoKeeps
  <2> QED BY <1>4, <2>1, <2>2 DEF Unmoved, Commits
<1>9. CASE CreateGeneration(w)
  <2>1. /\ v.pc = "moved" /\ u.pc = "created" /\ u.take = v.take /\ u.job = v.job
        /\ u.placed = v.placed /\ incoming' = incoming
    BY <1>0, <1>9 DEF CreateGeneration, WriterStates
  <2> QED BY <2>1 DEF Takes, Unmoved, Commits
<1>10. CASE Settle(w) \/ WriteGeneration(w) \/ WritePrevious(w)
  <2>1. PICK pc \in {"moved", "written", "previous"} : Goto(w, pc)
    BY <1>10 DEF Settle, WriteGeneration, WritePrevious
  <2>2. /\ v.pc \in Commits \cup {"placed"} /\ incoming' = incoming
    BY <1>10 DEF Settle, WriteGeneration, WritePrevious, Commits
  <2>3. u.pc = pc /\ u.placed = v.placed
    BY <2>1, GotoKeeps
  <2>4. Unmoved(w)' => Unmoved(w)
    BY <2>1, <2>2, <2>3 DEF Unmoved
  <2> QED BY <1>4, <2>1, <2>2, <2>4
<1>11. CASE FlipCurrent(w) \/ DiscardPrevious(w)
  <2>1. PICK pc \in {"flipped", "discarded"} : Goto(w, pc)
    BY <1>11 DEF FlipCurrent, DiscardPrevious
  <2>2. u.pc = pc
    BY <2>1, GotoKeeps
  <2> QED BY <2>2 DEF Takes, Unmoved, Commits
<1>12. CASE \/ SettleFails(w) \/ FlipUnflushed(w) \/ Finish(w) \/ FinishUncollected(w)
            \/ Abort(w) \/ CommitFails(w) \/ Crash(w)
  BY <1>0, <1>1, <1>12 DEF SettleFails, FlipUnflushed, Finish, FinishUncollected, Abort,
     CommitFails, Crash, Return
<1> QED BY <1>2, <1>3, <1>5, <1>6, <1>7, <1>8, <1>9, <1>10, <1>11, <1>12 DEF WriterStep

\* An install's new segment is the release it was given, and its file is there
\* from the placement on, if damaged meanwhile.
Laid(w) == LET n == NewSegment(w) IN n.id \in DOMAIN file /\ file[n.id] \in {n.sha, Damaged}
Lays(w) ==
  /\ writer[w].job \in Downloads => writer[w].take
  /\ writer[w].take /\ writer[w].pc \in Unflipped \cup {"flipped", "discarded"}
       => NewSegment(w) = SegmentOf(writer[w].job)
  /\ writer[w].pc \in Unflipped \ {"staged"} => writer[w].placed \in {"new", "kept", "replaced"}
  /\ writer[w].pc \in Commits \cup {"placed"} /\ writer[w].placed # "kept" => Laid(w)

LEMMA NewDocumentEnds ==
  ASSUME NEW r \in Releases, NEW d, r.kind = "base" \/ d \in Docs
  PROVE  LET new == NewDocument(r, d) IN new.segs[Len(new.segs)] = SegmentOf(r)
<1>1. CASE r.kind = "base"
  BY <1>1 DEF NewDocument
<1>2. CASE d \in Docs /\ r.kind # "base"
  <2>1. d.segs \in Seq(Segments) /\ SegmentOf(r) \in Segments
    BY <1>2, DocSegments, ReleasesAssumption DEF SegmentOf, Segments, Bytes, Shas
  <2> QED BY <1>2, <2>1, AppendProperties DEF NewDocument
<1> QED BY <1>1, <1>2

\* Each step of the writer that holds the lock.
LEMMA LaysStep ==
  ASSUME TypeOK, NEW w \in Writers, Takes(w), Lays(w), WriterStep(w)
  PROVE  Lays(w)'
<1> DEFINE v == writer[w]
           u == writer'[w]
<1>0. v \in WriterStates /\ DOMAIN writer = Writers
  BY DEF TypeOK
<1>1. CASE u = IdleWriter
  BY <1>1, NoneAssumption, DownloadsAssumption DEF Lays, IdleWriter, Unflipped, Commits
<1>2. CASE Return(w)
  BY <1>0, <1>1, <1>2 DEF Return
<1>3. ASSUME NEW pc \in {"locked", "merging"}, NEW job, Begin(w, pc, job) PROVE Lays(w)'
  <2>1. u.pc = pc /\ u.job = job /\ u.take = (job \in Downloads)
    BY <1>0, <1>3 DEF Begin, WriterStates
  <2> QED BY <2>1 DEF Lays, Unflipped, Commits
<1>4. CASE Prepare(w)
  <2>1. CASE ~Return(w)
    <3> DEFINE d == IF Opened = None THEN None ELSE Opened.doc
    <3>1. /\ v.job \in Releases /\ (v.job.kind = "base" \/ d \in Docs)
          /\ u.pc = "staged" /\ u.job = v.job /\ u.take = v.take /\ u.new = NewDocument(v.job, d)
      BY <1>0, <1>4, <2>1, OpenedType DEF Prepare, WriterStates, TypeOK, WriterOK
    <3> HIDE DEF d
    <3>2. NewSegment(w)' = SegmentOf(u.job)
      BY <3>1, NewDocumentEnds DEF NewSegment
    <3> QED BY <3>1, <3>2 DEF Lays, Commits
  <2> QED BY <1>2, <2>1
<1>5. CASE PrepareCompaction(w)
  <2>1. CASE ~Return(w)
    <3>1. u.pc = "staged" /\ u.take = v.take /\ u.job = v.job /\ v.pc = "merging"
      BY <1>0, <1>5, <2>1 DEF PrepareCompaction, WriterStates
    <3> QED BY <3>1 DEF Lays, Takes, Commits
  <2> QED BY <1>2, <2>1
<1>6. CASE Judge(w)
  <2>1. CASE ~Return(w)
    <3>1. PICK placed \in {"new", "kept", "replaced"} :
            writer' = [writer EXCEPT ![w].pc = "judged", ![w].placed = placed]
      BY <1>6, <2>1 DEF Judge
    <3>2. /\ v.pc = "staged" /\ u.pc = "judged" /\ u.placed = placed /\ u.take = v.take
          /\ u.job = v.job /\ u.new = v.new
      BY <1>0, <1>6, <3>1 DEF Judge, WriterStates
    <3> QED BY <3>2 DEF Lays, NewSegment, Unflipped, Commits
  <2> QED BY <1>2, <2>1
<1>7. CASE Place(w)
  <2>1. /\ v.pc = "judged" /\ Goto(w, "placed")
        /\ v.placed # "kept" => file' = Put(file, NewSegment(w).id, NewSegment(w).sha)
    BY <1>7 DEF Place
  <2>2. v.placed # "kept" => Laid(w)'
    BY <2>1, GotoKeeps DEF Laid, Put
  <2> QED BY <2>1, <2>2, GotoKeeps DEF Lays, Unflipped
<1>8. CASE Settle(w) \/ WriteGeneration(w) \/ WritePrevious(w)
  <2>1. PICK pc \in {"moved", "written", "previous"} : Goto(w, pc)
    BY <1>8 DEF Settle, WriteGeneration, WritePrevious
  <2>2. v.pc \in Commits \cup {"placed"} /\ UNCHANGED file
    BY <1>8 DEF Settle, WriteGeneration, WritePrevious, Commits
  <2> QED BY <2>1, <2>2, GotoKeeps DEF Lays, Laid, Unflipped, Commits
<1>9. CASE CreateGeneration(w)
  <2>1. /\ v.pc = "moved" /\ u.pc = "created" /\ u.take = v.take /\ u.job = v.job
        /\ u.placed = v.placed /\ u.new = v.new /\ UNCHANGED file
    BY <1>0, <1>9 DEF CreateGeneration, WriterStates
  <2> QED BY <2>1 DEF Lays, Laid, NewSegment, Unflipped, Commits
<1>10. CASE FlipCurrent(w) \/ DiscardPrevious(w)
  <2>1. PICK pc \in {"flipped", "discarded"} : Goto(w, pc)
    BY <1>10 DEF FlipCurrent, DiscardPrevious
  <2>2. v.pc \in Unflipped \cup {"flipped"}
    BY <1>10 DEF FlipCurrent, DiscardPrevious, Unflipped
  <2> QED BY <2>1, <2>2, GotoKeeps DEF Lays, Unflipped, Commits
<1> QED BY <1>2, <1>3, <1>4, <1>5, <1>6, <1>7, <1>8, <1>9, <1>10
        DEF WriterStep, BeginInstall, BeginCompaction, SettleFails, FlipUnflushed, Finish,
            FinishUncollected, Abort, CommitFails, Crash

\* While a writer holds the lock, no other step takes a segment's file away.
LEMMA OthersSpare ==
  ASSUME [Next]_vars, ~\E w \in Writers : WriterStep(w), lock # None
  PROVE  \A k \in DOMAIN file : k \in DOMAIN file' /\ file'[k] \in {file[k], Damaged}
BY DEF Next, vars, disk, ScrubStep, ScrubFinds, Condemn, HashAgain, JudgeGenerations,
   SettleCondemned, ScrubStops, ReaderStep, ReadCurrent, ReadPrevious, ReadDocument,
   MapSegments, Close, Download, SessionRecover, DeviceStep, Rot, HidePointer, MendPointers,
   LoseCurrent, DamageDerived

LEMMA TakesAlways ==
  Spec => [](TypeOK /\ LockHeld /\ \A w \in Writers : Takes(w) /\ Lays(w))
<1>1. Init => \A w \in Writers : Takes(w) /\ Lays(w)
  BY NoneAssumption, DownloadsAssumption DEF Init, IdleWriter, Takes, Lays, Unflipped, Commits
<1>2. TypeOK /\ LockHeld /\ (\A w \in Writers : Takes(w) /\ Lays(w)) /\ [Next]_vars
      => (\A w \in Writers : Takes(w) /\ Lays(w))'
  <2> SUFFICES ASSUME TypeOK, LockHeld, \A w \in Writers : Takes(w) /\ Lays(w), [Next]_vars
               PROVE  \A w \in Writers : (Takes(w) /\ Lays(w))'
    OBVIOUS
  <2>1. ASSUME NEW w \in Writers, writer[w].pc = "idle", writer'[w] = writer[w]
        PROVE  (Takes(w) /\ Lays(w))'
    BY <2>1 DEF Takes, Lays, Unmoved, Unflipped, Commits
  <2>2. ASSUME NEW w \in Writers, WriterStep(w)
        PROVE  \A x \in Writers : (Takes(x) /\ Lays(x))'
    <3>1. (Takes(w) /\ Lays(w))'
      BY <2>2, TakesStep, LaysStep
    <3>2. ASSUME NEW x \in Writers \ {w} PROVE (Takes(x) /\ Lays(x))'
      <4>1. writer'[x] = writer[x] /\ writer[x].pc = "idle"
        BY <2>2, LockStep, WritersAssumption DEF LockHeld, Writers
      <4> QED BY <2>1, <4>1
    <3> QED BY <3>1, <3>2
  <2>3. CASE ~\E w \in Writers : WriterStep(w)
    <3> SUFFICES ASSUME NEW x \in Writers PROVE (Takes(x) /\ Lays(x))'
      OBVIOUS
    <3>1. UNCHANGED writer /\ incoming \subseteq incoming'
      BY <2>3, OthersKeep
    <3>2. CASE writer[x].pc = "idle"
      BY <2>1, <3>1, <3>2
    <3>3. CASE writer[x].pc # "idle"
      <4>1. lock # None
        BY <3>3, WritersAssumption DEF LockHeld, Writers
      <4>2. \A k \in DOMAIN file : k \in DOMAIN file' /\ file'[k] \in {file[k], Damaged}
        BY <2>3, <4>1, OthersSpare
      <4>3. Laid(x) => Laid(x)'
        BY <3>1, <4>2 DEF Laid, NewSegment
      <4> QED BY <3>1, <4>3 DEF Takes, Lays, Unmoved, NewSegment
    <3> QED BY <3>2, <3>3
  <2> QED BY <2>2, <2>3
<1> QED BY <1>1, <1>2, TypeCorrect, LockAlways, PTL DEF Spec

\* An install that fails before its flip, at whatever step and for whatever
\* reason short of a crash, leaves the download in incoming/ for a retry or, once
\* it was taken and cannot be moved back, in the file of its segment.
THEOREM FailuresKeepDownloads == Spec => FailedInstallKeepsDownload
<1>1. /\ TypeOK /\ LockHeld /\ (\A w \in Writers : Takes(w) /\ Lays(w)) /\ [Next]_vars
      => [\A w \in Writers :
            LET r == writer[w].job IN
            (/\ writer[w].take /\ writer[w].pc \notin {"flipped", "discarded"}
             /\ writer'[w].pc = "idle" /\ crashes' = crashes)
            => \/ r \in incoming'
               \/ /\ writer[w].placed \in {"new", "replaced"}
                  /\ r.id \in DOMAIN file' /\ file'[r.id] \in {r.sha, Damaged}]_vars
  <2> SUFFICES ASSUME TypeOK, LockHeld, NEW w \in Writers, Takes(w), Lays(w), [Next]_vars,
                      writer[w].take, writer[w].pc \notin {"flipped", "discarded"},
                      writer'[w].pc = "idle", crashes' = crashes, NEW r, r = writer[w].job,
                      r \notin incoming'
               PROVE  /\ writer[w].placed \in {"new", "replaced"}
                      /\ r.id \in DOMAIN file' /\ file'[r.id] \in {r.sha, Damaged}
    OBVIOUS
  <2>1. writer[w].pc \notin {"idle", "merging"} /\ writer[w] \in WriterStates
    BY DEF Takes, TypeOK
  <2>2. WriterStep(w)
    <3>1. ASSUME NEW x \in Writers \ {w}, WriterStep(x) PROVE FALSE
      BY <2>1, <3>1, LockStep
    <3> QED BY <2>1, <3>1, OthersKeep
  <2>3. Return(w) /\ ~\E pc, job : Begin(w, pc, job)
    BY <2>1, <2>2, LockStep DEF Begin
  <2>4. /\ ~Crash(w) /\ ~CreateGeneration(w)
        /\ \A pc : Goto(w, pc) => pc = "idle"
    BY <2>1, BoundsAssumption DEF Crash, CreateGeneration, Goto, TypeOK, WriterStates
  <2>5. CASE Prepare(w) \/ PrepareCompaction(w) \/ Judge(w) \/ Abort(w)
    <3>1. Unmoved(w) /\ incoming' = incoming
      BY <2>1, <2>5 DEF Prepare, PrepareCompaction, Judge, Abort, disk, Unmoved
    <3> QED BY <3>1 DEF Takes
  <2>6. CASE SettleFails(w) \/ CommitFails(w) \/ FlipUnflushed(w)
    <3>1. writer[w].pc \in Commits \cup {"placed"}
      BY <2>6 DEF SettleFails, CommitFails, FlipUnflushed, Commits
    <3>2. CASE writer[w].placed = "kept"
      <4>1. Unmoved(w) /\ incoming' = incoming
        BY <2>6, <3>1, <3>2 DEF SettleFails, CommitFails, FlipUnflushed, GiveBackDownload, Unmoved
      <4> QED BY <4>1 DEF Takes
    <3>3. CASE writer[w].placed # "kept"
      <4>1. UNCHANGED file
        BY <2>6, <3>3 DEF SettleFails, CommitFails, FlipUnflushed, GiveBackDownload, GiveBack
      <4>2. /\ NewSegment(w) = SegmentOf(r) /\ Laid(w)
            /\ writer[w].placed \in {"new", "kept", "replaced"}
        BY <3>1, <3>3 DEF Lays, Unflipped, Commits
      <4>3. r.id \in DOMAIN file /\ file[r.id] \in {r.sha, Damaged}
        BY <4>2 DEF Laid, SegmentOf
      <4> QED BY <2>1, <3>3, <4>1, <4>2, <4>3 DEF WriterStates
    <3> QED BY <3>2, <3>3
  <2> QED BY <2>2, <2>3, <2>4, <2>5, <2>6 DEF WriterStep, BeginInstall, BeginCompaction, Place,
          Settle, WriteGeneration, WritePrevious, FlipCurrent, DiscardPrevious, Finish,
          FinishUncollected
<1> QED BY <1>1, TakesAlways, PTL DEF Spec, FailedInstallKeepsDownload

-----------------------------------------------------------------------------
(* Verdicts that damage left behind. Whatever is damaged, lost or cut off, and  *)
(* whatever the constants are.                                                  *)

\* A verdict on damaged bytes that stands against a file of other bytes.
Outdated(id) == /\ id \in DOMAIN verdict /\ verdict[id] = Damaged
                /\ id \in DOMAIN file /\ file[id] # Damaged

\* What a scrub found instead of the damage it condemned is not damaged.
ScrubOK(s) == /\ DOMAIN scrub[s] = {"pc", "id", "held", "settle"}
              /\ scrub[s].pc \in {"superseded", "settling"} => scrub[s].held # Damaged

\* What a compaction or a scrub condemns is damaged.
LEMMA Smallest ==
  ASSUME NEW T, T \subseteq Nat, T # {}
  PROVE  \E i \in T : \A j \in T : i <= j
<1> DEFINE less == {ss \in Nat \X Nat : ss[1] < ss[2]}
<1>1. IsWellFoundedOn(less, Nat)
  BY NatLessThanWellFounded DEF OpToRel
<1>2. \E i \in T : \A j \in T : ~(<<j, i>> \in less)
  <2> HIDE DEF less
  <2> QED BY <1>1, WFMin
<1>3. \A i, j \in Nat : ~(<<j, i>> \in less) => i <= j
  <2> SUFFICES ASSUME NEW i \in Nat, NEW j \in Nat, ~(<<j, i>> \in less) PROVE i <= j
    OBVIOUS
  <2>1. <<j, i>> \in Nat \X Nat /\ <<j, i>>[1] = j /\ <<j, i>>[2] = i
    OBVIOUS
  <2>2. ~(j < i)
    BY <2>1
  <2> QED BY <2>2
<1> HIDE DEF less
<1> QED BY <1>2, <1>3

LEMMA FoundIsDamaged ==
  ASSUME NEW d \in Docs, FirstDamaged(d) # None
  PROVE  /\ \E i \in DOMAIN d.segs : d.segs[i].id = FirstDamaged(d)
         /\ file[FirstDamaged(d)] = Damaged
<1> DEFINE bad == {i \in DOMAIN d.segs : file[d.segs[i].id] = Damaged}
           first == CHOOSE i \in bad : \A j \in bad : i <= j
<1>1. bad # {}
  BY DEF FirstDamaged
<1>2. bad \subseteq Nat
  BY DocSegments
<1> HIDE DEF bad
<1>3. first \in bad
  BY <1>1, <1>2, Smallest
<1>4. FirstDamaged(d) = d.segs[first].id
  BY <1>1 DEF FirstDamaged, bad
<1> QED BY <1>3, <1>4 DEF bad

\* The bytes of a segment a writer placed are not damaged.
LEMMA NewIsWhole ==
  ASSUME TypeOK, NEW w \in Writers, writer[w].pc \in Unflipped
  PROVE  NewSegment(w).sha \in Bytes /\ NewSegment(w).sha # Damaged
<1> DEFINE d == writer[w].new
<1>1. d \in Docs
  BY DEF TypeOK, WriterOK
<1>2. Len(d.segs) \in 1..Len(d.segs)
  BY <1>1, DocSegments
<1>3. d.segs[Len(d.segs)] \in Segments
  BY <1>1, <1>2, DocSegments
<1> QED BY <1>3, DamagedAssumption DEF NewSegment, Segments

\* Settling a verdict leaves none on damaged bytes for that segment, and no new one.
LEMMA SettledIsNotDamaged ==
  ASSUME NEW id, NEW bytes, bytes # Damaged, NEW k,
         k \in DOMAIN SettledVerdict(id, bytes),
         SettledVerdict(id, bytes)[k] = Damaged
  PROVE  k # id /\ k \in DOMAIN verdict /\ verdict[k] = Damaged
BY DEF SettledVerdict, Put, Without, Restrict

\* A step that condemns nothing and places nothing makes no verdict outdated.
LEMMA OutdatedShrinks ==
  ASSUME \A k \in DOMAIN file' : k \in DOMAIN file /\ file'[k] \in {file[k], Damaged},
         \A k \in DOMAIN verdict' : k \in DOMAIN verdict /\ verdict'[k] = verdict[k],
         NEW id, Outdated(id)'
  PROVE  Outdated(id)
BY DEF Outdated

\* A writer makes a verdict outdated by a placement only, which it settles next,
\* unless it ends there.
LEMMA OutdatedWriterStep ==
  ASSUME TypeOK, NEW w \in Writers, WriterStep(w), NEW id, Outdated(id)'
  PROVE  /\ Outdated(id) \/ AtVerdict(w, id)'
         /\ AtVerdict(w, id) => writer'[w].pc = "idle"
<1>0. PICK n : n = NewSegment(w)
  OBVIOUS
<1>1. ASSUME writer[w].pc # "placed",
             \A k \in DOMAIN file' : k \in DOMAIN file /\ file'[k] = file[k],
             \A k \in DOMAIN verdict' : k \in DOMAIN verdict /\ verdict'[k] = verdict[k]
      PROVE  Outdated(id) /\ ~AtVerdict(w, id)
  BY <1>1, OutdatedShrinks DEF AtVerdict
<1>2. ASSUME NEW pc, NEW job, Begin(w, pc, job) PROVE Outdated(id) /\ ~AtVerdict(w, id)
  BY <1>1, <1>2 DEF Begin, Recover, CollectGarbage, Restrict
<1>3. CASE PrepareCompaction(w)
  <2>1. CASE UNCHANGED verdict
    BY <1>1, <1>3, <2>1 DEF PrepareCompaction
  <2>2. CASE ~UNCHANGED verdict
    <3> DEFINE bad == FirstDamaged(Opened.doc)
    <3>1. /\ Opened # None /\ bad # None /\ verdict' = Put(verdict, bad, Damaged)
          /\ UNCHANGED file /\ writer[w].pc # "placed"
      BY <1>3, <2>2 DEF PrepareCompaction
    <3>2. file[bad] = Damaged
      BY <3>1, OpenedType, FoundIsDamaged
    <3> QED BY <3>1, <3>2 DEF Outdated, Put, AtVerdict
  <2> QED BY <2>1, <2>2
<1>4. CASE Place(w)
  <2>1. /\ writer[w].pc = "judged" /\ Goto(w, "placed") /\ UNCHANGED verdict
        /\ file' = IF writer[w].placed = "kept" THEN file ELSE Put(file, n.id, n.sha)
    BY <1>0, <1>4 DEF Place
  <2>2. CASE writer[w].placed = "kept"
    BY <1>1, <2>1, <2>2
  <2>3. CASE writer[w].placed # "kept"
    <3>1. AtVerdict(w, n.id)'
      BY <1>0, <2>1, <2>3, GotoKeeps DEF AtVerdict
    <3>2. id # n.id => Outdated(id)
      BY <2>1, <2>3 DEF Outdated, Put
    <3> QED BY <2>1, <3>1, <3>2 DEF AtVerdict
  <2> QED BY <2>2, <2>3
<1>5. CASE Settle(w) \/ SettleFails(w)
  <2>1. /\ writer[w].pc = "placed"
        /\ verdict' \in {verdict, SettledVerdict(n.id, n.sha)}
        /\ \A k \in DOMAIN file' : k \in DOMAIN file /\ file'[k] = file[k]
    BY <1>0, <1>5 DEF Settle, SettleFails, GiveBack, Without, Restrict
  <2>2. n.sha # Damaged
    BY <1>0, <2>1, NewIsWhole DEF Unflipped
  <2>3. Outdated(id)
    BY <2>1, <2>2, SettledIsNotDamaged DEF Outdated
  <2>4. ASSUME AtVerdict(w, id) PROVE writer'[w].pc = "idle"
    <3>1. id = n.id
      BY <1>0, <2>4 DEF AtVerdict
    <3>2. verdict' # SettledVerdict(n.id, n.sha)
      BY <2>2, <3>1, SettledIsNotDamaged DEF Outdated
    <3>3. SettleFails(w)
      BY <1>0, <1>5, <3>2 DEF Settle
    <3> QED BY <3>3 DEF SettleFails, Return, TypeOK, IdleWriter
  <2> QED BY <2>3, <2>4
<1>6. CASE CommitFails(w) \/ FlipUnflushed(w)
  <2>1. /\ writer[w].pc # "placed" /\ UNCHANGED verdict
        /\ \A k \in DOMAIN file' : k \in DOMAIN file /\ file'[k] = file[k]
    BY <1>6 DEF CommitFails, FlipUnflushed, GiveBackDownload, GiveBack, Without, Restrict
  <2> QED BY <1>1, <2>1
<1>7. CASE Crash(w)
  <2>1. UNCHANGED <<file, verdict>> /\ writer'[w].pc = "idle"
    BY <1>7 DEF Crash, disk, Return, TypeOK, IdleWriter
  <2> QED BY <2>1 DEF Outdated
<1>8. CASE Finish(w)
  BY <1>1, <1>8 DEF Finish, CollectGarbage, Restrict
<1>9. CASE \/ Prepare(w) \/ Judge(w) \/ CreateGeneration(w) \/ WriteGeneration(w)
           \/ WritePrevious(w) \/ FlipCurrent(w) \/ DiscardPrevious(w)
           \/ FinishUncollected(w) \/ Abort(w)
  BY <1>1, <1>9 DEF Prepare, Judge, CreateGeneration, WriteGeneration, WritePrevious,
     FlipCurrent, DiscardPrevious, FinishUncollected, Abort, disk
<1> QED BY <1>2, <1>3, <1>4, <1>5, <1>6, <1>7, <1>8, <1>9
        DEF WriterStep, BeginInstall, BeginCompaction

\* What a scrub remembers.
LEMMA ScrubsStayOK ==
  ASSUME TypeOK, \A x \in Scrubs : ScrubOK(x), NEW s \in Scrubs, ScrubStep(s)
  PROVE  \A x \in Scrubs : ScrubOK(x)'
<1>1. ScrubOK(s) /\ DOMAIN scrub = Scrubs
  BY DEF TypeOK
<1>2. \A x \in Scrubs \ {s} : scrub'[x] = scrub[x]
  BY <1>1 DEF ScrubStep, ScrubFinds, Condemn, HashAgain, JudgeGenerations, SettleCondemned,
     ScrubStops
<1>3. ScrubOK(s)'
  BY <1>1 DEF ScrubOK, ScrubStep, ScrubFinds, Condemn, HashAgain, JudgeGenerations,
     SettleCondemned, ScrubStops, IdleScrub
<1> QED BY <1>2, <1>3 DEF ScrubOK

\* A scrub makes a verdict outdated by condemning only, and looks at the file again
\* after that, unless it is cut off.
LEMMA OutdatedScrubStep ==
  ASSUME TypeOK, NEW s \in Scrubs, ScrubOK(s), ScrubStep(s), NEW id, Outdated(id)'
  PROVE  /\ Outdated(id) \/ Looking(s, id)'
         /\ Looking(s, id) => Looking(s, id)' \/ scrub'[s].pc = "stopped"
<1> DEFINE v == scrub[s]
           u == scrub'[s]
<1>1. DOMAIN scrub = Scrubs /\ UNCHANGED file
  BY DEF ScrubStep, ScrubFinds, Condemn, HashAgain, JudgeGenerations, SettleCondemned,
     ScrubStops, TypeOK, disk
<1>2. CASE ScrubFinds(s)
  BY <1>1, <1>2 DEF ScrubFinds, Looking, Outdated, disk
<1>3. CASE Condemn(s)
  <2>1. /\ v.pc = "found" /\ u.pc = "condemned" /\ u.id = v.id
        /\ verdict' = Put(verdict, v.id, Damaged)
    BY <1>1, <1>3 DEF Condemn, ScrubOK
  <2> QED BY <1>1, <2>1 DEF Looking, Outdated, Put
<1>4. CASE HashAgain(s)
  <2>1. v.pc = "condemned" /\ Outdated(id)
    BY <1>1, <1>4 DEF HashAgain, disk, Outdated
  <2>2. CASE v.id \in DOMAIN file /\ file[v.id] # Damaged
    <3>1. u.pc = "superseded" /\ u.id = v.id
      BY <1>1, <1>4, <2>2 DEF HashAgain, ScrubOK
    <3> QED BY <2>1, <3>1 DEF Looking
  <2>3. CASE ~(v.id \in DOMAIN file /\ file[v.id] # Damaged)
    BY <2>1, <2>3 DEF Looking, Outdated
  <2> QED BY <2>2, <2>3
<1>5. CASE JudgeGenerations(s)
  <2>1. u.pc = "settling" /\ u.id = v.id /\ UNCHANGED verdict
    BY <1>1, <1>5 DEF JudgeGenerations, ScrubOK, disk
  <2> QED BY <1>1, <2>1 DEF Looking, Outdated
<1>6. CASE SettleCondemned(s)
  <2>1. /\ v.pc = "settling" /\ v.held # Damaged
        /\ verdict' = IF v.settle THEN Put(verdict, v.id, v.held) ELSE Without(verdict, v.id)
    BY <1>6 DEF SettleCondemned, ScrubOK
  <2>2. Outdated(id) /\ id # v.id
    BY <1>1, <2>1 DEF Outdated, Put, Without, Restrict
  <2> QED BY <2>2 DEF Looking
<1>7. CASE ScrubStops(s)
  <2>1. u.pc = "stopped" /\ UNCHANGED verdict
    BY <1>1, <1>7 DEF ScrubStops, IdleScrub, disk
  <2> QED BY <1>1, <2>1 DEF Outdated
<1> QED BY <1>2, <1>3, <1>4, <1>5, <1>6, <1>7 DEF ScrubStep

LEMMA ScrubsAlwaysOK == Spec => [](TypeOK /\ \A s \in Scrubs : ScrubOK(s))
<1>1. Init => \A s \in Scrubs : ScrubOK(s)
  BY DEF Init, IdleScrub, ScrubOK
<1>2. TypeOK /\ (\A s \in Scrubs : ScrubOK(s)) /\ [Next]_vars => (\A s \in Scrubs : ScrubOK(s))'
  <2> SUFFICES ASSUME TypeOK, \A s \in Scrubs : ScrubOK(s), [Next]_vars
               PROVE  \A s \in Scrubs : ScrubOK(s)'
    OBVIOUS
  <2>1. CASE UNCHANGED scrub
    BY <2>1 DEF ScrubOK
  <2> QED BY <2>1, WritersKeep, ScrubsStayOK
          DEF Next, vars, ReaderStep, ReadCurrent, ReadPrevious, ReadDocument, MapSegments,
              Close, Download, SessionRecover, DeviceStep, Rot, HidePointer, MendPointers,
              LoseCurrent, DamageDerived
<1> QED BY <1>1, <1>2, TypeCorrect, PTL DEF Spec

\* No step comes to condemn for good the bytes an install put in the place of those
\* that failed - whatever the interleaving of scrubs, installs and compactions,
\* and whatever else is damaged or lost - unless it cuts off the scrub, or the
\* install before its verdict.
THEOREM ScrubsCondemnNothingNew == Spec => SupersededScrubCondemnsNothing
<1>1. TypeOK /\ (\A s \in Scrubs : ScrubOK(s)) /\ [Next]_vars
      => [\A id \in DOMAIN file' :
            Wronged(id)' => \/ Wronged(id) \/ CutOff(id)
                            \/ \E s \in Scrubs : Looking(s, id) /\ scrub'[s].pc = "stopped"]_vars
  <2> SUFFICES ASSUME TypeOK, \A s \in Scrubs : ScrubOK(s), [Next]_vars, NEW id, Wronged(id)'
               PROVE  \/ Wronged(id) \/ CutOff(id)
                      \/ \E s \in Scrubs : Looking(s, id) /\ scrub'[s].pc = "stopped"
    OBVIOUS
  <2>1. /\ Outdated(id)' /\ \A w \in Writers : ~AtVerdict(w, id)'
        /\ \A s \in Scrubs : ~Looking(s, id)'
    BY DEF Wronged, Outdated
  <2>2. ASSUME NEW w \in Writers, WriterStep(w), ~CutOff(id) PROVE Wronged(id)
    <3>1. UNCHANGED scrub /\ \A x \in Writers \ {w} : writer'[x] = writer[x]
      BY <2>2, WritersKeep, LockStep
    <3>2. Outdated(id) /\ ~AtVerdict(w, id)
      BY <2>1, <2>2, OutdatedWriterStep DEF CutOff
    <3>3. \A x \in Writers \ {w} : ~AtVerdict(x, id)
      BY <2>1, <3>1 DEF AtVerdict, NewSegment
    <3> QED BY <2>1, <3>1, <3>2, <3>3 DEF Wronged, Outdated, Looking
  <2>3. ASSUME NEW s \in Scrubs, ScrubStep(s), ~(Looking(s, id) /\ scrub'[s].pc = "stopped")
        PROVE  Wronged(id)
    <3>1. UNCHANGED writer /\ \A x \in Scrubs \ {s} : scrub'[x] = scrub[x]
      BY <2>3 DEF ScrubStep, ScrubFinds, Condemn, HashAgain, JudgeGenerations, SettleCondemned,
         ScrubStops, TypeOK
    <3>2. Outdated(id) /\ ~Looking(s, id)
      BY <2>1, <2>3, OutdatedScrubStep
    <3> QED BY <2>1, <3>1, <3>2 DEF Wronged, Outdated, Looking, AtVerdict, NewSegment
  <2>4. CASE /\ UNCHANGED <<writer, scrub>>
             /\ \A k \in DOMAIN file' : k \in DOMAIN file /\ file'[k] \in {file[k], Damaged}
             /\ \A k \in DOMAIN verdict' : k \in DOMAIN verdict /\ verdict'[k] = verdict[k]
    <3>1. Outdated(id)
      BY <2>1, <2>4, OutdatedShrinks
    <3> QED BY <2>1, <2>4, <3>1 DEF Wronged, Outdated, Looking, AtVerdict, NewSegment
  <2>5. CASE SessionRecover
    BY <2>4, <2>5 DEF SessionRecover, Recover, CollectGarbage, Restrict
  <2>6. CASE DeviceStep
    BY <2>4, <2>6 DEF DeviceStep, Rot, HidePointer, MendPointers, LoseCurrent, DamageDerived
  <2>7. CASE UNCHANGED <<writer, scrub, file, verdict>>
    BY <2>4, <2>7
  <2> QED BY <2>2, <2>3, <2>5, <2>6, <2>7
          DEF Next, vars, disk, ReaderStep, ReadCurrent, ReadPrevious, ReadDocument,
              MapSegments, Close, Download
<1> QED BY <1>1, ScrubsAlwaysOK, PTL DEF Spec, SupersededScrubCondemnsNothing

-----------------------------------------------------------------------------
(* What a pointer names stays on disk, even while the pointer cannot be read and *)
(* even where a flip may go unflushed: the newest segment of a generation may    *)
(* then be in incoming/ instead. As long as no segment's bytes are damaged, and  *)
(* one id is never published with two contents: else a segment that only an      *)
(* unreadable pointer names may be replaced, and be gone when the install that   *)
(* replaced it fails.                                                            *)

OneContent == \A r \in Releases : /\ r.id \notin Seq(Shas)
                                  /\ \A q \in Releases : r.id = q.id => r.sha = q.sha
Unrotted == "rot" \notin FaultKinds \/ faults = 0

\* The bytes a segment's id was published with, or merged from.
Fits(id, bytes) == \/ \E r \in Releases : r.id = id /\ r.sha = bytes
                   \/ id \in Seq(Shas) /\ bytes = id

\* A generation's newest segment, a download that is back among others.
Away(p, s, lying) == /\ ~FlipsKept /\ s = p.doc.segs[Len(p.doc.segs)]
                     /\ \E r \in lying : SegmentOf(r) = s
Lying(w) == incoming \cup IF writer[w].take THEN {writer[w].job} ELSE {}

\* What a pointer names is on disk, its newest segment perhaps in incoming/.
Stays(p) == Reads(p) /\ \A s \in Elems(p.doc.segs) : s.id \in DOMAIN file \/ Away(p, s, incoming)
AllStay == \A p \in Slotted : Stays(p)

WriterKeeps(w) ==
  LET v  == writer[w]
      id == NewSegment(w).id
  IN  /\ v.pc \in Unflipped =>
           Made(w) /\ (v.base # None => Ids(v.base.doc) \subseteq DOMAIN file)
      /\ v.pc \in Unflipped \ {"staged"} /\ v.placed # "kept" =>
             /\ v.base # None => id \notin Ids(v.base.doc)
             /\ \A p \in Slotted : \A s \in Elems(p.doc.segs) : s.id = id => Away(p, s, Lying(w))
      /\ v.pc \in (Unflipped \ {"staged"}) \cup {"flipped", "discarded"} /\ v.placed = "kept" =>
           id \in DOMAIN file
      /\ v.pc \in Commits \cup {"placed"} => id \in DOMAIN file
      /\ v.pc = "created" => v.gen \in DOMAIN gens /\ \A p \in Slotted : p.gen # v.gen
      /\ v.pc \in {"written", "previous"} => v.gen \in DOMAIN gens /\ gens[v.gen].doc = v.new

FilesFit == \A id \in DOMAIN file : Fits(id, file[id])
Keeping == AllStay /\ FilesFit /\ \A w \in Writers : WriterKeeps(w)

\* A segment's id is published once: its bytes are those it was published with.
LEMMA FitsOne ==
  ASSUME OneContent, NEW id, NEW b, NEW c, Fits(id, b), Fits(id, c)
  PROVE  b = c
BY DEF OneContent, Fits

\* What a writer made names one segment of its own, and those it built on.
LEMMA MadeSegments ==
  ASSUME TypeOK, NEW w \in Writers, writer[w].pc \in Unflipped, Made(w)
  PROVE  /\ Fits(NewSegment(w).id, NewSegment(w).sha)
         /\ \A s \in Elems(writer[w].new.segs) :
              \/ s = NewSegment(w)
              \/ writer[w].base # None /\ s \in Elems(writer[w].base.doc.segs)
<1> DEFINE v == writer[w]
           d == IF v.base = None THEN None ELSE v.base.doc
<1>1. v \in WriterStates
  BY DEF TypeOK
<1>2. v.base # None => v.base.doc \in Docs
  BY <1>1 DEF WriterStates, Pointers
<1>3. ASSUME NEW r \in Releases, r.kind = "base" \/ v.base # None, v.new = NewDocument(r, d)
      PROVE  /\ NewSegment(w) = SegmentOf(r)
             /\ \A s \in Elems(v.new.segs) :
                  s = NewSegment(w) \/ (v.base # None /\ s \in Elems(v.base.doc.segs))
  <2>1. CASE r.kind = "base"
    <3>1. v.new.segs = <<SegmentOf(r)>>
      BY <1>3, <2>1 DEF NewDocument
    <3> HIDE DEF v
    <3> QED BY <3>1 DEF NewSegment, Elems, v
  <2>2. CASE r.kind # "base"
    <3>1. d \in Docs /\ d = v.base.doc
      BY <1>2, <1>3, <2>2
    <3>2. v.new.segs = Append(d.segs, SegmentOf(r))
      <4> HIDE DEF v, d
      <4> QED BY <1>3, <2>2 DEF NewDocument
    <3>3. SegmentOf(r) \in Segments
      BY ReleasesAssumption DEF SegmentOf, Segments, Bytes, Shas
    <3>4. /\ Len(v.new.segs) = Len(d.segs) + 1
          /\ v.new.segs[Len(d.segs) + 1] = SegmentOf(r)
      <4> HIDE DEF v, d
      <4> QED BY <3>1, <3>2, <3>3, DocSegments, AppendProperties
    <3>5. NewSegment(w) = SegmentOf(r)
      BY <3>4 DEF NewSegment
    <3>6. \A s \in Elems(v.new.segs) :
            \/ s = v.new.segs[Len(v.new.segs)]
            \/ s \in Elems(d.segs)
      <4> HIDE DEF v, d
      <4> QED BY <1>3, <2>2, <3>1, NewDocumentAdds
    <3> QED BY <1>3, <2>2, <3>1, <3>5, <3>6 DEF NewSegment
  <2> QED BY <2>1, <2>2
<1>4. ASSUME NEW r \in Releases, r.kind = "base" \/ v.base # None, v.new = NewDocument(r, d)
      PROVE  Fits(NewSegment(w).id, NewSegment(w).sha)
  BY <1>3, <1>4 DEF Fits, SegmentOf
<1>5. ASSUME v.base # None, v.new = Compaction(v.base.doc)
      PROVE  /\ Fits(NewSegment(w).id, NewSegment(w).sha)
             /\ \A s \in Elems(v.new.segs) : s = NewSegment(w)
  <2>1. v.new.segs = <<Merged(v.base.doc)>> /\ NewSegment(w) = Merged(v.base.doc)
    BY <1>5 DEF Compaction, NewSegment
  <2>2. Content(v.base.doc) \in Seq(Shas)
    BY <1>2, <1>5, ContentType
  <2>3. Fits(NewSegment(w).id, NewSegment(w).sha)
    BY <2>1, <2>2 DEF Fits, Merged
  <2> QED BY <2>1, <2>3 DEF Elems
<1> QED BY <1>3, <1>4, <1>5 DEF Made

\* A pointer's generation stays when its document and its files do, and what is
\* away stays there.
LEMMA StaysOn ==
  ASSUME NEW p, Stays(p), p.gen \in DOMAIN gens', gens'[p.gen].doc = gens[p.gen].doc,
         \A s \in Elems(p.doc.segs) :
           (s.id \in DOMAIN file => s.id \in DOMAIN file') \/ Away(p, s, incoming'),
         \A s \in Elems(p.doc.segs) :
           Away(p, s, incoming) => s.id \in DOMAIN file' \/ Away(p, s, incoming')
  PROVE  Stays(p)'
<1> QED BY DEF Stays, Reads, Away

LEMMA AllStayOn ==
  ASSUME AllStay, UNCHANGED gens, Slotted' \subseteq Slotted,
         \A p \in Slotted : \A s \in Elems(p.doc.segs) :
           (s.id \in DOMAIN file => s.id \in DOMAIN file') \/ Away(p, s, incoming'),
         \A p \in Slotted : \A s \in Elems(p.doc.segs) :
           Away(p, s, incoming) => s.id \in DOMAIN file' \/ Away(p, s, incoming')
  PROVE  AllStay'
<1> SUFFICES ASSUME NEW p \in Slotted, Stays(p) PROVE Stays(p)'
  BY DEF AllStay
<1> QED BY StaysOn DEF Stays, Reads

\* More in incoming/ takes nothing away.
LEMMA AwayMore ==
  ASSUME NEW p, NEW s, NEW lying, NEW more, lying \subseteq more, Away(p, s, lying)
  PROVE  Away(p, s, more)
BY DEF Away

\* A collection keeps what every pointer names, read or not.
LEMMA CollectKeeps ==
  ASSUME AllStay, CollectGarbage, UNCHANGED <<current, previous>>,
         \A p \in Slotted : \A s \in Elems(p.doc.segs) :
           Away(p, s, incoming) => s.id \in DOMAIN file \/ Away(p, s, incoming')
  PROVE  /\ AllStay' /\ \A id \in DOMAIN file' : id \in DOMAIN file /\ file'[id] = file[id]
         /\ \A n \in DOMAIN gens' : n \in DOMAIN gens /\ gens'[n] = gens[n]
         /\ \A id \in DOMAIN verdict' : id \in DOMAIN verdict /\ verdict'[id] = verdict[id]
<1>1. /\ \A id \in DOMAIN file' : id \in DOMAIN file /\ file'[id] = file[id]
      /\ \A n \in DOMAIN gens' : n \in DOMAIN gens /\ gens'[n] = gens[n]
      /\ \A id \in DOMAIN verdict' : id \in DOMAIN verdict /\ verdict'[id] = verdict[id]
  BY DEF CollectGarbage, Restrict
<1>2. Slotted' = Slotted
  BY DEF Slotted
<1>3. CASE ~Collectable
  <2>1. UNCHANGED <<gens, file>>
    BY <1>3 DEF CollectGarbage
  <2> QED BY <1>1, <1>2, <2>1, AllStayOn
<1>4. CASE Collectable
  <2>1. Slotted \subseteq Named
    BY <1>4 DEF Collectable, Slotted, Named, Pointer
  <2>2. ASSUME NEW p \in Slotted PROVE Stays(p)'
    <3>1. Stays(p) /\ p.gen \in LiveGens /\ Ids(p.doc) \subseteq LiveIds
      BY <2>1 DEF LiveGens, LiveIds, AllStay
    <3>2. p.gen \in DOMAIN gens' /\ gens'[p.gen] = gens[p.gen]
      BY <1>4, <3>1 DEF CollectGarbage, Restrict, Stays, Reads
    <3>3. \A s \in Elems(p.doc.segs) : s.id \in DOMAIN file => s.id \in DOMAIN file'
      <4>1. \A s \in Elems(p.doc.segs) : s.id \in LiveIds
        BY <3>1 DEF Ids
      <4> QED BY <1>4, <4>1 DEF CollectGarbage, Restrict
    <3> QED BY <3>1, <3>2, <3>3, StaysOn
  <2> QED BY <1>1, <1>2, <2>2 DEF AllStay
<1> QED BY <1>3, <1>4

\* A step of one writer tells nothing new of the others, which hold no lock.
LEMMA KeepsAlone ==
  ASSUME LockHeld', NEW w \in Writers, writer'[w].pc # "idle" => WriterKeeps(w)',
         lock' \in {w, None}
  PROVE  \A x \in Writers : WriterKeeps(x)'
<1>1. \A x \in Writers : x # w => writer'[x].pc = "idle"
  BY WritersAssumption DEF LockHeld, Writers
<1>2. \A x \in Writers : writer'[x].pc = "idle" => WriterKeeps(x)'
  BY DEF WriterKeeps, Unflipped, Commits
<1> QED BY <1>1, <1>2

\* What Keeping asks of one writer's step.
KeepsOn(w) == /\ AllStay'
              /\ FilesFit'
              /\ writer'[w].pc # "idle" => WriterKeeps(w)'

\* A step that returns and leaves incoming/ alone.
LEMMA KeepsReturn ==
  ASSUME TypeOK, Keeping, NEW w \in Writers, Return(w),
         UNCHANGED <<current, previous, gens, file, incoming>>
  PROVE  KeepsOn(w)
<1>1. AllStay' /\ FilesFit'
  BY AllStayOn DEF Keeping, FilesFit, Fits, Slotted
<1>2. writer'[w].pc = "idle"
  BY DEF Return, TypeOK, IdleWriter
<1> QED BY <1>1, <1>2 DEF KeepsOn

\* Taking the lock: what recovery collects no pointer names.
LEMMA KeepsBegin ==
  ASSUME TypeOK, Keeping, NEW w \in Writers, NEW pc \in {"locked", "merging"}, NEW job,
         Begin(w, pc, job)
  PROVE  KeepsOn(w)
<1>1. AllStay' /\ \A id \in DOMAIN file' : id \in DOMAIN file /\ file'[id] = file[id]
  BY CollectKeeps DEF Begin, Recover, Keeping
<1>2. FilesFit'
  BY <1>1 DEF Keeping, FilesFit, Fits
<1>3. writer'[w].pc = pc
  BY DEF Begin, TypeOK, WriterStates
<1> QED BY <1>1, <1>2, <1>3 DEF KeepsOn, WriterKeeps, Unflipped, Commits

\* The generation the set opens at has its segments.
LEMMA OpenedHas == Opened # None => Ids(Opened.doc) \subseteq DOMAIN file
BY DEF Opened, Opens

\* A step that changes none of what pointers name, and keeps the files.
LEMMA KeepsStill ==
  ASSUME Keeping, UNCHANGED <<current, previous, gens, file, incoming>>
  PROVE  AllStay' /\ FilesFit' /\ Slotted' = Slotted
BY AllStayOn DEF Keeping, FilesFit, Fits, Slotted

\* What a writer begins with: a document made of a generation whose segments are there.
LEMMA KeepsStaged ==
  ASSUME TypeOK, Keeping, NEW w \in Writers, NEW new,
         writer' = [writer EXCEPT ![w].pc = "staged", ![w].base = Opened, ![w].new = new],
         UNCHANGED <<current, previous, gens, file, incoming>>,
         \/ /\ writer[w].job \in Releases
            /\ \/ writer[w].job.kind = "base"
               \/ Opened # None /\ Applies(writer[w].job, Opened.doc)
            /\ new = NewDocument(writer[w].job, IF Opened = None THEN None ELSE Opened.doc)
         \/ Opened # None /\ new = Compaction(Opened.doc)
  PROVE  KeepsOn(w)
<1> DEFINE v == [writer[w] EXCEPT !.pc = "staged", !.base = Opened, !.new = new]
<1>1. writer[w] \in WriterStates /\ writer'[w] = v
  BY DEF TypeOK
<1>2. /\ v.pc = "staged" /\ v.base = Opened /\ v.new = new /\ v.job = writer[w].job
  BY <1>1 DEF WriterStates
<1> HIDE DEF v
<1>3. Made(w)'
  BY <1>1, <1>2 DEF Made
<1>4. writer'[w].base # None => Ids(writer'[w].base.doc) \subseteq DOMAIN file'
  BY <1>1, <1>2, OpenedHas
<1>5. WriterKeeps(w)'
  BY <1>1, <1>2, <1>3, <1>4 DEF WriterKeeps, Unflipped, Commits
<1> QED BY <1>5, KeepsStill DEF KeepsOn

LEMMA KeepsPrepare ==
  ASSUME TypeOK, Keeping, NEW w \in Writers, Prepare(w) \/ PrepareCompaction(w)
  PROVE  KeepsOn(w)
<1> DEFINE r == writer[w].job
           d == IF Opened = None THEN None ELSE Opened.doc
<1>1. UNCHANGED <<current, previous, gens, file, incoming>>
  BY DEF Prepare, PrepareCompaction
<1>2. CASE Return(w)
  BY <1>1, <1>2, KeepsReturn
<1>3. CASE Prepare(w) /\ ~Return(w)
  <2>1. /\ writer' = [writer EXCEPT ![w].pc = "staged", ![w].base = Opened,
                                    ![w].new = NewDocument(r, d)]
        /\ r.kind = "base" \/ (Opened # None /\ Applies(r, Opened.doc))
    BY <1>3 DEF Prepare
  <2>2. r \in Releases
    BY <1>3 DEF Prepare, TypeOK, WriterOK
  <2>3. PICK new : new = NewDocument(r, d)
    OBVIOUS
  <2> QED BY <1>1, <2>1, <2>2, <2>3, KeepsStaged
<1>4. CASE PrepareCompaction(w) /\ ~Return(w)
  <2>1. /\ Opened # None
        /\ writer' = [writer EXCEPT ![w].pc = "staged", ![w].base = Opened,
                                    ![w].new = Compaction(Opened.doc)]
    BY <1>4 DEF PrepareCompaction, Compaction
  <2>2. PICK new : new = Compaction(Opened.doc)
    OBVIOUS
  <2> QED BY <1>1, <2>1, <2>2, KeepsStaged
<1> QED BY <1>2, <1>3, <1>4

\* A file of the new segment's name holds its bytes, or no pointer names it.
LEMMA KeepsJudge ==
  ASSUME OneContent, TypeOK, Keeping, NEW w \in Writers, Judge(w)
  PROVE  KeepsOn(w)
<1>0. PICK n : n = NewSegment(w)
  OBVIOUS
<1>1. /\ UNCHANGED <<current, previous, gens, file, incoming>>
      /\ writer[w].pc = "staged" /\ writer[w] \in WriterStates
  BY DEF Judge, disk, TypeOK
<1>2. CASE Return(w)
  BY <1>1, <1>2, KeepsReturn
<1>3. CASE ~Return(w)
  <2> DEFINE placed == IF n.id \notin DOMAIN file THEN "new"
                       ELSE IF file[n.id] = n.sha THEN "kept" ELSE "replaced"
             v == [writer[w] EXCEPT !.pc = "judged", !.placed = placed]
  <2>1. writer'[w] = v
    BY <1>0, <1>3 DEF Judge, TypeOK
  <2>2. /\ writer'[w].pc = "judged" /\ writer'[w].placed = placed
        /\ writer'[w].base = writer[w].base /\ writer'[w].new = writer[w].new
        /\ writer'[w].job = writer[w].job /\ writer'[w].take = writer[w].take
    BY <1>1, <2>1 DEF WriterStates
  <2>3. /\ Made(w)
        /\ writer[w].base # None => Ids(writer[w].base.doc) \subseteq DOMAIN file
    BY <1>1 DEF Keeping, WriterKeeps, Unflipped
  <2>4. Fits(n.id, n.sha)
    BY <1>0, <1>1, <2>3, MadeSegments DEF Unflipped
  <2>5. n.id \in DOMAIN file => placed = "kept"
    BY <2>4, FitsOne DEF Keeping, FilesFit
  <2>6. n.id \notin DOMAIN file =>
          /\ placed # "kept"
          /\ writer[w].base # None => n.id \notin Ids(writer[w].base.doc)
          /\ \A p \in Slotted : \A s \in Elems(p.doc.segs) : s.id = n.id => Away(p, s, incoming)
    BY <2>3 DEF Keeping, AllStay, Stays
  <2>7. Made(w)' /\ NewSegment(w)' = n
    BY <1>0, <2>2, <2>3, MadeStays DEF NewSegment
  <2> HIDE DEF placed, v
  <2>8. placed # "kept" =>
          \A p \in Slotted' : \A s \in Elems(p.doc.segs) : s.id = n.id => Away(p, s, Lying(w)')
    <3>1. Slotted' = Slotted /\ incoming \subseteq Lying(w)'
      BY <1>1 DEF Slotted, Lying
    <3> QED BY <2>5, <2>6, <3>1, AwayMore
  <2>9. WriterKeeps(w)'
    <3>1. placed # "kept" => (writer[w].base # None => n.id \notin Ids(writer[w].base.doc))
      BY <2>5, <2>6
    <3>2. placed # "kept" =>
            \A p \in Slotted' : \A s \in Elems(p.doc.segs) : s.id = n.id => Away(p, s, Lying(w))'
      BY <2>8 DEF Away
    <3>3. placed = "kept" => n.id \in DOMAIN file'
      BY <1>1, <2>6
    <3> QED BY <1>1, <2>2, <2>3, <2>7, <3>1, <3>2, <3>3 DEF WriterKeeps, Unflipped, Commits
  <2> QED BY <1>1, <2>9, KeepsStill DEF KeepsOn
<1> QED BY <1>2, <1>3

\* What a writer knows from the judgement of its file on.
LEMMA KeepsJudged ==
  ASSUME Keeping, NEW w \in Writers, writer[w].pc \in Unflipped \ {"staged"},
         NEW n, n = NewSegment(w)
  PROVE  /\ Made(w)
         /\ writer[w].base # None => Ids(writer[w].base.doc) \subseteq DOMAIN file
         /\ writer[w].placed = "kept" => n.id \in DOMAIN file
         /\ writer[w].placed # "kept" =>
              /\ writer[w].base # None => n.id \notin Ids(writer[w].base.doc)
              /\ \A p \in Slotted : \A s \in Elems(p.doc.segs) :
                   s.id = n.id => Away(p, s, Lying(w))
         /\ writer[w].pc \in Commits \cup {"placed"} => n.id \in DOMAIN file
         /\ writer[w].pc = "created" => /\ writer[w].gen \in DOMAIN gens
                                        /\ \A p \in Slotted : p.gen # writer[w].gen
         /\ writer[w].pc \in {"written", "previous"} =>
              /\ writer[w].gen \in DOMAIN gens
              /\ gens[writer[w].gen].doc = writer[w].new
BY DEF Keeping, WriterKeeps

\* It knows it still at a later step, if the set keeps what it is about.
LEMMA KeepsLater ==
  ASSUME Keeping, NEW w \in Writers, writer[w].pc \in Unflipped \ {"staged"},
         NEW n, n = NewSegment(w),
         writer'[w].pc \in Commits \cup {"placed"}, writer'[w].job = writer[w].job,
         writer'[w].base = writer[w].base, writer'[w].new = writer[w].new,
         writer'[w].placed = writer[w].placed, writer'[w].take = writer[w].take,
         writer[w].placed # "kept" => Lying(w) \subseteq Lying(w)',
         DOMAIN file \subseteq DOMAIN file', n.id \in DOMAIN file',
         \A p \in Slotted' : p \in Slotted \/ (p # None /\ p = writer[w].base),
         writer'[w].pc = "created" => /\ writer'[w].gen \in DOMAIN gens'
                                      /\ \A p \in Slotted' : p.gen # writer'[w].gen,
         writer'[w].pc \in {"written", "previous"} =>
              /\ writer'[w].gen \in DOMAIN gens'
              /\ gens'[writer'[w].gen].doc = writer[w].new
  PROVE  WriterKeeps(w)'
<1>1. Made(w)' /\ NewSegment(w)' = n
  BY KeepsJudged, MadeStays DEF NewSegment
<1>2. writer[w].base # None => Ids(writer[w].base.doc) \subseteq DOMAIN file'
  BY KeepsJudged
<1>3. writer[w].placed # "kept" =>
        /\ writer[w].base # None => n.id \notin Ids(writer[w].base.doc)
        /\ \A p \in Slotted' : \A s \in Elems(p.doc.segs) :
             s.id = n.id => Away(p, s, Lying(w)')
  <2> SUFFICES ASSUME writer[w].placed # "kept"
               PROVE  /\ writer[w].base # None => n.id \notin Ids(writer[w].base.doc)
                      /\ \A p \in Slotted' : \A s \in Elems(p.doc.segs) :
                           s.id = n.id => Away(p, s, Lying(w)')
    OBVIOUS
  <2>1. /\ writer[w].base # None => n.id \notin Ids(writer[w].base.doc)
        /\ \A p \in Slotted : \A s \in Elems(p.doc.segs) : s.id = n.id => Away(p, s, Lying(w))
    BY KeepsJudged
  <2>2. ASSUME NEW p \in Slotted', NEW s \in Elems(p.doc.segs), s.id = n.id
        PROVE  Away(p, s, Lying(w)')
    <3>1. CASE p \in Slotted
      BY <2>1, <2>2, <3>1, AwayMore
    <3>2. CASE p # None /\ p = writer[w].base
      BY <2>1, <2>2, <3>2 DEF Ids
    <3> QED BY <3>1, <3>2
  <2> QED BY <2>1, <2>2
<1>4. writer[w].placed # "kept" =>
        \A p \in Slotted' : \A s \in Elems(p.doc.segs) : s.id = n.id => Away(p, s, Lying(w))'
  BY <1>3 DEF Away
<1> QED BY <1>1, <1>2, <1>3, <1>4 DEF WriterKeeps, Commits

LEMMA KeepsPlace ==
  ASSUME TypeOK, Keeping, NEW w \in Writers, Lays(w), Place(w)
  PROVE  KeepsOn(w)
<1>0. PICK n : n = NewSegment(w)
  OBVIOUS
<1>1. /\ writer[w].pc = "judged" /\ Goto(w, "placed") /\ UNCHANGED <<current, previous, gens>>
      /\ file' = IF writer[w].placed = "kept" THEN file ELSE Put(file, n.id, n.sha)
      /\ incoming' = IF writer[w].take /\ writer[w].placed # "kept"
                     THEN incoming \ {writer[w].job} ELSE incoming
  BY <1>0 DEF Place
<1>2. Fits(n.id, n.sha)
  BY <1>0, <1>1, KeepsJudged, MadeSegments DEF Unflipped
<1>3. DOMAIN file \subseteq DOMAIN file' /\ n.id \in DOMAIN file'
  BY <1>0, <1>1, KeepsJudged DEF Put, Unflipped
<1>4. FilesFit'
  <2>1. \A id \in DOMAIN file' : Fits(id, file'[id])
    BY <1>1, <1>2 DEF Put, Keeping, FilesFit
  <2> QED BY <2>1 DEF FilesFit, Fits
<1>5. AllStay'
  <2>1. ASSUME NEW p \in Slotted, NEW s \in Elems(p.doc.segs), Away(p, s, incoming)
        PROVE  s.id \in DOMAIN file' \/ Away(p, s, incoming')
    <3>1. CASE incoming' = incoming
      BY <2>1, <3>1
    <3>2. CASE incoming' # incoming
      <4>1. writer[w].take /\ incoming' = incoming \ {writer[w].job}
        BY <1>1, <3>2
      <4>2. n = SegmentOf(writer[w].job)
        BY <1>0, <1>1, <4>1 DEF Lays, Unflipped
      <4> QED BY <1>3, <2>1, <4>1, <4>2 DEF Away, SegmentOf
    <3> QED BY <3>1, <3>2
  <2> QED BY <1>1, <1>3, <2>1, AllStayOn DEF Keeping, Slotted
<1>6. WriterKeeps(w)'
  <2>1. Slotted' = Slotted
    BY <1>1 DEF Slotted
  <2>2. writer[w].placed # "kept" => Lying(w) \subseteq Lying(w)'
    BY <1>1, GotoKeeps DEF Lying
  <2> QED BY <1>0, <1>1, <1>3, <2>1, <2>2, GotoKeeps, KeepsLater DEF Unflipped, Commits
<1> QED BY <1>4, <1>5, <1>6 DEF KeepsOn

LEMMA KeepsSettle ==
  ASSUME TypeOK, Keeping, NEW w \in Writers, Settle(w)
  PROVE  KeepsOn(w)
<1>0. PICK n : n = NewSegment(w)
  OBVIOUS
<1>1. /\ writer[w].pc = "placed" /\ Goto(w, "moved")
      /\ UNCHANGED <<current, previous, gens, file, incoming>>
  BY DEF Settle
<1>2. AllStay' /\ FilesFit' /\ Slotted' = Slotted
  BY <1>1, KeepsStill
<1>3. n.id \in DOMAIN file
  BY <1>0, <1>1, KeepsJudged DEF Unflipped
<1>4. WriterKeeps(w)'
  BY <1>0, <1>1, <1>2, <1>3, GotoKeeps, KeepsLater DEF Unflipped, Commits, Lying
<1> QED BY <1>2, <1>4 DEF KeepsOn

\* A new generation's number is no pointer's.
LEMMA KeepsCreate ==
  ASSUME TypeOK, Keeping, NEW w \in Writers, CreateGeneration(w)
  PROVE  KeepsOn(w)
<1>0. PICK n : n = NewSegment(w)
  OBVIOUS
<1>1. PICK m \in Numbers : /\ NextGeneration(m)
                           /\ gens' = Put(gens, m, [doc |-> None, sound |-> TRUE])
                           /\ writer' = [writer EXCEPT ![w].pc = "created", ![w].gen = m]
  BY DEF CreateGeneration
<1>2. /\ writer[w] \in WriterStates /\ writer[w].pc = "moved"
      /\ UNCHANGED <<current, previous, file, incoming>>
  BY DEF TypeOK, CreateGeneration
<1> DEFINE v == [writer[w] EXCEPT !.pc = "created", !.gen = m]
<1>3. writer'[w] = v
  BY <1>1 DEF TypeOK
<1>4. /\ v.pc = "created" /\ v.gen = m /\ v.job = writer[w].job /\ v.base = writer[w].base
      /\ v.new = writer[w].new /\ v.placed = writer[w].placed /\ v.take = writer[w].take
  BY <1>2 DEF WriterStates
<1> HIDE DEF v
<1>5. m \notin DOMAIN gens
  <2>1. ~(m < m)
    BY DEF Numbers
  <2> QED BY <1>1, <2>1 DEF NextGeneration, Numbered
<1>6. m \in DOMAIN gens' /\ \A k \in DOMAIN gens : k \in DOMAIN gens' /\ gens'[k] = gens[k]
  BY <1>1, <1>5 DEF Put
<1>7. Slotted' = Slotted /\ \A p \in Slotted : Stays(p) /\ p.gen # m
  BY <1>2, <1>5 DEF Slotted, Stays, Reads, Keeping, AllStay
<1>8. AllStay' /\ FilesFit'
  <2>1. \A p \in Slotted : Stays(p)'
    BY <1>2, <1>6, <1>7, StaysOn DEF Stays, Reads
  <2>2. FilesFit'
    BY <1>2 DEF Keeping, FilesFit, Fits
  <2> QED BY <1>7, <2>1, <2>2 DEF AllStay
<1>9. WriterKeeps(w)'
  <2>1. n.id \in DOMAIN file
    BY <1>0, <1>2, KeepsJudged DEF Unflipped, Commits
  <2>2. Lying(w)' = Lying(w)
    BY <1>2, <1>3, <1>4 DEF Lying
  <2> QED BY <1>0, <1>2, <1>3, <1>4, <1>6, <1>7, <2>1, <2>2, KeepsLater DEF Unflipped, Commits
<1> QED BY <1>8, <1>9 DEF KeepsOn

\* The documents go to a directory no pointer names.
LEMMA KeepsWrite ==
  ASSUME TypeOK, Keeping, NEW w \in Writers, WriteGeneration(w)
  PROVE  KeepsOn(w)
<1>0. PICK n : n = NewSegment(w)
  OBVIOUS
<1> DEFINE m == writer[w].gen
<1>1. /\ writer[w].pc = "created" /\ Goto(w, "written")
      /\ UNCHANGED <<current, previous, file, incoming>>
      /\ gens' = [gens EXCEPT ![m].doc = writer[w].new]
  BY DEF WriteGeneration
<1>2. m \in DOMAIN gens /\ n.id \in DOMAIN file /\ \A p \in Slotted : p.gen # m
  BY <1>0, <1>1, KeepsJudged DEF Unflipped, Commits
<1>3. /\ m \in DOMAIN gens' /\ gens'[m].doc = writer[w].new
      /\ \A k \in DOMAIN gens : k \in DOMAIN gens' /\ (k # m => gens'[k] = gens[k])
  BY <1>1, <1>2 DEF TypeOK
<1>4. Slotted' = Slotted /\ FilesFit'
  BY <1>1 DEF Slotted, Keeping, FilesFit, Fits
<1>5. AllStay'
  <2>1. \A p \in Slotted : Stays(p)'
    BY <1>1, <1>2, <1>3, StaysOn DEF Stays, Reads, Keeping, AllStay
  <2> QED BY <1>4, <2>1 DEF AllStay
<1>6. WriterKeeps(w)'
  <2>1. Lying(w)' = Lying(w)
    BY <1>1, GotoKeeps DEF Lying
  <2> QED BY <1>0, <1>1, <1>2, <1>3, <1>4, <2>1, GotoKeeps, KeepsLater DEF Unflipped, Commits
<1> QED BY <1>4, <1>5, <1>6 DEF KeepsOn

\* PREVIOUS comes to name a generation that reads and whose segments are there:
\* what the writer built on, or what CURRENT names.
LEMMA KeepsPrevious ==
  ASSUME TypeOK, Keeping, NEW w \in Writers, WritePrevious(w)
  PROVE  KeepsOn(w)
<1>0. PICK n : n = NewSegment(w)
  OBVIOUS
<1>1. /\ writer[w].pc = "written" /\ Goto(w, "previous")
      /\ UNCHANGED <<current, gens, file, incoming>>
      /\ previous' = IF FallbackFor(w) = None THEN previous
                     ELSE [to |-> FallbackFor(w), reads |-> TRUE]
  BY DEF WritePrevious
<1>2. n.id \in DOMAIN file /\ writer[w].gen \in DOMAIN gens
      /\ gens[writer[w].gen].doc = writer[w].new
  BY <1>0, <1>1, KeepsJudged DEF Unflipped, Commits
<1>3. FallbackFor(w) # None =>
        /\ Stays(FallbackFor(w))
        /\ FallbackFor(w) \in Slotted \/ FallbackFor(w) = writer[w].base
  <2>1. writer[w].base # None => Ids(writer[w].base.doc) \subseteq DOMAIN file
    BY <1>0, <1>1, KeepsJudged DEF Unflipped
  <2>2. Pointer(current) # None => Pointer(current) \in Slotted
    BY DEF Pointer, Slotted
  <2> QED BY <2>1, <2>2 DEF FallbackFor, UsableFallback, Stays, Keeping, AllStay, Ids
<1>4. \A p \in Slotted' : Stays(p) /\ (p \in Slotted \/ p = writer[w].base)
  <2>1. CASE FallbackFor(w) = None
    BY <1>1, <2>1 DEF Slotted, Keeping, AllStay
  <2>2. CASE FallbackFor(w) # None
    <3>1. previous'.to = FallbackFor(w)
      BY <1>1, <2>2
    <3> QED BY <1>1, <1>3, <2>2, <3>1 DEF Slotted, Keeping, AllStay
  <2> QED BY <2>1, <2>2
<1>5. AllStay' /\ FilesFit'
  <2>1. \A p \in Slotted' : Stays(p)'
    BY <1>1, <1>4 DEF Stays, Reads, Away
  <2> QED BY <1>1, <2>1 DEF AllStay, Keeping, FilesFit, Fits
<1>6. WriterKeeps(w)'
  <2>1. \A p \in Slotted' : p # None
    BY DEF Slotted
  <2>2. Lying(w)' = Lying(w)
    BY <1>1, GotoKeeps DEF Lying
  <2> QED BY <1>0, <1>1, <1>2, <1>4, <2>1, <2>2, GotoKeeps, KeepsLater DEF Unflipped, Commits
<1> QED BY <1>5, <1>6 DEF KeepsOn

\* The flip names a generation with its document, whose segments are all there.
LEMMA NewStays ==
  ASSUME TypeOK, Keeping, NEW w \in Writers, writer[w].pc = "previous", NEW p, p = NewPointer(w).to
  PROVE  /\ p # None /\ Reads(p) /\ \A s \in Elems(p.doc.segs) : s.id \in DOMAIN file
         /\ p.doc.segs[Len(p.doc.segs)] = NewSegment(w)
         /\ \A s \in Elems(p.doc.segs) :
              \/ s = NewSegment(w)
              \/ writer[w].placed # "kept" => s.id # NewSegment(w).id
<1>0. PICK n : n = NewSegment(w)
  OBVIOUS
<1>1. p.gen = writer[w].gen /\ p.doc = writer[w].new
  BY DEF NewPointer
<1>2. p # None
  BY PointerType, NoneAssumption DEF TypeOK, WriterOK, Unflipped, NewPointer, Pointers
<1>3. /\ Made(w) /\ n.id \in DOMAIN file
      /\ writer[w].base # None => Ids(writer[w].base.doc) \subseteq DOMAIN file
      /\ writer[w].placed # "kept" => (writer[w].base # None => n.id \notin Ids(writer[w].base.doc))
      /\ writer[w].gen \in DOMAIN gens /\ gens[writer[w].gen].doc = writer[w].new
  BY <1>0, KeepsJudged DEF Unflipped, Commits
<1>4. \A s \in Elems(p.doc.segs) :
        s = n \/ (writer[w].base # None /\ s \in Elems(writer[w].base.doc.segs))
  BY <1>0, <1>1, <1>3, MadeSegments DEF Unflipped
<1> QED BY <1>0, <1>1, <1>2, <1>3, <1>4 DEF Reads, Ids, NewSegment

LEMMA KeepsFlip ==
  ASSUME TypeOK, Keeping, NEW w \in Writers, FlipCurrent(w)
  PROVE  KeepsOn(w)
<1>0. PICK p : p = NewPointer(w).to
  OBVIOUS
<1>1. /\ writer[w].pc = "previous" /\ current' = NewPointer(w)
      /\ UNCHANGED <<previous, gens, file, incoming>> /\ Goto(w, "flipped")
  BY DEF FlipCurrent
<1>2. Stays(p) /\ Slotted' \subseteq Slotted \cup {p}
  BY <1>0, <1>1, NewStays DEF Stays, Slotted
<1>3. \A q \in Slotted' : Stays(q)'
  BY <1>1, <1>2 DEF Stays, Reads, Away, Keeping, AllStay
<1>4. AllStay' /\ FilesFit'
  BY <1>1, <1>3 DEF AllStay, Keeping, FilesFit, Fits
<1>5. WriterKeeps(w)'
  BY <1>1, GotoKeeps DEF Keeping, WriterKeeps, Unflipped, Commits
<1> QED BY <1>4, <1>5 DEF KeepsOn

\* What is given back is a file that was not there, and that no pointer names but
\* one which can do without.
LEMMA GivingBack ==
  ASSUME TypeOK, Keeping, NEW w \in Writers, writer[w].pc \in Commits \cup {"placed"},
         writer[w].placed # "kept", GiveBack(w), NEW p \in Slotted
  PROVE  /\ \A s \in Elems(p.doc.segs) :
              (s.id \in DOMAIN file => s.id \in DOMAIN file') \/ Away(p, s, incoming')
         /\ \A s \in Elems(p.doc.segs) : Away(p, s, incoming) => Away(p, s, incoming')
<1>0. PICK n : n = NewSegment(w)
  OBVIOUS
<1>1. CASE UNCHANGED <<file, incoming>>
  BY <1>1
<1>2. CASE ~UNCHANGED <<file, incoming>>
  <2>1. file' = Without(file, n.id) /\ incoming' = Lying(w)
    BY <1>0, <1>2 DEF GiveBack, Lying
  <2>2. \A s \in Elems(p.doc.segs) : s.id = n.id => Away(p, s, Lying(w))
    BY <1>0, KeepsJudged DEF Unflipped, Commits
  <2>3. \A id \in DOMAIN file : id # n.id => id \in DOMAIN file'
    BY <2>1 DEF Without, Restrict
  <2>4. incoming \subseteq Lying(w)
    BY DEF Lying
  <2> QED BY <2>1, <2>2, <2>3, <2>4, AwayMore
<1> QED BY <1>1, <1>2

\* A flip that goes unflushed gives a download back that CURRENT names by then.
LEMMA KeepsUnflushed ==
  ASSUME TypeOK, Keeping, NEW w \in Writers, Lays(w), FlipUnflushed(w)
  PROVE  KeepsOn(w)
<1>0. PICK p : p = NewPointer(w).to
  OBVIOUS
<1>1. /\ writer[w].pc = "previous" /\ current' = NewPointer(w) /\ UnflushedFlip
      /\ UNCHANGED <<previous, gens>> /\ GiveBackDownload(w) /\ Return(w)
  BY DEF FlipUnflushed
<1>2. Slotted' \subseteq Slotted \cup {p}
  BY <1>0, <1>1 DEF Slotted
<1>3. /\ p # None /\ Reads(p) /\ \A s \in Elems(p.doc.segs) : s.id \in DOMAIN file
      /\ p.doc.segs[Len(p.doc.segs)] = NewSegment(w)
      /\ \A s \in Elems(p.doc.segs) :
           s = NewSegment(w) \/ (writer[w].placed # "kept" => s.id # NewSegment(w).id)
  BY <1>0, <1>1, NewStays
<1>4. writer'[w].pc = "idle"
  BY <1>1 DEF Return, TypeOK, IdleWriter
<1>5. \A id \in DOMAIN file' : id \in DOMAIN file /\ file'[id] = file[id]
  BY <1>1 DEF GiveBackDownload, GiveBack, Without, Restrict
<1>6. CASE UNCHANGED <<file, incoming>>
  <2>1. \A q \in Slotted' : Stays(q)'
    BY <1>1, <1>2, <1>3, <1>6 DEF Stays, Reads, Away, Keeping, AllStay
  <2> QED BY <1>4, <1>5, <2>1 DEF KeepsOn, AllStay, Keeping, FilesFit, Fits
<1>7. CASE ~UNCHANGED <<file, incoming>>
  <2>1. writer[w].take /\ writer[w].placed # "kept" /\ GiveBack(w)
    BY <1>1, <1>7 DEF GiveBackDownload
  <2>2. /\ file' = Without(file, NewSegment(w).id)
        /\ incoming' = incoming \cup {writer[w].job}
    BY <1>7, <2>1 DEF GiveBack
  <2>3. ~FlipsKept /\ NewSegment(w) = SegmentOf(writer[w].job)
    BY <1>1, <2>1 DEF FlipsKept, Lays, Unflipped, TypeOK, WriterOK
  <2>4. ASSUME NEW s \in Elems(p.doc.segs)
        PROVE  s.id \in DOMAIN file' \/ Away(p, s, incoming')
    <3>1. CASE s = NewSegment(w)
      BY <1>3, <2>2, <2>3, <3>1 DEF Away
    <3>2. CASE s # NewSegment(w)
      BY <1>3, <2>1, <2>2, <2>4, <3>2 DEF Without, Restrict
    <3> QED BY <3>1, <3>2
  <2>5. Stays(p)'
    BY <1>1, <1>3, <2>4 DEF Stays, Reads, Away
  <2>6. ASSUME NEW q \in Slotted PROVE Stays(q)'
    <3>1. Stays(q)
      BY DEF Keeping, AllStay
    <3> QED BY <1>1, <2>1, <3>1, GivingBack, StaysOn DEF Stays, Reads, Commits
  <2>7. AllStay'
    BY <1>2, <2>5, <2>6 DEF AllStay
  <2> QED BY <1>4, <1>5, <2>7 DEF KeepsOn, Keeping, FilesFit, Fits
<1> QED BY <1>6, <1>7

\* What is dropped from incoming/ after the flip is a download whose file is there.
LEMMA DroppedIsThere ==
  ASSUME TypeOK, Keeping, NEW w \in Writers, Lays(w),
         writer[w].pc \in {"flipped", "discarded"}, DropKept(w),
         NEW p \in Slotted, NEW s \in Elems(p.doc.segs), Away(p, s, incoming)
  PROVE  s.id \in DOMAIN file \/ Away(p, s, incoming')
<1>1. CASE incoming' = incoming
  BY <1>1
<1>2. CASE incoming' # incoming
  <2>1. writer[w].placed = "kept" /\ incoming' = incoming \ {writer[w].job}
    BY <1>2 DEF DropKept
  <2>2. writer[w].job \in Downloads
    BY <1>2, <2>1 DEF TypeOK
  <2>3. NewSegment(w) = SegmentOf(writer[w].job) /\ NewSegment(w).id \in DOMAIN file
    BY <2>1, <2>2 DEF Lays, Keeping, WriterKeeps
  <2>4. PICK r \in incoming : SegmentOf(r) = s
    BY DEF Away
  <2>5. CASE r = writer[w].job
    BY <2>3, <2>4, <2>5
  <2>6. CASE r # writer[w].job
    BY <2>1, <2>4, <2>6 DEF Away
  <2> QED BY <2>5, <2>6
<1> QED BY <1>1, <1>2

\* What follows the flip names nothing new.
LEMMA KeepsAfterFlip ==
  ASSUME TypeOK, Keeping, NEW w \in Writers, Lays(w),
         DiscardPrevious(w) \/ Finish(w) \/ FinishUncollected(w)
  PROVE  KeepsOn(w)
<1>1. CASE DiscardPrevious(w)
  <2>1. /\ UNCHANGED <<current, gens, file, incoming>> /\ previous' \in {NoPointer, previous}
        /\ Goto(w, "discarded") /\ writer[w].pc = "flipped"
    BY <1>1 DEF DiscardPrevious
  <2>2. AllStay' /\ FilesFit'
    BY <2>1, AllStayOn DEF Slotted, NoPointer, Keeping, FilesFit, Fits
  <2>3. WriterKeeps(w)'
    BY <2>1, GotoKeeps DEF Keeping, WriterKeeps, Unflipped, Commits
  <2> QED BY <2>2, <2>3 DEF KeepsOn
<1>2. CASE Finish(w) \/ FinishUncollected(w)
  <2>1. /\ DropKept(w) /\ writer[w].pc \in {"flipped", "discarded"} /\ Return(w)
        /\ UNCHANGED <<current, previous>>
    BY <1>2 DEF Finish, FinishUncollected
  <2>2. \A p \in Slotted : \A s \in Elems(p.doc.segs) :
          Away(p, s, incoming) => s.id \in DOMAIN file \/ Away(p, s, incoming')
    BY <2>1, DroppedIsThere
  <2>3. AllStay' /\ \A id \in DOMAIN file' : id \in DOMAIN file /\ file'[id] = file[id]
    <3>1. CASE Finish(w)
      BY <2>1, <2>2, <3>1, CollectKeeps DEF Finish, Keeping
    <3>2. CASE FinishUncollected(w)
      BY <2>1, <2>2, <3>2, AllStayOn DEF FinishUncollected, Keeping, Slotted
    <3> QED BY <1>2, <3>1, <3>2
  <2>4. writer'[w].pc = "idle"
    BY <2>1 DEF Return, TypeOK, IdleWriter
  <2> QED BY <2>3, <2>4 DEF KeepsOn, Keeping, FilesFit, Fits
<1> QED BY <1>1, <1>2

\* A failure before the flip.
LEMMA KeepsFailure ==
  ASSUME TypeOK, Keeping, NEW w \in Writers,
         SettleFails(w) \/ CommitFails(w) \/ Abort(w) \/ Crash(w)
  PROVE  KeepsOn(w)
<1>1. Return(w) /\ UNCHANGED <<current, previous, gens>>
  BY DEF SettleFails, CommitFails, Abort, Crash, disk
<1>2. CASE UNCHANGED <<file, incoming>>
  BY <1>1, <1>2, KeepsReturn
<1>3. CASE ~UNCHANGED <<file, incoming>>
  <2>1. /\ writer[w].pc \in Commits \cup {"placed"} /\ writer[w].placed # "kept"
        /\ GiveBack(w)
    BY <1>3 DEF SettleFails, CommitFails, Abort, Crash, GiveBackDownload, disk, Commits
  <2>2. \A id \in DOMAIN file' : id \in DOMAIN file /\ file'[id] = file[id]
    BY <2>1 DEF GiveBack, Without, Restrict
  <2>3. AllStay'
    BY <1>1, <2>1, GivingBack, AllStayOn DEF Keeping, Slotted
  <2>4. writer'[w].pc = "idle"
    BY <1>1 DEF Return, TypeOK, IdleWriter
  <2> QED BY <2>2, <2>3, <2>4 DEF KeepsOn, Keeping, FilesFit, Fits
<1> QED BY <1>2, <1>3

LEMMA KeepsWriterStep ==
  ASSUME OneContent, TypeOK, Keeping, LockHeld, LockHeld', NEW w \in Writers, Lays(w),
         WriterStep(w)
  PROVE  Keeping'
<1>1. KeepsOn(w)
  BY KeepsBegin, KeepsPrepare, KeepsJudge, KeepsPlace, KeepsSettle, KeepsCreate, KeepsWrite,
     KeepsPrevious, KeepsFlip, KeepsUnflushed, KeepsAfterFlip, KeepsFailure
     DEF WriterStep, BeginInstall, BeginCompaction
<1>2. lock' \in {w, None}
  BY LockStep DEF LockHeld
<1> QED BY <1>1, <1>2, KeepsAlone DEF KeepsOn, Keeping

\* No one else's step takes a file or a document a pointer names.
LEMMA KeepsOtherStep ==
  ASSUME Unrotted', TypeOK, Keeping, LockHeld,
         \/ \E s \in Scrubs : ScrubStep(s)
         \/ \E r \in Readers : ReaderStep(r)
         \/ \E r \in Releases : Download(r)
         \/ SessionRecover \/ DeviceStep \/ UNCHANGED vars
  PROVE  Keeping'
<1>1. ASSUME UNCHANGED <<file, writer>>, incoming \subseteq incoming', Slotted' \subseteq Slotted,
             DOMAIN gens' = DOMAIN gens, \A k \in DOMAIN gens : gens'[k].doc = gens[k].doc
      PROVE  Keeping'
  <2>1. ASSUME NEW p \in Slotted' PROVE Stays(p)'
    <3>1. Stays(p)
      BY <1>1 DEF Keeping, AllStay
    <3> QED BY <1>1, <3>1, AwayMore, StaysOn DEF Stays, Reads
  <2>2. ASSUME NEW w \in Writers PROVE WriterKeeps(w)'
    <3>1. Lying(w) \subseteq Lying(w)'
      BY <1>1 DEF Lying
    <3>2. \A p \in Slotted : \A s \in Elems(p.doc.segs) :
            Away(p, s, Lying(w)) => Away(p, s, Lying(w))'
      BY <3>1 DEF Away
    <3>3. Made(w)' = Made(w) /\ NewSegment(w)' = NewSegment(w)
      BY <1>1 DEF Made, NewSegment
    <3>4. WriterKeeps(w)
      BY DEF Keeping
    <3> HIDE DEF Lying
    <3> QED BY <1>1, <3>2, <3>3, <3>4 DEF WriterKeeps, Commits, Unflipped
  <2> QED BY <1>1, <2>1, <2>2 DEF Keeping, FilesFit, Fits, AllStay
<1>2. CASE UNCHANGED <<current, previous, gens, file, writer>> /\ incoming \subseteq incoming'
  BY <1>1, <1>2 DEF Slotted
<1>3. CASE SessionRecover
  <2>1. AllStay' /\ \A id \in DOMAIN file' : id \in DOMAIN file /\ file'[id] = file[id]
    BY <1>3, CollectKeeps DEF SessionRecover, Recover, Keeping
  <2>2. \A w \in Writers : writer'[w].pc = "idle"
    BY <1>3, WritersAssumption DEF SessionRecover, LockHeld, Writers
  <2> QED BY <2>1, <2>2 DEF Keeping, FilesFit, Fits, WriterKeeps, Unflipped, Commits
<1>4. CASE HidePointer \/ MendPointers \/ LoseCurrent
  <2>1. /\ UNCHANGED <<gens, file, writer, incoming>>
        /\ current'.to \in {current.to, None} /\ previous'.to \in {previous.to, None}
    BY <1>4 DEF HidePointer, MendPointers, LoseCurrent, NoPointer, TypeOK, Slots, bounded
  <2> QED BY <1>1, <2>1 DEF Slotted
<1>5. ASSUME NEW m, DamageDerived(m), m \in DOMAIN gens PROVE Keeping'
  <2>1. /\ UNCHANGED <<current, previous, file, writer, incoming>> /\ DOMAIN gens' = DOMAIN gens
        /\ \A k \in DOMAIN gens : gens'[k].doc = gens[k].doc
    BY <1>5 DEF DamageDerived, TypeOK
  <2> QED BY <1>1, <2>1 DEF Slotted
<1>6. ASSUME NEW id, Rot(id) PROVE FALSE
  BY <1>6 DEF Rot, Fault, Unrotted, TypeOK
<1> QED BY <1>2, <1>3, <1>4, <1>5, <1>6
        DEF DeviceStep, ScrubStep, ScrubFinds, Condemn, HashAgain, JudgeGenerations,
            SettleCondemned, ScrubStops, ReaderStep, ReadCurrent, ReadPrevious, ReadDocument,
            MapSegments, Close, Download, vars, disk

\* The step of KeepingAlways.
LEMMA KeepingStep ==
  ASSUME OneContent, TypeOK, LockHeld, LockHeld', \A w \in Writers : Takes(w) /\ Lays(w),
         Unrotted => Keeping, [Next]_vars, Unrotted'
  PROVE  Keeping'
<1>1. Keeping
  BY FaultsStay DEF Unrotted
<1> QED BY <1>1, KeepsWriterStep, KeepsOtherStep DEF Next

LEMMA KeepingAlways ==
  ASSUME OneContent
  PROVE  Spec => [](Unrotted => Keeping)
<1> DEFINE Ways == TypeOK /\ LockHeld /\ \A w \in Writers : Takes(w) /\ Lays(w)
<1>1. Init => (Unrotted => Keeping)
  BY DEF Init, NoPointer, IdleWriter, Keeping, AllStay, Slotted, FilesFit, WriterKeeps,
     Unflipped, Commits
<1>2. Ways /\ Ways' /\ (Unrotted => Keeping) /\ [Next]_vars => (Unrotted => Keeping)'
  BY KeepingStep
<1>3. Spec => []Ways
  BY TakesAlways
<1> QED BY <1>1, <1>2, <1>3, PTL DEF Spec

\* No collection, no failed commit and no new generation takes from disk what a
\* pointer names, whatever is interrupted, unreadable or lost.
THEOREM NamedIsKept ==
  ASSUME "rot" \notin FaultKinds, FlipsKept, OneContent
  PROVE  Spec => []NamedStays
<1>1. Unrotted
  BY DEF Unrotted
<1>2. Keeping => NamedStays
  BY DEF Keeping, AllStay, Stays, Away, Slotted, NamedStays, Ids
<1> QED BY <1>1, <1>2, KeepingAlways, PTL

-----------------------------------------------------------------------------
(* Until the first fault nothing shuts a generation either: every verdict names  *)
(* the bytes its segment was published with.                                     *)

WriterFits(w) == writer[w].pc \in Unflipped /\ writer[w].base # None =>
                   \A s \in Elems(writer[w].base.doc.segs) : Fits(s.id, s.sha)
Sound == /\ current.reads /\ previous.reads /\ ScrubsIdle
         /\ \A n \in DOMAIN gens : gens[n].sound
         /\ \A id \in DOMAIN verdict : Fits(id, verdict[id])
         /\ \A p \in Slotted : \A s \in Elems(p.doc.segs) : Fits(s.id, s.sha)
         /\ \A w \in Writers : WriterFits(w)

\* Nothing is damaged in the generation the set opens at.
LEMMA NoneDamaged ==
  ASSUME TypeOK, Keeping, Opened # None
  PROVE  FirstDamaged(Opened.doc) = None
<1> SUFFICES ASSUME FirstDamaged(Opened.doc) # None PROVE FALSE
  OBVIOUS
<1>1. PICK i \in DOMAIN Opened.doc.segs : Opened.doc.segs[i].id = FirstDamaged(Opened.doc)
  BY OpenedType, FoundIsDamaged
<1>2. FirstDamaged(Opened.doc) \in DOMAIN file
  BY <1>1, OpenedHas DEF Ids, Elems
<1>3. Fits(FirstDamaged(Opened.doc), Damaged)
  BY <1>2, OpenedType, FoundIsDamaged DEF Keeping, FilesFit
<1> QED BY <1>3, DamagedAssumption DEF Fits, Bytes, Shas

\* A step that names nothing new and settles nothing.
LEMMA SoundShrinks ==
  ASSUME Sound, UNCHANGED scrub, current'.reads, previous'.reads, Slotted' \subseteq Slotted,
         \A n \in DOMAIN gens' : n \in DOMAIN gens /\ gens'[n] = gens[n],
         \A id \in DOMAIN verdict' : id \in DOMAIN verdict /\ verdict'[id] = verdict[id],
         \A w \in Writers : writer'[w].pc \in Unflipped =>
           writer[w].pc \in Unflipped /\ writer'[w].base = writer[w].base
  PROVE  Sound'
<1>1. \A id \in DOMAIN verdict' : Fits(id, verdict'[id])
  BY DEF Sound
<1>2. \A w \in Writers : WriterFits(w)'
  BY DEF Sound, WriterFits, Fits
<1> QED BY <1>1, <1>2 DEF Sound, ScrubsIdle, Fits

\* A step of one writer leaves the others' documents alone.
LEMMA OthersFit ==
  ASSUME TypeOK, Sound, NEW w \in Writers, WriterStep(w), WriterFits(w)'
  PROVE  \A x \in Writers : WriterFits(x)'
<1>1. \A x \in Writers \ {w} : writer'[x] = writer[x]
  BY LockStep
<1> QED BY <1>1 DEF Sound, WriterFits, Fits

LEMMA SoundWriterStep ==
  ASSUME TypeOK, Sound, Keeping, NEW w \in Writers, WriterStep(w)
  PROVE  Sound'
<1>0. /\ UNCHANGED scrub /\ writer[w] \in WriterStates /\ DOMAIN writer = Writers
      /\ \A x \in Writers \ {w} : writer'[x] = writer[x]
  BY WritersKeep, LockStep DEF TypeOK
<1> DEFINE Still == writer'[w].pc \in Unflipped =>
                      writer[w].pc \in Unflipped /\ writer'[w].base = writer[w].base
           Verdicts == \A id \in DOMAIN verdict' : id \in DOMAIN verdict /\ verdict'[id] = verdict[id]
           Gens == \A n \in DOMAIN gens' : n \in DOMAIN gens /\ gens'[n] = gens[n]
<1>1. ASSUME Still, Verdicts, Gens, UNCHANGED <<current, previous>> PROVE Sound'
  BY <1>0, <1>1, SoundShrinks DEF Sound, Slotted
<1>2. ASSUME CollectGarbage PROVE Verdicts /\ Gens
  BY <1>2 DEF CollectGarbage, Restrict
<1>3. ASSUME Return(w) PROVE Still
  BY <1>0, <1>3 DEF Return, IdleWriter, Unflipped
<1>4. ASSUME NEW pc, Goto(w, pc), writer[w].pc \in Unflipped PROVE Still
  BY <1>4, GotoKeeps
<1>5. ASSUME NEW pc \in {"locked", "merging"}, NEW job, Begin(w, pc, job) PROVE Sound'
  <2>1. writer'[w].pc = pc
    BY <1>0, <1>5 DEF Begin, WriterStates
  <2> QED BY <1>1, <1>2, <1>5, <2>1 DEF Begin, Recover, Unflipped
<1>6. CASE Prepare(w) \/ PrepareCompaction(w)
  <2>1. UNCHANGED <<current, previous, gens, verdict>>
    BY <1>6, NoneDamaged DEF Prepare, PrepareCompaction
  <2>2. CASE Return(w)
    BY <1>1, <1>3, <2>1, <2>2
  <2>3. CASE ~Return(w)
    <3>1. writer'[w].base = Opened
      BY <1>0, <1>6, <2>3, NoneDamaged DEF Prepare, PrepareCompaction, WriterStates
    <3>2. Opened # None => Opened \in Slotted
      BY DEF Opened, Pointer, Slotted
    <3>3. WriterFits(w)'
      BY <3>1, <3>2 DEF WriterFits, Sound, Fits
    <3>4. \A x \in Writers : WriterFits(x)'
      BY <3>3, OthersFit
    <3> QED BY <1>0, <2>1, <3>4 DEF Sound, ScrubsIdle, Slotted, Fits
  <2> QED BY <2>2, <2>3
<1>7. CASE Judge(w)
  <2>1. Still
    <3>1. CASE Return(w)
      BY <1>3, <3>1
    <3>2. CASE ~Return(w)
      BY <1>0, <1>7, <3>2 DEF Judge, WriterStates, Unflipped
    <3> QED BY <3>1, <3>2
  <2> QED BY <1>1, <1>7, <2>1 DEF Judge, disk
<1>8. CASE Place(w)
  BY <1>1, <1>4, <1>8 DEF Place, Unflipped
<1>9. CASE Settle(w) \/ SettleFails(w)
  <2>1. PICK n : n = NewSegment(w)
    OBVIOUS
  <2>2. /\ writer[w].pc = "placed" /\ UNCHANGED <<current, previous, gens>>
        /\ verdict' \in {verdict, SettledVerdict(n.id, n.sha)}
    BY <1>9, <2>1 DEF Settle, SettleFails
  <2>3. Fits(n.id, n.sha)
    BY <2>1, <2>2, MadeSegments DEF Keeping, WriterKeeps, Unflipped
  <2>4. \A id \in DOMAIN verdict' : Fits(id, verdict'[id])
    BY <2>2, <2>3 DEF SettledVerdict, Put, Without, Restrict, Sound
  <2>5. Still
    BY <1>3, <1>4, <1>9, <2>2 DEF Settle, SettleFails, Unflipped
  <2>6. WriterFits(w)'
    BY <2>5 DEF Sound, WriterFits, Fits
  <2>7. \A x \in Writers : WriterFits(x)'
    BY <2>6, OthersFit
  <2> QED BY <1>0, <2>2, <2>4, <2>7 DEF Sound, ScrubsIdle, Slotted, Fits
<1>10. CASE CreateGeneration(w) \/ WriteGeneration(w)
  <2>1. UNCHANGED <<current, previous, verdict>> /\ writer[w].pc \in Unflipped
    BY <1>10 DEF CreateGeneration, WriteGeneration, Unflipped
  <2>2. \A n \in DOMAIN gens' : gens'[n].sound
    <3>1. CASE CreateGeneration(w)
      BY <3>1 DEF CreateGeneration, Put, Sound
    <3>2. CASE WriteGeneration(w)
      <4>1. \A n \in DOMAIN gens : gens[n] = [gens[n] EXCEPT !.sound = gens[n].sound]
        BY DEF TypeOK
      <4> QED BY <3>2, <4>1 DEF WriteGeneration, Sound, TypeOK
    <3> QED BY <1>10, <3>1, <3>2
  <2>3. Still
    <3>1. CASE CreateGeneration(w)
      BY <1>0, <2>1, <3>1 DEF CreateGeneration, WriterStates
    <3>2. CASE WriteGeneration(w)
      BY <1>4, <2>1, <3>2 DEF WriteGeneration
    <3> QED BY <1>10, <3>1, <3>2
  <2>4. WriterFits(w)'
    BY <2>3 DEF Sound, WriterFits, Fits
  <2>5. \A x \in Writers : WriterFits(x)'
    BY <2>4, OthersFit
  <2> QED BY <1>0, <2>1, <2>2, <2>5 DEF Sound, ScrubsIdle, Slotted, Fits
<1>11. CASE WritePrevious(w)
  <2>1. /\ writer[w].pc = "written" /\ Goto(w, "previous") /\ UNCHANGED <<current, gens, verdict>>
        /\ previous' = IF FallbackFor(w) = None THEN previous
                       ELSE [to |-> FallbackFor(w), reads |-> TRUE]
    BY <1>11 DEF WritePrevious
  <2>2. FallbackFor(w) # None =>
          FallbackFor(w) \in Slotted \/ (writer[w].base # None /\ FallbackFor(w) = writer[w].base)
    BY DEF FallbackFor, Pointer, Slotted
  <2>3. FallbackFor(w) # None =>
          \A s \in Elems(FallbackFor(w).doc.segs) : Fits(s.id, s.sha)
    BY <2>1, <2>2 DEF Sound, WriterFits, Unflipped
  <2>4. \A p \in Slotted' : p \in Slotted \/ (FallbackFor(w) # None /\ p = FallbackFor(w))
    BY <2>1 DEF Slotted
  <2>5. Still
    BY <1>4, <2>1 DEF Unflipped
  <2>6. WriterFits(w)'
    BY <2>1, <2>5 DEF Sound, WriterFits, Fits
  <2>7. \A x \in Writers : WriterFits(x)'
    BY <2>6, OthersFit
  <2>8. previous'.reads
    BY <2>1 DEF Sound
  <2> QED BY <1>0, <2>1, <2>3, <2>4, <2>7, <2>8 DEF Sound, ScrubsIdle, Fits
<1>12. CASE FlipCurrent(w) \/ FlipUnflushed(w)
  <2>1. /\ writer[w].pc = "previous" /\ current' = NewPointer(w)
        /\ UNCHANGED <<previous, gens, verdict>> /\ writer'[w].pc \in {"flipped", "idle"}
    BY <1>0, <1>12, GotoKeeps DEF FlipCurrent, FlipUnflushed, Return, IdleWriter
  <2>2. PICK p : p = NewPointer(w).to
    OBVIOUS
  <2>3. p.doc = writer[w].new /\ current'.to = p /\ current'.reads
    BY <2>1, <2>2 DEF NewPointer
  <2>4. \A s \in Elems(p.doc.segs) : Fits(s.id, s.sha)
    BY <2>1, <2>3, MadeSegments DEF Keeping, WriterKeeps, Sound, WriterFits, Unflipped
  <2>5. \A x \in Writers : WriterFits(x)'
    BY <2>1, OthersFit DEF WriterFits, Unflipped
  <2>6. Slotted' \subseteq Slotted \cup {p}
    BY <2>1, <2>3 DEF Slotted
  <2> QED BY <1>0, <2>1, <2>3, <2>4, <2>5, <2>6 DEF Sound, ScrubsIdle, Fits
<1>13. CASE DiscardPrevious(w)
  <2>1. /\ UNCHANGED <<current, gens, verdict>> /\ previous' \in {NoPointer, previous}
        /\ writer'[w].pc = "discarded"
    BY <1>13, GotoKeeps DEF DiscardPrevious
  <2>2. /\ Still /\ current'.reads /\ previous'.reads /\ Slotted' \subseteq Slotted
    BY <2>1 DEF Unflipped, Sound, NoPointer, Slotted
  <2> QED BY <1>0, <2>1, <2>2, SoundShrinks
<1>14. CASE Finish(w)
  BY <1>1, <1>2, <1>3, <1>14 DEF Finish
<1>15. CASE FinishUncollected(w) \/ Abort(w) \/ CommitFails(w) \/ Crash(w)
  BY <1>1, <1>3, <1>15 DEF FinishUncollected, Abort, CommitFails, Crash, disk
<1> QED BY <1>5, <1>6, <1>7, <1>8, <1>9, <1>10, <1>11, <1>12, <1>13, <1>14, <1>15
        DEF WriterStep, BeginInstall, BeginCompaction

\* No one else's step but a fault spoils anything.
LEMMA SoundOtherStep ==
  ASSUME TypeOK, Sound, Keeping, faults = 0, faults' = 0,
         \/ \E s \in Scrubs : ScrubStep(s)
         \/ \E r \in Readers : ReaderStep(r)
         \/ \E r \in Releases : Download(r)
         \/ SessionRecover \/ DeviceStep \/ UNCHANGED vars
  PROVE  Sound'
<1>1. CASE UNCHANGED <<current, previous, gens, verdict, writer, scrub>>
  BY <1>1, SoundShrinks DEF Sound, Slotted
<1>2. CASE SessionRecover
  <2>1. /\ UNCHANGED <<current, previous, writer, scrub>>
        /\ \A n \in DOMAIN gens' : n \in DOMAIN gens /\ gens'[n] = gens[n]
        /\ \A id \in DOMAIN verdict' : id \in DOMAIN verdict /\ verdict'[id] = verdict[id]
    BY <1>2 DEF SessionRecover, Recover, CollectGarbage, Restrict
  <2> QED BY <2>1, SoundShrinks DEF Sound, Slotted
<1>3. ASSUME NEW s \in Scrubs, ScrubStep(s) PROVE FALSE
  <2>1. scrub[s].pc = "idle"
    BY DEF Sound, ScrubsIdle
  <2>2. ScrubFinds(s)
    BY <1>3, <2>1 DEF ScrubStep, Condemn, HashAgain, JudgeGenerations, SettleCondemned, ScrubStops
  <2> QED BY <2>2, NoneDamaged DEF ScrubFinds
<1>4. CASE DeviceStep
  BY <1>4 DEF DeviceStep, Rot, HidePointer, MendPointers, LoseCurrent, DamageDerived, Fault,
     Sound
<1> QED BY <1>1, <1>2, <1>3, <1>4
        DEF ReaderStep, ReadCurrent, ReadPrevious, ReadDocument, MapSegments, Close, Download,
            vars, disk

LEMMA SoundAlways ==
  ASSUME OneContent
  PROVE  Spec => [](faults = 0 => Sound /\ Keeping)
<1>1. Init => Sound
  BY DEF Init, NoPointer, IdleWriter, IdleScrub, Sound, ScrubsIdle, Slotted, WriterFits, Unflipped
<1>2. /\ TypeOK /\ (faults = 0 => Keeping) /\ (faults = 0 => Sound) /\ [Next]_vars
      => (faults = 0 => Sound)'
  <2> SUFFICES ASSUME TypeOK, faults = 0 => Keeping, faults = 0 => Sound, [Next]_vars,
                      faults' = 0
               PROVE  Sound'
    OBVIOUS
  <2>1. faults = 0
    BY FaultsStay
  <2> QED BY <2>1, SoundWriterStep, SoundOtherStep DEF Next
<1>3. (Unrotted => Keeping) => (faults = 0 => Keeping)
  BY DEF Unrotted
<1> QED BY <1>1, <1>2, <1>3, KeepingAlways, TypeCorrect, PTL DEF Spec

\* Until something on the device is damaged or lost, every generation a pointer
\* names opens, whatever install, compaction or collection failed or was cut off;
\* or it lacks its newest segment alone, which is in incoming/, once a flip went
\* unflushed. Where that and a download can meet, as long as one id is never
\* published with two contents.
THEOREM PointersAlwaysOpen ==
  ASSUME FlipsKept \/ OneContent
  PROVE  Spec => [](faults = 0 => PointersOpen)
<1>1. CASE FlipsKept
  BY <1>1, SafeOpens
<1>2. CASE OneContent
  <2>1. Sound /\ Keeping => PointersOpen
    <3> SUFFICES ASSUME Sound, Keeping, NEW p \in Slotted PROVE Opens(p) \/ LacksGivenBack(p)
      BY DEF PointersOpen, Slotted
    <3>1. Stays(p) /\ gens[p.gen].sound
      BY DEF Keeping, AllStay, Sound, Stays, Reads
    <3>2. ~Condemned(p.doc)
      BY <1>2, FitsOne DEF Sound, Condemned, Condemns
    <3>3. CASE FlipsKept
      BY <3>1, <3>2, <3>3 DEF Stays, Away, Opens, Ids
    <3>4. CASE ~FlipsKept
      BY <3>1, <3>2, <3>4 DEF Stays, Away, LacksGivenBack, GivenBack, FlipsKept
    <3> QED BY <3>3, <3>4
  <2> QED BY <1>2, <2>1, SoundAlways, PTL
<1> QED BY <1>1, <1>2

=============================================================================
