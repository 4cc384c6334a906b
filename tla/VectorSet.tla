------------------------------ MODULE VectorSet ------------------------------
(***************************************************************************)
(* The set of vector segments on a device (src/src/semantic/segment_set): *)
(* two pointers, the generations they name, the segment files those name,  *)
(* and the verdicts that keep a generation shut.  Installs and compactions *)
(* run under the set's lock, one durable step at a time; a scrub condemns  *)
(* damaged bytes without the lock; a reader opens the set without it.      *)
(*                                                                         *)
(* A SHA-256 is the identity of the bytes it is taken of, so bytes and     *)
(* their digest are one value; a digest of a set.json is the document.     *)
(***************************************************************************)
EXTENDS Naturals, Sequences, FiniteSets, Functions

CONSTANTS
  Releases,    \* published segments: [id, sha, kind, from, to, model]
  Downloads,   \* those a host hands over through incoming/; others are copied
  FallsBackTo, \* <<newer model, older model>> a host of the first can open
  Installers,  \* installs running in any process
  Compactors,  \* compactions running in any process
  Scrubs,      \* scrubs running in any process
  Readers,     \* sessions that open without recovery
  Damaged,     \* what a segment file holds once its bytes are damaged
  None,        \* no file, no pointer, nothing read
  LastGen,     \* the last generation number there is, u64::MAX
  MaxGen,      \* bound on the generation numbers an install takes
  FaultKinds,  \* the faults of a run: "rot", "unreadable", "lost", "derived"
  Midway,      \* the faults that may strike while a writer runs
  MaxFaults,   \* bound on faults
  MaxCrashes,  \* bound on crashes
  UnflushedFlip \* whether a pointer's directory may fail to flush

\* Published bytes, and the merges of them.
Shas  == {r.sha : r \in Releases}
Bytes == Shas \cup Seq(Shas)

ASSUME ReleasesAssumption ==
  \A r \in Releases : r.kind \in {"base", "delta"} /\ r.to \in Nat
ASSUME DownloadsAssumption == Downloads \subseteq Releases
ASSUME DamagedAssumption == Damaged \notin Bytes
ASSUME WritersAssumption == None \notin Installers \cup Compactors
ASSUME BoundsAssumption  ==
  /\ LastGen \in Nat /\ MaxGen \in 0..LastGen
  /\ MaxFaults \in Nat /\ MaxCrashes \in Nat

VARIABLES
  current,   \* CURRENT:  [to |-> pointer or None, reads |-> BOOLEAN]
  previous,  \* PREVIOUS, likewise
  gens,      \* generation number -> [doc |-> set.json or None, sound |-> BOOLEAN]
  file,      \* segments/<id>.oxv -> its bytes
  verdict,   \* segments/<id>.corrupt -> the bytes it names
  staging,   \* segments lying in staging/
  incoming,  \* releases lying in incoming/
  lock,      \* the writer that holds .lock, or None
  writer,    \* what each writer has in memory
  scrub,     \* what each scrub has in memory
  reader,    \* what each reader has in memory
  faults,
  crashes

Writers == Installers \cup Compactors

disk    == <<current, previous, gens, file, verdict, staging, incoming>>
bounded == <<faults, crashes>>
vars    == <<disk, lock, writer, scrub, reader, bounded>>

-----------------------------------------------------------------------------
(* Values *)

NoPointer == [to |-> None, reads |-> TRUE]
IdleWriter == [pc |-> "idle", job |-> None, take |-> FALSE, base |-> None,
               new |-> None, gen |-> 0, placed |-> None]
IdleScrub  == [pc |-> "idle", id |-> None, held |-> None, settle |-> FALSE]
IdleReader == [pc |-> "idle", cur |-> None, prev |-> None, doc |-> None,
               served |-> <<>>, opens |-> FALSE]

Put(f, k, v) == [x \in DOMAIN f \cup {k} |-> IF x = k THEN v ELSE f[x]]
Without(f, k) == Restrict(f, DOMAIN f \ {k})
Elems(s) == {s[i] : i \in DOMAIN s}

\* A segment as a generation names it, and the document of a generation.
SegmentOf(r) == [id |-> r.id, sha |-> r.sha, kind |-> r.kind, to |-> r.to]
Version(doc) == doc.segs[Len(doc.segs)].to
Ids(doc)     == {s.id : s \in Elems(doc.segs)}

\* The releases a document holds, merged or not, oldest first.
Content(doc) ==
  (IF doc.segs[1].kind = "compacted" THEN doc.segs[1].sha ELSE <<doc.segs[1].sha>>)
    \o [i \in 1..(Len(doc.segs) - 1) |-> doc.segs[i + 1].sha]

\* What a compaction writes: its id and its bytes are those of what it merges.
Merged(doc) == [id |-> Content(doc), sha |-> Content(doc), kind |-> "compacted",
                to |-> Version(doc)]

-----------------------------------------------------------------------------
(* Reading the set *)

\* read_pointer: a pointer file there is and that reads.
Pointer(slot) == IF slot.reads THEN slot.to ELSE None

\* read_generation: the pointer's generation is there, whole, and the one named.
Reads(p) == /\ p # None
            /\ p.gen \in DOMAIN gens
            /\ gens[p.gen].doc = p.doc

Condemns(s)   == s.id \in DOMAIN verdict /\ verdict[s.id] # s.sha
Condemned(doc) == \E s \in Elems(doc.segs) : Condemns(s)

\* SegmentSet::open_generation: every segment is where the document says and no
\* verdict stands against the bytes it names; the vectors are not read.
Opens(p) == /\ Reads(p)
            /\ ~Condemned(p.doc)
            /\ gens[p.gen].sound
            /\ Ids(p.doc) \subseteq DOMAIN file

\* SegmentSet::open_unlocked: CURRENT's generation, or else PREVIOUS's.
Opened == IF Opens(Pointer(current)) THEN Pointer(current)
          ELSE IF Opens(Pointer(previous)) THEN Pointer(previous)
          ELSE None

\* The pointers that read; live_generations; and whether one of them names exactly these bytes.
Named == {Pointer(current), Pointer(previous)} \ {None}
LivePointers == {p \in Named : Opens(p)}
Served(id, bytes) ==
  \E p \in LivePointers : \E s \in Elems(p.doc.segs) : s.id = id /\ s.sha = bytes

\* falls_back_to over a pointer whose generation reads.
UsableFallback(p, doc) == Reads(p) /\ <<doc.model, p.doc.model>> \in FallsBackTo

\* settle_verdict: does a generation on disk name other bytes for the segment?
NamesOther(id, bytes) ==
  \E n \in DOMAIN gens : /\ gens[n].doc # None
                         /\ \E s \in Elems(gens[n].doc.segs) :
                              s.id = id /\ s.sha # bytes
\* Mutant: a verified file always clears its verdict.
ClearedVerdict(id, bytes) == Without(verdict, id)
SettledVerdict(id, bytes) ==
  IF NamesOther(id, bytes) THEN Put(verdict, id, bytes) ELSE Without(verdict, id)

\* Mutant: the lowest number that no pointer that reads names.
LowestUnnamed(n) ==
  LET free == 1..LastGen \ {p.gen : p \in Named} IN n \in free /\ \A m \in free : n <= m

\* next_generation: one past every number on disk or in a pointer that reads, the
\* last of all aside that only a pointer names; or, where the last is on disk, the
\* lowest that is neither there nor named.
Numbers == 1..MaxGen
NamedGens == {p.gen : p \in Named}
Numbered == DOMAIN gens \cup (NamedGens \ {LastGen})
NextGeneration(n) ==
  \/ /\ LastGen \notin DOMAIN gens
     /\ \A m \in Numbered : m < n
     /\ n = 1 \/ n - 1 \in Numbered
  \/ LET free == 1..(LastGen - 1) \ (DOMAIN gens \cup NamedGens) IN
     /\ LastGen \in DOMAIN gens
     /\ n \in free /\ \A m \in free : n <= m

-----------------------------------------------------------------------------
(* Collecting garbage and recovering *)

\* What the pointers name is known: each that is there reads, and so does its
\* generation; PREVIOUS alone tells nothing of what CURRENT named.
Collectable ==
  /\ \A slot \in {current, previous} : slot.reads /\ (slot.to # None => Reads(slot.to))
  /\ ~(current.to = None /\ previous.to # None)

\* Mutants: only CURRENT's generation, or only its segments, are live.
LiveGensOfCurrent == {p.gen : p \in {Pointer(current)} \ {None}}
LiveIdsOfCurrent == UNION {Ids(p.doc) : p \in {Pointer(current)} \ {None}}
LiveGens == {p.gen : p \in Named}
LiveIds == UNION {Ids(p.doc) : p \in Named}

\* collect_garbage: any removal may fail, and a crash leaves the rest.
CollectGarbage ==
  IF Collectable
  THEN /\ \E kept \in SUBSET (DOMAIN gens \ LiveGens) :
            gens' = Restrict(gens, DOMAIN gens \cap (LiveGens \cup kept))
       /\ \E kept \in SUBSET (DOMAIN file \ LiveIds) :
            file' = Restrict(file, DOMAIN file \cap (LiveIds \cup kept))
       /\ \E kept \in SUBSET (DOMAIN verdict \ LiveIds) :
            verdict' = Restrict(verdict, DOMAIN verdict \cap (LiveIds \cup kept))
  ELSE UNCHANGED <<gens, file, verdict>>

\* recover, under the lock.
Recover == staging' = {} /\ CollectGarbage

\* Mutant: a session recovers beside an install.
SessionRecoverUnlocked ==
  Recover /\ UNCHANGED <<current, previous, incoming, lock, writer, scrub, reader, bounded>>

\* SegmentSet::open takes the lock if it is free, recovers and lets it go.
SessionRecover ==
  /\ lock = None
  /\ Recover
  /\ UNCHANGED <<current, previous, incoming, lock, writer, scrub, reader, bounded>>

-----------------------------------------------------------------------------
(* Installing and compacting: one action per durable step *)

NewSegment(w) == writer[w].new.segs[Len(writer[w].new.segs)]

\* The writer returns and the lock drops.
Return(w) == lock' = None /\ writer' = [writer EXCEPT ![w] = IdleWriter]
Goto(w, pc) == writer' = [writer EXCEPT ![w].pc = pc] /\ UNCHANGED lock

\* A release the host downloads for the set to take.
Download(r) ==
  /\ r \in Downloads \ incoming
  /\ \A w \in Writers : writer[w].job # r
  /\ incoming' = incoming \cup {r}
  /\ UNCHANGED <<current, previous, gens, file, verdict, staging, lock, writer,
                 scrub, reader, bounded>>

\* install_package and compact begin alike: the lock, or a refusal, and recovery.
Begin(w, pc, job) ==
  /\ writer[w].pc = "idle" /\ lock = None
  /\ lock' = w
  /\ writer' = [writer EXCEPT ![w].pc = pc, ![w].job = job,
                              ![w].take = job \in Downloads]
  /\ Recover
  /\ UNCHANGED <<current, previous, incoming, scrub, reader, bounded>>

BeginInstall(w, r) == w \in Installers /\ (r \in Downloads => r \in incoming) /\ Begin(w, "locked", r)
BeginCompaction(w) == w \in Compactors /\ Begin(w, "merging", None)

\* check_delta_applies, push: what a release makes of the document it applies to.
Applies(r, doc) == /\ r.model = doc.model
                   /\ r.from = Version(doc) /\ r.to > Version(doc)
                   /\ r.id \notin Ids(doc)
\* Mutant: a delta's generation starts empty, as a base's does.
NewDocumentAlone(r, doc) == [model |-> r.model, segs |-> <<SegmentOf(r)>>]
NewDocument(r, doc) ==
  IF r.kind = "base" THEN [model |-> r.model, segs |-> <<SegmentOf(r)>>]
  ELSE [model |-> doc.model, segs |-> Append(doc.segs, SegmentOf(r))]

\* Steps 2 to 4 of an install: the release applies, its segment is verified and
\* its keys resolved.
Prepare(w) ==
  LET r == writer[w].job IN
  /\ writer[w].pc = "locked"
  /\ IF r.kind = "base" \/ (Opened # None /\ Applies(r, Opened.doc))
     THEN /\ writer' = [writer EXCEPT ![w].pc = "staged", ![w].base = Opened,
                          ![w].new = NewDocument(r, IF Opened = None THEN None
                                                    ELSE Opened.doc)]
          /\ staging' = IF writer[w].take THEN staging ELSE staging \cup {r.id}
          /\ UNCHANGED lock
     ELSE Return(w) /\ UNCHANGED staging
  /\ UNCHANGED <<current, previous, gens, file, verdict, incoming, scrub, reader, bounded>>

\* A compaction reads every block of its sources, and condemns the first that
\* fails; otherwise it merges them into staging/.
FirstDamaged(doc) ==
  LET bad == {i \in DOMAIN doc.segs : file[doc.segs[i].id] = Damaged}
  IN  IF bad = {} THEN None
      ELSE doc.segs[CHOOSE i \in bad : \A j \in bad : i <= j].id

PrepareCompaction(w) ==
  /\ writer[w].pc = "merging"
  /\ IF Opened = None THEN Return(w) /\ UNCHANGED <<verdict, staging>>
     ELSE LET bad == FirstDamaged(Opened.doc)
              new == [model |-> Opened.doc.model, segs |-> <<Merged(Opened.doc)>>]
          IN  IF bad # None
              THEN /\ verdict' = Put(verdict, bad, Damaged)
                   /\ Return(w) /\ UNCHANGED staging
              ELSE /\ writer' = [writer EXCEPT ![w].pc = "staged",
                                   ![w].base = Opened, ![w].new = new]
                   /\ staging' = staging \cup {new.segs[1].id}
                   /\ UNCHANGED <<lock, verdict>>
  /\ UNCHANGED <<current, previous, gens, file, incoming, scrub, reader, bounded>>

\* Mutant: a file of that name is taken for the segment without a look at its bytes.
JudgeByName(w) ==
  /\ writer[w].pc = "staged"
  /\ writer' = [writer EXCEPT ![w].pc = "judged",
       ![w].placed = IF NewSegment(w).id \in DOMAIN file THEN "kept" ELSE "new"]
  /\ UNCHANGED <<disk, lock, scrub, reader, bounded>>

\* place_segment hashes the file of that name, and refuses to replace bytes a
\* generation that opens names.
Judge(w) ==
  LET s == NewSegment(w) IN
  /\ writer[w].pc = "staged"
  /\ IF s.id \in DOMAIN file /\ file[s.id] # s.sha /\ Served(s.id, file[s.id])
     THEN Return(w)
     ELSE /\ writer' = [writer EXCEPT ![w].pc = "judged",
                ![w].placed = IF s.id \notin DOMAIN file THEN "new"
                              ELSE IF file[s.id] = s.sha THEN "kept" ELSE "replaced"]
          /\ UNCHANGED lock
  /\ UNCHANGED <<disk, scrub, reader, bounded>>

\* Mutant: the download of a segment that was there already is removed too soon.
PlaceTaking(w) ==
  LET s == NewSegment(w) IN
  /\ writer[w].pc = "judged"
  /\ file' = IF writer[w].placed = "kept" THEN file ELSE Put(file, s.id, s.sha)
  /\ incoming' = incoming \ {writer[w].job}
  /\ staging' = IF writer[w].placed = "kept" THEN staging ELSE staging \ {s.id}
  /\ Goto(w, "placed")
  /\ UNCHANGED <<current, previous, gens, verdict, scrub, reader, bounded>>

\* The rename that places it; a merged segment already there lets its copy go.
Place(w) ==
  LET s == NewSegment(w) IN
  /\ writer[w].pc = "judged"
  /\ file' = IF writer[w].placed = "kept" THEN file ELSE Put(file, s.id, s.sha)
  /\ IF writer[w].take
     THEN /\ incoming' = IF writer[w].placed = "kept" THEN incoming
                         ELSE incoming \ {writer[w].job}
          /\ UNCHANGED staging
     ELSE /\ staging' = IF writer[w].placed = "kept" /\ writer[w].job # None
                        THEN staging ELSE staging \ {s.id}
          /\ UNCHANGED incoming
  /\ Goto(w, "placed")
  /\ UNCHANGED <<current, previous, gens, verdict, scrub, reader, bounded>>

Settle(w) ==
  /\ writer[w].pc = "placed"
  /\ verdict' = SettledVerdict(NewSegment(w).id, NewSegment(w).sha)
  /\ Goto(w, "moved")
  /\ UNCHANGED <<current, previous, gens, file, staging, incoming, scrub, reader, bounded>>

\* Mutant: what was placed goes back to staging/, a download too.
GiveBackStaged(w) ==
  /\ file' = Without(file, NewSegment(w).id)
  /\ staging' = staging \cup {NewSegment(w).id} /\ UNCHANGED incoming

\* The file goes back where it came from, or cannot be moved and stays.
GiveBack(w) ==
  \/ /\ file' = Without(file, NewSegment(w).id)
     /\ IF writer[w].take
        THEN incoming' = incoming \cup {writer[w].job} /\ UNCHANGED staging
        ELSE staging' = staging \cup {NewSegment(w).id} /\ UNCHANGED incoming
  \/ UNCHANGED <<file, staging, incoming>>

\* The verdict could not be settled, or not flushed: what was placed goes back.
SettleFails(w) ==
  /\ writer[w].pc = "placed"
  /\ verdict' \in {verdict, SettledVerdict(NewSegment(w).id, NewSegment(w).sha)}
  /\ IF writer[w].placed = "kept" THEN UNCHANGED <<file, staging, incoming>> ELSE GiveBack(w)
  /\ Return(w)
  /\ UNCHANGED <<current, previous, gens, scrub, reader, bounded>>

\* commit: a directory of a number no other has, then its documents.
CreateGeneration(w) ==
  /\ writer[w].pc = "moved"
  /\ \E n \in Numbers :
       /\ NextGeneration(n)
       /\ gens' = Put(gens, n, [doc |-> None, sound |-> TRUE])
       /\ writer' = [writer EXCEPT ![w].pc = "created", ![w].gen = n]
  /\ UNCHANGED <<current, previous, file, verdict, staging, incoming, lock, scrub, reader, bounded>>

WriteGeneration(w) ==
  /\ writer[w].pc = "created"
  /\ gens' = [gens EXCEPT ![writer[w].gen].doc = writer[w].new]
  /\ Goto(w, "written")
  /\ UNCHANGED <<current, previous, file, verdict, staging, incoming, scrub, reader, bounded>>

\* Mutant: PREVIOUS becomes what CURRENT names, whether it opened or not.
FallbackCurrent(w) ==
  IF UsableFallback(Pointer(current), writer[w].new) THEN Pointer(current) ELSE None

\* PREVIOUS becomes the generation the set was opened at, or what CURRENT names
\* when none opened, if that is a fallback of the new one.
FallbackFor(w) ==
  LET p == IF writer[w].base # None THEN writer[w].base ELSE Pointer(current)
  IN  IF UsableFallback(p, writer[w].new) THEN p ELSE None

WritePrevious(w) ==
  /\ writer[w].pc = "written"
  /\ previous' = IF FallbackFor(w) = None THEN previous
                 ELSE [to |-> FallbackFor(w), reads |-> TRUE]
  /\ Goto(w, "previous")
  /\ UNCHANGED <<current, gens, file, verdict, staging, incoming, scrub, reader, bounded>>

NewPointer(w) == [to |-> [gen |-> writer[w].gen, doc |-> writer[w].new], reads |-> TRUE]

FlipCurrent(w) ==
  /\ writer[w].pc = "previous"
  /\ current' = NewPointer(w)
  /\ Goto(w, "flipped")
  /\ UNCHANGED <<previous, gens, file, verdict, staging, incoming, scrub, reader, bounded>>

\* What is discarded after the flip: a PREVIOUS that is no fallback.
Discards(w) == ~previous.reads \/ (previous.to # None
                                   /\ ~UsableFallback(previous.to, writer[w].new))

DiscardPrevious(w) ==
  /\ writer[w].pc = "flipped"
  /\ previous' = IF Discards(w) THEN NoPointer ELSE previous
  /\ Goto(w, "discarded")
  /\ UNCHANGED <<current, gens, file, verdict, staging, incoming, scrub, reader, bounded>>

\* The staged copy, or the download, of a segment that was kept is not needed.
DropKept(w) ==
  IF writer[w].placed = "kept" /\ writer[w].job # None
  THEN /\ staging' = staging \ {NewSegment(w).id}
       /\ incoming' = incoming \ {writer[w].job}
  ELSE UNCHANGED <<staging, incoming>>

Finish(w) ==
  /\ writer[w].pc = "discarded"
  /\ CollectGarbage /\ DropKept(w) /\ Return(w)
  /\ UNCHANGED <<current, previous, scrub, reader, bounded>>

\* PREVIOUS could not be removed: nothing is collected.
FinishUncollected(w) ==
  /\ writer[w].pc = "flipped" /\ Discards(w)
  /\ DropKept(w) /\ Return(w)
  /\ UNCHANGED <<current, previous, gens, file, verdict, scrub, reader, bounded>>

\* An install or a compaction fails or is cancelled before it places anything.
Abort(w) ==
  /\ writer[w].pc \in {"locked", "merging", "staged", "judged"}
  /\ Return(w)
  /\ UNCHANGED <<disk, scrub, reader, bounded>>

\* A write fails between the placement and the flip: a download goes back, if it
\* can be moved.
GiveBackDownload(w) ==
  IF writer[w].take /\ writer[w].placed # "kept" THEN GiveBack(w)
  ELSE UNCHANGED <<file, staging, incoming>>

CommitFails(w) ==
  /\ writer[w].pc \in {"moved", "created", "written", "previous"}
  /\ GiveBackDownload(w) /\ Return(w)
  /\ UNCHANGED <<current, previous, gens, verdict, scrub, reader, bounded>>

\* write_atomically renames, then flushes the directory: a flush that fails is
\* a failure of the commit, with CURRENT already renamed.
FlipUnflushed(w) ==
  /\ UnflushedFlip /\ writer[w].pc = "previous"
  /\ current' = NewPointer(w)
  /\ GiveBackDownload(w) /\ Return(w)
  /\ UNCHANGED <<previous, gens, verdict, scrub, reader, bounded>>

Crash(w) ==
  /\ writer[w].pc # "idle" /\ crashes < MaxCrashes
  /\ crashes' = crashes + 1
  /\ Return(w)
  /\ UNCHANGED <<disk, scrub, reader, faults>>

WriterStep(w) ==
  \/ \E r \in Releases : BeginInstall(w, r)
  \/ BeginCompaction(w)
  \/ Prepare(w) \/ PrepareCompaction(w) \/ Judge(w) \/ Place(w)
  \/ Settle(w) \/ SettleFails(w) \/ CreateGeneration(w) \/ WriteGeneration(w)
  \/ WritePrevious(w) \/ FlipCurrent(w) \/ FlipUnflushed(w) \/ DiscardPrevious(w)
  \/ Finish(w) \/ FinishUncollected(w) \/ Abort(w) \/ CommitFails(w) \/ Crash(w)

-----------------------------------------------------------------------------
(* Scrubbing, without the lock *)

\* scrub opens the set, maps it, and finds a segment whose mapped bytes fail.
ScrubFinds(s) ==
  /\ scrub[s].pc = "idle" /\ Opened # None /\ FirstDamaged(Opened.doc) # None
  /\ scrub' = [scrub EXCEPT ![s].pc = "found", ![s].id = FirstDamaged(Opened.doc)]
  /\ UNCHANGED <<disk, lock, writer, reader, bounded>>

\* condemn: a verdict on the bytes that failed ...
Condemn(s) ==
  /\ scrub[s].pc = "found"
  /\ verdict' = Put(verdict, scrub[s].id, Damaged)
  /\ scrub' = [scrub EXCEPT ![s].pc = "condemned"]
  /\ UNCHANGED <<current, previous, gens, file, staging, incoming, lock, writer, reader, bounded>>

\* Mutant: the file is not looked at again.
HashAgainNever(s) ==
  /\ scrub[s].pc = "condemned"
  /\ scrub' = [scrub EXCEPT ![s] = IdleScrub]
  /\ UNCHANGED <<disk, lock, writer, reader, bounded>>

\* ... which stands if the file still holds them, or cannot be hashed ...
HashAgain(s) ==
  LET id == scrub[s].id IN
  /\ scrub[s].pc = "condemned"
  /\ scrub' = IF id \in DOMAIN file /\ file[id] # Damaged
              THEN [scrub EXCEPT ![s].pc = "superseded", ![s].held = file[id]]
              ELSE [scrub EXCEPT ![s] = IdleScrub]
  /\ UNCHANGED <<disk, lock, writer, reader, bounded>>

\* ... and is settled for the bytes it holds now if it does not.
JudgeGenerations(s) ==
  /\ scrub[s].pc = "superseded"
  /\ scrub' = [scrub EXCEPT ![s].pc = "settling",
                            ![s].settle = NamesOther(scrub[s].id, scrub[s].held)]
  /\ UNCHANGED <<disk, lock, writer, reader, bounded>>

SettleCondemned(s) ==
  /\ scrub[s].pc = "settling"
  /\ verdict' = IF scrub[s].settle THEN Put(verdict, scrub[s].id, scrub[s].held)
                ELSE Without(verdict, scrub[s].id)
  /\ scrub' = [scrub EXCEPT ![s] = IdleScrub]
  /\ UNCHANGED <<current, previous, gens, file, staging, incoming, lock, writer, reader, bounded>>

\* A crash, or a cancellation, cuts the scrub off for good.
ScrubStops(s) ==
  /\ scrub[s].pc \notin {"idle", "stopped"}
  /\ scrub' = [scrub EXCEPT ![s] = [IdleScrub EXCEPT !.pc = "stopped"]]
  /\ UNCHANGED <<disk, lock, writer, reader, bounded>>

ScrubStep(s) == ScrubFinds(s) \/ Condemn(s) \/ HashAgain(s) \/ JudgeGenerations(s)
                \/ SettleCondemned(s) \/ ScrubStops(s)

-----------------------------------------------------------------------------
(* Opening without the lock: open_without_recovery *)

ReadCurrent(r) ==
  /\ reader[r].pc = "idle"
  /\ reader' = [reader EXCEPT ![r].pc = "current", ![r].cur = Pointer(current),
                              ![r].opens = Opened # None]
  /\ UNCHANGED <<disk, lock, writer, scrub, bounded>>

ReadPrevious(r) ==
  /\ reader[r].pc = "current"
  /\ reader' = [reader EXCEPT ![r].prev = Pointer(previous),
                              ![r].pc = IF reader[r].cur = None THEN "fallback" ELSE "first"]
  /\ UNCHANGED <<disk, lock, writer, scrub, bounded>>

\* The pointer being opened: CURRENT's as read, then PREVIOUS's if it differs.
Trying(r) == IF reader[r].pc = "first" THEN reader[r].cur
             ELSE IF reader[r].prev # reader[r].cur THEN reader[r].prev ELSE None
GiveUp(r) == [reader EXCEPT ![r].pc = IF reader[r].pc \in {"first", "firstDoc"}
                                      THEN "fallback" ELSE "failed",
                            ![r].doc = None]

\* The document, the verdicts, then the derived files and the segments.
ReadDocument(r) ==
  /\ reader[r].pc \in {"first", "fallback"}
  /\ reader' = IF Reads(Trying(r)) /\ ~Condemned(Trying(r).doc)
               THEN [reader EXCEPT ![r].doc = Trying(r),
                       ![r].pc = IF @ = "first" THEN "firstDoc" ELSE "fallbackDoc"]
               ELSE GiveUp(r)
  /\ UNCHANGED <<disk, lock, writer, scrub, bounded>>

MapSegments(r) ==
  LET p == reader[r].doc IN
  /\ reader[r].pc \in {"firstDoc", "fallbackDoc"}
  /\ reader' = IF p.gen \in DOMAIN gens /\ gens[p.gen].sound /\ Ids(p.doc) \subseteq DOMAIN file
               THEN [reader EXCEPT ![r].pc = "open",
                       ![r].served = [i \in DOMAIN p.doc.segs |-> file[p.doc.segs[i].id]]]
               ELSE GiveUp(r)
  /\ UNCHANGED <<disk, lock, writer, scrub, bounded>>

Close(r) ==
  /\ reader[r].pc \in {"open", "failed"}
  /\ reader' = [reader EXCEPT ![r] = IdleReader]
  /\ UNCHANGED <<disk, lock, writer, scrub, bounded>>

ReaderStep(r) == ReadCurrent(r) \/ ReadPrevious(r) \/ ReadDocument(r)
                 \/ MapSegments(r) \/ Close(r)

-----------------------------------------------------------------------------
(* Faults of the device *)

Fault(kind) == /\ kind \in FaultKinds /\ faults < MaxFaults
               /\ lock # None => kind \in Midway
               /\ faults' = faults + 1

\* A vector block is damaged: nothing an open reads shows it.
Rot(id) ==
  /\ Fault("rot") /\ file[id] # Damaged
  /\ file' = [file EXCEPT ![id] = Damaged]
  /\ UNCHANGED <<current, previous, gens, verdict, staging, incoming, lock, writer,
                 scrub, reader, crashes>>

\* A pointer cannot be read, for a while or for good.
HidePointer ==
  /\ Fault("unreadable")
  /\ \/ current.reads /\ current.to # None /\ current' = [current EXCEPT !.reads = FALSE]
        /\ UNCHANGED previous
     \/ previous.reads /\ previous.to # None /\ previous' = [previous EXCEPT !.reads = FALSE]
        /\ UNCHANGED current
  /\ UNCHANGED <<gens, file, verdict, staging, incoming, lock, writer, scrub, reader, crashes>>

MendPointers ==
  /\ ~(current.reads /\ previous.reads)
  /\ current' = [current EXCEPT !.reads = TRUE]
  /\ previous' = [previous EXCEPT !.reads = TRUE]
  /\ UNCHANGED <<gens, file, verdict, staging, incoming, lock, writer, scrub, reader, bounded>>

LoseCurrent ==
  /\ Fault("lost") /\ current.to # None
  /\ current' = NoPointer
  /\ UNCHANGED <<previous, gens, file, verdict, staging, incoming, lock, writer,
                 scrub, reader, crashes>>

\* A .del or a .links file of an installed generation no longer matches it.
DamageDerived(n) ==
  /\ Fault("derived") /\ gens[n].sound /\ gens[n].doc # None
  /\ gens' = [gens EXCEPT ![n].sound = FALSE]
  /\ UNCHANGED <<current, previous, file, verdict, staging, incoming, lock, writer,
                 scrub, reader, crashes>>

DeviceStep == \/ \E id \in DOMAIN file : Rot(id)
              \/ HidePointer \/ MendPointers \/ LoseCurrent
              \/ \E n \in LiveGens \cap DOMAIN gens : DamageDerived(n)

-----------------------------------------------------------------------------
Init ==
  /\ current = NoPointer /\ previous = NoPointer
  /\ gens = <<>> /\ file = <<>> /\ verdict = <<>>
  /\ staging = {} /\ incoming = {}
  /\ lock = None
  /\ writer = [w \in Writers |-> IdleWriter]
  /\ scrub  = [s \in Scrubs |-> IdleScrub]
  /\ reader = [r \in Readers |-> IdleReader]
  /\ faults = 0 /\ crashes = 0

Next == \/ \E w \in Writers : WriterStep(w)
        \/ \E s \in Scrubs : ScrubStep(s)
        \/ \E r \in Readers : ReaderStep(r)
        \/ \E r \in Releases : Download(r)
        \/ SessionRecover
        \/ DeviceStep

Spec == Init /\ [][Next]_vars

-----------------------------------------------------------------------------
(* What the set promises *)

\* What a pointer, a generation's document and a writer's memory look like: the
\* first segment is a base or a compaction, and the others are deltas.
Segments == [id : {r.id : r \in Releases} \cup Seq(Shas), sha : Bytes,
             kind : {"base", "delta", "compacted"}, to : Nat]
Docs     == {d \in [model : {r.model : r \in Releases}, segs : Seq(Segments)] :
               /\ d.segs # <<>>
               /\ \A i \in DOMAIN d.segs :
                    /\ d.segs[i].kind = "delta" <=> i # 1
                    /\ d.segs[i].sha \in IF d.segs[i].kind = "compacted"
                                        THEN Seq(Shas) ELSE Shas}
Pointers == [gen : Numbers, doc : Docs]
Libraries == [model : {r.model : r \in Releases}, version : Nat, content : Seq(Shas)]
ASSUME NoneAssumption == None \notin Pointers \cup Libraries \cup Releases
Slots    == [to : Pointers \cup {None}, reads : BOOLEAN]
Unflipped == {"staged", "judged", "placed", "moved", "created", "written", "previous"}
WriterStates ==
  [pc : Unflipped \cup {"idle", "locked", "merging", "flipped", "discarded"},
   job : Releases \cup {None}, take : BOOLEAN, base : Pointers \cup {None},
   new : Docs \cup {None}, gen : 0..MaxGen,
   placed : {"new", "kept", "replaced", None}]

\* What a writer has in memory fits the step it is at.
WriterOK(v) ==
  /\ v.take => v.job \in Downloads
  /\ v.pc = "locked" => v.job \in Releases
  /\ v.pc \in Unflipped \cup {"flipped", "discarded"} => v.new \in Docs
  /\ v.pc \in {"created", "written", "previous"} => v.gen \in Numbers

\* Every variable holds what its description says.
TypeOK ==
  /\ current \in Slots /\ previous \in Slots
  /\ DOMAIN gens \subseteq Numbers
  /\ \A n \in DOMAIN gens : gens[n] \in [doc : Docs \cup {None}, sound : BOOLEAN]
  /\ incoming \subseteq Downloads
  /\ lock \in Writers \cup {None}
  /\ writer \in [Writers -> WriterStates] /\ \A w \in Writers : WriterOK(writer[w])
  /\ DOMAIN scrub = Scrubs /\ DOMAIN reader = Readers
  /\ faults \in 0..MaxFaults /\ crashes \in 0..MaxCrashes

\* A generation that would open but for its newest segment, whose download went
\* back to incoming/ when the flush after a flip failed.
GivenBack(p, s) == s = p.doc.segs[Len(p.doc.segs)] /\ \E r \in incoming : SegmentOf(r) = s
LacksGivenBack(p) ==
  /\ UnflushedFlip /\ Reads(p) /\ ~Condemned(p.doc) /\ gens[p.gen].sound
  /\ \A s \in Elems(p.doc.segs) : s.id \in DOMAIN file \/ GivenBack(p, s)

\* Without damage to a segment or a derived file, every generation a pointer
\* names opens, whatever was interrupted: nothing half-written is named, nothing
\* named is collected.  Only where a pointer's directory may fail to flush can one
\* lack its newest segment, and then that segment is in incoming/.
PointersOpen == \A slot \in {current, previous} :
                  slot.to # None => Opens(slot.to) \/ LacksGivenBack(slot.to)

\* What a pointer names - even one that cannot be read just now - stays on disk
\* whole: no collection or new generation takes its document or its segments.
NamedStays == \A slot \in {current, previous} :
                slot.to # None => Reads(slot.to) /\ Ids(slot.to.doc) \subseteq DOMAIN file

\* While no install or compaction runs, a generation that opens finds in each
\* segment's file the bytes it names, or those bytes damaged: never bytes that
\* replaced them.
NeverOpensOnOtherBytes ==
  lock = None => \A p \in LivePointers : \A s \in Elems(p.doc.segs) :
                   file[s.id] \in {s.sha, Damaged}

\* A writer placed a file under this id and has not settled its verdict yet; an
\* install or a compaction ends there.
AtVerdict(w, id) == /\ writer[w].pc = "placed" /\ writer[w].placed # "kept"
                    /\ NewSegment(w).id = id
CutOff(id) == \E w \in Writers : AtVerdict(w, id) /\ writer'[w].pc = "idle"

\* A pointer's generation would open on bytes that replaced those it names: no
\* verdict stands against them, and no writer is about to settle one.
Misleads(id) ==
  /\ id \in DOMAIN file /\ file[id] # Damaged
  /\ \E p \in {current.to, previous.to} \ {None} :
       /\ \E s \in Elems(p.doc.segs) : s.id = id /\ s.sha # file[id] /\ ~Condemns(s)
       /\ Reads(p)
  /\ \A w \in Writers : ~AtVerdict(w, id)

\* A scrub settles, without the lock, a verdict for the bytes it saw last.
Settles(id) == \E s \in Scrubs : /\ scrub[s].pc = "settling" /\ scrub[s].id = id
                                 /\ scrub'[s].pc = "idle"

\* What a pointer names comes to open on other bytes by no install, compaction,
\* collection, failure or crash, other than one that ends a writer between the
\* placement of those bytes and their verdict, or the late verdict of a scrub.
OnlyCutOffsMislead ==
  [][\A id \in DOMAIN file' : Misleads(id)' => Misleads(id) \/ CutOff(id) \/ Settles(id)]_vars

\* A verdict on damage stands against bytes that are not damaged, and no scrub
\* nor writer is about to settle it.
Looking(s, id) == scrub[s].pc \notin {"idle", "stopped"} /\ scrub[s].id = id
Wronged(id) ==
  /\ id \in DOMAIN file \cap DOMAIN verdict
  /\ verdict[id] = Damaged /\ file[id] # Damaged
  /\ \A w \in Writers : ~AtVerdict(w, id)
  /\ \A s \in Scrubs : ~Looking(s, id)

\* No scrub and no compaction comes to condemn bytes an install put in the place
\* of those that failed, unless it, or the install before its verdict, is cut off.
SupersededScrubCondemnsNothing ==
  [][\A id \in DOMAIN file' :
       Wronged(id)' => \/ Wronged(id) \/ CutOff(id)
                       \/ \E s \in Scrubs : Looking(s, id) /\ scrub'[s].pc = "stopped"]_vars

\* Damage that was condemned stays shut out, whatever is installed, compacted,
\* collected, cut off or fails: no step but the late verdict of a scrub leaves
\* bytes found damaged in the file of a segment a pointer names with no verdict on them.
KnownDamage(id) == /\ id \in DOMAIN file \cap DOMAIN verdict
                   /\ file[id] = Damaged /\ verdict[id] = Damaged
ShutOut(id) ==
  \/ id \notin DOMAIN file \/ file[id] # Damaged
  \/ id \in DOMAIN verdict /\ verdict[id] = Damaged
  \/ \A p \in {current.to, previous.to} \ {None} : id \notin Ids(p.doc)
FoundDamageStaysShut ==
  [][\A id \in DOMAIN file : KnownDamage(id) => ShutOut(id)' \/ Settles(id)]_vars

\* While the device keeps what it was given, an open that turns away from what it
\* read in CURRENT, though the set opened then, read a pointer whose generation
\* neither CURRENT nor PREVIOUS names any more.
OpenFailsOnlyOnceUnnamed ==
  [][\A r \in Readers :
       (/\ faults = 0 /\ reader[r].opens
        /\ reader[r].pc \in {"first", "firstDoc"} /\ reader'[r].pc = "fallback")
       => reader[r].cur \notin {current.to, previous.to}]_vars

Whole(p) == p # None /\ \A s \in Elems(p.doc.segs) : file[s.id] = s.sha
OwnStep  == faults' = faults /\ scrub' = scrub

\* No install, compaction, recovery or crash closes a set whose bytes are whole:
\* it opens on the same generation still, or on one that CURRENT has just come to name.
NeverCloses ==
  [][OwnStep /\ Whole(Opened) =>
       \/ Opened' = Opened
       \/ current' # current /\ Opened' = current'.to /\ Opened' # None]_vars

\* Bytes a generation that opens names are never rewritten nor removed.
ServedBytesStay ==
  [][OwnStep => \A id \in DOMAIN file :
       Served(id, file[id]) => id \in DOMAIN file' /\ file'[id] = file[id]]_vars

\* An install that fails leaves the download where the host put it, or, once it
\* was taken and could not be moved back, under the segment's own name.
FailedInstallKeepsDownload ==
  [][\A w \in Writers :
       LET r == writer[w].job IN
       (/\ writer[w].take /\ writer[w].pc \notin {"flipped", "discarded"}
        /\ writer'[w].pc = "idle" /\ crashes' = crashes)
       => \/ r \in incoming'
          \/ /\ writer[w].placed \in {"new", "replaced"}
             /\ r.id \in DOMAIN file' /\ file'[r.id] \in {r.sha, Damaged}]_vars

\* The set refines LiveSet: the library a host answers from, whole at every step.
Library == IF Opened = None THEN None
           ELSE [model |-> Opened.doc.model, version |-> Version(Opened.doc),
                 content |-> Content(Opened.doc)]
Live == INSTANCE LiveSet WITH library <- Library
Implements == Live!Spec
=============================================================================
