---------------------------- MODULE ManifestFile ----------------------------
(***************************************************************************)
(* Saving and loading the semantic manifest (semantic/manifest.rs): a      *)
(* candidate is written beside the manifest and renamed over it; where a   *)
(* lock denies the rename, the old manifest is parked and the rename tried *)
(* again.  Each step can fail, the process can be killed between two, and  *)
(* a power loss undoes what was not flushed.  One engine owns the files.   *)
(***************************************************************************)
EXTENDS Naturals, FiniteSets

CONSTANTS Manifests, \* complete documents of this build's format
          None,      \* no file of that name
          Torn,      \* a file that is not such a document
          MaxFind    \* bound: the directories a power loss may leave when a save begins

ASSUME ManifestAssumption ==
  /\ None \notin Manifests /\ Torn \notin Manifests /\ None # Torn
  /\ MaxFind \in Nat

VARIABLES
  dir,     \* the manifest, its .previous and its .tmp, as this machine sees them
  mayFind, \* what a restart after a power loss may find instead of dir
  op,      \* the save or load that runs and the step it is at
  told,    \* what the last call returned, None after a restart
  recent   \* history: what a load may find, see LatestIsFound

vars == <<dir, mayFind, op, told, recent>>

Files == Manifests \cup {None, Torn}

Dirs == [target : Files, previous : Files, tmp : Files]

SaveSteps == {"create", "fill", "rename", "clear", "park", "retry", "restore",
              "flush", "discard", "flushDiscarded"}

LoadSteps == {"load", "flushRecovered", "setAside"}

Saving == [doc : Manifests, at : SaveSteps, parked : BOOLEAN]

Loading == [doc : {None}, at : LoadSteps, parked : {FALSE}]

\* The engine between two saves; no engine.
Idle == [doc |-> None, at |-> "idle", parked |-> FALSE]

Closed == [doc |-> None, at |-> "closed", parked |-> FALSE]

\* "absent" is ManifestError::NotFound.
Answers ==
  [doc : Manifests, result : {"saved", "loaded"}]
    \cup [doc : Manifests \cup {None}, result : {"absent", "failed"}]

-----------------------------------------------------------------------------
(* The file system.  What changes a directory reaches the disk in the      *)
(* order it was made, at the latest with the next flush.                   *)

\* What a load finds: the manifest, the parked one or else the candidate.
Found(d) ==
  CASE d.target # None -> d.target
    [] d.target = None /\ d.previous \in Manifests -> d.previous
    [] d.target = None /\ d.previous \notin Manifests /\ d.tmp \in Manifests -> d.tmp
    [] OTHER -> None

Changed(d) == dir' = d /\ mayFind' = mayFind \cup {d}

\* The candidate is renamed over the manifest; the manifest aside; and back.
Installed == Changed([dir EXCEPT !.target = dir.tmp, !.tmp = None])

SetAside == Changed([dir EXCEPT !.previous = dir.target, !.target = None])

BroughtBack == Changed([dir EXCEPT !.target = dir.previous, !.previous = None])

Flushed == mayFind' = {dir} /\ UNCHANGED dir

Still == UNCHANGED <<dir, mayFind>>

-----------------------------------------------------------------------------
(* The call.                                                               *)

Goto(step) == op' = [op EXCEPT !.at = step] /\ UNCHANGED <<told, recent>>

Saved ==
  /\ op' = Idle
  /\ told' = [doc |-> op.doc, result |-> "saved"]
  /\ recent' = {op.doc}

Failed ==
  /\ op' = Idle
  /\ told' = [doc |-> op.doc, result |-> "failed"]
  /\ UNCHANGED recent

\* The next save truncates it, though no other copy of a manifest is there.
OnlyCandidate(d) ==
  d.target = None /\ d.previous \notin Manifests /\ d.tmp \in Manifests

BeginSave ==
  /\ op = Idle /\ Cardinality(mayFind) <= MaxFind
  /\ \E m \in Manifests :
       /\ op' = [doc |-> m, at |-> "create", parked |-> FALSE]
       /\ recent' = recent \cup {m} \cup (IF OnlyCandidate(dir) THEN {None} ELSE {})
  /\ told' = None
  /\ Still

\* File::create truncates a .tmp that an earlier save left.
CreateTmp ==
  /\ op.at = "create"
  /\ \/ Changed([dir EXCEPT !.tmp = Torn]) /\ Goto("fill")
     \/ Failed /\ Still

\* The document is written into the file and the file flushed, under whatever
\* name a power loss leaves it.
Filled(d) == IF d.tmp = Torn THEN [d EXCEPT !.tmp = op.doc] ELSE d

FillTmp ==
  /\ op.at = "fill"
  /\ \/ /\ dir' = Filled(dir)
        /\ mayFind' = {Filled(d) : d \in mayFind}
        /\ Goto("rename")
     \/ Failed /\ Still

Rename ==
  /\ op.at = "rename"
  /\ \/ Installed /\ Goto("flush")
     \/ Goto("clear") /\ Still

\* Mutant: the retry deletes the manifest that is in its way.
ClearTarget ==
  /\ op.at = "clear"
  /\ Goto("park")
  /\ \/ dir.target # None /\ Changed([dir EXCEPT !.target = None])
     \/ Still

\* What an earlier save parked and could not remove; this too may fail.
Clear ==
  /\ op.at = "clear"
  /\ Goto("park")
  /\ \/ dir.previous # None /\ Changed([dir EXCEPT !.previous = None])
     \/ Still

Park ==
  /\ op.at = "park"
  /\ \/ /\ dir.target # None
        /\ SetAside
        /\ op' = [op EXCEPT !.at = "retry", !.parked = TRUE]
        /\ UNCHANGED <<told, recent>>
     \/ Goto("retry") /\ Still

Retry ==
  /\ op.at = "retry"
  /\ \/ Installed /\ Goto("flush")
     \/ op.parked /\ Goto("restore") /\ Still
     \/ ~op.parked /\ Failed /\ Still

\* Where even that fails, the copy stays parked.
Restore ==
  /\ op.at = "restore"
  /\ Failed
  /\ BroughtBack \/ Still

\* Mutant: a save is reported before its rename is flushed.
FlushNever ==
  /\ op.at = "flush"
  /\ \/ ~op.parked /\ Saved /\ Still
     \/ op.parked /\ Flushed /\ Goto("discard")

Flush ==
  /\ op.at = "flush"
  /\ \/ ~op.parked /\ Flushed /\ Saved
     \/ op.parked /\ Flushed /\ Goto("discard")
     \/ Failed /\ Still

\* A parked copy that cannot be removed does not fail the save.
Discard ==
  /\ op.at = "discard"
  /\ \/ Changed([dir EXCEPT !.previous = None]) /\ Goto("flushDiscarded")
     \/ Saved /\ Still

FlushDiscarded ==
  /\ op.at = "flushDiscarded"
  /\ \/ Flushed /\ Saved
     \/ Failed /\ Still

-----------------------------------------------------------------------------
(* load, and the quarantine of a manifest that could not be loaded.        *)

BeginLoad ==
  /\ op = Closed
  /\ op' = [doc |-> None, at |-> "load", parked |-> FALSE]
  /\ UNCHANGED <<told, recent>> /\ Still

Loaded ==
  /\ op' = Idle
  /\ told' = [doc |-> dir.target, result |-> "loaded"]
  /\ UNCHANGED recent

\* A manifest that is in place may fail to be read.
Load ==
  /\ op.at = "load" /\ dir.target # None
  /\ Loaded \/ Goto("setAside")
  /\ Still

\* is_recoverable: a file that is not a document of this format is passed over,
\* and so is one that cannot be read.  The parked copy was in service; the
\* candidate was not.
RecoverParked ==
  /\ op.at = "load" /\ dir.target = None /\ dir.previous \in Manifests
  /\ \/ BroughtBack /\ Goto("flushRecovered")
     \/ Goto("setAside") /\ Still

RecoverCandidate ==
  /\ op.at = "load" /\ dir.target = None /\ dir.tmp \in Manifests
  /\ \/ Installed /\ Goto("flushRecovered")
     \/ Goto("setAside") /\ Still

NothingSaved ==
  /\ op.at = "load" /\ dir.target = None
  /\ op' = Idle
  /\ told' = [doc |-> None, result |-> "absent"]
  /\ UNCHANGED recent /\ Still

FlushRecovered ==
  /\ op.at = "flushRecovered"
  /\ \/ Flushed /\ (Loaded \/ Goto("setAside"))
     \/ Goto("setAside") /\ Still

\* The engine takes any other error for a manifest it cannot use, moves it out
\* of the way if it can and starts a fresh one.
Quarantined(d) == [d EXCEPT !.target = None]

Quarantine ==
  /\ op.at = "setAside"
  /\ op' = Idle
  /\ told' = [doc |-> None, result |-> "failed"]
  /\ \/ /\ dir.target # None
        /\ Changed(Quarantined(dir))
        /\ recent' = recent \cup {Found(Quarantined(dir))}
     \/ UNCHANGED recent /\ Still

-----------------------------------------------------------------------------
(* The process is killed, or closes the engine; the machine loses power.   *)

Kill ==
  /\ op # Closed /\ op' = Closed
  /\ told' = None /\ UNCHANGED recent /\ Still

PowerLoss ==
  /\ \E d \in mayFind : dir' = d /\ mayFind' = {d}
  /\ op' = Closed /\ told' = None /\ UNCHANGED recent

Init ==
  /\ dir = [target |-> None, previous |-> None, tmp |-> None]
  /\ mayFind = {dir}
  /\ op = Closed
  /\ told = None
  /\ recent = {None}

SaveNext ==
  \/ BeginSave \/ CreateTmp \/ FillTmp \/ Rename \/ Clear \/ Park \/ Retry
  \/ Restore \/ Flush \/ Discard \/ FlushDiscarded

LoadNext ==
  \/ BeginLoad \/ Load \/ RecoverParked \/ RecoverCandidate \/ NothingSaved \/ FlushRecovered
  \/ Quarantine

Next == SaveNext \/ LoadNext \/ Kill \/ PowerLoss

Spec == Init /\ [][Next]_vars

-----------------------------------------------------------------------------
(* Correctness.                                                            *)

TypeOK ==
  /\ dir \in Dirs
  /\ mayFind \in SUBSET Dirs
  /\ op \in Saving \cup Loading \cup {Idle, Closed}
  /\ told \in Answers \cup {None}
  /\ recent \in SUBSET (Manifests \cup {None})

\* Whatever failed, was killed or lost power, in whatever order, a load that reads
\* what is there finds the last manifest a save reported or one that a later
\* save had begun.  It finds none, or an older one that was left parked, only
\* after the engine itself moved a manifest that it could not read out of the
\* way of that (Quarantine), or began a save over the only copy (OnlyCandidate).
LatestIsFound == \A d \in mayFind : Found(d) \in recent

\* A save that was reported is under the manifest's own name after a power loss:
\* recovery, which could choose another file, is not needed.
SavedSurvives ==
  told # None /\ told.result = "saved" => \A d \in mayFind : d.target = told.doc
=============================================================================
