------------------------------ MODULE Importer ------------------------------
(***************************************************************************)
(* Installing an artifact into the directory the runtime opens, and        *)
(* recovering an install that was cut off (distribution/importer.rs).      *)
(* Every rename, removal and flush is a step of its own: each can fail,    *)
(* the process can be killed between two of them, and the power can fail   *)
(* and undo what was not flushed.  There is one caller at a time, as the   *)
(* source asks for.                                                        *)
(***************************************************************************)
EXTENDS Naturals

CONSTANTS Artifacts, \* complete, verified artifacts
          None,      \* no directory of that name
          Torn       \* a directory that holds part of an artifact

ASSUME DistinctAssumption ==
  None \notin Artifacts /\ Torn \notin Artifacts /\ None # Torn

VARIABLES
  dir,     \* target, previous and staging, as this machine sees them
  mayFind, \* what a restart after a power loss may find instead of dir
  op,      \* the call that runs and the step it is at
  told     \* what the last call returned to its caller, None after a restart

vars == <<dir, mayFind, op, told>>

Copies == Artifacts \cup {None, Torn}

Dirs == [target : Copies, previous : Copies, staging : Copies]

RecoverSteps == {"recover", "flushRestored", "flushDiscarded", "unstage",
                 "flushUnstaged", "recovered"}

ImportSteps == {"copy", "swap", "flushFirst", "flushParked", "install",
                "flushSwapped", "discard", "flushCleaned", "restore",
                "flushUndone", "cleanup"}

\* "interrupted" is ArtifactError::InterruptedInstall, "failed" any other error.
Results == {"ok", "failed", "interrupted"}

\* The call that is running: `found` is what the target was when it began.
\* An import recovers first; a recovery installs nothing.
Importing ==
  [call : {"import"}, artifact : Artifacts, found : Copies,
   at : RecoverSteps \cup ImportSteps, result : Results]

Recovering ==
  [call : {"recover"}, artifact : {None}, found : Copies,
   at : RecoverSteps, result : Results]

Idle == [at |-> "idle"]

\* What a call that ended had been asked, and its answer.
Answers ==
  [call : {"import", "recover"}, artifact : Artifacts \cup {None},
   found : Copies, result : Results]

-----------------------------------------------------------------------------
(* The file system.  What changes a directory reaches the disk in the      *)
(* order it was made, at the latest with the next flush.                   *)

Changed(d) == dir' = d /\ mayFind' = mayFind \cup {d}

\* rename(from, to), for a `to` that does not exist.
Renamed(from, to) ==
  Changed([dir EXCEPT ![to] = dir[from], ![from] = None])

\* remove_dir_all takes the contents first; it may stop anywhere on the way.
Emptied(name) == dir[name] \in Artifacts /\ Changed([dir EXCEPT ![name] = Torn])

Removed(name) == dir[name] = Torn /\ Changed([dir EXCEPT ![name] = None])

Flushed == mayFind' = {dir} /\ UNCHANGED dir

Still == UNCHANGED <<dir, mayFind>>

-----------------------------------------------------------------------------
(* The call.                                                               *)

Goto(step) == op' = [op EXCEPT !.at = step] /\ UNCHANGED told

Return(result) ==
  /\ op' = Idle
  /\ told' = [call |-> op.call, artifact |-> op.artifact,
              found |-> op.found, result |-> result]

\* An error after staging exists: what was staged is dropped on the way out.
Fail(result) ==
  op' = [op EXCEPT !.at = "cleanup", !.result = result] /\ UNCHANGED told

Begin(call, a) ==
  /\ op = Idle
  /\ op' = [call |-> call, artifact |-> a, found |-> dir.target,
            at |-> "recover", result |-> "ok"]
  /\ told' = None
  /\ Still

BeginRecovery == Begin("recover", None)

BeginImport == \E a \in Artifacts : Begin("import", a)

\* The source does not verify, or the target is not one: nothing is touched.
RefuseImport ==
  /\ op = Idle
  /\ \E a \in Artifacts :
       told' = [call |-> "import", artifact |-> a, found |-> dir.target,
                result |-> "failed"]
  /\ UNCHANGED op /\ Still

-----------------------------------------------------------------------------
(* recover: the parked artifact first, then what was staged.               *)

NothingParked ==
  op.at = "recover" /\ dir.previous = None /\ Goto("unstage") /\ Still

Interrupted == dir.previous # None /\ dir.target = None

\* Mutant: whatever is parked counts as superseded.
SupersededAlways == dir.previous # None

Superseded == dir.previous # None /\ dir.target # None

\* Mutant: the staged copy is promoted in place of the parked one.
RestoreStaged ==
  /\ op.at = "recover" /\ Interrupted
  /\ \/ dir.staging # None /\ Renamed("staging", "target") /\ Goto("flushRestored")
     \/ Return("interrupted") /\ Still

RestorePrevious ==
  /\ op.at = "recover" /\ Interrupted
  /\ \/ Renamed("previous", "target") /\ Goto("flushRestored")
     \/ Return("interrupted") /\ Still

\* Mutant: a recovery that restored something is done.
FlushRestoredDone ==
  /\ op.at = "flushRestored"
  /\ \/ Flushed /\ Goto("recovered")
     \/ Return("interrupted") /\ Still

FlushRestored ==
  /\ op.at = "flushRestored"
  /\ \/ Flushed /\ Goto("unstage")
     \/ Return("interrupted") /\ Still

DiscardSuperseded ==
  /\ op.at = "recover" /\ Superseded
  /\ \/ Emptied("previous") /\ Goto("recover")
     \/ Removed("previous") /\ Goto("flushDiscarded")
     \/ Return("failed") /\ Still

FlushDiscarded ==
  /\ op.at = "flushDiscarded"
  /\ \/ Flushed /\ Goto("unstage")
     \/ Return("failed") /\ Still

NothingStaged ==
  op.at = "unstage" /\ dir.staging = None /\ Goto("recovered") /\ Still

RemoveStaging ==
  /\ op.at = "unstage" /\ dir.staging # None
  /\ \/ Emptied("staging") /\ Goto("unstage")
     \/ Removed("staging") /\ Goto("flushUnstaged")
     \/ Return("failed") /\ Still

FlushUnstaged ==
  /\ op.at = "flushUnstaged"
  /\ \/ Flushed /\ Goto("recovered")
     \/ Return("failed") /\ Still

Recovered == op.at = "recovered" /\ op.call = "recover" /\ Return("ok") /\ Still

-----------------------------------------------------------------------------
(* import: staging is built and verified, then swapped in.                 *)

CreateStaging ==
  /\ op.at = "recovered" /\ op.call = "import"
  /\ \/ dir.staging = None /\ Changed([dir EXCEPT !.staging = Torn]) /\ Goto("copy")
     \/ Return(IF dir.staging = None THEN "failed" ELSE "interrupted") /\ Still

\* The payloads are flushed as they are copied, and the copy is verified and
\* its directory flushed before anything is renamed.
Stage ==
  /\ op.at = "copy"
  /\ \/ Changed([dir EXCEPT !.staging = op.artifact]) /\ Goto("swap")
     \/ Fail("failed") /\ Still

\* Nothing to replace.
SwapFirst ==
  /\ op.at = "swap" /\ dir.target = None
  /\ \/ Renamed("staging", "target") /\ Goto("flushFirst")
     \/ Fail("failed") /\ Still

\* Mutant: a first install is reported before its rename is flushed.
FlushFirstNever == op.at = "flushFirst" /\ Return("ok") /\ Still

FlushFirst ==
  /\ op.at = "flushFirst"
  /\ \/ Flushed /\ Return("ok")
     \/ Fail("failed") /\ Still

\* The old artifact is moved aside; recovery has resolved what was there.
Park ==
  /\ op.at = "swap" /\ dir.target # None
  /\ \/ dir.previous = None /\ Renamed("target", "previous") /\ Goto("flushParked")
     \/ Fail(IF dir.previous = None THEN "failed" ELSE "interrupted") /\ Still

\* Mutant: the error of the flush is returned as it is.
FlushParkedBare ==
  /\ op.at = "flushParked"
  /\ \/ Flushed /\ Goto("install")
     \/ Fail("failed") /\ Still

FlushParked ==
  /\ op.at = "flushParked"
  /\ \/ Flushed /\ Goto("install")
     \/ Goto("restore") /\ Still

Install ==
  /\ op.at = "install"
  /\ \/ Renamed("staging", "target") /\ Goto("flushSwapped")
     \/ Goto("restore") /\ Still

FlushSwapped ==
  /\ op.at = "flushSwapped"
  /\ \/ Flushed /\ Goto("discard")
     \/ Goto("restore") /\ Still

\* A superseded copy that cannot be removed does not fail the install.
DiscardPrevious ==
  /\ op.at = "discard"
  /\ \/ Emptied("previous") /\ Goto("discard")
     \/ Removed("previous") /\ Goto("flushCleaned")
     \/ Return("ok") /\ Still

FlushCleaned ==
  /\ op.at = "flushCleaned"
  /\ \/ Flushed /\ Return("ok")
     \/ Fail("failed") /\ Still

\* restore_parked: with the target in place only a flush failed.
RestoreParked ==
  /\ op.at = "restore"
  /\ \/ dir.target # None /\ Fail("failed") /\ Still
     \/ dir.target = None /\ Renamed("previous", "target") /\ Goto("flushUndone")
     \/ dir.target = None /\ Fail("interrupted") /\ Still

FlushUndone ==
  /\ op.at = "flushUndone"
  /\ \/ Flushed /\ Fail("failed")
     \/ Fail("interrupted") /\ Still

\* Removing what was staged and flushing that are tried, and may both fail.
Cleanup ==
  /\ op.at = "cleanup"
  /\ Return(op.result)
  /\ \/ Still
     \/ /\ dir.staging # None
        /\ \E left \in {dir.staging, Torn, None} :
             LET d == [dir EXCEPT !.staging = left]
             IN dir' = d /\ mayFind' \in {mayFind \cup {d}, {d}}

-----------------------------------------------------------------------------
(* The process is killed; the machine loses power.                         *)

Kill == op # Idle /\ op' = Idle /\ told' = None /\ Still

PowerLoss ==
  /\ \E d \in mayFind : dir' = d /\ mayFind' = {d}
  /\ op' = Idle /\ told' = None

Init ==
  /\ dir = [target |-> None, previous |-> None, staging |-> None]
  /\ mayFind = {dir}
  /\ op = Idle
  /\ told = None

RecoverNext ==
  \/ NothingParked \/ RestorePrevious \/ FlushRestored
  \/ DiscardSuperseded \/ FlushDiscarded
  \/ NothingStaged \/ RemoveStaging \/ FlushUnstaged \/ Recovered

SwapNext ==
  \/ CreateStaging \/ Stage \/ SwapFirst \/ FlushFirst
  \/ Park \/ FlushParked \/ Install \/ FlushSwapped
  \/ DiscardPrevious \/ FlushCleaned
  \/ RestoreParked \/ FlushUndone \/ Cleanup

Next ==
  \/ BeginRecovery \/ BeginImport \/ RefuseImport
  \/ RecoverNext \/ SwapNext
  \/ Kill \/ PowerLoss

Spec == Init /\ [][Next]_vars

-----------------------------------------------------------------------------
(* Correctness.                                                            *)

TypeOK ==
  /\ dir \in Dirs
  /\ mayFind \in SUBSET Dirs
  /\ op \in Importing \cup Recovering \cup {Idle}
  /\ told \in Answers \cup {None}

\* The copy a recovery makes the target: the one in place, or the parked one.
Copy(d) == IF d.target # None THEN d.target ELSE d.previous

\* Whatever is killed or loses power at whatever moment, what recovery puts in
\* place is never part of an artifact: a directory is emptied only while
\* another one is the target.
NeverTorn == \A d \in mayFind : Copy(d) # Torn

\* An install that was reported is still there after a power loss: the rename
\* that put it in place was flushed, and nothing after it moved it again.
ReportedSurvives ==
  told # None /\ told.call = "import" /\ told.result = "ok"
    => \A d \in mayFind : d.target = told.artifact

\* A recovery that succeeds leaves the copy under the name the runtime opens
\* and nothing beside it, whatever an earlier call or crash had left.
RecoveredIsClean ==
  told # None /\ told.call = "recover" /\ told.result = "ok"
    => dir.target = Copy(dir) /\ dir.previous = None /\ dir.staging = None

\* An install that finds an artifact and returns any error but "interrupted"
\* leaves an artifact in place, the old one or the new one: the caller need
\* not recover before it opens.
PlainFailureLeavesATarget ==
  told # None /\ told.result = "failed" /\ told.found # None
    => dir.target \in {told.found, told.artifact}

\* The device holds one complete artifact, which changes only to one being
\* installed or back to one no flush had settled past.
Held ==
  INSTANCE InstalledCopy
    WITH copy <- Copy(dir), possible <- {Copy(d) : d \in mayFind}

Implements == Held!Spec
=============================================================================
