--------------------------- MODULE ImporterProofs ---------------------------
(***************************************************************************)
(* Importer's invariants, and that it implements InstalledCopy, for every  *)
(* set of artifacts and any sequence of failures, kills and power losses.  *)
(***************************************************************************)
EXTENDS Importer, TLAPS

-----------------------------------------------------------------------------
(* The inductive invariant.                                                *)

\* Before the swap, and again once the superseded copy is gone, nothing is
\* parked.
NothingBeside ==
  op.at \in {"flushRestored", "flushDiscarded", "unstage", "flushUnstaged",
             "recovered", "copy", "swap", "flushFirst"}
    => dir.previous = None

StagingGone == op.at \in {"flushUnstaged", "recovered"} => dir.staging = None

\* What is about to be renamed into place was copied and verified.
StagedWhole ==
  op.at \in {"swap", "flushParked", "install"} => dir.staging = op.artifact

\* Between the renames the only artifact is the parked one.
OldParked ==
  op.at \in {"flushParked", "install"}
    => dir.target = None /\ dir.previous \in Artifacts

InPlace == op.at \in {"flushFirst", "flushSwapped"} => dir.target = op.artifact

\* From here no power loss undoes the install.
Durable ==
  op.at \in {"discard", "flushCleaned"} => \A d \in mayFind : d.target = op.artifact

\* A swap that failed has its artifact in place or the old one parked.
Undoable ==
  op.at = "restore"
    => \/ dir.target = op.artifact
       \/ dir.target = None /\ dir.previous \in Artifacts

\* The artifact a call found goes from the target to the parked name and back.
FoundKept ==
  op.at # "idle" /\ op.found # None
    => /\ op.at \in RecoverSteps \cup {"copy", "swap", "flushUndone"}
            => dir.target = op.found
       /\ op.at \in {"flushParked", "install"} => dir.previous = op.found
       /\ op.at = "restore" =>
            \/ dir.target = op.artifact
            \/ dir.target = None /\ dir.previous = op.found
       /\ op.at = "cleanup" /\ op.result = "failed"
            => dir.target \in {op.found, op.artifact}

Failing == op.at = "cleanup" => op.result # "ok"

\* A call answers when it ends.
Unanswered == op.at # "idle" => told = None

AtStep ==
  /\ NothingBeside /\ StagingGone /\ StagedWhole /\ OldParked /\ InPlace
  /\ Durable /\ Undoable /\ FoundKept /\ Failing
  /\ Unanswered

IInv ==
  /\ TypeOK
  /\ dir \in mayFind
  /\ NeverTorn
  /\ AtStep
  /\ ReportedSurvives /\ RecoveredIsClean /\ PlainFailureLeavesATarget

-----------------------------------------------------------------------------
(* Types.                                                                  *)

DiskOK == dir \in Dirs /\ mayFind \in SUBSET Dirs

CallOK ==
  /\ op \in Importing \cup Recovering \cup {Idle}
  /\ told \in Answers \cup {None}

\* A change of the directory that keeps each name a copy keeps the types.
LEMMA DiskMoves ==
  ASSUME DiskOK
  PROVE  /\ \A d \in Dirs : Changed(d) => DiskOK'
         /\ \A from, to \in {"target", "previous", "staging"} :
              Renamed(from, to) => DiskOK'
         /\ \A name \in {"target", "previous", "staging"} :
              (Emptied(name) \/ Removed(name)) => DiskOK'
         /\ (Flushed \/ Still) => DiskOK'
<1>1. \A d \in Dirs : Changed(d) => DiskOK'
  BY DEF DiskOK, Changed
<1>2. ASSUME NEW from \in {"target", "previous", "staging"},
             NEW to \in {"target", "previous", "staging"}
      PROVE  [dir EXCEPT ![to] = dir[from], ![from] = None] \in Dirs
  BY DEF DiskOK, Dirs, Copies
<1>3. ASSUME NEW name \in {"target", "previous", "staging"},
             NEW left \in {Torn, None}
      PROVE  [dir EXCEPT ![name] = left] \in Dirs
  BY DEF DiskOK, Dirs, Copies
<1>4. (Flushed \/ Still) => DiskOK'
  BY DEF DiskOK, Flushed, Still
<1>5. QED
  BY <1>1, <1>2, <1>3, <1>4 DEF Renamed, Emptied, Removed

\* A call at a step of recovery may go to another one, or answer.
LEMMA RecoverMoves ==
  ASSUME CallOK, op.at \in RecoverSteps
  PROVE  /\ op \in Importing \cup Recovering
         /\ \A step \in RecoverSteps : Goto(step) => CallOK'
         /\ \A result \in Results : Return(result) => CallOK'
<1>1. op \in Importing \cup Recovering
  BY DEF CallOK, RecoverSteps, Idle
<1>2. \A step \in RecoverSteps : Goto(step) => CallOK'
  BY <1>1 DEF CallOK, Goto, Importing, Recovering
<1>3. \A result \in Results : Return(result) => CallOK'
  BY <1>1 DEF CallOK, Return, Importing, Recovering, Answers
<1>4. QED
  BY <1>1, <1>2, <1>3

\* An import may go to any step of the swap, fail or answer.
LEMMA ImportMoves ==
  ASSUME CallOK, op \in Importing
  PROVE  /\ \A step \in ImportSteps : Goto(step) => CallOK'
         /\ \A result \in Results : Fail(result) => CallOK'
         /\ \A result \in Results : Return(result) => CallOK'
<1>1. \A step \in ImportSteps : Goto(step) => CallOK'
  BY DEF CallOK, Goto, Importing
<1>2. \A result \in Results : Fail(result) => CallOK'
  BY DEF CallOK, Fail, Importing, ImportSteps
<1>3. \A result \in Results : Return(result) => CallOK'
  BY DEF CallOK, Return, Importing, Answers
<1>4. QED
  BY <1>1, <1>2, <1>3

\* Only an import is ever at a step of the swap.
LEMMA Swapping ==
  ASSUME CallOK, op.at \in ImportSteps
  PROVE  op \in Importing
BY DEF CallOK, ImportSteps, Importing, Recovering, RecoverSteps, Idle

\* Every step keeps the types of the directories.
LEMMA DiskStep ==
  ASSUME TypeOK, [Next]_vars
  PROVE  DiskOK'
<1>1. DiskOK
  BY DEF TypeOK, DiskOK
<1>2. CASE BeginRecovery
  BY <1>1, <1>2, DiskMoves DEF BeginRecovery, Begin
<1>3. CASE BeginImport
  BY <1>1, <1>3, DiskMoves DEF BeginImport, Begin
<1>4. CASE RefuseImport
  BY <1>1, <1>4, DiskMoves DEF RefuseImport
<1>5. CASE NothingParked
  BY <1>1, <1>5, DiskMoves DEF NothingParked
<1>6. CASE RestorePrevious
  BY <1>1, <1>6, DiskMoves DEF RestorePrevious
<1>7. CASE FlushRestored
  BY <1>1, <1>7, DiskMoves DEF FlushRestored
<1>8. CASE DiscardSuperseded
  BY <1>1, <1>8, DiskMoves DEF DiscardSuperseded
<1>9. CASE FlushDiscarded
  BY <1>1, <1>9, DiskMoves DEF FlushDiscarded
<1>10. CASE NothingStaged
  BY <1>1, <1>10, DiskMoves DEF NothingStaged
<1>11. CASE RemoveStaging
  BY <1>1, <1>11, DiskMoves DEF RemoveStaging
<1>12. CASE FlushUnstaged
  BY <1>1, <1>12, DiskMoves DEF FlushUnstaged
<1>13. CASE Recovered
  BY <1>1, <1>13, DiskMoves DEF Recovered
<1>14. CASE CreateStaging
  <2>1. [dir EXCEPT !.staging = Torn] \in Dirs
    BY <1>1 DEF DiskOK, Dirs, Copies
  <2>2. QED
    BY <1>1, <1>14, <2>1, DiskMoves DEF CreateStaging
<1>15. CASE Stage
  <2>1. op.artifact \in Artifacts
    BY <1>15, Swapping DEF Stage, TypeOK, CallOK, ImportSteps, Importing
  <2>2. [dir EXCEPT !.staging = op.artifact] \in Dirs
    BY <1>1, <2>1 DEF DiskOK, Dirs, Copies
  <2>3. QED
    BY <1>1, <1>15, <2>2, DiskMoves DEF Stage
<1>16. CASE SwapFirst
  BY <1>1, <1>16, DiskMoves DEF SwapFirst
<1>17. CASE FlushFirst
  BY <1>1, <1>17, DiskMoves DEF FlushFirst
<1>18. CASE Park
  BY <1>1, <1>18, DiskMoves DEF Park
<1>19. CASE FlushParked
  BY <1>1, <1>19, DiskMoves DEF FlushParked
<1>20. CASE Install
  BY <1>1, <1>20, DiskMoves DEF Install
<1>21. CASE FlushSwapped
  BY <1>1, <1>21, DiskMoves DEF FlushSwapped
<1>22. CASE DiscardPrevious
  BY <1>1, <1>22, DiskMoves DEF DiscardPrevious
<1>23. CASE FlushCleaned
  BY <1>1, <1>23, DiskMoves DEF FlushCleaned
<1>24. CASE RestoreParked
  BY <1>1, <1>24, DiskMoves DEF RestoreParked
<1>25. CASE FlushUndone
  BY <1>1, <1>25, DiskMoves DEF FlushUndone
<1>26. CASE Cleanup
  <2>1. \A left \in {dir.staging, Torn, None} : [dir EXCEPT !.staging = left] \in Dirs
    BY <1>1 DEF DiskOK, Dirs, Copies
  <2>2. QED
    BY <1>1, <1>26, <2>1, DiskMoves DEF Cleanup, DiskOK
<1>27. CASE Kill
  BY <1>1, <1>27, DiskMoves DEF Kill
<1>28. CASE PowerLoss
  BY <1>1, <1>28 DEF PowerLoss, DiskOK
<1>29. CASE UNCHANGED vars
  BY <1>1, <1>29 DEF vars, DiskOK
<1>30. QED
  BY <1>2, <1>3, <1>4, <1>5, <1>6, <1>7, <1>8, <1>9, <1>10, <1>11, <1>12,
     <1>13, <1>14, <1>15, <1>16, <1>17, <1>18, <1>19, <1>20, <1>21, <1>22,
     <1>23, <1>24, <1>25, <1>26, <1>27, <1>28, <1>29
    DEF Next, RecoverNext, SwapNext

\* Every step keeps the types of the call and of its answer.
LEMMA CallStep ==
  ASSUME TypeOK, [Next]_vars
  PROVE  CallOK'
<1>1. CallOK
  BY DEF TypeOK, CallOK
<1>2. CASE BeginRecovery
  BY <1>1, <1>2
    DEF BeginRecovery, Begin, TypeOK, CallOK, Dirs, Importing, Recovering,
    RecoverSteps, Results
<1>3. CASE BeginImport
  BY <1>1, <1>3
    DEF BeginImport, Begin, TypeOK, CallOK, Dirs, Importing, Recovering,
    RecoverSteps, Results
<1>4. CASE RefuseImport
  BY <1>1, <1>4 DEF RefuseImport, TypeOK, CallOK, Dirs, Answers, Results
<1>5. CASE NothingParked
  BY <1>1, <1>5, RecoverMoves DEF NothingParked, RecoverSteps, Results
<1>6. CASE RestorePrevious
  BY <1>1, <1>6, RecoverMoves DEF RestorePrevious, RecoverSteps, Results
<1>7. CASE FlushRestored
  BY <1>1, <1>7, RecoverMoves DEF FlushRestored, RecoverSteps, Results
<1>8. CASE DiscardSuperseded
  BY <1>1, <1>8, RecoverMoves DEF DiscardSuperseded, RecoverSteps, Results
<1>9. CASE FlushDiscarded
  BY <1>1, <1>9, RecoverMoves DEF FlushDiscarded, RecoverSteps, Results
<1>10. CASE NothingStaged
  BY <1>1, <1>10, RecoverMoves DEF NothingStaged, RecoverSteps, Results
<1>11. CASE RemoveStaging
  BY <1>1, <1>11, RecoverMoves DEF RemoveStaging, RecoverSteps, Results
<1>12. CASE FlushUnstaged
  BY <1>1, <1>12, RecoverMoves DEF FlushUnstaged, RecoverSteps, Results
<1>13. CASE Recovered
  BY <1>1, <1>13, RecoverMoves DEF Recovered, RecoverSteps, Results
<1>14. CASE CreateStaging
  <2>1. op \in Importing
    BY <1>1, <1>14 DEF CreateStaging, CallOK, Idle, Recovering
  <2>2. QED
    BY <1>1, <1>14, <2>1, ImportMoves DEF CreateStaging, ImportSteps, Results
<1>15. CASE Stage
  BY <1>1, <1>15, Swapping, ImportMoves DEF Stage, ImportSteps, Results
<1>16. CASE SwapFirst
  BY <1>1, <1>16, Swapping, ImportMoves DEF SwapFirst, ImportSteps, Results
<1>17. CASE FlushFirst
  BY <1>1, <1>17, Swapping, ImportMoves DEF FlushFirst, ImportSteps, Results
<1>18. CASE Park
  BY <1>1, <1>18, Swapping, ImportMoves DEF Park, ImportSteps, Results
<1>19. CASE FlushParked
  BY <1>1, <1>19, Swapping, ImportMoves DEF FlushParked, ImportSteps, Results
<1>20. CASE Install
  BY <1>1, <1>20, Swapping, ImportMoves DEF Install, ImportSteps, Results
<1>21. CASE FlushSwapped
  BY <1>1, <1>21, Swapping, ImportMoves DEF FlushSwapped, ImportSteps, Results
<1>22. CASE DiscardPrevious
  BY <1>1, <1>22, Swapping, ImportMoves
    DEF DiscardPrevious, ImportSteps, Results
<1>23. CASE FlushCleaned
  BY <1>1, <1>23, Swapping, ImportMoves DEF FlushCleaned, ImportSteps, Results
<1>24. CASE RestoreParked
  BY <1>1, <1>24, Swapping, ImportMoves DEF RestoreParked, ImportSteps, Results
<1>25. CASE FlushUndone
  BY <1>1, <1>25, Swapping, ImportMoves DEF FlushUndone, ImportSteps, Results
<1>26. CASE Cleanup
  <2>1. op \in Importing /\ op.result \in Results
    BY <1>1, <1>26, Swapping DEF Cleanup, ImportSteps, Importing
  <2>2. QED
    BY <1>1, <1>26, <2>1, ImportMoves DEF Cleanup
<1>27. CASE Kill
  BY <1>1, <1>27 DEF Kill, CallOK
<1>28. CASE PowerLoss
  BY <1>1, <1>28 DEF PowerLoss, CallOK
<1>29. CASE UNCHANGED vars
  BY <1>1, <1>29 DEF vars, CallOK
<1>30. QED
  BY <1>2, <1>3, <1>4, <1>5, <1>6, <1>7, <1>8, <1>9, <1>10, <1>11, <1>12,
     <1>13, <1>14, <1>15, <1>16, <1>17, <1>18, <1>19, <1>20, <1>21, <1>22,
     <1>23, <1>24, <1>25, <1>26, <1>27, <1>28, <1>29
    DEF Next, RecoverNext, SwapNext

\* Every step keeps the types.
LEMMA TypeStep ==
  ASSUME TypeOK, [Next]_vars
  PROVE  TypeOK'
BY DiskStep, CallStep DEF TypeOK, DiskOK, CallOK

-----------------------------------------------------------------------------
(* The inductive step.                                                     *)

\* What a call at work knows after it has moved on: all it knew, and its step.
LEMMA AfterGoto ==
  ASSUME CallOK, op # Idle, NEW step, Goto(step)
  PROVE  /\ op'.at = step /\ op'.artifact = op.artifact
         /\ op'.found = op.found /\ op'.call = op.call /\ told' = told
BY DEF CallOK, Goto, Importing, Recovering

\* The same after an error, with what it will answer.
LEMMA AfterFail ==
  ASSUME CallOK, op # Idle, NEW result, Fail(result)
  PROVE  /\ op'.at = "cleanup" /\ op'.result = result
         /\ op'.artifact = op.artifact /\ op'.found = op.found
         /\ told' = told
BY DEF CallOK, Fail, Importing, Recovering

\* An answer holds what was asked, what was found and the result.
LEMMA AfterReturn ==
  ASSUME NEW result, Return(result)
  PROVE  /\ op'.at = "idle" /\ told'.call = op.call
         /\ told'.artifact = op.artifact /\ told'.found = op.found
         /\ told'.result = result
BY DEF Return, Idle

\* The types, as the steps below use them.
LEMMA Typed ==
  ASSUME TypeOK
  PROVE  /\ CallOK
         /\ dir \in Dirs
         /\ \A d \in mayFind : d \in Dirs
         /\ op.at # "idle" => op # Idle
         /\ op.at \in ImportSteps => op.call = "import" /\ op.artifact \in Artifacts
BY Swapping DEF TypeOK, CallOK, Idle, Importing

\* Each step keeps what the call knows at its step, and what was answered.
LEMMA InvStep ==
  ASSUME IInv, [Next]_vars
  PROVE  IInv'
<1> USE DistinctAssumption DEF IInv
<1>1. TypeOK'
  BY TypeStep
<1> USE DEF Dirs, Copies, RecoverSteps, ImportSteps, Still, Copy,
  AtStep, NothingBeside, StagingGone, StagedWhole, OldParked, InPlace, Durable,
  Undoable, FoundKept, Failing, Unanswered,
  NeverTorn, ReportedSurvives, RecoveredIsClean, PlainFailureLeavesATarget
<1>2. CASE BeginRecovery
  BY <1>1, <1>2, Typed DEF BeginRecovery, Begin, Idle
<1>3. CASE BeginImport
  BY <1>1, <1>3, Typed DEF BeginImport, Begin, Idle
<1>4. CASE RefuseImport
  BY <1>1, <1>4, Typed DEF RefuseImport, Idle
<1>5. CASE NothingParked
  BY <1>1, <1>5, Typed, AfterGoto DEF NothingParked
<1>6. CASE RestorePrevious
  BY <1>1, <1>6, Typed, AfterGoto, AfterReturn
    DEF RestorePrevious, Renamed, Changed, Interrupted
<1>7. CASE FlushRestored
  BY <1>1, <1>7, Typed, AfterGoto, AfterReturn DEF FlushRestored, Flushed
<1>8. CASE DiscardSuperseded
  BY <1>1, <1>8, Typed, AfterGoto, AfterReturn
    DEF DiscardSuperseded, Emptied, Removed, Changed, Superseded
<1>9. CASE FlushDiscarded
  BY <1>1, <1>9, Typed, AfterGoto, AfterReturn DEF FlushDiscarded, Flushed
<1>10. CASE NothingStaged
  BY <1>1, <1>10, Typed, AfterGoto DEF NothingStaged
<1>11. CASE RemoveStaging
  BY <1>1, <1>11, Typed, AfterGoto, AfterReturn
    DEF RemoveStaging, Emptied, Removed, Changed
<1>12. CASE FlushUnstaged
  BY <1>1, <1>12, Typed, AfterGoto, AfterReturn DEF FlushUnstaged, Flushed
<1>13. CASE Recovered
  BY <1>1, <1>13, Typed, AfterReturn DEF Recovered
<1>14. CASE CreateStaging
  BY <1>1, <1>14, Typed, AfterGoto, AfterReturn DEF CreateStaging, Changed
<1>15. CASE Stage
  BY <1>1, <1>15, Typed, AfterGoto, AfterFail DEF Stage, Changed
<1>16. CASE SwapFirst
  BY <1>1, <1>16, Typed, AfterGoto, AfterFail DEF SwapFirst, Renamed, Changed
<1>17. CASE FlushFirst
  BY <1>1, <1>17, Typed, AfterReturn, AfterFail DEF FlushFirst, Flushed
<1>18. CASE Park
  BY <1>1, <1>18, Typed, AfterGoto, AfterFail DEF Park, Renamed, Changed
<1>19. CASE FlushParked
  BY <1>1, <1>19, Typed, AfterGoto DEF FlushParked, Flushed
<1>20. CASE Install
  BY <1>1, <1>20, Typed, AfterGoto DEF Install, Renamed, Changed
<1>21. CASE FlushSwapped
  BY <1>1, <1>21, Typed, AfterGoto DEF FlushSwapped, Flushed
<1>22. CASE DiscardPrevious
  BY <1>1, <1>22, Typed, AfterGoto, AfterReturn
    DEF DiscardPrevious, Emptied, Removed, Changed
<1>23. CASE FlushCleaned
  BY <1>1, <1>23, Typed, AfterReturn, AfterFail DEF FlushCleaned, Flushed
<1>24. CASE RestoreParked
  BY <1>1, <1>24, Typed, AfterGoto, AfterFail
    DEF RestoreParked, Renamed, Changed
<1>25. CASE FlushUndone
  BY <1>1, <1>25, Typed, AfterFail DEF FlushUndone, Flushed
<1>26. CASE Cleanup
  BY <1>1, <1>26, Typed, AfterReturn DEF Cleanup
<1>27. CASE Kill
  BY <1>1, <1>27, Typed DEF Kill, Idle
<1>28. CASE PowerLoss
  BY <1>1, <1>28, Typed DEF PowerLoss, Idle
<1>29. CASE UNCHANGED vars
  BY <1>1, <1>29 DEF vars
<1>30. QED
  BY <1>2, <1>3, <1>4, <1>5, <1>6, <1>7, <1>8, <1>9, <1>10, <1>11, <1>12,
     <1>13, <1>14, <1>15, <1>16, <1>17, <1>18, <1>19, <1>20, <1>21, <1>22,
     <1>23, <1>24, <1>25, <1>26, <1>27, <1>28, <1>29
    DEF Next, RecoverNext, SwapNext

\* It holds at first.
LEMMA InvInit == Init => IInv
BY DistinctAssumption
  DEF Init, IInv, TypeOK, Dirs, Copies, Idle, RecoverSteps, ImportSteps, Copy,
      NeverTorn, ReportedSurvives, RecoveredIsClean, PlainFailureLeavesATarget,
      AtStep, NothingBeside, StagingGone, StagedWhole, OldParked, InPlace,
      Durable, Undoable, FoundKept, Failing, Unanswered

\* The inductive invariant holds of every behaviour.
LEMMA Invariant == Spec => []IInv
<1>1. Init => IInv
  BY InvInit
<1>2. IInv /\ [Next]_vars => IInv'
  BY InvStep
<1>3. QED
  BY <1>1, <1>2, PTL DEF Spec

-----------------------------------------------------------------------------
(* What is proved of every behaviour.                                      *)

\* The variables keep their types, and no recovery is ever at a step of a swap.
THEOREM TypeCorrect == Spec => []TypeOK
<1>1. IInv => TypeOK
  BY DEF IInv
<1>2. QED
  BY <1>1, Invariant, PTL

\* No power loss or kill leaves a part of an artifact for recovery to restore.
THEOREM CopyNeverTorn == Spec => []NeverTorn
<1>1. IInv => NeverTorn
  BY DEF IInv
<1>2. QED
  BY <1>1, Invariant, PTL

\* A power loss after a reported install leaves the artifact that was reported.
THEOREM ReportedInstallSurvives == Spec => []ReportedSurvives
<1>1. IInv => ReportedSurvives
  BY DEF IInv
<1>2. QED
  BY <1>1, Invariant, PTL

\* A recovery that succeeds leaves one directory: the one the runtime opens.
THEOREM RecoveryIsClean == Spec => []RecoveredIsClean
<1>1. IInv => RecoveredIsClean
  BY DEF IInv
<1>2. QED
  BY <1>1, Invariant, PTL

\* Only "interrupted" can leave an artifact that was there under another name.
THEOREM PlainFailureKeepsATarget == Spec => []PlainFailureLeavesATarget
<1>1. IInv => PlainFailureLeavesATarget
  BY DEF IInv
<1>2. QED
  BY <1>1, Invariant, PTL

-----------------------------------------------------------------------------
(* Refinement.                                                             *)

Possible == {Copy(d) : d \in mayFind}

Stutters == Copy(dir)' = Copy(dir) /\ Possible' = Possible

Settles == Copy(dir)' = Copy(dir) /\ Possible' = {Copy(dir)}

\* A change of the directories that keeps the copy is no step of InstalledCopy.
LEMMA SameCopy ==
  ASSUME dir \in mayFind, NEW d, Changed(d), Copy(d) = Copy(dir)
  PROVE  Stutters
<1>1. Copy(dir)' = Copy(d)
  BY DEF Changed, Copy
<1>2. Possible' = {Copy(e) : e \in mayFind \cup {d}}
  BY DEF Possible, Changed, Copy
<1>3. Copy(d) \in Possible
  BY DEF Possible
<1>4. QED
  BY <1>1, <1>2, <1>3 DEF Possible, Stutters

\* One that puts an artifact in place is the step that installs it.
LEMMA NewCopy ==
  ASSUME NEW d, Changed(d)
  PROVE  Copy(dir)' = Copy(d) /\ Possible' = Possible \cup {Copy(d)}
<1>1. Copy(dir)' = Copy(d)
  BY DEF Changed, Copy
<1>2. Possible' = {Copy(e) : e \in mayFind \cup {d}}
  BY DEF Possible, Changed, Copy
<1>3. QED
  BY <1>1, <1>2 DEF Possible

\* A flush settles what the device holds.
LEMMA FlushSettles ==
  ASSUME Flushed
  PROVE  Settles
BY DEF Settles, Flushed, Copy, Possible

\* A step that leaves the directories alone is no step of InstalledCopy.
LEMMA StillStutters ==
  ASSUME Still
  PROVE  Stutters
BY DEF Stutters, Still, Copy, Possible

\* Parking the artifact and putting it back keep it the copy.
LEMMA ParkingStutters ==
  ASSUME dir \in Dirs, dir \in mayFind,
         \/ dir.target # None /\ Renamed("target", "previous")
         \/ dir.target = None /\ Renamed("previous", "target")
  PROVE  Stutters
<1>1. CASE dir.target # None /\ Renamed("target", "previous")
  <2> DEFINE d == [dir EXCEPT !["previous"] = dir["target"], !["target"] = None]
  <2>1. Changed(d)
    BY <1>1 DEF Renamed
  <2>2. Copy(d) = Copy(dir)
    BY <1>1 DEF Copy, Dirs
  <2>3. QED
    BY <2>1, <2>2, SameCopy
<1>2. CASE dir.target = None /\ Renamed("previous", "target")
  <2> DEFINE d == [dir EXCEPT !["target"] = dir["previous"], !["previous"] = None]
  <2>1. Changed(d)
    BY <1>2 DEF Renamed
  <2>2. Copy(d) = Copy(dir)
    BY <1>2 DEF Copy, Dirs
  <2>3. QED
    BY <2>1, <2>2, SameCopy
<1>3. QED
  BY <1>1, <1>2

\* What is staged is not the copy, whatever becomes of it.
LEMMA StagingStutters ==
  ASSUME dir \in Dirs, dir \in mayFind, NEW left,
         Changed([dir EXCEPT !.staging = left])
  PROVE  Stutters
<1>1. Copy([dir EXCEPT !.staging = left]) = Copy(dir)
  BY DEF Copy, Dirs
<1>2. QED
  BY <1>1, SameCopy

\* Beside a target, what is parked is not the copy either.
LEMMA DiscardingStutters ==
  ASSUME dir \in Dirs, dir \in mayFind, dir.target # None, NEW left,
         Changed([dir EXCEPT !.previous = left])
  PROVE  Stutters
<1>1. Copy([dir EXCEPT !.previous = left]) = Copy(dir)
  BY DEF Copy, Dirs
<1>2. QED
  BY <1>1, SameCopy

\* Every step of the importer is one of InstalledCopy, or none.
LEMMA HeldStep ==
  ASSUME IInv, [Next]_vars
  PROVE  [Held!Next]_(Held!vars)
<1> USE DEF IInv
<1>a. Stutters => UNCHANGED Held!vars
  BY DEF Stutters, Held!vars, Possible
<1>b. Settles => Held!Settle
  BY DEF Settles, Held!Settle, Possible
<1>1. CASE BeginRecovery
  BY <1>a, <1>1, StillStutters DEF BeginRecovery, Begin
<1>2. CASE BeginImport
  BY <1>a, <1>2, StillStutters DEF BeginImport, Begin
<1>3. CASE RefuseImport
  BY <1>a, <1>3, StillStutters DEF RefuseImport
<1>4. CASE NothingParked
  BY <1>a, <1>4, StillStutters DEF NothingParked
<1>5. CASE RestorePrevious
  BY <1>a, <1>5, Typed, StillStutters, ParkingStutters
    DEF RestorePrevious, Interrupted
<1>6. CASE FlushRestored
  BY <1>a, <1>b, <1>6, StillStutters, FlushSettles
    DEF FlushRestored, Held!Next
<1>7. CASE DiscardSuperseded
  BY <1>a, <1>7, Typed, StillStutters, DiscardingStutters
    DEF DiscardSuperseded, Superseded, Emptied, Removed
<1>8. CASE FlushDiscarded
  BY <1>a, <1>b, <1>8, StillStutters, FlushSettles
    DEF FlushDiscarded, Held!Next
<1>9. CASE NothingStaged
  BY <1>a, <1>9, StillStutters DEF NothingStaged
<1>10. CASE RemoveStaging
  BY <1>a, <1>10, Typed, StillStutters, StagingStutters
    DEF RemoveStaging, Emptied, Removed
<1>11. CASE FlushUnstaged
  BY <1>a, <1>b, <1>11, StillStutters, FlushSettles
    DEF FlushUnstaged, Held!Next
<1>12. CASE Recovered
  BY <1>a, <1>12, StillStutters DEF Recovered
<1>13. CASE CreateStaging
  BY <1>a, <1>13, Typed, StillStutters, StagingStutters
    DEF CreateStaging
<1>14. CASE Stage
  BY <1>a, <1>14, Typed, StillStutters, StagingStutters
    DEF Stage
<1>15. CASE SwapFirst
  <2>1. CASE Still
    BY <1>a, <2>1, StillStutters
  <2>2. CASE Renamed("staging", "target")
    <3> DEFINE d == [dir EXCEPT !.target = dir.staging, !.staging = None]
    <3>1. Changed(d)
      BY <2>2 DEF Renamed
    <3>2. op.artifact \in Artifacts /\ dir.staging = op.artifact
      BY <1>15, Typed DEF SwapFirst, AtStep, StagedWhole, ImportSteps
    <3>3. Copy(d) = op.artifact
      BY <3>2, Typed, DistinctAssumption DEF Copy, Dirs
    <3>4. Held!Install(op.artifact)
      BY <3>1, <3>3, NewCopy DEF Held!Install, Possible
    <3>5. QED
      BY <3>2, <3>4 DEF Held!Next
  <2>3. QED
    BY <1>15, <2>1, <2>2 DEF SwapFirst
<1>16. CASE FlushFirst
  BY <1>a, <1>b, <1>16, StillStutters, FlushSettles
    DEF FlushFirst, Held!Next
<1>17. CASE Park
  BY <1>a, <1>17, Typed, StillStutters, ParkingStutters
    DEF Park
<1>18. CASE FlushParked
  BY <1>a, <1>b, <1>18, StillStutters, FlushSettles
    DEF FlushParked, Held!Next
<1>19. CASE Install
  <2>1. CASE Still
    BY <1>a, <2>1, StillStutters
  <2>2. CASE Renamed("staging", "target")
    <3> DEFINE d == [dir EXCEPT !.target = dir.staging, !.staging = None]
    <3>1. Changed(d)
      BY <2>2 DEF Renamed
    <3>2. op.artifact \in Artifacts /\ dir.staging = op.artifact
      BY <1>19, Typed DEF Install, AtStep, StagedWhole, ImportSteps
    <3>3. Copy(d) = op.artifact
      BY <3>2, Typed, DistinctAssumption DEF Copy, Dirs
    <3>4. Held!Install(op.artifact)
      BY <3>1, <3>3, NewCopy DEF Held!Install, Possible
    <3>5. QED
      BY <3>2, <3>4 DEF Held!Next
  <2>3. QED
    BY <1>19, <2>1, <2>2 DEF Install
<1>20. CASE FlushSwapped
  BY <1>a, <1>b, <1>20, StillStutters, FlushSettles
    DEF FlushSwapped, Held!Next
<1>21. CASE DiscardPrevious
  <2>1. dir.target # None
    BY <1>21, Typed, DistinctAssumption
      DEF DiscardPrevious, AtStep, Durable, ImportSteps
  <2>2. QED
    BY <1>a, <1>21, <2>1, Typed, StillStutters, DiscardingStutters
      DEF DiscardPrevious, Emptied, Removed
<1>22. CASE FlushCleaned
  BY <1>a, <1>b, <1>22, StillStutters, FlushSettles
    DEF FlushCleaned, Held!Next
<1>23. CASE RestoreParked
  BY <1>a, <1>23, Typed, StillStutters, ParkingStutters
    DEF RestoreParked
<1>24. CASE FlushUndone
  BY <1>a, <1>b, <1>24, StillStutters, FlushSettles
    DEF FlushUndone, Held!Next
<1>25. CASE Cleanup
  <2>1. CASE Still
    BY <1>a, <2>1, StillStutters
  <2>2. CASE ~Still
    <3>1. PICK left \in {dir.staging, Torn, None} :
            LET d == [dir EXCEPT !.staging = left]
            IN dir' = d /\ mayFind' \in {mayFind \cup {d}, {d}}
      BY <1>25, <2>2 DEF Cleanup
    <3> DEFINE d == [dir EXCEPT !.staging = left]
    <3>2. Copy(d) = Copy(dir)
      BY Typed DEF Copy, Dirs
    <3>3. CASE mayFind' = mayFind \cup {d}
      BY <1>a, <3>1, <3>2, <3>3, SameCopy DEF Changed
    <3>4. CASE mayFind' = {d}
      <4>1. Copy(dir)' = Copy(dir) /\ Possible' = {Copy(dir)}
        BY <3>1, <3>2, <3>4 DEF Copy, Possible
      <4>2. QED
        BY <1>b, <4>1 DEF Settles, Held!Next
    <3>5. QED
      BY <3>1, <3>3, <3>4
  <2>3. QED
    BY <2>1, <2>2
<1>26. CASE Kill
  BY <1>a, <1>26, StillStutters DEF Kill
<1>27. CASE PowerLoss
  <2>1. PICK d \in mayFind : dir' = d /\ mayFind' = {d}
    BY <1>27 DEF PowerLoss
  <2>2. Copy(d) \in Possible /\ Copy(dir)' = Copy(d) /\ Possible' = {Copy(d)}
    BY <2>1 DEF Possible, Copy
  <2>3. Held!PowerLoss
    BY <2>2 DEF Held!PowerLoss, Possible
  <2>4. QED
    BY <2>3 DEF Held!Next
<1>28. CASE UNCHANGED vars
  BY <1>a, <1>28 DEF vars, Stutters, Copy, Possible
<1>29. QED
  BY <1>1, <1>2, <1>3, <1>4, <1>5, <1>6, <1>7, <1>8, <1>9, <1>10, <1>11,
     <1>12, <1>13, <1>14, <1>15, <1>16, <1>17, <1>18, <1>19, <1>20, <1>21,
     <1>22, <1>23, <1>24, <1>25, <1>26, <1>27, <1>28
    DEF Next, RecoverNext, SwapNext

\* Install and recovery, with all their failures, implement InstalledCopy: the
\* device holds one complete artifact, changed only by an install or by a power
\* loss that undoes what was not flushed.
THEOREM HoldsACopy == Spec => Implements
<1>1. Init => Held!Init
  BY DEF Init, Held!Init, Copy
<1>2. IInv /\ [Next]_vars => [Held!Next]_(Held!vars)
  BY HeldStep
<1>3. QED
  BY <1>1, <1>2, Invariant, PTL DEF Spec, Implements, Held!Spec
=============================================================================
