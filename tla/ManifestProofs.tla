--------------------------- MODULE ManifestProofs ---------------------------
(***************************************************************************)
(* ManifestFile's invariants, for every set of manifests and any sequence  *)
(* of failed steps and reads, kills and power losses.                      *)
(***************************************************************************)
EXTENDS ManifestFile, TLAPS

-----------------------------------------------------------------------------
(* The inductive invariant.                                                *)

\* Every document that a load could come to is one of the recent ones.  A
\* manifest parked by an older save may lie beside the manifest, and then only.
Recent(d) ==
  /\ d.target # Torn /\ d.previous # Torn
  /\ d.tmp \in Manifests => d.tmp \in recent
  /\ d.target # None => d.target \in recent
  /\ d.target = None /\ d.previous # None => d.previous \in recent

\* Something to load is there.
Findable(d) == d.target # None \/ d.previous # None \/ d.tmp \in Manifests

AllRecent == \A d \in mayFind : Recent(d)

\* No quarantine and no save has given up the last copy.
Expected == None \notin recent

AllFindable == Expected => \A d \in mayFind : Findable(d)

\* A save that is about to lose the candidate has another copy.
CopyElsewhere ==
  op.at \in {"create", "fill"} /\ Expected => dir.target # None \/ dir.previous # None

Candidate ==
  /\ op.at = "fill" => dir.tmp = Torn
  /\ op.at \in {"rename", "clear", "park", "retry", "restore"} => dir.tmp = op.doc

Parked ==
  /\ op.at \in {"create", "fill", "rename", "clear", "park"} => ~op.parked
  /\ op.at = "restore" => op.parked
  /\ op.at \in {"retry", "restore"} /\ op.parked
       => dir.target = None /\ dir.previous # None

\* From the first flush on no power loss undoes the save.
SaveInPlace ==
  /\ op.at \in {"flush", "discard"} => dir.target = op.doc /\ dir.tmp = None
  /\ op.at = "discard" => mayFind = {dir}
  /\ op.at = "flushDiscarded"
       => \A d \in mayFind : d.target = op.doc /\ d.tmp = None

\* What was recovered is in place.
Recovering == op.at = "flushRecovered" => dir.target # None

Calling ==
  /\ op.at # "idle" => told = None
  /\ op.at \in SaveSteps => op.doc \in recent

AtStep ==
  CopyElsewhere /\ Candidate /\ Parked /\ SaveInPlace /\ Recovering /\ Calling

IInv ==
  TypeOK /\ dir \in mayFind /\ AllRecent /\ AllFindable /\ AtStep /\ SavedSurvives

-----------------------------------------------------------------------------
(* Types.                                                                  *)

DiskOK == dir \in Dirs /\ mayFind \in SUBSET Dirs

CallOK ==
  /\ op \in Saving \cup Loading \cup {Idle, Closed}
  /\ told \in Answers \cup {None}
  /\ recent \in SUBSET (Manifests \cup {None})

\* The initial states are well typed and satisfy the invariant.
LEMMA InitIInv == Init => IInv
<1> SUFFICES ASSUME Init PROVE IInv
  OBVIOUS
<1>1. TypeOK
  <2>1. dir \in Dirs /\ mayFind \in SUBSET Dirs
    BY DEF Init, Dirs, Files
  <2> QED
    BY <2>1 DEF Init, TypeOK
<1>2. AllRecent /\ AllFindable
  BY ManifestAssumption DEF Init, Files, AllRecent, AllFindable, Recent,
     Findable, Expected
<1>3. AtStep /\ SavedSurvives
  BY DEF Init, Closed, AtStep, CopyElsewhere, Candidate, Parked, SaveInPlace,
     Recovering,
         Calling, SavedSurvives, SaveSteps
<1>4. dir \in mayFind
  BY DEF Init
<1> QED
  BY <1>1, <1>2, <1>3, <1>4 DEF IInv

\* A step tells which kind of call runs.
LEMMA SaveRuns ==
  ASSUME TypeOK, op.at \in SaveSteps
  PROVE  op \in Saving /\ op.doc \in Manifests /\ op.parked \in BOOLEAN
<1>1. op # Idle /\ op # Closed
  BY DEF Idle, Closed, SaveSteps, LoadSteps
<1> QED
  BY <1>1 DEF TypeOK, Saving, Loading, SaveSteps, LoadSteps

\* Nor does a load hold a document.
LEMMA LoadRuns ==
  ASSUME TypeOK, op.at \in LoadSteps
  PROVE  op \in Loading /\ op.doc = None /\ op.parked = FALSE
<1>1. op # Idle /\ op # Closed
  BY DEF Idle, Closed, SaveSteps, LoadSteps
<1> QED
  BY <1>1 DEF TypeOK, Saving, Loading, SaveSteps, LoadSteps

\* A save that goes on keeps the call's types.
LEMMA SaveGoes ==
  ASSUME TypeOK, op.at \in SaveSteps, NEW step \in SaveSteps, Goto(step)
  PROVE  CallOK'
BY SaveRuns DEF TypeOK, Goto, CallOK, Saving

\* So does a load.
LEMMA LoadGoes ==
  ASSUME TypeOK, op.at \in LoadSteps, NEW step \in LoadSteps, Goto(step)
  PROVE  CallOK'
BY LoadRuns DEF TypeOK, Goto, CallOK, Loading

\* A save that ends keeps the call's types.
LEMMA SaveEnds ==
  ASSUME TypeOK, op.at \in SaveSteps, Saved \/ Failed
  PROVE  CallOK'
<1>1. op' = Idle /\ told' \in Answers
  BY SaveRuns DEF Saved, Failed, Answers
<1>2. recent' \in SUBSET (Manifests \cup {None})
  BY SaveRuns DEF TypeOK, Saved, Failed
<1> QED
  BY <1>1, <1>2 DEF CallOK

\* A change of the directory to a typed one keeps the disk's types.
LEMMA DiskMoves ==
  ASSUME TypeOK, NEW d \in Dirs, Changed(d) \/ Flushed \/ Still
  PROVE  DiskOK'
BY DEF TypeOK, DiskOK, Changed, Flushed, Still

\* Giving a name another content changes no other name.
LEMMA SetFields ==
  ASSUME NEW d \in Dirs, NEW f \in Files
  PROVE  /\ [d EXCEPT !.target = f]
              = [target |-> f, previous |-> d.previous, tmp |-> d.tmp]
         /\ [d EXCEPT !.previous = f]
              = [target |-> d.target, previous |-> f, tmp |-> d.tmp]
         /\ [d EXCEPT !.tmp = f]
              = [target |-> d.target, previous |-> d.previous, tmp |-> f]
BY DEF Dirs

\* Every step keeps the call's types.
LEMMA StepCallOK == ASSUME IInv, Next PROVE CallOK'
<1> USE DEF IInv
<1>1. CASE BeginSave
  BY <1>1, ManifestAssumption DEF TypeOK, CallOK, BeginSave, Saving, SaveSteps
<1>2. CASE CreateTmp
  BY <1>2, SaveGoes, SaveEnds DEF CreateTmp, SaveSteps
<1>3. CASE FillTmp
  BY <1>3, SaveGoes, SaveEnds DEF FillTmp, SaveSteps
<1>4. CASE Rename
  BY <1>4, SaveGoes DEF Rename, SaveSteps
<1>5. CASE Clear
  BY <1>5, SaveGoes DEF Clear, SaveSteps
<1>6. CASE Park
  BY <1>6, SaveGoes, SaveRuns DEF Park, SaveSteps, TypeOK, CallOK, Saving
<1>7. CASE Retry
  BY <1>7, SaveGoes, SaveEnds DEF Retry, SaveSteps
<1>8. CASE Restore
  BY <1>8, SaveEnds DEF Restore, SaveSteps
<1>9. CASE Flush
  BY <1>9, SaveGoes, SaveEnds DEF Flush, SaveSteps
<1>10. CASE Discard
  BY <1>10, SaveGoes, SaveEnds DEF Discard, SaveSteps
<1>11. CASE FlushDiscarded
  BY <1>11, SaveEnds DEF FlushDiscarded, SaveSteps
<1>12. CASE BeginLoad
  BY <1>12 DEF TypeOK, CallOK, BeginLoad, Loading, LoadSteps
<1>13. CASE Load
  <2>1. CASE Loaded
    BY <1>13, <2>1 DEF TypeOK, CallOK, AllRecent, Recent, Dirs, Files, Load, Loaded, Answers
  <2> QED
    BY <1>13, <2>1, LoadGoes DEF Load, LoadSteps
<1>14. CASE RecoverParked
  BY <1>14, LoadGoes DEF RecoverParked, LoadSteps
<1>15. CASE RecoverCandidate
  BY <1>15, LoadGoes DEF RecoverCandidate, LoadSteps
<1>16. CASE NothingSaved
  BY <1>16 DEF TypeOK, CallOK, NothingSaved, Answers
<1>17. CASE FlushRecovered
  <2>1. dir.target \in Manifests
    BY <1>17 DEF TypeOK, AtStep, Recovering, AllRecent, Recent, Dirs, Files,
           FlushRecovered
  <2>2. CASE Loaded
    <3>1. told' \in Answers
      BY <2>1, <2>2 DEF Loaded, Answers
    <3> QED
      BY <2>2, <3>1 DEF TypeOK, CallOK, Loaded
  <2> QED
    BY <1>17, <2>2, LoadGoes DEF FlushRecovered, LoadSteps
<1>18. CASE Quarantine
  <2>1. op' = Idle /\ told' \in Answers
    BY <1>18 DEF Quarantine, Answers
  <2>2. dir.target # None => Found(Quarantined(dir)) \in Manifests \cup {None}
    BY DEF Found, Quarantined
  <2>3. recent' \in SUBSET (Manifests \cup {None})
    BY <1>18, <2>2 DEF TypeOK, Quarantine
  <2> QED
    BY <2>1, <2>3 DEF CallOK
<1>19. CASE Kill
  BY <1>19 DEF TypeOK, CallOK, Kill
<1>20. CASE PowerLoss
  BY <1>20 DEF TypeOK, CallOK, PowerLoss
<1> QED
  BY <1>1, <1>2, <1>3, <1>4, <1>5, <1>6, <1>7, <1>8, <1>9, <1>10, <1>11, <1>12,
     <1>13, <1>14, <1>15, <1>16, <1>17, <1>18, <1>19, <1>20
     DEF Next, SaveNext, LoadNext

\* Every step keeps the disk's types.
LEMMA StepDiskOK == ASSUME IInv, Next PROVE DiskOK'
<1> USE DEF IInv
<1>1. CASE BeginSave
  BY <1>1 DEF TypeOK, DiskOK, BeginSave, Still
<1>2. CASE CreateTmp
  BY <1>2, SetFields DEF TypeOK, DiskOK, CreateTmp, Changed, Still, Dirs, Files
<1>3. CASE FillTmp
  <2>1. op.doc \in Files
    BY <1>3, SaveRuns DEF FillTmp, SaveSteps, Files
  <2>2. ASSUME NEW d \in Dirs PROVE Filled(d) \in Dirs
    <3>1. [d EXCEPT !.tmp = op.doc]
            = [target |-> d.target, previous |-> d.previous, tmp |-> op.doc]
      BY <2>1, SetFields
    <3>2. d.target \in Files /\ d.previous \in Files
      BY DEF Dirs
    <3>3. [d EXCEPT !.tmp = op.doc] \in Dirs
      BY <2>1, <3>1, <3>2 DEF Dirs
    <3> QED
      BY <3>3 DEF Filled
  <2>3. CASE Still
    BY <2>3 DEF TypeOK, DiskOK, Still
  <2>4. CASE dir' = Filled(dir) /\ mayFind' = {Filled(d) : d \in mayFind}
    <3>1. dir' \in Dirs
      BY <2>2, <2>4 DEF TypeOK
    <3>2. ASSUME NEW e \in mayFind' PROVE e \in Dirs
      BY <2>2, <2>4, <3>2 DEF TypeOK
    <3> QED
      BY <3>1, <3>2 DEF DiskOK
  <2> QED
    BY <1>3, <2>3, <2>4 DEF FillTmp
<1>4. CASE Rename
  BY <1>4 DEF TypeOK, DiskOK, Rename, Installed, Changed, Still, Dirs, Files
<1>5. CASE Clear
  BY <1>5, SetFields DEF TypeOK, DiskOK, Clear, Changed, Still, Dirs, Files
<1>6. CASE Park
  BY <1>6 DEF TypeOK, DiskOK, Park, SetAside, Changed, Still, Dirs, Files
<1>7. CASE Retry
  BY <1>7 DEF TypeOK, DiskOK, Retry, Installed, Changed, Still, Dirs, Files
<1>8. CASE Restore
  BY <1>8 DEF TypeOK, DiskOK, Restore, BroughtBack, Changed, Still, Dirs, Files
<1>9. CASE Flush
  BY <1>9 DEF TypeOK, DiskOK, Flush, Flushed, Still
<1>10. CASE Discard
  BY <1>10, SetFields DEF TypeOK, DiskOK, Discard, Changed, Still, Dirs, Files
<1>11. CASE FlushDiscarded
  BY <1>11 DEF TypeOK, DiskOK, FlushDiscarded, Flushed, Still
<1>12. CASE BeginLoad
  BY <1>12 DEF TypeOK, DiskOK, BeginLoad, Still
<1>13. CASE Load
  BY <1>13 DEF TypeOK, DiskOK, Load, Still
<1>14. CASE RecoverParked
  BY <1>14 DEF TypeOK, DiskOK, RecoverParked, BroughtBack, Changed, Still, Dirs, Files
<1>15. CASE RecoverCandidate
  BY <1>15 DEF TypeOK, DiskOK, RecoverCandidate, Installed, Changed, Still,
     Dirs, Files
<1>16. CASE NothingSaved
  BY <1>16 DEF TypeOK, DiskOK, NothingSaved, Still
<1>17. CASE FlushRecovered
  BY <1>17 DEF TypeOK, DiskOK, FlushRecovered, Flushed, Still
<1>18. CASE Quarantine
  <2>1. Quarantined(dir) \in Dirs
    BY SetFields DEF TypeOK, Quarantined, Dirs, Files
  <2> QED
    BY <1>18, <2>1 DEF TypeOK, DiskOK, Quarantine, Changed, Still
<1>19. CASE Kill
  BY <1>19 DEF TypeOK, DiskOK, Kill, Still
<1>20. CASE PowerLoss
  BY <1>20 DEF TypeOK, DiskOK, PowerLoss
<1> QED
  BY <1>1, <1>2, <1>3, <1>4, <1>5, <1>6, <1>7, <1>8, <1>9, <1>10, <1>11, <1>12,
     <1>13, <1>14, <1>15, <1>16, <1>17, <1>18, <1>19, <1>20
     DEF Next, SaveNext, LoadNext

\* What each change of the directory leaves under the three names.
LEMMA Moves ==
  ASSUME TypeOK
  PROVE  /\ Installed => /\ dir'.target = dir.tmp /\ dir'.previous = dir.previous
                         /\ dir'.tmp = None /\ mayFind' = mayFind \cup {dir'}
         /\ SetAside => /\ dir'.target = None /\ dir'.previous = dir.target
                        /\ dir'.tmp = dir.tmp /\ mayFind' = mayFind \cup {dir'}
         /\ BroughtBack => /\ dir'.target = dir.previous /\ dir'.previous = None
                           /\ dir'.tmp = dir.tmp /\ mayFind' = mayFind \cup {dir'}
BY DEF TypeOK, Dirs, Installed, SetAside, BroughtBack, Changed

\* A quarantine takes the manifest away, and what a load then finds is recent.
LEMMA QuarantineLeaves ==
  ASSUME IInv, Quarantine
  PROVE  /\ op'.at = "idle" /\ recent \subseteq recent'
         /\ \/ Still
            \/ /\ mayFind' = mayFind \cup {dir'}
               /\ dir'.target = None
               /\ dir'.previous = dir.previous /\ dir'.tmp = dir.tmp
               /\ dir.previous # None => dir.previous \in recent'
               /\ None \notin recent' => dir.previous # None \/ dir.tmp \in Manifests
<1>1. op'.at = "idle" /\ recent \subseteq recent'
  BY DEF Quarantine, Idle
<1>2. CASE Still
  BY <1>1, <1>2
<1>3. CASE Changed(Quarantined(dir)) /\ recent' = recent \cup {Found(Quarantined(dir))}
  <2> DEFINE e == Quarantined(dir)
  <2>1. e.target = None /\ e.previous = dir.previous /\ e.tmp = dir.tmp
    BY SetFields DEF IInv, TypeOK, Quarantined, Dirs, Files
  <2>2. dir.previous \in Manifests \cup {None} /\ dir.tmp \in Files
    BY DEF IInv, TypeOK, AllRecent, Recent, Dirs, Files
  <2>3. dir.previous # None => Found(e) = dir.previous
    BY <2>1, <2>2 DEF Found
  <2>4. dir.previous = None /\ dir.tmp \notin Manifests => Found(e) = None
    BY <2>1, <2>2, ManifestAssumption DEF Found
  <2>5. dir' = e /\ mayFind' = mayFind \cup {dir'} /\ Found(e) \in recent'
    BY <1>3 DEF Changed
  <2> QED
    BY <1>1, <2>1, <2>3, <2>4, <2>5
<1> QED
  BY <1>1, <1>2, <1>3 DEF Quarantine

\* A call that goes on changes only its step.
LEMMA Goes ==
  ASSUME TypeOK, NEW step, Goto(step)
  PROVE  /\ op'.at = step /\ op'.doc = op.doc /\ op'.parked = op.parked
         /\ told' = told /\ recent' = recent
BY DEF TypeOK, Saving, Loading, Idle, Closed, Goto

\* A save that ends.
LEMMA Ends ==
  ASSUME TypeOK
  PROVE  /\ Saved => /\ op'.at = "idle" /\ recent' = {op.doc}
                     /\ told'.doc = op.doc /\ told'.result = "saved"
         /\ Failed => /\ op'.at = "idle" /\ recent' = recent
                      /\ told'.result = "failed"
BY DEF Saved, Failed, Idle

\* What this machine sees is always among what a power loss may leave.
LEMMA StepMember == ASSUME IInv, Next PROVE dir' \in mayFind'
<1> USE ManifestAssumption DEF IInv, TypeOK
<1>1. CASE BeginSave
  BY <1>1, Moves, Goes, Ends, SaveRuns DEF BeginSave, Still, Idle, Dirs, Files
<1>2. CASE CreateTmp
  BY <1>2, Moves, Goes, Ends, SaveRuns DEF CreateTmp, Changed, Still,
     Idle, Dirs, Files
<1>3. CASE FillTmp
  BY <1>3, Moves, Goes, Ends, SaveRuns DEF FillTmp, Filled, Still,
     Idle, Dirs, Files
<1>4. CASE Rename
  BY <1>4, Moves, Goes, Ends, SaveRuns DEF Rename, Still, Dirs, Files
<1>5. CASE Clear
  BY <1>5, Moves, Goes, Ends, SaveRuns DEF Clear, Changed, Still, Dirs, Files
<1>6. CASE Park
  BY <1>6, Moves, Goes, Ends, SaveRuns DEF Park, Still, Dirs, Files
<1>7. CASE Retry
  BY <1>7, Moves, Goes, Ends, SaveRuns DEF Retry, Still, Idle, Dirs, Files
<1>8. CASE Restore
  BY <1>8, Moves, Goes, Ends, SaveRuns DEF Restore, Still, Idle, Dirs, Files
<1>9. CASE Flush
  BY <1>9, Moves, Goes, Ends, SaveRuns DEF Flush, Flushed, Still, Idle,
     Dirs, Files
<1>10. CASE Discard
  BY <1>10, Moves, Goes, Ends, SaveRuns DEF Discard, Changed, Still,
     Idle, Dirs, Files
<1>11. CASE FlushDiscarded
  BY <1>11, Moves, Goes, Ends, SaveRuns DEF FlushDiscarded, Flushed, Still, Idle, Dirs, Files
<1>12. CASE BeginLoad
  BY <1>12, Moves, Goes, Ends, SaveRuns DEF BeginLoad, Still, Closed,
     Dirs, Files
<1>13. CASE Load
  BY <1>13, Moves, Goes, Ends, SaveRuns DEF Load, Loaded, Still, Idle, Dirs, Files
<1>14. CASE RecoverParked
  BY <1>14, Moves, Goes, Ends, SaveRuns DEF RecoverParked, Still, Dirs, Files
<1>15. CASE RecoverCandidate
  BY <1>15, Moves, Goes, Ends, SaveRuns DEF RecoverCandidate,
     Still, Dirs, Files
<1>16. CASE NothingSaved
  BY <1>16, Moves, Goes, Ends, SaveRuns DEF NothingSaved, Still, Idle,
     Dirs, Files
<1>17. CASE FlushRecovered
  BY <1>17, Moves, Goes, Ends, SaveRuns DEF FlushRecovered, Flushed, Loaded,
     Still, Idle, Dirs, Files
<1>18. CASE Quarantine
  BY <1>18, Moves, Goes, Ends, SaveRuns DEF Quarantine, Quarantined, Changed, Still, Idle,
     Dirs, Files
<1>19. CASE Kill
  BY <1>19, Moves, Goes, Ends, SaveRuns DEF Kill, Still, Closed, Dirs, Files
<1>20. CASE PowerLoss
  BY <1>20, Moves, Goes, Ends, SaveRuns DEF PowerLoss, Closed, Dirs, Files
<1> QED
  BY <1>1, <1>2, <1>3, <1>4, <1>5, <1>6, <1>7, <1>8, <1>9, <1>10, <1>11, <1>12,
     <1>13, <1>14, <1>15, <1>16, <1>17, <1>18, <1>19, <1>20
     DEF Next, SaveNext, LoadNext

\* No step leaves a document that is not recent where a load could come to it.
LEMMA StepRecent == ASSUME IInv, Next PROVE AllRecent'
<1> USE ManifestAssumption DEF IInv, TypeOK
<1>1. CASE BeginSave
  BY <1>1, Moves, Goes, Ends, SaveRuns DEF BeginSave, Still, Idle, AllRecent,
     Recent, AtStep, Candidate, Parked, SaveInPlace, Recovering, Calling, Dirs,
     Files, SaveSteps
<1>2. CASE CreateTmp
  <2>1. CASE Changed([dir EXCEPT !.tmp = Torn]) /\ Goto("fill")
    BY <1>2, <2>1, Moves, Goes, Ends, SaveRuns DEF CreateTmp,  Changed, Still, Idle, AllRecent, Recent, AtStep, Candidate, Parked, SaveInPlace,
       Recovering, Calling, Dirs, Files, SaveSteps
  <2>2. CASE Failed /\ Still
    BY <1>2, <2>2, Moves, Goes, Ends, SaveRuns DEF CreateTmp,  Changed, Still, Idle, AllRecent, Recent, AtStep, Candidate, Parked, SaveInPlace,
       Recovering, Calling, Dirs, Files, SaveSteps
  <2> QED
    BY <1>2, <2>1, <2>2 DEF CreateTmp
<1>3. CASE FillTmp
  <2>1. CASE dir' = Filled(dir) /\ mayFind' = {Filled(d) : d \in mayFind} /\ Goto("rename")
    BY <1>3, <2>1, Moves, Goes, Ends, SaveRuns DEF FillTmp,  Filled, Still, Idle, AllRecent, Recent, AtStep, Candidate, Parked, SaveInPlace,
       Recovering, Calling, Dirs, Files, SaveSteps
  <2>2. CASE Failed /\ Still
    BY <1>3, <2>2, Moves, Goes, Ends, SaveRuns DEF FillTmp,  Filled, Still, Idle, AllRecent, Recent, AtStep, Candidate, Parked, SaveInPlace,
       Recovering, Calling, Dirs, Files, SaveSteps
  <2> QED
    BY <1>3, <2>1, <2>2 DEF FillTmp
<1>4. CASE Rename
  BY <1>4, Moves, Goes, Ends, SaveRuns DEF Rename, Still, AllRecent,
     Recent, AtStep, Candidate, Parked, SaveInPlace, Recovering, Calling, Dirs,
     Files, SaveSteps
<1>5. CASE Clear
  BY <1>5, Moves, Goes, Ends, SaveRuns DEF Clear, Changed, Still,
     AllRecent, Recent, AtStep, Candidate, Parked, SaveInPlace, Recovering,
     Calling, Dirs, Files, SaveSteps
<1>6. CASE Park
  BY <1>6, Moves, Goes, Ends, SaveRuns DEF Park, Still, AllRecent,
     Recent, AtStep, Candidate, Parked, SaveInPlace, Recovering, Calling, Dirs,
     Files, SaveSteps
<1>7. CASE Retry
  <2>1. CASE Installed /\ Goto("flush")
    BY <1>7, <2>1, Moves, Goes, Ends, SaveRuns DEF Retry,  Still, Idle,
       AllRecent, Recent, AtStep, Candidate, Parked, SaveInPlace, Recovering,
       Calling, Dirs, Files, SaveSteps
  <2>2. CASE op.parked /\ Goto("restore") /\ Still
    BY <1>7, <2>2, Moves, Goes, Ends, SaveRuns DEF Retry,  Still, Idle,
       AllRecent, Recent, AtStep, Candidate, Parked, SaveInPlace, Recovering,
       Calling, Dirs, Files, SaveSteps
  <2>3. CASE ~op.parked /\ Failed /\ Still
    BY <1>7, <2>3, Moves, Goes, Ends, SaveRuns DEF Retry,  Still, Idle,
       AllRecent, Recent, AtStep, Candidate, Parked, SaveInPlace, Recovering,
       Calling, Dirs, Files, SaveSteps
  <2> QED
    BY <1>7, <2>1, <2>2, <2>3 DEF Retry
<1>8. CASE Restore
  <2>1. CASE Failed /\ BroughtBack
    <3>1. dir.target = None /\ dir.previous # None
      BY <1>8 DEF Restore, AtStep, Parked
    <3>2. dir.previous \in recent /\ dir.previous # Torn
      BY <3>1 DEF AllRecent, Recent
    <3>3. dir.tmp \in Manifests => dir.tmp \in recent
      BY DEF AllRecent, Recent
    <3>4. mayFind' = mayFind \cup {dir'} /\ recent' = recent
      BY <2>1, Moves, Ends
    <3>5. ASSUME NEW d \in mayFind' PROVE Recent(d)'
      <4>1. CASE d = dir'
        BY <2>1, <3>2, <3>3, <3>4, <4>1, Moves, ManifestAssumption DEF Recent
      <4>2. CASE d \in mayFind
        BY <3>4, <4>2 DEF AllRecent, Recent
      <4> QED
        BY <3>4, <3>5, <4>1, <4>2
    <3> QED
      BY <3>5 DEF AllRecent
  <2>2. CASE Failed /\ Still
    BY <1>8, <2>2, Moves, Goes, Ends, SaveRuns DEF Restore,  Still,
       Idle, AllRecent, Recent, AtStep, Candidate, Parked, SaveInPlace,
       Recovering, Calling, Dirs, Files, SaveSteps
  <2> QED
    BY <1>8, <2>1, <2>2 DEF Restore
<1>9. CASE Flush
  <2>1. CASE Flushed /\ Saved
    BY <1>9, <2>1, Moves, Goes, Ends, SaveRuns DEF Flush,  Flushed, Still, Idle, AllRecent, Recent, AtStep, Candidate, Parked, SaveInPlace,
       Recovering, Calling, Dirs, Files, SaveSteps
  <2>2. CASE op.parked /\ Flushed /\ Goto("discard")
    BY <1>9, <2>2, Moves, Goes, Ends, SaveRuns DEF Flush,  Flushed, Still, Idle, AllRecent, Recent, AtStep, Candidate, Parked, SaveInPlace,
       Recovering, Calling, Dirs, Files, SaveSteps
  <2>3. CASE Failed /\ Still
    BY <1>9, <2>3, Moves, Goes, Ends, SaveRuns DEF Flush,  Flushed, Still, Idle, AllRecent, Recent, AtStep, Candidate, Parked, SaveInPlace,
       Recovering, Calling, Dirs, Files, SaveSteps
  <2> QED
    BY <1>9, <2>1, <2>2, <2>3 DEF Flush
<1>10. CASE Discard
  <2>1. CASE Changed([dir EXCEPT !.previous = None]) /\ Goto("flushDiscarded")
    BY <1>10, <2>1, Moves, Goes, Ends, SaveRuns DEF Discard,  Changed, Still, Idle, AllRecent, Recent, AtStep, Candidate, Parked, SaveInPlace,
       Recovering, Calling, Dirs, Files, SaveSteps
  <2>2. CASE Saved /\ Still
    BY <1>10, <2>2, Moves, Goes, Ends, SaveRuns DEF Discard,  Changed, Still, Idle, AllRecent, Recent, AtStep, Candidate, Parked, SaveInPlace,
       Recovering, Calling, Dirs, Files, SaveSteps
  <2> QED
    BY <1>10, <2>1, <2>2 DEF Discard
<1>11. CASE FlushDiscarded
  <2>1. CASE Flushed /\ Saved
    BY <1>11, <2>1, Moves, Goes, Ends, SaveRuns DEF FlushDiscarded,  Flushed,
       Still, Idle, AllRecent, Recent, AtStep, Candidate, Parked,
       SaveInPlace, Recovering, Calling, Dirs, Files, SaveSteps
  <2>2. CASE Failed /\ Still
    BY <1>11, <2>2, Moves, Goes, Ends, SaveRuns DEF FlushDiscarded,  Flushed,
       Still, Idle, AllRecent, Recent, AtStep, Candidate, Parked,
       SaveInPlace, Recovering, Calling, Dirs, Files, SaveSteps
  <2> QED
    BY <1>11, <2>1, <2>2 DEF FlushDiscarded
<1>12. CASE BeginLoad
  BY <1>12, Moves, Goes, Ends, SaveRuns DEF BeginLoad, Still, Closed,
     AllRecent, Recent, AtStep, Candidate, Parked, SaveInPlace, Recovering,
     Calling, Dirs, Files, SaveSteps
<1>13. CASE Load
  BY <1>13, Moves, Goes, Ends, SaveRuns DEF Load, Loaded, Still, Idle,
     AllRecent, Recent, AtStep, Candidate, Parked, SaveInPlace, Recovering,
     Calling, Dirs, Files, SaveSteps
<1>14. CASE RecoverParked
  BY <1>14, Moves, Goes, Ends, SaveRuns DEF RecoverParked, Still, AllRecent, Recent, AtStep, Candidate, Parked, SaveInPlace,
     Recovering, Calling, Dirs, Files, SaveSteps
<1>15. CASE RecoverCandidate
  BY <1>15, Moves, Goes, Ends, SaveRuns DEF RecoverCandidate,
     Still, AllRecent, Recent, AtStep, Candidate, Parked, SaveInPlace,
     Recovering, Calling, Dirs, Files, SaveSteps
<1>16. CASE NothingSaved
  BY <1>16, Moves, Goes, Ends, SaveRuns DEF NothingSaved, Still, Idle,
     AllRecent, Recent, AtStep, Candidate, Parked, SaveInPlace, Recovering,
     Calling, Dirs, Files, SaveSteps
<1>17. CASE FlushRecovered
  BY <1>17, Moves, Goes, Ends, SaveRuns DEF FlushRecovered, Flushed, Loaded,
     Still, Idle, AllRecent, Recent, AtStep, Candidate, Parked,
     SaveInPlace, Recovering, Calling, Dirs, Files, SaveSteps
<1>18. CASE Quarantine
  BY <1>18, QuarantineLeaves DEF Still, AllRecent, Recent
<1>19. CASE Kill
  BY <1>19, Moves, Goes, Ends, SaveRuns DEF Kill, Still, Closed,
     AllRecent, Recent, AtStep, Candidate, Parked, SaveInPlace, Recovering,
     Calling, Dirs, Files, SaveSteps
<1>20. CASE PowerLoss
  BY <1>20, Moves, Goes, Ends, SaveRuns DEF PowerLoss, Closed,
     AllRecent, Recent, AtStep, Candidate, Parked, SaveInPlace, Recovering,
     Calling, Dirs, Files, SaveSteps
<1> QED
  BY <1>1, <1>2, <1>3, <1>4, <1>5, <1>6, <1>7, <1>8, <1>9, <1>10, <1>11, <1>12,
     <1>13, <1>14, <1>15, <1>16, <1>17, <1>18, <1>19, <1>20
     DEF Next, SaveNext, LoadNext

\* No step leaves nothing to load.
LEMMA StepFindable == ASSUME IInv, Next PROVE AllFindable'
<1> USE ManifestAssumption DEF IInv, TypeOK
<1>1. CASE BeginSave
  BY <1>1, Moves, Goes, Ends, SaveRuns DEF BeginSave, Still, Idle, AllFindable,
     Findable, Expected, AllRecent, Recent, AtStep, CopyElsewhere, Candidate,
     Parked, SaveInPlace, Recovering, Calling, Dirs, Files, SaveSteps
<1>2. CASE CreateTmp
  <2>1. CASE Changed([dir EXCEPT !.tmp = Torn]) /\ Goto("fill")
    BY <1>2, <2>1, Moves, Goes, Ends, SaveRuns DEF CreateTmp,  Changed, Still, Idle, AllFindable, Findable, Expected, AllRecent, Recent,
       AtStep, CopyElsewhere, Candidate, Parked, SaveInPlace, Recovering,
       Calling, Dirs, Files, SaveSteps
  <2>2. CASE Failed /\ Still
    BY <1>2, <2>2, Moves, Goes, Ends, SaveRuns DEF CreateTmp,  Changed, Still, Idle, AllFindable, Findable, Expected, AllRecent, Recent,
       AtStep, CopyElsewhere, Candidate, Parked, SaveInPlace, Recovering,
       Calling, Dirs, Files, SaveSteps
  <2> QED
    BY <1>2, <2>1, <2>2 DEF CreateTmp
<1>3. CASE FillTmp
  <2>1. CASE dir' = Filled(dir) /\ mayFind' = {Filled(d) : d \in mayFind} /\ Goto("rename")
    BY <1>3, <2>1, Moves, Goes, Ends, SaveRuns DEF FillTmp,  Filled, Still, Idle, AllFindable, Findable, Expected, AllRecent, Recent,
       AtStep, CopyElsewhere, Candidate, Parked, SaveInPlace, Recovering,
       Calling, Dirs, Files, SaveSteps
  <2>2. CASE Failed /\ Still
    BY <1>3, <2>2, Moves, Goes, Ends, SaveRuns DEF FillTmp,  Filled, Still, Idle, AllFindable, Findable, Expected, AllRecent, Recent,
       AtStep, CopyElsewhere, Candidate, Parked, SaveInPlace, Recovering,
       Calling, Dirs, Files, SaveSteps
  <2> QED
    BY <1>3, <2>1, <2>2 DEF FillTmp
<1>4. CASE Rename
  BY <1>4, Moves, Goes, Ends, SaveRuns DEF Rename, Still, AllFindable,
     Findable, Expected, AllRecent, Recent, AtStep, CopyElsewhere, Candidate,
     Parked, SaveInPlace, Recovering, Calling, Dirs, Files, SaveSteps
<1>5. CASE Clear
  BY <1>5, Moves, Goes, Ends, SaveRuns DEF Clear, Changed, Still,
     AllFindable, Findable, Expected, AllRecent, Recent, AtStep, CopyElsewhere,
     Candidate, Parked, SaveInPlace, Recovering, Calling, Dirs, Files, SaveSteps
<1>6. CASE Park
  BY <1>6, Moves, Goes, Ends, SaveRuns DEF Park, Still, AllFindable,
     Findable, Expected, AllRecent, Recent, AtStep, CopyElsewhere, Candidate,
     Parked, SaveInPlace, Recovering, Calling, Dirs, Files, SaveSteps
<1>7. CASE Retry
  <2>1. CASE Installed /\ Goto("flush")
    BY <1>7, <2>1, Moves, Goes, Ends, SaveRuns DEF Retry,  Still, Idle,
       AllFindable, Findable, Expected, AllRecent, Recent, AtStep, CopyElsewhere,
       Candidate, Parked, SaveInPlace, Recovering, Calling, Dirs, Files,
       SaveSteps
  <2>2. CASE op.parked /\ Goto("restore") /\ Still
    BY <1>7, <2>2, Moves, Goes, Ends, SaveRuns DEF Retry,  Still, Idle,
       AllFindable, Findable, Expected, AllRecent, Recent, AtStep, CopyElsewhere,
       Candidate, Parked, SaveInPlace, Recovering, Calling, Dirs, Files,
       SaveSteps
  <2>3. CASE ~op.parked /\ Failed /\ Still
    BY <1>7, <2>3, Moves, Goes, Ends, SaveRuns DEF Retry,  Still, Idle,
       AllFindable, Findable, Expected, AllRecent, Recent, AtStep, CopyElsewhere,
       Candidate, Parked, SaveInPlace, Recovering, Calling, Dirs, Files,
       SaveSteps
  <2> QED
    BY <1>7, <2>1, <2>2, <2>3 DEF Retry
<1>8. CASE Restore
  BY <1>8, Moves, Goes, Ends, SaveRuns DEF Restore, Still, Idle,
     AllFindable, Findable, Expected, AllRecent, Recent, AtStep, CopyElsewhere,
     Candidate, Parked, SaveInPlace, Recovering, Calling, Dirs, Files, SaveSteps
<1>9. CASE Flush
  BY <1>9, Moves, Goes, Ends, SaveRuns DEF Flush, Flushed, Still, Idle,
     AllFindable, Findable, Expected, AllRecent, Recent, AtStep, CopyElsewhere,
     Candidate, Parked, SaveInPlace, Recovering, Calling, Dirs, Files, SaveSteps
<1>10. CASE Discard
  BY <1>10, Moves, Goes, Ends, SaveRuns DEF Discard, Changed, Still,
     Idle, AllFindable, Findable, Expected, AllRecent, Recent, AtStep,
     CopyElsewhere, Candidate, Parked, SaveInPlace, Recovering, Calling, Dirs,
     Files, SaveSteps
<1>11. CASE FlushDiscarded
  BY <1>11, Moves, Goes, Ends, SaveRuns DEF FlushDiscarded, Flushed, Still, Idle, AllFindable, Findable, Expected, AllRecent, Recent, AtStep,
     CopyElsewhere, Candidate, Parked, SaveInPlace, Recovering, Calling, Dirs,
     Files, SaveSteps
<1>12. CASE BeginLoad
  BY <1>12, Moves, Goes, Ends, SaveRuns DEF BeginLoad, Still, Closed,
     AllFindable, Findable, Expected, AllRecent, Recent, AtStep, CopyElsewhere,
     Candidate, Parked, SaveInPlace, Recovering, Calling, Dirs, Files, SaveSteps
<1>13. CASE Load
  BY <1>13, Moves, Goes, Ends, SaveRuns DEF Load, Loaded, Still, Idle,
     AllFindable, Findable, Expected, AllRecent, Recent, AtStep, CopyElsewhere,
     Candidate, Parked, SaveInPlace, Recovering, Calling, Dirs, Files, SaveSteps
<1>14. CASE RecoverParked
  BY <1>14, Moves, Goes, Ends, SaveRuns DEF RecoverParked, Still, AllFindable, Findable, Expected, AllRecent, Recent, AtStep,
     CopyElsewhere, Candidate, Parked, SaveInPlace, Recovering, Calling, Dirs,
     Files, SaveSteps
<1>15. CASE RecoverCandidate
  BY <1>15, Moves, Goes, Ends, SaveRuns DEF RecoverCandidate,
     Still, AllFindable, Findable, Expected, AllRecent, Recent, AtStep,
     CopyElsewhere, Candidate, Parked, SaveInPlace, Recovering, Calling, Dirs,
     Files, SaveSteps
<1>16. CASE NothingSaved
  BY <1>16, Moves, Goes, Ends, SaveRuns DEF NothingSaved, Still, Idle,
     AllFindable, Findable, Expected, AllRecent, Recent, AtStep, CopyElsewhere,
     Candidate, Parked, SaveInPlace, Recovering, Calling, Dirs, Files, SaveSteps
<1>17. CASE FlushRecovered
  BY <1>17, Moves, Goes, Ends, SaveRuns DEF FlushRecovered, Flushed, Loaded,
     Still, Idle, AllFindable, Findable, Expected, AllRecent, Recent,
     AtStep, CopyElsewhere, Candidate, Parked, SaveInPlace, Recovering, Calling,
     Dirs, Files, SaveSteps
<1>18. CASE Quarantine
  BY <1>18, QuarantineLeaves DEF Still, AllFindable, Findable, Expected
<1>19. CASE Kill
  BY <1>19, Moves, Goes, Ends, SaveRuns DEF Kill, Still, Closed,
     AllFindable, Findable, Expected, AllRecent, Recent, AtStep, CopyElsewhere,
     Candidate, Parked, SaveInPlace, Recovering, Calling, Dirs, Files, SaveSteps
<1>20. CASE PowerLoss
  BY <1>20, Moves, Goes, Ends, SaveRuns DEF PowerLoss, Closed,
     AllFindable, Findable, Expected, AllRecent, Recent, AtStep, CopyElsewhere,
     Candidate, Parked, SaveInPlace, Recovering, Calling, Dirs, Files, SaveSteps
<1> QED
  BY <1>1, <1>2, <1>3, <1>4, <1>5, <1>6, <1>7, <1>8, <1>9, <1>10, <1>11, <1>12,
     <1>13, <1>14, <1>15, <1>16, <1>17, <1>18, <1>19, <1>20
     DEF Next, SaveNext, LoadNext

\* A reported save stays durable until the next call.
LEMMA StepSurvives == ASSUME IInv, Next PROVE SavedSurvives'
<1> USE ManifestAssumption DEF IInv, TypeOK
<1>1. CASE BeginSave
  BY <1>1, Moves, Goes, Ends, SaveRuns DEF BeginSave, Still, Idle,
     SavedSurvives, AtStep, SaveInPlace, Calling
<1>2. CASE CreateTmp
  BY <1>2, Moves, Goes, Ends, SaveRuns DEF CreateTmp, Changed, Still,
     Idle, SavedSurvives, AtStep, SaveInPlace, Calling
<1>3. CASE FillTmp
  BY <1>3, Moves, Goes, Ends, SaveRuns DEF FillTmp, Filled, Still,
     Idle, SavedSurvives, AtStep, SaveInPlace, Calling
<1>4. CASE Rename
  BY <1>4, Moves, Goes, Ends, SaveRuns DEF Rename, Still,
     SavedSurvives, AtStep, SaveInPlace, Calling
<1>5. CASE Clear
  BY <1>5, Moves, Goes, Ends, SaveRuns DEF Clear, Changed, Still,
     SavedSurvives, AtStep, SaveInPlace, Calling
<1>6. CASE Park
  BY <1>6, Moves, Goes, Ends, SaveRuns DEF Park, Still, SavedSurvives,
     AtStep, SaveInPlace, Calling
<1>7. CASE Retry
  BY <1>7, Moves, Goes, Ends, SaveRuns DEF Retry, Still, Idle,
     SavedSurvives, AtStep, SaveInPlace, Calling
<1>8. CASE Restore
  BY <1>8, Moves, Goes, Ends, SaveRuns DEF Restore, Still, Idle,
     SavedSurvives, AtStep, SaveInPlace, Calling
<1>9. CASE Flush
  BY <1>9, Moves, Goes, Ends, SaveRuns DEF Flush, Flushed, Still, Idle,
     SavedSurvives, AtStep, SaveInPlace, Calling
<1>10. CASE Discard
  BY <1>10, Moves, Goes, Ends, SaveRuns DEF Discard, Changed, Still,
     Idle, SavedSurvives, AtStep, SaveInPlace, Calling
<1>11. CASE FlushDiscarded
  BY <1>11, Moves, Goes, Ends, SaveRuns DEF FlushDiscarded, Flushed, Still, Idle, SavedSurvives, AtStep, SaveInPlace, Calling
<1>12. CASE BeginLoad
  BY <1>12, Moves, Goes, Ends, SaveRuns DEF BeginLoad, Still, Closed,
     SavedSurvives, AtStep, SaveInPlace, Calling
<1>13. CASE Load
  BY <1>13, Moves, Goes, Ends, SaveRuns DEF Load, Loaded, Still, Idle,
     SavedSurvives, AtStep, SaveInPlace, Calling
<1>14. CASE RecoverParked
  BY <1>14, Moves, Goes, Ends, SaveRuns DEF RecoverParked, Still, SavedSurvives, AtStep, SaveInPlace, Calling
<1>15. CASE RecoverCandidate
  BY <1>15, Moves, Goes, Ends, SaveRuns DEF RecoverCandidate,
     Still, SavedSurvives, AtStep, SaveInPlace, Calling
<1>16. CASE NothingSaved
  BY <1>16, Moves, Goes, Ends, SaveRuns DEF NothingSaved, Still, Idle,
     SavedSurvives, AtStep, SaveInPlace, Calling
<1>17. CASE FlushRecovered
  BY <1>17, Moves, Goes, Ends, SaveRuns DEF FlushRecovered, Flushed, Loaded,
     Still, Idle, SavedSurvives, AtStep, SaveInPlace, Calling
<1>18. CASE Quarantine
  BY <1>18, Moves, Goes, Ends, SaveRuns DEF Quarantine, Quarantined, Changed, Still, Idle,
     SavedSurvives, AtStep, SaveInPlace, Calling
<1>19. CASE Kill
  BY <1>19, Moves, Goes, Ends, SaveRuns DEF Kill, Still, Closed,
     SavedSurvives, AtStep, SaveInPlace, Calling
<1>20. CASE PowerLoss
  BY <1>20, Moves, Goes, Ends, SaveRuns DEF PowerLoss, Closed,
     SavedSurvives, AtStep, SaveInPlace, Calling
<1> QED
  BY <1>1, <1>2, <1>3, <1>4, <1>5, <1>6, <1>7, <1>8, <1>9, <1>10, <1>11, <1>12,
     <1>13, <1>14, <1>15, <1>16, <1>17, <1>18, <1>19, <1>20
     DEF Next, SaveNext, LoadNext

\* What holds at a step holds at the next.
LEMMA StepAtStep == ASSUME IInv, Next PROVE AtStep'
<1> USE ManifestAssumption DEF IInv, TypeOK
<1>1. CASE BeginSave
  <2>0. Expected' => dir.target # None \/ dir.previous # None
    BY <1>1, ManifestAssumption
       DEF BeginSave, Expected, AllFindable, Findable, AllRecent, Recent, OnlyCandidate,
           Dirs, Files
  <2>1. CopyElsewhere'
    BY <1>1, <2>0, SaveRuns DEF BeginSave, Still, Idle, AtStep, CopyElsewhere,
       Expected, SaveSteps
  <2>2. Candidate'
    BY <1>1, <2>0, SaveRuns DEF BeginSave, Still, Idle, AtStep, Candidate, SaveSteps
  <2>3. Parked'
    BY <1>1, <2>0, SaveRuns DEF BeginSave, Still, Idle, AtStep, Parked, SaveSteps
  <2>4. SaveInPlace'
    BY <1>1, <2>0, SaveRuns DEF BeginSave, Still, Idle, AtStep, SaveInPlace, SaveSteps
  <2>5. Recovering'
    BY <1>1, <2>0, SaveRuns DEF BeginSave, Still, Idle, AtStep, Recovering, SaveSteps
  <2>6. Calling'
    BY <1>1, <2>0, SaveRuns DEF BeginSave, Still, Idle, AtStep, Calling, SaveSteps
  <2> QED
    BY <2>1, <2>2, <2>3, <2>4, <2>5, <2>6 DEF AtStep
<1>2. CASE CreateTmp
  <2>1. CASE Changed([dir EXCEPT !.tmp = Torn]) /\ Goto("fill")
    BY <1>2, <2>1, Moves, Goes, Ends, SaveRuns DEF CreateTmp,  Changed, Still, Idle, AtStep, CopyElsewhere, Candidate, Parked, SaveInPlace,
       Recovering, Calling, AllFindable, Findable, Expected, AllRecent, Recent,
       Found, Dirs, Files, SaveSteps
  <2>2. CASE Failed /\ Still
    BY <1>2, <2>2, Moves, Goes, Ends, SaveRuns DEF CreateTmp,  Changed, Still, Idle, AtStep, CopyElsewhere, Candidate, Parked, SaveInPlace,
       Recovering, Calling, AllFindable, Findable, Expected, AllRecent, Recent,
       Found, Dirs, Files, SaveSteps
  <2> QED
    BY <1>2, <2>1, <2>2 DEF CreateTmp
<1>3. CASE FillTmp
  <2>1. CASE dir' = Filled(dir) /\ mayFind' = {Filled(d) : d \in mayFind} /\ Goto("rename")
    BY <1>3, <2>1, Moves, Goes, Ends, SaveRuns DEF FillTmp,  Filled, Still, Idle, AtStep, CopyElsewhere, Candidate, Parked, SaveInPlace,
       Recovering, Calling, AllFindable, Findable, Expected, AllRecent, Recent,
       Found, Dirs, Files, SaveSteps
  <2>2. CASE Failed /\ Still
    BY <1>3, <2>2, Moves, Goes, Ends, SaveRuns DEF FillTmp,  Filled, Still, Idle, AtStep, CopyElsewhere, Candidate, Parked, SaveInPlace,
       Recovering, Calling, AllFindable, Findable, Expected, AllRecent, Recent,
       Found, Dirs, Files, SaveSteps
  <2> QED
    BY <1>3, <2>1, <2>2 DEF FillTmp
<1>4. CASE Rename
  BY <1>4, Moves, Goes, Ends, SaveRuns DEF Rename, Still, AtStep,
     CopyElsewhere, Candidate, Parked, SaveInPlace, Recovering, Calling,
     AllFindable, Findable, Expected, AllRecent, Recent, Found, Dirs, Files,
     SaveSteps
<1>5. CASE Clear
  BY <1>5, Moves, Goes, Ends, SaveRuns DEF Clear, Changed, Still,
     AtStep, CopyElsewhere, Candidate, Parked, SaveInPlace, Recovering, Calling,
     AllFindable, Findable, Expected, AllRecent, Recent, Found, Dirs, Files,
     SaveSteps
<1>6. CASE Park
  <2>1. CASE dir.target # None /\ SetAside /\ op' = [op EXCEPT !.at = "retry", !.parked = TRUE] /\ UNCHANGED <<told, recent>>
    BY <1>6, <2>1, Moves, Goes, Ends, SaveRuns DEF Park,  Still,
       AtStep, CopyElsewhere, Candidate, Parked, SaveInPlace, Recovering,
       Calling, AllFindable, Findable, Expected, AllRecent, Recent, Found, Dirs,
       Files, SaveSteps
  <2>2. CASE Goto("retry") /\ Still
    <3>0. op'.at = "retry" /\ op'.doc = op.doc /\ op'.parked = op.parked
             /\ told' = told /\ recent' = recent
      BY <2>2, Goes
    <3>1. CopyElsewhere'
      BY <1>6, <2>2, <3>0, SaveRuns DEF Park, Still, AtStep, CopyElsewhere,
         Expected, SaveSteps
    <3>2. Candidate'
      BY <1>6, <2>2, <3>0, SaveRuns DEF Park, Still, AtStep, Candidate, SaveSteps
    <3>3. Parked'
      BY <1>6, <2>2, <3>0, SaveRuns DEF Park, Still, AtStep, Parked, SaveSteps
    <3>4. SaveInPlace'
      BY <1>6, <2>2, <3>0, SaveRuns DEF Park, Still, AtStep, SaveInPlace, SaveSteps
    <3>5. Recovering'
      BY <1>6, <2>2, <3>0, SaveRuns DEF Park, Still, AtStep, Recovering, SaveSteps
    <3>6. Calling'
      BY <1>6, <2>2, <3>0, SaveRuns DEF Park, Still, AtStep, Calling, SaveSteps
    <3> QED
      BY <3>1, <3>2, <3>3, <3>4, <3>5, <3>6 DEF AtStep
  <2> QED
    BY <1>6, <2>1, <2>2 DEF Park
<1>7. CASE Retry
  <2>1. CASE Installed /\ Goto("flush")
    BY <1>7, <2>1, Moves, Goes, Ends, SaveRuns DEF Retry,  Still, Idle,
       AtStep, CopyElsewhere, Candidate, Parked, SaveInPlace, Recovering,
       Calling, AllFindable, Findable, Expected, AllRecent, Recent, Found, Dirs,
       Files, SaveSteps
  <2>2. CASE op.parked /\ Goto("restore") /\ Still
    <3>0. op'.at = "restore" /\ op'.doc = op.doc /\ op'.parked = op.parked
             /\ told' = told /\ recent' = recent
      BY <2>2, Goes
    <3>1. CopyElsewhere'
      BY <1>7, <2>2, <3>0, SaveRuns DEF Retry, Still, AtStep, CopyElsewhere,
         Expected, SaveSteps
    <3>2. Candidate'
      BY <1>7, <2>2, <3>0, SaveRuns DEF Retry, Still, AtStep, Candidate, SaveSteps
    <3>3. Parked'
      BY <1>7, <2>2, <3>0, SaveRuns DEF Retry, Still, AtStep, Parked, SaveSteps
    <3>4. SaveInPlace'
      BY <1>7, <2>2, <3>0, SaveRuns DEF Retry, Still, AtStep, SaveInPlace, SaveSteps
    <3>5. Recovering'
      BY <1>7, <2>2, <3>0, SaveRuns DEF Retry, Still, AtStep, Recovering, SaveSteps
    <3>6. Calling'
      BY <1>7, <2>2, <3>0, SaveRuns DEF Retry, Still, AtStep, Calling, SaveSteps
    <3> QED
      BY <3>1, <3>2, <3>3, <3>4, <3>5, <3>6 DEF AtStep
  <2>3. CASE ~op.parked /\ Failed /\ Still
    BY <1>7, <2>3, Moves, Goes, Ends, SaveRuns DEF Retry,  Still, Idle,
       AtStep, CopyElsewhere, Candidate, Parked, SaveInPlace, Recovering,
       Calling, AllFindable, Findable, Expected, AllRecent, Recent, Found, Dirs,
       Files, SaveSteps
  <2> QED
    BY <1>7, <2>1, <2>2, <2>3 DEF Retry
<1>8. CASE Restore
  BY <1>8, Moves, Goes, Ends, SaveRuns DEF Restore, Still, Idle,
     AtStep, CopyElsewhere, Candidate, Parked, SaveInPlace, Recovering, Calling,
     AllFindable, Findable, Expected, AllRecent, Recent, Found, Dirs, Files,
     SaveSteps
<1>9. CASE Flush
  <2>1. CASE Flushed /\ Saved
    BY <1>9, <2>1, Moves, Goes, Ends, SaveRuns DEF Flush,  Flushed, Still, Idle, AtStep, CopyElsewhere, Candidate, Parked, SaveInPlace,
       Recovering, Calling, AllFindable, Findable, Expected, AllRecent, Recent,
       Found, Dirs, Files, SaveSteps
  <2>2. CASE op.parked /\ Flushed /\ Goto("discard")
    <3>0. op'.at = "discard" /\ op'.doc = op.doc /\ op'.parked = op.parked
             /\ told' = told /\ recent' = recent
      BY <2>2, Goes
    <3>1. CopyElsewhere'
      BY <1>9, <2>2, <3>0, SaveRuns DEF Flush, Flushed, AtStep, CopyElsewhere,
         Expected, SaveSteps
    <3>2. Candidate'
      BY <1>9, <2>2, <3>0, SaveRuns DEF Flush, Flushed, AtStep, Candidate, SaveSteps
    <3>3. Parked'
      BY <1>9, <2>2, <3>0, SaveRuns DEF Flush, Flushed, AtStep, Parked, SaveSteps
    <3>4. SaveInPlace'
      BY <1>9, <2>2, <3>0, SaveRuns DEF Flush, Flushed, AtStep, SaveInPlace, SaveSteps
    <3>5. Recovering'
      BY <1>9, <2>2, <3>0, SaveRuns DEF Flush, Flushed, AtStep, Recovering, SaveSteps
    <3>6. Calling'
      BY <1>9, <2>2, <3>0, SaveRuns DEF Flush, Flushed, AtStep, Calling, SaveSteps
    <3> QED
      BY <3>1, <3>2, <3>3, <3>4, <3>5, <3>6 DEF AtStep
  <2>3. CASE Failed /\ Still
    BY <1>9, <2>3, Moves, Goes, Ends, SaveRuns DEF Flush,  Flushed, Still, Idle, AtStep, CopyElsewhere, Candidate, Parked, SaveInPlace,
       Recovering, Calling, AllFindable, Findable, Expected, AllRecent, Recent,
       Found, Dirs, Files, SaveSteps
  <2> QED
    BY <1>9, <2>1, <2>2, <2>3 DEF Flush
<1>10. CASE Discard
  <2>1. CASE Changed([dir EXCEPT !.previous = None]) /\ Goto("flushDiscarded")
    BY <1>10, <2>1, Moves, Goes, Ends, SaveRuns DEF Discard,  Changed, Still, Idle, AtStep, CopyElsewhere, Candidate, Parked, SaveInPlace,
       Recovering, Calling, AllFindable, Findable, Expected, AllRecent, Recent,
       Found, Dirs, Files, SaveSteps
  <2>2. CASE Saved /\ Still
    BY <1>10, <2>2, Moves, Goes, Ends, SaveRuns DEF Discard,  Changed, Still, Idle, AtStep, CopyElsewhere, Candidate, Parked, SaveInPlace,
       Recovering, Calling, AllFindable, Findable, Expected, AllRecent, Recent,
       Found, Dirs, Files, SaveSteps
  <2> QED
    BY <1>10, <2>1, <2>2 DEF Discard
<1>11. CASE FlushDiscarded
  BY <1>11, Moves, Goes, Ends, SaveRuns DEF FlushDiscarded, Flushed, Still, Idle, AtStep, CopyElsewhere, Candidate, Parked, SaveInPlace,
     Recovering, Calling, AllFindable, Findable, Expected, AllRecent, Recent,
     Found, Dirs, Files, SaveSteps
<1>12. CASE BeginLoad
  BY <1>12, Moves, Goes, Ends, SaveRuns DEF BeginLoad, Still, Closed,
     AtStep, CopyElsewhere, Candidate, Parked, SaveInPlace, Recovering, Calling,
     AllFindable, Findable, Expected, AllRecent, Recent, Found, Dirs, Files,
     SaveSteps
<1>13. CASE Load
  BY <1>13, Moves, Goes, Ends, SaveRuns DEF Load, Loaded, Still, Idle, AtStep,
     CopyElsewhere, Candidate, Parked, SaveInPlace, Recovering, Calling,
     AllFindable, Findable, Expected, AllRecent, Recent, Found, Dirs, Files,
     SaveSteps
<1>14. CASE RecoverParked
  BY <1>14, Moves, Goes, Ends, SaveRuns DEF RecoverParked, Still, AtStep, CopyElsewhere, Candidate, Parked, SaveInPlace, Recovering,
     Calling, AllFindable, Findable, Expected, AllRecent, Recent, Found, Dirs,
     Files, SaveSteps
<1>15. CASE RecoverCandidate
  BY <1>15, Moves, Goes, Ends, SaveRuns DEF RecoverCandidate,
     Still, AtStep, CopyElsewhere, Candidate, Parked, SaveInPlace,
     Recovering, Calling, AllFindable, Findable, Expected, AllRecent, Recent,
     Found, Dirs, Files, SaveSteps
<1>16. CASE NothingSaved
  BY <1>16, Moves, Goes, Ends, SaveRuns DEF NothingSaved, Still, Idle,
     AtStep, CopyElsewhere, Candidate, Parked, SaveInPlace, Recovering, Calling,
     AllFindable, Findable, Expected, AllRecent, Recent, Found, Dirs, Files,
     SaveSteps
<1>17. CASE FlushRecovered
  BY <1>17, Moves, Goes, Ends, SaveRuns DEF FlushRecovered, Flushed, Loaded,
     Still, Idle, AtStep, CopyElsewhere, Candidate, Parked, SaveInPlace,
     Recovering, Calling, AllFindable, Findable, Expected, AllRecent, Recent,
     Found, Dirs, Files, SaveSteps
<1>18. CASE Quarantine
  BY <1>18, Moves, Goes, Ends, SaveRuns DEF Quarantine, Quarantined, Changed, Still, Idle,
     AtStep, CopyElsewhere, Candidate, Parked, SaveInPlace, Recovering, Calling,
     AllFindable, Findable, Expected, AllRecent, Recent, Found, Dirs, Files,
     SaveSteps
<1>19. CASE Kill
  BY <1>19, Moves, Goes, Ends, SaveRuns DEF Kill, Still, Closed,
     AtStep, CopyElsewhere, Candidate, Parked, SaveInPlace, Recovering, Calling,
     AllFindable, Findable, Expected, AllRecent, Recent, Found, Dirs, Files,
     SaveSteps
<1>20. CASE PowerLoss
  BY <1>20, Moves, Goes, Ends, SaveRuns DEF PowerLoss, Closed, AtStep,
     CopyElsewhere, Candidate, Parked, SaveInPlace, Recovering, Calling,
     AllFindable, Findable, Expected, AllRecent, Recent, Found, Dirs, Files,
     SaveSteps
<1> QED
  BY <1>1, <1>2, <1>3, <1>4, <1>5, <1>6, <1>7, <1>8, <1>9, <1>10, <1>11, <1>12,
     <1>13, <1>14, <1>15, <1>16, <1>17, <1>18, <1>19, <1>20
     DEF Next, SaveNext, LoadNext

\* Next keeps the inductive invariant, and so does a stutter.
LEMMA StepIInv == IInv /\ [Next]_vars => IInv'
<1> SUFFICES ASSUME IInv, [Next]_vars PROVE IInv'
  OBVIOUS
<1>1. CASE Next
  <2>1. TypeOK'
    BY <1>1, StepDiskOK, StepCallOK DEF TypeOK, DiskOK, CallOK
  <2> QED
    BY <1>1, <2>1, StepMember, StepRecent, StepFindable, StepAtStep, StepSurvives
       DEF IInv
<1>2. CASE UNCHANGED vars
  BY <1>2
     DEF vars, IInv, TypeOK, AllRecent, Recent, AllFindable, Findable, Expected,
         AtStep, CopyElsewhere, Candidate, Parked, SaveInPlace, Recovering, Calling,
         SavedSurvives
<1> QED
  BY <1>1, <1>2

\* The inductive invariant says what a load finds.
LEMMA IInvFinds == IInv => LatestIsFound
<1> SUFFICES ASSUME IInv, NEW d \in mayFind
             PROVE  Found(d) \in recent
  BY DEF LatestIsFound
<1>1. Recent(d) /\ d \in Dirs
  BY DEF IInv, TypeOK, AllRecent
<1>2. None \in recent \/ Findable(d)
  BY DEF IInv, AllFindable, Expected
<1> QED
  BY <1>1, <1>2, ManifestAssumption DEF Recent, Findable, Found, Dirs, Files

\* In every behaviour of a manifest's saves and loads.
LEMMA Invariance == Spec => []IInv
BY InitIInv, StepIInv, PTL DEF Spec

\* The manifest's files, its calls and their answers keep their types: no load
\* returns part of a document (manifest.rs, save and load).
THEOREM TypeCorrect == Spec => []TypeOK
<1>1. IInv => TypeOK
  BY DEF IInv
<1> QED
  BY <1>1, Invariance, PTL

\* At every moment each directory that a power loss may leave has for a load the
\* last manifest a save reported or one that a later save had begun; it has an
\* older one, or none, only from when the engine itself quarantined a manifest it
\* could not read, and only the one that lay behind that, or began a save over the
\* only copy (manifest.rs, the parked copy and its recovery; engine.rs:311-338).
THEOREM LoadFindsTheLatest == Spec => []LatestIsFound
BY IInvFinds, Invariance, PTL

\* A save that was reported outlives a power loss (manifest.rs, the flushes).
THEOREM ReportedSaveSurvives == Spec => []SavedSurvives
<1>1. IInv => SavedSurvives
  BY DEF IInv
<1> QED
  BY <1>1, Invariance, PTL

=============================================================================
