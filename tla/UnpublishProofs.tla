----------------------------- MODULE UnpublishProofs -----------------------------
(***************************************************************************)
(* Theorems about unpublish, its rollback and its recovery, for every set  *)
(* of packages, adapters, faults and outsiders.                            *)
(***************************************************************************)
EXTENDS UnpublishProperties, TLAPS

(***************************************************************************)
(* The inductive invariant: types, and what each step relies on.           *)
(***************************************************************************)

(* Where the parked version may be removed, and what leads there. *)
DropSteps ==
    {"u_w_registry", "u_drop", "u_dropping", "u_clear", "r_drop", "r_dropping"}

(* Where the local package may move, and what leads there. *)
OwnedSteps ==
    {"u_copy", "u_copying", "u_rewrite", "u_rewriting", "u_hash",
     "u_w_staged", "u_park", "u_w_parked", "u_commit", "undo_local",
     "r_unstage", "r_unstaged"}

(* The parked version is removed only after the registry forgot the skill. *)
DropsForgotten == pc \in DropSteps => registry = None

(* The local package moves only while the registry owns the skill. *)
StillOwned == pc \in OwnedSteps => registry # None

(* What is rewritten is a whole package. *)
StageWhole == pc = "u_rewrite" => stage \in Package

(* The handler has a digest to compare the registry with. *)
KnowsCanonical == pc \in UnpublishSteps \cup {"undo"} => memo.canonical # None

(* Recovery of a forgotten skill found no stage to commit. *)
NothingStaged == (pc = "r_pick" /\ registry = None) => stage = None

Standing ==
    /\ DropsForgotten
    /\ StillOwned
    /\ StageWhole
    /\ KnowsCanonical
    /\ NothingStaged

Sound == UnpublishTypeOK /\ Standing

(* What OwnedSurvives and ForgottenForGood say of one step. *)
KeepsOwned ==
    (registry' # None /\ registry \in {target, backup})
        => registry \in {target', backup'}

StaysForgotten == registry = None => registry' = None

KeepsLocal == registry = None => source' = source

-----------------------------------------------------------------------------
(* Type correctness. *)

StepNames == {"idle"} \cup UnpublishSteps \cup UndoSteps \cup ResumeSteps

(* The part of the state that control changes. *)
ControlTyped ==
    /\ memo \in Withdrawals
    /\ draft \in Place
    /\ rest \subseteq Adapters
    /\ pc \in StepNames

LEMMA NoWithdrawalTyped == NoWithdrawal \in Withdrawals
  BY DEF NoWithdrawal, Withdrawals, UnpublishPhases, Place

LEMMA ToTyped ==
  ASSUME UnpublishTypeOK, NEW step \in StepNames, To(step)
  PROVE  ControlTyped'
  BY DEF UnpublishTypeOK, ControlTyped, To, task

LEMMA VisitTyped ==
  ASSUME UnpublishTypeOK, NEW step \in StepNames, Visit(step)
  PROVE  ControlTyped'
  BY DEF UnpublishTypeOK, ControlTyped, Visit

LEMMA DoneTyped ==
  ASSUME Done
  PROVE  ControlTyped'
  BY NoWithdrawalTyped DEF Done, ControlTyped, StepNames, Place

LEMMA RaiseTyped ==
  ASSUME UnpublishTypeOK, Raise
  PROVE  ControlTyped'
  BY ToTyped DEF Raise, StepNames, UndoSteps

LEMMA RecordTyped ==
  ASSUME UnpublishTypeOK, NEW at, NEW phase \in UnpublishPhases,
         NEW next \in StepNames, Record(at, phase, next)
  PROVE  UnpublishTypeOK'
  BY DEF UnpublishTypeOK, StoreTypeOK, StepNames, Withdrawals, Record, disk, still

LEMMA UnlinkTyped ==
  ASSUME UnpublishTypeOK, NEW at, NEW next \in StepNames,
         Unlink(at, next, Raise) \/ Unlink(at, next, Done)
  PROVE  UnpublishTypeOK'
  BY ToTyped, RaiseTyped, DoneTyped
  DEF UnpublishTypeOK, StoreTypeOK, StepNames, ControlTyped, LinkKinds, Unlink, still

LEMMA ForgetTyped ==
  ASSUME UnpublishTypeOK, NEW at, NEW next \in StepNames, Forget(at, next)
  PROVE  UnpublishTypeOK'
  BY ToTyped
  DEF UnpublishTypeOK, StoreTypeOK, StepNames, ControlTyped, Place, Forget, disk, still

LEMMA RemoveWithdrawalTyped ==
  ASSUME UnpublishTypeOK, NEW at, RemoveWithdrawal(at)
  PROVE  UnpublishTypeOK'
  BY DoneTyped, NoWithdrawalTyped
  DEF UnpublishTypeOK, StoreTypeOK, StepNames, ControlTyped, RemoveWithdrawal, disk, still

LEMMA DiscardOwnStageTyped ==
  ASSUME UnpublishTypeOK, NEW at, NEW cut \in StepNames,
         NEW next \in StepNames, DiscardOwnStage(at, cut, next)
  PROVE  UnpublishTypeOK'
<1>1. stage' \in {stage, Torn, None}
  BY DEF DiscardOwnStage, Remove
<1>2. ControlTyped'
  BY ToTyped, DoneTyped DEF DiscardOwnStage, Remove
<1> QED
  BY <1>1, <1>2
  DEF UnpublishTypeOK, StoreTypeOK, StepNames, ControlTyped, Place,
      DiscardOwnStage, still

LEMMA WithdrawTyped ==
  ASSUME UnpublishTypeOK, StageWhole, Withdraw
  PROVE  UnpublishTypeOK'
<1> USE StoreAssumption, PrivateAssumption, ToTyped, RaiseTyped
    DEF UnpublishTypeOK, StoreTypeOK, StepNames, ControlTyped, UnpublishSteps,
        Place, still
<1>1. CASE Start
  BY <1>1 DEF Start, Request, Withdrawable, Withdrawals, UnpublishPhases, disk
<1>2. CASE StartStage
  BY <1>2 DEF StartStage
<1>3. CASE FinishStage
  BY <1>3 DEF FinishStage
<1>4. CASE Rewrite
  BY <1>4 DEF Rewrite, StageWhole
<1>5. CASE Rewritten
  BY <1>5 DEF Rewritten
<1>6. CASE HashStage
  BY <1>6 DEF HashStage, Withdrawals, disk
<1>7. CASE RecordStaged
  BY <1>7, RecordTyped DEF RecordStaged, UnpublishPhases
<1>8. CASE ParkTarget
  BY <1>8 DEF ParkTarget, Rename, Moves
<1>9. CASE RecordParked
  BY <1>9, RecordTyped DEF RecordParked, UnpublishPhases
<1>10. CASE CommitLocal
  BY <1>10 DEF CommitLocal, Rename, Moves
<1>11. CASE RecordLocal
  BY <1>11 DEF RecordLocal, Withdrawals, UnpublishPhases, disk
<1>12. CASE UnlinkAdapters
  BY <1>12, UnlinkTyped DEF UnlinkAdapters
<1>13. CASE RecordAdapters
  BY <1>13, RecordTyped DEF RecordAdapters, UnpublishPhases
<1>14. CASE ForgetSkill
  BY <1>14, ForgetTyped DEF ForgetSkill
<1>15. CASE RecordRegistry
  BY <1>15, RecordTyped DEF RecordRegistry, UnpublishPhases
<1>16. CASE DropCanonical
  BY <1>16 DEF DropCanonical, Remove
<1>17. CASE Complete
  BY <1>17, RemoveWithdrawalTyped DEF Complete
<1> QED
  BY <1>1, <1>2, <1>3, <1>4, <1>5, <1>6, <1>7, <1>8, <1>9, <1>10, <1>11,
     <1>12, <1>13, <1>14, <1>15, <1>16, <1>17 DEF Withdraw

LEMMA UndoTyped ==
  ASSUME UnpublishTypeOK, UndoAll
  PROVE  UnpublishTypeOK'
<1> USE StoreAssumption, ToTyped, VisitTyped, DoneTyped
    DEF UnpublishTypeOK, StoreTypeOK, StepNames, ControlTyped, UndoSteps,
        Place, still
<1>1. CASE Undo
  BY <1>1 DEF Undo, disk
<1>2. CASE UndoLocal
  BY <1>2 DEF UndoLocal, Rename, Moves
<1>3. CASE UndoPark
  BY <1>3 DEF UndoPark, Rename, Moves
<1>4. CASE UndoLinks
  BY <1>4 DEF UndoLinks, LinkKinds
<1>5. CASE UndoStage
  BY <1>5, DiscardOwnStageTyped DEF UndoStage
<1>6. CASE UndoComplete
  BY <1>6, RemoveWithdrawalTyped DEF UndoComplete
<1> QED
  BY <1>1, <1>2, <1>3, <1>4, <1>5, <1>6 DEF UndoAll

LEMMA ResumeTyped ==
  ASSUME UnpublishTypeOK, ResumeAll
  PROVE  UnpublishTypeOK'
<1> USE StoreAssumption, ToTyped, VisitTyped, DoneTyped
    DEF UnpublishTypeOK, StoreTypeOK, StepNames, ControlTyped, ResumeSteps,
        Place, still
<1>1. CASE Resume
  BY <1>1 DEF Resume, disk
<1>2. CASE ResumeCheck
  BY <1>2 DEF ResumeCheck, disk
<1>3. CASE ResumeUnstage
  BY <1>3 DEF ResumeUnstage, Remove
<1>4. CASE ResumeLocal
  BY <1>4 DEF ResumeLocal, disk
<1>5. CASE ResumeCommit
  BY <1>5 DEF ResumeCommit, Rename, Moves
<1>6. CASE ResumeUnpark
  BY <1>6 DEF ResumeUnpark, Rename, Moves
<1>7. CASE ResumeAbort
  BY <1>7 DEF ResumeAbort, disk
<1>8. CASE ResumeLost
  BY <1>8 DEF ResumeLost, disk
<1>9. CASE ResumeUnlink
  BY <1>9, UnlinkTyped DEF ResumeUnlink
<1>10. CASE ResumeForget
  BY <1>10, ForgetTyped DEF ResumeForget
<1>11. CASE ResumeDrop
  BY <1>11 DEF ResumeDrop, Remove
<1>12. CASE ResumeStage
  BY <1>12, DiscardOwnStageTyped DEF ResumeStage
<1>13. CASE ResumeComplete
  BY <1>13, RemoveWithdrawalTyped DEF ResumeComplete
<1> QED
  BY <1>1, <1>2, <1>3, <1>4, <1>5, <1>6, <1>7, <1>8, <1>9, <1>10, <1>11,
     <1>12, <1>13 DEF ResumeAll

LEMMA FaultTyped ==
  ASSUME UnpublishTypeOK, UnpublishFault
  PROVE  UnpublishTypeOK'
<1> USE StoreAssumption, RaiseTyped, DoneTyped
    DEF UnpublishTypeOK, StoreTypeOK, StepNames, ControlTyped, Place, still
<1>1. CASE CallFails
  BY <1>1 DEF CallFails
<1>2. CASE RequestUnsynced
  BY <1>2 DEF RequestUnsynced, Request, Withdrawable, Withdrawals,
     UnpublishPhases, disk
<1>3. CASE Dies
  BY <1>3 DEF Dies, disk
<1> QED
  BY <1>1, <1>2, <1>3 DEF UnpublishFault

LEMMA OutsideTyped ==
  ASSUME UnpublishTypeOK, UnpublishOutside
  PROVE  UnpublishTypeOK'
<1> USE StoreAssumption
    DEF UnpublishTypeOK, StoreTypeOK, StepNames, Place, LinkKinds,
        UnpublishOutside, task, records, disk
<1>1. CASE UserWrite
  BY <1>1 DEF UserWrite
<1>2. CASE UserCreate
  BY <1>2 DEF UserCreate
<1>3. CASE UserDiscard
  BY <1>3 DEF UserDiscard
<1>4. CASE TamperStage
  BY <1>4 DEF TamperStage
<1>5. CASE OutsideTarget
  BY <1>5 DEF OutsideTarget
<1>6. CASE EditTarget
  BY <1>6 DEF EditTarget
<1>7. CASE DeleteTarget
  BY <1>7 DEF DeleteTarget
<1>8. CASE OutsideLink
  BY <1>8 DEF OutsideLink
<1>9. CASE Reauthorize
  BY <1>9 DEF Reauthorize
<1> QED
  BY <1>1, <1>2, <1>3, <1>4, <1>5, <1>6, <1>7, <1>8, <1>9 DEF Outside

LEMMA InitSound == UnpublishInit => Sound
<1> SUFFICES ASSUME UnpublishInit PROVE Sound
  OBVIOUS
<1>1. authorized \in BOOLEAN
  BY Zenon DEF UnpublishInit
<1>2. /\ target \in Shared /\ registry = target /\ maker = "publisher"
      /\ links = [a \in Adapters |-> "ours"]
      /\ source = None /\ backup = None /\ stage = None
      /\ journal = NoJournal /\ withdrawal = NoWithdrawal
      /\ owed = {target}
      /\ pc = "idle" /\ memo = NoWithdrawal /\ draft = None /\ rest = {}
  BY Zenon DEF UnpublishInit
<1>3. NoJournal \in Journals
  BY DEF NoJournal, Journals, Phases, Place
<1>4. UnpublishTypeOK
  BY <1>1, <1>2, <1>3, NoWithdrawalTyped, StoreAssumption
  DEF UnpublishTypeOK, StoreTypeOK, Place, LinkKinds
<1>5. Standing
  BY <1>2 DEF Standing, DropsForgotten, StillOwned, StageWhole,
     KnowsCanonical, NothingStaged, DropSteps, OwnedSteps, UnpublishSteps
<1> QED
  BY <1>4, <1>5 DEF Sound

-----------------------------------------------------------------------------
(* What each step relies on, and what it may do to owned and to local       *)
(* versions.  Parking exchanges canonical path and backup; the registry     *)
(* changes in two steps only.                                               *)

LEMMA WithdrawStands ==
  ASSUME UnpublishTypeOK, Standing, Withdraw
  PROVE  Standing' /\ KeepsOwned /\ StaysForgotten /\ KeepsLocal
<1> USE StoreAssumption
    DEF Standing, DropsForgotten, StillOwned, StageWhole, KnowsCanonical,
        NothingStaged, DropSteps, OwnedSteps, UnpublishSteps, UnpublishTypeOK,
        Withdrawals, KeepsOwned, StaysForgotten, KeepsLocal, To, still, task, Raise
<1>1. CASE Start
  BY <1>1 DEF Start, Request, Withdrawable, disk
<1>2. CASE StartStage
  BY <1>2 DEF StartStage
<1>3. CASE FinishStage
  BY <1>3 DEF FinishStage
<1>4. CASE Rewrite
  BY <1>4 DEF Rewrite
<1>5. CASE Rewritten
  BY <1>5 DEF Rewritten
<1>6. CASE HashStage
  BY <1>6 DEF HashStage, disk
<1>7. CASE RecordStaged
  BY <1>7 DEF RecordStaged, Record, disk
<1>8. CASE ParkTarget
  BY <1>8 DEF ParkTarget, Rename, Moves
<1>9. CASE RecordParked
  BY <1>9 DEF RecordParked, Record, disk
<1>10. CASE CommitLocal
  BY <1>10 DEF CommitLocal
<1>11. CASE RecordLocal
  BY <1>11 DEF RecordLocal, disk
<1>12. CASE UnlinkAdapters
  BY <1>12 DEF UnlinkAdapters, Unlink
<1>13. CASE RecordAdapters
  BY <1>13 DEF RecordAdapters, Record, disk
<1>14. CASE ForgetSkill
  BY <1>14 DEF ForgetSkill, Forget, disk
<1>15. CASE RecordRegistry
  BY <1>15 DEF RecordRegistry, Record, disk
<1>16. CASE DropCanonical
  BY <1>16 DEF DropCanonical, Remove
<1>17. CASE Complete
  BY <1>17 DEF Complete, RemoveWithdrawal, Done, disk
<1> QED
  BY <1>1, <1>2, <1>3, <1>4, <1>5, <1>6, <1>7, <1>8, <1>9, <1>10,
     <1>11, <1>12, <1>13, <1>14, <1>15, <1>16, <1>17 DEF Withdraw

LEMMA UndoStands ==
  ASSUME UnpublishTypeOK, Standing, UndoAll
  PROVE  Standing' /\ KeepsOwned /\ StaysForgotten /\ KeepsLocal
<1> USE StoreAssumption
    DEF Standing, DropsForgotten, StillOwned, StageWhole, KnowsCanonical,
        NothingStaged, DropSteps, OwnedSteps, UnpublishSteps, UnpublishTypeOK,
        Withdrawals, KeepsOwned, StaysForgotten, KeepsLocal, To, still, task, Done
<1>1. CASE Undo
  BY <1>1 DEF Undo, disk
<1>2. CASE UndoLocal
  BY <1>2 DEF UndoLocal
<1>3. CASE UndoPark
  BY <1>3 DEF UndoPark, Rename, Moves, Visit
<1>4. CASE UndoLinks
  BY <1>4 DEF UndoLinks
<1>5. CASE UndoStage
  BY <1>5 DEF UndoStage, DiscardOwnStage, Remove
<1>6. CASE UndoComplete
  BY <1>6 DEF UndoComplete, RemoveWithdrawal, disk
<1> QED
  BY <1>1, <1>2, <1>3, <1>4, <1>5, <1>6 DEF UndoAll

LEMMA ResumeStands ==
  ASSUME UnpublishTypeOK, Standing, ResumeAll
  PROVE  Standing' /\ KeepsOwned /\ StaysForgotten /\ KeepsLocal
<1> USE StoreAssumption
    DEF Standing, DropsForgotten, StillOwned, StageWhole, KnowsCanonical,
        NothingStaged, DropSteps, OwnedSteps, UnpublishSteps, UnpublishTypeOK,
        Withdrawals, KeepsOwned, StaysForgotten, KeepsLocal, To, still, task, Done
<1>1. CASE Resume
  BY <1>1 DEF Resume, disk
<1>2. CASE ResumeCheck
  BY <1>2 DEF ResumeCheck, Conflict, disk
<1>3. CASE ResumeUnstage
  BY <1>3 DEF ResumeUnstage, Remove
<1>4. CASE ResumeLocal
  BY <1>4 DEF ResumeLocal, Visit, disk
<1>5. CASE ResumeCommit
  BY <1>5 DEF ResumeCommit, Rename, Moves
<1>6. CASE ResumeUnpark
  BY <1>6 DEF ResumeUnpark, Rename, Moves
<1>7. CASE ResumeAbort
  BY <1>7 DEF ResumeAbort, disk
<1>8. CASE ResumeLost
  BY <1>8 DEF ResumeLost, disk
<1>9. CASE ResumeUnlink
  BY <1>9 DEF ResumeUnlink, Unlink
<1>10. CASE ResumeForget
  BY <1>10 DEF ResumeForget, Forget, disk
<1>11. CASE ResumeDrop
  BY <1>11 DEF ResumeDrop, Remove
<1>12. CASE ResumeStage
  BY <1>12 DEF ResumeStage, DiscardOwnStage, Remove
<1>13. CASE ResumeComplete
  BY <1>13 DEF ResumeComplete, RemoveWithdrawal, disk
<1> QED
  BY <1>1, <1>2, <1>3, <1>4, <1>5, <1>6, <1>7, <1>8, <1>9, <1>10,
     <1>11, <1>12, <1>13 DEF ResumeAll

LEMMA FaultStands ==
  ASSUME UnpublishTypeOK, Standing, UnpublishFault
  PROVE  Standing' /\ KeepsOwned /\ StaysForgotten
<1> USE StoreAssumption
    DEF Standing, DropsForgotten, StillOwned, StageWhole, KnowsCanonical,
        NothingStaged, DropSteps, OwnedSteps, UnpublishSteps, UnpublishTypeOK,
        Withdrawals, KeepsOwned, StaysForgotten, KeepsLocal, To, still, task, Raise, Done
<1>1. CASE CallFails
  BY <1>1 DEF CallFails
<1>2. CASE RequestUnsynced
  BY <1>2 DEF RequestUnsynced, Request, disk
<1>3. CASE Dies
  BY <1>3 DEF Dies, disk
<1> QED
  BY <1>1, <1>2, <1>3 DEF UnpublishFault

(* Outsiders touch neither the registry nor the running operation, and     *)
(* turn a whole stage into a whole stage.                                  *)
LEMMA OutsideStands ==
  ASSUME Standing, UnpublishOutside
  PROVE  Standing' /\ StaysForgotten
<1>1. UNCHANGED <<registry, pc, memo>>
  BY DEF UnpublishOutside, Outside, UserWrite, UserCreate, UserDiscard,
     TamperStage, OutsideTarget, EditTarget, DeleteTarget, OutsideLink,
     Reauthorize, records, disk, task
<1>2. stage' = stage \/ (stage \in Package /\ stage' \in Package)
  BY DEF UnpublishOutside, Outside, UserWrite, UserCreate, UserDiscard,
     TamperStage, OutsideTarget, EditTarget, DeleteTarget, OutsideLink,
     Reauthorize, disk
<1> QED
  BY <1>1, <1>2, StoreAssumption
  DEF Standing, DropsForgotten, StillOwned, StageWhole, KnowsCanonical,
      NothingStaged, StaysForgotten

LEMMA StepSound ==
  ASSUME Sound, UnpublishNext
  PROVE  /\ Sound' /\ StaysForgotten
         /\ ~UnpublishOutside => KeepsOwned
<1>1. UnpublishTypeOK /\ Standing /\ StageWhole
  BY DEF Sound, Standing
<1> QED
  BY <1>1, WithdrawTyped, UndoTyped, ResumeTyped, FaultTyped, OutsideTyped,
     WithdrawStands, UndoStands, ResumeStands, FaultStands, OutsideStands
  DEF UnpublishNext, Unpublisher, Sound

LEMMA StutterSound ==
  ASSUME Sound, UNCHANGED unpublishVars
  PROVE  Sound'
<1>1. UNCHANGED <<source, backup, stage, target, maker, links, journal,
                  registry, authorized, owed, withdrawal, pc, memo, draft, rest>>
  BY DEF unpublishVars, disk, records, task
<1> QED
  BY <1>1
  DEF Sound, UnpublishTypeOK, StoreTypeOK, Standing, DropsForgotten,
      StillOwned, StageWhole, KnowsCanonical, NothingStaged

LEMMA SoundInvariant == UnpublishSpec => []Sound
<1>1. Sound /\ [UnpublishNext]_unpublishVars => Sound'
  BY StepSound, StutterSound
<1> QED
  BY <1>1, InitSound, PTL DEF UnpublishSpec

-----------------------------------------------------------------------------
(* Every variable of unpublish keeps a value of its kind; in particular no  *)
(* partial tree is ever rewritten, and the journal only takes phases that   *)
(* its validator knows.                                                     *)
THEOREM UnpublishTypeCorrect == UnpublishSpec => []UnpublishTypeOK
<1>1. Sound => UnpublishTypeOK
  BY DEF Sound
<1> QED
  BY <1>1, SoundInvariant, PTL

(* Whatever fails and whoever interferes, unpublish, its rollback and its   *)
(* recovery never destroy the version the registry owns.                   *)
THEOREM OwnedVersionSurvives == UnpublishSpec => OwnedSurvives
<1>1. Sound /\ [UnpublishNext]_unpublishVars
        => [(registry' # None /\ registry \in {target, backup}
                /\ ~UnpublishOutside)
              => registry \in {target', backup'}]_unpublishVars
  BY StepSound DEF KeepsOwned
<1> QED
  BY <1>1, SoundInvariant, PTL DEF UnpublishSpec, OwnedSurvives

(* Once the registry forgot the skill no step takes ownership back, and no  *)
(* step of the handler or of recovery moves the local package, whatever     *)
(* failed before and whatever outsiders do in between.                      *)
THEOREM ForgottenIsFinal == UnpublishSpec => ForgottenForGood
<1>1. Sound /\ [UnpublishNext]_unpublishVars
        => [registry = None =>
              /\ registry' = None
              /\ Unpublisher => source' = source]_unpublishVars
  <2>1. ASSUME Sound, UnpublishNext
        PROVE  registry = None => registry' = None
    BY <2>1, StepSound DEF StaysForgotten
  <2>2. ASSUME Sound, Unpublisher
        PROVE  registry = None => source' = source
    BY <2>2, WithdrawStands, UndoStands, ResumeStands
    DEF Sound, Unpublisher, KeepsLocal
  <2> QED
    BY <2>1, <2>2
<1> QED
  BY <1>1, SoundInvariant, PTL DEF UnpublishSpec, ForgottenForGood

===============================================================================
