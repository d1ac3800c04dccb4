--------------------------- MODULE WithdrawalProofs ---------------------------
(***************************************************************************)
(* More theorems about unpublish and its recovery: what is never written   *)
(* over, what a transaction leaves behind, and what is in place when the   *)
(* registry forgets the skill.                                             *)
(***************************************************************************)
EXTENDS UnpublishProofs

(* The steps of unpublish by what they do. *)
Requesting == Start \/ RequestUnsynced

Preparing == StartStage \/ FinishStage \/ Rewrite \/ Rewritten \/ HashStage

Recording ==
    \/ RecordStaged \/ RecordParked \/ RecordLocal \/ RecordAdapters
    \/ RecordRegistry

Exchanging ==
    \/ ParkTarget \/ CommitLocal \/ UndoLocal \/ UndoPark \/ ResumeCommit
    \/ ResumeUnpark

Relinking == UnlinkAdapters \/ UndoLinks \/ ResumeUnlink

Forgetting == ForgetSkill \/ ResumeForget

Removing ==
    \/ DropCanonical \/ UndoStage \/ ResumeUnstage \/ ResumeDrop
    \/ ResumeStage

Ending == Complete \/ UndoComplete \/ ResumeComplete

Deciding ==
    \/ Undo \/ Resume \/ ResumeCheck \/ ResumeLocal \/ ResumeAbort
    \/ ResumeLost

Breaking == CallFails \/ Dies

(* Every step is of one of these kinds. *)
LEMMA WithdrawalKinds ==
  ASSUME UnpublishNext
  PROVE  \/ Requesting \/ Preparing \/ Recording \/ Exchanging \/ Relinking
         \/ Forgetting \/ Removing \/ Ending \/ Deciding \/ Breaking
         \/ UnpublishOutside
  BY DEF UnpublishNext, Unpublisher, Withdraw, UndoAll, ResumeAll,
     UnpublishFault, Requesting, Preparing, Recording, Exchanging, Relinking,
     Forgetting, Removing, Ending, Deciding, Breaking

LEMMA UnpublisherKinds ==
  ASSUME Unpublisher
  PROVE  \/ Requesting \/ Preparing \/ Recording \/ Exchanging \/ Relinking
         \/ Forgetting \/ Removing \/ Ending \/ Deciding
  BY DEF Unpublisher, Withdraw, UndoAll, ResumeAll, Requesting, Preparing,
     Recording, Exchanging, Relinking, Forgetting, Removing, Ending, Deciding

-----------------------------------------------------------------------------
(* Nothing is replaced.                                                    *)

(* What WithdrawalReplacesNothing says of one step. *)
LEMMA WithdrawalReplacing ==
  ASSUME Sound, Unpublisher
  PROVE  /\ source' # source =>
               source = None \/ (source' = None /\ stage' = source)
         /\ target' # target =>
               target = None \/ (target' = None /\ backup' = target)
         /\ \A a \in Adapters : links[a] = "other" => links'[a] = "other"
<1>0. Sound /\ Sound'
  BY StepSound DEF Sound, UnpublishNext
<1> USE StoreAssumption, PrivateAssumption, <1>0
    DEF Standing, To, Visit, Done, Raise, Rename, Moves, disk, records, still,
        task, Sound, UnpublishTypeOK, StoreTypeOK, Withdrawals, Place
<1>1. CASE Requesting
  BY <1>1 DEF Requesting, Start, Request, Withdrawable, RequestUnsynced
<1>2. CASE Preparing
  BY <1>2 DEF Preparing, StartStage, FinishStage, Rewrite, Rewritten,
     HashStage, Localised
<1>3. CASE Recording
  BY <1>3 DEF Recording, RecordStaged, Record, RecordParked, RecordLocal,
     RecordAdapters, RecordRegistry
<1>4. CASE Exchanging
  BY <1>4 DEF Exchanging, ParkTarget, CommitLocal, UndoLocal, UndoPark,
     ResumeCommit, ResumeUnpark
<1>5. CASE Relinking
  BY <1>5 DEF Relinking, UnlinkAdapters, Unlink, UndoLinks, TextMatches,
     ResumeUnlink
<1>6. CASE Forgetting
  BY <1>6 DEF Forgetting, ForgetSkill, Forget, ResumeForget
<1>7. CASE Removing
  BY <1>7 DEF Removing, DropCanonical, Remove, UndoStage, DiscardOwnStage,
     StageExpected, ResumeUnstage, ResumeDrop, ResumeStage
<1>8. CASE Ending
  BY <1>8 DEF Ending, Complete, RemoveWithdrawal, UndoComplete, ResumeComplete
<1>9. CASE Deciding
  BY <1>9 DEF Deciding, Undo, WithdrawnDurably, Resume, WithdrawalValid,
     ResumeCheck, Conflict, ResumeLocal, ResumeAbort, ResumeLost
<1> QED
  BY UnpublisherKinds, <1>1, <1>2, <1>3, <1>4, <1>5, <1>6, <1>7, <1>8, <1>9

(* No step of unpublish, of its handler or of its recovery writes over a    *)
(* package or takes an adapter object that is not the recorded link,        *)
(* whatever outsiders put in the way.                                       *)
THEOREM WithdrawalReplaces == UnpublishSpec => WithdrawalReplacesNothing
<1>1. Sound /\ [UnpublishNext]_unpublishVars =>
        [Unpublisher =>
          /\ source' # source =>
                source = None \/ (source' = None /\ stage' = source)
          /\ target' # target =>
                target = None \/ (target' = None /\ backup' = target)
          /\ \A a \in Adapters : links[a] = "other" => links'[a] = "other"]_unpublishVars
  BY WithdrawalReplacing
<1> QED
  BY <1>1, SoundInvariant, PTL DEF UnpublishSpec, WithdrawalReplacesNothing

-----------------------------------------------------------------------------
(* Nothing hidden outlives its journal.                                    *)

(* Where the parked version is back or removed, and where nothing is       *)
(* staged.                                                                 *)
BackupGone ==
    {"u_clear", "undo_links", "undo_stage", "undo_staged", "undo_clear",
     "r_stage", "r_staged", "r_clear"}

StageGone ==
    {"u_w_target", "u_unlink", "u_w_adapters", "u_forget", "u_w_registry",
     "u_drop", "u_dropping", "u_clear", "undo_clear", "r_clear"}

Tidy ==
    /\ pc # "idle" => withdrawal # NoWithdrawal
    /\ pc \in BackupGone => backup = None
    /\ pc \in StageGone => stage = None
    /\ pc \in {"r_unstage", "r_unstaged", "r_pick"} /\ target # None =>
          backup = None

Tidying == Sound /\ Tidy /\ NoHiddenLeftovers

(* Every step preserves Tidying. *)
LEMMA TidyStep ==
  ASSUME Tidying, UnpublishNext, "target" \notin Outsiders
  PROVE  Tidying'
<1>0. Sound /\ Sound'
  BY StepSound DEF Tidying
<1> USE StoreAssumption, PrivateAssumption, <1>0
    DEF Tidying, Tidy, BackupGone, StageGone, NoHiddenLeftovers, NoWithdrawal,
        To, Visit, Done, Raise, Rename, Moves, disk, records, still, task,
        Sound, UnpublishTypeOK, StoreTypeOK, Withdrawals, Place
<1>1. CASE Requesting
  BY <1>1 DEF Requesting, Start, Request, Withdrawable, RequestUnsynced
<1>2. CASE Preparing
  BY <1>2 DEF Preparing, StartStage, FinishStage, Rewrite, Rewritten,
     HashStage, Localised
<1>3. CASE Recording
  BY <1>3 DEF Recording, RecordStaged, Record, RecordParked, RecordLocal,
     RecordAdapters, RecordRegistry
<1>4. CASE Exchanging
  BY <1>4 DEF Exchanging, ParkTarget, CommitLocal, UndoLocal, UndoPark,
     ResumeCommit, ResumeUnpark
<1>5. CASE Relinking
  BY <1>5 DEF Relinking, UnlinkAdapters, Unlink, UndoLinks, TextMatches,
     ResumeUnlink
<1>6. CASE Forgetting
  BY <1>6 DEF Forgetting, ForgetSkill, Forget, ResumeForget
<1>7. CASE Removing
  BY <1>7 DEF Removing, DropCanonical, Remove, UndoStage, DiscardOwnStage,
     StageExpected, ResumeUnstage, ResumeDrop, ResumeStage
<1>8. CASE Ending
  BY <1>8 DEF Ending, Complete, RemoveWithdrawal, UndoComplete, ResumeComplete
<1>9. CASE Deciding
  BY <1>9 DEF Deciding, Undo, WithdrawnDurably, Resume, WithdrawalValid,
     ResumeCheck, Conflict, ResumeLocal, ResumeAbort, ResumeLost
<1>10. CASE Breaking
  BY <1>10 DEF Breaking, CallFails, Dies
<1>11. CASE UnpublishOutside
  BY <1>11 DEF UnpublishOutside, Outside, UserWrite, UserCreate, UserDiscard,
     TamperStage, OutsideTarget, EditTarget, DeleteTarget, OutsideLink,
     Reauthorize
<1> QED
  BY WithdrawalKinds, <1>1, <1>2, <1>3, <1>4, <1>5, <1>6, <1>7, <1>8, <1>9,
     <1>10, <1>11

(* Unless others put a package at the canonical path in the middle of a     *)
(* recovery, the stage and the backup are gone when the journal of an       *)
(* unpublish is gone, whatever crashes or fails.                            *)
THEOREM WithdrawalLeavesNothing ==
  ASSUME "target" \notin Outsiders
  PROVE  UnpublishSpec => []NoHiddenLeftovers
<1>1. UnpublishInit => Tidying
  BY InitSound
  DEF UnpublishInit, Tidying, Tidy, BackupGone, StageGone, NoHiddenLeftovers,
      NoWithdrawal
<1>2. Tidying /\ [UnpublishNext]_unpublishVars => Tidying'
  <2>1. Tidying /\ UNCHANGED unpublishVars => Tidying'
    BY StutterSound
    DEF unpublishVars, disk, records, task, Tidying, Tidy, NoHiddenLeftovers
  <2> QED
    BY <2>1, TidyStep
<1>3. Tidying => NoHiddenLeftovers
  BY DEF Tidying
<1> QED
  BY <1>1, <1>2, <1>3, PTL DEF UnpublishSpec

-----------------------------------------------------------------------------
(* The skill is local when it is forgotten.                                *)

(* Where the stage is the rewritten version, and where the local package   *)
(* is.                                                                     *)
LocalStaged == {"u_hash", "u_w_staged", "u_park", "u_w_parked", "u_commit"}

LocalPlaced ==
    {"u_w_target", "u_unlink", "u_w_adapters", "u_forget", "r_unlink",
     "r_forget"}

Reviewed == {"r_unstage", "r_unstaged", "r_pick"}

Ours(a) == links[a] = "ours"

(* As long as the registry owns the skill, journal and memory are about     *)
(* that version, and what is staged or placed is its rewritten form.       *)
Exact ==
    /\ registry \in Package
    /\ target \in {None, registry}
    /\ withdrawal # NoWithdrawal =>
          /\ withdrawal.canonical = registry
          /\ withdrawal.local \in {None, Private[registry]}
    /\ pc # "idle" =>
          /\ memo.canonical = registry
          /\ memo.local \in {None, Private[registry]}
    /\ pc = "u_rewrite" => stage = registry
    /\ pc = "u_rewriting" => draft = Private[registry]
    /\ pc \in LocalStaged => stage = Private[registry]
    /\ pc \in LocalPlaced => source = Private[registry]
    /\ pc \in Reviewed => source \in {None, Private[registry]}
    /\ pc \in Reviewed => backup \in {None, registry}

(* The links go one by one.                                                *)
Unshown ==
    /\ pc \in {"u_unlink", "r_unlink"} =>
          \A a \in Adapters : Ours(a) => a \in rest
    /\ pc \in {"u_w_adapters", "u_forget", "r_forget"} =>
          \A a \in Adapters : ~Ours(a)

Owner == registry # None => Exact /\ Unshown

Withdrawing == Sound /\ Owner

(* Every step preserves Withdrawing. *)
LEMMA WithdrawingStep ==
  ASSUME Withdrawing, UnpublishNext, Outsiders \cap {"write", "create",
         "discard", "target", "edit", "tamper"} = {}
  PROVE  Withdrawing'
<1>0. Sound /\ Sound'
  BY StepSound DEF Withdrawing
<1> USE StoreAssumption, PrivateAssumption, <1>0
    DEF Withdrawing, Owner, Exact, Unshown, LocalStaged, LocalPlaced,
        Reviewed, Ours, Standing, StillOwned, OwnedSteps, NoWithdrawal, To,
        Visit, Done, Raise, Rename, Moves, disk, records, still, task, Sound,
        UnpublishTypeOK, StoreTypeOK, Withdrawals, Place
<1>1. CASE Requesting
  BY <1>1 DEF Requesting, Start, Request, Withdrawable, RequestUnsynced
<1>2. CASE Preparing
  BY <1>2 DEF Preparing, StartStage, FinishStage, Rewrite, Rewritten,
     HashStage, Localised
<1>3. CASE Recording
  BY <1>3 DEF Recording, RecordStaged, Record, RecordParked, RecordLocal,
     RecordAdapters, RecordRegistry
<1>4. CASE Exchanging
  BY <1>4 DEF Exchanging, ParkTarget, CommitLocal, UndoLocal, UndoPark,
     ResumeCommit, ResumeUnpark
<1>5. CASE Relinking
  BY <1>5 DEF Relinking, UnlinkAdapters, Unlink, UndoLinks, TextMatches,
     ResumeUnlink
<1>6. CASE Forgetting
  BY <1>6 DEF Forgetting, ForgetSkill, Forget, ResumeForget
<1>7. CASE Removing
  BY <1>7 DEF Removing, DropCanonical, Remove, UndoStage, DiscardOwnStage,
     StageExpected, ResumeUnstage, ResumeDrop, ResumeStage
<1>8. CASE Ending
  BY <1>8 DEF Ending, Complete, RemoveWithdrawal, UndoComplete, ResumeComplete
<1>9. CASE Deciding
  BY <1>9 DEF Deciding, Undo, WithdrawnDurably, Resume, WithdrawalValid,
     ResumeCheck, Conflict, ResumeLocal, ResumeAbort, ResumeLost
<1>10. CASE Breaking
  BY <1>10 DEF Breaking, CallFails, Dies
<1>11. CASE UnpublishOutside
  BY <1>11 DEF UnpublishOutside, Outside, UserWrite, UserCreate, UserDiscard,
     TamperStage, OutsideTarget, EditTarget, DeleteTarget, OutsideLink,
     Reauthorize
<1> QED
  BY WithdrawalKinds, <1>1, <1>2, <1>3, <1>4, <1>5, <1>6, <1>7, <1>8, <1>9,
     <1>10, <1>11

(* What ForgottenIsLocal says of one step. *)
LEMMA ForgettingStep ==
  ASSUME Withdrawing, UnpublishNext
  PROVE  registry' # registry =>
           /\ registry' = None
           /\ source = Private[registry]
           /\ \A a \in Adapters : links[a] # "ours"
<1>0. Sound /\ Sound'
  BY StepSound DEF Withdrawing
<1> USE StoreAssumption, PrivateAssumption, <1>0
    DEF Withdrawing, Owner, Exact, Unshown, LocalPlaced, Ours, Standing, To,
        Visit, Done, Raise, Rename, Moves, disk, records, still, task, Sound,
        UnpublishTypeOK, StoreTypeOK, Withdrawals, Place
<1>1. CASE Requesting
  BY <1>1 DEF Requesting, Start, Request, Withdrawable, RequestUnsynced
<1>2. CASE Preparing
  BY <1>2 DEF Preparing, StartStage, FinishStage, Rewrite, Rewritten,
     HashStage, Localised
<1>3. CASE Recording
  BY <1>3 DEF Recording, RecordStaged, Record, RecordParked, RecordLocal,
     RecordAdapters, RecordRegistry
<1>4. CASE Exchanging
  BY <1>4 DEF Exchanging, ParkTarget, CommitLocal, UndoLocal, UndoPark,
     ResumeCommit, ResumeUnpark
<1>5. CASE Relinking
  BY <1>5 DEF Relinking, UnlinkAdapters, Unlink, UndoLinks, TextMatches,
     ResumeUnlink
<1>6. CASE Forgetting
  BY <1>6 DEF Forgetting, ForgetSkill, Forget, ResumeForget
<1>7. CASE Removing
  BY <1>7 DEF Removing, DropCanonical, Remove, UndoStage, DiscardOwnStage,
     StageExpected, ResumeUnstage, ResumeDrop, ResumeStage
<1>8. CASE Ending
  BY <1>8 DEF Ending, Complete, RemoveWithdrawal, UndoComplete, ResumeComplete
<1>9. CASE Deciding
  BY <1>9 DEF Deciding, Undo, WithdrawnDurably, Resume, WithdrawalValid,
     ResumeCheck, Conflict, ResumeLocal, ResumeAbort, ResumeLost
<1>10. CASE Breaking
  BY <1>10 DEF Breaking, CallFails, Dies
<1>11. CASE UnpublishOutside
  BY <1>11 DEF UnpublishOutside, Outside, UserWrite, UserCreate, UserDiscard,
     TamperStage, OutsideTarget, EditTarget, DeleteTarget, OutsideLink,
     Reauthorize
<1> QED
  BY WithdrawalKinds, <1>1, <1>2, <1>3, <1>4, <1>5, <1>6, <1>7, <1>8, <1>9,
     <1>10, <1>11

(* Unless others touch the package or its copies, the registry forgets the  *)
(* skill only when its rewritten version is the local package and no        *)
(* adapter shows the canonical path, in unpublish and in every recovery.    *)
THEOREM WithdrawalIsLocal ==
  ASSUME Outsiders \cap {"write", "create", "discard", "target", "edit",
                         "tamper"} = {}
  PROVE  UnpublishSpec => ForgottenIsLocal
<1>1. UnpublishInit => Withdrawing
  BY InitSound, StoreAssumption
  DEF UnpublishInit, Withdrawing, Owner, Exact, Unshown, LocalStaged,
      LocalPlaced, Reviewed, NoWithdrawal
<1>2. Withdrawing /\ [UnpublishNext]_unpublishVars => Withdrawing'
  <2>1. Withdrawing /\ UNCHANGED unpublishVars => Withdrawing'
    BY StutterSound
    DEF unpublishVars, disk, records, task, Withdrawing, Owner, Exact,
        Unshown, Ours
  <2> QED
    BY <2>1, WithdrawingStep
<1>3. Withdrawing /\ [UnpublishNext]_unpublishVars =>
        [registry' # registry =>
          /\ registry' = None
          /\ source = Private[registry]
          /\ \A a \in Adapters : links[a] # "ours"]_unpublishVars
  BY ForgettingStep
<1> QED
  BY <1>1, <1>2, <1>3, PTL DEF UnpublishSpec, ForgottenIsLocal

-----------------------------------------------------------------------------
(* Unpublish implements the registry contract.                             *)

(* Where there is no journal, nothing but a new request changes the        *)
(* records.                                                                *)
LEMMA UnrequestedStep ==
  ASSUME Tidying, UnpublishNext, withdrawal = NoWithdrawal
  PROVE  /\ stage' = stage /\ backup' = backup /\ registry' = registry
         /\ withdrawal' # NoWithdrawal => registry # None
<1>0. Sound /\ Sound'
  BY StepSound DEF Tidying
<1> USE StoreAssumption, PrivateAssumption, <1>0
    DEF Tidying, Tidy, NoHiddenLeftovers, NoWithdrawal, To, Visit, Done,
        Raise, Rename, Moves, disk, records, still, task, Sound,
        UnpublishTypeOK, StoreTypeOK, Withdrawals, Place
<1>1. CASE Requesting
  BY <1>1 DEF Requesting, Start, Request, Withdrawable, RequestUnsynced
<1>2. CASE Preparing
  BY <1>2 DEF Preparing, StartStage, FinishStage, Rewrite, Rewritten,
     HashStage, Localised
<1>3. CASE Recording
  BY <1>3 DEF Recording, RecordStaged, Record, RecordParked, RecordLocal,
     RecordAdapters, RecordRegistry
<1>4. CASE Exchanging
  BY <1>4 DEF Exchanging, ParkTarget, CommitLocal, UndoLocal, UndoPark,
     ResumeCommit, ResumeUnpark
<1>5. CASE Relinking
  BY <1>5 DEF Relinking, UnlinkAdapters, Unlink, UndoLinks, TextMatches,
     ResumeUnlink
<1>6. CASE Forgetting
  BY <1>6 DEF Forgetting, ForgetSkill, Forget, ResumeForget
<1>7. CASE Removing
  BY <1>7 DEF Removing, DropCanonical, Remove, UndoStage, DiscardOwnStage,
     StageExpected, ResumeUnstage, ResumeDrop, ResumeStage
<1>8. CASE Ending
  BY <1>8 DEF Ending, Complete, RemoveWithdrawal, UndoComplete, ResumeComplete
<1>9. CASE Deciding
  BY <1>9 DEF Deciding, Undo, WithdrawnDurably, Resume, WithdrawalValid,
     ResumeCheck, Conflict, ResumeLocal, ResumeAbort, ResumeLost
<1>10. CASE Breaking
  BY <1>10 DEF Breaking, CallFails, Dies
<1>11. CASE UnpublishOutside
  BY <1>11 DEF UnpublishOutside, Outside, UserWrite, UserCreate, UserDiscard,
     TamperStage, OutsideTarget, EditTarget, DeleteTarget, OutsideLink,
     Reauthorize
<1> QED
  BY WithdrawalKinds, <1>1, <1>2, <1>3, <1>4, <1>5, <1>6, <1>7, <1>8, <1>9,
     <1>10, <1>11

(* The journal goes when nothing is hidden, and nothing moves with it.     *)
LEMMA UnrecordingStep ==
  ASSUME Tidying, UnpublishNext, withdrawal # NoWithdrawal
  PROVE  \/ withdrawal' # NoWithdrawal
         \/ /\ stage' = None /\ backup' = None
            /\ UNCHANGED <<backup, target, registry>>
<1>0. Sound /\ Sound'
  BY StepSound DEF Tidying
<1> USE StoreAssumption, PrivateAssumption, <1>0
    DEF Tidying, Tidy, BackupGone, StageGone, NoWithdrawal, To, Visit, Done,
        Raise, Rename, Moves, disk, records, still, task, Sound,
        UnpublishTypeOK, StoreTypeOK, Withdrawals, Place
<1>1. CASE Requesting
  BY <1>1 DEF Requesting, Start, Request, Withdrawable, RequestUnsynced
<1>2. CASE Preparing
  BY <1>2 DEF Preparing, StartStage, FinishStage, Rewrite, Rewritten,
     HashStage, Localised
<1>3. CASE Recording
  BY <1>3 DEF Recording, RecordStaged, Record, RecordParked, RecordLocal,
     RecordAdapters, RecordRegistry
<1>4. CASE Exchanging
  BY <1>4 DEF Exchanging, ParkTarget, CommitLocal, UndoLocal, UndoPark,
     ResumeCommit, ResumeUnpark
<1>5. CASE Relinking
  BY <1>5 DEF Relinking, UnlinkAdapters, Unlink, UndoLinks, TextMatches,
     ResumeUnlink
<1>6. CASE Forgetting
  BY <1>6 DEF Forgetting, ForgetSkill, Forget, ResumeForget
<1>7. CASE Removing
  BY <1>7 DEF Removing, DropCanonical, Remove, UndoStage, DiscardOwnStage,
     StageExpected, ResumeUnstage, ResumeDrop, ResumeStage
<1>8. CASE Ending
  BY <1>8 DEF Ending, Complete, RemoveWithdrawal, UndoComplete, ResumeComplete
<1>9. CASE Deciding
  BY <1>9 DEF Deciding, Undo, WithdrawnDurably, Resume, WithdrawalValid,
     ResumeCheck, Conflict, ResumeLocal, ResumeAbort, ResumeLost
<1>10. CASE Breaking
  BY <1>10 DEF Breaking, CallFails, Dies
<1>11. CASE UnpublishOutside
  BY <1>11 DEF UnpublishOutside, Outside, UserWrite, UserCreate, UserDiscard,
     TamperStage, OutsideTarget, EditTarget, DeleteTarget, OutsideLink,
     Reauthorize
<1> QED
  BY WithdrawalKinds, <1>1, <1>2, <1>3, <1>4, <1>5, <1>6, <1>7, <1>8, <1>9,
     <1>10, <1>11

(* The registry changes in two steps only, and nothing moves with it.      *)
LEMMA UnregisteringStep ==
  ASSUME Tidying, UnpublishNext
  PROVE  registry' = registry
         \/ /\ withdrawal # NoWithdrawal
            /\ UNCHANGED <<source, links>>
<1>0. Sound /\ Sound'
  BY StepSound DEF Tidying
<1> USE StoreAssumption, PrivateAssumption, <1>0
    DEF Tidying, Tidy, NoWithdrawal, To, Visit, Done, Raise, Rename, Moves,
        disk, records, still, task, Sound, UnpublishTypeOK, StoreTypeOK,
        Withdrawals, Place
<1>1. CASE Requesting
  BY <1>1 DEF Requesting, Start, Request, Withdrawable, RequestUnsynced
<1>2. CASE Preparing
  BY <1>2 DEF Preparing, StartStage, FinishStage, Rewrite, Rewritten,
     HashStage, Localised
<1>3. CASE Recording
  BY <1>3 DEF Recording, RecordStaged, Record, RecordParked, RecordLocal,
     RecordAdapters, RecordRegistry
<1>4. CASE Exchanging
  BY <1>4 DEF Exchanging, ParkTarget, CommitLocal, UndoLocal, UndoPark,
     ResumeCommit, ResumeUnpark
<1>5. CASE Relinking
  BY <1>5 DEF Relinking, UnlinkAdapters, Unlink, UndoLinks, TextMatches,
     ResumeUnlink
<1>6. CASE Forgetting
  BY <1>6 DEF Forgetting, ForgetSkill, Forget, ResumeForget
<1>7. CASE Removing
  BY <1>7 DEF Removing, DropCanonical, Remove, UndoStage, DiscardOwnStage,
     StageExpected, ResumeUnstage, ResumeDrop, ResumeStage
<1>8. CASE Ending
  BY <1>8 DEF Ending, Complete, RemoveWithdrawal, UndoComplete, ResumeComplete
<1>9. CASE Deciding
  BY <1>9 DEF Deciding, Undo, WithdrawnDurably, Resume, WithdrawalValid,
     ResumeCheck, Conflict, ResumeLocal, ResumeAbort, ResumeLost
<1>10. CASE Breaking
  BY <1>10 DEF Breaking, CallFails, Dies
<1>11. CASE UnpublishOutside
  BY <1>11 DEF UnpublishOutside, Outside, UserWrite, UserCreate, UserDiscard,
     TamperStage, OutsideTarget, EditTarget, DeleteTarget, OutsideLink,
     Reauthorize
<1> QED
  BY WithdrawalKinds, <1>1, <1>2, <1>3, <1>4, <1>5, <1>6, <1>7, <1>8, <1>9,
     <1>10, <1>11

(* What the registry owns is at the canonical path or parked. *)
Kept == registry # None => registry \in {target, backup}

Releasing == Tidying /\ Withdrawing /\ Kept

(* Every step preserves Kept. *)
LEMMA KeptStep ==
  ASSUME Releasing, UnpublishNext,
         Outsiders \cap {"target", "edit", "delete"} = {}
  PROVE  Kept'
<1>1. CASE ~UnpublishOutside
  <2>1. KeepsOwned
    BY <1>1, StepSound DEF Releasing, Tidying
  <2>2. registry' # None => registry' = registry
    BY ForgettingStep DEF Releasing
  <2> QED
    BY <2>1, <2>2 DEF KeepsOwned, Releasing, Kept
<1>2. CASE UnpublishOutside
  <2>1. UNCHANGED <<target, backup, registry>>
    BY <1>2
    DEF UnpublishOutside, Outside, UserWrite, UserCreate, UserDiscard,
        TamperStage, OutsideTarget, EditTarget, DeleteTarget, OutsideLink,
        Reauthorize, disk, records
  <2> QED
    BY <2>1 DEF Releasing, Kept
<1> QED
  BY <1>1, <1>2

(* A change of the registry takes the skill back. *)
LEMMA WithdrawStep ==
  ASSUME Releasing, UnpublishNext, registry' # registry
  PROVE  Contract!Withdraw
<1>1. /\ registry' = None
      /\ source = Private[registry]
      /\ \A a \in Adapters : links[a] # "ours"
  BY ForgettingStep DEF Releasing
<1>2. withdrawal # NoWithdrawal /\ UNCHANGED <<source, links>>
  BY UnregisteringStep DEF Releasing
<1>3. Shown' = {}
  BY <1>1, <1>2 DEF Shown
<1> QED
  BY <1>1, <1>2, <1>3 DEF Contract!Withdraw, Recorded

(* Every step is a step of the contract or none. *)
LEMMA ReleasingStep ==
  ASSUME Releasing, UnpublishNext
  PROVE  [Contract!ContractNext]_(Contract!contract)
<1> DEFINE Hidden  == stage # None \/ backup # None
           Pending == IF withdrawal = NoWithdrawal THEN "none" ELSE "unpublish"
<1>1. CASE withdrawal = NoWithdrawal
  <2>1. /\ UNCHANGED <<stage, backup, registry>>
        /\ withdrawal' # NoWithdrawal => registry # None
    BY <1>1, UnrequestedStep DEF Releasing
  <2>2. UNCHANGED <<Hidden, Recorded(registry)>>
    BY <2>1 DEF Recorded
  <2>3. CASE withdrawal' = NoWithdrawal
    BY <1>1, <2>2, <2>3 DEF Contract!contract
  <2>4. CASE withdrawal' # NoWithdrawal
    <3>1. Recorded(registry) # Recorded(None)
      BY <2>1, <2>4 DEF Recorded
    <3> QED
      BY <1>1, <2>2, <2>4, <3>1 DEF Contract!Begin, Contract!ContractNext
  <2> QED
    BY <2>3, <2>4
<1>2. CASE withdrawal # NoWithdrawal
  <2>1. Contract!Withdraw \/ UNCHANGED Recorded(registry)
    BY WithdrawStep DEF Recorded
  <2>2. Contract!End \/ UNCHANGED Pending
    <3>1. CASE withdrawal' # NoWithdrawal
      BY <1>2, <3>1
    <3>2. CASE withdrawal' = NoWithdrawal
      <4>1. /\ stage' = None /\ backup' = None
            /\ UNCHANGED <<backup, target, registry>>
        BY <1>2, <3>2, UnrecordingStep DEF Releasing
      <4>2. Recorded(registry)' # Recorded(None)' => registry # None
        BY <4>1 DEF Recorded
      <4>3. registry # None => target' = Recorded(registry)'.digest
        BY <4>1 DEF Releasing, Kept, Recorded
      <4> QED
        BY <1>2, <3>2, <4>1, <4>2, <4>3 DEF Contract!End
    <3> QED
      BY <3>1, <3>2
  <2> QED
    BY <1>2, <2>1, <2>2 DEF Contract!Transact, Contract!ContractNext
<1> QED
  BY <1>1, <1>2

(* Unpublish, its handler, its recovery and the crashes and failures        *)
(* between their steps implement the registry contract, unless others touch *)
(* the package or its copies.                                               *)
THEOREM UnpublishKeepsTheContract ==
  ASSUME Outsiders \cap {"write", "create", "discard", "target", "edit",
                         "delete", "tamper"} = {}
  PROVE  UnpublishSpec => UnpublishKeepsContract
<1>1. UnpublishInit => Releasing
  BY InitSound, StoreAssumption
  DEF UnpublishInit, Releasing, Tidying, Tidy, BackupGone, StageGone,
      NoHiddenLeftovers, Withdrawing, Owner, Exact, Unshown, LocalStaged,
      LocalPlaced, Reviewed, NoWithdrawal, Kept
<1>2. Releasing /\ [UnpublishNext]_unpublishVars => Releasing'
  <2>1. Releasing /\ UNCHANGED unpublishVars => Releasing'
    BY StutterSound
    DEF unpublishVars, disk, records, task, Releasing, Tidying, Tidy,
        NoHiddenLeftovers, Withdrawing, Owner, Exact, Unshown, Ours, Kept
  <2>2. Releasing /\ UnpublishNext => Releasing'
    BY TidyStep, WithdrawingStep, KeptStep DEF Releasing
  <2> QED
    BY <2>1, <2>2
<1>3. UnpublishInit => Contract!ContractInit
  BY DEF UnpublishInit, Contract!ContractInit
<1>4. Releasing /\ [UnpublishNext]_unpublishVars =>
        [Contract!ContractNext]_(Contract!contract)
  <2>1. UNCHANGED unpublishVars => UNCHANGED Contract!contract
    BY DEF unpublishVars, disk, records, Contract!contract, Recorded
  <2> QED
    BY <2>1, ReleasingStep
<1> QED
  BY <1>1, <1>2, <1>3, <1>4, PTL
  DEF UnpublishSpec, UnpublishKeepsContract, Contract!ContractSpec

-----------------------------------------------------------------------------
(* A recovery is stopped only for a named cause.                           *)

Drafting == {"u_copy", "u_copying", "u_rewrite", "u_rewriting", "u_hash"}

(* One place at a time holds the package that is current. *)
Apart ==
    /\ source # None => stage = None /\ target = None
    /\ target # None => backup = None

(* Under a journal, what is owned and shared is the journaled version. *)
Versioned ==
    withdrawal # NoWithdrawal =>
        /\ withdrawal.canonical \in Shared
        /\ target \in {None, withdrawal.canonical}
        /\ registry \in {None, withdrawal.canonical}

(* Memory runs ahead of the journal only by the digest of a local version  *)
(* that is not in place yet.                                               *)
InStep ==
    pc # "idle" =>
        /\ memo.canonical = withdrawal.canonical
        /\ \/ memo.local = withdrawal.local
           \/ withdrawal.local = None /\ source = None

(* Once its digest is known the stage is the rewritten version, whole or   *)
(* in part.                                                                *)
Drafted ==
    /\ withdrawal.local \in Localised \cup {None}
    /\ memo.local \in Localised \cup {None}
    /\ withdrawal.local # None => stage \in {None, Torn, withdrawal.local}
    /\ memo.local # None => stage \in {None, Torn, memo.local}

Placing ==
    /\ pc \in Drafting => memo.local = None
    /\ pc \in ResumeSteps => memo = withdrawal
    /\ pc \in UnpublishSteps \ (Drafting \cup {"u_w_staged"}) =>
          memo.local = withdrawal.local
    /\ pc \in {"u_copying", "u_rewriting", "u_w_staged", "r_unstage"} =>
          stage # None
    /\ pc \in {"u_w_parked", "u_commit"} => target = None
    /\ pc = "undo_park" => source = None
    /\ pc \in Reviewed => backup \in {None, memo.canonical}
    /\ pc \in {"r_unstage", "r_unstaged"} => memo.local = None /\ source = None

Resolving ==
    Tidying /\ Apart /\ Versioned /\ InStep /\ Drafted /\ Placing

(* Outsiders that put a package where the publisher expects none.          *)
Intruders == {"create", "tamper", "target", "edit"}

(* Every step preserves Resolving. *)
LEMMA ResolvingStep ==
  ASSUME Resolving, UnpublishNext, Outsiders \cap Intruders = {}
  PROVE  Resolving'
<1>0. Tidying /\ Tidying'
  BY TidyStep DEF Resolving, Intruders
<1>u. Sound /\ Sound'
  BY <1>0 DEF Tidying
<1> USE StoreAssumption, PrivateAssumption, <1>0, <1>u
    DEF Resolving, Tidying, Tidy, BackupGone, StageGone, NoHiddenLeftovers,
        Apart, Versioned, InStep, Drafted, Placing, Drafting, Localised,
        Reviewed, ResumeSteps, UnpublishSteps, NoWithdrawal, To, Visit, Done,
        Raise, Rename, Moves, disk, records, still, task, Sound,
        UnpublishTypeOK, StoreTypeOK, Withdrawals, Place
<1>1. CASE Requesting
  BY <1>1 DEF Requesting, Start, Request, Withdrawable, RequestUnsynced
<1>2. CASE Preparing
  <2>1. CASE StartStage \/ FinishStage
    BY <1>2, <2>1 DEF StartStage, FinishStage
  <2>2. CASE Rewrite \/ Rewritten
    BY <2>2 DEF Rewrite, Rewritten, Standing, StageWhole
  <2>3. CASE HashStage
    BY <2>3 DEF HashStage
  <2> QED
    BY <1>2, <2>1, <2>2, <2>3 DEF Preparing
<1>3. CASE Recording
  BY <1>3 DEF Recording, RecordStaged, Record, RecordParked, RecordLocal,
     RecordAdapters, RecordRegistry
<1>4. CASE Exchanging
  BY <1>4 DEF Exchanging, ParkTarget, CommitLocal, UndoLocal, UndoPark,
     ResumeCommit, ResumeUnpark
<1>5. CASE Relinking
  BY <1>5 DEF Relinking, UnlinkAdapters, Unlink, UndoLinks, TextMatches,
     ResumeUnlink
<1>6. CASE Forgetting
  BY <1>6 DEF Forgetting, ForgetSkill, Forget, ResumeForget
<1>7. CASE Removing
  BY <1>7 DEF Removing, DropCanonical, Remove, UndoStage, DiscardOwnStage,
     StageExpected, ResumeUnstage, ResumeDrop, ResumeStage
<1>8. CASE Ending
  BY <1>8 DEF Ending, Complete, RemoveWithdrawal, UndoComplete, ResumeComplete
<1>9. CASE Deciding
  BY <1>9 DEF Deciding, Undo, WithdrawnDurably, Resume, WithdrawalValid,
     ResumeCheck, Conflict, ResumeLocal, ResumeAbort, ResumeLost
<1>10. CASE Breaking
  BY <1>10 DEF Breaking, CallFails, Dies
<1>11. CASE UnpublishOutside
  BY <1>11 DEF UnpublishOutside, Outside, UserWrite, UserCreate, UserDiscard,
     TamperStage, OutsideTarget, EditTarget, DeleteTarget, OutsideLink,
     Reauthorize, Intruders
<1> QED
  BY WithdrawalKinds, <1>1, <1>2, <1>3, <1>4, <1>5, <1>6, <1>7, <1>8, <1>9,
     <1>10, <1>11

(* And by a cause.                                                         *)
LEMMA StoppedForCause ==
  ASSUME Resolving, Quits
  PROVE  Hindered \/ (registry = None /\ pc = "undo")
<1> USE StoreAssumption, PrivateAssumption
        DEF Resolving, Tidying, Tidy, BackupGone, StageGone, Apart, Versioned,
            InStep, Localised, Drafted, Placing, Reviewed, ResumeSteps, UnpublishSteps,
            Hindered, Quits, To, Visit, Done, Raise, Rename, Moves, disk,
            records, still, task, Sound, UnpublishTypeOK, StoreTypeOK
<1>1. \/ Start \/ Preparing \/ Recording \/ Exchanging \/ Relinking
      \/ Forgetting \/ Removing \/ Ending \/ Deciding
  BY DEF Unpublisher, Withdraw, UndoAll, ResumeAll, Preparing, Recording,
     Exchanging, Relinking, Forgetting, Removing, Ending, Deciding
<1>2. ~Start /\ ~Preparing
  BY DEF Start, Preparing, StartStage, FinishStage, Rewrite, Rewritten, HashStage
<1>3. ~Recording
  BY DEF Recording, RecordStaged, Record, RecordParked, RecordLocal,
     RecordAdapters, RecordRegistry
<1>4. CASE Exchanging
  BY <1>4 DEF Exchanging, ParkTarget, CommitLocal, UndoLocal, UndoPark,
     ResumeCommit, ResumeUnpark
<1>5. CASE Relinking
  BY <1>5 DEF Relinking, UnlinkAdapters, Unlink, UndoLinks, TextMatches,
     ResumeUnlink, LinkKinds
<1>6. ~Forgetting
  BY DEF Forgetting, ForgetSkill, Forget, ResumeForget
<1>7. CASE Removing
  BY <1>7 DEF Removing, DropCanonical, Remove, UndoStage, DiscardOwnStage,
     StageExpected, ResumeUnstage, ResumeDrop, ResumeStage
<1>8. CASE Ending
  BY <1>8 DEF Ending, Complete, RemoveWithdrawal, UndoComplete, ResumeComplete
<1>9. CASE Deciding
  BY <1>9 DEF Deciding, Undo, WithdrawnDurably, Resume, ResumeCheck, Conflict,
     StageExpected, ResumeLocal, ResumeAbort, ResumeLost
<1> QED
  BY <1>1, <1>2, <1>3, <1>4, <1>5, <1>6, <1>7, <1>8, <1>9

(* Unless others put a package where the publisher expects none, or change  *)
(* the stage or the canonical one, the inverse rollback and the recovery of *)
(* an unpublish stop only for one of the named causes, whatever crashed or  *)
(* failed before.                                                           *)
THEOREM WithdrawalStopsForCause ==
  ASSUME Outsiders \cap Intruders = {}
  PROVE  UnpublishSpec => QuitsForCause
<1>1. UnpublishInit => Resolving
  BY InitSound, StoreAssumption
  DEF UnpublishInit, Resolving, Tidying, Tidy, BackupGone, StageGone,
      NoHiddenLeftovers, Apart, Versioned, InStep, Drafted, Placing, Drafting,
      ResumeSteps, UnpublishSteps, Reviewed, NoWithdrawal
<1>2. Resolving /\ [UnpublishNext]_unpublishVars => Resolving'
  <2>1. Resolving /\ UNCHANGED unpublishVars => Resolving'
    BY StutterSound
    DEF unpublishVars, disk, records, task, Resolving, Tidying, Tidy,
        NoHiddenLeftovers, Apart, Versioned, InStep, Drafted, Placing
  <2> QED
    BY <2>1, ResolvingStep
<1>3. Resolving =>
        [Quits => Hindered \/ (registry = None /\ pc = "undo")]_unpublishVars
  BY StoppedForCause
<1> QED
  BY <1>1, <1>2, <1>3, PTL DEF UnpublishSpec, QuitsForCause

=============================================================================
