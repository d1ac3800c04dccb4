---------------------------- MODULE RecoveryProofs ----------------------------
(***************************************************************************)
(* What a promotion leaves when it is cut short can be told apart: the     *)
(* recovery that follows is stopped only for a named cause.  This is the   *)
(* part of the liveness of recovery that needs no fairness.                *)
(***************************************************************************)
EXTENDS PublicationProofs

(* One place at a time holds the package: source, parked backup or stage   *)
(* with it, and the target only when neither source nor stage is there.    *)
Apart ==
    /\ source # None => backup = None /\ target = None
    /\ stage # None => target = None

(* Under a journal, what is shared is the journaled version. *)
Versioned ==
    journal # NoJournal =>
        /\ target \in {None, journal.digest}
        /\ registry \in {None, journal.digest}

(* The digest in memory may run ahead of the durable one only while there  *)
(* is nothing but the source.                                              *)
InStep ==
    pc # "idle" /\ mem.digest # journal.digest =>
        stage = None /\ backup = None /\ target = None

(* Where the stage is whole, and where the source is parked.               *)
Complete == {"w_staged", "park", "w_parked", "rehash", "commit", "unpark"}

Parked == {"w_parked", "rehash", "commit", "drop_cut", "fin_drop_cut"}

Placing ==
    /\ HasDigest
    /\ pc \in Agreed => mem.digest = journal.digest
    /\ pc \in {"fin_check", "fin_link"} \cup CheckedSteps => mem = journal
    /\ pc = "copying" => stage # None
    /\ pc \in Complete => stage = mem.digest
    /\ pc \in Parked => source = None
    /\ pc \in {"rb_backup", "fin_unlink", "fin_unpark", "fin_commit",
              "fin_restore"} => target = None
    /\ pc = "fin_commit" => stage # None
    /\ pc = "fin_restore" => stage = None
    /\ pc \in {"fin_commit", "fin_restore"} => backup # None
    /\ pc # "fin_drift"

Resolving ==
    Cleanly /\ Owning /\ Apart /\ Versioned /\ InStep /\ Placing

(* Outsiders that put a package where the publisher expects none.          *)
Intruders == {"create", "tamper", "target", "edit"}

(* Nobody writes through an old handle into what recovery puts back.       *)
Restored == "stale" \notin Outsiders \/ "delete" \notin Outsiders

(* Every step preserves Resolving. *)
LEMMA ResolvingStep ==
  ASSUME Resolving, Next, Outsiders \cap Intruders = {}, Restored
  PROVE  Resolving'
<1>0. TypeOK /\ TypeOK'
  BY StepTyped DEF Resolving, Cleanly
<1>u. Cleanly /\ Cleanly'
  BY CleanStep DEF Resolving
<1>w. Owning /\ Owning'
  BY OwningStep DEF Resolving, Intruders
<1> USE StoreAssumption, <1>0, <1>u, <1>w
    DEF Resolving, Cleanly, Underway, Swept, Unparked, Unstaging, EndSteps,
        Owning, Ownership, Restorable, Restored, CheckedSteps, Unregistered,
        Committed, Apart, Versioned, InStep, Placing, Complete, Parked, Agreed, PromoteSteps, FinishSteps,
        HasDigest, NoJournal, Fail, Block, Goto, Return, Moves, prog, disk,
        records, TypeOK, StoreTypeOK, Journals, Place
<1>1. CASE Planning
  BY <1>1 DEF Planning, Begin, Plan, Barred, Publishable, PlanUnsynced, Phases
<1>2. CASE Staging
  BY <1>2 DEF Staging, ReadSource, StartCopy, FinishCopy, Staged, Unstage,
     StageIntact, Unstaged, AttemptsLeft
<1>3. CASE Journaling
  BY <1>3 DEF Journaling, Replan, WritePhase, JournalStaged, JournalParked,
     JournalTarget, JournalLink, JournalAdapters, JournalRegistry,
     JournalCommitted, FinishJournalLink, FinishJournalRegistry
<1>4. CASE Moving
  BY <1>4 DEF Moving, Park, Rehash, ParkedIntact, Unpark, Commit, Verify
<1>5. CASE Linking
  BY <1>5 DEF Linking, Link, MakeLink, FinishLink, LinkProved
<1>6. CASE Unlinking
  BY <1>6 DEF Unlinking, RollbackLinks, RemoveLinks, FinishUnlink
<1>7. CASE Registering
  BY <1>7 DEF Registering, Register, SaveRegistry, FinishRegister
<1>8. CASE Dropping
  <2>1. CASE DropCheck \/ FinishDropCheck
    BY <2>1 DEF DropCheck, FinishDropCheck, Differs
  <2>2. CASE DropCut \/ FinishDropCut
    BY <2>2 DEF DropCut, FinishDropCut, ShrinkBackup
  <2>3. CASE Dropped \/ FinishDropped
    BY <2>3 DEF Dropped, FinishDropped, ShrinkBackup
  <2> QED
    BY <1>8, <2>1, <2>2, <2>3 DEF Dropping
<1>9. CASE Undoing
  BY <1>9 DEF Undoing, Handle, Durable, RollbackCheck, RollbackRefused,
     Differs, RollbackTarget
<1>10. CASE Restoring
  BY <1>10 DEF Restoring, RollbackBackup, RestoreBackup, FinishUnpark
<1>11. CASE Ending
  BY <1>11 DEF Ending, DiscardStage, StageIntact, StageDiscarded, EndClear,
     ClearJournal, Clear
<1>12. CASE Resuming
  BY <1>12 DEF Resuming, Recover, FinishCheck, Finishable, Drifted,
     FinishRefused, Ambiguous, Differs, FinishDrift
<1>13. CASE Choosing
  <2>1. CASE FinishStaged \/ FinishSource
    BY <2>1 DEF FinishStaged, FinishSource, OnlySource, Differs
  <2>2. CASE FinishBackup \/ FinishTarget
    BY <2>2 DEF FinishBackup, FinishTarget
  <2>3. CASE FinishCommit
    BY <2>3 DEF FinishCommit
  <2>4. CASE FinishFromBackup
    <3>1. target = None /\ source = None /\ backup # None
      BY <2>4 DEF FinishFromBackup
    <3>2. backup = mem.digest /\ mem = journal
      BY <2>4, <3>1 DEF FinishFromBackup
    <3> QED
      BY <2>4, <3>1, <3>2 DEF FinishFromBackup
  <2> QED
    BY <1>13, <2>1, <2>2, <2>3, <2>4 DEF Choosing
<1>14. CASE Failing
  BY <1>14 DEF Failing, IOError, Crash
<1>15. CASE Environment
  BY <1>15 DEF Environment, LateWrite, WriteBackup, Outside, UserWrite,
     UserCreate, UserDiscard, TamperStage, OutsideTarget, EditTarget,
     DeleteTarget, OutsideLink, Reauthorize, Intruders
<1> QED
  BY Kinds, <1>1, <1>2, <1>3, <1>4, <1>5, <1>6, <1>7, <1>8, <1>9, <1>10,
     <1>11, <1>12, <1>13, <1>14, <1>15

(* An operation that gives up was stopped by one of these steps.           *)
LEMMA StoppedBy ==
  ASSUME Resolving, GivesUp
  PROVE  Unlinking \/ Undoing \/ Restoring \/ Ending \/ Resuming
         \/ Choosing \/ FinishLink \/ FinishDropCheck
<1> USE DEF GivesUp, Fail, Goto, PromoteSteps
<1>1. \/ Begin \/ Staging \/ Journaling \/ Moving \/ Linking \/ Unlinking
      \/ Registering \/ Dropping \/ Undoing \/ Restoring \/ Ending
      \/ Resuming \/ Choosing
  BY DEF Publisher, Promote, Rollback, Finish, Staging, Journaling, Moving,
     Linking, Unlinking, Registering, Dropping, Undoing, Restoring, Ending,
     Resuming, Choosing
<1> QED
  BY <1>1
  DEF Begin, Staging, ReadSource, StartCopy, FinishCopy, Unstage, Unstaged,
      Journaling, WritePhase, Replan, JournalStaged, JournalParked,
      JournalTarget, JournalLink, JournalAdapters, JournalRegistry,
      JournalCommitted, FinishJournalLink, FinishJournalRegistry, Moving,
      Park, Rehash, Unpark, Commit, Verify, Linking, Link, Registering,
      Register, FinishRegister, SaveRegistry, Dropping, DropCheck, DropCut,
      ShrinkBackup, Dropped, FinishDropCut, FinishDropped

(* And by a cause.                                                         *)
LEMMA StoppedForCause ==
  ASSUME Resolving, GivesUp
  PROVE  \/ Unresolvable
         \/ registry # None /\ pc \in {"handler", "rb_check"}
         \/ TakenAway
<1> USE DEF Resolving, Cleanly, TypeOK, StoreTypeOK, Underway, Swept,
            Unparked, Unstaging, EndSteps, Apart, Versioned, InStep, Placing,
            CheckedSteps, Agreed, PromoteSteps, FinishSteps, HasDigest, GivesUp,
            Unresolvable, Block, Return, Goto, Moves, Differs, disk, records
<1>1. CASE Unlinking
  BY <1>1 DEF Unlinking, RollbackLinks, FinishUnlink, RemoveLinks
<1>2. CASE Undoing
  BY <1>2 DEF Undoing, Handle, Durable, RollbackCheck, RollbackRefused,
     RollbackTarget
<1>3. CASE Restoring
  BY <1>3 DEF Restoring, RollbackBackup, RestoreBackup, FinishUnpark
<1>4. CASE Ending
  BY <1>4 DEF Ending, DiscardStage, StageIntact, StageDiscarded, EndClear,
     ClearJournal, Clear
<1>5. CASE Resuming
  BY <1>5 DEF Resuming, Recover, FinishCheck, Finishable, Drifted,
     FinishRefused, Ambiguous, FinishDrift
<1>6. CASE FinishLink
  BY <1>6 DEF FinishLink, MakeLink, TextMatches, LinkProved, LinkKinds
<1>7. CASE FinishDropCheck
  BY <1>7 DEF FinishDropCheck
<1>8. CASE Choosing
  BY <1>8 DEF Choosing, FinishStaged, OnlySource, FinishSource, FinishBackup,
     FinishCommit, FinishFromBackup, FinishTarget, TakenAway
<1> QED
  BY StoppedBy, <1>1, <1>2, <1>3, <1>4, <1>5, <1>6, <1>7, <1>8

(* Unless others put a package where the publisher expects none, change the *)
(* stage or the canonical one, or delete it and write through old handles   *)
(* into what is put back, every rollback and every recovery that stops has  *)
(* one of the named causes, whatever crashed or failed before it.           *)
THEOREM RecoveryStopsForCause ==
  ASSUME Outsiders \cap Intruders = {}, Restored
  PROVE  Spec => GivesUpForCause
<1>1. Init => Resolving
  BY InitTyped
  DEF Init, StoreInit, Resolving, Cleanly, Underway, Swept, NoHiddenOrphans,
      Unparked, Unstaging, EndSteps, Owning, Ownership, Restorable,
      CheckedSteps, Unregistered, Committed, Apart, Versioned, InStep, Placing, Complete, Parked, Agreed,
      PromoteSteps, FinishSteps, HasDigest, NoJournal
<1>2. Resolving /\ [Next]_vars => Resolving'
  <2>1. Resolving /\ UNCHANGED vars => Resolving'
    BY DEF vars, disk, records, prog, Resolving, Cleanly, TypeOK, StoreTypeOK,
           Underway, Swept, NoHiddenOrphans, Owning, Ownership, Restorable,
           Apart, Versioned, InStep, Placing, HasDigest
  <2> QED
    BY <2>1, ResolvingStep
<1>3. Resolving =>
        [GivesUp =>
          \/ Unresolvable
          \/ registry # None /\ pc \in {"handler", "rb_check"}
          \/ TakenAway]_vars
  BY StoppedForCause
<1> QED
  BY <1>1, <1>2, <1>3, PTL DEF Spec, GivesUpForCause

===============================================================================
