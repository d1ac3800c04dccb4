---------------------------- MODULE PromotionProofs ----------------------------
(***************************************************************************)
(* Theorems about promotion and its recovery, for every set of packages,   *)
(* adapters, faults and outsiders.                                         *)
(***************************************************************************)
EXTENDS PromotionProperties, TLAPS

-----------------------------------------------------------------------------
(* Type correctness. *)

LEMMA NoJournalTyped == NoJournal \in Journals
  BY DEF NoJournal, Journals, Phases, Place

LEMMA InitTyped == Init => TypeOK
<1> SUFFICES ASSUME Init PROVE TypeOK
  OBVIOUS
<1>1. authorized \in BOOLEAN
  BY Zenon DEF Init, StoreInit
<1>2. /\ source \in Package /\ backup = None /\ stage = None /\ target = None
      /\ maker = "publisher"
      /\ links = [a \in Adapters |-> "absent"] /\ journal = NoJournal
      /\ registry = None /\ owed = {source} /\ pc = "idle"
  BY Zenon DEF Init, StoreInit
<1>3. mem = NoJournal /\ todo = {} /\ attempt = 1
  BY Zenon DEF Init
<1> QED
  BY <1>1, <1>2, <1>3, NoJournalTyped
  DEF TypeOK, StoreTypeOK, Place, LinkKinds, MaxAttempts

(* The steps several actions are instances of. *)
LEMMA GotoTyped ==
  ASSUME TypeOK, NEW step \in Steps, Goto(step)
  PROVE  mem' \in Journals /\ todo' \subseteq Adapters
         /\ attempt' \in 1..MaxAttempts /\ pc' \in Steps
  BY DEF TypeOK, Goto, prog

LEMMA ReturnTyped ==
  ASSUME Return
  PROVE  mem' \in Journals /\ todo' \subseteq Adapters
         /\ attempt' \in 1..MaxAttempts /\ pc' = "idle"
  BY NoJournalTyped DEF Return, MaxAttempts

LEMMA WritePhaseTyped ==
  ASSUME TypeOK, NEW at, NEW phase \in Phases, NEW next \in Steps,
         WritePhase(at, phase, next)
  PROVE  TypeOK'
  BY DEF TypeOK, StoreTypeOK, Journals, WritePhase, disk

LEMMA SaveRegistryTyped ==
  ASSUME TypeOK, NEW at, NEW next \in Steps, SaveRegistry(at, next)
  PROVE  TypeOK'
  BY GotoTyped DEF TypeOK, StoreTypeOK, Journals, SaveRegistry, disk

LEMMA ShrinkBackupTyped ==
  ASSUME TypeOK, NEW at, NEW content \in {None, Torn}, NEW next \in Steps,
         ShrinkBackup(at, content, next)
  PROVE  TypeOK'
  BY GotoTyped DEF TypeOK, StoreTypeOK, Place, ShrinkBackup, records

LEMMA ClearJournalTyped ==
  ASSUME TypeOK, NEW at, ClearJournal(at)
  PROVE  TypeOK'
  BY ReturnTyped, NoJournalTyped
  DEF TypeOK, StoreTypeOK, ClearJournal, disk

LEMMA RemoveLinksTyped ==
  ASSUME TypeOK, NEW at, NEW next \in Steps, RemoveLinks(at, next)
  PROVE  TypeOK'
  BY GotoTyped, ReturnTyped
  DEF TypeOK, StoreTypeOK, LinkKinds, RemoveLinks, Block, records

LEMMA RestoreBackupTyped ==
  ASSUME TypeOK, NEW at, NEW next \in Steps, RestoreBackup(at, next)
  PROVE  TypeOK'
  BY GotoTyped, ReturnTyped
  DEF TypeOK, StoreTypeOK, Place, Moves, RestoreBackup, Block, records

LEMMA PromoteTyped == TypeOK /\ Promote => TypeOK'
<1> SUFFICES ASSUME TypeOK, Promote PROVE TypeOK'
  OBVIOUS
<1> USE StoreAssumption, GotoTyped, ReturnTyped, NoJournalTyped
    DEF Steps, PromoteSteps, RollbackSteps, FinishSteps, EndSteps, Fail, Block
<1>1. CASE Begin
  BY <1>1 DEF Begin, Plan, Publishable, TypeOK, StoreTypeOK, Place,
     LinkKinds, Journals, Phases, MaxAttempts, Moves, disk, records, prog
<1>2. CASE ReadSource
  BY <1>2 DEF ReadSource, TypeOK, StoreTypeOK, Place,
     LinkKinds, Journals, Phases, MaxAttempts, Moves, disk, records, prog
<1>3. CASE Replan
  BY <1>3, WritePhaseTyped DEF Replan, Phases
<1>4. CASE StartCopy
  BY <1>4 DEF StartCopy, TypeOK, StoreTypeOK, Place,
     LinkKinds, Journals, Phases, MaxAttempts, Moves, disk, records, prog
<1>5. CASE FinishCopy
  BY <1>5 DEF FinishCopy, TypeOK, StoreTypeOK, Place,
     LinkKinds, Journals, Phases, MaxAttempts, Moves, disk, records, prog
<1>6. CASE JournalStaged
  BY <1>6, WritePhaseTyped DEF JournalStaged, Phases
<1>7. CASE Park
  BY <1>7 DEF Park, TypeOK, StoreTypeOK, Place,
     LinkKinds, Journals, Phases, MaxAttempts, Moves, disk, records, prog
<1>8. CASE JournalParked
  BY <1>8, WritePhaseTyped DEF JournalParked, Phases
<1>9. CASE Rehash
  BY <1>9 DEF Rehash, TypeOK, StoreTypeOK, Place,
     LinkKinds, Journals, Phases, MaxAttempts, Moves, disk, records, prog
<1>10. CASE Unpark
  BY <1>10 DEF Unpark, TypeOK, StoreTypeOK, Place,
     LinkKinds, Journals, Phases, MaxAttempts, Moves, disk, records, prog
<1>11. CASE Unstage
  BY <1>11 DEF Unstage, TypeOK, StoreTypeOK, Place,
     LinkKinds, Journals, Phases, MaxAttempts, Moves, disk, records, prog
<1>12. CASE Unstaged
  BY <1>12 DEF Unstaged, AttemptsLeft, TypeOK, StoreTypeOK, Place,
     LinkKinds, Journals, Phases, MaxAttempts, Moves, disk, records, prog
<1>13. CASE Commit
  BY <1>13 DEF Commit, TypeOK, StoreTypeOK, Place,
     LinkKinds, Journals, Phases, MaxAttempts, Moves, disk, records, prog
<1>14. CASE Verify
  BY <1>14 DEF Verify, TypeOK, StoreTypeOK, Place,
     LinkKinds, Journals, Phases, MaxAttempts, Moves, disk, records, prog
<1>15. CASE JournalTarget
  BY <1>15, WritePhaseTyped DEF JournalTarget, Phases
<1>16. CASE Link
  BY <1>16 DEF Link, MakeLink, TypeOK, StoreTypeOK, Place,
     LinkKinds, Journals, Phases, MaxAttempts, Moves, disk, records, prog
<1>17. CASE JournalLink
  BY <1>17, WritePhaseTyped DEF JournalLink, Phases
<1>18. CASE JournalAdapters
  BY <1>18, WritePhaseTyped DEF JournalAdapters, Phases
<1>19. CASE Register
  BY <1>19, SaveRegistryTyped DEF Register
<1>20. CASE JournalRegistry
  BY <1>20, WritePhaseTyped DEF JournalRegistry, Phases
<1>21. CASE DropCheck
  BY <1>21 DEF DropCheck, TypeOK, StoreTypeOK, Place,
     LinkKinds, Journals, Phases, MaxAttempts, Moves, disk, records, prog
<1>22. CASE DropCut
  BY <1>22, ShrinkBackupTyped DEF DropCut
<1>23. CASE Dropped
  BY <1>23, ShrinkBackupTyped DEF Dropped
<1>24. CASE JournalCommitted
  BY <1>24, WritePhaseTyped DEF JournalCommitted, Phases
<1>25. CASE Clear
  BY <1>25, ClearJournalTyped DEF Clear
<1> QED
  BY <1>1, <1>2, <1>3, <1>4, <1>5, <1>6, <1>7, <1>8, <1>9, <1>10, <1>11, <1>12, <1>13, <1>14, <1>15, <1>16, <1>17, <1>18, <1>19, <1>20, <1>21, <1>22, <1>23, <1>24, <1>25 DEF Promote

LEMMA RollbackTyped == TypeOK /\ Rollback => TypeOK'
<1> SUFFICES ASSUME TypeOK, Rollback PROVE TypeOK'
  OBVIOUS
<1> USE StoreAssumption, GotoTyped, ReturnTyped, NoJournalTyped
    DEF Steps, PromoteSteps, RollbackSteps, FinishSteps, EndSteps, Fail, Block
<1>1. CASE Handle
  BY <1>1 DEF Handle, TypeOK, StoreTypeOK, Place,
     LinkKinds, Journals, Phases, MaxAttempts, Moves, disk, records, prog
<1>2. CASE RollbackCheck
  BY <1>2 DEF RollbackCheck, TypeOK, StoreTypeOK, Place,
     LinkKinds, Journals, Phases, MaxAttempts, Moves, disk, records, prog
<1>3. CASE RollbackLinks
  BY <1>3, RemoveLinksTyped DEF RollbackLinks
<1>4. CASE RollbackTarget
  BY <1>4 DEF RollbackTarget, TypeOK, StoreTypeOK, Place,
     LinkKinds, Journals, Phases, MaxAttempts, Moves, disk, records, prog
<1>5. CASE RollbackBackup
  BY <1>5, RestoreBackupTyped DEF RollbackBackup
<1>6. CASE DiscardStage
  BY <1>6 DEF DiscardStage, TypeOK, StoreTypeOK, Place,
     LinkKinds, Journals, Phases, MaxAttempts, Moves, disk, records, prog
<1>7. CASE StageDiscarded
  BY <1>7 DEF StageDiscarded, TypeOK, StoreTypeOK, Place,
     LinkKinds, Journals, Phases, MaxAttempts, Moves, disk, records, prog
<1>8. CASE EndClear
  BY <1>8, ClearJournalTyped DEF EndClear
<1> QED
  BY <1>1, <1>2, <1>3, <1>4, <1>5, <1>6, <1>7, <1>8 DEF Rollback

LEMMA FinishTyped == TypeOK /\ Finish => TypeOK'
<1> SUFFICES ASSUME TypeOK, Finish PROVE TypeOK'
  OBVIOUS
<1> USE StoreAssumption, GotoTyped, ReturnTyped, NoJournalTyped
    DEF Steps, PromoteSteps, RollbackSteps, FinishSteps, EndSteps, Fail, Block
<1>1. CASE FinishCheck
  BY <1>1 DEF FinishCheck, TypeOK, StoreTypeOK, Place,
     LinkKinds, Journals, Phases, MaxAttempts, Moves, disk, records, prog
<1>2. CASE FinishDrift
  BY <1>2 DEF FinishDrift, TypeOK, StoreTypeOK, Place,
     LinkKinds, Journals, Phases, MaxAttempts, Moves, disk, records, prog
<1>3. CASE FinishStaged
  BY <1>3 DEF FinishStaged, TypeOK, StoreTypeOK, Place,
     LinkKinds, Journals, Phases, MaxAttempts, Moves, disk, records, prog
<1>4. CASE FinishSource
  BY <1>4 DEF FinishSource, TypeOK, StoreTypeOK, Place,
     LinkKinds, Journals, Phases, MaxAttempts, Moves, disk, records, prog
<1>5. CASE FinishBackup
  BY <1>5 DEF FinishBackup, TypeOK, StoreTypeOK, Place,
     LinkKinds, Journals, Phases, MaxAttempts, Moves, disk, records, prog
<1>6. CASE FinishCommit
  BY <1>6 DEF FinishCommit, TypeOK, StoreTypeOK, Place,
     LinkKinds, Journals, Phases, MaxAttempts, Moves, disk, records, prog
<1>7. CASE FinishFromBackup
  BY <1>7 DEF FinishFromBackup, TypeOK, StoreTypeOK, Place,
     LinkKinds, Journals, Phases, MaxAttempts, Moves, disk, records, prog
<1>8. CASE FinishUnlink
  BY <1>8, RemoveLinksTyped DEF FinishUnlink
<1>9. CASE FinishUnpark
  BY <1>9, RestoreBackupTyped DEF FinishUnpark
<1>10. CASE FinishTarget
  BY <1>10 DEF FinishTarget, TypeOK, StoreTypeOK, Place,
     LinkKinds, Journals, Phases, MaxAttempts, Moves, disk, records, prog
<1>11. CASE FinishLink
  BY <1>11 DEF FinishLink, MakeLink, TypeOK, StoreTypeOK, Place,
     LinkKinds, Journals, Phases, MaxAttempts, Moves, disk, records, prog
<1>12. CASE FinishJournalLink
  BY <1>12, WritePhaseTyped DEF FinishJournalLink, Phases
<1>13. CASE FinishRegister
  BY <1>13, SaveRegistryTyped DEF FinishRegister
<1>14. CASE FinishJournalRegistry
  BY <1>14, WritePhaseTyped DEF FinishJournalRegistry, Phases
<1>15. CASE FinishDropCheck
  BY <1>15 DEF FinishDropCheck, TypeOK, StoreTypeOK, Place,
     LinkKinds, Journals, Phases, MaxAttempts, Moves, disk, records, prog
<1>16. CASE FinishDropCut
  BY <1>16, ShrinkBackupTyped DEF FinishDropCut
<1>17. CASE FinishDropped
  BY <1>17, ShrinkBackupTyped DEF FinishDropped
<1> QED
  BY <1>1, <1>2, <1>3, <1>4, <1>5, <1>6, <1>7, <1>8, <1>9, <1>10, <1>11, <1>12, <1>13, <1>14, <1>15, <1>16, <1>17 DEF Finish

LEMMA RecoverTyped == TypeOK /\ Recover => TypeOK'
  BY DEF TypeOK, StoreTypeOK, Recover, Steps, RollbackSteps, FinishSteps, disk,
         records

LEMMA FaultTyped == TypeOK /\ Fault => TypeOK'
<1> SUFFICES ASSUME TypeOK, Fault PROVE TypeOK'
  OBVIOUS
<1> USE GotoTyped, ReturnTyped
    DEF Steps, PromoteSteps, RollbackSteps, TypeOK, StoreTypeOK, Place,
        Journals, Phases, disk, records, prog
<1>1. CASE IOError
  BY <1>1 DEF IOError, Fail, Block
<1>2. CASE PlanUnsynced
  BY <1>2, StoreAssumption DEF PlanUnsynced, Plan, Publishable
<1>3. CASE Crash
  BY <1>3 DEF Crash
<1> QED
  BY <1>1, <1>2, <1>3 DEF Fault

LEMMA EnvironmentTyped == TypeOK /\ Environment => TypeOK'
<1> SUFFICES ASSUME TypeOK, Environment PROVE TypeOK'
  OBVIOUS
<1> USE DEF TypeOK, StoreTypeOK, Place, disk, records, prog
<1>1. CASE LateWrite
  BY <1>1 DEF LateWrite, WriteBackup
<1>2. CASE Outside /\ UNCHANGED prog
  <2>1. CASE UserWrite
    BY <1>2, <2>1 DEF UserWrite
  <2>2. CASE UserCreate
    BY <1>2, <2>2 DEF UserCreate
  <2>3. CASE UserDiscard
    BY <1>2, <2>3 DEF UserDiscard
  <2>4. CASE TamperStage
    BY <1>2, <2>4 DEF TamperStage
  <2>5. CASE OutsideTarget
    BY <1>2, <2>5 DEF OutsideTarget
  <2>6. CASE EditTarget
    BY <1>2, <2>6 DEF EditTarget
  <2>7. CASE DeleteTarget
    BY <1>2, <2>7 DEF DeleteTarget
  <2>8. CASE OutsideLink
    BY <1>2, <2>8 DEF OutsideLink, LinkKinds
  <2>9. CASE Reauthorize
    BY <1>2, <2>9 DEF Reauthorize
  <2> QED
    BY <1>2, <2>1, <2>2, <2>3, <2>4, <2>5, <2>6, <2>7, <2>8, <2>9 DEF Outside
<1> QED
  BY <1>1, <1>2 DEF Environment

LEMMA StepTyped == TypeOK /\ [Next]_vars => TypeOK'
<1>1. CASE Next
  BY <1>1, PromoteTyped, RollbackTyped, RecoverTyped, FinishTyped, FaultTyped,
     EnvironmentTyped DEF Next, Publisher
<1>2. CASE UNCHANGED vars
  BY <1>2 DEF vars, disk, records, prog, TypeOK, StoreTypeOK
<1> QED
  BY <1>1, <1>2

(* Whatever fails and whoever interferes, every variable keeps its type:    *)
(* no step invents a phase, an adapter or a fourth attempt.                 *)
THEOREM TypeCorrect == Spec => []TypeOK
  BY InitTyped, StepTyped, PTL DEF Spec

-----------------------------------------------------------------------------
(* Nothing is lost.                                                         *)
(*                                                                          *)
(* NothingLost alone is not inductive: it must be known why the backup may  *)
(* be unlinked and why a rollback may move the target.                      *)

(* A step that runs has a digest to compare with, and so has a journal.     *)
HasDigest ==
    /\ pc # "idle" => mem.digest # None
    /\ journal # NoJournal => journal.digest # None

(* Without a registry record the author's versions are local.               *)
UnownedIsLocal == registry = None => owed \subseteq {source, backup}

(* A rollback passes its preflight only without a registry record.          *)
RollbackUnowned == pc \in {"rb_links", "rb_target"} => registry = None

(* Between the checks of a recovery and the links, the copies are still the *)
(* journaled version, and so is the target unless that was given up.        *)
CheckedSteps ==
    {"fin_staged", "fin_source", "fin_backup", "fin_commit", "fin_restore",
     "fin_target"}

Checked ==
    /\ pc \in CheckedSteps =>
          /\ stage \in {None, mem.digest} /\ backup \in {None, mem.digest}
          /\ target # None /\ mem.digest \in owed =>
                mem.digest \in {source, target}
    /\ pc = "fin_restore" => registry # None

(* From the verified commit on, the journaled version is the target, or the *)
(* author took it up again, or gave it up.                                  *)
HandedSteps ==
    {"w_target", "link", "w_link", "w_adapters", "register", "w_registry",
     "drop", "drop_cut", "fin_link", "fin_w_link", "fin_register",
     "fin_w_registry", "fin_drop", "fin_drop_cut"}

Handed ==
    pc \in HandedSteps /\ mem.digest \in owed => mem.digest \in {source, target}

(* The backup is unlinked after the registry is saved, and it is the        *)
(* journaled version then.                                                  *)
DropSteps ==
    {"w_registry", "drop", "drop_cut", "dropping", "fin_w_registry",
     "fin_drop", "fin_drop_cut", "fin_dropping"}

DropReady ==
    /\ pc \in DropSteps => registry # None
    /\ pc \in {"drop_cut", "fin_drop_cut"} => backup = mem.digest
    /\ pc \in {"dropping", "fin_dropping"} => backup = Torn

(* Nobody writes through an old handle after the rehash, changes the stage  *)
(* or creates the canonical package.                                        *)
Trusted == Outsiders \cap {"stale", "tamper", "target"} = {}

Kept ==
    /\ TypeOK
    /\ HasDigest
    /\ NothingLost
    /\ UnownedIsLocal
    /\ RollbackUnowned
    /\ Checked
    /\ Handed
    /\ DropReady

LEMMA PromoteKeeps ==
  ASSUME Kept, Promote
  PROVE  Kept'
<1>0. TypeOK /\ TypeOK'
  BY PromoteTyped DEF Kept
<1> USE StoreAssumption, <1>0
    DEF Kept, HasDigest, NothingLost, UnownedIsLocal, RollbackUnowned, Checked,
        CheckedSteps, Handed, HandedSteps, DropReady, DropSteps,
        Fail, Block, Goto, Return, Moves, prog, disk, records
<1>1. CASE Begin
  BY <1>1 DEF Begin, Plan, Publishable, TypeOK, StoreTypeOK, Journals
<1>2. CASE ReadSource
  BY <1>2 DEF ReadSource, TypeOK, StoreTypeOK, Journals
<1>3. CASE Replan
  BY <1>3 DEF Replan, WritePhase, TypeOK, StoreTypeOK, Journals
<1>4. CASE StartCopy
  BY <1>4 DEF StartCopy, TypeOK, StoreTypeOK, Journals
<1>5. CASE FinishCopy
  BY <1>5 DEF FinishCopy, TypeOK, StoreTypeOK, Journals
<1>6. CASE JournalStaged
  BY <1>6 DEF JournalStaged, WritePhase, TypeOK, StoreTypeOK, Journals
<1>7. CASE Park
  BY <1>7 DEF Park, TypeOK, StoreTypeOK, Journals
<1>8. CASE JournalParked
  BY <1>8 DEF JournalParked, WritePhase, TypeOK, StoreTypeOK, Journals
<1>9. CASE Rehash
  BY <1>9 DEF Rehash, TypeOK, StoreTypeOK, Journals
<1>10. CASE Unpark
  BY <1>10 DEF Unpark, TypeOK, StoreTypeOK, Journals
<1>11. CASE Unstage
  BY <1>11 DEF Unstage, TypeOK, StoreTypeOK, Journals
<1>12. CASE Unstaged
  BY <1>12 DEF Unstaged, AttemptsLeft, TypeOK, StoreTypeOK, Journals
<1>13. CASE Commit
  BY <1>13 DEF Commit, TypeOK, StoreTypeOK, Journals
<1>14. CASE Verify
  BY <1>14 DEF Verify, TypeOK, StoreTypeOK, Journals
<1>15. CASE JournalTarget
  BY <1>15 DEF JournalTarget, WritePhase, TypeOK, StoreTypeOK, Journals
<1>16. CASE Link
  BY <1>16 DEF Link, MakeLink, TypeOK, StoreTypeOK, Journals
<1>17. CASE JournalLink
  BY <1>17 DEF JournalLink, WritePhase, TypeOK, StoreTypeOK, Journals
<1>18. CASE JournalAdapters
  BY <1>18 DEF JournalAdapters, WritePhase, TypeOK, StoreTypeOK, Journals
<1>19. CASE Register
  BY <1>19 DEF Register, SaveRegistry, TypeOK, StoreTypeOK, Journals
<1>20. CASE JournalRegistry
  BY <1>20 DEF JournalRegistry, WritePhase, TypeOK, StoreTypeOK, Journals
<1>21. CASE DropCheck
  BY <1>21 DEF DropCheck, TypeOK, StoreTypeOK, Journals
<1>22. CASE DropCut
  BY <1>22 DEF DropCut, ShrinkBackup, TypeOK, StoreTypeOK, Journals
<1>23. CASE Dropped
  BY <1>23 DEF Dropped, ShrinkBackup, TypeOK, StoreTypeOK, Journals
<1>24. CASE JournalCommitted
  BY <1>24 DEF JournalCommitted, WritePhase, TypeOK, StoreTypeOK, Journals
<1>25. CASE Clear
  BY <1>25 DEF Clear, ClearJournal, TypeOK, StoreTypeOK, Journals
<1> QED
  BY <1>1, <1>2, <1>3, <1>4, <1>5, <1>6, <1>7, <1>8, <1>9, <1>10, <1>11, <1>12, <1>13, <1>14, <1>15, <1>16, <1>17, <1>18, <1>19, <1>20, <1>21, <1>22, <1>23, <1>24, <1>25 DEF Promote

LEMMA RollbackKeeps ==
  ASSUME Kept, Rollback
  PROVE  Kept'
<1>0. TypeOK /\ TypeOK'
  BY RollbackTyped DEF Kept
<1> USE StoreAssumption, <1>0
    DEF Kept, HasDigest, NothingLost, UnownedIsLocal, RollbackUnowned, Checked,
        CheckedSteps, Handed, HandedSteps, DropReady, DropSteps,
        Fail, Block, Goto, Return, Moves, prog, disk, records
<1>1. CASE Handle
  BY <1>1 DEF Handle, TypeOK, StoreTypeOK, Journals
<1>2. CASE RollbackCheck
  BY <1>2 DEF RollbackCheck, RollbackRefused, Differs, TypeOK, StoreTypeOK, Journals
<1>3. CASE RollbackLinks
  BY <1>3 DEF RollbackLinks, RemoveLinks, TypeOK, StoreTypeOK, Journals
<1>4. CASE RollbackTarget
  BY <1>4 DEF RollbackTarget, TypeOK, StoreTypeOK, Journals
<1>5. CASE RollbackBackup
  BY <1>5 DEF RollbackBackup, RestoreBackup, TypeOK, StoreTypeOK, Journals
<1>6. CASE DiscardStage
  BY <1>6 DEF DiscardStage, TypeOK, StoreTypeOK, Journals
<1>7. CASE StageDiscarded
  BY <1>7 DEF StageDiscarded, TypeOK, StoreTypeOK, Journals
<1>8. CASE EndClear
  BY <1>8 DEF EndClear, ClearJournal, TypeOK, StoreTypeOK, Journals
<1> QED
  BY <1>1, <1>2, <1>3, <1>4, <1>5, <1>6, <1>7, <1>8 DEF Rollback

LEMMA FinishKeeps ==
  ASSUME Kept, Finish
  PROVE  Kept'
<1>0. TypeOK /\ TypeOK'
  BY FinishTyped DEF Kept
<1> USE StoreAssumption, <1>0
    DEF Kept, HasDigest, NothingLost, UnownedIsLocal, RollbackUnowned, Checked,
        CheckedSteps, Handed, HandedSteps, DropReady, DropSteps,
        Fail, Block, Goto, Return, Moves, prog, disk, records
<1>1. CASE FinishCheck
  BY <1>1 DEF FinishCheck, Finishable, Drifted,
     FinishRefused, Ambiguous, Differs, TypeOK, StoreTypeOK, Journals
<1>2. CASE FinishDrift
  BY <1>2 DEF FinishDrift, TypeOK, StoreTypeOK, Journals
<1>3. CASE FinishStaged
  BY <1>3 DEF FinishStaged, OnlySource, Differs, TypeOK, StoreTypeOK, Journals
<1>4. CASE FinishSource
  BY <1>4 DEF FinishSource, OnlySource, TypeOK, StoreTypeOK, Journals
<1>5. CASE FinishBackup
  BY <1>5 DEF FinishBackup, TypeOK, StoreTypeOK, Journals
<1>6. CASE FinishCommit
  BY <1>6 DEF FinishCommit, TypeOK, StoreTypeOK, Journals
<1>7. CASE FinishFromBackup
  BY <1>7 DEF FinishFromBackup, TypeOK, StoreTypeOK, Journals
<1>8. CASE FinishUnlink
  BY <1>8 DEF FinishUnlink, RemoveLinks, TypeOK, StoreTypeOK, Journals
<1>9. CASE FinishUnpark
  BY <1>9 DEF FinishUnpark, RestoreBackup, TypeOK, StoreTypeOK, Journals
<1>10. CASE FinishTarget
  BY <1>10 DEF FinishTarget, TypeOK, StoreTypeOK, Journals
<1>11. CASE FinishLink
  BY <1>11 DEF FinishLink, MakeLink, TypeOK, StoreTypeOK, Journals
<1>12. CASE FinishJournalLink
  BY <1>12 DEF FinishJournalLink, WritePhase, TypeOK, StoreTypeOK, Journals
<1>13. CASE FinishRegister
  BY <1>13 DEF FinishRegister, SaveRegistry, TypeOK, StoreTypeOK, Journals
<1>14. CASE FinishJournalRegistry
  BY <1>14 DEF FinishJournalRegistry, WritePhase, TypeOK, StoreTypeOK, Journals
<1>15. CASE FinishDropCheck
  BY <1>15 DEF FinishDropCheck, TypeOK, StoreTypeOK, Journals
<1>16. CASE FinishDropCut
  BY <1>16 DEF FinishDropCut, ShrinkBackup, TypeOK, StoreTypeOK, Journals
<1>17. CASE FinishDropped
  BY <1>17 DEF FinishDropped, ShrinkBackup, TypeOK, StoreTypeOK, Journals
<1> QED
  BY <1>1, <1>2, <1>3, <1>4, <1>5, <1>6, <1>7, <1>8, <1>9, <1>10, <1>11, <1>12, <1>13, <1>14, <1>15, <1>16, <1>17 DEF Finish

LEMMA RecoverKeeps ==
  ASSUME Kept, Recover
  PROVE  Kept'
<1>1. TypeOK'
  BY RecoverTyped DEF Kept
<1> QED
  BY <1>1 DEF Kept, HasDigest, NothingLost, UnownedIsLocal, RollbackUnowned,
     Checked, CheckedSteps, Handed, HandedSteps, DropReady, DropSteps, Recover,
     disk, records

LEMMA FaultKeeps ==
  ASSUME Kept, Fault
  PROVE  Kept'
<1>0. TypeOK /\ TypeOK'
  BY FaultTyped DEF Kept
<1> USE StoreAssumption, <1>0
    DEF Kept, HasDigest, NothingLost, UnownedIsLocal, RollbackUnowned, Checked,
        CheckedSteps, Handed, HandedSteps, DropReady, DropSteps, Goto, Return, prog, disk, records
<1>1. CASE IOError
  BY <1>1 DEF IOError, Fail, Block
<1>2. CASE PlanUnsynced
  BY <1>2 DEF PlanUnsynced, Plan, Publishable
<1>3. CASE Crash
  BY <1>3 DEF Crash
<1> QED
  BY <1>1, <1>2, <1>3 DEF Fault

LEMMA EnvironmentKeeps ==
  ASSUME Kept, Environment, Trusted
  PROVE  Kept'
<1>0. TypeOK /\ TypeOK'
  BY EnvironmentTyped DEF Kept
<1> USE StoreAssumption, <1>0
    DEF Kept, HasDigest, NothingLost, UnownedIsLocal, RollbackUnowned, Checked,
        CheckedSteps, Handed, HandedSteps, DropReady, DropSteps, TypeOK, StoreTypeOK, prog, disk,
        records, Trusted
<1>1. CASE LateWrite
  BY <1>1 DEF LateWrite, WriteBackup
<1>2. CASE Outside /\ UNCHANGED prog
  <2>1. CASE UserWrite
    BY <1>2, <2>1 DEF UserWrite
  <2>2. CASE UserCreate
    BY <1>2, <2>2 DEF UserCreate
  <2>3. CASE UserDiscard
    BY <1>2, <2>3 DEF UserDiscard
  <2>4. CASE TamperStage
    BY <1>2, <2>4 DEF TamperStage
  <2>5. CASE OutsideTarget
    BY <1>2, <2>5 DEF OutsideTarget
  <2>6. CASE EditTarget
    BY <1>2, <2>6 DEF EditTarget
  <2>7. CASE DeleteTarget
    BY <1>2, <2>7 DEF DeleteTarget
  <2>8. CASE OutsideLink
    BY <1>2, <2>8 DEF OutsideLink
  <2>9. CASE Reauthorize
    BY <1>2, <2>9 DEF Reauthorize
  <2> QED
    BY <1>2, <2>1, <2>2, <2>3, <2>4, <2>5, <2>6, <2>7, <2>8, <2>9 DEF Outside
<1> QED
  BY <1>1, <1>2 DEF Environment

LEMMA KeptInvariant ==
  ASSUME Trusted
  PROVE  Spec => []Kept
<1>1. Init => Kept
  BY InitTyped
  DEF Init, StoreInit, Kept, HasDigest, NothingLost, UnownedIsLocal,
      RollbackUnowned, Checked, CheckedSteps, Handed, HandedSteps, DropReady,
      DropSteps
<1>2. Kept /\ [Next]_vars => Kept'
  <2> SUFFICES ASSUME Kept, [Next]_vars PROVE Kept'
    OBVIOUS
  <2>1. CASE Next
    BY <2>1, PromoteKeeps, RollbackKeeps, RecoverKeeps, FinishKeeps,
       FaultKeeps, EnvironmentKeeps DEF Next, Publisher
  <2>2. CASE UNCHANGED vars
    BY <2>2 DEF vars, disk, records, prog, Kept, TypeOK, StoreTypeOK,
       HasDigest, NothingLost, UnownedIsLocal, RollbackUnowned, Checked,
       Handed, DropReady
  <2> QED
    BY <2>1, <2>2
<1> QED
  BY <1>1, <1>2, PTL DEF Spec

(* A version its author wrote and has not given up is the source, the       *)
(* parked backup or the canonical package at every moment of a promotion,   *)
(* its rollback and its recovery, under crashes, failed calls and every     *)
(* outsider, save those that recovery does not withstand: one that writes   *)
(* into the parked package after it was rehashed, and one that changes the  *)
(* stage or creates the canonical package after recovery checked them.      *)
THEOREM NothingIsLost ==
  ASSUME Trusted
  PROVE  Spec => []NothingLost
<1>1. Kept => NothingLost
  BY DEF Kept
<1> QED
  BY <1>1, KeptInvariant, PTL

===============================================================================
