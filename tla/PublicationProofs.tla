-------------------------- MODULE PublicationProofs --------------------------
(***************************************************************************)
(* More theorems about promotion and its recovery: what a transaction      *)
(* leaves behind, what the registry comes to own and that it keeps it,     *)
(* that the whole of it is one handover, and that an undone one leaves     *)
(* nothing of its own and touches nothing of others.                       *)
(***************************************************************************)
EXTENDS PromotionProofs

(* The steps of the publisher by what they do. *)
Planning == Begin \/ PlanUnsynced

Staging == ReadSource \/ StartCopy \/ FinishCopy \/ Unstage \/ Unstaged

Journaling ==
    \/ Replan \/ JournalStaged \/ JournalParked \/ JournalTarget
    \/ JournalLink \/ JournalAdapters \/ JournalRegistry \/ JournalCommitted
    \/ FinishJournalLink \/ FinishJournalRegistry

Moving == Park \/ Rehash \/ Unpark \/ Commit \/ Verify

Linking == Link \/ FinishLink

Unlinking == RollbackLinks \/ FinishUnlink

Registering == Register \/ FinishRegister

Dropping ==
    \/ DropCheck \/ DropCut \/ Dropped \/ FinishDropCheck \/ FinishDropCut
    \/ FinishDropped

Undoing == Handle \/ RollbackCheck \/ RollbackTarget

Restoring == RollbackBackup \/ FinishUnpark

Ending == DiscardStage \/ StageDiscarded \/ EndClear \/ Clear

Resuming == Recover \/ FinishCheck \/ FinishDrift

Choosing ==
    \/ FinishStaged \/ FinishSource \/ FinishBackup \/ FinishCommit
    \/ FinishFromBackup \/ FinishTarget

Failing == IOError \/ Crash

(* Every step is of one of these kinds. *)
LEMMA Kinds ==
  ASSUME Next
  PROVE  \/ Planning \/ Staging \/ Journaling \/ Moving \/ Linking
         \/ Unlinking \/ Registering \/ Dropping \/ Undoing \/ Restoring
         \/ Ending \/ Resuming \/ Choosing \/ Failing \/ Environment
  BY DEF Next, Publisher, Promote, Rollback, Finish, Fault, Planning, Staging,
     Journaling, Moving, Linking, Unlinking, Registering, Dropping, Undoing,
     Restoring, Ending, Resuming, Choosing, Failing

LEMMA PublisherKinds ==
  ASSUME Publisher
  PROVE  \/ Planning \/ Staging \/ Journaling \/ Moving \/ Linking
         \/ Unlinking \/ Registering \/ Dropping \/ Undoing \/ Restoring
         \/ Ending \/ Resuming \/ Choosing
  BY DEF Publisher, Promote, Rollback, Finish, Planning, Staging, Journaling,
     Moving, Linking, Unlinking, Registering, Dropping, Undoing, Restoring,
     Ending, Resuming, Choosing

-----------------------------------------------------------------------------
(* Nothing hidden outlives its journal.                                    *)

(* Whoever is at work has a journal, in memory and on disk.                *)
Underway ==
    /\ journal # NoJournal => journal.phase # "none"
    /\ pc # "idle" => journal # NoJournal /\ mem.phase # "none"
    /\ pc \in {"fin_check"} \cup CheckedSteps => mem = journal

(* Where nothing is parked, and where nothing is staged.                   *)
Unparked ==
    {"digest", "w_planned", "copy", "copying", "w_staged", "park", "unstage",
     "unstaging", "w_committed", "clear"} \cup EndSteps

Unstaging ==
    {"digest", "w_planned", "copy", "verify", "w_target", "link", "w_link",
     "w_adapters", "register", "w_registry", "drop", "drop_cut", "dropping",
     "w_committed", "clear", "fin_unlink", "fin_unpark", "end_clear"}

Swept ==
    /\ pc \in Unparked => backup = None
    /\ pc \in Unstaging => stage = None

Cleanly == TypeOK /\ Underway /\ Swept /\ NoHiddenOrphans

(* Every step preserves Cleanly. *)
LEMMA CleanStep ==
  ASSUME Cleanly, Next
  PROVE  Cleanly'
<1>0. TypeOK /\ TypeOK'
  BY StepTyped DEF Cleanly
<1> USE StoreAssumption, <1>0
    DEF Cleanly, Underway, CheckedSteps, Swept, NoHiddenOrphans, Unparked,
        Unstaging, EndSteps, NoJournal, Fail, Block, Goto, Return, Moves, prog, disk,
        records, TypeOK, StoreTypeOK, Journals, Place
<1>1. CASE Planning
  BY <1>1 DEF Planning, Begin, Plan, Barred, Publishable, PlanUnsynced, Phases
<1>2. CASE Staging
  BY <1>2 DEF Staging, ReadSource, StartCopy, FinishCopy, Staged, Unstage,
     StageIntact, Unstaged, AttemptsLeft
<1>3. CASE Journaling
  BY <1>3 DEF Journaling, Replan, WritePhase, JournalStaged, JournalParked,
     JournalTarget, JournalLink, JournalAdapters, JournalRegistry,
     JournalCommitted, FinishJournalLink, FinishJournalRegistry
<1>4. CASE Moving
  BY <1>4 DEF Moving, Park, Rehash, ParkedIntact, Unpark, Commit, Verify
<1>5. CASE Linking
  BY <1>5 DEF Linking, Link, MakeLink, FinishLink, LinkProved
<1>6. CASE Unlinking
  BY <1>6 DEF Unlinking, RollbackLinks, RemoveLinks, FinishUnlink
<1>7. CASE Registering
  BY <1>7 DEF Registering, Register, SaveRegistry, FinishRegister
<1>8. CASE Dropping
  BY <1>8 DEF Dropping, DropCheck, DropCut, ShrinkBackup, Dropped,
     FinishDropCheck, Differs, FinishDropCut, FinishDropped
<1>9. CASE Undoing
  BY <1>9 DEF Undoing, Handle, Durable, RollbackCheck, RollbackRefused,
     Differs, RollbackTarget
<1>10. CASE Restoring
  BY <1>10 DEF Restoring, RollbackBackup, RestoreBackup, FinishUnpark
<1>11. CASE Ending
  BY <1>11 DEF Ending, DiscardStage, StageIntact, StageDiscarded, EndClear,
     ClearJournal, Clear
<1>12. CASE Resuming
  BY <1>12 DEF Resuming, Recover, FinishCheck, Finishable, Drifted,
     FinishRefused, Ambiguous, Differs, FinishDrift
<1>13. CASE Choosing
  BY <1>13 DEF Choosing, FinishStaged, OnlySource, Differs, FinishSource,
     FinishBackup, FinishCommit, FinishFromBackup, FinishTarget
<1>14. CASE Failing
  BY <1>14 DEF Failing, IOError, Crash
<1>15. CASE Environment
  BY <1>15 DEF Environment, LateWrite, WriteBackup, Outside, UserWrite,
     UserCreate, UserDiscard, TamperStage, OutsideTarget, EditTarget,
     DeleteTarget, OutsideLink, Reauthorize
<1> QED
  BY Kinds, <1>1, <1>2, <1>3, <1>4, <1>5, <1>6, <1>7, <1>8, <1>9, <1>10,
     <1>11, <1>12, <1>13, <1>14, <1>15

(* When the journal of a promotion is gone, so are its stage and its        *)
(* backup, whatever crashes, fails or interferes.                          *)
THEOREM NothingHiddenRemains == Spec => []NoHiddenOrphans
<1>1. Init => Cleanly
  BY InitTyped
  DEF Init, StoreInit, Cleanly, Underway, CheckedSteps, Swept,
      NoHiddenOrphans, Unparked, Unstaging, EndSteps
<1>2. Cleanly /\ [Next]_vars => Cleanly'
  <2>1. Cleanly /\ UNCHANGED vars => Cleanly'
    BY DEF vars, disk, records, prog, Cleanly, TypeOK, StoreTypeOK, Underway,
           Swept, NoHiddenOrphans
  <2> QED
    BY <2>1, CleanStep
<1>3. Cleanly => NoHiddenOrphans
  BY DEF Cleanly
<1> QED
  BY <1>1, <1>2, <1>3, PTL DEF Spec

-----------------------------------------------------------------------------
(* Registration is the point of no return.                                 *)

(* From the verified commit to the registration.                           *)
Committed ==
    {"w_target", "link", "w_link", "w_adapters", "register", "fin_link",
     "fin_w_link", "fin_register"}

(* Where the registry does not own the skill yet, or no longer.            *)
Unregistered ==
    (PromoteSteps \ {"w_registry", "drop", "drop_cut", "dropping",
                     "w_committed", "clear"})
    \cup {"rb_links", "rb_target", "rb_backup", "fin_drift", "fin_unlink",
          "fin_unpark"}

(* What is registered, or about to be, is at the target, unless somebody   *)
(* wrote into the backup that a recovery then put there.                   *)
Ownership ==
    /\ pc \in Unregistered => registry = None
    /\ pc \in CheckedSteps \cup {"fin_link", "fin_w_link", "fin_register"} =>
          registry \in {None, mem.digest}
    /\ pc \in Committed \cup CheckedSteps =>
          target \in {None, mem.digest} \/ backup = None
    /\ registry # None => target \in {None, registry} \/ backup = None
    /\ pc \in CheckedSteps => stage \in {None, mem.digest}
    /\ pc \in {"drop_cut", "fin_drop_cut"} => backup # None

(* Recovery commits the backup only when others delete the target, and     *)
(* without old handles it is the version that was checked.                 *)
Restorable ==
    /\ "delete" \notin Outsiders =>
          /\ pc \in Committed => target # None
          /\ registry # None => target # None
          /\ pc # "fin_restore"
    /\ "stale" \notin Outsiders =>
          /\ pc \in CheckedSteps => backup \in {None, mem.digest}
          /\ pc \in Committed \cup CheckedSteps => target \in {None, mem.digest}
          /\ registry # None => target \in {None, registry}

Owning == TypeOK /\ HasDigest /\ Ownership /\ Restorable

(* Every step preserves Owning. *)
LEMMA OwningStep ==
  ASSUME Owning, Next, Outsiders \cap {"target", "edit", "tamper"} = {}
  PROVE  Owning'
<1>0. TypeOK /\ TypeOK'
  BY StepTyped DEF Owning
<1> USE StoreAssumption, <1>0
    DEF Owning, HasDigest, Ownership, Restorable, Committed, CheckedSteps,
        Unregistered, NoJournal, PromoteSteps, Fail, Block, Goto, Return, Moves, prog, disk, records, TypeOK, StoreTypeOK,
        Journals, Place
<1>1. CASE Planning
  BY <1>1 DEF Planning, Begin, Plan, Barred, Publishable, PlanUnsynced, Phases
<1>2. CASE Staging
  BY <1>2 DEF Staging, ReadSource, StartCopy, FinishCopy, Staged, Unstage,
     StageIntact, Unstaged, AttemptsLeft
<1>3. CASE Journaling
  BY <1>3 DEF Journaling, Replan, WritePhase, JournalStaged, JournalParked,
     JournalTarget, JournalLink, JournalAdapters, JournalRegistry,
     JournalCommitted, FinishJournalLink, FinishJournalRegistry
<1>4. CASE Moving
  BY <1>4 DEF Moving, Park, Rehash, ParkedIntact, Unpark, Commit, Verify
<1>5. CASE Linking
  BY <1>5 DEF Linking, Link, MakeLink, FinishLink, LinkProved
<1>6. CASE Unlinking
  BY <1>6 DEF Unlinking, RollbackLinks, RemoveLinks, FinishUnlink
<1>7. CASE Registering
  BY <1>7 DEF Registering, Register, SaveRegistry, FinishRegister
<1>8. CASE Dropping
  BY <1>8 DEF Dropping, DropCheck, DropCut, ShrinkBackup, Dropped,
     FinishDropCheck, Differs, FinishDropCut, FinishDropped
<1>9. CASE Undoing
  BY <1>9 DEF Undoing, Handle, Durable, RollbackCheck, RollbackRefused,
     Differs, RollbackTarget
<1>10. CASE Restoring
  BY <1>10 DEF Restoring, RollbackBackup, RestoreBackup, FinishUnpark
<1>11. CASE Ending
  BY <1>11 DEF Ending, DiscardStage, StageIntact, StageDiscarded, EndClear,
     ClearJournal, Clear
<1>12. CASE Resuming
  BY <1>12 DEF Resuming, Recover, FinishCheck, Finishable, Drifted,
     FinishRefused, Ambiguous, Differs, FinishDrift
<1>13. CASE Choosing
  BY <1>13 DEF Choosing, FinishStaged, OnlySource, Differs, FinishSource,
     FinishBackup, FinishCommit, FinishFromBackup, FinishTarget
<1>14. CASE Failing
  BY <1>14 DEF Failing, IOError, Crash
<1>15. CASE Environment
  BY <1>15 DEF Environment, LateWrite, WriteBackup, Outside, UserWrite,
     UserCreate, UserDiscard, TamperStage, OutsideTarget, EditTarget,
     DeleteTarget, OutsideLink, Reauthorize
<1> QED
  BY Kinds, <1>1, <1>2, <1>3, <1>4, <1>5, <1>6, <1>7, <1>8, <1>9, <1>10,
     <1>11, <1>12, <1>13, <1>14, <1>15

(* What PointOfNoReturn says of one step. *)
LEMMA KeepingStep ==
  ASSUME Owning, Next, registry # None
  PROVE  /\ registry' = registry
         /\ ~(Moves(backup, source) /\ source' = backup /\ backup' = None)
<1>0. TypeOK /\ TypeOK'
  BY StepTyped DEF Owning
<1> USE StoreAssumption, <1>0
    DEF Owning, HasDigest, Ownership, Restorable, Committed, CheckedSteps,
        Unregistered, NoJournal, PromoteSteps, Fail, Block, Goto, Return, Moves, prog, disk, records, TypeOK, StoreTypeOK,
        Journals, Place
<1>1. CASE Planning
  BY <1>1 DEF Planning, Begin, Plan, Barred, Publishable, PlanUnsynced, Phases
<1>2. CASE Staging
  BY <1>2 DEF Staging, ReadSource, StartCopy, FinishCopy, Staged, Unstage,
     StageIntact, Unstaged, AttemptsLeft
<1>3. CASE Journaling
  BY <1>3 DEF Journaling, Replan, WritePhase, JournalStaged, JournalParked,
     JournalTarget, JournalLink, JournalAdapters, JournalRegistry,
     JournalCommitted, FinishJournalLink, FinishJournalRegistry
<1>4. CASE Moving
  BY <1>4 DEF Moving, Park, Rehash, ParkedIntact, Unpark, Commit, Verify
<1>5. CASE Linking
  BY <1>5 DEF Linking, Link, MakeLink, FinishLink, LinkProved
<1>6. CASE Unlinking
  BY <1>6 DEF Unlinking, RollbackLinks, RemoveLinks, FinishUnlink
<1>7. CASE Registering
  BY <1>7 DEF Registering, Register, SaveRegistry, FinishRegister
<1>8. CASE Dropping
  BY <1>8 DEF Dropping, DropCheck, DropCut, ShrinkBackup, Dropped,
     FinishDropCheck, Differs, FinishDropCut, FinishDropped
<1>9. CASE Undoing
  BY <1>9 DEF Undoing, Handle, Durable, RollbackCheck, RollbackRefused,
     Differs, RollbackTarget
<1>10. CASE Restoring
  BY <1>10 DEF Restoring, RollbackBackup, RestoreBackup, FinishUnpark
<1>11. CASE Ending
  BY <1>11 DEF Ending, DiscardStage, StageIntact, StageDiscarded, EndClear,
     ClearJournal, Clear
<1>12. CASE Resuming
  BY <1>12 DEF Resuming, Recover, FinishCheck, Finishable, Drifted,
     FinishRefused, Ambiguous, Differs, FinishDrift
<1>13. CASE Choosing
  BY <1>13 DEF Choosing, FinishStaged, OnlySource, Differs, FinishSource,
     FinishBackup, FinishCommit, FinishFromBackup, FinishTarget
<1>14. CASE Failing
  BY <1>14 DEF Failing, IOError, Crash
<1>15. CASE Environment
  BY <1>15 DEF Environment, LateWrite, WriteBackup, Outside, UserWrite,
     UserCreate, UserDiscard, TamperStage, OutsideTarget, EditTarget,
     DeleteTarget, OutsideLink, Reauthorize
<1> QED
  BY Kinds, <1>1, <1>2, <1>3, <1>4, <1>5, <1>6, <1>7, <1>8, <1>9, <1>10,
     <1>11, <1>12, <1>13, <1>14, <1>15

(* Unless others put a package at the target or change the stage, once the  *)
(* registry owns the skill no rollback and no recovery disowns it or        *)
(* restores the source: what fails after registration is only ever          *)
(* completed.                                                               *)
THEOREM RegisteredForGood ==
  ASSUME Outsiders \cap {"target", "edit", "tamper"} = {}
  PROVE  Spec => PointOfNoReturn
<1>1. Init => Owning
  BY InitTyped
  DEF Init, StoreInit, Owning, HasDigest, Ownership, Restorable,
      Unregistered, PromoteSteps, Committed, CheckedSteps
<1>2. Owning /\ [Next]_vars => Owning'
  <2>1. Owning /\ UNCHANGED vars => Owning'
    BY DEF vars, disk, records, prog, Owning, HasDigest, TypeOK, StoreTypeOK,
           Ownership, Restorable
  <2> QED
    BY <2>1, OwningStep
<1>3. ASSUME Owning, [Next]_vars, registry # None
      PROVE  /\ registry' = registry
             /\ ~(Moves(backup, source) /\ source' = backup /\ backup' = None)
  <2>1. CASE UNCHANGED vars
    BY <2>1 DEF vars, disk, records, Moves
  <2> QED
    BY <1>3, <2>1, KeepingStep
<1>4. Owning /\ [Next]_vars =>
        [registry # None =>
          /\ registry' = registry
          /\ ~(Moves(backup, source) /\ source' = backup /\ backup' = None)]_vars
  BY <1>3
<1> QED
  BY <1>1, <1>2, <1>4, PTL DEF Spec, PointOfNoReturn

-----------------------------------------------------------------------------
(* Registration comes last.                                                *)

LinkSteps == {"link", "w_link", "fin_link", "fin_w_link"}

Linked(a) == TextMatches(a) /\ a \in mem.created

Progress ==
    /\ pc \in CheckedSteps => target \in {None, mem.digest}
    /\ pc \in Committed => target = mem.digest
    /\ pc = "w_target" => todo = Adapters
    /\ pc \in LinkSteps => \A a \in Adapters \ todo : Linked(a)
    /\ pc \in {"w_adapters", "register", "fin_register"} =>
          \A a \in Adapters : Linked(a)
    /\ pc = "fin_link" => mem = journal
    /\ pc \in {"register", "fin_register"} => journal.created = mem.created

Linkable == Cleanly /\ Owning /\ Progress

(* Every step preserves Linkable. *)
LEMMA LinkableStep ==
  ASSUME Linkable, Next, Outsiders \cap {"edit", "delete", "tamper", "target"} = {}
  PROVE  Linkable'
<1>0. TypeOK /\ TypeOK'
  BY StepTyped DEF Linkable, Cleanly
<1>u. Cleanly /\ Cleanly'
  BY CleanStep DEF Linkable
<1>w. Owning /\ Owning'
  BY OwningStep DEF Linkable
<1> USE StoreAssumption, <1>0, <1>u, <1>w
    DEF Linkable, Cleanly, Owning, HasDigest, Ownership, Restorable, CheckedSteps,
        Underway, Progress, Committed,
        LinkSteps, Linked, TextMatches, NoJournal, Fail, Block, Goto, Return,
        Moves, prog, disk, records, TypeOK, StoreTypeOK, Journals, Place
<1>1. CASE Planning
  BY <1>1 DEF Planning, Begin, Plan, Barred, Publishable, PlanUnsynced, Phases
<1>2. CASE Staging
  BY <1>2 DEF Staging, ReadSource, StartCopy, FinishCopy, Staged, Unstage,
     StageIntact, Unstaged, AttemptsLeft
<1>3. CASE Journaling
  BY <1>3 DEF Journaling, Replan, WritePhase, JournalStaged, JournalParked,
     JournalTarget, JournalLink, JournalAdapters, JournalRegistry,
     JournalCommitted, FinishJournalLink, FinishJournalRegistry
<1>4. CASE Moving
  BY <1>4 DEF Moving, Park, Rehash, ParkedIntact, Unpark, Commit, Verify
<1>5. CASE Linking
  BY <1>5 DEF Linking, Link, MakeLink, FinishLink, LinkProved
<1>6. CASE Unlinking
  BY <1>6 DEF Unlinking, RollbackLinks, RemoveLinks, FinishUnlink
<1>7. CASE Registering
  BY <1>7 DEF Registering, Register, SaveRegistry, FinishRegister
<1>8. CASE Dropping
  BY <1>8 DEF Dropping, DropCheck, DropCut, ShrinkBackup, Dropped,
     FinishDropCheck, Differs, FinishDropCut, FinishDropped
<1>9. CASE Undoing
  BY <1>9 DEF Undoing, Handle, Durable, RollbackCheck, RollbackRefused,
     Differs, RollbackTarget
<1>10. CASE Restoring
  BY <1>10 DEF Restoring, RollbackBackup, RestoreBackup, FinishUnpark
<1>11. CASE Ending
  BY <1>11 DEF Ending, DiscardStage, StageIntact, StageDiscarded, EndClear,
     ClearJournal, Clear
<1>12. CASE Resuming
  BY <1>12 DEF Resuming, Recover, FinishCheck, Finishable, Drifted,
     FinishRefused, Ambiguous, Differs, FinishDrift
<1>13. CASE Choosing
  BY <1>13 DEF Choosing, FinishStaged, OnlySource, Differs, FinishSource,
     FinishBackup, FinishCommit, FinishFromBackup, FinishTarget
<1>14. CASE Failing
  BY <1>14 DEF Failing, IOError, Crash
<1>15. CASE Environment
  BY <1>15 DEF Environment, LateWrite, WriteBackup, Outside, UserWrite,
     UserCreate, UserDiscard, TamperStage, OutsideTarget, EditTarget,
     DeleteTarget, OutsideLink, Reauthorize
<1> QED
  BY Kinds, <1>1, <1>2, <1>3, <1>4, <1>5, <1>6, <1>7, <1>8, <1>9, <1>10,
     <1>11, <1>12, <1>13, <1>14, <1>15

(* The registry changes in two steps only. *)
LEMMA RegistryStep ==
  ASSUME Cleanly, Next
  PROVE  registry' = registry \/ Registering
<1>0. TypeOK /\ TypeOK'
  BY StepTyped DEF Cleanly
<1> USE StoreAssumption, <1>0
    DEF Cleanly, Underway, Fail, Block, Goto, Return, Moves, prog, disk,
        records, TypeOK, StoreTypeOK, Journals, Place
<1>1. CASE Planning
  BY <1>1 DEF Planning, Begin, Plan, Barred, Publishable, PlanUnsynced, Phases
<1>2. CASE Staging
  BY <1>2 DEF Staging, ReadSource, StartCopy, FinishCopy, Staged, Unstage,
     StageIntact, Unstaged, AttemptsLeft
<1>3. CASE Journaling
  BY <1>3 DEF Journaling, Replan, WritePhase, JournalStaged, JournalParked,
     JournalTarget, JournalLink, JournalAdapters, JournalRegistry,
     JournalCommitted, FinishJournalLink, FinishJournalRegistry
<1>4. CASE Moving
  BY <1>4 DEF Moving, Park, Rehash, ParkedIntact, Unpark, Commit, Verify
<1>5. CASE Linking
  BY <1>5 DEF Linking, Link, MakeLink, FinishLink, LinkProved
<1>6. CASE Unlinking
  BY <1>6 DEF Unlinking, RollbackLinks, RemoveLinks, FinishUnlink
<1>7. CASE Registering
  BY <1>7 DEF Registering, Register, SaveRegistry, FinishRegister
<1>8. CASE Dropping
  BY <1>8 DEF Dropping, DropCheck, DropCut, ShrinkBackup, Dropped,
     FinishDropCheck, Differs, FinishDropCut, FinishDropped
<1>9. CASE Undoing
  BY <1>9 DEF Undoing, Handle, Durable, RollbackCheck, RollbackRefused,
     Differs, RollbackTarget
<1>10. CASE Restoring
  BY <1>10 DEF Restoring, RollbackBackup, RestoreBackup, FinishUnpark
<1>11. CASE Ending
  BY <1>11 DEF Ending, DiscardStage, StageIntact, StageDiscarded, EndClear,
     ClearJournal, Clear
<1>12. CASE Resuming
  BY <1>12 DEF Resuming, Recover, FinishCheck, Finishable, Drifted,
     FinishRefused, Ambiguous, Differs, FinishDrift
<1>13. CASE Choosing
  BY <1>13 DEF Choosing, FinishStaged, OnlySource, Differs, FinishSource,
     FinishBackup, FinishCommit, FinishFromBackup, FinishTarget
<1>14. CASE Failing
  BY <1>14 DEF Failing, IOError, Crash
<1>15. CASE Environment
  BY <1>15 DEF Environment, LateWrite, WriteBackup, Outside, UserWrite,
     UserCreate, UserDiscard, TamperStage, OutsideTarget, EditTarget,
     DeleteTarget, OutsideLink, Reauthorize
<1> QED
  BY Kinds, <1>1, <1>2, <1>3, <1>4, <1>5, <1>6, <1>7, <1>8, <1>9, <1>10,
     <1>11, <1>12, <1>13, <1>14, <1>15

LEMMA LinkableInvariant ==
  ASSUME Outsiders \cap {"edit", "delete", "tamper", "target"} = {}
  PROVE  Spec => []Linkable
<1>1. Init => Linkable
  BY InitTyped
  DEF Init, StoreInit, Linkable, Cleanly, Underway, Swept, NoHiddenOrphans,
      Unparked, Unstaging, EndSteps, Owning, HasDigest, Ownership, Restorable,
      Unregistered, PromoteSteps, CheckedSteps, Progress, Committed,
      LinkSteps
<1>2. Linkable /\ [Next]_vars => Linkable'
  <2>1. Linkable /\ UNCHANGED vars => Linkable'
    BY DEF vars, disk, records, prog, Linkable, Cleanly, TypeOK, StoreTypeOK,
           Underway, Swept, NoHiddenOrphans, Owning, HasDigest, Ownership, Restorable,
           Progress,  Linked, TextMatches
  <2> QED
    BY <2>1, LinkableStep
<1> QED
  BY <1>1, <1>2, PTL DEF Spec

(* Unless others touch the canonical package or the stage, the registry     *)
(* takes it when it is committed, every adapter shows it and the durable    *)
(* journal proves every link, in promote and in a recovery after any crash. *)
THEOREM OnlyCompleteRegistered ==
  ASSUME Outsiders \cap {"edit", "delete", "tamper", "target"} = {}
  PROVE  Spec => RegistersComplete
<1>1. ASSUME Linkable, [Next]_vars, registry' # registry
      PROVE  /\ target = registry'
             /\ journal.created = Adapters
             /\ \A a \in Adapters : TextMatches(a)
  <2>1. Registering
    <3>1. UNCHANGED vars => registry' = registry
      BY DEF vars, records
    <3> QED
      BY <1>1, <3>1, RegistryStep DEF Linkable
  <2>2. /\ pc \in {"register", "fin_register"}
        /\ registry' = mem.digest
    BY <2>1 DEF Registering, Register, FinishRegister, SaveRegistry
  <2>3. journal.created \subseteq Adapters
    BY <1>1 DEF Linkable, Cleanly, TypeOK, StoreTypeOK, Journals
  <2> QED
    BY <1>1, <2>2, <2>3 DEF Linkable, Progress, Committed, Linked
<1>2. Linkable /\ [Next]_vars =>
        [registry' # registry =>
          /\ target = registry'
          /\ journal.created = Adapters
          /\ \A a \in Adapters : TextMatches(a)]_vars
  BY <1>1
<1> QED
  BY <1>2, LinkableInvariant, PTL DEF Spec, RegistersComplete

-----------------------------------------------------------------------------
(* Only what was validated is exposed and owned.                           *)

(* Where the version in memory has been validated.                         *)
Validated ==
    {"w_staged", "park", "w_parked", "rehash", "commit", "verify", "w_target",
     "link", "w_link", "w_adapters", "register", "w_registry", "drop",
     "drop_cut", "dropping", "w_committed", "fin_link", "fin_w_link",
     "fin_register", "fin_w_registry", "fin_drop"}

(* A package is parked only when the durable journal names a valid one:    *)
(* that is what recovery goes by.                                          *)
Vetted ==
    /\ pc \in Validated => mem.digest \in Shared
    /\ pc \in {"park", "drop_cut", "fin_drop_cut"} \/ backup # None =>
          journal.digest \in Shared
    /\ pc \in {"fin_commit", "fin_restore"} => mem.digest \in Shared
    /\ pc \in CheckedSteps /\ target # None => mem.digest \in Shared
    /\ registry \in Shared \cup {None}

Untampered ==
    /\ pc \in {"w_staged", "park", "w_parked", "rehash", "commit"} =>
          stage = mem.digest
    /\ maker = "publisher"

Valid == Cleanly /\ Owning /\ Vetted /\ Untampered /\ OnlySharedPublished

(* Every step preserves Valid. *)
LEMMA ValidStep ==
  ASSUME Valid, Next, Outsiders \cap {"target", "edit", "tamper"} = {},
         "stale" \notin Outsiders \/ "delete" \notin Outsiders
  PROVE  Valid'
<1>0. TypeOK /\ TypeOK'
  BY StepTyped DEF Valid, Cleanly
<1>u. Cleanly /\ Cleanly'
  BY CleanStep DEF Valid
<1>w. Owning /\ Owning'
  BY OwningStep DEF Valid
<1> USE StoreAssumption, <1>0, <1>u, <1>w
    DEF Valid, Cleanly, Owning, HasDigest, Ownership, Restorable, CheckedSteps, Underway, Swept, Unparked, EndSteps, Vetted,
        Untampered, Validated, OnlySharedPublished, Foreign, NoJournal, Fail,
        Block, Goto, Return, Moves, prog, disk, records, TypeOK, StoreTypeOK,
        Journals, Place
<1>1. CASE Planning
  BY <1>1 DEF Planning, Begin, Plan, Barred, Publishable, PlanUnsynced, Phases
<1>2. CASE Staging
  BY <1>2 DEF Staging, ReadSource, StartCopy, FinishCopy, Staged, Unstage,
     StageIntact, Unstaged, AttemptsLeft
<1>3. CASE Journaling
  BY <1>3 DEF Journaling, Replan, WritePhase, JournalStaged, JournalParked,
     JournalTarget, JournalLink, JournalAdapters, JournalRegistry,
     JournalCommitted, FinishJournalLink, FinishJournalRegistry
<1>4. CASE Moving
  BY <1>4 DEF Moving, Park, Rehash, ParkedIntact, Unpark, Commit, Verify
<1>5. CASE Linking
  BY <1>5 DEF Linking, Link, MakeLink, FinishLink, LinkProved
<1>6. CASE Unlinking
  BY <1>6 DEF Unlinking, RollbackLinks, RemoveLinks, FinishUnlink
<1>7. CASE Registering
  BY <1>7 DEF Registering, Register, SaveRegistry, FinishRegister
<1>8. CASE Dropping
  BY <1>8 DEF Dropping, DropCheck, DropCut, ShrinkBackup, Dropped,
     FinishDropCheck, Differs, FinishDropCut, FinishDropped
<1>9. CASE Undoing
  BY <1>9 DEF Undoing, Handle, Durable, RollbackCheck, RollbackRefused,
     Differs, RollbackTarget
<1>10. CASE Restoring
  BY <1>10 DEF Restoring, RollbackBackup, RestoreBackup, FinishUnpark
<1>11. CASE Ending
  BY <1>11 DEF Ending, DiscardStage, StageIntact, StageDiscarded, EndClear,
     ClearJournal, Clear
<1>12. CASE Resuming
  BY <1>12 DEF Resuming, Recover, FinishCheck, Finishable, Drifted,
     FinishRefused, Ambiguous, Differs, FinishDrift
<1>13. CASE Choosing
  BY <1>13 DEF Choosing, FinishStaged, OnlySource, Differs, FinishSource,
     FinishBackup, FinishCommit, FinishFromBackup, FinishTarget
<1>14. CASE Failing
  BY <1>14 DEF Failing, IOError, Crash
<1>15. CASE Environment
  BY <1>15 DEF Environment, LateWrite, WriteBackup, Outside, UserWrite,
     UserCreate, UserDiscard, TamperStage, OutsideTarget, EditTarget,
     DeleteTarget, OutsideLink, Reauthorize
<1> QED
  BY Kinds, <1>1, <1>2, <1>3, <1>4, <1>5, <1>6, <1>7, <1>8, <1>9, <1>10,
     <1>11, <1>12, <1>13, <1>14, <1>15

(* Unless others write the canonical package or the stage, or delete the    *)
(* one and write through old handles into the backup that recovery puts in  *)
(* its place, the package that is exposed and the one the registry owns are *)
(* valid and of scope shared, also when the source turned private, the      *)
(* process died and the operator changed the authorization in between.      *)
THEOREM OnlySharedExposed ==
  ASSUME Outsiders \cap {"target", "edit", "tamper"} = {},
         "stale" \notin Outsiders \/ "delete" \notin Outsiders
  PROVE  Spec => []OnlySharedPublished
<1>1. Init => Valid
  BY InitTyped
  DEF Init, StoreInit, Valid, Cleanly, Underway, Swept, NoHiddenOrphans,
      Unparked, Unstaging, EndSteps, Owning, HasDigest, Ownership, Restorable,
      Unregistered, PromoteSteps, Committed, CheckedSteps, Vetted, Untampered, Validated,
      OnlySharedPublished
<1>2. Valid /\ [Next]_vars => Valid'
  <2>1. Valid /\ UNCHANGED vars => Valid'
    BY DEF vars, disk, records, prog, Valid, Cleanly, TypeOK, StoreTypeOK,
           Underway, Swept, NoHiddenOrphans, Owning, HasDigest, Ownership, Restorable,
           Vetted, Untampered,
           OnlySharedPublished, Foreign
  <2> QED
    BY <2>1, ValidStep
<1>3. Valid => OnlySharedPublished
  BY DEF Valid
<1> QED
  BY <1>1, <1>2, <1>3, PTL DEF Spec

-----------------------------------------------------------------------------
(* The source goes only when the skill is owned whole.                     *)

(* Where the running operation and the durable journal have one digest.    *)
Agreed == (PromoteSteps \ {"w_planned"}) \cup FinishSteps

OwnedComplete ==
    /\ registry = journal.digest
    /\ target = journal.digest
    /\ \A a \in Adapters : TextMatches(a)

Retained ==
    /\ source # Torn /\ mem.digest # Torn /\ journal.digest # Torn
    /\ backup = Torn \/ pc \in DropSteps => registry # None
    /\ pc \in Agreed => journal.digest = mem.digest
    /\ pc \in Unregistered => registry = None
    /\ journal # NoJournal /\ registry # None => OwnedComplete
    /\ journal # NoJournal /\ registry = None /\ source = None =>
          backup \in Package

Retaining == Linkable /\ Retained

(* Every step preserves Retaining. *)
LEMMA RetainingStep ==
  ASSUME Retaining, Next,
         Outsiders \cap {"discard", "edit", "delete", "tamper", "target"} = {}
  PROVE  Retaining'
<1>0. TypeOK /\ TypeOK'
  BY StepTyped DEF Retaining, Linkable, Cleanly
<1>u. Linkable /\ Linkable'
  BY LinkableStep DEF Retaining
<1> USE StoreAssumption, <1>0, <1>u
    DEF Retaining, Linkable, Cleanly, Owning, HasDigest, Ownership, Restorable,
        CheckedSteps, Underway, Progress, 
        Committed, LinkSteps, Linked, TextMatches, Retained, Agreed,
        OwnedComplete, DropSteps, Unregistered, PromoteSteps, FinishSteps,
        NoJournal, Fail, Block, Goto, Return, Moves, prog, disk, records,
        TypeOK, StoreTypeOK, Journals, Place
<1>1. CASE Planning
  BY <1>1 DEF Planning, Begin, Plan, Barred, Publishable, PlanUnsynced, Phases
<1>2. CASE Staging
  BY <1>2 DEF Staging, ReadSource, StartCopy, FinishCopy, Staged, Unstage,
     StageIntact, Unstaged, AttemptsLeft
<1>3. CASE Journaling
  BY <1>3 DEF Journaling, Replan, WritePhase, JournalStaged, JournalParked,
     JournalTarget, JournalLink, JournalAdapters, JournalRegistry,
     JournalCommitted, FinishJournalLink, FinishJournalRegistry
<1>4. CASE Moving
  BY <1>4 DEF Moving, Park, Rehash, ParkedIntact, Unpark, Commit, Verify
<1>5. CASE Linking
  BY <1>5 DEF Linking, Link, MakeLink, FinishLink, LinkProved
<1>6. CASE Unlinking
  BY <1>6 DEF Unlinking, RollbackLinks, RemoveLinks, FinishUnlink
<1>7. CASE Registering
  BY <1>7 DEF Registering, Register, SaveRegistry, FinishRegister
<1>8. CASE Dropping
  BY <1>8 DEF Dropping, DropCheck, DropCut, ShrinkBackup, Dropped,
     FinishDropCheck, Differs, FinishDropCut, FinishDropped
<1>9. CASE Undoing
  BY <1>9 DEF Undoing, Handle, Durable, RollbackCheck, RollbackRefused,
     Differs, RollbackTarget
<1>10. CASE Restoring
  BY <1>10 DEF Restoring, RollbackBackup, RestoreBackup, FinishUnpark
<1>11. CASE Ending
  BY <1>11 DEF Ending, DiscardStage, StageIntact, StageDiscarded, EndClear,
     ClearJournal, Clear
<1>12. CASE Resuming
  BY <1>12 DEF Resuming, Recover, FinishCheck, Finishable, Drifted,
     FinishRefused, Ambiguous, Differs, FinishDrift
<1>13. CASE Choosing
  BY <1>13 DEF Choosing, FinishStaged, OnlySource, Differs, FinishSource,
     FinishBackup, FinishCommit, FinishFromBackup, FinishTarget
<1>14. CASE Failing
  BY <1>14 DEF Failing, IOError, Crash
<1>15. CASE Environment
  BY <1>15 DEF Environment, LateWrite, WriteBackup, Outside, UserWrite,
     UserCreate, UserDiscard, TamperStage, OutsideTarget, EditTarget,
     DeleteTarget, OutsideLink, Reauthorize
<1> QED
  BY Kinds, <1>1, <1>2, <1>3, <1>4, <1>5, <1>6, <1>7, <1>8, <1>9, <1>10,
     <1>11, <1>12, <1>13, <1>14, <1>15

(* Unless others discard the source or touch the stage or the canonical     *)
(* package, at no crash point is the source gone and not parked whole       *)
(* before the registry owns the journal's version, the target holds it and  *)
(* every adapter shows it.                                                  *)
THEOREM SourceRetained ==
  ASSUME Outsiders \cap {"discard", "edit", "delete", "tamper", "target"} = {}
  PROVE  Spec => []RetainedUntilOwned
<1>1. Init => Retaining
  BY InitTyped, StoreAssumption
  DEF Init, StoreInit, Retaining, Linkable, Cleanly, Underway, Swept,
      NoHiddenOrphans, Unparked, Unstaging, EndSteps, Owning, HasDigest, Ownership, Restorable, CheckedSteps,
      Progress, 
      Committed, LinkSteps, Retained, DropSteps, Agreed, PromoteSteps,
      FinishSteps, Unregistered, NoJournal, TypeOK, StoreTypeOK
<1>2. Retaining /\ [Next]_vars => Retaining'
  <2>1. Retaining /\ UNCHANGED vars => Retaining'
    BY DEF vars, disk, records, prog, Retaining, Linkable, Cleanly, TypeOK,
           StoreTypeOK, Underway, Swept, NoHiddenOrphans, Owning, HasDigest, Ownership,
           Restorable, Progress, 
           Linked, TextMatches, Retained, OwnedComplete
  <2> QED
    BY <2>1, RetainingStep
<1>3. Retaining => RetainedUntilOwned
  BY DEF Retaining, Retained, RetainedUntilOwned, OwnedComplete
<1> QED
  BY <1>1, <1>2, <1>3, PTL DEF Spec

-----------------------------------------------------------------------------
(* A promotion is one handover.                                            *)

(* Unless someone writes through a stale handle, the version about to be    *)
(* registered is the one parked, and what the author would get back is      *)
(* owed to him.                                                             *)
Held ==
    /\ pc \in Committed \cup {"commit", "verify"} /\ registry = None =>
          backup = mem.digest
    /\ \/ pc = "fin_commit"
       \/ pc \in CheckedSteps /\ registry = None /\ target # None
       => backup = mem.digest
    /\ source \in owed \cup {None}
    /\ source = None /\ registry = None /\ backup # None => backup \in owed

Handing == Retaining /\ Vetted /\ Held

(* Who gets between the author and the registry. *)
HandoverOutsiders ==
    {"discard", "edit", "delete", "stale", "tamper", "target"}

(* Every step preserves Handing. *)
LEMMA HandingStep ==
  ASSUME Handing, Next, Outsiders \cap HandoverOutsiders = {}
  PROVE  Handing'
<1>0. TypeOK /\ TypeOK'
  BY StepTyped DEF Handing, Retaining, Linkable, Cleanly
<1>u. Retaining /\ Retaining'
  BY RetainingStep DEF Handing, HandoverOutsiders
<1> USE StoreAssumption, <1>0, <1>u
    DEF Handing, HandoverOutsiders, Retaining, Linkable, Cleanly, Owning, HasDigest,
        Ownership, Restorable, CheckedSteps, Underway, Swept, Unparked,
        EndSteps, Progress, Committed, LinkSteps, Linked,
        TextMatches, Retained, Vetted, Validated, Held, Agreed, OwnedComplete,
        DropSteps, Unregistered, PromoteSteps, FinishSteps, NoJournal, Fail,
        Block, Goto, Return, Moves, prog, disk, records, TypeOK, StoreTypeOK,
        Journals, Place
<1>1. CASE Planning
  BY <1>1 DEF Planning, Begin, Plan, Barred, Publishable, PlanUnsynced, Phases
<1>2. CASE Staging
  BY <1>2 DEF Staging, ReadSource, StartCopy, FinishCopy, Staged, Unstage,
     StageIntact, Unstaged, AttemptsLeft
<1>3. CASE Journaling
  BY <1>3 DEF Journaling, Replan, WritePhase, JournalStaged, JournalParked,
     JournalTarget, JournalLink, JournalAdapters, JournalRegistry,
     JournalCommitted, FinishJournalLink, FinishJournalRegistry
<1>4. CASE Moving
  BY <1>4 DEF Moving, Park, Rehash, ParkedIntact, Unpark, Commit, Verify
<1>5. CASE Linking
  BY <1>5 DEF Linking, Link, MakeLink, FinishLink, LinkProved
<1>6. CASE Unlinking
  BY <1>6 DEF Unlinking, RollbackLinks, RemoveLinks, FinishUnlink
<1>7. CASE Registering
  BY <1>7 DEF Registering, Register, SaveRegistry, FinishRegister
<1>8. CASE Dropping
  BY <1>8 DEF Dropping, DropCheck, DropCut, ShrinkBackup, Dropped,
     FinishDropCheck, Differs, FinishDropCut, FinishDropped
<1>9. CASE Undoing
  BY <1>9 DEF Undoing, Handle, Durable, RollbackCheck, RollbackRefused,
     Differs, RollbackTarget
<1>10. CASE Restoring
  BY <1>10 DEF Restoring, RollbackBackup, RestoreBackup, FinishUnpark
<1>11. CASE Ending
  BY <1>11 DEF Ending, DiscardStage, StageIntact, StageDiscarded, EndClear,
     ClearJournal, Clear
<1>12. CASE Resuming
  BY <1>12 DEF Resuming, Recover, FinishCheck, Finishable, Drifted,
     FinishRefused, Ambiguous, Differs, FinishDrift
<1>13. CASE Choosing
  BY <1>13 DEF Choosing, FinishStaged, OnlySource, Differs, FinishSource,
     FinishBackup, FinishCommit, FinishFromBackup, FinishTarget
<1>14. CASE Failing
  BY <1>14 DEF Failing, IOError, Crash
<1>15. CASE Environment
  BY <1>15 DEF Environment, LateWrite, WriteBackup, Outside, UserWrite,
     UserCreate, UserDiscard, TamperStage, OutsideTarget, EditTarget,
     DeleteTarget, OutsideLink, Reauthorize
<1> QED
  BY Kinds, <1>1, <1>2, <1>3, <1>4, <1>5, <1>6, <1>7, <1>8, <1>9, <1>10,
     <1>11, <1>12, <1>13, <1>14, <1>15

(* Every step is a step of the handover or none. *)
LEMMA HandoverStep ==
  ASSUME Handing, Next, Outsiders \cap HandoverOutsiders = {}
  PROVE  Custody!Handover \/ UNCHANGED <<CustodyLocal, registry, owed>>
<1>0. TypeOK /\ TypeOK'
  BY StepTyped DEF Handing, Retaining, Linkable, Cleanly
<1> USE StoreAssumption, <1>0
    DEF Handing, HandoverOutsiders, Retaining, Linkable, Cleanly, Owning, HasDigest,
        Ownership, Restorable, CheckedSteps, Underway, Swept, Unparked,
        EndSteps, Progress, Committed, LinkSteps, Linked,
        TextMatches, Retained, Vetted, Validated, Held, Agreed, OwnedComplete,
        DropSteps, Unregistered, PromoteSteps, FinishSteps, NoJournal, Fail,
        Block, Goto, Return, Moves, prog, disk, records, TypeOK, StoreTypeOK,
        Journals, Place
<1>1. CASE Planning
  BY <1>1 DEF Planning, Begin, Plan, Barred, Publishable, PlanUnsynced,
     Phases, CustodyLocal
<1>2. CASE Staging
  BY <1>2 DEF Staging, ReadSource, StartCopy, FinishCopy, Staged, Unstage,
     StageIntact, Unstaged, AttemptsLeft, CustodyLocal
<1>3. CASE Journaling
  BY <1>3 DEF Journaling, Replan, WritePhase, JournalStaged, JournalParked,
     JournalTarget, JournalLink, JournalAdapters, JournalRegistry,
     JournalCommitted, FinishJournalLink, FinishJournalRegistry, CustodyLocal
<1>4. CASE Moving
  BY <1>4 DEF Moving, Park, Rehash, ParkedIntact, Unpark, Commit, Verify,
     CustodyLocal
<1>5. CASE Linking
  BY <1>5 DEF Linking, Link, MakeLink, FinishLink, LinkProved, CustodyLocal
<1>6. CASE Unlinking
  BY <1>6 DEF Unlinking, RollbackLinks, RemoveLinks, FinishUnlink,
     CustodyLocal
<1>7. CASE Registering
  <2>1. registry = None \/ registry = mem.digest
    BY <1>7 DEF Registering, Register, SaveRegistry, FinishRegister
  <2>2. CASE registry = None
    <3>1. CustodyLocal = mem.digest /\ CustodyLocal' = source
      BY <1>7, <2>2
      DEF Registering, Register, SaveRegistry, FinishRegister, CustodyLocal
    <3>2. Custody!Publish
      BY <1>7, <2>2, <3>1
      DEF Registering, Register, SaveRegistry, FinishRegister, Custody!Publish
    <3> QED
      BY <3>2 DEF Custody!Handover
  <2>3. CASE registry = mem.digest
    BY <1>7, <2>3
    DEF Registering, Register, SaveRegistry, FinishRegister, CustodyLocal
  <2> QED
    BY <2>1, <2>2, <2>3
<1>8. CASE Dropping
  BY <1>8 DEF Dropping, DropCheck, DropCut, ShrinkBackup, Dropped,
     FinishDropCheck, Differs, FinishDropCut, FinishDropped, CustodyLocal
<1>9. CASE Undoing
  BY <1>9 DEF Undoing, Handle, Durable, RollbackCheck, RollbackRefused,
     Differs, RollbackTarget, CustodyLocal
<1>10. CASE Restoring
  BY <1>10 DEF Restoring, RollbackBackup, RestoreBackup, FinishUnpark,
     CustodyLocal
<1>11. CASE Ending
  BY <1>11 DEF Ending, DiscardStage, StageIntact, StageDiscarded, EndClear,
     ClearJournal, Clear, CustodyLocal
<1>12. CASE Resuming
  BY <1>12 DEF Resuming, Recover, FinishCheck, Finishable, Drifted,
     FinishRefused, Ambiguous, Differs, FinishDrift, CustodyLocal
<1>13. CASE Choosing
  BY <1>13 DEF Choosing, FinishStaged, OnlySource, Differs, FinishSource,
     FinishBackup, FinishCommit, FinishFromBackup, FinishTarget, CustodyLocal
<1>14. CASE Failing
  BY <1>14 DEF Failing, IOError, Crash, CustodyLocal
<1>15. CASE Environment
  <2>1. CASE Outside /\ UserWrite
    BY <2>1 DEF UserWrite, CustodyLocal, Custody!Handover, Custody!Author
  <2>2. CASE Outside /\ UserCreate
    BY <2>2 DEF UserCreate, CustodyLocal, Custody!Handover, Custody!Author
  <2>3. CASE LateWrite
    <3>1. PICK p \in Package \ {backup} :
            backup' = p /\ owed' = (owed \ ({backup} \ {source})) \cup {p}
      BY <2>3 DEF LateWrite, WriteBackup
    <3>2. /\ UNCHANGED <<source, registry>>
          /\ CustodyLocal' \in {CustodyLocal, p}
      BY <2>3, <3>1 DEF LateWrite, WriteBackup, CustodyLocal
    <3>3. CASE backup \in owed /\ backup # source
      <4>1. owed' = (owed \ {backup}) \cup {p}
        BY <3>1, <3>3
      <4> QED
        BY <3>2, <3>3, <4>1 DEF Custody!Handover, Custody!Author
    <3>4. CASE ~(backup \in owed /\ backup # source)
      <4>1. owed' = (owed \ {None}) \cup {p}
        BY <3>1, <3>4
      <4> QED
        BY <3>2, <4>1 DEF Custody!Handover, Custody!Author
    <3> QED
      BY <3>3, <3>4
  <2>4. CASE Outside /\ ~UserWrite /\ ~UserCreate
    BY <2>4
    DEF Outside, UserDiscard, TamperStage, OutsideTarget, EditTarget,
        DeleteTarget, OutsideLink, Reauthorize, CustodyLocal
  <2> QED
    BY <1>15, <2>1, <2>2, <2>3, <2>4 DEF Environment
<1> QED
  BY Kinds, <1>1, <1>2, <1>3, <1>4, <1>5, <1>6, <1>7, <1>8, <1>9, <1>10,
     <1>11, <1>12, <1>13, <1>14, <1>15

(* The detailed promotion, its handler, its recovery and the crashes and    *)
(* failures between their steps implement the one-step handover of          *)
(* PackageCustody, unless others discard the source, touch the stage or the *)
(* canonical package or write through a stale handle.                       *)
THEOREM PromotionHandsOver ==
  ASSUME Outsiders \cap HandoverOutsiders = {}
  PROVE  Spec => HandsOver
<1>1. Init => Handing
  BY InitTyped, StoreAssumption
  DEF Init, StoreInit, Handing, Retaining, Linkable, Cleanly, Underway, Swept,
      NoHiddenOrphans, Unparked, Unstaging, EndSteps, Owning, HasDigest, Ownership, Restorable, CheckedSteps,
      Progress, 
      Committed, LinkSteps, Retained, DropSteps, Agreed, PromoteSteps,
      FinishSteps, Unregistered, NoJournal, TypeOK, StoreTypeOK, Vetted,
      Validated, Held
<1>2. Handing /\ [Next]_vars => Handing'
  <2>1. Handing /\ UNCHANGED vars => Handing'
    BY DEF vars, disk, records, prog, Handing, Retaining, Linkable, Cleanly,
           TypeOK, StoreTypeOK, Underway, Swept, NoHiddenOrphans, Owning, HasDigest, Ownership,
           Restorable, Progress,
            Linked, TextMatches, Retained, OwnedComplete, Vetted,
           Held
  <2> QED
    BY <2>1, HandingStep
<1>3. Init => Custody!CustodyInit
  BY DEF Init, StoreInit, Custody!CustodyInit, CustodyLocal
<1>4. Handing /\ [Next]_vars => [Custody!Handover]_(Custody!custody)
  <2>1. UNCHANGED vars => UNCHANGED <<CustodyLocal, registry, owed>>
    BY DEF vars, disk, records, CustodyLocal
  <2> QED
    BY <2>1, HandoverStep DEF Custody!custody
<1> QED
  BY <1>1, <1>2, <1>3, <1>4, PTL DEF Spec, HandsOver, Custody!CustodySpec

-----------------------------------------------------------------------------
(* A promotion that is undone leaves nothing of its own, and nothing of     *)
(* others is touched.                                                       *)

(* Where the registry has the skill. *)
Registered ==
    {"w_registry", "drop", "drop_cut", "dropping", "w_committed", "clear",
     "fin_w_registry", "fin_drop", "fin_drop_cut", "fin_dropping"}

(* A parked source has its copy next to it, so recovery never retreats.    *)
Copied ==
    /\ HasDigest
    /\ pc \in Registered => registry # None
    /\ pc \in {"w_staged", "park", "w_parked", "rehash", "commit", "unpark"} =>
          stage # None
    /\ backup # None /\ target = None /\ registry = None => stage # None
    /\ pc \notin {"fin_unlink", "fin_unpark"}

Copying == Cleanly /\ Copied

(* Every step preserves Copying. *)
LEMMA CopyingStep ==
  ASSUME Copying, Next, "delete" \notin Outsiders
  PROVE  Copying'
<1>0. TypeOK /\ TypeOK'
  BY StepTyped DEF Copying, Cleanly
<1>u. Cleanly /\ Cleanly'
  BY CleanStep DEF Copying
<1> USE StoreAssumption, <1>0, <1>u
    DEF Copying, Cleanly, Underway, Swept, Unparked, Unstaging, EndSteps,
        Copied, HasDigest, Registered, NoJournal, Fail, Block, Goto, Return,
        Moves, prog, disk, records, TypeOK, StoreTypeOK, Journals, Place
<1>1. CASE Planning
  BY <1>1 DEF Planning, Begin, Plan, Barred, Publishable, PlanUnsynced, Phases
<1>2. CASE Staging
  BY <1>2 DEF Staging, ReadSource, StartCopy, FinishCopy, Staged, Unstage,
     StageIntact, Unstaged, AttemptsLeft
<1>3. CASE Journaling
  BY <1>3 DEF Journaling, Replan, WritePhase, JournalStaged, JournalParked,
     JournalTarget, JournalLink, JournalAdapters, JournalRegistry,
     JournalCommitted, FinishJournalLink, FinishJournalRegistry
<1>4. CASE Moving
  BY <1>4 DEF Moving, Park, Rehash, ParkedIntact, Unpark, Commit, Verify
<1>5. CASE Linking
  BY <1>5 DEF Linking, Link, MakeLink, FinishLink, LinkProved
<1>6. CASE Unlinking
  BY <1>6 DEF Unlinking, RollbackLinks, RemoveLinks, FinishUnlink
<1>7. CASE Registering
  BY <1>7 DEF Registering, Register, SaveRegistry, FinishRegister
<1>8. CASE Dropping
  BY <1>8 DEF Dropping, DropCheck, DropCut, ShrinkBackup, Dropped,
     FinishDropCheck, Differs, FinishDropCut, FinishDropped
<1>9. CASE Undoing
  BY <1>9 DEF Undoing, Handle, Durable, RollbackCheck, RollbackRefused,
     Differs, RollbackTarget
<1>10. CASE Restoring
  BY <1>10 DEF Restoring, RollbackBackup, RestoreBackup, FinishUnpark
<1>11. CASE Ending
  BY <1>11 DEF Ending, DiscardStage, StageIntact, StageDiscarded, EndClear,
     ClearJournal, Clear
<1>12. CASE Resuming
  BY <1>12 DEF Resuming, Recover, FinishCheck, Finishable, Drifted,
     FinishRefused, Ambiguous, Differs, FinishDrift
<1>13. CASE Choosing
  BY <1>13 DEF Choosing, FinishStaged, OnlySource, Differs, FinishSource,
     FinishBackup, FinishCommit, FinishFromBackup, FinishTarget
<1>14. CASE Failing
  BY <1>14 DEF Failing, IOError, Crash
<1>15. CASE Environment
  BY <1>15 DEF Environment, LateWrite, WriteBackup, Outside, UserWrite,
     UserCreate, UserDiscard, TamperStage, OutsideTarget, EditTarget,
     DeleteTarget, OutsideLink, Reauthorize
<1> QED
  BY Kinds, <1>1, <1>2, <1>3, <1>4, <1>5, <1>6, <1>7, <1>8, <1>9, <1>10,
     <1>11, <1>12, <1>13, <1>14, <1>15

(* Whose links the operation in memory made: all but recovery's.            *)
Handled == PromoteSteps \cup {"handler", "rb_check"}

Made(a) == links[a] = "ours"

(* The publisher's links show a package that is there, and the handler of  *)
(* promote knows every one of them.                                        *)
Accounted ==
    /\ authorized = TRUE
    /\ pc \in LinkSteps \cup {"verify", "w_target"} => target # None
    /\ \A a \in Adapters : Made(a) => target # None
    /\ pc \in Handled => \A a \in Adapters : Made(a) <=> a \in mem.created
    /\ pc = "rb_links" => \A a \in Adapters : Made(a) <=> a \in todo
    /\ pc = "rb_target" => \A a \in Adapters : ~Made(a)

Accounting == Copying /\ Accounted

(* Every step preserves Accounting. *)
LEMMA AccountingStep ==
  ASSUME Accounting, Next, Outsiders \cap {"delete", "auth"} = {}
  PROVE  Accounting'
<1>0. TypeOK /\ TypeOK'
  BY StepTyped DEF Accounting, Copying, Cleanly
<1>u. Copying /\ Copying'
  BY CopyingStep DEF Accounting
<1> USE StoreAssumption, <1>0, <1>u
    DEF Accounting, Copying, Cleanly, Underway, Copied, HasDigest, Registered,
        Accounted, Handled, LinkSteps, PromoteSteps, Made, NoJournal, Fail,
        Block, Goto, Return, Moves, prog, disk, records, TypeOK, StoreTypeOK,
        Journals, Place
<1>1. CASE Planning
  <2>1. CASE Begin
    <3>1. /\ \A a \in Adapters : ~Made(a) /\ ~Made(a)'
          /\ mem'.created = {} /\ pc' = "digest"
          /\ authorized' = authorized
      BY <2>1 DEF Begin, Plan, Publishable
    <3> QED
      BY <3>1
  <2>2. CASE PlanUnsynced
    BY <2>2 DEF PlanUnsynced, Plan
  <2> QED
    BY <1>1, <2>1, <2>2 DEF Planning
<1>2. CASE Staging
  <2>1. /\ mem'.created = mem.created
        /\ UNCHANGED <<target, links, authorized>>
        /\ pc \in Handled /\ pc' \in Handled
        /\ pc' \notin LinkSteps \cup {"verify", "w_target", "rb_links",
                                     "rb_target"}
    BY <1>2
    DEF Staging, ReadSource, StartCopy, FinishCopy, Staged, Unstage,
        StageIntact, Unstaged, AttemptsLeft
  <2> QED
    BY <2>1
<1>3. CASE Journaling
  BY <1>3 DEF Journaling, Replan, WritePhase, JournalStaged, JournalParked,
     JournalTarget, JournalLink, JournalAdapters, JournalRegistry,
     JournalCommitted, FinishJournalLink, FinishJournalRegistry
<1>4. CASE Moving
  BY <1>4 DEF Moving, Park, Rehash, ParkedIntact, Unpark, Commit, Verify
<1>5. CASE Linking
  <2>1. CASE Link
    BY <2>1 DEF Link, MakeLink
  <2>2. CASE FinishLink
    BY <2>2 DEF FinishLink, MakeLink, LinkProved
  <2> QED
    BY <1>5, <2>1, <2>2 DEF Linking
<1>6. CASE Unlinking
  BY <1>6 DEF Unlinking, RollbackLinks, RemoveLinks, FinishUnlink
<1>7. CASE Registering
  BY <1>7 DEF Registering, Register, SaveRegistry, FinishRegister
<1>8. CASE Dropping
  BY <1>8 DEF Dropping, DropCheck, DropCut, ShrinkBackup, Dropped,
     FinishDropCheck, Differs, FinishDropCut, FinishDropped
<1>9. CASE Undoing
  BY <1>9 DEF Undoing, Handle, Durable, RollbackCheck, RollbackRefused,
     Differs, RollbackTarget
<1>10. CASE Restoring
  BY <1>10 DEF Restoring, RollbackBackup, RestoreBackup, FinishUnpark
<1>11. CASE Ending
  BY <1>11 DEF Ending, DiscardStage, StageIntact, StageDiscarded, EndClear,
     ClearJournal, Clear
<1>12. CASE Resuming
  BY <1>12 DEF Resuming, Recover, FinishCheck, Finishable, Drifted,
     FinishRefused, Ambiguous, Differs, FinishDrift
<1>13. CASE Choosing
  BY <1>13 DEF Choosing, FinishStaged, OnlySource, Differs, FinishSource,
     FinishBackup, FinishCommit, FinishFromBackup, FinishTarget
<1>14. CASE Failing
  BY <1>14 DEF Failing, IOError, Crash
<1>15. CASE Environment
  <2>1. CASE OutsideLink /\ UNCHANGED prog
    BY <2>1 DEF OutsideLink, LinkKinds
  <2>2. CASE ~(OutsideLink /\ UNCHANGED prog)
    <3>1. UNCHANGED <<pc, links, records, prog>>
      BY <1>15, <2>2
      DEF Environment, LateWrite, WriteBackup, Outside, UserWrite, UserCreate,
          UserDiscard, TamperStage, OutsideTarget, EditTarget, DeleteTarget,
          Reauthorize
    <3> QED
      BY <1>15, <2>2, <3>1
      DEF Environment, LateWrite, WriteBackup, Outside, UserWrite, UserCreate,
          UserDiscard, TamperStage, OutsideTarget, EditTarget, DeleteTarget,
          Reauthorize
  <2> QED
    BY <2>1, <2>2
<1> QED
  BY Kinds, <1>1, <1>2, <1>3, <1>4, <1>5, <1>6, <1>7, <1>8, <1>9, <1>10,
     <1>11, <1>12, <1>13, <1>14, <1>15

(* What the publisher has made it owns or has journaled.                   *)
Ours == (target # None /\ ~Foreign) \/ (\E a \in Adapters : Made(a))

Claimed ==
    /\ pc \in EndSteps \cup {"rb_backup"} /\ Ours => registry # None
    /\ Ours /\ registry = None => journal # NoJournal

Undone == Accounting /\ Claimed

(* Every step preserves Undone. *)
LEMMA UndoneStep ==
  ASSUME Undone, Next, Outsiders \cap {"delete", "auth"} = {}
  PROVE  Undone'
<1>0. TypeOK /\ TypeOK'
  BY StepTyped DEF Undone, Accounting, Copying, Cleanly
<1>u. Accounting /\ Accounting'
  BY AccountingStep DEF Undone
<1> USE StoreAssumption, <1>0, <1>u
    DEF Undone, Accounting, Copying, Cleanly, Underway, Copied, HasDigest,
        Registered, Accounted, Handled, LinkSteps, PromoteSteps, Made,
        Claimed, EndSteps, Ours, Foreign, NoJournal, Fail, Block, Goto,
        Return, Moves, prog, disk, records, TypeOK, StoreTypeOK, Journals,
        Place
<1>1. CASE Planning
  <2>1. CASE Begin
    <3>1. /\ \A a \in Adapters : ~Made(a) /\ ~Made(a)'
          /\ mem'.created = {} /\ pc' = "digest"
          /\ authorized' = authorized
      BY <2>1 DEF Begin, Plan, Publishable
    <3> QED
      BY <3>1
  <2>2. CASE PlanUnsynced
    BY <2>2 DEF PlanUnsynced, Plan
  <2> QED
    BY <1>1, <2>1, <2>2 DEF Planning
<1>2. CASE Staging
  BY <1>2 DEF Staging, ReadSource, StartCopy, FinishCopy, Staged, Unstage,
     StageIntact, Unstaged, AttemptsLeft
<1>3. CASE Journaling
  BY <1>3 DEF Journaling, Replan, WritePhase, JournalStaged, JournalParked,
     JournalTarget, JournalLink, JournalAdapters, JournalRegistry,
     JournalCommitted, FinishJournalLink, FinishJournalRegistry
<1>4. CASE Moving
  BY <1>4 DEF Moving, Park, Rehash, ParkedIntact, Unpark, Commit, Verify
<1>5. CASE Linking
  <2>1. CASE Link
    BY <2>1 DEF Link, MakeLink
  <2>2. CASE FinishLink
    BY <2>2 DEF FinishLink, MakeLink, LinkProved
  <2> QED
    BY <1>5, <2>1, <2>2 DEF Linking
<1>6. CASE Unlinking
  BY <1>6 DEF Unlinking, RollbackLinks, RemoveLinks, FinishUnlink
<1>7. CASE Registering
  BY <1>7 DEF Registering, Register, SaveRegistry, FinishRegister
<1>8. CASE Dropping
  BY <1>8 DEF Dropping, DropCheck, DropCut, ShrinkBackup, Dropped,
     FinishDropCheck, Differs, FinishDropCut, FinishDropped
<1>9. CASE Undoing
  BY <1>9 DEF Undoing, Handle, Durable, RollbackCheck, RollbackRefused,
     Differs, RollbackTarget
<1>10. CASE Restoring
  BY <1>10 DEF Restoring, RollbackBackup, RestoreBackup, FinishUnpark
<1>11. CASE Ending
  BY <1>11 DEF Ending, DiscardStage, StageIntact, StageDiscarded, EndClear,
     ClearJournal, Clear
<1>12. CASE Resuming
  BY <1>12 DEF Resuming, Recover, FinishCheck, Finishable, Drifted,
     FinishRefused, Ambiguous, Differs, FinishDrift
<1>13. CASE Choosing
  BY <1>13 DEF Choosing, FinishStaged, OnlySource, Differs, FinishSource,
     FinishBackup, FinishCommit, FinishFromBackup, FinishTarget
<1>14. CASE Failing
  BY <1>14 DEF Failing, IOError, Crash
<1>15. CASE Environment
  <2>1. CASE OutsideLink /\ UNCHANGED prog
    BY <2>1 DEF OutsideLink, LinkKinds
  <2>2. CASE ~(OutsideLink /\ UNCHANGED prog)
    <3>1. UNCHANGED <<pc, links, records, prog>>
      BY <1>15, <2>2
      DEF Environment, LateWrite, WriteBackup, Outside, UserWrite, UserCreate,
          UserDiscard, TamperStage, OutsideTarget, EditTarget, DeleteTarget,
          Reauthorize
    <3> QED
      BY <1>15, <2>2, <3>1
      DEF Environment, LateWrite, WriteBackup, Outside, UserWrite, UserCreate,
          UserDiscard, TamperStage, OutsideTarget, EditTarget, DeleteTarget,
          Reauthorize
  <2> QED
    BY <2>1, <2>2
<1> QED
  BY Kinds, <1>1, <1>2, <1>3, <1>4, <1>5, <1>6, <1>7, <1>8, <1>9, <1>10,
     <1>11, <1>12, <1>13, <1>14, <1>15

(* Unless others delete the canonical package or the authorization is taken *)
(* back, when a promotion was undone its links and its canonical copy are   *)
(* gone, whatever crashed or failed on the way.                             *)
THEOREM UndoneLeavesNothing ==
  ASSUME Outsiders \cap {"delete", "auth"} = {}
  PROVE  Spec => []UndoneCompletely
<1>1. Init => Undone
  BY InitTyped, StoreAssumption
  DEF Init, StoreInit, Undone, Accounting, Copying, Cleanly, Underway, Swept,
      NoHiddenOrphans, Unparked, Unstaging, EndSteps, Copied, HasDigest,
      Registered, Accounted, Handled, PromoteSteps, LinkSteps, Made, Claimed,
      Ours, NoJournal
<1>2. Undone /\ [Next]_vars => Undone'
  <2>1. Undone /\ UNCHANGED vars => Undone'
    BY DEF vars, disk, records, prog, Undone, Accounting, Copying, Cleanly,
           TypeOK, StoreTypeOK, Underway, Swept, NoHiddenOrphans, Copied,
           HasDigest, Accounted, Made, Claimed, Ours, Foreign
  <2> QED
    BY <2>1, UndoneStep
<1>3. Undone => UndoneCompletely
  BY DEF Undone, Claimed, Ours, Made, UndoneCompletely
<1> QED
  BY <1>1, <1>2, <1>3, PTL DEF Spec

(* What NeverReplaces says of one step. *)
LEMMA ReplacingStep ==
  ASSUME Accounting, Publisher
  PROVE  /\ target' # target =>
               target = None \/ (target' = None /\ stage' = target)
         /\ source' \notin {source, None} => source = None
         /\ \A a \in Adapters :
               links[a] \in {"twin", "other"} => links'[a] = links[a]
<1>0. TypeOK /\ TypeOK'
  BY StepTyped DEF Accounting, Copying, Cleanly, Next
<1> USE StoreAssumption, <1>0
    DEF Accounting, Copying, Cleanly, Underway, Copied, Accounted, Handled,
        Made, PromoteSteps, NoJournal, Fail, Block, Goto, Return, Moves, prog,
        disk, records, TypeOK, StoreTypeOK, Journals, Place
<1>1. CASE Planning
  BY <1>1 DEF Planning, Begin, Plan, Barred, Publishable, PlanUnsynced, Phases
<1>2. CASE Staging
  BY <1>2 DEF Staging, ReadSource, StartCopy, FinishCopy, Staged, Unstage,
     StageIntact, Unstaged, AttemptsLeft
<1>3. CASE Journaling
  BY <1>3 DEF Journaling, Replan, WritePhase, JournalStaged, JournalParked,
     JournalTarget, JournalLink, JournalAdapters, JournalRegistry,
     JournalCommitted, FinishJournalLink, FinishJournalRegistry
<1>4. CASE Moving
  BY <1>4 DEF Moving, Park, Rehash, ParkedIntact, Unpark, Commit, Verify
<1>5. CASE Linking
  BY <1>5 DEF Linking, Link, MakeLink, FinishLink, LinkProved
<1>6. CASE Unlinking
  BY <1>6 DEF Unlinking, RollbackLinks, RemoveLinks, FinishUnlink
<1>7. CASE Registering
  BY <1>7 DEF Registering, Register, SaveRegistry, FinishRegister
<1>8. CASE Dropping
  BY <1>8 DEF Dropping, DropCheck, DropCut, ShrinkBackup, Dropped,
     FinishDropCheck, Differs, FinishDropCut, FinishDropped
<1>9. CASE Undoing
  BY <1>9 DEF Undoing, Handle, Durable, RollbackCheck, RollbackRefused,
     Differs, RollbackTarget
<1>10. CASE Restoring
  BY <1>10 DEF Restoring, RollbackBackup, RestoreBackup, FinishUnpark
<1>11. CASE Ending
  BY <1>11 DEF Ending, DiscardStage, StageIntact, StageDiscarded, EndClear,
     ClearJournal, Clear
<1>12. CASE Resuming
  BY <1>12 DEF Resuming, Recover, FinishCheck, Finishable, Drifted,
     FinishRefused, Ambiguous, Differs, FinishDrift
<1>13. CASE Choosing
  BY <1>13 DEF Choosing, FinishStaged, OnlySource, Differs, FinishSource,
     FinishBackup, FinishCommit, FinishFromBackup, FinishTarget
<1> QED
  BY PublisherKinds, <1>1, <1>2, <1>3, <1>4, <1>5, <1>6, <1>7, <1>8, <1>9,
     <1>10, <1>11, <1>12, <1>13

(* Unless others delete the canonical package or the authorization is taken *)
(* back, no step of the publisher writes over a package or touches an       *)
(* adapter object it did not make, not even one with the text of its own.   *)
THEOREM NothingReplaced ==
  ASSUME Outsiders \cap {"delete", "auth"} = {}
  PROVE  Spec => NeverReplaces
<1>1. Init => Accounting
  BY InitTyped, StoreAssumption
  DEF Init, StoreInit, Accounting, Copying, Cleanly, Underway, Swept,
      NoHiddenOrphans, Unparked, Unstaging, EndSteps, Copied, HasDigest,
      Registered, Accounted, Handled, PromoteSteps, LinkSteps, Made, NoJournal
<1>2. Accounting /\ [Next]_vars => Accounting'
  <2>1. Accounting /\ UNCHANGED vars => Accounting'
    BY DEF vars, disk, records, prog, Accounting, Copying, Cleanly, TypeOK,
           StoreTypeOK, Underway, Swept, NoHiddenOrphans, Copied, HasDigest,
           Accounted, Made
  <2> QED
    BY <2>1, AccountingStep
<1>3. Accounting /\ [Next]_vars =>
        [Publisher =>
          /\ target' # target =>
                target = None \/ (target' = None /\ stage' = target)
          /\ source' \notin {source, None} => source = None
          /\ \A a \in Adapters : links[a] \in {"twin", "other"} =>
                links'[a] = links[a]]_vars
  BY ReplacingStep
<1> QED
  BY <1>1, <1>2, <1>3, PTL DEF Spec, NeverReplaces

-----------------------------------------------------------------------------
(* Promotion implements the registry contract.                             *)

(* What was parked, or is about to be registered, has been validated. *)
Vouching == Retaining /\ Vetted

(* Every step preserves Vouching. *)
LEMMA VouchingStep ==
  ASSUME Vouching, Next,
         Outsiders \cap {"discard", "edit", "delete", "tamper", "target"} = {}
  PROVE  Vouching'
<1>0. TypeOK /\ TypeOK'
  BY StepTyped DEF Vouching, Retaining, Linkable, Cleanly
<1>u. Retaining /\ Retaining'
  BY RetainingStep DEF Vouching
<1> USE StoreAssumption, <1>0, <1>u
    DEF Vouching, Retaining, Linkable, Cleanly, Owning, HasDigest, Ownership, Restorable,
        CheckedSteps, Underway, Swept, Unparked,
        EndSteps, Progress, Committed, LinkSteps, Retained, Vetted,
        Validated, Agreed, OwnedComplete, DropSteps, Unregistered,
        PromoteSteps, FinishSteps, NoJournal, Fail, Block, Goto, Return,
        Moves, prog, disk, records, TypeOK, StoreTypeOK, Journals, Place
<1>1. CASE Planning
  BY <1>1 DEF Planning, Begin, Plan, Barred, Publishable, PlanUnsynced, Phases
<1>2. CASE Staging
  BY <1>2 DEF Staging, ReadSource, StartCopy, FinishCopy, Staged, Unstage,
     StageIntact, Unstaged, AttemptsLeft
<1>3. CASE Journaling
  BY <1>3 DEF Journaling, Replan, WritePhase, JournalStaged, JournalParked,
     JournalTarget, JournalLink, JournalAdapters, JournalRegistry,
     JournalCommitted, FinishJournalLink, FinishJournalRegistry
<1>4. CASE Moving
  BY <1>4 DEF Moving, Park, Rehash, ParkedIntact, Unpark, Commit, Verify
<1>5. CASE Linking
  BY <1>5 DEF Linking, Link, MakeLink, FinishLink, LinkProved
<1>6. CASE Unlinking
  BY <1>6 DEF Unlinking, RollbackLinks, RemoveLinks, FinishUnlink
<1>7. CASE Registering
  BY <1>7 DEF Registering, Register, SaveRegistry, FinishRegister
<1>8. CASE Dropping
  BY <1>8 DEF Dropping, DropCheck, DropCut, ShrinkBackup, Dropped,
     FinishDropCheck, Differs, FinishDropCut, FinishDropped
<1>9. CASE Undoing
  BY <1>9 DEF Undoing, Handle, Durable, RollbackCheck, RollbackRefused,
     Differs, RollbackTarget
<1>10. CASE Restoring
  BY <1>10 DEF Restoring, RollbackBackup, RestoreBackup, FinishUnpark
<1>11. CASE Ending
  BY <1>11 DEF Ending, DiscardStage, StageIntact, StageDiscarded, EndClear,
     ClearJournal, Clear
<1>12. CASE Resuming
  BY <1>12 DEF Resuming, Recover, FinishCheck, Finishable, Drifted,
     FinishRefused, Ambiguous, Differs, FinishDrift
<1>13. CASE Choosing
  BY <1>13 DEF Choosing, FinishStaged, OnlySource, Differs, FinishSource,
     FinishBackup, FinishCommit, FinishFromBackup, FinishTarget
<1>14. CASE Failing
  BY <1>14 DEF Failing, IOError, Crash
<1>15. CASE Environment
  BY <1>15 DEF Environment, LateWrite, WriteBackup, Outside, UserWrite,
     UserCreate, UserDiscard, TamperStage, OutsideTarget, EditTarget,
     DeleteTarget, OutsideLink, Reauthorize
<1> QED
  BY Kinds, <1>1, <1>2, <1>3, <1>4, <1>5, <1>6, <1>7, <1>8, <1>9, <1>10,
     <1>11, <1>12, <1>13, <1>14, <1>15

(* Where there is no journal, nothing but a new plan changes the records. *)
LEMMA UnjournaledStep ==
  ASSUME Cleanly, Next, journal = NoJournal
  PROVE  /\ stage' = stage /\ backup' = backup /\ registry' = registry
         /\ journal' # NoJournal => registry = None
<1>0. TypeOK /\ TypeOK'
  BY StepTyped DEF Cleanly
<1> USE StoreAssumption, <1>0
    DEF Cleanly, Underway, NoHiddenOrphans, NoJournal, Fail, Block, Goto,
        Return, Moves, prog, disk, records, TypeOK, StoreTypeOK, Journals,
        Place
<1>1. CASE Planning
  BY <1>1 DEF Planning, Begin, Plan, Barred, Publishable, PlanUnsynced, Phases
<1>2. CASE Staging
  BY <1>2 DEF Staging, ReadSource, StartCopy, FinishCopy, Staged, Unstage,
     StageIntact, Unstaged, AttemptsLeft
<1>3. CASE Journaling
  BY <1>3 DEF Journaling, Replan, WritePhase, JournalStaged, JournalParked,
     JournalTarget, JournalLink, JournalAdapters, JournalRegistry,
     JournalCommitted, FinishJournalLink, FinishJournalRegistry
<1>4. CASE Moving
  BY <1>4 DEF Moving, Park, Rehash, ParkedIntact, Unpark, Commit, Verify
<1>5. CASE Linking
  BY <1>5 DEF Linking, Link, MakeLink, FinishLink, LinkProved
<1>6. CASE Unlinking
  BY <1>6 DEF Unlinking, RollbackLinks, RemoveLinks, FinishUnlink
<1>7. CASE Registering
  BY <1>7 DEF Registering, Register, SaveRegistry, FinishRegister
<1>8. CASE Dropping
  BY <1>8 DEF Dropping, DropCheck, DropCut, ShrinkBackup, Dropped,
     FinishDropCheck, Differs, FinishDropCut, FinishDropped
<1>9. CASE Undoing
  BY <1>9 DEF Undoing, Handle, Durable, RollbackCheck, RollbackRefused,
     Differs, RollbackTarget
<1>10. CASE Restoring
  BY <1>10 DEF Restoring, RollbackBackup, RestoreBackup, FinishUnpark
<1>11. CASE Ending
  BY <1>11 DEF Ending, DiscardStage, StageIntact, StageDiscarded, EndClear,
     ClearJournal, Clear
<1>12. CASE Resuming
  BY <1>12 DEF Resuming, Recover, FinishCheck, Finishable, Drifted,
     FinishRefused, Ambiguous, Differs, FinishDrift
<1>13. CASE Choosing
  BY <1>13 DEF Choosing, FinishStaged, OnlySource, Differs, FinishSource,
     FinishBackup, FinishCommit, FinishFromBackup, FinishTarget
<1>14. CASE Failing
  BY <1>14 DEF Failing, IOError, Crash
<1>15. CASE Environment
  BY <1>15 DEF Environment, LateWrite, WriteBackup, Outside, UserWrite,
     UserCreate, UserDiscard, TamperStage, OutsideTarget, EditTarget,
     DeleteTarget, OutsideLink, Reauthorize
<1> QED
  BY Kinds, <1>1, <1>2, <1>3, <1>4, <1>5, <1>6, <1>7, <1>8, <1>9, <1>10,
     <1>11, <1>12, <1>13, <1>14, <1>15

(* The journal goes when nothing is hidden and, if the registry does not   *)
(* own the skill, nothing of the publisher's is left.                      *)
LEMMA UnjournalingStep ==
  ASSUME Undone, Next, journal # NoJournal
  PROVE  \/ journal' # NoJournal
         \/ /\ stage' = None /\ backup' = None
            /\ registry' = None =>
                  ~Ours /\ UNCHANGED <<target, maker, links>>
<1>0. TypeOK /\ TypeOK'
  BY StepTyped DEF Undone, Accounting, Copying, Cleanly
<1> USE StoreAssumption, <1>0
    DEF Undone, Accounting, Copying, Cleanly, Underway, Swept, Unparked,
        Unstaging, Copied, Registered, Claimed, EndSteps, Ours, Made, Foreign,
        NoJournal, Fail, Block, Goto, Return, Moves, prog, disk, records,
        TypeOK, StoreTypeOK, Journals, Place
<1>1. CASE Planning
  BY <1>1 DEF Planning, Begin, Plan, Barred, Publishable, PlanUnsynced, Phases
<1>2. CASE Staging
  BY <1>2 DEF Staging, ReadSource, StartCopy, FinishCopy, Staged, Unstage,
     StageIntact, Unstaged, AttemptsLeft
<1>3. CASE Journaling
  BY <1>3 DEF Journaling, Replan, WritePhase, JournalStaged, JournalParked,
     JournalTarget, JournalLink, JournalAdapters, JournalRegistry,
     JournalCommitted, FinishJournalLink, FinishJournalRegistry
<1>4. CASE Moving
  BY <1>4 DEF Moving, Park, Rehash, ParkedIntact, Unpark, Commit, Verify
<1>5. CASE Linking
  BY <1>5 DEF Linking, Link, MakeLink, FinishLink, LinkProved
<1>6. CASE Unlinking
  BY <1>6 DEF Unlinking, RollbackLinks, RemoveLinks, FinishUnlink
<1>7. CASE Registering
  BY <1>7 DEF Registering, Register, SaveRegistry, FinishRegister
<1>8. CASE Dropping
  BY <1>8 DEF Dropping, DropCheck, DropCut, ShrinkBackup, Dropped,
     FinishDropCheck, Differs, FinishDropCut, FinishDropped
<1>9. CASE Undoing
  BY <1>9 DEF Undoing, Handle, Durable, RollbackCheck, RollbackRefused,
     Differs, RollbackTarget
<1>10. CASE Restoring
  BY <1>10 DEF Restoring, RollbackBackup, RestoreBackup, FinishUnpark
<1>11. CASE Ending
  BY <1>11 DEF Ending, DiscardStage, StageIntact, StageDiscarded, EndClear,
     ClearJournal, Clear
<1>12. CASE Resuming
  BY <1>12 DEF Resuming, Recover, FinishCheck, Finishable, Drifted,
     FinishRefused, Ambiguous, Differs, FinishDrift
<1>13. CASE Choosing
  BY <1>13 DEF Choosing, FinishStaged, OnlySource, Differs, FinishSource,
     FinishBackup, FinishCommit, FinishFromBackup, FinishTarget
<1>14. CASE Failing
  BY <1>14 DEF Failing, IOError, Crash
<1>15. CASE Environment
  BY <1>15 DEF Environment, LateWrite, WriteBackup, Outside, UserWrite,
     UserCreate, UserDiscard, TamperStage, OutsideTarget, EditTarget,
     DeleteTarget, OutsideLink, Reauthorize
<1> QED
  BY Kinds, <1>1, <1>2, <1>3, <1>4, <1>5, <1>6, <1>7, <1>8, <1>9, <1>10,
     <1>11, <1>12, <1>13, <1>14, <1>15

Keeping == Vouching /\ Undone

(* A change of the registry publishes a valid package that is in place and *)
(* shown by every adapter.                                                 *)
LEMMA PublishStep ==
  ASSUME Keeping, Next, registry' # registry
  PROVE  Contract!Publish
<1>1. Registering
  BY RegistryStep DEF Keeping, Undone, Accounting, Copying
<1>2. /\ pc \in {"register", "fin_register"}
      /\ registry' = mem.digest
      /\ UNCHANGED <<target, links, journal>>
  BY <1>1 DEF Registering, Register, FinishRegister, SaveRegistry, disk
<1>3. /\ target = mem.digest
      /\ \A a \in Adapters : TextMatches(a)
      /\ mem.digest \in Shared
      /\ journal # NoJournal
  BY <1>2
  DEF Keeping, Vouching, Retaining, Linkable, Progress, Committed, Linked,
      Vetted, Validated, Cleanly, Underway
<1>4. registry = None
  <2>1. mem.digest = journal.digest
    BY <1>2
    DEF Keeping, Vouching, Retaining, Retained, Agreed, PromoteSteps,
        FinishSteps
  <2> QED
    BY <1>2, <1>3, <2>1
    DEF Keeping, Vouching, Retaining, Retained, OwnedComplete
<1>5. registry' # None
  BY <1>2, <1>3, StoreAssumption
<1>6. Adapters \subseteq Shown'
  BY <1>2, <1>3, <1>5 DEF Shown, TextMatches
<1> QED
  BY <1>2, <1>3, <1>4, <1>6 DEF Contract!Publish, Recorded

(* Every step is a step of the contract or none. *)
LEMMA ContractStep ==
  ASSUME Keeping, Next
  PROVE  [Contract!ContractNext]_(Contract!contract)
<1> DEFINE Hidden  == stage # None \/ backup # None
           Pending == IF journal = NoJournal THEN "none" ELSE "promote"
<1>0. Cleanly
  BY DEF Keeping, Undone, Accounting, Copying
<1>1. CASE journal = NoJournal
  <2>1. /\ UNCHANGED <<stage, backup, registry>>
        /\ journal' # NoJournal => registry = None
    BY <1>0, <1>1, UnjournaledStep
  <2>2. UNCHANGED <<Hidden, Recorded(registry)>>
    BY <2>1 DEF Recorded
  <2>3. CASE journal' = NoJournal
    BY <1>1, <2>2, <2>3 DEF Contract!contract
  <2>4. CASE journal' # NoJournal
    BY <1>1, <2>1, <2>2, <2>4
    DEF Contract!Begin, Contract!ContractNext
  <2> QED
    BY <2>3, <2>4
<1>2. CASE journal # NoJournal
  <2>1. Contract!Publish \/ UNCHANGED Recorded(registry)
    BY PublishStep DEF Recorded
  <2>2. Contract!End \/ UNCHANGED Pending
    <3>1. CASE journal' # NoJournal
      BY <1>2, <3>1
    <3>2. CASE journal' = NoJournal
      <4>1. /\ stage' = None /\ backup' = None
            /\ registry' = None =>
                  ~Ours /\ UNCHANGED <<target, maker, links>>
        BY <1>2, <3>2, UnjournalingStep DEF Keeping
      <4>2. Recorded(registry)' = Recorded(None)' => registry' = None
        BY DEF Recorded
      <4>3. registry' = None =>
              Shown' = {} /\ (target' = None \/ Foreign')
        BY <4>1 DEF Ours, Made, Shown, Foreign
      <4> QED
        BY <1>2, <3>2, <4>1, <4>2, <4>3 DEF Contract!End
    <3> QED
      BY <3>1, <3>2
  <2> QED
    BY <1>2, <2>1, <2>2 DEF Contract!Transact, Contract!ContractNext
<1> QED
  BY <1>1, <1>2

(* Promotion, its handler, its recovery and the crashes and failures        *)
(* between their steps implement the registry contract, unless others       *)
(* discard the source, touch the stage or the canonical package or take the *)
(* authorization back.                                                      *)
THEOREM PromotionKeepsTheContract ==
  ASSUME Outsiders \cap {"discard", "edit", "delete", "auth", "tamper", "target"}
         = {}
  PROVE  Spec => PromotionKeepsContract
<1>1. Init => Keeping
  BY InitTyped, StoreAssumption
  DEF Init, StoreInit, Keeping, Vouching, Retaining, Linkable, Cleanly,
      Underway, Swept, NoHiddenOrphans, Unparked, Unstaging, EndSteps,
      Owning, HasDigest, Ownership, Restorable, CheckedSteps, Progress, Committed, LinkSteps, Retained, DropSteps, Agreed,
      PromoteSteps, FinishSteps, Unregistered, NoJournal, TypeOK, StoreTypeOK,
      Vetted, Validated, Undone, Accounting, Copying, Copied, Registered,
      Accounted, Handled, Made, Claimed, Ours
<1>2. Keeping /\ [Next]_vars => Keeping'
  <2>1. Keeping /\ UNCHANGED vars => Keeping'
    BY DEF vars, disk, records, prog, Keeping, Vouching, Retaining, Linkable,
           Cleanly, TypeOK, StoreTypeOK, Underway, Swept, NoHiddenOrphans,
           Owning, HasDigest, Ownership, Restorable, Progress,  Linked, TextMatches, Retained, OwnedComplete,
           Vetted, Undone, Accounting, Copying, Copied, Accounted, Made,
           Claimed, Ours, Foreign
  <2>2. Keeping /\ Next => Keeping'
    BY VouchingStep, UndoneStep DEF Keeping
  <2> QED
    BY <2>1, <2>2
<1>3. Init => Contract!ContractInit
  BY DEF Init, StoreInit, Contract!ContractInit
<1>4. Keeping /\ [Next]_vars => [Contract!ContractNext]_(Contract!contract)
  <2>1. UNCHANGED vars => UNCHANGED Contract!contract
    BY DEF vars, disk, records, Contract!contract, Recorded
  <2> QED
    BY <2>1, ContractStep
<1> QED
  BY <1>1, <1>2, <1>3, <1>4, PTL
  DEF Spec, PromotionKeepsContract, Contract!ContractSpec

=============================================================================
