--------------------------- MODULE PromotionRecovery ---------------------------
(***************************************************************************)
(* What happens to a promotion that does not reach its end: the handler of *)
(* promote, _rollback_promotion, recover() with _finish_promotion, and the *)
(* faults that make them necessary.  Next composes them with Promotion.    *)
(***************************************************************************)
EXTENDS Promotion

RollbackSteps ==
    {"handler", "rb_check", "rb_links", "rb_target", "rb_backup"}

FinishSteps ==
    {"fin_check", "fin_drift", "fin_staged", "fin_source", "fin_backup",
     "fin_commit", "fin_restore", "fin_unlink", "fin_unpark", "fin_target",
     "fin_link", "fin_w_link", "fin_register", "fin_w_registry", "fin_drop",
     "fin_drop_cut", "fin_dropping"}

(* The end rollback and recovery share: discard the stage, remove the      *)
(* journal.                                                                *)
EndSteps == {"end_unstage", "end_unstaging", "end_clear"}

Steps == PromoteSteps \cup RollbackSteps \cup FinishSteps \cup EndSteps

(* Every variable holds a value of its kind. *)
TypeOK ==
    /\ StoreTypeOK
    /\ mem \in Journals
    /\ todo \subseteq Adapters
    /\ attempt \in 1..MaxAttempts
    /\ pc \in Steps \cup {"idle"}

Init == StoreInit /\ mem = NoJournal /\ todo = {} /\ attempt = 1

(* A package that is there and is not the journaled version. *)
Differs(place) == place \notin {None, mem.digest}

(* An exception outside the body of promote ends the operation and leaves  *)
(* the journal for the next recovery.                                      *)
Block == Return

-----------------------------------------------------------------------------
(* The handler of promote. *)

(* Durable ownership is left in place for recovery to clean up after. *)
Durable == registry = mem.digest /\ target = mem.digest

Handle ==
    /\ pc = "handler"
    /\ IF Durable THEN Return ELSE Goto("rb_check")
    /\ UNCHANGED <<disk, records, authorized, owed>>

-----------------------------------------------------------------------------
(* _rollback_promotion, from the handler and from recovery without         *)
(* authorization.                                                          *)

(* Mutant: the preflight forgets the point of no return. *)
RollbackRefusedUnowned ==
    \/ source # None /\ backup # None
    \/ source # None /\ target # None
    \/ Differs(target) \/ Differs(stage) \/ Differs(backup)

RollbackRefused ==
    \/ source # None /\ backup # None
    \/ source # None /\ target # None
    \/ Differs(target) \/ Differs(stage) \/ Differs(backup)
    \/ registry # None

RollbackCheck ==
    /\ pc = "rb_check"
    /\ \/ RollbackRefused /\ Block
       \/ /\ ~RollbackRefused
          /\ pc' = "rb_links" /\ todo' = mem.created
          /\ UNCHANGED <<mem, attempt>>
    /\ UNCHANGED <<disk, records, authorized, owed>>

(* _remove_created_adapters: a link that is already gone only needs its    *)
(* absence made durable; a changed object stops the loop.                  *)
RemoveLinks(at, next) ==
    /\ pc = at
    /\ \/ todo = {} /\ Goto(next) /\ UNCHANGED links
       \/ \E a \in todo :
             \/ /\ links[a] # "other"
                /\ links' = [links EXCEPT ![a] = "absent"]
                /\ todo' = todo \ {a}
                /\ UNCHANGED <<pc, mem, attempt>>
             \/ links[a] = "other" /\ Block /\ UNCHANGED links
    /\ UNCHANGED <<source, backup, stage, target, maker, records,
                   authorized, owed>>

(* Mutant: the canonical package is not moved back. *)
RollbackLinksOnly == RemoveLinks("rb_links", "rb_backup")

RollbackLinks == RemoveLinks("rb_links", "rb_target")

RollbackTarget ==
    /\ pc = "rb_target"
    /\ \/ target = None /\ Goto("rb_backup") /\ UNCHANGED <<stage, target, maker>>
       \/ /\ Moves(target, stage)
          /\ stage' = target /\ target' = None /\ maker' = "publisher"
          /\ Goto("rb_backup")
       \/ target # None /\ stage # None /\ Block
          /\ UNCHANGED <<stage, target, maker>>
    /\ UNCHANGED <<source, backup, links, records, authorized, owed>>

RestoreBackup(at, next) ==
    /\ pc = at
    /\ \/ backup = None /\ Goto(next) /\ UNCHANGED <<source, backup>>
       \/ /\ Moves(backup, source)
          /\ source' = backup /\ backup' = None
          /\ Goto(next)
       \/ backup # None /\ source # None /\ Block
          /\ UNCHANGED <<source, backup>>
    /\ UNCHANGED <<stage, target, maker, links, records, authorized, owed>>

RollbackBackup == RestoreBackup("rb_backup", "end_unstage")

DiscardStage ==
    /\ pc = "end_unstage"
    /\ \/ stage = None /\ Goto("end_clear") /\ UNCHANGED stage
       \/ stage # None /\ StageIntact /\ stage' = Torn /\ Goto("end_unstaging")
       \/ stage # None /\ ~StageIntact /\ Block /\ UNCHANGED stage
    /\ UNCHANGED <<source, backup, target, maker, links, records,
                   authorized, owed>>

StageDiscarded ==
    /\ pc = "end_unstaging"
    /\ stage' = None
    /\ Goto("end_clear")
    /\ UNCHANGED <<source, backup, target, maker, links, records,
                   authorized, owed>>

(* Mutant: the journal is left behind. *)
EndClearNothing ==
    /\ pc = "end_clear"
    /\ Return
    /\ UNCHANGED <<disk, records, authorized, owed>>

EndClear == ClearJournal("end_clear")

-----------------------------------------------------------------------------
(* recover() and _finish_promotion.                                        *)

Recover ==
    /\ pc = "idle"
    /\ journal # NoJournal
    /\ mem' = journal
    /\ pc' = IF authorized THEN "fin_check" ELSE "rb_check"
    /\ UNCHANGED <<disk, records, authorized, owed, todo, attempt>>

(* The checks that come before the first change. *)
Ambiguous ==
    \/ registry \notin {None, mem.digest}
    \/ source # None /\ backup # None
    \/ source # None /\ target # None

(* Mutant: a package that is committed is expected to have its backup yet. *)
FinishRefusedUndropped ==
    \/ Ambiguous
    \/ Differs(stage) \/ Differs(backup)
    \/ source = None /\ backup = None

FinishRefused == Ambiguous \/ Differs(stage) \/ Differs(backup)

Finishable == ~Differs(target) /\ ~FinishRefused

Drifted == Differs(target) /\ ~Ambiguous /\ backup = mem.digest

(* What others do between two of the checks is as if done before or after   *)
(* all of them, so one step stands for them.  The steps below ask again     *)
(* whether a package is there, not which one.                               *)
FinishCheck ==
    /\ pc = "fin_check"
    /\ \/ Finishable /\ Goto("fin_staged")
       \/ Drifted /\ Goto("fin_drift")
       \/ ~Finishable /\ ~Drifted /\ Block
    /\ UNCHANGED <<disk, records, authorized, owed>>

(* The target is not the journaled package: give the source back and stop. *)
FinishDrift ==
    /\ pc = "fin_drift"
    /\ \/ /\ Moves(backup, source)
          /\ source' = backup /\ backup' = None
       \/ ~Moves(backup, source) /\ UNCHANGED <<source, backup>>
    /\ Block
    /\ UNCHANGED <<stage, target, maker, links, records, authorized, owed>>

(* The source never left: drop the stage, if any, and the journal.  While   *)
(* there is a stage the source must be what was staged.                     *)
OnlySource == source # None /\ backup = None /\ target = None

FinishStaged ==
    /\ pc = "fin_staged"
    /\ \/ ~(OnlySource /\ stage # None) /\ Goto("fin_source")
       \/ OnlySource /\ stage # None /\ ~Differs(source) /\ Goto("end_unstage")
       \/ OnlySource /\ stage # None /\ Differs(source) /\ Block
    /\ UNCHANGED <<disk, records, authorized, owed>>

(* Mutant: the journal goes, the stage stays. *)
FinishSourceKeepStage ==
    /\ pc = "fin_source"
    /\ Goto(IF OnlySource THEN "end_clear" ELSE "fin_backup")
    /\ UNCHANGED <<disk, records, authorized, owed>>

FinishSource ==
    /\ pc = "fin_source"
    /\ Goto(IF OnlySource THEN "end_unstage" ELSE "fin_backup")
    /\ UNCHANGED <<disk, records, authorized, owed>>

(* The package is parked: commit its stage; without one commit the backup,  *)
(* when the registry owns the skill, or give it back.                       *)
FinishBackup ==
    /\ pc = "fin_backup"
    /\ \/ (backup = None \/ target # None) /\ Goto("fin_target")
       \/ /\ backup # None /\ target = None
          /\ stage # None \/ registry # None
          /\ Goto(IF stage # None THEN "fin_commit" ELSE "fin_restore")
       \/ /\ backup # None /\ target = None /\ stage = None /\ registry = None
          /\ pc' = "fin_unlink" /\ todo' = mem.created
          /\ UNCHANGED <<mem, attempt>>
    /\ UNCHANGED <<disk, records, authorized, owed>>

FinishCommit ==
    /\ pc = "fin_commit"
    /\ \/ /\ Moves(stage, target)
          /\ target' = stage /\ stage' = None /\ maker' = "publisher"
          /\ Goto("fin_target")
       \/ ~Moves(stage, target) /\ Block /\ UNCHANGED <<stage, target, maker>>
    /\ UNCHANGED <<source, backup, links, records, authorized, owed>>

FinishFromBackup ==
    /\ pc = "fin_restore"
    /\ \/ /\ Moves(backup, target)
          /\ target' = backup /\ backup' = None /\ maker' = "publisher"
          /\ Goto("fin_target")
       \/ ~Moves(backup, target) /\ Block /\ UNCHANGED <<backup, target, maker>>
    /\ UNCHANGED <<source, stage, links, records, authorized, owed>>

FinishUnlink == RemoveLinks("fin_unlink", "fin_unpark")

FinishUnpark == RestoreBackup("fin_unpark", "end_clear")

(* A target that is there now is the one to be registered.                  *)
FinishTarget ==
    /\ pc = "fin_target"
    /\ \/ /\ target # None
          /\ pc' = "fin_link" /\ todo' = Adapters /\ UNCHANGED <<mem, attempt>>
       \/ target = None /\ Block
    /\ UNCHANGED <<disk, records, authorized, owed>>

(* An existing link is accepted when this journal or the registry proves   *)
(* that the publisher made it.                                             *)
LinkProved(a) == a \in mem.created \/ registry # None

FinishLink ==
    /\ pc = "fin_link"
    /\ \/ todo = {} /\ Goto("fin_register") /\ UNCHANGED links
       \/ \E a \in todo :
             \/ MakeLink(a) /\ pc' = "fin_w_link" /\ UNCHANGED attempt
             \/ /\ TextMatches(a) /\ LinkProved(a)
                /\ mem' = [mem EXCEPT !.created = @ \cup {a}]
                /\ todo' = todo \ {a}
                /\ pc' = "fin_w_link"
                /\ UNCHANGED <<links, attempt>>
             \/ /\ links[a] # "absent" /\ ~(TextMatches(a) /\ LinkProved(a))
                /\ Block /\ UNCHANGED links
    /\ UNCHANGED <<source, backup, stage, target, maker, records,
                   authorized, owed>>

FinishJournalLink == WritePhase("fin_w_link", "target_committed", "fin_link")

FinishRegister == SaveRegistry("fin_register", "fin_w_registry")

FinishJournalRegistry ==
    WritePhase("fin_w_registry", "registry_committed", "fin_drop")

FinishDropCheck ==
    /\ pc = "fin_drop"
    /\ \/ backup = None /\ Goto("end_unstage")
       \/ backup = mem.digest /\ Goto("fin_drop_cut")
       \/ Differs(backup) /\ Block
    /\ UNCHANGED <<disk, records, authorized, owed>>

FinishDropCut == ShrinkBackup("fin_drop_cut", Torn, "fin_dropping")

FinishDropped == ShrinkBackup("fin_dropping", None, "end_unstage")

Rollback ==
    \/ Handle \/ RollbackCheck \/ RollbackLinks \/ RollbackTarget
    \/ RollbackBackup \/ DiscardStage \/ StageDiscarded \/ EndClear

Finish ==
    \/ FinishCheck \/ FinishDrift \/ FinishStaged \/ FinishSource
    \/ FinishBackup \/ FinishCommit \/ FinishFromBackup
    \/ FinishUnlink \/ FinishUnpark \/ FinishTarget
    \/ FinishLink \/ FinishJournalLink
    \/ FinishRegister \/ FinishJournalRegistry
    \/ FinishDropCheck \/ FinishDropCut \/ FinishDropped

Publisher == Promote \/ Rollback \/ Recover \/ Finish

-----------------------------------------------------------------------------
(* Faults. *)

(* A system call fails before its effect; one that fails after it (a       *)
(* rename whose fsync fails) is the step followed by this one.  The copy   *)
(* removes what it made, unless that fails too.                            *)
IOError ==
    /\ "io" \in Faults
    /\ pc # "idle"
    /\ IF pc \in PromoteSteps THEN Fail ELSE Block
    /\ stage' \in IF pc = "copying" THEN {Torn, None} ELSE {stage}
    /\ UNCHANGED <<source, backup, target, maker, links, records,
                   authorized, owed>>

(* The planned journal is written before the try block of promote: when    *)
(* its fsync fails, promote raises and nothing rolls back.                 *)
PlanUnsynced == "io" \in Faults /\ Plan /\ UNCHANGED <<pc, mem>>

(* The process dies and the kernel releases its locks; an exception no     *)
(* `except Exception' catches, such as KeyboardInterrupt, does the same.   *)
Crash ==
    /\ "crash" \in Faults
    /\ pc # "idle"
    /\ Return
    /\ UNCHANGED <<disk, records, authorized, owed>>

-----------------------------------------------------------------------------
(* A write through an open handle: "late" before the parked package is     *)
(* rehashed, "stale" at any later time.                                    *)
LateWrite ==
    /\ \/ "late" \in Outsiders /\ pc \in {"w_parked", "rehash"}
       \/ "stale" \in Outsiders
    /\ WriteBackup
    /\ UNCHANGED prog

Environment == LateWrite \/ (Outside /\ UNCHANGED prog)

Fault == IOError \/ PlanUnsynced \/ Crash

Next == Publisher \/ Fault \/ Environment

Spec == Init /\ [][Next]_vars

===============================================================================
