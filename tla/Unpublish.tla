------------------------------- MODULE Unpublish -------------------------------
(***************************************************************************)
(* publisher.unpublish, its inverse rollback, and recover() with           *)
(* _finish_unpublish: a registered package goes back to the local skills   *)
(* root with another scope.  The stage lies next to the local package and  *)
(* the backup in the shared root, the other way round than in a promotion. *)
(***************************************************************************)
EXTENDS SkillStore

CONSTANT Private    \* what rewriting the scope makes of each version

ASSUME PrivateAssumption == Private \in [Package -> Package \ Shared]

VARIABLES
    withdrawal, \* the durable journal of the unpublish transaction
    memo,       \* that journal as the running operation holds it
    draft,      \* the version the stage is being rewritten to
    rest        \* the adapters a loop has still to visit

task  == <<memo, draft, rest>>
still == <<journal, authorized, owed>>
unpublishVars == <<disk, records, authorized, owed, withdrawal, pc, task>>

UnpublishPhases ==
    {"none", "planned", "staged", "source_parked", "target_committed",
     "adapters_committed", "registry_committed"}

Withdrawals == [phase: UnpublishPhases, canonical: Place, local: Place]

NoWithdrawal == [phase |-> "none", canonical |-> None, local |-> None]

(* Where an exception is caught by the handler of unpublish. *)
UnpublishSteps ==
    {"u_copy", "u_copying", "u_rewrite", "u_rewriting", "u_hash",
     "u_w_staged", "u_park", "u_w_parked", "u_commit", "u_w_target",
     "u_unlink", "u_w_adapters", "u_forget", "u_w_registry", "u_drop",
     "u_dropping", "u_clear"}

UndoSteps ==
    {"undo", "undo_local", "undo_park", "undo_links", "undo_stage",
     "undo_staged", "undo_clear"}

ResumeSteps ==
    {"r_check", "r_unstage", "r_unstaged", "r_pick", "r_unlink", "r_forget",
     "r_drop", "r_dropping", "r_stage", "r_staged", "r_clear"}

(* Every variable holds a value of its kind, and no promotion is pending. *)
UnpublishTypeOK ==
    /\ StoreTypeOK /\ journal = NoJournal
    /\ withdrawal \in Withdrawals /\ memo \in Withdrawals
    /\ draft \in Place
    /\ rest \subseteq Adapters
    /\ pc \in {"idle"} \cup UnpublishSteps \cup UndoSteps \cup ResumeSteps

(* A published skill. *)
UnpublishInit ==
    /\ target \in Shared /\ registry = target /\ maker = "publisher"
    /\ links = [a \in Adapters |-> "ours"]
    /\ source = None /\ backup = None /\ stage = None
    /\ journal = NoJournal /\ withdrawal = NoWithdrawal
    /\ authorized = TRUE
    /\ owed = {target}
    /\ pc = "idle" /\ memo = NoWithdrawal /\ draft = None /\ rest = {}

-----------------------------------------------------------------------------
(* Control, and the steps that several operations take. *)

To(step) == pc' = step /\ UNCHANGED task

Visit(step) == pc' = step /\ rest' = Adapters /\ UNCHANGED <<memo, draft>>

Done == pc' = "idle" /\ memo' = NoWithdrawal /\ draft' = None /\ rest' = {}

Record(at, phase, next) ==
    /\ pc = at
    /\ memo' = [memo EXCEPT !.phase = phase]
    /\ withdrawal' = memo'
    /\ pc' = next
    /\ UNCHANGED <<disk, registry, still, draft, rest>>

Rename(from, to) == Moves(from, to) /\ to' = from /\ from' = None

(* A removal checks the digest and then unlinks entry by entry.  That a     *)
(* write may slip in between is shown for the promotion.                    *)
Remove(at, cut, tree, expected, next, stop) ==
    \/ /\ pc = at
       /\ \/ tree = expected /\ tree' = Torn /\ To(cut)
          \/ tree # expected /\ stop /\ UNCHANGED tree
    \/ pc = cut /\ tree' = None /\ To(next)

(* Mutant: the loop over the adapters ends after the first removal. *)
UnlinkFirst(at, next, stop) ==
    /\ pc = at
    /\ \/ rest = {} /\ To(next) /\ UNCHANGED links
       \/ \E a \in rest :
             \/ /\ links[a] # "other"
                /\ links' = [links EXCEPT ![a] = "absent"]
                /\ To(next)
             \/ links[a] = "other" /\ stop /\ UNCHANGED links
    /\ UNCHANGED <<source, backup, stage, target, maker, registry,
                   withdrawal, still>>

(* Every recorded link goes; an object that is not the link stops the loop. *)
Unlink(at, next, stop) ==
    /\ pc = at
    /\ \/ rest = {} /\ To(next) /\ UNCHANGED links
       \/ \E a \in rest :
             \/ /\ links[a] # "other"
                /\ links' = [links EXCEPT ![a] = "absent"]
                /\ rest' = rest \ {a}
                /\ UNCHANGED <<pc, memo, draft>>
             \/ links[a] = "other" /\ stop /\ UNCHANGED links
    /\ UNCHANGED <<source, backup, stage, target, maker, registry,
                   withdrawal, still>>

Forget(at, next) ==
    /\ pc = at
    /\ registry' = None
    /\ To(next)
    /\ UNCHANGED <<disk, withdrawal, still>>

RemoveWithdrawal(at) ==
    /\ pc = at
    /\ withdrawal' = NoWithdrawal
    /\ Done
    /\ UNCHANGED <<disk, registry, still>>

-----------------------------------------------------------------------------
(* unpublish. *)

Raise == To("undo")

Withdrawable ==
    /\ target \in Shared /\ registry = target
    /\ source = None
    /\ \A a \in Adapters : links[a] = "absent" \/ TextMatches(a)

(* The journal comes first: a stage without one could not be identified. *)
Request ==
    /\ pc = "idle"
    /\ journal = NoJournal /\ withdrawal = NoWithdrawal
    /\ authorized
    /\ Withdrawable
    /\ withdrawal' = [phase |-> "planned", canonical |-> target, local |-> None]
    /\ UNCHANGED <<disk, registry, still, draft, rest>>

Start == Request /\ pc' = "u_copy" /\ memo' = withdrawal'

StartStage ==
    /\ pc = "u_copy"
    /\ \/ Moves(target, stage) /\ stage' = Torn /\ To("u_copying")
       \/ ~Moves(target, stage) /\ Raise /\ UNCHANGED stage
    /\ UNCHANGED <<source, backup, target, maker, links, registry,
                   withdrawal, still>>

FinishStage ==
    /\ pc = "u_copying"
    /\ \/ target \in Package /\ stage' = target /\ To("u_rewrite")
       \/ target # memo.canonical /\ stage' = None /\ Raise
    /\ UNCHANGED <<source, backup, target, maker, links, registry,
                   withdrawal, still>>

(* SKILL.md is read, truncated and written anew in place. *)
Rewrite ==
    /\ pc = "u_rewrite"
    /\ draft' = Private[stage]
    /\ stage' = Torn
    /\ pc' = "u_rewriting"
    /\ UNCHANGED <<source, backup, target, maker, links, registry,
                   withdrawal, still, memo, rest>>

Rewritten ==
    /\ pc = "u_rewriting"
    /\ stage' = draft
    /\ To("u_hash")
    /\ UNCHANGED <<source, backup, target, maker, links, registry,
                   withdrawal, still>>

Localised == {Private[p] : p \in Package}

(* The rewritten stage must validate; its digest is the local one. *)
HashStage ==
    /\ pc = "u_hash"
    /\ \/ /\ stage \in Localised
          /\ memo' = [memo EXCEPT !.local = stage]
          /\ pc' = "u_w_staged"
          /\ UNCHANGED <<draft, rest>>
       \/ stage \notin Localised /\ Raise
    /\ UNCHANGED <<disk, registry, withdrawal, still>>

RecordStaged == Record("u_w_staged", "staged", "u_park")

ParkTarget ==
    /\ pc = "u_park"
    /\ \/ Rename(target, backup) /\ maker' = "publisher" /\ To("u_w_parked")
       \/ ~Moves(target, backup) /\ Raise /\ UNCHANGED <<target, backup, maker>>
    /\ UNCHANGED <<source, stage, links, registry, withdrawal, still>>

RecordParked == Record("u_w_parked", "source_parked", "u_commit")

CommitLocal ==
    /\ pc = "u_commit"
    /\ \/ Rename(stage, source) /\ To("u_w_target")
       \/ ~Moves(stage, source) /\ Raise /\ UNCHANGED <<stage, source>>
    /\ UNCHANGED <<backup, target, maker, links, registry, withdrawal, still>>

RecordLocal ==
    /\ pc = "u_w_target"
    /\ memo' = [memo EXCEPT !.phase = "target_committed"]
    /\ withdrawal' = memo'
    /\ pc' = "u_unlink" /\ rest' = Adapters
    /\ UNCHANGED <<disk, registry, still, draft>>

UnlinkAdapters == Unlink("u_unlink", "u_w_adapters", Raise)

(* Mutant: the backup is dropped while the registry still owns the skill. *)
RecordAdaptersDropFirst ==
    Record("u_w_adapters", "adapters_committed", "u_drop")

RecordAdapters == Record("u_w_adapters", "adapters_committed", "u_forget")

ForgetSkill == Forget("u_forget", "u_w_registry")

(* Mutant: a phase of promotion, which the journal validator rejects here. *)
RecordRegistryCommitted == Record("u_w_registry", "committed", "u_drop")

RecordRegistry == Record("u_w_registry", "registry_committed", "u_drop")

DropCanonical ==
    /\ Remove("u_drop", "u_dropping", backup, memo.canonical, "u_clear", Raise)
    /\ UNCHANGED <<source, stage, target, maker, links, registry,
                   withdrawal, still>>

Complete == RemoveWithdrawal("u_clear")

Withdraw ==
    \/ Start \/ StartStage \/ FinishStage \/ Rewrite \/ Rewritten
    \/ HashStage \/ RecordStaged \/ ParkTarget \/ RecordParked
    \/ CommitLocal \/ RecordLocal \/ UnlinkAdapters \/ RecordAdapters
    \/ ForgetSkill \/ RecordRegistry \/ DropCanonical \/ Complete

-----------------------------------------------------------------------------
(* The handler: leave durable local state to recovery, or undo everything. *)

WithdrawnDurably ==
    /\ registry = None
    /\ memo.local # None /\ source = memo.local
    /\ target = None

(* Mutant: the inverse rollback does not look at the registry. *)
UndoUnchecked ==
    /\ pc = "undo"
    /\ IF WithdrawnDurably THEN Done ELSE To("undo_local")
    /\ UNCHANGED <<disk, registry, withdrawal, still>>

Undo ==
    /\ pc = "undo"
    /\ IF WithdrawnDurably \/ registry # memo.canonical
         THEN Done
         ELSE To("undo_local")
    /\ UNCHANGED <<disk, registry, withdrawal, still>>

UndoLocal ==
    /\ pc = "undo_local"
    /\ \/ source = None /\ To("undo_park") /\ UNCHANGED <<source, stage>>
       \/ /\ source = memo.local /\ Rename(source, stage)
          /\ To("undo_park")
       \/ /\ source # None /\ ~(source = memo.local /\ Moves(source, stage))
          /\ Done /\ UNCHANGED <<source, stage>>
    /\ UNCHANGED <<backup, target, maker, links, registry, withdrawal, still>>

UndoPark ==
    /\ pc = "undo_park"
    /\ \/ backup = None /\ Visit("undo_links")
          /\ UNCHANGED <<backup, target, maker>>
       \/ /\ backup = memo.canonical /\ Rename(backup, target)
          /\ maker' = "publisher"
          /\ Visit("undo_links")
       \/ /\ backup # None /\ ~(backup = memo.canonical /\ Moves(backup, target))
          /\ Done /\ UNCHANGED <<backup, target, maker>>
    /\ UNCHANGED <<source, stage, links, registry, withdrawal, still>>

(* Links that unpublish removed are made again, without a journal entry. *)
UndoLinks ==
    /\ pc = "undo_links"
    /\ \/ rest = {} /\ To("undo_stage") /\ UNCHANGED links
       \/ \E a \in rest :
             \/ /\ links[a] = "absent" \/ TextMatches(a)
                /\ links' = [links EXCEPT
                               ![a] = IF @ = "absent" THEN "ours" ELSE @]
                /\ rest' = rest \ {a}
                /\ UNCHANGED <<pc, memo, draft>>
             \/ links[a] = "other" /\ Done /\ UNCHANGED links
    /\ UNCHANGED <<source, backup, stage, target, maker, registry,
                   withdrawal, still>>

(* Mutant: the stage is taken for a plain copy also after the rewriting. *)
StageExpectedCanonical == memo.canonical

(* Before its digest is journaled only an untouched copy of the canonical  *)
(* package is provably the stage of this operation.                        *)
StageExpected == IF memo.local # None THEN memo.local ELSE memo.canonical

DiscardOwnStage(at, cut, next) ==
    /\ \/ pc = at /\ stage = None /\ To(next) /\ UNCHANGED stage
       \/ (pc = at => stage # None)
          /\ Remove(at, cut, stage, StageExpected, next, Done)
    /\ UNCHANGED <<source, backup, target, maker, links, registry,
                   withdrawal, still>>

UndoStage == DiscardOwnStage("undo_stage", "undo_staged", "undo_clear")

UndoComplete == registry = memo.canonical /\ RemoveWithdrawal("undo_clear")

UndoAll ==
    \/ Undo \/ UndoLocal \/ UndoPark \/ UndoLinks \/ UndoStage
    \/ UndoComplete

-----------------------------------------------------------------------------
(* recover() and _finish_unpublish. *)

(* _validate_journal: an invalid journal is a barrier for every operation. *)
WithdrawalValid ==
    IF registry # None
      THEN registry = withdrawal.canonical
      ELSE /\ withdrawal.phase \in {"adapters_committed", "registry_committed"}
           /\ source # None

Resume ==
    /\ pc = "idle"
    /\ withdrawal # NoWithdrawal /\ WithdrawalValid
    /\ authorized
    /\ memo' = withdrawal
    /\ pc' = "r_check"
    /\ UNCHANGED <<disk, registry, withdrawal, still, draft, rest>>

(* Every object that is there is verified before the first change. *)
Conflict ==
    \/ registry \notin {None, memo.canonical}
    \/ registry = None /\ source = None
    \/ target # None /\ (source # None \/ backup # None)
    \/ source # None /\ stage # None
    \/ target \notin {None, memo.canonical}
    \/ backup \notin {None, memo.canonical}
    \/ source \notin {None, memo.local}
    \/ stage \notin {None, StageExpected}
    \/ stage # None /\ memo.local # None /\ stage \notin Localised

ResumeCheck ==
    /\ pc = "r_check"
    /\ \/ Conflict /\ Done
       \/ ~Conflict /\ stage # None /\ memo.local = None /\ To("r_unstage")
       \/ ~Conflict /\ (stage = None \/ memo.local # None) /\ To("r_pick")
    /\ UNCHANGED <<disk, registry, withdrawal, still>>

ResumeUnstage ==
    /\ Remove("r_unstage", "r_unstaged", stage, memo.canonical, "r_pick", Done)
    /\ UNCHANGED <<source, backup, target, maker, links, registry,
                   withdrawal, still>>

(* Mutant: recovery takes the links for removed. *)
ResumeLocalLinked ==
    /\ pc = "r_pick"
    /\ source # None
    /\ To("r_forget")
    /\ UNCHANGED <<disk, registry, withdrawal, still>>

(* The local package is in place: remove what is left of the shared one. *)
ResumeLocal ==
    /\ pc = "r_pick"
    /\ source # None
    /\ IF registry # None THEN Visit("r_unlink") ELSE To("r_forget")
    /\ UNCHANGED <<disk, registry, withdrawal, still>>

ResumeCommit ==
    /\ pc = "r_pick"
    /\ source = None /\ backup # None /\ target = None
    /\ Rename(stage, source)
    /\ To("r_check")
    /\ UNCHANGED <<backup, target, maker, links, registry, withdrawal, still>>

ResumeUnpark ==
    /\ pc = "r_pick"
    /\ source = None /\ stage = None
    /\ Rename(backup, target) /\ maker' = "publisher"
    /\ To("r_clear")
    /\ UNCHANGED <<source, stage, links, registry, withdrawal, still>>

(* Mutant: the journal goes, the stage stays. *)
ResumeAbortKeepStage ==
    /\ pc = "r_pick"
    /\ source = None /\ target # None
    /\ stage # None \/ backup = None
    /\ To("r_clear")
    /\ UNCHANGED <<disk, registry, withdrawal, still>>

(* Mutant: a planned journal without a stage is not thought of. *)
ResumeAbortStaged ==
    /\ pc = "r_pick"
    /\ source = None /\ target # None
    /\ stage # None
    /\ To("r_stage")
    /\ UNCHANGED <<disk, registry, withdrawal, still>>

(* The canonical package never left: drop the stage, if any. *)
ResumeAbort ==
    /\ pc = "r_pick"
    /\ source = None /\ target # None
    /\ stage # None \/ backup = None
    /\ To("r_stage")
    /\ UNCHANGED <<disk, registry, withdrawal, still>>

ResumeLost ==
    /\ pc = "r_pick"
    /\ source = None
    /\ \/ target = None /\ backup = None
       \/ target # None /\ backup # None /\ stage = None
    /\ Done
    /\ UNCHANGED <<disk, registry, withdrawal, still>>

ResumeUnlink == Unlink("r_unlink", "r_forget", Done)

ResumeForget == Forget("r_forget", "r_drop")

ResumeDrop ==
    /\ \/ pc = "r_drop" /\ backup = None /\ To("r_stage") /\ UNCHANGED backup
       \/ (pc = "r_drop" => backup # None)
          /\ Remove("r_drop", "r_dropping", backup, memo.canonical, "r_stage", Done)
    /\ UNCHANGED <<source, stage, target, maker, links, registry,
                   withdrawal, still>>

ResumeStage == DiscardOwnStage("r_stage", "r_staged", "r_clear")

ResumeComplete == RemoveWithdrawal("r_clear")

ResumeAll ==
    \/ Resume \/ ResumeCheck \/ ResumeUnstage \/ ResumeLocal \/ ResumeCommit
    \/ ResumeUnpark \/ ResumeAbort \/ ResumeLost \/ ResumeUnlink
    \/ ResumeForget \/ ResumeDrop \/ ResumeStage \/ ResumeComplete

Unpublisher == Withdraw \/ UndoAll \/ ResumeAll

-----------------------------------------------------------------------------
(* Faults, as for a promotion. *)

CallFails ==
    /\ "io" \in Faults
    /\ pc # "idle"
    /\ IF pc \in UnpublishSteps THEN Raise ELSE Done
    /\ stage' \in IF pc = "u_copying" THEN {Torn, None} ELSE {stage}
    /\ UNCHANGED <<source, backup, target, maker, links, registry,
                   withdrawal, still>>

RequestUnsynced == "io" \in Faults /\ Request /\ UNCHANGED <<pc, memo>>

Dies ==
    /\ "crash" \in Faults
    /\ pc # "idle"
    /\ Done
    /\ UNCHANGED <<disk, registry, withdrawal, still>>

UnpublishFault == CallFails \/ RequestUnsynced \/ Dies

UnpublishOutside == Outside /\ UNCHANGED <<withdrawal, task>>

UnpublishNext == Unpublisher \/ UnpublishFault \/ UnpublishOutside

UnpublishSpec == UnpublishInit /\ [][UnpublishNext]_unpublishVars

===============================================================================
