------------------------------- MODULE Promotion -------------------------------
(***************************************************************************)
(* publisher.promote, from the barrier to the removal of its journal.      *)
(* What undoes or finishes it when a step fails is in PromotionRecovery.   *)
(*                                                                         *)
(* The operations run under the state lock, so one program counter stands  *)
(* for whoever holds it.  A step is one system call or one check, for the  *)
(* host may crash, a call may fail and an outsider may move between any    *)
(* two of them.                                                            *)
(***************************************************************************)
EXTENDS SkillStore

VARIABLES
    mem,      \* the journal as the running operation holds it in memory
    todo,     \* the adapters a loop over adapters has still to visit
    attempt   \* which of the staging attempts is running

MaxAttempts == 3    \* range(3) in promote

prog == <<mem, todo, attempt>>
vars == <<disk, records, authorized, owed, pc, prog>>

(* Where an exception is caught by the handler of promote. *)
PromoteSteps ==
    {"digest", "w_planned", "copy", "copying", "w_staged", "park",
     "w_parked", "rehash", "unpark", "unstage", "unstaging", "commit",
     "verify", "w_target", "link", "w_link", "w_adapters", "register",
     "w_registry", "drop", "drop_cut", "dropping", "w_committed", "clear"}

-----------------------------------------------------------------------------
(* Control. *)

Goto(step) == pc' = step /\ UNCHANGED prog

Fail == Goto("handler")

Return == pc' = "idle" /\ mem' = NoJournal /\ todo' = {} /\ attempt' = 1

(* _journal_phase: memory first, then the durable journal. *)
WritePhase(at, phase, next) ==
    /\ pc = at
    /\ mem' = [mem EXCEPT !.phase = phase]
    /\ journal' = mem'
    /\ pc' = next
    /\ UNCHANGED <<disk, registry, authorized, owed, todo, attempt>>

-----------------------------------------------------------------------------
(* promote: the preflight and the planned journal.                         *)

Barred == journal # NoJournal

Publishable ==
    /\ source \in Shared
    /\ target = None
    /\ \A a \in Adapters : links[a] = "absent"

Plan ==
    /\ pc = "idle"
    /\ ~Barred
    /\ authorized
    /\ registry = None
    /\ Publishable
    /\ journal' = [phase |-> "planned", digest |-> source, created |-> {}]
    /\ UNCHANGED <<disk, registry, authorized, owed, todo, attempt>>

Begin == Plan /\ pc' = "digest" /\ mem' = journal'

(* Each attempt rehashes the source and journals a digest that moved.      *)
ReadSource ==
    /\ pc = "digest"
    /\ \/ source = None /\ Fail
       \/ source = mem.digest /\ Goto("copy")
       \/ /\ source \notin {None, mem.digest}
          /\ mem' = [mem EXCEPT !.digest = source]
          /\ pc' = "w_planned"
          /\ UNCHANGED <<todo, attempt>>
    /\ UNCHANGED <<disk, records, authorized, owed>>

Replan == WritePhase("w_planned", "planned", "copy")

StartCopy ==
    /\ pc = "copy"
    /\ \/ Moves(source, stage) /\ stage' = Torn /\ Goto("copying")
       \/ ~Moves(source, stage) /\ Fail /\ UNCHANGED stage
    /\ UNCHANGED <<source, backup, target, maker, links, records,
                   authorized, owed>>

(* Mutant: the staged SKILL.md is not validated again. *)
StagedUnvalidated == source \in Package /\ source = mem.digest

Staged == source \in Shared /\ source = mem.digest

(* The copy reads the source while others write it.  When it and a second  *)
(* digest of the source agree the stage holds the source as it is now,     *)
(* otherwise safe_copy_tree removes it.  The stage must then validate and  *)
(* have the journaled digest.                                              *)
FinishCopy ==
    /\ pc = "copying"
    /\ \/ Staged /\ stage' = source /\ Goto("w_staged")
       \/ source # None /\ ~Staged /\ stage' = source /\ Fail
       \/ source # mem.digest /\ stage' = None /\ Fail
    /\ UNCHANGED <<source, backup, target, maker, links, records,
                   authorized, owed>>

JournalStaged == WritePhase("w_staged", "staged", "park")

Park ==
    /\ pc = "park"
    /\ \/ /\ Moves(source, backup)
          /\ backup' = source /\ source' = None
          /\ Goto("w_parked")
       \/ ~Moves(source, backup) /\ Fail /\ UNCHANGED <<source, backup>>
    /\ UNCHANGED <<stage, target, maker, links, records, authorized, owed>>

JournalParked == WritePhase("w_parked", "source_parked", "rehash")

(* Mutant: no rehash. *)
ParkedUnchecked == TRUE

(* Mutant: the comparison is the wrong way round. *)
ParkedInverted == backup # mem.digest

(* A local write may have landed between staging and parking. *)
ParkedIntact == backup = mem.digest

Rehash ==
    /\ pc = "rehash"
    /\ Goto(IF ParkedIntact THEN "commit" ELSE "unpark")
    /\ UNCHANGED <<disk, records, authorized, owed>>

Unpark ==
    /\ pc = "unpark"
    /\ \/ /\ Moves(backup, source)
          /\ source' = backup /\ backup' = None
          /\ Goto("unstage")
       \/ ~Moves(backup, source) /\ Fail /\ UNCHANGED <<source, backup>>
    /\ UNCHANGED <<stage, target, maker, links, records, authorized, owed>>

(* safe_remove_tree checks the digest, then removes the tree entry by      *)
(* entry: a removal that is cut short leaves a torn tree.                  *)
StageIntact == stage = mem.digest

Unstage ==
    /\ pc = "unstage"
    /\ \/ StageIntact /\ stage' = Torn /\ Goto("unstaging")
       \/ ~StageIntact /\ Fail /\ UNCHANGED stage
    /\ UNCHANGED <<source, backup, target, maker, links, records,
                   authorized, owed>>

(* Mutant: one attempt too many. *)
AttemptsLeftLax == attempt <= MaxAttempts

AttemptsLeft == attempt < MaxAttempts

Unstaged ==
    /\ pc = "unstaging"
    /\ stage' = None
    /\ \/ /\ AttemptsLeft
          /\ attempt' = attempt + 1
          /\ pc' = "digest"
          /\ UNCHANGED <<mem, todo>>
       \/ ~AttemptsLeft /\ Fail
    /\ UNCHANGED <<source, backup, target, maker, links, records,
                   authorized, owed>>

-----------------------------------------------------------------------------
(* promote: the commit. *)

Commit ==
    /\ pc = "commit"
    /\ \/ /\ Moves(stage, target)
          /\ target' = stage /\ stage' = None /\ maker' = "publisher"
          /\ Goto("verify")
       \/ ~Moves(stage, target) /\ Fail /\ UNCHANGED <<stage, target, maker>>
    /\ UNCHANGED <<source, backup, links, records, authorized, owed>>

Verify ==
    /\ pc = "verify"
    /\ \/ /\ target = mem.digest
          /\ pc' = "w_target" /\ todo' = Adapters
          /\ UNCHANGED <<mem, attempt>>
       \/ target # mem.digest /\ Fail
    /\ UNCHANGED <<disk, records, authorized, owed>>

(* Mutant: on to the adapters phase without making a link. *)
JournalTargetNoLinks ==
    WritePhase("w_target", "target_committed", "w_adapters")

JournalTarget == WritePhase("w_target", "target_committed", "link")

(* Mutant: the link is made and not recorded. *)
MakeLinkUnrecorded(a) ==
    /\ links[a] = "absent"
    /\ links' = [links EXCEPT ![a] = "ours"]
    /\ todo' = todo \ {a}
    /\ UNCHANGED mem

(* os.symlink and the append to created_adapters; the durable journal      *)
(* learns of it one step later.                                            *)
MakeLink(a) ==
    /\ links[a] = "absent"
    /\ links' = [links EXCEPT ![a] = "ours"]
    /\ mem' = [mem EXCEPT !.created = @ \cup {a}]
    /\ todo' = todo \ {a}

Link ==
    /\ pc = "link"
    /\ \/ todo = {} /\ Goto("w_adapters") /\ UNCHANGED links
       \/ \E a \in todo :
             \/ MakeLink(a) /\ pc' = "w_link" /\ UNCHANGED attempt
             \/ links[a] # "absent" /\ Fail /\ UNCHANGED links
    /\ UNCHANGED <<source, backup, stage, target, maker, records,
                   authorized, owed>>

JournalLink == WritePhase("w_link", "target_committed", "link")

(* Mutant: the backup is dropped before the registry is saved. *)
JournalAdaptersDropFirst ==
    WritePhase("w_adapters", "adapters_committed", "drop")

JournalAdapters == WritePhase("w_adapters", "adapters_committed", "register")

SaveRegistry(at, next) ==
    /\ pc = at
    /\ registry' = mem.digest
    /\ Goto(next)
    /\ UNCHANGED <<disk, journal, authorized, owed>>

Register == SaveRegistry("register", "w_registry")

JournalRegistry == WritePhase("w_registry", "registry_committed", "drop")

(* The backup goes last.  Its digest is checked in one step and its first  *)
(* entry unlinked in a later one.                                          *)
DropCheck ==
    /\ pc = "drop"
    /\ IF backup = mem.digest THEN Goto("drop_cut") ELSE Fail
    /\ UNCHANGED <<disk, records, authorized, owed>>

ShrinkBackup(at, content, next) ==
    /\ pc = at
    /\ backup' = content
    /\ Goto(next)
    /\ UNCHANGED <<source, stage, target, maker, links, records,
                   authorized, owed>>

DropCut == ShrinkBackup("drop_cut", Torn, "dropping")

Dropped == ShrinkBackup("dropping", None, "w_committed")

JournalCommitted == WritePhase("w_committed", "committed", "clear")

ClearJournal(at) ==
    /\ pc = at
    /\ journal' = NoJournal
    /\ Return
    /\ UNCHANGED <<disk, registry, authorized, owed>>

Clear == ClearJournal("clear")

Promote ==
    \/ Begin \/ ReadSource \/ Replan \/ StartCopy \/ FinishCopy
    \/ JournalStaged \/ Park \/ JournalParked \/ Rehash
    \/ Unpark \/ Unstage \/ Unstaged
    \/ Commit \/ Verify \/ JournalTarget
    \/ Link \/ JournalLink \/ JournalAdapters
    \/ Register \/ JournalRegistry
    \/ DropCheck \/ DropCut \/ Dropped \/ JournalCommitted \/ Clear

===============================================================================
