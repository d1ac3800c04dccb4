----------------------------- MODULE ManagedSkill -----------------------------
(***************************************************************************)
(* One skill of one profile and the sessions that work on it: agents, with *)
(* tool calls and turn boundaries, and commands of the operator.           *)
(* Promotion and unpublish are coarse here: what other sessions can see of *)
(* them, in the order in which they can see it, with a step of its own     *)
(* wherever somebody without a lock may come between a check and what is   *)
(* done after it.                                                          *)
(***************************************************************************)
EXTENDS Locks

CONSTANTS
    Package,    \* the package versions
    Shared,     \* the versions whose SKILL.md is valid with scope shared
    Withdrawn,  \* the version with the scope rewritten by unpublish
    None,       \* nothing at this path
    Agents,     \* the sessions of agents; the others are commands
    SharedRoot, \* the root of the canonical package
    Configs,    \* the sets of adapter roots an operator may configure
    MaxMade     \* bound on publications in one behaviour

ASSUME SkillAssumption ==
    /\ Shared \subseteq Package
    /\ Withdrawn \in Package \ Shared
    /\ None \notin Package
    /\ Agents \subseteq Session
    /\ \A s, t \in Session : ProfileOf[s] = ProfileOf[t]
    /\ SharedRoot \in Root
    /\ Configs \subseteq SUBSET (Root \ {SharedRoot})
    /\ MaxMade \in Nat

VARIABLES
    local,      \* the package below the local skills root
    parked,     \* the package a pending transaction keeps in a hidden place
    stage,      \* the copy it keeps beside it, to put in the other place
    target,     \* the canonical package
    links,      \* the object at the adapter path in each root
    record,     \* the publication in the registry
    journal,    \* the pending transaction
    made,       \* publications so far: created_at tells them apart
    roots,      \* the adapter roots in the configuration
    approval,   \* skills.write_approval
    pc,         \* the next step of each session
    act,        \* what its call is for
    seen,       \* the record it read before it had the locks
    conf,       \* the configuration it loaded
    kept,       \* the SKILL.md it read to restore
    bypass,     \* the write-gate bypass of its context
    latched,    \* a gate fault disabled writes in its process
    strayed,    \* history: a core call changed the target unrecorded
    disturbed   \* history: the local package was changed without a lock
                \* while an unpublish was pending

store   == <<local, parked, stage, target, links, record, journal, made,
             strayed, disturbed>>
session == <<act, seen, conf, kept, bypass, latched>>
policy  == <<roots, approval>>

skillVars == <<store, session, policy, pc, lockVars>>

-----------------------------------------------------------------------------
NoRecord == [digest |-> None, roots |-> {}, made |-> 0]

Record == [digest: Package, roots: SUBSET Root, made: 1..MaxMade]

NoJournal == [kind |-> "none", digest |-> None, roots |-> {}]

Journal ==
    [kind: {"promote", "unpublish"}, digest: Package, roots: SUBSET Root]

(* A lost link is one of ours that neither a journal nor a record knows. *)
LinkKinds == {"absent", "ours", "lost", "other"}

SkillInit ==
    /\ LockInit
    /\ local \in Shared
    /\ parked = None /\ stage = None /\ target = None
    /\ links = [r \in Root |-> "absent"]
    /\ record = NoRecord /\ journal = NoJournal /\ made = 0
    /\ roots \in Configs
    /\ approval = FALSE
    /\ pc = [s \in Session |-> "idle"]
    /\ act = [s \in Session |-> "none"]
    /\ seen = [s \in Session |-> NoRecord]
    /\ conf = [s \in Session |-> {}]
    /\ kept = [s \in Session |-> None]
    /\ bypass = [s \in Session |-> FALSE]
    /\ latched = [s \in Session |-> FALSE]
    /\ strayed = FALSE /\ disturbed = FALSE

-----------------------------------------------------------------------------
Go(s, step) == pc' = [pc EXCEPT ![s] = step]

Inside(s, step) == pc[s] = step /\ In(s)

(* What a session remembers ends with its call. *)
Forget(s) ==
    /\ act' = [act EXCEPT ![s] = "none"]
    /\ seen' = [seen EXCEPT ![s] = NoRecord]
    /\ conf' = [conf EXCEPT ![s] = {}]
    /\ kept' = [kept EXCEPT ![s] = None]

(* The call returns or raises, and gives up the locks it holds. *)
Done(s) ==
    /\ Go(s, "idle")
    /\ Forget(s)
    /\ IF at[s] = "out" THEN UNCHANGED lockVars ELSE Drop(s)

(* _lock_roots of a configuration. *)
LockRoots(adapters) == {SharedRoot} \cup adapters

Barrier == journal # NoJournal

(* The validator accepts the journal of a promotion only while its adapters *)
(* are those of the configuration.                                         *)
JournalValid(adapters) ==
    journal.kind = "promote" => journal.roots = adapters

(* No foreign object at any of these adapter paths. *)
Owned(adapters) == \A r \in adapters : links[r] # "other"

Unoccupied(adapters) == \A r \in adapters : links[r] = "absent"

(* The mutating commands and the hooks check the host before anything else.*)
MayMutate(s) == ~latched[s] /\ ~approval

(* create_relative_symlink at all paths, remove_owned_symlink at all paths. *)
Linked(adapters) ==
    [r \in Root |-> IF r \in adapters THEN "ours" ELSE links[r]]

Unlinked(adapters) ==
    [r \in Root |-> IF r \in adapters /\ links[r] = "ours"
                    THEN "absent" ELSE links[r]]

(* Put back what is absent, create_relative_symlink where nothing is. *)
Relinked(adapters) ==
    [r \in Root |-> IF r \in adapters /\ links[r] = "absent"
                    THEN "ours" ELSE links[r]]

(* Whoever changes the local package without a lock disturbs an unpublish. *)
Disturbing ==
    disturbed' = (disturbed \/ (journal.kind = "unpublish" /\ local' # local))

-----------------------------------------------------------------------------
(* Locks, taken file by file while the session is about to do its step.    *)
Acquire(s) ==
    /\ TakeState(s) \/ \E r \in Root : TakeRoot(s, r)
    /\ UNCHANGED <<store, session, policy, pc>>

(* Ten seconds are over: TimeoutError out of acquire_locks ends the call.  *)
GiveUp(s) ==
    /\ MayGiveUp(s)
    /\ Done(s)
    /\ UNCHANGED <<store, policy, bypass, latched>>

-----------------------------------------------------------------------------
(* A link is made first and entered in the journal of the promotion next. *)
Unjournaled(s) ==
    {r \in journal.roots :
        /\ journal.kind = "promote" /\ links[r] = "absent"
        /\ \/ Inside(s, "register")
           \/ Inside(s, "finish") /\ local = None /\ target = journal.digest}

(* The process dies, or neither a call nor its rollback can write any more. *)
(* A core call that was not recorded stays unrecorded, and so does a link. *)
Crash(s) ==
    /\ pc[s] # "idle"
    /\ Done(s)
    /\ bypass' = [bypass EXCEPT ![s] = FALSE]
    /\ latched' = [latched EXCEPT ![s] = FALSE]
    /\ strayed' = (strayed \/ (pc[s] = "after" /\ act[s] # "delete"))
    /\ \/ UNCHANGED links
       \/ \E r \in Unjournaled(s) : links' = [links EXCEPT ![r] = "lost"]
    /\ UNCHANGED <<local, parked, stage, target, record, journal, made,
                   disturbed, policy>>

(* Somebody rewrites the local package by hand. *)
Author ==
    /\ local # None
    /\ local' \in Shared \ {local}
    /\ Disturbing
    /\ UNCHANGED <<parked, stage, target, links, record, journal, made,
                   strayed, session, policy, pc, lockVars>>

(* Somebody removes an adapter link or puts something in its place. *)
Meddle ==
    /\ \E r \in Root \ {SharedRoot}, k \in {"absent", "other"} :
          /\ links[r] # k
          /\ links' = [links EXCEPT ![r] = k]
    /\ UNCHANGED <<local, parked, stage, target, record, journal, made,
                   strayed, disturbed, session, policy, pc, lockVars>>

(* The operator edits the configuration. *)
Reconfigure ==
    /\ \/ roots' \in Configs \ {roots} /\ UNCHANGED approval
       \/ approval' = ~approval /\ UNCHANGED roots
    /\ UNCHANGED <<store, session, pc, lockVars>>

===============================================================================
