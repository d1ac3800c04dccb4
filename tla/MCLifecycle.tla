------------------------------ MODULE MCLifecycle ------------------------------
(***************************************************************************)
(* A small instance of sessions for TLC.  Faults of the host and moves of  *)
(* the environment are finitely many in one behaviour.  The shared         *)
(* versions are interchangeable, so the first one is fixed, and so is the  *)
(* configuration until the operator edits it.                              *)
(***************************************************************************)
EXTENDS LifecycleProperties

CONSTANTS home, first, configured, MaxTrouble, MaxCrashes

VARIABLES
    budget,     \* host faults and outside moves that may still happen
    crashes     \* crashes that may still happen

liveVars == <<skillVars, budget, crashes>>

MCProfileOf == [s \in Session |-> home]

MCInit ==
    /\ SkillInit
    /\ local = first /\ roots = configured
    /\ budget = MaxTrouble /\ crashes = MaxCrashes

Orderly == \E s \in Session : Begin(s) \/ Continue(s)

Trouble == Environment \/ \E s \in Session : HostFault(s) \/ GiveUp(s)

MCNext ==
    \/ Orderly /\ UNCHANGED <<budget, crashes>>
    \/ /\ budget > 0 /\ Trouble
       /\ budget' = budget - 1 /\ UNCHANGED crashes
    \/ /\ crashes > 0 /\ \E s \in Session : Crash(s)
       /\ crashes' = crashes - 1 /\ UNCHANGED budget

Progress == \E s \in Session : Continue(s) /\ UNCHANGED <<budget, crashes>>

(* A call that began goes on.  An agent whose calls end comes to a turn     *)
(* boundary again and again, for the hook runs before every call of the     *)
(* model, unless the host makes it return at once.  The operator does not   *)
(* type for ever.                                                           *)
SessionsRun ==
    /\ WF_liveVars(Progress)
    /\ \A s \in Agents :
          \/ <>[](pc[s] # "idle")
          \/ []<>(pc[s] = "recover" \/ ~MayMutate(s))
    /\ <>[](\A s \in Session \ Agents : pc[s] = "idle")

MCSpec == MCInit /\ [][MCNext]_liveVars /\ SessionsRun

-----------------------------------------------------------------------------
AgentsMayMutate == \A s \in Agents : MayMutate(s)

(* A delete whose process died before the cleanup: the canonical package is *)
(* gone and the record stays, with nothing of others in its way.            *)
HalfDeleted ==
    /\ record # NoRecord /\ target = None /\ ~Barrier
    /\ Owned(record.roots)

(* OPERATIONS: reconciliation finishes the cleanup when a successful core   *)
(* delete was interrupted afterward.  It does not need the process that     *)
(* died, nor the configuration under which the skill was published.         *)
DeletesComplete == []<>~(HalfDeleted /\ AgentsMayMutate)

(* A shared package that nothing stands in the way of, below the local root *)
(* or on its way to the canonical one.                                      *)
Promising ==
    \/ ~Barrier /\ local \in Shared /\ target = None
    \/ /\ journal.kind = "promote" /\ journal.roots = roots
       /\ \/ local = journal.digest /\ parked = None /\ target = None
          \/ local = None /\ parked = journal.digest /\ target \in {None, parked}

Unpublished ==
    /\ Promising /\ Unoccupied(roots)
    /\ record = NoRecord /\ made < MaxMade

(* ARCHITECTURE, data flow 5: turn boundaries publish what is pending.  A   *)
(* promotion that has begun is not enough: in the end there is a record, or *)
(* something has come in the way.                                           *)
SharedIsPublished == []<>~(Unpublished /\ AgentsMayMutate)

(* A journal the validator accepts, with the packages and links where the   *)
(* transaction left them.                                                   *)
Resumable ==
    /\ JournalValid(roots)
    /\ parked = journal.digest
    /\ \/ /\ journal.kind = "promote"
          /\ local = None /\ target \in {None, parked}
          /\ Unoccupied(journal.roots)
       \/ /\ journal.kind = "unpublish"
          /\ target = None /\ Owned(journal.roots)
          /\ \/ local = None /\ record # NoRecord
             \/ local = Withdrawn /\ stage = None

(* ARCHITECTURE, data flow 5: turn boundaries recover journals, so the      *)
(* barrier to every other mutation is lifted in the end.                    *)
BarrierLifts == []<>~(Resumable /\ AgentsMayMutate)

===============================================================================
