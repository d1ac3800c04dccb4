-------------------------- MODULE LifecycleProperties --------------------------
(* What sessions that work on one skill promise each other.                 *)
EXTENDS Lifecycle

SkillTypeOK ==
    /\ LockTypeOK
    /\ {local, parked, stage, target} \subseteq Package \cup {None}
    /\ links \in [Root -> LinkKinds]
    /\ record \in Record \cup {NoRecord}
    /\ journal \in Journal \cup {NoJournal}
    /\ made \in 0..MaxMade
    /\ roots \in Configs
    /\ {approval, strayed, disturbed} \subseteq BOOLEAN
    /\ seen \in [Session -> Record \cup {NoRecord}]
    /\ conf \in [Session -> SUBSET Root]
    /\ kept \in [Session -> Package \cup {None}]
    /\ bypass \in [Session -> BOOLEAN]
    /\ latched \in [Session -> BOOLEAN]

(* Sessions keep to the lock protocol, the nested call of recovery and      *)
(* every early return included: no lock is kept by a call that ended.      *)
KeepsProtocol == LockSpec

AtRest == \A s \in Session : ~In(s)

(* While nobody is inside the locks and no transaction is pending, a        *)
(* package that is there is the valid shared one the registry records,      *)
(* unless a core call hit it that the middleware could not record: one      *)
(* that died or raised half-way, or one that began without a lock.          *)
RecordIsTrue ==
    (AtRest /\ ~Barrier /\ record # NoRecord /\ target # None /\ ~strayed)
        => target = record.digest /\ target \in Shared

(* ARCHITECTURE, managed mutation: a managed core call acts while the       *)
(* registry still holds the publication the call saw before it had the      *)
(* locks: a publication that was taken back, or taken back and made again   *)
(* under the same name, is neither edited nor deleted by it.                *)
ActsOnSeen ==
    \A s \in Session :
        In(s) /\ pc[s] \in {"call", "core", "after"} => record = seen[s]

(* ARCHITECTURE: a pending transaction is a barrier.  While there is one,   *)
(* whoever began it and whatever died, no session is inside the locks to    *)
(* edit, delete, forget or repair the publication it is about.              *)
Barred ==
    Barrier => \A s \in Session : In(s) =>
        pc[s] \notin {"call", "core", "after", "cleanup", "forget", "repair"}

(* The steps of a session that moves a skill, recovery's first look apart. *)
Moving ==
    {"park", "place", "register", "stash", "return", "undo",
     "resume", "give", "unlink", "deregister", "discard"}

(* SAFETY rule 7: links are made and removed by a session that holds the    *)
(* locks of their roots, also when the operator reconfigured the adapters   *)
(* after it asked for them.  Reconcile is not among these operations.       *)
LinksLocked ==
    \A s \in Session : In(s) =>
        /\ pc[s] \in {"call", "core", "after", "cleanup"} =>
              record.roots \subseteq holds[s]
        /\ pc[s] \in Moving \cup {"finish"} => journal.roots \subseteq holds[s]

(* A link never outlives the record that owns it, whatever dies between     *)
(* the two, but for the one a promotion dies over before it has it in the   *)
(* journal.                                                                 *)
LinksOwned ==
    (AtRest /\ ~Barrier) =>
        \A r \in Root : links[r] = "ours" => r \in record.roots

(* ARCHITECTURE: a concurrent approval toggle cannot stage a write.  The    *)
(* core runs with the bypass set, and a bypass that stays set after the     *)
(* call has disabled all later writes of its process.                       *)
NeverStages ==
    \A s \in Session :
        /\ pc[s] = "core" => bypass[s]
        /\ bypass[s] /\ pc[s] # "core" => latched[s]

-----------------------------------------------------------------------------
(* Two packages of a skill are in one another's way at times, but only who  *)
(* owns a package destroys it: its author, a core call or unpublish.  That  *)
(* leaves the private version, or what somebody without a lock made of it   *)
(* meanwhile, and takes the private version back when it is undone.  The    *)
(* middleware undoes an edit that broke the package, and promotion drops    *)
(* the parked copy of what it registered, also when a call without a lock   *)
(* got at the canonical package.                                            *)
Dropped ==
    {local, parked, target} \ {None, local', parked', target', stage'}

CoreReturns == \E s \in Session : pc[s] = "core" /\ pc'[s] # "core"

PackagesKept ==
    [][~(Author \/ CoreReturns) => \A p \in Dropped :
          \/ ~Barrier /\ p \notin Shared
          \/ /\ journal.kind = "unpublish" /\ p = journal.digest
             /\ record' = NoRecord
             /\ local' = Withdrawn \/ disturbed
          \/ /\ journal.kind = "unpublish" /\ p = Withdrawn
             /\ target' = journal.digest
          \/ record'.digest = p /\ (strayed' \/ target' = None)]_store

(* A package that is gone counts as strayed: an unlocked delete may hit it  *)
(* before the registry has it.                                              *)
Contract == INSTANCE RegistryContract WITH
    Private <- [p \in Package |-> Withdrawn],
    strayed <- strayed \/ target = None,
    shown <- {r \in Root : links[r] = "ours"},
    hidden <- parked # None \/ stage # None,
    pending <- journal.kind

(* Tool calls, turn boundaries and commands, with their coarse transactions *)
(* and whatever faults and interleavings come, do no more to registry,      *)
(* journal and parked package than the detailed transactions do.            *)
SessionsKeepContract == Contract!ContractSpec

===============================================================================
