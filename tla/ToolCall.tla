-------------------------------- MODULE ToolCall --------------------------------
(***************************************************************************)
(* The middleware around skill_manage (plugin.py, intercept).  A call for  *)
(* a skill the registry does not know runs the host core without a lock;   *)
(* a call for a managed skill runs it inside the locks, between a check    *)
(* and the record of what it did.                                          *)
(***************************************************************************)
EXTENDS ManagedSkill

(* edit stands for the actions that may change SKILL.md, file for those on *)
(* other files of the package.                                             *)
Actions == {"create", "edit", "file", "delete"}

(* The host resolves the local root first, then the shared one. *)
Resolved == IF local # None THEN local ELSE target

-----------------------------------------------------------------------------
(* Policy: a malformed or multi-operation request, a missing capability and *)
(* an enabled approval gate end the call before anything is read.  Then     *)
(* _managed_publication, without a lock; a flat create does not look.       *)
Request(s) ==
    /\ s \in Agents /\ pc[s] = "idle"
    /\ MayMutate(s)
    /\ \E a \in Actions :
          /\ act' = [act EXCEPT ![s] = a]
          /\ \/ seen' = [seen EXCEPT ![s] = record]
             \/ a = "create" /\ UNCHANGED seen
    /\ Go(s, "barrier")
    /\ UNCHANGED <<store, conf, kept, bypass, latched, policy, lockVars>>

CheckBarrier(s) ==
    /\ pc[s] = "barrier"
    /\ IF Barrier
       THEN Done(s)
       ELSE /\ Go(s, IF seen[s] = NoRecord THEN "call" ELSE "roots")
            /\ UNCHANGED <<act, seen, conf, kept, lockVars>>
    /\ UNCHANGED <<store, bypass, latched, policy>>

(* Mutant: the locks of the configured roots only. *)
AskConfiguredRoots(s) ==
    /\ pc[s] = "roots"
    /\ Ask(s, LockRoots(roots))
    /\ Go(s, "preflight")
    /\ UNCHANGED <<store, session, policy>>

(* load_config, then delete_lock_roots with a registry read of its own. *)
AskRoots(s) ==
    /\ pc[s] = "roots"
    /\ Ask(s, LockRoots(roots) \cup record.roots)
    /\ Go(s, "preflight")
    /\ UNCHANGED <<store, session, policy>>

(* Mutant: the identity of the record is not compared. *)
PreflightedByName(s) ==
    /\ ~Barrier
    /\ record # NoRecord
    /\ local = None /\ target # None
    /\ Owned(record.roots)

(* Under the locks: barrier, identity of the record, the package the host  *)
(* would act on, adapters.                                                 *)
Preflighted(s) ==
    /\ ~Barrier
    /\ record = seen[s]
    /\ local = None /\ target # None
    /\ Owned(record.roots)

Preflight(s) ==
    /\ Inside(s, "preflight")
    /\ IF Preflighted(s)
       THEN /\ kept' = [kept EXCEPT ![s] =
                           IF act[s] = "edit" THEN target ELSE None]
            /\ Go(s, "call")
            /\ UNCHANGED <<act, seen, conf, lockVars>>
       ELSE Done(s)
    /\ UNCHANGED <<store, bypass, latched, policy>>

-----------------------------------------------------------------------------
(* _call_downstream.  The approval gate is read again, then the bypass of  *)
(* the host is set, so that a later toggle cannot stage the call.          *)
OpenGate(s) ==
    /\ pc[s] = "call"
    /\ IF approval
       THEN Done(s) /\ UNCHANGED bypass
       ELSE /\ bypass' = [bypass EXCEPT ![s] = TRUE]
            /\ Go(s, "core")
            /\ UNCHANGED <<act, seen, conf, kept, lockVars>>
    /\ UNCHANGED <<store, latched, policy>>

(* The bypass cannot be set: no call, and no later write either. *)
GateSetFails(s) ==
    /\ pc[s] = "call" /\ ~approval
    /\ latched' = [latched EXCEPT ![s] = TRUE]
    /\ Done(s)
    /\ UNCHANGED <<store, bypass, policy>>

(* The host core: what it may do to the package it resolves.               *)
Creates(p) == Resolved = None /\ local' = p /\ UNCHANGED target

Rewrites(p) ==
    IF local # None THEN local' = p /\ UNCHANGED target
    ELSE target # None /\ target' = p /\ UNCHANGED local

Version(s) ==
    IF act[s] = "file" THEN {p \in Package : p \in Shared <=> Resolved \in Shared}
    ELSE Package

CoreEffect(s) ==
    \/ act[s] = "create" /\ \E p \in Shared : Creates(p)
    \/ /\ act[s] \in {"edit", "file"}
       /\ \E p \in Version(s) : Rewrites(p)
    \/ act[s] = "delete" /\ Resolved # None /\ Rewrites(None)

Managed(s) == at[s] = "roots"

(* The core did it.  An unlocked call that hits the canonical package       *)
(* leaves it unrecorded.                                                   *)
CoreSucceeds(s) ==
    /\ pc[s] = "core"
    /\ CoreEffect(s)
    /\ Disturbing
    /\ strayed' = (strayed \/ (target' # target /\ target' # None /\ ~Managed(s)))
    /\ IF Managed(s)
       THEN Go(s, "after") /\ UNCHANGED <<act, seen, conf, kept, lockVars>>
       ELSE Done(s)
    /\ UNCHANGED <<parked, stage, links, record, journal, made, policy>>

CoreRefuses(s) ==
    /\ pc[s] = "core"
    /\ Done(s)
    /\ UNCHANGED <<store, policy>>

(* The core raises after it changed the package: no restore, no record. *)
CoreRaises(s) ==
    /\ pc[s] = "core"
    /\ CoreEffect(s)
    /\ Disturbing
    /\ strayed' = (strayed \/ (target' # target /\ target' # None))
    /\ Done(s)
    /\ UNCHANGED <<parked, stage, links, record, journal, made, policy>>

(* The bypass is reset whatever the core did. *)
ResetBypass(s) ==
    /\ bypass' = [bypass EXCEPT ![s] = FALSE]
    /\ UNCHANGED latched

(* Mutant: the fault is only logged. *)
ResetFailsUnlatched(s) ==
    /\ bypass' \in {bypass, [bypass EXCEPT ![s] = FALSE]}
    /\ UNCHANGED latched

(* The reset fails: what the core did is kept, and later writes are         *)
(* refused.  The attempt to clear the bypass may fail as well.             *)
ResetFails(s) ==
    /\ bypass' \in {bypass, [bypass EXCEPT ![s] = FALSE]}
    /\ latched' = [latched EXCEPT ![s] = TRUE]

-----------------------------------------------------------------------------
(* Mutant: an edit that broke the package is only reported. *)
RestoreEditReported(s) ==
    /\ Inside(s, "after") /\ act[s] = "edit" /\ target \notin Shared
    /\ Done(s)
    /\ UNCHANGED <<store, bypass, latched, policy>>

(* After an edit SKILL.md must still be valid and shared, or it is put back *)
(* by _atomic_restore.  The digest of what is there becomes the record's.  *)
RestoreEdit(s) ==
    /\ Inside(s, "after") /\ act[s] = "edit" /\ target \notin Shared
    /\ target' = IF target = None THEN None ELSE kept[s]
    /\ Done(s)
    /\ UNCHANGED <<local, parked, stage, links, record, journal, made,
                   strayed, disturbed, bypass, latched, policy>>

SaveDigest(s) ==
    /\ Inside(s, "after") /\ act[s] \in {"edit", "file"}
    /\ target \in Shared
    /\ record' = [record EXCEPT !.digest = target]
    /\ strayed' = FALSE
    /\ Done(s)
    /\ UNCHANGED <<local, parked, stage, target, links, journal, made,
                   disturbed, bypass, latched, policy>>

(* update_managed_digest refuses a package that is not valid and shared;    *)
(* a create records nothing.                                               *)
NothingRecorded(s) ==
    /\ Inside(s, "after")
    /\ act[s] = "create" \/ (act[s] = "file" /\ target \notin Shared)
    /\ Done(s)
    /\ UNCHANGED <<store, bypass, latched, policy>>

(* cleanup_deleted: links first, the record last. *)
StartCleanup(s) ==
    /\ Inside(s, "after") /\ act[s] = "delete"
    /\ IF target = None
       THEN Go(s, "cleanup") /\ UNCHANGED <<act, seen, conf, kept, lockVars>>
       ELSE Done(s)
    /\ UNCHANGED <<store, bypass, latched, policy>>

RemoveLink(s, step) ==
    /\ Inside(s, step)
    /\ \E r \in record.roots :
          /\ links[r] = "ours"
          /\ links' = [links EXCEPT ![r] = "absent"]
    /\ UNCHANGED <<local, parked, stage, target, record, journal, made,
                   strayed, disturbed, session, policy, pc, lockVars>>

(* A foreign object stops the cleanup where it is met and the record stays. *)
DropRecord ==
    IF Unoccupied(record.roots)
    THEN record' = NoRecord /\ strayed' = FALSE
    ELSE UNCHANGED <<record, strayed>>

Removable == \E r \in record.roots : links[r] = "ours"

(* Mutant: the record goes first. *)
EndCleanupRecordFirst(s) ==
    /\ Inside(s, "cleanup")
    /\ record' = NoRecord /\ strayed' = FALSE
    /\ Done(s)
    /\ UNCHANGED <<local, parked, stage, target, links, journal, made,
                   disturbed, bypass, latched, policy>>

EndCleanup(s) ==
    /\ Inside(s, "cleanup")
    /\ ~Removable \/ ~Owned(record.roots)
    /\ DropRecord
    /\ Done(s)
    /\ UNCHANGED <<local, parked, stage, target, links, journal, made,
                   disturbed, bypass, latched, policy>>

CleanUp(s) == StartCleanup(s) \/ RemoveLink(s, "cleanup") \/ EndCleanup(s)

ToolCall(s) ==
    \/ CheckBarrier(s) \/ AskRoots(s) \/ Preflight(s)
    \/ OpenGate(s) \/ ((CoreSucceeds(s) \/ CoreRefuses(s)) /\ ResetBypass(s))
    \/ RestoreEdit(s) \/ SaveDigest(s) \/ NothingRecorded(s) \/ CleanUp(s)

(* What the host may do to a call. *)
HostFault(s) ==
    \/ GateSetFails(s)
    \/ CoreRaises(s) /\ ResetBypass(s)
    \/ (CoreSucceeds(s) \/ CoreRefuses(s) \/ CoreRaises(s)) /\ ResetFails(s)

===============================================================================
