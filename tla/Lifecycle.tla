------------------------------- MODULE Lifecycle -------------------------------
(***************************************************************************)
(* The turn boundary (plugin.py, _lifecycle_boundary): recover, then       *)
(* reconcile, then publish what is pending; and the command that takes a   *)
(* skill back.  With the tool calls and the locks this is the whole of     *)
(* what sessions do to one skill.                                          *)
(***************************************************************************)
EXTENDS ToolCall

Unmoved == <<local, parked, stage, target>>

(* The transaction of the journal is complete. *)
Closed == journal' = NoJournal /\ disturbed' = FALSE

Pending == UNCHANGED <<journal, disturbed>>

-----------------------------------------------------------------------------
(* The hook checks the host and calls recover(), which loads the           *)
(* configuration and takes the state lock alone.                           *)
Boundary(s) ==
    /\ s \in Agents /\ pc[s] = "idle"
    /\ MayMutate(s)
    /\ Ask(s, {})
    /\ conf' = [conf EXCEPT ![s] = roots]
    /\ act' = [act EXCEPT ![s] = "boundary"]
    /\ Go(s, "recover")
    /\ UNCHANGED <<store, seen, kept, bypass, latched, policy>>

(* An invalid journal blocks everything.  Otherwise the roots of the        *)
(* journals are added to the configured ones.                              *)
Recover(s) ==
    /\ Inside(s, "recover")
    /\ IF JournalValid(conf[s])
       THEN /\ Nest(s, LockRoots(conf[s]) \cup journal.roots)
            /\ Go(s, "finish")
            /\ UNCHANGED <<act, seen, conf, kept>>
       ELSE Done(s)
    /\ UNCHANGED <<store, bypass, latched, policy>>

(* The registry and the adapters take the promotion that is in place. *)
Registers ==
    /\ links' = Linked(journal.roots)
    /\ record' = [digest |-> journal.digest, roots |-> journal.roots,
                  made |-> made + 1]
    /\ made' = made + 1
    /\ parked' = None /\ stage' = None
    /\ Closed

(* Mutant: a canonical package that is in place is in the way. *)
PromotableUncommitted ==
    /\ journal.kind = "promote"
    /\ local = None /\ target = None
    /\ parked = journal.digest /\ stage # None

(* _finish_promotion, on to a publication.  Whatever can come between its  *)
(* steps can come between those of promote, and leaves what it leaves there.*)
Promotable ==
    /\ journal.kind = "promote"
    /\ local = None
    /\ target = None => parked = journal.digest /\ stage # None
    /\ target # None => target = journal.digest
    /\ parked \in {None, journal.digest}

FinishPromotion ==
    /\ Promotable /\ Unoccupied(journal.roots)
    /\ target' = journal.digest
    /\ strayed' = (strayed /\ target # None)
    /\ Registers
    /\ UNCHANGED local

(* Mutant: a source that is there is taken for the one that never left. *)
AbortPromotionParked ==
    /\ journal.kind = "promote"
    /\ local # None /\ target = None
    /\ Closed
    /\ UNCHANGED <<Unmoved, links, record, made, strayed>>

(* The source never left. *)
AbortPromotion ==
    /\ journal.kind = "promote"
    /\ local # None /\ parked = None /\ target = None
    /\ Closed
    /\ UNCHANGED <<Unmoved, links, record, made, strayed>>

(* Somebody deleted the canonical package: the source comes back. *)
RetreatPromotion ==
    /\ journal.kind = "promote"
    /\ local = None /\ target = None /\ stage = None
    /\ parked = journal.digest
    /\ local' = parked /\ parked' = None
    /\ Closed
    /\ UNCHANGED <<stage, target, links, record, made, strayed>>

(* A raise: a foreign link after the commit, an edited canonical package,  *)
(* two packages in each other's way, a source edited beside its stage.     *)
BlockPromotion ==
    /\ journal.kind = "promote"
    /\ \/ /\ Promotable /\ ~Unoccupied(journal.roots)
          /\ target' = journal.digest
          /\ stage' = IF target = None THEN None ELSE stage
          /\ UNCHANGED <<local, parked>>
       \/ /\ target \notin {None, journal.digest} /\ local = None
          /\ local' = parked /\ parked' = None
          /\ UNCHANGED <<stage, target>>
       \/ /\ local # None /\ (parked # None \/ target # None)
          /\ UNCHANGED Unmoved
       \/ /\ local \notin {None, journal.digest}
          /\ UNCHANGED Unmoved
       \/ /\ local = None /\ parked = None /\ target = None
          /\ UNCHANGED Unmoved
    /\ Pending
    /\ UNCHANGED <<links, record, made, strayed>>

NothingPending == journal = NoJournal /\ UNCHANGED store

Recovered ==
    NothingPending \/ FinishPromotion \/ AbortPromotion \/ RetreatPromotion

(* What follows recovery.  One that blocks suspends the rest.              *)
GoOn(s) ==
    /\ Drop(s) /\ Go(s, "preview")
    /\ UNCHANGED <<act, seen, conf, kept>>

Finish(s) ==
    /\ Inside(s, "finish")
    /\ \/ BlockPromotion /\ Done(s)
       \/ Recovered /\ GoOn(s)
    /\ UNCHANGED <<bypass, latched, policy>>

-----------------------------------------------------------------------------
(* _finish_unpublish.  First it looks at all four places and at the        *)
(* registry.  The digest of the private version is in the journal for      *)
(* certain, and the copy whole, only when something is parked.             *)
Refused ==
    \/ record = NoRecord /\ local = None
    \/ target # None /\ (local # None \/ parked # None)
    \/ local # None /\ stage # None
    \/ target \notin {None, journal.digest}
    \/ parked \notin {None, journal.digest}
    \/ local \notin {None, Withdrawn}

MayRefuse == parked = None /\ (local = Withdrawn \/ target # None)

Check(s) ==
    /\ Inside(s, "finish") /\ journal.kind = "unpublish"
    /\ \/ /\ Refused \/ MayRefuse
          /\ Done(s)
       \/ /\ ~Refused
          /\ Go(s, "resume")
          /\ UNCHANGED <<act, seen, conf, kept, lockVars>>
    /\ UNCHANGED <<store, bypass, latched, policy>>

(* Then it looks again to tell how far the transaction came.               *)
Resume(s) ==
    /\ Inside(s, "resume")
    /\ \/ /\ local # None
          /\ Go(s, "unlink")
       \/ /\ local = None /\ target = None
          /\ parked # None /\ stage # None
          /\ Go(s, "give")
    /\ UNCHANGED <<store, act, seen, conf, kept, bypass, latched, policy,
                   lockVars>>

(* The canonical package is where it was, or comes back. *)
Keep(s) ==
    /\ Inside(s, "resume") /\ local = None
    /\ \/ /\ target = None /\ parked # None /\ stage = None
          /\ target' = parked /\ parked' = None
          /\ UNCHANGED stage
       \/ /\ target # None /\ (stage # None \/ parked = None)
          /\ stage' = None
          /\ UNCHANGED <<parked, target>>
    /\ Closed /\ GoOn(s)
    /\ UNCHANGED <<local, links, record, made, strayed, bypass, latched,
                   policy>>

Unrecoverable(s) ==
    /\ Inside(s, "resume")
    /\ local = None /\ target = None /\ parked = None
    /\ Done(s)
    /\ UNCHANGED <<store, bypass, latched, policy>>

(* The private version goes to the local root, and all is looked at anew. *)
Give(s) ==
    /\ Inside(s, "give")
    /\ IF local = None
       THEN /\ local' = stage /\ stage' = None
            /\ Go(s, "finish")
            /\ UNCHANGED <<act, seen, conf, kept, lockVars>>
       ELSE Done(s) /\ UNCHANGED <<local, stage>>
    /\ Pending
    /\ UNCHANGED <<parked, target, links, record, made, strayed, bypass,
                   latched, policy>>

-----------------------------------------------------------------------------
(* load_config again, and the registry read that tells reconcile which     *)
(* recorded roots to lock.                                                 *)
Preview(s) ==
    /\ pc[s] = "preview"
    /\ Ask(s, LockRoots(roots) \cup record.roots)
    /\ conf' = [conf EXCEPT ![s] = roots]
    /\ Go(s, "reconcile")
    /\ UNCHANGED <<store, act, seen, kept, bypass, latched, policy>>

(* What follows reconcile: the pending publications, or the end of the     *)
(* promote that called it.                                                 *)
Reconciled(s) ==
    IF act[s] = "boundary"
    THEN /\ Drop(s) /\ Go(s, "discover")
         /\ act' = [act EXCEPT ![s] = "publish"]
         /\ UNCHANGED <<seen, conf, kept>>
    ELSE Done(s)

(* Mutant: a pending transaction does not defer its skill. *)
ReconcileUndeferred(s) ==
    /\ Inside(s, "reconcile")
    /\ IF record = NoRecord THEN Reconciled(s)
       ELSE IF target = None THEN
            Go(s, "forget") /\ UNCHANGED <<act, seen, conf, kept, lockVars>>
       ELSE IF target # record.digest THEN Reconciled(s)
       ELSE Go(s, "repair") /\ UNCHANGED <<act, seen, conf, kept, lockVars>>
    /\ UNCHANGED <<store, bypass, latched, policy>>

(* Mutant: a missing package is reported like any other drift. *)
ReconcileDrift(s) ==
    /\ Inside(s, "reconcile")
    /\ IF ~JournalValid(conf[s]) THEN Done(s)
       ELSE IF Barrier \/ record = NoRecord THEN Reconciled(s)
       ELSE IF target # record.digest THEN Reconciled(s)
       ELSE Go(s, "repair") /\ UNCHANGED <<act, seen, conf, kept, lockVars>>
    /\ UNCHANGED <<store, bypass, latched, policy>>

(* A transaction of this skill defers it, a missing package is forgotten,  *)
(* drift is only reported, absent links of a true record are repaired.     *)
Reconcile(s) ==
    /\ Inside(s, "reconcile")
    /\ IF ~JournalValid(conf[s]) THEN Done(s)
       ELSE IF Barrier \/ record = NoRecord THEN Reconciled(s)
       ELSE IF target = None THEN
            Go(s, "forget") /\ UNCHANGED <<act, seen, conf, kept, lockVars>>
       ELSE IF target # record.digest THEN Reconciled(s)
       ELSE Go(s, "repair") /\ UNCHANGED <<act, seen, conf, kept, lockVars>>
    /\ UNCHANGED <<store, bypass, latched, policy>>

EndForget(s) ==
    /\ Inside(s, "forget")
    /\ ~Removable
    /\ DropRecord
    /\ Reconciled(s)
    /\ UNCHANGED <<Unmoved, links, journal, made, disturbed, bypass, latched,
                   policy>>

Repair(s) ==
    /\ Inside(s, "repair")
    /\ \E r \in record.roots :
          /\ links[r] = "absent"
          /\ links' = [links EXCEPT ![r] = "ours"]
    /\ UNCHANGED <<Unmoved, record, journal, made, strayed, disturbed,
                   session, policy, pc, lockVars>>

EndRepair(s) ==
    /\ Inside(s, "repair")
    /\ \A r \in record.roots : links[r] # "absent"
    /\ Reconciled(s)
    /\ UNCHANGED <<store, bypass, latched, policy>>

-----------------------------------------------------------------------------
(* publish_pending: discover without a lock, then promote. *)
Discover(s) ==
    /\ pc[s] = "discover"
    /\ IF local \in Shared
       THEN /\ Ask(s, LockRoots(conf[s]))
            /\ Go(s, "promote")
            /\ UNCHANGED <<act, seen, conf, kept>>
       ELSE Done(s)
    /\ UNCHANGED <<store, bypass, latched, policy>>

(* Somebody else published it in the meantime: reconcile in the same locks, *)
(* those of the configured roots.                                          *)
AlreadyPublished ==
    record # NoRecord /\ local = None /\ target = record.digest

Publishable(s) ==
    /\ record = NoRecord
    /\ local \in Shared /\ target = None
    /\ Unoccupied(conf[s])
    /\ made < MaxMade

Promote(s) ==
    /\ Inside(s, "promote")
    /\ \/ /\ Barrier \/ ~(AlreadyPublished \/ Publishable(s))
          /\ Done(s)
          /\ UNCHANGED journal
       \/ /\ ~Barrier /\ AlreadyPublished
          /\ Go(s, "reconcile")
          /\ UNCHANGED <<act, seen, conf, kept, journal, lockVars>>
       \/ /\ ~Barrier /\ Publishable(s)
          /\ journal' = [kind |-> "promote", digest |-> local,
                         roots |-> conf[s]]
          /\ Go(s, "park")
          /\ UNCHANGED <<act, seen, conf, kept, lockVars>>
    /\ UNCHANGED <<Unmoved, links, record, made, strayed, disturbed, bypass,
                   latched, policy>>

(* Mutant: the source is parked as it is. *)
ParkUnchecked(s) ==
    /\ Inside(s, "park")
    /\ parked' = local /\ local' = None /\ stage' = local
    /\ journal' = [journal EXCEPT !.digest = local]
    /\ Go(s, "place")
    /\ UNCHANGED <<act, seen, conf, kept, lockVars>>
    /\ UNCHANGED <<target, links, record, made, strayed, disturbed, bypass,
                   latched, policy>>

(* Mutant: the staged copy is validated the wrong way round. *)
ParkInverted(s) ==
    /\ Inside(s, "park")
    /\ IF local \notin Shared \cup {None}
       THEN /\ parked' = local /\ local' = None /\ stage' = local
            /\ journal' = [journal EXCEPT !.digest = local]
            /\ Go(s, "place")
            /\ UNCHANGED <<act, seen, conf, kept, disturbed, lockVars>>
       ELSE Closed /\ Done(s) /\ UNCHANGED <<local, parked, stage>>
    /\ UNCHANGED <<target, links, record, made, strayed, bypass, latched,
                   policy>>

(* The source is rehashed and restaged until what is parked is what is     *)
(* staged.  A source that vanished or turned private undoes the promotion. *)
Park(s) ==
    /\ Inside(s, "park")
    /\ IF local \in Shared
       THEN /\ parked' = local /\ local' = None /\ stage' = local
            /\ journal' = [journal EXCEPT !.digest = local]
            /\ Go(s, "place")
            /\ UNCHANGED <<act, seen, conf, kept, disturbed, lockVars>>
       ELSE Closed /\ Done(s) /\ UNCHANGED <<local, parked, stage>>
    /\ UNCHANGED <<target, links, record, made, strayed, bypass, latched,
                   policy>>

Place(s) ==
    /\ Inside(s, "place")
    /\ target' = stage /\ stage' = None
    /\ strayed' = FALSE
    /\ Go(s, "register")
    /\ Pending
    /\ UNCHANGED <<local, parked, links, record, made, session, policy,
                   lockVars>>

(* An adapter path that was taken in the meantime rolls the promotion back, *)
(* unless the canonical package or the source is in the way of that.       *)
Register(s) ==
    /\ Inside(s, "register")
    /\ \/ /\ Unoccupied(journal.roots)
          /\ Registers
          /\ UNCHANGED <<local, target>>
       \/ /\ ~Unoccupied(journal.roots)
          /\ target \in {None, parked} /\ local = None
          /\ local' = parked /\ parked' = None /\ target' = None
          /\ Closed
          /\ UNCHANGED <<stage, links, record, made>>
       \/ /\ ~Unoccupied(journal.roots)
          /\ ~(target \in {None, parked} /\ local = None)
          /\ Pending
          /\ UNCHANGED <<Unmoved, links, record, made>>
    /\ Done(s)
    /\ UNCHANGED <<strayed, bypass, latched, policy>>

-----------------------------------------------------------------------------
(* Commands of the operator.  publish finds the package and promotes it.    *)
Publish(s) ==
    /\ s \notin Agents /\ pc[s] = "idle"
    /\ MayMutate(s) /\ local \in Shared
    /\ Ask(s, LockRoots(roots))
    /\ conf' = [conf EXCEPT ![s] = roots]
    /\ act' = [act EXCEPT ![s] = "publish"]
    /\ Go(s, "promote")
    /\ UNCHANGED <<store, seen, kept, bypass, latched, policy>>

(* unpublish reads the record before the locks; it must be the same inside. *)
Unpublish(s) ==
    /\ s \notin Agents /\ pc[s] = "idle"
    /\ MayMutate(s) /\ record # NoRecord
    /\ seen' = [seen EXCEPT ![s] = record]
    /\ act' = [act EXCEPT ![s] = "unpublish"]
    /\ Ask(s, LockRoots(roots) \cup record.roots)
    /\ Go(s, "withdraw")
    /\ UNCHANGED <<store, conf, kept, bypass, latched, policy>>

Withdrawable(s) ==
    /\ ~Barrier
    /\ record = seen[s]
    /\ target \in Shared /\ target = record.digest
    /\ Owned(record.roots) /\ local = None

Withdraw(s) ==
    /\ Inside(s, "withdraw")
    /\ IF Withdrawable(s)
       THEN /\ journal' = [kind |-> "unpublish", digest |-> record.digest,
                           roots |-> record.roots]
            /\ Go(s, "stash")
            /\ UNCHANGED <<act, seen, conf, kept, lockVars>>
       ELSE Done(s) /\ UNCHANGED journal
    /\ UNCHANGED <<Unmoved, links, record, made, strayed, disturbed, bypass,
                   latched, policy>>

(* The private copy is made, then the canonical package moves aside.       *)
Stash(s) ==
    /\ Inside(s, "stash")
    /\ \/ /\ target # None
          /\ parked' = target /\ target' = None /\ stage' = Withdrawn
          /\ Go(s, "return")
       \/ /\ target \notin Shared
          /\ Go(s, "undo")
          /\ UNCHANGED <<parked, target, stage>>
    /\ Pending
    /\ UNCHANGED <<local, links, record, made, strayed, act, seen, conf,
                   kept, bypass, latched, policy, lockVars>>

Return(s) ==
    /\ Inside(s, "return")
    /\ IF local = None
       THEN local' = stage /\ stage' = None /\ Go(s, "unlink")
       ELSE Go(s, "undo") /\ UNCHANGED <<local, stage>>
    /\ Pending
    /\ UNCHANGED <<parked, target, links, record, made, strayed, act, seen,
                   conf, kept, bypass, latched, policy, lockVars>>

-----------------------------------------------------------------------------
(* From here unpublish and its recovery go the same way: the links, the    *)
(* record, and what is parked if it is still what was withdrawn.           *)
Commanded(s) == act[s] = "unpublish"

Unlink(s) ==
    /\ Inside(s, "unlink")
    /\ Owned(record.roots)
    /\ links' = Unlinked(record.roots)
    /\ Go(s, "deregister")
    /\ Pending
    /\ UNCHANGED <<Unmoved, record, made, strayed, act, seen, conf, kept,
                   bypass, latched, policy, lockVars>>

(* A foreign object stops it where it is met. *)
UnlinkFails(s) ==
    /\ Inside(s, "unlink")
    /\ ~Owned(record.roots)
    /\ \E adapters \in SUBSET record.roots : links' = Unlinked(adapters)
    /\ IF Commanded(s)
       THEN Go(s, "undo") /\ UNCHANGED <<act, seen, conf, kept, lockVars>>
       ELSE Done(s)
    /\ Pending
    /\ UNCHANGED <<Unmoved, record, made, strayed, bypass, latched, policy>>

Deregister(s) ==
    /\ Inside(s, "deregister")
    /\ record' = NoRecord /\ strayed' = FALSE
    /\ Go(s, "discard")
    /\ Pending
    /\ UNCHANGED <<Unmoved, links, made, act, seen, conf, kept, bypass,
                   latched, policy, lockVars>>

(* Mutant: it is removed without a look at its digest. *)
DiscardUnchecked(s) ==
    /\ Inside(s, "discard")
    /\ parked' = None /\ stage' = None
    /\ Closed
    /\ IF Commanded(s) THEN Done(s) ELSE GoOn(s)
    /\ UNCHANGED <<local, target, links, record, made, strayed, bypass,
                   latched, policy>>

Discard(s) ==
    /\ Inside(s, "discard")
    /\ IF parked \in {None, journal.digest}
       THEN /\ parked' = None /\ stage' = None
            /\ Closed
            /\ IF Commanded(s) THEN Done(s) ELSE GoOn(s)
       ELSE Pending /\ Done(s) /\ UNCHANGED <<parked, stage>>
    /\ UNCHANGED <<local, target, links, record, made, strayed, bypass,
                   latched, policy>>

(* The inverse rollback of unpublish: the private version goes back to its *)
(* stage, the parked package to the canonical path, absent links are made  *)
(* again.  A package that was changed or a foreign object ends it where it *)
(* stands, and so may a copy that is not whole; the journal stays then.    *)
Returned == local = Withdrawn /\ stage = None /\ parked # None

Undo(s) ==
    /\ Inside(s, "undo")
    /\ local = None \/ Returned
    /\ parked \in {None, journal.digest}
    /\ Owned(journal.roots)
    /\ local' = None /\ stage' = None
    /\ target' = IF parked = None THEN target ELSE parked
    /\ parked' = None
    /\ links' = Relinked(journal.roots)
    /\ Closed /\ Done(s)
    /\ UNCHANGED <<record, made, strayed, bypass, latched, policy>>

UndoBlocked(s) ==
    /\ Inside(s, "undo")
    /\ \/ /\ local # None /\ ~Returned
          /\ UNCHANGED <<Unmoved, links>>
       \/ /\ local = None \/ Returned
          /\ parked \notin {None, journal.digest}
          /\ local' = None /\ stage' = IF Returned THEN local ELSE stage
          /\ UNCHANGED <<parked, target, links>>
       \/ /\ local = None \/ Returned
          /\ parked \in {None, journal.digest}
          /\ ~Owned(journal.roots) \/ parked = None
          /\ local' = None /\ stage' = IF Returned THEN local ELSE stage
          /\ target' = IF parked = None THEN target ELSE parked
          /\ parked' = None
          /\ \E adapters \in SUBSET journal.roots : links' = Relinked(adapters)
    /\ Pending /\ Done(s)
    /\ UNCHANGED <<record, made, strayed, bypass, latched, policy>>

-----------------------------------------------------------------------------
TurnBoundary(s) ==
    \/ Recover(s) \/ Finish(s) \/ Check(s) \/ Resume(s) \/ Keep(s)
    \/ Unrecoverable(s) \/ Give(s) \/ Preview(s)
    \/ Reconcile(s) \/ RemoveLink(s, "forget") \/ EndForget(s)
    \/ Repair(s) \/ EndRepair(s)
    \/ Discover(s) \/ Promote(s) \/ Park(s) \/ Place(s) \/ Register(s)

Withdrawal(s) ==
    \/ Withdraw(s) \/ Stash(s) \/ Return(s)
    \/ Unlink(s) \/ UnlinkFails(s) \/ Deregister(s) \/ Discard(s)
    \/ Undo(s) \/ UndoBlocked(s)

(* What a session does next once it began something. *)
Continue(s) ==
    \/ Acquire(s) \/ ToolCall(s) \/ TurnBoundary(s) \/ Withdrawal(s)

Begin(s) == Request(s) \/ Boundary(s) \/ Publish(s) \/ Unpublish(s)

Fault(s) == Crash(s) \/ HostFault(s) \/ GiveUp(s)

Environment == Author \/ Meddle \/ Reconfigure

SkillNext ==
    \/ \E s \in Session : Begin(s) \/ Continue(s) \/ Fault(s)
    \/ Environment

SkillSpec == SkillInit /\ [][SkillNext]_skillVars

===============================================================================
