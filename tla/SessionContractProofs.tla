------------------------- MODULE SessionContractProofs -------------------------
(***************************************************************************)
(* Where the packages of a skill are while sessions work on it: no session *)
(* destroys one it does not own, and the registry, the journal and the     *)
(* parked package change as the registry contract says.                    *)
(***************************************************************************)
EXTENDS SessionProofs

USE DEF Moving, Promoting, Withdrawing

(* What is empty before a session puts something there, what it will        *)
(* register, and what it leaves when it forgets the skill.                  *)
Places(s) ==
    /\ pc[s] \in {"park", "stash"} => parked = None /\ stage = None
    /\ pc[s] \in {"park", "place", "return", "cleanup", "forget"} => target = None
    /\ pc[s] = "register" => parked = journal.digest /\ stage = None
    /\ pc[s] = "return" => stage = Withdrawn
    /\ pc[s] \in {"unlink", "deregister", "discard"} =>
          local = Withdrawn \/ disturbed
    /\ pc[s] = "resume" => local \in {None, Withdrawn} \/ disturbed

(* The two packages of a pending transaction: beside the journal there is   *)
(* nothing hidden, and what is parked or staged is not in its place as well.*)
Hidden ==
    /\ journal = NoJournal => parked = None /\ stage = None
    /\ journal.kind = "promote" /\ stage # None => parked = stage /\ target = None
    /\ journal.kind = "unpublish" =>
          /\ parked # None => target = None
          /\ stage \in {None, Withdrawn}

PlaceInv == SkillInv /\ Hidden /\ \A s \in Session : Places(s)

(* A session that is not inside the locks parks and takes nothing, does not *)
(* put a canonical package where none is, and disturbs an unpublish when it *)
(* changes the local package.                                               *)
Plain ==
    /\ UNCHANGED <<parked, stage, journal>>
    /\ target = None => target' = None
    /\ disturbed => disturbed'
    /\ journal.kind = "unpublish" /\ local' # local => disturbed'

LEMMA StepsPlain ==
    ASSUME SkillInv, NEW s \in Session, Begin(s) \/ Continue(s) \/ Fault(s),
           ~In(s)
    PROVE  Plain
  <1> USE DEF Plain
  <1>1. CASE UNCHANGED <<local, parked, stage, target, journal, disturbed>>
    BY <1>1
  <1>2. CASE CoreSucceeds(s) \/ CoreRaises(s)
    <2>1. target = None => target' = None
      BY <1>2 DEF CoreSucceeds, CoreRaises, CoreEffect, Creates, Rewrites,
                  Resolved
    <2> QED BY <1>2, <2>1 DEF CoreSucceeds, CoreRaises, Disturbing
  <1> QED
    BY <1>1, <1>2
       DEF Begin, Request, Boundary, Publish, Unpublish, Continue, Acquire,
           ToolCall, CheckBarrier, AskRoots, Preflight, OpenGate, CoreRefuses,
           RestoreEdit, SaveDigest, NothingRecorded, CleanUp, StartCleanup,
           RemoveLink, EndCleanup, TurnBoundary, Recover, Finish, Check,
           Resume, Keep, Unrecoverable, Give, Preview, Reconcile, EndForget,
           Repair, EndRepair, Discover, Promote, Park, Place, Register,
           Withdrawal, Withdraw, Stash, Return, Unlink, UnlinkFails,
           Deregister, Discard, Undo, UndoBlocked, Fault, Crash, GiveUp,
           HostFault, GateSetFails, Inside, store

(* What a session needs to be empty nobody else fills.                      *)
LEMMA PlainPlaces ==
    ASSUME PlaceInv, Plain, NEW t \in Session, pc'[t] = pc[t]
    PROVE  Places(t)'
  <1>1. Places(t) /\ Journals(t)
    BY DEF PlaceInv, SkillInv, SessionInv
  <1> QED BY <1>1 DEF Places, Plain, Journals

LEMMA OthersPlaces ==
    ASSUME PlaceInv, NEW s \in Session, Begin(s) \/ Continue(s) \/ Fault(s),
           Undisturbed(s), NEW t \in Session, t # s
    PROVE  Places(t)'
  <1>0. pc'[t] = pc[t] /\ Places(t) /\ AtStep(t)
    BY DEF PlaceInv, Undisturbed, SkillInv, SessionInv
  <1>1. CASE pc[t] \in Inner
    <2>1. ~In(s)
      BY <1>0, <1>1, Alone DEF PlaceInv, AtStep, In
    <2> QED BY <1>0, <2>1, StepsPlain, PlainPlaces DEF PlaceInv
  <1>2. CASE pc[t] \notin Inner
    BY <1>0, <1>2 DEF Places, Inner
  <1> QED BY <1>1, <1>2

LEMMA PlainHidden ==
    ASSUME PlaceInv, Plain
    PROVE  Hidden'
  BY DEF PlaceInv, Hidden, Plain

(* A session that comes to a step that asks nothing of the places. *)
Elsewhere ==
    Steps \ {"park", "place", "register", "stash", "return", "resume",
             "unlink", "deregister", "discard", "cleanup", "forget"}

LEMMA ElsewherePlaces ==
    ASSUME NEW s \in Session, pc'[s] \in Elsewhere
    PROVE  Places(s)'
  BY DEF Places, Elsewhere

(* What it needs itself it has looked at, and what a transaction hides is   *)
(* gone when the journal is.                                                *)
LEMMA ToolCallPlaces ==
    ASSUME PlaceInv, NEW s \in Session,
           \/ Begin(s) \/ Acquire(s) \/ Fault(s) \/ ToolCall(s)
           \/ Recover(s) \/ Unrecoverable(s) \/ Preview(s) \/ Reconcile(s)
           \/ RemoveLink(s, "forget") \/ EndForget(s) \/ Repair(s)
           \/ EndRepair(s) \/ Discover(s)
    PROVE  Places(s)' /\ Hidden'
  <1>0. pc \in [Session -> Steps]
    BY DEF PlaceInv, SkillInv, SessionType
  <1>1. Plain
    <2>1. CASE UNCHANGED <<local, parked, stage, target, journal, disturbed>>
      BY <2>1 DEF Plain
    <2>2. CASE CoreSucceeds(s) \/ CoreRaises(s)
      <3>1. target = None => target' = None
        BY <2>2 DEF CoreSucceeds, CoreRaises, CoreEffect, Creates, Rewrites,
                    Resolved
      <3> QED BY <2>2, <3>1 DEF CoreSucceeds, CoreRaises, Disturbing, Plain
    <2>3. CASE RestoreEdit(s)
      BY <2>3 DEF RestoreEdit, Plain
    <2> QED
      BY <2>1, <2>2, <2>3
         DEF Begin, Request, Boundary, Publish, Unpublish, Acquire, Fault,
             Crash, GiveUp, HostFault, GateSetFails, ToolCall, CheckBarrier,
             AskRoots, Preflight, OpenGate, CoreRefuses, SaveDigest,
             NothingRecorded, CleanUp, StartCleanup, RemoveLink, EndCleanup,
             Recover, Unrecoverable, Preview, Reconcile, EndForget, Repair,
             EndRepair, Discover, Unmoved, store
  <1>2. \/ pc' = pc \/ pc'[s] \in Elsewhere
        \/ pc'[s] \in {"cleanup", "forget"} /\ target = None
    <2> USE <1>0 DEF Go, Done, Elsewhere, Steps, Outer, Edits, Inner, Waits
    <2>1. CASE Begin(s) \/ Acquire(s) \/ Fault(s)
      BY <2>1 DEF Begin, Request, Boundary, Publish, Unpublish, Acquire, Fault,
                  Crash, GiveUp, HostFault, GateSetFails, CoreSucceeds,
                  CoreRefuses, CoreRaises
    <2>2. CASE ToolCall(s)
      <3>1. CASE CheckBarrier(s) \/ AskRoots(s) \/ Preflight(s) \/ OpenGate(s)
        BY <3>1 DEF CheckBarrier, AskRoots, Preflight, OpenGate
      <3>2. CASE CoreSucceeds(s) \/ CoreRefuses(s)
        BY <3>2 DEF CoreSucceeds, CoreRefuses
      <3>3. CASE RestoreEdit(s) \/ SaveDigest(s) \/ NothingRecorded(s) \/ CleanUp(s)
        BY <3>3 DEF RestoreEdit, SaveDigest, NothingRecorded, CleanUp,
                    StartCleanup, RemoveLink, EndCleanup
      <3> QED BY <2>2, <3>1, <3>2, <3>3 DEF ToolCall
    <2>3. CASE \/ Recover(s) \/ Unrecoverable(s) \/ Preview(s) \/ Discover(s)
               \/ RemoveLink(s, "forget") \/ Repair(s)
      BY <2>3 DEF Recover, Unrecoverable, Preview, Discover, RemoveLink, Repair
    <2>4. CASE Reconcile(s) \/ EndForget(s) \/ EndRepair(s)
      BY <2>4 DEF Reconcile, EndForget, EndRepair, Reconciled
    <2> QED BY <2>1, <2>2, <2>3, <2>4
  <1>3. Places(s)'
    BY <1>1, <1>2, PlainPlaces, ElsewherePlaces DEF Places, Plain
  <1> QED BY <1>1, <1>3, PlainHidden

LEMMA RecoveryPlaces ==
    ASSUME PlaceInv, NEW s \in Session,
           Finish(s) \/ Check(s) \/ Resume(s) \/ Keep(s) \/ Give(s)
    PROVE  Places(s)' /\ Hidden'
  <1>0. /\ pc \in [Session -> Steps] /\ Places(s) /\ Hidden /\ Journals(s)
        /\ journal.kind \in {"promote", "unpublish"} => journal # NoJournal
    BY NoRecordApart DEF PlaceInv, SkillInv, SessionType, SessionInv
  <1> USE <1>0 DEF Go, GoOn, Done, Inside
  <1>1. CASE Finish(s)
    <2>1. pc'[s] \in Elsewhere
      BY <1>1 DEF Finish, Elsewhere, Steps, Outer
    <2>2. ASSUME NothingPending PROVE Hidden'
      BY <2>2 DEF NothingPending, Hidden, store
    <2>3. ASSUME FinishPromotion PROVE Hidden'
      BY <2>3 DEF FinishPromotion, Registers, Closed, Hidden, NoJournal
    <2>4. ASSUME AbortPromotion \/ RetreatPromotion PROVE Hidden'
      BY <2>4 DEF AbortPromotion, RetreatPromotion, Unmoved, Closed, Hidden,
                  NoJournal
    <2>5. ASSUME BlockPromotion PROVE Hidden'
      BY <2>5 DEF BlockPromotion, Promotable, Pending, Unmoved, Hidden
    <2> QED BY <1>1, <2>1, <2>2, <2>3, <2>4, <2>5, ElsewherePlaces
            DEF Finish, Recovered
  <1>2. CASE Check(s)
    <2>1. Hidden'
      BY <1>2 DEF Check, Hidden, store
    <2>2. pc'[s] = "resume" => ~Refused /\ UNCHANGED local
      BY <1>2 DEF Check, store
    <2>3. pc'[s] \in {"resume", "idle"}
      BY <1>2 DEF Check
    <2> QED BY <2>1, <2>2, <2>3 DEF Places, Refused
  <1>3. CASE Resume(s)
    <2>1. UNCHANGED store /\ pc[s] = "resume"
      BY <1>3 DEF Resume
    <2>2. pc'[s] = "give" \/ (pc'[s] = "unlink" /\ local # None)
      BY <1>3 DEF Resume
    <2> QED BY <2>1, <2>2 DEF Places, Hidden, store
  <1>4. CASE Keep(s)
    <2>1. pc'[s] \in Elsewhere
      BY <1>4 DEF Keep, Elsewhere, Steps, Outer
    <2>2. Hidden'
      BY <1>4 DEF Keep, Closed, Hidden, Journals, NoJournal
    <2> QED BY <2>1, <2>2, ElsewherePlaces
  <1>5. CASE Give(s)
    <2>1. pc'[s] \in Elsewhere
      BY <1>5 DEF Give, Elsewhere, Steps, Outer, Waits
    <2>2. Hidden'
      BY <1>5 DEF Give, Pending, Hidden, Journals
    <2> QED BY <2>1, <2>2, ElsewherePlaces
  <1> QED BY <1>1, <1>2, <1>3, <1>4, <1>5

LEMMA PromotePlaces ==
    ASSUME PlaceInv, NEW s \in Session,
           Promote(s) \/ Park(s) \/ Place(s) \/ Register(s)
    PROVE  Places(s)' /\ Hidden'
  <1>0. /\ pc \in [Session -> Steps] /\ Places(s) /\ Hidden /\ Journals(s)
        /\ journal.kind \in {"promote", "unpublish"} =>
              journal \in Journal /\ journal # NoJournal
    BY NoRecordApart DEF PlaceInv, SkillInv, SessionType, SessionInv
  <1> USE <1>0 DEF Go, Done, Inside
  <1>1. CASE Promote(s)
    <2>1. CASE ~Barrier /\ Publishable(s) /\ Go(s, "park")
      BY <1>1, <2>1
         DEF Promote, Publishable, Barrier, Unmoved, Places, Hidden
    <2>2. CASE UNCHANGED journal /\ pc'[s] \in {"idle", "reconcile"}
      BY <1>1, <2>2 DEF Promote, Unmoved, Places, Hidden
    <2> QED BY <1>1, <2>1, <2>2 DEF Promote
  <1>2. CASE Park(s)
    <2>1. CASE local \in Shared
      <3>1. journal'.kind = "promote"
        BY <1>2, <2>1 DEF Park, Journals, Journal
      <3>2. journal' # NoJournal
        BY <3>1 DEF NoJournal
      <3> QED BY <1>2, <2>1, <3>1, <3>2 DEF Park, Places, Hidden
    <2>2. CASE local \notin Shared
      BY <1>2, <2>2 DEF Park, Closed, Places, Hidden, NoJournal
    <2> QED BY <2>1, <2>2
  <1>3. CASE Place(s)
    BY <1>3 DEF Place, Pending, session, Places, Hidden, Journals
  <1>4. CASE Register(s)
    <2>1. pc'[s] = "idle"
      BY <1>4 DEF Register
    <2>2. Hidden'
      BY <1>4
         DEF Register, Registers, Closed, Pending, Unmoved, Places, Hidden,
             Journals, NoJournal
    <2> QED BY <2>1, <2>2 DEF Places
  <1> QED BY <1>1, <1>2, <1>3, <1>4

LEMMA WithdrawalPlaces ==
    ASSUME PlaceInv, NEW s \in Session, Withdrawal(s)
    PROVE  Places(s)' /\ Hidden'
  <1>0. /\ pc \in [Session -> Steps] /\ Places(s) /\ Hidden /\ Journals(s)
        /\ journal.kind = "unpublish" => journal # NoJournal
    BY NoRecordApart DEF PlaceInv, SkillInv, SessionType, SessionInv
  <1> USE <1>0 DEF Go, GoOn, Done, Inside
  <1>1. CASE Withdraw(s)
    BY <1>1 DEF Withdraw, Withdrawable, Barrier, Unmoved, Places, Hidden
  <1>2. CASE Stash(s)
    BY <1>2, SkillAssumption DEF Stash, Pending, Places, Hidden, Journals
  <1>3. CASE Return(s)
    BY <1>3 DEF Return, Pending, Places, Hidden, Journals
  <1>4. CASE Unlink(s) \/ Deregister(s)
    BY <1>4 DEF Unlink, Deregister, Pending, Unmoved, Places, Hidden
  <1>5. CASE UnlinkFails(s)
    BY <1>5 DEF UnlinkFails, Pending, Unmoved, Places, Hidden
  <1>6. CASE Discard(s)
    BY <1>6 DEF Discard, Closed, Pending, Places, Hidden, NoJournal, Journals
  <1>7. CASE Undo(s) \/ UndoBlocked(s)
    <2>1. pc'[s] = "idle" /\ journal.kind = "unpublish"
      BY <1>7 DEF Undo, UndoBlocked, Journals
    <2>2. CASE Undo(s)
      BY <2>1, <2>2 DEF Undo, Closed, Places, Hidden, NoJournal
    <2>3. CASE UndoBlocked(s)
      <3>1. stage' \in {None, Withdrawn} /\ (parked' # None => target' = None)
        BY <2>1, <2>3 DEF UndoBlocked, Returned, Unmoved, Hidden
      <3>2. UNCHANGED journal
        BY <2>3 DEF UndoBlocked, Pending
      <3> QED BY <2>1, <3>1, <3>2 DEF Places, Hidden
    <2> QED BY <1>7, <2>2, <2>3
  <1> QED BY <1>1, <1>2, <1>3, <1>4, <1>5, <1>6, <1>7 DEF Withdrawal

LEMMA OwnPlaces ==
    ASSUME PlaceInv, NEW s \in Session, Begin(s) \/ Continue(s) \/ Fault(s)
    PROVE  Places(s)' /\ Hidden'
  BY ToolCallPlaces, RecoveryPlaces, PromotePlaces, WithdrawalPlaces
     DEF Continue, TurnBoundary

LEMMA PlaceStep == PlaceInv /\ [SkillNext]_skillVars => PlaceInv'
  <1> SUFFICES ASSUME PlaceInv, [SkillNext]_skillVars PROVE PlaceInv'
    OBVIOUS
  <1>1. SkillInv'
    BY SkillStep DEF PlaceInv
  <1>2. ASSUME NEW s \in Session, Begin(s) \/ Continue(s) \/ Fault(s)
        PROVE  PlaceInv'
    <2>1. Undisturbed(s)
      BY <1>2, StoreStep, OwnStep DEF PlaceInv, StepSound, MindsKept
    <2> QED BY <1>1, <1>2, <2>1, OwnPlaces, OthersPlaces DEF PlaceInv
  <1>3. CASE Environment \/ UNCHANGED skillVars
    <2>1. ASSUME Author PROVE Plain /\ pc' = pc
      BY <2>1 DEF Plain, Author, Disturbing
    <2>2. ASSUME Meddle \/ Reconfigure \/ UNCHANGED skillVars
          PROVE  Plain /\ pc' = pc
      BY <2>2 DEF Plain, Meddle, Reconfigure, skillVars, store
    <2>3. Plain /\ pc' = pc
      BY <1>3, <2>1, <2>2 DEF Environment
    <2> QED BY <1>1, <2>3, PlainPlaces, PlainHidden DEF PlaceInv
  <1> QED BY <1>2, <1>3 DEF SkillNext

LEMMA PlaceInvariant == SkillSpec => []PlaceInv
  <1>1. SkillInit => PlaceInv
    BY SkillStart DEF PlaceInv, Hidden, Places, SkillInit, NoJournal
  <1> QED BY <1>1, PlaceStep, PTL DEF SkillSpec

-----------------------------------------------------------------------------
(* What is gone after a step.                                               *)
Excused(p) ==
    \/ ~Barrier /\ p \notin Shared
    \/ /\ journal.kind = "unpublish" /\ p = journal.digest
       /\ record' = NoRecord
       /\ local' = Withdrawn \/ disturbed
    \/ /\ journal.kind = "unpublish" /\ p = Withdrawn
       /\ target' = journal.digest
    \/ record'.digest = p /\ (strayed' \/ target' = None)

Excuses == Author \/ CoreReturns \/ \A p \in Dropped : Excused(p)

LEMMA FinishKeeps ==
    ASSUME PlaceInv, BlockPromotion \/ Recovered
    PROVE  \A p \in Dropped : Excused(p)
  <1>0. (journal # NoJournal => journal \in Journal) /\ Hidden
    BY NoRecordApart DEF PlaceInv
  <1> USE <1>0 DEF Dropped, Excused, Unmoved
  <1>1. CASE FinishPromotion
    BY <1>1 DEF FinishPromotion, Promotable, Registers
  <1>2. CASE BlockPromotion
    BY <1>2 DEF BlockPromotion, Promotable, Hidden
  <1>3. CASE NothingPending \/ AbortPromotion \/ RetreatPromotion
    BY <1>3 DEF NothingPending, AbortPromotion, RetreatPromotion, store
  <1> QED BY <1>1, <1>2, <1>3 DEF Recovered

LEMMA WithdrawalKeeps ==
    ASSUME PlaceInv, NEW s \in Session,
           Keep(s) \/ Give(s) \/ Withdrawal(s)
    PROVE  \A p \in Dropped : Excused(p)
  <1>0. Journals(s) /\ Places(s) /\ Hidden
    BY DEF PlaceInv, SkillInv, SessionInv
  <1> USE <1>0 DEF Dropped, Excused, Inside
  <1>1. CASE Keep(s) \/ Give(s)
    BY <1>1 DEF Keep, Give, Journals, Hidden
  <1>2. CASE Withdraw(s) \/ Unlink(s) \/ UnlinkFails(s) \/ Deregister(s)
    BY <1>2 DEF Withdraw, Unlink, UnlinkFails, Deregister, Unmoved
  <1>3. CASE Stash(s) \/ Return(s)
    BY <1>3 DEF Stash, Return, Places
  <1>4. CASE Discard(s)
    BY <1>4 DEF Discard, Journals, Places
  <1>5. CASE Undo(s) \/ UndoBlocked(s)
    <2>1. journal.kind = "unpublish"
      BY <1>5 DEF Undo, UndoBlocked, Journals
    <2>2. CASE Undo(s)
      BY <2>1, <2>2 DEF Undo, Returned, Hidden
    <2>3. CASE UndoBlocked(s)
      BY <2>1, <2>3 DEF UndoBlocked, Returned, Unmoved, Hidden
    <2> QED BY <1>5, <2>2, <2>3
  <1> QED BY <1>1, <1>2, <1>3, <1>4, <1>5 DEF Withdrawal

LEMMA SessionKeeps ==
    ASSUME PlaceInv, NEW s \in Session, Begin(s) \/ Continue(s) \/ Fault(s)
    PROVE  Excuses
  <1>0. SessionInv(s) /\ Places(s) /\ Hidden /\ pc \in [Session -> Steps]
    BY DEF PlaceInv, SkillInv, SessionType
  <1> USE DEF Excuses, Dropped, Excused
  <1>1. CASE UNCHANGED <<local, parked, target>>
    BY <1>1
  <1>2. CASE CoreSucceeds(s) \/ CoreRaises(s)
    <2>1. pc[s] = "core" /\ pc'[s] \in {"after", "idle"}
      BY <1>0, <1>2 DEF CoreSucceeds, CoreRaises, Go, Done
    <2> QED BY <2>1 DEF CoreReturns
  <1>3. CASE RestoreEdit(s)
    <2>1. journal = NoJournal
      BY <1>0, <1>3 DEF RestoreEdit, Inside, SessionInv, Journals, Edits
    <2> QED BY <1>3, <2>1 DEF RestoreEdit, Barrier
  <1>4. CASE Finish(s)
    BY <1>4, FinishKeeps DEF Finish
  <1>5. CASE Keep(s) \/ Give(s) \/ Withdrawal(s)
    BY <1>5, WithdrawalKeeps
  <1>6. CASE Park(s) \/ Place(s)
    BY <1>0, <1>6 DEF Park, Place, Inside, Places, SessionInv, Journals
  <1>7. CASE Register(s)
    <2>1. /\ parked = journal.digest
          /\ target # None /\ ~strayed => target = parked
      BY <1>0, <1>7
         DEF Register, Inside, Places, SessionInv, Accounts
    <2>2. CASE Registers /\ UNCHANGED <<local, target>>
      <3>1. record'.digest = parked /\ strayed' = strayed /\ parked' = None
        BY <1>7, <2>1, <2>2 DEF Register, Registers
      <3> QED BY <2>1, <2>2, <3>1
    <2>3. CASE local' = parked /\ target \in {None, parked} /\ local = None
      BY <2>1, <2>3
    <2>4. CASE UNCHANGED Unmoved
      BY <2>4 DEF Unmoved
    <2> QED BY <1>7, <2>2, <2>3, <2>4 DEF Register
  <1> QED
    BY <1>1, <1>2, <1>3, <1>4, <1>5, <1>6, <1>7
       DEF Begin, Request, Boundary, Publish, Unpublish, Continue, Acquire,
           ToolCall, CheckBarrier, AskRoots, Preflight, OpenGate, CoreRefuses,
           SaveDigest, NothingRecorded, CleanUp, StartCleanup, RemoveLink,
           EndCleanup, TurnBoundary, Recover, Check, Resume, Unrecoverable,
           Preview, Reconcile, EndForget, Repair, EndRepair, Discover, Promote,
           Fault, Crash, GiveUp, HostFault, GateSetFails, Unmoved, store

(* A package leaves the local root, the hidden path and the shared root     *)
(* only when its owner has it go: no session destroys what it moves,        *)
(* whatever other sessions, failures and crashes come in between.  What     *)
(* somebody without a lock did to the local package while an unpublish was  *)
(* pending, or to the canonical one, is told by disturbed and strayed, and  *)
(* excuses the loss of the parked copy, no more.                            *)
THEOREM PackagesAreKept == SkillSpec => PackagesKept
  <1>1. ASSUME PlaceInv, [SkillNext]_skillVars
        PROVE  Excuses \/ UNCHANGED store
    <2>1. CASE UNCHANGED skillVars
      BY <2>1 DEF skillVars
    <2>2. CASE Environment
      BY <2>2 DEF Environment, Meddle, Reconfigure, Excuses, Dropped, store
    <2> QED BY <1>1, <2>1, <2>2, SessionKeeps DEF SkillNext
  <1>2. PlaceInv /\ [SkillNext]_skillVars =>
          [~(Author \/ CoreReturns) => \A p \in Dropped :
              \/ ~Barrier /\ p \notin Shared
              \/ /\ journal.kind = "unpublish" /\ p = journal.digest
                 /\ record' = NoRecord
                 /\ local' = Withdrawn \/ disturbed
              \/ /\ journal.kind = "unpublish" /\ p = Withdrawn
                 /\ target' = journal.digest
              \/ record'.digest = p /\ (strayed' \/ target' = None)]_store
    BY <1>1 DEF Excuses, Excused
  <1> QED BY <1>2, PlaceInvariant, PTL DEF SkillSpec, PackagesKept

-----------------------------------------------------------------------------
(* The registry contract, step by step.                                     *)
Keeping ==
    \/ Contract!ContractNext
    \/ UNCHANGED <<parked # None \/ stage # None, journal.kind, record>>

LEMMA PendingKeepsContract ==
    ASSUME journal.kind \in {"promote", "unpublish"},
           UNCHANGED <<record, journal.kind>>
    PROVE  Keeping
  BY DEF Keeping, Contract!ContractNext, Contract!Transact

LEMMA EndKeepsContract ==
    ASSUME journal.kind \in {"promote", "unpublish"}, UNCHANGED record,
           Contract!End
    PROVE  Keeping
  BY DEF Keeping, Contract!ContractNext, Contract!Transact

(* No record, no link.                                                      *)
LEMMA UnrecordedUnlinked ==
    ASSUME PlaceInv, record = NoRecord
    PROVE  \A r \in Root : links[r] # "ours"
  BY DEF PlaceInv, SkillInv, StoreAgrees, NoRecord

LEMMA ForgetKeepsContract ==
    ASSUME PlaceInv, journal = NoJournal, target = None, DropRecord,
           UNCHANGED <<parked, stage, journal>>
    PROVE  Keeping
  <1>1. CASE UNCHANGED record
    BY <1>1 DEF Keeping
  <1>2. CASE record' # record
    <2>1. record # NoRecord /\ record' = NoRecord /\ Unoccupied(record.roots)
      BY <1>2 DEF DropRecord
    <2>2. {r \in Root : links[r] = "ours"} = {}
      BY <2>1 DEF Unoccupied, PlaceInv, SkillInv, StoreAgrees
    <2>3. Contract!Forget
      BY <2>1, <2>2 DEF Contract!Forget, NoJournal
    <2> QED BY <2>3 DEF Keeping, Contract!ContractNext
  <1> QED BY <1>1, <1>2

LEMMA RegisterKeepsContract ==
    ASSUME PlaceInv, journal.kind = "promote", Registers,
           target' \in {journal.digest, None} \/ strayed'
    PROVE  Keeping
  <1>1. record = NoRecord /\ journal.digest \in Shared /\ journal \in Journal
    BY NoRecordApart DEF PlaceInv, SkillInv, StoreAgrees
  <1>2. journal.roots \subseteq {r \in Root : links'[r] = "ours"}
    BY <1>1 DEF Registers, Linked, Journal
  <1>3. Contract!Publish
    BY <1>1, <1>2 DEF Contract!Publish, Registers
  <1>4. record' # NoRecord
    BY <1>1, SkillAssumption DEF Registers, NoRecord, Journal
  <1>5. Contract!End
    BY <1>4 DEF Contract!End, Registers, Closed, NoJournal
  <1> QED BY <1>3, <1>5
          DEF Keeping, Contract!ContractNext, Contract!Transact

(* A promotion that ends without a publication.                             *)
LEMMA UndoneKeepsContract ==
    ASSUME PlaceInv, journal.kind = "promote", Closed, parked' = None,
           stage' = None, target' = None, UNCHANGED <<links, record>>
    PROVE  Keeping
  <1>1. record = NoRecord
    BY DEF PlaceInv, SkillInv, StoreAgrees
  <1>2. {r \in Root : links'[r] = "ours"} = {}
    BY <1>1, UnrecordedUnlinked
  <1>3. Contract!End
    BY <1>1, <1>2 DEF Contract!End, Closed, NoJournal
  <1> QED BY <1>3, EndKeepsContract

(* An unpublish that ends with the record: the canonical package is the one *)
(* that came back or the one that never left.                               *)
LEMMA KeptKeepsContract ==
    ASSUME PlaceInv, NEW s \in Session, In(s), pc[s] # "after",
           journal.kind = "unpublish", Closed, parked' = None, stage' = None,
           target' \in {target, journal.digest}, UNCHANGED <<record, strayed>>
    PROVE  Keeping
  <1>1. ~Rewriting
    BY Alone DEF Rewriting, PlaceInv, In
  <1>2. record # NoRecord =>
           target' = record.digest \/ strayed' \/ target' = None
    BY <1>1 DEF PlaceInv, SkillInv, RecordTells, StoreAgrees
  <1>3. Contract!End
    BY <1>2 DEF Contract!End, Closed, NoJournal
  <1> QED BY <1>3, EndKeepsContract

LEMMA FinishKeepsContract ==
    ASSUME PlaceInv, BlockPromotion \/ Recovered
    PROVE  Keeping
  <1>0. Hidden
    BY DEF PlaceInv
  <1>1. CASE FinishPromotion
    BY <1>1, RegisterKeepsContract DEF FinishPromotion, Promotable
  <1>2. CASE AbortPromotion
    BY <1>0, <1>2, UndoneKeepsContract DEF AbortPromotion, Unmoved, Hidden
  <1>3. CASE RetreatPromotion
    BY <1>3, UndoneKeepsContract DEF RetreatPromotion
  <1>4. CASE BlockPromotion
    BY <1>4, PendingKeepsContract DEF BlockPromotion, Pending
  <1>5. CASE NothingPending
    BY <1>5 DEF NothingPending, store, Keeping
  <1> QED BY <1>1, <1>2, <1>3, <1>4, <1>5 DEF Recovered

LEMMA PromoteKeepsContract ==
    ASSUME PlaceInv, NEW s \in Session, Park(s) \/ Place(s) \/ Register(s)
    PROVE  Keeping
  <1>1. /\ journal.kind = "promote" /\ Places(s) /\ SessionInv(s)
        /\ journal \in Journal
    BY NoRecordApart
       DEF Park, Place, Register, Inside, PlaceInv, SkillInv, SessionInv,
           Journals
  <1>2. CASE Park(s)
    <2>1. CASE local \in Shared
      <3>1. UNCHANGED <<journal.kind, record>>
        BY <1>1, <1>2, <2>1 DEF Park, Journal
      <3> QED BY <1>1, <3>1, PendingKeepsContract
    <2>2. CASE local \notin Shared
      BY <1>1, <1>2, <2>2, UndoneKeepsContract DEF Park, Inside, Places
    <2> QED BY <2>1, <2>2
  <1>3. CASE Place(s)
    BY <1>1, <1>3, PendingKeepsContract DEF Place, Pending
  <1>4. CASE Register(s)
    <2>1. /\ parked = journal.digest /\ stage = None
          /\ target # None /\ ~strayed => target = journal.digest
      BY <1>1, <1>4 DEF Register, Inside, Places, SessionInv, Accounts
    <2>2. CASE Registers /\ UNCHANGED <<target, strayed>>
      BY <1>1, <2>1, <2>2, RegisterKeepsContract
    <2>3. CASE /\ parked' = None /\ target' = None /\ Closed
               /\ UNCHANGED <<stage, links, record>>
      BY <1>1, <2>1, <2>3, UndoneKeepsContract
    <2>4. CASE Pending /\ UNCHANGED record
      BY <1>1, <2>4, PendingKeepsContract DEF Pending
    <2> QED BY <1>4, <2>2, <2>3, <2>4 DEF Register
  <1> QED BY <1>2, <1>3, <1>4

LEMMA WithdrawalKeepsContract ==
    ASSUME PlaceInv, NEW s \in Session,
           Keep(s) \/ Give(s) \/ (Withdrawal(s) /\ ~Withdraw(s))
    PROVE  Keeping
  <1>1. journal.kind = "unpublish" /\ Places(s) /\ Journals(s) /\ Hidden
    BY DEF Keep, Give, Withdrawal, Stash, Return, Unlink, UnlinkFails,
           Deregister, Discard, Undo, UndoBlocked, Inside, PlaceInv, SkillInv,
           SessionInv, Journals
  <1>2. CASE UNCHANGED <<journal, record>>
    BY <1>1, <1>2, PendingKeepsContract
  <1>3. CASE Keep(s)
    <2>1. parked \in {None, journal.digest}
      BY <1>1, <1>3 DEF Keep, Inside, Journals
    <2> QED BY <1>1, <1>3, <2>1, KeptKeepsContract DEF Keep, Inside, Hidden
  <1>4. CASE Undo(s)
    BY <1>1, <1>4, KeptKeepsContract DEF Undo, Inside
  <1>5. CASE Deregister(s)
    <2>1. UNCHANGED <<journal.kind, links, local, disturbed>>
      BY <1>5 DEF Deregister, Pending, Unmoved
    <2>2. CASE record = NoRecord
      BY <1>1, <1>2, <1>5, <2>2 DEF Deregister, Pending
    <2>3. CASE record # NoRecord
      <3>1. record.digest \in Package
        BY <2>3, NoRecordApart DEF PlaceInv, Record
      <3>2. {r \in Root : links'[r] = "ours"} = {}
        BY <1>1, <1>5, <2>1 DEF Deregister, Inside, Journals, Unshown
      <3>3. local' = Withdrawn \/ disturbed'
        BY <1>1, <1>5, <2>1 DEF Deregister, Inside, Places
      <3>4. Contract!Withdraw
        BY <1>1, <1>5, <2>3, <3>1, <3>2, <3>3
           DEF Deregister, Contract!Withdraw
      <3> QED BY <1>1, <2>1, <3>4
              DEF Keeping, Contract!ContractNext, Contract!Transact
    <2> QED BY <2>2, <2>3
  <1>6. CASE Discard(s)
    <2>1. CASE Pending
      BY <1>2, <1>6, <2>1 DEF Discard, Pending
    <2>2. CASE Closed /\ parked' = None /\ stage' = None
      <3>1. record' = NoRecord /\ UNCHANGED record
        BY <1>1, <1>6 DEF Discard, Inside, Journals
      <3>2. Contract!End
        BY <1>1, <2>2, <3>1 DEF Contract!End, Closed, NoJournal
      <3> QED BY <1>1, <3>1, <3>2, EndKeepsContract
    <2> QED BY <1>6, <2>1, <2>2 DEF Discard
  <1> QED
    BY <1>2, <1>3, <1>4, <1>5, <1>6
       DEF Give, Withdrawal, Stash, Return, Unlink, UnlinkFails, UndoBlocked,
           Pending

LEMMA SessionKeepsContract ==
    ASSUME PlaceInv, NEW s \in Session, Begin(s) \/ Continue(s) \/ Fault(s)
    PROVE  Keeping
  <1>0. SessionInv(s) /\ Places(s) /\ Hidden /\ pc \in [Session -> Steps]
    BY DEF PlaceInv, SkillInv, SessionType
  <1>1. CASE UNCHANGED <<parked, stage, journal, record>>
    BY <1>1 DEF Keeping
  <1>2. CASE SaveDigest(s)
    <2>1. journal = NoJournal /\ record # NoRecord
      BY <1>0, <1>2
         DEF SaveDigest, Inside, SessionInv, Remembers, Journals, Edits
    <2>2. Contract!Edit
      BY <1>2, <2>1 DEF SaveDigest, Contract!Edit, NoJournal
    <2> QED BY <2>2 DEF Keeping, Contract!ContractNext
  <1>3. CASE EndCleanup(s) \/ EndForget(s)
    <2>1. journal = NoJournal /\ target = None
      BY <1>0, <1>3
         DEF EndCleanup, EndForget, Inside, Places, SessionInv, Journals
    <2> QED BY <1>3, <2>1, ForgetKeepsContract
            DEF EndCleanup, EndForget, Unmoved
  <1>4. CASE Finish(s)
    BY <1>4, FinishKeepsContract DEF Finish
  <1>5. CASE Promote(s) \/ Withdraw(s)
    <2>1. CASE UNCHANGED journal
      BY <1>5, <2>1, <1>1 DEF Promote, Withdraw, Unmoved
    <2>2. CASE journal' # journal
      <3>1. /\ journal = NoJournal
            /\ journal'.kind = IF record = NoRecord THEN "promote"
                                                    ELSE "unpublish"
            /\ UNCHANGED <<parked, stage, record>>
        BY <1>0, <1>5, <2>2
           DEF Promote, Withdraw, Publishable, Withdrawable, Barrier, Inside,
               SessionInv, Remembers, Unmoved
      <3>2. Contract!Begin
        BY <3>1 DEF Contract!Begin, NoJournal
      <3> QED BY <3>2 DEF Keeping, Contract!ContractNext
    <2> QED BY <2>1, <2>2
  <1>6. CASE Park(s) \/ Place(s) \/ Register(s)
    BY <1>6, PromoteKeepsContract
  <1>7. CASE Keep(s) \/ Give(s) \/ (Withdrawal(s) /\ ~Withdraw(s))
    BY <1>7, WithdrawalKeepsContract
  <1> QED
    BY <1>1, <1>2, <1>3, <1>4, <1>5, <1>6, <1>7
       DEF Begin, Request, Boundary, Publish, Unpublish, Continue, Acquire,
           ToolCall, CheckBarrier, AskRoots, Preflight, OpenGate, CoreSucceeds,
           CoreRefuses, CoreRaises, RestoreEdit, NothingRecorded, CleanUp,
           StartCleanup, RemoveLink, TurnBoundary, Recover, Check, Resume,
           Unrecoverable, Preview, Reconcile, Repair, EndRepair, Discover,
           Fault, Crash, GiveUp, HostFault, GateSetFails, Unmoved, store

(* Refinement: whatever sessions, failures and crashes do, the registry,    *)
(* the journal and the hidden packages change as the registry contract      *)
(* says.  Each transaction has the steps that others can come between, and  *)
(* strayed and disturbed say what somebody without a lock did to the        *)
(* canonical package, and to the local one while an unpublish was pending:  *)
(* the clauses of the contract that ask for those packages are then void.   *)
(* A link a promotion died over before it was journaled does not count as   *)
(* shown.                                                                   *)
THEOREM SessionsKeepTheContract == SkillSpec => SessionsKeepContract
  <1>1. SkillInit => Contract!ContractInit
    BY DEF SkillInit, Contract!ContractInit, NoJournal
  <1>2. PlaceInv /\ [SkillNext]_skillVars =>
          [Contract!ContractNext]_(Contract!contract)
    <2>1. CASE Environment \/ UNCHANGED skillVars
      BY <2>1
         DEF Environment, Author, Meddle, Reconfigure, skillVars, store,
             Contract!contract
    <2> QED BY <2>1, SessionKeepsContract
            DEF SkillNext, Keeping, Contract!contract
  <1> QED
    BY <1>1, <1>2, PlaceInvariant, PTL
       DEF SkillSpec, SessionsKeepContract, Contract!ContractSpec

===============================================================================
