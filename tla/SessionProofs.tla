----------------------------- MODULE SessionProofs -----------------------------
(***************************************************************************)
(* Theorems about sessions that work on one skill, for any number of them, *)
(* any packages, roots, configurations, faults and outside moves.          *)
(***************************************************************************)
EXTENDS LifecycleProperties, LocksProofs

Outer  == {"idle", "barrier", "roots", "preview", "discover"}
Edits  == {"call", "core", "after"}
Promoting == {"park", "place", "register"}
Withdrawing == Moving \ Promoting
Inner  == {"after", "cleanup", "forget", "repair"} \cup Moving
Waits  == {"recover", "finish", "preflight", "reconcile", "promote", "withdraw"}
Steps  == Outer \cup Edits \cup Inner \cup Waits
Calls  == {"none", "boundary", "publish", "unpublish"} \cup Actions

USE DEF Moving, Promoting, Withdrawing

(* Where a session is in the lock protocol at each of its steps.           *)
AtStep(s) ==
    /\ pc[s] \in Outer => at[s] = "out"
    /\ pc[s] = "finish" => at[s] = "roots"
    /\ pc[s] \in {"call", "core"} => at[s] = "out" \/ In(s)
    /\ pc[s] \in Inner => In(s)

(* No adapter shows a link that the publisher knows of. *)
Unshown == \A r \in Root : links[r] # "ours"

(* What it read before it had the locks, and what that still is inside.    *)
Remembers(s) ==
    /\ seen[s].made <= made
    /\ pc[s] \in {"roots", "preflight", "withdraw"} => seen[s] # NoRecord
    /\ In(s) /\ pc[s] \in Edits => record = seen[s] /\ record # NoRecord

(* The roots it will need are among those it asked for.  A record with     *)
(* another digest and the same time of creation has the same roots.        *)
AskedFor(s) ==
    /\ pc[s] \in {"preflight", "withdraw"} /\ record.made = seen[s].made =>
          record.roots \subseteq asked[s]
    /\ pc[s] = "promote" => conf[s] \subseteq asked[s]
    /\ pc[s] \in Moving \cup {"finish"} => journal.roots \subseteq asked[s]
    /\ In(s) /\ pc[s] \in Edits \cup {"cleanup"} =>
          record.roots \subseteq asked[s]

(* The journal, the hidden packages, the record and the links while a       *)
(* session moves the skill.                                                *)
Journals(s) ==
    /\ pc[s] \in Promoting => journal.kind = "promote"
    /\ pc[s] \in Withdrawing => journal.kind = "unpublish"
    /\ In(s) /\ pc[s] \in Edits \cup {"cleanup", "forget", "repair"} =>
          journal = NoJournal
    /\ pc[s] = "place" => parked = journal.digest /\ stage = parked
    /\ pc[s] \in {"stash", "return", "undo"} => record # NoRecord
    /\ pc[s] \in {"resume", "give"} => parked \in {None, journal.digest}
    /\ pc[s] \in {"deregister", "discard"} => Unshown
    /\ pc[s] = "discard" => record = NoRecord

(* What is known of the package before the record is brought up to date.   *)
Accounts(s) ==
    /\ pc[s] = "register" /\ target # None /\ ~strayed =>
          target = journal.digest
    /\ In(s) /\ pc[s] \in Edits /\ act[s] = "edit" /\ ~strayed =>
          kept[s] = record.digest /\ kept[s] \in Shared
    /\ pc[s] = "after" /\ act[s] = "file" /\ target # None /\ ~strayed =>
          target \in Shared

Gated(s) ==
    /\ pc[s] = "core" => bypass[s]
    /\ bypass[s] /\ pc[s] # "core" => latched[s]

SessionInv(s) ==
    /\ AtStep(s) /\ Remembers(s) /\ AskedFor(s)
    /\ Journals(s) /\ Accounts(s) /\ Gated(s)

SessionType ==
    /\ pc \in [Session -> Steps] /\ act \in [Session -> Calls]
    /\ seen \in [Session -> Record \cup {NoRecord}]
    /\ conf \in [Session -> SUBSET Root]
    /\ kept \in [Session -> Package \cup {None}]
    /\ bypass \in [Session -> BOOLEAN]
    /\ latched \in [Session -> BOOLEAN]

StoreType ==
    /\ local \in Package \cup {None}
    /\ parked \in Package \cup {None}
    /\ stage \in Package \cup {None}
    /\ target \in Package \cup {None}
    /\ links \in [Root -> LinkKinds]
    /\ record \in Record \cup {NoRecord}
    /\ journal \in Journal \cup {NoJournal}
    /\ made \in 0..MaxMade
    /\ strayed \in BOOLEAN /\ disturbed \in BOOLEAN

(* Links, record and journal agree at every step.                          *)
StoreAgrees ==
    /\ \A r \in Root : links[r] = "ours" => r \in record.roots
    /\ record.made <= made
    /\ journal.kind = "promote" =>
          record = NoRecord /\ made < MaxMade /\ journal.digest \in Shared
    /\ journal.kind = "unpublish" /\ record # NoRecord =>
          /\ record.roots = journal.roots
          /\ record.digest = journal.digest /\ record.digest \in Shared

Rewriting == \E s \in Session :
    In(s) /\ pc[s] = "after" /\ act[s] \in {"edit", "file"}

RecordTells ==
    record # NoRecord /\ target # None /\ ~strayed /\ ~Rewriting =>
        target = record.digest /\ target \in Shared

PolicyType == roots \in Configs /\ approval \in BOOLEAN

SkillInv ==
    /\ LockInv /\ SessionType /\ StoreType /\ PolicyType
    /\ StoreAgrees /\ RecordTells
    /\ \A s \in Session : SessionInv(s)

-----------------------------------------------------------------------------
LEMMA SkillStart == SkillInit => SkillInv
  <1> SUFFICES ASSUME SkillInit PROVE SkillInv
    OBVIOUS
  <1> USE SkillAssumption, LockAssumption DEF SkillInit
  <1>1. LockInv
    BY LockStart
  <1>2. SessionType
    BY DEF SessionType, Steps, Outer, Calls
  <1>3. StoreType
    <2>1. links \in [Root -> LinkKinds]
      BY DEF LinkKinds
    <2>2. made \in 0..MaxMade
      OBVIOUS
    <2> QED BY <2>1, <2>2 DEF StoreType
  <1>6. PolicyType
    BY DEF PolicyType
  <1>4. StoreAgrees /\ RecordTells
    BY DEF StoreAgrees, RecordTells, NoRecord, NoJournal
  <1>5. ASSUME NEW s \in Session PROVE SessionInv(s)
    BY DEF SessionInv, AtStep, Remembers, AskedFor, Journals, Accounts, Gated,
           Outer, Inner, Edits, In, LockInit, NoRecord
  <1> QED BY <1>1, <1>2, <1>3, <1>4, <1>5, <1>6 DEF SkillInv

(* Only one session of the profile is inside, and no other has the state   *)
(* lock.                                                                   *)
LEMMA Alone ==
    ASSUME SkillInv, NEW s \in Session, at[s] = "roots",
           NEW t \in Session, t # s
    PROVE  at[t] # "roots" /\ ~In(t)
  BY SkillAssumption DEF SkillInv, LockInv, Disciplined, LockTypeOK, In

-----------------------------------------------------------------------------
(* Every step, with all its early returns, is a step of the lock protocol  *)
(* or leaves the locks alone.                                              *)
LEMMA DoneLocks ==
    ASSUME NEW s \in Session, Done(s)
    PROVE  LockStep(s) \/ UNCHANGED lockVars
  BY DEF Done, LockStep

LEMMA AskLocks ==
    ASSUME NEW s \in Session, NEW asks \in SUBSET Root,
           Ask(s, asks) \/ Nest(s, asks)
    PROVE  LockStep(s) \/ UNCHANGED lockVars
  BY DEF LockStep

LEMMA RootsAreRoots ==
    ASSUME SkillInv
    PROVE  /\ {} \in SUBSET Root
           /\ LockRoots(roots) \in SUBSET Root
           /\ LockRoots(roots) \cup record.roots \in SUBSET Root
           /\ \A s \in Session : LockRoots(conf[s]) \in SUBSET Root
           /\ \A s \in Session :
                  LockRoots(conf[s]) \cup journal.roots \in SUBSET Root
  <1>1. roots \in SUBSET Root /\ SharedRoot \in Root
    BY SkillAssumption DEF SkillInv, PolicyType
  <1>2. record.roots \in SUBSET Root /\ journal.roots \in SUBSET Root
    BY DEF SkillInv, StoreType, Record, NoRecord, Journal, NoJournal
  <1>3. \A s \in Session : conf[s] \in SUBSET Root
    BY DEF SkillInv, SessionType
  <1> QED BY <1>1, <1>2, <1>3 DEF LockRoots

LEMMA SkillLocks ==
    SkillInv /\ [SkillNext]_skillVars => [LockNext]_lockVars
  <1> SUFFICES ASSUME SkillInv, [SkillNext]_skillVars PROVE [LockNext]_lockVars
    OBVIOUS
  <1>1. ASSUME NEW s \in Session, Begin(s)
        PROVE  LockStep(s) \/ UNCHANGED lockVars
    BY <1>1, AskLocks, RootsAreRoots
       DEF Begin, Request, Boundary, Publish, Unpublish
  <1>2. ASSUME NEW s \in Session, Acquire(s)
        PROVE  LockStep(s) \/ UNCHANGED lockVars
    BY <1>2 DEF Acquire, LockStep
  <1>3. ASSUME NEW s \in Session, ToolCall(s)
        PROVE  LockStep(s) \/ UNCHANGED lockVars
    BY <1>3, AskLocks, RootsAreRoots, DoneLocks
       DEF ToolCall, CheckBarrier, AskRoots, Preflight, OpenGate, CoreSucceeds,
           CoreRefuses, RestoreEdit, SaveDigest, NothingRecorded, CleanUp,
           StartCleanup, RemoveLink, EndCleanup
  <1>4. ASSUME NEW s \in Session, TurnBoundary(s)
        PROVE  LockStep(s) \/ UNCHANGED lockVars
    <2>1. CASE Recover(s) \/ Finish(s) \/ Preview(s) \/ Discover(s)
      BY <2>1, AskLocks, RootsAreRoots, DoneLocks
         DEF Recover, Finish, GoOn, Preview, Discover, LockStep
    <2>2. CASE Reconcile(s) \/ EndForget(s) \/ EndRepair(s)
      BY <2>2, DoneLocks
         DEF Reconcile, EndForget, EndRepair, Reconciled, LockStep
    <2>3. CASE RemoveLink(s, "forget") \/ Repair(s) \/ Place(s)
      BY <2>3 DEF RemoveLink, Repair, Place
    <2>4. CASE Promote(s) \/ Park(s) \/ Register(s)
      BY <2>4, DoneLocks DEF Promote, Park, Register
    <2>5. CASE Check(s) \/ Resume(s) \/ Keep(s) \/ Unrecoverable(s) \/ Give(s)
      BY <2>5, DoneLocks
         DEF Check, Resume, Keep, Unrecoverable, Give, GoOn, LockStep
    <2> QED BY <1>4, <2>1, <2>2, <2>3, <2>4, <2>5 DEF TurnBoundary
  <1>5. ASSUME NEW s \in Session, Withdrawal(s)
        PROVE  LockStep(s) \/ UNCHANGED lockVars
    <2>1. CASE Withdraw(s) \/ Stash(s) \/ Return(s) \/ Unlink(s) \/ Deregister(s)
      BY <2>1, DoneLocks DEF Withdraw, Stash, Return, Unlink, Deregister
    <2>2. CASE UnlinkFails(s) \/ Discard(s) \/ Undo(s) \/ UndoBlocked(s)
      BY <2>2, DoneLocks
         DEF UnlinkFails, Discard, Undo, UndoBlocked, GoOn, LockStep
    <2> QED BY <1>5, <2>1, <2>2 DEF Withdrawal
  <1>6. ASSUME NEW s \in Session, Fault(s)
        PROVE  LockStep(s) \/ UNCHANGED lockVars
    BY <1>6, DoneLocks
       DEF Fault, Crash, GiveUp, HostFault, GateSetFails, CoreRaises,
           CoreSucceeds, CoreRefuses
  <1>7. CASE Environment
    BY <1>7 DEF Environment, Author, Meddle, Reconfigure, lockVars
  <1>8. CASE UNCHANGED skillVars
    BY <1>8 DEF skillVars
  <1> QED
    BY <1>1, <1>2, <1>3, <1>4, <1>5, <1>6, <1>7, <1>8
       DEF SkillNext, Continue, LockNext

-----------------------------------------------------------------------------
(* What a step does to the package, the links, the record and the journal. *)
StoreSound == StoreType /\ StoreAgrees

LEMMA CoreTypes ==
    ASSUME SkillInv, NEW s \in Session, CoreEffect(s)
    PROVE  /\ local' \in Package \cup {None} /\ target' \in Package \cup {None}
           /\ act[s] = "create" => target' = target
           /\ act[s] = "delete" => target' \in {target, None}
  BY SkillAssumption
     DEF CoreEffect, Creates, Rewrites, Version, SkillInv, StoreType

LEMMA NoRecordApart ==
    ASSUME SkillInv
    PROVE  /\ record # NoRecord => record \in Record /\ record.made > 0
           /\ journal # NoJournal => journal \in Journal
           /\ journal.kind \in {"promote", "unpublish"} => journal # NoJournal
           /\ NoRecord \notin Record /\ NoJournal \notin Journal
  BY SkillAssumption
     DEF SkillInv, StoreType, Record, NoRecord, Journal, NoJournal

LEMMA ForgetSound ==
    ASSUME SkillInv, journal = NoJournal, DropRecord,
           UNCHANGED <<local, parked, stage, target, links, journal, made,
                       disturbed>>
    PROVE  StoreSound'
  <1>0. StoreType /\ StoreAgrees
    BY DEF SkillInv
  <1>1. CASE UNCHANGED <<record, strayed>>
    BY <1>0, <1>1 DEF StoreSound, StoreType, StoreAgrees
  <1>2. CASE /\ Unoccupied(record.roots)
             /\ record' = NoRecord /\ strayed' = FALSE
    <2>1. StoreType'
      BY <1>0, <1>2 DEF StoreType
    <2>2. \A r \in Root : links'[r] # "ours"
      BY <1>0, <1>2 DEF StoreAgrees, Unoccupied
    <2>3. record'.made <= made'
      BY <1>0, <1>2, SkillAssumption DEF StoreType, NoRecord
    <2> QED BY <1>2, <2>1, <2>2, <2>3 DEF StoreSound, StoreAgrees, NoJournal
  <1> QED BY <1>1, <1>2 DEF DropRecord

LEMMA RegisterSound ==
    ASSUME SkillInv, journal.kind = "promote", Registers,
           local' \in Package \cup {None}, target' \in Package \cup {None},
           strayed' \in BOOLEAN
    PROVE  StoreSound'
  <1>0. StoreType /\ StoreAgrees
    BY DEF SkillInv
  <1>1. journal \in Journal /\ made < MaxMade /\ record = NoRecord
    BY <1>0, NoRecordApart DEF StoreAgrees
  <1>2. /\ journal.digest \in Package /\ journal.roots \in SUBSET Root
        /\ made + 1 \in 1..MaxMade /\ made + 1 \in 0..MaxMade
    BY <1>0, <1>1, SkillAssumption DEF StoreType, Journal
  <1>3. /\ record' \in Record /\ record'.roots = journal.roots
        /\ record'.made = made + 1 /\ made' = made + 1
    BY <1>2 DEF Registers, Record
  <1>4. links' \in [Root -> LinkKinds]
    BY <1>0 DEF Registers, Linked, StoreType, LinkKinds
  <1>5. \A r \in Root : links'[r] = "ours" => r \in record'.roots
    BY <1>0, <1>1, <1>3 DEF Registers, Linked, StoreAgrees, NoRecord
  <1>6. /\ parked' = None /\ stage' = None /\ journal' = NoJournal
        /\ disturbed' = FALSE
    BY DEF Registers, Closed
  <1>7. StoreType'
    BY <1>2, <1>3, <1>4, <1>6 DEF StoreType
  <1>8. StoreAgrees'
    BY <1>2, <1>3, <1>5, <1>6 DEF StoreAgrees, NoJournal
  <1> QED BY <1>7, <1>8 DEF StoreSound

LEMMA StoreByToolCall ==
    ASSUME SkillInv, NEW s \in Session, ToolCall(s) \/ HostFault(s)
    PROVE  StoreSound'
  <1> USE DEF StoreSound
  <1>0. StoreType /\ StoreAgrees /\ SessionInv(s)
    BY DEF SkillInv
  <1>1. CASE UNCHANGED store
    BY <1>0, <1>1 DEF store, StoreType, StoreAgrees
  <1>2. CASE CoreSucceeds(s) \/ CoreRaises(s)
    <2>1. UNCHANGED <<parked, stage, links, record, journal, made>>
      BY <1>2 DEF CoreSucceeds, CoreRaises
    <2>2. local' \in Package \cup {None} /\ target' \in Package \cup {None}
      BY <1>2, CoreTypes DEF CoreSucceeds, CoreRaises
    <2>3. strayed' \in BOOLEAN /\ disturbed' \in BOOLEAN
      BY <1>0, <1>2 DEF CoreSucceeds, CoreRaises, Disturbing, StoreType
    <2> QED BY <1>0, <2>1, <2>2, <2>3 DEF StoreType, StoreAgrees
  <1>3. CASE RestoreEdit(s)
    <2>1. target' \in Package \cup {None}
      BY <1>3 DEF RestoreEdit, SkillInv, SessionType
    <2> QED BY <1>0, <1>3, <2>1 DEF RestoreEdit, StoreType, StoreAgrees
  <1>4. CASE SaveDigest(s)
    <2>1. journal = NoJournal /\ record \in Record
      BY <1>0, <1>4, NoRecordApart
         DEF SaveDigest, Inside, SessionInv, Remembers, Journals, Edits
    <2>2. /\ record' \in Record
          /\ record'.roots = record.roots /\ record'.made = record.made
      BY <1>4, <2>1, SkillAssumption DEF SaveDigest, Record
    <2>3. UNCHANGED <<local, parked, stage, target, links, journal, made,
                      disturbed>>
      BY <1>4 DEF SaveDigest
    <2>4. strayed' \in BOOLEAN
      BY <1>4 DEF SaveDigest
    <2>5. StoreType'
      BY <1>0, <2>2, <2>3, <2>4 DEF StoreType
    <2>6. StoreAgrees'
      BY <1>0, <2>1, <2>2, <2>3 DEF StoreAgrees, NoJournal
    <2> QED BY <2>5, <2>6
  <1>5. CASE RemoveLink(s, "cleanup")
    BY <1>0, <1>5 DEF RemoveLink, StoreType, StoreAgrees, LinkKinds
  <1>6. CASE EndCleanup(s)
    <2>1. journal = NoJournal
      BY <1>0, <1>6 DEF EndCleanup, Inside, SessionInv, Journals
    <2> QED BY <1>6, <2>1, ForgetSound DEF EndCleanup
  <1> QED
    BY <1>1, <1>2, <1>3, <1>4, <1>5, <1>6
       DEF ToolCall, HostFault, CheckBarrier, AskRoots, Preflight, OpenGate,
           CoreRefuses, NothingRecorded, CleanUp, StartCleanup, GateSetFails

LEMMA StoreByFinish ==
    ASSUME SkillInv, BlockPromotion \/ Recovered
    PROVE  StoreSound'
  <1> USE DEF StoreSound
  <1>0. StoreType /\ StoreAgrees
    BY DEF SkillInv
  <1>1. CASE NothingPending
    BY <1>0, <1>1 DEF NothingPending, store, StoreType, StoreAgrees
  <1>2. CASE FinishPromotion
    <2>1. journal.kind = "promote" /\ journal.digest \in Package
      BY <1>0, <1>2, NoRecordApart DEF FinishPromotion, Promotable, Journal
    <2>2. /\ local' \in Package \cup {None} /\ target' \in Package
          /\ strayed' \in BOOLEAN /\ Registers
      BY <1>0, <1>2, <2>1 DEF FinishPromotion, StoreType
    <2> QED BY <2>1, <2>2, RegisterSound
  <1>3. CASE AbortPromotion \/ RetreatPromotion
    <2>1. {local', parked', stage', target'} \subseteq Package \cup {None}
      BY <1>0, <1>3 DEF AbortPromotion, RetreatPromotion, Unmoved, StoreType
    <2>2. /\ UNCHANGED <<links, record, made, strayed>>
          /\ journal' = NoJournal /\ disturbed' = FALSE
      BY <1>3 DEF AbortPromotion, RetreatPromotion, Closed
    <2>3. StoreType'
      BY <1>0, <2>1, <2>2 DEF StoreType
    <2>4. StoreAgrees'
      BY <1>0, <2>2 DEF StoreAgrees, NoJournal
    <2> QED BY <2>3, <2>4
  <1>4. CASE BlockPromotion
    <2>1. UNCHANGED <<links, record, journal, made, strayed, disturbed>>
      BY <1>4 DEF BlockPromotion, Pending
    <2>2. journal.digest \in Package
      BY <1>0, <1>4, NoRecordApart DEF BlockPromotion, Journal
    <2>3. {local', parked', stage', target'} \subseteq Package \cup {None}
      BY <1>0, <1>4, <2>2 DEF BlockPromotion, Unmoved, StoreType
    <2> QED BY <1>0, <2>1, <2>3 DEF StoreType, StoreAgrees
  <1> QED BY <1>1, <1>2, <1>3, <1>4 DEF Recovered

LEMMA StoreByBoundary ==
    ASSUME SkillInv, NEW s \in Session, TurnBoundary(s)
    PROVE  StoreSound'
  <1>0. StoreType /\ StoreAgrees /\ SessionInv(s)
    BY DEF SkillInv
  <1>1. CASE UNCHANGED store
    BY <1>0, <1>1 DEF StoreSound, store, StoreType, StoreAgrees
  <1>2. CASE Finish(s)
    BY <1>2, StoreByFinish DEF Finish
  <1>3. CASE RemoveLink(s, "forget")
    BY <1>0, <1>3 DEF StoreSound, RemoveLink, StoreType, StoreAgrees, LinkKinds
  <1>4. CASE Repair(s)
    <2>1. /\ links' \in [Root -> LinkKinds]
          /\ \A r \in Root : links'[r] = "ours" => r \in record.roots
      BY <1>0, <1>4 DEF Repair, StoreType, StoreAgrees, LinkKinds
    <2>2. UNCHANGED <<local, parked, stage, target, record, journal, made,
                      strayed, disturbed>>
      BY <1>4 DEF Repair, Unmoved
    <2> QED BY <1>0, <2>1, <2>2 DEF StoreSound, StoreType, StoreAgrees
  <1>5. CASE EndForget(s)
    <2>1. journal = NoJournal
      BY <1>0, <1>5 DEF EndForget, Inside, SessionInv, Journals
    <2> QED BY <1>5, <2>1, ForgetSound DEF EndForget, Unmoved
  <1>6. CASE Promote(s)
    <2>1. UNCHANGED <<local, parked, stage, target, links, record, made,
                      strayed, disturbed>>
      BY <1>6 DEF Promote, Unmoved
    <2>2. CASE UNCHANGED journal
      BY <1>0, <2>1, <2>2 DEF StoreSound, StoreType, StoreAgrees
    <2>3. CASE /\ Publishable(s)
               /\ journal' = [kind |-> "promote", digest |-> local,
                              roots |-> conf[s]]
      <3>1. journal' \in Journal
        BY <2>3, SkillAssumption
           DEF Publishable, Journal, SkillInv, SessionType
      <3> QED BY <1>0, <2>1, <2>3, <3>1
              DEF StoreSound, StoreType, StoreAgrees, Publishable
    <2> QED BY <1>6, <2>2, <2>3 DEF Promote
  <1>7. CASE Park(s)
    <2>1. /\ UNCHANGED <<target, links, record, made, strayed>>
          /\ journal.kind = "promote" /\ journal \in Journal
          /\ disturbed' \in BOOLEAN
      BY <1>0, <1>7, NoRecordApart
         DEF Park, Closed, Inside, SessionInv, Journals, StoreType
    <2>2. CASE /\ local \in Shared
               /\ parked' = local /\ local' = None /\ stage' = local
               /\ journal' = [journal EXCEPT !.digest = local]
      <3>1. /\ journal' \in Journal /\ journal'.kind = "promote"
            /\ journal'.digest \in Shared
        BY <2>1, <2>2, SkillAssumption DEF Journal
      <3> QED BY <1>0, <2>1, <2>2, <3>1, SkillAssumption
              DEF StoreSound, StoreType, StoreAgrees
    <2>3. CASE journal' = NoJournal /\ UNCHANGED <<local, parked, stage>>
      BY <1>0, <2>1, <2>3 DEF StoreSound, StoreType, StoreAgrees, NoJournal
    <2> QED BY <1>7, <2>2, <2>3 DEF Park, Closed
  <1>8. CASE Place(s)
    BY <1>0, <1>8 DEF StoreSound, Place, Pending, StoreType, StoreAgrees
  <1>9. CASE Register(s)
    <2>1. journal.kind = "promote" /\ strayed' \in BOOLEAN
      BY <1>0, <1>9
         DEF Register, Inside, SessionInv, Journals, StoreType
    <2>2. CASE Registers /\ UNCHANGED <<local, target>>
      BY <1>0, <2>1, <2>2, RegisterSound DEF StoreType
    <2>3. CASE /\ local' = parked /\ parked' = None /\ target' = None
               /\ Closed /\ UNCHANGED <<stage, links, record, made>>
      BY <1>0, <2>1, <2>3
         DEF StoreSound, Closed, StoreType, StoreAgrees, NoJournal
    <2>4. CASE Pending /\ UNCHANGED <<Unmoved, links, record, made>>
      BY <1>0, <2>1, <2>4
         DEF StoreSound, Pending, Unmoved, StoreType, StoreAgrees
    <2> QED BY <1>9, <2>2, <2>3, <2>4 DEF Register
  <1>10. CASE Keep(s)
    BY <1>0, <1>10
       DEF StoreSound, Keep, Closed, StoreType, StoreAgrees, NoJournal
  <1>11. CASE Give(s)
    BY <1>0, <1>11 DEF StoreSound, Give, Pending, StoreType, StoreAgrees
  <1> QED
    BY <1>1, <1>2, <1>3, <1>4, <1>5, <1>6, <1>7, <1>8, <1>9, <1>10, <1>11
       DEF TurnBoundary, Recover, Check, Resume, Unrecoverable, Preview,
           Reconcile, EndRepair, Discover

LEMMA StoreByWithdrawal ==
    ASSUME SkillInv, NEW s \in Session, Withdrawal(s)
    PROVE  StoreSound'
  <1>0. StoreType /\ StoreAgrees /\ SessionInv(s)
    BY DEF SkillInv
  <1>1. CASE Withdraw(s)
    <2>1. UNCHANGED <<local, parked, stage, target, links, record, made,
                      strayed, disturbed>>
      BY <1>1 DEF Withdraw, Unmoved
    <2>2. CASE UNCHANGED journal
      BY <1>0, <2>1, <2>2 DEF StoreSound, StoreType, StoreAgrees
    <2>3. CASE /\ Withdrawable(s)
               /\ journal' = [kind |-> "unpublish", digest |-> record.digest,
                              roots |-> record.roots]
      <3>1. record # NoRecord /\ record.digest \in Shared
        BY <1>0, <1>1, <2>3
           DEF Withdraw, Inside, Withdrawable, SessionInv, Remembers
      <3>2. journal' \in Journal
        BY <2>3, <3>1, NoRecordApart, SkillAssumption DEF Journal, Record
      <3> QED BY <1>0, <2>1, <2>3, <3>1, <3>2
              DEF StoreSound, StoreType, StoreAgrees
    <2> QED BY <1>1, <2>2, <2>3 DEF Withdraw
  <1>2. CASE Stash(s) \/ Return(s)
    BY <1>0, <1>2, SkillAssumption
       DEF StoreSound, Stash, Return, Pending, StoreType, StoreAgrees
  <1>3. CASE Unlink(s) \/ UnlinkFails(s)
    <2>1. PICK adapters : links' = Unlinked(adapters)
      BY <1>3 DEF Unlink, UnlinkFails
    <2>2. /\ links' \in [Root -> LinkKinds]
          /\ \A r \in Root : links'[r] = "ours" => links[r] = "ours"
      BY <1>0, <2>1 DEF Unlinked, StoreType, LinkKinds
    <2>3. UNCHANGED <<local, parked, stage, target, record, journal, made,
                      strayed, disturbed>>
      BY <1>3 DEF Unlink, UnlinkFails, Pending, Unmoved
    <2> QED BY <1>0, <2>2, <2>3 DEF StoreSound, StoreType, StoreAgrees
  <1>4. CASE Deregister(s)
    <2>1. Unshown /\ journal.kind = "unpublish"
      BY <1>0, <1>4 DEF Deregister, Inside, SessionInv, Journals
    <2>2. UNCHANGED <<local, parked, stage, target, links, journal, made,
                      disturbed>>
      BY <1>4 DEF Deregister, Pending, Unmoved
    <2>3. record' = NoRecord /\ strayed' = FALSE
      BY <1>4 DEF Deregister
    <2>4. record'.made <= made
      BY <1>0, <2>3, SkillAssumption DEF StoreType, NoRecord
    <2> QED BY <1>0, <2>1, <2>2, <2>3, <2>4
            DEF StoreSound, StoreType, StoreAgrees, Unshown
  <1>5. CASE Discard(s)
    <2>1. /\ parked' \in {parked, None} /\ stage' \in {stage, None}
          /\ UNCHANGED <<local, target, links, record, made, strayed>>
          /\ \/ journal' = NoJournal /\ disturbed' = FALSE
             \/ UNCHANGED <<journal, disturbed>>
      BY <1>5 DEF Discard, Closed, Pending
    <2>2. StoreType'
      BY <1>0, <2>1 DEF StoreType
    <2>3. StoreAgrees'
      BY <1>0, <2>1 DEF StoreAgrees, NoJournal
    <2> QED BY <2>2, <2>3 DEF StoreSound
  <1>6. CASE Undo(s) \/ UndoBlocked(s)
    <2>1. record # NoRecord /\ journal.kind = "unpublish"
      BY <1>0, <1>6 DEF Undo, UndoBlocked, Inside, SessionInv, Journals
    <2>2. record.roots = journal.roots
      BY <1>0, <2>1 DEF StoreAgrees
    <2>3. /\ links' \in [Root -> LinkKinds]
          /\ \A r \in Root : links'[r] = "ours" => r \in record.roots
      <3>1. CASE UNCHANGED links
        BY <1>0, <3>1 DEF StoreType, StoreAgrees
      <3>2. ASSUME NEW adapters \in SUBSET journal.roots,
                   links' = Relinked(adapters)
            PROVE  /\ links' \in [Root -> LinkKinds]
                   /\ \A r \in Root : links'[r] = "ours" => r \in record.roots
        BY <1>0, <2>2, <3>2 DEF Relinked, StoreType, StoreAgrees, LinkKinds
      <3> QED BY <1>6, <3>1, <3>2 DEF Undo, UndoBlocked
    <2>4. {local', parked', stage', target'} \subseteq Package \cup {None}
      BY <1>0, <1>6 DEF Undo, UndoBlocked, Unmoved, StoreType
    <2>5. /\ UNCHANGED <<record, made, strayed>>
          /\ \/ journal' = NoJournal /\ disturbed' = FALSE
             \/ UNCHANGED <<journal, disturbed>>
      BY <1>6 DEF Undo, UndoBlocked, Closed, Pending
    <2>6. StoreType'
      BY <1>0, <2>3, <2>4, <2>5 DEF StoreType
    <2>7. StoreAgrees'
      BY <1>0, <2>3, <2>5 DEF StoreAgrees, NoJournal
    <2> QED BY <2>6, <2>7 DEF StoreSound
  <1> QED BY <1>1, <1>2, <1>3, <1>4, <1>5, <1>6 DEF Withdrawal

LEMMA StoreStep == SkillInv /\ [SkillNext]_skillVars => StoreSound'
  <1> SUFFICES ASSUME SkillInv, [SkillNext]_skillVars PROVE StoreSound'
    OBVIOUS
  <1>0. StoreType /\ StoreAgrees
    BY DEF SkillInv
  <1>1. CASE UNCHANGED store
    BY <1>0, <1>1 DEF StoreSound, store, StoreType, StoreAgrees
  <1>2. ASSUME NEW s \in Session, Crash(s) PROVE StoreSound'
    BY <1>0, <1>2
       DEF StoreSound, Crash, Unjournaled, StoreType, StoreAgrees, LinkKinds
  <1>3. CASE Author
    BY <1>0, <1>3, SkillAssumption
       DEF StoreSound, Author, Disturbing, StoreType, StoreAgrees
  <1>4. CASE Meddle
    BY <1>0, <1>4 DEF StoreSound, Meddle, StoreType, StoreAgrees, LinkKinds
  <1> QED
    BY <1>1, <1>2, <1>3, <1>4, StoreByToolCall, StoreByBoundary,
       StoreByWithdrawal
       DEF SkillNext, Begin, Continue, Fault, Environment, Request, Boundary,
           Publish, Unpublish, Acquire, GiveUp, Reconfigure, skillVars

-----------------------------------------------------------------------------
(* A step of one session does not touch what another one remembers or      *)
(* holds.                                                                  *)
Undisturbed(s) == \A t \in Session \ {s} :
    /\ pc'[t] = pc[t] /\ act'[t] = act[t] /\ seen'[t] = seen[t]
    /\ conf'[t] = conf[t] /\ kept'[t] = kept[t]
    /\ bypass'[t] = bypass[t] /\ latched'[t] = latched[t]
    /\ at'[t] = at[t] /\ asked'[t] = asked[t] /\ holds'[t] = holds[t]

MindsKept(s) == SessionType' /\ Undisturbed(s)

LEMMA DoneMinds ==
    ASSUME SkillInv, NEW s \in Session, Done(s),
           bypass' \in [Session -> BOOLEAN], latched' \in [Session -> BOOLEAN],
           \A t \in Session \ {s} :
              bypass'[t] = bypass[t] /\ latched'[t] = latched[t]
    PROVE  /\ MindsKept(s)
           /\ pc'[s] = "idle" /\ at'[s] = "out" /\ seen'[s] = NoRecord
  <1> USE DEF SkillInv, SessionType, LockInv, LockTypeOK
  <1>1. /\ pc' = [pc EXCEPT ![s] = "idle"] /\ act' = [act EXCEPT ![s] = "none"]
        /\ seen' = [seen EXCEPT ![s] = NoRecord]
        /\ conf' = [conf EXCEPT ![s] = {}] /\ kept' = [kept EXCEPT ![s] = None]
    BY DEF Done, Go, Forget
  <1>2. \/ UNCHANGED lockVars /\ at[s] = "out"
        \/ /\ at' = [at EXCEPT ![s] = "out"]
           /\ asked' = [asked EXCEPT ![s] = {}]
           /\ holds' = [holds EXCEPT ![s] = {}]
    BY DEF Done, Drop
  <1>3. SessionType'
    BY <1>1 DEF Steps, Outer, Calls
  <1> QED BY <1>1, <1>2, <1>3 DEF MindsKept, Undisturbed, lockVars

(* The other ways to end a step.                                           *)
LEMMA GoMinds ==
    ASSUME SkillInv, NEW s \in Session, NEW step \in Steps, Go(s, step)
    PROVE  /\ pc' \in [Session -> Steps] /\ pc'[s] = step
           /\ \A t \in Session \ {s} : pc'[t] = pc[t]
  BY DEF Go, SkillInv, SessionType

LEMMA LockMinds ==
    ASSUME SkillInv, NEW s \in Session,
           \/ UNCHANGED lockVars \/ Drop(s) \/ TakeState(s)
           \/ \E asks : Ask(s, asks) \/ Nest(s, asks)
           \/ \E r \in Root : TakeRoot(s, r)
    PROVE  \A t \in Session \ {s} :
              at'[t] = at[t] /\ asked'[t] = asked[t] /\ holds'[t] = holds[t]
  BY DEF SkillInv, LockInv, LockTypeOK, lockVars, Drop, TakeState, Ask, Nest,
         TakeRoot

LEMMA ReconciledMinds ==
    ASSUME SkillInv, NEW s \in Session, Reconciled(s), UNCHANGED <<bypass, latched>>
    PROVE  MindsKept(s)
  <1>1. CASE Done(s)
    BY <1>1, DoneMinds DEF SkillInv, SessionType
  <1>2. CASE /\ Drop(s) /\ Go(s, "discover")
             /\ act' = [act EXCEPT ![s] = "publish"]
             /\ UNCHANGED <<seen, conf, kept>>
    <2>1. "discover" \in Steps /\ "publish" \in Calls
      BY DEF Steps, Outer, Calls
    <2> QED BY <1>2, <2>1, GoMinds, LockMinds
            DEF MindsKept, Undisturbed, SkillInv, SessionType
  <1> QED BY <1>1, <1>2 DEF Reconciled

-----------------------------------------------------------------------------
(* A session keeps what it knows true at its own steps.                    *)
StepSound(s) == MindsKept(s) /\ SessionInv(s)'

LEMMA EndedSound ==
    ASSUME SkillInv, StoreSound', NEW s \in Session, Done(s),
           bypass' \in [Session -> BOOLEAN], latched' \in [Session -> BOOLEAN],
           \A t \in Session \ {s} :
              bypass'[t] = bypass[t] /\ latched'[t] = latched[t],
           bypass'[s] => latched'[s]
    PROVE  StepSound(s)
  <1>1. /\ MindsKept(s)
        /\ pc'[s] = "idle" /\ at'[s] = "out" /\ seen'[s] = NoRecord
    BY DoneMinds
  <1>2. made' \in Nat
    BY SkillAssumption DEF StoreSound, StoreType
  <1>3. AtStep(s)' /\ Remembers(s)'
    BY <1>1, <1>2 DEF AtStep, Remembers, Outer, Inner, Edits, In, NoRecord
  <1>4. AskedFor(s)' /\ Journals(s)' /\ Accounts(s)' /\ Gated(s)'
    BY <1>1 DEF AskedFor, Journals, Accounts, Gated, Edits, In
  <1> QED BY <1>1, <1>3, <1>4 DEF StepSound, SessionInv

LEMMA DoneSound ==
    ASSUME SkillInv, StoreSound', NEW s \in Session, Done(s),
           pc[s] # "core", UNCHANGED <<bypass, latched>>
    PROVE  StepSound(s)
  BY EndedSound DEF SkillInv, SessionType, SessionInv, Gated

(* A session that moves on to another step inside or outside the locks.    *)
LEMMA MovedSound ==
    ASSUME SkillInv, NEW s \in Session, NEW step \in Steps, Go(s, step),
           UNCHANGED <<act, seen, conf, kept, bypass, latched, lockVars>>
    PROVE  MindsKept(s) /\ pc'[s] = step
  <1>1. /\ pc' \in [Session -> Steps] /\ pc'[s] = step
        /\ \A t \in Session \ {s} : pc'[t] = pc[t]
    BY GoMinds
  <1> QED BY <1>1 DEF MindsKept, Undisturbed, SkillInv, SessionType, lockVars

LEMMA BeginSound ==
    ASSUME SkillInv, StoreSound', NEW s \in Session, Begin(s)
    PROVE  StepSound(s)
  <1> USE DEF SkillInv, SessionType, LockInv, LockTypeOK
  <1>0. SessionInv(s) /\ record \in Record \cup {NoRecord} /\ record.made <= made
    BY DEF StoreType, StoreAgrees
  <1>1. CASE Request(s)
    <2>1. /\ MindsKept(s)
          /\ pc'[s] = "barrier" /\ seen'[s] \in {seen[s], record}
      <3>1. act' \in [Session -> Calls] /\ seen' \in [Session -> Record \cup {NoRecord}]
        BY <1>0, <1>1 DEF Request, Actions, Calls
      <3>2. "barrier" \in Steps
        BY DEF Steps, Outer
      <3> QED BY <1>1, <3>1, <3>2, GoMinds
              DEF Request, MindsKept, Undisturbed, lockVars
    <2> QED BY <1>0, <1>1, <2>1
            DEF Request, StepSound, SessionInv, AtStep, Remembers, AskedFor,
                Journals, Accounts, Gated, Outer, Inner, Edits, In,
                store, lockVars
  <1>2. CASE Boundary(s)
    <2>1. MindsKept(s) /\ pc'[s] = "recover"
      <3>1. conf' \in [Session -> SUBSET Root] /\ act' \in [Session -> Calls]
        BY <1>2, SkillAssumption DEF Boundary, PolicyType, Calls
      <3>2. "recover" \in Steps
        BY DEF Steps, Waits
      <3> QED BY <1>2, <3>1, <3>2, GoMinds, LockMinds
              DEF Boundary, MindsKept, Undisturbed
    <2> QED BY <1>0, <1>2, <2>1
            DEF Boundary, StepSound, SessionInv, AtStep, Remembers, AskedFor,
                Journals, Accounts, Gated, Outer, Inner, Edits, In,
                store
  <1>3. CASE Publish(s)
    <2>1. MindsKept(s) /\ pc'[s] = "promote"
      <3>1. conf' \in [Session -> SUBSET Root] /\ act' \in [Session -> Calls]
        BY <1>3, SkillAssumption DEF Publish, PolicyType, Calls
      <3>2. "promote" \in Steps
        BY DEF Steps, Waits
      <3> QED BY <1>3, <3>1, <3>2, GoMinds, LockMinds
              DEF Publish, MindsKept, Undisturbed
    <2>2. conf'[s] \subseteq asked'[s]
      BY <1>3 DEF Publish, Ask, LockRoots
    <2> QED BY <1>0, <1>3, <2>1, <2>2
            DEF Publish, StepSound, SessionInv, AtStep, Remembers, AskedFor,
                Journals, Accounts, Gated, Outer, Inner, Edits, In,
                store
  <1>4. CASE Unpublish(s)
    <2>1. MindsKept(s) /\ pc'[s] = "withdraw" /\ seen'[s] = record
      <3>1. act' \in [Session -> Calls] /\ seen' \in [Session -> Record \cup {NoRecord}]
        BY <1>0, <1>4 DEF Unpublish, Calls
      <3>2. "withdraw" \in Steps
        BY DEF Steps, Waits
      <3> QED BY <1>0, <1>4, <3>1, <3>2, GoMinds, LockMinds
              DEF Unpublish, MindsKept, Undisturbed
    <2>2. record.roots \subseteq asked'[s] /\ record # NoRecord
      BY <1>4 DEF Unpublish, Ask
    <2> QED BY <1>0, <1>4, <2>1, <2>2
            DEF Unpublish, StepSound, SessionInv, AtStep, Remembers, AskedFor,
                Journals, Accounts, Gated, Outer, Inner, Edits, In,
                store
  <1> QED BY <1>1, <1>2, <1>3, <1>4 DEF Begin

(* A session that still waits for a lock is at one of the waiting steps.   *)
LEMMA WaiterWaits ==
    ASSUME SkillInv, NEW s \in Session, at[s] # "out", ~In(s)
    PROVE  pc[s] \in Waits
  BY DEF SkillInv, SessionType, SessionInv, AtStep, Steps, Outer, Edits, Inner

LEMMA AcquireSound ==
    ASSUME SkillInv, StoreSound', NEW s \in Session, Acquire(s)
    PROVE  StepSound(s)
  <1> USE DEF SkillInv, SessionType, LockInv, LockTypeOK
  <1>1. /\ pc[s] \in Waits
        /\ at[s] = "state" => pc[s] # "finish"
    BY WaiterWaits
       DEF Acquire, TakeState, TakeRoot, IsNext, In, SessionInv, AtStep
  <1>2. at'[s] = "roots" /\ asked'[s] = asked[s]
    BY DEF Acquire, TakeState, TakeRoot, IsNext
  <1>3. MindsKept(s)
    BY LockMinds DEF Acquire, MindsKept, Undisturbed, session
  <1> QED BY <1>1, <1>2, <1>3
          DEF Acquire, StepSound, SessionInv, AtStep, Remembers, AskedFor,
              Journals, Accounts, Gated, Outer, Inner, Edits, Waits,
              store, session

LEMMA PreflightSound ==
    ASSUME SkillInv, StoreSound', NEW s \in Session, Preflight(s)
    PROVE  StepSound(s)
  <1> USE DEF SkillInv, SessionType, LockInv, LockTypeOK
  <1>1. CASE Done(s)
    BY <1>1, DoneSound DEF Preflight, Inside
  <1>2. CASE /\ Preflighted(s)
             /\ kept' = [kept EXCEPT ![s] =
                            IF act[s] = "edit" THEN target ELSE None]
             /\ Go(s, "call")
             /\ UNCHANGED <<act, seen, conf, lockVars>>
    <2>1. /\ In(s) /\ pc[s] = "preflight" /\ record = seen[s]
          /\ record # NoRecord /\ target # None /\ journal = NoJournal
          /\ record.roots \subseteq asked[s]
      BY <1>2 DEF Preflight, Inside, Preflighted, Barrier, SessionInv,
                  Remembers, AskedFor
    <2>2. ~strayed => target = record.digest /\ target \in Shared
      <3>1. ~Rewriting
        BY <2>1, Alone DEF Rewriting, In
      <3> QED BY <2>1, <3>1 DEF RecordTells
    <2>3. /\ kept' \in [Session -> Package \cup {None}]
          /\ "call" \in Steps
      BY <1>2 DEF Steps, Edits, StoreType
    <2>4. MindsKept(s) /\ pc'[s] = "call"
      BY <1>2, <2>3, GoMinds
         DEF Preflight, MindsKept, Undisturbed, lockVars
    <2>5. act[s] = "edit" => kept'[s] = target
      BY <1>2
    <2>6. UNCHANGED <<store, lockVars, act, seen, conf, bypass, latched>>
      BY <1>2 DEF Preflight
    <2>7. In(s)'
      BY <2>1, <2>6 DEF In, Missing, lockVars
    <2>8. SessionInv(s)
      OBVIOUS
    <2>9. AtStep(s)' /\ Remembers(s)' /\ AskedFor(s)'
      BY <2>1, <2>4, <2>6, <2>7, <2>8
         DEF AtStep, Remembers, AskedFor, SessionInv, Outer, Inner, Edits, store, lockVars
    <2>10. Journals(s)' /\ Accounts(s)' /\ Gated(s)'
      BY <2>1, <2>2, <2>4, <2>5, <2>6, <2>7, <2>8
         DEF Journals, Accounts, Gated, SessionInv, Edits, store
    <2> QED BY <2>4, <2>9, <2>10 DEF StepSound, SessionInv
  <1> QED BY <1>1, <1>2 DEF Preflight

LEMMA CoreSound ==
    ASSUME SkillInv, StoreSound', NEW s \in Session,
           CoreSucceeds(s) \/ CoreRefuses(s) \/ CoreRaises(s),
           ResetBypass(s) \/ ResetFails(s)
    PROVE  StepSound(s)
  <1> USE DEF SkillInv, SessionType, LockInv, LockTypeOK
  <1>1. /\ bypass' \in [Session -> BOOLEAN] /\ latched' \in [Session -> BOOLEAN]
        /\ \A t \in Session \ {s} :
              bypass'[t] = bypass[t] /\ latched'[t] = latched[t]
        /\ bypass'[s] => latched'[s]
    BY DEF ResetBypass, ResetFails
  <1>2. CASE Done(s)
    BY <1>1, <1>2, EndedSound
  <1>3. CASE /\ CoreSucceeds(s) /\ Managed(s)
             /\ Go(s, "after") /\ UNCHANGED <<act, seen, conf, kept, lockVars>>
    <2>1. /\ In(s) /\ pc[s] = "core" /\ record = seen[s]
          /\ record # NoRecord /\ journal = NoJournal
          /\ record.roots \subseteq asked[s] /\ SessionInv(s)
      BY <1>3 DEF CoreSucceeds, Managed, SessionInv, AtStep, Remembers,
                  AskedFor, Journals, Edits
    <2>2. "after" \in Steps
      BY DEF Steps, Edits
    <2>3. MindsKept(s) /\ pc'[s] = "after"
      BY <1>1, <1>3, <2>2, GoMinds DEF MindsKept, Undisturbed, lockVars
    <2>4. /\ UNCHANGED <<record, journal, made, parked, act, seen, conf, kept,
                         lockVars>>
          /\ strayed => strayed'
      BY <1>3 DEF CoreSucceeds
    <2>5. In(s)'
      BY <2>1, <2>4 DEF In, Missing, lockVars
    <2>6. ~strayed' /\ target' # None /\ act[s] = "file" => target' \in Shared
      <3>1. ~Rewriting
        BY <2>1, Alone DEF Rewriting, In
      <3>2. ~strayed' /\ target # None => target \in Shared
        BY <2>1, <2>4, <3>1 DEF RecordTells
      <3>3. /\ act[s] = "file" =>
                  \E p \in Version(s) : Rewrites(p)
        BY <1>3 DEF CoreSucceeds, CoreEffect
      <3>4. act[s] = "file" /\ local = None /\ target \in Shared =>
               target' \in Shared
        BY <3>3 DEF Rewrites, Version, Resolved
      <3>5. act[s] = "file" /\ local # None => target' = target
        BY <3>3 DEF Rewrites
      <3>6. act[s] = "file" /\ local = None => target # None
        BY <3>3 DEF Rewrites
      <3> QED BY <3>2, <3>4, <3>5, <3>6
    <2>7. AtStep(s)' /\ Remembers(s)' /\ AskedFor(s)'
      BY <2>1, <2>3, <2>4, <2>5
         DEF AtStep, Remembers, AskedFor, SessionInv, Outer, Inner, Edits, lockVars
    <2>8. Journals(s)' /\ Accounts(s)'
      BY <2>1, <2>3, <2>4, <2>5, <2>6
         DEF Journals, Accounts, SessionInv, Edits
    <2>9. Gated(s)'
      BY <1>1, <2>3 DEF Gated
    <2> QED BY <2>3, <2>7, <2>8, <2>9 DEF StepSound, SessionInv
  <1> QED BY <1>2, <1>3 DEF CoreSucceeds, CoreRefuses, CoreRaises

LEMMA ToolCallSound ==
    ASSUME SkillInv, StoreSound', NEW s \in Session,
           ToolCall(s) \/ HostFault(s)
    PROVE  StepSound(s)
  <1> USE DEF SkillInv, SessionType, LockInv, LockTypeOK
  <1>0. SessionInv(s)
    OBVIOUS
  <1>1. CASE CheckBarrier(s)
    <2>1. CASE Done(s)
      BY <1>1, <2>1, DoneSound DEF CheckBarrier
    <2>2. ASSUME NEW step \in {"call", "roots"}, Go(s, step),
                 step = "roots" => seen[s] # NoRecord,
                 UNCHANGED <<act, seen, conf, kept, lockVars>>
          PROVE  StepSound(s)
      <3>1. MindsKept(s) /\ pc'[s] = step
        BY <1>1, <2>2, MovedSound DEF CheckBarrier, Steps, Edits, Outer
      <3> QED BY <1>0, <1>1, <2>2, <3>1
              DEF CheckBarrier, StepSound, SessionInv, AtStep, Remembers,
                  AskedFor, Journals, Accounts, Gated, Outer, Inner, Edits, In, store, lockVars
    <2> QED BY <1>1, <2>1, <2>2 DEF CheckBarrier
  <1>2. CASE AskRoots(s)
    <2>1. /\ MindsKept(s) /\ pc'[s] = "preflight"
          /\ record.roots \subseteq asked'[s] /\ seen[s] # NoRecord
      <3>1. "preflight" \in Steps
        BY DEF Steps, Waits
      <3> QED BY <1>0, <1>2, <3>1, GoMinds, LockMinds
              DEF AskRoots, MindsKept, Undisturbed, session, Ask, SessionInv,
                  Remembers
    <2> QED BY <1>0, <1>2, <2>1
            DEF AskRoots, StepSound, SessionInv, AtStep, Remembers, AskedFor,
                Journals, Accounts, Gated, Outer, Inner, Edits,
                store, session
  <1>3. CASE OpenGate(s)
    <2>1. CASE Done(s) /\ UNCHANGED bypass
      BY <1>3, <2>1, DoneSound DEF OpenGate
    <2>2. CASE /\ bypass' = [bypass EXCEPT ![s] = TRUE] /\ Go(s, "core")
               /\ UNCHANGED <<act, seen, conf, kept, lockVars>>
      <3>1. MindsKept(s) /\ pc'[s] = "core" /\ bypass'[s]
        <4>1. "core" \in Steps
          BY DEF Steps, Edits
        <4> QED BY <1>3, <2>2, <4>1, GoMinds
                DEF OpenGate, MindsKept, Undisturbed, lockVars
      <3> QED BY <1>0, <1>3, <2>2, <3>1
              DEF OpenGate, StepSound, SessionInv, AtStep, Remembers, AskedFor,
                  Journals, Accounts, Gated, Outer, Inner, Edits,
                  In, Missing, store, lockVars
    <2> QED BY <1>3, <2>1, <2>2 DEF OpenGate
  <1>4. CASE RestoreEdit(s) \/ SaveDigest(s) \/ NothingRecorded(s) \/ EndCleanup(s)
    BY <1>4, DoneSound
       DEF RestoreEdit, SaveDigest, NothingRecorded, EndCleanup, Inside
  <1>5. CASE StartCleanup(s)
    <2>1. CASE Done(s)
      BY <1>5, <2>1, DoneSound DEF StartCleanup, Inside
    <2>2. CASE Go(s, "cleanup") /\ UNCHANGED <<act, seen, conf, kept, lockVars>>
      <3>1. MindsKept(s) /\ pc'[s] = "cleanup"
        BY <1>5, <2>2, MovedSound DEF StartCleanup, Steps, Inner
      <3> QED BY <1>0, <1>5, <2>2, <3>1
              DEF StartCleanup, Inside, StepSound, SessionInv, AtStep,
                  Remembers, AskedFor, Journals, Accounts, Gated, Outer, Inner,
                  Edits, In, Missing, store, lockVars
    <2> QED BY <1>5, <2>1, <2>2 DEF StartCleanup
  <1>6. CASE RemoveLink(s, "cleanup")
    BY <1>0, <1>6
       DEF RemoveLink, Inside, StepSound, MindsKept, Undisturbed, SessionInv,
           AtStep, Remembers, AskedFor, Journals, Accounts, Gated, In, Missing,
           session, lockVars
  <1>7. CASE GateSetFails(s)
    <2>1. /\ bypass' \in [Session -> BOOLEAN] /\ latched' \in [Session -> BOOLEAN]
          /\ \A t \in Session \ {s} :
                bypass'[t] = bypass[t] /\ latched'[t] = latched[t]
          /\ bypass'[s] => latched'[s]
      BY <1>7 DEF GateSetFails
    <2> QED BY <1>7, <2>1, EndedSound DEF GateSetFails
  <1> QED
    BY <1>1, <1>2, <1>3, <1>4, <1>5, <1>6, <1>7, PreflightSound, CoreSound
       DEF ToolCall, HostFault, CleanUp

LEMMA ReconciledSound ==
    ASSUME SkillInv, StoreSound', NEW s \in Session, Reconciled(s),
           pc[s] # "core", UNCHANGED <<made, bypass, latched>>
    PROVE  StepSound(s)
  <1> USE DEF SkillInv, SessionType, LockInv, LockTypeOK
  <1>1. CASE Done(s)
    BY <1>1, DoneSound
  <1>2. CASE /\ Drop(s) /\ Go(s, "discover")
             /\ act' = [act EXCEPT ![s] = "publish"]
             /\ UNCHANGED <<seen, conf, kept>>
    <2>1. MindsKept(s)
      BY ReconciledMinds
    <2>2. pc'[s] = "discover" /\ at'[s] = "out"
      BY <1>2 DEF Go, Drop
    <2> QED BY <1>2, <2>1, <2>2
            DEF StepSound, SessionInv, AtStep,
                Remembers, AskedFor, Journals, Accounts, Gated, Outer, Inner,
                Edits, In, Missing, store, lockVars
  <1> QED BY <1>1, <1>2 DEF Reconciled

(* Recovery is over, and the boundary goes on without the locks.           *)
LEMMA GoneOnSound ==
    ASSUME SkillInv, StoreSound', NEW s \in Session, GoOn(s),
           pc[s] # "core", made' >= made, UNCHANGED <<bypass, latched>>
    PROVE  StepSound(s)
  <1> USE DEF SkillInv, SessionType, LockInv, LockTypeOK
  <1>0. SessionInv(s)
    OBVIOUS
  <1>1. MindsKept(s) /\ pc'[s] = "preview" /\ at'[s] = "out"
    <2>1. "preview" \in Steps
      BY DEF Steps, Outer
    <2> QED BY <2>1, GoMinds, LockMinds DEF GoOn, MindsKept, Undisturbed, Drop
  <1>2. UNCHANGED seen
    BY DEF GoOn
  <1>3. seen'[s].made <= made'
    BY <1>0, <1>2, SkillAssumption
       DEF SessionInv, Remembers, StoreSound, StoreType, Record, NoRecord
  <1> QED BY <1>0, <1>1, <1>2, <1>3
          DEF StepSound, SessionInv, AtStep, Remembers, AskedFor, Journals,
              Accounts, Gated, Outer, Inner, Edits, In

(* Recovery, up to the end of the nested locks.                            *)
LEMMA RecoverSound ==
    ASSUME SkillInv, StoreSound', NEW s \in Session, Recover(s) \/ Finish(s)
    PROVE  StepSound(s)
  <1> USE DEF SkillInv, SessionType, LockInv, LockTypeOK
  <1>0. SessionInv(s)
    OBVIOUS
  <1>1. CASE Done(s)
    BY <1>1, DoneSound DEF Recover, Finish, Inside
  <1>2. CASE /\ Recover(s)
             /\ Nest(s, LockRoots(conf[s]) \cup journal.roots)
             /\ Go(s, "finish") /\ UNCHANGED <<act, seen, conf, kept>>
    <2>1. MindsKept(s) /\ pc'[s] = "finish"
      <3>1. "finish" \in Steps
        BY DEF Steps, Waits
      <3> QED BY <1>2, <3>1, GoMinds, LockMinds
              DEF Recover, MindsKept, Undisturbed
    <2>2. /\ at'[s] = "roots" /\ journal.roots \subseteq asked'[s]
      BY <1>2 DEF Nest, In
    <2> QED BY <1>0, <1>2, <2>1, <2>2
            DEF Recover, Inside, StepSound, SessionInv, AtStep, Remembers,
                AskedFor, Journals, Accounts, Gated, Outer, Inner, Edits, store
  <1>3. CASE Finish(s) /\ Recovered /\ GoOn(s)
    <2>1. made' >= made /\ UNCHANGED <<bypass, latched>> /\ pc[s] # "core"
      BY <1>3, SkillAssumption
         DEF Finish, Inside, Recovered, NothingPending, FinishPromotion,
             Registers, AbortPromotion, RetreatPromotion, store, StoreType
    <2> QED BY <1>3, <2>1, GoneOnSound
  <1> QED BY <1>1, <1>2, <1>3 DEF Recover, Finish

(* A session that goes on in the middle of an unpublish.                   *)
LEMMA WithdrawsOnSound ==
    ASSUME SkillInv, StoreSound', NEW s \in Session, In(s), pc[s] # "core",
           NEW step \in Withdrawing \cup {"finish"}, Go(s, step),
           journal'.kind = "unpublish", journal'.roots \subseteq asked[s],
           step \in {"stash", "return", "undo"} => record' # NoRecord,
           step \in {"resume", "give"} => parked' \in {None, journal'.digest},
           step \in {"deregister", "discard"} => Unshown',
           step = "discard" => record' = NoRecord,
           UNCHANGED <<made, act, seen, conf, kept, bypass, latched, lockVars>>
    PROVE  StepSound(s)
  <1>1. MindsKept(s) /\ pc'[s] = step
    BY MovedSound DEF Steps, Inner, Waits
  <1>2. In(s)' /\ at'[s] = "roots"
    BY DEF In, Missing, lockVars
  <1>3. SessionInv(s)
    BY DEF SkillInv
  <1>4. AtStep(s)' /\ Remembers(s)' /\ AskedFor(s)'
    BY <1>1, <1>2, <1>3
       DEF SessionInv, AtStep, Remembers, AskedFor, Outer, Inner, Edits,
           lockVars
  <1>5. Journals(s)' /\ Accounts(s)' /\ Gated(s)'
    BY <1>1, <1>3 DEF SessionInv, Journals, Accounts, Gated, Edits
  <1> QED BY <1>1, <1>4, <1>5 DEF StepSound, SessionInv

LEMMA RecoverWithdrawalSound ==
    ASSUME SkillInv, StoreSound', NEW s \in Session,
           Check(s) \/ Resume(s) \/ Keep(s) \/ Unrecoverable(s) \/ Give(s)
    PROVE  StepSound(s)
  <1>0. SessionInv(s)
    BY DEF SkillInv
  <1> USE DEF Inside
  <1>1. CASE Done(s)
    BY <1>1, DoneSound DEF Check, Resume, Keep, Unrecoverable, Give
  <1>2. CASE Check(s) /\ ~Refused /\ Go(s, "resume")
    <2>1. journal.kind = "unpublish" /\ journal.roots \subseteq asked[s]
      BY <1>0, <1>2 DEF Check, SessionInv, AskedFor
    <2>2. parked \in {None, journal.digest}
      BY <1>2 DEF Refused
    <2>3. /\ UNCHANGED <<parked, journal, record, links, made>>
          /\ UNCHANGED <<act, seen, conf, kept, bypass, latched, lockVars>>
          /\ In(s) /\ pc[s] = "finish"
      <3>1. pc' # [pc EXCEPT ![s] = "idle"]
        BY <1>2 DEF Go, SkillInv, SessionType
      <3> QED BY <1>2, <3>1 DEF Check, Done, Go, store
    <2> QED BY <1>2, <2>1, <2>2, <2>3, WithdrawsOnSound
  <1>3. CASE Resume(s)
    <2>1. /\ journal.kind = "unpublish" /\ journal.roots \subseteq asked[s]
          /\ parked \in {None, journal.digest}
      BY <1>0, <1>3 DEF Resume, SessionInv, AskedFor, Journals
    <2> QED BY <1>3, <2>1, WithdrawsOnSound DEF Resume, store
  <1>4. CASE Keep(s)
    <2>1. made' >= made
      BY <1>4, SkillAssumption DEF Keep, SkillInv, StoreType
    <2> QED BY <1>4, <2>1, GoneOnSound DEF Keep
  <1>5. CASE Give(s) /\ Go(s, "finish") /\ UNCHANGED <<act, seen, conf, kept, lockVars>>
    <2>1. journal.kind = "unpublish" /\ journal.roots \subseteq asked[s]
      BY <1>0, <1>5 DEF Give, SessionInv, AskedFor, Journals
    <2> QED BY <1>5, <2>1, WithdrawsOnSound DEF Give, Pending
  <1> QED BY <1>1, <1>2, <1>3, <1>4, <1>5 DEF Check, Unrecoverable, Give

LEMMA ReconcileSound ==
    ASSUME SkillInv, StoreSound', NEW s \in Session,
           \/ Preview(s) \/ Reconcile(s) \/ RemoveLink(s, "forget")
           \/ EndForget(s) \/ Repair(s) \/ EndRepair(s)
    PROVE  StepSound(s)
  <1> USE DEF SkillInv, SessionType, LockInv, LockTypeOK
  <1>0. SessionInv(s)
    OBVIOUS
  <1>1. CASE Preview(s)
    <2>1. MindsKept(s) /\ pc'[s] = "reconcile"
      <3>1. conf' \in [Session -> SUBSET Root]
        BY <1>1, SkillAssumption DEF Preview, PolicyType
      <3>2. "reconcile" \in Steps
        BY DEF Steps, Waits
      <3> QED BY <1>1, <3>1, <3>2, GoMinds, LockMinds
              DEF Preview, MindsKept, Undisturbed
    <2> QED BY <1>0, <1>1, <2>1
            DEF Preview, StepSound, SessionInv, AtStep, Remembers, AskedFor,
                Journals, Accounts, Gated, Outer, Inner, Edits, store
  <1>2. CASE Reconcile(s)
    <2>1. CASE Done(s) \/ Reconciled(s)
      BY <1>2, <2>1, DoneSound, ReconciledSound DEF Reconcile, Inside, store
    <2>2. ASSUME NEW step \in {"forget", "repair"}, Go(s, step), ~Barrier,
                 UNCHANGED <<act, seen, conf, kept, lockVars>>
          PROVE  StepSound(s)
      <3>1. MindsKept(s) /\ pc'[s] = step
        BY <1>2, <2>2, MovedSound DEF Reconcile, Steps, Inner
      <3> QED BY <1>0, <1>2, <2>2, <3>1
              DEF Reconcile, Inside, Barrier, StepSound, SessionInv, AtStep,
                Remembers, AskedFor, Journals, Accounts, Gated, Outer, Inner,
                Edits, In, Missing, store, lockVars
    <2> QED BY <1>2, <2>1, <2>2 DEF Reconcile
  <1>3. CASE RemoveLink(s, "forget") \/ Repair(s)
    BY <1>0, <1>3
       DEF RemoveLink, Repair, Inside, StepSound, MindsKept, Undisturbed,
           SessionInv, AtStep, Remembers, AskedFor, Journals, Accounts, Gated, In, Missing,
           session, lockVars
  <1>4. CASE EndForget(s) \/ EndRepair(s)
    BY <1>4, ReconciledSound DEF EndForget, EndRepair, Inside, store
  <1> QED BY <1>1, <1>2, <1>3, <1>4

LEMMA PromoteSound ==
    ASSUME SkillInv, StoreSound', NEW s \in Session,
           Discover(s) \/ Promote(s) \/ Park(s) \/ Place(s) \/ Register(s)
    PROVE  StepSound(s)
  <1> USE DEF SkillInv, SessionType, LockInv, LockTypeOK
  <1>0. SessionInv(s)
    OBVIOUS
  <1>1. CASE Done(s)
    BY <1>1, DoneSound DEF Discover, Promote, Park, Place, Register, Inside,
                          session
  <1>2. CASE /\ Discover(s) /\ Ask(s, LockRoots(conf[s])) /\ Go(s, "promote")
             /\ UNCHANGED <<act, seen, conf, kept>>
    <2>1. MindsKept(s) /\ pc'[s] = "promote"
      <3>1. "promote" \in Steps
        BY DEF Steps, Waits
      <3> QED BY <1>2, <3>1, GoMinds, LockMinds
              DEF Discover, MindsKept, Undisturbed
    <2>2. conf'[s] \subseteq asked'[s]
      BY <1>2 DEF Ask, LockRoots
    <2> QED BY <1>0, <1>2, <2>1, <2>2
            DEF Discover, StepSound, SessionInv, AtStep, Remembers, AskedFor,
                Journals, Accounts, Gated, Outer, Inner, Edits, store
  <1>3. CASE /\ Promote(s) /\ Go(s, "reconcile")
             /\ UNCHANGED <<act, seen, conf, kept, journal, lockVars>>
    <2>1. MindsKept(s) /\ pc'[s] = "reconcile"
      BY <1>3, MovedSound DEF Promote, Steps, Waits
    <2> QED BY <1>0, <1>3, <2>1
            DEF Promote, Inside, StepSound, SessionInv, AtStep,
                Remembers, AskedFor, Journals, Accounts, Gated, Outer, Inner,
                Edits, In, Missing, store, lockVars
  <1>4. CASE /\ Promote(s) /\ Go(s, "park")
             /\ journal' = [kind |-> "promote", digest |-> local,
                            roots |-> conf[s]]
             /\ UNCHANGED <<act, seen, conf, kept, lockVars>>
    <2>1. MindsKept(s) /\ pc'[s] = "park"
      BY <1>4, MovedSound DEF Promote, Steps, Inner
    <2>2. journal'.kind = "promote" /\ journal'.roots \subseteq asked[s]
      BY <1>0, <1>4 DEF Promote, Inside, SessionInv, AskedFor
    <2> QED BY <1>0, <1>4, <2>1, <2>2
            DEF Promote, Inside, StepSound, SessionInv, AtStep,
                Remembers, AskedFor, Journals, Accounts, Gated, Outer, Inner,
                Edits, In, Missing, store, lockVars
  <1>5. CASE /\ Park(s) /\ local \in Shared /\ parked' = local
             /\ journal' = [journal EXCEPT !.digest = local] /\ Go(s, "place")
             /\ UNCHANGED <<act, seen, conf, kept, lockVars>>
    <2>1. MindsKept(s) /\ pc'[s] = "place"
      BY <1>5, MovedSound DEF Park, Steps, Inner
    <2>2. /\ journal \in Journal /\ journal.kind = "promote"
          /\ journal.roots \subseteq asked[s]
      BY <1>0, <1>5, NoRecordApart
         DEF Park, Inside, SessionInv, Journals, AskedFor
    <2>3. /\ journal'.kind = "promote" /\ journal'.roots = journal.roots
          /\ journal'.digest = local
      BY <1>5, <2>2 DEF Journal
    <2> QED BY <1>0, <1>5, <2>1, <2>2, <2>3
            DEF Park, Inside, StepSound, SessionInv, AtStep,
                Remembers, AskedFor, Journals, Accounts, Gated, Outer, Inner,
                Edits, In, Missing, store, lockVars
  <1>6. CASE Place(s)
    <2>1. MindsKept(s) /\ pc'[s] = "register"
      BY <1>6, MovedSound DEF Place, Steps, Inner, session
    <2> QED BY <1>0, <1>6, <2>1
            DEF Place, Pending, session, Inside, StepSound, SessionInv, AtStep,
                Remembers, AskedFor, Journals, Accounts, Gated, Outer, Inner,
                Edits, In, Missing, lockVars
  <1> QED BY <1>1, <1>2, <1>3, <1>4, <1>5, <1>6
          DEF Discover, Promote, Park, Register

LEMMA WithdrawalSound ==
    ASSUME SkillInv, StoreSound', NEW s \in Session, Withdrawal(s)
    PROVE  StepSound(s)
  <1>0. SessionInv(s)
    BY DEF SkillInv
  <1> USE DEF Inside
  <1>1. CASE Done(s)
    BY <1>1, DoneSound
       DEF Withdrawal, Withdraw, Stash, Return, Unlink, UnlinkFails,
           Deregister, Discard, Undo, UndoBlocked
  <1>2. CASE /\ Withdraw(s) /\ Withdrawable(s) /\ Go(s, "stash")
             /\ journal' = [kind |-> "unpublish", digest |-> record.digest,
                            roots |-> record.roots]
             /\ UNCHANGED <<act, seen, conf, kept, lockVars>>
    <2>1. record # NoRecord /\ record.roots \subseteq asked[s]
      BY <1>0, <1>2
         DEF Withdraw, Withdrawable, SessionInv, Remembers, AskedFor
    <2> QED BY <1>2, <2>1, WithdrawsOnSound DEF Withdraw
  <1>3. CASE pc[s] \in Withdrawing /\ ~Done(s)
    <2>1. journal.kind = "unpublish" /\ journal.roots \subseteq asked[s]
      BY <1>0, <1>3 DEF SessionInv, Journals, AskedFor
    <2>2. CASE Stash(s) \/ Return(s)
      <3>1. record # NoRecord
        BY <1>0, <2>2 DEF Stash, Return, SessionInv, Journals
      <3> QED BY <2>1, <2>2, <3>1, WithdrawsOnSound DEF Stash, Return, Pending
    <2>3. CASE Unlink(s)
      <3>1. Unshown'
        BY <2>3
           DEF Unlink, Unlinked, Unshown, SkillInv, StoreType, StoreAgrees
      <3> QED BY <2>1, <2>3, <3>1, WithdrawsOnSound DEF Unlink, Pending
    <2>4. CASE UnlinkFails(s)
      <3>1. record # NoRecord
        BY <2>4 DEF UnlinkFails, Owned, NoRecord
      <3> QED BY <1>3, <2>1, <2>4, <3>1, WithdrawsOnSound
              DEF UnlinkFails, Pending
    <2>5. CASE Deregister(s)
      <3>1. Unshown'
        BY <1>0, <2>5 DEF Deregister, SessionInv, Journals, Unshown
      <3> QED BY <2>1, <2>5, <3>1, WithdrawsOnSound DEF Deregister, Pending
    <2>6. CASE Discard(s)
      <3>1. GoOn(s) /\ made' = made
        BY <1>3, <2>6 DEF Discard
      <3>2. made' >= made
        BY <3>1, SkillAssumption DEF SkillInv, StoreType
      <3> QED BY <2>6, <3>1, <3>2, GoneOnSound DEF Discard
    <2> QED BY <1>3, <2>2, <2>3, <2>4, <2>5, <2>6
            DEF Withdrawal, Withdraw, Undo, UndoBlocked
  <1> QED BY <1>1, <1>2, <1>3
          DEF Withdrawal, Withdraw, Stash, Return, Unlink, UnlinkFails,
              Deregister, Discard, Undo, UndoBlocked

LEMMA FaultSound ==
    ASSUME SkillInv, StoreSound', NEW s \in Session, Crash(s) \/ GiveUp(s)
    PROVE  StepSound(s)
  <1> USE DEF SkillInv, SessionType, LockInv, LockTypeOK
  <1>1. CASE Crash(s)
    <2>1. /\ bypass' \in [Session -> BOOLEAN] /\ latched' \in [Session -> BOOLEAN]
          /\ \A t \in Session \ {s} :
                bypass'[t] = bypass[t] /\ latched'[t] = latched[t]
          /\ ~bypass'[s]
      BY <1>1 DEF Crash
    <2> QED BY <1>1, <2>1, EndedSound DEF Crash
  <1>2. CASE GiveUp(s)
    <2>1. at[s] # "out" /\ ~In(s)
      BY <1>2 DEF GiveUp, MayGiveUp, WaitsFor, IsNext, In
    <2>2. pc[s] # "core"
      BY <2>1, WaiterWaits DEF Waits
    <2> QED BY <1>2, <2>2, DoneSound DEF GiveUp
  <1> QED BY <1>1, <1>2

LEMMA OwnStep ==
    ASSUME SkillInv, StoreSound', NEW s \in Session,
           Begin(s) \/ Continue(s) \/ Fault(s)
    PROVE  StepSound(s)
  BY BeginSound, AcquireSound, ToolCallSound, RecoverSound,
     RecoverWithdrawalSound, ReconcileSound, PromoteSound, WithdrawalSound,
     FaultSound
     DEF Continue, TurnBoundary, Fault

-----------------------------------------------------------------------------
(* Whoever changes the record, the journal or a hidden package or makes a  *)
(* link has the state lock, and a record that stays the same publication   *)
(* keeps its roots.  Without the lock only the package changes, and then   *)
(* unrecorded.                                                             *)
Discreet(s) ==
    \/ /\ at[s] = "roots" /\ made' >= made
       /\ \/ record' = NoRecord
          \/ record'.made > made
          \/ record'.made = record.made /\ record'.roots = record.roots
    \/ /\ UNCHANGED <<record, journal, made, parked, stage>>
       /\ target' \in {target, None} \/ strayed'
       /\ strayed => strayed'
       /\ Unshown => Unshown'

LEMMA StepDiscreet ==
    ASSUME SkillInv, NEW s \in Session, Begin(s) \/ Continue(s) \/ Fault(s)
    PROVE  Discreet(s)
  <1>0. made \in Nat /\ StoreType
    BY SkillAssumption DEF SkillInv, StoreType
  <1>1. CASE UNCHANGED store
    BY <1>1 DEF store, Discreet, Unshown
  <1>2. CASE CoreSucceeds(s) \/ CoreRaises(s)
    <2>1. CASE CoreSucceeds(s) /\ Managed(s)
      BY <1>0, <2>1 DEF CoreSucceeds, Managed, Discreet
    <2>2. CASE ~(CoreSucceeds(s) /\ Managed(s))
      BY <1>2, <2>2 DEF CoreSucceeds, CoreRaises, Discreet, Unshown
    <2> QED BY <2>1, <2>2
  <1>3. CASE \/ RestoreEdit(s) \/ RemoveLink(s, "cleanup") \/ RemoveLink(s, "forget")
             \/ Repair(s) \/ Promote(s) \/ Park(s) \/ Place(s)
             \/ Keep(s) \/ Give(s)
    BY <1>0, <1>3
       DEF RestoreEdit, RemoveLink, Repair, Promote, Park, Place, Keep, Give,
           Unmoved, Inside, In, Discreet
  <1>4. CASE SaveDigest(s)
    <2>1. record \in Record
      BY <1>4, NoRecordApart
         DEF SaveDigest, Inside, SkillInv, SessionInv, Remembers, Edits
    <2>2. record'.made = record.made /\ record'.roots = record.roots
      BY <1>4, <2>1 DEF SaveDigest, Record
    <2> QED BY <1>0, <1>4, <2>2 DEF SaveDigest, Inside, In, Discreet
  <1>5. CASE EndCleanup(s) \/ EndForget(s)
    BY <1>0, <1>5 DEF EndCleanup, EndForget, DropRecord, Inside, In, Discreet
  <1>6. CASE Finish(s)
    <2>1. \/ UNCHANGED <<record, made>>
          \/ record'.made = made + 1 /\ made' = made + 1
      BY <1>6
         DEF Finish, Recovered, NothingPending, FinishPromotion, Registers,
             AbortPromotion, RetreatPromotion, BlockPromotion, store
    <2> QED BY <1>0, <1>6, <2>1 DEF Finish, Inside, In, Discreet
  <1>7. CASE Register(s)
    <2>1. \/ UNCHANGED <<record, made>>
          \/ record'.made = made + 1 /\ made' = made + 1
      BY <1>7 DEF Register, Registers
    <2> QED BY <1>0, <1>7, <2>1 DEF Register, Inside, In, Discreet
  <1>8. CASE Withdrawal(s)
    <2>1. /\ UNCHANGED made /\ (record' = NoRecord \/ UNCHANGED record)
          /\ In(s)
      BY <1>8
         DEF Withdrawal, Withdraw, Stash, Return, Unlink, UnlinkFails,
             Deregister, Discard, Undo, UndoBlocked, Unmoved, Inside
    <2> QED BY <1>0, <2>1 DEF In, Discreet
  <1>9. CASE Crash(s)
    BY <1>0, <1>9 DEF Crash, Unjournaled, StoreType, Discreet, Unshown
  <1> QED
    BY <1>1, <1>2, <1>3, <1>4, <1>5, <1>6, <1>7, <1>8, <1>9
       DEF Begin, Request, Boundary, Publish, Unpublish, Continue, Acquire,
           ToolCall, CheckBarrier, AskRoots, Preflight, OpenGate, CoreRefuses,
           NothingRecorded, CleanUp, StartCleanup, TurnBoundary, Recover,
           Check, Resume, Unrecoverable, Preview, Reconcile, EndRepair,
           Discover, Fault, HostFault, GateSetFails, GiveUp

LEMMA BystanderSound ==
    ASSUME SkillInv, StoreSound', NEW s \in Session, NEW t \in Session, t # s,
           Undisturbed(s), Discreet(s)
    PROVE  SessionInv(t)'
  <1>0. SessionInv(t)
    BY DEF SkillInv
  <1>1. /\ pc'[t] = pc[t] /\ act'[t] = act[t] /\ seen'[t] = seen[t]
        /\ conf'[t] = conf[t] /\ kept'[t] = kept[t]
        /\ bypass'[t] = bypass[t] /\ latched'[t] = latched[t]
        /\ at'[t] = at[t] /\ asked'[t] = asked[t] /\ holds'[t] = holds[t]
    BY DEF Undisturbed
  <1>2. In(t)' <=> In(t)
    BY <1>1 DEF In, Missing
  <1>3. seen[t].made \in Nat /\ made \in Nat /\ made' \in Nat
    BY SkillAssumption
       DEF SkillInv, SessionType, StoreSound, StoreType, Record, NoRecord
  <1>4. CASE /\ at[s] = "roots" /\ made' >= made
             /\ \/ record' = NoRecord
                \/ record'.made > made
                \/ record'.made = record.made /\ record'.roots = record.roots
    <2>1. at[t] # "roots" /\ ~In(t)
      BY <1>4, Alone
    <2>2. pc[t] \notin Inner \cup {"finish"}
      BY <1>0, <2>1 DEF SessionInv, AtStep
    <2>3. record'.made = seen[t].made =>
             \/ record'.roots = {}
             \/ record.made = seen[t].made /\ record'.roots = record.roots
      BY <1>0, <1>3, <1>4 DEF SessionInv, Remembers, NoRecord
    <2> QED BY <1>0, <1>1, <1>2, <1>3, <1>4, <2>1, <2>2, <2>3
            DEF SessionInv, AtStep, Remembers, AskedFor, Journals, Accounts,
                Gated, Inner
  <1>5. CASE /\ UNCHANGED <<record, journal, made, parked, stage>>
             /\ target' \in {target, None} \/ strayed'
             /\ strayed => strayed'
             /\ Unshown => Unshown'
    BY <1>0, <1>1, <1>2, <1>5
       DEF SessionInv, AtStep, Remembers, AskedFor, Journals, Accounts, Gated
  <1> QED BY <1>4, <1>5 DEF Discreet

-----------------------------------------------------------------------------
(* The record goes on telling the truth.                                   *)
LEMMA StillTells ==
    ASSUME SkillInv, NEW s \in Session, Undisturbed(s),
           \/ strayed' \/ target' = None \/ record' = NoRecord
           \/ /\ UNCHANGED <<record, target, strayed>>
              /\ ~(pc[s] = "after" /\ act[s] \in {"edit", "file"})
    PROVE  RecordTells'
  <1>1. CASE /\ UNCHANGED <<record, target, strayed>>
             /\ ~(pc[s] = "after" /\ act[s] \in {"edit", "file"})
    <2>1. Rewriting => Rewriting'
      BY <1>1 DEF Rewriting, Undisturbed, In, Missing
    <2> QED BY <1>1, <2>1 DEF SkillInv, RecordTells
  <1> QED BY <1>1 DEF RecordTells

LEMMA ToolCallTells ==
    ASSUME SkillInv, NEW s \in Session, ToolCall(s) \/ HostFault(s),
           MindsKept(s)
    PROVE  RecordTells'
  <1>0. SessionInv(s) /\ Undisturbed(s)
    BY DEF SkillInv, MindsKept
  <1>1. CASE UNCHANGED store /\ pc[s] # "after"
    BY <1>0, <1>1, StillTells DEF store
  <1>2. CASE CoreSucceeds(s) \/ CoreRaises(s)
    <2>1. CASE CoreSucceeds(s) /\ Managed(s) /\ act[s] \in {"edit", "file"}
      <3>1. In(s)' /\ pc'[s] = "after" /\ act'[s] = act[s]
        BY <1>0, <2>1
           DEF CoreSucceeds, Managed, Go, In, Missing, lockVars, SessionInv,
               AtStep, SkillInv, SessionType
      <3>2. Rewriting'
        BY <2>1, <3>1 DEF Rewriting
      <3> QED BY <3>2 DEF RecordTells
    <2>2. CASE \/ strayed' \/ target' = None
               \/ UNCHANGED <<record, target, strayed>> /\ pc[s] # "after"
      BY <1>0, <2>2, StillTells
    <2>3. act[s] \in {"create", "edit", "file", "delete"}
      BY <1>2 DEF CoreSucceeds, CoreRaises, CoreEffect
    <2>4. UNCHANGED record /\ pc[s] = "core" /\ CoreEffect(s)
      BY <1>2 DEF CoreSucceeds, CoreRaises
    <2>5. strayed \in BOOLEAN
      BY DEF SkillInv, StoreType
    <2>6. CASE CoreSucceeds(s) /\ ~(Managed(s) /\ act[s] \in {"edit", "file"})
      <3>1. CASE target' = target
        BY <2>2, <2>4, <2>5, <2>6, <3>1 DEF CoreSucceeds
      <3>2. CASE target' # target /\ act[s] \in {"create", "delete"}
        BY <2>2, <2>4, <3>2, CoreTypes
      <3>3. CASE target' # target /\ act[s] \in {"edit", "file"}
        BY <2>2, <2>6, <3>3 DEF CoreSucceeds
      <3> QED BY <2>3, <3>1, <3>2, <3>3
    <2>7. CASE CoreRaises(s)
      <3>1. CASE target' = target
        BY <2>2, <2>4, <2>5, <2>7, <3>1 DEF CoreRaises
      <3>2. CASE target' # target
        BY <2>2, <2>7, <3>2 DEF CoreRaises
      <3> QED BY <3>1, <3>2
    <2> QED BY <1>2, <2>1, <2>6, <2>7
  <1>3. CASE RestoreEdit(s)
    <2>1. CASE strayed \/ target = None
      BY <1>0, <1>3, <2>1, StillTells DEF RestoreEdit
    <2>2. CASE ~strayed /\ target # None
      <3>1. target' = record.digest /\ target' \in Shared /\ UNCHANGED record
        BY <1>0, <1>3, <2>2
           DEF RestoreEdit, Inside, SessionInv, Accounts, Edits
      <3> QED BY <3>1 DEF RecordTells
    <2> QED BY <2>1, <2>2
  <1>4. CASE SaveDigest(s)
    <2>1. record \in Record
      BY <1>0, <1>4, NoRecordApart
         DEF SaveDigest, Inside, SessionInv, Remembers, Edits
    <2>2. record'.digest = target /\ target' = target /\ target \in Shared
      BY <1>4, <2>1 DEF SaveDigest, Record
    <2> QED BY <2>2 DEF RecordTells
  <1>5. CASE NothingRecorded(s)
    <2>1. CASE act[s] = "create"
      BY <1>0, <1>5, <2>1, StillTells DEF NothingRecorded, store
    <2>2. CASE act[s] = "file" /\ target \notin Shared
      <3>1. strayed \/ target = None
        BY <1>0, <1>5, <2>2 DEF NothingRecorded, Inside, SessionInv, Accounts
      <3> QED BY <1>0, <1>5, <3>1, StillTells DEF NothingRecorded, store
    <2> QED BY <1>5, <2>1, <2>2 DEF NothingRecorded
  <1>6. CASE StartCleanup(s)
    BY <1>0, <1>6, StillTells DEF StartCleanup, store
  <1>7. CASE RemoveLink(s, "cleanup")
    BY <1>0, <1>7, StillTells DEF RemoveLink, Inside
  <1>8. CASE EndCleanup(s)
    BY <1>0, <1>8, StillTells DEF EndCleanup, DropRecord, Inside
  <1> QED
    BY <1>1, <1>2, <1>3, <1>4, <1>5, <1>6, <1>7, <1>8
       DEF ToolCall, HostFault, CheckBarrier, AskRoots, Preflight, OpenGate,
           CoreRefuses, CleanUp, GateSetFails, Inside

LEMMA FinishTells ==
    ASSUME SkillInv, NEW s \in Session, Finish(s), MindsKept(s)
    PROVE  RecordTells'
  <1>0. StoreAgrees /\ Undisturbed(s) /\ pc[s] # "after"
    BY DEF SkillInv, MindsKept, Finish, Inside
  <1>1. CASE NothingPending \/ AbortPromotion \/ RetreatPromotion
    <2>1. UNCHANGED <<record, target, strayed>>
      BY <1>1 DEF NothingPending, AbortPromotion, RetreatPromotion, Unmoved,
                  store
    <2> QED BY <1>0, <2>1, StillTells
  <1>2. CASE FinishPromotion
    <2>1. journal.digest \in Shared
      BY <1>0, <1>2 DEF FinishPromotion, Promotable, StoreAgrees
    <2> QED BY <1>2, <2>1 DEF FinishPromotion, Registers, RecordTells
  <1>3. CASE BlockPromotion
    <2>1. record' = NoRecord
      BY <1>0, <1>3 DEF BlockPromotion, StoreAgrees
    <2> QED BY <1>0, <2>1, StillTells
  <1> QED BY <1>1, <1>2, <1>3 DEF Finish, Recovered

LEMMA BoundaryTells ==
    ASSUME SkillInv, NEW s \in Session, TurnBoundary(s) \/ Withdrawal(s),
           MindsKept(s)
    PROVE  RecordTells'
  <1>0. SessionInv(s) /\ Undisturbed(s) /\ StoreAgrees
    BY DEF SkillInv, MindsKept
  <1>1. CASE /\ \/ UNCHANGED <<record, target, strayed>>
                \/ target' = None \/ record' = NoRecord
             /\ pc[s] # "after"
    BY <1>0, <1>1, StillTells
  <1>2. CASE \/ Recover(s) \/ Check(s) \/ Resume(s) \/ Unrecoverable(s)
             \/ Preview(s) \/ Reconcile(s) \/ EndRepair(s) \/ Discover(s)
    <2>1. UNCHANGED store /\ pc[s] # "after"
      BY <1>2 DEF Recover, Check, Resume, Unrecoverable, Preview, Reconcile,
                  EndRepair, Discover, Inside
    <2> QED BY <1>1, <2>1 DEF store
  <1>3. CASE \/ RemoveLink(s, "forget") \/ Repair(s) \/ EndForget(s)
             \/ Promote(s) \/ Park(s) \/ Give(s) \/ Withdraw(s) \/ Stash(s)
             \/ Return(s) \/ Unlink(s) \/ UnlinkFails(s) \/ Deregister(s)
             \/ Discard(s)
    BY <1>1, <1>3
       DEF RemoveLink, Repair, EndForget, DropRecord, Promote, Park, Give,
           Withdraw, Stash, Return, Unlink, UnlinkFails, Deregister, Discard,
           Unmoved, Inside
  <1>4. CASE Place(s)
    <2>1. record' = NoRecord
      BY <1>0, <1>4 DEF Place, Inside, SessionInv, Journals, StoreAgrees
    <2> QED BY <1>0, <2>1, StillTells
  <1>5. CASE Register(s)
    <2>1. journal.digest \in Shared /\ record = NoRecord
      BY <1>0, <1>5 DEF Register, Inside, SessionInv, Journals, StoreAgrees
    <2>2. CASE Registers /\ UNCHANGED target
      <3>1. record'.digest = journal.digest /\ UNCHANGED strayed
        BY <1>5, <2>2 DEF Register, Registers
      <3>2. target # None /\ ~strayed => target = journal.digest
        BY <1>0, <1>5 DEF Register, Inside, SessionInv, Accounts
      <3> QED BY <2>1, <2>2, <3>1, <3>2 DEF RecordTells
    <2>3. CASE UNCHANGED record
      BY <1>0, <2>1, <2>3, StillTells
    <2> QED BY <1>5, <2>2, <2>3 DEF Register
  <1>6. CASE Keep(s)
    <2>1. CASE target' = parked /\ parked # None
      <3>1. journal.kind = "unpublish" /\ parked = journal.digest
        BY <1>0, <1>6, <2>1 DEF Keep, Inside, SessionInv, Journals
      <3>2. UNCHANGED <<record, strayed>>
        BY <1>6 DEF Keep
      <3> QED BY <1>0, <2>1, <3>1, <3>2 DEF StoreAgrees, RecordTells
    <2>2. CASE target' = target
      BY <1>1, <1>6, <2>2 DEF Keep, Inside
    <2> QED BY <1>6, <2>1, <2>2 DEF Keep
  <1>7. CASE Undo(s) \/ UndoBlocked(s)
    <2>1. UNCHANGED <<record, strayed>> /\ pc[s] = "undo"
      BY <1>7 DEF Undo, UndoBlocked, Inside
    <2>2. CASE target' = journal.digest
      <3>1. journal.kind = "unpublish"
        BY <1>0, <2>1 DEF SessionInv, Journals
      <3> QED BY <1>0, <2>1, <2>2, <3>1 DEF StoreAgrees, RecordTells
    <2>3. CASE target' = target
      BY <1>1, <2>1, <2>3
    <2> QED BY <1>7, <2>2, <2>3 DEF Undo, UndoBlocked, Unmoved
  <1> QED BY <1>2, <1>3, <1>4, <1>5, <1>6, <1>7, FinishTells
          DEF TurnBoundary, Withdrawal

LEMMA SessionTells ==
    ASSUME SkillInv, NEW s \in Session, Begin(s) \/ Continue(s) \/ Fault(s),
           MindsKept(s)
    PROVE  RecordTells'
  <1>0. SessionInv(s) /\ Undisturbed(s) /\ strayed \in BOOLEAN
    BY DEF SkillInv, StoreType, MindsKept
  <1>1. CASE Begin(s)
    <2>1. UNCHANGED store /\ pc[s] # "after"
      BY <1>1 DEF Begin, Request, Boundary, Publish, Unpublish
    <2> QED BY <1>0, <2>1, StillTells DEF store
  <1>2. CASE Acquire(s)
    <2>1. UNCHANGED store /\ ~In(s)
      BY <1>2 DEF Acquire, TakeState, TakeRoot, IsNext, In
    <2>2. pc[s] # "after"
      BY <1>0, <2>1 DEF SessionInv, AtStep, Inner
    <2> QED BY <1>0, <2>1, <2>2, StillTells DEF store
  <1>3. CASE Crash(s)
    <2>1. CASE pc[s] = "after" /\ act[s] \in {"edit", "file"}
      BY <1>0, <1>3, <2>1, StillTells DEF Crash
    <2>2. CASE ~(pc[s] = "after" /\ act[s] \in {"edit", "file"})
      <3>1. UNCHANGED <<record, target>> /\ (strayed' \/ strayed' = strayed)
        BY <1>0, <1>3 DEF Crash
      <3> QED BY <1>0, <2>2, <3>1, StillTells
    <2> QED BY <2>1, <2>2
  <1>4. CASE GiveUp(s)
    <2>1. UNCHANGED store /\ ~In(s)
      BY <1>4 DEF GiveUp, MayGiveUp, WaitsFor, IsNext, In
    <2>2. pc[s] # "after"
      BY <1>0, <2>1 DEF SessionInv, AtStep, Inner
    <2> QED BY <1>0, <2>1, <2>2, StillTells DEF store
  <1> QED BY <1>1, <1>2, <1>3, <1>4, ToolCallTells, BoundaryTells
          DEF Continue, Fault

-----------------------------------------------------------------------------
(* Moves of the environment, and no move at all.                           *)
LEMMA OutsideSound ==
    ASSUME SkillInv, Environment \/ UNCHANGED skillVars
    PROVE  /\ SessionType' /\ PolicyType' /\ RecordTells'
           /\ \A s \in Session : SessionInv(s)'
  <1>1. UNCHANGED <<parked, stage, target, record, journal, made, strayed,
                    session, pc, lockVars>>
    BY DEF Environment, Author, Meddle, Reconfigure, skillVars, store
  <1>2. SessionType'
    BY <1>1 DEF SkillInv, SessionType, session
  <1>3. PolicyType'
    BY DEF SkillInv, PolicyType, Environment, Author, Meddle, Reconfigure,
           skillVars, policy
  <1>4. \A s \in Session : In(s)' <=> In(s)
    BY <1>1 DEF In, Missing, lockVars
  <1>5. RecordTells'
    <2>1. Rewriting => Rewriting'
      BY <1>1, <1>4 DEF Rewriting, session
    <2> QED BY <1>1, <2>1 DEF SkillInv, RecordTells
  <1>6. ASSUME NEW s \in Session PROVE SessionInv(s)'
    <2>1. SessionInv(s)
      BY DEF SkillInv
    <2>2. Unshown => Unshown'
      BY DEF Unshown, Environment, Author, Meddle, Reconfigure, skillVars,
             store, SkillInv, StoreType
    <2> QED
      BY <1>1, <1>4, <2>1, <2>2
         DEF SessionInv, AtStep, Remembers, AskedFor, Journals, Accounts,
             Gated, session, lockVars
  <1> QED BY <1>2, <1>3, <1>5, <1>6

LEMMA SkillStep == SkillInv /\ [SkillNext]_skillVars => SkillInv'
  <1> SUFFICES ASSUME SkillInv, [SkillNext]_skillVars PROVE SkillInv'
    OBVIOUS
  <1>1. LockInv'
    BY SkillLocks, LockType, LockDiscipline, LockOrder DEF SkillInv, LockInv
  <1>2. StoreSound'
    BY StoreStep
  <1>3. ASSUME NEW s \in Session, Begin(s) \/ Continue(s) \/ Fault(s)
        PROVE  SkillInv'
    <2>1. MindsKept(s) /\ SessionInv(s)'
      BY <1>2, <1>3, OwnStep DEF StepSound
    <2>2. Discreet(s)
      BY <1>3, StepDiscreet
    <2>3. \A t \in Session : SessionInv(t)'
      BY <1>2, <2>1, <2>2, BystanderSound DEF MindsKept
    <2>4. RecordTells'
      BY <1>3, <2>1, SessionTells
    <2>5. UNCHANGED policy
      BY <1>3
         DEF Begin, Request, Boundary, Publish, Unpublish, Continue, Acquire,
             ToolCall, CheckBarrier, AskRoots, Preflight, OpenGate,
             CoreSucceeds, CoreRefuses, RestoreEdit, SaveDigest,
             NothingRecorded, CleanUp, StartCleanup, RemoveLink, EndCleanup,
             TurnBoundary, Recover, Finish, Check, Resume, Keep,
             Unrecoverable, Give, Preview, Reconcile, EndForget, Repair,
             EndRepair, Discover, Promote, Park, Place, Register, Withdrawal,
             Withdraw, Stash, Return, Unlink, UnlinkFails, Deregister,
             Discard, Undo, UndoBlocked, Fault, Crash, GiveUp, HostFault,
             GateSetFails, CoreRaises
    <2>6. PolicyType'
      BY <2>5 DEF SkillInv, PolicyType, policy
    <2> QED BY <1>1, <1>2, <2>1, <2>3, <2>4, <2>6
            DEF SkillInv, StoreSound, MindsKept
  <1>4. CASE Environment \/ UNCHANGED skillVars
    BY <1>1, <1>2, <1>4, OutsideSound DEF SkillInv, StoreSound
  <1> QED BY <1>3, <1>4 DEF SkillNext

LEMMA SkillInvariant == SkillSpec => []SkillInv
  BY SkillStart, SkillStep, PTL DEF SkillSpec

-----------------------------------------------------------------------------
(* The sessions of one skill implement the lock protocol: whatever a call   *)
(* does, wherever it returns, raises or dies, its locks are taken and given *)
(* up as acquire_locks takes and gives them up.                            *)
THEOREM SessionsKeepProtocol == SkillSpec => KeepsProtocol
  <1>1. SkillInit => LockInit
    BY DEF SkillInit
  <1> QED BY <1>1, SkillInvariant, SkillLocks, PTL
          DEF SkillSpec, KeepsProtocol, LockSpec

(* The variables of the sessions and of the skill keep their types.         *)
THEOREM SessionsTyped == SkillSpec => []SkillTypeOK
  <1>1. SkillInv => SkillTypeOK
    BY DEF SkillInv, LockInv, SessionType, StoreType, PolicyType, SkillTypeOK
  <1> QED BY SkillInvariant, <1>1, PTL

(* Two sessions that work on the skill never share a root.                  *)
THEOREM SessionsExclude == SkillSpec => []Exclusive
  BY SessionsKeepProtocol, LocksExclude, PTL DEF KeepsProtocol

(* A session that waits for a root holds earlier roots only.                *)
THEOREM SessionsOrdered == SkillSpec => []WaitsUpward
  BY SessionsKeepProtocol, LocksOrdered, PTL DEF KeepsProtocol

(* The middleware keeps the record of a managed skill true: at rest, with   *)
(* no transaction pending, the package that is there is the one recorded,   *)
(* whichever calls, boundaries, commands and crashes came before.           *)
THEOREM RecordStaysTrue == SkillSpec => []RecordIsTrue
  <1>1. SkillInv => RecordIsTrue
    BY DEF SkillInv, RecordTells, Rewriting, RecordIsTrue, AtRest
  <1> QED BY SkillInvariant, <1>1, PTL

(* A link below an adapter root never outlives the record that owns it, but *)
(* for the one that a promotion dies over before it has it in the journal.  *)
THEOREM LinksStayOwned == SkillSpec => []LinksOwned
  <1>1. SkillInv => LinksOwned
    BY DEF SkillInv, StoreAgrees, LinksOwned
  <1> QED BY SkillInvariant, <1>1, PTL

(* The core call of the middleware acts on the publication that was seen    *)
(* before the locks were taken.                                            *)
THEOREM CallsActOnSeen == SkillSpec => []ActsOnSeen
  <1>1. SkillInv => ActsOnSeen
    BY DEF SkillInv, SessionInv, Remembers, Edits, ActsOnSeen
  <1> QED BY SkillInvariant, <1>1, PTL

(* A pending transaction keeps edits, deletes, cleanups and repairs out.    *)
THEOREM PendingBars == SkillSpec => []Barred
  <1>1. SkillInv => Barred
    BY DEF SkillInv, SessionInv, Journals, Edits, Barred, Barrier
  <1> QED BY SkillInvariant, <1>1, PTL

(* Links are made and removed under the locks of their roots.               *)
THEOREM LinksStayLocked == SkillSpec => []LinksLocked
  <1>1. SkillInv => LinksLocked
    BY DEF SkillInv, SessionInv, AskedFor, Edits, LinksLocked, In,
           Missing
  <1> QED BY SkillInvariant, <1>1, PTL

(* The host core runs with the approval gate bypassed, and a bypass that    *)
(* stays set has disabled the writes of its process.                       *)
THEOREM NothingStaged == SkillSpec => []NeverStages
  <1>1. SkillInv => NeverStages
    BY DEF SkillInv, SessionInv, Gated, NeverStages
  <1> QED BY SkillInvariant, <1>1, PTL

===============================================================================
