--------------------------------- MODULE Locks ---------------------------------
(***************************************************************************)
(* The advisory locks of the publisher: one state lock per profile and one *)
(* lock file per shared or adapter root.  A session takes the state lock   *)
(* of its profile first and then the roots it asked for, one by one in     *)
(* path order.  Recovery takes the state lock alone, finds out which roots *)
(* it needs, and asks for them while it keeps the state lock.  Sessions of *)
(* different profiles meet at the roots.                                   *)
(***************************************************************************)
EXTENDS Naturals

CONSTANTS
    Session,    \* processes and threads that run the publisher
    Profile,    \* Hermes homes, each with its own state
    ProfileOf,  \* the profile of each session
    Root        \* roots with a lock file, numbered in path order

ASSUME LockAssumption ==
    /\ ProfileOf \in [Session -> Profile]
    /\ Root \subseteq Nat

VARIABLES
    at,         \* where a session is in acquire_locks
    asked,      \* the roots it asked for
    holds,      \* the roots it holds
    state       \* whether it holds the state lock of its profile

lockVars == <<at, asked, holds, state>>

LockTypeOK ==
    /\ at \in [Session -> {"out", "state", "roots"}]
    /\ asked \in [Session -> SUBSET Root]
    /\ holds \in [Session -> SUBSET Root]
    /\ state \in [Session -> BOOLEAN]

LockInit ==
    /\ at = [s \in Session |-> "out"]
    /\ asked = [s \in Session |-> {}]
    /\ holds = [s \in Session |-> {}]
    /\ state = [s \in Session |-> FALSE]

-----------------------------------------------------------------------------
(* The call of acquire_locks with a state lock. *)
Ask(s, roots) ==
    /\ at[s] = "out"
    /\ at' = [at EXCEPT ![s] = "state"]
    /\ asked' = [asked EXCEPT ![s] = roots]
    /\ UNCHANGED <<holds, state>>

Rivals(s) == {t \in Session \ {s} : ProfileOf[t] = ProfileOf[s]}

(* Mutant: a shared flock. *)
TakeStateShared(s) ==
    /\ at[s] = "state"
    /\ state' = [state EXCEPT ![s] = TRUE]
    /\ at' = [at EXCEPT ![s] = "roots"]
    /\ UNCHANGED <<asked, holds>>

TakeState(s) ==
    /\ at[s] = "state"
    /\ \A t \in Rivals(s) : ~state[t]
    /\ state' = [state EXCEPT ![s] = TRUE]
    /\ at' = [at EXCEPT ![s] = "roots"]
    /\ UNCHANGED <<asked, holds>>

Missing(s) == asked[s] \ holds[s]

(* Mutant: in the order of the configuration. *)
IsNextUnsorted(s, r) ==
    /\ at[s] = "roots"
    /\ r \in Missing(s)

(* The next lock file in sorted order. *)
IsNext(s, r) ==
    /\ at[s] = "roots"
    /\ r \in Missing(s)
    /\ \A q \in Missing(s) : r <= q

TakeRoot(s, r) ==
    /\ IsNext(s, r)
    /\ \A t \in Session \ {s} : r \notin holds[t]
    /\ holds' = [holds EXCEPT ![s] = @ \cup {r}]
    /\ UNCHANGED <<at, asked, state>>

(* acquire_locks yields when every lock is held. *)
In(s) == at[s] = "roots" /\ Missing(s) = {}

(* The nested call, with None for the state lock. *)
Nest(s, roots) ==
    /\ In(s) /\ holds[s] = {}
    /\ asked' = [asked EXCEPT ![s] = roots]
    /\ UNCHANGED <<at, holds, state>>

(* The finally branch, also after a time-out or an exception, and the      *)
(* kernel when the process dies.  A nested call that fails takes the outer *)
(* one with it.                                                            *)
Drop(s) ==
    /\ at[s] # "out"
    /\ at' = [at EXCEPT ![s] = "out"]
    /\ asked' = [asked EXCEPT ![s] = {}]
    /\ holds' = [holds EXCEPT ![s] = {}]
    /\ state' = [state EXCEPT ![s] = FALSE]

(* flock without waiting fails because t has the file. *)
WaitsFor(s, t) ==
    \/ at[s] = "state" /\ t \in Rivals(s) /\ state[t]
    \/ \E r \in Root : IsNext(s, r) /\ t # s /\ r \in holds[t]

(* A session that waits and whose lock stays taken for the whole time-out. *)
MayGiveUp(s) == \E t \in Session : WaitsFor(s, t)

LockStep(s) ==
    \/ \E roots \in SUBSET Root : Ask(s, roots) \/ Nest(s, roots)
    \/ \E r \in Root : TakeRoot(s, r)
    \/ TakeState(s) \/ Drop(s)

LockNext == \E s \in Session : LockStep(s)

LockSpec == LockInit /\ [][LockNext]_lockVars

-----------------------------------------------------------------------------
(* Locks do what they are for: two sessions inside never share a root, and *)
(* two sessions of a profile are never inside together.                    *)
Exclusive ==
    \A s, t \in Session : s # t /\ In(s) /\ In(t) =>
        /\ asked[s] \cap asked[t] = {}
        /\ ProfileOf[s] # ProfileOf[t]

(* A session that waits for a root holds smaller ones only. *)
WaitsUpward ==
    \A s \in Session, r \in Root :
        IsNext(s, r) => \A q \in holds[s] : q < r

(* Whoever keeps a waiting session out and waits itself waits for a later  *)
(* lock: the chain of waiting sessions climbs in the one lock order, the   *)
(* nested call of recovery included, so it cannot close.                   *)
ChainsClimb ==
    \A s, t \in Session : WaitsFor(s, t) =>
        \A q \in Root :
            /\ at[s] = "state" => at[t] # "state"
            /\ IsNext(t, q) => \A r \in Root : IsNext(s, r) => r < q

===============================================================================
