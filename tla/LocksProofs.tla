------------------------------ MODULE LocksProofs ------------------------------
(* Theorems about Locks, for any number of sessions, profiles and roots.    *)
EXTENDS Locks, TLAPS

(* Holding is what the position says; locks are held by one session each.  *)
Disciplined ==
    /\ \A s \in Session :
          /\ at[s] \in {"out", "state"} => holds[s] = {} /\ ~state[s]
          /\ at[s] = "roots" => state[s]
          /\ holds[s] \subseteq asked[s]
    /\ \A s, t \in Session : s # t =>
          /\ holds[s] \cap holds[t] = {}
          /\ ProfileOf[s] = ProfileOf[t] => ~(state[s] /\ state[t])

LockInv == LockTypeOK /\ Disciplined /\ WaitsUpward

LEMMA LockStart == LockInit => LockInv
  BY LockAssumption DEF LockInit, LockInv, LockTypeOK, Disciplined, WaitsUpward, IsNext

LEMMA LockType == LockTypeOK /\ [LockNext]_lockVars => LockTypeOK'
  <1> SUFFICES ASSUME LockTypeOK, [LockNext]_lockVars PROVE LockTypeOK'
    OBVIOUS
  <1> USE DEF LockTypeOK
  <1>1. ASSUME NEW s \in Session, LockStep(s) PROVE LockTypeOK'
    <2>1. ASSUME NEW roots \in SUBSET Root, Ask(s, roots) \/ Nest(s, roots)
          PROVE LockTypeOK'
      BY <2>1 DEF Ask, Nest
    <2>2. ASSUME NEW r \in Root, TakeRoot(s, r) PROVE LockTypeOK'
      BY <2>2 DEF TakeRoot
    <2>3. CASE TakeState(s)
      BY <2>3 DEF TakeState
    <2>4. CASE Drop(s)
      BY <2>4 DEF Drop
    <2> QED BY <1>1, <2>1, <2>2, <2>3, <2>4 DEF LockStep
  <1>2. CASE UNCHANGED lockVars
    BY <1>2 DEF lockVars
  <1> QED BY <1>1, <1>2 DEF LockNext

LEMMA LockDiscipline ==
    LockTypeOK /\ Disciplined /\ [LockNext]_lockVars => Disciplined'
  <1> SUFFICES ASSUME LockTypeOK, Disciplined, [LockNext]_lockVars
               PROVE Disciplined'
    OBVIOUS
  <1> USE LockAssumption DEF LockTypeOK, Disciplined
  <1>1. ASSUME NEW s \in Session, LockStep(s) PROVE Disciplined'
    <2>1. ASSUME NEW roots \in SUBSET Root, Ask(s, roots)
          PROVE Disciplined'
      BY <2>1 DEF Ask
    <2>2. ASSUME NEW roots \in SUBSET Root, Nest(s, roots)
          PROVE Disciplined'
      BY <2>2 DEF Nest
    <2>3. ASSUME NEW r \in Root, TakeRoot(s, r) PROVE Disciplined'
      BY <2>3 DEF TakeRoot, IsNext, Missing
    <2>4. CASE TakeState(s)
      BY <2>4 DEF TakeState, Rivals
    <2>5. CASE Drop(s)
      BY <2>5 DEF Drop
    <2> QED BY <1>1, <2>1, <2>2, <2>3, <2>4, <2>5 DEF LockStep
  <1>2. CASE UNCHANGED lockVars
    BY <1>2 DEF lockVars
  <1> QED BY <1>1, <1>2 DEF LockNext

LEMMA LockOrder ==
    LockTypeOK /\ Disciplined /\ WaitsUpward /\ [LockNext]_lockVars
        => WaitsUpward'
  <1> SUFFICES ASSUME LockTypeOK, Disciplined, WaitsUpward,
                      [LockNext]_lockVars,
                      NEW u \in Session, NEW n \in Root, IsNext(u, n)',
                      NEW q \in holds'[u]
               PROVE q < n
    BY DEF WaitsUpward
  <1> USE LockAssumption DEF LockTypeOK, Disciplined, IsNext, Missing
  <1>1. ASSUME NEW s \in Session, LockStep(s) PROVE q < n
    <2>1. ASSUME NEW roots \in SUBSET Root, Ask(s, roots) PROVE q < n
      BY <2>1 DEF Ask, WaitsUpward
    <2>2. ASSUME NEW roots \in SUBSET Root, Nest(s, roots) PROVE q < n
      BY <2>2 DEF Nest, WaitsUpward
    <2>3. ASSUME NEW r \in Root, TakeRoot(s, r) PROVE q < n
      <3>1. CASE u # s
        BY <2>3, <3>1 DEF TakeRoot, WaitsUpward
      <3>2. CASE u = s
        <4>1. IsNext(s, r) /\ n \in Missing(s) /\ n # r /\ r <= n
          BY <2>3, <3>2 DEF TakeRoot
        <4>2. \A p \in holds[s] : p < r
          BY <4>1 DEF WaitsUpward
        <4>3. q \in holds[s] \cup {r}
          BY <2>3, <3>2 DEF TakeRoot
        <4>4. q \in Nat /\ r \in Nat /\ n \in Nat
          BY <4>3
        <4> QED BY <4>1, <4>2, <4>3, <4>4
      <3> QED BY <3>1, <3>2
    <2>4. CASE TakeState(s)
      BY <2>4 DEF TakeState, WaitsUpward
    <2>5. CASE Drop(s)
      BY <2>5 DEF Drop, WaitsUpward
    <2> QED BY <1>1, <2>1, <2>2, <2>3, <2>4, <2>5 DEF LockStep
  <1>2. CASE UNCHANGED lockVars
    BY <1>2 DEF lockVars, WaitsUpward
  <1> QED BY <1>1, <1>2 DEF LockNext

LEMMA LockInvariant == LockSpec => []LockInv
  <1>1. LockInv /\ [LockNext]_lockVars => LockInv'
    BY LockType, LockDiscipline, LockOrder DEF LockInv
  <1> QED BY LockStart, <1>1, PTL DEF LockSpec

(* Two sessions inside acquire_locks never share a root or a profile.      *)
THEOREM LocksExclude == LockSpec => []Exclusive
  <1>1. LockInv => Exclusive
    BY DEF LockInv, LockTypeOK, Disciplined, Exclusive, In, Missing
  <1> QED BY LockInvariant, <1>1, PTL

(* A session that waits for a lock file holds earlier ones only, the roots  *)
(* it took in the nested call of recovery included.                        *)
THEOREM LocksOrdered == LockSpec => []WaitsUpward
  <1>1. LockInv => WaitsUpward
    BY DEF LockInv
  <1> QED BY LockInvariant, <1>1, PTL

(* The order of acquisition, nested or not, admits no cycle of waiting.    *)
THEOREM LocksClimb == LockSpec => []ChainsClimb
  <1>1. LockInv => ChainsClimb
    <2> SUFFICES ASSUME LockInv, NEW s \in Session, NEW t \in Session,
                        WaitsFor(s, t), NEW q \in Root
                 PROVE /\ at[s] = "state" => at[t] # "state"
                       /\ IsNext(t, q) =>
                             \A r \in Root : IsNext(s, r) => r < q
      BY DEF ChainsClimb
    <2>1. at[s] = "state" => at[t] # "state"
      BY DEF LockInv, LockTypeOK, Disciplined, WaitsFor, IsNext, Rivals
    <2>2. ASSUME IsNext(t, q), NEW r \in Root, IsNext(s, r) PROVE r < q
      <3>1. PICK p \in Root : IsNext(s, p) /\ p \in holds[t]
        BY <2>2 DEF WaitsFor, IsNext
      <3>2. p = r
        BY <2>2, <3>1, LockAssumption DEF IsNext
      <3> QED BY <2>2, <3>1, <3>2 DEF LockInv, WaitsUpward
    <2> QED BY <2>1, <2>2
  <1> QED BY LockInvariant, <1>1, PTL

===============================================================================
