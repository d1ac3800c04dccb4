------------------------------ MODULE MCUnpublish ------------------------------
(***************************************************************************)
(* Small instances of unpublish for TLC, with finitely many faults in one  *)
(* behaviour.  An operation that runs takes its next step, and hooks at    *)
(* every turn boundary call recover(): weak fairness of all publisher      *)
(* steps but the request, which an operator makes.                         *)
(***************************************************************************)
EXTENDS UnpublishProperties, TLC

CONSTANTS shared1, shared2, private1, private2, MaxFaults

VARIABLE budget     \* crashes and failed calls that may still happen

liveVars == <<unpublishVars, budget>>

(* Each shared version has a private one of its own. *)
MCPrivate ==
    [p \in Package |-> IF p = shared1 THEN private1
                       ELSE IF p = shared2 THEN private2 ELSE p]

Symmetry == Permutations(Adapters)

MCInit == UnpublishInit /\ budget = MaxFaults

MCNext ==
    \/ Unpublisher /\ UNCHANGED budget
    \/ UnpublishOutside /\ UNCHANGED budget
    \/ budget > 0 /\ UnpublishFault /\ budget' = budget - 1

MCSpec == MCInit /\ [][MCNext]_liveVars

Onward == (Unpublisher /\ ~Start) /\ UNCHANGED budget

LiveSpec == MCSpec /\ WF_liveVars(Onward)

(* What recovery leaves to an operator: a journal the validator rejects, or *)
(* one of the causes that stop it.                                          *)
Blocking == withdrawal # NoWithdrawal /\ (~WithdrawalValid \/ Hindered)

(* An unpublish that began is finished or undone in the end, whatever       *)
(* failed, except for these causes.                                         *)
Settles == withdrawal # NoWithdrawal ~> (withdrawal = NoWithdrawal \/ Blocking)

===============================================================================
