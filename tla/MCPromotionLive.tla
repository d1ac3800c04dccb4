---------------------------- MODULE MCPromotionLive ----------------------------
(***************************************************************************)
(* The promotion with finitely many faults, for liveness.  An operation    *)
(* that runs takes its next step, and hooks at every turn boundary call    *)
(* recover() and publish_pending() again: weak fairness of Publisher.      *)
(***************************************************************************)
EXTENDS PromotionProperties

CONSTANT MaxFaults  \* crashes and failed calls in one behaviour

VARIABLE budget     \* those that may still happen

liveVars == <<vars, budget>>

Progress == Publisher /\ UNCHANGED budget

LiveInit == Init /\ budget = MaxFaults

LiveNext ==
    \/ Progress
    \/ Environment /\ UNCHANGED budget
    \/ budget > 0 /\ Fault /\ budget' = budget - 1

LiveSpec == LiveInit /\ [][LiveNext]_liveVars /\ WF_liveVars(Progress)

(* A transaction is always finished or undone in the end, whatever failed,  *)
(* except for the causes of Unresolvable.                                   *)
Resolves == journal # NoJournal ~> (journal = NoJournal \/ Unresolvable)

(* When outsiders stop, promotion settles: from some moment on the registry *)
(* owns the skill, or what is at the source is not to be published and no   *)
(* journal is left, or one of those causes stands in the way for good.      *)
(* Attempts that fail and are rolled back again and again are none of this. *)
Publishes ==
    <>[][~Environment]_liveVars
        => <>[](\/ registry # None
                \/ journal = NoJournal /\ source \notin Shared
                \/ Unresolvable)

(* The handler of promote: once registry ownership is durable, recovery     *)
(* finishes the backup and journal cleanup.                                 *)
OwnedIsCleanedUp == registry # None ~> journal = NoJournal

===============================================================================
