-------------------------- MODULE UnpublishProperties --------------------------
(* What unpublish and its recovery promise. *)
EXTENDS Unpublish

(* As long as the registry owns the skill, no step of the publisher and no *)
(* fault destroys the owned version: it stays at the canonical path or     *)
(* parked in the backup.                                                   *)
OwnedSurvives ==
    [][(registry' # None /\ registry \in {target, backup} /\ ~UnpublishOutside)
          => registry \in {target', backup'}]_unpublishVars

(* The journal is the only proof of what unpublish made.  When it is gone, *)
(* so are the hidden trees.                                                *)
NoHiddenLeftovers ==
    (pc = "idle" /\ withdrawal = NoWithdrawal) => stage = None /\ backup = None

(* The registry forgets the skill only when its rewritten version is the    *)
(* local package and no adapter shows the canonical path any more.          *)
ForgottenIsLocal ==
    [][registry' # registry =>
          /\ registry' = None
          /\ source = Private[registry]
          /\ \A a \in Adapters : links[a] # "ours"]_unpublishVars

(* Registry removal is the point of no return: afterwards no step of the    *)
(* handler or of recovery takes ownership or the local package back.        *)
ForgottenForGood ==
    [][registry = None =>
          /\ registry' = None
          /\ Unpublisher => source' = source]_unpublishVars

(* SAFETY rule 3 in the other direction: neither the commit of the local   *)
(* package nor a rollback writes over a package, and an adapter object     *)
(* that is not the recorded link stays.                                    *)
WithdrawalReplacesNothing ==
    [][Unpublisher =>
          /\ source' # source =>
                source = None \/ (source' = None /\ stage' = source)
          /\ target' # target =>
                target = None \/ (target' = None /\ backup' = target)
          /\ \A a \in Adapters : links[a] = "other" => links'[a] = "other"]_unpublishVars

(* _validate_journal: an unpublish journal without registry ownership is in *)
(* a phase after the removal of the adapters.  A journal that fails this    *)
(* bars every skill until an operator resolves it.                          *)
JournalStaysValid ==
    (pc = "idle" /\ withdrawal # NoWithdrawal) => WithdrawalValid

(* What stops a recovery for good: a hidden tree that is not what the       *)
(* journal says, a local package that moved on, no package to go on with,   *)
(* or a foreign object at an adapter path.                                  *)
Hindered ==
    \/ stage \notin {None, withdrawal.canonical, withdrawal.local}
    \/ backup \notin {None, withdrawal.canonical}
    \/ source \notin {None, withdrawal.local}
    \/ source = None /\ registry = None
    \/ source = None /\ target = None /\ backup = None
    \/ \E a \in Adapters : links[a] = "other"

(* The operation ends and leaves its journal. *)
Quits == Unpublisher /\ pc' = "idle" /\ withdrawal' # NoWithdrawal

(* What crashes and failed calls leave of an unpublish is never ambiguous:  *)
(* the inverse rollback and recovery stop only for one of those causes, or  *)
(* because the registry has forgotten the skill and only recovery may go    *)
(* on.  Their other refusals (two places that hold the package, a canonical *)
(* package or a stage of another version) are never the publisher's doing.  *)
QuitsForCause ==
    [][Quits => Hindered \/ (registry = None /\ pc = "undo")]_unpublishVars

-----------------------------------------------------------------------------
(* The registry record: ownership of the package and of every link to it.  *)
Recorded(digest) ==
    [digest |-> digest, roots |-> IF digest = None THEN {} ELSE Adapters]

(* A link is proved by its text once the registry owns the skill. *)
Shown ==
    {a \in Adapters :
        links[a] = "ours" \/ (registry # None /\ TextMatches(a))}

Contract == INSTANCE RegistryContract WITH
    NoRecord <- Recorded(None),
    local <- source,
    strayed <- FALSE,
    disturbed <- FALSE,
    shown <- Shown,
    hidden <- stage # None \/ backup # None,
    pending <- IF withdrawal = NoWithdrawal THEN "none" ELSE "unpublish",
    record <- Recorded(registry)

(* What the sessions rely on: the registry forgets the skill when the       *)
(* private version is in place and no adapter shows the shared one, and the *)
(* journal goes when nothing is hidden and, if the skill is still owned,    *)
(* the canonical package is back, through rollbacks, crashes and recoveries.*)
UnpublishKeepsContract == Contract!ContractSpec

===============================================================================
