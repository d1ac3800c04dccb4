-------------------------- MODULE PromotionProperties --------------------------
(* What a promotion and its recovery promise, and what the documents and    *)
(* comments of the publisher say of them.                                   *)
EXTENDS PromotionRecovery

(* SAFETY rule 5 and the backup protocol: a version authored locally is     *)
(* never lost.  Until its author overwrites or removes it, it is the        *)
(* source, the parked backup or the canonical package, whatever crashes,    *)
(* failed calls and rollbacks come in between.                              *)
NothingLost == owed \subseteq {source, backup, target}

(* SAFETY rule 5: the backup is given up only when the canonical package,   *)
(* every adapter and the registry record are in place.                      *)
RetainedUntilOwned ==
    (journal # NoJournal /\ source = None /\ backup \notin Package) =>
        /\ registry = journal.digest
        /\ target = journal.digest
        /\ \A a \in Adapters : TextMatches(a)

(* SAFETY rule 1: what the registry owns and what the publisher exposes is  *)
(* a valid version of scope shared, also when the source turned private     *)
(* between two attempts.                                                    *)
OnlySharedPublished ==
    /\ registry \in Shared \cup {None}
    /\ ~Foreign => target \in Shared \cup {None}

(* The journal is the only proof of what the publisher made.  When it is    *)
(* gone, so are the hidden trees.                                           *)
NoHiddenOrphans ==
    (pc = "idle" /\ journal = NoJournal) => stage = None /\ backup = None

(* And when the promotion was undone, so are its links and its canonical    *)
(* copy.                                                                    *)
UndoneCompletely ==
    (pc = "idle" /\ journal = NoJournal /\ registry = None) =>
        /\ \A a \in Adapters : links[a] # "ours"
        /\ target # None => Foreign

(* SAFETY rule 3 and the no-replace gate: the publisher fills an empty      *)
(* canonical path or, in a rollback, moves the whole package aside; it      *)
(* never writes over a package.  An adapter object it did not make stays.   *)
NeverReplaces ==
    [][Publisher =>
          /\ target' # target =>
                target = None \/ (target' = None /\ stage' = target)
          /\ source' \notin {source, None} => source = None
          /\ \A a \in Adapters : links[a] \in {"twin", "other"} =>
                links'[a] = links[a]]_vars

(* SAFETY rule 3 and LIMITATIONS: an existing target is never adopted, even *)
(* when it is equal: what the registry comes to own, the publisher made.    *)
NeverAdopts ==
    [][registry' # registry => ~Foreign]_vars

(* Registry ownership is the point of no return: it is never taken back,    *)
(* and the backup is never renamed back to the local root after it.         *)
PointOfNoReturn ==
    [][registry # None =>
          /\ registry' = registry
          /\ ~(Moves(backup, source) /\ source' = backup /\ backup' = None)]_vars

(* The registry takes a package only when it is committed and every adapter *)
(* shows it and is proved by the journal.                                   *)
RegistersComplete ==
    [][registry' # registry =>
          /\ target = registry'
          /\ journal.created = Adapters
          /\ \A a \in Adapters : TextMatches(a)]_vars

(* ARCHITECTURE, data flow 4: a concurrent late write is never              *)
(* stale-committed; the registry takes a package only while the parked      *)
(* source still is that package.                                            *)
NeverStaleCommitted ==
    [][registry' # registry => backup \in {registry', None}]_vars

(* What recovery refuses to resolve on its own: a hidden tree that is not   *)
(* the journaled version (its removal was cut short, or a write got in), a  *)
(* source that moved on while the stage is there, an object at an adapter   *)
(* path that the journal does not claim, or no package anywhere.            *)
Unresolvable ==
    /\ journal # NoJournal
    /\ \/ stage \notin {None, journal.digest}
       \/ backup \notin {None, journal.digest}
       \/ stage # None /\ source \notin {None, journal.digest}
       \/ \E a \in Adapters :
             \/ links[a] = "other"
             \/ links[a] # "absent" /\ a \notin journal.created
       \/ source = None /\ backup = None /\ target = None

(* The operation ends and leaves its journal. *)
GivesUp == Publisher /\ pc' = "idle" /\ journal' # NoJournal

(* The canonical package that a recovery has seen is gone when it looks     *)
(* again.                                                                   *)
TakenAway == pc = "fin_target" /\ target = None

(* What crashes and failed calls leave is never ambiguous: whatever step    *)
(* they cut, also one of a recovery, the next rollback or recovery stops    *)
(* only for one of those causes, or because the registry owns the skill and *)
(* only an authorized recovery may go on, or because the canonical package  *)
(* was taken away under its hands.  Its other refusals (two places that     *)
(* hold the package, a target or a record of another version) are never the *)
(* publisher's own doing.                                                   *)
GivesUpForCause ==
    [][GivesUp =>
          \/ Unresolvable
          \/ registry # None /\ pc \in {"handler", "rb_check"}
          \/ TakenAway]_vars

-----------------------------------------------------------------------------
(* Until the registry owns the skill, the parked version is still the       *)
(* author's.                                                                *)
CustodyLocal == IF registry = None /\ backup # None THEN backup ELSE source

Custody == INSTANCE PackageCustody WITH local <- CustodyLocal,
                                        shared <- registry

(* For everybody outside, promotion hands a skill over in one step: the     *)
(* registry never owns anything but the author's current shared version,    *)
(* and no rollback, crash or recovery swaps or drops what the author has.   *)
HandsOver == Custody!CustodySpec

-----------------------------------------------------------------------------
(* The registry record: ownership of the package and of every link to it.  *)
Recorded(digest) ==
    [digest |-> digest, roots |-> IF digest = None THEN {} ELSE Adapters]

(* A link is proved by its text once the registry owns the skill. *)
Shown ==
    {a \in Adapters :
        links[a] = "ours" \/ (registry # None /\ TextMatches(a))}

Contract == INSTANCE RegistryContract WITH
    Private <- [p \in Package |-> p],
    NoRecord <- Recorded(None),
    local <- source,
    strayed <- Foreign,
    disturbed <- FALSE,
    shown <- Shown,
    hidden <- stage # None \/ backup # None,
    pending <- IF journal = NoJournal THEN "none" ELSE "promote",
    record <- Recorded(registry)

(* What the sessions rely on: the journal comes before the hidden trees and *)
(* goes after them, the registry takes a valid package that is in place and *)
(* shown by every adapter, and a promotion without a record leaves nothing  *)
(* shared, through rollbacks, crashes and recoveries.                       *)
PromotionKeepsContract == Contract!ContractSpec

===============================================================================
