------------------------------ MODULE SkillStore ------------------------------
(***************************************************************************)
(* What one skill keeps on disk, and everybody who may touch it.           *)
(*                                                                         *)
(* The publisher moves one package between four places: the local skills   *)
(* root (source), a hidden backup, a hidden stage and the shared root      *)
(* (target).  Adapter roots hold a relative symlink to the target.  Two    *)
(* plugin-owned records say what the publisher may still do: the           *)
(* transaction journal and the registry.  Modules that model an operation  *)
(* extend this one.                                                        *)
(***************************************************************************)
EXTENDS Naturals, FiniteSets

CONSTANTS
    Package,    \* the package versions: every value is a distinct digest
    Shared,     \* the versions whose SKILL.md says scope `shared' and is valid
    Adapters,   \* labels of the configured adapter roots
    None,       \* nothing at this path
    Torn,       \* a partial tree: a copy or a removal that did not finish
    Faults,     \* faults of the host: "crash", "io"
    Outsiders   \* what programs that take no publisher lock may do

FaultKinds == {"crash", "io"}

OutsiderKinds ==
    {"write", "create", "discard", "late", "stale", "tamper",
     "target", "edit", "delete", "link", "auth"}

ASSUME StoreAssumption ==
    /\ Shared \subseteq Package
    /\ None # Torn /\ None \notin Package /\ Torn \notin Package
    /\ Faults \subseteq FaultKinds
    /\ Outsiders \subseteq OutsiderKinds

VARIABLES
    source,     \* the package directory below the local skills root
    backup,     \* .hermes-skill-publisher-backup-<op>, where source is parked
    stage,      \* .hermes-skill-publisher-stage-<op>, the copy to commit
    target,     \* the canonical package below the shared root
    maker,      \* history: who put the target there
    links,      \* the object at each adapter path
    journal,    \* the durable transaction journal of this skill
    registry,   \* the digest the registry records for this skill, or None
    authorized, \* skills.external_dirs names the shared root
    owed,       \* history: versions authored locally and not given up since
    pc          \* the step the holder of the state lock is about to take

disk    == <<source, backup, stage, target, maker, links>>
records == <<journal, registry>>

-----------------------------------------------------------------------------
Place == Package \cup {None, Torn}

(* The objects at an adapter path.  "ours" and "twin" are symlinks with the *)
(* text the publisher writes; only history tells who made them.            *)
LinkKinds == {"absent", "ours", "twin", "other"}

(* The raw readlink text is the one the publisher expects.                 *)
TextMatches(a) == links[a] \in {"ours", "twin"}

(* The canonical package is an outsider's. *)
Foreign == maker = "outsider"

Phases ==
    {"none", "planned", "staged", "source_parked", "target_committed",
     "adapters_committed", "registry_committed", "committed"}

Journals ==
    [phase: Phases, digest: Place, created: SUBSET Adapters]

NoJournal == [phase |-> "none", digest |-> None, created |-> {}]

StoreTypeOK ==
    /\ source \in Place /\ backup \in Place
    /\ stage \in Place /\ target \in Place
    /\ maker \in {"publisher", "outsider"}
    /\ links \in [Adapters -> LinkKinds]
    /\ journal \in Journals
    /\ registry \in Place
    /\ authorized \in BOOLEAN
    /\ owed \subseteq Package

StoreInit ==
    /\ source \in Package
    /\ backup = None /\ stage = None /\ target = None
    /\ maker = "publisher"
    /\ links = [a \in Adapters |-> "absent"]
    /\ journal = NoJournal
    /\ registry = None
    /\ authorized = TRUE
    /\ owed = {source}
    /\ pc = "idle"

(* Mutant: a plain rename, which may replace what is there. *)
MovesReplacing(from, to) == from # None

(* rename_noreplace: the destination is never replaced. *)
Moves(from, to) == from # None /\ to = None

-----------------------------------------------------------------------------
(* Programs outside the publisher's locks.  Advisory locks do not stop     *)
(* them, so they move at any moment, also between two steps of an          *)
(* operation.                                                              *)

(* An agent or a human rewrites the local package. *)
UserWrite ==
    /\ "write" \in Outsiders
    /\ source \in Package
    /\ \E p \in Package \ {source} :
          /\ source' = p
          /\ owed' = (owed \ {source}) \cup {p}
    /\ UNCHANGED <<backup, stage, target, maker, links, records,
                   authorized, pc>>

(* Skill creation puts a package where none is, also while the real one is *)
(* parked.                                                                 *)
UserCreate ==
    /\ "create" \in Outsiders
    /\ source = None
    /\ \E p \in Package : source' = p /\ owed' = owed \cup {p}
    /\ UNCHANGED <<backup, stage, target, maker, links, records,
                   authorized, pc>>

UserDiscard ==
    /\ "discard" \in Outsiders
    /\ source \in Package
    /\ source' = None
    /\ owed' = owed \ {source}
    /\ UNCHANGED <<backup, stage, target, maker, links, records,
                   authorized, pc>>

(* A file opened before the package was parked is written through its      *)
(* handle, so the write lands in the backup.                               *)
WriteBackup ==
    /\ backup \in Package
    /\ \E p \in Package \ {backup} :
          /\ backup' = p
          /\ owed' = (owed \ ({backup} \ {source})) \cup {p}
    /\ UNCHANGED <<source, stage, target, maker, links, records,
                   authorized, pc>>

TamperStage ==
    /\ "tamper" \in Outsiders
    /\ stage \in Package
    /\ \E p \in Package \ {stage} : stage' = p
    /\ UNCHANGED <<source, backup, target, maker, links, records,
                   authorized, owed, pc>>

(* Another tool creates, edits or deletes the canonical package. *)
OutsideTarget ==
    /\ "target" \in Outsiders
    /\ target = None
    /\ target' \in Package
    /\ maker' = "outsider"
    /\ UNCHANGED <<source, backup, stage, links, records, authorized,
                   owed, pc>>

EditTarget ==
    /\ "edit" \in Outsiders
    /\ target \in Package
    /\ \E p \in Package \ {target} : target' = p
    /\ owed' = owed \ {target}
    /\ UNCHANGED <<source, backup, stage, maker, links, records,
                   authorized, pc>>

DeleteTarget ==
    /\ "delete" \in Outsiders
    /\ target # None
    /\ target' = None
    /\ maker' = "publisher"
    /\ owed' = owed \ {target}
    /\ UNCHANGED <<source, backup, stage, links, records, authorized, pc>>

OutsideLink ==
    /\ "link" \in Outsiders
    /\ \E a \in Adapters, k \in {"twin", "other"} :
          /\ links[a] = "absent"
          /\ links' = [links EXCEPT ![a] = k]
    /\ UNCHANGED <<source, backup, stage, target, maker, records,
                   authorized, owed, pc>>

(* The operator edits skills.external_dirs.  An operation reads it once,   *)
(* at its start, so only edits between operations are told apart.          *)
Reauthorize ==
    /\ "auth" \in Outsiders
    /\ pc = "idle"
    /\ authorized' = ~authorized
    /\ UNCHANGED <<disk, records, owed, pc>>

Outside ==
    \/ UserWrite \/ UserCreate \/ UserDiscard \/ TamperStage
    \/ OutsideTarget \/ EditTarget \/ DeleteTarget \/ OutsideLink
    \/ Reauthorize

===============================================================================
