--------------------------- MODULE RegistryContract ---------------------------
(***************************************************************************)
(* What everybody else may rely on when the registry, the journal and the  *)
(* hidden trees of one skill change, whatever the publisher does inside    *)
(* its locks.  Promotion, unpublish and the sessions implement it.  The    *)
(* detailed transactions do so without some of their outsiders: a package  *)
(* removed or rewritten in its place breaks the clauses that do not ask    *)
(* whether it strayed.  The sessions, whose transactions are coarse, say   *)
(* with strayed and disturbed what somebody without a lock did.            *)
(***************************************************************************)
CONSTANTS
    Shared,     \* the valid versions of scope shared
    Private,    \* what unpublish makes of each version
    None,       \* nothing at this path
    NoRecord    \* the registry does not know the skill

VARIABLES
    local,      \* the package below the local skills root
    target,     \* the canonical package
    strayed,    \* somebody put, changed or removed it without a lock
    disturbed,  \* somebody without a lock changed the local package while
                \* an unpublish was pending
    shown,      \* the adapters with the publisher's link to it
    hidden,     \* there is a tree at a hidden path
    pending,    \* the kind of the transaction in the journal, or "none"
    record      \* the publication in the registry: a digest and roots

contract == <<hidden, pending, record>>

ContractInit == pending = "none" /\ ~hidden

(* The journal comes before the first hidden tree.  Only a skill that is   *)
(* not published is promoted, only a published one taken back.             *)
Begin ==
    /\ pending = "none"
    /\ pending' = IF record = NoRecord THEN "promote" ELSE "unpublish"
    /\ UNCHANGED <<hidden, record>>

(* The registry takes a valid package that is in place and that every      *)
(* adapter shows.                                                          *)
Publish ==
    /\ pending = "promote" /\ record = NoRecord
    /\ record'.digest \in Shared
    /\ target' = record'.digest \/ strayed'
    /\ record'.roots \subseteq shown'

(* It forgets the skill when the private version is in place, or what      *)
(* somebody put there instead, and no adapter shows the shared one any     *)
(* more.                                                                   *)
Withdraw ==
    /\ pending = "unpublish" /\ record # NoRecord
    /\ record' = NoRecord
    /\ local' = Private[record.digest] \/ disturbed'
    /\ shown' = {}

(* A transaction ends with nothing hidden.  A promotion without a record   *)
(* leaves nothing shared; an unpublish that kept the record leaves the     *)
(* canonical package that the record names.                                *)
End ==
    /\ pending' = "none" /\ ~hidden'
    /\ (pending = "promote" /\ record' = NoRecord) =>
          shown' = {} /\ (target' = None \/ strayed')
    /\ (pending = "unpublish" /\ record' # NoRecord) =>
          target' = record'.digest \/ strayed'

(* Hidden trees come and go in a transaction only. *)
Transact ==
    /\ pending # "none"
    /\ Publish \/ Withdraw \/ UNCHANGED record
    /\ End \/ UNCHANGED pending

(* Otherwise the record follows a package that was edited in its place, or *)
(* goes when that is gone and its links are.                               *)
Edit ==
    /\ pending = "none" /\ record # NoRecord
    /\ target \in Shared
    /\ record' = [record EXCEPT !.digest = target]
    /\ UNCHANGED <<hidden, pending>>

Forget ==
    /\ pending = "none" /\ record # NoRecord
    /\ target = None /\ shown = {}
    /\ record' = NoRecord
    /\ UNCHANGED <<hidden, pending>>

ContractNext == Begin \/ Transact \/ Edit \/ Forget

ContractSpec == ContractInit /\ [][ContractNext]_contract

===============================================================================
