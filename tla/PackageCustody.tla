---------------------------- MODULE PackageCustody ----------------------------
(***************************************************************************)
(* What promotion promises, without files, phases or recovery.  A skill is *)
(* in the custody of its author (local) until one atomic step hands it to  *)
(* the shared root.  Promotion and its recovery implement this.            *)
(***************************************************************************)
CONSTANTS Package, Shared, None

VARIABLES
    local,      \* the author's version
    shared,     \* the version the shared root owns
    owed        \* the versions the author has written and not given up

custody == <<local, shared, owed>>

CustodyInit ==
    /\ local \in Package
    /\ shared = None
    /\ owed = {local}

(* The author writes a version, in place of an older one or, while that    *)
(* one is being handed over, next to it.  The publisher takes no part.     *)
Author ==
    /\ \E old \in owed \cup {None}, new \in Package :
          /\ owed' = (owed \ {old}) \cup {new}
          /\ local' \in {local, new}
    /\ UNCHANGED shared

(* The author's version, whatever it is when it is handed over, becomes    *)
(* the shared one; a draft takes its place.                                *)
Publish ==
    /\ shared = None
    /\ local \in Shared
    /\ shared' = local
    /\ local' \in owed \cup {None}
    /\ UNCHANGED owed

Handover == Author \/ Publish

CustodySpec == CustodyInit /\ [][Handover]_custody

===============================================================================
