----------------------------- MODULE MCBackups -----------------------------
(* Small inventories for Backups and WalCheck.  A behaviour is about one of *)
(* the two: the nights, or the archiver's count while two processes back up *)
(* the same two services.                                                   *)
EXTENDS Backups, WalCheck

CONSTANTS db, mail, nightly, byhand

VARIABLE about

\* A service with a database, and one with a database and an object directory.
Both == <<mail, db>>
OneDb == <<db>>

MCInit ==
    /\ Init /\ WalInit
    /\ about \in {"nights", "archiver"} /\ (about = "nights" => service = [p \in Lookers |-> db])

OfNights == about = "nights" /\ Next /\ UNCHANGED <<walVars, about>>
OfArchiver == about = "archiver" /\ WalNext /\ UNCHANGED <<vars, about>>

MCSpec == MCInit /\ [][OfNights \/ OfArchiver]_<<vars, walVars, about>>
=============================================================================
