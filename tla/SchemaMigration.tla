---------------------------- MODULE SchemaMigration ----------------------------
(***************************************************************************)
(* AdsStore.open and init_schema (src/app/ads/storage.py) on the database  *)
(* an earlier version left: the rebuild of the bids table, the CREATE      *)
(* statements, and the column clicks.charged with its backfill.  The       *)
(* process may die before any statement and be started again.              *)
(*                                                                         *)
(* sqlite3 opens a transaction of its own only before INSERT, UPDATE and   *)
(* DELETE: outside of BEGIN, a CREATE or ALTER is on disk at once.         *)
(***************************************************************************)
EXTENDS Naturals, FiniteSets, Functions

CONSTANTS
    Bids,           \* rows of the table bids
    Clicks,         \* rows of the table clicks
    BidOf,          \* the bid of a click
    Quote,          \* the charge of the click's impression; 0 without one
    MaxCrashes      \* bound: interrupted starts

ASSUME RowsAssumption == BidOf \in [Clicks -> Bids] /\ Quote \in [Clicks -> Nat]
ASSUME CrashesAssumption == MaxCrashes \in Nat

(* The tables: the shape of bids and its rows, the rows of bids_new when   *)
(* there is one, the shape of clicks ("new" has the column charged) and    *)
(* what was charged for each of its rows.                                  *)
Charges   == UNION {[K -> {0} \cup Range(Quote)] : K \in SUBSET Clicks}
Databases == [bids    : {"none", "old", "new"},
              rows    : SUBSET Bids,
              copy    : {{}} \cup {{R} : R \in SUBSET Bids},
              clicks  : {"none", "old", "new"},
              charged : Charges]

VARIABLES
    disk,           \* the committed database
    db,             \* the database as the connection sees it
    txn,            \* the connection is in a transaction
    fk,             \* PRAGMA foreign_keys of the connection
    pc,             \* the next statement of the start
    crashes,
    legacy          \* history: the database of the earlier version

vars == <<disk, db, txn, fk, pc, crashes, legacy>>

Goto(p, q) == pc = p /\ pc' = q /\ UNCHANGED <<crashes, legacy>>

(* A statement inside or outside of a transaction.                         *)
Run(change) ==
    /\ db' = change
    /\ disk' = IF txn THEN disk ELSE change
    /\ UNCHANGED txn

End(change) == disk' = change /\ db' = change /\ txn' = FALSE
-----------------------------------------------------------------------------
(* open, then what _migrate_bids_table finds.                              *)
Open ==
    /\ Goto("stopped", CASE disk.bids = "old" -> "foreign_keys_off"
                         [] disk.bids # "old" -> "create")
    /\ fk' = TRUE
    /\ UNCHANGED <<disk, db, txn>>

(* Mutant: the references stay enforced during the rebuild.                *)
ForeignKeysKept == Goto("foreign_keys_off", "begin") /\ UNCHANGED <<disk, db, txn, fk>>

ForeignKeysOff ==
    /\ Goto("foreign_keys_off", "begin")
    /\ fk' = FALSE
    /\ UNCHANGED <<disk, db, txn>>

(* Mutant: no BEGIN.                                                       *)
BeginNothing == Goto("begin", "create_new") /\ UNCHANGED <<disk, db, txn, fk>>

Begin ==
    /\ Goto("begin", "create_new")
    /\ txn' = TRUE
    /\ UNCHANGED <<disk, db, fk>>

CreateNew ==
    /\ Goto("create_new", "copy")
    /\ Run([db EXCEPT !.copy = {{}}])
    /\ UNCHANGED fk

Copy ==
    /\ Goto("copy", "drop")
    /\ Run([db EXCEPT !.copy = {db.rows}])
    /\ UNCHANGED fk

(* DROP TABLE deletes the rows first: with foreign keys enforced, so do    *)
(* the references (ON DELETE CASCADE).                                     *)
Drop ==
    /\ Goto("drop", "rename")
    /\ Run([db EXCEPT !.bids = "none", !.rows = {},
                      !.charged = IF fk THEN [c \in {} |-> 0] ELSE @])
    /\ UNCHANGED fk

Rename ==
    /\ Goto("rename", "commit_bids")
    /\ Run([db EXCEPT !.bids = "new", !.rows = UNION db.copy, !.copy = {}])
    /\ UNCHANGED fk

CommitBids ==
    /\ Goto("commit_bids", "foreign_keys_on")
    /\ End(db)
    /\ UNCHANGED fk

ForeignKeysOn ==
    /\ Goto("foreign_keys_on", "create")
    /\ fk' = TRUE
    /\ UNCHANGED <<disk, db, txn>>

(* A statement of the rebuild fails: it is rolled back, and the start with *)
(* it.                                                                     *)
Rollback ==
    /\ pc \in {"begin", "create_new", "copy", "drop", "rename", "commit_bids"}
    /\ crashes < MaxCrashes /\ crashes' = crashes + 1
    /\ pc' = "stopped"
    /\ End(disk)
    /\ fk' = TRUE
    /\ UNCHANGED legacy
-----------------------------------------------------------------------------
(* _SCHEMA: IF NOT EXISTS leaves every table that is there alone.          *)
Create ==
    /\ Goto("create", "create_clicks")
    /\ Run([db EXCEPT !.bids = IF @ = "none" THEN "new" ELSE @])
    /\ UNCHANGED fk

CreateClicks ==
    /\ Goto("create_clicks", "alter")
    /\ Run([db EXCEPT !.clicks = IF @ = "none" THEN "new" ELSE @])
    /\ UNCHANGED fk

(* _migrate_clicks_to_cpc: nothing to do when the column is there.         *)
Alter ==
    /\ Goto("alter", IF db.clicks = "new" THEN "commit" ELSE "backfill")
    /\ Run([db EXCEPT !.clicks = "new"])
    /\ UNCHANGED fk

(* Mutant: no backfill.                                                    *)
BackfillNothing == Goto("backfill", "commit") /\ UNCHANGED <<disk, db, txn, fk>>

(* The UPDATE opens a transaction.                                         *)
Backfill ==
    /\ Goto("backfill", "commit")
    /\ db' = [db EXCEPT !.charged = [c \in DOMAIN @ |-> Quote[c]]]
    /\ txn' = TRUE
    /\ UNCHANGED <<disk, fk>>

(* Mutant: the service starts without a COMMIT.                            *)
CommitForgotten == Goto("commit", "up") /\ UNCHANGED <<disk, db, txn, fk>>

Commit ==
    /\ Goto("commit", "up")
    /\ End(db)
    /\ UNCHANGED fk

(* aclose: the service stops in order.                                     *)
Close ==
    /\ Goto("up", "stopped")
    /\ End(disk)
    /\ UNCHANGED fk

(* The process dies, or a statement outside of the rebuild fails.          *)
Crash ==
    /\ pc # "stopped"
    /\ crashes < MaxCrashes /\ crashes' = crashes + 1
    /\ pc' = "stopped"
    /\ End(disk)
    /\ UNCHANGED <<fk, legacy>>
-----------------------------------------------------------------------------
(* What a start may find: no database, the first version's, one with the   *)
(* new bids and unpriced clicks, and its own (with clicks as the backfill  *)
(* left them).                                                             *)
Deployments == {d \in Databases :
    /\ d.copy = {}
    /\ \A c \in DOMAIN d.charged : BidOf[c] \in d.rows
    /\ \/ d.bids = "none" /\ d.rows = {} /\ d.clicks = "none"
       \/ d.bids # "none" /\ d.clicks = "old" /\ \A c \in DOMAIN d.charged : d.charged[c] = 0
       \/ d.bids = "new" /\ d.clicks = "new" /\ \A c \in DOMAIN d.charged : d.charged[c] = Quote[c]}

Init ==
    /\ legacy \in Deployments
    /\ disk = legacy /\ db = legacy
    /\ txn = FALSE /\ fk = TRUE
    /\ pc = "stopped"
    /\ crashes = 0

Next ==
    \/ Open \/ ForeignKeysOff \/ Begin \/ CreateNew \/ Copy \/ Drop \/ Rename \/ CommitBids
    \/ ForeignKeysOn \/ Rollback
    \/ Create \/ CreateClicks \/ Alter \/ Backfill \/ Commit
    \/ Close \/ Crash

Spec == Init /\ [][Next]_vars
-----------------------------------------------------------------------------
(* Types; a transaction is the only thing that keeps the connection's view *)
(* from the disk, and bids_new never gets there.                           *)
TypeOK ==
    /\ disk \in Databases /\ db \in Databases
    /\ txn \in BOOLEAN /\ fk \in BOOLEAN
    /\ crashes \in 0..MaxCrashes
    /\ ~txn => db = disk
    /\ disk.copy = {}

(* No bid and no click is ever lost by an upgrade, wherever it is cut off: *)
(* the committed bids are the earlier version's, none is gone with the     *)
(* table that is dropped before its successor has the name, and no DROP    *)
(* takes the clicks that refer to them.                                    *)
NothingLost ==
    /\ disk.rows = legacy.rows
    /\ disk.bids = "none" => legacy.bids = "none"
    /\ DOMAIN disk.charged = DOMAIN legacy.charged

(* The service starts on the present schema, durably: everything committed *)
(* and references enforced.                                                *)
UpToDate == pc = "up" =>
    /\ db.bids = "new" /\ db.clicks = "new"
    /\ disk = db /\ ~txn /\ fk

(* "Historical click rows keep their spend": once the service is up, a     *)
(* click costs what its impression says.                                   *)
SpendKept == pc = "up" => \A c \in DOMAIN db.charged : db.charged[c] = Quote[c]

(* So it is after an upgrade that was not interrupted.                     *)
SpendKeptUncut == crashes = 0 => SpendKept
==============================================================================
