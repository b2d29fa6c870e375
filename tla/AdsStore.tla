------------------------------ MODULE AdsStore ------------------------------
(***************************************************************************)
(* The ads layer: AdsStore and AdsService (src/app/ads/storage.py and      *)
(* service.py) as their HTTP handlers call them, on ONE shared aiosqlite   *)
(* connection.                                                             *)
(*                                                                         *)
(* Every await of a statement hands one operation to the connection's      *)
(* worker thread, which runs operations in the order they were handed      *)
(* over; the event loop resumes the handlers in that same order, and each  *)
(* resumed handler hands over its next operation.  So the handlers in      *)
(* progress take turns: `queue' is that order, and one action is one       *)
(* operation with the handler code that runs up to its next await.         *)
(*                                                                         *)
(* A transaction belongs to the connection, not to a handler.  `db' is     *)
(* what every statement on the connection sees, `saved' is what the last   *)
(* COMMIT left, and they differ only while `txn' is TRUE.                  *)
(***************************************************************************)
EXTENDS AdsTables, Auction, Sequences, FiniteSets

CONSTANTS
    PhraseSlots,    \* the slots whose match_mode is 'phrase'
    Queries,        \* normalized search queries
    Hits,           \* Hits[q]: the slots a search for q matches
    Amounts,        \* bid amounts that advertisers enter
    Https,          \* the HTTP requests of a behaviour (its bound)
    Workload,       \* what those requests may ask for
    MaxOpen,        \* how many handlers may be in progress at once
    MaxCrashes,     \* bound on process restarts
    InitialDb,      \* the database file the process starts on
    LastId          \* no bid id in it is larger

RegisterRequests == [kind : {"register"}, user : Users]
PlaceRequests    == [kind : {"place"}, user : Users, slot : Slots, amount : Amounts]
DeleteRequests   == [kind : {"delete"}, user : Users, slot : Slots]
SearchRequests   == [kind : {"search"}, query : Queries, rid : RequestIds]
ClickRequests    == [kind : {"click"}, bid : Positive, rid : RequestIds \cup {NoRequest}]
Requests         == RegisterRequests \cup PlaceRequests \cup DeleteRequests
                      \cup SearchRequests \cup ClickRequests

ASSUME AmountsAssumption  == Amounts \subseteq Positive
ASSUME SlotsAssumption    == PhraseSlots \subseteq Slots
ASSUME HitsAssumption     == Hits \in [Queries -> SUBSET Slots]
ASSUME WorkloadAssumption == Workload \subseteq Requests /\ Workload # {}
ASSUME CrashAssumption    == MaxCrashes \in Nat
ASSUME InitialAssumption  ==
    /\ LastId \in Nat
    /\ InOrder(InitialDb) /\ \A b \in InitialDb.bids : b.id <= LastId

VARIABLES
    db, saved, txn,     \* the connection
    pool, pooled,       \* _phrase_pool, and whether it is set and unexpired
    queue,              \* handlers waiting for their operation, in order
    req, pc, turns,     \* each handler's request, next operation, and turns
    rows,               \* the result of its SELECT, until the cursor closes
    held,               \* the bid rows it goes on with: a search's candidates,
                        \* a click's own bid
    charged,            \* a click's price, then what it charged; a delete's rowcount
    out,                \* its answer
    crashes

store   == <<db, saved, txn>>
phrases == <<pool, pooled>>
locals  == <<rows, held, charged>>
vars    == <<db, saved, txn, pool, pooled, queue, req, pc, turns, rows, held,
             charged, out, crashes>>
-----------------------------------------------------------------------------
(* The connection: Python's sqlite3 opens a transaction before a write,    *)
(* COMMIT and ROLLBACK end whatever transaction is open, whoever began it. *)

Reading == UNCHANGED store
Write(new) == db' = new /\ txn' = TRUE /\ UNCHANGED saved
WriteNothing == Write(db)
Commit == saved' = db /\ txn' = FALSE /\ UNCHANGED db
(* Mutant: ROLLBACK leaves the writes in place.                            *)
RollbackKeeping == txn' = FALSE /\ UNCHANGED <<db, saved>>

Rollback == db' = saved /\ txn' = FALSE /\ UNCHANGED saved

(* t's operation is the one the worker runs now.                           *)
Turn(t, step) == queue # <<>> /\ Head(queue) = t /\ pc[t] = step

(* t resumes and hands over its next operation.                            *)
Goto(t, step) ==
    /\ pc' = [pc EXCEPT ![t] = step]
    /\ queue' = Append(Tail(queue), t)
    /\ UNCHANGED <<req, out, crashes>>

(* t resumes and answers.                                                  *)
Reply(t, answer) ==
    /\ pc' = [pc EXCEPT ![t] = "done"]
    /\ out' = [out EXCEPT ![t] = answer]
    /\ queue' = Tail(queue)
    /\ UNCHANGED <<req, crashes>>

(* A write, BEGIN, COMMIT or ROLLBACK takes one turn.                      *)
Statement(t, step) == Turn(t, step) /\ turns' = turns

(* What t's SELECT returns.                                                *)
Selected(t) ==
    LET r == req[t] IN
    CASE pc[t] = "lookup"   -> db.accounts \cap {r.user}
      [] pc[t] = "session"  -> {db.wallet[u] : u \in db.accounts \cap {r.user}}
      [] pc[t] = "readback" -> BidsAt(db, r.user, r.slot)
      [] pc[t] \in {"replay", "again", "seen"} -> QuotesOf(db, r.rid)
      [] pc[t] = "exact"    ->
           Affordable(db, {x \in db.bids : x.slot \in Hits[r.query] \ PhraseSlots})
      [] pc[t] = "phrase"   -> Affordable(db, {x \in db.bids : x.slot \in PhraseSlots})
      [] pc[t] \in {"target", "owner"} -> BidsWithId(db, r.bid)
      [] pc[t] = "dupe"     -> ClicksOf(db, r.bid, r.rid)
      [] pc[t] = "quoted"   -> {i \in QuotesOf(db, r.rid) : i.bid = r.bid}

Selects == {"lookup", "session", "readback", "replay", "again", "seen", "exact",
            "phrase", "target", "owner", "dupe", "quoted"}
ListSelects == {"exact", "phrase"}

(* `async with execute(...) as cur: await cur.fetch...()' takes three      *)
(* turns: execute, fetch, and the close on leaving the block.              *)
Execute(t) ==
    /\ \E step \in Selects : Turn(t, step)
    /\ turns[t] = 0
    /\ turns' = [turns EXCEPT ![t] = 2]
    /\ rows' = [rows EXCEPT ![t] = Selected(t)]
    /\ Goto(t, pc[t])
    /\ UNCHANGED <<store, phrases, held, charged>>

(* fetchone returns the row that execute found.  A list is sorted block by *)
(* block as it is fetched, so fetchall may still see later writes made     *)
(* through this connection.                                                *)
Fetch(t) ==
    /\ \E step \in Selects : Turn(t, step)
    /\ turns[t] = 2
    /\ turns' = [turns EXCEPT ![t] = 1]
    /\ \/ UNCHANGED rows
       \/ pc[t] \in ListSelects /\ rows' = [rows EXCEPT ![t] = Selected(t)]
    /\ Goto(t, pc[t])
    /\ UNCHANGED <<store, phrases, held, charged>>

(* The close of t's cursor, after which its handler goes on.               *)
Closes(t, step) ==
    /\ Turn(t, step)
    /\ turns[t] = 1
    /\ turns' = [turns EXCEPT ![t] = 0]
    /\ rows' = [rows EXCEPT ![t] = {}]
    /\ Reading
-----------------------------------------------------------------------------
(* POST /auth/register: AdsService.register.                               *)

LookedUp(t) ==
    /\ Closes(t, "lookup")
    /\ IF rows[t] = {} THEN Goto(t, "signup") ELSE Reply(t, "refused")
    /\ UNCHANGED <<phrases, held, charged>>

(* create_user's INSERT; a taken username fails it with the implicit       *)
(* transaction left open, and nothing rolls it back.                       *)
Signup(t) ==
    LET u == req[t].user IN
    /\ Statement(t, "signup")
    /\ IF u \in db.accounts
         THEN WriteNothing /\ Reply(t, "error")
         ELSE Write(SignedUp(db, u)) /\ Goto(t, "commit")
    /\ UNCHANGED <<phrases, locals>>
-----------------------------------------------------------------------------
(* POST /cabinet/bid and /cabinet/bid/delete, behind require_user.         *)

(* The session's user is read; place_bid compares the amount with the      *)
(* wallet of that read.                                                    *)
Session(t) ==
    /\ Closes(t, "session")
    /\ CASE rows[t] = {} -> Reply(t, "refused")
         [] rows[t] # {} /\ req[t].kind = "delete" -> Goto(t, "unbid")
         [] rows[t] # {} /\ req[t].kind = "place"  ->
              IF \E w \in rows[t] : req[t].amount > w
                THEN Reply(t, "refused")
                ELSE Goto(t, "upsert")
    /\ UNCHANGED <<phrases, held, charged>>

(* Mutant: the handler goes on without a COMMIT.                           *)
UpsertUncommitted(t) ==
    /\ Statement(t, "upsert")
    /\ Write(Upserted(db, req[t].user, req[t].slot, req[t].amount))
    /\ Goto(t, "readback")
    /\ UNCHANGED <<phrases, locals>>

Upsert(t) ==
    /\ Statement(t, "upsert")
    /\ Write(Upserted(db, req[t].user, req[t].slot, req[t].amount))
    /\ Goto(t, "commit")
    /\ UNCHANGED <<phrases, locals>>

(* rowcount is remembered in `charged': 1 when a bid was deleted.          *)
Unbid(t) ==
    LET gone == BidsAt(db, req[t].user, req[t].slot) IN
    /\ Statement(t, "unbid")
    /\ Write(WithoutBids(db, gone))
    /\ charged' = [charged EXCEPT ![t] = IF gone = {} THEN 0 ELSE 1]
    /\ Goto(t, "commit")
    /\ UNCHANGED <<phrases, rows, held>>

(* upsert_bid reads the row back and asserts that it is there.             *)
Readback(t) ==
    /\ Closes(t, "readback")
    /\ Reply(t, IF rows[t] = {} THEN "error" ELSE "ok")
    /\ UNCHANGED <<phrases, held, charged>>
-----------------------------------------------------------------------------
(* GET /search: AdsService.run_auction.                                    *)

Replayed(t) ==
    /\ Closes(t, "replay")
    /\ IF rows[t] = {} THEN Goto(t, "exact") ELSE Reply(t, "ok")
    /\ UNCHANGED <<phrases, held, charged>>

(* select_winner picks nothing from an empty list.                         *)
Decide(t, C) ==
    /\ held' = [held EXCEPT ![t] = C]
    /\ IF C = {} THEN Reply(t, "refused") ELSE Goto(t, "begin")

Matching(t, S) == {b \in S : b.slot \in Hits[req[t].query]}

(* The exact list is in; the phrase pool is used when it is cached.        *)
Exact(t) ==
    /\ Closes(t, "exact")
    /\ IF pooled
         THEN Decide(t, rows[t] \cup Matching(t, pool))
         ELSE held' = [held EXCEPT ![t] = rows[t]] /\ Goto(t, "phrase")
    /\ UNCHANGED <<phrases, charged>>

(* list_phrase_bids_with_tokens caches what it read, whatever happened     *)
(* to the cache since.                                                     *)
Phrase(t) ==
    /\ Closes(t, "phrase")
    /\ pool' = rows[t]
    /\ pooled' = TRUE
    /\ Decide(t, held[t] \cup Matching(t, rows[t]))
    /\ UNCHANGED charged

(* _PHRASE_POOL_TTL_SECONDS pass: the snapshot may expire at any moment.   *)
Expire ==
    /\ pooled
    /\ pool' = {}
    /\ pooled' = FALSE
    /\ UNCHANGED <<store, queue, req, pc, turns, locals, out, crashes>>

(* Mutant: a refused BEGIN is tried again and again.                       *)
BeginRetried(t) ==
    /\ Statement(t, "begin")
    /\ IF txn
         THEN Reading /\ Goto(t, "begin")
         ELSE /\ txn' = TRUE
              /\ UNCHANGED <<db, saved>>
              /\ Goto(t, IF req[t].kind = "search" THEN "seen"
                         ELSE IF req[t].rid # NoRequest THEN "dupe" ELSE "insert")
    /\ UNCHANGED <<phrases, locals>>

(* record_impression and record_click: BEGIN IMMEDIATE, refused inside an  *)
(* open transaction; the except clause then rolls back.                    *)
Begin(t) ==
    /\ Statement(t, "begin")
    /\ IF txn
         THEN Reading /\ Goto(t, "rollback")
         ELSE /\ txn' = TRUE
              /\ UNCHANGED <<db, saved>>
              /\ Goto(t, CASE req[t].kind = "search" -> "seen"
                           [] req[t].kind = "click" /\ req[t].rid # NoRequest -> "dupe"
                           [] req[t].kind = "click" /\ req[t].rid = NoRequest -> "insert")
    /\ UNCHANGED <<phrases, locals>>

Seen(t) ==
    /\ Closes(t, "seen")
    /\ Goto(t, IF rows[t] = {} THEN "quote" ELSE "undo")
    /\ UNCHANGED <<phrases, held, charged>>

(* The impression of the winner, which must still satisfy the foreign key. *)
Quote(t) ==
    /\ Statement(t, "quote")
    /\ \E w \in Leaders(held[t]) :
         LET i == [rid |-> req[t].rid, bid |-> w.id, user |-> w.user,
                   price |-> Price(held[t], w)] IN
         IF CanShow(db, i)
           THEN Write(Shown(db, i)) /\ Goto(t, "commit")
           ELSE WriteNothing /\ Goto(t, "rollback")
    /\ held' = [held EXCEPT ![t] = {}]
    /\ UNCHANGED <<phrases, rows, charged>>

Again(t) ==
    /\ Closes(t, "again")
    /\ Reply(t, IF rows[t] = {} THEN "refused" ELSE "ok")
    /\ UNCHANGED <<phrases, held, charged>>
-----------------------------------------------------------------------------
(* GET /ads/click/{bid_id}: AdsService.record_click.                       *)

Target(t) ==
    /\ Closes(t, "target")
    /\ IF rows[t] = {} THEN Reply(t, "refused") ELSE Goto(t, "owner")
    /\ UNCHANGED <<phrases, held, charged>>

(* The owner is kept in `held' (as the bid row read here).                *)
Owner(t) ==
    /\ Closes(t, "owner")
    /\ IF rows[t] = {}
         THEN Reply(t, "refused") /\ UNCHANGED held
         ELSE Goto(t, "begin") /\ held' = [held EXCEPT ![t] = rows[t]]
    /\ UNCHANGED <<phrases, charged>>

Payer(t) == (CHOOSE b \in held[t] : TRUE).user

(* A repeated click replays the charge on record.                          *)
Dupe(t) ==
    /\ Closes(t, "dupe")
    /\ IF rows[t] = {}
         THEN Goto(t, "quoted") /\ UNCHANGED charged
         ELSE /\ Goto(t, "undo")
              /\ \E c \in rows[t] : charged' = [charged EXCEPT ![t] = c.charged]
    /\ UNCHANGED <<phrases, held>>

(* An unknown request id costs nothing, and then no debit is tried.        *)
Quoted(t) ==
    /\ Closes(t, "quoted")
    /\ IF rows[t] = {}
         THEN Goto(t, "insert") /\ UNCHANGED charged
         ELSE /\ Goto(t, "debit")
              /\ \E i \in rows[t] : charged' = [charged EXCEPT ![t] = i.price]
    /\ UNCHANGED <<phrases, held>>

(* Mutants: the debit without its guard; the debit as a transaction of its *)
(* own.                                                                    *)
DebitUnguarded(t) ==
    /\ Statement(t, "debit")
    /\ Write(Debited(db, Payer(t), charged[t]))
    /\ Goto(t, "insert")
    /\ UNCHANGED <<phrases, locals>>
DebitCommitted(t) ==
    LET new == IF db.wallet[Payer(t)] >= charged[t]
                 THEN Debited(db, Payer(t), charged[t]) ELSE db IN
    /\ Statement(t, "debit")
    /\ db' = new /\ saved' = new /\ txn' = FALSE
    /\ Goto(t, "insert")
    /\ UNCHANGED <<phrases, locals>>

(* UPDATE users SET wallet = wallet - price WHERE wallet >= price.         *)
Debit(t) ==
    /\ Statement(t, "debit")
    /\ IF db.wallet[Payer(t)] >= charged[t]
         THEN Write(Debited(db, Payer(t), charged[t])) /\ UNCHANGED charged
         ELSE WriteNothing /\ charged' = [charged EXCEPT ![t] = 0]
    /\ Goto(t, "insert")
    /\ UNCHANGED <<phrases, rows, held>>

(* Mutant: a failed INSERT pays the debit back instead of rolling it back. *)
InsertRefunding(t) ==
    LET c == [bid |-> req[t].bid, rid |-> req[t].rid, user |-> Payer(t),
              charged |-> charged[t]] IN
    /\ Statement(t, "insert")
    /\ Goto(t, "commit")
    /\ Write(IF CanClick(db, c) THEN Clicked(db, c) ELSE Debited(db, Payer(t), 0 - charged[t]))
    /\ UNCHANGED <<phrases, locals>>

Insert(t) ==
    LET c == [bid |-> req[t].bid, rid |-> req[t].rid, user |-> Payer(t),
              charged |-> charged[t]] IN
    /\ Statement(t, "insert")
    /\ IF CanClick(db, c)
         THEN Write(Clicked(db, c)) /\ Goto(t, "commit")
         ELSE WriteNothing /\ Goto(t, "rollback")
    /\ UNCHANGED <<phrases, locals>>
-----------------------------------------------------------------------------
(* The ends of the transactions.                                           *)

(* Mutant: deleting a phrase bid leaves the pool alone.                    *)
InvalidatesOnPlace(t) == req[t].kind = "place" /\ req[t].slot \in PhraseSlots

(* After its COMMIT, a change of a phrase bid drops the phrase pool.       *)
Invalidates(t) ==
    \/ req[t].kind = "place" /\ req[t].slot \in PhraseSlots
    \/ req[t].kind = "delete" /\ req[t].slot \in PhraseSlots /\ charged[t] = 1

CommitStep(t) ==
    /\ Statement(t, "commit")
    /\ Commit
    /\ IF req[t].kind = "place" THEN Goto(t, "readback") ELSE Reply(t, "ok")
    /\ IF Invalidates(t) THEN pool' = {} /\ pooled' = FALSE ELSE UNCHANGED phrases
    /\ held' = [held EXCEPT ![t] = {}]
    /\ UNCHANGED <<rows, charged>>

(* Mutant: the except clause re-raises without a ROLLBACK.                 *)
RaiseOnly(t) ==
    /\ Statement(t, "rollback")
    /\ Reading
    /\ Reply(t, "error")
    /\ held' = [held EXCEPT ![t] = {}]
    /\ UNCHANGED <<phrases, rows, charged>>

(* The ROLLBACK of an except clause, which then re-raises.                 *)
RollbackStep(t) ==
    /\ Statement(t, "rollback")
    /\ Rollback
    /\ Reply(t, "error")
    /\ held' = [held EXCEPT ![t] = {}]
    /\ UNCHANGED <<phrases, rows, charged>>

(* The ROLLBACK of a duplicate: a click answers, a search replays.         *)
Undo(t) ==
    /\ Statement(t, "undo")
    /\ Rollback
    /\ IF req[t].kind = "search" THEN Goto(t, "again") ELSE Reply(t, "ok")
    /\ held' = [held EXCEPT ![t] = {}]
    /\ UNCHANGED <<phrases, rows, charged>>
-----------------------------------------------------------------------------
FirstStep(kind) ==
    CASE kind = "register" -> "lookup"
      [] kind \in {"place", "delete"} -> "session"
      [] kind = "search" -> "replay"
      [] kind = "click" -> "target"

Open == {t \in Https : pc[t] \notin {"idle", "done"}}

(* A request reaches its handler, which hands over its first operation.    *)
Arrive(t) ==
    /\ pc[t] = "idle"
    /\ Len(queue) < MaxOpen
    /\ \E r \in Workload :
         /\ req' = [req EXCEPT ![t] = r]
         /\ pc' = [pc EXCEPT ![t] = FirstStep(r.kind)]
    /\ queue' = Append(queue, t)
    /\ UNCHANGED <<store, phrases, turns, locals, out, crashes>>

(* The process dies and starts again on the same file: what was not        *)
(* committed is gone, and so are the handlers and the phrase pool.         *)
Crash ==
    /\ crashes < MaxCrashes
    /\ crashes' = crashes + 1
    /\ Rollback
    /\ pool' = {} /\ pooled' = FALSE
    /\ queue' = <<>>
    /\ pc' = [t \in Https |-> IF t \in Open THEN "done" ELSE pc[t]]
    /\ out' = [t \in Https |-> IF t \in Open THEN "lost" ELSE out[t]]
    /\ turns' = [t \in Https |-> 0]
    /\ rows' = [t \in Https |-> {}]
    /\ held' = [t \in Https |-> {}]
    /\ UNCHANGED <<req, charged>>

Init ==
    /\ db = InitialDb
    /\ saved = InitialDb
    /\ txn = FALSE
    /\ pool = {} /\ pooled = FALSE
    /\ queue = <<>>
    /\ req \in [Https -> {CHOOSE r \in Workload : TRUE}]
    /\ pc = [t \in Https |-> "idle"]
    /\ turns = [t \in Https |-> 0]
    /\ rows = [t \in Https |-> {}]
    /\ held = [t \in Https |-> {}]
    /\ charged = [t \in Https |-> 0]
    /\ out = [t \in Https |-> "pending"]
    /\ crashes = 0

Serve(t) ==
    \/ Execute(t) \/ Fetch(t)
    \/ LookedUp(t) \/ Signup(t)
    \/ Session(t) \/ Upsert(t) \/ Unbid(t) \/ Readback(t)
    \/ Replayed(t) \/ Exact(t) \/ Phrase(t) \/ Seen(t) \/ Quote(t) \/ Again(t)
    \/ Target(t) \/ Owner(t) \/ Dupe(t) \/ Quoted(t) \/ Debit(t) \/ Insert(t)
    \/ Begin(t) \/ CommitStep(t) \/ RollbackStep(t) \/ Undo(t)

Next ==
    \/ \E t \in Https : Arrive(t) \/ Serve(t)
    \/ Expire
    \/ Crash

(* The worker thread and the event loop never stop; no request has to      *)
(* arrive, no snapshot to expire and no crash to happen.                   *)
Spec == Init /\ [][Next]_vars /\ WF_vars(\E t \in Https : Serve(t))
-----------------------------------------------------------------------------
(* The operations a handler can wait for, by the kind of its request.      *)
StepsOf(kind) ==
    CASE kind = "register" -> {"lookup", "signup", "commit"}
      [] kind = "place"    -> {"session", "upsert", "commit", "readback"}
      [] kind = "delete"   -> {"session", "unbid", "commit"}
      [] kind = "search"   -> {"replay", "exact", "phrase", "begin", "seen", "quote",
                               "commit", "rollback", "undo", "again"}
      [] kind = "click"    -> {"target", "owner", "begin", "dupe", "quoted", "debit",
                               "insert", "commit", "rollback", "undo"}

Kinds == {"register", "place", "delete", "search", "click"}

(* A handler is at a step of its own, holds rows only while it reads, of   *)
(* the table it reads, and knows the bid it bills.                         *)
HandlerOK(t) ==
    /\ pc[t] \in {"idle", "done"} \cup StepsOf(req[t].kind)
    /\ pc[t] \notin Selects => rows[t] = {} /\ turns[t] = 0
    /\ pc[t] \in {"exact", "phrase", "target", "owner", "readback"} => rows[t] \subseteq Bids
    /\ pc[t] = "dupe" => rows[t] \subseteq Clicks
    /\ pc[t] = "quoted" => rows[t] \subseteq Impressions
    /\ req[t].kind = "click" /\ pc[t] \in {"begin", "dupe", "quoted", "debit", "insert"}
         => held[t] # {}

TypeOK ==
    /\ db \in Databases /\ saved \in Databases /\ txn \in BOOLEAN
    /\ ~txn => db = saved
    /\ pool \in SUBSET Bids /\ pooled \in BOOLEAN
    /\ queue \in Seq(Https)
    /\ req \in [Https -> Requests]
    /\ pc \in [Https -> {"idle", "done"} \cup UNION {StepsOf(k) : k \in Kinds}]
    /\ turns \in [Https -> 0..2]
    /\ rows = [t \in Https |-> rows[t]]
    /\ held \in [Https -> SUBSET Bids] /\ charged \in [Https -> Nat]
    /\ out \in [Https -> {"pending", "ok", "refused", "error", "lost"}]
    /\ crashes \in 0..MaxCrashes
    /\ \A t \in Https : HandlerOK(t)

(* What holds however the handlers interleave.                             *)

(* The rows hang together whenever anyone looks: bid ids and bid slots are *)
(* unique, and every impression and every click belongs to a bid that      *)
(* exists, also while several handlers write between each other's          *)
(* statements and roll each other's work back.                             *)
RowsLinked == Linked(db) /\ Linked(saved)

(* However clicks race, a page view has at most one click row per bid: the *)
(* check inside the transaction can be undercut by another handler's       *)
(* rollback, the unique index cannot.                                      *)
NeverBilledTwice == ClickedOnce(db) /\ ClickedOnce(saved)

(* However debits and rollbacks interleave, no wallet leaves               *)
(* 0..SignupBalance.                                                       *)
WalletsInRange == InRange(db) /\ InRange(saved)

(* What is committed of an account stays, whoever commits or rolls back    *)
(* whose half-done work: it is never signed up anew, its wallet is never   *)
(* paid back what it was debited, and no bill of it is undone.             *)
SpentStaysSpent == [][\A u \in saved.accounts :
    /\ u \in saved'.accounts
    /\ saved'.wallet[u] <= saved.wallet[u]
    /\ saved'.billed[u] >= saved.billed[u]]_vars

(* When no handler is in progress the connection has no open transaction:  *)
(* whatever was rolled back or failed, the next BEGIN can succeed.  (The   *)
(* INSERT of a taken username is the exception, see Signup.)               *)
NoStrayTransaction == queue = <<>> => ~txn

(* Every request that reaches its handler is answered, or lost in a crash. *)
EveryRequestAnswered == \A t \in Https :
    pc[t] # "idle" ~> pc[t] = "done"
-----------------------------------------------------------------------------
(* What holds when handlers do not overlap (MaxOpen = 1), crashes and      *)
(* restarts included, and what the program says holds always.              *)

IdBound == LastId + Cardinality(Https)

(* The committed tables are the books of ClickLedger.                      *)
Books == INSTANCE ClickLedger WITH
    ledger <- saved, InitialLedger <- InitialDb, MaxBidId <- IdBound

(* Each COMMIT is one whole operation of the promised ledger: no crash and *)
(* no error path leaves a debit without its click or a click without its   *)
(* debit.                                                                  *)
KeepsTheBooks == Books!Spec

(* Committed wallets and billed clicks add up (record_click: "Atomically   *)
(* bill a click and persist it").                                          *)
Balanced == InBalance(saved)

(* Nobody is told that something is done which the file may not keep: the  *)
(* account, the bid, its removal, the impression or the click that a       *)
(* handler confirms is committed, whatever crash comes next.               *)
Granted(r, d) ==
    CASE r.kind = "register" -> r.user \in d.accounts
      [] r.kind = "place"    -> \E b \in BidsAt(d, r.user, r.slot) : b.amount = r.amount
      [] r.kind = "delete"   -> BidsAt(d, r.user, r.slot) = {}
      [] r.kind = "search"   -> QuotesOf(d, r.rid) # {}
      [] r.kind = "click"    -> \E c \in d.clicks : c.bid = r.bid /\ c.rid = r.rid
AnswersCommitted == [][\A t \in Https :
    out[t] = "pending" /\ out'[t] = "ok" => Granted(req[t], saved')]_vars

(* Between handlers a cached phrase pool holds every phrase bid that could *)
(* win now, and no bid that was edited or deleted ("the next auction       *)
(* re-reads SQLite").                                                      *)
PoolCurrent == pooled /\ queue = <<>> =>
    LET phrase == {b \in db.bids : b.slot \in PhraseSlots} IN
    Affordable(db, phrase) \subseteq pool /\ pool \subseteq phrase
=============================================================================
