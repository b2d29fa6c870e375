------------------------------ MODULE AdsTables ------------------------------
(***************************************************************************)
(* The tables of the ads database (_SCHEMA in src/app/ads/storage.py) and  *)
(* what each write statement does to them.  A database is a record, so a   *)
(* transaction, a rollback or a restart is about one value.                *)
(***************************************************************************)
EXTENDS Integers

CONSTANTS
    Users,          \* accounts, one per case-folded username
    Slots,          \* the (query_normalized, match_mode) keys of bids
    RequestIds,     \* request ids of searches, sent back by clicks as r=
    NoRequest,      \* a click without r=
    SignupBalance   \* config.signup_balance

ASSUME SignupAssumption  == SignupBalance \in Nat
ASSUME RequestAssumption == NoRequest \notin RequestIds

Positive == Nat \ {0}

Bids        == [id : Positive, user : Users, slot : Slots, amount : Positive]
Impressions == [rid : RequestIds, bid : Positive, user : Users, price : Positive]
Clicks      == [bid : Positive, rid : RequestIds \cup {NoRequest}, user : Users,
                charged : Nat]

(* `billed' is a history of the clicks table: everything that click rows   *)
(* ever charged an account, rows that went with a deleted bid included.    *)
Databases == [accounts    : SUBSET Users,
              wallet      : [Users -> Int],
              bids        : SUBSET Bids,
              impressions : SUBSET Impressions,
              clicks      : SUBSET Clicks,
              billed      : [Users -> Nat]]
-----------------------------------------------------------------------------
(* Lookups.                                                                *)

BidsWithId(d, b)    == {x \in d.bids : x.id = b}
BidsAt(d, u, s)     == {x \in d.bids : x.user = u /\ x.slot = s}
QuotesOf(d, r)      == {i \in d.impressions : i.rid = r}

(* NULL request ids are outside the partial index clicks_unique_by_request. *)
ClicksOf(d, b, r) ==
    {c \in d.clicks : c.bid = b /\ c.rid = r /\ r # NoRequest}

(* Bids their owner's wallet still covers.                                 *)
Affordable(d, S) == {x \in S : d.wallet[x.user] >= x.amount}
-----------------------------------------------------------------------------
(* Writes.                                                                 *)

SignedUp(d, u) ==
    [d EXCEPT !.accounts = @ \cup {u}, !.wallet[u] = SignupBalance]

(* Mutant: ids that start at 0.                                            *)
NextIdFromZero(B) ==
    IF B = {} THEN 0
    ELSE 1 + (CHOOSE n \in {b.id : b \in B} : \A b \in B : b.id <= n)

(* INTEGER PRIMARY KEY: one more than the largest id in the table, so the  *)
(* id of a deleted newest bid is given out again.                          *)
NextId(B) ==
    IF B = {} THEN 1
    ELSE 1 + (CHOOSE n \in {b.id : b \in B} : \A b \in B : b.id <= n)

(* UNIQUE(user_id, query_normalized, match_mode) DO UPDATE.                *)
Upserted(d, u, s, a) ==
    LET old == BidsAt(d, u, s) IN
    [d EXCEPT !.bids =
        IF old = {}
          THEN @ \cup {[id |-> NextId(d.bids), user |-> u, slot |-> s, amount |-> a]}
          ELSE (@ \ old) \cup {[b EXCEPT !.amount = a] : b \in old}]

(* Mutant: the cascade of the clicks table is forgotten.                   *)
WithoutBidsKeepingClicks(d, gone) ==
    [d EXCEPT !.bids = @ \ gone,
              !.impressions = {i \in @ : i.bid \notin {b.id : b \in gone}}]

(* DELETE FROM bids, with ON DELETE CASCADE.                               *)
WithoutBids(d, gone) ==
    LET ids == {b.id : b \in gone} IN
    [d EXCEPT !.bids = @ \ gone,
              !.impressions = {i \in @ : i.bid \notin ids},
              !.clicks = {c \in @ : c.bid \notin ids}]

(* Mutants: foreign keys are off; the unique index on clicks is missing.   *)
CanShowAnyBid(d, i) == QuotesOf(d, i.rid) = {}
CanClickAgain(d, c) == BidsWithId(d, c.bid) # {}

(* An INSERT is refused by the UNIQUE index or the foreign key on bids.    *)
CanShow(d, i) == QuotesOf(d, i.rid) = {} /\ BidsWithId(d, i.bid) # {}
Shown(d, i) == [d EXCEPT !.impressions = @ \cup {i}]

CanClick(d, c) == ClicksOf(d, c.bid, c.rid) = {} /\ BidsWithId(d, c.bid) # {}
Clicked(d, c) ==
    [d EXCEPT !.clicks = @ \cup {c}, !.billed[c.user] = @ + c.charged]

(* Mutant: the UPDATE names no price.                                      *)
DebitedNothing(d, u, price) == d

(* UPDATE users SET wallet = wallet - price.                               *)
Debited(d, u, price) == [d EXCEPT !.wallet[u] = @ - price]
-----------------------------------------------------------------------------
(* What the tables of a database say together.                             *)

(* Bid ids and bid slots are unique, every impression and every click      *)
(* belongs to a bid that exists, and a request id has one impression.      *)
Linked(d) ==
    /\ \A b1, b2 \in d.bids :
          b1.id = b2.id \/ (b1.user = b2.user /\ b1.slot = b2.slot) => b1 = b2
    /\ \A i \in d.impressions : BidsWithId(d, i.bid) # {}
    /\ \A c \in d.clicks : BidsWithId(d, c.bid) # {}
    /\ \A i1, i2 \in d.impressions : i1.rid = i2.rid => i1 = i2

(* Bids and bills are those of signed-up accounts.                         *)
Opened(d) ==
    /\ \A b \in d.bids : b.user \in d.accounts
    /\ \A u \in Users \ d.accounts : d.billed[u] = 0 /\ d.wallet[u] = 0

(* An impression was shown for the account that owns its bid.              *)
OwnQuotes(d) == \A i \in d.impressions, b \in d.bids :
    i.bid = b.id => i.user = b.user

InBalance(d) == \A u \in d.accounts : d.wallet[u] + d.billed[u] = SignupBalance

InRange(d) == \A u \in Users : d.wallet[u] \in 0..SignupBalance

ClickedOnce(d) == \A c1, c2 \in d.clicks :
    c1.bid = c2.bid /\ c1.rid = c2.rid /\ c1.rid # NoRequest => c1 = c2

AsQuoted(d) == \A c \in d.clicks :
    c.charged > 0 =>
        [rid |-> c.rid, bid |-> c.bid, user |-> c.user, price |-> c.charged]
            \in d.impressions

(* A database that the program can have left behind.                       *)
InOrder(d) ==
    /\ d \in Databases
    /\ Linked(d) /\ Opened(d) /\ OwnQuotes(d)
    /\ InBalance(d) /\ InRange(d) /\ ClickedOnce(d) /\ AsQuoted(d)
==============================================================================
