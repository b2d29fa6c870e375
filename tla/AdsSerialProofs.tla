---------------------------- MODULE AdsSerialProofs ----------------------------
(***************************************************************************)
(* What AdsStore promises when handlers do not overlap, for any number of  *)
(* requests, crashes and expiries of the phrase pool: the committed tables *)
(* are the books of ClickLedger and balance, what is confirmed is          *)
(* committed, and a cached phrase pool is current.                         *)
(*                                                                         *)
(* The invariant says where a handler alone stands against the file: it    *)
(* sees the file itself until it writes, what it read is still so, and at  *)
(* its COMMIT the connection's view is the file changed by one operation   *)
(* of the ledger.                                                          *)
(***************************************************************************)
EXTENDS AdsStoreProofs, FiniteSetTheorems

Serial == MaxOpen = 1 /\ IsFiniteSet(Https)

Resting == {"idle", "done"}

(* The steps outside of a transaction, and those at which nothing has been *)
(* written yet.                                                            *)
Outside == {"lookup", "signup", "session", "upsert", "unbid", "readback", "replay", "exact",
            "phrase", "begin", "again", "target", "owner"}
Settled == Outside \cup {"seen", "quote", "dupe", "quoted", "undo", "debit"}

(* What a handler knows of the file at each of its steps.                  *)
Reads(h) ==
    /\ pc[h] \in Outside => ~txn
    /\ pc[h] \in Settled => db = saved
    /\ pc[h] \in Selects /\ turns[h] # 0 => rows[h] = Selected(h)

Knows(h) ==
    LET r == req[h] IN
    /\ pc[h] = "signup" => r.user \notin saved.accounts
    /\ pc[h] = "upsert" => r.user \in saved.accounts /\ r.amount <= saved.wallet[r.user]
    /\ pc[h] = "readback" => \E b \in BidsAt(saved, r.user, r.slot) : b.amount = r.amount
    /\ r.kind = "search" /\ pc[h] \in {"phrase", "begin", "seen", "quote"}
         => held[h] \subseteq saved.bids

Bills(h) ==
    LET r == req[h] IN
    r.kind = "click" =>
      /\ pc[h] \in {"begin", "dupe", "quoted", "debit", "insert"}
           => held[h] = BidsWithId(saved, r.bid)
      /\ pc[h] \in {"target", "owner", "begin", "dupe", "quoted"} => charged[h] = 0
      /\ pc[h] = "debit" =>
           \E i \in QuotesOf(saved, r.rid) : i.bid = r.bid /\ i.price = charged[h]
      /\ pc[h] = "insert" => /\ \A b \in held[h] : charged[h] = Books!Due(b, r.rid)
                             /\ db = Debited(saved, Payer(h), charged[h])
      /\ pc[h] = "undo" => \E c \in saved.clicks : c.bid = r.bid /\ c.rid = r.rid

(* The one operation that a COMMIT makes of the file.                      *)
Changes(h) ==
    LET r == req[h] IN
    /\ r.kind = "register" => r.user \notin saved.accounts /\ db = SignedUp(saved, r.user)
    /\ r.kind = "place" =>
         /\ r.user \in saved.accounts /\ r.amount <= saved.wallet[r.user]
         /\ NextId(saved.bids) <= IdBound
         /\ db = Upserted(saved, r.user, r.slot, r.amount)
    /\ r.kind = "delete" =>
         LET gone == BidsAt(saved, r.user, r.slot) IN
         db = WithoutBids(saved, gone) /\ (gone # {} => charged[h] = 1)
    /\ r.kind = "search" =>
         \E b \in saved.bids : \E price \in 1..b.amount :
           LET i == [rid |-> r.rid, bid |-> b.id, user |-> b.user, price |-> price] IN
           CanShow(saved, i) /\ db = Shown(saved, i)
    /\ r.kind = "click" =>
         \E b \in BidsWithId(saved, r.bid) :
           LET c == [bid |-> b.id, rid |-> r.rid, user |-> b.user,
                     charged |-> Books!Due(b, r.rid)] IN
           CanClick(saved, c) /\ db = Clicked(Debited(saved, b.user, c.charged), c)

Stands(h) == Reads(h) /\ Knows(h) /\ Bills(h) /\ (pc[h] = "commit" => Changes(h))

(* At most one handler is in progress.                                     *)
TakeTurns ==
    /\ queue = <<>> => ~txn
    /\ \A t \in Https : pc[t] \notin Resting => queue = <<t>> /\ Stands(t)
    /\ queue # <<>> => \E t \in Https : queue = <<t>> /\ pc[t] \notin Resting
    /\ \A t \in Https : pc[t] = "idle" => charged[t] = 0

(* A pool that is set is that of the file.                                 *)
PoolFits(p, set, d) ==
    LET phrase == {b \in d.bids : b.slot \in PhraseSlots} IN
    set => Affordable(d, phrase) \subseteq p /\ p \subseteq phrase

(* No more ids were given out than requests could.                         *)
Spent(p) == {t \in Https : p[t] \in {"done", "commit", "readback"}}
IdsWithin(d, S) == \A b \in d.bids : b.id <= LastId + Cardinality(S)
Owned(d) == \A b \in d.bids : b.user \in d.accounts

Files ==
    /\ PoolFits(pool, pooled, saved)
    /\ IdsWithin(saved, Spent(pc)) /\ IdsWithin(db, Spent(pc))
    /\ Owned(saved)

Alone == TakeTurns /\ Files
-----------------------------------------------------------------------------
(* Turns.                                                                  *)

(* The handler whose turn it is, is alone.                                 *)
LEMMA MyTurn ==
    ASSUME Inv, Alone, NEW t \in Https, NEW step, Turn(t, step), step \notin Resting
    PROVE  /\ pc[t] = step /\ queue = <<t>> /\ Stands(t)
           /\ \A o \in Https : o # t => pc[o] \in Resting
<1>1. pc[t] = step
  BY DEF Turn
<1>2. queue = <<t>> /\ Stands(t)
  BY <1>1 DEF Alone, TakeTurns
<1>3. ASSUME NEW o \in Https, o # t PROVE pc[o] \in Resting
  <2>1. <<o>> # <<t>>
    BY <1>3
  <2> QED BY <1>2, <2>1 DEF Alone, TakeTurns
<1> QED BY <1>1, <1>2, <1>3

LEMMA GoesOn ==
    ASSUME Inv, Alone, NEW t \in Https, NEW step, Turn(t, step), step \notin Resting,
           NEW next, next \notin Resting, Goto(t, next), BearsAlone(t), Stands(t)'
    PROVE  TakeTurns'
<1>1. /\ queue = <<t>> /\ pc[t] = step
      /\ \A o \in Https : o # t => pc[o] \in Resting
  BY MyTurn
<1>2. queue' = <<t>>
  BY <1>1 DEF Goto
<1>3. pc \in [Https -> {"idle", "done"} \cup Steps] /\ charged \in [Https -> Nat]
  BY DEF Inv, HandlersOK
<1>4. pc'[t] = next /\ \A o \in Https : o # t => pc'[o] = pc[o] /\ charged'[o] = charged[o]
  BY <1>3 DEF Goto, BearsAlone
<1>5. queue' # <<>>
  BY <1>2
<1>6. \A o \in Https : pc'[o] = "idle" => charged'[o] = 0
  BY <1>1, <1>4 DEF Alone, TakeTurns, Resting
<1>7. \A o \in Https : pc'[o] \notin Resting => o = t
  BY <1>1, <1>4
<1> QED BY <1>2, <1>4, <1>5, <1>6, <1>7 DEF TakeTurns

LEMMA Answered ==
    ASSUME Inv, Alone, NEW t \in Https, NEW step, Turn(t, step), step \notin Resting,
           NEW answer, Reply(t, answer), BearsAlone(t), ~txn'
    PROVE  TakeTurns'
<1>1. /\ queue = <<t>> /\ pc[t] = step
      /\ \A o \in Https : o # t => pc[o] \in Resting
  BY MyTurn
<1>2. queue' = <<>>
  BY <1>1 DEF Reply
<1>3. pc \in [Https -> {"idle", "done"} \cup Steps] /\ charged \in [Https -> Nat]
  BY DEF Inv, HandlersOK
<1>4. pc'[t] = "done" /\ \A o \in Https : o # t => pc'[o] = pc[o] /\ charged'[o] = charged[o]
  BY <1>3 DEF Reply, BearsAlone
<1>5. \A o \in Https : pc'[o] \in Resting
  BY <1>1, <1>4 DEF Resting
<1>6. \A o \in Https : pc'[o] = "idle" => charged'[o] = 0
  BY <1>1, <1>4 DEF Alone, TakeTurns, Resting
<1> QED BY <1>2, <1>5, <1>6 DEF TakeTurns

(* The requests that may have been given an id only get more.              *)
LEMMA SpentGrows ==
    ASSUME Serial, NEW p, NEW o, Spent(p) \subseteq Spent(o)
    PROVE  /\ Cardinality(Spent(p)) \in Nat /\ Cardinality(Spent(o)) \in Nat
           /\ Cardinality(Spent(p)) <= Cardinality(Spent(o))
           /\ Cardinality(Spent(o)) <= Cardinality(Https)
<1>1. IsFiniteSet(Https) /\ Spent(o) \subseteq Https
  BY DEF Serial, Spent
<1>2. IsFiniteSet(Spent(o)) /\ IsFiniteSet(Spent(p))
  BY <1>1, FS_Subset
<1> QED BY <1>1, <1>2, FS_Subset, FS_CardinalityType

LEMMA IdsStayWithin ==
    ASSUME Serial, NEW d, NEW e, d.bids \subseteq Bids, e.bids \subseteq d.bids,
           NEW p, NEW o, Spent(p) \subseteq Spent(o), IdsWithin(d, Spent(p))
    PROVE  IdsWithin(e, Spent(o))
<1>1. \A b \in e.bids : b.id \in Nat /\ b.id <= LastId + Cardinality(Spent(p))
  BY DEF IdsWithin, Bids, Positive
<1> QED BY <1>1, SpentGrows, InitialAssumption DEF IdsWithin

LEMMA SpentByMove ==
    ASSUME Inv, NEW t \in Https, NEW next, pc' = [pc EXCEPT ![t] = next],
           pc[t] \in {"commit", "readback"} => next \in {"done", "readback"},
           pc[t] # "done"
    PROVE  Spent(pc) \subseteq Spent(pc)'
BY DEF Inv, HandlersOK, Spent

(* Reading changes no file.                                                *)
LEMMA FilesRead ==
    ASSUME Serial, Inv, Alone, Reading, UNCHANGED phrases, Spent(pc) \subseteq Spent(pc)'
    PROVE  Files'
<1>1. db.bids \subseteq Bids /\ saved.bids \subseteq Bids
  BY DEF Inv, StoreOK, Intact, Databases
<1>2. IdsWithin(saved, Spent(pc'))  /\ IdsWithin(db, Spent(pc'))
  BY <1>1, IdsStayWithin DEF Alone, Files, Spent
<1> QED BY <1>2 DEF Alone, Files, Reading, store, phrases, PoolFits, IdsWithin, Owned, Spent
-----------------------------------------------------------------------------
(* SELECTs.                                                                *)

LEMMA SelectedAgain ==
    ASSUME NEW t, db' = db, req' = req, pc'[t] = pc[t]
    PROVE  Selected(t)' = Selected(t)
BY DEF Selected

LEMMA SelectsAlone ==
    ASSUME Serial, Inv, Alone, NEW t \in Https, Execute(t) \/ Fetch(t)
    PROVE  Alone'
<1>1. PICK step \in Selects : Turn(t, step)
  BY DEF Execute, Fetch
<1>2. step \notin Resting
  BY DEF Selects, Resting
<1>3. /\ Reading /\ UNCHANGED phrases /\ UNCHANGED <<held, charged>> /\ Goto(t, pc[t])
  BY DEF Execute, Fetch, Reading
<1>4. pc[t] = step /\ Stands(t)
  BY <1>1, <1>2, MyTurn
<1>5. /\ pc \in [Https -> {"idle", "done"} \cup Steps] /\ turns \in [Https -> 0..2]
      /\ rows = [o \in Https |-> rows[o]]
  BY DEF Inv, HandlersOK
<1>6. pc' = pc /\ req' = req /\ db' = db /\ saved' = saved /\ txn' = txn
  BY <1>3, <1>5 DEF Goto, Reading, store
<1>7. rows'[t] = Selected(t) \/ (rows'[t] = rows[t] /\ turns[t] # 0)
  BY <1>5 DEF Execute, Fetch
<1>8. Selected(t)' = Selected(t)
  BY <1>6, SelectedAgain
<1>9. Reads(t)'
  <2>1. rows'[t] = Selected(t)
    BY <1>1, <1>4, <1>7 DEF Stands, Reads
  <2> QED BY <1>4, <1>6, <1>8, <2>1 DEF Stands, Reads
<1>10. Stands(t)'
  BY <1>3, <1>4, <1>6, <1>9 DEF Stands, Knows, Bills, Selects, Payer
<1>11. TakeTurns'
  BY <1>1, <1>2, <1>3, <1>4, <1>10, GoesOn, Unmoved
<1>12. Files'
  BY <1>3, <1>6, FilesRead
<1> QED BY <1>11, <1>12 DEF Alone
-----------------------------------------------------------------------------
(* Steps that go on from the rows of a SELECT.                             *)

(* What the rows are.                                                      *)
LEMMA SelectedIs ==
    ASSUME NEW t
    PROVE  LET r == req[t] IN
           /\ pc[t] = "lookup" => Selected(t) = db.accounts \cap {r.user}
           /\ pc[t] = "session" => Selected(t) = {db.wallet[u] : u \in db.accounts \cap {r.user}}
           /\ pc[t] = "readback" => Selected(t) = BidsAt(db, r.user, r.slot)
           /\ pc[t] \in {"replay", "again", "seen"} => Selected(t) = QuotesOf(db, r.rid)
           /\ pc[t] = "exact" =>
                Selected(t) = Affordable(db, {x \in db.bids : x.slot \in Hits[r.query] \ PhraseSlots})
           /\ pc[t] = "phrase" => Selected(t) = Affordable(db, {x \in db.bids : x.slot \in PhraseSlots})
           /\ pc[t] \in {"target", "owner"} => Selected(t) = BidsWithId(db, r.bid)
           /\ pc[t] = "dupe" => Selected(t) = ClicksOf(db, r.bid, r.rid)
           /\ pc[t] = "quoted" => Selected(t) = {i \in QuotesOf(db, r.rid) : i.bid = r.bid}
BY DEF Selected

(* At its close a cursor's rows are what the file has.                     *)
LEMMA RowsAreCurrent ==
    ASSUME Inv, Alone, NEW t \in Https, NEW from \in Selects, Closes(t, from)
    PROVE  /\ pc[t] = from /\ rows[t] = Selected(t) /\ db = saved /\ Stands(t)
           /\ from \in Outside => ~txn
           /\ Turn(t, from) /\ from \notin Resting
<1>1. Turn(t, from) /\ turns[t] = 1 /\ from \notin Resting
  BY DEF Closes, Selects, Resting
<1>2. pc[t] = from /\ Stands(t)
  BY <1>1, MyTurn
<1>3. from \in Settled
  BY DEF Selects, Settled, Outside
<1> QED BY <1>1, <1>2, <1>3 DEF Stands, Reads

LEMMA ClosesOn ==
    ASSUME Serial, Inv, Alone, NEW t \in Https, NEW from \in Selects, Closes(t, from),
           NEW next, Goto(t, next), next \notin Resting, next # "commit",
           from = "readback" => next = "readback",
           next \in Outside => from \in Outside,
           BearsAlone(t), Knows(t)', Bills(t)'
    PROVE  /\ TakeTurns'
           /\ UNCHANGED phrases => Alone'
<1>1. /\ pc[t] = from /\ db = saved /\ Stands(t) /\ (from \in Outside => ~txn)
      /\ Turn(t, from) /\ from \notin Resting
  BY RowsAreCurrent
<1>2. pc \in [Https -> {"idle", "done"} \cup Steps] /\ turns \in [Https -> 0..2]
  BY DEF Inv, HandlersOK
<1>3. pc'[t] = next /\ pc' = [pc EXCEPT ![t] = next]
  BY <1>2 DEF Goto
<1>4. Reading /\ turns'[t] = 0
  BY <1>2 DEF Closes
<1>5. db' = db /\ saved' = saved /\ txn' = txn
  BY <1>4 DEF Reading, store
<1>6. Reads(t)'
  BY <1>1, <1>3, <1>4, <1>5 DEF Reads
<1>7. Stands(t)'
  BY <1>3, <1>6 DEF Stands
<1>8. TakeTurns'
  BY <1>1, <1>7, GoesOn
<1>9. Spent(pc) \subseteq Spent(pc)'
  BY <1>1, <1>3, SpentByMove DEF Selects, Resting
<1>10. UNCHANGED phrases => Files'
  BY <1>4, <1>9, FilesRead
<1> QED BY <1>8, <1>10 DEF Alone

LEMMA ClosesOff ==
    ASSUME Serial, Inv, Alone, NEW t \in Https, NEW from \in Selects \cap Outside, Closes(t, from),
           NEW answer, Reply(t, answer), BearsAlone(t)
    PROVE  /\ TakeTurns'
           /\ UNCHANGED phrases => Alone'
<1>1. pc[t] = from /\ ~txn /\ Turn(t, from) /\ from \notin Resting
  BY RowsAreCurrent
<1>2. pc \in [Https -> {"idle", "done"} \cup Steps]
  BY DEF Inv, HandlersOK
<1>3. pc' = [pc EXCEPT ![t] = "done"]
  BY DEF Reply
<1>4. Reading /\ ~txn'
  BY <1>1 DEF Closes, Reading, store
<1>5. TakeTurns'
  BY <1>1, <1>4, Answered
<1>6. Spent(pc) \subseteq Spent(pc)'
  BY <1>1, <1>3, SpentByMove DEF Selects, Resting
<1>7. UNCHANGED phrases => Files'
  BY <1>4, <1>6, FilesRead
<1> QED BY <1>5, <1>7 DEF Alone

LEMMA LookedUpAlone ==
    ASSUME Serial, Inv, Alone, NEW t \in Https, LookedUp(t)
    PROVE  Alone'
<1>1. /\ Closes(t, "lookup") /\ "lookup" \in Selects \cap Outside
      /\ UNCHANGED phrases /\ UNCHANGED <<held, charged>> /\ BearsAlone(t)
  BY Unmoved DEF LookedUp, Selects, Outside
<1>2. /\ pc[t] = "lookup" /\ rows[t] = db.accounts \cap {req[t].user} /\ db = saved
      /\ req[t].kind = "register"
  BY <1>1, RowsAreCurrent, SelectedIs, KindOfStep
<1>3. CASE rows[t] = {}
  <2>1. Goto(t, "signup")
    BY <1>3 DEF LookedUp
  <2>2. pc'[t] = "signup" /\ req' = req /\ saved' = saved
    BY <1>1, <2>1 DEF Inv, HandlersOK, Goto, Closes, Reading, store
  <2>3. Knows(t)' /\ Bills(t)'
    BY <1>2, <1>3, <2>2 DEF Knows, Bills
  <2> QED BY <1>1, <2>1, <2>3, ClosesOn DEF Resting, Outside
<1>4. CASE rows[t] # {}
  BY <1>1, <1>4, ClosesOff DEF LookedUp
<1> QED BY <1>3, <1>4

LEMMA SessionAlone ==
    ASSUME Serial, Inv, Alone, NEW t \in Https, Session(t)
    PROVE  Alone'
<1>1. /\ Closes(t, "session") /\ "session" \in Selects \cap Outside
      /\ UNCHANGED phrases /\ UNCHANGED <<held, charged>> /\ BearsAlone(t)
  BY Unmoved DEF Session, Selects, Outside
<1>2. /\ pc[t] = "session" /\ db = saved /\ req[t].kind \in {"place", "delete"}
      /\ rows[t] = {db.wallet[u] : u \in db.accounts \cap {req[t].user}}
  BY <1>1, RowsAreCurrent, SelectedIs, KindOfStep
<1>3. CASE Reply(t, "refused")
  BY <1>1, <1>3, ClosesOff
<1>4. CASE rows[t] # {} /\ req[t].kind = "delete" /\ Goto(t, "unbid")
  <2>1. pc'[t] = "unbid" /\ req' = req
    BY <1>4 DEF Inv, HandlersOK, Goto
  <2>2. Knows(t)' /\ Bills(t)'
    BY <1>4, <2>1 DEF Knows, Bills
  <2> QED BY <1>1, <1>4, <2>2, ClosesOn DEF Resting, Outside
<1>5. CASE /\ rows[t] # {} /\ req[t].kind = "place" /\ Goto(t, "upsert")
           /\ ~ \E w \in rows[t] : req[t].amount > w
  <2>1. pc'[t] = "upsert" /\ req' = req /\ saved' = saved
    BY <1>1, <1>5 DEF Inv, HandlersOK, Goto, Closes, Reading, store
  <2>2. req[t].user \in saved.accounts /\ ~(req[t].amount > saved.wallet[req[t].user])
    BY <1>2, <1>5
  <2>3. req[t].amount \in Int /\ saved.wallet[req[t].user] \in Int
    <3>1. saved \in Databases /\ req[t].amount \in Positive /\ req[t].user \in Users
      BY <1>5, KindOfStep, Requested DEF Inv, StoreOK, Intact
    <3> QED BY <3>1 DEF Databases, Positive
  <2>4. Knows(t)' /\ Bills(t)'
    BY <1>5, <2>1, <2>2, <2>3 DEF Knows, Bills
  <2> QED BY <1>1, <1>5, <2>4, ClosesOn DEF Resting, Outside
<1>6. \/ Reply(t, "refused")
      \/ rows[t] # {} /\ req[t].kind = "delete" /\ Goto(t, "unbid")
      \/ /\ rows[t] # {} /\ req[t].kind = "place" /\ Goto(t, "upsert")
         /\ ~ \E w \in rows[t] : req[t].amount > w
  <2>1. CASE rows[t] = {}
    BY <2>1 DEF Session
  <2>2. CASE rows[t] # {} /\ req[t].kind = "delete"
    BY <2>2 DEF Session
  <2>3. CASE rows[t] # {} /\ req[t].kind = "place"
    BY <2>3 DEF Session
  <2> QED BY <1>2, <2>1, <2>2, <2>3
<1> QED BY <1>3, <1>4, <1>5, <1>6

LEMMA ReadbackAlone ==
    ASSUME Serial, Inv, Alone, NEW t \in Https, Readback(t)
    PROVE  Alone'
<1>1. /\ Closes(t, "readback") /\ "readback" \in Selects \cap Outside
      /\ UNCHANGED phrases /\ UNCHANGED <<held, charged>> /\ BearsAlone(t)
  BY Unmoved DEF Readback, Selects, Outside
<1> QED BY <1>1, ClosesOff DEF Readback

LEMMA ReplayedAlone ==
    ASSUME Serial, Inv, Alone, NEW t \in Https, Replayed(t) \/ Again(t)
    PROVE  Alone'
<1>1. PICK from \in {"replay", "again"} : Closes(t, from)
  BY DEF Replayed, Again
<1>2. from \in Selects \cap Outside /\ UNCHANGED phrases /\ BearsAlone(t)
  BY <1>1, Unmoved DEF Replayed, Again, Selects, Outside
<1>3. CASE Goto(t, "exact") /\ pc[t] = "replay"
  <2>1. req[t].kind = "search"
    BY <1>3, KindOfStep
  <2>2. pc'[t] = "exact" /\ req' = req
    BY <1>3 DEF Inv, HandlersOK, Goto
  <2>3. Knows(t)' /\ Bills(t)'
    BY <2>1, <2>2 DEF Knows, Bills
  <2>4. from = "replay"
    BY <1>1, <1>2, <1>3, RowsAreCurrent
  <2> QED BY <1>1, <1>2, <1>3, <2>3, <2>4, ClosesOn DEF Resting, Outside
<1>4. CASE Reply(t, "ok") \/ Reply(t, "refused")
  BY <1>1, <1>2, <1>4, ClosesOff
<1> QED BY <1>3, <1>4 DEF Replayed, Again, Closes, Turn

(* A search's candidates are bids of the file: so are the rows, and so is  *)
(* the pool.                                                               *)
LEMMA DecidesOn ==
    ASSUME Serial, Inv, Alone, NEW t \in Https, NEW from \in Selects \cap Outside,
           Closes(t, from), req[t].kind = "search", NEW C, C \subseteq saved.bids,
           Decide(t, C), UNCHANGED charged
    PROVE  /\ TakeTurns'
           /\ UNCHANGED phrases => Alone'
<1>1. held \in [Https -> SUBSET Bids] /\ charged \in [Https -> Nat] /\ saved.bids \subseteq Bids
  BY DEF Inv, HandlersOK, StoreOK, Intact, Databases
<1>2. held' = [held EXCEPT ![t] = C] /\ BearsAlone(t)
  BY <1>1 DEF Decide, BearsAlone
<1>3. CASE Reply(t, "refused")
  BY <1>2, <1>3, ClosesOff
<1>4. CASE Goto(t, "begin")
  <2>1. pc'[t] = "begin" /\ req' = req /\ saved' = saved /\ held'[t] = C
    BY <1>1, <1>2, <1>4 DEF Inv, HandlersOK, Goto, Closes, Reading, store
  <2>2. Knows(t)' /\ Bills(t)'
    BY <2>1 DEF Knows, Bills
  <2>3. from # "readback" /\ from \in Outside
    BY KindOfStep, RowsAreCurrent
  <2> QED BY <1>2, <1>4, <2>2, <2>3, ClosesOn DEF Resting
<1> QED BY <1>3, <1>4 DEF Decide

LEMMA ExactAlone ==
    ASSUME Serial, Inv, Alone, NEW t \in Https, Exact(t)
    PROVE  Alone'
<1>1. /\ Closes(t, "exact") /\ "exact" \in Selects \cap Outside
      /\ UNCHANGED phrases /\ UNCHANGED charged
  BY DEF Exact, Selects, Outside
<1>2. pc[t] = "exact" /\ req[t].kind = "search" /\ db = saved /\ rows[t] \subseteq saved.bids
  BY <1>1, RowsAreCurrent, SelectedIs, KindOfStep DEF Affordable
<1>3. CASE pooled
  <2> DEFINE C == rows[t] \cup Matching(t, pool)
  <2>1. pool \subseteq saved.bids
    BY <1>3 DEF Alone, Files, PoolFits
  <2>2. C \subseteq saved.bids /\ Decide(t, C)
    BY <1>2, <1>3, <2>1 DEF Matching, Exact
  <2> HIDE DEF C
  <2> QED BY <1>1, <1>2, <2>2, DecidesOn
<1>4. CASE ~pooled
  <2>1. held \in [Https -> SUBSET Bids] /\ charged \in [Https -> Nat] /\ saved.bids \subseteq Bids
    BY DEF Inv, HandlersOK, StoreOK, Intact, Databases
  <2>2. held' = [held EXCEPT ![t] = rows[t]] /\ Goto(t, "phrase")
    BY <1>4 DEF Exact
  <2>3. BearsAlone(t)
    BY <1>1, <1>2, <2>1, <2>2 DEF BearsAlone
  <2>4. pc'[t] = "phrase" /\ req' = req /\ saved' = saved /\ held'[t] = rows[t]
    BY <1>1, <2>1, <2>2 DEF Inv, HandlersOK, Goto, Closes, Reading, store
  <2>5. Knows(t)' /\ Bills(t)'
    BY <1>2, <2>4 DEF Knows, Bills
  <2> QED BY <1>1, <2>2, <2>3, <2>5, ClosesOn DEF Resting, Outside
<1> QED BY <1>3, <1>4

LEMMA PhraseAlone ==
    ASSUME Serial, Inv, Alone, NEW t \in Https, Phrase(t)
    PROVE  Alone'
<1> DEFINE C == held[t] \cup Matching(t, rows[t])
<1>1. /\ Closes(t, "phrase") /\ "phrase" \in Selects \cap Outside
      /\ UNCHANGED charged /\ Decide(t, C) /\ pool' = rows[t] /\ pooled' = TRUE
  BY DEF Phrase, Selects, Outside
<1>2. /\ pc[t] = "phrase" /\ req[t].kind = "search" /\ db = saved /\ Stands(t)
      /\ rows[t] = Affordable(saved, {x \in saved.bids : x.slot \in PhraseSlots})
  <2>1. pc[t] = "phrase" /\ rows[t] = Selected(t) /\ db = saved /\ Stands(t)
    BY <1>1, RowsAreCurrent
  <2>2. req[t].kind = "search"
    BY <2>1, KindOfStep
  <2>3. Selected(t) = Affordable(db, {x \in db.bids : x.slot \in PhraseSlots})
    BY <2>1, SelectedIs
  <2> QED BY <2>1, <2>2, <2>3
<1>3. C \subseteq saved.bids
  <2>1. held[t] \subseteq saved.bids
    BY <1>2 DEF Stands, Knows
  <2>2. rows[t] \subseteq saved.bids
    BY <1>2 DEF Affordable
  <2> QED BY <2>1, <2>2 DEF Matching
<1> HIDE DEF C
<1>4. TakeTurns'
  BY <1>1, <1>2, <1>3, DecidesOn
<1>5. PoolFits(pool, pooled, saved)'
  BY <1>1, <1>2 DEF Closes, Reading, store, PoolFits, Affordable
<1>6. Spent(pc) \subseteq Spent(pc)'
  <2>1. PICK next : pc' = [pc EXCEPT ![t] = next]
    BY <1>1 DEF Decide, Goto, Reply
  <2> QED BY <1>2, <2>1, SpentByMove
<1>7. db.bids \subseteq Bids /\ saved.bids \subseteq Bids
  BY DEF Inv, StoreOK, Intact, Databases
<1>8. IdsWithin(saved, Spent(pc'))  /\ IdsWithin(db, Spent(pc'))
  BY <1>6, <1>7, IdsStayWithin DEF Alone, Files, Spent
<1>9. Files'
  BY <1>1, <1>5, <1>8 DEF Alone, Files, Closes, Reading, store, IdsWithin, Owned, Spent
<1> QED BY <1>4, <1>9 DEF Alone

LEMMA SeenAlone ==
    ASSUME Serial, Inv, Alone, NEW t \in Https, Seen(t)
    PROVE  Alone'
<1>1. /\ Closes(t, "seen") /\ "seen" \in Selects /\ "seen" \notin Outside
      /\ UNCHANGED phrases /\ UNCHANGED <<held, charged>> /\ BearsAlone(t)
  BY Unmoved DEF Seen, Selects, Outside
<1>2. pc[t] = "seen" /\ req[t].kind = "search" /\ Stands(t)
  BY <1>1, RowsAreCurrent, KindOfStep
<1>3. PICK next \in {"quote", "undo"} : Goto(t, next)
  BY DEF Seen
<1>4. pc'[t] = next /\ req' = req /\ saved' = saved
  BY <1>1, <1>3 DEF Inv, HandlersOK, Goto, Closes, Reading, store
<1>5. Knows(t)' /\ Bills(t)'
  BY <1>1, <1>2, <1>4 DEF Stands, Knows, Bills
<1> QED BY <1>1, <1>3, <1>5, ClosesOn DEF Resting, Outside
-----------------------------------------------------------------------------
(* The same for clicks.                                                    *)
LEMMA TargetAlone ==
    ASSUME Serial, Inv, Alone, NEW t \in Https, Target(t)
    PROVE  Alone'
<1>1. /\ Closes(t, "target") /\ "target" \in Selects \cap Outside
      /\ UNCHANGED phrases /\ UNCHANGED <<held, charged>> /\ BearsAlone(t)
  BY Unmoved DEF Target, Selects, Outside
<1>2. pc[t] = "target" /\ req[t].kind = "click" /\ Stands(t)
  BY <1>1, RowsAreCurrent, KindOfStep
<1>3. CASE Goto(t, "owner")
  <2>1. pc'[t] = "owner" /\ req' = req /\ saved' = saved
    BY <1>1, <1>3 DEF Inv, HandlersOK, Goto, Closes, Reading, store
  <2>2. Knows(t)' /\ Bills(t)'
    BY <1>1, <1>2, <2>1 DEF Stands, Knows, Bills
  <2> QED BY <1>1, <1>3, <2>2, ClosesOn DEF Resting, Outside
<1>4. CASE Reply(t, "refused")
  BY <1>1, <1>4, ClosesOff
<1> QED BY <1>3, <1>4 DEF Target

LEMMA OwnerAlone ==
    ASSUME Serial, Inv, Alone, NEW t \in Https, Owner(t)
    PROVE  Alone'
<1>1. Closes(t, "owner") /\ "owner" \in Selects \cap Outside /\ UNCHANGED phrases
  BY DEF Owner, Selects, Outside
<1>2. /\ pc[t] = "owner" /\ req[t].kind = "click" /\ Stands(t)
      /\ rows[t] = BidsWithId(saved, req[t].bid)
  BY <1>1, RowsAreCurrent, SelectedIs, KindOfStep
<1>3. held \in [Https -> SUBSET Bids] /\ charged \in [Https -> Nat] /\ saved.bids \subseteq Bids
  BY DEF Inv, HandlersOK, StoreOK, Intact, Databases
<1>4. CASE rows[t] = {}
  <2>1. BearsAlone(t) /\ Reply(t, "refused")
    BY <1>4, Unmoved DEF Owner
  <2> QED BY <1>1, <2>1, ClosesOff
<1>5. CASE rows[t] # {}
  <2>1. Goto(t, "begin") /\ held' = [held EXCEPT ![t] = rows[t]] /\ charged' = charged
    BY <1>5 DEF Owner
  <2>2. BearsAlone(t)
    BY <1>2, <1>3, <2>1 DEF BearsAlone, BidsWithId
  <2>3. pc'[t] = "begin" /\ req' = req /\ saved' = saved /\ held'[t] = rows[t]
    BY <1>1, <1>3, <2>1 DEF Inv, HandlersOK, Goto, Closes, Reading, store
  <2>4. Knows(t)' /\ Bills(t)'
    BY <1>2, <2>1, <2>3 DEF Stands, Knows, Bills
  <2> QED BY <1>1, <2>1, <2>2, <2>4, ClosesOn DEF Resting, Outside
<1> QED BY <1>4, <1>5

LEMMA DupeAlone ==
    ASSUME Serial, Inv, Alone, NEW t \in Https, Dupe(t)
    PROVE  Alone'
<1>1. /\ Closes(t, "dupe") /\ "dupe" \in Selects /\ "dupe" \notin Outside
      /\ UNCHANGED phrases /\ held' = held
  BY DEF Dupe, Selects, Outside
<1>2. /\ pc[t] = "dupe" /\ req[t].kind = "click" /\ Stands(t)
      /\ rows[t] = ClicksOf(saved, req[t].bid, req[t].rid)
  BY <1>1, RowsAreCurrent, SelectedIs, KindOfStep
<1>3. /\ held \in [Https -> SUBSET Bids] /\ charged \in [Https -> Nat]
      /\ saved.clicks \subseteq Clicks
  BY DEF Inv, HandlersOK, StoreOK, Intact, Databases
<1>4. CASE rows[t] = {}
  <2>1. Goto(t, "quoted") /\ charged' = charged
    BY <1>4 DEF Dupe
  <2>2. BearsAlone(t)
    BY <1>1, <2>1, Unmoved
  <2>3. pc'[t] = "quoted" /\ req' = req /\ saved' = saved
    BY <1>1, <2>1 DEF Inv, HandlersOK, Goto, Closes, Reading, store
  <2>4. Knows(t)' /\ Bills(t)'
    BY <1>1, <1>2, <2>1, <2>3 DEF Stands, Knows, Bills
  <2> QED BY <1>1, <2>1, <2>2, <2>4, ClosesOn DEF Resting, Outside
<1>5. CASE rows[t] # {}
  <2>1. Goto(t, "undo")
    BY <1>5 DEF Dupe
  <2>2. PICK c \in rows[t] : charged' = [charged EXCEPT ![t] = c.charged]
    BY <1>5 DEF Dupe
  <2>3. c \in saved.clicks /\ c.bid = req[t].bid /\ c.rid = req[t].rid /\ c.charged \in Nat
    BY <1>2, <1>3 DEF ClicksOf, Clicks
  <2>4. BearsAlone(t)
    BY <1>1, <1>3, <2>2, <2>3 DEF BearsAlone
  <2>5. pc'[t] = "undo" /\ req' = req /\ saved' = saved
    BY <1>1, <2>1 DEF Inv, HandlersOK, Goto, Closes, Reading, store
  <2>6. Knows(t)' /\ Bills(t)'
    BY <1>2, <2>3, <2>5 DEF Knows, Bills
  <2> QED BY <1>1, <2>1, <2>4, <2>6, ClosesOn DEF Resting, Outside
<1> QED BY <1>4, <1>5

(* Nothing due is no debit.                                                *)
LEMMA NothingDue ==
    ASSUME NEW d \in Databases, NEW u \in Users
    PROVE  Debited(d, u, 0) = d
<1>1. d.wallet \in [Users -> Int] /\ d = [d EXCEPT !.wallet = d.wallet]
  BY DEF Databases
<1>2. d.wallet[u] - 0 = d.wallet[u]
  BY <1>1
<1>3. [d.wallet EXCEPT ![u] = @ - 0] = d.wallet
  BY <1>1, <1>2
<1> QED BY <1>1, <1>3 DEF Debited

LEMMA FreeClick ==
    ASSUME Inv, NEW t \in Https, held[t] = BidsWithId(saved, req[t].bid), held[t] # {},
           {i \in QuotesOf(saved, req[t].rid) : i.bid = req[t].bid} = {}
    PROVE  /\ \A b \in held[t] : Books!Due(b, req[t].rid) = 0
           /\ Debited(saved, Payer(t), 0) = saved
<1>1. \A b \in held[t] : b.id = req[t].bid
  BY DEF BidsWithId
<1>2. ASSUME NEW b \in held[t] PROVE Books!Due(b, req[t].rid) = 0
  <2>1. {i \in Books!QuotesOf(saved, req[t].rid) : i.bid = b.id} = {}
    BY <1>1 DEF Books!QuotesOf, QuotesOf
  <2> QED BY <2>1 DEF Books!Due
<1>3. saved \in Databases /\ Payer(t) \in Users
  BY PayerIsUser DEF Inv, StoreOK, Intact
<1> QED BY <1>2, <1>3, NothingDue

LEMMA QuotedAlone ==
    ASSUME Serial, Inv, Alone, NEW t \in Https, Quoted(t)
    PROVE  Alone'
<1>1. /\ Closes(t, "quoted") /\ "quoted" \in Selects /\ "quoted" \notin Outside
      /\ UNCHANGED phrases /\ held' = held
  BY DEF Quoted, Selects, Outside
<1>0. pc[t] = "quoted" /\ Stands(t) /\ db = saved /\ rows[t] = Selected(t)
  BY <1>1, RowsAreCurrent
<1>2. /\ pc[t] = "quoted" /\ req[t].kind = "click" /\ Stands(t) /\ db = saved
      /\ rows[t] = {i \in QuotesOf(saved, req[t].rid) : i.bid = req[t].bid}
  BY <1>0, SelectedIs, KindOfStep
<1>3. /\ held \in [Https -> SUBSET Bids] /\ charged \in [Https -> Nat]
      /\ saved.impressions \subseteq Impressions
  BY DEF Inv, HandlersOK, StoreOK, Intact, Databases
<1>4. held[t] # {} /\ held[t] = BidsWithId(saved, req[t].bid) /\ charged[t] = 0
  BY <1>2 DEF Inv, HandlersOK, HandlerOK, Stands, Bills
<1>5. CASE rows[t] = {}
  <2>1. Goto(t, "insert") /\ charged' = charged
    BY <1>5 DEF Quoted
  <2>2. BearsAlone(t)
    BY <1>1, <2>1, Unmoved
  <2>3. pc'[t] = "insert" /\ req' = req /\ saved' = saved /\ db' = saved
    BY <1>1, <1>2, <2>1 DEF Inv, HandlersOK, Goto, Closes, Reading, store
  <2>4. /\ \A b \in held[t] : Books!Due(b, req[t].rid) = 0
        /\ Debited(saved, Payer(t), 0) = saved
    BY <1>2, <1>4, <1>5, FreeClick
  <2>5. \A b : Books!Due(b, req[t].rid)' = Books!Due(b, req[t].rid)
    BY <2>3 DEF Books!Due
  <2>6. Payer(t)' = Payer(t)
    BY <1>1 DEF Payer
  <2>7. Knows(t)' /\ Bills(t)'
    BY <1>1, <1>2, <1>4, <2>1, <2>3, <2>4, <2>5, <2>6 DEF Knows, Bills
  <2> QED BY <1>1, <2>1, <2>2, <2>7, ClosesOn DEF Resting, Outside
<1>6. CASE rows[t] # {}
  <2>1. Goto(t, "debit")
    BY <1>6 DEF Quoted
  <2>2. PICK i \in rows[t] : charged' = [charged EXCEPT ![t] = i.price]
    BY <1>6 DEF Quoted
  <2>3. i \in QuotesOf(saved, req[t].rid) /\ i.bid = req[t].bid /\ i.price \in Nat
    BY <1>2, <1>3 DEF QuotesOf, Impressions, Positive
  <2>4. BearsAlone(t) /\ charged'[t] = i.price
    BY <1>1, <1>3, <2>2, <2>3 DEF BearsAlone
  <2>5. pc'[t] = "debit" /\ req' = req /\ saved' = saved
    BY <1>1, <2>1 DEF Inv, HandlersOK, Goto, Closes, Reading, store
  <2>6. Knows(t)' /\ Bills(t)'
    BY <1>1, <1>2, <1>4, <2>3, <2>4, <2>5 DEF Knows, Bills
  <2> QED BY <1>1, <2>1, <2>4, <2>6, ClosesOn DEF Resting, Outside
<1> QED BY <1>5, <1>6
-----------------------------------------------------------------------------
(* Writes.                                                                 *)

(* The ledger's operators on the tables are those of the tables.           *)
LEMMA SameTables ==
    ASSUME NEW d, NEW x, NEW y, NEW z
    PROVE  /\ Books!QuotesOf(d, x) = QuotesOf(d, x) /\ Books!NextId(x) = NextId(x)
           /\ Books!SignedUp(d, x) = SignedUp(d, x)
           /\ Books!Upserted(d, x, y, z) = Upserted(d, x, y, z)
           /\ Books!WithoutBids(d, x) = WithoutBids(d, x)
           /\ Books!CanShow(d, x) = CanShow(d, x) /\ Books!Shown(d, x) = Shown(d, x)
           /\ Books!CanClick(d, x) = CanClick(d, x) /\ Books!Clicked(d, x) = Clicked(d, x)
           /\ Books!Debited(d, x, y) = Debited(d, x, y)
BY DEF Books!QuotesOf, QuotesOf, Books!NextId, NextId, Books!SignedUp, SignedUp,
   Books!Upserted, Upserted, Books!BidsAt, BidsAt, Books!WithoutBids, WithoutBids,
   Books!CanShow, CanShow, Books!BidsWithId, BidsWithId, Books!Shown, Shown,
   Books!CanClick, CanClick, Books!ClicksOf, ClicksOf, Books!Clicked, Clicked,
   Books!Debited, Debited

(* A write leaves the file alone, and its handler with one thing to know.  *)
LEMMA WritesOn ==
    ASSUME Serial, Inv, Alone, NEW t \in Https, NEW from, Statement(t, from),
           from \notin Resting \cup {"commit", "readback"},
           NEW next \in {"commit", "rollback", "insert"}, Goto(t, next),
           BearsAlone(t), UNCHANGED phrases, UNCHANGED saved,
           IdsWithin(db', Spent(pc')),
           next = "commit" => Changes(t)',
           next = "insert" => Bills(t)'
    PROVE  Alone'
<1>1. Turn(t, from) /\ pc[t] = from
  BY DEF Statement, Turn
<1>2. pc \in [Https -> {"idle", "done"} \cup Steps]
  BY DEF Inv, HandlersOK
<1>3. pc' = [pc EXCEPT ![t] = next] /\ pc'[t] = next
  BY <1>2 DEF Goto
<1>4. Reads(t)' /\ Knows(t)' /\ (next # "insert" => Bills(t)')
  BY <1>3 DEF Reads, Knows, Bills, Outside, Settled, Selects
<1>5. Stands(t)'
  BY <1>3, <1>4 DEF Stands
<1>6. TakeTurns'
  BY <1>1, <1>5, GoesOn DEF Resting
<1>7. Spent(pc) \subseteq Spent(pc)'
  BY <1>1, <1>3, SpentByMove DEF Resting
<1>8. saved.bids \subseteq Bids
  BY DEF Inv, StoreOK, Intact, Databases
<1>9. IdsWithin(saved, Spent(pc'))
  BY <1>7, <1>8, IdsStayWithin DEF Alone, Files, Spent
<1>10. Files'
  BY <1>9 DEF Alone, Files, phrases, PoolFits, IdsWithin, Owned, Spent
<1> QED BY <1>6, <1>10 DEF Alone

(* Most writes give out no id.                                             *)
LEMMA NoNewIds ==
    ASSUME Serial, Inv, Alone, NEW t \in Https, pc[t] \notin {"commit", "readback", "done"},
           NEW next, Goto(t, next), db'.bids \subseteq db.bids
    PROVE  IdsWithin(db', Spent(pc'))
<1>1. Spent(pc) \subseteq Spent(pc')
  <2>1. pc' = [pc EXCEPT ![t] = next]
    BY DEF Goto
  <2>2. Spent(pc) \subseteq Spent(pc)'
    BY <2>1, SpentByMove
  <2> QED BY <2>2 DEF Spent
<1>2. db.bids \subseteq Bids
  BY DEF Inv, StoreOK, Intact, Databases
<1> QED BY <1>1, <1>2, IdsStayWithin DEF Alone, Files

LEMMA SignupAlone ==
    ASSUME Serial, Inv, Alone, NEW t \in Https, Signup(t)
    PROVE  Alone'
<1>1. /\ Statement(t, "signup") /\ UNCHANGED phrases /\ UNCHANGED <<held, charged>>
      /\ BearsAlone(t) /\ "signup" \notin Resting \cup {"commit", "readback"}
  BY Unmoved DEF Signup, locals, Resting
<1>2. /\ pc[t] = "signup" /\ db = saved /\ req[t].user \notin saved.accounts
      /\ req[t].kind = "register"
  BY <1>1, MyTurn, KindOfStep DEF Statement, Stands, Reads, Knows, Settled, Outside
<1>3. Write(SignedUp(db, req[t].user)) /\ Goto(t, "commit")
  BY <1>2 DEF Signup
<1>4. saved' = saved /\ req' = req /\ db' = SignedUp(saved, req[t].user)
  BY <1>2, <1>3 DEF Write, Goto
<1>5. Changes(t)'
  BY <1>2, <1>4 DEF Changes
<1>6. db'.bids = db.bids
  BY <1>2, <1>4 DEF Inv, StoreOK, Intact, Databases, SignedUp
<1>7. IdsWithin(db', Spent(pc'))
  BY <1>2, <1>3, <1>6, NoNewIds
<1> QED BY <1>1, <1>3, <1>4, <1>5, <1>7, WritesOn

(* A bid's id is at most one more than the ids given out, and its handler  *)
(* is one more that was given one.                                         *)
LEMMA UpsertAlone ==
    ASSUME Serial, Inv, Alone, NEW t \in Https, Upsert(t)
    PROVE  Alone'
<1> DEFINE r == req[t]
           n == LastId + Cardinality(Spent(pc))
<1>1. /\ Statement(t, "upsert") /\ UNCHANGED phrases /\ UNCHANGED <<held, charged>>
      /\ BearsAlone(t) /\ "upsert" \notin Resting \cup {"commit", "readback"}
      /\ Goto(t, "commit") /\ Write(Upserted(db, r.user, r.slot, r.amount))
  BY Unmoved DEF Upsert, locals, Resting
<1>2. /\ pc[t] = "upsert" /\ db = saved /\ r.kind = "place"
      /\ r.user \in saved.accounts /\ r.amount <= saved.wallet[r.user]
  BY <1>1, MyTurn, KindOfStep DEF Statement, Stands, Reads, Knows, Settled, Outside
<1>3. /\ r.user \in Users /\ r.slot \in Slots /\ r.amount \in Positive
      /\ saved \in Databases /\ saved.bids \subseteq Bids
  BY <1>2, KindOfStep, Requested DEF Inv, StoreOK, Intact, Databases
<1>4. saved' = saved /\ req' = req /\ db' = Upserted(saved, r.user, r.slot, r.amount)
  BY <1>1, <1>2 DEF Write, Goto
<1>5. Spent(pc') = Spent(pc) \cup {t} /\ t \notin Spent(pc)
  BY <1>1, <1>2 DEF Inv, HandlersOK, Goto, Spent
<1>6. /\ Cardinality(Spent(pc)) \in Nat /\ Cardinality(Spent(pc')) = Cardinality(Spent(pc)) + 1
      /\ Cardinality(Spent(pc')) <= Cardinality(Https)
      /\ Cardinality(Https) \in Nat
  <2>1. IsFiniteSet(Spent(pc)) /\ IsFiniteSet(Https)
    BY FS_Subset DEF Serial, Spent
  <2>2. Spent(pc) \subseteq Spent(pc')
    BY <1>5
  <2> QED BY <1>5, <2>1, <2>2, FS_AddElement, FS_CardinalityType, SpentGrows
<1>7. n \in Nat /\ \A b \in saved.bids : b.id <= n
  BY <1>6, InitialAssumption DEF Alone, Files, IdsWithin
<1>8. NextId(saved.bids) \in Nat /\ NextId(saved.bids) <= n + 1
  BY <1>3, <1>7, NextIdFresh DEF Positive
<1>9. NextId(saved.bids) <= IdBound
  BY <1>6, <1>8, InitialAssumption DEF IdBound
<1>10. Changes(t)'
  BY <1>2, <1>4, <1>9 DEF Changes
<1>11. IdsWithin(db', Spent(pc'))
  <2> SUFFICES ASSUME NEW y \in db'.bids PROVE y.id <= LastId + Cardinality(Spent(pc'))
    BY DEF IdsWithin
  <2>1. y.id = NextId(saved.bids) \/ \E b \in saved.bids : y.id = b.id
    BY <1>3, <1>4, UpsertedRows
  <2>2. \A b \in saved.bids : b.id \in Nat
    BY <1>3 DEF Bids, Positive
  <2> QED BY <1>6, <1>7, <1>8, <2>1, <2>2, InitialAssumption
<1> QED BY <1>1, <1>4, <1>10, <1>11, WritesOn

LEMMA UnbidAlone ==
    ASSUME Serial, Inv, Alone, NEW t \in Https, Unbid(t)
    PROVE  Alone'
<1> DEFINE r == req[t]
           gone == BidsAt(db, r.user, r.slot)
<1>1. /\ Statement(t, "unbid") /\ UNCHANGED phrases /\ Goto(t, "commit")
      /\ "unbid" \notin Resting \cup {"commit", "readback"}
      /\ Write(WithoutBids(db, gone)) /\ held' = held
      /\ charged' = [charged EXCEPT ![t] = IF gone = {} THEN 0 ELSE 1]
  BY DEF Unbid, Resting
<1>2. pc[t] = "unbid" /\ db = saved /\ r.kind = "delete"
  BY <1>1, MyTurn, KindOfStep DEF Statement, Stands, Reads, Settled, Outside
<1>3. held \in [Https -> SUBSET Bids] /\ charged \in [Https -> Nat] /\ saved \in Databases
  BY DEF Inv, HandlersOK, StoreOK, Intact
<1>4. BearsAlone(t) /\ (gone # {} => charged'[t] = 1)
  BY <1>1, <1>3 DEF BearsAlone
<1>5. saved' = saved /\ req' = req /\ db' = WithoutBids(saved, gone)
  BY <1>1, <1>2 DEF Write, Goto
<1>6. Changes(t)'
  BY <1>2, <1>4, <1>5 DEF Changes
<1>7. db'.bids \subseteq db.bids
  BY <1>2, <1>3, <1>5 DEF WithoutBids, Databases
<1>8. IdsWithin(db', Spent(pc'))
  BY <1>1, <1>2, <1>7, NoNewIds
<1> QED BY <1>1, <1>4, <1>5, <1>6, <1>8, WritesOn

LEMMA QuoteAlone ==
    ASSUME Serial, Inv, Alone, NEW t \in Https, Quote(t)
    PROVE  Alone'
<1>1. /\ Statement(t, "quote") /\ UNCHANGED phrases /\ charged' = charged
      /\ "quote" \notin Resting \cup {"commit", "readback"}
      /\ held' = [held EXCEPT ![t] = {}]
  BY DEF Quote, Resting
<1>2. PICK w \in Leaders(held[t]) :
        LET i == [rid |-> req[t].rid, bid |-> w.id, user |-> w.user,
                  price |-> Price(held[t], w)] IN
        IF CanShow(db, i)
          THEN Write(Shown(db, i)) /\ Goto(t, "commit")
          ELSE WriteNothing /\ Goto(t, "rollback")
  BY DEF Quote
<1> DEFINE i == [rid |-> req[t].rid, bid |-> w.id, user |-> w.user,
                 price |-> Price(held[t], w)]
<1>3. pc[t] = "quote" /\ db = saved /\ req[t].kind = "search" /\ Stands(t)
  BY <1>1, MyTurn, KindOfStep DEF Statement, Stands, Reads, Settled, Outside
<1>4. held[t] \subseteq saved.bids
  BY <1>3 DEF Stands, Knows
<1>5. held \in [Https -> SUBSET Bids] /\ charged \in [Https -> Nat] /\ saved \in Databases
  BY DEF Inv, HandlersOK, StoreOK, Intact
<1>6. BearsAlone(t)
  BY <1>1, <1>5 DEF BearsAlone
<1>7. w \in saved.bids /\ Price(held[t], w) \in 1..w.amount
  <2>1. HasAmounts(held[t]) /\ w \in held[t]
    BY <1>5 DEF Leaders, HasAmounts, Bids, Positive
  <2> QED BY <1>4, <2>1, PriceWithinBid
<1>8. CASE CanShow(db, i)
  <2>1. Write(Shown(db, i)) /\ Goto(t, "commit")
    BY <1>2, <1>8
  <2>2. saved' = saved /\ req' = req /\ db' = Shown(saved, i)
    BY <1>3, <2>1 DEF Write, Goto
  <2>3. \E b \in saved.bids : \E price \in 1..b.amount :
          LET j == [rid |-> req[t].rid, bid |-> b.id, user |-> b.user, price |-> price] IN
          CanShow(saved, j) /\ db' = Shown(saved, j)
    BY <1>3, <1>7, <1>8, <2>2
  <2>4. Changes(t)'
    BY <1>3, <2>2, <2>3 DEF Changes
  <2>5. db'.bids \subseteq db.bids
    BY <1>3, <1>5, <2>2 DEF Shown, Databases
  <2>6. IdsWithin(db', Spent(pc'))
    BY <1>3, <2>1, <2>5, NoNewIds
  <2> QED BY <1>1, <1>6, <2>1, <2>2, <2>4, <2>6, WritesOn
<1>9. CASE ~CanShow(db, i)
  <2>1. WriteNothing /\ Goto(t, "rollback")
    BY <1>2, <1>9
  <2>2. saved' = saved /\ db' = db
    BY <2>1 DEF WriteNothing, Write
  <2>3. IdsWithin(db', Spent(pc'))
    BY <1>3, <2>1, <2>2, NoNewIds
  <2> QED BY <1>1, <1>6, <2>1, <2>2, <2>3, WritesOn
<1> QED BY <1>8, <1>9

LEMMA BeginAlone ==
    ASSUME Serial, Inv, Alone, NEW t \in Https, Begin(t)
    PROVE  Alone'
<1>1. /\ Statement(t, "begin") /\ Turn(t, "begin") /\ "begin" \notin Resting
      /\ UNCHANGED phrases /\ UNCHANGED <<rows, held, charged>> /\ turns' = turns
      /\ BearsAlone(t)
  BY Unmoved DEF Begin, Statement, locals, Resting
<1>2. /\ pc[t] = "begin" /\ ~txn /\ db = saved /\ Stands(t)
      /\ req[t].kind \in {"search", "click"}
  BY <1>1, MyTurn, KindOfStep DEF Stands, Reads, Settled, Outside
<1>3. db' = db /\ saved' = saved
  BY <1>2 DEF Begin
<1>4. PICK next \in {"seen", "dupe", "insert"} :
        /\ Goto(t, next)
        /\ next = "seen" => req[t].kind = "search"
        /\ next \in {"dupe", "insert"} => req[t].kind = "click"
        /\ next = "insert" => req[t].rid = NoRequest
  BY <1>2 DEF Begin
<1>5. /\ pc \in [Https -> {"idle", "done"} \cup Steps] /\ turns[t] = 0
      /\ HandlerOK(t) /\ saved.impressions \subseteq Impressions
  BY <1>2 DEF Inv, HandlersOK, HandlerOK, Selects, StoreOK, Intact, Databases
<1>6. pc'[t] = next /\ req' = req /\ pc' = [pc EXCEPT ![t] = next]
  BY <1>4, <1>5 DEF Goto
<1>7. Reads(t)'
  BY <1>1, <1>2, <1>3, <1>5, <1>6 DEF Reads, Outside, Settled
<1>8. Knows(t)'
  BY <1>1, <1>2, <1>3, <1>6 DEF Stands, Knows
<1>9. Bills(t)'
  <2>1. CASE next = "insert"
    <3>1. held[t] = BidsWithId(saved, req[t].bid) /\ held[t] # {} /\ charged[t] = 0
      BY <1>2, <1>4, <1>5, <2>1 DEF Stands, Bills, HandlerOK
    <3>2. {i \in QuotesOf(saved, req[t].rid) : i.bid = req[t].bid} = {}
      BY <1>4, <1>5, <2>1, RequestAssumption DEF QuotesOf, Impressions
    <3>3. /\ \A b \in held[t] : Books!Due(b, req[t].rid) = 0
          /\ Debited(saved, Payer(t), 0) = saved
      BY <3>1, <3>2, FreeClick
    <3>4. \A b : Books!Due(b, req[t].rid)' = Books!Due(b, req[t].rid)
      BY <1>3, <1>6 DEF Books!Due
    <3>5. Payer(t)' = Payer(t)
      BY <1>1 DEF Payer
    <3> QED BY <1>1, <1>2, <1>3, <1>6, <2>1, <3>1, <3>3, <3>4, <3>5 DEF Bills
  <2>2. CASE next # "insert"
    BY <1>1, <1>2, <1>3, <1>6, <2>2 DEF Stands, Bills
  <2> QED BY <2>1, <2>2
<1>10. Stands(t)'
  BY <1>6, <1>7, <1>8, <1>9 DEF Stands
<1>11. TakeTurns'
  BY <1>1, <1>4, <1>10, GoesOn DEF Resting
<1>12. IdsWithin(db', Spent(pc'))
  BY <1>2, <1>3, <1>4, NoNewIds
<1>13. Files'
  BY <1>1, <1>2, <1>3, <1>12 DEF Alone, Files, phrases, PoolFits, IdsWithin, Owned, Spent
<1> QED BY <1>11, <1>13 DEF Alone

(* A click's bid and its quote are the only ones, so its debit is what the *)
(* ledger says is due.                                                     *)
LEMMA DueIs ==
    ASSUME Inv, NEW t \in Https, held[t] = BidsWithId(saved, req[t].bid), held[t] # {},
           NEW i \in QuotesOf(saved, req[t].rid), i.bid = req[t].bid, NEW b \in held[t]
    PROVE  /\ b.user = Payer(t) /\ b.id = req[t].bid
           /\ Books!Due(b, req[t].rid) =
                IF i.price <= saved.wallet[Payer(t)] THEN i.price ELSE 0
<1>1. Linked(saved)
  BY DEF Inv, StoreOK, Intact
<1>2. b.id = req[t].bid /\ b = CHOOSE x \in held[t] : TRUE
  <2>1. \A x, y \in held[t] : x = y
    BY <1>1 DEF Linked, BidsWithId
  <2> QED BY <2>1 DEF BidsWithId
<1>3. b.user = Payer(t)
  BY <1>2 DEF Payer
<1> DEFINE quotes == {j \in Books!QuotesOf(saved, req[t].rid) : j.bid = b.id}
<1>4. quotes = {i}
  <2>1. i \in quotes
    BY <1>2 DEF Books!QuotesOf, QuotesOf
  <2>2. \A j \in quotes : j = i
    BY <1>1 DEF Books!QuotesOf, QuotesOf, Linked
  <2> QED BY <2>1, <2>2
<1>5. Books!Due(b, req[t].rid) =
        IF \E j \in {i} : j.price <= saved.wallet[b.user]
          THEN (CHOOSE j \in {i} : j.price <= saved.wallet[b.user]).price ELSE 0
  BY <1>4 DEF Books!Due
<1>6. i.price <= saved.wallet[b.user] => (CHOOSE j \in {i} : j.price <= saved.wallet[b.user]) = i
  OBVIOUS
<1> QED BY <1>2, <1>3, <1>5, <1>6

LEMMA DebitAlone ==
    ASSUME Serial, Inv, Alone, NEW t \in Https, Debit(t)
    PROVE  Alone'
<1>1. /\ Statement(t, "debit") /\ UNCHANGED phrases /\ held' = held /\ Goto(t, "insert")
      /\ "debit" \notin Resting \cup {"commit", "readback"}
  BY DEF Debit, Resting
<1>2. pc[t] = "debit" /\ db = saved /\ req[t].kind = "click" /\ Stands(t)
  BY <1>1, MyTurn, KindOfStep DEF Statement, Stands, Reads, Settled, Outside
<1>3. /\ held \in [Https -> SUBSET Bids] /\ charged \in [Https -> Nat] /\ saved \in Databases
      /\ held[t] # {} /\ held[t] = BidsWithId(saved, req[t].bid)
  BY <1>2 DEF Inv, HandlersOK, HandlerOK, StoreOK, Intact, Stands, Bills
<1>4. PICK i \in QuotesOf(saved, req[t].rid) : i.bid = req[t].bid /\ i.price = charged[t]
  BY <1>2 DEF Stands, Bills
<1>5. Payer(t) \in Users /\ saved.wallet[Payer(t)] \in Int
  BY <1>3, PayerIsUser DEF Databases
<1> DEFINE pays == charged[t] <= saved.wallet[Payer(t)]
<1>6. /\ charged' = [charged EXCEPT ![t] = IF pays THEN charged[t] ELSE 0]
      /\ db' = Debited(saved, Payer(t), charged'[t])
      /\ saved' = saved
  <2>1. CASE pays
    <3>1. Write(Debited(saved, Payer(t), charged[t])) /\ charged' = charged
      BY <1>2, <1>3, <1>5, <2>1 DEF Debit
    <3> QED BY <1>3, <2>1, <3>1 DEF Write
  <2>2. CASE ~pays
    <3>1. WriteNothing /\ charged' = [charged EXCEPT ![t] = 0]
      BY <1>2, <1>3, <1>5, <2>2 DEF Debit
    <3>2. charged'[t] = 0 /\ Debited(saved, Payer(t), 0) = saved
      BY <1>3, <1>5, <3>1, NothingDue
    <3> QED BY <1>2, <1>3, <2>2, <3>1, <3>2 DEF WriteNothing, Write
  <2> QED BY <2>1, <2>2
<1>7. charged'[t] = IF pays THEN charged[t] ELSE 0
  BY <1>3, <1>6
<1>8. BearsAlone(t)
  BY <1>1, <1>3, <1>6 DEF BearsAlone
<1>9. \A b \in held[t] : charged'[t] = Books!Due(b, req[t].rid)
  BY <1>3, <1>4, <1>7, DueIs
<1>10. pc'[t] = "insert" /\ req' = req
  BY <1>1 DEF Inv, HandlersOK, Goto
<1>11. \A b : Books!Due(b, req[t].rid)' = Books!Due(b, req[t].rid)
  BY <1>6, <1>10 DEF Books!Due
<1>12. Payer(t)' = Payer(t)
  BY <1>1 DEF Payer
<1>13. Bills(t)'
  BY <1>1, <1>2, <1>3, <1>6, <1>9, <1>10, <1>11, <1>12 DEF Bills
<1>14. db'.bids \subseteq db.bids
  BY <1>2, <1>3, <1>6 DEF Debited, Databases
<1>15. IdsWithin(db', Spent(pc'))
  BY <1>1, <1>2, <1>14, NoNewIds
<1> QED BY <1>1, <1>6, <1>8, <1>13, <1>15, WritesOn

LEMMA InsertAlone ==
    ASSUME Serial, Inv, Alone, NEW t \in Https, Insert(t)
    PROVE  Alone'
<1> DEFINE c == [bid |-> req[t].bid, rid |-> req[t].rid, user |-> Payer(t),
                 charged |-> charged[t]]
<1>1. /\ Statement(t, "insert") /\ UNCHANGED phrases /\ UNCHANGED <<held, charged>>
      /\ BearsAlone(t) /\ "insert" \notin Resting \cup {"commit", "readback"}
  BY Unmoved DEF Insert, locals, Resting
<1>2. pc[t] = "insert" /\ req[t].kind = "click" /\ Stands(t)
  BY <1>1, MyTurn, KindOfStep DEF Statement
<1>3. /\ held[t] # {} /\ held[t] = BidsWithId(saved, req[t].bid)
      /\ \A b \in held[t] : charged[t] = Books!Due(b, req[t].rid)
      /\ db = Debited(saved, Payer(t), charged[t])
      /\ saved \in Databases /\ db \in Databases
  BY <1>2 DEF Inv, HandlersOK, HandlerOK, StoreOK, Intact, Stands, Bills
<1>4. db.bids = saved.bids /\ db.clicks = saved.clicks
  BY <1>3 DEF Debited, Databases
<1>5. CASE CanClick(db, c)
  <2>1. Write(Clicked(db, c)) /\ Goto(t, "commit")
    BY <1>5 DEF Insert
  <2>2. saved' = saved /\ req' = req /\ db' = Clicked(db, c)
    BY <2>1 DEF Write, Goto
  <2> DEFINE b == CHOOSE x \in held[t] : TRUE
  <2>3. b \in BidsWithId(saved, req[t].bid) /\ b.user = Payer(t) /\ b.id = req[t].bid
    BY <1>3 DEF Payer, BidsWithId
  <2>4. charged[t] = Books!Due(b, req[t].rid)
    BY <1>3
  <2>5. \A x : Books!Due(x, req[t].rid)' = Books!Due(x, req[t].rid)
    BY <2>2 DEF Books!Due
  <2>6. CanClick(saved, c)
    BY <1>4, <1>5 DEF CanClick, ClicksOf, BidsWithId
  <2> HIDE DEF b
  <2>7. \E x \in BidsWithId(saved, req[t].bid) :
          LET k == [bid |-> x.id, rid |-> req[t].rid, user |-> x.user,
                    charged |-> Books!Due(x, req[t].rid)] IN
          CanClick(saved, k) /\ db' = Clicked(Debited(saved, x.user, k.charged), k)
    <3> DEFINE k == [bid |-> b.id, rid |-> req[t].rid, user |-> b.user,
                     charged |-> Books!Due(b, req[t].rid)]
    <3>1. k = c
      BY <2>3, <2>4
    <3> HIDE DEF k, c
    <3>2. CanClick(saved, k) /\ db' = Clicked(Debited(saved, b.user, charged[t]), k)
      BY <1>3, <2>2, <2>3, <2>6, <3>1
    <3> USE DEF k
    <3> QED BY <2>3, <2>4, <3>2
  <2>8. Changes(t)'
    BY <1>2, <2>2, <2>5, <2>7 DEF Changes
  <2>9. db'.bids \subseteq db.bids
    BY <1>3, <2>2 DEF Clicked, Databases
  <2>10. IdsWithin(db', Spent(pc'))
    BY <1>2, <2>1, <2>9, NoNewIds
  <2> QED BY <1>1, <2>1, <2>2, <2>8, <2>10, WritesOn
<1>6. CASE ~CanClick(db, c)
  <2>1. WriteNothing /\ Goto(t, "rollback")
    BY <1>6 DEF Insert
  <2>2. saved' = saved /\ db' = db
    BY <2>1 DEF WriteNothing, Write
  <2>3. IdsWithin(db', Spent(pc'))
    BY <1>2, <2>1, <2>2, NoNewIds
  <2> QED BY <1>1, <2>1, <2>2, <2>3, WritesOn
<1> QED BY <1>5, <1>6
-----------------------------------------------------------------------------
(* The ends of the transactions.                                           *)

(* What a COMMIT is about to write keeps every bid its owner's account.    *)
LEMMA OwnersStay ==
    ASSUME Inv, NEW t \in Https, Changes(t), Owned(saved)
    PROVE  Owned(db)
<1>1. /\ saved \in Databases /\ req[t] \in Requests /\ req[t].kind \in Kinds
  BY KindOfStep DEF Inv, StoreOK, Intact
<1>2. CASE req[t].kind = "register"
  <2>1. db = SignedUp(saved, req[t].user)
    BY <1>2 DEF Changes
  <2>2. db.bids = saved.bids /\ saved.accounts \subseteq db.accounts
    BY <1>1, <2>1 DEF SignedUp, Databases
  <2> QED BY <2>2 DEF Owned
<1>3. CASE req[t].kind = "place"
  <2>1. /\ req[t].user \in saved.accounts /\ req[t].user \in Users /\ req[t].slot \in Slots
        /\ req[t].amount \in Positive
        /\ db = Upserted(saved, req[t].user, req[t].slot, req[t].amount)
    BY <1>1, <1>3, Requested DEF Changes
  <2>2. db.accounts = saved.accounts
    BY <1>1, <2>1 DEF Upserted, Databases
  <2>3. \A y \in db.bids : y.user = req[t].user \/ \E b \in saved.bids : y.user = b.user
    BY <1>1, <2>1, UpsertedRows
  <2> QED BY <2>1, <2>2, <2>3 DEF Owned
<1>4. CASE req[t].kind = "delete"
  <2>1. db.bids \subseteq saved.bids /\ db.accounts = saved.accounts
    BY <1>1, <1>4 DEF Changes, WithoutBids, Databases
  <2> QED BY <2>1 DEF Owned
<1>5. CASE req[t].kind = "search"
  <2>1. db.bids = saved.bids /\ db.accounts = saved.accounts
    BY <1>1, <1>5 DEF Changes, Shown, Databases
  <2> QED BY <2>1 DEF Owned
<1>6. CASE req[t].kind = "click"
  <2>1. db.bids = saved.bids /\ db.accounts = saved.accounts
    BY <1>1, <1>6 DEF Changes, Clicked, Debited, Databases
  <2> QED BY <2>1 DEF Owned
<1> QED BY <1>1, <1>2, <1>3, <1>4, <1>5, <1>6 DEF Kinds

(* A pool over the same phrase bids still fits when no wallet that owns    *)
(* one of them grew.                                                       *)
LEMMA PoolStays ==
    ASSUME NEW d \in Databases, NEW e \in Databases, NEW p, NEW set, PoolFits(p, set, d),
           {b \in d.bids : b.slot \in PhraseSlots} = {b \in e.bids : b.slot \in PhraseSlots},
           \A b \in e.bids : e.wallet[b.user] <= d.wallet[b.user]
    PROVE  PoolFits(p, set, e)
<1> DEFINE phrase(x) == {b \in x.bids : b.slot \in PhraseSlots}
<1>1. \A b \in phrase(e) : /\ b.amount \in Int
                           /\ e.wallet[b.user] \in Int /\ d.wallet[b.user] \in Int
                           /\ e.wallet[b.user] <= d.wallet[b.user]
  BY DEF Databases, Bids, Positive
<1>2. Affordable(e, phrase(e)) \subseteq Affordable(d, phrase(d))
  BY <1>1 DEF Affordable
<1> QED BY <1>2 DEF PoolFits

LEMMA DueIsNat ==
    ASSUME Inv, NEW b, NEW r
    PROVE  Books!Due(b, r) \in Nat
<1>1. \A i \in saved.impressions : i.price \in Nat
  BY DEF Inv, StoreOK, Intact, Databases, Impressions, Positive
<1> QED BY <1>1 DEF Books!Due, Books!QuotesOf

(* A COMMIT that leaves the cached pool alone leaves it current.           *)
LEMMA PoolOutlivesCommit ==
    ASSUME Inv, NEW t \in Https, Changes(t), Owned(saved), ~Invalidates(t),
           PoolFits(pool, pooled, saved)
    PROVE  PoolFits(pool, pooled, db)
<1>1. /\ saved \in Databases /\ db \in Databases /\ req[t] \in Requests
      /\ req[t].kind \in Kinds
  BY KindOfStep DEF Inv, StoreOK, Intact
<1>2. /\ \A u \in Users : saved.wallet[u] <= saved.wallet[u]
      /\ \A b \in saved.bids : b.user \in Users
      /\ \A b \in db.bids : b.user \in Users
  BY <1>1 DEF Databases, Bids
<1>3. CASE req[t].kind = "register"
  <2>1. /\ db.bids = saved.bids
        /\ \A u \in Users : u # req[t].user => db.wallet[u] = saved.wallet[u]
        /\ req[t].user \notin saved.accounts
    <3>1. req[t].user \notin saved.accounts /\ db = SignedUp(saved, req[t].user)
      BY <1>3 DEF Changes
    <3> QED BY <1>1, <3>1 DEF SignedUp, Databases
  <2>2. \A b \in db.bids : db.wallet[b.user] <= saved.wallet[b.user]
    BY <1>2, <2>1 DEF Owned
  <2> QED BY <1>1, <2>1, <2>2, PoolStays
<1>4. CASE req[t].kind = "place"
  <2> DEFINE old == BidsAt(saved, req[t].user, req[t].slot)
             a == req[t].amount
             new == [id |-> NextId(saved.bids), user |-> req[t].user,
                     slot |-> req[t].slot, amount |-> a]
  <2>1. /\ db = Upserted(saved, req[t].user, req[t].slot, a)
        /\ req[t].slot \notin PhraseSlots
    BY <1>4 DEF Changes, Invalidates
  <2>2. db.wallet = saved.wallet
    BY <1>1, <2>1 DEF Upserted, Databases
  <2>3. PICK X : db.bids = (saved.bids \ old) \cup X /\ \A x \in X : x.slot = req[t].slot
    <3>1. CASE old = {}
      <4>1. db.bids = (saved.bids \ old) \cup {new}
        BY <1>1, <2>1, <3>1 DEF Upserted, Databases
      <4>2. \A x \in {new} : x.slot = req[t].slot
        OBVIOUS
      <4> HIDE DEF new, old
      <4> QED BY <4>1, <4>2
    <3>2. CASE old # {}
      <4> DEFINE X == {[b EXCEPT !.amount = a] : b \in old}
      <4>1. db.bids = (saved.bids \ old) \cup X
        BY <1>1, <2>1, <3>2 DEF Upserted, Databases
      <4>2. \A x \in X : x.slot = req[t].slot
        BY <1>1 DEF BidsAt, Databases, Bids
      <4> HIDE DEF X
      <4> QED BY <4>1, <4>2
    <3> QED BY <3>1, <3>2
  <2>4. \A b \in old : b.slot = req[t].slot
    BY DEF BidsAt
  <2>5. {b \in saved.bids : b.slot \in PhraseSlots} = {b \in db.bids : b.slot \in PhraseSlots}
    BY <2>1, <2>3, <2>4
  <2> QED BY <1>1, <1>2, <2>2, <2>5, PoolStays
<1>5. CASE req[t].kind = "delete"
  <2> DEFINE gone == BidsAt(saved, req[t].user, req[t].slot)
  <2>1. db.bids = saved.bids \ gone /\ db.wallet = saved.wallet
    BY <1>1, <1>5 DEF Changes, WithoutBids, Databases
  <2>2. req[t].slot \notin PhraseSlots \/ gone = {}
    BY <1>5 DEF Changes, Invalidates
  <2>3. {b \in saved.bids : b.slot \in PhraseSlots} = {b \in db.bids : b.slot \in PhraseSlots}
    BY <2>1, <2>2 DEF BidsAt
  <2> QED BY <1>1, <1>2, <2>1, <2>3, PoolStays
<1>6. CASE req[t].kind = "search"
  <2>1. db.bids = saved.bids /\ db.wallet = saved.wallet
    BY <1>1, <1>6 DEF Changes, Shown, Databases
  <2> QED BY <1>1, <1>2, <2>1, PoolStays
<1>7. CASE req[t].kind = "click"
  <2>1. PICK b \in BidsWithId(saved, req[t].bid) :
          LET c == [bid |-> b.id, rid |-> req[t].rid, user |-> b.user,
                    charged |-> Books!Due(b, req[t].rid)] IN
          CanClick(saved, c) /\ db = Clicked(Debited(saved, b.user, c.charged), c)
    BY <1>7 DEF Changes
  <2> DEFINE due == Books!Due(b, req[t].rid)
  <2>2. due \in Nat
    BY DueIsNat
  <2>3. db.bids = saved.bids /\ db.wallet = [saved.wallet EXCEPT ![b.user] = @ - due]
    BY <1>1, <2>1 DEF Clicked, Debited, Databases
  <2>4. saved.wallet \in [Users -> Int]
    BY <1>1 DEF Databases
  <2> HIDE DEF due
  <2>5. ASSUME NEW u \in Users PROVE db.wallet[u] <= saved.wallet[u]
    <3>1. CASE u = b.user
      <4>1. db.wallet[u] = saved.wallet[u] - due /\ saved.wallet[u] \in Int
        BY <2>3, <2>4, <3>1
      <4> QED BY <2>2, <4>1
    <3>2. CASE u # b.user
      <4>1. db.wallet[u] = saved.wallet[u] /\ saved.wallet[u] \in Int
        BY <2>3, <2>4, <3>2
      <4> QED BY <4>1
    <3> QED BY <3>1, <3>2
  <2> QED BY <1>1, <1>2, <2>3, <2>5, PoolStays
<1> QED BY <1>1, <1>3, <1>4, <1>5, <1>6, <1>7 DEF Kinds

LEMMA CommitAlone ==
    ASSUME Serial, Inv, Alone, NEW t \in Https, CommitStep(t)
    PROVE  Alone'
<1>1. /\ Statement(t, "commit") /\ Turn(t, "commit") /\ "commit" \notin Resting
      /\ saved' = db /\ db' = db /\ txn' = FALSE /\ turns' = turns
      /\ charged' = charged /\ held' = [held EXCEPT ![t] = {}]
  BY DEF CommitStep, Statement, Commit, Resting
<1>2. pc[t] = "commit" /\ Changes(t)
  BY <1>1, MyTurn DEF Stands
<1>3. /\ pc \in [Https -> {"idle", "done"} \cup Steps] /\ turns[t] = 0
      /\ held \in [Https -> SUBSET Bids] /\ charged \in [Https -> Nat]
      /\ db.bids \subseteq Bids /\ saved \in Databases /\ req[t] \in Requests
  BY <1>2, KindOfStep DEF Inv, HandlersOK, HandlerOK, Selects, StoreOK, Intact, Databases
<1>4. BearsAlone(t)
  BY <1>1, <1>3 DEF BearsAlone
<1>5. TakeTurns'
  <2>1. CASE req[t].kind = "place"
    <3>1. Goto(t, "readback")
      BY <2>1 DEF CommitStep
    <3>2. pc'[t] = "readback" /\ req' = req
      BY <1>3, <3>1 DEF Goto
    <3>3. Reads(t)'
      BY <1>1, <1>3, <3>2 DEF Reads
    <3>4. \E b \in BidsAt(db, req[t].user, req[t].slot) : b.amount = req[t].amount
      <4> DEFINE old == BidsAt(saved, req[t].user, req[t].slot)
                 a == req[t].amount
                 new == [id |-> NextId(saved.bids), user |-> req[t].user,
                         slot |-> req[t].slot, amount |-> a]
      <4>1. db = Upserted(saved, req[t].user, req[t].slot, a)
        BY <1>2, <2>1 DEF Changes
      <4>2. CASE old = {}
        <5>1. new \in db.bids
          BY <1>3, <4>1, <4>2 DEF Upserted, Databases
        <5> QED BY <5>1 DEF BidsAt
      <4>3. CASE old # {}
        <5>1. PICK b \in old : TRUE
          BY <4>3
        <5> DEFINE y == [b EXCEPT !.amount = a]
        <5>2. y \in db.bids
          BY <1>3, <4>1, <4>3, <5>1 DEF Upserted, Databases
        <5>3. y.user = req[t].user /\ y.slot = req[t].slot /\ y.amount = a
          BY <1>3, <5>1 DEF BidsAt, Databases, Bids
        <5> QED BY <5>2, <5>3 DEF BidsAt
      <4> QED BY <4>2, <4>3
    <3>5. Knows(t)' /\ Bills(t)'
      BY <1>1, <2>1, <3>2, <3>4 DEF Knows, Bills, BidsAt
    <3>6. Stands(t)'
      BY <3>2, <3>3, <3>5 DEF Stands
    <3> QED BY <1>1, <1>4, <3>1, <3>6, GoesOn DEF Resting
  <2>2. CASE req[t].kind # "place"
    BY <1>1, <1>4, <2>2, Answered DEF CommitStep
  <2> QED BY <2>1, <2>2
<1>6. Spent(pc) \subseteq Spent(pc')
  <2>1. PICK next \in {"readback", "done"} : pc' = [pc EXCEPT ![t] = next]
    BY DEF CommitStep, Goto, Reply
  <2>2. Spent(pc) \subseteq Spent(pc)'
    BY <1>2, <2>1, SpentByMove
  <2> QED BY <2>2 DEF Spent
<1>7. IdsWithin(db, Spent(pc'))
  BY <1>3, <1>6, IdsStayWithin DEF Alone, Files
<1>8. Owned(db)
  BY <1>2, OwnersStay DEF Alone, Files
<1>9. PoolFits(pool', pooled', db)
  <2>1. CASE Invalidates(t)
    BY <2>1 DEF CommitStep, PoolFits
  <2>2. CASE ~Invalidates(t)
    <3>1. pool' = pool /\ pooled' = pooled
      BY <2>2 DEF CommitStep, phrases
    <3> QED BY <1>2, <2>2, <3>1, PoolOutlivesCommit DEF Alone, Files
  <2> QED BY <2>1, <2>2
<1>10. Files'
  BY <1>1, <1>7, <1>8, <1>9 DEF Files, PoolFits, IdsWithin, Owned, Spent
<1> QED BY <1>5, <1>10 DEF Alone

LEMMA RollbacksAlone ==
    ASSUME Serial, Inv, Alone, NEW t \in Https, RollbackStep(t) \/ Undo(t)
    PROVE  Alone'
<1>1. PICK from \in {"rollback", "undo"} : Statement(t, from)
  BY DEF RollbackStep, Undo
<1>2. /\ Turn(t, from) /\ from \notin Resting /\ UNCHANGED phrases
      /\ db' = saved /\ saved' = saved /\ txn' = FALSE /\ turns' = turns
      /\ charged' = charged /\ held' = [held EXCEPT ![t] = {}] /\ pc[t] = from
  BY <1>1 DEF RollbackStep, Undo, Statement, Turn, Rollback, Resting
<1>3. /\ pc \in [Https -> {"idle", "done"} \cup Steps] /\ turns[t] = 0
      /\ held \in [Https -> SUBSET Bids] /\ charged \in [Https -> Nat]
      /\ saved.bids \subseteq Bids
  BY <1>2 DEF Inv, HandlersOK, HandlerOK, Selects, StoreOK, Intact, Databases
<1>4. BearsAlone(t)
  BY <1>2, <1>3 DEF BearsAlone
<1>5. TakeTurns'
  <2>1. CASE req[t].kind = "search" /\ Goto(t, "again")
    <3>1. pc'[t] = "again" /\ req' = req
      BY <1>3, <2>1 DEF Goto
    <3>2. Reads(t)'
      BY <1>2, <1>3, <3>1 DEF Reads
    <3>3. Knows(t)' /\ Bills(t)'
      BY <2>1, <3>1 DEF Knows, Bills
    <3>4. Stands(t)'
      BY <3>1, <3>2, <3>3 DEF Stands
    <3> QED BY <1>2, <1>4, <2>1, <3>4, GoesOn DEF Resting
  <2>2. CASE Reply(t, "ok") \/ Reply(t, "error")
    BY <1>2, <1>4, <2>2, Answered
  <2> QED BY <2>1, <2>2 DEF RollbackStep, Undo
<1>6. Spent(pc) \subseteq Spent(pc')
  <2>1. PICK next : pc' = [pc EXCEPT ![t] = next]
    BY DEF RollbackStep, Undo, Goto, Reply
  <2>2. Spent(pc) \subseteq Spent(pc)'
    BY <1>2, <2>1, SpentByMove
  <2> QED BY <2>2 DEF Spent
<1>7. IdsWithin(saved, Spent(pc'))
  BY <1>3, <1>6, IdsStayWithin DEF Alone, Files
<1>8. Files'
  BY <1>2, <1>7 DEF Alone, Files, phrases, PoolFits, IdsWithin, Owned, Spent
<1> QED BY <1>5, <1>8 DEF Alone
-----------------------------------------------------------------------------
(* Requests arriving, snapshots expiring, the process restarting.          *)

LEMMA ArriveAlone ==
    ASSUME Serial, Inv, Alone, NEW t \in Https, Arrive(t)
    PROVE  Alone'
<1>1. /\ pc[t] = "idle" /\ Len(queue) < 1 /\ queue \in Seq(Https)
      /\ UNCHANGED store /\ UNCHANGED phrases
      /\ turns' = turns /\ UNCHANGED <<held, charged>> /\ queue' = Append(queue, t)
  BY DEF Arrive, Serial, locals, Inv, HandlersOK
<1>2. queue = <<>> /\ queue' = <<t>>
  <2>1. Len(queue) \in Nat
    BY <1>1
  <2>2. Len(queue) = 0
    BY <1>1, <2>1
  <2>3. queue = <<>>
    BY <1>1, <2>2
  <2> QED BY <1>1, <2>3
<1>3. /\ \A o \in Https : pc[o] \in Resting
      /\ ~txn /\ db = saved /\ charged[t] = 0 /\ turns[t] = 0
  BY <1>1, <1>2 DEF Alone, TakeTurns, Inv, StoreOK, HandlersOK, HandlerOK, Selects
<1>4. PICK r \in Workload :
        req' = [req EXCEPT ![t] = r] /\ pc' = [pc EXCEPT ![t] = FirstStep(r.kind)]
  BY DEF Arrive
<1>5. /\ pc \in [Https -> {"idle", "done"} \cup Steps] /\ req \in [Https -> Requests]
      /\ r.kind \in Kinds
  BY WorkloadAssumption, Requested DEF Inv, HandlersOK
<1>6. /\ pc'[t] = FirstStep(r.kind) /\ req'[t] = r
      /\ \A o \in Https : o # t => pc'[o] = pc[o]
  BY <1>4, <1>5
<1>7. /\ FirstStep(r.kind) \in {"lookup", "session", "replay", "target"}
      /\ FirstStep(r.kind) = "target" => r.kind = "click"
  BY <1>5 DEF FirstStep, Kinds
<1>8. db' = db /\ saved' = saved /\ txn' = txn
  BY <1>1 DEF store
<1>9. Stands(t)'
  BY <1>1, <1>3, <1>6, <1>7, <1>8 DEF Stands, Reads, Knows, Bills
<1>10. TakeTurns'
  <2>1. queue' # <<>> /\ pc'[t] \notin Resting
    BY <1>2, <1>6, <1>7 DEF Resting
  <2>2. \A o \in Https : pc'[o] \notin Resting => o = t
    BY <1>3, <1>6
  <2>3. \A o \in Https : pc'[o] = "idle" => charged'[o] = 0
    BY <1>1, <1>3, <1>6 DEF Alone, TakeTurns
  <2> QED BY <1>2, <1>9, <2>1, <2>2, <2>3 DEF TakeTurns
<1>11. Spent(pc') = Spent(pc)
  BY <1>1, <1>6, <1>7 DEF Spent
<1>12. Files'
  BY <1>1, <1>8, <1>11 DEF Alone, Files, phrases, PoolFits, IdsWithin, Owned, Spent
<1> QED BY <1>10, <1>12 DEF Alone

LEMMA ExpireAlone ==
    ASSUME Inv, Alone, Expire
    PROVE  Alone'
<1>1. /\ UNCHANGED store /\ UNCHANGED <<queue, req, pc, turns, rows, held, charged>>
      /\ pool' = {} /\ pooled' = FALSE
  BY DEF Expire, locals
<1>2. db' = db /\ saved' = saved /\ txn' = txn
  BY <1>1 DEF store
<1>3. \A t \in Https : Stands(t) => Stands(t)'
  <2> TAKE t \in Https
  <2>1. Selected(t)' = Selected(t)
    BY <1>1, <1>2, SelectedAgain
  <2>2. Reads(t) => Reads(t)'
    BY <1>1, <1>2, <2>1 DEF Reads
  <2>3. Knows(t) => Knows(t)'
    BY <1>1, <1>2 DEF Knows, BidsAt, BidsWithId, QuotesOf
  <2>4. Bills(t) => Bills(t)'
    BY <1>1, <1>2 DEF Bills, Payer, Books!Due
  <2>5. Changes(t) => Changes(t)'
    BY <1>1, <1>2 DEF Changes, Books!Due
  <2> QED BY <1>1, <2>2, <2>3, <2>4, <2>5 DEF Stands
<1>4. TakeTurns'
  BY <1>1, <1>2, <1>3 DEF Alone, TakeTurns
<1>5. Files'
  BY <1>1, <1>2 DEF Alone, Files, PoolFits, IdsWithin, Owned, Spent
<1> QED BY <1>4, <1>5 DEF Alone

LEMMA CrashAlone ==
    ASSUME Serial, Inv, Alone, Crash
    PROVE  Alone'
<1>1. /\ db' = saved /\ saved' = saved /\ txn' = FALSE /\ pooled' = FALSE
      /\ queue' = <<>> /\ charged' = charged
      /\ pc' = [t \in Https |-> IF t \in Open THEN "done" ELSE pc[t]]
  BY DEF Crash, Rollback
<1>2. \A t \in Https : pc'[t] \in Resting /\ (pc'[t] = "idle" => pc[t] = "idle")
  BY <1>1 DEF Open, Resting
<1>3. TakeTurns'
  BY <1>1, <1>2 DEF Alone, TakeTurns
<1>4. Spent(pc) \subseteq Spent(pc')
  BY <1>1 DEF Spent, Open
<1>5. saved.bids \subseteq Bids
  BY DEF Inv, StoreOK, Intact, Databases
<1>6. IdsWithin(saved, Spent(pc'))
  BY <1>4, <1>5, IdsStayWithin DEF Alone, Files
<1>7. Files'
  BY <1>1, <1>6 DEF Alone, Files, PoolFits, IdsWithin, Owned, Spent
<1> QED BY <1>3, <1>7 DEF Alone

LEMMA StutterAlone ==
    ASSUME Inv, Alone, UNCHANGED vars
    PROVE  Alone'
<1>1. /\ UNCHANGED <<db, saved, txn, pool, pooled>>
      /\ UNCHANGED <<queue, req, pc, turns, rows, held, charged>>
  BY DEF vars
<1>2. \A t \in Https : Stands(t) => Stands(t)'
  <2> TAKE t \in Https
  <2>1. Selected(t)' = Selected(t)
    BY <1>1, SelectedAgain
  <2>2. Reads(t) => Reads(t)'
    BY <1>1, <2>1 DEF Reads
  <2>3. Knows(t) => Knows(t)'
    BY <1>1 DEF Knows, BidsAt, BidsWithId, QuotesOf
  <2>4. Bills(t) => Bills(t)'
    BY <1>1 DEF Bills, Payer, Books!Due
  <2>5. Changes(t) => Changes(t)'
    BY <1>1 DEF Changes, Books!Due
  <2> QED BY <1>1, <2>2, <2>3, <2>4, <2>5 DEF Stands
<1>3. TakeTurns'
  BY <1>1, <1>2 DEF Alone, TakeTurns
<1>4. Files'
  BY <1>1 DEF Alone, Files, PoolFits, IdsWithin, Owned, Spent
<1> QED BY <1>3, <1>4 DEF Alone

LEMMA ServeAlone ==
    ASSUME Serial, Inv, Alone, NEW t \in Https, Serve(t)
    PROVE  Alone'
BY SelectsAlone, LookedUpAlone, SignupAlone, SessionAlone, UpsertAlone, UnbidAlone,
   ReadbackAlone, ReplayedAlone, ExactAlone, PhraseAlone, SeenAlone, QuoteAlone,
   TargetAlone, OwnerAlone, DupeAlone, QuotedAlone, DebitAlone, InsertAlone,
   BeginAlone, CommitAlone, RollbacksAlone DEF Serve

LEMMA InitAlone ==
    ASSUME Serial, Init
    PROVE  Alone
<1>1. /\ db = InitialDb /\ saved = InitialDb /\ ~txn /\ pooled = FALSE /\ queue = <<>>
      /\ pc = [t \in Https |-> "idle"] /\ charged = [t \in Https |-> 0]
  BY DEF Init
<1>2. TakeTurns
  BY <1>1 DEF TakeTurns, Resting
<1>3. InitialDb.bids \subseteq Bids /\ Owned(InitialDb)
      /\ \A b \in InitialDb.bids : b.id <= LastId
  BY InitialAssumption DEF InOrder, Databases, Opened, Owned
<1>4. Cardinality(Spent(pc)) \in Nat
  BY SpentGrows
<1>5. IdsWithin(InitialDb, Spent(pc))
  <2>1. \A b \in InitialDb.bids : b.id \in Nat
    BY <1>3 DEF Bids, Positive
  <2> QED BY <1>3, <1>4, <2>1, InitialAssumption DEF IdsWithin
<1>6. Files
  BY <1>1, <1>3, <1>5 DEF Files, PoolFits
<1> QED BY <1>2, <1>6 DEF Alone

LEMMA NextAlone ==
    ASSUME Serial, Inv, Alone, [Next]_vars
    PROVE  Alone'
BY ArriveAlone, ServeAlone, ExpireAlone, CrashAlone, StutterAlone DEF Next

LEMMA AlwaysAlone ==
    ASSUME Serial
    PROVE  Spec => [](Inv /\ Alone)
<1>1. Init => Inv /\ Alone
  BY InitHolds, InitAlone
<1>2. Inv /\ Alone /\ [Next]_vars => (Inv /\ Alone)'
  BY NextHolds, NextAlone
<1> QED BY <1>1, <1>2, PTL DEF Spec
-----------------------------------------------------------------------------
(* Between handlers that do not overlap, a cached phrase pool is current:  *)
(* no edit, deletion, click, rollback or restart leaves a bid in it that   *)
(* the file no longer has (list_phrase_bids_with_tokens and                *)
(* _invalidate_phrase_cache).                                              *)
THEOREM PoolStaysCurrent ==
    ASSUME Serial
    PROVE  Spec => []PoolCurrent
<1>1. Inv /\ Alone => PoolCurrent
  <2> SUFFICES ASSUME Inv, Alone, pooled, queue = <<>>
               PROVE  LET phrase == {b \in db.bids : b.slot \in PhraseSlots} IN
                      Affordable(db, phrase) \subseteq pool /\ pool \subseteq phrase
    BY DEF PoolCurrent
  <2>1. db = saved
    BY DEF Alone, TakeTurns, Inv, StoreOK
  <2> QED BY <2>1 DEF Alone, Files, PoolFits
<1> QED BY <1>1, AlwaysAlone, PTL
-----------------------------------------------------------------------------
(* A COMMIT is one operation of the ledger, and nothing else writes the    *)
(* file.                                                                   *)
LEMMA CommitIsAnEntry ==
    ASSUME Serial, Inv, Alone, NEW t \in Https, CommitStep(t)
    PROVE  Books!Next \/ saved' = saved
<1>1. /\ Statement(t, "commit") /\ Turn(t, "commit") /\ "commit" \notin Resting
      /\ saved' = db
  BY DEF CommitStep, Statement, Commit, Resting
<1>2. Changes(t)
  BY <1>1, MyTurn DEF Stands
<1>3. req[t] \in Requests /\ req[t].kind \in Kinds /\ saved \in Databases /\ Linked(saved)
  BY KindOfStep DEF Inv, StoreOK, Intact
<1>4. CASE req[t].kind = "register"
  <2>1. req[t].user \in Users \ saved.accounts /\ saved' = SignedUp(saved, req[t].user)
    BY <1>1, <1>2, <1>3, <1>4, Requested DEF Changes
  <2>2. Books!Register
    BY <2>1, SameTables DEF Books!Register
  <2> QED BY <2>2 DEF Books!Next
<1>5. CASE req[t].kind = "place"
  <2>1. /\ req[t].user \in saved.accounts /\ req[t].amount <= saved.wallet[req[t].user]
        /\ NextId(saved.bids) <= IdBound
        /\ saved' = Upserted(saved, req[t].user, req[t].slot, req[t].amount)
    BY <1>1, <1>2, <1>5 DEF Changes
  <2>2. req[t].slot \in Slots /\ req[t].amount \in Amounts
    BY <1>3, <1>5 DEF Requests, RegisterRequests, PlaceRequests, DeleteRequests,
       SearchRequests, ClickRequests
  <2>3. Books!PlaceBid
    BY <2>1, <2>2, SameTables DEF Books!PlaceBid
  <2> QED BY <2>3 DEF Books!Next
<1>6. CASE req[t].kind = "delete"
  <2> DEFINE gone == BidsAt(saved, req[t].user, req[t].slot)
  <2>1. saved' = WithoutBids(saved, gone)
    BY <1>1, <1>2, <1>6 DEF Changes
  <2>2. CASE gone = {}
    <3>1. WithoutBids(saved, {}) = saved
      BY <1>3 DEF WithoutBids, Databases
    <3> QED BY <2>1, <2>2, <3>1
  <2>3. CASE gone # {}
    <3>1. PICK b \in saved.bids : gone = {b}
      BY <1>3, <2>3 DEF Linked, BidsAt
    <3>2. Books!DeleteBid
      BY <2>1, <3>1, SameTables DEF Books!DeleteBid
    <3> QED BY <3>2 DEF Books!Next
  <2> QED BY <2>2, <2>3
<1>7. CASE req[t].kind = "search"
  <2>1. PICK b \in saved.bids : \E price \in 1..b.amount :
          LET i == [rid |-> req[t].rid, bid |-> b.id, user |-> b.user, price |-> price] IN
          CanShow(saved, i) /\ db = Shown(saved, i)
    BY <1>2, <1>7 DEF Changes
  <2>2. req[t].rid \in RequestIds
    BY <1>3, <1>7, Requested
  <2>3. Books!Show
    BY <1>1, <2>1, <2>2, SameTables DEF Books!Show
  <2> QED BY <2>3 DEF Books!Next
<1>8. CASE req[t].kind = "click"
  <2>1. PICK b \in BidsWithId(saved, req[t].bid) :
          LET c == [bid |-> b.id, rid |-> req[t].rid, user |-> b.user,
                    charged |-> Books!Due(b, req[t].rid)] IN
          CanClick(saved, c) /\ db = Clicked(Debited(saved, b.user, c.charged), c)
    BY <1>2, <1>8 DEF Changes
  <2>2. b \in saved.bids /\ req[t].rid \in RequestIds \cup {NoRequest}
    BY <1>3, <1>8, Requested DEF BidsWithId
  <2> DEFINE c == [bid |-> b.id, rid |-> req[t].rid, user |-> b.user,
                   charged |-> Books!Due(b, req[t].rid)]
  <2>3. CanClick(saved, c) /\ saved' = Clicked(Debited(saved, b.user, c.charged), c)
    BY <1>1, <2>1
  <2> HIDE DEF c
  <2>4. /\ Books!CanClick(saved, c)
        /\ saved' = Books!Clicked(Books!Debited(saved, b.user, c.charged), c)
    BY <2>3, SameTables
  <2> USE DEF c
  <2>5. Books!Bill
    BY <2>2, <2>4 DEF Books!Bill
  <2> QED BY <2>5 DEF Books!Next
<1> QED BY <1>3, <1>4, <1>5, <1>6, <1>7, <1>8 DEF Kinds

(* When handlers do not overlap, the committed tables are the books of     *)
(* ClickLedger, however many requests, crashes and restarts there are:     *)
(* every COMMIT of service.py's operations is one indivisible entry, and   *)
(* a click's debit and row are never apart (record_click, "Atomically").   *)
THEOREM TheBooksAreKept ==
    ASSUME Serial
    PROVE  Spec => KeepsTheBooks
<1>1. Init => Books!Init
  BY DEF Init, Books!Init
<1>2. Inv /\ Alone /\ [Next]_vars => [Books!Next]_saved
  BY CommitIsAnEntry, OnlyCommitsWrite
<1> QED BY <1>1, <1>2, AlwaysAlone, PTL DEF Spec, KeepsTheBooks, Books!Spec
-----------------------------------------------------------------------------
(* A click is due nothing, or a price quoted to it that the wallet covers. *)
LEMMA DueSound ==
    ASSUME Sound(saved), NEW b \in saved.bids, NEW r
    PROVE  /\ Books!Due(b, r) \in Nat /\ Books!Due(b, r) <= saved.wallet[b.user]
           /\ Books!Due(b, r) > 0 =>
                [rid |-> r, bid |-> b.id, user |-> b.user, price |-> Books!Due(b, r)]
                  \in saved.impressions
<1> DEFINE IsQuote(i) == i \in QuotesOf(saved, r) /\ i.bid = b.id
           Covers(i) == i.price <= saved.wallet[b.user]
<1>1. CASE ~ \E i : IsQuote(i) /\ Covers(i)
  <2>1. Books!Due(b, r) = 0
    BY <1>1, SameTables DEF Books!Due
  <2>2. saved.wallet[b.user] \in 0..SignupBalance
    BY SoundParts DEF Databases, Bids, Intact, InRange
  <2> QED BY <2>1, <2>2, SignupAssumption
<1>2. CASE \E i : IsQuote(i) /\ Covers(i)
  <2>1. PICK i : IsQuote(i) /\ Covers(i) /\ Books!Due(b, r) = i.price
    BY <1>2, SameTables DEF Books!Due
  <2>2. /\ i.price \in Positive
        /\ [rid |-> r, bid |-> b.id, user |-> b.user, price |-> i.price]
             \in saved.impressions
    BY <2>1, QuotedSound
  <2> QED BY <2>1, <2>2 DEF Positive
<1> QED BY <1>1, <1>2

LEMMA EntriesSound ==
    ASSUME Sound(saved), Books!Next
    PROVE  Sound(saved')
<1>1. CASE Books!Register
  BY <1>1, SameTables, SignedUpSound DEF Books!Register
<1>2. CASE Books!PlaceBid
  BY <1>2, SameTables, UpsertedSound, AmountsAssumption DEF Books!PlaceBid
<1>3. CASE Books!DeleteBid
  BY <1>3, SameTables, WithoutBidSound DEF Books!DeleteBid
<1>4. CASE Books!Show
  BY <1>4, SameTables, ShownSound DEF Books!Show
<1>5. CASE Books!Bill
  <2>1. PICK b \in saved.bids, r \in RequestIds \cup {NoRequest} :
          LET c == [bid |-> b.id, rid |-> r, user |-> b.user, charged |-> Books!Due(b, r)] IN
          Books!CanClick(saved, c)
          /\ saved' = Books!Clicked(Books!Debited(saved, b.user, c.charged), c)
    BY <1>5 DEF Books!Bill
  <2> DEFINE price == Books!Due(b, r)
             c == [bid |-> b.id, rid |-> r, user |-> b.user, charged |-> price]
  <2>2. CanClick(saved, c) /\ saved' = Clicked(Debited(saved, b.user, price), c)
    BY <2>1, SameTables
  <2>3. /\ price \in Nat /\ price <= saved.wallet[b.user]
        /\ price > 0 => [rid |-> r, bid |-> b.id, user |-> b.user, price |-> price]
                          \in saved.impressions
    BY DueSound
  <2> HIDE DEF price
  <2> QED BY <2>2, <2>3, BilledSound
<1> QED BY <1>1, <1>2, <1>3, <1>4, <1>5 DEF Books!Next

(* When handlers do not overlap, whoever crashes and restarts when: every  *)
(* committed wallet and its billed clicks add up to the sign-up balance,   *)
(* no wallet is overdrawn, what a click cost was quoted to it, and a page  *)
(* view is billed once (record_click, CHECK (wallet >= 0),                 *)
(* clicks_unique_by_request).                                              *)
THEOREM TheFileStaysInOrder ==
    ASSUME Serial
    PROVE  Spec => [](/\ Balanced
                      /\ InRange(saved) /\ AsQuoted(saved) /\ ClickedOnce(saved))
<1>1. Init => Sound(saved)
  BY InitialAssumption DEF Init, Sound, Bounded
<1>2. Inv /\ Alone /\ [Next]_vars /\ Sound(saved) => Sound(saved)'
  <2>1. Inv /\ Alone /\ [Next]_vars => Books!Next \/ saved' = saved
    BY CommitIsAnEntry, OnlyCommitsWrite
  <2> QED BY <2>1, EntriesSound
<1>3. Sound(saved) => Balanced /\ InRange(saved) /\ AsQuoted(saved) /\ ClickedOnce(saved)
  BY DEF Sound, InOrder, Balanced
<1> QED BY <1>1, <1>2, <1>3, AlwaysAlone, PTL DEF Spec
-----------------------------------------------------------------------------
(* What a handler confirms is committed.                                   *)
LEMMA GrantedIs ==
    ASSUME NEW r, NEW d
    PROVE  /\ r.kind = "register" => (Granted(r, d) <=> r.user \in d.accounts)
           /\ r.kind = "place" =>
                (Granted(r, d) <=> \E b \in BidsAt(d, r.user, r.slot) : b.amount = r.amount)
           /\ r.kind = "delete" => (Granted(r, d) <=> BidsAt(d, r.user, r.slot) = {})
           /\ r.kind = "search" => (Granted(r, d) <=> QuotesOf(d, r.rid) # {})
           /\ r.kind = "click" =>
                (Granted(r, d) <=> \E c \in d.clicks : c.bid = r.bid /\ c.rid = r.rid)
BY DEF Granted

LEMMA ChangesGrant ==
    ASSUME Inv, NEW t \in Https, Changes(t), req[t].kind # "place"
    PROVE  Granted(req[t], db)
<1>1. req[t] \in Requests /\ req[t].kind \in Kinds /\ saved \in Databases
  BY KindOfStep DEF Inv, StoreOK, Intact
<1>2. CASE req[t].kind = "register"
  <2>1. db = SignedUp(saved, req[t].user)
    BY <1>2 DEF Changes
  <2>2. req[t].user \in db.accounts
    BY <1>1, <2>1 DEF SignedUp, Databases
  <2> QED BY <1>2, <2>2, GrantedIs
<1>3. CASE req[t].kind = "delete"
  <2> DEFINE gone == BidsAt(saved, req[t].user, req[t].slot)
  <2>1. db = WithoutBids(saved, gone)
    BY <1>3 DEF Changes
  <2>2. db.bids = saved.bids \ gone
    BY <1>1, <2>1 DEF WithoutBids, Databases
  <2>3. BidsAt(db, req[t].user, req[t].slot) = {}
    BY <2>2 DEF BidsAt
  <2> QED BY <1>3, <2>3, GrantedIs
<1>4. CASE req[t].kind = "search"
  <2>1. PICK b \in saved.bids : \E price \in 1..b.amount :
          LET i == [rid |-> req[t].rid, bid |-> b.id, user |-> b.user, price |-> price] IN
          db = Shown(saved, i)
    BY <1>4 DEF Changes
  <2>2. PICK price \in 1..b.amount :
          LET i == [rid |-> req[t].rid, bid |-> b.id, user |-> b.user, price |-> price] IN
          db = Shown(saved, i)
    BY <2>1
  <2> DEFINE i == [rid |-> req[t].rid, bid |-> b.id, user |-> b.user, price |-> price]
  <2>3. i.rid = req[t].rid /\ db = Shown(saved, i)
    BY <2>2
  <2> HIDE DEF i
  <2>4. i \in QuotesOf(db, req[t].rid)
    BY <1>1, <2>3 DEF Shown, Databases, QuotesOf
  <2> QED BY <1>4, <2>4, GrantedIs
<1>5. CASE req[t].kind = "click"
  <2>1. PICK b \in BidsWithId(saved, req[t].bid) :
          LET c == [bid |-> b.id, rid |-> req[t].rid, user |-> b.user,
                    charged |-> Books!Due(b, req[t].rid)] IN
          db = Clicked(Debited(saved, b.user, c.charged), c)
    BY <1>5 DEF Changes
  <2> DEFINE c == [bid |-> b.id, rid |-> req[t].rid, user |-> b.user,
                   charged |-> Books!Due(b, req[t].rid)]
  <2>2. c.bid = req[t].bid /\ c.rid = req[t].rid
    BY DEF BidsWithId
  <2>3. db = Clicked(Debited(saved, b.user, c.charged), c)
    BY <2>1
  <2> HIDE DEF c
  <2>4. c \in db.clicks
    BY <1>1, <2>3 DEF Clicked, Debited, Databases
  <2> QED BY <1>5, <2>2, <2>4, GrantedIs
<1> QED BY <1>1, <1>2, <1>3, <1>4, <1>5 DEF Kinds

LEMMA RowsGrant ==
    ASSUME Serial, Inv, Alone, NEW t \in Https, NEW from \in {"readback", "replay", "again"},
           Closes(t, from), rows[t] # {}
    PROVE  Granted(req[t], saved')
<1>1. from \in Selects /\ saved' = saved
  BY DEF Selects, Closes, Reading, store
<1>2. pc[t] = from /\ rows[t] = Selected(t) /\ db = saved /\ Stands(t)
  BY <1>1, RowsAreCurrent
<1>3. CASE from = "readback"
  <2>1. /\ req[t].kind = "place"
        /\ \E b \in BidsAt(saved, req[t].user, req[t].slot) : b.amount = req[t].amount
    BY <1>2, <1>3, KindOfStep DEF Stands, Knows
  <2> QED BY <1>1, <2>1, GrantedIs
<1>4. CASE from \in {"replay", "again"}
  <2>1. req[t].kind = "search" /\ QuotesOf(saved, req[t].rid) # {}
    BY <1>2, <1>4, KindOfStep, SelectedIs
  <2> QED BY <1>1, <2>1, GrantedIs
<1> QED BY <1>3, <1>4

(* The steps that may confirm, and what the others do.                     *)
Confirms(t) == Readback(t) \/ Replayed(t) \/ Again(t) \/ CommitStep(t) \/ Undo(t)

LEMMA MovesOrAnswers ==
    ASSUME Inv, NEW t \in Https, Serve(t)
    PROVE  \/ \E step : Goto(t, step)
           \/ \E answer \in {"refused", "error"} : Reply(t, answer)
           \/ Reply(t, "ok") /\ Confirms(t)
<1>1. CASE Session(t)
  <2>1. req[t].kind \in {"place", "delete"}
    BY <1>1, KindOfStep DEF Session, Closes, Turn
  <2>2. CASE rows[t] = {}
    BY <1>1, <2>2 DEF Session
  <2>3. CASE rows[t] # {} /\ req[t].kind = "delete"
    BY <1>1, <2>3 DEF Session
  <2>4. CASE rows[t] # {} /\ req[t].kind = "place"
    BY <1>1, <2>4 DEF Session
  <2> QED BY <2>1, <2>2, <2>3, <2>4
<1>2. CASE Begin(t)
  <2>1. req[t].kind \in {"search", "click"}
    BY <1>2, KindOfStep DEF Begin, Statement, Turn
  <2>2. CASE txn
    BY <1>2, <2>2 DEF Begin
  <2>3. CASE ~txn /\ req[t].kind = "search"
    BY <1>2, <2>3 DEF Begin
  <2>4. CASE ~txn /\ req[t].kind = "click" /\ req[t].rid # NoRequest
    BY <1>2, <2>4 DEF Begin
  <2>5. CASE ~txn /\ req[t].kind = "click" /\ req[t].rid = NoRequest
    BY <1>2, <2>5 DEF Begin
  <2> QED BY <2>1, <2>2, <2>3, <2>4, <2>5
<1>3. CASE Execute(t) \/ Fetch(t) \/ LookedUp(t) \/ Signup(t) \/ Upsert(t) \/ Unbid(t)
  BY <1>3 DEF Execute, Fetch, LookedUp, Signup, Upsert, Unbid
<1>4. CASE Exact(t) \/ Phrase(t) \/ Seen(t) \/ Quote(t)
  <2>1. ASSUME NEW C, Decide(t, C)
        PROVE  (\E step : Goto(t, step)) \/ Reply(t, "refused")
    BY <2>1 DEF Decide
  <2> QED BY <1>4, <2>1 DEF Exact, Phrase, Seen, Quote
<1>5. CASE Target(t) \/ Owner(t) \/ Dupe(t) \/ Quoted(t) \/ Debit(t) \/ Insert(t)
           \/ RollbackStep(t)
  BY <1>5 DEF Target, Owner, Dupe, Quoted, Debit, Insert, RollbackStep
<1>6. CASE Confirms(t)
  BY <1>6 DEF Confirms, Readback, Replayed, Again, CommitStep, Undo
<1> QED BY <1>1, <1>2, <1>3, <1>4, <1>5, <1>6 DEF Serve, Confirms

LEMMA ServeGrants ==
    ASSUME Serial, Inv, Alone, NEW t \in Https, Serve(t), out[t] = "pending", out'[t] = "ok"
    PROVE  Granted(req[t], saved')
<1>1. /\ \A step : ~Goto(t, step)
      /\ \A answer : Reply(t, answer) => answer = "ok"
  BY DEF Goto, Reply, Inv, HandlersOK
<1>2. \/ Readback(t) \/ Replayed(t) \/ Again(t) \/ CommitStep(t)
      \/ Undo(t)
  BY <1>1, MovesOrAnswers DEF Confirms
<1>3. CASE Readback(t) \/ Replayed(t) \/ Again(t)
  <2>1. PICK from \in {"readback", "replay", "again"} : Closes(t, from)
    BY <1>3 DEF Readback, Replayed, Again
  <2>2. rows[t] # {}
    BY <1>1, <1>3 DEF Readback, Replayed, Again
  <2> QED BY <2>1, <2>2, RowsGrant
<1>4. CASE CommitStep(t)
  <2>1. /\ Turn(t, "commit") /\ "commit" \notin Resting /\ saved' = db
        /\ req[t].kind # "place"
    BY <1>1, <1>4 DEF CommitStep, Statement, Commit, Resting
  <2>2. Changes(t)
    BY <2>1, MyTurn DEF Stands
  <2> QED BY <2>1, <2>2, ChangesGrant
<1>5. CASE Undo(t)
  <2>1. /\ Turn(t, "undo") /\ "undo" \notin Resting /\ saved' = saved
        /\ req[t].kind # "search"
    BY <1>1, <1>5 DEF Undo, Statement, Rollback, Resting
  <2>2. pc[t] = "undo" /\ Stands(t) /\ req[t].kind = "click"
    BY <2>1, MyTurn, KindOfStep
  <2> QED BY <2>1, <2>2, GrantedIs DEF Stands, Bills
<1> QED BY <1>2, <1>3, <1>4, <1>5

LEMMA OnlyServingConfirms ==
    ASSUME Inv, [Next]_vars, NEW t \in Https, out[t] = "pending", out'[t] = "ok"
    PROVE  Serve(t)
<1>1. out \in [Https -> Answers]
  BY DEF Inv, HandlersOK
<1>2. ASSUME NEW o \in Https, Serve(o), o # t PROVE FALSE
  <2>1. out' = out \/ \E answer : out' = [out EXCEPT ![o] = answer]
    BY <1>2, MovesOrAnswers DEF Goto, Reply
  <2> QED BY <1>1, <1>2, <2>1
<1>3. ASSUME NEW o \in Https, Arrive(o) PROVE FALSE
  BY <1>1, <1>3 DEF Arrive
<1>4. ~Expire /\ ~Crash /\ ~UNCHANGED vars
  BY <1>1 DEF Expire, Crash, vars
<1> QED BY <1>2, <1>3, <1>4 DEF Next

(* When handlers do not overlap, whatever the program confirms is in the   *)
(* file: no crash right after an answer takes the account, the bid, its    *)
(* removal, the quote or the click back (each operation of storage.py      *)
(* commits before it returns).                                             *)
THEOREM ConfirmedIsCommitted ==
    ASSUME Serial
    PROVE  Spec => AnswersCommitted
<1>1. Inv /\ Alone /\ [Next]_vars =>
        [\A t \in Https : out[t] = "pending" /\ out'[t] = "ok" => Granted(req[t], saved')]_vars
  BY OnlyServingConfirms, ServeGrants
<1> QED BY <1>1, AlwaysAlone, PTL DEF Spec, AnswersCommitted
==============================================================================
