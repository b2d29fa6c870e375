---------------------------- MODULE AdsStoreProofs ----------------------------
(***************************************************************************)
(* What holds of AdsStore however its handlers interleave, for every       *)
(* workload, every number of open handlers and every number of crashes:    *)
(* TypeOK, RowsLinked, NeverBilledTwice, WalletsInRange, SpentStaysSpent,  *)
(* and that a handler gets on with every turn it takes.                    *)
(*                                                                         *)
(* RowsLinked and the two after it are not inductive alone.  The invariant *)
(* is Inv: both the connection's view and the committed file are Intact    *)
(* (AdsTablesProofs), they are equal outside a transaction, and every      *)
(* handler is at a step of its request with the rows that step goes on     *)
(* with.  A write keeps db Intact; COMMIT and ROLLBACK copy one database   *)
(* over the other, of which db has always spent at least as much.          *)
(***************************************************************************)
EXTENDS AdsStore, AdsTablesProofs

Steps == UNION {StepsOf(k) : k \in Kinds}
Answers == {"pending", "ok", "refused", "error", "lost"}

StoreOK ==
    /\ Intact(db) /\ Intact(saved)
    /\ txn \in BOOLEAN /\ (~txn => db = saved)

PoolOK == pool \in SUBSET Bids /\ pooled \in BOOLEAN

HandlersOK ==
    /\ queue \in Seq(Https)
    /\ req \in [Https -> Requests]
    /\ pc \in [Https -> {"idle", "done"} \cup Steps]
    /\ turns \in [Https -> 0..2]
    /\ rows = [t \in Https |-> rows[t]]
    /\ held \in [Https -> SUBSET Bids] /\ charged \in [Https -> Nat]
    /\ out \in [Https -> Answers]
    /\ crashes \in 0..MaxCrashes
    /\ \A t \in Https : HandlerOK(t)

Inv == StoreOK /\ PoolOK /\ HandlersOK

(* HandlerOK as a relation of a handler's step, rows, turns and bids.      *)
Fits(kind, step, R, k, H) ==
    /\ step \in {"idle", "done"} \cup StepsOf(kind)
    /\ step \notin Selects => R = {} /\ k = 0
    /\ step \in {"exact", "phrase", "target", "owner", "readback"} => R \subseteq Bids
    /\ step = "dupe" => R \subseteq Clicks
    /\ step = "quoted" => R \subseteq Impressions
    /\ kind = "click" /\ step \in {"begin", "dupe", "quoted", "debit", "insert"}
         => H # {}
-----------------------------------------------------------------------------
(* What each kind of request carries.                                      *)
LEMMA Requested ==
    ASSUME NEW r \in Requests
    PROVE  /\ r.kind \in Kinds
           /\ r.kind \in {"register", "place", "delete"} => r.user \in Users
           /\ r.kind \in {"place", "delete"} => r.slot \in Slots
           /\ r.kind = "place" => r.amount \in Positive
           /\ r.kind = "search" => r.rid \in RequestIds
           /\ r.kind = "click" => r.bid \in Positive /\ r.rid \in RequestIds \cup {NoRequest}
BY AmountsAssumption DEF Requests, RegisterRequests, PlaceRequests, DeleteRequests,
   SearchRequests, ClickRequests, Kinds

LEMMA RangeOfSteps ==
    ASSUME NEW kind \in Kinds, NEW step \in {"idle", "done"} \cup StepsOf(kind)
    PROVE  step \in {"idle", "done"} \cup Steps
BY DEF Steps

(* A handler at a step of one kind of request serves such a request.       *)
LEMMA KindOfStep ==
    ASSUME Inv, NEW t \in Https
    PROVE  /\ req[t] \in Requests /\ req[t].kind \in Kinds
           /\ pc[t] \in {"lookup", "signup"} => req[t].kind = "register"
           /\ pc[t] \in {"upsert", "readback"} => req[t].kind = "place"
           /\ pc[t] = "unbid" => req[t].kind = "delete"
           /\ pc[t] = "session" => req[t].kind \in {"place", "delete"}
           /\ pc[t] \in {"replay", "exact", "phrase", "seen", "quote", "again"}
                => req[t].kind = "search"
           /\ pc[t] \in {"target", "owner", "dupe", "quoted", "debit", "insert"}
                => req[t].kind = "click"
           /\ pc[t] \in {"begin", "undo", "rollback"} => req[t].kind \in {"search", "click"}
<1>1. req[t] \in Requests /\ HandlerOK(t)
  BY DEF Inv, HandlersOK
<1>2. req[t].kind \in Kinds
  BY <1>1, Requested
<1> QED BY <1>1, <1>2 DEF HandlerOK, StepsOf, Kinds

(* t goes on with `step', or answers, which is going on with "done".       *)
Resumes(t, step) ==
    queue # <<>> /\ (Goto(t, step) \/ (step = "done" /\ \E a \in Answers : Reply(t, a)))

(* Of the bids and charges, and of the rows and turns, only t's change.    *)
BearsAlone(t) ==
    /\ held' = [held EXCEPT ![t] = held'[t]] /\ held'[t] \in SUBSET Bids
    /\ charged' = [charged EXCEPT ![t] = charged'[t]] /\ charged'[t] \in Nat
ReadsAlone(t) ==
    /\ rows' = [rows EXCEPT ![t] = rows'[t]]
    /\ turns' = [turns EXCEPT ![t] = turns'[t]] /\ turns'[t] \in 0..2

(* A handler's move keeps everybody's handler state well formed when it    *)
(* fits the handler's own request.                                         *)
LEMMA Moves ==
    ASSUME Inv, NEW t \in Https, NEW step,
           Resumes(t, step), BearsAlone(t), ReadsAlone(t),
           Fits(req[t].kind, step, rows'[t], turns'[t], held'[t])
    PROVE  HandlersOK'
<1>1. /\ queue \in Seq(Https) /\ req \in [Https -> Requests]
      /\ pc \in [Https -> {"idle", "done"} \cup Steps]
      /\ turns \in [Https -> 0..2] /\ rows = [o \in Https |-> rows[o]]
      /\ held \in [Https -> SUBSET Bids] /\ charged \in [Https -> Nat]
      /\ out \in [Https -> Answers] /\ crashes \in 0..MaxCrashes
      /\ \A o \in Https : HandlerOK(o)
  BY DEF Inv, HandlersOK
<1>2. req' = req /\ crashes' = crashes /\ pc' = [pc EXCEPT ![t] = step]
  BY DEF Resumes, Goto, Reply
<1>3. step \in {"idle", "done"} \cup Steps
  BY <1>1, Requested, RangeOfSteps DEF Fits
<1>4. queue' \in Seq(Https)
  <2>1. Tail(queue) \in Seq(Https) /\ Append(Tail(queue), t) \in Seq(Https)
    BY <1>1 DEF Resumes
  <2>2. queue' = Append(Tail(queue), t) \/ queue' = Tail(queue)
    BY DEF Resumes, Goto, Reply
  <2> QED BY <2>1, <2>2
<1>5. out' \in [Https -> Answers]
  BY <1>1 DEF Resumes, Goto, Reply
<1>6. /\ rows' = [o \in Https |-> rows'[o]] /\ turns' \in [Https -> 0..2]
      /\ held' \in [Https -> SUBSET Bids] /\ charged' \in [Https -> Nat]
  BY <1>1 DEF BearsAlone, ReadsAlone
<1>7. \A o \in Https : HandlerOK(o)'
  <2> TAKE o \in Https
  <2>1. CASE o = t
    <3>1. pc'[o] = step /\ req'[o] = req[t]
      BY <1>1, <1>2, <2>1
    <3> QED BY <2>1, <3>1 DEF Fits, HandlerOK
  <2>2. CASE o # t
    <3>1. /\ pc'[o] = pc[o] /\ rows'[o] = rows[o] /\ turns'[o] = turns[o]
          /\ held'[o] = held[o] /\ req'[o] = req[o]
      BY <1>1, <1>2, <2>2 DEF BearsAlone, ReadsAlone
    <3> QED BY <1>1, <3>1 DEF HandlerOK
  <2> QED BY <2>1, <2>2
<1> QED BY <1>1, <1>2, <1>3, <1>4, <1>5, <1>6, <1>7 DEF HandlersOK

(* A handler that leaves variables alone changes only its own.            *)
LEMMA Unmoved ==
    ASSUME Inv, NEW t \in Https
    PROVE  /\ UNCHANGED <<held, charged>> => BearsAlone(t)
           /\ UNCHANGED <<rows, turns>> => ReadsAlone(t)
           /\ Fits(req[t].kind, pc[t], rows[t], turns[t], held[t])
BY DEF Inv, HandlersOK, HandlerOK, Fits, BearsAlone, ReadsAlone
-----------------------------------------------------------------------------
(* The connection: writes, COMMIT and ROLLBACK.                            *)
LEMMA Written ==
    ASSUME Inv, NEW new, Intact(new), Write(new)
    PROVE  StoreOK'
BY DEF Inv, StoreOK, Write, Intact, Linked, BidsWithId, ClickedOnce, InRange, Bounded

LEMMA Ended ==
    ASSUME Inv, Commit \/ Rollback \/ Reading
    PROVE  StoreOK'
<1>1. Intact(db) /\ Intact(saved) /\ txn \in BOOLEAN /\ (~txn => db = saved)
  BY DEF Inv, StoreOK
<1>2. CASE Reading
  <2>1. db' = db /\ saved' = saved /\ txn' = txn
    BY <1>2 DEF Reading, store
  <2>2. Intact(db)' /\ Intact(saved)'
    BY <1>1, <2>1 DEF Intact, Linked, BidsWithId, ClickedOnce, InRange, Bounded
  <2>3. (txn \in BOOLEAN /\ (~txn => db = saved))'
    BY <1>1, <2>1
  <2> QED BY <2>2, <2>3 DEF StoreOK
<1>3. CASE Commit \/ Rollback
  <2>1. txn' = FALSE /\ db' = saved' /\ (db' = db \/ db' = saved)
    BY <1>3 DEF Commit, Rollback
  <2>2. CASE db' = db
    <3>1. Intact(db)'
      BY <1>1, <2>2 DEF Intact, Linked, BidsWithId, ClickedOnce, InRange, Bounded
    <3> QED BY <2>1, <3>1 DEF StoreOK
  <2>3. CASE db' = saved
    <3>1. Intact(db)'
      BY <1>1, <2>3 DEF Intact, Linked, BidsWithId, ClickedOnce, InRange, Bounded
    <3> QED BY <2>1, <3>1 DEF StoreOK
  <2> QED BY <2>1, <2>2, <2>3
<1> QED BY <1>2, <1>3

LEMMA PoolKept ==
    ASSUME Inv, UNCHANGED phrases
    PROVE  PoolOK'
BY DEF Inv, PoolOK, phrases
-----------------------------------------------------------------------------
(* SELECTs.                                                                *)

(* A SELECT returns rows of the table its step reads.                      *)
LEMMA SelectedFits ==
    ASSUME Inv, NEW t \in Https, pc[t] \in Selects, NEW k
    PROVE  Fits(req[t].kind, pc[t], Selected(t), k, held[t])
<1>1. db \in Databases
  BY DEF Inv, StoreOK, Intact
<1>2. pc[t] \in {"exact", "phrase", "target", "owner", "readback"}
        => Selected(t) \subseteq Bids
  BY <1>1 DEF Selected, Affordable, BidsWithId, BidsAt, Databases
<1>3. pc[t] = "dupe" => Selected(t) \subseteq Clicks
  BY <1>1 DEF Selected, ClicksOf, Databases
<1>4. pc[t] = "quoted" => Selected(t) \subseteq Impressions
  BY <1>1 DEF Selected, QuotesOf, Databases
<1> QED BY <1>2, <1>3, <1>4, Unmoved DEF Fits

LEMMA SelectsKeep ==
    ASSUME Inv, NEW t \in Https, Execute(t) \/ Fetch(t)
    PROVE  Inv'
<1>1. /\ pc[t] \in Selects /\ queue # <<>> /\ Goto(t, pc[t])
      /\ Reading /\ UNCHANGED phrases /\ UNCHANGED <<held, charged>>
  BY DEF Execute, Fetch, Turn, Reading
<1>2. rows \in [Https -> {rows[o] : o \in Https}] /\ turns \in [Https -> 0..2]
  BY DEF Inv, HandlersOK
<1>3. ReadsAlone(t) /\ rows'[t] \in {rows[t], Selected(t)}
  BY <1>2 DEF Execute, Fetch, ReadsAlone
<1>4. BearsAlone(t) /\ held'[t] = held[t]
  BY <1>1, Unmoved
<1>5. Fits(req[t].kind, pc[t], rows'[t], turns'[t], held'[t])
  BY <1>1, <1>3, <1>4, SelectedFits, Unmoved DEF Fits
<1>6. HandlersOK'
  BY <1>1, <1>3, <1>4, <1>5, Moves DEF Resumes
<1> QED BY <1>1, <1>6, Ended, PoolKept DEF Inv
-----------------------------------------------------------------------------
(* Steps that go on from the rows of a SELECT.                             *)

(* The close of a cursor leaves a handler without rows; `step' is where it *)
(* goes on.                                                                *)
LEMMA ClosesTo ==
    ASSUME Inv, NEW t \in Https, NEW from, Closes(t, from), NEW step,
           Resumes(t, step), BearsAlone(t), Fits(req[t].kind, step, {}, 0, held'[t])
    PROVE  StoreOK' /\ HandlersOK'
<1>1. /\ turns' = [turns EXCEPT ![t] = 0] /\ rows' = [rows EXCEPT ![t] = {}]
      /\ Reading
  BY DEF Closes
<1>2. rows = [o \in Https |-> rows[o]] /\ turns \in [Https -> 0..2]
  BY DEF Inv, HandlersOK
<1>3. ReadsAlone(t) /\ rows'[t] = {} /\ turns'[t] = 0
  BY <1>1, <1>2 DEF ReadsAlone
<1>4. HandlersOK'
  BY <1>3, Moves
<1> QED BY <1>1, <1>4, Ended

(* The same when the handler changes neither its bids nor its charge.      *)
LEMMA ClosesPlainly ==
    ASSUME Inv, NEW t \in Https, NEW from, Closes(t, from),
           NEW step, step \in {"done"} \cup StepsOf(req[t].kind), Resumes(t, step),
           req[t].kind = "click" /\ step \in {"begin", "dupe", "quoted", "debit", "insert"}
             => held[t] # {},
           UNCHANGED <<phrases, held, charged>>
    PROVE  Inv'
<1>1. BearsAlone(t)
  BY Unmoved
<1>2. Fits(req[t].kind, step, {}, 0, held'[t])
  BY DEF Fits
<1>3. StoreOK' /\ HandlersOK'
  BY <1>1, <1>2, ClosesTo
<1> QED BY <1>3, PoolKept DEF Inv

LEMMA LookedUpKeeps ==
    ASSUME Inv, NEW t \in Https, LookedUp(t)
    PROVE  Inv'
<1>1. Closes(t, "lookup") /\ req[t].kind = "register" /\ UNCHANGED <<phrases, held, charged>>
  BY KindOfStep DEF LookedUp, Closes, Turn
<1>2. Resumes(t, "signup") \/ Resumes(t, "done")
  BY DEF LookedUp, Closes, Turn, Resumes, Answers
<1>3. {"signup", "done"} \subseteq {"done"} \cup StepsOf(req[t].kind)
  BY <1>1 DEF StepsOf
<1> QED BY <1>1, <1>2, <1>3, ClosesPlainly

LEMMA SessionKeeps ==
    ASSUME Inv, NEW t \in Https, Session(t)
    PROVE  Inv'
<1>1. /\ Closes(t, "session") /\ req[t].kind \in {"place", "delete"}
      /\ UNCHANGED <<phrases, held, charged>>
  BY KindOfStep DEF Session, Closes, Turn
<1>2. \/ Resumes(t, "done")
      \/ req[t].kind = "delete" /\ Resumes(t, "unbid")
      \/ req[t].kind = "place" /\ Resumes(t, "upsert")
  BY <1>1 DEF Session, Closes, Turn, Resumes, Answers
<1>3. /\ req[t].kind = "delete" => "unbid" \in StepsOf(req[t].kind)
      /\ req[t].kind = "place" => "upsert" \in StepsOf(req[t].kind)
  BY DEF StepsOf
<1> QED BY <1>1, <1>2, <1>3, ClosesPlainly

LEMMA ReadbackKeeps ==
    ASSUME Inv, NEW t \in Https, Readback(t)
    PROVE  Inv'
<1>1. Closes(t, "readback") /\ req[t].kind = "place" /\ UNCHANGED <<phrases, held, charged>>
  BY KindOfStep DEF Readback, Closes, Turn
<1>2. Resumes(t, "done")
  BY DEF Readback, Closes, Turn, Resumes, Answers
<1>3. {"done"} \subseteq {"done"} \cup StepsOf(req[t].kind)
  BY <1>1 DEF StepsOf
<1> QED BY <1>1, <1>2, <1>3, ClosesPlainly

LEMMA AgainKeeps ==
    ASSUME Inv, NEW t \in Https, Again(t)
    PROVE  Inv'
<1>1. Closes(t, "again") /\ req[t].kind = "search" /\ UNCHANGED <<phrases, held, charged>>
  BY KindOfStep DEF Again, Closes, Turn
<1>2. Resumes(t, "done")
  BY DEF Again, Closes, Turn, Resumes, Answers
<1>3. {"done"} \subseteq {"done"} \cup StepsOf(req[t].kind)
  BY <1>1 DEF StepsOf
<1> QED BY <1>1, <1>2, <1>3, ClosesPlainly

LEMMA ReplayedKeeps ==
    ASSUME Inv, NEW t \in Https, Replayed(t)
    PROVE  Inv'
<1>1. Closes(t, "replay") /\ req[t].kind = "search" /\ UNCHANGED <<phrases, held, charged>>
  BY KindOfStep DEF Replayed, Closes, Turn
<1>2. Resumes(t, "exact") \/ Resumes(t, "done")
  BY DEF Replayed, Closes, Turn, Resumes, Answers
<1>3. {"exact", "done"} \subseteq {"done"} \cup StepsOf(req[t].kind)
  BY <1>1 DEF StepsOf
<1> QED BY <1>1, <1>2, <1>3, ClosesPlainly

LEMMA SeenKeeps ==
    ASSUME Inv, NEW t \in Https, Seen(t)
    PROVE  Inv'
<1>1. Closes(t, "seen") /\ req[t].kind = "search" /\ UNCHANGED <<phrases, held, charged>>
  BY KindOfStep DEF Seen, Closes, Turn
<1>2. Resumes(t, "quote") \/ Resumes(t, "undo")
  BY DEF Seen, Closes, Turn, Resumes, Answers
<1>3. {"quote", "undo"} \subseteq {"done"} \cup StepsOf(req[t].kind)
  BY <1>1 DEF StepsOf
<1> QED BY <1>1, <1>2, <1>3, ClosesPlainly

LEMMA TargetKeeps ==
    ASSUME Inv, NEW t \in Https, Target(t)
    PROVE  Inv'
<1>1. Closes(t, "target") /\ req[t].kind = "click" /\ UNCHANGED <<phrases, held, charged>>
  BY KindOfStep DEF Target, Closes, Turn
<1>2. Resumes(t, "owner") \/ Resumes(t, "done")
  BY DEF Target, Closes, Turn, Resumes, Answers
<1>3. {"owner", "done"} \subseteq {"done"} \cup StepsOf(req[t].kind)
  BY <1>1 DEF StepsOf
<1> QED BY <1>1, <1>2, <1>3, ClosesPlainly

(* The candidates of a search come from the exact rows and from the pool.  *)
LEMMA ExactKeeps ==
    ASSUME Inv, NEW t \in Https, Exact(t)
    PROVE  Inv'
<1>1. Closes(t, "exact") /\ req[t].kind = "search" /\ UNCHANGED <<phrases, charged>>
  BY KindOfStep DEF Exact, Closes, Turn
<1>2. /\ held \in [Https -> SUBSET Bids] /\ charged \in [Https -> Nat]
      /\ rows[t] \subseteq Bids /\ pool \subseteq Bids
  BY <1>1 DEF Inv, HandlersOK, HandlerOK, PoolOK, Closes, Turn
<1>3. PICK H : held' = [held EXCEPT ![t] = H] /\ H \subseteq Bids
               /\ (Resumes(t, "phrase") \/ Resumes(t, "begin") \/ Resumes(t, "done"))
  BY <1>1, <1>2 DEF Exact, Decide, Matching, Resumes, Answers, Closes, Turn
<1>4. BearsAlone(t)
  BY <1>1, <1>2, <1>3 DEF BearsAlone
<1>5. \A step \in {"phrase", "begin", "done"} : Fits(req[t].kind, step, {}, 0, held'[t])
  BY <1>1 DEF Fits, StepsOf
<1>6. StoreOK' /\ HandlersOK'
  BY <1>1, <1>3, <1>4, <1>5, ClosesTo
<1> QED BY <1>1, <1>6, PoolKept DEF Inv

LEMMA PhraseKeeps ==
    ASSUME Inv, NEW t \in Https, Phrase(t)
    PROVE  Inv'
<1>1. Closes(t, "phrase") /\ req[t].kind = "search"
      /\ charged' = charged /\ pool' = rows[t] /\ pooled' = TRUE
  BY KindOfStep DEF Phrase, Closes, Turn
<1>2. /\ held \in [Https -> SUBSET Bids] /\ charged \in [Https -> Nat]
      /\ rows[t] \subseteq Bids
  BY <1>1 DEF Inv, HandlersOK, HandlerOK, Closes, Turn
<1>3. PICK H : held' = [held EXCEPT ![t] = H] /\ H \subseteq Bids
               /\ (Resumes(t, "begin") \/ Resumes(t, "done"))
  <2> DEFINE C == held[t] \cup Matching(t, rows[t])
  <2>1. C \subseteq Bids
    BY <1>2 DEF Matching
  <2>2. Decide(t, C) /\ queue # <<>>
    BY DEF Phrase, Closes, Turn
  <2> HIDE DEF C
  <2> QED BY <2>1, <2>2 DEF Decide, Resumes, Answers
<1>4. BearsAlone(t)
  BY <1>1, <1>2, <1>3 DEF BearsAlone
<1>5. \A step \in {"begin", "done"} : Fits(req[t].kind, step, {}, 0, held'[t])
  BY <1>1 DEF Fits, StepsOf
<1>6. StoreOK' /\ HandlersOK'
  BY <1>1, <1>3, <1>4, <1>5, ClosesTo
<1>7. PoolOK'
  BY <1>1, <1>2 DEF PoolOK
<1> QED BY <1>6, <1>7 DEF Inv

(* A click goes on with the bid rows it found, or answers.                 *)
LEMMA OwnerKeeps ==
    ASSUME Inv, NEW t \in Https, Owner(t)
    PROVE  Inv'
<1>1. Closes(t, "owner") /\ req[t].kind = "click" /\ UNCHANGED <<phrases, charged>>
  BY KindOfStep DEF Owner, Closes, Turn
<1>2. /\ held \in [Https -> SUBSET Bids] /\ charged \in [Https -> Nat]
      /\ rows[t] \subseteq Bids
  BY <1>1 DEF Inv, HandlersOK, HandlerOK, Closes, Turn
<1>3. \/ rows[t] = {} /\ Resumes(t, "done") /\ held' = held
      \/ rows[t] # {} /\ Resumes(t, "begin") /\ held' = [held EXCEPT ![t] = rows[t]]
  BY <1>1 DEF Owner, Resumes, Answers, Closes, Turn
<1>4. BearsAlone(t)
  BY <1>1, <1>2, <1>3 DEF BearsAlone
<1>5. /\ Fits(req[t].kind, "done", {}, 0, held'[t])
      /\ held'[t] # {} => Fits(req[t].kind, "begin", {}, 0, held'[t])
  BY <1>1 DEF Fits, StepsOf
<1>6. StoreOK' /\ HandlersOK'
  BY <1>1, <1>2, <1>3, <1>4, <1>5, ClosesTo
<1> QED BY <1>1, <1>6, PoolKept DEF Inv

LEMMA DupeKeeps ==
    ASSUME Inv, NEW t \in Https, Dupe(t)
    PROVE  Inv'
<1>1. Closes(t, "dupe") /\ req[t].kind = "click" /\ UNCHANGED phrases /\ held' = held
  BY KindOfStep DEF Dupe, Closes, Turn
<1>2. /\ held \in [Https -> SUBSET Bids] /\ charged \in [Https -> Nat]
      /\ rows[t] \subseteq Clicks /\ held[t] # {}
  BY <1>1 DEF Inv, HandlersOK, HandlerOK, Closes, Turn
<1>3. PICK c \in Nat : charged' = [charged EXCEPT ![t] = c]
                       /\ (Resumes(t, "quoted") \/ Resumes(t, "undo"))
  <2>1. CASE rows[t] = {}
    BY <1>1, <1>2, <2>1 DEF Dupe, Resumes, Closes, Turn
  <2>2. CASE rows[t] # {}
    BY <1>1, <1>2, <2>2 DEF Dupe, Resumes, Closes, Turn, Clicks
  <2> QED BY <2>1, <2>2
<1>4. BearsAlone(t) /\ held'[t] # {}
  BY <1>1, <1>2, <1>3 DEF BearsAlone
<1>5. \A step \in {"quoted", "undo"} : Fits(req[t].kind, step, {}, 0, held'[t])
  BY <1>1, <1>4 DEF Fits, StepsOf
<1>6. StoreOK' /\ HandlersOK'
  BY <1>1, <1>3, <1>4, <1>5, ClosesTo
<1> QED BY <1>1, <1>6, PoolKept DEF Inv

LEMMA QuotedKeeps ==
    ASSUME Inv, NEW t \in Https, Quoted(t)
    PROVE  Inv'
<1>1. Closes(t, "quoted") /\ req[t].kind = "click" /\ UNCHANGED phrases /\ held' = held
  BY KindOfStep DEF Quoted, Closes, Turn
<1>2. /\ held \in [Https -> SUBSET Bids] /\ charged \in [Https -> Nat]
      /\ rows[t] \subseteq Impressions /\ held[t] # {}
  BY <1>1 DEF Inv, HandlersOK, HandlerOK, Closes, Turn
<1>3. PICK c \in Nat : charged' = [charged EXCEPT ![t] = c]
                       /\ (Resumes(t, "insert") \/ Resumes(t, "debit"))
  <2>1. CASE rows[t] = {}
    BY <1>1, <1>2, <2>1 DEF Quoted, Resumes, Closes, Turn
  <2>2. CASE rows[t] # {}
    BY <1>1, <1>2, <2>2 DEF Quoted, Resumes, Closes, Turn, Impressions, Positive
  <2> QED BY <2>1, <2>2
<1>4. BearsAlone(t) /\ held'[t] # {}
  BY <1>1, <1>2, <1>3 DEF BearsAlone
<1>5. \A step \in {"insert", "debit"} : Fits(req[t].kind, step, {}, 0, held'[t])
  BY <1>1, <1>4 DEF Fits, StepsOf
<1>6. StoreOK' /\ HandlersOK'
  BY <1>1, <1>3, <1>4, <1>5, ClosesTo
<1> QED BY <1>1, <1>6, PoolKept DEF Inv
-----------------------------------------------------------------------------
(* Writes, BEGIN, COMMIT and ROLLBACK take one turn and read no rows.      *)
LEMMA StatementTo ==
    ASSUME Inv, NEW t \in Https, NEW from, Statement(t, from), from \notin Selects,
           UNCHANGED rows, NEW step, Resumes(t, step), BearsAlone(t),
           Fits(req[t].kind, step, {}, 0, held'[t])
    PROVE  HandlersOK'
<1>1. ReadsAlone(t)
  BY Unmoved DEF Statement
<1>2. rows'[t] = {} /\ turns'[t] = 0
  BY DEF Inv, HandlersOK, HandlerOK, Statement, Turn
<1> QED BY <1>1, <1>2, Moves

LEMMA SignupKeeps ==
    ASSUME Inv, NEW t \in Https, Signup(t)
    PROVE  Inv'
<1>1. /\ Statement(t, "signup") /\ "signup" \notin Selects /\ UNCHANGED <<phrases, locals>>
      /\ req[t].kind = "register" /\ req[t].user \in Users
  BY KindOfStep, Requested DEF Signup, Statement, Turn, Selects
<1>2. PICK new \in {db, SignedUp(db, req[t].user)} : Write(new)
  BY DEF Signup, WriteNothing
<1>3. StoreOK'
  <2>1. Intact(db)
    BY DEF Inv, StoreOK
  <2> QED BY <1>1, <1>2, <2>1, SignedUpIntact, Written
<1>4. Resumes(t, "done") \/ Resumes(t, "commit")
  BY <1>1 DEF Signup, Resumes, Answers, Statement, Turn
<1>5. \A step \in {"done", "commit"} : Fits(req[t].kind, step, {}, 0, held'[t])
  BY <1>1 DEF Fits, StepsOf, Selects
<1>6. HandlersOK'
  BY <1>1, <1>4, <1>5, StatementTo, Unmoved DEF locals
<1> QED BY <1>1, <1>3, <1>6, PoolKept DEF Inv

LEMMA UpsertKeeps ==
    ASSUME Inv, NEW t \in Https, Upsert(t)
    PROVE  Inv'
<1>1. /\ Statement(t, "upsert") /\ "upsert" \notin Selects /\ UNCHANGED <<phrases, locals>>
      /\ req[t].kind = "place" /\ req[t].user \in Users /\ req[t].slot \in Slots
      /\ req[t].amount \in Positive
  BY KindOfStep, Requested DEF Upsert, Statement, Turn, Selects
<1>2. Write(Upserted(db, req[t].user, req[t].slot, req[t].amount))
  BY DEF Upsert
<1>3. StoreOK'
  <2>1. Intact(db)
    BY DEF Inv, StoreOK
  <2> QED BY <1>1, <1>2, <2>1, UpsertedIntact, Written
<1>4. Resumes(t, "commit")
  BY <1>1 DEF Upsert, Resumes, Statement, Turn
<1>5. Fits(req[t].kind, "commit", {}, 0, held'[t])
  BY <1>1 DEF Fits, StepsOf, Selects
<1>6. HandlersOK'
  BY <1>1, <1>4, <1>5, StatementTo, Unmoved DEF locals
<1> QED BY <1>1, <1>3, <1>6, PoolKept DEF Inv

LEMMA UnbidKeeps ==
    ASSUME Inv, NEW t \in Https, Unbid(t)
    PROVE  Inv'
<1> DEFINE gone == BidsAt(db, req[t].user, req[t].slot)
<1>1. /\ Statement(t, "unbid") /\ "unbid" \notin Selects /\ req[t].kind = "delete"
      /\ UNCHANGED phrases /\ UNCHANGED <<rows, held>>
  BY KindOfStep DEF Unbid, Statement, Turn, Selects
<1>2. StoreOK'
  <2>1. Intact(db) /\ gone \in SUBSET db.bids
    BY DEF Inv, StoreOK, BidsAt
  <2>2. Write(WithoutBids(db, gone))
    BY DEF Unbid
  <2> QED BY <2>1, <2>2, WithoutBidsIntact, Written
<1>3. Resumes(t, "commit")
  BY <1>1 DEF Unbid, Resumes, Statement, Turn
<1>4. BearsAlone(t)
  <2>1. held \in [Https -> SUBSET Bids] /\ charged \in [Https -> Nat]
    BY DEF Inv, HandlersOK
  <2>2. charged' = [charged EXCEPT ![t] = 0] \/ charged' = [charged EXCEPT ![t] = 1]
    BY DEF Unbid
  <2> QED BY <1>1, <2>1, <2>2 DEF BearsAlone
<1>5. Fits(req[t].kind, "commit", {}, 0, held'[t])
  BY <1>1 DEF Fits, StepsOf, Selects
<1>6. HandlersOK'
  BY <1>1, <1>3, <1>4, <1>5, StatementTo
<1> QED BY <1>1, <1>2, <1>6, PoolKept DEF Inv

(* An impression's price is positive because the winner's bid is, whatever *)
(* became of the bid since the search read it.                             *)
LEMMA QuoteKeeps ==
    ASSUME Inv, NEW t \in Https, Quote(t)
    PROVE  Inv'
<1>1. /\ Statement(t, "quote") /\ "quote" \notin Selects /\ req[t].kind = "search"
      /\ UNCHANGED <<phrases, rows, charged>> /\ held' = [held EXCEPT ![t] = {}]
      /\ req[t].rid \in RequestIds
  BY KindOfStep, Requested DEF Quote, Statement, Turn, Selects
<1>2. PICK w \in Leaders(held[t]) :
        LET i == [rid |-> req[t].rid, bid |-> w.id, user |-> w.user,
                  price |-> Price(held[t], w)] IN
        IF CanShow(db, i)
          THEN Write(Shown(db, i)) /\ Goto(t, "commit")
          ELSE WriteNothing /\ Goto(t, "rollback")
  BY DEF Quote
<1> DEFINE i == [rid |-> req[t].rid, bid |-> w.id, user |-> w.user,
                 price |-> Price(held[t], w)]
<1>3. held \in [Https -> SUBSET Bids] /\ charged \in [Https -> Nat]
  BY DEF Inv, HandlersOK
<1>4. i \in Impressions
  <2>1. w \in Bids /\ HasAmounts(held[t])
    BY <1>3 DEF Leaders, HasAmounts, Bids, Positive
  <2>2. Price(held[t], w) \in 1..w.amount
    BY <2>1, PriceWithinBid
  <2>3. Price(held[t], w) \in Positive
    BY <2>1, <2>2 DEF Bids, Positive
  <2> QED BY <1>1, <2>1, <2>3 DEF Bids, Impressions
<1>5. StoreOK'
  <2>1. Intact(db)
    BY DEF Inv, StoreOK
  <2> HIDE DEF i
  <2>2. CASE CanShow(db, i)
    BY <1>2, <1>4, <2>1, <2>2, ShownIntact, Written DEF i
  <2>3. CASE ~CanShow(db, i)
    BY <1>2, <2>1, <2>3, Written DEF i, WriteNothing
  <2> QED BY <2>2, <2>3
<1>6. Resumes(t, "commit") \/ Resumes(t, "rollback")
  BY <1>1, <1>2 DEF Resumes, Statement, Turn
<1>7. BearsAlone(t)
  BY <1>1, <1>3 DEF BearsAlone
<1>8. \A step \in {"commit", "rollback"} : Fits(req[t].kind, step, {}, 0, held'[t])
  BY <1>1 DEF Fits, StepsOf, Selects
<1>9. HandlersOK'
  BY <1>1, <1>6, <1>7, <1>8, StatementTo
<1> QED BY <1>1, <1>5, <1>9, PoolKept DEF Inv

(* The account that pays for a click is one of the bids' owners.           *)
LEMMA PayerIsUser ==
    ASSUME Inv, NEW t \in Https, held[t] # {}
    PROVE  Payer(t) \in Users
BY DEF Inv, HandlersOK, Payer, Bids

LEMMA DebitKeeps ==
    ASSUME Inv, NEW t \in Https, Debit(t)
    PROVE  Inv'
<1>1. /\ Statement(t, "debit") /\ "debit" \notin Selects /\ req[t].kind = "click"
      /\ UNCHANGED phrases /\ UNCHANGED <<rows, held>>
  BY KindOfStep DEF Debit, Statement, Turn, Selects
<1>2. /\ held \in [Https -> SUBSET Bids] /\ charged \in [Https -> Nat]
      /\ held[t] # {} /\ held'[t] # {}
  BY <1>1 DEF Inv, HandlersOK, HandlerOK, Statement, Turn
<1>3. StoreOK'
  <2>1. Intact(db) /\ Payer(t) \in Users /\ charged[t] \in Nat
    BY <1>2, PayerIsUser DEF Inv, StoreOK
  <2>2. CASE db.wallet[Payer(t)] >= charged[t]
    BY <2>1, <2>2, DebitedIntact, Written DEF Debit
  <2>3. CASE ~(db.wallet[Payer(t)] >= charged[t])
    BY <2>1, <2>3, Written DEF Debit, WriteNothing
  <2> QED BY <2>2, <2>3
<1>4. Resumes(t, "insert")
  BY <1>1 DEF Debit, Resumes, Statement, Turn
<1>5. BearsAlone(t)
  <2>1. charged' = charged \/ charged' = [charged EXCEPT ![t] = 0]
    BY DEF Debit
  <2> QED BY <1>1, <1>2, <2>1 DEF BearsAlone
<1>6. Fits(req[t].kind, "insert", {}, 0, held'[t])
  BY <1>1, <1>2 DEF Fits, StepsOf, Selects
<1>7. HandlersOK'
  BY <1>1, <1>4, <1>5, <1>6, StatementTo
<1> QED BY <1>1, <1>3, <1>7, PoolKept DEF Inv

LEMMA InsertKeeps ==
    ASSUME Inv, NEW t \in Https, Insert(t)
    PROVE  Inv'
<1> DEFINE c == [bid |-> req[t].bid, rid |-> req[t].rid, user |-> Payer(t),
                 charged |-> charged[t]]
<1>1. /\ Statement(t, "insert") /\ "insert" \notin Selects /\ req[t].kind = "click"
      /\ UNCHANGED <<phrases, locals>>
      /\ req[t].bid \in Positive /\ req[t].rid \in RequestIds \cup {NoRequest}
  BY KindOfStep, Requested DEF Insert, Statement, Turn, Selects
<1>2. charged[t] \in Nat /\ held[t] # {}
  BY <1>1 DEF Inv, HandlersOK, HandlerOK, Statement, Turn
<1>3. c \in Clicks
  BY <1>1, <1>2, PayerIsUser DEF Clicks
<1>4. IF CanClick(db, c)
        THEN Write(Clicked(db, c)) /\ Goto(t, "commit")
        ELSE WriteNothing /\ Goto(t, "rollback")
  BY DEF Insert
<1>5. StoreOK'
  <2>1. Intact(db)
    BY DEF Inv, StoreOK
  <2> HIDE DEF c
  <2>2. CASE CanClick(db, c)
    BY <1>3, <1>4, <2>1, <2>2, ClickedIntact, Written
  <2>3. CASE ~CanClick(db, c)
    BY <1>4, <2>1, <2>3, Written DEF WriteNothing
  <2> QED BY <2>2, <2>3
<1>6. Resumes(t, "commit") \/ Resumes(t, "rollback")
  BY <1>1, <1>4 DEF Resumes, Statement, Turn
<1>7. \A step \in {"commit", "rollback"} : Fits(req[t].kind, step, {}, 0, held'[t])
  BY <1>1 DEF Fits, StepsOf, Selects
<1>8. HandlersOK'
  BY <1>1, <1>6, <1>7, StatementTo, Unmoved DEF locals
<1> QED BY <1>1, <1>5, <1>8, PoolKept DEF Inv
-----------------------------------------------------------------------------
(* The ends of the transactions.                                           *)

LEMMA BeginKeeps ==
    ASSUME Inv, NEW t \in Https, Begin(t)
    PROVE  Inv'
<1>1. /\ Statement(t, "begin") /\ "begin" \notin Selects
      /\ UNCHANGED phrases /\ UNCHANGED <<rows, held, charged>>
      /\ req[t].kind \in {"search", "click"}
  BY KindOfStep DEF Begin, Statement, Turn, Selects, locals
<1>2. req[t].kind = "click" => held[t] # {}
  BY <1>1 DEF Inv, HandlersOK, HandlerOK, Statement, Turn
<1>3. StoreOK'
  <2>1. CASE txn
    BY <2>1, Ended DEF Begin
  <2>2. CASE ~txn
    <3>1. txn' = TRUE /\ UNCHANGED <<db, saved>>
      BY <2>2 DEF Begin
    <3>2. Intact(db) /\ Write(db)
      BY <3>1 DEF Inv, StoreOK, Write
    <3> QED BY <3>2, Written
  <2> QED BY <2>1, <2>2
<1>4. \/ Resumes(t, "rollback")
      \/ req[t].kind = "search" /\ Resumes(t, "seen")
      \/ req[t].kind = "click" /\ (Resumes(t, "dupe") \/ Resumes(t, "insert"))
  <2>1. CASE txn
    BY <1>1, <2>1 DEF Begin, Resumes, Statement, Turn
  <2>2. CASE ~txn /\ req[t].kind = "search"
    BY <1>1, <2>2 DEF Begin, Resumes, Statement, Turn
  <2>3. CASE ~txn /\ req[t].kind = "click"
    BY <1>1, <2>3 DEF Begin, Resumes, Statement, Turn
  <2> QED BY <1>1, <2>1, <2>2, <2>3
<1>5. /\ Fits(req[t].kind, "rollback", {}, 0, held'[t])
      /\ req[t].kind = "search" => Fits(req[t].kind, "seen", {}, 0, held'[t])
      /\ req[t].kind = "click" => /\ Fits(req[t].kind, "dupe", {}, 0, held'[t])
                                 /\ Fits(req[t].kind, "insert", {}, 0, held'[t])
  BY <1>1, <1>2 DEF Fits, StepsOf, Selects
<1>6. BearsAlone(t)
  BY <1>1, Unmoved
<1>7. HandlersOK'
  BY <1>1, <1>4, <1>5, <1>6, StatementTo
<1> QED BY <1>1, <1>3, <1>7, PoolKept DEF Inv

(* COMMIT copies the connection's view to the file.                        *)
LEMMA CommitStepKeeps ==
    ASSUME Inv, NEW t \in Https, CommitStep(t)
    PROVE  Inv'
<1>1. /\ Statement(t, "commit") /\ "commit" \notin Selects /\ Commit
      /\ rows' = rows /\ charged' = charged /\ held' = [held EXCEPT ![t] = {}]
  BY DEF CommitStep, Selects
<1>2. \/ req[t].kind = "place" /\ Resumes(t, "readback")
      \/ Resumes(t, "done")
  BY <1>1 DEF CommitStep, Resumes, Statement, Turn, Answers
<1>3. BearsAlone(t) /\ held'[t] = {}
  BY <1>1 DEF Inv, HandlersOK, BearsAlone
<1>4. /\ Fits(req[t].kind, "done", {}, 0, held'[t])
      /\ req[t].kind = "place" => Fits(req[t].kind, "readback", {}, 0, held'[t])
  BY DEF Fits, StepsOf, Selects
<1>5. HandlersOK'
  BY <1>1, <1>2, <1>3, <1>4, StatementTo
<1>6. PoolOK'
  BY DEF CommitStep, Inv, PoolOK, phrases
<1> QED BY <1>1, <1>5, <1>6, Ended DEF Inv

(* ROLLBACK copies the file over the connection's view.                    *)
LEMMA RollbacksKeep ==
    ASSUME Inv, NEW t \in Https, RollbackStep(t) \/ Undo(t)
    PROVE  Inv'
<1>1. PICK from \in {"rollback", "undo"} : Statement(t, from)
  BY DEF RollbackStep, Undo
<1>2. /\ from \notin Selects /\ Rollback /\ UNCHANGED phrases
      /\ rows' = rows /\ charged' = charged /\ held' = [held EXCEPT ![t] = {}]
  BY DEF RollbackStep, Undo, Selects
<1>3. \/ req[t].kind = "search" /\ Resumes(t, "again")
      \/ Resumes(t, "done")
  BY DEF RollbackStep, Undo, Resumes, Statement, Turn, Answers
<1>4. BearsAlone(t) /\ held'[t] = {}
  BY <1>2 DEF Inv, HandlersOK, BearsAlone
<1>5. /\ Fits(req[t].kind, "done", {}, 0, held'[t])
      /\ req[t].kind = "search" => Fits(req[t].kind, "again", {}, 0, held'[t])
  BY DEF Fits, StepsOf, Selects
<1>6. HandlersOK'
  BY <1>1, <1>2, <1>3, <1>4, <1>5, StatementTo
<1> QED BY <1>2, <1>6, Ended, PoolKept DEF Inv
-----------------------------------------------------------------------------
(* Requests arriving, snapshots expiring, the process restarting.          *)

LEMMA ArriveKeeps ==
    ASSUME Inv, NEW t \in Https, Arrive(t)
    PROVE  Inv'
<1>1. PICK r \in Workload :
        req' = [req EXCEPT ![t] = r] /\ pc' = [pc EXCEPT ![t] = FirstStep(r.kind)]
  BY DEF Arrive
<1>2. /\ queue \in Seq(Https) /\ req \in [Https -> Requests]
      /\ pc \in [Https -> {"idle", "done"} \cup Steps]
      /\ \A o \in Https : HandlerOK(o)
  BY DEF Inv, HandlersOK
<1>3. r \in Requests /\ r.kind \in Kinds
  BY WorkloadAssumption, Requested
<1>4. FirstStep(r.kind) \in StepsOf(r.kind)
  BY <1>3 DEF FirstStep, StepsOf, Kinds
<1>5. /\ UNCHANGED <<store, phrases>> /\ UNCHANGED <<turns, rows, held, charged, out, crashes>>
      /\ queue' = Append(queue, t) /\ pc[t] = "idle"
  BY DEF Arrive, locals
<1>6. \A o \in Https : HandlerOK(o)'
  <2> TAKE o \in Https
  <2>1. CASE o = t
    <3>1. /\ pc'[t] = FirstStep(r.kind) /\ req'[t] = r
          /\ rows'[t] = {} /\ turns'[t] = 0
      BY <1>1, <1>2, <1>5 DEF HandlerOK, Selects
    <3>2. ~(r.kind = "click"
            /\ FirstStep(r.kind) \in {"begin", "dupe", "quoted", "debit", "insert"})
      BY DEF FirstStep
    <3> QED BY <1>4, <2>1, <3>1, <3>2 DEF HandlerOK
  <2>2. CASE o # t
    <3>1. pc'[o] = pc[o] /\ req'[o] = req[o]
      BY <1>1, <1>2, <2>2
    <3> QED BY <1>2, <1>5, <3>1 DEF HandlerOK
  <2> QED BY <2>1, <2>2
<1>7. pc' \in [Https -> {"idle", "done"} \cup Steps] /\ req' \in [Https -> Requests]
  BY <1>1, <1>2, <1>3, <1>4 DEF Steps
<1>8. queue' \in Seq(Https)
  BY <1>2, <1>5
<1>9. HandlersOK'
  BY <1>5, <1>6, <1>7, <1>8 DEF Inv, HandlersOK
<1>10. Reading
  BY <1>5 DEF Reading, store
<1> QED BY <1>5, <1>9, <1>10, Ended, PoolKept DEF Inv

LEMMA ExpireKeeps ==
    ASSUME Inv, Expire
    PROVE  Inv'
<1>1. /\ Reading /\ UNCHANGED <<queue, req, pc, turns, rows, held, charged, out, crashes>>
      /\ pool' = {} /\ pooled' = FALSE
  BY DEF Expire, Reading, locals
<1>2. HandlersOK'
  BY <1>1 DEF Inv, HandlersOK, HandlerOK
<1>3. PoolOK'
  BY <1>1 DEF PoolOK
<1> QED BY <1>1, <1>2, <1>3, Ended DEF Inv

LEMMA CrashKeeps ==
    ASSUME Inv, Crash
    PROVE  Inv'
<1>1. /\ pc \in [Https -> {"idle", "done"} \cup Steps] /\ out \in [Https -> Answers]
      /\ req \in [Https -> Requests] /\ crashes \in 0..MaxCrashes
      /\ charged \in [Https -> Nat]
  BY DEF Inv, HandlersOK
<1>2. /\ Rollback /\ pool' = {} /\ pooled' = FALSE /\ queue' = <<>>
      /\ crashes' \in 0..MaxCrashes
      /\ turns' = [t \in Https |-> 0] /\ rows' = [t \in Https |-> {}]
      /\ held' = [t \in Https |-> {}] /\ UNCHANGED <<req, charged>>
  BY <1>1, CrashAssumption DEF Crash
<1>3. pc' = [t \in Https |-> IF t \in Open THEN "done" ELSE pc[t]]
  BY DEF Crash
<1>4. \A t \in Https : pc'[t] \in {"idle", "done"}
  BY <1>3 DEF Open
<1>5. pc' \in [Https -> {"idle", "done"} \cup Steps] /\ out' \in [Https -> Answers]
  BY <1>1 DEF Crash, Answers
<1>6. \A t \in Https : HandlerOK(t)'
  BY <1>2, <1>4 DEF HandlerOK, Selects
<1>7. queue' \in Seq(Https)
  BY <1>2
<1>8. /\ turns' \in [Https -> 0..2] /\ rows' = [t \in Https |-> rows'[t]]
      /\ held' \in [Https -> SUBSET Bids]
  BY <1>2
<1>9. HandlersOK'
  BY <1>1, <1>2, <1>5, <1>6, <1>7, <1>8 DEF HandlersOK
<1>10. PoolOK'
  BY <1>2 DEF PoolOK
<1> QED BY <1>2, <1>9, <1>10, Ended DEF Inv
-----------------------------------------------------------------------------
LEMMA InitHolds == Init => Inv
<1> SUFFICES ASSUME Init PROVE Inv
  OBVIOUS
<1>1. StoreOK
  <2>1. Intact(InitialDb)
    BY InitialAssumption DEF InOrder, Intact, Bounded
  <2> QED BY <2>1 DEF Init, StoreOK
<1>2. PoolOK
  BY DEF Init, PoolOK
<1>3. req \in [Https -> Requests]
  <2>1. (CHOOSE r \in Workload : TRUE) \in Requests
    BY WorkloadAssumption
  <2> QED BY <2>1 DEF Init
<1>4. \A t \in Https : HandlerOK(t)
  BY DEF Init, HandlerOK, Selects
<1>5. HandlersOK
  BY <1>3, <1>4, CrashAssumption DEF Init, HandlersOK, Answers
<1> QED BY <1>1, <1>2, <1>5 DEF Inv

(* A handler's move of any kind keeps the invariant.                       *)
LEMMA ServeKeeps ==
    ASSUME Inv, NEW t \in Https, Serve(t)
    PROVE  Inv'
BY SelectsKeep, LookedUpKeeps, SignupKeeps, SessionKeeps, UpsertKeeps, UnbidKeeps,
   ReadbackKeeps, ReplayedKeeps, ExactKeeps, PhraseKeeps, SeenKeeps, QuoteKeeps,
   AgainKeeps, TargetKeeps, OwnerKeeps, DupeKeeps, QuotedKeeps, DebitKeeps,
   InsertKeeps, BeginKeeps, CommitStepKeeps, RollbacksKeep DEF Serve

LEMMA NextHolds == Inv /\ [Next]_vars => Inv'
<1> SUFFICES ASSUME Inv, [Next]_vars PROVE Inv'
  OBVIOUS
<1>1. ASSUME NEW t \in Https, Arrive(t) PROVE Inv'
  BY <1>1, ArriveKeeps
<1>2. ASSUME NEW t \in Https, Serve(t) PROVE Inv'
  BY <1>2, ServeKeeps
<1>3. CASE Expire
  BY <1>3, ExpireKeeps
<1>4. CASE Crash
  BY <1>4, CrashKeeps
<1>5. CASE UNCHANGED vars
  <2>1. /\ Reading /\ UNCHANGED phrases
        /\ UNCHANGED <<queue, req, pc, turns, rows, held, charged, out, crashes>>
    BY <1>5 DEF vars, Reading, store, phrases
  <2>2. HandlersOK'
    BY <2>1 DEF Inv, HandlersOK, HandlerOK
  <2> QED BY <2>1, <2>2, Ended, PoolKept DEF Inv
<1> QED BY <1>1, <1>2, <1>3, <1>4, <1>5 DEF Next

LEMMA AlwaysInv == Spec => []Inv
<1>1. Init => Inv
  BY InitHolds
<1>2. Inv /\ [Next]_vars => Inv'
  BY NextHolds
<1> QED BY <1>1, <1>2, PTL DEF Spec
-----------------------------------------------------------------------------
(* The state of the ads layer is well formed, and a click that bills knows *)
(* whom, in every interleaving of its handlers (service.py, storage.py).   *)
THEOREM TypesHold == Spec => []TypeOK
<1>1. Inv => TypeOK
  BY DEF Inv, StoreOK, PoolOK, HandlersOK, Intact, TypeOK, Steps, Answers
<1> QED BY <1>1, AlwaysInv, PTL

(* No interleaving of inserts, deletes and other handlers' rollbacks       *)
(* leaves an impression or click without its bid, or two bids in one slot  *)
(* (the foreign keys and UNIQUE constraints of _SCHEMA).                   *)
THEOREM RowsStayLinked == Spec => []RowsLinked
<1>1. Inv => RowsLinked
  BY DEF Inv, StoreOK, Intact, RowsLinked
<1> QED BY <1>1, AlwaysInv, PTL

(* No race of clicks bills one page view of a bid twice                    *)
(* (clicks_unique_by_request under record_click).                          *)
THEOREM ClicksBilledOnce == Spec => []NeverBilledTwice
<1>1. Inv => NeverBilledTwice
  BY DEF Inv, StoreOK, Intact, NeverBilledTwice
<1> QED BY <1>1, AlwaysInv, PTL

(* No race of debits and rollbacks overdraws a wallet or fills it above    *)
(* the sign-up balance (record_click's UPDATE ... WHERE wallet >= ?).      *)
THEOREM WalletsStayInRange == Spec => []WalletsInRange
<1>1. Inv => WalletsInRange
  BY DEF Inv, StoreOK, Intact, WalletsInRange
<1> QED BY <1>1, AlwaysInv, PTL
-----------------------------------------------------------------------------
(* Only COMMIT writes the file.                                            *)
LEMMA OnlyCommitsWrite ==
    ASSUME [Next]_vars
    PROVE  saved' = saved \/ \E t \in Https : CommitStep(t)
<1>1. ASSUME NEW t \in Https, Serve(t), ~CommitStep(t) PROVE saved' = saved
  BY <1>1 DEF Serve, Execute, Fetch, LookedUp, Signup, Session, Upsert, Unbid, Readback,
     Replayed, Exact, Phrase, Seen, Quote, Again, Target, Owner, Dupe, Quoted, Debit, Insert,
     Begin, RollbackStep, Undo, Closes, Reading, Write, WriteNothing, Rollback, store
<1>2. ASSUME NEW t \in Https, Arrive(t) PROVE saved' = saved
  BY <1>2 DEF Arrive, store
<1>3. Expire \/ Crash \/ UNCHANGED vars => saved' = saved
  BY DEF Expire, Crash, Rollback, store, vars
<1> QED BY <1>1, <1>2, <1>3 DEF Next

(* The accounts of d are still there in e, have spent no less and have no  *)
(* more.                                                                   *)
Spends(d, e) == \A u \in d.accounts :
    /\ u \in e.accounts
    /\ e.wallet[u] <= d.wallet[u]
    /\ e.billed[u] >= d.billed[u]

LEMMA SpendsOn ==
    ASSUME NEW c \in Databases, NEW d \in Databases, NEW e \in Databases, Spends(c, d), Spends(d, e)
    PROVE  Spends(c, e)
<1> SUFFICES ASSUME NEW u \in c.accounts
             PROVE  u \in e.accounts /\ e.wallet[u] <= c.wallet[u] /\ e.billed[u] >= c.billed[u]
  BY DEF Spends
<1>1. /\ u \in d.accounts /\ d.wallet[u] <= c.wallet[u] /\ d.billed[u] >= c.billed[u]
      /\ u \in e.accounts /\ e.wallet[u] <= d.wallet[u] /\ e.billed[u] >= d.billed[u]
  BY DEF Spends
<1>2. /\ u \in Users
      /\ c.wallet[u] \in Int /\ d.wallet[u] \in Int /\ e.wallet[u] \in Int
      /\ c.billed[u] \in Int /\ d.billed[u] \in Int /\ e.billed[u] \in Int
  BY DEF Databases
<1> QED BY <1>1, <1>2

LEMMA SpendsNothing ==
    ASSUME NEW d \in Databases, NEW e, e.accounts = d.accounts, e.wallet = d.wallet,
           e.billed = d.billed
    PROVE  Spends(d, e)
BY DEF Spends, Databases

(* What a statement that writes does to accounts and wallets.              *)
LEMMA WritesSpend ==
    ASSUME Inv, NEW t \in Https, Serve(t), ~CommitStep(t), ~RollbackStep(t), ~Undo(t)
    PROVE  Spends(db, db')
<1> USE DEF Write, WriteNothing
<1>1. db \in Databases
  BY DEF Inv, StoreOK, Intact
<1>2. CASE db' = db
  BY <1>1, <1>2, SpendsNothing
<1>3. CASE Signup(t)
  <2> DEFINE u == req[t].user
  <2>1. db' # db => u \notin db.accounts /\ db' = SignedUp(db, u)
    BY <1>3 DEF Signup
  <2> HIDE DEF u
  <2>2. CASE u \notin db.accounts /\ db' = SignedUp(db, u)
    <3>1. /\ db'.accounts = db.accounts \cup {u} /\ db'.billed = db.billed
          /\ \A x \in db.accounts : db'.wallet[x] = db.wallet[x]
      BY <1>1, <2>2 DEF SignedUp, Databases
    <3>2. \A x \in db.accounts : db.wallet[x] \in Int /\ db.billed[x] \in Int
      BY <1>1 DEF Databases
    <3> QED BY <3>1, <3>2 DEF Spends
  <2> QED BY <1>2, <2>1, <2>2
<1>4. CASE Upsert(t)
  <2>1. db' = Upserted(db, req[t].user, req[t].slot, req[t].amount)
    BY <1>4 DEF Upsert
  <2>2. db'.accounts = db.accounts /\ db'.wallet = db.wallet /\ db'.billed = db.billed
    BY <1>1, <2>1 DEF Upserted, Databases
  <2> QED BY <1>1, <2>2, SpendsNothing
<1>5. CASE Unbid(t)
  <2>1. db' = WithoutBids(db, BidsAt(db, req[t].user, req[t].slot))
    BY <1>5 DEF Unbid
  <2>2. db'.accounts = db.accounts /\ db'.wallet = db.wallet /\ db'.billed = db.billed
    BY <1>1, <2>1 DEF WithoutBids, Databases
  <2> QED BY <1>1, <2>2, SpendsNothing
<1>6. CASE Quote(t)
  <2>1. PICK i : db' = Shown(db, i) \/ db' = db
    BY <1>6 DEF Quote
  <2>2. db' # db =>
          db'.accounts = db.accounts /\ db'.wallet = db.wallet /\ db'.billed = db.billed
    BY <1>1, <2>1 DEF Shown, Databases
  <2> QED BY <1>1, <1>2, <2>2, SpendsNothing
<1>7. CASE Debit(t)
  <2>1. req[t].kind = "click" /\ held[t] # {} /\ charged[t] \in Nat
    BY <1>7, KindOfStep DEF Debit, Statement, Turn, Inv, HandlersOK, HandlerOK
  <2>2. Payer(t) \in Users
    BY <2>1, PayerIsUser
  <2>3. db' = Debited(db, Payer(t), charged[t]) \/ db' = db
    BY <1>7 DEF Debit
  <2>4. CASE db' = Debited(db, Payer(t), charged[t])
    <3>1. /\ db'.accounts = db.accounts /\ db'.billed = db.billed
          /\ \A u \in Users : db'.wallet[u] =
               IF u = Payer(t) THEN db.wallet[u] - charged[t] ELSE db.wallet[u]
      BY <1>1, <2>2, <2>4 DEF Debited, Databases
    <3>2. \A u \in db.accounts : u \in Users /\ db.wallet[u] \in Int /\ db.billed[u] \in Int
      BY <1>1 DEF Databases
    <3> QED BY <2>1, <3>1, <3>2 DEF Spends
  <2> QED BY <1>2, <2>3, <2>4
<1>8. CASE Insert(t)
  <2> DEFINE c == [bid |-> req[t].bid, rid |-> req[t].rid, user |-> Payer(t),
                   charged |-> charged[t]]
  <2>1. charged[t] \in Nat
    BY DEF Inv, HandlersOK
  <2>2. db' = Clicked(db, c) \/ db' = db
    BY <1>8 DEF Insert
  <2>3. c.charged = charged[t]
    OBVIOUS
  <2> HIDE DEF c
  <2>4. CASE db' = Clicked(db, c)
    <3>1. /\ db'.accounts = db.accounts /\ db'.wallet = db.wallet
          /\ \A u \in Users : db'.billed[u] =
               IF u = c.user THEN db.billed[u] + charged[t] ELSE db.billed[u]
      BY <1>1, <2>3, <2>4 DEF Clicked, Databases
    <3>2. \A u \in db.accounts : u \in Users /\ db.wallet[u] \in Int /\ db.billed[u] \in Int
      BY <1>1 DEF Databases
    <3> QED BY <2>1, <3>1, <3>2 DEF Spends
  <2> QED BY <1>2, <2>2, <2>4
<1>9. \/ db' = db \/ Signup(t) \/ Upsert(t) \/ Unbid(t) \/ Quote(t) \/ Debit(t) \/ Insert(t)
  BY DEF Serve, Execute, Fetch, LookedUp, Session, Readback, Replayed, Exact, Phrase, Seen,
     Again, Target, Owner, Dupe, Quoted, Begin, Closes, Reading, store
<1> QED BY <1>2, <1>3, <1>4, <1>5, <1>6, <1>7, <1>8, <1>9

(* The connection is ahead of the file in what is spent, never behind.     *)
Ahead == Spends(saved, db)

LEMMA AheadNext == Inv /\ Ahead /\ [Next]_vars => Ahead' /\ Spends(saved, saved')
<1> SUFFICES ASSUME Inv, Ahead, [Next]_vars PROVE Ahead' /\ Spends(saved, saved')
  OBVIOUS
<1>1. db \in Databases /\ saved \in Databases /\ db' \in Databases /\ saved' \in Databases
  BY NextHolds DEF Inv, StoreOK, Intact
<1>2. Spends(saved, saved) /\ Spends(db, db)
  BY <1>1, SpendsNothing
<1>3. CASE \E t \in Https : CommitStep(t)
  <2>1. saved' = db /\ db' = db
    BY <1>3 DEF CommitStep, Commit
  <2> QED BY <1>2, <2>1 DEF Ahead
<1>4. CASE saved' = saved /\ db' = db
  BY <1>2, <1>4 DEF Ahead
<1>5. CASE saved' = saved /\ db' = saved
  BY <1>2, <1>5 DEF Ahead
<1>6. CASE saved' = saved /\ Spends(db, db')
  <2>1. Spends(saved, db')
    BY <1>1, <1>6, SpendsOn DEF Ahead
  <2> QED BY <1>2, <1>6, <2>1 DEF Ahead
<1>7. CASE saved' = saved
  <2>1. ASSUME NEW t \in Https, Serve(t), ~CommitStep(t)
        PROVE  db' = saved \/ Spends(db, db')
    <3>1. CASE RollbackStep(t) \/ Undo(t)
      BY <3>1 DEF RollbackStep, Undo, Rollback
    <3>2. CASE ~RollbackStep(t) /\ ~Undo(t)
      BY <2>1, <3>2, WritesSpend
    <3> QED BY <3>1, <3>2
  <2>2. ASSUME NEW t \in Https, Arrive(t) PROVE db' = db
    BY <2>2 DEF Arrive, store
  <2>3. Expire \/ Crash \/ UNCHANGED vars => db' = db \/ db' = saved
    BY DEF Expire, Crash, Rollback, store, vars
  <2> QED BY <1>3, <1>4, <1>5, <1>6, <1>7, <2>1, <2>2, <2>3 DEF Next
<1> QED BY <1>3, <1>7, OnlyCommitsWrite

(* However handlers commit and roll back each other's half-done work, a    *)
(* committed account is never set up anew, and no debit or bill of it is   *)
(* undone (storage.py: wallet = wallet - price, append-only clicks).       *)
THEOREM SpendingIsFinal == Spec => SpentStaysSpent
<1>1. Init => Ahead
  <2> SUFFICES ASSUME Init PROVE Ahead
    OBVIOUS
  <2>1. db = saved /\ saved \in Databases
    BY InitialAssumption DEF Init, InOrder
  <2> QED BY <2>1, SpendsNothing DEF Ahead
<1>2. Inv /\ Ahead /\ [Next]_vars => Ahead' /\ [Spends(saved, saved')]_vars
  BY AheadNext
<1>3. Spec => [][Spends(saved, saved')]_vars
  BY <1>1, <1>2, AlwaysInv, PTL DEF Spec
<1> QED BY <1>3 DEF SpentStaysSpent, Spends
-----------------------------------------------------------------------------
(* How far each step is from the answer, and the turns a handler that      *)
(* waits for it may still take.                                            *)
Level(step) ==
    CASE step = "idle" -> 11
      [] step \in {"lookup", "session", "replay", "target"} -> 10
      [] step \in {"exact", "owner"} -> 9
      [] step = "phrase" -> 8
      [] step = "begin" -> 7
      [] step \in {"seen", "dupe"} -> 6
      [] step = "quoted" -> 5
      [] step \in {"debit", "quote"} -> 4
      [] step \in {"insert", "signup", "upsert", "unbid"} -> 3
      [] step \in {"commit", "rollback", "undo"} -> 2
      [] step \in {"readback", "again"} -> 1
      [] step = "done" -> 0

TurnsLeft(step, k) == 3 * Level(step) + (IF k = 0 THEN 2 ELSE k - 1)

Advances(t) ==
    \/ pc'[t] = pc[t] /\ turns'[t] = turns[t]
    \/ TurnsLeft(pc'[t], turns'[t]) < TurnsLeft(pc[t], turns[t])

LEMMA Levels ==
    ASSUME NEW step \in {"idle", "done"} \cup Steps
    PROVE  Level(step) \in 0..11
BY DEF Level, Steps, StepsOf, Kinds

LEMMA StepDown ==
    ASSUME NEW step \in {"idle", "done"} \cup Steps, NEW next \in {"idle", "done"} \cup Steps,
           Level(next) < Level(step), NEW k \in 0..2, NEW n \in 0..2
    PROVE  TurnsLeft(next, n) < TurnsLeft(step, k)
<1> DEFINE a == Level(next)
           b == Level(step)
<1>1. a \in Nat /\ b \in Nat /\ a < b
  BY Levels
<1> HIDE DEF a, b
<1>2. \A i, j \in 0..2 : 3 * a + i < 3 * b + j
  BY <1>1
<1>3. (IF n = 0 THEN 2 ELSE n - 1) \in 0..2 /\ (IF k = 0 THEN 2 ELSE k - 1) \in 0..2
  OBVIOUS
<1> QED BY <1>2, <1>3 DEF TurnsLeft, a, b

(* Where each operation leads.                                             *)
LEMMA NextSteps ==
    ASSUME Inv, NEW t \in Https, Serve(t), ~Execute(t), ~Fetch(t)
    PROVE  \E next \in {"done"} \cup Steps :
             pc' = [pc EXCEPT ![t] = next] /\ Level(next) < Level(pc[t])
<1> DEFINE Down == \E next \in {"done"} \cup Steps :
                     pc' = [pc EXCEPT ![t] = next] /\ Level(next) < Level(pc[t])
<1>1. ASSUME NEW next \in {"done"} \cup Steps, Level(next) < Level(pc[t]),
             pc' = [pc EXCEPT ![t] = next]
      PROVE  Down
  BY <1>1
<1>2. "done" \in {"done"} \cup Steps
  OBVIOUS
<1>3. /\ {"signup", "unbid", "upsert", "commit", "readback", "exact", "phrase", "begin", "seen",
          "quote", "rollback", "undo", "again", "owner", "dupe", "quoted", "debit", "insert"}
           \subseteq Steps
      /\ Level("done") = 0 /\ Level("again") = 1 /\ Level("readback") = 1 /\ Level("undo") = 2
      /\ Level("rollback") = 2 /\ Level("commit") = 2 /\ Level("insert") = 3
      /\ Level("signup") = 3 /\ Level("upsert") = 3 /\ Level("unbid") = 3 /\ Level("debit") = 4
      /\ Level("quote") = 4 /\ Level("quoted") = 5 /\ Level("seen") = 6 /\ Level("dupe") = 6
      /\ Level("begin") = 7 /\ Level("phrase") = 8 /\ Level("exact") = 9 /\ Level("owner") = 9
      /\ Level("lookup") = 10 /\ Level("session") = 10 /\ Level("replay") = 10
      /\ Level("target") = 10
  BY DEF Level, Steps, StepsOf, Kinds
<1> SUFFICES Down
  BY DEF Down
<1> HIDE DEF Down
<1> USE DEF Statement, Closes, Turn, Goto, Reply
<1>4. CASE LookedUp(t)
  <2>1. /\ pc[t] = "lookup"
        /\ \/ pc' = [pc EXCEPT ![t] = "signup"]
           \/ pc' = [pc EXCEPT ![t] = "done"]
    BY <1>4 DEF LookedUp
  <2> QED BY <1>1, <1>2, <1>3, <2>1
<1>5. CASE Signup(t)
  <2>1. /\ pc[t] = "signup"
        /\ \/ pc' = [pc EXCEPT ![t] = "commit"]
           \/ pc' = [pc EXCEPT ![t] = "done"]
    BY <1>5 DEF Signup
  <2> QED BY <1>1, <1>2, <1>3, <2>1
<1>6. CASE Session(t)
  <2>1. /\ pc[t] = "session"
        /\ \/ pc' = [pc EXCEPT ![t] = "unbid"]
           \/ pc' = [pc EXCEPT ![t] = "upsert"]
           \/ pc' = [pc EXCEPT ![t] = "done"]
    BY <1>6, KindOfStep DEF Session
  <2> QED BY <1>1, <1>2, <1>3, <2>1
<1>7. CASE Upsert(t)
  <2>1. /\ pc[t] = "upsert"
        /\ pc' = [pc EXCEPT ![t] = "commit"]
    BY <1>7 DEF Upsert
  <2>2. "commit" \in {"done"} \cup Steps /\ Level("commit") < Level(pc[t])
    BY <1>2, <1>3, <2>1
  <2> QED BY <2>1, <2>2, Zenon DEF Down
<1>8. CASE Unbid(t)
  <2>1. /\ pc[t] = "unbid"
        /\ pc' = [pc EXCEPT ![t] = "commit"]
    BY <1>8 DEF Unbid
  <2>2. "commit" \in {"done"} \cup Steps /\ Level("commit") < Level(pc[t])
    BY <1>2, <1>3, <2>1
  <2> QED BY <2>1, <2>2, Zenon DEF Down
<1>9. CASE Readback(t)
  <2>1. /\ pc[t] = "readback"
        /\ pc' = [pc EXCEPT ![t] = "done"]
    BY <1>9 DEF Readback
  <2>2. "done" \in {"done"} \cup Steps /\ Level("done") < Level(pc[t])
    BY <1>2, <1>3, <2>1
  <2> QED BY <2>1, <2>2, Zenon DEF Down
<1>10. CASE Replayed(t)
  <2>1. /\ pc[t] = "replay"
        /\ \/ pc' = [pc EXCEPT ![t] = "exact"]
           \/ pc' = [pc EXCEPT ![t] = "done"]
    BY <1>10 DEF Replayed
  <2> QED BY <1>1, <1>2, <1>3, <2>1
<1>11. CASE Exact(t)
  <2>1. /\ pc[t] = "exact"
        /\ \/ pc' = [pc EXCEPT ![t] = "phrase"]
           \/ pc' = [pc EXCEPT ![t] = "begin"]
           \/ pc' = [pc EXCEPT ![t] = "done"]
    BY <1>11 DEF Exact, Decide
  <2> QED BY <1>1, <1>2, <1>3, <2>1
<1>12. CASE Phrase(t)
  <2>1. /\ pc[t] = "phrase"
        /\ \/ pc' = [pc EXCEPT ![t] = "begin"]
           \/ pc' = [pc EXCEPT ![t] = "done"]
    BY <1>12 DEF Phrase, Decide
  <2> QED BY <1>1, <1>2, <1>3, <2>1
<1>13. CASE Seen(t)
  <2>1. /\ pc[t] = "seen"
        /\ \/ pc' = [pc EXCEPT ![t] = "quote"]
           \/ pc' = [pc EXCEPT ![t] = "undo"]
    BY <1>13 DEF Seen
  <2> QED BY <1>1, <1>2, <1>3, <2>1
<1>14. CASE Quote(t)
  <2>1. /\ pc[t] = "quote"
        /\ \/ pc' = [pc EXCEPT ![t] = "commit"]
           \/ pc' = [pc EXCEPT ![t] = "rollback"]
    BY <1>14 DEF Quote
  <2> QED BY <1>1, <1>2, <1>3, <2>1
<1>15. CASE Again(t)
  <2>1. /\ pc[t] = "again"
        /\ pc' = [pc EXCEPT ![t] = "done"]
    BY <1>15 DEF Again
  <2>2. "done" \in {"done"} \cup Steps /\ Level("done") < Level(pc[t])
    BY <1>2, <1>3, <2>1
  <2> QED BY <2>1, <2>2, Zenon DEF Down
<1>16. CASE Target(t)
  <2>1. /\ pc[t] = "target"
        /\ \/ pc' = [pc EXCEPT ![t] = "owner"]
           \/ pc' = [pc EXCEPT ![t] = "done"]
    BY <1>16 DEF Target
  <2> QED BY <1>1, <1>2, <1>3, <2>1
<1>17. CASE Owner(t)
  <2>1. /\ pc[t] = "owner"
        /\ \/ pc' = [pc EXCEPT ![t] = "begin"]
           \/ pc' = [pc EXCEPT ![t] = "done"]
    BY <1>17 DEF Owner
  <2> QED BY <1>1, <1>2, <1>3, <2>1
<1>18. CASE Dupe(t)
  <2>1. /\ pc[t] = "dupe"
        /\ \/ pc' = [pc EXCEPT ![t] = "quoted"]
           \/ pc' = [pc EXCEPT ![t] = "undo"]
    BY <1>18 DEF Dupe
  <2> QED BY <1>1, <1>2, <1>3, <2>1
<1>19. CASE Quoted(t)
  <2>1. /\ pc[t] = "quoted"
        /\ \/ pc' = [pc EXCEPT ![t] = "debit"]
           \/ pc' = [pc EXCEPT ![t] = "insert"]
    BY <1>19 DEF Quoted
  <2> QED BY <1>1, <1>2, <1>3, <2>1
<1>20. CASE Debit(t)
  <2>1. /\ pc[t] = "debit"
        /\ pc' = [pc EXCEPT ![t] = "insert"]
    BY <1>20 DEF Debit
  <2>2. "insert" \in {"done"} \cup Steps /\ Level("insert") < Level(pc[t])
    BY <1>2, <1>3, <2>1
  <2> QED BY <2>1, <2>2, Zenon DEF Down
<1>21. CASE Insert(t)
  <2>1. /\ pc[t] = "insert"
        /\ \/ pc' = [pc EXCEPT ![t] = "commit"]
           \/ pc' = [pc EXCEPT ![t] = "rollback"]
    BY <1>21 DEF Insert
  <2> QED BY <1>1, <1>2, <1>3, <2>1
<1>22. CASE Begin(t)
  <2>1. /\ pc[t] = "begin"
        /\ \/ pc' = [pc EXCEPT ![t] = "rollback"]
           \/ pc' = [pc EXCEPT ![t] = "seen"]
           \/ pc' = [pc EXCEPT ![t] = "dupe"]
           \/ pc' = [pc EXCEPT ![t] = "insert"]
    BY <1>22, KindOfStep DEF Begin
  <2> QED BY <1>1, <1>2, <1>3, <2>1
<1>23. CASE CommitStep(t)
  <2>1. /\ pc[t] = "commit"
        /\ \/ pc' = [pc EXCEPT ![t] = "readback"]
           \/ pc' = [pc EXCEPT ![t] = "done"]
    BY <1>23 DEF CommitStep
  <2> QED BY <1>1, <1>2, <1>3, <2>1
<1>24. CASE RollbackStep(t)
  <2>1. /\ pc[t] = "rollback"
        /\ pc' = [pc EXCEPT ![t] = "done"]
    BY <1>24 DEF RollbackStep
  <2>2. "done" \in {"done"} \cup Steps /\ Level("done") < Level(pc[t])
    BY <1>2, <1>3, <2>1
  <2> QED BY <2>1, <2>2, Zenon DEF Down
<1>25. CASE Undo(t)
  <2>1. /\ pc[t] = "undo"
        /\ \/ pc' = [pc EXCEPT ![t] = "again"]
           \/ pc' = [pc EXCEPT ![t] = "done"]
    BY <1>25 DEF Undo
  <2> QED BY <1>1, <1>2, <1>3, <2>1
<1> QED
  BY <1>4, <1>5, <1>6, <1>7, <1>8, <1>9, <1>10, <1>11, <1>12, <1>13, <1>14, <1>15,
     <1>16, <1>17, <1>18, <1>19, <1>20, <1>21, <1>22, <1>23, <1>24, <1>25 DEF Serve

LEMMA ServeAdvances ==
    ASSUME Inv, NEW t \in Https, Serve(t), NEW o \in Https
    PROVE  Advances(o)
<1>1. /\ pc \in [Https -> {"idle", "done"} \cup Steps] /\ turns \in [Https -> 0..2]
      /\ turns' \in [Https -> 0..2]
  BY ServeKeeps DEF Inv, HandlersOK
<1>2. CASE Execute(t) \/ Fetch(t)
  <2>1. pc' = pc
    BY <1>1, <1>2 DEF Execute, Fetch, Goto
  <2>2. \/ turns[t] = 0 /\ turns' = [turns EXCEPT ![t] = 2]
        \/ turns[t] = 2 /\ turns' = [turns EXCEPT ![t] = 1]
    BY <1>2 DEF Execute, Fetch
  <2>3. Level(pc[t]) \in Nat
    <3>1. pc[t] \in {"idle", "done"} \cup Steps
      BY <1>1
    <3>2. Level(pc[t]) \in 0..11
      BY <3>1, Levels
    <3> QED BY <3>2
  <2>4. TurnsLeft(pc'[t], turns'[t]) < TurnsLeft(pc[t], turns[t])
    BY <1>1, <2>1, <2>2, <2>3 DEF TurnsLeft
  <2> QED BY <1>1, <2>1, <2>2, <2>4 DEF Advances
<1>3. CASE ~Execute(t) /\ ~Fetch(t)
  <2>1. PICK next \in {"done"} \cup Steps :
          pc' = [pc EXCEPT ![t] = next] /\ Level(next) < Level(pc[t])
    BY <1>3, NextSteps
  <2>2. turns' = turns \/ turns' = [turns EXCEPT ![t] = 0]
    BY <1>3 DEF Serve, LookedUp, Signup, Session, Upsert, Unbid, Readback, Replayed, Exact,
       Phrase, Seen, Quote, Again, Target, Owner, Dupe, Quoted, Debit, Insert, Begin, CommitStep,
       RollbackStep, Undo, Closes, Statement
  <2>3. TurnsLeft(next, turns'[t]) < TurnsLeft(pc[t], turns[t])
    BY <1>1, <2>1, StepDown
  <2>4. pc'[t] = next /\ (o # t => pc'[o] = pc[o] /\ turns'[o] = turns[o])
    BY <1>1, <2>1, <2>2
  <2> QED BY <2>3, <2>4 DEF Advances
<1> QED BY <1>2, <1>3

(* A handler never comes back to an operation it has done: every turn it   *)
(* takes leaves it fewer turns to take (TurnsLeft, at most 35), whatever   *)
(* other handlers do to the connection.  In the queue's order everybody    *)
(* gets turns, so nothing but that order stands behind the answer.         *)
THEOREM HandlersAdvance == Spec => [][\A t \in Https : Advances(t)]_vars
<1>1. Inv /\ [Next]_vars => [\A t \in Https : Advances(t)]_vars
  <2> SUFFICES ASSUME Inv, [Next]_vars, NEW t \in Https PROVE Advances(t) \/ UNCHANGED vars
    OBVIOUS
  <2>1. ASSUME NEW o \in Https, Serve(o) PROVE Advances(t)
    BY <2>1, ServeAdvances
  <2>2. /\ pc \in [Https -> {"idle", "done"} \cup Steps] /\ turns \in [Https -> 0..2]
        /\ HandlerOK(t)
    BY DEF Inv, HandlersOK
  <2>3. ASSUME NEW o \in Https, Arrive(o) PROVE Advances(t)
    <3>1. PICK r \in Workload : pc' = [pc EXCEPT ![o] = FirstStep(r.kind)]
      BY <2>3 DEF Arrive
    <3>2. pc[o] = "idle" /\ turns' = turns
      BY <2>3 DEF Arrive
    <3>3. r.kind \in Kinds
      BY WorkloadAssumption, Requested
    <3>4. Level("idle") = 11 /\ FirstStep(r.kind) \in Steps /\ Level(FirstStep(r.kind)) = 10
      BY <3>3 DEF Level, FirstStep, Kinds, Steps, StepsOf
    <3>5. TurnsLeft(FirstStep(r.kind), turns[o]) < TurnsLeft("idle", turns[o])
      <4>1. /\ "idle" \in {"idle", "done"} \cup Steps /\ turns[o] \in 0..2
            /\ FirstStep(r.kind) \in {"idle", "done"} \cup Steps
            /\ Level(FirstStep(r.kind)) < Level("idle")
        BY <2>2, <3>4
      <4> QED BY <4>1, StepDown
    <3> QED BY <2>2, <3>1, <3>2, <3>5 DEF Advances
  <2>4. CASE Expire
    BY <2>4 DEF Expire, Advances
  <2>5. CASE Crash
    <3>1. /\ pc'[t] = (IF t \in Open THEN "done" ELSE pc[t]) /\ turns'[t] = 0
      BY <2>5 DEF Crash
    <3>2. CASE t \in Open
      <4>1. pc[t] \in Steps
        BY <2>2, <3>2 DEF Open
      <4>2. Level("done") < Level(pc[t])
        BY <4>1 DEF Level, Steps, StepsOf, Kinds
      <4>3. TurnsLeft("done", 0) < TurnsLeft(pc[t], turns[t])
        <5>1. /\ "done" \in {"idle", "done"} \cup Steps /\ turns[t] \in 0..2 /\ 0 \in 0..2
              /\ pc[t] \in {"idle", "done"} \cup Steps
          BY <2>2, <4>1
        <5> QED BY <4>2, <5>1, StepDown
      <4> QED BY <3>1, <3>2, <4>3 DEF Advances
    <3>3. CASE t \notin Open
      <4>1. pc[t] \in {"idle", "done"}
        BY <3>3 DEF Open
      <4>2. turns[t] = 0
        BY <2>2, <4>1 DEF HandlerOK, Selects
      <4> QED BY <3>1, <3>3, <4>2 DEF Advances
    <3> QED BY <3>2, <3>3
  <2> QED BY <2>1, <2>3, <2>4, <2>5 DEF Next
<1> QED BY <1>1, AlwaysInv, PTL DEF Spec
-----------------------------------------------------------------------------
(* Open transactions, when nobody signs up: a transaction is open only     *)
(* while a handler in progress is inside of one, and such a handler is in  *)
(* the queue.                                                              *)
InTransaction == {"seen", "dupe", "quoted", "quote", "debit", "insert", "commit", "rollback",
                  "undo"}

Waits(o, q) == \E i \in 1..Len(q) : q[i] = o

NoSignups == \A r \in Workload : r.kind # "register"

Tidy ==
    /\ \A t \in Https : pc[t] \notin {"idle", "done"} => Waits(t, queue)
    /\ \A t \in Https : pc[t] \notin {"lookup", "signup"}
    /\ txn => \E t \in Https : pc[t] \in InTransaction

(* The others keep their places when the head of the queue is served.      *)
LEMMA WaitsOn ==
    ASSUME NEW q \in Seq(Https), q # <<>>, NEW o, Waits(o, q)
    PROVE  /\ o # Head(q) => Waits(o, Tail(q))
           /\ Waits(o, Append(Tail(q), Head(q)))
<1>1. PICK i \in 1..Len(q) : q[i] = o
  BY DEF Waits
<1>2. Len(q) \in Nat /\ Len(q) >= 1
  BY <1>1
<1>3. /\ Tail(q) \in Seq(Https) /\ Len(Tail(q)) = Len(q) - 1
      /\ \A j \in 1..Len(q) - 1 : Tail(q)[j] = q[j + 1]
  BY <1>2
<1>4. /\ Len(Append(Tail(q), Head(q))) = Len(q)
      /\ Append(Tail(q), Head(q))[Len(q)] = Head(q)
      /\ \A j \in 1..Len(q) - 1 : Append(Tail(q), Head(q))[j] = q[j + 1]
  BY <1>2, <1>3
<1>5. CASE i = 1
  <2>1. o = Head(q)
    BY <1>1, <1>5
  <2>2. Len(q) \in 1..Len(Append(Tail(q), Head(q)))
    BY <1>2, <1>4
  <2> QED BY <1>4, <2>1, <2>2 DEF Waits
<1>6. CASE i # 1
  <2>1. PICK j \in 1..Len(q) - 1 : i = j + 1
    BY <1>2, <1>6
  <2>2. Tail(q)[j] = o /\ Append(Tail(q), Head(q))[j] = o
    BY <1>1, <1>3, <1>4, <2>1
  <2>3. j \in 1..Len(Tail(q)) /\ j \in 1..Len(Append(Tail(q), Head(q)))
    BY <1>2, <1>3, <1>4
  <2> QED BY <2>2, <2>3 DEF Waits
<1> QED BY <1>5, <1>6

(* t goes on with `next', which leaves no transaction to nobody.           *)
LEMMA TidyMove ==
    ASSUME Inv, Tidy, NEW t \in Https, NEW step, Turn(t, step), NEW next, Resumes(t, next),
           next \notin {"lookup", "signup"},
           txn' => next \in InTransaction \/ (step \notin InTransaction /\ txn)
    PROVE  Tidy'
<1>1. /\ pc \in [Https -> {"idle", "done"} \cup Steps] /\ queue \in Seq(Https)
      /\ queue # <<>> /\ t = Head(queue) /\ pc[t] = step
  BY DEF Inv, HandlersOK, Turn
<1>2. pc'[t] = next /\ \A o \in Https : o # t => pc'[o] = pc[o]
  BY <1>1 DEF Resumes, Goto, Reply
<1>3. ASSUME NEW o \in Https, pc'[o] \notin {"idle", "done"} PROVE Waits(o, queue')
  <2>1. CASE queue' = Append(Tail(queue), t)
    <3>1. CASE o = t
      <4>1. Tail(queue) \in Seq(Https)
        BY <1>1
      <4>2. /\ Len(queue') \in Nat /\ Len(queue') >= 1 /\ queue'[Len(queue')] = t
        BY <2>1, <4>1
      <4>3. Len(queue') \in 1..Len(queue')
        BY <4>2
      <4> QED BY <3>1, <4>2, <4>3 DEF Waits
    <3>2. CASE o # t
      <4>1. Waits(o, queue)
        BY <1>2, <1>3, <3>2 DEF Tidy
      <4> QED BY <1>1, <2>1, <4>1, WaitsOn
    <3> QED BY <3>1, <3>2
  <2>2. CASE next = "done" /\ queue' = Tail(queue)
    <3>1. o # t /\ Waits(o, queue)
      BY <1>2, <1>3, <2>2 DEF Tidy
    <3> QED BY <1>1, <2>2, <3>1, WaitsOn
  <2> QED BY <2>1, <2>2 DEF Resumes, Goto, Reply
<1>4. \A o \in Https : pc'[o] \notin {"lookup", "signup"}
  BY <1>2 DEF Tidy
<1>5. txn' => \E o \in Https : pc'[o] \in InTransaction
  <2>1. CASE next \in InTransaction
    BY <1>2, <2>1
  <2>2. CASE step \notin InTransaction /\ txn
    BY <1>1, <1>2, <2>2 DEF Tidy
  <2> QED BY <2>1, <2>2
<1> QED BY <1>3, <1>4, <1>5 DEF Tidy

LEMMA TidyServe ==
    ASSUME Inv, Tidy, NEW t \in Https, Serve(t)
    PROVE  Tidy'
<1>1. ASSUME NEW step \in Selects, Closes(t, step)
      PROVE  Turn(t, step) /\ txn' = txn /\ queue # <<>> /\ pc[t] = step
  BY <1>1 DEF Closes, Reading, store, Turn
<1>2. CASE Execute(t) \/ Fetch(t)
  <2>1. PICK step \in Selects : Turn(t, step)
    BY <1>2 DEF Execute, Fetch
  <2>2. Goto(t, step) /\ txn' = txn /\ queue # <<>> /\ pc[t] = step
    BY <1>2, <2>1 DEF Execute, Fetch, store, Turn
  <2>3. step \notin {"lookup", "signup"}
    BY <2>2 DEF Tidy
  <2> QED BY <2>1, <2>2, <2>3, TidyMove DEF Resumes
<1>3. CASE Session(t)
  <2>1. Closes(t, "session") /\ "session" \in Selects /\ "session" \notin InTransaction
    BY <1>3 DEF Session, Selects, InTransaction
  <2>2. req[t].kind \in {"place", "delete"}
    BY <1>1, <2>1, KindOfStep
  <2>3. PICK next \in {"done", "unbid", "upsert"} : Resumes(t, next)
    <3>1. CASE rows[t] = {}
      BY <1>1, <1>3, <2>1, <3>1 DEF Session, Resumes, Answers
    <3>2. CASE rows[t] # {} /\ req[t].kind = "delete"
      BY <1>1, <1>3, <2>1, <3>2 DEF Session, Resumes
    <3>3. CASE rows[t] # {} /\ req[t].kind = "place"
      BY <1>1, <1>3, <2>1, <3>3 DEF Session, Resumes, Answers
    <3> QED BY <2>2, <3>1, <3>2, <3>3
  <2> QED BY <1>1, <2>1, <2>3, TidyMove
<1>4. CASE Readback(t) \/ Replayed(t) \/ Again(t) \/ Target(t) \/ Owner(t)
  <2>1. PICK step \in {"readback", "replay", "again", "target", "owner"} : Closes(t, step)
    BY <1>4 DEF Readback, Replayed, Again, Target, Owner
  <2>2. step \in Selects /\ step \notin InTransaction
    BY DEF Selects, InTransaction
  <2>3. PICK next \in {"done", "exact", "owner", "begin"} : Resumes(t, next)
    BY <1>1, <1>4, <2>1, <2>2 DEF Readback, Replayed, Again, Target, Owner, Resumes, Answers
  <2> QED BY <1>1, <2>1, <2>2, <2>3, TidyMove
<1>5. CASE Exact(t) \/ Phrase(t)
  <2>1. PICK step \in {"exact", "phrase"} : Closes(t, step)
    BY <1>5 DEF Exact, Phrase
  <2>2. step \in Selects /\ step \notin InTransaction
    BY DEF Selects, InTransaction
  <2>3. ASSUME NEW C, Decide(t, C) PROVE Resumes(t, "begin") \/ Resumes(t, "done")
    BY <1>1, <2>1, <2>2, <2>3 DEF Decide, Resumes, Answers
  <2>4. PICK next \in {"done", "phrase", "begin"} : Resumes(t, next)
    BY <1>1, <1>5, <2>1, <2>2, <2>3 DEF Exact, Phrase, Resumes
  <2> QED BY <1>1, <2>1, <2>2, <2>4, TidyMove
<1>6. CASE Seen(t) \/ Dupe(t) \/ Quoted(t)
  <2>1. PICK step \in {"seen", "dupe", "quoted"} : Closes(t, step)
    BY <1>6 DEF Seen, Dupe, Quoted
  <2>2. step \in Selects
    BY DEF Selects
  <2>3. PICK next \in {"quote", "undo", "quoted", "insert", "debit"} : Resumes(t, next)
    BY <1>1, <1>6, <2>1, <2>2 DEF Seen, Dupe, Quoted, Resumes
  <2> QED BY <1>1, <2>1, <2>2, <2>3, TidyMove DEF InTransaction
<1>7. CASE Upsert(t) \/ Unbid(t) \/ Quote(t) \/ Debit(t) \/ Insert(t)
  <2>1. PICK step \in {"upsert", "unbid", "quote", "debit", "insert"} : Turn(t, step)
    BY <1>7 DEF Upsert, Unbid, Quote, Debit, Insert, Statement
  <2>2. PICK next \in {"commit", "rollback", "insert"} : Resumes(t, next)
    BY <1>7, <2>1 DEF Upsert, Unbid, Quote, Debit, Insert, Resumes, Turn
  <2> QED BY <2>1, <2>2, TidyMove DEF InTransaction
<1>8. CASE Begin(t)
  <2>1. Turn(t, "begin") /\ req[t].kind \in {"search", "click"}
    BY <1>8, KindOfStep DEF Begin, Statement, Turn
  <2>2. PICK next \in {"rollback", "seen", "dupe", "insert"} : Resumes(t, next)
    <3>1. CASE txn
      BY <1>8, <2>1, <3>1 DEF Begin, Resumes, Turn
    <3>2. CASE ~txn /\ req[t].kind = "search"
      BY <1>8, <2>1, <3>2 DEF Begin, Resumes, Turn
    <3>3. CASE ~txn /\ req[t].kind = "click"
      BY <1>8, <2>1, <3>3 DEF Begin, Resumes, Turn
    <3> QED BY <2>1, <3>1, <3>2, <3>3
  <2> QED BY <2>1, <2>2, TidyMove DEF InTransaction
<1>9. CASE CommitStep(t) \/ RollbackStep(t) \/ Undo(t)
  <2>1. PICK step : Turn(t, step)
    BY <1>9 DEF CommitStep, RollbackStep, Undo, Statement
  <2>2. txn' = FALSE
    BY <1>9 DEF CommitStep, RollbackStep, Undo, Commit, Rollback
  <2>3. PICK next \in {"readback", "again", "done"} : Resumes(t, next)
    BY <1>9, <2>1 DEF CommitStep, RollbackStep, Undo, Resumes, Turn, Answers
  <2> QED BY <2>1, <2>2, <2>3, TidyMove
<1>10. ~LookedUp(t) /\ ~Signup(t)
  BY DEF Tidy, LookedUp, Signup, Closes, Statement, Turn
<1> QED BY <1>2, <1>3, <1>4, <1>5, <1>6, <1>7, <1>8, <1>9, <1>10 DEF Serve

LEMMA TidyArrive ==
    ASSUME NoSignups, Inv, Tidy, NEW t \in Https, Arrive(t)
    PROVE  Tidy'
<1>1. PICK r \in Workload : pc' = [pc EXCEPT ![t] = FirstStep(r.kind)]
  BY DEF Arrive
<1>2. /\ pc[t] = "idle" /\ queue' = Append(queue, t) /\ txn' = txn
      /\ pc \in [Https -> {"idle", "done"} \cup Steps] /\ queue \in Seq(Https)
  BY DEF Arrive, store, Inv, HandlersOK
<1>3. /\ r.kind \in Kinds /\ r.kind # "register"
  BY WorkloadAssumption, Requested DEF NoSignups
<1>4. FirstStep(r.kind) \in {"session", "replay", "target"}
  BY <1>3 DEF FirstStep, Kinds
<1>5. pc'[t] = FirstStep(r.kind) /\ \A o \in Https : o # t => pc'[o] = pc[o]
  BY <1>1, <1>2
<1>6. ASSUME NEW o \in Https, pc'[o] \notin {"idle", "done"} PROVE Waits(o, queue')
  <2>1. /\ Len(queue) \in Nat /\ Len(queue') = Len(queue) + 1 /\ queue'[Len(queue) + 1] = t
        /\ \A i \in 1..Len(queue) : queue'[i] = queue[i]
    BY <1>2
  <2>2. CASE o = t
    <3>1. Len(queue) + 1 \in 1..Len(queue')
      BY <2>1
    <3> QED BY <2>1, <2>2, <3>1 DEF Waits
  <2>3. CASE o # t
    <3>1. PICK i \in 1..Len(queue) : queue[i] = o
      BY <1>5, <1>6, <2>3 DEF Tidy, Waits
    <3>2. i \in 1..Len(queue')
      BY <2>1
    <3> QED BY <2>1, <3>1, <3>2 DEF Waits
  <2> QED BY <2>2, <2>3
<1>7. txn' => \E o \in Https : pc'[o] \in InTransaction
  BY <1>2, <1>5 DEF Tidy, InTransaction
<1> QED BY <1>4, <1>5, <1>6, <1>7 DEF Tidy

LEMMA TidyNext ==
    ASSUME NoSignups, Inv, Tidy, [Next]_vars
    PROVE  Tidy'
<1>1. CASE Expire \/ UNCHANGED vars
  <2>1. pc' = pc /\ queue' = queue /\ txn' = txn
    BY <1>1 DEF Expire, vars, store
  <2> QED BY <2>1 DEF Tidy
<1>2. CASE Crash
  <2>1. txn' = FALSE /\ pc' = [t \in Https |-> IF t \in Open THEN "done" ELSE pc[t]]
    BY <1>2 DEF Crash, Rollback
  <2>2. \A t \in Https : pc'[t] \in {"idle", "done"}
    BY <2>1 DEF Open
  <2> QED BY <2>1, <2>2 DEF Tidy
<1> QED BY <1>1, <1>2, TidyServe, TidyArrive DEF Next

(* However bids, searches and clicks interleave and fail, no transaction   *)
(* outlives the handlers: each of them ends with the COMMIT or ROLLBACK    *)
(* that frees the connection for the next BEGIN IMMEDIATE.  Sign-ups are   *)
(* the exception: create_user's failed INSERT leaves its transaction open. *)
THEOREM TransactionsEnd ==
    ASSUME NoSignups
    PROVE  Spec => []NoStrayTransaction
<1>1. Init => Tidy
  BY DEF Init, Tidy
<1>2. Inv /\ Tidy /\ [Next]_vars => Tidy'
  BY TidyNext
<1>3. Inv /\ Tidy => NoStrayTransaction
  <2> SUFFICES ASSUME Inv, Tidy, queue = <<>> PROVE ~txn
    BY DEF NoStrayTransaction
  <2>1. \A t \in Https : ~Waits(t, queue)
    BY DEF Waits
  <2> QED BY <2>1 DEF Tidy, InTransaction
<1> QED BY <1>1, <1>2, <1>3, AlwaysInv, PTL DEF Spec
=============================================================================
