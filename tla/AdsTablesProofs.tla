--------------------------- MODULE AdsTablesProofs ---------------------------
(***************************************************************************)
(* What each write statement of AdsTables preserves of InOrder, and that   *)
(* each entry of the books (a click's debit and row together) preserves    *)
(* all of it.  The lemmas are about one database record, so the proofs     *)
(* about ClickLedger (whose state is one) and about AdsStore (whose state  *)
(* holds two) share them.  And the pricing rule of select_winner, for      *)
(* every set of candidates.                                                *)
(***************************************************************************)
EXTENDS AdsTables, Auction, NaturalBounds

(* The ids of a database's bids are bounded; the program's are, since each *)
(* bid gets one more than the largest.                                     *)
Bounded(d) == \E n \in Nat : \A b \in d.bids : b.id <= n

(* The next bid id is fresh, and bounds stay.                              *)
LEMMA NextIdFresh ==
    ASSUME NEW B \in SUBSET Bids, NEW n \in Nat, \A b \in B : b.id <= n
    PROVE  /\ NextId(B) \in Positive
           /\ \A b \in B : b.id < NextId(B)
           /\ NextId(B) <= n + 1
<1>1. CASE B = {}
  BY <1>1 DEF NextId, Positive
<1>2. CASE B # {}
  <2> DEFINE Ids == {b.id : b \in B}
  <2>1. Ids \in SUBSET Nat /\ Ids # {} /\ \A k \in Ids : k <= n /\ k >= 1
    BY <1>2 DEF Bids, Positive
  <2>2. \E m \in Ids : \A k \in Ids : k <= m
    <3> HIDE DEF Ids
    <3> QED BY <2>1, Greatest
  <2>3. \E m \in Ids : \A b \in B : b.id <= m
    BY <2>2
  <2> DEFINE top == CHOOSE m \in Ids : \A b \in B : b.id <= m
  <2>4. top \in Ids /\ \A b \in B : b.id <= top
    BY <2>3
  <2>5. NextId(B) = 1 + top
    BY <1>2 DEF NextId
  <2>6. top \in Nat /\ top >= 1 /\ top <= n
    BY <2>1, <2>4
  <2>7. \A b \in B : b.id \in Nat
    BY DEF Bids, Positive
  <2> HIDE DEF top, Ids
  <2> QED BY <2>4, <2>5, <2>6, <2>7 DEF Positive
<1> QED BY <1>1, <1>2
-----------------------------------------------------------------------------
(* What every write keeps, whichever transaction it is part of.            *)
Intact(d) ==
    d \in Databases /\ Linked(d) /\ ClickedOnce(d) /\ InRange(d) /\ Bounded(d)

LEMMA SignedUpIntact ==
    ASSUME NEW d, Intact(d), NEW u \in Users
    PROVE  Intact(SignedUp(d, u))
<1> DEFINE e == SignedUp(d, u)
<1>1. d \in Databases
  BY DEF Intact
<1>2. [d.wallet EXCEPT ![u] = SignupBalance] \in [Users -> Int]
  BY <1>1, SignupAssumption DEF Databases
<1>3. e \in Databases
  BY <1>1, <1>2 DEF SignedUp, Databases
<1>4. /\ e.bids = d.bids /\ e.impressions = d.impressions /\ e.clicks = d.clicks
      /\ e.wallet = [d.wallet EXCEPT ![u] = SignupBalance]
  BY <1>1 DEF SignedUp, Databases
<1>5. Linked(e) /\ ClickedOnce(e) /\ Bounded(e)
  BY <1>4 DEF Intact, Linked, ClickedOnce, Bounded, BidsWithId
<1>6. InRange(e)
  BY <1>1, <1>2, <1>4, SignupAssumption DEF Intact, InRange, Databases
<1> QED BY <1>3, <1>5, <1>6 DEF Intact

(* Each row after an upsert comes from an old one with its key, which only *)
(* the upserted slot changes, or is the new one, which only an empty slot  *)
(* gets; the other tables stay.                                            *)
LEMMA UpsertedRows ==
    ASSUME NEW d \in Databases, NEW u \in Users, NEW s \in Slots, NEW a \in Positive
    PROVE  LET e   == Upserted(d, u, s, a)
               old == BidsAt(d, u, s)
               new == [id |-> NextId(d.bids), user |-> u, slot |-> s, amount |-> a] IN
           /\ e = [d EXCEPT !.bids = e.bids]
           /\ \A y \in e.bids :
                 \/ old = {} /\ y = new
                 \/ \E b \in d.bids : /\ y.id = b.id /\ y.user = b.user /\ y.slot = b.slot
                                      /\ y \in Bids
                                      /\ (y = b \/ b \in old)
                                      /\ (b \in old => y = [b EXCEPT !.amount = a])
           /\ \A b \in d.bids : \E y \in e.bids : y.id = b.id
<1> DEFINE e == Upserted(d, u, s, a)
           old == BidsAt(d, u, s)
           new == [id |-> NextId(d.bids), user |-> u, slot |-> s, amount |-> a]
<1>1. d.bids \in SUBSET Bids
  BY DEF Databases
<1>2. e.bids = IF old = {} THEN d.bids \cup {new}
               ELSE (d.bids \ old) \cup {[b EXCEPT !.amount = a] : b \in old}
  BY DEF Upserted, Databases
<1>3. \A y \in e.bids :
        \/ old = {} /\ y = new
        \/ \E b \in d.bids : /\ y.id = b.id /\ y.user = b.user /\ y.slot = b.slot
                             /\ y \in Bids
                             /\ (y = b \/ b \in old)
                             /\ (b \in old => y = [b EXCEPT !.amount = a])
  BY <1>1, <1>2 DEF BidsAt, Bids
<1>4. \A b \in d.bids : \E y \in e.bids : y.id = b.id
  <2> TAKE b \in d.bids
  <2>1. CASE old = {}
    BY <1>2, <2>1
  <2>2. CASE old # {} /\ b \in old
    <3>1. [b EXCEPT !.amount = a] \in e.bids
      BY <1>2, <2>2
    <3>2. [b EXCEPT !.amount = a].id = b.id
      BY <1>1 DEF Bids
    <3> QED BY <3>1, <3>2
  <2>3. CASE old # {} /\ b \notin old
    BY <1>2, <2>3
  <2> QED BY <2>1, <2>2, <2>3
<1>5. e = [d EXCEPT !.bids = e.bids]
  BY <1>2 DEF Upserted, Databases
<1> QED BY <1>3, <1>4, <1>5

LEMMA UpsertedIntact ==
    ASSUME NEW d, Intact(d), NEW u \in Users, NEW s \in Slots, NEW a \in Positive
    PROVE  Intact(Upserted(d, u, s, a))
<1> DEFINE e == Upserted(d, u, s, a)
           old == BidsAt(d, u, s)
           new == [id |-> NextId(d.bids), user |-> u, slot |-> s, amount |-> a]
<1>1. d \in Databases /\ d.bids \in SUBSET Bids
  BY DEF Intact, Databases
<1>2. PICK n \in Nat : \A b \in d.bids : b.id <= n
  BY DEF Intact, Bounded
<1>3. /\ NextId(d.bids) \in Positive
      /\ \A b \in d.bids : b.id < NextId(d.bids)
      /\ NextId(d.bids) <= n + 1
  BY <1>1, <1>2, NextIdFresh
<1>4. e = [d EXCEPT !.bids = e.bids]
  BY <1>1, UpsertedRows
<1>5. /\ e.impressions = d.impressions /\ e.clicks = d.clicks
      /\ e.wallet = d.wallet /\ e.accounts = d.accounts /\ e.billed = d.billed
  BY <1>1 DEF Upserted, Databases
<1>6. \A y \in e.bids :
        \/ old = {} /\ y = new
        \/ \E b \in d.bids : /\ y.id = b.id /\ y.user = b.user /\ y.slot = b.slot
                             /\ y \in Bids
                             /\ (y = b \/ b \in old)
                             /\ (b \in old => y = [b EXCEPT !.amount = a])
  BY <1>1, UpsertedRows
<1>7. \A b \in d.bids : \E y \in e.bids : y.id = b.id
  BY <1>1, UpsertedRows
<1>8. new \in Bids
  BY <1>3 DEF Bids
<1>9. e \in Databases
  <2>1. e.bids \in SUBSET Bids
    BY <1>1, <1>6, <1>8
  <2> DEFINE B == e.bids
  <2> HIDE DEF B, e
  <2>2. [d EXCEPT !.bids = B] \in Databases
    BY <1>1, <2>1 DEF Databases, B
  <2> QED BY <1>4, <2>2 DEF B
<1>10. Linked(e)
  <2>1. ASSUME NEW y1 \in e.bids, NEW y2 \in e.bids,
               y1.id = y2.id \/ (y1.user = y2.user /\ y1.slot = y2.slot)
        PROVE  y1 = y2
    <3>1. \A b \in d.bids : b.id # new.id /\ (old = {} => ~(b.user = u /\ b.slot = s))
      BY <1>1, <1>3 DEF Bids, BidsAt, Positive
    <3>2. \A b1, b2 \in d.bids :
            b1.id = b2.id \/ (b1.user = b2.user /\ b1.slot = b2.slot) => b1 = b2
      BY DEF Intact, Linked
    <3>3. new.id = NextId(d.bids) /\ new.user = u /\ new.slot = s
      OBVIOUS
    <3> HIDE DEF e, new, old
    <3>4. CASE y1 = new \/ y2 = new
      BY <1>6, <2>1, <3>1, <3>3, <3>4
    <3>5. CASE y1 # new /\ y2 # new
      <4>1. PICK b1 \in d.bids :
              y1.id = b1.id /\ y1.user = b1.user /\ y1.slot = b1.slot
              /\ (y1 = b1 \/ b1 \in old) /\ (b1 \in old => y1 = [b1 EXCEPT !.amount = a])
        BY <1>6, <3>5
      <4>2. PICK b2 \in d.bids :
              y2.id = b2.id /\ y2.user = b2.user /\ y2.slot = b2.slot
              /\ (y2 = b2 \/ b2 \in old) /\ (b2 \in old => y2 = [b2 EXCEPT !.amount = a])
        BY <1>6, <3>5
      <4>3. b1 = b2
        BY <2>1, <3>2, <4>1, <4>2
      <4> QED BY <4>1, <4>2, <4>3
    <3> QED BY <3>4, <3>5
  <2>2. \A k : BidsWithId(d, k) # {} => BidsWithId(e, k) # {}
    <3> HIDE DEF e
    <3> QED BY <1>7 DEF BidsWithId
  <2> HIDE DEF e
  <2> QED BY <1>5, <2>1, <2>2 DEF Linked, Intact
<1>11. ClickedOnce(e) /\ InRange(e)
  BY <1>5 DEF Intact, ClickedOnce, InRange
<1>12. Bounded(e)
  <2>1. \A y \in e.bids : y.id <= n + 1
    <3>1. \A b \in d.bids : b.id \in Nat /\ b.id <= n
      BY <1>1, <1>2 DEF Bids, Positive
    <3>2. new.id <= n + 1
      BY <1>3
    <3> HIDE DEF e, new
    <3> QED BY <1>6, <3>1, <3>2
  <2> QED BY <2>1 DEF Bounded
<1> QED BY <1>9, <1>10, <1>11, <1>12 DEF Intact

LEMMA WithoutBidsIntact ==
    ASSUME NEW d, Intact(d), NEW gone \in SUBSET d.bids
    PROVE  Intact(WithoutBids(d, gone))
<1> DEFINE e == WithoutBids(d, gone)
           ids == {b.id : b \in gone}
<1>1. d \in Databases
  BY DEF Intact
<1>2. /\ e.bids = d.bids \ gone
      /\ e.impressions = {i \in d.impressions : i.bid \notin ids}
      /\ e.clicks = {c \in d.clicks : c.bid \notin ids}
      /\ e.wallet = d.wallet
  BY <1>1 DEF WithoutBids, Databases
<1>3. e \in Databases
  <2>1. /\ d.bids \ gone \in SUBSET Bids
        /\ {i \in d.impressions : i.bid \notin ids} \in SUBSET Impressions
        /\ {c \in d.clicks : c.bid \notin ids} \in SUBSET Clicks
    BY <1>1 DEF Databases
  <2> QED BY <1>1, <2>1 DEF WithoutBids, Databases
<1>4. Linked(e)
  <2>1. \A b \in d.bids : b.id \notin ids => b \in e.bids
    BY <1>2
  <2>2. \A k : k \notin ids /\ BidsWithId(d, k) # {} => BidsWithId(e, k) # {}
    <3> HIDE DEF e, ids
    <3> QED BY <2>1 DEF BidsWithId
  <2>3. /\ \A i \in e.impressions : i \in d.impressions /\ i.bid \notin ids
        /\ \A c \in e.clicks : c \in d.clicks /\ c.bid \notin ids
        /\ \A b \in e.bids : b \in d.bids
    BY <1>2
  <2> HIDE DEF e, ids
  <2> QED BY <2>2, <2>3 DEF Intact, Linked
<1>5. ClickedOnce(e) /\ InRange(e) /\ Bounded(e)
  BY <1>2 DEF Intact, ClickedOnce, InRange, Bounded
<1> QED BY <1>3, <1>4, <1>5 DEF Intact

LEMMA ShownIntact ==
    ASSUME NEW d, Intact(d), NEW i \in Impressions, CanShow(d, i)
    PROVE  Intact(Shown(d, i))
<1> DEFINE e == Shown(d, i)
<1>1. d \in Databases
  BY DEF Intact
<1>2. /\ e.impressions = d.impressions \cup {i} /\ e.bids = d.bids
      /\ e.clicks = d.clicks /\ e.wallet = d.wallet
  BY <1>1 DEF Shown, Databases
<1>3. e \in Databases
  BY <1>1 DEF Shown, Databases
<1>4. Linked(e)
  BY <1>2 DEF Intact, Linked, CanShow, QuotesOf, BidsWithId
<1>5. ClickedOnce(e) /\ InRange(e) /\ Bounded(e)
  BY <1>2 DEF Intact, ClickedOnce, InRange, Bounded
<1> QED BY <1>3, <1>4, <1>5 DEF Intact

LEMMA ClickedIntact ==
    ASSUME NEW d, Intact(d), NEW c \in Clicks, CanClick(d, c)
    PROVE  Intact(Clicked(d, c))
<1> DEFINE e == Clicked(d, c)
<1>1. d \in Databases
  BY DEF Intact
<1>2. [d.billed EXCEPT ![c.user] = @ + c.charged] \in [Users -> Nat]
  BY <1>1 DEF Databases, Clicks
<1>3. /\ e.clicks = d.clicks \cup {c} /\ e.bids = d.bids
      /\ e.impressions = d.impressions /\ e.wallet = d.wallet
  BY <1>1 DEF Clicked, Databases
<1>4. e \in Databases
  BY <1>1, <1>2 DEF Clicked, Databases
<1>5. Linked(e)
  BY <1>3 DEF Intact, Linked, CanClick, BidsWithId
<1>6. ClickedOnce(e)
  BY <1>3 DEF Intact, ClickedOnce, CanClick, ClicksOf
<1>7. InRange(e) /\ Bounded(e)
  BY <1>3 DEF Intact, InRange, Bounded
<1> QED BY <1>4, <1>5, <1>6, <1>7 DEF Intact

(* The guard of the UPDATE keeps the wallet from going below zero.         *)
LEMMA DebitedIntact ==
    ASSUME NEW d, Intact(d), NEW u \in Users, NEW price \in Nat, d.wallet[u] >= price
    PROVE  Intact(Debited(d, u, price))
<1> DEFINE e == Debited(d, u, price)
<1>1. d \in Databases /\ InRange(d) /\ d.wallet \in [Users -> Int]
  BY DEF Intact, Databases
<1>2. [d.wallet EXCEPT ![u] = @ - price] \in [Users -> Int]
  BY <1>1
<1>3. /\ e.wallet = [d.wallet EXCEPT ![u] = @ - price] /\ e.bids = d.bids
      /\ e.clicks = d.clicks /\ e.impressions = d.impressions
  BY <1>1 DEF Debited, Databases
<1>4. e \in Databases
  BY <1>1, <1>2 DEF Debited, Databases
<1>5. Linked(e) /\ ClickedOnce(e) /\ Bounded(e)
  BY <1>3 DEF Intact, Linked, ClickedOnce, Bounded, BidsWithId
<1>6. InRange(e)
  <2>1. d.wallet[u] - price \in 0..SignupBalance
    BY <1>1, SignupAssumption DEF InRange
  <2> QED BY <1>1, <1>3, <2>1 DEF InRange
<1> QED BY <1>4, <1>5, <1>6 DEF Intact
-----------------------------------------------------------------------------
(* The entries of the books.  Each keeps a database in order: that a       *)
(* wallet and its bills add up rests on bids and bills being those of      *)
(* signed-up accounts, and that a charge is the one quoted rests on an     *)
(* impression being of the account that owns its bid.                      *)
Sound(d) == InOrder(d) /\ Bounded(d)

LEMMA SoundParts ==
    ASSUME NEW d, Sound(d)
    PROVE  /\ Intact(d) /\ d \in Databases /\ Linked(d)
           /\ Opened(d) /\ OwnQuotes(d) /\ InBalance(d) /\ AsQuoted(d)
BY DEF Sound, InOrder, Intact

(* What an intact database still has to show.                              *)
LEMMA SoundBecomes ==
    ASSUME NEW e, Intact(e), Opened(e), OwnQuotes(e), InBalance(e), AsQuoted(e)
    PROVE  Sound(e)
BY DEF Sound, InOrder, Intact

LEMMA SignedUpSound ==
    ASSUME NEW d, Sound(d), NEW u \in Users \ d.accounts
    PROVE  Sound(SignedUp(d, u))
<1> DEFINE e == SignedUp(d, u)
<1>1. Intact(e)
  BY SoundParts, SignedUpIntact
<1>2. /\ e.accounts = d.accounts \cup {u} /\ e.wallet = [d.wallet EXCEPT ![u] = SignupBalance]
      /\ e.bids = d.bids /\ e.impressions = d.impressions /\ e.clicks = d.clicks
      /\ e.billed = d.billed
  BY SoundParts DEF SignedUp, Databases
<1>3. d.wallet \in [Users -> Int] /\ d.billed \in [Users -> Nat] /\ d.accounts \subseteq Users
  BY SoundParts DEF Databases
<1> HIDE DEF e
<1>4. Opened(e)
  BY <1>2, <1>3, SoundParts DEF Opened
<1>5. OwnQuotes(e) /\ AsQuoted(e)
  BY <1>2, SoundParts DEF OwnQuotes, AsQuoted
<1>6. InBalance(e)
  <2> SUFFICES ASSUME NEW x \in e.accounts PROVE e.wallet[x] + e.billed[x] = SignupBalance
    BY DEF InBalance
  <2>1. CASE x = u
    <3>1. e.wallet[x] = SignupBalance /\ e.billed[x] = 0
      BY <1>2, <1>3, <2>1, SoundParts DEF Opened
    <3> QED BY <3>1, SignupAssumption
  <2>2. CASE x # u
    <3>1. x \in d.accounts /\ e.wallet[x] = d.wallet[x] /\ e.billed[x] = d.billed[x]
      BY <1>2, <1>3, <2>2
    <3> QED BY <3>1, SoundParts DEF InBalance
  <2> QED BY <2>1, <2>2
<1>7. Sound(e)
  BY <1>1, <1>4, <1>5, <1>6, SoundBecomes
<1> QED BY <1>7 DEF e

(* A bid that keeps its id keeps its owner, and a new id has no impression *)
(* yet: the impressions of a deleted bid went with it.                     *)
LEMMA UpsertedSound ==
    ASSUME NEW d, Sound(d), NEW u \in d.accounts, NEW s \in Slots, NEW a \in Positive
    PROVE  Sound(Upserted(d, u, s, a))
<1>1. d \in Databases /\ u \in Users /\ d.bids \in SUBSET Bids
  BY SoundParts DEF Databases
<1> DEFINE e == Upserted(d, u, s, a)
<1>2. Intact(e)
  BY <1>1, SoundParts, UpsertedIntact
<1>3. e = [d EXCEPT !.bids = e.bids]
  BY <1>1, UpsertedRows
<1>4. /\ e.accounts = d.accounts /\ e.wallet = d.wallet /\ e.billed = d.billed
      /\ e.impressions = d.impressions /\ e.clicks = d.clicks
  BY <1>1 DEF Upserted, Databases
<1>5. \A y \in e.bids :
        \/ y.user = u /\ y.id = NextId(d.bids)
        \/ \E b \in d.bids : y.id = b.id /\ y.user = b.user
  BY <1>1, UpsertedRows
<1> HIDE DEF e
<1>6. Opened(e)
  BY <1>4, <1>5, SoundParts DEF Opened
<1>7. OwnQuotes(e)
  <2>1. PICK n \in Nat : \A b \in d.bids : b.id <= n
    BY DEF Sound, Bounded
  <2>2. \A b \in d.bids : b.id < NextId(d.bids)
    BY <1>1, <2>1, NextIdFresh
  <2>3. \A i \in d.impressions : \E b \in d.bids : b.id = i.bid
    BY SoundParts DEF Linked, BidsWithId
  <2>4. NextId(d.bids) \in Nat /\ \A b \in d.bids : b.id \in Nat
    BY <1>1, <2>1, NextIdFresh DEF Bids, Positive
  <2>5. \A i \in d.impressions : i.bid # NextId(d.bids)
    BY <2>2, <2>3, <2>4
  <2> QED BY <1>4, <1>5, <2>5, SoundParts DEF OwnQuotes
<1>8. InBalance(e) /\ AsQuoted(e)
  BY <1>4, SoundParts DEF InBalance, AsQuoted
<1>9. Sound(e)
  BY <1>2, <1>6, <1>7, <1>8, SoundBecomes
<1> QED BY <1>9 DEF e

(* A click that survives a deletion is of a bid that survives, and so does *)
(* its impression.                                                         *)
LEMMA WithoutBidSound ==
    ASSUME NEW d, Sound(d), NEW b \in d.bids
    PROVE  Sound(WithoutBids(d, {b}))
<1> DEFINE e == WithoutBids(d, {b})
<1>1. Intact(e)
  BY SoundParts, WithoutBidsIntact
<1>2. /\ e.accounts = d.accounts /\ e.wallet = d.wallet /\ e.billed = d.billed
      /\ e.bids = d.bids \ {b}
      /\ e.impressions = {i \in d.impressions : i.bid \notin {x.id : x \in {b}}}
      /\ e.clicks = {c \in d.clicks : c.bid \notin {x.id : x \in {b}}}
  BY SoundParts DEF WithoutBids, Databases
<1> HIDE DEF e
<1>3. Opened(e) /\ OwnQuotes(e) /\ InBalance(e)
  BY <1>2, SoundParts DEF Opened, OwnQuotes, InBalance
<1>4. AsQuoted(e)
  <2> SUFFICES ASSUME NEW c \in e.clicks, c.charged > 0
               PROVE  [rid |-> c.rid, bid |-> c.bid, user |-> c.user, price |-> c.charged]
                        \in e.impressions
    BY DEF AsQuoted
  <2> DEFINE i == [rid |-> c.rid, bid |-> c.bid, user |-> c.user, price |-> c.charged]
  <2>1. i \in d.impressions
    BY <1>2, SoundParts DEF AsQuoted
  <2> QED BY <1>2, <2>1
<1>5. Sound(e)
  BY <1>1, <1>3, <1>4, SoundBecomes
<1> QED BY <1>5 DEF e

LEMMA ShownSound ==
    ASSUME NEW d, Sound(d), NEW b \in d.bids, NEW r \in RequestIds,
           NEW price \in 1..b.amount,
           CanShow(d, [rid |-> r, bid |-> b.id, user |-> b.user, price |-> price])
    PROVE  Sound(Shown(d, [rid |-> r, bid |-> b.id, user |-> b.user, price |-> price]))
<1> DEFINE i == [rid |-> r, bid |-> b.id, user |-> b.user, price |-> price]
           e == Shown(d, i)
<1>1. b \in Bids
  BY SoundParts DEF Databases
<1>2. i \in Impressions
  BY <1>1 DEF Bids, Impressions, Positive
<1>3. Intact(e)
  BY <1>2, SoundParts, ShownIntact
<1>4. /\ e.accounts = d.accounts /\ e.wallet = d.wallet /\ e.billed = d.billed
      /\ e.bids = d.bids /\ e.clicks = d.clicks /\ e.impressions = d.impressions \cup {i}
  BY SoundParts DEF Shown, Databases
<1>5. i.bid = b.id /\ i.user = b.user
  OBVIOUS
<1> HIDE DEF e, i
<1>6. Opened(e) /\ InBalance(e) /\ AsQuoted(e)
  BY <1>4, SoundParts DEF Opened, InBalance, AsQuoted
<1>7. OwnQuotes(e)
  BY <1>4, <1>5, SoundParts DEF OwnQuotes, Linked
<1>8. Sound(e)
  BY <1>3, <1>6, <1>7, SoundBecomes
<1> QED BY <1>8 DEF e, i

(* A quote for a bid is of the account that owns the bid.                  *)
LEMMA QuotedSound ==
    ASSUME NEW d, Sound(d), NEW b \in d.bids, NEW r, NEW i \in QuotesOf(d, r), i.bid = b.id
    PROVE  /\ i.price \in Positive
           /\ [rid |-> r, bid |-> b.id, user |-> b.user, price |-> i.price] \in d.impressions
<1>1. i \in d.impressions /\ i.rid = r /\ i \in Impressions
  BY SoundParts DEF QuotesOf, Databases
<1>2. i.user = b.user
  BY <1>1, SoundParts DEF OwnQuotes
<1>3. i = [rid |-> r, bid |-> b.id, user |-> b.user, price |-> i.price]
  BY <1>1, <1>2 DEF Impressions
<1> QED BY <1>1, <1>3 DEF Impressions

(* The wallet loses what the click is billed, which is nothing or a price  *)
(* quoted for the bid that the wallet covers.                              *)
LEMMA BilledSound ==
    ASSUME NEW d, Sound(d), NEW b \in d.bids, NEW r \in RequestIds \cup {NoRequest},
           NEW price \in Nat, price <= d.wallet[b.user],
           price > 0 => [rid |-> r, bid |-> b.id, user |-> b.user, price |-> price]
                          \in d.impressions,
           CanClick(d, [bid |-> b.id, rid |-> r, user |-> b.user, charged |-> price])
    PROVE  Sound(Clicked(Debited(d, b.user, price),
                         [bid |-> b.id, rid |-> r, user |-> b.user, charged |-> price]))
<1> DEFINE u == b.user
           c == [bid |-> b.id, rid |-> r, user |-> u, charged |-> price]
           paid == Debited(d, u, price)
           e == Clicked(paid, c)
<1>1. b \in Bids /\ u \in Users /\ u \in d.accounts
  BY SoundParts DEF Databases, Bids, Opened
<1>2. /\ d.wallet \in [Users -> Int] /\ d.billed \in [Users -> Nat]
      /\ d.accounts \subseteq Users /\ d.wallet[u] \in 0..SignupBalance
  BY <1>1, SoundParts DEF Databases, Intact, InRange
<1>3. c \in Clicks
  BY <1>1 DEF Bids, Clicks
<1>4. Intact(paid)
  BY <1>1, <1>2, SoundParts, DebitedIntact
<1>5. /\ paid.accounts = d.accounts /\ paid.wallet = [d.wallet EXCEPT ![u] = @ - price]
      /\ paid.bids = d.bids /\ paid.impressions = d.impressions
      /\ paid.clicks = d.clicks /\ paid.billed = d.billed
  BY SoundParts DEF Debited, Databases
<1>6. CanClick(paid, c)
  <2>1. CanClick(d, c)
    OBVIOUS
  <2> HIDE DEF paid, c
  <2> QED BY <1>5, <2>1 DEF CanClick, ClicksOf, BidsWithId
<1>7. Intact(e)
  BY <1>3, <1>4, <1>6, ClickedIntact
<1>8. /\ e.accounts = d.accounts /\ e.wallet = [d.wallet EXCEPT ![u] = @ - price]
       /\ e.bids = d.bids /\ e.impressions = d.impressions
       /\ e.clicks = d.clicks \cup {c} /\ e.billed = [d.billed EXCEPT ![u] = @ + price]
  <2>1. paid \in Databases
    BY <1>4 DEF Intact
  <2> HIDE DEF paid
  <2> QED BY <1>5, <2>1 DEF Clicked, Databases
<1> HIDE DEF e, paid
<1>9. Opened(e)
  BY <1>1, <1>2, <1>8, SoundParts DEF Opened
<1>10. OwnQuotes(e)
  BY <1>8, SoundParts DEF OwnQuotes
<1>11. InBalance(e)
  <2> SUFFICES ASSUME NEW x \in d.accounts
               PROVE  e.wallet[x] + e.billed[x] = SignupBalance
    BY <1>8 DEF InBalance
  <2>1. d.wallet[x] + d.billed[x] = SignupBalance /\ x \in Users
    BY <1>2, SoundParts DEF InBalance
  <2>2. CASE x = u
    <3>1. e.wallet[x] = d.wallet[x] - price /\ e.billed[x] = d.billed[x] + price
      BY <1>2, <1>8, <2>1, <2>2
    <3>2. d.wallet[x] \in Int /\ d.billed[x] \in Int /\ price \in Int
      BY <1>2, <2>1
    <3> QED BY <2>1, <3>1, <3>2
  <2>3. CASE x # u
    <3>1. e.wallet[x] = d.wallet[x] /\ e.billed[x] = d.billed[x]
      BY <1>2, <1>8, <2>1, <2>3
    <3> QED BY <2>1, <3>1
  <2> QED BY <2>2, <2>3
<1>12. AsQuoted(e)
  <2>1. c.charged > 0 => [rid |-> c.rid, bid |-> c.bid, user |-> c.user, price |-> c.charged]
                           \in d.impressions
    OBVIOUS
  <2> HIDE DEF c
  <2> QED BY <1>8, <2>1, SoundParts DEF AsQuoted
<1>13. Sound(e)
  BY <1>7, <1>9, <1>10, <1>11, <1>12, SoundBecomes
<1> QED BY <1>13 DEF e, paid
-----------------------------------------------------------------------------
HasAmounts(C) == \A o \in C : o.amount \in Nat \ {0}

(* Nobody bids more than a leader.                                         *)
LEMMA LeaderBidsMost ==
    ASSUME NEW C, HasAmounts(C), NEW w \in Leaders(C), NEW o \in C
    PROVE  o.amount <= w.amount
BY DEF Leaders, Before, HasAmounts

(* The second entry's amount is the largest amount among the others.       *)
LEMMA RunnerUp ==
    ASSUME NEW C, HasAmounts(C), NEW w \in Leaders(C), C # {w}
    PROVE  /\ RunnerUpAmount(C, w) \in Nat \ {0}
           /\ RunnerUpAmount(C, w) <= w.amount
           /\ \A o \in C \ {w} : o.amount <= RunnerUpAmount(C, w)
<1> DEFINE A == {o.amount : o \in C \ {w}}
<1>1. w \in C
  BY DEF Leaders
<1>2. A # {} /\ A \in SUBSET Nat
  BY <1>1 DEF HasAmounts
<1>3. w.amount \in Nat /\ \A a \in A : a <= w.amount
  BY <1>1, LeaderBidsMost DEF HasAmounts
<1>4. \E a \in A : \A b \in A : b <= a
  <2> HIDE DEF A
  <2> QED BY <1>2, <1>3, Greatest
<1>5. \E a \in A : \A o \in C \ {w} : o.amount <= a
  BY <1>4
<1>6. RunnerUpAmount(C, w) \in A /\ \A o \in C \ {w} : o.amount <= RunnerUpAmount(C, w)
  BY <1>5 DEF RunnerUpAmount
<1>7. \A a \in A : a \in Nat \ {0}
  BY DEF HasAmounts
<1> HIDE DEF A
<1> QED BY <1>3, <1>6, <1>7

(* "The price is capped at the winner's bid so the model stays truthful":  *)
(* the quote is at least one coin and at most the winner's own amount, and *)
(* no bidder below the winner's amount would have outbid it.               *)
THEOREM PriceWithinBid ==
    ASSUME NEW C, HasAmounts(C), NEW w \in Leaders(C)
    PROVE  /\ Price(C, w) \in 1..w.amount
           /\ \A o \in C \ {w} : o.amount < w.amount => o.amount < Price(C, w)
<1>1. w.amount \in Nat \ {0}
  BY DEF Leaders, HasAmounts
<1>2. CASE C = {w}
  BY <1>1, <1>2 DEF Price, Larger
<1>3. CASE C # {w}
  <2>1. Price(C, w) = Larger(Smaller(w.amount, RunnerUpAmount(C, w) + 1), 1)
    BY <1>3 DEF Price
  <2>2. /\ RunnerUpAmount(C, w) \in Nat /\ RunnerUpAmount(C, w) >= 1
        /\ \A o \in C \ {w} : o.amount <= RunnerUpAmount(C, w)
    BY <1>3, RunnerUp
  <2>3. \A o \in C : o.amount \in Nat
    BY DEF HasAmounts
  <2> QED BY <1>1, <2>1, <2>2, <2>3 DEF Larger, Smaller
<1> QED BY <1>2, <1>3

(* With a rival the price is the rivals' doing alone: whatever a winner    *)
(* bids beyond all of them, it is quoted one coin more than the best of    *)
(* them (select_winner; a winner without rivals pays half its own bid).    *)
THEOREM RivalsSetThePrice ==
    ASSUME NEW C, HasAmounts(C), NEW w \in Leaders(C), C # {w},
           NEW v, v \notin C \ {w}, v.amount \in Nat,
           \A o \in C \ {w} : o.amount < w.amount /\ o.amount < v.amount
    PROVE  /\ Price((C \ {w}) \cup {v}, v) = Price(C, w)
           /\ \E o \in C \ {w} : Price(C, w) = o.amount + 1
<1> DEFINE D == (C \ {w}) \cup {v}
           best == RunnerUpAmount(C, w)
<1>1. D \ {v} = C \ {w} /\ C \ {w} # {} /\ D # {v} /\ w \in C
  BY DEF Leaders
<1>2. RunnerUpAmount(D, v) = best
  <2> HIDE DEF D
  <2> QED BY <1>1 DEF RunnerUpAmount
<1>3. PICK o \in C \ {w} : best = o.amount
  <2>1. PICK o \in C \ {w} : \A a \in C \ {w} : a.amount <= o.amount
    <3> DEFINE A == {a.amount : a \in C \ {w}}
    <3>1. A \in SUBSET Nat /\ A # {} /\ best \in Nat /\ \A k \in A : k <= best
      BY <1>1, RunnerUp DEF HasAmounts
    <3> HIDE DEF best, A
    <3>2. PICK m \in A : \A k \in A : k <= m
      BY <3>1, Greatest
    <3> QED BY <3>2 DEF A
  <2>2. best \in {a.amount : a \in C \ {w}}
    BY <2>1 DEF RunnerUpAmount
  <2> QED BY <2>2
<1>4. w.amount \in Nat /\ best \in Nat /\ best < w.amount /\ best < v.amount
  BY <1>1, <1>3 DEF HasAmounts
<1> HIDE DEF best, D
<1>5. Price(C, w) = best + 1
  BY <1>4 DEF Price, Larger, Smaller, best
<1>6. Price(D, v) = best + 1
  BY <1>1, <1>2, <1>4 DEF Price, Larger, Smaller
<1> QED BY <1>3, <1>5, <1>6 DEF D
==============================================================================
