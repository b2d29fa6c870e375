--------------------------- MODULE ClickLedgerProofs ---------------------------
(***************************************************************************)
(* The promised books keep their promises, for every number of accounts,   *)
(* slots, page views and bids.  The invariant is Sound (AdsTablesProofs):  *)
(* InOrder with a bound on bid ids, which a fresh id needs.                *)
(***************************************************************************)
EXTENDS ClickLedger, AdsTablesProofs

Inv == Sound(ledger)

(* What a click is due: nothing, or a price quoted to it that the wallet   *)
(* covers.                                                                 *)
LEMMA DueQuoted ==
    ASSUME Inv, NEW b \in ledger.bids, NEW r
    PROVE  /\ Due(b, r) \in Nat /\ Due(b, r) <= ledger.wallet[b.user]
           /\ Due(b, r) > 0 => [rid |-> r, bid |-> b.id, user |-> b.user, price |-> Due(b, r)]
                                 \in ledger.impressions
<1> DEFINE IsQuote(i) == i \in QuotesOf(ledger, r) /\ i.bid = b.id
           Covers(i) == i.price <= ledger.wallet[b.user]
<1>1. CASE ~ \E i : IsQuote(i) /\ Covers(i)
  <2>1. Due(b, r) = 0
    BY <1>1 DEF Due
  <2>2. ledger.wallet[b.user] \in 0..SignupBalance
    BY SoundParts DEF Inv, Databases, Bids, Intact, InRange
  <2> QED BY <2>1, <2>2, SignupAssumption
<1>2. CASE \E i : IsQuote(i) /\ Covers(i)
  <2>1. PICK i : IsQuote(i) /\ Covers(i) /\ Due(b, r) = i.price
    BY <1>2 DEF Due
  <2>2. i.price \in Positive
        /\ [rid |-> r, bid |-> b.id, user |-> b.user, price |-> i.price] \in ledger.impressions
    BY <2>1, QuotedSound DEF Inv
  <2> QED BY <2>1, <2>2 DEF Positive
<1> QED BY <1>1, <1>2

(* Every operation of the books is an entry that keeps them in order.      *)
LEMMA NextKeeps ==
    ASSUME Inv, Next
    PROVE  Inv'
<1>1. CASE Register
  BY <1>1, SignedUpSound DEF Inv, Register
<1>2. CASE PlaceBid
  BY <1>2, UpsertedSound, AmountsAssumption DEF Inv, PlaceBid
<1>3. CASE DeleteBid
  BY <1>3, WithoutBidSound DEF Inv, DeleteBid
<1>4. CASE Show
  BY <1>4, ShownSound DEF Inv, Show
<1>5. CASE Bill
  BY <1>5, BilledSound, DueQuoted DEF Inv, Bill
<1> QED BY <1>1, <1>2, <1>3, <1>4, <1>5 DEF Next
-----------------------------------------------------------------------------
LEMMA AlwaysInv == Spec => []Inv
<1>1. Init => Inv
  BY LedgerAssumption DEF Init, Inv, Sound, Bounded
<1>2. Inv /\ [Next]_ledger => Inv'
  BY NextKeeps DEF Inv
<1> QED BY <1>1, <1>2, PTL DEF Spec

(* Wallet and bills of every account always add up to the sign-up balance  *)
(* (record_click), whatever is bid, shown, clicked and deleted.            *)
THEOREM BooksBalance == Spec => []Balanced
<1>1. Inv => Balanced
  BY DEF Inv, Sound, InOrder, Balanced
<1> QED BY <1>1, AlwaysInv, PTL

(* No wallet is overdrawn or topped up.                                    *)
THEOREM WalletsSolvent == Spec => []Solvent
<1>1. Inv => Solvent
  BY DEF Inv, Sound, InOrder, Solvent
<1> QED BY <1>1, AlwaysInv, PTL

(* Each charge on record is the price of an impression on record, shown    *)
(* for the account that paid, although bid ids are given out again.        *)
THEOREM ChargesQuoted == Spec => []ChargedAsQuoted
<1>1. Inv => ChargedAsQuoted
  BY DEF Inv, Sound, InOrder, ChargedAsQuoted
<1> QED BY <1>1, AlwaysInv, PTL

(* The ledger stays well typed: bid ids are positive, charges natural.     *)
THEOREM TypesHold == Spec => []TypeOK
<1>1. Inv => TypeOK
  BY DEF Inv, Sound, InOrder, TypeOK
<1> QED BY <1>1, AlwaysInv, PTL

(* A page view is billed once (clicks_unique_by_request).                  *)
THEOREM ViewsBilledOnce == Spec => []BilledOnce
<1>1. Inv => BilledOnce
  BY DEF Inv, Sound, InOrder, BilledOnce
<1> QED BY <1>1, AlwaysInv, PTL
=============================================================================
