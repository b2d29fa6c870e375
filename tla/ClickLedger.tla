----------------------------- MODULE ClickLedger -----------------------------
(***************************************************************************)
(* What the ads layer promises an advertiser: signing up, bidding,         *)
(* removing a bid, showing an ad at a quoted price and billing a click are *)
(* each one indivisible change of the books.  record_click says so         *)
(* ("Atomically bill a click and persist it"); AdsStore is the program     *)
(* that is to keep the promise.                                            *)
(***************************************************************************)
EXTENDS AdsTables

CONSTANTS
    Amounts,        \* bid amounts that advertisers enter
    MaxBidId,       \* bound: the largest bid id given out
    InitialLedger   \* the books at the start

ASSUME AmountsAssumption == Amounts \subseteq Positive
ASSUME LedgerAssumption  ==
    /\ MaxBidId \in Nat
    /\ InOrder(InitialLedger) /\ \A b \in InitialLedger.bids : b.id <= MaxBidId

VARIABLE ledger

Register == \E u \in Users \ ledger.accounts : ledger' = SignedUp(ledger, u)

(* An amount above the wallet is refused (InsufficientFundsError).         *)
PlaceBid == \E u \in ledger.accounts, s \in Slots, a \in Amounts :
    /\ a <= ledger.wallet[u]
    /\ NextId(ledger.bids) <= MaxBidId
    /\ ledger' = Upserted(ledger, u, s, a)

DeleteBid == \E b \in ledger.bids : ledger' = WithoutBids(ledger, {b})

(* A search shows a live bid and quotes a price no higher than the bid.    *)
Show == \E b \in ledger.bids, r \in RequestIds : \E price \in 1..b.amount :
    LET i == [rid |-> r, bid |-> b.id, user |-> b.user, price |-> price] IN
    CanShow(ledger, i) /\ ledger' = Shown(ledger, i)

(* Mutant: the wallet is not looked at.                                    *)
DueAnyway(b, r) ==
    LET quotes == {i \in QuotesOf(ledger, r) : i.bid = b.id} IN
    IF quotes = {} THEN 0 ELSE (CHOOSE i \in quotes : TRUE).price

(* A click pays the price quoted to it; a click nobody quoted, or one that *)
(* the wallet no longer covers, is free.                                   *)
Due(b, r) ==
    LET quotes == {i \in QuotesOf(ledger, r) : i.bid = b.id} IN
    IF \E i \in quotes : i.price <= ledger.wallet[b.user]
      THEN (CHOOSE i \in quotes : i.price <= ledger.wallet[b.user]).price
      ELSE 0

Bill == \E b \in ledger.bids, r \in RequestIds \cup {NoRequest} :
    LET c == [bid |-> b.id, rid |-> r, user |-> b.user, charged |-> Due(b, r)] IN
    CanClick(ledger, c) /\ ledger' = Clicked(Debited(ledger, b.user, c.charged), c)

Init == ledger = InitialLedger
Next == Register \/ PlaceBid \/ DeleteBid \/ Show \/ Bill
Spec == Init /\ [][Next]_ledger
-----------------------------------------------------------------------------
TypeOK == ledger \in Databases

(* Every account's wallet and the clicks it was billed for add up to what  *)
(* it signed up with: record_click neither loses nor invents a coin, and   *)
(* deleting a bid with its clicks refunds nothing.                         *)
Balanced == InBalance(ledger)

(* No sequence of clicks overdraws a wallet (CHECK (wallet >= 0)), and     *)
(* nothing tops one up.                                                    *)
Solvent == InRange(ledger)

(* A click that cost something was quoted exactly that, for an ad of the   *)
(* account that paid: the impression of its request id says so for as long *)
(* as the bid is there, even when bid ids are given out again.             *)
ChargedAsQuoted == AsQuoted(ledger)

(* A page view is billed once: no two click rows share bid and request id  *)
(* (clicks_unique_by_request).                                             *)
BilledOnce == ClickedOnce(ledger)
==============================================================================
