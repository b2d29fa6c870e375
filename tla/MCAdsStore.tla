----------------------------- MODULE MCAdsStore -----------------------------
(* Small instances of AdsStore: two or three advertisers, one query that an *)
(* exact and a phrase bid match, wallets of a few coins.                    *)
EXTENDS AdsStore, TLC

CONSTANTS u1, u2, u3, exactSlot, phraseSlot, q, r1, r2, none, h1, h2, h3, h4

MCSlots == {exactSlot, phraseSlot}
MCHits == [x \in {q} |-> {exactSlot, phraseSlot}]

Books0 == [accounts |-> {u1, u2},
           wallet |-> [u \in Users |-> IF u \in {u1, u2} THEN SignupBalance ELSE 0],
           bids |-> {}, impressions |-> {}, clicks |-> {},
           billed |-> [u \in Users |-> 0]]

(* u1 bids 3 for the exact query, u2 bids 2 for the phrase; a search with   *)
(* id r1 was shown the ad of u1 at the second price.                        *)
B1 == [id |-> 1, user |-> u1, slot |-> exactSlot, amount |-> 3]
B2 == [id |-> 2, user |-> u2, slot |-> phraseSlot, amount |-> 2]
Books1 == [Books0 EXCEPT !.bids = {B1, B2},
           !.impressions = {[rid |-> r1, bid |-> 1, user |-> u1, price |-> 3]}]

Register(u)  == [kind |-> "register", user |-> u]
Place(u, s, a) == [kind |-> "place", user |-> u, slot |-> s, amount |-> a]
Delete(u, s) == [kind |-> "delete", user |-> u, slot |-> s]
Search(r)    == [kind |-> "search", query |-> q, rid |-> r]
Click(b, r)  == [kind |-> "click", bid |-> b, rid |-> r]

SerialWorkload ==
    {Register(u2), Register(u3), Place(u1, phraseSlot, 4), Place(u2, phraseSlot, 1),
     Delete(u1, exactSlot), Delete(u2, phraseSlot), Search(r1), Search(r2),
     Click(1, r1), Click(2, r2), Click(2, r1), Click(1, none)}

MixedWorkload ==
    {Place(u1, phraseSlot, 4), Delete(u1, exactSlot), Delete(u2, phraseSlot), Search(r1), Search(r2),
     Click(1, r1), Click(1, r2), Click(2, r2), Click(1, none)}

TwoClicks    == {Click(1, r1), Click(1, none)}
SearchPlace  == {Search(r2), Place(u1, phraseSlot, 4)}
SignupClick  == {Register(u3), Click(1, r1)}

Symmetric == Permutations(Https)
=============================================================================
