---------------------------- MODULE MCClickLedger ----------------------------
(* A small instance of ClickLedger: two advertisers, three coins each.       *)
EXTENDS ClickLedger

EmptyBooks == [accounts |-> {}, wallet |-> [u \in Users |-> 0], bids |-> {},
               impressions |-> {}, clicks |-> {}, billed |-> [u \in Users |-> 0]]
==============================================================================
