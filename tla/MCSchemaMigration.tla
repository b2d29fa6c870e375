--------------------------- MODULE MCSchemaMigration ---------------------------
(* Two bids with a click each, one of them quoted, and a second click on    *)
(* the first that nobody quoted.                                            *)
EXTENDS SchemaMigration, TLC

CONSTANTS b1, b2, c1, c2, c3

MCBidOf == (c1 :> b1) @@ (c2 :> b2) @@ (c3 :> b1)
MCQuote == (c1 :> 2) @@ (c2 :> 1) @@ (c3 :> 0)
==============================================================================
