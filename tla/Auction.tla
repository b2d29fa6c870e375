------------------------------- MODULE Auction -------------------------------
(***************************************************************************)
(* The pure auction of src/app/ads/auction.py, over the candidate order    *)
(* that AdsService._collect_candidates establishes.  A candidate is any    *)
(* record with the fields id and amount.  The code passes a sorted list    *)
(* and looks at its first two entries only; a set and the sorting order    *)
(* say the same.                                                           *)
(***************************************************************************)
EXTENDS Integers

Larger(a, b)  == IF a >= b THEN a ELSE b
Smaller(a, b) == IF a <= b THEN a ELSE b

(* The sort key (-amount, created_at, id).  Rows are stamped in insertion  *)
(* order and a new row's id exceeds every live id, so among live rows the  *)
(* id decides as (created_at, id) does.                                    *)
Before(a, b) ==
    \/ a.amount > b.amount
    \/ a.amount = b.amount /\ a.id < b.id

(* The candidates that may stand first.  One, unless a stale snapshot puts *)
(* a deleted bid beside a new one that reuses its id.                      *)
Leaders(C) == {w \in C : \A o \in C : ~Before(o, w)}

(* The amount of the second entry of the sorted list.                      *)
RunnerUpAmount(C, w) ==
    CHOOSE a \in {o.amount : o \in C \ {w}} :
        \A o \in C \ {w} : o.amount <= a

(* select_winner: the cost per click quoted to the winner w of C.          *)
Price(C, w) ==
    IF C = {w}
      THEN Larger(1, w.amount \div 2)
      ELSE Larger(Smaller(w.amount, RunnerUpAmount(C, w) + 1), 1)
==============================================================================
