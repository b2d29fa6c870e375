-------------------------- MODULE SearchRoutingProofs --------------------------
(***************************************************************************)
(* SearchRouting for every set of backends, every configuration of rules,  *)
(* fallbacks and thresholds and every number of searches in progress:      *)
(* types, ClosedBelowThreshold, SlotsBacked, FailsLast and OwnAnswer; that *)
(* no refusal is final, and that a search calls its candidates in turn,    *)
(* each once, and gets on with every step (what EveryVisitAnswered and     *)
(* NeverLockedOut rest on but for fairness).                               *)
(*                                                                         *)
(* SlotsBacked is inductive because any end of a call ends a half-open     *)
(* episode, so the slots taken in it are of calls that have not ended.     *)
(* FailsLast rests on what `tried' holds while a call is in progress: all  *)
(* capable candidates up to the current one, also when that one's call     *)
(* ends the search.  OwnAnswer rests on the same agreement of key and      *)
(* response in the cache.                                                  *)
(*                                                                         *)
(* The last part is about SearchPages: all of this, MocksStandIn and       *)
(* FailureTold, for every set of mocks and whatever the backends reply.    *)
(***************************************************************************)
EXTENDS SearchPages, NaturalBounds, FiniteSetTheorems, SequenceTheorems

(* A breaker with at most n calls in progress.                             *)
BreakerOK(b, n) ==
    /\ b \in Breakers
    /\ b.state = "closed" <=> b.failures < Threshold
    /\ b.state = "half_open" =>
         (b.inFlight = 0 \/ b.inFlight <= HalfOpenMax) /\ b.inFlight <= n

LEMMA FreshOK ==
    ASSUME NEW n \in Nat
    PROVE  BreakerOK(Fresh, n)
BY ThresholdAssumption DEF BreakerOK, Fresh, Breakers

LEMMA RestedOK ==
    ASSUME NEW b, NEW n \in Nat, BreakerOK(b, n)
    PROVE  BreakerOK(Rested(b), n)
BY DEF BreakerOK, Rested, Breakers

LEMMA RecoveredOK ==
    ASSUME NEW b, NEW n \in Nat, BreakerOK(b, n)
    PROVE  BreakerOK(Recovered(b), n)
<1> DEFINE e == Recovered(b)
<1>1. CASE b.state = "open" /\ b.rested
  <2>1. /\ e \in Breakers
        /\ e.state = "half_open" /\ e.inFlight = 0 /\ e.failures = b.failures
    BY <1>1 DEF BreakerOK, Recovered, Breakers
  <2>2. ~(b.failures < Threshold)
    BY <1>1 DEF BreakerOK
  <2> HIDE DEF e
  <2>3. BreakerOK(e, n)
    BY <2>1, <2>2 DEF BreakerOK
  <2> QED BY <2>3 DEF e
<1>2. CASE ~(b.state = "open" /\ b.rested)
  BY <1>2 DEF Recovered
<1> QED BY <1>1, <1>2

(* An admitted probe takes a slot and is a call in progress.               *)
LEMMA EnteredOK ==
    ASSUME NEW b, NEW n \in Nat, BreakerOK(b, n), ~Refuses(b)
    PROVE  BreakerOK(Entered(b), n + 1)
BY HalfOpenAssumption DEF BreakerOK, Refuses, Entered, Breakers

(* After a failure the breaker is not half-open, however many calls run.   *)
LEMMA FailedOK ==
    ASSUME NEW b, NEW n \in Nat, BreakerOK(b, n), NEW m \in Nat
    PROVE  BreakerOK(Failed(b), m)
<1> DEFINE e == Failed(b)
<1>1. b \in Breakers /\ b.failures \in Nat
  BY DEF BreakerOK, Breakers
<1>2. CASE b.state = "half_open"
  <2>1. e = [state |-> "open", failures |-> b.failures + 1, inFlight |-> 0, rested |-> FALSE]
    BY <1>2 DEF Failed
  <2>2. ~(b.failures < Threshold)
    BY <1>2 DEF BreakerOK
  <2>3. BreakerOK(e, m)
    BY <1>1, <2>1, <2>2, ThresholdAssumption DEF BreakerOK, Breakers
  <2> QED BY <2>3
<1>3. CASE b.state # "half_open" /\ b.failures + 1 >= Threshold
  <2>1. e = [b EXCEPT !.state = "open", !.failures = @ + 1, !.rested = FALSE]
    BY <1>3, <1>1, ThresholdAssumption DEF Failed
  <2>2. e \in Breakers /\ e.state = "open" /\ e.failures = b.failures + 1
    <3>1. e = [state |-> "open", failures |-> b.failures + 1, inFlight |-> b.inFlight,
               rested |-> FALSE]
      BY <1>1, <2>1 DEF Breakers
    <3>2. b.failures + 1 \in Nat /\ b.inFlight \in Nat
      BY <1>1 DEF Breakers
    <3> HIDE DEF e
    <3> QED BY <3>1, <3>2 DEF Breakers
  <2> HIDE DEF e
  <2>3. BreakerOK(e, m)
    BY <1>1, <1>3, <2>2, ThresholdAssumption DEF BreakerOK
  <2> QED BY <2>3 DEF e
<1>4. CASE b.state # "half_open" /\ b.failures + 1 < Threshold
  <2>1. e = [b EXCEPT !.failures = @ + 1]
    BY <1>4, <1>1, ThresholdAssumption DEF Failed
  <2>2. /\ e \in Breakers
        /\ e.state = b.state /\ e.failures = b.failures + 1
    BY <1>1, <2>1 DEF Breakers
  <2> HIDE DEF e
  <2>3. BreakerOK(e, m)
    BY <1>1, <1>4, <2>2, ThresholdAssumption DEF BreakerOK
  <2> QED BY <2>3 DEF e
<1>5. b.failures + 1 >= Threshold \/ b.failures + 1 < Threshold
  BY <1>1, ThresholdAssumption
<1> QED BY <1>2, <1>3, <1>4, <1>5
-----------------------------------------------------------------------------
(* The routing policy.                                                     *)

Known == Names \cup {Nothing}

LEMMA RuleMatchType ==
    ASSUME NEW r
    PROVE  RuleMatch(r) \in Seq(Known)
<1> DEFINE matching == {i \in DOMAIN Rules : Matches(Rules[i], r)}
           rule     == Rules[CHOOSE i \in matching : \A j \in matching : i <= j]
<1>1. CASE matching = {}
  BY <1>1 DEF RuleMatch
<1>2. CASE matching # {}
  <2>1. matching \in SUBSET Nat
    BY ConfigAssumption
  <2>2. \E i \in matching : \A j \in matching : i <= j
    <3> HIDE DEF matching
    <3> QED BY <1>2, <2>1, Least
  <2>3. rule \in RoutingRules
    BY <2>2, ConfigAssumption
  <2>4. RuleMatch(r) = IF rule.use # Nothing THEN <<rule.use>>
                       ELSE <<rule.prefer, rule.fallback>>
    BY <1>2 DEF RuleMatch
  <2> HIDE DEF rule
  <2>5. rule.use \in Known /\ rule.prefer \in Known /\ rule.fallback \in Known
    BY <2>3 DEF RoutingRules, Known
  <2>6. <<rule.use>> \in Seq(Known) /\ <<rule.prefer, rule.fallback>> \in Seq(Known)
    BY <2>5
  <2> QED BY <2>4, <2>6
<1> QED BY <1>1, <1>2

(* Order, case by case.                                                    *)
LEMMA OrderCases ==
    ASSUME NEW r
    PROVE  /\ r.backend = AnyBackend => Order(r) = RuleMatch(r) \o FallbackOrder \o Registered
           /\ r.backend # AnyBackend /\ r.backend \in Backends => Order(r) = <<r.backend>>
           /\ r.backend \notin Backends \cup {AnyBackend} => Order(r) = <<>>
<1>1. AnyBackend \notin Backends
  BY NamesAssumption
<1>2. CASE r.backend = AnyBackend
  BY <1>1, <1>2 DEF Order
<1>3. CASE r.backend # AnyBackend /\ r.backend \in Backends
  BY <1>1, <1>3 DEF Order
<1>4. CASE r.backend \notin Backends \cup {AnyBackend}
  BY <1>4 DEF Order
<1> QED BY <1>1, <1>2, <1>3, <1>4

LEMMA ConfigKnown == FallbackOrder \in Seq(Known) /\ Registered \in Seq(Known)
<1>1. Names \subseteq Known /\ Backends \subseteq Known
  BY NamesAssumption DEF Known
<1> QED BY <1>1, SeqMonotonic, ConfigAssumption, RegistryAssumption

LEMMA OrderType ==
    ASSUME NEW r
    PROVE  Order(r) \in Seq(Known)
<1>1. CASE r.backend = AnyBackend
  <2>1. /\ RuleMatch(r) \in Seq(Known)
        /\ FallbackOrder \in Seq(Known) /\ Registered \in Seq(Known)
    BY RuleMatchType, ConfigKnown
  <2>2. RuleMatch(r) \o FallbackOrder \o Registered \in Seq(Known)
    BY <2>1, ConcatProperties
  <2>3. Order(r) = RuleMatch(r) \o FallbackOrder \o Registered
    BY <1>1, OrderCases
  <2> QED BY <2>2, <2>3
<1>2. CASE r.backend # AnyBackend /\ r.backend \in Backends
  <2>1. r.backend \in Known
    BY <1>2, NamesAssumption DEF Known
  <2>2. Order(r) = <<r.backend>>
    BY <1>2, OrderCases
  <2>3. <<r.backend>> \in Seq(Known)
    BY <2>1
  <2> QED BY <2>2, <2>3
<1>3. CASE r.backend \notin Backends \cup {AnyBackend}
  <2>1. Order(r) = <<>>
    BY <1>3, OrderCases
  <2>2. <<>> \in Seq(Known)
    BY EmptySeq
  <2> QED BY <2>1, <2>2
<1> QED BY <1>1, <1>2, <1>3

LEMMA FittingPlaces ==
    ASSUME NEW r
    PROVE  Fitting(r) \in SUBSET (Nat \ {0}) /\ \A i \in Fitting(r) : Order(r)[i] \in Backends
BY OrderType DEF Fitting, Candidates

(* A search for a named backend has no other candidate.                    *)
LEMMA NamedOnly ==
    ASSUME NEW r, NEW i \in Fitting(r)
    PROVE  r.backend \in {AnyBackend, Order(r)[i]}
<1>1. i \in DOMAIN Order(r)
  BY DEF Fitting, Candidates
<1>2. CASE r.backend # AnyBackend /\ r.backend \in Backends
  <2>1. Order(r) = <<r.backend>>
    BY <1>2, OrderCases
  <2> QED BY <1>1, <2>1
<1>3. CASE r.backend \notin Backends \cup {AnyBackend}
  <2>1. Order(r) = <<>>
    BY <1>3, OrderCases
  <2> QED BY <1>1, <2>1
<1> QED BY <1>2, <1>3

(* Under auto every backend has a place.                                   *)
LEMMA EveryBackendPlaced ==
    ASSUME NEW r, r.backend = AnyBackend, NEW b \in Backends
    PROVE  \E i \in Candidates(r) : Order(r)[i] = b
<1> DEFINE before == RuleMatch(r) \o FallbackOrder
           places == {i \in DOMAIN Order(r) : Order(r)[i] = b}
<1>1. before \in Seq(Known) /\ Registered \in Seq(Known)
  BY RuleMatchType, ConfigKnown, ConcatProperties
<1>2. Order(r) = before \o Registered
  BY OrderCases
<1>3. PICK k \in DOMAIN Registered : Registered[k] = b
  BY RegistryAssumption
<1>4. /\ Len(before) + k \in DOMAIN Order(r)
      /\ Order(r)[Len(before) + k] = b
  <2> HIDE DEF before
  <2> QED BY <1>1, <1>2, <1>3
<1>5. places # {} /\ places \in SUBSET Nat
  BY <1>4, OrderType
<1>6. PICK i \in places : \A j \in places : i <= j
  <2> HIDE DEF places
  <2> QED BY <1>5, Least
<1>7. i \in DOMAIN Order(r) /\ Order(r)[i] = b
  BY <1>6
<1>8. ASSUME NEW j \in 1..(i - 1), Order(r)[j] = b PROVE FALSE
  <2>1. i \in Nat /\ j \in DOMAIN Order(r) /\ j < i
    BY <1>7, <1>8, OrderType
  <2> QED BY <1>6, <1>8, <2>1
<1> QED BY <1>7, <1>8 DEF Candidates

(* The backends at the capable places up to n.                             *)
UpTo(r, n) == {Order(r)[i] : i \in {j \in Fitting(r) : j <= n}}
AtAnyPlace(r) == {Order(r)[i] : i \in Fitting(r)}

LEMMA AllCapablePlaced ==
    ASSUME NEW r, r.backend = AnyBackend
    PROVE  AtAnyPlace(r) = CapableBackends(r)
<1>1. \A b \in CapableBackends(r) : b \in AtAnyPlace(r)
  <2> TAKE b \in CapableBackends(r)
  <2>1. PICK i \in Candidates(r) : Order(r)[i] = b
    BY EveryBackendPlaced DEF CapableBackends
  <2> QED BY <2>1 DEF CapableBackends, AtAnyPlace, Fitting
<1>2. \A i \in Fitting(r) : Order(r)[i] \in CapableBackends(r)
  BY FittingPlaces DEF Fitting, CapableBackends
<1> QED BY <1>1, <1>2 DEF AtAnyPlace, CapableBackends
-----------------------------------------------------------------------------
(* What AskNext comes to: the search ends, or a later candidate, at place  *)
(* i, is called.                                                           *)

Looked(B, b) == breakers'[b] \in {B[b], Recovered(B[b])}

Ends(t, r, B) ==
    /\ pc' = [pc EXCEPT ![t] = "done"]
    /\ \E answer \in {"failed", "unsupported"} :
         /\ out' = [out EXCEPT ![t] = answer]
         /\ answer = "unsupported" => AtAnyPlace(r) = {}
    /\ tried' = [tried EXCEPT ![t] = AtAnyPlace(r)]
    /\ at' = at
    /\ breakers' = [b \in Backends |-> breakers'[b]]
    /\ \A b \in Backends : Looked(B, b)

Calls(t, r, B, i) ==
    /\ pc' = [pc EXCEPT ![t] = "calling"]
    /\ out' = out
    /\ tried' = [tried EXCEPT ![t] = UpTo(r, i)]
    /\ at' = [at EXCEPT ![t] = i]
    /\ breakers' = [b \in Backends |-> breakers'[b]]
    /\ LET a == Order(r)[i] IN
         /\ ~Refuses(Recovered(B[a])) /\ breakers'[a] = Entered(Recovered(B[a]))
         /\ \A b \in Backends \ {a} : Looked(B, b)

LEMMA AskNextOutcome ==
    ASSUME NEW t, NEW r, NEW from \in Nat, NEW B, AskNext(t, r, from, B),
           tried[t] = UpTo(r, from)
    PROVE  Ends(t, r, B) \/ \E i \in Fitting(r) : i > from /\ Calls(t, r, B, i)
<1> DEFINE order == Order(r)
           next  == {i \in Fitting(r) : i > from}
           fit   == {i \in next : ~Refuses(Recovered(B[order[i]]))}
           first == CHOOSE i \in fit : \A j \in fit : i <= j
           asked == {order[i] : i \in {j \in next : fit = {} \/ j <= first}}
<1>1. tried' = [tried EXCEPT ![t] = UpTo(r, from) \cup asked]
  BY DEF AskNext
<1>2. Fitting(r) \in SUBSET Nat /\ \A i \in Fitting(r) : order[i] \in Backends
  BY FittingPlaces
<1>3. CASE fit = {}
  <2>1. UpTo(r, from) \cup asked = AtAnyPlace(r)
    <3>1. asked = {order[i] : i \in next}
      BY <1>3
    <3>2. \A i \in Fitting(r) : i <= from \/ i > from
      BY <1>2
    <3> QED BY <3>1, <3>2 DEF UpTo, AtAnyPlace
  <2>2. breakers' = [b \in Backends |-> IF b \in asked THEN Recovered(B[b]) ELSE B[b]]
    BY <1>3 DEF AskNext
  <2>3. /\ pc' = [pc EXCEPT ![t] = "done"] /\ at' = at
        /\ out' = [out EXCEPT ![t] =
              IF tried[t] \cup asked = {} THEN "unsupported" ELSE "failed"]
    BY <1>3 DEF AskNext, Finish
  <2> QED BY <1>1, <2>1, <2>2, <2>3 DEF Ends, Looked
<1>4. CASE fit # {}
  <2>1. first \in fit /\ \A j \in fit : first <= j
    <3>1. fit \in SUBSET Nat
      BY <1>2
    <3> HIDE DEF fit
    <3> QED BY <1>4, <3>1, Least
  <2>2. /\ pc' = [pc EXCEPT ![t] = "calling"] /\ out' = out
        /\ at' = [at EXCEPT ![t] = first]
        /\ breakers' = [b \in Backends |->
              IF b = order[first] THEN Entered(Recovered(B[b]))
              ELSE IF b \in asked THEN Recovered(B[b]) ELSE B[b]]
    BY <1>4 DEF AskNext
  <2>3. UpTo(r, from) \cup asked = UpTo(r, first)
    <3> HIDE DEF first
    <3>1. first \in Nat /\ first > from
      BY <1>2, <2>1
    <3>2. asked = {order[i] : i \in {j \in next : j <= first}}
      BY <1>4
    <3>3. \A i \in Fitting(r) : i <= first <=> i <= from \/ (i > from /\ i <= first)
      BY <1>2, <3>1
    <3> QED BY <3>2, <3>3 DEF UpTo
  <2>4. /\ first \in Fitting(r) /\ first > from
        /\ ~Refuses(Recovered(B[order[first]])) /\ order[first] \in Backends
    BY <1>2, <2>1
  <2> HIDE DEF first, asked
  <2>5. Calls(t, r, B, first)
    BY <1>1, <2>2, <2>3, <2>4 DEF Calls, Looked
  <2> QED BY <2>4, <2>5
<1> QED BY <1>3, <1>4
-----------------------------------------------------------------------------
(* The inductive invariant.                                                *)

StateOK ==
    /\ cache \in SUBSET [key : Keys, response : Responses]
    /\ ask \in [Https -> Searches]
    /\ pc \in [Https -> {"idle", "lookup", "calling", "store", "done"}]
    /\ at \in [Https -> Nat]
    /\ tried \in [Https -> SUBSET Backends]
    /\ got \in [Https -> SUBSET Responses]
    /\ out \in [Https -> Answers]

(* x answers the search r.                                                 *)
Fits(x, r) == x.kind = r.kind /\ x.query = r.query /\ r.backend \in {AnyBackend, x.by}

CacheOK == \A e \in cache : Fits(e.response, e.key)

BreakersOK ==
    /\ breakers = [b \in Backends |-> breakers[b]]
    /\ \A b \in Backends : BreakerOK(breakers[b], Cardinality(CallsOf(b)))

(* How a search ends without an answer.                                    *)
Unserved == {"failed", "unsupported", "error"}

USE DEF Unserved

HandlerOK(t) ==
    /\ pc[t] = "calling" => at[t] \in Fitting(ask[t]) /\ tried[t] = UpTo(ask[t], at[t])
    /\ pc[t] \in {"idle", "lookup"} => tried[t] = {}
    /\ pc[t] \in {"idle", "lookup", "calling"} => got[t] = {}
    /\ out[t] \in Unserved => pc[t] = "done"
    /\ ask[t].backend = AnyBackend =>
         /\ out[t] = "failed" => tried[t] = CapableBackends(ask[t])
         /\ out[t] = "unsupported" => CapableBackends(ask[t]) = {}
    /\ out[t] = "error" => at[t] \in Fitting(ask[t]) /\ tried[t] = UpTo(ask[t], at[t])
    /\ \A x \in got[t] : Fits(x, ask[t])

HandlersOK == \A t \in Https : HandlerOK(t)

Inv == StateOK /\ CacheOK /\ BreakersOK /\ HandlersOK

(* What concerns another search than t is untouched.                       *)
OthersKept(t) == \A u \in Https \ {t} :
    /\ ask'[u] = ask[u] /\ pc'[u] = pc[u] /\ at'[u] = at[u]
    /\ tried'[u] = tried[u] /\ got'[u] = got[u] /\ out'[u] = out[u]

LEMMA OthersOK ==
    ASSUME HandlersOK, NEW t, OthersKept(t), HandlerOK(t)'
    PROVE  HandlersOK'
BY DEF HandlersOK, HandlerOK, OthersKept

(* Calls in progress are finitely many.                                    *)
LEMMA CallsFinite ==
    ASSUME NEW b
    PROVE  /\ IsFiniteSet(CallsOf(b)) /\ Cardinality(CallsOf(b)) \in Nat
           /\ \A t : /\ IsFiniteSet(CallsOf(b) \ {t})
                     /\ Cardinality(CallsOf(b) \ {t}) \in Nat
<1>1. IsFiniteSet(CallsOf(b))
  <2>1. CallsOf(b) \subseteq Https
    BY DEF CallsOf
  <2> QED BY <2>1, HttpsAssumption, FS_Subset
<1>2. \A t : IsFiniteSet(CallsOf(b) \ {t})
  BY <1>1, FS_Subset
<1> QED BY <1>1, <1>2, FS_CardinalityType

(* More calls in progress do no harm.                                      *)
LEMMA MoreCalls ==
    ASSUME NEW b, NEW n \in Nat, NEW m \in Nat, n <= m, BreakerOK(b, n)
    PROVE  BreakerOK(b, m)
<1>1. CASE b.state = "half_open"
  BY <1>1 DEF BreakerOK, Breakers
<1>2. CASE b.state # "half_open"
  BY <1>2 DEF BreakerOK
<1> QED BY <1>1, <1>2

(* The breakers B, t's call not counted.                                   *)
ApartFrom(t, B) == \A b \in Backends : BreakerOK(B[b], Cardinality(CallsOf(b) \ {t}))

LEMMA LookedOK ==
    ASSUME NEW t, NEW B, ApartFrom(t, B), NEW b \in Backends, Looked(B, b)
    PROVE  BreakerOK(breakers'[b], Cardinality(CallsOf(b) \ {t}))
<1>1. BreakerOK(B[b], Cardinality(CallsOf(b) \ {t})) /\ Cardinality(CallsOf(b) \ {t}) \in Nat
  BY CallsFinite DEF ApartFrom
<1>2. BreakerOK(Recovered(B[b]), Cardinality(CallsOf(b) \ {t}))
  BY <1>1, RecoveredOK
<1> QED BY <1>1, <1>2 DEF Looked

(* The search t ends with no answer.                                       *)
LEMMA EndsKeeps ==
    ASSUME Inv, NEW t \in Https, NEW r \in Searches, NEW B, ApartFrom(t, B), Ends(t, r, B),
           ask' = [ask EXCEPT ![t] = r], got[t] = {}, UNCHANGED <<cache, got>>
    PROVE  Inv'
<1> USE DEF Inv
<1>1. /\ pc' = [pc EXCEPT ![t] = "done"] /\ tried' = [tried EXCEPT ![t] = AtAnyPlace(r)]
      /\ at' = at /\ breakers' = [b \in Backends |-> breakers'[b]]
      /\ \A b \in Backends : Looked(B, b)
  BY DEF Ends
<1>2. PICK answer \in {"failed", "unsupported"} :
         /\ out' = [out EXCEPT ![t] = answer]
         /\ answer = "unsupported" => AtAnyPlace(r) = {}
  BY DEF Ends
<1>3. AtAnyPlace(r) \in SUBSET Backends
  BY FittingPlaces DEF AtAnyPlace
<1>4. StateOK'
  BY <1>1, <1>2, <1>3 DEF StateOK, Answers
<1>5. CacheOK'
  BY DEF CacheOK
<1>6. BreakersOK'
  <2>1. ASSUME NEW b \in Backends PROVE BreakerOK(breakers'[b], Cardinality(CallsOf(b)'))
    <3>1. CallsOf(b)' = CallsOf(b) \ {t}
      BY <1>1 DEF StateOK, CallsOf, Current
    <3> QED BY <1>1, <3>1, LookedOK
  <2> QED BY <1>1, <2>1 DEF BreakersOK
<1>7. HandlersOK'
  <2>1. OthersKept(t)
    BY <1>1, <1>2 DEF StateOK, OthersKept
  <2>2. /\ pc'[t] = "done" /\ tried'[t] = AtAnyPlace(r) /\ ask'[t] = r /\ got'[t] = {}
        /\ out'[t] \in {"failed", "unsupported"}
        /\ out'[t] = "unsupported" => AtAnyPlace(r) = {}
    BY <1>1, <1>2 DEF StateOK
  <2>3. r.backend = AnyBackend => AtAnyPlace(r) = CapableBackends(r)
    BY AllCapablePlaced
  <2>4. HandlerOK(t)'
    BY <2>2, <2>3 DEF HandlerOK
  <2> QED BY <2>1, <2>4, OthersOK
<1> QED BY <1>4, <1>5, <1>6, <1>7

(* The search t calls its candidate at place i.                            *)
LEMMA CallsKeeps ==
    ASSUME Inv, NEW t \in Https, NEW r \in Searches, NEW B, ApartFrom(t, B),
           NEW i \in Fitting(r), Calls(t, r, B, i), out[t] \notin Unserved,
           ask' = [ask EXCEPT ![t] = r], got[t] = {}, UNCHANGED <<cache, got>>
    PROVE  Inv'
<1> USE DEF Inv
<1> DEFINE a == Order(r)[i]
<1>1. /\ pc' = [pc EXCEPT ![t] = "calling"] /\ out' = out
      /\ tried' = [tried EXCEPT ![t] = UpTo(r, i)] /\ at' = [at EXCEPT ![t] = i]
      /\ breakers' = [b \in Backends |-> breakers'[b]]
      /\ ~Refuses(Recovered(B[a])) /\ breakers'[a] = Entered(Recovered(B[a]))
      /\ \A b \in Backends \ {a} : Looked(B, b)
  BY DEF Calls
<1>2. i \in Nat /\ a \in Backends /\ UpTo(r, i) \in SUBSET Backends
  BY FittingPlaces DEF UpTo
<1>3. /\ pc'[t] = "calling" /\ at'[t] = i /\ tried'[t] = UpTo(r, i)
      /\ ask'[t] = r /\ got'[t] = {} /\ out'[t] \notin Unserved
  BY <1>1 DEF StateOK
<1>4. StateOK'
  BY <1>1, <1>2 DEF StateOK
<1>5. CacheOK'
  BY DEF CacheOK
<1> HIDE DEF a
<1>6. BreakersOK'
  <2>1. \A b : CallsOf(b)' = (CallsOf(b) \ {t}) \cup (IF b = a THEN {t} ELSE {})
    BY <1>1, <1>3 DEF StateOK, CallsOf, Current, a
  <2>2. BreakerOK(breakers'[a], Cardinality(CallsOf(a)'))
    <3>1. BreakerOK(B[a], Cardinality(CallsOf(a) \ {t})) /\ Cardinality(CallsOf(a) \ {t}) \in Nat
      BY <1>2, CallsFinite DEF ApartFrom
    <3>2. BreakerOK(Entered(Recovered(B[a])), Cardinality(CallsOf(a) \ {t}) + 1)
      BY <1>1, <3>1, RecoveredOK, EnteredOK
    <3>3. Cardinality(CallsOf(a)') = Cardinality(CallsOf(a) \ {t}) + 1
      BY <2>1, CallsFinite, FS_AddElement
    <3> QED BY <1>1, <3>2, <3>3
  <2>3. ASSUME NEW b \in Backends, b # a PROVE BreakerOK(breakers'[b], Cardinality(CallsOf(b)'))
    <3>1. CallsOf(b)' = CallsOf(b) \ {t}
      BY <2>1, <2>3
    <3> QED BY <1>1, <2>3, <3>1, LookedOK
  <2> QED BY <1>1, <2>2, <2>3 DEF BreakersOK
<1>7. HandlersOK'
  <2>1. OthersKept(t)
    BY <1>1 DEF StateOK, OthersKept
  <2>2. HandlerOK(t)'
    BY <1>3 DEF HandlerOK
  <2> QED BY <2>1, <2>2, OthersOK
<1> QED BY <1>4, <1>5, <1>6, <1>7

LEMMA AskNextKeeps ==
    ASSUME Inv, NEW t \in Https, NEW r \in Searches, NEW from \in Nat, NEW B,
           ApartFrom(t, B), AskNext(t, r, from, B), tried[t] = UpTo(r, from),
           out[t] \notin Unserved, ask' = [ask EXCEPT ![t] = r], got[t] = {}, UNCHANGED <<cache, got>>
    PROVE  Inv'
BY AskNextOutcome, EndsKeeps, CallsKeeps

(* Before a search calls, and once its call is over, its breakers are as   *)
(* AskNext wants them.                                                     *)
LEMMA IdleApart ==
    ASSUME Inv, NEW t, pc[t] # "calling"
    PROVE  ApartFrom(t, breakers)
<1>1. \A b : CallsOf(b) \ {t} = CallsOf(b)
  BY DEF CallsOf
<1> QED BY <1>1 DEF Inv, BreakersOK, ApartFrom

LEMMA FailedApart ==
    ASSUME Inv, NEW t \in Https, pc[t] = "calling"
    PROVE  ApartFrom(t, [breakers EXCEPT ![Current(t)] = Failed(@)])
<1> DEFINE B == [breakers EXCEPT ![Current(t)] = Failed(@)]
<1> SUFFICES ASSUME NEW b \in Backends
             PROVE  BreakerOK(B[b], Cardinality(CallsOf(b) \ {t}))
  BY DEF ApartFrom
<1>1. BreakerOK(breakers[b], Cardinality(CallsOf(b)))
  BY DEF Inv, BreakersOK
<1>2. CASE b = Current(t)
  <2>1. B[b] = Failed(breakers[b])
    BY <1>2 DEF Inv, BreakersOK
  <2> QED BY <1>1, <2>1, FailedOK, CallsFinite
<1>3. CASE b # Current(t)
  <2>1. B[b] = breakers[b]
    BY <1>3 DEF Inv, BreakersOK
  <2>2. CallsOf(b) \ {t} = CallsOf(b)
    BY <1>3 DEF CallsOf
  <2> QED BY <1>1, <2>1, <2>2
<1> QED BY <1>2, <1>3

(* A call is over and the search with it, or all but the cache: the        *)
(* breakers B are what the call leaves.                                    *)
LEMMA CallOver ==
    ASSUME Inv, NEW t \in Https, NEW B, ApartFrom(t, B), breakers' = B,
           B = [b \in Backends |-> B[b]], UNCHANGED <<ask, at>>,
           NEW place \in {"store", "done"}, pc' = [pc EXCEPT ![t] = place]
    PROVE  BreakersOK'
<1> SUFFICES ASSUME NEW b \in Backends
             PROVE  BreakerOK(B[b], Cardinality(CallsOf(b)'))
  BY DEF BreakersOK
<1>1. CallsOf(b)' = CallsOf(b) \ {t}
  BY DEF Inv, StateOK, CallsOf, Current
<1> QED BY <1>1 DEF ApartFrom

(* The calls are the same, the breakers no worse.                          *)
LEMMA CallsKept ==
    ASSUME BreakersOK, UNCHANGED <<ask, at>>, breakers' = [b \in Backends |-> breakers'[b]],
           \A t \in Https : pc'[t] = "calling" <=> pc[t] = "calling",
           \A b \in Backends :
               breakers'[b] \in {breakers[b], Recovered(breakers[b]), Rested(breakers[b])}
    PROVE  BreakersOK'
<1> SUFFICES ASSUME NEW b \in Backends
             PROVE  BreakerOK(breakers'[b], Cardinality(CallsOf(b)'))
  BY DEF BreakersOK
<1>1. CallsOf(b)' = CallsOf(b)
  BY DEF CallsOf, Current
<1>2. BreakerOK(breakers[b], Cardinality(CallsOf(b))) /\ Cardinality(CallsOf(b)) \in Nat
  BY CallsFinite DEF BreakersOK
<1>3. /\ BreakerOK(Recovered(breakers[b]), Cardinality(CallsOf(b)))
      /\ BreakerOK(Rested(breakers[b]), Cardinality(CallsOf(b)))
  BY <1>2, RecoveredOK, RestedOK
<1> QED BY <1>1, <1>2, <1>3
-----------------------------------------------------------------------------
(* Every action preserves it.                                              *)

LEMMA InitInv == Init => Inv
<1> SUFFICES ASSUME Init PROVE Inv
  OBVIOUS
<1> DEFINE r == CHOOSE w \in Workload : TRUE
<1>1. r \in Searches
  BY WorkloadAssumption
<1> HIDE DEF r
<1>2. ask \in [Https -> {r}]
  BY DEF Init, r
<1>3. StateOK
  BY <1>1, <1>2 DEF Init, StateOK, Answers
<1>4. CacheOK
  BY DEF Init, CacheOK
<1>5. BreakersOK
  <2>1. ASSUME NEW b \in Backends PROVE BreakerOK(Fresh, Cardinality(CallsOf(b)))
    BY CallsFinite, FreshOK
  <2> QED BY <2>1 DEF Init, BreakersOK
<1>6. HandlersOK
  BY DEF Init, HandlersOK, HandlerOK
<1> QED BY <1>3, <1>4, <1>5, <1>6 DEF Inv

LEMMA ArriveKeeps ==
    ASSUME Inv, NEW t \in Https, Arrive(t)
    PROVE  Inv'
<1>1. /\ pc[t] = "idle" /\ tried[t] = {} /\ got[t] = {} /\ out[t] \notin Unserved
      /\ UNCHANGED <<cache, got>>
  BY DEF Arrive, Inv, HandlersOK, HandlerOK
<1>2. PICK r \in Workload :
         /\ ask' = [ask EXCEPT ![t] = r]
         /\ IF r.eligible
              THEN pc' = [pc EXCEPT ![t] = "lookup"] /\ UNCHANGED <<breakers, at, tried, out>>
              ELSE AskNext(t, r, 0, breakers)
  BY DEF Arrive
<1>3. r \in Searches
  BY WorkloadAssumption
<1>4. CASE r.eligible
  <2>1. pc' = [pc EXCEPT ![t] = "lookup"] /\ UNCHANGED <<breakers, at, tried, out>>
    BY <1>2, <1>4
  <2>2. StateOK'
    BY <1>1, <1>2, <1>3, <2>1 DEF Inv, StateOK
  <2>3. CacheOK'
    BY <1>1 DEF Inv, CacheOK
  <2>4. BreakersOK'
    <3>1. \A b \in Backends : CallsOf(b)' = CallsOf(b)
      BY <1>1, <1>2, <2>1 DEF Inv, StateOK, CallsOf, Current
    <3> QED BY <2>1, <3>1 DEF Inv, BreakersOK
  <2>5. HandlersOK'
    <3>1. OthersKept(t)
      BY <1>1, <1>2, <2>1 DEF Inv, StateOK, OthersKept
    <3>2. HandlerOK(t)'
      BY <1>1, <1>2, <2>1 DEF Inv, StateOK, HandlersOK, HandlerOK
    <3> QED BY <3>1, <3>2, OthersOK DEF Inv
  <2> QED BY <2>2, <2>3, <2>4, <2>5 DEF Inv
<1>5. CASE ~r.eligible
  <2>1. AskNext(t, r, 0, breakers)
    BY <1>2, <1>5
  <2>2. UpTo(r, 0) = {}
    BY FittingPlaces DEF UpTo
  <2>3. ApartFrom(t, breakers)
    BY <1>1, IdleApart
  <2> QED BY <1>1, <1>2, <1>3, <2>1, <2>2, <2>3, AskNextKeeps
<1> QED BY <1>4, <1>5

LEMMA HitKeeps ==
    ASSUME Inv, NEW t \in Https, Hit(t)
    PROVE  Inv'
<1> USE DEF Inv
<1>1. PICK e \in cache : e.key = CacheKey(ask[t]) /\ got' = [got EXCEPT ![t] = {e.response}]
  BY DEF Hit
<1>2. /\ pc[t] = "lookup" /\ pc' = [pc EXCEPT ![t] = "done"] /\ out' = [out EXCEPT ![t] = "ok"]
      /\ UNCHANGED <<breakers, cache, ask, at, tried>>
  BY DEF Hit, Finish
<1>3. e.response \in Responses
  BY DEF StateOK
<1>4. Fits(e.response, ask[t])
  BY <1>1 DEF CacheOK, Fits, CacheKey
<1>5. StateOK'
  BY <1>1, <1>2, <1>3 DEF StateOK, Answers
<1>6. CacheOK'
  BY <1>2 DEF CacheOK
<1>7. BreakersOK'
  BY <1>2, CallsKept DEF StateOK, BreakersOK
<1>8. HandlersOK'
  <2>1. OthersKept(t)
    BY <1>1, <1>2 DEF StateOK, OthersKept
  <2>2. /\ pc'[t] = "done" /\ out'[t] = "ok" /\ got'[t] = {e.response} /\ ask'[t] = ask[t]
    BY <1>1, <1>2 DEF StateOK
  <2>3. HandlerOK(t)'
    BY <1>4, <2>2 DEF HandlerOK
  <2> QED BY <2>1, <2>3, OthersOK
<1> QED BY <1>5, <1>6, <1>7, <1>8

LEMMA MissKeeps ==
    ASSUME Inv, NEW t \in Https, Miss(t)
    PROVE  Inv'
<1>1. /\ pc[t] = "lookup" /\ tried[t] = {} /\ got[t] = {} /\ out[t] \notin Unserved
      /\ AskNext(t, ask[t], 0, breakers) /\ UNCHANGED <<cache, ask, got>>
  BY DEF Miss, Inv, HandlersOK, HandlerOK
<1>2. UpTo(ask[t], 0) = {}
  BY FittingPlaces DEF UpTo
<1>3. ask[t] \in Searches /\ ask' = [ask EXCEPT ![t] = ask[t]]
  BY <1>1 DEF Inv, StateOK
<1>4. ApartFrom(t, breakers)
  BY <1>1, IdleApart
<1> QED BY <1>1, <1>2, <1>3, <1>4, AskNextKeeps

(* The candidate of a call in progress.                                    *)
LEMMA CurrentOK ==
    ASSUME Inv, NEW t \in Https, pc[t] = "calling"
    PROVE  Current(t) \in Backends /\ ask[t].backend \in {AnyBackend, Current(t)}
<1>1. at[t] \in Fitting(ask[t])
  BY DEF Inv, HandlersOK, HandlerOK
<1> QED BY <1>1, FittingPlaces, NamedOnly DEF Current

LEMMA RespondKeeps ==
    ASSUME Inv, NEW t \in Https, Respond(t)
    PROVE  Inv'
<1> USE DEF Inv
<1> DEFINE r == ask[t]
           x == ResponseOf(t)
           B == [breakers EXCEPT ![Current(t)] = Succeeded(@)]
<1>1. /\ pc[t] = "calling" /\ breakers' = B /\ got' = [got EXCEPT ![t] = {x}]
      /\ UNCHANGED <<cache, ask, at, tried>>
  BY DEF Respond
<1>2. PICK place \in {"store", "done"} : pc' = [pc EXCEPT ![t] = place]
  BY DEF Respond, Finish
<1>3. /\ out' = out \/ out' = [out EXCEPT ![t] = "ok"]
      /\ out[t] \notin Unserved
  BY <1>1 DEF Respond, Finish, HandlersOK, HandlerOK
<1>4. Current(t) \in Backends /\ r.backend \in {AnyBackend, Current(t)}
  BY <1>1, CurrentOK
<1>5. x \in Responses /\ Fits(x, r)
  <2>1. r.kind \in Kinds /\ r.query \in Words /\ r.page \in Pages
    BY DEF StateOK, Searches
  <2> QED BY <1>4, <2>1 DEF Responses, Fits, ResponseOf
<1> HIDE DEF x
<1>6. StateOK'
  BY <1>1, <1>2, <1>3, <1>5 DEF StateOK, Answers
<1>7. CacheOK'
  BY <1>1 DEF CacheOK
<1>8. BreakersOK'
  <2>1. ApartFrom(t, B)
    <3> SUFFICES ASSUME NEW b \in Backends
                 PROVE  BreakerOK(B[b], Cardinality(CallsOf(b) \ {t}))
      BY DEF ApartFrom
    <3>1. CASE b = Current(t)
      <4>1. B[b] = Fresh
        BY <3>1 DEF BreakersOK, Succeeded
      <4> QED BY <4>1, FreshOK, CallsFinite
    <3>2. CASE b # Current(t)
      <4>1. B[b] = breakers[b] /\ CallsOf(b) \ {t} = CallsOf(b)
        BY <3>2 DEF BreakersOK, CallsOf
      <4> QED BY <4>1 DEF BreakersOK
    <3> QED BY <3>1, <3>2
  <2>2. B = [b \in Backends |-> B[b]]
    BY DEF BreakersOK
  <2> HIDE DEF B
  <2> QED BY <1>1, <1>2, <2>1, <2>2, CallOver
<1>9. HandlersOK'
  <2>1. OthersKept(t)
    BY <1>1, <1>2, <1>3 DEF StateOK, OthersKept
  <2>2. /\ pc'[t] \in {"store", "done"} /\ out'[t] \notin Unserved
        /\ got'[t] = {x} /\ ask'[t] = r
    BY <1>1, <1>2, <1>3 DEF StateOK
  <2>3. HandlerOK(t)'
    BY <1>5, <2>2 DEF HandlerOK
  <2> QED BY <2>1, <2>3, OthersOK
<1> QED BY <1>6, <1>7, <1>8, <1>9

(* A call ends the search: nothing is answered.                            *)
LEMMA StopKeeps ==
    ASSUME Inv, NEW t \in Https, NEW answer \in {"failed", "error"}, Finish(t, answer), pc[t] = "calling",
           breakers' = [breakers EXCEPT ![Current(t)] = Failed(@)],
           answer = "failed" => ask[t].backend # AnyBackend,
           UNCHANGED <<cache, ask, at, tried, got>>
    PROVE  Inv'
<1> USE DEF Inv
<1> DEFINE B == [breakers EXCEPT ![Current(t)] = Failed(@)]
<1>1. pc' = [pc EXCEPT ![t] = "done"] /\ out' = [out EXCEPT ![t] = answer]
  BY DEF Finish
<1>2. StateOK'
  BY <1>1 DEF StateOK, Answers
<1>3. CacheOK'
  BY DEF CacheOK
<1>4. BreakersOK'
  <2>1. ApartFrom(t, B)
    BY FailedApart
  <2>2. B = [b \in Backends |-> B[b]]
    BY DEF BreakersOK
  <2>3. breakers' = B
    OBVIOUS
  <2> HIDE DEF B
  <2> QED BY <1>1, <2>1, <2>2, <2>3, CallOver
<1>5. HandlersOK'
  <2>1. OthersKept(t)
    BY <1>1 DEF StateOK, OthersKept
  <2>2. /\ pc'[t] = "done" /\ out'[t] = answer /\ got[t] = {}
        /\ at[t] \in Fitting(ask[t]) /\ tried[t] = UpTo(ask[t], at[t])
    BY <1>1 DEF StateOK, HandlersOK, HandlerOK
  <2>3. HandlerOK(t)'
    BY <2>2 DEF HandlerOK
  <2> QED BY <2>1, <2>3, OthersOK
<1> QED BY <1>2, <1>3, <1>4, <1>5

LEMMA FailKeeps ==
    ASSUME Inv, NEW t \in Https, Fail(t)
    PROVE  Inv'
<1> DEFINE B == [breakers EXCEPT ![Current(t)] = Failed(@)]
<1>1. /\ pc[t] = "calling" /\ UNCHANGED <<cache, ask, got>>
      /\ IF ask[t].backend = AnyBackend
           THEN AskNext(t, ask[t], at[t], B)
           ELSE breakers' = B /\ Finish(t, "failed") /\ UNCHANGED <<at, tried>>
  BY DEF Fail
<1>2. CASE ask[t].backend = AnyBackend
  <2>1. AskNext(t, ask[t], at[t], B) /\ ApartFrom(t, B)
    BY <1>1, <1>2, FailedApart
  <2>2. /\ tried[t] = UpTo(ask[t], at[t]) /\ got[t] = {} /\ out[t] \notin Unserved
    BY <1>1 DEF Inv, HandlersOK, HandlerOK
  <2>3. ask[t] \in Searches /\ at[t] \in Nat /\ ask' = [ask EXCEPT ![t] = ask[t]]
    BY <1>1 DEF Inv, StateOK
  <2> HIDE DEF B
  <2> QED BY <1>1, <2>1, <2>2, <2>3, AskNextKeeps
<1>3. CASE ask[t].backend # AnyBackend
  BY <1>1, <1>3, StopKeeps DEF Answers
<1> QED BY <1>2, <1>3

LEMMA RaiseKeeps ==
    ASSUME Inv, NEW t \in Https, Raise(t)
    PROVE  Inv'
BY StopKeeps DEF Raise, Answers

LEMMA StoreKeeps ==
    ASSUME Inv, NEW t \in Https, Store(t)
    PROVE  Inv'
<1> USE DEF Inv
<1> DEFINE key == CacheKey(ask[t])
<1>1. /\ pc[t] = "store" /\ pc' = [pc EXCEPT ![t] = "done"] /\ out' = [out EXCEPT ![t] = "ok"]
      /\ UNCHANGED <<breakers, ask, at, tried, got>>
  BY DEF Store, Finish
<1>2. \A e \in cache' : e \in cache \/ \E x \in got[t] : e = [key |-> key, response |-> x]
  BY DEF Store
<1>3. key \in Keys
  <2>1. /\ ask[t].kind \in Kinds /\ ask[t].backend \in Names \cup {AnyBackend}
        /\ ask[t].query \in Words /\ ask[t].page \in Pages /\ ask[t].language \in Languages
    BY DEF StateOK, Searches
  <2> QED BY <2>1 DEF CacheKey, Keys
<1>4. key.kind = ask[t].kind /\ key.query = ask[t].query /\ key.backend = ask[t].backend
  BY DEF CacheKey
<1> HIDE DEF key
<1>5. StateOK'
  BY <1>1, <1>2, <1>3 DEF StateOK, Answers
<1>6. CacheOK'
  BY <1>2, <1>4 DEF CacheOK, HandlersOK, HandlerOK, Fits
<1>7. BreakersOK'
  BY <1>1, CallsKept DEF StateOK, BreakersOK
<1>8. HandlersOK'
  <2>1. OthersKept(t)
    BY <1>1 DEF StateOK, OthersKept
  <2>2. pc'[t] = "done" /\ out'[t] = "ok"
    BY <1>1 DEF StateOK
  <2>3. HandlerOK(t)'
    BY <1>1, <2>2 DEF HandlersOK, HandlerOK
  <2> QED BY <2>1, <2>3, OthersOK
<1> QED BY <1>5, <1>6, <1>7, <1>8

LEMMA EvictKeeps ==
    ASSUME Inv, Evict
    PROVE  Inv'
<1> USE DEF Inv, Evict
<1>1. StateOK'
  BY DEF StateOK
<1>2. CacheOK'
  BY DEF CacheOK
<1>3. BreakersOK'
  BY DEF BreakersOK, CallsOf, Current
<1>4. HandlersOK'
  BY DEF HandlersOK, HandlerOK
<1> QED BY <1>1, <1>2, <1>3, <1>4

(* The clock and the list of backends change a breaker and nothing else.   *)
LEMMA BreakerMoved ==
    ASSUME Inv, NEW b \in Backends, NEW e, breakers' = [breakers EXCEPT ![b] = e],
           e \in {Recovered(breakers[b]), Rested(breakers[b])},
           UNCHANGED <<cache, ask, pc, at, tried, got, out>>
    PROVE  Inv'
<1> USE DEF Inv
<1>1. BreakersOK'
  <2>1. breakers' = [c \in Backends |-> breakers'[c]]
    BY DEF BreakersOK
  <2>2. ASSUME NEW c \in Backends
        PROVE  breakers'[c] \in {breakers[c], Recovered(breakers[c]), Rested(breakers[c])}
    BY DEF BreakersOK
  <2> QED BY <2>1, <2>2, CallsKept
<1>2. StateOK'
  BY DEF StateOK
<1>3. CacheOK'
  BY DEF CacheOK
<1>4. HandlersOK'
  BY DEF HandlersOK, HandlerOK
<1> QED BY <1>1, <1>2, <1>3, <1>4

LEMMA NextInv == Inv /\ [Next]_vars => Inv'
<1> SUFFICES ASSUME Inv, [Next]_vars PROVE Inv'
  OBVIOUS
<1>1. ASSUME NEW t \in Https, Arrive(t) PROVE Inv'
  BY <1>1, ArriveKeeps
<1>2. ASSUME NEW t \in Https, Proceed(t) PROVE Inv'
  BY <1>2, HitKeeps, MissKeeps, RespondKeeps, FailKeeps, RaiseKeeps, StoreKeeps DEF Proceed
<1>3. ASSUME NEW b \in Backends, Rest(b) PROVE Inv'
  BY <1>3, BreakerMoved DEF Rest
<1>4. ASSUME NEW b \in Backends, Inspect(b) PROVE Inv'
  BY <1>4, BreakerMoved DEF Inspect
<1>5. CASE Evict
  BY <1>5, EvictKeeps
<1>6. CASE UNCHANGED vars
  <2> USE <1>6 DEF vars
  <2>1. StateOK' /\ CacheOK'
    BY DEF Inv, StateOK, CacheOK
  <2>2. BreakersOK'
    BY DEF Inv, BreakersOK, CallsOf, Current
  <2>3. HandlersOK'
    BY DEF Inv, HandlersOK, HandlerOK
  <2> QED BY <2>1, <2>2, <2>3 DEF Inv
<1> QED BY <1>1, <1>2, <1>3, <1>4, <1>5, <1>6 DEF Next

LEMMA SpecInv == Spec => []Inv
BY InitInv, NextInv, PTL DEF Spec
-----------------------------------------------------------------------------
(* The types, and that a search in progress is at a place of a candidate   *)
(* that can serve it: the routing loop never indexes what is not there.    *)
THEOREM TypesHold == Spec => []TypeOK
<1>1. Inv => TypeOK
  BY DEF Inv, StateOK, BreakersOK, BreakerOK, HandlersOK, HandlerOK, TypeOK
<1> QED BY <1>1, SpecInv, PTL

(* Whatever late answers arrive, a breaker is closed exactly while its     *)
(* failures are below the threshold (_record_success, _record_failure).    *)
THEOREM StateFollowsFailures == Spec => []ClosedBelowThreshold
<1>1. Inv => ClosedBelowThreshold
  BY DEF Inv, BreakersOK, BreakerOK, ClosedBelowThreshold
<1> QED BY <1>1, SpecInv, PTL

(* The probe slots of acquire never leak and never exceed their limit, for *)
(* any number of calls, early and late.                                    *)
THEOREM NoSlotLeaks == Spec => []SlotsBacked
<1>1. Inv => SlotsBacked
  BY DEF Inv, BreakersOK, BreakerOK, SlotsBacked
<1> QED BY <1>1, SpecInv, PTL

(* _route gives up on an auto search only after every backend that can     *)
(* serve it was attempted, or because its current candidate raised what is *)
(* no BackendError, everybody ahead of that one having been attempted; for *)
(* every rule and fallback configuration.                                  *)
THEOREM EveryCapableBackendTried == Spec => []FailsLast
<1>1. Inv => FailsLast
  BY DEF Inv, HandlersOK, HandlerOK, FailsLast, UpToCurrent, UpTo
<1> QED BY <1>1, SpecInv, PTL

(* Nobody is answered with another kind, query or backend than asked for,  *)
(* from a backend or from the cache.                                       *)
THEOREM AnswersFit == Spec => []OwnAnswer
<1>1. Inv => OwnAnswer
  BY DEF Inv, HandlersOK, HandlerOK, Fits, OwnAnswer
<1> QED BY <1>1, SpecInv, PTL
(* What a refused backend waits for: the rest of its open breaker, or one  *)
(* of its own calls.                                                       *)
RefusalPasses(b) == Refuses(Recovered(breakers[b])) =>
    \/ Rested(breakers[b]) # breakers[b]
    \/ CallsOf(b) # {}

(* A breaker that lets probes through at all (half_open_max_requests) never*)
(* refuses without a reason that passes: either its recovery timeout is    *)
(* still to come, or a call to its backend is in progress.  No breaker     *)
(* waits for what nobody will do, however late answers and probes mix.     *)
THEOREM NoRefusalIsFinal ==
    Spec => [](HalfOpenMax > 0 => \A b \in Backends : RefusalPasses(b))
<1>1. ASSUME Inv, HalfOpenMax > 0, NEW b \in Backends, Refuses(Recovered(breakers[b]))
      PROVE  Rested(breakers[b]) # breakers[b] \/ CallsOf(b) # {}
  <2> DEFINE e == breakers[b]
  <2>1. BreakerOK(e, Cardinality(CallsOf(b))) /\ e \in Breakers
    BY <1>1 DEF Inv, BreakersOK, BreakerOK
  <2>2. CASE e.state = "half_open"
    <3>1. e.inFlight >= HalfOpenMax /\ e.inFlight \in Nat
      BY <1>1, <2>1, <2>2 DEF Recovered, Refuses, Breakers
    <3>2. e.inFlight <= Cardinality(CallsOf(b))
      BY <2>1, <2>2 DEF BreakerOK
    <3>3. CASE CallsOf(b) = {}
      BY <1>1, <3>1, <3>2, <3>3, FS_EmptySet, HalfOpenAssumption
    <3> QED BY <3>3
  <2>3. CASE e.state = "open" /\ ~e.rested
    <3>1. Rested(e).rested = TRUE
      BY <2>1, <2>3 DEF Rested, Breakers
    <3> QED BY <2>3, <3>1
  <2>4. CASE e.state = "open" /\ e.rested
    <3>1. Recovered(e).state = "half_open" /\ Recovered(e).inFlight = 0
      BY <2>1, <2>4 DEF Recovered, Breakers
    <3> QED BY <1>1, <3>1, HalfOpenAssumption DEF Refuses
  <2>5. CASE e.state = "closed"
    BY <1>1, <2>5 DEF Recovered, Refuses
  <2> QED BY <2>1, <2>2, <2>3, <2>4, <2>5 DEF Breakers
<1>2. Inv => (HalfOpenMax > 0 => \A b \in Backends : RefusalPasses(b))
  BY <1>1 DEF RefusalPasses
<1> QED BY <1>2, SpecInv, PTL
-----------------------------------------------------------------------------
(* One search: it asks its candidates in their order, each once, and ends. *)

(* The step starts a call for the search t.                                *)
CallStarts(t) == pc'[t] = "calling" /\ (pc[t] # "calling" \/ at'[t] # at[t])

(* The candidate called had no turn, and each capable one before it had.   *)
InTurn(t) ==
    /\ Current(t)' \notin tried[t]
    /\ tried'[t] = UpTo(ask'[t], at'[t])

(* Awaits t may still come to: no more calls than places left.             *)
TurnsLeft(t) ==
    CASE pc[t] = "lookup"  -> Len(Order(ask[t])) + 3
      [] pc[t] = "calling" -> Len(Order(ask[t])) - at[t] + 2
      [] pc[t] = "store"   -> 1
      [] pc[t] \in {"idle", "done"} -> 0

(* The search t leaves its await, with fewer to come.                      *)
Advances(t) ==
    /\ pc[t] \in {"lookup", "calling", "store"} /\ ask'[t] = ask[t]
    /\ TurnsLeft(t) \in Nat /\ TurnsLeft(t)' \in Nat
    /\ TurnsLeft(t)' < TurnsLeft(t)

(* The search t, its answer included, is as it was.                        *)
Waits(t) ==
    /\ ask'[t] = ask[t] /\ pc'[t] = pc[t] /\ at'[t] = at[t]
    /\ tried'[t] = tried[t] /\ got'[t] = got[t] /\ out'[t] = out[t]

Begins(t) == pc[t] = "idle" /\ pc'[t] # "idle"

LEMMA PlacesBounded ==
    ASSUME NEW r
    PROVE  Len(Order(r)) \in Nat /\ Fitting(r) \subseteq 1..Len(Order(r))
BY OrderType DEF Fitting, Candidates

(* A backend has one place only.                                           *)
LEMMA PlacesDistinct ==
    ASSUME NEW r, NEW i \in Fitting(r), NEW j \in Fitting(r), i < j
    PROVE  Order(r)[i] # Order(r)[j]
<1>1. i \in 1..(j - 1)
  BY PlacesBounded
<1> QED BY <1>1 DEF Fitting, Candidates

(* Where AskNext leaves the search t.                                      *)
LEMMA AskNextTurns ==
    ASSUME Inv, NEW t \in Https, NEW r \in Searches, NEW from \in Nat, NEW B,
           AskNext(t, r, from, B), tried[t] = UpTo(r, from), ask' = [ask EXCEPT ![t] = r],
           got' = got
    PROVE  /\ OthersKept(t) /\ ask'[t] = r
           /\ \/ pc'[t] = "done"
              \/ /\ pc'[t] = "calling" /\ at'[t] \in Fitting(r) /\ at'[t] > from
                 /\ InTurn(t)
<1> USE DEF Inv, StateOK
<1>1. ask'[t] = r
  OBVIOUS
<1>2. CASE Ends(t, r, B)
  <2>1. PICK answer \in {"failed", "unsupported"} : out' = [out EXCEPT ![t] = answer]
    BY <1>2 DEF Ends
  <2>2. pc'[t] = "done" /\ OthersKept(t)
    BY <1>2, <2>1 DEF Ends, OthersKept
  <2> QED BY <1>1, <2>2
<1>3. ASSUME NEW i \in Fitting(r), i > from, Calls(t, r, B, i)
      PROVE  /\ OthersKept(t)
             /\ pc'[t] = "calling" /\ at'[t] = i /\ InTurn(t)
  <2>1. pc'[t] = "calling" /\ at'[t] = i /\ tried'[t] = UpTo(r, i) /\ OthersKept(t)
    BY <1>3 DEF Calls, OthersKept
  <2>2. \A j \in Fitting(r) : j <= from => Order(r)[j] # Order(r)[i]
    BY <1>3, PlacesDistinct, PlacesBounded
  <2>3. Order(r)[i] \notin tried[t]
    BY <2>2 DEF UpTo
  <2>4. Current(t)' = Order(r)[i]
    BY <1>1, <2>1 DEF Current
  <2> QED BY <1>1, <2>1, <2>3, <2>4 DEF InTurn
<1> HIDE DEF Inv, StateOK
<1> QED BY <1>1, <1>2, <1>3, AskNextOutcome

(* What every step does to the search u: only its own actions touch it,    *)
(* and these go on with it.                                                *)
Goes(u) ==
    /\ Waits(u) \/ Begins(u) \/ Advances(u)
    /\ CallStarts(u) => InTurn(u)

LEMMA OthersWait ==
    ASSUME NEW t \in Https, OthersKept(t), NEW u \in Https \ {t}
    PROVE  Goes(u)
BY DEF OthersKept, Goes, Waits, CallStarts

(* A search that is over, or stores its answer, has one turn at most.      *)
LEMMA AtLast ==
    ASSUME NEW t \in Https, ask'[t] = ask[t],
           \/ /\ pc[t] \in {"lookup", "calling"} /\ pc'[t] \in {"store", "done"}
              /\ pc[t] = "calling" => at[t] \in Fitting(ask[t])
           \/ pc[t] = "store" /\ pc'[t] = "done"
    PROVE  Advances(t) /\ ~CallStarts(t)
<1>1. /\ Len(Order(ask[t])) \in Nat
      /\ pc[t] = "calling" => at[t] \in 1..Len(Order(ask[t]))
  BY PlacesBounded
<1>2. TurnsLeft(t)' = IF pc'[t] = "store" THEN 1 ELSE 0
  BY DEF TurnsLeft
<1>3. /\ pc[t] = "lookup" => TurnsLeft(t) = Len(Order(ask[t])) + 3
      /\ pc[t] = "calling" => TurnsLeft(t) = Len(Order(ask[t])) - at[t] + 2
      /\ pc[t] = "store" => TurnsLeft(t) = 1
  BY DEF TurnsLeft
<1> QED BY <1>1, <1>2, <1>3 DEF Advances, CallStarts

(* A search that asks on has one candidate less.                           *)
LEMMA AskedOn ==
    ASSUME NEW t \in Https, pc'[t] = "calling", ask'[t] = ask[t],
           at'[t] \in Fitting(ask[t]),
           \/ pc[t] = "lookup"
           \/ pc[t] = "calling" /\ at[t] \in Fitting(ask[t]) /\ at'[t] > at[t]
    PROVE  Advances(t)
<1>1. /\ Len(Order(ask[t])) \in Nat /\ at'[t] \in 1..Len(Order(ask[t]))
      /\ pc[t] = "calling" => at[t] \in 1..Len(Order(ask[t]))
  BY PlacesBounded
<1>2. TurnsLeft(t)' = Len(Order(ask[t])) - at'[t] + 2
  BY DEF TurnsLeft
<1>3. /\ pc[t] = "lookup" => TurnsLeft(t) = Len(Order(ask[t])) + 3
      /\ pc[t] = "calling" => TurnsLeft(t) = Len(Order(ask[t])) - at[t] + 2
  BY DEF TurnsLeft
<1> QED BY <1>1, <1>2, <1>3 DEF Advances

LEMMA ProceedGoes ==
    ASSUME Inv, NEW t \in Https, Proceed(t)
    PROVE  OthersKept(t) /\ Advances(t) /\ Goes(t)
<1>1. \A u \in Https : pc[u] = "calling" => at[u] \in Fitting(ask[u]) /\ tried[u] = UpTo(ask[u], at[u])
  BY DEF Inv, HandlersOK, HandlerOK
<1>2. CASE Hit(t)
  <2>1. PICK x : got' = [got EXCEPT ![t] = {x}]
    BY <1>2 DEF Hit
  <2>2. /\ pc[t] = "lookup" /\ pc' = [pc EXCEPT ![t] = "done"]
        /\ out' = [out EXCEPT ![t] = "ok"] /\ UNCHANGED <<ask, at, tried>>
    BY <1>2 DEF Hit, Finish
  <2>3. OthersKept(t) /\ pc'[t] = "done"
    BY <2>1, <2>2 DEF Inv, StateOK, OthersKept
  <2>4. Advances(t) /\ ~CallStarts(t)
    BY <2>2, <2>3, AtLast
  <2> QED BY <2>3, <2>4 DEF Goes
<1>3. CASE Miss(t)
  <2>1. /\ pc[t] = "lookup" /\ tried[t] = {} /\ ask[t] \in Searches
        /\ AskNext(t, ask[t], 0, breakers) /\ UNCHANGED <<ask, got>>
    BY <1>3 DEF Miss, Inv, StateOK, HandlersOK, HandlerOK
  <2>2. UpTo(ask[t], 0) = {} /\ ask' = [ask EXCEPT ![t] = ask[t]]
    <3>1. \A j \in Fitting(ask[t]) : ~(j <= 0)
      BY PlacesBounded
    <3> QED BY <2>1, <3>1 DEF UpTo, Inv, StateOK
  <2>3. /\ OthersKept(t) /\ ask'[t] = ask[t]
        /\ \/ pc'[t] = "done"
           \/ pc'[t] = "calling" /\ at'[t] \in Fitting(ask[t]) /\ InTurn(t)
    BY <2>1, <2>2, AskNextTurns
  <2>4. Advances(t)
    BY <2>1, <2>3, AtLast, AskedOn
  <2> QED BY <2>3, <2>4 DEF Goes, CallStarts
<1>4. CASE Respond(t)
  <2>1. PICK x : got' = [got EXCEPT ![t] = {x}]
    BY <1>4 DEF Respond
  <2>2. PICK place \in {"store", "done"} : pc' = [pc EXCEPT ![t] = place]
    BY <1>4 DEF Respond, Finish
  <2>3. /\ pc[t] = "calling" /\ UNCHANGED <<ask, at, tried>>
        /\ out' = out \/ out' = [out EXCEPT ![t] = "ok"]
    BY <1>4 DEF Respond, Finish
  <2>4. OthersKept(t) /\ pc'[t] = place
    BY <2>1, <2>2, <2>3 DEF Inv, StateOK, OthersKept
  <2>5. Advances(t) /\ ~CallStarts(t)
    BY <1>1, <2>3, <2>4, AtLast
  <2> QED BY <2>4, <2>5 DEF Goes
<1>5. CASE Fail(t) /\ ask[t].backend = AnyBackend
  <2> DEFINE B == [breakers EXCEPT ![Current(t)] = Failed(@)]
  <2>1. /\ pc[t] = "calling" /\ ask[t] \in Searches /\ at[t] \in Nat
        /\ at[t] \in Fitting(ask[t]) /\ tried[t] = UpTo(ask[t], at[t])
    BY <1>1, <1>5 DEF Fail, Inv, StateOK
  <2>2. /\ AskNext(t, ask[t], at[t], B) /\ UNCHANGED <<ask, got>>
        /\ ask' = [ask EXCEPT ![t] = ask[t]]
    BY <1>5 DEF Fail, Inv, StateOK
  <2> HIDE DEF B
  <2>3. /\ OthersKept(t) /\ ask'[t] = ask[t]
        /\ \/ pc'[t] = "done"
           \/ /\ pc'[t] = "calling" /\ at'[t] \in Fitting(ask[t]) /\ at'[t] > at[t]
              /\ InTurn(t)
    BY <2>1, <2>2, AskNextTurns
  <2>4. Advances(t)
    BY <2>1, <2>3, AtLast, AskedOn
  <2> QED BY <2>3, <2>4 DEF Goes, CallStarts
<1>6. CASE Raise(t) \/ (Fail(t) /\ ask[t].backend # AnyBackend)
  <2>1. PICK answer \in Answers : pc' = [pc EXCEPT ![t] = "done"] /\ out' = [out EXCEPT ![t] = answer]
    BY <1>6 DEF Raise, Fail, Finish, Answers
  <2>2. pc[t] = "calling" /\ UNCHANGED <<ask, at, tried, got>>
    BY <1>6 DEF Raise, Fail
  <2>3. OthersKept(t) /\ pc'[t] = "done"
    BY <2>1, <2>2 DEF Inv, StateOK, OthersKept
  <2>4. Advances(t) /\ ~CallStarts(t)
    BY <1>1, <2>2, <2>3, AtLast
  <2> QED BY <2>3, <2>4 DEF Goes
<1>7. CASE Store(t)
  <2>1. /\ pc[t] = "store" /\ pc' = [pc EXCEPT ![t] = "done"]
        /\ out' = [out EXCEPT ![t] = "ok"] /\ UNCHANGED <<ask, at, tried, got>>
    BY <1>7 DEF Store, Finish
  <2>2. OthersKept(t) /\ pc'[t] = "done"
    BY <2>1 DEF Inv, StateOK, OthersKept
  <2>3. Advances(t) /\ ~CallStarts(t)
    BY <2>1, <2>2, AtLast
  <2> QED BY <2>2, <2>3 DEF Goes
<1>8. Hit(t) \/ Miss(t) \/ Respond(t) \/ Fail(t) \/ Raise(t) \/ Store(t)
  BY DEF Proceed
<1> QED BY <1>2, <1>3, <1>4, <1>5, <1>6, <1>7, <1>8

LEMMA ArriveGoes ==
    ASSUME Inv, NEW t \in Https, Arrive(t)
    PROVE  OthersKept(t) /\ Goes(t)
<1>1. pc[t] = "idle" /\ tried[t] = {} /\ UNCHANGED got
  BY DEF Arrive, Inv, HandlersOK, HandlerOK
<1>2. PICK r \in Workload :
         /\ ask' = [ask EXCEPT ![t] = r]
         /\ IF r.eligible
              THEN pc' = [pc EXCEPT ![t] = "lookup"] /\ UNCHANGED <<breakers, at, tried, out>>
              ELSE AskNext(t, r, 0, breakers)
  BY DEF Arrive
<1>3. CASE r.eligible
  <2>1. OthersKept(t) /\ pc'[t] = "lookup"
    BY <1>1, <1>2, <1>3 DEF Inv, StateOK, OthersKept
  <2> QED BY <1>1, <2>1 DEF Goes, Begins, CallStarts
<1>4. CASE ~r.eligible
  <2>1. r \in Searches /\ AskNext(t, r, 0, breakers) /\ tried[t] = UpTo(r, 0)
    <3>1. \A j \in Fitting(r) : ~(j <= 0)
      BY PlacesBounded
    <3> QED BY <1>1, <1>2, <1>4, <3>1, WorkloadAssumption DEF UpTo
  <2>2. OthersKept(t) /\ (pc'[t] = "done" \/ (pc'[t] = "calling" /\ InTurn(t)))
    BY <1>1, <1>2, <2>1, AskNextTurns
  <2> QED BY <1>1, <2>2 DEF Goes, Begins, CallStarts
<1> QED BY <1>3, <1>4

LEMMA EveryStepGoes ==
    ASSUME Inv, [Next]_vars, NEW u \in Https
    PROVE  Goes(u) /\ (Proceed(u) => Advances(u))
<1>1. Proceed(u) => Advances(u)
  BY ProceedGoes
<1>2. ASSUME NEW t \in Https, Arrive(t) \/ Proceed(t) PROVE Goes(u)
  <2>1. OthersKept(t) /\ Goes(t)
    BY <1>2, ArriveGoes, ProceedGoes
  <2> QED BY <2>1, OthersWait
<1>3. CASE UNCHANGED <<ask, pc, at, tried, got, out>>
  BY <1>1, <1>3 DEF Goes, Waits, CallStarts
<1>4. CASE \E t \in Https : Arrive(t) \/ Proceed(t)
  BY <1>1, <1>2, <1>4
<1>5. CASE (\E b \in Backends : Rest(b) \/ Inspect(b)) \/ Evict \/ UNCHANGED vars
  <2>1. UNCHANGED <<ask, pc, at, tried, got, out>>
    BY <1>5 DEF Rest, Inspect, Evict, vars
  <2> QED BY <1>1, <1>3, <2>1
<1> QED BY <1>4, <1>5 DEF Next

(* No search ever calls a backend twice, nor one whose capable betters in  *)
(* the candidates' order had no turn: the loop of _route, for every rule,  *)
(* fallback order and registry, whatever names these repeat.               *)
THEOREM CalledInTurnAndOnce ==
    Spec => [][\A t \in Https : CallStarts(t) => InTurn(t)]_vars
<1>1. Inv /\ [Next]_vars => [\A t \in Https : CallStarts(t) => InTurn(t)]_vars
  BY EveryStepGoes DEF Goes
<1> QED BY <1>1, SpecInv, PTL DEF Spec

(* Every step of a search brings it nearer to its end, by a measure its    *)
(* candidates bound; nothing else touches it once it has arrived, and its  *)
(* answer is final.                                                        *)
THEOREM SearchesAdvance ==
    Spec => [][\A t \in Https : /\ Proceed(t) => Advances(t)
                                /\ Waits(t) \/ Begins(t) \/ Advances(t)]_vars
<1>1. Inv /\ [Next]_vars =>
        [\A t \in Https : /\ Proceed(t) => Advances(t)
                          /\ Waits(t) \/ Begins(t) \/ Advances(t)]_vars
  BY EveryStepGoes DEF Goes
<1> QED BY <1>1, SpecInv, PTL DEF Spec
-----------------------------------------------------------------------------
(* SearchPages: each of its steps is one of SearchRouting or leaves it     *)
(* alone, so what was proved of all searches holds of these.               *)

LEMMA PagesStep == [PagesNext]_pages => [Next]_vars
<1> SUFFICES ASSUME [PagesNext]_pages PROVE [Next]_vars
  OBVIOUS
<1>1. ASSUME NEW t \in Https, Ask(t) \/ Open(t) \/ GoOn(t) PROVE [Next]_vars
  BY <1>1 DEF Ask, Open, GoOn, AuctionEnds, LookUp, Answered, Failing, Raising, Stored,
              Next, Proceed
<1>2. ASSUME NEW b \in Backends, Rests(b) PROVE [Next]_vars
  BY <1>2 DEF Rests, Next
<1>3. CASE Around
  BY <1>3 DEF Around, Next
<1>4. CASE UNCHANGED pages
  BY <1>4 DEF pages
<1> QED BY <1>1, <1>2, <1>3, <1>4 DEF PagesNext

LEMMA HttpErrors ==
    ASSUME NEW s
    PROVE  MapHttpError(s) \in BackendErrors
<1> DEFINE server == 500..599 \ {503}
<1> HIDE DEF server
<1>1. CASE s \in server
  BY <1>1 DEF MapHttpError, BackendErrors, server
<1> QED BY DEF MapHttpError, BackendErrors

(* The exceptions of _post are BackendErrors.                              *)
LEMMA PostRaises ==
    ASSUME NEW x \in Replies, SearchEnd(x) = "backend error"
    PROVE  Post(x) \in BackendErrors
<1>1. Post(x) # "data"
  BY DEF SearchEnd
<1>2. MapTransportError(x) \in BackendErrors
  BY DEF MapTransportError, BackendErrors
<1>3. ASSUME x.ends = "reply" PROVE MapHttpError(x.status) \in BackendErrors
  BY HttpErrors
<1>4. "BackendBadResponseError" \in BackendErrors
  BY DEF BackendErrors
<1> QED BY <1>1, <1>2, <1>3, <1>4 DEF Post

(* The last place of a candidate that can serve r is one.                  *)
LEMMA LastPlace ==
    ASSUME NEW r, NEW S \in SUBSET Fitting(r), S # {}
    PROVE  \E m \in S : \A j \in S : j <= m
<1>1. S \in SUBSET Nat
  BY FittingPlaces
<1>2. Len(Order(r)) \in Nat /\ DOMAIN Order(r) = 1..Len(Order(r))
  BY OrderType
<1>3. \A k \in S : k <= Len(Order(r))
  BY <1>2 DEF Fitting, Candidates
<1> QED BY <1>1, <1>2, <1>3, Greatest

Final(r) == Order(r)[CHOOSE i \in Fitting(r) : \A j \in Fitting(r) : j <= i]

LEMMA FinalPlace ==
    ASSUME NEW r, NEW m \in Fitting(r), \A j \in Fitting(r) : j <= m
    PROVE  Final(r) = Order(r)[m]
<1> DEFINE k == CHOOSE i \in Fitting(r) : \A j \in Fitting(r) : j <= i
<1>1. k \in Fitting(r) /\ \A j \in Fitting(r) : j <= k
  OBVIOUS
<1> HIDE DEF k
<1>2. k \in Nat /\ m \in Nat /\ k <= m /\ m <= k
  BY <1>1, FittingPlaces
<1>3. k = m
  BY <1>2
<1> QED BY <1>3 DEF Final, k

(* Whoever is the last of those after a place is the last of all.          *)
LEMMA FinalAfter ==
    ASSUME NEW r, NEW from \in Nat, NEW S, S = {i \in Fitting(r) : i > from}, S # {}
    PROVE  Order(r)[CHOOSE i \in S : \A j \in S : j <= i] = Final(r)
<1> DEFINE k == CHOOSE i \in S : \A j \in S : j <= i
<1>1. \E m \in S : \A j \in S : j <= m
  BY LastPlace
<1>2. k \in S /\ \A j \in S : j <= k
  BY <1>1
<1> HIDE DEF k
<1>3. k \in Fitting(r) /\ \A j \in Fitting(r) : j <= k
  BY <1>2, FittingPlaces
<1>4. Final(r) = Order(r)[k]
  BY <1>3, FinalPlace
<1> QED BY <1>4 DEF k

(* A search for a named backend has one place at most.                     *)
LEMMA NamedPlace ==
    ASSUME NEW r, r.backend # AnyBackend, NEW i \in Fitting(r)
    PROVE  Fitting(r) = {i}
<1>1. \A j \in Fitting(r) : j \in DOMAIN Order(r)
  BY DEF Fitting, Candidates
<1>2. CASE r.backend \in Backends
  <2>1. Order(r) = <<r.backend>>
    BY <1>2, OrderCases
  <2> QED BY <1>1, <2>1
<1>3. CASE r.backend \notin Backends
  <2>1. Order(r) = <<>>
    BY <1>3, OrderCases
  <2> QED BY <1>1, <2>1
<1> QED BY <1>2, <1>3

(* AskNext leaves those behind whose breakers refuse.                      *)

GivesUp(t, r, from, B) ==
    /\ pc' = [pc EXCEPT ![t] = "done"] /\ at' = at
    /\ out' = [out EXCEPT ![t] = IF Fitting(r) = {} THEN "unsupported" ELSE "failed"]
    /\ \A i \in Fitting(r) : i > from => Refuses(Recovered(B[Order(r)[i]]))

MovesTo(t, r, from, B, k) ==
    /\ k > from /\ pc' = [pc EXCEPT ![t] = "calling"] /\ out' = out
    /\ at' = [at EXCEPT ![t] = k]
    /\ \A i \in Fitting(r) : i > from /\ i < k => Refuses(Recovered(B[Order(r)[i]]))

LEMMA AskNextLeaves ==
    ASSUME NEW t, NEW r, NEW from \in Nat, NEW B, AskNext(t, r, from, B),
           tried[t] = UpTo(r, from)
    PROVE  /\ \A b \in Backends :
                breakers'[b] \in {B[b], Recovered(B[b]), Entered(Recovered(B[b]))}
           /\ \/ GivesUp(t, r, from, B)
              \/ \E k \in Fitting(r) : MovesTo(t, r, from, B, k)
<1> DEFINE order == Order(r)
           next  == {i \in Fitting(r) : i > from}
           fit   == {i \in next : ~Refuses(Recovered(B[order[i]]))}
           first == CHOOSE i \in fit : \A j \in fit : i <= j
           asked == {order[i] : i \in {j \in next : fit = {} \/ j <= first}}
<1>1. Fitting(r) \in SUBSET Nat
  BY FittingPlaces
<1>2. \A b \in Backends :
        breakers'[b] \in {B[b], Recovered(B[b]), Entered(Recovered(B[b]))}
  <2>1. CASE fit = {}
    <3>1. breakers' = [b \in Backends |-> IF b \in asked THEN Recovered(B[b]) ELSE B[b]]
      BY <2>1 DEF AskNext
    <3> QED BY <3>1
  <2>2. CASE fit # {}
    <3>1. breakers' = [b \in Backends |->
              IF b = order[first] THEN Entered(Recovered(B[b]))
              ELSE IF b \in asked THEN Recovered(B[b]) ELSE B[b]]
      BY <2>2 DEF AskNext
    <3> QED BY <3>1
  <2> QED BY <2>1, <2>2
<1>3. CASE fit = {}
  <2>1. tried[t] \cup asked = {} <=> Fitting(r) = {}
    <3>1. asked = {order[i] : i \in next}
      BY <1>3
    <3>2. \A i \in Fitting(r) : i <= from \/ i > from
      BY <1>1
    <3> QED BY <3>1, <3>2 DEF UpTo
  <2>2. /\ pc' = [pc EXCEPT ![t] = "done"] /\ at' = at
        /\ out' = [out EXCEPT ![t] =
              IF tried[t] \cup asked = {} THEN "unsupported" ELSE "failed"]
    BY <1>3 DEF AskNext, Finish
  <2>3. \A i \in Fitting(r) : i > from => Refuses(Recovered(B[order[i]]))
    BY <1>3
  <2> HIDE DEF asked
  <2> QED BY <1>2, <2>1, <2>2, <2>3 DEF GivesUp
<1>4. CASE fit # {}
  <2>1. first \in fit /\ \A j \in fit : first <= j
    <3>1. fit \in SUBSET Nat
      BY <1>1
    <3> HIDE DEF fit
    <3> QED BY <1>4, <3>1, Least
  <2>2. /\ pc' = [pc EXCEPT ![t] = "calling"] /\ out' = out
        /\ at' = [at EXCEPT ![t] = first]
    BY <1>4 DEF AskNext
  <2> HIDE DEF first
  <2>3. \A i \in Fitting(r) : i > from /\ i < first => Refuses(Recovered(B[order[i]]))
    <3> TAKE i \in Fitting(r)
    <3> HAVE i > from /\ i < first
    <3>1. first \in Nat /\ i \in Nat
      BY <1>1, <2>1
    <3>2. i \notin fit
      BY <2>1, <3>1
    <3> QED BY <3>2
  <2>4. first \in Fitting(r) /\ first > from
    BY <2>1
  <2> QED BY <1>2, <2>2, <2>3, <2>4 DEF MovesTo
<1> QED BY <1>3, <1>4
-----------------------------------------------------------------------------
(* The inductive invariant of the mocks and of what is told: a mock's      *)
(* breaker never leaves "closed", so no search passes a mock by, and none  *)
(* that may use one fails.                                                 *)

Told(t) == \E error \in BackendErrors :
    /\ raised[t] = {[from |-> Final(ask[t]), error |-> error]}
    /\ \/ error = "CircuitOpenError"
       \/ Final(ask[t]) = Current(t) /\ \E x \in Replies : error = Post(x)

(* What ended the search t is a reply that no mock gets, and no mock was   *)
(* tried before.                                                           *)
RaisedAlone(t) ==
    /\ \A i \in Fitting(ask[t]) : i <= at[t] => Order(ask[t])[i] \notin mocks
    /\ \E x \in Replies : SearchEnd(x) = "other exception"

PageOK(t) ==
    /\ pc[t] = "calling" =>
         \A i \in Fitting(ask[t]) : i < at[t] => Order(ask[t])[i] \notin mocks
    /\ out[t] \in Unserved => pc[t] = "done"
    /\ out[t] = "failed" =>
         Told(t) /\ \A i \in Fitting(ask[t]) : Order(ask[t])[i] \notin mocks
    /\ out[t] = "unsupported" => Fitting(ask[t]) = {}
    /\ out[t] = "error" => RaisedAlone(t)

MocksClosed == mocks \subseteq Backends /\ \A b \in mocks : breakers[b].state = "closed"

RaisedOK == raised = [t \in Https |-> raised[t]]

PagesInv == Inv /\ MocksClosed /\ RaisedOK /\ \A t \in Https : PageOK(t)

LEMMA ClosedStays ==
    ASSUME NEW b, b.state = "closed"
    PROVE  /\ ~Refuses(Recovered(b))
           /\ Recovered(b).state = "closed" /\ Entered(Recovered(b)).state = "closed"
BY DEF Refuses, Recovered, Entered

(* A search nothing happens to stays as it is.                             *)
LEMMA PageKept ==
    ASSUME NEW u, PageOK(u), mocks' = mocks, ask'[u] = ask[u], pc'[u] = pc[u],
           at'[u] = at[u], out'[u] = out[u], raised'[u] = raised[u]
    PROVE  PageOK(u)'
<1>1. Current(u)' = Current(u)
  BY DEF Current
<1>2. (Told(u)' <=> Told(u)) /\ (RaisedAlone(u)' <=> RaisedAlone(u))
  BY <1>1 DEF Told, RaisedAlone
<1> QED BY <1>2 DEF PageOK

(* t goes on after a place with the breakers B: from 0 with no exception   *)
(* yet, or from its current one, whose call raised exc.                    *)
GoesOn(t, r, from, B, exc) ==
    /\ tried[t] = UpTo(r, from) /\ out[t] \notin Unserved
    /\ \A b \in mocks : B[b].state = "closed"
    /\ \A i \in Fitting(r) : i <= from => Order(r)[i] \notin mocks
    /\ from # 0 => /\ from = at[t] /\ from \in Fitting(r)
                   /\ \E error \in BackendErrors :
                        /\ exc = {[from |-> Order(r)[from], error |-> error]}
                        /\ \E x \in Replies : error = Post(x)

OthersPages(t) == \A u \in Https \ {t} :
    /\ ask'[u] = ask[u] /\ pc'[u] = pc[u] /\ at'[u] = at[u]
    /\ out'[u] = out[u] /\ raised'[u] = raised[u]

LEMMA AskNextTells ==
    ASSUME StateOK, RaisedOK, mocks \subseteq Backends, NEW t \in Https, NEW r,
           NEW from \in Nat, NEW B, NEW exc, GoesOn(t, r, from, B, exc),
           AskNext(t, r, from, B), Tells(t, from, exc),
           ask' = [ask EXCEPT ![t] = r], mocks' = mocks
    PROVE  PageOK(t)' /\ MocksClosed' /\ RaisedOK' /\ OthersPages(t)
<1> USE DEF GoesOn
<1> DEFINE S == Skipped(t, from)
           told == IF S = {} THEN exc
                   ELSE {[from |-> Order(ask'[t])[CHOOSE i \in S : \A j \in S : j <= i],
                          error |-> "CircuitOpenError"]}
<1>1. raised' = [raised EXCEPT ![t] = told]
  BY DEF Tells
<1>2. ask'[t] = r
  BY DEF StateOK
<1> HIDE DEF told
<1>3. RaisedOK' /\ raised'[t] = told /\ \A u \in Https \ {t} : raised'[u] = raised[u]
  BY <1>1 DEF RaisedOK
<1>4. \A b \in Backends :
        breakers'[b] \in {B[b], Recovered(B[b]), Entered(Recovered(B[b]))}
  BY AskNextLeaves
<1>5. MocksClosed'
  <2>1. \A b \in mocks : breakers'[b].state = "closed"
    BY <1>4, ClosedStays
  <2> QED BY <2>1 DEF MocksClosed
<1>6. \A i \in Fitting(r) : Refuses(Recovered(B[Order(r)[i]])) => Order(r)[i] \notin mocks
  BY ClosedStays
<1>7. Fitting(r) \in SUBSET (Nat \ {0})
  BY FittingPlaces
<1>8. CASE GivesUp(t, r, from, B)
  <2>1. pc'[t] = "done" /\ at'[t] = at[t]
        /\ out'[t] = IF Fitting(r) = {} THEN "unsupported" ELSE "failed"
    BY <1>8 DEF StateOK, GivesUp
  <2>2. \A i \in Fitting(r) : Order(r)[i] \notin mocks
    BY <1>6, <1>7, <1>8 DEF GivesUp
  <2>3. S = {i \in Fitting(r) : i > from}
    BY <1>2, <2>1 DEF Skipped
  <2>4. ASSUME Fitting(r) # {} PROVE Told(t)'
    <3>1. CASE S # {}
      <4>1. told = {[from |-> Final(r), error |-> "CircuitOpenError"]}
        BY <1>2, <2>3, <3>1, FinalAfter DEF told
      <4>2. "CircuitOpenError" \in BackendErrors
        BY DEF BackendErrors
      <4> QED BY <1>2, <1>3, <4>1, <4>2 DEF Told
    <3>2. CASE S = {}
      <4>1. PICK m \in Fitting(r) : \A j \in Fitting(r) : j <= m
        BY <2>4, LastPlace
      <4>2. \A i \in Fitting(r) : i <= from
        BY <1>7, <2>3, <3>2
      <4>3. from # 0
        BY <1>7, <4>1, <4>2
      <4>4. PICK error \in BackendErrors :
              /\ exc = {[from |-> Order(r)[from], error |-> error]}
              /\ \E x \in Replies : error = Post(x)
        BY <4>3
      <4>5. told = {[from |-> Order(r)[from], error |-> error]}
        BY <3>2, <4>4 DEF told
      <4>6. from \in Fitting(r)
        BY <4>3
      <4>7. Final(r) = Order(r)[from]
        BY <4>2, <4>6, FinalPlace
      <4>8. Current(t)' = Order(r)[from]
        BY <1>2, <2>1, <4>3 DEF Current
      <4> QED BY <1>2, <1>3, <4>4, <4>5, <4>7, <4>8 DEF Told
    <3> QED BY <3>1, <3>2
  <2>5. PageOK(t)'
    BY <1>2, <2>1, <2>2, <2>4 DEF PageOK
  <2>6. \A u \in Https \ {t} :
          /\ ask'[u] = ask[u] /\ pc'[u] = pc[u] /\ at'[u] = at[u] /\ out'[u] = out[u]
    BY <1>8 DEF StateOK, GivesUp
  <2> QED BY <1>3, <1>5, <2>5, <2>6 DEF OthersPages
<1>9. ASSUME NEW k \in Fitting(r), MovesTo(t, r, from, B, k)
      PROVE  PageOK(t)' /\ \A u \in Https \ {t} :
               ask'[u] = ask[u] /\ pc'[u] = pc[u] /\ at'[u] = at[u] /\ out'[u] = out[u]
  <2>2. pc'[t] = "calling" /\ at'[t] = k /\ out'[t] = out[t]
    BY <1>9 DEF StateOK, MovesTo
  <2>3. \A i \in Fitting(r) : i < k => Order(r)[i] \notin mocks
    BY <1>6, <1>7, <1>9 DEF MovesTo
  <2>4. PageOK(t)'
    BY <1>2, <2>2, <2>3 DEF PageOK
  <2>5. \A u \in Https \ {t} :
          /\ ask'[u] = ask[u] /\ pc'[u] = pc[u] /\ at'[u] = at[u] /\ out'[u] = out[u]
    BY <1>9 DEF StateOK, MovesTo
  <2> QED BY <2>4, <2>5
<1> QED BY <1>3, <1>5, <1>8, <1>9, AskNextLeaves DEF OthersPages
-----------------------------------------------------------------------------
(* Every action preserves it.  Inv comes from NextInv each time.           *)

LEMMA PagesInvStep ==
    ASSUME PagesInv, [Next]_vars, mocks' = mocks, MocksClosed', RaisedOK',
           \A u \in Https : PageOK(u)'
    PROVE  PagesInv'
BY NextInv DEF PagesInv

(* A search reaches AskNext with nothing tried, or stops for the cache.    *)
Starts(t, r) ==
    /\ pc[t] \in {"idle", "lookup"} /\ ask' = [ask EXCEPT ![t] = r] /\ mocks' = mocks
    /\ AskNext(t, r, 0, breakers) /\ Tells(t, 0, {})

LEMMA StartsKeeps ==
    ASSUME PagesInv, NEW t \in Https, NEW r, Starts(t, r), [Next]_vars
    PROVE  PagesInv'
<1> USE DEF Starts
<1>1. tried[t] = UpTo(r, 0)
  <2>1. UpTo(r, 0) = {}
    BY FittingPlaces DEF UpTo
  <2> QED BY <2>1 DEF PagesInv, Inv, HandlersOK, HandlerOK
<1>2. out[t] \notin Unserved
  BY DEF PagesInv, PageOK
<1>3. \A i \in Fitting(r) : i <= 0 => Order(r)[i] \notin mocks
  BY FittingPlaces
<1>4. StateOK /\ RaisedOK /\ mocks \subseteq Backends /\ \A b \in mocks : breakers[b].state = "closed"
  BY DEF PagesInv, Inv, MocksClosed
<1>5. GoesOn(t, r, 0, breakers, {}) /\ 0 \in Nat
  BY <1>1, <1>2, <1>3, <1>4 DEF GoesOn
<1>6. PageOK(t)' /\ MocksClosed' /\ RaisedOK' /\ OthersPages(t)
  BY <1>4, <1>5, AskNextTells, Zenon
<1>7. \A u \in Https : PageOK(u)'
  BY <1>6, PageKept DEF PagesInv, OthersPages
<1> QED BY <1>6, <1>7, PagesInvStep

(* A step that tells nobody anything and gives t no exception.             *)
LEMMA QuietKeeps ==
    ASSUME PagesInv, NEW t \in Https, [Next]_vars, mocks' = mocks, raised' = raised,
           MocksClosed', pc'[t] # "calling", out'[t] \notin {"failed", "unsupported"},
           out'[t] \in Unserved => pc'[t] = "done" /\ RaisedAlone(t)',
           \A u \in Https \ {t} : /\ ask'[u] = ask[u] /\ pc'[u] = pc[u]
                                  /\ at'[u] = at[u] /\ out'[u] = out[u]
    PROVE  PagesInv'
<1>1. PageOK(t)' /\ RaisedOK'
  BY DEF PageOK, PagesInv, RaisedOK
<1>2. \A u \in Https : PageOK(u)'
  BY <1>1, PageKept DEF PagesInv
<1> QED BY <1>1, <1>2, PagesInvStep

LEMMA ArrivalKeeps ==
    ASSUME PagesInv, NEW t \in Https, Arrive(t), mocks' = mocks,
           IF pc'[t] = "lookup" THEN UNCHANGED raised ELSE Tells(t, 0, {})
    PROVE  PagesInv'
<1>1. [Next]_vars
  BY DEF Next
<1>2. PICK r \in Workload :
         /\ ask' = [ask EXCEPT ![t] = r]
         /\ IF r.eligible
              THEN pc' = [pc EXCEPT ![t] = "lookup"] /\ UNCHANGED <<breakers, at, tried, out>>
              ELSE AskNext(t, r, 0, breakers)
  BY DEF Arrive
<1>3. StateOK /\ pc[t] = "idle" /\ out[t] \notin Unserved
  BY DEF Arrive, PagesInv, Inv, PageOK
<1>4. CASE r.eligible
  <2>1. /\ pc'[t] = "lookup" /\ out' = out /\ at' = at /\ breakers' = breakers
        /\ \A u \in Https \ {t} : ask'[u] = ask[u] /\ pc'[u] = pc[u]
    BY <1>2, <1>3, <1>4 DEF StateOK
  <2>2. MocksClosed'
    BY <2>1 DEF PagesInv, MocksClosed
  <2> QED BY <1>1, <1>3, <2>1, <2>2, QuietKeeps
<1>5. CASE ~r.eligible
  <2>1. AskNext(t, r, 0, breakers)
    BY <1>2, <1>5
  <2>2. pc'[t] # "lookup"
    BY <1>3, <2>1 DEF AskNext, Finish, StateOK
  <2>3. Starts(t, r)
    BY <1>2, <1>3, <2>1, <2>2 DEF Starts
  <2> QED BY <1>1, <2>3, StartsKeeps
<1> QED BY <1>4, <1>5

LEMMA AuctionKeeps ==
    ASSUME PagesInv, NEW t \in Https, AuctionEnds(t)
    PROVE  PagesInv'
<1>1. mocks' = mocks
  BY DEF AuctionEnds
<1>2. CASE Arrive(t) /\ ~ask'[t].eligible /\ Tells(t, 0, {})
  <2>1. pc'[t] # "lookup"
    <3>1. PICK r \in Workload :
             /\ ask' = [ask EXCEPT ![t] = r]
             /\ IF r.eligible
                  THEN pc' = [pc EXCEPT ![t] = "lookup"] /\ UNCHANGED <<breakers, at, tried, out>>
                  ELSE AskNext(t, r, 0, breakers)
      BY <1>2 DEF Arrive
    <3>2. ask'[t] = r /\ StateOK
      BY <3>1 DEF PagesInv, Inv, StateOK
    <3>3. AskNext(t, r, 0, breakers)
      BY <1>2, <3>1, <3>2
    <3> QED BY <3>2, <3>3 DEF AskNext, Finish, StateOK
  <2> QED BY <1>1, <1>2, <2>1, ArrivalKeeps
<1>3. CASE UNCHANGED <<vars, raised>>
  <2>1. \A u \in Https : PageOK(u)'
    BY <1>1, <1>3, PageKept DEF vars, PagesInv
  <2>2. MocksClosed' /\ RaisedOK'
    BY <1>1, <1>3 DEF vars, PagesInv, MocksClosed, RaisedOK
  <2> QED BY <1>1, <1>3, <2>1, <2>2, PagesInvStep
<1> QED BY <1>2, <1>3 DEF AuctionEnds

LEMMA LookUpKeeps ==
    ASSUME PagesInv, NEW t \in Https, LookUp(t)
    PROVE  PagesInv'
<1>1. mocks' = mocks /\ StateOK
  BY DEF LookUp, PagesInv, Inv
<1>2. CASE Hit(t) /\ UNCHANGED raised
  <2>1. /\ pc'[t] = "done" /\ out'[t] = "ok" /\ ask' = ask /\ at' = at
        /\ breakers' = breakers
        /\ \A u \in Https \ {t} : pc'[u] = pc[u] /\ out'[u] = out[u]
    BY <1>1, <1>2 DEF Hit, Finish, StateOK
  <2>2. [Next]_vars
    BY <1>2 DEF Next, Proceed
  <2>3. MocksClosed'
    BY <1>1, <2>1 DEF PagesInv, MocksClosed
  <2> QED BY <1>1, <1>2, <2>1, <2>2, <2>3, QuietKeeps
<1>3. CASE Miss(t) /\ Tells(t, 0, {})
  <2>1. pc[t] = "lookup" /\ AskNext(t, ask[t], 0, breakers) /\ ask' = [ask EXCEPT ![t] = ask[t]]
    BY <1>1, <1>3 DEF Miss, StateOK
  <2>2. [Next]_vars
    BY <1>3 DEF Next, Proceed
  <2>3. Starts(t, ask[t])
    BY <1>1, <1>3, <2>1 DEF Starts
  <2> QED BY <2>2, <2>3, StartsKeeps
<1> QED BY <1>2, <1>3 DEF LookUp

(* A call ends with an answer: its breaker is closed.                      *)
LEMMA AnsweredKeeps ==
    ASSUME PagesInv, NEW t \in Https, Answered(t)
    PROVE  PagesInv'
<1>1. /\ Respond(t) /\ mocks' = mocks /\ raised' = raised /\ StateOK
      /\ out[t] \notin Unserved
  BY DEF Answered, PagesInv, Inv, PageOK
<1>2. /\ pc'[t] \in {"store", "done"} /\ out'[t] \in {out[t], "ok"} /\ ask' = ask /\ at' = at
      /\ \A u \in Https \ {t} : pc'[u] = pc[u] /\ out'[u] = out[u]
  BY <1>1 DEF Respond, Finish, StateOK
<1>3. MocksClosed'
  <2>1. \A b \in Backends : breakers'[b] \in {breakers[b], Fresh}
    BY <1>1 DEF Respond, Succeeded, PagesInv, Inv, BreakersOK
  <2> QED BY <1>1, <2>1 DEF PagesInv, MocksClosed, Fresh
<1>4. [Next]_vars
  BY <1>1 DEF Next, Proceed
<1> QED BY <1>1, <1>2, <1>3, <1>4, QuietKeeps

(* What fails is no mock, so no mock's breaker sees a failure.             *)
LEMMA FailedApartFromMocks ==
    ASSUME PagesInv, NEW t \in Https, Current(t) \notin mocks
    PROVE  \A b \in mocks : [breakers EXCEPT ![Current(t)] = Failed(@)][b].state = "closed"
BY DEF PagesInv, MocksClosed, Inv, BreakersOK

LEMMA RaisingKeeps ==
    ASSUME PagesInv, NEW t \in Https, Raising(t)
    PROVE  PagesInv'
<1>1. Raise(t) /\ mocks' = mocks /\ raised' = raised /\ StateOK /\ Current(t) \notin mocks
  BY DEF Raising, May, PagesInv, Inv
<1>2. /\ pc'[t] = "done" /\ out'[t] = "error" /\ ask' = ask /\ at' = at
      /\ \A u \in Https \ {t} : pc'[u] = pc[u] /\ out'[u] = out[u]
  BY <1>1 DEF Raise, Finish, StateOK
<1>3. MocksClosed'
  <2>1. \A b \in mocks : breakers'[b].state = "closed"
    BY <1>1, FailedApartFromMocks DEF Raise
  <2> QED BY <1>1, <2>1 DEF PagesInv, MocksClosed
<1>4. [Next]_vars
  BY <1>1 DEF Next, Proceed
<1>5. RaisedAlone(t)'
  <2>1. /\ at[t] \in Fitting(ask[t]) /\ Fitting(ask[t]) \in SUBSET Nat
        /\ \A i \in Fitting(ask[t]) : i < at[t] => Order(ask[t])[i] \notin mocks
    BY FittingPlaces DEF Raising, PagesInv, Inv, HandlersOK, HandlerOK, PageOK
  <2>2. \A i \in Fitting(ask[t]) : i <= at[t] => i < at[t] \/ i = at[t]
    BY <2>1
  <2>3. Order(ask[t])[at[t]] \notin mocks
    BY <1>1 DEF Current
  <2>4. \E x \in Replies : SearchEnd(x) = "other exception"
    BY <1>1 DEF Raising, May
  <2> QED BY <1>1, <1>2, <2>1, <2>2, <2>3, <2>4 DEF RaisedAlone
<1> QED BY <1>1, <1>2, <1>3, <1>4, <1>5, QuietKeeps

LEMMA StoredKeeps ==
    ASSUME PagesInv, NEW t \in Https, Stored(t)
    PROVE  PagesInv'
<1>1. Store(t) /\ mocks' = mocks /\ raised' = raised /\ StateOK
  BY DEF Stored, PagesInv, Inv
<1>2. /\ pc'[t] = "done" /\ out'[t] = "ok" /\ ask' = ask /\ at' = at /\ breakers' = breakers
      /\ \A u \in Https \ {t} : pc'[u] = pc[u] /\ out'[u] = out[u]
  BY <1>1 DEF Store, Finish, StateOK
<1>3. MocksClosed'
  BY <1>1, <1>2 DEF PagesInv, MocksClosed
<1>4. [Next]_vars
  BY <1>1 DEF Next, Proceed
<1> QED BY <1>1, <1>2, <1>3, <1>4, QuietKeeps

(* A call fails, and the search with it or after the others.               *)
LEMMA FailingKeeps ==
    ASSUME PagesInv, NEW t \in Https, Failing(t)
    PROVE  PagesInv'
<1> DEFINE r == ask[t]
           B == [breakers EXCEPT ![Current(t)] = Failed(@)]
<1>1. PICK x \in Replies :
         /\ SearchEnd(x) = "backend error" /\ Fail(t)
         /\ Tells(t, at[t], {[from |-> Current(t), error |-> Post(x)]})
  BY DEF Failing
<1>2. pc[t] = "calling" /\ mocks' = mocks /\ StateOK /\ RaisedOK /\ Current(t) \notin mocks
  BY DEF Failing, PagesInv, Inv
<1>3. [Next]_vars
  BY <1>1 DEF Next, Proceed
<1>4. /\ at[t] \in Fitting(r) /\ tried[t] = UpTo(r, at[t])
      /\ out[t] \notin Unserved
      /\ \A i \in Fitting(r) : i < at[t] => Order(r)[i] \notin mocks
  BY <1>2 DEF PagesInv, Inv, HandlersOK, HandlerOK, PageOK
<1>5. at[t] \in Nat /\ at[t] # 0 /\ Current(t) = Order(r)[at[t]] /\ Fitting(r) \in SUBSET Nat
  BY <1>4, FittingPlaces DEF Current
<1>6. \A b \in mocks : B[b].state = "closed"
  BY <1>2, FailedApartFromMocks
<1>7. mocks \subseteq Backends
  BY DEF PagesInv, MocksClosed
<1>8. Post(x) \in BackendErrors
  BY <1>1, PostRaises
<1>9. CASE r.backend = AnyBackend
  <2>1. AskNext(t, r, at[t], B)
    BY <1>1, <1>9 DEF Fail
  <2>2. ask' = [ask EXCEPT ![t] = r]
    BY <1>1, <1>2 DEF Fail, StateOK
  <2>3. \A i \in Fitting(r) : i <= at[t] => Order(r)[i] \notin mocks
    <3> TAKE i \in Fitting(r)
    <3> HAVE i <= at[t]
    <3>1. i < at[t] \/ i = at[t]
      BY <1>5
    <3> QED BY <1>2, <1>4, <1>5, <3>1
  <2> DEFINE exc == {[from |-> Order(r)[at[t]], error |-> Post(x)]}
  <2>4. /\ Tells(t, at[t], exc)
        /\ \E error \in BackendErrors :
             /\ exc = {[from |-> Order(r)[at[t]], error |-> error]}
             /\ \E y \in Replies : error = Post(y)
    BY <1>1, <1>5, <1>8
  <2>5. GoesOn(t, r, at[t], B, exc)
    BY <1>4, <1>5, <1>6, <2>3, <2>4 DEF GoesOn
  <2> HIDE DEF B, exc, r
  <2>6. PageOK(t)' /\ MocksClosed' /\ RaisedOK' /\ OthersPages(t)
    BY <1>2, <1>5, <1>7, <2>1, <2>2, <2>4, <2>5, AskNextTells, Zenon
  <2>7. \A u \in Https : PageOK(u)'
    BY <1>2, <2>6, PageKept DEF PagesInv, OthersPages
  <2> QED BY <1>2, <1>3, <2>6, <2>7, PagesInvStep
<1>10. CASE r.backend # AnyBackend
  <2>1. /\ breakers' = B /\ pc'[t] = "done" /\ out'[t] = "failed" /\ ask' = ask /\ at' = at
        /\ \A u \in Https \ {t} : pc'[u] = pc[u] /\ out'[u] = out[u]
    BY <1>1, <1>2, <1>10 DEF Fail, Finish, StateOK
  <2>2. Fitting(r) = {at[t]}
    BY <1>4, <1>10, NamedPlace
  <2>3. Skipped(t, at[t]) = {}
    BY <1>5, <2>1, <2>2 DEF Skipped
  <2>4. raised' = [raised EXCEPT ![t] = {[from |-> Current(t), error |-> Post(x)]}]
    BY <1>1, <2>3 DEF Tells
  <2>5. /\ RaisedOK' /\ raised'[t] = {[from |-> Current(t), error |-> Post(x)]}
        /\ \A u \in Https \ {t} : raised'[u] = raised[u]
    BY <1>2, <2>4 DEF RaisedOK
  <2>6. Final(r) = Current(t) /\ Current(t)' = Current(t)
    BY <1>4, <1>5, <2>1, <2>2, FinalPlace DEF Current
  <2>7. Told(t)'
    BY <1>8, <2>1, <2>5, <2>6 DEF Told
  <2>8. \A i \in Fitting(r) : Order(r)[i] \notin mocks
    BY <1>2, <1>5, <2>2
  <2>9. PageOK(t)'
    BY <1>2, <2>1, <2>7, <2>8 DEF PageOK
  <2>10. \A u \in Https : PageOK(u)'
    BY <1>2, <2>1, <2>5, <2>9, PageKept DEF PagesInv
  <2>11. MocksClosed'
    BY <1>2, <1>6, <1>7, <2>1 DEF MocksClosed
  <2> QED BY <1>2, <1>3, <2>5, <2>10, <2>11, PagesInvStep
<1> QED BY <1>9, <1>10

(* The clock, the list of backends and the cache move no search.           *)
LEMMA AroundKeeps ==
    ASSUME PagesInv, UNCHANGED <<mocks, raised>>,
           \/ Around
           \/ \E b \in Backends : Rest(b)
           \/ UNCHANGED vars
    PROVE  PagesInv'
<1>1. ask' = ask /\ pc' = pc /\ at' = at /\ out' = out
  BY DEF Around, Evict, Inspect, Rest, vars
<1>2. \A b \in Backends :
        breakers'[b] \in {breakers[b], Recovered(breakers[b]), Rested(breakers[b])}
  BY DEF Around, Evict, Inspect, Rest, vars, PagesInv, Inv, BreakersOK
<1>3. \A b \in mocks : breakers'[b].state = "closed"
  <2> TAKE b \in mocks
  <2>1. breakers[b].state = "closed" /\ b \in Backends
    BY DEF PagesInv, MocksClosed
  <2>2. Recovered(breakers[b]).state = "closed"
    BY <2>1, ClosedStays
  <2>3. Rested(breakers[b]).state = "closed"
    BY <2>1 DEF Rested, PagesInv, Inv, BreakersOK, BreakerOK, Breakers
  <2> QED BY <1>2, <2>1, <2>2, <2>3
<1>4. MocksClosed' /\ RaisedOK'
  BY <1>3 DEF PagesInv, MocksClosed, RaisedOK
<1>5. \A u \in Https : PageOK(u)'
  BY <1>1, PageKept DEF PagesInv
<1>6. [Next]_vars
  BY DEF Next, Around
<1> QED BY <1>4, <1>5, <1>6, PagesInvStep

LEMMA PagesInitInv == PagesInit => PagesInv
<1> SUFFICES ASSUME PagesInit PROVE PagesInv
  OBVIOUS
<1>1. Inv
  BY InitInv DEF PagesInit
<1>2. MocksClosed /\ RaisedOK
  BY DEF PagesInit, Init, MocksClosed, RaisedOK, Fresh
<1>3. \A t \in Https : PageOK(t)
  BY DEF PagesInit, Init, PageOK
<1> QED BY <1>1, <1>2, <1>3 DEF PagesInv

LEMMA PagesNextInv == PagesInv /\ [PagesNext]_pages => PagesInv'
<1> SUFFICES ASSUME PagesInv, [PagesNext]_pages PROVE PagesInv'
  OBVIOUS
<1>1. ASSUME NEW t \in Https, Ask(t) PROVE PagesInv'
  BY <1>1, ArrivalKeeps DEF Ask
<1>2. ASSUME NEW t \in Https, Open(t) PROVE PagesInv'
  BY <1>2, AroundKeeps DEF Open
<1>3. ASSUME NEW t \in Https, GoOn(t) PROVE PagesInv'
  BY <1>3, AuctionKeeps, LookUpKeeps, AnsweredKeeps, FailingKeeps, RaisingKeeps, StoredKeeps
     DEF GoOn
<1>4. ASSUME NEW b \in Backends, Rests(b) PROVE PagesInv'
  BY <1>4, AroundKeeps DEF Rests
<1>5. CASE Around /\ UNCHANGED <<mocks, visit, raised>>
  BY <1>5, AroundKeeps
<1>6. CASE UNCHANGED pages
  BY <1>6, AroundKeeps DEF pages
<1> QED BY <1>1, <1>2, <1>3, <1>4, <1>5, <1>6 DEF PagesNext

LEMMA PagesSpecInv == PagesSpec => []PagesInv
BY PagesInitInv, PagesNextInv, PTL DEF PagesSpec

(* What Spec promises of a search holds of pages and of searches of the    *)
(* API alike, with replies deciding how their calls end.                   *)
THEOREM PagesKeepTheSearches ==
    PagesSpec => [](TypeOK /\ ClosedBelowThreshold /\ SlotsBacked /\ FailsLast /\ OwnAnswer)
<1>1. PagesInv => TypeOK
  BY DEF PagesInv, Inv, StateOK, BreakersOK, BreakerOK, HandlersOK, HandlerOK, TypeOK
<1>2. PagesInv => ClosedBelowThreshold /\ SlotsBacked
  BY DEF PagesInv, Inv, BreakersOK, BreakerOK, ClosedBelowThreshold, SlotsBacked
<1>3. PagesInv => FailsLast /\ OwnAnswer
  BY DEF PagesInv, Inv, HandlersOK, HandlerOK, Fits, FailsLast, UpToCurrent, UpTo, OwnAnswer
<1> QED BY <1>1, <1>2, <1>3, PagesSpecInv, PTL

(* No rule, fallback order, BackendError of others or breaker ever comes   *)
(* between a search and a mock that is able to serve it: only a reply to   *)
(* another adapter that is raised as something else, before any mock's     *)
(* turn.                                                                   *)
THEOREM MocksServe == PagesSpec => []MocksStandIn
<1>1. ASSUME PagesInv PROVE MocksStandIn
  <2> SUFFICES ASSUME NEW t \in Https, NEW b \in mocks,
                      ask[t].backend \in {AnyBackend, b}, Capable(b, ask[t])
               PROVE  /\ out[t] \notin {"failed", "unsupported"}
                      /\ out[t] = "error" =>
                           /\ tried[t] \cap mocks = {}
                           /\ \E x \in Replies : SearchEnd(x) = "other exception"
    BY DEF MocksStandIn
  <2>1. PICK i \in Fitting(ask[t]) : Order(ask[t])[i] = b
    <3>1. b \in Backends
      BY <1>1 DEF PagesInv, MocksClosed
    <3>2. CASE ask[t].backend = AnyBackend
      BY <3>1, <3>2, AllCapablePlaced DEF CapableBackends, AtAnyPlace
    <3>3. CASE ask[t].backend = b /\ b # AnyBackend
      <4>1. Order(ask[t]) = <<b>>
        BY <3>1, <3>3, OrderCases
      <4>2. 1 \in Fitting(ask[t])
        BY <3>1, <4>1 DEF Fitting, Candidates
      <4> QED BY <4>1, <4>2
    <3> QED BY <3>2, <3>3
  <2>2. out[t] \notin {"failed", "unsupported"}
    BY <1>1, <2>1 DEF PagesInv, PageOK
  <2>3. ASSUME out[t] = "error"
        PROVE  /\ tried[t] \cap mocks = {}
               /\ \E x \in Replies : SearchEnd(x) = "other exception"
    <3>1. RaisedAlone(t) /\ tried[t] = UpTo(ask[t], at[t])
      BY <1>1, <2>3 DEF PagesInv, PageOK, Inv, HandlersOK, HandlerOK
    <3> QED BY <3>1 DEF RaisedAlone, UpTo
  <2> QED BY <2>2, <2>3
<1> QED BY <1>1, PagesSpecInv, PTL

(* The exception _route raises is its last candidate's, and 400 is told    *)
(* only when that was a 400 or nobody can serve the search.                *)
THEOREM TheLastFailureIsTold == PagesSpec => []FailureTold
<1>1. ASSUME PagesInv PROVE FailureTold
  <2> SUFFICES ASSUME NEW t \in Https
               PROVE  /\ out[t] = "failed" => Told(t)
                      /\ 400 \in StatusOf(t) =>
                           \/ Fitting(ask[t]) = {}
                           \/ raised[t] = {[from |-> Final(ask[t]),
                                            error |-> "BackendBadRequestError"]}
    BY DEF FailureTold, Told, Final
  <2>1. out[t] = "failed" => Told(t)
    BY <1>1 DEF PagesInv, PageOK
  <2>2. ASSUME 400 \in StatusOf(t), out[t] # "unsupported"
        PROVE  raised[t] = {[from |-> Final(ask[t]), error |-> "BackendBadRequestError"]}
    <3>1. out[t] \in Answers
      BY <1>1 DEF PagesInv, Inv, StateOK
    <3>2. out[t] = "failed" /\ StatusOf(t) = {HttpStatus(e.error) : e \in raised[t]}
      BY <2>2, <3>1 DEF Answers, StatusOf
    <3>3. PICK error \in BackendErrors :
            raised[t] = {[from |-> Final(ask[t]), error |-> error]}
      BY <2>1, <3>2 DEF Told
    <3>4. HttpStatus(error) = 400
      BY <2>2, <3>2, <3>3
    <3>5. error = "BackendBadRequestError"
      BY <3>4 DEF HttpStatus, BackendErrors
    <3> QED BY <3>3, <3>5
  <2>3. out[t] = "unsupported" => Fitting(ask[t]) = {}
    BY <1>1 DEF PagesInv, PageOK
  <2> QED BY <2>1, <2>2, <2>3
<1> QED BY <1>1, PagesSpecInv, PTL
-----------------------------------------------------------------------------
(* Pages go on, too: the auction comes before the search and once.         *)
VisitOK(t) ==
    /\ visit[t] \in {"none", "auction", "search", "refused"}
    /\ t \notin Visitors => visit[t] = "none"
    /\ t \in Visitors => (visit[t] = "search" <=> pc[t] # "idle")

VisitsOK == visit = [t \in Https |-> visit[t]] /\ \A t \in Https : VisitOK(t)

(* The request t leaves its auction, or its search advances.               *)
PageAdvances(t) ==
    \/ visit[t] = "auction" /\ visit'[t] \in {"search", "refused"}
    \/ visit'[t] = visit[t] /\ Advances(t)

(* A page does not go back, and only after an auction is there a search.   *)
VisitGoes(t) ==
    \/ visit'[t] = visit[t]
    \/ visit[t] = "none" /\ visit'[t] = "auction"
    \/ visit[t] = "auction" /\ visit'[t] \in {"search", "refused"}

LEMMA VisitsInit == PagesInit => VisitsOK
BY DEF PagesInit, Init, VisitsOK, VisitOK

(* What the step of a request does to all visits.                          *)
LEMMA OneVisit ==
    ASSUME VisitsOK, NEW t \in Https, OthersKept(t), VisitOK(t)', VisitGoes(t),
           NEW v, visit' = [visit EXCEPT ![t] = v]
    PROVE  VisitsOK' /\ \A u \in Https : VisitGoes(u)
<1>1. visit' = [u \in Https |-> visit'[u]]
  BY DEF VisitsOK
<1>2. ASSUME NEW u \in Https \ {t} PROVE VisitOK(u)' /\ VisitGoes(u)
  BY DEF VisitsOK, VisitOK, VisitGoes, OthersKept
<1> QED BY <1>1, <1>2 DEF VisitsOK

LEMMA SearchGoes ==
    ASSUME Inv, VisitsOK, NEW t \in Https, UNCHANGED visit,
           \/ Proceed(t)
           \/ Arrive(t) /\ t \notin Visitors
    PROVE  VisitsOK' /\ (\A u \in Https : VisitGoes(u)) /\ (Proceed(t) => PageAdvances(t))
<1>1. OthersKept(t) /\ (Proceed(t) => Advances(t))
  BY ArriveGoes, ProceedGoes
<1>2. Proceed(t) => pc[t] # "idle" /\ pc'[t] # "idle"
  BY DEF Proceed, Hit, Miss, Respond, Fail, Raise, Store, AskNext, Finish, Inv, StateOK
<1>3. VisitOK(t)'
  BY <1>2 DEF VisitsOK, VisitOK
<1>4. visit' = [visit EXCEPT ![t] = visit[t]]
  BY DEF VisitsOK
<1>5. VisitGoes(t)
  BY DEF VisitGoes
<1> QED BY <1>1, <1>3, <1>4, <1>5, OneVisit DEF PageAdvances

LEMMA AuctionGoes ==
    ASSUME Inv, VisitsOK, NEW t \in Https, AuctionEnds(t)
    PROVE  VisitsOK' /\ (\A u \in Https : VisitGoes(u)) /\ PageAdvances(t)
<1>1. visit[t] = "auction" /\ t \in Visitors /\ pc[t] = "idle"
  BY DEF AuctionEnds, VisitsOK, VisitOK
<1>2. CASE visit' = [visit EXCEPT ![t] = "search"] /\ Arrive(t)
  <2>1. visit'[t] = "search" /\ OthersKept(t)
    BY <1>2, ArriveGoes DEF VisitsOK
  <2>2. pc'[t] # "idle"
    BY <1>2 DEF Arrive, AskNext, Finish, Inv, StateOK
  <2>3. VisitOK(t)' /\ VisitGoes(t) /\ PageAdvances(t)
    BY <1>1, <2>1, <2>2 DEF VisitOK, VisitGoes, PageAdvances
  <2> QED BY <1>2, <2>1, <2>3, OneVisit
<1>3. CASE visit' = [visit EXCEPT ![t] = "refused"] /\ UNCHANGED vars
  <2>1. visit'[t] = "refused" /\ OthersKept(t) /\ pc'[t] = "idle"
    BY <1>1, <1>3 DEF VisitsOK, OthersKept, vars
  <2>2. VisitOK(t)' /\ VisitGoes(t) /\ PageAdvances(t)
    BY <1>1, <2>1 DEF VisitOK, VisitGoes, PageAdvances
  <2> QED BY <1>3, <2>1, <2>2, OneVisit
<1> QED BY <1>2, <1>3 DEF AuctionEnds

LEMMA OpenGoes ==
    ASSUME VisitsOK, NEW t \in Https, Open(t)
    PROVE  VisitsOK' /\ \A u \in Https : VisitGoes(u)
<1>1. /\ t \in Visitors /\ visit[t] = "none" /\ visit' = [visit EXCEPT ![t] = "auction"]
      /\ UNCHANGED vars
  BY DEF Open
<1>2. visit'[t] = "auction" /\ OthersKept(t) /\ pc'[t] = pc[t]
  BY <1>1 DEF VisitsOK, OthersKept, vars
<1>3. VisitOK(t)' /\ VisitGoes(t)
  BY <1>1, <1>2 DEF VisitsOK, VisitOK, VisitGoes
<1> QED BY <1>1, <1>2, <1>3, OneVisit

LEMMA GoOnGoes ==
    ASSUME Inv, VisitsOK, NEW t \in Https, GoOn(t)
    PROVE  VisitsOK' /\ (\A u \in Https : VisitGoes(u)) /\ PageAdvances(t)
<1>1. CASE AuctionEnds(t)
  BY <1>1, AuctionGoes
<1>2. CASE LookUp(t) \/ Answered(t) \/ Failing(t) \/ Raising(t) \/ Stored(t)
  <2>1. Proceed(t) /\ UNCHANGED visit
    BY <1>2 DEF LookUp, Answered, Failing, Raising, Stored, Proceed
  <2> QED BY <2>1, SearchGoes
<1> QED BY <1>1, <1>2 DEF GoOn

LEMMA VisitsStep ==
    ASSUME Inv, VisitsOK, [PagesNext]_pages
    PROVE  VisitsOK' /\ \A u \in Https : VisitGoes(u) /\ (GoOn(u) => PageAdvances(u))
<1>1. \A u \in Https : GoOn(u) => PageAdvances(u)
  BY GoOnGoes
<1>2. ASSUME NEW t \in Https, Ask(t)
      PROVE  VisitsOK' /\ \A u \in Https : VisitGoes(u)
  BY <1>2, SearchGoes DEF Ask
<1>3. ASSUME NEW t \in Https, Open(t) \/ GoOn(t)
      PROVE  VisitsOK' /\ \A u \in Https : VisitGoes(u)
  BY <1>3, OpenGoes, GoOnGoes
<1>4. CASE UNCHANGED <<pc, visit>>
  BY <1>1, <1>4 DEF VisitsOK, VisitOK, VisitGoes
<1>5. CASE \E t \in Https : Ask(t) \/ Open(t) \/ GoOn(t)
  BY <1>1, <1>2, <1>3, <1>5
<1>6. CASE \/ \E b \in Backends : Rests(b)
           \/ Around /\ UNCHANGED <<mocks, visit, raised>>
           \/ UNCHANGED pages
  <2>1. UNCHANGED <<pc, visit>>
    BY <1>6 DEF Rests, Rest, Around, Evict, Inspect, pages, vars
  <2> QED BY <1>1, <1>4, <2>1
<1> QED BY <1>5, <1>6 DEF PagesNext

(* Every step of a page or of a search of the API brings it nearer to its  *)
(* answer: the auction is awaited once, and of the calls after it there    *)
(* are no more than candidates, whatever replies, auctions and breakers    *)
(* come to.                                                                *)
THEOREM VisitsAdvance ==
    PagesSpec => [][\A t \in Https : /\ GoOn(t) => PageAdvances(t)
                                     /\ VisitGoes(t)
                                     /\ CallStarts(t) => InTurn(t)]_pages
<1>1. PagesInv /\ VisitsOK /\ [PagesNext]_pages => VisitsOK'
  BY VisitsStep DEF PagesInv
<1>2. PagesInv /\ VisitsOK /\ [PagesNext]_pages =>
        [\A t \in Https : /\ GoOn(t) => PageAdvances(t)
                          /\ VisitGoes(t)
                          /\ CallStarts(t) => InTurn(t)]_pages
  <2> SUFFICES ASSUME PagesInv, VisitsOK, [PagesNext]_pages, NEW t \in Https
               PROVE  /\ GoOn(t) => PageAdvances(t)
                      /\ VisitGoes(t)
                      /\ CallStarts(t) => InTurn(t)
    OBVIOUS
  <2>1. Inv /\ [Next]_vars
    BY PagesStep DEF PagesInv
  <2>2. CallStarts(t) => InTurn(t)
    BY <2>1, EveryStepGoes DEF Goes
  <2> QED BY <2>1, <2>2, VisitsStep
<1> QED BY <1>1, <1>2, VisitsInit, PagesSpecInv, PTL DEF PagesSpec
=============================================================================
