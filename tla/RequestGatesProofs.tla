-------------------------- MODULE RequestGatesProofs --------------------------
(***************************************************************************)
(* The bounds on memory, on a client's admissions and on password          *)
(* attempts, for any number of clients, accounts and logins in flight and  *)
(* any limits; and that they hold behind the layers of RequestPipeline,    *)
(* whichever are installed.                                                *)
(***************************************************************************)
EXTENDS RequestPipeline, NaturalBounds, FiniteSetTheorems, TLAPS

(* What a request does to the table of windows: it keeps its type, and     *)
(* grows to one more than the cap at most.                                 *)
LEMMA CountedOK ==
    ASSUME NEW W, DOMAIN W \subseteq Clients, W \in [DOMAIN W -> WindowRecords],
           NEW c \in Clients
    PROVE  /\ DOMAIN Counted(W, c) = DOMAIN W \cup {c}
           /\ DOMAIN Counted(W, c) \subseteq Clients
           /\ Counted(W, c) \in [DOMAIN Counted(W, c) -> WindowRecords]
<1> DEFINE w == WindowOf(W, c)
<1>1. w \in WindowRecords
  <2>1. CASE c \in Live(W)
    BY <2>1 DEF Live, WindowOf
  <2>2. CASE c \notin Live(W)
    <3>1. w = [count |-> 0, left |-> WindowTime]
      BY <2>2 DEF WindowOf
    <3> QED BY <3>1, LimitsAssumption DEF WindowRecords
  <2> QED BY <2>1, <2>2
<1>2. ~Refused(W, c) => [w EXCEPT !.count = @ + 1] \in WindowRecords
  <2>1. w.count \in 0..Limit /\ w.left \in 0..WindowTime
    BY <1>1 DEF WindowRecords
  <2>2. ~Refused(W, c) => w.count + 1 \in 0..Limit
    BY <2>1, LimitsAssumption DEF Refused
  <2> QED BY <1>1, <2>2 DEF WindowRecords
<1>3. DOMAIN Counted(W, c) = DOMAIN W \cup {c}
  BY DEF Counted
<1>4. \A k \in DOMAIN W \cup {c} : Counted(W, c)[k] \in WindowRecords
  <2> SUFFICES ASSUME NEW k \in DOMAIN W \cup {c}
               PROVE  Counted(W, c)[k] \in WindowRecords
    OBVIOUS
  <2>1. CASE k # c
    BY <2>1 DEF Counted
  <2>2. CASE k = c
    BY <2>2, <1>1, <1>2 DEF Counted
  <2> QED BY <2>1, <2>2
<1> QED BY <1>3, <1>4 DEF Counted

LEMMA SweptOK ==
    ASSUME NEW W, DOMAIN W \subseteq Clients, W \in [DOMAIN W -> WindowRecords],
           NEW V \in Swept(W)
    PROVE  /\ DOMAIN V \subseteq DOMAIN W /\ V \in [DOMAIN V -> WindowRecords]
           /\ Cardinality(DOMAIN V) <= MaxTracked
<1>1. PICK K \in SUBSET Live(W) :
        /\ V = Kept(W, K)
        /\ Cardinality(K) = IF Cardinality(Live(W)) > MaxTracked
                              THEN MaxTracked ELSE Cardinality(Live(W))
  BY DEF Swept
<1>2. Live(W) \subseteq DOMAIN W
  BY DEF Live
<1>3. IsFiniteSet(Live(W)) /\ Cardinality(Live(W)) \in Nat
  BY <1>2, ClientsAssumption, FS_Subset, FS_CardinalityType
<1>4. Cardinality(K) <= MaxTracked
  BY <1>1, <1>3, LimitsAssumption
<1>5. DOMAIN V = K /\ \A c \in K : V[c] = W[c]
  BY <1>1 DEF Kept
<1>6. V \in [K -> WindowRecords]
  BY <1>1, <1>2 DEF Kept
<1> QED BY <1>2, <1>4, <1>5, <1>6

(* A request leaves the limiter's state well typed and bounded.            *)
LEMMA LimiterOK ==
    ASSUME TypeOK, NEW c \in Clients, NEW through \in BOOLEAN, Limiter(c, through)
    PROVE  /\ DOMAIN windows' \subseteq Clients /\ windows' \in [DOMAIN windows' -> WindowRecords]
           /\ calls' \in 0 .. SweepEvery - 1
           /\ recent' \in [0 .. WindowTime - 1 -> Nat]
           /\ Cardinality(DOMAIN windows') <= MaxTracked + 1
<1>1. PICK W \in (IF SweepDue(windows, calls + 1) THEN Swept(windows) ELSE {windows}) :
        /\ windows' = Counted(W, c)
        /\ calls' = IF SweepDue(windows, calls + 1) THEN 0 ELSE calls + 1
        /\ recent' = Remembered(W, c, through)
  BY DEF Limiter
<1>2. DOMAIN windows \subseteq Clients /\ windows \in [DOMAIN windows -> WindowRecords]
  BY DEF TypeOK
<1>3. /\ DOMAIN W \subseteq Clients /\ W \in [DOMAIN W -> WindowRecords]
      /\ Cardinality(DOMAIN W) <= MaxTracked
  <2>1. CASE SweepDue(windows, calls + 1)
    BY <2>1, <1>1, <1>2, SweptOK
  <2>2. CASE ~SweepDue(windows, calls + 1)
    <3>1. W = windows
      BY <2>2, <1>1
    <3>2. IsFiniteSet(DOMAIN windows)
      BY <1>2, ClientsAssumption, FS_Subset
    <3>3. Cardinality(DOMAIN windows) \in Nat
      BY <3>2, FS_CardinalityType
    <3>4. ~(Cardinality(DOMAIN windows) >= MaxTracked)
      BY <2>2 DEF SweepDue
    <3> QED BY <3>1, <3>3, <3>4, <1>2, LimitsAssumption
  <2> QED BY <2>1, <2>2
<1>4. /\ DOMAIN windows' = DOMAIN W \cup {c}
      /\ DOMAIN windows' \subseteq Clients /\ windows' \in [DOMAIN windows' -> WindowRecords]
  BY <1>1, <1>3, CountedOK
<1>5. Cardinality(DOMAIN windows') <= MaxTracked + 1
  <2>1. IsFiniteSet(DOMAIN W)
    BY <1>3, ClientsAssumption, FS_Subset
  <2>2. Cardinality(DOMAIN W) \in Nat
    BY <2>1, FS_CardinalityType
  <2>3. \/ Cardinality(DOMAIN W \cup {c}) = Cardinality(DOMAIN W)
        \/ Cardinality(DOMAIN W \cup {c}) = Cardinality(DOMAIN W) + 1
    BY <2>1, FS_AddElement
  <2> QED BY <1>3, <1>4, <2>2, <2>3, LimitsAssumption
<1>6. calls' \in 0 .. SweepEvery - 1
  <2>1. calls \in 0 .. SweepEvery - 1
    BY DEF TypeOK
  <2>2. CASE SweepDue(windows, calls + 1)
    BY <1>1, <2>2, LimitsAssumption
  <2>3. CASE ~SweepDue(windows, calls + 1)
    <3>1. ~(calls + 1 >= SweepEvery)
      BY <2>3 DEF SweepDue
    <3> QED BY <3>1, <1>1, <2>1, <2>3, LimitsAssumption
  <2> QED BY <2>2, <2>3
<1>7. recent' \in [0 .. WindowTime - 1 -> Nat]
  <2>1. recent \in [0 .. WindowTime - 1 -> Nat]
    BY DEF TypeOK
  <2> QED BY <2>1, <1>1 DEF Remembered
<1> QED BY <1>4, <1>5, <1>6, <1>7

(* What a failure does to the failures on record.                          *)
LEMMA WithFailureOK ==
    ASSUME NEW E, DOMAIN E \subseteq Accounts, E \in [DOMAIN E -> Failures],
           NEW k \in Accounts, MaxAttempts > 0
    PROVE  /\ DOMAIN WithFailure(E, k) = DOMAIN E \cup {k}
           /\ WithFailure(E, k) \in [DOMAIN E \cup {k} -> Failures]
           /\ \A j \in DOMAIN E \ {k} : WithFailure(E, k)[j] = E[j]
           /\ WithFailure(E, k)[k].count = IF Running(E, k) THEN E[k].count + 1 ELSE 1
<1> DEFINE e == IF Running(E, k) THEN [E[k] EXCEPT !.count = @ + 1]
                                 ELSE [count |-> 1, left |-> LockoutTime]
<1>1. e \in Failures /\ e.count = IF Running(E, k) THEN E[k].count + 1 ELSE 1
  BY AttemptsAssumption DEF Running, Failures
<1>2. WithFailure(E, k) = [j \in DOMAIN E \cup {k} |-> IF j = k THEN e ELSE E[j]]
  BY AttemptsAssumption DEF WithFailure
<1> HIDE DEF e
<1> QED BY <1>1, <1>2
-----------------------------------------------------------------------------
(* The logins checking an account, when one login moves.                   *)
LEMMA CheckingBound ==
    ASSUME NEW k PROVE IsFiniteSet(Checking(k)) /\ Cardinality(Checking(k)) \in Nat
                         /\ Cardinality(Checking(k)) <= Cardinality(Logins)
BY LoginsAssumption, FS_Subset, FS_CardinalityType DEF Checking

LEMMA LoginsNat == Cardinality(Logins) \in Nat
BY LoginsAssumption, FS_CardinalityType

(* One more login at k.                                                    *)
LEMMA CheckingMore ==
    ASSUME TypeOK, NEW h \in Logins, NEW j \in Accounts, NEW k \in Accounts, checking[h] = {},
           checking' = [checking EXCEPT ![h] = {j}]
    PROVE  Cardinality(Checking(k)') <= Cardinality(Checking(k)) + (IF j = k THEN 1 ELSE 0)
<1>1. checking \in [Logins -> {{}} \cup {{i} : i \in Accounts}]
  BY DEF TypeOK
<1>2. CASE j # k
  <2>1. Checking(k)' = Checking(k)
    BY <1>1, <1>2 DEF Checking
  <2> QED BY <1>2, <2>1, CheckingBound
<1>3. CASE j = k
  <2>1. Checking(k)' = Checking(k) \cup {h}
    BY <1>1, <1>3 DEF Checking
  <2>2. \/ Cardinality(Checking(k) \cup {h}) = Cardinality(Checking(k))
        \/ Cardinality(Checking(k) \cup {h}) = Cardinality(Checking(k)) + 1
    BY CheckingBound, FS_AddElement
  <2> QED BY <1>3, <2>1, <2>2, CheckingBound
<1> QED BY <1>2, <1>3

(* One login less at k.                                                    *)
LEMMA CheckingLess ==
    ASSUME TypeOK, NEW h \in Logins, NEW j \in Accounts, NEW k \in Accounts, checking[h] = {j},
           checking' = [checking EXCEPT ![h] = {}]
    PROVE  Cardinality(Checking(k)') = Cardinality(Checking(k)) - (IF j = k THEN 1 ELSE 0)
<1>1. checking \in [Logins -> {{}} \cup {{i} : i \in Accounts}]
  BY DEF TypeOK
<1>2. CASE j # k
  <2>1. Checking(k)' = Checking(k)
    BY <1>1, <1>2 DEF Checking
  <2> QED BY <1>2, <2>1, CheckingBound
<1>3. CASE j = k
  <2>1. Checking(k)' = Checking(k) \ {h} /\ h \in Checking(k)
    BY <1>1, <1>3 DEF Checking
  <2>2. Cardinality(Checking(k) \ {h}) = Cardinality(Checking(k)) - 1
    BY <2>1, CheckingBound, FS_RemoveElement
  <2> QED BY <1>3, <2>1, <2>2, CheckingBound
<1> QED BY <1>2, <1>3
-----------------------------------------------------------------------------
(* The admissions by age in R, and those of at most age n.                 *)
Admitted(R) == {p \in (0 .. WindowTime - 1) \X (Nat \ {0}) : p[2] <= R[p[1]]}
Young(R, n) == {p \in Admitted(R) : p[1] <= n}

Histories == [0 .. WindowTime - 1 -> Nat]

(* What the remembered admissions R of a client say of its window: while   *)
(* the window w is live it counts the admissions since it was opened, and  *)
(* those before are one window's at most; before the next one is opened    *)
(* there is none in this tick, and one window's at most are remembered.    *)
Burst(R, live, w) ==
    /\ IsFiniteSet(Admitted(R))
    /\ live => /\ Cardinality(Young(R, WindowTime - w.left)) = w.count
               /\ Cardinality(Admitted(R) \ Young(R, WindowTime - w.left)) <= Limit
    /\ ~live => R[0] = 0 /\ Cardinality(Admitted(R)) <= Limit

BurstOK == Burst(recent, Watched \in Live(windows), windows[Watched])

Forgotten == [age \in 0 .. WindowTime - 1 |-> 0]
OneMore(R) == [age \in 0 .. WindowTime - 1 |-> R[age] + (IF age = 0 THEN 1 ELSE 0)]
Older(R) == [age \in 0 .. WindowTime - 1 |-> IF age = 0 THEN 0 ELSE R[age - 1]]

LEMMA AdmissionsAre == TypeOK => Admissions = Admitted(recent)
<1> SUFFICES ASSUME TypeOK PROVE Admissions = Admitted(recent)
  OBVIOUS
<1>1. recent \in Histories
  BY DEF TypeOK, Histories
<1>2. ASSUME NEW p \in Admissions PROVE p \in Admitted(recent)
  <2>1. PICK age \in 0 .. WindowTime - 1 : p \in {age} \X (1 .. recent[age])
    BY DEF Admissions
  <2>2. PICK i \in 1 .. recent[age] : p = <<age, i>>
    BY <2>1
  <2> QED BY <1>1, <2>2 DEF Admitted, Histories
<1>3. ASSUME NEW p \in Admitted(recent) PROVE p \in Admissions
  <2>1. PICK age \in 0 .. WindowTime - 1, i \in Nat \ {0} : p = <<age, i>> /\ i <= recent[age]
    BY DEF Admitted
  <2>2. p \in {age} \X (1 .. recent[age])
    BY <1>1, <2>1 DEF Histories
  <2> QED BY <2>2 DEF Admissions
<1> QED BY <1>2, <1>3

LEMMA NobodyAdmitted == ASSUME NEW w PROVE Burst(Forgotten, FALSE, w)
<1>1. 0 \in 0 .. WindowTime - 1
  BY LimitsAssumption
<1>2. Admitted(Forgotten) = {}
  BY DEF Admitted, Forgotten
<1> QED BY <1>1, <1>2, FS_EmptySet, LimitsAssumption DEF Burst, Forgotten

(* One more request gets through: it is the youngest.                      *)
LEMMA AdmittedMore ==
    ASSUME NEW R \in Histories
    PROVE  /\ OneMore(R) \in Histories
           /\ Admitted(OneMore(R)) = Admitted(R) \cup {<<0, R[0] + 1>>}
           /\ <<0, R[0] + 1>> \notin Admitted(R)
<1>1. 0 \in 0 .. WindowTime - 1 /\ R[0] \in Nat
  BY LimitsAssumption DEF Histories
<1>2. OneMore(R) \in Histories
  BY DEF OneMore, Histories
<1>3. <<0, R[0] + 1>> \notin Admitted(R)
  BY <1>1 DEF Admitted
<1>4. ASSUME NEW age \in 0 .. WindowTime - 1, NEW i \in Nat \ {0}
      PROVE  i <= OneMore(R)[age] <=> i <= R[age] \/ (age = 0 /\ i = R[0] + 1)
  <2>1. R[age] \in Nat
    BY DEF Histories
  <2> QED BY <1>1, <2>1 DEF OneMore
<1>5. \A p \in (0 .. WindowTime - 1) \X (Nat \ {0}) :
        p \in Admitted(OneMore(R)) <=> p \in Admitted(R) \/ p = <<0, R[0] + 1>>
  BY <1>4 DEF Admitted
<1>6. <<0, R[0] + 1>> \in (0 .. WindowTime - 1) \X (Nat \ {0})
  BY <1>1
<1>7. Admitted(OneMore(R)) = Admitted(R) \cup {<<0, R[0] + 1>>}
  <2>1. Admitted(R) \subseteq (0 .. WindowTime - 1) \X (Nat \ {0})
    BY DEF Admitted
  <2>2. Admitted(OneMore(R)) \subseteq (0 .. WindowTime - 1) \X (Nat \ {0})
    BY DEF Admitted
  <2> QED BY <1>5, <1>6, <2>1, <2>2
<1> QED BY <1>2, <1>3, <1>7

LEMMA BurstGrows ==
    ASSUME NEW R \in Histories, NEW w \in WindowRecords, w.left > 0, Burst(R, TRUE, w)
    PROVE  Burst(OneMore(R), TRUE, [w EXCEPT !.count = @ + 1])
<1> DEFINE p == <<0, R[0] + 1>>
           n == WindowTime - w.left
           v == [w EXCEPT !.count = @ + 1]
<1>1. /\ Admitted(OneMore(R)) = Admitted(R) \cup {p} /\ p \notin Admitted(R) /\ p[1] = 0
      /\ IsFiniteSet(Admitted(R)) /\ n >= 0 /\ v.left = w.left /\ v.count = w.count + 1
  BY AdmittedMore, LimitsAssumption DEF Burst, WindowRecords
<1>2. Young(OneMore(R), n) = Young(R, n) \cup {p} /\ p \notin Young(R, n)
  <2> HIDE DEF p, n
  <2> QED BY <1>1 DEF Young
<1>3. IsFiniteSet(Young(R, n)) /\ Young(R, n) \subseteq Admitted(R)
  BY <1>1, FS_Subset DEF Young
<1>4. Cardinality(Young(R, n)) = w.count /\ Cardinality(Admitted(R) \ Young(R, n)) <= Limit
  BY DEF Burst
<1> HIDE DEF p, n, v
<1>5. Admitted(OneMore(R)) \ Young(OneMore(R), n) = Admitted(R) \ Young(R, n)
  BY <1>1, <1>2
<1>6. IsFiniteSet(Admitted(OneMore(R))) /\ Cardinality(Young(OneMore(R), n)) = w.count + 1
  <2>1. IsFiniteSet(Admitted(R) \cup {p})
    BY <1>1, FS_AddElement
  <2>2. Cardinality(Young(R, n) \cup {p}) = Cardinality(Young(R, n)) + 1
    BY <1>2, <1>3, FS_AddElement
  <2> QED BY <1>1, <1>2, <1>4, <2>1, <2>2
<1>7. n = WindowTime - v.left
  BY <1>1 DEF n
<1> QED BY <1>1, <1>4, <1>5, <1>6, <1>7 DEF Burst, v

LEMMA BurstOpens ==
    ASSUME NEW R \in Histories, NEW w, Burst(R, FALSE, w)
    PROVE  Burst(OneMore(R), TRUE, [count |-> 1, left |-> WindowTime])
<1> DEFINE v == [count |-> 1, left |-> WindowTime]
<1>1. /\ Admitted(OneMore(R)) = Admitted(R) \cup {<<0, 1>>} /\ <<0, 1>> \notin Admitted(R)
      /\ IsFiniteSet(Admitted(R)) /\ Cardinality(Admitted(R)) <= Limit /\ R[0] = 0
  BY AdmittedMore DEF Burst
<1>2. WindowTime - v.left = 0
  BY LimitsAssumption
<1>3. \A p \in Admitted(R) : ~(p[1] <= 0)
  BY <1>1 DEF Admitted
<1>4. Young(OneMore(R), 0) = {<<0, 1>>}
  BY <1>1, <1>3 DEF Young
<1>5. Admitted(OneMore(R)) \ Young(OneMore(R), 0) = Admitted(R)
  BY <1>1, <1>4
<1>6. IsFiniteSet(Admitted(OneMore(R))) /\ Cardinality(Young(OneMore(R), 0)) = 1
  <2>1. IsFiniteSet(Admitted(R) \cup {<<0, 1>>})
    BY <1>1, FS_AddElement
  <2>2. Cardinality({<<0, 1>>}) = 1
    BY FS_Singleton
  <2> QED BY <1>1, <1>4, <2>1, <2>2
<1>7. v.count = 1 /\ WindowTime - v.left = 0
  BY <1>2
<1> HIDE DEF v
<1>8. Burst(OneMore(R), TRUE, v)
  BY <1>1, <1>5, <1>6, <1>7 DEF Burst
<1> QED BY <1>8 DEF v

(* A tick later every admission is one tick older, or forgotten.           *)
LEMMA AdmittedOlder ==
    ASSUME NEW R \in Histories, IsFiniteSet(Admitted(R)), NEW n \in Nat
    PROVE  /\ Older(R) \in Histories
           /\ IsFiniteSet(Admitted(Older(R)))
           /\ Cardinality(Admitted(Older(R))) <= Cardinality(Admitted(R))
           /\ Cardinality(Admitted(Older(R)) \ Young(Older(R), n + 1))
                <= Cardinality(Admitted(R) \ Young(R, n))
           /\ n + 1 <= WindowTime - 1 =>
                Cardinality(Young(Older(R), n + 1)) = Cardinality(Young(R, n))
<1> DEFINE A == Admitted(R)
           B == Admitted(Older(R))
           f == [p \in B |-> <<p[1] - 1, p[2]>>]
<1>1. Older(R) \in Histories
  <2>1. ASSUME NEW age \in 0 .. WindowTime - 1, age # 0
        PROVE  age - 1 \in 0 .. WindowTime - 1
    BY <2>1, LimitsAssumption
  <2> QED BY <2>1 DEF Older, Histories
<1>2. ASSUME NEW p \in B
      PROVE  p[1] \in 1 .. WindowTime - 1 /\ p[2] \in Nat \ {0} /\ p = <<p[1], p[2]>>
               /\ p[2] <= R[p[1] - 1]
  <2>1. p[1] \in 0 .. WindowTime - 1 /\ p[2] \in Nat \ {0} /\ p = <<p[1], p[2]>>
          /\ p[2] <= Older(R)[p[1]]
    BY DEF Admitted
  <2>2. p[1] # 0
    BY <2>1 DEF Older
  <2> QED BY <2>1, <2>2 DEF Older
<1>3. ASSUME NEW p \in B PROVE f[p] \in A /\ f[p][1] = p[1] - 1 /\ f[p][2] = p[2]
  <2>1. f[p] = <<p[1] - 1, p[2]>>
    OBVIOUS
  <2> DEFINE a == p[1] - 1
             i == p[2]
  <2>2. a \in 0 .. WindowTime - 1 /\ i \in Nat \ {0} /\ i <= R[a] /\ f[p] = <<a, i>>
    BY <1>2, <2>1, LimitsAssumption
  <2> HIDE DEF a, i, f
  <2>3. f[p] \in A /\ f[p][1] = a /\ f[p][2] = i
    BY <2>2 DEF Admitted
  <2> QED BY <2>3 DEF a, i
<1>4. \A p, q \in B : f[p] = f[q] => p = q
  <2> SUFFICES ASSUME NEW p \in B, NEW q \in B, f[p] = f[q] PROVE p = q
    OBVIOUS
  <2>1. p[1] - 1 = q[1] - 1 /\ p[2] = q[2]
    BY <1>3
  <2>2. p[1] = q[1]
    BY <1>2, <2>1
  <2> QED BY <1>2, <2>1, <2>2
<1>5. ASSUME NEW q \in A, q[1] + 1 <= WindowTime - 1 PROVE \E p \in B : f[p] = q /\ p[1] = q[1] + 1
  <2>1. q[1] \in 0 .. WindowTime - 1 /\ q[2] \in Nat \ {0} /\ q = <<q[1], q[2]>> /\ q[2] <= R[q[1]]
    BY DEF Admitted
  <2> DEFINE p == <<q[1] + 1, q[2]>>
  <2>2. p[1] \in 1 .. WindowTime - 1 /\ p[2] = q[2] /\ p[1] - 1 = q[1]
    BY <1>5, <2>1, LimitsAssumption
  <2>3. Older(R)[p[1]] = R[q[1]]
    BY <2>2 DEF Older
  <2>4. p \in B
    BY <2>1, <2>2, <2>3 DEF Admitted
  <2>5. f[p] = q
    <3>1. f[p] = <<p[1] - 1, p[2]>>
      BY <2>4
    <3>2. p[1] - 1 = q[1] /\ p[2] = q[2]
      BY <2>2
    <3> HIDE DEF p
    <3> QED BY <2>1, <3>1, <3>2
  <2> QED BY <2>2, <2>4, <2>5
<1>6. f \in [B -> A] /\ IsFiniteSet(A)
  BY <1>3
<1> HIDE DEF A, B, f
<1>7. f \in Injection(B, A)
  BY <1>4, <1>6 DEF Injection, IsInjective
<1>8. IsFiniteSet(B) /\ Cardinality(B) <= Cardinality(A)
  BY <1>6, <1>7, FS_Injection
<1> DEFINE yA == {p \in A : p[1] <= n}
           yB == {p \in B : p[1] <= n + 1}
           g == [p \in B \ yB |-> f[p]]
           h == [p \in yB |-> f[p]]
<1>9. Cardinality(B \ yB) <= Cardinality(A \ yA)
  <2>1. \A p \in B \ yB : f[p] \in A \ yA
    BY <1>2, <1>3
  <2>2. g \in Injection(B \ yB, A \ yA)
    BY <1>4, <2>1 DEF Injection, IsInjective
  <2>3. IsFiniteSet(A \ yA)
    BY <1>6, FS_Subset
  <2> HIDE DEF g, yA, yB
  <2> QED BY <2>2, <2>3, FS_Injection
<1>10. n + 1 <= WindowTime - 1 => Cardinality(yB) = Cardinality(yA)
  <2> SUFFICES ASSUME n + 1 <= WindowTime - 1 PROVE Cardinality(yB) = Cardinality(yA)
    OBVIOUS
  <2>1. \A p \in yB : f[p] \in yA
    BY <1>2, <1>3
  <2>2. h \in Injection(yB, yA)
    BY <1>4, <2>1 DEF Injection, IsInjective
  <2>3. ASSUME NEW q \in yA PROVE \E p \in yB : h[p] = q
    <3>1. q \in A /\ q[1] \in 0 .. WindowTime - 1 /\ q[1] <= n
      BY DEF A, Admitted
    <3>2. q[1] + 1 <= WindowTime - 1 /\ q[1] + 1 <= n + 1
      BY <3>1, LimitsAssumption
    <3>3. PICK p \in B : f[p] = q /\ p[1] = q[1] + 1
      BY <1>5, <3>1, <3>2
    <3>4. p \in yB
      BY <3>2, <3>3
    <3> QED BY <3>3, <3>4
  <2>4. h \in Surjection(yB, yA)
    BY <2>2, <2>3 DEF Injection, Surjection
  <2>5. IsFiniteSet(yA)
    BY <1>6, FS_Subset
  <2> HIDE DEF h, yA, yB
  <2> QED BY <2>2, <2>4, <2>5, FS_Injection
<1>11. yA = Young(R, n) /\ yB = Young(Older(R), n + 1)
  BY DEF Young, A, B
<1> QED BY <1>1, <1>8, <1>9, <1>10, <1>11 DEF A, B

LEMMA BurstAges ==
    ASSUME NEW R \in Histories, NEW live \in BOOLEAN, NEW w, NEW v, live => w \in WindowRecords,
           live => w.left > 0 /\ v.count = w.count /\ v.left = w.left - 1, Burst(R, live, w)
    PROVE  Burst(Older(R), live /\ v.left > 0, v)
<1>1. Older(R)[0] = 0
  BY LimitsAssumption DEF Older
<1>2. IsFiniteSet(Admitted(R))
  BY DEF Burst
<1>3. CASE ~live
  <2>1. /\ IsFiniteSet(Admitted(Older(R)))
        /\ Cardinality(Admitted(Older(R))) <= Cardinality(Admitted(R))
    BY <1>2, AdmittedOlder
  <2>2. Cardinality(Admitted(R)) <= Limit
    BY <1>3 DEF Burst
  <2>3. Cardinality(Admitted(R)) \in Nat /\ Cardinality(Admitted(Older(R))) \in Nat
    BY <1>2, <2>1, FS_CardinalityType
  <2> QED BY <1>1, <1>3, <2>1, <2>2, <2>3, LimitsAssumption DEF Burst
<1>4. CASE live
  <2> DEFINE n == WindowTime - w.left
  <2>1. n \in Nat /\ w.left \in 1 .. WindowTime /\ w.count \in 0 .. Limit
    BY <1>4, LimitsAssumption DEF WindowRecords
  <2>2. WindowTime - v.left = n + 1
    BY <1>4, <2>1, LimitsAssumption
  <2>3. /\ Cardinality(Young(R, n)) = w.count
        /\ Cardinality(Admitted(R) \ Young(R, n)) <= Limit
    BY <1>4 DEF Burst
  <2> HIDE DEF n
  <2>4. /\ IsFiniteSet(Admitted(Older(R)))
        /\ Cardinality(Admitted(Older(R))) <= Cardinality(Admitted(R))
        /\ Cardinality(Admitted(Older(R)) \ Young(Older(R), n + 1))
             <= Cardinality(Admitted(R) \ Young(R, n))
        /\ n + 1 <= WindowTime - 1 =>
             Cardinality(Young(Older(R), n + 1)) = Cardinality(Young(R, n))
    BY <1>2, <2>1, AdmittedOlder
  <2>5. /\ Cardinality(Admitted(R) \ Young(R, n)) \in Nat
        /\ Cardinality(Admitted(Older(R)) \ Young(Older(R), n + 1)) \in Nat
        /\ Cardinality(Admitted(Older(R))) \in Nat
    <3>1. IsFiniteSet(Admitted(R) \ Young(R, n))
      BY <1>2, FS_Subset
    <3>2. IsFiniteSet(Admitted(Older(R)) \ Young(Older(R), n + 1))
      BY <2>4, FS_Subset
    <3> QED BY <2>4, <3>1, <3>2, FS_CardinalityType
  <2>6. CASE v.left > 0
    <3>1. n + 1 <= WindowTime - 1
      BY <1>4, <2>1, <2>6, LimitsAssumption DEF n
    <3>2. Cardinality(Young(Older(R), n + 1)) = v.count
      BY <1>4, <2>3, <2>4, <3>1
    <3>3. Cardinality(Admitted(Older(R)) \ Young(Older(R), n + 1)) <= Limit
      BY <2>3, <2>4, <2>5, LimitsAssumption
    <3> QED BY <1>4, <2>2, <2>4, <2>6, <3>2, <3>3 DEF Burst
  <2>7. CASE ~(v.left > 0)
    <3>1. n = WindowTime - 1
      BY <1>4, <2>1, <2>7, LimitsAssumption DEF n
    <3>2. Young(R, n) = Admitted(R)
      BY <3>1 DEF Young, Admitted
    <3>3. Cardinality(Admitted(R)) = w.count
      BY <2>3, <3>2
    <3>4. Cardinality(Admitted(Older(R))) <= Limit
      BY <2>1, <2>4, <2>5, <3>3, LimitsAssumption
    <3> QED BY <1>1, <1>4, <2>4, <2>7, <3>4 DEF Burst
  <2> QED BY <2>6, <2>7
<1> QED BY <1>3, <1>4

(* A sweep changes no window, and takes a live one only over the cap.      *)
LEMMA SweepKeeps ==
    ASSUME TypeOK,
           NEW W \in (IF SweepDue(windows, calls + 1) THEN Swept(windows) ELSE {windows})
    PROVE  /\ \A d \in DOMAIN W : d \in DOMAIN windows /\ W[d] = windows[d]
           /\ \A d \in Live(windows) : d \in DOMAIN W \/ Cardinality(Live(windows)) > MaxTracked
<1>1. Live(windows) \subseteq DOMAIN windows
  BY DEF Live
<1>2. CASE SweepDue(windows, calls + 1)
  <2>1. PICK K \in SUBSET Live(windows) :
          /\ W = Kept(windows, K)
          /\ Cardinality(K) = IF Cardinality(Live(windows)) > MaxTracked
                                THEN MaxTracked ELSE Cardinality(Live(windows))
    BY <1>2 DEF Swept
  <2>2. IsFiniteSet(Live(windows))
    BY <1>1, ClientsAssumption, FS_Subset DEF TypeOK
  <2>3. ~(Cardinality(Live(windows)) > MaxTracked) => K = Live(windows)
    BY <2>1, <2>2, FS_Subset
  <2> QED BY <1>1, <2>1, <2>3 DEF Kept
<1>3. CASE ~SweepDue(windows, calls + 1)
  BY <1>1, <1>3
<1> QED BY <1>2, <1>3

(* The history and the window of Watched when the sweep is over.           *)
Base(W) == IF CapHit(W) THEN Forgotten ELSE recent

LEMMA BurstSwept ==
    ASSUME TypeOK, BurstOK,
           NEW W \in (IF SweepDue(windows, calls + 1) THEN Swept(windows) ELSE {windows})
    PROVE  /\ Base(W) \in Histories
           /\ Burst(Base(W), Watched \in Live(W), W[Watched])
           /\ Watched \in Live(W) => ~CapHit(W) /\ W[Watched] \in WindowRecords
                                       /\ W[Watched].left > 0
<1>1. /\ \A d \in DOMAIN W : d \in DOMAIN windows /\ W[d] = windows[d]
      /\ Watched \in Live(windows) =>
           Watched \in DOMAIN W \/ Cardinality(Live(windows)) > MaxTracked
  BY SweepKeeps
<1>2. Base(W) \in Histories
  BY DEF Base, Forgotten, Histories, TypeOK
<1>3. CASE CapHit(W)
  <2>1. Watched \notin Live(W)
    BY <1>3 DEF CapHit, Live
  <2>2. Burst(Forgotten, FALSE, W[Watched])
    BY NobodyAdmitted
  <2>3. (Watched \in Live(W)) = FALSE /\ Base(W) = Forgotten
    BY <1>3, <2>1 DEF Base
  <2> QED BY <1>2, <2>1, <2>2, <2>3
<1>4. CASE ~CapHit(W)
  <2>1. Watched \in Live(windows) <=> Watched \in Live(W)
    BY <1>1, <1>4 DEF CapHit, Live
  <2>2. Watched \in Live(W) => W[Watched] = windows[Watched]
    BY <1>1 DEF Live
  <2>3. Burst(recent, Watched \in Live(windows), windows[Watched])
    BY DEF BurstOK
  <2>4. Burst(recent, Watched \in Live(W), W[Watched])
    <3>1. CASE Watched \in Live(W)
      <4>1. W[Watched] = windows[Watched] /\ Watched \in Live(windows)
        BY <2>1, <2>2, <3>1
      <4> QED BY <2>3, <3>1, <4>1
    <3>2. CASE Watched \notin Live(W)
      BY <2>1, <2>3, <3>2 DEF Burst
    <3> QED BY <3>1, <3>2
  <2>5. Watched \in Live(W) => W[Watched] \in WindowRecords /\ W[Watched].left > 0
    BY <1>1 DEF Live, TypeOK
  <2> QED BY <1>2, <1>4, <2>4, <2>5 DEF Base
<1> QED BY <1>3, <1>4

LEMMA LimiterBurst ==
    ASSUME TypeOK, BurstOK, NEW c \in Clients, NEW through \in BOOLEAN, Limiter(c, through)
    PROVE  BurstOK'
<1>1. PICK W \in (IF SweepDue(windows, calls + 1) THEN Swept(windows) ELSE {windows}) :
        /\ through = ~Refused(W, c)
        /\ windows' = Counted(W, c)
        /\ recent' = Remembered(W, c, through)
  BY DEF Limiter
<1> DEFINE R == Base(W)
           live == Watched \in Live(W)
           w == W[Watched]
<1>2. R \in Histories /\ Burst(R, live, w) /\ (live => w \in WindowRecords /\ w.left > 0)
  BY BurstSwept
<1>3. recent' = IF through /\ c = Watched THEN OneMore(R) ELSE R
  <2>1. \A age \in 0 .. WindowTime - 1 :
          R[age] = (IF CapHit(W) THEN 0 ELSE recent[age]) /\ R[age] \in Nat
    BY <1>2 DEF Base, Forgotten, Histories
  <2> HIDE DEF R
  <2>2. recent' = [age \in 0 .. WindowTime - 1 |->
          R[age] + (IF age = 0 /\ through /\ c = Watched THEN 1 ELSE 0)]
    BY <1>1, <2>1 DEF Remembered
  <2>3. CASE through /\ c = Watched
    BY <2>2, <2>3 DEF OneMore
  <2>4. CASE ~(through /\ c = Watched)
    <3>1. recent' = [age \in 0 .. WindowTime - 1 |-> R[age]]
      BY <2>1, <2>2, <2>4
    <3>2. R = [age \in 0 .. WindowTime - 1 |-> R[age]]
      BY <1>2 DEF Histories
    <3> QED BY <2>4, <3>1, <3>2
  <2> QED BY <2>3, <2>4
<1> HIDE DEF R
<1>4. CASE c # Watched
  <2>1. (Watched \in DOMAIN windows' <=> Watched \in DOMAIN W)
          /\ (Watched \in DOMAIN W => windows'[Watched] = W[Watched])
    BY <1>1, <1>4 DEF Counted
  <2>2. Watched \in Live(windows') <=> live
    BY <2>1 DEF Live
  <2>3. CASE live
    <3>1. windows'[Watched] = w
      BY <2>1, <2>3 DEF Live
    <3> QED BY <1>2, <1>3, <1>4, <2>2, <2>3, <3>1 DEF BurstOK
  <2>4. CASE ~live
    BY <1>2, <1>3, <1>4, <2>2, <2>4 DEF BurstOK, Burst
  <2> QED BY <2>3, <2>4
<1>5. CASE c = Watched
  <2>1. /\ Watched \in DOMAIN windows'
        /\ windows'[Watched] = IF through THEN [WindowOf(W, c) EXCEPT !.count = @ + 1]
                                          ELSE WindowOf(W, c)
    BY <1>1, <1>5 DEF Counted
  <2>2. CASE live
    <3>1. WindowOf(W, c) = w
      BY <1>5, <2>2 DEF WindowOf
    <3>2. windows'[Watched].left = w.left
      BY <1>2, <2>1, <2>2, <3>1 DEF WindowRecords
    <3>3. Watched \in Live(windows')
      BY <1>2, <2>1, <2>2, <3>2 DEF Live
    <3>4. CASE through
      <4>1. Burst(OneMore(R), TRUE, [w EXCEPT !.count = @ + 1])
        <5> HIDE DEF w
        <5> QED BY <1>2, <2>2, BurstGrows
      <4>2. windows'[Watched] = [w EXCEPT !.count = @ + 1]
        BY <2>1, <3>1, <3>4
      <4> QED BY <1>3, <1>5, <3>3, <3>4, <4>1, <4>2 DEF BurstOK
    <3>5. CASE ~through
      BY <1>2, <1>3, <2>1, <2>2, <3>1, <3>3, <3>5 DEF BurstOK
    <3> QED BY <3>4, <3>5
  <2>3. CASE ~live
    <3>1. WindowOf(W, c) = [count |-> 0, left |-> WindowTime]
      BY <1>5, <2>3 DEF WindowOf
    <3>2. through
      <4>1. ~Refused(W, c)
        BY <3>1, LimitsAssumption DEF Refused
      <4> QED BY <1>1, <4>1
    <3>3. windows'[Watched] = [count |-> 1, left |-> WindowTime]
      BY <2>1, <3>1, <3>2
    <3>4. Watched \in Live(windows')
      BY <2>1, <3>3, LimitsAssumption DEF Live
    <3>5. Burst(OneMore(R), TRUE, [count |-> 1, left |-> WindowTime])
      <4>1. live = FALSE
        BY <2>3
      <4> HIDE DEF w, live
      <4> QED BY <1>2, <4>1, BurstOpens
    <3> QED BY <1>3, <1>5, <3>2, <3>3, <3>4, <3>5 DEF BurstOK
  <2> QED BY <2>2, <2>3
<1> QED BY <1>4, <1>5

LEMMA TickBurst == TypeOK /\ BurstOK /\ Tick => BurstOK'
<1> SUFFICES ASSUME TypeOK, BurstOK, Tick PROVE BurstOK'
  OBVIOUS
<1> DEFINE live == Watched \in Live(windows)
           w == windows[Watched]
           v == windows'[Watched]
<1>1. recent \in Histories /\ recent' = Older(recent) /\ Burst(recent, live, w)
  BY DEF TypeOK, Tick, Histories, Older, BurstOK
<1>2. DOMAIN windows' = DOMAIN windows
        /\ \A c \in DOMAIN windows :
             windows'[c] = [windows[c] EXCEPT !.left = IF @ > 0 THEN @ - 1 ELSE 0]
  BY DEF Tick, Aged
<1>3. live => w \in WindowRecords /\ w.left > 0 /\ v.count = w.count /\ v.left = w.left - 1
  BY <1>2 DEF TypeOK, Live, WindowRecords
<1>4. Watched \in Live(windows') <=> live /\ v.left > 0
  <2>1. Watched \in DOMAIN windows => w \in WindowRecords
    BY DEF TypeOK
  <2>2. Watched \in DOMAIN windows /\ v.left > 0 => w.left > 0
    BY <1>2, <2>1, LimitsAssumption DEF WindowRecords
  <2> QED BY <1>2, <2>2 DEF Live
<1> HIDE DEF live, w, v
<1>5. live \in BOOLEAN
  BY DEF live
<1>6. Burst(Older(recent), live /\ v.left > 0, v)
  BY <1>1, <1>3, <1>5, BurstAges
<1> QED BY <1>1, <1>4, <1>6 DEF BurstOK, v

(* Admissions, of the client's present window and of earlier ones.         *)
LEMMA AdmissionsBound ==
    ASSUME TypeOK, BurstOK
    PROVE  /\ IsFiniteSet(Admissions) /\ Cardinality(Admissions) <= 2 * Limit
           /\ Watched \in Live(windows) => windows[Watched].count <= Cardinality(Admissions)
<1> DEFINE live == Watched \in Live(windows)
           w == windows[Watched]
           A == Admitted(recent)
           Y == Young(recent, WindowTime - w.left)
<1>1. Admissions = A /\ IsFiniteSet(A) /\ Cardinality(A) \in Nat
  BY AdmissionsAre, FS_CardinalityType DEF BurstOK, Burst
<1>2. Y \subseteq A
  BY DEF Young
<1>3. /\ live => Cardinality(Y) = w.count /\ Cardinality(A \ Y) <= Limit
      /\ ~live => Cardinality(A) <= Limit
  BY DEF BurstOK, Burst
<1>4. live => w.count \in 0 .. Limit
  BY DEF TypeOK, WindowRecords, Live
<1> HIDE DEF A, Y, w, live
<1>5. IsFiniteSet(Y) /\ IsFiniteSet(A \ Y) /\ Cardinality(Y) <= Cardinality(A)
  BY <1>1, <1>2, FS_Subset
<1>6. Cardinality(Y) \in Nat /\ Cardinality(A \ Y) \in Nat
  BY <1>5, FS_CardinalityType
<1> DEFINE y == Cardinality(Y)
           z == Cardinality(A \ Y)
<1>7. Cardinality(A) = y + z
  <2>1. Cardinality(Y \cup (A \ Y)) =
          Cardinality(Y) + Cardinality(A \ Y) - Cardinality(Y \cap (A \ Y))
    BY <1>5, FS_Union
  <2>2. Y \cup (A \ Y) = A /\ Y \cap (A \ Y) = {}
    BY <1>2
  <2>3. Cardinality(Y \cap (A \ Y)) = 0
    BY <2>2, FS_EmptySet
  <2>4. Cardinality(A) = y + z - 0
    BY <2>1, <2>2, <2>3
  <2>5. y \in Nat /\ z \in Nat
    BY <1>6
  <2> HIDE DEF y, z
  <2> QED BY <2>4, <2>5
<1>8. Cardinality(A) <= 2 * Limit
  <2>1. CASE live
    <3>1. y \in Nat /\ z \in Nat /\ y <= Limit /\ z <= Limit
      BY <1>3, <1>4, <1>6, <2>1
    <3> HIDE DEF y, z
    <3> QED BY <1>7, <3>1, LimitsAssumption
  <2>2. CASE ~live
    BY <1>1, <1>3, <2>2, LimitsAssumption
  <2> QED BY <2>1, <2>2
<1>9. live => w.count <= Cardinality(A)
  BY <1>3, <1>5
<1> QED BY <1>1, <1>8, <1>9 DEF live, w

(* A refusal comes out of a window that is used up.                        *)
LEMMA RefusedAtLimit ==
    ASSUME TypeOK, BurstOK, Limiter(Watched, FALSE)
    PROVE  Cardinality(Admissions) >= Limit
<1>1. PICK W \in (IF SweepDue(windows, calls + 1) THEN Swept(windows) ELSE {windows}) :
        Refused(W, Watched)
  BY DEF Limiter
<1>2. Watched \in Live(W) /\ W[Watched].count >= Limit
  BY <1>1, LimitsAssumption DEF Refused, WindowOf
<1>3. Watched \in Live(windows) /\ W[Watched] = windows[Watched]
  BY <1>2, SweepKeeps DEF Live
<1>4. windows[Watched].count \in Nat /\ windows[Watched].count <= Cardinality(Admissions)
  BY <1>3, AdmissionsBound DEF TypeOK, WindowRecords, Live
<1>5. Cardinality(Admissions) \in Nat
  BY AdmissionsBound, FS_CardinalityType
<1> QED BY <1>2, <1>3, <1>4, <1>5, LimitsAssumption
-----------------------------------------------------------------------------
Inv == TypeOK /\ TrackedBounded /\ BurstOK /\ AttemptsBounded

LEMMA InitInv == Init => Inv
<1> SUFFICES ASSUME Init PROVE Inv
  OBVIOUS
<1>1. TypeOK
  <2>1. DOMAIN windows = {} /\ DOMAIN entries = {}
    BY DEF Init
  <2>2. windows \in [DOMAIN windows -> WindowRecords] /\ entries \in [DOMAIN entries -> Failures]
    BY <2>1 DEF Init
  <2> QED BY <2>1, <2>2, LimitsAssumption DEF Init, TypeOK
<1>2. TrackedBounded
  <2>1. DOMAIN windows = {}
    BY DEF Init
  <2> QED BY <2>1, FS_EmptySet, LimitsAssumption DEF TrackedBounded
<1>3. AttemptsBounded
  BY DEF Init, AttemptsBounded, Running
<1>4. BurstOK
  <2>1. recent = Forgotten /\ (Watched \in Live(windows)) = FALSE
    BY DEF Init, Forgotten, Live
  <2> QED BY <2>1, NobodyAdmitted DEF BurstOK
<1> QED BY <1>1, <1>2, <1>3, <1>4 DEF Inv

LEMMA VisitInv == Inv /\ Visit => Inv'
<1> SUFFICES ASSUME Inv, NEW c \in Clients, NEW through \in BOOLEAN,
                    Limiter(c, through), UNCHANGED <<entries, checking>>
             PROVE  Inv'
  BY DEF Visit
<1>1. TypeOK' /\ TrackedBounded'
  BY LimiterOK DEF Inv, TypeOK, TrackedBounded
<1>2. AttemptsBounded'
  BY DEF Inv, AttemptsBounded, Checking
<1>3. BurstOK'
  BY LimiterBurst DEF Inv
<1> QED BY <1>1, <1>2, <1>3 DEF Inv

LEMMA LoginInv == ASSUME Inv, NEW h \in Logins, Login(h) PROVE Inv'
<1>1. PICK c \in Clients, j \in Accounts :
        /\ Limiter(c, TRUE)
        /\ checking' = IF IsLocked(entries, j) THEN checking ELSE [checking EXCEPT ![h] = {j}]
  BY DEF Login, Begins
<1>2. entries' = entries /\ checking[h] = {}
  BY DEF Login, Begins
<1>3. TypeOK' /\ TrackedBounded'
  <2>1. checking' \in [Logins -> {{}} \cup {{k} : k \in Accounts}]
    BY <1>1 DEF Inv, TypeOK
  <2> QED BY <1>1, <1>2, <2>1, LimiterOK DEF Inv, TypeOK, TrackedBounded
<1>4. AttemptsBounded'
  <2> SUFFICES ASSUME MaxAttempts > 0, NEW k \in Accounts, Running(entries, k)
               PROVE  entries[k].count + Cardinality(Checking(k)')
                        <= MaxAttempts - 1 + Cardinality(Logins)
    BY <1>2 DEF AttemptsBounded
  <2>1. entries[k].count + Cardinality(Checking(k)) <= MaxAttempts - 1 + Cardinality(Logins)
    BY DEF Inv, AttemptsBounded
  <2>2. entries[k].count \in Nat
    BY DEF Inv, TypeOK, Running, Failures
  <2>3. CASE IsLocked(entries, j)
    BY <1>1, <2>1, <2>3 DEF Checking
  <2>4. CASE ~IsLocked(entries, j) /\ j # k
    <3>1. Cardinality(Checking(k)') <= Cardinality(Checking(k)) + 0
      BY <1>1, <1>2, <2>4, CheckingMore DEF Inv
    <3>2. Cardinality(Checking(k)') \in Nat
      BY LoginsAssumption, FS_Subset, FS_CardinalityType DEF Checking
    <3> QED BY <2>1, <2>2, <3>1, <3>2, CheckingBound, LoginsNat, AttemptsAssumption
  <2>5. CASE ~IsLocked(entries, j) /\ j = k
    <3>1. entries[k].count < MaxAttempts
      BY <2>2, <2>5, AttemptsAssumption DEF IsLocked
    <3>2. /\ Cardinality(Checking(k)') \in Nat
          /\ Cardinality(Checking(k)') <= Cardinality(Logins)
      BY LoginsAssumption, FS_Subset, FS_CardinalityType DEF Checking
    <3> QED BY <2>2, <3>1, <3>2, LoginsNat, AttemptsAssumption
  <2> QED BY <2>3, <2>4, <2>5
<1>5. BurstOK'
  BY <1>1, LimiterBurst DEF Inv
<1> QED BY <1>3, <1>4, <1>5 DEF Inv

LEMMA VerifyInv == ASSUME Inv, NEW h \in Logins, Verify(h) PROVE Inv'
<1>1. PICK j \in checking[h] :
        entries' \in {WithFailure(entries, j), WithoutEntry(entries, j), entries}
  BY DEF Verify, Outcomes
<1>2. /\ checking' = [checking EXCEPT ![h] = {}]
      /\ UNCHANGED <<windows, calls, recent>>
  BY DEF Verify
<1>3. /\ j \in Accounts /\ checking[h] = {j}
      /\ DOMAIN entries \subseteq Accounts /\ entries \in [DOMAIN entries -> Failures]
  BY DEF Inv, TypeOK
<1>4. /\ DOMAIN entries' \subseteq Accounts /\ entries' \in [DOMAIN entries' -> Failures]
      /\ MaxAttempts > 0 => \A k \in Accounts : Running(entries', k) =>
           \/ Running(entries, k) /\ entries'[k].count = entries[k].count
           \/ k = j /\ Running(entries, k) /\ entries'[k].count = entries[k].count + 1
           \/ k = j /\ entries'[k].count = 1
  <2>1. CASE entries' = WithFailure(entries, j) /\ MaxAttempts > 0
    <3> DEFINE E == WithFailure(entries, j)
    <3>1. /\ DOMAIN E = DOMAIN entries \cup {j}
          /\ E \in [DOMAIN entries \cup {j} -> Failures]
          /\ \A k \in DOMAIN entries \ {j} : E[k] = entries[k]
          /\ E[j].count = IF Running(entries, j) THEN entries[j].count + 1 ELSE 1
      BY <1>3, <2>1, WithFailureOK
    <3> HIDE DEF E
    <3>2. entries' = E
      BY <2>1 DEF E
    <3> QED BY <1>3, <3>1, <3>2 DEF Running
  <2>2. CASE entries' = WithoutEntry(entries, j)
    BY <1>3, <2>2 DEF WithoutEntry, Running
  <2>3. CASE entries' = entries
    BY <1>3, <2>3
  <2>4. CASE entries' = WithFailure(entries, j) /\ ~(MaxAttempts > 0)
    BY <1>3, <2>4, AttemptsAssumption DEF WithFailure
  <2> QED BY <1>1, <2>1, <2>2, <2>3, <2>4
<1>5. TypeOK' /\ TrackedBounded'
  <2>1. checking' \in [Logins -> {{}} \cup {{k} : k \in Accounts}]
    BY <1>2 DEF Inv, TypeOK
  <2> QED BY <1>2, <1>4, <2>1 DEF Inv, TypeOK, TrackedBounded
<1>6. AttemptsBounded'
  <2> SUFFICES ASSUME MaxAttempts > 0, NEW k \in Accounts, Running(entries', k)
               PROVE  entries'[k].count + Cardinality(Checking(k)')
                        <= MaxAttempts - 1 + Cardinality(Logins)
    BY DEF AttemptsBounded
  <2>1. Running(entries, k) =>
          /\ entries[k].count \in Nat
          /\ entries[k].count + Cardinality(Checking(k)) <= MaxAttempts - 1 + Cardinality(Logins)
    BY <1>3 DEF Inv, AttemptsBounded, Running, Failures
  <2>2. Cardinality(Checking(k)') = Cardinality(Checking(k)) - (IF j = k THEN 1 ELSE 0)
    BY <1>2, <1>3, CheckingLess DEF Inv
  <2>3. Cardinality(Checking(k)) \in Nat /\ Cardinality(Checking(k)) <= Cardinality(Logins)
    BY CheckingBound
  <2>4. CASE Running(entries, k) /\ entries'[k].count = entries[k].count
    BY <2>1, <2>2, <2>3, <2>4, LoginsNat, AttemptsAssumption
  <2>5. CASE k = j /\ Running(entries, k) /\ entries'[k].count = entries[k].count + 1
    BY <2>1, <2>2, <2>3, <2>5, LoginsNat, AttemptsAssumption
  <2>6. CASE k = j /\ entries'[k].count = 1
    BY <2>2, <2>3, <2>6, LoginsNat, AttemptsAssumption
  <2> QED BY <1>4, <2>4, <2>5, <2>6
<1>7. BurstOK'
  BY <1>2 DEF Inv, BurstOK
<1> QED BY <1>5, <1>6, <1>7 DEF Inv

LEMMA TickInv == Inv /\ Tick => Inv'
<1> SUFFICES ASSUME Inv, Tick PROVE Inv'
  OBVIOUS
<1>1. DOMAIN windows' = DOMAIN windows /\ windows' \in [DOMAIN windows' -> WindowRecords]
  <2>1. windows' = [c \in DOMAIN windows |->
                      [windows[c] EXCEPT !.left = IF @ > 0 THEN @ - 1 ELSE 0]]
    BY DEF Tick, Aged
  <2>2. ASSUME NEW c \in DOMAIN windows PROVE windows'[c] \in WindowRecords
    <3>1. windows[c] \in WindowRecords
      BY DEF Inv, TypeOK
    <3> QED BY <2>1, <3>1, LimitsAssumption DEF WindowRecords
  <2> QED BY <2>1, <2>2
<1>2. /\ DOMAIN entries' = DOMAIN entries /\ entries' \in [DOMAIN entries' -> Failures]
      /\ \A k \in DOMAIN entries : entries'[k].count = entries[k].count
      /\ \A k \in Accounts : Running(entries', k) => Running(entries, k)
  <2>1. entries' = [k \in DOMAIN entries |->
                      [entries[k] EXCEPT !.left = IF @ > 0 THEN @ - 1 ELSE 0]]
    BY DEF Tick, Passed
  <2>2. ASSUME NEW k \in DOMAIN entries
        PROVE  /\ entries'[k] \in Failures /\ entries'[k].count = entries[k].count
               /\ entries'[k].left > 0 => entries[k].left > 0
    <3>1. entries[k] \in Failures
      BY DEF Inv, TypeOK
    <3> QED BY <2>1, <3>1, AttemptsAssumption DEF Failures
  <2> QED BY <2>1, <2>2 DEF Running
<1>3. recent' \in [0 .. WindowTime - 1 -> Nat]
  BY LimitsAssumption DEF Inv, TypeOK, Tick
<1>4. TypeOK' /\ TrackedBounded'
  BY <1>1, <1>2, <1>3 DEF Inv, TypeOK, TrackedBounded, Tick
<1>5. AttemptsBounded'
  BY <1>2 DEF Inv, AttemptsBounded, Checking, Tick, Running
<1>6. BurstOK'
  BY TickBurst DEF Inv
<1> QED BY <1>4, <1>5, <1>6 DEF Inv

LEMMA StutterInv == Inv /\ UNCHANGED vars => Inv'
BY DEF Inv, TypeOK, TrackedBounded, AttemptsBounded, BurstOK, Checking, vars

LEMMA Invariance == Init /\ [][Next]_vars => []Inv
<1>1. Inv /\ [Next]_vars => Inv'
  BY VisitInv, TickInv, LoginInv, VerifyInv, StutterInv DEF Next
<1> QED BY InitInv, <1>1, PTL

(* Type correctness of the two counters under any requests.                *)
THEOREM TypesHold == Spec => []TypeOK
BY Invariance, PTL DEF Inv, Spec

(* The limiter tracks at most one client more than _MAX_TRACKED, however   *)
(* many clients there are and whatever windows they keep live.             *)
THEOREM MemoryBounded == Spec => []TrackedBounded
BY Invariance, PTL DEF Inv, Spec

(* What `recent' leaves out: a tick shifts it, any other step only adds,   *)
(* and every admission of the watched client is added, unless more than    *)
(* MaxTracked clients have live windows, the watched one among them, and a *)
(* sweep may drop its window.                                              *)
HistoryKept ==
    /\ Tick => \A age \in 1 .. WindowTime - 1 : recent'[age] = recent[age - 1]
    /\ ~Tick =>
         \/ /\ \A age \in 0 .. WindowTime - 1 : recent'[age] >= recent[age]
            /\ Limiter(Watched, TRUE) => recent'[0] > recent[0]
         \/ Watched \in Live(windows) /\ Cardinality(Live(windows)) > MaxTracked

LEMMA StepsRemember == TypeOK /\ [Next]_vars => HistoryKept
<1> SUFFICES ASSUME TypeOK, [Next]_vars PROVE HistoryKept
  OBVIOUS
<1> DEFINE Over == Watched \in Live(windows) /\ Cardinality(Live(windows)) > MaxTracked
<1>1. /\ \A age \in 0 .. WindowTime - 1 : recent[age] \in Nat
      /\ 0 \in 0 .. WindowTime - 1
  BY LimitsAssumption DEF TypeOK
<1>2. Tick => \A age \in 1 .. WindowTime - 1 : recent'[age] = recent[age - 1]
  BY LimitsAssumption DEF Tick
<1>3. ASSUME NEW c, NEW through \in BOOLEAN, Limiter(c, through), ~Over
      PROVE  /\ \A age \in 0 .. WindowTime - 1 : recent'[age] >= recent[age]
             /\ through /\ c = Watched => recent'[0] > recent[0]
  <2>1. PICK W : recent' = Remembered(W, c, through)
    BY <1>3 DEF Limiter
  <2>2. ~CapHit(W)
    BY <1>3 DEF CapHit
  <2>3. recent' = [age \in 0 .. WindowTime - 1 |->
           recent[age] + (IF age = 0 /\ through /\ c = Watched THEN 1 ELSE 0)]
    BY <2>1, <2>2 DEF Remembered
  <2> QED BY <1>1, <2>3
<1>4. Limiter(Watched, TRUE) => Over \/ recent'[0] > recent[0]
  BY <1>3
<1>5. ASSUME ~Tick, ~Over PROVE \A age \in 0 .. WindowTime - 1 : recent'[age] >= recent[age]
  <2>1. CASE \E c \in Clients, through \in BOOLEAN : Limiter(c, through)
    BY <1>3, <1>5, <2>1
  <2>2. CASE UNCHANGED recent
    BY <1>1, <2>2
  <2>3. [Next]_vars => \/ Tick \/ UNCHANGED recent
                      \/ \E c \in Clients, through \in BOOLEAN : Limiter(c, through)
    BY DEF Next, Visit, Login, Verify, vars
  <2> QED BY <1>5, <2>1, <2>2, <2>3
<1> QED BY <1>2, <1>4, <1>5 DEF HistoryKept

(* Within any WindowTime ticks a client is let through 2 * Limit times at  *)
(* most, the budget of two adjacent windows, whatever the other clients do *)
(* and whenever a sweep runs, as long as no more than MaxTracked clients   *)
(* have live windows: the admissions counted are all but those from before *)
(* a step in which more had, and the client's own may have been dropped.   *)
THEOREM BurstsBounded == Spec => []BurstBounded /\ [][HistoryKept]_vars
<1>1. Inv => BurstBounded
  BY AdmissionsBound DEF Inv, BurstBounded
<1>2. Inv /\ [Next]_vars => HistoryKept
  BY StepsRemember DEF Inv
<1> QED BY Invariance, <1>1, <1>2, PTL DEF Spec

(* Within a lockout window an account's password is tried wrongly at most  *)
(* MaxAttempts - 1 times and once for every login that can be in progress  *)
(* at a time, although the lock is asked before and the failure recorded   *)
(* after an await.                                                         *)
THEOREM GuessesBounded == Spec => []AttemptsBounded
BY Invariance, PTL DEF Inv, Spec

(* A client that has a live window keeps it, with what it has left of it,  *)
(* through every request of another client, unless more than MaxTracked    *)
(* clients have one: nobody is refused, or forgiven, for another's sake.   *)
THEOREM OthersUntouched == Spec =>
    [][\A c \in Clients, through \in BOOLEAN, d \in Live(windows) :
         Limiter(c, through) /\ d # c /\ Cardinality(Live(windows)) <= MaxTracked =>
           d \in Live(windows') /\ windows'[d] = windows[d]]_vars
<1> DEFINE Step == \A c \in Clients, through \in BOOLEAN, d \in Live(windows) :
         Limiter(c, through) /\ d # c /\ Cardinality(Live(windows)) <= MaxTracked =>
           d \in Live(windows') /\ windows'[d] = windows[d]
<1>1. TypeOK => Step
  <2> SUFFICES ASSUME TypeOK, NEW c \in Clients, NEW through \in BOOLEAN, NEW d \in Live(windows),
                      Limiter(c, through), d # c, Cardinality(Live(windows)) <= MaxTracked
               PROVE  d \in Live(windows') /\ windows'[d] = windows[d]
    OBVIOUS
  <2>1. PICK W \in (IF SweepDue(windows, calls + 1) THEN Swept(windows) ELSE {windows}) :
          windows' = Counted(W, c)
    BY DEF Limiter
  <2>2. Cardinality(Live(windows)) \in Nat
    <3>1. Live(windows) \subseteq Clients
      BY DEF Live, TypeOK
    <3>2. IsFiniteSet(Live(windows))
      BY <3>1, ClientsAssumption, FS_Subset
    <3> QED BY <3>2, FS_CardinalityType
  <2>3. d \in DOMAIN W /\ W[d] = windows[d]
    BY <2>2, SweepKeeps, LimitsAssumption
  <2>4. d \in DOMAIN windows' /\ windows'[d] = windows[d]
    BY <2>1, <2>3 DEF Counted
  <2> QED BY <2>4 DEF Live
<1>2. Inv => TypeOK
  BY DEF Inv
<1> HIDE DEF Step
<1>3. Spec => [][Step]_vars
  BY Invariance, <1>1, <1>2, PTL DEF Spec
<1> QED BY <1>3 DEF Step

(* Every tick shortens the time an account is still locked for, and no     *)
(* login, right or wrong, locked out or in flight, ever lengthens it.      *)
THEOREM LocksRunOut == Spec =>
    [][\A k \in Accounts : Running(entries, k) /\ k \in DOMAIN entries' =>
         /\ entries'[k].left <= entries[k].left
         /\ Tick => entries'[k].left < entries[k].left]_vars
<1> DEFINE Step == \A k \in Accounts : Running(entries, k) /\ k \in DOMAIN entries' =>
         /\ entries'[k].left <= entries[k].left
         /\ Tick => entries'[k].left < entries[k].left
<1>1. TypeOK /\ Next => Step
  <2> SUFFICES ASSUME TypeOK, Next, NEW k \in Accounts, Running(entries, k), k \in DOMAIN entries'
               PROVE  /\ entries'[k].left <= entries[k].left
                      /\ Tick => entries'[k].left < entries[k].left
    OBVIOUS
  <2>1. entries[k] \in Failures /\ k \in DOMAIN entries /\ entries[k].left \in Nat \ {0}
    BY AttemptsAssumption DEF TypeOK, Running, Failures
  <2>2. Tick => entries'[k].left = entries[k].left - 1
    <3> SUFFICES ASSUME Tick PROVE entries'[k].left = entries[k].left - 1
      OBVIOUS
    <3>1. entries'[k] = [entries[k] EXCEPT !.left = IF @ > 0 THEN @ - 1 ELSE 0]
      BY <2>1 DEF Tick, Passed
    <3> QED BY <2>1, <3>1 DEF Failures
  <2>3. CASE Tick
    BY <2>1, <2>2, <2>3
  <2>4. CASE ~Tick
    <3>1. \/ entries' = entries
          \/ \E j \in Accounts : entries' \in {WithFailure(entries, j), WithoutEntry(entries, j)}
      <4>1. CASE Visit \/ \E h \in Logins : Login(h)
        BY <4>1 DEF Visit, Login, Begins
      <4>2. ASSUME NEW h \in Logins, Verify(h)
            PROVE  \/ entries' = entries
                   \/ \E j \in Accounts :
                        entries' \in {WithFailure(entries, j), WithoutEntry(entries, j)}
        BY <4>2 DEF Verify, Outcomes, TypeOK
      <4> QED BY <2>4, <4>1, <4>2 DEF Next
    <3>2. ASSUME NEW j \in Accounts, entries' = WithFailure(entries, j)
          PROVE  entries'[k].left = entries[k].left
      <4>1. CASE j = k /\ MaxAttempts # 0
        <5>1. entries'[k] = [entries[k] EXCEPT !.count = @ + 1]
          BY <2>1, <3>2, <4>1 DEF WithFailure
        <5> QED BY <2>1, <5>1 DEF Failures
      <4>2. CASE ~(j = k /\ MaxAttempts # 0)
        BY <2>1, <3>2, <4>2 DEF WithFailure
      <4> QED BY <4>1, <4>2
    <3>3. ASSUME NEW j \in Accounts, entries' = WithoutEntry(entries, j)
          PROVE  entries'[k].left = entries[k].left
      BY <3>3 DEF WithoutEntry
    <3> QED BY <2>1, <2>4, <3>1, <3>2, <3>3
  <2> QED BY <2>3, <2>4
<1>2. TypeOK /\ [Next]_vars => [Step]_vars
  BY <1>1
<1>3. Inv => TypeOK
  BY DEF Inv
<1> HIDE DEF Step
<1>4. Spec => [][Step]_vars
  BY Invariance, <1>2, <1>3, PTL DEF Spec
<1> QED BY <1>4 DEF Step
-----------------------------------------------------------------------------
(* The seven places.                                                       *)
LEMMA Places ==
    /\ DOMAIN Added = 1..7 /\ Outermost = 8
    /\ Added[1] = "request_id" /\ Added[2] = "security_headers" /\ Added[3] = "csrf"
    /\ Added[4] = "rate_limit" /\ Added[5] = "trusted_host" /\ Added[6] = "cors"
    /\ Added[7] = "session"
    /\ Place["rate_limit"] = 4 /\ Place["csrf"] = 3
<1>1. /\ DOMAIN Added = 1..7 /\ Outermost = 8
      /\ Added[1] = "request_id" /\ Added[2] = "security_headers" /\ Added[3] = "csrf"
      /\ Added[4] = "rate_limit" /\ Added[5] = "trusted_host" /\ Added[6] = "cors"
      /\ Added[7] = "session"
  BY DEF Added, Outermost
<1>2. \A i \in 1..7 : (Added[i] = "rate_limit" <=> i = 4) /\ (Added[i] = "csrf" <=> i = 3)
  <2> TAKE i \in 1..7
  <2>1. i = 1 \/ i = 2 \/ i = 3 \/ i = 4 \/ i = 5 \/ i = 6 \/ i = 7
    OBVIOUS
  <2> QED BY <1>1, <2>1
<1> HIDE DEF Added
<1>3. Place["rate_limit"] = CHOOSE i \in 1..7 : Added[i] = "rate_limit"
  BY <1>1 DEF Place, Layers, Always, Optional
<1>4. Place["csrf"] = CHOOSE i \in 1..7 : Added[i] = "csrf"
  BY <1>1 DEF Place, Layers, Always, Optional
<1>5. Place["rate_limit"] = 4
  BY <1>2, <1>3
<1>6. Place["csrf"] = 3
  BY <1>2, <1>4
<1> QED BY <1>1, <1>5, <1>6

(* Where answers are made.                                                 *)
Makers == {0, 3, 4, 5, 6, 8}

(* A request is answered at a place that stops it, no place further out    *)
(* does, or by the routes when none does.                                  *)
LEMMA AnswererOK ==
    ASSUME NEW r \in Requests
    PROVE  /\ Answerer(r) \in {0, 3, 5, 6}
           /\ Answerer(r) # 0 => Answerer(r) \in Stopping(r)
           /\ \A i \in Stopping(r) : i <= Answerer(r)
<1> DEFINE S == Stopping(r) \cup {0}
<1> DEFINE ans == Answerer(r)
<1>1. \A k \in S : k \in {0, 3, 5, 6}
  BY Places DEF Stopping, Stops
<1>2. Answerer(r) = CHOOSE x \in S : \A y \in S : x >= y
  BY DEF Answerer, Max, Routes
<1> HIDE DEF S
<1>3. \E x \in S : \A y \in S : x >= y
  <2>1. S \in SUBSET Nat /\ S # {} /\ \A k \in S : k <= 6
    BY <1>1 DEF S
  <2>2. PICK m \in S : \A k \in S : k <= m
    BY <2>1, Greatest
  <2>3. \A k \in S : m >= k
    BY <1>1, <2>2
  <2> QED BY <2>3
<1> HIDE DEF ans
<1>4. ans \in S /\ \A y \in S : ans >= y
  BY <1>2, <1>3 DEF ans
<1>5. \A y \in S : y <= ans
  BY <1>1, <1>4
<1> QED BY <1>1, <1>4, <1>5 DEF S, ans

(* Which requests the outer layers stop.                                   *)
LEMMA OuterLayers ==
    ASSUME NEW r \in Requests
    PROVE  MeetsLimiter(r) <=> /\ ~("cors" \in Installed /\ r.method = "preflight")
                               /\ ~("trusted_host" \in Installed /\ r.host = "unknown")
<1> DEFINE ans == Answerer(r)
<1>1. /\ 5 \in Stopping(r) <=> "trusted_host" \in Installed /\ r.host = "unknown"
      /\ 6 \in Stopping(r) <=> "cors" \in Installed /\ r.method = "preflight"
      /\ 4 \notin Stopping(r)
  BY Places DEF Stopping, Stops
<1>2. /\ ans \in {0, 3, 5, 6}
      /\ ans # 0 => ans \in Stopping(r)
      /\ \A i \in Stopping(r) : i <= ans
  BY AnswererOK
<1>3. MeetsLimiter(r) <=> ans < 4
  BY Places DEF MeetsLimiter
<1> HIDE DEF ans
<1>4. ans < 4 <=> 5 \notin Stopping(r) /\ 6 \notin Stopping(r)
  BY <1>1, <1>2
<1> QED BY <1>1, <1>3, <1>4

LEMMA RoutesReached ==
    ASSUME NEW r \in Requests, Answerer(r) = Routes
    PROVE  MeetsLimiter(r) /\ ~("csrf" \in Installed /\ r.method = "unsafe" /\ r.origin # "allowed")
<1>1. MeetsLimiter(r)
  BY Places DEF MeetsLimiter, Routes
<1>2. 3 \notin Stopping(r)
  <2>1. \A i \in Stopping(r) : i <= 0
    BY AnswererOK DEF Routes
  <2> QED BY <2>1
<1> QED BY <1>1, <1>2, Places DEF Stopping, Stops
-----------------------------------------------------------------------------
(* The layers let the counters do only what they do without them.          *)
LEMMA PipeStep == [PipeNext]_pipe => [Next]_vars
<1> SUFFICES ASSUME [PipeNext]_pipe PROVE [Next]_vars
  OBVIOUS
<1>1. CASE Serve
  <2>1. PICK r \in Requests, through \in BOOLEAN :
          Enters(r, through) /\ UNCHANGED <<entries, checking>>
    BY <1>1 DEF Serve
  <2>2. r.client \in Clients
    BY RequestsAssumption DEF Clientele
  <2> QED BY <2>1, <2>2 DEF Enters, Next, Visit, vars
<1>2. ASSUME NEW h \in Logins, SignIn(h) PROVE Next
  <2>1. PICK r \in Requests : Answerer(r) = Routes /\ Enters(r, TRUE) /\ Begins(h)
    BY <1>2 DEF SignIn
  <2>2. r.client \in Clients
    BY RequestsAssumption DEF Clientele
  <2> QED BY <2>1, <2>2, RoutesReached DEF Enters, Next, Login
<1>3. ASSUME NEW h \in Logins, Finish(h) PROVE Next
  BY <1>3 DEF Finish, Next
<1>4. CASE Clock
  BY <1>4 DEF Clock, Next
<1>5. CASE UNCHANGED pipe
  BY <1>5 DEF pipe
<1> QED BY <1>1, <1>2, <1>3, <1>4, <1>5 DEF PipeNext

(* The layered service implements the two counters (their safety part).    *)
THEOREM LayersKeepTheGates == PipeSpec => Init /\ [][Next]_vars
BY PipeStep, PTL DEF PipeSpec, PipeInit

LEMMA AnswersOK ==
    ASSUME NEW place \in 0 .. Outermost
    PROVE  Answer(place).place = place /\ Answer(place).headers \subseteq Installed
             /\ Answer(place).headers = Headers[place]
<1>1. Headers[place] \subseteq Installed
  BY InstalledAssumption DEF Headers, Always
<1> QED BY <1>1 DEF Answer

(* Where an answer is given.                                               *)
LEMMA AnswerPlaces ==
    ASSUME PipeNext
    PROVE  \A a \in answer' : \E place \in Makers : a = Answer(place)
<1>1. Routes \in Makers /\ Outermost \in Makers
  BY Places DEF Routes, Makers
<1>2. CASE Serve
  <2>1. PICK r \in Requests : \/ answer' = {Answer(Answerer(r))}
                              \/ answer' = {Answer(4)}
                              \/ answer' = {Answer(Outermost)}
    BY <1>2, Places DEF Serve
  <2>2. Answerer(r) \in Makers /\ 4 \in Makers
    BY AnswererOK DEF Makers
  <2> QED BY <1>1, <2>1, <2>2
<1>3. CASE \E h \in Logins : SignIn(h) \/ Finish(h)
  BY <1>1, <1>3 DEF SignIn, Finish
<1>4. CASE Clock
  BY <1>4 DEF Clock
<1> QED BY <1>2, <1>3, <1>4 DEF PipeNext

Traffic ==
    /\ arrived \in {{}} \cup {{r} : r \in Requests}
    /\ \A a \in answer : \E place \in Makers : a = Answer(place)

LEMMA PipeTraffic == PipeSpec => []Traffic
<1>1. PipeInit => Traffic
  BY DEF PipeInit, Traffic
<1>2. Traffic /\ [PipeNext]_pipe => Traffic'
  <2> SUFFICES ASSUME Traffic, [PipeNext]_pipe PROVE Traffic'
    OBVIOUS
  <2>1. CASE PipeNext
    <3>1. arrived' \in {{}} \cup {{r} : r \in Requests}
      BY <2>1 DEF PipeNext, Serve, SignIn, Finish, Clock, Enters
    <3> QED BY <2>1, <3>1, AnswerPlaces DEF Traffic
  <2>2. CASE UNCHANGED pipe
    BY <2>2 DEF pipe, Traffic
  <2> QED BY <2>1, <2>2
<1> QED BY <1>1, <1>2, PTL DEF PipeSpec

(* Type correctness behind the layers.                                     *)
THEOREM LayeredTypes == PipeSpec => []PipeTypeOK
<1>1. Inv /\ Traffic => PipeTypeOK
  BY AnswersOK, Places DEF Inv, Traffic, PipeTypeOK, Makers
<1> QED BY LayersKeepTheGates, Invariance, PipeTraffic, <1>1, PTL

(* The bounds on tracked clients, on a client's admissions and on password *)
(* attempts hold behind the layers, whichever are installed; admissions    *)
(* are counted as in BurstsBounded, where the cap on clients may take a    *)
(* client's window away.                                                   *)
THEOREM LayeredBounds ==
    PipeSpec => [](TrackedBounded /\ BurstBounded /\ AttemptsBounded) /\ [][HistoryKept]_vars
<1>1. Inv => TrackedBounded /\ BurstBounded /\ AttemptsBounded
  BY AdmissionsBound DEF Inv, BurstBounded
<1>2. Inv /\ [Next]_vars => HistoryKept
  BY StepsRemember DEF Inv
<1> QED BY LayersKeepTheGates, Invariance, <1>1, <1>2, PTL

(* Whatever layers are installed, every answer but the fallback handler's  *)
(* has the headers its readers need.                                       *)
THEOREM AnswersAlwaysDressed == PipeSpec => []AnswersDressed
<1>1. ASSUME NEW place \in 0 .. Outermost, NEW l \in Installed, NEW i \in 1..7,
             Added[i] = l, i > place
      PROVE  l \in Headers[place]
  BY <1>1, Places DEF Headers
<1>2. Traffic => AnswersDressed
  <2> SUFFICES ASSUME Traffic, NEW a \in answer, a.place # Outermost
               PROVE  /\ a.place <= Place["rate_limit"] => "request_id" \in a.headers
                      /\ a.place <= Place["rate_limit"] /\ "cors" \in Installed => "cors" \in a.headers
                      /\ "session" \in Installed => "session" \in a.headers
                      /\ a.place = Routes => "security_headers" \in a.headers
    BY DEF AnswersDressed
  <2>1. PICK place \in Makers : a = Answer(place)
    BY DEF Traffic
  <2>2. place \in 0 .. Outermost /\ place \in 0..8
    BY Places DEF Makers
  <2>3. a.place = place /\ a.headers = Headers[place]
    BY <2>1, <2>2, AnswersOK
  <2>4. place \in {0, 3, 4, 5, 6}
    BY <2>1, <2>3, Places DEF Makers
  <2>5. "request_id" \in Installed /\ "security_headers" \in Installed
    BY InstalledAssumption DEF Always
  <2>6. place \in {3, 4} => "request_id" \in Headers[place]
    BY <2>2, Places DEF Headers
  <2>7. place < 1 => "request_id" \in Headers[place] /\ "security_headers" \in Headers[place]
    BY <1>1, <2>2, <2>5, Places
  <2>8. place <= 4 /\ "cors" \in Installed => "cors" \in Headers[place]
    BY <1>1, <2>2, <2>4, Places
  <2>9. "session" \in Installed => "session" \in Headers[place]
    BY <1>1, <2>2, <2>4, Places
  <2>10. place <= 4 => "request_id" \in Headers[place]
    BY <1>1, <2>2, <2>4, <2>5, <2>6, Places
  <2> QED BY <2>3, <2>7, <2>8, <2>9, <2>10, Places DEF Routes
<1> QED BY PipeTraffic, <1>2, PTL

(* What becomes of one arrival.                                            *)
LEMMA ArrivalInOrder ==
    ASSUME NEW r \in Requests, NEW through \in BOOLEAN, Enters(r, through), TypeOK, BurstOK
    PROVE  /\ ~MeetsLimiter(r) => UNCHANGED <<windows, calls>>
           /\ MeetsLimiter(r) /\ r.client = Watched =>
                IF through THEN recent'[0] \in {1, recent[0] + 1}
                           ELSE Cardinality(Admissions) >= Limit
<1>1. ~MeetsLimiter(r) => UNCHANGED <<windows, calls>>
  BY DEF Enters
<1>2. ASSUME MeetsLimiter(r), through, r.client = Watched
      PROVE  recent'[0] \in {1, recent[0] + 1}
  <2>1. PICK W : recent' = Remembered(W, Watched, through)
    BY <1>2 DEF Enters, Limiter
  <2>2. 0 \in 0 .. WindowTime - 1 /\ recent[0] \in Nat
    BY LimitsAssumption DEF TypeOK
  <2>3. recent'[0] = (IF CapHit(W) THEN 0 ELSE recent[0]) + 1
    BY <1>2, <2>1, <2>2 DEF Remembered
  <2> QED BY <2>2, <2>3
<1>3. ASSUME MeetsLimiter(r), ~through, r.client = Watched
      PROVE  Cardinality(Admissions) >= Limit
  <2>1. through = FALSE
    BY <1>3
  <2>2. Limiter(Watched, FALSE)
    BY <1>3, <2>1 DEF Enters
  <2> QED BY <2>2, RefusedAtLimit
<1> QED BY <1>1, <1>2, <1>3

(* Whatever layers are installed, refusals happen in their order: those    *)
(* outside of the limiter are free, all others are counted, those of the   *)
(* limiter come out of a budget that is used up, and none gets to the      *)
(* throttle.                                                               *)
THEOREM RefusalsInOrder == PipeSpec => RefusedInOrder
<1> DEFINE Step == \A r \in arrived' :
      LET preflight == "cors" \in Installed /\ r.method = "preflight"
          unknown   == "trusted_host" \in Installed /\ r.host = "unknown"
          forged    == "csrf" \in Installed /\ r.method = "unsafe" /\ r.origin # "allowed"
          refused   == \E a \in answer' : a.place = Place["rate_limit"] IN
      /\ preflight \/ unknown => UNCHANGED <<windows, calls>>
      /\ ~preflight /\ ~unknown /\ r.client = Watched =>
           IF refused THEN Cardinality(Admissions) >= Limit ELSE recent'[0] \in {1, recent[0] + 1}
      /\ preflight \/ unknown \/ forged \/ refused => UNCHANGED <<entries, checking>>
<1>1. TypeOK /\ BurstOK /\ PipeNext => Step
  <2> SUFFICES ASSUME TypeOK, BurstOK, PipeNext PROVE Step
    OBVIOUS
  <2>1. CASE Serve
    <3>1. PICK r \in Requests, through \in BOOLEAN :
            /\ Enters(r, through)
            /\ UNCHANGED <<entries, checking>>
            /\ IF through THEN answer' \in {{Answer(Answerer(r))}, {Answer(Outermost)}}
                          ELSE answer' = {Answer(4)}
      BY <2>1, Places DEF Serve
    <3>2. arrived' = {r}
      BY <3>1 DEF Enters
    <3>3. ~through <=> \E a \in answer' : a.place = Place["rate_limit"]
      <4>1. Answer(4).place = 4 /\ Answer(Outermost).place = 8
              /\ Answer(Answerer(r)).place \in {0, 3, 5, 6}
        BY AnswererOK, Places DEF Answer
      <4> QED BY <3>1, <4>1, Places
    <3>4. /\ ~MeetsLimiter(r) => UNCHANGED <<windows, calls>>
          /\ MeetsLimiter(r) /\ r.client = Watched =>
               IF through THEN recent'[0] \in {1, recent[0] + 1}
                          ELSE Cardinality(Admissions) >= Limit
      BY <3>1, ArrivalInOrder
    <3> QED BY <3>1, <3>2, <3>3, <3>4, OuterLayers
  <2>2. ASSUME NEW h \in Logins, SignIn(h) PROVE Step
    <3>1. PICK r \in Requests :
            /\ Answerer(r) = Routes /\ Enters(r, TRUE)
            /\ answer' = {} \/ answer' = {Answer(Routes)}
      BY <2>2 DEF SignIn
    <3>2. arrived' = {r}
      BY <3>1 DEF Enters
    <3>3. \A a \in answer' : a.place # Place["rate_limit"]
      BY <3>1, Places DEF Answer, Routes
    <3>4. MeetsLimiter(r) /\ r.client = Watched => recent'[0] \in {1, recent[0] + 1}
      <4>1. PICK t \in BOOLEAN : t /\ Enters(r, t)
        BY <3>1
      <4> QED BY <4>1, ArrivalInOrder
    <3>5. MeetsLimiter(r) /\ ~("csrf" \in Installed /\ r.method = "unsafe" /\ r.origin # "allowed")
      BY <3>1, RoutesReached
    <3> QED BY <3>2, <3>3, <3>4, <3>5, OuterLayers
  <2>3. ASSUME NEW h \in Logins, Finish(h) PROVE Step
    BY <2>3 DEF Finish
  <2>4. CASE Clock
    BY <2>4 DEF Clock
  <2> QED BY <2>1, <2>2, <2>3, <2>4 DEF PipeNext
<1>2. TypeOK /\ BurstOK /\ [PipeNext]_pipe => [Step]_pipe
  BY <1>1
<1>3. Inv => TypeOK /\ BurstOK
  BY DEF Inv
<1>4. PipeSpec => [](TypeOK /\ BurstOK)
  BY LayersKeepTheGates, Invariance, <1>3, PTL
<1>5. PipeSpec => [][Step]_pipe
  BY <1>2, <1>4, PTL DEF PipeSpec
<1> QED BY <1>5 DEF RefusedInOrder
==============================================================================
