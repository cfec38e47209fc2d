----------------------------- MODULE RedisProofs ----------------------------
(***************************************************************************)
(* The two components that keep a key in Redis under an expiry.            *)
(* RateLimiter, for every limit, window and set of callers: its types, no  *)
(* key without an expiry, the bound on bursts, and that denials are earned.*)
(* SubscriptionGate, for every ttl, flight and set of handlers: its types  *)
(* and the age of its answers.                                             *)
(***************************************************************************)
EXTENDS RateLimiter, SubscriptionGate, FiniteSetTheorems,
        FunctionTheorems, TLAPS

-----------------------------------------------------------------------------
(* RateLimiter: types and expiry. *)

\* A restart may lower the counter without touching the expiry, and only the
\* hit that creates the key sets one: neither may outlive the other.
ExpiryMatches == count > 0 <=> ttl > 0

\* Each script that lets its caller through is one of those that were run.
PassedAreHits == \A a \in Ages : passed[a] <= hits[a]

\* Inductive; PassedAreHits is what bounds `passed`.
KeyInv == TypeOK /\ ExpiryMatches /\ PassedAreHits

LEMMA AgedType ==
    ASSUME NEW f \in [Ages -> 0..MaxPerTick]
    PROVE  Aged(f) \in [Ages -> 0..MaxPerTick]
  <1> SUFFICES ASSUME NEW a \in Ages
               PROVE  (IF a = 0 THEN 0 ELSE f[a - 1]) \in 0..MaxPerTick
    BY DEF Aged
  <1>1. a # 0 => a - 1 \in Ages
    BY WindowAssumption DEF Ages
  <1> QED
    BY <1>1, BoundAssumption

LEMMA ScriptStep ==
    ASSUME KeyInv, Script
    PROVE  count' \in 1..(Limit + 1) /\ ttl' \in 1..Window
  <1> QED
    BY LimitAssumption, WindowAssumption DEF KeyInv, TypeOK, ExpiryMatches, Script, Saturated

LEMMA KeyStep ==
    ASSUME KeyInv, Next
    PROVE  KeyInv'
  <1> USE LimitAssumption, WindowAssumption, BoundAssumption
          DEF KeyInv, TypeOK, ExpiryMatches, PassedAreHits, Decisions
  <1>1. ASSUME NEW c \in Callers, Hit(c)  PROVE KeyInv'
    BY <1>1 DEF Hit
  <1>2. ASSUME NEW c \in Callers, Execute(c)  PROVE KeyInv'
    <2>1. count' \in 1..(Limit + 1) /\ ttl' \in 1..Window
      BY <1>2, ScriptStep DEF Execute
    <2>2. hits[0] + 1 \in 0..MaxPerTick /\ passed[0] + 1 \in 0..MaxPerTick /\ 0 \in Ages
      BY <1>2 DEF Execute, Ages
    <2>3. hits' \in [Ages -> 0..MaxPerTick] /\ passed' \in [Ages -> 0..MaxPerTick]
      BY <1>2, <2>2 DEF Execute
    <2>4. PassedAreHits'
      BY <1>2, <2>2 DEF Execute
    <2> QED
      BY <1>2, <2>1, <2>3, <2>4 DEF Execute
  <1>3. ASSUME NEW c \in Callers, Decide(c)  PROVE KeyInv'
    BY <1>3 DEF Decide
  <1>4. ASSUME NEW c \in Callers, Break(c)  PROVE KeyInv'
    BY <1>4 DEF Break
  <1>5. CASE Restart
    <2>1. PICK n \in 0..count : count' = n
      BY <1>5 DEF Restart
    <2>2. lost' = lost + (count - n) /\ ttl' = IF n = 0 THEN 0 ELSE ttl
      BY <1>5, <2>1 DEF Restart
    <2>3. lost' \in Nat
      BY <2>2
    <2>4. count' \in 0..(Limit + 1) /\ ttl' \in 0..Window /\ ExpiryMatches'
      BY <2>1, <2>2
    <2>5. restarts' \in 0..MaxRestarts
      BY <1>5 DEF Restart
    <2> QED
      BY <1>5, <2>3, <2>4, <2>5 DEF Restart
  <1>6. CASE Tick
    <2>1. hits' \in [Ages -> 0..MaxPerTick] /\ passed' \in [Ages -> 0..MaxPerTick]
      BY <1>6, AgedType DEF Tick
    <2>2. PassedAreHits'
      BY <1>6 DEF Tick, Aged, Ages
    <2> QED
      BY <1>6, <2>1, <2>2 DEF Tick
  <1> QED
    BY <1>1, <1>2, <1>3, <1>4, <1>5, <1>6 DEF Next

-----------------------------------------------------------------------------
(* RateLimiter: counting the scripts of a window.  Histograms are what `hits` *)
(* and `passed` are; b is an age that a part of the window reaches back to.   *)

Histograms == [Ages -> 0..MaxPerTick]

\* The scripts that f counts in ticks no older than b, and how many they are.
Within(f, b) == {d \in Logged(f) : d[1] <= b}
Count(f, b) == Cardinality(Within(f, b))

LEMMA WithinFinite ==
    ASSUME NEW f, NEW b
    PROVE  IsFiniteSet(Within(f, b)) /\ Count(f, b) \in Nat
  <1>1. IsFiniteSet(Ages \X (1..MaxPerTick))
    <2>1. IsFiniteSet(Ages)
      BY WindowAssumption, FS_Interval DEF Ages
    <2>2. IsFiniteSet(1..MaxPerTick)
      BY BoundAssumption, FS_Interval
    <2> QED
      BY <2>1, <2>2, FS_Product
  <1>2. Within(f, b) \in SUBSET (Ages \X (1..MaxPerTick))
    BY DEF Within, Logged
  <1>3. IsFiniteSet(Within(f, b))
    BY <1>1, <1>2, FS_Subset
  <1> QED
    BY <1>3, FS_CardinalityType DEF Count

(* The whole window reaches back to its last tick. *)
LEMMA WindowCount ==
    ASSUME NEW f
    PROVE  InWindow(f) = Count(f, Window - 1)
  <1>1. Logged(f) = Within(f, Window - 1)
    BY WindowAssumption DEF Within, Logged, Ages
  <1> QED
    BY <1>1 DEF InWindow, Count

LEMMA CountMonotonic ==
    ASSUME NEW f, NEW b \in Nat, NEW e \in Nat, b <= e
    PROVE  Count(f, b) <= Count(f, e)
  <1>1. Within(f, b) \in SUBSET Within(f, e)
    BY WindowAssumption DEF Within, Logged, Ages
  <1> QED
    BY <1>1, WithinFinite, FS_Subset DEF Count

(* A script that is run now is one more, however far b reaches back. *)
LEMMA CountAdd ==
    ASSUME NEW f \in Histograms, NEW b \in Nat, f[0] < MaxPerTick
    PROVE  Count([f EXCEPT ![0] = @ + 1], b) = Count(f, b) + 1
  <1> DEFINE g == [f EXCEPT ![0] = @ + 1]
             d == <<0, f[0] + 1>>
  <1>1. 0 \in Ages /\ f[0] \in Nat
    BY WindowAssumption, BoundAssumption DEF Ages, Histograms
  <1>2. d \in Ages \X (1..MaxPerTick)
    BY <1>1, BoundAssumption
  <1>3. ASSUME NEW x \in Ages \X (1..MaxPerTick)
        PROVE  x[2] <= g[x[1]] <=> x[2] <= f[x[1]] \/ x = d
    <2>1. x = <<x[1], x[2]>> /\ x[1] \in Ages /\ x[2] \in Nat
      BY BoundAssumption
    <2>2. CASE x[1] = 0
      BY <1>1, <2>1, <2>2 DEF Histograms
    <2>3. CASE x[1] # 0
      BY <1>1, <2>1, <2>3 DEF Histograms
    <2> QED
      BY <2>2, <2>3
  <1>4. Within(g, b) = Within(f, b) \cup {d}
    BY <1>2, <1>3 DEF Within, Logged
  <1>5. d \notin Within(f, b)
    BY <1>1 DEF Within, Logged
  <1> QED
    BY <1>4, <1>5, WithinFinite, FS_AddElement DEF Count

(* In a tick every script grows a tick older: what reached back to b reaches
   back to b + 1, and of the present tick there is nothing yet. *)
LEMMA CountAged ==
    ASSUME NEW f \in Histograms, NEW b \in Nat, b + 1 \in Ages
    PROVE  Count(Aged(f), b + 1) = Count(f, b)
  <1> DEFINE S == Within(f, b)
             T == Within(Aged(f), b + 1)
             older == [d \in S |-> <<d[1] + 1, d[2]>>]
             younger == [d \in T |-> <<d[1] - 1, d[2]>>]
  <1>1. ASSUME NEW d \in S  PROVE older[d] \in T
    <2>1. d \in Ages \X (1..MaxPerTick) /\ d[2] <= f[d[1]] /\ d[1] <= b
      BY DEF Within, Logged
    <2>2. d[1] + 1 \in Ages /\ d[1] + 1 # 0 /\ (d[1] + 1) - 1 = d[1]
      BY <2>1, WindowAssumption DEF Ages
    <2>3. Aged(f)[d[1] + 1] = f[d[1]]
      BY <2>2 DEF Aged
    <2> QED
      BY <2>1, <2>2, <2>3, WindowAssumption DEF Within, Logged, Ages
  <1>2. ASSUME NEW d \in T  PROVE younger[d] \in S
    <2>1. d \in Ages \X (1..MaxPerTick) /\ d[2] <= Aged(f)[d[1]] /\ d[1] <= b + 1
      BY DEF Within, Logged
    <2>2. d[1] # 0 /\ d[1] - 1 \in Ages /\ Aged(f)[d[1]] = f[d[1] - 1]
      BY <2>1, WindowAssumption, BoundAssumption DEF Aged, Ages
    <2> QED
      BY <2>1, <2>2, WindowAssumption DEF Within, Logged, Ages
  <1>3. older \in Injection(S, T)
    <2>1. ASSUME NEW x \in S, NEW y \in S, older[x] = older[y]  PROVE x = y
      BY <2>1, WindowAssumption DEF Within, Logged, Ages
    <2> QED
      BY <1>1, <2>1, Fun_IsInj
  <1>4. younger \in Injection(T, S)
    <2>1. ASSUME NEW x \in T, NEW y \in T, younger[x] = younger[y]  PROVE x = y
      BY <2>1, WindowAssumption DEF Within, Logged, Ages
    <2> QED
      BY <1>2, <2>1, Fun_IsInj
  <1>5. Cardinality(S) <= Cardinality(T)
    BY <1>3, WithinFinite, FS_Injection
  <1>6. Cardinality(T) <= Cardinality(S)
    BY <1>4, WithinFinite, FS_Injection
  <1>7. Cardinality(S) \in Nat /\ Cardinality(T) \in Nat
    BY WithinFinite DEF Count
  <1> QED
    BY <1>5, <1>6, <1>7 DEF Count

LEMMA CountNew ==
    ASSUME NEW f \in Histograms
    PROVE  Count(Aged(f), 0) = 0
  <1>1. Within(Aged(f), 0) = {}
    BY WindowAssumption, BoundAssumption DEF Within, Logged, Aged, Ages
  <1> QED
    BY <1>1, FS_EmptySet DEF Count

LEMMA CountWindow ==
    ASSUME NEW f \in Histograms
    PROVE  Window - 1 \in Nat /\ Count(Aged(f), Window - 1) <= Count(f, Window - 1)
  <1>1. CASE Window = 1
    BY <1>1, CountNew, WithinFinite
  <1>2. CASE Window > 1
    <2>1. Window - 2 \in Nat /\ (Window - 2) + 1 \in Ages /\ (Window - 2) + 1 = Window - 1
      BY <1>2, WindowAssumption DEF Ages
    <2>2. Count(Aged(f), Window - 1) = Count(f, Window - 2)
      BY <2>1, CountAged
    <2> QED
      BY <2>1, <2>2, CountMonotonic
  <1> QED
    BY <1>1, <1>2, WindowAssumption

-----------------------------------------------------------------------------
(* RateLimiter: bursts and denials. *)

\* How long the key has lived, in ticks; none if there is no key.
KeyAge == IF count = 0 THEN 0 ELSE Window - ttl

\* How many the counter says it has let through.
LetThrough == IF count > Limit THEN Limit ELSE count

\* The scripts that passed in the life of the key are those it has counted, up
\* to the limit, and those that a restart made it forget; before them there is
\* room in the window for those of one earlier key, and no more than one.
BurstInv ==
    /\ Count(passed, KeyAge) <= LetThrough + lost
    /\ InWindow(passed) <= Limit + LetThrough + lost

\* The key counts no script that was not run in its life.
CounterInv == count <= Count(hits, KeyAge)

\* Inductive.
LimiterInv == KeyInv /\ BurstInv /\ CounterInv

LEMMA KeyAgeType ==
    ASSUME KeyInv
    PROVE  KeyAge \in Ages /\ KeyAge \in Nat /\ LetThrough \in 0..Limit /\ lost \in Nat
  BY LimitAssumption, WindowAssumption
  DEF KeyInv, TypeOK, ExpiryMatches, KeyAge, LetThrough, Ages

(* A script that is run counts as one, and passes if the limit allows it. *)
LEMMA ExecuteCounts ==
    ASSUME LimiterInv, NEW c \in Callers, Execute(c)
    PROVE  BurstInv' /\ CounterInv'
  <1> USE LimitAssumption, WindowAssumption
  <1>1. /\ count \in 0..(Limit + 1) /\ ttl \in 0..Window
        /\ hits \in Histograms /\ passed \in Histograms
        /\ passed[0] <= hits[0] /\ hits[0] < MaxPerTick
        /\ hits[0] \in Nat /\ passed[0] \in Nat
    BY BoundAssumption
    DEF LimiterInv, KeyInv, TypeOK, PassedAreHits, Execute, Histograms, Ages
  <1>2. /\ count' = IF count > Limit THEN Limit + 1 ELSE count + 1
        /\ ttl' = IF count = 0 THEN Window ELSE ttl
        /\ lost' = lost
        /\ hits' = [hits EXCEPT ![0] = @ + 1]
        /\ passed' = IF count < Limit THEN [passed EXCEPT ![0] = @ + 1] ELSE passed
    BY <1>1 DEF Execute, Script, Saturated, Allowed
  <1>3. KeyAge' = KeyAge /\ KeyAge \in Nat /\ Window - 1 \in Nat /\ lost \in Nat
    BY <1>1, <1>2, KeyAgeType DEF KeyAge, LimiterInv
  <1>4. /\ LetThrough' = IF count < Limit THEN LetThrough + 1 ELSE LetThrough
        /\ LetThrough \in Nat
    BY <1>1, <1>2 DEF LetThrough
  <1>5. CounterInv'
    <2>1. Count(hits, KeyAge)' = Count(hits, KeyAge) + 1
      <3>1. Count(hits', KeyAge) = Count(hits, KeyAge) + 1
        BY <1>1, <1>2, <1>3, CountAdd
      <3> QED
        BY <3>1, <1>3 DEF Count, Within, Logged
    <2> QED
      BY <1>1, <1>2, <2>1, <1>3, WithinFinite DEF CounterInv, LimiterInv
  <1>6. BurstInv'
    <2>1. \A b \in Nat : Count(passed, b)' =
                            IF count < Limit THEN Count(passed, b) + 1 ELSE Count(passed, b)
      <3> SUFFICES ASSUME NEW b \in Nat
                   PROVE  Count(passed', b) =
                             IF count < Limit THEN Count(passed, b) + 1 ELSE Count(passed, b)
        BY DEF Count, Within, Logged
      <3>1. passed[0] < MaxPerTick
        BY <1>1, BoundAssumption
      <3> QED
        BY <1>1, <1>2, <3>1, CountAdd
    <2>2. /\ Count(passed, KeyAge)' =
                IF count < Limit THEN Count(passed, KeyAge) + 1 ELSE Count(passed, KeyAge)
          /\ InWindow(passed)' =
                IF count < Limit THEN InWindow(passed) + 1 ELSE InWindow(passed)
      <3>1. Count(passed, KeyAge)' = Count(passed', KeyAge)
        BY <1>3 DEF Count, Within, Logged
      <3>2. InWindow(passed)' = Count(passed', Window - 1)
        BY WindowCount DEF InWindow, Count, Within, Logged
      <3> QED
        BY <1>3, <2>1, <3>1, <3>2, WindowCount DEF Count, Within, Logged
    <2>3. Count(passed, KeyAge) \in Nat /\ InWindow(passed) \in Nat
      BY WithinFinite, WindowCount
    <2>4. /\ Count(passed, KeyAge) <= LetThrough + lost
          /\ InWindow(passed) <= Limit + LetThrough + lost
      BY DEF BurstInv, LimiterInv
    <2>5. Count(passed, KeyAge)' <= LetThrough' + lost'
      BY <1>2, <1>3, <1>4, <2>2, <2>3, <2>4
    <2>6. InWindow(passed)' <= Limit + LetThrough' + lost'
      BY <1>2, <1>3, <1>4, <2>2, <2>3, <2>4
    <2> QED
      BY <2>5, <2>6 DEF BurstInv
  <1> QED
    BY <1>5, <1>6

(* A restart lowers the counter by what it adds to `lost`. *)
LEMMA RestartForgets ==
    ASSUME LimiterInv, Restart
    PROVE  BurstInv' /\ CounterInv'
  <1> USE LimitAssumption, WindowAssumption
  <1>1. PICK n \in 0..count : count' = n
    BY DEF Restart
  <1>2. /\ count \in 0..(Limit + 1) /\ ttl \in 0..Window /\ lost \in Nat
        /\ lost' = lost + (count - n)
        /\ ttl' = IF n = 0 THEN 0 ELSE ttl
        /\ hits' = hits /\ passed' = passed
    BY <1>1 DEF Restart, LimiterInv, KeyInv, TypeOK
  <1>3. KeyAge' \in Nat /\ KeyAge \in Nat /\ KeyAge' <= KeyAge
    BY <1>1, <1>2 DEF KeyAge
  <1>4. LetThrough' \in Nat /\ LetThrough \in Nat
    BY <1>1, <1>2 DEF LetThrough
  <1>5. PICK m \in 0..(count - n) : LetThrough' = LetThrough - m
    <2>1. CASE count <= Limit
      <3>1. LetThrough' = LetThrough - (count - n) /\ count - n \in 0..(count - n)
        BY <1>1, <1>2, <2>1 DEF LetThrough
      <3> QED
        BY <3>1
    <2>2. CASE count > Limit /\ n > Limit
      <3>1. LetThrough' = LetThrough - 0 /\ 0 \in 0..(count - n)
        BY <1>1, <1>2, <2>2 DEF LetThrough
      <3> QED
        BY <3>1
    <2>3. CASE count > Limit /\ n <= Limit
      <3>1. LetThrough' = LetThrough - (Limit - n) /\ Limit - n \in 0..(count - n)
        BY <1>1, <1>2, <2>3 DEF LetThrough
      <3> QED
        BY <3>1
    <2> QED
      BY <1>2, <2>1, <2>2, <2>3
  <1>6. /\ Count(passed, KeyAge)' <= Count(passed, KeyAge)
        /\ InWindow(passed)' = InWindow(passed)
        /\ count' # 0 => Count(hits, KeyAge)' = Count(hits, KeyAge)
    <2>1. Count(passed, KeyAge)' = Count(passed, KeyAge')
      BY <1>2 DEF Count, Within, Logged
    <2>2. Count(passed, KeyAge') <= Count(passed, KeyAge)
      BY <1>3, CountMonotonic
    <2>3. InWindow(passed)' = InWindow(passed)
      BY <1>2 DEF InWindow, Logged
    <2>4. ASSUME count' # 0 PROVE Count(hits, KeyAge)' = Count(hits, KeyAge)
      <3>1. KeyAge' = KeyAge
        BY <1>1, <1>2, <2>4 DEF KeyAge
      <3> QED
        BY <1>2, <3>1 DEF Count, Within, Logged
    <2> QED
      BY <2>1, <2>2, <2>3, <2>4
  <1>7. /\ Count(passed, KeyAge) \in Nat /\ Count(passed, KeyAge)' \in Nat
        /\ Count(hits, KeyAge) \in Nat /\ Count(hits, KeyAge)' \in Nat
        /\ InWindow(passed) \in Nat /\ lost' \in Nat
    <2>1. /\ Count(passed', KeyAge') \in Nat /\ Count(hits', KeyAge') \in Nat
          /\ Count(passed, KeyAge) \in Nat /\ Count(hits, KeyAge) \in Nat
          /\ Count(passed, Window - 1) \in Nat
      BY WithinFinite
    <2>2. /\ Count(passed, KeyAge)' = Count(passed', KeyAge')
          /\ Count(hits, KeyAge)' = Count(hits', KeyAge')
      BY DEF Count, Within, Logged
    <2>3. InWindow(passed) = Count(passed, Window - 1)
      BY WindowCount
    <2>4. lost' \in Nat
      BY <1>1, <1>2
    <2> QED
      BY <2>1, <2>2, <2>3, <2>4
  <1>8. /\ Count(passed, KeyAge) <= LetThrough + lost
        /\ InWindow(passed) <= Limit + LetThrough + lost
        /\ count <= Count(hits, KeyAge)
    BY DEF LimiterInv, BurstInv, CounterInv
  <1>9. BurstInv'
    <2>1. Count(passed, KeyAge)' <= LetThrough' + lost'
      BY <1>2, <1>4, <1>5, <1>6, <1>7, <1>8
    <2>2. InWindow(passed)' <= Limit + LetThrough' + lost'
      BY <1>2, <1>4, <1>5, <1>6, <1>7, <1>8
    <2> QED
      BY <2>1, <2>2 DEF BurstInv
  <1>10. CounterInv'
    <2>1. count' <= Count(hits, KeyAge)'
      BY <1>1, <1>2, <1>6, <1>7, <1>8
    <2> QED
      BY <2>1 DEF CounterInv
  <1> QED
    BY <1>9, <1>10

(* With the key, what it let through leaves the window but for its own last
   limit; while the key lives, its age and that of its scripts grow alike. *)
LEMMA TickAges ==
    ASSUME LimiterInv, Tick
    PROVE  BurstInv' /\ CounterInv'
  <1> USE LimitAssumption, WindowAssumption
  <1>1. /\ count \in 0..(Limit + 1) /\ ttl \in 0..Window /\ lost \in Nat
        /\ count > 0 <=> ttl > 0
        /\ hits \in Histograms /\ passed \in Histograms
    BY DEF LimiterInv, KeyInv, TypeOK, ExpiryMatches, Histograms
  <1>2. /\ ttl' = (IF ttl = 0 THEN 0 ELSE ttl - 1)
        /\ count' = (IF ttl = 1 THEN 0 ELSE count)
        /\ hits' = Aged(hits) /\ passed' = Aged(passed)
        /\ lost' = lost
    BY DEF Tick
  <1>3. /\ Count(passed, KeyAge)' = Count(Aged(passed), KeyAge')
        /\ Count(hits, KeyAge)' = Count(Aged(hits), KeyAge')
        /\ InWindow(passed)' = Count(Aged(passed), Window - 1)
    BY <1>2, WindowCount DEF Count, Within, Logged, InWindow
  <1>4. /\ Count(Aged(passed), KeyAge') \in Nat /\ Count(passed, KeyAge) \in Nat
        /\ Count(hits, KeyAge) \in Nat
        /\ Count(Aged(passed), Window - 1) \in Nat /\ Count(passed, Window - 1) \in Nat
    BY WithinFinite
  <1>5. Count(Aged(passed), Window - 1) <= Count(passed, Window - 1)
    BY <1>1, CountWindow
  <1>6. InWindow(passed) = Count(passed, Window - 1)
    BY WindowCount
  <1>7. CASE ttl > 1
    <2>1. KeyAge' = KeyAge + 1 /\ KeyAge \in Nat /\ KeyAge + 1 \in Ages
      BY <1>1, <1>2, <1>7 DEF KeyAge, Ages
    <2>2. /\ Count(Aged(passed), KeyAge') = Count(passed, KeyAge)
          /\ Count(Aged(hits), KeyAge') = Count(hits, KeyAge)
      BY <1>1, <2>1, CountAged
    <2>3. count' = count /\ LetThrough' = LetThrough /\ LetThrough \in Nat
      BY <1>1, <1>2, <1>7 DEF LetThrough
    <2> QED
      BY <1>1, <1>2, <1>3, <1>4, <1>5, <1>6, <2>2, <2>3 DEF LimiterInv, BurstInv, CounterInv
  <1>8. CASE ttl \in {0, 1}
    <2>1. count' = 0 /\ KeyAge' = 0 /\ LetThrough' = 0
      BY <1>1, <1>2, <1>8 DEF KeyAge, LetThrough
    <2>2. Count(Aged(passed), KeyAge') = 0 /\ Count(Aged(hits), KeyAge') = 0
      BY <1>1, <2>1, CountNew
    <2>3. Count(Aged(passed), Window - 1) <= Limit + lost
      <3>1. CASE ttl = 0
        BY <1>1, <1>4, <1>5, <1>6, <3>1 DEF LimiterInv, BurstInv, LetThrough
      <3>2. CASE ttl = 1
        <4>1. KeyAge = Window - 1 /\ LetThrough \in 0..Limit
          BY <1>1, <3>2 DEF KeyAge, LetThrough
        <4> QED
          BY <1>1, <1>4, <1>5, <4>1 DEF LimiterInv, BurstInv
      <3> QED
        BY <1>8, <3>1, <3>2
    <2> QED
      BY <1>1, <1>2, <1>3, <1>4, <2>1, <2>2, <2>3 DEF BurstInv, CounterInv
  <1> QED
    BY <1>1, <1>7, <1>8

LEMMA LimiterStep ==
    ASSUME LimiterInv, [Next]_vars
    PROVE  LimiterInv'
  <1>1. KeyInv'
    <2>1. CASE UNCHANGED vars
      BY <2>1 DEF LimiterInv, KeyInv, TypeOK, ExpiryMatches, PassedAreHits, vars
    <2> QED
      BY <2>1, KeyStep DEF LimiterInv
  <1>2. ASSUME UNCHANGED <<count, ttl, hits, passed, lost>>
        PROVE  BurstInv' /\ CounterInv'
    BY <1>2 DEF LimiterInv, BurstInv, CounterInv, Count, Within, Logged, InWindow,
        KeyAge, LetThrough
  <1>3. ASSUME NEW c \in Callers, Hit(c) \/ Decide(c) \/ Break(c)
        PROVE  BurstInv' /\ CounterInv'
    BY <1>2, <1>3 DEF Hit, Decide, Break
  <1>4. ASSUME UNCHANGED vars
        PROVE  BurstInv' /\ CounterInv'
    BY <1>2, <1>4 DEF vars
  <1>5. BurstInv' /\ CounterInv'
    BY <1>3, <1>4, ExecuteCounts, RestartForgets, TickAges DEF Next
  <1> QED
    BY <1>1, <1>5 DEF LimiterInv

LEMMA LimiterInvariant == Spec => []LimiterInv
  <1>1. Init => LimiterInv
    <2> SUFFICES ASSUME Init PROVE LimiterInv
      OBVIOUS
    <2>1. KeyInv
      BY LimitAssumption, WindowAssumption, BoundAssumption
      DEF Init, KeyInv, TypeOK, ExpiryMatches, PassedAreHits, Decisions
    <2>2. Logged(passed) = {}
      BY BoundAssumption DEF Init, Logged
    <2>3. InWindow(passed) = 0 /\ Count(passed, KeyAge) = 0
      <3>1. Within(passed, KeyAge) = {}
        BY <2>2 DEF Within
      <3> QED
        BY <2>2, <3>1, FS_EmptySet DEF InWindow, Count
    <2>4. Count(hits, KeyAge) \in Nat
      BY WithinFinite
    <2> QED
      BY <2>1, <2>3, <2>4, LimitAssumption
      DEF Init, LimiterInv, BurstInv, CounterInv, LetThrough
  <1> QED
    BY <1>1, LimiterStep, PTL DEF Spec

(* The variables of the key and of its callers keep their types. *)
THEOREM KeyTypeCorrect == Spec => []TypeOK
  <1>1. LimiterInv => TypeOK
    BY DEF LimiterInv, KeyInv
  <1> QED
    BY <1>1, LimiterInvariant, PTL

(* For every limit and window, no interleaving of scripts, lost replies,
   restarts and time leaves a counter that nothing will remove. *)
THEOREM EveryKeyExpires == Spec => []NoImmortalKey
  <1>1. LimiterInv => NoImmortalKey
    BY DEF LimiterInv, KeyInv, ExpiryMatches, NoImmortalKey
  <1> QED
    BY <1>1, LimiterInvariant, PTL

(* For every limit, window and number of callers, no window's length of time
   sees more than twice the limit pass and what restarts have lost. *)
THEOREM BurstsAreBounded == Spec => []BurstBound
  <1>1. LimiterInv => BurstBound
    <2> SUFFICES ASSUME LimiterInv PROVE BurstBound
      OBVIOUS
    <2>1. LetThrough \in 0..Limit /\ lost \in Nat /\ InWindow(passed) \in Nat
      BY KeyAgeType, WindowCount, WithinFinite DEF LimiterInv
    <2> QED
      BY <2>1, LimitAssumption DEF LimiterInv, BurstInv, BurstBound
  <1> QED
    BY <1>1, LimiterInvariant, PTL

(* Nobody is denied by a key that has counted what no one has sent: the
   counter that denies is covered by scripts of the present window. *)
THEOREM NoUnearnedDenial == Spec => DenialsAreEarned
  <1>1. ASSUME LimiterInv, LimiterInv', Next, NEW c \in Callers,
               call[c] = "sent", call'[c] = "replied", ~Allowed(current'[c])
        PROVE  InWindow(hits)' > Limit
    <2>1. Execute(c)
      BY <1>1 DEF LimiterInv, KeyInv, TypeOK, Next, Hit, Execute, Decide, Break, Restart,
          Tick, Decisions
    <2>2. /\ count' \in 0..(Limit + 1) /\ ttl' \in 0..Window
          /\ count' > 0 <=> ttl' > 0
          /\ current \in [Callers -> 0..(Limit + 1)]
      BY <1>1 DEF LimiterInv, KeyInv, TypeOK, ExpiryMatches
    <2>3. Count(hits, KeyAge)' <= InWindow(hits)' /\ Count(hits, KeyAge)' \in Nat
          /\ InWindow(hits)' \in Nat
      <3>1. KeyAge' \in Ages
        <4>1. /\ count' = 0 => KeyAge' = 0
              /\ count' # 0 => KeyAge' = Window - ttl'
          BY DEF KeyAge
        <4> QED
          BY <2>2, <4>1, LimitAssumption, WindowAssumption DEF Ages
      <3>2. Count(hits', KeyAge') <= Count(hits', Window - 1)
        BY <3>1, WindowAssumption, CountMonotonic DEF Ages
      <3>3. Count(hits', KeyAge') \in Nat /\ Count(hits', Window - 1) \in Nat
        BY WithinFinite
      <3>4. InWindow(hits)' = Count(hits', Window - 1)
        BY WindowCount DEF InWindow, Logged
      <3> QED
        BY <3>2, <3>3, <3>4 DEF Count, Within, Logged
    <2>4. count' > Limit
      BY <1>1, <2>1, <2>2, LimitAssumption DEF Execute, Allowed
    <2>5. count' <= Count(hits, KeyAge)'
      BY <1>1 DEF LimiterInv, CounterInv
    <2> QED
      BY <2>2, <2>3, <2>4, <2>5, LimitAssumption
  <1>2. LimiterInv /\ LimiterInv' /\ [Next]_vars =>
           [\A c \in Callers :
               call[c] = "sent" /\ call'[c] = "replied" /\ ~Allowed(current'[c])
                   => InWindow(hits)' > Limit]_vars
    BY <1>1
  <1> QED
    BY <1>2, LimiterInvariant, PTL DEF Spec, DenialsAreEarned

-----------------------------------------------------------------------------
(* SubscriptionGate. *)

\* What is cached was true of the user at most MaxFlight ticks before it was
\* cached: with every tick the lag grows at most as the expiry shrinks.
CacheIsRecent == cache # "none" => lag[cache] + expiry <= MaxLag

\* What a handler carries to Redis was true when Telegram said it.
FlightIsRecent == \A k \in Checkers : pc[k] = "storing" => lag[found[k]] <= flight[k]

\* What Telegram would say now is true now.
NowIsNow == lag[Subscribed(status)] = 0

\* Inductive.
GateInv == GateTypeOK /\ CacheIsRecent /\ FlightIsRecent /\ NowIsNow

LEMMA SubscribedType == \A s : Subscribed(s) \in Values
  BY DEF Subscribed, Values

LEMMA GateTypeStep ==
    ASSUME GateTypeOK, GateNext
    PROVE  GateTypeOK'
  <1> USE SubscriptionGateAssumption DEF GateTypeOK, Values, MaxLag
  <1>1. ASSUME NEW k \in Checkers, Ask(k)  PROVE GateTypeOK'
    BY <1>1 DEF Ask
  <1>2. ASSUME NEW k \in Checkers, Look(k)  PROVE GateTypeOK'
    BY <1>2 DEF Look, Give
  <1>3. ASSUME NEW k \in Checkers, Learn(k)  PROVE GateTypeOK'
    BY <1>3, SubscribedType DEF Learn
  <1>4. ASSUME NEW k \in Checkers, Fail(k)  PROVE GateTypeOK'
    BY <1>4 DEF Fail, Give
  <1>5. ASSUME NEW k \in Checkers, Store(k)  PROVE GateTypeOK'
    BY <1>5 DEF Store, Cached, Give
  <1>6. ASSUME NEW k \in Checkers, Abort(k)  PROVE GateTypeOK'
    BY <1>6 DEF Abort, Cached, Give
  <1>7. CASE Change
    BY <1>7, SubscribedType DEF Change, checkVars
  <1>8. CASE Elapse
    <2>1. /\ flight' \in [Checkers -> 0..MaxFlight]
          /\ lag' \in [Values -> 0..(MaxLag + 1)]
      <3>1. ASSUME NEW k \in Checkers
            PROVE  (IF pc[k] = "storing" THEN flight[k] + 1 ELSE flight[k]) \in 0..MaxFlight
        BY <1>8 DEF Elapse
      <3>2. ASSUME NEW v \in Values
            PROVE  (IF v = Subscribed(status) \/ lag[v] > MaxLag
                    THEN lag[v] ELSE lag[v] + 1) \in 0..(MaxLag + 1)
        <4>1. lag[v] \in 0..(MaxLag + 1) /\ MaxLag \in Nat
          OBVIOUS
        <4> HIDE DEF MaxLag
        <4>2. CASE lag[v] > MaxLag
          BY <4>1, <4>2
        <4>3. CASE ~(lag[v] > MaxLag)
          BY <4>1, <4>3
        <4> QED
          BY <4>2, <4>3
      <3> QED
        BY <1>8, <3>1, <3>2 DEF Elapse
    <2>2. /\ expiry' \in 0..Ttl
          /\ cache' \in Values \cup {"none"}
          /\ cache' = "none" <=> expiry' = 0
      BY <1>8 DEF Elapse
    <2> QED
      BY <1>8, <2>1, <2>2 DEF Elapse
  <1> QED
    BY <1>1, <1>2, <1>3, <1>4, <1>5, <1>6, <1>7, <1>8 DEF GateNext

(* Only Telegram's answers enter the cache, with their age. *)
LEMMA FreshStep ==
    ASSUME GateInv, GateNext
    PROVE  CacheIsRecent' /\ FlightIsRecent' /\ NowIsNow'
  <1> USE SubscriptionGateAssumption
      DEF GateInv, GateTypeOK, CacheIsRecent, FlightIsRecent, NowIsNow, MaxLag
  <1>1. ASSUME NEW k \in Checkers, Ask(k)
        PROVE  CacheIsRecent' /\ FlightIsRecent' /\ NowIsNow'
    BY <1>1 DEF Ask
  <1>2. ASSUME NEW k \in Checkers, Look(k)
        PROVE  CacheIsRecent' /\ FlightIsRecent' /\ NowIsNow'
    BY <1>2 DEF Look, Give
  <1>3. ASSUME NEW k \in Checkers, Learn(k)
        PROVE  CacheIsRecent' /\ FlightIsRecent' /\ NowIsNow'
    BY <1>3, SubscribedType DEF Learn
  <1>4. ASSUME NEW k \in Checkers, Fail(k)
        PROVE  CacheIsRecent' /\ FlightIsRecent' /\ NowIsNow'
    BY <1>4 DEF Fail, Give
  <1>5. ASSUME NEW k \in Checkers, Store(k)
        PROVE  CacheIsRecent' /\ FlightIsRecent' /\ NowIsNow'
    BY <1>5 DEF Store, Cached, Give, Values
  <1>6. ASSUME NEW k \in Checkers, Abort(k)
        PROVE  CacheIsRecent' /\ FlightIsRecent' /\ NowIsNow'
    BY <1>6 DEF Abort, Cached, Give, Values
  <1>7. CASE Change
    <2>1. \A v \in Values : lag'[v] = IF v = Subscribed(status') THEN 0 ELSE lag[v]
      BY <1>7, SubscribedType DEF Change
    <2> QED
      BY <1>7, <2>1, SubscribedType DEF Change, checkVars
  <1>8. CASE Elapse
    <2>1. \A v \in Values : lag'[v] \in {lag[v], lag[v] + 1}
      BY <1>8 DEF Elapse
    <2>2. CacheIsRecent'
      BY <1>8, <2>1 DEF Elapse
    <2>3. FlightIsRecent'
      BY <1>8, <2>1 DEF Elapse
    <2>4. NowIsNow'
      BY <1>8, SubscribedType DEF Elapse
    <2> QED
      BY <2>2, <2>3, <2>4
  <1> QED
    BY <1>1, <1>2, <1>3, <1>4, <1>5, <1>6, <1>7, <1>8 DEF GateNext

LEMMA GateInvariant == GateSpec => []GateInv
  <1>1. GateInit => GateInv
    BY SubscriptionGateAssumption, SubscribedType
    DEF GateInit, GateInv, GateTypeOK, CacheIsRecent, FlightIsRecent, NowIsNow, MaxLag, Values
  <1>2. GateInv /\ [GateNext]_gateVars => GateInv'
    <2>1. GateInv /\ GateNext => GateInv'
      BY GateTypeStep, FreshStep DEF GateInv
    <2>2. GateInv /\ UNCHANGED gateVars => GateInv'
      BY DEF GateInv, GateTypeOK, CacheIsRecent, FlightIsRecent, NowIsNow, gateVars
    <2> QED
      BY <2>1, <2>2
  <1> QED
    BY <1>1, <1>2, PTL DEF GateSpec

(* The key, its handlers and the observations keep their types, and the key
   and its expiry come and go together. *)
THEOREM GateTypeCorrect == GateSpec => []GateTypeOK
  <1>1. GateInv => GateTypeOK
    BY DEF GateInv
  <1> QED
    BY <1>1, GateInvariant, PTL

(* For every ttl, flight and number of handlers, no answer given is older
   than one ttl and one flight. *)
THEOREM NoStaleAnswer == GateSpec => AnswersAreFresh
  <1>1. ASSUME GateInv, GateNext, NEW k \in Checkers,
               answer'[k] \in Values, answer[k] = "none"
        PROVE  lag'[answer'[k]] <= MaxLag
    <2> USE SubscriptionGateAssumption DEF GateInv, GateTypeOK, MaxLag
    <2>1. ASSUME NEW j \in Checkers, Look(j)  PROVE lag'[answer'[k]] <= MaxLag
      BY <1>1, <2>1 DEF Look, Give, CacheIsRecent, Values
    <2>2. ASSUME NEW j \in Checkers, Store(j)  PROVE lag'[answer'[k]] <= MaxLag
      BY <1>1, <2>2 DEF Store, Cached, Give, FlightIsRecent, Values
    <2>3. ASSUME NEW j \in Checkers, Ask(j) \/ Learn(j) \/ Fail(j) \/ Abort(j)  PROVE FALSE
      BY <1>1, <2>3 DEF Ask, Learn, Fail, Abort, Give, Values
    <2>4. ASSUME Change \/ Elapse  PROVE FALSE
      BY <1>1, <2>4 DEF Change, Elapse, checkVars, Values
    <2> QED
      BY <1>1, <2>1, <2>2, <2>3, <2>4 DEF GateNext
  <1>2. GateInv /\ [GateNext]_gateVars =>
           [\A k \in Checkers : answer'[k] \in Values /\ answer[k] = "none"
                                    => lag'[answer'[k]] <= MaxLag]_gateVars
    BY <1>1
  <1> QED
    BY <1>2, GateInvariant, PTL DEF GateSpec, AnswersAreFresh

=============================================================================
