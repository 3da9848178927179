-------------------------- MODULE RateLimit_proofs --------------------------
(***************************************************************************)
(* Proofs about RateLimit, for any rate, window, delay, and any number of  *)
(* callers and keys.                                                       *)
(***************************************************************************)
EXTENDS RateLimit, TLAPS

\* The tokens of a key at time n; an evicted bucket comes back full.
Level(k, n) == IF buckets[k] = None THEN Capacity ELSE Refilled(buckets[k], n)

\* Readings are at most MaxDelay old, and the sweeper's two windows.
TimeInv ==
    /\ mark <= clock
    /\ \A k \in Keys : latest[k] <= clock
    /\ \A c \in Callers : want[c] # None =>
         now[c] \in Nat /\ now[c] <= clock /\ clock <= now[c] + MaxDelay
    /\ cutoff # None => cutoff \in Int /\ cutoff <= clock - 2 * Window

\* What out-of-order readings may take from a bucket: it is not in debt at the
\* latest reading applied, which is at most MaxDelay after the last one.
SolventAt(k) ==
    buckets[k] # None =>
        /\ buckets[k].last <= latest[k]
        /\ latest[k] <= buckets[k].last + MaxDelay
        /\ buckets[k].tokens + Rate * (latest[k] - buckets[k].last) >= 0
SolventInv == \A k \in Keys : SolventAt(k)

\* Admissions and tokens left never exceed a full bucket and the refill since the
\* mark, at any time a reading may still be applied for.
CreditAt(k, n) ==
    admitted[k] * Window + Level(k, n) <= Capacity + Rate * (n - mark + MaxDelay)
CreditInv == \A k \in Keys : \A n \in Int : clock - MaxDelay <= n => CreditAt(k, n)

\* The inductive invariant.
Inv == TypeOK /\ TimeInv /\ SolventInv /\ CreditInv
----------------------------------------------------------------------------
(***************************************************************************)
(* Arithmetic of the refill.                                               *)
(***************************************************************************)

\* The constants are numbers.
LEMMA Numbers ==
    /\ Rate \in Nat /\ Rate >= 1 /\ Window \in Nat /\ Window >= 1
    /\ MaxDelay \in Nat /\ 2 * MaxDelay <= Window
    /\ Capacity \in Nat /\ Capacity = Rate * Window
<1>1. Rate \in Nat \ {0} /\ Window \in Nat \ {0} /\ MaxDelay \in Nat /\ 2 * MaxDelay <= Window
  BY LimiterAssumption, Zenon
<1> QED BY <1>1 DEF Capacity

\* More time refills no less.
LEMMA Monotone ==
    ASSUME NEW r \in Nat, NEW a \in Int, NEW b \in Int, a <= b
    PROVE  r * a <= r * b
OBVIOUS

\* A refill over a span is the sum of the refills over its parts.
LEMMA Spans ==
    ASSUME NEW r \in Nat, NEW a \in Int, NEW b \in Int, NEW c \in Int
    PROVE  r * (a - c) = r * (a - b) + r * (b - c)
OBVIOUS

\* A full bucket holds a request.
LEMMA FullIsEnough == Capacity >= Window
BY Numbers, Monotone

\* Refilling in two steps gives no more than in one.
LEMMA RefillTwice ==
    ASSUME NEW b, b.tokens \in Int, b.last \in Int, NEW t \in Int, NEW n \in Int,
           NEW cost \in Int
    PROVE  Refilled([tokens |-> Refilled(b, t) - cost, last |-> t], n)
               <= Refilled(b, t) - cost + Rate * (n - t)
<1>1. Refilled(b, t) \in Int
  BY Numbers DEF Refilled
<1> QED BY <1>1, Numbers DEF Refilled

\* A bucket idle for almost two windows is full.
LEMMA IdleIsFull ==
    ASSUME NEW tokens \in Int, NEW last \in Int, NEW top \in Int, NEW n \in Int,
           tokens + Rate * (top - last) >= 0, top <= last + MaxDelay,
           n - last >= 2 * Window - MaxDelay
    PROVE  tokens + Rate * (n - last) >= Capacity
<1>1. n - top >= Window
  BY Numbers
<1>2. Rate * (n - top) >= Rate * Window
  BY <1>1, Numbers, Monotone
<1>3. Rate * (n - last) = Rate * (n - top) + Rate * (top - last)
  BY Numbers, Spans
<1> QED BY <1>2, <1>3, Numbers
----------------------------------------------------------------------------
(***************************************************************************)
(* The steps.                                                              *)
(***************************************************************************)

\* A limiter starts with nothing admitted and every bucket full.
LEMMA InitInv == Init => Inv
<1> SUFFICES ASSUME Init PROVE Inv
  OBVIOUS
<1>1. TypeOK
  BY DEF Init, TypeOK
<1>2. TimeInv
  BY DEF Init, TimeInv
<1>3. SolventInv
  BY DEF Init, SolventInv, SolventAt
<1>4. CreditInv
  <2> SUFFICES ASSUME NEW k \in Keys, NEW n \in Int, clock - MaxDelay <= n
               PROVE  CreditAt(k, n)
    BY DEF CreditInv
  <2>1. clock = 0 /\ mark = 0 /\ admitted[k] = 0 /\ Level(k, n) = Capacity
    BY DEF Init, Level
  <2>2. 0 <= n - mark + MaxDelay /\ n - mark + MaxDelay \in Int
    BY <2>1, Numbers
  <2>3. Rate * 0 <= Rate * (n - mark + MaxDelay)
    BY <2>2, Numbers, Monotone
  <2> QED BY <2>1, <2>3, Numbers DEF CreditAt
<1> QED BY <1>1, <1>2, <1>3, <1>4 DEF Inv

\* What a caller finds under the mutex: a bucket that is solvent and within
\* credit at its reading.
LEMMA AllowFinds ==
    ASSUME Inv, NEW c \in Callers, want[c] # None
    PROVE  /\ want[c] \in Keys
           /\ now[c] \in Nat /\ now[c] <= clock /\ clock <= now[c] + MaxDelay
           /\ BucketAt(want[c], now[c]) \in Bucket
           /\ Refilled(BucketAt(want[c], now[c]), now[c]) \in Int
           /\ Refilled(BucketAt(want[c], now[c]), now[c]) <= Capacity
           /\ Level(want[c], now[c]) = Refilled(BucketAt(want[c], now[c]), now[c])
<1> DEFINE k == want[c]
           t == now[c]
<1>1. k \in Keys
  BY DEF Inv, TypeOK
<1>2. t \in Nat /\ t <= clock /\ clock <= t + MaxDelay
  BY DEF Inv, TimeInv
<1>3. BucketAt(k, t) \in Bucket
  BY <1>1, <1>2, Numbers DEF Inv, TypeOK, BucketAt, Bucket
<1>4. Refilled(BucketAt(k, t), t) \in Int /\ Refilled(BucketAt(k, t), t) <= Capacity
  BY <1>2, <1>3, Numbers DEF Refilled, Bucket
<1>5. Level(k, t) = Refilled(BucketAt(k, t), t)
  <2>1. CASE buckets[k] = None
    <3>1. Refilled(BucketAt(k, t), t) = Capacity
      BY <1>2, <2>1, Numbers DEF Refilled, BucketAt
    <3> QED BY <2>1, <3>1 DEF Level
  <2>2. CASE buckets[k] # None
    BY <2>2 DEF Level, BucketAt
  <2> QED BY <2>1, <2>2
<1> QED BY <1>1, <1>2, <1>3, <1>4, <1>5

\* A refill up to the latest reading leaves no debt.
LEMMA RefillSolvent ==
    ASSUME Inv, NEW c \in Callers, want[c] # None, NEW top \in Nat,
           top >= latest[want[c]], top >= now[c]
    PROVE  Refilled(BucketAt(want[c], now[c]), now[c]) + Rate * (top - now[c]) >= 0
<1> DEFINE k == want[c]
           t == now[c]
           b == BucketAt(k, t)
<1> SUFFICES Refilled(b, t) + Rate * (top - t) >= 0
  OBVIOUS
<1>1. /\ k \in Keys /\ t \in Nat /\ b \in Bucket /\ latest[k] \in Nat
  BY AllowFinds DEF Inv, TypeOK
<1>2. Rate * (top - t) >= 0 /\ Rate * (top - t) \in Int
  BY <1>1, Numbers, Monotone
<1>3. CASE Refilled(b, t) = Capacity
  <2> HIDE DEF b, t
  <2> QED BY <1>2, <1>3, Numbers
<1>4. CASE Refilled(b, t) # Capacity
  <2>1. Refilled(b, t) = b.tokens + Rate * (t - b.last)
    BY <1>4 DEF Refilled
  <2>2. buckets[k] # None
    BY <1>1, <1>4, Numbers DEF Refilled, BucketAt
  <2>3. b = buckets[k] /\ b.tokens \in Int /\ b.last \in Int
    BY <1>1, <2>2 DEF BucketAt, Bucket
  <2>4. b.tokens + Rate * (latest[k] - b.last) >= 0
    BY <1>1, <2>2, <2>3 DEF Inv, SolventInv, SolventAt
  <2>5. Rate * (latest[k] - b.last) <= Rate * (top - b.last)
    BY <1>1, <2>3, Numbers, Monotone
  <2>6. Rate * (top - b.last) = Rate * (top - t) + Rate * (t - b.last)
    BY <1>1, <2>3, Numbers, Spans
  <2> HIDE DEF b, t, k
  <2> QED BY <1>1, <2>1, <2>3, <2>4, <2>5, <2>6, Numbers
<1> QED BY <1>3, <1>4

\* What Allow changes, as one update of the bucket it finds.
LEMMA AllowUpdates ==
    ASSUME Inv, NEW c \in Callers, Allow(c)
    PROVE  LET k == want[c]
               t == now[c]
               tokens == Refilled(BucketAt(k, t), t)
               cost == IF tokens >= Window THEN Window ELSE 0
               top == IF t > latest[k] THEN t ELSE latest[k]
           IN  /\ k # None
               /\ buckets' = [buckets EXCEPT ![k] = [tokens |-> tokens - cost, last |-> t]]
               /\ admitted' = [admitted EXCEPT ![k] = @ + (IF tokens >= Window THEN 1 ELSE 0)]
               /\ latest' = [latest EXCEPT ![k] = top]
               /\ want' = [want EXCEPT ![c] = None]
               /\ now' = [now EXCEPT ![c] = None]
               /\ UNCHANGED <<clock, cutoff, mark>>
<1> DEFINE k == want[c]
           t == now[c]
           tokens == Refilled(BucketAt(k, t), t)
<1>1. k # None /\ k \in Keys /\ tokens \in Int
  BY AllowFinds DEF Allow
<1>2. CASE tokens >= Window
  BY <1>2 DEF Allow, Enough
<1>3. CASE ~(tokens >= Window)
  <2>1. /\ buckets' = [buckets EXCEPT ![k] = [tokens |-> tokens, last |-> t]]
        /\ admitted' = admitted
        /\ latest' = [latest EXCEPT ![k] = IF t > latest[k] THEN t ELSE latest[k]]
        /\ want' = [want EXCEPT ![c] = None]
        /\ now' = [now EXCEPT ![c] = None]
        /\ UNCHANGED <<clock, cutoff, mark>>
    BY <1>3 DEF Allow, Enough
  <2>2. admitted = [admitted EXCEPT ![k] = @ + 0]
    BY <1>1 DEF Inv, TypeOK
  <2>3. tokens = tokens - 0
    <3> HIDE DEF tokens
    <3> QED BY <1>1
  <2>4. buckets' = [buckets EXCEPT
          ![k] = [tokens |-> tokens - (IF tokens >= Window THEN Window ELSE 0), last |-> t]]
    <3> HIDE DEF tokens
    <3> QED BY <1>3, <2>1, <2>3, Zenon
  <2>5. admitted' = [admitted EXCEPT ![k] = @ + (IF tokens >= Window THEN 1 ELSE 0)]
    <3> HIDE DEF tokens
    <3> QED BY <1>3, <2>1, <2>2
  <2> QED BY <1>1, <2>1, <2>4, <2>5, Zenon
<1> QED BY <1>2, <1>3

\* Allow keeps the invariant: it takes what it admits, and what an older reading
\* takes back is refilled by the latest one.
LEMMA AllowInv ==
    ASSUME Inv, NEW c \in Callers, Allow(c)
    PROVE  Inv'
<1> DEFINE k == want[c]
           t == now[c]
           tokens == Refilled(BucketAt(k, t), t)
           cost == IF tokens >= Window THEN Window ELSE 0
           more == IF tokens >= Window THEN 1 ELSE 0
           top == IF t > latest[k] THEN t ELSE latest[k]
           new == [tokens |-> tokens - cost, last |-> t]
<1>1. /\ k # None
      /\ buckets' = [buckets EXCEPT ![k] = new]
      /\ admitted' = [admitted EXCEPT ![k] = @ + more]
      /\ latest' = [latest EXCEPT ![k] = top]
      /\ want' = [want EXCEPT ![c] = None]
      /\ now' = [now EXCEPT ![c] = None]
      /\ UNCHANGED <<clock, cutoff, mark>>
  BY AllowUpdates
<1>2. /\ k \in Keys /\ t \in Nat /\ t <= clock /\ clock <= t + MaxDelay
      /\ tokens \in Int /\ tokens <= Capacity /\ Level(k, t) = tokens
      /\ BucketAt(k, t) \in Bucket
  BY <1>1, AllowFinds
<1>3. /\ TypeOK /\ TimeInv /\ SolventInv /\ CreditInv
  BY DEF Inv
<1>4. cost \in Nat /\ more \in Nat /\ cost = more * Window
  BY Numbers
<1>5. top \in Nat /\ top >= t /\ top >= latest[k] /\ top <= clock /\ top <= t + MaxDelay
  BY <1>2, <1>3, Numbers DEF TypeOK, TimeInv
<1>6. tokens - cost \in Int /\ tokens - cost <= Capacity
  <2> HIDE DEF tokens, cost
  <2> QED BY <1>2, <1>4, Numbers
<1>7. new \in Bucket /\ new # None /\ new.tokens = tokens - cost /\ new.last = t
  <2>1. new \in [tokens : Int, last : Int]
    BY <1>2, <1>6
  <2>2. new # None
    BY <2>1, LimiterAssumption, Zenon
  <2> QED BY <1>2, <1>6, <2>2 DEF Bucket
<1>8. TypeOK'
  <2> HIDE DEF k, t, new, top, more
  <2>1. /\ buckets' \in [Keys -> Bucket \cup {None}]
        /\ admitted' \in [Keys -> Nat] /\ latest' \in [Keys -> Nat]
    BY <1>1, <1>2, <1>3, <1>4, <1>5, <1>7 DEF TypeOK
  <2>2. /\ want' \in [Callers -> Keys \cup {None}] /\ now' \in [Callers -> Nat \cup {None}]
    BY <1>1, <1>3, Zenon DEF TypeOK
  <2> QED BY <1>1, <1>3, <2>1, <2>2 DEF TypeOK
<1>9. TimeInv'
  <2>1. \A j \in Keys : latest'[j] <= clock
    BY <1>1, <1>2, <1>3, <1>5 DEF TypeOK, TimeInv
  <2>2. \A d \in Callers : want'[d] # None =>
          want[d] # None /\ now'[d] = now[d]
    BY <1>1, <1>3 DEF TypeOK
  <2> QED BY <1>1, <1>3, <2>1, <2>2 DEF TimeInv
<1>10. SolventInv'
  <2> SUFFICES ASSUME NEW j \in Keys PROVE SolventAt(j)'
    BY DEF SolventInv
  <2>1. CASE j # k
    <3>1. buckets'[j] = buckets[j] /\ latest'[j] = latest[j]
      BY <1>1, <1>3, <2>1 DEF TypeOK
    <3> QED BY <1>3, <3>1 DEF SolventInv, SolventAt
  <2>2. CASE j = k
    <3>1. buckets'[j] = new /\ latest'[j] = top
      BY <1>1, <1>2, <1>3, <2>2 DEF TypeOK
    <3>2. Rate * (top - t) >= 0 /\ Rate * (top - t) \in Int
      BY <1>2, <1>5, Numbers, Monotone
    <3>3. tokens + Rate * (top - t) >= 0
      BY <1>1, <1>5, RefillSolvent
    <3>4. tokens - cost + Rate * (top - t) >= 0
      <4>1. CASE tokens >= Window
        <5>1. cost = Window
          BY <4>1
        <5> HIDE DEF tokens, cost, top, t
        <5> QED BY <1>2, <3>2, <4>1, <5>1, Numbers
      <4>2. CASE ~(tokens >= Window)
        <5>1. cost = 0
          BY <4>2
        <5> HIDE DEF tokens, cost, top, t
        <5> QED BY <1>2, <3>2, <3>3, <5>1
      <4> QED BY <4>1, <4>2
    <3> HIDE DEF new, tokens, cost, top, t, k
    <3> QED BY <1>5, <1>7, <3>1, <3>4 DEF SolventAt
  <2> QED BY <2>1, <2>2
<1>11. CreditInv'
  <2> SUFFICES ASSUME NEW j \in Keys, NEW n \in Int, clock - MaxDelay <= n
               PROVE  CreditAt(j, n)'
    BY <1>1 DEF CreditInv
  <2>1. CASE j # k
    <3>1. buckets'[j] = buckets[j] /\ admitted'[j] = admitted[j]
      BY <1>1, <1>3, <2>1 DEF TypeOK
    <3>2. CreditAt(j, n)
      BY <1>3 DEF CreditInv
    <3> QED BY <1>1, <3>1, <3>2 DEF CreditAt, Level
  <2>2. CASE j = k
    <3>1. buckets'[j] = new /\ admitted'[j] = admitted[k] + more /\ admitted[k] \in Nat
      BY <1>1, <1>2, <1>3, <2>2 DEF TypeOK
    <3>2. Level(j, n)' = Refilled(new, n)
      BY <1>7, <3>1 DEF Level
    <3>3. Refilled(new, n) <= tokens - cost + Rate * (n - t)
      BY <1>2, <1>4, RefillTwice DEF Bucket
    <3>4. admitted[k] * Window + tokens <= Capacity + Rate * (t - mark + MaxDelay)
      <4>1. clock - MaxDelay <= t /\ t \in Int
        BY <1>2, <1>3, Numbers DEF TypeOK
      <4>2. CreditAt(k, t)
        BY <1>2, <1>3, <4>1 DEF CreditInv
      <4> QED BY <1>2, <4>2 DEF CreditAt
    <3>5. Rate * (n - mark + MaxDelay) = Rate * (t - mark + MaxDelay) + Rate * (n - t)
      BY <1>2, <1>3, Numbers DEF TypeOK
    <3>6. (admitted[k] + more) * Window = admitted[k] * Window + cost
      <4> HIDE DEF k, more, cost
      <4> QED BY <1>4, <3>1, Numbers
    <3>7. Refilled(new, n) \in Int
      <4> HIDE DEF new
      <4> QED BY <1>7, Numbers DEF Refilled, Bucket
    <3>8. mark' = mark /\ mark \in Nat
      BY <1>1, <1>3 DEF TypeOK
    <3> HIDE DEF new, tokens, cost, top, t, k, more
    <3>9. (admitted[k] + more) * Window + Refilled(new, n) <= Capacity + Rate * (n - mark + MaxDelay)
      <4> DEFINE x == admitted[k] * Window
                 y == Rate * (t - mark + MaxDelay)
                 z == Rate * (n - t)
                 r == Refilled(new, n)
      <4>1. x \in Int /\ y \in Int /\ z \in Int /\ r \in Int
        BY <1>2, <3>1, <3>7, <3>8, Numbers
      <4> HIDE DEF x, y, z, r
      <4>2. x + cost + r <= Capacity + (y + z)
        BY <1>2, <1>4, <3>3, <3>4, <4>1, Numbers DEF x, y, z, r
      <4> QED BY <3>5, <3>6, <4>2 DEF x, y, z, r
    <3> QED BY <3>1, <3>2, <3>8, <3>9 DEF CreditAt
  <2> QED BY <2>1, <2>2
<1> QED BY <1>8, <1>9, <1>10, <1>11 DEF Inv

\* A caller reads the clock.
LEMMA ArriveInv ==
    ASSUME Inv, NEW c \in Callers, NEW k \in Keys, Arrive(c, k)
    PROVE  Inv'
<1>0. TypeOK /\ TimeInv /\ SolventInv /\ CreditInv
  BY DEF Inv
<1>1. TypeOK'
  BY <1>0 DEF Arrive, TypeOK
<1>2. TimeInv'
  BY <1>0, Numbers DEF Arrive, TypeOK, TimeInv
<1>3. SolventInv' /\ CreditInv'
  BY <1>0 DEF Arrive, SolventInv, SolventAt, CreditInv, CreditAt, Level
<1> QED BY <1>1, <1>2, <1>3 DEF Inv

\* The sweeper computes its cutoff.
LEMMA SweepBeginInv ==
    ASSUME Inv, SweepBegin
    PROVE  Inv'
<1>0. TypeOK /\ TimeInv /\ SolventInv /\ CreditInv
  BY DEF Inv
<1>1. TypeOK'
  BY <1>0, Numbers DEF SweepBegin, TypeOK
<1>2. TimeInv'
  BY <1>0, Numbers DEF SweepBegin, TypeOK, TimeInv
<1>3. SolventInv' /\ CreditInv'
  BY <1>0 DEF SweepBegin, SolventInv, SolventAt, CreditInv, CreditAt, Level
<1> QED BY <1>1, <1>2, <1>3 DEF Inv

\* What the sweeper finds idle is full at every reading still to come.
LEMMA EvictedIsFull ==
    ASSUME Inv, SweepEnd, NEW k \in Keys, buckets[k] # None, buckets[k].last < cutoff,
           NEW n \in Int, clock - MaxDelay <= n
    PROVE  Refilled(buckets[k], n) = Capacity
<1> DEFINE b == buckets[k]
<1>1. b.tokens \in Int /\ b.last \in Int /\ latest[k] \in Nat /\ clock \in Nat
  BY DEF Inv, TypeOK, Bucket
<1>2. b.tokens + Rate * (latest[k] - b.last) >= 0 /\ latest[k] <= b.last + MaxDelay
  BY DEF Inv, SolventInv, SolventAt
<1>3. cutoff \in Int /\ cutoff <= clock - 2 * Window
  BY DEF SweepEnd, Inv, TimeInv
<1>4. n - b.last >= 2 * Window - MaxDelay
  <2>1. b.last < cutoff
    OBVIOUS
  <2> HIDE DEF b
  <2> QED BY <1>1, <1>3, <2>1, Numbers
<1>5. b.tokens + Rate * (n - b.last) >= Capacity
  <2>1. latest[k] \in Int
    BY <1>1
  <2> QED BY <1>1, <1>2, <1>4, <2>1, IdleIsFull, Zenon
<1> DEFINE sum == b.tokens + Rate * (n - b.last)
<1>6. sum \in Int /\ sum >= Capacity
  BY <1>1, <1>5, Numbers
<1>7. Refilled(b, n) = IF sum > Capacity THEN Capacity ELSE sum
  BY DEF Refilled
<1> HIDE DEF sum
<1> QED BY <1>6, <1>7, Numbers

\* So evictions keep the invariant.
LEMMA SweepEndInv ==
    ASSUME Inv, SweepEnd
    PROVE  Inv'
<1>0. /\ TypeOK /\ TimeInv /\ SolventInv /\ CreditInv
      /\ UNCHANGED <<clock, want, now, mark, admitted, latest>>
  BY DEF Inv, SweepEnd
<1>1. \A k \in Keys : \/ buckets'[k] = buckets[k]
                      \/ buckets'[k] = None /\ buckets[k] # None /\ buckets[k].last < cutoff
  BY DEF SweepEnd, Idle
<1>2. TypeOK'
  BY <1>0 DEF SweepEnd, TypeOK
<1>3. TimeInv'
  BY <1>0 DEF SweepEnd, TimeInv
<1>4. SolventInv'
  BY <1>0, <1>1 DEF SolventInv, SolventAt
<1>5. CreditInv'
  <2> SUFFICES ASSUME NEW k \in Keys, NEW n \in Int, clock - MaxDelay <= n
               PROVE  CreditAt(k, n)'
    BY <1>0 DEF CreditInv
  <2>1. CreditAt(k, n)
    BY <1>0 DEF CreditInv
  <2>2. CASE buckets'[k] = buckets[k]
    BY <1>0, <2>1, <2>2 DEF CreditAt, Level
  <2>3. CASE buckets'[k] = None /\ buckets[k] # None /\ buckets[k].last < cutoff
    <3>1. Level(k, n) = Capacity
      <4>1. Refilled(buckets[k], n) = Capacity
        BY <2>3, EvictedIsFull
      <4> QED BY <2>3, <4>1 DEF Level
    <3>2. Level(k, n)' = Capacity
      BY <2>3 DEF Level, Capacity
    <3> QED BY <1>0, <2>1, <3>1, <3>2 DEF CreditAt
  <2> QED BY <1>1, <2>2, <2>3
<1> QED BY <1>2, <1>3, <1>4, <1>5 DEF Inv

\* Time passes.
LEMMA TickInv ==
    ASSUME Inv, Tick
    PROVE  Inv'
<1>0. /\ TypeOK /\ TimeInv /\ SolventInv /\ CreditInv /\ clock \in Nat
      /\ clock' = clock + 1
      /\ UNCHANGED <<buckets, want, now, cutoff, mark, admitted, latest>>
  BY DEF Inv, TypeOK, Tick
<1>1. TypeOK'
  BY <1>0 DEF TypeOK
<1>2. TimeInv'
  <2>1. \A k \in Keys : latest'[k] <= clock'
    BY <1>0 DEF TimeInv, TypeOK
  <2>2. ASSUME NEW c \in Callers, want'[c] # None
        PROVE  now'[c] \in Nat /\ now'[c] <= clock' /\ clock' <= now'[c] + MaxDelay
    <3>1. now[c] \in Nat /\ now[c] <= clock /\ clock < now[c] + MaxDelay
      BY <1>0, <2>2 DEF TimeInv, Tick
    <3> QED BY <1>0, <3>1, Numbers
  <2>3. cutoff' # None => cutoff' \in Int /\ cutoff' <= clock' - 2 * Window
    BY <1>0, Numbers DEF TimeInv
  <2>4. mark' <= clock'
    BY <1>0 DEF TimeInv, TypeOK
  <2> QED BY <2>1, <2>2, <2>3, <2>4, Zenon DEF TimeInv
<1>3. SolventInv'
  BY <1>0 DEF SolventInv, SolventAt
<1>4. CreditInv'
  <2> SUFFICES ASSUME NEW k \in Keys, NEW n \in Int, clock' - MaxDelay <= n
               PROVE  CreditAt(k, n)'
    BY Zenon DEF CreditInv
  <2>1. clock - MaxDelay <= n
    BY <1>0, Numbers
  <2>2. CreditAt(k, n)
    BY <1>0, <2>1 DEF CreditInv
  <2> QED BY <1>0, <2>2 DEF CreditAt, Level
<1> QED BY <1>1, <1>2, <1>3, <1>4 DEF Inv

\* The observer starts over: no bucket holds more than Capacity.
LEMMA MarkInv ==
    ASSUME Inv, Mark
    PROVE  Inv'
<1>0. /\ TypeOK /\ TimeInv /\ SolventInv /\ CreditInv /\ clock \in Nat
      /\ mark' = clock /\ admitted' = [k \in Keys |-> 0]
      /\ UNCHANGED <<clock, buckets, want, now, cutoff, latest>>
  BY DEF Inv, TypeOK, Mark
<1>1. TypeOK'
  BY <1>0 DEF TypeOK
<1>2. TimeInv'
  BY <1>0 DEF TimeInv
<1>3. SolventInv'
  BY <1>0 DEF SolventInv, SolventAt
<1>4. CreditInv'
  <2> SUFFICES ASSUME NEW k \in Keys, NEW n \in Int, clock - MaxDelay <= n
               PROVE  CreditAt(k, n)'
    BY <1>0 DEF CreditInv
  <2>1. Level(k, n) \in Int /\ Level(k, n) <= Capacity
    BY <1>0, Numbers DEF Level, Refilled, TypeOK, Bucket
  <2>2. Level(k, n)' = Level(k, n) /\ admitted'[k] = 0
    BY <1>0 DEF Level
  <2>3. Rate * 0 <= Rate * (n - clock + MaxDelay)
    BY <1>0, Numbers, Monotone
  <2>4. Rate * 0 = 0 /\ 0 * Window = 0
    BY Numbers
  <2> QED BY <1>0, <2>1, <2>2, <2>3, <2>4, Numbers DEF CreditAt
<1> QED BY <1>1, <1>2, <1>3, <1>4 DEF Inv

\* Every step keeps the invariant.
LEMMA StepInv == Inv /\ [Next]_vars => Inv'
<1> SUFFICES ASSUME Inv, [Next]_vars PROVE Inv'
  OBVIOUS
<1>1. CASE UNCHANGED vars
  BY <1>1 DEF vars, Inv, TypeOK, TimeInv, SolventInv, SolventAt, CreditInv, CreditAt, Level
<1>2. ASSUME NEW c \in Callers, NEW k \in Keys, Arrive(c, k) PROVE Inv'
  BY <1>2, ArriveInv
<1>3. ASSUME NEW c \in Callers, Allow(c) PROVE Inv'
  BY <1>3, AllowInv
<1> QED BY <1>1, <1>2, <1>3, SweepBeginInv, SweepEndInv, TickInv, MarkInv, Zenon DEF Next

\* The invariant holds in every reachable state.
THEOREM Invariance == Spec => []Inv
<1> QED BY InitInv, StepInv, PTL DEF Spec
----------------------------------------------------------------------------
(***************************************************************************)
(* The theorems.                                                           *)
(***************************************************************************)

\* Type correctness of the limiter: a bucket, a reading, the sweeper's cutoff.
THEOREM LimiterTyped == Spec => []TypeOK
<1>1. Inv => TypeOK
  BY DEF Inv
<1> QED BY <1>1, Invariance, PTL

\* A bucket is not in debt at the current time.
LEMMA LevelNow ==
    ASSUME Inv, NEW k \in Keys
    PROVE  Level(k, clock) \in Int /\ Level(k, clock) >= 0
<1> DEFINE b == buckets[k]
<1>1. CASE b = None
  BY <1>1, Numbers DEF Level
<1>2. CASE b # None
  <2>1. b.tokens \in Int /\ b.last \in Int /\ latest[k] \in Nat /\ clock \in Nat
    BY <1>2 DEF Inv, TypeOK, Bucket
  <2>2. latest[k] <= clock /\ b.tokens + Rate * (latest[k] - b.last) >= 0
    BY <1>2 DEF Inv, TimeInv, SolventInv, SolventAt
  <2>3. Rate * (latest[k] - b.last) <= Rate * (clock - b.last)
    BY <2>1, <2>2, Numbers, Monotone
  <2> DEFINE sum == b.tokens + Rate * (clock - b.last)
  <2>4. sum \in Int /\ sum >= 0
    BY <2>1, <2>2, <2>3, Numbers
  <2>5. Level(k, clock) = IF sum > Capacity THEN Capacity ELSE sum
    BY <1>2 DEF Level, Refilled
  <2> HIDE DEF sum
  <2> QED BY <2>4, <2>5, Numbers
<1> QED BY <1>1, <1>2

\* Allow and gc admit no more than a full bucket and the refill of the time that
\* passed, whatever the order of the readings and the phase of the sweeper.
THEOREM AdmissionBounded == Spec => []AdmissionBound
<1>1. Inv => AdmissionBound
  <2> SUFFICES ASSUME Inv, NEW k \in Keys
               PROVE  admitted[k] * Window <= Capacity + Rate * (clock - mark + MaxDelay)
    BY DEF AdmissionBound
  <2>1. clock \in Nat /\ mark \in Nat /\ admitted[k] \in Nat
    BY DEF Inv, TypeOK
  <2>2. CreditAt(k, clock)
    <3>1. clock \in Int /\ clock - MaxDelay <= clock
      BY <2>1, Numbers
    <3> QED BY <3>1 DEF Inv, CreditInv
  <2>3. Level(k, clock) \in Int /\ Level(k, clock) >= 0
    BY LevelNow
  <2>4. admitted[k] * Window \in Int /\ Rate * (clock - mark + MaxDelay) \in Int
    BY <2>1, Numbers
  <2> QED BY <2>2, <2>3, <2>4, Numbers DEF CreditAt
<1> QED BY <1>1, Invariance, PTL

\* Allow admits a reading that comes Window/Rate after the latest one.
LEMMA SpacedAllow ==
    ASSUME Inv, NEW c \in Callers, Allow(c), Rate * (now[c] - latest[want[c]]) >= Window
    PROVE  admitted'[want[c]] = admitted[want[c]] + 1
<1> DEFINE k == want[c]
           t == now[c]
           b == BucketAt(k, t)
<1>1. /\ k # None /\ k \in Keys /\ t \in Nat /\ b \in Bucket /\ latest[k] \in Nat
      /\ Refilled(b, t) \in Int
  BY AllowFinds DEF Allow, Inv, TypeOK
<1>2. Refilled(b, t) >= Window
  <2>1. CASE Refilled(b, t) = Capacity
    BY <2>1, FullIsEnough
  <2>2. CASE Refilled(b, t) # Capacity
    <3>1. Refilled(b, t) = b.tokens + Rate * (t - b.last)
      BY <2>2 DEF Refilled
    <3>2. buckets[k] # None
      BY <1>1, <2>2, Numbers DEF Refilled, BucketAt
    <3>3. b = buckets[k] /\ b.tokens \in Int /\ b.last \in Int
      BY <1>1, <3>2 DEF BucketAt, Bucket
    <3>4. b.tokens + Rate * (latest[k] - b.last) >= 0
      BY <1>1, <3>2, <3>3 DEF Inv, SolventInv, SolventAt
    <3>5. Rate * (t - b.last) = Rate * (t - latest[k]) + Rate * (latest[k] - b.last)
      BY <1>1, <3>3, Numbers, Spans
    <3>6. Rate * (t - latest[k]) \in Int /\ Rate * (latest[k] - b.last) \in Int
      BY <1>1, <3>3, Numbers
    <3>7. Rate * (t - latest[k]) >= Window
      OBVIOUS
    <3> HIDE DEF b, t, k
    <3> QED BY <3>1, <3>3, <3>4, <3>5, <3>6, <3>7, Numbers
  <2> QED BY <2>1, <2>2
<1>3. admitted' = [admitted EXCEPT ![k] = @ + 1]
  BY <1>2 DEF Allow, Enough
<1> QED BY <1>1, <1>3 DEF Inv, TypeOK

\* Allow never refuses a request whose reading comes Window/Rate after every
\* earlier one of its key.
THEOREM SpacedAlwaysAdmitted == Spec => SpacedRequestAdmitted
<1> DEFINE Spaced == \A c \in Callers :
             want[c] # None /\ want'[c] = None
                 /\ Rate * (now[c] - latest[want[c]]) >= Window
             => admitted'[want[c]] = admitted[want[c]] + 1
<1>1. Inv /\ [Next]_vars => [Spaced]_vars
  <2> SUFFICES ASSUME Inv, Next, NEW c \in Callers, want[c] # None, want'[c] = None,
                      Rate * (now[c] - latest[want[c]]) >= Window
               PROVE  admitted'[want[c]] = admitted[want[c]] + 1
    BY Zenon
  <2>1. CASE SweepBegin \/ SweepEnd \/ Tick \/ Mark
    BY <2>1 DEF SweepBegin, SweepEnd, Tick, Mark
  <2>2. ASSUME NEW d \in Callers, NEW k \in Keys, Arrive(d, k) PROVE FALSE
    <3>1. None \notin Keys
      BY LimiterAssumption, Zenon
    <3> QED BY <2>2, <3>1 DEF Arrive, Inv, TypeOK
  <2>3. ASSUME NEW d \in Callers, Allow(d)
        PROVE  admitted'[want[c]] = admitted[want[c]] + 1
    <3>1. d = c
      BY <2>3 DEF Allow, Inv, TypeOK
    <3> QED BY <2>3, <3>1, SpacedAllow
  <2> QED BY <2>1, <2>2, <2>3, Zenon DEF Next
<1>2. Spec => [][Spaced]_vars
  BY <1>1, Invariance, PTL DEF Spec
<1> QED BY <1>2 DEF SpacedRequestAdmitted

\* The sweeper is unseen: whatever it evicts, by however late a cutoff, would have
\* been full for every reading still to be applied.
THEOREM SweeperUnseen == Spec => EvictionsUnseen
<1> DEFINE Unseen == \A k \in Keys : buckets[k] # None /\ buckets'[k] = None =>
             \A t \in (clock - MaxDelay)..MaxTime : Refilled(buckets[k], t) = Capacity
<1>1. Inv /\ [Next]_vars => [Unseen]_vars
  <2> SUFFICES ASSUME Inv, Next, NEW k \in Keys, buckets[k] # None, buckets'[k] = None,
                      NEW t \in (clock - MaxDelay)..MaxTime
               PROVE  Refilled(buckets[k], t) = Capacity
    BY Zenon
  <2>1. CASE SweepEnd
    <3>1. buckets[k].last < cutoff
      BY <2>1 DEF SweepEnd, Idle
    <3>2. t \in Int /\ clock - MaxDelay <= t
      BY Numbers, LimiterAssumption DEF Inv, TypeOK
    <3> QED BY <2>1, <3>1, <3>2, EvictedIsFull
  <2>2. ASSUME NEW c \in Callers, Allow(c) PROVE FALSE
    <3> DEFINE j == want[c]
               u == Refilled(BucketAt(j, now[c]), now[c])
               n == [tokens |-> u - (IF u >= Window THEN Window ELSE 0), last |-> now[c]]
    <3>1. j # None /\ buckets' = [buckets EXCEPT ![j] = n]
      BY <2>2, AllowUpdates
    <3>2. n \in [tokens : Int, last : Int]
      <4>1. u \in Int /\ now[c] \in Int
        BY <3>1, AllowFinds
      <4> HIDE DEF u
      <4> QED BY <4>1, Numbers
    <3>3. n # None
      BY <3>2, LimiterAssumption, Zenon
    <3> HIDE DEF n, j
    <3> QED BY <3>1, <3>3 DEF Inv, TypeOK
  <2>3. CASE SweepBegin \/ Tick \/ Mark
    BY <2>3 DEF SweepBegin, Tick, Mark
  <2>4. ASSUME NEW c \in Callers, NEW j \in Keys, Arrive(c, j) PROVE FALSE
    BY <2>4 DEF Arrive
  <2> QED BY <2>1, <2>2, <2>3, <2>4, Zenon DEF Next
<1>2. Spec => [][Unseen]_vars
  BY <1>1, Invariance, PTL DEF Spec
<1> QED BY <1>2 DEF EvictionsUnseen
=============================================================================
