------------------------------ MODULE RateLimit ------------------------------
(***************************************************************************)
(* The in-memory token bucket of internal/ratelimit.  Handler goroutines   *)
(* read the (monotonic) clock before they take the mutex, so readings are  *)
(* applied out of order and a bucket can be refilled by a negative amount. *)
(* A sweeper evicts buckets it finds idle, also by a reading taken before  *)
(* the mutex.                                                              *)
(*                                                                         *)
(* Tokens are counted in units of 1/Window token, so that a bucket gains   *)
(* Rate units per tick and a request costs Window units: the arithmetic of *)
(* Allow is then exact in integers (its float64 rounding is left out).     *)
(***************************************************************************)
EXTENDS Integers

CONSTANTS
    Rate,      \* tokens per window, and the capacity in tokens
    Window,    \* ticks per window
    Keys,      \* "user:..." and "ip:..." bucket keys
    Callers,   \* goroutines in Middleware
    MaxDelay,  \* most ticks a goroutine takes from time.Now() to the mutex
    MaxTime,   \* bound: last tick
    None       \* no reading, no bucket

\* New clamps rate and window; a goroutine is not held up for half a window.
ASSUME LimiterAssumption ==
    /\ Rate \in Nat \ {0}
    /\ Window \in Nat \ {0}
    /\ MaxDelay \in Nat
    /\ 2 * MaxDelay <= Window
    /\ MaxTime \in Nat
    /\ None \notin Keys
    /\ None \notin Int
    /\ None \notin [tokens : Int, last : Int]

Capacity == Rate * Window

VARIABLES
    clock,     \* the monotonic clock
    buckets,   \* key -> [tokens, last] or None
    want,      \* caller -> the key it asks for, or None
    now,       \* caller -> its clock reading, or None
    cutoff,    \* the sweeper's cutoff while it waits for the mutex, or None
    mark,      \* when an observer started to count
    admitted,  \* key -> requests admitted since then
    latest     \* key -> the latest clock reading applied to its bucket

vars == <<clock, buckets, want, now, cutoff, mark, admitted, latest>>

Bucket == [tokens : {t \in Int : t <= Capacity}, last : Int]

\* Allow, before the mutex.
Arrive(c, k) ==
    /\ want[c] = None
    /\ want' = [want EXCEPT ![c] = k]
    /\ now' = [now EXCEPT ![c] = clock]
    /\ UNCHANGED <<clock, buckets, cutoff, mark, admitted, latest>>

\* Mutant of Refilled: the elapsed time is truncated to whole windows.
RefilledTruncated(b, t) ==
    LET tokens == b.tokens + Capacity * ((t - b.last) \div Window)
    IN  IF tokens > Capacity THEN Capacity ELSE tokens

\* The tokens of bucket b when it is refilled up to time t, at most Capacity.
Refilled(b, t) ==
    LET tokens == b.tokens + Rate * (t - b.last)
    IN  IF tokens > Capacity THEN Capacity ELSE tokens

\* The bucket of a key, created full if there is none.
BucketAt(k, t) == IF buckets[k] = None THEN [tokens |-> Capacity, last |-> t] ELSE buckets[k]

\* Is there a token to take?
Enough(tokens) == tokens >= Window

\* Allow, under the mutex.
Allow(c) ==
    LET k == want[c]
        tokens == Refilled(BucketAt(k, now[c]), now[c])
    IN  /\ k # None
        /\ IF Enough(tokens)
           THEN /\ buckets' = [buckets EXCEPT ![k] = [tokens |-> tokens - Window, last |-> now[c]]]
                /\ admitted' = [admitted EXCEPT ![k] = @ + 1]
           ELSE /\ buckets' = [buckets EXCEPT ![k] = [tokens |-> tokens, last |-> now[c]]]
                /\ UNCHANGED admitted
        /\ latest' = [latest EXCEPT ![k] = IF now[c] > @ THEN now[c] ELSE @]
        /\ want' = [want EXCEPT ![c] = None]
        /\ now' = [now EXCEPT ![c] = None]
        /\ UNCHANGED <<clock, cutoff, mark>>

\* gc: the ticker fires (its phase is arbitrary) ...
SweepBegin ==
    /\ cutoff = None
    /\ cutoff' = clock - 2 * Window
    /\ UNCHANGED <<clock, buckets, want, now, mark, admitted, latest>>

\* Mutant of Idle: evicts after one window.
IdleOneWindow(b) == b.last < cutoff + Window

Idle(b) == b.last < cutoff

\* ... and evicts under the mutex.
SweepEnd ==
    /\ cutoff # None
    /\ buckets' = [k \in Keys |-> IF buckets[k] # None /\ Idle(buckets[k])
                                 THEN None ELSE buckets[k]]
    /\ cutoff' = None
    /\ UNCHANGED <<clock, want, now, mark, admitted, latest>>

\* Time passes, but no goroutine waits for the mutex longer than MaxDelay.
Tick ==
    /\ clock < MaxTime
    /\ \A c \in Callers : want[c] # None => clock < now[c] + MaxDelay
    /\ clock' = clock + 1
    /\ UNCHANGED <<buckets, want, now, cutoff, mark, admitted, latest>>

\* The observer starts counting, at any time.
Mark ==
    /\ mark' = clock
    /\ admitted' = [k \in Keys |-> 0]
    /\ UNCHANGED <<clock, buckets, want, now, cutoff, latest>>

Init ==
    /\ clock = 0
    /\ buckets = [k \in Keys |-> None]
    /\ want = [c \in Callers |-> None]
    /\ now = [c \in Callers |-> None]
    /\ cutoff = None
    /\ mark = 0
    /\ admitted = [k \in Keys |-> 0]
    /\ latest = [k \in Keys |-> 0]

Next ==
    \/ \E c \in Callers : (\E k \in Keys : Arrive(c, k)) \/ Allow(c)
    \/ SweepBegin \/ SweepEnd \/ Tick \/ Mark

Spec == Init /\ [][Next]_vars
----------------------------------------------------------------------------
TypeOK ==
    /\ clock \in Nat
    /\ buckets \in [Keys -> Bucket \cup {None}]
    /\ want \in [Callers -> Keys \cup {None}]
    /\ now \in [Callers -> Nat \cup {None}]
    /\ cutoff \in Int \cup {None}
    /\ mark \in Nat
    /\ admitted \in [Keys -> Nat]
    /\ latest \in [Keys -> Nat]

\* From any moment on, a key is admitted at most Rate requests at once plus Rate
\* per Window that passed, counting the time a goroutine may have been delayed:
\* neither readings applied out of order nor evictions mint tokens (Allow, gc).
AdmissionBound ==
    \A k \in Keys :
        admitted[k] * Window <= Capacity + Rate * (clock - mark + MaxDelay)

\* Nobody gains or loses a request by the sweeper: it evicts a bucket only when
\* every reading still to be applied, the delayed ones included, would have found
\* it full, as the bucket that replaces it will be (gc, Allow).
EvictionsUnseen ==
    [][\A k \in Keys : buckets[k] # None /\ buckets'[k] = None =>
          \A t \in (clock - MaxDelay)..MaxTime : Refilled(buckets[k], t) = Capacity]_vars

\* A request whose reading is Window/Rate after every earlier one of its key is
\* admitted, whatever order the earlier ones were applied in: a client that
\* spaces its requests, or waits as Retry-After tells it to, is never refused.
SpacedRequestAdmitted ==
    [][\A c \in Callers :
          want[c] # None /\ want'[c] = None
              /\ Rate * (now[c] - latest[want[c]]) >= Window
          => admitted'[want[c]] = admitted[want[c]] + 1]_vars
=============================================================================
