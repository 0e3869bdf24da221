----------------------------- MODULE TokenBucket -----------------------------
(***************************************************************************)
(* TokenBucket::Consume                                                    *)
(* (src/infrastructure/basekit/src/algorithms/token_bucket.cpp), called    *)
(* concurrently by several threads on one bucket.                          *)
(*                                                                         *)
(* The bucket is one atomic word _time, the virtual time up to which      *)
(* tokens are spent.  A call reads the clock (Timestamp::nano), computes   *)
(* delay = tokens * _time_per_token and minTime = now - _time_per_burst,   *)
(* loads _time, shifts it up to minTime, and then loops: add delay, give   *)
(* up when that passes now, otherwise compare-and-swap _time.  A failed   *)
(* CAS (another thread won, or compare_exchange_weak failed spuriously)   *)
(* restarts from the value it observed.                                    *)
(*                                                                         *)
(* All arithmetic is uint64 in the code.  Time is scaled so that clock,   *)
(* burst and token times are small, and the words are taken modulo 2^W   *)
(* with every true value below 2^W, so a subtraction or addition wraps    *)
(* exactly where the code's does.  The constructor and the clock are in   *)
(* headers not under src/: _time starts at 0, the clock is monotonic.     *)
(***************************************************************************)
EXTENDS Integers, Functions

CONSTANTS
    Threads,        \* callers of Consume (model values)
    Tokens,         \* token counts a call may ask for
    TimePerToken,   \* _time_per_token
    TimePerBurst,   \* _time_per_burst
    W,              \* word width of the model's uint64
    ClockStart,     \* Timestamp::nano() when the bucket is first used
    MaxTime,        \* the last clock value explored
    MaxSpurious,    \* spurious CAS failures per call
    GrantCap        \* saturation of the grant history per clock value

ASSUME /\ Tokens \subseteq Nat \ {0}
       /\ TimePerToken \in Nat \ {0} /\ TimePerBurst \in Nat
       /\ ClockStart \in 0..MaxTime /\ MaxTime < 2^W

Word == 2^W
U64(n) == n % Word      \* the uint64 result of an arithmetic expression

VARIABLES
    clock,      \* Timestamp::nano()
    time,       \* _time
    pc,         \* pc[t]: idle, load (clock read) or loop
    now,        \* the locals of Consume, per thread
    delay,
    minTime,
    oldTime,
    newTime,
    spurious,   \* spurious CAS failures of the current call
    grantsAt    \* history: grantsAt[n]: tokens granted to calls that read now = n

vars == <<clock, time, pc, now, delay, minTime, oldTime, newTime, spurious,
          grantsAt>>

Times == 0..MaxTime

Init ==
    /\ clock = ClockStart
    /\ time = 0
    /\ pc = [t \in Threads |-> "idle"]
    /\ now = [t \in Threads |-> 0]
    /\ delay = [t \in Threads |-> 0]
    /\ minTime = [t \in Threads |-> 0]
    /\ oldTime = [t \in Threads |-> 0]
    /\ newTime = [t \in Threads |-> 0]
    /\ spurious = [t \in Threads |-> 0]
    /\ grantsAt = [n \in Times |-> 0]

-----------------------------------------------------------------------------
(* Variants with a plausible defect, each defined before the definition   *)
(* it could replace; the properties below must reject them.               *)

\* minTime held in a signed 64-bit integer.
MinTimeSigned(n) == n - TimePerBurst

\* The failed exchange compared against a copy: the expected value is not
\* refreshed.
ObservedStale(t) == oldTime[t]

-----------------------------------------------------------------------------
\* Line 15: minTime = now - _time_per_burst, in uint64.
MinTime(n) == U64(n - TimePerBurst)

\* Lines 13-15: read the clock, compute delay and minTime.
Begin(t, k) ==
    /\ pc[t] = "idle"
    /\ now' = [now EXCEPT ![t] = clock]
    /\ delay' = [delay EXCEPT ![t] = U64(k * TimePerToken)]
    /\ minTime' = [minTime EXCEPT ![t] = MinTime(clock)]
    /\ spurious' = [spurious EXCEPT ![t] = 0]
    /\ pc' = [pc EXCEPT ![t] = "load"]
    /\ UNCHANGED <<clock, time, oldTime, newTime, grantsAt>>

(* Lines 16-21: load _time; a consume after a long pause starts from the   *)
(* beginning of a new burst.                                               *)
Load(t) ==
    /\ pc[t] = "load"
    /\ oldTime' = [oldTime EXCEPT ![t] = time]
    /\ newTime' = [newTime EXCEPT ![t] = IF minTime[t] > time THEN minTime[t]
                                                              ELSE time]
    /\ pc' = [pc EXCEPT ![t] = "loop"]
    /\ UNCHANGED <<clock, time, now, delay, minTime, spurious, grantsAt>>

\* Line 27: newTime += delay.
Consumed(t) == U64(newTime[t] + delay[t])

\* Line 30: no more tokens left in the bucket.
OutOfTokens(t) == Consumed(t) > now[t]

\* Line 34: the value a failed compare_exchange_weak writes into oldTime.
Observed(t) == time

(* Consume returns: its locals die (reset, so that finished calls do not *)
(* multiply states).                                                       *)
Return(t) ==
    /\ pc' = [pc EXCEPT ![t] = "idle"]
    /\ now' = [now EXCEPT ![t] = 0]
    /\ delay' = [delay EXCEPT ![t] = 0]
    /\ minTime' = [minTime EXCEPT ![t] = 0]
    /\ oldTime' = [oldTime EXCEPT ![t] = 0]
    /\ newTime' = [newTime EXCEPT ![t] = 0]
    /\ spurious' = [spurious EXCEPT ![t] = 0]

(* One pass of the loop, lines 27-38: out of tokens returns false; a CAS  *)
(* that finds _time = oldTime stores the consumed time and returns true;  *)
(* a CAS that fails (another thread changed _time, or a spurious failure *)
(* of the weak exchange) loads the observed value into oldTime and        *)
(* restarts from it.                                                       *)
Attempt(t) ==
    /\ pc[t] = "loop"
    /\ \/ /\ OutOfTokens(t)
          /\ Return(t)
          /\ UNCHANGED <<time, grantsAt>>
       \/ /\ ~OutOfTokens(t)
          /\ time = oldTime[t]
          /\ time' = Consumed(t)
          /\ grantsAt' = [grantsAt EXCEPT ![now[t]] =
                             IF @ + delay[t] \div TimePerToken > GrantCap
                             THEN GrantCap ELSE @ + delay[t] \div TimePerToken]
          /\ Return(t)
       \/ /\ ~OutOfTokens(t)
          /\ \/ time # oldTime[t]
             \/ spurious[t] < MaxSpurious
          /\ spurious' = [spurious EXCEPT ![t] =
                             IF time = oldTime[t] THEN @ + 1 ELSE @]
          /\ oldTime' = [oldTime EXCEPT ![t] = Observed(t)]
          /\ newTime' = [newTime EXCEPT ![t] = Observed(t)]
          /\ UNCHANGED <<time, pc, now, delay, minTime, grantsAt>>
    /\ UNCHANGED clock

\* The clock advances.
Tick ==
    /\ clock < MaxTime
    /\ clock' = clock + 1
    /\ UNCHANGED <<time, pc, now, delay, minTime, oldTime, newTime, spurious,
                   grantsAt>>

Next ==
    \/ \E t \in Threads, k \in Tokens : Begin(t, k)
    \/ \E t \in Threads : Load(t) \/ Attempt(t)
    \/ Tick

(* A thread inside Consume runs: the OS schedules runnable threads, and   *)
(* the code holds no lock, so each of its steps is weakly fair.  Callers  *)
(* and the clock need no fairness.                                        *)
Fairness == \A t \in Threads : WF_vars(Load(t)) /\ WF_vars(Attempt(t))

Spec == Init /\ [][Next]_vars /\ Fairness

-----------------------------------------------------------------------------
TypeOK ==
    /\ clock \in Times /\ time \in 0..Word - 1
    /\ pc \in [Threads -> {"idle", "load", "loop"}]
    /\ now \in [Threads -> Times]
    /\ \A v \in {delay, minTime, oldTime, newTime} : v \in [Threads -> 0..Word - 1]
    /\ spurious \in [Threads -> 0..MaxSpurious]
    /\ grantsAt \in [Times -> 0..GrantCap]

(* Consume is lock-free: every call returns, however the other threads'  *)
(* exchanges interleave with its retries.                                 *)
ConsumeReturns == \A t \in Threads : pc[t] # "idle" ~> pc[t] = "idle"

(* The rate limit: the tokens granted to calls that read the clock within *)
(* any window [n1, n2] take at most the window plus one burst of time,    *)
(* tokens * _time_per_token <= (n2 - n1) + _time_per_burst.               *)
BurstBound ==
    \A n1, n2 \in Times :
        n1 <= n2 =>
            SumFunctionOnSet(grantsAt, n1..n2) * TimePerToken
                <= (n2 - n1) + TimePerBurst

=============================================================================
