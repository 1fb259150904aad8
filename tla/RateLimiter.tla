----------------------------- MODULE RateLimiter -----------------------------
(***************************************************************************)
(* RateLimiter.acquire (src/app/tooling/retry_rate_limit.py), called by    *)
(* the agent tools, which LangGraph runs in worker threads.                *)
(*                                                                         *)
(* The limiter has no lock.  The interpreter (CPython 3.11, Dockerfile)    *)
(* switches threads where the method makes a call: time.time(), int(),     *)
(* min() and time.sleep(); an action runs from one call to the next.       *)
(* Time is in ticks, and moments are kept as ages, so that no clock has to *)
(* be bounded: age is now - last_refill, since[t] is now - (t's now).      *)
(***************************************************************************)
EXTENDS Integers, Functions

CONSTANTS
    Thread,
    MaxPerInterval,   \* max_per_interval
    Interval,         \* interval_seconds, in ticks
    MaxIdle,          \* bound: the oldest age of the last refill
    MaxDelay,         \* bound: how long a thread that could run is preempted
    MaxOverdraft      \* bound: how far below zero the bucket is followed

ASSUME LimiterAssumption ==
    /\ MaxPerInterval \in Nat \ {0}
    /\ Interval \in Nat \ {0}
    /\ MaxIdle \in Nat /\ MaxIdle >= 2 * Interval
    /\ MaxDelay \in Nat /\ MaxOverdraft \in Nat \ {0}

VARIABLES
    tokens,     \* self.tokens
    age,        \* time since self.last_refill
    pc,         \* what each thread does next
    since,      \* time since the clock reading a thread holds in now
    intervals,  \* the local intervals
    filled,     \* the result of min(), not yet stored
    wait,       \* what is left of a thread's sleep
    recent,     \* ghost: how many tokens were granted a ticks ago
    overlapped  \* ghost: two calls have overlapped

vars == <<tokens, age, pc, since, intervals, filled, wait, recent, overlapped>>

Age == 0 .. Interval - 1
Step == {"idle", "elapsed", "refill", "store", "sleep", "stamp"}
Preempted(t) == pc[t] \in {"elapsed", "refill", "store", "stamp"}

TypeOK ==
    /\ tokens \in Int /\ age \in Int
    /\ pc \in [Thread -> Step]
    /\ since \in [Thread -> 0 .. MaxDelay]
    /\ intervals \in [Thread -> Int]
    /\ filled \in [Thread -> Int] /\ \A t \in Thread : filled[t] <= MaxPerInterval
    /\ wait \in [Thread -> Nat]
    /\ recent \in [Age -> Nat]
    /\ overlapped \in BOOLEAN

Init ==
    /\ tokens = MaxPerInterval /\ age = 0
    /\ pc = [t \in Thread |-> "idle"]
    /\ since = [t \in Thread |-> 0]
    /\ intervals = [t \in Thread |-> 0]
    /\ filled = [t \in Thread |-> 0]
    /\ wait = [t \in Thread |-> 0]
    /\ recent = [a \in Age |-> 0]
    /\ overlapped = FALSE

-----------------------------------------------------------------------------
Goto(t, step) == pc' = [pc EXCEPT ![t] = step]

(* acquire returns: the locals are gone.                                    *)
Return(t) ==
    /\ Goto(t, "idle")
    /\ since' = [since EXCEPT ![t] = 0]
    /\ intervals' = [intervals EXCEPT ![t] = 0]
    /\ filled' = [filled EXCEPT ![t] = 0]
    /\ recent' = [recent EXCEPT ![0] = @ + 1]

(* now = time.time() *)
Acquire(t) ==
    /\ pc[t] = "idle"
    /\ tokens > -MaxOverdraft \/ age >= Interval
    /\ Goto(t, "elapsed")
    /\ overlapped' = (overlapped \/ \E u \in Thread : pc[u] # "idle")
    /\ UNCHANGED <<tokens, age, since, intervals, filled, wait, recent>>

(* intervals = int(elapsed // self.interval_seconds); // rounds down.       *)
Elapsed(t) ==
    /\ pc[t] = "elapsed"
    /\ intervals' = [intervals EXCEPT ![t] = (age - since[t]) \div Interval]
    /\ Goto(t, "refill")
    /\ UNCHANGED <<tokens, age, since, filled, wait, recent, overlapped>>

\* mutant: the time that passed is added
SleepTooLong(t, old) == Interval + (old - since[t])
SleepFor(t, old) == Interval - (old - since[t])

(* The rest of acquire with held tokens, refilled old ticks ago: a token is *)
(* taken, or the thread sleeps until the next interval, if that is not past.*)
TakeOrWait(t, held, old) ==
    /\ age' = old /\ UNCHANGED overlapped
    /\ \/ /\ held # 0
          /\ tokens' = held - 1
          /\ Return(t)
          /\ UNCHANGED wait
       \/ /\ held = 0 /\ SleepFor(t, old) > 0
          /\ tokens' = held
          /\ wait' = [wait EXCEPT ![t] = SleepFor(t, old)]
          /\ Goto(t, "sleep")
          /\ UNCHANGED <<since, intervals, filled, recent>>
       \/ /\ held = 0 /\ SleepFor(t, old) <= 0
          /\ tokens' = MaxPerInterval
          /\ since' = [since EXCEPT ![t] = 0]
          /\ Goto(t, "stamp")
          /\ UNCHANGED <<intervals, filled, wait, recent>>

\* mutant: unused tokens are carried over
Unlimited(n) == n
Limited(n) == IF n > MaxPerInterval THEN MaxPerInterval ELSE n

(* min(...) when an interval has passed, else straight on.                  *)
Refill(t) ==
    /\ pc[t] = "refill"
    /\ \/ /\ intervals[t] > 0
          /\ filled' = [filled EXCEPT ![t] = Limited(tokens + intervals[t] * MaxPerInterval)]
          /\ Goto(t, "store")
          /\ UNCHANGED <<tokens, age, since, intervals, wait, recent, overlapped>>
       \/ intervals[t] <= 0 /\ TakeOrWait(t, tokens, age)

\* mutant: the last refill is not recorded
AgeKept(t) == age
RefillAge(t) == since[t]

(* self.tokens = ..., self.last_refill = now, and on.                       *)
Store(t) ==
    /\ pc[t] = "store"
    /\ TakeOrWait(t, filled[t], RefillAge(t))

(* After the sleep the bucket is full, whatever it was.                     *)
Wake(t) ==
    /\ pc[t] = "sleep" /\ wait[t] = 0
    /\ tokens' = MaxPerInterval
    /\ since' = [since EXCEPT ![t] = 0]
    /\ Goto(t, "stamp")
    /\ UNCHANGED <<age, intervals, filled, wait, recent, overlapped>>

(* self.last_refill = time.time(); self.tokens -= 1 *)
Stamp(t) ==
    /\ pc[t] = "stamp"
    /\ age' = RefillAge(t)
    /\ tokens' = tokens - 1
    /\ Return(t)
    /\ UNCHANGED <<wait, overlapped>>

(* A tick: sleepers have less to wait, grants get older.                    *)
Tick ==
    /\ age < MaxIdle
    /\ \A t \in Thread : Preempted(t) => since[t] < MaxDelay
    /\ age' = age + 1
    /\ since' = [t \in Thread |-> IF Preempted(t) THEN since[t] + 1 ELSE since[t]]
    /\ wait' = [t \in Thread |-> IF wait[t] > 0 THEN wait[t] - 1 ELSE 0]
    /\ recent' = [a \in Age |-> IF a = 0 THEN 0 ELSE recent[a - 1]]
    /\ UNCHANGED <<tokens, pc, intervals, filled, overlapped>>

Run(t) == Elapsed(t) \/ Refill(t) \/ Store(t) \/ Wake(t) \/ Stamp(t)
Next == Tick \/ \E t \in Thread : Acquire(t) \/ Run(t)

Spec == Init /\ [][Next]_vars

-----------------------------------------------------------------------------
(* However the threads interleave, no refill adds to what is left over, and *)
(* no thread sleeps longer than an interval after the last refill, or after *)
(* its own clock reading when that is the older one.                        *)
NeverOverfilled == tokens <= MaxPerInterval
WaitIsBounded == \A t \in Thread : wait[t] <= Interval + MaxDelay

-----------------------------------------------------------------------------
(* For calls that have not overlapped.                                      *)

(* The bucket is a bucket ("token-bucket", retry_rate_limit.py:16).         *)
BucketInRange == ~overlapped => tokens \in 0 .. MaxPerInterval

(* It serves at most two fills in any interval, one before a refill and one *)
(* after it (retry_rate_limit.py:16, "to throttle").                        *)
GrantedWithinInterval == SumFunction(recent)
RateHolds == ~overlapped => GrantedWithinInterval <= 2 * MaxPerInterval

-----------------------------------------------------------------------------
(* A promise of the repository's text that does not hold.                   *)

(* "Acquire a token, waiting if necessary" (retry_rate_limit.py:30): nobody *)
(* takes a token that is not there.                                         *)
NeverOverdrawn == tokens >= 0
=============================================================================
