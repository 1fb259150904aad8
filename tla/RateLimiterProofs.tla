-------------------------- MODULE RateLimiterProofs --------------------------
(***************************************************************************)
(* Theorems about the rate limiter, for any number of threads, any rate    *)
(* and any interval.                                                       *)
(***************************************************************************)
EXTENDS RateLimiter, FiniteSetTheorems, WellFoundedInduction, TLAPS

LEMMA LimiterInitType == Init => TypeOK /\ NeverOverfilled
<1> SUFFICES ASSUME Init PROVE TypeOK /\ NeverOverfilled
  OBVIOUS
<1>1. /\ tokens \in Int /\ age \in Int /\ NeverOverfilled
      /\ \A t \in Thread : filled[t] <= MaxPerInterval
  BY LimiterAssumption DEF Init, NeverOverfilled
<1>2. /\ since \in [Thread -> 0 .. MaxDelay]
      /\ intervals \in [Thread -> Int] /\ filled \in [Thread -> Int]
      /\ wait \in [Thread -> Nat] /\ recent \in [Age -> Nat]
  BY LimiterAssumption DEF Init
<1>3. pc \in [Thread -> Step]
  BY DEF Init, Step
<1>4. overlapped \in BOOLEAN
  BY DEF Init
<1>5. QED BY <1>1, <1>2, <1>3, <1>4 DEF TypeOK

LEMMA LimitedType ==
    ASSUME NEW n \in Int
    PROVE  Limited(n) \in Int /\ Limited(n) <= MaxPerInterval /\ Limited(n) <= n
BY LimiterAssumption DEF Limited

(* Division rounds down: a whole number of intervals.                       *)
LEMMA IntervalsType ==
    ASSUME NEW n \in Int
    PROVE  n \div Interval \in Int /\ (n \div Interval > 0 => n >= Interval)
BY LimiterAssumption

LEMMA ReturnType ==
    ASSUME TypeOK, NEW t \in Thread, Return(t)
    PROVE  /\ pc' \in [Thread -> Step]
           /\ since' \in [Thread -> 0 .. MaxDelay]
           /\ intervals' \in [Thread -> Int]
           /\ filled' \in [Thread -> Int] /\ \A u \in Thread : filled'[u] <= MaxPerInterval
           /\ recent' \in [Age -> Nat]
<1>1. 0 \in 0 .. MaxDelay /\ 0 \in Age /\ 0 <= MaxPerInterval
  BY LimiterAssumption DEF Age
<1>2. pc' \in [Thread -> Step]
  BY DEF Return, Goto, Step, TypeOK
<1>3. /\ since' \in [Thread -> 0 .. MaxDelay]
      /\ intervals' \in [Thread -> Int]
      /\ filled' \in [Thread -> Int] /\ \A u \in Thread : filled'[u] <= MaxPerInterval
  BY <1>1 DEF Return, TypeOK
<1>4. recent' \in [Age -> Nat]
  BY <1>1 DEF Return, TypeOK
<1>5. QED BY <1>2, <1>3, <1>4

LEMMA TakeOrWaitType ==
    ASSUME TypeOK, NEW t \in Thread, NEW held \in Int, NEW old \in Int,
           held <= MaxPerInterval, TakeOrWait(t, held, old)
    PROVE  TypeOK' /\ NeverOverfilled'
<1>1. SleepFor(t, old) \in Int
  BY LimiterAssumption DEF SleepFor, TypeOK
<1>0. overlapped' \in BOOLEAN
  BY DEF TakeOrWait, TypeOK
<1>2. CASE held # 0 /\ tokens' = held - 1 /\ Return(t) /\ UNCHANGED wait
  <2>1. age' \in Int /\ tokens' \in Int /\ NeverOverfilled'
    BY <1>2, LimiterAssumption DEF TakeOrWait, NeverOverfilled
  <2>2. QED BY <1>0, <1>2, <2>1, ReturnType DEF TypeOK
<1>3. CASE /\ SleepFor(t, old) > 0 /\ tokens' = held /\ Goto(t, "sleep")
           /\ wait' = [wait EXCEPT ![t] = SleepFor(t, old)]
           /\ UNCHANGED <<since, intervals, filled, recent>>
  <2>1. age' \in Int /\ tokens' \in Int /\ NeverOverfilled'
    BY <1>3, LimiterAssumption DEF TakeOrWait, NeverOverfilled
  <2>2. wait' \in [Thread -> Nat]
    BY <1>1, <1>3 DEF TypeOK
  <2>3. pc' \in [Thread -> Step]
    BY <1>3 DEF Goto, Step, TypeOK
  <2>4. QED BY <1>0, <1>3, <2>1, <2>2, <2>3 DEF TypeOK
<1>4. CASE /\ tokens' = MaxPerInterval /\ since' = [since EXCEPT ![t] = 0]
           /\ Goto(t, "stamp") /\ UNCHANGED <<intervals, filled, wait, recent>>
  <2>1. age' \in Int /\ tokens' \in Int /\ NeverOverfilled'
    BY <1>4, LimiterAssumption DEF TakeOrWait, NeverOverfilled
  <2>2. since' \in [Thread -> 0 .. MaxDelay]
    BY <1>4, LimiterAssumption DEF TypeOK
  <2>3. pc' \in [Thread -> Step]
    BY <1>4 DEF Goto, Step, TypeOK
  <2>4. QED BY <1>0, <1>4, <2>1, <2>2, <2>3 DEF TypeOK
<1>5. QED BY <1>2, <1>3, <1>4 DEF TakeOrWait

LEMMA LimiterStepType ==
    TypeOK /\ NeverOverfilled /\ [Next]_vars => TypeOK' /\ NeverOverfilled'
<1> SUFFICES ASSUME TypeOK, NeverOverfilled, [Next]_vars PROVE TypeOK' /\ NeverOverfilled'
  OBVIOUS
<1>1. ASSUME NEW t \in Thread, Acquire(t) PROVE TypeOK' /\ NeverOverfilled'
  BY <1>1 DEF Acquire, Goto, Step, TypeOK, NeverOverfilled
<1>2. ASSUME NEW t \in Thread, Elapsed(t) PROVE TypeOK' /\ NeverOverfilled'
  <2>1. age - since[t] \in Int
    BY LimiterAssumption DEF TypeOK
  <2>2. intervals' \in [Thread -> Int]
    BY <1>2, <2>1, IntervalsType DEF Elapsed, TypeOK
  <2>3. QED BY <1>2, <2>2 DEF Elapsed, Goto, Step, TypeOK, NeverOverfilled
<1>3. ASSUME NEW t \in Thread, Refill(t) PROVE TypeOK' /\ NeverOverfilled'
  <2>1. CASE TakeOrWait(t, tokens, age)
    BY <2>1, TakeOrWaitType DEF TypeOK, NeverOverfilled
  <2>2. CASE ~TakeOrWait(t, tokens, age)
    <3> DEFINE n == tokens + intervals[t] * MaxPerInterval
    <3>1. n \in Int
      BY LimiterAssumption DEF TypeOK
    <3>2. filled' \in [Thread -> Int] /\ \A u \in Thread : filled'[u] <= MaxPerInterval
      BY <1>3, <2>2, <3>1, LimitedType DEF Refill, TypeOK
    <3>3. QED BY <1>3, <2>2, <3>2 DEF Refill, Goto, Step, TypeOK, NeverOverfilled
  <2>3. QED BY <2>1, <2>2
<1>4. ASSUME NEW t \in Thread, Store(t) PROVE TypeOK' /\ NeverOverfilled'
  <2>1. filled[t] \in Int /\ filled[t] <= MaxPerInterval /\ RefillAge(t) \in Int
    BY LimiterAssumption DEF TypeOK, RefillAge
  <2>2. QED BY <1>4, <2>1, TakeOrWaitType DEF Store
<1>5. ASSUME NEW t \in Thread, Wake(t) PROVE TypeOK' /\ NeverOverfilled'
  <2>1. since' \in [Thread -> 0 .. MaxDelay] /\ tokens' \in Int /\ NeverOverfilled'
    BY <1>5, LimiterAssumption DEF Wake, TypeOK, NeverOverfilled
  <2>2. QED BY <1>5, <2>1 DEF Wake, Goto, Step, TypeOK
<1>6. ASSUME NEW t \in Thread, Stamp(t) PROVE TypeOK' /\ NeverOverfilled'
  <2>1. age' \in Int /\ tokens' \in Int /\ NeverOverfilled' /\ wait' = wait
    BY <1>6, LimiterAssumption DEF Stamp, RefillAge, TypeOK, NeverOverfilled
  <2>2. QED BY <1>6, <2>1, ReturnType DEF Stamp, TypeOK
<1>7. CASE Tick
  <2>1. since' \in [Thread -> 0 .. MaxDelay]
    BY <1>7, LimiterAssumption DEF Tick, TypeOK
  <2>2. wait' \in [Thread -> Nat] /\ recent' \in [Age -> Nat]
    BY <1>7, LimiterAssumption DEF Tick, TypeOK, Age
  <2>3. QED BY <1>7, <2>1, <2>2 DEF Tick, TypeOK, NeverOverfilled
<1>8. CASE UNCHANGED vars
  BY <1>8 DEF vars, TypeOK, NeverOverfilled
<1>9. QED BY <1>1, <1>2, <1>3, <1>4, <1>5, <1>6, <1>7, <1>8 DEF Next, Run

(* However many threads call it without a lock, a refill never adds to what *)
(* is left in the bucket (retry_rate_limit.py:36-39, 46).                   *)
THEOREM BucketNeverOverfilled == Spec => [](TypeOK /\ NeverOverfilled)
BY LimiterInitType, LimiterStepType, PTL DEF Spec

-----------------------------------------------------------------------------
(* No thread sleeps for long.                                               *)

(* What a sleep depends on: the last refill is never in the future.         *)
WaitInv == age >= 0 /\ WaitIsBounded

LEMMA TakeOrWaitWaits ==
    ASSUME TypeOK, WaitInv, NEW t \in Thread, NEW held \in Int, NEW old \in Nat,
           TakeOrWait(t, held, old)
    PROVE  WaitInv'
<1>1. SleepFor(t, old) \in Int /\ SleepFor(t, old) <= Interval + MaxDelay
  BY LimiterAssumption DEF SleepFor, TypeOK
<1>2. \/ wait' = wait
      \/ wait' = [wait EXCEPT ![t] = SleepFor(t, old)]
  BY DEF TakeOrWait
<1>3. WaitIsBounded'
  BY <1>1, <1>2 DEF WaitInv, WaitIsBounded, TypeOK
<1>4. QED BY <1>3 DEF WaitInv, TakeOrWait

LEMMA WaitStep == TypeOK /\ WaitInv /\ [Next]_vars => WaitInv'
<1> SUFFICES ASSUME TypeOK, WaitInv, [Next]_vars PROVE WaitInv'
  OBVIOUS
<1>1. \A t \in Thread : RefillAge(t) \in Nat
  BY LimiterAssumption DEF RefillAge, TypeOK
<1>2. ASSUME NEW t \in Thread, Acquire(t) \/ Elapsed(t) \/ Wake(t) PROVE WaitInv'
  BY <1>2 DEF Acquire, Elapsed, Wake, WaitInv, WaitIsBounded
<1>3. ASSUME NEW t \in Thread, Refill(t) PROVE WaitInv'
  <2>1. CASE TakeOrWait(t, tokens, age)
    <3>1. tokens \in Int /\ age \in Nat
      BY DEF TypeOK, WaitInv
    <3>2. QED BY <2>1, <3>1, TakeOrWaitWaits
  <2>2. CASE ~TakeOrWait(t, tokens, age)
    BY <1>3, <2>2 DEF Refill, WaitInv, WaitIsBounded
  <2>3. QED BY <2>1, <2>2
<1>4. ASSUME NEW t \in Thread, Store(t) PROVE WaitInv'
  BY <1>1, <1>4, TakeOrWaitWaits DEF Store, TypeOK
<1>5. ASSUME NEW t \in Thread, Stamp(t) PROVE WaitInv'
  BY <1>1, <1>5 DEF Stamp, WaitInv, WaitIsBounded
<1>6. CASE Tick
  BY <1>6, LimiterAssumption DEF Tick, TypeOK, WaitInv, WaitIsBounded
<1>7. CASE UNCHANGED vars
  BY <1>7 DEF vars, WaitInv, WaitIsBounded
<1>8. QED BY <1>2, <1>3, <1>4, <1>5, <1>6, <1>7 DEF Next, Run

(* However the threads interleave, no thread sleeps longer than an interval *)
(* and the time its clock reading is old (retry_rate_limit.py:44): time     *)
(* that has passed since the last refill is only ever taken off the sleep.  *)
THEOREM SleepIsBounded == Spec => []WaitIsBounded
<1>1. Init => WaitInv
  BY LimiterAssumption DEF Init, WaitInv, WaitIsBounded
<1>2. WaitInv => WaitIsBounded
  BY DEF WaitInv
<1>3. QED BY <1>1, <1>2, WaitStep, LimiterInitType, LimiterStepType, PTL DEF Spec

-----------------------------------------------------------------------------
(* Calls that have not overlapped.                                          *)

(* One thread at most is in a call, and what it holds is worth a token.     *)
OneCaller == \A t, u \in Thread : pc[t] # "idle" /\ pc[u] # "idle" => t = u
BucketInv ==
    /\ OneCaller
    /\ tokens >= 0
    /\ \A t \in Thread : pc[t] = "store" => filled[t] >= 1
    /\ \A t \in Thread : pc[t] = "stamp" => tokens >= 1

LEMMA TakeOrWaitKeeps ==
    ASSUME TypeOK, OneCaller, NEW t \in Thread, pc[t] # "idle",
           NEW held \in Nat, NEW old \in Int, TakeOrWait(t, held, old)
    PROVE  BucketInv'
<1>1. \A u \in Thread : u # t => pc[u] = "idle"
  BY DEF OneCaller
<1>2. PICK step \in {"idle", "sleep", "stamp"} :
         /\ pc' = [pc EXCEPT ![t] = step]
         /\ tokens' \in Nat
         /\ step = "stamp" => tokens' >= 1
  BY LimiterAssumption DEF TakeOrWait, Return, Goto
<1>3. QED BY <1>1, <1>2 DEF BucketInv, OneCaller, TypeOK

LEMMA BucketStep ==
    TypeOK /\ BucketInv /\ ~overlapped' /\ [Next]_vars => BucketInv'
<1> SUFFICES ASSUME TypeOK, BucketInv, ~overlapped', [Next]_vars PROVE BucketInv'
  OBVIOUS
<1>1. ASSUME NEW t \in Thread, Acquire(t) PROVE BucketInv'
  <2>1. \A u \in Thread : pc[u] = "idle"
    BY <1>1 DEF Acquire
  <2>2. QED BY <1>1, <2>1 DEF Acquire, Goto, BucketInv, OneCaller, TypeOK
<1>2. ASSUME NEW t \in Thread, Elapsed(t) PROVE BucketInv'
  BY <1>2 DEF Elapsed, Goto, BucketInv, OneCaller, TypeOK
<1>3. ASSUME NEW t \in Thread, Refill(t) PROVE BucketInv'
  <2>1. CASE TakeOrWait(t, tokens, age)
    BY <1>3, <2>1, TakeOrWaitKeeps DEF Refill, BucketInv, TypeOK
  <2>2. CASE ~TakeOrWait(t, tokens, age)
    <3>1. intervals[t] \in Int /\ intervals[t] >= 1
      BY <1>3, <2>2 DEF Refill, TypeOK
    <3>2. tokens + intervals[t] * MaxPerInterval >= 1
      BY <3>1, LimiterAssumption DEF BucketInv, TypeOK
    <3>3. Limited(tokens + intervals[t] * MaxPerInterval) >= 1
      BY <3>2, LimiterAssumption DEF Limited
    <3>4. /\ pc' = [pc EXCEPT ![t] = "store"] /\ tokens' = tokens
          /\ filled' = [filled EXCEPT ![t] = Limited(tokens + intervals[t] * MaxPerInterval)]
      BY <1>3, <2>2 DEF Refill, Goto
    <3>5. OneCaller'
      BY <1>3, <3>4 DEF Refill, BucketInv, OneCaller, TypeOK
    <3>6. QED BY <3>3, <3>4, <3>5 DEF BucketInv, TypeOK
  <2>3. QED BY <2>1, <2>2
<1>4. ASSUME NEW t \in Thread, Store(t) PROVE BucketInv'
  <2>1. filled[t] \in Nat /\ RefillAge(t) \in Int
    BY <1>4, LimiterAssumption DEF Store, BucketInv, TypeOK, RefillAge
  <2>2. QED BY <1>4, <2>1, TakeOrWaitKeeps DEF Store, BucketInv
<1>5. ASSUME NEW t \in Thread, Wake(t) PROVE BucketInv'
  BY <1>5, LimiterAssumption DEF Wake, Goto, BucketInv, OneCaller, TypeOK
<1>6. ASSUME NEW t \in Thread, Stamp(t) PROVE BucketInv'
  <2>1. tokens' >= 0 /\ \A u \in Thread : pc'[u] = "idle"
    BY <1>6 DEF Stamp, Return, Goto, BucketInv, OneCaller, TypeOK
  <2>2. QED BY <2>1 DEF BucketInv, OneCaller
<1>7. CASE Tick
  BY <1>7 DEF Tick, BucketInv, OneCaller
<1>8. CASE UNCHANGED vars
  BY <1>8 DEF vars, BucketInv, OneCaller
<1>9. QED BY <1>1, <1>2, <1>3, <1>4, <1>5, <1>6, <1>7, <1>8 DEF Next, Run

(* Calls that have overlapped have done so for good.                        *)
LEMMA OverlapStays == TypeOK /\ [Next]_vars /\ ~overlapped' => ~overlapped
<1> SUFFICES ASSUME TypeOK, [Next]_vars, ~overlapped' PROVE ~overlapped
  OBVIOUS
<1>1. ASSUME NEW t \in Thread, Acquire(t) PROVE ~overlapped
  BY <1>1 DEF Acquire
<1>2. ASSUME NEW t \in Thread, Run(t) PROVE overlapped' = overlapped
  BY <1>2 DEF Run, Elapsed, Refill, Store, TakeOrWait, Wake, Stamp
<1>3. CASE Tick \/ UNCHANGED vars
  BY <1>3 DEF Tick, vars
<1>4. QED BY <1>1, <1>2, <1>3 DEF Next

(* As long as calls do not overlap, the bucket is never overdrawn           *)
(* (retry_rate_limit.py:42, the test for an empty bucket, is enough).       *)
THEOREM BucketKeepsItsRange == Spec => []BucketInRange
<1> DEFINE Inv == ~overlapped => BucketInv
<1>1. Init => Inv
  BY LimiterAssumption DEF Init, BucketInv, OneCaller
<1>2. TypeOK /\ Inv /\ [Next]_vars => Inv'
  BY BucketStep, OverlapStays
<1>3. TypeOK /\ NeverOverfilled /\ Inv => BucketInRange
  BY LimiterAssumption DEF BucketInRange, BucketInv, TypeOK, NeverOverfilled
<1> HIDE DEF Inv
<1>4. QED BY <1>1, <1>2, <1>3, BucketNeverOverfilled, PTL DEF Spec

-----------------------------------------------------------------------------
(* Sums over a finite set.  SumFunction of the community modules is a fold, *)
(* whose definition is a CHOOSE of a recursive function on sets: the lemmas *)
(* show that the function exists, that the order of the elements does not   *)
(* matter, and that a sum over 0 .. n - 1 is what adding up from 0 gives.   *)

(* Induction up to n, on the set X of the numbers it holds for: the least   *)
(* number outside X would have a predecessor in it.                         *)
LEMMA UpTo ==
    ASSUME NEW n \in Nat, NEW X, 0 \in X, \A k \in 0 .. n - 1 : k \in X => k + 1 \in X
    PROVE  0 .. n \subseteq X
<1> DEFINE T == {k \in 0 .. n : k \notin X}
<1>1. SUFFICES ASSUME T # {} PROVE FALSE
  OBVIOUS
<1>2. T \subseteq Nat
  OBVIOUS
<1> DEFINE R == {ss \in Nat \X Nat : ss[1] < ss[2]}
<1>3. IsWellFoundedOn(R, Nat)
  BY NatLessThanWellFounded, Zenon DEF OpToRel
<1>4. PICK k \in T : \A j \in T : ~(<<j, k>> \in R)
  <2> HIDE DEF R, T
  <2>1. QED BY <1>1, <1>2, <1>3, WFMin
<1>5. \A j \in T : ~(j < k)
  BY <1>2, <1>4
<1>6. k # 0 /\ k - 1 \in 0 .. n - 1 /\ k - 1 < k
  OBVIOUS
<1>7. k - 1 \in X
  BY <1>5, <1>6
<1>8. QED BY <1>6, <1>7

(* The fold takes an element it picks and goes on with the others.          *)
Pick(s) == CHOOSE x \in s : TRUE
SumBody(f, g, s) == IF s = {} THEN 0 ELSE f[Pick(s)] + g[s \ {Pick(s)}]

(* What is left of a finite set is smaller by one.                          *)
LEMMA PickOne ==
    ASSUME NEW S, IsFiniteSet(S), NEW s \in SUBSET S, s # {}
    PROVE  /\ Pick(s) \in s
           /\ IsFiniteSet(s) /\ Cardinality(s) \in Nat \ {0}
           /\ \A x \in s : /\ IsFiniteSet(s \ {x})
                           /\ Cardinality(s \ {x}) = Cardinality(s) - 1
<1>1. Pick(s) \in s
  BY DEF Pick
<1>2. IsFiniteSet(s)
  BY FS_Subset
<1>3. QED BY <1>1, <1>2, FS_RemoveElement, FS_EmptySet, FS_CardinalityType

(* The recursive function the fold chooses exists: it is built for the sets *)
(* of at most n elements, by induction on n.                                *)
LEMMA SumExists ==
    ASSUME NEW S, IsFiniteSet(S), NEW f
    PROVE  \E g : g = [s \in SUBSET S |-> SumBody(f, g, s)]
<1> DEFINE D(n) == {s \in SUBSET S : Cardinality(s) <= n}
           X == {n \in Nat : \E g : g = [s \in D(n) |-> SumBody(f, g, s)]}
<1>1. 0 \in X
  <2>1. \A s \in D(0) : s = {}
    BY PickOne
  <2>2. [s \in D(0) |-> 0] = [s \in D(0) |-> SumBody(f, [t \in D(0) |-> 0], s)]
    BY <2>1 DEF SumBody
  <2>3. QED BY <2>2
<1>2. ASSUME NEW n \in Nat, n \in X PROVE n + 1 \in X
  <2>1. PICK g : g = [s \in D(n) |-> SumBody(f, g, s)]
    BY <1>2
  <2> DEFINE h == [s \in D(n + 1) |-> SumBody(f, g, s)]
  <2>2. ASSUME NEW s \in D(n + 1) PROVE h[s] = SumBody(f, h, s)
    <3>1. CASE s = {}
      BY <3>1 DEF SumBody
    <3>2. CASE s # {}
      <4> DEFINE r == s \ {Pick(s)}
      <4>1. r \in D(n) /\ r \in D(n + 1)
        BY <1>2, <3>2, PickOne
      <4>2. h[r] = SumBody(f, g, r) /\ g[r] = SumBody(f, g, r)
        BY <2>1, <4>1
      <4>3. QED BY <3>2, <4>2 DEF SumBody
    <3>3. QED BY <3>1, <3>2
  <2>3. h = [s \in D(n + 1) |-> SumBody(f, h, s)]
    BY <2>2
  <2> HIDE DEF h, D
  <2>4. \E e : e = [s \in D(n + 1) |-> SumBody(f, e, s)]
    BY <2>3
  <2>5. n + 1 \in Nat
    OBVIOUS
  <2>6. QED BY <2>4, <2>5, Zenon
<1>3. Cardinality(S) \in Nat
  BY FS_CardinalityType
<1> HIDE DEF X
<1>4. Cardinality(S) \in X
  BY <1>1, <1>2, <1>3, UpTo
<1>5. D(Cardinality(S)) = SUBSET S
  BY FS_Subset
<1>6. QED BY <1>4, <1>5 DEF X

(* So the sum over S is the value at S of a function g that unfolds.        *)
IsSum(g, f, S) == g = [s \in SUBSET S |-> SumBody(f, g, s)]

LEMMA SumUnfolds ==
    ASSUME NEW S, IsFiniteSet(S), NEW f
    PROVE  \E g : IsSum(g, f, S) /\ SumFunctionOnSet(f, S) = g[S]
<1> DEFINE iter == CHOOSE g : g = [s \in SUBSET S |-> SumBody(f, g, s)]
<1>1. iter = [s \in SUBSET S |-> SumBody(f, iter, s)]
  BY SumExists
<1>2. SumFunctionOnSet(f, S) = iter[S]
  BY DEF SumFunctionOnSet, FoldFunctionOnSet, MapThenFoldSet, SumBody, Pick
<1>3. QED BY <1>1, <1>2 DEF IsSum

(* Induction on a finite set, on the set G of the subsets it holds for.     *)
LEMMA SubsetInduction ==
    ASSUME NEW S, IsFiniteSet(S), NEW G, {} \in G,
           \A s \in SUBSET S : s # {} /\ (\A x \in s : s \ {x} \in G) => s \in G
    PROVE  SUBSET S \subseteq G
<1> DEFINE D(n) == {s \in SUBSET S : Cardinality(s) <= n}
           X == {n \in Nat : D(n) \subseteq G}
<1>1. 0 \in X
  <2>1. \A s \in D(0) : s = {}
    BY PickOne
  <2>2. QED BY <2>1
<1>2. ASSUME NEW n \in Nat, n \in X PROVE n + 1 \in X
  <2>1. ASSUME NEW s \in D(n + 1), s # {} PROVE s \in G
    <3>1. \A x \in s : s \ {x} \in D(n)
      BY <2>1, PickOne
    <3>2. QED BY <1>2, <2>1, <3>1
  <2>2. \A s \in D(n + 1) : s \in G
    BY <2>1
  <2> HIDE DEF D
  <2>3. n + 1 \in Nat /\ D(n + 1) \subseteq G
    BY <2>2
  <2>4. QED BY <2>3
<1>3. ASSUME NEW s \in SUBSET S PROVE s \in G
  <2>1. Cardinality(s) \in Nat
    BY FS_Subset, FS_CardinalityType
  <2> HIDE DEF X
  <2>2. Cardinality(s) \in X
    BY <1>1, <1>2, <2>1, UpTo
  <2> HIDE DEF D
  <2>3. D(Cardinality(s)) \subseteq G
    BY <2>2 DEF X
  <2>4. s \in D(Cardinality(s))
    BY <2>1 DEF D
  <2>5. QED BY <2>3, <2>4
<1>4. QED BY <1>3

(* Any element may be the one that is taken first.                          *)
AnyOrder(g, f, S) ==
    /\ g[{}] = 0
    /\ \A s \in SUBSET S : g[s] \in Nat
    /\ \A s \in SUBSET S : \A x \in s : g[s] = f[x] + g[s \ {x}]

(* Taking x before y or y before x leaves the same set with the same sum.   *)
LEMMA SumAnyOrder ==
    ASSUME NEW S, IsFiniteSet(S), NEW f, \A x \in S : f[x] \in Nat, NEW g, IsSum(g, f, S)
    PROVE  AnyOrder(g, f, S)
<1> DEFINE Good(s) == g[s] \in Nat /\ \A x \in s : g[s \ {x}] \in Nat /\ g[s] = f[x] + g[s \ {x}]
           G == {s \in SUBSET S : Good(s)}
<1>1. g[{}] = 0
  BY DEF IsSum, SumBody
<1>2. {} \in G
  BY <1>1
<1>3. ASSUME NEW s \in SUBSET S, s # {}, \A x \in s : s \ {x} \in G PROVE s \in G
  <2> DEFINE y == Pick(s)
  <2>1. y \in s
    BY <1>3, PickOne
  <2>2. g[s] = f[y] + g[s \ {y}]
    BY <1>3 DEF IsSum, SumBody
  <2>3. \A x \in s : Good(s \ {x}) /\ f[x] \in Nat
    BY <1>3
  <2> HIDE DEF y
  <2>4. ASSUME NEW x \in s, x # y PROVE g[s] = f[x] + g[s \ {x}]
    <3> DEFINE r == (s \ {y}) \ {x}
    <3>1. g[s \ {y}] = f[x] + g[r] /\ g[r] \in Nat
      BY <2>1, <2>3, <2>4
    <3>2. r = (s \ {x}) \ {y}
      OBVIOUS
    <3> HIDE DEF r
    <3>3. g[s \ {x}] = f[y] + g[r]
      BY <2>1, <2>3, <2>4, <3>2
    <3>4. f[x] \in Nat /\ f[y] \in Nat
      BY <2>1, <2>3
    <3>5. QED BY <2>2, <3>1, <3>3, <3>4
  <2>5. \A x \in s : g[s] = f[x] + g[s \ {x}]
    BY <2>2, <2>4
  <2>6. g[s] \in Nat
    <3>1. g[s \ {y}] \in Nat /\ f[y] \in Nat
      BY <2>1, <2>3
    <3>2. QED BY <2>2, <3>1
  <2>7. QED BY <2>3, <2>5, <2>6
<1> HIDE DEF G
<1>4. SUBSET S \subseteq G
  BY <1>2, <1>3, SubsetInduction
<1>5. QED BY <1>1, <1>4 DEF G, AnyOrder

(* p adds f up from 0.                                                      *)
IsPrefixSum(p, f, n) ==
    p \in [0 .. n -> Nat] /\ p[0] = 0 /\ \A k \in 0 .. n - 1 : p[k + 1] = p[k] + f[k]

(* A sum over an interval is the last of its prefix sums.                   *)
LEMMA SumByPrefixes ==
    ASSUME NEW n \in Nat, NEW f \in [0 .. n - 1 -> Nat]
    PROVE  \E p : IsPrefixSum(p, f, n) /\ SumFunction(f) = p[n]
<1> DEFINE S == 0 .. n - 1
<1>1. IsFiniteSet(S)
  BY FS_Interval
<1>2. (\A x \in S : f[x] \in Nat) /\ DOMAIN f = S
  OBVIOUS
<1> HIDE DEF S
<1>3. PICK g : IsSum(g, f, S) /\ SumFunctionOnSet(f, S) = g[S]
  BY <1>1, SumUnfolds
<1>4. /\ g[{}] = 0
      /\ \A s \in SUBSET S : g[s] \in Nat
      /\ \A s \in SUBSET S : \A x \in s : g[s] = f[x] + g[s \ {x}]
  <2>1. AnyOrder(g, f, S)
    BY <1>1, <1>2, <1>3, SumAnyOrder
  <2>2. QED BY <2>1 DEF AnyOrder
<1> DEFINE q == [k \in 0 .. n |-> g[0 .. k - 1]]
<1>5. \A k \in 0 .. n : 0 .. k - 1 \in SUBSET S
  BY DEF S
<1>6. q \in [0 .. n -> Nat] /\ q[0] = 0
  <2>1. 0 .. 0 - 1 = {}
    OBVIOUS
  <2>2. QED BY <1>4, <1>5, <2>1
<1>7. ASSUME NEW k \in 0 .. n - 1 PROVE q[k + 1] = q[k] + f[k]
  <2> DEFINE t == 0 .. k
             u == 0 .. k - 1
  <2>1. /\ k \in t /\ t \ {k} = u /\ t = 0 .. (k + 1) - 1
        /\ k \in 0 .. n /\ k + 1 \in 0 .. n
    OBVIOUS
  <2>2. t \in SUBSET S /\ u \in SUBSET S
    BY <1>5, <2>1
  <2>3. q[k] = g[u] /\ q[k + 1] = g[t]
    BY <2>1
  <2> HIDE DEF t, u, q
  <2>4. g[t] = f[k] + g[u]
    BY <1>4, <2>1, <2>2
  <2>5. f[k] \in Nat /\ g[u] \in Nat
    BY <1>4, <2>2
  <2>6. QED BY <2>3, <2>4, <2>5
<1>8. SumFunction(f) = q[n]
  BY <1>2, <1>3 DEF SumFunction, S
<1>9. QED BY <1>6, <1>7, <1>8 DEF IsPrefixSum

(* A function that is larger by at most d at 0, and nowhere else, has a sum *)
(* that is larger by at most d.                                             *)
LEMMA PrefixAtMost ==
    ASSUME NEW n \in Nat, NEW f \in [0 .. n - 1 -> Nat], NEW h \in [0 .. n - 1 -> Nat],
           NEW p, NEW q, IsPrefixSum(p, f, n), IsPrefixSum(q, h, n),
           NEW d \in Nat, \A k \in 0 .. n - 1 : f[k] <= h[k] + (IF k = 0 THEN d ELSE 0)
    PROVE  p[n] <= q[n] + d
<1> DEFINE X == {k \in 0 .. n : p[k] <= q[k] + (IF k = 0 THEN 0 ELSE d)}
<1>1. 0 \in X
  BY DEF IsPrefixSum
<1>2. ASSUME NEW k \in 0 .. n - 1, k \in X PROVE k + 1 \in X
  <2>1. p[k + 1] = p[k] + f[k] /\ q[k + 1] = q[k] + h[k]
    BY DEF IsPrefixSum
  <2>2. p[k] \in Nat /\ q[k] \in Nat /\ f[k] \in Nat /\ h[k] \in Nat
    BY DEF IsPrefixSum
  <2>3. f[k] + p[k] <= h[k] + q[k] + d
    <3>1. CASE k = 0
      BY <1>2, <2>2, <3>1
    <3>2. CASE k # 0
      <4>1. f[k] <= h[k] /\ p[k] <= q[k] + d
        BY <1>2, <2>2, <3>2
      <4>2. QED BY <2>2, <4>1
    <3>3. QED BY <3>1, <3>2
  <2>4. p[k + 1] <= q[k + 1] + d
    BY <2>1, <2>2, <2>3
  <2>5. QED BY <2>4
<1> HIDE DEF X
<1>3. n \in X
  <2>1. 0 .. n \subseteq X
    BY <1>1, <1>2, UpTo
  <2>2. n \in 0 .. n
    OBVIOUS
  <2>3. QED BY <2>1, <2>2
<1>4. p[n] \in Nat /\ q[n] \in Nat
  BY DEF IsPrefixSum
<1>5. QED BY <1>3, <1>4 DEF X

(* Shifting a function up by one, with a 0 coming in, adds nothing to its   *)
(* sum: the last value drops out.                                           *)
LEMMA PrefixShifted ==
    ASSUME NEW n \in Nat, NEW f \in [0 .. n - 1 -> Nat], NEW h \in [0 .. n - 1 -> Nat],
           NEW p, NEW q, IsPrefixSum(p, f, n), IsPrefixSum(q, h, n),
           \A k \in 0 .. n - 1 : f[k] = (IF k = 0 THEN 0 ELSE h[k - 1])
    PROVE  p[n] <= q[n]
<1> DEFINE X == {k \in 0 .. n : p[k] = (IF k = 0 THEN 0 ELSE q[k - 1])}
<1>1. 0 \in X
  BY DEF IsPrefixSum
<1>2. ASSUME NEW k \in 0 .. n - 1, k \in X PROVE k + 1 \in X
  <2>1. p[k + 1] = p[k] + f[k] /\ k + 1 \in 0 .. n /\ (k + 1) - 1 = k /\ q[0] = 0
    BY DEF IsPrefixSum
  <2>2. k # 0 => q[k] = q[k - 1] + h[k - 1]
    <3>1. k # 0 => k - 1 \in 0 .. n - 1 /\ (k - 1) + 1 = k
      OBVIOUS
    <3>2. QED BY <3>1 DEF IsPrefixSum
  <2>3. p[k + 1] = q[k]
    BY <1>2, <2>1, <2>2
  <2>4. QED BY <2>1, <2>3
<1> HIDE DEF X
<1>3. n \in X
  <2>1. 0 .. n \subseteq X
    BY <1>1, <1>2, UpTo
  <2>2. n \in 0 .. n
    OBVIOUS
  <2>3. QED BY <2>1, <2>2
<1>4. CASE n = 0
  BY <1>4 DEF IsPrefixSum
<1>5. CASE n # 0
  <2>1. n - 1 \in 0 .. n - 1 /\ (n - 1) + 1 = n
    BY <1>5
  <2>2. q[n] = q[n - 1] + h[n - 1] /\ q[n - 1] \in Nat /\ h[n - 1] \in Nat
    BY <2>1 DEF IsPrefixSum
  <2>3. QED BY <1>3, <1>5, <2>2 DEF X
<1>6. QED BY <1>4, <1>5

-----------------------------------------------------------------------------
(* What the window of grants adds up to.                                    *)

(* The number of grants in a window is a number.                            *)
LEMMA SumType == ASSUME NEW f \in [Age -> Nat] PROVE SumFunction(f) \in Nat
<1>1. Interval \in Nat /\ f \in [0 .. Interval - 1 -> Nat]
  BY LimiterAssumption DEF Age
<1>2. PICK p : IsPrefixSum(p, f, Interval) /\ SumFunction(f) = p[Interval]
  BY <1>1, SumByPrefixes
<1>3. QED BY <1>1, <1>2 DEF IsPrefixSum

(* At most d more grants, all of them now.                                  *)
LEMMA SumAtMost ==
    ASSUME NEW f \in [Age -> Nat], NEW h \in [Age -> Nat], NEW d \in Nat,
           \A a \in Age : f[a] <= h[a] + (IF a = 0 THEN d ELSE 0)
    PROVE  SumFunction(f) <= SumFunction(h) + d
<1>1. /\ Interval \in Nat
      /\ f \in [0 .. Interval - 1 -> Nat] /\ h \in [0 .. Interval - 1 -> Nat]
      /\ \A k \in 0 .. Interval - 1 : f[k] <= h[k] + (IF k = 0 THEN d ELSE 0)
  BY LimiterAssumption DEF Age
<1>2. PICK p : IsPrefixSum(p, f, Interval) /\ SumFunction(f) = p[Interval]
  BY <1>1, SumByPrefixes
<1>3. PICK q : IsPrefixSum(q, h, Interval) /\ SumFunction(h) = q[Interval]
  BY <1>1, SumByPrefixes
<1>4. p[Interval] <= q[Interval] + d
  BY <1>1, <1>2, <1>3, PrefixAtMost
<1>5. QED BY <1>2, <1>3, <1>4

(* A tick later.                                                            *)
LEMMA SumShifted ==
    ASSUME NEW f \in [Age -> Nat], NEW h \in [Age -> Nat],
           \A a \in Age : f[a] = (IF a = 0 THEN 0 ELSE h[a - 1])
    PROVE  SumFunction(f) <= SumFunction(h)
<1>1. /\ Interval \in Nat
      /\ f \in [0 .. Interval - 1 -> Nat] /\ h \in [0 .. Interval - 1 -> Nat]
      /\ \A k \in 0 .. Interval - 1 : f[k] = (IF k = 0 THEN 0 ELSE h[k - 1])
  BY LimiterAssumption DEF Age
<1>2. PICK p : IsPrefixSum(p, f, Interval) /\ SumFunction(f) = p[Interval]
  BY <1>1, SumByPrefixes
<1>3. PICK q : IsPrefixSum(q, h, Interval) /\ SumFunction(h) = q[Interval]
  BY <1>1, SumByPrefixes
<1>4. p[Interval] <= q[Interval]
  BY <1>1, <1>2, <1>3, PrefixShifted
<1>5. QED BY <1>2, <1>3, <1>4

(* A window without grants.                                                 *)
LEMMA SumOfNothing ==
    ASSUME NEW f \in [Age -> Nat], \A a \in Age : f[a] = 0
    PROVE  SumFunction(f) = 0
<1> DEFINE q == [k \in 0 .. Interval |-> 0]
<1>1. /\ Interval \in Nat
      /\ f \in [0 .. Interval - 1 -> Nat]
      /\ \A k \in 0 .. Interval - 1 : f[k] <= f[k] + (IF k = 0 THEN 0 ELSE 0)
  BY LimiterAssumption DEF Age
<1>2. PICK p : IsPrefixSum(p, f, Interval) /\ SumFunction(f) = p[Interval]
  BY <1>1, SumByPrefixes
<1>3. IsPrefixSum(q, f, Interval)
  BY <1>1 DEF IsPrefixSum, Age
<1>4. q[Interval] = 0
  BY <1>1
<1> HIDE DEF q
<1>5. p[Interval] <= q[Interval] + 0
  BY <1>1, <1>2, <1>3, PrefixAtMost
<1>6. SumFunction(f) \in Nat
  BY SumType
<1>7. QED BY <1>2, <1>4, <1>5, <1>6

-----------------------------------------------------------------------------
(* The rate of calls that have not overlapped.                              *)

(* What the bucket holds, twice (a name, as the provers do better without the *)
(* product).                                                                *)
TwoFills == 2 * MaxPerInterval

(* The grants since age k, and the inductive invariant: the grants of the   *)
(* current fill, those since the last refill, are what is missing from the  *)
(* bucket, and the window holds at most one fill more.  A call that is      *)
(* about to refill comes an interval after the last refill, so that the     *)
(* window holds only what is missing, and nothing was granted since it read *)
(* the clock.                                                               *)
GrantedSince(k) == [a \in Age |-> IF a < k THEN recent[a] ELSE 0]
CallInv(t) ==
    /\ pc[t] = "idle" => since[t] = 0
    /\ pc[t] = "refill" /\ intervals[t] > 0 => age - since[t] >= Interval
    /\ pc[t] = "sleep" => age + wait[t] >= Interval
    /\ pc[t] = "store" => GrantedWithinInterval <= MaxPerInterval
    /\ pc[t] = "stamp" => /\ tokens = MaxPerInterval
                          /\ GrantedWithinInterval <= MaxPerInterval
    /\ Preempted(t) => \A a \in Age : a < since[t] => recent[a] = 0
FillInv ==
    /\ SumFunction(GrantedSince(age)) + tokens <= MaxPerInterval
    /\ GrantedWithinInterval + tokens <= TwoFills
RateInv ==
    /\ age >= 0
    /\ \A t \in Thread : CallInv(t)
    /\ (\A t \in Thread : pc[t] # "stamp") => FillInv

(* Two fills are a sum.                                                     *)
LEMMA TwoFillsType == TwoFills \in Nat /\ TwoFills = MaxPerInterval + MaxPerInterval
BY LimiterAssumption DEF TwoFills

(* The types of the sums.                                                   *)
LEMMA WindowType ==
    ASSUME TypeOK, NEW k \in Int
    PROVE  /\ recent \in [Age -> Nat]
           /\ GrantedSince(k) \in [Age -> Nat]
           /\ GrantedWithinInterval \in Nat
           /\ SumFunction(GrantedSince(k)) \in Nat
<1>1. recent \in [Age -> Nat] /\ GrantedSince(k) \in [Age -> Nat]
  BY DEF TypeOK, GrantedSince
<1>2. QED BY <1>1, SumType DEF GrantedWithinInterval

(* An interval after the last refill the window holds nothing older.        *)
LEMMA OneFillInWindow ==
    ASSUME TypeOK, BucketInv, FillInv, age >= Interval
    PROVE  GrantedWithinInterval + tokens <= MaxPerInterval
<1>1. GrantedSince(age) = recent
  <2>1. \A a \in Age : a < age
    BY LimiterAssumption DEF Age, TypeOK
  <2>2. QED BY <2>1 DEF GrantedSince, TypeOK
<1>2. QED BY <1>1 DEF FillInv, GrantedWithinInterval

(* A thread that takes the token leaves everyone idle.                      *)
LEMMA GrantKeeps ==
    ASSUME TypeOK, TypeOK', BucketInv, NEW t \in Thread, pc[t] # "idle", Return(t), age' >= 0,
           \A u \in Thread : CallInv(u),
           \/ /\ FillInv /\ age' = age /\ tokens' = tokens - 1
           \/ /\ age' = since[t] /\ tokens' <= MaxPerInterval - 1
              /\ \A a \in Age : a < since[t] => recent[a] = 0
              /\ GrantedWithinInterval <= MaxPerInterval
    PROVE  RateInv'
<1>1. 0 \in Age /\ MaxPerInterval \in Nat
  BY LimiterAssumption DEF Age
<1>2. /\ age \in Int /\ age' \in Int /\ since[t] \in Int
      /\ tokens \in Int /\ tokens' \in Int
  BY LimiterAssumption DEF TypeOK
<1>3. /\ recent' \in [Age -> Nat]
      /\ recent' = [recent EXCEPT ![0] = @ + 1]
      /\ \A k \in Int : GrantedSince(k)' \in [Age -> Nat]
  BY <1>1 DEF Return, TypeOK, GrantedSince
<1>4. \A a \in Age : recent'[a] <= recent[a] + (IF a = 0 THEN 1 ELSE 0)
  <2>1. \A a \in Age : recent[a] \in Nat /\ recent'[a] = IF a = 0 THEN recent[a] + 1 ELSE recent[a]
    BY <1>1, <1>3 DEF TypeOK
  <2>2. QED BY <2>1
<1>5. GrantedWithinInterval' <= GrantedWithinInterval + 1
  <2>1. recent \in [Age -> Nat]
    BY DEF TypeOK
  <2>2. QED BY <1>3, <1>4, <2>1, SumAtMost, 1 \in Nat DEF GrantedWithinInterval
<1>6. GrantedWithinInterval \in Nat /\ GrantedWithinInterval' \in Nat
  BY <1>3, SumType DEF GrantedWithinInterval, TypeOK
<1>7. FillInv'
  <2>1. CASE FillInv /\ age' = age /\ tokens' = tokens - 1
    <3>1. /\ GrantedSince(age) \in [Age -> Nat]
          /\ SumFunction(GrantedSince(age)) \in Nat
      BY <1>2, WindowType
    <3>2. /\ GrantedSince(age)' \in [Age -> Nat]
          /\ SumFunction(GrantedSince(age)') \in Nat
      BY <1>2, <1>3, SumType
    <3>3. \A a \in Age : GrantedSince(age)'[a] <= GrantedSince(age)[a] + (IF a = 0 THEN 1 ELSE 0)
      <4>1. \A a \in Age : /\ GrantedSince(age)'[a] = (IF a < age' THEN recent'[a] ELSE 0)
                            /\ GrantedSince(age)[a] = (IF a < age THEN recent[a] ELSE 0)
        BY DEF GrantedSince
      <4>2. QED BY <1>4, <2>1, <4>1 DEF Age
    <3>4. SumFunction(GrantedSince(age)') <= SumFunction(GrantedSince(age)) + 1
      BY <3>1, <3>2, <3>3, SumAtMost, 1 \in Nat
    <3>5. /\ SumFunction(GrantedSince(age)) + tokens <= MaxPerInterval
          /\ GrantedWithinInterval + tokens <= TwoFills
      BY <2>1 DEF FillInv
    <3>6. SumFunction(GrantedSince(age)') + tokens' <= MaxPerInterval
      BY <1>1, <1>2, <2>1, <3>1, <3>2, <3>4, <3>5
    <3>7. GrantedWithinInterval' + tokens' <= TwoFills
      <4>1. tokens' = tokens - 1
        BY <2>1
      <4>2. ASSUME NEW g \in Nat, NEW h \in Nat, NEW n \in Int, h <= g + 1, g + n <= TwoFills
            PROVE  h + (n - 1) <= TwoFills
        BY <4>2, TwoFillsType
      <4>3. QED BY <1>2, <1>5, <1>6, <3>5, <4>1, <4>2
    <3>8. QED BY <3>6, <3>7 DEF FillInv
  <2>2. CASE /\ age' = since[t] /\ tokens' <= MaxPerInterval - 1
             /\ \A a \in Age : a < since[t] => recent[a] = 0
             /\ GrantedWithinInterval <= MaxPerInterval
    <3> DEFINE none == [a \in Age |-> 0]
    <3>1. none \in [Age -> Nat] /\ \A a \in Age : none[a] = 0
      OBVIOUS
    <3> HIDE DEF none
    <3>2. SumFunction(none) = 0
      BY <3>1, SumOfNothing
    <3>3. /\ GrantedSince(age)' \in [Age -> Nat]
          /\ SumFunction(GrantedSince(age)') \in Nat
      BY <1>2, <1>3, SumType
    <3>4. \A a \in Age : GrantedSince(age)'[a] <= none[a] + (IF a = 0 THEN 1 ELSE 0)
      BY <1>2, <1>3, <1>4, <2>2, <3>1 DEF GrantedSince, TypeOK
    <3>5. SumFunction(GrantedSince(age)') <= 1
      BY <3>1, <3>2, <3>3, <3>4, SumAtMost, 1 \in Nat
    <3>6. SumFunction(GrantedSince(age)') + tokens' <= MaxPerInterval
      BY <1>1, <1>2, <2>2, <3>3, <3>5
    <3>7. GrantedWithinInterval' + tokens' <= TwoFills
      BY <1>1, <1>2, <1>5, <1>6, <2>2, TwoFillsType
    <3>8. QED BY <3>6, <3>7 DEF FillInv
  <2>3. QED BY <2>1, <2>2
<1>8. \A u \in Thread : pc'[u] = "idle" /\ since'[u] = 0
  BY DEF Return, Goto, BucketInv, OneCaller, CallInv, TypeOK
<1>9. QED BY <1>7, <1>8 DEF RateInv, CallInv, Preempted

(* A thread that goes to another step, and changes nothing of the window.   *)
LEMMA OnwardKeeps ==
    ASSUME TypeOK, TypeOK', RateInv, BucketInv, NEW t \in Thread, NEW step \in Step,
           Goto(t, step), pc[t] # "stamp", step # "stamp",
           UNCHANGED <<age, tokens, recent>>,
           \A u \in Thread : u # t => /\ since'[u] = since[u] /\ wait'[u] = wait[u]
                                      /\ intervals'[u] = intervals[u],
           CallInv(t)'
    PROVE  RateInv'
<1>1. pc'[t] = step /\ \A u \in Thread : u # t => pc'[u] = pc[u]
  BY DEF Goto, TypeOK
<1>2. ASSUME NEW u \in Thread, u # t PROVE CallInv(u)'
  BY <1>1, <1>2 DEF RateInv, CallInv, Preempted, GrantedWithinInterval
<1>3. \A u \in Thread : CallInv(u)'
  BY <1>2
<1>4. ASSUME \A u \in Thread : pc'[u] # "stamp" PROVE FillInv'
  <2>1. \A u \in Thread : pc[u] # "stamp"
    BY <1>1, <1>4
  <2>2. FillInv
    BY <2>1 DEF RateInv
  <2>3. GrantedSince(age)' = GrantedSince(age) /\ GrantedWithinInterval' = GrantedWithinInterval
    BY DEF GrantedSince, GrantedWithinInterval
  <2>4. QED BY <2>2, <2>3 DEF FillInv
<1>5. QED BY <1>3, <1>4 DEF RateInv

(* A thread that finds the bucket to be full: an interval has passed.       *)
LEMMA FullKeeps ==
    ASSUME TypeOK, TypeOK', RateInv, BucketInv, NEW t \in Thread,
           Goto(t, "stamp"), tokens' = MaxPerInterval,
           since' = [since EXCEPT ![t] = 0], pc[t] # "idle", pc[t] # "stamp",
           UNCHANGED <<age, recent, intervals>>, age >= Interval
    PROVE  RateInv'
<1>1. pc'[t] = "stamp" /\ \A u \in Thread : u # t => pc'[u] = "idle" /\ pc[u] = "idle"
  BY DEF Goto, BucketInv, OneCaller, TypeOK
<1>2. FillInv
  BY <1>1 DEF RateInv
<1>3. GrantedWithinInterval + tokens <= MaxPerInterval
  BY <1>2, OneFillInWindow
<1>4. tokens \in Nat /\ MaxPerInterval \in Nat /\ GrantedWithinInterval \in Nat
  BY WindowType, LimiterAssumption, 0 \in Int DEF BucketInv, TypeOK
<1>5. GrantedWithinInterval' <= MaxPerInterval
  BY <1>3, <1>4 DEF GrantedWithinInterval
<1>6. CallInv(t)'
  <2>1. since'[t] = 0
    BY DEF TypeOK
  <2>2. QED BY <1>1, <1>5, <2>1 DEF CallInv, Age
<1>7. ASSUME NEW u \in Thread, u # t PROVE CallInv(u)'
  BY <1>1, <1>7 DEF RateInv, CallInv, Preempted, TypeOK
<1>8. QED BY <1>1, <1>6, <1>7 DEF RateInv

LEMMA RateStep ==
    ASSUME TypeOK, TypeOK', NeverOverfilled, BucketInv, RateInv, ~overlapped', [Next]_vars
    PROVE  RateInv'
<1>1. ASSUME NEW t \in Thread, Acquire(t) PROVE RateInv'
  <2>1. pc[t] = "idle" /\ pc'[t] = "elapsed" /\ since'[t] = 0
    BY <1>1 DEF Acquire, Goto, RateInv, CallInv, TypeOK
  <2>2. CallInv(t)'
    BY <2>1 DEF CallInv, Age
  <2>3. "elapsed" \in Step
    BY DEF Step
  <2>4. QED BY <1>1, <2>1, <2>2, <2>3, OnwardKeeps DEF Acquire
<1>2. ASSUME NEW t \in Thread, Elapsed(t) PROVE RateInv'
  <2>1. /\ pc[t] = "elapsed" /\ pc'[t] = "refill" /\ age' = age /\ since' = since
        /\ recent' = recent /\ age - since[t] \in Int
    BY <1>2, LimiterAssumption DEF Elapsed, Goto, TypeOK
  <2>2. intervals' = [intervals EXCEPT ![t] = (age - since[t]) \div Interval]
    BY <1>2 DEF Elapsed
  <2>3. intervals'[t] > 0 => age - since[t] >= Interval
    BY <2>1, <2>2, IntervalsType DEF TypeOK
  <2>4. CallInv(t)'
    BY <2>1, <2>3 DEF CallInv, RateInv, Preempted
  <2>5. "refill" \in Step
    BY DEF Step
  <2>6. \A u \in Thread : u # t => intervals'[u] = intervals[u]
    BY <2>2 DEF TypeOK
  <2>7. QED BY <1>2, <2>1, <2>4, <2>5, <2>6, OnwardKeeps DEF Elapsed
<1>3. ASSUME NEW t \in Thread, Refill(t) PROVE RateInv'
  <2>1. /\ pc[t] = "refill" /\ \A u \in Thread : u # t => pc[u] = "idle"
        /\ FillInv /\ CallInv(t)
    BY <1>3 DEF Refill, BucketInv, OneCaller, RateInv
  <2>2. CASE TakeOrWait(t, tokens, age)
    <3>1. age' = age /\ age >= 0
      BY <2>2 DEF TakeOrWait, RateInv
    <3>2. CASE tokens' = tokens - 1 /\ Return(t)
      BY <2>1, <3>1, <3>2, GrantKeeps DEF RateInv
    <3>3. CASE /\ SleepFor(t, age) > 0 /\ tokens' = tokens
               /\ wait' = [wait EXCEPT ![t] = SleepFor(t, age)]
               /\ Goto(t, "sleep")
               /\ UNCHANGED <<since, intervals, filled, recent>>
      <4>1. pc'[t] = "sleep" /\ wait'[t] = SleepFor(t, age)
        BY <3>3 DEF Goto, TypeOK
      <4>2. age' + wait'[t] >= Interval
        BY <3>1, <4>1, LimiterAssumption DEF SleepFor, TypeOK
      <4>3. CallInv(t)'
        BY <4>1, <4>2 DEF CallInv, Preempted
      <4>4. "sleep" \in Step
        BY DEF Step
      <4>5. \A u \in Thread : u # t => wait'[u] = wait[u]
        BY <3>3 DEF TypeOK
      <4>6. QED BY <2>1, <3>1, <3>3, <4>3, <4>4, <4>5, OnwardKeeps
    <3>4. CASE /\ SleepFor(t, age) <= 0 /\ tokens' = MaxPerInterval
               /\ since' = [since EXCEPT ![t] = 0] /\ Goto(t, "stamp")
               /\ UNCHANGED <<intervals, filled, wait, recent>>
      <4>1. age >= Interval
        BY <3>4, LimiterAssumption DEF SleepFor, TypeOK
      <4>2. QED BY <2>1, <3>1, <3>4, <4>1, FullKeeps
    <3>5. QED BY <2>2, <3>2, <3>3, <3>4 DEF TakeOrWait
  <2>3. CASE ~TakeOrWait(t, tokens, age)
    <3>1. /\ intervals[t] > 0 /\ Goto(t, "store")
          /\ UNCHANGED <<tokens, age, since, intervals, wait, recent>>
      BY <1>3, <2>3 DEF Refill
    <3>2. age >= Interval
      BY <2>1, <3>1, LimiterAssumption DEF CallInv, TypeOK
    <3>3. GrantedWithinInterval + tokens <= MaxPerInterval
      BY <2>1, <3>2, OneFillInWindow
    <3>4. tokens \in Nat /\ MaxPerInterval \in Nat /\ GrantedWithinInterval \in Nat
      BY WindowType, LimiterAssumption, 0 \in Int DEF BucketInv, TypeOK
    <3>5. GrantedWithinInterval' <= MaxPerInterval
      BY <3>1, <3>3, <3>4 DEF GrantedWithinInterval
    <3>6. pc'[t] = "store"
      BY <3>1 DEF Goto, TypeOK
    <3>7. CallInv(t)'
      BY <2>1, <3>1, <3>5, <3>6 DEF CallInv, Preempted
    <3>8. "store" \in Step
      BY DEF Step
    <3>9. QED BY <2>1, <3>1, <3>7, <3>8, OnwardKeeps
  <2>4. QED BY <2>2, <2>3
<1>4. ASSUME NEW t \in Thread, Store(t) PROVE RateInv'
  <2>1. /\ pc[t] = "store" /\ TakeOrWait(t, filled[t], since[t]) /\ CallInv(t)
        /\ filled[t] \in Int /\ filled[t] >= 1 /\ filled[t] <= MaxPerInterval
        /\ since[t] \in Nat
    BY <1>4, LimiterAssumption DEF Store, RefillAge, RateInv, BucketInv, TypeOK
  <2>2. tokens' = filled[t] - 1 /\ Return(t) /\ age' = since[t]
    BY <2>1 DEF TakeOrWait
  <2>3. tokens' <= MaxPerInterval - 1
    BY <2>1, <2>2, LimiterAssumption
  <2>4. /\ GrantedWithinInterval <= MaxPerInterval
        /\ \A a \in Age : a < since[t] => recent[a] = 0
    BY <2>1 DEF CallInv, Preempted
  <2>5. QED BY <2>1, <2>2, <2>3, <2>4, GrantKeeps DEF RateInv
<1>5. ASSUME NEW t \in Thread, Wake(t) PROVE RateInv'
  <2>1. age >= Interval
    BY <1>5, LimiterAssumption DEF Wake, RateInv, CallInv, TypeOK
  <2>2. QED BY <1>5, <2>1, FullKeeps DEF Wake
<1>6. ASSUME NEW t \in Thread, Stamp(t) PROVE RateInv'
  <2>1. /\ pc[t] = "stamp" /\ CallInv(t) /\ since[t] \in Nat
        /\ tokens' = tokens - 1 /\ Return(t) /\ age' = since[t]
    BY <1>6, LimiterAssumption DEF Stamp, RefillAge, RateInv, TypeOK
  <2>2. /\ tokens' <= MaxPerInterval - 1
        /\ GrantedWithinInterval <= MaxPerInterval
        /\ \A a \in Age : a < since[t] => recent[a] = 0
    BY <2>1, LimiterAssumption DEF CallInv, Preempted
  <2>3. QED BY <2>1, <2>2, GrantKeeps DEF RateInv
<1>7. CASE Tick
  <2>1. /\ recent \in [Age -> Nat] /\ recent' \in [Age -> Nat]
        /\ \A a \in Age : recent'[a] = (IF a = 0 THEN 0 ELSE recent[a - 1])
    BY <1>7 DEF Tick, TypeOK
  <2>2. GrantedWithinInterval' <= GrantedWithinInterval
    BY <2>1, SumShifted DEF GrantedWithinInterval
  <2>3. /\ GrantedWithinInterval \in Nat /\ GrantedWithinInterval' \in Nat
        /\ age \in Int /\ age' = age + 1 /\ tokens' = tokens /\ tokens \in Int
        /\ pc' = pc /\ intervals' = intervals /\ MaxPerInterval \in Nat
    BY <1>7, <2>1, SumType, LimiterAssumption DEF Tick, TypeOK, GrantedWithinInterval
  <2>4. ASSUME NEW t \in Thread PROVE CallInv(t)'
    <3>1. /\ since'[t] = (IF Preempted(t) THEN since[t] + 1 ELSE since[t])
          /\ wait'[t] = (IF wait[t] > 0 THEN wait[t] - 1 ELSE 0)
          /\ since[t] \in Nat /\ wait[t] \in Nat
      BY <1>7, LimiterAssumption DEF Tick, TypeOK
    <3>2. CallInv(t)
      BY DEF RateInv
    <3>3. pc'[t] = "idle" => since'[t] = 0
      BY <2>3, <3>1, <3>2 DEF CallInv, Preempted
    <3>4. pc'[t] = "refill" /\ intervals'[t] > 0 => age' - since'[t] >= Interval
      BY <2>3, <3>1, <3>2, LimiterAssumption DEF CallInv, Preempted
    <3>5. pc'[t] = "sleep" => age' + wait'[t] >= Interval
      BY <2>3, <3>1, <3>2, LimiterAssumption DEF CallInv
    <3>6. /\ pc'[t] = "store" => GrantedWithinInterval' <= MaxPerInterval
          /\ pc'[t] = "stamp" => tokens' = MaxPerInterval /\ GrantedWithinInterval' <= MaxPerInterval
      BY <2>2, <2>3, <3>2 DEF CallInv
    <3>7. ASSUME Preempted(t), NEW a \in Age, a < since'[t] PROVE recent'[a] = 0
      <4>1. CASE a = 0
        BY <2>1, <4>1
      <4>2. CASE a # 0
        <5>1. a - 1 \in Age /\ a - 1 < since[t]
          BY <3>1, <3>7, <4>2, LimiterAssumption DEF Age
        <5>2. recent[a - 1] = 0
          BY <3>2, <3>7, <5>1 DEF CallInv
        <5>3. QED BY <2>1, <4>2, <5>2
      <4>3. QED BY <4>1, <4>2
    <3>8. Preempted(t)' <=> Preempted(t)
      BY <2>3 DEF Preempted
    <3>9. QED BY <3>3, <3>4, <3>5, <3>6, <3>7, <3>8 DEF CallInv
  <2>5. ASSUME \A t \in Thread : pc'[t] # "stamp" PROVE FillInv'
    <3>1. FillInv
      BY <2>3, <2>5 DEF RateInv
    <3>2. GrantedSince(age) \in [Age -> Nat] /\ GrantedSince(age)' \in [Age -> Nat]
      BY <2>1 DEF GrantedSince
    <3>3. \A a \in Age : GrantedSince(age)'[a] = (IF a = 0 THEN 0 ELSE GrantedSince(age)[a - 1])
      <4>1. \A a \in Age : /\ GrantedSince(age)'[a] = (IF a < age' THEN recent'[a] ELSE 0)
                            /\ GrantedSince(age)[a] = (IF a < age THEN recent[a] ELSE 0)
        BY DEF GrantedSince
      <4>2. \A a \in Age : a # 0 => a - 1 \in Age
        BY LimiterAssumption DEF Age
      <4>3. QED BY <2>1, <2>3, <4>1, <4>2, LimiterAssumption DEF Age
    <3>4. SumFunction(GrantedSince(age)') <= SumFunction(GrantedSince(age))
      BY <3>2, <3>3, SumShifted
    <3>5. SumFunction(GrantedSince(age)) \in Nat /\ SumFunction(GrantedSince(age)') \in Nat
      BY <3>2, SumType
    <3>6. SumFunction(GrantedSince(age)') + tokens' <= MaxPerInterval
      BY <2>3, <3>1, <3>4, <3>5 DEF FillInv
    <3>7. GrantedWithinInterval' + tokens' <= TwoFills
      <4>1. GrantedWithinInterval + tokens <= TwoFills
        BY <3>1 DEF FillInv
      <4>2. ASSUME NEW g \in Nat, NEW h \in Nat, NEW n \in Int, h <= g, g + n <= TwoFills
            PROVE  h + n <= TwoFills
        BY <4>2, TwoFillsType
      <4>3. QED BY <2>2, <2>3, <4>1, <4>2
    <3>8. QED BY <3>6, <3>7 DEF FillInv
  <2>6. age' >= 0
    BY <2>3 DEF RateInv
  <2>7. QED BY <2>4, <2>5, <2>6 DEF RateInv
<1>8. CASE UNCHANGED vars
  BY <1>8 DEF vars, RateInv, CallInv, FillInv, Preempted, GrantedSince, GrantedWithinInterval
<1>9. QED BY <1>1, <1>2, <1>3, <1>4, <1>5, <1>6, <1>7, <1>8 DEF Next, Run

(* As long as calls do not overlap, no interval sees more than two fills of *)
(* the bucket (retry_rate_limit.py:34-46): a refill comes an interval after *)
(* the last one, when the window holds no grant of an older fill.           *)
THEOREM RateIsBounded == Spec => []RateHolds
<1> DEFINE Inv == ~overlapped => BucketInv /\ RateInv
<1>1. Init => Inv
  <2> SUFFICES ASSUME Init PROVE BucketInv /\ RateInv
    OBVIOUS
  <2>1. BucketInv
    BY LimiterAssumption DEF Init, BucketInv, OneCaller
  <2>2. \A t \in Thread : CallInv(t)
    BY DEF Init, CallInv, Preempted
  <2>3. FillInv
    <3>1. /\ recent \in [Age -> Nat] /\ \A a \in Age : recent[a] = 0
          /\ GrantedSince(age) \in [Age -> Nat]
          /\ \A a \in Age : GrantedSince(age)[a] = 0
      BY DEF Init, GrantedSince
    <3>2. SumFunction(recent) = 0 /\ SumFunction(GrantedSince(age)) = 0
      BY <3>1, SumOfNothing
    <3>3. QED BY <3>2, LimiterAssumption, TwoFillsType DEF Init, FillInv, GrantedWithinInterval
  <2>4. QED BY <2>1, <2>2, <2>3 DEF RateInv, Init
<1>2. TypeOK /\ NeverOverfilled /\ Inv /\ [Next]_vars => Inv'
  BY BucketStep, OverlapStays, LimiterStepType, RateStep
<1>3. TypeOK /\ Inv => RateHolds
  <2> SUFFICES ASSUME TypeOK, BucketInv, RateInv PROVE GrantedWithinInterval <= 2 * MaxPerInterval
    BY DEF RateHolds
  <2>1. GrantedWithinInterval \in Nat /\ tokens \in Nat /\ MaxPerInterval \in Nat
    BY WindowType, LimiterAssumption, 0 \in Int DEF TypeOK, BucketInv
  <2>2. GrantedWithinInterval <= MaxPerInterval \/ FillInv
    BY DEF RateInv, CallInv
  <2>3. GrantedWithinInterval <= TwoFills
    BY <2>1, <2>2, TwoFillsType DEF FillInv
  <2>4. QED BY <2>3 DEF TwoFills
<1> HIDE DEF Inv
<1>4. QED BY <1>1, <1>2, <1>3, LimiterInitType, LimiterStepType, PTL DEF Spec
=============================================================================
