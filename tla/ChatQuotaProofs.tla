--------------------------- MODULE ChatQuotaProofs ---------------------------
(***************************************************************************)
(* Theorems about the chat quota, for any number of clients and any limit. *)
(***************************************************************************)
EXTENDS ChatQuota, Integers, TLAPS

Pending(c) == pc[c] = "expire"

LEMMA QuotaInitType == Init => TypeOK
<1>1. Init => count \in 0 .. Limit + 1
  <2> SUFFICES ASSUME Init PROVE count \in 0 .. Limit + 1
    OBVIOUS
  <2>1. count = 0
    BY DEF Init
  <2>2. QED BY <2>1, QuotaAssumption
<1>2. Init => served \in Nat
  BY DEF Init
<1>3. Init => expiring \in BOOLEAN /\ faults \subseteq FaultKind
  BY DEF Init
<1>4. Init => /\ pc \in [Client -> {"idle", "incr", "expire"}]
              /\ verdict \in [Client -> {"none", "admitted", "rejected"}]
  BY DEF Init
<1>5. QED BY <1>1, <1>2, <1>3, <1>4 DEF TypeOK

LEMMA QuotaStepType == TypeOK /\ [Next]_vars => TypeOK'
<1> SUFFICES ASSUME TypeOK, [Next]_vars PROVE TypeOK'
  OBVIOUS
<1>1. Incremented \in 0 .. Limit + 1
  BY QuotaAssumption DEF TypeOK, Incremented
<1>2. ASSUME NEW c \in Client, NEW answer \in {"admitted", "rejected"},
             NEW counted \in BOOLEAN, Decide(c, answer, counted)
      PROVE  /\ pc' \in [Client -> {"idle", "incr", "expire"}]
             /\ verdict' \in [Client -> {"none", "admitted", "rejected"}]
             /\ served' \in Nat
  BY <1>2 DEF Decide, TypeOK
<1>3. ASSUME NEW c \in Client, Arrive(c) PROVE TypeOK'
  BY <1>3 DEF Arrive, TypeOK
<1>4. ASSUME NEW c \in Client, Increment(c) PROVE TypeOK'
  <2>1. count' \in 0 .. Limit + 1 /\ UNCHANGED <<expiring, faults>>
    BY <1>1, <1>4 DEF Increment
  <2>2. /\ pc' \in [Client -> {"idle", "incr", "expire"}]
        /\ verdict' \in [Client -> {"none", "admitted", "rejected"}]
        /\ served' \in Nat
    <3>1. CASE pc' = [pc EXCEPT ![c] = "expire"] /\ UNCHANGED <<verdict, served>>
      BY <3>1 DEF TypeOK
    <3>2. CASE Decide(c, "rejected", FALSE) \/ Decide(c, "admitted", TRUE)
      BY <1>2, <3>2
    <3>3. QED BY <1>4, <3>1, <3>2 DEF Increment
  <2>3. QED BY <2>1, <2>2 DEF TypeOK
<1>5. ASSUME NEW c \in Client, SetExpiry(c) PROVE TypeOK'
  BY <1>2, <1>5 DEF SetExpiry, TypeOK
<1>6. ASSUME NEW c \in Client, RedisFails(c) PROVE TypeOK'
  BY <1>1, <1>2, <1>6 DEF RedisFails, Fault, TypeOK
<1>7. ASSUME NEW c \in Client, IncrementRepeats(c) PROVE TypeOK'
  BY <1>1, <1>7 DEF IncrementRepeats, Fault, TypeOK
<1>8. CASE WindowEnds
  <2>1. 0 \in 0 .. Limit + 1
    BY QuotaAssumption
  <2>2. QED BY <1>8, <2>1 DEF WindowEnds, TypeOK
<1>9. CASE Crash
  BY <1>9 DEF Crash, Fault, TypeOK
<1>10. CASE UNCHANGED vars
  BY <1>10 DEF vars, TypeOK
<1>11. QED BY <1>3, <1>4, <1>5, <1>6, <1>7, <1>8, <1>9, <1>10 DEF Next

(* The counter stays in the range in which it decides.                      *)
THEOREM QuotaIsTyped == Spec => []TypeOK
BY QuotaInitType, QuotaStepType, PTL DEF Spec

-----------------------------------------------------------------------------
(* The inductive invariant: at most one request is about to set the TTL,    *)
(* and only while there is none; it has its place in the window already.    *)
OnePending ==
    /\ expiring => count # 0
    /\ \A c \in Client : Pending(c) => count # 0 /\ ~expiring
    /\ \A c, d \in Client : Pending(c) /\ Pending(d) => c = d
PlacesKept ==
    /\ served <= count /\ served <= Limit
    /\ \A c \in Client : Pending(c) => served + 1 <= count /\ served + 1 <= Limit
QuotaInv == "redis" \notin faults => OnePending /\ PlacesKept

LEMMA QuotaStep == TypeOK /\ QuotaInv /\ [Next]_vars => QuotaInv'
<1> SUFFICES ASSUME TypeOK, QuotaInv, [Next]_vars, "redis" \notin faults'
             PROVE  OnePending' /\ PlacesKept'
  BY DEF QuotaInv
<1> USE DEF Pending
<1>1. "redis" \notin faults
  BY DEF Next, Arrive, Increment, SetExpiry, RedisFails, IncrementRepeats, WindowEnds,
         Crash, Fault, vars
<1>2. OnePending /\ PlacesKept
  BY <1>1 DEF QuotaInv
<1>3. count \in Nat /\ served \in Nat /\ Limit \in Nat /\ Limit >= 1
  BY QuotaAssumption DEF TypeOK
<1>4. ASSUME NEW c \in Client, Arrive(c) PROVE OnePending' /\ PlacesKept'
  BY <1>2, <1>4 DEF Arrive, OnePending, PlacesKept, TypeOK
<1>5. ASSUME NEW c \in Client, Increment(c) PROVE OnePending' /\ PlacesKept'
  <2>1. /\ pc[c] = "incr" /\ expiring' = expiring /\ count' # 0
        /\ count' = (IF count > Limit THEN count ELSE count + 1)
    BY <1>3, <1>5 DEF Increment, Incremented
  <2>2. CASE count' = 1
    <3>1. count = 0
      BY <1>3, <2>1, <2>2
    <3>2. pc' = [pc EXCEPT ![c] = "expire"] /\ served' = served
      BY <1>5, <2>2 DEF Increment, Arms
    <3>3. served = 0 /\ ~expiring /\ \A d \in Client : ~Pending(d)
      BY <1>2, <1>3, <3>1 DEF OnePending, PlacesKept
    <3>4. QED BY <1>3, <2>1, <2>2, <3>2, <3>3 DEF OnePending, PlacesKept, TypeOK
  <2>3. CASE count' # 1
    <3>1. /\ pc' = [pc EXCEPT ![c] = "idle"]
          /\ served' = served \/ (served' = served + 1 /\ count' <= Limit)
      BY <1>3, <1>5, <2>1, <2>3 DEF Increment, Arms, Rejects, Decide
    <3>2. \A d \in Client : Pending(d)' => Pending(d)
      BY <3>1 DEF TypeOK
    <3>3. OnePending'
      BY <1>2, <2>1, <3>2 DEF OnePending
    <3>4. PlacesKept'
      BY <1>2, <1>3, <2>1, <3>1, <3>2 DEF PlacesKept
    <3>5. QED BY <3>3, <3>4
  <2>4. QED BY <2>2, <2>3
<1>6. ASSUME NEW c \in Client, SetExpiry(c) PROVE OnePending' /\ PlacesKept'
  <2>1. /\ pc' = [pc EXCEPT ![c] = "idle"] /\ served' = served + 1
        /\ count' = count /\ Pending(c)
    BY <1>6 DEF SetExpiry, Decide
  <2>2. \A d \in Client : ~Pending(d)'
    BY <1>2, <2>1 DEF OnePending, TypeOK
  <2>3. expiring' => count' # 0
    BY <1>6 DEF SetExpiry
  <2>4. QED BY <1>2, <2>1, <2>2, <2>3 DEF OnePending, PlacesKept
<1>7. CASE WindowEnds
  <2>1. \A c \in Client : ~Pending(c)
    BY <1>2, <1>7 DEF WindowEnds, OnePending
  <2>2. QED BY <1>3, <1>7, <2>1 DEF WindowEnds, OnePending, PlacesKept
<1>8. CASE Crash
  BY <1>2, <1>8 DEF Crash, OnePending, PlacesKept
<1>9. CASE UNCHANGED vars
  BY <1>2, <1>9 DEF vars, OnePending, PlacesKept
<1>10. \A c \in Client : ~RedisFails(c) /\ ~IncrementRepeats(c)
  BY DEF RedisFails, IncrementRepeats, Fault
<1>11. QED BY <1>4, <1>5, <1>6, <1>7, <1>8, <1>9, <1>10 DEF Next

LEMMA QuotaInvariant == Spec => []QuotaInv
<1>1. Init => QuotaInv
  BY QuotaAssumption DEF Init, QuotaInv, OnePending, PlacesKept, Pending
<1>2. QED BY <1>1, QuotaInitType, QuotaStepType, QuotaStep, PTL DEF Spec

(* While no Redis command fails, no window serves more than Limit requests, *)
(* also when the process dies and restarts (usage_limits.py:29).            *)
THEOREM QuotaAlwaysHolds == Spec => []QuotaHolds
<1>1. QuotaInv => QuotaHolds
  BY DEF QuotaInv, QuotaHolds, PlacesKept
<1>2. QED BY <1>1, QuotaInvariant, PTL

(* While nothing fails, a counter without a TTL is about to get one.        *)
ArmedInv == faults = {} => (count # 0 /\ ~expiring => \E c \in Client : Pending(c))

LEMMA ArmedStep == TypeOK /\ QuotaInv /\ ArmedInv /\ [Next]_vars => ArmedInv'
<1> SUFFICES ASSUME TypeOK, QuotaInv, ArmedInv, [Next]_vars, faults' = {}, count' # 0, ~expiring'
             PROVE  \E c \in Client : Pending(c)'
  BY DEF ArmedInv
<1> USE DEF Pending
<1>1. /\ faults = {} /\ ~Crash
      /\ \A c \in Client : ~RedisFails(c) /\ ~IncrementRepeats(c)
  BY DEF Next, Arrive, Increment, SetExpiry, RedisFails, IncrementRepeats, WindowEnds,
         Crash, Fault, vars
<1>2. count # 0 /\ ~expiring => \E c \in Client : Pending(c)
  BY <1>1 DEF ArmedInv
<1>3. ASSUME NEW c \in Client, Arrive(c) PROVE \E d \in Client : Pending(d)'
  BY <1>2, <1>3 DEF Arrive, TypeOK
<1>4. ASSUME NEW c \in Client, Increment(c) PROVE \E d \in Client : Pending(d)'
  <2>1. CASE count' = 1
    <3>1. pc' = [pc EXCEPT ![c] = "expire"]
      BY <1>4, <2>1 DEF Increment, Arms
    <3>2. QED BY <3>1 DEF TypeOK
  <2>2. CASE count' # 1
    <3>1. pc' = [pc EXCEPT ![c] = "idle"] /\ pc[c] = "incr" /\ expiring' = expiring
      BY <1>4, <2>2 DEF Increment, Arms, Decide
    <3>2. count # 0
      BY <1>4, <2>2, QuotaAssumption DEF Increment, Incremented, TypeOK
    <3>3. PICK d \in Client : Pending(d)
      BY <1>2, <3>1, <3>2
    <3>4. Pending(d)'
      BY <3>1, <3>3 DEF TypeOK
    <3>5. QED BY <3>4
  <2>3. QED BY <2>1, <2>2
<1>5. ASSUME NEW c \in Client, SetExpiry(c) PROVE FALSE
  BY <1>5 DEF SetExpiry
<1>6. ~WindowEnds
  BY DEF WindowEnds
<1>7. CASE UNCHANGED vars
  BY <1>2, <1>7 DEF vars
<1>8. QED BY <1>1, <1>3, <1>4, <1>5, <1>6, <1>7 DEF Next

(* While nothing fails, a session is never throttled for ever: the TTL is   *)
(* there or about to be set (usage_limits.py:22).                           *)
THEOREM WindowAlwaysEnds == Spec => []WindowWillEnd
<1>1. Init => ArmedInv
  BY DEF Init, ArmedInv
<1>2. ArmedInv => WindowWillEnd
  BY DEF ArmedInv, WindowWillEnd, Pending
<1>3. QED
  BY <1>1, <1>2, QuotaInitType, QuotaStepType, ArmedStep, QuotaInvariant, PTL DEF Spec

-----------------------------------------------------------------------------
(* The counter in Redis implements the abstract quota, which breaks with the*)
(* first fault: a request gets its verdict at its incr, and a window that   *)
(* ends starts over.                                                        *)
LEMMA FaultBreaks ==
    TypeOK /\ [Next]_vars /\ ~(faults = {} /\ faults' = {}) => [Quota!Next]_(Quota!vars)
<1> SUFFICES ASSUME TypeOK, [Next]_vars, ~(faults = {} /\ faults' = {})
             PROVE  Quota!Next
  OBVIOUS
<1>1. faults' # {}
  BY DEF Next, Arrive, Increment, SetExpiry, RedisFails, IncrementRepeats, WindowEnds,
         Crash, Fault, vars
<1>2. Quota!Break
  BY <1>1 DEF Quota!Break
<1>3. QED BY <1>2 DEF Quota!Next

LEMMA QuotaSimulates ==
    TypeOK /\ QuotaInv /\ [Next]_vars => [Quota!Next]_(Quota!vars)
<1> SUFFICES ASSUME TypeOK, QuotaInv, faults = {}, faults' = {}, [Next]_vars
             PROVE  [Quota!Next]_(Quota!vars)
  BY FaultBreaks
<1> DEFINE used == IF count > Limit THEN Limit ELSE count
           answer == [c \in Client |-> IF pc[c] = "expire" THEN "admitted" ELSE verdict[c]]
<1>1. UNCHANGED <<used, answer>> => [Quota!Next]_(Quota!vars)
  BY DEF Quota!vars
<1>2. /\ ~Crash
      /\ \A c \in Client : ~RedisFails(c) /\ ~IncrementRepeats(c)
  BY DEF Crash, RedisFails, IncrementRepeats, Fault
<1>3. OnePending /\ count \in Nat /\ Limit \in Nat \ {0}
  BY QuotaAssumption DEF QuotaInv, TypeOK
<1>4. ASSUME NEW c \in Client, Arrive(c) PROVE [Quota!Next]_(Quota!vars)
  <2>1. UNCHANGED used /\ UNCHANGED answer
    BY <1>4 DEF Arrive, TypeOK
  <2>2. QED BY <1>1, <2>1
<1>5. ASSUME NEW c \in Client, Increment(c) PROVE [Quota!Next]_(Quota!vars)
  <2>1. pc[c] = "incr" /\ count' = (IF count > Limit THEN count ELSE count + 1)
    BY <1>5 DEF Increment, Incremented
  <2>2. CASE count' <= Limit
    <3>1. used < Limit /\ used' = used + 1
      BY <1>3, <2>1, <2>2
    <3>2. answer' = [answer EXCEPT ![c] = "admitted"]
      <4>1. CASE count' = 1
        <5>1. pc' = [pc EXCEPT ![c] = "expire"] /\ verdict' = verdict
          BY <1>5, <4>1 DEF Increment, Arms
        <5>2. QED BY <5>1 DEF TypeOK
      <4>2. CASE count' # 1
        <5>1. pc' = [pc EXCEPT ![c] = "idle"] /\ verdict' = [verdict EXCEPT ![c] = "admitted"]
          BY <1>3, <1>5, <2>1, <2>2, <4>2 DEF Increment, Arms, Rejects, Decide
        <5>2. QED BY <5>1 DEF TypeOK
      <4>3. QED BY <4>1, <4>2
    <3>3. Quota!Admit(c)
      BY <3>1, <3>2 DEF Quota!Admit
    <3>4. QED BY <3>3 DEF Quota!Next
  <2>3. CASE count' > Limit
    <3>1. used = Limit /\ used' = used /\ count' # 1
      BY <1>3, <2>1, <2>3
    <3>2. pc' = [pc EXCEPT ![c] = "idle"] /\ verdict' = [verdict EXCEPT ![c] = "rejected"]
      BY <1>3, <1>5, <2>3, <3>1 DEF Increment, Arms, Rejects, Decide
    <3>3. answer' = [answer EXCEPT ![c] = "rejected"]
      BY <3>2 DEF TypeOK
    <3>4. Quota!Reject(c)
      BY <3>1, <3>3 DEF Quota!Reject
    <3>5. QED BY <3>4 DEF Quota!Next
  <2>4. QED BY <1>3, <2>1, <2>2, <2>3
<1>6. ASSUME NEW c \in Client, SetExpiry(c) PROVE [Quota!Next]_(Quota!vars)
  <2>1. /\ pc[c] = "expire" /\ UNCHANGED count
        /\ pc' = [pc EXCEPT ![c] = "idle"]
        /\ verdict' = [verdict EXCEPT ![c] = "admitted"]
    BY <1>6 DEF SetExpiry, Decide
  <2>2. UNCHANGED used /\ UNCHANGED answer
    BY <2>1 DEF TypeOK
  <2>3. QED BY <1>1, <2>2
<1>7. CASE WindowEnds
  <2>1. used > 0 /\ used' = 0 /\ UNCHANGED answer
    BY <1>3, <1>7 DEF WindowEnds, OnePending
  <2>2. Quota!EndWindow
    BY <2>1 DEF Quota!EndWindow
  <2>3. QED BY <2>2 DEF Quota!Next
<1>8. CASE UNCHANGED vars
  <2>1. UNCHANGED used /\ UNCHANGED answer
    BY <1>8 DEF vars
  <2>2. QED BY <1>1, <2>1
<1>9. QED BY <1>2, <1>4, <1>5, <1>6, <1>7, <1>8 DEF Next

(* Every behaviour of enforce_chat_quota is one of the abstract quota, which*)
(* breaks when Redis or the process fails (its fairness is left to the run).*)
THEOREM QuotaRefines == Spec => Quota!Safety
<1>1. Init => Quota!Init
  <2> SUFFICES ASSUME Init PROVE Quota!Init
    OBVIOUS
  <2>1. (IF count > Limit THEN Limit ELSE count) = 0
    BY QuotaAssumption DEF Init
  <2>2. \A c \in Client : pc[c] # "expire" /\ verdict[c] = "none"
    BY DEF Init
  <2>3. faults = {}
    BY DEF Init
  <2>4. QED BY <2>1, <2>2, <2>3 DEF Quota!Init
<1>2. QED
  BY <1>1, QuotaInitType, QuotaStepType, QuotaInvariant, QuotaSimulates, PTL
     DEF Spec, Quota!Safety
=============================================================================
