-------------------------- MODULE HttpServiceProofs --------------------------
(***************************************************************************)
(* Theorems about the process and its requests, for any set of requests    *)
(* and any limits.                                                         *)
(***************************************************************************)
EXTENDS HttpService, FiniteSetTheorems, TLAPS

(* What the steps keep, beyond the types: a body grows only while it is     *)
(* received, whoever passed the edge was counted there, whoever waits for   *)
(* Redis knows that it was up, and whoever serves has a client.             *)
BodyKept ==
    \A r \in Request :
        /\ stage[r] # "answered" => status[r] = NoStatus
        /\ status[r] = 413 <=> buffered[r] > MaxBody
Passed(k) == {r \in passed : kind[r] = k}
PassedAreCounted == \A k \in Kinds : Cardinality(Passed(k)) <= used[k]
RedisWasSeen ==
    \A r \in Request : kind[r] = "ready" =>
        /\ status[r] = 200 => r \in sawRedis
        /\ Open(r) /\ redis = "up" => r \in sawRedis
ServingHasAClient ==
    /\ phase \in {"serving", "stopping"} => client
    /\ \A r \in Request : Open(r) => phase \in {"serving", "stopping"}
HttpInv == TypeOK /\ BodyKept /\ PassedAreCounted /\ RedisWasSeen /\ ServingHasAClient

LEMMA HttpInit == Init => HttpInv
<1> SUFFICES ASSUME Init PROVE HttpInv
  OBVIOUS
<1>1. /\ kind \in [Request -> Kinds] /\ flaw \in [Request -> SUBSET Flaw]
  BY ServiceAssumption DEF Init
<1>2. stage \in [Request -> Stage] /\ status \in [Request -> Status]
  BY DEF Init, Stage, Status
<1>3. buffered \in [Request -> 0 .. MaxBody + MaxChunk] /\ used \in [Kinds -> 0 .. EdgeLimit]
  BY ServiceAssumption DEF Init
<1>4. phase \in Phase /\ client \in BOOLEAN /\ redis \in RedisState /\ failed \in BOOLEAN
  BY DEF Init, Phase
<1>5. passed \subseteq Request /\ sawRedis \subseteq Request /\ stops \in 0 .. MaxStops
  BY ServiceAssumption DEF Init
<1>6. TypeOK
  BY <1>1, <1>2, <1>3, <1>4, <1>5 DEF TypeOK
<1>7. PassedAreCounted
  <2>1. \A k \in Kinds : Passed(k) = {} /\ used[k] = 0
    BY DEF Init, Passed
  <2>2. QED BY <2>1, FS_EmptySet DEF PassedAreCounted
<1>8. QED
  BY <1>6, <1>7, ServiceAssumption
     DEF Init, HttpInv, BodyKept, RedisWasSeen, ServingHasAClient, Open, NoStatus

-----------------------------------------------------------------------------
(* What a step of an endpoint does to the request, and to no other.         *)
Rest == <<process, redis, asked, buffered, sawRedis>>
Ends(r) ==
    \E code \in Status \ {NoStatus, Refused, 413} :
        /\ Answer(r, code)
        /\ kind[r] = "ready" /\ code = 200 => redis = "up"
GoesOn(r) == \E s \in {"limiter", "ping", "quota", "work"} : Goto(r, s) /\ UNCHANGED status
Counts(r) ==
    /\ used[kind[r]] < EdgeLimit /\ used' = [used EXCEPT ![kind[r]] = @ + 1]
    /\ passed' = passed \cup {r}
Served(r) ==
    /\ stage[r] \in {"app", "limiter", "ping", "quota", "work"} /\ UNCHANGED Rest
    /\ Ends(r) \/ GoesOn(r)
    /\ UNCHANGED <<used, passed>> \/ Counts(r)

LEMMA RejectionCodes ==
    ASSUME NEW f \in SUBSET Flaw
    PROVE  Rejection(f) \in {400, 401, 422, NoStatus}
BY DEF Rejection

LEMMA AnswerEnds ==
    ASSUME NEW r \in Request, NEW code \in {200, 400, 401, 422, 429, 500, 502, 503, 504},
           Answer(r, code), kind[r] = "ready" /\ code = 200 => redis = "up"
    PROVE  Ends(r)
BY DEF Ends, Status, NoStatus, Refused

LEMMA ServeServes ==
    ASSUME HttpInv, NEW r \in Request, Serve(r) \/ ConnectionTimesOut(r)
    PROVE  Served(r)
<1> USE DEF RunsAt
<1>1. flaw[r] \in SUBSET Flaw
  BY DEF HttpInv, TypeOK
<1>2. CASE Live(r)
  BY <1>2, AnswerEnds DEF Live, Served, Rest
<1>3. CASE Reject(r)
  <2>1. /\ Rejection(flaw[r]) \in {400, 401, 422} /\ Answer(r, Rejection(flaw[r]))
        /\ stage[r] = "app" /\ UNCHANGED <<used, passed>> /\ UNCHANGED Rest
        /\ kind[r] # "ready"
    BY <1>1, <1>3, RejectionCodes DEF Reject, Rest, Screened
  <2>2. Ends(r)
    BY <2>1, AnswerEnds
  <2>3. QED BY <2>1, <2>2 DEF Served
<1>4. CASE CallLimiter(r)
  BY <1>4 DEF CallLimiter, Served, Rest, GoesOn
<1>5. CASE RejectAtEdge(r) \/ LimiterFails(r) \/ ConnectionTimesOut(r)
  BY <1>5, AnswerEnds DEF RejectAtEdge, LimiterFails, ConnectionTimesOut, Served, Rest
<1>6. CASE Admit(r)
  <2>1. Counts(r) /\ stage[r] = "limiter" /\ UNCHANGED Rest
    BY <1>6 DEF Admit, Counts, Rest
  <2>2. Ends(r) \/ GoesOn(r)
    BY <1>6, AnswerEnds DEF Admit, GoesOn
  <2>3. QED BY <2>1, <2>2 DEF Served
<1>7. CASE PassQuota(r)
  BY <1>7, AnswerEnds DEF PassQuota, Served, Rest, GoesOn
<1>8. CASE Work(r)
  BY <1>8, AnswerEnds DEF Work, Served, Rest
<1>9. CASE Probe(r)
  BY <1>9, AnswerEnds DEF Probe, Served, Rest, GoesOn
<1>10. CASE Ping(r)
  BY <1>10, AnswerEnds DEF Ping, PingAnswered, Served, Rest
<1>11. QED BY <1>2, <1>3, <1>4, <1>5, <1>6, <1>7, <1>8, <1>9, <1>10 DEF Serve

(* Who is let through is counted, and a count without that does no harm.    *)
LEMMA UncountedAtEdge ==
    ASSUME PassedAreCounted, UNCHANGED <<asked, used, passed>>
    PROVE  PassedAreCounted'
BY DEF PassedAreCounted, Passed, asked

LEMMA CountedAtEdge ==
    ASSUME TypeOK, PassedAreCounted, NEW r \in Request, UNCHANGED asked,
           used' = [used EXCEPT ![kind[r]] = used[kind[r]] + 1],
           passed' = passed \cup {r} \/ UNCHANGED passed
    PROVE  PassedAreCounted'
<1> SUFFICES ASSUME NEW k \in Kinds PROVE Cardinality(Passed(k)') <= used'[k]
  BY DEF PassedAreCounted
<1>1. /\ used[k] \in Nat /\ Cardinality(Passed(k)) <= used[k]
      /\ used'[k] = IF k = kind[r] THEN used[k] + 1 ELSE used[k]
  BY ServiceAssumption DEF PassedAreCounted, TypeOK
<1>2. IsFiniteSet(Passed(k)) /\ Cardinality(Passed(k)) \in Nat
  <2>1. Passed(k) \in SUBSET Request
    BY DEF Passed, TypeOK
  <2>2. QED BY <2>1, ServiceAssumption, FS_Subset, FS_CardinalityType
<1>3. CASE Passed(k)' = Passed(k)
  BY <1>1, <1>2, <1>3
<1>4. CASE k = kind[r] /\ Passed(k)' = Passed(k) \cup {r}
  <2> DEFINE S == Passed(k)
  <2>1. IsFiniteSet(S) /\ Cardinality(S) \in Nat
    BY <1>2
  <2> HIDE DEF S
  <2>2. Cardinality(S \cup {r}) = IF r \in S THEN Cardinality(S) ELSE Cardinality(S) + 1
    BY <2>1, FS_AddElement
  <2>3. Cardinality(S \cup {r}) <= Cardinality(S) + 1
    BY <2>1, <2>2
  <2>4. Cardinality(S \cup {r}) \in Nat
    BY <2>1, <2>2
  <2>5. QED BY <1>1, <1>4, <2>1, <2>3, <2>4 DEF S
<1>5. Passed(k)' = Passed(k) \/ (k = kind[r] /\ Passed(k)' = Passed(k) \cup {r})
  BY DEF Passed, asked
<1>6. QED BY <1>3, <1>4, <1>5

LEMMA HttpServed ==
    ASSUME HttpInv, NEW r \in Request, Served(r)
    PROVE  HttpInv'
<1> USE DEF Rest, process, asked
<1>1. TypeOK
  BY DEF HttpInv
<1>2. \/ \E code \in Status \ {NoStatus, Refused, 413} :
           /\ stage' = [stage EXCEPT ![r] = "answered"] /\ status' = [status EXCEPT ![r] = code]
           /\ kind[r] = "ready" /\ code = 200 => redis = "up"
      \/ /\ \E s \in {"limiter", "ping", "quota", "work"} : stage' = [stage EXCEPT ![r] = s]
         /\ UNCHANGED status
  BY DEF Served, Ends, GoesOn, Answer, Goto
<1>3. stage' \in [Request -> Stage] /\ status' \in [Request -> Status]
  BY <1>1, <1>2 DEF TypeOK, Stage
<1>4. TypeOK'
  <2>1. passed' \subseteq Request
    BY <1>1 DEF Served, Counts, TypeOK
  <2>2. used' \in [Kinds -> 0 .. EdgeLimit]
    BY <1>1, ServiceAssumption DEF Served, Counts, TypeOK
  <2>3. QED BY <1>1, <1>3, <2>1, <2>2 DEF Served, TypeOK
<1>5. BodyKept'
  BY <1>1, <1>2 DEF HttpInv, BodyKept, Served, TypeOK, NoStatus, Status
<1>6. PassedAreCounted'
  BY <1>1, UncountedAtEdge, CountedAtEdge DEF HttpInv, Served, Counts
<1>7. RedisWasSeen'
  <2> SUFFICES ASSUME NEW q \in Request, kind[q] = "ready"
               PROVE  /\ status'[q] = 200 => q \in sawRedis
                      /\ Open(q)' /\ redis = "up" => q \in sawRedis
    BY DEF RedisWasSeen, Served
  <2>1. Open(q)' => Open(q)
    BY <1>1, <1>2 DEF Open, Served, TypeOK
  <2>2. status'[q] = 200 => status[q] = 200 \/ (Open(q) /\ redis = "up")
    BY <1>1, <1>2 DEF Open, Served, TypeOK
  <2>3. QED BY <2>1, <2>2 DEF HttpInv, RedisWasSeen
<1>8. ServingHasAClient'
  BY <1>1, <1>2 DEF HttpInv, ServingHasAClient, Served, Open, TypeOK
<1>9. QED BY <1>4, <1>5, <1>6, <1>7, <1>8 DEF HttpInv

LEMMA HttpArrives ==
    ASSUME HttpInv, NEW r \in Request, Arrive(r)
    PROVE  HttpInv'
<1> USE DEF process, asked, Answer, Goto
<1>1. TypeOK /\ TypeOK'
  <2>1. stage' \in [Request -> Stage] /\ status' \in [Request -> Status]
    BY DEF HttpInv, Arrive, TypeOK, Stage, Status
  <2>2. sawRedis' \subseteq Request
    BY DEF HttpInv, Arrive, TypeOK
  <2>3. QED BY <2>1, <2>2 DEF HttpInv, Arrive, TypeOK
<1>2. BodyKept'
  BY <1>1 DEF HttpInv, BodyKept, Arrive, TypeOK, NoStatus, Refused
<1>3. PassedAreCounted'
  BY UncountedAtEdge DEF HttpInv, Arrive
<1>4. RedisWasSeen'
  BY <1>1 DEF HttpInv, RedisWasSeen, Open, Arrive, TypeOK, Refused
<1>5. ServingHasAClient'
  BY <1>1 DEF HttpInv, ServingHasAClient, Open, Arrive, TypeOK
<1>6. QED BY <1>1, <1>2, <1>3, <1>4, <1>5 DEF HttpInv

LEMMA HttpReceives ==
    ASSUME HttpInv, NEW r \in Request, ReceiveChunk(r)
    PROVE  HttpInv'
<1> USE DEF process, asked, Answer, Goto
<1>1. PICK n \in 0 .. MaxChunk :
        /\ buffered' = [buffered EXCEPT ![r] = buffered[r] + n]
        /\ \/ /\ buffered[r] + n > MaxBody
              /\ stage' = [stage EXCEPT ![r] = "answered"] /\ status' = [status EXCEPT ![r] = 413]
           \/ /\ ~(buffered[r] + n > MaxBody) /\ UNCHANGED status
              /\ UNCHANGED stage \/ stage' = [stage EXCEPT ![r] = "app"]
  BY DEF ReceiveChunk, TooLarge
<1>2. TypeOK /\ stage[r] = "body" /\ status[r] = NoStatus /\ buffered[r] <= MaxBody
  BY ServiceAssumption DEF HttpInv, BodyKept, TypeOK, ReceiveChunk, RunsAt, NoStatus
<1>3. TypeOK'
  <2>1. stage' \in [Request -> Stage] /\ status' \in [Request -> Status]
    BY <1>1, <1>2 DEF TypeOK, Stage, Status
  <2>2. buffered' \in [Request -> 0 .. MaxBody + MaxChunk]
    BY <1>1, <1>2, ServiceAssumption DEF TypeOK
  <2>3. QED BY <1>2, <2>1, <2>2 DEF ReceiveChunk, TypeOK
<1>4. BodyKept'
  BY <1>1, <1>2, <1>3, ServiceAssumption DEF HttpInv, BodyKept, TypeOK, NoStatus
<1>5. PassedAreCounted'
  BY UncountedAtEdge DEF HttpInv, ReceiveChunk
<1>6. RedisWasSeen'
  BY <1>1, <1>2 DEF HttpInv, RedisWasSeen, Open, ReceiveChunk, TypeOK
<1>7. ServingHasAClient'
  BY <1>1, <1>2 DEF HttpInv, ServingHasAClient, Open, ReceiveChunk, TypeOK
<1>8. QED BY <1>3, <1>4, <1>5, <1>6, <1>7 DEF HttpInv

LEMMA HttpDisconnects ==
    ASSUME HttpInv, NEW r \in Request, Disconnect(r)
    PROVE  HttpInv'
<1> USE DEF process, asked, Goto
<1>1. TypeOK /\ TypeOK'
  BY DEF HttpInv, Disconnect, TypeOK, Stage
<1>2. BodyKept' /\ PassedAreCounted'
  BY <1>1, UncountedAtEdge DEF HttpInv, BodyKept, Disconnect, TypeOK
<1>3. RedisWasSeen' /\ ServingHasAClient'
  BY <1>1 DEF HttpInv, RedisWasSeen, ServingHasAClient, Open, Disconnect, TypeOK
<1>4. QED BY <1>1, <1>2, <1>3 DEF HttpInv

(* The steps of the process and of Redis.                                   *)
Platform ==
    Start \/ Connect \/ Stop \/ CloseRedis \/ Kill \/ RedisFails \/ RedisReturns \/ EdgeWindowEnds

LEMMA HttpPlatform == HttpInv /\ Platform => HttpInv'
<1> SUFFICES ASSUME HttpInv, Platform PROVE HttpInv'
  OBVIOUS
<1> USE DEF process, asked, progress, HttpInv
<1>1. ASSUME Start \/ Connect \/ Stop \/ CloseRedis PROVE HttpInv'
  <2>1. TypeOK'
    <3>1. /\ phase' \in Phase /\ client' \in BOOLEAN
      BY <1>1 DEF Start, Connect, Stop, CloseRedis, PhaseWithoutRedis, TypeOK, Phase
    <3>2. failed' \in BOOLEAN
      BY <1>1 DEF Start, Connect, Stop, CloseRedis, TypeOK
    <3>3. stops' \in 0 .. MaxStops
      BY <1>1, ServiceAssumption DEF Start, Connect, Stop, CloseRedis, TypeOK
    <3>4. used' \in [Kinds -> 0 .. EdgeLimit]
      BY <1>1 DEF Start, CountersInRedis, Connect, Stop, CloseRedis, TypeOK
    <3>5. QED BY <1>1, <3>1, <3>2, <3>3, <3>4 DEF Start, Connect, Stop, CloseRedis, TypeOK
  <2>2. BodyKept' /\ PassedAreCounted' /\ RedisWasSeen'
    BY <1>1, UncountedAtEdge
       DEF Start, CountersInRedis, Connect, Stop, CloseRedis, BodyKept, RedisWasSeen, Open
  <2>3. ServingHasAClient'
    BY <1>1 DEF Start, Connect, Stop, CloseRedis, PhaseWithoutRedis, Drained,
                ServingHasAClient, Open
  <2>4. QED BY <2>1, <2>2, <2>3
<1>2. ASSUME Kill PROVE HttpInv'
  <2>1. TypeOK /\ TypeOK'
    BY <1>2 DEF Kill, TypeOK, Phase, Stage
  <2>2. \A r \in Request : ~Open(r)' /\ (stage'[r] # "answered" => stage[r] # "answered")
    BY <1>2, <2>1 DEF Kill, Open, TypeOK
  <2>3. BodyKept' /\ RedisWasSeen' /\ ServingHasAClient'
    BY <1>2, <2>2 DEF Kill, BodyKept, RedisWasSeen, ServingHasAClient
  <2>4. PassedAreCounted'
    BY <1>2, UncountedAtEdge DEF Kill
  <2>5. QED BY <2>1, <2>3, <2>4
<1>3. ASSUME RedisFails \/ RedisReturns \/ EdgeWindowEnds PROVE HttpInv'
  <2>1. TypeOK'
    <3>1. used' \in [Kinds -> 0 .. EdgeLimit]
      BY <1>3, ServiceAssumption DEF RedisFails, RedisReturns, EdgeWindowEnds, TypeOK
    <3>2. sawRedis' \subseteq Request /\ redis' \in RedisState
      BY <1>3 DEF RedisFails, RedisReturns, EdgeWindowEnds, TypeOK, RedisState
    <3>3. QED BY <1>3, <3>1, <3>2 DEF RedisFails, RedisReturns, EdgeWindowEnds, TypeOK, RedisState
  <2>2. BodyKept' /\ ServingHasAClient'
    BY <1>3 DEF RedisFails, RedisReturns, EdgeWindowEnds, BodyKept, ServingHasAClient, Open
  <2>3. PassedAreCounted'
    <3>1. CASE UNCHANGED <<used, passed>>
      BY <1>3, <3>1, UncountedAtEdge DEF RedisFails, RedisReturns, EdgeWindowEnds
    <3>2. ASSUME NEW k \in Kinds, used' = [used EXCEPT ![k] = 0], UNCHANGED asked,
                 passed' = {r \in passed : kind[r] # k}
          PROVE  PassedAreCounted'
      <4> SUFFICES ASSUME NEW j \in Kinds PROVE Cardinality(Passed(j)') <= used'[j]
        BY DEF PassedAreCounted
      <4>1. CASE j = k
        <5>1. Passed(j)' = {} /\ used'[j] = 0
          BY <3>2, <4>1 DEF Passed, asked, TypeOK
        <5>2. QED BY <5>1, FS_EmptySet
      <4>2. CASE j # k
        BY <3>2, <4>2 DEF Passed, asked, TypeOK, PassedAreCounted
      <4>3. QED BY <4>1, <4>2
    <3>3. QED BY <1>3, <3>1, <3>2 DEF RedisFails, RedisReturns, EdgeWindowEnds
  <2>4. RedisWasSeen'
    BY <1>3 DEF RedisFails, RedisReturns, EdgeWindowEnds, RedisWasSeen, Open
  <2>5. QED BY <2>1, <2>2, <2>3, <2>4
<1>4. QED BY <1>1, <1>2, <1>3 DEF Platform

LEMMA HttpLosesACount ==
    ASSUME HttpInv, NEW r \in Request, CountIsLost(r)
    PROVE  HttpInv'
<1> USE DEF process, asked, progress
<1>1. TypeOK /\ TypeOK'
  BY ServiceAssumption DEF HttpInv, CountIsLost, TypeOK
<1>2. BodyKept' /\ RedisWasSeen' /\ ServingHasAClient'
  BY DEF HttpInv, CountIsLost, BodyKept, RedisWasSeen, ServingHasAClient, Open
<1>3. PassedAreCounted'
  BY <1>1, CountedAtEdge DEF HttpInv, CountIsLost
<1>4. QED BY <1>1, <1>2, <1>3 DEF HttpInv

LEMMA HttpStep == HttpInv /\ [Next]_vars => HttpInv'
<1> SUFFICES ASSUME HttpInv, [Next]_vars PROVE HttpInv'
  OBVIOUS
<1>1. CASE UNCHANGED vars
  BY <1>1, UncountedAtEdge
     DEF vars, process, asked, progress, HttpInv, TypeOK, BodyKept, RedisWasSeen,
         ServingHasAClient, Open
<1>2. CASE Platform
  BY <1>2, HttpPlatform
<1>3. ASSUME NEW r \in Request,
             \/ Arrive(r) \/ ReceiveChunk(r) \/ Disconnect(r)
             \/ Serve(r) \/ CountIsLost(r) \/ ConnectionTimesOut(r)
      PROVE  HttpInv'
  BY <1>3, HttpArrives, HttpReceives, HttpDisconnects, ServeServes, HttpServed, HttpLosesACount
<1>4. QED BY <1>1, <1>2, <1>3 DEF Next, Platform

LEMMA HttpInvariant == Spec => []HttpInv
BY HttpInit, HttpStep, PTL DEF Spec

-----------------------------------------------------------------------------
(* Bodies never outgrow the buffer by more than a chunk, and the edge never *)
(* counts beyond its limit.                                                 *)
THEOREM ServiceIsTyped == Spec => []TypeOK
<1>1. HttpInv => TypeOK
  BY DEF HttpInv
<1>2. QED BY <1>1, HttpInvariant, PTL

(* However a body is cut into chunks, no endpoint sees one beyond the limit *)
(* and none within it is refused (http/request_limits.py:46).               *)
THEOREM BodyIsAlwaysLimited == Spec => []BodyIsLimited
<1>1. HttpInv => BodyIsLimited
  BY ServiceAssumption DEF HttpInv, BodyKept, BodyIsLimited, TypeOK, NoStatus, Refused
<1>2. QED BY <1>1, HttpInvariant, PTL

(* The edge limit (tooling/ratelimit.py:7) holds for any number of requests *)
(* over any sequence of deployments, kills, outages and lost replies in a   *)
(* window, because the count is kept where none of them reaches it.         *)
THEOREM EdgeLimitAlwaysOutlivesTheProcess == Spec => []EdgeLimitOutlivesTheProcess
<1>1. HttpInv => EdgeLimitOutlivesTheProcess
  <2> SUFFICES ASSUME HttpInv, NEW k \in Kinds
               PROVE  Cardinality({r \in passed : kind[r] = k}) <= EdgeLimit
    BY DEF EdgeLimitOutlivesTheProcess
  <2>1. Passed(k) \in SUBSET Request /\ used[k] \in 0 .. EdgeLimit
    BY DEF HttpInv, TypeOK, Passed
  <2>2. Cardinality(Passed(k)) \in Nat /\ Cardinality(Passed(k)) <= used[k]
    BY <2>1, ServiceAssumption, FS_Subset, FS_CardinalityType DEF HttpInv, PassedAreCounted
  <2>3. Cardinality(Passed(k)) <= EdgeLimit
    BY <2>1, <2>2, ServiceAssumption
  <2>4. QED BY <2>3 DEF Passed
<1>2. QED BY <1>1, HttpInvariant, PTL

(* "ready" means that Redis was up since the probe arrived (health.py:10).  *)
THEOREM ReadinessIsAlwaysHonest == Spec => []ReadinessIsHonest
<1>1. HttpInv => ReadinessIsHonest
  BY DEF HttpInv, RedisWasSeen, ReadinessIsHonest
<1>2. QED BY <1>1, HttpInvariant, PTL

(* The client outlives the requests that use it (main.py:71).               *)
THEOREM OpenRequestsAlwaysHaveAClient == Spec => []OpenRequestsHaveAClient
<1>1. HttpInv => OpenRequestsHaveAClient
  BY DEF HttpInv, ServingHasAClient, OpenRequestsHaveAClient
<1>2. QED BY <1>1, HttpInvariant, PTL
=============================================================================
