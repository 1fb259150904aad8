----------------------------- MODULE HttpService -----------------------------
(***************************************************************************)
(* The process around the endpoints: start-up and shutdown (main.py,       *)
(* redis_client.py), the health probes (health.py), the body limit every   *)
(* request passes (http/request_limits.py), and the order in which         *)
(* routes.py checks a request before it spends anything on it.             *)
(*                                                                         *)
(* Redis comes and goes: it is up, it refuses connections, or it is silent.*)
(* The session client of redis_client.py is asynchronous and waits at most *)
(* five seconds for it.  The edge limiter (SlowAPI, tooling/ratelimit.py)  *)
(* has a client of its own, which is synchronous, has no time limit, and is*)
(* called on the event loop: while it waits, nothing else in the process   *)
(* goes on.  Its counters are in Redis and outlive the process.            *)
(*                                                                         *)
(* The platform starts the process again when it ends.  A body arrives in  *)
(* chunks whose sizes nobody announces; sizes are in units of the largest  *)
(* step the limit can tell apart.                                          *)
(***************************************************************************)
EXTENDS Naturals, FiniteSets

CONSTANTS
    Request,
    Kind,       \* the endpoints that are used, "provider" being any one of three
    Flaws,      \* what may be wrong with a request, {} for nothing
    MaxBody,    \* MAX_REQUEST_BODY_BYTES
    MaxChunk,   \* the largest chunk the server passes on
    EdgeLimit,  \* requests of one address to one endpoint in a window
    MaxStops    \* bound: deployments

Kinds == {"live", "ready", "health", "session", "session_health", "provider", "chat"}
Flaw == {"json", "key", "session", "fields"}
Checked(k) ==      \* what an endpoint checks
    CASE k = "chat" -> Flaw [] k = "provider" -> {"key", "fields"}
      [] k = "session" -> {"key"} [] OTHER -> {}

ASSUME ServiceAssumption ==
    /\ IsFiniteSet(Request)
    /\ Kind \subseteq Kinds /\ Flaws \subseteq SUBSET Flaw
    /\ MaxBody \in Nat /\ MaxChunk \in Nat \ {0} /\ EdgeLimit \in Nat /\ MaxStops \in Nat

VARIABLES
    phase,     \* of the process
    client,    \* redis_client.redis is not None
    redis,
    kind, flaw,  \* what each request asks for, and what is wrong with it
    stage,     \* how far each request is
    buffered,  \* the size of its body so far
    status,    \* the answer it got
    used,      \* what the edge limiter has counted for each endpoint, in Redis
    passed,    \* ghost: the requests it let through in that window
    sawRedis,  \* ghost: the probes since whose arrival Redis has been up once
    failed,    \* ghost: the last start failed for want of Redis
    stops

process == <<phase, client, failed, stops>>
asked == <<kind, flaw>>
progress == <<stage, buffered, status>>
vars == <<process, redis, asked, progress, used, passed, sawRedis>>

RedisState == {"up", "down", "silent"}   \* down: it refuses connections
Phase == {"down", "starting", "serving", "stopping"}
Stage == {"new", "body", "app", "limiter", "ping", "quota", "work", "answered", "dropped"}
NoStatus == 0
Refused == 1   \* nobody listens
Status == {NoStatus, Refused, 200, 400, 401, 413, 422, 429, 500, 502, 503, 504}

TypeOK ==
    /\ phase \in Phase /\ client \in BOOLEAN /\ redis \in RedisState
    /\ kind \in [Request -> Kinds] /\ flaw \in [Request -> SUBSET Flaw]
    /\ stage \in [Request -> Stage]
    /\ buffered \in [Request -> 0 .. MaxBody + MaxChunk]
    /\ status \in [Request -> Status]
    /\ used \in [Kinds -> 0 .. EdgeLimit]
    /\ passed \subseteq Request /\ sawRedis \subseteq Request
    /\ failed \in BOOLEAN /\ stops \in 0 .. MaxStops

Init ==
    /\ phase = "down" /\ client = FALSE /\ redis \in RedisState
    /\ kind \in [Request -> Kind]
    /\ flaw \in [Request -> Flaws] /\ \A r \in Request : flaw[r] \subseteq Checked(kind[r])
    /\ stage = [r \in Request |-> "new"]
    /\ buffered = [r \in Request |-> 0]
    /\ status = [r \in Request |-> NoStatus]
    /\ used = [k \in Kinds |-> 0]
    /\ passed = {} /\ sawRedis = {}
    /\ failed = FALSE /\ stops = 0

-----------------------------------------------------------------------------
(* The process.                                                             *)
Open(r) == stage[r] \in {"body", "app", "limiter", "ping", "quota", "work"}

(* A request in the limiter holds the event loop; the others are where they *)
(* are until the limiter's client has its reply or its error.               *)
Blocked == \E r \in Request : stage[r] = "limiter"
RunsAt(r, s) == stage[r] = s /\ ~Blocked

CountersInMemory == [k \in Kinds |-> 0]       \* mutant: no storage_uri
CountersInRedis == used
Start ==
    /\ phase = "down"
    /\ phase' = "starting"
    /\ used' = CountersInRedis
    /\ UNCHANGED <<client, failed, stops, redis, asked, progress, passed, sawRedis>>

(* lifespan awaits init_redis, whose ping must answer; else start-up fails. *)
SwallowedFailure == "serving"    \* mutant: the error is caught and start-up goes on
PhaseWithoutRedis == "down"
Connect ==
    /\ phase = "starting"
    /\ \/ redis = "up" /\ phase' = "serving" /\ client' = TRUE /\ failed' = FALSE
       \/ redis # "up" /\ phase' = PhaseWithoutRedis /\ failed' = TRUE /\ UNCHANGED client
    /\ UNCHANGED <<stops, redis, asked, progress, used, passed, sawRedis>>

(* A deployment: the server takes no new requests, and after the open ones  *)
(* the lifespan closes the client.                                          *)
Stop ==
    /\ phase = "serving" /\ ~Blocked /\ stops < MaxStops
    /\ phase' = "stopping" /\ stops' = stops + 1
    /\ UNCHANGED <<client, failed, redis, asked, progress, used, passed, sawRedis>>
ClosesAtOnce == TRUE                             \* mutant
Drained == ~\E r \in Request : Open(r)
CloseRedis ==
    /\ phase = "stopping" /\ client /\ Drained
    /\ phase' = "down" /\ client' = FALSE /\ failed' = FALSE
    /\ UNCHANGED <<stops, redis, asked, progress, used, passed, sawRedis>>

(* The platform kills a process: one that takes too long to stop, as a body *)
(* may never come to its end, or one whose loop is held, which neither      *)
(* answers the container's health check nor hears that it should stop.      *)
Kill ==
    /\ phase = "stopping" \/ Blocked
    /\ phase' = "down" /\ client' = FALSE /\ failed' = FALSE
    /\ stage' = [r \in Request |-> IF Open(r) THEN "dropped" ELSE stage[r]]
    /\ UNCHANGED <<stops, redis, asked, buffered, status, used, passed, sawRedis>>

RedisFails ==
    /\ \E s \in {"down", "silent"} \ {redis} : redis' = s
    /\ UNCHANGED <<process, asked, progress, used, passed, sawRedis>>
RedisReturns ==
    /\ redis # "up" /\ redis' = "up"
    /\ sawRedis' = sawRedis \cup {r \in Request : kind[r] = "ready" /\ Open(r)}
    /\ UNCHANGED <<process, asked, progress, used, passed>>

-----------------------------------------------------------------------------
(* The body.                                                                *)
Goto(r, s) == stage' = [stage EXCEPT ![r] = s]
Answer(r, code) == Goto(r, "answered") /\ status' = [status EXCEPT ![r] = code]

Arrive(r) ==
    /\ stage[r] = "new"
    /\ IF phase = "serving"
       THEN Goto(r, "body") /\ sawRedis' = sawRedis \cup {p \in {r} : kind[p] = "ready" /\ redis = "up"}
            /\ UNCHANGED status
       ELSE Answer(r, Refused) /\ UNCHANGED sawRedis
    /\ UNCHANGED <<process, redis, asked, buffered, used, passed>>

TooLargeBefore(old, n) == old > MaxBody          \* mutant: checked before it is extended
TooLarge(old, n) == old + n > MaxBody
ReceiveChunk(r) ==
    /\ RunsAt(r, "body")
    /\ \E n \in 0 .. MaxChunk, more \in BOOLEAN :
         /\ buffered' = [buffered EXCEPT ![r] = @ + n]
         /\ CASE TooLarge(buffered[r], n) -> Answer(r, 413)
              [] ~TooLarge(buffered[r], n) /\ more -> UNCHANGED <<stage, status>>
              [] OTHER -> Goto(r, "app") /\ UNCHANGED status
    /\ UNCHANGED <<process, redis, asked, used, passed, sawRedis>>

(* The client goes away: nobody is answered.                                *)
Disconnect(r) ==
    /\ stage[r] = "body"
    /\ Goto(r, "dropped")
    /\ UNCHANGED <<process, redis, asked, buffered, status, used, passed, sawRedis>>

-----------------------------------------------------------------------------
(* The endpoints, which get the body as one message.                        *)
Screened(r) == kind[r] \notin {"live", "ready"}

(* The first check that fails decides: JSON, key, session token, fields.    *)
Rejection(f) ==
    CASE "json" \in f -> 400
      [] "json" \notin f /\ f \cap {"key", "session"} # {} -> 401
      [] f = {"fields"} -> 422
      [] OTHER -> NoStatus

Live(r) ==
    /\ RunsAt(r, "app") /\ kind[r] = "live"
    /\ Answer(r, 200)
    /\ UNCHANGED <<process, redis, asked, buffered, used, passed, sawRedis>>

Reject(r) ==
    /\ RunsAt(r, "app") /\ Screened(r) /\ Rejection(flaw[r]) # NoStatus
    /\ Answer(r, Rejection(flaw[r]))
    /\ UNCHANGED <<process, redis, asked, buffered, used, passed, sawRedis>>

(* The wrapper of @limiter.limit counts the request before its endpoint.    *)
CallLimiter(r) ==
    /\ RunsAt(r, "app") /\ Screened(r) /\ Rejection(flaw[r]) = NoStatus
    /\ Goto(r, "limiter")
    /\ UNCHANGED <<process, redis, asked, buffered, status, used, passed, sawRedis>>

RejectAtEdge(r) ==
    /\ stage[r] = "limiter" /\ redis = "up" /\ used[kind[r]] = EdgeLimit
    /\ Answer(r, 429)
    /\ UNCHANGED <<process, redis, asked, buffered, used, passed, sawRedis>>

(* Counted, a request gets to its endpoint.  That there is a client is all  *)
(* that ensure_session_store_ready looks at.                                *)
Admit(r) ==
    /\ stage[r] = "limiter" /\ redis = "up" /\ used[kind[r]] < EdgeLimit
    /\ used' = [used EXCEPT ![kind[r]] = @ + 1]
    /\ passed' = passed \cup {r}
    /\ CASE kind[r] = "provider" -> Goto(r, "work") /\ UNCHANGED status
         [] kind[r] = "chat" /\ client -> Goto(r, "quota") /\ UNCHANGED status
         [] OTHER -> Answer(r, IF client \/ kind[r] = "health" THEN 200 ELSE 503)
    /\ UNCHANGED <<process, redis, asked, buffered, sawRedis>>

(* Redis counts, but the reply is lost: redis-py asks again, or gives up.   *)
CountIsLost(r) ==
    /\ stage[r] = "limiter" /\ redis = "up" /\ used[kind[r]] < EdgeLimit
    /\ used' = [used EXCEPT ![kind[r]] = @ + 1]
    /\ UNCHANGED <<process, redis, asked, progress, passed, sawRedis>>

(* The limiter has neither swallow_errors nor a fallback in memory.  From a *)
(* Redis that refuses it has its error soon; from a silent one only when    *)
(* the operating system gives up, which it need not do.                     *)
LimiterFails(r) ==
    /\ stage[r] = "limiter" /\ redis = "down"
    /\ Answer(r, 500)
    /\ UNCHANGED <<process, redis, asked, buffered, used, passed, sawRedis>>
ConnectionTimesOut(r) ==
    /\ stage[r] = "limiter" /\ redis = "silent"
    /\ Answer(r, 500)
    /\ UNCHANGED <<process, redis, asked, buffered, used, passed, sawRedis>>

EdgeWindowEnds ==
    /\ \E k \in Kinds :
         /\ used[k] > 0 /\ used' = [used EXCEPT ![k] = 0]
         /\ passed' = {r \in passed : kind[r] # k}
    /\ UNCHANGED <<process, redis, asked, progress, sawRedis>>

(* The chat quota (ChatQuota), which lets everything through without Redis. *)
PassQuota(r) ==
    /\ RunsAt(r, "quota")
    /\ \/ Goto(r, "work") /\ UNCHANGED status
       \/ redis = "up" /\ Answer(r, 429)
    /\ UNCHANGED <<process, redis, asked, buffered, used, passed, sawRedis>>

(* The provider calls, or the agent (Conversation) within its time limit.   *)
Work(r) ==
    /\ RunsAt(r, "work")
    /\ \/ kind[r] = "provider" /\ \E code \in {200, 500, 502} : Answer(r, code)
       \/ kind[r] = "chat" /\ \E code \in {500, 503, 504} : Answer(r, code)
       \/ kind[r] = "chat" /\ redis = "up" /\ Answer(r, 200)
    /\ UNCHANGED <<process, redis, asked, buffered, used, passed, sawRedis>>

(* check_readiness: without a client no, else what the ping says.           *)
Probe(r) ==
    /\ RunsAt(r, "app") /\ kind[r] = "ready"
    /\ IF client THEN Goto(r, "ping") /\ UNCHANGED status ELSE Answer(r, 503)
    /\ UNCHANGED <<process, redis, asked, buffered, used, passed, sawRedis>>
HangsInSilence == redis # "silent"    \* mutant: no socket_timeout
PingReturns == TRUE
ClientIsEnough == client        \* mutant: the ping is not looked at
PingAnswered == redis = "up"
Ping(r) ==
    /\ RunsAt(r, "ping") /\ PingReturns
    /\ \/ PingAnswered /\ Answer(r, 200)
       \/ Answer(r, 503)
    /\ UNCHANGED <<process, redis, asked, buffered, used, passed, sawRedis>>

-----------------------------------------------------------------------------
Serve(r) ==
    Live(r) \/ Reject(r) \/ CallLimiter(r) \/ RejectAtEdge(r) \/ Admit(r) \/ LimiterFails(r)
    \/ PassQuota(r) \/ Work(r) \/ Probe(r) \/ Ping(r)

Next ==
    \/ Start \/ Connect \/ Stop \/ CloseRedis \/ Kill \/ RedisFails \/ RedisReturns \/ EdgeWindowEnds
    \/ \E r \in Request :
         \/ Arrive(r) \/ ReceiveChunk(r) \/ Disconnect(r)
         \/ Serve(r) \/ CountIsLost(r) \/ ConnectionTimesOut(r)

(* The platform starts the process again, and kills one that does not stop. *)
(* Every await after the body has a time limit.  The limiter's call has     *)
(* none, and neither its end in silence nor a kill of the process that hangs*)
(* in it is taken for granted; when Redis can be reached again, or refuses, *)
(* the call ends.                                                           *)
Spec ==
    /\ Init /\ [][Next]_vars
    /\ WF_vars(Start) /\ WF_vars(Connect) /\ WF_vars(phase = "stopping" /\ Kill)
    /\ \A r \in Request : WF_vars(Serve(r))

-----------------------------------------------------------------------------
(* What an endpoint sees is a whole body within the limit, and a body that  *)
(* was refused for its size was too large, however it is cut into chunks.   *)
BodyIsLimited ==
    \A r \in Request :
        /\ stage[r] \in {"app", "limiter", "ping", "quota", "work"}
              \/ status[r] \notin {NoStatus, Refused, 413}
              => buffered[r] <= MaxBody
        /\ status[r] = 413 => buffered[r] > MaxBody

(* In a window no more requests to an endpoint get past the edge than its   *)
(* limit, whatever becomes of the process in it: neither a deployment, nor a*)
(* kill, nor an outage, nor a reply that is lost gives anybody a new budget.*)
EdgeLimitOutlivesTheProcess ==
    \A k \in Kinds : Cardinality({r \in passed : kind[r] = k}) <= EdgeLimit

(* "ready" is never said of a Redis that was unreachable all the time.      *)
ReadinessIsHonest ==
    \A r \in Request : kind[r] = "ready" /\ status[r] = 200 => r \in sawRedis

(* A request that has been let in has a client until it is answered, also   *)
(* while the process stops: the endpoints never have to connect again.      *)
OpenRequestsHaveAClient == \A r \in Request : Open(r) => client

(* After an outage, of any kind and length and at any moment, even during   *)
(* start-up or a call of the limiter, the service comes back by itself, and *)
(* nothing holds its event loop.                                            *)
RecoversWithRedis == <>[](redis = "up") => <>[](phase = "serving" /\ client /\ ~Blocked)

(* A request whose body has arrived is answered, also while Redis refuses   *)
(* or is silent, or its process is killed, unless a call of the limiter     *)
(* holds the event loop for good.  Only a silent Redis can make it do that. *)
EveryBodyIsAnswered ==
    []<>~Blocked \/ <>[](redis # "silent") =>
        \A r \in Request : stage[r] = "app" ~> stage[r] \in {"answered", "dropped"}

(* "Liveness does not require Redis" (docs/architecture-and-operations.md), *)
(* test_liveness_does_not_require_redis: nobody is refused a liveness probe *)
(* because Redis is not there.                                              *)
LivenessNeedsNoRedis ==
    \A r \in Request : kind[r] = "live" /\ status[r] = Refused => ~failed
=============================================================================
