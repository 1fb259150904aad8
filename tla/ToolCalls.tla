------------------------------ MODULE ToolCalls ------------------------------
(***************************************************************************)
(* The agent's tools (src/app/agent/agent_tools.py) with what they share:  *)
(* the cache in Redis and its client (src/app/tooling/sync_cache.py), which*)
(* is made by the first tool that needs it, and the providers, which are   *)
(* asked with a bounded number of retries (http_client.py,                 *)
(* retry_policy.py).  LangGraph runs each tool in a thread of its own.     *)
(*                                                                         *)
(* The place, the horizon and the query are the same in all calls, so the  *)
(* cache has one key for each of its prefixes.  What is cached is the set  *)
(* of the sources it was made from.  Tokens are the subject of RateLimiter;*)
(* here an acquire just returns at some time.                              *)
(***************************************************************************)
EXTENDS Naturals, Sequences

CONSTANTS
    Thread,
    Tool,         \* the tools that are called
    MaxAttempts,  \* RETRY_MAX_ATTEMPTS, 3 in the code
    MaxCalls,     \* bound: calls in all
    MaxFaults     \* bound: commands to Redis that fail

Tools == {"travel_brief", "weather", "news", "news_search", "city_risk", "route_planner"}

ASSUME ToolAssumption ==
    /\ Tool \subseteq Tools
    /\ MaxAttempts \in Nat \ {0} /\ MaxCalls \in Nat /\ MaxFaults \in Nat

Key == {"travel_brief", "weather_line", "news_lines", "news_search", "weather_summary",
        "news_items", "route_plan"}
Source == {"weather", "news", "route"}

(* What a tool does, in its order.  "need" and "try" ask a provider; without*)
(* an answer the call ends, or goes on.  "assess" is the language model.    *)
WithTokensFirst ==     \* mutant: the token is taken before the cache is read
  [x \in Tools |->
    <<<<"take", "weather">>, <<"get", "weather_line">>, <<"need", "weather">>,
      <<"set", "weather_line">>>>]
Program ==
  [x \in Tools |->
    CASE x = "travel_brief" ->
           <<<<"get", "travel_brief">>, <<"take", "weather">>, <<"take", "news">>,
             <<"try", "weather">>, <<"try", "news">>, <<"assess", "weather">>,
             <<"set", "travel_brief">>>>
      [] x = "weather" ->
           <<<<"get", "weather_line">>, <<"take", "weather">>, <<"need", "weather">>,
             <<"set", "weather_line">>>>
      [] x = "news" ->
           <<<<"get", "news_lines">>, <<"take", "news">>, <<"need", "news">>,
             <<"set", "news_lines">>>>
      [] x = "news_search" ->
           <<<<"get", "news_search">>, <<"take", "news">>, <<"need", "news">>,
             <<"set", "news_search">>>>
      [] x = "city_risk" ->
           <<<<"take", "weather">>, <<"take", "news">>,
             <<"get", "weather_summary">>, <<"need", "weather">>, <<"set", "weather_summary">>,
             <<"get", "news_items">>, <<"try", "news">>, <<"set", "news_items">>,
             <<"try", "weather">>, <<"try", "news">>, <<"assess", "weather">>>>
      [] OTHER ->
           <<<<"get", "route_plan">>, <<"need", "route">>, <<"set", "route_plan">>>>]

VARIABLES
    client,    \* _sync_redis is not None
    cache,     \* what Redis holds; no value stands for an absent key
    tool,      \* the tool each thread runs
    at,        \* how far it is in the tool's program
    step,      \* how far it is in _get_sync_redis
    got,       \* the sources it has read since the last set
    attempts,  \* the requests of the current call to a provider
    outcome,   \* how each thread's latest call ended
    paid,      \* ghost: the call has taken a token or asked a provider
    shared,    \* ghost: two calls have been open at once
    calls, faults

thread == <<tool, at, step, got, attempts, outcome, paid>>
counts == <<calls, faults>>
vars == <<client, cache, thread, shared, counts>>

None == {"none"}
Outcome == {"none", "answer", "error", "raised", "rejected"}

TypeOK ==
    /\ client \in BOOLEAN
    /\ cache \in [Key -> {None} \cup SUBSET Source]
    /\ tool \in [Thread -> Tools \cup {"none"}]
    /\ at \in [Thread -> Nat]
    /\ step \in [Thread -> {"begin", "publish", "load", "ping", "command"}]
    /\ got \in [Thread -> SUBSET Source]
    /\ attempts \in [Thread -> 0 .. MaxAttempts - 1]
    /\ outcome \in [Thread -> Outcome]
    /\ paid \in [Thread -> BOOLEAN] /\ shared \in BOOLEAN
    /\ calls \in 0 .. MaxCalls /\ faults \in 0 .. MaxFaults

Init ==
    /\ client = FALSE
    /\ cache = [k \in Key |-> None]
    /\ tool = [t \in Thread |-> "none"]
    /\ at = [t \in Thread |-> 0]
    /\ step = [t \in Thread |-> "begin"]
    /\ got = [t \in Thread |-> {}]
    /\ attempts = [t \in Thread |-> 0]
    /\ outcome = [t \in Thread |-> "none"]
    /\ paid = [t \in Thread |-> FALSE]
    /\ shared = FALSE
    /\ calls = 0 /\ faults = 0

-----------------------------------------------------------------------------
Running(t) == tool[t] # "none"
Now(t) == Program[tool[t]][at[t]]
Does(t, verb) == Running(t) /\ Now(t)[1] = verb
Fault == faults < MaxFaults /\ faults' = faults + 1

(* The call ends: its locals are gone.                                      *)
End(t, how) ==
    /\ tool' = [tool EXCEPT ![t] = "none"]
    /\ at' = [at EXCEPT ![t] = 0]
    /\ step' = [step EXCEPT ![t] = "begin"]
    /\ got' = [got EXCEPT ![t] = {}]
    /\ attempts' = [attempts EXCEPT ![t] = 0]
    /\ outcome' = [outcome EXCEPT ![t] = how]

(* On to the line i of the program, or to the end of it.                    *)
GoTo(t, i, sources) ==
    IF i > Len(Program[tool[t]]) THEN End(t, "answer")
    ELSE /\ at' = [at EXCEPT ![t] = i]
         /\ step' = [step EXCEPT ![t] = "begin"]
         /\ got' = [got EXCEPT ![t] = sources]
         /\ attempts' = [attempts EXCEPT ![t] = 0]
         /\ UNCHANGED <<tool, outcome>>
GoOn(t, sources) == GoTo(t, at[t] + 1, sources)

(* What only city_risk catches: in the others it leaves the tool.           *)
Raise(t) == End(t, IF tool[t] = "city_risk" THEN "error" ELSE "raised")

-----------------------------------------------------------------------------
Call(t) ==
    /\ ~Running(t) /\ calls < MaxCalls
    /\ calls' = calls + 1
    /\ \E x \in Tool :
         /\ tool' = [tool EXCEPT ![t] = x]
         /\ at' = [at EXCEPT ![t] = 1]
    /\ outcome' = [outcome EXCEPT ![t] = "none"]
    /\ paid' = [paid EXCEPT ![t] = FALSE]
    /\ shared' = (shared \/ \E u \in Thread : Running(u))
    /\ UNCHANGED <<client, cache, step, got, attempts, faults>>

(* A search without a query raises before anything else happens.            *)
RejectEmptyQuery(t) ==
    /\ ~Running(t) /\ calls < MaxCalls /\ "news_search" \in Tool
    /\ calls' = calls + 1
    /\ outcome' = [outcome EXCEPT ![t] = "rejected"]
    /\ paid' = [paid EXCEPT ![t] = FALSE]
    /\ UNCHANGED <<client, cache, tool, at, step, got, attempts, shared, faults>>

(* RateLimiter.acquire returns.                                             *)
Take(t) ==
    /\ Does(t, "take")
    /\ paid' = [paid EXCEPT ![t] = TRUE]
    /\ GoOn(t, got[t])
    /\ UNCHANGED <<client, cache, shared, counts>>

-----------------------------------------------------------------------------
(* _get_sync_redis: the global is published before its ping answers, and    *)
(* read again for the ping and after it.  From "command" on, the thread has *)
(* the client in a variable of its own.                                     *)
UsesCache(t) == Does(t, "get") \/ Does(t, "set")

CheckClient(t) ==
    /\ UsesCache(t) /\ step[t] = "begin"
    /\ step' = [step EXCEPT ![t] = IF client THEN "command" ELSE "publish"]
    /\ UNCHANGED <<client, cache, tool, at, got, attempts, outcome, paid, shared, counts>>

(* The interpreter (CPython 3.11, Dockerfile) has no switch point between   *)
(* the store and the load of the ping, except that a store over a client    *)
(* nobody uses any more runs the __del__ of that client, which closes it.   *)
ClientInUse(t) == \E u \in Thread \ {t} : step[u] \in {"ping", "command"}
PublishClient(t) ==
    /\ step[t] = "publish"
    /\ client' = TRUE
    /\ step' = [step EXCEPT ![t] = IF client /\ ~ClientInUse(t) THEN "load" ELSE "ping"]
    /\ UNCHANGED <<cache, tool, at, got, attempts, outcome, paid, shared, counts>>

(* _sync_redis.ping(): None, which another thread may have put there, has no*)
(* such method, and an AttributeError is no RedisError.                     *)
LoadClient(t) ==
    /\ step[t] = "load"
    /\ IF client THEN /\ step' = [step EXCEPT ![t] = "ping"]
                      /\ UNCHANGED <<tool, at, got, attempts, outcome>>
       ELSE Raise(t)
    /\ UNCHANGED <<client, cache, paid, shared, counts>>

(* What a call does without the cache: a miss, or nothing is stored.        *)
UncachedRaises(t) == Raise(t)     \* mutant: the error is not caught
Uncached(t) == GoOn(t, IF Does(t, "set") THEN {} ELSE got[t])

(* What is returned is the global, which may have become None meanwhile.    *)
PingAnswers(t) ==
    /\ step[t] = "ping"
    /\ IF client THEN /\ step' = [step EXCEPT ![t] = "command"]
                      /\ UNCHANGED <<tool, at, got, attempts, outcome>>
       ELSE Uncached(t)
    /\ UNCHANGED <<client, cache, paid, shared, counts>>
PingFails(t) ==
    /\ step[t] = "ping" /\ Fault
    /\ client' = FALSE
    /\ Uncached(t)
    /\ UNCHANGED <<cache, paid, shared, calls>>

(* A hit answers the call, or what city_risk wanted to know: it goes on     *)
(* behind the set of the same key, two lines on.                            *)
AfterSet(t) ==
    CHOOSE i \in DOMAIN Program[tool[t]] : Program[tool[t]][i] = <<"set", Now(t)[2]>>
GetEntry(t) ==
    /\ Does(t, "get") /\ step[t] = "command"
    /\ IF cache[Now(t)[2]] # None
       THEN GoTo(t, AfterSet(t) + 1, {}) ELSE Uncached(t)
    /\ UNCHANGED <<client, cache, paid, shared, counts>>

SetEntry(t) ==
    /\ Does(t, "set") /\ step[t] = "command"
    /\ cache' = [cache EXCEPT ![Now(t)[2]] = got[t]]
    /\ GoOn(t, {})
    /\ UNCHANGED <<client, paid, shared, counts>>

(* A command fails, executed or not: that is a miss.                        *)
CommandFails(t) ==
    /\ UsesCache(t) /\ step[t] = "command" /\ Fault
    /\ \/ UNCHANGED cache
       \/ Does(t, "set") /\ cache' = [cache EXCEPT ![Now(t)[2]] = got[t]]
    /\ Uncached(t)
    /\ UNCHANGED <<client, paid, shared, calls>>

(* After the TTL, or when Redis needs the room.                             *)
Expire(k) ==
    /\ cache[k] # None
    /\ cache' = [cache EXCEPT ![k] = None]
    /\ UNCHANGED <<client, thread, shared, counts>>

-----------------------------------------------------------------------------
AsksProvider(t) == Does(t, "need") \/ Does(t, "try")

ProviderAnswers(t) ==
    /\ AsksProvider(t)
    /\ paid' = [paid EXCEPT ![t] = TRUE]
    /\ GoOn(t, got[t] \cup {Now(t)[2]})
    /\ UNCHANGED <<client, cache, shared, counts>>

(* A failure that may pass is retried, up to MaxAttempts requests (counted  *)
(* modulo more than that).                                                  *)
RetriesAlways(n) == TRUE       \* mutant: only the kind of the failure counts
RetriesLeft(n) == n + 1 < MaxAttempts
ProviderIsRetried(t) ==
    /\ AsksProvider(t) /\ RetriesLeft(attempts[t])
    /\ paid' = [paid EXCEPT ![t] = TRUE]
    /\ attempts' = [attempts EXCEPT ![t] = (@ + 1) % (MaxAttempts + 1)]
    /\ UNCHANGED <<client, cache, tool, at, step, got, outcome, shared, counts>>

(* One that will not, or the last attempt: a caller that needs the answer   *)
(* raises, and _run makes that an error string.                             *)
GoesOnWithout(t) == TRUE     \* mutant: the error of a provider is not looked at
MayGoOn(t) == Does(t, "try")
ProviderFails(t) ==
    /\ AsksProvider(t)
    /\ paid' = [paid EXCEPT ![t] = TRUE]
    /\ IF MayGoOn(t) THEN GoOn(t, got[t]) ELSE End(t, "error")
    /\ UNCHANGED <<client, cache, shared, counts>>

(* The brief is an error without any source; the assessment may raise.      *)
Assess(t) ==
    /\ Does(t, "assess")
    /\ \/ got[t] # {} /\ GoOn(t, got[t])
       \/ End(t, "error")
    /\ UNCHANGED <<client, cache, paid, shared, counts>>

-----------------------------------------------------------------------------
Run(t) ==
    \/ Take(t) \/ CheckClient(t) \/ PublishClient(t) \/ LoadClient(t)
    \/ PingAnswers(t) \/ PingFails(t) \/ GetEntry(t) \/ SetEntry(t) \/ CommandFails(t)
    \/ ProviderAnswers(t) \/ ProviderIsRetried(t) \/ ProviderFails(t) \/ Assess(t)

Next ==
    \/ \E t \in Thread : Call(t) \/ RejectEmptyQuery(t) \/ Run(t)
    \/ \E k \in Key : Expire(k)

(* Threads are scheduled; sockets, requests and sleeps have time limits.    *)
Spec == Init /\ [][Next]_vars /\ \A t \in Thread : WF_vars(Run(t))

-----------------------------------------------------------------------------
(* What is cached for an hour was made from something a provider said:      *)
(* neither an error string nor a brief without sources gets there.  Only    *)
(* the feed of city_risk is stored as empty after a failure.                *)
CacheHoldsNoErrors == \A k \in Key \ {"news_items"} : cache[k] # {}

(* An answer from the cache costs nothing: a thread whose tool ends at its  *)
(* get has neither waited for a token nor asked a provider.                 *)
CachedAnswersAreFree ==
    [][\A t \in Thread :
          Does(t, "get") /\ outcome'[t] = "answer" /\ outcome[t] # "answer" => ~paid[t]]_vars

(* A cache that cannot be used is a miss: a call on its own always ends     *)
(* with an answer or with the error of a provider.                          *)
CacheFailureIsAMissAlone == ~shared => \A t \in Thread : outcome[t] # "raised"

(* Every call ends, whatever fails and however often.                       *)
EveryCallEnds == \A t \in Thread : Running(t) ~> ~Running(t)

(* sync_cache.py:20, "Safe to return None if misconfigured.": a Redis that  *)
(* does not answer never makes a tool raise.                                *)
CacheFailureIsAMiss == \A t \in Thread : outcome[t] # "raised"
=============================================================================
