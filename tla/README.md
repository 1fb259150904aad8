# TripBites backend: TLA+ models, model checking and proofs

This directory holds TLA+ specifications of the TripBites travel assistant (`src/app`), the TLC
configurations that check them on small instances, and theorems about them that the TLA+ proof system
checks for every value of the constants. `PROJECT.json` maps every definition to the source lines it models.

    tlc -config ConversationSequential.cfg MCConversation.tla
    tlapm ConversationSequentialProofs.tla

## 1. The system

A FastAPI process answers `/chat`, `/travel-brief`, `/weather` and `/news`. Only `/chat` keeps state: a chat
session is a hash in Redis that successive requests read and write while a language model answers.

| Component (source under `src/app`) | State | Operations | Correct when |
|---|---|---|---|
| Chat session: `session/session_store.py` | hash `sess:<id>` with last exchange, recent turns, active destination and origin, two pending fields, timestamps; a TTL | one getter per field, `mark_sent`, four setters, `should_include` | fields written by different commands agree; nothing answered is lost; the session expires |
| Request context: `agent/agent_context.py` | `PreparedRequest`, local to a request | reads the session, resets it on a destination change, restores a question that waits for its origin | a question is resumed once, for its own destination, with an origin the user named |
| Text policy: `agent/agent_policy.py` | none | answer mode, origin extraction, need to ask back | total, consistent decisions |
| Routing and dispatch: `agent/agent_service.py`, `agent_routing.py`, `agent_followup_dispatch.py`, `agent_execution.py` | none across requests | model router; five paths: reference clarification, follow-up, origin request, journey, broad agent | each path persists what happened and leaves the session current |
| Grounding: `agent/agent_response.py`, `news/news_relevance.py` | none | removes unsupported claims and links | what is shown is supported |
| Follow-up answers: `agent/followup_qa.py` | none | evidence, optional search, validated answer, transport guidance | an answer states only what evidence supports |
| Chat quota: `tooling/usage_limits.py` | counter `quota:chat:<id>` with a TTL | `enforce_chat_quota` | at most 30 requests a window, and windows end |
| Tool rate limiter: `tooling/retry_rate_limit.py` | `tokens`, `last_refill`, shared by worker threads | `acquire` | a bounded rate, bounded waiting |
| Tool cache: `tooling/sync_cache.py`, `agent/agent_tools.py` | lazily created client; keys with a TTL | get, set | only good results are cached; failures degrade to a miss |
| Provider client: `http/http_client.py`, `tooling/retry_policy.py` | attempts of a call | GET with retries | bounded retries |
| Body limit: `http/request_limits.py` | bytes received | ASGI middleware | no oversized body reaches the application |
| Lifecycle: `main.py`, `redis_client.py`, `health.py` | process-wide Redis client | start, stop, lazy connection, probes | readiness tells the truth |
| Risk and brief: `travel_intelligence.py`, `travel_concern_assessor.py`, `travel_brief.py` | none | weather score, normalised model assessment, fallback | danger is not hidden; a brief has a source, its news is about the place |
| Route planner: `routing/ors_service.py` | none | routes per profile, best route | a partial failure still gives the best remaining route |
| Weather and news: `weather/`, `news/` | none | day of a forecast, category of a code, cuts by age and number, relevance | the values shown are those of the day named |
| Location: `location/` | none | geocoding | I/O |
| Endpoints: `routes.py`, `validation.py` | none | checks, edge counter, quota, answer | a window's limit holds across restarts |
| Edge limit: `tooling/ratelimit.py` | SlowAPI's counters, in Redis | count a request before its endpoint | limits hold, also in an outage; nobody holds the event loop for good (it does not guarantee this) |
| Session tokens, prompts, settings | none | signing, text | library configuration |

**Interaction.** `agent_endpoint` checks the store, calls `enforce_chat_quota`, then `run_agent`. `run_agent` is one
asyncio task; between two awaits it runs alone. Every Redis command and every model call is an await: another
request of the session may run, the command may fail (`SessionStoreUnavailable`, 503), the model may time out
(504), or the process may die. Nothing is transactional: a request issues between ten and twenty commands.
The tools of the broad agent run in worker threads and share the two rate limiters and one lazily made Redis client.
A follow-up asks the same providers directly, on the event loop. Around all of it, the process starts only when Redis
answers, drains on a deployment, and is started again by the platform. Every screened request first passes SlowAPI's
limiter, whose counters are in the same Redis behind a synchronous client without a time limit.

**Hard behaviours.** Interleaved requests of a session; a field read before the model call and used after it;
`hset` and `expire`, `incr` and `expire` as two commands; a request that stops half-way; a command executed whose
reply is lost (redis-py repeats it); a destination that changes while a question waits for its origin; threads in
a method without a lock; the boundary of a window; midnight between a forecast and the clock that reads it; a model
that writes links and claims nobody found; a body that never ends; a synchronous call on the event loop. `PROJECT.json` lists each under "hazards" at its line, with the
properties that cover it.

## 2. Modules

| Module | What it is |
|---|---|
| `AgentPolicy` | operators for `agent_policy.py`; the verdict of an elementary matcher on a text is a field of `Feature[q]` |
| `Conversation` | one session: the hash, and `run_agent` requests as lists of commands still to do |
| `ConversationRequirements` | the properties of a session |
| `SessionLog` | what a session promises to a client that waits for each answer: a log of the last `MaxTurns` exchanges, one waiting question, a destination |
| `MCConversation` | eight messages and three model answers, described by what the matchers return for them |
| `ConversationProofs` | theorems about `Conversation` under any interleaving, and what each action does to the commands of its request |
| `ConversationSequentialProofs` | theorems about `Conversation` with one message at a time |
| `WindowQuota` | what a quota promises: admit while `used < Limit`, reject at `Limit`, a window ends; until it breaks |
| `ChatQuota`, `ChatQuotaProofs` | `enforce_chat_quota` command by command, and theorems |
| `RateLimiter`, `RateLimiterProofs` | `RateLimiter.acquire` call by call, and theorems |
| `NewsRelevance` | operators for `news_relevance.py`: place, relevance, support of a claim, cleaning of links |
| `WeatherReport` | operators for `openmeteo_provider.py` and `travel_intelligence.py`: day, category, score, level |
| `PlaceEvidence`, `MCPlaceEvidence`, `PlaceEvidenceProofs` | what is gathered about one place, call by call; uses both |
| `RoutePlanner` | operators for `ors_service.py`: routes, best route, errors |
| `TravelAnswer`, `MCTravelAnswer`, `TravelAnswerProofs` | from evidence to the text shown; uses `NewsRelevance`, `RoutePlanner` |
| `ToolCalls`, `ToolCallsProofs` | the agent's tools in threads, their cache and its client, retries |
| `HttpService`, `HttpServiceProofs` | the process and the way of a request to its endpoint |

### Conversation and the code

* `hash` is the session hash, `expiring` whether its key has a TTL. A text is the number of the request it came
  from: `hash.user = 3` means `last_user_message` is the question of request 3, `hash.ctx` and `hash.pending` are
  `pending_agent_context` and `pending_journey_question`, `hash.origin` is the request whose text named the
  origin. Comparisons the code makes between texts are made between the texts (`RestoreOriginOnly`).
* `todo[r]` is the rest of request `r` as `<<verb, field>>` pairs; `seen[r]` what it has read, until it has decided;
  `history[r]` the `recent_turns` inside `mark_sent`; `plan[r]` the decision; `reply[r]` what it persists; `shown[r]` what
  it returns; `outcome[r]` the answer of the endpoint.
* Actions: `Arrive`; `ReadField` (`hget`); `SettleDestination` (`reset_session_for_destination_change`);
  `RouteRequest` (the rest of `prepare_request_context` and the dispatch; `mode` is the router model's choice where
  it is consulted); `ConsultGate` (`should_include`); `AnswerRequest` (the model's answer, and grounding; the text may
  be empty on every path, as an answer that was only a link is after cleaning);
  `LoadTurns` and `SaveExchange` (`mark_sent`); `WriteField`, `ClearField` (`_write_field`); `ArmExpiry` (`expire`).
* Faults, each enabled by membership in `FaultKind`: `RedisFails` (not executed), `RedisRepeats` (executed, reply
  lost, sent again), `RedisReplyLost` (executed, then a 503) and `Crash` under "interruption", `ModelFails` under "model",
  `Expire` under "expiry". The ghost `faults` records the interruptions and expiries that have happened, so that a
  property can say what it tolerates; no property needs to excuse a model failure.

Left out: the truncation of texts to 500 and 1000 characters, `last_weather_sent_at` and `last_news_sent_at` (they
gate tools, not the session), undecodable JSON in a field (only the application writes them), debug output.

### ChatQuota and the code

`count` and `expiring` are the key; `pc[c]` is the command client `c`'s request is at. Above the limit the exact
count makes no difference, so `Incremented` stops at `Limit + 1`. `RedisFails` is the except clause (executed or
not, the request is let through); `IncrementRepeats` is redis-py sending `incr` again, by default (`init_redis` configures no
retries; `uv.lock` has redis 7.1.0). The lock-out does not depend on it: an executed `incr` whose reply is lost, or a failed
`expire`, are `RedisFails`, and leave the counter without a TTL, too. `Crash` ends every open request.
`served` counts requests let through by the counter in this window, `faults` the kinds of fault so far.

### RateLimiter and the code

The interpreter of the image (CPython 3.11) can switch threads inside `acquire` only where it makes a call, so an
action runs from one call to the next: `time.time()` (`Acquire`), `int()` (`Elapsed`), `min()` (`Refill`), the
stores after it (`Store`), `time.sleep()` (`Wake`), the second `time.time()` (`Stamp`). Moments are kept as ages.
`recent[a]` counts the tokens granted `a` ticks ago; `overlapped` remembers whether two calls ever overlapped.

### PlaceEvidence and the code

Days are numbered and day 0 is a Monday. `local` is today at the place and `utc` today in UTC, never more than a day
apart; midnight may pass at either between any two steps (`midnights` counts those at the place). `purpose` is who asks:
`/travel-brief` or a tool, a follow-up, or a question about the weather. The stages follow the code: `build_travel_brief`
asks for today's summary (`FetchForecast`, `ForecastFails`, then `ReadDay`, which reads the clock after the forecast
has arrived), falls back to the weather line (`FetchLine`), fetches news (`FetchNews`: the newest three, then the filter
by place; `NewsFails`), and has it assessed (`Assess`: any level, any indexes, normalised; `FallBack`: the score of the
weather; an assessment that is JSON but no object ends the request). `_gather_place_evidence` then asks again for the
user's day and replaces the summary. A text is a set of words; reasons are one word each, `"weather"` stands for any reason of
the model about the weather.

### TravelAnswer and the code

`mode` is the function that answers: `answer_news_followup`, `answer_general_followup`, `answer_journey_question` ("journey",
or "transport" where `route_or_transport` is set), `answer_weather_followup`, or the agent ("broad"). An answer is a sequence of sentences; of a sentence the model keeps
whether it makes a high-impact claim, its addresses, whether it is nothing but one address, and whether the patterns of
`_condense_direct_answer` call it generic or direct. The language model may write any sequence of `Phrase`s
(`PlannerAnswers`, `Reason`). `Finish` is the whole way of a text: `Condense`, `Validate` (with `Sanitize` and
`SupportsClaim`), `AppendLink`, or `Ground` for the agent. `PlanJourney` is `plan_route` for any reply to each profile,
followed by `_build_transport_guidance` in the order in which the cases are tried; `routeError` is its `route_err`. Where the code takes the first of a list and the
model has a set, any member may be taken. `flags` keeps the disruptions that were in the evidence.

### ToolCalls and the code

A tool is its list of lines (`Program`): `get` and `set` a cache key, `take` a token, `need` or `try` a provider (without
an answer the call ends, or goes on), `assess` with the language model. What is cached is the set of sources it was
made from, so `{}` would be an error. Inside `_get_sync_redis`, `step` follows the code: `begin` (is there a client?), `publish`
(the global is set), `load` and `ping`, `command`. CPython 3.11 does not switch between the store and the load of the
ping except where storing drops the last reference to another client, whose `__del__` runs: `ClientInUse` decides. A thread
that got a client keeps it. `attempts` counts the requests of one provider call. Ghosts: `paid`, `shared` (two calls
were ever open at once); `faults` bounds the commands that fail.

### HttpService and the code

`phase` is the process: `Start`, `Connect` (the lifespan awaits `init_redis`), `Stop`, `CloseRedis` after the open requests,
`Kill` by the platform. A request arrives, its body comes in chunks (`ReceiveChunk`, sizes in units of the limit's
step), and its endpoint sees it in the order of the code: JSON, API key, session token, fields (`Reject`), edge limiter
(`CallLimiter`, then `RejectAtEdge` or `Admit`), store check, quota (`PassQuota`, whose detail is `ChatQuota`), work (`Work`,
whose detail is `Conversation`, `PlaceEvidence` and `ToolCalls`).

`redis` is "up", "down" (it refuses connections) or "silent". The asynchronous client of `redis_client.py` gives up after five
seconds either way. The limiter's client is synchronous, without a time limit, and called on the event loop: while a
request is in stage "limiter", `Blocked` keeps every other request, and the signal to stop, where they are (`RunsAt`). A Redis
that refuses makes the limiter raise, and the request is a 500 (`LimiterFails`; there is no `swallow_errors` and no fallback in
memory); with a silent one it waits until the operating system gives up (`ConnectionTimesOut`), Redis returns, or the platform
kills the process. `used` is in Redis: `Start` keeps it (`CountersInRedis`), and `CountIsLost` may count a request twice. The
ghost `passed` has the requests let through in the window, `sawRedis` the probes since whose arrival Redis has been up.

## 3. Runs

| Run | Question | Result |
|---|---|---|
| `ConversationSequential` | One message at a time, failing model calls, five messages. The pair of pending fields agrees and belongs to the active destination between requests (`PendingPairAgrees`), no request resumes another destination's pending question (`NoForeignPending`), an origin reply in any form resumes the question (`OriginReplyResumesTheQuestion`), also after failures (`OriginPhraseSurvivesAFailedAnswer`) | holds |
| `ConversationFailures` | One message at a time; Redis, model and process fail anywhere. The latest answered request left destination, exchange and TTL (`AnswerLeavesSessionCurrent`); no recent answer is lost (`HistoryKeepsRecentAnswers`); the session implements `SessionLog` (`IsASessionLog`) | holds |
| `ConversationConcurrent` | Two open requests, every fault, session expiry. `TypeOK`, `NewestTurnIsTheLastExchange`, `SessionExpires` (waived once Redis or the process failed), `OriginsAreNamedByTheUser` | holds |
| `ChatQuota` | Three clients, limit 3, Redis failures and crashes, fair. `QuotaHolds` (waived once Redis failed: the code lets those requests through); without a fault `WindowWillEnd` and `ThrottlingEnds`; refinement of `WindowQuota!Spec`, fairness included (`IsAWindowQuota`) | holds |
| `RateLimiter` | Two threads. `NeverOverfilled`, `WaitIsBounded`; until two calls overlap also `BucketInRange`, `RateHolds` | holds |
| `PlaceEvidence` | Every day of the week, failing providers, one midnight. The values of a summary are those of the day it names (`SummaryShowsItsLabel`), reasons are not shown next to a later day (`ReasonsFitTheSummary`), news is recent, about the place and at most `MaxItems` (`BriefNewsIsAboutThePlace`), a served brief has a source (`ServedBriefHasASource`), the fallback is no milder than the weather (`FallbackNeverHidesDanger`) | holds |
| `TravelAnswer` | Every text of two sentences, every reply of the route provider. Links are those of the evidence (`LinksComeFromEvidence`); a claim of high impact is backed by an article, or is about something no article of the feed is related to (`ClaimsAreSupported`: the code checks no claim without a match, and none of a journey or the weather); a refusal stands alone (`RefusalsStandAlone`), cleaning loses no answer (`AnswersAreNotLost`), the fastest route is recommended (`BestRouteIsFastest`), blocked, long and missing roads reach who asks about transport (`DisruptionsReachGuidance`) | holds |
| `ToolCalls` | Two threads, five tools, one failing command. No error is cached (`CacheHoldsNoErrors`), a hit costs nothing (`CachedAnswersAreFree`), a broken cache is a miss while calls do not overlap (`CacheFailureIsAMissAlone`), every call ends (`EveryCallEnds`) | holds |
| `HttpService` | Two requests of any kind, one deployment, Redis refusing, falling silent and returning at will. `BodyIsLimited`; restarts, outages and lost replies give nobody a new budget (`EdgeLimitOutlivesTheProcess`); `ReadinessIsHonest`, `OpenRequestsHaveAClient`; the service comes back with Redis (`RecoversWithRedis`); a body that arrived is answered, unless the limiter holds the event loop for good, which only a silent Redis makes possible (`EveryBodyIsAnswered`) | holds |

**Bounds, and why they are enough.**

* Conversation: `MaxRequests` in all, `MaxInFlight` open at once, `MaxTurns` recent turns (6 in the code; 1 or 2 here, so
  that two or three requests reach the cut), two destinations (symmetric). Three requests are enough for "asked, failed
  or switched, asked again"; two open requests for every pairwise race. Three open requests are not explored by TLC; the
  theorems of section 5 hold for any number.
* Rate limiter: an interval of 3 ticks, ages up to two intervals (`MaxIdle`; an older bucket is filled in the
  same way), a runnable thread is preempted for at most `MaxDelay` ticks (`WaitIsBounded` states its bound in terms of it),
  the bucket is followed to `MaxOverdraft` below zero.
* PlaceEvidence: `MaxItems` is 2 of 3 and there are four items, so that both cuts drop something; `MaxMidnights = 1`, since no call
  lasts a day; three skies, which reach the three levels and both sides of a threshold; weekdays, dates within and outside
  the eight days of a forecast.
* TravelAnswer: `MaxSentences = 2` (the first sentence and another one is all that condensing and validation tell apart), four
  articles (with a claim, without one, without https, about another place), a feed of two (`MaxItems`, 3 in the code) and
  searches that find all three about the place (`MaxFound`, 5 in the code), two profiles, replies that are fast, slow, long,
  zero, negative and missing.
* ToolCalls: two calls, `MaxAttempts = 2` (retried, and not any more), `MaxFaults = 1`. The tool `news` has the same program
  as `news_search` under another key and is left to the theorems.
* HttpService: body limit, chunk, edge limit and deployments are 1: sizes 0 to 2 are below, at and above the limit. Two requests
  of five kinds are every pair, and a second one is enough to find the loop held, the window used up or the process replaced.

`CHECK_DEADLOCK FALSE` is said where the system does stop: an evidence or an answer is complete, the calls or the
requests and deployments of the run are used up.

### Where code and text disagree

Each of these runs checks one statement of the repository's own text and TLC finds it violated.

| Run | Text | What happens |
|---|---|---|
| `ChatQuotaLockout` | `usage_limits.py:32` "Please try again later." | after one repeated `incr` (or one failed `expire`) nobody sets the TTL: rejected for good |
| `ToolCacheRace` | `sync_cache.py:20` "Safe to return None if misconfigured." | three tools make the client at the same time; the second's store closes the first's, the failing ping of another sets the global to `None`, and `.ping()` on `None` raises out of the tool |
| `LivenessProbe` | `docs/architecture-and-operations.md:35` "Liveness does not require Redis", and the test of that name | start-up awaits the ping of `init_redis`: a process started without Redis never listens; in one that runs, a limiter waiting for a silent Redis holds up the probes, too |

Further statements are defined next to the properties and do not hold either; add one to the named configuration as an
`INVARIANT` to see its trace.

| Definition | Configuration | What happens |
|---|---|---|
| `ExchangeIsPersistedOnce` | `ConversationSequential` | the reference clarification is persisted by `_handle_reference_clarification` and again by `_finalize` (`agent_service.py:222` "persist the exchange") |
| `PersistedReplyIsTheOneShown` | `ConversationSequential` | the broad agent persists first and grounds afterwards (`agent_service.py:222` "Ground the final response, persist the exchange") |
| `QuestionIsForThisDestination` | `ConversationSequential` | "I am from X" after a change is answered as the old destination's question (`agent_service.py:219`) |
| `AnsweredExchangesAreKept` | `ConversationConcurrent` with `MaxTurns = 2`, `FaultKind = {}` | `mark_sent` of two open requests: the second overwrites the first's turn |
| `NeverOverdrawn` | `RateLimiter` | two threads take one token; below zero nobody waits (`retry_rate_limit.py:30` "waiting if necessary") |

One more sentence does not hold, and `HttpService!LimiterFails` is how: `usage_limits.py:25` lets a request through without its
quota because "SlowAPI still provides the edge limit" when Redis is degraded. SlowAPI keeps its counters in the same Redis:
without it a request does not get as far as the quota.

Behaviour met while modelling about which no text of the repository says anything, so that no property speaks of it: the two
reads of `get_last_exchange` may come from two exchanges (`session_store.py:297`); `needs_origin_clarification` ignores the
active origin (`agent_policy.py:408`); a router answer or an assessment that is JSON but no object is an `AttributeError`
(`agent_routing.py:53`, `travel_concern_assessor.py:185`); `city_risk` caches an empty feed after a failure and a brief with
one source is cached like a complete one (`agent_tools.py:151`, `:194`); without a time zone today is UTC's while the forecast
begins locally (`openmeteo_provider.py:223`, and `:225` for a zone this system does not know), which is why `SummaryShowsItsLabel` speaks of places with one; no code is scored
as snow (`openmeteo_provider.py:47`); the searched article's link is appended even when another one supports the claim
(`followup_qa.py:279`); follow-ups block the event loop (`followup_qa.py:633`); a clock set back lengthens a sleep
(`retry_rate_limit.py:31`).

## 4. Fairness

Safety runs of `Conversation`, `PlaceEvidence`, `TravelAnswer` and `RateLimiter` use no fairness: each request there is a
finite list of calls with timeouts, so its end says nothing.

* `ChatQuota!FairSpec`: a key with a TTL is dropped (Redis), and a request which has sent its `incr` and must send `expire`
  goes on (the event loop resumes it; a hung connection ends in the 5 second socket timeout, which is the fault `RedisFails`).
  `RecoveredSpec` adds that clients keep trying and that faults stop; it shows that the lock-out outlives the fault.
* `ToolCalls!Spec`: weak fairness of `Run(t)` for each thread: the operating system schedules threads, and each thing a tool
  waits for has a limit (socket timeouts, request timeouts, the sleep of a limiter). Nothing is assumed to succeed.
* `HttpService!Spec`: the platform starts the process again and kills one that does not stop (`Start`, `Kill`), an attempt to
  connect ends (`Connect`), and every await after the body has a limit (`Serve(r)`). The call of the limiter has none: with
  a silent Redis there is no fairness of its end (`ConnectionTimesOut`) and none of a kill while the loop is held, so `Serve(r)`
  may wait for ever, which is the exception in `EveryBodyIsAnswered`. Redis that works or refuses ends the call. There is no
  fairness of `ReceiveChunk`: a client may send nothing for ever, and `EveryBodyIsAnswered` begins when the body is complete.
  Redis is not assumed to return; `RecoversWithRedis` has it as its premise.

## 5. Theorems

Each holds for every value of the constants that satisfies the named assumptions.

* `SessionIsTyped`: type correctness of `Conversation`, including the cut of the recent turns.
* `SessionAlwaysExpires`: the induction needs that a request which is about to send `expire`, or has written
  a field, has not ended; every `hset` puts `expire` at the head of `todo`, and only `ArmExpiry` or a fault takes it.
* `OriginsComeFromTheUser`: strengthened by "the origin a request has read was named", because an inherited origin
  passes from the hash through `seen` to `plan` and back.
* `NewestTurnIsCurrent`: the invariant `PhaseInv` says that a request first decides and then persists. `question`
  is fixed on arrival and `reply` before any `load` or `save`, so a turn that is stored, or held in a request's
  `history`, never changes its texts afterwards. Without it the induction fails at `AnswerRequest`.
* One message at a time: the theorems of `ConversationSequentialProofs` assume `MaxInFlight = 1` and nothing else about the
  bounds, the texts, the places or the faults. They rest on two facts about the requests. `ListInv`: `todo` is what
  is left of one of five lists (reading, clearing, answering, persisting, closing), each of which ends in its own last
  command, with the order of its commands kept (`Ordered`) and a `load` right before each `save` (`Adjacent`); it holds under
  any interleaving. `SeqInv`: the request that runs is the last one that arrived. From these, one lemma per action
  (`ReadEffect` to `FailureEffect`) says what it does to the hash and to the list, and the invariants need no sequences any more.
  * `PendingStaysWithItsDestination` from `ForeignInv`: the waiting question was asked for the destination the hash shows, or
    the running request is just persisting its own; a request has not read the question before the destination (the order
    of the reads in `prepare_request_context` matters), and has deleted it before it is routed for another place. An
    expiry or a failed model call at any point is allowed for.
  * `PendingRecordsAgree` from `PairInv`: between the two writes, or the two deletions, the list still has the second one.
  * `AnswersLeaveTheSessionCurrent` from `CurrentInv`: every path still has its `save`, or the exchange is the newest turn. It
    allows for every interruption, also for a write executed twice.
  * `RecentAnswersAreKept` from `HistoryInv`: the turns a request loaded are those of the hash until it saves, because no other
    request runs; what `_trim_turns` cuts is older than all that stays.
  * `TheNextMessageResumesTheQuestion` and `TheLastQuestionSurvivesFailedAnswers` from `ReadInv` (what the running request has read
    is what the hash holds), `AskInv` (after an origin request the last exchange stays that request's until a later one
    saves, and the waiting question stays until a later one is routed or changes the destination) and `ResumeInv`.
  * `SessionIsALog`: `Spec => Log!Spec`, the step simulation of `SessionLog`, into which `ConversationRequirements` maps the
    session (`Log`). `LogInv` says that the turns a request is about to save are those of the hash and its exchange, or are in
    the hash already, by an execution whose reply was lost: so a repeated `save` adds nothing. `CurrentInv` gives what `Complete`
    asks for. Reads, `expire` and the fields of the origin and of `pending_journey_question` are stutters, and so are a crash
    and an error response; the abstract session breaks only when it outlives its TTL. A request may still record its exchange
    twice, which the reference path does (`agent_followup_dispatch.py:54`).
* `QuotaIsTyped`, `QuotaAlwaysHolds` (`served` plus the requests about to send `expire` never exceed `count`, up to the limit),
  `WindowAlwaysEnds`.
* `QuotaRefines`: `Spec => Quota!Safety`, the step simulation of `WindowQuota`; the first fault is its `Break`.
* `BucketNeverOverfilled` (with type correctness) and `SleepIsBounded` for any number of threads; `BucketKeepsItsRange` until
  two calls overlap, where the invariant says that one thread is in `acquire` and what `tokens` is at each point of it.
* `RateIsBounded`, also until two calls overlap: `RateInv` says how many tokens were granted since the last refill (those the
  bucket lacks) and that what was granted before it fits into one fill; a refill comes an interval after the last one,
  when the older grants have left the window. The sum of the grants is a fold, which is a choice of a recursive function on
  sets: the lemmas show that it exists (`SumExists`), that the order of the elements does not matter (`SumAnyOrder`) and that
  over `0 .. n - 1` it is the last prefix sum (`SumByPrefixes`), each by a least-element argument (`UpTo`, `WFMin`).
* `ServiceIsTyped`, `BodyIsAlwaysLimited`, `EdgeLimitAlwaysOutlivesTheProcess` (what was let through in a window is never more
  than what Redis has counted), `ReadinessIsAlwaysHonest`, `OpenRequestsAlwaysHaveAClient`, from `HttpInv`: what the stage of a
  request says about its body and the process.
* `ToolsAreTyped`, `CacheNeverHoldsErrors`, `CachedAnswersAreAlwaysFree`, from `ToolInv`: a thread is at a line of its
  tool (`ThreadsFit`), and no tool gets to a `set` without a source (`ProgramShape`, a fact about the six programs).
  `CacheFailureIsAlwaysAMissAlone` adds that, alone, the client a thread published is still there when it is used (`AloneInv`).
* `EvidenceIsTyped`, `SummaryAlwaysShowsItsLabel` (if at most one midnight passes: the forecast then begins today or yesterday, and
  eight days reach the next weekday either way), `ReasonsAlwaysFitTheSummary`, `BriefNewsIsAlwaysAboutThePlace`,
  `ServedBriefAlwaysHasASource`, `FallbackAlwaysShowsDanger`, from `EvidenceInv`: what each stage has in hand.
* `AnswerIsTyped`, `LinksAlwaysComeFromEvidence`, `ClaimsAreAlwaysSupported`, `RefusalsAlwaysStandAlone`,
  `AnswersAreNeverLost`, from `AnswerInv` (the items come from the feed of the place, a match is one of them, and without a match
  none of them is related to the question) and lemmas about `Condense`, `Sanitize`, `Validate` and `AppendLink`;
  `BestRouteIsAlwaysFastest` and `DisruptionsAlwaysReachGuidance` from the invariant of the plan. That a fastest route, and an
  item with the most words in common, exist are least-element arguments (`LeastNumber`).

Assumptions: those stated on the constants (`QuestionAssumption`, `ReplyAssumption`, `BoundsAssumption`,
`QuotaAssumption`, `LimiterAssumption`, `NewsAssumption`, `EvidenceAssumption`, `RouteAssumption`, `AnswerAssumption`,
`ToolAssumption`, `ServiceAssumption`), which TLC evaluates on every run.

Only proved, since they say little on a small instance: type correctness of `ChatQuota`, `RateLimiter`, `PlaceEvidence`,
`TravelAnswer`, `ToolCalls` and `HttpService`.

Every invariant the passing runs check is stated by a theorem, and so are both refinements but for
the fairness of `WindowQuota`. Only model-checked is all liveness, which is beyond the
prover: `ThrottlingEnds`, the fairness half of `IsAWindowQuota`, `EveryCallEnds`, `RecoversWithRedis` and `EveryBodyIsAnswered`. The
runs that expect a violation show behaviours, and nothing about them is to be proved.

## 6. Not modelled

* Wording: prompts, formatting, the softening of a tone, labels of routes, query strings, debug output.
* What regular expressions and term lists match: their verdicts are the features of a text.
* Parsing of dates and of provider payloads, geocoding, the choice of failures that are retried and the wait before a
  retry: I/O, of which every outcome is allowed.
* Signing of tokens, settings, logging, request ids, security headers: libraries and configuration. Of SlowAPI the counters, their
  storage and its outages are modelled; the strategy and length of its windows, and its keys by address, are not.
* `should_include` has no effect on the session; `get_or_set`, `prepare_weather_news` and `get_last_sent_timestamps` have no
  caller in the application. `decide_tool_includes` and `detect_force_signals` only word a prompt.

What could be added: a composition of `HttpService` with `ChatQuota` and `Conversation` command by command, which are
connected here by their outcomes only.
