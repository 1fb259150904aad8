---------------------------- MODULE Conversation ----------------------------
(***************************************************************************)
(* One chat session: the hash sess:<id> in Redis and the run_agent calls   *)
(* that read and write it (src/app/agent, src/app/session).                *)
(*                                                                         *)
(* Each request is an asyncio task.  Between two awaits it runs alone; at  *)
(* every Redis command and every model call another request of the session *)
(* may run, the command may fail, or the process may die.  So one action   *)
(* is one command, and todo[r] holds the commands request r still has to   *)
(* do, as <<verb, field>> pairs.                                           *)
(*                                                                         *)
(* A text is represented by the request it came from: the user's text i is *)
(* question[i], the assistant's is reply[i], a turn is the pair of both,   *)
(* and an origin is the number of the request whose text names it.  0      *)
(* stands for "no text".                                                   *)
(***************************************************************************)
EXTENDS AgentPolicy, Naturals, Sequences, FiniteSets

CONSTANTS
    Place, NoPlace,
    MaxRequests,   \* bound: requests of the session, numbered as they arrive
    MaxInFlight,   \* how many of them the client may have open at once
    MaxTurns,      \* _MAX_RECENT_TURNS, 6 in the code
    Unconfirmed,   \* "I couldn't confirm that specific update ..."
    FaultKind      \* the faults that may happen, a subset of AllFaults

(* A Redis command or the process fails, the model fails, the session is    *)
(* older than its TTL.                                                      *)
AllFaults == {"interruption", "model", "expiry"}

ASSUME BoundsAssumption ==
    /\ MaxRequests \in Nat /\ MaxInFlight \in Nat
    /\ MaxTurns \in Nat \ {0}
    /\ NoPlace \notin Place
    /\ FaultKind \subseteq AllFaults

Request == 1 .. MaxRequests
Text == 0 .. MaxRequests

(* The fields of the hash; "chat" is last_chat_sent_at, kept as a flag.     *)
Field == {"user", "reply", "turns", "dest", "origin", "ctx", "pending", "chat"}
Hash == [user: Text, reply: Text, turns: Seq(Request), dest: Place \cup {NoPlace},
         origin: Text, ctx: Text, pending: Text, chat: BOOLEAN]
NoHash == [user |-> 0, reply |-> 0, turns |-> <<>>, dest |-> NoPlace,
           origin |-> 0, ctx |-> 0, pending |-> 0, chat |-> FALSE]

(* The commands: hget, hset and hdel of a field, and the others.            *)
ReadableField == Field \ {"chat"}
WritableField == {"dest", "origin", "ctx", "pending"}
ClearableField == {"ctx", "pending"}
OtherVerb == {"settle", "route", "load", "save", "expire", "gate", "answer"}
Op == ({"get"} \X ReadableField) \cup ({"set"} \X WritableField)
        \cup ({"del"} \X ClearableField) \cup (OtherVerb \X {"-"})
Path == {"reference", "followup", "origin_request", "journey", "broad"}
Plan == [effective: Text, origin: Text, path: Path \cup {"-"}]
NoPlan == [effective |-> 0, origin |-> 0, path |-> "-"]
Outcome == {"none", "running", "answered", "unavailable", "failed"}

VARIABLES
    hash,      \* the session hash; the key exists iff hash # NoHash
    expiring,  \* the key has a TTL
    place, question,  \* what each request asks
    todo,      \* the commands each request still has to do
    seen,      \* the fields a request has read, until it has decided on them
    history,   \* the recent_turns local to mark_sent
    plan,      \* what the routing of a request decided
    reply,     \* the reply text a request persists
    shown,     \* the reply text it returns to the user
    outcome,   \* what the client gets: 200, 503, or another error
    faults     \* ghost: the faults that have happened; model failures are not kept

inputs == <<place, question>>
store == <<hash, expiring>>
vars == <<hash, expiring, place, question, todo, seen, history, plan, reply,
          shown, outcome, faults>>

Arrived == {r \in Request : outcome[r] # "none"}
Running == {r \in Request : outcome[r] = "running"}
At(r, verb) == outcome[r] = "running" /\ todo[r] # <<>> /\ Head(todo[r])[1] = verb
FieldOf(r) == Head(todo[r])[2]

QuestionOf(i) == IF i = 0 THEN NoQuestion ELSE question[i]
ReplyOf(i) == IF i = 0 THEN NoReply ELSE reply[i]

TypeOK ==
    /\ hash \in Hash /\ Len(hash.turns) <= MaxTurns
    /\ expiring \in BOOLEAN
    /\ place \in [Request -> Place \cup {NoPlace}]
    /\ question \in [Request -> MaybeQuestion]
    /\ todo \in [Request -> Seq(Op)]
    /\ seen \in [Request -> Hash]
    /\ history \in [Request -> Seq(Request)]
    /\ plan \in [Request -> Plan]
    /\ reply \in [Request -> MaybeReply]
    /\ shown \in [Request -> MaybeReply \cup {Unconfirmed}]
    /\ outcome \in [Request -> Outcome]
    /\ faults \in SUBSET FaultKind

Init ==
    /\ hash = NoHash /\ expiring = FALSE
    /\ place = [r \in Request |-> NoPlace]
    /\ question = [r \in Request |-> NoQuestion]
    /\ todo = [r \in Request |-> <<>>]
    /\ seen = [r \in Request |-> NoHash]
    /\ history = [r \in Request |-> <<>>]
    /\ plan = [r \in Request |-> NoPlan]
    /\ reply = [r \in Request |-> NoReply]
    /\ shown = [r \in Request |-> NoReply]
    /\ outcome = [r \in Request |-> "none"]
    /\ faults = {}

-----------------------------------------------------------------------------
(* The commands of each part of run_agent.                                  *)

Local(verb) == <<verb, "-">>
Get(field) == <<"get", field>>
Set(field) == <<"set", field>>
Del(field) == <<"del", field>>

(* The reads of prepare_request_context, one hget each.                     *)
Preparation == <<Get("user"), Get("reply"), Get("turns"), Get("dest"),
                 Get("origin"), Get("ctx"), Get("pending"), Local("settle")>>

(* mark_sent persists the exchange; it reads recent_turns again when there  *)
(* is an exchange to persist.  Every path ends in set_active_destination.   *)
Persist(r, text) ==
    IF question[r] = NoQuestion /\ text = NoReply THEN <<Local("save")>>
                                                  ELSE <<Local("load"), Local("save")>>
NoFinalization == <<>>      \* mutant: the destination is not recorded
Finalization == <<Set("dest")>>

(* Both records of a question that waits for its origin go together.        *)
ClearContextOnly == <<Del("ctx")>>      \* mutant: one of them is forgotten
ClearPending == <<Del("ctx"), Del("pending")>>

PathOps(r, path) ==
    CASE path = "reference"      -> Persist(r, ReferenceRequest)
                                      \o Persist(r, ReferenceRequest) \o Finalization
      [] path = "followup"       -> <<Local("answer")>>
      [] path = "origin_request" -> <<Set("ctx"), Set("pending")>>
                                      \o Persist(r, OriginRequest) \o Finalization
      [] path = "journey"        -> ClearPending \o <<Local("answer")>>
      [] path = "broad"          -> <<Local("gate"), Local("answer")>>

(* The reply of a path that asks back needs no model.                       *)
FixedReplyOf(path) == CASE path = "reference"      -> ReferenceRequest
                        [] path = "origin_request" -> OriginRequest
                        [] OTHER                   -> NoReply

(* Request r goes on with the commands rest; without any it is answered.    *)
Continue(r, rest) ==
    /\ todo' = [todo EXCEPT ![r] = rest]
    /\ outcome' = [outcome EXCEPT ![r] = IF rest = <<>> THEN "answered" ELSE "running"]

(* A request that ends early leaves nothing but what it wrote to Redis.     *)
Abort(r, result) ==
    /\ todo' = [todo EXCEPT ![r] = <<>>]
    /\ outcome' = [outcome EXCEPT ![r] = result]
    /\ seen' = [seen EXCEPT ![r] = NoHash]
    /\ history' = [history EXCEPT ![r] = <<>>]
    /\ plan' = [plan EXCEPT ![r] = NoPlan]

-----------------------------------------------------------------------------
(* A request arrives: AgentRequest strips the question, and "" is none.     *)
Arrive(r, p, q) ==
    /\ r \notin Arrived /\ 1 .. r - 1 \subseteq Arrived
    /\ Cardinality(Running) < MaxInFlight
    /\ place' = [place EXCEPT ![r] = p]
    /\ question' = [question EXCEPT ![r] = q]
    /\ Continue(r, Preparation)
    /\ UNCHANGED <<store, seen, history, plan, reply, shown, faults>>

ReadField(r) ==
    /\ At(r, "get")
    /\ seen' = [seen EXCEPT ![r][FieldOf(r)] = hash[FieldOf(r)]]
    /\ Continue(r, Tail(todo[r]))
    /\ UNCHANGED <<store, inputs, history, plan, reply, shown, faults>>

(* reset_session_for_destination_change: the pending fields are deleted in  *)
(* Redis; the recent turns are dropped from this request only.              *)
DestinationChanged(r) == seen[r].dest # NoPlace /\ seen[r].dest # place[r]
ViewKept(r) == seen[r]      \* mutant: what was read before stays in use
ViewAfterReset(r) == [seen[r] EXCEPT !.turns = <<>>, !.ctx = 0, !.pending = 0]

SettleDestination(r) ==
    /\ At(r, "settle")
    /\ IF DestinationChanged(r)
       THEN /\ seen' = [seen EXCEPT ![r] = ViewAfterReset(r)]
            /\ Continue(r, ClearPending \o <<Local("route")>>)
       ELSE /\ Continue(r, <<Local("route")>>)
            /\ UNCHANGED seen
    /\ UNCHANGED <<store, inputs, history, plan, reply, shown, faults>>

-----------------------------------------------------------------------------
(* resolve_request_context and the routing decision.                        *)

LastReply(r) == ReplyOf(seen[r].reply)

(* The request whose text names an origin, if text i does (extract_origin). *)
\* mutant: any reply to the origin request is taken for a place
OriginInAnyReply(i, lastReply) ==
    IF QuestionOf(i) # NoQuestion /\ (NamesOrigin(QuestionOf(i), lastReply) \/ AsksOrigin(lastReply))
    THEN i ELSE 0
OriginIn(i, lastReply) == IF NamesOrigin(QuestionOf(i), lastReply) THEN i ELSE 0

IsJourneyText(q) == IsJourneyQuestion(q) \/ AsksRoute(q)

(* _apply_active_origin: a route question inherits the session's origin.    *)
WithActiveOrigin(r, origin, i) ==
    IF origin = 0 /\ IsJourneyText(QuestionOf(i)) THEN seen[r].origin ELSE origin

AwaitingOrigin(r) == seen[r].ctx # 0

NamedOrigin(r) ==
    LET direct == WithActiveOrigin(r, OriginIn(r, LastReply(r)), r)
    IN  IF direct = 0 /\ AwaitingOrigin(r) THEN OriginIn(r, OriginRequest) ELSE direct

(* restore_pending_journey_question: the pending question takes the place   *)
(* of a message that names the origin it waits for.  A request without a    *)
(* question has no origin, so the code's other branch is never taken.       *)
OwnQuestion(r) == IF question[r] = NoQuestion THEN 0 ELSE r
\* mutant: the pending question is used only when there is no other
RestoreOwnFirst(r) == IF OwnQuestion(r) # 0 THEN r ELSE seen[r].ctx
RestorePending(r) ==
    IF AwaitingOrigin(r) /\ NamedOrigin(r) # 0 THEN seen[r].ctx ELSE OwnQuestion(r)

(* restore_origin_only_reply: a message that only names an origin answers   *)
(* the journey question of the last exchange.  It compares texts.           *)
RestoreNothing(r, restored) == restored     \* mutant: the fallback is missing
RestoreOriginOnly(r, restored) ==
    IF /\ NamedOrigin(r) # 0
       /\ QuestionOf(restored) = question[r]
       /\ IsOriginOnly(question[r])
       /\ IsJourneyText(QuestionOf(seen[r].user))
    THEN seen[r].user ELSE restored

(* The text the request is answered for.                                    *)
EffectiveQuestion(r) == RestoreOriginOnly(r, RestorePending(r))

(* finalize_origin *)
FinalOrigin(r) ==
    LET effective == EffectiveQuestion(r)
        origin    == IF NamedOrigin(r) # 0 THEN NamedOrigin(r)
                                           ELSE OriginIn(effective, LastReply(r))
    IN  WithActiveOrigin(r, origin, effective)

(* resolve_answer_mode: the model routes a question with history unless the *)
(* policy already says journey; an answer it cannot parse means fallback.   *)
Fallback(r) == ClassifyAnswerMode(QuestionOf(EffectiveQuestion(r)), LastReply(r))
RouterConsulted(r) ==
    /\ Fallback(r) # "journey_planning"
    /\ QuestionOf(EffectiveQuestion(r)) # NoQuestion
    /\ seen[r].turns # <<>>
ResumesJourney(r) == AwaitingOrigin(r) /\ NamedOrigin(r) # 0
AnswerModes(r) == IF ResumesJourney(r)     THEN {"journey_planning"}
                  ELSE IF RouterConsulted(r) THEN Mode
                  ELSE {Fallback(r)}

(* has_same_destination_followup *)
SameDestinationFollowup(r) ==
    /\ question[r] # NoQuestion
    /\ seen[r].dest = place[r]
    /\ \/ seen[r].ctx # 0 \/ seen[r].pending # 0
       \/ seen[r].turns # <<>> \/ LastReply(r) # NoReply

(* handle_pre_agent_paths, in the order of its tests.                       *)
PathOf(r, mode) ==
    IF NeedsReference(question[r], LastReply(r)) THEN "reference"
    ELSE IF \/ mode \in {"news_followup", "weather_followup"}
            \/ mode = "travel_brief" /\ SameDestinationFollowup(r) THEN "followup"
    ELSE IF mode # "journey_planning" THEN "broad"
    ELSE IF NeedsOrigin(question[r], LastReply(r)) THEN "origin_request"
    ELSE IF FinalOrigin(r) # 0 THEN "journey"
    ELSE "broad"

(* The rest of prepare_request_context up to its write of the active        *)
(* origin, and the dispatch on what was decided.  What was read is of no    *)
(* consequence to the session any more.                                     *)
RouteRequest(r, mode) ==
    /\ At(r, "route")
    /\ mode \in AnswerModes(r)
    /\ LET path == PathOf(r, mode)
       IN  /\ plan' = [plan EXCEPT ![r] =
                         [effective |-> EffectiveQuestion(r), origin |-> FinalOrigin(r),
                          path |-> path]]
           /\ reply' = [reply EXCEPT ![r] = FixedReplyOf(path)]
           /\ shown' = [shown EXCEPT ![r] = FixedReplyOf(path)]
           /\ seen' = [seen EXCEPT ![r] = NoHash]
           /\ Continue(r, (IF FinalOrigin(r) # 0 THEN <<Set("origin")>> ELSE <<>>)
                            \o PathOps(r, path))
    /\ UNCHANGED <<store, inputs, history, faults>>

(* What the user is shown for a reply of the broad agent: grounding may     *)
(* replace a claim, and the structured brief stands in for an empty reply.  *)
Confirmed(text) == {text} \cup (IF AnswerFeature[text].claims THEN {Unconfirmed} ELSE {})
Grounded(text) ==
    IF text = NoReply THEN {NoReply} \cup UNION {Confirmed(brief) : brief \in Answer}
                      ELSE Confirmed(text)

(* The model answers.  The deterministic paths clean and validate their     *)
(* answer first and persist what they return; the broad agent persists the  *)
(* model's text and grounds it afterwards.  Either may be empty: a text that*)
(* was nothing but links that are not allowed leaves nothing.               *)
AnswerRequest(r) ==
    /\ At(r, "answer")
    /\ \E text \in Answer \cup {NoReply} :
       \E visible \in IF plan[r].path = "broad" THEN Grounded(text) ELSE {text} :
          /\ reply' = [reply EXCEPT ![r] = text]
          /\ shown' = [shown EXCEPT ![r] = visible]
          /\ Continue(r, Persist(r, text) \o Finalization)
    /\ UNCHANGED <<store, inputs, seen, history, plan, faults>>

(* should_include reads the hash to gate the tools of the broad agent; what *)
(* it gates does not change the session.                                    *)
ConsultGate(r) ==
    /\ At(r, "gate")
    /\ Continue(r, Tail(todo[r]))
    /\ UNCHANGED <<store, inputs, seen, history, plan, reply, shown, faults>>

-----------------------------------------------------------------------------
(* The commands that persist something.                                     *)

(* mark_sent: the turn is appended to the turns read before, and the oldest *)
(* turns are cut.                                                           *)
\* mutant: one turn too many is kept
TrimLate(s) == SubSeq(s, (IF Len(s) > MaxTurns + 1 THEN Len(s) - MaxTurns ELSE 0) + 1, Len(s))
Trim(s) == SubSeq(s, (IF Len(s) > MaxTurns THEN Len(s) - MaxTurns ELSE 0) + 1, Len(s))
TurnsPrepared(r) == seen[r].turns      \* mutant: the turns are not read again
TurnsBefore(r) == history[r]

LoadTurns(r) ==
    /\ At(r, "load")
    /\ history' = [history EXCEPT ![r] = hash.turns]
    /\ Continue(r, Tail(todo[r]))
    /\ UNCHANGED <<store, inputs, seen, plan, reply, shown, faults>>

HasExchange(r) == question[r] # NoQuestion \/ reply[r] # NoReply

(* The mapping mark_sent writes in one hset.                                *)
\* mutant: the reply is stored only together with a question
ExchangeSavedIfAsked(r) ==
    [hash EXCEPT
        !.user  = IF question[r] # NoQuestion THEN r ELSE @,
        !.reply = IF question[r] # NoQuestion THEN r ELSE @,
        !.turns = IF HasExchange(r) THEN Trim(Append(TurnsBefore(r), r)) ELSE @,
        !.chat  = TRUE]
ExchangeSaved(r) ==
    [hash EXCEPT
        !.user  = IF question[r] # NoQuestion THEN r ELSE @,
        !.reply = IF reply[r] # NoReply THEN r ELSE @,
        !.turns = IF HasExchange(r) THEN Trim(Append(TurnsBefore(r), r)) ELSE @,
        !.chat  = TRUE]

(* The value _write_field stores in a field.                                *)
FieldWritten(r) ==
    CASE FieldOf(r) = "dest"    -> [hash EXCEPT !.dest = place[r]]
      [] FieldOf(r) = "origin"  -> [hash EXCEPT !.origin = plan[r].origin]
      [] FieldOf(r) = "ctx"     -> [hash EXCEPT !.ctx = r]
      [] FieldOf(r) = "pending" -> [hash EXCEPT !.pending = r]

FieldCleared(r) ==
    CASE FieldOf(r) = "ctx"     -> [hash EXCEPT !.ctx = 0]
      [] FieldOf(r) = "pending" -> [hash EXCEPT !.pending = 0]

(* Redis drops a hash, and its TTL, with its last field.                    *)
Keep(newHash) == hash' = newHash /\ expiring' = (expiring /\ newHash # NoHash)

(* An hset is followed by an expire of its own; an hdel is not.  Every path *)
(* ends in the expire of set_active_destination, and with it the task.      *)
NotArmed(r) == Tail(todo[r])      \* mutant: the TTL is not set
ThenArm(r) == <<Local("expire")>> \o Tail(todo[r])

SaveExchange(r) ==
    /\ At(r, "save")
    /\ Keep(ExchangeSaved(r))
    /\ history' = [history EXCEPT ![r] = <<>>]
    /\ Continue(r, ThenArm(r))
    /\ UNCHANGED <<inputs, seen, plan, reply, shown, faults>>

WriteField(r) ==
    /\ At(r, "set")
    /\ Keep(FieldWritten(r))
    /\ Continue(r, ThenArm(r))
    /\ UNCHANGED <<inputs, seen, history, plan, reply, shown, faults>>

ClearField(r) ==
    /\ At(r, "del")
    /\ Keep(FieldCleared(r))
    /\ Continue(r, Tail(todo[r]))
    /\ UNCHANGED <<inputs, seen, history, plan, reply, shown, faults>>

ArmExpiry(r) ==
    /\ At(r, "expire")
    /\ expiring' = (hash # NoHash)
    /\ Continue(r, Tail(todo[r]))
    /\ UNCHANGED <<hash, inputs, seen, history, plan, reply, shown, faults>>

-----------------------------------------------------------------------------
(* What goes wrong.                                                         *)

Fault(kind) == kind \in FaultKind /\ faults' = faults \cup {kind}
RedisVerb == {"get", "set", "del", "load", "save", "expire", "gate"}
AtRedis(r) == \E verb \in RedisVerb : At(r, verb)

(* A command fails and was not executed: RedisError, so a 503.              *)
RedisFails(r) ==
    /\ AtRedis(r) /\ Fault("interruption")
    /\ Abort(r, "unavailable")
    /\ UNCHANGED <<store, inputs, reply, shown>>

(* A write was executed, but its reply is lost (socket_timeout).  redis-py   *)
(* sends the command again, a few times; then the request ends in a 503.    *)
Executed(r) ==
    \/ At(r, "save") /\ Keep(ExchangeSaved(r))
    \/ At(r, "set") /\ Keep(FieldWritten(r))
    \/ At(r, "del") /\ Keep(FieldCleared(r))

RedisRepeats(r) ==
    /\ Executed(r) /\ Fault("interruption")
    /\ UNCHANGED <<inputs, todo, seen, history, plan, reply, shown, outcome>>

RedisReplyLost(r) ==
    /\ Executed(r) /\ Fault("interruption")
    /\ Abort(r, "unavailable")
    /\ UNCHANGED <<inputs, reply, shown>>

(* The model call times out or fails: a 504 or a 500.                       *)
ModelFails(r) ==
    /\ \/ At(r, "answer")
       \/ At(r, "route") /\ RouterConsulted(r)
    /\ "model" \in FaultKind
    /\ Abort(r, "failed")
    /\ UNCHANGED <<store, inputs, reply, shown, faults>>

(* The process dies; its requests are gone, the session is in Redis.        *)
Crash ==
    /\ Running # {} /\ Fault("interruption")
    /\ todo' = [r \in Request |-> <<>>]
    /\ outcome' = [r \in Request |-> IF r \in Running THEN "failed" ELSE outcome[r]]
    /\ seen' = [r \in Request |-> NoHash]
    /\ history' = [r \in Request |-> <<>>]
    /\ plan' = [r \in Request |-> IF r \in Running THEN NoPlan ELSE plan[r]]
    /\ UNCHANGED <<store, inputs, reply, shown>>

(* The session is older than its TTL.                                       *)
Expire ==
    /\ expiring /\ Fault("expiry")
    /\ hash' = NoHash /\ expiring' = FALSE
    /\ UNCHANGED <<inputs, todo, seen, history, plan, reply, shown, outcome>>

-----------------------------------------------------------------------------
Step(r) ==
    \/ ReadField(r) \/ SettleDestination(r)
    \/ \E mode \in Mode : RouteRequest(r, mode)
    \/ ConsultGate(r) \/ AnswerRequest(r)
    \/ LoadTurns(r) \/ SaveExchange(r)
    \/ WriteField(r) \/ ClearField(r) \/ ArmExpiry(r)
Failure(r) == RedisFails(r) \/ RedisRepeats(r) \/ RedisReplyLost(r) \/ ModelFails(r)

Done == Arrived = Request /\ Running = {} /\ UNCHANGED vars

Next ==
    \/ \E r \in Request, p \in Place, q \in MaybeQuestion : Arrive(r, p, q)
    \/ \E r \in Request : Step(r) \/ Failure(r)
    \/ Crash \/ Expire
    \/ Done

Spec == Init /\ [][Next]_vars
=============================================================================
