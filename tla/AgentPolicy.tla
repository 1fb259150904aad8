---------------------------- MODULE AgentPolicy ----------------------------
(***************************************************************************)
(* The deterministic text policy of the chat endpoint                      *)
(* (src/app/agent/agent_policy.py): which answer mode a question gets, who *)
(* named a journey origin, and when the assistant must ask back.           *)
(*                                                                         *)
(* The source decides by regular expressions and term lists over the text. *)
(* Here a question is an element of Question and the verdict of each       *)
(* elementary matcher on it is a field of Feature[question]; what is       *)
(* modelled is everything the code decides FROM those verdicts.            *)
(***************************************************************************)
CONSTANTS
    Question,       \* the texts a user may send
    NoQuestion,     \* the question left out of a request (falsy)
    Feature,        \* [Question -> record of matcher verdicts]
    Answer,         \* the texts the language model may produce
    AnswerFeature,  \* [Answer -> record of matcher verdicts]
    OriginRequest,  \* the fixed reply "... Where are you traveling from?"
    ReferenceRequest, \* the fixed reply "I need the specific news item ..."
    NoReply,        \* no previous reply, or an empty one (falsy)
    TokenOverlap    \* the pairs <<question, reply>> that share a topic word

(* What the matchers say of a question.                                     *)
(*   phrase     an extract_origin pattern names a place ("I am from X")     *)
(*   location   _looks_like_location_reply: a bare place name               *)
(*   short      at most six words                                           *)
(*   journey    is_journey_planning_question                                *)
(*   route      asks_route_or_transport                                     *)
(*   trip       is_trip_planning_question                                   *)
(*   brief      a travel-brief term ("safe", "worth it")                    *)
(*   weather, news   a weather or a news term                               *)
(*   refers     "that", "this", "it" or "there" occurs in the text          *)
(*   unclear    such a word, an explanation term, and no topic of its own   *)
(*   continues  a continuation term ("still", "until", "on monday")         *)
QuestionFeature ==
    [phrase: BOOLEAN, location: BOOLEAN, short: BOOLEAN, journey: BOOLEAN,
     route: BOOLEAN, trip: BOOLEAN, brief: BOOLEAN, weather: BOOLEAN,
     news: BOOLEAN, refers: BOOLEAN, unclear: BOOLEAN, continues: BOOLEAN]

(* asks: the reply asks for the departure place; claims: it states a high-  *)
(* impact event that grounding has to confirm.                              *)
ReplyFeature == [asks: BOOLEAN, weather: BOOLEAN, news: BOOLEAN, claims: BOOLEAN]

FixedReply == {OriginRequest, ReferenceRequest}
Reply == Answer \cup FixedReply
MaybeQuestion == Question \cup {NoQuestion}
MaybeReply == Reply \cup {NoReply}

ASSUME QuestionAssumption ==
    /\ NoQuestion \notin Question
    /\ Feature \in [Question -> QuestionFeature]
    /\ \A q \in Question : Feature[q].unclear => Feature[q].refers

ASSUME ReplyAssumption ==
    /\ OriginRequest # ReferenceRequest
    /\ NoReply \notin Reply
    /\ Answer \cap FixedReply = {}
    /\ AnswerFeature \in [Answer -> ReplyFeature]
    /\ TokenOverlap \subseteq Question \X Reply

Mode == {"travel_brief", "news_followup", "weather_followup", "journey_planning"}

(* Term tests on a reply.  Both fixed replies contain news terms: "where"   *)
(* and "location" are in _NEWS_TERMS.                                       *)
AsksOrigin(reply) ==
    \/ reply = OriginRequest
    \/ reply \in Answer /\ AnswerFeature[reply].asks
MentionsNews(reply) ==
    \/ reply \in FixedReply
    \/ reply \in Answer /\ AnswerFeature[reply].news
MentionsWeather(reply) ==
    reply \in Answer /\ AnswerFeature[reply].weather

IsJourneyQuestion(q) == q # NoQuestion /\ Feature[q].journey
AsksRoute(q) == q # NoQuestion /\ Feature[q].route

(* extract_origin(q, reply) finds an origin: by a phrase of the question,   *)
(* or because the question is a bare place name and the reply asked for it. *)
NamesOrigin(q, reply) ==
    /\ q # NoQuestion
    /\ Feature[q].phrase \/ (AsksOrigin(reply) /\ Feature[q].location)

(* _infer_followup_topic *)
FollowupTopic(q, reply) ==
    CASE ~Feature[q].refers     -> "none"
      [] MentionsNews(reply)    -> "news"
      [] MentionsWeather(reply) -> "weather"
      [] AsksOrigin(reply)      -> "journey"
      [] OTHER                  -> "none"

(* _should_force_journey *)
ForcesJourney(q, reply) ==
    \/ AsksOrigin(reply) /\ NamesOrigin(q, reply)
    \/ Feature[q].journey
    \/ FollowupTopic(q, reply) = "journey"

(* _looks_like_news_followup and _looks_like_weather_followup differ only   *)
(* in the topic of the reply they continue.                                 *)
Continues(q, reply) ==
    /\ reply # NoReply
    /\ <<q, reply>> \in TokenOverlap \/ Feature[q].continues

(* _resolve_followup_signals: the set of signals a question stands for.     *)
FollowupSignals(q, reply) ==
    LET topic  == FollowupTopic(q, reply)
        direct == {s \in {"weather", "news"} : Feature[q][s] \/ topic = s}
    IN  IF direct # {} \/ ~Continues(q, reply) THEN direct
        ELSE IF MentionsNews(reply) THEN {"news"}
        ELSE IF MentionsWeather(reply) THEN {"weather"}
        ELSE {}

(* classify_answer_mode *)
ClassifyAnswerMode(q, reply) ==
    IF q = NoQuestion THEN "travel_brief"
    ELSE IF ForcesJourney(q, reply) THEN "journey_planning"
    ELSE CASE FollowupSignals(q, reply) = {"news"}    -> "news_followup"
           [] FollowupSignals(q, reply) = {"weather"} -> "weather_followup"
           [] OTHER                                   -> "travel_brief"

(* needs_followup_reference_clarification *)
NeedsReference(q, reply) ==
    q # NoQuestion /\ reply = NoReply /\ Feature[q].unclear

(* needs_origin_clarification: it looks at the text of this question and    *)
(* the previous reply only, not at an origin the session already knows.     *)
NeedsOrigin(q, reply) ==
    /\ q # NoQuestion
    /\ Feature[q].journey \/ AsksOrigin(reply)
    /\ ~NamesOrigin(q, reply)

(* is_origin_only_reply: the message names an origin and asks nothing.      *)
IsOriginOnly(q) ==
    /\ NamesOrigin(q, NoReply)
    /\ \A topic \in {"weather", "news", "brief", "trip", "journey", "route"} :
           ~Feature[q][topic]
    /\ Feature[q].location \/ Feature[q].short
=============================================================================
