---------------------------- MODULE TravelAnswer ----------------------------
(***************************************************************************)
(* How one question is answered: from the evidence to the text that is     *)
(* shown (followup_qa.py, and agent_response.py for a broad question, which*)
(* the agent answers with its tools).  The language model may write        *)
(* anything; what is shown of it is the subject of this module.            *)
(* Lists of news are sets here, so where the first item would do, any may. *)
(***************************************************************************)
EXTENDS NewsRelevance, RoutePlanner

CONSTANTS
    PlaceName, OriginName,  \* the words of the destination and of the origin
    Reference,              \* the words question and last reply may have
    Phrase,                 \* the sentences the model writes
    MaxSentences,           \* bound: in one answer
    MaxItems,               \* items of a news feed, 3 in the code
    MaxFound                \* items a search returns, 5 in the code

LongDistance == 500

ASSUME AnswerAssumption ==
    /\ PlaceName \subseteq Word /\ OriginName \subseteq Word
    /\ Reference \subseteq SUBSET Word /\ \A words \in Reference : IsFiniteSet(words)
    /\ Phrase \subseteq Sentence
    /\ MaxSentences \in Nat /\ MaxItems \in Nat /\ MaxFound \in Nat

VARIABLES
    mode,       \* which of the answer_* functions, or the agent, answers
    reference,  \* the words of the question and the last reply
    stage,      \* what comes next
    items,      \* the news about the destination the answer may use
    replies,    \* what the route provider answered for each profile
    plan,       \* route_plan
    routeError, \* route_err, "none" for a plan, "unknown" before there is an answer
    guidance,   \* transport_guidance
    flags,      \* ghost: the disruptions in the evidence of a journey
    matched,    \* matched_current_item and matched_targeted_item, in this order
    written,    \* the text the model wrote, or the one that stands for it
    final       \* what is shown

question == <<mode, reference>>
evidence == <<items, matched>>
journey == <<replies, plan, routeError, guidance, flags>>
vars == <<question, stage, evidence, journey, written, final>>

\* A journey question about route or transport (route_or_transport) is "transport".
Mode == {"news", "general", "journey", "transport", "weather", "broad"}
FollowUp == {"news", "general"}
Journey == {"journey", "transport"}
Stage == {"gather", "route", "plan", "search", "reason", "finish", "done", "failed"}

NoItem == [words |-> {}, impact |-> FALSE, url |-> NoUrl, age |-> 0, blocks |-> {}]
NoGuidance == [reason |-> "none", mentions |-> {}, alternatives |-> {}]
NoText == <<>>
Plain == [claims |-> FALSE, links |-> {}, bare |-> FALSE, generic |-> FALSE, direct |-> TRUE]
Canned == <<Plain>>         \* the fixed texts that stand for an answer
\* Whether a generic sentence is direct makes no difference: only this one is both.
Unconfirmed == <<[Plain EXCEPT !.generic = TRUE]>>   \* "I couldn't confirm that specific update"
SourceNote(url) == [Plain EXCEPT !.links = {url}, !.direct = FALSE]

Text == UNION {[1 .. n -> Phrase] : n \in 0 .. MaxSentences}
NoRoute == [error |-> "no_route"]

TypeOK ==
    /\ mode \in Mode /\ reference \in Reference /\ stage \in Stage
    /\ items \subseteq Item
    /\ replies \in [Range(DefaultProfiles) -> RouteReply \cup {NoRoute}]
    /\ plan = NoPlan \/ plan \in [profile: STRING, distance: Nat, duration: Nat]
    /\ routeError \in PlanError \cup {"none", "unknown"}
    /\ guidance.mentions \subseteq Transport \cup {"distance", "no_routes"}
    /\ flags \subseteq Transport
    /\ matched \in [{"current", "targeted"} -> Item \cup {NoItem}]
    /\ written \in TextOfAnswer /\ final \in TextOfAnswer

Init ==
    /\ mode \in Mode /\ reference \in Reference
    /\ stage = "gather"
    /\ items = {}
    /\ replies = [p \in Range(DefaultProfiles) |-> NoRoute]
    /\ plan = NoPlan /\ routeError = "unknown" /\ guidance = NoGuidance /\ flags = {}
    /\ matched = [when \in {"current", "targeted"} |-> NoItem]
    /\ written = NoText /\ final = NoText

-----------------------------------------------------------------------------
(* _match_news_item: among the items about the place, one that shares the   *)
(* most words with the question; none when no word is shared.               *)
BestOf(eligible) ==
    LET overlap(i) == Cardinality(reference \cap i.words \cap MeaningfulWord)
    IN  {i \in eligible : overlap(i) > 0 /\ \A j \in eligible : overlap(j) <= overlap(i)}
MatchAnything(found) == IF found = {} THEN {NoItem} ELSE found    \* mutant
Match(found) ==
    LET eligible == FilterRelevant(found, PlaceName)
    IN  CASE eligible = {} -> {NoItem}
          [] eligible # {} /\ reference \cap MeaningfulWord = {} -> eligible
          [] OTHER -> IF BestOf(eligible) = {} THEN {NoItem} ELSE BestOf(eligible)

Feed(place, most) == {s \in SUBSET FilterRelevant(Item, place) : Cardinality(s) <= most}

GatherNews ==
    /\ stage = "gather" /\ mode \in FollowUp
    /\ items' \in Feed(PlaceName, MaxItems)
    /\ \E item \in Match(items') : matched' = [matched EXCEPT !["current"] = item]
    /\ stage' = "plan"
    /\ UNCHANGED <<question, journey, written, final>>
NewsUnavailable ==
    /\ stage = "gather" /\ mode = "news"
    /\ final' = Canned
    /\ stage' = "done"
    /\ UNCHANGED <<question, evidence, journey, written>>

(* A forecast, or at least a weather line, or nothing.                      *)
GatherWeather ==
    /\ stage = "gather" /\ mode = "weather"
    /\ \/ stage' = "reason" /\ UNCHANGED final
       \/ stage' = "done" /\ final' = Canned
    /\ UNCHANGED <<question, evidence, journey, written>>

(* The agent's tools ran: items are the news of the latest travel brief, if *)
(* there is one.  The model chose the place it asked the tool about.        *)
CallTools ==
    /\ stage = "gather" /\ mode = "broad"
    /\ \E place \in {PlaceName, OriginName} : items' \in Feed(place, MaxItems)
    /\ stage' = "reason"
    /\ UNCHANGED <<question, matched, journey, written, final>>

(* The news about both ends of a journey.                                   *)
GatherJourney ==
    /\ stage = "gather" /\ mode \in Journey
    /\ items' \in Feed(PlaceName, MaxItems)
    /\ \E there \in Feed(OriginName, MaxItems) : flags' = UNION {i.blocks : i \in items' \cup there}
    /\ stage' = "route"
    /\ UNCHANGED <<question, matched, replies, plan, routeError, guidance, written, final>>

(* A travel assessment that is JSON but no object, a planner's answer that  *)
(* is, and every error of the language model end the request.               *)
AnsweringFails ==
    /\ \/ stage = "gather" /\ mode \in Journey \cup {"general"}
       \/ stage \in {"plan", "reason"}
    /\ stage' = "failed"
    /\ UNCHANGED <<question, evidence, journey, written, final>>

-----------------------------------------------------------------------------
(* _build_transport_guidance, in the order the cases are tried.             *)
Guide(reason, mentions, alternatives) ==
    [reason |-> reason, mentions |-> mentions, alternatives |-> alternatives]
Elsewhere == {"flight", "ferry"}
GuidanceIgnoringRoads(err, best, disrupted) ==     \* mutant: the long trip comes first
    IF err = "no_routes" THEN Guide("no_routes", {"no_routes"}, Elsewhere)
    ELSE IF best # NoPlan /\ best.distance > LongDistance
    THEN Guide("distance", {"distance"}, Elsewhere) ELSE NoGuidance
GuidanceFor(err, best, disrupted) ==
    LET long == best # NoPlan /\ best.distance > LongDistance
        blocked == "road" \in disrupted
        schedules == disrupted \cap {"flight", "ferry"}
    IN  CASE err = "no_routes" -> Guide("no_routes", {"no_routes"}, Elsewhere)
          [] err # "no_routes" /\ long ->
                Guide("distance", {"distance"} \cup (disrupted \cap {"road"}), Elsewhere)
          [] err # "no_routes" /\ ~long /\ blocked /\ best # NoPlan ->
                Guide("road_disruption", {"road"}, Elsewhere)
          [] OTHER -> IF schedules = {} THEN NoGuidance
                      ELSE Guide("schedule_disruption", schedules, {"confirm_schedules"})

PlanJourney ==
    /\ stage = "route"
    /\ replies' \in [Range(DefaultProfiles) -> RouteReply]
    /\ \E configured \in BOOLEAN, located \in BOOLEAN :
         routeError' = RouteError(configured, located, <<>>, replies')
    /\ plan' = IF routeError' = "none" THEN PlanRoute(<<>>, replies') ELSE NoPlan
    /\ guidance' = IF mode = "transport" THEN GuidanceFor(routeError', plan', flags)
                                         ELSE NoGuidance
    /\ stage' = "plan"
    /\ UNCHANGED <<question, evidence, flags, written, final>>

(* The planner answers, or has nothing to say and there is one search.      *)
PlannerAnswers ==
    /\ stage = "plan"
    /\ written' \in Text \ {NoText}
    /\ stage' = "finish"
    /\ UNCHANGED <<question, evidence, journey, final>>
PlannerSearches ==
    /\ stage = "plan"
    /\ stage' = "search"
    /\ UNCHANGED <<question, evidence, journey, written, final>>

(* search_news, which returns items about the destination, or fails.        *)
Search ==
    /\ stage = "search"
    /\ \E found \in Feed(PlaceName, MaxFound) :
         \E item \in IF mode \in FollowUp THEN Match(found) ELSE {NoItem} :
            matched' = [matched EXCEPT !["targeted"] = item]
    /\ stage' = "reason"
    /\ UNCHANGED <<question, items, journey, written, final>>

(* The model's answer, or a fixed text when it is empty.  The agent's final *)
(* message may be empty, too, and then the brief's text stands for it.      *)
Reason ==
    /\ stage = "reason"
    /\ \E text \in Text :
         written' = IF text = NoText /\ mode # "broad" THEN Canned ELSE text
    /\ stage' = "finish"
    /\ UNCHANGED <<question, evidence, journey, final>>

-----------------------------------------------------------------------------
(* _condense_direct_answer: one sentence is left, a direct one if there is. *)
First(text, test(_)) ==
    LET hits == {n \in DOMAIN text : test(text[n])}
    IN  IF hits = {} THEN NoText ELSE <<text[Min(hits)]>>
CondenseLast(text) == IF text = NoText THEN NoText ELSE <<text[Len(text)]>>   \* mutant
Condense(text) ==
    LET specific(s) == ~s.generic
        direct(s) == ~s.generic /\ s.direct
    IN  IF Len(text) <= 1 THEN text
        ELSE CASE First(text, direct) # NoText -> First(text, direct)
               [] First(text, direct) = NoText /\ First(text, specific) # NoText ->
                     First(text, specific)
               [] OTHER -> <<text[1]>>

(* _validate_news_answer: without a match nothing is checked but the links. *)
Matches == {matched["current"], matched["targeted"]} \ {NoItem}
Validate(text) ==
    LET cleaned == Sanitize(text, UrlsOf(Matches))
    IN  IF cleaned = NoText \/ Matches = {} THEN cleaned
        ELSE IF \E i \in Matches : SupportsClaim(cleaned, i, PlaceName)
        THEN cleaned ELSE Unconfirmed

(* _append_followup_link_if_needed: the searched item's link comes first.   *)
BestLink ==
    IF matched["targeted"].url # NoUrl THEN matched["targeted"].url ELSE matched["current"].url
AppendToAll(text, url) ==      \* mutant: also to an empty text and to a refusal
    IF url = NoUrl \/ LinksIn(text) # {} THEN text ELSE Append(text, SourceNote(url))
AppendLink(text, url) ==
    IF text \in {NoText, Unconfirmed} \/ url = NoUrl \/ LinksIn(text) # {} THEN text
    ELSE Append(text, SourceNote(url))

(* _ground_final_answer and _append_news_source_link for a broad question;  *)
(* which item shares words with the answer is left open.                    *)
Ground(text) ==
    LET cleaned == Sanitize(text, UrlsOf(items))
    IN  IF Claims(cleaned) /\ ~\E i \in items : SupportsClaim(cleaned, i, PlaceName)
        THEN Unconfirmed ELSE cleaned
LinkChoices == {NoUrl} \cup (UrlsOf(items) \cap HttpsUrl)

Finish ==
    /\ stage = "finish"
    /\ \/ mode = "weather" /\ final' = Condense(written)
       \/ mode \in FollowUp \cup Journey
          /\ final' = AppendLink(Validate(Condense(written)), BestLink)
       \/ mode = "broad"
          /\ \E url \in LinkChoices : final' = AppendLink(Ground(written), url)
    /\ stage' = "done"
    /\ UNCHANGED <<question, evidence, journey, written>>

-----------------------------------------------------------------------------
Next ==
    \/ GatherNews \/ NewsUnavailable \/ GatherWeather \/ CallTools \/ GatherJourney
    \/ PlanJourney \/ PlannerAnswers \/ PlannerSearches \/ Search \/ Reason
    \/ AnsweringFails \/ Finish

Spec == Init /\ [][Next]_vars

-----------------------------------------------------------------------------
Backing == IF mode = "broad" THEN items ELSE Matches

(* Whatever addresses the model writes, the answer to a follow-up shows only*)
(* those of articles about the place, found for this question, a journey    *)
(* none, and a broad answer those of the brief's articles, over https.      *)
(* Answers about the weather are not cleaned.                               *)
LinksComeFromEvidence ==
    stage = "done" /\ mode # "weather" =>
        \A url \in LinksIn(final) : \E i \in Backing :
            /\ i.url = url
            /\ mode = "broad" => url \in HttpsUrl
            /\ mode # "broad" => MentionsPlace(i, PlaceName)
            /\ mode # "broad" /\ reference \cap MeaningfulWord # {} =>
                  reference \cap i.words # {}

(* A suspension, a closure, an evacuation or a cancellation is shown for a  *)
(* broad question only if an article about the place speaks of such a thing.*)
(* For a follow-up it is shown unchecked when no article was matched, and   *)
(* that is so only when no article of the feed shares a word with the       *)
(* question and the last reply.  Nothing is checked of a journey's answer   *)
(* (_match_news_item is not called for it) or of one about the weather.     *)
Related(item) ==
    reference \cap MeaningfulWord # {} => reference \cap MeaningfulWord \cap item.words # {}
ClaimsAreSupported ==
    stage = "done" /\ Claims(final) =>
        /\ mode = "broad" => \E i \in items : i.impact /\ MentionsPlace(i, PlaceName)
        /\ mode \in FollowUp =>
              \/ \E i \in Matches : i.impact /\ MentionsPlace(i, PlaceName)
              \/ Matches = {} /\ \A i \in items : ~Related(i)

(* The sentence that says that nothing was confirmed, unless the model wrote*)
(* it itself, stands alone without a link, and it never gets in the way of  *)
(* a text without claims that an article backs.                             *)
Unlinked(sentence) == [sentence EXCEPT !.links = {}]
RefusalsStandAlone ==
    /\ stage = "done" /\ final # NoText /\ final[1] = Unconfirmed[1]
    /\ \A n \in DOMAIN written : Unlinked(written[n]) # Unconfirmed[1]
    => Len(final) = 1 /\ Claims(written)

(* Cleaning does not lose an answer: a follow-up is answered with an empty  *)
(* text only when what was kept of the model's was nothing but an address,  *)
(* and that is kept only where no other sentence answers more directly.     *)
Directness(sentence) ==
    CASE sentence.generic -> 0
      [] ~sentence.generic /\ ~sentence.direct -> 1
      [] ~sentence.generic /\ sentence.direct -> 2
AnswersAreNotLost ==
    stage = "done" /\ mode # "broad" /\ final = NoText =>
        \E n \in DOMAIN written :
            /\ written[n].bare
            /\ \A m \in DOMAIN written : Directness(written[m]) <= Directness(written[n])

(* The mode recommended is the fastest of those the provider found, a       *)
(* duration of 0 apart: it counts as unknown (raw_duration_s or inf), and   *)
(* such a route is recommended only when all are so.                        *)
BestRouteIsFastest ==
    plan # NoPlan =>
        /\ IsRoute(replies[plan.profile]) /\ plan.duration = replies[plan.profile].duration
        /\ \A p \in Range(DefaultProfiles) :
              IsRoute(replies[p]) /\ replies[p].duration > 0 =>
                  plan.duration \in 1 .. replies[p].duration

(* Trouble on the way, and a road that is no choice, reach who asks about   *)
(* transport.  Other means are named when no profile has a route, when the  *)
(* best one is long, and when it may be blocked; a blocked road on a planned*)
(* route is named, whatever else is said.  Trouble is passed over in silence*)
(* in one case: it is only about roads, and there is no plan for another    *)
(* reason than that no route was found.  (Next to other guidance, flights   *)
(* and ferries that are disrupted go unmentioned.)                          *)
DisruptionsReachGuidance ==
    mode = "transport" /\ routeError # "unknown" =>
        LET roadInDoubt == "road" \in flags /\ plan # NoPlan
            long == plan # NoPlan /\ plan.distance > LongDistance
            found == {p \in Range(DefaultProfiles) : IsRoute(replies[p])}
        IN  /\ routeError = "no_routes" => found = {}
            /\ routeError = "no_routes" \/ long \/ roadInDoubt =>
                  guidance.alternatives = Elsewhere
            /\ roadInDoubt => "road" \in guidance.mentions
            /\ flags # {} /\ guidance = NoGuidance =>
                  flags = {"road"} /\ plan = NoPlan /\ routeError # "no_routes"
=============================================================================
