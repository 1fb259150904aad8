---------------------------- MODULE PlaceEvidence ----------------------------
(***************************************************************************)
(* What is gathered about one place, call by call: the travel brief        *)
(* (travel_brief.py, travel_concern_assessor.py) that /travel-brief and the*)
(* tools return, and the evidence of a follow-up, which replaces the       *)
(* weather of the brief by that of the day the user asks about             *)
(* (_gather_place_evidence in followup_qa.py).  Every provider call takes  *)
(* time, may fail, and midnight may pass while it runs.                    *)
(***************************************************************************)
EXTENDS NewsRelevance, WeatherReport

CONSTANTS
    PlaceName,     \* the words of the place
    StartDay,      \* the days a call may begin on
    AskedHorizon,  \* the horizons callers ask for
    Sky,           \* the forecasts providers return
    MaxMidnights,  \* midnights that pass during one call at one place
    MaxAge,        \* max_age_days, 7 in the code
    MaxItems       \* _MAX_SELECTED_NEWS and the cuts to three items

ASSUME EvidenceAssumption ==
    /\ PlaceName \subseteq Word
    /\ StartDay \subseteq Int /\ AskedHorizon \subseteq Horizon /\ Sky \subseteq Forecast
    /\ MaxMidnights \in Nat /\ MaxAge \in Nat /\ MaxItems \in Nat

VARIABLES
    purpose,    \* who asks: the endpoint, a follow-up, or a question about the weather
    horizon,    \* for which day
    local, utc, \* today at the place and in UTC
    midnights,  \* ghost: the midnights that have passed at the place
    stage,      \* the call that comes next
    forecast,   \* the provider's answer get_weather_summary is reading
    summary,    \* weather_summary
    line,       \* weather_line is not empty
    weatherErr, newsErr,
    headlines,  \* the news that is left after filter_relevant_news
    brief,      \* the assessment
    reasons     \* weather_reasons of the evidence

question == <<purpose, horizon>>
clock == <<local, utc, midnights>>
weather == <<forecast, summary, line, weatherErr>>
news == <<headlines, newsErr>>
vars == <<question, clock, stage, weather, news, brief, reasons>>

Zone == {"named", "auto"}
NoForecast == [zone |-> "none", first |-> 0]
NoSummary == [zone |-> "none", label |-> 0, day |-> 0]
NoBrief == [by |-> "none", level |-> "low", news |-> {}]
Stage == {"forecast", "day", "line", "news", "assess", "later_forecast", "later_day",
          "later_line", "done", "failed"}

SummaryOf(z, l, d, s) == [zone |-> z, label |-> l, day |-> d, sky |-> s]
Summary == [zone: Zone, label: Int, day: Int, sky: Forecast]

TypeOK ==
    /\ purpose \in {"endpoint", "followup", "weather"}
    /\ horizon \in Horizon
    /\ local \in Int /\ utc \in Int /\ midnights \in 0 .. MaxMidnights
    /\ stage \in Stage
    /\ forecast \in {NoForecast} \cup [zone: Zone, first: Int]
    /\ summary \in {NoSummary} \cup Summary
    /\ line \in BOOLEAN /\ weatherErr \in BOOLEAN /\ newsErr \in BOOLEAN
    /\ headlines \subseteq Item
    /\ brief \in [by: {"none", "model", "fallback"}, level: Level, news: SUBSET Item]
    /\ reasons \subseteq {"weather"} \cup WeatherNote

Init ==
    /\ purpose \in {"endpoint", "followup", "weather"}
    /\ horizon \in IF purpose = "endpoint" THEN {Today} ELSE AskedHorizon
    /\ local \in StartDay /\ utc \in {local - 1, local, local + 1} /\ midnights = 0
    /\ stage = IF purpose = "weather" THEN "later_forecast" ELSE "forecast"
    /\ forecast = NoForecast /\ summary = NoSummary /\ line = FALSE
    /\ weatherErr = FALSE /\ newsErr = FALSE /\ headlines = {}
    /\ brief = NoBrief /\ reasons = {}

-----------------------------------------------------------------------------
(* build_travel_brief asks for today, the later call for the user's day.    *)
Later == stage \in {"later_forecast", "later_day"}
Wanted == IF Later THEN horizon ELSE Today
TodayIn(zone) == IF zone = "named" THEN local ELSE utc

(* Where it goes on with and without a summary.                             *)
AfterSummary == IF Later THEN "done" ELSE "news"
WithoutSummary ==
    IF ~Later THEN "line" ELSE IF purpose = "weather" THEN "later_line" ELSE "done"

FetchForecast ==
    /\ stage \in {"forecast", "later_forecast"}
    /\ \E zone \in Zone : forecast' = [zone |-> zone, first |-> local]
    /\ stage' = IF Later THEN "later_day" ELSE "day"
    /\ UNCHANGED <<question, clock, summary, line, weatherErr, news, brief, reasons>>

(* Geocoding or the forecast fails: the summary in hand stays, and only the *)
(* brief says that there was an error.                                      *)
ErrorDropped == weatherErr       \* mutant: only the error of the line counts
ErrorAfterSummary == weatherErr \/ ~Later
ForecastFails ==
    /\ stage \in {"forecast", "later_forecast"}
    /\ stage' = WithoutSummary
    /\ weatherErr' = ErrorAfterSummary
    /\ UNCHANGED <<question, clock, forecast, summary, line, news, brief, reasons>>

(* The reasons were given for today's weather, not for that of a later day. *)
ReasonsKept == reasons       \* mutant: they stay when the summary changes
ReasonsAfter == IF Later THEN {} ELSE reasons

ReadDay ==
    /\ stage \in {"day", "later_day"}
    /\ LET target == ResolveHorizon(Wanted, TodayIn(forecast.zone))
           index == DailyIndex(forecast.first, Wanted, target)
       IN  \E sky \in Sky :
             summary' = SummaryOf(forecast.zone, target, forecast.first + index, sky)
    /\ reasons' = ReasonsAfter
    /\ forecast' = NoForecast
    /\ stage' = AfterSummary
    /\ UNCHANGED <<question, clock, line, weatherErr, news, brief>>

FetchLine ==
    /\ stage \in {"line", "later_line"}
    /\ line' \in BOOLEAN
    /\ stage' = IF stage = "line" THEN "news" ELSE "done"
    /\ UNCHANGED <<question, clock, forecast, summary, weatherErr, news, brief, reasons>>

(* At most n of the items: the newest n, or the first n the model names.    *)
Newest(items, n) ==
    {s \in SUBSET items :
        /\ Cardinality(s) = IF Cardinality(items) < n THEN Cardinality(items) ELSE n
        /\ \A i \in s, j \in items \ s : i.age <= j.age}
FirstOf(items, n) ==
    {s \in SUBSET items :
        Cardinality(s) = IF Cardinality(items) < n THEN Cardinality(items) ELSE n}

(* The cut to three items comes before the filter by place.                 *)
FetchNews ==
    /\ stage = "news"
    /\ \E results \in SUBSET Item :
         \E kept \in Newest({i \in results : i.age <= MaxAge}, MaxItems) :
            headlines' = FilterRelevant(kept, PlaceName)
    /\ newsErr' = FALSE
    /\ stage' = "assess"
    /\ UNCHANGED <<question, clock, weather, brief, reasons>>
NewsFails ==
    /\ stage = "news"
    /\ newsErr' = TRUE /\ headlines' = {}
    /\ stage' = "assess"
    /\ UNCHANGED <<question, clock, weather, brief, reasons>>

AfterAssessment ==
    IF purpose = "endpoint" \/ horizon.kind = "today" THEN "done" ELSE "later_forecast"

(* The model's answer, normalised: an unknown level is low, and indexes that*)
(* belong to no item it was shown are dropped.                              *)
UncheckedIndexes(picks) == picks      \* mutant: any item may be cited
SelectedNews(picks) == picks \cap headlines
Assess ==
    /\ stage = "assess"
    /\ \E level \in Level, notes \in SUBSET {"weather"}, picks \in SUBSET Item :
         \E chosen \in FirstOf(SelectedNews(picks), MaxItems) :
            /\ brief' = [by |-> "model", level |-> level, news |-> chosen]
            /\ reasons' = notes
    /\ stage' = AfterAssessment
    /\ UNCHANGED <<question, clock, weather, news>>

(* The model fails, or returns no JSON or an empty text.                    *)
FallbackScore == IF summary = NoSummary THEN 0 ELSE WeatherScore(summary.sky)
FallBack ==
    /\ stage = "assess"
    /\ brief' = [by |-> "fallback", level |-> ClassifyRiskLevel(FallbackScore), news |-> {}]
    /\ reasons' = IF summary = NoSummary THEN {} ELSE WeatherNotes(summary.sky)
    /\ stage' = AfterAssessment
    /\ UNCHANGED <<question, clock, weather, news>>

(* JSON that is not an object has no get(), and nothing catches that.       *)
AssessmentBreaks ==
    /\ stage = "assess"
    /\ stage' = "failed"
    /\ UNCHANGED <<question, clock, weather, news, brief, reasons>>

LocalMidnight ==
    /\ stage \notin {"done", "failed"}
    /\ midnights < MaxMidnights /\ local <= utc
    /\ local' = local + 1 /\ midnights' = midnights + 1
    /\ UNCHANGED <<question, utc, stage, weather, news, brief, reasons>>
UtcMidnight ==
    /\ stage \notin {"done", "failed"}
    /\ utc <= local
    /\ utc' = utc + 1
    /\ UNCHANGED <<question, local, midnights, stage, weather, news, brief, reasons>>

-----------------------------------------------------------------------------
Next ==
    \/ FetchForecast \/ ForecastFails \/ ReadDay \/ FetchLine
    \/ FetchNews \/ NewsFails \/ Assess \/ FallBack \/ AssessmentBreaks
    \/ LocalMidnight \/ UtcMidnight

Spec == Init /\ [][Next]_vars

-----------------------------------------------------------------------------
Sources ==
    {s \in {"weather"} : summary # NoSummary \/ line} \cup {s \in {"news"} : headlines # {}}
Served == stage = "done" /\ brief # NoBrief /\ ~((weatherErr \/ newsErr) /\ Sources = {})

(* The values of a summary are those of the day its label names, on every   *)
(* day of the week, also when midnight passes between the forecast and the  *)
(* reading of it.  Where the geocoder names no time zone, or one this system*)
(* does not know, today is UTC's (_to_local_today) and this does not hold;  *)
(* nor for a date outside the forecast.                                     *)
SummaryShowsItsLabel ==
    summary # NoSummary /\ summary.zone = "named" /\ horizon.kind # "date" =>
        summary.label = summary.day

(* Reasons are given for today's weather, and never shown next to that of a *)
(* later day: when the summary is replaced by one of those, they go.        *)
ReasonsFitTheSummary ==
    summary # NoSummary /\ reasons # {} => summary.label <= TodayIn(summary.zone)

(* Whatever providers return and whichever indexes the model names, a brief *)
(* shows at most three recent items, all of them about the place.           *)
BriefNewsIsAboutThePlace ==
    /\ Cardinality(brief.news) <= MaxItems
    /\ \A i \in brief.news : MentionsPlace(i, PlaceName) /\ i.age <= MaxAge

(* A brief without any source is never served as a success: some provider   *)
(* call failed, and its error was kept.                                     *)
ServedBriefHasASource == Served => Sources # {}

(* Without the model, the level of a brief is no lower than its weather.    *)
FallbackNeverHidesDanger ==
    stage = "done" /\ brief.by = "fallback" /\ summary # NoSummary /\ horizon.kind = "today" =>
        LET sky == summary.sky
            storm == sky.code \in {95, 96, 99}
            gale == sky.wind >= 50
        IN  /\ storm \/ gale \/ sky.precip >= 30 \/ sky.tmax >= 35 \/ sky.tmin <= -5
                 => brief.level # "low"
            /\ storm /\ gale => brief.level = "high"
=============================================================================
