------------------------- MODULE PlaceEvidenceProofs -------------------------
(***************************************************************************)
(* Theorems about the travel brief and the evidence of a follow-up, for any*)
(* place, any set of news items and forecasts, and any number of midnights *)
(* unless a theorem says otherwise.                                        *)
(***************************************************************************)
EXTENDS PlaceEvidence, FiniteSetTheorems, TLAPS

(* Scores are natural numbers, and dangerous weather scores high.           *)
LEMMA StormIsAThunderstorm ==
    ASSUME NEW code \in {95, 96, 99} PROVE ClassifyWeatherCode(code) = "thunderstorm"
<1> DEFINE listed == {n \in DOMAIN Categories : code \in Categories[n].codes}
<1>1. DOMAIN Categories = 1 .. 6 /\ Categories[1].name = "thunderstorm"
      /\ Categories[1].codes = {95, 96, 99}
  BY DEF Categories
<1>2. 1 \in listed /\ \A m \in listed : m \in Nat /\ 1 <= m
  BY <1>1
<1>3. ClassifyWeatherCode(code) =
        Categories[CHOOSE n \in listed : \A m \in listed : n <= m].name
  BY <1>2 DEF ClassifyWeatherCode
<1> HIDE DEF listed
<1>4. (CHOOSE n \in listed : \A m \in listed : n <= m) = 1
  BY <1>2
<1>5. QED BY <1>1, <1>3, <1>4

LEMMA ScoreParts ==
    ASSUME NEW f \in Forecast
    PROVE  /\ CategoryScore(f) \in 0 .. 3 /\ WindScore(f) \in 0 .. 3
           /\ PrecipScore(f) \in 0 .. 2 /\ TemperatureScore(f) \in 0 .. 4
           /\ f.code \in {95, 96, 99} => CategoryScore(f) = 3
           /\ f.wind >= 50 => WindScore(f) >= 2
           /\ f.precip >= 30 => PrecipScore(f) = 2
           /\ f.tmax >= 35 \/ f.tmin <= -5 => TemperatureScore(f) >= 2
<1>1. f.wind \in Nat /\ f.precip \in Nat /\ f.tmax \in Int /\ f.tmin \in Int
  BY DEF Forecast
<1>2. CategoryScore(f) \in 0 .. 3
  BY DEF CategoryScore
<1>3. f.code \in {95, 96, 99} => CategoryScore(f) = 3
  BY StormIsAThunderstorm DEF CategoryScore
<1>4. WindScore(f) \in 0 .. 3 /\ (f.wind >= 50 => WindScore(f) >= 2)
  BY <1>1 DEF WindScore
<1>5. PrecipScore(f) \in 0 .. 2 /\ (f.precip >= 30 => PrecipScore(f) = 2)
  BY <1>1 DEF PrecipScore
<1>6. TemperatureScore(f) \in 0 .. 4
      /\ (f.tmax >= 35 \/ f.tmin <= -5 => TemperatureScore(f) >= 2)
  BY <1>1 DEF TemperatureScore
<1>7. QED BY <1>2, <1>3, <1>4, <1>5, <1>6

LEMMA DangerIsScored ==
    ASSUME NEW f \in Forecast
    PROVE  LET storm == f.code \in {95, 96, 99}
               gale == f.wind >= 50
               level == ClassifyRiskLevel(WeatherScore(f))
           IN  /\ level \in Level
               /\ storm \/ gale \/ f.precip >= 30 \/ f.tmax >= 35 \/ f.tmin <= -5
                    => level # "low"
               /\ storm /\ gale => level = "high"
BY ScoreParts DEF WeatherScore, ClassifyRiskLevel, Level

(* A cut to n items leaves at most n.                                       *)
LEMMA CutToFew ==
    ASSUME NEW items \in SUBSET Item, NEW n \in Nat, NEW s \in FirstOf(items, n)
    PROVE  s \subseteq items /\ Cardinality(s) <= n
<1>1. Cardinality(items) \in Nat
  BY FS_Subset, FS_CardinalityType, NewsAssumption
<1>2. QED BY <1>1 DEF FirstOf

-----------------------------------------------------------------------------
(* The day that is asked for is within the forecast when at most one midnight*)
(* has passed since it was fetched.                                         *)
LEMMA DayIsForecast ==
    ASSUME NEW h \in Horizon, h.kind # "date", NEW first \in Int, NEW today \in Int,
           today - first \in 0 .. 1
    PROVE  first + DailyIndex(first, h, ResolveHorizon(h, today)) = ResolveHorizon(h, today)
<1>1. ResolveHorizon(h, today) \in today .. today + 6
  <2>1. CASE h.kind = "weekday"
    <3>1. h.day \in 0 .. 6
      BY <2>1 DEF Horizon
    <3>2. (h.day - (today % 7)) % 7 \in 0 .. 6
      BY <3>1
    <3>3. QED BY <2>1, <3>2 DEF ResolveHorizon, UpcomingWeekday
  <2>2. CASE h.kind # "weekday"
    BY <2>2 DEF ResolveHorizon
  <2>3. QED BY <2>1, <2>2
<1>2. QED BY <1>1 DEF DailyIndex, ForecastDays

LEMMA DaysAreNumbers ==
    ASSUME NEW h \in Horizon, NEW first \in Int, NEW today \in Int
    PROVE  /\ ResolveHorizon(h, today) \in Int
           /\ first + DailyIndex(first, h, ResolveHorizon(h, today)) \in Int
<1>1. h.day \in Int
  BY DEF Horizon
<1>2. ResolveHorizon(h, today) \in Int
  BY <1>1 DEF ResolveHorizon, UpcomingWeekday
<1>3. QED BY <1>2 DEF DailyIndex

-----------------------------------------------------------------------------
(* The inductive invariant.  A forecast is read at most so many midnights   *)
(* after it was fetched; a brief is there only after the assessment, and a  *)
(* day other than today's is looked up only for a follow-up.                *)
ForecastIsFresh ==
    stage \in {"day", "later_day"} =>
        forecast \in [zone: Zone, first: Int] /\ local - forecast.first \in 0 .. midnights
BriefComesLate ==
    /\ purpose = "weather" => brief = NoBrief
    /\ stage \in {"forecast", "day", "line", "news", "assess"} =>
          brief = NoBrief /\ purpose # "weather"
    /\ brief # NoBrief /\ horizon.kind = "today" => stage = "done"
(* A missing summary was an error, which stays.                             *)
ErrorIsKept ==
    purpose # "weather" /\ stage \notin {"forecast", "day"} => summary # NoSummary \/ weatherErr
ReasonsAreTodays ==
    summary # NoSummary =>
        summary.label <= TodayIn(summary.zone) \/ (reasons = {} /\ stage = "done")
OnlyRelevantNews ==
    /\ \A i \in headlines \cup brief.news : MentionsPlace(i, PlaceName) /\ i.age <= MaxAge
    /\ Cardinality(brief.news) <= MaxItems
FallbackFitsSummary ==
    brief.by = "fallback" /\ summary # NoSummary /\ horizon.kind = "today" =>
        brief.level = ClassifyRiskLevel(WeatherScore(summary.sky))
EvidenceInv ==
    /\ TypeOK /\ ForecastIsFresh /\ BriefComesLate /\ ErrorIsKept
    /\ ReasonsAreTodays /\ OnlyRelevantNews /\ FallbackFitsSummary

LEMMA EvidenceInit == Init => EvidenceInv
<1> SUFFICES ASSUME Init PROVE EvidenceInv
  OBVIOUS
<1>1. horizon \in Horizon
  <2>1. Today \in Horizon
    BY DEF Today, Horizon
  <2>2. horizon = Today \/ horizon \in AskedHorizon
    BY DEF Init
  <2>3. QED BY <2>1, <2>2, EvidenceAssumption
<1>2. local \in Int /\ utc \in Int /\ midnights \in 0 .. MaxMidnights
  <2>1. local \in StartDay /\ utc \in {local - 1, local, local + 1} /\ midnights = 0
    BY DEF Init
  <2>2. QED BY <2>1, EvidenceAssumption
<1>3. TypeOK
  BY <1>1, <1>2 DEF Init, TypeOK, Stage, NoBrief, Level
<1>4. Cardinality({}) = 0 /\ MaxItems \in Nat
  BY FS_EmptySet, EvidenceAssumption
<1>5. /\ purpose \in {"endpoint", "followup", "weather"} /\ summary = NoSummary /\ brief = NoBrief
      /\ headlines = {} /\ stage = IF purpose = "weather" THEN "later_forecast" ELSE "forecast"
  BY DEF Init
<1>6. ForecastIsFresh /\ BriefComesLate /\ ErrorIsKept /\ ReasonsAreTodays
  BY <1>5 DEF ForecastIsFresh, BriefComesLate, ErrorIsKept, ReasonsAreTodays
<1>7. OnlyRelevantNews /\ FallbackFitsSummary
  <2>1. brief.news = {} /\ brief.by = "none"
    BY <1>5 DEF NoBrief
  <2>2. Cardinality(brief.news) <= MaxItems
    BY <1>4, <2>1
  <2>3. QED BY <1>5, <2>1, <2>2 DEF OnlyRelevantNews, FallbackFitsSummary
<1>8. QED BY <1>3, <1>6, <1>7 DEF EvidenceInv

LEMMA SummaryType ==
    ASSUME TypeOK, NEW z \in Zone, NEW l \in Int, NEW d \in Int, NEW s \in Sky
    PROVE  SummaryOf(z, l, d, s) \in Summary /\ SummaryOf(z, l, d, s) # NoSummary
BY EvidenceAssumption DEF SummaryOf, Summary, NoSummary, Zone

LEMMA NotesAreNotes == ASSUME NEW f PROVE WeatherNotes(f) \subseteq WeatherNote
BY DEF WeatherNotes, WeatherNote

LEMMA FetchKeeps == EvidenceInv /\ (FetchForecast \/ ForecastFails \/ FetchLine) => EvidenceInv'
<1> SUFFICES ASSUME EvidenceInv, FetchForecast \/ ForecastFails \/ FetchLine PROVE EvidenceInv'
  OBVIOUS
<1> USE DEF question, clock, weather, news
<1>1. TypeOK
  BY DEF EvidenceInv
<1>2. CASE FetchForecast
  <2> PICK zone \in Zone : forecast' = [zone |-> zone, first |-> local]
    BY <1>2 DEF FetchForecast
  <2>0. /\ forecast' \in [zone: Zone, first: Int] /\ forecast'.first = local
        /\ local' = local /\ midnights' = midnights /\ local \in Int /\ midnights \in Nat
    <3>1. local \in Int /\ midnights \in 0 .. MaxMidnights /\ MaxMidnights \in Nat
      BY <1>1, EvidenceAssumption DEF TypeOK
    <3>2. local' = local /\ midnights' = midnights
      BY <1>2 DEF FetchForecast
    <3>3. QED BY <3>1, <3>2
  <2>1. TypeOK'
    BY <1>1, <1>2, <2>0 DEF FetchForecast, TypeOK, Stage
  <2>2. ForecastIsFresh'
    <3>1. local' - forecast'.first = 0 /\ 0 \in 0 .. midnights'
      BY <2>0
    <3>2. QED BY <2>0, <3>1 DEF ForecastIsFresh
  <2>3. QED BY <1>2, <2>1, <2>2 DEF EvidenceInv, FetchForecast, Later, BriefComesLate, ErrorIsKept, ReasonsAreTodays,
                                    OnlyRelevantNews, FallbackFitsSummary, TodayIn
<1>3. CASE ForecastFails
  <2>1. TypeOK' /\ ForecastIsFresh'
    BY <1>1, <1>3 DEF ForecastFails, WithoutSummary, ErrorAfterSummary, Later, TypeOK, Stage, ForecastIsFresh
  <2>2. QED BY <1>3, <2>1 DEF EvidenceInv, ForecastFails, WithoutSummary, ErrorAfterSummary, Later, BriefComesLate, ErrorIsKept,
                              ReasonsAreTodays, OnlyRelevantNews, FallbackFitsSummary, TodayIn
<1>4. CASE FetchLine
  <2>1. TypeOK' /\ ForecastIsFresh'
    BY <1>1, <1>4 DEF FetchLine, TypeOK, Stage, ForecastIsFresh
  <2>2. QED BY <1>4, <2>1 DEF EvidenceInv, FetchLine, BriefComesLate, ErrorIsKept, ReasonsAreTodays,
                              OnlyRelevantNews, FallbackFitsSummary, TodayIn
<1>5. QED BY <1>2, <1>3, <1>4

LEMMA ReadKeeps == EvidenceInv /\ ReadDay => EvidenceInv'
<1> SUFFICES ASSUME EvidenceInv, ReadDay PROVE EvidenceInv'
  OBVIOUS
<1> USE DEF question, clock, weather, news
<1> DEFINE target == ResolveHorizon(Wanted, TodayIn(forecast.zone))
           day == forecast.first + DailyIndex(forecast.first, Wanted, target)
<1>1. /\ TypeOK /\ stage \in {"day", "later_day"}
      /\ forecast \in [zone: Zone, first: Int]
  BY DEF EvidenceInv, ForecastIsFresh, ReadDay
<1>2. Wanted \in Horizon /\ TodayIn(forecast.zone) \in Int
  BY <1>1 DEF TypeOK, Wanted, Today, Horizon, TodayIn
<1>3. target \in Int /\ day \in Int
  BY <1>1, <1>2, DaysAreNumbers
<1>4. ~Later => target = TodayIn(forecast.zone)
  BY DEF Wanted, Today, ResolveHorizon
<1> HIDE DEF target, day
<1>5. PICK sky \in Sky : summary' = SummaryOf(forecast.zone, target, day, sky)
  BY DEF ReadDay, target, day
<1>6. summary' \in Summary /\ summary' # NoSummary /\ summary'.label = target
      /\ summary'.zone = forecast.zone
  BY <1>1, <1>3, <1>5, SummaryType DEF SummaryOf
<1>7. TypeOK'
  BY <1>1, <1>6 DEF ReadDay, TypeOK, Stage, ReasonsAfter, AfterSummary
<1>8. ForecastIsFresh' /\ ErrorIsKept' /\ OnlyRelevantNews'
  BY <1>6 DEF EvidenceInv, ReadDay, AfterSummary, ForecastIsFresh, ErrorIsKept, OnlyRelevantNews
<1>9. BriefComesLate'
  BY <1>1 DEF EvidenceInv, ReadDay, AfterSummary, BriefComesLate, Later
<1>10. ReasonsAreTodays'
  <2>1. CASE Later
    BY <2>1 DEF ReadDay, AfterSummary, ReasonsAfter, ReasonsAreTodays
  <2>2. CASE ~Later
    <3>1. summary'.label = TodayIn(forecast.zone) /\ local' = local /\ utc' = utc
      BY <1>4, <1>6, <2>2 DEF ReadDay
    <3>2. summary'.label = (IF summary'.zone = "named" THEN local' ELSE utc')
      BY <1>6, <3>1 DEF TodayIn
    <3>3. QED BY <1>2, <3>1, <3>2 DEF ReasonsAreTodays, TodayIn
  <2>3. QED BY <2>1, <2>2
<1>11. FallbackFitsSummary'
  <2>1. brief' = brief /\ horizon' = horizon
    BY DEF ReadDay
  <2>2. brief # NoBrief => horizon.kind # "today"
    BY <1>1 DEF EvidenceInv, BriefComesLate
  <2>3. brief.by = "fallback" => brief # NoBrief
    BY DEF NoBrief
  <2>4. QED BY <2>1, <2>2, <2>3 DEF FallbackFitsSummary
<1>12. QED BY <1>7, <1>8, <1>9, <1>10, <1>11 DEF EvidenceInv

LEMMA NewsKeeps == EvidenceInv /\ (FetchNews \/ NewsFails) => EvidenceInv'
<1> SUFFICES ASSUME EvidenceInv, FetchNews \/ NewsFails PROVE EvidenceInv'
  OBVIOUS
<1> USE DEF question, clock, weather
<1>1. headlines' \subseteq Item
      /\ \A i \in headlines' : MentionsPlace(i, PlaceName) /\ i.age <= MaxAge
  <2>1. CASE NewsFails
    BY <2>1 DEF NewsFails
  <2>2. CASE FetchNews
    <3>1. PICK results \in SUBSET Item :
            \E kept \in Newest({i \in results : i.age <= MaxAge}, MaxItems) :
               headlines' = FilterRelevant(kept, PlaceName)
      BY <2>2 DEF FetchNews
    <3>2. QED BY <3>1 DEF Newest, FilterRelevant
  <2>3. QED BY <2>1, <2>2
<1>2. TypeOK' /\ ForecastIsFresh'
  BY <1>1 DEF EvidenceInv, FetchNews, NewsFails, TypeOK, Stage, ForecastIsFresh
<1>3. BriefComesLate' /\ ErrorIsKept'
  BY DEF EvidenceInv, FetchNews, NewsFails, BriefComesLate, ErrorIsKept
<1>4. ReasonsAreTodays' /\ FallbackFitsSummary'
  BY DEF EvidenceInv, FetchNews, NewsFails, ReasonsAreTodays, FallbackFitsSummary, TodayIn
<1>5. OnlyRelevantNews'
  BY <1>1 DEF EvidenceInv, FetchNews, NewsFails, OnlyRelevantNews
<1>6. QED BY <1>2, <1>3, <1>4, <1>5 DEF EvidenceInv

LEMMA AssessKeeps == EvidenceInv /\ (Assess \/ FallBack \/ AssessmentBreaks) => EvidenceInv'
<1> SUFFICES ASSUME EvidenceInv, Assess \/ FallBack \/ AssessmentBreaks PROVE EvidenceInv'
  OBVIOUS
<1> USE DEF question, clock, weather, news
<1>1. TypeOK /\ stage = "assess" /\ brief = NoBrief /\ purpose # "weather"
  BY DEF EvidenceInv, BriefComesLate, Assess, FallBack, AssessmentBreaks
<1>2. stage' \in {"failed", AfterAssessment}
      /\ UNCHANGED <<purpose, horizon, local, utc, midnights, forecast, summary, line, weatherErr,
                     headlines, newsErr>>
  BY DEF Assess, FallBack, AssessmentBreaks
<1>3. ForecastIsFresh' /\ ErrorIsKept'
  BY <1>1, <1>2 DEF EvidenceInv, ForecastIsFresh, ErrorIsKept, AfterAssessment
<1>4. ReasonsAreTodays'
  BY <1>1, <1>2 DEF EvidenceInv, ReasonsAreTodays, TodayIn
<1>5. CASE Assess
  <2>1. PICK level \in Level, notes \in SUBSET {"weather"}, picks \in SUBSET Item :
          \E chosen \in FirstOf(SelectedNews(picks), MaxItems) :
             /\ brief' = [by |-> "model", level |-> level, news |-> chosen]
             /\ reasons' = notes
    BY <1>5 DEF Assess
  <2>2. PICK chosen \in FirstOf(SelectedNews(picks), MaxItems) :
             /\ brief' = [by |-> "model", level |-> level, news |-> chosen]
             /\ reasons' = notes
    BY <2>1
  <2>3. SelectedNews(picks) \in SUBSET Item /\ SelectedNews(picks) \subseteq headlines
    BY <1>1 DEF SelectedNews, TypeOK
  <2>4. chosen \subseteq headlines /\ Cardinality(chosen) <= MaxItems
    BY <2>3, CutToFew, EvidenceAssumption
  <2>5. brief' \in [by: {"none", "model", "fallback"}, level: Level, news: SUBSET Item]
    BY <1>1, <2>2, <2>4 DEF TypeOK
  <2>6. TypeOK'
    <3>1. reasons' \subseteq {"weather"}
      BY <2>2
    <3>2. stage' \in Stage
      BY <1>2 DEF Stage, AfterAssessment
    <3>3. QED BY <1>1, <1>2, <2>5, <3>1, <3>2 DEF TypeOK
  <2>7. OnlyRelevantNews'
    BY <1>2, <2>2, <2>4 DEF EvidenceInv, OnlyRelevantNews
  <2>8. BriefComesLate' /\ FallbackFitsSummary'
    BY <1>1, <1>5, <2>2 DEF Assess, BriefComesLate, FallbackFitsSummary, AfterAssessment
  <2>9. QED BY <1>3, <1>4, <2>6, <2>7, <2>8 DEF EvidenceInv
<1>6. CASE FallBack
  <2>1. FallbackScore \in Nat /\ ClassifyRiskLevel(FallbackScore) \in Level
    <3>1. summary # NoSummary => summary.sky \in Forecast
      BY <1>1 DEF TypeOK, Summary
    <3>2. FallbackScore \in Nat
      BY <3>1, ScoreParts DEF FallbackScore, WeatherScore
    <3>3. QED BY <3>2 DEF ClassifyRiskLevel, Level
  <2>2. brief' = [by |-> "fallback", level |-> ClassifyRiskLevel(FallbackScore), news |-> {}]
    BY <1>6 DEF FallBack
  <2>3. reasons' \subseteq WeatherNote
    BY <1>6, NotesAreNotes DEF FallBack
  <2>4. brief' \in [by: {"none", "model", "fallback"}, level: Level, news: SUBSET Item]
    BY <2>1, <2>2
  <2>5. TypeOK'
    BY <1>1, <1>2, <2>3, <2>4 DEF TypeOK, Stage, AfterAssessment
  <2>6. Cardinality({}) = 0
    BY FS_EmptySet
  <2>7. OnlyRelevantNews'
    BY <1>2, <2>2, <2>6, EvidenceAssumption DEF EvidenceInv, OnlyRelevantNews
  <2>8. BriefComesLate'
    BY <1>1, <1>6 DEF FallBack, BriefComesLate, AfterAssessment
  <2>9. FallbackFitsSummary'
    BY <1>2, <2>2 DEF FallbackFitsSummary, FallbackScore
  <2>10. QED BY <1>3, <1>4, <2>5, <2>7, <2>8, <2>9 DEF EvidenceInv
<1>7. CASE AssessmentBreaks
  BY <1>1, <1>3, <1>4, <1>7 DEF EvidenceInv, AssessmentBreaks, TypeOK, Stage, OnlyRelevantNews,
                                BriefComesLate, FallbackFitsSummary
<1>8. QED BY <1>5, <1>6, <1>7

LEMMA NextDay ==
    ASSUME NEW day \in Int, NEW first \in Int, NEW n \in Int, day - first \in 0 .. n
    PROVE  (day + 1) - first \in 0 .. n + 1
OBVIOUS

LEMMA MidnightKeeps == EvidenceInv /\ (LocalMidnight \/ UtcMidnight) => EvidenceInv'
<1> SUFFICES ASSUME EvidenceInv, LocalMidnight \/ UtcMidnight PROVE EvidenceInv'
  OBVIOUS
<1> USE DEF question, weather, news
<1>1. TypeOK /\ local <= local' /\ utc <= utc' /\ local' \in Int /\ utc' \in Int
  BY DEF EvidenceInv, TypeOK, LocalMidnight, UtcMidnight
<1>2. /\ midnights' \in 0 .. MaxMidnights
      /\ UNCHANGED <<purpose, horizon, stage, forecast, summary, line, weatherErr, headlines,
                     newsErr, brief, reasons>>
  BY <1>1, EvidenceAssumption DEF TypeOK, LocalMidnight, UtcMidnight
<1>3. TypeOK'
  BY <1>1, <1>2 DEF TypeOK
<1>4. ForecastIsFresh'
  <2> SUFFICES ASSUME stage \in {"day", "later_day"}
               PROVE  /\ forecast \in [zone: Zone, first: Int]
                      /\ local' - forecast.first \in 0 .. midnights'
    BY <1>2 DEF ForecastIsFresh
  <2>1. forecast \in [zone: Zone, first: Int] /\ local - forecast.first \in 0 .. midnights
    BY DEF EvidenceInv, ForecastIsFresh
  <2>2. forecast.first \in Int
    BY <2>1
  <2>3. local \in Int /\ midnights \in 0 .. MaxMidnights /\ MaxMidnights \in Nat
    BY <1>1, EvidenceAssumption DEF TypeOK
  <2>4. CASE UtcMidnight
    BY <2>1, <2>4 DEF UtcMidnight
  <2>5. CASE LocalMidnight
    <3>1. local' = local + 1 /\ midnights' = midnights + 1
      BY <2>5 DEF LocalMidnight
    <3>2. local - forecast.first \in 0 .. midnights
      BY <2>1
    <3>3. midnights \in Int
      BY <2>3
    <3>4. (local + 1) - forecast.first \in 0 .. midnights + 1
      BY <2>2, <2>3, <3>2, <3>3, NextDay
    <3>5. QED BY <2>1, <3>1, <3>4
  <2>6. QED BY <2>4, <2>5
<1>5. ReasonsAreTodays'
  <2>1. summary # NoSummary => summary.label \in Int
    BY <1>1 DEF TypeOK, Summary
  <2>2. QED BY <1>1, <1>2, <2>1 DEF EvidenceInv, ReasonsAreTodays, TodayIn, TypeOK
<1>6. BriefComesLate' /\ ErrorIsKept' /\ OnlyRelevantNews' /\ FallbackFitsSummary'
  BY <1>2 DEF EvidenceInv, BriefComesLate, ErrorIsKept, OnlyRelevantNews, FallbackFitsSummary
<1>7. QED BY <1>3, <1>4, <1>5, <1>6 DEF EvidenceInv

LEMMA EvidenceStep == EvidenceInv /\ [Next]_vars => EvidenceInv'
<1>1. EvidenceInv /\ UNCHANGED vars => EvidenceInv'
  <2> SUFFICES ASSUME EvidenceInv, UNCHANGED vars PROVE EvidenceInv'
    OBVIOUS
  <2> USE DEF vars, question, clock, weather, news
  <2>1. TypeOK' /\ ForecastIsFresh'
    BY DEF EvidenceInv, TypeOK, ForecastIsFresh
  <2>2. BriefComesLate' /\ ErrorIsKept' /\ ReasonsAreTodays'
    BY DEF EvidenceInv, BriefComesLate, ErrorIsKept, ReasonsAreTodays, TodayIn
  <2>3. OnlyRelevantNews' /\ FallbackFitsSummary'
    BY DEF EvidenceInv, OnlyRelevantNews, FallbackFitsSummary
  <2>4. QED BY <2>1, <2>2, <2>3 DEF EvidenceInv
<1>2. QED BY <1>1, FetchKeeps, ReadKeeps, NewsKeeps, AssessKeeps, MidnightKeeps DEF Next

LEMMA EvidenceInvariant == Spec => []EvidenceInv
BY EvidenceInit, EvidenceStep, PTL DEF Spec

-----------------------------------------------------------------------------
(* Whatever providers and the model return, the state stays in its ranges.  *)
THEOREM EvidenceIsTyped == Spec => []TypeOK
<1>1. EvidenceInv => TypeOK
  BY DEF EvidenceInv
<1>2. QED BY <1>1, EvidenceInvariant, PTL

(* The label is right for every word a caller may use, while at most one    *)
(* midnight passes between the fetching of a forecast and its reading       *)
(* (openmeteo_provider.py:203).                                             *)
LEMMA LabelStep ==
    ASSUME MaxMidnights <= 1
    PROVE  EvidenceInv /\ SummaryShowsItsLabel /\ [Next]_vars => SummaryShowsItsLabel'
<1> SUFFICES ASSUME EvidenceInv, SummaryShowsItsLabel, [Next]_vars PROVE SummaryShowsItsLabel'
  OBVIOUS
<1> USE DEF question, clock, weather, news
<1>1. CASE ReadDay
  <2> DEFINE target == ResolveHorizon(Wanted, TodayIn(forecast.zone))
             day == forecast.first + DailyIndex(forecast.first, Wanted, target)
  <2> SUFFICES ASSUME forecast.zone = "named", horizon.kind # "date" PROVE target = day
    BY <1>1 DEF ReadDay, SummaryOf, SummaryShowsItsLabel
  <2>1. /\ TypeOK /\ forecast \in [zone: Zone, first: Int]
        /\ local - forecast.first \in 0 .. midnights
    BY <1>1 DEF EvidenceInv, ForecastIsFresh, ReadDay
  <2>2. forecast.first \in Int /\ local \in Int /\ midnights \in 0 .. MaxMidnights
    BY <2>1 DEF TypeOK
  <2>3. local - forecast.first \in 0 .. 1
    BY <2>1, <2>2, EvidenceAssumption
  <2>4. Wanted \in Horizon /\ Wanted.kind # "date" /\ TodayIn(forecast.zone) = local
    BY <2>1 DEF TypeOK, Wanted, Today, Horizon, TodayIn
  <2>5. QED BY <2>2, <2>3, <2>4, DayIsForecast
<1>2. CASE FetchForecast \/ ForecastFails \/ FetchLine \/ FetchNews \/ NewsFails
  BY <1>2 DEF SummaryShowsItsLabel, FetchForecast, ForecastFails, FetchLine, FetchNews, NewsFails
<1>3. CASE Assess \/ FallBack \/ AssessmentBreaks \/ LocalMidnight \/ UtcMidnight \/ UNCHANGED vars
  BY <1>3 DEF SummaryShowsItsLabel, Assess, FallBack, AssessmentBreaks, LocalMidnight, UtcMidnight, vars
<1>4. QED BY <1>1, <1>2, <1>3 DEF Next

THEOREM SummaryAlwaysShowsItsLabel ==
    ASSUME MaxMidnights <= 1
    PROVE  Spec => []SummaryShowsItsLabel
<1>1. Init => SummaryShowsItsLabel
  BY DEF Init, SummaryShowsItsLabel
<1>2. EvidenceInv /\ SummaryShowsItsLabel /\ [Next]_vars => SummaryShowsItsLabel'
  BY LabelStep
<1>3. QED BY <1>1, <1>2, EvidenceInvariant, PTL DEF Spec

(* A follow-up never explains a later day's weather with today's reasons    *)
(* (followup_qa.py:98).                                                     *)
THEOREM ReasonsAlwaysFitTheSummary == Spec => []ReasonsFitTheSummary
<1>1. EvidenceInv => ReasonsFitTheSummary
  BY DEF EvidenceInv, ReasonsAreTodays, ReasonsFitTheSummary
<1>2. QED BY <1>1, EvidenceInvariant, PTL

(* However the model picks, a brief shows few items, recent and about the   *)
(* place (travel_concern_assessor.py:65).                                   *)
THEOREM BriefNewsIsAlwaysAboutThePlace == Spec => []BriefNewsIsAboutThePlace
<1>1. EvidenceInv => BriefNewsIsAboutThePlace
  BY DEF EvidenceInv, OnlyRelevantNews, BriefNewsIsAboutThePlace
<1>2. QED BY <1>1, EvidenceInvariant, PTL

(* A missing source is an error that is still there when the brief is served*)
(* (routes.py:175).                                                         *)
THEOREM ServedBriefAlwaysHasASource == Spec => []ServedBriefHasASource
<1>1. EvidenceInv => ServedBriefHasASource
  BY DEF EvidenceInv, BriefComesLate, ErrorIsKept, Served, Sources, ServedBriefHasASource
<1>2. QED BY <1>1, EvidenceInvariant, PTL

(* The scores add up so that no dangerous value is hidden by harmless ones  *)
(* (travel_intelligence.py:8).                                              *)
THEOREM FallbackAlwaysShowsDanger == Spec => []FallbackNeverHidesDanger
<1>1. EvidenceInv => FallbackNeverHidesDanger
  <2> SUFFICES ASSUME EvidenceInv, stage = "done", brief.by = "fallback",
                      summary # NoSummary, horizon.kind = "today"
               PROVE  LET sky == summary.sky
                          storm == sky.code \in {95, 96, 99}
                          gale == sky.wind >= 50
                      IN  /\ storm \/ gale \/ sky.precip >= 30 \/ sky.tmax >= 35 \/ sky.tmin <= -5
                               => brief.level # "low"
                          /\ storm /\ gale => brief.level = "high"
    BY DEF FallbackNeverHidesDanger
  <2>1. summary.sky \in Forecast
    BY DEF EvidenceInv, TypeOK, Summary
  <2>2. brief.level = ClassifyRiskLevel(WeatherScore(summary.sky))
    BY DEF EvidenceInv, FallbackFitsSummary
  <2>3. QED BY <2>1, <2>2, DangerIsScored
<1>2. QED BY <1>1, EvidenceInvariant, PTL
=============================================================================
