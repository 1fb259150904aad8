---------------------------- MODULE WeatherReport ----------------------------
(***************************************************************************)
(* The day a forecast is read for (src/app/weather/openmeteo_provider.py)  *)
(* and the risk that is read from it (src/app/travel_intelligence.py).     *)
(* Days are numbered, and day 0 is a Monday.                               *)
(***************************************************************************)
EXTENDS Integers, Sequences

(* What a question asks for: a date the caller names, or a word.            *)
Horizon ==
    [kind: {"today", "tomorrow", "other"}, day: {0}]
        \cup [kind: {"weekday"}, day: 0 .. 6] \cup [kind: {"date"}, day: Int]
Today == [kind |-> "today", day |-> 0]

ForecastTooShort == 7     \* mutant: a week of days
ForecastDays == 8

UpcomingWeekday(h, today) == today + ((h.day - (today % 7)) % 7)

ResolveHorizon(h, today) ==
    CASE h.kind = "tomorrow" -> today + 1
      [] h.kind = "weekday"  -> UpcomingWeekday(h, today)
      [] h.kind = "date"     -> h.day
      [] OTHER               -> today

(* The index of the day in the forecast that begins at `first'; a day that  *)
(* is not in it is replaced by the first or the second.                     *)
DailyIndex(first, h, target) ==
    IF target \in first .. first + ForecastDays - 1 THEN target - first
    ELSE IF h.kind = "today" THEN 0 ELSE 1

-----------------------------------------------------------------------------
(* WMO codes by category; the first category that lists a code wins.        *)
SnowCodes == {71, 73, 75, 77, 85, 86}
Categories ==
    << [name |-> "thunderstorm",     codes |-> {95, 96, 99}],
       [name |-> "heavy_rain",       codes |-> {82, 65, 67, 75, 86}],
       [name |-> "rain",             codes |-> {51, 53, 55, 56, 57, 61, 63, 66, 71, 73,
                                                77, 80, 81, 85}],
       [name |-> "snow",             codes |-> SnowCodes],
       [name |-> "fog",              codes |-> {45, 48}],
       [name |-> "clear_or_cloudy",  codes |-> {0, 1, 2, 3}] >>

ClassifyWeatherCode(code) ==
    LET listed == {n \in DOMAIN Categories : code \in Categories[n].codes}
    IN  IF listed = {} THEN "unknown"
        ELSE Categories[CHOOSE n \in listed : \A m \in listed : n <= m].name

(* A forecast: the current code and the day's values.  A missing value is   *)
(* scored like a harmless one.                                              *)
Forecast == [code: Nat, wind: Nat, precip: Nat, tmin: Int, tmax: Int]

CategoryScore(f) ==
    CASE ClassifyWeatherCode(f.code) = "thunderstorm" -> 3
      [] ClassifyWeatherCode(f.code) \in {"heavy_rain", "snow"} -> 2
      [] ClassifyWeatherCode(f.code) \in {"rain", "fog"} -> 1
      [] OTHER -> 0
WindScore(f) ==
    CASE f.wind >= 70 -> 3 [] f.wind \in 50 .. 69 -> 2 [] f.wind \in 30 .. 49 -> 1 [] OTHER -> 0
PrecipScore(f) ==
    CASE f.precip >= 30 -> 2 [] f.precip \in 5 .. 29 -> 1 [] OTHER -> 0
TemperatureScore(f) ==
    (IF f.tmax >= 35 THEN 2 ELSE 0) + (IF f.tmin <= -5 THEN 2 ELSE 0)

ScoreWithoutWind(f) == CategoryScore(f) + PrecipScore(f) + TemperatureScore(f)   \* mutant
WeatherScore(f) == CategoryScore(f) + WindScore(f) + PrecipScore(f) + TemperatureScore(f)

(* The notes that go with the scores, one word for each.                    *)
WeatherNote == {"thunderstorm", "heavy_rain", "rain", "snow", "fog", "wind", "rainfall", "heat",
                "cold"}
WeatherNotes(f) ==
    {n \in {"thunderstorm", "heavy_rain", "rain", "snow", "fog"} :
        n = ClassifyWeatherCode(f.code)}
      \cup {n \in {"wind"} : WindScore(f) > 0}
      \cup {n \in {"rainfall"} : PrecipScore(f) > 0}
      \cup {n \in {"heat"} : f.tmax >= 35} \cup {n \in {"cold"} : f.tmin <= -5}

Level == {"low", "medium", "high"}
ClassifyRiskLevel(score) ==
    CASE score >= 5 -> "high" [] score \in 2 .. 4 -> "medium" [] OTHER -> "low"
=============================================================================
