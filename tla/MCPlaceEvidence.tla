--------------------------- MODULE MCPlaceEvidence ---------------------------
(***************************************************************************)
(* A place of two words and a suffix, four news items and three skies.      *)
(***************************************************************************)
EXTENDS PlaceEvidence

MCWord == {"vigan", "ilocos", "sur", "city", "manila", "strike", "ferry", "road"}
MCMeaningful == {"vigan", "ilocos", "city", "manila", "strike", "ferry", "road"}
MCPlace == {"vigan", "ilocos", "sur"}

NewsItem(words, impact, url, age, blocks) ==
    [words |-> words, impact |-> impact, url |-> url, age |-> age, blocks |-> blocks]
MCItem ==
    { NewsItem({"vigan", "ilocos", "strike"}, TRUE, "https://a", 1, {"ferry"}),
      NewsItem({"vigan", "ilocos", "sur", "road"}, FALSE, "http://b", 3, {"road"}),
      NewsItem({"vigan", "ferry"}, TRUE, "https://c", 2, {"ferry"}),
      NewsItem({"vigan", "ilocos", "sur"}, FALSE, "none", 9, {}) }

Clear == [code |-> 1, wind |-> 10, precip |-> 0, tmin |-> 20, tmax |-> 30]
MCSky ==
    { Clear,
      [Clear EXCEPT !.code = 95, !.wind = 50],
      [Clear EXCEPT !.code = 75, !.wind = 69, !.tmin = -5, !.tmax = 0] }

MCStartDay == 0 .. 6
FollowupHorizon ==
    [kind: {"today", "tomorrow", "other"}, day: {0}] \cup [kind: {"weekday"}, day: {0, 3}]
MCHorizon == FollowupHorizon \cup [kind: {"date"}, day: {5}]
=============================================================================
