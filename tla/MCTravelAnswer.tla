--------------------------- MODULE MCTravelAnswer ---------------------------
(***************************************************************************)
(* Four articles, one of them about another place; sentences that claim,   *)
(* that cite, and both; two of the three profiles.                         *)
(***************************************************************************)
EXTENDS TravelAnswer

MCWord == {"vigan", "city", "manila", "strike", "closure", "ferry", "road", "fair", "when"}
MCMeaningful == {"vigan", "manila", "strike", "closure", "ferry", "road", "fair"}

Article(words, impact, url, blocks) ==
    [words |-> words, impact |-> impact, url |-> url, age |-> 1, blocks |-> blocks]
MCItem ==
    { Article({"vigan", "closure", "ferry"}, TRUE, "https://a", {"ferry"}),
      Article({"vigan", "fair"}, FALSE, "https://b", {}),
      Article({"vigan", "strike", "road"}, FALSE, "http://c", {"road"}),
      Article({"manila", "closure", "road"}, TRUE, "https://d", {"road", "flight"}) }

MCReference == {{"when"}, {"strike"}, {"closure", "road"}, {"manila"}}

Says(claims, links, bare, generic, direct) ==
    [claims |-> claims, links |-> links, bare |-> bare, generic |-> generic, direct |-> direct]
MCPhrase ==
    { Says(TRUE, {}, FALSE, FALSE, TRUE),
      Says(TRUE, {"https://b"}, FALSE, FALSE, FALSE),
      Says(FALSE, {"https://a", "http://c"}, FALSE, FALSE, TRUE),
      Says(FALSE, {"https://d"}, TRUE, FALSE, FALSE),
      Says(FALSE, {"https://d"}, TRUE, FALSE, TRUE),
      Says(FALSE, {}, FALSE, TRUE, FALSE) }

MCProfiles == <<"driving-car", "foot-walking">>
Measure(km, minutes) == [distance |-> km, duration |-> minutes]
MCRouteReply ==
    {[error |-> "timeout"], Measure(600, 500), Measure(90, 300), Measure(120, 90), Measure(0, 0), Measure(10, -1)}
=============================================================================
