SPECIFICATION Spec
CONSTANTS
    Word <- MCWord
    MeaningfulWord <- MCMeaningful
    CitySuffix = {"city"}
    Url = {"https://a", "http://b", "https://c"}
    HttpsUrl = {"https://a", "https://c"}
    NoUrl = "none"
    Item <- MCItem
    PlaceName <- MCPlace
    StartDay <- MCStartDay
    AskedHorizon <- MCHorizon
    Sky <- MCSky
    MaxMidnights = 1
    MaxAge = 7
    MaxItems = 2
CHECK_DEADLOCK FALSE
INVARIANT SummaryShowsItsLabel
INVARIANT ReasonsFitTheSummary
INVARIANT BriefNewsIsAboutThePlace
INVARIANT ServedBriefHasASource
INVARIANT FallbackNeverHidesDanger
