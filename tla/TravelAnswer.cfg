SPECIFICATION Spec
CONSTANTS
    Word <- MCWord
    MeaningfulWord <- MCMeaningful
    CitySuffix = {"city"}
    Url = {"https://a", "https://b", "http://c", "https://d"}
    HttpsUrl = {"https://a", "https://b", "https://d"}
    NoUrl = "none"
    Item <- MCItem
    PlaceName = {"vigan", "city"}
    OriginName = {"manila"}
    Reference <- MCReference
    Phrase <- MCPhrase
    MaxSentences = 2
    MaxItems = 2
    MaxFound = 3
    DefaultProfiles <- MCProfiles
    RouteReply <- MCRouteReply
CHECK_DEADLOCK FALSE
INVARIANT LinksComeFromEvidence
INVARIANT ClaimsAreSupported
INVARIANT RefusalsStandAlone
INVARIANT AnswersAreNotLost
INVARIANT BestRouteIsFastest
INVARIANT DisruptionsReachGuidance
