SPECIFICATION Spec
CONSTANTS
    Question = {"transpo", "from"}
    Answer = {"plain"}
    NoQuestion = NoQuestion
    OriginRequest = OriginRequest
    ReferenceRequest = ReferenceRequest
    NoReply = NoReply
    Unconfirmed = Unconfirmed
    Feature <- MCFeature
    AnswerFeature <- MCAnswerFeature
    TokenOverlap <- NoOverlap
    Place = {cebu, vigan}
    NoPlace = NoPlace
    MaxRequests = 3
    MaxInFlight = 1
    MaxTurns = 2
    FaultKind = {"interruption", "model"}
SYMMETRY PlaceSymmetry
INVARIANT AnswerLeavesSessionCurrent
INVARIANT HistoryKeepsRecentAnswers
PROPERTY IsASessionLog
