SPECIFICATION Spec
CONSTANTS
    Question = {"transpo", "from", "town", "rain", "explain"}
    Answer = {"plain", "strike"}
    NoQuestion = NoQuestion
    OriginRequest = OriginRequest
    ReferenceRequest = ReferenceRequest
    NoReply = NoReply
    Unconfirmed = Unconfirmed
    Feature <- MCFeature
    AnswerFeature <- MCAnswerFeature
    TokenOverlap <- NoOverlap
    Place = {cebu, vigan}
    NoPlace = NoPlace
    MaxRequests = 3
    MaxInFlight = 1
    MaxTurns = 2
    FaultKind = {"model"}
SYMMETRY PlaceSymmetry
INVARIANT PendingPairAgrees
INVARIANT NoForeignPending
INVARIANT OriginReplyResumesTheQuestion
INVARIANT OriginPhraseSurvivesAFailedAnswer
