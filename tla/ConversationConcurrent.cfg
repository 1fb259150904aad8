SPECIFICATION Spec
CONSTANTS
    Question = {"transpo", "from"}
    Answer = {"plain"}
    NoQuestion = NoQuestion
    OriginRequest = OriginRequest
    ReferenceRequest = ReferenceRequest
    NoReply = NoReply
    Unconfirmed = Unconfirmed
    Feature <- MCFeature
    AnswerFeature <- MCAnswerFeature
    TokenOverlap <- NoOverlap
    Place = {cebu, vigan}
    NoPlace = NoPlace
    MaxRequests = 2
    MaxInFlight = 2
    MaxTurns = 1
    FaultKind = {"interruption", "model", "expiry"}
SYMMETRY PlaceSymmetry
INVARIANT TypeOK
INVARIANT NewestTurnIsTheLastExchange
INVARIANT SessionExpires
INVARIANT OriginsAreNamedByTheUser
