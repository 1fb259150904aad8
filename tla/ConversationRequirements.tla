---------------------- MODULE ConversationRequirements ----------------------
(***************************************************************************)
(* What the chat session promises.  The first group holds however requests *)
(* of a session interleave; the second is stated for a client that sends   *)
(* its next message after the previous answer (MaxInFlight = 1); the third *)
(* are the promises of the repository's text that the code does not keep.  *)
(***************************************************************************)
EXTENDS Conversation

Uninterrupted == "interruption" \notin faults
NotExpired == "expiry" \notin faults
AtRest == Running = {}
Routed(r) == plan[r].path # "-"
InTurns(r) == \E i \in 1 .. Len(hash.turns) : hash.turns[i] = r

-----------------------------------------------------------------------------
(* mark_sent writes the last exchange and the recent turns in one hset:     *)
(* whatever requests interleave, and wherever one of them fails, the newest *)
(* turn never disagrees with last_user_message and last_agent_reply.        *)
NewestTurnIsTheLastExchange ==
    hash.turns # <<>> =>
        LET newest == hash.turns[Len(hash.turns)]
        IN  /\ QuestionOf(newest) # NoQuestion => hash.user = newest
            /\ ReplyOf(newest) # NoReply => hash.reply = newest

(* A session hash never stays without a TTL: when it has none, a request is *)
(* about to send the expire.  hset and expire are two commands, and an hdel *)
(* in between may remove the key together with its TTL.                     *)
SessionExpires ==
    Uninterrupted =>
        (hash # NoHash /\ ~expiring => \E r \in Request : At(r, "expire"))

(* The origin of a journey is never made up: the session's origin, and the  *)
(* origin any request is answered with, occur in a message whose text names *)
(* a place, through inherited origins, restored questions and races.        *)
OriginsAreNamedByTheUser ==
    \A i \in {hash.origin} \cup {plan[r].origin : r \in Request} :
        i # 0 => NamesOrigin(QuestionOf(i), OriginRequest)

-----------------------------------------------------------------------------
(* One message at a time.                                                   *)

(* Between two requests the two records of a question that waits for its    *)
(* origin agree, and they belong to the active destination; a failed model  *)
(* call in any request does not change that.                                *)
PendingPairAgrees ==
    AtRest /\ faults = {} =>
        /\ hash.ctx = hash.pending
        /\ hash.ctx # 0 => place[hash.ctx] = hash.dest

(* A question that waits for its origin is resumed for the destination it   *)
(* was asked for, never for one the user has switched to since.             *)
NoForeignPending ==
    Uninterrupted =>
        \A r \in Request : At(r, "route") /\ AwaitingOrigin(r) => place[seen[r].ctx] = place[r]

(* The assistant asks where the user travels from; the next message names   *)
(* the place, in any form.  It is answered as the journey question that was *)
(* asked, from that place (tests/test_e2e_origin_flow.py).                  *)
OriginReplyResumesTheQuestion ==
    faults = {} =>
        \A p, r \in Request :
            /\ r = p + 1 /\ Routed(r) /\ place[r] = place[p]
            /\ outcome[p] = "answered" /\ plan[p].path = "origin_request"
            /\ NamesOrigin(question[r], OriginRequest)
            => /\ QuestionOf(plan[r].effective) = question[p]
               /\ plan[r].origin = r
               /\ plan[r].path = "journey"

(* ... and when answering it fails, the pending fields are gone already,    *)
(* but a user who says "I am from X" again still gets the question answered:*)
(* the last exchange was not touched by the failed requests.                *)
OriginPhraseSurvivesAFailedAnswer ==
    faults = {} =>
        \A p, r \in Request :
            /\ p < r /\ Routed(r) /\ place[r] = place[p]
            /\ outcome[p] = "answered" /\ plan[p].path = "origin_request"
            /\ \A f \in p + 1 .. r - 1 : outcome[f] = "failed"
            /\ IsJourneyQuestion(question[p]) /\ IsOriginOnly(question[r])
            => /\ QuestionOf(plan[r].effective) = question[p]
               /\ plan[r].origin = r
               /\ plan[r].path = "journey"

(* An answer is returned after the session is up to date: when the latest   *)
(* request was answered, the hash shows its destination and its exchange,   *)
(* whatever failed in the requests before it.                               *)
AnswerLeavesSessionCurrent ==
    NotExpired =>
        \A r \in Request :
            AtRest /\ outcome[r] = "answered" /\ r = Cardinality(Arrived) =>
                /\ hash.dest = place[r]
                /\ HasExchange(r) => hash.turns[Len(hash.turns)] = r
                /\ expiring

(* No answered exchange disappears from the recent turns before MaxTurns    *)
(* newer ones are there, not even when the destination changes, and they    *)
(* are kept in the order they happened.                                     *)
HistoryKeepsRecentAnswers ==
    AtRest /\ NotExpired =>
        /\ \A i, j \in 1 .. Len(hash.turns) : i < j => hash.turns[i] <= hash.turns[j]
        /\ \A r \in Request :
              outcome[r] = "answered" /\ HasExchange(r) /\ ~InTurns(r) =>
                  /\ Len(hash.turns) = MaxTurns
                  /\ r < hash.turns[1]

(* Seen from outside, the session of such a client is a log: whatever fails *)
(* on the way, no command of a request does anything but add its exchange   *)
(* to the turns kept so far, set or clear the waiting question, or move to  *)
(* its destination, and an answer finds the first and the last done.        *)
Spoken == {r \in Request : HasExchange(r)}
Answered == {r \in Request : outcome[r] = "answered"}
Log == INSTANCE SessionLog WITH
         arrived  <- Arrived,
         wanted   <- place,
         spoken   <- Spoken,
         answered <- Answered,
         turns    <- hash.turns,
         waiting  <- hash.ctx,
         active   <- hash.dest,
         working  <- NotExpired
IsASessionLog == Log!Spec

-----------------------------------------------------------------------------
(* Promises of the repository's text that do not hold.                      *)

(* agent_service.py:222, "persist the exchange": it is persisted once.      *)
ExchangeIsPersistedOnce ==
    \A i, j \in 1 .. Len(hash.turns) : i # j => hash.turns[i] # hash.turns[j]

(* agent_service.py:222, "Ground the final response, persist the exchange": *)
(* what is kept as the assistant's reply is what the user was shown.        *)
PersistedReplyIsTheOneShown ==
    AtRest => \A r \in Request :
        outcome[r] = "answered" /\ r = Cardinality(Arrived) =>
            ReplyOf(hash.reply) = shown[r]

(* agent_service.py:219, "Reset destination-scoped state when the           *)
(* destination changes": the question a request is answered for was asked   *)
(* for its destination.                                                     *)
QuestionIsForThisDestination ==
    \A r \in Request : Routed(r) /\ plan[r].effective # 0 =>
        place[plan[r].effective] = place[r]

(* agent_service.py:222, "persist the exchange": with two requests of one   *)
(* session open at once, both answered exchanges are in the recent turns.   *)
AnsweredExchangesAreKept ==
    AtRest /\ Cardinality(Arrived) <= MaxTurns =>
        \A r \in Request : outcome[r] = "answered" /\ HasExchange(r) => InTurns(r)
=============================================================================
