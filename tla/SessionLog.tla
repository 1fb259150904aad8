----------------------------- MODULE SessionLog -----------------------------
(***************************************************************************)
(* What a chat session promises to a client that waits for each answer: a  *)
(* log of the last MaxTurns exchanges, to which every exchange is added    *)
(* after the ones before it; one question at most that waits for more; and *)
(* an answer only when the session shows the exchange and its destination. *)
(* A request that fails may have done part of that, in any order, and some *)
(* of it more than once.  The session promises this until it breaks, which *)
(* is when it is older than its TTL.                                       *)
(***************************************************************************)
EXTENDS Naturals, Sequences

CONSTANTS Request, Place, NoPlace, MaxTurns

VARIABLES
    arrived,   \* the requests so far, the newest of which is served
    wanted,    \* the destination each of them is about
    spoken,    \* the requests that have a text to remember
    answered,  \* the requests that were answered
    turns,     \* the exchanges the session remembers
    waiting,   \* the request whose question waits for its origin, or 0
    active,    \* the destination of the session
    working    \* the session is not too old

requests == <<arrived, wanted, spoken, answered>>
memory == <<turns, waiting, active>>
vars == <<arrived, wanted, spoken, answered, turns, waiting, active, working>>

Init ==
    /\ arrived = {} /\ wanted = [r \in Request |-> NoPlace]
    /\ spoken = {} /\ answered = {}
    /\ turns = <<>> /\ waiting = 0 /\ active = NoPlace
    /\ working = TRUE

(* The request that is served: no answer was given yet, none is newer.      *)
Serves(r) == r \in arrived \ answered /\ \A q \in arrived : q <= r

Added(s, r) == Append(IF Len(s) < MaxTurns THEN s ELSE Tail(s), r)

Arrive(r, p) ==
    /\ working /\ r \notin arrived /\ \A q \in arrived : q < r
    /\ arrived' = arrived \cup {r}
    /\ wanted' = [wanted EXCEPT ![r] = p]
    /\ spoken' \in {spoken, spoken \cup {r}}
    /\ UNCHANGED <<answered, memory, working>>

(* What it has to say is settled while it is served.                        *)
Speak(r) ==
    /\ working /\ Serves(r)
    /\ spoken' \in {spoken \cup {r}, spoken \ {r}}
    /\ UNCHANGED <<arrived, wanted, answered, memory, working>>

Record(r) ==
    /\ working /\ Serves(r) /\ r \in spoken
    /\ turns' = Added(turns, r)
    /\ UNCHANGED <<requests, waiting, active, working>>

Ask(r) ==
    /\ working /\ Serves(r)
    /\ waiting' \in {0, r}
    /\ UNCHANGED <<requests, turns, active, working>>

Visit(r) ==
    /\ working /\ Serves(r)
    /\ active' = wanted[r]
    /\ UNCHANGED <<requests, turns, waiting, working>>

Complete(r) ==
    /\ working /\ Serves(r)
    /\ r \in spoken => turns # <<>> /\ turns[Len(turns)] = r
    /\ active = wanted[r]
    /\ answered' = answered \cup {r}
    /\ UNCHANGED <<arrived, wanted, spoken, memory, working>>

Break == working' = FALSE

Next ==
    \/ \E r \in Request, p \in Place : Arrive(r, p)
    \/ \E r \in Request : Speak(r) \/ Record(r) \/ Ask(r) \/ Visit(r) \/ Complete(r)
    \/ Break

Spec == Init /\ [][Next]_vars
=============================================================================
