----------------------------- MODULE WindowQuota -----------------------------
(***************************************************************************)
(* What a chat quota promises: of the requests of one session, Limit are   *)
(* admitted in a window, the others are rejected, and a window ends.  It   *)
(* promises that until it breaks; from then on it promises nothing.        *)
(***************************************************************************)
EXTENDS Naturals

CONSTANTS Client, Limit

VARIABLES
    used,     \* the admissions of the current window
    verdict,  \* the latest answer each client got
    working   \* nothing has failed yet

vars == <<used, verdict, working>>

Init == used = 0 /\ verdict = [c \in Client |-> "none"] /\ working = TRUE

Admit(c) ==
    /\ working /\ used < Limit
    /\ used' = used + 1
    /\ verdict' = [verdict EXCEPT ![c] = "admitted"]
    /\ UNCHANGED working

Reject(c) ==
    /\ working /\ used = Limit
    /\ verdict' = [verdict EXCEPT ![c] = "rejected"]
    /\ UNCHANGED <<used, working>>

EndWindow == working /\ used > 0 /\ used' = 0 /\ UNCHANGED <<verdict, working>>

Break == working' = FALSE

Next == Break \/ EndWindow \/ \E c \in Client : Admit(c) \/ Reject(c)

Safety == Init /\ [][Next]_vars
Spec == Safety /\ WF_vars(EndWindow)
=============================================================================
