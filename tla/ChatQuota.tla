------------------------------ MODULE ChatQuota ------------------------------
(***************************************************************************)
(* enforce_chat_quota (src/app/tooling/usage_limits.py): a counter in Redis*)
(* per chat session, with a TTL that the request that created it sets.     *)
(*                                                                         *)
(* incr and expire are two commands, so requests of other clients of the   *)
(* session run between them, either can fail, and the process can die.     *)
(* When a command fails the request goes on unthrottled.                   *)
(***************************************************************************)
EXTENDS Naturals

CONSTANTS
    Client,     \* the clients of the session, one request at a time each
    Limit,      \* CHAT_REQUESTS_PER_WINDOW, 30 in the code
    FaultKind   \* the faults that may happen, a subset of {"redis", "crash"}

ASSUME QuotaAssumption ==
    /\ Limit \in Nat \ {0}
    /\ FaultKind \subseteq {"redis", "crash"}

VARIABLES
    count,     \* the counter; the key exists iff count # 0
    expiring,  \* the key has a TTL
    pc,        \* the command each client's request is at
    verdict,   \* the latest answer each client got
    served,    \* ghost: requests the counter let through in this window
    faults     \* ghost: the kinds of faults that have happened

vars == <<count, expiring, pc, verdict, served, faults>>

TypeOK ==
    /\ count \in 0 .. Limit + 1
    /\ expiring \in BOOLEAN
    /\ pc \in [Client -> {"idle", "incr", "expire"}]
    /\ verdict \in [Client -> {"none", "admitted", "rejected"}]
    /\ served \in Nat
    /\ faults \subseteq FaultKind

Init ==
    /\ count = 0 /\ expiring = FALSE
    /\ pc = [c \in Client |-> "idle"]
    /\ verdict = [c \in Client |-> "none"]
    /\ served = 0 /\ faults = {}

(* Above the limit the exact count makes no difference.                     *)
Incremented == IF count > Limit THEN count ELSE count + 1

(* The request ends here; one the counter let through is counted.           *)
Decide(c, answer, counted) ==
    /\ pc' = [pc EXCEPT ![c] = "idle"]
    /\ verdict' = [verdict EXCEPT ![c] = answer]
    /\ served' = IF counted THEN served + 1 ELSE served

-----------------------------------------------------------------------------
Arrive(c) ==
    /\ pc[c] = "idle"
    /\ pc' = [pc EXCEPT ![c] = "incr"]
    /\ UNCHANGED <<count, expiring, verdict, served, faults>>

RejectsLate(n) == n > Limit + 1     \* mutant: the limit is off by one
Rejects(n) == n > Limit
ArmsLate(n) == n = 2        \* mutant: the second request sets the TTL
ArmsNever(n) == n = 0       \* mutant: no request does
Arms(n) == n = 1

(* incr, and the decision: nothing is awaited between them unless the       *)
(* request created the counter.                                             *)
Increment(c) ==
    /\ pc[c] = "incr"
    /\ count' = Incremented
    /\ \/ /\ Arms(count')
          /\ pc' = [pc EXCEPT ![c] = "expire"]
          /\ UNCHANGED <<verdict, served>>
       \/ ~Arms(count') /\ Rejects(count') /\ Decide(c, "rejected", FALSE)
       \/ ~Arms(count') /\ ~Rejects(count') /\ Decide(c, "admitted", TRUE)
    /\ UNCHANGED <<expiring, faults>>

(* expire: without a key it does nothing.                                   *)
SetExpiry(c) ==
    /\ pc[c] = "expire"
    /\ expiring' = (count # 0)
    /\ Decide(c, "admitted", TRUE)
    /\ UNCHANGED <<count, faults>>

(* CHAT_WINDOW_SECONDS after the expire, Redis drops the counter.           *)
WindowEnds ==
    /\ expiring
    /\ count' = 0 /\ expiring' = FALSE /\ served' = 0
    /\ UNCHANGED <<pc, verdict, faults>>

-----------------------------------------------------------------------------
Fault(kind) == kind \in FaultKind /\ faults' = faults \cup {kind}

(* A command fails, executed or not: the except clause lets it through.     *)
RedisFails(c) ==
    /\ pc[c] # "idle" /\ Fault("redis")
    /\ \/ UNCHANGED <<count, expiring>>
       \/ pc[c] = "incr" /\ count' = Incremented /\ UNCHANGED expiring
       \/ pc[c] = "expire" /\ expiring' = (count # 0) /\ UNCHANGED count
    /\ Decide(c, "admitted", FALSE)

(* The reply to incr is lost, and redis-py sends it again: init_redis says  *)
(* nothing of retries, so the client of redis 7.1.0 (uv.lock) has its       *)
(* default ones.  Without any, an executed incr whose reply is lost         *)
(* (RedisFails) leaves the counter without a TTL as well.                   *)
IncrementRepeats(c) ==
    /\ pc[c] = "incr" /\ Fault("redis")
    /\ count' = Incremented
    /\ UNCHANGED <<expiring, pc, verdict, served>>

(* The process dies with the requests it has open.                          *)
Crash ==
    /\ Fault("crash")
    /\ \E c \in Client : pc[c] # "idle"
    /\ pc' = [c \in Client |-> "idle"]
    /\ UNCHANGED <<count, expiring, verdict, served>>

-----------------------------------------------------------------------------
Next ==
    \/ \E c \in Client : Arrive(c) \/ Increment(c) \/ SetExpiry(c)
                         \/ RedisFails(c) \/ IncrementRepeats(c)
    \/ WindowEnds \/ Crash

Spec == Init /\ [][Next]_vars

(* A request at its expire goes on, and Redis drops a key after its TTL.    *)
FairSpec ==
    /\ Spec
    /\ WF_vars(WindowEnds)
    /\ \A c \in Client : WF_vars(SetExpiry(c))

(* ... and after the last fault, the clients keep trying.                   *)
FaultStep == Crash \/ \E c \in Client : RedisFails(c) \/ IncrementRepeats(c)
RecoveredSpec ==
    /\ FairSpec
    /\ \A c \in Client : WF_vars(Arrive(c)) /\ WF_vars(Increment(c))
    /\ <>[][~FaultStep]_vars

-----------------------------------------------------------------------------
(* However requests interleave and wherever the process dies, a window      *)
(* serves at most Limit requests through the counter.                       *)
QuotaHolds == "redis" \notin faults => served <= Limit

(* A counter without a TTL would throttle the session for ever; while Redis *)
(* and the process work, some request is about to set it.                   *)
WindowWillEnd ==
    faults = {} => (count # 0 /\ ~expiring => \E c \in Client : pc[c] = "expire")

(* A session that is throttled gets out of it while nothing fails: whoever  *)
(* tries again later finds a counter below the limit.                       *)
ThrottlingEnds == count > Limit ~> count < Limit \/ faults # {}

(* usage_limits.py:32, "Please try again later.": and so it does when Redis *)
(* has failed and works again.                                              *)
ThrottlingEndsAfterFaults == count > Limit ~> count < Limit

(* The promise of WindowQuota, which a fault ends: a request that created   *)
(* the counter is admitted already, whatever its expire does.               *)
Quota == INSTANCE WindowQuota WITH
            used    <- IF count > Limit THEN Limit ELSE count,
            verdict <- [c \in Client |-> IF pc[c] = "expire" THEN "admitted" ELSE verdict[c]],
            working <- faults = {}
IsAWindowQuota == Quota!Spec
=============================================================================
