------------------------- MODULE ConversationProofs -------------------------
(***************************************************************************)
(* Theorems about the chat session, for any number of requests open at the *)
(* same time, any texts and places, and any of the faults: its type, the   *)
(* three invariants that hold under every interleaving, and what each      *)
(* action does to the commands its request still has to do.                *)
(***************************************************************************)
EXTENDS ConversationRequirements, SequenceTheorems, TLAPS

-----------------------------------------------------------------------------
(* The commands still to do are commands, whatever the request is at.       *)

(* The reads of prepare_request_context are commands,                       *)
LEMMA PreparationType == Preparation \in Seq(Op)
BY SMT DEF Preparation, Get, Local, Op, ReadableField, OtherVerb, Field

(* ... so are the deletions of the pending fields,                          *)
LEMMA ClearPendingType == ClearPending \in Seq(Op)
BY DEF ClearPending, Del, Op, ClearableField

(* ... the write of the destination,                                        *)
LEMMA FinalizationType == Finalization \in Seq(Op)
BY DEF Finalization, Set, Op, WritableField

(* ... each command without a field,                                        *)
LEMMA LocalType == \A verb \in OtherVerb : <<Local(verb)>> \in Seq(Op)
BY DEF Local, Op

(* ... what mark_sent needs,                                                *)
LEMMA PersistType == ASSUME NEW r, NEW text PROVE Persist(r, text) \in Seq(Op)
<1>1. <<"load", "-">> \in Op /\ <<"save", "-">> \in Op
  BY DEF Op, OtherVerb
<1>2. QED BY <1>1 DEF Persist, Local

(* ... and what each path goes on with.                                     *)
LEMMA PathOpsType ==
    ASSUME NEW r, NEW path \in Path PROVE PathOps(r, path) \in Seq(Op)
<1>1. CASE path = "reference"
  BY <1>1, PersistType, FinalizationType, ConcatProperties DEF PathOps
<1>2. CASE path = "followup"
  BY <1>2, LocalType DEF PathOps, OtherVerb
<1>3. CASE path = "origin_request"
  <2>1. <<Set("ctx"), Set("pending")>> \in Seq(Op)
    BY DEF Set, Op, WritableField
  <2>2. QED BY <1>3, <2>1, PersistType, FinalizationType, ConcatProperties DEF PathOps
<1>4. CASE path = "journey"
  BY <1>4, LocalType, ClearPendingType, ConcatProperties DEF PathOps, OtherVerb
<1>5. CASE path = "broad"
  <2>1. <<"gate", "-">> \in Op /\ <<"answer", "-">> \in Op
    BY DEF Op, OtherVerb
  <2>2. QED BY <1>5, <2>1 DEF PathOps, Local
<1>6. QED BY <1>1, <1>2, <1>3, <1>4, <1>5 DEF Path

-----------------------------------------------------------------------------
(* Type correctness.                                                        *)

(* What a request goes on with is again a list of commands.                 *)
LEMMA ContinueType ==
    ASSUME TypeOK, NEW r \in Request, NEW rest \in Seq(Op), Continue(r, rest)
    PROVE  /\ todo' \in [Request -> Seq(Op)]
           /\ outcome' \in [Request -> Outcome]
BY DEF TypeOK, Continue, Outcome

(* No plan is a plan, and the empty session is one.                         *)
LEMMA NothingType ==
    /\ 0 \in Text /\ NoPlan \in Plan
    /\ NoHash \in Hash /\ Len(NoHash.turns) <= MaxTurns
<1>1. 0 \in Text
  BY BoundsAssumption DEF Text
<1>2. NoPlan \in Plan /\ NoHash \in Hash
  BY <1>1 DEF NoHash, Hash, NoPlan, Plan
<1>3. Len(NoHash.turns) <= MaxTurns
  <2>1. NoHash.turns = <<>> /\ Len(<<>>) = 0
    BY DEF NoHash
  <2>2. QED BY <2>1, BoundsAssumption
<1>4. QED BY <1>1, <1>2, <1>3

(* A request that ends early keeps the type of its variables.               *)
LEMMA AbortType ==
    ASSUME TypeOK, NEW r \in Request, NEW result \in Outcome, Abort(r, result)
    PROVE  /\ todo' \in [Request -> Seq(Op)]
           /\ outcome' \in [Request -> Outcome]
           /\ seen' \in [Request -> Hash]
           /\ history' \in [Request -> Seq(Request)]
           /\ plan' \in [Request -> Plan]
BY NothingType DEF TypeOK, Abort

(* A request at a command has it, and then the rest, still to do.           *)
LEMMA AtType ==
    ASSUME TypeOK, NEW r \in Request, NEW verb, At(r, verb)
    PROVE  /\ Head(todo[r]) \in Op
           /\ Tail(todo[r]) \in Seq(Op)
           /\ Head(todo[r])[1] = verb
           /\ todo[r] # <<>>
BY HeadTailProperties DEF TypeOK, At

(* A read is of a field of the hash.                                        *)
LEMMA GetField ==
    ASSUME TypeOK, NEW r \in Request, At(r, "get")
    PROVE  FieldOf(r) \in ReadableField
BY AtType DEF FieldOf, Op, OtherVerb

(* A write is to one of the four writable fields.                           *)
LEMMA SetField ==
    ASSUME TypeOK, NEW r \in Request, At(r, "set")
    PROVE  FieldOf(r) \in WritableField
BY AtType DEF FieldOf, Op, OtherVerb

(* A deletion is of one of the two pending fields.                          *)
LEMMA DelField ==
    ASSUME TypeOK, NEW r \in Request, At(r, "del")
    PROVE  FieldOf(r) \in ClearableField
BY AtType DEF FieldOf, Op, OtherVerb

(* The routing decision is a plan: its texts are texts of the session.      *)
LEMMA RoutingType ==
    ASSUME TypeOK, NEW r \in Request
    PROVE  /\ EffectiveQuestion(r) \in Text
           /\ FinalOrigin(r) \in Text
           /\ \A mode \in Mode : PathOf(r, mode) \in Path
<1>1. r \in Text /\ 0 \in Text
  BY BoundsAssumption DEF Request, Text
<1>2. /\ seen[r].origin \in Text /\ seen[r].ctx \in Text
      /\ seen[r].user \in Text
  BY DEF TypeOK, Hash
<1>3. \A i \in Text : \A last : OriginIn(i, last) \in Text
  BY <1>1 DEF OriginIn
<1>4. \A origin \in Text : \A i : WithActiveOrigin(r, origin, i) \in Text
  BY <1>2 DEF WithActiveOrigin
<1>5. NamedOrigin(r) \in Text
  BY <1>1, <1>3, <1>4 DEF NamedOrigin
<1>6. RestorePending(r) \in Text
  BY <1>1, <1>2 DEF RestorePending, OwnQuestion
<1>7. EffectiveQuestion(r) \in Text
  BY <1>2, <1>6 DEF EffectiveQuestion, RestoreOriginOnly
<1>8. FinalOrigin(r) \in Text
  BY <1>3, <1>4, <1>5, <1>7 DEF FinalOrigin
<1>9. \A mode \in Mode : PathOf(r, mode) \in Path
  BY DEF PathOf, Path
<1>10. QED BY <1>7, <1>8, <1>9

(* mark_sent keeps at most MaxTurns turns, the new one last.                *)
LEMMA TrimAppend ==
    ASSUME NEW s \in Seq(Request), NEW r \in Request
    PROVE  LET t == Trim(Append(s, r))
           IN  /\ t \in Seq(Request)
               /\ Len(t) \in 1 .. MaxTurns
               /\ t[Len(t)] = r
               /\ \A i \in 1 .. Len(t) : t[i] = r \/ \E j \in 1 .. Len(s) : t[i] = s[j]
<1> DEFINE a == Append(s, r)
           m == (IF Len(a) > MaxTurns THEN Len(a) - MaxTurns ELSE 0) + 1
<1>1. /\ a \in Seq(Request) /\ Len(a) = Len(s) + 1 /\ a[Len(a)] = r
      /\ \A i \in 1 .. Len(s) : a[i] = s[i]
      /\ Len(s) \in Nat
  OBVIOUS
<1>2. m \in 1 .. Len(a) /\ Len(a) - m + 1 \in 1 .. MaxTurns
  BY <1>1, BoundsAssumption
<1> HIDE DEF m
<1>3. \A i \in m .. Len(a) : a[i] \in Request
  BY <1>1, <1>2
<1>4. Trim(a) = SubSeq(a, m, Len(a))
  BY DEF Trim, m
<1> HIDE DEF a
<1>5. /\ Trim(a) \in Seq(Request)
      /\ Len(Trim(a)) = Len(a) - m + 1
      /\ \A i \in 1 .. Len(a) - m + 1 : Trim(a)[i] = a[m + i - 1]
  BY <1>1, <1>2, <1>3, <1>4, SubSeqProperties
<1>6. Trim(a)[Len(Trim(a))] = r
  BY <1>1, <1>2, <1>5
<1>7. ASSUME NEW i \in 1 .. Len(Trim(a))
      PROVE  Trim(a)[i] = r \/ \E j \in 1 .. Len(s) : Trim(a)[i] = s[j]
  <2>1. m + i - 1 \in 1 .. Len(s) + 1
    BY <1>1, <1>2, <1>5
  <2>2. Trim(a)[i] = a[m + i - 1]
    BY <1>5, <1>1, <1>2
  <2>3. QED BY <1>1, <2>1, <2>2
<1>8. QED BY <1>2, <1>5, <1>6, <1>7 DEF a

(* Whatever a request writes, the hash stays one.                           *)
LEMMA StoreType ==
    ASSUME TypeOK, NEW r \in Request
    PROVE  /\ ExchangeSaved(r) \in Hash /\ Len(ExchangeSaved(r).turns) <= MaxTurns
           /\ At(r, "set") => /\ FieldWritten(r) \in Hash
                              /\ Len(FieldWritten(r).turns) <= MaxTurns
           /\ At(r, "del") => /\ FieldCleared(r) \in Hash
                              /\ Len(FieldCleared(r).turns) <= MaxTurns
<1>1. r \in Text /\ 0 \in Text
  BY BoundsAssumption DEF Request, Text
<1>2. ExchangeSaved(r) \in Hash /\ Len(ExchangeSaved(r).turns) <= MaxTurns
  <2> DEFINE t == Trim(Append(TurnsBefore(r), r))
  <2>1. t \in Seq(Request) /\ Len(t) <= MaxTurns
    BY TrimAppend, BoundsAssumption DEF TypeOK, TurnsBefore
  <2> HIDE DEF t
  <2>2. QED BY <1>1, <2>1 DEF ExchangeSaved, TypeOK, Hash, t
<1>3. ASSUME At(r, "set")
      PROVE  FieldWritten(r) \in Hash /\ Len(FieldWritten(r).turns) <= MaxTurns
  BY <1>1, <1>3, SetField DEF FieldWritten, TypeOK, Hash, WritableField, Plan
<1>4. ASSUME At(r, "del")
      PROVE  FieldCleared(r) \in Hash /\ Len(FieldCleared(r).turns) <= MaxTurns
  BY <1>1, <1>4, DelField DEF FieldCleared, TypeOK, Hash, ClearableField
<1>5. QED BY <1>2, <1>3, <1>4

(* An empty session is well typed.                                          *)
LEMMA InitType == Init => TypeOK
<1> SUFFICES ASSUME Init PROVE TypeOK
  OBVIOUS
<1>1. hash \in Hash /\ Len(hash.turns) <= MaxTurns
  BY NothingType DEF Init
<1>2. /\ todo \in [Request -> Seq(Op)]
      /\ history \in [Request -> Seq(Request)]
      /\ seen \in [Request -> Hash]
      /\ plan \in [Request -> Plan]
  BY NothingType DEF Init
<1>3. QED BY <1>1, <1>2 DEF Init, TypeOK, MaybeQuestion, MaybeReply, Outcome

(* Every step of the session keeps the types.                               *)
LEMMA StepType == TypeOK /\ [Next]_vars => TypeOK'
<1> SUFFICES ASSUME TypeOK, [Next]_vars PROVE TypeOK'
  OBVIOUS
<1>1. ASSUME NEW r \in Request, NEW p \in Place, NEW q \in MaybeQuestion, Arrive(r, p, q)
      PROVE  TypeOK'
  <2>1. todo' \in [Request -> Seq(Op)] /\ outcome' \in [Request -> Outcome]
    BY <1>1, PreparationType, ContinueType DEF Arrive
  <2>2. QED BY <1>1, <2>1 DEF Arrive, TypeOK, store
<1>2. ASSUME NEW r \in Request, ReadField(r) PROVE TypeOK'
  <2>1. todo' \in [Request -> Seq(Op)] /\ outcome' \in [Request -> Outcome]
    BY <1>2, AtType, ContinueType DEF ReadField
  <2>2. FieldOf(r) \in ReadableField
    BY <1>2, GetField DEF ReadField
  <2>3. seen' \in [Request -> Hash]
    <3>1. seen[r] \in Hash /\ hash \in Hash
      BY DEF TypeOK
    <3>2. [seen[r] EXCEPT ![FieldOf(r)] = hash[FieldOf(r)]] \in Hash
      BY <2>2, <3>1 DEF ReadableField, Field, Hash
    <3>3. seen' = [seen EXCEPT ![r] = [seen[r] EXCEPT ![FieldOf(r)] = hash[FieldOf(r)]]]
      BY <1>2 DEF ReadField, TypeOK
    <3>4. QED BY <3>2, <3>3 DEF TypeOK
  <2>4. QED BY <1>2, <2>1, <2>3 DEF ReadField, TypeOK, store, inputs
<1>3. ASSUME NEW r \in Request, SettleDestination(r) PROVE TypeOK'
  <2>1. <<Local("route")>> \in Seq(Op) /\ ClearPending \o <<Local("route")>> \in Seq(Op)
    BY LocalType, ClearPendingType, ConcatProperties DEF OtherVerb
  <2>2. todo' \in [Request -> Seq(Op)] /\ outcome' \in [Request -> Outcome]
    BY <1>3, <2>1, ContinueType DEF SettleDestination
  <2>3. ViewAfterReset(r) \in Hash
    <3> DEFINE empty == <<>>
    <3>1. empty \in Seq(Request) /\ seen[r] \in Hash
      BY DEF TypeOK
    <3>2. ViewAfterReset(r) = [seen[r] EXCEPT !.turns = empty, !.ctx = 0, !.pending = 0]
      BY DEF ViewAfterReset
    <3> HIDE DEF empty
    <3>3. QED BY <3>1, <3>2, NothingType DEF Hash
  <2>4. seen' \in [Request -> Hash]
    BY <1>3, <2>3 DEF SettleDestination, TypeOK
  <2>5. QED BY <1>3, <2>2, <2>4 DEF SettleDestination, TypeOK, store, inputs
<1>4. ASSUME NEW r \in Request, NEW mode \in Mode, RouteRequest(r, mode) PROVE TypeOK'
  <2> DEFINE path == PathOf(r, mode)
             record == IF FinalOrigin(r) # 0 THEN <<Set("origin")>> ELSE <<>>
  <2>1. path \in Path /\ EffectiveQuestion(r) \in Text /\ FinalOrigin(r) \in Text
    BY RoutingType
  <2>2. record \in Seq(Op)
    BY DEF Set, Op, WritableField
  <2>3. PathOps(r, path) \in Seq(Op)
    BY <2>1, PathOpsType
  <2>4. todo' \in [Request -> Seq(Op)] /\ outcome' \in [Request -> Outcome]
    <3> HIDE DEF record, path
    <3>1. record \o PathOps(r, path) \in Seq(Op)
      BY <2>2, <2>3, ConcatProperties
    <3>2. Continue(r, record \o PathOps(r, path))
      BY <1>4 DEF RouteRequest, record, path
    <3>3. QED BY <3>1, <3>2, ContinueType
  <2>5. plan' \in [Request -> Plan]
    BY <1>4, <2>1 DEF RouteRequest, TypeOK, Plan
  <2>6. FixedReplyOf(path) \in MaybeReply
    BY DEF FixedReplyOf, MaybeReply, Reply, FixedReply
  <2>7. /\ reply' \in [Request -> MaybeReply]
        /\ shown' \in [Request -> MaybeReply \cup {Unconfirmed}]
    BY <1>4, <2>6 DEF RouteRequest, TypeOK
  <2>8. seen' \in [Request -> Hash]
    BY <1>4, NothingType DEF RouteRequest, TypeOK
  <2>9. QED BY <1>4, <2>4, <2>5, <2>7, <2>8 DEF RouteRequest, TypeOK, store, inputs
<1>5. ASSUME NEW r \in Request, ConsultGate(r) PROVE TypeOK'
  <2>1. todo' \in [Request -> Seq(Op)] /\ outcome' \in [Request -> Outcome]
    BY <1>5, AtType, ContinueType DEF ConsultGate
  <2>2. QED BY <1>5, <2>1 DEF ConsultGate, TypeOK, store, inputs
<1>6. ASSUME NEW r \in Request, AnswerRequest(r) PROVE TypeOK'
  <2>1. PICK text \in Answer \cup {NoReply}, visible \in MaybeReply \cup {Unconfirmed} :
          /\ reply' = [reply EXCEPT ![r] = text]
          /\ shown' = [shown EXCEPT ![r] = visible]
          /\ Continue(r, Persist(r, text) \o Finalization)
    <3>1. \A text \in Answer \cup {NoReply} : Grounded(text) \subseteq Answer \cup {NoReply, Unconfirmed}
      BY DEF Grounded, Confirmed
    <3>2. QED BY <1>6, <3>1 DEF AnswerRequest, MaybeReply, Reply
  <2>2. Persist(r, text) \o Finalization \in Seq(Op)
    BY PersistType, FinalizationType, ConcatProperties
  <2>3. todo' \in [Request -> Seq(Op)] /\ outcome' \in [Request -> Outcome]
    BY <2>1, <2>2, ContinueType
  <2>4. QED BY <1>6, <2>1, <2>3 DEF AnswerRequest, TypeOK, store, inputs, MaybeReply, Reply
<1>7. ASSUME NEW r \in Request, LoadTurns(r) PROVE TypeOK'
  <2>1. todo' \in [Request -> Seq(Op)] /\ outcome' \in [Request -> Outcome]
    BY <1>7, AtType, ContinueType DEF LoadTurns
  <2>2. hash.turns \in Seq(Request)
    BY DEF TypeOK, Hash
  <2>3. QED BY <1>7, <2>1, <2>2 DEF LoadTurns, TypeOK, store, inputs
<1>8. ASSUME NEW r \in Request, SaveExchange(r) PROVE TypeOK'
  <2>1. ThenArm(r) \in Seq(Op)
    BY <1>8, AtType, LocalType, ConcatProperties DEF SaveExchange, ThenArm, OtherVerb
  <2>2. todo' \in [Request -> Seq(Op)] /\ outcome' \in [Request -> Outcome]
    BY <1>8, <2>1, ContinueType DEF SaveExchange
  <2>3. history' \in [Request -> Seq(Request)]
    BY <1>8, NothingType DEF SaveExchange, TypeOK
  <2>4. QED BY <1>8, <2>2, <2>3, StoreType DEF SaveExchange, Keep, TypeOK, inputs
<1>9. ASSUME NEW r \in Request, WriteField(r) PROVE TypeOK'
  <2>1. ThenArm(r) \in Seq(Op)
    BY <1>9, AtType, LocalType, ConcatProperties DEF WriteField, ThenArm, OtherVerb
  <2>2. todo' \in [Request -> Seq(Op)] /\ outcome' \in [Request -> Outcome]
    BY <1>9, <2>1, ContinueType DEF WriteField
  <2>3. QED BY <1>9, <2>2, StoreType DEF WriteField, Keep, TypeOK, inputs
<1>10. ASSUME NEW r \in Request, ClearField(r) PROVE TypeOK'
  <2>1. todo' \in [Request -> Seq(Op)] /\ outcome' \in [Request -> Outcome]
    BY <1>10, AtType, ContinueType DEF ClearField
  <2>2. QED BY <1>10, <2>1, StoreType DEF ClearField, Keep, TypeOK, inputs
<1>11. ASSUME NEW r \in Request, ArmExpiry(r) PROVE TypeOK'
  <2>1. todo' \in [Request -> Seq(Op)] /\ outcome' \in [Request -> Outcome]
    BY <1>11, AtType, ContinueType DEF ArmExpiry
  <2>2. QED BY <1>11, <2>1 DEF ArmExpiry, TypeOK, inputs
<1>12. ASSUME NEW r \in Request, Failure(r) PROVE TypeOK'
  <2>1. "unavailable" \in Outcome /\ "failed" \in Outcome
    BY DEF Outcome
  <2>2. CASE RedisFails(r)
    BY <2>1, <2>2, AbortType DEF RedisFails, Fault, TypeOK, store, inputs
  <2>3. CASE RedisReplyLost(r)
    BY <2>1, <2>3, AbortType, StoreType
       DEF RedisReplyLost, Executed, Fault, Keep, TypeOK, inputs
  <2>4. CASE ModelFails(r)
    BY <2>1, <2>4, AbortType DEF ModelFails, Fault, TypeOK, store, inputs
  <2>5. CASE RedisRepeats(r)
    BY <2>5, StoreType DEF RedisRepeats, Executed, Fault, Keep, TypeOK, inputs
  <2>6. QED BY <1>12, <2>2, <2>3, <2>4, <2>5 DEF Failure
<1>13. CASE Crash
  BY <1>13, NothingType DEF Crash, Fault, TypeOK, store, inputs, Outcome
<1>14. CASE Expire
  <2>1. hash' \in Hash /\ Len((hash').turns) <= MaxTurns
    BY <1>14, NothingType DEF Expire
  <2>2. QED BY <1>14, <2>1 DEF Expire, Fault, TypeOK, inputs
<1>15. CASE UNCHANGED vars
  BY <1>15 DEF vars, TypeOK
<1>16. QED
  BY <1>1, <1>2, <1>3, <1>4, <1>5, <1>6, <1>7, <1>8, <1>9, <1>10, <1>11, <1>12,
     <1>13, <1>14, <1>15
     DEF Next, Step, Done

(* Every variable of the session keeps its type, and the stored history     *)
(* never holds more than MaxTurns turns.                                    *)
THEOREM SessionIsTyped == Spec => []TypeOK
BY InitType, StepType, PTL DEF Spec

-----------------------------------------------------------------------------
(* The invariants that hold under every interleaving.                       *)

(* A step of request r leaves the other requests where they are.            *)
LEMMA OthersStay ==
    ASSUME TypeOK, NEW r \in Request, NEW q \in Request, q # r, NEW verb,
           \/ \E rest : Continue(r, rest)
           \/ \E result : Abort(r, result)
    PROVE  At(q, verb)' <=> At(q, verb)
BY DEF At, Continue, Abort, TypeOK

(* A request is at one command only.                                        *)
LEMMA AtOne ==
    ASSUME NEW r \in Request, NEW v, NEW w, At(r, v), At(r, w)
    PROVE  v = w
BY DEF At

-----------------------------------------------------------------------------
(* The session expires.                                                     *)

SomeoneArms == \E q \in Request : At(q, "expire")

(* A request that is not itself at an expire does not disarm the session.   *)
LEMMA StaysArmed ==
    ASSUME TypeOK, NEW r \in Request, ~At(r, "expire"), SomeoneArms,
           \/ \E rest : Continue(r, rest)
           \/ \E result : Abort(r, result)
    PROVE  SomeoneArms'
<1>1. PICK q \in Request : At(q, "expire")
  BY DEF SomeoneArms
<1>2. q # r
  BY <1>1
<1>3. At(q, "expire")'
  BY <1>1, <1>2, OthersStay
<1>4. QED BY <1>3 DEF SomeoneArms

(* After a write the request that wrote is the one that arms.               *)
LEMMA WriterArms ==
    ASSUME TypeOK, NEW r \in Request, NEW verb, At(r, verb), Continue(r, ThenArm(r))
    PROVE  SomeoneArms'
<1> DEFINE rest == Tail(todo[r])
<1>1. rest \in Seq(Op) /\ <<Local("expire")>> \in Seq(Op)
  BY AtType, LocalType DEF OtherVerb
<1>2. /\ ThenArm(r) # <<>>
      /\ Head(ThenArm(r)) = Local("expire")
  BY <1>1, ConcatProperties, EmptySeq DEF ThenArm
<1>3. todo'[r] = ThenArm(r) /\ outcome'[r] = "running"
  BY <1>2 DEF Continue, TypeOK
<1>4. At(r, "expire")'
  BY <1>2, <1>3 DEF At, Local
<1>5. QED BY <1>4 DEF SomeoneArms

(* Every step keeps an expire under way while the hash has no TTL.          *)
LEMMA ExpiresStep == TypeOK /\ SessionExpires /\ [Next]_vars => SessionExpires'
<1> SUFFICES ASSUME TypeOK, SessionExpires, [Next]_vars,
                    "interruption" \notin faults', hash' # NoHash, ~expiring'
             PROVE  SomeoneArms'
  BY DEF SessionExpires, Uninterrupted, SomeoneArms
<1> DEFINE Open == "interruption" \notin faults /\ hash # NoHash /\ ~expiring
<1>1. Open => SomeoneArms
  BY DEF SessionExpires, Uninterrupted, SomeoneArms
<1>2. ASSUME NEW r \in Request, UNCHANGED <<hash, expiring, faults>>, ~At(r, "expire"),
             \E rest : Continue(r, rest)
      PROVE  SomeoneArms'
  BY <1>1, <1>2, StaysArmed
<1>3. ASSUME NEW r \in Request, NEW p \in Place, NEW q \in MaybeQuestion, Arrive(r, p, q)
      PROVE  SomeoneArms'
  BY <1>2, <1>3 DEF Arrive, Arrived, At, store
<1>4. ASSUME NEW r \in Request, Step(r) PROVE SomeoneArms'
  <2>1. CASE ReadField(r)
    BY <1>2, <2>1, AtOne DEF ReadField, store
  <2>2. CASE SettleDestination(r)
    BY <1>2, <2>2, AtOne DEF SettleDestination, store
  <2>3. CASE \E mode \in Mode : RouteRequest(r, mode)
    BY <1>2, <2>3, AtOne DEF RouteRequest, store
  <2>4. CASE ConsultGate(r)
    BY <1>2, <2>4, AtOne DEF ConsultGate, store
  <2>5. CASE AnswerRequest(r)
    BY <1>2, <2>5, AtOne DEF AnswerRequest, store
  <2>6. CASE LoadTurns(r)
    BY <1>2, <2>6, AtOne DEF LoadTurns, store
  <2>7. CASE SaveExchange(r)
    BY <2>7, WriterArms DEF SaveExchange
  <2>8. CASE WriteField(r)
    BY <2>8, WriterArms DEF WriteField
  <2>9. CASE ClearField(r)
    <3>1. FieldOf(r) \in ClearableField
      BY <2>9, DelField DEF ClearField
    <3>2. hash = NoHash => FieldCleared(r) = NoHash
      <4>1. /\ NoHash = [NoHash EXCEPT !.ctx = NoHash.ctx]
            /\ NoHash = [NoHash EXCEPT !.pending = NoHash.pending]
        BY DEF NoHash
      <4>2. NoHash.ctx = 0 /\ NoHash.pending = 0
        BY DEF NoHash
      <4>3. QED BY <3>1, <4>1, <4>2 DEF FieldCleared, ClearableField
    <3>3. hash' = FieldCleared(r) /\ expiring' = (expiring /\ FieldCleared(r) # NoHash)
      BY <2>9 DEF ClearField, Keep
    <3>4. Open
      BY <2>9, <3>2, <3>3 DEF ClearField
    <3>5. ~At(r, "expire") /\ \E rest : Continue(r, rest)
      BY <2>9, AtOne DEF ClearField
    <3>6. QED BY <1>1, <3>4, <3>5, StaysArmed
  <2>10. CASE ArmExpiry(r)
    BY <2>10 DEF ArmExpiry
  <2>11. QED
    BY <1>4, <2>1, <2>2, <2>3, <2>4, <2>5, <2>6, <2>7, <2>8, <2>9, <2>10 DEF Step
<1>5. ASSUME NEW r \in Request, Failure(r) PROVE SomeoneArms'
  <2>1. CASE RedisFails(r) \/ RedisRepeats(r) \/ RedisReplyLost(r)
    BY <2>1 DEF RedisFails, RedisRepeats, RedisReplyLost, Fault
  <2>2. CASE ModelFails(r)
    <3>1. ~At(r, "expire") /\ \E result : Abort(r, result)
      BY <2>2, AtOne DEF ModelFails
    <3>2. Open
      BY <2>2 DEF ModelFails, Fault, store
    <3>3. QED BY <1>1, <3>1, <3>2, StaysArmed
  <2>3. QED BY <1>5, <2>1, <2>2 DEF Failure
<1>6. CASE Crash
  BY <1>6 DEF Crash, Fault
<1>7. CASE Expire
  BY <1>7 DEF Expire
<1>8. CASE UNCHANGED vars
  BY <1>1, <1>8 DEF vars, SomeoneArms, At
<1>9. QED
  BY <1>3, <1>4, <1>5, <1>6, <1>7, <1>8 DEF Next, Done

(* As long as no Redis command fails and the process lives, the session     *)
(* hash never stays without a TTL (session_store.py: hset, then expire).    *)
THEOREM SessionAlwaysExpires == Spec => []SessionExpires
<1>1. Init => SessionExpires
  BY DEF Init, SessionExpires
<1>2. QED BY <1>1, InitType, StepType, ExpiresStep, PTL DEF Spec

-----------------------------------------------------------------------------
(* The origins are the user's.                                              *)

IsNamed(i) == i # 0 => NamesOrigin(QuestionOf(i), OriginRequest)

(* The inductive invariant: an origin a request has read is named as well,  *)
(* and a request that has not arrived has no text that could name one.      *)
OriginInv ==
    /\ IsNamed(hash.origin)
    /\ \A r \in Request : IsNamed(seen[r].origin) /\ IsNamed(plan[r].origin)
    /\ \A r \in Request : outcome[r] = "none" => question[r] = NoQuestion

(* The origin the routing settles on is named by a text of the user.        *)
LEMMA RoutingNamed ==
    ASSUME TypeOK, NEW r \in Request, IsNamed(seen[r].origin)
    PROVE  IsNamed(FinalOrigin(r))
<1>1. \A i, last : IsNamed(OriginIn(i, last))
  BY DEF IsNamed, OriginIn, NamesOrigin, AsksOrigin
<1>2. \A origin, i : IsNamed(origin) => IsNamed(WithActiveOrigin(r, origin, i))
  BY DEF WithActiveOrigin
<1> HIDE DEF IsNamed
<1>3. IsNamed(NamedOrigin(r))
  BY <1>1, <1>2 DEF NamedOrigin
<1>4. QED BY <1>1, <1>2, <1>3 DEF FinalOrigin

(* Every step keeps the origins the user's.                                 *)
LEMMA OriginStep == TypeOK /\ OriginInv /\ [Next]_vars => OriginInv'
<1> SUFFICES ASSUME TypeOK, OriginInv, [Next]_vars PROVE OriginInv'
  OBVIOUS
<1>1. IsNamed(0) /\ NoHash.origin = 0 /\ NoPlan.origin = 0
  BY DEF IsNamed, NoHash, NoPlan
<1>2. ASSUME NEW r \in Request, UNCHANGED question,
             hash'.origin = hash.origin,
             \A q \in Request : \/ seen'[q].origin = seen[q].origin
                                \/ seen'[q].origin = 0
                                \/ seen'[q].origin = hash.origin,
             \A q \in Request : plan'[q].origin = plan[q].origin \/ plan'[q].origin = 0,
             \A q \in Request : outcome'[q] = "none" => outcome[q] = "none"
      PROVE  OriginInv'
  BY <1>1, <1>2 DEF OriginInv, IsNamed, QuestionOf
<1>3. ASSUME NEW r \in Request, NEW p \in Place, NEW q \in MaybeQuestion, Arrive(r, p, q)
      PROVE  OriginInv'
  <2>1. outcome[r] = "none" /\ question[r] = NoQuestion
    BY <1>3 DEF Arrive, Arrived, OriginInv
  <2>2. /\ question' = [question EXCEPT ![r] = q]
        /\ UNCHANGED <<hash, seen, plan>>
        /\ outcome'[r] # "none"
        /\ \A w \in Request : w # r => outcome'[w] = outcome[w]
    BY <1>3 DEF Arrive, store, Continue, TypeOK
  <2>3. \A i \in Text : IsNamed(i) => IsNamed(i)'
    <3> SUFFICES ASSUME NEW i \in Text, IsNamed(i), i # 0 PROVE IsNamed(i)'
      BY DEF IsNamed
    <3>1. i \in Request /\ i # r
      BY <2>1, BoundsAssumption DEF IsNamed, QuestionOf, NamesOrigin, Text, Request
    <3>2. question'[i] = question[i]
      BY <2>2, <3>1 DEF TypeOK
    <3>3. QED BY <3>1, <3>2 DEF IsNamed, QuestionOf
  <2>4. /\ hash.origin \in Text
        /\ \A w \in Request : seen[w].origin \in Text /\ plan[w].origin \in Text
    BY DEF TypeOK, Hash, Plan
  <2>5. IsNamed(hash.origin)'
    BY <2>2, <2>3, <2>4 DEF OriginInv
  <2>6. \A w \in Request : IsNamed(seen[w].origin)' /\ IsNamed(plan[w].origin)'
    BY <2>2, <2>3, <2>4 DEF OriginInv
  <2>7. \A w \in Request : outcome'[w] = "none" => question'[w] = NoQuestion
    BY <2>2 DEF OriginInv, TypeOK
  <2>8. QED BY <2>5, <2>6, <2>7 DEF OriginInv
<1>4. ASSUME NEW r \in Request, NEW rest, Continue(r, rest)
      PROVE  \A q \in Request : outcome'[q] = "none" => outcome[q] = "none"
  BY <1>4 DEF Continue, TypeOK
<1>5. ASSUME NEW r \in Request, NEW result \in {"failed", "unavailable"}, Abort(r, result)
      PROVE  /\ \A q \in Request : outcome'[q] = "none" => outcome[q] = "none"
             /\ \A q \in Request : seen'[q].origin = seen[q].origin \/ seen'[q].origin = 0
             /\ \A q \in Request : plan'[q].origin = plan[q].origin \/ plan'[q].origin = 0
  BY <1>1, <1>5 DEF Abort, TypeOK
<1>6. ASSUME NEW r \in Request, Step(r) PROVE OriginInv'
  <2>1. CASE ReadField(r)
    <3>1. FieldOf(r) \in ReadableField
      BY <2>1, GetField DEF ReadField
    <3>2. \A q \in Request : seen'[q].origin = seen[q].origin \/ seen'[q].origin = hash.origin
      <4>1. seen' = [seen EXCEPT ![r] = [seen[r] EXCEPT ![FieldOf(r)] = hash[FieldOf(r)]]]
        BY <2>1 DEF ReadField, TypeOK
      <4>2. seen'[r].origin = seen[r].origin \/ seen'[r].origin = hash.origin
        <5>1. seen'[r] = [seen[r] EXCEPT ![FieldOf(r)] = hash[FieldOf(r)]] /\ seen[r] \in Hash
          BY <4>1 DEF TypeOK
        <5>2. QED BY <3>1, <5>1 DEF Hash, ReadableField, Field
      <4>3. \A q \in Request : q # r => seen'[q] = seen[q]
        BY <4>1 DEF TypeOK
      <4>4. QED BY <4>2, <4>3
    <3>3. QED BY <1>2, <1>4, <2>1, <3>2 DEF ReadField, store, inputs
  <2>2. CASE SettleDestination(r)
    <3>1. \A q \in Request : seen'[q].origin = seen[q].origin
      <4>1. ViewAfterReset(r).origin = seen[r].origin
        BY DEF ViewAfterReset, TypeOK, Hash
      <4>2. QED BY <2>2, <4>1 DEF SettleDestination, TypeOK
    <3>2. \E rest : Continue(r, rest)
      BY <2>2 DEF SettleDestination
    <3>3. QED BY <1>2, <1>4, <2>2, <3>1, <3>2 DEF SettleDestination, store, inputs
  <2>3. ASSUME NEW mode \in Mode, RouteRequest(r, mode) PROVE OriginInv'
    <3>1. IsNamed(FinalOrigin(r))
      BY RoutingNamed DEF OriginInv
    <3>2. /\ UNCHANGED <<hash, question>> /\ seen' = [seen EXCEPT ![r] = NoHash]
          /\ \A q \in Request : plan'[q].origin = plan[q].origin
                                \/ (q = r /\ plan'[q].origin = FinalOrigin(r))
      <4> DEFINE new == [effective |-> EffectiveQuestion(r), origin |-> FinalOrigin(r),
                         path |-> PathOf(r, mode)]
      <4>1. new.origin = FinalOrigin(r) /\ plan' = [plan EXCEPT ![r] = new]
        BY <2>3 DEF RouteRequest
      <4> HIDE DEF new
      <4>2. \A q \in Request : plan'[q] = IF q = r THEN new ELSE plan[q]
        BY <4>1 DEF TypeOK
      <4>3. \A q \in Request : plan'[q].origin = plan[q].origin
                                \/ (q = r /\ plan'[q].origin = FinalOrigin(r))
        <5>1. \A q \in Request : q # r => plan'[q] = plan[q]
          BY <4>2
        <5>2. plan'[r] = new
          BY <4>2
        <5>3. plan'[r].origin = FinalOrigin(r)
          BY <4>1, <5>2
        <5>4. QED BY <5>1, <5>3
      <4>4. UNCHANGED <<hash, question>> /\ seen' = [seen EXCEPT ![r] = NoHash]
        BY <2>3 DEF RouteRequest, store, inputs
      <4>5. QED BY <4>3, <4>4
    <3>3. \A q \in Request : outcome'[q] = "none" => outcome[q] = "none"
      BY <1>4, <2>3 DEF RouteRequest
    <3>4. \A q \in Request : seen'[q].origin = seen[q].origin \/ seen'[q].origin = 0
      BY <1>1, <3>2 DEF TypeOK
    <3>5. QED BY <3>1, <3>2, <3>3, <3>4 DEF OriginInv, IsNamed, QuestionOf
  <2>4. CASE ConsultGate(r)
    BY <1>2, <1>4, <2>4 DEF ConsultGate, store, inputs
  <2>5. CASE AnswerRequest(r)
    BY <1>2, <1>4, <2>5 DEF AnswerRequest, store, inputs
  <2>6. CASE LoadTurns(r)
    BY <1>2, <1>4, <2>6 DEF LoadTurns, store, inputs
  <2>7. CASE SaveExchange(r)
    <3>1. ExchangeSaved(r).origin = hash.origin
      BY DEF ExchangeSaved, TypeOK, Hash
    <3>2. QED BY <1>2, <1>4, <2>7, <3>1 DEF SaveExchange, Keep, inputs
  <2>8. CASE WriteField(r)
    <3>1. FieldWritten(r).origin = hash.origin \/ FieldWritten(r).origin = plan[r].origin
      BY <2>8, SetField DEF WriteField, FieldWritten, TypeOK, Hash, WritableField
    <3>2. hash'.origin = hash.origin \/ hash'.origin = plan[r].origin
      BY <2>8, <3>1 DEF WriteField, Keep
    <3>3. \A q \in Request : outcome'[q] = "none" => outcome[q] = "none"
      BY <1>4, <2>8 DEF WriteField
    <3>4. QED BY <2>8, <3>2, <3>3 DEF WriteField, inputs, OriginInv, IsNamed, QuestionOf
  <2>9. CASE ClearField(r)
    <3>1. FieldCleared(r).origin = hash.origin
      BY <2>9, DelField DEF ClearField, FieldCleared, TypeOK, Hash, ClearableField
    <3>2. QED BY <1>2, <1>4, <2>9, <3>1 DEF ClearField, Keep, inputs
  <2>10. CASE ArmExpiry(r)
    BY <1>2, <1>4, <2>10 DEF ArmExpiry, inputs
  <2>11. QED
    BY <1>6, <2>1, <2>2, <2>3, <2>4, <2>5, <2>6, <2>7, <2>8, <2>9, <2>10 DEF Step
<1>7. ASSUME NEW r \in Request, Failure(r) PROVE OriginInv'
  <2>1. CASE RedisFails(r)
    BY <1>2, <1>5, <2>1 DEF RedisFails, store, inputs
  <2>2. CASE RedisRepeats(r) \/ RedisReplyLost(r)
    <3>1. hash'.origin = hash.origin \/ hash'.origin = plan[r].origin
      <4>1. ExchangeSaved(r).origin = hash.origin
        BY DEF ExchangeSaved, TypeOK, Hash
      <4>2. At(r, "set") => \/ FieldWritten(r).origin = hash.origin
                           \/ FieldWritten(r).origin = plan[r].origin
        BY SetField DEF FieldWritten, TypeOK, Hash, WritableField
      <4>3. At(r, "del") => FieldCleared(r).origin = hash.origin
        BY DelField DEF FieldCleared, TypeOK, Hash, ClearableField
      <4>4. QED
        BY <2>2, <4>1, <4>2, <4>3 DEF RedisRepeats, RedisReplyLost, Executed, Keep
    <3>2. UNCHANGED question
      BY <2>2 DEF RedisRepeats, RedisReplyLost, inputs
    <3>3. CASE RedisRepeats(r)
      BY <3>1, <3>2, <3>3 DEF RedisRepeats, OriginInv, IsNamed, QuestionOf
    <3>4. CASE RedisReplyLost(r)
      <4>1. Abort(r, "unavailable")
        BY <3>4 DEF RedisReplyLost
      <4>2. IsNamed(hash.origin)' /\ \A q \in Request : IsNamed(seen[q].origin)'
                                                      /\ IsNamed(plan[q].origin)'
        BY <1>1, <1>5, <3>1, <3>2, <4>1 DEF OriginInv, IsNamed, QuestionOf
      <4>3. QED BY <1>5, <3>2, <4>1, <4>2 DEF OriginInv
    <3>5. QED BY <2>2, <3>3, <3>4
  <2>3. CASE ModelFails(r)
    BY <1>2, <1>5, <2>3 DEF ModelFails, store, inputs
  <2>4. QED BY <1>7, <2>1, <2>2, <2>3 DEF Failure
<1>8. CASE Crash
  BY <1>1, <1>2, <1>8 DEF Crash, store, inputs, Running
<1>9. CASE Expire
  BY <1>1, <1>2, <1>9 DEF Expire, inputs, OriginInv, IsNamed, QuestionOf
<1>10. CASE UNCHANGED vars
  BY <1>10 DEF vars, OriginInv, IsNamed, QuestionOf
<1>11. QED
  BY <1>3, <1>6, <1>7, <1>8, <1>9, <1>10 DEF Next, Done

(* An origin the session or a request holds was named by a message of the   *)
(* user, through every race (agent_context.py: extract_request_origin,      *)
(* finalize_origin).                                                        *)
THEOREM OriginsComeFromTheUser == Spec => []OriginsAreNamedByTheUser
<1>1. Init => OriginInv
  BY DEF Init, OriginInv, IsNamed, NoHash, NoPlan
<1>2. OriginInv => OriginsAreNamedByTheUser
  BY DEF OriginInv, OriginsAreNamedByTheUser, IsNamed
<1>3. QED BY <1>1, <1>2, InitType, StepType, OriginStep, PTL DEF Spec

-----------------------------------------------------------------------------
(* The newest turn is the last exchange.                                    *)

(* A request first decides and then persists: it never goes back, and until *)
(* its reply is settled none of the stored or loaded turns is its own.      *)
DecideOp == ({"get"} \X ReadableField) \cup ({"set"} \X WritableField)
              \cup ({"del"} \X ClearableField)
              \cup ({"settle", "route", "gate", "answer", "expire"} \X {"-"})
PersistOp == ({"set"} \X WritableField) \cup ({"load", "save", "expire"} \X {"-"})

InSeq(q, s) == \E i \in 1 .. Len(s) : s[i] = q
Stored(q) == InSeq(q, hash.turns) \/ \E w \in Request : InSeq(q, history[w])
Undecided(q) == outcome[q] = "none" \/ todo[q] \notin Seq(PersistOp)

PhaseInv ==
    \A q \in Request :
        /\ todo[q] \in Seq(DecideOp) \cup Seq(PersistOp)
        /\ Undecided(q) => ~Stored(q)

(* The phase each of the lists of the code belongs to.                      *)
LEMMA PhaseOps ==
    /\ Preparation \in Seq(DecideOp)
    /\ ClearPending \in Seq(DecideOp)
    /\ Finalization \in Seq(PersistOp)
    /\ <<Local("route")>> \in Seq(DecideOp)
    /\ <<Local("expire")>> \in Seq(DecideOp) /\ <<Local("expire")>> \in Seq(PersistOp)
    /\ <<Set("origin")>> \in Seq(DecideOp) /\ <<Set("origin")>> \in Seq(PersistOp)
    /\ <<Set("ctx"), Set("pending")>> \in Seq(PersistOp)
    /\ \A r, text : Persist(r, text) \in Seq(PersistOp)
<1>1. Preparation \in Seq(DecideOp)
  BY SMT DEF Preparation, Get, Local, DecideOp, ReadableField, Field
<1>2. ClearPending \in Seq(DecideOp)
  BY DEF ClearPending, Del, DecideOp, ClearableField
<1>3. Finalization \in Seq(PersistOp) /\ <<Set("ctx"), Set("pending")>> \in Seq(PersistOp)
  BY DEF Finalization, Set, PersistOp, WritableField
<1>4. <<Local("route")>> \in Seq(DecideOp) /\ <<Local("expire")>> \in Seq(DecideOp)
  BY DEF Local, DecideOp
<1>5. <<Local("expire")>> \in Seq(PersistOp)
  BY DEF Local, PersistOp
<1>6. <<Set("origin")>> \in Seq(DecideOp) /\ <<Set("origin")>> \in Seq(PersistOp)
  BY DEF Set, DecideOp, PersistOp, WritableField
<1>7. \A r, text : Persist(r, text) \in Seq(PersistOp)
  <2>1. <<"load", "-">> \in PersistOp /\ <<"save", "-">> \in PersistOp
    BY DEF PersistOp
  <2>2. QED BY <2>1 DEF Persist, Local
<1>8. QED BY <1>1, <1>2, <1>3, <1>4, <1>5, <1>6, <1>7

(* Every path is one of the phases, also after it recorded the origin.      *)
LEMMA PathPhase ==
    ASSUME NEW r, NEW path \in Path,
           NEW record \in {<<>>, <<Set("origin")>>}
    PROVE  record \o PathOps(r, path) \in Seq(DecideOp) \cup Seq(PersistOp)
<1>1. record \in Seq(DecideOp) /\ record \in Seq(PersistOp)
  <2>1. <<>> \in Seq(DecideOp) /\ <<>> \in Seq(PersistOp)
    OBVIOUS
  <2>2. QED BY <2>1, PhaseOps
<1>2. CASE path = "reference"
  <2>1. PathOps(r, path) \in Seq(PersistOp)
    BY <1>2, PhaseOps, ConcatProperties DEF PathOps
  <2>2. QED BY <1>1, <2>1, ConcatProperties
<1>3. CASE path = "origin_request"
  <2>1. PathOps(r, path) \in Seq(PersistOp)
    BY <1>3, PhaseOps, ConcatProperties DEF PathOps
  <2>2. QED BY <1>1, <2>1, ConcatProperties
<1>4. CASE path \in {"followup", "journey", "broad"}
  <2>1. <<"answer", "-">> \in DecideOp /\ <<"gate", "-">> \in DecideOp
    BY DEF DecideOp
  <2>2. <<Local("answer")>> \in Seq(DecideOp)
        /\ <<Local("gate"), Local("answer")>> \in Seq(DecideOp)
    BY <2>1 DEF Local
  <2>3. PathOps(r, path) \in Seq(DecideOp)
    BY <1>4, <2>2, PhaseOps, ConcatProperties DEF PathOps
  <2>4. QED BY <1>1, <2>3, ConcatProperties
<1>5. QED BY <1>2, <1>3, <1>4 DEF Path

(* What is left of a phase is the phase.                                    *)
LEMMA TailPhase ==
    ASSUME PhaseInv, TypeOK, NEW r \in Request, NEW verb, At(r, verb)
    PROVE  /\ todo[r] \in Seq(DecideOp) => Tail(todo[r]) \in Seq(DecideOp)
           /\ todo[r] \in Seq(PersistOp) => Tail(todo[r]) \in Seq(PersistOp)
           /\ todo[r] \in Seq(DecideOp) => Head(todo[r]) \in DecideOp
           /\ todo[r] \in Seq(PersistOp) => Head(todo[r]) \in PersistOp
BY HeadTailProperties DEF At

(* The expire after a write belongs to the phase of its request.            *)
LEMMA ArmPhase ==
    ASSUME PhaseInv, TypeOK, NEW r \in Request, NEW verb, At(r, verb)
    PROVE  /\ todo[r] \in Seq(DecideOp) => ThenArm(r) \in Seq(DecideOp)
           /\ todo[r] \in Seq(PersistOp) => ThenArm(r) \in Seq(PersistOp)
BY TailPhase, PhaseOps, ConcatProperties DEF ThenArm

(* A request that still reads, routes or answers has not decided; one that  *)
(* loads or saves has.                                                      *)
LEMMA Deciding ==
    ASSUME PhaseInv, TypeOK, NEW r \in Request
    PROVE  /\ \A verb \in {"get", "settle", "route", "gate", "answer", "del"} :
                 At(r, verb) => todo[r] \notin Seq(PersistOp)
           /\ \A verb \in {"load", "save"} : At(r, verb) => todo[r] \in Seq(PersistOp)
<1>1. ASSUME NEW verb, At(r, verb), todo[r] \in Seq(PersistOp)
      PROVE  verb \in {"set", "load", "save", "expire"}
  BY <1>1, TailPhase, AtType DEF PersistOp
<1>2. ASSUME NEW verb, At(r, verb), todo[r] \in Seq(DecideOp)
      PROVE  verb \notin {"load", "save"}
  BY <1>2, TailPhase, AtType DEF DecideOp
<1>3. QED BY <1>1, <1>2 DEF PhaseInv

(* The stored turns only gain turns of requests that have decided.          *)
LEMMA PhaseKept ==
    ASSUME PhaseInv, TypeOK, NEW r \in Request, NEW rest, Continue(r, rest),
           rest \in Seq(DecideOp) \cup Seq(PersistOp),
           todo[r] \in Seq(PersistOp) => rest \in Seq(PersistOp),
           outcome[r] # "none",
           \A q \in Request : Stored(q)' => Stored(q) \/ (q = r /\ rest \in Seq(PersistOp))
    PROVE  PhaseInv'
<1>1. \A q \in Request : q # r => todo'[q] = todo[q] /\ outcome'[q] = outcome[q]
  BY DEF Continue, TypeOK
<1>2. todo'[r] = rest /\ outcome'[r] # "none"
  BY DEF Continue, TypeOK
<1>3. QED BY <1>1, <1>2 DEF PhaseInv, Undecided

(* Without a save or a load the stored turns stay, or are dropped.          *)
LEMMA StoredKept ==
    ASSUME TypeOK, hash'.turns \in {hash.turns, <<>>},
           \A w \in Request : history'[w] \in {history[w], <<>>}
    PROVE  \A q \in Request : Stored(q)' => Stored(q)
BY DEF Stored, InSeq

(* A turn mark_sent writes is its own, or was stored or loaded before.      *)
LEMMA SavedTurns ==
    ASSUME TypeOK, NEW r \in Request, NEW q \in Request,
           InSeq(q, ExchangeSaved(r).turns)
    PROVE  \/ q = r
           \/ InSeq(q, hash.turns)
           \/ InSeq(q, history[r])
<1>1. CASE HasExchange(r)
  <2>1. ExchangeSaved(r).turns = Trim(Append(history[r], r))
    BY <1>1 DEF ExchangeSaved, TurnsBefore, TypeOK, Hash
  <2>2. history[r] \in Seq(Request)
    BY DEF TypeOK
  <2> DEFINE t == Trim(Append(history[r], r))
  <2>3. \A i \in 1 .. Len(t) : t[i] = r \/ \E j \in 1 .. Len(history[r]) : t[i] = history[r][j]
    BY <2>2, TrimAppend
  <2>4. InSeq(q, t)
    BY <2>1
  <2> HIDE DEF t
  <2>5. PICK i \in 1 .. Len(t) : t[i] = q
    BY <2>4 DEF InSeq
  <2>6. QED BY <2>3, <2>5 DEF InSeq
<1>2. CASE ~HasExchange(r)
  BY <1>2 DEF ExchangeSaved, TypeOK, Hash
<1>3. QED BY <1>1, <1>2

(* A request that ends early, or a write whose reply is lost, too.          *)
LEMMA PhaseAborted ==
    ASSUME PhaseInv, TypeOK, NEW r \in Request, NEW result \in {"failed", "unavailable"},
           Abort(r, result),
           \A q \in Request : Stored(q)' => Stored(q) \/ q = r
    PROVE  PhaseInv'
<1>1. \A q \in Request : q # r => todo'[q] = todo[q] /\ outcome'[q] = outcome[q]
  BY DEF Abort, TypeOK
<1>2. todo'[r] = <<>> /\ outcome'[r] # "none"
  BY DEF Abort, TypeOK
<1>3. <<>> \in Seq(PersistOp)
  OBVIOUS
<1>4. QED BY <1>1, <1>2, <1>3 DEF PhaseInv, Undecided

(* Every step keeps a request in one of its phases.                         *)
LEMMA PhaseStep == TypeOK /\ PhaseInv /\ [Next]_vars => PhaseInv'
<1> SUFFICES ASSUME TypeOK, PhaseInv, [Next]_vars PROVE PhaseInv'
  OBVIOUS
<1> DEFINE Same == UNCHANGED hash /\ UNCHANGED history
<1>1. Same => \A q \in Request : Stored(q)' => Stored(q)
  BY DEF Stored, InSeq
<1>2. \A q \in Request : todo[q] \in Seq(DecideOp) \cup Seq(PersistOp)
  BY DEF PhaseInv
<1>3. ASSUME NEW r \in Request, NEW p \in Place, NEW q \in MaybeQuestion, Arrive(r, p, q)
      PROVE  PhaseInv'
  <2>1. outcome[r] = "none" /\ Same /\ Continue(r, Preparation)
    BY <1>3 DEF Arrive, Arrived, store
  <2>2. ~Stored(r)
    BY <2>1 DEF PhaseInv, Undecided
  <2>3. \A w \in Request : w # r => todo'[w] = todo[w] /\ outcome'[w] = outcome[w]
    BY <2>1 DEF Continue, TypeOK
  <2>4. todo'[r] = Preparation
    BY <2>1 DEF Continue, TypeOK
  <2>5. QED BY <1>1, <2>1, <2>2, <2>3, <2>4, PhaseOps DEF PhaseInv, Undecided
<1>4. ASSUME NEW r \in Request, NEW verb, At(r, verb), Continue(r, Tail(todo[r])), Same
      PROVE  PhaseInv'
  BY <1>1, <1>2, <1>4, TailPhase, PhaseKept DEF At
<1>5. ASSUME NEW r \in Request, NEW verb, At(r, verb), Continue(r, ThenArm(r)),
             \A q \in Request : Stored(q)' => Stored(q)
      PROVE  PhaseInv'
  BY <1>2, <1>5, ArmPhase, PhaseKept DEF At
<1>6. ASSUME NEW r \in Request, Step(r) PROVE PhaseInv'
  <2>1. CASE ReadField(r)
    BY <1>4, <2>1 DEF ReadField, store
  <2>2. CASE SettleDestination(r)
    <3>1. PICK rest \in {<<Local("route")>>, ClearPending \o <<Local("route")>>} :
                 Continue(r, rest)
      BY <2>2 DEF SettleDestination
    <3>2. rest \in Seq(DecideOp)
      BY <3>1, PhaseOps, ConcatProperties
    <3>3. todo[r] \notin Seq(PersistOp) /\ outcome[r] # "none" /\ Same
      BY <2>2, Deciding DEF SettleDestination, At, store
    <3>4. QED BY <1>1, <3>1, <3>2, <3>3, PhaseKept
  <2>3. ASSUME NEW mode \in Mode, RouteRequest(r, mode) PROVE PhaseInv'
    <3> DEFINE path == PathOf(r, mode)
               record == IF FinalOrigin(r) # 0 THEN <<Set("origin")>> ELSE <<>>
    <3>1. path \in Path /\ record \in {<<>>, <<Set("origin")>>}
      BY RoutingType
    <3>2. Continue(r, record \o PathOps(r, path))
      BY <2>3 DEF RouteRequest
    <3> HIDE DEF path, record
    <3>3. record \o PathOps(r, path) \in Seq(DecideOp) \cup Seq(PersistOp)
      BY <3>1, PathPhase
    <3>4. todo[r] \notin Seq(PersistOp) /\ outcome[r] # "none" /\ Same
      BY <2>3, Deciding DEF RouteRequest, At, store
    <3>5. QED BY <1>1, <3>2, <3>3, <3>4, PhaseKept
  <2>4. CASE ConsultGate(r)
    BY <1>4, <2>4 DEF ConsultGate, store
  <2>5. CASE AnswerRequest(r)
    <3>1. PICK text : Continue(r, Persist(r, text) \o Finalization)
      BY <2>5 DEF AnswerRequest
    <3>2. Persist(r, text) \o Finalization \in Seq(PersistOp)
      BY PhaseOps, ConcatProperties
    <3>3. outcome[r] # "none" /\ Same
      BY <2>5 DEF AnswerRequest, At, store
    <3>4. QED BY <1>1, <3>1, <3>2, <3>3, PhaseKept
  <2>6. CASE LoadTurns(r)
    <3>1. todo[r] \in Seq(PersistOp) /\ Tail(todo[r]) \in Seq(PersistOp) /\ outcome[r] # "none"
      BY <2>6, Deciding, TailPhase DEF LoadTurns, At
    <3>2. /\ hash' = hash
          /\ \A w \in Request : history'[w] \in {history[w], hash.turns}
      BY <2>6 DEF LoadTurns, store, TypeOK
    <3>3. \A q \in Request : Stored(q)' => Stored(q)
      BY <3>2 DEF Stored
    <3>4. Continue(r, Tail(todo[r]))
      BY <2>6 DEF LoadTurns
    <3>5. QED BY <3>1, <3>3, <3>4, PhaseKept
  <2>7. CASE SaveExchange(r)
    <3>1. todo[r] \in Seq(PersistOp) /\ ThenArm(r) \in Seq(PersistOp) /\ outcome[r] # "none"
      BY <2>7, Deciding, ArmPhase DEF SaveExchange, At
    <3>2. /\ hash' = ExchangeSaved(r) /\ Continue(r, ThenArm(r))
          /\ \A w \in Request : history'[w] \in {history[w], <<>>}
      BY <2>7 DEF SaveExchange, Keep, TypeOK
    <3>3. \A w \in Request, q \in Request : InSeq(q, history'[w]) => InSeq(q, history[w])
      BY <3>2 DEF InSeq
    <3>4. \A q \in Request : Stored(q)' => Stored(q) \/ q = r
      BY <3>2, <3>3, SavedTurns DEF Stored
    <3>5. QED BY <3>1, <3>2, <3>4, PhaseKept
  <2>8. CASE WriteField(r)
    <3>1. hash'.turns = hash.turns
      BY <2>8, SetField DEF WriteField, Keep, FieldWritten, TypeOK, Hash, WritableField
    <3>2. \A q \in Request : Stored(q)' => Stored(q)
      BY <2>8, <3>1, StoredKept DEF WriteField
    <3>3. QED BY <1>5, <2>8, <3>2 DEF WriteField
  <2>9. CASE ClearField(r)
    <3>1. hash'.turns = hash.turns
      BY <2>9, DelField DEF ClearField, Keep, FieldCleared, TypeOK, Hash, ClearableField
    <3>2. \A q \in Request : Stored(q)' => Stored(q)
      BY <2>9, <3>1, StoredKept DEF ClearField
    <3>3. todo[r] \notin Seq(PersistOp) /\ Tail(todo[r]) \in Seq(DecideOp) /\ outcome[r] # "none"
      BY <1>2, <2>9, Deciding, TailPhase DEF ClearField, At
    <3>4. QED BY <2>9, <3>2, <3>3, PhaseKept DEF ClearField
  <2>10. CASE ArmExpiry(r)
    <3>1. hash' = hash /\ history' = history
      BY <2>10 DEF ArmExpiry
    <3>2. \A q \in Request : Stored(q)' => Stored(q)
      BY <3>1, StoredKept
    <3>3. Continue(r, Tail(todo[r])) /\ outcome[r] # "none"
      BY <2>10 DEF ArmExpiry, At
    <3>4. /\ Tail(todo[r]) \in Seq(DecideOp) \cup Seq(PersistOp)
          /\ todo[r] \in Seq(PersistOp) => Tail(todo[r]) \in Seq(PersistOp)
      BY <1>2, <2>10, TailPhase DEF ArmExpiry
    <3>5. QED BY <3>2, <3>3, <3>4, PhaseKept
  <2>11. QED
    BY <1>6, <2>1, <2>2, <2>3, <2>4, <2>5, <2>6, <2>7, <2>8, <2>9, <2>10 DEF Step
<1>7. ASSUME NEW r \in Request, Failure(r) PROVE PhaseInv'
  <2>1. \/ \E result \in {"failed", "unavailable"} : Abort(r, result)
        \/ RedisRepeats(r)
    BY <1>7 DEF Failure, RedisFails, RedisReplyLost, ModelFails
  <2>2. \A w \in Request : history'[w] \in {history[w], <<>>}
    BY <2>1 DEF Abort, RedisRepeats, TypeOK
  <2>3. \/ hash' = ExchangeSaved(r) /\ (RedisRepeats(r) => At(r, "save"))
        \/ hash'.turns = hash.turns
    <3>1. CASE RedisFails(r) \/ ModelFails(r)
      BY <3>1 DEF RedisFails, ModelFails, store
    <3>2. CASE RedisRepeats(r) \/ RedisReplyLost(r)
      <4>1. At(r, "set") => FieldWritten(r).turns = hash.turns
        BY SetField DEF FieldWritten, TypeOK, Hash, WritableField
      <4>2. At(r, "del") => FieldCleared(r).turns = hash.turns
        BY DelField DEF FieldCleared, TypeOK, Hash, ClearableField
      <4>3. QED
        BY <3>2, <4>1, <4>2 DEF RedisRepeats, RedisReplyLost, Executed, Keep
    <3>3. QED BY <1>7, <3>1, <3>2 DEF Failure
  <2>4. \A q \in Request : Stored(q)' =>
            Stored(q) \/ (q = r /\ (RedisRepeats(r) => At(r, "save")))
    <3>1. CASE hash' = ExchangeSaved(r) /\ (RedisRepeats(r) => At(r, "save"))
      <4>1. \A q \in Request : InSeq(q, hash.turns)' => Stored(q) \/ q = r
        BY <3>1, SavedTurns DEF Stored
      <4>2. \A q, w \in Request : InSeq(q, history[w])' => Stored(q)
        BY <2>2 DEF Stored, InSeq
      <4>3. QED BY <3>1, <4>1, <4>2 DEF Stored
    <3>2. CASE hash'.turns = hash.turns
      BY <2>2, <3>2, StoredKept
    <3>3. QED BY <2>3, <3>1, <3>2
  <2>5. CASE RedisRepeats(r)
    <3>1. UNCHANGED <<todo, outcome>>
      BY <2>5 DEF RedisRepeats
    <3>2. At(r, "save") => ~Undecided(r)
      BY Deciding DEF Undecided, At
    <3>3. QED BY <2>4, <2>5, <3>1, <3>2 DEF PhaseInv, Undecided
  <2>6. QED BY <2>1, <2>4, <2>5, PhaseAborted
<1>8. CASE Crash
  <2>1. hash'.turns = hash.turns /\ \A w \in Request : history'[w] = <<>>
    BY <1>8 DEF Crash, store
  <2>2. \A q \in Request : Stored(q)' => Stored(q)
    BY <2>1, StoredKept
  <2>3. \A q \in Request : todo'[q] = <<>> /\ (outcome'[q] = "none" => outcome[q] = "none")
    BY <1>8 DEF Crash, Running
  <2>4. <<>> \in Seq(PersistOp)
    OBVIOUS
  <2>5. QED BY <2>2, <2>3, <2>4 DEF PhaseInv, Undecided
<1>9. CASE Expire
  <2>1. hash'.turns = <<>> /\ UNCHANGED <<history, todo, outcome>>
    BY <1>9 DEF Expire, NoHash
  <2>2. \A q \in Request : Stored(q)' => Stored(q)
    BY <2>1, StoredKept
  <2>3. QED BY <2>1, <2>2 DEF PhaseInv, Undecided
<1>10. CASE UNCHANGED vars
  BY <1>10 DEF vars, PhaseInv, Undecided, Stored, InSeq
<1>11. QED
  BY <1>3, <1>6, <1>7, <1>8, <1>9, <1>10 DEF Next, Done

(* A step that leaves the last exchange and the texts of the stored turns.  *)
LEMMA NewestKept ==
    ASSUME TypeOK, NewestTurnIsTheLastExchange,
           hash'.turns = hash.turns, hash'.user = hash.user, hash'.reply = hash.reply,
           \A q \in Request : InSeq(q, hash.turns) =>
                question'[q] = question[q] /\ reply'[q] = reply[q]
    PROVE  NewestTurnIsTheLastExchange'
<1> SUFFICES ASSUME hash.turns # <<>>
             PROVE  NewestTurnIsTheLastExchange'
  BY DEF NewestTurnIsTheLastExchange
<1> DEFINE newest == hash.turns[Len(hash.turns)]
<1>1. hash.turns \in Seq(Request)
  BY DEF TypeOK, Hash
<1>2. newest \in Request /\ InSeq(newest, hash.turns)
  BY <1>1, EmptySeq DEF InSeq
<1>3. question'[newest] = question[newest] /\ reply'[newest] = reply[newest]
  BY <1>2
<1>4. newest # 0
  BY <1>2, BoundsAssumption DEF Request
<1>5. QED BY <1>3, <1>4 DEF NewestTurnIsTheLastExchange, QuestionOf, ReplyOf

(* The save itself.                                                         *)
LEMMA NewestSaved ==
    ASSUME TypeOK, NewestTurnIsTheLastExchange, NEW r \in Request,
           hash' = ExchangeSaved(r), UNCHANGED <<question, reply>>
    PROVE  NewestTurnIsTheLastExchange'
<1>1. CASE HasExchange(r)
  <2> DEFINE t == Trim(Append(history[r], r))
  <2>1. t[Len(t)] = r
    BY TrimAppend DEF TypeOK
  <2> HIDE DEF t
  <2>2. /\ hash'.turns = t
        /\ question[r] # NoQuestion => hash'.user = r
        /\ reply[r] # NoReply => hash'.reply = r
    BY <1>1 DEF ExchangeSaved, TurnsBefore, TypeOK, Hash, t
  <2>3. r # 0
    BY BoundsAssumption DEF Request
  <2>4. QED BY <2>1, <2>2, <2>3 DEF NewestTurnIsTheLastExchange, QuestionOf, ReplyOf
<1>2. CASE ~HasExchange(r)
  <2>1. hash'.turns = hash.turns /\ hash'.user = hash.user /\ hash'.reply = hash.reply
    BY <1>2 DEF ExchangeSaved, HasExchange, TypeOK, Hash
  <2>2. QED BY <2>1, NewestKept
<1>3. QED BY <1>1, <1>2

(* Every step keeps the newest turn and the last exchange together.         *)
LEMMA NewestStep ==
    TypeOK /\ PhaseInv /\ NewestTurnIsTheLastExchange /\ [Next]_vars
        => NewestTurnIsTheLastExchange'
<1> SUFFICES ASSUME TypeOK, PhaseInv, NewestTurnIsTheLastExchange, [Next]_vars
             PROVE  NewestTurnIsTheLastExchange'
  OBVIOUS
<1> DEFINE Exchange(h) == <<h.turns, h.user, h.reply>>
<1>1. ASSUME UNCHANGED <<question, reply>>, Exchange(hash') = Exchange(hash)
      PROVE  NewestTurnIsTheLastExchange'
  BY <1>1, NewestKept
<1>2. ASSUME NEW r \in Request, UNCHANGED hash, Undecided(r),
             \A q \in Request : q # r => question'[q] = question[q] /\ reply'[q] = reply[q]
      PROVE  NewestTurnIsTheLastExchange'
  <2>1. ~InSeq(r, hash.turns)
    BY <1>2 DEF PhaseInv, Stored
  <2>2. QED BY <1>2, <2>1, NewestKept
<1>3. ASSUME NEW r \in Request
      PROVE  /\ At(r, "set") => Exchange(FieldWritten(r)) = Exchange(hash)
             /\ At(r, "del") => Exchange(FieldCleared(r)) = Exchange(hash)
  BY SetField, DelField
     DEF FieldWritten, FieldCleared, TypeOK, Hash, WritableField, ClearableField
<1> HIDE DEF Exchange
<1>4. ASSUME NEW r \in Request, NEW p \in Place, NEW q \in MaybeQuestion, Arrive(r, p, q)
      PROVE  NewestTurnIsTheLastExchange'
  BY <1>2, <1>4 DEF Arrive, Arrived, store, Undecided, TypeOK
<1>5. ASSUME NEW r \in Request, Step(r) PROVE NewestTurnIsTheLastExchange'
  <2>1. CASE \/ ReadField(r) \/ SettleDestination(r) \/ ConsultGate(r)
             \/ LoadTurns(r) \/ ArmExpiry(r)
    BY <1>1, <2>1
       DEF ReadField, SettleDestination, ConsultGate, LoadTurns, ArmExpiry, store, inputs
  <2>2. ASSUME NEW mode \in Mode, RouteRequest(r, mode) PROVE NewestTurnIsTheLastExchange'
    <3>1. Undecided(r)
      BY <2>2, Deciding DEF RouteRequest, Undecided
    <3>2. QED BY <1>2, <2>2, <3>1 DEF RouteRequest, store, inputs, TypeOK
  <2>3. CASE AnswerRequest(r)
    <3>1. Undecided(r)
      BY <2>3, Deciding DEF AnswerRequest, Undecided
    <3>2. QED BY <1>2, <2>3, <3>1 DEF AnswerRequest, store, inputs, TypeOK
  <2>4. CASE SaveExchange(r)
    BY <2>4, NewestSaved DEF SaveExchange, Keep, inputs
  <2>5. CASE WriteField(r)
    BY <1>1, <1>3, <2>5 DEF WriteField, Keep, inputs
  <2>6. CASE ClearField(r)
    BY <1>1, <1>3, <2>6 DEF ClearField, Keep, inputs
  <2>7. QED BY <1>5, <2>1, <2>2, <2>3, <2>4, <2>5, <2>6 DEF Step
<1>6. ASSUME NEW r \in Request, Failure(r) PROVE NewestTurnIsTheLastExchange'
  <2>1. UNCHANGED <<question, reply>>
    BY <1>6 DEF Failure, RedisFails, RedisRepeats, RedisReplyLost, ModelFails, inputs
  <2>2. \/ hash' = ExchangeSaved(r)
        \/ Exchange(hash') = Exchange(hash)
    BY <1>3, <1>6
       DEF Failure, RedisFails, RedisRepeats, RedisReplyLost, ModelFails, Executed, Keep, store
  <2>3. QED BY <1>1, <2>1, <2>2, NewestSaved
<1>7. CASE Crash
  BY <1>1, <1>7 DEF Crash, store, inputs
<1>8. CASE Expire
  BY <1>8 DEF Expire, NoHash, NewestTurnIsTheLastExchange
<1>9. CASE UNCHANGED vars
  BY <1>1, <1>9 DEF vars
<1>10. QED
  BY <1>4, <1>5, <1>6, <1>7, <1>8, <1>9 DEF Next, Done

(* The newest stored turn is the exchange the last_user_message and         *)
(* last_agent_reply fields hold (session_store.py: one hset in mark_sent).  *)
THEOREM NewestTurnIsCurrent == Spec => []NewestTurnIsTheLastExchange
<1>1. Init => PhaseInv
  <2>1. \A q : ~InSeq(q, <<>>)
    BY DEF InSeq
  <2>2. <<>> \in Seq(DecideOp)
    OBVIOUS
  <2>3. QED BY <2>1, <2>2 DEF Init, PhaseInv, Stored, NoHash
<1>2. Init => NewestTurnIsTheLastExchange
  BY DEF Init, NewestTurnIsTheLastExchange, NoHash
<1>3. QED BY <1>1, <1>2, InitType, StepType, PhaseStep, NewestStep, PTL DEF Spec

-----------------------------------------------------------------------------
(* The lists of commands a request goes through.                            *)

(* A list of commands that ends in the command end, and only ends in it.    *)
IsList(s, body, end) ==
    /\ s # <<>> /\ s[Len(s)] = end
    /\ \A i \in 1 .. Len(s) : i # Len(s) => s[i] \in body

ReadBody == {"get"} \X ReadableField
ClearBody == {Del("ctx"), Del("pending")}
AnswerBody == ClearBody \cup {Set("origin"), Local("expire"), Local("gate")}
PersistBody == {Set("origin"), Set("ctx"), Set("pending"),
                Local("load"), Local("save"), Local("expire")}

Reading(r) == IsList(todo[r], ReadBody, Local("settle"))
Clearing(r) == IsList(todo[r], ClearBody, Local("route"))
Answering(r) == IsList(todo[r], AnswerBody, Local("answer"))
Persisting(r) == IsList(todo[r], PersistBody, Set("dest"))
Closing(r) == todo[r] = <<Local("expire")>>
Has(r, op) == InSeq(op, todo[r])

(* Some commands only come before others, and a save right after its load.  *)
Disorder == {<<Get("ctx"), Get("dest")>>, <<Set("pending"), Set("ctx")>>,
             <<Del("pending"), Del("ctx")>>}
Ordered(s) == \A i, j \in 1 .. Len(s) : i < j => <<s[i], s[j]>> \notin Disorder
Adjacent(s) ==
    \A i \in 1 .. Len(s) : s[i] = Local("save") => i = 1 \/ s[i - 1] = Local("load")

(* What is left of a sequence.                                              *)
LEMMA TailElements ==
    ASSUME NEW s \in Seq(Op), s # <<>>
    PROVE  /\ Len(s) \in Nat \ {0} /\ Head(s) = s[1]
           /\ Tail(s) \in Seq(Op) /\ Len(Tail(s)) = Len(s) - 1
           /\ \A i \in 1 .. Len(Tail(s)) : i + 1 \in 1 .. Len(s) /\ Tail(s)[i] = s[i + 1]
           /\ \A i \in 1 .. Len(s) : i # 1 => i - 1 \in 1 .. Len(Tail(s)) /\ s[i] = Tail(s)[i - 1]
<1>1. Len(s) \in Nat \ {0} /\ Head(s) = s[1]
  BY EmptySeq
<1>2. Tail(s) \in Seq(Op) /\ Len(Tail(s)) = Len(s) - 1
  BY HeadTailProperties
<1>3. \A i \in 1 .. Len(Tail(s)) : i + 1 \in 1 .. Len(s) /\ Tail(s)[i] = s[i + 1]
  BY <1>1, <1>2, HeadTailProperties
<1>4. ASSUME NEW i \in 1 .. Len(s), i # 1
      PROVE  i - 1 \in 1 .. Len(Tail(s)) /\ s[i] = Tail(s)[i - 1]
  BY <1>1, <1>2, <1>3, <1>4
<1>5. QED BY <1>1, <1>2, <1>3, <1>4

(* What is left of a list after its first command is such a list.           *)
LEMMA TailList ==
    ASSUME NEW s \in Seq(Op), NEW body, NEW end, IsList(s, body, end), end \notin body
    PROVE  /\ Head(s) = end => Tail(s) = <<>> /\ Len(s) = 1
           /\ Head(s) # end => Head(s) \in body /\ IsList(Tail(s), body, end)
<1> DEFINE u == Tail(s)
<1>1. s # <<>> /\ s[Len(s)] = end /\ \A i \in 1 .. Len(s) : i # Len(s) => s[i] \in body
  BY DEF IsList
<1>2. /\ Len(s) \in Nat \ {0} /\ Head(s) = s[1]
      /\ u \in Seq(Op) /\ Len(u) = Len(s) - 1
      /\ \A i \in 1 .. Len(u) : i + 1 \in 1 .. Len(s) /\ u[i] = s[i + 1]
  BY <1>1, TailElements
<1> HIDE DEF u
<1>3. u = <<>> <=> Len(u) = 0
  BY <1>2, EmptySeq
<1>4. CASE Len(s) = 1
  BY <1>1, <1>2, <1>3, <1>4 DEF u
<1>5. CASE Len(s) # 1
  <2>1. Head(s) \in body /\ u # <<>>
    BY <1>1, <1>2, <1>3, <1>5
  <2>2. u[Len(u)] = end
    BY <1>1, <1>2, <1>5
  <2>3. ASSUME NEW i \in 1 .. Len(u), i # Len(u) PROVE u[i] \in body
    <3>1. i + 1 \in 1 .. Len(s) /\ i + 1 # Len(s) /\ u[i] = s[i + 1]
      BY <1>2, <2>3
    <3>2. QED BY <1>1, <3>1
  <2>4. IsList(u, body, end)
    BY <2>1, <2>2, <2>3 DEF IsList
  <2>5. QED BY <2>1, <2>4 DEF u
<1>6. QED BY <1>4, <1>5

(* ... it has the other commands of the list,                               *)
LEMMA TailHas ==
    ASSUME NEW s \in Seq(Op), s # <<>>, NEW op
    PROVE  /\ InSeq(op, Tail(s)) => InSeq(op, s)
           /\ InSeq(op, s) => op = Head(s) \/ InSeq(op, Tail(s))
<1> DEFINE u == Tail(s)
<1>1. /\ Head(s) = s[1]
      /\ \A i \in 1 .. Len(u) : i + 1 \in 1 .. Len(s) /\ u[i] = s[i + 1]
      /\ \A i \in 1 .. Len(s) : i # 1 => i - 1 \in 1 .. Len(u) /\ s[i] = u[i - 1]
  BY TailElements
<1> HIDE DEF u
<1>2. (InSeq(op, u) => InSeq(op, s)) /\ (InSeq(op, s) => op = Head(s) \/ InSeq(op, u))
  BY <1>1 DEF InSeq
<1>3. QED BY <1>2 DEF u

(* ... and they keep their order.                                           *)
LEMMA TailOrdered ==
    ASSUME NEW s \in Seq(Op), s # <<>>
    PROVE  /\ Ordered(s) => Ordered(Tail(s))
           /\ Ordered(s) => \A op : InSeq(op, Tail(s)) => <<Head(s), op>> \notin Disorder
           /\ Adjacent(s) => Adjacent(Tail(s))
           /\ Adjacent(s) /\ Tail(s) # <<>> /\ Tail(s)[1] = Local("save") => Head(s) = Local("load")
<1>1. ASSUME Ordered(s) PROVE Ordered(Tail(s))
  <2> SUFFICES ASSUME NEW i \in 1 .. Len(Tail(s)), NEW j \in 1 .. Len(Tail(s)), i < j
               PROVE  <<Tail(s)[i], Tail(s)[j]>> \notin Disorder
    BY DEF Ordered
  <2>1. i + 1 \in 1 .. Len(s) /\ j + 1 \in 1 .. Len(s) /\ i + 1 < j + 1
    BY TailElements
  <2>2. Tail(s)[i] = s[i + 1] /\ Tail(s)[j] = s[j + 1]
    BY TailElements
  <2>3. QED BY <1>1, <2>1, <2>2 DEF Ordered
<1>2. ASSUME Ordered(s), NEW op, InSeq(op, Tail(s)) PROVE <<Head(s), op>> \notin Disorder
  <2>1. PICK i \in 1 .. Len(Tail(s)) : Tail(s)[i] = op
    BY <1>2 DEF InSeq
  <2>2. 1 \in 1 .. Len(s) /\ i + 1 \in 1 .. Len(s) /\ 1 < i + 1 /\ s[i + 1] = op /\ s[1] = Head(s)
    BY <2>1, TailElements
  <2>3. QED BY <1>2, <2>2 DEF Ordered
<1>3. ASSUME Adjacent(s) PROVE Adjacent(Tail(s))
  <2> SUFFICES ASSUME NEW i \in 1 .. Len(Tail(s)), Tail(s)[i] = Local("save"), i # 1
               PROVE  Tail(s)[i - 1] = Local("load")
    BY DEF Adjacent
  <2>1. i + 1 \in 1 .. Len(s) /\ s[i + 1] = Local("save") /\ i + 1 # 1 /\ (i + 1) - 1 = i
    BY TailElements
  <2>2. s[i] = Local("load")
    BY <1>3, <2>1 DEF Adjacent
  <2>3. i \in 1 .. Len(s)
    BY <2>1, TailElements
  <2>4. QED BY <2>2, <2>3, TailElements
<1>4. ASSUME Adjacent(s), Tail(s) # <<>>, Tail(s)[1] = Local("save") PROVE Head(s) = Local("load")
  <2>1. 1 \in 1 .. Len(Tail(s))
    BY <1>4, TailElements, EmptySeq
  <2>2. 2 \in 1 .. Len(s) /\ s[2] = Local("save") /\ 2 # 1 /\ 2 - 1 = 1
    BY <1>4, <2>1, TailElements
  <2>3. s[1] = Local("load")
    BY <1>4, <2>2 DEF Adjacent
  <2>4. QED BY <2>3, TailElements
<1>5. QED BY <1>1, <1>2, <1>3, <1>4

(* A command put in front of a list.                                        *)
LEMMA ConsElements ==
    ASSUME NEW s \in Seq(Op), NEW op \in Op
    PROVE  LET t == <<op>> \o s
           IN  /\ t \in Seq(Op) /\ t # <<>> /\ Len(t) = Len(s) + 1 /\ t[1] = op
               /\ Head(t) = op /\ Tail(t) = s
               /\ \A i \in 1 .. Len(t) : i # 1 => i - 1 \in 1 .. Len(s) /\ t[i] = s[i - 1]
               /\ \A i \in 1 .. Len(s) : i + 1 \in 1 .. Len(t) /\ t[i + 1] = s[i]
OBVIOUS

(* A list with a command in front is such a list.                           *)
LEMMA ConsList ==
    ASSUME NEW s \in Seq(Op), NEW op \in Op, NEW body, NEW end, IsList(s, body, end), op \in body
    PROVE  IsList(<<op>> \o s, body, end)
<1> DEFINE t == <<op>> \o s
<1>1. /\ t \in Seq(Op) /\ t # <<>> /\ Len(t) = Len(s) + 1 /\ t[1] = op
      /\ \A i \in 1 .. Len(t) : i # 1 => i - 1 \in 1 .. Len(s) /\ t[i] = s[i - 1]
      /\ Len(s) \in Nat
  BY ConsElements
<1> HIDE DEF t
<1>2. Len(s) # 0
  BY EmptySeq DEF IsList
<1>3. t[Len(t)] = end
  BY <1>1, <1>2 DEF IsList
<1>4. ASSUME NEW i \in 1 .. Len(t), i # Len(t) PROVE t[i] \in body
  BY <1>1, <1>4 DEF IsList
<1>5. IsList(t, body, end)
  BY <1>1, <1>3, <1>4 DEF IsList
<1>6. QED BY <1>5 DEF t

(* ... it has one command more,                                             *)
LEMMA ConsHas ==
    ASSUME NEW s \in Seq(Op), NEW op \in Op, NEW other
    PROVE  InSeq(other, <<op>> \o s) <=> other = op \/ InSeq(other, s)
<1> DEFINE t == <<op>> \o s
<1>1. /\ t \in Seq(Op) /\ t # <<>> /\ Head(t) = op /\ Tail(t) = s /\ t[1] = op /\ Len(t) = Len(s) + 1
  BY ConsElements
<1> HIDE DEF t
<1>2. InSeq(other, t) => other = op \/ InSeq(other, s)
  BY <1>1, TailHas
<1>3. other = op \/ InSeq(other, s) => InSeq(other, t)
  <2>1. 1 \in 1 .. Len(t)
    BY <1>1
  <2>2. QED BY <1>1, <2>1, TailHas DEF InSeq
<1>4. QED BY <1>2, <1>3 DEF t

(* ... and keeps its order if that command may come first.                  *)
LEMMA ConsOrdered ==
    ASSUME NEW s \in Seq(Op), NEW op \in Op
    PROVE  /\ Ordered(s) /\ (\A other : InSeq(other, s) => <<op, other>> \notin Disorder)
                => Ordered(<<op>> \o s)
           /\ Adjacent(s) /\ (s = <<>> \/ s[1] # Local("save") \/ op = Local("load"))
                => Adjacent(<<op>> \o s)
<1> DEFINE t == <<op>> \o s
<1>1. /\ t \in Seq(Op) /\ Len(t) = Len(s) + 1 /\ t[1] = op /\ Len(s) \in Nat
      /\ \A i \in 1 .. Len(t) : i # 1 => i - 1 \in 1 .. Len(s) /\ t[i] = s[i - 1]
  BY ConsElements
<1> HIDE DEF t
<1>2. ASSUME Ordered(s), \A other : InSeq(other, s) => <<op, other>> \notin Disorder
      PROVE  Ordered(t)
  <2> SUFFICES ASSUME NEW i \in 1 .. Len(t), NEW j \in 1 .. Len(t), i < j
               PROVE  <<t[i], t[j]>> \notin Disorder
    BY DEF Ordered
  <2>1. j # 1 /\ j - 1 \in 1 .. Len(s) /\ t[j] = s[j - 1]
    BY <1>1
  <2>2. CASE i = 1
    BY <1>1, <1>2, <2>1, <2>2 DEF InSeq
  <2>3. CASE i # 1
    <3>1. i - 1 \in 1 .. Len(s) /\ i - 1 < j - 1 /\ t[i] = s[i - 1]
      BY <1>1, <2>3
    <3>2. QED BY <1>2, <2>1, <3>1 DEF Ordered
  <2>4. QED BY <2>2, <2>3
<1>3. ASSUME Adjacent(s), s = <<>> \/ s[1] # Local("save") \/ op = Local("load")
      PROVE  Adjacent(t)
  <2> SUFFICES ASSUME NEW i \in 1 .. Len(t), t[i] = Local("save"), i # 1
               PROVE  t[i - 1] = Local("load")
    BY DEF Adjacent
  <2>1. i - 1 \in 1 .. Len(s) /\ s[i - 1] = Local("save") /\ i - 1 \in 1 .. Len(t)
    BY <1>1
  <2>2. CASE i - 1 = 1
    <3>1. s # <<>>
      BY <2>1
    <3>2. QED BY <1>1, <1>3, <2>1, <2>2, <3>1
  <2>3. CASE i - 1 # 1
    <3>1. s[(i - 1) - 1] = Local("load")
      BY <1>3, <2>1, <2>3 DEF Adjacent
    <3>2. t[i - 1] = s[(i - 1) - 1]
      BY <1>1, <2>1, <2>3
    <3>3. QED BY <3>1, <3>2
  <2>4. QED BY <2>2, <2>3
<1>4. QED BY <1>2, <1>3 DEF t

(* A list with one command, and what the lists of the code consist of.      *)
LEMMA SingleList ==
    ASSUME NEW op \in Op
    PROVE  /\ <<op>> \in Seq(Op) /\ <<op>> # <<>> /\ <<op>>[1] = op
           /\ \A body : IsList(<<op>>, body, op)
           /\ Ordered(<<op>>) /\ Adjacent(<<op>>)
           /\ \A other : InSeq(other, <<op>>) <=> other = op
BY DEF IsList, Ordered, Adjacent, InSeq

(* The commands that occur in the lists are commands.                       *)
LEMMA Commands ==
    /\ {Get(f) : f \in ReadableField} \subseteq Op
    /\ {Set("origin"), Set("ctx"), Set("pending"), Set("dest")} \subseteq Op
    /\ {Del("ctx"), Del("pending")} \subseteq Op
    /\ {Local("settle"), Local("route"), Local("load"), Local("save"), Local("expire"),
        Local("gate"), Local("answer")} \subseteq Op
BY DEF Get, Set, Del, Local, Op, WritableField, ClearableField, OtherVerb

(* The reads before the routing.                                            *)
LEMMA PreparationList ==
    /\ IsList(Preparation, ReadBody, Local("settle"))
    /\ Ordered(Preparation) /\ Adjacent(Preparation)
    /\ \A f \in ReadableField : InSeq(Get(f), Preparation)
<1> DEFINE s == Preparation
<1>1. /\ s # <<>> /\ Len(s) = 8
      /\ s[1] = Get("user") /\ s[2] = Get("reply") /\ s[3] = Get("turns") /\ s[4] = Get("dest")
      /\ s[5] = Get("origin") /\ s[6] = Get("ctx") /\ s[7] = Get("pending") /\ s[8] = Local("settle")
  BY DEF Preparation
<1> HIDE DEF s
<1>2. ReadableField = {"user", "reply", "turns", "dest", "origin", "ctx", "pending"}
  BY DEF ReadableField, Field
<1>3. IsList(s, ReadBody, Local("settle"))
  <2>1. \A f \in ReadableField : Get(f) \in ReadBody
    BY DEF Get, ReadBody
  <2>2. QED BY <1>1, <1>2, <2>1 DEF IsList
<1>4. Ordered(s)
  BY <1>1 DEF Ordered, Disorder, Get, Set, Del, Local
<1>5. Adjacent(s)
  BY <1>1 DEF Adjacent, Get, Local
<1>6. \A f \in ReadableField : InSeq(Get(f), s)
  BY <1>1, <1>2 DEF InSeq
<1>7. QED BY <1>3, <1>4, <1>5, <1>6 DEF s

(* ClearPending, before the routing or before the answer.                   *)
LEMMA ClearList ==
    ASSUME NEW end \in {Local("route"), Local("answer")}
    PROVE  LET s == ClearPending \o <<end>>
           IN  /\ s \in Seq(Op) /\ IsList(s, ClearBody, end) /\ s[1] # Local("save")
               /\ Ordered(s) /\ Adjacent(s)
               /\ InSeq(Del("ctx"), s) /\ InSeq(Del("pending"), s)
<1> DEFINE s == ClearPending \o <<end>>
<1>1. /\ s \in Seq(Op) /\ s # <<>> /\ Len(s) = 3
      /\ s[1] = Del("ctx") /\ s[2] = Del("pending") /\ s[3] = end
  <2>1. <<end>> \in Seq(Op)
    BY Commands
  <2>2. QED BY <2>1, ClearPendingType DEF ClearPending
<1> HIDE DEF s
<1>2. IsList(s, ClearBody, end)
  BY <1>1 DEF IsList, ClearBody
<1>3. Ordered(s)
  BY <1>1 DEF Ordered, Disorder, Get, Set, Del, Local
<1>4. Adjacent(s) /\ s[1] # Local("save")
  BY <1>1 DEF Adjacent, Del, Local
<1>5. InSeq(Del("ctx"), s) /\ InSeq(Del("pending"), s)
  BY <1>1 DEF InSeq
<1>6. QED BY <1>1, <1>2, <1>3, <1>4, <1>5 DEF s

(* Persist and the finalisation.                                            *)
LEMMA PersistList ==
    ASSUME NEW r, NEW text
    PROVE  LET s == Persist(r, text) \o Finalization
           IN  /\ s \in Seq(Op) /\ IsList(s, PersistBody, Set("dest"))
               /\ Ordered(s) /\ Adjacent(s)
               /\ InSeq(Local("save"), s)
               /\ s[1] = Local("save") => question[r] = NoQuestion /\ text = NoReply
               /\ s[1] \in {Local("save"), Local("load")}
               /\ \A op : InSeq(op, s) => op \in {Local("load"), Local("save"), Set("dest")}
<1> DEFINE s == Persist(r, text) \o Finalization
<1>1. s \in Seq(Op)
  BY PersistType, FinalizationType, ConcatProperties
<1>2. \/ /\ question[r] = NoQuestion /\ text = NoReply
         /\ Len(s) = 2 /\ s[1] = Local("save") /\ s[2] = Set("dest")
      \/ Len(s) = 3 /\ s[1] = Local("load") /\ s[2] = Local("save") /\ s[3] = Set("dest")
  BY DEF Persist, Finalization
<1> HIDE DEF s
<1>3. s # <<>>
  BY <1>2
<1>4. IsList(s, PersistBody, Set("dest"))
  BY <1>2, <1>3 DEF IsList, PersistBody
<1>5. Ordered(s)
  BY <1>2 DEF Ordered, Disorder, Get, Set, Del, Local
<1>6. Adjacent(s)
  BY <1>2 DEF Adjacent, Set, Local
<1>7. /\ InSeq(Local("save"), s)
      /\ \A op : InSeq(op, s) => op \in {Local("load"), Local("save"), Set("dest")}
  BY <1>2 DEF InSeq
<1>8. s[1] \in {Local("save"), Local("load")} /\ (s[1] = Local("save") => question[r] = NoQuestion /\ text = NoReply)
  BY <1>2 DEF Local
<1>9. QED BY <1>1, <1>4, <1>5, <1>6, <1>7, <1>8 DEF s

(* What a routed request goes on with: an answering list or a persisting    *)
(* one, that may record the origin first.                                   *)
AnswerList(s) ==
    /\ IsList(s, AnswerBody, Local("answer"))
    /\ ~InSeq(Set("pending"), s) /\ ~InSeq(Set("ctx"), s)
    /\ InSeq(Del("pending"), s) <=> InSeq(Del("ctx"), s)
SaveList(s) ==
    /\ IsList(s, PersistBody, Set("dest"))
    /\ InSeq(Local("save"), s)
    /\ InSeq(Set("pending"), s) <=> InSeq(Set("ctx"), s)
    /\ ~InSeq(Del("pending"), s) /\ ~InSeq(Del("ctx"), s)
Arranged(s) ==
    /\ s \in Seq(Op) /\ Ordered(s) /\ Adjacent(s)
    /\ s # <<>> /\ s[1] # Local("save")

(* What each path goes on with.                                             *)
LEMMA PathLists ==
    ASSUME NEW r, NEW path \in Path
    PROVE  LET s == PathOps(r, path)
           IN  /\ Arranged(s)
               /\ path \in {"followup", "journey", "broad"} => AnswerList(s)
               /\ path \in {"reference", "origin_request"} => SaveList(s)
               /\ path = "origin_request" => InSeq(Set("ctx"), s)
<1> DEFINE s == PathOps(r, path)
<1>1. s \in Seq(Op)
  BY PathOpsType
<1>2. \A text \in FixedReply : Persist(r, text) = <<Local("load"), Local("save")>>
  BY ReplyAssumption DEF Persist, FixedReply, Reply
<1>0. \A a, b, c, d, e : LET t == (<<a, b>> \o <<c, d>>) \o <<e>>
                         IN  Len(t) = 5 /\ t[1] = a /\ t[2] = b /\ t[3] = c /\ t[4] = d /\ t[5] = e
  OBVIOUS
<1>3. CASE path = "reference"
  <2>1. /\ Len(s) = 5 /\ s[1] = Local("load") /\ s[2] = Local("save")
        /\ s[3] = Local("load") /\ s[4] = Local("save") /\ s[5] = Set("dest")
    <3>1. s = (<<Local("load"), Local("save")>> \o <<Local("load"), Local("save")>>) \o <<Set("dest")>>
      BY <1>2, <1>3 DEF PathOps, Finalization, FixedReply
    <3>2. QED BY <1>0, <3>1
  <2> HIDE DEF s
  <2>2. s # <<>>
    BY <2>1
  <2>3. Ordered(s) /\ Adjacent(s) /\ s[1] # Local("save")
    BY <2>1 DEF Ordered, Adjacent, Disorder, Get, Set, Del, Local
  <2>4. /\ InSeq(Local("save"), s)
        /\ \A op : InSeq(op, s) => op \in {Local("load"), Local("save"), Set("dest")}
    BY <2>1 DEF InSeq
  <2>5. /\ ~InSeq(Set("pending"), s) /\ ~InSeq(Set("ctx"), s)
        /\ ~InSeq(Del("pending"), s) /\ ~InSeq(Del("ctx"), s)
    BY <2>4 DEF Set, Del, Local
  <2>6. IsList(s, PersistBody, Set("dest"))
    BY <2>1, <2>2 DEF IsList, PersistBody
  <2>7. Arranged(s) /\ SaveList(s)
    BY <1>1, <2>2, <2>3, <2>4, <2>5, <2>6 DEF Arranged, SaveList
  <2>8. QED BY <1>3, <2>7 DEF s
<1>4. CASE path = "origin_request"
  <2>1. /\ Len(s) = 5 /\ s[1] = Set("ctx") /\ s[2] = Set("pending")
        /\ s[3] = Local("load") /\ s[4] = Local("save") /\ s[5] = Set("dest")
    <3>1. s = (<<Set("ctx"), Set("pending")>> \o <<Local("load"), Local("save")>>) \o <<Set("dest")>>
      BY <1>2, <1>4 DEF PathOps, Finalization, FixedReply
    <3>2. QED BY <1>0, <3>1
  <2> HIDE DEF s
  <2>2. s # <<>>
    BY <2>1
  <2>3. Ordered(s) /\ Adjacent(s) /\ s[1] # Local("save")
    BY <2>1 DEF Ordered, Adjacent, Disorder, Get, Set, Del, Local
  <2>4. /\ InSeq(Local("save"), s) /\ InSeq(Set("ctx"), s) /\ InSeq(Set("pending"), s)
        /\ \A op : InSeq(op, s) => op \in {Set("ctx"), Set("pending"), Local("load"),
                                           Local("save"), Set("dest")}
    BY <2>1 DEF InSeq
  <2>5. ~InSeq(Del("pending"), s) /\ ~InSeq(Del("ctx"), s)
    BY <2>4 DEF Set, Del, Local
  <2>6. IsList(s, PersistBody, Set("dest"))
    BY <2>1, <2>2 DEF IsList, PersistBody
  <2>7. Arranged(s) /\ SaveList(s)
    BY <1>1, <2>2, <2>3, <2>4, <2>5, <2>6 DEF Arranged, SaveList
  <2>8. QED BY <1>4, <2>4, <2>7 DEF s
<1>5. CASE path \in {"followup", "broad"}
  <2>1. \/ Len(s) = 1 /\ s[1] = Local("answer")
        \/ Len(s) = 2 /\ s[1] = Local("gate") /\ s[2] = Local("answer")
    BY <1>5 DEF PathOps
  <2> HIDE DEF s
  <2>2. s # <<>>
    BY <2>1
  <2>3. Ordered(s) /\ Adjacent(s) /\ s[1] # Local("save")
    BY <2>1 DEF Ordered, Adjacent, Disorder, Get, Set, Del, Local
  <2>4. \A op : InSeq(op, s) => op \in {Local("gate"), Local("answer")}
    <3>1. \A i \in 1 .. Len(s) : s[i] \in {Local("gate"), Local("answer")}
      BY <2>1
    <3>2. QED BY <3>1 DEF InSeq
  <2>5. /\ ~InSeq(Set("pending"), s) /\ ~InSeq(Set("ctx"), s)
        /\ ~InSeq(Del("pending"), s) /\ ~InSeq(Del("ctx"), s)
    <3>1. {Set("pending"), Set("ctx"), Del("pending"), Del("ctx")} \cap {Local("gate"), Local("answer")} = {}
      BY DEF Set, Del, Local
    <3>2. QED BY <2>4, <3>1
  <2>6. IsList(s, AnswerBody, Local("answer"))
    <3>1. Local("gate") \in AnswerBody
      BY DEF AnswerBody
    <3>2. CASE Len(s) = 1
      BY <2>1, <2>2, <3>2 DEF IsList
    <3>3. CASE Len(s) = 2
      BY <2>1, <2>2, <3>1, <3>3 DEF IsList
    <3>4. QED BY <2>1, <3>2, <3>3
  <2>7. Arranged(s) /\ AnswerList(s)
    BY <1>1, <2>2, <2>3, <2>4, <2>5, <2>6 DEF Arranged, AnswerList
  <2>8. QED BY <1>5, <2>7 DEF s
<1>6. CASE path = "journey"
  <2>1. /\ Len(s) = 3 /\ s[1] = Del("ctx") /\ s[2] = Del("pending") /\ s[3] = Local("answer")
    BY <1>6 DEF PathOps, ClearPending
  <2> HIDE DEF s
  <2>2. s # <<>>
    BY <2>1
  <2>3. Ordered(s) /\ Adjacent(s) /\ s[1] # Local("save")
    BY <2>1 DEF Ordered, Adjacent, Disorder, Get, Set, Del, Local
  <2>4. /\ InSeq(Del("ctx"), s) /\ InSeq(Del("pending"), s)
        /\ \A op : InSeq(op, s) => op \in {Del("ctx"), Del("pending"), Local("answer")}
    BY <2>1 DEF InSeq
  <2>5. ~InSeq(Set("pending"), s) /\ ~InSeq(Set("ctx"), s)
    BY <2>4 DEF Set, Del, Local
  <2>6. IsList(s, AnswerBody, Local("answer"))
    BY <2>1, <2>2 DEF IsList, AnswerBody, ClearBody
  <2>7. Arranged(s) /\ AnswerList(s)
    BY <1>1, <2>2, <2>3, <2>4, <2>5, <2>6 DEF Arranged, AnswerList
  <2>8. QED BY <1>6, <2>7 DEF s
<1>7. QED BY <1>3, <1>4, <1>5, <1>6 DEF Path

(* ... also when it records the origin first.                               *)
LEMMA RoutedLists ==
    ASSUME NEW r, NEW path \in Path, NEW record \in {<<>>, <<Set("origin")>>}
    PROVE  LET s == record \o PathOps(r, path)
           IN  /\ Arranged(s)
               /\ path \in {"followup", "journey", "broad"} => AnswerList(s)
               /\ path \in {"reference", "origin_request"} => SaveList(s)
               /\ path = "origin_request" => InSeq(Set("ctx"), s)
<1> DEFINE t == PathOps(r, path)
           s == <<Set("origin")>> \o t
<1>1. /\ Arranged(t)
      /\ path \in {"followup", "journey", "broad"} => AnswerList(t)
      /\ path \in {"reference", "origin_request"} => SaveList(t)
      /\ path = "origin_request" => InSeq(Set("ctx"), t)
  BY PathLists
<1> HIDE DEF t
<1>2. t \in Seq(Op) /\ Set("origin") \in Op
  BY <1>1, Commands DEF Arranged
<1>3. s \in Seq(Op) /\ s # <<>> /\ s[1] = Set("origin")
  BY <1>2, ConsElements
<1>4. \A op : InSeq(op, s) <=> op = Set("origin") \/ InSeq(op, t)
  BY <1>2, ConsHas
<1>5. \A op : <<Set("origin"), op>> \notin Disorder
  BY DEF Disorder, Get, Set, Del
<1>6. Ordered(s) /\ Adjacent(s)
  BY <1>1, <1>2, <1>5, ConsOrdered DEF Arranged
<1>7. /\ IsList(t, AnswerBody, Local("answer")) => IsList(s, AnswerBody, Local("answer"))
      /\ IsList(t, PersistBody, Set("dest")) => IsList(s, PersistBody, Set("dest"))
  BY <1>2, ConsList DEF AnswerBody, PersistBody
<1>8. /\ Set("origin") # Local("save")
      /\ Set("origin") \notin {Set("pending"), Set("ctx"), Del("pending"), Del("ctx")}
  BY DEF Set, Local, Del
<1> HIDE DEF s
<1>9. Arranged(s)
  BY <1>3, <1>6, <1>8 DEF Arranged
<1>10. AnswerList(t) => AnswerList(s)
  BY <1>4, <1>7, <1>8 DEF AnswerList
<1>11. SaveList(t) => SaveList(s)
  BY <1>4, <1>7, <1>8 DEF SaveList
<1>12. InSeq(Set("ctx"), t) => InSeq(Set("ctx"), s)
  BY <1>4
<1>13. <<>> \o t = t
  BY <1>2
<1>14. record \o PathOps(r, path) \in {s, t}
  BY <1>13 DEF s, t
<1>15. QED BY <1>1, <1>9, <1>10, <1>11, <1>12, <1>14

-----------------------------------------------------------------------------
(* Where a request is in its list.                                          *)

InPhase(s) ==
    \/ IsList(s, ReadBody, Local("settle")) \/ IsList(s, ClearBody, Local("route"))
    \/ IsList(s, AnswerBody, Local("answer")) \/ IsList(s, PersistBody, Set("dest"))
    \/ s = <<Local("expire")>>

(* A running request is in one of its phases, the others have nothing to do.*)
ListInv ==
    \A r \in Request :
        /\ outcome[r] # "running" => todo[r] = <<>>
        /\ outcome[r] = "running" => InPhase(todo[r])
        /\ Ordered(todo[r]) /\ Adjacent(todo[r])

(* No commands are in order.                                                *)
LEMMA EmptyList == Ordered(<<>>) /\ Adjacent(<<>>) /\ <<>> \in Seq(Op) /\ \A op : ~InSeq(op, <<>>)
BY DEF Ordered, Adjacent, InSeq

(* The phases end differently.                                              *)
LEMMA OnePhase ==
    ASSUME NEW r
    PROVE  /\ Reading(r) => ~Clearing(r) /\ ~Answering(r) /\ ~Persisting(r) /\ ~Closing(r)
           /\ Clearing(r) => ~Answering(r) /\ ~Persisting(r) /\ ~Closing(r)
           /\ Answering(r) => ~Persisting(r) /\ ~Closing(r)
           /\ Persisting(r) => ~Closing(r)
<1> DEFINE last == todo[r][Len(todo[r])]
<1>1. /\ Reading(r) => last = Local("settle")
      /\ Clearing(r) => last = Local("route")
      /\ Answering(r) => last = Local("answer")
      /\ Persisting(r) => last = Set("dest")
      /\ Closing(r) => last = Local("expire")
  BY DEF Reading, Clearing, Answering, Persisting, Closing, IsList
<1> HIDE DEF last
<1>2. QED BY <1>1 DEF Local, Set

(* The commands of each phase.                                              *)
LEMMA PhaseHeads ==
    ASSUME TypeOK, ListInv, NEW r \in Request, outcome[r] = "running"
    PROVE  /\ InPhase(todo[r]) /\ todo[r] # <<>> /\ todo[r] \in Seq(Op)
           /\ Reading(r) => \/ At(r, "get") /\ IsList(Tail(todo[r]), ReadBody, Local("settle"))
                            \/ At(r, "settle") /\ Tail(todo[r]) = <<>>
           /\ Clearing(r) => \/ At(r, "del") /\ IsList(Tail(todo[r]), ClearBody, Local("route"))
                             \/ At(r, "route") /\ Tail(todo[r]) = <<>>
           /\ Answering(r) => \/ /\ \/ At(r, "del") \/ At(r, "expire") \/ At(r, "gate")
                                    \/ At(r, "set") /\ FieldOf(r) = "origin"
                                 /\ IsList(Tail(todo[r]), AnswerBody, Local("answer"))
                              \/ At(r, "answer") /\ Tail(todo[r]) = <<>>
           /\ Persisting(r) => \/ /\ \/ At(r, "load") \/ At(r, "save") \/ At(r, "expire")
                                     \/ At(r, "set") /\ FieldOf(r) \in {"origin", "ctx", "pending"}
                                  /\ IsList(Tail(todo[r]), PersistBody, Set("dest"))
                               \/ At(r, "set") /\ FieldOf(r) = "dest" /\ Tail(todo[r]) = <<>>
           /\ Closing(r) => At(r, "expire") /\ Tail(todo[r]) = <<>>
<1> DEFINE s == todo[r]
           u == Tail(s)
<1>1. InPhase(s) /\ s \in Seq(Op)
  BY DEF ListInv, TypeOK
<1>2. s # <<>>
  BY <1>1 DEF InPhase, IsList
<1>3. \A verb : At(r, verb) <=> Head(s)[1] = verb
  BY <1>2 DEF At
<1>4. FieldOf(r) = Head(s)[2]
  BY DEF FieldOf
<1>5. /\ Local("settle") \notin ReadBody /\ Local("route") \notin ClearBody
      /\ Local("answer") \notin AnswerBody /\ Set("dest") \notin PersistBody
  BY DEF ReadBody, ClearBody, AnswerBody, PersistBody, Local, Set, Del
<1> HIDE DEF s
<1>6. ASSUME NEW body, NEW end, IsList(s, body, end), end \notin body
      PROVE  \/ Head(s) \in body /\ IsList(u, body, end)
             \/ Head(s) = end /\ u = <<>>
  BY <1>1, <1>6, TailList
<1> HIDE DEF u
<1>7. ASSUME Reading(r)
      PROVE  \/ At(r, "get") /\ IsList(u, ReadBody, Local("settle"))
             \/ At(r, "settle") /\ u = <<>>
  <2>1. \/ Head(s) \in ReadBody /\ IsList(u, ReadBody, Local("settle"))
        \/ Head(s) = Local("settle") /\ u = <<>>
    BY <1>5, <1>6, <1>7 DEF Reading, s
  <2>2. QED BY <1>3, <2>1 DEF ReadBody, Local
<1>8. ASSUME Clearing(r)
      PROVE  \/ At(r, "del") /\ IsList(u, ClearBody, Local("route"))
             \/ At(r, "route") /\ u = <<>>
  <2>1. \/ Head(s) \in ClearBody /\ IsList(u, ClearBody, Local("route"))
        \/ Head(s) = Local("route") /\ u = <<>>
    BY <1>5, <1>6, <1>8 DEF Clearing, s
  <2>2. \A op \in ClearBody : op[1] = "del"
    BY DEF ClearBody, Del
  <2>3. Local("route")[1] = "route"
    BY DEF Local
  <2>4. QED BY <1>3, <2>1, <2>2, <2>3
<1>9. ASSUME Answering(r)
      PROVE  \/ /\ \/ At(r, "del") \/ At(r, "expire") \/ At(r, "gate")
                   \/ At(r, "set") /\ FieldOf(r) = "origin"
                /\ IsList(u, AnswerBody, Local("answer"))
             \/ At(r, "answer") /\ u = <<>>
  <2>1. \/ Head(s) \in AnswerBody /\ IsList(u, AnswerBody, Local("answer"))
        \/ Head(s) = Local("answer") /\ u = <<>>
    BY <1>5, <1>6, <1>9 DEF Answering, s
  <2>2. \A op \in AnswerBody : \/ op[1] \in {"del", "expire", "gate"}
                               \/ op[1] = "set" /\ op[2] = "origin"
    BY DEF AnswerBody, ClearBody, Del, Set, Local
  <2>3. Local("answer")[1] = "answer"
    BY DEF Local
  <2>4. QED BY <1>3, <1>4, <2>1, <2>2, <2>3
<1>10. ASSUME Persisting(r)
       PROVE  \/ /\ \/ At(r, "load") \/ At(r, "save") \/ At(r, "expire")
                    \/ At(r, "set") /\ FieldOf(r) \in {"origin", "ctx", "pending"}
                 /\ IsList(u, PersistBody, Set("dest"))
              \/ At(r, "set") /\ FieldOf(r) = "dest" /\ u = <<>>
  <2>1. \/ Head(s) \in PersistBody /\ IsList(u, PersistBody, Set("dest"))
        \/ Head(s) = Set("dest") /\ u = <<>>
    BY <1>5, <1>6, <1>10 DEF Persisting, s
  <2>2. \A op \in PersistBody : \/ op[1] \in {"load", "save", "expire"}
                                \/ op[1] = "set" /\ op[2] \in {"origin", "ctx", "pending"}
    BY DEF PersistBody, Set, Local
  <2>3. Set("dest")[1] = "set" /\ Set("dest")[2] = "dest"
    BY DEF Set
  <2>4. QED BY <1>3, <1>4, <2>1, <2>2, <2>3
<1>11. ASSUME Closing(r) PROVE At(r, "expire") /\ u = <<>>
  <2>1. s = <<Local("expire")>>
    BY <1>11 DEF Closing, s
  <2>2. Head(s) = Local("expire") /\ u = <<>>
    BY <2>1 DEF u
  <2>3. QED BY <1>3, <2>2 DEF Local
<1>12. QED BY <1>1, <1>2, <1>7, <1>8, <1>9, <1>10, <1>11 DEF s, u

(* ... and so the phase of a request at a command.                          *)
LEMMA PhaseAt ==
    ASSUME TypeOK, ListInv, NEW r \in Request
    PROVE  /\ At(r, "get") \/ At(r, "settle") => Reading(r)
           /\ At(r, "route") => Clearing(r)
           /\ At(r, "answer") \/ At(r, "gate") => Answering(r)
           /\ At(r, "load") \/ At(r, "save") => Persisting(r)
           /\ At(r, "del") => Clearing(r) \/ Answering(r)
           /\ At(r, "set") /\ FieldOf(r) # "origin" => Persisting(r)
           /\ At(r, "set") => Answering(r) \/ Persisting(r)
           /\ At(r, "expire") => Answering(r) \/ Persisting(r) \/ Closing(r)
<1> SUFFICES ASSUME outcome[r] = "running"
             PROVE  /\ At(r, "get") \/ At(r, "settle") => Reading(r)
                    /\ At(r, "route") => Clearing(r)
                    /\ At(r, "answer") \/ At(r, "gate") => Answering(r)
                    /\ At(r, "load") \/ At(r, "save") => Persisting(r)
                    /\ At(r, "del") => Clearing(r) \/ Answering(r)
                    /\ At(r, "set") /\ FieldOf(r) # "origin" => Persisting(r)
                    /\ At(r, "set") => Answering(r) \/ Persisting(r)
                    /\ At(r, "expire") => Answering(r) \/ Persisting(r) \/ Closing(r)
  BY DEF At
<1>1. Reading(r) \/ Clearing(r) \/ Answering(r) \/ Persisting(r) \/ Closing(r)
  BY DEF ListInv, InPhase, Reading, Clearing, Answering, Persisting, Closing
<1>2. \A v, w : At(r, v) /\ At(r, w) => v = w
  BY AtOne
<1>3. CASE Reading(r)
  <2>1. At(r, "get") \/ At(r, "settle")
    BY <1>3, PhaseHeads
  <2>2. QED BY <1>2, <1>3, <2>1
<1>4. CASE Clearing(r)
  <2>1. At(r, "del") \/ At(r, "route")
    BY <1>4, PhaseHeads
  <2>2. QED BY <1>2, <1>4, <2>1
<1>5. CASE Answering(r)
  <2>1. \/ At(r, "del") \/ At(r, "expire") \/ At(r, "gate") \/ At(r, "answer")
        \/ At(r, "set") /\ FieldOf(r) = "origin"
    BY <1>5, PhaseHeads
  <2>2. QED BY <1>2, <1>5, <2>1
<1>6. CASE Persisting(r)
  <2>1. At(r, "load") \/ At(r, "save") \/ At(r, "expire") \/ At(r, "set")
    BY <1>6, PhaseHeads
  <2>2. QED BY <1>2, <1>6, <2>1
<1>7. CASE Closing(r)
  <2>1. At(r, "expire")
    BY <1>7, PhaseHeads
  <2>2. QED BY <1>2, <1>7, <2>1
<1>8. QED BY <1>1, <1>3, <1>4, <1>5, <1>6, <1>7

(* What is left after a command, and after a write.                         *)
LEMMA PopList ==
    ASSUME TypeOK, ListInv, NEW r \in Request, NEW verb, At(r, verb)
    PROVE  /\ Tail(todo[r]) = <<>> \/ InPhase(Tail(todo[r]))
           /\ Ordered(Tail(todo[r])) /\ Adjacent(Tail(todo[r])) /\ Tail(todo[r]) \in Seq(Op)
<1>1. outcome[r] = "running" /\ todo[r] # <<>>
  BY DEF At
<1>2. todo[r] \in Seq(Op) /\ Tail(todo[r]) \in Seq(Op) /\ Ordered(todo[r]) /\ Adjacent(todo[r])
  BY <1>1, AtType DEF ListInv, TypeOK
<1>3. Reading(r) \/ Clearing(r) \/ Answering(r) \/ Persisting(r) \/ Closing(r)
  BY <1>1 DEF ListInv, InPhase, Reading, Clearing, Answering, Persisting, Closing
<1>4. Tail(todo[r]) = <<>> \/ InPhase(Tail(todo[r]))
  BY <1>1, <1>3, PhaseHeads DEF InPhase
<1>5. Ordered(Tail(todo[r])) /\ Adjacent(Tail(todo[r]))
  BY <1>1, <1>2, TailOrdered
<1>6. QED BY <1>2, <1>4, <1>5

(* What is left after a write, with the expire in front.                    *)
LEMMA ArmList ==
    ASSUME TypeOK, ListInv, NEW r \in Request, At(r, "save") \/ At(r, "set")
    PROVE  /\ ThenArm(r) \in Seq(Op) /\ ThenArm(r) # <<>> /\ ThenArm(r)[1] = Local("expire")
           /\ Answering(r) => IsList(ThenArm(r), AnswerBody, Local("answer"))
           /\ Persisting(r) => \/ IsList(ThenArm(r), PersistBody, Set("dest"))
                               \/ At(r, "set") /\ FieldOf(r) = "dest" /\ ThenArm(r) = <<Local("expire")>>
           /\ InPhase(ThenArm(r)) /\ Ordered(ThenArm(r)) /\ Adjacent(ThenArm(r))
           /\ \A op : InSeq(op, ThenArm(r)) => op = Local("expire") \/ Has(r, op)
           /\ \A op : Has(r, op) => op = Head(todo[r]) \/ InSeq(op, ThenArm(r))
<1> DEFINE u == Tail(todo[r])
<1>1. outcome[r] = "running" /\ todo[r] # <<>> /\ todo[r] \in Seq(Op)
  BY DEF At, TypeOK
<1>2. /\ u \in Seq(Op) /\ Ordered(u) /\ Adjacent(u)
      /\ Local("expire") \in Op /\ Local("expire") \in AnswerBody /\ Local("expire") \in PersistBody
  BY PopList, Commands DEF AnswerBody, PersistBody
<1>3. ~At(r, "load") /\ ~At(r, "expire") /\ ~At(r, "gate") /\ ~At(r, "answer")
  BY AtOne
<1>4. Head(todo[r]) # Local("load")
  BY <1>1, <1>3 DEF At, Local
<1>5. u = <<>> \/ u[1] # Local("save")
  BY <1>1, <1>4, TailOrdered DEF ListInv
<1>6. Answering(r) \/ Persisting(r)
  BY PhaseAt
<1>7. Answering(r) => IsList(u, AnswerBody, Local("answer"))
  BY <1>1, <1>3, PhaseHeads
<1>8. Persisting(r) => \/ IsList(u, PersistBody, Set("dest"))
                       \/ At(r, "set") /\ FieldOf(r) = "dest" /\ u = <<>>
  BY <1>1, PhaseHeads
<1>9. \A op : (InSeq(op, u) => Has(r, op)) /\ (Has(r, op) => op = Head(todo[r]) \/ InSeq(op, u))
  BY <1>1, TailHas DEF Has
<1>10. ThenArm(r) = <<Local("expire")>> \o u
  BY DEF ThenArm
<1> HIDE DEF u
<1>11. u = <<>> => ThenArm(r) = <<Local("expire")>>
  BY <1>10
<1>12. ThenArm(r) \in Seq(Op) /\ ThenArm(r) # <<>> /\ ThenArm(r)[1] = Local("expire")
  BY <1>2, <1>10, ConsElements
<1>13. \A op : <<Local("expire"), op>> \notin Disorder
  BY DEF Disorder, Get, Set, Del, Local
<1>14. Ordered(ThenArm(r)) /\ Adjacent(ThenArm(r))
  BY <1>2, <1>5, <1>10, <1>13, ConsOrdered
<1>15. /\ IsList(u, AnswerBody, Local("answer")) => IsList(ThenArm(r), AnswerBody, Local("answer"))
       /\ IsList(u, PersistBody, Set("dest")) => IsList(ThenArm(r), PersistBody, Set("dest"))
  BY <1>2, <1>10, ConsList
<1>16. \A op : InSeq(op, ThenArm(r)) <=> op = Local("expire") \/ InSeq(op, u)
  BY <1>2, <1>10, ConsHas
<1>17. InPhase(ThenArm(r))
  BY <1>6, <1>7, <1>8, <1>11, <1>15 DEF InPhase
<1>18. QED BY <1>7, <1>8, <1>9, <1>11, <1>12, <1>14, <1>15, <1>16, <1>17

(* A request that goes on with a list in order keeps all lists in order.    *)
LEMMA ListKept ==
    ASSUME TypeOK, ListInv, NEW r \in Request, NEW rest, Continue(r, rest),
           rest = <<>> \/ InPhase(rest), Ordered(rest), Adjacent(rest)
    PROVE  ListInv'
<1>1. \A q \in Request : q # r => todo'[q] = todo[q] /\ outcome'[q] = outcome[q]
  BY DEF Continue, TypeOK
<1>2. todo'[r] = rest /\ outcome'[r] = (IF rest = <<>> THEN "answered" ELSE "running")
  BY DEF Continue, TypeOK
<1>3. QED BY <1>1, <1>2 DEF ListInv

(* Every step keeps the lists in order.                                     *)
LEMMA ListStep == TypeOK /\ ListInv /\ [Next]_vars => ListInv'
<1> SUFFICES ASSUME TypeOK, ListInv, [Next]_vars PROVE ListInv'
  OBVIOUS
<1>1. ASSUME NEW r \in Request, NEW p \in Place, NEW q \in MaybeQuestion, Arrive(r, p, q)
      PROVE  ListInv'
  BY <1>1, PreparationList, ListKept DEF Arrive, InPhase
<1>2. ASSUME NEW r \in Request, NEW verb, At(r, verb), Continue(r, Tail(todo[r])) PROVE ListInv'
  BY <1>2, PopList, ListKept
<1>3. ASSUME NEW r \in Request, At(r, "save") \/ At(r, "set"), Continue(r, ThenArm(r)) PROVE ListInv'
  BY <1>3, ArmList, ListKept
<1>4. ASSUME NEW r \in Request, NEW result, result # "running", Abort(r, result) PROVE ListInv'
  <2>1. \A q \in Request : q # r => todo'[q] = todo[q] /\ outcome'[q] = outcome[q]
    BY <1>4 DEF Abort, TypeOK
  <2>2. todo'[r] = <<>> /\ outcome'[r] # "running"
    BY <1>4 DEF Abort, TypeOK
  <2>3. QED BY <2>1, <2>2, EmptyList DEF ListInv
<1>5. ASSUME NEW r \in Request, Step(r) PROVE ListInv'
  <2>1. CASE ReadField(r) \/ ConsultGate(r) \/ LoadTurns(r) \/ ClearField(r) \/ ArmExpiry(r)
    BY <1>2, <2>1 DEF ReadField, ConsultGate, LoadTurns, ClearField, ArmExpiry
  <2>2. CASE SaveExchange(r) \/ WriteField(r)
    BY <1>3, <2>2 DEF SaveExchange, WriteField
  <2>3. CASE SettleDestination(r)
    <3>1. PICK rest \in {<<Local("route")>>, ClearPending \o <<Local("route")>>} : Continue(r, rest)
      BY <2>3 DEF SettleDestination
    <3>2. CASE rest = <<Local("route")>>
      <4>1. Local("route") \in Op
        BY Commands
      <4>2. IsList(rest, ClearBody, Local("route")) /\ Ordered(rest) /\ Adjacent(rest)
        BY <3>2, <4>1, SingleList
      <4>3. QED BY <3>1, <4>2, ListKept DEF InPhase
    <3>3. CASE rest = ClearPending \o <<Local("route")>>
      <4>1. IsList(rest, ClearBody, Local("route")) /\ Ordered(rest) /\ Adjacent(rest)
        BY <3>3, ClearList
      <4>2. QED BY <3>1, <4>1, ListKept DEF InPhase
    <3>4. QED BY <3>1, <3>2, <3>3
  <2>4. ASSUME NEW mode \in Mode, RouteRequest(r, mode) PROVE ListInv'
    <3> DEFINE path == PathOf(r, mode)
               record == IF FinalOrigin(r) # 0 THEN <<Set("origin")>> ELSE <<>>
    <3>1. path \in Path /\ record \in {<<>>, <<Set("origin")>>}
      BY RoutingType
    <3>2. Continue(r, record \o PathOps(r, path))
      BY <2>4 DEF RouteRequest
    <3> HIDE DEF path, record
    <3> DEFINE rest == record \o PathOps(r, path)
    <3>3. InPhase(rest) /\ Ordered(rest) /\ Adjacent(rest)
      BY <3>1, RoutedLists DEF Path, Arranged, AnswerList, SaveList, InPhase
    <3>4. QED BY <3>2, <3>3, ListKept
  <2>5. CASE AnswerRequest(r)
    <3>1. PICK text : Continue(r, Persist(r, text) \o Finalization)
      BY <2>5 DEF AnswerRequest
    <3>2. QED BY <3>1, PersistList, ListKept DEF InPhase
  <2>6. QED BY <1>5, <2>1, <2>2, <2>3, <2>4, <2>5 DEF Step
<1>6. ASSUME NEW r \in Request, Failure(r) PROVE ListInv'
  <2>1. CASE RedisRepeats(r)
    BY <2>1 DEF RedisRepeats, ListInv
  <2>2. QED
    BY <1>4, <1>6, <2>1 DEF Failure, RedisFails, RedisReplyLost, ModelFails
<1>7. CASE Crash
  <2>1. \A q \in Request : todo'[q] = <<>> /\ outcome'[q] # "running"
    BY <1>7 DEF Crash, Running
  <2>2. QED BY <2>1, EmptyList DEF ListInv
<1>8. CASE Expire \/ UNCHANGED vars
  BY <1>8 DEF Expire, vars, ListInv
<1>9. QED
  BY <1>1, <1>5, <1>6, <1>7, <1>8 DEF Next, Done

-----------------------------------------------------------------------------
(* What a step does to the list of its request.                             *)

(* A list of commands is of one phase only.                                 *)
LEMMA OneList ==
    ASSUME NEW s
    PROVE  /\ IsList(s, ReadBody, Local("settle")) =>
                /\ ~IsList(s, ClearBody, Local("route")) /\ ~IsList(s, AnswerBody, Local("answer"))
                /\ ~IsList(s, PersistBody, Set("dest")) /\ s # <<Local("expire")>>
           /\ IsList(s, ClearBody, Local("route")) =>
                /\ ~IsList(s, AnswerBody, Local("answer"))
                /\ ~IsList(s, PersistBody, Set("dest")) /\ s # <<Local("expire")>>
           /\ IsList(s, AnswerBody, Local("answer")) =>
                ~IsList(s, PersistBody, Set("dest")) /\ s # <<Local("expire")>>
           /\ IsList(s, PersistBody, Set("dest")) => s # <<Local("expire")>>
<1> DEFINE last == s[Len(s)]
<1>1. /\ IsList(s, ReadBody, Local("settle")) => last = Local("settle")
      /\ IsList(s, ClearBody, Local("route")) => last = Local("route")
      /\ IsList(s, AnswerBody, Local("answer")) => last = Local("answer")
      /\ IsList(s, PersistBody, Set("dest")) => last = Set("dest")
      /\ s = <<Local("expire")>> => last = Local("expire")
  BY DEF IsList
<1> HIDE DEF last
<1>2. QED BY <1>1 DEF Local, Set

(* A request keeps its phase, or it was at its last command.                *)
SamePhase(r) ==
    /\ Reading(r)' <=> Reading(r)
    /\ Clearing(r)' <=> Clearing(r)
    /\ Answering(r)' <=> Answering(r)
    /\ Persisting(r)' <=> Persisting(r)
    /\ Closing(r)' <=> Closing(r)

(* What is left of the list, but for an expire.                             *)
Shorter(r) ==
    /\ \A op : op # Local("expire") /\ Has(r, op)' =>
            Has(r, op) /\ <<Head(todo[r]), op>> \notin Disorder
    /\ \A op : Has(r, op) => op = Head(todo[r]) \/ Has(r, op)'

(* A command that is taken from the list leaves the rest of it.             *)
LEMMA PopMoves ==
    ASSUME TypeOK, ListInv, NEW r \in Request,
           NEW verb \in {"get", "gate", "load", "del", "expire"},
           At(r, verb), Continue(r, Tail(todo[r]))
    PROVE  /\ todo'[r] = Tail(todo[r]) /\ Shorter(r)
           /\ Closing(r) => outcome'[r] = "answered"
           /\ ~Closing(r) => outcome'[r] = "running" /\ SamePhase(r)
<1> DEFINE s == todo[r]
           u == Tail(todo[r])
<1>1. /\ outcome[r] = "running" /\ s \in Seq(Op) /\ s # <<>> /\ Ordered(s)
  BY DEF At, TypeOK, ListInv
<1>2. todo'[r] = u /\ outcome'[r] = IF u = <<>> THEN "answered" ELSE "running"
  BY DEF Continue, TypeOK
<1>3. Shorter(r)
  <2>1. /\ \A op : InSeq(op, u) => InSeq(op, s) /\ <<Head(s), op>> \notin Disorder
        /\ \A op : InSeq(op, s) => op = Head(s) \/ InSeq(op, u)
    BY <1>1, TailHas, TailOrdered
  <2> HIDE DEF u
  <2>2. QED BY <1>2, <2>1 DEF Shorter, Has
<1>4. \A w : At(r, w) => w = verb
  BY AtOne
<1>5. /\ Reading(r) => IsList(u, ReadBody, Local("settle"))
      /\ Clearing(r) => IsList(u, ClearBody, Local("route"))
      /\ Answering(r) => IsList(u, AnswerBody, Local("answer"))
      /\ Persisting(r) => IsList(u, PersistBody, Set("dest"))
      /\ Closing(r) => u = <<>>
  <2>1. Reading(r) => IsList(u, ReadBody, Local("settle"))
    BY <1>1, <1>4, PhaseHeads
  <2>2. Clearing(r) => IsList(u, ClearBody, Local("route"))
    BY <1>1, <1>4, PhaseHeads
  <2>3. Answering(r) => IsList(u, AnswerBody, Local("answer"))
    BY <1>1, <1>4, PhaseHeads
  <2>4. Persisting(r) => IsList(u, PersistBody, Set("dest"))
    BY <1>1, <1>4, PhaseHeads
  <2>5. Closing(r) => u = <<>>
    BY <1>1, <1>4, PhaseHeads
  <2>6. QED BY <2>1, <2>2, <2>3, <2>4, <2>5
<1>6. Reading(r) \/ Clearing(r) \/ Answering(r) \/ Persisting(r) \/ Closing(r)
  BY <1>1 DEF ListInv, InPhase, Reading, Clearing, Answering, Persisting, Closing
<1> HIDE DEF s, u
<1>7. ASSUME ~Closing(r) PROVE outcome'[r] = "running" /\ SamePhase(r)
  <2>1. u # <<>>
    BY <1>5, <1>6, <1>7 DEF IsList
  <2>2. SamePhase(r)
    <3>1. /\ Reading(r)' <=> IsList(u, ReadBody, Local("settle"))
          /\ Clearing(r)' <=> IsList(u, ClearBody, Local("route"))
          /\ Answering(r)' <=> IsList(u, AnswerBody, Local("answer"))
          /\ Persisting(r)' <=> IsList(u, PersistBody, Set("dest"))
          /\ Closing(r)' <=> u = <<Local("expire")>>
      BY <1>2 DEF Reading, Clearing, Answering, Persisting, Closing
    <3>2. QED BY <1>5, <1>6, <1>7, <3>1, OneList, OnePhase DEF SamePhase
  <2>3. QED BY <1>2, <2>1, <2>2
<1>8. ASSUME Closing(r) PROVE outcome'[r] = "answered"
  BY <1>2, <1>5, <1>8
<1>9. QED BY <1>2, <1>3, <1>7, <1>8 DEF u

(* A write leaves the rest of the list behind its expire.                   *)
LEMMA ArmMoves ==
    ASSUME TypeOK, ListInv, NEW r \in Request, At(r, "save") \/ At(r, "set"),
           Continue(r, ThenArm(r))
    PROVE  /\ todo'[r] = ThenArm(r) /\ outcome'[r] = "running" /\ Shorter(r)
           /\ At(r, "set") /\ FieldOf(r) = "dest" => Persisting(r) /\ Closing(r)'
           /\ ~(At(r, "set") /\ FieldOf(r) = "dest") => SamePhase(r)
<1> DEFINE s == todo[r]
           u == ThenArm(r)
<1>1. outcome[r] = "running" /\ s \in Seq(Op) /\ s # <<>> /\ Ordered(s)
  BY DEF At, TypeOK, ListInv
<1>2. /\ u \in Seq(Op) /\ u # <<>> /\ u[1] = Local("expire")
      /\ Answering(r) => IsList(u, AnswerBody, Local("answer"))
      /\ Persisting(r) => \/ IsList(u, PersistBody, Set("dest"))
                          \/ At(r, "set") /\ FieldOf(r) = "dest" /\ u = <<Local("expire")>>
      /\ \A op : InSeq(op, u) => op = Local("expire") \/ Has(r, op)
      /\ \A op : Has(r, op) => op = Head(s) \/ InSeq(op, u)
  BY ArmList
<1>3. \A op : InSeq(op, u) => op = Local("expire") \/ <<Head(s), op>> \notin Disorder
  <2>1. Tail(s) \in Seq(Op) /\ Local("expire") \in Op
    BY <1>1, TailElements, Commands
  <2>2. \A op : InSeq(op, u) => op = Local("expire") \/ InSeq(op, Tail(s))
    BY <2>1, ConsHas DEF ThenArm
  <2>3. \A op : InSeq(op, Tail(s)) => <<Head(s), op>> \notin Disorder
    BY <1>1, TailOrdered
  <2>4. QED BY <2>2, <2>3
<1> HIDE DEF u
<1>4. todo'[r] = u /\ outcome'[r] = "running"
  BY <1>2 DEF Continue, TypeOK, u
<1>5. Shorter(r)
  BY <1>2, <1>3, <1>4 DEF Shorter, Has
<1>6. Answering(r) \/ Persisting(r)
  BY PhaseAt
<1>7. /\ Reading(r)' <=> IsList(u, ReadBody, Local("settle"))
      /\ Clearing(r)' <=> IsList(u, ClearBody, Local("route"))
      /\ Answering(r)' <=> IsList(u, AnswerBody, Local("answer"))
      /\ Persisting(r)' <=> IsList(u, PersistBody, Set("dest"))
      /\ Closing(r)' <=> u = <<Local("expire")>>
  BY <1>4 DEF Reading, Clearing, Answering, Persisting, Closing
<1>8. ASSUME At(r, "set"), FieldOf(r) = "dest" PROVE Persisting(r) /\ Closing(r)'
  <2>1. Persisting(r)
    BY <1>8, PhaseAt
  <2>2. Tail(s) = <<>>
    <3>1. ~At(r, "load") /\ ~At(r, "save") /\ ~At(r, "expire")
      BY <1>8, AtOne
    <3>2. QED BY <1>1, <1>8, <2>1, <3>1, PhaseHeads
  <2>3. u = <<Local("expire")>>
    <3> DEFINE rest == Tail(s)
    <3>1. u = <<Local("expire")>> \o rest /\ rest = <<>>
      BY <2>2 DEF u, ThenArm
    <3> HIDE DEF rest
    <3>2. QED BY <3>1
  <2>4. QED BY <2>1, <2>3, <1>7
<1>9. ASSUME ~(At(r, "set") /\ FieldOf(r) = "dest") PROVE SamePhase(r)
  <2>1. CASE Answering(r)
    BY <1>2, <1>7, <2>1, OneList, OnePhase DEF SamePhase
  <2>2. CASE Persisting(r)
    BY <1>2, <1>7, <1>9, <2>2, OneList, OnePhase DEF SamePhase
  <2>3. QED BY <1>6, <2>1, <2>2
<1>10. QED BY <1>4, <1>5, <1>8, <1>9 DEF u

(* The next command is one of those still to do.                            *)
LEMMA HasHead ==
    ASSUME TypeOK, NEW r \in Request, NEW verb, At(r, verb)
    PROVE  Has(r, Head(todo[r]))
<1>1. todo[r] \in Seq(Op) /\ todo[r] # <<>>
  BY DEF At, TypeOK
<1>2. Len(todo[r]) \in Nat \ {0} /\ Head(todo[r]) = todo[r][1]
  BY <1>1, TailElements
<1>3. QED BY <1>2 DEF Has, InSeq

-----------------------------------------------------------------------------
(* What each action does, in these terms.                                   *)

(* A hget takes one field of the hash over.                                 *)
LEMMA ReadEffect ==
    ASSUME TypeOK, ListInv, NEW r \in Request, ReadField(r)
    PROVE  /\ outcome'[r] = "running" /\ Reading(r) /\ Reading(r)'
           /\ UNCHANGED <<hash, expiring, place, question, history, plan, reply, shown, faults>>
           /\ \E f \in ReadableField :
                 /\ Head(todo[r]) = Get(f) /\ Has(r, Get(f))
                 /\ seen'[r][f] = hash[f]
                 /\ \A g \in Field : g # f => seen'[r][g] = seen[r][g]
                 /\ \A g \in ReadableField : Has(r, Get(g))' => Has(r, Get(g))
                 /\ \A g \in ReadableField : Has(r, Get(g)) => g = f \/ Has(r, Get(g))'
                 /\ f = "ctx" => ~Has(r, Get("dest"))'
<1>1. At(r, "get") /\ Continue(r, Tail(todo[r]))
      /\ seen' = [seen EXCEPT ![r][FieldOf(r)] = hash[FieldOf(r)]]
      /\ UNCHANGED <<hash, expiring, place, question, history, plan, reply, shown, faults>>
  BY DEF ReadField, store, inputs
<1>2. Reading(r) /\ ~Closing(r)
  BY <1>1, PhaseAt, OnePhase
<1>3. outcome'[r] = "running" /\ SamePhase(r) /\ Shorter(r)
  BY <1>1, <1>2, PopMoves
<1>4. PICK f \in ReadableField : f = FieldOf(r)
  BY <1>1, GetField
<1>5. Head(todo[r]) = Get(f)
  <2>1. Head(todo[r]) \in Op /\ Head(todo[r])[1] = "get" /\ Head(todo[r])[2] = f
    BY <1>1, <1>4, AtType DEF FieldOf
  <2>2. QED BY <2>1 DEF Op, Get, OtherVerb
<1>6. /\ seen'[r][f] = hash[f]
      /\ \A g \in Field : g # f => seen'[r][g] = seen[r][g]
  <2>1. seen[r] \in Hash
    BY DEF TypeOK
  <2>2. seen'[r] = [seen[r] EXCEPT ![f] = hash[f]]
    BY <1>1, <1>4 DEF TypeOK
  <2>3. f \in Field /\ seen[r] = [g \in Field |-> seen[r][g]]
    BY <2>1 DEF Hash, Field, ReadableField
  <2>4. QED BY <2>2, <2>3
<1>7. \A g : Get(g) # Local("expire")
  BY DEF Get, Local
<1>8. \A g, h : Get(g) = Get(h) => g = h
  BY DEF Get
<1>9. \A g \in ReadableField : Has(r, Get(g))' => Has(r, Get(g))
  BY <1>3, <1>7 DEF Shorter
<1>10. \A g \in ReadableField : Has(r, Get(g)) => g = f \/ Has(r, Get(g))'
  BY <1>3, <1>5, <1>8 DEF Shorter
<1>11. f = "ctx" => ~Has(r, Get("dest"))'
  BY <1>3, <1>5, <1>7 DEF Shorter, Disorder
<1>12. QED BY <1>1, <1>2, <1>3, <1>5, <1>6, <1>9, <1>10, <1>11, HasHead DEF SamePhase

(* The destination settles when everything was read.                        *)
LEMMA SettleEffect ==
    ASSUME TypeOK, ListInv, NEW r \in Request, SettleDestination(r)
    PROVE  /\ outcome'[r] = "running" /\ Reading(r) /\ Clearing(r)'
           /\ UNCHANGED <<hash, expiring, place, question, history, plan, reply, shown, faults>>
           /\ \A g : ~Has(r, Get(g))
           /\ DestinationChanged(r) => /\ seen'[r] = ViewAfterReset(r)
                                       /\ Has(r, Del("ctx"))' /\ Has(r, Del("pending"))'
           /\ ~DestinationChanged(r) => seen' = seen /\ \A op : Has(r, op)' => op = Local("route")
           /\ \A op : Has(r, op)' => op \in ClearBody \cup {Local("route")}
<1>1. /\ At(r, "settle")
      /\ UNCHANGED <<hash, expiring, place, question, history, plan, reply, shown, faults>>
      /\ outcome[r] = "running" /\ todo[r] # <<>> /\ todo[r] \in Seq(Op)
  BY DEF SettleDestination, store, inputs, At, TypeOK
<1>2. Reading(r)
  BY <1>1, PhaseAt
<1>3. ~At(r, "get")
  BY <1>1, AtOne
<1>4. Tail(todo[r]) = <<>>
  BY <1>1, <1>2, <1>3, PhaseHeads
<1>5. \A g : ~Has(r, Get(g))
  <2>1. \A op : Has(r, op) => op = Head(todo[r]) \/ InSeq(op, Tail(todo[r]))
    BY <1>1, TailHas DEF Has
  <2>2. \A g : Head(todo[r]) # Get(g)
    BY <1>1 DEF At, Get
  <2>3. \A op : ~InSeq(op, <<>>)
    BY EmptyList
  <2>4. QED BY <1>4, <2>1, <2>2, <2>3
<1>6. ASSUME DestinationChanged(r)
      PROVE  /\ seen'[r] = ViewAfterReset(r)
             /\ Has(r, Del("ctx"))' /\ Has(r, Del("pending"))'
             /\ outcome'[r] = "running" /\ Clearing(r)'
             /\ \A op : Has(r, op)' => op \in ClearBody \cup {Local("route")}
  <2>1. /\ seen'[r] = ViewAfterReset(r)
        /\ Continue(r, ClearPending \o <<Local("route")>>)
    BY <1>6 DEF SettleDestination, TypeOK
  <2> DEFINE s == ClearPending \o <<Local("route")>>
  <2>2. /\ s \in Seq(Op) /\ IsList(s, ClearBody, Local("route"))
        /\ InSeq(Del("ctx"), s) /\ InSeq(Del("pending"), s)
    BY ClearList
  <2> HIDE DEF s
  <2>3. todo'[r] = s /\ outcome'[r] = "running"
    BY <2>1, <2>2 DEF Continue, IsList, TypeOK, s
  <2>4. \A op : InSeq(op, s) => op \in ClearBody \cup {Local("route")}
    BY <2>2 DEF InSeq, IsList
  <2>5. QED BY <2>1, <2>2, <2>3, <2>4 DEF Has, Clearing
<1>7. ASSUME ~DestinationChanged(r)
      PROVE  /\ seen' = seen /\ \A op : Has(r, op)' => op = Local("route")
             /\ outcome'[r] = "running" /\ Clearing(r)'
  <2>1. seen' = seen /\ Continue(r, <<Local("route")>>)
    BY <1>7 DEF SettleDestination
  <2> DEFINE s == <<Local("route")>>
  <2>2. /\ IsList(s, ClearBody, Local("route")) /\ s # <<>>
        /\ \A op : InSeq(op, s) => op = Local("route")
    BY SingleList, Commands
  <2> HIDE DEF s
  <2>3. todo'[r] = s /\ outcome'[r] = "running"
    BY <2>1, <2>2 DEF Continue, TypeOK, s
  <2>4. QED BY <2>1, <2>2, <2>3 DEF Has, Clearing
<1>8. QED BY <1>1, <1>2, <1>5, <1>6, <1>7

(* The routing ends the decision and fixes the path.                        *)
LEMMA RouteEffect ==
    ASSUME TypeOK, ListInv, NEW r \in Request, NEW mode \in Mode, RouteRequest(r, mode)
    PROVE  /\ outcome'[r] = "running" /\ Clearing(r) /\ mode \in AnswerModes(r)
           /\ UNCHANGED <<hash, expiring, place, question, history, faults>>
           /\ \A op : Has(r, op) => op = Local("route")
           /\ plan'[r] = [effective |-> EffectiveQuestion(r), origin |-> FinalOrigin(r),
                          path |-> PathOf(r, mode)]
           /\ reply'[r] = FixedReplyOf(PathOf(r, mode))
           /\ LET path == PathOf(r, mode)
              IN  /\ path \in Path
                  /\ path \in {"followup", "journey", "broad"} => Answering(r)'
                  /\ path \in {"reference", "origin_request"} =>
                        Persisting(r)' /\ Has(r, Local("save"))' /\ todo'[r][1] # Local("save")
                  /\ path = "origin_request" => Has(r, Set("ctx"))'
                  /\ Has(r, Set("pending"))' <=> Has(r, Set("ctx"))'
                  /\ Has(r, Del("pending"))' <=> Has(r, Del("ctx"))'
<1> DEFINE path == PathOf(r, mode)
           record == IF FinalOrigin(r) # 0 THEN <<Set("origin")>> ELSE <<>>
           s == record \o PathOps(r, path)
<1>1. /\ At(r, "route") /\ mode \in AnswerModes(r) /\ Continue(r, s)
      /\ UNCHANGED <<hash, expiring, place, question, history, faults>>
      /\ outcome[r] = "running" /\ todo[r] # <<>> /\ todo[r] \in Seq(Op)
  BY DEF RouteRequest, store, inputs, At, TypeOK
<1>2. /\ plan'[r] = [effective |-> EffectiveQuestion(r), origin |-> FinalOrigin(r),
                     path |-> PathOf(r, mode)]
      /\ reply'[r] = FixedReplyOf(PathOf(r, mode))
  BY DEF RouteRequest, TypeOK
<1>3. Clearing(r) /\ ~At(r, "del")
  BY <1>1, PhaseAt, AtOne
<1>4. Tail(todo[r]) = <<>> /\ Head(todo[r]) = Local("route")
  <2>1. Tail(todo[r]) = <<>>
    BY <1>1, <1>3, PhaseHeads
  <2>2. Head(todo[r]) \in Op /\ Head(todo[r])[1] = "route"
    BY <1>1, AtType
  <2>3. QED BY <2>1, <2>2 DEF Op, OtherVerb, Local
<1>5. \A op : Has(r, op) => op = Local("route")
  <2>1. \A op : Has(r, op) => op = Head(todo[r]) \/ InSeq(op, Tail(todo[r]))
    BY <1>1, TailHas DEF Has
  <2>2. QED BY <1>4, <2>1, EmptyList
<1>6. path \in Path /\ record \in {<<>>, <<Set("origin")>>}
  BY RoutingType
<1> HIDE DEF path, record
<1>7. /\ Arranged(s)
      /\ path \in {"followup", "journey", "broad"} => AnswerList(s)
      /\ path \in {"reference", "origin_request"} => SaveList(s)
      /\ path = "origin_request" => InSeq(Set("ctx"), s)
  BY <1>6, RoutedLists
<1> HIDE DEF s
<1>8. todo'[r] = s /\ outcome'[r] = "running"
  BY <1>1, <1>7 DEF Continue, Arranged, TypeOK
<1>9. /\ path \in Path
      /\ path \in {"followup", "journey", "broad"} => Answering(r)'
      /\ path \in {"reference", "origin_request"} =>
            Persisting(r)' /\ Has(r, Local("save"))' /\ todo'[r][1] # Local("save")
      /\ path = "origin_request" => Has(r, Set("ctx"))'
      /\ Has(r, Set("pending"))' <=> Has(r, Set("ctx"))'
      /\ Has(r, Del("pending"))' <=> Has(r, Del("ctx"))'
  BY <1>6, <1>7, <1>8 DEF Has, Answering, Persisting, AnswerList, SaveList, Arranged, Path
<1>10. QED BY <1>1, <1>2, <1>3, <1>5, <1>8, <1>9 DEF path

(* The commands that only read, and the expire.                             *)
LEMMA PassEffect ==
    ASSUME TypeOK, ListInv, NEW r \in Request, ConsultGate(r) \/ LoadTurns(r) \/ ArmExpiry(r)
    PROVE  /\ UNCHANGED <<hash, place, question, seen, plan, reply, shown, faults>>
           /\ ~Reading(r) /\ ~Clearing(r) /\ Shorter(r)
           /\ \/ Closing(r) /\ outcome'[r] = "answered" /\ expiring' = (hash # NoHash)
              \/ ~Closing(r) /\ outcome'[r] = "running" /\ SamePhase(r)
           /\ \A op : op \notin {Local("gate"), Local("load"), Local("expire")} =>
                   (Has(r, op)' <=> Has(r, op))
           /\ \/ history' = history
              \/ LoadTurns(r) /\ Head(todo[r]) = Local("load") /\ history'[r] = hash.turns
<1>1. CASE ConsultGate(r)
  <2>1. At(r, "gate") /\ Continue(r, Tail(todo[r]))
        /\ UNCHANGED <<hash, place, question, seen, plan, reply, shown, faults, history>>
    BY <1>1 DEF ConsultGate, store, inputs
  <2>2. Answering(r) /\ Head(todo[r]) = Local("gate")
    BY <2>1, PhaseAt, AtType DEF Op, OtherVerb, Local
  <2>3. QED BY <2>1, <2>2, PopMoves, OnePhase DEF Shorter
<1>2. CASE LoadTurns(r)
  <2>1. At(r, "load") /\ Continue(r, Tail(todo[r]))
        /\ UNCHANGED <<hash, place, question, seen, plan, reply, shown, faults>>
        /\ history'[r] = hash.turns
    BY <1>2 DEF LoadTurns, store, inputs, TypeOK
  <2>2. Persisting(r) /\ Head(todo[r]) = Local("load")
    BY <2>1, PhaseAt, AtType DEF Op, OtherVerb, Local
  <2>3. QED BY <1>2, <2>1, <2>2, PopMoves, OnePhase DEF Shorter
<1>3. CASE ArmExpiry(r)
  <2>1. At(r, "expire") /\ Continue(r, Tail(todo[r]))
        /\ UNCHANGED <<hash, place, question, seen, plan, reply, shown, faults, history>>
        /\ expiring' = (hash # NoHash)
    BY <1>3 DEF ArmExpiry, inputs
  <2>2. Head(todo[r]) = Local("expire")
    BY <2>1, AtType DEF Op, OtherVerb, Local
  <2>3. Answering(r) \/ Persisting(r) \/ Closing(r)
    BY <2>1, PhaseAt
  <2>4. ~Reading(r) /\ ~Clearing(r)
    BY <2>3, OnePhase
  <2>5. Shorter(r) /\ \/ Closing(r) /\ outcome'[r] = "answered"
                      \/ ~Closing(r) /\ outcome'[r] = "running" /\ SamePhase(r)
    BY <2>1, PopMoves
  <2>6. QED BY <2>1, <2>2, <2>4, <2>5 DEF Shorter
<1>4. QED BY <1>1, <1>2, <1>3

(* The answer of the model is persisted next.                               *)
LEMMA AnswerEffect ==
    ASSUME TypeOK, ListInv, NEW r \in Request, AnswerRequest(r)
    PROVE  /\ outcome'[r] = "running" /\ Answering(r) /\ Persisting(r)'
           /\ UNCHANGED <<hash, expiring, place, question, seen, history, plan, faults>>
           /\ \A op : Has(r, op) => op = Local("answer")
           /\ \A op : Has(r, op)' => op \in {Local("load"), Local("save"), Set("dest")}
           /\ Has(r, Local("save"))'
           /\ todo'[r][1] = Local("save") => question[r] = NoQuestion /\ reply'[r] = NoReply
<1>1. PICK text : /\ reply' = [reply EXCEPT ![r] = text]
                  /\ Continue(r, Persist(r, text) \o Finalization)
  BY DEF AnswerRequest
<1> DEFINE s == Persist(r, text) \o Finalization
<1>2. /\ At(r, "answer")
      /\ UNCHANGED <<hash, expiring, place, question, seen, history, plan, faults>>
      /\ outcome[r] = "running" /\ todo[r] # <<>> /\ todo[r] \in Seq(Op)
  BY DEF AnswerRequest, store, inputs, At, TypeOK
<1>3. /\ Answering(r) /\ ~At(r, "del") /\ ~At(r, "expire") /\ ~At(r, "gate") /\ ~At(r, "set")
  BY <1>2, PhaseAt, AtOne
<1>4. Tail(todo[r]) = <<>> /\ Head(todo[r]) = Local("answer")
  <2>1. Tail(todo[r]) = <<>>
    BY <1>2, <1>3, PhaseHeads
  <2>2. Head(todo[r]) \in Op /\ Head(todo[r])[1] = "answer"
    BY <1>2, AtType
  <2>3. QED BY <2>1, <2>2 DEF Op, OtherVerb, Local
<1>5. \A op : Has(r, op) => op = Local("answer")
  <2>1. \A op : Has(r, op) => op = Head(todo[r]) \/ InSeq(op, Tail(todo[r]))
    BY <1>2, TailHas DEF Has
  <2>2. QED BY <1>4, <2>1, EmptyList
<1>6. /\ s \in Seq(Op) /\ IsList(s, PersistBody, Set("dest"))
      /\ InSeq(Local("save"), s)
      /\ s[1] = Local("save") => question[r] = NoQuestion /\ text = NoReply
      /\ \A op : InSeq(op, s) => op \in {Local("load"), Local("save"), Set("dest")}
  BY PersistList
<1> HIDE DEF s
<1>7. todo'[r] = s /\ outcome'[r] = "running"
  BY <1>1, <1>6 DEF Continue, IsList, TypeOK, s
<1>8. reply'[r] = text
  BY <1>1 DEF TypeOK
<1>9. QED BY <1>2, <1>3, <1>5, <1>6, <1>7, <1>8 DEF Persisting, Has

(* mark_sent writes the exchange.                                           *)
LEMMA SaveEffect ==
    ASSUME TypeOK, ListInv, NEW r \in Request, SaveExchange(r)
    PROVE  /\ outcome'[r] = "running" /\ Persisting(r) /\ SamePhase(r) /\ Shorter(r)
           /\ hash' = ExchangeSaved(r) /\ expiring' = (expiring /\ hash' # NoHash)
           /\ UNCHANGED <<place, question, seen, plan, reply, shown, faults>>
           /\ Head(todo[r]) = Local("save") /\ history'[r] = <<>>
<1>1. /\ At(r, "save") /\ Continue(r, ThenArm(r)) /\ ~At(r, "set")
      /\ hash' = ExchangeSaved(r) /\ expiring' = (expiring /\ hash' # NoHash)
      /\ UNCHANGED <<place, question, seen, plan, reply, shown, faults>>
      /\ history'[r] = <<>>
  BY AtOne DEF SaveExchange, Keep, inputs, TypeOK
<1>2. Persisting(r)
  BY <1>1, PhaseAt
<1>3. Head(todo[r]) = Local("save")
  BY <1>1, AtType DEF Op, OtherVerb, Local
<1>4. QED BY <1>1, <1>2, <1>3, ArmMoves

(* A hset writes one field.                                                 *)
LEMMA WriteEffect ==
    ASSUME TypeOK, ListInv, NEW r \in Request, WriteField(r)
    PROVE  /\ outcome'[r] = "running" /\ (Answering(r) \/ Persisting(r))
           /\ Shorter(r) /\ Head(todo[r]) = Set(FieldOf(r))
           /\ expiring' = (expiring /\ hash' # NoHash)
           /\ UNCHANGED <<place, question, seen, history, plan, reply, shown, faults>>
           /\ hash'.user = hash.user /\ hash'.reply = hash.reply /\ hash'.turns = hash.turns
           /\ \/ /\ FieldOf(r) = "dest" /\ Persisting(r) /\ Closing(r)'
                 /\ hash'.dest = place[r] /\ hash'.ctx = hash.ctx /\ hash'.pending = hash.pending
              \/ /\ FieldOf(r) = "origin" /\ SamePhase(r)
                 /\ hash'.dest = hash.dest /\ hash'.ctx = hash.ctx /\ hash'.pending = hash.pending
              \/ /\ FieldOf(r) = "ctx" /\ SamePhase(r) /\ Persisting(r)
                 /\ hash'.dest = hash.dest /\ hash'.ctx = r /\ hash'.pending = hash.pending
              \/ /\ FieldOf(r) = "pending" /\ SamePhase(r) /\ Persisting(r)
                 /\ hash'.dest = hash.dest /\ hash'.ctx = hash.ctx /\ hash'.pending = r
<1>1. /\ At(r, "set") /\ Continue(r, ThenArm(r)) /\ hash' = FieldWritten(r)
      /\ expiring' = (expiring /\ hash' # NoHash)
      /\ UNCHANGED <<place, question, seen, history, plan, reply, shown, faults>>
  BY DEF WriteField, Keep, inputs
<1>2. Answering(r) \/ Persisting(r)
  BY <1>1, PhaseAt
<1>3. FieldOf(r) \in WritableField
  BY <1>1, SetField
<1>4. Head(todo[r]) = Set(FieldOf(r))
  BY <1>1, AtType DEF Op, OtherVerb, Set, FieldOf
<1>5. /\ outcome'[r] = "running" /\ Shorter(r)
      /\ FieldOf(r) = "dest" => Persisting(r) /\ Closing(r)'
      /\ FieldOf(r) # "dest" => SamePhase(r)
  BY <1>1, ArmMoves
<1>6. FieldOf(r) # "origin" => Persisting(r)
  BY <1>1, PhaseAt
<1>7. hash \in Hash
  BY DEF TypeOK
<1>8. hash'.user = hash.user /\ hash'.reply = hash.reply /\ hash'.turns = hash.turns
  BY <1>1, <1>3, <1>7 DEF FieldWritten, WritableField, Hash
<1>9. \/ /\ FieldOf(r) = "dest"
         /\ hash'.dest = place[r] /\ hash'.ctx = hash.ctx /\ hash'.pending = hash.pending
      \/ /\ FieldOf(r) = "origin"
         /\ hash'.dest = hash.dest /\ hash'.ctx = hash.ctx /\ hash'.pending = hash.pending
      \/ /\ FieldOf(r) = "ctx"
         /\ hash'.dest = hash.dest /\ hash'.ctx = r /\ hash'.pending = hash.pending
      \/ /\ FieldOf(r) = "pending"
         /\ hash'.dest = hash.dest /\ hash'.ctx = hash.ctx /\ hash'.pending = r
  BY <1>1, <1>3, <1>7 DEF FieldWritten, WritableField, Hash
<1>10. QED BY <1>1, <1>2, <1>4, <1>5, <1>6, <1>8, <1>9

(* A hdel clears one of the pending fields.                                 *)
LEMMA ClearEffect ==
    ASSUME TypeOK, ListInv, NEW r \in Request, ClearField(r)
    PROVE  /\ outcome'[r] = "running" /\ (Clearing(r) \/ Answering(r))
           /\ Shorter(r) /\ SamePhase(r) /\ Head(todo[r]) = Del(FieldOf(r))
           /\ expiring' = (expiring /\ hash' # NoHash)
           /\ UNCHANGED <<place, question, seen, history, plan, reply, shown, faults>>
           /\ hash'.user = hash.user /\ hash'.reply = hash.reply /\ hash'.turns = hash.turns
           /\ hash'.dest = hash.dest
           /\ \/ FieldOf(r) = "ctx" /\ hash'.ctx = 0 /\ hash'.pending = hash.pending
              \/ FieldOf(r) = "pending" /\ hash'.ctx = hash.ctx /\ hash'.pending = 0
<1>1. /\ At(r, "del") /\ Continue(r, Tail(todo[r])) /\ hash' = FieldCleared(r)
      /\ expiring' = (expiring /\ hash' # NoHash)
      /\ UNCHANGED <<place, question, seen, history, plan, reply, shown, faults>>
  BY DEF ClearField, Keep, inputs
<1>2. (Clearing(r) \/ Answering(r)) /\ ~Closing(r)
  BY <1>1, PhaseAt, OnePhase
<1>3. FieldOf(r) \in ClearableField
  BY <1>1, DelField
<1>4. Head(todo[r]) = Del(FieldOf(r))
  BY <1>1, AtType DEF Op, OtherVerb, Del, FieldOf
<1>5. outcome'[r] = "running" /\ Shorter(r) /\ SamePhase(r)
  BY <1>1, <1>2, PopMoves
<1>6. hash \in Hash
  BY DEF TypeOK
<1>7. /\ hash'.user = hash.user /\ hash'.reply = hash.reply /\ hash'.turns = hash.turns
      /\ hash'.dest = hash.dest
      /\ \/ FieldOf(r) = "ctx" /\ hash'.ctx = 0 /\ hash'.pending = hash.pending
         \/ FieldOf(r) = "pending" /\ hash'.ctx = hash.ctx /\ hash'.pending = 0
  BY <1>1, <1>3, <1>6 DEF FieldCleared, ClearableField, Hash
<1>8. QED BY <1>1, <1>2, <1>4, <1>5, <1>7

(* A failed model call comes while the request decides or waits for its     *)
(* answer; any other failure is an interruption.                            *)
LEMMA FailureEffect ==
    ASSUME TypeOK, ListInv, NEW r \in Request, Failure(r)
    PROVE  \/ /\ "interruption" \in faults'
              /\ UNCHANGED <<place, question, reply>>
           \/ /\ Clearing(r) \/ Answering(r)
              /\ Head(todo[r]) \in {Local("route"), Local("answer")}
              /\ \A op : Has(r, op) => op \in {Local("route"), Local("answer")}
              /\ outcome'[r] = "failed" /\ plan'[r] = NoPlan
              /\ UNCHANGED <<hash, expiring, place, question, reply, shown, faults>>
<1>1. CASE ~ModelFails(r)
  BY <1>1 DEF Failure, RedisFails, RedisRepeats, RedisReplyLost, Fault, inputs
<1>2. CASE ModelFails(r)
  <2>1. /\ At(r, "route") \/ At(r, "answer")
        /\ outcome'[r] = "failed" /\ plan'[r] = NoPlan
        /\ UNCHANGED <<hash, expiring, place, question, reply, shown, faults>>
        /\ outcome[r] = "running" /\ todo[r] \in Seq(Op) /\ todo[r] # <<>>
    BY <1>2 DEF ModelFails, Abort, At, store, inputs, TypeOK
  <2>2. ~At(r, "del") /\ ~At(r, "expire") /\ ~At(r, "gate") /\ ~At(r, "set")
    BY <2>1, AtOne
  <2>3. Clearing(r) \/ Answering(r)
    BY <2>1, PhaseAt
  <2>4. Tail(todo[r]) = <<>>
    BY <2>1, <2>2, <2>3, PhaseHeads
  <2>5. Head(todo[r]) \in {Local("route"), Local("answer")}
    BY <2>1, AtType DEF Op, OtherVerb, Local
  <2>6. \A op : Has(r, op) => op \in {Local("route"), Local("answer")}
    <3>1. \A op : Has(r, op) => op = Head(todo[r]) \/ InSeq(op, Tail(todo[r]))
      BY <2>1, TailHas DEF Has
    <3>2. QED BY <2>4, <2>5, <3>1, EmptyList
  <2>7. QED BY <2>1, <2>3, <2>5, <2>6
<1>3. QED BY <1>1, <1>2
=============================================================================
