--------------------- MODULE ConversationSequentialProofs ---------------------
(***************************************************************************)
(* Theorems about a session whose client sends its next message after the  *)
(* previous answer (MaxInFlight = 1), for any number of requests, any      *)
(* texts and places, and any number of kept turns.                         *)
(***************************************************************************)
EXTENDS ConversationProofs, FiniteSetTheorems

-----------------------------------------------------------------------------
(* One message at a time.                                                   *)

(* The request that runs is the last one; a request that has not arrived    *)
(* has nothing.                                                             *)
SeqInv ==
    /\ \A r, q \in Request : outcome[r] = "running" /\ q > r => outcome[q] = "none"
    /\ \A r, q \in Request : outcome[r] # "none" /\ q < r => outcome[q] # "none"
    /\ \A r \in Request : outcome[r] # "none" => place[r] \in Place
    /\ \A r \in Request : outcome[r] = "none" =>
            /\ place[r] = NoPlace /\ question[r] = NoQuestion
            /\ plan[r] = NoPlan /\ seen[r] = NoHash

(* Two requests never run at once.                                          *)
LEMMA OneRuns ==
    ASSUME SeqInv, NEW r \in Request, NEW q \in Request,
           outcome[r] = "running", outcome[q] = "running"
    PROVE  r = q
BY DEF SeqInv, Request

(* A request arrives when none runs, and after all others.                  *)
LEMMA ArrivesAlone ==
    ASSUME MaxInFlight = 1, TypeOK, SeqInv,
           NEW r \in Request, NEW p \in Place, NEW q \in MaybeQuestion, Arrive(r, p, q)
    PROVE  /\ outcome[r] = "none"
           /\ \A w \in Request : outcome[w] # "running"
           /\ \A w \in Request : w < r => outcome[w] # "none"
           /\ \A w \in Request : w > r => outcome[w] = "none"
           /\ todo'[r] = Preparation /\ outcome'[r] = "running"
           /\ \A w \in Request : w # r => /\ todo'[w] = todo[w] /\ outcome'[w] = outcome[w]
                                          /\ place'[w] = place[w] /\ question'[w] = question[w]
           /\ place'[r] = p /\ question'[r] = q
           /\ UNCHANGED <<hash, expiring, seen, history, plan, reply, shown, faults>>
<1>1. IsFiniteSet(Request) /\ Running \subseteq Request
  BY FS_Interval, BoundsAssumption DEF Request, Running
<1>2. Cardinality(Running) < 1
  BY DEF Arrive
<1>3. Running = {}
  <2>1. IsFiniteSet(Running)
    BY <1>1, FS_Subset
  <2>2. Cardinality(Running) \in Nat
    BY <2>1, FS_CardinalityType
  <2>3. Cardinality(Running) = 0
    BY <1>2, <2>2
  <2>4. QED BY <2>1, <2>3, FS_EmptySet
<1>4. outcome[r] = "none" /\ \A w \in Request : outcome[w] # "running"
  BY <1>3 DEF Arrive, Arrived, Running
<1>5. ASSUME NEW w \in Request, w < r PROVE outcome[w] # "none"
  <2>1. w \in 1 .. r - 1
    BY <1>5 DEF Request
  <2>2. QED BY <2>1 DEF Arrive, Arrived
<1>6. ASSUME NEW w \in Request, w > r PROVE outcome[w] = "none"
  BY <1>4, <1>6 DEF SeqInv, Request
<1>7. Preparation # <<>>
  BY PreparationList DEF IsList
<1>8. /\ todo'[r] = Preparation /\ outcome'[r] = "running"
      /\ \A w \in Request : w # r => todo'[w] = todo[w] /\ outcome'[w] = outcome[w]
  BY <1>7 DEF Arrive, Continue, TypeOK
<1>9. /\ place'[r] = p /\ question'[r] = q
      /\ \A w \in Request : w # r => place'[w] = place[w] /\ question'[w] = question[w]
  BY DEF Arrive, TypeOK
<1>10. UNCHANGED <<hash, expiring, seen, history, plan, reply, shown, faults>>
  BY DEF Arrive, store
<1>11. QED BY <1>4, <1>5, <1>6, <1>8, <1>9, <1>10

(* A step of a request changes nothing of the others.                       *)
LEMMA StepFrame ==
    ASSUME TypeOK, NEW r \in Request, Step(r) \/ Failure(r)
    PROVE  /\ outcome[r] = "running" /\ outcome'[r] # "none"
           /\ UNCHANGED <<place, question>>
           /\ \A q \in Request : q # r =>
                  /\ todo'[q] = todo[q] /\ outcome'[q] = outcome[q] /\ seen'[q] = seen[q]
                  /\ history'[q] = history[q] /\ plan'[q] = plan[q] /\ reply'[q] = reply[q]
           /\ faults \subseteq faults'
<1>1. ASSUME NEW rest, Continue(r, rest)
      PROVE  /\ outcome'[r] # "none"
             /\ \A q \in Request : q # r => todo'[q] = todo[q] /\ outcome'[q] = outcome[q]
  BY <1>1 DEF Continue, TypeOK
<1>2. ASSUME NEW result, Abort(r, result)
      PROVE  /\ outcome'[r] = result
             /\ \A q \in Request : q # r =>
                    /\ todo'[q] = todo[q] /\ outcome'[q] = outcome[q] /\ seen'[q] = seen[q]
                    /\ history'[q] = history[q] /\ plan'[q] = plan[q]
  BY <1>2 DEF Abort, TypeOK
<1>3. CASE ReadField(r)
  BY <1>1, <1>3 DEF ReadField, At, inputs, TypeOK
<1>4. CASE SettleDestination(r)
  BY <1>1, <1>4 DEF SettleDestination, At, inputs, TypeOK
<1>5. ASSUME NEW mode \in Mode, RouteRequest(r, mode)
      PROVE  /\ outcome[r] = "running" /\ outcome'[r] # "none"
             /\ UNCHANGED <<place, question>>
             /\ \A q \in Request : q # r =>
                    /\ todo'[q] = todo[q] /\ outcome'[q] = outcome[q] /\ seen'[q] = seen[q]
                    /\ history'[q] = history[q] /\ plan'[q] = plan[q] /\ reply'[q] = reply[q]
             /\ faults \subseteq faults'
  BY <1>1, <1>5 DEF RouteRequest, At, inputs, TypeOK
<1>6. CASE ConsultGate(r)
  BY <1>1, <1>6 DEF ConsultGate, At, inputs
<1>7. CASE AnswerRequest(r)
  BY <1>1, <1>7 DEF AnswerRequest, At, inputs, TypeOK
<1>8. CASE LoadTurns(r)
  BY <1>1, <1>8 DEF LoadTurns, At, inputs, TypeOK
<1>9. CASE SaveExchange(r)
  BY <1>1, <1>9 DEF SaveExchange, At, inputs, TypeOK
<1>10. CASE WriteField(r)
  BY <1>1, <1>10 DEF WriteField, At, inputs
<1>11. CASE ClearField(r)
  BY <1>1, <1>11 DEF ClearField, At, inputs
<1>12. CASE ArmExpiry(r)
  BY <1>1, <1>12 DEF ArmExpiry, At, inputs
<1>13. CASE RedisFails(r)
  BY <1>2, <1>13 DEF RedisFails, AtRedis, Fault, At, inputs
<1>14. CASE RedisRepeats(r)
  BY <1>14 DEF RedisRepeats, Executed, Fault, At, inputs
<1>15. CASE RedisReplyLost(r)
  BY <1>2, <1>15 DEF RedisReplyLost, Executed, Fault, At, inputs
<1>16. CASE ModelFails(r)
  BY <1>2, <1>16 DEF ModelFails, At, inputs
<1>17. QED
  BY <1>3, <1>4, <1>5, <1>6, <1>7, <1>8, <1>9, <1>10, <1>11, <1>12, <1>13, <1>14, <1>15, <1>16
     DEF Step, Failure

(* Every step keeps the requests one after another.                         *)
LEMMA SeqStep ==
    ASSUME MaxInFlight = 1
    PROVE  TypeOK /\ SeqInv /\ [Next]_vars => SeqInv'
<1> SUFFICES ASSUME TypeOK, SeqInv, [Next]_vars PROVE SeqInv'
  OBVIOUS
<1>1. ASSUME NEW r \in Request, NEW p \in Place, NEW q \in MaybeQuestion, Arrive(r, p, q)
      PROVE  SeqInv'
  BY <1>1, ArrivesAlone DEF SeqInv, Request
<1>2. ASSUME NEW r \in Request, Step(r) \/ Failure(r) PROVE SeqInv'
  BY <1>2, StepFrame DEF SeqInv
<1>3. CASE Crash
  <2>1. /\ \A q \in Request : (outcome'[q] = "none" <=> outcome[q] = "none")
        /\ \A q \in Request : outcome'[q] # "running"
        /\ UNCHANGED <<place, question>>
        /\ \A q \in Request : outcome[q] # "running" => plan'[q] = plan[q]
        /\ \A q \in Request : seen'[q] = NoHash
    BY <1>3 DEF Crash, Running, inputs, TypeOK
  <2>2. QED BY <2>1 DEF SeqInv
<1>4. CASE Expire \/ UNCHANGED vars
  BY <1>4 DEF Expire, vars, inputs, SeqInv
<1>5. QED BY <1>1, <1>2, <1>3, <1>4 DEF Next, Done

(* The request that takes a step is the only one that runs.                 *)
LEMMA Alone ==
    ASSUME TypeOK, SeqInv, NEW r \in Request, Step(r) \/ Failure(r)
    PROVE  /\ outcome[r] = "running" /\ place[r] \in Place
           /\ \A w \in Request : outcome[w] = "running" => w = r
           /\ \A w \in Request : outcome'[w] = "running" => w = r
<1>1. outcome[r] = "running" /\ \A w \in Request : w # r => outcome'[w] = outcome[w]
  BY StepFrame
<1>2. \A w \in Request : outcome[w] = "running" => w = r
  BY <1>1, OneRuns
<1>3. QED BY <1>1, <1>2 DEF SeqInv

-----------------------------------------------------------------------------
(* A pending question belongs to its destination.                           *)

AskedFor(i, p) == i # 0 => place[i] = p /\ p # NoPlace

(* What the running request knows of the pending question: before it has    *)
(* read the destination it has not read the question; what it has read, and *)
(* what the hash holds, was asked for the destination the hash showed; and  *)
(* once it is routed, for its own destination.                              *)
OwnPending(r) ==
    /\ Reading(r) =>
         /\ Has(r, Get("dest")) => seen[r].ctx = 0
         /\ ~Has(r, Get("dest")) => AskedFor(hash.ctx, seen[r].dest)
         /\ AskedFor(seen[r].ctx, seen[r].dest)
    /\ Clearing(r) =>
         /\ Has(r, Del("ctx")) \/ AskedFor(hash.ctx, place[r])
         /\ AskedFor(seen[r].ctx, place[r])
    /\ Answering(r) \/ Persisting(r) \/ Closing(r) => AskedFor(hash.ctx, place[r])

ForeignInv ==
    Uninterrupted =>
        /\ \/ AskedFor(hash.ctx, hash.dest)
           \/ \E r \in Request : /\ outcome[r] = "running" /\ Persisting(r)
                                 /\ AskedFor(hash.ctx, place[r])
        /\ \A r \in Request : outcome[r] = "running" => OwnPending(r)

(* A step of the running request keeps the question with its destination.   *)
LEMMA ForeignStep ==
    ASSUME TypeOK, ListInv, SeqInv, ForeignInv, NEW r \in Request, Step(r), Uninterrupted
    PROVE  /\ \/ AskedFor(hash.ctx, hash.dest)'
              \/ outcome'[r] = "running" /\ Persisting(r)' /\ AskedFor(hash.ctx, place[r])'
           /\ outcome'[r] = "running" => OwnPending(r)'
<1>1. /\ outcome[r] = "running" /\ place[r] \in Place /\ place[r] # NoPlace
      /\ \A w \in Request : outcome[w] = "running" => w = r
  BY Alone, BoundsAssumption
<1>2. /\ OwnPending(r)
      /\ \/ AskedFor(hash.ctx, hash.dest)
         \/ Persisting(r) /\ AskedFor(hash.ctx, place[r])
  BY <1>1 DEF ForeignInv
<1>4. ASSUME ReadField(r)
      PROVE  AskedFor(hash.ctx, hash.dest)' /\ OwnPending(r)'
  <2>1. PICK f \in ReadableField :
              /\ Has(r, Get(f))
              /\ seen'[r][f] = hash[f]
              /\ \A g \in Field : g # f => seen'[r][g] = seen[r][g]
              /\ Has(r, Get("dest"))' => Has(r, Get("dest"))
              /\ Has(r, Get("dest")) => f = "dest" \/ Has(r, Get("dest"))'
              /\ f = "ctx" => ~Has(r, Get("dest"))'
    BY <1>4, ReadEffect DEF ReadableField, Field
  <2>2. /\ Reading(r) /\ Reading(r)' /\ ~Persisting(r)
        /\ UNCHANGED <<hash, place>>
    BY <1>4, ReadEffect, OnePhase
  <2>3. AskedFor(hash.ctx, hash.dest) /\ AskedFor(seen[r].ctx, seen[r].dest)
    BY <1>2, <2>2 DEF OwnPending
  <2>4. Has(r, Get("dest"))' => seen'[r].ctx = 0
    BY <1>2, <2>1, <2>2 DEF OwnPending, Field, ReadableField
  <2>5. ~Has(r, Get("dest"))' => AskedFor(hash.ctx, seen'[r].dest)
    BY <1>2, <2>1, <2>2, <2>3 DEF OwnPending, Field, ReadableField
  <2>6. AskedFor(seen'[r].ctx, seen'[r].dest)
    BY <1>2, <2>1, <2>2, <2>3 DEF OwnPending, Field, ReadableField, AskedFor
  <2>7. ~Clearing(r)' /\ ~Answering(r)' /\ ~Persisting(r)' /\ ~Closing(r)'
    BY <2>2, OneList DEF Reading, Clearing, Answering, Persisting, Closing
  <2>8. QED BY <2>2, <2>3, <2>4, <2>5, <2>6, <2>7 DEF OwnPending, AskedFor
<1>5. ASSUME SettleDestination(r)
      PROVE  AskedFor(hash.ctx, hash.dest)' /\ OwnPending(r)'
  <2>1. /\ Reading(r) /\ Clearing(r)' /\ ~Persisting(r) /\ UNCHANGED <<hash, place>>
        /\ ~Has(r, Get("dest"))
    BY <1>5, SettleEffect, OnePhase
  <2>2. /\ AskedFor(hash.ctx, hash.dest)
        /\ AskedFor(hash.ctx, seen[r].dest) /\ AskedFor(seen[r].ctx, seen[r].dest)
    BY <1>2, <2>1 DEF OwnPending
  <2>3. ASSUME DestinationChanged(r)
        PROVE  seen'[r].ctx = 0 /\ Has(r, Del("ctx"))'
    <3>1. seen[r] \in Hash /\ seen'[r] = [seen[r] EXCEPT !.turns = <<>>, !.ctx = 0, !.pending = 0]
      BY <1>5, <2>3, SettleEffect DEF TypeOK, ViewAfterReset
    <3>2. seen'[r].ctx = 0
      BY <3>1 DEF Hash
    <3>3. QED BY <1>5, <2>3, <3>2, SettleEffect
  <2>4. ASSUME ~DestinationChanged(r)
        PROVE  AskedFor(hash.ctx, place[r]) /\ AskedFor(seen'[r].ctx, place[r])
    <3>1. seen' = seen /\ (seen[r].dest = NoPlace \/ seen[r].dest = place[r])
      BY <1>5, <2>4, SettleEffect DEF DestinationChanged
    <3>2. QED BY <2>2, <3>1 DEF AskedFor
  <2>5. ~Reading(r)' /\ ~Answering(r)' /\ ~Persisting(r)' /\ ~Closing(r)'
    BY <2>1, OneList DEF Reading, Clearing, Answering, Persisting, Closing
  <2>6. QED BY <2>1, <2>2, <2>3, <2>4, <2>5 DEF OwnPending, AskedFor
<1>6. ASSUME NEW mode \in Mode, RouteRequest(r, mode)
      PROVE  AskedFor(hash.ctx, hash.dest)' /\ OwnPending(r)'
  <2>1. /\ Clearing(r) /\ ~Persisting(r) /\ UNCHANGED <<hash, place>>
        /\ Answering(r)' \/ Persisting(r)'
        /\ \A op : Has(r, op) => op = Local("route")
    BY <1>6, RouteEffect, OnePhase DEF Path
  <2>2. ~Has(r, Del("ctx"))
    BY <2>1 DEF Del, Local
  <2>3. AskedFor(hash.ctx, hash.dest) /\ AskedFor(hash.ctx, place[r])
    BY <1>2, <2>1, <2>2 DEF OwnPending
  <2>4. ~Reading(r)' /\ ~Clearing(r)'
    BY <2>1, OneList DEF Reading, Clearing, Answering, Persisting
  <2>5. QED BY <2>1, <2>3, <2>4 DEF OwnPending, AskedFor
<1>7. ASSUME ConsultGate(r) \/ LoadTurns(r) \/ ArmExpiry(r)
      PROVE  /\ \/ AskedFor(hash.ctx, hash.dest)'
                \/ outcome'[r] = "running" /\ Persisting(r)' /\ AskedFor(hash.ctx, place[r])'
             /\ outcome'[r] = "running" => OwnPending(r)'
  <2>1. /\ UNCHANGED <<hash, place>> /\ ~Reading(r) /\ ~Clearing(r)
        /\ \/ Closing(r) /\ outcome'[r] = "answered"
           \/ ~Closing(r) /\ outcome'[r] = "running" /\ SamePhase(r)
    BY <1>7, PassEffect
  <2>2. Closing(r) => ~Persisting(r)
    BY OnePhase
  <2>3. QED BY <1>2, <2>1, <2>2 DEF OwnPending, AskedFor, SamePhase
<1>8. ASSUME AnswerRequest(r)
      PROVE  AskedFor(hash.ctx, hash.dest)' /\ OwnPending(r)'
  <2>1. /\ Answering(r) /\ ~Persisting(r) /\ Persisting(r)' /\ UNCHANGED <<hash, place>>
    BY <1>8, AnswerEffect, OnePhase
  <2>2. ~Reading(r)' /\ ~Clearing(r)'
    BY <2>1, OneList DEF Reading, Clearing, Persisting
  <2>3. QED BY <1>2, <2>1, <2>2 DEF OwnPending, AskedFor
<1>9. ASSUME SaveExchange(r)
      PROVE  /\ outcome'[r] = "running" /\ Persisting(r)' /\ AskedFor(hash.ctx, place[r])'
             /\ OwnPending(r)'
  <2>1. /\ outcome'[r] = "running" /\ Persisting(r) /\ SamePhase(r) /\ UNCHANGED place
        /\ ~Reading(r) /\ ~Clearing(r)
    BY <1>9, SaveEffect, OnePhase
  <2>2. hash'.ctx = hash.ctx
    BY <1>9, SaveEffect DEF ExchangeSaved, TypeOK, Hash
  <2>3. QED BY <1>2, <2>1, <2>2 DEF OwnPending, AskedFor, SamePhase
<1>10. ASSUME WriteField(r)
       PROVE  /\ \/ AskedFor(hash.ctx, hash.dest)'
                 \/ outcome'[r] = "running" /\ Persisting(r)' /\ AskedFor(hash.ctx, place[r])'
              /\ outcome'[r] = "running" => OwnPending(r)'
  <2>1. /\ Answering(r) \/ Persisting(r)
        /\ ~Reading(r) /\ ~Clearing(r)
        /\ outcome'[r] = "running" /\ UNCHANGED place
    <3>1. /\ Answering(r) \/ Persisting(r)
          /\ outcome'[r] = "running" /\ UNCHANGED <<place, question, seen, history, plan, reply, shown, faults>>
      BY <1>10, WriteEffect
    <3>2. QED BY <3>1, OnePhase
  <2>2. AskedFor(hash.ctx, place[r])
    BY <1>2, <2>1 DEF OwnPending
  <2>3. CASE Persisting(r) /\ Closing(r)' /\ hash'.dest = place[r] /\ hash'.ctx = hash.ctx
    <3>1. ~Reading(r)' /\ ~Clearing(r)'
      BY <2>3, OneList DEF Reading, Clearing, Closing
    <3>2. QED BY <2>1, <2>2, <2>3, <3>1 DEF OwnPending, AskedFor
  <2>4. CASE SamePhase(r) /\ hash'.dest = hash.dest /\ hash'.ctx = hash.ctx
    BY <1>2, <2>1, <2>2, <2>4 DEF OwnPending, AskedFor, SamePhase
  <2>5. CASE SamePhase(r) /\ Persisting(r) /\ hash'.ctx = r
    BY <1>1, <2>1, <2>5 DEF OwnPending, AskedFor, SamePhase
  <2>6. QED BY <1>10, <2>3, <2>4, <2>5, WriteEffect
<1>11. ASSUME ClearField(r)
       PROVE  AskedFor(hash.ctx, hash.dest)' /\ OwnPending(r)'
  <2>1. /\ Clearing(r) \/ Answering(r)
        /\ ~Reading(r) /\ ~Persisting(r) /\ ~Closing(r)
        /\ SamePhase(r) /\ Shorter(r) /\ UNCHANGED <<place, seen>>
        /\ hash'.dest = hash.dest /\ Head(todo[r]) = Del(FieldOf(r))
        /\ \/ FieldOf(r) = "ctx" /\ hash'.ctx = 0
           \/ FieldOf(r) = "pending" /\ hash'.ctx = hash.ctx
    BY <1>11, ClearEffect, OnePhase
  <2>2. AskedFor(hash.ctx, hash.dest)
    BY <1>2, <2>1
  <2>3. CASE FieldOf(r) = "ctx" /\ hash'.ctx = 0
    BY <1>2, <2>1, <2>3 DEF OwnPending, AskedFor, SamePhase
  <2>4. CASE FieldOf(r) = "pending" /\ hash'.ctx = hash.ctx
    <3>1. Has(r, Del("ctx")) => Has(r, Del("ctx"))'
      BY <2>1, <2>4 DEF Shorter, Del
    <3>2. QED BY <1>2, <2>1, <2>2, <2>4, <3>1 DEF OwnPending, AskedFor, SamePhase
  <2>5. QED BY <2>1, <2>3, <2>4
<1>12. QED
  BY <1>4, <1>5, <1>6, <1>7, <1>8, <1>9, <1>10, <1>11 DEF Step

(* Every step does.                                                         *)
LEMMA ForeignNext ==
    ASSUME MaxInFlight = 1
    PROVE  TypeOK /\ ListInv /\ SeqInv /\ ForeignInv /\ [Next]_vars => ForeignInv'
<1> SUFFICES ASSUME TypeOK, ListInv, SeqInv, ForeignInv, [Next]_vars, Uninterrupted'
             PROVE  ForeignInv'
  BY DEF ForeignInv
<1>1. ASSUME NEW r \in Request, NEW p \in Place, NEW q \in MaybeQuestion, Arrive(r, p, q)
      PROVE  ForeignInv'
  <2>1. /\ UNCHANGED <<hash, seen, faults>>
        /\ outcome[r] = "none" /\ todo'[r] = Preparation
        /\ \A w \in Request : outcome[w] # "running"
        /\ \A w \in Request : w # r => place'[w] = place[w] /\ outcome'[w] = outcome[w]
    BY <1>1, ArrivesAlone
  <2>2. AskedFor(hash.ctx, hash.dest)
    BY <2>1 DEF ForeignInv, Uninterrupted
  <2>3. (hash.ctx \in Request /\ hash.ctx # r) \/ hash.ctx = 0
    <3>1. hash.ctx \in Request \/ hash.ctx = 0
      BY DEF TypeOK, Hash, Text, Request
    <3>2. place[r] = NoPlace
      BY <2>1 DEF SeqInv
    <3>3. QED BY <2>2, <3>1, <3>2 DEF AskedFor
  <2>4. AskedFor(hash.ctx, hash.dest)'
    BY <2>1, <2>2, <2>3 DEF AskedFor
  <2>5. Reading(r)' /\ Has(r, Get("dest"))' /\ seen'[r].ctx = 0
    <3>1. seen[r] = NoHash /\ "dest" \in ReadableField
      BY <2>1 DEF SeqInv, ReadableField, Field
    <3>2. QED BY <2>1, <3>1, PreparationList DEF Reading, Has, NoHash
  <2>6. ~Clearing(r)' /\ ~Answering(r)' /\ ~Persisting(r)' /\ ~Closing(r)'
    BY <2>5, OneList DEF Reading, Clearing, Answering, Persisting, Closing
  <2>7. OwnPending(r)'
    BY <2>5, <2>6 DEF OwnPending, AskedFor
  <2>8. \A w \in Request : outcome'[w] = "running" => w = r
    BY <2>1
  <2>9. QED BY <2>4, <2>7, <2>8 DEF ForeignInv
<1>2. ASSUME NEW r \in Request, Step(r) PROVE ForeignInv'
  <2>1. Uninterrupted /\ \A w \in Request : outcome'[w] = "running" => w = r
    BY <1>2, StepFrame, Alone DEF Uninterrupted
  <2>2. QED BY <1>2, <2>1, ForeignStep DEF ForeignInv
<1>3. ASSUME NEW r \in Request, Failure(r) PROVE ForeignInv'
  <2>1. /\ \A w \in Request : outcome[w] = "running" => w = r
        /\ \A w \in Request : outcome'[w] = "running" => w = r
    BY <1>3, Alone
  <2>2. /\ Clearing(r) \/ Answering(r)
        /\ outcome'[r] = "failed"
        /\ UNCHANGED <<hash, place, faults>>
    BY <1>3, FailureEffect DEF Uninterrupted
  <2>3. AskedFor(hash.ctx, hash.dest)
    BY <2>1, <2>2, OnePhase DEF ForeignInv, Uninterrupted
  <2>4. QED BY <2>1, <2>2, <2>3 DEF ForeignInv, AskedFor
<1>4. CASE Crash
  BY <1>4 DEF Crash, Fault, Uninterrupted
<1>5. CASE Expire
  <2>1. /\ UNCHANGED <<place, todo, seen, outcome>> /\ hash'.ctx = 0 /\ Uninterrupted
    BY <1>5 DEF Expire, Fault, Uninterrupted, inputs, NoHash
  <2>2. ASSUME NEW r \in Request, outcome'[r] = "running" PROVE OwnPending(r)'
    <3>1. OwnPending(r)
      BY <2>1, <2>2 DEF ForeignInv
    <3>2. /\ Reading(r)' <=> Reading(r)
          /\ Clearing(r)' <=> Clearing(r)
          /\ Has(r, Get("dest"))' <=> Has(r, Get("dest"))
      BY <2>1 DEF Reading, Clearing, Has
    <3>3. QED BY <2>1, <3>1, <3>2 DEF OwnPending, AskedFor
  <2>3. QED BY <2>1, <2>2 DEF ForeignInv, AskedFor
<1>6. CASE UNCHANGED vars
  BY <1>6 DEF vars, ForeignInv, OwnPending, AskedFor, Uninterrupted, Reading, Clearing,
              Answering, Persisting, Closing, Has
<1>7. QED BY <1>1, <1>2, <1>3, <1>4, <1>5, <1>6 DEF Next, Done

(* An empty session satisfies the invariants so far.                        *)
LEMMA SequentialInit == Init => TypeOK /\ ListInv /\ SeqInv /\ ForeignInv
<1> SUFFICES ASSUME Init PROVE ListInv /\ SeqInv /\ ForeignInv
  BY InitType
<1>1. ListInv
  BY EmptyList DEF Init, ListInv
<1>2. SeqInv
  BY DEF Init, SeqInv
<1>3. ForeignInv
  BY DEF Init, ForeignInv, AskedFor, NoHash
<1>4. QED BY <1>1, <1>2, <1>3

(* With one message at a time, a question that waits for its origin is      *)
(* taken up by a request only for the destination it was asked for, however *)
(* often the user switches in between, and after any failed model call or   *)
(* the end of the TTL (reset_session_for_destination_change).               *)
THEOREM PendingStaysWithItsDestination ==
    ASSUME MaxInFlight = 1 PROVE Spec => []NoForeignPending
<1>1. TypeOK /\ ListInv /\ SeqInv /\ ForeignInv /\ [Next]_vars
        => (TypeOK /\ ListInv /\ SeqInv /\ ForeignInv)'
  BY StepType, ListStep, SeqStep, ForeignNext
<1>2. TypeOK /\ ListInv /\ SeqInv /\ ForeignInv => NoForeignPending
  <2> SUFFICES ASSUME TypeOK, ListInv, ForeignInv, Uninterrupted,
                      NEW r \in Request, At(r, "route"), AwaitingOrigin(r)
               PROVE  place[seen[r].ctx] = place[r]
    BY DEF NoForeignPending
  <2>1. Clearing(r) /\ outcome[r] = "running"
    BY PhaseAt DEF At
  <2>2. QED BY <2>1 DEF ForeignInv, OwnPending, AskedFor, AwaitingOrigin
<1>3. QED BY <1>1, <1>2, SequentialInit, PTL DEF Spec

-----------------------------------------------------------------------------
(* The two records of a pending question.                                   *)

(* The commands a list can hold.                                            *)
LEMMA ListCommands ==
    ASSUME NEW s
    PROVE  /\ IsList(s, ReadBody, Local("settle")) =>
                \A op : InSeq(op, s) => op \in ReadBody \cup {Local("settle")}
           /\ IsList(s, ClearBody, Local("route")) =>
                \A op : InSeq(op, s) => op \in ClearBody \cup {Local("route")}
           /\ IsList(s, AnswerBody, Local("answer")) =>
                \A op : InSeq(op, s) => op \in AnswerBody \cup {Local("answer")}
           /\ IsList(s, PersistBody, Set("dest")) =>
                \A op : InSeq(op, s) => op \in PersistBody \cup {Set("dest")}
           /\ s = <<Local("expire")>> => \A op : InSeq(op, s) => op = Local("expire")
<1>1. ASSUME NEW body, NEW end, IsList(s, body, end), NEW op, InSeq(op, s)
      PROVE  op \in body \cup {end}
  BY <1>1 DEF IsList, InSeq
<1>2. s = <<Local("expire")>> => \A op : InSeq(op, s) => op = Local("expire")
  BY SingleList, Commands
<1>3. QED BY <1>1, <1>2

PairOps == {Set("ctx"), Set("pending"), Del("ctx"), Del("pending")}

(* The records are written and deleted in the phases for it only.           *)
LEMMA PairCommands ==
    /\ PairOps \cap (ReadBody \cup {Local("settle")}) = {}
    /\ PairOps \cap {Local("route"), Local("answer"), Local("expire"), Local("gate"),
                     Local("load"), Local("save"), Set("dest"), Set("origin")} = {}
    /\ {Set("ctx"), Set("pending")} \cap (ClearBody \cup {Local("route")}) = {}
    /\ {Set("ctx"), Set("pending")} \cap (AnswerBody \cup {Local("answer")}) = {}
    /\ {Del("ctx"), Del("pending")} \cap (PersistBody \cup {Set("dest")}) = {}
    /\ Set("ctx") # Set("pending") /\ Del("ctx") # Del("pending")
    /\ {Set("ctx"), Set("pending")} \cap {Del("ctx"), Del("pending")} = {}
<1>1. PairOps \cap (ReadBody \cup {Local("settle")}) = {}
  BY DEF PairOps, ReadBody, Set, Del, Local
<1>2. PairOps \cap {Local("route"), Local("answer"), Local("expire"), Local("gate"),
                    Local("load"), Local("save"), Set("dest"), Set("origin")} = {}
  BY DEF PairOps, Set, Del, Local
<1>3. {Set("ctx"), Set("pending")} \cap (ClearBody \cup {Local("route")}) = {}
  BY DEF ClearBody, Set, Del, Local
<1>4. {Set("ctx"), Set("pending")} \cap (AnswerBody \cup {Local("answer")}) = {}
  BY DEF AnswerBody, ClearBody, Set, Del, Local
<1>5. {Del("ctx"), Del("pending")} \cap (PersistBody \cup {Set("dest")}) = {}
  BY DEF PersistBody, Set, Del, Local
<1>6. /\ Set("ctx") # Set("pending") /\ Del("ctx") # Del("pending")
      /\ {Set("ctx"), Set("pending")} \cap {Del("ctx"), Del("pending")} = {}
  BY DEF Set, Del
<1>7. QED BY <1>1, <1>2, <1>3, <1>4, <1>5, <1>6

(* A request that has one of the two writes or deletes to do is past the    *)
(* other one, and what that one left is in the hash.                        *)
Halfway(r) ==
    /\ Has(r, Set("ctx")) => Has(r, Set("pending"))
    /\ Has(r, Del("ctx")) => Has(r, Del("pending"))
    /\ Has(r, Set("pending")) => Has(r, Set("ctx")) \/ hash.ctx = r
    /\ Has(r, Del("pending")) => Has(r, Del("ctx")) \/ hash.ctx = 0

PairInv ==
    faults = {} =>
        /\ \/ hash.ctx = hash.pending
           \/ \E r \in Request : /\ outcome[r] = "running"
                                 /\ Has(r, Set("pending")) \/ Has(r, Del("pending"))
        /\ \A r \in Request : outcome[r] = "running" => Halfway(r)

(* A step of the running request keeps the two records together.            *)
LEMMA PairStep ==
    ASSUME TypeOK, ListInv, SeqInv, PairInv, NEW r \in Request, Step(r), faults = {}
    PROVE  /\ \/ hash'.ctx = hash'.pending
              \/ /\ outcome'[r] = "running"
                 /\ Has(r, Set("pending"))' \/ Has(r, Del("pending"))'
           /\ outcome'[r] = "running" => Halfway(r)'
<1>1. /\ outcome[r] = "running"
      /\ \A w \in Request : outcome[w] = "running" => w = r
  BY Alone
<1>2. /\ Halfway(r)
      /\ hash.ctx = hash.pending \/ Has(r, Set("pending")) \/ Has(r, Del("pending"))
  BY <1>1 DEF PairInv
<1>3. ASSUME \A op \in PairOps : ~Has(r, op)' PROVE Halfway(r)'
  BY <1>3 DEF Halfway, PairOps
<1>4. ASSUME \A op \in PairOps : Has(r, op)' <=> Has(r, op), hash' = hash
      PROVE  /\ Halfway(r)'
             /\ \/ hash'.ctx = hash'.pending
                \/ Has(r, Set("pending"))' \/ Has(r, Del("pending"))'
  BY <1>2, <1>4 DEF Halfway, PairOps
<1>5. CASE ReadField(r)
  <2>1. Reading(r) /\ Reading(r)' /\ hash' = hash
    BY <1>5, ReadEffect
  <2>2. \A op \in PairOps : ~Has(r, op) /\ ~Has(r, op)'
    BY <2>1, ListCommands, PairCommands DEF Reading, Has
  <2>3. QED BY <1>2, <1>3, <2>1, <2>2 DEF PairOps
<1>6. CASE SettleDestination(r)
  <2>1. Reading(r) /\ Clearing(r)' /\ hash' = hash
    BY <1>6, SettleEffect
  <2>2. \A op \in PairOps : ~Has(r, op)
    BY <2>1, ListCommands, PairCommands DEF Reading, Has
  <2>3. hash.ctx = hash.pending
    BY <1>2, <2>2 DEF PairOps
  <2>4. ~Has(r, Set("ctx"))' /\ ~Has(r, Set("pending"))'
    BY <2>1, ListCommands, PairCommands DEF Clearing, Has
  <2>5. Has(r, Del("ctx"))' <=> Has(r, Del("pending"))'
    BY <1>6, SettleEffect, PairCommands DEF PairOps
  <2>6. QED BY <2>1, <2>3, <2>4, <2>5 DEF Halfway
<1>7. ASSUME NEW mode \in Mode, RouteRequest(r, mode)
      PROVE  hash'.ctx = hash'.pending /\ Halfway(r)'
  <2>1. \A op \in PairOps : ~Has(r, op)
    BY <1>7, RouteEffect, PairCommands
  <2>2. hash' = hash /\ hash.ctx = hash.pending
    BY <1>2, <1>7, <2>1, RouteEffect DEF PairOps
  <2>3. /\ Has(r, Set("pending"))' <=> Has(r, Set("ctx"))'
        /\ Has(r, Del("pending"))' <=> Has(r, Del("ctx"))'
    BY <1>7, RouteEffect
  <2>4. QED BY <2>2, <2>3 DEF Halfway
<1>8. CASE ConsultGate(r) \/ LoadTurns(r) \/ ArmExpiry(r)
  <2>1. /\ hash' = hash
        /\ \A op \in PairOps : Has(r, op)' <=> Has(r, op)
        /\ Closing(r) \/ outcome'[r] = "running"
    BY <1>8, PassEffect, PairCommands
  <2>2. Closing(r) => \A op \in PairOps : ~Has(r, op)
    BY ListCommands, PairCommands DEF Closing, Has
  <2>3. Closing(r) => hash.ctx = hash.pending
    BY <1>2, <2>2 DEF PairOps
  <2>4. QED BY <1>4, <2>1, <2>3
<1>9. CASE AnswerRequest(r)
  <2>1. /\ hash' = hash
        /\ \A op \in PairOps : ~Has(r, op)
        /\ \A op \in PairOps : ~Has(r, op)'
    BY <1>9, AnswerEffect, PairCommands
  <2>2. QED BY <1>2, <1>3, <2>1 DEF PairOps
<1>10. CASE SaveExchange(r)
  <2>1. outcome'[r] = "running" /\ hash'.ctx = hash.ctx /\ hash'.pending = hash.pending
    BY <1>10, SaveEffect DEF ExchangeSaved, TypeOK, Hash
  <2>2. Head(todo[r]) = Local("save") /\ Shorter(r)
    BY <1>10, SaveEffect
  <2>3. \A op \in PairOps : Has(r, op)' <=> Has(r, op)
    BY <2>2, PairCommands DEF Shorter
  <2>4. QED BY <1>2, <2>1, <2>3 DEF Halfway, PairOps
<1>11. CASE WriteField(r)
  <2>1. outcome'[r] = "running" /\ Shorter(r) /\ Head(todo[r]) = Set(FieldOf(r))
    BY <1>11, WriteEffect
  <2>2. CASE FieldOf(r) \in {"dest", "origin"} /\ hash'.ctx = hash.ctx /\ hash'.pending = hash.pending
    <3>1. Head(todo[r]) \in {Set("dest"), Set("origin")}
      BY <2>1, <2>2
    <3>2. \A op \in PairOps : Has(r, op)' <=> Has(r, op)
      BY <2>1, <3>1, PairCommands DEF Shorter
    <3>3. QED BY <1>2, <2>1, <2>2, <3>2 DEF Halfway, PairOps
  <2>3. CASE FieldOf(r) = "ctx" /\ Persisting(r) /\ SamePhase(r)
             /\ hash'.ctx = r /\ hash'.pending = hash.pending
    <3>1. Has(r, Set("ctx")) /\ Head(todo[r]) = Set("ctx")
      BY <1>11, <2>1, <2>3, HasHead DEF WriteField
    <3>2. Has(r, Set("pending"))'
      BY <1>2, <2>1, <3>1, PairCommands DEF Halfway, Shorter
    <3>3. ~Has(r, Del("ctx"))' /\ ~Has(r, Del("pending"))'
      BY <2>3, ListCommands, PairCommands DEF SamePhase, Persisting, Has
    <3>4. QED BY <2>1, <2>3, <3>2, <3>3 DEF Halfway
  <2>4. CASE FieldOf(r) = "pending" /\ Persisting(r) /\ SamePhase(r)
             /\ hash'.ctx = hash.ctx /\ hash'.pending = r
    <3>1. Has(r, Set("pending")) /\ Head(todo[r]) = Set("pending")
      BY <1>11, <2>1, <2>4, HasHead DEF WriteField
    <3>2. Set("ctx") # Local("expire") /\ <<Set("pending"), Set("ctx")>> \in Disorder
      BY DEF Disorder, Set, Local
    <3>3. ~Has(r, Set("ctx"))'
      BY <2>1, <3>1, <3>2 DEF Shorter
    <3>4. hash.ctx = r
      BY <1>2, <2>1, <3>1, <3>3, PairCommands DEF Halfway, Shorter
    <3>5. ~Has(r, Del("ctx"))' /\ ~Has(r, Del("pending"))'
      BY <2>4, ListCommands, PairCommands DEF SamePhase, Persisting, Has
    <3>6. QED BY <2>1, <2>4, <3>3, <3>4, <3>5 DEF Halfway
  <2>5. QED BY <1>11, <2>2, <2>3, <2>4, WriteEffect
<1>12. CASE ClearField(r)
  <2>1. /\ outcome'[r] = "running" /\ Shorter(r) /\ Head(todo[r]) = Del(FieldOf(r))
        /\ SamePhase(r) /\ (Clearing(r) \/ Answering(r))
    BY <1>12, ClearEffect
  <2>2. Has(r, Del(FieldOf(r)))
    BY <1>12, <2>1, HasHead DEF ClearField
  <2>3. ~Has(r, Set("ctx"))' /\ ~Has(r, Set("pending"))'
    BY <2>1, ListCommands, PairCommands DEF SamePhase, Clearing, Answering, Has
  <2>4. CASE FieldOf(r) = "ctx" /\ hash'.ctx = 0 /\ hash'.pending = hash.pending
    <3>1. Has(r, Del("pending"))'
      BY <1>2, <2>1, <2>2, <2>4, PairCommands DEF Halfway, Shorter
    <3>2. QED BY <2>1, <2>3, <2>4, <3>1 DEF Halfway
  <2>5. CASE FieldOf(r) = "pending" /\ hash'.ctx = hash.ctx /\ hash'.pending = 0
    <3>1. Del("ctx") # Local("expire") /\ <<Del("pending"), Del("ctx")>> \in Disorder
      BY DEF Disorder, Del, Local
    <3>2. ~Has(r, Del("ctx"))'
      BY <2>1, <2>5, <3>1 DEF Shorter
    <3>3. hash.ctx = 0
      BY <1>2, <2>1, <2>2, <2>5, <3>2, PairCommands DEF Halfway, Shorter
    <3>4. QED BY <2>1, <2>3, <2>5, <3>2, <3>3 DEF Halfway
  <2>6. QED BY <1>12, <2>4, <2>5, ClearEffect
<1>13. QED
  BY <1>1, <1>5, <1>6, <1>7, <1>8, <1>9, <1>10, <1>11, <1>12 DEF Step

(* Every step does.                                                         *)
LEMMA PairNext ==
    ASSUME MaxInFlight = 1
    PROVE  TypeOK /\ ListInv /\ SeqInv /\ PairInv /\ [Next]_vars => PairInv'
<1> SUFFICES ASSUME TypeOK, ListInv, SeqInv, PairInv, [Next]_vars, faults' = {}
             PROVE  PairInv'
  BY DEF PairInv
<1>1. ASSUME NEW r \in Request, NEW p \in Place, NEW q \in MaybeQuestion, Arrive(r, p, q)
      PROVE  PairInv'
  <2>1. /\ UNCHANGED <<hash, faults>> /\ todo'[r] = Preparation
        /\ \A w \in Request : outcome[w] # "running"
        /\ \A w \in Request : w # r => outcome'[w] = outcome[w]
    BY <1>1, ArrivesAlone
  <2>2. hash.ctx = hash.pending
    BY <2>1 DEF PairInv
  <2>3. \A op \in PairOps : ~Has(r, op)'
    BY <2>1, PreparationList, ListCommands, PairCommands DEF Has
  <2>4. Halfway(r)'
    BY <2>3 DEF Halfway, PairOps
  <2>5. QED BY <2>1, <2>2, <2>4 DEF PairInv
<1>2. ASSUME NEW r \in Request, Step(r) PROVE PairInv'
  <2>1. faults = {} /\ \A w \in Request : outcome'[w] = "running" => w = r
    BY <1>2, StepFrame, Alone
  <2>2. QED BY <1>2, <2>1, PairStep DEF PairInv
<1>3. ASSUME NEW r \in Request, Failure(r) PROVE PairInv'
  <2>1. /\ \A w \in Request : outcome[w] = "running" => w = r
        /\ \A w \in Request : outcome'[w] = "running" => w = r
    BY <1>3, Alone
  <2>2. /\ \A op : Has(r, op) => op \in {Local("route"), Local("answer")}
        /\ outcome'[r] = "failed"
        /\ UNCHANGED <<hash, faults>>
    BY <1>3, FailureEffect
  <2>3. ~Has(r, Set("pending")) /\ ~Has(r, Del("pending"))
    BY <2>2, PairCommands DEF PairOps
  <2>4. QED BY <2>1, <2>2, <2>3 DEF PairInv
<1>4. CASE Crash \/ Expire
  BY <1>4 DEF Crash, Expire, Fault
<1>5. CASE UNCHANGED vars
  BY <1>5 DEF vars, PairInv, Halfway, Has
<1>6. QED BY <1>1, <1>2, <1>3, <1>4, <1>5 DEF Next, Done

(* With one message at a time, between two requests the session either      *)
(* holds both records of a question that waits for its origin or neither,   *)
(* and the question was asked for the active destination; failed model      *)
(* calls in any request change nothing about that (_clear_pending_origin    *)
(* and its two writers, set_active_destination).                            *)
THEOREM PendingRecordsAgree ==
    ASSUME MaxInFlight = 1 PROVE Spec => []PendingPairAgrees
<1> DEFINE Inv == TypeOK /\ ListInv /\ SeqInv /\ ForeignInv /\ PairInv
<1>1. Init => Inv
  BY SequentialInit DEF Init, PairInv, NoHash
<1>2. Inv /\ [Next]_vars => Inv'
  BY StepType, ListStep, SeqStep, ForeignNext, PairNext
<1>3. Inv => PendingPairAgrees
  <2> SUFFICES ASSUME TypeOK, ForeignInv, PairInv, AtRest, faults = {} PROVE PendingPairAgrees
    BY DEF PendingPairAgrees
  <2>1. \A r \in Request : outcome[r] # "running"
    BY DEF AtRest, Running
  <2>2. hash.ctx = hash.pending
    BY <2>1 DEF PairInv
  <2>3. AskedFor(hash.ctx, hash.dest)
    BY <2>1 DEF ForeignInv, Uninterrupted
  <2>4. QED BY <2>2, <2>3 DEF PendingPairAgrees, AskedFor
<1> HIDE DEF Inv
<1>4. QED BY <1>1, <1>2, <1>3, PTL DEF Spec

-----------------------------------------------------------------------------
(* The session an answer leaves.                                            *)

(* The last exchange of the recent turns is that of request r, if any.      *)
Exchanged(r) == HasExchange(r) => hash.turns # <<>> /\ hash.turns[Len(hash.turns)] = r
Newest(r) == \A q \in Request : q > r => outcome[q] = "none"

CurrentInv ==
    NotExpired =>
        \A r \in Request :
            /\ outcome[r] = "running" =>
                  /\ Persisting(r) \/ Closing(r) => Has(r, Local("save")) \/ Exchanged(r)
                  /\ Closing(r) => hash.dest = place[r]
            /\ outcome[r] = "answered" /\ Newest(r) =>
                  hash.dest = place[r] /\ Exchanged(r) /\ expiring

(* Only the newest request can be the running one.                          *)
LEMMA RunningIsNewest ==
    ASSUME SeqInv, NEW r \in Request, outcome[r] = "running"
    PROVE  /\ Newest(r)
           /\ \A p \in Request : outcome[p] = "answered" => p < r /\ ~Newest(p)
<1>1. Newest(r)
  BY DEF SeqInv, Newest
<1>2. ASSUME NEW p \in Request, outcome[p] = "answered" PROVE p < r
  BY <1>2 DEF SeqInv, Request
<1>3. QED BY <1>1, <1>2 DEF Newest

(* After a step of the running request only that request is to be looked at.*)
LEMMA CurrentKept ==
    ASSUME TypeOK, SeqInv, NEW r \in Request, Step(r) \/ Failure(r),
           NotExpired' =>
              /\ outcome'[r] = "running" =>
                    /\ Persisting(r)' \/ Closing(r)' => Has(r, Local("save"))' \/ Exchanged(r)'
                    /\ Closing(r)' => hash'.dest = place'[r]
              /\ outcome'[r] = "answered" =>
                    hash'.dest = place'[r] /\ Exchanged(r)' /\ expiring'
    PROVE  CurrentInv'
<1>1. /\ outcome[r] = "running" /\ outcome'[r] # "none"
      /\ \A q \in Request : q # r => outcome'[q] = outcome[q]
  BY StepFrame
<1>2. \A w \in Request : outcome'[w] = "running" => w = r
  BY Alone
<1>3. ASSUME NEW p \in Request, p # r, outcome'[p] = "answered" PROVE ~Newest(p)'
  <2>1. p < r
    BY <1>1, <1>3, RunningIsNewest
  <2>2. QED BY <1>1, <2>1 DEF Newest
<1>4. QED BY <1>2, <1>3 DEF CurrentInv

(* A step of the running request brings the session up to date in time.     *)
LEMMA CurrentStep ==
    ASSUME TypeOK, ListInv, SeqInv, CurrentInv, NEW r \in Request, Step(r)
    PROVE  CurrentInv'
<1> DEFINE save == Local("save")
<1> SUFFICES ASSUME NotExpired'
             PROVE  /\ outcome'[r] = "running" =>
                          /\ Persisting(r)' \/ Closing(r)' => Has(r, save)' \/ Exchanged(r)'
                          /\ Closing(r)' => hash'.dest = place'[r]
                    /\ outcome'[r] = "answered" =>
                          hash'.dest = place'[r] /\ Exchanged(r)' /\ expiring'
  BY CurrentKept
<1>1. /\ outcome[r] = "running" /\ place[r] \in Place /\ NotExpired
  BY Alone, StepFrame DEF NotExpired
<1>2. /\ Persisting(r) \/ Closing(r) => Has(r, save) \/ Exchanged(r)
      /\ Closing(r) => hash.dest = place[r]
  BY <1>1 DEF CurrentInv
<1>3. /\ save # Local("expire") /\ save \notin {Local("gate"), Local("load"), Local("expire")}
      /\ \A f : save # Set(f)
  BY DEF Local, Set
<1> HIDE DEF save
<1>4. CASE ReadField(r) \/ SettleDestination(r)
  <2>1. outcome'[r] = "running" /\ (Reading(r)' \/ Clearing(r)')
    BY <1>4, ReadEffect, SettleEffect
  <2>2. ~Persisting(r)' /\ ~Closing(r)'
    BY <2>1, OneList DEF Reading, Clearing, Persisting, Closing
  <2>3. QED BY <2>1, <2>2
<1>5. ASSUME NEW mode \in Mode, RouteRequest(r, mode)
      PROVE  outcome'[r] = "running" /\ ~Closing(r)' /\ (Persisting(r)' => Has(r, save)')
  <2>1. /\ outcome'[r] = "running"
        /\ Answering(r)' \/ (Persisting(r)' /\ Has(r, save)')
    BY <1>5, RouteEffect DEF Path, save
  <2>2. QED BY <2>1, OneList DEF Answering, Persisting, Closing
<1>6. CASE ConsultGate(r) \/ LoadTurns(r) \/ ArmExpiry(r)
  <2>1. /\ UNCHANGED <<hash, place, question, reply>>
        /\ \/ Closing(r) /\ outcome'[r] = "answered" /\ expiring' = (hash # NoHash)
           \/ ~Closing(r) /\ outcome'[r] = "running" /\ SamePhase(r)
        /\ Has(r, save)' <=> Has(r, save)
    BY <1>3, <1>6, PassEffect
  <2>2. Exchanged(r)' <=> Exchanged(r)
    BY <2>1 DEF Exchanged, HasExchange
  <2>3. CASE Closing(r) /\ outcome'[r] = "answered" /\ expiring' = (hash # NoHash)
    <3>1. ~Has(r, save)
      BY <1>3, <2>3, ListCommands DEF Closing, Has
    <3>2. hash # NoHash
      BY <1>1, <1>2, <2>3, BoundsAssumption DEF NoHash
    <3>3. QED BY <1>2, <2>1, <2>2, <2>3, <3>1, <3>2
  <2>4. CASE ~Closing(r) /\ outcome'[r] = "running" /\ SamePhase(r)
    BY <1>2, <2>1, <2>2, <2>4 DEF SamePhase
  <2>5. QED BY <2>1, <2>3, <2>4
<1>7. CASE AnswerRequest(r)
  <2>1. outcome'[r] = "running" /\ Persisting(r)' /\ Has(r, save)'
    BY <1>7, AnswerEffect DEF save
  <2>2. QED BY <2>1, OneList DEF Persisting, Closing
<1>8. CASE SaveExchange(r)
  <2>1. /\ outcome'[r] = "running" /\ Persisting(r) /\ SamePhase(r)
        /\ hash' = ExchangeSaved(r) /\ UNCHANGED <<question, reply>>
    BY <1>8, SaveEffect
  <2>2. Exchanged(r)'
    <3>1. HasExchange(r)' <=> HasExchange(r)
      BY <2>1 DEF HasExchange
    <3>2. HasExchange(r) => hash'.turns = Trim(Append(history[r], r))
      BY <2>1 DEF ExchangeSaved, TypeOK, Hash, TurnsBefore
    <3> DEFINE t == Trim(Append(history[r], r))
    <3>3. t \in Seq(Request) /\ Len(t) \in 1 .. MaxTurns /\ t[Len(t)] = r
      BY TrimAppend DEF TypeOK
    <3> HIDE DEF t
    <3>4. t # <<>>
      BY <3>3
    <3>5. QED BY <3>1, <3>2, <3>3, <3>4 DEF Exchanged, t
  <2>3. ~Closing(r)'
    BY <2>1, OnePhase DEF SamePhase
  <2>4. QED BY <2>1, <2>2, <2>3
<1>9. CASE WriteField(r)
  <2>1. /\ outcome'[r] = "running" /\ (Answering(r) \/ Persisting(r))
        /\ Head(todo[r]) = Set(FieldOf(r)) /\ Shorter(r)
        /\ hash'.turns = hash.turns /\ UNCHANGED <<place, question, reply>>
        /\ SamePhase(r) \/ (Persisting(r) /\ Closing(r)' /\ hash'.dest = place[r])
    BY <1>9, WriteEffect
  <2>2. Exchanged(r)' <=> Exchanged(r)
    BY <2>1 DEF Exchanged, HasExchange
  <2>3. Has(r, save) => Has(r, save)'
    BY <1>3, <2>1 DEF Shorter
  <2>4. CASE SamePhase(r)
    <3>1. ~Closing(r)'
      BY <2>1, <2>4, OnePhase DEF SamePhase
    <3>2. QED BY <1>2, <2>1, <2>2, <2>3, <2>4, <3>1 DEF SamePhase
  <2>5. CASE Persisting(r) /\ Closing(r)' /\ hash'.dest = place[r]
    BY <1>2, <2>1, <2>2, <2>3, <2>5
  <2>6. QED BY <2>1, <2>4, <2>5
<1>10. CASE ClearField(r)
  <2>1. /\ outcome'[r] = "running" /\ SamePhase(r) /\ (Clearing(r) \/ Answering(r))
    BY <1>10, ClearEffect
  <2>2. QED BY <2>1, OnePhase DEF SamePhase
<1>11. QED
  BY <1>4, <1>5, <1>6, <1>7, <1>8, <1>9, <1>10 DEF Step

(* Every step keeps the session up to date after an answer.                 *)
LEMMA CurrentNext ==
    ASSUME MaxInFlight = 1
    PROVE  TypeOK /\ ListInv /\ SeqInv /\ CurrentInv /\ [Next]_vars => CurrentInv'
<1> SUFFICES ASSUME TypeOK, ListInv, SeqInv, CurrentInv, [Next]_vars
             PROVE  CurrentInv'
  OBVIOUS
<1>1. ASSUME NEW r \in Request, NEW p \in Place, NEW q \in MaybeQuestion, Arrive(r, p, q)
      PROVE  CurrentInv'
  <2>1. /\ todo'[r] = Preparation /\ outcome'[r] = "running"
        /\ \A w \in Request : outcome[w] # "running"
        /\ \A w \in Request : w > r => outcome[w] = "none"
        /\ \A w \in Request : w # r => outcome'[w] = outcome[w]
    BY <1>1, ArrivesAlone
  <2>2. ~Persisting(r)' /\ ~Closing(r)'
    BY <2>1, PreparationList, OneList DEF Persisting, Closing
  <2>3. \A w \in Request : outcome'[w] = "answered" => ~Newest(w)'
    <3>1. \A w \in Request : outcome'[w] = "answered" => w < r
      BY <2>1 DEF Request
    <3>2. QED BY <2>1, <3>1 DEF Newest
  <2>4. \A w \in Request : outcome'[w] = "running" => w = r
    BY <2>1
  <2>5. QED BY <2>2, <2>3, <2>4 DEF CurrentInv
<1>2. ASSUME NEW r \in Request, Step(r) PROVE CurrentInv'
  BY <1>2, CurrentStep
<1>3. ASSUME NEW r \in Request, Failure(r) PROVE CurrentInv'
  <2>1. CASE RedisRepeats(r)
    <3>1. /\ Executed(r) /\ outcome[r] = "running" /\ todo[r] # <<>>
          /\ UNCHANGED <<place, question, todo, reply, outcome>>
          /\ NotExpired' => NotExpired
      BY <2>1 DEF RedisRepeats, Executed, Fault, inputs, At, NotExpired
    <3>2. ~Closing(r)
      <4>1. At(r, "save") \/ At(r, "set") \/ At(r, "del")
        BY <3>1 DEF Executed
      <4>2. ~At(r, "expire")
        BY <4>1, AtOne
      <4>3. QED BY <3>1, <4>2, PhaseHeads
    <3>3. Has(r, Local("save")) \/ hash'.turns = hash.turns
      <4>1. CASE At(r, "save")
        <5>1. Head(todo[r]) = Local("save")
          BY <4>1, AtType DEF Op, OtherVerb, Local
        <5>2. QED BY <4>1, <5>1, HasHead
      <4>2. CASE At(r, "set") /\ Keep(FieldWritten(r))
        BY <4>2, SetField DEF Keep, FieldWritten, WritableField, TypeOK, Hash
      <4>3. CASE At(r, "del") /\ Keep(FieldCleared(r))
        BY <4>3, DelField DEF Keep, FieldCleared, ClearableField, TypeOK, Hash
      <4>4. QED BY <3>1, <4>1, <4>2, <4>3 DEF Executed
    <3>4. /\ Persisting(r)' <=> Persisting(r)
          /\ Closing(r)' <=> Closing(r)
          /\ Has(r, Local("save"))' <=> Has(r, Local("save"))
      BY <3>1 DEF Persisting, Closing, Has
    <3>5. NotExpired /\ Persisting(r) => Has(r, Local("save")) \/ Exchanged(r)
      BY <3>1 DEF CurrentInv
    <3>6. hash'.turns = hash.turns => (Exchanged(r)' <=> Exchanged(r))
      BY <3>1 DEF Exchanged, HasExchange
    <3>7. QED
      BY <1>3, <3>1, <3>2, <3>3, <3>4, <3>5, <3>6, CurrentKept
  <2>2. CASE ~RedisRepeats(r)
    <3>1. outcome'[r] \in {"unavailable", "failed"}
      BY <1>3, <2>2 DEF Failure, RedisFails, RedisReplyLost, ModelFails, Abort, TypeOK
    <3>2. QED BY <1>3, <3>1, CurrentKept
  <2>3. QED BY <2>1, <2>2
<1>4. CASE Crash
  <2>1. PICK r \in Request : outcome[r] = "running"
    BY <1>4 DEF Crash, Running
  <2>2. /\ \A q \in Request : outcome'[q] # "running"
        /\ \A q \in Request : outcome'[q] = "none" <=> outcome[q] = "none"
        /\ \A q \in Request : outcome'[q] = "answered" => outcome[q] = "answered"
    BY <1>4 DEF Crash, Running
  <2>3. \A q \in Request : outcome'[q] = "answered" => ~Newest(q)'
    BY <2>1, <2>2, RunningIsNewest DEF Newest
  <2>4. QED BY <2>2, <2>3 DEF CurrentInv
<1>5. CASE Expire
  BY <1>5 DEF Expire, Fault, CurrentInv, NotExpired
<1>6. CASE UNCHANGED vars
  BY <1>6 DEF vars, CurrentInv, NotExpired, Persisting, Closing, Has, Exchanged, HasExchange, Newest
<1>7. QED BY <1>1, <1>2, <1>3, <1>4, <1>5, <1>6 DEF Next, Done

(* The number of arrived requests is the newest one.                        *)
LEMMA LastArrived ==
    ASSUME SeqInv, NEW r \in Request, r = Cardinality(Arrived)
    PROVE  Newest(r)
<1> SUFFICES ASSUME NEW q \in Request, q > r, outcome[q] # "none" PROVE FALSE
  BY DEF Newest
<1>1. 1 .. q \subseteq Arrived
  <2>1. ASSUME NEW i \in 1 .. q PROVE i \in Request /\ (i = q \/ i < q)
    BY BoundsAssumption DEF Request
  <2>2. \A i \in 1 .. q : i \in Request /\ outcome[i] # "none"
    BY <2>1 DEF SeqInv
  <2>3. QED BY <2>2 DEF Arrived
<1>2. IsFiniteSet(Request) /\ Arrived \subseteq Request
  BY FS_Interval, BoundsAssumption DEF Request, Arrived
<1>3. IsFiniteSet(Arrived)
  BY <1>2, FS_Subset
<1>4. Cardinality(1 .. q) <= Cardinality(Arrived)
  BY <1>1, <1>3, FS_Subset
<1>5. Cardinality(1 .. q) = q
  BY FS_Interval DEF Request
<1>6. QED BY <1>4, <1>5 DEF Request

(* With one message at a time, when the latest request was answered, the    *)
(* session shows its destination and its exchange as the newest turn, and   *)
(* has a TTL; failed commands, repeated writes, crashes and failed model    *)
(* calls in the requests before it change nothing about that (finalize_     *)
(* agent_response, mark_sent, set_active_destination).                      *)
THEOREM AnswersLeaveTheSessionCurrent ==
    ASSUME MaxInFlight = 1 PROVE Spec => []AnswerLeavesSessionCurrent
<1> DEFINE Inv == TypeOK /\ ListInv /\ SeqInv /\ CurrentInv
<1>1. Init => Inv
  BY SequentialInit DEF Init, CurrentInv
<1>2. Inv /\ [Next]_vars => Inv'
  BY StepType, ListStep, SeqStep, CurrentNext
<1>3. Inv => AnswerLeavesSessionCurrent
  BY LastArrived DEF AnswerLeavesSessionCurrent, CurrentInv, Exchanged
<1> HIDE DEF Inv
<1>4. QED BY <1>1, <1>2, <1>3, PTL DEF Spec

-----------------------------------------------------------------------------
(* The recent turns.                                                        *)

(* What mark_sent keeps, turn by turn.                                      *)
LEMMA TrimTurns ==
    ASSUME NEW s \in Seq(Request), NEW r \in Request, Len(s) <= MaxTurns
    PROVE  LET t == Trim(Append(s, r))
           IN  /\ t \in Seq(Request)
               /\ Len(s) < MaxTurns => /\ Len(t) = Len(s) + 1 /\ t[Len(s) + 1] = r
                                       /\ \A i \in 1 .. Len(s) : t[i] = s[i]
               /\ Len(s) = MaxTurns => /\ Len(t) = MaxTurns /\ t[MaxTurns] = r
                                       /\ \A i \in 1 .. MaxTurns - 1 : t[i] = s[i + 1]
<1> DEFINE a == Append(s, r)
           m == (IF Len(a) > MaxTurns THEN Len(a) - MaxTurns ELSE 0) + 1
<1>1. /\ a \in Seq(Request) /\ Len(a) = Len(s) + 1 /\ a[Len(a)] = r
      /\ \A i \in 1 .. Len(s) : a[i] = s[i]
      /\ Len(s) \in Nat
  OBVIOUS
<1>2. m = IF Len(s) = MaxTurns THEN 2 ELSE 1
  BY <1>1, BoundsAssumption
<1> HIDE DEF m
<1>3. m \in 1 .. Len(a)
  BY <1>1, <1>2, BoundsAssumption
<1>4. Trim(a) = SubSeq(a, m, Len(a))
  BY DEF Trim, m
<1> HIDE DEF a
<1>5. \A i \in m .. Len(a) : a[i] \in Request
  BY <1>1, <1>3
<1>6. /\ Trim(a) \in Seq(Request)
      /\ Len(Trim(a)) = Len(a) - m + 1
      /\ \A i \in 1 .. Len(a) - m + 1 : Trim(a)[i] = a[m + i - 1]
  BY <1>1, <1>3, <1>4, <1>5, SubSeqProperties
<1>7. ASSUME Len(s) < MaxTurns
      PROVE  /\ Len(Trim(a)) = Len(s) + 1 /\ Trim(a)[Len(s) + 1] = r
             /\ \A i \in 1 .. Len(s) : Trim(a)[i] = s[i]
  <2>1. m = 1 /\ Len(Trim(a)) = Len(s) + 1
    BY <1>1, <1>2, <1>6, <1>7
  <2>2. \A i \in 1 .. Len(s) + 1 : Trim(a)[i] = a[i]
    BY <1>1, <1>6, <2>1
  <2>3. QED BY <1>1, <2>1, <2>2
<1>8. ASSUME Len(s) = MaxTurns
      PROVE  /\ Len(Trim(a)) = MaxTurns /\ Trim(a)[MaxTurns] = r
             /\ \A i \in 1 .. MaxTurns - 1 : Trim(a)[i] = s[i + 1]
  <2>1. m = 2 /\ Len(Trim(a)) = MaxTurns
    BY <1>1, <1>2, <1>6, <1>8
  <2>2. \A i \in 1 .. MaxTurns : Trim(a)[i] = a[i + 1]
    BY <1>1, <1>6, <1>8, <2>1
  <2>3. QED BY <1>1, <1>8, <2>1, <2>2, BoundsAssumption
<1>9. QED BY <1>6, <1>7, <1>8 DEF a

(* At most MaxTurns turns of arrived requests, in order; an answered        *)
(* exchange is missing only where all the turns that are kept are newer.    *)
Recent(s) ==
    /\ Len(s) <= MaxTurns
    /\ \A i \in 1 .. Len(s) : outcome[s[i]] # "none"
    /\ \A i, j \in 1 .. Len(s) : i < j => s[i] <= s[j]
    /\ \A q \in Request : outcome[q] = "answered" /\ HasExchange(q) /\ ~InSeq(q, s) =>
            Len(s) = MaxTurns /\ q < s[1]

(* The same in the next state.                                              *)
RecentNext(s) ==
    /\ Len(s) <= MaxTurns
    /\ \A i \in 1 .. Len(s) : outcome'[s[i]] # "none"
    /\ \A i, j \in 1 .. Len(s) : i < j => s[i] <= s[j]
    /\ \A q \in Request : outcome'[q] = "answered" /\ HasExchange(q)' /\ ~InSeq(q, s) =>
            Len(s) = MaxTurns /\ q < s[1]

(* What a request is about to append to was read just before.               *)
HistoryInv ==
    NotExpired =>
        /\ Recent(hash.turns)
        /\ \A r \in Request :
              outcome[r] = "running" /\ todo[r][1] = Local("save") /\ HasExchange(r) =>
                  Recent(history[r])

(* Turns stay recent when a request newly answered is one of them.          *)
LEMMA RecentKept ==
    ASSUME NEW s \in Seq(Request), Recent(s),
           \A w \in Request : outcome[w] # "none" => outcome'[w] # "none",
           \A w \in Request : outcome'[w] = "answered" /\ HasExchange(w)' =>
               (outcome[w] = "answered" /\ HasExchange(w)) \/ InSeq(w, s)
    PROVE  RecentNext(s)
<1>1. \A i \in 1 .. Len(s) : s[i] \in Request
  OBVIOUS
<1>2. QED BY <1>1 DEF Recent, RecentNext

(* The running request appends its turn.                                    *)
LEMMA RecentSaved ==
    ASSUME TypeOK, SeqInv, NEW r \in Request, outcome[r] = "running", Recent(history[r])
    PROVE  Recent(Trim(Append(history[r], r)))
<1> DEFINE s == history[r]
           t == Trim(Append(s, r))
           n == Len(s)
<1>1. s \in Seq(Request) /\ n \in Nat /\ n <= MaxTurns
  BY DEF Recent, TypeOK
<1>2. \A i \in 1 .. n : s[i] \in Request /\ s[i] <= r /\ outcome[s[i]] # "none"
  <2>1. \A i \in 1 .. n : s[i] \in Request
    BY <1>1
  <2>2. \A i \in 1 .. n : outcome[s[i]] # "none"
    BY DEF Recent
  <2>3. \A q \in Request : q <= r \/ outcome[q] = "none"
    BY DEF SeqInv, Request
  <2>4. QED BY <2>1, <2>2, <2>3
<1>3. \A i, j \in 1 .. n : i < j => s[i] <= s[j]
  BY DEF Recent
<1>4. \A q \in Request : outcome[q] = "answered" => q < r
  BY RunningIsNewest
<1>5. \A q \in Request : outcome[q] = "answered" /\ HasExchange(q) /\ ~InSeq(q, s) =>
          n = MaxTurns /\ q < s[1]
  BY DEF Recent
<1>6. /\ t \in Seq(Request)
      /\ n < MaxTurns => /\ Len(t) = n + 1 /\ t[n + 1] = r
                         /\ \A i \in 1 .. n : t[i] = s[i]
      /\ n = MaxTurns => /\ Len(t) = MaxTurns /\ t[MaxTurns] = r
                         /\ \A i \in 1 .. MaxTurns - 1 : t[i] = s[i + 1]
  BY <1>1, TrimTurns
<1> HIDE DEF s, t, n
<1>7. CASE n < MaxTurns
  <2>1. /\ Len(t) = n + 1 /\ \A i \in 1 .. n : t[i] = s[i]
        /\ t[n + 1] = r
    BY <1>6, <1>7
  <2>2. Len(t) <= MaxTurns
    BY <1>1, <1>7, <2>1, BoundsAssumption
  <2>3. \A i \in 1 .. n + 1 : outcome[t[i]] # "none" /\ t[i] <= r
    BY <1>1, <1>2, <2>1 DEF Request
  <2>4. \A i, j \in 1 .. n + 1 : i < j => t[i] <= t[j]
    BY <1>1, <1>2, <1>3, <2>1
  <2>5. ASSUME NEW q \in Request, InSeq(q, s) PROVE InSeq(q, t)
    <3>1. PICK i \in 1 .. n : s[i] = q
      BY <2>5 DEF InSeq, n
    <3>2. i \in 1 .. Len(t) /\ t[i] = q
      BY <1>1, <2>1, <3>1
    <3>3. QED BY <3>2 DEF InSeq
  <2>6. \A q \in Request : outcome[q] = "answered" /\ HasExchange(q) => InSeq(q, t)
    BY <1>1, <1>5, <1>7, <2>5, BoundsAssumption
  <2>7. QED BY <2>1, <2>2, <2>3, <2>4, <2>6 DEF Recent, t, s
<1>8. CASE n = MaxTurns
  <2>1. /\ Len(t) = MaxTurns /\ \A i \in 1 .. MaxTurns - 1 : t[i] = s[i + 1]
        /\ t[MaxTurns] = r /\ MaxTurns \in Nat \ {0}
    BY <1>6, <1>8, BoundsAssumption
  <2>2. \A i \in 1 .. MaxTurns : i # MaxTurns => i \in 1 .. MaxTurns - 1 /\ i + 1 \in 1 .. n
    BY <1>8, <2>1
  <2>3. \A i \in 1 .. MaxTurns : t[i] \in Request /\ outcome[t[i]] # "none" /\ t[i] <= r
    <3>1. r \in Request /\ r <= r /\ outcome[r] # "none"
      BY BoundsAssumption DEF Request
    <3>2. ASSUME NEW i \in 1 .. MaxTurns, i # MaxTurns
          PROVE  t[i] \in Request /\ outcome[t[i]] # "none" /\ t[i] <= r
      <4>1. t[i] = s[i + 1] /\ i + 1 \in 1 .. n
        BY <2>1, <2>2, <3>2
      <4>2. QED BY <1>2, <4>1
    <3>3. QED BY <2>1, <3>1, <3>2
  <2>4. ASSUME NEW i \in 1 .. MaxTurns, NEW j \in 1 .. MaxTurns, i < j PROVE t[i] <= t[j]
    <3>1. CASE j = MaxTurns
      BY <2>1, <2>3, <3>1
    <3>2. CASE j # MaxTurns
      <4>1. i # MaxTurns
        BY <2>1, <2>4
      <4>2. t[i] = s[i + 1] /\ t[j] = s[j + 1] /\ i + 1 < j + 1
        BY <2>1, <2>2, <2>4, <3>2, <4>1
      <4>3. QED BY <1>3, <2>2, <3>2, <4>1, <4>2
    <3>3. QED BY <3>1, <3>2
  <2>5. ASSUME NEW q \in Request, outcome[q] = "answered", HasExchange(q), ~InSeq(q, t)
        PROVE  q < t[1]
    <3>1. 1 \in 1 .. n /\ 1 \in 1 .. MaxTurns
      BY <1>8, <2>1
    <3>2. q <= s[1]
      <4>1. CASE InSeq(q, s)
        <5>1. PICK i \in 1 .. n : s[i] = q
          BY <4>1 DEF InSeq, n
        <5>2. i = 1
          <6>1. SUFFICES ASSUME i # 1 PROVE FALSE
            OBVIOUS
          <6>2. i - 1 \in 1 .. MaxTurns - 1 /\ i - 1 \in 1 .. MaxTurns /\ (i - 1) + 1 = i
            BY <1>8, <2>1, <5>1, <6>1
          <6>3. t[i - 1] = q
            BY <2>1, <5>1, <6>2
          <6>4. QED BY <2>1, <2>5, <6>2, <6>3 DEF InSeq
        <5>3. QED BY <5>1, <5>2 DEF Request
      <4>2. CASE ~InSeq(q, s)
        <5>1. q < s[1]
          BY <1>5, <2>5, <4>2
        <5>2. QED BY <1>2, <3>1, <5>1 DEF Request
      <4>3. QED BY <4>1, <4>2
    <3>3. CASE MaxTurns = 1
      BY <1>4, <2>1, <2>5, <3>3
    <3>4. CASE MaxTurns # 1
      <4>1. t[1] = s[2] /\ 2 \in 1 .. n
        BY <1>8, <2>1, <3>4
      <4>2. s[1] <= s[2]
        BY <1>3, <3>1, <4>1
      <4>3. t[1] # q
        BY <2>1, <2>5, <3>1 DEF InSeq
      <4>4. s[1] \in Request /\ s[2] \in Request
        BY <1>2, <3>1, <4>1
      <4>5. q \in Int /\ s[1] \in Int /\ s[2] \in Int
        BY <4>4 DEF Request
      <4>6. QED BY <3>2, <4>1, <4>2, <4>3, <4>5
    <3>5. QED BY <3>3, <3>4
  <2>6. QED BY <1>8, <2>1, <2>3, <2>4, <2>5 DEF Recent, t, s
<1>9. QED BY <1>1, <1>7, <1>8, BoundsAssumption

(* Only a load is directly before a save.                                   *)
LEMMA SaveIsNotNext ==
    ASSUME TypeOK, ListInv, NEW r \in Request, Step(r), ~LoadTurns(r), outcome'[r] = "running"
    PROVE  todo'[r][1] = Local("save") => ~HasExchange(r)'
<1> DEFINE save == Local("save")
<1>1. ASSUME NEW verb, At(r, verb), verb # "load", Continue(r, Tail(todo[r]))
      PROVE  todo'[r][1] # save
  <2> DEFINE u == Tail(todo[r])
  <2>1. todo[r] \in Seq(Op) /\ todo[r] # <<>> /\ Adjacent(todo[r])
    BY <1>1 DEF At, TypeOK, ListInv
  <2>2. u # <<>> /\ todo'[r] = u
    BY <1>1 DEF Continue, TypeOK
  <2>3. Head(todo[r]) # Local("load")
    BY <1>1 DEF At, Local
  <2>4. u[1] # save
    BY <2>1, <2>2, <2>3, TailOrdered
  <2>5. QED BY <2>2, <2>4
<1>2. ASSUME At(r, "save") \/ At(r, "set"), Continue(r, ThenArm(r))
      PROVE  todo'[r][1] # save
  <2>1. todo'[r] = ThenArm(r) /\ ThenArm(r)[1] = Local("expire")
    BY <1>2, ArmMoves, ArmList
  <2>2. QED BY <2>1 DEF Local
<1>3. CASE ReadField(r) \/ ConsultGate(r) \/ ClearField(r) \/ ArmExpiry(r)
  BY <1>1, <1>3 DEF ReadField, ConsultGate, ClearField, ArmExpiry
<1>4. CASE SaveExchange(r) \/ WriteField(r)
  BY <1>2, <1>4 DEF SaveExchange, WriteField
<1>5. CASE SettleDestination(r)
  <2>1. PICK rest \in {<<Local("route")>>, ClearPending \o <<Local("route")>>} : Continue(r, rest)
    BY <1>5 DEF SettleDestination
  <2>2. rest[1] # save
    <3>1. CASE rest = <<Local("route")>>
      BY <3>1 DEF Local
    <3>2. CASE rest = ClearPending \o <<Local("route")>>
      BY <3>2, ClearList
    <3>3. QED BY <2>1, <3>1, <3>2
  <2>3. todo'[r] = rest
    BY <2>1 DEF Continue, TypeOK
  <2>4. QED BY <2>2, <2>3
<1>6. ASSUME NEW mode \in Mode, RouteRequest(r, mode) PROVE todo'[r][1] # save
  <2> DEFINE path == PathOf(r, mode)
             record == IF FinalOrigin(r) # 0 THEN <<Set("origin")>> ELSE <<>>
  <2>1. path \in Path /\ record \in {<<>>, <<Set("origin")>>}
    BY RoutingType
  <2>2. Continue(r, record \o PathOps(r, path))
    BY <1>6 DEF RouteRequest
  <2> HIDE DEF path, record
  <2> DEFINE rest == record \o PathOps(r, path)
  <2>3. rest[1] # save
    BY <2>1, RoutedLists DEF Arranged
  <2> HIDE DEF rest
  <2>4. todo'[r] = rest
    BY <2>2 DEF Continue, TypeOK, rest
  <2>5. QED BY <2>3, <2>4
<1>7. CASE AnswerRequest(r)
  <2>1. /\ todo'[r][1] = save => question[r] = NoQuestion /\ reply'[r] = NoReply
        /\ UNCHANGED question
    BY <1>7, AnswerEffect
  <2>2. QED BY <2>1 DEF HasExchange
<1>8. QED
  BY <1>3, <1>4, <1>5, <1>6, <1>7 DEF Step

(* The state after a step of the running request, seen from its turns.      *)
LEMMA HistoryKept ==
    ASSUME TypeOK, SeqInv, NEW r \in Request, Step(r) \/ Failure(r),
           NotExpired' =>
              /\ Recent(hash'.turns)
              /\ hash'.turns \in Seq(Request)
              /\ outcome'[r] = "answered" /\ HasExchange(r)' => InSeq(r, hash'.turns)
              /\ outcome'[r] = "running" /\ todo'[r][1] = Local("save") /\ HasExchange(r)' =>
                    Recent(history'[r]) /\ history'[r] \in Seq(Request)
    PROVE  HistoryInv'
<1>1. /\ outcome[r] = "running" /\ outcome'[r] # "none"
      /\ \A q \in Request : q # r => outcome'[q] = outcome[q] /\ reply'[q] = reply[q]
      /\ UNCHANGED question
  BY StepFrame
<1>2. \A w \in Request : outcome'[w] = "running" => w = r
  BY Alone
<1>3. \A w \in Request : outcome[w] # "none" => outcome'[w] # "none"
  BY <1>1
<1>4. \A w \in Request : w # r => (HasExchange(w)' <=> HasExchange(w))
  BY <1>1 DEF HasExchange
<1>5. ASSUME NotExpired' PROVE RecentNext(hash'.turns)
  BY <1>1, <1>3, <1>4, <1>5, RecentKept
<1>6. ASSUME NotExpired', outcome'[r] = "running", todo'[r][1] = Local("save"), HasExchange(r)'
      PROVE  RecentNext(history'[r])
  <2>1. \A w \in Request : outcome'[w] = "answered" /\ HasExchange(w)' =>
            outcome[w] = "answered" /\ HasExchange(w)
    BY <1>1, <1>4, <1>6
  <2>2. Recent(history'[r]) /\ history'[r] \in Seq(Request)
    BY <1>6
  <2>3. QED BY <1>3, <2>1, <2>2, RecentKept
<1>7. NotExpired' => Recent(hash.turns)'
  BY <1>5 DEF Recent, RecentNext
<1>8. ASSUME NotExpired', outcome'[r] = "running", todo'[r][1] = Local("save"), HasExchange(r)'
      PROVE  Recent(history[r])'
  BY <1>6, <1>8 DEF Recent, RecentNext
<1>9. QED BY <1>2, <1>7, <1>8 DEF HistoryInv

(* A step of the running request keeps the recent answers.                  *)
LEMMA HistoryStep ==
    ASSUME TypeOK, ListInv, SeqInv, CurrentInv, HistoryInv, NEW r \in Request, Step(r)
    PROVE  HistoryInv'
<1> SUFFICES ASSUME NotExpired'
             PROVE  /\ Recent(hash'.turns)
                    /\ hash'.turns \in Seq(Request)
                    /\ outcome'[r] = "answered" /\ HasExchange(r)' => InSeq(r, hash'.turns)
                    /\ outcome'[r] = "running" /\ todo'[r][1] = Local("save") /\ HasExchange(r)' =>
                          Recent(history'[r]) /\ history'[r] \in Seq(Request)
  BY HistoryKept
<1>1. /\ outcome[r] = "running" /\ NotExpired
  BY Alone, StepFrame DEF NotExpired
<1>2. /\ Recent(hash.turns) /\ hash.turns \in Seq(Request)
      /\ todo[r][1] = Local("save") /\ HasExchange(r) => Recent(history[r])
  BY <1>1 DEF HistoryInv, TypeOK, Hash
<1>3. ~LoadTurns(r) /\ outcome'[r] = "running" =>
          ~(todo'[r][1] = Local("save") /\ HasExchange(r)')
  BY SaveIsNotNext
<1>4. ASSUME hash'.turns = hash.turns, outcome'[r] = "running", ~LoadTurns(r)
      PROVE  /\ Recent(hash'.turns) /\ hash'.turns \in Seq(Request)
             /\ outcome'[r] # "answered"
             /\ ~(todo'[r][1] = Local("save") /\ HasExchange(r)')
  BY <1>2, <1>3, <1>4
<1>5. \A verb : At(r, verb) => verb = Head(todo[r])[1]
  BY DEF At
<1>6. CASE ReadField(r)
  <2>1. hash' = hash /\ outcome'[r] = "running" /\ ~LoadTurns(r)
    BY <1>5, <1>6, ReadEffect DEF ReadField, LoadTurns
  <2>2. QED BY <1>4, <2>1
<1>7. CASE SettleDestination(r)
  <2>1. hash' = hash /\ outcome'[r] = "running" /\ ~LoadTurns(r)
    BY <1>5, <1>7, SettleEffect DEF SettleDestination, LoadTurns
  <2>2. QED BY <1>4, <2>1
<1>8. ASSUME NEW mode \in Mode, RouteRequest(r, mode)
      PROVE  hash' = hash /\ outcome'[r] = "running" /\ ~LoadTurns(r)
  BY <1>5, <1>8, RouteEffect DEF RouteRequest, LoadTurns
<1>9. CASE ConsultGate(r) \/ LoadTurns(r) \/ ArmExpiry(r)
  <2>1. /\ UNCHANGED <<hash, question, reply>>
        /\ \/ Closing(r) /\ outcome'[r] = "answered"
           \/ ~Closing(r) /\ outcome'[r] = "running"
        /\ LoadTurns(r) => history'[r] = hash.turns
    BY <1>9, PassEffect DEF LoadTurns, TypeOK
  <2>2. CASE Closing(r) /\ outcome'[r] = "answered"
    <3>1. ~Has(r, Local("save"))
      BY <2>2, ListCommands DEF Closing, Has, Local
    <3>2. Exchanged(r)
      BY <1>1, <2>2, <3>1 DEF CurrentInv
    <3>3. HasExchange(r)' => HasExchange(r)
      BY <2>1 DEF HasExchange
    <3>4. HasExchange(r) => InSeq(r, hash.turns)
      <4>1. HasExchange(r) => hash.turns # <<>> /\ hash.turns[Len(hash.turns)] = r
        BY <3>2 DEF Exchanged
      <4> DEFINE s == hash.turns
      <4>2. s \in Seq(Request)
        BY <1>2
      <4> HIDE DEF s
      <4>3. s # <<>> => Len(s) \in 1 .. Len(s)
        BY <4>2, EmptySeq
      <4>4. QED BY <4>1, <4>3 DEF InSeq, s
    <3>5. QED BY <1>2, <2>1, <2>2, <3>3, <3>4
  <2>3. CASE outcome'[r] = "running"
    BY <1>2, <1>4, <2>1, <2>3
  <2>4. QED BY <2>1, <2>2, <2>3
<1>10. CASE AnswerRequest(r)
  <2>1. hash' = hash /\ outcome'[r] = "running" /\ ~LoadTurns(r)
    BY <1>5, <1>10, AnswerEffect DEF AnswerRequest, LoadTurns
  <2>2. QED BY <1>4, <2>1
<1>11. CASE SaveExchange(r)
  <2>1. /\ outcome'[r] = "running" /\ hash' = ExchangeSaved(r) /\ ~LoadTurns(r)
        /\ Head(todo[r]) = Local("save") /\ todo[r] # <<>>
    BY <1>5, <1>11, SaveEffect DEF SaveExchange, LoadTurns, At
  <2>2. todo[r][1] = Local("save")
    BY <2>1
  <2>3. hash'.turns = IF HasExchange(r) THEN Trim(Append(history[r], r)) ELSE hash.turns
    BY <2>1 DEF ExchangeSaved, TurnsBefore, TypeOK, Hash
  <2>4. HasExchange(r) => /\ Recent(Trim(Append(history[r], r)))
                          /\ Trim(Append(history[r], r)) \in Seq(Request)
    <3>1. history[r] \in Seq(Request)
      BY DEF TypeOK
    <3>2. QED BY <1>1, <1>2, <2>2, <3>1, RecentSaved, TrimAppend
  <2>5. Recent(hash'.turns) /\ hash'.turns \in Seq(Request)
    BY <1>2, <2>3, <2>4
  <2>6. QED BY <1>3, <2>1, <2>5
<1>12. CASE WriteField(r)
  <2>1. hash'.turns = hash.turns /\ outcome'[r] = "running" /\ ~LoadTurns(r)
    BY <1>5, <1>12, WriteEffect DEF WriteField, LoadTurns
  <2>2. QED BY <1>4, <2>1
<1>13. CASE ClearField(r)
  <2>1. hash'.turns = hash.turns /\ outcome'[r] = "running" /\ ~LoadTurns(r)
    BY <1>5, <1>13, ClearEffect DEF ClearField, LoadTurns
  <2>2. QED BY <1>4, <2>1
<1>14. QED
  BY <1>4, <1>6, <1>7, <1>8, <1>9, <1>10, <1>11, <1>12, <1>13 DEF Step

(* What a command writes whose answer is lost.                              *)
LEMMA ExecutedTurns ==
    ASSUME TypeOK, SeqInv, HistoryInv, NotExpired, NEW r \in Request, Executed(r)
    PROVE  Recent(hash'.turns) /\ hash'.turns \in Seq(Request)
<1>1. /\ Recent(hash.turns) /\ hash.turns \in Seq(Request) /\ history[r] \in Seq(Request)
      /\ outcome[r] = "running"
      /\ todo[r][1] = Local("save") /\ HasExchange(r) => Recent(history[r])
  BY DEF HistoryInv, TypeOK, Hash, Executed, At
<1>2. CASE At(r, "save") /\ Keep(ExchangeSaved(r))
  <2>1. Head(todo[r]) = Local("save") /\ todo[r] # <<>>
    BY <1>2, AtType DEF Op, OtherVerb, Local
  <2>2. todo[r][1] = Local("save")
    BY <2>1
  <2>3. hash'.turns = IF HasExchange(r) THEN Trim(Append(history[r], r)) ELSE hash.turns
    BY <1>2 DEF Keep, ExchangeSaved, TurnsBefore, TypeOK, Hash
  <2>4. HasExchange(r) => /\ Recent(Trim(Append(history[r], r)))
                          /\ Trim(Append(history[r], r)) \in Seq(Request)
    BY <1>1, <2>2, RecentSaved, TrimAppend
  <2>5. QED BY <1>1, <2>3, <2>4
<1>3. CASE At(r, "set") /\ Keep(FieldWritten(r))
  <2>1. hash'.turns = hash.turns
    BY <1>3, SetField DEF Keep, FieldWritten, WritableField, TypeOK, Hash
  <2>2. QED BY <1>1, <2>1
<1>4. CASE At(r, "del") /\ Keep(FieldCleared(r))
  <2>1. hash'.turns = hash.turns
    BY <1>4, DelField DEF Keep, FieldCleared, ClearableField, TypeOK, Hash
  <2>2. QED BY <1>1, <2>1
<1>5. QED BY <1>2, <1>3, <1>4 DEF Executed

(* Every step does.                                                         *)
LEMMA HistoryNext ==
    ASSUME MaxInFlight = 1
    PROVE  TypeOK /\ ListInv /\ SeqInv /\ CurrentInv /\ HistoryInv /\ [Next]_vars => HistoryInv'
<1> SUFFICES ASSUME TypeOK, ListInv, SeqInv, CurrentInv, HistoryInv, [Next]_vars
             PROVE  HistoryInv'
  OBVIOUS
<1>1. hash.turns \in Seq(Request)
  BY DEF TypeOK, Hash
<1>2. ASSUME NEW r \in Request, NEW p \in Place, NEW q \in MaybeQuestion, Arrive(r, p, q)
      PROVE  HistoryInv'
  <2>1. /\ todo'[r] = Preparation /\ outcome'[r] = "running"
        /\ \A w \in Request : outcome[w] # "running"
        /\ \A w \in Request : w # r => outcome'[w] = outcome[w] /\ question'[w] = question[w]
        /\ UNCHANGED <<hash, reply, faults>>
    BY <1>2, ArrivesAlone
  <2>2. /\ \A w \in Request : outcome[w] # "none" => outcome'[w] # "none"
        /\ \A w \in Request : outcome'[w] = "answered" /\ HasExchange(w)' =>
               outcome[w] = "answered" /\ HasExchange(w)
    BY <2>1 DEF HasExchange
  <2>3. NotExpired' => RecentNext(hash.turns)
    BY <1>1, <2>1, <2>2, RecentKept DEF HistoryInv, NotExpired
  <2>4. NotExpired' => Recent(hash.turns)'
    BY <2>1, <2>3 DEF Recent, RecentNext
  <2>5. Preparation[1] # Local("save")
    BY DEF Preparation, Get, Local
  <2>6. \A w \in Request : outcome'[w] = "running" => w = r
    BY <2>1
  <2>7. QED BY <2>1, <2>4, <2>5, <2>6 DEF HistoryInv
<1>3. ASSUME NEW r \in Request, Step(r) PROVE HistoryInv'
  BY <1>3, HistoryStep
<1>4. ASSUME NEW r \in Request, Failure(r) PROVE HistoryInv'
  <2>1. outcome[r] = "running" /\ (NotExpired' => NotExpired)
    BY <1>4, StepFrame DEF NotExpired
  <2>2. /\ outcome'[r] # "answered"
        /\ NotExpired /\ outcome'[r] = "running" =>
              /\ UNCHANGED <<todo, history, question, reply>>
    <3>1. CASE RedisRepeats(r)
      BY <2>1, <3>1 DEF RedisRepeats, inputs
    <3>2. CASE ~RedisRepeats(r)
      BY <1>4, <3>2 DEF Failure, RedisFails, RedisReplyLost, ModelFails, Abort, TypeOK
    <3>3. QED BY <3>1, <3>2
  <2>3. NotExpired => Recent(hash'.turns) /\ hash'.turns \in Seq(Request)
    <3>1. CASE Executed(r)
      BY <3>1, ExecutedTurns
    <3>2. CASE ~Executed(r)
      <4>1. hash' = hash
        BY <1>4, <3>2 DEF Failure, RedisFails, RedisRepeats, RedisReplyLost, ModelFails, store
      <4>2. QED BY <1>1, <4>1 DEF HistoryInv
    <3>3. QED BY <3>1, <3>2
  <2>4. ASSUME NotExpired, outcome'[r] = "running", todo'[r][1] = Local("save"), HasExchange(r)'
        PROVE  Recent(history'[r]) /\ history'[r] \in Seq(Request)
    <3>1. HasExchange(r) /\ todo[r][1] = Local("save") /\ history'[r] = history[r]
      BY <2>2, <2>4 DEF HasExchange
    <3>2. QED BY <2>1, <2>4, <3>1 DEF HistoryInv, TypeOK
  <2>5. QED BY <1>4, <2>1, <2>2, <2>3, <2>4, HistoryKept
<1>5. CASE Crash
  <2>1. /\ \A q \in Request : outcome'[q] # "running"
        /\ \A q \in Request : outcome'[q] = "none" <=> outcome[q] = "none"
        /\ \A q \in Request : outcome'[q] = "answered" => outcome[q] = "answered"
        /\ UNCHANGED <<hash, question, reply>>
        /\ NotExpired' => NotExpired
    BY <1>5 DEF Crash, Running, store, inputs, Fault, NotExpired
  <2>2. \A w \in Request : HasExchange(w)' <=> HasExchange(w)
    BY <2>1 DEF HasExchange
  <2>3. NotExpired' => RecentNext(hash.turns)
    BY <1>1, <2>1, <2>2, RecentKept DEF HistoryInv
  <2>4. NotExpired' => Recent(hash.turns)'
    BY <2>1, <2>3 DEF Recent, RecentNext
  <2>5. QED BY <2>1, <2>4 DEF HistoryInv
<1>6. CASE Expire
  BY <1>6 DEF Expire, Fault, HistoryInv, NotExpired
<1>7. CASE UNCHANGED vars
  BY <1>7 DEF vars, HistoryInv, NotExpired, Recent, HasExchange
<1>8. QED BY <1>2, <1>3, <1>4, <1>5, <1>6, <1>7 DEF Next, Done

(* With one message at a time, no answered exchange leaves the recent turns *)
(* before MaxTurns newer ones are there, and they stay in the order they    *)
(* happened: not even when the destination changes, a write is repeated, a  *)
(* request fails half way or the process dies (mark_sent, _trim_turns).     *)
THEOREM RecentAnswersAreKept ==
    ASSUME MaxInFlight = 1 PROVE Spec => []HistoryKeepsRecentAnswers
<1> DEFINE Inv == TypeOK /\ ListInv /\ SeqInv /\ CurrentInv /\ HistoryInv
<1>1. Init => Inv
  <2> SUFFICES ASSUME Init PROVE CurrentInv /\ HistoryInv
    BY SequentialInit
  <2>1. CurrentInv
    BY DEF Init, CurrentInv
  <2>2. Recent(hash.turns)
    <3>1. hash.turns = <<>> /\ Len(<<>>) = 0
      BY DEF Init, NoHash
    <3>2. QED BY <3>1, BoundsAssumption DEF Recent, Init
  <2>3. QED BY <2>1, <2>2 DEF Init, HistoryInv
<1>2. Inv /\ [Next]_vars => Inv'
  BY StepType, ListStep, SeqStep, CurrentNext, HistoryNext
<1>3. Inv => HistoryKeepsRecentAnswers
  BY DEF HistoryKeepsRecentAnswers, HistoryInv, Recent, InTurns, InSeq
<1> HIDE DEF Inv
<1>4. QED BY <1>1, <1>2, <1>3, PTL DEF Spec

-----------------------------------------------------------------------------
(* What the running request has read is what the session holds.             *)

UpToDate(r) ==
    /\ Reading(r) => \A f \in ReadableField : Has(r, Get(f)) \/ seen[r][f] = hash[f]
    /\ Clearing(r) =>
          /\ seen[r].user = hash.user /\ seen[r].reply = hash.reply /\ seen[r].dest = hash.dest
          /\ seen[r].dest = place[r] => seen[r].ctx = hash.ctx /\ ~Has(r, Del("ctx"))

ReadInv == faults = {} => \A r \in Request : outcome[r] = "running" => UpToDate(r)

(* A step of the running request keeps its view up to date.                 *)
LEMMA ReadStep ==
    ASSUME TypeOK, ListInv, SeqInv, ReadInv, NEW r \in Request, Step(r), faults = {},
           outcome'[r] = "running"
    PROVE  UpToDate(r)'
<1>1. UpToDate(r) /\ place[r] \in Place
  BY Alone DEF ReadInv
<1>2. ASSUME Answering(r)' \/ Persisting(r)' \/ Closing(r)' PROVE UpToDate(r)'
  <2>1. ~Reading(r)' /\ ~Clearing(r)'
    BY <1>2, OneList DEF Reading, Clearing, Answering, Persisting, Closing
  <2>2. QED BY <2>1 DEF UpToDate
<1>3. CASE ReadField(r)
  <2>1. PICK f \in ReadableField :
              /\ seen'[r][f] = hash[f]
              /\ \A g \in Field : g # f => seen'[r][g] = seen[r][g]
              /\ \A g \in ReadableField : Has(r, Get(g)) => g = f \/ Has(r, Get(g))'
    BY <1>3, ReadEffect
  <2>2. Reading(r) /\ Reading(r)' /\ hash' = hash
    BY <1>3, ReadEffect
  <2>3. \A g \in ReadableField : Has(r, Get(g))' \/ seen'[r][g] = hash'[g]
    BY <1>1, <2>1, <2>2 DEF UpToDate, ReadableField
  <2>4. ~Clearing(r)'
    BY <2>2, OneList DEF Reading, Clearing
  <2>5. QED BY <2>3, <2>4 DEF UpToDate
<1>4. CASE SettleDestination(r)
  <2>1. /\ Reading(r) /\ Clearing(r)' /\ UNCHANGED <<hash, place>>
        /\ \A g : ~Has(r, Get(g))
    BY <1>4, SettleEffect
  <2>2. {"user", "reply", "dest", "ctx"} \subseteq ReadableField
    BY DEF ReadableField, Field
  <2>3. /\ seen[r].user = hash.user /\ seen[r].reply = hash.reply
        /\ seen[r].dest = hash.dest /\ seen[r].ctx = hash.ctx
    BY <1>1, <2>1, <2>2 DEF UpToDate
  <2>4. ~Reading(r)'
    BY <2>1, OneList DEF Reading, Clearing
  <2>5. CASE DestinationChanged(r)
    <3>1. seen'[r] = [seen[r] EXCEPT !.turns = <<>>, !.ctx = 0, !.pending = 0] /\ seen[r] \in Hash
      BY <1>4, <2>5, SettleEffect DEF ViewAfterReset, TypeOK
    <3>2. seen'[r].user = seen[r].user /\ seen'[r].reply = seen[r].reply /\ seen'[r].dest = seen[r].dest
      BY <3>1 DEF Hash
    <3>3. QED BY <2>1, <2>3, <2>4, <2>5, <3>2 DEF UpToDate, DestinationChanged
  <2>6. CASE ~DestinationChanged(r)
    <3>1. seen' = seen /\ \A op : Has(r, op)' => op = Local("route")
      BY <1>4, <2>6, SettleEffect
    <3>2. ~Has(r, Del("ctx"))'
      BY <3>1, PairCommands DEF PairOps
    <3>3. QED BY <2>1, <2>3, <2>4, <3>1, <3>2 DEF UpToDate
  <2>7. QED BY <2>5, <2>6
<1>5. ASSUME NEW mode \in Mode, RouteRequest(r, mode) PROVE UpToDate(r)'
  <2>1. Answering(r)' \/ Persisting(r)'
    BY <1>5, RouteEffect DEF Path
  <2>2. QED BY <1>2, <2>1
<1>6. CASE ConsultGate(r) \/ LoadTurns(r) \/ ArmExpiry(r)
  <2>1. ~Reading(r) /\ ~Clearing(r) /\ SamePhase(r)
    BY <1>6, PassEffect
  <2>2. QED BY <2>1 DEF SamePhase, UpToDate
<1>7. CASE AnswerRequest(r)
  BY <1>2, <1>7, AnswerEffect
<1>8. CASE SaveExchange(r)
  <2>1. Persisting(r)'
    BY <1>8, SaveEffect DEF SamePhase
  <2>2. QED BY <1>2, <2>1
<1>9. CASE WriteField(r)
  <2>1. /\ Answering(r) \/ Persisting(r)
        /\ Closing(r)' \/ SamePhase(r)
    BY <1>9, WriteEffect
  <2>2. QED BY <1>2, <2>1 DEF SamePhase
<1>10. CASE ClearField(r)
  <2>1. /\ SamePhase(r) /\ Shorter(r) /\ UNCHANGED <<place, seen>>
        /\ hash'.user = hash.user /\ hash'.reply = hash.reply /\ hash'.dest = hash.dest
        /\ Head(todo[r]) = Del(FieldOf(r)) /\ (Clearing(r) \/ Answering(r))
        /\ FieldOf(r) = "ctx" \/ hash'.ctx = hash.ctx
    BY <1>10, ClearEffect
  <2>2. Has(r, Del(FieldOf(r)))
    BY <1>10, <2>1, HasHead DEF ClearField
  <2>3. Has(r, Del("ctx"))' => Has(r, Del("ctx"))
    BY <2>1, PairCommands DEF Shorter, PairOps
  <2>4. CASE Clearing(r)
    <3>1. ~Reading(r)'
      BY <2>1, <2>4, OnePhase DEF SamePhase
    <3>2. seen[r].dest = place[r] => FieldOf(r) # "ctx"
      BY <1>1, <2>2, <2>4 DEF UpToDate
    <3>3. QED BY <1>1, <2>1, <2>3, <2>4, <3>1, <3>2 DEF UpToDate
  <2>5. CASE Answering(r)
    BY <1>2, <2>1, <2>5 DEF SamePhase
  <2>6. QED BY <2>1, <2>4, <2>5
<1>11. QED
  BY <1>3, <1>4, <1>5, <1>6, <1>7, <1>8, <1>9, <1>10 DEF Step

(* Every step does.                                                         *)
LEMMA ReadNext ==
    ASSUME MaxInFlight = 1
    PROVE  TypeOK /\ ListInv /\ SeqInv /\ ReadInv /\ [Next]_vars => ReadInv'
<1> SUFFICES ASSUME TypeOK, ListInv, SeqInv, ReadInv, [Next]_vars, faults' = {}
             PROVE  ReadInv'
  BY DEF ReadInv
<1>1. ASSUME NEW r \in Request, NEW p \in Place, NEW q \in MaybeQuestion, Arrive(r, p, q)
      PROVE  ReadInv'
  <2>1. /\ todo'[r] = Preparation
        /\ \A w \in Request : outcome[w] # "running"
        /\ \A w \in Request : w # r => outcome'[w] = outcome[w]
    BY <1>1, ArrivesAlone
  <2>2. \A f \in ReadableField : Has(r, Get(f))'
    BY <2>1, PreparationList DEF Has
  <2>3. ~Clearing(r)'
    BY <2>1, PreparationList, OneList DEF Clearing
  <2>4. UpToDate(r)'
    BY <2>2, <2>3 DEF UpToDate
  <2>5. QED BY <2>1, <2>4 DEF ReadInv
<1>2. ASSUME NEW r \in Request, Step(r) PROVE ReadInv'
  <2>1. faults = {} /\ \A w \in Request : outcome'[w] = "running" => w = r
    BY <1>2, StepFrame, Alone
  <2>2. QED BY <1>2, <2>1, ReadStep DEF ReadInv
<1>3. ASSUME NEW r \in Request, Failure(r) PROVE ReadInv'
  <2>1. outcome'[r] = "failed" /\ \A w \in Request : outcome'[w] = "running" => w = r
    BY <1>3, Alone, FailureEffect
  <2>2. QED BY <2>1 DEF ReadInv
<1>4. CASE Crash \/ Expire
  BY <1>4 DEF Crash, Expire, Fault
<1>5. CASE UNCHANGED vars
  BY <1>5 DEF vars, ReadInv, UpToDate, Reading, Clearing, Has
<1>6. QED BY <1>1, <1>2, <1>3, <1>4, <1>5 DEF Next, Done

-----------------------------------------------------------------------------
(* The origin request stays the last exchange.                              *)

AsksBack(p) == plan[p].path = "origin_request"

(* A request that has not written its exchange.                             *)
Early(q) == outcome[q] = "running" /\ (Reading(q) \/ Clearing(q) \/ Answering(q))
Unsaved(q) == outcome[q] \in {"none", "failed"} \/ Early(q)

(* The next request, not yet routed, and not on its way to another place.   *)
ComesNext(q, p) ==
    /\ q = p + 1 /\ outcome[q] = "running"
    /\ Reading(q) \/ (Clearing(q) /\ place[q] = place[p])

(* What a request that asks for the origin has still to write.              *)
Asking(p) ==
    /\ Persisting(p) \/ Closing(p)
    /\ Has(p, Set("ctx")) \/ hash.ctx = p
    /\ Has(p, Local("save")) \/ (hash.user = p /\ hash.reply = p)

(* What the session holds when it has asked.                                *)
Asked(p) ==
    /\ (\A q \in Request : q > p => Unsaved(q)) =>
          /\ hash.user = p /\ hash.reply = p /\ hash.dest = place[p]
          /\ hash.ctx \in {0, p}
    /\ (\A q \in Request : q > p => outcome[q] = "none" \/ ComesNext(q, p)) => hash.ctx = p

AskInv ==
    faults = {} =>
        \A p \in Request : AsksBack(p) =>
            /\ question[p] # NoQuestion /\ reply[p] = OriginRequest
            /\ outcome[p] \in {"running", "answered"}
            /\ outcome[p] = "running" => Asking(p)
            /\ outcome[p] = "answered" => Asked(p)

(* What the routing decides.                                                *)
LEMMA RouteDecides ==
    ASSUME TypeOK, ListInv, NEW r \in Request, NEW mode \in Mode, RouteRequest(r, mode)
    PROVE  /\ plan'[r].path = PathOf(r, mode)
           /\ plan'[r].effective = EffectiveQuestion(r)
           /\ plan'[r].origin = FinalOrigin(r)
<1> DEFINE decision(effective, origin, path) ==
             [effective |-> effective, origin |-> origin, path |-> path]
<1>1. plan'[r] = decision(EffectiveQuestion(r), FinalOrigin(r), PathOf(r, mode))
  BY RouteEffect
<1>2. \A e, o, p : /\ decision(e, o, p).path = p /\ decision(e, o, p).effective = e
                   /\ decision(e, o, p).origin = o
  OBVIOUS
<1> HIDE DEF decision
<1>3. QED BY <1>1, <1>2

(* Before the answer a request deletes at most the pending question.        *)
LEMMA EarlyStep ==
    ASSUME TypeOK, ListInv, NEW r \in Request, Step(r), Early(r)'
    PROVE  /\ Early(r) /\ UNCHANGED <<place, question>>
           /\ Reading(r)' => Reading(r)
           /\ Clearing(r)' => Reading(r) \/ Clearing(r)
           /\ hash'.user = hash.user /\ hash'.reply = hash.reply /\ hash'.dest = hash.dest
           /\ \/ hash'.ctx = hash.ctx
              \/ hash'.ctx = 0 /\ (Clearing(r) => Has(r, Del("ctx"))) /\ SamePhase(r)
                   /\ (Clearing(r) \/ Answering(r))
           /\ plan'[r].path # "origin_request" \/ plan'[r] = plan[r]
<1>1. outcome[r] = "running" /\ ~Persisting(r)' /\ ~Closing(r)' /\ UNCHANGED <<place, question>>
  BY StepFrame, OneList DEF Early, Reading, Clearing, Answering, Persisting, Closing
<1>2. CASE ReadField(r)
  <2>1. Reading(r) /\ Reading(r)' /\ UNCHANGED <<hash, plan>>
    BY <1>2, ReadEffect
  <2>2. ~Clearing(r)'
    BY <2>1, OneList DEF Reading, Clearing
  <2>3. QED BY <1>1, <2>1, <2>2 DEF Early
<1>3. CASE SettleDestination(r)
  <2>1. Reading(r) /\ Clearing(r)' /\ UNCHANGED <<hash, plan>>
    BY <1>3, SettleEffect
  <2>2. ~Reading(r)'
    BY <2>1, OneList DEF Reading, Clearing
  <2>3. QED BY <1>1, <2>1, <2>2 DEF Early
<1>4. ASSUME NEW mode \in Mode, RouteRequest(r, mode)
      PROVE  /\ Clearing(r) /\ hash' = hash /\ ~Reading(r)' /\ ~Clearing(r)'
             /\ plan'[r].path # "origin_request"
  <2> DEFINE path == PathOf(r, mode)
  <2>1. /\ Clearing(r) /\ hash' = hash
        /\ path \in Path
        /\ path \in {"followup", "journey", "broad"} => Answering(r)'
        /\ path \in {"reference", "origin_request"} => Persisting(r)'
    BY <1>4, RouteEffect
  <2>2. plan'[r].path = path
    BY <1>4, RouteDecides
  <2> HIDE DEF path
  <2>3. path # "origin_request" /\ Answering(r)'
    BY <1>1, <2>1 DEF Path
  <2>4. QED BY <2>1, <2>2, <2>3, OneList DEF Reading, Clearing, Answering
<1>5. CASE ConsultGate(r) \/ LoadTurns(r) \/ ArmExpiry(r)
  <2>1. /\ UNCHANGED <<hash, plan>> /\ ~Reading(r) /\ ~Clearing(r)
        /\ outcome'[r] = "answered" \/ SamePhase(r)
    BY <1>5, PassEffect
  <2>2. outcome'[r] = "running"
    BY DEF Early
  <2>3. QED BY <1>1, <2>1, <2>2 DEF Early, SamePhase
<1>6. CASE AnswerRequest(r)
  BY <1>1, <1>6, AnswerEffect
<1>7. CASE SaveExchange(r)
  BY <1>1, <1>7, SaveEffect DEF SamePhase
<1>8. CASE WriteField(r)
  <2>1. /\ hash'.user = hash.user /\ hash'.reply = hash.reply /\ plan' = plan
        /\ Answering(r) \/ Persisting(r)
        /\ \/ Persisting(r) /\ Closing(r)'
           \/ SamePhase(r) /\ Persisting(r)
           \/ SamePhase(r) /\ hash'.dest = hash.dest /\ hash'.ctx = hash.ctx
    BY <1>8, WriteEffect
  <2>2. SamePhase(r) /\ ~Persisting(r)
    BY <1>1, <2>1 DEF SamePhase
  <2>3. Answering(r) /\ hash'.dest = hash.dest /\ hash'.ctx = hash.ctx
    BY <2>1, <2>2
  <2>4. QED BY <1>1, <2>1, <2>2, <2>3 DEF SamePhase, Early
<1>9. CASE ClearField(r)
  <2>1. /\ SamePhase(r) /\ (Clearing(r) \/ Answering(r))
        /\ hash'.user = hash.user /\ hash'.reply = hash.reply /\ hash'.dest = hash.dest
        /\ plan' = plan /\ Head(todo[r]) = Del(FieldOf(r))
        /\ (FieldOf(r) = "ctx" /\ hash'.ctx = 0) \/ hash'.ctx = hash.ctx
    BY <1>9, ClearEffect
  <2>2. Has(r, Del(FieldOf(r)))
    BY <1>9, <2>1, HasHead DEF ClearField
  <2>3. QED BY <1>1, <2>1, <2>2 DEF SamePhase, Early
<1>10. QED
  BY <1>1, <1>2, <1>3, <1>4, <1>5, <1>6, <1>7, <1>8, <1>9 DEF Step, Early

(* The running request asks for the origin itself.                          *)
LEMMA AskingStep ==
    ASSUME TypeOK, ListInv, SeqInv, AskInv, NEW r \in Request, Step(r), faults = {},
           AsksBack(r)', outcome'[r] = "running"
    PROVE  /\ question[r] # NoQuestion /\ reply'[r] = OriginRequest
           /\ Asking(r)'
<1>1. outcome[r] = "running"
  BY Alone
<1>2. ASSUME NEW mode \in Mode, RouteRequest(r, mode)
      PROVE  /\ question[r] # NoQuestion /\ reply'[r] = OriginRequest
             /\ Asking(r)'
  <2> DEFINE path == PathOf(r, mode)
  <2>1. plan'[r].path = path
    BY <1>2, RouteDecides
  <2>2. path = "origin_request"
    BY <2>1 DEF AsksBack
  <2>3. question[r] # NoQuestion
    <3>1. /\ "followup" # "origin_request" /\ "broad" # "origin_request"
          /\ "reference" # "origin_request" /\ "journey" # "origin_request"
      OBVIOUS
    <3>2. NeedsOrigin(question[r], LastReply(r))
      BY <2>2, <3>1 DEF path, PathOf
    <3>3. QED BY <3>2 DEF NeedsOrigin
  <2> HIDE DEF path
  <2>4. reply'[r] = OriginRequest
    <3>1. reply'[r] = FixedReplyOf("origin_request")
      BY <1>2, <2>2, RouteEffect DEF path
    <3>2. QED BY <3>1 DEF FixedReplyOf
  <2>5. Persisting(r)' /\ Has(r, Set("ctx"))' /\ Has(r, Local("save"))'
    BY <1>2, <2>2, RouteEffect DEF path
  <2>6. QED BY <2>3, <2>4, <2>5 DEF Asking
<1>3. ASSUME plan'[r] = plan[r]
      PROVE  question[r] # NoQuestion /\ reply[r] = OriginRequest /\ Asking(r)
  BY <1>1, <1>3 DEF AsksBack, AskInv
<1>4. ASSUME Asking(r) PROVE ~Reading(r) /\ ~Clearing(r) /\ ~Answering(r)
  BY <1>4, OnePhase DEF Asking
<1>5. Set("ctx") # Local("expire") /\ Local("save") # Local("expire") /\ Set("ctx") # Local("save")
  BY DEF Set, Local
<1>6. CASE ReadField(r) \/ SettleDestination(r) \/ AnswerRequest(r) \/ ClearField(r)
  <2>1. plan'[r] = plan[r] /\ (Reading(r) \/ Clearing(r) \/ Answering(r))
    BY <1>6, ReadEffect, SettleEffect, AnswerEffect, ClearEffect
  <2>2. QED BY <1>3, <1>4, <2>1
<1>7. CASE ConsultGate(r) \/ LoadTurns(r) \/ ArmExpiry(r)
  <2>1. /\ UNCHANGED <<hash, plan, reply>> /\ SamePhase(r)
        /\ Has(r, Set("ctx"))' <=> Has(r, Set("ctx"))
        /\ Has(r, Local("save"))' <=> Has(r, Local("save"))
    <3>1. /\ Set("ctx") \notin {Local("gate"), Local("load"), Local("expire")}
          /\ Local("save") \notin {Local("gate"), Local("load"), Local("expire")}
      BY DEF Set, Local
    <3>2. QED BY <1>7, <3>1, PassEffect
  <2>2. QED BY <1>3, <2>1 DEF Asking, SamePhase
<1>8. CASE SaveExchange(r)
  <2>1. /\ Persisting(r) /\ SamePhase(r) /\ Shorter(r) /\ Head(todo[r]) = Local("save")
        /\ UNCHANGED <<plan, reply>> /\ hash' = ExchangeSaved(r)
    BY <1>8, SaveEffect
  <2>2. question[r] # NoQuestion /\ reply[r] = OriginRequest /\ Asking(r)
    BY <1>3, <2>1
  <2>3. reply[r] # NoReply
    BY <2>2, ReplyAssumption DEF Reply, FixedReply
  <2>4. hash'.user = r /\ hash'.reply = r /\ hash'.ctx = hash.ctx
    BY <2>1, <2>2, <2>3 DEF ExchangeSaved, TypeOK, Hash
  <2>5. Has(r, Set("ctx")) => Has(r, Set("ctx"))'
    BY <1>5, <2>1 DEF Shorter
  <2>6. QED BY <2>1, <2>2, <2>4, <2>5 DEF Asking, SamePhase
<1>9. CASE WriteField(r)
  <2>1. /\ Shorter(r) /\ Head(todo[r]) = Set(FieldOf(r))
        /\ UNCHANGED <<plan, reply>>
        /\ hash'.user = hash.user /\ hash'.reply = hash.reply
        /\ SamePhase(r) \/ Closing(r)'
        /\ hash'.ctx = hash.ctx \/ hash'.ctx = r
        /\ FieldOf(r) = "ctx" => hash'.ctx = r
    BY <1>9, WriteEffect
  <2>2. question[r] # NoQuestion /\ reply[r] = OriginRequest /\ Asking(r)
    BY <1>3, <2>1
  <2>3. Has(r, Local("save")) => Has(r, Local("save"))'
    BY <2>1 DEF Shorter, Set, Local
  <2>4. Has(r, Set("ctx")) => Has(r, Set("ctx"))' \/ hash'.ctx = r
    BY <2>1 DEF Shorter, Set
  <2>5. QED BY <2>1, <2>2, <2>3, <2>4 DEF Asking, SamePhase
<1>10. QED
  BY <1>2, <1>6, <1>7, <1>8, <1>9 DEF Step


(* A request is answered with its last command, which changes nothing else. *)
LEMMA StepAnswers ==
    ASSUME TypeOK, ListInv, NEW r \in Request, Step(r), outcome'[r] # "running"
    PROVE  outcome'[r] = "answered" /\ Closing(r) /\ UNCHANGED <<hash, plan, reply, place, question>>
<1>1. CASE ConsultGate(r) \/ LoadTurns(r) \/ ArmExpiry(r)
  BY <1>1, PassEffect
<1>2. CASE ReadField(r) \/ SettleDestination(r) \/ AnswerRequest(r) \/ ClearField(r)
  BY <1>2, ReadEffect, SettleEffect, AnswerEffect, ClearEffect
<1>3. CASE SaveExchange(r) \/ WriteField(r)
  BY <1>3, SaveEffect, WriteEffect
<1>4. CASE \E mode \in Mode : RouteRequest(r, mode)
  BY <1>4, RouteEffect
<1>5. QED BY <1>1, <1>2, <1>3, <1>4 DEF Step

(* Only the request that takes a step changes how it stands to another one. *)
LEMMA OthersStand ==
    ASSUME NEW w \in Request, NEW q \in Request,
           outcome'[q] = outcome[q], todo'[q] = todo[q],
           place'[q] = place[q], place'[w] = place[w]
    PROVE  /\ Unsaved(q)' <=> Unsaved(q)
           /\ ComesNext(q, w)' <=> ComesNext(q, w)
<1>1. /\ Reading(q)' <=> Reading(q)
      /\ Clearing(q)' <=> Clearing(q)
      /\ Answering(q)' <=> Answering(q)
  BY DEF Reading, Clearing, Answering
<1>2. QED BY <1>1 DEF Unsaved, Early, ComesNext

(* A request that comes next has not saved anything yet.                    *)
LEMMA NextIsUnsaved ==
    ASSUME NEW q \in Request, NEW p \in Request, outcome[q] = "none" \/ ComesNext(q, p)
    PROVE  Unsaved(q)
BY DEF Unsaved, Early, ComesNext

(* A later request that decides leaves what an answered one has asked.      *)
LEMMA AskedStep ==
    ASSUME TypeOK, ListInv, SeqInv, ReadInv, NEW r \in Request, NEW w \in Request,
           Step(r), faults = {}, w < r, Asked(w)
    PROVE  Asked(w)'
<1>1. /\ outcome[r] = "running" /\ outcome'[r] # "none" /\ UNCHANGED <<place, question>>
      /\ \A q \in Request : q # r => todo'[q] = todo[q] /\ outcome'[q] = outcome[q]
  BY StepFrame
<1>2. outcome'[r] \in {"running", "answered"}
  BY StepAnswers
<1>3. \A q \in Request : q # r => /\ Unsaved(q)' <=> Unsaved(q)
                                  /\ ComesNext(q, w)' <=> ComesNext(q, w)
  BY <1>1, OthersStand
<1>4. r > w
  BY BoundsAssumption DEF Request
<1>5. ASSUME \A q \in Request : q > w => Unsaved(q)'
      PROVE  /\ hash'.user = w /\ hash'.reply = w /\ hash'.dest = place'[w]
             /\ hash'.ctx \in {0, w}
  <2>1. Early(r)'
    BY <1>2, <1>4, <1>5 DEF Unsaved
  <2>2. /\ Early(r) /\ hash'.user = hash.user /\ hash'.reply = hash.reply
        /\ hash'.dest = hash.dest /\ (hash'.ctx = hash.ctx \/ hash'.ctx = 0)
    BY <2>1, EarlyStep
  <2>3. \A q \in Request : q > w => Unsaved(q)
    BY <1>3, <1>5, <2>2 DEF Unsaved
  <2>4. QED BY <1>1, <2>2, <2>3 DEF Asked
<1>6. ASSUME \A q \in Request : q > w => outcome'[q] = "none" \/ ComesNext(q, w)'
      PROVE  hash'.ctx = w
  <2>1. ComesNext(r, w)'
    BY <1>1, <1>4, <1>6
  <2>2. Early(r)' /\ (Reading(r)' \/ (Clearing(r)' /\ place[r] = place[w]))
        /\ r = w + 1
    BY <1>1, <2>1 DEF ComesNext, Early
  <2>3. /\ Reading(r)' => Reading(r)
        /\ Clearing(r)' => Reading(r) \/ Clearing(r)
        /\ \/ hash'.ctx = hash.ctx
           \/ (Clearing(r) => Has(r, Del("ctx"))) /\ SamePhase(r) /\ (Clearing(r) \/ Answering(r))
    BY <2>2, EarlyStep
  <2>4. Clearing(r) => Clearing(r)'
    BY <2>2, <2>3, OnePhase
  <2>5. ComesNext(r, w)
    <3>1. Reading(r) \/ (Clearing(r) /\ place[r] = place[w])
      BY <2>2, <2>3, <2>4, OneList DEF Reading, Clearing
    <3>2. QED BY <1>1, <2>2, <3>1 DEF ComesNext
  <2>6. \A q \in Request : q > w => outcome[q] = "none" \/ ComesNext(q, w)
    BY <1>1, <1>3, <1>6, <2>5
  <2>7. hash.ctx = w
    BY <2>6 DEF Asked
  <2>8. hash.dest = place[w]
    <3>1. \A q \in Request : q > w => Unsaved(q)
      BY <2>6, NextIsUnsaved
    <3>2. QED BY <3>1 DEF Asked
  <2>9. ~((Clearing(r) => Has(r, Del("ctx"))) /\ SamePhase(r) /\ (Clearing(r) \/ Answering(r)))
    <3> SUFFICES ASSUME Clearing(r) => Has(r, Del("ctx")), SamePhase(r),
                        Clearing(r) \/ Answering(r)
                 PROVE  FALSE
      OBVIOUS
    <3>1. Reading(r) \/ Clearing(r)
      BY <2>2, <2>3
    <3>2. Clearing(r)
      BY <3>1, OnePhase
    <3>3. ~Reading(r)'
      BY <3>2, OnePhase DEF SamePhase
    <3>4. place[r] = place[w]
      BY <2>2, <3>3
    <3>5. UpToDate(r)
      BY <1>1 DEF ReadInv
    <3>6. QED BY <2>8, <3>2, <3>4, <3>5 DEF UpToDate
  <2>10. QED BY <2>3, <2>7, <2>9
<1>7. QED BY <1>5, <1>6 DEF Asked

(* Every step keeps what was asked the last exchange.                       *)
LEMMA AskNext ==
    ASSUME MaxInFlight = 1
    PROVE  /\ TypeOK /\ ListInv /\ SeqInv /\ CurrentInv /\ ReadInv /\ AskInv
           /\ [Next]_vars
           => AskInv'
<1> SUFFICES ASSUME TypeOK, ListInv, SeqInv, CurrentInv, ReadInv, AskInv, [Next]_vars, faults' = {}
             PROVE  AskInv'
  BY DEF AskInv
<1>1. ASSUME NEW r \in Request, NEW p \in Place, NEW q \in MaybeQuestion, Arrive(r, p, q)
      PROVE  AskInv'
  <2>1. /\ outcome[r] = "none" /\ UNCHANGED <<hash, plan, reply, faults>>
        /\ \A w \in Request : outcome[w] # "running"
        /\ \A w \in Request : w # r => /\ todo'[w] = todo[w] /\ outcome'[w] = outcome[w]
                                       /\ place'[w] = place[w] /\ question'[w] = question[w]
    BY <1>1, ArrivesAlone
  <2> SUFFICES ASSUME NEW w \in Request, AsksBack(w)'
               PROVE  /\ question'[w] # NoQuestion /\ reply'[w] = OriginRequest
                      /\ outcome'[w] = "answered" /\ Asked(w)'
    BY DEF AskInv
  <2>2. AsksBack(w) /\ w # r
    BY <2>1 DEF AsksBack, SeqInv, NoPlan
  <2>3. /\ question[w] # NoQuestion /\ reply[w] = OriginRequest
        /\ outcome[w] = "answered" /\ Asked(w)
    BY <2>1, <2>2 DEF AskInv
  <2>4. \A v \in Request : v # r => /\ Unsaved(v)' <=> Unsaved(v)
                                    /\ ComesNext(v, w)' <=> ComesNext(v, w)
    BY <2>1, <2>2, OthersStand
  <2>5. Unsaved(r)
    BY <2>1 DEF Unsaved
  <2>6. ASSUME \A v \in Request : v > w => Unsaved(v)'
        PROVE  \A v \in Request : v > w => Unsaved(v)
    BY <2>4, <2>5, <2>6
  <2>7. ASSUME \A v \in Request : v > w => outcome'[v] = "none" \/ ComesNext(v, w)'
        PROVE  \A v \in Request : v > w => outcome[v] = "none" \/ ComesNext(v, w)
    BY <2>1, <2>4, <2>7
  <2>8. Asked(w)'
    BY <2>1, <2>2, <2>3, <2>6, <2>7 DEF Asked
  <2>9. QED BY <2>1, <2>2, <2>3, <2>8
<1>2. ASSUME NEW r \in Request, Step(r) PROVE AskInv'
  <2>1. /\ outcome[r] = "running" /\ UNCHANGED <<place, question>> /\ faults = {}
        /\ \A w \in Request : w # r => /\ outcome'[w] = outcome[w]
                                       /\ plan'[w] = plan[w] /\ reply'[w] = reply[w]
    BY <1>2, StepFrame
  <2> SUFFICES ASSUME NEW w \in Request, AsksBack(w)'
               PROVE  /\ question[w] # NoQuestion /\ reply'[w] = OriginRequest
                      /\ outcome'[w] \in {"running", "answered"}
                      /\ outcome'[w] = "running" => Asking(w)'
                      /\ outcome'[w] = "answered" => Asked(w)'
    BY <2>1 DEF AskInv
  <2>2. CASE w = r /\ outcome'[r] = "running"
    BY <1>2, <2>1, <2>2, AskingStep
  <2>3. CASE w = r /\ outcome'[r] # "running"
    <3>1. outcome'[r] = "answered" /\ Closing(r) /\ UNCHANGED <<hash, plan, reply, place, question>>
      BY <1>2, <2>3, StepAnswers
    <3>2. question[r] # NoQuestion /\ reply[r] = OriginRequest /\ Asking(r)
      BY <2>1, <2>3, <3>1 DEF AskInv, AsksBack
    <3>3. ~Has(r, Set("ctx")) /\ ~Has(r, Local("save"))
      <4>1. Local("expire") \in Op /\ Set("ctx") # Local("expire") /\ Local("save") # Local("expire")
        BY Commands DEF Set, Local
      <4>2. QED BY <3>1, <4>1, SingleList DEF Has, Closing
    <3>4. hash.ctx = r /\ hash.user = r /\ hash.reply = r
      BY <3>2, <3>3 DEF Asking
    <3>5. hash.dest = place[r]
      BY <2>1, <3>1 DEF CurrentInv, NotExpired
    <3>6. Asked(r)'
      BY <3>1, <3>4, <3>5 DEF Asked
    <3>7. QED BY <2>3, <3>1, <3>2, <3>6
  <2>4. CASE w # r
    <3>1. AsksBack(w)
      BY <2>1, <2>4 DEF AsksBack
    <3>2. outcome[w] # "running"
      BY <2>1, <2>4, OneRuns
    <3>3. /\ question[w] # NoQuestion /\ reply[w] = OriginRequest
          /\ outcome[w] = "answered" /\ Asked(w)
      BY <2>1, <3>1, <3>2 DEF AskInv
    <3>4. w < r
      BY <2>1, <3>3, RunningIsNewest
    <3>5. Asked(w)'
      BY <1>2, <2>1, <3>3, <3>4, AskedStep
    <3>6. QED BY <2>1, <2>4, <3>3, <3>5
  <2>5. QED BY <2>2, <2>3, <2>4
<1>3. ASSUME NEW r \in Request, Failure(r) PROVE AskInv'
  <2>1. /\ outcome[r] = "running" /\ faults = {}
        /\ \A w \in Request : w # r => /\ outcome'[w] = outcome[w] /\ todo'[w] = todo[w]
                                       /\ plan'[w] = plan[w]
    BY <1>3, StepFrame
  <2>2. /\ Clearing(r) \/ Answering(r)
        /\ outcome'[r] = "failed" /\ plan'[r] = NoPlan
        /\ UNCHANGED <<hash, place, question, reply>>
    BY <1>3, FailureEffect
  <2> SUFFICES ASSUME NEW w \in Request, AsksBack(w)'
               PROVE  /\ question[w] # NoQuestion /\ reply[w] = OriginRequest
                      /\ outcome'[w] = "answered" /\ Asked(w)'
    BY <2>2 DEF AskInv
  <2>3. AsksBack(w) /\ w # r
    BY <2>1, <2>2 DEF AsksBack, NoPlan
  <2>4. outcome[w] # "running"
    BY <2>1, <2>3, OneRuns
  <2>5. /\ question[w] # NoQuestion /\ reply[w] = OriginRequest
        /\ outcome[w] = "answered" /\ Asked(w)
    BY <2>1, <2>3, <2>4 DEF AskInv
  <2>6. r > w
    <3>1. w < r
      BY <2>1, <2>5, RunningIsNewest
    <3>2. QED BY <3>1, BoundsAssumption DEF Request
  <2>7. \A v \in Request : v # r => (Unsaved(v)' <=> Unsaved(v))
    BY <2>1, <2>2, OthersStand
  <2>8. Unsaved(r) /\ outcome'[r] # "none" /\ ~ComesNext(r, w)'
    BY <2>1, <2>2 DEF Unsaved, Early, ComesNext
  <2>9. (\A v \in Request : v > w => Unsaved(v)') => \A v \in Request : v > w => Unsaved(v)
    BY <2>7, <2>8
  <2>10. Asked(w)'
    BY <2>2, <2>5, <2>6, <2>8, <2>9 DEF Asked
  <2>11. QED BY <2>1, <2>3, <2>5, <2>10
<1>4. CASE Crash \/ Expire
  BY <1>4 DEF Crash, Expire, Fault
<1>5. CASE UNCHANGED vars
  BY <1>5 DEF vars, AskInv, AsksBack, Asking, Asked, Unsaved, Early, ComesNext,
              Reading, Clearing, Answering, Persisting, Closing, Has
<1>6. QED BY <1>1, <1>2, <1>3, <1>4, <1>5 DEF Next, Done

-----------------------------------------------------------------------------
(* The question that waited for its origin is taken up again.               *)

(* The assistant asked request p for its origin, and r names it: at once,   *)
(* or by a phrase after requests that failed.                               *)
Resumable(p, r) ==
    /\ p < r /\ place[r] = place[p] /\ outcome[p] = "answered" /\ AsksBack(p)
    /\ \/ r = p + 1 /\ NamesOrigin(question[r], OriginRequest)
       \/ /\ \A f \in p + 1 .. r - 1 : outcome[f] = "failed"
          /\ IsJourneyQuestion(question[p]) /\ IsOriginOnly(question[r])

Resumes(p, r) == plan[r].effective = p /\ plan[r].origin = r /\ plan[r].path = "journey"

ResumeInv ==
    faults = {} =>
        \A p, r \in Request : Routed(r) /\ Resumable(p, r) => Resumes(p, r)

(* A message that only names an origin names it in any context.             *)
LEMMA OriginOnlyNames ==
    ASSUME NEW q, IsOriginOnly(q) PROVE NamesOrigin(q, OriginRequest)
<1>1. ~AsksOrigin(NoReply)
  BY ReplyAssumption DEF AsksOrigin, Reply, FixedReply
<1>2. QED BY <1>1 DEF IsOriginOnly, NamesOrigin

(* What a resuming request has read when it is routed.                      *)
LEMMA ResumeReads ==
    ASSUME TypeOK, ListInv, SeqInv, ReadInv, AskInv, faults = {},
           NEW p \in Request, NEW r \in Request, outcome[r] = "running", Clearing(r),
           Resumable(p, r)
    PROVE  /\ seen[r].user = p /\ LastReply(r) = OriginRequest
           /\ seen[r].ctx = p \/ (seen[r].ctx = 0 /\ IsJourneyQuestion(question[p])
                                    /\ IsOriginOnly(question[r]))
<1>1. p \in Nat \ {0} /\ r \in Nat \ {0} /\ p < r
  BY BoundsAssumption DEF Resumable, Request
<1>2. UpToDate(r) /\ \A q \in Request : q > r => outcome[q] = "none"
  BY DEF ReadInv, SeqInv
<1>3. reply[p] = OriginRequest /\ Asked(p)
  BY DEF Resumable, AskInv
<1>4. ASSUME NEW q \in Request, q > p PROVE Unsaved(q)
  <2>1. CASE q = r
    BY <2>1 DEF Unsaved, Early
  <2>2. CASE q > r
    BY <1>2, <2>2 DEF Unsaved
  <2>3. CASE q < r
    <3>1. q \in p + 1 .. r - 1 /\ r # p + 1
      BY <1>1, <1>4, <2>3, BoundsAssumption DEF Request
    <3>2. outcome[q] = "failed"
      BY <3>1 DEF Resumable
    <3>3. QED BY <3>2 DEF Unsaved
  <2>4. QED BY <1>1, <2>1, <2>2, <2>3, BoundsAssumption DEF Request
<1>5. hash.user = p /\ hash.reply = p /\ hash.dest = place[p] /\ hash.ctx \in {0, p}
  BY <1>3, <1>4 DEF Asked
<1>6. /\ seen[r].user = p /\ seen[r].reply = p /\ seen[r].ctx = hash.ctx
  BY <1>2, <1>5 DEF UpToDate, Resumable
<1>7. LastReply(r) = OriginRequest
  BY <1>1, <1>3, <1>6 DEF LastReply, ReplyOf
<1>8. CASE r = p + 1
  <2>1. ComesNext(r, p)
    BY <1>8 DEF ComesNext, Resumable
  <2>2. ASSUME NEW q \in Request, q > p PROVE outcome[q] = "none" \/ ComesNext(q, p)
    <3>1. q = r \/ q > r
      BY <1>1, <1>8, <2>2, BoundsAssumption DEF Request
    <3>2. QED BY <1>2, <2>1, <3>1
  <2>3. hash.ctx = p
    BY <1>3, <2>2 DEF Asked
  <2>4. QED BY <1>6, <1>7, <2>3
<1>9. CASE r # p + 1
  BY <1>5, <1>6, <1>7, <1>9 DEF Resumable
<1>10. QED BY <1>8, <1>9

(* ... and so how it is routed.                                             *)
LEMMA ResumeRoute ==
    ASSUME TypeOK, ListInv, SeqInv, ReadInv, AskInv, faults = {},
           NEW p \in Request, NEW r \in Request, Resumable(p, r),
           NEW mode \in Mode, RouteRequest(r, mode)
    PROVE  Resumes(p, r)'
<1>1. Clearing(r) /\ outcome[r] = "running" /\ mode \in AnswerModes(r)
  BY RouteEffect, StepFrame DEF Step
<1>2. p \in Nat \ {0} /\ r \in Nat \ {0}
  BY BoundsAssumption DEF Request
<1>3. /\ seen[r].user = p /\ LastReply(r) = OriginRequest
      /\ seen[r].ctx = p \/ (seen[r].ctx = 0 /\ IsJourneyQuestion(question[p])
                               /\ IsOriginOnly(question[r]))
  BY <1>1, ResumeReads
<1>4. NamesOrigin(question[r], OriginRequest) /\ question[r] # NoQuestion
  <2>1. NamesOrigin(question[r], OriginRequest)
    BY OriginOnlyNames DEF Resumable
  <2>2. QED BY <2>1 DEF NamesOrigin
<1>5. QuestionOf(r) = question[r] /\ QuestionOf(p) = question[p]
  BY <1>2 DEF QuestionOf
<1>6. NamedOrigin(r) = r
  <2>1. OriginIn(r, LastReply(r)) = r
    BY <1>3, <1>4, <1>5 DEF OriginIn
  <2>2. WithActiveOrigin(r, r, r) = r
    BY <1>2 DEF WithActiveOrigin
  <2>3. QED BY <1>2, <2>1, <2>2 DEF NamedOrigin
<1>7. EffectiveQuestion(r) = p
  <2>1. CASE seen[r].ctx = p
    <3>1. RestorePending(r) = p
      BY <1>2, <1>6, <2>1 DEF RestorePending, AwaitingOrigin
    <3>2. QED BY <1>3, <3>1 DEF EffectiveQuestion, RestoreOriginOnly
  <2>2. CASE seen[r].ctx = 0
    <3>1. IsJourneyQuestion(question[p]) /\ IsOriginOnly(question[r])
      BY <1>2, <1>3, <2>2
    <3>2. RestorePending(r) = r
      BY <1>4, <2>2 DEF RestorePending, AwaitingOrigin, OwnQuestion
    <3>3. QED BY <1>2, <1>3, <1>5, <1>6, <3>1, <3>2
              DEF EffectiveQuestion, RestoreOriginOnly, IsJourneyText
  <2>3. QED BY <1>3, <2>1, <2>2
<1>8. FinalOrigin(r) = r
  BY <1>2, <1>6, <1>7 DEF FinalOrigin, WithActiveOrigin
<1>9. mode = "journey_planning"
  <2>1. CASE seen[r].ctx = p
    BY <1>1, <1>2, <1>6, <2>1 DEF AnswerModes, ResumesJourney, AwaitingOrigin
  <2>2. CASE seen[r].ctx = 0
    <3>1. question[p] # NoQuestion /\ Feature[question[p]].journey
      BY <1>2, <1>3, <2>2 DEF IsJourneyQuestion
    <3>2. Fallback(r) = "journey_planning"
      BY <1>5, <1>7, <3>1 DEF Fallback, ClassifyAnswerMode, ForcesJourney
    <3>3. ~ResumesJourney(r) /\ ~RouterConsulted(r)
      BY <2>2, <3>2 DEF ResumesJourney, AwaitingOrigin, RouterConsulted
    <3>4. QED BY <1>1, <3>2, <3>3 DEF AnswerModes
  <2>3. QED BY <1>3, <2>1, <2>2
<1>10. PathOf(r, mode) = "journey"
  <2>1. ~NeedsReference(question[r], LastReply(r))
    BY <1>3, ReplyAssumption DEF NeedsReference, Reply, FixedReply
  <2>2. ~NeedsOrigin(question[r], LastReply(r))
    BY <1>3, <1>4 DEF NeedsOrigin
  <2>3. QED BY <1>2, <1>8, <1>9, <2>1, <2>2 DEF PathOf
<1>11. QED BY <1>7, <1>8, <1>10, RouteDecides DEF Resumes

(* The routing of a request is the only step that changes its plan.         *)
LEMMA OnlyRoutingPlans ==
    ASSUME TypeOK, ListInv, NEW r \in Request, Step(r),
           \A mode \in Mode : ~RouteRequest(r, mode)
    PROVE  plan' = plan
<1>1. CASE ConsultGate(r) \/ LoadTurns(r) \/ ArmExpiry(r)
  BY <1>1, PassEffect
<1>2. CASE ReadField(r) \/ SettleDestination(r) \/ AnswerRequest(r) \/ ClearField(r)
  BY <1>2, ReadEffect, SettleEffect, AnswerEffect, ClearEffect
<1>3. CASE SaveExchange(r) \/ WriteField(r)
  BY <1>3, SaveEffect, WriteEffect
<1>4. QED BY <1>1, <1>2, <1>3 DEF Step

(* What was decided earlier in the session stays as it is.                  *)
LEMMA ResumeKept ==
    ASSUME NEW p \in Request, NEW r \in Request, ResumeInv, faults = {},
           Routed(r)', Resumable(p, r)', plan'[r] = plan[r],
           \A q \in Request : q <= r =>
               /\ place'[q] = place[q] /\ question'[q] = question[q]
               /\ q < r => outcome'[q] = outcome[q] /\ plan'[q] = plan[q]
    PROVE  Resumes(p, r)'
<1>1. p < r /\ p <= r /\ r <= r
  BY BoundsAssumption DEF Resumable, Request
<1>2. \A f \in p + 1 .. r - 1 : f \in Request /\ f <= r /\ f < r
  BY BoundsAssumption DEF Request
<1>3. Routed(r) /\ Resumable(p, r)
  BY <1>1, <1>2 DEF Routed, Resumable, AsksBack
<1>4. QED BY <1>3 DEF ResumeInv, Resumes

(* Every step keeps the decisions on an origin that was asked for.          *)
LEMMA ResumeNext ==
    ASSUME MaxInFlight = 1
    PROVE  /\ TypeOK /\ ListInv /\ SeqInv /\ ReadInv /\ AskInv /\ ResumeInv
           /\ [Next]_vars
           => ResumeInv'
<1> SUFFICES ASSUME TypeOK, ListInv, SeqInv, ReadInv, AskInv, ResumeInv, [Next]_vars, faults' = {},
                    NEW p \in Request, NEW r \in Request, Routed(r)', Resumable(p, r)'
             PROVE  Resumes(p, r)'
  BY DEF ResumeInv
<1>1. ASSUME NEW s \in Request, NEW pl \in Place, NEW qu \in MaybeQuestion, Arrive(s, pl, qu)
      PROVE  Resumes(p, r)'
  <2>1. /\ outcome[s] = "none" /\ UNCHANGED <<plan, faults>>
        /\ \A w \in Request : w > s => outcome[w] = "none"
        /\ \A w \in Request : w # s => /\ outcome'[w] = outcome[w]
                                       /\ place'[w] = place[w] /\ question'[w] = question[w]
    BY <1>1, ArrivesAlone
  <2>2. outcome[r] # "none"
    BY <2>1 DEF Routed, SeqInv, NoPlan
  <2>3. r < s
    BY <2>1, <2>2, BoundsAssumption DEF Request
  <2>4. \A q \in Request : q <= r => q # s
    BY <2>3, BoundsAssumption DEF Request
  <2>5. QED BY <2>1, <2>4, ResumeKept
<1>2. ASSUME NEW s \in Request, Step(s) \/ Failure(s) PROVE Resumes(p, r)'
  <2>1. /\ outcome[s] = "running" /\ UNCHANGED <<place, question>> /\ faults = {}
        /\ \A q \in Request : q # s => outcome'[q] = outcome[q] /\ plan'[q] = plan[q]
    BY <1>2, StepFrame
  <2>2. \A w \in Request : w > s => outcome[w] = "none" /\ plan[w] = NoPlan
    BY <2>1 DEF SeqInv
  <2>3. CASE r # s
    <3>1. r < s
      <4>1. plan[r] # NoPlan
        BY <2>1, <2>3 DEF Routed, NoPlan
      <4>2. QED BY <2>2, <2>3, <4>1, BoundsAssumption DEF Request
    <3>2. \A q \in Request : q <= r => q # s
      BY <3>1, BoundsAssumption DEF Request
    <3>3. QED BY <2>1, <2>3, <3>2, ResumeKept
  <2>4. CASE r = s /\ Failure(s)
    <3>1. plan'[s] = NoPlan
      BY <2>4, FailureEffect
    <3>2. QED BY <2>4, <3>1 DEF Routed, NoPlan
  <2>5. CASE r = s /\ \E mode \in Mode : RouteRequest(s, mode)
    <3>1. p \in Request /\ p # r /\ \A f \in p + 1 .. r - 1 : f \in Request /\ f # r
      BY BoundsAssumption DEF Resumable, Request
    <3>2. Resumable(p, r)
      BY <2>1, <2>5, <3>1 DEF Resumable, AsksBack
    <3>3. QED BY <2>1, <2>5, <3>2, ResumeRoute
  <2>6. CASE r = s /\ Step(s) /\ \A mode \in Mode : ~RouteRequest(s, mode)
    <3>1. plan' = plan
      BY <2>6, OnlyRoutingPlans
    <3>2. \A q \in Request : q < r => q # s
      BY <2>6, BoundsAssumption DEF Request
    <3>3. QED BY <2>1, <2>6, <3>1, <3>2, ResumeKept
  <2>7. QED BY <1>2, <2>3, <2>4, <2>5, <2>6
<1>3. CASE Crash \/ Expire
  BY <1>3 DEF Crash, Expire, Fault
<1>4. CASE UNCHANGED vars
  BY <1>4, ResumeKept DEF vars
<1>5. QED BY <1>1, <1>2, <1>3, <1>4 DEF Next, Done

(* What the session has asked and decided, always.                          *)
LEMMA Resumed ==
    ASSUME MaxInFlight = 1 PROVE Spec => [](TypeOK /\ ResumeInv)
<1> DEFINE Inv == TypeOK /\ ListInv /\ SeqInv /\ CurrentInv /\ ReadInv /\ AskInv /\ ResumeInv
<1>1. Init => Inv
  <2> SUFFICES ASSUME Init PROVE Inv
    OBVIOUS
  <2>1. TypeOK /\ ListInv /\ SeqInv
    BY SequentialInit
  <2>2. \A r \in Request : outcome[r] = "none" /\ plan[r].path = "-"
    BY DEF Init, NoPlan
  <2>3. CurrentInv /\ ReadInv
    BY <2>2 DEF CurrentInv, ReadInv
  <2>4. AskInv /\ ResumeInv
    BY <2>2 DEF AskInv, AsksBack, ResumeInv, Routed
  <2>5. QED BY <2>1, <2>3, <2>4
<1>2. Inv /\ [Next]_vars => Inv'
  BY StepType, ListStep, SeqStep, CurrentNext, ReadNext, AskNext, ResumeNext
<1>3. Inv => TypeOK /\ ResumeInv
  OBVIOUS
<1> HIDE DEF Inv
<1>4. QED BY <1>1, <1>2, <1>3, PTL DEF Spec

(* With one message at a time and no fault, when the assistant has asked    *)
(* where the user travels from and the next message names the place, that   *)
(* message is answered as the journey question that was asked, from that    *)
(* place (restore_pending_journey_question, finalize_origin).               *)
THEOREM TheNextMessageResumesTheQuestion ==
    ASSUME MaxInFlight = 1 PROVE Spec => []OriginReplyResumesTheQuestion
<1>1. TypeOK /\ ResumeInv => OriginReplyResumesTheQuestion
  <2> SUFFICES ASSUME ResumeInv, faults = {}, NEW p \in Request, NEW r \in Request,
                      r = p + 1, Routed(r), place[r] = place[p], outcome[p] = "answered",
                      plan[p].path = "origin_request", NamesOrigin(question[r], OriginRequest)
               PROVE  /\ QuestionOf(plan[r].effective) = question[p]
                      /\ plan[r].origin = r
                      /\ plan[r].path = "journey"
    BY DEF OriginReplyResumesTheQuestion
  <2>1. p < r /\ p # 0
    BY BoundsAssumption DEF Request
  <2>2. Resumable(p, r)
    BY <2>1 DEF Resumable, AsksBack
  <2>3. Resumes(p, r)
    BY <2>2 DEF ResumeInv
  <2>4. QED BY <2>1, <2>3 DEF Resumes, QuestionOf
<1>2. QED BY <1>1, Resumed, PTL

(* ... and a user who says "I am from X" again after requests whose model   *)
(* call failed still gets the journey question answered, although the       *)
(* pending fields may be gone (restore_origin_only_reply).                  *)
THEOREM TheLastQuestionSurvivesFailedAnswers ==
    ASSUME MaxInFlight = 1 PROVE Spec => []OriginPhraseSurvivesAFailedAnswer
<1>1. TypeOK /\ ResumeInv => OriginPhraseSurvivesAFailedAnswer
  <2> SUFFICES ASSUME ResumeInv, faults = {}, NEW p \in Request, NEW r \in Request,
                      p < r, Routed(r), place[r] = place[p], outcome[p] = "answered",
                      plan[p].path = "origin_request",
                      \A f \in p + 1 .. r - 1 : outcome[f] = "failed",
                      IsJourneyQuestion(question[p]), IsOriginOnly(question[r])
               PROVE  /\ QuestionOf(plan[r].effective) = question[p]
                      /\ plan[r].origin = r
                      /\ plan[r].path = "journey"
    BY DEF OriginPhraseSurvivesAFailedAnswer
  <2>1. p # 0
    BY BoundsAssumption DEF Request
  <2>2. Resumable(p, r)
    BY DEF Resumable, AsksBack
  <2>3. Resumes(p, r)
    BY <2>2 DEF ResumeInv
  <2>4. QED BY <2>1, <2>3 DEF Resumes, QuestionOf
<1>2. QED BY <1>1, Resumed, PTL
-----------------------------------------------------------------------------
(* Seen from outside, the session is a log.                                 *)

(* A save that is next adds its exchange to what the session holds, unless  *)
(* an execution of it whose answer was lost has added it already.           *)
LogInv ==
    NotExpired =>
        \A r \in Request :
            outcome[r] = "running" /\ todo[r][1] = Local("save") /\ HasExchange(r) =>
                hash.turns \in {history[r], Trim(Append(history[r], r))}

(* What a save that is executed makes of the turns.                         *)
LEMMA SavedOnce ==
    ASSUME TypeOK, NEW r \in Request, At(r, "save"), Keep(ExchangeSaved(r))
    PROVE  /\ todo[r][1] = Local("save") /\ outcome[r] = "running"
           /\ hash'.turns = IF HasExchange(r) THEN Trim(Append(history[r], r)) ELSE hash.turns
           /\ hash'.ctx = hash.ctx /\ hash'.dest = hash.dest
<1>1. Head(todo[r]) = Local("save") /\ todo[r] # <<>> /\ outcome[r] = "running"
  BY AtType DEF Op, OtherVerb, Local, At
<1>2. todo[r][1] = Local("save")
  BY <1>1
<1>3. QED BY <1>1, <1>2 DEF Keep, ExchangeSaved, TurnsBefore, TypeOK, Hash

(* Every step keeps a save that is next in its place.                       *)
LEMMA LogNext ==
    ASSUME MaxInFlight = 1
    PROVE  TypeOK /\ ListInv /\ SeqInv /\ LogInv /\ [Next]_vars => LogInv'
<1> SUFFICES ASSUME TypeOK, ListInv, SeqInv, LogInv, [Next]_vars, NotExpired',
                    NEW w \in Request, outcome'[w] = "running",
                    todo'[w][1] = Local("save"), HasExchange(w)'
             PROVE  hash'.turns \in {history'[w], Trim(Append(history'[w], w))}
  BY DEF LogInv
<1>1. ASSUME NEW r \in Request, NEW p \in Place, NEW q \in MaybeQuestion, Arrive(r, p, q)
      PROVE  FALSE
  <2>1. w = r /\ todo'[r] = Preparation
    BY <1>1, ArrivesAlone
  <2>2. Preparation[1] # Local("save")
    BY DEF Preparation, Get, Local
  <2>3. QED BY <2>1, <2>2
<1>2. ASSUME NEW r \in Request, Step(r)
      PROVE  hash'.turns = history'[w]
  <2>1. w = r
    BY <1>2, Alone
  <2>2. LoadTurns(r)
    BY <1>2, <2>1, SaveIsNotNext
  <2>3. QED BY <2>1, <2>2 DEF LoadTurns, store, TypeOK
<1>3. ASSUME NEW r \in Request, Failure(r)
      PROVE  hash'.turns \in {history'[w], Trim(Append(history'[w], w))}
  <2>1. w = r
    BY <1>3, Alone
  <2>2. RedisRepeats(r)
    BY <1>3, <2>1 DEF Failure, RedisFails, RedisReplyLost, ModelFails, Abort, TypeOK
  <2>3. UNCHANGED <<question, todo, history, reply>> /\ outcome[r] = "running" /\ todo[r] # <<>>
    BY <2>2 DEF RedisRepeats, Executed, At, inputs
  <2>4. Head(todo[r])[1] = "save"
    BY <2>1, <2>3 DEF Local
  <2>5. At(r, "save") /\ Keep(ExchangeSaved(r))
    BY <2>2, <2>4 DEF RedisRepeats, Executed, At
  <2>6. HasExchange(r)
    BY <2>1, <2>3 DEF HasExchange
  <2>7. QED BY <2>1, <2>3, <2>5, <2>6, SavedOnce
<1>4. CASE Crash
  BY <1>4 DEF Crash, Running
<1>5. CASE Expire
  BY <1>5 DEF Expire, Fault, NotExpired
<1>6. CASE UNCHANGED vars
  BY <1>6 DEF vars, LogInv, NotExpired, HasExchange
<1>7. QED BY <1>1, <1>2, <1>3, <1>4, <1>5, <1>6 DEF Next, Done

(* The code appends and cuts the oldest turn, which is to drop it first.    *)
LEMMA TrimAdds ==
    ASSUME NEW s \in Seq(Request), NEW r \in Request, Len(s) <= MaxTurns
    PROVE  Trim(Append(s, r)) = Log!Added(s, r)
<1> DEFINE t == Trim(Append(s, r))
           a == Log!Added(s, r)
<1>1. /\ t \in Seq(Request) /\ Len(s) \in Nat /\ MaxTurns \in Nat \ {0}
      /\ Len(s) < MaxTurns => /\ Len(t) = Len(s) + 1 /\ t[Len(s) + 1] = r
                              /\ \A i \in 1 .. Len(s) : t[i] = s[i]
      /\ Len(s) = MaxTurns => /\ Len(t) = MaxTurns /\ t[MaxTurns] = r
                              /\ \A i \in 1 .. MaxTurns - 1 : t[i] = s[i + 1]
  BY TrimTurns, BoundsAssumption
<1> HIDE DEF t
<1>2. CASE Len(s) < MaxTurns
  <2>1. a = Append(s, r)
    BY <1>2 DEF Log!Added
  <2>2. /\ a \in Seq(Request) /\ Len(a) = Len(s) + 1
        /\ \A i \in 1 .. Len(s) : a[i] = s[i]
        /\ a[Len(s) + 1] = r
    BY <2>1
  <2> HIDE DEF a
  <2>3. \A i \in 1 .. Len(a) : a[i] = t[i]
    <3>1. ASSUME NEW i \in 1 .. Len(a) PROVE a[i] = t[i]
      <4>1. i \in 1 .. Len(s) \/ i = Len(s) + 1
        BY <1>1, <2>2
      <4>2. QED BY <1>1, <1>2, <2>2, <4>1
    <3>2. QED BY <3>1
  <2>4. a = t
    BY <1>1, <1>2, <2>2, <2>3, SeqEqual
  <2>5. QED BY <2>4 DEF a, t
<1>3. CASE Len(s) = MaxTurns
  <2>1. a = Append(Tail(s), r)
    BY <1>1, <1>3 DEF Log!Added
  <2>2. s # <<>>
    BY <1>1, <1>3
  <2>3. /\ Tail(s) \in Seq(Request) /\ Len(Tail(s)) = MaxTurns - 1
        /\ \A i \in 1 .. MaxTurns - 1 : Tail(s)[i] = s[i + 1]
    BY <1>1, <1>3, <2>2
  <2>4. /\ a \in Seq(Request) /\ Len(a) = MaxTurns
        /\ \A i \in 1 .. MaxTurns - 1 : a[i] = s[i + 1]
        /\ a[MaxTurns] = r
    BY <1>1, <2>1, <2>3
  <2> HIDE DEF a
  <2>5. \A i \in 1 .. Len(a) : a[i] = t[i]
    <3>1. ASSUME NEW i \in 1 .. Len(a) PROVE a[i] = t[i]
      <4>1. i \in 1 .. MaxTurns - 1 \/ i = MaxTurns
        BY <1>1, <2>4
      <4>2. QED BY <1>1, <1>3, <2>4, <4>1
    <3>2. QED BY <3>1
  <2>6. a = t
    BY <1>1, <1>3, <2>4, <2>5, SeqEqual
  <2>7. QED BY <2>6 DEF a, t
<1>4. QED BY <1>1, <1>2, <1>3

(* The running request is the one that is served.                           *)
LEMMA RunningIsServed ==
    ASSUME SeqInv, NEW r \in Request, outcome[r] = "running"
    PROVE  Log!Serves(r)
<1>1. r \in Arrived \ Answered
  BY DEF Arrived, Answered
<1>2. \A q \in Arrived : q \in Request /\ outcome[q] # "none"
  BY DEF Arrived
<1>3. \A q \in Arrived : ~(q > r)
  BY <1>2, RunningIsNewest DEF Newest
<1>4. \A q \in Arrived : q <= r
  BY <1>2, <1>3 DEF Request
<1>5. QED BY <1>1, <1>4 DEF Log!Serves

(* A step of a request, seen from the log.                                  *)
LEMMA LogFrame ==
    ASSUME TypeOK, SeqInv, NEW r \in Request, Step(r) \/ Failure(r)
    PROVE  /\ Arrived' = Arrived /\ place' = place
           /\ Spoken' \in {Spoken \cup {r}, Spoken \ {r}}
           /\ reply' = reply => Spoken' = Spoken
           /\ outcome'[r] # "answered" => Answered' = Answered
           /\ outcome'[r] = "answered" => Answered' = Answered \cup {r}
<1>1. /\ outcome[r] = "running" /\ outcome'[r] # "none"
      /\ UNCHANGED <<place, question>>
      /\ \A q \in Request : q # r => outcome'[q] = outcome[q] /\ reply'[q] = reply[q]
  BY StepFrame
<1>2. Arrived' = Arrived
  BY <1>1 DEF Arrived
<1>3. \A q \in Request : q # r \/ reply' = reply => (HasExchange(q)' <=> HasExchange(q))
  BY <1>1 DEF HasExchange
<1>4. Spoken' \in {Spoken \cup {r}, Spoken \ {r}}
  <2>1. HasExchange(r)' => Spoken' = Spoken \cup {r}
    BY <1>3 DEF Spoken
  <2>2. ~HasExchange(r)' => Spoken' = Spoken \ {r}
    BY <1>3 DEF Spoken
  <2>3. QED BY <2>1, <2>2
<1>5. reply' = reply => Spoken' = Spoken
  BY <1>3 DEF Spoken
<1>6. outcome'[r] # "answered" => Answered' = Answered
  BY <1>1 DEF Answered
<1>7. outcome'[r] = "answered" => Answered' = Answered \cup {r}
  BY <1>1 DEF Answered
<1>8. QED BY <1>1, <1>2, <1>4, <1>5, <1>6, <1>7

(* What a command that is executed does to the log, its answer lost or not. *)
LEMMA ExecutedMoves ==
    ASSUME TypeOK, SeqInv, HistoryInv, LogInv, NotExpired, NEW r \in Request, Executed(r)
    PROVE  \/ /\ hash'.turns = hash.turns \/ (r \in Spoken /\ hash'.turns = Log!Added(hash.turns, r))
              /\ hash'.ctx = hash.ctx /\ hash'.dest = hash.dest
           \/ /\ hash'.ctx \in {hash.ctx, 0, r}
              /\ hash'.turns = hash.turns /\ hash'.dest = hash.dest
           \/ /\ hash'.dest = place[r]
              /\ hash'.turns = hash.turns /\ hash'.ctx = hash.ctx
<1>1. CASE At(r, "save") /\ Keep(ExchangeSaved(r))
  <2>1. /\ todo[r][1] = Local("save") /\ outcome[r] = "running"
        /\ hash'.turns = IF HasExchange(r) THEN Trim(Append(history[r], r)) ELSE hash.turns
        /\ hash'.ctx = hash.ctx /\ hash'.dest = hash.dest
    BY <1>1, SavedOnce
  <2>2. CASE HasExchange(r)
    <3>1. hash.turns \in {history[r], Trim(Append(history[r], r))}
      BY <2>1, <2>2 DEF LogInv
    <3>2. history[r] \in Seq(Request) /\ Len(history[r]) <= MaxTurns
      BY <2>1, <2>2 DEF HistoryInv, Recent, TypeOK
    <3>3. Trim(Append(history[r], r)) = Log!Added(history[r], r)
      BY <3>2, TrimAdds
    <3>4. r \in Spoken
      BY <2>2 DEF Spoken
    <3>5. QED BY <2>1, <2>2, <3>1, <3>3, <3>4
  <2>3. QED BY <2>1, <2>2
<1>2. CASE At(r, "set") /\ Keep(FieldWritten(r))
  BY <1>2, SetField DEF Keep, FieldWritten, WritableField, TypeOK, Hash
<1>3. CASE At(r, "del") /\ Keep(FieldCleared(r))
  BY <1>3, DelField DEF Keep, FieldCleared, ClearableField, TypeOK, Hash
<1>4. QED BY <1>1, <1>2, <1>3 DEF Executed

(* Such a command is a step of the log, or none.                            *)
LEMMA ExecutedSimulates ==
    ASSUME TypeOK, SeqInv, HistoryInv, LogInv, NotExpired, NotExpired',
           NEW r \in Request, Step(r) \/ Failure(r), Executed(r),
           reply' = reply, outcome'[r] # "answered"
    PROVE  [Log!Next]_(Log!vars)
<1>1. Log!Serves(r)
  BY RunningIsServed, StepFrame
<1>2. UNCHANGED <<Arrived, place, Spoken, Answered, NotExpired>>
  BY LogFrame DEF NotExpired
<1>3. \/ /\ hash'.turns = hash.turns \/ (r \in Spoken /\ hash'.turns = Log!Added(hash.turns, r))
         /\ hash'.ctx = hash.ctx /\ hash'.dest = hash.dest
      \/ /\ hash'.ctx \in {hash.ctx, 0, r}
         /\ hash'.turns = hash.turns /\ hash'.dest = hash.dest
      \/ /\ hash'.dest = place[r]
         /\ hash'.turns = hash.turns /\ hash'.ctx = hash.ctx
  BY ExecutedMoves
<1>4. CASE hash'.turns = hash.turns /\ hash'.ctx = hash.ctx /\ hash'.dest = hash.dest
  BY <1>2, <1>4 DEF Log!vars
<1>5. CASE /\ r \in Spoken /\ hash'.turns = Log!Added(hash.turns, r)
           /\ hash'.ctx = hash.ctx /\ hash'.dest = hash.dest
  <2>1. Log!Record(r)
    BY <1>1, <1>2, <1>5 DEF Log!Record, Log!requests
  <2>2. QED BY <2>1 DEF Log!Next
<1>6. CASE hash'.ctx \in {0, r} /\ hash'.turns = hash.turns /\ hash'.dest = hash.dest
  <2>1. Log!Ask(r)
    BY <1>1, <1>2, <1>6 DEF Log!Ask, Log!requests
  <2>2. QED BY <2>1 DEF Log!Next
<1>7. CASE hash'.dest = place[r] /\ hash'.turns = hash.turns /\ hash'.ctx = hash.ctx
  <2>1. Log!Visit(r)
    BY <1>1, <1>2, <1>7 DEF Log!Visit, Log!requests
  <2>2. QED BY <2>1 DEF Log!Next
<1>8. QED BY <1>3, <1>4, <1>5, <1>6, <1>7

(* A request that arrives is the newest, and may have something to say.     *)
LEMMA ArriveSimulates ==
    ASSUME MaxInFlight = 1, TypeOK, SeqInv, NotExpired, NotExpired',
           NEW r \in Request, NEW p \in Place, NEW q \in MaybeQuestion, Arrive(r, p, q)
    PROVE  [Log!Next]_(Log!vars)
<1>1. /\ outcome[r] = "none" /\ outcome'[r] = "running"
      /\ \A w \in Request : w > r => outcome[w] = "none"
      /\ \A w \in Request : w # r => outcome'[w] = outcome[w] /\ question'[w] = question[w]
      /\ UNCHANGED <<hash, reply>>
  BY ArrivesAlone
<1>2. question[r] = NoQuestion
  BY <1>1 DEF SeqInv
<1>3. r \notin Arrived /\ \A w \in Arrived : w < r
  <2>1. \A w \in Arrived : w \in Request /\ outcome[w] # "none"
    BY DEF Arrived
  <2>2. r \notin Arrived /\ \A w \in Arrived : w # r /\ ~(w > r)
    BY <1>1, <2>1
  <2>3. QED BY <2>1, <2>2 DEF Request
<1>4. Arrived' = Arrived \cup {r}
  BY <1>1 DEF Arrived
<1>5. place' = [place EXCEPT ![r] = p]
  BY DEF Arrive
<1>6. Spoken' \in {Spoken, Spoken \cup {r}}
  <2>1. /\ \A w \in Request : w # r => (HasExchange(w)' <=> HasExchange(w))
        /\ HasExchange(r) => HasExchange(r)'
    BY <1>1, <1>2 DEF HasExchange
  <2>2. HasExchange(r)' => Spoken' = Spoken \cup {r}
    BY <2>1 DEF Spoken
  <2>3. ~HasExchange(r)' => Spoken' = Spoken
    BY <2>1 DEF Spoken
  <2>4. QED BY <2>2, <2>3
<1>7. Answered' = Answered
  BY <1>1 DEF Answered
<1>8. UNCHANGED NotExpired
  BY DEF NotExpired
<1>9. Log!Arrive(r, p)
  BY <1>1, <1>3, <1>4, <1>5, <1>6, <1>7, <1>8 DEF Log!Arrive, Log!memory
<1>10. QED BY <1>9 DEF Log!Next

(* A step of the running request is a step of the log, or none.             *)
LEMMA StepSimulates ==
    ASSUME TypeOK, ListInv, SeqInv, CurrentInv', HistoryInv, LogInv, NotExpired, NotExpired',
           NEW r \in Request, Step(r)
    PROVE  [Log!Next]_(Log!vars)
<1>1. Log!Serves(r) /\ outcome[r] = "running"
  BY RunningIsServed, StepFrame
<1>2. /\ Arrived' = Arrived /\ place' = place
      /\ Spoken' \in {Spoken \cup {r}, Spoken \ {r}}
      /\ reply' = reply => Spoken' = Spoken
      /\ outcome'[r] # "answered" => Answered' = Answered
      /\ outcome'[r] = "answered" => Answered' = Answered \cup {r}
      /\ UNCHANGED NotExpired
  BY LogFrame DEF NotExpired
<1>3. ASSUME hash' = hash, outcome'[r] # "answered" PROVE [Log!Next]_(Log!vars)
  <2>1. Log!Speak(r)
    BY <1>1, <1>2, <1>3 DEF Log!Speak, Log!memory
  <2>2. QED BY <2>1 DEF Log!Next
<1>4. CASE ReadField(r) \/ SettleDestination(r) \/ AnswerRequest(r)
  BY <1>3, <1>4, ReadEffect, SettleEffect, AnswerEffect
<1>5. ASSUME NEW mode \in Mode, RouteRequest(r, mode) PROVE [Log!Next]_(Log!vars)
  BY <1>3, <1>5, RouteEffect
<1>6. CASE ConsultGate(r) \/ LoadTurns(r) \/ ArmExpiry(r)
  <2>1. /\ UNCHANGED <<hash, reply>>
        /\ outcome'[r] \in {"answered", "running"}
    BY <1>6, PassEffect
  <2>2. CASE outcome'[r] = "answered"
    <3>1. Newest(r)'
      <4>1. Newest(r)
        BY <1>1, RunningIsNewest
      <4>2. QED BY <4>1, StepFrame DEF Newest, Request
    <3>2. hash.dest = place[r] /\ Exchanged(r)'
      BY <1>2, <2>1, <2>2, <3>1 DEF CurrentInv
    <3>3. r \in Spoken => hash.turns # <<>> /\ hash.turns[Len(hash.turns)] = r
      BY <1>2, <2>1, <3>2 DEF Exchanged, Spoken
    <3>4. Log!Complete(r)
      BY <1>1, <1>2, <2>1, <2>2, <3>2, <3>3 DEF Log!Complete, Log!memory
    <3>5. QED BY <3>4 DEF Log!Next
  <2>3. QED BY <1>3, <2>1, <2>2
<1>7. CASE SaveExchange(r) \/ WriteField(r) \/ ClearField(r)
  <2>1. Executed(r)
    BY <1>7 DEF Executed, SaveExchange, WriteField, ClearField
  <2>2. reply' = reply /\ outcome'[r] = "running"
    BY <1>7, SaveEffect, WriteEffect, ClearEffect
  <2>3. QED BY <2>1, <2>2, ExecutedSimulates
<1>8. QED BY <1>4, <1>5, <1>6, <1>7 DEF Step

(* And so is whatever goes wrong.                                           *)
LEMMA FailureSimulates ==
    ASSUME TypeOK, SeqInv, HistoryInv, LogInv, NotExpired, NotExpired',
           NEW r \in Request, Failure(r)
    PROVE  [Log!Next]_(Log!vars)
<1>1. reply' = reply
  BY DEF Failure, RedisFails, RedisRepeats, RedisReplyLost, ModelFails
<1>2. outcome[r] = "running" /\ outcome'[r] # "answered"
  BY StepFrame DEF Failure, RedisFails, RedisRepeats, RedisReplyLost, ModelFails, Abort, TypeOK
<1>3. CASE Executed(r)
  BY <1>1, <1>2, <1>3, ExecutedSimulates
<1>4. CASE ~Executed(r)
  <2>1. hash' = hash
    BY <1>4 DEF Failure, RedisFails, RedisRepeats, RedisReplyLost, ModelFails, store
  <2>2. UNCHANGED <<Arrived, place, Spoken, Answered, NotExpired>>
    BY <1>1, <1>2, LogFrame DEF NotExpired
  <2>3. QED BY <2>1, <2>2 DEF Log!vars
<1>5. QED BY <1>3, <1>4

(* Every step of the session is a step of the log, or none.                 *)
LEMMA SessionSimulates ==
    ASSUME MaxInFlight = 1
    PROVE  /\ TypeOK /\ ListInv /\ SeqInv /\ CurrentInv /\ HistoryInv /\ LogInv
           /\ [Next]_vars
           => [Log!Next]_(Log!vars)
<1> SUFFICES ASSUME TypeOK, ListInv, SeqInv, CurrentInv, HistoryInv, LogInv, [Next]_vars
             PROVE  [Log!Next]_(Log!vars)
  OBVIOUS
<1>1. CASE ~NotExpired'
  <2>1. Log!Break
    BY <1>1 DEF Log!Break, NotExpired
  <2>2. QED BY <2>1 DEF Log!Next
<1>2. CASE NotExpired'
  <2>1. NotExpired
    <3>1. ASSUME NEW r \in Request, Step(r) \/ Failure(r) PROVE NotExpired
      BY <1>2, <3>1, StepFrame DEF NotExpired
    <3>2. ASSUME NEW r \in Request, NEW p \in Place, NEW q \in MaybeQuestion, Arrive(r, p, q)
          PROVE  NotExpired
      BY <1>2, <3>2 DEF Arrive, NotExpired
    <3>3. CASE Crash \/ Expire \/ UNCHANGED vars
      BY <1>2, <3>3 DEF Crash, Expire, Fault, vars, NotExpired
    <3>4. QED BY <3>1, <3>2, <3>3 DEF Next, Done
  <2>2. ASSUME NEW r \in Request, NEW p \in Place, NEW q \in MaybeQuestion, Arrive(r, p, q)
        PROVE  [Log!Next]_(Log!vars)
    BY <1>2, <2>1, <2>2, ArriveSimulates
  <2>3. ASSUME NEW r \in Request, Step(r) PROVE [Log!Next]_(Log!vars)
    BY <1>2, <2>1, <2>3, StepSimulates, CurrentNext
  <2>4. ASSUME NEW r \in Request, Failure(r) PROVE [Log!Next]_(Log!vars)
    BY <1>2, <2>1, <2>4, FailureSimulates
  <2>5. CASE Crash
    <3>1. /\ UNCHANGED <<hash, place, question, reply>>
          /\ \A q \in Request : outcome'[q] = "none" <=> outcome[q] = "none"
          /\ \A q \in Request : outcome'[q] = "answered" <=> outcome[q] = "answered"
      BY <2>5 DEF Crash, Running, store, inputs
    <3>2. UNCHANGED <<Arrived, Spoken, Answered, NotExpired>>
      BY <1>2, <2>1, <3>1 DEF Arrived, Spoken, Answered, HasExchange, NotExpired
    <3>3. QED BY <3>1, <3>2 DEF Log!vars
  <2>6. CASE Expire
    BY <1>2, <2>6 DEF Expire, Fault, NotExpired
  <2>7. CASE UNCHANGED vars
    <3>1. UNCHANGED <<hash, place, Arrived, Spoken, Answered, NotExpired>>
      BY <2>7 DEF vars, Arrived, Spoken, Answered, HasExchange, NotExpired
    <3>2. QED BY <3>1 DEF Log!vars
  <2>8. QED BY <2>2, <2>3, <2>4, <2>5, <2>6, <2>7 DEF Next, Done
<1>3. QED BY <1>1, <1>2

(* With one message at a time the session is a log of its exchanges for any *)
(* number of requests, texts, places and kept turns: commands that fail,    *)
(* are executed twice or lose their answer, models that fail and processes  *)
(* that die show as nothing but a request that did less, and what an answer *)
(* promises of the log holds at every answer (mark_sent, _trim_turns,       *)
(* set_active_destination, _write_field).                                   *)
THEOREM SessionIsALog ==
    ASSUME MaxInFlight = 1 PROVE Spec => IsASessionLog
<1> DEFINE Inv == TypeOK /\ ListInv /\ SeqInv /\ CurrentInv /\ HistoryInv /\ LogInv
<1>1. Init => Inv
  <2> SUFFICES ASSUME Init PROVE CurrentInv /\ HistoryInv /\ LogInv
    BY SequentialInit
  <2>1. CurrentInv /\ LogInv
    BY DEF Init, CurrentInv, LogInv
  <2>2. Recent(hash.turns)
    <3>1. hash.turns = <<>> /\ Len(<<>>) = 0
      BY DEF Init, NoHash
    <3>2. QED BY <3>1, BoundsAssumption DEF Recent, Init
  <2>3. QED BY <2>1, <2>2 DEF Init, HistoryInv
<1>2. Inv /\ [Next]_vars => Inv'
  BY StepType, ListStep, SeqStep, CurrentNext, HistoryNext, LogNext
<1>3. Init => Log!Init
  <2> SUFFICES ASSUME Init PROVE Log!Init
    OBVIOUS
  <2>1. Arrived = {} /\ Spoken = {} /\ Answered = {}
    BY DEF Init, Arrived, Spoken, Answered, HasExchange
  <2>2. hash.turns = <<>> /\ hash.ctx = 0 /\ hash.dest = NoPlace
    BY DEF Init, NoHash
  <2>3. NotExpired /\ place = [r \in Request |-> NoPlace]
    BY DEF Init, NotExpired
  <2>4. QED BY <2>1, <2>2, <2>3 DEF Log!Init, NotExpired
<1>4. Inv /\ [Next]_vars => [Log!Next]_(Log!vars)
  BY SessionSimulates
<1> HIDE DEF Inv
<1>5. QED BY <1>1, <1>2, <1>3, <1>4, PTL DEF Spec, IsASessionLog, Log!Spec
=============================================================================
