--------------------------- MODULE ToolCallsProofs ---------------------------
(***************************************************************************)
(* Theorems about the tools and their cache, for any number of threads,    *)
(* calls, faults and attempts.                                             *)
(***************************************************************************)
EXTENDS ToolCalls, TLAPS

(* What the proofs use of the programs of the tools.                        *)
Shape(x) ==
    LET p == Program[x]
    IN  /\ Len(p) \in Nat \ {0} /\ DOMAIN p = 1 .. Len(p)
        /\ p[1][1] # "set"
        /\ \A i \in DOMAIN p :
            /\ p[i][1] \in {"get", "set"} => p[i][2] \in Key
            /\ p[i][1] \in {"need", "try"} => p[i][2] \in Source
            /\ p[i][1] = "set" /\ p[i][2] # "news_items" =>
                  i > 1 /\ p[i - 1][1] \in {"need", "assess"}
            /\ p[i][1] = "get" =>
                  /\ i < Len(p) /\ (x # "city_risk" => i = 1)
                  /\ \E j \in DOMAIN p : p[j] = <<"set", p[i][2]>>
            /\ x = "city_risk" /\ p[i][1] = "set" => i < Len(p)

LEMMA ProgramShape == \A x \in Tools : Shape(x)
<1> SUFFICES ASSUME NEW x \in Tools PROVE Shape(x)
  OBVIOUS
<1>1. CASE x = "travel_brief"
  <2>1. Program[x] =
           <<<<"get", "travel_brief">>, <<"take", "weather">>, <<"take", "news">>,
             <<"try", "weather">>, <<"try", "news">>, <<"assess", "weather">>,
             <<"set", "travel_brief">>>>
    BY <1>1 DEF Program
  <2>2. QED BY <1>1, <2>1 DEF Shape, Key, Source
<1>2. CASE x = "weather"
  <2>1. Program[x] =
           <<<<"get", "weather_line">>, <<"take", "weather">>, <<"need", "weather">>,
             <<"set", "weather_line">>>>
    BY <1>2 DEF Program
  <2>2. QED BY <1>2, <2>1 DEF Shape, Key, Source
<1>3. CASE x = "news"
  <2>1. Program[x] =
           <<<<"get", "news_lines">>, <<"take", "news">>, <<"need", "news">>,
             <<"set", "news_lines">>>>
    BY <1>3 DEF Program
  <2>2. QED BY <1>3, <2>1 DEF Shape, Key, Source
<1>4. CASE x = "news_search"
  <2>1. Program[x] =
           <<<<"get", "news_search">>, <<"take", "news">>, <<"need", "news">>,
             <<"set", "news_search">>>>
    BY <1>4 DEF Program
  <2>2. QED BY <1>4, <2>1 DEF Shape, Key, Source
<1>5. CASE x = "city_risk"
  <2>1. Program[x] =
           <<<<"take", "weather">>, <<"take", "news">>,
             <<"get", "weather_summary">>, <<"need", "weather">>, <<"set", "weather_summary">>,
             <<"get", "news_items">>, <<"try", "news">>, <<"set", "news_items">>,
             <<"try", "weather">>, <<"try", "news">>, <<"assess", "weather">>>>
    BY <1>5 DEF Program
  <2>2. QED BY <1>5, <2>1 DEF Shape, Key, Source
<1>6. CASE x = "route_planner"
  <2>1. Program[x] =
           <<<<"get", "route_plan">>, <<"need", "route">>, <<"set", "route_plan">>>>
    BY <1>6 DEF Program
  <2>2. QED BY <1>6, <2>1 DEF Shape, Key, Source
<1>7. QED BY <1>1, <1>2, <1>3, <1>4, <1>5, <1>6 DEF Tools

-----------------------------------------------------------------------------
(* A thread is inside its program and uses the cache client only at a line  *)
(* that needs it; what it is about to store has a source; and a tool that   *)
(* still may be answered from the cache has cost nothing.                   *)
Fits(t) ==
    /\ Running(t) => at[t] \in DOMAIN Program[tool[t]]
    /\ step[t] # "begin" => UsesCache(t)
    /\ Does(t, "set") /\ Now(t)[2] # "news_items" => got[t] # {}
    /\ Does(t, "get") /\ tool[t] # "city_risk" => ~paid[t]
ThreadsFit == \A t \in Thread : Fits(t)

(* While no two calls have been open at once, the client a thread has made  *)
(* is still there when it reads it again.                                   *)
AloneInv ==
    ~shared =>
        /\ \A t \in Thread : outcome[t] # "raised" /\ (step[t] = "load" => client)
        /\ \A t, u \in Thread : Running(t) /\ Running(u) => t = u

ToolInv == TypeOK /\ ThreadsFit /\ CacheHoldsNoErrors

(* The variables of a thread as they may change in a step of its own.       *)
Typed ==
    /\ tool \in [Thread -> Tools \cup {"none"}] /\ at \in [Thread -> Nat]
    /\ step \in [Thread -> {"begin", "publish", "load", "ping", "command"}]
    /\ got \in [Thread -> SUBSET Source] /\ attempts \in [Thread -> 0 .. MaxAttempts - 1]
    /\ outcome \in [Thread -> Outcome] /\ paid \in [Thread -> BOOLEAN]
Local(t, u) ==
    /\ tool'[u] = tool[u] /\ at'[u] = at[u] /\ step'[u] = step[u] /\ got'[u] = got[u]
    /\ outcome'[u] = outcome[u] /\ paid'[u] = paid[u]
OnlyThread(t) == \A u \in Thread : u # t => Local(t, u)

LEMMA OthersFit ==
    ASSUME ThreadsFit, NEW t \in Thread, OnlyThread(t), Fits(t)'
    PROVE  ThreadsFit'
<1> SUFFICES ASSUME NEW u \in Thread, u # t PROVE Fits(u)'
  BY DEF ThreadsFit
<1>1. Fits(u) /\ Local(t, u)
  BY DEF ThreadsFit, OnlyThread
<1>2. QED BY <1>1 DEF Fits, Local, Running, UsesCache, Does, Now

(* Taking a token or asking a provider costs; nothing else does.            *)
Pays(t) == paid' = [paid EXCEPT ![t] = TRUE]

LEMMA Ended ==
    ASSUME Typed, NEW t \in Thread, NEW how \in Outcome, End(t, how),
           UNCHANGED paid \/ Pays(t)
    PROVE  /\ Typed' /\ OnlyThread(t) /\ Fits(t)'
           /\ tool'[t] = "none" /\ step'[t] = "begin" /\ outcome'[t] = how
<1>1. Typed'
  <2>1. /\ tool' \in [Thread -> Tools \cup {"none"}] /\ at' \in [Thread -> Nat]
        /\ step' \in [Thread -> {"begin", "publish", "load", "ping", "command"}]
    BY DEF Typed, End
  <2>2. got' \in [Thread -> SUBSET Source] /\ outcome' \in [Thread -> Outcome]
    BY DEF Typed, End
  <2>3. attempts' \in [Thread -> 0 .. MaxAttempts - 1]
    BY ToolAssumption DEF Typed, End
  <2>4. paid' \in [Thread -> BOOLEAN]
    BY DEF Typed, Pays
  <2>5. QED BY <2>1, <2>2, <2>3, <2>4 DEF Typed
<1>2. OnlyThread(t)
  BY DEF Typed, End, Pays, OnlyThread, Local
<1>3. tool'[t] = "none" /\ step'[t] = "begin" /\ outcome'[t] = how
  BY DEF Typed, End
<1>4. Fits(t)'
  BY <1>3 DEF Fits, Running, Does
<1>5. QED BY <1>1, <1>2, <1>3, <1>4

(* On to a line that stores something only with a source in hand.           *)
LEMMA WentTo ==
    ASSUME Typed, NEW t \in Thread, Running(t), UNCHANGED paid \/ Pays(t),
           NEW i \in 2 .. Len(Program[tool[t]]) + 1, NEW sources \in SUBSET Source,
           i \in DOMAIN Program[tool[t]] /\ Program[tool[t]][i - 1][1] \in {"need", "assess"}
              => sources # {},
           GoTo(t, i, sources)
    PROVE  /\ Typed' /\ OnlyThread(t) /\ Fits(t)' /\ step'[t] = "begin"
           /\ outcome'[t] # "raised" \/ outcome'[t] = outcome[t]
           /\ outcome'[t] = "answer" =>
                 outcome[t] = "answer" \/ i = Len(Program[tool[t]]) + 1
           /\ tool'[t] \in {tool[t], "none"}
<1>1. tool[t] \in Tools /\ Shape(tool[t])
  BY ProgramShape DEF Typed, Running
<1>2. CASE i > Len(Program[tool[t]])
  <2>1. End(t, "answer")
    BY <1>2 DEF GoTo
  <2>2. QED BY <1>1, <1>2, <2>1, Ended DEF Outcome, Shape
<1>3. CASE ~(i > Len(Program[tool[t]]))
  <2>1. /\ at' = [at EXCEPT ![t] = i] /\ step' = [step EXCEPT ![t] = "begin"]
        /\ got' = [got EXCEPT ![t] = sources] /\ attempts' = [attempts EXCEPT ![t] = 0]
        /\ UNCHANGED <<tool, outcome>>
    BY <1>3 DEF GoTo
  <2>2. i \in DOMAIN Program[tool[t]] /\ i \in Nat
    BY <1>1, <1>3 DEF Shape
  <2>3. Typed'
    <3>1. /\ at' \in [Thread -> Nat] /\ got' \in [Thread -> SUBSET Source]
          /\ step' \in [Thread -> {"begin", "publish", "load", "ping", "command"}]
      BY <2>1, <2>2 DEF Typed
    <3>2. attempts' \in [Thread -> 0 .. MaxAttempts - 1]
      BY <2>1, ToolAssumption DEF Typed
    <3>3. paid' \in [Thread -> BOOLEAN]
      BY DEF Typed, Pays
    <3>4. QED BY <2>1, <3>1, <3>2, <3>3 DEF Typed
  <2>4. OnlyThread(t)
    BY <2>1 DEF Typed, Pays, OnlyThread, Local
  <2>5. /\ at'[t] = i /\ step'[t] = "begin" /\ got'[t] = sources /\ tool'[t] = tool[t]
        /\ outcome'[t] = outcome[t]
    BY <2>1 DEF Typed
  <2>6. Fits(t)'
    <3>1. at'[t] \in DOMAIN Program[tool'[t]]
      BY <2>2, <2>5
    <3>2. (Does(t, "set") /\ Now(t)[2] # "news_items")' => got'[t] # {}
      BY <1>1, <2>2, <2>5 DEF Does, Now, Shape
    <3>3. ~(Does(t, "get") /\ tool[t] # "city_risk")'
      BY <1>1, <2>2, <2>5 DEF Does, Now, Shape
    <3>4. QED BY <2>5, <3>1, <3>2, <3>3 DEF Fits
  <2>7. QED BY <2>3, <2>4, <2>5, <2>6
<1>4. QED BY <1>2, <1>3

-----------------------------------------------------------------------------
(* Each step of a thread changes its own variables and keeps it in place;   *)
(* it stores nothing that was made from no source.                          *)
Clean(c) == \A k \in Key \ {"news_items"} : c[k] # {}
Cached == cache' \in [Key -> {None} \cup SUBSET Source] /\ Clean(cache')
(* Whether a thread fails for want of its own client.                       *)
Steady(t) ==
    /\ outcome'[t] = "raised" => outcome[t] = "raised" \/ (step[t] = "load" /\ ~client)
    /\ step'[t] = "load" => client'
    /\ Running(t)
(* Whether it answers from the cache without having paid.                   *)
Free(t) == Does(t, "get") /\ outcome'[t] = "answer" /\ outcome[t] # "answer" => ~paid[t]
Good(t) == Typed' /\ OnlyThread(t) /\ Fits(t)' /\ Cached /\ Steady(t) /\ Free(t)

LEMMA InProgram ==
    ASSUME ToolInv, NEW t \in Thread, Running(t)
    PROVE  /\ Typed /\ tool[t] \in Tools /\ Shape(tool[t]) /\ Fits(t)
           /\ at[t] \in 1 .. Len(Program[tool[t]]) /\ at[t] \in Nat
           /\ Len(Program[tool[t]]) \in Nat /\ got[t] \in SUBSET Source
           /\ Cached \/ cache' # cache
<1>1. Typed /\ Fits(t)
  BY DEF ToolInv, ThreadsFit, TypeOK, Typed
<1>2. tool[t] \in Tools /\ Shape(tool[t])
  BY <1>1, ProgramShape DEF Typed, Running
<1>3. at[t] \in DOMAIN Program[tool[t]]
  BY <1>1 DEF Fits
<1>4. Cached \/ cache' # cache
  BY DEF ToolInv, TypeOK, CacheHoldsNoErrors, Cached, Clean
<1>5. QED BY <1>1, <1>2, <1>3, <1>4 DEF Shape, Typed

(* GoOn, from any line that is not the end of a call from the cache.        *)
LEMMA WentOn ==
    ASSUME ToolInv, NEW t \in Thread, Running(t), UNCHANGED paid \/ Pays(t),
           NEW sources \in SUBSET Source, GoOn(t, sources),
           Does(t, "need") \/ Does(t, "assess") => sources # {}, Cached
    PROVE  Good(t)
<1>1. /\ Typed /\ Shape(tool[t]) /\ at[t] \in 1 .. Len(Program[tool[t]])
      /\ at[t] \in Nat /\ Len(Program[tool[t]]) \in Nat
  BY InProgram
<1>2. at[t] + 1 \in 2 .. Len(Program[tool[t]]) + 1 /\ (at[t] + 1) - 1 = at[t]
  BY <1>1
<1>3. GoTo(t, at[t] + 1, sources)
  BY DEF GoOn
<1>4. Program[tool[t]][(at[t] + 1) - 1][1] \in {"need", "assess"} => sources # {}
  BY <1>2 DEF Does, Now
<1>5. /\ Typed' /\ OnlyThread(t) /\ Fits(t)' /\ step'[t] = "begin"
      /\ outcome'[t] # "raised" \/ outcome'[t] = outcome[t]
      /\ outcome'[t] = "answer" => outcome[t] = "answer" \/ at[t] + 1 = Len(Program[tool[t]]) + 1
  BY <1>1, <1>2, <1>3, <1>4, WentTo
<1>6. Free(t)
  BY <1>1, <1>5 DEF Free, Shape, Does, Now
<1>7. QED BY <1>5, <1>6 DEF Good, Steady

LEMMA TakeKeeps == ASSUME ToolInv, NEW t \in Thread, Take(t) PROVE Good(t)
<1>1. Running(t) /\ Pays(t) /\ GoOn(t, got[t]) /\ cache' = cache
  BY DEF Take, Does, Pays
<1>2. ~Does(t, "need") /\ ~Does(t, "assess")
  BY DEF Take, Does
<1>3. QED BY <1>1, <1>2, WentOn, InProgram

(* A step inside _get_sync_redis.                                           *)
LEMMA StepsOn ==
    ASSUME ToolInv, NEW t \in Thread, UsesCache(t),
           NEW s \in {"publish", "load", "ping", "command"}, step' = [step EXCEPT ![t] = s],
           s = "load" => client',
           UNCHANGED <<cache, tool, at, got, attempts, outcome, paid>>
    PROVE  Good(t)
<1>1. Running(t) /\ Typed /\ Fits(t) /\ Cached
  BY InProgram DEF UsesCache, Does
<1>2. Typed' /\ OnlyThread(t) /\ step'[t] = s
  BY <1>1 DEF Typed, OnlyThread, Local
<1>3. Fits(t)'
  BY <1>1 DEF Fits, Running, UsesCache, Does, Now
<1>4. Steady(t) /\ Free(t)
  BY <1>1, <1>2 DEF Steady, Free
<1>5. QED BY <1>1, <1>2, <1>3, <1>4 DEF Good

LEMMA ClientKeeps ==
    ASSUME ToolInv, NEW t \in Thread, CheckClient(t) \/ PublishClient(t)
    PROVE  Good(t)
<1>1. UsesCache(t)
  BY DEF CheckClient, PublishClient, ToolInv, ThreadsFit, Fits
<1>2. \E s \in {"publish", "load", "ping", "command"} :
         step' = [step EXCEPT ![t] = s] /\ (s = "load" => client')
  BY DEF CheckClient, PublishClient
<1>3. QED BY <1>1, <1>2, StepsOn DEF CheckClient, PublishClient

LEMMA EndKeeps ==
    ASSUME ToolInv, NEW t \in Thread, Running(t), UNCHANGED paid \/ Pays(t), UNCHANGED cache,
           NEW how \in {"error", "raised"}, End(t, how),
           how = "raised" => step[t] = "load" /\ ~client
    PROVE  Good(t)
<1>1. Typed /\ Cached
  BY InProgram
<1>2. Typed' /\ OnlyThread(t) /\ Fits(t)' /\ step'[t] = "begin" /\ outcome'[t] = how
  BY <1>1, Ended DEF Outcome
<1>3. QED BY <1>1, <1>2 DEF Good, Steady, Free

LEMMA LoadKeeps == ASSUME ToolInv, NEW t \in Thread, LoadClient(t) PROVE Good(t)
<1>1. UsesCache(t)
  BY DEF LoadClient, ToolInv, ThreadsFit, Fits
<1>2. CASE client /\ step' = [step EXCEPT ![t] = "ping"] /\ UNCHANGED <<tool, at, got, attempts, outcome>>
  BY <1>1, <1>2, StepsOn DEF LoadClient
<1>3. CASE ~client /\ Raise(t)
  BY <1>1, <1>3, EndKeeps DEF LoadClient, Raise, UsesCache, Does
<1>4. QED BY <1>2, <1>3 DEF LoadClient

LEMMA UncachedKeeps ==
    ASSUME ToolInv, NEW t \in Thread, UsesCache(t), Uncached(t), UNCHANGED paid, Cached
    PROVE  Good(t)
<1>1. Running(t) /\ ~Does(t, "need") /\ ~Does(t, "assess")
  BY DEF UsesCache, Does
<1>2. PICK sources \in SUBSET Source : GoOn(t, sources)
  BY <1>1, InProgram DEF Uncached
<1>3. QED BY <1>1, <1>2, WentOn

LEMMA PingAnswersKeeps == ASSUME ToolInv, NEW t \in Thread, PingAnswers(t) PROVE Good(t)
<1>1. UsesCache(t) /\ Cached
  BY InProgram DEF PingAnswers, ToolInv, ThreadsFit, Fits, UsesCache, Does
<1>2. CASE step' = [step EXCEPT ![t] = "command"] /\ UNCHANGED <<tool, at, got, attempts, outcome>>
  BY <1>1, <1>2, StepsOn DEF PingAnswers
<1>3. CASE Uncached(t)
  BY <1>1, <1>3, UncachedKeeps DEF PingAnswers
<1>4. QED BY <1>2, <1>3 DEF PingAnswers

LEMMA SetCached ==
    ASSUME ToolInv, NEW t \in Thread, Does(t, "set"),
           cache' = [cache EXCEPT ![Now(t)[2]] = got[t]]
    PROVE  Cached
<1>1. Running(t) /\ Now(t)[1] = "set"
  BY DEF Does
<1>2. Now(t)[2] \in Key /\ got[t] \in SUBSET Source
  BY <1>1, InProgram DEF Shape, Now
<1>3. Now(t)[2] # "news_items" => got[t] # {}
  BY DEF ToolInv, ThreadsFit, Fits
<1>4. QED BY <1>2, <1>3 DEF ToolInv, TypeOK, CacheHoldsNoErrors, Cached, Clean

LEMMA PingFailsKeeps == ASSUME ToolInv, NEW t \in Thread, PingFails(t) PROVE Good(t)
<1>1. UsesCache(t) /\ Cached
  BY InProgram DEF PingFails, ToolInv, ThreadsFit, Fits, UsesCache, Does
<1>2. QED BY <1>1, UncachedKeeps DEF PingFails

LEMMA GetKeeps == ASSUME ToolInv, NEW t \in Thread, GetEntry(t) PROVE Good(t)
<1> DEFINE p == Program[tool[t]]
           i == AfterSet(t)
<1>1. /\ Typed /\ Shape(tool[t]) /\ Fits(t) /\ at[t] \in 1 .. Len(p) /\ Len(p) \in Nat
      /\ Running(t) /\ Cached /\ Does(t, "get") /\ UsesCache(t) /\ UNCHANGED paid
  BY InProgram DEF GetEntry, Does, UsesCache
<1>2. CASE Uncached(t)
  BY <1>1, <1>2, UncachedKeeps DEF GetEntry
<1>3. CASE GoTo(t, i + 1, {})
  <2>1. i \in DOMAIN p /\ p[i] = <<"set", Now(t)[2]>>
    BY <1>1 DEF AfterSet, Shape, Does, Now
  <2>2. i \in 1 .. Len(p) /\ (i + 1) - 1 = i /\ p[(i + 1) - 1][1] = "set"
    BY <1>1, <2>1 DEF Shape
  <2>3. i + 1 \in 2 .. Len(p) + 1
    BY <1>1, <2>2
  <2> HIDE DEF i
  <2>4. /\ Typed' /\ OnlyThread(t) /\ Fits(t)' /\ step'[t] = "begin"
        /\ outcome'[t] # "raised" \/ outcome'[t] = outcome[t]
        /\ outcome'[t] = "answer" => outcome[t] = "answer" \/ i + 1 = Len(p) + 1
    BY <1>1, <1>3, <2>2, <2>3, WentTo
  <2>5. Free(t)
    <3> SUFFICES ASSUME outcome'[t] = "answer", outcome[t] # "answer" PROVE ~paid[t]
      BY DEF Free
    <3>1. i = Len(p)
      BY <1>1, <2>2, <2>4
    <3>2. tool[t] # "city_risk"
      BY <1>1, <2>1, <2>2, <3>1 DEF Shape
    <3>3. QED BY <1>1, <3>2 DEF Fits
  <2>6. QED BY <1>1, <2>4, <2>5 DEF Good, Steady
<1>4. QED BY <1>2, <1>3 DEF GetEntry

LEMMA SetKeeps == ASSUME ToolInv, NEW t \in Thread, SetEntry(t) PROVE Good(t)
<1>1. Running(t) /\ ~Does(t, "need") /\ ~Does(t, "assess") /\ GoOn(t, {})
  BY DEF SetEntry, Does
<1>2. Cached
  BY <1>1, SetCached, InProgram DEF SetEntry
<1>3. QED BY <1>1, <1>2, WentOn DEF SetEntry

LEMMA CommandKeeps == ASSUME ToolInv, NEW t \in Thread, CommandFails(t) PROVE Good(t)
<1>1. Running(t)
  BY DEF CommandFails, UsesCache, Does
<1>2. Cached
  BY <1>1, SetCached, InProgram DEF CommandFails
<1>3. QED BY <1>2, UncachedKeeps DEF CommandFails

LEMMA ProviderKeeps ==
    ASSUME ToolInv, NEW t \in Thread, ProviderAnswers(t) \/ ProviderFails(t)
    PROVE  Good(t)
<1>1. /\ Running(t) /\ Pays(t) /\ AsksProvider(t) /\ UNCHANGED cache
      /\ ~Does(t, "assess")
  BY DEF ProviderAnswers, ProviderFails, AsksProvider, Does, Pays
<1>2. Cached /\ got[t] \in SUBSET Source /\ Now(t)[2] \in Source
  <2>1. Cached /\ got[t] \in SUBSET Source /\ Shape(tool[t]) /\ at[t] \in 1 .. Len(Program[tool[t]])
    BY <1>1, InProgram
  <2>2. Now(t)[1] \in {"need", "try"}
    BY <1>1 DEF AsksProvider, Does
  <2>3. Program[tool[t]][at[t]][2] \in Source
    BY <2>1, <2>2 DEF Shape, Now
  <2>4. QED BY <2>1, <2>3 DEF Now
<1>3. CASE GoOn(t, got[t] \cup {Now(t)[2]})
  BY <1>1, <1>2, <1>3, WentOn
<1>4. CASE MayGoOn(t) /\ GoOn(t, got[t])
  BY <1>1, <1>2, <1>4, WentOn DEF MayGoOn, Does
<1>5. CASE End(t, "error")
  BY <1>1, <1>5, EndKeeps
<1>6. QED BY <1>3, <1>4, <1>5 DEF ProviderAnswers, ProviderFails

LEMMA RetryKeeps == ASSUME ToolInv, NEW t \in Thread, ProviderIsRetried(t) PROVE Good(t)
<1>1. Running(t) /\ Typed /\ Fits(t) /\ Cached /\ ~Does(t, "get") /\ Pays(t)
  BY InProgram DEF ProviderIsRetried, AsksProvider, Does, Pays
<1>2. attempts' \in [Thread -> 0 .. MaxAttempts - 1]
  <2>1. attempts[t] \in 0 .. MaxAttempts - 1 /\ attempts[t] + 1 < MaxAttempts
    BY <1>1 DEF Typed, ProviderIsRetried, RetriesLeft
  <2>2. (attempts[t] + 1) % (MaxAttempts + 1) = attempts[t] + 1
    BY <2>1, ToolAssumption
  <2>3. QED BY <1>1, <2>1, <2>2, ToolAssumption DEF Typed, ProviderIsRetried
<1>3. Typed' /\ OnlyThread(t)
  BY <1>1, <1>2 DEF Typed, OnlyThread, Local, ProviderIsRetried, Pays
<1>4. Fits(t)'
  BY <1>1 DEF Fits, Running, UsesCache, Does, Now, ProviderIsRetried
<1>5. Steady(t) /\ Free(t)
  BY <1>1 DEF Steady, Free, ProviderIsRetried, UsesCache, Fits, AsksProvider, Does
<1>6. QED BY <1>1, <1>3, <1>4, <1>5 DEF Good

LEMMA AssessKeeps == ASSUME ToolInv, NEW t \in Thread, Assess(t) PROVE Good(t)
<1>1. Running(t) /\ ~Does(t, "need") /\ Cached /\ got[t] \in SUBSET Source
  BY InProgram DEF Assess, Does
<1>2. CASE got[t] # {} /\ GoOn(t, got[t])
  BY <1>1, <1>2, WentOn DEF Assess
<1>3. CASE End(t, "error")
  BY <1>1, <1>3, EndKeeps DEF Assess
<1>4. QED BY <1>2, <1>3 DEF Assess

LEMMA RunKeeps == ASSUME ToolInv, NEW t \in Thread, Run(t) PROVE Good(t)
BY TakeKeeps, ClientKeeps, LoadKeeps, PingAnswersKeeps, PingFailsKeeps, GetKeeps, SetKeeps,
   CommandKeeps, ProviderKeeps, RetryKeeps, AssessKeeps DEF Run

LEMMA RunCounts ==
    ASSUME ToolInv, NEW t \in Thread, Run(t)
    PROVE  /\ client' \in BOOLEAN /\ shared' = shared
           /\ calls' \in 0 .. MaxCalls /\ faults' \in 0 .. MaxFaults
<1>1. client \in BOOLEAN /\ calls \in 0 .. MaxCalls /\ faults \in 0 .. MaxFaults
  BY DEF ToolInv, TypeOK
<1>2. faults' \in 0 .. MaxFaults
  BY <1>1, ToolAssumption
     DEF Run, Take, CheckClient, PublishClient, LoadClient, PingAnswers, PingFails, GetEntry,
         SetEntry, CommandFails, ProviderAnswers, ProviderIsRetried, ProviderFails, Assess,
         Fault, counts
<1>3. client' \in BOOLEAN /\ shared' = shared /\ calls' = calls
  BY <1>1
     DEF Run, Take, CheckClient, PublishClient, LoadClient, PingAnswers, PingFails, GetEntry,
         SetEntry, CommandFails, ProviderAnswers, ProviderIsRetried, ProviderFails, Assess, counts
<1>4. QED BY <1>1, <1>2, <1>3

-----------------------------------------------------------------------------
LEMMA ToolInit == Init => ToolInv /\ AloneInv
<1> SUFFICES ASSUME Init PROVE ToolInv /\ AloneInv
  OBVIOUS
<1>1. \A t \in Thread : ~Running(t) /\ step[t] = "begin" /\ outcome[t] = "none"
  BY DEF Init, Running
<1>2. attempts \in [Thread -> 0 .. MaxAttempts - 1]
  BY ToolAssumption DEF Init
<1>3. TypeOK
  <2>1. cache \in [Key -> {None} \cup SUBSET Source] /\ outcome \in [Thread -> Outcome]
    BY DEF Init, Outcome
  <2>2. calls \in 0 .. MaxCalls /\ faults \in 0 .. MaxFaults
    BY ToolAssumption DEF Init
  <2>3. /\ tool \in [Thread -> Tools \cup {"none"}] /\ at \in [Thread -> Nat]
        /\ step \in [Thread -> {"begin", "publish", "load", "ping", "command"}]
        /\ got \in [Thread -> SUBSET Source] /\ paid \in [Thread -> BOOLEAN]
    BY DEF Init
  <2>4. QED BY <1>2, <2>1, <2>2, <2>3 DEF Init, TypeOK
<1>4. ThreadsFit
  BY <1>1 DEF ThreadsFit, Fits, Does
<1>5. CacheHoldsNoErrors
  BY DEF Init, CacheHoldsNoErrors, None
<1>6. AloneInv
  BY <1>1 DEF AloneInv
<1>7. QED BY <1>3, <1>4, <1>5, <1>6 DEF ToolInv

LEMMA ToolStep == ToolInv /\ [Next]_vars => ToolInv'
<1> SUFFICES ASSUME ToolInv, [Next]_vars PROVE ToolInv'
  OBVIOUS
<1>1. TypeOK /\ Typed /\ ThreadsFit /\ CacheHoldsNoErrors
  BY DEF ToolInv, TypeOK, Typed
<1>2. CASE UNCHANGED vars
  BY <1>1, <1>2 DEF vars, thread, counts, ToolInv, TypeOK, ThreadsFit, Fits, Running, UsesCache,
                    Does, Now, CacheHoldsNoErrors
<1>3. ASSUME NEW t \in Thread, Run(t) PROVE ToolInv'
  <2>1. Typed' /\ OnlyThread(t) /\ Fits(t)' /\ Cached
    BY <1>3, RunKeeps DEF Good
  <2>2. TypeOK'
    BY <1>1, <1>3, <2>1, RunCounts DEF TypeOK, Typed, Cached
  <2>3. QED BY <1>1, <2>1, <2>2, OthersFit DEF ToolInv, Cached, Clean, CacheHoldsNoErrors
<1>4. ASSUME NEW t \in Thread, Call(t) PROVE ToolInv'
  <2>1. PICK x \in Tools : tool' = [tool EXCEPT ![t] = x] /\ at' = [at EXCEPT ![t] = 1]
    BY <1>4, ToolAssumption DEF Call
  <2>2. calls' \in 0 .. MaxCalls
    BY <1>1, <1>4, ToolAssumption DEF Call, TypeOK
  <2>3. TypeOK'
    BY <1>1, <1>4, <2>1, <2>2 DEF Call, TypeOK, Outcome
  <2>4. OnlyThread(t)
    BY <1>1, <1>4, <2>1 DEF Call, Typed, OnlyThread, Local
  <2>5. tool'[t] = x /\ at'[t] = 1 /\ step'[t] = "begin" /\ ~paid'[t]
    BY <1>1, <1>4, <2>1 DEF Call, Typed, ThreadsFit, Fits, UsesCache, Does
  <2>6. Fits(t)'
    BY <2>5, ProgramShape DEF Fits, Shape, Does, Now
  <2>7. QED BY <1>1, <1>4, <2>3, <2>4, <2>6, OthersFit DEF ToolInv, Call, CacheHoldsNoErrors
<1>5. ASSUME NEW t \in Thread, RejectEmptyQuery(t) PROVE ToolInv'
  <2>1. calls' \in 0 .. MaxCalls
    BY <1>1, <1>5, ToolAssumption DEF RejectEmptyQuery, TypeOK
  <2>2. TypeOK'
    BY <1>1, <1>5, <2>1 DEF RejectEmptyQuery, TypeOK, Outcome
  <2>3. OnlyThread(t)
    BY <1>1, <1>5 DEF RejectEmptyQuery, Typed, OnlyThread, Local
  <2>4. Fits(t)'
    BY <1>1, <1>5 DEF RejectEmptyQuery, ThreadsFit, Fits, Running, UsesCache, Does
  <2>5. QED BY <1>1, <1>5, <2>2, <2>3, <2>4, OthersFit
            DEF ToolInv, RejectEmptyQuery, CacheHoldsNoErrors
<1>6. ASSUME NEW k \in Key, Expire(k) PROVE ToolInv'
  <2>1. TypeOK' /\ CacheHoldsNoErrors'
    BY <1>1, <1>6 DEF Expire, thread, counts, TypeOK, CacheHoldsNoErrors, None
  <2>2. ThreadsFit'
    BY <1>1, <1>6 DEF Expire, thread, ThreadsFit, Fits, Running, UsesCache, Does, Now
  <2>3. QED BY <2>1, <2>2 DEF ToolInv
<1>7. QED BY <1>2, <1>3, <1>4, <1>5, <1>6 DEF Next

LEMMA AloneStep == ToolInv /\ AloneInv /\ [Next]_vars => AloneInv'
<1> SUFFICES ASSUME ToolInv, AloneInv, [Next]_vars, ~shared' PROVE
                 /\ \A t \in Thread : outcome'[t] # "raised" /\ (step'[t] = "load" => client')
                 /\ \A t, u \in Thread : Running(t)' /\ Running(u)' => t = u
  BY DEF AloneInv
<1>1. Typed /\ ThreadsFit
  BY DEF ToolInv, TypeOK, Typed
<1>2. ~shared
  BY RunCounts
     DEF Next, Call, RejectEmptyQuery, Expire, vars, counts
<1>3. /\ \A t \in Thread : outcome[t] # "raised" /\ (step[t] = "load" => client)
      /\ \A t, u \in Thread : Running(t) /\ Running(u) => t = u
  BY <1>2 DEF AloneInv
<1>4. CASE UNCHANGED vars \/ \E k \in Key : Expire(k)
  BY <1>3, <1>4 DEF vars, thread, Expire, Running
<1>5. ASSUME NEW t \in Thread, Run(t)
      PROVE  /\ \A u \in Thread : outcome'[u] # "raised" /\ (step'[u] = "load" => client')
             /\ \A u, w \in Thread : Running(u)' /\ Running(w)' => u = w
  <2>1. OnlyThread(t) /\ Steady(t)
    BY <1>5, RunKeeps DEF Good
  <2>2. \A u \in Thread : u # t => ~Running(u)
    BY <1>3, <2>1 DEF Steady
  <2>3. \A u \in Thread : u # t => ~Running(u)' /\ step'[u] # "load" /\ outcome'[u] # "raised"
    BY <1>1, <1>3, <2>1, <2>2 DEF OnlyThread, Local, Running, ThreadsFit, Fits, UsesCache, Does
  <2>4. outcome'[t] # "raised" /\ (step'[t] = "load" => client')
    BY <1>3, <2>1 DEF Steady
  <2>5. QED BY <2>3, <2>4
<1>6. ASSUME NEW t \in Thread, Call(t) \/ RejectEmptyQuery(t)
      PROVE  /\ \A u \in Thread : outcome'[u] # "raised" /\ (step'[u] = "load" => client')
             /\ \A u, w \in Thread : Running(u)' /\ Running(w)' => u = w
  <2>1. \A u \in Thread : outcome'[u] # "raised" /\ (step'[u] = "load" => client')
    BY <1>1, <1>3, <1>6 DEF Call, RejectEmptyQuery, Typed
  <2>2. CASE Call(t)
    <3>1. \A u \in Thread : ~Running(u)
      BY <2>2 DEF Call
    <3>2. QED BY <1>1, <2>1, <2>2, <3>1 DEF Call, Running, Typed
  <2>3. CASE RejectEmptyQuery(t)
    BY <1>3, <2>1, <2>3 DEF RejectEmptyQuery, Running
  <2>4. QED BY <1>6, <2>2, <2>3
<1>7. QED BY <1>4, <1>5, <1>6 DEF Next

LEMMA ToolInvariant == Spec => [](ToolInv /\ AloneInv)
BY ToolInit, ToolStep, AloneStep, PTL DEF Spec

-----------------------------------------------------------------------------
(* A thread is always at a line of its tool, and no call to a provider makes*)
(* more requests than the limit (retry_policy.py:18).                       *)
THEOREM ToolsAreTyped == Spec => []TypeOK
<1>1. ToolInv => TypeOK
  BY DEF ToolInv
<1>2. QED BY <1>1, ToolInvariant, PTL

(* No interleaving and no failure puts an error string, or a brief without  *)
(* sources, into the cache for an hour (agent_tools.py:175).                *)
THEOREM CacheNeverHoldsErrors == Spec => []CacheHoldsNoErrors
<1>1. ToolInv => CacheHoldsNoErrors
  BY DEF ToolInv
<1>2. QED BY <1>1, ToolInvariant, PTL

(* Without a second call at the same time the client that is made is the one*)
(* that is used, and its failures are misses (sync_cache.py:17).            *)
THEOREM CacheFailureIsAlwaysAMissAlone == Spec => []CacheFailureIsAMissAlone
<1>1. AloneInv => CacheFailureIsAMissAlone
  BY DEF AloneInv, CacheFailureIsAMissAlone
<1>2. QED BY <1>1, ToolInvariant, PTL

(* A hit in the cache is never paid for with a token or a request, whichever*)
(* tool it answers (agent_tools.py:132).                                    *)
THEOREM CachedAnswersAreAlwaysFree == Spec => CachedAnswersAreFree
<1>1. ToolInv /\ [Next]_vars =>
        [\A t \in Thread :
           Does(t, "get") /\ outcome'[t] = "answer" /\ outcome[t] # "answer" => ~paid[t]]_vars
  <2> SUFFICES ASSUME ToolInv, Next, NEW t \in Thread PROVE Free(t)
    BY DEF Free
  <2>1. CASE \E u \in Thread : Run(u)
    <3>1. PICK u \in Thread : Run(u)
      BY <2>1
    <3>2. Good(u)
      BY <3>1, RunKeeps
    <3>3. QED BY <3>2 DEF Good, OnlyThread, Local, Free
  <2>2. CASE \E u \in Thread : Call(u) \/ RejectEmptyQuery(u)
    BY <2>2 DEF ToolInv, TypeOK, Call, RejectEmptyQuery, Free
  <2>3. CASE \E k \in Key : Expire(k)
    BY <2>3 DEF Expire, thread, Free
  <2>4. QED BY <2>1, <2>2, <2>3 DEF Next
<1>2. QED BY <1>1, ToolInvariant, PTL DEF Spec, CachedAnswersAreFree
=============================================================================
