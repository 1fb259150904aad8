-------------------------- MODULE TravelAnswerProofs --------------------------
(***************************************************************************)
(* Theorems about the answer to one question, whatever the language model  *)
(* writes and the providers return.                                        *)
(***************************************************************************)
EXTENDS TravelAnswer, WellFoundedInduction, FiniteSetTheorems, TLAPS

(* The least of a set of numbers exists.                                    *)
LEMMA LeastNumber ==
    ASSUME NEW S \in SUBSET Nat, S # {}
    PROVE  Min(S) \in S /\ \A n \in S : Min(S) <= n
<1>1. PICK x \in S : \A y \in S : ~(<<y, x>> \in OpToRel(<, Nat))
  BY NatLessThanWellFounded, WFMin
<1>2. \A y \in S : x <= y
  <2> SUFFICES ASSUME NEW y \in S, ~(x <= y) PROVE FALSE
    OBVIOUS
  <2>1. y < x /\ <<y, x>> \in Nat \X Nat
    OBVIOUS
  <2>2. OpToRel(<, Nat) = {ss \in Nat \X Nat : ss[1] < ss[2]}
    BY DEF OpToRel
  <2>3. <<y, x>> \in {ss \in Nat \X Nat : ss[1] < ss[2]}
    BY <2>1
  <2>4. QED BY <1>1, <2>2, <2>3
<1>3. QED BY <1>2 DEF Min

-----------------------------------------------------------------------------
(* The best route.                                                          *)
Replies == [Range(DefaultProfiles) -> RouteReply \cup {NoRoute}]

LEMMA ProfilesInRange ==
    /\ DOMAIN DefaultProfiles = 1 .. Len(DefaultProfiles) /\ Len(DefaultProfiles) \in Nat
    /\ \A i \in DOMAIN DefaultProfiles :
          DefaultProfiles[i] \in Range(DefaultProfiles) /\ DefaultProfiles[i] \in STRING
    /\ \A p \in Range(DefaultProfiles) :
          \E i \in DOMAIN DefaultProfiles : p = DefaultProfiles[i]
BY RouteAssumption DEF Range

LEMMA RouteIsMeasured ==
    ASSUME NEW reply \in RouteReply \cup {NoRoute}, IsRoute(reply)
    PROVE  reply.distance \in Nat /\ reply.duration \in Nat
<1>1. reply \in RouteFailure \cup Measured
  BY RouteAssumption DEF NoRoute, RouteFailure
<1>2. QED BY <1>1 DEF IsRoute, Measured

LEMMA BestRouteIs ==
    ASSUME NEW r \in Replies, Routes(DefaultProfiles, r) # {}
    PROVE  \E i \in Routes(DefaultProfiles, r) :
             /\ BestRoute(DefaultProfiles, r) = DefaultProfiles[i]
             /\ \A j \in Routes(DefaultProfiles, r) :
                   FastestOrFirst(r[DefaultProfiles[i]].duration, r[DefaultProfiles[j]].duration)
<1> DEFINE found == Routes(DefaultProfiles, r)
           duration(i) == r[DefaultProfiles[i]].duration
           fastest == {i \in found : \A j \in found : FastestOrFirst(duration(i), duration(j))}
           timed == {duration(i) : i \in found} \ {0}
<1>1. found \subseteq Nat /\ \A i \in found : duration(i) \in Nat
  BY ProfilesInRange, RouteIsMeasured DEF Replies, Routes
<1>2. fastest # {}
  <2>1. CASE timed = {}
    <3>1. \A i \in found : duration(i) = 0
      BY <2>1
    <3>2. QED BY <3>1 DEF FastestOrFirst
  <2>2. CASE timed # {}
    <3>1. timed \subseteq Nat
      BY <1>1
    <3>2. Min(timed) \in timed /\ \A n \in timed : Min(timed) <= n
      BY <2>2, <3>1, LeastNumber
    <3> HIDE DEF duration
    <3>3. PICK i \in found : duration(i) = Min(timed)
      BY <3>2
    <3>4. \A j \in found : FastestOrFirst(duration(i), duration(j))
      BY <3>2, <3>3 DEF FastestOrFirst
    <3>5. QED BY <3>4
  <2>3. QED BY <2>1, <2>2
<1>3. fastest \subseteq Nat
  BY <1>1
<1> HIDE DEF fastest
<1>4. Min(fastest) \in fastest
  BY <1>2, <1>3, LeastNumber
<1>5. BestRoute(DefaultProfiles, r) = DefaultProfiles[Min(fastest)]
  BY DEF BestRoute, fastest
<1>6. QED BY <1>4, <1>5 DEF fastest

-----------------------------------------------------------------------------
(* Cleaning a text: sentences go, their links go, nothing is added.         *)
LEMMA ShapeOfText ==
    ASSUME NEW text \in TextOfAnswer
    PROVE  /\ Len(text) \in Nat /\ DOMAIN text = 1 .. Len(text)
           /\ \A n \in DOMAIN text : text[n] \in Sentence
           /\ text # NoText => 1 \in DOMAIN text
BY DEF TextOfAnswer, NoText

LEMMA FunctionIsText ==
    ASSUME NEW k \in Nat, NEW f \in [1 .. k -> Sentence]
    PROVE  f \in TextOfAnswer
BY DEF TextOfAnswer

LEMMA FirstIsOne ==
    ASSUME NEW text \in TextOfAnswer, NEW hits \in SUBSET DOMAIN text, hits # {}
    PROVE  Min(hits) \in hits /\ <<text[Min(hits)]>> \in TextOfAnswer
<1>1. hits \subseteq Nat
  BY ShapeOfText
<1>2. Min(hits) \in hits
  BY <1>1, LeastNumber
<1>3. QED BY <1>2, ShapeOfText DEF TextOfAnswer

(* One of the sentences that answer most directly is left.                  *)
LEMMA CondenseKeeps ==
    ASSUME NEW text \in TextOfAnswer, text # NoText
    PROVE  \E n \in DOMAIN text :
             /\ Condense(text) = <<text[n]>>
             /\ \A m \in DOMAIN text : Directness(text[m]) <= Directness(text[n])
<1> DEFINE specific == {n \in DOMAIN text : ~text[n].generic}
           direct == {n \in DOMAIN text : ~text[n].generic /\ text[n].direct}
<1>1. /\ Len(text) \in Nat /\ DOMAIN text = 1 .. Len(text) /\ 1 \in DOMAIN text
      /\ \A n \in DOMAIN text : text[n] \in Sentence
  BY ShapeOfText
<1>2. \A n \in DOMAIN text : text[n].generic \in BOOLEAN /\ text[n].direct \in BOOLEAN
  BY <1>1 DEF Sentence
<1>3. CASE Len(text) <= 1
  <2>1. Len(text) = 1 /\ DOMAIN text = {1}
    BY <1>1, <1>3
  <2>2. text = <<text[1]>>
    BY <1>1, <2>1 DEF TextOfAnswer
  <2>3. Condense(text) = text
    BY <1>3 DEF Condense
  <2>4. Directness(text[1]) <= Directness(text[1])
    BY <1>1, <1>2 DEF Directness
  <2>5. QED BY <1>1, <2>1, <2>2, <2>3, <2>4
<1>4. CASE Len(text) > 1 /\ direct # {}
  <2>1. Min(direct) \in direct
    BY <1>4, FirstIsOne
  <2>2. Condense(text) = <<text[Min(direct)]>>
    BY <1>1, <1>4 DEF Condense, First, NoText
  <2>3. \A m \in DOMAIN text : Directness(text[m]) <= Directness(text[Min(direct)])
    BY <1>2, <2>1 DEF Directness
  <2>4. QED BY <2>1, <2>2, <2>3
<1>5. CASE Len(text) > 1 /\ direct = {} /\ specific # {}
  <2>1. Min(specific) \in specific
    BY <1>5, FirstIsOne
  <2>2. Condense(text) = <<text[Min(specific)]>>
    BY <1>1, <1>5 DEF Condense, First, NoText
  <2>3. \A m \in DOMAIN text : Directness(text[m]) <= Directness(text[Min(specific)])
    BY <1>2, <1>5, <2>1 DEF Directness
  <2>4. QED BY <2>1, <2>2, <2>3
<1>6. CASE Len(text) > 1 /\ direct = {} /\ specific = {}
  <2>1. Condense(text) = <<text[1]>>
    BY <1>1, <1>6 DEF Condense, First, NoText
  <2>2. \A m \in DOMAIN text : Directness(text[m]) <= Directness(text[1])
    BY <1>1, <1>2, <1>6 DEF Directness
  <2>3. QED BY <1>1, <2>1, <2>2
<1>7. QED BY <1>1, <1>3, <1>4, <1>5, <1>6

LEMMA FixedTexts ==
    /\ Canned \in TextOfAnswer /\ Unconfirmed \in TextOfAnswer /\ NoText \in TextOfAnswer
    /\ \A t \in {Canned, Unconfirmed, NoText} : ~Claims(t) /\ LinksIn(t) = {}
    /\ Canned # NoText /\ Unconfirmed # NoText /\ Canned[1] # Unconfirmed[1]
<1>1. Plain \in Sentence /\ [Plain EXCEPT !.generic = TRUE] \in Sentence
  BY DEF Plain, Sentence
<1>2. Canned \in TextOfAnswer /\ Unconfirmed \in TextOfAnswer /\ NoText \in TextOfAnswer
  BY <1>1 DEF Canned, Unconfirmed, NoText, TextOfAnswer
<1>3. Canned # NoText /\ Unconfirmed # NoText /\ Canned[1] # Unconfirmed[1]
  BY DEF Canned, Unconfirmed, NoText, Plain
<1>4. \A t \in {Canned, Unconfirmed, NoText} : \A n \in DOMAIN t : ~t[n].claims /\ t[n].links = {}
  BY DEF Canned, Unconfirmed, NoText, Plain
<1>5. QED BY <1>2, <1>3, <1>4 DEF Claims, LinksIn

LEMMA SanitizeKeeps ==
    ASSUME NEW text \in TextOfAnswer, NEW allowed \in SUBSET Url
    PROVE  LET s == Sanitize(text, allowed)
           IN  /\ s \in TextOfAnswer
               /\ LinksIn(s) \subseteq allowed \cap HttpsUrl
               /\ Claims(s) => Claims(text)
               /\ s # NoText => /\ DOMAIN s = DOMAIN text
                                /\ \A n \in DOMAIN s : Unlinked(s[n]) = Unlinked(text[n])
               /\ s = NoText => \A n \in DOMAIN text : text[n].bare
<1> DEFINE cleaned == [n \in DOMAIN text |->
                         [text[n] EXCEPT !.links = text[n].links \cap allowed \cap HttpsUrl]]
<1>1. /\ Len(text) \in Nat /\ DOMAIN text = 1 .. Len(text)
      /\ \A n \in DOMAIN text : text[n] \in Sentence
  BY ShapeOfText
<1>2. \A n \in DOMAIN text :
        /\ cleaned[n] \in Sentence /\ cleaned[n].claims = text[n].claims
        /\ cleaned[n].bare = text[n].bare
        /\ cleaned[n].links = text[n].links \cap allowed \cap HttpsUrl
        /\ Unlinked(cleaned[n]) = Unlinked(text[n])
  BY <1>1 DEF Sentence, Unlinked
<1>3. cleaned \in TextOfAnswer /\ DOMAIN cleaned = DOMAIN text
  <2>1. cleaned \in [1 .. Len(text) -> Sentence] /\ DOMAIN cleaned = DOMAIN text
    BY <1>1, <1>2
  <2> HIDE DEF cleaned
  <2>2. QED BY <1>1, <2>1, FunctionIsText
<1> HIDE DEF cleaned
<1>4. LinksIn(cleaned) \subseteq allowed \cap HttpsUrl /\ (Claims(cleaned) => Claims(text))
  BY <1>2, <1>3 DEF LinksIn, Claims
<1>5. Len(cleaned) = Len(text)
  BY <1>1, <1>3, ShapeOfText
<1>6. CASE Len(cleaned) = 1 /\ Vanishes(cleaned[1])
  <2>1. Sanitize(text, allowed) = NoText
    BY <1>6 DEF Sanitize, cleaned, NoText
  <2>2. DOMAIN text = {1}
    BY <1>1, <1>5, <1>6
  <2>3. \A n \in DOMAIN text : text[n].bare
    BY <1>2, <1>6, <2>2 DEF Vanishes
  <2>4. QED BY <2>1, <2>3, FixedTexts
<1>7. CASE ~(Len(cleaned) = 1 /\ Vanishes(cleaned[1]))
  <2>1. Sanitize(text, allowed) = cleaned
    BY <1>7 DEF Sanitize, cleaned
  <2>2. cleaned = NoText => \A n \in DOMAIN text : text[n].bare
    BY <1>3 DEF NoText
  <2>3. QED BY <1>2, <1>3, <1>4, <2>1, <2>2
<1>8. QED BY <1>6, <1>7

LEMMA AppendKeeps ==
    ASSUME NEW text \in TextOfAnswer, NEW url \in Url \cup {NoUrl}
    PROVE  LET a == AppendLink(text, url)
           IN  /\ a \in TextOfAnswer
               /\ LinksIn(a) \subseteq LinksIn(text) \cup ({url} \ {NoUrl})
               /\ Claims(a) => Claims(text)
               /\ a = NoText <=> text = NoText
               /\ text # NoText => a[1] = text[1]
               /\ text = Unconfirmed => a = Unconfirmed
<1>1. CASE AppendLink(text, url) = text
  BY <1>1
<1>2. CASE AppendLink(text, url) # text
  <2>1. /\ AppendLink(text, url) = Append(text, SourceNote(url))
        /\ text # NoText /\ text # Unconfirmed /\ url # NoUrl
    BY <1>2 DEF AppendLink
  <2>2. SourceNote(url) \in Sentence /\ ~SourceNote(url).claims /\ SourceNote(url).links = {url}
    BY <2>1 DEF SourceNote, Plain, Sentence
  <2>3. Len(text) \in Nat /\ DOMAIN text = 1 .. Len(text) /\ 1 \in DOMAIN text
    BY <2>1, ShapeOfText
  <2> DEFINE a == Append(text, SourceNote(url))
  <2>4. /\ a \in TextOfAnswer /\ DOMAIN a = 1 .. Len(text) + 1
        /\ \A n \in 1 .. Len(text) : a[n] = text[n]
        /\ a[Len(text) + 1] = SourceNote(url)
    BY <2>2, <2>3 DEF TextOfAnswer
  <2> HIDE DEF a
  <2>5. \A n \in DOMAIN a : (n \in DOMAIN text /\ a[n] = text[n]) \/ a[n] = SourceNote(url)
    BY <2>3, <2>4
  <2>6. LinksIn(a) \subseteq LinksIn(text) \cup {url} /\ (Claims(a) => Claims(text))
    BY <2>2, <2>5 DEF LinksIn, Claims
  <2>7. a # NoText /\ a[1] = text[1]
    BY <2>3, <2>4 DEF NoText
  <2>8. QED BY <2>1, <2>4, <2>6, <2>7 DEF a
<1>3. QED BY <1>1, <1>2

-----------------------------------------------------------------------------
(* The articles an answer may rest on.                                      *)
Good(i) ==
    /\ i \in Item /\ MentionsPlace(i, PlaceName)
    /\ reference \cap MeaningfulWord # {} => reference \cap i.words # {}

When == {"current", "targeted"}

LEMMA ItemShape ==
    ASSUME NEW i \in Item \cup {NoItem}
    PROVE  i.url \in Url \cup {NoUrl} /\ i.blocks \subseteq Transport
BY NewsAssumption DEF NoItem

LEMMA FeedIsAboutThePlace ==
    ASSUME NEW place, NEW most, NEW s \in Feed(place, most)
    PROVE  s \subseteq Item /\ \A i \in s : MentionsPlace(i, place)
BY DEF Feed, FilterRelevant

LEMMA MatchIsGood ==
    ASSUME NEW found \in SUBSET Item, NEW item \in Match(found)
    PROVE  item = NoItem \/ Good(item)
<1> DEFINE eligible == FilterRelevant(found, PlaceName)
<1>1. \A i \in eligible : i \in Item /\ MentionsPlace(i, PlaceName)
  BY DEF FilterRelevant
<1>2. ASSUME item \in BestOf(eligible)
      PROVE  Good(item)
  <2>1. item \in eligible /\ Cardinality(reference \cap item.words \cap MeaningfulWord) > 0
    BY <1>2 DEF BestOf
  <2>2. reference \cap item.words \cap MeaningfulWord # {}
    BY <2>1, FS_EmptySet
  <2>3. QED BY <1>1, <2>1, <2>2 DEF Good
<1> HIDE DEF eligible
<1>3. CASE eligible = {}
  BY <1>3 DEF Match, eligible
<1>4. CASE eligible # {} /\ reference \cap MeaningfulWord = {}
  <2>1. item \in eligible
    BY <1>4 DEF Match, eligible
  <2>2. QED BY <1>1, <1>4, <2>1 DEF Good
<1>5. CASE eligible # {} /\ reference \cap MeaningfulWord # {}
  <2>1. item = NoItem \/ item \in BestOf(eligible)
    BY <1>5 DEF Match, eligible
  <2>2. QED BY <1>2, <2>1
<1>6. QED BY <1>3, <1>4, <1>5

(* Who shares the most words shares some, when anyone does.                 *)
LEMMA BestOfIsFound ==
    ASSUME NEW eligible \in SUBSET Item, IsFiniteSet(reference),
           NEW one \in eligible, reference \cap one.words \cap MeaningfulWord # {}
    PROVE  BestOf(eligible) # {}
<1> DEFINE overlap(i) == Cardinality(reference \cap i.words \cap MeaningfulWord)
           most == Cardinality(reference)
           missing == {most - overlap(i) : i \in eligible}
<1>1. most \in Nat /\ \A i \in eligible : overlap(i) \in Nat /\ overlap(i) <= most
  <2> SUFFICES ASSUME NEW i \in eligible
               PROVE  most \in Nat /\ overlap(i) \in Nat /\ overlap(i) <= most
    OBVIOUS
  <2>1. reference \cap i.words \cap MeaningfulWord \in SUBSET reference
    OBVIOUS
  <2>2. IsFiniteSet(reference \cap i.words \cap MeaningfulWord) /\ overlap(i) <= most
    BY <2>1, FS_Subset
  <2>3. QED BY <2>2, FS_CardinalityType
<1>2. overlap(one) > 0
  <2>1. IsFiniteSet(reference \cap one.words \cap MeaningfulWord)
    BY FS_Subset
  <2>2. overlap(one) # 0
    BY <2>1, FS_EmptySet
  <2>3. QED BY <1>1, <2>2
<1> HIDE DEF overlap, most
<1>3. missing \in SUBSET Nat /\ missing # {}
  BY <1>1
<1>4. Min(missing) \in missing /\ \A n \in missing : Min(missing) <= n
  BY <1>3, LeastNumber
<1>5. PICK i \in eligible : Min(missing) = most - overlap(i)
  BY <1>4
<1>6. \A j \in eligible : most - overlap(i) <= most - overlap(j)
  BY <1>4, <1>5
<1>7. \A j \in eligible : overlap(j) <= overlap(i)
  BY <1>1, <1>6
<1>8. overlap(i) > 0
  BY <1>1, <1>2, <1>7
<1>9. QED BY <1>7, <1>8 DEF BestOf, overlap

LEMMA NoItemIsAboutNothing == ~MentionsPlace(NoItem, PlaceName)
<1>1. \A words : words \subseteq NoItem.words => words = {}
  BY DEF NoItem
<1>2. Cardinality((PlaceName \ CitySuffix) \cap NoItem.words) = 0
  <2>1. (PlaceName \ CitySuffix) \cap NoItem.words = {}
    BY DEF NoItem
  <2>2. QED BY <2>1, FS_EmptySet
<1>3. QED BY <1>1, <1>2 DEF MentionsPlace

(* Nothing is matched only when nothing is related.                         *)
LEMMA NoMatchIsUnrelated ==
    ASSUME NEW found \in SUBSET Item, \A i \in found : MentionsPlace(i, PlaceName),
           IsFiniteSet(reference), NoItem \in Match(found)
    PROVE  \A i \in found : ~Related(i)
<1>1. FilterRelevant(found, PlaceName) = found
  BY DEF FilterRelevant
<1>2. NoItem \notin found
  BY NoItemIsAboutNothing
<1> SUFFICES ASSUME NEW i \in found, Related(i) PROVE FALSE
  OBVIOUS
<1>3. CASE reference \cap MeaningfulWord = {}
  BY <1>1, <1>2, <1>3 DEF Match
<1>4. CASE reference \cap MeaningfulWord # {}
  <2>1. BestOf(found) # {}
    <3>1. reference \cap i.words \cap MeaningfulWord # {}
      BY <1>4 DEF Related
    <3>2. QED BY <3>1, BestOfIsFound
  <2>2. BestOf(found) \subseteq found
    BY DEF BestOf
  <2>3. Match(found) = BestOf(found)
    BY <1>1, <1>4, <2>1 DEF Match
  <2>4. QED BY <1>2, <2>2, <2>3
<1>5. QED BY <1>3, <1>4

LEMMA UrlsAreUrls ==
    ASSUME NEW s \in SUBSET (Item \cup {NoItem})
    PROVE  UrlsOf(s) \subseteq Url
BY ItemShape DEF UrlsOf

-----------------------------------------------------------------------------
(* The invariant: what is known of the state before the answer is shown.    *)
AnswerInv ==
    /\ TypeOK
    /\ \A when \in When : matched[when] = NoItem \/ Good(matched[when])
    /\ mode \notin FollowUp => \A when \in When : matched[when] = NoItem
    /\ mode \in FollowUp /\ matched["current"] = NoItem => \A i \in items : ~Related(i)
    /\ stage \in {"gather", "route"} =>
          plan = NoPlan /\ routeError = "unknown" /\ guidance = NoGuidance
    /\ stage = "finish" /\ mode # "broad" => written # NoText

Shown ==
    LinksComeFromEvidence /\ ClaimsAreSupported /\ RefusalsStandAlone /\ AnswersAreNotLost

Planned == BestRouteIsFastest /\ DisruptionsReachGuidance

LEMMA NothingShownYet == stage' # "done" => Shown'
BY DEF Shown, LinksComeFromEvidence, ClaimsAreSupported, RefusalsStandAlone, AnswersAreNotLost

LEMMA PlanUnchanged == Planned /\ UNCHANGED <<question, journey>> => Planned'
BY DEF Planned, question, journey, BestRouteIsFastest, DisruptionsReachGuidance

LEMMA PhrasesAreText == Text \subseteq TextOfAnswer
<1> SUFFICES ASSUME NEW n \in 0 .. MaxSentences, NEW f \in [1 .. n -> Phrase]
             PROVE  f \in TextOfAnswer
  BY DEF Text
<1>1. n \in Nat
  BY AnswerAssumption
<1>2. f \in [1 .. n -> Sentence]
  BY AnswerAssumption
<1>3. QED BY <1>1, <1>2, FunctionIsText

LEMMA AnswerStarts == Init => AnswerInv /\ Shown /\ Planned
<1> SUFFICES ASSUME Init PROVE AnswerInv /\ Shown /\ Planned
  OBVIOUS
<1>1. TypeOK
  BY FixedTexts DEF Init, TypeOK, Stage, Mode, PlanError, NoGuidance, NoText
<1>2. AnswerInv
  BY <1>1 DEF AnswerInv, Init, When
<1>3. Shown /\ Planned
  BY DEF Init, Shown, Planned, LinksComeFromEvidence, ClaimsAreSupported, RefusalsStandAlone,
         AnswersAreNotLost, BestRouteIsFastest, DisruptionsReachGuidance
<1>4. QED BY <1>2, <1>3

-----------------------------------------------------------------------------
(* The steps before the answer is shown.                                    *)
LEMMA GatheringKeepsAnswerInv ==
    ASSUME AnswerInv, Planned, GatherNews \/ CallTools \/ GatherJourney
    PROVE  AnswerInv' /\ Shown' /\ Planned'
<1>1. CASE GatherNews
  <2>1. /\ items' \in SUBSET Item /\ stage' = "plan" /\ mode \in FollowUp
        /\ UNCHANGED <<question, journey, written, final>>
    BY <1>1, FeedIsAboutThePlace DEF GatherNews
  <2>2. PICK item \in Match(items') : matched' = [matched EXCEPT !["current"] = item]
    BY <1>1 DEF GatherNews
  <2>3. item = NoItem \/ Good(item)
    BY <2>1, <2>2, MatchIsGood
  <2>4. TypeOK'
    BY <2>1, <2>2, <2>3 DEF AnswerInv, TypeOK, Stage, question, journey, Good
  <2>5. \A when \in When : matched'[when] = NoItem \/ Good(matched'[when])
    BY <2>2, <2>3 DEF AnswerInv, TypeOK, When
  <2>6. matched'["current"] = NoItem => \A i \in items' : ~Related(i)'
    <3>1. matched'["current"] = item
      BY <2>2 DEF AnswerInv, TypeOK
    <3>2. IsFiniteSet(reference) /\ \A i \in items' : MentionsPlace(i, PlaceName)
      BY <1>1, AnswerAssumption, FeedIsAboutThePlace DEF GatherNews, AnswerInv, TypeOK
    <3>3. item = NoItem => \A i \in items' : ~Related(i)
      BY <2>1, <2>2, <3>2, NoMatchIsUnrelated
    <3>4. QED BY <2>1, <3>1, <3>3 DEF Related, question
  <2>7. AnswerInv'
    BY <2>1, <2>4, <2>5, <2>6 DEF AnswerInv, Good, Related, question, FollowUp
  <2>8. QED BY <2>1, <2>7, NothingShownYet, PlanUnchanged
<1>2. CASE CallTools
  <2>1. /\ items' \in SUBSET Item /\ stage' = "reason"
        /\ UNCHANGED <<question, matched, journey, written, final>> /\ mode \notin FollowUp
    BY <1>2, FeedIsAboutThePlace DEF CallTools, FollowUp
  <2>2. TypeOK'
    BY <2>1 DEF AnswerInv, TypeOK, Stage, question, journey
  <2>3. AnswerInv'
    BY <2>1, <2>2 DEF AnswerInv, Good, Related, question, journey
  <2>4. QED BY <2>1, <2>3, NothingShownYet, PlanUnchanged
<1>3. CASE GatherJourney
  <2>1. /\ items' \in SUBSET Item /\ stage' = "route" /\ stage = "gather"
        /\ UNCHANGED <<question, matched, replies, plan, routeError, guidance, written, final>>
        /\ mode \notin FollowUp
    BY <1>3, FeedIsAboutThePlace DEF GatherJourney, Journey, FollowUp
  <2>2. PICK there \in Feed(OriginName, MaxItems) : flags' = UNION {i.blocks : i \in items' \cup there}
    BY <1>3 DEF GatherJourney
  <2>3. flags' \subseteq Transport
    BY <2>1, <2>2, FeedIsAboutThePlace, ItemShape
  <2>4. TypeOK'
    BY <2>1, <2>3 DEF AnswerInv, TypeOK, Stage, question
  <2>5. AnswerInv'
    BY <2>1, <2>4 DEF AnswerInv, Good, Related, question
  <2>6. Planned'
    BY <2>1 DEF AnswerInv, Planned, BestRouteIsFastest, DisruptionsReachGuidance
  <2>7. QED BY <2>1, <2>5, <2>6, NothingShownYet
<1>4. QED BY <1>1, <1>2, <1>3

LEMMA GuidanceNamesRoads ==
    ASSUME NEW err, NEW best, NEW disrupted \in SUBSET Transport
    PROVE  LET g == GuidanceFor(err, best, disrupted)
           IN  /\ g.mentions \subseteq Transport \cup {"distance", "no_routes"}
               /\ err # "no_routes" /\ best # NoPlan /\ "road" \in disrupted =>
                     "road" \in g.mentions
               /\ \/ err = "no_routes"
                  \/ best # NoPlan /\ (best.distance > LongDistance \/ "road" \in disrupted)
                  => g.alternatives = Elsewhere
               /\ disrupted # {} /\ g = NoGuidance =>
                     disrupted = {"road"} /\ best = NoPlan /\ err # "no_routes"
<1> DEFINE long == best # NoPlan /\ best.distance > LongDistance
           g == GuidanceFor(err, best, disrupted)
<1>1. CASE err = "no_routes"
  <2>1. g = Guide("no_routes", {"no_routes"}, Elsewhere)
    BY <1>1 DEF GuidanceFor
  <2>2. QED BY <1>1, <2>1 DEF Guide, NoGuidance
<1>2. CASE err # "no_routes" /\ long
  <2>1. g = Guide("distance", {"distance"} \cup (disrupted \cap {"road"}), Elsewhere)
    BY <1>2 DEF GuidanceFor
  <2>2. QED BY <1>2, <2>1 DEF Guide, NoGuidance, Transport
<1>3. CASE err # "no_routes" /\ ~long /\ "road" \in disrupted /\ best # NoPlan
  <2>1. g = Guide("road_disruption", {"road"}, Elsewhere)
    BY <1>3 DEF GuidanceFor
  <2>2. QED BY <1>3, <2>1 DEF Guide, NoGuidance, Transport
<1>4. CASE err # "no_routes" /\ ~long /\ ~("road" \in disrupted /\ best # NoPlan)
  <2> DEFINE schedules == disrupted \cap {"flight", "ferry"}
  <2>1. g = IF schedules = {} THEN NoGuidance
            ELSE Guide("schedule_disruption", schedules, {"confirm_schedules"})
    BY <1>4 DEF GuidanceFor
  <2>2. CASE schedules = {}
    <3>1. disrupted # {} => disrupted = {"road"}
      BY <2>2 DEF Transport
    <3>2. QED BY <1>4, <2>1, <2>2, <3>1 DEF NoGuidance
  <2>3. CASE schedules # {}
    BY <1>4, <2>1, <2>3 DEF Guide, NoGuidance, Transport
  <2>4. QED BY <2>2, <2>3
<1>5. QED BY <1>1, <1>2, <1>3, <1>4

LEMMA RouteErrorIs ==
    ASSUME NEW configured \in BOOLEAN, NEW located \in BOOLEAN, NEW r,
           NEW err, err = RouteError(configured, located, <<>>, r)
    PROVE  /\ err \in PlanError \cup {"none"}
           /\ err = "none" => Routes(DefaultProfiles, r) # {}
           /\ err = "no_routes" => Routes(DefaultProfiles, r) = {}
<1>1. Chosen(<<>>) = DefaultProfiles
  BY DEF Chosen
<1>2. CASE ~configured
  <2>1. err = "missing_ors_api"
    BY <1>2 DEF RouteError
  <2>2. QED BY ONLY <2>1 DEF PlanError
<1>3. CASE configured /\ ~located
  <2>1. err = "geocode_failed"
    BY <1>3 DEF RouteError
  <2>2. QED BY ONLY <2>1 DEF PlanError
<1>4. CASE configured /\ located /\ ~ValidProfiles(DefaultProfiles)
  <2>1. err = "invalid_route_profiles"
    BY <1>1, <1>4 DEF RouteError
  <2>2. QED BY ONLY <2>1 DEF PlanError
<1>5. CASE configured /\ located /\ ValidProfiles(DefaultProfiles)
  <2>1. err = IF Routes(DefaultProfiles, r) = {} THEN "no_routes" ELSE "none"
    BY <1>1, <1>5 DEF RouteError
  <2>2. QED BY ONLY <2>1 DEF PlanError
<1>6. QED BY ONLY <1>2, <1>3, <1>4, <1>5, configured \in BOOLEAN, located \in BOOLEAN

LEMMA PlanningKeepsAnswerInv ==
    ASSUME AnswerInv, PlanJourney
    PROVE  AnswerInv' /\ Shown' /\ Planned'
<1>1. /\ replies' \in [Range(DefaultProfiles) -> RouteReply] /\ stage' = "plan"
      /\ UNCHANGED <<question, evidence, flags, written, final>>
  BY DEF PlanJourney
<1>2. /\ plan' = IF routeError' = "none" THEN PlanRoute(<<>>, replies') ELSE NoPlan
      /\ guidance' = IF mode = "transport" THEN GuidanceFor(routeError', plan', flags)
                                           ELSE NoGuidance
  BY DEF PlanJourney
<1>3. /\ routeError' \in PlanError \cup {"none"}
      /\ routeError' = "none" => Routes(DefaultProfiles, replies') # {}
      /\ routeError' = "no_routes" => Routes(DefaultProfiles, replies') = {}
  <2>1. PICK configured \in BOOLEAN, located \in BOOLEAN :
           routeError' = RouteError(configured, located, <<>>, replies')
    BY DEF PlanJourney
  <2>2. QED BY <2>1, RouteErrorIs
<1>4. replies' \in Replies
  BY <1>1 DEF Replies
<1>5. ASSUME plan' # NoPlan
      PROVE  /\ plan' \in [profile: STRING, distance: Nat, duration: Nat]
             /\ BestRouteIsFastest'
  <2>1. routeError' = "none" /\ plan' = PlanRoute(<<>>, replies')
    BY <1>2, <1>5
  <2>2. PICK i \in Routes(DefaultProfiles, replies') :
             /\ BestRoute(DefaultProfiles, replies') = DefaultProfiles[i]
             /\ \A j \in Routes(DefaultProfiles, replies') :
                   FastestOrFirst(replies'[DefaultProfiles[i]].duration,
                                  replies'[DefaultProfiles[j]].duration)
    BY <1>3, <1>4, <2>1, BestRouteIs
  <2> DEFINE best == DefaultProfiles[i]
  <2>3. /\ i \in DOMAIN DefaultProfiles /\ best \in Range(DefaultProfiles) /\ best \in STRING
        /\ IsRoute(replies'[best]) /\ replies'[best] \in RouteReply
    BY <1>1, <2>2, ProfilesInRange DEF Routes
  <2>4. replies'[best].distance \in Nat /\ replies'[best].duration \in Nat
    BY <2>3, RouteIsMeasured
  <2>5. plan' = [profile |-> best, distance |-> replies'[best].distance,
                 duration |-> replies'[best].duration]
    BY <2>1, <2>2 DEF PlanRoute, Chosen
  <2>6. ASSUME NEW p \in Range(DefaultProfiles), IsRoute(replies'[p]), replies'[p].duration > 0
        PROVE  plan'.duration \in 1 .. replies'[p].duration
    <3>1. PICK j \in DOMAIN DefaultProfiles : p = DefaultProfiles[j]
      BY ProfilesInRange
    <3>2. j \in Routes(DefaultProfiles, replies')
      BY <2>6, <3>1 DEF Routes
    <3>3. FastestOrFirst(replies'[best].duration, replies'[p].duration)
      BY <2>2, <3>1, <3>2
    <3>4. replies'[p].duration \in Nat
      BY <1>1, <2>6, RouteIsMeasured
    <3> HIDE DEF best
    <3>5. QED BY <2>4, <2>5, <2>6, <3>3, <3>4 DEF FastestOrFirst
  <2>7. BestRouteIsFastest'
    BY <2>3, <2>5, <2>6 DEF BestRouteIsFastest
  <2>8. plan' \in [profile: STRING, distance: Nat, duration: Nat]
    <3> HIDE DEF best
    <3>1. QED BY <2>3, <2>4, <2>5
  <2>9. QED BY <2>7, <2>8
<1>6. BestRouteIsFastest'
  BY <1>5 DEF BestRouteIsFastest
<1>7. flags \in SUBSET Transport /\ flags' = flags
  BY <1>1 DEF AnswerInv, TypeOK
<1>8. /\ guidance'.mentions \subseteq Transport \cup {"distance", "no_routes"}
      /\ DisruptionsReachGuidance'
  <2>1. CASE mode # "transport"
    <3>1. guidance' = NoGuidance /\ mode' # "transport"
      BY <1>1, <1>2, <2>1 DEF question
    <3>2. QED BY <3>1 DEF NoGuidance, DisruptionsReachGuidance
  <2>2. CASE mode = "transport"
    <3>1. guidance' = GuidanceFor(routeError', plan', flags)
      BY <1>2, <2>2
    <3>2. /\ guidance'.mentions \subseteq Transport \cup {"distance", "no_routes"}
          /\ routeError' # "no_routes" /\ plan' # NoPlan /\ "road" \in flags =>
                "road" \in guidance'.mentions
          /\ \/ routeError' = "no_routes"
             \/ plan' # NoPlan /\ (plan'.distance > LongDistance \/ "road" \in flags)
             => guidance'.alternatives = Elsewhere
          /\ flags # {} /\ guidance' = NoGuidance =>
                flags = {"road"} /\ plan' = NoPlan /\ routeError' # "no_routes"
      BY <1>7, <3>1, GuidanceNamesRoads
    <3>3. routeError' = "no_routes" => {p \in Range(DefaultProfiles) : IsRoute(replies'[p])} = {}
      BY <1>3, ProfilesInRange DEF Routes
    <3>4. plan' # NoPlan => routeError' # "no_routes"
      BY <1>2
    <3>5. QED BY <1>7, <3>2, <3>3, <3>4 DEF DisruptionsReachGuidance
  <2>3. QED BY <2>1, <2>2
<1>9. plan' = NoPlan \/ plan' \in [profile: STRING, distance: Nat, duration: Nat]
  BY <1>5
<1>10. TypeOK'
  BY <1>1, <1>3, <1>7, <1>8, <1>9 DEF AnswerInv, TypeOK, Stage, question, evidence
<1>11. AnswerInv'
  BY <1>1, <1>10 DEF AnswerInv, Good, Related, question, evidence
<1>12. QED BY <1>1, <1>6, <1>8, <1>11, NothingShownYet DEF Planned

LEMMA SearchingKeepsAnswerInv ==
    ASSUME AnswerInv, Planned, Search
    PROVE  AnswerInv' /\ Shown' /\ Planned'
<1>1. stage' = "reason" /\ UNCHANGED <<question, items, journey, written, final>>
  BY DEF Search
<1>2. PICK found \in Feed(PlaceName, MaxFound) :
         \E item \in IF mode \in FollowUp THEN Match(found) ELSE {NoItem} :
            matched' = [matched EXCEPT !["targeted"] = item]
  BY DEF Search
<1>3. PICK item \in IF mode \in FollowUp THEN Match(found) ELSE {NoItem} :
            matched' = [matched EXCEPT !["targeted"] = item]
  BY <1>2
<1>4. /\ item = NoItem \/ Good(item)
      /\ mode \notin FollowUp => item = NoItem
  BY <1>3, FeedIsAboutThePlace, MatchIsGood
<1>5. TypeOK'
  BY <1>1, <1>3, <1>4 DEF AnswerInv, TypeOK, Stage, question, journey, Good
<1>6. \A when \in When : matched'[when] = NoItem \/ Good(matched'[when])
  BY <1>3, <1>4 DEF AnswerInv, TypeOK, When
<1>7. mode \notin FollowUp => \A when \in When : matched'[when] = NoItem
  BY <1>3, <1>4 DEF AnswerInv, TypeOK, When
<1>8. mode \in FollowUp /\ matched'["current"] = NoItem => \A i \in items : ~Related(i)
  BY <1>3 DEF AnswerInv, TypeOK
<1>9. AnswerInv'
  BY <1>1, <1>5, <1>6, <1>7, <1>8 DEF AnswerInv, Good, Related, question
<1>10. QED BY <1>1, <1>9, NothingShownYet, PlanUnchanged

LEMMA WritingKeepsAnswerInv ==
    ASSUME AnswerInv, Planned, PlannerAnswers \/ PlannerSearches \/ Reason \/ AnsweringFails
    PROVE  AnswerInv' /\ Shown' /\ Planned'
<1>1. /\ stage' \in {"finish", "search", "failed"}
      /\ UNCHANGED <<question, evidence, journey, final>>
      /\ written' \in TextOfAnswer
      /\ stage' = "finish" /\ mode # "broad" => written' # NoText
  BY PhrasesAreText, FixedTexts
     DEF PlannerAnswers, PlannerSearches, Reason, AnsweringFails, AnswerInv, TypeOK
<1>2. TypeOK'
  BY <1>1 DEF AnswerInv, TypeOK, Stage, question, evidence, journey
<1>3. AnswerInv'
  BY <1>1, <1>2 DEF AnswerInv, Good, Related, question, evidence, journey
<1>4. QED BY <1>1, <1>3, NothingShownYet, PlanUnchanged

-----------------------------------------------------------------------------
(* What is left of a text when it is shown.                                 *)
Refuses(text) == text # NoText /\ text[1] = Unconfirmed[1]

(* A text that is cleaned and checked: either it is kept, or refused for a  *)
(* claim that none of the articles makes.                                   *)
Kept(text, result, articles) ==
    /\ result \in TextOfAnswer
    /\ LinksIn(result) \subseteq UrlsOf(articles) \cap HttpsUrl
    /\ result = NoText => \A n \in DOMAIN text : text[n].bare
    /\ Refuses(result) /\ (\A n \in DOMAIN text : Unlinked(text[n]) # Unconfirmed[1]) =>
          result = Unconfirmed /\ Claims(text)

LEMMA UnlinkedRefusal == Unlinked(Unconfirmed[1]) = Unconfirmed[1] /\ Len(Unconfirmed) = 1
<1>1. Unconfirmed[1] \in Sentence /\ Unconfirmed[1].links = {} /\ Len(Unconfirmed) = 1
  BY DEF Unconfirmed, Plain, Sentence
<1>2. \A s \in Sentence : s.links = {} => [s EXCEPT !.links = {}] = s
  BY DEF Sentence
<1>3. QED BY <1>1, <1>2 DEF Unlinked

LEMMA CleanedIsKept ==
    ASSUME NEW text \in TextOfAnswer, NEW articles \in SUBSET (Item \cup {NoItem}),
           NEW result, result = Sanitize(text, UrlsOf(articles))
    PROVE  Kept(text, result, articles)
<1>1. /\ result \in TextOfAnswer
      /\ LinksIn(result) \subseteq UrlsOf(articles) \cap HttpsUrl
      /\ result # NoText => /\ DOMAIN result = DOMAIN text
                            /\ \A n \in DOMAIN result : Unlinked(result[n]) = Unlinked(text[n])
      /\ result = NoText => \A n \in DOMAIN text : text[n].bare
  BY SanitizeKeeps, UrlsAreUrls
<1>2. ASSUME Refuses(result), \A n \in DOMAIN text : Unlinked(text[n]) # Unconfirmed[1]
      PROVE  FALSE
  <2>1. 1 \in DOMAIN result
    BY <1>1, <1>2, ShapeOfText DEF Refuses
  <2>2. 1 \in DOMAIN text /\ Unlinked(text[1]) = Unlinked(Unconfirmed[1])
    BY <1>1, <1>2, <2>1 DEF Refuses
  <2>3. QED BY <1>2, <2>2, UnlinkedRefusal
<1>3. QED BY <1>1, <1>2 DEF Kept

LEMMA RefusalIsKept ==
    ASSUME NEW text \in TextOfAnswer, NEW articles, Claims(text)
    PROVE  Kept(text, Unconfirmed, articles)
BY FixedTexts DEF Kept

LEMMA ValidateKeeps ==
    ASSUME AnswerInv, NEW text \in TextOfAnswer
    PROVE  /\ Kept(text, Validate(text), Matches)
           /\ Claims(Validate(text)) /\ Matches # {} =>
                 \E i \in Matches : i.impact /\ MentionsPlace(i, PlaceName)
<1> DEFINE cleaned == Sanitize(text, UrlsOf(Matches))
<1>1. Matches \in SUBSET (Item \cup {NoItem}) /\ \A i \in Matches : Good(i)
  BY DEF Matches, AnswerInv, TypeOK, When
<1>2. Kept(text, cleaned, Matches)
  BY <1>1, CleanedIsKept
<1>3. Claims(cleaned) => Claims(text)
  BY <1>1, UrlsAreUrls, SanitizeKeeps
<1> HIDE DEF cleaned
<1>4. CASE cleaned = NoText \/ Matches = {}
  <2>1. Validate(text) = cleaned
    BY <1>4 DEF Validate, cleaned
  <2>2. QED BY <1>2, <1>4, <2>1, FixedTexts
<1>5. CASE cleaned # NoText /\ Matches # {} /\ \E i \in Matches : SupportsClaim(cleaned, i, PlaceName)
  <2>1. Validate(text) = cleaned
    BY <1>5 DEF Validate, cleaned
  <2>2. QED BY <1>2, <1>5, <2>1 DEF SupportsClaim
<1>6. CASE cleaned # NoText /\ Matches # {} /\ ~\E i \in Matches : SupportsClaim(cleaned, i, PlaceName)
  <2>1. Validate(text) = Unconfirmed
    BY <1>6 DEF Validate, cleaned
  <2>2. Claims(text)
    BY <1>1, <1>3, <1>6 DEF SupportsClaim, Good
  <2>3. QED BY <2>1, <2>2, RefusalIsKept, FixedTexts
<1>7. QED BY <1>4, <1>5, <1>6

LEMMA GroundKeeps ==
    ASSUME AnswerInv, NEW text \in TextOfAnswer
    PROVE  /\ Kept(text, Ground(text), items)
           /\ Claims(Ground(text)) => \E i \in items : i.impact /\ MentionsPlace(i, PlaceName)
<1> DEFINE cleaned == Sanitize(text, UrlsOf(items))
<1>1. items \in SUBSET (Item \cup {NoItem})
  BY DEF AnswerInv, TypeOK
<1>2. Kept(text, cleaned, items)
  BY <1>1, CleanedIsKept
<1>3. Claims(cleaned) => Claims(text)
  BY <1>1, UrlsAreUrls, SanitizeKeeps
<1> HIDE DEF cleaned
<1>4. CASE Claims(cleaned) /\ ~\E i \in items : SupportsClaim(cleaned, i, PlaceName)
  <2>1. Ground(text) = Unconfirmed
    BY <1>4 DEF Ground, cleaned
  <2>2. QED BY <1>3, <1>4, <2>1, RefusalIsKept, FixedTexts
<1>5. CASE ~(Claims(cleaned) /\ ~\E i \in items : SupportsClaim(cleaned, i, PlaceName))
  <2>1. Ground(text) = cleaned
    BY <1>5 DEF Ground, cleaned
  <2>2. QED BY <1>2, <1>5, <2>1 DEF SupportsClaim
<1>6. QED BY <1>4, <1>5

LEMMA BestLinkIsOfAMatch ==
    ASSUME AnswerInv
    PROVE  BestLink \in UrlsOf(Matches) \cup {NoUrl}
<1>1. \A when \in When : matched[when].url # NoUrl => matched[when].url \in UrlsOf(Matches)
  <2> SUFFICES ASSUME NEW when \in When, matched[when].url # NoUrl
               PROVE  matched[when].url \in UrlsOf(Matches)
    OBVIOUS
  <2>1. matched[when] # NoItem
    BY DEF NoItem
  <2>2. matched[when] \in Matches
    BY <2>1 DEF Matches, When
  <2>3. QED BY <2>2 DEF UrlsOf
<1>2. QED BY <1>1 DEF BestLink, When

(* Adding a source's link to a kept text.                                   *)
LEMMA LinkedIsKept ==
    ASSUME NEW text \in TextOfAnswer, NEW kept, NEW articles \in SUBSET (Item \cup {NoItem}),
           Kept(text, kept, articles), NEW url \in UrlsOf(articles) \cup {NoUrl},
           NEW result, result = AppendLink(kept, url)
    PROVE  /\ result \in TextOfAnswer
           /\ LinksIn(result) \subseteq UrlsOf(articles)
           /\ LinksIn(result) \subseteq HttpsUrl \cup ({url} \ {NoUrl})
           /\ Claims(result) => Claims(kept)
           /\ result = NoText => \A n \in DOMAIN text : text[n].bare
           /\ Refuses(result) /\ (\A n \in DOMAIN text : Unlinked(text[n]) # Unconfirmed[1]) =>
                 Len(result) = 1 /\ Claims(text)
<1>1. kept \in TextOfAnswer /\ url \in Url \cup {NoUrl}
  BY UrlsAreUrls DEF Kept
<1>2. /\ result \in TextOfAnswer
      /\ LinksIn(result) \subseteq LinksIn(kept) \cup ({url} \ {NoUrl})
      /\ Claims(result) => Claims(kept)
      /\ result = NoText <=> kept = NoText
      /\ kept # NoText => result[1] = kept[1]
      /\ kept = Unconfirmed => result = Unconfirmed
  BY <1>1, AppendKeeps
<1>3. Refuses(result) => Refuses(kept)
  BY <1>2 DEF Refuses
<1>4. QED BY <1>2, <1>3, UnlinkedRefusal DEF Kept

-----------------------------------------------------------------------------
(* Showing an answer.                                                       *)
LEMMA FollowUpIsShown ==
    ASSUME AnswerInv, stage = "finish", stage' = "done",
           mode \in FollowUp \cup Journey, UNCHANGED <<question, evidence, journey, written>>,
           final' = AppendLink(Validate(Condense(written)), BestLink)
    PROVE  final' \in TextOfAnswer /\ Shown'
<1>1. written \in TextOfAnswer /\ written # NoText /\ mode # "broad" /\ mode # "weather"
  BY DEF AnswerInv, TypeOK, FollowUp, Journey
<1>2. PICK n \in DOMAIN written :
         /\ Condense(written) = <<written[n]>>
         /\ \A m \in DOMAIN written : Directness(written[m]) <= Directness(written[n])
  BY <1>1, CondenseKeeps
<1> DEFINE text == <<written[n]>>
<1>3. /\ text \in TextOfAnswer /\ DOMAIN text = {1} /\ text[1] = written[n]
  BY <1>1, <1>2, ShapeOfText DEF TextOfAnswer
<1> HIDE DEF text
<1>4. Matches \in SUBSET (Item \cup {NoItem}) /\ \A i \in Matches : Good(i)
  BY DEF Matches, AnswerInv, TypeOK, When
<1>5. /\ Kept(text, Validate(text), Matches)
      /\ Claims(Validate(text)) /\ Matches # {} =>
            \E i \in Matches : i.impact /\ MentionsPlace(i, PlaceName)
  BY <1>3, ValidateKeeps
<1>6. final' = AppendLink(Validate(text), BestLink)
  BY <1>2 DEF text
<1>7. /\ final' \in TextOfAnswer
      /\ LinksIn(final') \subseteq UrlsOf(Matches)
      /\ Claims(final') => Claims(Validate(text))
      /\ final' = NoText => \A k \in DOMAIN text : text[k].bare
      /\ Refuses(final') /\ (\A k \in DOMAIN text : Unlinked(text[k]) # Unconfirmed[1]) =>
            Len(final') = 1 /\ Claims(text)
  BY <1>3, <1>4, <1>5, <1>6, BestLinkIsOfAMatch, LinkedIsKept
<1>8. Claims(text) => Claims(written)
  BY <1>2, <1>3 DEF Claims
<1>9. Backing' = Matches /\ mode' = mode /\ reference' = reference /\ written' = written
  BY <1>1 DEF Backing, Matches, question, evidence
<1>10. LinksComeFromEvidence'
  <2> SUFFICES ASSUME NEW url \in LinksIn(final')
               PROVE  \E i \in Matches :
                        /\ i.url = url /\ MentionsPlace(i, PlaceName)
                        /\ reference \cap MeaningfulWord # {} => reference \cap i.words # {}
    BY <1>1, <1>9 DEF LinksComeFromEvidence
  <2>1. PICK i \in Matches : i.url = url
    BY <1>7 DEF UrlsOf
  <2>2. QED BY <1>4, <2>1 DEF Good
<1>11. ClaimsAreSupported'
  <2> SUFFICES ASSUME Claims(final'), mode \in FollowUp
               PROVE  \/ \E i \in Matches : i.impact /\ MentionsPlace(i, PlaceName)
                      \/ Matches = {} /\ \A i \in items : ~Related(i)
    BY <1>1, <1>9 DEF ClaimsAreSupported, Matches, Related, evidence
  <2>1. CASE Matches # {}
    BY <1>5, <1>7, <2>1
  <2>2. CASE Matches = {}
    <3>1. matched["current"] = NoItem
      BY <2>2 DEF Matches
    <3>2. QED BY <2>2, <3>1 DEF AnswerInv
  <2>3. QED BY <2>1, <2>2
<1>12. RefusalsStandAlone'
  BY <1>2, <1>3, <1>7, <1>8, <1>9 DEF RefusalsStandAlone, Refuses
<1>13. AnswersAreNotLost'
  <2> SUFFICES ASSUME final' = NoText
               PROVE  written[n].bare
    BY <1>2, <1>9 DEF AnswersAreNotLost
  <2>1. QED BY <1>3, <1>7
<1>14. QED BY <1>7, <1>10, <1>11, <1>12, <1>13 DEF Shown

LEMMA BroadIsShown ==
    ASSUME AnswerInv, stage' = "done", mode = "broad",
           UNCHANGED <<question, evidence, journey, written>>,
           NEW url \in LinkChoices, final' = AppendLink(Ground(written), url)
    PROVE  final' \in TextOfAnswer /\ Shown'
<1>1. written \in TextOfAnswer /\ items \in SUBSET (Item \cup {NoItem}) /\ items \subseteq Item
  BY DEF AnswerInv, TypeOK
<1>2. /\ Kept(written, Ground(written), items)
      /\ Claims(Ground(written)) => \E i \in items : i.impact /\ MentionsPlace(i, PlaceName)
  BY <1>1, GroundKeeps
<1>3. url \in UrlsOf(items) \cup {NoUrl} /\ {url} \ {NoUrl} \subseteq HttpsUrl
  BY DEF LinkChoices
<1>4. /\ final' \in TextOfAnswer
      /\ LinksIn(final') \subseteq UrlsOf(items)
      /\ LinksIn(final') \subseteq HttpsUrl
      /\ Claims(final') => Claims(Ground(written))
      /\ Refuses(final') /\ (\A k \in DOMAIN written : Unlinked(written[k]) # Unconfirmed[1]) =>
            Len(final') = 1 /\ Claims(written)
  <2>1. LinksIn(final') \subseteq HttpsUrl \cup ({url} \ {NoUrl})
    BY <1>1, <1>2, <1>3, LinkedIsKept
  <2>2. QED BY <1>1, <1>2, <1>3, <2>1, LinkedIsKept
<1>5. Backing' = items /\ mode' = mode /\ written' = written
  BY DEF Backing, question, evidence
<1>6. LinksComeFromEvidence'
  BY <1>4, <1>5 DEF LinksComeFromEvidence, UrlsOf
<1>7. ClaimsAreSupported'
  <2>1. items' = items /\ mode' \notin FollowUp
    BY <1>5 DEF evidence, FollowUp
  <2>2. QED BY <1>2, <1>4, <2>1 DEF ClaimsAreSupported
<1>8. RefusalsStandAlone'
  BY <1>4, <1>5 DEF RefusalsStandAlone, Refuses
<1>9. AnswersAreNotLost'
  BY <1>5 DEF AnswersAreNotLost
<1>10. QED BY <1>4, <1>6, <1>7, <1>8, <1>9 DEF Shown

LEMMA WeatherIsShown ==
    ASSUME AnswerInv, stage = "finish", stage' = "done", mode = "weather",
           UNCHANGED <<question, evidence, journey, written>>, final' = Condense(written)
    PROVE  final' \in TextOfAnswer /\ Shown'
<1>1. written \in TextOfAnswer /\ written # NoText
  BY DEF AnswerInv, TypeOK
<1>2. PICK n \in DOMAIN written : Condense(written) = <<written[n]>>
  BY <1>1, CondenseKeeps
<1>3. final' \in TextOfAnswer /\ final' # NoText /\ final'[1] = written[n]
  BY <1>1, <1>2, ShapeOfText DEF TextOfAnswer, NoText
<1>4. mode' = "weather" /\ written' = written
  BY DEF question
<1>5. RefusalsStandAlone'
  BY <1>3, <1>4, UnlinkedRefusal DEF RefusalsStandAlone
<1>6. QED BY <1>3, <1>4, <1>5
          DEF Shown, LinksComeFromEvidence, ClaimsAreSupported, AnswersAreNotLost, FollowUp

LEMMA CannedIsShown ==
    ASSUME AnswerInv, stage' = "done", stage = "gather", mode \in {"news", "weather"},
           UNCHANGED <<question, evidence, journey, written>>, final' = Canned
    PROVE  final' \in TextOfAnswer /\ Shown'
<1>1. LinksIn(final') = {} /\ ~Claims(final') /\ final' # NoText /\ final'[1] # Unconfirmed[1]
  BY FixedTexts
<1>2. QED BY <1>1, FixedTexts
          DEF Shown, LinksComeFromEvidence, ClaimsAreSupported, RefusalsStandAlone, AnswersAreNotLost

LEMMA FinishingKeepsAnswerInv ==
    ASSUME AnswerInv, Planned, NewsUnavailable \/ GatherWeather \/ Finish
    PROVE  AnswerInv' /\ Shown' /\ Planned'
<1>1. /\ stage \in {"gather", "finish"} /\ stage' \in {"reason", "done"}
      /\ UNCHANGED <<question, evidence, journey, written>>
  BY DEF NewsUnavailable, GatherWeather, Finish
<1>2. final' \in TextOfAnswer /\ Shown'
  <2>1. CASE NewsUnavailable
    BY <1>1, <2>1, CannedIsShown DEF NewsUnavailable
  <2>2. CASE GatherWeather
    <3>1. CASE stage' = "reason" /\ UNCHANGED final
      BY <3>1, NothingShownYet DEF AnswerInv, TypeOK
    <3>2. CASE stage' = "done" /\ final' = Canned
      BY <1>1, <2>2, <3>2, CannedIsShown DEF GatherWeather
    <3>3. QED BY <2>2, <3>1, <3>2 DEF GatherWeather
  <2>3. CASE Finish
    BY <1>1, <2>3, FollowUpIsShown, BroadIsShown, WeatherIsShown DEF Finish
  <2>4. QED BY <2>1, <2>2, <2>3
<1>3. TypeOK'
  BY <1>1, <1>2 DEF AnswerInv, TypeOK, Stage, question, evidence, journey
<1>4. AnswerInv'
  BY <1>1, <1>3 DEF AnswerInv, Good, Related, question, evidence, journey
<1>5. QED BY <1>1, <1>2, <1>4, PlanUnchanged

LEMMA StutteringKeepsAnswerInv ==
    ASSUME AnswerInv, Shown, Planned, UNCHANGED vars
    PROVE  AnswerInv' /\ Shown' /\ Planned'
<1>1. AnswerInv'
  BY DEF AnswerInv, TypeOK, Good, Related, vars, question, evidence, journey
<1>2. Shown'
  BY DEF Shown, LinksComeFromEvidence, ClaimsAreSupported, RefusalsStandAlone, AnswersAreNotLost,
         Backing, Matches, Related, vars, question, evidence, journey
<1>3. QED BY <1>1, <1>2, PlanUnchanged DEF vars

LEMMA AnswerInvHolds == Spec => [](AnswerInv /\ Shown /\ Planned)
<1>1. Init => AnswerInv /\ Shown /\ Planned
  BY AnswerStarts
<1>2. AnswerInv /\ Shown /\ Planned /\ [Next]_vars => (AnswerInv /\ Shown /\ Planned)'
  <2> SUFFICES ASSUME AnswerInv, Shown, Planned, [Next]_vars
               PROVE  AnswerInv' /\ Shown' /\ Planned'
    OBVIOUS
  <2>1. CASE GatherNews \/ CallTools \/ GatherJourney
    BY <2>1, GatheringKeepsAnswerInv
  <2>2. CASE PlanJourney
    BY <2>2, PlanningKeepsAnswerInv
  <2>3. CASE Search
    BY <2>3, SearchingKeepsAnswerInv
  <2>4. CASE PlannerAnswers \/ PlannerSearches \/ Reason \/ AnsweringFails
    BY <2>4, WritingKeepsAnswerInv
  <2>5. CASE NewsUnavailable \/ GatherWeather \/ Finish
    BY <2>5, FinishingKeepsAnswerInv
  <2>6. CASE UNCHANGED vars
    BY <2>6, StutteringKeepsAnswerInv
  <2>7. QED BY <2>1, <2>2, <2>3, <2>4, <2>5, <2>6 DEF Next
<1>3. QED BY <1>1, <1>2, PTL DEF Spec

-----------------------------------------------------------------------------
(* followup_qa.py, the whole answer: evidence, plan and text keep their     *)
(* types, whatever providers and model return.                              *)
THEOREM AnswerIsTyped == Spec => []TypeOK
<1>1. AnswerInv => TypeOK
  BY DEF AnswerInv
<1>2. QED BY <1>1, AnswerInvHolds, PTL

(* _validate_news_answer and _ground_final_answer: every address shown is   *)
(* one of an article the answer rests on.                                   *)
THEOREM LinksAlwaysComeFromEvidence == Spec => []LinksComeFromEvidence
<1>1. Shown => LinksComeFromEvidence
  BY DEF Shown
<1>2. QED BY <1>1, AnswerInvHolds, PTL

(* _validate_news_answer and _ground_final_answer: a claim of high impact   *)
(* is shown only if an article about the place makes one, a follow-up with  *)
(* no related article apart.                                                *)
THEOREM ClaimsAreAlwaysSupported == Spec => []ClaimsAreSupported
<1>1. Shown => ClaimsAreSupported
  BY DEF Shown
<1>2. QED BY <1>1, AnswerInvHolds, PTL

(* _append_followup_link_if_needed and the grounding of a broad answer: a   *)
(* refusal stands alone and stands only for a text that made a claim.       *)
THEOREM RefusalsAlwaysStandAlone == Spec => []RefusalsStandAlone
<1>1. Shown => RefusalsStandAlone
  BY DEF Shown
<1>2. QED BY <1>1, AnswerInvHolds, PTL

(* _condense_direct_answer and sanitize_answer_links: when nothing is left  *)
(* to show, nothing but an address had been the most direct sentence.       *)
THEOREM AnswersAreNeverLost == Spec => []AnswersAreNotLost
<1>1. Shown => AnswersAreNotLost
  BY DEF Shown
<1>2. QED BY <1>1, AnswerInvHolds, PTL

(* plan_route: for any list of profiles and any replies.                    *)
THEOREM BestRouteIsAlwaysFastest == Spec => []BestRouteIsFastest
<1>1. Planned => BestRouteIsFastest
  BY DEF Planned
<1>2. QED BY <1>1, AnswerInvHolds, PTL

(* _build_transport_guidance: blocked roads, long roads and no roads reach  *)
(* the answer; only blocked roads without a plan can be passed over.        *)
THEOREM DisruptionsAlwaysReachGuidance == Spec => []DisruptionsReachGuidance
<1>1. Planned => DisruptionsReachGuidance
  BY DEF Planned
<1>2. QED BY <1>1, AnswerInvHolds, PTL
=============================================================================
