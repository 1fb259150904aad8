---------------------------- MODULE NewsRelevance ----------------------------
(***************************************************************************)
(* What news is about, and what an answer may repeat of it                 *)
(* (src/app/news/news_relevance.py).                                       *)
(*                                                                         *)
(* A text is the set of its words.  Which words there are, which of them   *)
(* meaningful_tokens keeps, and which items a provider can return, are     *)
(* constants; `impact' says that title or snippet has a high-impact term.  *)
(***************************************************************************)
EXTENDS Naturals, FiniteSets, Sequences

CONSTANTS
    Word,
    MeaningfulWord,  \* words of four letters and more that are no stop words
    CitySuffix,      \* "city", "municipality", "town"
    Url, HttpsUrl, NoUrl,
    Item             \* the news items a provider may return

Transport == {"road", "flight", "ferry"}

ASSUME NewsAssumption ==
    /\ CitySuffix \subseteq Word /\ MeaningfulWord \subseteq Word
    /\ HttpsUrl \subseteq Url /\ NoUrl \notin Url
    /\ Item \subseteq [words: SUBSET Word, impact: BOOLEAN, url: Url \cup {NoUrl},
                       age: Nat, blocks: SUBSET Transport]
    /\ IsFiniteSet(Item)

(* The whole name, the name without its suffix, or two words of a long name.*)
MentionsPlace(item, place) ==
    LET reduced == place \ CitySuffix
    IN  /\ place # {}
        /\ \/ place \subseteq item.words
           \/ reduced # {} /\ reduced \subseteq item.words
           \/ Cardinality(reduced) >= 3 /\ Cardinality(reduced \cap item.words) >= 2

FilterRelevant(items, place) == {i \in items : MentionsPlace(i, place)}

(* A text of an answer is a sequence of sentences: does it make a claim of  *)
(* high impact, which addresses does it give, is it nothing but one of them,*)
(* and do the patterns of _condense_direct_answer find it generic or direct.*)
Sentence == [claims: BOOLEAN, links: SUBSET Url, bare: BOOLEAN,
             generic: BOOLEAN, direct: BOOLEAN]
TextOfAnswer == Seq(Sentence)

Claims(text) == \E n \in DOMAIN text : text[n].claims
LinksIn(text) == UNION {text[n].links : n \in DOMAIN text}

SupportsClaimAnywhere(text, item, place) == Claims(text) => item.impact   \* mutant
SupportsClaim(text, item, place) ==
    MentionsPlace(item, place) /\ (Claims(text) => item.impact)

(* Links that are not allowed, or not https, disappear.  A text that was one*)
(* address and nothing else is empty then; of several, what stood between   *)
(* them is left.                                                            *)
Vanishes(sentence) == sentence.bare /\ sentence.links = {}
Sanitize(text, allowed) ==
    LET cleaned == [n \in DOMAIN text |->
                      [text[n] EXCEPT !.links = @ \cap allowed \cap HttpsUrl]]
    IN  IF Len(cleaned) = 1 /\ Vanishes(cleaned[1]) THEN <<>> ELSE cleaned

UrlsOf(items) == {i.url : i \in items} \ {NoUrl}
=============================================================================
