--------------------------- MODULE MCConversation ---------------------------
(***************************************************************************)
(* Small sessions for TLC.  A question is a short name for a message below,*)
(* and its features are what the matchers of agent_policy.py return for    *)
(* that message; likewise for the answers.                                 *)
(***************************************************************************)
EXTENDS ConversationRequirements, TLC

Message == [
    transpo |-> {"journey", "route", "refers"},
                            \* "So what is the best transpo to get there?"
    from    |-> {"phrase", "location", "short"},              \* "I am from Manila"
    town    |-> {"location", "short"},                        \* "Manila"
    drive   |-> {"phrase", "journey", "route"},
                            \* "Which route from Manila to Baguio by car"
    explain |-> {"short", "refers", "unclear"},               \* "How does that affect it?"
    rain    |-> {"short", "weather", "refers"},               \* "Will it rain tomorrow?"
    safe    |-> {"short", "brief"},                           \* "Is Cebu safe"
    still   |-> {"short", "continues"}]                       \* "Still so until Friday?"

LanguageModelText == [
    plain  |-> {},                     \* "Fine for travel."
    stormy |-> {"weather"},            \* "Expect storms over the strait."
    strike |-> {"news", "claims"}]     \* "A ferry strike closed the port."

MCFeature == [q \in Question |->
    [f \in {"phrase", "location", "short", "journey", "route", "trip", "brief",
            "weather", "news", "refers", "unclear", "continues"} |-> f \in Message[q]]]
MCAnswerFeature == [a \in Answer |->
    [f \in {"asks", "weather", "news", "claims"} |-> f \in LanguageModelText[a]]]

NoOverlap == {}
SafeStormy == {<<"safe", "stormy">>}
PlaceSymmetry == Permutations(Place)
=============================================================================
