----------------------------- MODULE MC_Requests -----------------------------
\* Requests for TLC: one to three, whose prompts share their first block
\* (MCPrompt) or two blocks (MCPromptLong) or, speculating, nothing at all
\* (MCPromptShort, MCPromptDrafts), for blocks of two tokens.

MCReqs1 == {1}
MCReqs2 == {1, 2}
MCReqs3 == {1, 2, 3}

MCPrompt == << <<1, 1, 1, 1>>, <<1, 1, 2>>, <<1, 1, 1, 1, 1>> >>
MCPromptLong == << <<1, 1, 1, 1, 1>>, <<1, 1, 1, 1, 2>> >>
MCPromptShort == << <<1>>, <<3>>, <<1>> >>
MCPromptDrafts == << <<1, 1>>, <<3>> >>

\* Prompts with two images each, the second of which follows the first at once
\* or is the same in both (MCImages: where they are)
MCPromptImages == << <<1, 4, 4, 5, 5>>, <<1, 4, 4, 1, 6, 6>> >>
MCImages == << <<[offset |-> 1, length |-> 2], [offset |-> 3, length |-> 2]>>,
               <<[offset |-> 1, length |-> 2], [offset |-> 4, length |-> 2]>> >>
MCNoImages == << << >>, << >>, << >> >>

MCMaxTokens == <<3, 3, 2>>
MCMaxTokensLong == <<5, 5, 5>>

\* One value per request: no LoRA and no extra hash keys; two adapters
MCNone == <<0, 0, 0>>
MCTwoLoras == <<1, 2, 1>>
=============================================================================
