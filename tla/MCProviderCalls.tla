--------------------------- MODULE MCProviderCalls ---------------------------
(* Provider calls with two requests, one connection and short timeouts. *)
EXTENDS ProviderCalls

Blank == Plain("")
Spaces == [Blank EXCEPT !.spaces = "around"]
Shouted(word) == [Plain(word) EXCEPT !.letters = "capital"]
Padded(entry) == [entry EXCEPT !.spaces = "around"]

MCConfigs == { <<>>,
               <<Spaces>>,
               <<Plain("mistral"), Blank, Padded(Shouted("gemini"))>>,
               <<Shouted("groq"), Plain("fake"), Padded(Plain("groq"))>>,
               <<Plain("fake"), Plain("azure")>> }

AllGiven == [p \in HttpProviders |-> "given"]
MCApiKeys == {AllGiven,
              [AllGiven EXCEPT !["gemini"] = "blank"],
              [AllGiven EXCEPT !["groq"] = "absent"]}
=============================================================================
