--------------------------- MODULE ProviderPayloads ---------------------------
(***************************************************************************)
(* What the provider adapters (llm/providers/) make of an HTTP response:   *)
(* the text of the answer, or the class of the error they raise.  A body   *)
(* is a JSON value; Python's subscripts raise when they do not fit it.     *)
(*                                                                         *)
(* The Groq and the Mistral adapter are the same but for names.            *)
(***************************************************************************)
EXTENDS Naturals, Sequences

-----------------------------------------------------------------------------
\* JSON values, and what Python does with them

Text == [kind |-> "str", empty |-> FALSE]
EmptyText == [kind |-> "str", empty |-> TRUE]
Null == [kind |-> "null"]
One == [kind |-> "number", zero |-> FALSE]
Zero == [kind |-> "number", zero |-> TRUE]
List(items) == [kind |-> "list", items |-> items]
Dict(at) == [kind |-> "dict", at |-> at]
EmptyDict == Dict(<<>>)

\* A body that is no JSON at all, and one nested too deeply for the decoder.
NotJson == [kind |-> "invalid"]
TooDeep == [kind |-> "deep"]

\* What a subscript is when it raises.
Raises(exception) == [kind |-> "raised", exception |-> exception]
Raised(v) == v.kind = "raised"

Truthy(v) == v \notin {EmptyText, Null, Zero, List(<<>>), EmptyDict}

\* v[name]
Field(v, name) ==
  CASE Raised(v) -> v
    [] v.kind = "dict" -> IF name \in DOMAIN v.at THEN v.at[name] ELSE Raises("KeyError")
    [] OTHER -> Raises("TypeError")

\* v[0]
First(v) ==
  CASE Raised(v) -> v
    [] v.kind = "list" -> IF v.items = <<>> THEN Raises("IndexError") ELSE v.items[1]
    [] v.kind = "str" -> IF v.empty THEN Raises("IndexError") ELSE v
    [] v.kind = "dict" -> Raises("KeyError")
    [] OTHER -> Raises("TypeError")

-----------------------------------------------------------------------------
\* The adapters

\* The classes of llm/errors.py.
ProviderErrors == {"Error", "Timeout", "RateLimit", "Authentication", "Unavailable",
                   "Response"}

\* Groq and Mistral: the content of a body's first choice.
ChatContent(body) ==
  LET choices == Field(body, "choices")
      some == choices.kind = "list" /\ choices # List(<<>>)
  IN  IF Raised(choices) \/ some
      THEN Field(Field(First(choices), "message"), "content")
      ELSE Raises("Response")

\* Gemini: the text of the first part of a body's first candidate.
GeminiContent(body) ==
  LET candidates == Field(body, "candidates")
      parts == Field(Field(First(candidates), "content"), "parts")
  IN  IF ~Truthy(candidates) \/ ~Truthy(parts)
      THEN Raises("Response")
      ELSE Field(First(parts), "text")

Content(provider, body) ==
  IF provider = "gemini" THEN GeminiContent(body) ELSE ChatContent(body)

\* Mutants of Caught and ParseError: an exception the handler does not name;
\* content that is not checked.
CaughtButTypeError == {"KeyError", "IndexError"}

\* The exceptions of a subscript that become a response error.
Caught == {"KeyError", "IndexError", "TypeError"}

ParseErrorUnchecked(content) ==
  IF Raised(content)
  THEN IF content.exception \in Caught THEN "Response" ELSE content.exception
  ELSE "none"

\* What is raised for what was found in place of the content, if anything.
ParseError(content) ==
  IF Raised(content)
  THEN IF content.exception \in Caught THEN "Response" ELSE content.exception
  ELSE IF content.kind = "str" THEN "none" ELSE "Response"

\* _raise_for_status
StatusError(status) ==
  CASE status \in {401, 403} -> "Authentication"
    [] status = 429 -> "RateLimit"
    [] status \in {500, 502, 503, 504} -> "Unavailable"
    [] status >= 400 /\ status \notin {401, 403, 429, 500, 502, 503, 504} -> "Error"
    [] OTHER -> "none"

\* How generate() ends when the response arrives.  json() raises ValueError for
\* a body that it cannot decode, and for one that is nested too deeply a
\* RecursionError, which no handler names.
Outcome(provider, response) ==
  LET status == StatusError(response.status)
      parsed == IF response.body = NotJson THEN "Response"
                ELSE IF response.body = TooDeep THEN "RecursionError"
                ELSE ParseError(Content(provider, response.body))
  IN  IF status # "none" THEN status
      ELSE IF parsed # "none" THEN parsed ELSE "content"

-----------------------------------------------------------------------------
\* The bodies a provider may send

Misfits == {Text, EmptyText, Null, One, Zero, List(<<>>), EmptyDict}

Within(name, values) == {Dict([n \in {name} |-> v]) : v \in values} \cup Misfits
Listed(values) == {List(<<v>>) : v \in values} \cup Misfits

\* Every body that departs from the provider's format at one level, or nowhere.
Bodies(provider) ==
  IF provider = "gemini"
  THEN Within("candidates", Listed(Within("content",
         Within("parts", Listed(Within("text", Misfits))))))
  ELSE Within("choices", Listed(Within("message", Within("content", Misfits))))

\* The bodies in the provider's format that hold a text.
Answers(provider) ==
  LET in(name, v) == Dict([n \in {name} |-> v])
      holding(t) == IF provider = "gemini"
                    THEN in("candidates", List(<<in("content",
                           in("parts", List(<<in("text", t)>>)))>>))
                    ELSE in("choices", List(<<in("message", in("content", t))>>))
  IN  {holding(t) : t \in {Text, EmptyText}}
=============================================================================
