------------------------- MODULE ProviderCallsProofs -------------------------
(***************************************************************************)
(* For any number of requests, every configuration and pool, all timeouts  *)
(* and all timings: no call is refused by a closed pool, the gateway's     *)
(* timeout comes before the client's, the calls are those of one abstract  *)
(* shared pool, a response is an answer exactly when it has the provider's *)
(* format, and the chain is what was configured.                           *)
(***************************************************************************)
EXTENDS ProviderCalls, FiniteSetTheorems, SequenceTheorems, WellFoundedInduction, TLAPS

-----------------------------------------------------------------------------
\* What the adapters raise

\* What a subscript may be when it raises.
Exceptions == {Raises(e) : e \in Caught}

LEMMA MisfitKinds ==
  \A v \in Misfits : ~Raised(v) /\ v.kind \in {"str", "null", "number", "list", "dict"}
BY DEF Misfits, Raised, Text, EmptyText, Null, One, Zero, List, EmptyDict, Dict

\* A field of a value that departs from the format at one level.
LEMMA FieldWithin ==
  ASSUME NEW name, NEW values, NEW v \in Within(name, values) \cup Exceptions
  PROVE  Field(v, name) \in values \cup Exceptions
<1>1. CASE v \in Exceptions
  BY <1>1 DEF Exceptions, Raises, Raised, Field
<1>2. ASSUME NEW w \in values, v = Dict([n \in {name} |-> w])
      PROVE  Field(v, name) = w
  <2>1. ~Raised(v) /\ v.kind = "dict" /\ v.at = [n \in {name} |-> w]
    BY <1>2 DEF Dict, Raised
  <2> QED
    BY <2>1 DEF Field
<1>3. CASE v = EmptyDict
  <2>1. ~Raised(v) /\ v.kind = "dict" /\ v.at = <<>> /\ name \notin DOMAIN v.at
    BY <1>3 DEF EmptyDict, Dict, Raised
  <2>2. Field(v, name) = Raises("KeyError")
    BY <2>1 DEF Field
  <2> QED
    BY <2>2 DEF Exceptions, Caught
<1>4. CASE v \in {Text, EmptyText, Null, One, Zero, List(<<>>)}
  <2>1. ~Raised(v) /\ v.kind # "dict"
    BY <1>4 DEF Text, EmptyText, Null, One, Zero, List, Raised
  <2>2. Field(v, name) = Raises("TypeError")
    BY <2>1 DEF Field
  <2> QED
    BY <2>2 DEF Exceptions, Caught
<1> QED
  BY <1>1, <1>2, <1>3, <1>4 DEF Within, Misfits

\* The first element of such a value.
LEMMA FirstListed ==
  ASSUME NEW values, NEW v \in Listed(values) \cup Exceptions
  PROVE  First(v) \in values \cup {Text} \cup Exceptions
<1>1. CASE v \in Exceptions
  BY <1>1 DEF Exceptions, Raises, Raised, First
<1>2. ASSUME NEW w \in values, v = List(<<w>>)
      PROVE  First(v) = w
  <2>1. ~Raised(v) /\ v.kind = "list" /\ v.items = <<w>> /\ <<w>> # <<>> /\ <<w>>[1] = w
    BY <1>2 DEF List, Raised
  <2> QED
    BY <2>1 DEF First
<1>3. CASE v \in Misfits
  BY <1>3 DEF Misfits, Text, EmptyText, Null, One, Zero, List, EmptyDict, Dict,
              Raised, First, Exceptions, Caught
<1> QED
  BY <1>1, <1>2, <1>3 DEF Listed

\* A text has no fields.
LEMMA FieldOfText == \A name : Field(Text, name) \in Exceptions
BY DEF Field, Text, Raised, Exceptions, Caught

\* What is found in place of the content.
LEMMA ContentKinds ==
  ASSUME NEW provider, NEW body \in Bodies(provider)
  PROVE  Content(provider, body) \in Misfits \cup Exceptions \cup {Raises("Response")}
<1>1. CASE provider = "gemini"
  <2> DEFINE text == Within("text", Misfits)
             parts == Within("parts", Listed(text))
             content == Within("content", parts)
             v1 == Field(body, "candidates")
             v2 == First(v1)
             v3 == Field(v2, "content")
             v4 == Field(v3, "parts")
             v5 == First(v4)
  <2>1. body \in Within("candidates", Listed(content))
    BY <1>1 DEF Bodies
  <2> HIDE DEF text, parts, content
  <2>2. v1 \in Listed(content) \cup Exceptions
    BY <2>1, FieldWithin
  <2> HIDE DEF v1
  <2>3. v2 \in content \cup {Text} \cup Exceptions
    BY <2>2, FirstListed
  <2> HIDE DEF v2
  <2>4. v3 \in parts \cup Exceptions
    BY <2>3, FieldWithin, FieldOfText DEF content
  <2> HIDE DEF v3
  <2>5. v4 \in Listed(text) \cup Exceptions
    BY <2>4, FieldWithin DEF parts
  <2> HIDE DEF v4
  <2>6. v5 \in text \cup {Text} \cup Exceptions
    BY <2>5, FirstListed
  <2> HIDE DEF v5
  <2>7. Field(v5, "text") \in Misfits \cup Exceptions
    BY <2>6, FieldWithin, FieldOfText DEF text
  <2>8. Content(provider, body) \in {Raises("Response"), Field(v5, "text")}
    BY <1>1 DEF Content, GeminiContent, v1, v2, v3, v4, v5
  <2> QED
    BY <2>7, <2>8
<1>2. CASE provider # "gemini"
  <2> DEFINE message == Within("message", Within("content", Misfits))
             v1 == Field(body, "choices")
             v2 == First(v1)
             v3 == Field(v2, "message")
  <2>1. body \in Within("choices", Listed(message))
    BY <1>2 DEF Bodies
  <2> HIDE DEF message
  <2>2. v1 \in Listed(message) \cup Exceptions
    BY <2>1, FieldWithin
  <2> HIDE DEF v1
  <2>3. v2 \in message \cup {Text} \cup Exceptions
    BY <2>2, FirstListed
  <2> HIDE DEF v2
  <2>4. v3 \in Within("content", Misfits) \cup Exceptions
    BY <2>3, FieldWithin, FieldOfText DEF message
  <2> HIDE DEF v3
  <2>5. Field(v3, "content") \in Misfits \cup Exceptions
    BY <2>4, FieldWithin, FieldOfText
  <2>6. Content(provider, body) \in {Raises("Response"), Field(v3, "content")}
    BY <1>2 DEF Content, ChatContent, v1, v2, v3
  <2> QED
    BY <2>5, <2>6
<1> QED
  BY <1>1, <1>2

\* Whatever a provider answers, the call ends with a content or with an error
\* that says something about the answer, or for one that is nested too deeply with
\* the decoder's: never as if there had been none.
LEMMA RespondedOutcome ==
  ASSUME NEW provider, NEW received \in Responses(provider)
  PROVE  Outcome(provider, received)
           \in {"content", "Error", "RateLimit", "Authentication", "Unavailable", "Response"}
                \cup (IF received.body = TooDeep THEN {"RecursionError"} ELSE {})
<1>1. StatusError(received.status)
        \in {"none", "Authentication", "RateLimit", "Unavailable", "Error"}
  BY DEF StatusError
<1>2. received.body \in {NotJson, TooDeep} \cup Bodies(provider) /\ NotJson # TooDeep
  BY DEF Responses, NotJson, TooDeep
<1>3. ASSUME NEW content \in Misfits \cup Exceptions \cup {Raises("Response")}
      PROVE  ParseError(content) \in {"none", "Response"}
  <2>1. CASE content \in Misfits
    BY <2>1, MisfitKinds DEF ParseError
  <2>2. CASE content \in Exceptions
    <3>1. Raised(content) /\ content.exception \in Caught
      BY <2>2 DEF Exceptions, Raises, Raised
    <3> QED
      BY <3>1 DEF ParseError
  <2>3. CASE content = Raises("Response")
    <3>1. Raised(content) /\ content.exception = "Response"
      BY <2>3 DEF Raises, Raised
    <3> QED
      BY <3>1 DEF ParseError
  <2> QED
    BY <2>1, <2>2, <2>3
<1> DEFINE status == StatusError(received.status)
           error == ParseError(Content(provider, received.body))
<1>4. received.body \notin {NotJson, TooDeep} => error \in {"none", "Response"}
  BY <1>2, <1>3, ContentKinds
<1> HIDE DEF status
<1>5. /\ status # "none" => Outcome(provider, received) = status
      /\ status = "none" /\ received.body = NotJson => Outcome(provider, received) = "Response"
      /\ status = "none" /\ received.body = TooDeep =>
           Outcome(provider, received) = "RecursionError"
      /\ status = "none" /\ received.body \notin {NotJson, TooDeep} =>
           Outcome(provider, received) = IF error # "none" THEN error ELSE "content"
  BY <1>2 DEF Outcome, status
<1> HIDE DEF error
<1> QED
  BY <1>1, <1>4, <1>5 DEF status

-----------------------------------------------------------------------------
\* The calls

\* What every state satisfies: the pool is closed only when the application
\* is, and then no request is left; no call has ended as if it were not so, and
\* none by the client's own timeout.
CallsInv ==
  /\ TypeOK
  /\ closed => phase = "closed"
  /\ phase = "closed" => \A r \in Requests : pc[r] \in {"new", "ended"}
  /\ \A r \in Requests : opAge[r] <= age[r] /\ outcome[r] \notin {"RuntimeError", "Timeout"}

Sent == {r \in Requests : pc[r] = "sent"}

\* A connection is taken by one request at a time, and only while one is free.
LEMMA SentBounded ==
  ASSUME TypeOK,
         \/ Sent' \subseteq Sent
         \/ Cardinality(Sent) < MaxConnections /\ \E r \in Requests : Sent' \subseteq Sent \cup {r}
  PROVE  Cardinality(Sent') <= MaxConnections
<1>1. IsFiniteSet(Sent) /\ Cardinality(Sent) \in Nat /\ MaxConnections \in Nat
      /\ Cardinality(Sent) <= MaxConnections
  BY CallsAssumption, FS_Subset, FS_CardinalityType DEF Sent, TypeOK
<1>2. CASE Sent' \subseteq Sent
  <2>1. Cardinality(Sent') <= Cardinality(Sent) /\ Cardinality(Sent') \in Nat
    BY <1>1, <1>2, FS_Subset, FS_CardinalityType
  <2> QED
    BY <1>1, <2>1
<1>3. ASSUME NEW r \in Requests, Cardinality(Sent) < MaxConnections,
             Sent' \subseteq Sent \cup {r}
      PROVE  Cardinality(Sent') <= MaxConnections
  <2>1. /\ IsFiniteSet(Sent \cup {r})
        /\ Cardinality(Sent \cup {r}) \in {Cardinality(Sent), Cardinality(Sent) + 1}
    BY <1>1, FS_AddElement
  <2>2. Cardinality(Sent') <= Cardinality(Sent \cup {r}) /\ Cardinality(Sent') \in Nat
    BY <1>3, <2>1, FS_Subset, FS_CardinalityType
  <2> QED
    BY <1>1, <1>3, <2>1, <2>2
<1> QED
  BY <1>2, <1>3

\* A call that ends gives its connection back.
LEMMA EndsStep ==
  ASSUME CallsInv, NEW r \in Requests, pc[r] \in CallingPC, NEW how \in Outcomes,
         how \notin {"RuntimeError", "Timeout"}, EndsWith(r, how), DOMAIN response' = Requests
  PROVE  CallsInv'
<1>1. Sent' \subseteq Sent
  BY DEF CallsInv, TypeOK, EndsWith, Sent
<1>2. Cardinality(Sent') <= MaxConnections
  BY <1>1, SentBounded DEF CallsInv
<1>3. phase' = phase /\ closed' = closed /\ phase # "closed"
  BY DEF CallsInv, EndsWith, app, CallingPC
<1>4. /\ config' \in Configs /\ keys' \in ApiKeys /\ started' \in BOOLEAN /\ closed' \in BOOLEAN
      /\ phase' \in {"starting", "failed", "serving", "draining", "closed"}
      /\ ToSet(chain') \subseteq Supported
      /\ target' \in [Requests -> Supported] /\ calls' \in [Requests -> 0..MaxCalls]
      /\ pc' \in [Requests -> {"new", "ready", "ended"} \cup CallingPC]
      /\ outcome' \in [Requests -> Outcomes]
  BY DEF CallsInv, TypeOK, EndsWith, app
<1>5. /\ age' \in [Requests -> 0..RequestTimeout] /\ opAge' \in [Requests -> 0..RequestTimeout]
      /\ \A q \in Requests : opAge'[q] <= age'[q] /\ outcome'[q] \notin {"RuntimeError", "Timeout"}
  <2>1. RequestTimeout \in Nat \ {0} /\ 0 \in 0..RequestTimeout
    BY CallsAssumption
  <2> QED
    BY <2>1 DEF CallsInv, TypeOK, EndsWith
<1>6. TypeOK'
  BY <1>2, <1>4, <1>5 DEF TypeOK, Sent
<1> QED
  BY <1>3, <1>5, <1>6 DEF CallsInv

\* A step of a request that only moves it, or its current HTTP operation, on.
LEMMA QuietStep ==
  ASSUME CallsInv, UNCHANGED <<config, keys, phase, chain, started, closed, target, calls, age>>,
         pc' \in [Requests -> {"new", "ready", "ended"} \cup CallingPC], outcome' = outcome,
         DOMAIN response' = Requests, opAge' \in [Requests -> 0..RequestTimeout],
         \A q \in Requests : opAge'[q] <= age[q],
         phase = "closed" => \A r \in Requests : pc'[r] \in {"new", "ended"},
         Cardinality(Sent') <= MaxConnections
  PROVE  CallsInv'
<1>1. TypeOK'
  BY DEF CallsInv, TypeOK, Sent
<1> QED
  BY <1>1 DEF CallsInv

\* A call that begins finds the pool open.
LEMMA CallStep ==
  ASSUME CallsInv, NEW r \in Requests, Call(r)
  PROVE  CallsInv'
<1>1. /\ pc[r] = "ready" /\ calls[r] < MaxCalls /\ ~closed /\ phase # "closed"
      /\ UNCHANGED <<config, keys, phase, chain, closed, age, opAge>>
  BY DEF CallsInv, Call
<1>2. PICK name \in ToSet(chain) :
        /\ target' = [target EXCEPT ![r] = name]
        /\ started' \in {started, TRUE}
        /\ \E s \in {"ready", "waiting"} : pc' = [pc EXCEPT ![r] = s]
        /\ \E o \in {"content", "none"} : outcome' = [outcome EXCEPT ![r] = o]
  <2>1. PICK name \in ToSet(chain) :
       /\ target' = [target EXCEPT ![r] = name]
       /\ IF AnswersAtOnce(name) THEN UNCHANGED started ELSE StartPool
       /\ pc' = [pc EXCEPT ![r] = IF AnswersAtOnce(name) \/ closed THEN @ ELSE "waiting"]
       /\ outcome' = [outcome EXCEPT ![r] = IF AnswersAtOnce(name) THEN "content"
                                            ELSE IF closed THEN "RuntimeError" ELSE "none"]
    BY DEF Call
  <2>2. started' \in {started, TRUE}
    BY <2>1 DEF StartPool
  <2>3. CASE AnswersAtOnce(name)
    BY <1>1, <2>1, <2>2, <2>3
  <2>4. CASE ~AnswersAtOnce(name)
    BY <1>1, <2>1, <2>2, <2>4
  <2> QED
    BY <2>3, <2>4
<1>3. Sent' \subseteq Sent
  BY <1>2 DEF Sent, CallsInv, TypeOK
<1>4. Cardinality(Sent') <= MaxConnections
  BY <1>3, SentBounded DEF CallsInv
<1>5. calls' \in [Requests -> 0..MaxCalls] /\ DOMAIN response' = Requests
  <2>1. /\ calls' = [calls EXCEPT ![r] = @ + 1]
        /\ response' = [response EXCEPT ![r] = NoResponse]
    BY DEF Call
  <2>2. calls[r] \in 0..MaxCalls /\ MaxCalls \in Nat /\ calls \in [Requests -> 0..MaxCalls]
        /\ DOMAIN response = Requests
    BY CallsAssumption DEF CallsInv, TypeOK
  <2>3. calls[r] + 1 \in 0..MaxCalls
    BY <1>1, <2>2
  <2> QED
    BY <2>1, <2>2, <2>3
<1>6. /\ target' \in [Requests -> Supported]
      /\ pc' \in [Requests -> {"new", "ready", "ended"} \cup CallingPC]
      /\ outcome' \in [Requests -> Outcomes] /\ started' \in BOOLEAN
      /\ \A q \in Requests : outcome'[q] \notin {"RuntimeError", "Timeout"}
  <2>1. name \in Supported /\ target' \in [Requests -> Supported] /\ started' \in BOOLEAN
    BY <1>2 DEF CallsInv, TypeOK
  <2>2. pc' \in [Requests -> {"new", "ready", "ended"} \cup CallingPC]
    BY <1>2 DEF CallsInv, TypeOK, CallingPC
  <2>3. PICK o \in {"content", "none"} : outcome' = [outcome EXCEPT ![r] = o]
    BY <1>2
  <2>4. o \in Outcomes /\ o \notin {"RuntimeError", "Timeout"}
    BY DEF Outcomes
  <2>5. /\ outcome' \in [Requests -> Outcomes]
        /\ \A q \in Requests : outcome'[q] \notin {"RuntimeError", "Timeout"}
    BY <2>3, <2>4 DEF CallsInv, TypeOK
  <2> QED
    BY <2>1, <2>2, <2>5
<1>7. TypeOK'
  <2>1. /\ config' \in Configs /\ keys' \in ApiKeys /\ closed' \in BOOLEAN
        /\ phase' \in {"starting", "failed", "serving", "draining", "closed"}
        /\ ToSet(chain') \subseteq Supported
        /\ age' \in [Requests -> 0..RequestTimeout] /\ opAge' \in [Requests -> 0..RequestTimeout]
    BY <1>1 DEF CallsInv, TypeOK
  <2>2. Cardinality({q \in Requests : pc'[q] = "sent"}) <= MaxConnections
    BY <1>4 DEF Sent
  <2> QED
    BY <1>5, <1>6, <2>1, <2>2 DEF TypeOK
<1>8. \A q \in Requests : opAge'[q] <= age'[q]
  BY <1>1 DEF CallsInv
<1> QED
  BY <1>1, <1>6, <1>7, <1>8 DEF CallsInv

\* No step of a request, of whatever kind, breaks it.
LEMMA RequestsStep ==
  ASSUME CallsInv, NEW r \in Requests, RequestStep(r)
  PROVE  CallsInv'
<1> USE DEF app, call
<1>1. CASE Arrive(r)
  <2>1. Sent' \subseteq Sent /\ phase # "closed"
    BY <1>1 DEF Arrive, Sent, CallsInv, TypeOK
  <2>2. Cardinality(Sent') <= MaxConnections
    BY <2>1, SentBounded DEF CallsInv
  <2> QED
    BY <1>1, <2>1, <2>2, QuietStep DEF Arrive, CallsInv, TypeOK
<1>2. CASE Connect(r)
  <2>1. Sent' \subseteq Sent \cup {r} /\ phase # "closed" /\ Cardinality(Sent) < MaxConnections
    BY <1>2 DEF Connect, Sent, CallsInv, TypeOK, CallingPC
  <2>2. Cardinality(Sent') <= MaxConnections
    BY <2>1, SentBounded DEF CallsInv
  <2>3. opAge' \in [Requests -> 0..RequestTimeout] /\ \A q \in Requests : opAge'[q] <= age[q]
    BY <1>2, CallsAssumption DEF Connect, CallsInv, TypeOK
  <2>4. pc' \in [Requests -> {"new", "ready", "ended"} \cup CallingPC]
    BY <1>2 DEF Connect, CallsInv, TypeOK, CallingPC
  <2> QED
    BY <1>2, <2>1, <2>2, <2>3, <2>4, QuietStep DEF Connect, CallsInv, TypeOK
<1>3. CASE Proceed(r)
  <2>1. Sent' \subseteq Sent /\ pc' = pc
    BY <1>3 DEF Proceed, Sent
  <2>2. Cardinality(Sent') <= MaxConnections
    BY <2>1, SentBounded DEF CallsInv
  <2>3. opAge' \in [Requests -> 0..RequestTimeout] /\ \A q \in Requests : opAge'[q] <= age[q]
    BY <1>3, CallsAssumption DEF Proceed, CallsInv, TypeOK
  <2> QED
    BY <1>3, <2>1, <2>2, <2>3, QuietStep DEF Proceed, CallsInv, TypeOK
<1>4. CASE Finish(r)
  <2>1. Sent' \subseteq Sent /\ phase # "closed"
    BY <1>4 DEF Finish, Sent, CallsInv, TypeOK
  <2>2. Cardinality(Sent') <= MaxConnections
    BY <2>1, SentBounded DEF CallsInv
  <2> QED
    BY <1>4, <2>1, <2>2, QuietStep DEF Finish, CallsInv, TypeOK
<1>5. CASE Respond(r)
  <2>1. PICK received \in Responses(target[r]) :
          /\ EndsWith(r, Outcome(target[r], received))
          /\ response' = [response EXCEPT ![r] = received]
    BY <1>5 DEF Respond
  <2>2. Outcome(target[r], received)
          \in {"content", "Error", "RateLimit", "Authentication", "Unavailable", "Response",
               "RecursionError"}
    BY RespondedOutcome
  <2>3. pc[r] \in CallingPC /\ DOMAIN response' = Requests
    BY <1>5, <2>1 DEF Respond, CallingPC, CallsInv, TypeOK
  <2> HIDE DEF app, call
  <2> QED
    BY <2>1, <2>2, <2>3, EndsStep DEF Outcomes, Unhandled, ProviderErrors
<1>6. CASE NetworkFails(r)
  BY <1>6, EndsStep DEF NetworkFails, Outcomes, ProviderErrors, CallingPC, CallsInv, TypeOK
<1>7. CASE TimesOut(r)
  <2>1. /\ pc[r] \in CallingPC /\ response' = response
        /\ age[r] = RequestTimeout \/ opAge[r] = RequestTimeout
        /\ EndsWith(r, IF age[r] = RequestTimeout THEN "TimeoutError" ELSE "Timeout")
    BY <1>7 DEF TimesOut, PoolTimeout
  <2>2. age[r] = RequestTimeout
    <3>1. age[r] \in 0..RequestTimeout /\ opAge[r] \in 0..RequestTimeout /\ opAge[r] <= age[r]
          /\ RequestTimeout \in Nat
      BY CallsAssumption DEF CallsInv, TypeOK
    <3> QED
      BY <2>1, <3>1
  <2>3. EndsWith(r, "TimeoutError")
    BY <2>1, <2>2
  <2> QED
    BY <2>1, <2>3, EndsStep DEF Outcomes, CallsInv, TypeOK
<1> QED
  BY <1>1, <1>2, <1>3, <1>4, <1>5, <1>6, <1>7, CallStep DEF RequestStep

\* The application's steps and the clock's.
LEMMA AppStep ==
  ASSUME CallsInv, Startup \/ Drain \/ Close \/ Tick
  PROVE  CallsInv'
<1> USE DEF call
<1>1. CASE Startup
  <2>1. /\ UNCHANGED <<config, keys, closed, pc, target, calls, age, opAge, outcome, response>>
        /\ phase = "starting" /\ phase' \in {"failed", "serving"} /\ started' = TRUE
    BY <1>1 DEF Startup, StartPool
  <2>2. ToSet(chain') \subseteq Supported
    <3>1. ASSUME chain' = Built(ProviderNames),
                 \A n \in ToSet(ProviderNames) : ~Refused(n)
          PROVE  ToSet(chain') \subseteq Supported
      <4>1. \A i \in DOMAIN ProviderNames : ProviderNames[i].word \in Supported
        BY <3>1 DEF ToSet, Refused, Plain
      <4> QED
        BY <3>1, <4>1 DEF Built, ToSet
    <3> QED
      BY <1>1, <3>1 DEF Startup, CallsInv, TypeOK
  <2>3. TypeOK'
    BY <2>1, <2>2 DEF CallsInv, TypeOK
  <2>4. ~closed
    BY <2>1 DEF CallsInv
  <2> QED
    BY <2>1, <2>3, <2>4 DEF CallsInv
<1>2. CASE Drain
  <2>1. UNCHANGED <<config, keys, chain, started, closed, pc, target, calls, age, opAge,
                    outcome, response>> /\ phase' = "draining" /\ phase = "serving"
    BY <1>2 DEF Drain
  <2>2. TypeOK'
    BY <2>1 DEF CallsInv, TypeOK
  <2> QED
    BY <2>1, <2>2 DEF CallsInv
<1>3. CASE Close
  <2>1. /\ UNCHANGED <<config, keys, chain, pc, target, calls, age, opAge, outcome, response>>
        /\ phase' = "closed" /\ started' = FALSE /\ closed' = TRUE
        /\ \A r \in Requests : pc[r] \in {"new", "ended"}
    BY <1>3 DEF Close, ClosePool
  <2>2. TypeOK'
    BY <2>1 DEF CallsInv, TypeOK
  <2> QED
    BY <2>1, <2>2 DEF CallsInv
<1>4. CASE Tick
  <2>1. /\ UNCHANGED <<config, keys, phase, chain, started, closed, pc, target, calls,
                       outcome, response>>
        /\ age' = [r \in Requests |-> IF r \in Calling THEN age[r] + 1 ELSE age[r]]
        /\ opAge' = [r \in Requests |-> IF r \in Calling THEN opAge[r] + 1 ELSE opAge[r]]
        /\ \A r \in Calling : age[r] < RequestTimeout
    BY <1>4 DEF Tick, app
  <2>2. /\ RequestTimeout \in Nat
        /\ \A r \in Requests : /\ age[r] \in 0..RequestTimeout /\ opAge[r] \in 0..RequestTimeout
                               /\ opAge[r] <= age[r]
    BY CallsAssumption DEF CallsInv, TypeOK
  <2>3. ASSUME NEW r \in Requests
        PROVE  /\ age'[r] \in 0..RequestTimeout /\ opAge'[r] \in 0..RequestTimeout
               /\ opAge'[r] <= age'[r]
    <3>1. CASE r \in Calling
      BY <2>1, <2>2, <3>1
    <3>2. CASE r \notin Calling
      BY <2>1, <2>2, <3>2
    <3> QED
      BY <3>1, <3>2
  <2>4. age' \in [Requests -> 0..RequestTimeout] /\ opAge' \in [Requests -> 0..RequestTimeout]
    BY <2>1, <2>3
  <2>5. TypeOK'
    BY <2>1, <2>4 DEF CallsInv, TypeOK
  <2> QED
    BY <2>1, <2>3, <2>5 DEF CallsInv
<1> QED
  BY <1>1, <1>2, <1>3, <1>4

\* The application starts well.
LEMMA CallsStart == Init => CallsInv
<1> SUFFICES ASSUME Init
             PROVE  CallsInv
  OBVIOUS
<1>1. {r \in Requests : pc[r] = "sent"} = {} /\ 0 <= MaxConnections
  BY CallsAssumption DEF Init
<1>2. Cardinality({r \in Requests : pc[r] = "sent"}) <= MaxConnections
  BY <1>1, FS_EmptySet
<1>3. chain = <<>> /\ ToSet(<<>>) \subseteq Supported
  BY DEF Init, ToSet
<1>4. 0 \in 0..RequestTimeout /\ 0 \in 0..MaxCalls /\ "fake" \in Supported /\ "none" \in Outcomes
  BY CallsAssumption DEF Supported, Outcomes
<1>5. /\ calls \in [Requests -> 0..MaxCalls] /\ target \in [Requests -> Supported]
      /\ age \in [Requests -> 0..RequestTimeout] /\ opAge \in [Requests -> 0..RequestTimeout]
      /\ outcome \in [Requests -> Outcomes] /\ DOMAIN response = Requests
      /\ pc \in [Requests -> {"new", "ready", "ended"} \cup CallingPC]
  BY <1>4 DEF Init
<1>6. TypeOK
  BY <1>2, <1>3, <1>5 DEF Init, TypeOK
<1>7. \A r \in Requests : opAge[r] <= age[r] /\ outcome[r] \notin {"RuntimeError", "Timeout"}
  BY DEF Init
<1> QED
  BY <1>6, <1>7 DEF Init, CallsInv

\* The invariant holds always.
THEOREM CallsInvariant == Spec => []CallsInv
<1>1. Init => CallsInv
  BY CallsStart
<1>2. CallsInv /\ [Next]_vars => CallsInv'
  <2> SUFFICES ASSUME CallsInv, [Next]_vars
               PROVE  CallsInv'
    OBVIOUS
  <2>1. CASE Next
    BY <2>1, AppStep, RequestsStep DEF Next
  <2>2. CASE UNCHANGED vars
    BY <2>2 DEF vars, app, call, CallsInv, TypeOK
  <2> QED
    BY <2>1, <2>2
<1> QED
  BY <1>1, <1>2, PTL DEF Spec

\* Every variable always has its type, and never are more connections in use
\* than the pool has.
THEOREM CallsTypes == Spec => []TypeOK
<1>1. CallsInv => TypeOK
  BY DEF CallsInv
<1> QED
  BY <1>1, CallsInvariant, PTL

\* No call is ever made through a pool that has been closed: the lifespan
\* closes it only when no request is left.
THEOREM PoolOutlivesCalls == Spec => []NoCallRefused
<1>1. CallsInv => NoCallRefused
  BY DEF CallsInv, NoCallRefused
<1> QED
  BY <1>1, CallsInvariant, PTL

\* The client's own timeout never ends a call, however its operations follow
\* one another: no operation is older than the call.
THEOREM GatewayTimesOutFirst == Spec => []ClientTimeoutNotFirst
<1>1. CallsInv => ClientTimeoutNotFirst
  BY DEF CallsInv, ClientTimeoutNotFirst
<1> QED
  BY <1>1, CallsInvariant, PTL

-----------------------------------------------------------------------------
\* The refinement of the shared pool

\* The abstract pool's variables, as the state shows them.
State == IF closed THEN "closed" ELSE IF started THEN "open" ELSE "unopened"
Place == [r \in Requests |-> IF pc[r] = "waiting" THEN "queued"
                             ELSE IF pc[r] = "sent" THEN "connected"
                             ELSE "outside"]
Served == {r \in Requests : response[r] # NoResponse}

\* The pool is open from the startup to the end, and nobody comes before.
PoolInv ==
  /\ CallsInv
  /\ phase = "closed" => closed
  /\ phase = "starting" => ~started
  /\ phase \notin {"starting", "closed"} => started
  /\ phase = "starting" => \A r \in Requests : pc[r] = "new"

THEOREM PoolInvariant == Spec => []PoolInv
<1>1. Init => PoolInv
  <2>1. Init => CallsInv
    BY CallsStart
  <2> QED
    BY <2>1 DEF Init, PoolInv
<1>2. PoolInv /\ CallsInv' /\ [Next]_vars => PoolInv'
  <2> SUFFICES ASSUME PoolInv, CallsInv', [Next]_vars
               PROVE  PoolInv'
    OBVIOUS
  <2> USE DEF PoolInv
  <2>1. CASE Startup
    BY <2>1 DEF Startup, StartPool
  <2>2. CASE Drain
    BY <2>2 DEF Drain
  <2>3. CASE Close
    BY <2>3 DEF Close, ClosePool
  <2>4. ASSUME NEW r \in Requests, RequestStep(r)
        PROVE  PoolInv'
    <3>1. /\ phase # "starting" /\ phase' = phase /\ closed' = closed
          /\ started => started'
      <4>1. CASE Arrive(r)
        BY <4>1 DEF Arrive, app
      <4>2. CASE Call(r)
        BY <4>2 DEF Call, StartPool
      <4>3. CASE Connect(r) \/ Proceed(r) \/ Finish(r)
        BY <4>3 DEF Connect, Proceed, Finish, app
      <4>4. CASE Respond(r) \/ NetworkFails(r) \/ TimesOut(r)
        BY <4>4 DEF Respond, NetworkFails, TimesOut, EndsWith, app, CallingPC
      <4> QED
        BY <2>4, <4>1, <4>2, <4>3, <4>4 DEF RequestStep
    <3> QED
      BY <3>1
  <2>5. CASE Tick \/ UNCHANGED vars
    BY <2>5 DEF Tick, vars, app
  <2> QED
    BY <2>1, <2>2, <2>3, <2>4, <2>5 DEF Next
<1> QED
  BY <1>1, <1>2, CallsInvariant, PTL DEF Spec

\* The abstract pool's view of a step that does not touch the pool's state.
LEMMA PoolOpen ==
  ASSUME PoolInv, NEW r \in Requests, pc[r] \notin {"new", "ended"}
  PROVE  ~closed /\ started /\ State = "open"
  BY DEF PoolInv, CallsInv, State

\* A call that ends leaves its place, having been served or not.
LEMMA EndsRefines ==
  ASSUME PoolInv, NEW r \in Requests, NEW how, EndsWith(r, how), pc[r] \in CallingPC
  PROVE  /\ State' = State
         /\ Place' = [Place EXCEPT ![r] = "outside"]
         /\ Place[r] # "outside"
<1>1. pc \in [Requests -> {"new", "ready", "ended"} \cup CallingPC]
  BY DEF PoolInv, CallsInv, TypeOK
<1>2. pc' = [pc EXCEPT ![r] = "ready"] /\ closed' = closed /\ started' = started
  BY DEF EndsWith, app
<1> QED
  BY <1>1, <1>2 DEF State, Place, CallingPC

\* Every step of a request is a step of the abstract pool, or none.
LEMMA RequestRefinesPool ==
  ASSUME PoolInv, NEW r \in Requests, RequestStep(r)
  PROVE  [Pool!Next]_Pool!vars
<1> USE DEF State, Place, Served
<1>t. /\ pc \in [Requests -> {"new", "ready", "ended"} \cup CallingPC]
      /\ DOMAIN response = Requests /\ pc[r] \in {"new", "ready", "ended"} \cup CallingPC
  BY DEF PoolInv, CallsInv, TypeOK
<1>1. CASE Arrive(r) \/ Proceed(r)
  <2>1. State' = State /\ Place' = Place /\ Served' = Served
    BY <1>1, <1>t DEF Arrive, Proceed, app
  <2> QED
    BY <2>1 DEF Pool!vars
<1>2. CASE Connect(r)
  <2>1. /\ State' = State /\ Served' = Served
        /\ Place' = [Place EXCEPT ![r] = "connected"] /\ Place[r] = "queued"
    BY <1>2, <1>t DEF Connect, app
  <2>2. {u \in Requests : Place[u] = "connected"} = {q \in Requests : pc[q] = "sent"}
    OBVIOUS
  <2>3. Cardinality({u \in Requests : Place[u] = "connected"}) < MaxConnections
    BY <1>2, <2>2 DEF Connect
  <2>4. Pool!Connect(r)
    BY <2>1, <2>3 DEF Pool!Connect, Pool!Connected, Pool!Cardinality, Cardinality
  <2> QED
    BY <2>4 DEF Pool!Next
<1>3. CASE Respond(r)
  <2>1. PICK received \in Responses(target[r]) :
          /\ EndsWith(r, Outcome(target[r], received))
          /\ response' = [response EXCEPT ![r] = received]
    BY <1>3 DEF Respond
  <2>2. pc[r] = "sent" /\ Place[r] = "connected"
    BY <1>3 DEF Respond
  <2>3. State' = State /\ Place' = [Place EXCEPT ![r] = "outside"]
    BY <2>1, <2>2, EndsRefines DEF CallingPC
  <2>4. received # NoResponse
    <3>1. received.status \in Statuses
      BY DEF Responses
    <3> QED
      BY <3>1, CallsAssumption DEF NoResponse
  <2>5. Served' = Served \cup {r}
    BY <1>t, <2>1, <2>4
  <2>6. Pool!Receive(r)
    BY <2>2, <2>3, <2>5 DEF Pool!Receive
  <2> QED
    BY <2>6 DEF Pool!Next
<1>4. CASE NetworkFails(r) \/ TimesOut(r)
  <2>1. PICK how : EndsWith(r, how) /\ pc[r] \in CallingPC /\ response' = response
    BY <1>4 DEF NetworkFails, TimesOut, CallingPC
  <2>2. State' = State /\ Place' = [Place EXCEPT ![r] = "outside"] /\ Place[r] # "outside"
    BY <2>1, EndsRefines
  <2>3. Served' = Served
    BY <2>1
  <2>4. Pool!GiveUp(r)
    BY <2>2, <2>3 DEF Pool!GiveUp
  <2> QED
    BY <2>4 DEF Pool!Next
<1>5. CASE Finish(r)
  <2>1. State' = State /\ Place' = Place /\ Place[r] = "outside"
    BY <1>5, <1>t DEF Finish, app
  <2>2. Served' = Served \ {r}
    BY <1>5, <1>t DEF Finish
  <2>3. Pool!Forget(r)
    BY <2>1, <2>2 DEF Pool!Forget
  <2> QED
    BY <2>3 DEF Pool!Next
<1>6. CASE Call(r)
  <2>1. /\ pc[r] = "ready" /\ ~closed /\ started /\ State = "open" /\ Place[r] = "outside"
        /\ closed' = closed /\ response' = [response EXCEPT ![r] = NoResponse]
    BY <1>6, PoolOpen DEF Call
  <2>2. started' = TRUE /\ \E s \in {"ready", "waiting"} : pc' = [pc EXCEPT ![r] = s]
    BY <1>6, <2>1 DEF Call, StartPool
  <2>3. State' = State /\ Served' = Served \ {r}
    BY <1>t, <2>1, <2>2
  <2>4. CASE pc' = [pc EXCEPT ![r] = "ready"]
    <3>1. Place' = Place
      BY <1>t, <2>1, <2>4
    <3>2. Pool!Forget(r)
      BY <2>1, <2>3, <3>1 DEF Pool!Forget
    <3> QED
      BY <3>2 DEF Pool!Next
  <2>5. CASE pc' = [pc EXCEPT ![r] = "waiting"]
    <3>1. Place' = [Place EXCEPT ![r] = "queued"]
      BY <1>t, <2>1, <2>5
    <3>2. Pool!Enter(r)
      BY <2>1, <2>3, <3>1 DEF Pool!Enter
    <3> QED
      BY <3>2 DEF Pool!Next
  <2> QED
    BY <2>2, <2>4, <2>5
<1> QED
  BY <1>1, <1>2, <1>3, <1>4, <1>5, <1>6 DEF RequestStep

\* The pool that the adapters share is opened once, is never used by more calls
\* than it has connections, and is closed once, with no call in it; for any
\* number of requests and connections and all timings.
THEOREM CallsImplementSharedPool == Spec => ImplementsSharedPool
<1>1. Init => Pool!Init
  BY DEF Init, Pool!Init
<1>2. PoolInv /\ [Next]_vars => [Pool!Next]_Pool!vars
  <2> SUFFICES ASSUME PoolInv, [Next]_vars
               PROVE  [Pool!Next]_Pool!vars
    OBVIOUS
  <2> USE DEF State, Place, Served
  <2>1. CASE Startup
    <3>1. State = "unopened" /\ State' = "open" /\ Place' = Place /\ Served' = Served
      BY <2>1 DEF Startup, StartPool, PoolInv, CallsInv
    <3>2. Pool!Open
      BY <3>1 DEF Pool!Open
    <3> QED
      BY <3>2 DEF Pool!Next
  <2>2. CASE Close
    <3>1. /\ State = "open" /\ State' = "closed" /\ Place' = Place /\ Served' = Served
          /\ \A r \in Requests : Place[r] = "outside"
      BY <2>2 DEF Close, ClosePool, PoolInv, CallsInv
    <3>2. Pool!Close
      BY <3>1 DEF Pool!Close
    <3> QED
      BY <3>2 DEF Pool!Next
  <2>3. CASE Drain \/ Tick \/ UNCHANGED vars
    <3>1. State' = State /\ Place' = Place /\ Served' = Served
      BY <2>3 DEF Drain, Tick, vars, app
    <3> QED
      BY <3>1 DEF Pool!vars
  <2> QED
    BY <2>1, <2>2, <2>3, RequestRefinesPool DEF Next
<1> QED
  BY <1>1, <1>2, PoolInvariant, PTL DEF Spec, ImplementsSharedPool, Pool!Spec

-----------------------------------------------------------------------------
\* Which responses are answers

\* A field without an exception is that of a value in the format.
LEMMA FieldFound ==
  ASSUME NEW name, NEW values, NEW v \in Within(name, values) \cup Exceptions
  PROVE  Field(v, name) \in Exceptions \/ v = Dict([n \in {name} |-> Field(v, name)])
<1>1. CASE v \in Exceptions
  BY <1>1 DEF Exceptions, Raises, Raised, Field
<1>2. ASSUME NEW w \in values, v = Dict([n \in {name} |-> w])
      PROVE  v = Dict([n \in {name} |-> Field(v, name)])
  <2>1. ~Raised(v) /\ v.kind = "dict" /\ v.at = [n \in {name} |-> w]
    BY <1>2 DEF Dict, Raised
  <2>2. Field(v, name) = w
    BY <2>1 DEF Field
  <2> QED
    BY <1>2, <2>2
<1>3. CASE v = EmptyDict
  <2>1. ~Raised(v) /\ v.kind = "dict" /\ v.at = <<>> /\ name \notin DOMAIN v.at
    BY <1>3 DEF EmptyDict, Dict, Raised
  <2>2. Field(v, name) = Raises("KeyError")
    BY <2>1 DEF Field
  <2> QED
    BY <2>2 DEF Exceptions, Caught
<1>4. CASE v \in {Text, EmptyText, Null, One, Zero, List(<<>>)}
  <2>1. ~Raised(v) /\ v.kind # "dict"
    BY <1>4 DEF Text, EmptyText, Null, One, Zero, List, Raised
  <2>2. Field(v, name) = Raises("TypeError")
    BY <2>1 DEF Field
  <2> QED
    BY <2>2 DEF Exceptions, Caught
<1> QED
  BY <1>1, <1>2, <1>3, <1>4 DEF Within, Misfits

\* A first element that is a dictionary is that of a list.
LEMMA FirstFound ==
  ASSUME NEW values, NEW v \in Listed(values) \cup Exceptions, NEW at, First(v) = Dict(at)
  PROVE  v = List(<<First(v)>>)
<1>1. \A e : Dict(at) # Raises(e) /\ Dict(at) # Text /\ Dict(at).kind = "dict"
  BY DEF Dict, Raises, Text
<1>2. v \notin Exceptions
  BY <1>1 DEF Exceptions, Raises, Raised, First, Dict
<1>3. v \notin Misfits
  <2>1. v \in Misfits => First(v) \in {Text} \cup {Raises(e) : e \in Caught}
    BY DEF Misfits, Text, EmptyText, Null, One, Zero, List, EmptyDict, Dict,
           Raised, First, Caught
  <2> QED
    BY <1>1, <2>1
<1>4. ASSUME NEW w \in values, v = List(<<w>>)
      PROVE  v = List(<<First(v)>>)
  <2>1. ~Raised(v) /\ v.kind = "list" /\ v.items = <<w>> /\ <<w>> # <<>> /\ <<w>>[1] = w
    BY <1>4 DEF List, Raised
  <2>2. First(v) = w
    BY <2>1 DEF First
  <2> QED
    BY <1>4, <2>2
<1> QED
  BY <1>2, <1>3, <1>4 DEF Listed

\* The subscripts of a value in the format.
LEMMA FieldOfDict == \A name, w : Field(Dict([n \in {name} |-> w]), name) = w
BY DEF Field, Dict, Raised

LEMMA FirstOfList == \A w : First(List(<<w>>)) = w
BY DEF First, List, Raised

\* A content is found in the bodies in the format that hold a text, only.
LEMMA AnswersParsed ==
  ASSUME NEW provider, NEW body \in Bodies(provider)
  PROVE  Content(provider, body) \in {Text, EmptyText} <=> body \in Answers(provider)
<1> DEFINE in(name, v) == Dict([n \in {name} |-> v])
<1>t. \A t \in {Text, EmptyText} : t \notin Exceptions /\ t # Raises("Response")
  BY DEF Text, EmptyText, Exceptions, Raises
<1>1. CASE provider # "gemini"
  <2> DEFINE message == Within("message", Within("content", Misfits))
             v1 == Field(body, "choices")
             v2 == First(v1)
             v3 == Field(v2, "message")
             v4 == Field(v3, "content")
             answer(t) == in("choices", List(<<in("message", in("content", t))>>))
  <2>0. Answers(provider) = {answer(t) : t \in {Text, EmptyText}}
    BY <1>1 DEF Answers
  <2>1. ASSUME NEW t \in {Text, EmptyText}, body = answer(t)
        PROVE  Content(provider, body) = t
    <3>1. v1 = List(<<in("message", in("content", t))>>)
      BY <2>1, FieldOfDict
    <3>2. v2 = in("message", in("content", t))
      BY <3>1, FirstOfList
    <3>3. v3 = in("content", t)
      BY <3>2, FieldOfDict
    <3>4. v4 = t
      BY <3>3, FieldOfDict
    <3>5. ~Raised(v1) /\ v1.kind = "list" /\ v1 # List(<<>>)
      BY <3>1 DEF List, Raised
    <3>6. Content(provider, body) = v4
      BY <1>1, <3>5 DEF Content, ChatContent
    <3> QED
      BY <3>4, <3>6
  <2>2. ASSUME NEW t \in {Text, EmptyText}, Content(provider, body) = t
        PROVE  body = answer(t)
    <3>0. body \in Within("choices", Listed(message))
      BY <1>1 DEF Bodies
    <3>1. v4 = t
      BY <1>1, <1>t, <2>2 DEF Content, ChatContent
    <3> HIDE DEF message
    <3>2. v1 \in Listed(message) \cup Exceptions
      BY <3>0, FieldWithin
    <3>3. v1 \in Exceptions \/ body = in("choices", v1)
      BY <3>0, FieldFound
    <3> HIDE DEF v1
    <3>4. v2 \in message \cup {Text} \cup Exceptions
      BY <3>2, FirstListed
    <3>5. \A at : v2 = Dict(at) => v1 = List(<<v2>>)
      BY <3>2, FirstFound
    <3> HIDE DEF v2
    <3>6. v3 \in Within("content", Misfits) \cup Exceptions
      BY <3>4, FieldWithin, FieldOfText DEF message
    <3>7. v3 \in Exceptions \/ v2 = in("message", v3)
      <4>1. CASE v2 \in message \cup Exceptions
        BY <4>1, FieldFound DEF message
      <4>2. CASE v2 = Text
        BY <4>2, FieldOfText
      <4> QED
        BY <3>4, <4>1, <4>2
    <3> HIDE DEF v3
    <3>8. v3 = in("content", t)
      BY <1>t, <3>1, <3>6, FieldFound
    <3>9. \A at : Dict(at) \notin Exceptions /\ \A w : List(<<w>>) \notin Exceptions
      BY DEF Dict, List, Exceptions, Raises
    <3>10. v2 = in("message", v3)
      BY <3>7, <3>8, <3>9
    <3>11. v1 = List(<<v2>>)
      BY <3>5, <3>10
    <3>12. body = in("choices", v1)
      BY <3>3, <3>9, <3>11
    <3> QED
      BY <3>8, <3>10, <3>11, <3>12
  <2> QED
    BY <2>0, <2>1, <2>2
<1>2. CASE provider = "gemini"
  <2> DEFINE text == Within("text", Misfits)
             parts == Within("parts", Listed(text))
             content == Within("content", parts)
             v1 == Field(body, "candidates")
             v2 == First(v1)
             v3 == Field(v2, "content")
             v4 == Field(v3, "parts")
             v5 == First(v4)
             v6 == Field(v5, "text")
             held(t) == in("content", in("parts", List(<<in("text", t)>>)))
             answer(t) == in("candidates", List(<<held(t)>>))
  <2>0. Answers(provider) = {answer(t) : t \in {Text, EmptyText}}
    BY <1>2 DEF Answers
  <2>1. ASSUME NEW t \in {Text, EmptyText}, body = answer(t)
        PROVE  Content(provider, body) = t
    <3>1. v1 = List(<<held(t)>>)
      BY <2>1, FieldOfDict
    <3>2. v2 = held(t)
      BY <3>1, FirstOfList
    <3>3. v3 = in("parts", List(<<in("text", t)>>))
      BY <3>2, FieldOfDict
    <3>4. v4 = List(<<in("text", t)>>)
      BY <3>3, FieldOfDict
    <3>5. v5 = in("text", t)
      BY <3>4, FirstOfList
    <3>6. v6 = t
      BY <3>5, FieldOfDict
    <3>7. \A w : Truthy(List(<<w>>))
      BY DEF Truthy, List, EmptyText, Null, Zero, EmptyDict, Dict
    <3>8. Content(provider, body) = v6
      BY <1>2, <3>1, <3>4, <3>7 DEF Content, GeminiContent
    <3> QED
      BY <3>6, <3>8
  <2>2. ASSUME NEW t \in {Text, EmptyText}, Content(provider, body) = t
        PROVE  body = answer(t)
    <3>0. body \in Within("candidates", Listed(content))
      BY <1>2 DEF Bodies
    <3>1. v6 = t
      BY <1>2, <1>t, <2>2 DEF Content, GeminiContent
    <3>9. \A at : Dict(at) \notin Exceptions /\ \A w : List(<<w>>) \notin Exceptions
      BY DEF Dict, List, Exceptions, Raises
    <3> HIDE DEF text, parts, content
    <3>2. v1 \in Listed(content) \cup Exceptions
      BY <3>0, FieldWithin
    <3>3. v1 \in Exceptions \/ body = in("candidates", v1)
      BY <3>0, FieldFound
    <3> HIDE DEF v1
    <3>4. v2 \in content \cup {Text} \cup Exceptions
      BY <3>2, FirstListed
    <3>5. \A at : v2 = Dict(at) => v1 = List(<<v2>>)
      BY <3>2, FirstFound
    <3> HIDE DEF v2
    <3>6. v3 \in parts \cup Exceptions
      BY <3>4, FieldWithin, FieldOfText DEF content
    <3>7. v3 \in Exceptions \/ v2 = in("content", v3)
      <4>1. CASE v2 \in content \cup Exceptions
        BY <4>1, FieldFound DEF content
      <4>2. CASE v2 = Text
        BY <4>2, FieldOfText
      <4> QED
        BY <3>4, <4>1, <4>2
    <3> HIDE DEF v3
    <3>8. v4 \in Listed(text) \cup Exceptions
      BY <3>6, FieldWithin DEF parts
    <3>10. v4 \in Exceptions \/ v3 = in("parts", v4)
      BY <3>6, FieldFound DEF parts
    <3> HIDE DEF v4
    <3>11. v5 \in text \cup {Text} \cup Exceptions
      BY <3>8, FirstListed
    <3>12. \A at : v5 = Dict(at) => v4 = List(<<v5>>)
      BY <3>8, FirstFound
    <3> HIDE DEF v5
    <3>13. v5 = in("text", t)
      <4>1. CASE v5 \in text \cup Exceptions
        BY <1>t, <3>1, <4>1, FieldFound DEF text
      <4>2. CASE v5 = Text
        BY <1>t, <3>1, <4>2, FieldOfText
      <4> QED
        BY <3>11, <4>1, <4>2
    <3>14. v4 = List(<<v5>>)
      BY <3>12, <3>13
    <3>15. v3 = in("parts", v4)
      BY <3>9, <3>10, <3>14
    <3>16. v2 = in("content", v3)
      BY <3>7, <3>9, <3>15
    <3>17. v1 = List(<<v2>>)
      BY <3>5, <3>16
    <3>18. body = in("candidates", v1)
      BY <3>3, <3>9, <3>17
    <3> QED
      BY <3>13, <3>14, <3>15, <3>16, <3>17, <3>18
  <2> QED
    BY <2>0, <2>1, <2>2
<1> QED
  BY <1>1, <1>2

\* A response ends its call as its status and its body say.
Judged(provider, received, how) ==
  /\ how = "content" <=> received.status < 400 /\ received.body \in Answers(provider)
  /\ received.body # TooDeep => how \in ProviderErrors \cup {"content"}

LEMMA RespondedJudged ==
  ASSUME NEW provider, NEW received \in Responses(provider)
  PROVE  Judged(provider, received, Outcome(provider, received))
<1> DEFINE status == StatusError(received.status)
           error == ParseError(Content(provider, received.body))
           how == Outcome(provider, received)
<1>1. received.body # TooDeep => how \in ProviderErrors \cup {"content"}
  BY RespondedOutcome DEF ProviderErrors
<1>2. /\ received.status \in Nat
      /\ \/ received.body = NotJson
         \/ received.status < 400 /\ received.body \in Bodies(provider) \cup {TooDeep}
      /\ NotJson # TooDeep
  <2>1. CASE \E s \in Statuses : received = [status |-> s, body |-> NotJson]
    BY <2>1, CallsAssumption DEF NotJson, TooDeep
  <2>2. CASE \E s \in {s \in Statuses : s < 400}, b \in Bodies(provider) \cup {TooDeep} :
               received = [status |-> s, body |-> b]
    BY <2>2, CallsAssumption DEF NotJson, TooDeep
  <2> QED
    BY <2>1, <2>2 DEF Responses
<1>3. (status = "none" <=> received.status < 400) /\ status # "content"
  BY <1>2 DEF StatusError
<1>4. NotJson \notin Answers(provider) /\ TooDeep \notin Answers(provider)
  BY DEF Answers, NotJson, TooDeep, Dict
<1> HIDE DEF status
<1>5. /\ status # "none" => how = status
      /\ status = "none" /\ received.body = NotJson => how = "Response"
      /\ status = "none" /\ received.body = TooDeep => how = "RecursionError"
      /\ status = "none" /\ received.body \notin {NotJson, TooDeep} =>
           how = IF error # "none" THEN error ELSE "content"
  BY <1>2 DEF Outcome, status
<1>6. ASSUME received.body \in Bodies(provider)
      PROVE  error # "content" /\ (error = "none" <=> received.body \in Answers(provider))
  <2> DEFINE content == Content(provider, received.body)
  <2>1. content \in Misfits \cup Exceptions \cup {Raises("Response")}
    BY <1>6, ContentKinds
  <2>2. content \in {Text, EmptyText} <=> received.body \in Answers(provider)
    BY <1>6, AnswersParsed
  <2> HIDE DEF content
  <2>3. ParseError(content) # "content" /\ (ParseError(content) = "none" <=> content \in {Text, EmptyText})
    <3>1. CASE content \in Misfits
      <4>1. content \in {Text, EmptyText} <=> content.kind = "str"
        BY <3>1 DEF Misfits, Text, EmptyText, Null, One, Zero, List, EmptyDict, Dict
      <4> QED
        BY <3>1, <4>1, MisfitKinds DEF ParseError
    <3>2. CASE content \in Exceptions
      <4>1. Raised(content) /\ content.exception \in Caught /\ content \notin {Text, EmptyText}
        BY <3>2 DEF Exceptions, Raises, Raised, Text, EmptyText
      <4> QED
        BY <4>1 DEF ParseError
    <3>3. CASE content = Raises("Response")
      <4>1. Raised(content) /\ content.exception = "Response" /\ content \notin {Text, EmptyText}
        BY <3>3 DEF Raises, Raised, Text, EmptyText
      <4> QED
        BY <4>1 DEF ParseError
    <3> QED
      BY <2>1, <3>1, <3>2, <3>3
  <2> QED
    BY <2>2, <2>3 DEF content
<1> HIDE DEF error, how
<1>7. how = "content" <=> received.status < 400 /\ received.body \in Answers(provider)
  <2>1. CASE received.body \in {NotJson, TooDeep}
    BY <1>3, <1>4, <1>5, <2>1
  <2>2. CASE received.body \notin {NotJson, TooDeep}
    BY <1>2, <1>3, <1>5, <1>6, <2>2
  <2> QED
    BY <2>1, <2>2
<1> QED
  BY <1>1, <1>7 DEF Judged, how

\* Every response is answered or refused as its status and body say, and no
\* call that is under way has a response.
ResponsesJudged ==
  \A r \in Requests :
    /\ response[r] # NoResponse => Judged(target[r], response[r], outcome[r])
    /\ pc[r] \in CallingPC => response[r] = NoResponse

\* A text in the provider's format is returned, and everything else that can be
\* decoded becomes an error that the gateway knows, whatever the statuses and the
\* timings (ContentFound).
THEOREM ContentIsFound == Spec => []ContentFound
<1>1. Init => ResponsesJudged
  BY DEF Init, ResponsesJudged, CallingPC
<1>2. CallsInv /\ ResponsesJudged /\ [Next]_vars => ResponsesJudged'
  <2> SUFFICES ASSUME TypeOK, ResponsesJudged, [Next]_vars
               PROVE  ResponsesJudged'
    BY DEF CallsInv
  <2>1. ASSUME NEW r \in Requests, Respond(r)
        PROVE  ResponsesJudged'
    <3>1. PICK received \in Responses(target[r]) :
            /\ EndsWith(r, Outcome(target[r], received))
            /\ response' = [response EXCEPT ![r] = received]
      BY <2>1 DEF Respond
    <3>2. Judged(target[r], received, Outcome(target[r], received))
      BY RespondedJudged
    <3>3. /\ target' = target /\ response'[r] = received
          /\ outcome'[r] = Outcome(target[r], received) /\ pc'[r] = "ready"
          /\ \A q \in Requests : q # r => /\ response'[q] = response[q]
                                          /\ outcome'[q] = outcome[q] /\ pc'[q] = pc[q]
      BY <3>1 DEF EndsWith, TypeOK
    <3> QED
      BY <3>2, <3>3 DEF ResponsesJudged, CallingPC
  <2>2. ASSUME NEW r \in Requests, NetworkFails(r) \/ TimesOut(r)
        PROVE  ResponsesJudged'
    <3>1. /\ response' = response /\ target' = target /\ pc[r] \in CallingPC /\ pc'[r] = "ready"
          /\ \A q \in Requests : q # r => outcome'[q] = outcome[q] /\ pc'[q] = pc[q]
      BY <2>2 DEF NetworkFails, TimesOut, EndsWith, TypeOK, CallingPC
    <3> QED
      BY <3>1 DEF ResponsesJudged, CallingPC
  <2>3. ASSUME NEW r \in Requests, Call(r) \/ Finish(r)
        PROVE  ResponsesJudged'
    <3>1. /\ response'[r] = NoResponse
          /\ \A q \in Requests : q # r => /\ response'[q] = response[q] /\ pc'[q] = pc[q]
                                          /\ outcome'[q] = outcome[q] /\ target'[q] = target[q]
      BY <2>3 DEF Call, Finish, call, TypeOK
    <3> QED
      BY <3>1 DEF ResponsesJudged
  <2>4. ASSUME NEW r \in Requests, Arrive(r) \/ Connect(r) \/ Proceed(r)
        PROVE  ResponsesJudged'
    <3>1. /\ response' = response /\ target' = target /\ outcome' = outcome
          /\ \A q \in Requests : pc'[q] \in CallingPC => pc[q] \in CallingPC
      BY <2>4 DEF Arrive, Connect, Proceed, call, TypeOK, CallingPC
    <3> QED
      BY <3>1 DEF ResponsesJudged
  <2>5. CASE Startup \/ Drain \/ Close \/ Tick \/ UNCHANGED vars
    BY <2>5 DEF Startup, Drain, Close, Tick, vars, call, ResponsesJudged
  <2> QED
    BY <2>1, <2>2, <2>3, <2>4, <2>5 DEF Next, RequestStep
<1>3. ResponsesJudged => ContentFound
  BY DEF ResponsesJudged, Judged, ContentFound
<1> QED
  BY <1>1, <1>2, <1>3, CallsInvariant, PTL DEF Spec

-----------------------------------------------------------------------------
\* The chain that the factory builds

\* A set of natural numbers that has a member has a least one.
LEMMA LeastNumber ==
  ASSUME NEW B \in SUBSET Nat, B # {}
  PROVE  \E n \in B : \A m \in 0..n - 1 : m \notin B
<1>1. PICK n \in B : \A m \in B : <<m, n>> \notin OpToRel(<, Nat)
  BY NatLessThanWellFounded, WFMin
<1>2. ASSUME NEW m \in 0..n - 1 PROVE m \notin B
  <2>1. <<m, n>> \in Nat \X Nat /\ m < n
    OBVIOUS
  <2> QED
    BY <1>1, <2>1 DEF OpToRel
<1> QED
  BY <1>2

\* What is made of one entry.
Named(entry) == Lower(Strip(entry))

\* It is the entry's word, plainly spelled.
LEMMA EntryNamed ==
  ASSUME config \in Configs, NEW i \in DOMAIN config
  PROVE  /\ Named(config[i]) \in Entries
         /\ Named(config[i]) = Plain(config[i].word)
         /\ IsBlank(config[i]) <=> config[i].word = ""
<1>1. config[i] \in Entries
  <2>1. config \in Seq(Entries)
    BY CallsAssumption
  <2>2. DOMAIN config = 1..Len(config)
    BY <2>1
  <2> QED
    BY <2>1, <2>2, ElementOfSeq
<1>2. ASSUME NEW entry \in Entries
      PROVE  /\ Named(entry) = Plain(entry.word)
             /\ IsBlank(entry) <=> entry.word = ""
             /\ Plain(entry.word) \in Entries
  <2>1. entry = [word |-> entry.word, letters |-> entry.letters, spaces |-> entry.spaces]
        /\ entry.word \in STRING
    BY DEF Entries
  <2>2. Strip(entry) = [word |-> entry.word, letters |-> entry.letters, spaces |-> "none"]
    BY <2>1 DEF Strip
  <2>3. Named(entry) = [word |-> entry.word, letters |-> "small", spaces |-> "none"]
    BY <2>2 DEF Named, Lower
  <2>4. Strip(entry).word = entry.word
    BY <2>2
  <2>5. Plain(entry.word) \in Entries
    BY <2>1 DEF Plain, Entries
  <2> QED
    BY <2>3, <2>4, <2>5 DEF Plain, IsBlank
<1> QED
  BY <1>1, <1>2

\* names[i] holds the names among the first i entries.
Collects(names) ==
  names = [i \in 0..Len(config) |->
             IF i = 0 THEN <<>>
             ELSE IF IsBlank(config[i]) THEN names[i - 1]
             ELSE Append(names[i - 1], Named(config[i]))]

\* ProviderNames exists: its recursion goes down to the empty sequence.
LEMMA NamesCollected ==
  ASSUME config \in Configs
  PROVE  \E names : Collects(names) /\ ProviderNames = names[Len(config)]
<1> DEFINE Step(n, i) == IF i = 0 THEN <<>>
                         ELSE IF IsBlank(config[i]) THEN n[i - 1]
                         ELSE Append(n[i - 1], Named(config[i]))
           Upto(n, k) == n = [i \in 0..k |-> Step(n, i)]
           B == {k \in 0..Len(config) : ~\E n : Upto(n, k)}
<1>l. Len(config) \in Nat
  BY CallsAssumption
<1>1. B = {}
  <2> SUFFICES ASSUME B # {} PROVE FALSE
    OBVIOUS
  <2>1. PICK k \in B : \A m \in 0..k - 1 : m \notin B
    <3>1. B \subseteq Nat
      BY <1>l
    <3> HIDE DEF B
    <3> QED
      BY <3>1, LeastNumber
  <2>2. k \in 0..Len(config) /\ ~\E n : Upto(n, k)
    OBVIOUS
  <2>3. CASE k = 0
    <3> DEFINE n == [i \in 0..0 |-> <<>>]
    <3>1. Upto(n, 0)
      OBVIOUS
    <3> QED
      BY <2>2, <2>3, <3>1
  <2>4. CASE k # 0
    <3>1. k - 1 \in 0..k - 1 /\ k - 1 \in 0..Len(config) /\ k \in Nat
      BY <1>l, <2>2, <2>4
    <3>2. PICK n : Upto(n, k - 1)
      BY <2>1, <3>1
    <3> DEFINE m == [i \in 0..k |-> IF i = k THEN Step(n, k) ELSE n[i]]
    <3>3. \A i \in 0..k : i # k => i \in 0..k - 1
      BY <3>1
    <3>4. \A i \in 0..k - 1 : n[i] = Step(n, i)
      BY <3>2
    <3>5. ASSUME NEW i \in 0..k
          PROVE  m[i] = Step(m, i)
      <4>1. i # 0 => m[i - 1] = n[i - 1]
        BY <3>1
      <4>2. m[i] = Step(n, i)
        BY <3>3, <3>4
      <4>3. Step(m, i) = Step(n, i)
        <5> HIDE DEF m
        <5> QED
          BY <4>1
      <4> QED
        BY <4>2, <4>3
    <3>6. Upto(m, k)
      <4>1. m = [i \in 0..k |-> m[i]]
        OBVIOUS
      <4> HIDE DEF m, Step
      <4> QED
        BY <3>5, <4>1
    <3> QED
      BY <2>2, <3>6
  <2> QED
    BY <2>3, <2>4
<1>2. \E n : Collects(n)
  <2>1. Len(config) \in 0..Len(config)
    BY <1>l
  <2>2. PICK n : Upto(n, Len(config))
    BY <1>1, <2>1
  <2> QED
    BY <2>2 DEF Collects
<1> QED
  BY <1>2 DEF ProviderNames, Collects, Named

\* The places that are not blank among the first i.
ListedTo(i) == {j \in DOMAIN config : ~IsBlank(config[j]) /\ j <= i}

\* One more entry is one more place, unless it is blank.
LEMMA ListedStep ==
  ASSUME config \in Configs, NEW i \in 1..Len(config)
  PROVE  /\ ListedTo(i) = IF IsBlank(config[i]) THEN ListedTo(i - 1)
                                               ELSE ListedTo(i - 1) \cup {i}
         /\ i \notin ListedTo(i - 1)
<1>1. DOMAIN config = 1..Len(config) /\ Len(config) \in Nat
  BY CallsAssumption
<1> QED
  BY <1>1 DEF ListedTo

\* They are finitely many.
LEMMA ListedFinite ==
  ASSUME config \in Configs, NEW i
  PROVE  IsFiniteSet(ListedTo(i)) /\ Cardinality(ListedTo(i)) \in Nat
<1>1. DOMAIN config = 1..Len(config) /\ Len(config) \in Nat
  BY CallsAssumption
<1>2. ListedTo(i) \subseteq 1..Len(config)
  BY <1>1 DEF ListedTo
<1>3. IsFiniteSet(1..Len(config))
  BY <1>1, FS_Interval
<1> QED
  BY <1>2, <1>3, FS_Subset, FS_CardinalityType

\* What the collected names are, entry by entry.
Placed(names, i) ==
  /\ names[i] \in Seq(Entries)
  /\ Len(names[i]) = Cardinality(ListedTo(i))
  /\ \A j \in ListedTo(i) :
       LET k == Cardinality(ListedTo(j)) IN
       k \in 1..Len(names[i]) /\ names[i][k] = Named(config[j])
  /\ \A k \in 1..Len(names[i]) : \E j \in ListedTo(i) : names[i][k] = Named(config[j])

\* The first i entries give the names that are listed among them, each at its
\* place.
LEMMA NamesPlaced ==
  ASSUME config \in Configs, NEW names, Collects(names)
  PROVE  \A i \in 0..Len(config) : Placed(names, i)
<1>l. DOMAIN config = 1..Len(config) /\ Len(config) \in Nat
  BY CallsAssumption
<1> DEFINE B == {i \in 0..Len(config) : ~Placed(names, i)}
<1> SUFFICES ASSUME B # {} PROVE FALSE
  OBVIOUS
<1>1. PICK i \in B : \A m \in 0..i - 1 : m \notin B
  <2>1. B \subseteq Nat
    BY <1>l
  <2> HIDE DEF B
  <2> QED
    BY <2>1, LeastNumber
<1>2. i \in 0..Len(config)
  OBVIOUS
<1>3. names[i] = IF i = 0 THEN <<>>
                 ELSE IF IsBlank(config[i]) THEN names[i - 1]
                 ELSE Append(names[i - 1], Named(config[i]))
  BY <1>2 DEF Collects
<1>4. CASE i = 0
  <2>1. ListedTo(0) = {}
    BY <1>l DEF ListedTo
  <2>2. names[0] = <<>> /\ Cardinality(ListedTo(0)) = 0
    BY <1>3, <1>4, <2>1, FS_EmptySet
  <2>3. Placed(names, 0)
    BY <2>1, <2>2 DEF Placed
  <2> QED
    BY <1>4, <2>3
<1>5. CASE i # 0
  <2> DEFINE old == names[i - 1]
  <2>1. i \in 1..Len(config) /\ i - 1 \in 0..i - 1 /\ i - 1 \in 0..Len(config)
    BY <1>l, <1>2, <1>5
  <2>2. Placed(names, i - 1)
    BY <1>1, <2>1
  <2>3. CASE IsBlank(config[i])
    <3>1. names[i] = names[i - 1] /\ ListedTo(i) = ListedTo(i - 1)
      BY <1>3, <1>5, <2>1, <2>3, ListedStep
    <3>2. Placed(names, i)
      BY <2>2, <3>1 DEF Placed
    <3> QED
      BY <3>2
  <2>4. CASE ~IsBlank(config[i])
    <3>1. /\ names[i] = Append(old, Named(config[i]))
          /\ ListedTo(i) = ListedTo(i - 1) \cup {i} /\ i \notin ListedTo(i - 1)
      BY <1>3, <1>5, <2>1, <2>4, ListedStep
    <3>2. Cardinality(ListedTo(i)) = Cardinality(ListedTo(i - 1)) + 1
      BY <3>1, ListedFinite, FS_AddElement
    <3>3. Named(config[i]) \in Entries
      BY <1>l, <2>1, EntryNamed
    <3>4. old \in Seq(Entries) /\ Len(old) = Cardinality(ListedTo(i - 1))
      BY <2>2 DEF Placed
    <3>5. /\ names[i] \in Seq(Entries) /\ Len(names[i]) = Len(old) + 1 /\ Len(old) \in Nat
          /\ \A k \in 1..Len(old) : names[i][k] = old[k]
          /\ names[i][Len(old) + 1] = Named(config[i])
      <4> HIDE DEF old
      <4> QED
        BY <3>1, <3>3, <3>4, AppendProperties
    <3>6. ASSUME NEW j \in ListedTo(i)
          PROVE  LET k == Cardinality(ListedTo(j)) IN
                 k \in 1..Len(names[i]) /\ names[i][k] = Named(config[j])
      <4>1. CASE j = i
        <5>1. Cardinality(ListedTo(i)) = Len(old) + 1 /\ Len(old) + 1 \in 1..Len(names[i])
          BY <3>2, <3>4, <3>5
        <5> QED
          BY <3>5, <4>1, <5>1
      <4>2. CASE j \in ListedTo(i - 1)
        <5>1. LET k == Cardinality(ListedTo(j)) IN
              k \in 1..Len(old) /\ old[k] = Named(config[j])
          BY <2>2, <4>2 DEF Placed
        <5> QED
          BY <3>5, <5>1
      <4> QED
        BY <3>1, <4>1, <4>2
    <3>7. ASSUME NEW k \in 1..Len(names[i])
          PROVE  \E j \in ListedTo(i) : names[i][k] = Named(config[j])
      <4>1. CASE k = Len(old) + 1
        BY <3>1, <3>5, <4>1
      <4>2. CASE k # Len(old) + 1
        <5>1. k \in 1..Len(old)
          BY <3>5, <4>2
        <5>2. PICK j \in ListedTo(i - 1) : old[k] = Named(config[j])
          BY <2>2, <5>1 DEF Placed
        <5> QED
          BY <3>1, <3>5, <5>1, <5>2
      <4> QED
        BY <4>1, <4>2
    <3>8. Placed(names, i)
      BY <3>2, <3>4, <3>5, <3>6, <3>7 DEF Placed
    <3> QED
      BY <3>8
  <2> QED
    BY <2>3, <2>4
<1> QED
  BY <1>4, <1>5

\* What the factory has built follows from the configuration.
ChainInv ==
  /\ phase \notin {"starting", "failed"} =>
       /\ chain = Built(ProviderNames) /\ ProviderNames # <<>>
       /\ \A n \in ToSet(ProviderNames) : ~Refused(n)
  /\ phase = "failed" => ProviderNames = <<>> \/ \E n \in ToSet(ProviderNames) : Refused(n)

\* The chain has every entry of LLM_PROVIDER that is not blank, in its order
\* and as often as it is listed, each one usable, for every configuration; an
\* application that does not start has an entry to blame, or none at all.
THEOREM ChainIsConfigured == Spec => []ChainAsConfigured
<1>1. Init => ChainInv
  BY DEF Init, ChainInv
<1>2. ChainInv /\ [Next]_vars => ChainInv'
  <2> SUFFICES ASSUME ChainInv, [Next]_vars
               PROVE  ChainInv'
    OBVIOUS
  <2>1. ASSUME UNCHANGED <<config, keys>>
        PROVE  /\ ProviderNames' = ProviderNames
               /\ \A n : Refused(n)' = Refused(n)
               /\ Built(ProviderNames)' = Built(ProviderNames)
    BY <2>1 DEF ProviderNames, Refused, Built
  <2>2. CASE Startup
    BY <2>1, <2>2 DEF Startup, ChainInv
  <2>3. CASE Drain \/ Close
    BY <2>1, <2>3 DEF Drain, Close, ChainInv
  <2>4. CASE UNCHANGED <<config, keys, phase, chain>>
    BY <2>1, <2>4 DEF ChainInv
  <2>5. (\E r \in Requests : RequestStep(r)) \/ Tick \/ UNCHANGED vars
          => UNCHANGED <<config, keys, phase, chain>>
    BY DEF RequestStep, Arrive, Call, Connect, Proceed, Respond, NetworkFails, TimesOut,
           Finish, EndsWith, Tick, vars, app
  <2> QED
    BY <2>2, <2>3, <2>4, <2>5 DEF Next
<1>3. config \in Configs /\ ChainInv => ChainAsConfigured
  <2> SUFFICES ASSUME config \in Configs, ChainInv
               PROVE  ChainAsConfigured
    OBVIOUS
  <2> DEFINE listed == {i \in DOMAIN config : config[i].word # ""}
             place(i) == Cardinality({j \in listed : j <= i})
             usable(i) == \/ config[i].word = "fake"
                          \/ /\ config[i].word \in HttpProviders
                             /\ keys[config[i].word] = "given"
  <2>l. DOMAIN config = 1..Len(config) /\ Len(config) \in Nat
    BY CallsAssumption
  <2>1. PICK names : Collects(names) /\ ProviderNames = names[Len(config)]
    BY NamesCollected
  <2>2. Placed(names, Len(config))
    BY <2>l, <2>1, NamesPlaced
  <2>b. listed = {i \in DOMAIN config : ~IsBlank(config[i])}
    BY EntryNamed
  <2>3. ListedTo(Len(config)) = listed
    <3> HIDE DEF listed
    <3> QED
      BY <2>l, <2>b DEF ListedTo
  <2>4. \A i \in listed : ListedTo(i) = {j \in listed : j <= i}
    <3> HIDE DEF listed
    <3> QED
      BY <2>b DEF ListedTo
  <2>5. /\ ProviderNames \in Seq(Entries)
        /\ Len(ProviderNames) = Cardinality(listed)
        /\ \A i \in listed : /\ place(i) \in 1..Len(ProviderNames)
                             /\ ProviderNames[place(i)] = Named(config[i])
        /\ \A k \in 1..Len(ProviderNames) :
             \E i \in listed : ProviderNames[k] = Named(config[i])
    BY <2>1, <2>2, <2>3, <2>4 DEF Placed
  <2>6. \A i \in listed : usable(i) <=> ~Refused(Named(config[i]))
    <3> SUFFICES ASSUME NEW i \in listed
                 PROVE  usable(i) <=> ~Refused(Named(config[i]))
      OBVIOUS
    <3>1. Named(config[i]) = Plain(config[i].word)
      BY EntryNamed
    <3>p. \A p, q : Plain(q) = Plain(p) <=> p = q
      BY DEF Plain
    <3>2. \A p : Named(config[i]) = Plain(p) <=> p = config[i].word
      BY <3>1, <3>p
    <3> QED
      BY <3>2 DEF Refused, Supported, HttpProviders
  <2>7. ToSet(ProviderNames) = {Named(config[i]) : i \in listed}
    <3> HIDE DEF listed, place
    <3>1. ToSet(ProviderNames) = {ProviderNames[k] : k \in 1..Len(ProviderNames)}
      BY <2>5 DEF ToSet
    <3> QED
      BY <2>5, <3>1
  <2>8. ProviderNames = <<>> => listed = {}
    <3> HIDE DEF listed, place
    <3> QED
      BY <2>5
  <2>9. ASSUME phase \notin {"starting", "failed"}
        PROVE  /\ Len(chain) = Cardinality(listed) /\ chain # <<>>
               /\ \A i \in listed : chain[place(i)] = config[i].word /\ usable(i)
    <3>p. \A p : Plain(p).word = p
      BY DEF Plain
    <3>1. \A i \in listed : Named(config[i]).word = config[i].word
      BY EntryNamed, <3>p
    <3>2. chain = [k \in 1..Len(ProviderNames) |-> ProviderNames[k].word]
      <4> HIDE DEF listed, place, usable
      <4> QED
        BY <2>5, <2>9 DEF ChainInv, Built
    <3> HIDE DEF listed, place, usable
    <3>3. Len(chain) = Len(ProviderNames) /\ (chain = <<>> <=> ProviderNames = <<>>)
      BY <2>5, <3>2
    <3> QED
      BY <2>5, <2>6, <2>7, <2>9, <3>1, <3>2, <3>3 DEF ChainInv
  <2>10. ASSUME phase = "failed"
         PROVE  listed = {} \/ \E i \in listed : ~usable(i)
    <3> HIDE DEF listed, place, usable
    <3> QED
      BY <2>6, <2>7, <2>8, <2>10 DEF ChainInv
  <2> QED
    BY <2>9, <2>10 DEF ChainAsConfigured
<1>4. TypeOK => config \in Configs
  BY DEF TypeOK
<1> QED
  BY <1>1, <1>2, <1>3, <1>4, CallsTypes, PTL DEF Spec
=============================================================================
