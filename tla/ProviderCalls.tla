---------------------------- MODULE ProviderCalls ----------------------------
(***************************************************************************)
(* The application's lifespan (main.py), the provider factory              *)
(* (llm/factory.py), and the calls that the providers' adapters make       *)
(* through the shared connection pool (llm/http/client.py).                *)
(*                                                                         *)
(* A request makes its calls one after the other, to providers that the    *)
(* gateway picks and of which any may be picked here, each under wait_for. *)
(* Time is the age of a call and of the HTTP operation it waits for.       *)
(***************************************************************************)
EXTENDS ProviderPayloads, Integers, FiniteSets, SequencesExt

CONSTANTS Requests,        \* the tasks that call providers
          Configs,         \* the values LLM_PROVIDER may have
          ApiKeys,         \* the API keys there may be: "absent", "blank" or "given"
          Statuses,        \* the HTTP statuses a provider may answer with
          RequestTimeout,  \* llm_request_timeout_seconds, in ticks
          MaxConnections,  \* of the pool
          MaxCalls         \* bound: the calls of one request

HttpProviders == {"mistral", "groq", "gemini"}
Supported == HttpProviders \cup {"fake"}

\* An entry of LLM_PROVIDER: a word, "" if there is none, its case and whether
\* there are spaces around it.
Entries == [word : STRING, letters : {"small", "capital"}, spaces : {"none", "around"}]

Plain(word) == [word |-> word, letters |-> "small", spaces |-> "none"]

\* strip() and lower()
Strip(entry) == [entry EXCEPT !.spaces = "none"]
Lower(entry) == [entry EXCEPT !.letters = "small"]

IsBlank(entry) == Strip(entry).word = ""

ASSUME CallsAssumption ==
  /\ IsFiniteSet(Requests)
  /\ RequestTimeout \in Nat \ {0} /\ MaxConnections \in Nat \ {0} /\ MaxCalls \in Nat \ {0}
  /\ Configs \subseteq Seq(Entries)
  /\ \A keys \in ApiKeys : keys \in [HttpProviders -> {"absent", "blank", "given"}]
  /\ Statuses \subseteq Nat \ {0}

VARIABLES
  config,   \* LLM_PROVIDER, as a sequence of entries
  keys,     \* the API keys
  phase,    \* of the application
  chain,    \* the providers that the factory has built
  started,  \* HTTPClientPool._started
  closed,   \* the httpx client has been closed
  pc,       \* pc[r]: what request r is doing
  target,   \* target[r]: the provider that r calls
  calls,    \* calls[r]: the calls r has made
  age,      \* age[r]: ticks since r's call began
  opAge,    \* opAge[r]: ticks since its current HTTP operation began
  outcome,  \* outcome[r]: how its last call has ended
  response  \* response[r]: what its last call has received

app == <<config, keys, phase, chain, started, closed>>
call == <<target, calls, age, opAge>>
vars == <<app, pc, call, outcome, response>>

NoResponse == [status |-> 0, body |-> NotJson]

\* A request waits for a connection, or for the provider's answer over one.
CallingPC == {"waiting", "sent"}
Calling == {r \in Requests : pc[r] \in CallingPC}

\* What the gateway has no handler for, so that the request is over.
Unhandled == {"RuntimeError", "RecursionError"}
Outcomes == ProviderErrors \cup {"none", "content", "TimeoutError"} \cup Unhandled

TypeOK == /\ config \in Configs
          /\ keys \in ApiKeys
          /\ phase \in {"starting", "failed", "serving", "draining", "closed"}
          /\ ToSet(chain) \subseteq Supported
          /\ started \in BOOLEAN
          /\ closed \in BOOLEAN
          /\ pc \in [Requests -> {"new", "ready", "ended"} \cup CallingPC]
          /\ target \in [Requests -> Supported]
          /\ calls \in [Requests -> 0..MaxCalls]
          /\ age \in [Requests -> 0..RequestTimeout]
          /\ opAge \in [Requests -> 0..RequestTimeout]
          /\ DOMAIN response = Requests
          /\ outcome \in [Requests -> Outcomes]
          /\ Cardinality({r \in Requests : pc[r] = "sent"}) <= MaxConnections

Init == /\ config \in Configs
        /\ keys \in ApiKeys
        /\ phase = "starting"
        /\ chain = <<>>
        /\ started = FALSE
        /\ closed = FALSE
        /\ pc = [r \in Requests |-> "new"]
        /\ target = [r \in Requests |-> "fake"]
        /\ calls = [r \in Requests |-> 0]
        /\ age = [r \in Requests |-> 0]
        /\ opAge = [r \in Requests |-> 0]
        /\ outcome = [r \in Requests |-> "none"]
        /\ response = [r \in Requests |-> NoResponse]

-----------------------------------------------------------------------------
\* The pool

StartPool == started' = TRUE

ClosePool == started' = FALSE /\ closed' = TRUE

-----------------------------------------------------------------------------
\* The lifespan

\* A mutant of ProviderNames: the names are left in the case they have.
ProviderNamesAsSpelled ==
  LET names[i \in 0..Len(config)] ==
        IF i = 0 THEN <<>>
        ELSE IF IsBlank(config[i]) THEN names[i - 1]
        ELSE Append(names[i - 1], Strip(config[i]))
  IN  names[Len(config)]

\* The names of the entries that are not blank, stripped and in lower case.
ProviderNames ==
  LET names[i \in 0..Len(config)] ==
        IF i = 0 THEN <<>>
        ELSE IF IsBlank(config[i]) THEN names[i - 1]
        ELSE Append(names[i - 1], Lower(Strip(config[i])))
  IN  names[Len(config)]

\* build_llm_providers, or a constructor it calls, raises for this name, which
\* equals none of those it compares it with or lacks a key.
Refused(name) == \/ \A p \in Supported : name # Plain(p)
                 \/ \E p \in HttpProviders : name = Plain(p) /\ keys[p] # "given"

\* The providers that are built for the names.
Built(names) == [i \in DOMAIN names |-> names[i].word]

\* A mutant of Startup: providers without a key are left out.
StartupWithTheRest ==
  /\ phase = "starting"
  /\ StartPool
  /\ chain' = Built(SelectSeq(ProviderNames, LAMBDA n : ~Refused(n)))
  /\ phase' = IF chain' = <<>> THEN "failed" ELSE "serving"
  /\ UNCHANGED <<config, keys, closed, pc, call, outcome, response>>

\* The lifespan up to its yield.  If the factory raises, the pool stays open.
Startup ==
  /\ phase = "starting"
  /\ StartPool
  /\ IF ProviderNames = <<>> \/ \E n \in ToSet(ProviderNames) : Refused(n)
     THEN phase' = "failed" /\ UNCHANGED chain
     ELSE phase' = "serving" /\ chain' = Built(ProviderNames)
  /\ UNCHANGED <<config, keys, closed, pc, call, outcome, response>>

\* The server stops accepting requests.
Drain ==
  /\ phase = "serving"
  /\ phase' = "draining"
  /\ UNCHANGED <<config, keys, chain, started, closed, pc, call, outcome, response>>

\* A mutant of Close: the requests in flight are not waited for.
CloseAtOnce ==
  /\ phase = "draining"
  /\ phase' = "closed"
  /\ ClosePool
  /\ UNCHANGED <<config, keys, chain, pc, call, outcome, response>>

\* The server has served what it has accepted, and the lifespan goes on.
Close ==
  /\ phase = "draining"
  /\ \A r \in Requests : pc[r] \in {"new", "ended"}
  /\ phase' = "closed"
  /\ ClosePool
  /\ UNCHANGED <<config, keys, chain, pc, call, outcome, response>>

-----------------------------------------------------------------------------
\* The calls

\* The server accepts a request.  The time it takes to the gateway's call (see
\* GenerateRoute) is time in which it is ready.
Arrive(r) ==
  /\ phase = "serving"
  /\ pc[r] = "new"
  /\ pc' = [pc EXCEPT ![r] = "ready"]
  /\ UNCHANGED <<app, call, outcome, response>>

\* r's call ends without a response.
EndsWith(r, how) ==
  /\ pc' = [pc EXCEPT ![r] = "ready"]
  /\ outcome' = [outcome EXCEPT ![r] = how]
  /\ age' = [age EXCEPT ![r] = 0]
  /\ opAge' = [opAge EXCEPT ![r] = 0]
  /\ UNCHANGED <<app, target, calls>>

\* The fake provider answers without waiting for anything.
AnswersAtOnce(name) == name = "fake"

\* generate() of a provider up to its first await that waits.  An adapter
\* starts a pool that is not started, even if its client has been closed.
Call(r) ==
  /\ pc[r] = "ready" /\ outcome[r] \notin {"content"} \cup Unhandled /\ calls[r] < MaxCalls
  /\ \E name \in ToSet(chain) :
       /\ target' = [target EXCEPT ![r] = name]
       /\ IF AnswersAtOnce(name) THEN UNCHANGED started ELSE StartPool
       /\ pc' = [pc EXCEPT ![r] = IF AnswersAtOnce(name) \/ closed THEN @ ELSE "waiting"]
       /\ outcome' = [outcome EXCEPT ![r] = IF AnswersAtOnce(name) THEN "content"
                                            ELSE IF closed THEN "RuntimeError" ELSE "none"]
  /\ calls' = [calls EXCEPT ![r] = @ + 1]
  /\ response' = [response EXCEPT ![r] = NoResponse]
  /\ UNCHANGED <<config, keys, phase, chain, closed, age, opAge>>

\* A connection of the pool is free for r.
Connect(r) ==
  /\ pc[r] = "waiting"
  /\ Cardinality({q \in Requests : pc[q] = "sent"}) < MaxConnections
  /\ pc' = [pc EXCEPT ![r] = "sent"]
  /\ opAge' = [opAge EXCEPT ![r] = 0]
  /\ UNCHANGED <<app, target, calls, age, outcome, response>>

\* The next HTTP operation of the call: connected, or some bytes later.
Proceed(r) ==
  /\ pc[r] = "sent" /\ opAge[r] > 0
  /\ opAge' = [opAge EXCEPT ![r] = 0]
  /\ UNCHANGED <<app, pc, target, calls, age, outcome, response>>

Responses(name) ==
  {[status |-> s, body |-> NotJson] : s \in Statuses}
    \cup {[status |-> s, body |-> b] :
            s \in {s \in Statuses : s < 400}, b \in Bodies(name) \cup {TooDeep}}

Respond(r) ==
  /\ pc[r] = "sent"
  /\ \E received \in Responses(target[r]) :
       /\ EndsWith(r, Outcome(target[r], received))
       /\ response' = [response EXCEPT ![r] = received]

\* httpx.RequestError
NetworkFails(r) ==
  /\ pc[r] = "sent"
  /\ EndsWith(r, "Unavailable")
  /\ UNCHANGED response

\* A mutant of PoolTimeout: shorter than the gateway's.
PoolTimeoutShort == RequestTimeout - 1

\* The timeout that the lifespan gives the pool, for each HTTP operation.
PoolTimeout == RequestTimeout

\* A mutant of TimesOut: no timer runs while the call waits for a connection.
TimesOutOnceSent(r) ==
  /\ pc[r] = "sent"
  /\ (age[r] = RequestTimeout \/ opAge[r] = PoolTimeout)
  /\ EndsWith(r, IF age[r] = RequestTimeout THEN "TimeoutError" ELSE "Timeout")
  /\ UNCHANGED response

\* The timer that is due first ends the call: wait_for's, which was set before
\* any of httpx's, or the one of the current operation.
TimesOut(r) ==
  /\ pc[r] \in CallingPC
  /\ (age[r] = RequestTimeout \/ opAge[r] = PoolTimeout)
  /\ EndsWith(r, IF age[r] = RequestTimeout THEN "TimeoutError" ELSE "Timeout")
  /\ UNCHANGED response

\* The gateway has its answer, or gives up.
Finish(r) ==
  /\ pc[r] = "ready"
  /\ pc' = [pc EXCEPT ![r] = "ended"]
  /\ response' = [response EXCEPT ![r] = NoResponse]
  /\ UNCHANGED <<app, call, outcome>>

Tick ==
  /\ Calling # {}
  /\ \A r \in Calling : age[r] < RequestTimeout /\ opAge[r] < PoolTimeout
  /\ age' = [r \in Requests |-> IF r \in Calling THEN age[r] + 1 ELSE age[r]]
  /\ opAge' = [r \in Requests |-> IF r \in Calling THEN opAge[r] + 1 ELSE opAge[r]]
  /\ UNCHANGED <<app, pc, target, calls, outcome, response>>

RequestStep(r) == \/ Arrive(r)
                  \/ Call(r)
                  \/ Connect(r)
                  \/ Proceed(r)
                  \/ Respond(r)
                  \/ NetworkFails(r)
                  \/ TimesOut(r)
                  \/ Finish(r)

Next == \/ Startup
        \/ Drain
        \/ Close
        \/ \E r \in Requests : RequestStep(r)
        \/ Tick

\* The event loop runs what is ready and the timers that are due; no provider
\* and no connection is owed an answer.
Fairness == /\ WF_vars(Tick)
            /\ WF_vars(Close)
            /\ \A r \in Requests : WF_vars(TimesOut(r)) /\ WF_vars(Call(r) \/ Finish(r))

Spec == Init /\ [][Next]_vars /\ Fairness

-----------------------------------------------------------------------------
\* Properties

\* The chain has every entry of LLM_PROVIDER that is not blank, in its order
\* and as often as it is listed, each one usable, however it is spelled;
\* otherwise the application does not start, and then an entry is to blame or
\* there is none.
ChainAsConfigured ==
  LET listed == {i \in DOMAIN config : config[i].word # ""}
      place(i) == Cardinality({j \in listed : j <= i})
      usable(i) == \/ config[i].word = "fake"
                   \/ config[i].word \in HttpProviders /\ keys[config[i].word] = "given"
  IN  /\ phase \notin {"starting", "failed"} =>
           /\ Len(chain) = Cardinality(listed) /\ chain # <<>>
           /\ \A i \in listed : chain[place(i)] = config[i].word /\ usable(i)
      /\ phase = "failed" => listed = {} \/ \E i \in listed : ~usable(i)

\* A response without an error status is an answer if and only if its body is
\* in the provider's format and holds a text.  Every other one, with a body that
\* is no JSON or departs from the format at one level, ends in an error that the
\* gateway knows, but for a body that is nested too deeply to be decoded.
ContentFound ==
  \A r \in Requests : response[r] # NoResponse =>
    /\ outcome[r] = "content" <=> response[r].status < 400
                                  /\ response[r].body \in Answers(target[r])
    /\ response[r].body # TooDeep => outcome[r] \in ProviderErrors \cup {"content"}

\* No call is refused by a pool that has been closed under it.
NoCallRefused == \A r \in Requests : outcome[r] # "RuntimeError"

\* In the application as main.py wires it, httpx never times out: wait_for does
\* so first, for a call in any operation, waiting for a connection included.
ClientTimeoutNotFirst == \A r \in Requests : outcome[r] # "Timeout"

\* The pool and the lifespan around it implement the shared pool: whatever the
\* requests, the timers and the shutdown do, connections are never more than
\* the pool has, and no call enters it before it is opened or stays in it when
\* it is closed.
Pool == INSTANCE SharedPool WITH
          Users <- Requests,
          Capacity <- MaxConnections,
          state <- IF closed THEN "closed" ELSE IF started THEN "open" ELSE "unopened",
          place <- [r \in Requests |-> IF pc[r] = "waiting" THEN "queued"
                                       ELSE IF pc[r] = "sent" THEN "connected"
                                       ELSE "outside"],
          served <- {r \in Requests : response[r] # NoResponse}

ImplementsSharedPool == Pool!Spec

\* A shutdown that has begun comes to its end, even if no provider answers.
ShutdownCompletes == phase = "draining" ~> phase = "closed"
=============================================================================
