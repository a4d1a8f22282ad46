---------------------------- MODULE SessionMemory ----------------------------
(***************************************************************************)
(* Session memory: AgentMemory (cache/services/memory.py) over the Redis   *)
(* adapter (cache/adapters/redis_memory.py).  Any number of workers append *)
(* to, read and clear one session; sessions do not share keys, so one is   *)
(* enough.                                                                 *)
(*                                                                         *)
(* A call is one round trip to the store, which executes its commands in   *)
(* one transaction.  The round trip can fail with the commands executed,   *)
(* lost, or still on their way.                                            *)
(***************************************************************************)
EXTENDS Integers, Sequences, FiniteSets

CONSTANTS Messages,   \* the append() calls, named by their messages
          Reads,      \* the get_recent() calls
          Clears,     \* the clear() calls
          TooLarge,   \* the messages above session_max_message_bytes
          Malformed,  \* the messages whose role or content is no string
          MaxItems,   \* session_max_messages
          Ttl,        \* session_ttl_seconds, in ticks
          MaxInFlight,  \* bound: how many calls are in flight or late at once
          MaxTime,    \* bound: the clock stops here
          None        \* the result of a read that has not been executed

ASSUME MemoryAssumption ==
  /\ TooLarge \subseteq Messages /\ Malformed \subseteq Messages
  /\ Messages \cap Reads = {} /\ Messages \cap Clears = {} /\ Reads \cap Clears = {}
  /\ MaxItems \in Nat \ {0} /\ Ttl \in Nat \ {0}
  /\ MaxInFlight \in Nat \ {0} /\ MaxTime \in Nat
  /\ None \notin Seq(Messages)

VARIABLES
  clock,       \* the time, at the store
  list,        \* the list under the session's key, <<>> if there is no key
  expires,     \* when the key expires
  pc,          \* pc[c]: how far call c is
  result,      \* result[r]: the values the store has read for r
  \* History, which the code does not keep:
  executedAt,  \* executedAt[c]: when the store executed c, -1 if it has not
  earlier,     \* earlier[c]: the changes that had returned when c was sent
  history      \* the messages executed since the session last ended, untrimmed

store == <<list, expires, history>>
vars == <<clock, list, expires, pc, result, executedAt, earlier, history>>

Changes == Messages \cup Clears
Calls == Changes \cup Reads

\* "late" is a call that has failed and whose commands are still on their way.
InFlightPC == {"sent", "executed"}
States == {"new", "late", "done", "failed", "rejected", "raised"} \cup InFlightPC

TypeOK == /\ clock \in 0..MaxTime
          /\ list \in Seq(Messages)
          /\ expires \in 0..(MaxTime + Ttl)
          /\ pc \in [Calls -> States]
          /\ result \in [Reads -> Seq(Messages) \cup {None}]
          /\ executedAt \in [Calls -> -1..MaxTime]
          /\ earlier \in [Calls -> SUBSET Changes]
          /\ history \in Seq(Messages)

Init == /\ clock = 0
        /\ list = <<>>
        /\ expires = 0
        /\ pc = [c \in Calls |-> "new"]
        /\ result = [r \in Reads |-> None]
        /\ executedAt = [c \in Calls |-> -1]
        /\ earlier = [c \in Calls |-> {}]
        /\ history = <<>>

-----------------------------------------------------------------------------
\* The store

\* The last n elements of s: what LTRIM keeps and LRANGE returns from -n to -1.
LastOf(s, n) == IF Len(s) <= n THEN s ELSE SubSeq(s, Len(s) - n + 1, Len(s))

\* Mutants of AppendBounded: the oldest are kept; nothing is trimmed; LPUSH;
\* the time to live runs from the first message; it is in milliseconds.
AppendKeepingOldest(m) ==
  /\ list' = SubSeq(Append(list, m), 1, IF Len(list) < MaxItems THEN Len(list) + 1 ELSE MaxItems)
  /\ expires' = clock + Ttl

AppendUntrimmed(m) ==
  /\ list' = Append(list, m)
  /\ expires' = clock + Ttl

AppendInFront(m) ==
  /\ list' = LastOf(<<m>> \o list, MaxItems)
  /\ expires' = clock + Ttl

AppendWithFirstTtl(m) ==
  /\ list' = LastOf(Append(list, m), MaxItems)
  /\ expires' = IF list = <<>> THEN clock + Ttl ELSE expires

AppendInMilliseconds(m) ==
  /\ list' = LastOf(Append(list, m), MaxItems)
  /\ expires' = clock + 1000 * Ttl

\* RPUSH, LTRIM and EXPIRE in one transaction.
AppendBounded(m) ==
  /\ list' = LastOf(Append(list, m), MaxItems)
  /\ expires' = clock + Ttl

Stored(m) == /\ AppendBounded(m)
             /\ history' = Append(history, m)
             /\ UNCHANGED result

Recalled(r) == /\ result' = [result EXCEPT ![r] = LastOf(list, MaxItems)]
               /\ UNCHANGED store

Deleted == /\ list' = <<>>
           /\ expires' = 0
           /\ history' = <<>>
           /\ UNCHANGED result

\* The store executes the commands of c.
Command(c) == \/ c \in Messages /\ Stored(c)
              \/ c \in Reads /\ Recalled(c)
              \/ c \in Clears /\ Deleted

-----------------------------------------------------------------------------
\* The calls

Returned == {c \in Changes : pc[c] = "done"}

\* append() raises ValueError: the message is too large.
Reject(m) ==
  /\ pc[m] = "new" /\ m \in TooLarge
  /\ pc' = [pc EXCEPT ![m] = "rejected"]
  /\ UNCHANGED <<clock, result, executedAt, earlier, store>>

\* A call up to its await.
Send(c) ==
  /\ pc[c] = "new" /\ c \notin TooLarge
  /\ Cardinality({d \in Calls : pc[d] \in InFlightPC \cup {"late"}}) < MaxInFlight
  /\ pc' = [pc EXCEPT ![c] = "sent"]
  /\ earlier' = [earlier EXCEPT ![c] = Returned]
  /\ UNCHANGED <<clock, result, executedAt, store>>

Execute(c) ==
  /\ pc[c] = "sent"
  /\ Command(c)
  /\ pc' = [pc EXCEPT ![c] = "executed"]
  /\ executedAt' = [executedAt EXCEPT ![c] = clock]
  /\ UNCHANGED <<clock, earlier>>

Poisoned(r) == \E i \in 1..Len(result[r]) : result[r][i] \in Malformed

\* Mutant of Return: clear() does not await the reply.
ReturnAtOnce(c) ==
  /\ \/ pc[c] = "executed"
     \/ pc[c] = "sent" /\ c \in Clears
  /\ pc' = [pc EXCEPT ![c] = IF c \in Reads /\ Poisoned(c) THEN "raised" ELSE "done"]
  /\ UNCHANGED <<clock, result, executedAt, earlier, store>>

\* The reply arrives.  One malformed message fails the whole read.
Return(c) ==
  /\ pc[c] = "executed"
  /\ pc' = [pc EXCEPT ![c] = IF c \in Reads /\ Poisoned(c) THEN "raised" ELSE "done"]
  /\ UNCHANGED <<clock, result, executedAt, earlier, store>>

\* The round trip fails, or its caller is cancelled.  Commands not executed
\* are lost, or still on their way.
Fail(c) ==
  /\ pc[c] \in InFlightPC
  /\ \E lost \in BOOLEAN :
       pc' = [pc EXCEPT ![c] = IF lost \/ @ = "executed" \/ c \in Reads
                               THEN "failed" ELSE "late"]
  /\ UNCHANGED <<clock, result, executedAt, earlier, store>>

\* The commands of a call that has failed reach the store after all.
ExecuteLate(c) ==
  /\ pc[c] = "late"
  /\ Command(c)
  /\ pc' = [pc EXCEPT ![c] = "failed"]
  /\ executedAt' = [executedAt EXCEPT ![c] = clock]
  /\ UNCHANGED <<clock, earlier>>

\* The clock; a key whose time is up is gone.
Tick ==
  /\ clock < MaxTime
  /\ clock' = clock + 1
  /\ IF clock + 1 < expires
     THEN UNCHANGED store
     ELSE list' = <<>> /\ expires' = 0 /\ history' = <<>>
  /\ UNCHANGED <<pc, result, executedAt, earlier>>

CallStep(c) == \/ Reject(c)
               \/ Send(c)
               \/ Execute(c)
               \/ Return(c)
               \/ Fail(c)
               \/ ExecuteLate(c)

Next == \/ \E c \in Calls : CallStep(c)
        \/ Tick

Spec == Init /\ [][Next]_vars

-----------------------------------------------------------------------------
\* Properties

\* The trimmed, expiring list reads like a log that is never trimmed: under
\* concurrent appends, reads and clears, with replies lost and commands late,
\* a read shows the newest messages in the order in which the store has taken
\* them, each at most once.
Log == INSTANCE SessionLog WITH
         Readers <- Reads,
         Window <- MaxItems,
         Nothing <- None,
         log <- history,
         added <- {m \in Messages : executedAt[m] >= 0},
         seen <- result

ImplementsSessionLog == Log!SessionLogSpec

\* The store neither fills up nor keeps what nobody uses: it holds the newest
\* messages and no more, and for less than the time to live after the newest.
StoreKeepsWindow ==
  /\ list = LastOf(history, MaxItems)
  /\ list # <<>> => clock < executedAt[list[Len(list)]] + Ttl

\* The messages that read r has been given.
Shown(r) == {result[r][i] : i \in 1..Len(result[r])}

\* A read that starts after an append has returned shows the message, unless
\* it is full of others, the session may have been cleared since, or the
\* message's time to live is over.
ReadSeesAppended ==
  \A r \in Reads : pc[r] = "done" =>
    \A m \in Messages \cap earlier[r] :
      \/ m \in Shown(r)
      \/ Cardinality(Shown(r)) = MaxItems
      \/ \E c \in Clears : c \notin earlier[m] /\ executedAt[c] >= 0
      \/ executedAt[r] >= executedAt[m] + Ttl

\* The messages whose appends were sent after b's had returned, and had returned
\* when r was sent.
Since(b, r) == {m \in Messages \cap earlier[r] : b \in earlier[m]}

\* Of two messages of which one was sent after the other's append had returned,
\* every read that shows both shows them in this order.  A read that shows a
\* message shows all that were appended since, and MaxItems of them displace it:
\* so long, and no longer, does a malformed message make reads raise.
AppendedInOrder ==
  \A r \in Reads : result[r] # None =>
    \A i \in 1..Len(result[r]) :
      /\ \A j \in 1..Len(result[r]) : result[r][i] \in earlier[result[r][j]] => i < j
      /\ Since(result[r][i], r) \subseteq Shown(r)
      /\ Cardinality(Since(result[r][i], r)) < MaxItems

\* Once a clear has returned, no read that starts afterwards shows a message
\* whose append had returned before the clear was sent.
ClearForgets ==
  \A r \in Reads, c \in Clears :
    pc[r] = "done" /\ c \in earlier[r] => Shown(r) \cap earlier[c] = {}
=============================================================================
