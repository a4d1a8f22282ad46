------------------------------ MODULE SessionLog ------------------------------
(***************************************************************************)
(* What session memory promises of one session: a log without bound, of    *)
(* which a read shows the newest messages.  A message enters the log at    *)
(* most once, and the log is only ever forgotten as a whole.               *)
(***************************************************************************)
EXTENDS Naturals, Sequences

CONSTANTS Messages,   \* what can be added
          Readers,    \* the reads, one look each
          Window,     \* how many messages a look shows at most
          Nothing     \* what a reader has before it looks

VARIABLES
  log,      \* the messages since the session was last forgotten
  added,    \* the messages that have ever been in the log
  seen      \* seen[r]: what reader r was shown

SessionLogInit == /\ log = <<>>
                  /\ added = {}
                  /\ seen = [r \in Readers |-> Nothing]

\* The newest messages of s.
Newest(s) == IF Len(s) <= Window THEN s ELSE SubSeq(s, Len(s) - Window + 1, Len(s))

Add(m) == /\ m \notin added
          /\ log' = Append(log, m)
          /\ added' = added \cup {m}
          /\ UNCHANGED seen

Look(r) == /\ seen[r] = Nothing
           /\ seen' = [seen EXCEPT ![r] = Newest(log)]
           /\ UNCHANGED <<log, added>>

Forget == /\ log' = <<>>
          /\ UNCHANGED <<added, seen>>

SessionLogNext == \/ \E m \in Messages : Add(m)
                  \/ \E r \in Readers : Look(r)
                  \/ Forget

SessionLogSpec == SessionLogInit /\ [][SessionLogNext]_<<log, added, seen>>
=============================================================================
