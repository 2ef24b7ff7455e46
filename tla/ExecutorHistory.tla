--------------------------- MODULE ExecutorHistory ---------------------------
(***************************************************************************)
(* GoroutineExecutor with what its events have said so far: how many final *)
(* statuses each run has sent, and which runs were forced to exit.         *)
(***************************************************************************)
EXTENDS GoroutineExecutor

VARIABLES finals,   \* per instance: final statuses sent for it
          forced    \* instances whose outer goroutine took an exit token

hvars == <<evars, finals, forced>>

SendsFinal(i) ==
  \/ inner[i] = "send" /\ inner'[i] = "ended"
  \/ outer[i] = "report" /\ outer'[i] = "delete"

HInit ==
  /\ EInit
  /\ finals = [i \in Instances |-> 0]
  /\ forced = {}

HNext ==
  /\ ENext
  /\ finals' = [i \in Instances |->
                  IF SendsFinal(i) THEN finals[i] + 1 ELSE finals[i]]
  /\ forced' = forced \cup
                 {i \in Instances : "exit" \in chans[i] /\ "exit" \notin chans'[i]}

HSpec == HInit /\ [][HNext]_hvars
-----------------------------------------------------------------------------
\* Key k has been forced to exit by an instance other than i, whose loop may
\* still set the status of the key.
Disturbed(i) == \E j \in forced : j # i /\ keyOf[j] = keyOf[i]

\* List tells the truth about a task under control: while its loop is running
\* it is listed running, while it is paused it is listed paused; the second
\* setTaskStatus of Run never overwrites a pause.  (A loop left behind by a
\* forced exit of an earlier run writes to the same entry: excluded.)
ListTruthful ==
  \A i \in 1..runs :
    outer[i] = "wait" /\ ~Disturbed(i) =>
      /\ inner[i] \in {"start", "loop", "call"} =>
           taskStatus[keyOf[i]] = Running
      /\ inner[i] = "paused" => taskStatus[keyOf[i]] = Paused

\* A loop takes only the tokens meant for its own run; the one exception is a
\* loop that was forced to exit before it had read its control object, and
\* then finds the one of the next run.
OwnTokens ==
  \A i \in 1..runs : i \notin forced => bound[i] \in {None, i}

\* No run ends unreported: when its control object is removed a final status
\* has been sent, whichever of stop, finish, error, panic and exit ended it;
\* and unless it was forced to exit exactly one was sent.
FinalReported ==
  \A i \in 1..runs :
    outer[i] \in {"delete", "gone"} =>
      /\ finals[i] >= 1
      /\ i \notin forced => finals[i] = 1
=============================================================================
