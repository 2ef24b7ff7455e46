-------------------------- MODULE GoroutineExecutor --------------------------
(***************************************************************************)
(* core/worker/executor/goroutine: tasks run as goroutines of the worker.  *)
(*                                                                         *)
(* Each accepted Run makes an instance: a control object (four channels of *)
(* capacity one), an outer goroutine that waits for the end of the task or *)
(* for a forced exit, and an inner one that calls the business logic in a  *)
(* loop.  Instance n owns control object n.  Channels of capacity one are  *)
(* token sets.  One goroutine, the worker's change syncer, calls Run,      *)
(* Exit, Stop, Pause and Resume; caller says where it is.                  *)
(*                                                                         *)
(* A step is what a goroutine does up to the next point where the others   *)
(* can tell: a lock taken on shared state or a channel operation.          *)
(***************************************************************************)
EXTENDS Naturals, Sequences, TaskStatus

CONSTANTS Keys,       \* task keys
          MaxRuns,    \* bound: accepted calls of Run
          ResultCap,  \* capacity of resultChan
          Outcomes    \* how a call of the business logic may end

AllOutcomes == {"continue", "finish", "error", "panic"}

ASSUME BoundsAssumption == MaxRuns \in Nat /\ ResultCap \in Nat \ {0}
ASSUME OutcomesAssumption == Outcomes \subseteq AllOutcomes

VARIABLES ctrls,      \* per key: the instance whose control object is in the map
          taskStatus, \* per key: the status listed for it, NotExist if none
          resultChan, \* the status events not yet received
          keyOf,      \* the instances made so far: the task of each
          chans,      \* per instance: the tokens in its four channels
          inner,      \* per instance: where its loop is
          bound,      \* per instance: the control object its loop works with
          report,     \* per instance: the status its loop is sending, if any
          outer,      \* per instance: where its outer goroutine is
          caller      \* the goroutine that calls the interface

evars == <<ctrls, taskStatus, resultChan, keyOf, chans, inner, bound,
           report, outer, caller>>

Instances == 1..MaxRuns
Chans     == {"stop", "pause", "resume", "exit"}
None      == 0

runs      == Len(keyOf)

Idle == [at |-> "idle", inst |-> None, ch |-> "exit"]

EInit ==
  /\ ctrls = [k \in Keys |-> None]
  /\ taskStatus = [k \in Keys |-> NotExist]
  /\ resultChan = <<>>
  /\ keyOf = <<>>
  /\ chans = [i \in Instances |-> {}]
  /\ inner = [i \in Instances |-> "none"]
  /\ bound = [i \in Instances |-> None]
  /\ report = [i \in Instances |-> NotExist]
  /\ outer = [i \in Instances |-> "none"]
  /\ caller = Idle
-----------------------------------------------------------------------------
\* Mutant: a final status is kept like any other.
KeepStatus(k, s) == [taskStatus EXCEPT ![k] = s]

\* The value taskStatus gets from setTaskStatus: a final status removes the
\* entry.
WithStatus(k, s) ==
  [taskStatus EXCEPT ![k] = IF IsFinalStatus(s) THEN NotExist ELSE s]

setTaskStatus(k, s) == taskStatus' = WithStatus(k, s)

Send(k, s) ==
  /\ Len(resultChan) < ResultCap
  /\ resultChan' = Append(resultChan, [key |-> k, status |-> s])

\* ChangeResult: the manager receives the oldest event.
Recv ==
  /\ resultChan # <<>>
  /\ resultChan' = Tail(resultChan)
  /\ UNCHANGED <<ctrls, taskStatus, keyOf, chans, inner, bound, report,
                 outer, caller>>
-----------------------------------------------------------------------------
(* The caller.                                                             *)

\* Mutant: Run does not look for a control object of the key.
RunAgain(k) ==
  LET i == runs + 1 IN
  /\ caller = Idle
  /\ runs < MaxRuns
  /\ setTaskStatus(k, Running)
  /\ ctrls' = [ctrls EXCEPT ![k] = i]
  /\ keyOf' = Append(keyOf, k)
  /\ outer' = [outer EXCEPT ![i] = "start"]
  /\ caller' = [at |-> "runSync", inst |-> i, ch |-> "exit"]
  /\ UNCHANGED <<resultChan, chans, inner, bound, report>>

\* Run up to the start of the goroutines.  A key with a control object is
\* refused ("task already running").
Run(k) ==
  LET i == runs + 1 IN
  /\ caller = Idle
  /\ ctrls[k] = None
  /\ runs < MaxRuns
  /\ setTaskStatus(k, Running)
  /\ ctrls' = [ctrls EXCEPT ![k] = i]
  /\ keyOf' = Append(keyOf, k)
  /\ outer' = [outer EXCEPT ![i] = "start"]
  /\ caller' = [at |-> "runSync", inst |-> i, ch |-> "exit"]
  /\ UNCHANGED <<resultChan, chans, inner, bound, report>>

\* The syncRunResult at the end of Run: it sets the status, then sends it.
RunSync ==
  /\ caller.at = "runSync"
  /\ setTaskStatus(keyOf[caller.inst], Running)
  /\ caller' = [caller EXCEPT !.at = "runSend"]
  /\ UNCHANGED <<ctrls, resultChan, keyOf, chans, inner, bound, report,
                 outer>>

RunSend ==
  /\ caller.at = "runSend"
  /\ Send(keyOf[caller.inst], Running)
  /\ caller' = Idle
  /\ UNCHANGED <<ctrls, taskStatus, keyOf, chans, inner, bound, report,
                 outer>>

\* A send on channel ch of control object c: it blocks while the channel is
\* full.
Put(c, ch) ==
  /\ IF ch \in chans[c]
       THEN /\ caller' = [at |-> "send", inst |-> c, ch |-> ch]
            /\ UNCHANGED chans
       ELSE /\ chans' = [chans EXCEPT ![c] = @ \cup {ch}]
            /\ caller' = Idle
  /\ UNCHANGED <<ctrls, taskStatus, resultChan, keyOf, inner, bound,
                 report, outer>>

\* A control call with the channel it looks at and the one it sends on.  It is
\* refused without a control object, and does nothing if the former is full.
Control(k, guard, ch) ==
  /\ caller = Idle
  /\ ctrls[k] # None
  /\ guard \notin chans[ctrls[k]]
  /\ Put(ctrls[k], ch)

Exit(k)   == Control(k, "stop", "exit")

StopTask(k) == Control(k, "stop", "stop")

\* Mutant: Pause guards with its own channel, as Resume does.
PauseOwnGuard(k) == Control(k, "pause", "pause")

Pause(k)  == Control(k, "stop", "pause")
Resume(k) == Control(k, "resume", "resume")

\* The blocked send completes when the channel has room again.
PutBlocked ==
  /\ caller.at = "send"
  /\ caller.ch \notin chans[caller.inst]
  /\ chans' = [chans EXCEPT ![caller.inst] = @ \cup {caller.ch}]
  /\ caller' = Idle
  /\ UNCHANGED <<ctrls, taskStatus, resultChan, keyOf, inner, bound,
                 report, outer>>

CallerStep == RunSync \/ RunSend \/ PutBlocked
-----------------------------------------------------------------------------
(* The inner goroutine: run.                                               *)

\* It reads its control object from the map.  With none there the first use
\* is a nil dereference, which its deferred function recovers from.
InnerStart(i) ==
  /\ inner[i] = "start"
  /\ bound' = [bound EXCEPT ![i] = ctrls[keyOf[i]]]
  /\ inner' = [inner EXCEPT ![i] =
                 IF ctrls[keyOf[i]] = None THEN "crashed" ELSE "loop"]
  /\ UNCHANGED <<ctrls, taskStatus, resultChan, keyOf, chans, report,
                 outer, caller>>

\* A status is set in the map and is then to be sent.
Sync(i, s) ==
  /\ setTaskStatus(keyOf[i], s)
  /\ report' = [report EXCEPT ![i] = s]
  /\ inner' = [inner EXCEPT ![i] = "send"]

\* The loop receives from channel ch and reports status s.
Obey(i, ch, s) ==
  /\ ch \in chans[bound[i]]
  /\ chans' = [chans EXCEPT ![bound[i]] = @ \ {ch}]
  /\ Sync(i, s)
  /\ UNCHANGED <<ctrls, resultChan, keyOf, bound, outer, caller>>

\* The select in the loop: between ready channels the choice is free.
InnerObey(i) ==
  /\ inner[i] = "loop"
  /\ Obey(i, "stop", Stop) \/ Obey(i, "pause", Paused)

\* Mutant: a resumed loop goes on without syncRunResult.
ResumeQuietly(i) ==
  /\ inner[i] = "paused"
  /\ \/ Obey(i, "stop", Stop)
     \/ /\ "resume" \in chans[bound[i]]
        /\ chans' = [chans EXCEPT ![bound[i]] = @ \ {"resume"}]
        /\ inner' = [inner EXCEPT ![i] = "loop"]
        /\ UNCHANGED <<ctrls, taskStatus, resultChan, keyOf, bound, report,
                       outer, caller>>

\* The select of a paused loop.
PausedObey(i) ==
  /\ inner[i] = "paused"
  /\ Obey(i, "stop", Stop) \/ Obey(i, "resume", Running)

\* The select's default, taken only when neither channel is ready: a call of
\* the business logic.  Tokens may arrive before it returns.
CallBizLogic(i) ==
  /\ inner[i] = "loop"
  /\ {"stop", "pause"} \cap chans[bound[i]] = {}
  /\ inner' = [inner EXCEPT ![i] = "call"]
  /\ UNCHANGED <<ctrls, taskStatus, resultChan, keyOf, chans, bound, report,
                 outer, caller>>

\* The call returns, or panics.
BizLogicReturns(i) ==
  /\ inner[i] = "call"
  /\ \/ "finish" \in Outcomes /\ Sync(i, Success)
     \/ "error" \in Outcomes /\ Sync(i, Failed)
     \/ /\ "continue" \in Outcomes
        /\ inner' = [inner EXCEPT ![i] = "loop"]
        /\ UNCHANGED <<taskStatus, report>>
     \/ /\ "panic" \in Outcomes
        /\ inner' = [inner EXCEPT ![i] = "crashed"]
        /\ UNCHANGED <<taskStatus, report>>
  /\ UNCHANGED <<ctrls, resultChan, keyOf, chans, bound, outer, caller>>

\* Mutant: the loop does not return after a stop.
AfterSendGoesOn(s) == IF s = Paused THEN "paused" ELSE "loop"

AfterSend(s) ==
  CASE s = Running -> "loop"
    [] s = Paused  -> "paused"
    [] OTHER       -> "ended"

\* The send of the status; after a final one the loop returns and its
\* deferred function reports on finishCh ("ended", or "crashed" with err set).
InnerSend(i) ==
  /\ inner[i] = "send"
  /\ Send(keyOf[i], report[i])
  /\ inner' = [inner EXCEPT ![i] = AfterSend(report[i])]
  /\ report' = [report EXCEPT ![i] = NotExist]
  /\ UNCHANGED <<ctrls, taskStatus, keyOf, chans, bound, outer, caller>>

Inner(i) ==
  \/ InnerStart(i)
  \/ InnerObey(i)
  \/ PausedObey(i)
  \/ CallBizLogic(i)
  \/ BizLogicReturns(i)
  \/ InnerSend(i)
-----------------------------------------------------------------------------
(* The outer goroutine of Run.                                             *)

\* It starts the inner goroutine and waits on the control object it reads
\* from the map, which is its own (OwnCtrl).
OuterStart(i) ==
  /\ outer[i] = "start"
  /\ inner' = [inner EXCEPT ![i] = "start"]
  /\ outer' = [outer EXCEPT ![i] = "wait"]
  /\ UNCHANGED <<ctrls, taskStatus, resultChan, keyOf, chans, bound,
                 report, caller>>

\* A forced exit: the task is reported failed.  The loop is not told.
OuterExit(i) ==
  /\ outer[i] = "wait"
  /\ "exit" \in chans[i]
  /\ chans' = [chans EXCEPT ![i] = @ \ {"exit"}]
  /\ setTaskStatus(keyOf[i], Failed)
  /\ outer' = [outer EXCEPT ![i] = "report"]
  /\ UNCHANGED <<ctrls, resultChan, keyOf, inner, bound, report, caller>>

\* Mutant: the error of a panic is not reported.
OuterFinishSilently(i) ==
  /\ outer[i] = "wait"
  /\ inner[i] \in {"ended", "crashed"}
  /\ outer' = [outer EXCEPT ![i] = "delete"]
  /\ UNCHANGED <<ctrls, taskStatus, resultChan, keyOf, chans, inner,
                 bound, report, caller>>

\* The end of the loop; a panic is reported as a failure.
OuterFinish(i) ==
  /\ outer[i] = "wait"
  /\ \/ /\ inner[i] = "ended"
        /\ outer' = [outer EXCEPT ![i] = "delete"]
        /\ UNCHANGED taskStatus
     \/ /\ inner[i] = "crashed"
        /\ outer' = [outer EXCEPT ![i] = "report"]
        /\ setTaskStatus(keyOf[i], Failed)
  /\ UNCHANGED <<ctrls, resultChan, keyOf, chans, inner, bound, report,
                 caller>>

\* Mutant: the deferred function reports the failure and deletes nothing.
OuterSendOnly(i) ==
  /\ outer[i] = "report"
  /\ Send(keyOf[i], Failed)
  /\ outer' = [outer EXCEPT ![i] = "gone"]
  /\ UNCHANGED <<ctrls, taskStatus, keyOf, chans, inner, bound, report, caller>>

\* The failure is sent before the control object is deleted.
OuterSend(i) ==
  /\ outer[i] = "report"
  /\ Send(keyOf[i], Failed)
  /\ outer' = [outer EXCEPT ![i] = "delete"]
  /\ UNCHANGED <<ctrls, taskStatus, keyOf, chans, inner, bound, report,
                 caller>>

\* delTaskCtrl: whatever control object the key has.
OuterDelete(i) ==
  /\ outer[i] = "delete"
  /\ ctrls' = [ctrls EXCEPT ![keyOf[i]] = None]
  /\ outer' = [outer EXCEPT ![i] = "gone"]
  /\ UNCHANGED <<taskStatus, resultChan, keyOf, chans, inner, bound,
                 report, caller>>

Outer(i) ==
  \/ OuterStart(i)
  \/ OuterExit(i)
  \/ OuterFinish(i)
  \/ OuterSend(i)
  \/ OuterDelete(i)
-----------------------------------------------------------------------------
Call(k) == Run(k) \/ Exit(k) \/ StopTask(k) \/ Pause(k) \/ Resume(k)

ENext ==
  \/ \E k \in Keys : Call(k)
  \/ CallerStep
  \/ Recv
  \/ \E i \in Instances : Inner(i) \/ Outer(i)

ESpec == EInit /\ [][ENext]_evars

\* Goroutines run: the scheduler of Go leaves none that can run behind, the
\* business logic returns from each call (it need never finish the task), and
\* the manager receives every event.  Goroutines blocked in a send on the
\* same channel are served in order, so none is overtaken for ever: strong
\* fairness.  Nobody has to call anything.
EFairness ==
  /\ WF_evars(CallerStep) /\ SF_evars(RunSend)
  /\ WF_evars(Recv)
  /\ \A i \in Instances :
       /\ WF_evars(Inner(i)) /\ SF_evars(InnerSend(i))
       /\ WF_evars(Outer(i)) /\ SF_evars(OuterSend(i))

EFairSpec == ESpec /\ EFairness
-----------------------------------------------------------------------------
InnerPcs == {"none", "start", "loop", "call", "paused", "send", "ended",
             "crashed"}
OuterPcs == {"none", "start", "wait", "report", "delete", "gone"}

ETypeOK ==
  /\ ctrls \in [Keys -> Instances \cup {None}]
  /\ taskStatus \in [Keys -> LiveStatuses \cup {NotExist}]
  /\ resultChan \in Seq([key : Keys, status : LiveStatuses \cup FinalStatuses])
  /\ Len(resultChan) <= ResultCap
  /\ keyOf \in Seq(Keys)
  /\ runs <= MaxRuns
  /\ chans \in [Instances -> SUBSET Chans]
  /\ inner \in [Instances -> InnerPcs]
  /\ bound \in [Instances -> Instances \cup {None}]
  /\ report \in [Instances -> Statuses]
  /\ outer \in [Instances -> OuterPcs]
  /\ caller \in [at : {"idle", "runSync", "runSend", "send"},
                 inst : Instances \cup {None}, ch : Chans]

\* Instance i has the entry of its key in ctrls.
Attached(i) == i <= runs /\ ctrls[keyOf[i]] = i

\* The loop of instance i may still call the business logic.
Live(i) ==
  \/ inner[i] \in {"start", "loop", "call", "paused"}
  \/ inner[i] = "send" /\ ~IsFinalStatus(report[i])

\* From Run until its own delTaskCtrl an instance has the map entry of its
\* key.  So the pointer the outer goroutine reads is never nil nor another
\* run's, its delete removes no other run's control object, and a key never
\* has two runs that can be controlled.
OwnCtrl ==
  \A i \in 1..runs : outer[i] # "gone" <=> ctrls[keyOf[i]] = i

\* A stop that was accepted takes effect, however it mixes with a pause and
\* resumes and whatever the loop is doing: the run ends and its control
\* object is removed.  (Unless a loop of an earlier run, forced to exit before
\* it had started, works with the same control object and takes the token.)
StopEndsRun ==
  \A i \in Instances :
    (Attached(i) /\ "stop" \in chans[i]) ~>
      (~Attached(i) \/ \E j \in Instances : j # i /\ bound[j] = i)

\* A forced exit is carried out: the run's control object is removed.
ExitEndsRun ==
  \A i \in Instances : (Attached(i) /\ "exit" \in chans[i]) ~> ~Attached(i)
=============================================================================
