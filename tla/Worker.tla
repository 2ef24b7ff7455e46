------------------------------- MODULE Worker -------------------------------
(***************************************************************************)
(* core/worker with core/worker/infomer: the control loop of one worker,   *)
(* which drives the executor towards the wanted status of every task the   *)
(* scheduler has assigned to it.                                           *)
(*                                                                         *)
(*   watcher, resyncer -> tasksCh -> enqueuer -> changeQueue -> syncer     *)
(*     -> executor -> resultChan -> ch -> monitor -> record and Done       *)
(*                                                                         *)
(* The executor is GoroutineExecutor, whose caller is the syncer; the      *)
(* queue is what TypedQueue implements, UniqueQueue.  The record of a task *)
(* is kept by the task repository, a service outside the repository; the   *)
(* scheduler's OperateTask and assignTask change it too.  Every read and   *)
(* write of the record, the cache and the queue is a step of its own.      *)
(***************************************************************************)
EXTENDS GoroutineExecutor, FiniteSets

CONSTANTS Assigned,   \* tasks assigned to the worker before it starts
          MaxOps,     \* bound: operations of users
          MaxReqs,    \* bound: operations under way at the same time
          MaxFail,    \* bound: failing calls of the task repository
          MaxCrash,   \* bound: crashes of the worker process
          TrigCap,    \* capacity of tasksCh
          ChCap,      \* capacity of the channels between executor and monitor
          Activities  \* what happens besides: timers, and a shutdown

ASSUME WorkerBounds ==
  /\ Assigned \subseteq Keys
  /\ {MaxOps, MaxReqs, MaxFail, MaxCrash} \subseteq Nat
  /\ {TrigCap, ChCap} \subseteq Nat \ {0}
  /\ Activities \subseteq {"resync", "refresh", "recycle", "shutdown"}

VARIABLES rec,       \* per key: the record, [status, want]
          watch,     \* keys whose change the repository has yet to announce
          oper,      \* the calls of OperateTask under way in the scheduler
          tasksCh,   \* triggers for the enqueuer
          resyncer,  \* the goroutine of makeTigger that lists periodically
          enq,       \* the goroutine in enqueueIfTaskChange
          pending, active, closed,   \* changeQueue
          change,    \* what the syncer has taken, as a set of at most one
          ch,        \* events for the monitor
          mon,       \* the goroutine in Indexer.Monitor
          refresher, \* the goroutine that calls refreshCache
          cache,     \* per key: the cached real status, NotExist if none
          spent      \* operations, failures and crashes so far

qvars == <<pending, active, closed>>
ivars == <<tasksCh, resyncer, enq, pending, active, closed, change, ch, mon,
           refresher, cache>>
svars == <<rec, watch, oper, spent>>
vars  == <<evars, ivars, svars>>

Changes == [key : Keys, type : NormalChanges]

Queue == INSTANCE UniqueQueue WITH Items <- Changes

Runnable == {k \in Keys : rec[k].status \notin FinalStatuses \cup {WaitScheduling}}
Cached   == {k \in Keys : cache[k] # NotExist}

IdleEnq == [at |-> "idle", resync |-> FALSE, keys |-> {}, skip |-> {},
            real |-> {}, want |-> <<>>, changes |-> {}]
IdleMon == [at |-> "idle", ev |-> <<>>]

\* The informer of a worker that starts: makeTigger has listed the tasks once.
Started ==
  /\ tasksCh = <<[resync |-> TRUE, keys |-> Assigned]>>
  /\ resyncer = {}
  /\ enq = IdleEnq
  /\ pending = <<>> /\ active = {} /\ closed = FALSE
  /\ change = {}
  /\ ch = <<>>
  /\ mon = IdleMon
  /\ refresher = <<>>
  /\ cache = [k \in Keys |-> NotExist]

Init ==
  /\ EInit
  /\ Started
  /\ rec = [k \in Keys |->
              IF k \in Assigned
                THEN [status |-> PreWaitStatus(Running), want |-> Running]
                ELSE [status |-> WaitScheduling, want |-> NotExist]]
  /\ watch = {}
  /\ oper = {}
  /\ spent = [ops |-> 0, fails |-> 0, crashes |-> 0]
-----------------------------------------------------------------------------
(* The task repository and the scheduler.                                  *)

\* UpdateTask with a status only: what the worker writes.
UpdateStatus(k, s) == rec' = [rec EXCEPT ![k].status = s]

\* A call of the repository fails.
Fails ==
  /\ spent.fails < MaxFail
  /\ spent' = [spent EXCEPT !.fails = @ + 1]

\* assignTask, for the first time: the task is to run on this worker.
assignTask(k) ==
  /\ rec[k].status = WaitScheduling
  /\ rec' = [rec EXCEPT ![k] = [status |-> PreWaitStatus(Running),
                                want |-> Running]]
  /\ watch' = watch \cup {k}
  /\ UNCHANGED <<evars, ivars, oper, spent>>

\* OperateTask: the record is read and the transition is checked, ...
OperateTask(k, next) ==
  /\ Cardinality(oper) < MaxReqs
  /\ spent.ops < MaxOps
  /\ CanTransition(rec[k].status, next)
  /\ PreWaitStatus(next) # ""
  /\ oper' = oper \cup {[key |-> k, next |-> next]}
  /\ spent' = [spent EXCEPT !.ops = @ + 1]
  /\ UNCHANGED <<evars, ivars, rec, watch>>

\* ... then it is updated, whatever it has become.
OperateUpdate ==
  \E o \in oper :
    /\ rec' = [rec EXCEPT ![o.key] = [status |-> PreWaitStatus(o.next),
                                      want |-> o.next]]
    /\ watch' = watch \cup {o.key}
    /\ oper' = oper \ {o}
    /\ UNCHANGED <<evars, ivars, spent>>
-----------------------------------------------------------------------------
(* makeTigger: what makes the informer look.                               *)

SendTrigger(resync, keys) ==
  /\ Len(tasksCh) < TrigCap
  /\ tasksCh' = Append(tasksCh, [resync |-> resync, keys |-> keys])

\* WatchRunnableTasks announces the changed keys, the watcher passes them on.
WatchTrigger ==
  /\ watch # {}
  /\ SendTrigger(FALSE, watch)
  /\ watch' = {}
  /\ UNCHANGED <<evars, rec, oper, spent, resyncer, enq, pending, active, closed,
                 change, ch, mon, refresher, cache>>

\* On a tick the resyncer lists the runnable keys and then sends them.
ResyncList ==
  /\ "resync" \in Activities
  /\ resyncer = {}
  /\ resyncer' = {Runnable}
  /\ UNCHANGED <<evars, svars, tasksCh, enq, pending, active, closed, change, ch, mon,
                 refresher, cache>>

ResyncSend ==
  /\ \E keys \in resyncer : SendTrigger(TRUE, keys)
  /\ resyncer' = {}
  /\ UNCHANGED <<evars, svars, enq, pending, active, closed, change, ch, mon,
                 refresher, cache>>
-----------------------------------------------------------------------------
(* enqueueIfTaskChange.                                                    *)

\* A trigger is taken; keys the queue knows are left to a later trigger.
TakeTrigger ==
  /\ enq.at = "idle"
  /\ tasksCh # <<>>
  /\ LET t    == Head(tasksCh)
         skip == {k \in t.keys : Queue!Exist(k)}
     IN  enq' = [IdleEnq EXCEPT !.at = "keys", !.resync = t.resync,
                                !.keys = t.keys \ skip, !.skip = skip]
  /\ tasksCh' = Tail(tasksCh)
  /\ UNCHANGED <<evars, svars, resyncer, pending, active, closed, change, ch, mon,
                 refresher, cache>>

\* Mutant: the keys being processed are filtered on the wanted side only.
ListAllTaskKeys ==
  /\ enq.at = "keys"
  /\ LET real == IF enq.resync THEN Cached ELSE enq.keys
     IN  enq' = IF enq.keys = {} /\ real = {}
                  THEN IdleEnq
                  ELSE [enq EXCEPT !.at = "want", !.real = real]
  /\ UNCHANGED <<evars, svars, tasksCh, resyncer, pending, active, closed,
                 change, ch, mon, refresher, cache>>

\* The keys whose real status is looked at: after a resync all cached ones.
ListTaskKeys ==
  /\ enq.at = "keys"
  /\ LET real == IF enq.resync THEN Cached \ enq.skip ELSE enq.keys
     IN  enq' = IF enq.keys = {} /\ real = {}
                  THEN IdleEnq
                  ELSE [enq EXCEPT !.at = "want", !.real = real]
  /\ UNCHANGED <<evars, svars, tasksCh, resyncer, pending, active, closed, change, ch,
                 mon, refresher, cache>>

\* The wanted side; the trigger is dropped when the repository fails.
BatchGetTask ==
  /\ enq.at = "want"
  /\ \/ /\ enq' = [enq EXCEPT !.at = "real",
                              !.want = [k \in enq.keys |-> rec[k]]]
        /\ UNCHANGED spent
     \/ Fails /\ enq' = IdleEnq
  /\ UNCHANGED <<evars, rec, watch, oper, tasksCh, resyncer, pending, active, closed,
                 change, ch, mon, refresher, cache>>

\* ListTasks: with no keys, everything.
ListTasks(keys) == IF keys = {} THEN Cached ELSE Cached \cap keys

\* Mutant: a task recorded as running is not created.
diffTrustingRecord(k, want, wanted, real) ==
  LET wantStatus == IF wanted THEN want[k].want ELSE NotExist
      type       == GetChangeType(real, wantStatus)
  IN  IF \/ wanted /\ want[k].status \in FinalStatuses \cup {Running}
         \/ IsFinalStatus(real)
         \/ real = wantStatus
         \/ type = NoChange
        THEN {}
        ELSE {[key |-> k, type |-> type]}

\* The change that takes the real status to the wanted one, as a set of at
\* most one; a pair with a finished side, or none outside the table, has none.
diff(k, want, wanted, real) ==
  LET wantStatus == IF wanted THEN want[k].want ELSE NotExist
      type       == GetChangeType(real, wantStatus)
  IN  IF \/ wanted /\ IsFinalStatus(want[k].status)
         \/ IsFinalStatus(real)
         \/ real = wantStatus
         \/ type = NoChange
        THEN {}
        ELSE {[key |-> k, type |-> type]}

\* The real side, the pairs, the filter and the diff.
Diff ==
  /\ enq.at = "real"
  /\ LET real    == ListTasks(enq.real)
         changes == UNION {diff(k, enq.want, k \in enq.keys,
                                IF k \in real THEN cache[k] ELSE NotExist) :
                             k \in enq.keys \cup real}
     IN  enq' = IF changes = {} THEN IdleEnq
                  ELSE [IdleEnq EXCEPT !.at = "apply", !.changes = changes]
  /\ UNCHANGED <<evars, svars, tasksCh, resyncer, pending, active, closed, change, ch,
                 mon, refresher, cache>>

Exceptions == {c \in enq.changes : IsException(c.type)}

WithoutChange(c) ==
  IF enq.changes = {c} THEN IdleEnq ELSE [enq EXCEPT !.changes = @ \ {c}]

\* handleException: a task that should be paused or stopped and is not there
\* is recorded as paused.
handleException ==
  /\ enq.at = "apply"
  /\ \E c \in Exceptions :
       /\ enq' = WithoutChange(c)
       /\ \/ UpdateStatus(c.key, Paused) /\ UNCHANGED spent
          \/ Fails /\ UNCHANGED rec
  /\ UNCHANGED <<evars, watch, oper, tasksCh, resyncer, pending, active, closed,
                 change, ch, mon, refresher, cache>>

\* The other changes are added to the queue, which may drop them.
Enqueue ==
  /\ enq.at = "apply"
  /\ Exceptions = {}
  /\ \E c \in enq.changes :
       /\ enq' = WithoutChange(c)
       /\ IF Queue!Accepts(c) THEN Queue!Offer(c) ELSE UNCHANGED qvars
  /\ UNCHANGED <<evars, svars, tasksCh, resyncer, change, ch, mon, refresher,
                 cache>>

Enqueuer ==
  \/ TakeTrigger
  \/ ListTaskKeys
  \/ BatchGetTask
  \/ Diff
  \/ handleException
  \/ Enqueue
-----------------------------------------------------------------------------
(* runChangeSyncer and Manager.ChangeHandle.                               *)

WaitChange ==
  /\ change = {}
  /\ caller = Idle
  /\ Queue!Take
  /\ change' = {Head(pending)}
  /\ UNCHANGED <<evars, svars, tasksCh, resyncer, enq, ch, mon, refresher,
                 cache>>

\* The executor refuses: "task already running", or "... need after run".
Refused(c) == (c.type = "create") <=> (ctrls[c.key] # None)

\* It returns nil and does nothing: a channel it looks at is full.
Ignored(c) ==
  /\ c.type # "create" /\ ctrls[c.key] # None
  /\ (IF c.type = "resume" THEN "resume" ELSE "stop") \in chans[ctrls[c.key]]

ChangeHandle(c) ==
  \/ c.type = "create" /\ Run(c.key)
  \/ c.type = "delete" /\ Exit(c.key)
  \/ c.type = "pause"  /\ Pause(c.key)
  \/ c.type = "resume" /\ Resume(c.key)
  \/ c.type = "stop"   /\ StopTask(c.key)

\* A refused change is done (JumpChange); a change the executor accepts stays
\* in the queue's processing set until an event of its task arrives.
SyncChange ==
  \E c \in change :
    /\ change' = {}
    /\ \/ ChangeHandle(c) /\ UNCHANGED qvars
       \/ Refused(c) /\ Queue!Finish(c.key) /\ UNCHANGED evars
       \/ Ignored(c) /\ UNCHANGED <<evars, qvars>>
    /\ UNCHANGED <<svars, tasksCh, resyncer, enq, ch, mon, refresher, cache>>

\* The syncer inside a call of the executor.
SyncerBlocked == CallerStep /\ UNCHANGED <<ivars, svars>>

Executor(i) == (Inner(i) \/ Outer(i)) /\ UNCHANGED <<ivars, svars>>
-----------------------------------------------------------------------------
(* Indexer.Monitor, with monitorChangeResult as what it does after each    *)
(* change.                                                                 *)

SendEvent(e) ==
  /\ Len(ch) < ChCap
  /\ ch' = Append(ch, e)

\* Manager.ChangeResult and the watching goroutine of Monitor.
Forward ==
  /\ Recv
  /\ SendEvent(Head(resultChan))
  /\ UNCHANGED <<svars, tasksCh, resyncer, enq, pending, active, closed, change, mon,
                 refresher, cache>>

\* Mutant: an event reaches the record but not the cache.
MonitorSkipsCache ==
  /\ mon.at = "idle"
  /\ ch # <<>>
  /\ mon' = [at |-> "update", ev |-> Head(ch)]
  /\ ch' = Tail(ch)
  /\ UNCHANGED <<evars, svars, tasksCh, resyncer, enq, pending, active, closed,
                 change, refresher, cache>>

\* processTask: the cache is set, ...
MonitorSet ==
  /\ mon.at = "idle"
  /\ ch # <<>>
  /\ cache' = [cache EXCEPT ![Head(ch).key] = Head(ch).status]
  /\ mon' = [at |-> "update", ev |-> Head(ch)]
  /\ ch' = Tail(ch)
  /\ UNCHANGED <<evars, svars, tasksCh, resyncer, enq, pending, active, closed, change,
                 refresher>>

\* ... the record is updated, unless the repository fails every time, ...
MonitorUpdate ==
  /\ mon.at = "update"
  /\ \/ UpdateStatus(mon.ev.key, mon.ev.status) /\ UNCHANGED spent
     \/ Fails /\ UNCHANGED rec
  /\ mon' = [mon EXCEPT !.at = "done"]
  /\ UNCHANGED <<evars, watch, oper, tasksCh, resyncer, enq, pending, active, closed,
                 change, ch, refresher, cache>>

\* Mutant: the change is never marked done.
MonitorForgetsDone ==
  /\ mon.at = "done"
  /\ mon' = IdleMon
  /\ UNCHANGED <<evars, svars, tasksCh, resyncer, enq, pending, active, closed,
                 change, ch, refresher, cache>>

\* ... and the change is done.
MonitorDone ==
  /\ mon.at = "done"
  /\ Queue!Finish(mon.ev.key)
  /\ mon' = IdleMon
  /\ UNCHANGED <<evars, svars, tasksCh, resyncer, enq, change, ch, refresher,
                 cache>>

Monitor == MonitorSet \/ MonitorUpdate \/ MonitorDone

\* refreshCache on a tick: the executors' list is taken, ...
RefreshList ==
  /\ "refresh" \in Activities
  /\ refresher = <<>>
  /\ refresher' = [k \in {j \in Keys : taskStatus[j] # NotExist} |-> taskStatus[k]]
  /\ UNCHANGED <<evars, svars, tasksCh, resyncer, enq, pending, active, closed, change,
                 ch, mon, cache>>

\* ... and each status that differs from the cached one becomes an event.
RefreshPush ==
  /\ \E k \in DOMAIN refresher :
       /\ IF cache[k] # refresher[k]
            THEN SendEvent([key |-> k, status |-> refresher[k]])
            ELSE UNCHANGED ch
       /\ refresher' = [j \in DOMAIN refresher \ {k} |-> refresher[j]]
  /\ UNCHANGED <<evars, svars, tasksCh, resyncer, enq, pending, active, closed, change,
                 mon, cache>>

\* Nothing of run i is under way but a call of the business logic or a pause,
\* which may last.
AtRest(i) ==
  \/ outer[i] = "wait" /\ inner[i] \in {"call", "paused"} /\ "exit" \notin chans[i]
  \/ /\ outer[i] \in {"none", "gone"}
     /\ inner[i] \in {"none", "call", "paused", "ended", "crashed"}

\* The cache forgets a final status after a minute: longer than any step of
\* the pipeline waits, so nothing is on its way then.
Recycle(k) ==
  /\ "recycle" \in Activities
  /\ IsFinalStatus(cache[k])
  /\ enq.at = "idle" /\ mon.at = "idle" /\ change = {} /\ caller = Idle
  /\ <<resultChan, ch, tasksCh, pending>> = <<<<>>, <<>>, <<>>, <<>>>>
  /\ refresher = <<>> /\ resyncer = {} /\ oper = {}
  /\ \A i \in Instances : AtRest(i)
  /\ cache' = [cache EXCEPT ![k] = NotExist]
  /\ UNCHANGED <<evars, svars, tasksCh, resyncer, enq, pending, active, closed, change,
                 ch, mon, refresher>>
-----------------------------------------------------------------------------
\* Infomer.Shutdown: the queue accepts nothing more.  (The goroutine that
\* waits for it to drain is in TypedQueue.)
Shutdown ==
  /\ "shutdown" \in Activities
  /\ ~closed
  /\ Queue!Close
  /\ UNCHANGED <<evars, svars, tasksCh, resyncer, enq, change, ch, mon,
                 refresher, cache>>

\* The process dies with everything it keeps in memory, the tasks that run as
\* its goroutines included, and is started again.
Crash ==
  /\ spent.crashes < MaxCrash
  /\ spent' = [spent EXCEPT !.crashes = @ + 1]
  /\ watch' = {}
  /\ UNCHANGED <<rec, oper>>
  /\ ctrls' = [k \in Keys |-> None] /\ caller' = Idle
  /\ taskStatus' = [k \in Keys |-> NotExist]
  /\ resultChan' = <<>> /\ keyOf' = <<>>
  /\ chans' = [i \in Instances |-> {}]
  /\ inner' = [i \in Instances |-> "none"]
  /\ outer' = [i \in Instances |-> "none"]
  /\ bound' = [i \in Instances |-> None]
  /\ report' = [i \in Instances |-> NotExist]
  /\ tasksCh' = <<[resync |-> TRUE, keys |-> Runnable]>>
  /\ resyncer' = {} /\ enq' = IdleEnq
  /\ pending' = <<>> /\ active' = {} /\ closed' = FALSE /\ change' = {}
  /\ ch' = <<>> /\ mon' = IdleMon /\ refresher' = <<>>
  /\ cache' = [k \in Keys |-> NotExist]

Next ==
  \/ \E k \in Keys :
       \/ assignTask(k)
       \/ \E next \in {Running, Paused, Stop} : OperateTask(k, next)
       \/ Recycle(k)
  \/ OperateUpdate
  \/ WatchTrigger
  \/ ResyncList
  \/ ResyncSend
  \/ Enqueuer
  \/ WaitChange
  \/ SyncChange
  \/ SyncerBlocked
  \/ \E i \in Instances : Executor(i)
  \/ Forward
  \/ Monitor
  \/ RefreshList
  \/ RefreshPush
  \/ Shutdown
  \/ Crash

Spec == Init /\ [][Next]_vars

\* Every goroutine that can run does, tickers tick, and the repository
\* announces changes; senders on one channel are served in order, hence the
\* strong fairness.  Nobody has to operate on a task, nothing has to fail.
Fairness ==
  /\ WF_vars(OperateUpdate)
  /\ SF_vars(WatchTrigger) /\ WF_vars(ResyncList) /\ SF_vars(ResyncSend)
  /\ WF_vars(Enqueuer)
  /\ WF_vars(WaitChange) /\ WF_vars(SyncChange)
  /\ WF_vars(SyncerBlocked) /\ SF_vars(RunSend /\ UNCHANGED <<ivars, svars>>)
  /\ \A i \in Instances :
       /\ WF_vars(Inner(i) /\ UNCHANGED <<ivars, svars>>)
       /\ SF_vars(InnerSend(i) /\ UNCHANGED <<ivars, svars>>)
       /\ WF_vars(Outer(i) /\ UNCHANGED <<ivars, svars>>)
       /\ SF_vars(OuterSend(i) /\ UNCHANGED <<ivars, svars>>)
  /\ SF_vars(Forward) /\ WF_vars(Monitor)
  /\ SF_vars(RefreshPush)

FairSpec == Spec /\ Fairness
-----------------------------------------------------------------------------
TypeOK ==
  /\ ETypeOK
  /\ rec \in [Keys -> [status : Statuses, want : Statuses]]
  /\ watch \subseteq Keys
  /\ oper \subseteq [key : Keys, next : Statuses]
  /\ tasksCh \in Seq([resync : BOOLEAN, keys : SUBSET Keys])
  /\ resyncer \subseteq SUBSET Keys
  /\ enq.at \in {"idle", "keys", "want", "real", "apply"}
  /\ pending \in Seq(Changes)
  /\ active \subseteq Keys
  /\ closed \in BOOLEAN
  /\ change \subseteq Changes /\ Cardinality(change) <= 1
  /\ ch \in Seq([key : Keys, status : LiveStatuses \cup FinalStatuses])
  /\ cache \in [Keys -> LiveStatuses \cup FinalStatuses \cup {NotExist}]

\* The comment in enqueueIfTaskChange: "changeQueue can ensure that only one
\* operation of a task is executed at the same time".  While an operation
\* waits to be carried out by the task, no other one is handed to it.
OneOperation ==
  /\ \A i \in Instances : Cardinality(chans[i]) <= 1
  /\ caller.at # "send"

\* A task is started once: no trigger, stale or repeated, makes the worker
\* run a task a second time.
StartedOnce == \A i, j \in 1..runs : keyOf[i] = keyOf[j] => i = j

\* A final record tells the truth: no loop under control still runs the task.
FinalMeansEnded ==
  \A i \in 1..runs :
    IsFinalStatus(rec[keyOf[i]].status) /\ outer[i] \in {"start", "wait"}
      => ~Live(i)

\* Some loop runs the business logic of task k.
Runs(k) ==
  \E i \in 1..runs : keyOf[i] = k /\ Live(i) /\ inner[i] # "paused"

\* The task is where its record wants it to be.
Settled(k) ==
  \/ IsFinalStatus(rec[k].status)
  \/ rec[k].want = Running /\ Runs(k)
  \/ rec[k].want \in {Paused, Stop} /\ ~Runs(k)

\* A stop the user asked for, and the scheduler accepted, is carried out and
\* recorded, unless the worker is shut down or crashes.
StopHonoured ==
  \A k \in Keys :
    rec[k].want = Stop ~>
      IsFinalStatus(rec[k].status) \/ closed \/ spent.crashes > 0

\* The control loop converges, also when the worker crashes and is restarted
\* between any two steps: once users stop asking, an assigned task runs, a
\* resumed one runs again and a paused or stopped one does not, for good,
\* unless the worker is shut down.
Converges ==
  \A k \in Keys : <>[](rec[k].want # NotExist => Settled(k) \/ closed)

\* The comment on ShutDownWithDrain: "a strict requirement for using this is;
\* your workers must ensure that Done is called on all items in the queue once
\* the shut down has been initiated".  Then Infomer.Shutdown returns.  It holds
\* for tasks that do not end by themselves: a stop or a pause put into the
\* channel of a loop that has just ended is answered by no event.
ShutdownDrains == closed ~> pending = <<>> /\ active = {}

\* docs/task_status_option.png: an executor is made to exit when the record
\* of its task does not exist; a task the record wants is not.
NoExitOfWanted ==
  \A c \in change : c.type = "delete" => c.key \notin Runnable

\* docs/task_status.png has no way out of a final status: the record of a
\* task that has ended, and that nobody operates on, stays as it is.
FinalKept ==
  [][\A k \in Keys : IsFinalStatus(rec[k].status)
                       => rec'[k].status = rec[k].status]_vars
=============================================================================
