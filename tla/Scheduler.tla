------------------------------ MODULE Scheduler ------------------------------
(***************************************************************************)
(* core/scheduler with the life of a worker (core/worker/worker.go): who   *)
(* is assigned which task while workers join, report, leave and die.       *)
(*                                                                         *)
(*   worker -> registry (discover.Interface) -> subscription callback      *)
(*     -> availableWorkers, assignEvent -> monitorAssignEvent -> record    *)
(*                                                                         *)
(* Registry, election and task repository are services outside the         *)
(* repository.  The control loop of a worker is modelled in Worker; here   *)
(* it does what that loop converges to.  A scheduler node runs one         *)
(* assigner (monitorAssignEvent) and one subscription callback, cut where  *)
(* one can see the other or another process can see either.                *)
(***************************************************************************)
EXTENDS WorkerSelection, TaskStatus

CONSTANTS Nodes,      \* scheduler processes
          Workers,    \* worker processes
          Named,      \* workers started with an id of their own
          Tasks,
          Tolerated,  \* per task: the stains it tolerates
          Usages,     \* what a worker may find its machine to be used
          Events,     \* what may happen besides
          MaxFaults,  \* bound: faults
          MaxStarts,  \* bound: starts of each worker process
          MaxOps      \* bound: operations of users

ASSUME SchedulerBounds ==
  /\ Nodes # {}
  /\ Named \subseteq Workers
  /\ Tolerated \in [Tasks -> SUBSET AllStains]
  /\ Usages \subseteq UsageType /\ Usages # {}
  /\ Events \subseteq {"shutdown", "finish", "crash", "heartbeat", "repository",
                       "registry", "election", "node"}
  /\ {MaxFaults, MaxStarts, MaxOps} \subseteq Nat

VARIABLES inst,    \* per worker: its instance in the registry
          proc,    \* per worker: the process
          starts,  \* per worker: how often it was started
          real,    \* per worker and task: the status of the task's executor
          rec,     \* per task: the record
          oper,    \* calls of OperateTask between check and update
          leader,  \* the node that holds the lease, or NoLeader
          told,    \* per node: what the registry last told it
          avail,   \* per node: availableWorkers
          event,   \* per node: is there a token in assignEvent?
          sub,     \* per node: the subscription callback
          asg,     \* per node: the goroutine of monitorAssignEvent
          spent    \* faults and operations so far

wvars == <<inst, proc, starts, real>>
tvars == <<rec, oper>>
nvars == <<told, avail, event, sub, asg>>
vars  == <<wvars, tvars, nvars, leader, spent>>

\* Who a worker is: the registry's name for its address, or the id it was
\* given.  Both outlive the process.
InstanceId(w) == <<w>>
WorkerId(w)   == IF w \in Named THEN w ELSE InstanceId(w)
NoWorker      == <<>>
NoLeader      == <<>>

\* The ids workers are given are no names of the registry.
ASSUME IdsApart ==
  /\ Named \cap ({NoWorker} \cup {InstanceId(w) : w \in Workers}) = {}
  /\ NoLeader \notin Nodes

\* Instance.ID: the worker_id of the metadata, if it has one.
ID(w) == IF inst[w].named THEN WorkerId(w) ELSE InstanceId(w)
IDs   == {NoWorker} \cup {<<w>> : w \in Workers} \cup Named

\* The healthy instances by ID: what GetAvailableInstances returns and what
\* the callback keeps of the services it is given.
Available ==
  [d \in {ID(w) : w \in {v \in Workers : inst[v].healthy}} |->
     LET w == CHOOSE v \in Workers : inst[v].healthy /\ ID(v) = d
     IN  [stains |-> inst[w].stains, usage |-> inst[w].usage]]

Instance(named, stains, usage) ==
  [named |-> named, stains |-> stains, usage |-> usage, healthy |-> TRUE]

\* Nothing is registered.
NoInstance == [Instance(FALSE, {}, NoUsage) EXCEPT !.healthy = FALSE]

Created(t)  == rec[t].status # NotExist
Runnable(t) == Created(t) /\ ~IsFinalStatus(rec[t].status)

IdleAsg == [at |-> "idle", known |-> {}, tasks |-> {}, task |-> {}, to |-> NoWorker,
            usage |-> NoUsage, list |-> <<>>]
IdleSub == [at |-> "idle", list |-> <<>>]

Init ==
  /\ inst = [w \in Workers |-> NoInstance]
  /\ proc = [w \in Workers |-> "off"]
  /\ starts = [w \in Workers |-> 0]
  /\ real = [w \in Workers |-> [t \in Tasks |-> NotExist]]
  /\ rec = [t \in Tasks |-> [status |-> NotExist, want |-> NotExist, worker |-> NoWorker]]
  /\ oper = {}
  /\ leader = NoLeader
  /\ told = [n \in Nodes |-> <<>>]
  /\ avail = [n \in Nodes |-> <<>>]
  /\ event = [n \in Nodes |-> FALSE]
  /\ sub = [n \in Nodes |-> IdleSub]
  /\ asg = [n \in Nodes |-> IdleAsg]
  /\ spent = [faults |-> 0, ops |-> 0]

Fault(kind) ==
  /\ kind \in Events
  /\ spent.faults < MaxFaults
  /\ spent' = [spent EXCEPT !.faults = @ + 1]
-----------------------------------------------------------------------------
(* The life of a worker.                                                   *)

\* init registers the worker; without an id of its own it has yet to find out
\* the one the registry gave it.
Register(w) ==
  /\ proc[w] = "off"
  /\ starts[w] < MaxStarts
  /\ starts' = [starts EXCEPT ![w] = @ + 1]
  /\ \E u \in Usages :
       inst' = [inst EXCEPT ![w] = Instance(w \in Named, GenerateStain(u, FALSE), u)]
  /\ proc' = [proc EXCEPT ![w] = IF w \in Named THEN "up" ELSE "registering"]
  /\ UNCHANGED <<real, tvars, nvars, leader, spent>>

\* It looks for itself among the available instances; after ten times it gives
\* up, and leaves the registration behind.
setInstanceID(w) ==
  /\ proc[w] = "registering"
  /\ \/ /\ inst[w].healthy
        /\ proc' = [proc EXCEPT ![w] = "up"]
        /\ UNCHANGED spent
     \/ /\ Fault("registry")
        /\ proc' = [proc EXCEPT ![w] = "off"]
  /\ UNCHANGED <<inst, starts, real, tvars, nvars, leader>>

\* runResourceUsageReporter, which runs until the process ends.
ReportUsage(w) ==
  /\ proc[w] \in {"up", "leaving"}
  /\ \E u \in Usages :
       inst' = [inst EXCEPT ![w] = Instance(TRUE, GenerateStain(u, FALSE), u)]
  /\ UNCHANGED <<proc, starts, real, tvars, nvars, leader, spent>>

\* gracefulShutdown marks the instance, or fails to, and waits for the
\* informer; the metadata it sends has the stain and nothing else.
gracefulShutdown(w) ==
  /\ "shutdown" \in Events
  /\ proc[w] = "up"
  /\ proc' = [proc EXCEPT ![w] = "leaving"]
  /\ \/ /\ inst' = [inst EXCEPT ![w] =
                      Instance(FALSE, GenerateStain(NoUsage, TRUE), NoUsage)]
        /\ UNCHANGED spent
     \/ Fault("registry") /\ UNCHANGED inst
  /\ UNCHANGED <<starts, real, tvars, nvars, leader>>

NothingRuns(w) == real' = [real EXCEPT ![w] = [t \in Tasks |-> NotExist]]

\* The informer has shut down, or the time is up: the instance is taken out of
\* the registry and the process ends with the tasks it runs.
UnRegister(w) ==
  /\ proc[w] = "leaving"
  /\ proc' = [proc EXCEPT ![w] = "off"]
  /\ inst' = [inst EXCEPT ![w] = NoInstance]
  /\ NothingRuns(w)
  /\ UNCHANGED <<starts, tvars, nvars, leader, spent>>

\* The process dies; its instance stays until the registry misses it.
CrashWorker(w) ==
  /\ proc[w] # "off"
  /\ Fault("crash")
  /\ proc' = [proc EXCEPT ![w] = "off"]
  /\ NothingRuns(w)
  /\ UNCHANGED <<inst, starts, tvars, nvars, leader>>

Expire(w) ==
  /\ proc[w] = "off" /\ inst[w] # NoInstance
  /\ inst' = [inst EXCEPT ![w] = NoInstance]
  /\ UNCHANGED <<proc, starts, real, tvars, nvars, leader, spent>>

\* The registry takes a worker that runs for unhealthy.
LoseHeartbeat(w) ==
  /\ proc[w] # "off" /\ inst[w] # NoInstance
  /\ Fault("heartbeat")
  /\ inst' = [inst EXCEPT ![w].healthy = FALSE]
  /\ UNCHANGED <<proc, starts, real, tvars, nvars, leader>>

\* What worker w makes of task t: a task that is not its own, or has ended,
\* does not exist for it.
WantedBy(w, t) ==
  IF Runnable(t) /\ rec[t].worker = WorkerId(w) THEN rec[t].want ELSE NotExist

\* The status of executor and record after a change: a task made to exit
\* counts as failed, and what should be paused but is not there as paused.
AfterChange(change) ==
  CASE change \in {"create", "resume"} -> <<Running, Running>>
    [] change = "pause"                -> <<Paused, Paused>>
    [] change = "stop"                 -> <<NotExist, Stop>>
    [] change = "delete"               -> <<NotExist, Failed>>
    [] IsException(change)             -> <<NotExist, Paused>>

\* The control loop of the worker, see module Worker.
SyncTask(w, t) ==
  /\ proc[w] = "up"
  /\ LET change == GetChangeType(real[w][t], WantedBy(w, t))
     IN  /\ change # NoChange
         /\ real' = [real EXCEPT ![w][t] = AfterChange(change)[1]]
         /\ rec' = [rec EXCEPT ![t].status = AfterChange(change)[2]]
  /\ UNCHANGED <<inst, proc, starts, oper, nvars, leader, spent>>

FinishTask(w, t) ==
  /\ "finish" \in Events
  /\ real[w][t] = Running
  /\ real' = [real EXCEPT ![w][t] = NotExist]
  /\ rec' = [rec EXCEPT ![t].status = Success]
  /\ UNCHANGED <<inst, proc, starts, oper, nvars, leader, spent>>
-----------------------------------------------------------------------------
(* Requests of users, which any node serves.                               *)

CreateTask(t) ==
  /\ ~Created(t)
  /\ rec' = [rec EXCEPT ![t].status = WaitScheduling]
  /\ UNCHANGED <<oper, wvars, nvars, leader, spent>>

\* The record is read and the transition checked, ...
OperateTask(t, next) ==
  /\ spent.ops < MaxOps
  /\ Created(t)
  /\ CanTransition(rec[t].status, next)
  /\ PreWaitStatus(next) # ""
  /\ oper' = oper \cup {[task |-> t, next |-> next]}
  /\ spent' = [spent EXCEPT !.ops = @ + 1]
  /\ UNCHANGED <<rec, wvars, nvars, leader>>

\* ... then it is updated, whatever it has become.
OperateUpdate(o) ==
  /\ oper' = oper \ {o}
  /\ rec' = [rec EXCEPT ![o.task].status = PreWaitStatus(o.next), ![o.task].want = o.next]
  /\ UNCHANGED <<wvars, nvars, leader, spent>>
-----------------------------------------------------------------------------
(* The subscription: watchWorkers.                                         *)

\* Mutant: selectWorkerID takes no lock.
ReadingUnlocked(n) == FALSE

\* selectWorkerID holds the read lock until it returns.
Reading(n) == asg[n].at \in {"estimate", "store"}

\* Mutant: the callback triggers before it releases the lock.
WritingAndTriggering(n) == sub[n].at \in {"locked", "trigger"}

\* The callback holds the write lock.
Writing(n) == sub[n].at = "locked"

\* The registry announces what differs from what it told the node before.
Notify(n) ==
  /\ sub[n].at = "idle"
  /\ Available # told[n]
  /\ told' = [told EXCEPT ![n] = Available]
  /\ sub' = [sub EXCEPT ![n] = [at |-> "compare", list |-> Available]]
  /\ UNCHANGED <<wvars, tvars, avail, event, asg, leader, spent>>

hasAvailableWorkersChanged(n) == DOMAIN sub[n].list # DOMAIN avail[n]

Compare(n) ==
  /\ sub[n].at = "compare"
  /\ sub' = [sub EXCEPT ![n].at =
               IF hasAvailableWorkersChanged(n) THEN "lock" ELSE "set"]
  /\ UNCHANGED <<wvars, tvars, told, avail, event, asg, leader, spent>>

Lock(n) ==
  /\ sub[n].at = "lock"
  /\ ~Reading(n)
  /\ sub' = [sub EXCEPT ![n].at = "locked"]
  /\ UNCHANGED <<wvars, tvars, told, avail, event, asg, leader, spent>>

\* With the lock when workers have come or gone, without it otherwise.
setAvailableWorkers(n) ==
  /\ sub[n].at \in {"locked", "set"}
  /\ avail' = [avail EXCEPT ![n] = sub[n].list]
  /\ sub' = [sub EXCEPT ![n] =
               IF sub[n].at = "locked" THEN [IdleSub EXCEPT !.at = "trigger"] ELSE IdleSub]
  /\ UNCHANGED <<wvars, tvars, told, event, asg, leader, spent>>

\* The callback waits for room in assignEvent.
triggerReAssignEvent(n) ==
  /\ sub[n].at = "trigger"
  /\ ~event[n]
  /\ event' = [event EXCEPT ![n] = TRUE]
  /\ sub' = [sub EXCEPT ![n] = IdleSub]
  /\ UNCHANGED <<wvars, tvars, told, avail, asg, leader, spent>>

autoTriggerReAssignEvent(n) ==
  /\ ~event[n]
  /\ event' = [event EXCEPT ![n] = TRUE]
  /\ UNCHANGED <<wvars, tvars, told, avail, sub, asg, leader, spent>>
-----------------------------------------------------------------------------
(* The assigner: monitorAssignEvent.                                       *)

Asg(n, next) == asg' = [asg EXCEPT ![n] = next]

\* Mutant: a worker that no task may go to does not count as available.
TakeEventUnstained(n) ==
  /\ asg[n].at = "idle"
  /\ event[n]
  /\ event' = [event EXCEPT ![n] = FALSE]
  /\ IF leader = n
       THEN Asg(n, [IdleAsg EXCEPT !.at = "load", !.known = filterWorker({}, avail[n])])
       ELSE UNCHANGED asg
  /\ UNCHANGED <<wvars, tvars, told, avail, sub, leader, spent>>

\* An event is taken, the leader asked for, and its workers are read.
TakeEvent(n) ==
  /\ asg[n].at = "idle"
  /\ event[n]
  /\ event' = [event EXCEPT ![n] = FALSE]
  /\ IF leader = n
       THEN Asg(n, [IdleAsg EXCEPT !.at = "load", !.known = DOMAIN avail[n]])
       ELSE UNCHANGED asg
  /\ UNCHANGED <<wvars, tvars, told, avail, sub, leader, spent>>

\* The assigner goes on with the tasks left, if any.
Remaining(tasks) ==
  IF tasks = {} THEN IdleAsg ELSE [IdleAsg EXCEPT !.at = "select", !.tasks = tasks]

\* Mutant: only tasks that were never assigned are assigned.
NeedAssignFirst(known) == {t \in Tasks : rec[t].status = WaitScheduling}

\* The runnable tasks whose worker is not among the ones read.
NeedAssign(known) == {t \in Tasks : Runnable(t) /\ rec[t].worker \notin known}

loadNeedAssignTasks(n) ==
  /\ asg[n].at = "load"
  /\ \/ /\ Asg(n, Remaining(NeedAssign(asg[n].known)))
        /\ UNCHANGED spent
     \/ Fault("repository") /\ Asg(n, IdleAsg)
  /\ UNCHANGED <<wvars, tvars, told, avail, event, sub, leader>>

\* Under the read lock: no candidate leaves the task to a later event, a
\* single one is taken as it is, one of several also gets an estimate.
selectWorkerID(n) ==
  /\ asg[n].at = "select"
  /\ ~Writing(n)
  /\ \E t \in asg[n].tasks :
       LET a     == [asg[n] EXCEPT !.task = {t}, !.tasks = @ \ {t}]
           fit   == filterWorker(Tolerated[t], avail[n])
           first == priorityWorker(fit, avail[n])
       IN  \/ fit = {} /\ Asg(n, Remaining(a.tasks))
           \/ /\ Cardinality(fit) = 1
              /\ \E d \in fit : Asg(n, [a EXCEPT !.at = "update", !.to = d])
           \/ /\ Cardinality(fit) > 1
              /\ \E d \in first :
                   Asg(n, [a EXCEPT !.at = "estimate", !.to = d,
                                    !.usage = estimate(avail[n][d].usage),
                                    !.list = avail[n]])
  /\ UNCHANGED <<wvars, tvars, told, avail, event, sub, leader, spent>>

\* updateWorkerInCache reads the list again, puts the worker as it was chosen
\* into it, ...
updateLocalResourceEstimate(n) ==
  /\ asg[n].at = "estimate"
  /\ LET d == asg[n].to
     IN  Asg(n, [asg[n] EXCEPT !.at = "store",
                   !.list = [avail[n] EXCEPT ![d] = [asg[n].list[d] EXCEPT
                                                       !.usage = asg[n].usage]]])
  /\ UNCHANGED <<wvars, tvars, told, avail, event, sub, leader, spent>>

\* ... and stores it; then the lock is released.
updateWorkerInCache(n) ==
  /\ asg[n].at = "store"
  /\ avail' = [avail EXCEPT ![n] = asg[n].list]
  /\ Asg(n, [asg[n] EXCEPT !.at = "update", !.list = <<>>, !.usage = NoUsage])
  /\ UNCHANGED <<wvars, tvars, told, event, sub, leader, spent>>

\* Mutant: the status is put into its waiting form twice.
AssignedWaiting(to) ==
  [status |-> PreWaitStatus(PreWaitStatus(Running)), want |-> Running, worker |-> to]

\* The record gets its worker, and is to run there whatever it was to do.
Assigned(to) == [status |-> PreWaitStatus(Running), want |-> Running, worker |-> to]

assignTask(n) ==
  /\ asg[n].at = "update"
  /\ \/ /\ rec' = [t \in Tasks |->
                     IF t \in asg[n].task THEN Assigned(asg[n].to) ELSE rec[t]]
        /\ UNCHANGED spent
     \/ Fault("repository") /\ UNCHANGED rec
  /\ Asg(n, Remaining(asg[n].tasks))
  /\ UNCHANGED <<wvars, oper, told, avail, event, sub, leader>>
-----------------------------------------------------------------------------
(* The node as a whole.                                                    *)

\* Run: a node that starts asks the registry, and subscribes.
Run(n) ==
  /\ told' = [told EXCEPT ![n] = Available]
  /\ avail' = [avail EXCEPT ![n] = Available]
  /\ event' = [event EXCEPT ![n] = FALSE]
  /\ sub' = [sub EXCEPT ![n] = IdleSub]
  /\ asg' = [asg EXCEPT ![n] = IdleAsg]
  /\ UNCHANGED <<wvars, tvars, leader>>

RestartNode(n) == Fault("node") /\ Run(n)

\* The estimate is written into the metadata of a cached worker while the
\* callback reads it, both under the read lock: when they meet the Go runtime
\* may end the process.
MapRace(n) ==
  /\ asg[n].at = "estimate" /\ sub[n].at = "compare"
  /\ UNCHANGED spent
  /\ Run(n)

\* The lease of the leader ends, and some node gets the next one.
LoseLease ==
  /\ leader \in Nodes
  /\ Fault("election")
  /\ leader' = NoLeader
  /\ UNCHANGED <<wvars, tvars, nvars>>

AttemptElection(n) ==
  /\ leader = NoLeader
  /\ leader' = n
  /\ UNCHANGED <<wvars, tvars, nvars, spent>>

Worker(w) ==
  \/ Register(w)
  \/ setInstanceID(w)
  \/ ReportUsage(w)
  \/ gracefulShutdown(w)
  \/ UnRegister(w)
  \/ CrashWorker(w)
  \/ Expire(w)
  \/ LoseHeartbeat(w)
  \/ \E t \in Tasks : SyncTask(w, t) \/ FinishTask(w, t)

User ==
  \/ \E t \in Tasks :
       CreateTask(t) \/ \E next \in {Running, Paused, Stop} : OperateTask(t, next)
  \/ \E o \in oper : OperateUpdate(o)

Callback(n) ==
  \/ Notify(n)
  \/ Compare(n)
  \/ Lock(n)
  \/ setAvailableWorkers(n)
  \/ triggerReAssignEvent(n)

Assigner(n) ==
  \/ TakeEvent(n)
  \/ loadNeedAssignTasks(n)
  \/ selectWorkerID(n)
  \/ updateLocalResourceEstimate(n)
  \/ updateWorkerInCache(n)
  \/ assignTask(n)

Node(n) ==
  \/ Callback(n)
  \/ Assigner(n)
  \/ autoTriggerReAssignEvent(n)
  \/ RestartNode(n)
  \/ MapRace(n)
  \/ AttemptElection(n)

Next ==
  \/ \E w \in Workers : Worker(w)
  \/ User
  \/ \E n \in Nodes : Node(n)
  \/ LoseLease

Spec == Init /\ [][Next]_vars

\* Goroutines that can run do, also those waiting for the lock, which Go's
\* read-write lock does not starve; the registry announces changes and drops
\* instances nobody keeps alive; workers report and do what records want.
\* Nobody has to start, stop or operate on anything.
Fairness ==
  /\ \A n \in Nodes :
       /\ WF_vars(Notify(n)) /\ WF_vars(Compare(n)) /\ SF_vars(Lock(n))
       /\ WF_vars(setAvailableWorkers(n)) /\ SF_vars(triggerReAssignEvent(n))
       /\ WF_vars(autoTriggerReAssignEvent(n)) /\ WF_vars(Assigner(n))
       /\ WF_vars(AttemptElection(n))
  /\ \A w \in Workers :
       /\ WF_vars(setInstanceID(w)) /\ WF_vars(UnRegister(w)) /\ WF_vars(Expire(w))
       /\ WF_vars(ReportUsage(w))
       /\ \A t \in Tasks : WF_vars(SyncTask(w, t))
  /\ WF_vars(\E o \in oper : OperateUpdate(o))

FairSpec == Spec /\ Fairness
-----------------------------------------------------------------------------
EntryType == [stains : SUBSET AllStains, usage : UsageType]

TypeOK ==
  /\ inst \in [Workers -> [named : BOOLEAN, stains : SUBSET AllStains,
                           usage : UsageType, healthy : BOOLEAN]]
  /\ proc \in [Workers -> {"off", "registering", "up", "leaving"}]
  /\ starts \in [Workers -> 0..MaxStarts]
  /\ real \in [Workers -> [Tasks -> LiveStatuses \cup {NotExist}]]
  /\ rec \in [Tasks -> [status : Statuses, want : Statuses, worker : IDs]]
  /\ oper \subseteq [task : Tasks, next : Statuses]
  /\ leader \in Nodes \cup {NoLeader}
  /\ event \in [Nodes -> BOOLEAN]
  /\ \A n \in Nodes :
       /\ sub[n].at \in {"idle", "compare", "lock", "locked", "set", "trigger"}
       /\ asg[n].at \in {"idle", "load", "select", "estimate", "store", "update"}
       /\ asg[n].tasks \subseteq Tasks /\ asg[n].to \in IDs
       /\ DOMAIN avail[n] \subseteq IDs
       /\ \A d \in DOMAIN avail[n] : avail[n][d] \in EntryType

\* A scheduler that is not in the middle of a callback knows exactly the
\* workers the registry last told it of, although the assigner stores lists of
\* its own: no worker is lost or comes back from a list read earlier.
WorkersKnown ==
  \A n \in Nodes : sub[n].at = "idle" => DOMAIN avail[n] = DOMAIN told[n]

\* Without lost heartbeats, elections and restarts a task runs on one worker
\* at a time, whoever joins, leaves or dies meanwhile; the exception is a
\* worker with an id of its own that leaves, for its ID changes with the
\* metadata and its tasks are taken for orphans.
RunsOnce ==
  \A t \in Tasks : \A v, w \in Workers :
    v # w /\ real[v][t] = Running /\ real[w][t] = Running =>
      \E x \in {v, w} \cap Named : proc[x] = "leaving"

\* The subscription is never blocked for good by assignEvent or the lock.
CallbackReturns == \A n \in Nodes : sub[n].at # "idle" ~> sub[n].at = "idle"

\* Task t does on a live worker what its record wants.
Served(t) ==
  \E w \in Workers : /\ proc[w] \in {"up", "leaving"}
                     /\ rec[t].worker = WorkerId(w)
                     /\ rec[t].want = Running => real[w][t] = Running

\* There is a worker for task t.
HasHome(t) ==
  \E w \in Workers : /\ proc[w] = "up" /\ inst[w].healthy
                     /\ tolerates(Tolerated[t], inst[w].stains)

\* A task that is not over does not wait for ever while there is a worker for
\* it: when its worker leaves, dies or is lost it is given to another one.
TasksServed ==
  \A t \in Tasks : []<>(Runnable(t) /\ HasHome(t) => Served(t))

\* docs/task_status.png: a paused task leaves that status by a numbered arrow
\* only, that is, when a user resumes or stops it.
PauseKept ==
  [][\A t \in Tasks : rec[t].status = Paused /\ rec'[t].status # Paused
       => \E o \in oper : o.task = t]_vars
=============================================================================
