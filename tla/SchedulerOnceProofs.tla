------------------------- MODULE SchedulerOnceProofs -------------------------
(***************************************************************************)
(* A task runs on one worker at a time: for any workers, tasks and         *)
(* tolerations, any number of requests, of crashes of workers, of failing  *)
(* calls and of restarts of the scheduler, as long as the registry loses   *)
(* no heartbeat, no worker process is started again, and one node decides. *)
(***************************************************************************)
EXTENDS SchedulerProofs

OneNode == \A m, n \in Nodes : m = n

\* Without it a task may run twice.
Steady ==
  /\ MaxStarts <= 1
  /\ "heartbeat" \notin Events
  /\ OneNode \/ "election" \notin Events

\* A worker that has its tasks and the ID they were assigned to.
Settled(w) == proc[w] # "off" /\ ~(w \in Named /\ proc[w] = "leaving")

\* Only this node assigns tasks.
Decides(n) == OneNode \/ leader = n

\* A settled worker is registered under the ID it takes for its own, one that
\* was not started is not registered, and a process runs nothing before it is up
\* and after it has ended.
InRegistry(w) ==
  /\ Settled(w) => inst[w].healthy /\ (w \in Named => inst[w].named)
  /\ starts[w] = 0 => proc[w] = "off" /\ ~inst[w].healthy
  /\ proc[w] \in {"off", "registering"} => \A t \in Tasks : real[w][t] = NotExist

Registered == \A w \in Workers : InRegistry(w)

\* All that node n knows of workers by their ID.
IdsKnown(n) ==
  DOMAIN avail[n] \cup DOMAIN told[n] \cup DOMAIN sub[n].list \cup {asg[n].to}

\* Whoever is known, or has a task, was started.
KnownStarted ==
  \A w \in Workers :
    \/ starts[w] > 0
    \/ /\ \A n \in Nodes : WorkerId(w) \notin IdsKnown(n)
       /\ \A t \in Tasks : rec[t].worker # WorkerId(w)

\* A callback under way does not lose a settled worker.
CallbackKnows ==
  \A n \in Nodes, w \in Workers :
    /\ sub[n].at \in {"compare", "lock", "locked", "set"}
    /\ Settled(w) /\ WorkerId(w) \in DOMAIN avail[n]
    => WorkerId(w) \in DOMAIN sub[n].list

\* The node that decides knows the settled worker a task has, also when it is
\* about to look for tasks without one, and the worker it has chosen.
TasksHome ==
  \A n \in Nodes, w \in Workers : Decides(n) /\ Settled(w) =>
    /\ \A t \in Tasks : rec[t].worker = WorkerId(w) =>
         /\ WorkerId(w) \in DOMAIN avail[n]
         /\ asg[n].at = "load" => WorkerId(w) \in asg[n].known
    /\ asg[n].at \in {"estimate", "store", "update"} /\ asg[n].to = WorkerId(w)
         => WorkerId(w) \in DOMAIN avail[n]

\* The tasks that are to be assigned have no settled worker.
Orphans ==
  \A n \in Nodes :
    /\ asg[n].at \in {"select", "estimate", "store", "update"} =>
         \A t \in asg[n].tasks \cup asg[n].task, w \in Workers :
           t \in Tasks /\ rec[t].worker = WorkerId(w) => ~Settled(w)
    /\ asg[n].tasks \cap asg[n].task = {}

\* An assignment under way is the deciding node's; before there is a leader
\* nothing has been assigned.
OneDecides ==
  \A n \in Nodes : asg[n].at # "idle" => Decides(n)

NothingBefore ==
  leader = NoLeader /\ ~OneNode => \A t \in Tasks : rec[t].worker = NoWorker

\* A settled worker runs only the tasks it has.
RunsOwn ==
  \A w \in Workers, t \in Tasks :
    Settled(w) /\ real[w][t] # NotExist => rec[t].worker = WorkerId(w)

OInv ==
  /\ Registered /\ KnownStarted /\ CallbackKnows /\ TasksHome
  /\ Orphans /\ OneDecides /\ NothingBefore /\ RunsOwn
-----------------------------------------------------------------------------
(* Identity.                                                               *)

\* Two workers have two ids, whatever the metadata say, and no task of theirs
\* counts as unassigned.
LEMMA OwnId ==
  ASSUME NEW v \in Workers, NEW w \in Workers
  PROVE  /\ WorkerId(v) = WorkerId(w) => v = w
         /\ ID(v) = WorkerId(w) => v = w
         /\ WorkerId(w) # NoWorker
BY IdsApart DEF WorkerId, ID, InstanceId, NoWorker

\* Who is available by an id is the healthy worker of that id.
LEMMA AvailableIds ==
  ASSUME NEW w \in Workers
  PROVE  /\ inst[w].healthy /\ ID(w) = WorkerId(w) => WorkerId(w) \in DOMAIN Available
         /\ WorkerId(w) \in DOMAIN Available => inst[w].healthy
<1>1. DOMAIN Available = {ID(v) : v \in {v \in Workers : inst[v].healthy}}
  BY DEF Available
<1> QED
  BY <1>1, OwnId

\* The registry lists every settled worker, and only workers that were started.
LEMMA AvailableSettled ==
  ASSUME Registered, TInv, NEW w \in Workers
  PROVE  /\ Settled(w) => WorkerId(w) \in DOMAIN Available
         /\ WorkerId(w) \in DOMAIN Available => starts[w] > 0
<1>1. Settled(w) => inst[w].healthy /\ ID(w) = WorkerId(w)
  BY DEF Registered, InRegistry, ID, WorkerId
<1>2. inst[w].healthy => starts[w] > 0
  BY Bounds DEF Registered, InRegistry, TInv, WorkerTypes
<1> QED
  BY <1>1, <1>2, AvailableIds

LEMMA OInit == Init => OInv
<1> SUFFICES ASSUME Init PROVE OInv
  OBVIOUS
<1>1. Registered
  BY DEF Init, Registered, InRegistry, Settled, NoInstance, Instance
<1>2. KnownStarted
  <2>1. \A n \in Nodes : IdsKnown(n) = {NoWorker}
    BY DEF Init, IdsKnown, IdleSub, IdleAsg
  <2> QED
    BY <2>1, OwnId DEF Init, KnownStarted
<1>3. CallbackKnows /\ TasksHome /\ Orphans /\ OneDecides
  BY OwnId DEF Init, CallbackKnows, TasksHome, Orphans, OneDecides, IdleSub, IdleAsg
<1>4. NothingBefore /\ RunsOwn
  BY DEF Init, NothingBefore, RunsOwn
<1> QED
  BY <1>1, <1>2, <1>3, <1>4 DEF OInv
-----------------------------------------------------------------------------
(* Workers, users and the lease.                                           *)

\* How a worker may move: it becomes settled only when it is started, and
\* what it runs anew is its own.
MoveOf(w) ==
  /\ Settled(w)' => Settled(w) \/ starts[w] = 0
  /\ starts[w] > 0 => starts'[w] > 0
  /\ \A t \in Tasks : Settled(w)' /\ real'[w][t] # NotExist =>
       (Settled(w) /\ real[w][t] # NotExist) \/ rec[t].worker = WorkerId(w)

WorkersMove == Registered' /\ \A w \in Workers : MoveOf(w)

SameHomes == \A t \in Tasks : rec'[t].worker = rec[t].worker

\* What changes neither the nodes nor the workers of the records keeps the
\* invariant.
LEMMA MovesKeep ==
  ASSUME TInv, TInv', OInv, WorkersMove, SameHomes, UNCHANGED nvars,
         \A n \in Nodes : Decides(n)' = Decides(n),
         NothingBefore'
  PROVE  OInv'
<1> USE DEF nvars
<1>1. KnownStarted'
  BY DEF OInv, KnownStarted, IdsKnown, WorkersMove, MoveOf, SameHomes
<1>2. ASSUME NEW w \in Workers, Settled(w)', ~Settled(w)
      PROVE  /\ \A n \in Nodes : WorkerId(w) \notin IdsKnown(n)
             /\ \A t \in Tasks : rec[t].worker # WorkerId(w)
  <2>1. starts[w] = 0
    BY <1>2 DEF WorkersMove, MoveOf
  <2> QED
    BY <2>1 DEF OInv, KnownStarted
<1>3. CallbackKnows'
  BY <1>2 DEF OInv, CallbackKnows, IdsKnown
<1>4. TasksHome'
  <2> SUFFICES ASSUME NEW n \in Nodes, NEW w \in Workers, Decides(n)', Settled(w)'
               PROVE  /\ \A t \in Tasks : rec'[t].worker = WorkerId(w) =>
                           /\ WorkerId(w) \in DOMAIN avail'[n]
                           /\ asg'[n].at = "load" => WorkerId(w) \in asg'[n].known
                      /\ asg'[n].at \in {"estimate", "store", "update"}
                           /\ asg'[n].to = WorkerId(w)
                           => WorkerId(w) \in DOMAIN avail'[n]
    BY DEF TasksHome
  <2>1. CASE Settled(w)
    BY <2>1 DEF OInv, TasksHome, SameHomes
  <2>2. CASE ~Settled(w)
    BY <2>2, <1>2 DEF SameHomes, IdsKnown
  <2> QED
    BY <2>1, <2>2
<1>5. Orphans'
  BY <1>2 DEF OInv, Orphans, SameHomes
<1>6. OneDecides'
  BY DEF OInv, OneDecides
<1>7. RunsOwn'
  BY DEF OInv, RunsOwn, WorkersMove, MoveOf, SameHomes
<1> QED
  BY <1>1, <1>3, <1>4, <1>5, <1>6, <1>7 DEF OInv, WorkersMove

\* What a worker runs after a change from the table is its own.
LEMMA RunsWanted ==
  ASSUME NEW w \in Workers, NEW t \in Tasks, NEW r,
         LET change == GetChangeType(r, WantedBy(w, t))
         IN  change # NoChange /\ AfterChange(change)[1] # NotExist
  PROVE  rec[t].worker = WorkerId(w)
<1> DEFINE want   == WantedBy(w, t)
           change == GetChangeType(r, want)
           rules  == {x \in changeTypesRule : x[1] = r /\ x[2] = want}
<1>1. SUFFICES want # NotExist
  BY DEF WantedBy
<1>2. SUFFICES ASSUME want = NotExist PROVE FALSE
  OBVIOUS
<1>3. PICK x \in rules : change = x[3]
  BY DEF GetChangeType
<1>4. x[3] = "delete"
  BY <1>2, <1>3 DEF changeTypesRule, NotExist, Running, Paused, Stop
<1>5. AfterChange("delete")[1] = NotExist
  BY DEF AfterChange, IsException, ExceptionChanges
<1> QED
  BY <1>3, <1>4, <1>5

\* A step of one worker leaves the others alone.
LEMMA OneMoves ==
  ASSUME Registered, NEW w \in Workers, MoveOf(w), InRegistry(w)',
         \A v \in Workers \ {w} : /\ inst'[v] = inst[v] /\ proc'[v] = proc[v]
                                  /\ starts'[v] = starts[v] /\ real'[v] = real[v]
  PROVE  WorkersMove
BY DEF Registered, InRegistry, WorkersMove, MoveOf, Settled

\* The control loop and the end of a task.
LEMMA TaskSteps ==
  ASSUME TInv, Registered, NEW w \in Workers, NEW t \in Tasks,
         SyncTask(w, t) \/ FinishTask(w, t)
  PROVE  WorkersMove /\ SameHomes
<1>1. CASE SyncTask(w, t)
  <2> DEFINE change == GetChangeType(real[w][t], WantedBy(w, t))
  <2>1. /\ change # NoChange /\ proc[w] = "up"
        /\ real' = [real EXCEPT ![w][t] = AfterChange(change)[1]]
        /\ rec' = [rec EXCEPT ![t].status = AfterChange(change)[2]]
        /\ UNCHANGED <<inst, proc, starts>>
    BY <1>1 DEF SyncTask
  <2>2. AfterChange(change)[1] # NotExist => rec[t].worker = WorkerId(w)
    BY <2>1, RunsWanted
  <2>3. SameHomes
    BY <2>1 DEF SameHomes, TInv, RecordTypes
  <2> HIDE DEF change
  <2>4. /\ \A v \in Workers \ {w} : real'[v] = real[v]
        /\ \A u \in Tasks \ {t} : real'[w][u] = real[w][u]
        /\ real'[w][t] = AfterChange(change)[1]
    BY <2>1 DEF TInv, WorkerTypes
  <2>5. MoveOf(w) /\ InRegistry(w)'
    BY <2>1, <2>2, <2>4 DEF MoveOf, Registered, InRegistry, Settled
  <2> QED
    BY <2>1, <2>3, <2>4, <2>5, OneMoves
<1>2. CASE FinishTask(w, t)
  <2>1. /\ real[w][t] = Running /\ UNCHANGED <<inst, proc, starts>>
        /\ real' = [real EXCEPT ![w][t] = NotExist]
        /\ rec' = [rec EXCEPT ![t].status = Success]
    BY <1>2 DEF FinishTask
  <2>2. SameHomes
    BY <2>1 DEF SameHomes, TInv, RecordTypes
  <2>3. /\ \A v \in Workers \ {w} : real'[v] = real[v]
        /\ \A u \in Tasks \ {t} : real'[w][u] = real[w][u]
        /\ real'[w][t] = NotExist
    BY <2>1 DEF TInv, WorkerTypes
  <2>4. MoveOf(w) /\ InRegistry(w)'
    BY <2>1, <2>3 DEF MoveOf, Registered, InRegistry, Settled
  <2> QED
    BY <2>1, <2>2, <2>3, <2>4, OneMoves
<1> QED
  BY <1>1, <1>2

\* Registration, reports, shutdown and death.
LEMMA LifeSteps ==
  ASSUME TInv, Steady, Registered, NEW w \in Workers,
         \/ Register(w) \/ setInstanceID(w) \/ ReportUsage(w) \/ gracefulShutdown(w)
         \/ UnRegister(w) \/ CrashWorker(w) \/ Expire(w) \/ LoseHeartbeat(w)
  PROVE  WorkersMove
<1> DEFINE Others ==
      \A v \in Workers \ {w} : /\ inst'[v] = inst[v] /\ proc'[v] = proc[v]
                               /\ starts'[v] = starts[v] /\ real'[v] = real[v]
<1>1. /\ InRegistry(w) /\ starts[w] \in 0..1
      /\ proc[w] # "off" => starts[w] = 1
      /\ DOMAIN inst = Workers /\ DOMAIN proc = Workers /\ DOMAIN starts = Workers
      /\ DOMAIN real = Workers
  <2>1. /\ DOMAIN inst = Workers /\ DOMAIN proc = Workers /\ DOMAIN starts = Workers
        /\ DOMAIN real = Workers /\ InRegistry(w)
    BY DEF Registered, TInv, WorkerTypes
  <2>2. starts[w] \in 0..MaxStarts /\ MaxStarts <= 1 /\ MaxStarts \in Nat
    BY Bounds DEF TInv, WorkerTypes, Steady
  <2>3. starts[w] \in 0..1
    BY <2>2
  <2> QED
    BY <2>1, <2>3 DEF InRegistry
<1>2. CASE Register(w)
  <2>1. PICK u \in Usages : inst' = [inst EXCEPT ![w] =
                                       Instance(w \in Named, GenerateStain(u, FALSE), u)]
    BY <1>2 DEF Register
  <2>2. starts[w] = 0 /\ starts'[w] = 1
    BY <1>1, <1>2, Bounds DEF Register, Steady
  <2>3. inst'[w].healthy /\ (w \in Named => inst'[w].named)
    BY <1>1, <2>1 DEF Instance
  <2>4. proc[w] = "off" /\ proc'[w] \in {"up", "registering"} /\ real' = real
    BY <1>1, <1>2 DEF Register
  <2>5. MoveOf(w) /\ InRegistry(w)'
    BY <1>1, <2>2, <2>3, <2>4 DEF MoveOf, InRegistry, Settled
  <2>6. Others
    BY <1>2, <2>1 DEF Register
  <2> QED
    BY <2>5, <2>6, OneMoves
<1>3. CASE setInstanceID(w)
  <2>1. MoveOf(w) /\ InRegistry(w)'
    BY <1>1, <1>3 DEF setInstanceID, MoveOf, InRegistry, Settled
  <2>2. Others
    BY <1>1, <1>3 DEF setInstanceID
  <2> QED
    BY <2>1, <2>2, OneMoves
<1>4. CASE ReportUsage(w)
  <2>1. PICK u \in Usages : inst' = [inst EXCEPT ![w] =
                                       Instance(TRUE, GenerateStain(u, FALSE), u)]
    BY <1>4 DEF ReportUsage
  <2>2. inst'[w].healthy /\ inst'[w].named
    BY <1>1, <2>1 DEF Instance
  <2>3. MoveOf(w) /\ InRegistry(w)'
    BY <1>1, <1>4, <2>2 DEF ReportUsage, MoveOf, InRegistry, Settled
  <2>4. Others
    BY <1>4, <2>1 DEF ReportUsage
  <2> QED
    BY <2>3, <2>4, OneMoves
<1>5. CASE gracefulShutdown(w)
  <2>1. proc[w] = "up" /\ proc'[w] = "leaving" /\ UNCHANGED <<starts, real>>
    BY <1>1, <1>5 DEF gracefulShutdown
  <2>2. inst' = inst \/ inst' = [inst EXCEPT ![w] =
                                   Instance(FALSE, GenerateStain(NoUsage, TRUE), NoUsage)]
    BY <1>5 DEF gracefulShutdown
  <2>3. inst'[w].healthy
    <3>1. inst[w].healthy
      BY <1>1, <2>1 DEF InRegistry, Settled
    <3>2. CASE inst' = inst
      BY <3>1, <3>2
    <3>3. CASE inst' = [inst EXCEPT ![w] =
                          Instance(FALSE, GenerateStain(NoUsage, TRUE), NoUsage)]
      BY <1>1, <3>3 DEF Instance
    <3> QED
      BY <2>2, <3>2, <3>3
  <2>4. MoveOf(w) /\ InRegistry(w)'
    BY <1>1, <2>1, <2>3 DEF MoveOf, InRegistry, Settled
  <2>5. Others
    BY <1>1, <1>5, <2>2 DEF gracefulShutdown
  <2> QED
    BY <2>4, <2>5, OneMoves
<1>6. CASE UnRegister(w)
  <2>1. MoveOf(w) /\ InRegistry(w)'
    BY <1>1, <1>6 DEF UnRegister, NothingRuns, MoveOf, InRegistry, Settled
  <2> QED
    BY <1>6, <2>1, OneMoves DEF UnRegister, NothingRuns
<1>7. CASE CrashWorker(w)
  <2>1. MoveOf(w) /\ InRegistry(w)'
    BY <1>1, <1>7 DEF CrashWorker, NothingRuns, MoveOf, InRegistry, Settled
  <2> QED
    BY <1>7, <2>1, OneMoves DEF CrashWorker, NothingRuns
<1>8. CASE Expire(w)
  <2>1. ~inst'[w].healthy
    BY <1>1, <1>8 DEF Expire, NoInstance, Instance
  <2>2. MoveOf(w) /\ InRegistry(w)'
    BY <1>1, <1>8, <2>1 DEF Expire, MoveOf, InRegistry, Settled
  <2> QED
    BY <1>8, <2>2, OneMoves DEF Expire
<1>9. CASE LoseHeartbeat(w)
  BY <1>9 DEF LoseHeartbeat, Fault, Steady
<1> QED
  BY <1>2, <1>3, <1>4, <1>5, <1>6, <1>7, <1>8, <1>9

\* Workers move as WorkersMove says and leave the records their workers.
LEMMA WorkerSteps ==
  ASSUME TInv, Steady, Registered, NEW w \in Workers, Worker(w)
  PROVE  WorkersMove /\ SameHomes /\ UNCHANGED <<nvars, leader>>
<1>1. UNCHANGED <<nvars, leader>>
  BY DEF Worker, Register, setInstanceID, ReportUsage, gracefulShutdown, UnRegister,
         CrashWorker, Expire, LoseHeartbeat, SyncTask, FinishTask
<1>2. ASSUME \A t \in Tasks : ~(SyncTask(w, t) \/ FinishTask(w, t))
      PROVE  UNCHANGED rec
  BY <1>2 DEF Worker, Register, setInstanceID, ReportUsage, gracefulShutdown, UnRegister,
              CrashWorker, Expire, LoseHeartbeat, tvars
<1> QED
  BY <1>1, <1>2, TaskSteps, LifeSteps DEF Worker, SameHomes

\* Requests of users change no worker, nor the worker of a record.
LEMMA UserSteps ==
  ASSUME TInv, Registered, User
  PROVE  WorkersMove /\ SameHomes /\ UNCHANGED <<nvars, leader>>
<1>1. SameHomes
  <2>1. ASSUME NEW t \in Tasks, CreateTask(t) PROVE SameHomes
    BY <2>1 DEF CreateTask, SameHomes, TInv, RecordTypes
  <2>2. ASSUME NEW t \in Tasks, NEW next, OperateTask(t, next) PROVE SameHomes
    BY <2>2 DEF OperateTask, SameHomes
  <2>3. ASSUME NEW o \in oper, OperateUpdate(o) PROVE SameHomes
    BY <2>3 DEF OperateUpdate, SameHomes, TInv, RecordTypes, Requests
  <2> QED
    BY <2>1, <2>2, <2>3 DEF User
<1>2. UNCHANGED <<wvars, nvars, leader>>
  BY DEF User, CreateTask, OperateTask, OperateUpdate
<1> QED
  BY <1>1, <1>2 DEF WorkersMove, MoveOf, wvars, Registered, InRegistry, Settled

\* So workers and users keep the invariant.
LEMMA OthersKeep ==
  ASSUME TInv, TInv', Steady, OInv, User \/ \E w \in Workers : Worker(w)
  PROVE  OInv'
<1>1. WorkersMove /\ SameHomes /\ UNCHANGED <<nvars, leader>>
  BY WorkerSteps, UserSteps DEF OInv
<1>2. NothingBefore'
  BY <1>1 DEF OInv, NothingBefore, SameHomes
<1> QED
  BY <1>1, <1>2, MovesKeep DEF Decides

\* The lease moves only while nothing has been assigned, or when there is
\* nobody to move it to.
LEMMA LeaseKeeps ==
  ASSUME TInv, Steady, OInv, LoseLease \/ \E n \in Nodes : AttemptElection(n)
  PROVE  OInv'
<1>1. UNCHANGED <<wvars, tvars, nvars>>
  BY DEF LoseLease, AttemptElection
<1>2. /\ Registered' /\ KnownStarted' /\ CallbackKnows' /\ Orphans' /\ RunsOwn'
  BY <1>1 DEF wvars, tvars, nvars, OInv, Registered, InRegistry, Settled, KnownStarted, IdsKnown,
              CallbackKnows, Orphans, RunsOwn
<1>3. CASE OneNode
  BY <1>1, <1>2, <1>3 DEF wvars, tvars, nvars, OInv, TasksHome, OneDecides, NothingBefore,
                          Decides, Settled
<1>4. CASE ~OneNode
  <2>1. PICK n \in Nodes : AttemptElection(n)
    BY <1>4 DEF LoseLease, Fault, Steady
  <2>2. leader = NoLeader /\ leader' = n /\ n # NoLeader
    BY <2>1, IdsApart DEF AttemptElection
  <2>3. \A m \in Nodes : asg[m].at = "idle"
    BY <1>4, <2>2, IdsApart DEF OInv, OneDecides, Decides
  <2>4. \A t \in Tasks : rec[t].worker = NoWorker
    BY <1>4, <2>2 DEF OInv, NothingBefore
  <2> QED
    BY <1>1, <1>2, <2>2, <2>3, <2>4, OwnId
       DEF tvars, nvars, OInv, TasksHome, OneDecides, NothingBefore
<1> QED
  BY <1>3, <1>4
-----------------------------------------------------------------------------
(* Nodes.                                                                  *)

\* A node's steps leave the workers, and but for assignTask the records.
LEMMA NodeLeaves ==
  ASSUME NEW n \in Nodes,
         \/ Callback(n) \/ autoTriggerReAssignEvent(n) \/ Assigner(n)
         \/ RestartNode(n) \/ MapRace(n)
  PROVE  UNCHANGED <<wvars, leader>> /\ (assignTask(n) \/ UNCHANGED rec)
BY DEF Callback, Notify, Compare, Lock, setAvailableWorkers, triggerReAssignEvent,
       autoTriggerReAssignEvent, Assigner, TakeEvent, loadNeedAssignTasks, selectWorkerID,
       updateLocalResourceEstimate, updateWorkerInCache, assignTask, RestartNode, MapRace,
       Run, tvars

\* With the same workers and records the rest is about the nodes.
LEMMA NodesKeep ==
  ASSUME OInv, UNCHANGED <<wvars, leader, rec>>,
         (KnownStarted /\ CallbackKnows /\ TasksHome /\ Orphans /\ OneDecides)'
  PROVE  OInv'
BY DEF OInv, wvars, Registered, InRegistry, Settled, NothingBefore, RunsOwn

\* The subscription.
LEMMA CallbackOnce ==
  ASSUME TInv, KInv, OInv, NEW n \in Nodes, Callback(n)
  PROVE  OInv'
<1> USE DEF wvars
<1>1. UNCHANGED <<wvars, leader, rec, asg>>
  BY DEF Callback, Notify, Compare, Lock, setAvailableWorkers, triggerReAssignEvent, tvars
<1>2. \A m \in Nodes \ {n} : /\ told'[m] = told[m] /\ avail'[m] = avail[m]
                             /\ sub'[m] = sub[m]
  BY DEF Callback, Notify, Compare, Lock, setAvailableWorkers, triggerReAssignEvent,
         KInv, Fields
<1>3. \/ /\ avail'[n] = avail[n] /\ told'[n] = Available
         /\ sub'[n] = [at |-> "compare", list |-> Available]
      \/ /\ sub[n].at \in {"compare", "lock"} /\ avail'[n] = avail[n] /\ told'[n] = told[n]
         /\ sub'[n].list = sub[n].list
      \/ /\ sub[n].at \in {"locked", "set"} /\ avail'[n] = sub[n].list /\ told'[n] = told[n]
         /\ sub'[n].at \in {"idle", "trigger"} /\ sub'[n].list = <<>>
      \/ /\ avail'[n] = avail[n] /\ told'[n] = told[n] /\ sub'[n] = IdleSub
  <2> USE DEF KInv, Fields, HasFields
  <2>1. CASE Notify(n)
    BY <2>1 DEF Notify
  <2>2. CASE Compare(n)
    BY <2>2 DEF Compare
  <2>3. CASE Lock(n)
    BY <2>3 DEF Lock
  <2>4. CASE setAvailableWorkers(n)
    BY <2>4 DEF setAvailableWorkers, IdleSub
  <2>5. CASE triggerReAssignEvent(n)
    BY <2>5 DEF triggerReAssignEvent
  <2> QED
    BY <2>1, <2>2, <2>3, <2>4, <2>5 DEF Callback
<1>4. \A w \in Workers : /\ Settled(w) => WorkerId(w) \in DOMAIN Available
                         /\ WorkerId(w) \in DOMAIN Available => starts[w] > 0
  BY AvailableSettled DEF OInv
<1>5. KnownStarted'
  <2>1. IdsKnown(n)' \subseteq IdsKnown(n) \cup DOMAIN Available
    BY <1>1, <1>3 DEF IdsKnown, IdleSub
  <2>2. \A m \in Nodes \ {n} : IdsKnown(m)' = IdsKnown(m)
    BY <1>1, <1>2 DEF IdsKnown
  <2> QED
    BY <1>1, <1>4, <2>1, <2>2 DEF OInv, KnownStarted
<1>6. CallbackKnows'
  BY <1>1, <1>2, <1>3, <1>4 DEF OInv, CallbackKnows, Settled, IdleSub
<1>7. TasksHome'
  BY <1>1, <1>2, <1>3, <1>4 DEF OInv, TasksHome, CallbackKnows, Settled, Decides
<1>8. Orphans' /\ OneDecides'
  BY <1>1 DEF OInv, Orphans, OneDecides, Settled, Decides
<1> QED
  BY <1>1, <1>5, <1>6, <1>7, <1>8, NodesKeep

\* An orphan: a task no settled worker has.
Orphan(t) == \A w \in Workers : rec[t].worker = WorkerId(w) => ~Settled(w)

\* A step of the assigner that only moves it.
LEMMA AsgMovesOnce ==
  ASSUME TInv, OInv, NEW n \in Nodes, NEW next, Asg(n, next),
         UNCHANGED <<wvars, leader, rec, told, avail, sub>>,
         next.at # "idle" => Decides(n),
         next.at = "load" => next.known = DOMAIN avail[n],
         next.to \in IdsKnown(n) \cup {NoWorker},
         next.at \in {"estimate", "store", "update"} =>
           \/ next.to \in DOMAIN avail[n]
           \/ asg[n].at \in {"estimate", "store"} /\ next.to = asg[n].to,
         next.at \in {"select", "estimate", "store", "update"} =>
           \A t \in next.tasks \cup next.task : t \in Tasks => Orphan(t),
         next.tasks \cap next.task = {}
  PROVE  OInv'
<1>1. asg'[n] = next /\ \A m \in Nodes \ {n} : asg'[m] = asg[m]
  BY DEF TInv, NodeTypes, Asg
<1>2. KnownStarted'
  <2>1. IdsKnown(n)' \subseteq IdsKnown(n) \cup {NoWorker}
    BY <1>1 DEF IdsKnown
  <2>2. \A m \in Nodes \ {n} : IdsKnown(m)' = IdsKnown(m)
    BY <1>1 DEF IdsKnown
  <2> QED
    BY <2>1, <2>2, OwnId DEF wvars, OInv, KnownStarted
<1>3. CallbackKnows'
  BY DEF wvars, OInv, CallbackKnows, Settled
<1>4. TasksHome'
  BY <1>1 DEF wvars, OInv, TasksHome, Settled, Decides
<1>5. Orphans'
  BY <1>1 DEF wvars, OInv, Orphans, Orphan, Settled
<1>6. OneDecides'
  BY <1>1 DEF OInv, OneDecides, Decides
<1> QED
  BY <1>2, <1>3, <1>4, <1>5, <1>6, NodesKeep

\* An assigner that goes on, or is through.
LEMMA RemainingFields ==
  ASSUME NEW tasks
  PROVE  /\ Remaining(tasks).at \in {"idle", "select"} /\ Remaining(tasks).to = NoWorker
         /\ Remaining(tasks).tasks \subseteq tasks /\ Remaining(tasks).task = {}
BY DEF Remaining, IdleAsg

\* The tasks of an assigner that selects, and the fields it keeps.
LEMMA AsgFields ==
  ASSUME TInv, OInv, NEW n \in Nodes
  PROVE  /\ DOMAIN asg[n] = {"at", "known", "tasks", "task", "to", "usage", "list"}
         /\ asg[n].tasks \cap asg[n].task = {}
         /\ asg[n].at # "idle" => Decides(n)
         /\ asg[n].at \in {"select", "estimate", "store", "update"} =>
              \A t \in asg[n].tasks \cup asg[n].task : t \in Tasks => Orphan(t)
BY DEF TInv, NodeTypes, IsAsg, OInv, Orphans, OneDecides, Orphan

\* An event is taken and the tasks without a worker are loaded: their workers
\* are unknown to the node that decides, hence not settled.
LEMMA LoadOnce ==
  ASSUME TInv, OInv, NEW n \in Nodes, TakeEvent(n) \/ loadNeedAssignTasks(n)
  PROVE  OInv'
<1>1. UNCHANGED <<wvars, leader, rec, told, avail, sub>>
  BY DEF TakeEvent, loadNeedAssignTasks, tvars
<1>2. CASE TakeEvent(n) /\ leader = n
  <2> DEFINE next == [IdleAsg EXCEPT !.at = "load", !.known = DOMAIN avail[n]]
  <2>1. /\ next.at = "load" /\ next.known = DOMAIN avail[n] /\ next.to = NoWorker
        /\ next.tasks = {} /\ next.task = {}
    BY DEF IdleAsg
  <2>2. Asg(n, next)
    BY <1>2 DEF TakeEvent
  <2>3. Decides(n)
    BY <1>2 DEF Decides
  <2> QED
    BY <1>1, <2>1, <2>2, <2>3, AsgMovesOnce
<1>3. CASE TakeEvent(n) /\ leader # n
  <2>1. UNCHANGED asg
    BY <1>3 DEF TakeEvent
  <2>2. (KnownStarted /\ CallbackKnows /\ TasksHome /\ Orphans /\ OneDecides)'
    BY <1>1, <2>1 DEF wvars, OInv, KnownStarted, IdsKnown, CallbackKnows, TasksHome,
                      Orphans, OneDecides, Settled, Decides
  <2> QED
    BY <1>1, <2>1, <2>2, NodesKeep
<1>4. CASE loadNeedAssignTasks(n)
  <2>1. asg[n].at = "load" /\ Decides(n)
    BY <1>4, AsgFields DEF loadNeedAssignTasks
  <2>2. \A t \in NeedAssign(asg[n].known) : Orphan(t)
    BY <2>1 DEF NeedAssign, Orphan, OInv, TasksHome
  <2>3. CASE Asg(n, Remaining(NeedAssign(asg[n].known)))
    BY <1>1, <2>1, <2>2, <2>3, RemainingFields, AsgMovesOnce
  <2>4. CASE Asg(n, IdleAsg)
    <3>1. /\ IdleAsg.at = "idle" /\ IdleAsg.to = NoWorker
          /\ IdleAsg.tasks = {} /\ IdleAsg.task = {}
      BY DEF IdleAsg
    <3> QED
      BY <1>1, <2>4, <3>1, AsgMovesOnce
  <2> QED
    BY <1>4, <2>3, <2>4 DEF loadNeedAssignTasks
<1> QED
  BY <1>2, <1>3, <1>4

\* The worker that is selected is available.
LEMMA SelectOnce ==
  ASSUME TInv, OInv, NEW n \in Nodes, selectWorkerID(n)
  PROVE  OInv'
<1>1. UNCHANGED <<wvars, leader, rec, told, avail, sub>>
  BY DEF selectWorkerID, tvars
<1>2. PICK t \in asg[n].tasks :
        LET a     == [asg[n] EXCEPT !.task = {t}, !.tasks = @ \ {t}]
            fit   == filterWorker(Tolerated[t], avail[n])
            first == priorityWorker(fit, avail[n])
        IN  \/ fit = {} /\ Asg(n, Remaining(a.tasks))
            \/ /\ Cardinality(fit) = 1
               /\ \E d \in fit : Asg(n, [a EXCEPT !.at = "update", !.to = d])
            \/ /\ Cardinality(fit) > 1
               /\ \E d \in first :
                    Asg(n, [a EXCEPT !.at = "estimate", !.to = d,
                                     !.usage = estimate(avail[n][d].usage),
                                     !.list = avail[n]])
  BY DEF selectWorkerID
<1> DEFINE a == [asg[n] EXCEPT !.task = {t}, !.tasks = @ \ {t}]
           fit == filterWorker(Tolerated[t], avail[n])
<1>3. /\ DOMAIN asg[n] = {"at", "known", "tasks", "task", "to", "usage", "list"}
      /\ Decides(n) /\ \A u \in asg[n].tasks : u \in Tasks => Orphan(u)
  BY AsgFields DEF selectWorkerID
<1>4. a.task = {t} /\ a.tasks = asg[n].tasks \ {t}
      /\ DOMAIN a = {"at", "known", "tasks", "task", "to", "usage", "list"}
  BY <1>3
<1>5. fit \subseteq DOMAIN avail[n] /\ priorityWorker(fit, avail[n]) \subseteq fit
  BY DEF filterWorker, priorityWorker
<1> HIDE DEF a, fit
<1>6. CASE Asg(n, Remaining(a.tasks))
  <2> DEFINE next == Remaining(a.tasks)
  <2>1. /\ next.at \in {"idle", "select"} /\ next.to = NoWorker
        /\ next.tasks \subseteq asg[n].tasks /\ next.task = {}
    BY <1>4, RemainingFields
  <2> HIDE DEF next
  <2>2. Asg(n, next)
    BY <1>6 DEF next
  <2> QED
    BY <1>1, <1>3, <2>1, <2>2, AsgMovesOnce
<1>7. ASSUME NEW d \in fit, Asg(n, [a EXCEPT !.at = "update", !.to = d])
      PROVE  OInv'
  <2> DEFINE next == [a EXCEPT !.at = "update", !.to = d]
  <2>1. /\ next.at = "update" /\ next.to = d
        /\ next.tasks = asg[n].tasks \ {t} /\ next.task = {t}
    BY <1>4
  <2>2. Asg(n, next) /\ d \in DOMAIN avail[n]
    BY <1>5, <1>7
  <2> HIDE DEF next
  <2>3. next.to \in IdsKnown(n)
    BY <2>1, <2>2 DEF IdsKnown
  <2> QED
    BY <1>1, <1>3, <2>1, <2>2, <2>3, AsgMovesOnce
<1>8. ASSUME NEW d \in fit, NEW u, NEW l,
             Asg(n, [a EXCEPT !.at = "estimate", !.to = d, !.usage = u, !.list = l])
      PROVE  OInv'
  <2> DEFINE next == [a EXCEPT !.at = "estimate", !.to = d, !.usage = u, !.list = l]
  <2>1. /\ next.at = "estimate" /\ next.to = d
        /\ next.tasks = asg[n].tasks \ {t} /\ next.task = {t}
    BY <1>4
  <2>2. Asg(n, next) /\ d \in DOMAIN avail[n]
    BY <1>5, <1>8
  <2> HIDE DEF next
  <2>3. next.to \in IdsKnown(n)
    BY <2>1, <2>2 DEF IdsKnown
  <2> QED
    BY <1>1, <1>3, <2>1, <2>2, <2>3, AsgMovesOnce
<1> QED
  BY <1>2, <1>5, <1>6, <1>7, <1>8 DEF a, fit

\* The list that is stored has the workers that are available.
LEMMA EstimateOnce ==
  ASSUME TInv, KInv, OInv, NEW n \in Nodes,
         updateLocalResourceEstimate(n) \/ updateWorkerInCache(n)
  PROVE  OInv'
<1>1. UNCHANGED <<wvars, leader, rec, told, sub>>
  BY DEF updateLocalResourceEstimate, updateWorkerInCache, tvars
<1>3. /\ asg[n].at \in {"estimate", "store"} /\ asg'[n].at \in {"store", "update"}
      /\ asg'[n].to = asg[n].to /\ asg'[n].tasks = asg[n].tasks
      /\ asg'[n].task = asg[n].task
      /\ \A m \in Nodes \ {n} : asg'[m] = asg[m]
  <2>1. DOMAIN asg[n] = {"at", "known", "tasks", "task", "to", "usage", "list"}
        /\ DOMAIN asg = Nodes
    BY AsgFields DEF TInv, NodeTypes
  <2>2. CASE updateLocalResourceEstimate(n)
    <3>1. /\ asg[n].at = "estimate"
          /\ \E l : asg' = [asg EXCEPT ![n] = [asg[n] EXCEPT !.at = "store", !.list = l]]
      BY <2>2 DEF updateLocalResourceEstimate, Asg
    <3> QED
      BY <2>1, <3>1
  <2>3. CASE updateWorkerInCache(n)
    <3>1. /\ asg[n].at = "store"
          /\ asg' = [asg EXCEPT ![n] = [asg[n] EXCEPT !.at = "update", !.list = <<>>,
                                                     !.usage = NoUsage]]
      BY <2>3 DEF updateWorkerInCache, Asg
    <3> QED
      BY <2>1, <3>1
  <2> QED
    BY <2>2, <2>3
<1>4. \A m \in Nodes : DOMAIN avail'[m] = DOMAIN avail[m]
  BY DEF updateLocalResourceEstimate, updateWorkerInCache, KInv, Fields, AssignerHolds
<1>5. KnownStarted'
  <2>1. \A m \in Nodes : IdsKnown(m)' = IdsKnown(m)
    BY <1>1, <1>3, <1>4 DEF IdsKnown
  <2> QED
    BY <1>1, <2>1 DEF wvars, OInv, KnownStarted
<1>6. CallbackKnows'
  BY <1>1, <1>4 DEF wvars, OInv, CallbackKnows, Settled
<1>7. TasksHome'
  BY <1>1, <1>3, <1>4 DEF wvars, OInv, TasksHome, Settled, Decides
<1>8. Orphans' /\ OneDecides'
  BY <1>1, <1>3 DEF wvars, OInv, Orphans, OneDecides, Settled, Decides
<1> QED
  BY <1>1, <1>5, <1>6, <1>7, <1>8, NodesKeep

\* A task is given to an available worker when no settled worker has it: what
\* runs it, if anything, is not settled.
LEMMA AssignOnce ==
  ASSUME TInv, OInv, NEW n \in Nodes, assignTask(n)
  PROVE  OInv'
<1> DEFINE next == Remaining(asg[n].tasks)
           to   == asg[n].to
<1>1. /\ asg[n].at = "update" /\ Asg(n, next)
      /\ UNCHANGED <<wvars, leader, told, avail, sub>>
  BY DEF assignTask
<1>2. CASE UNCHANGED rec
  <2>1. /\ next.at \in {"idle", "select"} /\ next.to = NoWorker
        /\ next.tasks \subseteq asg[n].tasks /\ next.task = {}
    BY RemainingFields
  <2> HIDE DEF next
  <2> QED
    BY <1>1, <1>2, <2>1, AsgFields, AsgMovesOnce
<1>3. CASE rec' = [t \in Tasks |-> IF t \in asg[n].task THEN Assigned(to) ELSE rec[t]]
  <2>1. /\ next.at \in {"idle", "select"} /\ next.to = NoWorker
        /\ next.tasks \subseteq asg[n].tasks /\ next.task = {}
    BY RemainingFields
  <2> HIDE DEF next
  <2>2. asg'[n] = next /\ \A m \in Nodes \ {n} : asg'[m] = asg[m]
    BY <1>1 DEF TInv, NodeTypes, Asg
  <2>3. \A t \in Tasks : rec'[t].worker = IF t \in asg[n].task THEN to ELSE rec[t].worker
    BY <1>3 DEF Assigned
  <2>4. \A w \in Workers : to = WorkerId(w) => starts[w] > 0
    BY DEF OInv, KnownStarted, IdsKnown
  <2>5. /\ asg[n].tasks \cap asg[n].task = {} /\ Decides(n)
        /\ \A t \in asg[n].tasks \cup asg[n].task : t \in Tasks => Orphan(t)
    BY <1>1, AsgFields
  <2>6. \A m \in Nodes : Decides(m) => m = n
    BY <2>5 DEF Decides, OneNode
  <2>7. Registered'
    BY <1>1 DEF wvars, OInv, Registered, InRegistry, Settled
  <2>8. KnownStarted'
    <3>1. \A m \in Nodes : IdsKnown(m)' \subseteq IdsKnown(m) \cup {NoWorker}
      BY <1>1, <2>1, <2>2 DEF IdsKnown
    <3> QED
      BY <1>1, <2>3, <2>4, <3>1, OwnId DEF wvars, OInv, KnownStarted
  <2>9. CallbackKnows'
    BY <1>1 DEF wvars, OInv, CallbackKnows, Settled
  <2>10. TasksHome'
    <3> SUFFICES ASSUME NEW m \in Nodes, NEW w \in Workers, Decides(m)', Settled(w)'
                 PROVE  /\ \A t \in Tasks : rec'[t].worker = WorkerId(w) =>
                             /\ WorkerId(w) \in DOMAIN avail'[m]
                             /\ asg'[m].at = "load" => WorkerId(w) \in asg'[m].known
                        /\ asg'[m].at \in {"estimate", "store", "update"}
                             /\ asg'[m].to = WorkerId(w)
                             => WorkerId(w) \in DOMAIN avail'[m]
      BY DEF TasksHome
    <3>1. m = n /\ Settled(w)
      BY <1>1, <2>6 DEF Decides, wvars, Settled
    <3>2. to = WorkerId(w) => WorkerId(w) \in DOMAIN avail[n]
      BY <1>1, <2>5, <3>1 DEF OInv, TasksHome
    <3> QED
      BY <1>1, <2>1, <2>2, <2>3, <2>5, <3>1, <3>2 DEF OInv, TasksHome
  <2>11. Orphans'
    <3>1. \A m \in Nodes : asg'[m].at \in {"select", "estimate", "store", "update"} => m = n
      BY <2>2, <2>6 DEF OInv, OneDecides
    <3>2. \A t \in next.tasks \cup next.task : t \in Tasks => rec'[t].worker = rec[t].worker
      BY <2>1, <2>3, <2>5
    <3>3. \A m \in Nodes : asg'[m].tasks \cap asg'[m].task = {}
      BY <2>1, <2>2 DEF OInv, Orphans
    <3> QED
      BY <1>1, <2>1, <2>2, <2>5, <3>1, <3>2, <3>3 DEF wvars, Orphans, Orphan, Settled
  <2>12. OneDecides'
    BY <1>1, <2>2, <2>5 DEF OInv, OneDecides, Decides
  <2>13. NothingBefore'
    BY <1>1, <2>5, IdsApart DEF NothingBefore, Decides
  <2>14. RunsOwn'
    BY <1>1, <2>3, <2>5 DEF wvars, OInv, RunsOwn, Orphan, Settled
  <2> QED
    BY <2>7, <2>8, <2>9, <2>10, <2>11, <2>12, <2>13, <2>14 DEF OInv
<1> QED
  BY <1>2, <1>3 DEF assignTask

\* A node that starts asks the registry, which lists every settled worker.
LEMMA RunOnce ==
  ASSUME TInv, KInv, OInv, NEW n \in Nodes, Run(n)
  PROVE  OInv'
<1>1. UNCHANGED <<wvars, leader, rec>>
  BY DEF Run, tvars
<1>2. /\ told'[n] = Available /\ avail'[n] = Available
      /\ sub'[n] = IdleSub /\ asg'[n] = IdleAsg
      /\ \A m \in Nodes \ {n} : /\ told'[m] = told[m] /\ avail'[m] = avail[m]
                                /\ sub'[m] = sub[m] /\ asg'[m] = asg[m]
  BY DEF Run, KInv, Fields, TInv, NodeTypes
<1>3. /\ IdleAsg.at = "idle" /\ IdleAsg.to = NoWorker
      /\ IdleAsg.tasks = {} /\ IdleAsg.task = {}
      /\ IdleSub.at = "idle" /\ IdleSub.list = <<>>
  BY DEF IdleAsg, IdleSub
<1>4. \A w \in Workers : /\ Settled(w) => WorkerId(w) \in DOMAIN Available
                         /\ WorkerId(w) \in DOMAIN Available => starts[w] > 0
  BY AvailableSettled DEF OInv
<1>5. KnownStarted'
  <2>1. IdsKnown(n)' \subseteq DOMAIN Available \cup {NoWorker}
    BY <1>2, <1>3 DEF IdsKnown
  <2>2. \A m \in Nodes \ {n} : IdsKnown(m)' = IdsKnown(m)
    BY <1>2 DEF IdsKnown
  <2> QED
    BY <1>1, <1>4, <2>1, <2>2, OwnId DEF wvars, OInv, KnownStarted
<1>6. CallbackKnows'
  BY <1>1, <1>2, <1>3 DEF wvars, OInv, CallbackKnows, Settled
<1>7. TasksHome'
  BY <1>1, <1>2, <1>3, <1>4 DEF wvars, OInv, TasksHome, Settled, Decides
<1>8. Orphans' /\ OneDecides'
  BY <1>1, <1>2, <1>3 DEF wvars, OInv, Orphans, OneDecides, Settled, Decides
<1> QED
  BY <1>1, <1>5, <1>6, <1>7, <1>8, NodesKeep

LEMMA OStep ==
  ASSUME Steady, TInv, TInv', KInv, OInv, [Next]_vars
  PROVE  OInv'
<1>1. CASE UNCHANGED vars
  BY <1>1 DEF vars, wvars, tvars, nvars, OInv, Registered, InRegistry, Settled,
              KnownStarted, IdsKnown, CallbackKnows, TasksHome, Orphans, OneDecides,
              NothingBefore, RunsOwn, Decides
<1>2. CASE User \/ \E w \in Workers : Worker(w)
  BY <1>2, OthersKeep
<1>3. CASE LoseLease \/ \E n \in Nodes : AttemptElection(n)
  BY <1>3, LeaseKeeps
<1>4. ASSUME NEW n \in Nodes, autoTriggerReAssignEvent(n)
      PROVE  OInv'
  <2>1. UNCHANGED <<wvars, leader, rec, told, avail, sub, asg>>
    BY <1>4 DEF autoTriggerReAssignEvent, tvars
  <2> QED
    BY <2>1, NodesKeep DEF wvars, OInv, KnownStarted, IdsKnown, CallbackKnows, TasksHome,
                           Orphans, OneDecides, Settled, Decides
<1>5. ASSUME NEW n \in Nodes, Node(n)
      PROVE  OInv'
  BY <1>3, <1>4, <1>5, CallbackOnce, LoadOnce, SelectOnce, EstimateOnce, AssignOnce, RunOnce
     DEF Node, Assigner, RestartNode, MapRace
<1> QED
  BY <1>1, <1>2, <1>3, <1>5 DEF Next

\* Under the conditions of Steady a task never runs on two workers, whoever
\* joins, leaves or dies and whatever fails: a task is given away only when the
\* worker it has is settled no more, and a settled worker runs only its own.
THEOREM NeverTwice ==
  ASSUME Steady
  PROVE  Spec => []RunsOnce
<1>1. Init => TInv /\ KInv /\ OInv
  BY TInit, KInit, OInit
<1>2. TInv /\ KInv /\ OInv /\ [Next]_vars => TInv' /\ KInv' /\ OInv'
  BY TStep, KStep, OStep
<1>3. TInv /\ OInv => RunsOnce
  <2> SUFFICES ASSUME TInv, OInv, NEW t \in Tasks, NEW v \in Workers, NEW w \in Workers,
                      v # w, real[v][t] = Running, real[w][t] = Running
               PROVE  \E x \in {v, w} \cap Named : proc[x] = "leaving"
    BY DEF RunsOnce
  <2>1. Running # NotExist
    BY DEF Running, NotExist
  <2>2. proc[v] # "off" /\ proc[w] # "off"
    BY <2>1 DEF OInv, Registered, InRegistry
  <2>3. ~(Settled(v) /\ Settled(w))
    BY <2>1, OwnId DEF OInv, RunsOwn
  <2> QED
    BY <2>2, <2>3 DEF Settled
<1> QED
  BY <1>1, <1>2, <1>3, PTL DEF Spec
=============================================================================
