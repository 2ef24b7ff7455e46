--------------------------- MODULE SchedulerProofs ---------------------------
(***************************************************************************)
(* What is proved about the scheduler, for any nodes, workers, tasks,      *)
(* tolerations and usages, and any number of faults, starts and requests.  *)
(***************************************************************************)
EXTENDS Scheduler, TLAPS, FiniteSetTheorems

\* What the callback and the assigner hold is somewhere and has a list.
HasFields(r) == "at" \in DOMAIN r /\ "list" \in DOMAIN r

Fields ==
  /\ DOMAIN told = Nodes /\ DOMAIN avail = Nodes /\ DOMAIN event = Nodes
  /\ DOMAIN sub = Nodes /\ DOMAIN asg = Nodes
  /\ \A n \in Nodes : HasFields(sub[n]) /\ HasFields(asg[n])

\* From the call of the registry to the store the callback holds the workers
\* that call told; it goes on without the lock only when they are the same.
CallbackHolds(n) ==
  /\ sub[n].at \in {"idle", "trigger"} => DOMAIN avail[n] = DOMAIN told[n]
  /\ sub[n].at \in {"compare", "set", "lock", "locked"} =>
       DOMAIN sub[n].list = DOMAIN told[n]
  /\ sub[n].at = "set" => DOMAIN avail[n] = DOMAIN sub[n].list

\* The assigner stores the workers that are available, and while it has a list
\* of its own nobody has the write lock.
AssignerHolds(n) ==
  /\ asg[n].at = "store" => DOMAIN asg[n].list = DOMAIN avail[n]
  /\ ~(Reading(n) /\ Writing(n))

KInv == Fields /\ \A n \in Nodes : CallbackHolds(n) /\ AssignerHolds(n)
-----------------------------------------------------------------------------
LEMMA IdleFields == HasFields(IdleSub) /\ HasFields(IdleAsg)
BY DEF HasFields, IdleSub, IdleAsg

LEMMA KInit == Init => KInv
<1> SUFFICES ASSUME Init PROVE KInv
  OBVIOUS
<1>1. Fields
  BY IdleFields DEF Init, Fields
<1>2. ASSUME NEW n \in Nodes PROVE CallbackHolds(n) /\ AssignerHolds(n)
  BY DEF Init, CallbackHolds, AssignerHolds, IdleSub, IdleAsg, Reading, Writing
<1>3. QED
  BY <1>1, <1>2 DEF KInv

\* Who changes nothing of the nodes keeps the invariant.
LEMMA Elsewhere ==
  ASSUME KInv, UNCHANGED nvars
  PROVE  KInv'
BY DEF KInv, nvars, Fields, HasFields, CallbackHolds, AssignerHolds,
       Reading, Writing

\* Workers, users and the lease.
LEMMA OthersUnchanged ==
  (\/ \E w \in Workers : Worker(w)
   \/ User
   \/ LoseLease
   \/ \E n \in Nodes : AttemptElection(n)) => UNCHANGED nvars
<1>1. ASSUME NEW w \in Workers, Worker(w) PROVE UNCHANGED nvars
  BY <1>1 DEF Worker, Register, setInstanceID, ReportUsage, gracefulShutdown, UnRegister,
              CrashWorker, Expire, LoseHeartbeat, SyncTask, FinishTask
<1>2. ASSUME User PROVE UNCHANGED nvars
  BY <1>2 DEF User, CreateTask, OperateTask, OperateUpdate
<1>3. LoseLease => UNCHANGED nvars
  BY DEF LoseLease
<1>4. ASSUME NEW n \in Nodes, AttemptElection(n) PROVE UNCHANGED nvars
  BY <1>4 DEF AttemptElection
<1>5. QED
  BY <1>1, <1>2, <1>3, <1>4

LEMMA CallbackKeeps ==
  ASSUME KInv, NEW n \in Nodes, Callback(n)
  PROVE  KInv'
<1> USE DEF KInv, Fields, HasFields, CallbackHolds, AssignerHolds,
            Reading, Writing
<1>1. CASE Notify(n)
  BY <1>1 DEF Notify
<1>2. CASE Compare(n)
  BY <1>2 DEF Compare, hasAvailableWorkersChanged
<1>3. CASE Lock(n)
  BY <1>3 DEF Lock
<1>4. CASE setAvailableWorkers(n)
  BY <1>4 DEF setAvailableWorkers, IdleSub
<1>5. CASE triggerReAssignEvent(n)
  BY <1>5 DEF triggerReAssignEvent, IdleSub
<1>6. QED
  BY <1>1, <1>2, <1>3, <1>4, <1>5 DEF Callback

\* A step of the assigner that does not touch what is available.
LEMMA AsgMoves ==
  ASSUME KInv, NEW n \in Nodes, NEW next, HasFields(next), Asg(n, next),
         UNCHANGED <<told, avail, sub>>, DOMAIN event' = Nodes,
         next.at \in {"estimate", "store"} => ~Writing(n),
         next.at = "store" => DOMAIN next.list = DOMAIN avail[n]
  PROVE  KInv'
<1>1. DOMAIN asg' = Nodes /\ asg'[n] = next /\ \A m \in Nodes \ {n} : asg'[m] = asg[m]
  BY DEF KInv, Fields, Asg
<1>2. Fields'
  BY <1>1 DEF KInv, Fields, HasFields
<1>3. ASSUME NEW m \in Nodes PROVE CallbackHolds(m)'
  BY DEF KInv, CallbackHolds
<1>4. ASSUME NEW m \in Nodes PROVE AssignerHolds(m)'
  BY <1>1 DEF KInv, AssignerHolds, Reading, Writing
<1>5. QED
  BY <1>2, <1>3, <1>4 DEF KInv

\* The assigner goes on with other tasks or is idle.
LEMMA RemainingIdle ==
  ASSUME NEW tasks
  PROVE  HasFields(Remaining(tasks)) /\ Remaining(tasks).at \in {"idle", "select"}
BY DEF Remaining, IdleAsg, HasFields

LEMMA AssignerKeeps ==
  ASSUME KInv, NEW n \in Nodes, Assigner(n)
  PROVE  KInv'
<1>f. HasFields(asg[n]) /\ DOMAIN event = Nodes
  BY DEF KInv, Fields
<1>1. CASE TakeEvent(n)
  <2>1. DOMAIN event' = Nodes
    BY <1>1, <1>f DEF TakeEvent
  <2>2. CASE leader = n
    <3> DEFINE next == [IdleAsg EXCEPT !.at = "load", !.known = DOMAIN avail[n]]
    <3>1. HasFields(next) /\ next.at = "load"
      BY DEF HasFields, IdleAsg
    <3>2. QED
      BY <1>1, <2>1, <2>2, <3>1, AsgMoves DEF TakeEvent
  <2>3. CASE leader # n
    BY <1>1, <2>1, <2>3 DEF TakeEvent, KInv, Fields, HasFields, CallbackHolds,
                            AssignerHolds, Reading, Writing
  <2>4. QED
    BY <2>2, <2>3
<1>2. CASE loadNeedAssignTasks(n)
  <2>1. \E tasks : Asg(n, Remaining(tasks)) \/ Asg(n, IdleAsg)
    BY <1>2 DEF loadNeedAssignTasks
  <2>2. IdleAsg.at = "idle"
    BY DEF IdleAsg
  <2>3. QED
    BY <1>2, <1>f, <2>1, <2>2, RemainingIdle, IdleFields, AsgMoves DEF loadNeedAssignTasks
<1>3. CASE selectWorkerID(n)
  <2>1. PICK t \in asg[n].tasks :
          LET a     == [asg[n] EXCEPT !.task = {t}, !.tasks = @ \ {t}]
              fit   == filterWorker(Tolerated[t], avail[n])
              first == priorityWorker(fit, avail[n])
          IN  \/ fit = {} /\ Asg(n, Remaining(a.tasks))
              \/ /\ Cardinality(fit) = 1
                 /\ \E d \in fit : Asg(n, [a EXCEPT !.at = "update", !.to = d])
              \/ /\ Cardinality(fit) > 1
                 /\ \E d \in first :
                      Asg(n, [a EXCEPT !.at = "estimate", !.to = d,
                                       !.usage = estimate(avail[n][d].usage),
                                       !.list = avail[n]])
    BY <1>3 DEF selectWorkerID
  <2> DEFINE a == [asg[n] EXCEPT !.task = {t}, !.tasks = @ \ {t}]
  <2>2. /\ ~Writing(n) /\ UNCHANGED <<told, avail, sub, event>>
    BY <1>3 DEF selectWorkerID
  <2>3. ASSUME NEW d PROVE /\ HasFields([a EXCEPT !.at = "update", !.to = d])
                           /\ [a EXCEPT !.at = "update", !.to = d].at = "update"
    BY <1>f DEF HasFields
  <2>4. ASSUME NEW d, NEW u, NEW l
        PROVE  LET b == [a EXCEPT !.at = "estimate", !.to = d, !.usage = u, !.list = l]
               IN  HasFields(b) /\ b.at = "estimate"
    BY <1>f DEF HasFields
  <2>5. QED
    BY <1>f, <2>1, <2>2, <2>3, <2>4, RemainingIdle, AsgMoves
<1>4. CASE updateLocalResourceEstimate(n)
  <2> DEFINE d    == asg[n].to
             list == [avail[n] EXCEPT ![d] = [asg[n].list[d] EXCEPT !.usage = asg[n].usage]]
             next == [asg[n] EXCEPT !.at = "store", !.list = list]
  <2>1. HasFields(next) /\ next.at = "store" /\ next.list = list
    BY <1>f DEF HasFields
  <2>2. DOMAIN list = DOMAIN avail[n]
    OBVIOUS
  <2>3. ~Writing(n)
    BY <1>4 DEF updateLocalResourceEstimate, Reading, KInv, AssignerHolds
  <2>4. Asg(n, next) /\ UNCHANGED <<told, avail, sub, event>>
    BY <1>4 DEF updateLocalResourceEstimate
  <2>5. QED
    BY <1>f, <2>1, <2>2, <2>3, <2>4, AsgMoves
<1>5. CASE updateWorkerInCache(n)
  BY <1>5 DEF updateWorkerInCache, KInv, Fields, HasFields, CallbackHolds,
              AssignerHolds, Reading, Writing, Asg
<1>6. CASE assignTask(n)
  BY <1>6, <1>f, RemainingIdle, AsgMoves DEF assignTask
<1>7. QED
  BY <1>1, <1>2, <1>3, <1>4, <1>5, <1>6 DEF Assigner

\* A node that starts knows what it is told.
LEMMA RunKeeps ==
  ASSUME KInv, NEW n \in Nodes, Run(n)
  PROVE  KInv'
BY DEF KInv, Fields, HasFields, CallbackHolds, AssignerHolds,
       Reading, Writing, Run, IdleSub, IdleAsg

LEMMA KStep == KInv /\ [Next]_vars => KInv'
<1> SUFFICES ASSUME KInv, [Next]_vars PROVE KInv'
  OBVIOUS
<1>1. CASE UNCHANGED vars
  BY <1>1, Elsewhere DEF vars
<1>2. CASE \E w \in Workers : Worker(w)
  BY <1>2, OthersUnchanged, Elsewhere
<1>3. CASE User
  BY <1>3, OthersUnchanged, Elsewhere
<1>4. CASE LoseLease
  BY <1>4, OthersUnchanged, Elsewhere
<1>5. ASSUME NEW n \in Nodes, Node(n) PROVE KInv'
  <2>1. CASE Callback(n)
    BY <2>1, CallbackKeeps
  <2>2. CASE Assigner(n)
    BY <2>2, AssignerKeeps
  <2>3. CASE autoTriggerReAssignEvent(n)
    BY <2>3 DEF autoTriggerReAssignEvent, KInv, Fields, HasFields,
                CallbackHolds, AssignerHolds, Reading, Writing
  <2>4. CASE RestartNode(n) \/ MapRace(n)
    BY <2>4, RunKeeps DEF RestartNode, MapRace
  <2>5. CASE AttemptElection(n)
    BY <2>5, OthersUnchanged, Elsewhere
  <2>6. QED
    BY <1>5, <2>1, <2>2, <2>3, <2>4, <2>5 DEF Node
<1>6. QED
  BY <1>1, <1>2, <1>3, <1>4, <1>5 DEF Next

\* However callbacks and assignments mix, a node that is through with a callback
\* knows the workers the registry told it of, no more and no less.
THEOREM NoWorkerLost == Spec => []WorkersKnown
<1>1. KInv => WorkersKnown
  BY DEF KInv, CallbackHolds, WorkersKnown
<1>2. QED
  BY <1>1, KInit, KStep, PTL DEF Spec
-----------------------------------------------------------------------------
(* Types.                                                                  *)

\* A list of workers with their stains and usages.
IsList(l) == DOMAIN l \subseteq IDs /\ \A d \in DOMAIN l : l[d] \in EntryType

WorkerTypes ==
  /\ inst \in [Workers -> [named : BOOLEAN, stains : SUBSET AllStains,
                           usage : UsageType, healthy : BOOLEAN]]
  /\ proc \in [Workers -> {"off", "registering", "up", "leaving"}]
  /\ starts \in [Workers -> 0..MaxStarts]
  /\ real \in [Workers -> [Tasks -> LiveStatuses \cup {NotExist}]]

\* What users may ask for.
Requests == [task : Tasks, next : {Running, Paused, Stop}]

RecordTypes ==
  /\ rec \in [Tasks -> [status : Statuses, want : Statuses, worker : IDs]]
  /\ oper \subseteq Requests

AsgAts == {"idle", "load", "select", "estimate", "store", "update"}
SubAts == {"idle", "compare", "lock", "locked", "set", "trigger"}

\* The callback and the assigner hold lists of workers, and an estimate is made
\* for a worker of the list.
IsSub(s) == DOMAIN s = {"at", "list"} /\ s.at \in SubAts /\ IsList(s.list)
IsAsg(a) ==
  /\ DOMAIN a = {"at", "known", "tasks", "task", "to", "usage", "list"}
  /\ a.at \in AsgAts /\ a.tasks \subseteq Tasks /\ a.to \in IDs
  /\ a.usage \in UsageType /\ IsList(a.list)
  /\ a.at = "estimate" => a.to \in DOMAIN a.list

NodeTypes ==
  /\ DOMAIN avail = Nodes /\ DOMAIN sub = Nodes /\ DOMAIN asg = Nodes
  /\ event \in [Nodes -> BOOLEAN]
  /\ leader \in Nodes \cup {NoLeader}
  /\ \A n \in Nodes : IsList(avail[n]) /\ IsSub(sub[n]) /\ IsAsg(asg[n])

TInv == WorkerTypes /\ RecordTypes /\ NodeTypes

\* What the proofs need of the constants.
LEMMA Bounds == MaxStarts \in Nat /\ Usages \subseteq UsageType
BY SchedulerBounds

LEMMA StatusTypes ==
  /\ {Running, Paused, Stop, Failed, Success, NotExist, WaitScheduling} \subseteq Statuses
  /\ {Running, Paused} \subseteq LiveStatuses
  /\ \A s \in {Running, Paused, Stop} : PreWaitStatus(s) \in Statuses
BY DEF Statuses, LiveStatuses, FinalStatuses, WaitStatuses, Running, Paused, Stop, Failed,
       Success, NotExist, WaitScheduling, WaitRunning, WaitPaused, WaitStop, PreWaitStatus,
       IsFinalStatus

LEMMA UsageTypes == NoUsage \in UsageType /\ \A u \in UsageType : estimate(u) \in UsageType
<1>1. NoUsage \in UsageType
  BY DEF NoUsage, UsageType
<1>2. ASSUME NEW u \in UsageType PROVE estimate(u) \in UsageType
  <2>1. u.cpu + 5 \in Nat /\ u.mem + 5 \in Nat /\ u.goroutines + 1 \in Nat
    BY DEF UsageType
  <2>2. QED
    BY <2>1, Zenon DEF UsageType, estimate
<1>3. QED
  BY <1>1, <1>2

LEMMA StainTypes ==
  ASSUME NEW u, NEW disable
  PROVE  GenerateStain(u, disable) \subseteq AllStains
BY DEF GenerateStain, AllStains

LEMMA IdTypes ==
  /\ NoWorker \in IDs
  /\ \A w \in Workers : WorkerId(w) \in IDs /\ ID(w) \in IDs
BY DEF IDs, NoWorker, WorkerId, InstanceId, ID

\* The table knows the changes AfterChange is defined for.
LEMMA ChangeTypes ==
  ASSUME NEW real0, NEW want, GetChangeType(real0, want) # NoChange
  PROVE  GetChangeType(real0, want) \in NormalChanges \cup ExceptionChanges
<1> DEFINE rules == {r \in changeTypesRule : r[1] = real0 /\ r[2] = want}
<1>1. rules # {} /\ GetChangeType(real0, want) = (CHOOSE r \in rules : TRUE)[3]
  BY DEF GetChangeType
<1>2. (CHOOSE r \in rules : TRUE) \in changeTypesRule
  BY <1>1
<1>3. \A r \in changeTypesRule : r[3] \in NormalChanges \cup ExceptionChanges
  BY DEF changeTypesRule, NormalChanges, ExceptionChanges
<1>4. QED
  BY <1>1, <1>2, <1>3

LEMMA AfterChangeTypes ==
  ASSUME NEW change \in NormalChanges \cup ExceptionChanges
  PROVE  /\ AfterChange(change)[1] \in LiveStatuses \cup {NotExist}
         /\ AfterChange(change)[2] \in Statuses
BY StatusTypes DEF AfterChange, NormalChanges, ExceptionChanges, IsException

\* What the registry tells is a list of workers.
LEMMA AvailableType == WorkerTypes => IsList(Available)
<1> SUFFICES ASSUME WorkerTypes PROVE IsList(Available)
  OBVIOUS
<1>1. DOMAIN Available = {ID(w) : w \in {v \in Workers : inst[v].healthy}}
  BY DEF Available
<1>2. ASSUME NEW d \in DOMAIN Available PROVE Available[d] \in EntryType
  <2> DEFINE w == CHOOSE v \in Workers : inst[v].healthy /\ ID(v) = d
  <2>1. w \in Workers
    BY <1>1
  <2>2. Available[d] = [stains |-> inst[w].stains, usage |-> inst[w].usage]
    BY <1>1 DEF Available
  <2>3. inst[w].stains \in SUBSET AllStains /\ inst[w].usage \in UsageType
    BY <2>1 DEF WorkerTypes
  <2>4. QED
    BY <2>2, <2>3 DEF EntryType
<1>3. QED
  BY <1>1, <1>2, IdTypes DEF IsList
-----------------------------------------------------------------------------
LEMMA IdleTypes == IsList(<<>>) /\ IsSub(IdleSub) /\ IsAsg(IdleAsg)
<1>1. IsList(<<>>)
  BY DEF IsList
<1>2. IsSub(IdleSub)
  BY <1>1 DEF IsSub, IdleSub, SubAts
<1>3. IsAsg(IdleAsg)
  BY <1>1, UsageTypes, IdTypes DEF IsAsg, IdleAsg, AsgAts
<1>4. QED
  BY <1>1, <1>2, <1>3

LEMMA TInit == Init => TInv
<1> SUFFICES ASSUME Init PROVE TInv
  OBVIOUS
<1>1. WorkerTypes
  <2>1. NoInstance \in [named : BOOLEAN, stains : SUBSET AllStains,
                        usage : UsageType, healthy : BOOLEAN]
    BY UsageTypes DEF NoInstance, Instance
  <2>2. 0 \in 0..MaxStarts
    BY Bounds
  <2>3. QED
    BY <2>1, <2>2 DEF Init, WorkerTypes
<1>2. RecordTypes
  BY StatusTypes, IdTypes DEF Init, RecordTypes
<1>3. NodeTypes
  BY IdleTypes DEF Init, NodeTypes
<1>4. QED
  BY <1>1, <1>2, <1>3 DEF TInv
-----------------------------------------------------------------------------
Instances == [named : BOOLEAN, stains : SUBSET AllStains, usage : UsageType,
              healthy : BOOLEAN]

\* What is registered is an instance.
LEMMA InstanceType ==
  ASSUME NEW named \in BOOLEAN, NEW u \in UsageType, NEW disable
  PROVE  Instance(named, GenerateStain(u, disable), u) \in Instances
BY StainTypes DEF Instance, Instances

LEMMA NoInstanceType == NoInstance \in Instances
BY UsageTypes DEF NoInstance, Instance, Instances

\* The steps of a worker keep what is known of workers.
LEMMA WorkerStep ==
  ASSUME TInv, NEW w \in Workers, Worker(w)
  PROVE  WorkerTypes'
<1> USE DEF TInv, WorkerTypes
<1>i. inst \in [Workers -> Instances]
  BY DEF Instances
<1>g. (inst' \in [Workers -> Instances] /\ UNCHANGED <<starts, real>>
       /\ proc' \in [Workers -> {"off", "registering", "up", "leaving"}]) => WorkerTypes'
  BY DEF Instances
<1>r. NothingRuns(w) => real' \in [Workers -> [Tasks -> LiveStatuses \cup {NotExist}]]
  BY DEF NothingRuns
<1>1. CASE Register(w)
  <2>1. PICK u \in Usages :
          inst' = [inst EXCEPT ![w] = Instance(w \in Named, GenerateStain(u, FALSE), u)]
    BY <1>1 DEF Register
  <2>n. (w \in Named) \in BOOLEAN
    OBVIOUS
  <2>u. Instance(w \in Named, GenerateStain(u, FALSE), u) \in Instances
    BY <2>n, Bounds, InstanceType
  <2>2. inst' \in [Workers -> Instances]
    BY <1>i, <2>1, <2>u
  <2>3. starts' \in [Workers -> 0..MaxStarts]
    BY <1>1, Bounds DEF Register
  <2>4. proc' \in [Workers -> {"off", "registering", "up", "leaving"}]
    BY <1>1 DEF Register
  <2>5. QED
    BY <1>1, <2>2, <2>3, <2>4 DEF Register, Instances
<1>2. CASE setInstanceID(w)
  BY <1>2, <1>i, <1>g DEF setInstanceID
<1>3. CASE ReportUsage(w)
  <2>1. PICK u \in Usages : inst' = [inst EXCEPT ![w] = Instance(TRUE, GenerateStain(u, FALSE), u)]
    BY <1>3 DEF ReportUsage
  <2>2. Instance(TRUE, GenerateStain(u, FALSE), u) \in Instances
    BY Bounds, InstanceType
  <2>3. QED
    BY <1>3, <1>i, <1>g, <2>1, <2>2 DEF ReportUsage
<1>4. CASE gracefulShutdown(w)
  <2>1. Instance(FALSE, GenerateStain(NoUsage, TRUE), NoUsage) \in Instances
    BY UsageTypes, InstanceType
  <2>2. inst' \in [Workers -> Instances]
    BY <1>4, <1>i, <2>1 DEF gracefulShutdown
  <2>3. QED
    BY <1>4, <1>g, <2>2 DEF gracefulShutdown
<1>5. CASE UnRegister(w)
  BY <1>5, <1>i, <1>r, NoInstanceType DEF UnRegister, Instances
<1>6. CASE CrashWorker(w)
  BY <1>6, <1>r DEF CrashWorker
<1>7. CASE Expire(w)
  BY <1>7, <1>i, <1>g, NoInstanceType DEF Expire
<1>8. CASE LoseHeartbeat(w)
  <2>1. [inst[w] EXCEPT !.healthy = FALSE] \in Instances
    BY <1>i DEF Instances
  <2>2. QED
    BY <1>8, <1>i, <1>g, <2>1 DEF LoseHeartbeat
<1>9. ASSUME NEW t \in Tasks, SyncTask(w, t) PROVE WorkerTypes'
  <2> DEFINE change == GetChangeType(real[w][t], WantedBy(w, t))
  <2>1. AfterChange(change)[1] \in LiveStatuses \cup {NotExist}
    BY <1>9, ChangeTypes, AfterChangeTypes DEF SyncTask
  <2>2. real' = [real EXCEPT ![w][t] = AfterChange(change)[1]]
    BY <1>9 DEF SyncTask
  <2>3. real' \in [Workers -> [Tasks -> LiveStatuses \cup {NotExist}]]
    BY <2>1, <2>2
  <2>4. QED
    BY <1>9, <2>3 DEF SyncTask
<1>10. ASSUME NEW t \in Tasks, FinishTask(w, t) PROVE WorkerTypes'
  BY <1>10 DEF FinishTask
<1>11. QED
  BY <1>1, <1>2, <1>3, <1>4, <1>5, <1>6, <1>7, <1>8, <1>9, <1>10 DEF Worker

\* Neither users nor schedulers change anything of the workers.
LEMMA WorkersAlone ==
  User \/ LoseLease \/ (\E n \in Nodes : Node(n)) => UNCHANGED wvars
<1>1. User => UNCHANGED wvars
  BY DEF User, CreateTask, OperateTask, OperateUpdate
<1>2. LoseLease => UNCHANGED wvars
  BY DEF LoseLease
<1>3. ASSUME NEW n \in Nodes, Callback(n) PROVE UNCHANGED wvars
  BY <1>3 DEF Callback, Notify, Compare, Lock, setAvailableWorkers, triggerReAssignEvent
<1>4. ASSUME NEW n \in Nodes, Assigner(n) PROVE UNCHANGED wvars
  BY <1>4 DEF Assigner, TakeEvent, loadNeedAssignTasks, selectWorkerID,
              updateLocalResourceEstimate, updateWorkerInCache, assignTask
<1>5. ASSUME NEW n \in Nodes, Node(n) PROVE UNCHANGED wvars
  BY <1>3, <1>4, <1>5 DEF Node, autoTriggerReAssignEvent, RestartNode, MapRace, Run,
                          AttemptElection
<1>6. QED
  BY <1>1, <1>2, <1>5
-----------------------------------------------------------------------------
\* Records are written by workers, users and assignTask only.
LEMMA RecordStep ==
  ASSUME TInv, Next
  PROVE  RecordTypes'
<1> USE DEF TInv, RecordTypes
<1>1. ASSUME NEW w \in Workers, Worker(w) PROVE RecordTypes'
  <2>1. ASSUME NEW t \in Tasks, SyncTask(w, t) PROVE RecordTypes'
    <3> DEFINE change == GetChangeType(real[w][t], WantedBy(w, t))
    <3>1. AfterChange(change)[2] \in Statuses
      BY <2>1, ChangeTypes, AfterChangeTypes DEF SyncTask
    <3>2. rec' = [rec EXCEPT ![t].status = AfterChange(change)[2]] /\ UNCHANGED oper
      BY <2>1 DEF SyncTask
    <3>3. QED
      BY <3>1, <3>2
  <2>2. ASSUME NEW t \in Tasks, FinishTask(w, t) PROVE RecordTypes'
    BY <2>2, StatusTypes DEF FinishTask
  <2>3. UNCHANGED tvars => RecordTypes'
    BY DEF tvars
  <2>4. CASE ~\E t \in Tasks : SyncTask(w, t) \/ FinishTask(w, t)
    BY <1>1, <2>3, <2>4 DEF Worker, Register, setInstanceID, ReportUsage, gracefulShutdown,
                 UnRegister, CrashWorker, Expire, LoseHeartbeat
  <2>5. QED
    BY <2>1, <2>2, <2>4
<1>2. ASSUME User PROVE RecordTypes'
  <2>1. ASSUME NEW t \in Tasks, CreateTask(t) PROVE RecordTypes'
    BY <2>1, StatusTypes DEF CreateTask
  <2>2. ASSUME NEW t \in Tasks, NEW next \in {Running, Paused, Stop}, OperateTask(t, next)
        PROVE  RecordTypes'
    <3>1. [task |-> t, next |-> next] \in Requests
      BY DEF Requests
    <3>2. QED
      BY <2>2, <3>1 DEF OperateTask
  <2>3. ASSUME NEW o \in oper, OperateUpdate(o) PROVE RecordTypes'
    <3>1. o.task \in Tasks /\ o.next \in {Running, Paused, Stop}
      BY DEF Requests
    <3>2. PreWaitStatus(o.next) \in Statuses /\ o.next \in Statuses
      BY <3>1, StatusTypes
    <3>3. QED
      BY <2>3, <3>1, <3>2 DEF OperateUpdate
  <2>4. QED
    BY <1>2, <2>1, <2>2, <2>3 DEF User
<1>3. ASSUME NEW n \in Nodes, Node(n) PROVE RecordTypes'
  <2>1. CASE assignTask(n)
    <3>1. Assigned(asg[n].to) \in [status : Statuses, want : Statuses, worker : IDs]
      BY StatusTypes DEF NodeTypes, IsAsg, Assigned
    <3>2. QED
      BY <2>1, <3>1 DEF assignTask
  <2>2. UNCHANGED tvars => RecordTypes'
    BY DEF tvars
  <2>3. CASE Callback(n)
    BY <2>2, <2>3 DEF Callback, Notify, Compare, Lock, setAvailableWorkers,
                      triggerReAssignEvent
  <2>4. CASE Assigner(n) /\ ~assignTask(n)
    BY <2>2, <2>4 DEF Assigner, TakeEvent, loadNeedAssignTasks, selectWorkerID,
                      updateLocalResourceEstimate, updateWorkerInCache
  <2>5. QED
    BY <1>3, <2>1, <2>2, <2>3, <2>4 DEF Node, autoTriggerReAssignEvent, RestartNode,
                                        MapRace, Run, AttemptElection
<1>4. LoseLease => RecordTypes'
  BY DEF LoseLease, tvars
<1>5. QED
  BY <1>1, <1>2, <1>3, <1>4 DEF Next
-----------------------------------------------------------------------------
\* A callback that moves on, and what it makes available.
LEMMA SubMoves ==
  ASSUME NodeTypes, NEW n \in Nodes, NEW next, IsSub(next),
         sub' = [sub EXCEPT ![n] = next], UNCHANGED <<asg, leader>>,
         NEW l, IsList(l), avail' = avail \/ avail' = [avail EXCEPT ![n] = l],
         event' \in [Nodes -> BOOLEAN]
  PROVE  NodeTypes'
BY DEF NodeTypes

LEMMA CallbackTypes ==
  ASSUME TInv, NEW n \in Nodes, Callback(n)
  PROVE  NodeTypes'
<1>t. IsSub(sub[n]) /\ IsList(sub[n].list) /\ event \in [Nodes -> BOOLEAN]
  BY DEF TInv, NodeTypes, IsSub
<1>a. ASSUME NEW at \in SubAts PROVE IsSub([sub[n] EXCEPT !.at = at])
  BY <1>t DEF IsSub
<1>1. CASE Notify(n)
  <2>1. IsSub([at |-> "compare", list |-> Available])
    BY AvailableType DEF TInv, IsSub, SubAts
  <2>2. QED
    BY <1>1, <1>t, <2>1, SubMoves DEF Notify, TInv
<1>2. CASE Compare(n)
  <2> DEFINE at == IF hasAvailableWorkersChanged(n) THEN "lock" ELSE "set"
  <2>1. IsSub([sub[n] EXCEPT !.at = at])
    BY <1>a DEF SubAts
  <2>2. sub' = [sub EXCEPT ![n] = [sub[n] EXCEPT !.at = at]]
    BY <1>2 DEF Compare
  <2>3. QED
    BY <1>2, <1>t, <2>1, <2>2, SubMoves DEF Compare, TInv
<1>3. CASE Lock(n)
  <2>1. IsSub([sub[n] EXCEPT !.at = "locked"])
    BY <1>a DEF SubAts
  <2>2. sub' = [sub EXCEPT ![n] = [sub[n] EXCEPT !.at = "locked"]]
    BY <1>3 DEF Lock
  <2>3. QED
    BY <1>3, <1>t, <2>1, <2>2, SubMoves DEF Lock, TInv
<1>4. CASE setAvailableWorkers(n)
  <2> DEFINE next == IF sub[n].at = "locked" THEN [IdleSub EXCEPT !.at = "trigger"]
                                             ELSE IdleSub
  <2>1. IsSub([IdleSub EXCEPT !.at = "trigger"])
    BY IdleTypes DEF IsSub, SubAts
  <2>2. IsSub(next)
    BY <2>1, IdleTypes
  <2>3. QED
    BY <1>4, <1>t, <2>2, SubMoves DEF setAvailableWorkers, TInv
<1>5. CASE triggerReAssignEvent(n)
  BY <1>5, <1>t, IdleTypes, SubMoves DEF triggerReAssignEvent, TInv
<1>6. QED
  BY <1>1, <1>2, <1>3, <1>4, <1>5 DEF Callback

\* An assigner that moves on, and what it makes available.
LEMMA AsgTypes ==
  ASSUME NodeTypes, NEW n \in Nodes, NEW next, IsAsg(next), Asg(n, next),
         UNCHANGED <<sub, leader>>,
         NEW l, IsList(l), avail' = avail \/ avail' = [avail EXCEPT ![n] = l],
         event' \in [Nodes -> BOOLEAN]
  PROVE  NodeTypes'
BY DEF NodeTypes, Asg

LEMMA RemainingType ==
  ASSUME NEW tasks \in SUBSET Tasks
  PROVE  IsAsg(Remaining(tasks))
<1>1. IsAsg([IdleAsg EXCEPT !.at = "select", !.tasks = tasks])
  BY IdleTypes DEF IsAsg, AsgAts
<1>2. QED
  BY <1>1, IdleTypes DEF Remaining

LEMMA AssignerTypes ==
  ASSUME TInv, NEW n \in Nodes, Assigner(n)
  PROVE  NodeTypes'
<1>t. /\ NodeTypes /\ IsAsg(asg[n]) /\ IsList(avail[n]) /\ event \in [Nodes -> BOOLEAN]
      /\ asg[n].tasks \subseteq Tasks
  BY DEF TInv, NodeTypes, IsAsg
<1>1. CASE TakeEvent(n)
  <2>1. event' \in [Nodes -> BOOLEAN] /\ UNCHANGED <<avail, sub, leader>>
    BY <1>1, <1>t DEF TakeEvent
  <2>2. IsAsg([IdleAsg EXCEPT !.at = "load", !.known = DOMAIN avail[n]])
    BY IdleTypes DEF IsAsg, AsgAts
  <2>3. CASE leader = n
    BY <1>1, <1>t, <2>1, <2>2, <2>3, AsgTypes DEF TakeEvent
  <2>4. CASE leader # n
    BY <1>1, <1>t, <2>1, <2>4 DEF TakeEvent, NodeTypes
  <2>5. QED
    BY <2>3, <2>4
<1>2. CASE loadNeedAssignTasks(n)
  <2>1. IsAsg(Remaining(NeedAssign(asg[n].known)))
    BY RemainingType DEF NeedAssign
  <2>2. Asg(n, Remaining(NeedAssign(asg[n].known))) \/ Asg(n, IdleAsg)
    BY <1>2 DEF loadNeedAssignTasks
  <2>3. QED
    BY <1>2, <1>t, <2>1, <2>2, IdleTypes, AsgTypes DEF loadNeedAssignTasks
<1>3. CASE selectWorkerID(n)
  <2>1. PICK t \in asg[n].tasks :
          LET a     == [asg[n] EXCEPT !.task = {t}, !.tasks = @ \ {t}]
              fit   == filterWorker(Tolerated[t], avail[n])
              first == priorityWorker(fit, avail[n])
          IN  \/ fit = {} /\ Asg(n, Remaining(a.tasks))
              \/ /\ Cardinality(fit) = 1
                 /\ \E d \in fit : Asg(n, [a EXCEPT !.at = "update", !.to = d])
              \/ /\ Cardinality(fit) > 1
                 /\ \E d \in first :
                      Asg(n, [a EXCEPT !.at = "estimate", !.to = d,
                                       !.usage = estimate(avail[n][d].usage),
                                       !.list = avail[n]])
    BY <1>3 DEF selectWorkerID
  <2> DEFINE a     == [asg[n] EXCEPT !.task = {t}, !.tasks = @ \ {t}]
             fit   == filterWorker(Tolerated[t], avail[n])
             first == priorityWorker(fit, avail[n])
             single(d) == [a EXCEPT !.at = "update", !.to = d]
             best(d)   == [a EXCEPT !.at = "estimate", !.to = d,
                                    !.usage = estimate(avail[n][d].usage),
                                    !.list = avail[n]]
  <2>2. UNCHANGED <<avail, sub, leader, event>>
    BY <1>3 DEF selectWorkerID
  <2>3. IsAsg(a)
    BY <1>t DEF IsAsg
  <2>4. first \subseteq fit /\ fit \subseteq DOMAIN avail[n] /\ DOMAIN avail[n] \subseteq IDs
    BY <1>t DEF priorityWorker, filterWorker, IsList
  <2>5. ASSUME NEW d \in fit PROVE IsAsg(single(d))
    BY <2>3, <2>4 DEF IsAsg, AsgAts
  <2>6. ASSUME NEW d \in first PROVE IsAsg(best(d))
    <3>1. estimate(avail[n][d].usage) \in UsageType
      BY <1>t, <2>4, UsageTypes DEF IsList, EntryType
    <3>2. QED
      BY <1>t, <2>3, <2>4, <3>1 DEF IsAsg, AsgAts
  <2>7. IsAsg(Remaining(a.tasks))
    BY <2>3, RemainingType DEF IsAsg
  <2>8. \/ Asg(n, Remaining(a.tasks))
        \/ \E d \in fit : Asg(n, single(d))
        \/ \E d \in first : Asg(n, best(d))
    BY <2>1
  <2>9. PICK next : IsAsg(next) /\ Asg(n, next)
    BY <2>5, <2>6, <2>7, <2>8
  <2>10. QED
    BY <1>t, <2>2, <2>9, AsgTypes
<1>4. CASE updateLocalResourceEstimate(n)
  <2> DEFINE d     == asg[n].to
             entry == [asg[n].list[d] EXCEPT !.usage = asg[n].usage]
             list  == [avail[n] EXCEPT ![d] = entry]
             next  == [asg[n] EXCEPT !.at = "store", !.list = list]
  <2>1. asg[n].list[d] \in EntryType /\ asg[n].usage \in UsageType
    BY <1>4, <1>t DEF updateLocalResourceEstimate, IsAsg, IsList
  <2>2. entry \in EntryType
    BY <2>1 DEF EntryType
  <2>3. IsList(list)
    BY <1>t, <2>2 DEF IsList
  <2>4. IsAsg(next)
    BY <1>t, <2>3 DEF IsAsg, AsgAts
  <2>5. Asg(n, next) /\ UNCHANGED <<avail, sub, leader, event>>
    BY <1>4 DEF updateLocalResourceEstimate
  <2>6. QED
    BY <1>t, <2>4, <2>5, AsgTypes
<1>5. CASE updateWorkerInCache(n)
  <2> DEFINE next == [asg[n] EXCEPT !.at = "update", !.list = <<>>, !.usage = NoUsage]
  <2>1. IsAsg(next)
    BY <1>t, IdleTypes, UsageTypes DEF IsAsg, AsgAts
  <2>2. IsList(asg[n].list)
    BY <1>t DEF IsAsg
  <2>3. Asg(n, next) /\ avail' = [avail EXCEPT ![n] = asg[n].list]
        /\ UNCHANGED <<sub, leader, event>>
    BY <1>5 DEF updateWorkerInCache
  <2>4. QED
    BY <1>t, <2>1, <2>2, <2>3, AsgTypes
<1>6. CASE assignTask(n)
  BY <1>6, <1>t, RemainingType, AsgTypes DEF assignTask
<1>7. QED
  BY <1>1, <1>2, <1>3, <1>4, <1>5, <1>6 DEF Assigner

LEMMA RunTypes ==
  ASSUME TInv, NEW n \in Nodes, Run(n)
  PROVE  NodeTypes'
BY IdleTypes, AvailableType DEF TInv, NodeTypes, Run

LEMMA NodeStep ==
  ASSUME TInv, Next
  PROVE  NodeTypes'
<1>1. UNCHANGED <<nvars, leader>> => NodeTypes'
  BY DEF TInv, NodeTypes, nvars
<1>2. ASSUME NEW w \in Workers, Worker(w) PROVE UNCHANGED <<nvars, leader>>
  BY <1>2 DEF Worker, Register, setInstanceID, ReportUsage, gracefulShutdown, UnRegister,
              CrashWorker, Expire, LoseHeartbeat, SyncTask, FinishTask
<1>3. ASSUME User PROVE UNCHANGED <<nvars, leader>>
  BY <1>3 DEF User, CreateTask, OperateTask, OperateUpdate
<1>4. CASE LoseLease
  BY <1>4 DEF LoseLease, TInv, NodeTypes, nvars
<1>5. ASSUME NEW n \in Nodes, Node(n) PROVE NodeTypes'
  <2>1. CASE AttemptElection(n)
    BY <2>1 DEF AttemptElection, TInv, NodeTypes, nvars
  <2>2. CASE autoTriggerReAssignEvent(n)
    BY <2>2 DEF autoTriggerReAssignEvent, TInv, NodeTypes
  <2>3. QED
    BY <1>5, <2>1, <2>2, CallbackTypes, AssignerTypes, RunTypes DEF Node, RestartNode, MapRace
<1>6. QED
  BY <1>1, <1>2, <1>3, <1>4, <1>5 DEF Next

LEMMA TStep == TInv /\ [Next]_vars => TInv'
<1> SUFFICES ASSUME TInv, [Next]_vars PROVE TInv'
  OBVIOUS
<1>1. CASE UNCHANGED vars
  BY <1>1 DEF vars, wvars, tvars, nvars, TInv, WorkerTypes, RecordTypes, NodeTypes
<1>2. CASE Next
  <2>1. UNCHANGED wvars => WorkerTypes'
    BY DEF wvars, TInv, WorkerTypes
  <2>2. WorkerTypes'
    BY <1>2, <2>1, WorkerStep, WorkersAlone DEF Next
  <2>3. QED
    BY <1>2, <2>2, RecordStep, NodeStep DEF TInv
<1>3. QED
  BY <1>1, <1>2

\* Every variable keeps its type; above all, a record only ever names a worker
\* that exists, and what the scheduler knows of workers are stains and usages.
THEOREM SchedulerTypes == Spec => []TypeOK
<1>1. TInv => TypeOK
  <2> SUFFICES ASSUME TInv PROVE TypeOK
    OBVIOUS
  <2>1. oper \subseteq [task : Tasks, next : Statuses]
    BY StatusTypes DEF TInv, RecordTypes, Requests
  <2>2. ASSUME NEW n \in Nodes
        PROVE  /\ sub[n].at \in {"idle", "compare", "lock", "locked", "set", "trigger"}
               /\ asg[n].at \in {"idle", "load", "select", "estimate", "store", "update"}
               /\ asg[n].tasks \subseteq Tasks /\ asg[n].to \in IDs
               /\ DOMAIN avail[n] \subseteq IDs
               /\ \A d \in DOMAIN avail[n] : avail[n][d] \in EntryType
    BY DEF TInv, NodeTypes, IsSub, IsAsg, IsList, SubAts, AsgAts
  <2>3. QED
    BY <2>1, <2>2 DEF TInv, WorkerTypes, RecordTypes, NodeTypes, TypeOK
<1>2. QED
  BY <1>1, TInit, TStep, PTL DEF Spec
-----------------------------------------------------------------------------
\* filterWorker compares the sizes first and then the stains one by one: a worker
\* is a candidate exactly when each of its stains is tolerated.
THEOREM ToleratesAll ==
  ASSUME NEW tolerated, IsFiniteSet(tolerated), NEW stains
  PROVE  tolerates(tolerated, stains) <=> stains \subseteq tolerated
<1>1. ASSUME stains \subseteq tolerated
      PROVE  Cardinality(stains) <= Cardinality(tolerated)
  BY <1>1, FS_Subset
<1>2. QED
  BY <1>1 DEF tolerates

\* The estimate counts: a worker that was chosen scores worse than before.
LEMMA EstimateCounts ==
  ASSUME NEW u \in UsageType
  PROVE  score(estimate(u)) > score(u)
<1> DEFINE e  == estimate(u)
           gc == (20 * u.gcPause) \div u.gcCount
<1>1. /\ u.cpu \in Nat /\ u.mem \in Nat /\ u.goroutines \in Nat
      /\ u.gcCount \in Nat /\ u.gcPause \in Nat
  BY DEF UsageType
<1>2. /\ e.cpu = u.cpu + 5 /\ e.mem = u.mem + 5 /\ e.goroutines = u.goroutines + 1
      /\ e.gcCount = u.gcCount /\ e.gcPause = u.gcPause
  BY DEF UsageType, estimate
<1>3. CASE u.gcCount = 0
  BY <1>1, <1>2, <1>3 DEF score
<1>4. CASE u.gcCount # 0
  <2>1. gc \in Int
    BY <1>1, <1>4
  <2>2. score(u) = u.cpu + u.mem + (2 * u.goroutines + gc)
    BY <1>4 DEF score
  <2>3. score(e) = (u.cpu + 5) + (u.mem + 5) + (2 * (u.goroutines + 1) + gc)
    BY <1>2, <1>4 DEF score
  <2> HIDE DEF gc, e
  <2>4. score(e) > score(u)
    BY <1>1, <2>1, <2>2, <2>3
  <2>5. QED
    BY <2>4 DEF e
<1>5. QED
  BY <1>3, <1>4
=============================================================================
