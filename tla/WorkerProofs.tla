----------------------------- MODULE WorkerProofs -----------------------------
(***************************************************************************)
(* What is proved about the control loop of one worker, whatever its tasks *)
(* and its limits, with any operations of users, failing calls of the task *)
(* repository, timers, and crashes: the types of what its goroutines keep  *)
(* and hand to each other, and that it uses the queue as the queue is      *)
(* meant to be used.                                                       *)
(***************************************************************************)
EXTENDS Worker, GoroutineExecutorProofs, FiniteSetTheorems

Event      == [key : Keys, status : LiveStatuses \cup FinalStatuses]
AllChanges == [key : Keys, type : NormalChanges \cup ExceptionChanges]
Record     == [status : Statuses, want : Statuses]
Wants      == UNION {[ks -> Record] : ks \in SUBSET Keys}
Trigger    == [resync : BOOLEAN, keys : SUBSET Keys]

\* Where the enqueuer is and what it holds there.
EnqOK ==
  enq \in [at : {"idle", "keys", "want", "real", "apply"}, resync : BOOLEAN,
           keys : SUBSET Keys, skip : SUBSET Keys, real : SUBSET Keys,
           want : Wants, changes : SUBSET AllChanges]

MonOK ==
  /\ mon \in [at : {"idle", "update", "done"}, ev : Event \cup {<<>>}]
  /\ mon.at # "idle" => mon.ev \in Event

\* refreshCache has a list of tasks under control.
RefresherOK ==
  /\ DOMAIN refresher \subseteq Keys
  /\ \A k \in DOMAIN refresher : refresher[k] \in LiveStatuses

\* The executor and the pipeline, with its own parts named one by one.
PipelineOK ==
  /\ rec \in [Keys -> Record]
  /\ watch \subseteq Keys
  /\ oper \subseteq [key : Keys, next : {Running, Paused, Stop}]
  /\ tasksCh \in Seq(Trigger)
  /\ resyncer \subseteq SUBSET Keys
  /\ pending \in Seq(Changes)
  /\ active \subseteq Keys
  /\ closed \in BOOLEAN
  /\ change \subseteq Changes
  /\ change = {} \/ \E c \in Changes : change = {c}
  /\ ch \in Seq(Event)
  /\ cache \in [Keys -> LiveStatuses \cup FinalStatuses \cup {NotExist}]

WInv == TInv /\ PipelineOK /\ EnqOK /\ MonOK /\ RefresherOK
-----------------------------------------------------------------------------
(* The change table.                                                       *)

\* Whatever the two statuses, the table has a change for them or none.
LEMMA ChangeTypes ==
  ASSUME NEW real, NEW want
  PROVE  GetChangeType(real, want) \in
           NormalChanges \cup ExceptionChanges \cup {NoChange}
<1> DEFINE rules == {r \in changeTypesRule : r[1] = real /\ r[2] = want}
<1>1. \A r \in changeTypesRule : r[3] \in NormalChanges \cup ExceptionChanges
  BY DEF changeTypesRule, NormalChanges, ExceptionChanges
<1>2. CASE rules = {}
  BY <1>2 DEF GetChangeType
<1>3. CASE rules # {}
  <2>1. (CHOOSE r \in rules : TRUE) \in rules
    BY <1>3
  <2> QED
    BY <1>1, <1>3, <2>1 DEF GetChangeType
<1> QED
  BY <1>2, <1>3

\* The table makes a create only for a task that is not there and should run.
LEMMA CreateRule ==
  ASSUME NEW real, NEW want, GetChangeType(real, want) = "create"
  PROVE  real = NotExist /\ want = Running
<1> DEFINE rules == {r \in changeTypesRule : r[1] = real /\ r[2] = want}
<1>1. rules # {}
  BY DEF GetChangeType, NoChange
<1>2. (CHOOSE r \in rules : TRUE) \in rules
  BY <1>1
<1>3. \A r \in changeTypesRule :
        r[3] = "create" => r[1] = NotExist /\ r[2] = Running
  BY DEF changeTypesRule
<1>4. (CHOOSE r \in rules : TRUE)[3] = "create"
  BY <1>1 DEF GetChangeType
<1> QED
  BY <1>2, <1>3, <1>4

\* The diff of a key is at most one change of that key.
LEMMA DiffTypes ==
  ASSUME NEW k \in Keys, NEW want, NEW wanted, NEW real,
         NEW c \in diff(k, want, wanted, real)
  PROVE  /\ c \in AllChanges
         /\ c.key = k
         /\ \A d \in diff(k, want, wanted, real) : d = c
         /\ c.type = GetChangeType(real, IF wanted THEN want[k].want ELSE NotExist)
         /\ wanted => ~IsFinalStatus(want[k].status)
<1> DEFINE w == IF wanted THEN want[k].want ELSE NotExist
<1>1. /\ GetChangeType(real, w) # NoChange
      /\ diff(k, want, wanted, real) = {[key |-> k, type |-> GetChangeType(real, w)]}
      /\ wanted => ~IsFinalStatus(want[k].status)
  BY DEF diff
<1>2. GetChangeType(real, w) \in NormalChanges \cup ExceptionChanges
  BY <1>1, ChangeTypes
<1> HIDE DEF w
<1>3. c = [key |-> k, type |-> GetChangeType(real, w)]
  BY <1>1
<1> QED
  BY <1>1, <1>2, <1>3 DEF AllChanges, w
-----------------------------------------------------------------------------
(* Types, one part of the worker after the other.                          *)

\* The waiting form of a status that may be asked for.
LEMMA WaitForms ==
  ASSUME NEW s \in {Running, Paused, Stop}
  PROVE  PreWaitStatus(s) \in WaitStatuses /\ s \in Statuses
BY DEF PreWaitStatus, IsFinalStatus, FinalStatuses, WaitStatuses, Statuses,
       LiveStatuses, Running, Paused, Stop, Success, Failed, WaitRunning,
       WaitPaused, WaitStop, WaitScheduling

\* The scheduler and the repository.
LEMMA RecordType ==
  ASSUME WInv,
         \/ \E k \in Keys :
              \/ assignTask(k)
              \/ \E next \in {Running, Paused, Stop} : OperateTask(k, next)
         \/ OperateUpdate
  PROVE  WInv'
<1>1. Running \in {Running, Paused, Stop}
  OBVIOUS
<1>2. UNCHANGED <<evars, ivars>>
  BY DEF assignTask, OperateTask, OperateUpdate
<1>3. ASSUME NEW k \in Keys, assignTask(k)
      PROVE  /\ rec' \in [Keys -> Record] /\ watch' \subseteq Keys
             /\ oper' = oper
  <2>1. [status |-> PreWaitStatus(Running), want |-> Running] \in Record
    BY <1>1, WaitForms DEF Record, Statuses
  <2> QED
    BY <1>3, <2>1 DEF assignTask, WInv, PipelineOK
<1>4. ASSUME NEW k \in Keys, NEW next \in {Running, Paused, Stop},
             OperateTask(k, next)
      PROVE  /\ oper' \subseteq [key : Keys, next : {Running, Paused, Stop}]
             /\ UNCHANGED <<rec, watch>>
  <2>1. /\ oper' = oper \cup {[key |-> k, next |-> next]}
        /\ UNCHANGED <<rec, watch>>
    BY <1>4 DEF OperateTask
  <2> QED
    BY <2>1 DEF WInv, PipelineOK
<1>5. ASSUME NEW o \in oper, rec' = [rec EXCEPT ![o.key] =
               [status |-> PreWaitStatus(o.next), want |-> o.next]]
      PROVE  rec' \in [Keys -> Record]
  <2>1. o.key \in Keys /\ o.next \in {Running, Paused, Stop}
    BY DEF WInv, PipelineOK
  <2>2. [status |-> PreWaitStatus(o.next), want |-> o.next] \in Record
    BY <2>1, WaitForms DEF Record, Statuses
  <2>3. rec \in [Keys -> Record]
    BY DEF WInv, PipelineOK
  <2> HIDE DEF Record
  <2> QED
    BY <1>5, <2>1, <2>2, <2>3
<1>6. ASSUME OperateUpdate
      PROVE  /\ rec' \in [Keys -> Record] /\ watch' \subseteq Keys
             /\ oper' \subseteq [key : Keys, next : {Running, Paused, Stop}]
  <2>1. PICK o \in oper :
          /\ rec' = [rec EXCEPT ![o.key] =
                       [status |-> PreWaitStatus(o.next), want |-> o.next]]
          /\ watch' = watch \cup {o.key}
          /\ oper' = oper \ {o}
    BY <1>6 DEF OperateUpdate
  <2>2. rec' \in [Keys -> Record]
    BY <1>5, <2>1
  <2> QED
    BY <2>1, <2>2 DEF WInv, PipelineOK
<1>7. PipelineOK'
  <2>1. /\ rec' \in [Keys -> Record] /\ watch' \subseteq Keys
        /\ oper' \subseteq [key : Keys, next : {Running, Paused, Stop}]
    BY <1>3, <1>4, <1>6 DEF WInv, PipelineOK
  <2> QED
    BY <1>2, <2>1 DEF WInv, PipelineOK, ivars
<1>8. EnqOK' /\ MonOK' /\ RefresherOK'
  BY <1>2 DEF WInv, EnqOK, MonOK, RefresherOK, ivars
<1>9. TInv'
  BY <1>2, TypeStep DEF WInv
<1> QED
  BY <1>7, <1>8, <1>9 DEF WInv

\* A step that leaves the executor as it is.
LEMMA ExecutorRests ==
  ASSUME TInv, UNCHANGED evars
  PROVE  TInv'
BY TypeStep

\* The watcher and the resyncer.
LEMMA TriggerType ==
  ASSUME WInv, WatchTrigger \/ ResyncList \/ ResyncSend
  PROVE  WInv'
<1>1. UNCHANGED evars
  BY DEF WatchTrigger, ResyncList, ResyncSend, svars
<1>2. tasksCh' \in Seq(Trigger)
  <2>1. ASSUME NEW b \in BOOLEAN, NEW ks \in SUBSET Keys, SendTrigger(b, ks)
        PROVE  tasksCh' \in Seq(Trigger)
    BY <2>1 DEF SendTrigger, WInv, PipelineOK, Trigger
  <2> QED
    BY <2>1 DEF WatchTrigger, ResyncList, ResyncSend, WInv, PipelineOK
<1>3. resyncer' \subseteq SUBSET Keys /\ watch' \subseteq Keys
  BY DEF WatchTrigger, ResyncList, ResyncSend, Runnable, svars, WInv, PipelineOK
<1>4. PipelineOK'
  BY <1>2, <1>3
  DEF WatchTrigger, ResyncList, ResyncSend, svars, WInv, PipelineOK
<1>5. EnqOK' /\ MonOK' /\ RefresherOK'
  BY DEF WatchTrigger, ResyncList, ResyncSend, svars, WInv, EnqOK, MonOK,
         RefresherOK
<1> QED
  BY <1>1, <1>4, <1>5, ExecutorRests DEF WInv

\* What the enqueuer holds between two triggers.
LEMMA NoWants == <<>> \in Wants
<1>1. <<>> = [k \in {} |-> <<>>]
  OBVIOUS
<1>2. <<>> \in [{} -> Record]
  BY <1>1
<1> QED
  BY <1>2 DEF Wants

LEMMA IdleEnqOK ==
  ASSUME enq' = IdleEnq
  PROVE  EnqOK'
BY NoWants DEF EnqOK, IdleEnq

\* The enqueuer, up to what it decides.
LEMMA EnqueuerLooks ==
  ASSUME WInv, TakeTrigger \/ ListTaskKeys \/ BatchGetTask
  PROVE  WInv'
<1>1. UNCHANGED <<evars, rec, watch, oper, resyncer, pending, active, closed,
                  change, ch, mon, refresher, cache>>
  BY DEF TakeTrigger, ListTaskKeys, BatchGetTask, svars
<1>2. ASSUME TakeTrigger
      PROVE  tasksCh' \in Seq(Trigger) /\ EnqOK'
  <2> DEFINE t == Head(tasksCh)
             skip == {k \in t.keys : Queue!Exist(k)}
  <2>1. /\ tasksCh # <<>>
        /\ enq' = [IdleEnq EXCEPT !.at = "keys", !.resync = t.resync,
                                  !.keys = t.keys \ skip, !.skip = skip]
        /\ tasksCh' = Tail(tasksCh)
    BY <1>2 DEF TakeTrigger
  <2>2. tasksCh \in Seq(Trigger)
    BY DEF WInv, PipelineOK
  <2>3. t \in Trigger /\ Tail(tasksCh) \in Seq(Trigger)
    BY <2>1, <2>2
  <2>4. t.resync \in BOOLEAN /\ t.keys \subseteq Keys /\ skip \subseteq Keys
    BY <2>3 DEF Trigger
  <2> HIDE DEF t, skip
  <2>5. EnqOK'
    BY <2>1, <2>4, NoWants DEF EnqOK, IdleEnq
  <2> QED
    BY <2>1, <2>3, <2>5
<1>3. ASSUME ListTaskKeys
      PROVE  tasksCh' \in Seq(Trigger) /\ EnqOK'
  <2>1. Cached \subseteq Keys
    BY DEF Cached
  <2> DEFINE real == IF enq.resync THEN Cached \ enq.skip ELSE enq.keys
  <2>2. real \subseteq Keys
    BY <2>1 DEF WInv, EnqOK
  <2>3. enq' = IdleEnq \/ enq' = [enq EXCEPT !.at = "want", !.real = real]
    BY <1>3 DEF ListTaskKeys
  <2> HIDE DEF real
  <2>4. EnqOK'
    BY <2>2, <2>3, IdleEnqOK DEF WInv, EnqOK
  <2> QED
    BY <1>3, <2>4 DEF ListTaskKeys, WInv, PipelineOK
<1>4. ASSUME BatchGetTask
      PROVE  tasksCh' \in Seq(Trigger) /\ EnqOK'
  <2>1. \/ enq' = IdleEnq
        \/ enq' = [enq EXCEPT !.at = "real", !.want = [k \in enq.keys |-> rec[k]]]
    BY <1>4 DEF BatchGetTask
  <2>2. [k \in enq.keys |-> rec[k]] \in Wants
    <3>1. enq.keys \in SUBSET Keys /\ rec \in [Keys -> Record]
      BY DEF WInv, PipelineOK, EnqOK
    <3>2. [k \in enq.keys |-> rec[k]] \in [enq.keys -> Record]
      BY <3>1
    <3> QED
      BY <3>1, <3>2 DEF Wants
  <2>3. EnqOK'
    BY <2>1, <2>2, IdleEnqOK DEF WInv, EnqOK
  <2> QED
    BY <1>4, <2>3 DEF BatchGetTask, WInv, PipelineOK
<1>5. tasksCh' \in Seq(Trigger) /\ EnqOK'
  <2>1. tasksCh \in Seq(Trigger)
    BY DEF WInv, PipelineOK
  <2> QED
    BY <1>2, <1>3, <1>4, <2>1
<1>6. PipelineOK'
  BY <1>1, <1>5 DEF WInv, PipelineOK
<1>7. MonOK' /\ RefresherOK'
  BY <1>1 DEF WInv, MonOK, RefresherOK
<1> QED
  BY <1>1, <1>5, <1>6, <1>7, ExecutorRests DEF WInv

\* The diff is of known keys.
LEMMA DiffType ==
  ASSUME WInv, Diff
  PROVE  WInv'
<1> DEFINE real    == ListTasks(enq.real)
           changes == UNION {diff(k, enq.want, k \in enq.keys,
                                  IF k \in real THEN cache[k] ELSE NotExist) :
                               k \in enq.keys \cup real}
<1>1. enq.keys \cup real \subseteq Keys
  BY DEF ListTasks, Cached, WInv, EnqOK
<1>2. changes \subseteq AllChanges
  <2> SUFFICES ASSUME NEW k \in enq.keys \cup real,
                      NEW c \in diff(k, enq.want, k \in enq.keys,
                                     IF k \in real THEN cache[k] ELSE NotExist)
               PROVE  c \in AllChanges
    OBVIOUS
  <2>1. k \in Keys
    BY <1>1
  <2> HIDE DEF real
  <2> QED
    BY <2>1, DiffTypes
<1>3. enq' = IF changes = {} THEN IdleEnq
               ELSE [IdleEnq EXCEPT !.at = "apply", !.changes = changes]
  BY DEF Diff
<1> HIDE DEF changes
<1>4. EnqOK'
  BY <1>2, <1>3, NoWants DEF EnqOK, IdleEnq
<1>5. PipelineOK' /\ MonOK' /\ RefresherOK'
  BY DEF Diff, svars, WInv, PipelineOK, MonOK, RefresherOK
<1> QED
  BY <1>4, <1>5, ExecutorRests DEF WInv, Diff

\* It applies what it has decided.
LEMMA EnqueuerApplies ==
  ASSUME WInv, handleException \/ Enqueue
  PROVE  WInv'
<1>1. /\ UNCHANGED <<evars, watch, oper, tasksCh, resyncer, change, ch, mon,
                     refresher, cache>>
      /\ \E c \in enq.changes : enq' = WithoutChange(c)
  BY DEF handleException, Enqueue, svars, Exceptions
<1>2. EnqOK'
  BY <1>1, IdleEnqOK DEF WInv, EnqOK, WithoutChange
<1>3. rec' \in [Keys -> Record]
  <2>1. ASSUME NEW c \in enq.changes, UpdateStatus(c.key, Paused)
        PROVE  rec' \in [Keys -> Record]
    <3>1. c.key \in Keys
      BY DEF WInv, EnqOK, AllChanges
    <3> QED
      BY <2>1, <3>1
      DEF UpdateStatus, WInv, PipelineOK, Record, Statuses, LiveStatuses
  <2> QED
    BY <2>1
    DEF handleException, Enqueue, svars, Exceptions, WInv, PipelineOK
<1>4. pending' \in Seq(Changes) /\ active' \subseteq Keys /\ closed' \in BOOLEAN
  <2>1. CASE Enqueue
    <3>1. PICK c \in enq.changes :
            IF Queue!Accepts(c) THEN Queue!Offer(c) ELSE UNCHANGED qvars
      BY <2>1 DEF Enqueue
    <3>2. c \in Changes
      BY <2>1 DEF Enqueue, Exceptions, IsException, WInv, EnqOK, AllChanges,
                  Changes
    <3>3. pending \in Seq(Changes) /\ active \subseteq Keys /\ closed \in BOOLEAN
      BY DEF WInv, PipelineOK
    <3>4. Append(pending, c) \in Seq(Changes)
      BY <3>2, <3>3
    <3> QED
      BY <3>1, <3>3, <3>4 DEF Queue!Offer, qvars
  <2> QED
    BY <2>1 DEF handleException, WInv, PipelineOK
<1>5. PipelineOK'
  BY <1>1, <1>3, <1>4 DEF WInv, PipelineOK
<1>6. MonOK' /\ RefresherOK'
  BY <1>1 DEF WInv, MonOK, RefresherOK
<1> QED
  BY <1>1, <1>2, <1>5, <1>6, ExecutorRests DEF WInv

\* What the syncer hands to the executor is a step of the executor.
LEMMA ChangeHandleCalls ==
  ASSUME NEW c \in Changes, ChangeHandle(c)
  PROVE  ENext
BY DEF Changes, ChangeHandle, ENext, Call

\* The syncer and the goroutines of the tasks.
LEMMA SyncerType ==
  ASSUME WInv,
         WaitChange \/ SyncChange \/ SyncerBlocked \/ \E i \in Instances : Executor(i)
  PROVE  WInv'
<1>1. UNCHANGED <<svars, tasksCh, resyncer, enq, ch, mon, refresher, cache>>
  BY DEF WaitChange, SyncChange, SyncerBlocked, Executor, ivars
<1>2. TInv'
  <2>1. CASE WaitChange
    BY <2>1, ExecutorRests DEF WaitChange, WInv
  <2>2. CASE SyncChange
    <3>1. PICK c \in change : ChangeHandle(c) \/ UNCHANGED evars
      BY <2>2 DEF SyncChange
    <3>2. c \in Changes
      BY DEF WInv, PipelineOK
    <3> QED
      BY <3>1, <3>2, ChangeHandleCalls, TypeStep DEF WInv
  <2>3. CASE SyncerBlocked \/ \E i \in Instances : Executor(i)
    <3>1. ENext
      BY <2>3 DEF SyncerBlocked, Executor, ENext
    <3> QED
      BY <3>1, TypeStep DEF WInv
  <2> QED
    BY <2>1, <2>2, <2>3
<1>3. /\ pending' \in Seq(Changes) /\ active' \subseteq Keys
      /\ closed' \in BOOLEAN /\ change' \subseteq Changes
      /\ change' = {} \/ \E c \in Changes : change' = {c}
  <2>1. /\ pending \in Seq(Changes) /\ active \subseteq Keys
        /\ closed \in BOOLEAN /\ change \subseteq Changes
        /\ change = {} \/ \E c \in Changes : change = {c}
    BY DEF WInv, PipelineOK
  <2>2. CASE WaitChange
    <3>1. Head(pending) \in Changes /\ Tail(pending) \in Seq(Changes)
      BY <2>1, <2>2 DEF WaitChange, Queue!Take
    <3>2. Head(pending).key \in Keys
      BY <3>1 DEF Changes
    <3>3. /\ change' = {Head(pending)} /\ pending' = Tail(pending)
          /\ active' = active \cup {Head(pending).key} /\ closed' = closed
      BY <2>2 DEF WaitChange, Queue!Take, Queue!KeyOf
    <3> QED
      BY <2>1, <3>1, <3>2, <3>3
  <2>3. CASE SyncChange
    <3>1. PICK c \in change :
            /\ change' = {}
            /\ Queue!Finish(c.key) \/ UNCHANGED qvars
      BY <2>3 DEF SyncChange
    <3> QED
      BY <2>1, <3>1 DEF Queue!Finish, qvars
  <2>4. CASE UNCHANGED ivars
    BY <2>1, <2>4 DEF ivars
  <2> QED
    BY <2>2, <2>3, <2>4 DEF SyncerBlocked, Executor
<1>4. PipelineOK'
  BY <1>1, <1>3 DEF WInv, PipelineOK, svars
<1>5. EnqOK' /\ MonOK' /\ RefresherOK'
  BY <1>1 DEF WInv, EnqOK, MonOK, RefresherOK
<1> QED
  BY <1>2, <1>4, <1>5 DEF WInv

\* An event goes from the executor to the monitor's channel.
LEMMA ForwardType ==
  ASSUME WInv, Forward
  PROVE  WInv'
<1>1. TInv'
  BY TypeStep DEF WInv, Forward, ENext
<1>2. Head(resultChan) \in Event
  <2>1. resultChan \in Seq(Event)
    BY DEF WInv, TInv, ETypeOK, Event
  <2>2. resultChan # <<>>
    BY DEF Forward, Recv
  <2> QED
    BY <2>1, <2>2
<1>3. ch' \in Seq(Event)
  <2>1. ch \in Seq(Event) /\ ch' = Append(ch, Head(resultChan))
    BY DEF WInv, PipelineOK, Forward, SendEvent
  <2> QED
    BY <1>2, <2>1
<1>4. PipelineOK' /\ EnqOK' /\ MonOK' /\ RefresherOK'
  BY <1>3 DEF Forward, svars, WInv, PipelineOK, EnqOK, MonOK, RefresherOK
<1> QED
  BY <1>1, <1>4 DEF WInv

LEMMA EventStatus ==
  ASSUME NEW e \in Event
  PROVE  /\ e.key \in Keys
         /\ e.status \in Statuses
         /\ e.status \in LiveStatuses \cup FinalStatuses
BY DEF Event, Statuses

\* The monitor.
LEMMA MonitorType ==
  ASSUME WInv, Monitor
  PROVE  WInv'
<1>1. UNCHANGED <<evars, watch, oper, tasksCh, resyncer, enq, pending, closed,
                  change, refresher>>
  BY DEF Monitor, MonitorSet, MonitorUpdate, MonitorDone, Queue!Finish, svars
<1>2. CASE MonitorSet
  <2>1. /\ ch # <<>> /\ mon' = [at |-> "update", ev |-> Head(ch)]
        /\ cache' = [cache EXCEPT ![Head(ch).key] = Head(ch).status]
        /\ ch' = Tail(ch) /\ UNCHANGED <<rec, active>>
    BY <1>2 DEF MonitorSet, svars
  <2>2. Head(ch) \in Event /\ Tail(ch) \in Seq(Event)
    BY <2>1 DEF WInv, PipelineOK
  <2>3. MonOK'
    BY <2>1, <2>2 DEF MonOK
  <2>4. cache' \in [Keys -> LiveStatuses \cup FinalStatuses \cup {NotExist}]
    BY <2>1, <2>2, EventStatus DEF WInv, PipelineOK
  <2> QED
    BY <1>1, <2>1, <2>2, <2>3, <2>4, ExecutorRests
    DEF WInv, PipelineOK, EnqOK, RefresherOK
<1>3. CASE MonitorUpdate
  <2>1. /\ mon.at = "update" /\ mon' = [mon EXCEPT !.at = "done"]
        /\ UNCHANGED <<active, ch, cache>>
        /\ UpdateStatus(mon.ev.key, mon.ev.status) \/ UNCHANGED rec
    BY <1>3 DEF MonitorUpdate
  <2>2. mon.ev \in Event
    BY <2>1 DEF WInv, MonOK
  <2>3. rec' \in [Keys -> Record]
    BY <2>1, <2>2, EventStatus DEF UpdateStatus, WInv, PipelineOK, Record
  <2>4. MonOK'
    BY <2>1, <2>2 DEF WInv, MonOK
  <2> QED
    BY <1>1, <2>1, <2>3, <2>4, ExecutorRests
    DEF WInv, PipelineOK, EnqOK, RefresherOK
<1>4. CASE MonitorDone
  <2>1. /\ mon' = IdleMon /\ active' = active \ {mon.ev.key}
        /\ UNCHANGED <<rec, ch, cache>>
    BY <1>4 DEF MonitorDone, Queue!Finish, svars
  <2>2. MonOK'
    BY <2>1 DEF MonOK, IdleMon
  <2> QED
    BY <1>1, <2>1, <2>2, ExecutorRests DEF WInv, PipelineOK, EnqOK, RefresherOK
<1> QED
  BY <1>2, <1>3, <1>4 DEF Monitor

\* The refresher, the timer of the cache and the shutdown.
LEMMA TimerType ==
  ASSUME WInv,
         RefreshList \/ RefreshPush \/ Shutdown \/ \E k \in Keys : Recycle(k)
  PROVE  WInv'
<1>1. UNCHANGED <<evars, rec, watch, oper, tasksCh, resyncer, enq, pending,
                  active, change, mon>>
  BY DEF RefreshList, RefreshPush, Shutdown, Queue!Close, Recycle, svars
<1>2. EnqOK' /\ MonOK' /\ TInv'
  BY <1>1, ExecutorRests DEF WInv, EnqOK, MonOK
<1>3. CASE RefreshList
  <2>1. /\ refresher' = [k \in {j \in Keys : taskStatus[j] # NotExist} |-> taskStatus[k]]
        /\ UNCHANGED <<closed, ch, cache>>
    BY <1>3 DEF RefreshList
  <2>2. RefresherOK'
    BY <2>1 DEF RefresherOK, WInv, TInv, ETypeOK
  <2> QED
    BY <1>1, <1>2, <2>1, <2>2 DEF WInv, PipelineOK
<1>4. CASE RefreshPush
  <2>1. PICK k \in DOMAIN refresher :
          /\ SendEvent([key |-> k, status |-> refresher[k]]) \/ UNCHANGED ch
          /\ refresher' = [j \in DOMAIN refresher \ {k} |-> refresher[j]]
          /\ UNCHANGED <<closed, cache>>
    BY <1>4 DEF RefreshPush
  <2>2. [key |-> k, status |-> refresher[k]] \in Event
    BY DEF WInv, RefresherOK, Event
  <2>3. ch' \in Seq(Event)
    <3>1. ch \in Seq(Event)
      BY DEF WInv, PipelineOK
    <3> QED
      BY <2>1, <2>2, <3>1 DEF SendEvent
  <2>4. RefresherOK'
    BY <2>1 DEF RefresherOK, WInv
  <2> QED
    BY <1>1, <1>2, <2>1, <2>3, <2>4 DEF WInv, PipelineOK
<1>5. CASE Shutdown
  BY <1>1, <1>2, <1>5 DEF Shutdown, Queue!Close, WInv, PipelineOK, RefresherOK
<1>6. ASSUME NEW k \in Keys, Recycle(k)
      PROVE  WInv'
  BY <1>1, <1>2, <1>6 DEF Recycle, WInv, PipelineOK, RefresherOK
<1> QED
  BY <1>3, <1>4, <1>5, <1>6

\* The executor of a worker that is started again is one that has just
\* started.
LEMMA ExecutorAgain == EInit' => TInv'
<1>1. EInit => TInv
  BY TypeInit
<1> QED
  BY <1>1, PTL

\* A worker that starts has the types; started again, it lists the tasks that
\* may run.
LEMMA RestartType ==
  ASSUME WInv, Crash
  PROVE  WInv'
<1>1. TInv'
  <2>1. EInit'
    BY DEF Crash, EInit
  <2> QED
    BY <2>1, ExecutorAgain
<1>2. tasksCh' \in Seq(Trigger)
  <2>1. [resync |-> TRUE, keys |-> Runnable] \in Trigger
    BY DEF Runnable, Trigger
  <2> QED
    BY <2>1 DEF Crash
<1>3. PipelineOK'
  <2>1. /\ UNCHANGED <<rec, oper>>
        /\ watch' = {} /\ resyncer' = {} /\ pending' = <<>> /\ active' = {}
        /\ closed' = FALSE /\ change' = {} /\ ch' = <<>>
        /\ cache' = [k \in Keys |-> NotExist]
    BY DEF Crash
  <2>2. pending' \in Seq(Changes) /\ ch' \in Seq(Event)
    BY <2>1
  <2>3. cache' \in [Keys -> LiveStatuses \cup FinalStatuses \cup {NotExist}]
    BY <2>1
  <2>4. UNCHANGED <<rec, oper>>
        /\ watch' = {} /\ resyncer' = {} /\ active' = {}
        /\ closed' = FALSE /\ change' = {}
    BY <2>1
  <2> QED
    BY <1>2, <2>2, <2>3, <2>4 DEF WInv, PipelineOK
<1>4. EnqOK'
  BY IdleEnqOK DEF Crash
<1>5. MonOK' /\ RefresherOK'
  BY DEF Crash, MonOK, IdleMon, RefresherOK
<1> QED
  BY <1>1, <1>3, <1>4, <1>5 DEF WInv

LEMMA WorkerTypeInit ==
  ASSUME Init
  PROVE  WInv
<1>1. TInv
  BY TypeInit DEF Init
<1>2. tasksCh \in Seq(Trigger)
  <2>1. [resync |-> TRUE, keys |-> Assigned] \in Trigger
    BY WorkerBounds DEF Trigger
  <2> QED
    BY <2>1 DEF Init, Started
<1>3. rec \in [Keys -> Record]
  <2>1. /\ [status |-> PreWaitStatus(Running), want |-> Running] \in Record
        /\ [status |-> WaitScheduling, want |-> NotExist] \in Record
    BY WaitForms DEF Record, Statuses, WaitStatuses
  <2> QED
    BY <2>1 DEF Init
<1>4. PipelineOK
  <2>1. /\ watch = {} /\ resyncer = {} /\ pending = <<>> /\ active = {}
        /\ closed = FALSE /\ change = {} /\ ch = <<>> /\ oper = {}
        /\ cache = [k \in Keys |-> NotExist]
    BY DEF Init, Started
  <2>2. pending \in Seq(Changes) /\ ch \in Seq(Event)
    BY <2>1
  <2>3. cache \in [Keys -> LiveStatuses \cup FinalStatuses \cup {NotExist}]
    BY <2>1
  <2>4. oper = {}
        /\ watch = {} /\ resyncer = {} /\ active = {}
        /\ closed = FALSE /\ change = {}
    BY <2>1
  <2> QED
    BY <1>2, <1>3, <2>2, <2>3, <2>4 DEF PipelineOK
<1>5. EnqOK
  BY NoWants DEF Init, Started, EnqOK, IdleEnq
<1>6. MonOK /\ RefresherOK
  BY DEF Init, Started, MonOK, IdleMon, RefresherOK
<1> QED
  BY <1>1, <1>4, <1>5, <1>6 DEF WInv

LEMMA WorkerTypeStep ==
  ASSUME WInv, [Next]_vars
  PROVE  WInv'
<1>1. CASE UNCHANGED vars
  BY <1>1, ExecutorRests
  DEF vars, ivars, svars, WInv, PipelineOK, EnqOK, MonOK, RefresherOK
<1>2. CASE Next
  BY <1>2, RecordType, TriggerType, EnqueuerLooks, DiffType, EnqueuerApplies,
     SyncerType, ForwardType, MonitorType, TimerType, RestartType
  DEF Next, Enqueuer
<1> QED
  BY <1>1, <1>2

LEMMA WorkerTypes ==
  ASSUME WInv
  PROVE  TypeOK
<1>1. change \subseteq Changes /\ Cardinality(change) <= 1
  <2>1. CASE change = {}
    BY <2>1, FS_EmptySet
  <2>2. ASSUME NEW c \in Changes, change = {c}
        PROVE  Cardinality(change) = 1
    BY <2>2, FS_Singleton
  <2> QED
    BY <2>1, <2>2 DEF WInv, PipelineOK
<1>2. oper \subseteq [key : Keys, next : Statuses]
  BY WaitForms DEF WInv, PipelineOK
<1> QED
  BY <1>1, <1>2
  DEF WInv, TInv, PipelineOK, EnqOK, TypeOK, Record, Trigger, Event

\* What the goroutines of the worker keep and hand to each other has its
\* type, across crashes too: only changes of the five kinds the executors
\* know enter the queue, only live and final statuses are cached, and the
\* syncer holds one change at most.
THEOREM WorkerTypeCorrect == Spec => []TypeOK
BY WorkerTypeInit, WorkerTypeStep, WorkerTypes, PTL DEF Spec
-----------------------------------------------------------------------------
(* The queue.                                                              *)

\* Every key of the worker is the key of some item.
LEMMA QueueKeys == Queue!ItemKeys = Keys
<1>1. ASSUME NEW k \in Keys
      PROVE  k \in Queue!ItemKeys
  <2>1. [key |-> k, type |-> "create"] \in Changes
    BY DEF Changes, NormalChanges
  <2> QED
    BY <2>1 DEF Queue!ItemKeys, Queue!KeyOf
<1> QED
  BY <1>1 DEF Queue!ItemKeys, Queue!KeyOf, Changes

\* What a step of the worker does to its queue is an operation of the queue,
\* or a crash makes a new one.
LEMMA QueueMoves ==
  ASSUME WInv, [Next]_vars
  PROVE  [Queue!QNext]_qvars \/ Queue!QInit'
<1>1. CASE UNCHANGED vars
  BY <1>1 DEF vars, ivars, qvars
<1>2. ASSUME NEW k \in Keys,
             \/ assignTask(k)
             \/ \E next \in {Running, Paused, Stop} : OperateTask(k, next)
             \/ Recycle(k)
      PROVE  UNCHANGED qvars
  BY <1>2 DEF assignTask, OperateTask, Recycle, ivars, qvars
<1>3. CASE OperateUpdate \/ WatchTrigger \/ ResyncList \/ ResyncSend
  BY <1>3 DEF OperateUpdate, WatchTrigger, ResyncList, ResyncSend, ivars, qvars
<1>4. CASE Enqueuer
  <2>1. CASE Enqueue
    <3>1. PICK c \in enq.changes :
            IF Queue!Accepts(c) THEN Queue!Offer(c) ELSE UNCHANGED qvars
      BY <2>1 DEF Enqueue
    <3>2. c \in Changes
      BY <2>1 DEF Enqueue, Exceptions, IsException, WInv, EnqOK, AllChanges,
                  Changes
    <3> QED
      BY <3>1, <3>2 DEF Queue!QNext
  <2> QED
    BY <1>4, <2>1
    DEF Enqueuer, TakeTrigger, ListTaskKeys, BatchGetTask, Diff,
        handleException, qvars
<1>5. CASE WaitChange
  BY <1>5 DEF WaitChange, Queue!QNext
<1>6. CASE SyncChange
  <2>1. PICK c \in change : Queue!Finish(c.key) \/ UNCHANGED qvars
    BY <1>6 DEF SyncChange
  <2>2. c.key \in Keys
    BY DEF WInv, PipelineOK, Changes
  <2> QED
    BY <2>1, <2>2, QueueKeys DEF Queue!QNext
<1>7. CASE SyncerBlocked \/ (\E i \in Instances : Executor(i)) \/ Forward
  BY <1>7 DEF SyncerBlocked, Executor, Forward, ivars, qvars
<1>8. CASE Monitor
  <2>1. CASE MonitorDone
    <3>1. mon.ev.key \in Keys
      BY <2>1, EventStatus DEF MonitorDone, WInv, MonOK
    <3> QED
      BY <2>1, <3>1, QueueKeys DEF MonitorDone, Queue!QNext
  <2> QED
    BY <1>8, <2>1 DEF Monitor, MonitorSet, MonitorUpdate, qvars
<1>9. CASE RefreshList \/ RefreshPush
  BY <1>9 DEF RefreshList, RefreshPush, qvars
<1>10. CASE Shutdown
  BY <1>10 DEF Shutdown, Queue!QNext
<1>11. CASE Crash
  BY <1>11 DEF Crash, Queue!QInit
<1> QED
  BY <1>1, <1>2, <1>3, <1>4, <1>5, <1>6, <1>7, <1>8, <1>9, <1>10, <1>11
  DEF Next

\* The worker uses its queue as internal/queue is meant to be used: what is
\* proved of TypedQueue, which implements UniqueQueue, holds for the queue of
\* a worker between two crashes, each of which makes a new queue.
THEOREM QueueUsedAsPromised == Spec => [][Queue!QNext \/ Queue!QInit']_qvars
<1>1. WInv /\ [Next]_vars => [Queue!QNext \/ Queue!QInit']_qvars
  BY QueueMoves
<1> QED
  BY <1>1, WorkerTypeInit, WorkerTypeStep, PTL DEF Spec

\* A key is pending at most once, and never while it is being processed.
KeyOnce ==
  /\ \A n, m \in DOMAIN pending : pending[n].key = pending[m].key => n = m
  /\ \A n \in DOMAIN pending : pending[n].key \notin active

LEMMA KeyOnceStep ==
  ASSUME pending \in Seq(Changes), KeyOnce, [Queue!QNext]_qvars \/ Queue!QInit'
  PROVE  KeyOnce'
<1>1. ASSUME NEW c \in Changes, Queue!Offer(c)
      PROVE  KeyOnce'
  <2>1. \A n \in DOMAIN pending : pending[n].key # c.key
    BY <1>1 DEF Queue!Offer, Queue!Accepts, Queue!Exist, Queue!PendingKeys,
                Queue!KeyOf
  <2>2. c.key \notin active
    BY <1>1 DEF Queue!Offer, Queue!Accepts, Queue!Exist, Queue!KeyOf
  <2>3. /\ DOMAIN pending' = DOMAIN pending \cup {Len(pending) + 1}
        /\ \A n \in DOMAIN pending : pending'[n] = pending[n]
        /\ pending'[Len(pending) + 1] = c
        /\ active' = active
    BY <1>1 DEF Queue!Offer
  <2> QED
    BY <2>1, <2>2, <2>3 DEF KeyOnce
<1>2. CASE Queue!Take
  <2>1. /\ pending # <<>> /\ pending' = Tail(pending)
        /\ active' = active \cup {pending[1].key}
    BY <1>2 DEF Queue!Take, Queue!KeyOf
  <2>2. \A n \in DOMAIN pending' :
          /\ n + 1 \in DOMAIN pending /\ n + 1 # 1
          /\ pending'[n] = pending[n + 1]
    BY <2>1
  <2>3. 1 \in DOMAIN pending
    BY <2>1
  <2>4. DOMAIN pending \subseteq Nat /\ DOMAIN pending' \subseteq Nat
    BY <2>1
  <2> QED
    BY <2>1, <2>2, <2>3, <2>4 DEF KeyOnce
<1>3. CASE \/ \E k \in Queue!ItemKeys : Queue!Finish(k)
           \/ Queue!Close \/ UNCHANGED qvars
  BY <1>3 DEF Queue!Finish, Queue!Close, qvars, KeyOnce
<1>4. CASE Queue!QInit'
  BY <1>4 DEF Queue!QInit, KeyOnce
<1> QED
  BY <1>1, <1>2, <1>3, <1>4 DEF Queue!QNext

LEMMA KeyOnceInit ==
  ASSUME Init
  PROVE  KeyOnce
BY DEF Init, Started, KeyOnce
-----------------------------------------------------------------------------
(* One operation at a time.                                                *)

\* No event comes of itself: tasks end when told to, and refreshCache is not
\* called.
AnswersOnly == Outcomes \subseteq {"continue"} /\ "refresh" \notin Activities

\* Where an operation of task k can be: with the syncer, in Run, in a channel
\* of a control object, with the loop or the outer goroutine that answers it,
\* and on the way of the answer to the monitor, which marks it done.
Taken(k)    == \E c \in change : c.key = k
Starting(k) == caller.at \in {"runSync", "runSend"} /\ keyOf[caller.inst] = k
Asked(k)    == \E i \in 1..runs : keyOf[i] = k /\ chans[i] # {}
Replying(k) == \E i \in 1..runs : keyOf[i] = k /\ inner[i] = "send"
Failing(k)  == \E i \in 1..runs : keyOf[i] = k /\ outer[i] = "report"
Sent(k)     == \E n \in DOMAIN resultChan : resultChan[n].key = k
Passed(k)   == \E n \in DOMAIN ch : ch[n].key = k
Noted(k)    == mon.at # "idle" /\ mon.ev.key = k

Places == 1..8

At(p, k) ==
  \/ p = 1 /\ Taken(k)
  \/ p = 2 /\ Starting(k)
  \/ p = 3 /\ Asked(k)
  \/ p = 4 /\ Replying(k)
  \/ p = 5 /\ Failing(k)
  \/ p = 6 /\ Sent(k)
  \/ p = 7 /\ Passed(k)
  \/ p = 8 /\ Noted(k)

\* A task has an operation in one place at most, and is then being processed.
OnePlace ==
  \A k \in Keys, p \in Places :
    At(p, k) => k \in active /\ \A q \in Places : At(q, k) => q = p

\* Nor are there two in one place.
OneAnswer ==
  /\ \A i, j \in 1..runs : keyOf[i] = keyOf[j] =>
       /\ chans[i] # {} /\ chans[j] # {} => i = j
       /\ inner[i] = "send" /\ inner[j] = "send" => i = j
       /\ outer[i] = "report" /\ outer[j] = "report" => i = j
  /\ \A m, n \in DOMAIN resultChan : resultChan[m].key = resultChan[n].key => m = n
  /\ \A m, n \in DOMAIN ch : ch[m].key = ch[n].key => m = n

OneToken ==
  /\ \A i \in Instances : \A x, y \in chans[i] : x = y
  /\ \A i \in Instances : chans[i] # {} => i \in 1..runs
  /\ caller.at # "send"

\* A loop works with a control object of its own key, and finds none only
\* after a forced exit.
LoopsBound ==
  /\ \A i \in Instances : bound[i] # None =>
       i \in 1..runs /\ bound[i] \in 1..runs /\ keyOf[bound[i]] = keyOf[i]
  /\ \A i \in Instances :
       inner[i] \in {"loop", "call", "paused", "send"} => bound[i] # None
  /\ \A i \in Instances : inner[i] = "crashed" => outer[i] = "gone"

OpInv == OnePlace /\ OneAnswer /\ OneToken /\ LoopsBound /\ DOMAIN refresher = {}

\* What the step does to the operations: nothing new, or one goes from a place
\* to another.
NothingNew == \A j \in Keys, r \in Places : At(r, j)' => At(r, j)

Moves(p, q, k) ==
  /\ At(p, k) /\ ~At(p, k)'
  /\ \A j \in Keys, r \in Places : At(r, j)' => At(r, j) \/ (r = q /\ j = k)

LEMMA NothingNewKeeps ==
  ASSUME OnePlace, NothingNew, active \subseteq active'
  PROVE  OnePlace'
<1> SUFFICES ASSUME NEW k \in Keys, NEW p \in Places, At(p, k)'
             PROVE  k \in active' /\ \A q \in Places : At(q, k)' => q = p
  BY DEF OnePlace
<1> QED
  BY DEF OnePlace, NothingNew

LEMMA MoveKeeps ==
  ASSUME OnePlace, NEW p \in Places, NEW q \in Places, NEW k \in Keys,
         Moves(p, q, k), active' = active
  PROVE  OnePlace'
<1> SUFFICES ASSUME NEW j \in Keys, NEW r \in Places, At(r, j)'
             PROVE  j \in active' /\ \A t \in Places : At(t, j)' => t = r
  BY DEF OnePlace
<1>1. k \in active /\ \A t \in Places : At(t, k) => t = p
  BY DEF OnePlace, Moves
<1>2. CASE j = k
  <2>1. \A t \in Places : At(t, k)' => t = q
    BY <1>1 DEF Moves
  <2> QED
    BY <1>1, <1>2, <2>1
<1>3. CASE j # k
  <2>1. \A t \in Places : At(t, j)' => At(t, j)
    BY <1>3 DEF Moves
  <2> QED
    BY <2>1 DEF OnePlace
<1> QED
  BY <1>2, <1>3

\* The places one by one.
LEMMA PlaceFacts ==
  ASSUME NEW k
  PROVE  /\ At(1, k) <=> Taken(k)
         /\ At(2, k) <=> Starting(k)
         /\ At(3, k) <=> Asked(k)
         /\ At(4, k) <=> Replying(k)
         /\ At(5, k) <=> Failing(k)
         /\ At(6, k) <=> Sent(k)
         /\ At(7, k) <=> Passed(k)
         /\ At(8, k) <=> Noted(k)
BY DEF At

LEMMA OnlyThere ==
  ASSUME OnePlace, NEW k \in Keys, NEW p \in Places, At(p, k)
  PROVE  /\ p # 1 => ~Taken(k)
         /\ p # 2 => ~Starting(k)
         /\ p # 3 => ~Asked(k)
         /\ p # 4 => ~Replying(k)
         /\ p # 5 => ~Failing(k)
         /\ p # 6 => ~Sent(k)
         /\ p # 7 => ~Passed(k)
         /\ p # 8 => ~Noted(k)
BY PlaceFacts DEF OnePlace, Places

LEMMA Frames ==
  /\ change' = change => \A k : Taken(k)' <=> Taken(k)
  /\ UNCHANGED <<caller, keyOf>> => \A k : Starting(k)' <=> Starting(k)
  /\ UNCHANGED <<chans, keyOf>> => \A k : Asked(k)' <=> Asked(k)
  /\ UNCHANGED <<inner, keyOf>> => \A k : Replying(k)' <=> Replying(k)
  /\ UNCHANGED <<outer, keyOf>> => \A k : Failing(k)' <=> Failing(k)
  /\ resultChan' = resultChan => \A k : Sent(k)' <=> Sent(k)
  /\ ch' = ch => \A k : Passed(k)' <=> Passed(k)
  /\ mon' = mon => \A k : Noted(k)' <=> Noted(k)
BY DEF Taken, Starting, Asked, Replying, Failing, Sent, Passed, Noted, runs

\* The executor answers: its goroutines take tokens and send events.
ByExecutor == UNCHANGED <<active, change, ch, mon, refresher>>

LEMMA SendAnswers ==
  ASSUME TInv, OneAnswer, NEW k \in Keys, ~Sent(k), NEW s, Send(k, s)
  PROVE  /\ \A m, n \in DOMAIN resultChan' :
              resultChan'[m].key = resultChan'[n].key => m = n
         /\ \A j : Sent(j)' => Sent(j) \/ j = k
<1>1. resultChan' = Append(resultChan, [key |-> k, status |-> s])
  BY DEF Send
<1>2. \E S : resultChan \in Seq(S)
  BY DEF TInv, ETypeOK
<1>3. /\ DOMAIN resultChan' = DOMAIN resultChan \cup {Len(resultChan) + 1}
      /\ \A n \in DOMAIN resultChan : resultChan'[n] = resultChan[n]
      /\ resultChan'[Len(resultChan) + 1] = [key |-> k, status |-> s]
  BY <1>1, <1>2
<1>4. \A n \in DOMAIN resultChan : resultChan[n].key # k
  BY DEF Sent
<1>5. resultChan'[Len(resultChan) + 1].key = k
  BY <1>3
<1> QED
  BY <1>3, <1>4, <1>5 DEF OneAnswer, Sent

\* The loop takes a token: the only one there is for its task.
LEMMA ObeyMoves ==
  ASSUME TInv, OpInv, ByExecutor, NEW i \in Instances, NEW c \in Chans, NEW s,
         inner[i] \in {"loop", "paused"}, Obey(i, c, s)
  PROVE  OpInv'
<1> DEFINE b == bound[i]
<1>1. i \in 1..runs /\ keyOf[i] \in Keys
  BY ActiveIsMade
<1> DEFINE k == keyOf[i]
<1>2. b \in 1..runs /\ keyOf[b] = k /\ b \in Instances
  BY <1>1, KeyOfRun DEF OpInv, LoopsBound, TInv
<1>3. /\ c \in chans[b]
      /\ chans' = [chans EXCEPT ![b] = @ \ {c}]
      /\ inner' = [inner EXCEPT ![i] = "send"]
      /\ UNCHANGED <<ctrls, resultChan, keyOf, bound, outer, caller>>
      /\ UNCHANGED <<active, change, ch, mon, refresher>>
  BY DEF Obey, Sync, ByExecutor
<1>4. /\ chans \in [Instances -> SUBSET Chans]
      /\ inner \in [Instances -> InnerPcs]
      /\ \A j \in 1..runs : j \in Instances
  BY KeyOfRun DEF TInv, ETypeOK
<1>5. runs' = runs
  BY <1>3 DEF runs
<1>6. chans'[b] = {} /\ \A j \in Instances \ {b} : chans'[j] = chans[j]
  BY <1>2, <1>3, <1>4 DEF OpInv, OneToken
<1>7. inner'[i] = "send" /\ \A j \in Instances \ {i} : inner'[j] = inner[j]
  BY <1>3, <1>4
<1> HIDE DEF b
<1>8. Asked(k)
  BY <1>2, <1>3 DEF Asked
<1>9. /\ ~Replying(k) /\ ~Failing(k)
  BY <1>1, <1>8, OnlyThere, PlaceFacts DEF OpInv, Places
<1>10. \A j : Asked(j)' => Asked(j) /\ j # k
  <2> SUFFICES ASSUME NEW a \in 1..runs, chans'[a] # {}
               PROVE  chans[a] # {} /\ keyOf[a] # k
    BY <1>3, <1>5 DEF Asked
  <2> QED
    BY <1>2, <1>3, <1>4, <1>6 DEF OpInv, OneAnswer
<1>11. \A j : Replying(j)' => Replying(j) \/ j = k
  BY <1>3, <1>4, <1>5, <1>7 DEF Replying
<1>12. OnePlace'
  <2>1. \A j \in Keys, r \in Places : At(r, j)' => At(r, j) \/ (r = 4 /\ j = k)
    BY <1>3, <1>10, <1>11, Frames DEF At, Places
  <2>2. ASSUME NEW x \in Keys, x = k
        PROVE  Moves(3, 4, x)
    BY <1>8, <1>10, <2>1, <2>2 DEF Moves, At
  <2> QED
    BY <1>1, <1>3, <2>2, MoveKeeps DEF OpInv, Places
<1>13. OneAnswer'
  <2>1. \A j \in 1..runs : keyOf[j] = k => inner[j] # "send"
    BY <1>9 DEF Replying
  <2>2. \A j \in 1..runs : inner'[j] = "send" => inner[j] = "send" \/ j = i
    BY <1>4, <1>7
  <2>3. \A j \in 1..runs : chans'[j] # {} => chans[j] # {}
    BY <1>4, <1>6
  <2> QED
    BY <1>3, <1>5, <2>1, <2>2, <2>3 DEF OpInv, OneAnswer
<1>14. OneToken'
  BY <1>3, <1>4, <1>5, <1>6 DEF OpInv, OneToken
<1>15. LoopsBound'
  BY <1>3, <1>4, <1>5, <1>7 DEF OpInv, LoopsBound
<1> QED
  BY <1>3, <1>12, <1>13, <1>14, <1>15 DEF OpInv

\* The answer of a loop, of an outer goroutine and of Run is sent.
LEMMA InnerSendMoves ==
  ASSUME TInv, OpInv, ByExecutor, NEW i \in Instances, InnerSend(i)
  PROVE  OpInv'
<1>1. i \in 1..runs /\ keyOf[i] \in Keys
  BY ActiveIsMade DEF InnerSend
<1> DEFINE k == keyOf[i]
<1>2. /\ inner[i] = "send" /\ Send(k, report[i])
      /\ inner' = [inner EXCEPT ![i] = AfterSend(report[i])]
      /\ UNCHANGED <<ctrls, keyOf, chans, bound, outer, caller>>
      /\ UNCHANGED <<active, change, ch, mon, refresher>>
  BY DEF InnerSend, ByExecutor
<1>3. AfterSend(report[i]) \in {"loop", "paused", "ended"}
  BY DEF AfterSend
<1>4. inner \in [Instances -> InnerPcs] /\ \A j \in 1..runs : j \in Instances
  BY KeyOfRun DEF TInv, ETypeOK
<1>5. /\ inner'[i] \in {"loop", "paused", "ended"}
      /\ \A j \in Instances \ {i} : inner'[j] = inner[j]
  BY <1>2, <1>3, <1>4
<1>6. runs' = runs
  BY <1>2 DEF runs
<1>7. Replying(k)
  BY <1>1, <1>2 DEF Replying
<1>8. ~Sent(k)
  BY <1>1, <1>7, OnlyThere, PlaceFacts DEF OpInv, Places
<1>9. /\ \A m, n \in DOMAIN resultChan' :
           resultChan'[m].key = resultChan'[n].key => m = n
      /\ \A j : Sent(j)' => Sent(j) \/ j = k
  BY <1>1, <1>2, <1>8, SendAnswers DEF OpInv
<1>10. \A j : Replying(j)' => Replying(j) /\ j # k
  <2> SUFFICES ASSUME NEW a \in 1..runs, inner'[a] = "send"
               PROVE  inner[a] = "send" /\ keyOf[a] # k
    BY <1>2, <1>6 DEF Replying
  <2> QED
    BY <1>1, <1>2, <1>4, <1>5 DEF OpInv, OneAnswer
<1>11. OnePlace'
  <2>1. \A j \in Keys, r \in Places : At(r, j)' => At(r, j) \/ (r = 6 /\ j = k)
    BY <1>2, <1>9, <1>10, Frames DEF At, Places
  <2>2. ASSUME NEW x \in Keys, x = k
        PROVE  Moves(4, 6, x)
    BY <1>7, <1>10, <2>1, <2>2 DEF Moves, At
  <2> QED
    BY <1>1, <1>2, <2>2, MoveKeeps DEF OpInv, Places
<1>12. OneAnswer'
  <2>1. \A j \in 1..runs : inner'[j] = "send" => inner[j] = "send"
    BY <1>4, <1>5
  <2> QED
    BY <1>2, <1>6, <1>9, <2>1 DEF OpInv, OneAnswer
<1>13. OneToken' /\ LoopsBound'
  BY <1>2, <1>5, <1>6 DEF OpInv, OneToken, LoopsBound
<1> QED
  BY <1>2, <1>11, <1>12, <1>13 DEF OpInv

LEMMA OuterSendMoves ==
  ASSUME TInv, OpInv, ByExecutor, NEW i \in Instances, OuterSend(i)
  PROVE  OpInv'
<1>1. i \in 1..runs /\ keyOf[i] \in Keys
  BY ActiveIsMade DEF OuterSend
<1> DEFINE k == keyOf[i]
<1>2. /\ outer[i] = "report" /\ Send(k, Failed)
      /\ outer' = [outer EXCEPT ![i] = "delete"]
      /\ UNCHANGED <<ctrls, keyOf, chans, bound, inner, caller>>
      /\ UNCHANGED <<active, change, ch, mon, refresher>>
  BY DEF OuterSend, ByExecutor
<1>3. outer \in [Instances -> OuterPcs] /\ \A j \in 1..runs : j \in Instances
  BY KeyOfRun DEF TInv, ETypeOK
<1>4. outer'[i] = "delete" /\ \A j \in Instances \ {i} : outer'[j] = outer[j]
  BY <1>2, <1>3
<1>5. runs' = runs
  BY <1>2 DEF runs
<1>6. Failing(k)
  BY <1>1, <1>2 DEF Failing
<1>7. ~Sent(k)
  BY <1>1, <1>6, OnlyThere, PlaceFacts DEF OpInv, Places
<1>8. /\ \A m, n \in DOMAIN resultChan' :
           resultChan'[m].key = resultChan'[n].key => m = n
      /\ \A j : Sent(j)' => Sent(j) \/ j = k
  BY <1>1, <1>2, <1>7, SendAnswers DEF OpInv
<1>9. \A j : Failing(j)' => Failing(j) /\ j # k
  <2> SUFFICES ASSUME NEW a \in 1..runs, outer'[a] = "report"
               PROVE  outer[a] = "report" /\ keyOf[a] # k
    BY <1>2, <1>5 DEF Failing
  <2> QED
    BY <1>1, <1>2, <1>3, <1>4 DEF OpInv, OneAnswer
<1>10. OnePlace'
  <2>1. \A j \in Keys, r \in Places : At(r, j)' => At(r, j) \/ (r = 6 /\ j = k)
    BY <1>2, <1>8, <1>9, Frames DEF At, Places
  <2>2. ASSUME NEW x \in Keys, x = k
        PROVE  Moves(5, 6, x)
    BY <1>6, <1>9, <2>1, <2>2 DEF Moves, At
  <2> QED
    BY <1>1, <1>2, <2>2, MoveKeeps DEF OpInv, Places
<1>11. OneAnswer'
  <2>1. \A j \in 1..runs : outer'[j] = "report" => outer[j] = "report"
    BY <1>3, <1>4
  <2> QED
    BY <1>2, <1>5, <1>8, <2>1 DEF OpInv, OneAnswer
<1>12. OneToken' /\ LoopsBound'
  BY <1>2, <1>3, <1>4, <1>5 DEF OpInv, OneToken, LoopsBound
<1> QED
  BY <1>2, <1>10, <1>11, <1>12 DEF OpInv

LEMMA RunSendMoves ==
  ASSUME TInv, OpInv, ByExecutor, RunSend
  PROVE  OpInv'
<1>1. caller.inst \in 1..runs /\ keyOf[caller.inst] \in Keys
  BY KeyOfRun DEF TInv, CallerRuns, RunSend
<1> DEFINE k == keyOf[caller.inst]
<1>2. /\ caller.at = "runSend" /\ Send(k, Running) /\ caller' = Idle
      /\ UNCHANGED <<ctrls, keyOf, chans, bound, inner, outer>>
      /\ UNCHANGED <<active, change, ch, mon, refresher>>
  BY DEF RunSend, ByExecutor
<1>3. runs' = runs /\ caller'.at = "idle"
  BY <1>2 DEF runs, Idle
<1>4. Starting(k)
  BY <1>1, <1>2 DEF Starting
<1>5. ~Sent(k)
  BY <1>1, <1>4, OnlyThere, PlaceFacts DEF OpInv, Places
<1>6. /\ \A m, n \in DOMAIN resultChan' :
           resultChan'[m].key = resultChan'[n].key => m = n
      /\ \A j : Sent(j)' => Sent(j) \/ j = k
  BY <1>1, <1>2, <1>5, SendAnswers DEF OpInv
<1>7. \A j : ~Starting(j)'
  BY <1>3 DEF Starting
<1>8. OnePlace'
  <2>1. \A j \in Keys, r \in Places : At(r, j)' => At(r, j) \/ (r = 6 /\ j = k)
    BY <1>2, <1>6, <1>7, Frames DEF At, Places
  <2>2. ASSUME NEW x \in Keys, x = k
        PROVE  Moves(2, 6, x)
    BY <1>4, <1>7, <2>1, <2>2 DEF Moves, At
  <2> QED
    BY <1>1, <1>2, <2>2, MoveKeeps DEF OpInv, Places
<1>9. OneAnswer' /\ OneToken' /\ LoopsBound'
  BY <1>2, <1>3, <1>6 DEF OpInv, OneAnswer, OneToken, LoopsBound
<1> QED
  BY <1>2, <1>8, <1>9 DEF OpInv

\* A forced exit is obeyed.
LEMMA OuterExitMoves ==
  ASSUME TInv, OpInv, ByExecutor, NEW i \in Instances, OuterExit(i)
  PROVE  OpInv'
<1>1. i \in 1..runs /\ keyOf[i] \in Keys
  BY ActiveIsMade DEF OuterExit
<1> DEFINE k == keyOf[i]
<1>2. /\ "exit" \in chans[i] /\ outer[i] = "wait"
      /\ chans' = [chans EXCEPT ![i] = @ \ {"exit"}]
      /\ outer' = [outer EXCEPT ![i] = "report"]
      /\ UNCHANGED <<ctrls, resultChan, keyOf, inner, bound, caller>>
      /\ UNCHANGED <<active, change, ch, mon, refresher>>
  BY DEF OuterExit, ByExecutor
<1>3. /\ chans \in [Instances -> SUBSET Chans]
      /\ outer \in [Instances -> OuterPcs]
      /\ \A j \in 1..runs : j \in Instances
  BY KeyOfRun DEF TInv, ETypeOK
<1>4. chans'[i] = {} /\ \A j \in Instances \ {i} : chans'[j] = chans[j]
  BY <1>2, <1>3 DEF OpInv, OneToken
<1>5. outer'[i] = "report" /\ \A j \in Instances \ {i} : outer'[j] = outer[j]
  BY <1>2, <1>3
<1>6. runs' = runs
  BY <1>2 DEF runs
<1>7. Asked(k)
  BY <1>1, <1>2 DEF Asked
<1>8. ~Failing(k)
  BY <1>1, <1>7, OnlyThere, PlaceFacts DEF OpInv, Places
<1>9. \A j : Asked(j)' => Asked(j) /\ j # k
  <2> SUFFICES ASSUME NEW a \in 1..runs, chans'[a] # {}
               PROVE  chans[a] # {} /\ keyOf[a] # k
    BY <1>2, <1>6 DEF Asked
  <2> QED
    BY <1>1, <1>2, <1>3, <1>4 DEF OpInv, OneAnswer
<1>10. \A j : Failing(j)' => Failing(j) \/ j = k
  BY <1>2, <1>3, <1>5, <1>6 DEF Failing
<1>11. OnePlace'
  <2>1. \A j \in Keys, r \in Places : At(r, j)' => At(r, j) \/ (r = 5 /\ j = k)
    BY <1>2, <1>9, <1>10, Frames DEF At, Places
  <2>2. ASSUME NEW x \in Keys, x = k
        PROVE  Moves(3, 5, x)
    BY <1>7, <1>9, <2>1, <2>2 DEF Moves, At
  <2> QED
    BY <1>1, <1>2, <2>2, MoveKeeps DEF OpInv, Places
<1>12. OneAnswer'
  <2>1. \A j \in 1..runs : keyOf[j] = k => outer[j] # "report"
    BY <1>8 DEF Failing
  <2>2. \A j \in 1..runs : outer'[j] = "report" => outer[j] = "report" \/ j = i
    BY <1>3, <1>5
  <2>3. \A j \in 1..runs : chans'[j] # {} => chans[j] # {}
    BY <1>3, <1>4
  <2> QED
    BY <1>2, <1>6, <2>1, <2>2, <2>3 DEF OpInv, OneAnswer
<1>13. OneToken'
  BY <1>2, <1>3, <1>4, <1>6 DEF OpInv, OneToken
<1>14. LoopsBound'
  BY <1>2, <1>5, <1>6 DEF OpInv, LoopsBound
<1> QED
  BY <1>2, <1>11, <1>12, <1>13, <1>14 DEF OpInv

\* The other steps of the executor's goroutines move no operation.
LEMMA QuietSteps ==
  ASSUME AnswersOnly, TInv, CInv, OpInv, ByExecutor,
         \/ RunSync \/ PutBlocked
         \/ \E i \in Instances :
              \/ InnerStart(i) \/ CallBizLogic(i) \/ BizLogicReturns(i)
              \/ OuterStart(i) \/ OuterFinish(i) \/ OuterDelete(i)
  PROVE  OpInv'
<1>1. ~PutBlocked
  BY DEF PutBlocked, OpInv, OneToken
<1>2. /\ inner \in [Instances -> InnerPcs] /\ outer \in [Instances -> OuterPcs]
      /\ \A j \in 1..runs : j \in Instances
  BY KeyOfRun DEF TInv, ETypeOK
<1>3. UNCHANGED <<resultChan, keyOf, chans, active, change, ch, mon, refresher>>
  BY <1>1 DEF ByExecutor, RunSync, InnerStart, CallBizLogic, BizLogicReturns,
              OuterStart, OuterFinish, OuterDelete, Sync, AnswersOnly
<1>4. runs' = runs
  BY <1>3 DEF runs
<1>5. /\ caller'.at # "send"
      /\ \A k : Starting(k)' => Starting(k)
  <2>1. CASE RunSync
    <3>1. caller' = [caller EXCEPT !.at = "runSend"] /\ caller.at = "runSync"
      BY <2>1 DEF RunSync
    <3>2. caller'.at = "runSend" /\ caller'.inst = caller.inst
      BY <3>1 DEF TInv, ETypeOK
    <3> QED
      BY <1>3, <3>1, <3>2 DEF Starting
  <2>2. CASE caller' = caller
    BY <1>3, <2>2 DEF Starting, OpInv, OneToken
  <2> QED
    BY <1>1, <2>1, <2>2 DEF InnerStart, CallBizLogic, BizLogicReturns,
                            OuterStart, OuterFinish, OuterDelete
<1>6. /\ \A j \in Instances : inner'[j] = "send" => inner[j] = "send"
      /\ LoopsBound'
  <2>1. CASE RunSync
    BY <2>1 DEF RunSync, OpInv, LoopsBound, runs
  <2>2. ASSUME NEW i \in Instances, InnerStart(i)
        PROVE  /\ \A j \in Instances : inner'[j] = "send" => inner[j] = "send"
               /\ LoopsBound'
    <3>1. i \in 1..runs /\ keyOf[i] \in Keys
      BY <2>2, ActiveIsMade DEF InnerStart
    <3>2. /\ bound' = [bound EXCEPT ![i] = ctrls[keyOf[i]]]
          /\ inner' = [inner EXCEPT ![i] =
                         IF ctrls[keyOf[i]] = None THEN "crashed" ELSE "loop"]
          /\ UNCHANGED <<keyOf, outer>>
      BY <2>2 DEF InnerStart
    <3>3. bound \in [Instances -> Instances \cup {None}]
      BY DEF TInv, ETypeOK
    <3>4. /\ bound'[i] = ctrls[keyOf[i]]
          /\ inner'[i] = IF bound'[i] = None THEN "crashed" ELSE "loop"
          /\ \A j \in Instances \ {i} : bound'[j] = bound[j] /\ inner'[j] = inner[j]
      BY <1>2, <3>2, <3>3
    <3>5. bound'[i] # None => bound'[i] \in 1..runs /\ keyOf[bound'[i]] = keyOf[i]
      BY <3>1, <3>4 DEF CInv, MapsToOwnKey
    <3>6. bound'[i] = None => outer[i] = "gone"
      <4>1. i # None
        BY DEF None, Instances
      <4> QED
        BY <3>1, <3>4, <4>1 DEF CInv, OwnCtrl
    <3> QED
      BY <1>4, <3>1, <3>2, <3>4, <3>5, <3>6 DEF OpInv, LoopsBound
  <2>3. ASSUME NEW i \in Instances, CallBizLogic(i) \/ BizLogicReturns(i)
        PROVE  /\ \A j \in Instances : inner'[j] = "send" => inner[j] = "send"
               /\ LoopsBound'
    <3>1. /\ inner[i] \in {"loop", "call"}
          /\ inner' = [inner EXCEPT ![i] = "call"] \/ inner' = [inner EXCEPT ![i] = "loop"]
          /\ UNCHANGED <<bound, keyOf, outer>>
      BY <2>3 DEF CallBizLogic, BizLogicReturns, Sync, AnswersOnly
    <3> QED
      BY <1>2, <1>4, <3>1 DEF OpInv, LoopsBound
  <2>4. ASSUME NEW i \in Instances, OuterStart(i)
        PROVE  /\ \A j \in Instances : inner'[j] = "send" => inner[j] = "send"
               /\ LoopsBound'
    <3>1. /\ outer[i] = "start" /\ inner' = [inner EXCEPT ![i] = "start"]
          /\ outer' = [outer EXCEPT ![i] = "wait"]
          /\ UNCHANGED <<bound, keyOf>>
      BY <2>4 DEF OuterStart
    <3> QED
      BY <1>2, <1>4, <3>1 DEF OpInv, LoopsBound
  <2>5. ASSUME NEW i \in Instances, OuterFinish(i) \/ OuterDelete(i)
        PROVE  /\ \A j \in Instances : inner'[j] = "send" => inner[j] = "send"
               /\ LoopsBound'
    <3>1. /\ outer[i] # "gone" /\ UNCHANGED <<inner, bound, keyOf>>
          /\ \A j \in Instances \ {i} : outer'[j] = outer[j]
      BY <1>2, <2>5 DEF OuterFinish, OuterDelete
    <3> QED
      BY <1>4, <3>1 DEF OpInv, LoopsBound
  <2> QED
    BY <1>1, <2>1, <2>2, <2>3, <2>4, <2>5
<1>7. \A j \in Instances : outer'[j] = "report" => outer[j] = "report"
  <2>1. CASE RunSync \/ \E i \in Instances :
               InnerStart(i) \/ CallBizLogic(i) \/ BizLogicReturns(i)
    BY <2>1 DEF RunSync, InnerStart, CallBizLogic, BizLogicReturns
  <2>2. ASSUME NEW i \in Instances, OuterStart(i) \/ OuterDelete(i)
        PROVE  \A j \in Instances : outer'[j] = "report" => outer[j] = "report"
    BY <1>2, <2>2 DEF OuterStart, OuterDelete
  <2>3. ASSUME NEW i \in Instances, OuterFinish(i)
        PROVE  \A j \in Instances : outer'[j] = "report" => outer[j] = "report"
    <3>1. outer[i] = "wait" /\ inner[i] # "crashed"
      BY <2>3 DEF OuterFinish, OpInv, LoopsBound
    <3>2. outer' = [outer EXCEPT ![i] = "delete"]
      BY <2>3, <3>1 DEF OuterFinish
    <3> QED
      BY <1>2, <3>2
  <2> QED
    BY <1>1, <2>1, <2>2, <2>3
<1>8. OnePlace'
  <2>1. \A k : Replying(k)' => Replying(k)
    BY <1>2, <1>3, <1>4, <1>6 DEF Replying
  <2>2. \A k : Failing(k)' => Failing(k)
    BY <1>2, <1>3, <1>4, <1>7 DEF Failing
  <2>3. NothingNew
    BY <1>3, <1>5, <2>1, <2>2, Frames DEF NothingNew, At
  <2> QED
    BY <1>3, <2>3, NothingNewKeeps DEF OpInv
<1>9. OneAnswer' /\ OneToken'
  BY <1>2, <1>3, <1>4, <1>5, <1>6, <1>7 DEF OpInv, OneAnswer, OneToken
<1> QED
  BY <1>3, <1>6, <1>8, <1>9 DEF OpInv

\* The syncer hands an operation over.
LEMMA RunMakes ==
  ASSUME TInv, NEW k \in Keys, Run(k)
  PROVE  /\ runs \in Nat /\ runs' = runs + 1
         /\ \A i \in 1..runs : keyOf'[i] = keyOf[i]
         /\ keyOf'[runs + 1] = k
BY BoundsAssumption DEF Run, TInv, ETypeOK, runs

LEMMA RunMoves ==
  ASSUME TInv, OpInv, NEW k \in Keys, Taken(k), Run(k),
         change' = {}, UNCHANGED <<active, ch, mon, refresher>>
  PROVE  OpInv'
<1>1. /\ runs \in Nat /\ runs' = runs + 1
      /\ \A i \in 1..runs : keyOf'[i] = keyOf[i]
      /\ keyOf'[runs + 1] = k
  BY RunMakes
<1>2. /\ outer' = [outer EXCEPT ![runs + 1] = "start"]
      /\ caller' = [at |-> "runSync", inst |-> runs + 1, ch |-> "exit"]
      /\ caller = Idle
      /\ UNCHANGED <<resultChan, chans, inner, bound, report>>
  BY DEF Run
<1>3. /\ outer \in [Instances -> OuterPcs]
      /\ \A i \in Instances : i \in 1..runs \/ i > runs
      /\ \A i \in 1..runs : i \in Instances
      /\ runs + 1 \in Instances
  BY <1>1, KeyOfRun, BoundsAssumption DEF TInv, ETypeOK, Run, Instances
<1>4. \A i \in 1..runs' : i \in 1..runs \/ i = runs + 1
  BY <1>1
<1>5. /\ chans[runs + 1] = {} /\ inner[runs + 1] = "none"
      /\ outer'[runs + 1] = "start"
  <2>1. ~(runs + 1 \in 1..runs) /\ runs + 1 > runs
    BY <1>1
  <2> QED
    BY <1>2, <1>3, <2>1 DEF OpInv, OneToken, TInv, NoneBeforeRun
<1>6. \A i \in Instances : i # runs + 1 => outer'[i] = outer[i]
  BY <1>2, <1>3
<1>7. \A i \in 1..runs : i # runs + 1 /\ i \in 1..runs'
  BY <1>1
<1>8. ~Starting(k)
  BY OnlyThere, PlaceFacts DEF OpInv, Places
<1>9. OnePlace'
  <2>1. \A j : Asked(j)' => Asked(j)
    BY <1>1, <1>2, <1>4, <1>5 DEF Asked
  <2>2. \A j : Replying(j)' => Replying(j)
    BY <1>1, <1>2, <1>4, <1>5 DEF Replying
  <2>3. \A j : Failing(j)' => Failing(j)
    BY <1>1, <1>3, <1>4, <1>5, <1>6, <1>7 DEF Failing
  <2>4. \A j : Starting(j)' => j = k
    BY <1>1, <1>2 DEF Starting
  <2>5. \A j : ~Taken(j)'
    BY DEF Taken
  <2>6. \A j \in Keys, r \in Places : At(r, j)' => At(r, j) \/ (r = 2 /\ j = k)
    BY <1>2, <2>1, <2>2, <2>3, <2>4, <2>5, Frames DEF At, Places
  <2>7. Moves(1, 2, k)
    BY <2>5, <2>6 DEF Moves, At
  <2> QED
    BY <2>7, MoveKeeps DEF OpInv, Places
<1>10. OneAnswer'
  <2>1. \A i \in 1..runs' : chans'[i] # {} => i \in 1..runs /\ chans[i] # {}
    BY <1>2, <1>4, <1>5
  <2>2. \A i \in 1..runs' : inner'[i] = "send" => i \in 1..runs /\ inner[i] = "send"
    BY <1>2, <1>4, <1>5
  <2>3. \A i \in 1..runs' : outer'[i] = "report" => i \in 1..runs /\ outer[i] = "report"
    BY <1>3, <1>4, <1>5, <1>6, <1>7
  <2> QED
    BY <1>1, <1>2, <2>1, <2>2, <2>3 DEF OpInv, OneAnswer
<1>11. OneToken'
  BY <1>2, <1>7 DEF OpInv, OneToken
<1>12. LoopsBound'
  <2>1. ASSUME NEW i \in Instances, bound[i] # None
        PROVE  /\ i \in 1..runs' /\ bound[i] \in 1..runs'
               /\ keyOf'[bound[i]] = keyOf'[i]
    BY <1>1, <1>7, <2>1 DEF OpInv, LoopsBound
  <2>2. \A i \in Instances : inner[i] = "crashed" => outer'[i] = "gone"
    BY <1>5, <1>6 DEF OpInv, LoopsBound
  <2> QED
    BY <1>2, <2>1, <2>2 DEF OpInv, LoopsBound
<1> QED
  BY <1>9, <1>10, <1>11, <1>12 DEF OpInv

LEMMA ControlMoves ==
  ASSUME TInv, CInv, OpInv, NEW k \in Keys, Taken(k), NEW g, NEW c \in Chans,
         Control(k, g, c), change' = {}, UNCHANGED <<active, ch, mon, refresher>>
  PROVE  OpInv'
<1> DEFINE i == ctrls[k]
<1>1. i \in 1..runs /\ keyOf[i] = k /\ i \in Instances
  BY KeyOfRun DEF Control, CInv, MapsToOwnKey, TInv
<1>2. ~Asked(k)
  BY OnlyThere, PlaceFacts DEF OpInv, Places
<1>3. \A a \in 1..runs : keyOf[a] = k => chans[a] = {}
  BY <1>2 DEF Asked
<1>4. Put(i, c) /\ chans[i] = {}
  BY <1>1, <1>3 DEF Control
<1> HIDE DEF i
<1>5. /\ chans' = [chans EXCEPT ![i] = @ \cup {c}] /\ caller' = Idle
      /\ UNCHANGED <<taskStatus, resultChan, keyOf, inner, bound, report, outer>>
  BY <1>4 DEF Put
<1>6. /\ chans \in [Instances -> SUBSET Chans]
      /\ \A a \in 1..runs : a \in Instances
  BY KeyOfRun DEF TInv, ETypeOK
<1>7. chans'[i] = {c} /\ \A a \in Instances \ {i} : chans'[a] = chans[a]
  BY <1>1, <1>4, <1>5, <1>6
<1>8. runs' = runs /\ caller'.at = "idle"
  BY <1>5 DEF runs, Idle
<1>9. OnePlace'
  <2>1. \A j : Asked(j)' => Asked(j) \/ j = k
    BY <1>1, <1>5, <1>6, <1>7, <1>8 DEF Asked
  <2>2. \A j : ~Starting(j)' /\ ~Taken(j)'
    BY <1>8 DEF Starting, Taken
  <2>3. \A j \in Keys, r \in Places : At(r, j)' => At(r, j) \/ (r = 3 /\ j = k)
    BY <1>5, <2>1, <2>2, Frames DEF At, Places
  <2>4. Moves(1, 3, k)
    BY <2>2, <2>3 DEF Moves, At
  <2> QED
    BY <2>4, MoveKeeps DEF OpInv, Places
<1>10. OneAnswer'
  <2>1. \A a \in 1..runs : chans'[a] # {} => chans[a] # {} \/ a = i
    BY <1>6, <1>7
  <2> QED
    BY <1>1, <1>3, <1>5, <1>8, <2>1 DEF OpInv, OneAnswer
<1>11. OneToken'
  BY <1>1, <1>7, <1>8 DEF OpInv, OneToken
<1>12. LoopsBound'
  BY <1>5, <1>8 DEF OpInv, LoopsBound
<1> QED
  BY <1>9, <1>10, <1>11, <1>12 DEF OpInv

LEMMA SyncChangeMoves ==
  ASSUME WInv, CInv, OpInv, SyncChange
  PROVE  OpInv'
<1>1. PICK c \in change :
        /\ change' = {}
        /\ \/ ChangeHandle(c) /\ UNCHANGED qvars
           \/ Queue!Finish(c.key) /\ UNCHANGED evars
           \/ UNCHANGED <<evars, qvars>>
        /\ UNCHANGED <<ch, mon, refresher>>
  BY DEF SyncChange
<1>2. TInv /\ c.key \in Keys /\ Taken(c.key)
  BY DEF WInv, PipelineOK, Changes, Taken
<1>3. CASE ChangeHandle(c) /\ UNCHANGED qvars
  <2>1. active' = active
    BY <1>3 DEF qvars
  <2>2. CASE Run(c.key)
    BY <1>1, <1>2, <2>1, <2>2, RunMoves
  <2>3. CASE \E g, x \in Chans : Control(c.key, g, x)
    BY <1>1, <1>2, <2>1, <2>3, ControlMoves
  <2> QED
    BY <1>3, <2>2, <2>3
    DEF ChangeHandle, Exit, Pause, Resume, StopTask, Chans
<1>4. ASSUME UNCHANGED evars, \A j \in Keys : j \in active /\ j # c.key => j \in active'
      PROVE  OpInv'
  <2>1. UNCHANGED <<resultChan, keyOf, chans, inner, bound, outer, caller>>
    BY <1>4 DEF evars
  <2>2. \A j : ~Taken(j)'
    BY <1>1 DEF Taken
  <2>3. \A r \in Places : ~At(r, c.key)'
    BY <1>1, <1>2, <2>1, <2>2, Frames, OnlyThere, PlaceFacts
    DEF At, Places, OpInv
  <2>4. \A j \in Keys, r \in Places : At(r, j)' => At(r, j)
    BY <1>1, <2>1, <2>2, Frames DEF At
  <2>5. OnePlace'
    <3> SUFFICES ASSUME NEW j \in Keys, NEW r \in Places, At(r, j)'
                 PROVE  j \in active' /\ \A t \in Places : At(t, j)' => t = r
      BY DEF OnePlace
    <3> QED
      BY <1>4, <2>3, <2>4 DEF OpInv, OnePlace
  <2>6. OneAnswer' /\ OneToken' /\ LoopsBound'
    BY <1>1, <2>1 DEF OpInv, OneAnswer, OneToken, LoopsBound, runs
  <2> QED
    BY <1>1, <2>5, <2>6 DEF OpInv
<1>5. CASE Queue!Finish(c.key) /\ UNCHANGED evars
  BY <1>4, <1>5 DEF Queue!Finish
<1>6. CASE UNCHANGED <<evars, qvars>>
  BY <1>4, <1>6 DEF qvars
<1> QED
  BY <1>1, <1>3, <1>5, <1>6

\* A change is taken for a task that has no operation.
LEMMA WaitChangeMoves ==
  ASSUME WInv, KeyOnce, OpInv, WaitChange
  PROVE  OpInv'
<1>1. /\ pending # <<>> /\ change = {} /\ change' = {pending[1]}
      /\ active' = active \cup {pending[1].key}
      /\ UNCHANGED evars /\ UNCHANGED <<ch, mon, refresher>>
  BY DEF WaitChange, Queue!Take, Queue!KeyOf
<1>2. pending \in Seq(Changes)
  BY DEF WInv, PipelineOK
<1>3. 1 \in DOMAIN pending /\ pending[1] \in Changes
  BY <1>1, <1>2
<1>4. pending[1].key \in Keys /\ pending[1].key \notin active
  BY <1>3 DEF KeyOnce, Changes
<1> DEFINE k == pending[1].key
<1>5. UNCHANGED <<resultChan, keyOf, chans, inner, bound, outer, caller>>
  BY <1>1 DEF evars
<1>6. \A j : Taken(j)' <=> j = k
  BY <1>1 DEF Taken
<1> HIDE DEF k
<1>7. k \in Keys /\ k \notin active /\ active' = active \cup {k}
  BY <1>1, <1>4 DEF k
<1>8. \A j \in Keys, r \in Places : At(r, j)' => At(r, j) \/ (r = 1 /\ j = k)
  BY <1>1, <1>5, <1>6, Frames DEF At, Places
<1>9. \A r \in Places : ~At(r, k)
  BY <1>7 DEF OpInv, OnePlace
<1>10. OnePlace'
  <2> SUFFICES ASSUME NEW j \in Keys, NEW r \in Places, At(r, j)'
               PROVE  j \in active' /\ \A t \in Places : At(t, j)' => t = r
    BY DEF OnePlace
  <2> QED
    BY <1>7, <1>8, <1>9 DEF OpInv, OnePlace
<1>11. OneAnswer' /\ OneToken' /\ LoopsBound'
  BY <1>1, <1>5 DEF OpInv, OneAnswer, OneToken, LoopsBound, runs
<1> QED
  BY <1>1, <1>10, <1>11 DEF OpInv

\* An event goes on to the monitor.
LEMMA ForwardMoves ==
  ASSUME WInv, OpInv, Forward
  PROVE  OpInv'
<1>1. /\ resultChan # <<>> /\ resultChan' = Tail(resultChan)
      /\ ch' = Append(ch, Head(resultChan))
      /\ UNCHANGED <<keyOf, chans, inner, bound, outer, caller>>
      /\ UNCHANGED <<active, change, mon, refresher>>
  BY DEF Forward, Recv, SendEvent
<1>2. ch \in Seq(Event) /\ resultChan \in Seq(Event)
  BY DEF WInv, PipelineOK, TInv, ETypeOK, Event
<1>3. /\ 1 \in DOMAIN resultChan /\ Head(resultChan) = resultChan[1]
      /\ resultChan[1] \in Event
  BY <1>1, <1>2
<1>4. \A n \in DOMAIN resultChan' :
        /\ n + 1 \in DOMAIN resultChan /\ n + 1 # 1
        /\ resultChan'[n] = resultChan[n + 1] /\ n \in Nat
  BY <1>1, <1>2
<1>5. /\ DOMAIN ch' = DOMAIN ch \cup {Len(ch) + 1}
      /\ \A n \in DOMAIN ch : ch'[n] = ch[n]
      /\ ch'[Len(ch) + 1] = resultChan[1]
  BY <1>1, <1>2, <1>3
<1> DEFINE k == resultChan[1].key
<1>6. k \in Keys /\ Sent(k)
  BY <1>3 DEF Event, Sent
<1>7. ~Passed(k)
  BY <1>6, OnlyThere, PlaceFacts DEF OpInv, Places
<1>8. \A n \in DOMAIN ch : ch[n].key # k
  BY <1>7 DEF Passed
<1>9. \A n \in DOMAIN resultChan' : resultChan'[n].key # k
  BY <1>3, <1>4 DEF OpInv, OneAnswer
<1>10. OnePlace'
  <2>1. \A j : Sent(j)' => Sent(j) /\ j # k
    BY <1>4, <1>9 DEF Sent
  <2>2. \A j : Passed(j)' => Passed(j) \/ j = k
    BY <1>5 DEF Passed
  <2>3. \A j \in Keys, r \in Places : At(r, j)' => At(r, j) \/ (r = 7 /\ j = k)
    BY <1>1, <2>1, <2>2, Frames DEF At, Places
  <2>4. ASSUME NEW x \in Keys, x = k
        PROVE  Moves(6, 7, x)
    BY <1>6, <2>1, <2>3, <2>4 DEF Moves, At
  <2> QED
    BY <1>1, <1>6, <2>4, MoveKeeps DEF OpInv, Places
<1>11. OneAnswer'
  <2>1. \A m, n \in DOMAIN resultChan' :
          resultChan'[m].key = resultChan'[n].key => m = n
    <3>1. \A m, n \in DOMAIN resultChan' :
            resultChan'[m].key = resultChan'[n].key => m + 1 = n + 1
      BY <1>4 DEF OpInv, OneAnswer
    <3> QED
      BY <1>4, <3>1
  <2>2. \A m, n \in DOMAIN ch' : ch'[m].key = ch'[n].key => m = n
    BY <1>5, <1>8 DEF OpInv, OneAnswer
  <2> QED
    BY <1>1, <2>1, <2>2 DEF OpInv, OneAnswer, runs
<1>12. OneToken' /\ LoopsBound'
  BY <1>1 DEF OpInv, OneToken, LoopsBound, runs
<1> QED
  BY <1>1, <1>10, <1>11, <1>12 DEF OpInv

\* The monitor marks the operation done when it has dealt with its event.
LEMMA MonitorMoves ==
  ASSUME WInv, OpInv, Monitor
  PROVE  OpInv'
<1>1. /\ UNCHANGED <<resultChan, keyOf, chans, inner, bound, outer, caller>>
      /\ UNCHANGED <<change, refresher>>
  BY DEF Monitor, MonitorSet, MonitorUpdate, MonitorDone, evars
<1>2. OneToken' /\ LoopsBound'
  BY <1>1 DEF OpInv, OneToken, LoopsBound, runs
<1>3. CASE MonitorSet
  <2>1. /\ ch # <<>> /\ ch' = Tail(ch) /\ active' = active
        /\ mon' = [at |-> "update", ev |-> Head(ch)]
    BY <1>3 DEF MonitorSet
  <2>2. ch \in Seq(Event)
    BY DEF WInv, PipelineOK
  <2>3. 1 \in DOMAIN ch /\ Head(ch) = ch[1] /\ ch[1] \in Event
    BY <2>1, <2>2
  <2>4. \A n \in DOMAIN ch' :
          /\ n + 1 \in DOMAIN ch /\ n + 1 # 1
          /\ ch'[n] = ch[n + 1] /\ n \in Nat
    BY <2>1, <2>2
  <2> DEFINE k == ch[1].key
  <2>5. k \in Keys /\ Passed(k)
    BY <2>3 DEF Event, Passed
  <2>6. \A n \in DOMAIN ch' : ch'[n].key # k
    BY <2>3, <2>4 DEF OpInv, OneAnswer
  <2>7. mon'.ev.key = k
    BY <2>1, <2>3
  <2>8. \A j : Passed(j)' => Passed(j) /\ j # k
    BY <2>4, <2>6 DEF Passed
  <2>9. \A j : Noted(j)' => j = k
    BY <2>7 DEF Noted
  <2>10. \A j \in Keys, r \in Places : At(r, j)' => At(r, j) \/ (r = 8 /\ j = k)
    BY <1>1, <2>8, <2>9, Frames DEF At, Places
  <2>11. ASSUME NEW x \in Keys, x = k
         PROVE  Moves(7, 8, x)
    BY <2>5, <2>8, <2>10, <2>11 DEF Moves, At
  <2>12. OnePlace'
    BY <2>1, <2>5, <2>11, MoveKeeps DEF OpInv, Places
  <2>13. \A m, n \in DOMAIN ch' : ch'[m].key = ch'[n].key => m = n
    <3>1. \A m, n \in DOMAIN ch' : ch'[m].key = ch'[n].key => m + 1 = n + 1
      BY <2>4 DEF OpInv, OneAnswer
    <3> QED
      BY <2>4, <3>1
  <2>14. OneAnswer'
    BY <1>1, <2>13 DEF OpInv, OneAnswer, runs
  <2> QED
    BY <1>1, <1>2, <2>12, <2>14 DEF OpInv
<1>4. CASE MonitorUpdate
  <2>1. /\ mon.at = "update" /\ mon'.at = "done" /\ mon'.ev = mon.ev
        /\ ch' = ch /\ active' = active
    BY <1>4 DEF MonitorUpdate, WInv, MonOK
  <2>2. \A j : Noted(j)' => Noted(j)
    BY <2>1 DEF Noted
  <2>3. NothingNew
    BY <1>1, <2>1, <2>2, Frames DEF NothingNew, At
  <2>4. OnePlace'
    BY <2>1, <2>3, NothingNewKeeps DEF OpInv
  <2>5. OneAnswer'
    BY <1>1, <2>1 DEF OpInv, OneAnswer, runs
  <2> QED
    BY <1>1, <1>2, <2>4, <2>5 DEF OpInv
<1>5. CASE MonitorDone
  <2>1. /\ mon.at = "done" /\ mon'.at = "idle" /\ ch' = ch
        /\ active' = active \ {mon.ev.key}
    BY <1>5 DEF MonitorDone, Queue!Finish, IdleMon
  <2> DEFINE k == mon.ev.key
  <2>2. k \in Keys /\ Noted(k)
    BY <2>1 DEF WInv, MonOK, Event, Noted
  <2>3. \A j : ~Noted(j)'
    BY <2>1 DEF Noted
  <2>4. \A j \in Keys, r \in Places : At(r, j)' => At(r, j) /\ r # 8
    BY <1>1, <2>1, <2>3, Frames DEF At, Places
  <2>5. \A r \in Places : At(r, k) => r = 8
    BY <2>2, PlaceFacts DEF OpInv, OnePlace, Places
  <2> HIDE DEF k
  <2>6. OnePlace'
    <3> SUFFICES ASSUME NEW j \in Keys, NEW r \in Places, At(r, j)'
                 PROVE  j \in active' /\ \A t \in Places : At(t, j)' => t = r
      BY DEF OnePlace
    <3>1. At(r, j) /\ r # 8
      BY <2>4
    <3>2. j # k
      BY <2>5, <3>1
    <3>3. active' = active \ {k}
      BY <2>1 DEF k
    <3> QED
      BY <2>4, <3>1, <3>2, <3>3 DEF OpInv, OnePlace
  <2>7. OneAnswer'
    BY <1>1, <2>1 DEF OpInv, OneAnswer, runs
  <2> QED
    BY <1>1, <1>2, <2>6, <2>7 DEF OpInv
<1> QED
  BY <1>3, <1>4, <1>5 DEF Monitor

\* A worker that starts has no operation under way.
LEMMA OpInit ==
  ASSUME EInit, Started
  PROVE  OpInv
<1>1. /\ runs = 0 /\ change = {} /\ ch = <<>> /\ resultChan = <<>>
      /\ caller.at = "idle" /\ mon.at = "idle" /\ DOMAIN refresher = {}
  BY DEF EInit, Started, runs, Idle, IdleMon
<1>2. \A j, r : ~At(r, j)
  BY <1>1 DEF At, Taken, Starting, Asked, Replying, Failing, Sent, Passed, Noted
<1>3. OnePlace /\ OneAnswer
  BY <1>1, <1>2 DEF OnePlace, OneAnswer
<1>4. OneToken /\ LoopsBound
  BY <1>1 DEF EInit, OneToken, LoopsBound
<1> QED
  BY <1>1, <1>3, <1>4 DEF OpInv

LEMMA OpRestart ==
  ASSUME Crash
  PROVE  OpInv'
<1>1. /\ runs' = 0 /\ change' = {} /\ ch' = <<>> /\ resultChan' = <<>>
      /\ caller'.at = "idle" /\ mon'.at = "idle" /\ DOMAIN refresher' = {}
  BY DEF Crash, runs, Idle, IdleMon
<1>2. \A j, r : ~At(r, j)'
  BY <1>1 DEF At, Taken, Starting, Asked, Replying, Failing, Sent, Passed, Noted
<1>3. OnePlace' /\ OneAnswer'
  BY <1>1, <1>2 DEF OnePlace, OneAnswer
<1>4. OneToken' /\ LoopsBound'
  BY <1>1 DEF Crash, OneToken, LoopsBound
<1> QED
  BY <1>1, <1>3, <1>4 DEF OpInv

\* A step that leaves the executor and the way of the events alone.
OtherSteps ==
  UNCHANGED <<resultChan, keyOf, chans, inner, bound, outer, caller, active,
              change, ch, mon, refresher>>

LEMMA OtherStepsKeep ==
  ASSUME OpInv, OtherSteps
  PROVE  OpInv'
<1>1. NothingNew
  BY Frames DEF OtherSteps, NothingNew, At
<1>2. OnePlace'
  BY <1>1, NothingNewKeeps DEF OpInv, OtherSteps
<1> QED
  BY <1>2 DEF OpInv, OtherSteps, OneAnswer, OneToken, LoopsBound, runs

LEMMA OpStep ==
  ASSUME AnswersOnly, WInv, CInv, KeyOnce, OpInv, [Next]_vars
  PROVE  OpInv'
<1>1. TInv
  BY DEF WInv
<1>2. CASE Enqueuer
  <2>1. OtherSteps
    BY <1>2 DEF Enqueuer, TakeTrigger, ListTaskKeys, BatchGetTask, Diff,
                handleException, Enqueue, OtherSteps, evars, qvars, Queue!Offer
  <2> QED
    BY <2>1, OtherStepsKeep
<1>3. ASSUME NEW k \in Keys,
             \/ assignTask(k) \/ Recycle(k)
             \/ \E next \in {Running, Paused, Stop} : OperateTask(k, next)
      PROVE  OpInv'
  <2>1. OtherSteps
    BY <1>3 DEF assignTask, OperateTask, Recycle, OtherSteps, evars, ivars
  <2> QED
    BY <2>1, OtherStepsKeep
<1>4. CASE OperateUpdate \/ WatchTrigger \/ ResyncList \/ ResyncSend \/ Shutdown
  <2>1. OtherSteps
    BY <1>4 DEF OperateUpdate, WatchTrigger, ResyncList, ResyncSend, Shutdown,
                Queue!Close, OtherSteps, evars, ivars
  <2> QED
    BY <2>1, OtherStepsKeep
<1>5. CASE RefreshList \/ RefreshPush \/ UNCHANGED vars
  <2>1. ~RefreshList /\ ~RefreshPush
    BY DEF RefreshList, RefreshPush, AnswersOnly, OpInv
  <2> QED
    BY <1>5, <2>1, OtherStepsKeep DEF OtherSteps, vars, evars, ivars
<1>6. CASE SyncerBlocked
  <2>1. CallerStep /\ ByExecutor
    BY <1>6 DEF SyncerBlocked, ByExecutor, ivars
  <2> QED
    BY <1>1, <2>1, RunSendMoves, QuietSteps DEF CallerStep
<1>7. ASSUME NEW i \in Instances, Executor(i)
      PROVE  OpInv'
  <2>1. (Inner(i) \/ Outer(i)) /\ ByExecutor
    BY <1>7 DEF Executor, ByExecutor, ivars
  <2>2. CASE InnerObey(i) \/ PausedObey(i)
    <3>1. \E c \in Chans : \E s : Obey(i, c, s) /\ inner[i] \in {"loop", "paused"}
      BY <2>2 DEF InnerObey, PausedObey, Chans
    <3> QED
      BY <1>1, <2>1, <3>1, ObeyMoves
  <2> QED
    BY <1>1, <2>1, <2>2, InnerSendMoves, OuterSendMoves, OuterExitMoves,
       QuietSteps
    DEF Inner, Outer
<1>8. CASE WaitChange \/ SyncChange \/ Forward \/ Monitor \/ Crash
  BY <1>8, WaitChangeMoves, SyncChangeMoves, ForwardMoves, MonitorMoves,
     OpRestart
<1> QED
  BY <1>2, <1>3, <1>4, <1>5, <1>6, <1>7, <1>8 DEF Next

\* The control objects, across crashes.
LEMMA CtrlAgain == EInit' => CInv'
<1>1. EInit => CInv
  BY CtrlInit
<1> QED
  BY <1>1, PTL

\* What a step of the worker does to its executor is a step of the executor,
\* unless the worker crashes.
LEMMA ExecutorMoves ==
  ASSUME WInv, [Next]_vars
  PROVE  [ENext]_evars \/ Crash
<1>1. CASE Enqueuer \/ WaitChange \/ Monitor
  BY <1>1 DEF Enqueuer, TakeTrigger, ListTaskKeys, BatchGetTask, Diff,
              handleException, Enqueue, WaitChange, Monitor, MonitorSet,
              MonitorUpdate, MonitorDone
<1>2. CASE SyncChange
  <2>1. PICK c \in change : ChangeHandle(c) \/ UNCHANGED evars
    BY <1>2 DEF SyncChange
  <2> QED
    BY <2>1, ChangeHandleCalls DEF WInv, PipelineOK
<1>3. CASE SyncerBlocked \/ (\E i \in Instances : Executor(i)) \/ Forward
  BY <1>3 DEF SyncerBlocked, Executor, Forward, ENext
<1>4. CASE RefreshList \/ RefreshPush \/ Shutdown
  BY <1>4 DEF RefreshList, RefreshPush, Shutdown
<1>5. CASE OperateUpdate \/ WatchTrigger \/ ResyncList \/ ResyncSend
  BY <1>5 DEF OperateUpdate, WatchTrigger, ResyncList, ResyncSend
<1>6. ASSUME NEW k \in Keys,
             \/ assignTask(k) \/ Recycle(k)
             \/ \E next \in {Running, Paused, Stop} : OperateTask(k, next)
      PROVE  UNCHANGED evars
  BY <1>6 DEF assignTask, OperateTask, Recycle
<1>7. CASE UNCHANGED vars
  BY <1>7 DEF vars
<1> QED
  BY <1>1, <1>2, <1>3, <1>4, <1>5, <1>6, <1>7 DEF Next

LEMMA ExecutorRestarts ==
  ASSUME Crash
  PROVE  EInit'
BY DEF Crash, EInit

\* Nothing is proved of the executor alone that a worker could spoil: all it
\* does to its executor are calls and steps of the executor, and a crash
\* makes a new one.
THEOREM ExecutorUsedAsPromised == Spec => [][ENext \/ EInit']_evars
<1>1. WInv /\ [Next]_vars => [ENext \/ EInit']_evars
  BY ExecutorMoves, ExecutorRestarts
<1> QED
  BY <1>1, WorkerTypeInit, WorkerTypeStep, PTL DEF Spec

\* While a task answers an operation, no other one is handed to it: the
\* channels of its control object hold one token at most, and the syncer is
\* never blocked on one.  So says a comment in enqueueIfTaskChange; it holds
\* for tasks that end only when told to, without refreshCache, whatever users
\* do and across crashes.
THEOREM OneOperationAtATime ==
  ASSUME AnswersOnly
  PROVE  Spec => []OneOperation
<1> DEFINE Inv == WInv /\ CInv /\ KeyOnce /\ OpInv
<1>1. Init => Inv
  BY WorkerTypeInit, CtrlInit, KeyOnceInit, OpInit DEF Init
<1>2. Inv /\ [Next]_vars => Inv'
  <2> SUFFICES ASSUME Inv, [Next]_vars
               PROVE  Inv'
    OBVIOUS
  <2>1. CInv'
    BY ExecutorMoves, ExecutorRestarts, CtrlStep, CtrlAgain DEF WInv
  <2>2. KeyOnce'
    BY QueueMoves, KeyOnceStep DEF WInv, PipelineOK
  <2> QED
    BY <2>1, <2>2, WorkerTypeStep, OpStep
<1>3. Inv => OneOperation
  <2> SUFFICES ASSUME Inv, NEW i \in Instances
               PROVE  Cardinality(chans[i]) <= 1
    BY DEF OneOperation, OpInv, OneToken
  <2>1. CASE chans[i] = {}
    BY <2>1, FS_EmptySet
  <2>2. CASE chans[i] # {}
    <3>1. PICK c \in chans[i] : TRUE
      BY <2>2
    <3>2. chans[i] = {c}
      BY <3>1 DEF OpInv, OneToken
    <3> QED
      BY <3>2, FS_Singleton
  <2> QED
    BY <2>1, <2>2
<1> QED
  BY <1>1, <1>2, <1>3, PTL DEF Spec
=============================================================================
