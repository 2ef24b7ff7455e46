--------------------------- MODULE WorkerOnceProofs ---------------------------
(***************************************************************************)
(* What is proved of what becomes of a task.  While the cache forgets      *)
(* nothing a task is started once between crashes; a task that is wanted   *)
(* is not killed, but for three reasons; and a final record tells the      *)
(* truth, also when the cache forgets the ends of tasks, whatever users,   *)
(* timers and the repository do and however often the worker crashes.      *)
(***************************************************************************)
EXTENDS WorkerProofs

\* No status is recycled from the cache.
NothingForgotten == "recycle" \notin Activities

\* Task k has been started, by this process.
Made(k) == \E i \in 1..runs : keyOf[i] = k

\* Everything that speaks of a status speaks of a task that was started.
ListedMade == \A k \in Keys : taskStatus[k] # NotExist => Made(k)
SentMade   == \A n \in DOMAIN resultChan : Made(resultChan[n].key)

StatusOfMade ==
  /\ ListedMade /\ SentMade
  /\ \A n \in DOMAIN ch : Made(ch[n].key)
  /\ mon.at # "idle" => Made(mon.ev.key)
  /\ \A k \in DOMAIN refresher : Made(k)
  /\ \A k \in Keys : cache[k] # NotExist => Made(k)

\* The keys a trigger is about to look at stay out of the queue until the
\* enqueuer, and nobody else, adds what it has decided: one change a key.
KeysFree ==
  /\ enq.at \in {"keys", "want", "real"} =>
       \A k \in enq.keys : ~Queue!Exist(k)
  /\ enq.at # "apply" => enq.changes = {}
  /\ \A c, d \in enq.changes : c.key = d.key => c = d

\* No cached status of a key the trigger is about is overlooked.
LooksAtCached ==
  /\ enq.at = "keys" => enq.keys \cap enq.skip = {}
  /\ enq.at \in {"want", "real"} /\ enq.real # {} =>
       enq.keys \cap Cached \subseteq enq.real

\* A create, wherever it has got to, is of a task not started yet.
CreatesFresh ==
  /\ \A c \in enq.changes :
       c.type = "create" => ~Made(c.key) /\ ~Queue!Exist(c.key)
  /\ \A n \in DOMAIN pending :
       pending[n].type = "create" => ~Made(pending[n].key)
  /\ \A c \in change : c.type = "create" => ~Made(c.key) /\ c.key \in active

\* A task that was started is in the cache, or is still being processed and
\* the syncer is through with it.
MadeKnown ==
  /\ \A k \in Keys :
       Made(k) /\ cache[k] = NotExist =>
         k \in active /\ \A c \in change : c.key # k
  /\ mon.at # "idle" => cache[mon.ev.key] # NotExist

OnceInv ==
  /\ StatusOfMade /\ KeysFree /\ LooksAtCached /\ CreatesFresh /\ MadeKnown
  /\ StartedOnce

\* A run that is over, or has told so.
Through(i) ==
  inner[i] \in {"ended", "crashed"} \/ outer[i] \in {"delete", "gone"}

\* No run of task k goes on.
Silent(k) == \A i \in 1..runs : keyOf[i] = k => Through(i)

\* The tasks that were started and whose runs are through.
Over == {k \in Keys : Made(k) /\ Silent(k)}

\* Once a final status of a task is on its way its only run is through.
FinalSent ==
  \A n \in DOMAIN resultChan :
    IsFinalStatus(resultChan[n].status) => resultChan[n].key \in Over

FinalsPassed ==
  /\ \A n \in DOMAIN ch : IsFinalStatus(ch[n].status) => ch[n].key \in Over
  /\ mon.at # "idle" /\ IsFinalStatus(mon.ev.status) => mon.ev.key \in Over

IsCreate(c, k) == c.type = "create" /\ c.key = k

\* The changes on their way to the executor, one of them the create of task k, ...
Way         == enq.changes \cup change \cup {pending[n] : n \in DOMAIN pending}
OnItsWay(k) == \E c \in Way : IsCreate(c, k)

\* ... or may be decided from a record read before.
LooksAt(k) ==
  enq.at = "real" /\ k \in enq.keys /\ ~IsFinalStatus(enq.want[k].status)

Creating(k) == OnItsWay(k) \/ LooksAt(k)

\* Task k ended before a crash: this process has not started it and will not.
Rests(k) == ~Made(k) /\ ~Creating(k)

FinalsRecorded ==
  \A k \in Keys : IsFinalStatus(rec[k].status) => k \in Over \/ Rests(k)

\* The loop of a run does nothing before its outer goroutine has started it.
LoopAwaitsStart ==
  \A i \in Instances : outer[i] \in {"none", "start"} => inner[i] = "none"

FinalInv == LoopAwaitsStart /\ FinalSent /\ FinalsPassed /\ FinalsRecorded
-----------------------------------------------------------------------------
(* What a step changes.                                                    *)

\* As long as it lives the worker makes these steps.
Steps ==
  /\ ~Crash
  /\ \/ Enqueuer \/ WaitChange \/ SyncChange \/ SyncerBlocked
     \/ \E i \in Instances : Executor(i)
     \/ Forward \/ Monitor \/ RefreshList \/ RefreshPush \/ Shutdown
     \/ OperateUpdate \/ WatchTrigger \/ ResyncList \/ ResyncSend
     \/ \E k \in Keys :
          \/ assignTask(k)
          \/ \E next \in {Running, Paused, Stop} : OperateTask(k, next)
     \/ UNCHANGED vars

LEMMA StepKinds ==
  ASSUME [Next]_vars
  PROVE  Steps \/ (\E k \in Keys : Recycle(k)) \/ Crash
BY DEF Next, Steps

LEMMA NothingElse ==
  ASSUME NothingForgotten, [Next]_vars
  PROVE  Steps \/ Crash
<1>1. \A k \in Keys : ~Recycle(k)
  BY DEF Recycle, NothingForgotten
<1> QED
  BY <1>1 DEF Next, Steps

\* Few of them touch the queue, the cache and what goes with them.
Touching == Enqueuer \/ WaitChange \/ SyncChange \/ Monitor

LEMMA FewTouch ==
  ASSUME Steps, ~Touching
  PROVE  UNCHANGED <<keyOf, enq, pending, active, change, cache, mon>>
<1>1. ASSUME NEW k \in Keys,
             \/ assignTask(k)
             \/ \E next \in {Running, Paused, Stop} : OperateTask(k, next)
      PROVE  UNCHANGED <<keyOf, enq, pending, active, change, cache, mon>>
  BY <1>1 DEF assignTask, OperateTask, evars, ivars
<1>2. CASE OperateUpdate \/ WatchTrigger \/ ResyncList \/ ResyncSend
  BY <1>2 DEF OperateUpdate, WatchTrigger, ResyncList, ResyncSend, evars, ivars
<1>3. CASE SyncerBlocked \/ Forward
  BY <1>3 DEF SyncerBlocked, CallerStep, RunSync, RunSend, PutBlocked, Forward,
              Recv, ivars
<1>4. ASSUME NEW i \in Instances, Executor(i)
      PROVE  UNCHANGED <<keyOf, enq, pending, active, change, cache, mon>>
  BY <1>4 DEF Executor, Inner, InnerStart, InnerObey, PausedObey, Obey,
              CallBizLogic, BizLogicReturns, InnerSend, Outer, OuterStart,
              OuterExit, OuterFinish, OuterSend, OuterDelete, ivars
<1>5. CASE RefreshList \/ RefreshPush \/ Shutdown \/ UNCHANGED vars
  BY <1>5 DEF RefreshList, RefreshPush, Shutdown, Queue!Close, vars, ivars, evars
<1> QED
  BY <1>1, <1>2, <1>3, <1>4, <1>5 DEF Steps, Touching

\* The only step that starts a task is the syncer's, with a create.
LEMMA Starts ==
  ASSUME WInv, Steps
  PROVE  \/ keyOf' = keyOf
         \/ \E c \in change : c.type = "create" /\ Run(c.key) /\ change' = {}
                              /\ UNCHANGED <<enq, qvars, cache, mon>>
<1>1. CASE ~Touching
  BY <1>1, FewTouch
<1>2. CASE Enqueuer \/ WaitChange \/ Monitor
  BY <1>2 DEF Enqueuer, TakeTrigger, ListTaskKeys, BatchGetTask, Diff,
              handleException, Enqueue, WaitChange, Monitor, MonitorSet,
              MonitorUpdate, MonitorDone, evars
<1>3. CASE SyncChange
  <2>1. PICK c \in change :
          /\ change' = {}
          /\ (ChangeHandle(c) /\ UNCHANGED qvars) \/ UNCHANGED evars
          /\ UNCHANGED <<enq, cache, mon>>
    BY <1>3 DEF SyncChange
  <2>2. CASE c.type = "create" /\ Run(c.key) /\ UNCHANGED qvars
    BY <2>1, <2>2
  <2>3. CASE UNCHANGED evars
    BY <2>3 DEF evars
  <2>4. CASE ChangeHandle(c) /\ ~(c.type = "create")
    BY <2>4 DEF ChangeHandle, Exit, Pause, Resume, StopTask, Control, Put
  <2> QED
    BY <2>1, <2>2, <2>3, <2>4 DEF ChangeHandle
<1> QED
  BY <1>1, <1>2, <1>3 DEF Touching

\* What has been started stays started.
LEMMA MadeStays ==
  ASSUME WInv, Steps
  PROVE  \A k : Made(k) => Made(k)'
<1>1. CASE keyOf' = keyOf
  BY <1>1 DEF Made, runs
<1>2. ASSUME NEW c \in change, Run(c.key)
      PROVE  \A k : Made(k) => Made(k)'
  <2>1. c.key \in Keys
    BY DEF WInv, PipelineOK, Changes
  <2> QED
    BY <1>2, <2>1, RunMakes DEF WInv, Made
<1> QED
  BY <1>1, <1>2, Starts

LEMMA MadeByRun ==
  ASSUME TInv, NEW k \in Keys, Run(k)
  PROVE  \A j : Made(j)' <=> Made(j) \/ j = k
<1>1. /\ runs \in Nat /\ runs' = runs + 1
      /\ \A i \in 1..runs : keyOf'[i] = keyOf[i]
      /\ keyOf'[runs + 1] = k
  BY RunMakes
<1> QED
  BY <1>1 DEF Made
-----------------------------------------------------------------------------
(* The queue and the enqueuer.                                             *)

\* Only Enqueue makes the queue know a key.
LEMMA KnownBefore ==
  ASSUME WInv, Steps, ~Enqueue, NEW k, Queue!Exist(k)'
  PROVE  Queue!Exist(k)
<1>1. CASE UNCHANGED <<pending, active>>
  BY <1>1 DEF Queue!Exist, Queue!PendingKeys, Queue!KeyOf
<1>2. CASE WaitChange
  <2>1. /\ pending # <<>> /\ pending' = Tail(pending)
        /\ active' = active \cup {pending[1].key}
    BY <1>2 DEF WaitChange, Queue!Take, Queue!KeyOf
  <2>2. pending \in Seq(Changes)
    BY DEF WInv, PipelineOK
  <2>3. 1 \in DOMAIN pending
    BY <2>1, <2>2
  <2>4. \A n \in DOMAIN pending' :
          n + 1 \in DOMAIN pending /\ pending'[n] = pending[n + 1]
    BY <2>1, <2>2
  <2> QED
    BY <2>1, <2>3, <2>4 DEF Queue!Exist, Queue!PendingKeys, Queue!KeyOf
<1>3. CASE UNCHANGED pending /\ active' \subseteq active
  BY <1>3 DEF Queue!Exist, Queue!PendingKeys, Queue!KeyOf
<1>4. CASE SyncChange \/ MonitorDone
  BY <1>3, <1>4 DEF SyncChange, MonitorDone, Queue!Finish, qvars
<1>5. CASE TakeTrigger \/ ListTaskKeys \/ BatchGetTask \/ Diff \/ handleException
  BY <1>1, <1>5 DEF TakeTrigger, ListTaskKeys, BatchGetTask, Diff, handleException
<1>6. CASE MonitorSet \/ MonitorUpdate
  BY <1>1, <1>6 DEF MonitorSet, MonitorUpdate
<1>7. CASE ~Touching
  BY <1>1, <1>7, FewTouch
<1> QED
  BY <1>2, <1>4, <1>5, <1>6, <1>7 DEF Touching, Enqueuer, Monitor

\* Enqueue makes it know the key of the change it adds, and no other.
LEMMA EnqueueKnows ==
  ASSUME WInv, Enqueue
  PROVE  \E c \in enq.changes :
           /\ enq' = WithoutChange(c)
           /\ \A k : Queue!Exist(k)' => Queue!Exist(k) \/ k = c.key
           /\ \A n \in DOMAIN pending' :
                \/ n \in DOMAIN pending /\ pending'[n] = pending[n]
                \/ pending'[n] = c
           /\ UNCHANGED <<keyOf, active, change, cache, mon>>
<1>1. PICK c \in enq.changes :
        /\ enq' = WithoutChange(c)
        /\ IF Queue!Accepts(c) THEN Queue!Offer(c) ELSE UNCHANGED qvars
        /\ UNCHANGED <<keyOf, change, cache, mon>>
  BY DEF Enqueue, evars
<1>2. CASE UNCHANGED qvars
  BY <1>1, <1>2 DEF qvars, Queue!Exist, Queue!PendingKeys, Queue!KeyOf
<1>3. CASE Queue!Offer(c)
  <2>1. pending' = Append(pending, c) /\ active' = active
    BY <1>3 DEF Queue!Offer
  <2>2. pending \in Seq(Changes)
    BY DEF WInv, PipelineOK
  <2>3. \A n \in DOMAIN pending' :
          \/ n \in DOMAIN pending /\ pending'[n] = pending[n]
          \/ pending'[n] = c
    BY <2>1, <2>2
  <2> QED
    BY <1>1, <2>1, <2>3 DEF Queue!Exist, Queue!PendingKeys, Queue!KeyOf
<1> QED
  BY <1>1, <1>2, <1>3

\* What is left to apply.
LEMMA Leftover ==
  ASSUME WInv, NEW c \in enq.changes, enq' = WithoutChange(c), enq.at = "apply"
  PROVE  /\ enq'.at \in {"idle", "apply"}
         /\ enq'.changes = enq.changes \ {c}
         /\ enq'.at = "idle" => enq'.changes = {}
BY DEF WInv, EnqOK, WithoutChange, IdleEnq

\* The diff decides one change a key, and a create only for a task that is
\* wanted, not recorded as final and not in the cache, or not looked at there.
LEMMA Decides ==
  ASSUME WInv, Diff
  PROVE  /\ enq'.at # "apply" => enq'.changes = {}
         /\ enq'.at \in {"idle", "apply"}
         /\ \A c, d \in enq'.changes : c.key = d.key => c = d
         /\ \A c \in enq'.changes :
              c.type = "create" =>
                /\ c.key \in enq.keys /\ ~IsFinalStatus(enq.want[c.key].status)
                /\ enq.want[c.key].want = Running
                /\ \/ cache[c.key] = NotExist
                   \/ enq.real # {} /\ c.key \notin enq.real
<1> DEFINE real      == ListTasks(enq.real)
           status(k) == IF k \in real THEN cache[k] ELSE NotExist
           of(k)     == diff(k, enq.want, k \in enq.keys, status(k))
           changes   == UNION {of(k) : k \in enq.keys \cup real}
<1>1. enq.keys \cup real \subseteq Keys /\ real \subseteq Cached
  BY DEF ListTasks, Cached, WInv, EnqOK
<1>2. ASSUME NEW k \in enq.keys \cup real, NEW c \in of(k)
      PROVE  /\ c.key = k
             /\ \A d \in of(k) : d = c
             /\ k \in enq.keys => ~IsFinalStatus(enq.want[k].status)
             /\ c.type = "create" => /\ k \in enq.keys /\ status(k) = NotExist
                                     /\ enq.want[k].want = Running
  <2>1. k \in Keys
    BY <1>1
  <2>2. /\ c.key = k /\ \A d \in of(k) : d = c
        /\ c.type = GetChangeType(status(k),
                      IF k \in enq.keys THEN enq.want[k].want ELSE NotExist)
        /\ k \in enq.keys => ~IsFinalStatus(enq.want[k].status)
    <3> DEFINE st     == status(k)
               wanted == k \in enq.keys
    <3>1. c \in diff(k, enq.want, wanted, st)
      BY <1>2
    <3>2. of(k) = diff(k, enq.want, wanted, st)
      OBVIOUS
    <3> HIDE DEF st, wanted, of
    <3>3. /\ c.key = k /\ \A d \in diff(k, enq.want, wanted, st) : d = c
          /\ c.type = GetChangeType(st, IF wanted THEN enq.want[k].want ELSE NotExist)
          /\ wanted => ~IsFinalStatus(enq.want[k].status)
      BY <2>1, <3>1, DiffTypes
    <3> QED
      BY <3>2, <3>3 DEF st, wanted
  <2>3. ASSUME c.type = "create"
        PROVE  /\ status(k) = NotExist /\ k \in enq.keys
               /\ enq.want[k].want = Running
    <3> DEFINE st == status(k)
               w  == IF k \in enq.keys THEN enq.want[k].want ELSE NotExist
    <3>1. GetChangeType(st, w) = "create"
      BY <2>2, <2>3
    <3> HIDE DEF st, w
    <3>2. st = NotExist /\ w = Running
      BY <3>1, CreateRule
    <3> QED
      BY <3>2 DEF st, w, NotExist, Running
  <2> QED
    BY <2>2, <2>3
<1>3. \A c \in changes : \E k \in enq.keys \cup real : c \in of(k)
  OBVIOUS
<1>4. enq' = IF changes = {} THEN IdleEnq
               ELSE [IdleEnq EXCEPT !.at = "apply", !.changes = changes]
  BY DEF Diff
<1> HIDE DEF of, changes
<1>5. /\ \A c, d \in changes : c.key = d.key => c = d
      /\ \A c \in changes : c.type = "create" =>
           /\ c.key \in enq.keys /\ ~IsFinalStatus(enq.want[c.key].status)
           /\ enq.want[c.key].want = Running /\ status(c.key) = NotExist
  BY <1>2, <1>3
<1>6. ASSUME NEW k \in enq.keys, status(k) = NotExist
      PROVE  cache[k] = NotExist \/ (enq.real # {} /\ k \notin enq.real)
  <2>1. k \in Keys
    BY <1>1
  <2>2. CASE k \in real
    BY <1>6, <2>2
  <2>3. CASE k \notin real
    BY <2>1, <2>3 DEF ListTasks, Cached
  <2> QED
    BY <2>2, <2>3
<1>7. \A c \in changes : c.type = "create" =>
        /\ c.key \in enq.keys /\ ~IsFinalStatus(enq.want[c.key].status)
        /\ enq.want[c.key].want = Running
        /\ \/ cache[c.key] = NotExist
           \/ enq.real # {} /\ c.key \notin enq.real
  BY <1>5, <1>6
<1> HIDE DEF real, status
<1>8. enq'.changes = changes /\ enq'.at = (IF changes = {} THEN "idle" ELSE "apply")
  BY <1>4 DEF IdleEnq
<1> QED
  BY <1>5, <1>7, <1>8

\* While no cached status is overlooked the task is not in the cache.
LEMMA Decided ==
  ASSUME WInv, LooksAtCached, Diff
  PROVE  /\ enq'.at # "apply" => enq'.changes = {}
         /\ enq'.at \in {"idle", "apply"}
         /\ \A c, d \in enq'.changes : c.key = d.key => c = d
         /\ \A c \in enq'.changes :
              c.type = "create" =>
                /\ c.key \in enq.keys /\ ~IsFinalStatus(enq.want[c.key].status)
                /\ cache[c.key] = NotExist
<1>1. ASSUME NEW k \in enq.keys, enq.real # {}, k \notin enq.real
      PROVE  cache[k] = NotExist
  <2>1. enq.at = "real" /\ k \in Keys
    BY <1>1 DEF Diff, WInv, EnqOK
  <2> QED
    BY <1>1, <2>1 DEF LooksAtCached, Cached
<1> QED
  BY <1>1, Decides
-----------------------------------------------------------------------------
(* The invariants, one after the other.                                    *)

\* The enqueuer looks on, or gives the trigger up.
LEMMA LooksOn ==
  ASSUME WInv, ListTaskKeys \/ BatchGetTask
  PROVE  /\ \/ enq'.at = "idle" /\ enq'.changes = {}
            \/ /\ enq'.keys = enq.keys /\ enq'.changes = enq.changes
               /\ enq'.skip = enq.skip
               /\ \/ /\ ListTaskKeys /\ enq'.at = "want"
                     /\ enq'.real = IF enq.resync THEN Cached \ enq.skip
                                                  ELSE enq.keys
                  \/ /\ BatchGetTask /\ enq'.at = "real"
                     /\ enq'.real = enq.real
                     /\ enq'.want = [k \in enq.keys |-> rec[k]]
         /\ enq.at \in {"keys", "want"} /\ ~Enqueue /\ cache' = cache
<1>1. IdleEnq.at = "idle" /\ IdleEnq.changes = {}
  BY DEF IdleEnq
<1>2. EnqOK
  BY DEF WInv
<1>3. CASE ListTaskKeys
  <2> DEFINE real == IF enq.resync THEN Cached \ enq.skip ELSE enq.keys
  <2>1. /\ enq' = IdleEnq \/ enq' = [enq EXCEPT !.at = "want", !.real = real]
        /\ enq.at = "keys" /\ cache' = cache /\ ~Enqueue
    BY <1>3 DEF ListTaskKeys, Enqueue
  <2> HIDE DEF real
  <2>2. ASSUME enq' = [enq EXCEPT !.at = "want", !.real = real]
        PROVE  /\ enq'.at = "want" /\ enq'.real = real
               /\ enq'.keys = enq.keys /\ enq'.changes = enq.changes
               /\ enq'.skip = enq.skip
    BY <1>2, <2>2 DEF EnqOK
  <2> QED
    BY <1>1, <1>3, <2>1, <2>2 DEF real
<1>4. CASE BatchGetTask
  <2> DEFINE want == [k \in enq.keys |-> rec[k]]
  <2>1. /\ enq' = IdleEnq \/ enq' = [enq EXCEPT !.at = "real", !.want = want]
        /\ enq.at = "want" /\ cache' = cache /\ ~Enqueue
    BY <1>4 DEF BatchGetTask, Enqueue
  <2> HIDE DEF want
  <2>2. ASSUME enq' = [enq EXCEPT !.at = "real", !.want = want]
        PROVE  /\ enq'.at = "real" /\ enq'.real = enq.real /\ enq'.want = want
               /\ enq'.keys = enq.keys /\ enq'.changes = enq.changes
               /\ enq'.skip = enq.skip
    BY <1>2, <2>2 DEF EnqOK
  <2> QED
    BY <1>1, <1>4, <2>1, <2>2 DEF want
<1> QED
  BY <1>3, <1>4

LEMMA KeysFreeStep ==
  ASSUME WInv, Steps, KeysFree
  PROVE  KeysFree'
<1>1. ASSUME UNCHANGED enq, ~Enqueue
      PROVE  KeysFree'
  BY <1>1, KnownBefore DEF KeysFree
<1>2. CASE TakeTrigger
  <2> DEFINE t == Head(tasksCh)
             skip == {k \in t.keys : Queue!Exist(k)}
  <2>1. /\ enq' = [IdleEnq EXCEPT !.at = "keys", !.resync = t.resync,
                                  !.keys = t.keys \ skip, !.skip = skip]
        /\ ~Enqueue
    BY <1>2 DEF TakeTrigger, Enqueue
  <2>2. \A k \in t.keys \ skip : ~Queue!Exist(k)
    OBVIOUS
  <2> HIDE DEF skip, t
  <2>3. enq'.keys = t.keys \ skip /\ enq'.changes = {} /\ enq'.at = "keys"
    BY <2>1 DEF IdleEnq
  <2> QED
    BY <2>1, <2>2, <2>3, KnownBefore DEF KeysFree
<1>3. CASE ListTaskKeys \/ BatchGetTask
  BY <1>3, LooksOn, KnownBefore DEF KeysFree
<1>4. CASE Diff
  <2>1. /\ enq'.at # "apply" => enq'.changes = {}
        /\ enq'.at \in {"idle", "apply"}
        /\ \A c, d \in enq'.changes : c.key = d.key => c = d
    BY <1>4, Decides
  <2> QED
    BY <2>1 DEF KeysFree
<1>5. CASE handleException \/ Enqueue
  <2>1. PICK c \in enq.changes : enq' = WithoutChange(c) /\ enq.at = "apply"
    BY <1>5 DEF handleException, Enqueue, Exceptions
  <2>2. /\ enq'.at \in {"idle", "apply"}
        /\ enq'.changes = enq.changes \ {c}
        /\ enq'.at = "idle" => enq'.changes = {}
    BY <2>1, Leftover
  <2> QED
    BY <2>2 DEF KeysFree
<1>6. CASE WaitChange \/ SyncChange \/ Monitor
  <2>1. UNCHANGED enq
    BY <1>6 DEF WaitChange, SyncChange, Monitor, MonitorSet, MonitorUpdate,
                MonitorDone
  <2>2. CASE Enqueue
    BY <1>5, <2>2
  <2> QED
    BY <1>1, <2>1, <2>2
<1>7. CASE ~Touching
  BY <1>1, <1>7, FewTouch DEF Touching, Enqueuer
<1> QED
  BY <1>2, <1>3, <1>4, <1>5, <1>6, <1>7 DEF Touching, Enqueuer

\* A key enters the cache with an event of it, hence while it is processed:
\* it is none of those the enqueuer looks at.
LEMMA LooksAtCachedStep ==
  ASSUME WInv, Steps, KeysFree, LooksAtCached, MadeKnown, StatusOfMade
  PROVE  LooksAtCached'
<1>1. CASE TakeTrigger
  <2> DEFINE t == Head(tasksCh)
             skip == {k \in t.keys : Queue!Exist(k)}
  <2>1. enq' = [IdleEnq EXCEPT !.at = "keys", !.resync = t.resync,
                               !.keys = t.keys \ skip, !.skip = skip]
    BY <1>1 DEF TakeTrigger
  <2> HIDE DEF skip, t
  <2>2. enq'.keys = t.keys \ skip /\ enq'.skip = skip /\ enq'.at = "keys"
    BY <2>1 DEF IdleEnq
  <2> QED
    BY <2>2 DEF LooksAtCached
<1>2. CASE ListTaskKeys
  <2>1. /\ \/ enq'.at = "idle"
           \/ /\ enq'.at = "want" /\ enq'.keys = enq.keys
              /\ enq'.real = IF enq.resync THEN Cached \ enq.skip ELSE enq.keys
        /\ enq.at = "keys" /\ Cached' = Cached
    BY <1>2, LooksOn DEF ListTaskKeys, Cached, BatchGetTask
  <2> QED
    BY <2>1 DEF LooksAtCached
<1>3. CASE BatchGetTask
  <2>1. /\ \/ enq'.at = "idle"
           \/ enq'.at = "real" /\ enq'.keys = enq.keys /\ enq'.real = enq.real
        /\ enq.at = "want" /\ Cached' = Cached
    BY <1>3, LooksOn DEF ListTaskKeys, Cached, BatchGetTask
  <2> QED
    BY <2>1 DEF LooksAtCached
<1>4. CASE Diff
  <2>1. enq'.at \in {"idle", "apply"}
    BY <1>4, Decided
  <2> QED
    BY <2>1 DEF LooksAtCached
<1>5. CASE handleException \/ Enqueue
  <2>1. PICK c \in enq.changes : enq' = WithoutChange(c) /\ enq.at = "apply"
    BY <1>5 DEF handleException, Enqueue, Exceptions
  <2>2. enq'.at \in {"idle", "apply"}
    BY <2>1, Leftover
  <2> QED
    BY <2>2 DEF LooksAtCached
<1>6. CASE MonitorSet
  <2>1. /\ ch # <<>> /\ UNCHANGED enq
        /\ cache' = [cache EXCEPT ![Head(ch).key] = Head(ch).status]
    BY <1>6 DEF MonitorSet
  <2> DEFINE k == Head(ch).key
  <2>2. 1 \in DOMAIN ch /\ Head(ch) = ch[1] /\ k \in Keys
    BY <2>1, EventStatus DEF WInv, PipelineOK
  <2>3. Made(k)
    BY <2>2 DEF StatusOfMade
  <2>4. k \notin Cached => k \in active
    BY <2>2, <2>3 DEF MadeKnown, Cached
  <2>5. Cached' \subseteq Cached \cup {k}
    BY <2>1, <2>2 DEF Cached, WInv, PipelineOK
  <2>6. enq.at \in {"want", "real"} /\ k \in enq.keys => k \in Cached
    BY <2>4 DEF KeysFree, Queue!Exist
  <2> HIDE DEF k
  <2> QED
    BY <2>1, <2>5, <2>6 DEF LooksAtCached
<1>7. ASSUME UNCHANGED <<enq, cache>>
      PROVE  LooksAtCached'
  BY <1>7 DEF LooksAtCached, Cached
<1>8. CASE WaitChange \/ SyncChange \/ MonitorUpdate \/ MonitorDone
  BY <1>7, <1>8 DEF WaitChange, SyncChange, MonitorUpdate, MonitorDone
<1>9. CASE ~Touching
  BY <1>7, <1>9, FewTouch
<1> QED
  BY <1>1, <1>2, <1>3, <1>4, <1>5, <1>6, <1>8, <1>9
  DEF Touching, Enqueuer, Monitor

\* A create is decided for a key that is neither cached nor in the queue,
\* hence not started; it is the enqueuer that brings it into the queue.
LEMMA CreatesFreshStep ==
  ASSUME WInv, KeyOnce, Steps, KeysFree, LooksAtCached, CreatesFresh,
         MadeKnown, StatusOfMade
  PROVE  CreatesFresh'
<1>1. ASSUME NEW c \in change, c.type = "create", Run(c.key), change' = {},
             UNCHANGED <<enq, qvars>>
      PROVE  CreatesFresh'
  <2>1. c.key \in Keys /\ c.key \in active /\ TInv
    BY <1>1 DEF WInv, PipelineOK, CreatesFresh
  <2>2. \A j : Made(j)' <=> Made(j) \/ j = c.key
    BY <1>1, <2>1, MadeByRun
  <2>3. /\ UNCHANGED <<enq, pending, active>>
        /\ \A k : Queue!Exist(k)' <=> Queue!Exist(k)
    BY <1>1 DEF qvars, Queue!Exist, Queue!PendingKeys, Queue!KeyOf
  <2>4. \A n \in DOMAIN pending : pending[n].key # c.key
    BY <2>1 DEF KeyOnce
  <2>5. \A d \in enq.changes : d.type = "create" => d.key # c.key
    BY <2>1 DEF CreatesFresh, Queue!Exist
  <2> QED
    BY <1>1, <2>2, <2>3, <2>4, <2>5 DEF CreatesFresh
<1>2. ASSUME keyOf' = keyOf
      PROVE  \A k : Made(k)' <=> Made(k)
  BY <1>2 DEF Made, runs
<1>3. CASE Enqueue
  <2>1. PICK c \in enq.changes :
          /\ enq' = WithoutChange(c)
          /\ \A k : Queue!Exist(k)' => Queue!Exist(k) \/ k = c.key
          /\ \A n \in DOMAIN pending' :
               \/ n \in DOMAIN pending /\ pending'[n] = pending[n]
               \/ pending'[n] = c
          /\ UNCHANGED <<keyOf, active, change, cache, mon>>
    BY <1>3, EnqueueKnows
  <2>2. enq'.changes = enq.changes \ {c}
    BY <1>3, <2>1, Leftover DEF Enqueue
  <2> QED
    BY <1>2, <2>1, <2>2 DEF CreatesFresh, KeysFree
<1>4. ASSUME ~Enqueue, keyOf' = keyOf, enq'.changes \subseteq enq.changes,
             UNCHANGED pending,
             \A c \in change' : c.type = "create" => c \in change /\ c.key \in active'
      PROVE  CreatesFresh'
  BY <1>2, <1>4, KnownBefore DEF CreatesFresh
<1>5. CASE handleException
  <2>1. PICK c \in enq.changes : enq' = WithoutChange(c) /\ enq.at = "apply"
    BY <1>5 DEF handleException, Exceptions
  <2>2. enq'.changes = enq.changes \ {c}
    BY <2>1, Leftover
  <2>3. UNCHANGED <<keyOf, pending, active, change>> /\ ~Enqueue
    BY <1>5 DEF handleException, Enqueue, evars
  <2> QED
    BY <1>4, <2>2, <2>3 DEF CreatesFresh
<1>6. CASE TakeTrigger \/ ListTaskKeys \/ BatchGetTask
  <2>1. UNCHANGED <<keyOf, pending, active, change>> /\ ~Enqueue
    BY <1>6 DEF TakeTrigger, ListTaskKeys, BatchGetTask, Enqueue, evars
  <2>2. enq'.changes = {}
    <3>1. CASE TakeTrigger
      BY <3>1 DEF TakeTrigger, IdleEnq
    <3>2. CASE ListTaskKeys \/ BatchGetTask
      BY <3>2, LooksOn DEF KeysFree
    <3> QED
      BY <1>6, <3>1, <3>2
  <2> QED
    BY <1>4, <2>1, <2>2 DEF CreatesFresh
<1>7. CASE Diff
  <2>1. \A c \in enq'.changes :
          c.type = "create" => c.key \in enq.keys /\ cache[c.key] = NotExist
    BY <1>7, Decided
  <2>2. \A k \in enq.keys : ~Queue!Exist(k) /\ k \in Keys
    BY <1>7 DEF Diff, KeysFree, WInv, EnqOK
  <2>3. \A k \in enq.keys : cache[k] = NotExist => ~Made(k)
    BY <2>2 DEF MadeKnown, Queue!Exist
  <2>4. UNCHANGED <<keyOf, pending, active, change>> /\ ~Enqueue
    BY <1>7 DEF Diff, Enqueue, evars
  <2> QED
    BY <1>2, <2>1, <2>2, <2>3, <2>4, KnownBefore DEF CreatesFresh
<1>8. CASE WaitChange
  <2>1. /\ pending # <<>> /\ pending' = Tail(pending)
        /\ active' = active \cup {pending[1].key}
        /\ change' = {pending[1]}
        /\ UNCHANGED <<enq, keyOf>>
    BY <1>8 DEF WaitChange, Queue!Take, Queue!KeyOf, evars
  <2>2. pending \in Seq(Changes)
    BY DEF WInv, PipelineOK
  <2>3. 1 \in DOMAIN pending
    BY <2>1, <2>2
  <2>4. \A n \in DOMAIN pending' :
          n + 1 \in DOMAIN pending /\ pending'[n] = pending[n + 1]
    BY <2>1, <2>2
  <2>5. \A k : Queue!Exist(k)' => Queue!Exist(k)
    BY <1>8, KnownBefore DEF WaitChange, Enqueue, qvars, Queue!Take
  <2> QED
    BY <1>2, <2>1, <2>3, <2>4, <2>5 DEF CreatesFresh
<1>9. CASE SyncChange
  <2>1. change' = {} /\ UNCHANGED <<enq, pending>>
    BY <1>9 DEF SyncChange, qvars, Queue!Finish
  <2> QED
    BY <1>1, <1>3, <1>4, <1>9, <2>1, Starts DEF CreatesFresh
<1>10. CASE Monitor
  <2>1. /\ UNCHANGED <<keyOf, enq, pending, change>>
        /\ active' = active \/ MonitorDone
    BY <1>10 DEF Monitor, MonitorSet, MonitorUpdate, MonitorDone, evars,
                 Queue!Finish
  <2>2. ASSUME MonitorDone, NEW c \in change, c.type = "create"
        PROVE  c.key \in active'
    <3>1. Made(mon.ev.key) /\ active' = active \ {mon.ev.key}
      BY <2>2 DEF MonitorDone, StatusOfMade, Queue!Finish
    <3>2. ~Made(c.key) /\ c.key \in active
      BY <2>2 DEF CreatesFresh
    <3> QED
      BY <3>1, <3>2
  <2> QED
    BY <1>3, <1>4, <2>1, <2>2 DEF CreatesFresh
<1>11. CASE ~Touching
  <2>1. UNCHANGED <<keyOf, enq, pending, active, change>> /\ ~Enqueue
    BY <1>11, FewTouch DEF Touching, Enqueuer
  <2> QED
    BY <1>4, <2>1 DEF CreatesFresh
<1> QED
  BY <1>3, <1>5, <1>6, <1>7, <1>8, <1>9, <1>10, <1>11 DEF Touching, Enqueuer

\* A change leaves the processing set only when an event of its task has set
\* the cache, or when the executor refuses it.
LEMMA MadeKnownStep ==
  ASSUME WInv, KeyOnce, Steps, CreatesFresh, MadeKnown, StatusOfMade
  PROVE  MadeKnown'
<1>1. ASSUME NEW c \in change, c.type = "create", Run(c.key), change' = {},
             UNCHANGED <<enq, qvars, cache, mon>>
      PROVE  MadeKnown'
  <2>1. c.key \in Keys /\ c.key \in active /\ TInv
    BY <1>1 DEF WInv, PipelineOK, CreatesFresh
  <2>2. \A j : Made(j)' <=> Made(j) \/ j = c.key
    BY <1>1, <2>1, MadeByRun
  <2> QED
    BY <1>1, <2>1, <2>2 DEF MadeKnown, qvars
<1>2. ASSUME keyOf' = keyOf
      PROVE  \A k : Made(k)' <=> Made(k)
  BY <1>2 DEF Made, runs
<1>3. ASSUME UNCHANGED <<keyOf, cache, mon, active, change>>
      PROVE  MadeKnown'
  BY <1>2, <1>3 DEF MadeKnown
<1>4. CASE Enqueuer
  BY <1>3, <1>4, EnqueueKnows
  DEF Enqueuer, TakeTrigger, ListTaskKeys, BatchGetTask, Diff, handleException,
      evars
<1>5. CASE WaitChange
  <2>1. /\ pending # <<>> /\ change' = {pending[1]}
        /\ active' = active \cup {pending[1].key}
        /\ UNCHANGED <<keyOf, cache, mon>>
    BY <1>5 DEF WaitChange, Queue!Take, Queue!KeyOf, evars
  <2>2. pending \in Seq(Changes)
    BY DEF WInv, PipelineOK
  <2>3. pending[1].key \notin active
    BY <2>1, <2>2 DEF KeyOnce
  <2> QED
    BY <1>2, <2>1, <2>3 DEF MadeKnown
<1>6. CASE SyncChange /\ keyOf' = keyOf
  <2>1. PICK c \in change :
          /\ change' = {} /\ UNCHANGED <<cache, mon>>
          /\ active' = active \/ active' = active \ {c.key}
    BY <1>6 DEF SyncChange, Queue!Finish, qvars
  <2> QED
    BY <1>2, <1>6, <2>1 DEF MadeKnown
<1>7. CASE SyncChange /\ keyOf' # keyOf
  BY <1>1, <1>7, Starts
<1>8. CASE MonitorSet
  <2>1. /\ ch # <<>> /\ UNCHANGED <<keyOf, active, change>>
        /\ cache' = [cache EXCEPT ![Head(ch).key] = Head(ch).status]
        /\ mon' = [at |-> "update", ev |-> Head(ch)]
    BY <1>8 DEF MonitorSet, evars
  <2>2. Head(ch) \in Event
    BY <2>1 DEF WInv, PipelineOK
  <2>3. Head(ch).key \in Keys /\ Head(ch).status # NotExist
    BY <2>2, EventStatus, StatusFacts DEF Reported
  <2>4. cache \in [Keys -> LiveStatuses \cup FinalStatuses \cup {NotExist}]
    BY DEF WInv, PipelineOK
  <2>5. \A k \in Keys : cache'[k] = NotExist => cache[k] = NotExist
    BY <2>1, <2>3, <2>4
  <2>6. cache'[mon'.ev.key] # NotExist
    BY <2>1, <2>3, <2>4
  <2> QED
    BY <1>2, <2>1, <2>5, <2>6 DEF MadeKnown
<1>9. CASE MonitorUpdate
  <2>1. /\ UNCHANGED <<keyOf, active, change, cache>> /\ mon.at # "idle"
        /\ mon' = [mon EXCEPT !.at = "done"]
    BY <1>9 DEF MonitorUpdate, evars
  <2>2. mon'.ev = mon.ev
    BY <2>1 DEF WInv, MonOK
  <2> QED
    BY <1>2, <2>1, <2>2 DEF MadeKnown
<1>10. CASE MonitorDone
  <2>1. /\ UNCHANGED <<keyOf, change, cache>> /\ mon.at # "idle"
        /\ active' = active \ {mon.ev.key} /\ mon'.at = "idle"
    BY <1>10 DEF MonitorDone, Queue!Finish, IdleMon, evars
  <2> QED
    BY <1>2, <2>1 DEF MadeKnown
<1>11. CASE ~Touching
  BY <1>3, <1>11, FewTouch
<1> QED
  BY <1>4, <1>5, <1>6, <1>7, <1>8, <1>9, <1>10, <1>11 DEF Touching, Monitor

\* A create is carried out for a task not started yet.
LEMMA StartedOnceStep ==
  ASSUME WInv, Steps, CreatesFresh, StartedOnce
  PROVE  StartedOnce'
<1>1. CASE keyOf' = keyOf
  BY <1>1 DEF StartedOnce, runs
<1>2. ASSUME NEW c \in change, c.type = "create", Run(c.key)
      PROVE  StartedOnce'
  <2>1. c.key \in Keys /\ TInv /\ ~Made(c.key)
    BY <1>2 DEF WInv, PipelineOK, Changes, CreatesFresh
  <2>2. /\ runs \in Nat /\ runs' = runs + 1
        /\ \A i \in 1..runs : keyOf'[i] = keyOf[i]
        /\ keyOf'[runs + 1] = c.key
    BY <1>2, <2>1, RunMakes
  <2>3. \A i \in 1..runs' : i \in 1..runs \/ i = runs + 1
    BY <2>2
  <2>4. \A i \in 1..runs : keyOf[i] # c.key
    BY <2>1 DEF Made
  <2> QED
    BY <2>2, <2>3, <2>4 DEF StartedOnce
<1> QED
  BY <1>1, <1>2, Starts
-----------------------------------------------------------------------------
\* The executor sets and sends statuses of the tasks it was given.
LEMMA ExecutorSpeaks ==
  ASSUME TInv, [ENext]_evars, ListedMade, SentMade
  PROVE  ListedMade' /\ SentMade'
<1> USE DEF ListedMade, SentMade
<1> DEFINE Set  == \A k \in Keys : taskStatus'[k] # NotExist => Made(k)
           Events == \A n \in DOMAIN resultChan' : Made(resultChan'[n].key)
<1>1. ASSUME NEW k \in Keys, Run(k)
      PROVE  ListedMade' /\ SentMade'
  <2>1. \A j : Made(j)' <=> Made(j) \/ j = k
    BY <1>1, MadeByRun
  <2>2. /\ resultChan' = resultChan
        /\ \A j \in Keys \ {k} : taskStatus'[j] = taskStatus[j]
    BY <1>1 DEF Run, setTaskStatus, WithStatus, TInv, ETypeOK
  <2> QED
    BY <2>1, <2>2
<1>2. ASSUME keyOf' = keyOf, Set, Events
      PROVE  ListedMade' /\ SentMade'
  BY <1>2 DEF Made, runs
<1>3. (taskStatus' = taskStatus => Set) /\ (resultChan' = resultChan => Events)
  OBVIOUS
<1>4. ASSUME NEW k \in Keys, Made(k), NEW s, setTaskStatus(k, s)
      PROVE  Set
  BY <1>4 DEF setTaskStatus, WithStatus, TInv, ETypeOK
<1>5. ASSUME NEW k \in Keys, Made(k), NEW s, Send(k, s)
      PROVE  Events
  <2>1. resultChan' = Append(resultChan, [key |-> k, status |-> s])
    BY <1>5 DEF Send
  <2>2. \E S : resultChan \in Seq(S)
    BY DEF TInv, ETypeOK
  <2>3. \A n \in DOMAIN resultChan' :
          \/ n \in DOMAIN resultChan /\ resultChan'[n] = resultChan[n]
          \/ resultChan'[n] = [key |-> k, status |-> s]
    BY <2>1, <2>2
  <2> QED
    BY <1>5, <2>3
<1> HIDE DEF ListedMade, SentMade, Set, Events
<1>6. ASSUME NEW k \in Keys, Call(k), ~Run(k)
      PROVE  ListedMade' /\ SentMade'
  <2>1. UNCHANGED <<keyOf, taskStatus, resultChan>>
    BY <1>6 DEF Call, Exit, StopTask, Pause, Resume, Control, Put
  <2> QED
    BY <1>2, <1>3, <2>1
<1>7. CASE CallerStep
  <2>1. ASSUME caller.at \in {"runSync", "runSend"}
        PROVE  keyOf[caller.inst] \in Keys /\ Made(keyOf[caller.inst])
    <3>1. caller.inst \in 1..runs /\ ETypeOK
      BY <2>1 DEF TInv, CallerRuns
    <3> QED
      BY <3>1, KeyOfRun DEF Made
  <2>2. CASE RunSync
    BY <1>2, <1>4, <1>3, <2>1, <2>2 DEF RunSync
  <2>3. CASE RunSend
    BY <1>2, <1>5, <1>3, <2>1, <2>3 DEF RunSend
  <2>4. CASE PutBlocked
    BY <1>2, <1>3, <2>4 DEF PutBlocked
  <2> QED
    BY <1>7, <2>2, <2>3, <2>4 DEF CallerStep
<1>8. CASE Recv
  <2>1. resultChan # <<>> /\ resultChan' = Tail(resultChan)
        /\ UNCHANGED <<keyOf, taskStatus>>
    BY <1>8 DEF Recv
  <2>2. \E S : resultChan \in Seq(S)
    BY DEF TInv, ETypeOK
  <2>3. \A n \in DOMAIN resultChan' :
          n + 1 \in DOMAIN resultChan /\ resultChan'[n] = resultChan[n + 1]
    BY <2>1, <2>2
  <2>4. Events
    BY <2>3 DEF Events, SentMade
  <2> QED
    BY <1>2, <1>3, <2>1, <2>4
<1>9. ASSUME NEW i \in Instances, Inner(i) \/ Outer(i)
      PROVE  ListedMade' /\ SentMade'
  <2>1. inner[i] # "none" \/ outer[i] # "none"
    BY <1>9 DEF Inner, InnerStart, InnerObey, PausedObey, CallBizLogic,
                BizLogicReturns, InnerSend, Outer, OuterStart, OuterExit,
                OuterFinish, OuterSend, OuterDelete
  <2>2. keyOf[i] \in Keys /\ Made(keyOf[i]) /\ keyOf' = keyOf
    <3>1. i \in 1..runs /\ keyOf[i] \in Keys
      BY <2>1, ActiveIsMade
    <3> QED
      BY <1>9, <3>1
      DEF Made, Inner, InnerStart, InnerObey, PausedObey, Obey, CallBizLogic,
          BizLogicReturns, InnerSend, Outer, OuterStart, OuterExit,
          OuterFinish, OuterSend, OuterDelete
  <2>3. taskStatus' = taskStatus \/ \E s : setTaskStatus(keyOf[i], s)
    BY <1>9
    DEF Inner, InnerStart, InnerObey, PausedObey, Obey, Sync, CallBizLogic,
        BizLogicReturns, InnerSend, Outer, OuterStart, OuterExit, OuterFinish,
        OuterSend, OuterDelete
  <2>4. resultChan' = resultChan \/ \E s : Send(keyOf[i], s)
    BY <1>9
    DEF Inner, InnerStart, InnerObey, PausedObey, Obey, CallBizLogic,
        BizLogicReturns, InnerSend, Outer, OuterStart, OuterExit, OuterFinish,
        OuterSend, OuterDelete
  <2> QED
    BY <1>2, <1>4, <1>5, <1>3, <2>2, <2>3, <2>4
<1>10. CASE UNCHANGED evars
  BY <1>2, <1>3, <1>10 DEF evars
<1> QED
  BY <1>1, <1>6, <1>7, <1>8, <1>9, <1>10 DEF ENext

\* What a step of the worker does to its executor is a step of the executor.
LEMMA ExecutorSteps ==
  ASSUME WInv, Steps
  PROVE  [ENext]_evars
<1>1. [Next]_vars /\ ~Crash
  BY DEF Steps, Next
<1> QED
  BY <1>1, ExecutorMoves

\* What a step does to the executor, with the change it carries out.
LEMMA StepCalls ==
  ASSUME WInv, Steps
  PROVE  \/ \E c \in change : c.key \in Keys /\ ChangeHandle(c)
         \/ CallerStep \/ Recv
         \/ \E i \in Instances : Inner(i) \/ Outer(i)
         \/ UNCHANGED evars
<1>1. CASE Enqueuer \/ WaitChange \/ Monitor
  BY <1>1 DEF Enqueuer, TakeTrigger, ListTaskKeys, BatchGetTask, Diff,
              handleException, Enqueue, WaitChange, Monitor, MonitorSet,
              MonitorUpdate, MonitorDone
<1>2. CASE SyncChange
  <2>1. PICK c \in change : ChangeHandle(c) \/ UNCHANGED evars
    BY <1>2 DEF SyncChange
  <2>2. c.key \in Keys
    BY DEF WInv, PipelineOK, Changes
  <2> QED
    BY <2>1, <2>2
<1>3. CASE SyncerBlocked \/ (\E i \in Instances : Executor(i)) \/ Forward
  BY <1>3 DEF SyncerBlocked, Executor, Forward
<1>4. CASE RefreshList \/ RefreshPush \/ Shutdown
  BY <1>4 DEF RefreshList, RefreshPush, Shutdown
<1>5. CASE OperateUpdate \/ WatchTrigger \/ ResyncList \/ ResyncSend
  BY <1>5 DEF OperateUpdate, WatchTrigger, ResyncList, ResyncSend
<1>6. ASSUME NEW k \in Keys,
             \/ assignTask(k)
             \/ \E next \in {Running, Paused, Stop} : OperateTask(k, next)
      PROVE  UNCHANGED evars
  BY <1>6 DEF assignTask, OperateTask
<1>7. CASE UNCHANGED vars
  BY <1>7 DEF vars
<1> QED
  BY <1>1, <1>2, <1>3, <1>4, <1>5, <1>6, <1>7 DEF Steps

\* The channel of the monitor, its event and the list of refreshCache change
\* only here.
LEMMA PipelineMoves ==
  ASSUME Steps, ~Monitor, ~Forward, ~RefreshList, ~RefreshPush
  PROVE  UNCHANGED <<ch, mon, refresher, cache>>
<1>1. CASE Enqueuer \/ WaitChange \/ SyncChange
  BY <1>1 DEF Enqueuer, TakeTrigger, ListTaskKeys, BatchGetTask, Diff,
              handleException, Enqueue, WaitChange, SyncChange
<1>2. CASE SyncerBlocked \/ (\E i \in Instances : Executor(i)) \/ Shutdown
  BY <1>2 DEF SyncerBlocked, Executor, Shutdown, ivars
<1>3. CASE OperateUpdate \/ WatchTrigger \/ ResyncList \/ ResyncSend
  BY <1>3 DEF OperateUpdate, WatchTrigger, ResyncList, ResyncSend, ivars
<1>4. ASSUME NEW k \in Keys,
             \/ assignTask(k)
             \/ \E next \in {Running, Paused, Stop} : OperateTask(k, next)
      PROVE  UNCHANGED <<ch, mon, refresher, cache>>
  BY <1>4 DEF assignTask, OperateTask, ivars
<1>5. CASE UNCHANGED vars
  BY <1>5 DEF vars, ivars
<1> QED
  BY <1>1, <1>2, <1>3, <1>4, <1>5 DEF Steps

LEMMA StatusOfMadeStep ==
  ASSUME WInv, Steps, StatusOfMade
  PROVE  StatusOfMade'
<1>1. \A k : Made(k) => Made(k)'
  BY MadeStays
<1>2. ListedMade' /\ SentMade'
  BY ExecutorSteps, ExecutorSpeaks DEF WInv, StatusOfMade
<1>3. CASE UNCHANGED <<ch, mon, refresher, cache>>
  BY <1>1, <1>2, <1>3 DEF StatusOfMade
<1>4. CASE MonitorSet
  <2>1. /\ ch # <<>> /\ ch' = Tail(ch) /\ refresher' = refresher
        /\ cache' = [cache EXCEPT ![Head(ch).key] = Head(ch).status]
        /\ mon' = [at |-> "update", ev |-> Head(ch)]
    BY <1>4 DEF MonitorSet
  <2>2. ch \in Seq(Event)
    BY DEF WInv, PipelineOK
  <2>3. 1 \in DOMAIN ch /\ Head(ch) = ch[1]
    BY <2>1, <2>2
  <2>4. \A n \in DOMAIN ch' : n + 1 \in DOMAIN ch /\ ch'[n] = ch[n + 1]
    BY <2>1, <2>2
  <2>5. Made(Head(ch).key)
    BY <2>3 DEF StatusOfMade
  <2>6. \A k \in Keys : cache'[k] # NotExist => Made(k)
    BY <2>1, <2>5 DEF StatusOfMade, WInv, PipelineOK
  <2>7. mon'.ev = Head(ch)
    BY <2>1
  <2> QED
    BY <1>1, <1>2, <2>1, <2>4, <2>5, <2>6, <2>7 DEF StatusOfMade
<1>5. CASE MonitorUpdate \/ MonitorDone
  <2>1. /\ UNCHANGED <<ch, refresher, cache>>
        /\ mon'.at # "idle" => mon.at # "idle" /\ mon'.ev = mon.ev
    BY <1>5 DEF MonitorUpdate, MonitorDone, IdleMon, WInv, MonOK
  <2> QED
    BY <1>1, <1>2, <2>1 DEF StatusOfMade
<1>6. CASE Forward
  <2>1. /\ resultChan # <<>> /\ ch' = Append(ch, Head(resultChan))
        /\ UNCHANGED <<mon, refresher, cache>>
    BY <1>6 DEF Forward, Recv, SendEvent
  <2>2. ch \in Seq(Event) /\ resultChan \in Seq(Event)
    BY DEF WInv, PipelineOK, TInv, ETypeOK, Event
  <2>3. 1 \in DOMAIN resultChan /\ Head(resultChan) = resultChan[1]
    BY <2>1, <2>2
  <2>4. Made(Head(resultChan).key)
    BY <2>3 DEF StatusOfMade, SentMade
  <2>5. \A n \in DOMAIN ch' :
          (n \in DOMAIN ch /\ ch'[n] = ch[n]) \/ ch'[n] = Head(resultChan)
    BY <2>1, <2>2
  <2> QED
    BY <1>1, <1>2, <2>1, <2>4, <2>5 DEF StatusOfMade
<1>7. CASE RefreshList
  <2>1. /\ refresher' = [k \in {j \in Keys : taskStatus[j] # NotExist} |-> taskStatus[k]]
        /\ UNCHANGED <<ch, mon, cache>>
    BY <1>7 DEF RefreshList
  <2>2. \A k \in DOMAIN refresher' : Made(k)
    BY <2>1 DEF StatusOfMade, ListedMade
  <2> QED
    BY <1>1, <1>2, <2>1, <2>2 DEF StatusOfMade
<1>8. CASE RefreshPush
  <2>1. PICK k \in DOMAIN refresher :
          /\ ch' = Append(ch, [key |-> k, status |-> refresher[k]]) \/ ch' = ch
          /\ refresher' = [j \in DOMAIN refresher \ {k} |-> refresher[j]]
          /\ UNCHANGED <<mon, cache>>
    BY <1>8 DEF RefreshPush, SendEvent
  <2>2. ch \in Seq(Event)
    BY DEF WInv, PipelineOK
  <2>3. \A n \in DOMAIN ch' :
          \/ n \in DOMAIN ch /\ ch'[n] = ch[n]
          \/ ch'[n] = [key |-> k, status |-> refresher[k]]
    BY <2>1, <2>2
  <2>4. Made(k) /\ DOMAIN refresher' \subseteq DOMAIN refresher
    BY <2>1 DEF StatusOfMade
  <2> QED
    BY <1>1, <1>2, <2>1, <2>3, <2>4 DEF StatusOfMade
<1> QED
  BY <1>3, <1>4, <1>5, <1>6, <1>7, <1>8, PipelineMoves DEF Monitor
-----------------------------------------------------------------------------
\* A process that has just started, for the first time or after a crash.
Blank ==
  /\ EInit
  /\ enq = IdleEnq /\ pending = <<>> /\ change = {}
  /\ ch = <<>> /\ mon = IdleMon /\ refresher = <<>>
  /\ cache = [k \in Keys |-> NotExist]

LEMMA StartsBlank == Init => Blank
BY DEF Init, Started, Blank

LEMMA RestartsBlank == Crash => Blank'
BY DEF Crash, EInit, Blank

LEMMA OnceBegins ==
  ASSUME Blank
  PROVE  OnceInv
<1>1. runs = 0 /\ \A k : ~Made(k)
  BY DEF Blank, EInit, runs, Made
<1>2. enq.at = "idle" /\ enq.changes = {} /\ mon.at = "idle"
  BY DEF Blank, IdleEnq, IdleMon
<1>3. StatusOfMade
  BY <1>2 DEF Blank, EInit, StatusOfMade, ListedMade, SentMade
<1>4. KeysFree /\ LooksAtCached
  BY <1>2 DEF KeysFree, LooksAtCached
<1>5. CreatesFresh /\ MadeKnown
  BY <1>1, <1>2 DEF Blank, CreatesFresh, MadeKnown
<1>6. StartedOnce
  BY <1>1 DEF StartedOnce
<1> QED
  BY <1>3, <1>4, <1>5, <1>6 DEF OnceInv

LEMMA OnceStep ==
  ASSUME NothingForgotten, WInv, KeyOnce, OnceInv, [Next]_vars
  PROVE  (WInv /\ KeyOnce)' /\ (OnceInv' \/ Blank')
<1>1. KeyOnce'
  BY QueueMoves, KeyOnceStep DEF WInv, PipelineOK
<1>2. Steps => OnceInv'
  BY StatusOfMadeStep, KeysFreeStep, LooksAtCachedStep, CreatesFreshStep,
     MadeKnownStep, StartedOnceStep DEF OnceInv
<1> QED
  BY <1>1, <1>2, NothingElse, RestartsBlank, WorkerTypeStep

\* Between crashes a worker whose cache forgets nothing starts a task once: no
\* trigger, stale, repeated or of a resync, and no event lost in the
\* repository makes it run a task a second time, whatever users do.  The
\* cached status of a task is set before its change leaves the queue, and the
\* enqueuer looks at the queue before it looks at the cache.
THEOREM NeverStartedTwice ==
  ASSUME NothingForgotten
  PROVE  Spec => []StartedOnce
<1>1. Init => WInv /\ KeyOnce /\ Blank
  BY WorkerTypeInit, KeyOnceInit, StartsBlank
<1>2. Blank => OnceInv
  BY OnceBegins
<1>3. WInv /\ KeyOnce /\ OnceInv /\ [Next]_vars
        => (WInv /\ KeyOnce)' /\ (OnceInv' \/ Blank')
  BY OnceStep
<1>4. OnceInv => StartedOnce
  BY DEF OnceInv
<1> QED
  BY <1>1, <1>2, <1>3, <1>4, PTL DEF Spec
-----------------------------------------------------------------------------
(* Final statuses.                                                         *)

LEMMA FinalFacts ==
  /\ \A s \in LiveStatuses \cup WaitStatuses : ~IsFinalStatus(s)
  /\ ~IsFinalStatus(Running) /\ ~IsFinalStatus(Paused)
  /\ WaitScheduling \in WaitStatuses
BY DEF IsFinalStatus, FinalStatuses, LiveStatuses, WaitStatuses, Running, Paused,
       Success, Failed, Stop, WaitScheduling, WaitRunning, WaitPaused, WaitStop

\* A run that is through stays so: only a new run of its task breaks the
\* silence.
LEMMA SilentStays ==
  ASSUME TInv, LoopAwaitsStart, [ENext]_evars, NEW k \in Keys, Silent(k), ~Run(k)
  PROVE  Silent(k)'
<1>1. CASE keyOf' = keyOf
  <2> SUFFICES ASSUME NEW i \in 1..runs, keyOf[i] = k
               PROVE  \/ inner'[i] \in {"ended", "crashed"}
                      \/ outer'[i] \in {"delete", "gone"}
    BY <1>1 DEF Silent, Through, runs
  <2>1. i \in Instances
    BY KeyOfRun DEF TInv
  <2>2. \/ inner[i] \in {"ended", "crashed"} /\ outer[i] # "start"
        \/ outer[i] \in {"delete", "gone"}
    BY <2>1 DEF Silent, Through, LoopAwaitsStart
  <2>3. inner \in [Instances -> InnerPcs] /\ outer \in [Instances -> OuterPcs]
    BY DEF TInv, ETypeOK
  <2>4. ASSUME NEW j \in Keys, Call(j)
        PROVE  UNCHANGED <<inner, outer>>
    <3>1. ~Run(j)
      BY <1>1, RunMakes, <2>4 DEF runs
    <3> QED
      BY <2>4, <3>1 DEF Call, Exit, StopTask, Pause, Resume, Control, Put
  <2>5. CASE CallerStep \/ Recv \/ UNCHANGED evars
    BY <2>2, <2>5 DEF CallerStep, RunSync, RunSend, PutBlocked, Recv, evars
  <2>6. ASSUME NEW j \in Instances, Inner(j)
        PROVE  outer' = outer /\ (inner[i] \in {"ended", "crashed"}
                                    => inner'[i] = inner[i])
    BY <2>1, <2>3, <2>6
    DEF Inner, InnerStart, InnerObey, PausedObey, Obey, Sync, CallBizLogic,
        BizLogicReturns, InnerSend
  <2>7. ASSUME NEW j \in Instances, Outer(j)
        PROVE  /\ outer[i] # "start" => inner'[i] = inner[i]
               /\ outer[i] \in {"delete", "gone"} => outer'[i] \in {"delete", "gone"}
    BY <2>1, <2>3, <2>7
    DEF Outer, OuterStart, OuterExit, OuterFinish, OuterSend, OuterDelete
  <2> QED
    BY <2>2, <2>4, <2>5, <2>6, <2>7 DEF ENext
<1>2. ASSUME NEW j \in Keys, Run(j)
      PROVE  Silent(k)'
  <2>1. /\ runs \in Nat /\ runs' = runs + 1
        /\ \A i \in 1..runs : keyOf'[i] = keyOf[i]
        /\ keyOf'[runs + 1] = j /\ j # k
    BY <1>2, RunMakes
  <2>2. /\ inner' = inner /\ outer' = [outer EXCEPT ![runs + 1] = "start"]
        /\ outer \in [Instances -> OuterPcs]
    BY <1>2 DEF Run, TInv, ETypeOK
  <2>3. \A i \in 1..runs' : keyOf'[i] = k => i \in 1..runs /\ keyOf[i] = k
    BY <2>1
  <2>4. \A i \in 1..runs : outer'[i] = outer[i]
    BY <2>1, <2>2
  <2> QED
    BY <2>2, <2>3, <2>4 DEF Silent, Through
<1>3. ASSUME \A j \in Keys : ~Run(j)
      PROVE  keyOf' = keyOf
  BY <1>3
  DEF ENext, Call, Exit, StopTask, Pause, Resume, Control, Put, CallerStep,
      RunSync, RunSend, PutBlocked, Recv, Inner, InnerStart, InnerObey,
      PausedObey, Obey, CallBizLogic, BizLogicReturns, InnerSend, Outer,
      OuterStart, OuterExit, OuterFinish, OuterSend, OuterDelete, evars
<1> QED
  BY <1>1, <1>2, <1>3

LEMMA ThroughStays ==
  ASSUME TInv, LoopAwaitsStart, [ENext]_evars,
         keyOf' = keyOf \/ \E j \in Keys : Run(j) /\ ~Made(j)
  PROVE  Over \subseteq Over'
<1> SUFFICES ASSUME NEW k \in Over
             PROVE  k \in Over'
  OBVIOUS
<1>1. k \in Keys /\ Made(k) /\ Silent(k)
  BY DEF Over
<1>2. Run(k) => keyOf' # keyOf
  BY <1>1, RunMakes DEF runs
<1>3. Made(k)' /\ ~Run(k)
  <2>1. CASE keyOf' = keyOf
    BY <1>1, <1>2, <2>1 DEF Made, runs
  <2>2. ASSUME NEW j \in Keys, Run(j), ~Made(j)
        PROVE  Made(k)' /\ ~Run(k)
    <3>1. j # k /\ Made(k)'
      BY <1>1, <2>2, MadeByRun
    <3>2. Run(k) => keyOf'[runs + 1] = k
      BY <1>1, RunMakes
    <3>3. keyOf'[runs + 1] = j
      BY <2>2, RunMakes
    <3> QED
      BY <3>1, <3>2, <3>3
  <2> QED
    BY <2>1, <2>2
<1> QED
  BY <1>1, <1>3, SilentStays DEF Over

LEMMA LoopAwaitsStartStep ==
  ASSUME TInv, LoopAwaitsStart, [ENext]_evars
  PROVE  LoopAwaitsStart'
<1>1. inner \in [Instances -> InnerPcs] /\ outer \in [Instances -> OuterPcs]
  BY DEF TInv, ETypeOK
<1>2. ASSUME NEW k \in Keys, Run(k)
      PROVE  LoopAwaitsStart'
  <2>1. runs + 1 \in Instances => inner[runs + 1] = "none"
    BY BoundsAssumption DEF TInv, NoneBeforeRun, ETypeOK, runs
  <2> QED
    BY <1>1, <1>2, <2>1 DEF Run, LoopAwaitsStart
<1>3. ASSUME UNCHANGED <<inner, outer>>
      PROVE  LoopAwaitsStart'
  BY <1>3 DEF LoopAwaitsStart
<1>4. ASSUME NEW k \in Keys, Call(k), ~Run(k)
      PROVE  LoopAwaitsStart'
  BY <1>3, <1>4 DEF Call, Exit, StopTask, Pause, Resume, Control, Put
<1>5. CASE CallerStep \/ Recv \/ UNCHANGED evars
  BY <1>3, <1>5 DEF CallerStep, RunSync, RunSend, PutBlocked, Recv, evars
<1>6. ASSUME NEW i \in Instances, Inner(i)
      PROVE  LoopAwaitsStart'
  BY <1>1, <1>6
  DEF LoopAwaitsStart, Inner, InnerStart, InnerObey, PausedObey, Obey, Sync,
      CallBizLogic, BizLogicReturns, InnerSend
<1>7. ASSUME NEW i \in Instances, Outer(i)
      PROVE  LoopAwaitsStart'
  BY <1>1, <1>7
  DEF LoopAwaitsStart, Outer, OuterStart, OuterExit, OuterFinish, OuterSend,
      OuterDelete
<1> QED
  BY <1>2, <1>4, <1>5, <1>6, <1>7 DEF ENext

\* Only the goroutines of a run send a final status, each as its last word.
LEMMA FinalSentStep ==
  ASSUME TInv, StartedOnce, LoopAwaitsStart, FinalSent, [ENext]_evars,
         keyOf' = keyOf \/ \E j \in Keys : Run(j) /\ ~Made(j)
  PROVE  FinalSent'
<1>1. \A n \in DOMAIN resultChan :
        IsFinalStatus(resultChan[n].status) => resultChan[n].key \in Over'
  BY ThroughStays DEF FinalSent
<1>2. \E S : resultChan \in Seq(S)
  BY DEF TInv, ETypeOK
<1>3. ASSUME resultChan' = resultChan
      PROVE  FinalSent'
  BY <1>1, <1>3 DEF FinalSent
<1>4. ASSUME NEW k, NEW s, Send(k, s), IsFinalStatus(s) => k \in Over'
      PROVE  FinalSent'
  <2>1. resultChan' = Append(resultChan, [key |-> k, status |-> s])
    BY <1>4 DEF Send
  <2>2. \A n \in DOMAIN resultChan' :
          \/ n \in DOMAIN resultChan /\ resultChan'[n] = resultChan[n]
          \/ resultChan'[n] = [key |-> k, status |-> s]
    BY <1>2, <2>1
  <2> QED
    BY <1>1, <1>4, <2>2 DEF FinalSent
<1>5. CASE Recv
  <2>1. resultChan # <<>> /\ resultChan' = Tail(resultChan)
    BY <1>5 DEF Recv
  <2>2. \A n \in DOMAIN resultChan' :
          n + 1 \in DOMAIN resultChan /\ resultChan'[n] = resultChan[n + 1]
    BY <1>2, <2>1
  <2> QED
    BY <1>1, <2>2 DEF FinalSent
<1>6. ASSUME NEW k \in Keys, Call(k)
      PROVE  FinalSent'
  <2>1. resultChan' = resultChan
    BY <1>6 DEF Call, Run, Exit, StopTask, Pause, Resume, Control, Put
  <2> QED
    BY <1>3, <2>1
<1>7. CASE CallerStep
  <2>1. CASE RunSend
    BY <1>4, <2>1, FinalFacts DEF RunSend
  <2> QED
    BY <1>3, <1>7, <2>1 DEF CallerStep, RunSync, PutBlocked
<1>8. ASSUME NEW i \in Instances, Inner(i) \/ Outer(i)
      PROVE  FinalSent'
  <2>1. ASSUME InnerSend(i) \/ OuterSend(i)
        PROVE  i \in 1..runs
    BY <2>1, ActiveIsMade DEF InnerSend, OuterSend
  <2>2. ASSUME InnerSend(i) \/ OuterSend(i),
               inner'[i] = "ended" \/ outer'[i] = "delete"
        PROVE  keyOf[i] \in Over'
    <3>1. runs' = runs /\ keyOf' = keyOf
      BY <2>2 DEF InnerSend, OuterSend, runs
    <3>2. \A j \in 1..runs : keyOf[j] = keyOf[i] => j = i
      BY <2>1, <2>2 DEF StartedOnce
    <3>3. i \in 1..runs /\ keyOf[i] \in Keys
      BY <2>1, <2>2, KeyOfRun DEF TInv
    <3> QED
      BY <2>2, <3>1, <3>2, <3>3 DEF Over, Silent, Made, Through
  <2>3. CASE InnerSend(i)
    <3>1. /\ Send(keyOf[i], report[i])
          /\ inner' = [inner EXCEPT ![i] = AfterSend(report[i])]
          /\ inner \in [Instances -> InnerPcs]
      BY <2>3 DEF InnerSend, TInv, ETypeOK
    <3>2. IsFinalStatus(report[i]) => AfterSend(report[i]) = "ended"
      BY FinalFacts DEF AfterSend
    <3>3. IsFinalStatus(report[i]) => inner'[i] = "ended"
      BY <3>1, <3>2
    <3> QED
      BY <1>4, <2>2, <2>3, <3>1, <3>3
  <2>4. CASE OuterSend(i)
    <3>1. Send(keyOf[i], Failed) /\ outer'[i] = "delete"
      BY <2>4 DEF OuterSend, TInv, ETypeOK
    <3> QED
      BY <1>4, <2>2, <2>4, <3>1
  <2>5. CASE ~InnerSend(i) /\ ~OuterSend(i)
    <3>1. resultChan' = resultChan
      BY <1>8, <2>5
      DEF Inner, InnerStart, InnerObey, PausedObey, Obey, CallBizLogic,
          BizLogicReturns, Outer, OuterStart, OuterExit, OuterFinish,
          OuterDelete
    <3> QED
      BY <1>3, <3>1
  <2> QED
    BY <2>3, <2>4, <2>5
<1>9. CASE UNCHANGED evars
  BY <1>3, <1>9 DEF evars
<1> QED
  BY <1>5, <1>6, <1>7, <1>8, <1>9 DEF ENext

\* The record changes only here.
LEMMA RecordMoves ==
  ASSUME Steps, rec' # rec
  PROVE  \/ \E k \in Keys : assignTask(k)
         \/ OperateUpdate \/ handleException \/ MonitorUpdate
<1>1. CASE Enqueuer \/ WaitChange \/ SyncChange \/ Monitor
  BY <1>1 DEF Enqueuer, TakeTrigger, ListTaskKeys, BatchGetTask, Diff, Enqueue,
              WaitChange, SyncChange, Monitor, MonitorSet, MonitorDone, svars
<1>2. CASE SyncerBlocked \/ (\E i \in Instances : Executor(i)) \/ Forward
  BY <1>2 DEF SyncerBlocked, Executor, Forward, svars
<1>3. CASE \/ RefreshList \/ RefreshPush \/ Shutdown \/ WatchTrigger
           \/ ResyncList \/ ResyncSend \/ UNCHANGED vars
  BY <1>3 DEF RefreshList, RefreshPush, Shutdown, WatchTrigger, ResyncList,
              ResyncSend, svars, vars
<1>4. ASSUME NEW k \in Keys, NEW next \in {Running, Paused, Stop},
             OperateTask(k, next)
      PROVE  FALSE
  BY <1>4 DEF OperateTask
<1> QED
  BY <1>1, <1>2, <1>3, <1>4 DEF Steps

\* The monitor has a final event of task k.
Records(k) == mon.at # "idle" /\ mon.ev.key = k /\ IsFinalStatus(mon.ev.status)

\* A final record is written by the monitor only, from a final event.
LEMMA FinalRecordStep ==
  ASSUME WInv, Steps
  PROVE  \A k \in Keys : IsFinalStatus(rec'[k].status) =>
                            IsFinalStatus(rec[k].status) \/ Records(k)
<1> DEFINE Goal == \A k \in Keys : IsFinalStatus(rec'[k].status) =>
                                     IsFinalStatus(rec[k].status) \/ Records(k)
<1>1. rec \in [Keys -> Record]
  BY DEF WInv, PipelineOK
<1>2. ASSUME NEW j \in Keys, ~IsFinalStatus(rec'[j].status),
             \A k \in Keys \ {j} : rec'[k] = rec[k]
      PROVE  Goal
  BY <1>2
<1>3. ASSUME NEW k \in Keys, assignTask(k)
      PROVE  Goal
  <2>1. PreWaitStatus(Running) \in WaitStatuses
    BY WaitForms
  <2> QED
    BY <1>1, <1>2, <1>3, <2>1, FinalFacts DEF assignTask
<1>4. CASE OperateUpdate
  <2>1. PICK o \in oper : rec' = [rec EXCEPT ![o.key] =
                     [status |-> PreWaitStatus(o.next), want |-> o.next]]
    BY <1>4 DEF OperateUpdate
  <2>2. o.key \in Keys /\ o.next \in {Running, Paused, Stop}
    BY DEF WInv, PipelineOK
  <2>3. ~IsFinalStatus(PreWaitStatus(o.next))
    BY <2>2, WaitForms, FinalFacts
  <2> QED
    BY <1>1, <1>2, <2>1, <2>2, <2>3
<1>5. CASE handleException /\ rec' # rec
  <2>1. PICK c \in Exceptions : rec' = [rec EXCEPT ![c.key].status = Paused]
    BY <1>5 DEF handleException, UpdateStatus
  <2>2. c.key \in Keys
    <3>1. EnqOK
      BY DEF WInv
    <3> QED
      BY <3>1 DEF EnqOK, Exceptions, AllChanges
  <2>3. rec'[c.key].status = Paused
    BY <1>1, <2>1, <2>2 DEF Record
  <2>4. \A k \in Keys \ {c.key} : rec'[k] = rec[k]
    BY <1>1, <2>1, <2>2
  <2> QED
    BY <1>2, <2>2, <2>3, <2>4, FinalFacts
<1>6. CASE MonitorUpdate /\ rec' # rec
  <2> DEFINE k == mon.ev.key
             s == mon.ev.status
  <2>1. rec' = [rec EXCEPT ![k].status = s] /\ mon.at # "idle"
    BY <1>6 DEF MonitorUpdate, UpdateStatus
  <2>2. k \in Keys
    BY <2>1 DEF WInv, MonOK, Event
  <2>3. IsFinalStatus(s) => Records(k)
    BY <2>1 DEF Records
  <2> HIDE DEF k, s
  <2>4. rec'[k].status = s
    BY <1>1, <2>1, <2>2 DEF Record
  <2>5. \A j \in Keys \ {k} : rec'[j] = rec[j]
    BY <1>1, <2>1, <2>2
  <2> QED
    BY <2>2, <2>3, <2>4, <2>5
<1>7. CASE rec' = rec
  BY <1>7
<1> QED
  BY <1>3, <1>4, <1>5, <1>6, <1>7, RecordMoves

\* A final status goes from the executor to the monitor and nothing else makes
\* one: the refresher knows tasks under control only.
LEMMA FinalsPassedStep ==
  ASSUME WInv, Steps, FinalSent, FinalsPassed,
         Over \subseteq Over'
  PROVE  FinalsPassed'
<1>2. \A n \in DOMAIN ch : IsFinalStatus(ch[n].status) => ch[n].key \in Over'
  BY DEF FinalsPassed
<1>3. mon.at # "idle" /\ IsFinalStatus(mon.ev.status) => mon.ev.key \in Over'
  BY DEF FinalsPassed
<1>4. CASE UNCHANGED <<ch, mon>>
  BY <1>2, <1>3, <1>4 DEF FinalsPassed
<1>5. CASE MonitorSet
  <2>1. /\ ch # <<>> /\ ch' = Tail(ch)
        /\ mon' = [at |-> "update", ev |-> Head(ch)]
    BY <1>5 DEF MonitorSet
  <2>2. ch \in Seq(Event)
    BY DEF WInv, PipelineOK
  <2>3. 1 \in DOMAIN ch /\ Head(ch) = ch[1]
    BY <2>1, <2>2
  <2>4. \A n \in DOMAIN ch' : n + 1 \in DOMAIN ch /\ ch'[n] = ch[n + 1]
    BY <2>1, <2>2
  <2>5. mon'.ev = ch[1]
    BY <2>1, <2>3
  <2> QED
    BY <1>2, <2>3, <2>4, <2>5 DEF FinalsPassed
<1>6. CASE MonitorUpdate \/ MonitorDone
  <2>1. /\ UNCHANGED ch
        /\ mon'.at # "idle" => mon.at # "idle" /\ mon'.ev = mon.ev
    BY <1>6 DEF MonitorUpdate, MonitorDone, IdleMon, WInv, MonOK
  <2> QED
    BY <1>2, <1>3, <2>1 DEF FinalsPassed
<1>7. CASE Forward
  <2>1. /\ resultChan # <<>> /\ ch' = Append(ch, Head(resultChan))
        /\ UNCHANGED mon
    BY <1>7 DEF Forward, Recv, SendEvent
  <2>2. ch \in Seq(Event) /\ resultChan \in Seq(Event)
    BY DEF WInv, PipelineOK, TInv, ETypeOK, Event
  <2>3. 1 \in DOMAIN resultChan /\ Head(resultChan) = resultChan[1]
    BY <2>1, <2>2
  <2>4. IsFinalStatus(resultChan[1].status) => resultChan[1].key \in Over'
    BY <2>3 DEF FinalSent
  <2>5. \A n \in DOMAIN ch' :
          (n \in DOMAIN ch /\ ch'[n] = ch[n]) \/ ch'[n] = resultChan[1]
    BY <2>1, <2>2, <2>3
  <2> QED
    BY <1>2, <1>3, <2>1, <2>4, <2>5 DEF FinalsPassed
<1>8. CASE RefreshPush
  <2>1. PICK k \in DOMAIN refresher :
          /\ ch' = Append(ch, [key |-> k, status |-> refresher[k]]) \/ ch' = ch
          /\ UNCHANGED mon
    BY <1>8 DEF RefreshPush, SendEvent
  <2>2. ch \in Seq(Event)
    BY DEF WInv, PipelineOK
  <2>3. \A n \in DOMAIN ch' :
          \/ n \in DOMAIN ch /\ ch'[n] = ch[n]
          \/ ch'[n] = [key |-> k, status |-> refresher[k]]
    BY <2>1, <2>2
  <2>4. ~IsFinalStatus(refresher[k])
    BY FinalFacts DEF WInv, RefresherOK
  <2> QED
    BY <1>2, <1>3, <2>1, <2>3, <2>4 DEF FinalsPassed
<1>9. CASE RefreshList
  BY <1>4, <1>9 DEF RefreshList
<1> QED
  BY <1>4, <1>5, <1>6, <1>7, <1>8, <1>9, PipelineMoves DEF Monitor

\* A change gets on its way with the diff only.
LEMMA WayMoves ==
  ASSUME WInv, [Next]_vars, NEW c \in Way'
  PROVE  c \in Way \/ (Diff /\ c \in enq'.changes)
<1>1. ASSUME enq'.changes \subseteq enq.changes, pending' = pending,
             change' \subseteq change
      PROVE  c \in Way
  BY <1>1 DEF Way
<1>2. CASE TakeTrigger \/ Crash
  <2>1. enq'.changes = {}
    <3>1. CASE TakeTrigger
      BY <3>1 DEF TakeTrigger, IdleEnq
    <3>2. CASE Crash
      BY <3>2 DEF Crash, IdleEnq
    <3> QED
      BY <1>2, <3>1, <3>2
  <2>2. UNCHANGED <<pending, change>> \/ (pending' = <<>> /\ change' = {})
    BY <1>2 DEF TakeTrigger, Crash
  <2> QED
    BY <2>1, <2>2 DEF Way
<1>3. CASE ListTaskKeys \/ BatchGetTask
  <2>1. UNCHANGED <<pending, change>>
    BY <1>3 DEF ListTaskKeys, BatchGetTask
  <2>2. enq'.changes \subseteq enq.changes
    BY <1>3, LooksOn
  <2> QED
    BY <1>1, <2>1, <2>2
<1>4. CASE Diff
  BY <1>4 DEF Diff, Way
<1>5. CASE handleException
  <2>1. PICK d \in enq.changes : enq' = WithoutChange(d) /\ enq.at = "apply"
    BY <1>5 DEF handleException, Exceptions
  <2> QED
    BY <1>1, <1>5, <2>1, Leftover DEF handleException
<1>6. CASE Enqueue
  <2>1. PICK d \in enq.changes :
          /\ enq' = WithoutChange(d)
          /\ \A n \in DOMAIN pending' :
               \/ n \in DOMAIN pending /\ pending'[n] = pending[n]
               \/ pending'[n] = d
          /\ UNCHANGED change
    BY <1>6, EnqueueKnows
  <2>2. enq'.changes \subseteq enq.changes
    BY <1>6, <2>1, Leftover DEF Enqueue
  <2> QED
    BY <2>1, <2>2 DEF Way
<1>7. CASE WaitChange
  <2>1. /\ pending # <<>> /\ pending' = Tail(pending)
        /\ change' = {Head(pending)} /\ UNCHANGED enq
    BY <1>7 DEF WaitChange, Queue!Take
  <2>2. pending \in Seq(Changes)
    BY DEF WInv, PipelineOK
  <2>3. /\ 1 \in DOMAIN pending /\ Head(pending) = pending[1]
        /\ \A n \in DOMAIN pending' :
             n + 1 \in DOMAIN pending /\ pending'[n] = pending[n + 1]
    BY <2>1, <2>2
  <2> QED
    BY <2>1, <2>3 DEF Way
<1>8. CASE SyncChange \/ Monitor \/ (\E k \in Keys : Recycle(k))
  <2>1. UNCHANGED <<enq, pending>> /\ change' \subseteq change
    BY <1>8 DEF SyncChange, Queue!Finish, qvars, Monitor, MonitorSet,
                MonitorUpdate, MonitorDone, Recycle
  <2> QED
    BY <1>1, <2>1
<1>9. CASE Steps /\ ~Touching
  BY <1>1, <1>9, FewTouch
<1> QED
  BY <1>2, <1>3, <1>4, <1>5, <1>6, <1>7, <1>8, <1>9, StepKinds
  DEF Touching, Enqueuer

LEMMA WayStep ==
  ASSUME WInv, Steps, NEW k \in Keys, OnItsWay(k)', ~OnItsWay(k)
  PROVE  /\ Diff /\ k \in enq.keys /\ ~IsFinalStatus(enq.want[k].status)
         /\ enq.want[k].want = Running
         /\ cache[k] = NotExist \/ (enq.real # {} /\ k \notin enq.real)
<1>1. PICK c \in Way' : IsCreate(c, k)
  BY DEF OnItsWay
<1>2. [Next]_vars
  BY DEF Steps, Next
<1>3. Diff /\ c \in enq'.changes
  BY <1>1, <1>2, WayMoves DEF OnItsWay
<1> QED
  BY <1>1, <1>3, Decides DEF IsCreate

\* The records the diff looks at are those of the moment they are read.
LEMMA LookStep ==
  ASSUME WInv, Steps, enq'.at = "real"
  PROVE  \/ enq' = enq
         \/ /\ enq'.keys = enq.keys /\ enq'.want = [j \in enq.keys |-> rec[j]]
            /\ rec' = rec
<1>1. CASE TakeTrigger \/ Diff
  BY <1>1, Decides DEF TakeTrigger, IdleEnq
<1>2. CASE ListTaskKeys \/ BatchGetTask
  BY <1>2, LooksOn DEF BatchGetTask
<1>3. CASE handleException \/ Enqueue
  <2>1. PICK c \in enq.changes : enq' = WithoutChange(c) /\ enq.at = "apply"
    BY <1>3 DEF handleException, Enqueue, Exceptions
  <2> QED
    BY <2>1, Leftover
<1>4. CASE WaitChange \/ SyncChange \/ Monitor \/ ~Touching
  BY <1>4, FewTouch DEF WaitChange, SyncChange, Monitor, MonitorSet,
                        MonitorUpdate, MonitorDone
<1> QED
  BY <1>1, <1>2, <1>3, <1>4 DEF Touching, Enqueuer

\* A record that is final makes no create.
LEMMA FinalMakesNone ==
  ASSUME WInv, Steps,
         NEW k \in Keys, IsFinalStatus(rec[k].status), ~Creating(k)
  PROVE  ~Creating(k)'
<1>1. ~OnItsWay(k)'
  BY WayStep DEF Creating, LooksAt, Diff
<1>2. ~LooksAt(k)'
  BY LookStep DEF Creating, LooksAt
<1> QED
  BY <1>1, <1>2 DEF Creating

\* A task that has ended and rests stays at rest while its record is final.
LEMMA FinalsRecordedStep ==
  ASSUME WInv, Steps, FinalsPassed, FinalsRecorded, Over \subseteq Over'
  PROVE  FinalsRecorded'
<1> SUFFICES ASSUME NEW k \in Keys, IsFinalStatus(rec'[k].status), k \notin Over
             PROVE  Rests(k)'
  BY DEF FinalsRecorded
<1>1. IsFinalStatus(rec[k].status) /\ Rests(k)
  BY FinalRecordStep DEF FinalsRecorded, FinalsPassed, Records
<1>2. ~Creating(k)'
  BY <1>1, FinalMakesNone DEF Rests
<1>3. ~Made(k)'
  <2>1. CASE keyOf' = keyOf
    BY <1>1, <2>1 DEF Rests, Made, runs
  <2>2. ASSUME NEW c \in change, c.type = "create", Run(c.key)
        PROVE  ~Made(k)'
    <3>1. c.key # k
      BY <1>1, <2>2 DEF Rests, Creating, OnItsWay, Way, IsCreate
    <3>2. c.key \in Keys
      BY DEF WInv, PipelineOK, Changes
    <3> QED
      BY <1>1, <2>2, <3>1, <3>2, MadeByRun DEF Rests, WInv
  <2> QED
    BY <2>1, <2>2, Starts
<1> QED
  BY <1>2, <1>3 DEF Rests

LEMMA FinalBegins ==
  ASSUME Blank
  PROVE  FinalInv
<1>1. runs = 0 /\ enq.at = "idle" /\ enq.changes = {} /\ mon.at = "idle"
  BY DEF Blank, EInit, runs, IdleEnq, IdleMon
<1>2. LoopAwaitsStart /\ FinalSent /\ FinalsPassed
  BY <1>1 DEF Blank, EInit, LoopAwaitsStart, FinalSent, FinalsPassed
<1>3. FinalsRecorded
  BY <1>1 DEF Blank, Made, Creating, OnItsWay, Way, LooksAt, Rests, FinalsRecorded
<1> QED
  BY <1>2, <1>3 DEF FinalInv

LEMMA FinalStep ==
  ASSUME NothingForgotten, WInv, OnceInv, FinalInv, [Next]_vars
  PROVE  FinalInv' \/ Blank'
<1>1. CASE Steps
  <2>1. [ENext]_evars /\ TInv
    BY <1>1, ExecutorSteps DEF WInv
  <2>2. keyOf' = keyOf \/ \E j \in Keys : Run(j) /\ ~Made(j)
    BY <1>1, Starts DEF OnceInv, CreatesFresh, WInv, PipelineOK, Changes
  <2>3. Over \subseteq Over'
    BY <2>1, <2>2, ThroughStays DEF FinalInv
  <2>4. LoopAwaitsStart' /\ FinalSent'
    BY <2>1, <2>2, LoopAwaitsStartStep, FinalSentStep DEF FinalInv, OnceInv
  <2>5. FinalsPassed' /\ FinalsRecorded'
    BY <1>1, <2>3, FinalsPassedStep, FinalsRecordedStep DEF FinalInv, OnceInv
  <2> QED
    BY <2>4, <2>5 DEF FinalInv
<1> QED
  BY <1>1, NothingElse, RestartsBlank

\* While the cache forgets nothing a record that says a task is over is right,
\* also after crashes: no loop that is under control still runs the task, or
\* waits to be resumed.
THEOREM FinalRecordsTrue ==
  ASSUME NothingForgotten
  PROVE  Spec => []FinalMeansEnded
<1>1. Init => WInv /\ KeyOnce /\ Blank
  BY WorkerTypeInit, KeyOnceInit, StartsBlank
<1>2. Blank => OnceInv /\ FinalInv
  BY OnceBegins, FinalBegins
<1>3. WInv /\ KeyOnce /\ OnceInv /\ FinalInv /\ [Next]_vars
        => (WInv /\ KeyOnce)' /\ ((OnceInv /\ FinalInv) \/ Blank)'
  BY OnceStep, FinalStep
<1>4. WInv /\ FinalInv => FinalMeansEnded
  <2> SUFFICES ASSUME WInv, FinalInv, NEW i \in 1..runs,
                      IsFinalStatus(rec[keyOf[i]].status),
                      outer[i] \in {"start", "wait"}
               PROVE  ~Live(i)
    BY DEF FinalMeansEnded
  <2>1. keyOf[i] \in Keys
    BY KeyOfRun DEF WInv, TInv
  <2>2. inner[i] \in {"ended", "crashed"}
    BY <2>1 DEF FinalInv, FinalsRecorded, Rests, Made, Over, Silent, Through
  <2> QED
    BY <2>2 DEF Live
<1> QED
  BY <1>1, <1>2, <1>3, <1>4, PTL DEF Spec
-----------------------------------------------------------------------------
(* Forced exits of tasks that are wanted.                                  *)

\* A resync that found nothing cached, and so looks at all that is cached by
\* now, has not left out a key that the queue knew.
NothingSkipped == enq.at = "real" /\ enq.real = {} => enq.skip = {}

Ended(k) == IsFinalStatus(rec[k].status)

\* Every task was assigned, and its record says what is wanted of it.
AllWanted ==
  \A k \in Keys : rec[k].want # NotExist /\ rec[k].status # WaitScheduling

\* A resync has listed every task but some of these, however old the list is.
ListsTrue(gone) ==
  /\ \A S \in resyncer : Keys \ S \subseteq gone
  /\ \A n \in DOMAIN tasksCh :
       tasksCh[n].resync => Keys \ tasksCh[n].keys \subseteq gone

\* So it is while the enqueuer looks at them; what it has skipped on the wanted
\* side it does not look at on the real side.
LooksTrue(gone) ==
  /\ enq.at \in {"keys", "want", "real"} /\ enq.resync =>
       Keys \ (enq.keys \cup enq.skip) \subseteq gone
  /\ enq.at \in {"want", "real"} =>
       IF enq.resync THEN enq.real \cap enq.skip = {}
                     ELSE enq.real = enq.keys /\ enq.keys # {}
  /\ enq.at = "real" => \A k \in enq.keys : enq.want[k].want # NotExist

EndedKeys == {k \in Keys : Ended(k)}

\* Only these tasks are on their way to be killed.
DeletesOf(gone) == \A c \in Way : c.type = "delete" => c.key \in gone

ExitInv ==
  /\ AllWanted
  /\ ListsTrue(EndedKeys) /\ LooksTrue(EndedKeys) /\ DeletesOf(EndedKeys)

\* The table makes a delete only for a task nobody wants.
LEMMA DeleteRule ==
  ASSUME NEW real, NEW want, GetChangeType(real, want) = "delete"
  PROVE  want = NotExist
<1> DEFINE rules == {r \in changeTypesRule : r[1] = real /\ r[2] = want}
<1>1. rules # {}
  BY DEF GetChangeType, NoChange
<1>2. (CHOOSE r \in rules : TRUE) \in rules
  BY <1>1
<1>3. \A r \in changeTypesRule : r[3] = "delete" => r[2] = NotExist
  BY DEF changeTypesRule
<1>4. (CHOOSE r \in rules : TRUE)[3] = "delete"
  BY <1>1 DEF GetChangeType
<1> QED
  BY <1>2, <1>3, <1>4

LEMMA AllWantedStep ==
  ASSUME WInv, AllWanted, [Next]_vars
  PROVE  AllWanted'
<1>1. rec \in [Keys -> Record]
  BY DEF WInv, PipelineOK
<1>2. \A s \in {Running, Paused, Stop} :
        s # NotExist /\ PreWaitStatus(s) # WaitScheduling
  BY DEF PreWaitStatus, IsFinalStatus, FinalStatuses, Running, Paused, Stop,
         Success, Failed, WaitRunning, WaitPaused, WaitStop, WaitScheduling,
         NotExist
<1>3. CASE rec' = rec
  BY <1>3 DEF AllWanted
<1>4. ASSUME NEW k \in Keys, assignTask(k)
      PROVE  AllWanted'
  BY <1>4 DEF assignTask, AllWanted
<1>5. CASE OperateUpdate
  <2>1. PICK o \in oper : rec' = [rec EXCEPT ![o.key] =
                     [status |-> PreWaitStatus(o.next), want |-> o.next]]
    BY <1>5 DEF OperateUpdate
  <2>2. o.key \in Keys /\ o.next \in {Running, Paused, Stop}
    BY DEF WInv, PipelineOK
  <2> QED
    BY <1>1, <1>2, <2>1, <2>2 DEF AllWanted
<1>6. ASSUME NEW k \in Keys, NEW s, UpdateStatus(k, s), s # WaitScheduling
      PROVE  AllWanted'
  <2>1. \A j \in Keys : /\ rec'[j].want = rec[j].want
                        /\ rec'[j].status \in {rec[j].status, s}
    BY <1>1, <1>6 DEF UpdateStatus, Record
  <2> QED
    BY <1>6, <2>1 DEF AllWanted
<1>7. CASE handleException /\ rec' # rec
  <2>1. PICK c \in Exceptions : UpdateStatus(c.key, Paused)
    BY <1>7 DEF handleException
  <2>2. c.key \in Keys
    <3>1. EnqOK
      BY DEF WInv
    <3> QED
      BY <3>1 DEF EnqOK, Exceptions, AllChanges
  <2> QED
    BY <1>6, <2>1, <2>2 DEF Paused, WaitScheduling
<1>8. CASE MonitorUpdate /\ rec' # rec
  <2>1. UpdateStatus(mon.ev.key, mon.ev.status) /\ mon.ev \in Event
    BY <1>8 DEF MonitorUpdate, WInv, MonOK
  <2>2. mon.ev.key \in Keys /\ mon.ev.status # WaitScheduling
    BY <2>1 DEF Event, LiveStatuses, FinalStatuses, Running, Paused, Stop,
                Success, Failed, WaitScheduling
  <2> QED
    BY <1>6, <2>1, <2>2
<1>9. (\E k \in Keys : Recycle(k)) \/ Crash => rec' = rec
  BY DEF Recycle, Crash, svars
<1> QED
  BY <1>3, <1>4, <1>5, <1>7, <1>8, <1>9, RecordMoves, StepKinds

\* The triggers change only here.
LEMMA TriggersMove ==
  ASSUME Steps, ~WatchTrigger, ~ResyncList, ~ResyncSend, ~TakeTrigger
  PROVE  UNCHANGED <<tasksCh, resyncer>>
<1>1. CASE Enqueuer \/ WaitChange \/ SyncChange \/ Monitor
  BY <1>1 DEF Enqueuer, ListTaskKeys, BatchGetTask, Diff, handleException,
              Enqueue, WaitChange, SyncChange, Monitor, MonitorSet,
              MonitorUpdate, MonitorDone
<1>2. CASE SyncerBlocked \/ (\E i \in Instances : Executor(i)) \/ Forward
  BY <1>2 DEF SyncerBlocked, Executor, Forward, ivars
<1>3. CASE RefreshList \/ RefreshPush \/ Shutdown \/ OperateUpdate
           \/ UNCHANGED vars
  BY <1>3 DEF RefreshList, RefreshPush, Shutdown, OperateUpdate, vars, ivars
<1>4. ASSUME NEW k \in Keys,
             \/ assignTask(k)
             \/ \E next \in {Running, Paused, Stop} : OperateTask(k, next)
      PROVE  UNCHANGED <<tasksCh, resyncer>>
  BY <1>4 DEF assignTask, OperateTask, ivars
<1> QED
  BY <1>1, <1>2, <1>3, <1>4 DEF Steps

\* A list is true when it is made, and stays so if what has gone does not come
\* back.
LEMMA ListsTrueStep ==
  ASSUME NEW gone, NEW now, EndedKeys \subseteq gone, gone \subseteq now,
         WInv, AllWanted, ListsTrue(gone), [Next]_vars
  PROVE  ListsTrue(now)'
<1>1. /\ \A S \in resyncer : Keys \ S \subseteq now
      /\ \A n \in DOMAIN tasksCh :
           tasksCh[n].resync => Keys \ tasksCh[n].keys \subseteq now
  BY DEF ListsTrue
<1>2. Keys \ Runnable \subseteq now
  BY DEF Runnable, AllWanted, EndedKeys, Ended, IsFinalStatus
<1>3. tasksCh \in Seq(Trigger)
  BY DEF WInv, PipelineOK
<1>4. ASSUME NEW r \in BOOLEAN, NEW S \in SUBSET Keys, SendTrigger(r, S),
             r => Keys \ S \subseteq now, resyncer' \subseteq resyncer
      PROVE  ListsTrue(now)'
  <2>1. tasksCh' = Append(tasksCh, [resync |-> r, keys |-> S])
    BY <1>4 DEF SendTrigger
  <2>2. \A n \in DOMAIN tasksCh' :
          \/ n \in DOMAIN tasksCh /\ tasksCh'[n] = tasksCh[n]
          \/ tasksCh'[n] = [resync |-> r, keys |-> S]
    BY <1>3, <2>1
  <2> QED
    BY <1>1, <1>4, <2>2 DEF ListsTrue
<1>5. CASE UNCHANGED <<tasksCh, resyncer>>
  BY <1>1, <1>5 DEF ListsTrue
<1>6. CASE WatchTrigger
  BY <1>4, <1>6 DEF WatchTrigger, WInv, PipelineOK
<1>7. CASE ResyncList
  BY <1>1, <1>2, <1>7 DEF ResyncList, ListsTrue
<1>8. CASE ResyncSend
  <2>1. PICK S \in resyncer : SendTrigger(TRUE, S) /\ resyncer' = {}
    BY <1>8 DEF ResyncSend
  <2>2. S \in SUBSET Keys
    BY DEF WInv, PipelineOK
  <2> QED
    BY <1>1, <1>4, <2>1, <2>2
<1>9. CASE TakeTrigger
  <2>1. tasksCh # <<>> /\ tasksCh' = Tail(tasksCh) /\ resyncer' = resyncer
    BY <1>9 DEF TakeTrigger
  <2>2. \A n \in DOMAIN tasksCh' :
          n + 1 \in DOMAIN tasksCh /\ tasksCh'[n] = tasksCh[n + 1]
    BY <1>3, <2>1
  <2> QED
    BY <1>1, <2>1, <2>2 DEF ListsTrue
<1>10. CASE Crash
  <2>1. /\ tasksCh' = <<[resync |-> TRUE, keys |-> Runnable]>>
        /\ resyncer' = {}
    BY <1>10 DEF Crash
  <2>2. \A n \in DOMAIN tasksCh' : tasksCh'[n].keys = Runnable
    BY <2>1
  <2> QED
    BY <1>2, <2>1, <2>2 DEF ListsTrue
<1>11. ASSUME NEW k \in Keys, Recycle(k)
       PROVE  ListsTrue(now)'
  BY <1>5, <1>11 DEF Recycle
<1> QED
  BY <1>5, <1>6, <1>7, <1>8, <1>9, <1>10, <1>11, TriggersMove, StepKinds

LEMMA LooksTrueStep ==
  ASSUME NEW gone, NEW now, gone \subseteq now,
         WInv, AllWanted, ListsTrue(gone), LooksTrue(gone), [Next]_vars
  PROVE  LooksTrue(now)'
<1>1. EnqOK
  BY DEF WInv
<1>2. ASSUME UNCHANGED enq
      PROVE  LooksTrue(now)'
  BY <1>2 DEF LooksTrue
<1>3. ASSUME enq'.at \in {"idle", "apply"}
      PROVE  LooksTrue(now)'
  BY <1>3 DEF LooksTrue
<1>4. CASE TakeTrigger
  <2> DEFINE t == Head(tasksCh)
             skip == {k \in t.keys : Queue!Exist(k)}
  <2>1. /\ enq' = [IdleEnq EXCEPT !.at = "keys", !.resync = t.resync,
                                  !.keys = t.keys \ skip, !.skip = skip]
        /\ tasksCh # <<>>
    BY <1>4 DEF TakeTrigger
  <2>2. tasksCh \in Seq(Trigger)
    BY DEF WInv, PipelineOK
  <2>3. 1 \in DOMAIN tasksCh /\ t = tasksCh[1]
    BY <2>1, <2>2
  <2>4. t.resync => Keys \ t.keys \subseteq now
    BY <2>3 DEF ListsTrue
  <2>5. skip \subseteq t.keys
    OBVIOUS
  <2> HIDE DEF skip, t
  <2>6. /\ enq'.keys = t.keys \ skip /\ enq'.skip = skip
        /\ enq'.resync = t.resync /\ enq'.at = "keys"
    BY <2>1 DEF IdleEnq
  <2> QED
    BY <2>4, <2>5, <2>6 DEF LooksTrue
<1>5. CASE ListTaskKeys
  <2> DEFINE real == IF enq.resync THEN Cached \ enq.skip ELSE enq.keys
  <2>1. /\ IF enq.keys = {} /\ real = {}
             THEN enq' = IdleEnq
             ELSE enq' = [enq EXCEPT !.at = "want", !.real = real]
        /\ enq.at = "keys"
    BY <1>5 DEF ListTaskKeys
  <2> HIDE DEF real
  <2>2. CASE enq' = IdleEnq
    BY <1>3, <2>2 DEF IdleEnq
  <2>3. CASE enq' = [enq EXCEPT !.at = "want", !.real = real]
    <3>1. /\ enq'.at = "want" /\ enq'.real = real /\ enq'.skip = enq.skip
          /\ enq'.keys = enq.keys /\ enq'.resync = enq.resync
      BY <1>1, <2>3 DEF EnqOK
    <3>2. enq.keys = {} /\ real = {} => enq'.at = "idle"
      BY <2>1 DEF IdleEnq
    <3> QED
      BY <2>1, <3>1, <3>2 DEF LooksTrue, real
  <2> QED
    BY <2>1, <2>2, <2>3
<1>6. CASE BatchGetTask
  <2> DEFINE want == [k \in enq.keys |-> rec[k]]
  <2>1. /\ enq' = IdleEnq \/ enq' = [enq EXCEPT !.at = "real", !.want = want]
        /\ enq.at = "want"
    BY <1>6 DEF BatchGetTask
  <2>2. \A k \in enq.keys : want[k].want # NotExist
    BY <1>1 DEF AllWanted, EnqOK
  <2> HIDE DEF want
  <2>3. CASE enq' = IdleEnq
    BY <1>3, <2>3 DEF IdleEnq
  <2>4. CASE enq' = [enq EXCEPT !.at = "real", !.want = want]
    <3>1. /\ enq'.at = "real" /\ enq'.real = enq.real /\ enq'.skip = enq.skip
          /\ enq'.keys = enq.keys /\ enq'.resync = enq.resync
          /\ enq'.want = want
      BY <1>1, <2>4 DEF EnqOK
    <3> QED
      BY <2>1, <2>2, <3>1 DEF LooksTrue
  <2> QED
    BY <2>1, <2>3, <2>4
<1>7. CASE Diff
  BY <1>3, <1>7 DEF Diff, IdleEnq
<1>8. CASE handleException \/ Enqueue
  <2>1. PICK c \in enq.changes : enq' = WithoutChange(c) /\ enq.at = "apply"
    BY <1>8 DEF handleException, Enqueue, Exceptions
  <2> QED
    BY <1>3, <2>1, Leftover
<1>9. CASE Steps /\ ~Enqueuer
  <2>1. CASE Touching
    BY <1>2, <1>9, <2>1 DEF Touching, WaitChange, SyncChange, Monitor,
                            MonitorSet, MonitorUpdate, MonitorDone
  <2> QED
    BY <1>2, <1>9, <2>1, FewTouch
<1>10. CASE Crash
  BY <1>3, <1>10 DEF Crash, IdleEnq
<1>11. ASSUME NEW k \in Keys, Recycle(k)
       PROVE  LooksTrue(now)'
  BY <1>2, <1>11 DEF Recycle
<1> QED
  BY <1>4, <1>5, <1>6, <1>7, <1>8, <1>9, <1>10, <1>11, StepKinds DEF Enqueuer

\* What Diff decides to kill is cached, nobody has listed it, and it has not
\* ended as far as the cache knows.
LEMMA DiffDecides ==
  ASSUME NEW gone, WInv, LooksTrue(gone), NothingSkipped, Diff,
         NEW c \in enq'.changes
  PROVE  /\ c.type = "delete" => c.key \notin enq.keys
         /\ c.key \notin enq.keys => c.key \in gone
         /\ IsFinalStatus(cache[c.key]) =>
              c.key \in enq.keys /\ enq.real # {} /\ c.key \notin enq.real
<1> DEFINE real      == ListTasks(enq.real)
           status(k) == IF k \in real THEN cache[k] ELSE NotExist
           of(k)     == diff(k, enq.want, k \in enq.keys, status(k))
           changes   == UNION {of(k) : k \in enq.keys \cup real}
<1>1. enq.keys \cup real \subseteq Keys /\ enq.at = "real"
  BY DEF ListTasks, Cached, WInv, EnqOK, Diff
<1>2. enq' = IF changes = {} THEN IdleEnq
               ELSE [IdleEnq EXCEPT !.at = "apply", !.changes = changes]
  BY DEF Diff
<1>3. \A d \in changes : \E k \in enq.keys \cup real : d \in of(k)
  OBVIOUS
<1> HIDE DEF changes, of
<1>4. enq'.changes = changes
  BY <1>2 DEF IdleEnq
<1>5. PICK k \in enq.keys \cup real : c \in of(k)
  BY <1>3, <1>4
<1>6. /\ c.key = k /\ ~IsFinalStatus(status(k))
      /\ c.type = GetChangeType(status(k),
                                IF k \in enq.keys THEN enq.want[k].want ELSE NotExist)
  <2> DEFINE st     == status(k)
             wanted == k \in enq.keys
  <2>1. c \in diff(k, enq.want, wanted, st)
    BY <1>5 DEF of
  <2> HIDE DEF st, wanted
  <2>2. /\ c.key = k
        /\ c.type = GetChangeType(st, IF wanted THEN enq.want[k].want ELSE NotExist)
    BY <1>1, <2>1, DiffTypes
  <2>3. ~IsFinalStatus(st)
    BY <2>1 DEF diff
  <2> QED
    BY <2>2, <2>3 DEF st, wanted
<1>7. ASSUME c.type = "delete", k \in enq.keys
      PROVE  FALSE
  <2> DEFINE st == status(k)
  <2>1. GetChangeType(st, enq.want[k].want) = "delete"
    BY <1>6, <1>7
  <2> HIDE DEF st
  <2>2. enq.want[k].want = NotExist
    BY <2>1, DeleteRule
  <2> QED
    BY <1>1, <1>7, <2>2 DEF LooksTrue
<1>8. ASSUME k \notin enq.keys
      PROVE  k \in gone /\ k \in real
  <2>1. k \in Keys /\ k \in real
    BY <1>1, <1>8
  <2>2. enq.resync /\ k \notin enq.skip
    BY <1>1, <1>8, <2>1 DEF LooksTrue, ListTasks, NothingSkipped
  <2> QED
    BY <1>1, <1>8, <2>1, <2>2 DEF LooksTrue
<1>9. IsFinalStatus(cache[k]) => k \notin real
  BY <1>6
<1>10. k \notin real => (enq.real # {} /\ k \notin enq.real) \/ cache[k] = NotExist
  BY <1>1 DEF ListTasks, Cached
<1>11. ~IsFinalStatus(NotExist)
  BY DEF IsFinalStatus, FinalStatuses, NotExist, Success, Failed, Stop
<1> HIDE DEF real
<1> QED
  BY <1>6, <1>7, <1>8, <1>9, <1>10, <1>11

LEMMA DeletesOfStep ==
  ASSUME NEW gone, NEW now, gone \subseteq now, WInv, DeletesOf(gone), [Next]_vars,
         Diff => \A c \in enq'.changes : c.type = "delete" => c.key \in now
  PROVE  DeletesOf(now)'
BY WayMoves DEF DeletesOf

LEMMA ExitBegins ==
  ASSUME Init, Assigned = Keys
  PROVE  ExitInv
<1>1. /\ rec = [k \in Keys |-> [status |-> PreWaitStatus(Running), want |-> Running]]
      /\ tasksCh = <<[resync |-> TRUE, keys |-> Keys]>> /\ resyncer = {}
      /\ enq = IdleEnq /\ pending = <<>> /\ change = {}
  BY DEF Init, Started
<1>2. Running # NotExist /\ PreWaitStatus(Running) # WaitScheduling
  BY DEF PreWaitStatus, IsFinalStatus, FinalStatuses, Running, Paused, Stop,
         Success, Failed, WaitRunning, WaitScheduling, NotExist
<1>3. AllWanted
  BY <1>1, <1>2 DEF AllWanted
<1>4. \A n \in DOMAIN tasksCh : tasksCh[n].keys = Keys
  BY <1>1
<1>5. enq.at = "idle" /\ enq.changes = {}
  BY <1>1 DEF IdleEnq
<1> QED
  BY <1>1, <1>3, <1>4, <1>5
  DEF ExitInv, ListsTrue, LooksTrue, DeletesOf, Way

\* A wanted task is killed for one of three reasons and for no other, whatever
\* users, tasks and timers do and however often the worker crashes: it was
\* assigned after the list of the resync was made, the resync looked at a task
\* it had left out of the list (NothingSkipped), or the record had been final
\* and went back (FinalKept).  A resync acts on a list as old as you like.
THEOREM KilledOnlyIfEnded ==
  ASSUME Assigned = Keys
  PROVE  Spec /\ FinalKept /\ []NothingSkipped => []NoExitOfWanted
<1> DEFINE Kept == \A k \in Keys : IsFinalStatus(rec[k].status)
                                     => rec'[k].status = rec[k].status
<1>1. Init => WInv /\ ExitInv
  BY WorkerTypeInit, ExitBegins
<1>2. WInv /\ ExitInv /\ NothingSkipped /\ [Next]_vars /\ [Kept]_vars
        => (WInv /\ ExitInv)'
  <2> SUFFICES ASSUME WInv, ExitInv, NothingSkipped, [Next]_vars, [Kept]_vars
               PROVE  (WInv /\ ExitInv)'
    OBVIOUS
  <2>1. \A k \in Keys : Ended(k) => Ended(k)'
    BY DEF Ended, vars, svars
  <2>2. EndedKeys \subseteq EndedKeys'
    BY <2>1 DEF EndedKeys
  <2>3. ListsTrue(EndedKeys)'
    BY <2>2, ListsTrueStep DEF ExitInv, ListsTrue
  <2>4. LooksTrue(EndedKeys)'
    BY <2>2, LooksTrueStep DEF ExitInv, LooksTrue
  <2>5. Diff => \A c \in enq'.changes : c.type = "delete" => c.key \in EndedKeys'
    BY <2>2, DiffDecides DEF ExitInv
  <2>6. DeletesOf(EndedKeys)'
    BY <2>2, <2>5, DeletesOfStep DEF ExitInv, DeletesOf
  <2> QED
    BY <2>3, <2>4, <2>6, WorkerTypeStep, AllWantedStep DEF ExitInv
<1>3. ExitInv => NoExitOfWanted
  BY DEF ExitInv, DeletesOf, Way, EndedKeys, Ended, NoExitOfWanted, Runnable,
         IsFinalStatus
<1>4. FinalKept => [][Kept]_vars
  BY PTL DEF FinalKept
<1> HIDE DEF Kept
<1> QED
  BY <1>1, <1>2, <1>3, <1>4, PTL DEF Spec

\* A worker of one task looks at that task or skips it, and looks at something.
OneLook ==
  /\ enq.at \in {"keys", "want", "real"} => enq.keys \cap enq.skip = {}
  /\ enq.at \in {"want", "real"} => enq.keys # {} \/ enq.real # {}

LEMMA OneLookStep ==
  ASSUME WInv, OneLook, [Next]_vars
  PROVE  OneLook'
<1>1. ASSUME enq' = enq \/ enq'.at \in {"idle", "apply"}
      PROVE  OneLook'
  BY <1>1 DEF OneLook
<1>2. CASE TakeTrigger
  <2> DEFINE t    == Head(tasksCh)
             skip == {k \in t.keys : Queue!Exist(k)}
  <2>1. enq' = [IdleEnq EXCEPT !.at = "keys", !.resync = t.resync,
                               !.keys = t.keys \ skip, !.skip = skip]
    BY <1>2 DEF TakeTrigger
  <2> HIDE DEF skip, t
  <2>2. enq'.keys = t.keys \ skip /\ enq'.skip = skip /\ enq'.at = "keys"
    BY <2>1 DEF IdleEnq
  <2> QED
    BY <2>2 DEF OneLook
<1>3. CASE ListTaskKeys
  <2> DEFINE real == IF enq.resync THEN Cached \ enq.skip ELSE enq.keys
  <2>1. /\ enq' = IF enq.keys = {} /\ real = {}
                    THEN IdleEnq
                    ELSE [enq EXCEPT !.at = "want", !.real = real]
        /\ enq.at = "keys"
    BY <1>3 DEF ListTaskKeys
  <2> HIDE DEF real
  <2>2. ASSUME enq.keys # {} \/ real # {}
        PROVE  /\ enq'.at = "want" /\ enq'.keys = enq.keys /\ enq'.skip = enq.skip
               /\ enq'.real = real
    BY <2>1, <2>2 DEF WInv, EnqOK
  <2>3. ASSUME enq.keys = {} /\ real = {}
        PROVE  enq'.at = "idle"
    BY <2>1, <2>3 DEF IdleEnq
  <2>4. enq.keys \cap enq.skip = {}
    BY <2>1 DEF OneLook
  <2> QED
    BY <1>1, <2>2, <2>3, <2>4 DEF OneLook
<1>4. CASE BatchGetTask
  BY <1>4, LooksOn DEF ListTaskKeys, BatchGetTask, OneLook
<1>5. CASE Diff
  BY <1>1, <1>5 DEF Diff, IdleEnq
<1>6. CASE handleException \/ Enqueue
  <2>1. PICK c \in enq.changes : enq' = WithoutChange(c) /\ enq.at = "apply"
    BY <1>6 DEF handleException, Enqueue, Exceptions
  <2> QED
    BY <1>1, <2>1, Leftover
<1>7. CASE Crash \/ (\E k \in Keys : Recycle(k))
  BY <1>1, <1>7 DEF Crash, Recycle, IdleEnq
<1>8. CASE Steps /\ ~Enqueuer
  <2>1. enq' = enq
    BY <1>8, FewTouch DEF Touching, WaitChange, SyncChange, Monitor, MonitorSet,
                          MonitorUpdate, MonitorDone
  <2> QED
    BY <1>1, <2>1
<1> QED
  BY <1>2, <1>3, <1>4, <1>5, <1>6, <1>7, <1>8, StepKinds DEF Enqueuer

\* A resync that found nothing cached can look at a key it had left out only
\* when there is another key to look at.
THEOREM NothingSkippedOfOne ==
  ASSUME \A j, k \in Keys : j = k
  PROVE  Spec => []NothingSkipped
<1>1. Init => WInv /\ OneLook
  <2>1. Init => OneLook
    BY DEF Init, Started, IdleEnq, OneLook
  <2> QED
    BY <2>1, WorkerTypeInit
<1>2. WInv /\ OneLook /\ [Next]_vars => (WInv /\ OneLook)'
  BY WorkerTypeStep, OneLookStep
<1>3. WInv /\ OneLook => NothingSkipped
  BY DEF OneLook, NothingSkipped, WInv, EnqOK
<1> QED
  BY <1>1, <1>2, <1>3, PTL DEF Spec

-----------------------------------------------------------------------------
(* A worker that does not crash, of tasks that end when told to.           *)

CachedFinals == {k \in Keys : IsFinalStatus(cache[k])}

\* No operation of task k is with the executor ...
AtEase(k) ==
  ~Starting(k) /\ ~Asked(k) /\ ~Replying(k) /\ ~Failing(k) /\ ~Sent(k)

\* ... nor anywhere before or after it, but with the monitor.
Finished(k) == AtEase(k) /\ ~Passed(k) /\ \A c \in Way : c.key # k

\* The cache hears of the end of a task last, and the record from the cache.
FinalsFinished == \A k \in CachedFinals : Finished(k)

FinalsCached ==
  /\ EndedKeys \subseteq CachedFinals
  /\ mon.at # "idle" => cache[mon.ev.key] = mon.ev.status

\* What was decided is of keys that the queue does not know.
ChangesFree == \A c \in enq.changes : ~Queue!Exist(c.key)

\* No list, however old, leaves out a task that goes on: none is killed.
SpareInv ==
  /\ AllWanted /\ FinalsFinished /\ FinalsCached /\ ChangesFree
  /\ ListsTrue(CachedFinals) /\ LooksTrue(CachedFinals) /\ DeletesOf({})

\* An operation gets into the executor with a call.
LEMMA AtEaseStays ==
  ASSUME AnswersOnly, TInv, CInv, OpInv, NEW k \in Keys, AtEase(k),
         \/ \E j \in Keys \ {k} : Call(j)
         \/ CallerStep \/ Recv
         \/ \E i \in Instances : Inner(i) \/ Outer(i)
         \/ UNCHANGED evars
  PROVE  AtEase(k)'
<1>1. /\ chans \in [Instances -> SUBSET Chans]
      /\ inner \in [Instances -> InnerPcs] /\ outer \in [Instances -> OuterPcs]
      /\ \A i \in 1..runs : i \in Instances
  BY KeyOfRun DEF TInv, ETypeOK
<1>2. /\ \A i \in 1..runs : keyOf[i] = k =>
             chans[i] = {} /\ inner[i] # "send" /\ outer[i] # "report"
      /\ \A n \in DOMAIN resultChan : resultChan[n].key # k
      /\ caller.at \in {"runSync", "runSend"} => keyOf[caller.inst] # k
  BY DEF AtEase, Asked, Replying, Failing, Sent, Starting
<1>3. ASSUME keyOf' = keyOf,
             \A i \in 1..runs : keyOf[i] = k =>
               /\ chans'[i] \subseteq chans[i]
               /\ inner'[i] = "send" => inner[i] = "send"
               /\ outer'[i] = "report" => outer[i] = "report",
             Sent(k)' => Sent(k), Starting(k)' => Starting(k)
      PROVE  AtEase(k)'
  <2>1. runs' = runs
    BY <1>3 DEF runs
  <2> QED
    BY <1>2, <1>3, <2>1 DEF AtEase, Asked, Replying, Failing
<1>4. ASSUME NEW j \in Keys, Run(j), j # k
      PROVE  AtEase(k)'
  <2>1. /\ runs \in Nat /\ runs' = runs + 1
        /\ \A i \in 1..runs : keyOf'[i] = keyOf[i]
        /\ keyOf'[runs + 1] = j
    BY <1>4, RunMakes
  <2>2. \A i \in 1..runs' : keyOf'[i] = k => i \in 1..runs /\ keyOf[i] = k
    BY <1>4, <2>1
  <2>3. /\ outer' = [outer EXCEPT ![runs + 1] = "start"]
        /\ caller'.inst = runs + 1
        /\ UNCHANGED <<resultChan, chans, inner>>
    BY <1>4 DEF Run
  <2>4. \A i \in 1..runs : outer'[i] = outer[i]
    BY <1>1, <2>1, <2>3
  <2> QED
    BY <1>2, <1>4, <2>1, <2>2, <2>3, <2>4
    DEF AtEase, Asked, Replying, Failing, Sent, Starting
<1>5. ASSUME NEW j \in Keys, Call(j), ~Run(j), j # k
      PROVE  AtEase(k)'
  <2>1. PICK g, c : Control(j, g, c)
    BY <1>5 DEF Call, Exit, StopTask, Pause, Resume
  <2> DEFINE b == ctrls[j]
  <2>2. /\ Put(b, c) /\ b \in 1..runs /\ keyOf[b] = j
        /\ UNCHANGED <<resultChan, keyOf, inner, outer>>
    BY <2>1 DEF Control, Put, CInv, MapsToOwnKey
  <2> HIDE DEF b
  <2>3. /\ chans' = chans \/ chans' = [chans EXCEPT ![b] = @ \cup {c}]
        /\ caller'.at \in {"send", "idle"}
    BY <2>2 DEF Put, Idle
  <2>4. \A i \in 1..runs : keyOf[i] = k => chans'[i] = chans[i]
    BY <1>1, <1>5, <2>2, <2>3
  <2> QED
    BY <1>3, <2>2, <2>3, <2>4 DEF Sent, Starting
<1>6. CASE CallerStep
  <2>1. CASE RunSync
    <3>1. caller' = [caller EXCEPT !.at = "runSend"] /\ caller.at = "runSync"
      BY <2>1 DEF RunSync
    <3>2. caller'.inst = caller.inst
      BY <3>1 DEF TInv, ETypeOK
    <3> QED
      BY <1>3, <2>1, <3>1, <3>2 DEF RunSync, Sent, Starting
  <2>2. CASE RunSend
    <3>1. /\ resultChan' = Append(resultChan,
                                  [key |-> keyOf[caller.inst], status |-> Running])
          /\ keyOf[caller.inst] # k /\ caller'.at = "idle"
          /\ UNCHANGED <<keyOf, chans, inner, outer>>
      BY <1>2, <2>2 DEF RunSend, Send, Idle
    <3>2. \E S : resultChan \in Seq(S)
      BY DEF TInv, ETypeOK
    <3>3. \A n \in DOMAIN resultChan' :
            \/ n \in DOMAIN resultChan /\ resultChan'[n] = resultChan[n]
            \/ resultChan'[n].key = keyOf[caller.inst]
      BY <3>1, <3>2
    <3> QED
      BY <1>3, <3>1, <3>3 DEF Sent, Starting
  <2>3. ~PutBlocked
    BY DEF PutBlocked, OpInv, OneToken
  <2> QED
    BY <1>6, <2>1, <2>2, <2>3 DEF CallerStep
<1>7. CASE Recv
  <2>1. /\ resultChan # <<>> /\ resultChan' = Tail(resultChan)
        /\ UNCHANGED <<keyOf, chans, inner, outer, caller>>
    BY <1>7 DEF Recv
  <2>2. \E S : resultChan \in Seq(S)
    BY DEF TInv, ETypeOK
  <2>3. \A n \in DOMAIN resultChan' :
          n + 1 \in DOMAIN resultChan /\ resultChan'[n] = resultChan[n + 1]
    BY <2>1, <2>2
  <2> QED
    BY <1>3, <2>1, <2>3 DEF Sent, Starting
<1>8. ASSUME NEW i \in Instances, InnerSend(i) \/ OuterSend(i)
      PROVE  AtEase(k)'
  <2>1. i \in 1..runs
    BY <1>8, ActiveIsMade DEF InnerSend, OuterSend
  <2>2. keyOf[i] # k
    BY <1>2, <1>8, <2>1 DEF InnerSend, OuterSend
  <2>3. /\ \E s : resultChan' = Append(resultChan, [key |-> keyOf[i], status |-> s])
        /\ UNCHANGED <<keyOf, chans, caller>>
        /\ \A j \in Instances \ {i} : inner'[j] = inner[j] /\ outer'[j] = outer[j]
    BY <1>1, <1>8 DEF InnerSend, OuterSend, Send
  <2>4. \E S : resultChan \in Seq(S)
    BY DEF TInv, ETypeOK
  <2>5. \A n \in DOMAIN resultChan' :
          \/ n \in DOMAIN resultChan /\ resultChan'[n] = resultChan[n]
          \/ resultChan'[n].key = keyOf[i]
    BY <2>3, <2>4
  <2> QED
    BY <1>1, <1>3, <2>2, <2>3, <2>5 DEF Sent, Starting
<1>9. ASSUME NEW i \in Instances, InnerObey(i) \/ PausedObey(i)
      PROVE  AtEase(k)'
  <2>1. PICK c, s : Obey(i, c, s) /\ inner[i] \in {"loop", "paused"}
    BY <1>9 DEF InnerObey, PausedObey
  <2> DEFINE b == bound[i]
  <2>2. i \in 1..runs /\ b \in 1..runs /\ keyOf[b] = keyOf[i]
    BY <2>1, ActiveIsMade DEF OpInv, LoopsBound
  <2>3. /\ c \in chans[b] /\ chans' = [chans EXCEPT ![b] = @ \ {c}]
        /\ inner' = [inner EXCEPT ![i] = "send"]
        /\ UNCHANGED <<resultChan, keyOf, outer, caller>>
    BY <2>1 DEF Obey, Sync
  <2> HIDE DEF b
  <2>4. keyOf[i] # k
    BY <1>2, <2>2, <2>3
  <2>5. \A j \in 1..runs : keyOf[j] = k => chans'[j] = chans[j] /\ inner'[j] = inner[j]
    BY <1>1, <2>2, <2>3, <2>4
  <2> QED
    BY <1>3, <2>3, <2>5 DEF Sent, Starting
<1>10. ASSUME NEW i \in Instances,
              InnerStart(i) \/ CallBizLogic(i) \/ BizLogicReturns(i)
       PROVE  AtEase(k)'
  <2>1. /\ UNCHANGED <<resultChan, keyOf, chans, outer, caller>>
        /\ \E pc \in {"loop", "call", "crashed"} : inner' = [inner EXCEPT ![i] = pc]
    BY <1>10 DEF InnerStart, CallBizLogic, BizLogicReturns, Sync, AnswersOnly
  <2>2. \A j \in Instances : inner'[j] = "send" => inner[j] = "send"
    BY <1>1, <2>1
  <2> QED
    BY <1>1, <1>3, <2>1, <2>2 DEF Sent, Starting
<1>11. ASSUME NEW i \in Instances, OuterExit(i)
       PROVE  AtEase(k)'
  <2>1. /\ outer[i] = "wait" /\ "exit" \in chans[i]
        /\ chans' = [chans EXCEPT ![i] = @ \ {"exit"}]
        /\ outer' = [outer EXCEPT ![i] = "report"]
        /\ UNCHANGED <<resultChan, keyOf, inner, caller>>
    BY <1>11 DEF OuterExit
  <2>2. i \in 1..runs => keyOf[i] # k
    BY <1>2, <2>1
  <2>3. \A j \in Instances \ {i} : chans'[j] = chans[j] /\ outer'[j] = outer[j]
    BY <1>1, <2>1
  <2> QED
    BY <1>1, <1>3, <2>1, <2>2, <2>3 DEF Sent, Starting
<1>12. ASSUME NEW i \in Instances, OuterStart(i) \/ OuterFinish(i) \/ OuterDelete(i)
       PROVE  AtEase(k)'
  <2>1. OuterFinish(i) => inner[i] # "crashed"
    BY DEF OuterFinish, OpInv, LoopsBound
  <2>2. /\ UNCHANGED <<resultChan, keyOf, chans, caller>>
        /\ inner' = inner \/ inner' = [inner EXCEPT ![i] = "start"]
        /\ \E pc \in {"wait", "delete", "gone"} : outer' = [outer EXCEPT ![i] = pc]
    BY <1>12, <2>1 DEF OuterStart, OuterFinish, OuterDelete
  <2>3. \A j \in Instances : /\ inner'[j] = "send" => inner[j] = "send"
                             /\ outer'[j] = "report" => outer[j] = "report"
    BY <1>1, <2>2
  <2> QED
    BY <1>1, <1>3, <2>2, <2>3 DEF Sent, Starting
<1>13. CASE UNCHANGED evars
  BY <1>3, <1>13 DEF evars, Sent, Starting
<1> QED
  BY <1>4, <1>5, <1>6, <1>7, <1>8, <1>9, <1>10, <1>11, <1>12, <1>13
  DEF Call, Inner, Outer

LEMMA FinishedStays ==
  ASSUME AnswersOnly, WInv, CInv, OpInv, Steps, NEW k \in Keys, Finished(k),
         Diff => \A c \in enq'.changes : c.key # k
  PROVE  Finished(k)'
<1>1. \A c \in Way' : c.key # k
  <2>1. [Next]_vars
    BY DEF Steps, Next
  <2> QED
    BY <2>1, WayMoves DEF Finished
<1>2. AtEase(k)'
  <2>1. \A c \in change : ChangeHandle(c) => Call(c.key) /\ c.key # k
    BY DEF ChangeHandle, Call, Finished, Way
  <2> QED
    BY <2>1, StepCalls, AtEaseStays DEF WInv, Finished
<1>3. ch \in Seq(Event) /\ resultChan \in Seq(Event)
  BY DEF WInv, PipelineOK, TInv, ETypeOK, Event
<1>4. ~Passed(k)'
  <2>1. CASE ch' = ch
    BY <2>1 DEF Finished, Passed
  <2>2. CASE Forward
    <3>1. resultChan # <<>> /\ ch' = Append(ch, Head(resultChan))
      BY <2>2 DEF Forward, Recv, SendEvent
    <3>2. 1 \in DOMAIN resultChan /\ Head(resultChan) = resultChan[1]
      BY <1>3, <3>1
    <3>3. \A n \in DOMAIN ch' :
            (n \in DOMAIN ch /\ ch'[n] = ch[n]) \/ ch'[n] = resultChan[1]
      BY <1>3, <3>1, <3>2
    <3> QED
      BY <3>2, <3>3 DEF Finished, AtEase, Sent, Passed
  <2>3. CASE MonitorSet
    <3>1. ch # <<>> /\ ch' = Tail(ch)
      BY <2>3 DEF MonitorSet
    <3>2. \A n \in DOMAIN ch' : n + 1 \in DOMAIN ch /\ ch'[n] = ch[n + 1]
      BY <1>3, <3>1
    <3> QED
      BY <3>2 DEF Finished, Passed
  <2>4. ~RefreshPush
    BY DEF RefreshPush, OpInv
  <2>5. CASE MonitorUpdate \/ MonitorDone \/ RefreshList
    BY <2>1, <2>5 DEF MonitorUpdate, MonitorDone, RefreshList
  <2> QED
    BY <2>1, <2>2, <2>3, <2>4, <2>5, PipelineMoves DEF Monitor
<1> QED
  BY <1>1, <1>2, <1>4 DEF Finished

\* The cache changes with an event, which the monitor then has.
LEMMA CacheMoves ==
  ASSUME WInv, OpInv, Steps
  PROVE  \/ cache' = cache /\ (mon'.at # "idle" => mon.at # "idle" /\ mon'.ev = mon.ev)
         \/ \E k \in Keys : /\ MonitorSet /\ Passed(k) /\ Head(ch).key = k
                            /\ cache' = [cache EXCEPT ![k] = Head(ch).status]
                            /\ mon'.ev = Head(ch)
<1>1. CASE MonitorSet
  <2>1. /\ ch # <<>> /\ mon' = [at |-> "update", ev |-> Head(ch)]
        /\ cache' = [cache EXCEPT ![Head(ch).key] = Head(ch).status]
    BY <1>1 DEF MonitorSet
  <2>2. 1 \in DOMAIN ch /\ Head(ch) = ch[1] /\ ch[1].key \in Keys
    BY <2>1, EventStatus DEF WInv, PipelineOK
  <2> QED
    BY <1>1, <2>1, <2>2 DEF Passed
<1>2. CASE MonitorUpdate \/ MonitorDone
  <2>1. cache' = cache
    BY <1>2 DEF MonitorUpdate, MonitorDone
  <2>2. mon'.at # "idle" => mon.at # "idle" /\ mon'.ev = mon.ev
    BY <1>2 DEF MonitorUpdate, MonitorDone, IdleMon, WInv, MonOK
  <2> QED
    BY <2>1, <2>2
<1>3. CASE Forward \/ RefreshList
  BY <1>3 DEF Forward, RefreshList
<1>4. ~RefreshPush
  BY DEF RefreshPush, OpInv
<1> QED
  BY <1>1, <1>2, <1>3, <1>4, PipelineMoves DEF Monitor

\* A change is decided for a key that was listed, is not in the queue and has
\* not ended as far as the cache knows; it is no delete.
LEMMA DiffSpares ==
  ASSUME WInv, KeysFree, LooksAtCached, NothingSkipped, LooksTrue(CachedFinals),
         Diff, NEW c \in enq'.changes
  PROVE  /\ c.type # "delete" /\ c.key \notin CachedFinals
         /\ ~Queue!Exist(c.key)
<1>1. /\ c.type = "delete" => c.key \notin enq.keys
      /\ c.key \notin enq.keys => c.key \in CachedFinals
      /\ IsFinalStatus(cache[c.key]) =>
           c.key \in enq.keys /\ enq.real # {} /\ c.key \notin enq.real
  BY DiffDecides
<1>2. ~IsFinalStatus(NotExist)
  BY DEF IsFinalStatus, FinalStatuses, NotExist, Success, Failed, Stop
<1>3. enq.at = "real" /\ enq.keys \subseteq Keys
  BY DEF Diff, WInv, EnqOK
<1>4. ~IsFinalStatus(cache[c.key])
  BY <1>1, <1>2, <1>3 DEF LooksAtCached, Cached
<1> QED
  BY <1>1, <1>3, <1>4 DEF CachedFinals, KeysFree

\* An end that has been noted stays noted.
LEMMA CachedFinalsStay ==
  ASSUME WInv, OpInv, Steps, FinalsFinished
  PROVE  CachedFinals \subseteq CachedFinals'
<1> SUFFICES ASSUME NEW k \in CachedFinals
             PROVE  cache'[k] = cache[k]
  BY DEF CachedFinals
<1>1. k \in Keys /\ ~Passed(k)
  BY DEF CachedFinals, FinalsFinished, Finished
<1>2. CASE cache' = cache
  BY <1>2
<1>3. ASSUME NEW j \in Keys, Passed(j),
             cache' = [cache EXCEPT ![j] = Head(ch).status]
      PROVE  cache'[k] = cache[k]
  <2>1. j # k
    BY <1>1, <1>3
  <2> QED
    BY <1>1, <1>3, <2>1 DEF WInv, PipelineOK
<1> QED
  BY <1>2, <1>3, CacheMoves

LEMMA FinalsFinishedStep ==
  ASSUME AnswersOnly, WInv, CInv, KeyOnce, OpInv, Steps, FinalsFinished,
         ChangesFree, Diff => \A c \in enq'.changes : c.key \notin CachedFinals
  PROVE  FinalsFinished'
<1> SUFFICES ASSUME NEW k \in Keys, IsFinalStatus(cache'[k])
             PROVE  Finished(k)'
  BY DEF FinalsFinished, CachedFinals
<1>1. CASE IsFinalStatus(cache[k])
  BY <1>1, FinishedStays DEF FinalsFinished, CachedFinals
<1>2. CASE ~IsFinalStatus(cache[k])
  <2>1. MonitorSet /\ Passed(k) /\ Head(ch).key = k
    <3>1. PICK j \in Keys : /\ MonitorSet /\ Passed(j) /\ Head(ch).key = j
                            /\ cache' = [cache EXCEPT ![j] = Head(ch).status]
      BY <1>2, CacheMoves
    <3> QED
      BY <1>2, <3>1 DEF WInv, PipelineOK
  <2>2. /\ UNCHANGED <<evars, enq, pending, change>>
        /\ ch # <<>> /\ ch' = Tail(ch)
    BY <2>1 DEF MonitorSet
  <2>3. /\ k \in active /\ ~Taken(k)
        /\ ~Starting(k) /\ ~Asked(k) /\ ~Replying(k) /\ ~Failing(k) /\ ~Sent(k)
    BY <2>1, OnlyThere, PlaceFacts DEF OpInv, OnePlace, Places
  <2>4. AtEase(k)'
    BY <2>2, <2>3 DEF AtEase, Starting, Asked, Replying, Failing, Sent, evars, runs
  <2>5. \A c \in Way : c.key # k
    BY <2>3 DEF Way, Taken, KeyOnce, ChangesFree, Queue!Exist
  <2>6. Way' = Way
    BY <2>2 DEF Way
  <2>7. ~Passed(k)'
    <3>1. ch \in Seq(Event)
      BY DEF WInv, PipelineOK
    <3>2. /\ 1 \in DOMAIN ch /\ Head(ch) = ch[1]
          /\ \A n \in DOMAIN ch' : /\ n + 1 \in DOMAIN ch /\ n + 1 # 1
                                   /\ ch'[n] = ch[n + 1]
      BY <2>2, <3>1
    <3> QED
      BY <2>1, <3>2 DEF OpInv, OneAnswer, Passed
  <2> QED
    BY <2>4, <2>5, <2>6, <2>7 DEF Finished
<1> QED
  BY <1>1, <1>2

LEMMA FinalsCachedStep ==
  ASSUME WInv, OpInv, Steps, FinalsFinished, FinalsCached
  PROVE  FinalsCached'
<1>1. CachedFinals \subseteq CachedFinals'
  BY CachedFinalsStay
<1>2. EndedKeys' \subseteq EndedKeys \cup {k \in Keys : Records(k)}
  BY FinalRecordStep DEF EndedKeys, Ended
<1>3. {k \in Keys : Records(k)} \subseteq CachedFinals
  BY DEF Records, FinalsCached, CachedFinals
<1>4. mon'.at # "idle" => cache'[mon'.ev.key] = mon'.ev.status
  BY CacheMoves DEF FinalsCached, WInv, PipelineOK
<1>5. EndedKeys' \subseteq CachedFinals'
  BY <1>1, <1>2, <1>3 DEF FinalsCached
<1> QED
  BY <1>4, <1>5 DEF FinalsCached

LEMMA ChangesFreeStep ==
  ASSUME WInv, Steps, KeysFree, ChangesFree,
         Diff => \A c \in enq'.changes : ~Queue!Exist(c.key)
  PROVE  ChangesFree'
<1>1. ASSUME enq'.changes \subseteq enq.changes, ~Enqueue
      PROVE  ChangesFree'
  BY <1>1, KnownBefore DEF ChangesFree
<1>2. CASE TakeTrigger
  <2>1. enq'.changes = {}
    BY <1>2 DEF TakeTrigger, IdleEnq
  <2> QED
    BY <2>1 DEF ChangesFree
<1>3. CASE ListTaskKeys \/ BatchGetTask
  <2>1. enq'.changes \subseteq enq.changes /\ ~Enqueue
    BY <1>3, LooksOn
  <2> QED
    BY <1>1, <2>1
<1>4. CASE Diff
  <2>1. ~Enqueue
    BY <1>4 DEF Diff, Enqueue
  <2> QED
    BY <1>4, <2>1, KnownBefore DEF ChangesFree
<1>5. CASE handleException /\ ~Enqueue
  <2>1. PICK c \in enq.changes : enq' = WithoutChange(c) /\ enq.at = "apply"
    BY <1>5 DEF handleException, Exceptions
  <2> QED
    BY <1>1, <1>5, <2>1, Leftover
<1>6. CASE Enqueue
  <2>1. PICK c \in enq.changes :
          /\ enq' = WithoutChange(c)
          /\ \A k : Queue!Exist(k)' => Queue!Exist(k) \/ k = c.key
    BY <1>6, EnqueueKnows
  <2>2. enq'.changes = enq.changes \ {c}
    BY <1>6, <2>1, Leftover DEF Enqueue
  <2> QED
    BY <2>1, <2>2 DEF ChangesFree, KeysFree
<1>7. CASE ~Enqueuer
  <2>1. enq' = enq
    BY <1>7, FewTouch DEF Touching, WaitChange, SyncChange, Monitor, MonitorSet,
                          MonitorUpdate, MonitorDone
  <2> QED
    BY <1>1, <1>7, <2>1 DEF Enqueuer
<1> QED
  BY <1>2, <1>3, <1>4, <1>5, <1>6, <1>7 DEF Enqueuer

LEMMA SpareStep ==
  ASSUME AnswersOnly, WInv, CInv, KeyOnce, OpInv, OnceInv, SpareInv,
         NothingSkipped, Steps
  PROVE  SpareInv'
<1>1. [Next]_vars
  BY DEF Steps, Next
<1>2. CachedFinals \subseteq CachedFinals' /\ EndedKeys \subseteq CachedFinals
  BY CachedFinalsStay DEF SpareInv, FinalsCached
<1>3. Diff => \A c \in enq'.changes : /\ c.type # "delete"
                                      /\ c.key \notin CachedFinals
                                      /\ ~Queue!Exist(c.key)
  BY DiffSpares DEF OnceInv, SpareInv
<1>4. FinalsFinished' /\ FinalsCached' /\ ChangesFree'
  BY <1>3, FinalsFinishedStep, FinalsCachedStep, ChangesFreeStep
  DEF OnceInv, SpareInv
<1>5. AllWanted' /\ DeletesOf({})'
  BY <1>1, <1>3, AllWantedStep, DeletesOfStep DEF SpareInv
<1>6. ListsTrue(CachedFinals)'
  BY <1>1, <1>2, ListsTrueStep DEF SpareInv, ListsTrue
<1>7. LooksTrue(CachedFinals)'
  BY <1>1, <1>2, LooksTrueStep DEF SpareInv, LooksTrue
<1> QED
  BY <1>4, <1>5, <1>6, <1>7 DEF SpareInv

LEMMA SpareBegins ==
  ASSUME Init, Assigned = Keys
  PROVE  SpareInv
<1>1. ExitInv
  BY ExitBegins
<1>2. /\ enq.at = "idle" /\ enq.changes = {} /\ pending = <<>> /\ change = {}
      /\ mon.at = "idle" /\ cache = [k \in Keys |-> NotExist] /\ resyncer = {}
      /\ tasksCh = <<[resync |-> TRUE, keys |-> Keys]>>
      /\ rec = [k \in Keys |-> [status |-> PreWaitStatus(Running), want |-> Running]]
  BY DEF Init, Started, IdleEnq, IdleMon
<1>3. ~IsFinalStatus(NotExist) /\ ~IsFinalStatus(PreWaitStatus(Running))
  BY DEF PreWaitStatus, IsFinalStatus, FinalStatuses, NotExist, Success, Failed,
         Stop, Running, WaitRunning
<1>4. CachedFinals = {} /\ EndedKeys = {}
  BY <1>2, <1>3 DEF CachedFinals, EndedKeys, Ended
<1>5. FinalsFinished /\ FinalsCached /\ ChangesFree /\ DeletesOf({})
  BY <1>2, <1>4 DEF FinalsFinished, FinalsCached, ChangesFree, DeletesOf, Way
<1> QED
  BY <1>1, <1>4, <1>5 DEF ExitInv, SpareInv

\* The bounds on what may happen are counted.
SpentOK == spent \in [ops : Nat, fails : Nat, crashes : Nat]

LEMMA SpentStep ==
  ASSUME SpentOK, [Next]_vars
  PROVE  SpentOK'
<1>1. CASE UNCHANGED spent
  BY <1>1 DEF SpentOK
<1>2. CASE Fails \/ Crash
  BY <1>2 DEF Fails, Crash, SpentOK
<1>3. ASSUME NEW k \in Keys,
             \/ assignTask(k) \/ Recycle(k)
             \/ \E next \in {Running, Paused, Stop} : OperateTask(k, next)
      PROVE  SpentOK'
  <2>1. CASE assignTask(k) \/ Recycle(k)
    BY <1>1, <2>1 DEF assignTask, Recycle, svars
  <2>2. ASSUME NEW next, OperateTask(k, next)
        PROVE  SpentOK'
    <3>1. spent' = [spent EXCEPT !.ops = @ + 1]
      BY <2>2 DEF OperateTask
    <3> QED
      BY <3>1 DEF SpentOK
  <2> QED
    BY <1>3, <2>1, <2>2
<1>4. CASE Enqueuer \/ WaitChange \/ SyncChange \/ Monitor
  BY <1>1, <1>2, <1>4
  DEF Enqueuer, TakeTrigger, ListTaskKeys, BatchGetTask, Diff, handleException,
      Enqueue, WaitChange, SyncChange, Monitor, MonitorSet, MonitorUpdate,
      MonitorDone, svars
<1>5. CASE SyncerBlocked \/ (\E i \in Instances : Executor(i)) \/ Forward
  BY <1>1, <1>5 DEF SyncerBlocked, Executor, Forward, svars
<1>6. CASE RefreshList \/ RefreshPush \/ Shutdown \/ UNCHANGED vars
  BY <1>1, <1>6 DEF RefreshList, RefreshPush, Shutdown, vars, svars
<1>7. CASE OperateUpdate \/ WatchTrigger \/ ResyncList \/ ResyncSend
  BY <1>1, <1>7 DEF OperateUpdate, WatchTrigger, ResyncList, ResyncSend, svars
<1> QED
  BY <1>2, <1>3, <1>4, <1>5, <1>6, <1>7 DEF Next

\* A worker that does not crash, of tasks that were all assigned before it
\* started and that end only when told to, kills no wanted task, whatever users
\* do with the records, also when they take back what has ended: no resync,
\* however old its list, even decides it, unless it looks at a task that it had
\* left out of the list (NothingSkipped).
THEOREM NeverKilled ==
  ASSUME AnswersOnly, NothingForgotten, Assigned = Keys, MaxCrash = 0
  PROVE  Spec /\ []NothingSkipped => []NoExitOfWanted
<1> DEFINE Inv == WInv /\ CInv /\ KeyOnce /\ OpInv /\ OnceInv /\ SpentOK
<1>1. Init => Inv /\ SpareInv
  BY WorkerTypeInit, CtrlInit, KeyOnceInit, OpInit, StartsBlank, OnceBegins,
     SpareBegins DEF Init, SpentOK
<1>2. Inv /\ SpareInv /\ NothingSkipped /\ [Next]_vars => (Inv /\ SpareInv)'
  <2> SUFFICES ASSUME Inv, SpareInv, NothingSkipped, [Next]_vars
               PROVE  (Inv /\ SpareInv)'
    OBVIOUS
  <2>1. Steps
    <3>1. ~Crash
      BY DEF Crash, SpentOK
    <3> QED
      BY <3>1, NothingElse
  <2>2. (WInv /\ KeyOnce /\ OpInv /\ SpentOK)'
    BY QueueMoves, WorkerTypeStep, KeyOnceStep, OpStep, SpentStep
    DEF WInv, PipelineOK
  <2>3. CInv'
    BY ExecutorMoves, ExecutorRestarts, CtrlStep, CtrlAgain DEF WInv
  <2>4. OnceInv' /\ SpareInv'
    BY <2>1, StatusOfMadeStep, KeysFreeStep, LooksAtCachedStep, CreatesFreshStep,
       MadeKnownStep, StartedOnceStep, SpareStep DEF OnceInv
  <2> QED
    BY <2>2, <2>3, <2>4
<1>3. SpareInv => NoExitOfWanted
  BY DEF SpareInv, DeletesOf, Way, NoExitOfWanted
<1> HIDE DEF Inv
<1> QED
  BY <1>1, <1>2, <1>3, PTL DEF Spec

\* For a worker of one task nothing is left to suppose: no list is stale
\* enough to have it killed while it is wanted.
THEOREM OneTaskNeverKilled ==
  ASSUME AnswersOnly, NothingForgotten, Assigned = Keys, MaxCrash = 0,
         \A j, k \in Keys : j = k
  PROVE  Spec => []NoExitOfWanted
<1>1. Spec /\ []NothingSkipped => []NoExitOfWanted
  BY NeverKilled
<1>2. Spec => []NothingSkipped
  BY NothingSkippedOfOne
<1> QED
  BY <1>1, <1>2, PTL

-----------------------------------------------------------------------------
(* Final records while the cache does forget.                              *)

\* No forced exit has left a loop behind that goes on without control.
NoStray ==
  \A i \in 1..runs : outer[i] = "gone" => inner[i] \in {"ended", "crashed"}

\* The executor, or the pipeline after it, has a final event of task k.
EndSent(k) ==
  \E n \in DOMAIN resultChan :
    resultChan[n].key = k /\ IsFinalStatus(resultChan[n].status)

Told(k) ==
  \/ EndSent(k) \/ Records(k)
  \/ \E n \in DOMAIN ch : ch[n].key = k /\ IsFinalStatus(ch[n].status)

\* Task k has a run under control, or the end of its run is yet to be noted;
\* then it is cached, and in the end the cache knows that it is over.
Held(k)    == ctrls[k] # None \/ Told(k)
Lingers(k) == Held(k) \/ IsFinalStatus(cache[k])

\* Nothing of task k lingers, and it is not about to be started.
Free(k) == ~Lingers(k) /\ \A d \in change : ~IsCreate(d, k)

\* Only tasks that are free are overlooked.
LooksAtHeld ==
  /\ enq.at = "keys" => enq.keys \cap enq.skip = {}
  /\ enq.at \in {"want", "real"} /\ enq.real # {} =>
       \A k \in enq.keys \ enq.real : Free(k)

\* A create, wherever it has got to, is of a task that does not linger.
CreatesFree ==
  /\ \A c \in enq.changes :
       c.type = "create" => Free(c.key) /\ ~Queue!Exist(c.key)
  /\ \A n \in DOMAIN pending :
       pending[n].type = "create" => Free(pending[n].key)
  /\ \A c \in change : c.type = "create" =>
       ~Lingers(c.key) /\ (c.key \in active \/ cache[c.key] # NotExist)

\* A task under control is in the cache, or is still being processed and the
\* syncer is through with it.
HeldKnown ==
  /\ \A k \in Keys : Held(k) /\ cache[k] = NotExist =>
       k \in active /\ \A c \in change : c.key # k
  /\ mon.at # "idle" => cache[mon.ev.key] # NotExist

\* Whoever says that a task is over is right about every run of it.
EndsTold ==
  \A k \in Keys :
    Told(k) \/ IsFinalStatus(cache[k]) \/ IsFinalStatus(rec[k].status)
      => Silent(k)

\* A create of task k is on its way to the executor, or will be decided from
\* the record that was read and the status that is cached.
MayCreate(k) ==
  \/ OnItsWay(k)
  \/ LooksAt(k) /\ (cache[k] = NotExist \/ (enq.real # {} /\ k \notin enq.real))

\* A task that is recorded as ended is not to be started.
EndedStays == \A k \in Keys : Ended(k) => ~MayCreate(k)

HoldInv ==
  /\ KeysFree /\ LooksAtHeld /\ CreatesFree /\ HeldKnown
  /\ EndsTold /\ EndedStays /\ LoopAwaitsStart

\* Only Run puts a task under control.
LEMMA ControlByRun ==
  ASSUME TInv, [ENext]_evars, NEW k \in Keys, ctrls'[k] # None, ~Run(k)
  PROVE  ctrls[k] # None
<1>1. ctrls \in [Keys -> Instances \cup {None}]
  BY DEF TInv, ETypeOK
<1>2. ASSUME NEW j \in Keys, Call(j)
      PROVE  ctrls[k] # None
  BY <1>1, <1>2 DEF Call, Run, Exit, StopTask, Pause, Resume, Control, Put
<1>3. CASE CallerStep \/ Recv \/ UNCHANGED evars
  BY <1>3 DEF CallerStep, RunSync, RunSend, PutBlocked, Recv, evars
<1>4. ASSUME NEW i \in Instances, Inner(i) \/ Outer(i)
      PROVE  ctrls[k] # None
  <2>1. CASE OuterDelete(i)
    BY <1>1, <2>1 DEF OuterDelete
  <2> QED
    BY <1>4, <2>1
    DEF Inner, InnerStart, InnerObey, PausedObey, Obey, CallBizLogic,
        BizLogicReturns, InnerSend, Outer, OuterStart, OuterExit, OuterFinish,
        OuterSend
<1> QED
  BY <1>2, <1>3, <1>4 DEF ENext

\* The control object is that of the run which speaks: the others are gone.
LEMMA OthersSilent ==
  ASSUME CInv, NoStray, NEW i \in 1..runs, ctrls[keyOf[i]] = i
  PROVE  \A j \in 1..runs : j # i /\ keyOf[j] = keyOf[i] =>
           outer[j] = "gone" /\ inner[j] \in {"ended", "crashed"}
BY DEF CInv, OwnCtrl, NoStray

\* A final event is the last word of the run under control.
LEMMA LastWord ==
  ASSUME TInv, CInv, NoStray, [ENext]_evars, NEW k \in Keys, EndSent(k)', ~EndSent(k)
  PROVE  ctrls[k] # None /\ Silent(k)'
<1>1. \E S : resultChan \in Seq(S)
  BY DEF TInv, ETypeOK
<1>2. resultChan' # resultChan
  BY DEF EndSent
<1>3. ASSUME NEW j, NEW s, Send(j, s)
      PROVE  j = k /\ IsFinalStatus(s)
  <2>1. resultChan' = Append(resultChan, [key |-> j, status |-> s])
    BY <1>3 DEF Send
  <2>2. \A n \in DOMAIN resultChan' :
          \/ n \in DOMAIN resultChan /\ resultChan'[n] = resultChan[n]
          \/ resultChan'[n] = [key |-> j, status |-> s]
    BY <1>1, <2>1
  <2> QED
    BY <2>2 DEF EndSent
<1>4. ASSUME Recv
      PROVE  FALSE
  <2>1. resultChan # <<>> /\ resultChan' = Tail(resultChan)
    BY <1>4 DEF Recv
  <2>2. \A n \in DOMAIN resultChan' :
          n + 1 \in DOMAIN resultChan /\ resultChan'[n] = resultChan[n + 1]
    BY <1>1, <2>1
  <2> QED
    BY <2>2 DEF EndSent
<1>5. ASSUME NEW j \in Keys, Call(j)
      PROVE  FALSE
  BY <1>2, <1>5 DEF Call, Run, Exit, StopTask, Pause, Resume, Control, Put
<1>6. ASSUME CallerStep
      PROVE  FALSE
  <2>1. ~RunSend
    BY <1>3, FinalFacts DEF RunSend
  <2> QED
    BY <1>2, <1>6, <2>1 DEF CallerStep, RunSync, PutBlocked
<1>7. ASSUME NEW i \in Instances, Inner(i) \/ Outer(i)
      PROVE  ctrls[k] # None /\ Silent(k)'
  <2>1. InnerSend(i) \/ OuterSend(i)
    BY <1>2, <1>7
    DEF Inner, InnerStart, InnerObey, PausedObey, Obey, CallBizLogic,
        BizLogicReturns, Outer, OuterStart, OuterExit, OuterFinish,
        OuterDelete
  <2>2. i \in 1..runs /\ i # None
    BY <2>1, ActiveIsMade DEF InnerSend, OuterSend, None, Instances
  <2>3. keyOf[i] = k /\ Through(i)'
    <3>1. CASE InnerSend(i)
      <4>1. /\ Send(keyOf[i], report[i])
            /\ inner' = [inner EXCEPT ![i] = AfterSend(report[i])]
            /\ inner \in [Instances -> InnerPcs]
        BY <3>1 DEF InnerSend, TInv, ETypeOK
      <4>2. IsFinalStatus(report[i]) => AfterSend(report[i]) = "ended"
        BY FinalFacts DEF AfterSend
      <4> QED
        BY <1>3, <4>1, <4>2 DEF Through
    <3>2. CASE OuterSend(i)
      <4>1. Send(keyOf[i], Failed) /\ outer'[i] = "delete"
        BY <3>2 DEF OuterSend, TInv, ETypeOK
      <4> QED
        BY <1>3, <4>1 DEF Through
    <3> QED
      BY <2>1, <3>1, <3>2
  <2>4. outer[i] # "gone"
    BY <2>1, <2>2 DEF InnerSend, OuterSend, NoStray
  <2>5. ctrls[k] = i
    BY <2>2, <2>3, <2>4 DEF CInv, OwnCtrl
  <2>6. /\ keyOf' = keyOf /\ runs' = runs
        /\ \A j \in Instances \ {i} : inner'[j] = inner[j] /\ outer'[j] = outer[j]
    BY <2>1 DEF InnerSend, OuterSend, runs, TInv, ETypeOK
  <2>7. \A j \in 1..runs : j \in Instances
    BY KeyOfRun DEF TInv
  <2>8. \A j \in 1..runs : j # i /\ keyOf[j] = k => inner[j] \in {"ended", "crashed"}
    BY <2>2, <2>3, <2>5, OthersSilent
  <2> QED
    BY <2>2, <2>3, <2>5, <2>6, <2>7, <2>8 DEF Silent, Through
<1> QED
  BY <1>2, <1>4, <1>5, <1>6, <1>7 DEF ENext, evars

\* The syncer starts a task, with the create it has taken.
LEMMA StartedBy ==
  ASSUME WInv, Steps, NEW k \in Keys, Run(k)
  PROVE  \E c \in change : IsCreate(c, k) /\ change' = {}
                           /\ UNCHANGED <<enq, pending, active, cache, mon>>
<1>1. keyOf'[runs + 1] = k /\ keyOf' # keyOf
  BY RunMakes DEF WInv, runs
<1>2. PICK c \in change : c.type = "create" /\ Run(c.key) /\ change' = {}
                          /\ UNCHANGED <<enq, qvars, cache, mon>>
  BY <1>1, Starts
<1>3. keyOf'[runs + 1] = c.key
  <2>1. c.key \in Keys /\ TInv
    BY DEF WInv, PipelineOK, Changes
  <2> QED
    BY <1>2, <2>1, RunMakes
<1> QED
  BY <1>1, <1>2, <1>3 DEF IsCreate, qvars

\* The final events move through the pipeline, and the executor alone adds
\* to them.
LEMMA ToldMoves ==
  ASSUME WInv, Steps, NEW k \in Keys, Told(k)', ~Told(k)
  PROVE  EndSent(k)' /\ ~EndSent(k)
<1>1. ~EndSent(k)
  BY DEF Told
<1>2. ASSUME NEW e, IsFinalStatus(e.status), e.key = k
      PROVE  /\ \A n \in DOMAIN ch : ch[n] # e
             /\ \A n \in DOMAIN resultChan : resultChan[n] # e
             /\ ~(mon.at # "idle" /\ mon.ev = e)
  BY <1>2 DEF Told, EndSent, Records
<1>3. ch \in Seq(Event) /\ resultChan \in Seq(Event)
  BY DEF WInv, PipelineOK, TInv, ETypeOK, Event
<1>4. CASE UNCHANGED <<ch, mon>>
  BY <1>1, <1>4 DEF Told, Records
<1>5. CASE MonitorSet
  <2>1. /\ ch # <<>> /\ ch' = Tail(ch)
        /\ mon' = [at |-> "update", ev |-> Head(ch)]
    BY <1>5 DEF MonitorSet
  <2>2. 1 \in DOMAIN ch /\ mon'.ev = ch[1]
    BY <1>3, <2>1
  <2>3. \A n \in DOMAIN ch' : n + 1 \in DOMAIN ch /\ ch'[n] = ch[n + 1]
    BY <1>3, <2>1
  <2> QED
    BY <1>1, <1>2, <2>2, <2>3 DEF Told, Records
<1>6. CASE MonitorUpdate \/ MonitorDone
  <2>1. /\ UNCHANGED ch
        /\ mon'.at # "idle" => mon.at # "idle" /\ mon'.ev = mon.ev
    BY <1>6 DEF MonitorUpdate, MonitorDone, IdleMon, WInv, MonOK
  <2> QED
    BY <1>1, <2>1 DEF Told, Records
<1>7. CASE Forward
  <2>1. /\ resultChan # <<>> /\ ch' = Append(ch, Head(resultChan))
        /\ UNCHANGED mon
    BY <1>7 DEF Forward, Recv, SendEvent
  <2>2. 1 \in DOMAIN resultChan /\ Head(resultChan) = resultChan[1]
    BY <1>3, <2>1
  <2>3. \A n \in DOMAIN ch' :
          (n \in DOMAIN ch /\ ch'[n] = ch[n]) \/ ch'[n] = resultChan[1]
    BY <1>3, <2>1, <2>2
  <2> QED
    BY <1>1, <1>2, <2>1, <2>2, <2>3 DEF Told, Records
<1>8. CASE RefreshPush
  <2>1. PICK j \in DOMAIN refresher :
          /\ ch' = Append(ch, [key |-> j, status |-> refresher[j]]) \/ ch' = ch
          /\ UNCHANGED mon
    BY <1>8 DEF RefreshPush, SendEvent
  <2>2. \A n \in DOMAIN ch' :
          \/ n \in DOMAIN ch /\ ch'[n] = ch[n]
          \/ ch'[n] = [key |-> j, status |-> refresher[j]]
    BY <1>3, <2>1
  <2>3. ~IsFinalStatus(refresher[j])
    BY FinalFacts DEF WInv, RefresherOK
  <2> QED
    BY <1>1, <1>2, <2>1, <2>2, <2>3 DEF Told, Records
<1>9. CASE RefreshList
  BY <1>4, <1>9 DEF RefreshList
<1> QED
  BY <1>4, <1>5, <1>6, <1>7, <1>8, <1>9, PipelineMoves DEF Monitor

\* What holds or tells is held before, unless it is started now.
LEMMA HeldByRun ==
  ASSUME WInv, CInv, NoStray, Steps, NEW k \in Keys, ~Run(k)
  PROVE  /\ Held(k)' => Held(k)
         /\ Told(k)' => Told(k) \/ Silent(k)'
         /\ IsFinalStatus(cache'[k]) => IsFinalStatus(cache[k]) \/ Told(k)
         /\ Lingers(k)' => Lingers(k)
<1>1. [ENext]_evars /\ TInv
  BY ExecutorSteps DEF WInv
<1>2. Told(k)' /\ ~Told(k) => ctrls[k] # None /\ Silent(k)'
  BY <1>1, ToldMoves, LastWord
<1>3. Held(k)' => Held(k)
  BY <1>1, <1>2, ControlByRun DEF Held
<1>4. IsFinalStatus(cache'[k]) => IsFinalStatus(cache[k]) \/ Told(k)
  <2>1. CASE MonitorSet
    <3>1. ch # <<>> /\ cache' = [cache EXCEPT ![Head(ch).key] = Head(ch).status]
      BY <2>1 DEF MonitorSet
    <3>2. 1 \in DOMAIN ch /\ Head(ch) = ch[1]
      BY <3>1 DEF WInv, PipelineOK
    <3>3. cache'[k] = cache[k] \/ (ch[1].key = k /\ cache'[k] = ch[1].status)
      BY <3>1, <3>2 DEF WInv, PipelineOK
    <3> QED
      BY <3>2, <3>3 DEF Told
  <2>2. CASE ~MonitorSet
    <3>1. cache' = cache
      BY <2>2, PipelineMoves DEF Monitor, MonitorUpdate, MonitorDone, Forward,
                                 RefreshList, RefreshPush
    <3> QED
      BY <3>1
  <2> QED
    BY <2>1, <2>2
<1> QED
  BY <1>2, <1>3, <1>4 DEF Lingers, Held

LEMMA NoneStarted ==
  ASSUME WInv, keyOf' = keyOf, NEW k \in Keys
  PROVE  ~Run(k)
BY RunMakes DEF WInv, runs

\* A task stays free until the syncer takes a change of it.
LEMMA FreeStays ==
  ASSUME WInv, CInv, NoStray, Steps, NEW k \in Keys, Free(k),
         WaitChange => Head(pending).key # k
  PROVE  Free(k)'
<1>1. ~Run(k)
  BY StartedBy DEF Free
<1>2. ~Lingers(k)'
  BY <1>1, HeldByRun DEF Free
<1>3. CASE WaitChange
  <2>1. change' = {Head(pending)}
    BY <1>3 DEF WaitChange
  <2> QED
    BY <1>2, <1>3, <2>1 DEF Free, IsCreate
<1>4. CASE ~WaitChange
  <2>1. change' = change \/ change' = {}
    BY <1>4, FewTouch
    DEF Touching, Enqueuer, TakeTrigger, ListTaskKeys, BatchGetTask, Diff,
        handleException, Enqueue, SyncChange, Monitor, MonitorSet,
        MonitorUpdate, MonitorDone
  <2> QED
    BY <1>2, <2>1 DEF Free
<1> QED
  BY <1>3, <1>4

\* A task that neither the cache nor the queue knows is free.
LEMMA UnknownFree ==
  ASSUME HeldKnown, CreatesFree, NEW k \in Keys, cache[k] = NotExist, k \notin active
  PROVE  Free(k)
<1>1. ~IsFinalStatus(NotExist)
  BY DEF IsFinalStatus, FinalStatuses, NotExist, Success, Failed, Stop
<1> QED
  BY <1>1 DEF HeldKnown, CreatesFree, Free, Lingers, IsCreate

\* The key of a change that the syncer takes is none the enqueuer looks at.
LEMMA TakenKnown ==
  ASSUME WInv, WaitChange
  PROVE  /\ pending # <<>> /\ 1 \in DOMAIN pending /\ Head(pending) = pending[1]
         /\ Queue!Exist(Head(pending).key) /\ Head(pending) \in Changes
         /\ change' = {Head(pending)}
         /\ active' = active \cup {Head(pending).key}
         /\ \A n \in DOMAIN pending' :
              n + 1 \in DOMAIN pending /\ pending'[n] = pending[n + 1]
         /\ UNCHANGED <<evars, enq, cache, mon>>
<1>1. /\ pending # <<>> /\ pending' = Tail(pending)
      /\ active' = active \cup {Head(pending).key}
      /\ change' = {Head(pending)}
      /\ UNCHANGED <<evars, enq, cache, mon>>
  BY DEF WaitChange, Queue!Take, Queue!KeyOf
<1>2. pending \in Seq(Changes)
  BY DEF WInv, PipelineOK
<1>3. 1 \in DOMAIN pending /\ Head(pending) = pending[1]
  BY <1>1, <1>2
<1>4. \A n \in DOMAIN pending' :
        n + 1 \in DOMAIN pending /\ pending'[n] = pending[n + 1]
  BY <1>1, <1>2
<1>5. Queue!Exist(Head(pending).key)
  BY <1>3 DEF Queue!Exist, Queue!PendingKeys, Queue!KeyOf
<1>6. Head(pending) \in Changes
  BY <1>2, <1>3
<1> QED
  BY <1>1, <1>3, <1>4, <1>5, <1>6

\* The enqueuer overlooks a key only while neither the cache nor the queue
\* knows it, and the queue learns of it from the enqueuer alone.
LEMMA LooksAtHeldStep ==
  ASSUME WInv, CInv, NoStray, Steps, KeysFree, LooksAtHeld, CreatesFree, HeldKnown
  PROVE  LooksAtHeld'
<1>1. enq.keys \subseteq Keys
  BY DEF WInv, EnqOK
<1>2. ASSUME enq.at \in {"keys", "want", "real"}
      PROVE  \A k \in enq.keys : Free(k) => Free(k)'
  BY <1>1, <1>2, FreeStays, TakenKnown DEF KeysFree
<1>3. CASE TakeTrigger
  <2> DEFINE t == Head(tasksCh)
             skip == {k \in t.keys : Queue!Exist(k)}
  <2>1. enq' = [IdleEnq EXCEPT !.at = "keys", !.resync = t.resync,
                               !.keys = t.keys \ skip, !.skip = skip]
    BY <1>3 DEF TakeTrigger
  <2> HIDE DEF skip, t
  <2>2. enq'.keys = t.keys \ skip /\ enq'.skip = skip /\ enq'.at = "keys"
    BY <2>1 DEF IdleEnq
  <2> QED
    BY <2>2 DEF LooksAtHeld
<1>4. CASE ListTaskKeys
  <2>1. /\ \/ enq'.at = "idle"
           \/ /\ enq'.at = "want" /\ enq'.keys = enq.keys
              /\ enq'.real = IF enq.resync THEN Cached \ enq.skip ELSE enq.keys
        /\ enq.at = "keys"
    BY <1>4, LooksOn DEF ListTaskKeys, BatchGetTask
  <2>2. \A k \in enq.keys : cache[k] = NotExist => Free(k)
    BY <1>1, <2>1, UnknownFree DEF KeysFree, Queue!Exist
  <2> QED
    BY <1>1, <1>2, <2>1, <2>2 DEF LooksAtHeld, Cached
<1>5. ASSUME \/ enq'.at \notin {"keys", "want", "real"}
             \/ /\ enq'.at \in {"want", "real"} /\ enq.at \in {"want", "real"}
                /\ enq'.keys = enq.keys /\ enq'.real = enq.real
             \/ enq' = enq
      PROVE  LooksAtHeld'
  BY <1>2, <1>5 DEF LooksAtHeld
<1>6. CASE BatchGetTask
  <2>1. \/ enq'.at = "idle"
        \/ /\ enq'.at = "real" /\ enq.at = "want"
           /\ enq'.keys = enq.keys /\ enq'.real = enq.real
    BY <1>6, LooksOn DEF ListTaskKeys, BatchGetTask
  <2> QED
    BY <1>5, <2>1
<1>7. CASE Diff
  <2>1. enq'.at \in {"idle", "apply"}
    BY <1>7, Decides
  <2> QED
    BY <1>5, <2>1
<1>8. CASE handleException \/ Enqueue
  <2>1. PICK c \in enq.changes : enq' = WithoutChange(c) /\ enq.at = "apply"
    BY <1>8 DEF handleException, Enqueue, Exceptions
  <2>2. enq'.at \in {"idle", "apply"}
    BY <2>1, Leftover
  <2> QED
    BY <1>5, <2>2
<1>9. CASE WaitChange \/ SyncChange \/ Monitor \/ ~Touching
  <2>1. enq' = enq
    BY <1>9, FewTouch DEF WaitChange, SyncChange, Monitor, MonitorSet,
                          MonitorUpdate, MonitorDone
  <2> QED
    BY <1>5, <2>1
<1> QED
  BY <1>3, <1>4, <1>6, <1>7, <1>8, <1>9 DEF Touching, Enqueuer

\* What is cached stays cached.
LEMMA CachedStays ==
  ASSUME WInv, Steps, NEW k \in Keys, cache[k] # NotExist
  PROVE  cache'[k] # NotExist
<1>1. CASE MonitorSet
  <2>1. ch # <<>> /\ cache' = [cache EXCEPT ![Head(ch).key] = Head(ch).status]
    BY <1>1 DEF MonitorSet
  <2>2. Head(ch) \in Event
    BY <2>1 DEF WInv, PipelineOK
  <2>3. Head(ch).key \in Keys /\ Head(ch).status # NotExist
    BY <2>2, EventStatus, StatusFacts DEF Reported
  <2> QED
    BY <2>1, <2>3 DEF WInv, PipelineOK
<1>2. CASE ~MonitorSet
  <2>1. cache' = cache
    BY <1>2, PipelineMoves DEF Monitor, MonitorUpdate, MonitorDone, Forward,
                               RefreshList, RefreshPush
  <2> QED
    BY <2>1
<1> QED
  BY <1>1, <1>2

\* A key leaves the processing set when the syncer says so, or when it is
\* cached.
LEMMA KnownStays ==
  ASSUME WInv, Steps, HeldKnown, ~SyncChange, NEW k \in Keys,
         k \in active \/ cache[k] # NotExist
  PROVE  k \in active' \/ cache'[k] # NotExist
<1>1. CASE MonitorDone
  <2>1. active' = active \ {mon.ev.key} /\ mon.at # "idle"
    BY <1>1 DEF MonitorDone, Queue!Finish
  <2> QED
    BY <2>1, CachedStays DEF HeldKnown
<1>2. CASE ~MonitorDone
  <2>1. active \subseteq active'
    <3>1. CASE WaitChange
      BY <3>1, TakenKnown
    <3>2. CASE Enqueue
      BY <3>2, EnqueueKnows
    <3>3. CASE ~WaitChange /\ ~Enqueue
      BY <1>2, <3>3, FewTouch
      DEF Touching, Enqueuer, TakeTrigger, ListTaskKeys, BatchGetTask, Diff,
          handleException, Monitor, MonitorSet, MonitorUpdate
    <3> QED
      BY <3>1, <3>2, <3>3
  <2> QED
    BY <2>1, CachedStays
<1> QED
  BY <1>1, <1>2

\* A create is decided for a free task, and its task is free until the syncer
\* has it.
LEMMA CreatesFreeStep ==
  ASSUME WInv, CInv, KeyOnce, NoStray, Steps, KeysFree, LooksAtHeld, CreatesFree,
         HeldKnown
  PROVE  CreatesFree'
<1>1. /\ \A c \in enq.changes : c.key \in Keys
      /\ \A n \in DOMAIN pending : pending[n] \in Changes /\ pending[n].key \in Keys
      /\ \A c \in change : c.key \in Keys
  <2>1. /\ \A c \in AllChanges : c.key \in Keys
        /\ \A c \in Changes : c.key \in Keys
    BY DEF AllChanges, Changes
  <2>2. /\ enq.changes \subseteq AllChanges /\ change \subseteq Changes
        /\ pending \in Seq(Changes)
    BY DEF WInv, EnqOK, PipelineOK
  <2>3. \A n \in DOMAIN pending : pending[n] \in Changes
    BY <2>2
  <2> QED
    BY <2>1, <2>2, <2>3
<1>2. ASSUME ~WaitChange
      PROVE  \A k \in Keys : Free(k) => Free(k)'
  BY <1>2, FreeStays
<1>3. ASSUME UNCHANGED <<keyOf, change>>, ~SyncChange
      PROVE  \A c \in change' : c.type = "create" =>
               /\ ~Lingers(c.key)'
               /\ c.key \in active' \/ cache'[c.key] # NotExist
  BY <1>1, <1>3, NoneStarted, HeldByRun, KnownStays DEF CreatesFree
<1>4. CASE Enqueue
  <2>1. PICK c \in enq.changes :
          /\ enq' = WithoutChange(c)
          /\ \A k : Queue!Exist(k)' => Queue!Exist(k) \/ k = c.key
          /\ \A n \in DOMAIN pending' :
               \/ n \in DOMAIN pending /\ pending'[n] = pending[n]
               \/ pending'[n] = c
          /\ UNCHANGED <<keyOf, active, change, cache, mon>>
    BY <1>4, EnqueueKnows
  <2>2. enq'.changes = enq.changes \ {c}
    BY <1>4, <2>1, Leftover DEF Enqueue
  <2>3. ~WaitChange /\ ~SyncChange
    BY <2>1, TakenKnown, Leftover, <1>4 DEF SyncChange, WaitChange, Enqueue
  <2> QED
    BY <1>1, <1>2, <1>3, <2>1, <2>2, <2>3 DEF CreatesFree, KeysFree
<1>5. ASSUME ~Enqueue, ~WaitChange, enq'.changes \subseteq enq.changes,
             pending' = pending,
             change' = {} \/ (UNCHANGED <<keyOf, change>> /\ ~SyncChange)
      PROVE  CreatesFree'
  BY <1>1, <1>2, <1>3, <1>5, KnownBefore DEF CreatesFree
<1>6. CASE TakeTrigger \/ ListTaskKeys \/ BatchGetTask \/ handleException
  <2>1. /\ UNCHANGED <<keyOf, pending, change>> /\ ~Enqueue
        /\ ~WaitChange /\ ~SyncChange
    <3>1. UNCHANGED <<keyOf, pending, change>>
      BY <1>6 DEF TakeTrigger, ListTaskKeys, BatchGetTask, handleException, evars
    <3>2. ~Enqueue
      BY <1>6 DEF TakeTrigger, ListTaskKeys, BatchGetTask, handleException, Enqueue
    <3>3. ~WaitChange /\ ~SyncChange
      BY <3>1 DEF WaitChange, SyncChange
    <3> QED
      BY <3>1, <3>2, <3>3
  <2>2. enq'.changes \subseteq enq.changes
    <3>1. CASE TakeTrigger
      BY <3>1 DEF TakeTrigger, IdleEnq
    <3>2. CASE ListTaskKeys \/ BatchGetTask
      BY <3>2, LooksOn DEF KeysFree
    <3>3. CASE handleException
      <4>1. PICK c \in enq.changes : enq' = WithoutChange(c) /\ enq.at = "apply"
        BY <3>3 DEF handleException, Exceptions
      <4> QED
        BY <4>1, Leftover
    <3> QED
      BY <1>6, <3>1, <3>2, <3>3
  <2> QED
    BY <1>5, <2>1, <2>2
<1>7. CASE Diff
  <2>1. \A c \in enq'.changes : c.type = "create" =>
          /\ c.key \in enq.keys
          /\ \/ cache[c.key] = NotExist
             \/ enq.real # {} /\ c.key \notin enq.real
    BY <1>7, Decides
  <2>2. \A k \in enq.keys : ~Queue!Exist(k) /\ k \in Keys
    BY <1>7 DEF Diff, KeysFree, WInv, EnqOK
  <2>3. \A c \in enq'.changes : c.type = "create" => Free(c.key)
    BY <1>7, <2>1, <2>2, UnknownFree DEF LooksAtHeld, Diff, Queue!Exist
  <2>4. UNCHANGED <<keyOf, pending, change>> /\ ~Enqueue
    BY <1>7 DEF Diff, Enqueue, evars
  <2>5. ~WaitChange /\ ~SyncChange
    BY <2>4 DEF WaitChange, SyncChange
  <2>6. \A c \in enq'.changes : c.type = "create" =>
          Free(c.key)' /\ ~Queue!Exist(c.key)'
    BY <2>1, <2>2, <2>3, <2>4, <2>5, FreeStays, KnownBefore
  <2> QED
    BY <1>1, <1>2, <1>3, <2>4, <2>5, <2>6 DEF CreatesFree
<1>8. CASE WaitChange
  <2>0. PICK h : h = Head(pending)
    OBVIOUS
  <2>1. /\ 1 \in DOMAIN pending /\ h = pending[1]
        /\ Queue!Exist(h.key) /\ change' = {h} /\ active' = active \cup {h.key}
        /\ \A n \in DOMAIN pending' :
             n + 1 \in DOMAIN pending /\ pending'[n] = pending[n + 1]
        /\ enq' = enq /\ keyOf' = keyOf
    BY <1>8, <2>0, TakenKnown DEF evars
  <2>2. \A k : Queue!Exist(k)' => Queue!Exist(k)
    BY <1>8, KnownBefore DEF WaitChange, Enqueue, qvars, Queue!Take
  <2>3. \A k \in Keys : Free(k) /\ k # h.key => Free(k)'
    BY <2>0, FreeStays
  <2>4. h.type = "create" => ~Lingers(h.key)'
    BY <1>1, <2>1, NoneStarted, HeldByRun DEF CreatesFree, Free
  <2>5. \A n \in DOMAIN pending' : pending'[n].key # h.key
    <3>1. ASSUME NEW n \in DOMAIN pending'
          PROVE  n + 1 # 1
      <4>1. pending' \in Seq(Changes)
        BY <1>8 DEF WaitChange, Queue!Take, WInv, PipelineOK
      <4> QED
        BY <4>1
    <3> QED
      BY <2>1, <3>1 DEF KeyOnce
  <2>6. \A c \in enq'.changes : c.type = "create" =>
          Free(c.key)' /\ ~Queue!Exist(c.key)'
    BY <1>1, <2>1, <2>2, <2>3 DEF CreatesFree
  <2>7. \A n \in DOMAIN pending' : \A k \in Keys :
          pending'[n].type = "create" /\ pending'[n].key = k => Free(k)'
    BY <1>1, <2>1, <2>3, <2>5 DEF CreatesFree
  <2>8. \A n \in DOMAIN pending' : pending'[n].key \in Keys
    BY <1>1, <2>1
  <2> QED
    BY <2>1, <2>4, <2>6, <2>7, <2>8 DEF CreatesFree
<1>9. CASE SyncChange
  <2>1. change' = {} /\ UNCHANGED <<enq, pending>>
    BY <1>9 DEF SyncChange, qvars, Queue!Finish
  <2>2. ~WaitChange
    BY <2>1 DEF WaitChange
  <2> QED
    BY <1>4, <1>5, <2>1, <2>2
<1>10. CASE Monitor \/ ~Touching
  <2>1. UNCHANGED <<keyOf, enq, pending, change>>
    BY <1>10, FewTouch DEF Monitor, MonitorSet, MonitorUpdate, MonitorDone, evars,
                           Queue!Finish
  <2>2. ~WaitChange /\ ~SyncChange
    BY <2>1 DEF WaitChange, SyncChange
  <2> QED
    BY <1>4, <1>5, <2>1, <2>2
<1> QED
  BY <1>4, <1>6, <1>7, <1>8, <1>9, <1>10 DEF Touching, Enqueuer

\* A change leaves the processing set only when an event of its task has set
\* the cache, or when the executor refuses it.
LEMMA HeldKnownStep ==
  ASSUME WInv, CInv, KeyOnce, NoStray, Steps, CreatesFree, HeldKnown
  PROVE  HeldKnown'
<1>1. ASSUME NEW k \in Keys, Held(k)', cache'[k] = NotExist
      PROVE  k \in active' /\ \A c \in change' : c.key # k
  <2>1. cache[k] = NotExist
    BY <1>1, CachedStays
  <2>2. ASSUME Run(k)
        PROVE  k \in active' /\ \A c \in change' : c.key # k
    BY <2>1, <2>2, StartedBy DEF CreatesFree, IsCreate
  <2>3. ASSUME ~Run(k)
        PROVE  k \in active /\ \A c \in change : c.key # k
    BY <1>1, <2>1, <2>3, HeldByRun DEF HeldKnown
  <2>4. CASE SyncChange /\ ~Run(k)
    <3>1. PICK c \in change : change' = {} /\ active \ {c.key} \subseteq active'
      BY <2>4 DEF SyncChange, Queue!Finish, qvars
    <3> QED
      BY <2>3, <2>4, <3>1
  <2>5. CASE WaitChange /\ ~Run(k)
    <3>1. pending[1].key # k
      BY <2>3, <2>5, TakenKnown DEF KeyOnce
    <3> QED
      BY <2>3, <2>5, <3>1, TakenKnown
  <2>6. CASE ~SyncChange /\ ~WaitChange /\ ~Run(k)
    <3>1. change' = change
      BY <2>6, FewTouch
      DEF Touching, Enqueuer, TakeTrigger, ListTaskKeys, BatchGetTask, Diff,
          handleException, Enqueue, Monitor, MonitorSet, MonitorUpdate,
          MonitorDone
    <3>2. k \in active'
      BY <1>1, <2>3, <2>6, KnownStays
    <3> QED
      BY <2>3, <2>6, <3>1, <3>2
  <2> QED
    BY <2>2, <2>4, <2>5, <2>6
<1>2. mon'.at # "idle" => cache'[mon'.ev.key] # NotExist
  <2>1. CASE MonitorSet
    <3>1. /\ ch # <<>> /\ mon' = [at |-> "update", ev |-> Head(ch)]
          /\ cache' = [cache EXCEPT ![Head(ch).key] = Head(ch).status]
      BY <2>1 DEF MonitorSet
    <3>2. Head(ch) \in Event
      BY <3>1 DEF WInv, PipelineOK
    <3>3. Head(ch).key \in Keys /\ Head(ch).status # NotExist
      BY <3>2, EventStatus, StatusFacts DEF Reported
    <3> QED
      BY <3>1, <3>3 DEF WInv, PipelineOK
  <2>2. CASE ~MonitorSet
    <3>1. mon'.at # "idle" => mon.at # "idle" /\ mon'.ev = mon.ev
      <4>1. CASE MonitorUpdate \/ MonitorDone
        BY <4>1 DEF MonitorUpdate, MonitorDone, IdleMon, WInv, MonOK
      <4>2. CASE ~MonitorUpdate /\ ~MonitorDone
        BY <2>2, <4>2, PipelineMoves DEF Monitor, Forward, RefreshList, RefreshPush
      <4> QED
        BY <4>1, <4>2
    <3>2. mon.at # "idle" => mon.ev.key \in Keys
      BY DEF WInv, MonOK, Event
    <3> QED
      BY <3>1, <3>2, CachedStays DEF HeldKnown
  <2> QED
    BY <2>1, <2>2
<1> QED
  BY <1>1, <1>2 DEF HeldKnown

\* The end of a task is told by its runs, and a task of which it has been told
\* is not started.
LEMMA EndsToldStep ==
  ASSUME WInv, CInv, NoStray, Steps, CreatesFree, EndsTold, EndedStays,
         LoopAwaitsStart
  PROVE  EndsTold'
<1> SUFFICES ASSUME NEW k \in Keys,
                    \/ Told(k)'
                    \/ IsFinalStatus(cache'[k])
                    \/ IsFinalStatus(rec'[k].status)
             PROVE  Silent(k)'
  BY DEF EndsTold
<1>1. IsFinalStatus(rec'[k].status) => Ended(k) \/ Told(k)
  BY FinalRecordStep DEF Told, Ended
<1>2. ~Run(k)
  <2> SUFFICES ASSUME Run(k)
               PROVE  FALSE
    OBVIOUS
  <2>1. ~Lingers(k) /\ ~Ended(k) /\ cache' = cache
    BY StartedBy DEF CreatesFree, EndedStays, MayCreate, OnItsWay, Way, IsCreate
  <2>2. EndSent(k)' => EndSent(k)
    BY DEF Run, EndSent
  <2> QED
    BY <1>1, <2>1, <2>2, ToldMoves DEF Lingers, Held
<1>3. Told(k)' => Told(k) \/ Silent(k)'
  BY <1>2, HeldByRun
<1>4. IsFinalStatus(cache'[k]) => IsFinalStatus(cache[k]) \/ Told(k)
  BY <1>2, HeldByRun
<1>5. Silent(k) => Silent(k)'
  BY <1>2, ExecutorSteps, SilentStays DEF WInv
<1> QED
  BY <1>1, <1>3, <1>4, <1>5 DEF EndsTold, Ended

LEMMA MayCreateStep ==
  ASSUME WInv, Steps, NEW k \in Keys, IsFinalStatus(rec'[k].status), ~MayCreate(k)
  PROVE  ~MayCreate(k)'
<1>1. ~OnItsWay(k)'
  BY WayStep DEF MayCreate, LooksAt, Diff
<1>2. cache'[k] = NotExist => cache[k] = NotExist
  BY CachedStays
<1>3. LooksAt(k)' => LooksAt(k) /\ enq' = enq
  BY LookStep DEF LooksAt
<1> QED
  BY <1>1, <1>2, <1>3 DEF MayCreate

\* The monitor records the end of a task while its status is cached and the
\* task lingers.
LEMMA EndedStaysStep ==
  ASSUME WInv, Steps, LooksAtHeld, CreatesFree, HeldKnown, EndedStays
  PROVE  EndedStays'
<1> SUFFICES ASSUME NEW k \in Keys, IsFinalStatus(rec'[k].status)
             PROVE  ~MayCreate(k)'
  BY DEF EndedStays, Ended
<1>1. ASSUME Records(k)
      PROVE  ~MayCreate(k)
  <2>1. Lingers(k) /\ ~Free(k)
    BY <1>1 DEF Lingers, Held, Told, Free
  <2>2. cache[k] # NotExist
    BY <1>1 DEF Records, HeldKnown
  <2> QED
    BY <2>1, <2>2 DEF MayCreate, OnItsWay, Way, LooksAt, IsCreate, CreatesFree,
                      LooksAtHeld, Free
<1>2. ~MayCreate(k)
  BY <1>1, FinalRecordStep DEF EndedStays, Ended
<1> QED
  BY <1>2, MayCreateStep

\* The recycler forgets the end of a task when nothing of it is under way.
LEMMA RecycleHolds ==
  ASSUME WInv, CInv, HoldInv, NEW k \in Keys, Recycle(k)
  PROVE  HoldInv'
<1>1. /\ enq.at = "idle" /\ mon.at = "idle" /\ change = {}
      /\ resultChan = <<>> /\ ch = <<>> /\ pending = <<>>
      /\ IsFinalStatus(cache[k]) /\ cache' = [cache EXCEPT ![k] = NotExist]
      /\ \A i \in Instances : AtRest(i)
      /\ UNCHANGED <<evars, rec, enq, pending, active, change, ch, mon>>
  BY DEF Recycle, svars
<1>2. UNCHANGED <<ctrls, resultChan, keyOf, inner, outer>>
  BY <1>1 DEF evars
<1>3. \A j : ~Told(j) /\ ~Told(j)'
  BY <1>1, <1>2 DEF Told, EndSent, Records
<1>4. ctrls[k] = None
  <2> SUFFICES ASSUME ctrls[k] # None
               PROVE  FALSE
    OBVIOUS
  <2>1. PICK i \in 1..runs : ctrls[k] = i /\ keyOf[i] = k
    BY DEF CInv, MapsToOwnKey
  <2>2. i \in Instances /\ outer[i] # "gone"
    BY <2>1, KeyOfRun DEF CInv, OwnCtrl, WInv, TInv
  <2>3. Through(i)
    BY <1>1, <2>1 DEF HoldInv, EndsTold, Silent
  <2> QED
    BY <1>1, <2>2, <2>3 DEF AtRest, Through, HoldInv, LoopAwaitsStart
<1>5. \A j \in Keys : Silent(j)' <=> Silent(j)
  BY <1>2 DEF Silent, Through, runs
<1>6. \A j \in Keys \ {k} : cache'[j] = cache[j]
  BY <1>1 DEF WInv, PipelineOK
<1>7. KeysFree' /\ LooksAtHeld' /\ LoopAwaitsStart' /\ EndedStays'
  <2>1. KeysFree' /\ LoopAwaitsStart'
    BY <1>1, <1>2 DEF HoldInv, KeysFree, LoopAwaitsStart
  <2>2. LooksAtHeld'
    BY <1>1 DEF LooksAtHeld
  <2>3. EndedStays'
    BY <1>1 DEF HoldInv, KeysFree, EndedStays, Ended, MayCreate, OnItsWay, Way,
                   LooksAt
  <2> QED
    BY <2>1, <2>2, <2>3
<1>8. CreatesFree'
  BY <1>1 DEF HoldInv, CreatesFree, KeysFree
<1>9. HeldKnown'
  <2>1. ASSUME NEW j \in Keys, Held(j)'
        PROVE  j # k /\ Held(j)
    BY <1>2, <1>3, <1>4, <2>1 DEF Held
  <2> QED
    BY <1>1, <1>6, <2>1 DEF HoldInv, HeldKnown
<1>10. EndsTold'
  <2>1. ~IsFinalStatus(NotExist)
    BY DEF IsFinalStatus, FinalStatuses, NotExist, Success, Failed, Stop
  <2>2. \A j \in Keys : IsFinalStatus(cache'[j]) => IsFinalStatus(cache[j])
    BY <1>1, <1>6, <2>1 DEF WInv, PipelineOK
  <2> QED
    BY <1>1, <1>3, <1>5, <2>2 DEF HoldInv, EndsTold
<1> QED
  BY <1>7, <1>8, <1>9, <1>10 DEF HoldInv

LEMMA HoldBegins ==
  ASSUME Blank
  PROVE  HoldInv
<1>1. runs = 0 /\ enq.at = "idle" /\ enq.changes = {} /\ mon.at = "idle"
  BY DEF Blank, EInit, runs, IdleEnq, IdleMon
<1>2. KeysFree /\ LooksAtHeld /\ CreatesFree
  BY <1>1 DEF Blank, KeysFree, LooksAtHeld, CreatesFree
<1>3. \A k \in Keys : ~Held(k)
  BY <1>1 DEF Blank, EInit, Held, Told, EndSent, Records
<1>4. HeldKnown
  BY <1>1, <1>3 DEF HeldKnown
<1>5. EndsTold /\ EndedStays /\ LoopAwaitsStart
  BY <1>1 DEF Blank, EInit, EndsTold, Silent, EndedStays, MayCreate,
              OnItsWay, Way, LooksAt, LoopAwaitsStart
<1> QED
  BY <1>2, <1>4, <1>5 DEF HoldInv

LEMMA HoldStep ==
  ASSUME WInv, CInv, KeyOnce, HoldInv, NoStray, [Next]_vars
  PROVE  (WInv /\ CInv /\ KeyOnce)' /\ (HoldInv' \/ Blank')
<1>1. KeyOnce' /\ WInv'
  BY QueueMoves, KeyOnceStep, WorkerTypeStep DEF WInv, PipelineOK
<1>2. CInv'
  BY ExecutorMoves, ExecutorRestarts, CtrlStep, CtrlAgain DEF WInv
<1>3. Steps => HoldInv'
  <2>1. Steps => [ENext]_evars /\ TInv
    BY ExecutorSteps DEF WInv
  <2>2. Steps => KeysFree' /\ LooksAtHeld' /\ LoopAwaitsStart'
    BY <2>1, KeysFreeStep, LooksAtHeldStep, LoopAwaitsStartStep DEF HoldInv
  <2>3. Steps => CreatesFree' /\ HeldKnown' /\ EndsTold' /\ EndedStays'
    BY CreatesFreeStep, HeldKnownStep, EndsToldStep, EndedStaysStep DEF HoldInv
  <2> QED
    BY <2>2, <2>3 DEF HoldInv
<1> QED
  BY <1>1, <1>2, <1>3, StepKinds, RecycleHolds, RestartsBlank

\* A record that says a task is over is right also while the cache forgets the
\* ends of tasks, tasks are started again and the worker crashes, as long as
\* no forced exit has left a loop behind: what such a loop reports when it
\* ends would be recorded of the run that was started after it.
THEOREM FinalTrueDespiteRecycling == Spec /\ []NoStray => []FinalMeansEnded
<1>1. Init => WInv /\ CInv /\ KeyOnce /\ Blank
  BY WorkerTypeInit, KeyOnceInit, StartsBlank, CtrlInit DEF Init
<1>2. Blank => HoldInv
  BY HoldBegins
<1>3. WInv /\ CInv /\ KeyOnce /\ HoldInv /\ NoStray /\ [Next]_vars
        => (WInv /\ CInv /\ KeyOnce)' /\ (HoldInv \/ Blank)'
  BY HoldStep
<1>4. WInv /\ HoldInv => FinalMeansEnded
  <2> SUFFICES ASSUME WInv, HoldInv, NEW i \in 1..runs,
                      IsFinalStatus(rec[keyOf[i]].status),
                      outer[i] \in {"start", "wait"}
               PROVE  ~Live(i)
    BY DEF FinalMeansEnded
  <2>1. keyOf[i] \in Keys
    BY KeyOfRun DEF WInv, TInv
  <2>2. inner[i] \in {"ended", "crashed"}
    BY <2>1 DEF HoldInv, EndsTold, Silent, Through
  <2> QED
    BY <2>2 DEF Live
<1> QED
  BY <1>1, <1>2, <1>3, <1>4, PTL DEF Spec
-----------------------------------------------------------------------------
(* Who leaves a loop behind.                                               *)

\* Only a run that has ended is, or is to be, exited by force.
ExitsEnded ==
  \A i \in Instances :
    \/ "exit" \in chans[i]
    \/ caller.at = "send" /\ caller.ch = "exit" /\ caller.inst = i
    \/ outer[i] \in {"report", "delete", "gone"}
    => inner[i] \in {"ended", "crashed"}

\* A task that was never assigned is not wanted, and is not to be started.
UnassignedRests ==
  \A k \in Keys : rec[k].status = WaitScheduling =>
    /\ rec[k].want = NotExist /\ ctrls[k] = None /\ ~OnItsWay(k)
    /\ enq.at = "real" /\ k \in enq.keys => enq.want[k].want = NotExist

\* A call of Exit finds a run that has ended.
LEMMA ExitOfEnded ==
  ASSUME TInv, ExitsEnded, NEW k \in Keys, Exit(k),
         inner[ctrls[k]] \in {"ended", "crashed"}
  PROVE  ExitsEnded'
<1>1. /\ ctrls[k] \in Instances
      /\ \/ /\ caller' = [at |-> "send", inst |-> ctrls[k], ch |-> "exit"]
            /\ chans' = chans
         \/ /\ chans' = [chans EXCEPT ![ctrls[k]] = @ \cup {"exit"}]
            /\ caller' = Idle
      /\ UNCHANGED <<inner, outer>>
  BY DEF Exit, Control, Put, TInv, ETypeOK
<1>2. chans \in [Instances -> SUBSET Chans]
  BY DEF TInv, ETypeOK
<1> QED
  BY <1>1, <1>2 DEF ExitsEnded, Idle

\* No other step of the executor exits a run.
LEMMA OthersExitNone ==
  ASSUME TInv, LoopAwaitsStart, ExitsEnded,
         \/ \E k \in Keys : Run(k) \/ StopTask(k) \/ Pause(k) \/ Resume(k)
         \/ CallerStep \/ Recv
         \/ \E i \in Instances : Inner(i) \/ Outer(i)
         \/ UNCHANGED evars
  PROVE  ExitsEnded'
<1>1. /\ chans \in [Instances -> SUBSET Chans]
      /\ inner \in [Instances -> InnerPcs] /\ outer \in [Instances -> OuterPcs]
      /\ bound \in [Instances -> Instances \cup {None}]
  BY DEF TInv, ETypeOK
<1>2. ASSUME NEW k \in Keys, Run(k)
      PROVE  ExitsEnded'
  BY <1>1, <1>2 DEF Run, ExitsEnded
<1>3. ASSUME NEW k \in Keys, NEW guard, NEW c \in {"stop", "pause", "resume"},
             Control(k, guard, c)
      PROVE  ExitsEnded'
  <2>1. /\ \/ /\ caller' = [at |-> "send", inst |-> ctrls[k], ch |-> c]
              /\ chans' = chans
           \/ /\ chans' = [chans EXCEPT ![ctrls[k]] = @ \cup {c}]
              /\ caller' = Idle
        /\ UNCHANGED <<inner, outer>>
    BY <1>3 DEF Control, Put
  <2>2. \A i \in Instances : "exit" \in chans'[i] => "exit" \in chans[i]
    BY <1>1, <2>1
  <2>3. ~(caller'.at = "send" /\ caller'.ch = "exit")
    BY <2>1 DEF Idle
  <2> QED
    BY <2>1, <2>2, <2>3 DEF ExitsEnded
<1>4. ASSUME NEW k \in Keys, StopTask(k) \/ Pause(k) \/ Resume(k)
      PROVE  ExitsEnded'
  BY <1>3, <1>4 DEF StopTask, Pause, Resume
<1>5. CASE CallerStep
  <2>1. CASE RunSync \/ RunSend
    BY <2>1 DEF RunSync, RunSend, Idle, ExitsEnded, TInv, ETypeOK
  <2>2. CASE PutBlocked
    BY <1>1, <2>2 DEF PutBlocked, Idle, ExitsEnded
  <2> QED
    BY <1>5, <2>1, <2>2 DEF CallerStep
<1>6. CASE Recv \/ UNCHANGED evars
  BY <1>6 DEF Recv, evars, ExitsEnded
<1>7. ASSUME NEW i \in Instances, Inner(i)
      PROVE  ExitsEnded'
  <2>1. UNCHANGED <<outer, caller>>
    BY <1>7 DEF Inner, InnerStart, InnerObey, PausedObey, Obey, CallBizLogic,
                BizLogicReturns, InnerSend
  <2>2. \A j \in Instances : chans'[j] \subseteq chans[j]
    BY <1>1, <1>7
    DEF Inner, InnerStart, InnerObey, PausedObey, Obey, CallBizLogic,
        BizLogicReturns, InnerSend
  <2>3. \A j \in Instances : inner[j] \in {"ended", "crashed"} => inner'[j] = inner[j]
    BY <1>1, <1>7
    DEF Inner, InnerStart, InnerObey, PausedObey, Obey, Sync, CallBizLogic,
        BizLogicReturns, InnerSend
  <2> QED
    BY <2>1, <2>2, <2>3 DEF ExitsEnded
<1>8. ASSUME NEW i \in Instances, Outer(i)
      PROVE  ExitsEnded'
  <2>1. caller' = caller /\ \A j \in Instances : chans'[j] \subseteq chans[j]
    BY <1>1, <1>8 DEF Outer, OuterStart, OuterExit, OuterFinish, OuterSend,
                      OuterDelete
  <2>2. \A j \in Instances : inner[j] \in {"ended", "crashed"} => inner'[j] = inner[j]
    BY <1>1, <1>8 DEF Outer, OuterStart, OuterExit, OuterFinish, OuterSend,
                      OuterDelete, LoopAwaitsStart
  <2>3. \A j \in Instances : outer'[j] \in {"report", "delete", "gone"} =>
          \/ outer[j] \in {"report", "delete", "gone"}
          \/ "exit" \in chans[j]
          \/ inner[j] \in {"ended", "crashed"}
    BY <1>1, <1>8 DEF Outer, OuterStart, OuterExit, OuterFinish, OuterSend,
                      OuterDelete
  <2> QED
    BY <2>1, <2>2, <2>3 DEF ExitsEnded
<1> QED
  BY <1>2, <1>4, <1>5, <1>6, <1>7, <1>8

\* A record that says a task was never assigned has not been touched.
LEMMA UnassignedSince ==
  ASSUME WInv, Steps, NEW k \in Keys, rec'[k].status = WaitScheduling
  PROVE  rec'[k] = rec[k]
<1>1. rec \in [Keys -> Record]
  BY DEF WInv, PipelineOK
<1>2. /\ \A s \in {Running, Paused, Stop} : PreWaitStatus(s) # WaitScheduling
      /\ Paused # WaitScheduling
      /\ WaitScheduling \notin LiveStatuses \cup FinalStatuses
  BY DEF PreWaitStatus, IsFinalStatus, FinalStatuses, LiveStatuses, Running,
         Paused, Stop, Success, Failed, WaitRunning, WaitPaused, WaitStop,
         WaitScheduling
<1>3. ASSUME NEW j \in Keys, assignTask(j)
      PROVE  rec'[k] = rec[k]
  BY <1>1, <1>2, <1>3 DEF assignTask
<1>4. CASE OperateUpdate
  <2>1. PICK o \in oper : rec' = [rec EXCEPT ![o.key] =
                     [status |-> PreWaitStatus(o.next), want |-> o.next]]
    BY <1>4 DEF OperateUpdate
  <2>2. o.key \in Keys /\ o.next \in {Running, Paused, Stop}
    BY DEF WInv, PipelineOK
  <2>3. PreWaitStatus(o.next) # WaitScheduling
    BY <1>2, <2>2
  <2> QED
    BY <1>1, <2>1, <2>2, <2>3
<1>5. CASE handleException /\ rec' # rec
  <2>1. PICK c \in Exceptions : rec' = [rec EXCEPT ![c.key].status = Paused]
    BY <1>5 DEF handleException, UpdateStatus
  <2> QED
    BY <1>1, <1>2, <2>1 DEF Record
<1>6. CASE MonitorUpdate /\ rec' # rec
  <2>1. /\ rec' = [rec EXCEPT ![mon.ev.key].status = mon.ev.status]
        /\ mon.ev \in Event
    BY <1>6 DEF MonitorUpdate, UpdateStatus, WInv, MonOK
  <2>2. mon.ev.status \in LiveStatuses \cup FinalStatuses
    BY <2>1, EventStatus
  <2> QED
    BY <1>1, <1>2, <2>1, <2>2 DEF Record
<1>7. CASE rec' = rec
  BY <1>7
<1> QED
  BY <1>3, <1>4, <1>5, <1>6, <1>7, RecordMoves

LEMMA UnassignedRestsStep ==
  ASSUME WInv, Steps, UnassignedRests
  PROVE  UnassignedRests'
<1> SUFFICES ASSUME NEW k \in Keys, rec'[k].status = WaitScheduling
             PROVE  /\ rec'[k].want = NotExist /\ ctrls'[k] = None /\ ~OnItsWay(k)'
                    /\ enq'.at = "real" /\ k \in enq'.keys
                         => enq'.want[k].want = NotExist
  BY DEF UnassignedRests
<1>1. rec'[k] = rec[k]
  BY UnassignedSince
<1>2. /\ rec[k].want = NotExist /\ ctrls[k] = None /\ ~OnItsWay(k)
      /\ enq.at = "real" /\ k \in enq.keys => enq.want[k].want = NotExist
  BY <1>1 DEF UnassignedRests
<1>3. ~Run(k)
  BY <1>2, StartedBy DEF OnItsWay, Way
<1>4. ctrls'[k] = None
  BY <1>2, <1>3, ExecutorSteps, ControlByRun DEF WInv
<1>5. ~OnItsWay(k)'
  <2>1. NotExist # Running
    BY DEF NotExist, Running
  <2> QED
    BY <1>2, <2>1, WayStep DEF Diff
<1>6. enq'.at = "real" /\ k \in enq'.keys => enq'.want[k].want = NotExist
  BY <1>2, LookStep
<1> QED
  BY <1>1, <1>2, <1>4, <1>5, <1>6

\* A task that is killed has ended: its record says so, and is right.
LEMMA ExitsEndedStep ==
  ASSUME WInv, CInv, HoldInv, UnassignedRests, NoExitOfWanted, ExitsEnded, Steps
  PROVE  ExitsEnded'
<1>1. ASSUME NEW c \in change, c.type = "delete", Exit(c.key)
      PROVE  ExitsEnded'
  <2>1. PICK k \in Keys : k = c.key
    BY DEF WInv, PipelineOK, Changes
  <2>2. ctrls[k] # None
    BY <1>1, <2>1 DEF Exit, Control
  <2>3. Ended(k)
    BY <1>1, <2>1, <2>2
    DEF NoExitOfWanted, Runnable, UnassignedRests, Ended, IsFinalStatus
  <2>4. PICK i \in 1..runs : ctrls[k] = i /\ keyOf[i] = k
    BY <2>2 DEF CInv, MapsToOwnKey
  <2>5. i \in Instances /\ TInv
    BY KeyOfRun DEF WInv, TInv
  <2>6. Through(i)
    BY <2>3, <2>4 DEF HoldInv, EndsTold, Ended, Silent
  <2>7. inner[ctrls[k]] \in {"ended", "crashed"}
    BY <2>4, <2>5, <2>6 DEF Through, ExitsEnded
  <2> QED
    BY <1>1, <2>1, <2>5, <2>7, ExitOfEnded
<1> QED
  BY <1>1, StepCalls, OthersExitNone DEF ChangeHandle, WInv, HoldInv

LEMMA ExitsEndedBegin == EInit => ExitsEnded
BY DEF EInit, ExitsEnded, Idle

LEMMA ExitsEndedAgain == EInit' => ExitsEnded'
BY ExitsEndedBegin, PTL

LEMMA UnassignedRestsBegin == Init => UnassignedRests
<1>1. PreWaitStatus(Running) # WaitScheduling
  BY DEF PreWaitStatus, IsFinalStatus, FinalStatuses, Running, Paused, Stop,
         Success, Failed, WaitRunning, WaitScheduling
<1> QED
  BY <1>1 DEF Init, Started, EInit, IdleEnq, OnItsWay, Way, UnassignedRests

LEMMA UnassignedRestsAgain ==
  ASSUME UnassignedRests, Crash
  PROVE  UnassignedRests'
BY DEF Crash, IdleEnq, OnItsWay, Way, UnassignedRests

LEMMA NoneLeft ==
  ASSUME TInv, ExitsEnded
  PROVE  NoStray
BY KeyOfRun DEF ExitsEnded, NoStray, TInv

LEMMA EndedExitStep ==
  ASSUME WInv, CInv, KeyOnce, HoldInv, ExitsEnded, UnassignedRests,
         NoExitOfWanted, [Next]_vars
  PROVE  /\ (WInv /\ CInv /\ KeyOnce /\ ExitsEnded /\ UnassignedRests)'
         /\ HoldInv' \/ Blank'
<1>1. NoStray
  BY NoneLeft DEF WInv
<1>2. (WInv /\ CInv /\ KeyOnce)' /\ (HoldInv' \/ Blank')
  BY <1>1, HoldStep
<1>3. Steps => (ExitsEnded /\ UnassignedRests)'
  BY ExitsEndedStep, UnassignedRestsStep
<1>4. ASSUME NEW k \in Keys, Recycle(k)
      PROVE  (ExitsEnded /\ UnassignedRests)'
  <2>1. UNCHANGED <<evars, rec, enq, pending, change>>
    BY <1>4 DEF Recycle, svars
  <2> QED
    BY <2>1 DEF evars, ExitsEnded, UnassignedRests, OnItsWay, Way
<1>5. Crash => (ExitsEnded /\ UnassignedRests)'
  BY ExecutorRestarts, ExitsEndedAgain, UnassignedRestsAgain
<1> QED
  BY <1>2, <1>3, <1>4, <1>5, StepKinds

\* As long as no wanted task is killed, no forced exit leaves a loop behind and
\* final records are right, whatever the cache forgets, users do and the
\* repository loses and however often the worker crashes: of the two safety
\* properties of the control loop the one that looks at the change carries the
\* one that looks at the record.
THEOREM FinalTrueUnlessKilled ==
  Spec /\ []NoExitOfWanted => []NoStray /\ []FinalMeansEnded
<1>1. Init => WInv /\ CInv /\ KeyOnce /\ Blank /\ ExitsEnded /\ UnassignedRests
  BY WorkerTypeInit, KeyOnceInit, StartsBlank, CtrlInit, ExitsEndedBegin,
     UnassignedRestsBegin DEF Init
<1>2. Blank => HoldInv
  BY HoldBegins
<1>3. WInv /\ CInv /\ KeyOnce /\ HoldInv /\ ExitsEnded /\ UnassignedRests
        /\ NoExitOfWanted /\ [Next]_vars
        => (WInv /\ CInv /\ KeyOnce /\ ExitsEnded /\ UnassignedRests)'
             /\ (HoldInv \/ Blank)'
  BY EndedExitStep
<1>4. WInv /\ ExitsEnded => NoStray
  BY NoneLeft DEF WInv
<1> QED
  BY <1>1, <1>2, <1>3, <1>4, FinalTrueDespiteRecycling, PTL DEF Spec
=============================================================================
