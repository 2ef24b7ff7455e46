---------------------------- MODULE DockerWorker ----------------------------
(***************************************************************************)
(* The docker executor below the indexer of a worker: how the end of a     *)
(* container reaches the record of its task, over crashes of the worker,   *)
(* failing calls of the task repository, the recycler of the cache and the *)
(* cleaning up of containers.                                              *)
(*                                                                         *)
(*   monitors, caller -> resultChan -> ch -> processTask -> record         *)
(*                       refreshCache -^                                   *)
(*                                                                         *)
(* What leads from the record and the cache to a call of the executor is   *)
(* one step here; module Worker has its parts.                             *)
(***************************************************************************)
EXTENDS DockerExecutor

CONSTANTS ChCap,     \* capacity of ch
          Steps,     \* attempts of retry.Do, Steps of DefaultBackoff
          MaxFail,   \* bound: failing updates of a record
          MaxCrash   \* bound: crashes of the worker

ASSUME DockerWorkerBounds ==
  {ChCap, Steps} \subseteq Nat \ {0} /\ {MaxFail, MaxCrash} \subseteq Nat

VARIABLES rec,       \* per key: the recorded status
          cache,     \* per key: the cached status, NotExist if none
          ch,        \* events for processTask
          idx,       \* the goroutine in processTask: the event and the attempts left
          refresher, \* what refreshCache has listed and not yet compared
          recycler,  \* the keys the recycler of the cache has found and not yet deleted
          busy,      \* keys with a change under way: processing in changeQueue
          boot,      \* keys found ended at the start and not processed since
          spent      \* failures and crashes so far

wvars == <<rec, cache, ch, idx, refresher, recycler, busy, boot, spent>>
vars  == <<dvars, wvars>>

IdleIdx == [left |-> 0, key |-> "", status |-> NotExist]

Init ==
  /\ DInit
  /\ rec = [k \in Keys |-> WaitRunning]
  /\ cache = [k \in Keys |-> NotExist]
  /\ ch = <<>>
  /\ idx = IdleIdx
  /\ refresher = {}
  /\ recycler = {}
  /\ busy = {}
  /\ boot = {}
  /\ spent = [fails |-> 0, crashes |-> 0]
-----------------------------------------------------------------------------
(* Indexer.Monitor.                                                        *)

Event(k, s) == [key |-> k, status |-> s]

\* The watching goroutine passes the events of the executor on.
Forward ==
  /\ Len(ch) < ChCap
  /\ Recv
  /\ ch' = Append(ch, Head(resultChan))
  /\ UNCHANGED <<rec, cache, idx, refresher, recycler, busy, boot, spent>>

\* The event is cached, and retry.Do is about to update the record.
processTask ==
  /\ idx = IdleIdx
  /\ ch # <<>>
  /\ ch' = Tail(ch)
  /\ cache' = [cache EXCEPT ![Head(ch).key] = Head(ch).status]
  /\ boot' = boot \ {Head(ch).key}
  /\ idx' = [left |-> Steps, key |-> Head(ch).key, status |-> Head(ch).status]
  /\ UNCHANGED <<dvars, rec, refresher, recycler, busy, spent>>

\* An attempt of ExponentialBackoff that succeeds.  Afterwards the change is
\* done.
UpdateTask ==
  /\ idx.left > 0
  /\ rec' = [rec EXCEPT ![idx.key] = idx.status]
  /\ idx' = IdleIdx
  /\ busy' = busy \ {idx.key}
  /\ UNCHANGED <<dvars, cache, ch, refresher, recycler, boot, spent>>

\* Mutant: an error ends the loop, as if it were not retriable.
BackoffGivesUp == IdleIdx

\* An attempt has failed: there is another one unless Steps has reached 1.
Backoff == IF idx.left = 1 THEN IdleIdx ELSE [idx EXCEPT !.left = @ - 1]

UpdateFails ==
  /\ idx.left > 0
  /\ spent.fails < MaxFail
  /\ spent' = [spent EXCEPT !.fails = @ + 1]
  /\ idx' = Backoff
  /\ busy' = IF Backoff = IdleIdx THEN busy \ {idx.key} ELSE busy
  /\ UNCHANGED <<dvars, rec, cache, ch, refresher, recycler, boot>>
-----------------------------------------------------------------------------
(* refreshCache and the recycler of ThreadSafeMap, each of which reads     *)
(* everything at once and then goes through what it has read.              *)

refreshList ==
  /\ refresher = {}
  /\ refresher' = {Event(k, taskStatus[k]) : k \in {k \in Keys : taskStatus[k] # NotExist}}
  /\ UNCHANGED <<dvars, rec, cache, ch, idx, recycler, busy, boot, spent>>

\* Mutant: a task that is not cached counts as unchanged.
ChangedCached(e) == cache[e.key] # NotExist /\ cache[e.key] # e.status

\* Mutant: ends are left to the events.
ChangedLive(e) == ~IsFinalStatus(e.status) /\ cache[e.key] # e.status

\* A task that is not cached has changed.
Changed(e) == cache[e.key] # e.status

refreshCache ==
  /\ \E e \in refresher :
       /\ refresher' = refresher \ {e}
       /\ IF Changed(e)
            THEN Len(ch) < ChCap /\ ch' = Append(ch, e)
            ELSE UNCHANGED ch
  /\ UNCHANGED <<dvars, rec, cache, idx, recycler, busy, boot, spent>>

\* recycleCondition: ended, and cached for more than a minute.
listWithSetDurition ==
  /\ recycler = {}
  /\ \E old \in SUBSET {k \in Keys : IsFinalStatus(cache[k])} :
       old # {} /\ recycler' = old
  /\ UNCHANGED <<dvars, rec, cache, ch, idx, refresher, busy, boot, spent>>

\* Whatever is cached by now.
Delete ==
  /\ \E k \in recycler :
       /\ recycler' = recycler \ {k}
       /\ cache' = [cache EXCEPT ![k] = NotExist]
  /\ UNCHANGED <<dvars, rec, ch, idx, refresher, busy, boot, spent>>
-----------------------------------------------------------------------------
\* The worker dies and starts again: initCache caches what is listed, and no
\* event tells of it.
Restart ==
  /\ spent.crashes < MaxCrash
  /\ spent' = [spent EXCEPT !.crashes = @ + 1]
  /\ NewExecutor
  /\ cache' = taskStatus'
  /\ boot' = {k \in Keys : IsFinalStatus(taskStatus'[k])}
  /\ ch' = <<>>
  /\ idx' = IdleIdx
  /\ refresher' = {}
  /\ recycler' = {}
  /\ busy' = {}
  /\ UNCHANGED rec

\* Timing: cleanupResources first looks five minutes after the start, when the
\* recycler (two minutes) and refreshCache have dealt with what had ended.
CleanUp == CleanList /\ boot = {}

\* diff, the queue and ChangeHandle: the change that the table of module
\* TaskStatus has for the cached status and for what a user may want.
ChangeHandle(k) ==
  /\ k \notin busy
  /\ \/ ~IsFinalStatus(rec[k]) /\ cache[k] = NotExist /\ CreateContainer(k)
     \/ ~IsFinalStatus(rec[k]) /\ cache[k] = Running /\ Pause(k)
     \/ ~IsFinalStatus(rec[k]) /\ cache[k] = Paused /\ Resume(k)
     \/ cache[k] \in LiveStatuses /\ stopContainer(k)
  /\ busy' = busy \cup {k}
  /\ UNCHANGED <<rec, cache, ch, idx, refresher, recycler, boot, spent>>

\* Run returns an error: the change is done.
JumpChange ==
  /\ StartContainer(FALSE)
  /\ busy' = busy \ {call.key}
  /\ UNCHANGED <<rec, cache, ch, idx, refresher, recycler, boot, spent>>

Executor ==
  \/ \E k \in Keys, code \in Codes : ContainerExits(k, code)
  \/ CallGoesOn
  \/ \E c \in Conts :
       MonitorWakes(c) \/ MonitorFails(c) \/ MonitorSends(c)
  \/ CleanUp \/ CleanRemove \/ CleanStatus \/ CleanID

Indexer ==
  \/ Forward
  \/ processTask
  \/ UpdateTask
  \/ UpdateFails
  \/ refreshList
  \/ refreshCache
  \/ listWithSetDurition
  \/ Delete

Next ==
  \/ \E k \in Keys : ChangeHandle(k)
  \/ JumpChange
  \/ Executor /\ UNCHANGED wvars
  \/ Indexer
  \/ Restart

\* Every goroutine goes on when it can.  A blocked sender is served in turn,
\* and a tick of the recycler finds all that has aged by then.  Nothing is
\* assumed of the caller, of the tasks, of the daemon or of the cleaning up.
Fairness ==
  /\ WF_vars((StartContainer(TRUE) \/ CallSets \/ RunWatches) /\ UNCHANGED wvars)
  /\ SF_vars(CallSends /\ UNCHANGED wvars)
  /\ \A c \in Conts :
       /\ WF_vars(MonitorWakes(c) /\ UNCHANGED wvars)
       /\ SF_vars(MonitorSends(c) /\ UNCHANGED wvars)
  /\ SF_vars(Forward)
  /\ WF_vars(processTask)
  /\ WF_vars(UpdateTask \/ UpdateFails)
  /\ WF_vars(refreshList)
  /\ SF_vars(refreshCache)
  /\ WF_vars(listWithSetDurition)
  /\ WF_vars(Delete)

Spec     == Init /\ [][Next]_vars
FairSpec == Spec /\ Fairness
-----------------------------------------------------------------------------
TypeOK ==
  /\ DTypeOK
  /\ rec \in [Keys -> {WaitRunning} \cup LiveStatuses \cup FinalStatuses]
  /\ cache \in [Keys -> LiveStatuses \cup FinalStatuses \cup {NotExist}]
  /\ \A i \in DOMAIN ch : ch[i].key \in Keys /\ ch[i].status # NotExist
  /\ idx = IdleIdx \/ (idx.left \in 1..Steps /\ idx.key \in Keys)
  /\ {e.key : e \in refresher} \cup recycler \cup busy \cup boot \subseteq Keys

\* An end that a monitor has seen gets into the record, although updates of
\* the record fail, and the container is removed and forgotten meanwhile;
\* unless the worker dies.
EndReported ==
  \A c \in Conts, k \in Keys, n \in 0..MaxCrash :
    mon[c].at = "send" /\ mon[c].key = k /\ spent.crashes = n
      ~> spent.crashes > n \/ IsFinalStatus(rec[k])

\* An end that the worker finds when it starts gets into the record, although
\* no event tells of it.
EndRecovered ==
  \A k \in Keys : k \in boot ~> IsFinalStatus(rec[k])

\* Until the container is removed the end also stays recorded, although the
\* event of its start may come after that of its end, refreshCache may push
\* what it listed before, and the recycler forgets it again and again.
EndStays ==
  \A k \in Keys : <>[]IsFinalStatus(taskStatus[k]) => <>[]IsFinalStatus(rec[k])

\* A task that goes on running or stays paused is cached as such in the end,
\* although the recycler may delete an entry that was set anew.
CacheFollows ==
  \A k \in Keys, s \in LiveStatuses : <>[](taskStatus[k] = s) => <>[](cache[k] = s)
=============================================================================
