--------------------------- MODULE DockerExecutor ---------------------------
(***************************************************************************)
(* core/worker/executor/docker: tasks run as containers, which outlive the *)
(* worker.                                                                 *)
(*                                                                         *)
(* The Docker daemon is outside the repository: it keeps at most one       *)
(* container of a name, which is the key of the task, and numbers the      *)
(* containers it makes.  The executor has the caller (the worker's change  *)
(* syncer), one monitor per container it has started or found, and the     *)
(* goroutine of cleanupResources.  A step ends at a call of the daemon, a  *)
(* lock or a channel.                                                      *)
(***************************************************************************)
EXTENDS Naturals, Sequences, TaskStatus

CONSTANTS Keys,       \* task keys
          MaxConts,   \* bound: containers made
          ResultCap,  \* capacity of resultChan
          Codes,      \* exit codes of tasks
          Events      \* what happens besides starting and ending

ASSUME DockerBounds ==
  /\ MaxConts \in Nat /\ ResultCap \in Nat \ {0} /\ Codes \subseteq Nat
  /\ Events \subseteq {"stop", "pause", "start fails", "wait fails"}

VARIABLES cont,            \* per key: the container of that name
          made,            \* containers made so far
          taskStatus,      \* per key: the status listed for it, NotExist if none
          taskContainerID, \* per key: the number of its container, None if unknown
          resultChan,      \* the status events not yet received
          call,            \* the caller inside Run, Pause or Resume
          mon,             \* per container: its monitor
          clean            \* the goroutine in cleanupResources

memory == <<taskStatus, taskContainerID, resultChan, call, mon, clean>>
dvars  == <<cont, made, memory>>

Conts == 1..MaxConts
None  == 0

NoCont    == [state |-> "none", id |-> None, code |-> 0]
IdleCall  == [at |-> "idle", key |-> "", id |-> None, status |-> NotExist]
NoMonitor == [at |-> "none", key |-> "", status |-> NotExist]
IdleClean == [at |-> "idle", keys |-> {}, key |-> ""]

\* A container that has been started and has not ended.
Alive(k) == cont[k].state \in {"running", "paused"}

DInit ==
  /\ cont = [k \in Keys |-> NoCont]
  /\ made = 0
  /\ taskStatus = [k \in Keys |-> NotExist]
  /\ taskContainerID = [k \in Keys |-> None]
  /\ resultChan = <<>>
  /\ call = IdleCall
  /\ mon = [c \in Conts |-> NoMonitor]
  /\ clean = IdleClean

setTaskStatus(k, s) == taskStatus' = [taskStatus EXCEPT ![k] = s]

Send(k, s) ==
  /\ Len(resultChan) < ResultCap
  /\ resultChan' = Append(resultChan, [key |-> k, status |-> s])

\* ChangeResult: the manager receives the oldest event.
Recv ==
  /\ resultChan # <<>>
  /\ resultChan' = Tail(resultChan)
  /\ UNCHANGED <<cont, made, taskStatus, taskContainerID, call, mon, clean>>
-----------------------------------------------------------------------------
(* Run: the image is pulled and the container created, started, noted and  *)
(* watched.  A call that fails leaves behind what it has done so far.      *)

CreateContainer(k) ==
  /\ call = IdleCall
  /\ cont[k] = NoCont
  /\ made < MaxConts
  /\ made' = made + 1
  /\ cont' = [cont EXCEPT ![k] = [state |-> "created", id |-> made + 1, code |-> 0]]
  /\ call' = [at |-> "start", key |-> k, id |-> made + 1, status |-> Running]
  /\ UNCHANGED <<taskStatus, taskContainerID, resultChan, mon, clean>>

StartContainer(ok) ==
  /\ call.at = "start"
  /\ ok \/ "start fails" \in Events
  /\ cont' = IF ok THEN [cont EXCEPT ![call.key].state = "running"] ELSE cont
  /\ call' = IF ok THEN [call EXCEPT !.at = "set"] ELSE IdleCall
  /\ UNCHANGED <<made, taskStatus, taskContainerID, resultChan, mon, clean>>

\* The status is set, by Run, Pause and Resume; Run goes on.
CallSets ==
  /\ call.at \in {"set", "setOnly"}
  /\ setTaskStatus(call.key, call.status)
  /\ call' = [call EXCEPT !.at = IF call.at = "set" THEN "watch" ELSE "send"]
  /\ UNCHANGED <<cont, made, taskContainerID, resultChan, mon, clean>>

\* Mutant: Run leaves the container to itself.
RunWatchesNothing ==
  /\ call.at = "watch"
  /\ taskContainerID' = [taskContainerID EXCEPT ![call.key] = call.id]
  /\ call' = [call EXCEPT !.at = "send"]
  /\ UNCHANGED <<cont, made, taskStatus, resultChan, mon, clean>>

Monitor(k) == [at |-> "wait", key |-> k, status |-> NotExist]

\* The number is noted and the monitor started.
RunWatches ==
  /\ call.at = "watch"
  /\ taskContainerID' = [taskContainerID EXCEPT ![call.key] = call.id]
  /\ mon' = [mon EXCEPT ![call.id] = Monitor(call.key)]
  /\ call' = [call EXCEPT !.at = "send"]
  /\ UNCHANGED <<cont, made, taskStatus, resultChan, clean>>

CallSends ==
  /\ call.at = "send"
  /\ Send(call.key, call.status)
  /\ call' = IdleCall
  /\ UNCHANGED <<cont, made, taskStatus, taskContainerID, mon, clean>>
-----------------------------------------------------------------------------
(* The other calls, for a key whose container is known.                    *)

Known(k) == call = IdleCall /\ taskContainerID[k] # None

\* The known container is the one of that name, in state s.
InState(k, s) == cont[k].id = taskContainerID[k] /\ cont[k].state = s

\* It ends as it likes, or it is killed.
StopCodes == Codes \cup {137}

\* Stop and Exit: the container is told to end and, without delay, killed; one
\* that is not alive stays as it is.
stopContainer(k) ==
  /\ "stop" \in Events
  /\ Known(k)
  /\ cont[k].id = taskContainerID[k]
  /\ IF Alive(k)
       THEN \E code \in StopCodes :
              cont' = [cont EXCEPT ![k].state = "exited", ![k].code = code]
       ELSE UNCHANGED cont
  /\ UNCHANGED <<made, memory>>

\* The daemon is called; it refuses in any other state.
Pause(k) ==
  /\ "pause" \in Events
  /\ Known(k) /\ InState(k, "running")
  /\ cont' = [cont EXCEPT ![k].state = "paused"]
  /\ call' = [at |-> "setOnly", key |-> k, id |-> cont[k].id, status |-> Paused]
  /\ UNCHANGED <<made, taskStatus, taskContainerID, resultChan, mon, clean>>

Resume(k) ==
  /\ Known(k) /\ InState(k, "paused")
  /\ cont' = [cont EXCEPT ![k].state = "running"]
  /\ call' = [at |-> "setOnly", key |-> k, id |-> cont[k].id, status |-> Running]
  /\ UNCHANGED <<made, taskStatus, taskContainerID, resultChan, mon, clean>>

CallGoesOn ==
  \/ StartContainer(TRUE)
  \/ CallSets
  \/ RunWatches
  \/ CallSends
-----------------------------------------------------------------------------
(* monitorContainer.                                                       *)

\* The task ends by itself.
ContainerExits(k, code) ==
  /\ cont[k].state = "running"
  /\ cont' = [cont EXCEPT ![k].state = "exited", ![k].code = code]
  /\ UNCHANGED <<made, memory>>

\* Mutant: a killed container is on its way to stop.
ofExitCodeWaiting(code) ==
  CASE code = 0   -> Success
    [] code = 137 -> WaitStop
    [] OTHER      -> Failed

ofExitCode(code) ==
  CASE code = 0   -> Success
    [] code = 137 -> Stop
    [] OTHER      -> Failed

\* The wait is over, with a final status.
MonitorSets(c, s) ==
  /\ mon[c].at = "wait"
  /\ setTaskStatus(mon[c].key, s)
  /\ mon' = [mon EXCEPT ![c].at = "send", ![c].status = s]
  /\ UNCHANGED <<cont, made, taskContainerID, resultChan, call, clean>>

\* ContainerWait returns when the container is not running, also when it was
\* never started; an exit code says how it ended.
MonitorWakes(c) ==
  \E k \in Keys :
    cont[k].id = c /\ ~Alive(k) /\ MonitorSets(c, ofExitCode(cont[k].code))

\* ContainerWait fails.
MonitorFails(c) == "wait fails" \in Events /\ MonitorSets(c, Failed)

MonitorSends(c) ==
  /\ mon[c].at = "send"
  /\ Send(mon[c].key, mon[c].status)
  /\ mon' = [mon EXCEPT ![c].at = "gone"]
  /\ UNCHANGED <<cont, made, taskStatus, taskContainerID, call, clean>>
-----------------------------------------------------------------------------
(* cleanupResources.                                                       *)

\* Of the tasks that had ended, those that are still to be looked at.
Cleaning(keys) ==
  IF keys = {} THEN IdleClean ELSE [at |-> "next", keys |-> keys, key |-> ""]

CleanList ==
  /\ clean = IdleClean
  /\ \E k \in Keys : IsFinalStatus(taskStatus[k])
  /\ clean' = Cleaning({k \in Keys : IsFinalStatus(taskStatus[k])})
  /\ UNCHANGED <<cont, made, taskStatus, taskContainerID, resultChan, call, mon>>

\* The container goes first; what the daemon does not remove, because it is
\* unknown, alive or gone already, stays listed.
CleanRemove ==
  /\ clean.at = "next"
  /\ \E k \in clean.keys :
       IF taskContainerID[k] # None /\ cont[k].id = taskContainerID[k] /\ ~Alive(k)
         THEN /\ cont' = [cont EXCEPT ![k] = NoCont]
              /\ clean' = [at |-> "status", keys |-> clean.keys \ {k}, key |-> k]
         ELSE clean' = Cleaning(clean.keys \ {k}) /\ UNCHANGED cont
  /\ UNCHANGED <<made, taskStatus, taskContainerID, resultChan, call, mon>>

CleanStatus ==
  /\ clean.at = "status"
  /\ setTaskStatus(clean.key, NotExist)
  /\ clean' = [clean EXCEPT !.at = "id"]
  /\ UNCHANGED <<cont, made, taskContainerID, resultChan, call, mon>>

CleanID ==
  /\ clean.at = "id"
  /\ taskContainerID' = [taskContainerID EXCEPT ![clean.key] = None]
  /\ clean' = Cleaning(clean.keys)
  /\ UNCHANGED <<cont, made, taskStatus, resultChan, call, mon>>

Cleaner == CleanList \/ CleanRemove \/ CleanStatus \/ CleanID
-----------------------------------------------------------------------------
(* NewExecutor: the process has died; containers are found by their label. *)

listByOrigin(k) ==
  CASE cont[k].state = "none"   -> NotExist
    [] cont[k].state = "exited" -> IF cont[k].code = 0 THEN Success ELSE Failed
    [] cont[k].state = "paused" -> Paused
    [] OTHER                    -> Running

\* Mutant: only running containers are watched again.
RecoveredRunning ==
  {k \in Keys : listByOrigin(k) = Running}

\* The containers that are watched again.
Recovered == {k \in Keys : listByOrigin(k) # NotExist /\ ~IsFinalStatus(listByOrigin(k))}

NewExecutor ==
  /\ taskStatus' = [k \in Keys |-> listByOrigin(k)]
  /\ taskContainerID' = [k \in Keys |-> cont[k].id]
  /\ mon' = [c \in Conts |->
               IF \E k \in Recovered : cont[k].id = c
                 THEN Monitor(CHOOSE k \in Recovered : cont[k].id = c)
                 ELSE NoMonitor]
  /\ resultChan' = <<>>
  /\ call' = IdleCall
  /\ clean' = IdleClean
  /\ UNCHANGED <<cont, made>>

DNext ==
  \/ \E k \in Keys :
       \/ CreateContainer(k) \/ stopContainer(k) \/ Pause(k) \/ Resume(k)
       \/ \E code \in Codes : ContainerExits(k, code)
  \/ CallGoesOn \/ StartContainer(FALSE)
  \/ \E c \in Conts :
       MonitorWakes(c) \/ MonitorFails(c) \/ MonitorSends(c)
  \/ Recv
  \/ Cleaner
  \/ NewExecutor

DSpec == DInit /\ [][DNext]_dvars
-----------------------------------------------------------------------------
Containers == [state : {"none", "created", "running", "paused", "exited"},
               id : Conts \cup {None}, code : Nat]
Calls      == [at : {"idle", "start", "set", "setOnly", "watch", "send"},
               key : Keys \cup {""}, id : Conts \cup {None},
               status : LiveStatuses \cup {NotExist}]
Monitors   == [at : {"none", "wait", "send", "gone"}, key : Keys \cup {""},
               status : FinalStatuses \cup {NotExist}]
Cleanings  == [at : {"idle", "next", "status", "id"}, keys : SUBSET Keys,
               key : Keys \cup {""}]
Results    == [key : Keys, status : LiveStatuses \cup FinalStatuses]

\* What a goroutine is busy with is a task and a status.
InHand ==
  /\ call.at # "idle" => call.key \in Keys /\ call.id # None /\ call.status # NotExist
  /\ \A c \in Conts :
       /\ mon[c].at # "none" => mon[c].key \in Keys
       /\ mon[c].at \in {"send", "gone"} => mon[c].status # NotExist
  /\ clean.at \in {"status", "id"} => clean.key \in Keys

DTypeOK ==
  /\ cont \in [Keys -> Containers]
  /\ made \in 0..MaxConts
  /\ taskStatus \in [Keys -> LiveStatuses \cup FinalStatuses \cup {NotExist}]
  /\ taskContainerID \in [Keys -> Conts \cup {None}]
  /\ resultChan \in Seq(Results)
  /\ call \in Calls
  /\ mon \in [Conts -> Monitors]
  /\ clean \in Cleanings
  /\ InHand

\* No container escapes: one that runs or is paused has a monitor that waits
\* for its end, whatever the worker was doing when it died; or Run is about to
\* start the monitor, or waiting failed and the task counts as failed.
Watched ==
  \A k \in Keys : Alive(k) =>
    \/ mon[cont[k].id].at = "wait"
    \/ mon[cont[k].id].status = Failed
    \/ call.at \in {"set", "watch"} /\ call.id = cont[k].id
=============================================================================
