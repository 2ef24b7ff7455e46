---------------------------- MODULE DockerProofs ----------------------------
(***************************************************************************)
(* What is proved about the docker executor and about the worker that      *)
(* drives it, for any keys, any number of containers, any exit codes, any  *)
(* capacities and any number of crashes.                                   *)
(***************************************************************************)
EXTENDS DockerWorker, TLAPS

\* A container has a number from the moment it is created, and numbers are
\* known only of containers that have been created.
Numbered ==
  \A k \in Keys :
    /\ cont[k].id = None => cont[k].state = "none"
    /\ cont[k].id <= made
    /\ taskContainerID[k] <= made

\* Two containers have two numbers.
OwnNumber ==
  \A j, k \in Keys : cont[j].id = cont[k].id /\ cont[k].id # None => j = k

\* The container that Run is bringing up is there, and nobody else knows its
\* number yet: cleanupResources cannot remove it.
CallerOwns ==
  call.at \in {"start", "set", "watch"} =>
    /\ cont[call.key].id = call.id
    /\ \A k \in Keys : taskContainerID[k] # call.id

DInv == DTypeOK /\ Numbered /\ OwnNumber /\ CallerOwns /\ Watched
-----------------------------------------------------------------------------
\* What the proofs need of the constants.
LEMMA Bounds == MaxConts \in Nat /\ Codes \subseteq Nat
BY DockerBounds

\* The statuses this executor deals in.
LEMMA DockerStatuses ==
  /\ Running \in LiveStatuses /\ Paused \in LiveStatuses
  /\ Success \in FinalStatuses /\ Failed \in FinalStatuses /\ Stop \in FinalStatuses
  /\ NotExist \notin LiveStatuses \cup FinalStatuses
  /\ ~IsFinalStatus(Running) /\ ~IsFinalStatus(Paused)
  /\ Running # NotExist /\ Paused # NotExist
BY DEF LiveStatuses, FinalStatuses, IsFinalStatus, NotExist, Running, Paused,
       Success, Failed, Stop

\* Whatever the exit code, the end of a container is reported as a final status.
LEMMA ExitCodeIsFinal ==
  ASSUME NEW code
  PROVE  ofExitCode(code) \in FinalStatuses
BY DockerStatuses DEF ofExitCode

\* A status that is sent is one the receiver knows.
LEMMA SendKeepsType ==
  ASSUME resultChan \in Seq(Results), NEW k \in Keys,
         NEW s \in LiveStatuses \cup FinalStatuses, Send(k, s)
  PROVE  resultChan' \in Seq(Results)
<1>1. [key |-> k, status |-> s] \in Results
  BY DEF Results
<1>2. QED
  BY <1>1 DEF Send

\* A container that has ended is a container.
LEMMA ExitedType ==
  ASSUME cont \in [Keys -> Containers], NEW k \in Keys, NEW code \in Nat
  PROVE  [cont EXCEPT ![k].state = "exited", ![k].code = code] \in [Keys -> Containers]
BY DEF Containers

\* Between two tasks cleanupResources has none in hand.
LEMMA CleaningType ==
  ASSUME NEW keys \in SUBSET Keys
  PROVE  Cleaning(keys) \in Cleanings /\ Cleaning(keys).at \in {"idle", "next"}
BY DEF Cleaning, Cleanings, IdleClean

\* Every step keeps the types.
LEMMA DockerTypeStep ==
  ASSUME DTypeOK, [DNext]_dvars
  PROVE  DTypeOK'
<1>1. ASSUME NEW k \in Keys, CreateContainer(k) PROVE DTypeOK'
  <2>1. made + 1 \in Conts /\ made' \in 0..MaxConts
    <3>1. made \in 0..MaxConts /\ made < MaxConts /\ made' = made + 1
      BY <1>1 DEF DTypeOK, CreateContainer
    <3>2. QED
      BY <3>1, Bounds DEF Conts
  <2>2. [state |-> "created", id |-> made + 1, code |-> 0] \in Containers
    BY <2>1 DEF Containers
  <2>3. call' \in Calls /\ call'.key \in Keys /\ call'.id # None /\ call'.status # NotExist
    <3>1. call' = [at |-> "start", key |-> k, id |-> made + 1, status |-> Running]
      BY <1>1 DEF CreateContainer
    <3>2. made + 1 # None
      BY <2>1, Bounds DEF Conts, None
    <3>3. QED
      BY <2>1, <3>1, <3>2, DockerStatuses DEF Calls
  <2>4. QED
    BY <1>1, <2>1, <2>2, <2>3 DEF DTypeOK, InHand, CreateContainer
<1>2. ASSUME NEW k \in Keys, stopContainer(k) PROVE DTypeOK'
  <2>1. cont' \in [Keys -> Containers]
    <3>1. ASSUME NEW code \in StopCodes,
                 cont' = [cont EXCEPT ![k].state = "exited", ![k].code = code]
          PROVE  cont' \in [Keys -> Containers]
      <4>1. k \in Keys /\ code \in Nat /\ cont \in [Keys -> Containers]
        BY <1>2, <3>1, Bounds DEF DTypeOK, StopCodes
      <4>2. QED
        BY <3>1, <4>1, ExitedType
    <3>2. QED
      BY <1>2, <3>1 DEF DTypeOK, stopContainer
  <2>2. QED
    BY <1>2, <2>1 DEF DTypeOK, InHand, stopContainer, memory
<1>3. ASSUME NEW k \in Keys, Pause(k) PROVE DTypeOK'
  <2>1. cont' \in [Keys -> Containers]
    <3>1. cont' = [cont EXCEPT ![k].state = "paused"]
      BY <1>3 DEF Pause
    <3>2. QED
      BY <3>1 DEF DTypeOK, Containers
  <2>2. cont[k].id \in Conts /\ cont[k].id # None
    BY <1>3 DEF DTypeOK, Pause, Known, InState, None
  <2>3. call' \in Calls /\ call'.key \in Keys /\ call'.id # None /\ call'.status # NotExist
    BY <1>3, <2>2, DockerStatuses DEF Pause, Calls
  <2>4. QED
    BY <1>3, <2>1, <2>3 DEF DTypeOK, InHand, Pause
<1>4. ASSUME NEW k \in Keys, Resume(k) PROVE DTypeOK'
  <2>1. cont' \in [Keys -> Containers]
    <3>1. cont' = [cont EXCEPT ![k].state = "running"]
      BY <1>4 DEF Resume
    <3>2. QED
      BY <3>1 DEF DTypeOK, Containers
  <2>2. cont[k].id \in Conts /\ cont[k].id # None
    BY <1>4 DEF DTypeOK, Resume, Known, InState, None
  <2>3. call' \in Calls /\ call'.key \in Keys /\ call'.id # None /\ call'.status # NotExist
    BY <1>4, <2>2, DockerStatuses DEF Resume, Calls
  <2>4. QED
    BY <1>4, <2>1, <2>3 DEF DTypeOK, InHand, Resume
<1>5. ASSUME NEW ok \in BOOLEAN, StartContainer(ok) PROVE DTypeOK'
  <2>1. call.key \in Keys /\ call.id # None /\ call.status # NotExist
    BY <1>5 DEF DTypeOK, InHand, StartContainer
  <2>2. cont' \in [Keys -> Containers]
    BY <1>5, <2>1 DEF DTypeOK, StartContainer, Containers
  <2>3. call' \in Calls /\ (call'.at # "idle" =>
          call'.key \in Keys /\ call'.id # None /\ call'.status # NotExist)
    BY <1>5, <2>1 DEF DTypeOK, StartContainer, Calls, IdleCall, None
  <2>4. QED
    BY <1>5, <2>2, <2>3 DEF DTypeOK, InHand, StartContainer
<1>6. ASSUME CallSets PROVE DTypeOK'
  <2>1. call.key \in Keys /\ call.id # None /\ call.status \in LiveStatuses
    BY <1>6 DEF DTypeOK, InHand, CallSets, Calls
  <2>2. call' \in Calls /\ call'.key \in Keys /\ call'.id # None /\ call'.status # NotExist
    BY <1>6, <2>1, DockerStatuses DEF DTypeOK, CallSets, Calls
  <2>3. QED
    BY <1>6, <2>1, <2>2 DEF DTypeOK, InHand, CallSets, setTaskStatus
<1>7. ASSUME RunWatches PROVE DTypeOK'
  <2>1. call.key \in Keys /\ call.id \in Conts /\ call.status # NotExist
    BY <1>7 DEF DTypeOK, InHand, RunWatches, Calls
  <2>2. call' \in Calls /\ call'.key \in Keys /\ call'.id # None /\ call'.status # NotExist
    BY <1>7, <2>1 DEF DTypeOK, InHand, RunWatches, Calls
  <2>3. Monitor(call.key) \in Monitors /\ Monitor(call.key).at = "wait"
        /\ Monitor(call.key).key \in Keys
    BY <2>1 DEF Monitor, Monitors
  <2>4. QED
    BY <1>7, <2>1, <2>2, <2>3 DEF DTypeOK, InHand, RunWatches
<1>8. ASSUME CallSends PROVE DTypeOK'
  <2>1. call.key \in Keys /\ call.status \in LiveStatuses
    BY <1>8 DEF DTypeOK, InHand, CallSends, Calls
  <2>2. resultChan' \in Seq(Results)
    BY <1>8, <2>1, SendKeepsType DEF DTypeOK, CallSends
  <2>3. call' \in Calls /\ call'.at = "idle"
    BY <1>8 DEF CallSends, IdleCall, Calls, None
  <2>4. QED
    BY <1>8, <2>2, <2>3 DEF DTypeOK, InHand, CallSends
<1>9. ASSUME NEW k \in Keys, NEW code \in Codes, ContainerExits(k, code) PROVE DTypeOK'
  <2>1. cont' \in [Keys -> Containers]
    BY <1>9, Bounds, ExitedType DEF DTypeOK, ContainerExits
  <2>2. QED
    BY <1>9, <2>1 DEF DTypeOK, InHand, ContainerExits, memory
<1>10. ASSUME NEW c \in Conts, NEW s \in FinalStatuses, MonitorSets(c, s) PROVE DTypeOK'
  <2>1. mon[c].key \in Keys
    BY <1>10 DEF DTypeOK, InHand, MonitorSets
  <2>2. mon' = [mon EXCEPT ![c].at = "send", ![c].status = s] /\ mon \in [Conts -> Monitors]
    BY <1>10 DEF DTypeOK, MonitorSets
  <2>3. mon' \in [Conts -> Monitors]
    BY <2>2 DEF Monitors
  <2>4. \A d \in Conts :
          /\ mon'[d].at # "none" => mon'[d].key \in Keys
          /\ mon'[d].at \in {"send", "gone"} => mon'[d].status # NotExist
    BY <2>1, <2>2, DockerStatuses DEF DTypeOK, InHand, Monitors
  <2>5. QED
    BY <1>10, <2>1, <2>3, <2>4 DEF DTypeOK, InHand, MonitorSets, setTaskStatus
<1>11. ASSUME NEW c \in Conts, MonitorWakes(c) PROVE DTypeOK'
  BY <1>10, <1>11, ExitCodeIsFinal DEF MonitorWakes
<1>12. ASSUME NEW c \in Conts, MonitorFails(c) PROVE DTypeOK'
  BY <1>10, <1>12, DockerStatuses DEF MonitorFails
<1>13. ASSUME NEW c \in Conts, MonitorSends(c) PROVE DTypeOK'
  <2>1. mon[c].key \in Keys /\ mon[c].status \in FinalStatuses
    BY <1>13 DEF DTypeOK, InHand, MonitorSends, Monitors
  <2>2. resultChan' \in Seq(Results)
    BY <1>13, <2>1, SendKeepsType DEF DTypeOK, MonitorSends
  <2>3. mon' = [mon EXCEPT ![c].at = "gone"] /\ mon \in [Conts -> Monitors]
    BY <1>13 DEF DTypeOK, MonitorSends
  <2>4. mon' \in [Conts -> Monitors]
    BY <2>3 DEF Monitors
  <2>5. \A d \in Conts :
          /\ mon'[d].at # "none" => mon'[d].key \in Keys
          /\ mon'[d].at \in {"send", "gone"} => mon'[d].status # NotExist
    BY <2>1, <2>3, DockerStatuses DEF DTypeOK, InHand, Monitors
  <2>6. QED
    BY <1>13, <2>2, <2>4, <2>5 DEF DTypeOK, InHand, MonitorSends
<1>14. ASSUME Recv PROVE DTypeOK'
  BY <1>14 DEF DTypeOK, InHand, Recv
<1>15. ASSUME CleanList PROVE DTypeOK'
  BY <1>15, CleaningType DEF DTypeOK, InHand, CleanList
<1>16. ASSUME CleanRemove PROVE DTypeOK'
  <2>1. PICK k \in clean.keys :
          \/ /\ cont' = [cont EXCEPT ![k] = NoCont]
             /\ clean' = [at |-> "status", keys |-> clean.keys \ {k}, key |-> k]
          \/ clean' = Cleaning(clean.keys \ {k}) /\ cont' = cont
    BY <1>16 DEF CleanRemove
  <2>2. clean.keys \in SUBSET Keys /\ k \in Keys
    BY <1>16, <2>1 DEF DTypeOK, CleanRemove, Cleanings
  <2>3. cont' \in [Keys -> Containers]
    <3>1. cont \in [Keys -> Containers] /\ NoCont \in Containers
      BY DEF DTypeOK, NoCont, Containers, None
    <3>2. QED
      BY <2>1, <2>2, <3>1
  <2>4. clean' \in Cleanings /\ (clean'.at \in {"status", "id"} => clean'.key \in Keys)
    <3>1. [at |-> "status", keys |-> clean.keys \ {k}, key |-> k] \in Cleanings
      BY <2>2 DEF Cleanings
    <3>2. QED
      BY <2>1, <2>2, <3>1, CleaningType
  <2>5. QED
    BY <1>16, <2>3, <2>4 DEF DTypeOK, InHand, CleanRemove
<1>17. ASSUME CleanStatus PROVE DTypeOK'
  <2>1. clean.key \in Keys /\ clean' \in Cleanings /\ clean'.key = clean.key
    BY <1>17 DEF DTypeOK, InHand, CleanStatus, Cleanings
  <2>2. QED
    BY <1>17, <2>1 DEF DTypeOK, InHand, CleanStatus, setTaskStatus
<1>18. ASSUME CleanID PROVE DTypeOK'
  <2>1. clean.keys \in SUBSET Keys
    BY DEF DTypeOK, Cleanings
  <2>2. QED
    BY <1>18, <2>1, CleaningType DEF DTypeOK, InHand, CleanID, None
<1>19. ASSUME NewExecutor PROVE DTypeOK'
  <2>1. \A k \in Keys : listByOrigin(k) \in LiveStatuses \cup FinalStatuses \cup {NotExist}
    BY DockerStatuses DEF listByOrigin
  <2>2. \A k \in Keys : cont[k].id \in Conts \cup {None}
    BY DEF DTypeOK, Containers
  <2>3. NoMonitor \in Monitors /\ NoMonitor.at = "none"
    BY DEF NoMonitor, Monitors
  <2>4. \A k \in Keys : Monitor(k) \in Monitors /\ Monitor(k).at = "wait" /\ Monitor(k).key = k
    BY DEF Monitor, Monitors
  <2>5. \A c \in Conts : mon'[c] = NoMonitor \/ \E k \in Keys : mon'[c] = Monitor(k)
    BY <1>19 DEF NewExecutor, Recovered
  <2>6. mon' \in [Conts -> Monitors]
    BY <1>19, <2>3, <2>4, <2>5 DEF NewExecutor
  <2>7. call' \in Calls /\ call'.at = "idle" /\ clean' \in Cleanings /\ clean'.at = "idle"
    BY <1>19 DEF NewExecutor, IdleCall, IdleClean, Calls, Cleanings, None
  <2>8. \A c \in Conts :
          /\ mon'[c].at # "none" => mon'[c].key \in Keys
          /\ mon'[c].at \notin {"send", "gone"}
    BY <2>3, <2>4, <2>5
  <2>9. QED
    BY <1>19, <2>1, <2>2, <2>6, <2>7, <2>8 DEF DTypeOK, InHand, NewExecutor
<1>20. ASSUME UNCHANGED dvars PROVE DTypeOK'
  BY <1>20 DEF DTypeOK, InHand, dvars, memory
<1>21. QED
  BY <1>1, <1>2, <1>3, <1>4, <1>5, <1>6, <1>7, <1>8, <1>9, <1>11, <1>12, <1>13,
     <1>14, <1>15, <1>16, <1>17, <1>18, <1>19, <1>20
     DEF DNext, CallGoesOn, Cleaner
-----------------------------------------------------------------------------
LEMMA DockerInit == DInit => DInv
<1>1. SUFFICES ASSUME DInit PROVE DInv
  OBVIOUS
<1>2. DTypeOK
  <2>1. NoCont \in Containers /\ IdleCall \in Calls /\ NoMonitor \in Monitors /\ IdleClean \in Cleanings
    BY DEF NoCont, IdleCall, NoMonitor, IdleClean, Containers, Calls, Monitors, Cleanings, None
  <2>2. NoMonitor.at = "none" /\ IdleCall.at = "idle" /\ IdleClean.at = "idle"
    BY DEF NoMonitor, IdleCall, IdleClean
  <2>3. QED
    BY <1>1, <2>1, <2>2, Bounds DEF DInit, DTypeOK, InHand, None
<1>3. Numbered /\ OwnNumber
  BY <1>1 DEF DInit, Numbered, OwnNumber, NoCont, None
<1>4. CallerOwns /\ Watched
  BY <1>1 DEF DInit, CallerOwns, Watched, Alive, NoCont, IdleCall
<1>5. QED
  BY <1>2, <1>3, <1>4 DEF DInv

-----------------------------------------------------------------------------
\* Numbers and what is compared with them.
LEMMA NumberTypes ==
  ASSUME DTypeOK
  PROVE  /\ made \in Nat /\ call.id \in Nat
         /\ \A k \in Keys : cont[k].id \in Nat /\ taskContainerID[k] \in Nat
         /\ \A k \in Keys : cont[k].id # None => cont[k].id \in Conts
         /\ DOMAIN cont = Keys
<1>1. Conts \cup {None} \subseteq Nat
  BY Bounds DEF Conts, None
<1>2. \A k \in Keys : cont[k].id \in Conts \cup {None} /\ taskContainerID[k] \in Conts \cup {None}
  BY DEF DTypeOK, Containers
<1>3. made \in 0..MaxConts /\ call \in Calls /\ DOMAIN cont = Keys
  BY DEF DTypeOK
<1>4. made \in Nat
  BY <1>3, Bounds
<1>5. call.id \in Conts \cup {None}
  BY <1>3 DEF Calls
<1>6. QED
  BY <1>1, <1>2, <1>3, <1>4, <1>5

\* A container that is set to another state keeps its number, and the others
\* keep theirs.
LEMMA StateSet ==
  ASSUME DTypeOK, NEW j \in Keys, NEW s, NEW code,
         \/ cont' = [cont EXCEPT ![j].state = s]
         \/ cont' = [cont EXCEPT ![j].state = s, ![j].code = code]
  PROVE  /\ \A k \in Keys : cont'[k].id = cont[k].id
         /\ \A k \in Keys \ {j} : cont'[k] = cont[k]
         /\ cont'[j].state = s
<1>1. cont \in [Keys -> Containers]
  BY DEF DTypeOK
<1>2. CASE cont' = [cont EXCEPT ![j].state = s]
  BY <1>1, <1>2 DEF Containers
<1>3. CASE cont' = [cont EXCEPT ![j].state = s, ![j].code = code]
  BY <1>1, <1>3 DEF Containers
<1>4. QED
  BY <1>2, <1>3

\* A container keeps its number until it is removed, and nobody learns of a
\* number but that of the container of its task.
KeepsNumbers ==
  /\ made' = made
  /\ \A k \in Keys :
       /\ taskContainerID'[k] \in {taskContainerID[k], cont[k].id, None}
       /\ \/ cont'[k].id = cont[k].id /\ (cont[k].id = None => cont'[k].state = "none")
          \/ cont'[k].id = None /\ cont'[k].state = "none"

LEMMA NumbersKept ==
  ASSUME DTypeOK, Numbered, OwnNumber, KeepsNumbers
  PROVE  Numbered' /\ OwnNumber'
BY NumberTypes DEF KeepsNumbers, Numbered, OwnNumber, None

\* Every step keeps the numbers in order.
LEMMA NumberStep ==
  ASSUME DTypeOK, Numbered, OwnNumber, CallerOwns, [DNext]_dvars
  PROVE  Numbered' /\ OwnNumber' /\ CallerOwns'
<1>1. ASSUME NEW k \in Keys, CreateContainer(k) PROVE Numbered' /\ OwnNumber' /\ CallerOwns'
  <2>1. /\ made' = made + 1 /\ taskContainerID' = taskContainerID
        /\ cont' = [cont EXCEPT ![k] = [state |-> "created", id |-> made + 1, code |-> 0]]
        /\ call'.key = k /\ call'.id = made + 1
    BY <1>1 DEF CreateContainer
  <2>2. Numbered' /\ OwnNumber'
    BY <1>1, <2>1, NumberTypes DEF Numbered, OwnNumber, None
  <2>3. CallerOwns'
    BY <1>1, <2>1, NumberTypes DEF CallerOwns, Numbered
  <2>4. QED
    BY <2>2, <2>3
<1>2. ASSUME NEW k \in Keys, stopContainer(k) PROVE Numbered' /\ OwnNumber' /\ CallerOwns'
  <2>1. \/ cont' = cont
        \/ Alive(k) /\ \E code \in StopCodes :
                          cont' = [cont EXCEPT ![k].state = "exited", ![k].code = code]
    BY <1>2 DEF stopContainer
  <2>2. UNCHANGED <<made, taskContainerID, call>> /\ call.at = "idle"
    BY <1>2 DEF stopContainer, Known, memory, IdleCall
  <2>3. \A j \in Keys : cont'[j].id = cont[j].id /\ (cont[j].id = None => cont'[j].state = "none")
    BY <1>2, <2>1, StateSet DEF Alive, Numbered
  <2>4. KeepsNumbers
    BY <2>2, <2>3 DEF KeepsNumbers
  <2>5. QED
    BY <2>2, <2>4, NumbersKept DEF CallerOwns
<1>3. ASSUME NEW k \in Keys, Pause(k) PROVE Numbered' /\ OwnNumber' /\ CallerOwns'
  <2>1. KeepsNumbers /\ call'.at = "setOnly"
    BY <1>3, NumberTypes DEF Pause, Known, InState, KeepsNumbers, Numbered
  <2>2. QED
    BY <2>1, NumbersKept DEF CallerOwns
<1>4. ASSUME NEW k \in Keys, Resume(k) PROVE Numbered' /\ OwnNumber' /\ CallerOwns'
  <2>1. KeepsNumbers /\ call'.at = "setOnly"
    BY <1>4, NumberTypes DEF Resume, Known, InState, KeepsNumbers, Numbered
  <2>2. QED
    BY <2>1, NumbersKept DEF CallerOwns
<1>5. ASSUME NEW k \in Keys, NEW code \in Codes, ContainerExits(k, code)
      PROVE  Numbered' /\ OwnNumber' /\ CallerOwns'
  <2>1. KeepsNumbers
    BY <1>5, NumberTypes DEF ContainerExits, KeepsNumbers, memory, Numbered
  <2>2. call' = call /\ taskContainerID' = taskContainerID /\ (\A j \in Keys : cont'[j].id = cont[j].id)
    BY <1>5, NumberTypes DEF ContainerExits, memory
  <2>3. call.at # "idle" => call.key \in Keys
    BY DEF DTypeOK, InHand
  <2>4. QED
    BY <2>1, <2>2, <2>3, NumbersKept DEF CallerOwns
<1>6. ASSUME NEW ok \in BOOLEAN, StartContainer(ok) PROVE Numbered' /\ OwnNumber' /\ CallerOwns'
  <2>1. call.key \in Keys /\ call.id # None /\ call.at = "start"
    BY <1>6 DEF StartContainer, DTypeOK, InHand
  <2>2. cont[call.key].id = call.id /\ \A j \in Keys : taskContainerID[j] # call.id
    BY <2>1 DEF CallerOwns
  <2>3. KeepsNumbers /\ taskContainerID' = taskContainerID /\ (\A j \in Keys : cont'[j].id = cont[j].id)
    <3>1. taskContainerID' = taskContainerID /\ made' = made
          /\ cont' \in {cont, [cont EXCEPT ![call.key].state = "running"]}
      BY <1>6 DEF StartContainer
    <3>2. \A j \in Keys : cont'[j].id = cont[j].id /\ (cont[j].id = None => cont'[j].state = "none")
      <4>1. CASE cont' = cont
        BY <4>1 DEF Numbered
      <4>2. CASE cont' = [cont EXCEPT ![call.key].state = "running"]
        <5>1. \A j \in Keys : cont'[j].id = cont[j].id /\ (j # call.key => cont'[j] = cont[j])
          BY <2>1, <4>2, StateSet
        <5>2. QED
          BY <2>1, <2>2, <5>1 DEF Numbered
      <4>3. QED
        BY <3>1, <4>1, <4>2
    <3>3. QED
      BY <3>1, <3>2 DEF KeepsNumbers
  <2>4. call'.at = "idle" \/ (call'.key = call.key /\ call'.id = call.id)
    BY <1>6 DEF StartContainer, IdleCall, DTypeOK, Calls
  <2>5. Numbered' /\ OwnNumber'
    BY <2>3, NumbersKept
  <2>6. CallerOwns'
    BY <2>1, <2>2, <2>3, <2>4 DEF CallerOwns
  <2>7. QED
    BY <2>5, <2>6
<1>7. ASSUME CallSets PROVE Numbered' /\ OwnNumber' /\ CallerOwns'
  <2>1. KeepsNumbers /\ taskContainerID' = taskContainerID /\ cont' = cont
    BY <1>7 DEF CallSets, KeepsNumbers, Numbered
  <2>2. call'.key = call.key /\ call'.id = call.id /\ (call'.at = "send" \/ call.at = "set")
    BY <1>7 DEF CallSets, DTypeOK, Calls
  <2>3. CallerOwns'
    BY <2>1, <2>2 DEF CallerOwns
  <2>4. QED
    BY <2>1, <2>3, NumbersKept
<1>8. ASSUME RunWatches PROVE Numbered' /\ OwnNumber' /\ CallerOwns'
  <2>1. call.key \in Keys /\ cont[call.key].id = call.id
    BY <1>8 DEF RunWatches, DTypeOK, InHand, CallerOwns
  <2>2. KeepsNumbers
    BY <1>8, <2>1 DEF RunWatches, KeepsNumbers, Numbered, DTypeOK
  <2>3. call'.at = "send"
    BY <1>8 DEF RunWatches, DTypeOK, Calls
  <2>4. QED
    BY <2>2, <2>3, NumbersKept DEF CallerOwns
<1>9. ASSUME CallSends PROVE Numbered' /\ OwnNumber' /\ CallerOwns'
  <2>1. KeepsNumbers /\ call'.at = "idle"
    BY <1>9 DEF CallSends, KeepsNumbers, Numbered, IdleCall
  <2>2. QED
    BY <2>1, NumbersKept DEF CallerOwns
<1>10. ASSUME \/ UNCHANGED dvars
              \/ \E c \in Conts : MonitorWakes(c) \/ MonitorFails(c) \/ MonitorSends(c)
              \/ Recv \/ CleanList \/ CleanStatus
       PROVE  Numbered' /\ OwnNumber' /\ CallerOwns'
  <2>1. UNCHANGED <<cont, made, taskContainerID, call>>
    BY <1>10 DEF dvars, memory, MonitorWakes, MonitorFails, MonitorSets, MonitorSends, Recv,
                 CleanList, CleanStatus
  <2>2. QED
    BY <2>1 DEF Numbered, OwnNumber, CallerOwns
<1>11. ASSUME CleanRemove PROVE Numbered' /\ OwnNumber' /\ CallerOwns'
  <2>1. PICK k \in Keys : \/ cont' = cont
                          \/ /\ cont' = [cont EXCEPT ![k] = NoCont]
                             /\ taskContainerID[k] # None /\ cont[k].id = taskContainerID[k]
    BY <1>11 DEF CleanRemove, DTypeOK, Cleanings
  <2>2. UNCHANGED <<made, taskContainerID, call>>
    BY <1>11 DEF CleanRemove
  <2>3. KeepsNumbers
    BY <2>1, <2>2, NumberTypes DEF KeepsNumbers, Numbered, NoCont
  <2>4. call.at # "idle" => call.key \in Keys
    BY DEF DTypeOK, InHand
  <2>5. CallerOwns'
    BY <2>1, <2>2, <2>4, NumberTypes DEF CallerOwns
  <2>6. QED
    BY <2>3, <2>5, NumbersKept
<1>12. ASSUME CleanID PROVE Numbered' /\ OwnNumber' /\ CallerOwns'
  <2>1. KeepsNumbers /\ call' = call /\ cont' = cont
    BY <1>12 DEF CleanID, KeepsNumbers, Numbered, DTypeOK
  <2>2. \A k \in Keys : taskContainerID'[k] \in {taskContainerID[k], None}
    BY <1>12 DEF CleanID, DTypeOK
  <2>3. call.at # "idle" => call.id # None
    BY DEF DTypeOK, InHand
  <2>4. CallerOwns'
    BY <2>1, <2>2, <2>3 DEF CallerOwns
  <2>5. QED
    BY <2>1, <2>4, NumbersKept
<1>13. ASSUME NewExecutor PROVE Numbered' /\ OwnNumber' /\ CallerOwns'
  <2>1. KeepsNumbers /\ call'.at = "idle"
    BY <1>13 DEF NewExecutor, KeepsNumbers, Numbered, IdleCall
  <2>2. QED
    BY <2>1, NumbersKept DEF CallerOwns
<1>14. QED
  BY <1>1, <1>2, <1>3, <1>4, <1>5, <1>6, <1>7, <1>8, <1>9, <1>10, <1>11, <1>12, <1>13
     DEF DNext, CallGoesOn, Cleaner
-----------------------------------------------------------------------------
\* What keeps watch over the container of k.
WatchedBy(k) ==
  \/ mon[cont[k].id].at = "wait"
  \/ mon[cont[k].id].status = Failed
  \/ call.at \in {"set", "watch"} /\ call.id = cont[k].id

\* No step leaves a container that is alive without its monitor.
LEMMA WatchStep ==
  ASSUME DInv, [DNext]_dvars
  PROVE  Watched'
<1>1. SUFFICES ASSUME NEW k \in Keys, Alive(k)' PROVE WatchedBy(k)'
  BY DEF Watched, WatchedBy
<1>2. DTypeOK /\ Numbered /\ OwnNumber /\ CallerOwns
  BY DEF DInv
<1>3. Alive(k) => WatchedBy(k) /\ cont[k].id \in Conts /\ cont[k].id # None
  BY <1>2, NumberTypes DEF DInv, Watched, WatchedBy, Alive, Numbered
<1>4. CASE /\ Alive(k) /\ cont'[k].id = cont[k].id
           /\ mon' = mon
           /\ call' = call \/ call.at \notin {"set", "watch"}
  BY <1>3, <1>4 DEF WatchedBy
<1>5. ASSUME NEW j \in Keys, CreateContainer(j) PROVE WatchedBy(k)'
  <2>1. mon' = mon /\ call.at \notin {"set", "watch"}
        /\ cont' = [cont EXCEPT ![j] = [state |-> "created", id |-> made + 1, code |-> 0]]
    BY <1>5 DEF CreateContainer, IdleCall
  <2>2. Alive(k) /\ cont'[k].id = cont[k].id
    BY <1>1, <2>1, NumberTypes, <1>2 DEF Alive
  <2>3. QED
    BY <1>4, <2>1, <2>2
<1>17. ASSUME NEW j \in Keys, stopContainer(j) \/ \E code \in Codes : ContainerExits(j, code)
       PROVE  WatchedBy(k)'
  <2>1. mon' = mon /\ call' = call
    BY <1>17 DEF stopContainer, ContainerExits, memory
  <2>2. cont' = cont \/ \E code : cont' = [cont EXCEPT ![j].state = "exited", ![j].code = code]
    BY <1>17 DEF stopContainer, ContainerExits
  <2>3. Alive(k) /\ cont'[k].id = cont[k].id
    <3>1. CASE cont' = cont
      BY <1>1, <3>1 DEF Alive
    <3>2. ASSUME NEW code, cont' = [cont EXCEPT ![j].state = "exited", ![j].code = code]
          PROVE  Alive(k) /\ cont'[k].id = cont[k].id
      <4>1. cont'[k].id = cont[k].id /\ (k # j => cont'[k] = cont[k]) /\ cont'[j].state = "exited"
        BY <1>2, <1>17, <3>2, StateSet
      <4>2. QED
        BY <1>1, <4>1 DEF Alive
    <3>3. QED
      BY <2>2, <3>1, <3>2
  <2>4. QED
    BY <1>4, <2>1, <2>3
<1>18. ASSUME NEW j \in Keys, Pause(j) \/ Resume(j) PROVE WatchedBy(k)'
  <2>1. mon' = mon /\ call.at \notin {"set", "watch"}
    <3>1. mon' = mon /\ call = IdleCall
      BY <1>18 DEF Pause, Resume, Known
    <3>2. QED
      BY <3>1 DEF IdleCall
  <2>2. Alive(j) /\ \E s : cont' = [cont EXCEPT ![j].state = s]
    BY <1>18 DEF Pause, Resume, InState, Alive
  <2>3. Alive(k) /\ cont'[k].id = cont[k].id
    BY <1>1, <1>2, <2>2, StateSet DEF Alive
  <2>4. QED
    BY <1>4, <2>1, <2>3
<1>6. ASSUME NEW ok \in BOOLEAN, StartContainer(ok) PROVE WatchedBy(k)'
  <2>1. call.key \in Keys /\ call.at = "start" /\ cont[call.key].id = call.id /\ mon' = mon
    BY <1>2, <1>6 DEF StartContainer, DTypeOK, InHand, CallerOwns
  <2>2. CASE k = call.key /\ ok
    BY <1>6, <2>1, <2>2, NumberTypes, <1>2 DEF StartContainer, WatchedBy, DTypeOK, Calls, Containers
  <2>3. CASE k # call.key \/ ~ok
    <3>1. cont' = cont \/ (cont' = [cont EXCEPT ![call.key].state = "running"] /\ k # call.key)
      BY <1>6, <2>3 DEF StartContainer
    <3>2. cont'[k] = cont[k]
      BY <1>2, <2>1, <3>1, NumberTypes
    <3>3. Alive(k)
      BY <1>1, <3>2 DEF Alive
    <3>4. QED
      BY <1>4, <2>1, <3>2, <3>3
  <2>4. QED
    BY <2>2, <2>3
<1>7. ASSUME CallSets PROVE WatchedBy(k)'
  <2>1. mon' = mon /\ cont' = cont /\ call'.id = call.id
        /\ (call.at = "set" => call'.at = "watch") /\ call.at \in {"set", "setOnly"}
    BY <1>2, <1>7 DEF CallSets, DTypeOK, Calls
  <2>2. Alive(k)
    BY <1>1, <2>1 DEF Alive
  <2>3. QED
    BY <1>3, <2>1, <2>2 DEF WatchedBy
<1>8. ASSUME RunWatches PROVE WatchedBy(k)'
  <2>1. cont' = cont /\ mon' = [mon EXCEPT ![call.id] = Monitor(call.key)] /\ mon \in [Conts -> Monitors]
    BY <1>2, <1>8 DEF RunWatches, DTypeOK
  <2>2. Alive(k)
    BY <1>1, <2>1 DEF Alive
  <2>3. CASE call.id = cont[k].id
    BY <1>3, <2>1, <2>2, <2>3 DEF WatchedBy, Monitor
  <2>4. CASE call.id # cont[k].id
    BY <1>3, <2>1, <2>2, <2>4 DEF WatchedBy
  <2>5. QED
    BY <2>3, <2>4
<1>9. ASSUME CallSends PROVE WatchedBy(k)'
  <2>1. mon' = mon /\ cont' = cont /\ call.at = "send"
    BY <1>9 DEF CallSends
  <2>2. QED
    BY <1>1, <1>4, <2>1 DEF Alive
<1>10. ASSUME NEW c \in Conts, MonitorWakes(c) PROVE WatchedBy(k)'
  <2>1. PICK j \in Keys : cont[j].id = c /\ ~Alive(j) /\ MonitorSets(c, ofExitCode(cont[j].code))
    BY <1>10 DEF MonitorWakes
  <2>2. cont' = cont /\ call' = call /\ \A d \in Conts : d # c => mon'[d] = mon[d]
    BY <1>2, <2>1 DEF MonitorSets, DTypeOK
  <2>3. Alive(k)
    BY <1>1, <2>2 DEF Alive
  <2>4. cont[k].id # c
    BY <1>2, <1>3, <2>1, <2>3 DEF OwnNumber
  <2>5. QED
    BY <1>3, <2>2, <2>3, <2>4 DEF WatchedBy
<1>11. ASSUME NEW c \in Conts, MonitorFails(c) PROVE WatchedBy(k)'
  <2>1. cont' = cont /\ call' = call /\ mon'[c].status = Failed
        /\ \A d \in Conts : d # c => mon'[d] = mon[d]
    BY <1>2, <1>11 DEF MonitorFails, MonitorSets, DTypeOK, Monitors
  <2>2. Alive(k)
    BY <1>1, <2>1 DEF Alive
  <2>3. QED
    BY <1>3, <2>1, <2>2 DEF WatchedBy
<1>12. ASSUME NEW c \in Conts, MonitorSends(c) PROVE WatchedBy(k)'
  <2>1. cont' = cont /\ call' = call /\ mon[c].at = "send" /\ mon'[c].status = mon[c].status
        /\ \A d \in Conts : d # c => mon'[d] = mon[d]
    BY <1>2, <1>12 DEF MonitorSends, DTypeOK, Monitors
  <2>2. Alive(k)
    BY <1>1, <2>1 DEF Alive
  <2>3. QED
    BY <1>3, <2>1, <2>2 DEF WatchedBy
<1>13. ASSUME UNCHANGED dvars \/ Recv \/ CleanList \/ CleanStatus \/ CleanID PROVE WatchedBy(k)'
  <2>1. UNCHANGED <<cont, mon, call>>
    BY <1>13 DEF dvars, memory, Recv, CleanList, CleanStatus, CleanID
  <2>2. QED
    BY <1>1, <1>4, <2>1 DEF Alive
<1>14. ASSUME CleanRemove PROVE WatchedBy(k)'
  <2>1. mon' = mon /\ call' = call
    BY <1>14 DEF CleanRemove
  <2>0. cont' = cont \/ \E j \in clean.keys : cont' = [cont EXCEPT ![j] = NoCont]
    BY <1>14 DEF CleanRemove
  <2>2. Alive(k) /\ cont'[k] = cont[k]
    BY <1>1, <1>2, <2>0, NumberTypes DEF Alive, NoCont
  <2>3. QED
    BY <1>4, <2>1, <2>2
<1>15. ASSUME NewExecutor PROVE WatchedBy(k)'
  <2>1. cont' = cont /\ Alive(k)
    BY <1>1, <1>15 DEF NewExecutor, Alive
  <2>2. k \in Recovered
    BY <2>1, DockerStatuses DEF Recovered, listByOrigin, Alive
  <2>3. mon'[cont[k].id] = Monitor(CHOOSE j \in Recovered : cont[j].id = cont[k].id)
    BY <1>3, <1>15, <2>1, <2>2 DEF NewExecutor
  <2>4. QED
    BY <2>1, <2>3 DEF WatchedBy, Monitor
<1>16. QED
  BY <1>5, <1>17, <1>18, <1>6, <1>7, <1>8, <1>9, <1>10, <1>11, <1>12, <1>13, <1>14, <1>15
     DEF DNext, CallGoesOn, Cleaner
-----------------------------------------------------------------------------
(* Theorems.                                                               *)

LEMMA DockerInvariant == DSpec => []DInv
<1>1. DInv /\ [DNext]_dvars => DInv'
  BY DockerTypeStep, NumberStep, WatchStep DEF DInv
<1>2. QED
  BY DockerInit, <1>1, PTL DEF DSpec

\* The docker executor keeps its types.
THEOREM DockerTypeCorrect == DSpec => []DTypeOK
<1>1. DInv => DTypeOK
  BY DEF DInv
<1>2. QED
  BY DockerInvariant, <1>1, PTL

\* No container that is alive escapes its executor.
THEOREM DockerWatched == DSpec => []Watched
<1>1. DInv => Watched
  BY DEF DInv
<1>2. QED
  BY DockerInvariant, <1>1, PTL

\* Every step of the worker is one of its executor, or none.
LEMMA WorkerStepsExecutor == [Next]_vars => [DNext]_dvars
<1>1. ASSUME NEW k \in Keys, ChangeHandle(k) PROVE DNext
  BY <1>1 DEF ChangeHandle, DNext
<1>2. ASSUME JumpChange PROVE DNext
  BY <1>2 DEF JumpChange, DNext
<1>3. ASSUME Executor PROVE DNext
  BY <1>3 DEF Executor, DNext, CleanUp, Cleaner
<1>4. ASSUME Restart PROVE DNext
  BY <1>4 DEF Restart, DNext
<1>5. ASSUME Forward PROVE DNext
  BY <1>5 DEF Forward, DNext
<1>6. ASSUME \/ processTask \/ UpdateTask \/ UpdateFails \/ refreshList \/ refreshCache
               \/ listWithSetDurition \/ Delete \/ UNCHANGED vars
        PROVE  UNCHANGED dvars
  BY <1>6 DEF processTask, UpdateTask, UpdateFails, refreshList, refreshCache,
                listWithSetDurition, Delete, vars
<1>7. QED
  BY <1>1, <1>2, <1>3, <1>4, <1>5, <1>6 DEF Next, Indexer

\* What the worker does is what the executor allows.
THEOREM WorkerImplementsExecutor == Spec => DSpec
<1>1. Init => DInit
  BY DEF Init
<1>2. QED
  BY <1>1, WorkerStepsExecutor, PTL DEF Spec, DSpec

\* No container escapes the worker, however often the worker dies.
THEOREM WorkerWatched == Spec => []Watched
BY WorkerImplementsExecutor, DockerWatched, PTL
-----------------------------------------------------------------------------
(* The indexer on top of the executor.                                     *)

\* TypeOK without the executor, with what an event and an attempt to record
\* it consist of.
WTypes ==
  /\ rec \in [Keys -> {WaitRunning} \cup LiveStatuses \cup FinalStatuses]
  /\ cache \in [Keys -> LiveStatuses \cup FinalStatuses \cup {NotExist}]
  /\ ch \in Seq(Results)
  /\ idx \in {IdleIdx} \cup [left : 1..Steps, key : Keys,
                             status : LiveStatuses \cup FinalStatuses]
  /\ refresher \subseteq Results
  /\ recycler \subseteq Keys /\ busy \subseteq Keys /\ boot \subseteq Keys

WInv == DInv /\ WTypes

LEMMA IndexerInit ==
  ASSUME Init
  PROVE  WInv
BY DockerInit DEF Init, WInv, WTypes

\* Monitor of the indexer: an event is forwarded, cached and recorded.
LEMMA EventTypes ==
  ASSUME WInv, Forward \/ processTask \/ UpdateTask \/ UpdateFails
  PROVE  WTypes'
<1> USE DEF WInv, WTypes
<1>1. CASE Forward
  <2>1. resultChan \in Seq(Results) /\ resultChan # <<>>
    BY <1>1 DEF DInv, DTypeOK, Forward, Recv
  <2>2. Head(resultChan) \in Results
    BY <2>1
  <2> QED
    BY <1>1, <2>2 DEF Forward
<1>2. CASE processTask
  <2>1. Head(ch) \in Results /\ Tail(ch) \in Seq(Results)
    BY <1>2 DEF processTask
  <2>2. Steps \in 1..Steps
    BY DockerWorkerBounds
  <2> QED
    BY <1>2, <2>1, <2>2 DEF processTask, Results
<1>3. idx.left > 0 => idx \in [left : 1..Steps, key : Keys,
                              status : LiveStatuses \cup FinalStatuses]
  <2>1. IdleIdx.left = 0
    BY DEF IdleIdx
  <2>2. idx = IdleIdx \/ idx \in [left : 1..Steps, key : Keys,
                                 status : LiveStatuses \cup FinalStatuses]
    OBVIOUS
  <2> QED
    BY <2>1, <2>2
<1>5. CASE UpdateTask
  <2>1. idx.key \in Keys /\ idx.status \in LiveStatuses \cup FinalStatuses
    BY <1>5, <1>3 DEF UpdateTask
  <2>2. rec' \in [Keys -> {WaitRunning} \cup LiveStatuses \cup FinalStatuses]
    BY <1>5, <2>1 DEF UpdateTask
  <2> QED
    BY <1>5, <2>2 DEF UpdateTask
<1>4. CASE UpdateFails
  <2>0. idx.left \in 1..Steps /\ idx.left - 1 \in Nat /\ Steps \in Nat
    BY <1>4, <1>3, DockerWorkerBounds DEF UpdateFails
  <2>1. idx' \in {IdleIdx} \cup [left : 1..Steps, key : Keys,
                                 status : LiveStatuses \cup FinalStatuses]
    <3>1. CASE idx.left = 1
      BY <1>4, <3>1 DEF UpdateFails, Backoff
    <3>2. CASE idx.left # 1
      <4>1. idx.left - 1 \in 1..Steps
        BY <2>0, <3>2
      <4> QED
        BY <1>4, <1>3, <2>0, <3>2, <4>1 DEF UpdateFails, Backoff
    <3> QED
      BY <3>1, <3>2
  <2> QED
    BY <1>4, <2>1 DEF UpdateFails
<1> QED
  BY <1>1, <1>2, <1>4, <1>5

\* refreshCache and the recycler.
LEMMA TickTypes ==
  ASSUME WInv, refreshList \/ refreshCache \/ listWithSetDurition \/ Delete
  PROVE  WTypes'
<1> USE DEF WInv, WTypes
<1>1. CASE refreshList
  <2>1. \A k \in Keys : taskStatus[k] # NotExist => Event(k, taskStatus[k]) \in Results
    BY DEF DInv, DTypeOK, Event, Results
  <2> QED
    BY <1>1, <2>1 DEF refreshList
<1>2. CASE refreshCache
  BY <1>2 DEF refreshCache
<1>3. CASE listWithSetDurition
  BY <1>3 DEF listWithSetDurition
<1>4. CASE Delete
  BY <1>4 DEF Delete
<1> QED
  BY <1>1, <1>2, <1>3, <1>4

\* A worker that starts caches what its executor lists.
LEMMA RestartTypes ==
  ASSUME WInv, DTypeOK', Restart
  PROVE  WTypes'
BY DEF WInv, WTypes, Restart, DTypeOK

LEMMA WorkerStep ==
  ASSUME WInv, [Next]_vars, DInv'
  PROVE  WInv'
<1>1. ASSUME NEW k \in Keys, ChangeHandle(k) PROVE WTypes'
  BY <1>1 DEF ChangeHandle, WInv, WTypes
<1>2. ASSUME JumpChange PROVE WTypes'
  BY <1>2 DEF JumpChange, WInv, WTypes
<1>3. ASSUME UNCHANGED wvars PROVE WTypes'
  BY <1>3 DEF wvars, WInv, WTypes
<1>4. DTypeOK'
  BY DEF DInv
<1> QED
  BY <1>1, <1>2, <1>3, <1>4, EventTypes, TickTypes, RestartTypes
     DEF Next, Executor, Indexer, vars, WInv

\* Executor, indexer and records keep their types over every crash: only
\* events of tasks travel, every one with a status that an executor reports,
\* and an attempt to record one is among the Steps that retry.Do makes.
THEOREM WorkerTypeCorrect == Spec => []TypeOK
<1>1. DInv /\ [DNext]_dvars => DInv'
  BY DockerTypeStep, NumberStep, WatchStep DEF DInv
<1>2. [Next]_vars => [DNext]_dvars
  BY WorkerStepsExecutor
<1>3. WInv /\ [Next]_vars => WInv'
  BY <1>1, <1>2, WorkerStep DEF WInv
<1>4. WInv => TypeOK
  <2>1. ASSUME WInv PROVE TypeOK
    <3>1. \A i \in DOMAIN ch : ch[i] \in Results
      BY <2>1 DEF WInv, WTypes
    <3>2. \A i \in DOMAIN ch : ch[i].key \in Keys /\ ch[i].status # NotExist
      BY <3>1, DockerStatuses DEF Results
    <3>3. idx = IdleIdx \/ (idx.left \in 1..Steps /\ idx.key \in Keys)
      BY <2>1 DEF WInv, WTypes
    <3>4. {e.key : e \in refresher} \subseteq Keys
      BY <2>1 DEF WInv, WTypes, Results
    <3> QED
      BY <2>1, <3>2, <3>3, <3>4 DEF WInv, WTypes, TypeOK, DInv
  <2> QED
    BY <2>1
<1>5. QED
  BY IndexerInit, <1>3, <1>4, PTL DEF Spec
=============================================================================
