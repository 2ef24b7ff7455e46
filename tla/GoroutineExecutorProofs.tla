------------------------ MODULE GoroutineExecutorProofs ------------------------
(***************************************************************************)
(* What is proved about the goroutine executor, for any keys, any number   *)
(* of runs, any capacity of the result channel and any outcomes of the     *)
(* business logic.                                                         *)
(***************************************************************************)
EXTENDS GoroutineExecutor, TLAPS

Reported == LiveStatuses \cup FinalStatuses

\* What the goroutines of a run do begins with Run.
NoneBeforeRun ==
  \A i \in Instances : i > runs => inner[i] = "none" /\ outer[i] = "none"

\* The second half of Run speaks of a run that has been made.
CallerRuns ==
  caller.at \in {"runSync", "runSend"} => caller.inst \in 1..runs

\* A loop that sends has something to send.
SendsStatus == \A i \in Instances : inner[i] = "send" => report[i] \in Reported

\* The map leads from a key to a run of that key.
MapsToOwnKey ==
  \A k \in Keys : ctrls[k] # None =>
    ctrls[k] \in 1..runs /\ keyOf[ctrls[k]] = k

TInv == ETypeOK /\ NoneBeforeRun /\ CallerRuns /\ SendsStatus

CInv == OwnCtrl /\ MapsToOwnKey
-----------------------------------------------------------------------------
\* Every status is one of the listed ones, and a status that is reported is
\* live or final, never both.
LEMMA StatusFacts ==
  /\ Reported \subseteq Statuses
  /\ {Running, Paused} = LiveStatuses
  /\ {Success, Failed, Stop} = FinalStatuses
  /\ NotExist \in Statuses
  /\ NotExist \notin Reported
BY DEF Reported, Statuses, LiveStatuses, FinalStatuses, WaitStatuses,
       NotExist, Running, Paused, Success, Failed, Stop, WaitScheduling,
       WaitRunning, WaitPaused, WaitStop

\* setTaskStatus keeps the type of the map, whatever status is reported.
LEMMA SetStatusType ==
  ASSUME ETypeOK, NEW k \in Keys, NEW s \in Reported, setTaskStatus(k, s)
  PROVE  taskStatus' \in [Keys -> LiveStatuses \cup {NotExist}]
BY DEF ETypeOK, setTaskStatus, WithStatus, IsFinalStatus, Reported

\* A send keeps the type and the capacity of the result channel.
LEMMA SendType ==
  ASSUME ETypeOK, NEW k \in Keys, NEW s \in Reported, Send(k, s)
  PROVE  /\ resultChan' \in Seq([key : Keys, status : LiveStatuses \cup FinalStatuses])
         /\ Len(resultChan') <= ResultCap
BY BoundsAssumption DEF ETypeOK, Send, Reported

\* The key of a run that has been made.
LEMMA KeyOfRun ==
  ASSUME ETypeOK, NEW i \in 1..runs
  PROVE  keyOf[i] \in Keys /\ i \in Instances
BY BoundsAssumption DEF ETypeOK, runs, Instances

\* Only runs that have been made do anything.
LEMMA ActiveIsMade ==
  ASSUME TInv, NEW i \in Instances, inner[i] # "none" \/ outer[i] # "none"
  PROVE  i \in 1..runs /\ keyOf[i] \in Keys
<1>1. i \in Nat /\ runs \in Nat /\ i >= 1
  BY BoundsAssumption DEF TInv, ETypeOK, runs, Instances
<1>2. i \in 1..runs
  BY <1>1 DEF TInv, NoneBeforeRun
<1> QED
  BY <1>2, KeyOfRun DEF TInv
-----------------------------------------------------------------------------
(* Types.                                                                  *)

\* Run makes the next run; the others keep what they are.
LEMMA RunType ==
  ASSUME TInv, NEW k \in Keys, Run(k)
  PROVE  TInv'
<1> DEFINE i == runs + 1
<1>1. runs \in Nat /\ i \in Instances /\ runs' = i
  BY BoundsAssumption DEF TInv, ETypeOK, Run, runs, Instances
<1>2. taskStatus' \in [Keys -> LiveStatuses \cup {NotExist}]
  BY SetStatusType, StatusFacts DEF TInv, Run, Reported
<1>3. /\ ctrls' \in [Keys -> Instances \cup {None}]
      /\ keyOf' \in Seq(Keys)
      /\ runs' <= MaxRuns
  BY <1>1, BoundsAssumption DEF TInv, ETypeOK, Run
<1>4. /\ outer' \in [Instances -> OuterPcs]
      /\ caller' \in [at : {"idle", "runSync", "runSend", "send"},
                      inst : Instances \cup {None}, ch : Chans]
  BY <1>1 DEF TInv, ETypeOK, Run, OuterPcs, Chans
<1>5. ETypeOK'
  BY <1>2, <1>3, <1>4 DEF TInv, ETypeOK, Run
<1>6. NoneBeforeRun'
  BY <1>1 DEF TInv, NoneBeforeRun, ETypeOK, Run, Instances
<1>7. CallerRuns'
  BY <1>1 DEF Run, CallerRuns
<1>8. SendsStatus'
  BY DEF TInv, SendsStatus, Run
<1> QED
  BY <1>5, <1>6, <1>7, <1>8 DEF TInv

\* The rest of Run.
LEMMA RunSyncType ==
  ASSUME TInv, RunSync \/ RunSend
  PROVE  TInv'
<1>1. caller.inst \in 1..runs /\ keyOf[caller.inst] \in Keys
  BY KeyOfRun DEF TInv, CallerRuns, RunSync, RunSend
<1>2. Running \in Reported
  BY StatusFacts DEF Reported
<1>3. CASE RunSync
  <2>1. taskStatus' \in [Keys -> LiveStatuses \cup {NotExist}]
    BY <1>1, <1>2, <1>3, SetStatusType DEF TInv, RunSync
  <2>2. ETypeOK'
    BY <1>3, <2>1 DEF TInv, ETypeOK, RunSync, runs
  <2> QED
    BY <1>1, <1>3, <2>2
    DEF TInv, ETypeOK, RunSync, NoneBeforeRun, CallerRuns, SendsStatus, runs
<1>4. CASE RunSend
  <2>1. /\ resultChan' \in Seq([key : Keys, status : LiveStatuses \cup FinalStatuses])
        /\ Len(resultChan') <= ResultCap
    BY <1>1, <1>2, <1>4, SendType DEF TInv, RunSend
  <2>2. ETypeOK'
    BY <1>4, <2>1 DEF TInv, ETypeOK, RunSend, runs, Idle, None, Chans
  <2> QED
    BY <1>4, <2>2
    DEF TInv, RunSend, NoneBeforeRun, CallerRuns, SendsStatus, runs, Idle
<1> QED
  BY <1>3, <1>4

\* Control calls move tokens only.
LEMMA PutType ==
  ASSUME TInv, NEW c \in Instances, NEW ch \in Chans, Put(c, ch)
  PROVE  TInv'
<1>1. ETypeOK'
  BY DEF TInv, ETypeOK, Put, runs, Idle, None, Chans
<1> QED
  BY <1>1 DEF TInv, Put, NoneBeforeRun, CallerRuns, SendsStatus, runs, Idle

LEMMA ControlType ==
  ASSUME TInv, NEW k \in Keys, NEW guard, NEW ch \in Chans,
         Control(k, guard, ch)
  PROVE  TInv'
<1>1. ctrls[k] \in Instances
  BY DEF TInv, ETypeOK, Control
<1> QED
  BY <1>1, PutType DEF Control

LEMMA PutBlockedType ==
  ASSUME TInv, PutBlocked
  PROVE  TInv'
<1>1. ETypeOK'
  BY DEF TInv, ETypeOK, PutBlocked, runs, Idle, None, Chans
<1> QED
  BY <1>1 DEF TInv, PutBlocked, NoneBeforeRun, CallerRuns, SendsStatus, runs,
              Idle

LEMMA RecvType ==
  ASSUME TInv, Recv
  PROVE  TInv'
<1>1. /\ resultChan' \in Seq([key : Keys, status : LiveStatuses \cup FinalStatuses])
      /\ Len(resultChan') <= ResultCap
  BY BoundsAssumption DEF TInv, ETypeOK, Recv
<1>2. ETypeOK'
  BY <1>1 DEF TInv, ETypeOK, Recv, runs
<1> QED
  BY <1>2 DEF TInv, Recv, NoneBeforeRun, CallerRuns, SendsStatus, runs

\* A step of a loop that reports a status.
LEMMA SyncType ==
  ASSUME TInv, NEW i \in Instances, inner[i] # "none",
         NEW s \in Reported, Sync(i, s),
         chans' \in [Instances -> SUBSET Chans],
         UNCHANGED <<ctrls, resultChan, keyOf, bound, outer, caller>>
  PROVE  TInv'
<1>1. i \in 1..runs /\ keyOf[i] \in Keys
  BY ActiveIsMade
<1>2. taskStatus' \in [Keys -> LiveStatuses \cup {NotExist}]
  BY <1>1, SetStatusType DEF TInv, Sync
<1>3. ETypeOK'
  BY <1>2, StatusFacts DEF TInv, ETypeOK, Sync, InnerPcs, runs
<1> QED
  BY <1>1, <1>3
  DEF TInv, ETypeOK, Sync, NoneBeforeRun, CallerRuns, SendsStatus, runs

LEMMA ObeyType ==
  ASSUME TInv, NEW i \in Instances, inner[i] # "none",
         NEW ch, NEW s \in Reported, Obey(i, ch, s)
  PROVE  TInv'
<1>1. chans' \in [Instances -> SUBSET Chans]
  BY DEF TInv, ETypeOK, Obey
<1> QED
  BY <1>1, SyncType DEF Obey

\* The steps of a loop that report nothing.
LEMMA QuietInnerType ==
  ASSUME TInv, NEW i \in Instances, InnerStart(i) \/ CallBizLogic(i)
  PROVE  TInv'
<1>1. inner[i] # "none"
  BY DEF InnerStart, CallBizLogic
<1>2. i \in 1..runs /\ keyOf[i] \in Keys
  BY <1>1, ActiveIsMade
<1>3. ETypeOK'
  BY <1>2 DEF TInv, ETypeOK, InnerStart, CallBizLogic, InnerPcs, runs
<1> QED
  BY <1>2, <1>3
  DEF TInv, ETypeOK, InnerStart, CallBizLogic, NoneBeforeRun, CallerRuns,
      SendsStatus, runs, Instances

LEMMA BizLogicType ==
  ASSUME TInv, NEW i \in Instances, BizLogicReturns(i)
  PROVE  TInv'
<1>1. inner[i] # "none"
  BY DEF BizLogicReturns
<1>2. chans' \in [Instances -> SUBSET Chans]
  BY DEF TInv, ETypeOK, BizLogicReturns
<1>3. CASE Sync(i, Success) \/ Sync(i, Failed)
  BY <1>1, <1>2, <1>3, SyncType, StatusFacts DEF BizLogicReturns, Reported
<1>4. CASE /\ inner' \in {[inner EXCEPT ![i] = "loop"],
                          [inner EXCEPT ![i] = "crashed"]}
           /\ UNCHANGED <<taskStatus, report>>
  <2>1. i \in 1..runs
    BY <1>1, ActiveIsMade
  <2>2. ETypeOK'
    BY <1>4 DEF TInv, ETypeOK, BizLogicReturns, InnerPcs, runs
  <2> QED
    BY <1>4, <2>1, <2>2
    DEF TInv, ETypeOK, BizLogicReturns, NoneBeforeRun, CallerRuns,
        SendsStatus, runs, Instances
<1> QED
  BY <1>3, <1>4 DEF BizLogicReturns

LEMMA InnerSendType ==
  ASSUME TInv, NEW i \in Instances, InnerSend(i)
  PROVE  TInv'
<1>1. inner[i] = "send"
  BY DEF InnerSend
<1>2. i \in 1..runs /\ keyOf[i] \in Keys
  BY <1>1, ActiveIsMade
<1>3. report[i] \in Reported
  BY <1>1 DEF TInv, SendsStatus
<1>4. /\ resultChan' \in Seq([key : Keys, status : LiveStatuses \cup FinalStatuses])
      /\ Len(resultChan') <= ResultCap
  BY <1>2, <1>3, SendType DEF TInv, InnerSend
<1>5. AfterSend(report[i]) \in InnerPcs \ {"none", "send"}
  BY DEF AfterSend, InnerPcs
<1>6. ETypeOK'
  BY <1>4, <1>5, StatusFacts DEF TInv, ETypeOK, InnerSend, runs
<1>7. SendsStatus'
  BY <1>5 DEF TInv, ETypeOK, SendsStatus, InnerSend
<1> QED
  BY <1>2, <1>6, <1>7
  DEF TInv, ETypeOK, InnerSend, NoneBeforeRun, CallerRuns, runs, Instances

\* The steps of an outer goroutine that set no status.
LEMMA QuietOuterType ==
  ASSUME TInv, NEW i \in Instances, OuterStart(i) \/ OuterDelete(i)
  PROVE  TInv'
<1>1. i \in 1..runs /\ keyOf[i] \in Keys
  BY ActiveIsMade DEF OuterStart, OuterDelete
<1>2. ETypeOK'
  BY <1>1
  DEF TInv, ETypeOK, OuterStart, OuterDelete, InnerPcs, OuterPcs, runs
<1> QED
  BY <1>1, <1>2
  DEF TInv, ETypeOK, OuterStart, OuterDelete, NoneBeforeRun, CallerRuns,
      SendsStatus, runs, Instances

LEMMA OuterStatusType ==
  ASSUME TInv, NEW i \in Instances, OuterExit(i) \/ OuterFinish(i)
  PROVE  TInv'
<1>1. i \in 1..runs /\ keyOf[i] \in Keys
  BY ActiveIsMade DEF OuterExit, OuterFinish
<1>2. taskStatus' \in [Keys -> LiveStatuses \cup {NotExist}]
  <2>1. CASE setTaskStatus(keyOf[i], Failed)
    BY <1>1, <2>1, SetStatusType, StatusFacts DEF TInv, Reported
  <2>2. CASE UNCHANGED taskStatus
    BY <2>2 DEF TInv, ETypeOK
  <2> QED
    BY <2>1, <2>2 DEF OuterExit, OuterFinish
<1>3. /\ outer' \in [Instances -> OuterPcs]
      /\ chans' \in [Instances -> SUBSET Chans]
  BY DEF TInv, ETypeOK, OuterExit, OuterFinish, OuterPcs
<1>4. ETypeOK'
  BY <1>2, <1>3 DEF TInv, ETypeOK, OuterExit, OuterFinish, runs
<1> QED
  BY <1>1, <1>4
  DEF TInv, ETypeOK, OuterExit, OuterFinish, NoneBeforeRun, CallerRuns,
      SendsStatus, runs, Instances

LEMMA OuterSendType ==
  ASSUME TInv, NEW i \in Instances, OuterSend(i)
  PROVE  TInv'
<1>1. i \in 1..runs /\ keyOf[i] \in Keys
  BY ActiveIsMade DEF OuterSend
<1>2. /\ resultChan' \in Seq([key : Keys, status : LiveStatuses \cup FinalStatuses])
      /\ Len(resultChan') <= ResultCap
  BY <1>1, SendType, StatusFacts DEF TInv, OuterSend, Reported
<1>3. ETypeOK'
  BY <1>2 DEF TInv, ETypeOK, OuterSend, OuterPcs, runs
<1> QED
  BY <1>1, <1>3
  DEF TInv, ETypeOK, OuterSend, NoneBeforeRun, CallerRuns, SendsStatus, runs,
      Instances

LEMMA TypeStep ==
  ASSUME TInv, [ENext]_evars
  PROVE  TInv'
<1>1. ASSUME NEW k \in Keys, Call(k)
      PROVE  TInv'
  <2>1. CASE Run(k)
    BY <2>1, RunType
  <2>2. CASE Exit(k) \/ StopTask(k) \/ Pause(k) \/ Resume(k)
    BY <2>2, ControlType DEF Exit, StopTask, Pause, Resume, Chans
  <2> QED
    BY <1>1, <2>1, <2>2 DEF Call
<1>2. CASE CallerStep
  BY <1>2, RunSyncType, PutBlockedType DEF CallerStep
<1>3. CASE Recv
  BY <1>3, RecvType
<1>4. ASSUME NEW i \in Instances, Inner(i)
      PROVE  TInv'
  <2>1. CASE InnerObey(i) \/ PausedObey(i)
    BY <2>1, ObeyType, StatusFacts DEF InnerObey, PausedObey, Reported
  <2> QED
    BY <1>4, <2>1, QuietInnerType, BizLogicType, InnerSendType DEF Inner
<1>5. ASSUME NEW i \in Instances, Outer(i)
      PROVE  TInv'
  BY <1>5, QuietOuterType, OuterStatusType, OuterSendType DEF Outer
<1>6. CASE UNCHANGED evars
  BY <1>6
  DEF TInv, ETypeOK, NoneBeforeRun, CallerRuns, SendsStatus, evars, runs
<1> QED
  BY <1>1, <1>2, <1>3, <1>4, <1>5, <1>6 DEF ENext

LEMMA TypeInit ==
  ASSUME EInit
  PROVE  TInv
<1>1. Len(keyOf) = 0 /\ keyOf \in Seq(Keys)
  BY DEF EInit
<1>2. ETypeOK
  BY <1>1, BoundsAssumption, StatusFacts
  DEF EInit, ETypeOK, runs, Idle, Chans, InnerPcs, OuterPcs, Instances
<1>3. NoneBeforeRun /\ CallerRuns /\ SendsStatus
  BY DEF EInit, NoneBeforeRun, CallerRuns, SendsStatus, Idle
<1> QED
  BY <1>2, <1>3 DEF TInv

\* The variables of the executor keep their types: no final status is listed,
\* the result channel never holds more than its capacity, every event is of a
\* task that was run.
THEOREM ExecutorTypes == ESpec => []ETypeOK
<1>1. TInv => ETypeOK
  BY DEF TInv
<1> QED
  BY <1>1, TypeInit, TypeStep, PTL DEF ESpec
-----------------------------------------------------------------------------
(* Control objects.                                                        *)

\* Run puts a new control object where there was none.
LEMMA RunCtrl ==
  ASSUME TInv, CInv, NEW k \in Keys, Run(k)
  PROVE  CInv'
<1> DEFINE new == runs + 1
<1>1. /\ runs \in Nat /\ runs' = new /\ new \in Instances
      /\ \A j \in 1..runs : keyOf'[j] = keyOf[j]
      /\ keyOf'[new] = k
  BY BoundsAssumption DEF TInv, ETypeOK, Run, runs, Instances
<1>2. /\ ctrls' = [ctrls EXCEPT ![k] = new]
      /\ outer' = [outer EXCEPT ![new] = "start"]
      /\ ctrls[k] = None
  BY DEF Run
<1>3. OwnCtrl'
  <2> SUFFICES ASSUME NEW j \in 1..new
               PROVE  (outer'[j] # "gone" <=> ctrls'[keyOf'[j]] = j)
    BY <1>1 DEF OwnCtrl
  <2>1. CASE j = new
    BY <1>1, <1>2, <2>1 DEF TInv, ETypeOK
  <2>2. CASE j \in 1..runs
    <3>1. keyOf[j] \in Keys /\ j \in Instances /\ j # new /\ j # None
      BY <1>1, <2>2, KeyOfRun DEF TInv, None
    <3>2. outer[j] # "gone" <=> ctrls[keyOf[j]] = j
      BY <2>2 DEF CInv, OwnCtrl
    <3> QED
      BY <1>1, <1>2, <2>2, <3>1, <3>2 DEF TInv, ETypeOK
  <2> QED
    BY <1>1, <2>1, <2>2
<1>4. MapsToOwnKey'
  BY <1>1, <1>2 DEF CInv, MapsToOwnKey, TInv, ETypeOK
<1> QED
  BY <1>3, <1>4 DEF CInv

\* delTaskCtrl removes the control object of the run whose goroutine calls it.
LEMMA DeleteCtrl ==
  ASSUME TInv, CInv, NEW i \in Instances, OuterDelete(i)
  PROVE  CInv'
<1>1. i \in 1..runs /\ keyOf[i] \in Keys /\ i # None
  BY ActiveIsMade DEF OuterDelete, None
<1>2. ctrls[keyOf[i]] = i
  BY <1>1 DEF CInv, OwnCtrl, OuterDelete
<1>3. /\ ctrls' = [ctrls EXCEPT ![keyOf[i]] = None]
      /\ outer' = [outer EXCEPT ![i] = "gone"]
      /\ keyOf' = keyOf
  BY DEF OuterDelete
<1>4. OwnCtrl'
  <2> SUFFICES ASSUME NEW j \in 1..runs
               PROVE  (outer'[j] # "gone" <=> ctrls'[keyOf[j]] = j)
    BY <1>3 DEF OwnCtrl, runs
  <2>1. keyOf[j] \in Keys /\ j \in Instances /\ j # None
    BY KeyOfRun DEF TInv, None
  <2>2. outer[j] # "gone" <=> ctrls[keyOf[j]] = j
    BY DEF CInv, OwnCtrl
  <2> QED
    BY <1>1, <1>2, <1>3, <2>1, <2>2 DEF TInv, ETypeOK
<1>5. MapsToOwnKey'
  BY <1>1, <1>3 DEF CInv, MapsToOwnKey, TInv, ETypeOK, runs
<1> QED
  BY <1>4, <1>5 DEF CInv

\* No other step touches the map, nor ends an outer goroutine.
LEMMA OtherCtrl ==
  ASSUME TInv, CInv, UNCHANGED <<ctrls, keyOf>>,
         \A i \in Instances : outer'[i] # "gone" <=> outer[i] # "gone"
  PROVE  CInv'
<1>1. \A i \in 1..runs : i \in Instances
  BY KeyOfRun DEF TInv
<1> QED
  BY <1>1 DEF CInv, OwnCtrl, MapsToOwnKey, runs

LEMMA CtrlStep ==
  ASSUME TInv, CInv, [ENext]_evars
  PROVE  CInv'
<1>1. ASSUME NEW k \in Keys, Call(k)
      PROVE  CInv'
  BY <1>1, RunCtrl, OtherCtrl
  DEF Call, Exit, StopTask, Pause, Resume, Control, Put
<1>2. CASE CallerStep \/ Recv
  BY <1>2, OtherCtrl DEF CallerStep, RunSync, RunSend, PutBlocked, Recv
<1>3. ASSUME NEW i \in Instances, Inner(i)
      PROVE  CInv'
  BY <1>3, OtherCtrl
  DEF Inner, InnerStart, InnerObey, PausedObey, Obey, CallBizLogic,
      BizLogicReturns, InnerSend
<1>4. ASSUME NEW i \in Instances, Outer(i)
      PROVE  CInv'
  <2>1. CASE OuterStart(i) \/ OuterExit(i) \/ OuterFinish(i) \/ OuterSend(i)
    BY <2>1, OtherCtrl
    DEF OuterStart, OuterExit, OuterFinish, OuterSend, TInv, ETypeOK
  <2> QED
    BY <1>4, <2>1, DeleteCtrl DEF Outer
<1>5. CASE UNCHANGED evars
  BY <1>5, OtherCtrl DEF evars
<1> QED
  BY <1>1, <1>2, <1>3, <1>4, <1>5 DEF ENext

LEMMA CtrlInit ==
  ASSUME EInit
  PROVE  CInv
BY DEF EInit, CInv, OwnCtrl, MapsToOwnKey, runs

\* A run has the control object of its key in the map from Run until its own
\* delTaskCtrl: the outer goroutine never finds nil nor another run's object,
\* and its delete removes nobody else's.
THEOREM OwnControlObject == ESpec => []OwnCtrl
<1>1. CInv => OwnCtrl
  BY DEF CInv
<1> QED
  BY <1>1, TypeInit, CtrlInit, TypeStep, CtrlStep, PTL DEF ESpec
=============================================================================
