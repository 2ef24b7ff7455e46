------------------------- MODULE ExecutorHistoryProofs -------------------------
(***************************************************************************)
(* What is proved about the events and the tokens of the goroutine         *)
(* executor, on top of GoroutineExecutorProofs.                            *)
(***************************************************************************)
EXTENDS ExecutorHistory, GoroutineExecutorProofs

Over == {"report", "delete", "gone"}

HTypes == finals \in [Instances -> Nat] /\ forced \subseteq Instances

\* The loop is started by the outer goroutine.
LoopAfterOuter ==
  \A i \in Instances : outer[i] \in {"none", "start"} => inner[i] = "none"

\* Only a forced exit takes the outer goroutine away from a loop.
OverAfterLoop ==
  \A i \in Instances :
    outer[i] \in Over /\ i \notin forced =>
      /\ inner[i] \in {"ended", "crashed"}
      /\ outer[i] = "report" => inner[i] = "crashed"

\* Until the outer goroutine is through with its report the final statuses
\* sent are those of the loop: one if it has ended.
LoopCounted ==
  \A i \in Instances :
    outer[i] \notin {"delete", "gone"} =>
      finals[i] = IF inner[i] = "ended" THEN 1 ELSE 0

\* FinalReported, for every instance.
AllReported ==
  \A i \in Instances :
    outer[i] \in {"delete", "gone"} =>
      /\ finals[i] >= 1
      /\ i \notin forced => finals[i] = 1

HInv == HTypes /\ LoopAfterOuter /\ OverAfterLoop /\ LoopCounted /\ AllReported

\* OwnTokens, for every instance.
BoundToOwn == \A i \in Instances : i \notin forced => bound[i] \in {None, i}

\* How a step may move run j.
Move(j) ==
  \/ inner'[j] = inner[j] /\ outer'[j] = outer[j]
  \/ inner'[j] = inner[j] /\ outer[j] = "none" /\ outer'[j] = "start"
  \/ inner'[j] = "start" /\ outer[j] = "start" /\ outer'[j] = "wait"
  \/ /\ inner[j] \in {"start", "loop", "call", "paused"}
     /\ inner'[j] \in {"loop", "call", "paused", "send", "crashed"}
     /\ outer'[j] = outer[j]
  \/ /\ inner[j] = "send"
     /\ inner'[j] \in {"loop", "paused", "ended"}
     /\ outer'[j] = outer[j]
  \/ /\ inner'[j] = inner[j]
     /\ outer[j] = "wait"
     /\ \/ outer'[j] = "report" /\ "exit" \in chans[j] /\ "exit" \notin chans'[j]
        \/ outer'[j] = "report" /\ inner[j] = "crashed"
        \/ outer'[j] = "delete" /\ inner[j] = "ended"
  \/ inner'[j] = inner[j] /\ outer[j] = "report" /\ outer'[j] = "delete"
  \/ inner'[j] = inner[j] /\ outer[j] = "delete" /\ outer'[j] = "gone"
-----------------------------------------------------------------------------
\* A step of a loop moves every run as Move says.
LEMMA InnerMoves ==
  ASSUME TInv, NEW i \in Instances, Inner(i), NEW j \in Instances
  PROVE  Move(j)
<1>1. CASE InnerStart(i) \/ CallBizLogic(i) \/ BizLogicReturns(i)
  BY <1>1
  DEF Move, TInv, ETypeOK, InnerStart, CallBizLogic, BizLogicReturns, Sync
<1>2. CASE InnerObey(i) \/ PausedObey(i)
  BY <1>2 DEF Move, TInv, ETypeOK, InnerObey, PausedObey, Obey, Sync
<1>3. CASE InnerSend(i)
  BY <1>3 DEF Move, TInv, ETypeOK, InnerSend, AfterSend
<1> QED
  BY <1>1, <1>2, <1>3 DEF Inner

\* A step of an outer goroutine moves every run as Move says.
LEMMA OuterMoves ==
  ASSUME TInv, NEW i \in Instances, Outer(i), NEW j \in Instances
  PROVE  Move(j)
<1>1. CASE OuterStart(i)
  BY <1>1 DEF Move, TInv, ETypeOK, OuterStart
<1>2. CASE OuterExit(i)
  BY <1>2 DEF Move, TInv, ETypeOK, OuterExit
<1>3. CASE OuterFinish(i)
  BY <1>3 DEF Move, TInv, ETypeOK, OuterFinish
<1>4. CASE OuterSend(i) \/ OuterDelete(i)
  BY <1>4 DEF Move, TInv, ETypeOK, OuterSend, OuterDelete
<1> QED
  BY <1>1, <1>2, <1>3, <1>4 DEF Outer

\* So does every step of the executor.
LEMMA Moves ==
  ASSUME TInv, [ENext]_evars, NEW j \in Instances
  PROVE  Move(j)
<1>1. ASSUME NEW k \in Keys, Run(k)
      PROVE  Move(j)
  <2>1. runs + 1 \in Instances /\ runs + 1 > runs
    BY <1>1, BoundsAssumption DEF TInv, ETypeOK, Run, runs, Instances
  <2>2. outer[runs + 1] = "none"
    BY <2>1 DEF TInv, NoneBeforeRun
  <2> QED
    BY <1>1, <2>1, <2>2 DEF Move, TInv, ETypeOK, Run
<1>2. ASSUME NEW k \in Keys,
             Exit(k) \/ StopTask(k) \/ Pause(k) \/ Resume(k)
      PROVE  Move(j)
  BY <1>2 DEF Move, Exit, StopTask, Pause, Resume, Control, Put
<1>3. CASE CallerStep \/ Recv \/ UNCHANGED evars
  BY <1>3 DEF Move, CallerStep, RunSync, RunSend, PutBlocked, Recv, evars
<1> QED
  BY <1>1, <1>2, <1>3, InnerMoves, OuterMoves DEF ENext, Call

\* What HNext adds to a step.
LEMMA HistoryStep ==
  ASSUME HTypes, [HNext]_hvars
  PROVE  /\ [ENext]_evars
         /\ HTypes'
         /\ \A j \in Instances :
              /\ finals'[j] = IF SendsFinal(j) THEN finals[j] + 1 ELSE finals[j]
              /\ j \in forced => j \in forced'
              /\ "exit" \in chans[j] /\ "exit" \notin chans'[j] => j \in forced'
<1>1. CASE HNext
  BY <1>1 DEF HNext, HTypes
<1>2. CASE UNCHANGED hvars
  BY <1>2 DEF hvars, evars, HTypes, SendsFinal
<1> QED
  BY <1>1, <1>2

\* The counts and positions keep their relation.
LEMMA HInvStep ==
  ASSUME TInv, HInv, [HNext]_hvars
  PROVE  HInv'
<1>1. /\ HTypes'
      /\ [ENext]_evars
      /\ \A j \in Instances :
           /\ finals'[j] = IF SendsFinal(j) THEN finals[j] + 1 ELSE finals[j]
           /\ j \in forced => j \in forced'
           /\ "exit" \in chans[j] /\ "exit" \notin chans'[j] => j \in forced'
  BY HistoryStep DEF HInv
<1>2. \A j \in Instances : Move(j)
  BY <1>1, Moves
<1>3. LoopAfterOuter'
  BY <1>2 DEF HInv, LoopAfterOuter, Move
<1>4. OverAfterLoop'
  BY <1>1, <1>2 DEF HInv, OverAfterLoop, Move, Over
<1>5. LoopCounted'
  BY <1>1, <1>2
  DEF HInv, HTypes, LoopAfterOuter, LoopCounted, Move, SendsFinal
<1>6. AllReported'
  BY <1>1, <1>2
  DEF HInv, HTypes, OverAfterLoop, LoopCounted, AllReported, Move,
      SendsFinal, Over
<1> QED
  BY <1>1, <1>3, <1>4, <1>5, <1>6 DEF HInv

\* They have it at the start.
LEMMA HInvInit ==
  ASSUME HInit
  PROVE  HInv
BY DEF HInit, EInit, HInv, HTypes, LoopAfterOuter, OverAfterLoop, LoopCounted,
       AllReported, Over

\* Every run ends reported: when its control object is removed a final status
\* has been sent, exactly one unless it was forced to exit.
THEOREM EveryEndReported == HSpec => []FinalReported
<1>1. HInit => TInv /\ HInv
  BY TypeInit, HInvInit DEF HInit
<1>2. TInv /\ HInv /\ [HNext]_hvars => TInv' /\ HInv'
  BY HInvStep, HistoryStep, TypeStep DEF HInv
<1>3. TInv /\ HInv => FinalReported
  BY KeyOfRun DEF HInv, AllReported, FinalReported, TInv
<1> QED
  BY <1>1, <1>2, <1>3, PTL DEF HSpec
-----------------------------------------------------------------------------
(* Tokens.                                                                 *)

\* A run that has not been forced to exit reads its control object while its
\* outer goroutine waits, hence while the map leads to it.
LEMMA StartsAttached ==
  ASSUME TInv, CInv, HInv,
         NEW i \in Instances, i \notin forced, inner[i] = "start"
  PROVE  ctrls[keyOf[i]] = i
<1>1. i \in 1..runs
  BY ActiveIsMade
<1>2. outer[i] = "wait"
  BY DEF HInv, LoopAfterOuter, OverAfterLoop, Over, TInv, ETypeOK, OuterPcs
<1> QED
  BY <1>1, <1>2 DEF CInv, OwnCtrl

\* Only InnerStart binds a loop to a control object.
LEMMA BoundStep ==
  ASSUME TInv, CInv, HInv, BoundToOwn, [HNext]_hvars
  PROVE  BoundToOwn'
<1>1. [ENext]_evars /\ forced \subseteq forced'
  BY HistoryStep DEF HInv, HTypes
<1>2. ASSUME NEW i \in Instances, InnerStart(i)
      PROVE  BoundToOwn'
  <2>1. i \notin forced => ctrls[keyOf[i]] = i
    BY <1>2, StartsAttached DEF InnerStart
  <2> QED
    BY <1>1, <1>2, <2>1 DEF BoundToOwn, InnerStart, TInv, ETypeOK
<1>3. ASSUME NEW i \in Instances, Inner(i), ~InnerStart(i)
      PROVE  UNCHANGED bound
  BY <1>3
  DEF Inner, InnerObey, PausedObey, Obey, CallBizLogic, BizLogicReturns,
      InnerSend
<1>4. ASSUME NEW i \in Instances, Outer(i)
      PROVE  UNCHANGED bound
  BY <1>4 DEF Outer, OuterStart, OuterExit, OuterFinish, OuterSend, OuterDelete
<1>5. ASSUME NEW k \in Keys, Call(k)
      PROVE  UNCHANGED bound
  BY <1>5 DEF Call, Run, Exit, StopTask, Pause, Resume, Control, Put
<1>6. CallerStep \/ Recv \/ UNCHANGED evars => UNCHANGED bound
  BY DEF CallerStep, RunSync, RunSend, PutBlocked, Recv, evars
<1>7. UNCHANGED bound => BoundToOwn'
  BY <1>1 DEF BoundToOwn
<1> QED
  BY <1>1, <1>2, <1>3, <1>4, <1>5, <1>6, <1>7 DEF ENext

\* A loop takes the tokens of its own run only, unless it was forced to exit:
\* the lookup by key in run finds the control object made by its own Run.
THEOREM TokensOfOwnRun == HSpec => []OwnTokens
<1>1. HInit => TInv /\ CInv /\ HInv /\ BoundToOwn
  BY TypeInit, CtrlInit, HInvInit DEF HInit, EInit, BoundToOwn
<1>2. /\ TInv /\ CInv /\ HInv /\ BoundToOwn
      /\ [HNext]_hvars
      => (TInv /\ CInv /\ HInv /\ BoundToOwn)'
  BY HInvStep, HistoryStep, TypeStep, CtrlStep, BoundStep DEF HInv
<1>3. TInv /\ BoundToOwn => OwnTokens
  BY KeyOfRun DEF BoundToOwn, OwnTokens, TInv
<1> QED
  BY <1>1, <1>2, <1>3, PTL DEF HSpec
-----------------------------------------------------------------------------
(* What List shows.                                                        *)

\* Only runs that have been made are sent tokens or forced to exit.
TokensMade ==
  /\ forced \subseteq 1..runs
  /\ \A i \in Instances : chans[i] # {} => i \in 1..runs
  /\ caller.at = "send" => caller.inst \in 1..runs

\* Between the two halves of Run nobody can tell the new run anything, so it
\* has not paused; the other runs of its key are over.
SyncsFresh ==
  caller.at = "runSync" =>
    LET c == caller.inst IN
    /\ c \notin forced
    /\ chans[c] = {}
    /\ inner[c] # "paused"
    /\ inner[c] = "send" => IsFinalStatus(report[c])
    /\ \A i \in 1..runs : i # c /\ keyOf[i] = keyOf[c] => outer[i] = "gone"

\* ListTruthful, with the moments before the loop starts and while it sends.
Listed ==
  \A i \in 1..runs :
    outer[i] \in {"start", "wait"} /\ ~Disturbed(i) =>
      /\ inner[i] \in {"none", "start", "loop", "call"} =>
           taskStatus[keyOf[i]] = Running
      /\ inner[i] = "paused" => taskStatus[keyOf[i]] = Paused
      /\ inner[i] = "send" /\ ~IsFinalStatus(report[i]) =>
           taskStatus[keyOf[i]] = report[i]

\* A loop that is running has a control object.
LoopBound ==
  \A i \in Instances :
    inner[i] \in {"loop", "call", "paused", "send"} => bound[i] # None

LInv == TokensMade /\ LoopBound /\ SyncsFresh /\ Listed
\* What the list is proved from.
Known == TInv /\ CInv /\ HInv /\ BoundToOwn

\* While a run has not ended and nobody disturbs it, no other run of its key
\* is under way: only its own goroutines and Run set the status of the key.
LEMMA LoneWriter ==
  ASSUME Known, NEW i \in 1..runs, NEW n \in 1..runs, n # i,
         keyOf[n] = keyOf[i], outer[i] # "gone", ~Disturbed(i)
  PROVE  outer[n] = "gone" /\ inner[n] \in {"ended", "crashed"}
<1>1. i \in Instances /\ n \in Instances
  BY KeyOfRun DEF Known, TInv
<1>2. outer[n] = "gone"
  BY DEF Known, CInv, OwnCtrl
<1>3. n \notin forced
  BY DEF Disturbed
<1> QED
  BY <1>1, <1>2, <1>3 DEF Known, HInv, OverAfterLoop, Over

\* A step forgets neither the runs that were forced to exit nor their keys.
LEMMA DisturbedStays ==
  ASSUME TInv, HTypes, TokensMade, [HNext]_hvars,
         NEW i \in 1..runs, Disturbed(i)
  PROVE  Disturbed(i)'
<1>1. [ENext]_evars /\ forced \subseteq forced'
  BY HistoryStep DEF HTypes
<1>2. \A j \in 1..runs : keyOf'[j] = keyOf[j]
  BY <1>1, BoundsAssumption
  DEF TInv, ETypeOK, ENext, Call, Run, Exit, StopTask, Pause, Resume, Control,
      Put, CallerStep, RunSync, RunSend, PutBlocked, Recv, Inner, InnerStart,
      InnerObey, PausedObey, Obey, CallBizLogic, BizLogicReturns, InnerSend,
      Outer, OuterStart, OuterExit, OuterFinish, OuterSend, OuterDelete,
      evars, runs
<1> QED
  BY <1>1, <1>2 DEF Disturbed, TokensMade
-----------------------------------------------------------------------------
\* Which step takes an exit token, and what becomes of the set of runs.
LEMMA ExitTaken ==
  ASSUME TInv, HTypes, HNext
  PROVE  /\ \A j \in Instances :
              "exit" \in chans[j] /\ "exit" \notin chans'[j] => OuterExit(j)
         /\ \A j \in forced' : j \in forced \/ OuterExit(j)
<1>1. ASSUME NEW j \in Instances, "exit" \in chans[j], "exit" \notin chans'[j]
      PROVE  OuterExit(j)
  <2>1. ENext
    BY DEF HNext
  <2>2. ASSUME NEW k \in Keys, Call(k)
        PROVE  FALSE
    BY <1>1, <2>2
    DEF Call, Run, Exit, StopTask, Pause, Resume, Control, Put, TInv, ETypeOK
  <2>3. CASE CallerStep \/ Recv
    BY <1>1, <2>3
    DEF CallerStep, RunSync, RunSend, PutBlocked, Recv, TInv, ETypeOK
  <2>4. ASSUME NEW n \in Instances, Inner(n)
        PROVE  FALSE
    BY <1>1, <2>4
    DEF Inner, InnerStart, InnerObey, PausedObey, Obey, CallBizLogic,
        BizLogicReturns, InnerSend, TInv, ETypeOK
  <2>5. ASSUME NEW n \in Instances, Outer(n)
        PROVE  OuterExit(j)
    BY <1>1, <2>5
    DEF Outer, OuterStart, OuterExit, OuterFinish, OuterSend, OuterDelete,
        TInv, ETypeOK
  <2> QED
    BY <2>1, <2>2, <2>3, <2>4, <2>5 DEF ENext
<1> QED
  BY <1>1 DEF HNext

LEMMA TokensMadeStep ==
  ASSUME TInv, CInv, HTypes, TokensMade, HNext
  PROVE  TokensMade'
<1> DEFINE Sent ==
      /\ \A j \in Instances : chans[j] # {} => j \in 1..runs
      /\ caller.at = "send" => caller.inst \in 1..runs
<1>1. /\ runs \in Nat /\ runs' \in Nat /\ runs <= runs'
      /\ \A j \in 1..runs : j \in 1..runs'
  BY BoundsAssumption
  DEF HNext, TInv, ETypeOK, ENext, Call, Run, Exit, StopTask, Pause, Resume,
      Control, Put, CallerStep, RunSync, RunSend, PutBlocked, Recv, Inner,
      InnerStart, InnerObey, PausedObey, Obey, CallBizLogic, BizLogicReturns,
      InnerSend, Outer, OuterStart, OuterExit, OuterFinish, OuterSend,
      OuterDelete, runs
<1>2. forced' \subseteq 1..runs'
  <2> SUFFICES ASSUME NEW j \in forced' PROVE j \in 1..runs
    BY <1>1
  <2>1. CASE j \in forced
    BY <2>1 DEF TokensMade
  <2>2. CASE OuterExit(j)
    <3>1. j \in Instances
      BY HistoryStep DEF HTypes
    <3> QED
      BY <2>2, <3>1, ActiveIsMade DEF OuterExit
  <2> QED
    BY <2>1, <2>2, ExitTaken
<1>3. Sent'
  <2>1. ENext
    BY DEF HNext
  <2>2. ASSUME NEW k \in Keys, Call(k)
        PROVE  Sent'
    <3>1. CASE Run(k)
      BY <1>1, <3>1 DEF Run, TokensMade
    <3>2. ASSUME ctrls[k] # None, NEW ch \in Chans, Put(ctrls[k], ch)
          PROVE  Sent'
      <4>1. ctrls[k] \in 1..runs /\ ctrls[k] \in Instances
        BY <3>2, KeyOfRun DEF CInv, MapsToOwnKey, TInv
      <4>2. \A j \in Instances : chans'[j] = chans[j] \/ j = ctrls[k]
        BY <3>2, <4>1 DEF Put, TInv, ETypeOK
      <4>3. caller'.at = "send" => caller'.inst = ctrls[k]
        BY <3>2 DEF Put, Idle
      <4> QED
        BY <1>1, <4>1, <4>2, <4>3 DEF TokensMade
    <3> QED
      BY <2>2, <3>1, <3>2 DEF Call, Exit, StopTask, Pause, Resume, Control, Chans
  <2>3. CASE CallerStep \/ Recv
    BY <1>1, <2>3
    DEF CallerStep, RunSync, RunSend, PutBlocked, Recv, TokensMade, TInv,
        ETypeOK, Idle
  <2>4. ASSUME NEW n \in Instances, Inner(n)
        PROVE  Sent'
    BY <1>1, <2>4
    DEF Inner, InnerStart, InnerObey, PausedObey, Obey, CallBizLogic,
        BizLogicReturns, InnerSend, TokensMade, TInv, ETypeOK
  <2>5. ASSUME NEW n \in Instances, Outer(n)
        PROVE  Sent'
    BY <1>1, <2>5
    DEF Outer, OuterStart, OuterExit, OuterFinish, OuterSend, OuterDelete,
        TokensMade, TInv, ETypeOK
  <2> QED
    BY <2>1, <2>2, <2>3, <2>4, <2>5 DEF ENext
<1> QED
  BY <1>2, <1>3 DEF TokensMade
LEMMA LoopBoundStep ==
  ASSUME TInv, LoopBound, [ENext]_evars
  PROVE  LoopBound'
<1>1. ASSUME NEW k \in Keys, Call(k)
      PROVE  LoopBound'
  BY <1>1 DEF Call, Run, Exit, StopTask, Pause, Resume, Control, Put, LoopBound
<1>2. CASE CallerStep \/ Recv \/ UNCHANGED evars
  BY <1>2 DEF CallerStep, RunSync, RunSend, PutBlocked, Recv, evars, LoopBound
<1>3. ASSUME NEW n \in Instances, Inner(n)
      PROVE  LoopBound'
  BY <1>3
  DEF Inner, InnerStart, InnerObey, PausedObey, Obey, Sync, CallBizLogic,
      BizLogicReturns, InnerSend, LoopBound, TInv, ETypeOK
<1>4. ASSUME NEW n \in Instances, Outer(n)
      PROVE  LoopBound'
  BY <1>4
  DEF Outer, OuterStart, OuterExit, OuterFinish, OuterSend, OuterDelete,
      LoopBound, TInv, ETypeOK
<1> QED
  BY <1>1, <1>2, <1>3, <1>4 DEF ENext

\* Only Run, and RunSync, tell the caller what to set; and a control call
\* that adds a token is not between the halves of Run.
LEMMA CallerMoves ==
  ASSUME TInv, [ENext]_evars, caller'.at = "runSync"
  PROVE  \/ \E k \in Keys : Run(k)
         \/ /\ caller' = caller /\ keyOf' = keyOf
            /\ \A j \in Instances : chans'[j] \subseteq chans[j]
<1>1. ASSUME NEW k \in Keys, Call(k), ~Run(k)
      PROVE  FALSE
  BY <1>1 DEF Call, Exit, StopTask, Pause, Resume, Control, Put, Idle
<1>2. CASE CallerStep
  BY <1>2 DEF CallerStep, RunSync, RunSend, PutBlocked, Idle, TInv, ETypeOK
<1>3. CASE Recv \/ UNCHANGED evars
  BY <1>3 DEF Recv, evars
<1>4. ASSUME NEW n \in Instances, Inner(n)
      PROVE  /\ caller' = caller /\ keyOf' = keyOf
             /\ \A j \in Instances : chans'[j] \subseteq chans[j]
  BY <1>4
  DEF Inner, InnerStart, InnerObey, PausedObey, Obey, CallBizLogic,
      BizLogicReturns, InnerSend, TInv, ETypeOK
<1>5. ASSUME NEW n \in Instances, Outer(n)
      PROVE  /\ caller' = caller /\ keyOf' = keyOf
             /\ \A j \in Instances : chans'[j] \subseteq chans[j]
  BY <1>5
  DEF Outer, OuterStart, OuterExit, OuterFinish, OuterSend, OuterDelete,
      TInv, ETypeOK
<1> QED
  BY <1>1, <1>2, <1>3, <1>4, <1>5 DEF ENext

\* A loop without a token to take neither pauses nor reports that it goes on.
LEMMA NoTokenNoPause ==
  ASSUME TInv, BoundToOwn, LoopBound, [ENext]_evars,
         NEW c \in Instances, c \notin forced, chans[c] = {},
         inner[c] # "paused",
         inner[c] = "send" => IsFinalStatus(report[c])
  PROVE  /\ inner'[c] # "paused"
         /\ inner'[c] = "send" => IsFinalStatus(report'[c])
<1>1. ASSUME NEW k \in Keys, Call(k)
      PROVE  UNCHANGED <<inner, report>>
  BY <1>1 DEF Call, Run, Exit, StopTask, Pause, Resume, Control, Put
<1>2. CASE CallerStep \/ Recv \/ UNCHANGED evars
  BY <1>2 DEF CallerStep, RunSync, RunSend, PutBlocked, Recv, evars
<1>3. ASSUME NEW n \in Instances, Inner(n), n # c
      PROVE  inner'[c] = inner[c] /\ report'[c] = report[c]
  BY <1>3
  DEF Inner, InnerStart, InnerObey, PausedObey, Obey, Sync, CallBizLogic,
      BizLogicReturns, InnerSend, TInv, ETypeOK
<1>4. CASE Inner(c)
  <2>1. inner[c] \in {"loop", "call", "send"} => bound[c] = c
    BY DEF LoopBound, BoundToOwn
  <2>2. CASE InnerStart(c) \/ CallBizLogic(c)
    BY <2>2 DEF InnerStart, CallBizLogic, TInv, ETypeOK
  <2>3. ~InnerObey(c) /\ ~PausedObey(c)
    BY <2>1 DEF InnerObey, PausedObey, Obey
  <2>4. CASE BizLogicReturns(c)
    BY <2>4
    DEF BizLogicReturns, Sync, IsFinalStatus, FinalStatuses, TInv, ETypeOK
  <2>5. CASE InnerSend(c)
    BY <2>5, StatusFacts
    DEF InnerSend, AfterSend, IsFinalStatus, FinalStatuses, TInv, ETypeOK,
        Running, Paused, Stop, Success, Failed
  <2> QED
    BY <1>4, <2>2, <2>3, <2>4, <2>5 DEF Inner
<1>5. ASSUME NEW n \in Instances, Outer(n)
      PROVE  /\ inner'[c] \in {inner[c], "start"}
             /\ report' = report
  BY <1>5
  DEF Outer, OuterStart, OuterExit, OuterFinish, OuterSend, OuterDelete,
      TInv, ETypeOK
<1> QED
  BY <1>1, <1>2, <1>3, <1>4, <1>5 DEF ENext

LEMMA SyncsFreshStep ==
  ASSUME Known, TokensMade, LoopBound, SyncsFresh, [HNext]_hvars
  PROVE  SyncsFresh'
<1> SUFFICES ASSUME caller'.at = "runSync" PROVE SyncsFresh'
  BY DEF SyncsFresh
<1> DEFINE c == caller'.inst
<1>1. TInv /\ CInv /\ [ENext]_evars
  BY HistoryStep DEF Known, HInv
<1>2. ASSUME NEW j \in Instances, j \notin forced, chans[j] = {}
      PROVE  j \notin forced'
  <2>1. CASE HNext
    BY <1>2, <2>1 DEF HNext
  <2> QED
    BY <1>2, <2>1 DEF hvars
<1>3. ASSUME NEW k \in Keys, Run(k)
      PROVE  SyncsFresh'
  <2>1. /\ c = runs + 1 /\ c \in Instances /\ runs \in Nat
        /\ runs' = c /\ c \notin 1..runs
        /\ \A j \in 1..runs : keyOf'[j] = keyOf[j]
        /\ keyOf'[c] = k
        /\ ctrls[k] = None
    BY <1>1, <1>3, BoundsAssumption DEF Run, TInv, ETypeOK, runs, Instances
  <2>2. c \notin forced /\ chans[c] = {}
    BY <1>1, <2>1 DEF TokensMade, TInv, ETypeOK
  <2>3. inner'[c] = "none" /\ chans'[c] = {}
    BY <1>1, <1>3, <2>1, <2>2 DEF TInv, NoneBeforeRun, Run
  <2>4. ASSUME NEW j \in 1..runs', j # c, keyOf'[j] = k
        PROVE  outer'[j] = "gone"
    <3>1. j \in 1..runs /\ keyOf[j] = k /\ j # None
      BY <2>1, <2>4 DEF None
    <3>2. outer[j] = "gone"
      BY <1>1, <2>1, <3>1 DEF CInv, OwnCtrl
    <3> QED
      BY <1>1, <1>3, <2>1, <3>1, <3>2 DEF Run, TInv, ETypeOK
  <2> HIDE DEF c
  <2> QED
    BY <1>2, <2>1, <2>2, <2>3, <2>4 DEF SyncsFresh, c
<1>4. CASE /\ caller' = caller /\ keyOf' = keyOf
           /\ \A j \in Instances : chans'[j] \subseteq chans[j]
  <2>1. c \in 1..runs /\ c \in Instances
    BY <1>1, <1>4, KeyOfRun DEF TInv, CallerRuns
  <2>2. /\ c \notin forced /\ chans[c] = {} /\ inner[c] # "paused"
        /\ inner[c] = "send" => IsFinalStatus(report[c])
        /\ \A j \in 1..runs : j # c /\ keyOf[j] = keyOf[c] => outer[j] = "gone"
    BY <1>4 DEF SyncsFresh
  <2>3. c \notin forced' /\ chans'[c] = {}
    BY <1>2, <1>4, <2>1, <2>2
  <2>4. /\ inner'[c] # "paused"
        /\ inner'[c] = "send" => IsFinalStatus(report'[c])
    BY <1>1, <2>1, <2>2, NoTokenNoPause DEF Known
  <2>5. ASSUME NEW j \in 1..runs, outer[j] = "gone"
        PROVE  outer'[j] = "gone"
    BY <1>1, <2>5, KeyOfRun, Moves DEF Move, TInv
  <2> HIDE DEF c
  <2> QED
    BY <1>4, <2>2, <2>3, <2>4, <2>5 DEF SyncsFresh, runs, c
<1> QED
  BY <1>1, <1>3, <1>4, CallerMoves
-----------------------------------------------------------------------------
\* The listed status of run i is what its loop has come to.
ListedAs(i) ==
  /\ inner[i] \in {"none", "start", "loop", "call"} =>
       taskStatus[keyOf[i]] = Running
  /\ inner[i] = "paused" => taskStatus[keyOf[i]] = Paused
  /\ inner[i] = "send" /\ ~IsFinalStatus(report[i]) =>
       taskStatus[keyOf[i]] = report[i]

\* A step of a loop keeps the entries of the runs whose key it does not have,
\* and its own.
LEMMA InnerLists ==
  ASSUME TInv, NEW n \in Instances, Inner(n),
         NEW i \in Instances, i \in 1..runs, ListedAs(i),
         n # i => keyOf[n] # keyOf[i]
  PROVE  ListedAs(i)'
<1>1. keyOf[i] \in Keys /\ keyOf' = keyOf
  BY KeyOfRun
  DEF TInv, Inner, InnerStart, InnerObey, PausedObey, Obey, CallBizLogic,
      BizLogicReturns, InnerSend
<1>2. n \in 1..runs /\ keyOf[n] \in Keys
  BY ActiveIsMade
  DEF Inner, InnerStart, InnerObey, PausedObey, Obey, CallBizLogic,
      BizLogicReturns, InnerSend
<1>3. CASE n # i
  <2>1. /\ taskStatus'[keyOf[i]] = taskStatus[keyOf[i]]
        /\ inner'[i] = inner[i] /\ report'[i] = report[i]
    BY <1>1, <1>2, <1>3
    DEF Inner, InnerStart, InnerObey, PausedObey, Obey, Sync, setTaskStatus,
        WithStatus, CallBizLogic, BizLogicReturns, InnerSend, TInv, ETypeOK
  <2> QED
    BY <1>1, <2>1 DEF ListedAs
<1>4. CASE n = i
  <2>1. CASE InnerStart(i) \/ CallBizLogic(i)
    BY <1>1, <2>1 DEF ListedAs, InnerStart, CallBizLogic, TInv, ETypeOK
  <2>2. CASE InnerObey(i) \/ PausedObey(i)
    BY <1>1, <2>2
    DEF ListedAs, InnerObey, PausedObey, Obey, Sync, setTaskStatus, WithStatus,
        TInv, ETypeOK
  <2>3. CASE BizLogicReturns(i)
    BY <1>1, <2>3
    DEF ListedAs, BizLogicReturns, Sync, IsFinalStatus, FinalStatuses, TInv,
        ETypeOK
  <2>4. CASE InnerSend(i)
    BY <1>1, <2>4, StatusFacts
    DEF ListedAs, InnerSend, AfterSend, IsFinalStatus, FinalStatuses, TInv,
        ETypeOK, Running, Paused, Stop, Success, Failed
  <2> QED
    BY <1>4, <2>1, <2>2, <2>3, <2>4 DEF Inner
<1> QED
  BY <1>3, <1>4

\* So does a step of an outer goroutine that goes on waiting.
LEMMA OuterLists ==
  ASSUME TInv, HInv, NEW n \in Instances, Outer(n),
         NEW i \in Instances, i \in 1..runs, ListedAs(i),
         outer'[i] \in {"start", "wait"},
         n # i => keyOf[n] # keyOf[i]
  PROVE  ListedAs(i)'
<1>1. keyOf[i] \in Keys /\ keyOf' = keyOf /\ report' = report
  BY KeyOfRun
  DEF TInv, Outer, OuterStart, OuterExit, OuterFinish, OuterSend, OuterDelete
<1>2. n \in 1..runs /\ keyOf[n] \in Keys
  BY ActiveIsMade
  DEF Outer, OuterStart, OuterExit, OuterFinish, OuterSend, OuterDelete
<1>3. CASE n # i
  <2>1. /\ taskStatus'[keyOf[i]] = taskStatus[keyOf[i]]
        /\ inner'[i] = inner[i]
    BY <1>1, <1>2, <1>3
    DEF Outer, OuterStart, OuterExit, OuterFinish, OuterSend, OuterDelete,
        setTaskStatus, WithStatus, TInv, ETypeOK
  <2> QED
    BY <1>1, <2>1 DEF ListedAs
<1>4. CASE n = i
  <2>1. OuterStart(i)
    BY <1>4
    DEF Outer, OuterStart, OuterExit, OuterFinish, OuterSend, OuterDelete,
        TInv, ETypeOK
  <2>2. inner[i] = "none"
    BY <2>1 DEF HInv, LoopAfterOuter, OuterStart
  <2> QED
    BY <1>1, <2>1, <2>2 DEF ListedAs, OuterStart, TInv, ETypeOK
<1> QED
  BY <1>3, <1>4

\* Run lists the run it makes, and has no control object of its key to
\* disturb another.
LEMMA RunLists ==
  ASSUME TInv, CInv, NEW k \in Keys, Run(k),
         NEW i \in 1..runs', outer'[i] \in {"start", "wait"},
         i \in 1..runs => outer[i] \in {"start", "wait"} /\ ListedAs(i)
  PROVE  ListedAs(i)'
<1>1. /\ runs \in Nat /\ runs' = runs + 1 /\ runs + 1 \in Instances
      /\ \A j \in 1..runs : keyOf'[j] = keyOf[j]
      /\ keyOf'[runs + 1] = k
      /\ ctrls[k] = None
      /\ taskStatus'[k] = Running
      /\ inner' = inner /\ report' = report
  BY BoundsAssumption
  DEF Run, TInv, ETypeOK, runs, Instances, setTaskStatus, WithStatus,
      IsFinalStatus, FinalStatuses, Running, Stop, Success, Failed
<1>2. CASE i = runs + 1
  BY <1>1, <1>2 DEF ListedAs, TInv, NoneBeforeRun
<1>3. CASE i \in 1..runs
  <2>1. keyOf[i] \in Keys /\ keyOf[i] # k
    BY <1>1, <1>3, KeyOfRun DEF CInv, OwnCtrl, None, TInv
  <2>2. taskStatus'[keyOf[i]] = taskStatus[keyOf[i]]
    BY <2>1 DEF Run, setTaskStatus, WithStatus, TInv, ETypeOK
  <2> QED
    BY <1>1, <1>3, <2>2 DEF ListedAs
<1> QED
  BY <1>1, <1>2, <1>3

\* The second half of Run sets what the first has set.
LEMMA RunSyncLists ==
  ASSUME TInv, SyncsFresh, RunSync,
         NEW i \in 1..runs, outer[i] \in {"start", "wait"}, ListedAs(i)
  PROVE  ListedAs(i)'
<1> DEFINE c == caller.inst
<1>1. /\ c \in 1..runs /\ keyOf[c] \in Keys /\ keyOf[i] \in Keys
      /\ keyOf' = keyOf /\ inner' = inner /\ report' = report
  BY KeyOfRun DEF TInv, CallerRuns, RunSync
<1>2. /\ taskStatus' = WithStatus(keyOf[c], Running)
      /\ ~IsFinalStatus(Running)
  BY DEF RunSync, setTaskStatus, IsFinalStatus, FinalStatuses, Running, Stop,
         Success, Failed
<1>3. /\ inner[c] # "paused"
      /\ inner[c] = "send" => IsFinalStatus(report[c])
      /\ i # c /\ keyOf[i] = keyOf[c] => outer[i] = "gone"
  BY DEF SyncsFresh, RunSync
<1>4. CASE i = c
  <2>1. taskStatus'[keyOf[i]] = Running
    BY <1>1, <1>2, <1>4 DEF WithStatus, TInv, ETypeOK
  <2> QED
    BY <1>1, <1>3, <1>4, <2>1 DEF ListedAs
<1>5. CASE keyOf[i] # keyOf[c]
  <2>1. taskStatus'[keyOf[i]] = taskStatus[keyOf[i]]
    BY <1>1, <1>2, <1>5 DEF WithStatus, TInv, ETypeOK
  <2> QED
    BY <1>1, <2>1 DEF ListedAs
<1> QED
  BY <1>3, <1>4, <1>5

LEMMA ListedStep ==
  ASSUME Known, TokensMade, SyncsFresh, Listed, [HNext]_hvars
  PROVE  Listed'
<1>1. TInv /\ CInv /\ HInv /\ HTypes /\ [ENext]_evars
  BY HistoryStep DEF Known, HInv
<1> SUFFICES ASSUME NEW i \in 1..runs', outer'[i] \in {"start", "wait"},
                    ~Disturbed(i)'
             PROVE  ListedAs(i)'
  BY DEF Listed, ListedAs
<1>2. ASSUME i \in 1..runs, outer[i] \in {"start", "wait"}
      PROVE  ListedAs(i) /\ ~Disturbed(i)
  BY <1>1, <1>2, DisturbedStays DEF Listed, ListedAs
<1>3. i \in 1..runs => i \in Instances /\ Move(i)
  BY <1>1, KeyOfRun, Moves DEF TInv
<1>4. i \in 1..runs /\ outer[i] # "none" => outer[i] \in {"start", "wait"}
  BY <1>3 DEF Move
<1>5. ASSUME NEW k \in Keys, Run(k)
      PROVE  ListedAs(i)'
  <2>1. i \in 1..runs => outer[i] # "none"
    BY <1>1, <1>3, <1>5 DEF Run, TInv, ETypeOK, runs, Instances
  <2> QED
    BY <1>1, <1>2, <1>4, <1>5, <2>1, RunLists
<1>6. ASSUME keyOf' = keyOf, outer'[i] # "none" => outer[i] # "none"
      PROVE  /\ i \in 1..runs /\ i \in Instances
             /\ outer[i] \in {"start", "wait"}
             /\ ListedAs(i) /\ ~Disturbed(i)
             /\ keyOf[i] \in Keys
  BY <1>1, <1>2, <1>3, <1>4, <1>6, KeyOfRun DEF runs, TInv
<1>7. CASE RunSync
  BY <1>1, <1>6, <1>7, RunSyncLists DEF RunSync
<1>8. CASE \/ \E k \in Keys : Call(k) /\ ~Run(k)
           \/ RunSend \/ PutBlocked \/ Recv \/ UNCHANGED evars
  <2>1. UNCHANGED <<taskStatus, keyOf, inner, outer, report>>
    BY <1>8
    DEF Call, Exit, StopTask, Pause, Resume, Control, Put, RunSend, PutBlocked,
        Recv, evars
  <2> QED
    BY <1>6, <2>1 DEF ListedAs
<1>9. ASSUME NEW n \in Instances, Inner(n)
      PROVE  ListedAs(i)'
  <2>1. /\ keyOf' = keyOf /\ outer' = outer
        /\ inner[n] \notin {"none", "ended", "crashed"}
    BY <1>9
    DEF Inner, InnerStart, InnerObey, PausedObey, Obey, CallBizLogic,
        BizLogicReturns, InnerSend
  <2>2. n \in 1..runs
    BY <1>1, <2>1, ActiveIsMade
  <2>3. n # i => keyOf[n] # keyOf[i]
    BY <1>6, <2>1, <2>2, LoneWriter
  <2> QED
    BY <1>1, <1>6, <1>9, <2>1, <2>3, InnerLists
<1>10. ASSUME NEW n \in Instances, Outer(n)
       PROVE  ListedAs(i)'
  <2>1. /\ keyOf' = keyOf
        /\ outer[n] \notin {"none", "gone"}
        /\ \E pc : outer' = [outer EXCEPT ![n] = pc]
    BY <1>10
    DEF Outer, OuterStart, OuterExit, OuterFinish, OuterSend, OuterDelete
  <2>2. outer'[i] # "none" => outer[i] # "none"
    BY <1>1, <1>3, <2>1 DEF TInv, ETypeOK, runs
  <2>3. n \in 1..runs
    BY <1>1, <2>1, ActiveIsMade
  <2>4. n # i => keyOf[n] # keyOf[i]
    BY <1>6, <2>1, <2>2, <2>3, LoneWriter
  <2> QED
    BY <1>1, <1>6, <1>10, <2>1, <2>2, <2>4, OuterLists
<1> QED
  BY <1>1, <1>5, <1>7, <1>8, <1>9, <1>10 DEF ENext, CallerStep

LEMMA ListInit ==
  ASSUME HInit
  PROVE  TokensMade /\ LoopBound /\ SyncsFresh /\ Listed
BY DEF HInit, EInit, TokensMade, LoopBound, SyncsFresh, Listed, runs, Idle

\* What the executor lists for a task under control is what its loop does:
\* running while it runs, paused while it is paused.  The status that Run
\* sets a second time, after it has started the goroutines, overwrites no
\* pause, and no other run of the task sets the entry unless it was forced to
\* exit.
THEOREM ListIsTruthful == HSpec => []ListTruthful
<1>1. HInit => Known /\ LInv
  BY TypeInit, CtrlInit, HInvInit, ListInit
  DEF HInit, EInit, BoundToOwn, Known, LInv
<1>2. Known /\ [HNext]_hvars => Known' /\ HTypes
  BY HInvStep, HistoryStep, TypeStep, CtrlStep, BoundStep DEF Known, HInv
<1>3. Known /\ LInv /\ [HNext]_hvars => LInv'
  <2> SUFFICES ASSUME Known, LInv, [HNext]_hvars PROVE LInv'
    OBVIOUS
  <2>1. TokensMade'
    <3>1. CASE HNext
      BY <1>2, <3>1, TokensMadeStep DEF Known, LInv
    <3>2. CASE UNCHANGED hvars
      BY <3>2 DEF LInv, TokensMade, hvars, evars, runs
    <3> QED
      BY <3>1, <3>2
  <2>2. LoopBound'
    BY <1>2, HistoryStep, LoopBoundStep DEF Known, LInv
  <2> QED
    BY <2>1, <2>2, SyncsFreshStep, ListedStep DEF LInv
<1>4. LInv => ListTruthful
  BY DEF LInv, Listed, ListTruthful
<1> QED
  BY <1>1, <1>2, <1>3, <1>4, PTL DEF HSpec
=============================================================================
