-------------------------- MODULE TypedQueueProofs --------------------------
(***************************************************************************)
(* What TypedQueue checks on three keys and three consumers, proved for    *)
(* every set of keys, of values and of consumers: its type invariant, the  *)
(* consistency of its sets, the absence of lost wake-ups, and that it      *)
(* implements UniqueQueue.                                                 *)
(***************************************************************************)
EXTENDS TypedQueue, TLAPS

\* What a step relies on and NoLostWakeup does not say: a consumer exits only
\* from an empty queue that accepts nothing more, and the drainer is at work
\* only after it has begun the shutdown.
ExitedLast ==
  (\E c \in Consumers : pc[c] = "exited") => shuttingDown /\ queue = <<>>

DrainerShuts == dpc # "idle" => shuttingDown

Wakeups == NoLostWakeup /\ ExitedLast /\ DrainerShuts
-----------------------------------------------------------------------------
\* Signal and WakeConsumers only make waiters runnable.
LEMMA SignalType ==
  ASSUME TypeOK, Signal
  PROVE  /\ pc' \in [Consumers -> {"runnable", "waiting", "exited"}]
         /\ dpc' \in {"idle", "waiting", "runnable", "returned"}
         /\ \A c \in Consumers : pc'[c] = pc[c] \/ pc'[c] = "runnable"
         /\ dpc' = dpc \/ dpc' = "runnable"
BY DEF TypeOK, Signal, WaitingConsumers

LEMMA TypeStep == TypeOK /\ [Next]_vars => TypeOK'
<1> SUFFICES ASSUME TypeOK, [Next]_vars PROVE TypeOK'
  OBVIOUS
<1>1. ASSUME NEW i \in Items, Add(i) PROVE TypeOK'
  <2>1. GetUniKey(i) \in Keys
    BY DEF Items, GetUniKey
  <2>2. pc' \in [Consumers -> {"runnable", "waiting", "exited"}]
        /\ dpc' \in {"idle", "waiting", "runnable", "returned"}
    BY <1>1, SignalType DEF Add
  <2> QED
    BY <1>1, <2>1, <2>2 DEF TypeOK, Add
<1>2. ASSUME NEW c \in Consumers, Get(c) PROVE TypeOK'
  <2>1. CASE GetItem(c)
    <3>1. Head(queue) \in Items /\ Tail(queue) \in Seq(Items)
      BY <2>1 DEF GetItem, TypeOK
    <3>2. GetUniKey(Head(queue)) \in Keys
      BY <3>1 DEF Items, GetUniKey
    <3> QED
      BY <2>1, <3>1, <3>2 DEF GetItem, TypeOK
  <2>2. CASE GetWait(c)
    BY <2>2 DEF GetWait, TypeOK
  <2>3. CASE GetShutdown(c)
    BY <2>3 DEF GetShutdown, TypeOK
  <2> QED
    BY <1>2, <2>1, <2>2, <2>3 DEF Get
<1>3. ASSUME NEW k \in Keys, Done(k) PROVE TypeOK'
  <2>1. pc' \in [Consumers -> {"runnable", "waiting", "exited"}]
        /\ dpc' \in {"idle", "waiting", "runnable", "returned"}
    BY <1>3, SignalType DEF Done, TypeOK
  <2> QED
    BY <1>3, <2>1 DEF Done, TypeOK
<1>4. CASE ShutDown
  BY <1>4 DEF ShutDown, WakeConsumers, TypeOK
<1>5. CASE ShutDownWithDrain
  BY <1>5 DEF ShutDownWithDrain, WakeConsumers, TypeOK
<1>6. CASE DrainAgain
  BY <1>6 DEF DrainAgain, TypeOK
<1>7. CASE UNCHANGED vars
  BY <1>7 DEF vars, TypeOK
<1> QED
  BY <1>1, <1>2, <1>3, <1>4, <1>5, <1>6, <1>7 DEF Next

\* Every reachable state of the queue has the types its struct declares:
\* dirty and processing hold keys, the FIFO holds items.
THEOREM TypeCorrect == Spec => []TypeOK
<1>1. Init => TypeOK
  <2> SUFFICES ASSUME Init PROVE TypeOK
    OBVIOUS
  <2>1. shuttingDown \in BOOLEAN /\ drain \in BOOLEAN
    BY Zenon DEF Init
  <2>2. queue \in Seq(Items) /\ dirty \subseteq Keys /\ processing \subseteq Keys
    BY DEF Init
  <2>3. pc \in [Consumers -> {"runnable", "waiting", "exited"}]
    BY DEF Init
  <2>4. dpc \in {"idle", "waiting", "runnable", "returned"}
    BY DEF Init
  <2> QED
    BY <2>1, <2>2, <2>3, <2>4 DEF TypeOK
<1> QED
  BY <1>1, TypeStep, PTL DEF Spec
-----------------------------------------------------------------------------
\* What one item less, or one item more, does to the keys of the queue.
LEMMA TailKeys ==
  ASSUME TypeOK, QueueConsistent, queue # <<>>, queue' = Tail(queue)
  PROVE  /\ QueueKeys' = QueueKeys \ {GetUniKey(Head(queue))}
         /\ GetUniKey(Head(queue)) \in QueueKeys
         /\ \A m, n \in DOMAIN queue' :
              GetUniKey(queue'[m]) = GetUniKey(queue'[n]) => m = n
<1>1. /\ Len(queue) \in Nat \ {0}
      /\ DOMAIN queue = 1..Len(queue)
      /\ DOMAIN queue' = 1..(Len(queue) - 1)
      /\ \A n \in DOMAIN queue' : queue'[n] = queue[n + 1]
      /\ Head(queue) = queue[1]
  BY DEF TypeOK
<1>2. \A m, n \in 1..Len(queue) : queue[m].key = queue[n].key => m = n
  BY <1>1 DEF QueueConsistent, GetUniKey
<1>3. \A n \in 1..(Len(queue) - 1) : n + 1 \in 1..Len(queue) /\ n + 1 # 1
  BY <1>1
<1>4. \A n \in 1..Len(queue) : n = 1 \/ n - 1 \in 1..(Len(queue) - 1)
  BY <1>1
<1>5. \A k : k \in QueueKeys' <=> \E n \in 1..(Len(queue) - 1) : k = queue[n + 1].key
  BY <1>1 DEF QueueKeys, GetUniKey
<1>6. \A k : k \in QueueKeys <=> \E n \in 1..Len(queue) : k = queue[n].key
  BY <1>1 DEF QueueKeys, GetUniKey
<1>7. QueueKeys' = QueueKeys \ {queue[1].key}
  <2>1. ASSUME NEW k \in QueueKeys' PROVE k \in QueueKeys /\ k # queue[1].key
    <3>1. PICK n \in 1..(Len(queue) - 1) : k = queue[n + 1].key
      BY <1>5, <2>1
    <3>2. n + 1 \in 1..Len(queue) /\ n + 1 # 1 /\ 1 \in 1..Len(queue)
      BY <1>1, <1>3
    <3> QED
      BY <3>1, <3>2, <1>2, <1>6
  <2>2. ASSUME NEW k \in QueueKeys, k # queue[1].key PROVE k \in QueueKeys'
    <3>1. PICK n \in 1..Len(queue) : k = queue[n].key
      BY <1>6, <2>2
    <3>2. n - 1 \in 1..(Len(queue) - 1) /\ (n - 1) + 1 = n
      BY <3>1, <2>2, <1>4, <1>1
    <3> QED
      BY <3>1, <3>2, <1>5
  <2> QED
    BY <2>1, <2>2
<1>8. queue[1].key \in QueueKeys
  BY <1>1, <1>6
<1>9. \A m, n \in DOMAIN queue' : queue'[m].key = queue'[n].key => m = n
  BY <1>1, <1>2, <1>3
<1> QED
  BY <1>1, <1>7, <1>8, <1>9 DEF GetUniKey

LEMMA AppendKeys ==
  ASSUME TypeOK, QueueConsistent, NEW i \in Items,
         GetUniKey(i) \notin dirty, queue' = Append(queue, i)
  PROVE  /\ QueueKeys' = QueueKeys \cup {GetUniKey(i)}
         /\ \A m, n \in DOMAIN queue' :
              GetUniKey(queue'[m]) = GetUniKey(queue'[n]) => m = n
<1>1. /\ Len(queue) \in Nat
      /\ DOMAIN queue = 1..Len(queue)
      /\ DOMAIN queue' = 1..(Len(queue) + 1)
      /\ \A n \in 1..Len(queue) : queue'[n] = queue[n]
      /\ queue'[Len(queue) + 1] = i
  BY DEF TypeOK
<1>2. DOMAIN queue' = DOMAIN queue \cup {Len(queue) + 1}
  BY <1>1
<1>3. \A n \in DOMAIN queue : queue[n].key # i.key
  BY DEF QueueConsistent, QueueKeys, GetUniKey
<1> QED
  BY <1>1, <1>2, <1>3 DEF QueueConsistent, QueueKeys, GetUniKey

LEMMA ConsistentStep ==
  TypeOK /\ QueueConsistent /\ [Next]_vars => QueueConsistent'
<1> SUFFICES ASSUME TypeOK, QueueConsistent, [Next]_vars
             PROVE  QueueConsistent'
  OBVIOUS
<1>1. ASSUME NEW i \in Items, Add(i) PROVE QueueConsistent'
  <2>1. GetUniKey(i) \notin dirty /\ GetUniKey(i) \notin processing
    BY <1>1 DEF Add, Has
  <2> QED
    BY <1>1, <2>1, AppendKeys DEF Add, QueueConsistent
<1>2. ASSUME NEW c \in Consumers, Get(c) PROVE QueueConsistent'
  <2>1. CASE GetItem(c)
    BY <2>1, TailKeys DEF GetItem, QueueConsistent
  <2>2. CASE GetWait(c) \/ GetShutdown(c)
    BY <2>2 DEF GetWait, GetShutdown, QueueConsistent, QueueKeys
  <2> QED
    BY <1>2, <2>1, <2>2 DEF Get
<1>3. ASSUME NEW k \in Keys, Done(k) PROVE QueueConsistent'
  BY <1>3 DEF Done, QueueConsistent, QueueKeys
<1>4. CASE ShutDown \/ ShutDownWithDrain \/ DrainAgain \/ UNCHANGED vars
  BY <1>4 DEF ShutDown, ShutDownWithDrain, DrainAgain, vars,
              QueueConsistent, QueueKeys
<1> QED
  BY <1>1, <1>2, <1>3, <1>4 DEF Next

\* The invariant the comment on the queue field states, and its converse:
\* the dirty set is the set of queued keys, no key is queued twice and none
\* is queued while it is being processed.
THEOREM Consistent == Spec => []QueueConsistent
<1>1. Init => QueueConsistent
  BY DEF Init, QueueConsistent, QueueKeys
<1> QED
  BY <1>1, TypeCorrect, ConsistentStep, PTL DEF Spec
-----------------------------------------------------------------------------
\* With a waiter other than the drainer impossible before a shutdown, Signal
\* after a push leaves some consumer runnable.
LEMMA SignalWakes ==
  ASSUME TypeOK, Wakeups, Signal, ~shuttingDown
  PROVE  \E c \in Consumers : pc'[c] = "runnable"
<1>1. dpc # "waiting"
  BY DEF Wakeups, NoLostWakeup
<1>2. CASE WaitingConsumers = {}
  <2>1. PICK c \in Consumers : TRUE
    BY ConsumersAssumption
  <2>2. pc[c] # "waiting" /\ pc[c] # "exited"
    BY <1>2 DEF WaitingConsumers, Wakeups, ExitedLast
  <2>3. pc[c] = "runnable"
    BY <2>2 DEF TypeOK
  <2> QED
    BY <2>3, SignalType
<1>3. CASE WaitingConsumers # {}
  <2>1. PICK c \in WaitingConsumers : pc' = [pc EXCEPT ![c] = "runnable"]
    BY <1>1, <1>3 DEF Signal
  <2> QED
    BY <2>1 DEF WaitingConsumers, TypeOK
<1> QED
  BY <1>2, <1>3

LEMMA WakeupsStep == TypeOK /\ Wakeups /\ [Next]_vars => Wakeups'
<1> SUFFICES ASSUME TypeOK, Wakeups, [Next]_vars PROVE Wakeups'
  OBVIOUS
<1>1. ASSUME NEW i \in Items, Add(i) PROVE Wakeups'
  <2>1. ~shuttingDown /\ Signal /\ dpc # "waiting"
    BY <1>1 DEF Add, Wakeups, NoLostWakeup
  <2>2. \E c \in Consumers : pc'[c] = "runnable"
    BY <2>1, SignalWakes
  <2>3. dpc' = "idle"
    BY <2>1, <1>1 DEF Add, Signal, Wakeups, DrainerShuts
  <2>4. \A c \in Consumers : pc'[c] # "exited"
    BY <2>1, SignalType DEF Wakeups, ExitedLast
  <2> QED
    BY <1>1, <2>1, <2>2, <2>3, <2>4
    DEF Add, Wakeups, NoLostWakeup, ExitedLast, DrainerShuts
<1>2. ASSUME NEW c \in Consumers, Get(c) PROVE Wakeups'
  <2>1. CASE GetItem(c)
    <3>1. pc'[c] = "runnable" /\ \A d \in Consumers : pc'[d] # "exited"
      BY <2>1 DEF GetItem, TypeOK, Wakeups, ExitedLast
    <3>2. processing' # {}
      BY <2>1 DEF GetItem
    <3>3. shuttingDown' => WaitingConsumers' = {}
      BY <2>1 DEF GetItem, TypeOK, Wakeups, NoLostWakeup, WaitingConsumers
    <3> QED
      BY <2>1, <3>1, <3>2, <3>3
      DEF GetItem, Wakeups, NoLostWakeup, ExitedLast, DrainerShuts
  <2>2. CASE GetWait(c)
    BY <2>2 DEF GetWait, TypeOK, Wakeups, NoLostWakeup, ExitedLast,
                DrainerShuts, WaitingConsumers
  <2>3. CASE GetShutdown(c)
    BY <2>3 DEF GetShutdown, TypeOK, Wakeups, NoLostWakeup, ExitedLast,
                DrainerShuts, WaitingConsumers
  <2> QED
    BY <1>2, <2>1, <2>2, <2>3 DEF Get
<1>3. ASSUME NEW k \in Keys, Done(k) PROVE Wakeups'
  <2>1. UNCHANGED <<queue, shuttingDown, drain>>
    BY <1>3 DEF Done
  <2>2. CASE processing' = {} /\ Signal
    <3>1. dpc' # "waiting"
      <4>1. CASE dpc # "waiting"
        BY <4>1, <2>2, SignalType
      <4>2. CASE dpc = "waiting"
        <5>1. WaitingConsumers = {}
          BY <4>2 DEF Wakeups, NoLostWakeup
        <5> QED
          BY <5>1, <4>2, <2>2 DEF Signal
      <4> QED
        BY <4>1, <4>2
    <3>2. \A c \in Consumers : pc'[c] = pc[c] \/ pc'[c] = "runnable"
      BY <2>2, SignalType
    <3>3. dpc = "idle" => dpc' = "idle"
      BY <2>2 DEF Signal
    <3> QED
      BY <2>1, <3>1, <3>2, <3>3 DEF Wakeups, NoLostWakeup, ExitedLast,
                              DrainerShuts, WaitingConsumers
  <2>3. CASE processing' # {} /\ UNCHANGED <<pc, dpc>>
    BY <2>1, <2>3 DEF Wakeups, NoLostWakeup, ExitedLast, DrainerShuts,
              WaitingConsumers
  <2> QED
    BY <1>3, <2>2, <2>3 DEF Done
<1>4. ASSUME ShutDown \/ ShutDownWithDrain PROVE Wakeups'
  <2>1. \A c \in Consumers :
           pc'[c] = IF pc[c] = "waiting" THEN "runnable" ELSE pc[c]
    BY <1>4 DEF ShutDown, ShutDownWithDrain, WakeConsumers
  <2>2. dpc' = "waiting" => processing' # {} /\ drain'
    BY <1>4 DEF ShutDown, ShutDownWithDrain, TypeOK
  <2>3. queue' = queue /\ shuttingDown'
    BY <1>4 DEF ShutDown, ShutDownWithDrain
  <2>4. ExitedLast'
    BY <2>1, <2>3 DEF Wakeups, ExitedLast
  <2>5. NoLostWakeup'
    BY <2>1, <2>2, <2>3 DEF Wakeups, NoLostWakeup, WaitingConsumers
  <2> QED
    BY <2>3, <2>4, <2>5 DEF Wakeups, DrainerShuts
<1>5. CASE DrainAgain
  BY <1>5 DEF DrainAgain, Wakeups, NoLostWakeup, ExitedLast, DrainerShuts,
              WaitingConsumers
<1>6. CASE UNCHANGED vars
  BY <1>6 DEF vars, Wakeups, NoLostWakeup, ExitedLast, DrainerShuts,
              WaitingConsumers
<1> QED
  BY <1>1, <1>2, <1>3, <1>4, <1>5, <1>6 DEF Next

\* No wake-up of the condition variable is lost: no item waits in the queue
\* while every consumer is blocked, whatever the number of consumers, and no
\* goroutine sleeps through the shutdown or through the last Done.
THEOREM WakeupsKept == Spec => []NoLostWakeup
<1>1. Init => Wakeups
  BY DEF Init, Wakeups, NoLostWakeup, ExitedLast, DrainerShuts,
         WaitingConsumers
<1>2. Wakeups => NoLostWakeup
  BY DEF Wakeups
<1> QED
  BY <1>1, <1>2, TypeCorrect, WakeupsStep, PTL DEF Spec
-----------------------------------------------------------------------------
\* Every step of the queue is a step of the abstract queue, or leaves it as
\* it is: the dirty set refuses exactly the keys that are pending.
LEMMA RefinementStep ==
  TypeOK /\ QueueConsistent /\ [Next]_vars
    => [Abstract!QNext]_(Abstract!qvars)
<1> SUFFICES ASSUME TypeOK, QueueConsistent, [Next]_vars
             PROVE  Abstract!QNext \/ UNCHANGED Abstract!qvars
  OBVIOUS
<1>1. ASSUME NEW i \in Items, Add(i) PROVE Abstract!Offer(i)
  <2>1. dirty = Abstract!PendingKeys
    BY DEF QueueConsistent, QueueKeys, GetUniKey, Abstract!PendingKeys,
           Abstract!KeyOf
  <2> QED
    BY <1>1, <2>1 DEF Add, Has, GetUniKey, Abstract!Offer, Abstract!Accepts,
                      Abstract!Exist, Abstract!KeyOf
<1>2. ASSUME NEW c \in Consumers, Get(c)
      PROVE  Abstract!Take \/ UNCHANGED Abstract!qvars
  BY <1>2 DEF Get, GetItem, GetWait, GetShutdown, GetUniKey, Abstract!Take,
              Abstract!KeyOf, Abstract!qvars
<1>3. ASSUME NEW k \in Keys, Done(k)
      PROVE  Abstract!QNext \/ UNCHANGED Abstract!qvars
  <2>1. CASE k \in processing
    <3>1. PICK v \in Vals : TRUE
      BY ValsAssumption
    <3>2. [key |-> k, val |-> v] \in Items
      BY DEF Items
    <3>3. k \in Abstract!ItemKeys
      BY <3>2 DEF Abstract!ItemKeys, Abstract!KeyOf
    <3>4. Abstract!Finish(k)
      BY <1>3 DEF Done, Abstract!Finish
    <3> QED
      BY <3>3, <3>4 DEF Abstract!QNext
  <2>2. CASE k \notin processing
    BY <1>3, <2>2 DEF Done, Abstract!qvars
  <2> QED
    BY <2>1, <2>2
<1>4. CASE ShutDown \/ ShutDownWithDrain
  BY <1>4 DEF ShutDown, ShutDownWithDrain, Abstract!QNext, Abstract!Close
<1>5. CASE DrainAgain \/ UNCHANGED vars
  BY <1>5 DEF DrainAgain, vars, Abstract!qvars
<1> QED
  BY <1>1, <1>2, <1>3, <1>4, <1>5 DEF Next, Abstract!QNext

\* TypedQueue implements the specification the informer relies on: Add, Get,
\* Done and the two shutdowns are Offer, Take, Finish and Close.
THEOREM Refinement == Spec => ImplementsUniqueQueue
<1>1. Init => Abstract!QInit
  BY DEF Init, Abstract!QInit
<1> QED
  BY <1>1, TypeCorrect, Consistent, RefinementStep, PTL
  DEF Spec, ImplementsUniqueQueue, Abstract!QSpec
=============================================================================
