----------------------------- MODULE TypedQueue -----------------------------
(***************************************************************************)
(* internal/queue: the de-duplicating work queue behind the informer.      *)
(*                                                                         *)
(* Every method runs under the lock of one condition variable, so each is  *)
(* one action, cut only where cond.Wait gives the lock up.  A goroutine    *)
(* in cond.Wait is "waiting"; Signal makes one waiter runnable, Broadcast  *)
(* all of them, and a runnable goroutine evaluates its loop condition      *)
(* again.  A consumer is a goroutine that calls Get in a loop (the         *)
(* worker's runChangeSyncer); Done is called by other goroutines too (the  *)
(* indexer, for every status an executor reports), hence for any key, one  *)
(* that is not being processed included.  One goroutine calls              *)
(* ShutDownWithDrain (Infomer.Shutdown).                                   *)
(***************************************************************************)
EXTENDS Naturals, Sequences, FiniteSets

CONSTANTS Keys,       \* what GetUniKey returns
          Vals,       \* the rest of an item
          Consumers   \* the goroutines that call Get

ASSUME ConsumersAssumption == Consumers # {}
ASSUME ValsAssumption == Vals # {}

VARIABLES queue,         \* items to hand out, oldest first
          dirty,         \* keys that need processing
          processing,    \* keys handed out and not done
          shuttingDown, drain,
          pc,            \* per consumer: runnable, waiting or exited
          dpc            \* the goroutine in ShutDownWithDrain

vars == <<queue, dirty, processing, shuttingDown, drain, pc, dpc>>

Items == [key : Keys, val : Vals]

GetUniKey(i) == i.key

Init ==
  /\ queue = <<>>
  /\ dirty = {}
  /\ processing = {}
  /\ shuttingDown = FALSE
  /\ drain = FALSE
  /\ pc = [c \in Consumers |-> "runnable"]
  /\ dpc = "idle"
-----------------------------------------------------------------------------
WaitingConsumers == {c \in Consumers : pc[c] = "waiting"}

\* cond.Signal: one waiter, a consumer or the drainer, becomes runnable.
Signal ==
  \/ /\ WaitingConsumers = {}
     /\ dpc # "waiting"
     /\ UNCHANGED <<pc, dpc>>
  \/ /\ \E c \in WaitingConsumers : pc' = [pc EXCEPT ![c] = "runnable"]
     /\ UNCHANGED dpc
  \/ /\ dpc = "waiting"
     /\ dpc' = "runnable"
     /\ UNCHANGED pc

\* cond.Broadcast, as far as it concerns the consumers.
WakeConsumers ==
  pc' = [c \in Consumers |-> IF pc[c] = "waiting" THEN "runnable" ELSE pc[c]]

Has(i) == GetUniKey(i) \in dirty \/ GetUniKey(i) \in processing

\* Mutant: the new item is pushed without waking a consumer.
AddSilently(i) ==
  /\ ~shuttingDown /\ ~Has(i)
  /\ dirty' = dirty \cup {GetUniKey(i)}
  /\ queue' = Append(queue, i)
  /\ UNCHANGED <<processing, shuttingDown, drain, pc, dpc>>

\* Mutant: an item being processed is accepted again.
AddWhileProcessing(i) ==
  /\ ~shuttingDown /\ GetUniKey(i) \notin dirty
  /\ dirty' = dirty \cup {GetUniKey(i)}
  /\ queue' = Append(queue, i)
  /\ Signal
  /\ UNCHANGED <<processing, shuttingDown, drain>>

\* Mutant: items are still accepted after the shutdown has begun.
AddAfterShutDown(i) ==
  /\ ~Has(i)
  /\ dirty' = dirty \cup {GetUniKey(i)}
  /\ queue' = Append(queue, i)
  /\ Signal
  /\ UNCHANGED <<processing, shuttingDown, drain>>

\* Add.  An item whose key is dirty or being processed is dropped (Touch of
\* the default queue does nothing), as is every item after a shutdown.
Add(i) ==
  /\ ~shuttingDown /\ ~Has(i)
  /\ dirty' = dirty \cup {GetUniKey(i)}
  /\ queue' = Append(queue, i)
  /\ Signal
  /\ UNCHANGED <<processing, shuttingDown, drain>>

\* Mutant: the key handed out stays dirty.
GetItemStillDirty(c) ==
  /\ queue # <<>>
  /\ queue' = Tail(queue)
  /\ processing' = processing \cup {GetUniKey(Head(queue))}
  /\ pc' = [pc EXCEPT ![c] = "runnable"]
  /\ UNCHANGED <<dirty, shuttingDown, drain, dpc>>

\* Mutant: the set of keys being processed gets the item, not its key.
GetItemUnkeyed(c) ==
  /\ queue # <<>>
  /\ queue' = Tail(queue)
  /\ processing' = processing \cup {Head(queue)}
  /\ dirty' = dirty \ {GetUniKey(Head(queue))}
  /\ pc' = [pc EXCEPT ![c] = "runnable"]
  /\ UNCHANGED <<shuttingDown, drain, dpc>>

\* Get, when an item is there.
GetItem(c) ==
  /\ queue # <<>>
  /\ queue' = Tail(queue)
  /\ processing' = processing \cup {GetUniKey(Head(queue))}
  /\ dirty' = dirty \ {GetUniKey(Head(queue))}
  /\ pc' = [pc EXCEPT ![c] = "runnable"]
  /\ UNCHANGED <<shuttingDown, drain, dpc>>

\* Get, when it has to block in cond.Wait.
GetWait(c) ==
  /\ queue = <<>> /\ ~shuttingDown
  /\ pc' = [pc EXCEPT ![c] = "waiting"]
  /\ UNCHANGED <<queue, dirty, processing, shuttingDown, drain, dpc>>

\* Get, when it returns shutdown = true: the consumer leaves its loop.
GetShutdown(c) ==
  /\ queue = <<>> /\ shuttingDown
  /\ pc' = [pc EXCEPT ![c] = "exited"]
  /\ UNCHANGED <<queue, dirty, processing, shuttingDown, drain, dpc>>

Get(c) ==
  /\ pc[c] = "runnable"
  /\ GetItem(c) \/ GetWait(c) \/ GetShutdown(c)

\* Mutant: the last Done does not wake the goroutine draining the queue.
DoneSilently(k) ==
  /\ processing' = processing \ {k}
  /\ UNCHANGED <<queue, dirty, shuttingDown, drain, pc, dpc>>

Done(k) ==
  /\ processing' = processing \ {k}
  /\ IF processing' = {} THEN Signal ELSE UNCHANGED <<pc, dpc>>
  /\ UNCHANGED <<queue, dirty, shuttingDown, drain>>

\* Mutant: the waiting consumers are not told about the shutdown.
ShutDownQuietly ==
  /\ drain' = FALSE
  /\ shuttingDown' = TRUE
  /\ dpc' = IF dpc = "waiting" THEN "runnable" ELSE dpc
  /\ UNCHANGED <<queue, dirty, processing, pc>>

ShutDown ==
  /\ drain' = FALSE
  /\ shuttingDown' = TRUE
  /\ WakeConsumers
  /\ dpc' = IF dpc = "waiting" THEN "runnable" ELSE dpc
  /\ UNCHANGED <<queue, dirty, processing>>

\* ShutDownWithDrain up to its first cond.Wait or its return.
ShutDownWithDrain ==
  /\ dpc = "idle"
  /\ drain' = TRUE
  /\ shuttingDown' = TRUE
  /\ WakeConsumers
  /\ dpc' = IF processing # {} THEN "waiting" ELSE "returned"
  /\ UNCHANGED <<queue, dirty, processing>>

\* Its loop condition, evaluated again after a wake-up.
DrainAgain ==
  /\ dpc = "runnable"
  /\ dpc' = IF processing # {} /\ drain THEN "waiting" ELSE "returned"
  /\ UNCHANGED <<queue, dirty, processing, shuttingDown, drain, pc>>

Next ==
  \/ \E i \in Items : Add(i)
  \/ \E c \in Consumers : Get(c)
  \/ \E k \in Keys : Done(k)
  \/ ShutDown
  \/ ShutDownWithDrain
  \/ DrainAgain

Spec == Init /\ [][Next]_vars

\* A goroutine that can run does run; the change of every key handed out is
\* reported done (the requirement ShutDownWithDrain states for its callers).
Fairness ==
  /\ \A c \in Consumers : WF_vars(Get(c))
  /\ WF_vars(DrainAgain)
  /\ \A k \in Keys : WF_vars(k \in processing /\ Done(k))

FairSpec == Spec /\ Fairness
-----------------------------------------------------------------------------
QueueKeys == {GetUniKey(queue[n]) : n \in DOMAIN queue}

TypeOK ==
  /\ queue \in Seq(Items)
  /\ dirty \subseteq Keys
  /\ processing \subseteq Keys
  /\ shuttingDown \in BOOLEAN
  /\ drain \in BOOLEAN
  /\ pc \in [Consumers -> {"runnable", "waiting", "exited"}]
  /\ dpc \in {"idle", "waiting", "runnable", "returned"}

\* The comment on the queue field: "Every element of queue should be in the
\* dirty set and not in the processing set".  With the converse - a dirty key
\* is in the queue - no key can stay dirty for ever and be refused by every
\* later Add, and with the third part no key is queued twice.
QueueConsistent ==
  /\ dirty = QueueKeys
  /\ dirty \cap processing = {}
  /\ \A m, n \in DOMAIN queue :
        GetUniKey(queue[m]) = GetUniKey(queue[n]) => m = n

\* No wake-up is lost: while an item is queued some consumer is not blocked,
\* after a shutdown none is, and the goroutine in ShutDownWithDrain is blocked
\* only while something is still being processed and it must still drain.
NoLostWakeup ==
  /\ queue # <<>> => \E c \in Consumers : pc[c] = "runnable"
  /\ shuttingDown => WaitingConsumers = {}
  /\ dpc = "waiting" => processing # {} /\ drain /\ shuttingDown

\* Every key marked dirty is handed out to a consumer, even when the queue is
\* shut down meanwhile: Get returns queued items before it reports shutdown.
EveryItemTaken == \A k \in Keys : k \in dirty ~> k \in processing

\* After a shutdown every consumer's Get returns shutdown = true.
ConsumersExit == shuttingDown ~> \A c \in Consumers : pc[c] = "exited"

\* ShutDownWithDrain returns when every change handed out is reported done,
\* or when ShutDown forces it to.
DrainReturns == dpc = "waiting" ~> dpc = "returned"

\* The queue implements its abstract specification: the dirty set, the lock
\* and the condition variable are how it is done.
Abstract == INSTANCE UniqueQueue
              WITH pending <- queue, active <- processing,
                   closed <- shuttingDown
ImplementsUniqueQueue == Abstract!QSpec
=============================================================================
