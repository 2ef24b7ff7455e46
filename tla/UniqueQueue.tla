----------------------------- MODULE UniqueQueue -----------------------------
(***************************************************************************)
(* What internal/queue promises to the rest of the worker, without its     *)
(* sets, its lock and its condition variable: a FIFO of items in which a   *)
(* key is pending at most once, is never pending while it is being         *)
(* processed, and is refused while it is pending or being processed.       *)
(***************************************************************************)
EXTENDS Sequences

CONSTANT Items        \* records with a field key; items may share a key

VARIABLES pending,    \* the items waiting to be handed out, oldest first
          active,     \* the keys handed out and not yet reported done
          closed      \* no item is accepted any more

qvars == <<pending, active, closed>>

KeyOf(i) == i.key

ItemKeys == {KeyOf(i) : i \in Items}

PendingKeys == {KeyOf(pending[n]) : n \in DOMAIN pending}

\* Mutant: a key being processed is not known.
ExistPending(k) == k \in PendingKeys

\* Is key k known to the queue, waiting or being processed?
Exist(k) == k \in PendingKeys \/ k \in active

QInit ==
  /\ pending = <<>>
  /\ active = {}
  /\ closed = FALSE

Accepts(i) == ~closed /\ ~Exist(KeyOf(i))

\* An item that is not accepted is dropped, and nothing changes.
Offer(i) ==
  /\ Accepts(i)
  /\ pending' = Append(pending, i)
  /\ UNCHANGED <<active, closed>>

Take ==
  /\ pending # <<>>
  /\ pending' = Tail(pending)
  /\ active' = active \cup {KeyOf(Head(pending))}
  /\ UNCHANGED closed

\* Reporting a key done that is not being processed has no effect.
Finish(k) ==
  /\ active' = active \ {k}
  /\ UNCHANGED <<pending, closed>>

Close ==
  /\ closed' = TRUE
  /\ UNCHANGED <<pending, active>>

QNext ==
  \/ \E i \in Items : Offer(i)
  \/ Take
  \/ \E k \in ItemKeys : Finish(k)
  \/ Close

QSpec == QInit /\ [][QNext]_qvars
=============================================================================
