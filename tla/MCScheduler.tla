---------------------------- MODULE MCScheduler ----------------------------
(***************************************************************************)
(* Scheduler on small instances: usages of an idle, a busy and a full      *)
(* machine, and tasks with and without tolerations.                        *)
(***************************************************************************)
EXTENDS Scheduler, TLC

CONSTANTS t1, t2, w1, w2, n1, n2

Calm == [cpu |-> 1000, mem |-> 2000, goroutines |-> 10, gcCount |-> 2, gcPause |-> 100]
Full == [Calm EXCEPT !.mem = 9000]

NoneTolerated == [t \in Tasks |-> {}]
OneUsage == {Calm}
TwoUsages == {Calm, Full}
=============================================================================
