--------------------------- MODULE WorkerSelection ---------------------------
(***************************************************************************)
(* How the scheduler chooses among workers: what core/model/resource.go    *)
(* puts into the metadata of an instance and what filterWorker,            *)
(* priorityWorker and updateLocalResourceEstimate make of it.              *)
(*                                                                         *)
(* A usage has the processor and memory usage in hundredths of a percent   *)
(* (the metadata keeps two decimals), the number of goroutines, and the    *)
(* number and total pause of garbage collections.  A stain stands for its  *)
(* key and value, and a task tolerates a set of stains.                    *)
(***************************************************************************)
EXTENDS Integers, FiniteSets

AllStains == {"pressure_mem", "pressure_cpu", "disable"}

UsageType == [cpu : Nat, mem : Nat, goroutines : Nat, gcCount : Nat, gcPause : Nat]

\* Metadata without usage: every value parses as zero.
NoUsage == [cpu |-> 0, mem |-> 0, goroutines |-> 0, gcCount |-> 0, gcPause |-> 0]

\* 85 percent of the memory makes both stains of pressure.
GenerateStain(usage, disable) ==
  (IF usage.mem > 8500 THEN {"pressure_mem", "pressure_cpu"} ELSE {})
    \cup (IF disable THEN {"disable"} ELSE {})

\* May a task run on a worker with these stains?
tolerates(tolerated, stains) ==
  \/ stains = {}
  \/ /\ Cardinality(stains) <= Cardinality(tolerated)
     /\ \A s \in stains : s \in tolerated

filterWorker(tolerated, list) ==
  {id \in DOMAIN list : tolerates(tolerated, list[id].stains)}

\* The score of the source times 200; the mean pause is rounded down.
score(u) ==
  u.cpu + u.mem + IF u.gcCount = 0
                    THEN 200 * u.goroutines
                    ELSE 2 * u.goroutines + (20 * u.gcPause) \div u.gcCount

\* The workers that may come first: the order of equals is the registry's.
priorityWorker(ids, list) ==
  {i \in ids : \A j \in ids : score(list[i].usage) <= score(list[j].usage)}

\* What one more task is taken to cost, until the worker reports again.
estimate(u) ==
  [u EXCEPT !.cpu = @ + 5, !.mem = @ + 5, !.goroutines = @ + 1]
=============================================================================
