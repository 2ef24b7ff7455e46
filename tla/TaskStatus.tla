----------------------------- MODULE TaskStatus -----------------------------
(***************************************************************************)
(* The vocabulary of core/model: the statuses of a task, the changes a     *)
(* worker may apply to an executor, and the table that says which change   *)
(* takes a task from its real status to the wanted one.                    *)
(***************************************************************************)

NotExist       == "not_exist"
WaitScheduling == "wait_scheduling"
WaitRunning    == "wait_running"
Running        == "running"
WaitPaused     == "wait_paused"
Paused         == "paused"
WaitStop       == "wait_stopped"
Stop           == "stop"
Success        == "success"
Failed         == "failed"

WaitStatuses  == {WaitScheduling, WaitRunning, WaitPaused, WaitStop}
FinalStatuses == {Success, Failed, Stop}
LiveStatuses  == {Running, Paused}
Statuses == {NotExist} \cup WaitStatuses \cup FinalStatuses \cup LiveStatuses

IsFinalStatus(s) == s \in FinalStatuses

NormalChanges    == {"create", "delete", "resume", "pause", "stop"}
ExceptionChanges == {"exception_update", "exception_finish"}

\* Stands for the error GetChangeType returns for a pair outside its table.
NoChange == "unsupported"

\* The two-level map changeTypesRule as triples <<real, wanted, change>>.
changeTypesRule ==
  { <<NotExist, Running,  "create">>,
    <<NotExist, Paused,   "exception_update">>,
    <<NotExist, Stop,     "exception_finish">>,
    <<Running,  Paused,   "pause">>,
    <<Running,  Stop,     "stop">>,
    <<Running,  NotExist, "delete">>,
    <<Paused,   Running,  "resume">>,
    <<Paused,   Stop,     "stop">>,
    <<Paused,   NotExist, "delete">> }

GetChangeType(real, want) ==
  LET rules == {r \in changeTypesRule : r[1] = real /\ r[2] = want}
  IN  IF rules = {} THEN NoChange ELSE (CHOOSE r \in rules : TRUE)[3]

IsException(changeType) == changeType \in ExceptionChanges

CanTransition(status, next) == GetChangeType(status, next) # NoChange

\* The empty string of the source: the status has no waiting form.
PreWaitStatus(next) ==
  CASE IsFinalStatus(next) -> WaitStop
    [] next = Paused       -> WaitPaused
    [] next = Running      -> WaitRunning
    [] OTHER               -> ""
=============================================================================
