------------------------------ MODULE ParallelFor ------------------------------
(***************************************************************************)
(* ParallelFor of tests/Parallel.h: a task per processor, each of which    *)
(* takes the next index of a shared counter and calls the body for it,     *)
(* until the counter has reached the end; the caller waits for all tasks.  *)
(*                                                                         *)
(* The tasks hold references to locals of the call (idx, fn).  futures is  *)
(* declared after idx and so destroyed before it, and the destructor of a  *)
(* future of std::async waits for its task.                                *)
(***************************************************************************)
EXTENDS Integers

VARIABLES
  begin, end,  \* the arguments
  num_cpus,    \* what hardware_concurrency returns, which may be 0
  idx,         \* idx
  main,        \* where the caller is: "launching", "getting", "leaving" or "left"
  cpu,         \* cpu
  outcome,     \* what the caller leaves with: "returned", "raised", "refused", or "none" yet
  task,        \* where each task is: "none", "fetching", "calling", "ended" or "raised"
  index        \* i of each task

vars == <<begin, end, num_cpus, idx, main, cpu, outcome, task, index>>
arguments == <<begin, end, num_cpus>>
callers == <<main, cpu, outcome>>

Tasks == 0 .. num_cpus - 1

Init ==
  /\ begin \in Int /\ end \in Int
  /\ num_cpus \in Nat
  /\ idx = begin
  /\ main = "launching" /\ cpu = 0 /\ outcome = "none"
  /\ task = [t \in Tasks |-> "none"]
  /\ index = [t \in Tasks |-> begin]

-------------------------------------------------------------------------------
(***************************************************************************)
(* The caller.                                                             *)
(***************************************************************************)
Launch ==
  /\ main = "launching" /\ cpu < num_cpus
  /\ task' = [task EXCEPT ![cpu] = "fetching"]
  /\ cpu' = cpu + 1
  /\ UNCHANGED <<arguments, idx, main, outcome, index>>

(***************************************************************************)
(* std::async raises std::system_error when no thread can be started.      *)
(***************************************************************************)
LaunchFails ==
  /\ main = "launching" /\ cpu < num_cpus
  /\ main' = "leaving" /\ outcome' = "refused"
  /\ UNCHANGED <<arguments, idx, cpu, task, index>>

AllLaunched ==
  /\ main = "launching" /\ cpu = num_cpus
  /\ main' = "getting" /\ cpu' = 0
  /\ UNCHANGED <<arguments, idx, outcome, task, index>>

Get ==
  /\ main = "getting" /\ cpu < num_cpus /\ task[cpu] = "ended"
  /\ cpu' = cpu + 1
  /\ UNCHANGED <<arguments, idx, main, outcome, task, index>>

(***************************************************************************)
(* get rethrows the exception that ended the task.                         *)
(***************************************************************************)
GetRaises ==
  /\ main = "getting" /\ cpu < num_cpus /\ task[cpu] = "raised"
  /\ main' = "leaving" /\ outcome' = "raised"
  /\ UNCHANGED <<arguments, idx, cpu, task, index>>

AllGot ==
  /\ main = "getting" /\ cpu = num_cpus
  /\ main' = "leaving" /\ outcome' = "returned"
  /\ UNCHANGED <<arguments, idx, cpu, task, index>>

Over(t) == task[t] \in {"none", "ended", "raised"}

\* seeded fault: the futures are not those of std::async, and do not wait
LeaveAtOnce ==
  /\ main = "leaving"
  /\ main' = "left"
  /\ UNCHANGED <<arguments, idx, cpu, outcome, task, index>>

(***************************************************************************)
(* The scope is left: futures is destroyed, which waits for every task.    *)
(***************************************************************************)
Leave ==
  /\ main = "leaving" /\ \A t \in Tasks : Over(t)
  /\ main' = "left"
  /\ UNCHANGED <<arguments, idx, cpu, outcome, task, index>>

Caller == Launch \/ LaunchFails \/ AllLaunched \/ Get \/ GetRaises \/ AllGot \/ Leave

-------------------------------------------------------------------------------
\* seeded fault: a plain int, whose increment another one may overwrite
FetchRacing(t) ==
  /\ task[t] = "fetching" /\ idx < end
  /\ idx' \in {idx, idx + 1}
  /\ index' = [index EXCEPT ![t] = idx]
  /\ task' = [task EXCEPT ![t] = "calling"]
  /\ UNCHANGED <<arguments, callers>>

(***************************************************************************)
(* i = idx++, one atomic step.                                             *)
(***************************************************************************)
Fetch(t) ==
  /\ task[t] = "fetching" /\ idx < end
  /\ idx' = idx + 1
  /\ index' = [index EXCEPT ![t] = idx]
  /\ task' = [task EXCEPT ![t] = "calling"]
  /\ UNCHANGED <<arguments, callers>>

\* seeded fault: only the first task to get there breaks
BreakAtEnd(t) ==
  /\ task[t] = "fetching" /\ idx = end
  /\ idx' = idx + 1
  /\ index' = [index EXCEPT ![t] = idx]
  /\ task' = [task EXCEPT ![t] = "ended"]
  /\ UNCHANGED <<arguments, callers>>

(***************************************************************************)
(* i >= end: every task increments the counter once more.                  *)
(***************************************************************************)
Break(t) ==
  /\ task[t] = "fetching" /\ idx >= end
  /\ idx' = idx + 1
  /\ index' = [index EXCEPT ![t] = idx]
  /\ task' = [task EXCEPT ![t] = "ended"]
  /\ UNCHANGED <<arguments, callers>>

(***************************************************************************)
(* fn(i) returns or raises; what it does is the caller's.                  *)
(***************************************************************************)
Returns(t) ==
  /\ task[t] = "calling"
  /\ task' = [task EXCEPT ![t] = "fetching"]
  /\ UNCHANGED <<arguments, callers, idx, index>>

Raises(t) ==
  /\ task[t] = "calling"
  /\ task' = [task EXCEPT ![t] = "raised"]
  /\ UNCHANGED <<arguments, callers, idx, index>>

Next == Caller \/ \E t \in Tasks : Fetch(t) \/ Break(t) \/ Returns(t) \/ Raises(t)

Spec == Init /\ [][Next]_vars

-------------------------------------------------------------------------------
TypeOK ==
  /\ begin \in Int /\ end \in Int /\ num_cpus \in Nat
  /\ idx \in Int /\ cpu \in 0 .. num_cpus
  /\ main \in {"launching", "getting", "leaving", "left"}
  /\ outcome \in {"none", "returned", "raised", "refused"}
  /\ task \in [Tasks -> {"none", "fetching", "calling", "ended", "raised"}]
  /\ index \in [Tasks -> Int]

(***************************************************************************)
(* Once the caller has left, with a result or an exception, no task is     *)
(* alive: it would go on with references to locals that are gone.          *)
(***************************************************************************)
NoDangling == main = "left" => \A t \in Tasks : Over(t)

(***************************************************************************)
(* ParallelFor keeps the promise of ForEach: no index is left out, none is *)
(* called twice, an exception of a body is not swallowed unless a thread   *)
(* could not be started.                                                   *)
(***************************************************************************)
InCall(i) == {t \in Tasks : index[t] = i /\ task[t] \in {"calling", "raised"}}
CallState(i) ==
  IF i >= idx THEN "due"
  ELSE IF \E t \in InCall(i) : task[t] = "calling" THEN "running"
  ELSE IF InCall(i) # {} THEN "raised"
  ELSE "done"
Each == INSTANCE ForEach WITH
          any_thread <- num_cpus > 0,
          indices <- begin .. end - 1,
          call <- [i \in begin .. end - 1 |-> CallState(i)],
          outcome <- IF main = "left" THEN outcome ELSE "running"
Promised == Each!Spec
=============================================================================
