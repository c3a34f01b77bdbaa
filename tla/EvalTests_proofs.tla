--------------------------- MODULE EvalTests_proofs ---------------------------
(***************************************************************************)
(* For every number of processors and every range of indices: no task      *)
(* outlives the call of ParallelFor, and ParallelFor implements ForEach.   *)
(* The exhaustive tests make only the steps that ParallelFor allows, so    *)
(* that all this holds in them: for every deck, every number of processors *)
(* and whichever hands differ.  And their verdict is right.                *)
(***************************************************************************)
EXTENDS EvalTests, FiniteSetTheorems, FunctionTheorems, TLAPS

(***************************************************************************)
(* ParallelFor.  What makes it work, and is not in the promise: two tasks  *)
(* that are in the body never have the same index (OneTaskEach), and a     *)
(* task ends only when all indices are taken (EndedLast).                  *)
(***************************************************************************)
Inside(t) == task[t] \in {"calling", "raised"}

(***************************************************************************)
(* The index of a task in the body is one of the range already taken, and  *)
(* no other task has it.                                                   *)
(***************************************************************************)
IndexTaken ==
  \A t \in Parallel!Tasks : Inside(t) => index[t] \in begin .. end - 1 /\ index[t] < idx
OneTaskEach ==
  \A t, u \in Parallel!Tasks : Inside(t) /\ Inside(u) /\ t # u => index[t] # index[u]

EndedLast == \A t \in Parallel!Tasks : task[t] = "ended" => idx >= end
NotLaunched == main = "launching" => \A t \in Parallel!Tasks : t >= cpu => task[t] = "none"
GotEnded == main = "getting" => \A t \in Parallel!Tasks : t < cpu => task[t] = "ended"

(***************************************************************************)
(* The outcome is decided when the scope is left, and says what became of  *)
(* the tasks.                                                              *)
(***************************************************************************)
OutcomeRight ==
  /\ outcome = "none" <=> main \in {"launching", "getting"}
  /\ outcome = "returned" => \A t \in Parallel!Tasks : task[t] = "ended"
  /\ outcome = "raised" => \E t \in Parallel!Tasks : task[t] = "raised"

ParallelInv == /\ Parallel!TypeOK /\ idx >= begin
        /\ IndexTaken /\ OneTaskEach /\ EndedLast
        /\ NotLaunched /\ GotEnded /\ OutcomeRight /\ Parallel!NoDangling

States == {"none", "fetching", "calling", "ended", "raised"}

-------------------------------------------------------------------------------
LEMMA InitParallelInv == Parallel!Init => ParallelInv
BY DEF Parallel!Init, ParallelInv, Parallel!TypeOK, IndexTaken, OneTaskEach, EndedLast,
    NotLaunched,
   GotEnded, OutcomeRight, Parallel!NoDangling, Inside, Parallel!Tasks

(***************************************************************************)
(* The steps of the caller: at most one task changes, from not launched to *)
(* fetching, and neither the counter nor an index does.                    *)
(***************************************************************************)
LEMMA CallerKeepsTasks ==
  ASSUME ParallelInv, Parallel!Caller
  PROVE  /\ UNCHANGED <<Parallel!arguments, idx, index>>
         /\ task' \in [Parallel!Tasks -> States]
         /\ \A t \in Parallel!Tasks : task'[t] # task[t] => task[t] = "none" /\ task'[t] = "fetching"
<1> USE DEF Parallel!arguments
<1>1. CASE Parallel!Launch
  <2>1. cpu \in Parallel!Tasks /\ task[cpu] = "none"
    BY <1>1 DEF Parallel!Launch, ParallelInv, Parallel!TypeOK, NotLaunched, Parallel!Tasks
  <2> QED BY <1>1, <2>1 DEF Parallel!Launch, ParallelInv, Parallel!TypeOK, States
<1>2. CASE Parallel!LaunchFails BY <1>2 DEF Parallel!LaunchFails, ParallelInv,
    Parallel!TypeOK, States
<1>3. CASE Parallel!AllLaunched BY <1>3 DEF Parallel!AllLaunched, ParallelInv,
    Parallel!TypeOK, States
<1>4. CASE Parallel!Get BY <1>4 DEF Parallel!Get, ParallelInv, Parallel!TypeOK, States
<1>5. CASE Parallel!GetRaises BY <1>5 DEF Parallel!GetRaises, ParallelInv,
    Parallel!TypeOK, States
<1>6. CASE Parallel!AllGot BY <1>6 DEF Parallel!AllGot, ParallelInv, Parallel!TypeOK,
    States
<1>7. CASE Parallel!Leave BY <1>7 DEF Parallel!Leave, ParallelInv, Parallel!TypeOK, States
<1> QED BY <1>1, <1>2, <1>3, <1>4, <1>5, <1>6, <1>7 DEF Parallel!Caller

LEMMA CallerInvariant ==
  ASSUME ParallelInv, Parallel!Caller
  PROVE  ParallelInv'
<1> USE DEF Parallel!arguments
<1>0. UNCHANGED <<begin, end, num_cpus, idx, index>>
      /\ Parallel!Tasks' = Parallel!Tasks
  BY CallerKeepsTasks DEF Parallel!Tasks
<1>1. task' \in [Parallel!Tasks -> States]
  BY CallerKeepsTasks
<1>2. \A t \in Parallel!Tasks : task'[t] # task[t] => task[t] = "none" /\ task'[t] = "fetching"
  BY CallerKeepsTasks
<1>3. idx' >= begin' /\ (IndexTaken /\ OneTaskEach /\ EndedLast)'
  BY <1>0, <1>1, <1>2 DEF ParallelInv, IndexTaken, OneTaskEach, EndedLast, Inside
<1>4. Parallel!TypeOK'
  <2>1. num_cpus \in Nat /\ cpu \in 0 .. num_cpus BY DEF ParallelInv, Parallel!TypeOK
  <2>2. cpu' \in 0 .. num_cpus
    BY <2>1 DEF Parallel!Caller, Parallel!Launch, Parallel!LaunchFails,
        Parallel!AllLaunched, Parallel!Get, Parallel!GetRaises, Parallel!AllGot, Parallel!Leave
  <2>3. main' \in {"launching", "getting", "leaving", "left"}
    BY DEF ParallelInv, Parallel!TypeOK, Parallel!Caller, Parallel!Launch,
        Parallel!LaunchFails, Parallel!AllLaunched, Parallel!Get, Parallel!GetRaises, Parallel!AllGot, Parallel!Leave
  <2>4. outcome' \in {"none", "returned", "raised", "refused"}
    BY DEF ParallelInv, Parallel!TypeOK, Parallel!Caller, Parallel!Launch,
        Parallel!LaunchFails, Parallel!AllLaunched, Parallel!Get, Parallel!GetRaises, Parallel!AllGot, Parallel!Leave
  <2> QED BY <1>0, <1>1, <2>2, <2>3, <2>4 DEF ParallelInv, Parallel!TypeOK, States
<1>5. NotLaunched'
  BY <1>0 DEF ParallelInv, Parallel!TypeOK, NotLaunched, Parallel!Tasks, Parallel!Caller,
      Parallel!Launch, Parallel!LaunchFails, Parallel!AllLaunched,
     Parallel!Get, Parallel!GetRaises, Parallel!AllGot, Parallel!Leave
<1>6. GotEnded'
  BY <1>0 DEF ParallelInv, Parallel!TypeOK, GotEnded, Parallel!Tasks, Parallel!Caller,
      Parallel!Launch, Parallel!LaunchFails, Parallel!AllLaunched,
     Parallel!Get, Parallel!GetRaises, Parallel!AllGot, Parallel!Leave
<1>7. OutcomeRight'
  <2>1. CASE Parallel!AllGot
    BY <2>1, <1>0 DEF Parallel!AllGot, ParallelInv, Parallel!TypeOK, GotEnded,
        OutcomeRight, Parallel!Tasks
  <2>2. CASE Parallel!GetRaises
    BY <2>2, <1>0 DEF Parallel!GetRaises, ParallelInv, Parallel!TypeOK, OutcomeRight,
        Parallel!Tasks
  <2>3. CASE Parallel!Launch
    BY <2>3 DEF Parallel!Launch, ParallelInv, Parallel!TypeOK, OutcomeRight
  <2>4. CASE Parallel!LaunchFails \/ Parallel!AllLaunched \/ Parallel!Get \/ Parallel!Leave
    BY <2>4, <1>0 DEF Parallel!LaunchFails, Parallel!AllLaunched, Parallel!Get,
        Parallel!Leave, ParallelInv, Parallel!TypeOK, OutcomeRight
  <2> QED BY <2>1, <2>2, <2>3, <2>4 DEF Parallel!Caller
<1>8. Parallel!NoDangling'
  BY <1>0 DEF ParallelInv, Parallel!NoDangling, Parallel!Over, Parallel!Caller,
      Parallel!Launch, Parallel!LaunchFails, Parallel!AllLaunched, Parallel!Get, Parallel!GetRaises,
     Parallel!AllGot, Parallel!Leave
<1> QED BY <1>3, <1>4, <1>5, <1>6, <1>7, <1>8 DEF ParallelInv

(***************************************************************************)
(* The steps of a task, one lemma each.                                    *)
(***************************************************************************)
LEMMA FetchInvariant ==
  ASSUME ParallelInv, NEW t \in Parallel!Tasks, Parallel!Fetch(t)
  PROVE  ParallelInv'
<1> USE DEF Parallel!arguments, Parallel!callers
<1>0. UNCHANGED <<begin, end, num_cpus, main, cpu, outcome>> /\ Parallel!Tasks' = Parallel!Tasks
  BY DEF Parallel!Fetch, Parallel!Tasks
<1>1. /\ task[t] = "fetching" /\ idx < end /\ idx' = idx + 1
      /\ idx \in Int /\ begin \in Int /\ end \in Int /\ idx >= begin
  BY DEF Parallel!Fetch, ParallelInv, Parallel!TypeOK
<1>2. /\ task' \in [Parallel!Tasks -> States] /\ task'[t] = "calling"
      /\ \A u \in Parallel!Tasks \ {t} : task'[u] = task[u]
  BY DEF Parallel!Fetch, ParallelInv, Parallel!TypeOK, States
<1>3. /\ index' \in [Parallel!Tasks -> Int] /\ index'[t] = idx
      /\ \A u \in Parallel!Tasks \ {t} : index'[u] = index[u]
  BY DEF Parallel!Fetch, ParallelInv, Parallel!TypeOK
<1>4. Parallel!TypeOK'
  BY <1>0, <1>1, <1>2, <1>3 DEF ParallelInv, Parallel!TypeOK, States
<1>5. (IndexTaken /\ OneTaskEach)'
  BY <1>0, <1>1, <1>2, <1>3 DEF ParallelInv, IndexTaken, OneTaskEach, Inside,
      Parallel!TypeOK
<1>6. (EndedLast /\ NotLaunched /\ GotEnded /\ OutcomeRight /\ Parallel!NoDangling)'
  BY <1>0, <1>1, <1>2 DEF ParallelInv, EndedLast, NotLaunched, GotEnded, OutcomeRight,
      Parallel!NoDangling, Parallel!Over
<1> QED BY <1>0, <1>1, <1>4, <1>5, <1>6 DEF ParallelInv

LEMMA BreakInvariant ==
  ASSUME ParallelInv, NEW t \in Parallel!Tasks, Parallel!Break(t)
  PROVE  ParallelInv'
<1> USE DEF Parallel!arguments, Parallel!callers
<1>0. UNCHANGED <<begin, end, num_cpus, main, cpu, outcome>> /\ Parallel!Tasks' = Parallel!Tasks
  BY DEF Parallel!Break, Parallel!Tasks
<1>1. /\ task[t] = "fetching" /\ idx >= end /\ idx' = idx + 1
      /\ idx \in Int /\ begin \in Int /\ end \in Int /\ idx >= begin
  BY DEF Parallel!Break, ParallelInv, Parallel!TypeOK
<1>2. /\ task' \in [Parallel!Tasks -> States] /\ task'[t] = "ended"
      /\ \A u \in Parallel!Tasks \ {t} : task'[u] = task[u]
  BY DEF Parallel!Break, ParallelInv, Parallel!TypeOK, States
<1>3. index' \in [Parallel!Tasks -> Int] /\ \A u \in Parallel!Tasks \ {t} : index'[u] = index[u]
  BY DEF Parallel!Break, ParallelInv, Parallel!TypeOK
<1>4. Parallel!TypeOK'
  BY <1>0, <1>1, <1>2, <1>3 DEF ParallelInv, Parallel!TypeOK, States
<1>5. (IndexTaken /\ OneTaskEach)'
  BY <1>0, <1>1, <1>2, <1>3 DEF ParallelInv, IndexTaken, OneTaskEach, Inside,
      Parallel!TypeOK
<1>6. (EndedLast /\ NotLaunched /\ GotEnded /\ OutcomeRight /\ Parallel!NoDangling)'
  BY <1>0, <1>1, <1>2 DEF ParallelInv, EndedLast, NotLaunched, GotEnded, OutcomeRight,
      Parallel!NoDangling, Parallel!Over
<1> QED BY <1>0, <1>1, <1>4, <1>5, <1>6 DEF ParallelInv

LEMMA BodyInvariant ==
  ASSUME ParallelInv, NEW t \in Parallel!Tasks, Parallel!Returns(t) \/ Parallel!Raises(t)
  PROVE  ParallelInv'
<1> USE DEF Parallel!arguments, Parallel!callers
<1>0. UNCHANGED <<begin, end, num_cpus, main, cpu, outcome, idx, index>>
      /\ Parallel!Tasks' = Parallel!Tasks
  BY DEF Parallel!Returns, Parallel!Raises, Parallel!Tasks
<1>1. /\ task[t] = "calling" /\ task' \in [Parallel!Tasks -> States]
      /\ task'[t] \in {"fetching", "raised"}
      /\ \A u \in Parallel!Tasks \ {t} : task'[u] = task[u]
  BY DEF Parallel!Returns, Parallel!Raises, ParallelInv, Parallel!TypeOK, States
<1>2. Parallel!TypeOK'
  BY <1>0, <1>1 DEF ParallelInv, Parallel!TypeOK, States
<1>3. (IndexTaken /\ OneTaskEach)'
  BY <1>0, <1>1 DEF ParallelInv, IndexTaken, OneTaskEach, Inside
<1>4. (EndedLast /\ NotLaunched /\ GotEnded /\ OutcomeRight /\ Parallel!NoDangling)'
  BY <1>0, <1>1 DEF ParallelInv, EndedLast, NotLaunched, GotEnded, OutcomeRight,
      Parallel!NoDangling, Parallel!Over
<1> QED BY <1>0, <1>2, <1>3, <1>4 DEF ParallelInv

LEMMA StepParallelInv == ParallelInv /\ [Parallel!Next]_(Parallel!vars) => ParallelInv'
<1> SUFFICES ASSUME ParallelInv, [Parallel!Next]_(Parallel!vars) PROVE ParallelInv'
  OBVIOUS
<1>1. CASE Parallel!Caller BY <1>1, CallerInvariant
<1>2. CASE \E t \in Parallel!Tasks : \/ Parallel!Fetch(t) \/ Parallel!Break(t)
                                    \/ Parallel!Returns(t) \/ Parallel!Raises(t)
  BY <1>2, FetchInvariant, BreakInvariant, BodyInvariant
<1>3. CASE UNCHANGED Parallel!vars
  BY <1>3 DEF Parallel!vars, Parallel!arguments, Parallel!callers, ParallelInv,
      Parallel!TypeOK, IndexTaken, OneTaskEach, EndedLast,
     NotLaunched, GotEnded, OutcomeRight, Parallel!NoDangling, Inside, Parallel!Over, Parallel!Tasks
<1> QED BY <1>1, <1>2, <1>3 DEF Parallel!Next

LEMMA ParallelInvariance == Parallel!Spec => []ParallelInv
BY InitParallelInv, StepParallelInv, PTL DEF Parallel!Spec

(***************************************************************************)
(* Type correctness.                                                       *)
(***************************************************************************)
THEOREM TypeCorrect == Parallel!Spec => []Parallel!TypeOK
<1>1. ParallelInv => Parallel!TypeOK BY DEF ParallelInv
<1> QED BY <1>1, ParallelInvariance, PTL

(***************************************************************************)
(* No task outlives the call, whose locals it refers to, however the call  *)
(* is left.                                                                *)
(***************************************************************************)
THEOREM NoTaskOutlivesTheCall == Parallel!Spec => []Parallel!NoDangling
<1>1. ParallelInv => Parallel!NoDangling BY DEF ParallelInv
<1> QED BY <1>1, ParallelInvariance, PTL

(***************************************************************************)
(* The atomic counter gives no index to two tasks that are in the body at  *)
(* one time.                                                               *)
(***************************************************************************)
THEOREM NoIndexTwice == Parallel!Spec => []OneTaskEach
<1>1. ParallelInv => OneTaskEach BY DEF ParallelInv
<1> QED BY <1>1, ParallelInvariance, PTL

-------------------------------------------------------------------------------
(***************************************************************************)
(* ParallelFor implements ForEach.                                         *)
(***************************************************************************)
Indexes == begin .. end - 1
Calls == [i \in Indexes |-> Parallel!CallState(i)]
How == IF main = "left" THEN outcome ELSE "running"

LEMMA InitPromised == Parallel!Init => Parallel!Each!Init
<1> SUFFICES ASSUME Parallel!Init PROVE Parallel!Each!Init
  OBVIOUS
<1>1. \A i \in Indexes : Parallel!CallState(i) = "due"
  BY DEF Parallel!Init, Parallel!CallState, Indexes
<1> QED BY <1>1 DEF Parallel!Init, Parallel!Each!Init, Indexes

(***************************************************************************)
(* A step that keeps the counter and the calls under way is no step of     *)
(* ForEach, unless the call is left.                                       *)
(***************************************************************************)
LEMMA SameCallStates ==
  ASSUME UNCHANGED <<begin, end, num_cpus, idx>>,
         \A i \in Indexes : Parallel!InCall(i)' = Parallel!InCall(i),
         \A i \in Indexes : \A t \in Parallel!InCall(i) : task'[t] = task[t]
  PROVE  Calls' = Calls /\ Indexes' = Indexes
<1>1. Indexes' = Indexes BY DEF Indexes
<1>2. \A i \in Indexes : Parallel!CallState(i)' = Parallel!CallState(i)
  BY DEF Parallel!CallState
<1> QED BY <1>1, <1>2 DEF Calls

LEMMA CallerStutters ==
  ASSUME ParallelInv, Parallel!Caller
  PROVE  UNCHANGED <<begin, end, num_cpus>> /\ Calls' = Calls
<1>1. UNCHANGED <<begin, end, num_cpus, idx, index>>
      /\ Parallel!Tasks' = Parallel!Tasks
  BY CallerKeepsTasks DEF Parallel!arguments, Parallel!Tasks
<1>2. \A t \in Parallel!Tasks : task'[t] # task[t] => task[t] = "none" /\ task'[t] = "fetching"
  BY CallerKeepsTasks
<1>3. \A i \in Indexes : Parallel!InCall(i)' = Parallel!InCall(i)
  BY <1>1, <1>2 DEF Parallel!InCall
<1>4. \A i \in Indexes : \A t \in Parallel!InCall(i) : task'[t] = task[t]
  BY <1>2 DEF Parallel!InCall
<1> QED BY <1>1, <1>3, <1>4, SameCallStates

(***************************************************************************)
(* The call is left: the outcome is one that ForEach allows.               *)
(***************************************************************************)
LEMMA LeavePromised ==
  ASSUME ParallelInv, Parallel!Leave
  PROVE  Parallel!Each!Next
<1>1. UNCHANGED <<begin, end, num_cpus>> /\ Calls' = Calls
  BY CallerStutters DEF Parallel!Caller
<1>2. /\ main = "leaving" /\ main' = "left" /\ outcome' = outcome
      /\ \A t \in Parallel!Tasks : task[t] \in {"none", "ended", "raised"}
  BY DEF Parallel!Leave, Parallel!Over
<1>3. \A i \in Indexes : Parallel!CallState(i) # "running"
  BY <1>2 DEF Parallel!CallState, Parallel!InCall
<1>4. Parallel!Each!Ends(outcome)
  BY <1>1, <1>2, <1>3 DEF Parallel!Each!Ends, Calls, Indexes
<1>5. outcome \in {"returned", "raised", "refused"}
  BY <1>2 DEF ParallelInv, Parallel!TypeOK, OutcomeRight
<1>6. CASE outcome = "returned"
  <2>1. \A t \in Parallel!Tasks : task[t] = "ended"
    BY <1>6 DEF ParallelInv, OutcomeRight
  <2>2. ASSUME num_cpus > 0, NEW i \in Indexes
        PROVE  Parallel!CallState(i) = "done"
    <3>1. 0 \in Parallel!Tasks BY <2>2 DEF Parallel!Tasks, ParallelInv, Parallel!TypeOK
    <3>2. idx >= end BY <2>1, <3>1 DEF ParallelInv, EndedLast
    <3>3. ~(i >= idx) BY <3>2 DEF Indexes, ParallelInv, Parallel!TypeOK
    <3>4. Parallel!InCall(i) = {} BY <2>1 DEF Parallel!InCall
    <3> QED BY <3>3, <3>4 DEF Parallel!CallState
  <2> QED BY <1>4, <1>6, <2>2 DEF Parallel!Each!Next, Parallel!Each!Return, Indexes
<1>7. CASE outcome = "raised"
  <2>1. PICK t \in Parallel!Tasks : task[t] = "raised"
    BY <1>7 DEF ParallelInv, OutcomeRight
  <2>2. index[t] \in Indexes /\ index[t] < idx /\ t \in Parallel!InCall(index[t])
    BY <2>1 DEF ParallelInv, IndexTaken, Inside, Indexes, Parallel!InCall
  <2>3. index[t] \in Int /\ idx \in Int
    BY DEF ParallelInv, Parallel!TypeOK
  <2>4. ~(index[t] >= idx) /\ Parallel!InCall(index[t]) # {}
    BY <2>2, <2>3
  <2>5. ~ \E u \in Parallel!InCall(index[t]) : task[u] = "calling"
    BY <1>2 DEF Parallel!InCall
  <2>6. Parallel!CallState(index[t]) = "raised"
    BY <2>4, <2>5 DEF Parallel!CallState
  <2> QED BY <1>4, <1>7, <2>2, <2>6 DEF Parallel!Each!Next, Parallel!Each!Raise, Indexes
<1>8. CASE outcome = "refused"
  BY <1>4, <1>8 DEF Parallel!Each!Next, Parallel!Each!Refuse
<1> QED BY <1>5, <1>6, <1>7, <1>8

(***************************************************************************)
(* A task that changes the state of one call, and no other, makes a step   *)
(* of ForEach.                                                             *)
(***************************************************************************)
LEMMA OneCallChanges ==
  ASSUME ParallelInv, UNCHANGED <<begin, end, num_cpus, main, outcome>>,
         NEW t \in Parallel!Tasks, task[t] \in {"fetching", "calling"},
         NEW i \in Indexes, NEW from, NEW to,
         Parallel!CallState(i) = from, Parallel!CallState(i)' = to,
         \A j \in Indexes \ {i} : Parallel!CallState(j)' = Parallel!CallState(j)
  PROVE  Parallel!Each!Becomes(i, from, to)
<1>1. main # "left" BY DEF ParallelInv, Parallel!NoDangling, Parallel!Over
<1>2. Indexes' = Indexes BY DEF Indexes
<1>3. Calls' = [Calls EXCEPT ![i] = to] BY <1>2 DEF Calls
<1> QED BY <1>1, <1>3 DEF Parallel!Each!Becomes, Calls, Indexes

LEMMA FetchPromised ==
  ASSUME ParallelInv, NEW t \in Parallel!Tasks, Parallel!Fetch(t)
  PROVE  Parallel!Each!Next
<1>0. /\ UNCHANGED <<begin, end, num_cpus, main, outcome>> /\ Parallel!Tasks' = Parallel!Tasks
      /\ task[t] = "fetching" /\ idx < end /\ idx' = idx + 1
      /\ idx \in Int /\ begin \in Int /\ end \in Int /\ idx >= begin
  BY DEF Parallel!Fetch, ParallelInv, Parallel!TypeOK, Parallel!arguments,
      Parallel!callers, Parallel!Tasks
<1>1. task'[t] = "calling" /\ \A u \in Parallel!Tasks \ {t} : task'[u] = task[u]
  BY DEF Parallel!Fetch, ParallelInv, Parallel!TypeOK
<1>2. index'[t] = idx /\ \A u \in Parallel!Tasks \ {t} : index'[u] = index[u]
  BY DEF Parallel!Fetch, ParallelInv, Parallel!TypeOK
<1>3. PICK i \in Indexes : i = idx
  BY <1>0 DEF Indexes
<1>4. Parallel!CallState(i) = "due"
  BY <1>0, <1>3 DEF Parallel!CallState
<1>5. t \in Parallel!InCall(i)' /\ ~(i >= idx')
  BY <1>0, <1>1, <1>2, <1>3 DEF Parallel!InCall
<1>6. Parallel!CallState(i)' = "running"
  BY <1>1, <1>5 DEF Parallel!CallState
<1>7. ASSUME NEW j \in Indexes \ {i}
      PROVE  Parallel!CallState(j)' = Parallel!CallState(j)
  <2>1. j >= idx' <=> j >= idx BY <1>0, <1>3 DEF Indexes
  <2>2. t \notin Parallel!InCall(j) /\ t \notin Parallel!InCall(j)' BY <1>0, <1>2, <1>3
    DEF Parallel!InCall
  <2>3. Parallel!InCall(j)' = Parallel!InCall(j) BY <1>0, <1>1, <1>2, <2>2
    DEF Parallel!InCall
  <2>4. \A u \in Parallel!InCall(j) : task'[u] = task[u] BY <1>1, <2>2 DEF Parallel!InCall
  <2> QED BY <2>1, <2>3, <2>4 DEF Parallel!CallState
<1>8. Parallel!Each!Becomes(i, "due", "running")
  BY <1>0, <1>4, <1>6, <1>7, OneCallChanges
<1> QED BY <1>8 DEF Parallel!Each!Next, Parallel!Each!Begin, Indexes

LEMMA BreakPromised ==
  ASSUME ParallelInv, NEW t \in Parallel!Tasks, Parallel!Break(t)
  PROVE  UNCHANGED Parallel!Each!vars
<1>0. /\ UNCHANGED <<begin, end, num_cpus, main, outcome>> /\ Parallel!Tasks' = Parallel!Tasks
      /\ task[t] = "fetching" /\ idx >= end /\ idx' = idx + 1
      /\ idx \in Int /\ begin \in Int /\ end \in Int
  BY DEF Parallel!Break, ParallelInv, Parallel!TypeOK, Parallel!arguments,
      Parallel!callers, Parallel!Tasks
<1>1. task'[t] = "ended" /\ \A u \in Parallel!Tasks \ {t} : task'[u] = task[u]
  BY DEF Parallel!Break, ParallelInv, Parallel!TypeOK
<1>2. \A u \in Parallel!Tasks \ {t} : index'[u] = index[u]
  BY DEF Parallel!Break, ParallelInv, Parallel!TypeOK
<1>3. ASSUME NEW j \in Indexes
      PROVE  Parallel!CallState(j)' = Parallel!CallState(j)
  <2>1. ~(j >= idx') /\ ~(j >= idx) BY <1>0 DEF Indexes
  <2>2. t \notin Parallel!InCall(j) /\ t \notin Parallel!InCall(j)' BY <1>0, <1>1
    DEF Parallel!InCall
  <2>3. Parallel!InCall(j)' = Parallel!InCall(j) BY <1>0, <1>1, <1>2, <2>2
    DEF Parallel!InCall
  <2>4. \A u \in Parallel!InCall(j) : task'[u] = task[u] BY <1>1, <2>2 DEF Parallel!InCall
  <2> QED BY <2>1, <2>3, <2>4 DEF Parallel!CallState
<1> QED BY <1>0, <1>3 DEF Parallel!Each!vars, Indexes

(***************************************************************************)
(* The body returns or raises: the call was this task's alone.             *)
(***************************************************************************)
LEMMA BodyPromised ==
  ASSUME ParallelInv, NEW t \in Parallel!Tasks, Parallel!Returns(t) \/ Parallel!Raises(t)
  PROVE  Parallel!Each!Next
<1>0. /\ UNCHANGED <<begin, end, num_cpus, main, outcome, idx, index>>
      /\ Parallel!Tasks' = Parallel!Tasks
      /\ task[t] = "calling"
      /\ idx \in Int /\ index[t] \in Int
  BY DEF Parallel!Returns, Parallel!Raises, ParallelInv, Parallel!TypeOK,
      Parallel!arguments, Parallel!callers, Parallel!Tasks
<1>1. \A u \in Parallel!Tasks \ {t} : task'[u] = task[u]
  BY DEF Parallel!Returns, Parallel!Raises, ParallelInv, Parallel!TypeOK
<1>2. index[t] \in Indexes /\ index[t] < idx
  BY <1>0 DEF ParallelInv, IndexTaken, Inside, Indexes
<1>3. ~(index[t] >= idx) /\ ~(index[t] >= idx')
  BY <1>0, <1>2
<1>4. Parallel!InCall(index[t]) = {t}
  BY <1>0 DEF Parallel!InCall, ParallelInv, OneTaskEach, Inside
<1>5. Parallel!CallState(index[t]) = "running"
  BY <1>0, <1>3, <1>4 DEF Parallel!CallState
<1>6. ASSUME NEW j \in Indexes \ {index[t]}
      PROVE  Parallel!CallState(j)' = Parallel!CallState(j)
  <2>1. t \notin Parallel!InCall(j) /\ t \notin Parallel!InCall(j)' BY <1>0
    DEF Parallel!InCall
  <2>2. Parallel!InCall(j)' = Parallel!InCall(j) BY <1>0, <1>1, <2>1 DEF Parallel!InCall
  <2>3. \A u \in Parallel!InCall(j) : task'[u] = task[u] BY <1>1, <2>1 DEF Parallel!InCall
  <2> QED BY <1>0, <2>2, <2>3 DEF Parallel!CallState
<1>7. CASE Parallel!Returns(t)
  <2>1. task'[t] = "fetching" BY <1>7 DEF Parallel!Returns, ParallelInv, Parallel!TypeOK
  <2>2. Parallel!InCall(index[t])' = {}
    BY <1>0, <1>1, <1>4, <2>1 DEF Parallel!InCall
  <2>3. Parallel!CallState(index[t])' = "done"
    BY <1>0, <1>3, <2>2 DEF Parallel!CallState
  <2>4. Parallel!Each!Becomes(index[t], "running", "done")
    BY <1>0, <1>2, <1>5, <1>6, <2>3, OneCallChanges
  <2> QED BY <1>2, <2>4 DEF Parallel!Each!Next, Parallel!Each!End, Indexes
<1>8. CASE Parallel!Raises(t)
  <2>1. task'[t] = "raised" BY <1>8 DEF Parallel!Raises, ParallelInv, Parallel!TypeOK
  <2>2. Parallel!InCall(index[t])' = {t}
    BY <1>0, <1>1, <1>4, <2>1 DEF Parallel!InCall
  <2>3. Parallel!CallState(index[t])' = "raised"
    BY <1>0, <1>3, <2>1, <2>2 DEF Parallel!CallState
  <2>4. Parallel!Each!Becomes(index[t], "running", "raised")
    BY <1>0, <1>2, <1>5, <1>6, <2>3, OneCallChanges
  <2> QED BY <1>2, <2>4 DEF Parallel!Each!Next, Parallel!Each!Throw, Indexes
<1> QED BY <1>7, <1>8

LEMMA StepPromised ==
  ParallelInv /\ [Parallel!Next]_(Parallel!vars) => [Parallel!Each!Next]_(Parallel!Each!vars)
<1> SUFFICES ASSUME ParallelInv, [Parallel!Next]_(Parallel!vars)
             PROVE  [Parallel!Each!Next]_(Parallel!Each!vars)
  OBVIOUS
<1>1. CASE Parallel!Leave BY <1>1, LeavePromised
<1>2. CASE Parallel!Caller /\ ~Parallel!Leave
  <2>1. UNCHANGED <<begin, end, num_cpus>> /\ Calls' = Calls
    BY <1>2, CallerStutters
  <2>2. main # "left" /\ main' # "left"
    BY <1>2 DEF Parallel!Caller, Parallel!Launch, Parallel!LaunchFails,
        Parallel!AllLaunched, Parallel!Get, Parallel!GetRaises, Parallel!AllGot
  <2> QED BY <2>1, <2>2 DEF Parallel!Each!vars, Calls, Indexes
<1>3. CASE \E t \in Parallel!Tasks : \/ Parallel!Fetch(t) \/ Parallel!Break(t)
                                    \/ Parallel!Returns(t) \/ Parallel!Raises(t)
  BY <1>3, FetchPromised, BreakPromised, BodyPromised
<1>4. CASE UNCHANGED Parallel!vars
  BY <1>4 DEF Parallel!vars, Parallel!arguments, Parallel!callers, Parallel!Each!vars,
      Parallel!CallState, Parallel!InCall, Parallel!Tasks
<1> QED BY <1>1, <1>2, <1>3, <1>4 DEF Parallel!Next

(***************************************************************************)
(* The body is called once for every index, an exception of it is not      *)
(* swallowed, and the call is over when no body runs: for every number of  *)
(* tasks and every range.                                                  *)
(***************************************************************************)
THEOREM ImplementsForEach == Parallel!Spec => Parallel!Promised
<1>1. Parallel!Spec => []ParallelInv BY ParallelInvariance
<1>2. Parallel!Init => Parallel!Each!Init BY InitPromised
<1>3. ParallelInv /\ [Parallel!Next]_(Parallel!vars) => [Parallel!Each!Next]_(Parallel!Each!vars)
  BY StepPromised
<1> QED BY <1>1, <1>2, <1>3, PTL DEF Parallel!Spec, Parallel!Promised, Parallel!Each!Spec

-------------------------------------------------------------------------------
(***************************************************************************)
(* The exhaustive tests.                                                   *)
(***************************************************************************)
LEMMA InitParallel == Init => Parallel!Init
BY DeckAssumption DEF Init, Parallel!Init, Tests, Ranges, Parallel!Tasks

LEMMA StepParallel == [Next]_vars => [Parallel!Next]_(Parallel!vars)
<1> SUFFICES ASSUME [Next]_vars PROVE [Parallel!Next]_(Parallel!vars)
  OBVIOUS
<1>1. CASE Call BY <1>1 DEF Call, Parallel!Next
<1>2. CASE AssertCount \/ CatchException
  BY <1>2 DEF AssertCount, CatchException, parallel, Parallel!vars
<1>3. ASSUME NEW t \in Parallel!Tasks, Take(t)
      PROVE  Parallel!Next
  BY <1>3 DEF Take, Fetch, Parallel!Next
<1>4. ASSUME NEW t \in Parallel!Tasks, Agree(t)
      PROVE  UNCHANGED Parallel!vars
  BY <1>4 DEF Agree, parallel, Parallel!vars
<1>5. ASSUME NEW t \in Parallel!Tasks, Add(t)
      PROVE  Parallel!Next
  BY <1>5 DEF Add, Parallel!Next
<1>6. ASSUME NEW t \in Parallel!Tasks, Disagree(t)
      PROVE  Parallel!Next
  BY <1>6 DEF Disagree, Report, Parallel!Next
<1>7. CASE UNCHANGED vars BY <1>7 DEF vars, parallel, Parallel!vars
<1> QED BY <1>1, <1>2, <1>3, <1>4, <1>5, <1>6, <1>7 DEF Next

LEMMA UsesParallelFor == Spec => Parallel!Spec
BY InitParallel, StepParallel, PTL DEF Spec, Parallel!Spec

(***************************************************************************)
(* No task of a test runs on when ParallelFor has been left, with a result *)
(* or with the failure of another task.                                    *)
(***************************************************************************)
THEOREM NoTaskOutlivesTheTest == Spec => []NoDangling
BY UsesParallelFor, NoTaskOutlivesTheCall, PTL DEF NoDangling

(***************************************************************************)
(* In a test every first card is counted once, on as many threads as there *)
(* are.                                                                    *)
(***************************************************************************)
THEOREM TestsEachCardOnce == Spec => Promised
BY UsesParallelFor, ImplementsForEach, PTL DEF Promised

-------------------------------------------------------------------------------
(***************************************************************************)
(* A set of n numbers below d, in ascending order.  The number of elements *)
(* up to one of them is its place.                                         *)
(***************************************************************************)
Ascends(h, n) == \A k, m \in 1 .. n : k < m => h[k] < h[m]
Sortings(S, n) ==
  {h \in [1 .. n -> S] : Ascends(h, n) /\ \A x \in S : \E m \in 1 .. n : h[m] = x}

LEMMA Sorted ==
  ASSUME NEW n \in Nat, NEW d \in Nat, NEW S \in SUBSET (0 .. d - 1), Cardinality(S) = n
  PROVE  Sortings(S, n) # {}
<1> DEFINE UpTo(x) == {y \in S : y <= x}
           place == [x \in S |-> Cardinality(UpTo(x))]
           h == [m \in 1 .. n |-> CHOOSE x \in S : place[x] = m]
<1>0. \A x \in S : x \in Int
  OBVIOUS
<1>1. IsFiniteSet(S)
  <2>1. IsFiniteSet(0 .. d - 1) BY FS_Interval
  <2> QED BY <2>1, FS_Subset
<1>2. ASSUME NEW x \in S
      PROVE  IsFiniteSet(UpTo(x)) /\ place[x] \in 1 .. n
  <2>1. UpTo(x) \in SUBSET S /\ x \in UpTo(x)
    OBVIOUS
  <2>2. IsFiniteSet(UpTo(x)) /\ Cardinality(UpTo(x)) <= n
    BY <1>1, <2>1, FS_Subset
  <2>3. Cardinality(UpTo(x)) \in Nat /\ Cardinality(UpTo(x)) # 0
    BY <2>1, <2>2, FS_CardinalityType, FS_EmptySet
  <2> QED BY <2>2, <2>3
<1>3. ASSUME NEW x \in S, NEW y \in S, x < y
      PROVE  place[x] < place[y]
  <2>1. UpTo(x) \in SUBSET UpTo(y) /\ y \in UpTo(y) /\ y \notin UpTo(x)
    <3>1. \A z \in S : z <= x => z <= y BY <1>0, <1>3
    <3>2. ~(y <= x) /\ y <= y BY <1>0, <1>3
    <3> QED BY <3>1, <3>2
  <2>2. Cardinality(UpTo(x)) <= Cardinality(UpTo(y)) /\ Cardinality(UpTo(x)) # Cardinality(UpTo(y))
    BY <1>2, <2>1, FS_Subset
  <2>3. place[x] \in Nat /\ place[y] \in Nat
    BY <1>2
  <2> QED BY <2>2, <2>3
<1>4. place \in [S -> 1 .. n]
  BY <1>2
<1>5. ASSUME NEW x \in S, NEW y \in S, place[x] = place[y]
      PROVE  x = y
  <2>1. place[x] \in Nat /\ x \in Int /\ y \in Int BY <1>4
  <2> HIDE DEF place
  <2>2. ~(x < y) /\ ~(y < x) BY <1>3, <1>5, <2>1
  <2> QED BY <2>1, <2>2
<1>6. place \in Injection(S, 1 .. n)
  BY <1>4, <1>5, Fun_IsInj
<1>7. IsFiniteSet(1 .. n) /\ Cardinality(1 .. n) = n
  BY FS_Interval
<1>8. place \in Surjection(S, 1 .. n)
  BY <1>6, <1>7, FS_Injection
<1>9. ASSUME NEW m \in 1 .. n
      PROVE  h[m] \in S /\ place[h[m]] = m
  <2>1. \E x \in S : place[x] = m BY <1>8 DEF Surjection
  <2> HIDE DEF place
  <2> QED BY <2>1
<1>10. h \in [1 .. n -> S]
  BY <1>9
<1> HIDE DEF place, h
<1>11. ASSUME NEW k \in 1 .. n, NEW m \in 1 .. n, k < m
       PROVE  h[k] < h[m]
  <2>1. h[k] \in S /\ h[m] \in S /\ h[k] \in Int /\ h[m] \in Int BY <1>0, <1>9
  <2>2. h[k] # h[m] BY <1>9, <1>11
  <2>3. ~(h[m] < h[k])
    <3>1. SUFFICES ASSUME h[m] < h[k] PROVE FALSE OBVIOUS
    <3>2. place[h[m]] < place[h[k]] BY <2>1, <3>1, <1>3
    <3> QED BY <3>2, <1>9, <1>11
  <2> QED BY <2>1, <2>2, <2>3
<1>12. ASSUME NEW x \in S PROVE \E m \in 1 .. n : h[m] = x
  BY <1>4, <1>5, <1>9
<1> QED BY <1>10, <1>11, <1>12 DEF Sortings, Ascends

(***************************************************************************)
(* A nonempty set of naturals has a least one.                             *)
(***************************************************************************)
LEMMA LeastNat ==
  ASSUME NEW S \in SUBSET Nat, S # {}
  PROVE  \E q \in S : \A r \in S : q <= r
<1> DEFINE T == {0 .. n : n \in S}
           R == StrictSubsetOrdering(Nat)
<1>1. T \subseteq FiniteSubsetsOf(Nat)
  <2>1. \A n \in S : IsFiniteSet(0 .. n) BY FS_Interval
  <2>2. \A n \in S : 0 .. n \subseteq Nat BY SMT
  <2> QED BY <2>1, <2>2, Zenon DEF FiniteSubsetsOf
<1>2. T # {}
  OBVIOUS
<1>3. IsWellFoundedOn(R, FiniteSubsetsOf(Nat))
  BY FS_StrictSubsetOrderingWellFounded
<1>4. \E I \in T : \A J \in T : <<J, I>> \notin R
  <2> HIDE DEF T, R
  <2> QED BY <1>1, <1>2, <1>3, WFMin
<1>5. PICK q \in S : \A r \in S : <<0 .. r, 0 .. q>> \notin R
  <2> HIDE DEF R
  <2> QED BY <1>4
<1>6. ASSUME NEW r \in S, r < q
      PROVE  FALSE
  <2> DEFINE p == <<0 .. r, 0 .. q>>
  <2>1. 0 .. r \subseteq 0 .. q /\ q \in 0 .. q /\ q \notin 0 .. r
    BY <1>6
  <2>2. 0 .. r \in SUBSET Nat /\ 0 .. q \in SUBSET Nat
    BY SMT
  <2>3. 0 .. r # 0 .. q
    BY <2>1, Zenon
  <2>4. p \in R
    BY <2>1, <2>2, <2>3 DEF StrictSubsetOrdering
  <2> QED BY <1>5, <2>4
<1> QED BY <1>6

(***************************************************************************)
(* A hand whose cards ascend from each to the next ascends, and is the     *)
(* only ascending hand of its cards.                                       *)
(***************************************************************************)
LEMMA StepwiseAscends ==
  ASSUME NEW n \in Nat, NEW h \in [1 .. n -> Int], \A m \in 2 .. n : h[m - 1] < h[m]
  PROVE  Ascends(h, n)
<1>1. SUFFICES ASSUME NEW k \in 1 .. n, NEW j \in 1 .. n, k < j, ~(h[k] < h[j])
               PROVE  FALSE
  BY DEF Ascends
<1> DEFINE S == {m \in 1 .. n : k < m /\ ~(h[k] < h[m])}
<1>2. S \in SUBSET Nat /\ S # {}
  <2>1. j \in S BY <1>1
  <2>2. S \in SUBSET Nat OBVIOUS
  <2> QED BY <2>1, <2>2, Zenon
<1>3. PICK m \in S : \A r \in S : m <= r
  BY <1>2, LeastNat
<1>4. m \in 2 .. n /\ m - 1 \in 1 .. n /\ m - 1 \notin S /\ m > k
  BY <1>3
<1>5. h[m - 1] < h[m] /\ h[k] \in Int /\ h[m] \in Int /\ h[m - 1] \in Int
  BY <1>4
<1>6. ~(h[k] < h[m])
  OBVIOUS
<1>7. m - 1 = k \/ h[k] < h[m - 1]
  BY <1>4
<1> QED BY <1>5, <1>6, <1>7

LEMMA OneSorting ==
  ASSUME NEW n \in Nat, NEW h \in [1 .. n -> Int], NEW g \in [1 .. n -> Int],
         Ascends(h, n), Ascends(g, n), {h[m] : m \in 1 .. n} = {g[m] : m \in 1 .. n}
  PROVE  h = g
<1> DEFINE S == {m \in 1 .. n : h[m] # g[m]}
<1>1. SUFFICES ASSUME S # {} PROVE FALSE
  OBVIOUS
<1>2. PICK m \in S : \A r \in S : m <= r
  <2>1. S \in SUBSET Nat OBVIOUS
  <2> HIDE DEF S
  <2> QED BY <1>1, <2>1, LeastNat
<1>3. \A r \in 1 .. n : r < m => h[r] = g[r]
  BY <1>2
<1>4. PICK j \in 1 .. n : g[j] = h[m]
  OBVIOUS
<1>5. PICK k \in 1 .. n : h[k] = g[m]
  OBVIOUS
<1>6. m \in 1 .. n /\ h[m] # g[m] /\ h[m] \in Int /\ g[m] \in Int
  OBVIOUS
<1>7. j > m
  <2>1. ~(j < m) BY <1>3, <1>4, <1>6 DEF Ascends
  <2>2. j # m BY <1>4, <1>6
  <2> QED BY <1>6, <2>1, <2>2
<1>8. k > m
  <2>1. ~(k < m) BY <1>3, <1>5, <1>6 DEF Ascends
  <2>2. k # m BY <1>5, <1>6
  <2> QED BY <1>6, <2>1, <2>2
<1>9. g[m] < h[m] /\ h[m] < g[m]
  BY <1>4, <1>5, <1>6, <1>7, <1>8 DEF Ascends
<1> QED BY <1>6, <1>9

(***************************************************************************)
(* There is room below and above for the others of an ascending hand.      *)
(***************************************************************************)
LEMMA Room ==
  ASSUME NEW n \in Nat, NEW d \in Nat, NEW h \in [1 .. n -> 0 .. d - 1], Ascends(h, n),
         NEW m \in 1 .. n
  PROVE  m - 1 <= h[m] /\ h[m] < d - n + m
<1> DEFINE below == [k \in 1 .. m |-> h[k]]
           above == [k \in m .. n |-> h[k]]
<1>0. \A k, j \in 1 .. n : k # j => h[k] # h[j]
  BY DEF Ascends
<1>1. below \in Injection(1 .. m, 0 .. h[m])
  <2>1. \A k \in 1 .. m : h[k] \in 0 .. h[m] BY DEF Ascends
  <2>2. below \in [1 .. m -> 0 .. h[m]] BY <2>1
  <2>3. \A k, j \in 1 .. m : below[k] = below[j] => k = j BY <1>0
  <2> HIDE DEF below
  <2> QED BY <2>2, <2>3, Fun_IsInj
<1>2. above \in Injection(m .. n, h[m] .. d - 1)
  <2>1. \A k \in m .. n : h[k] \in h[m] .. d - 1 BY DEF Ascends
  <2>2. above \in [m .. n -> h[m] .. d - 1] BY <2>1
  <2>3. \A k, j \in m .. n : above[k] = above[j] => k = j BY <1>0
  <2> HIDE DEF above
  <2> QED BY <2>2, <2>3, Fun_IsInj
<1>3. h[m] \in Int BY DEF Ascends
<1>4. Cardinality(1 .. m) <= Cardinality(0 .. h[m])
  BY <1>1, <1>3, FS_Injection, FS_Interval
<1>5. Cardinality(m .. n) <= Cardinality(h[m] .. d - 1)
  BY <1>2, <1>3, FS_Injection, FS_Interval
<1>6. h[m] >= 0 /\ h[m] <= d - 1
  OBVIOUS
<1>7. Cardinality(1 .. m) = m
  BY FS_Interval
<1>8. Cardinality(0 .. h[m]) = h[m] + 1
  BY <1>3, <1>6, FS_Interval
<1>9. Cardinality(m .. n) = n - m + 1
  BY FS_Interval
<1>10. Cardinality(h[m] .. d - 1) = d - h[m]
  <2>1. d - 1 \in Int /\ ~(h[m] > d - 1) BY <1>3, <1>6
  <2>2. Cardinality(h[m] .. d - 1) = (d - 1) - h[m] + 1 BY <1>3, <2>1, FS_Interval
  <2> QED BY <1>3, <2>2
<1> QED BY <1>3, <1>4, <1>5, <1>7, <1>8, <1>9, <1>10

(***************************************************************************)
(* The loops of either test visit every hand.                              *)
(***************************************************************************)
FirstCards(name) == Ranges[name][1] .. Ranges[name][2] - 1

LEMMA EveryHandVisited ==
  ASSUME NEW name \in Tests, NEW S \in Hands
  PROVE  \E i \in FirstCards(name) : \E h \in HandsFrom[name][i] : CardsOf(h) = S
<1> USE DeckAssumption
<1>1. PICK h \in [1 .. CARDS -> S] :
         Ascends(h, CARDS) /\ \A x \in S : \E m \in 1 .. CARDS : h[m] = x
  <2>1. S \in SUBSET (0 .. DECK - 1) /\ Cardinality(S) = CARDS /\ CARDS \in Nat /\ DECK \in Nat
    BY DEF Hands
  <2>2. Sortings(S, CARDS) # {}
    BY <2>1, Sorted
  <2> QED BY <2>2 DEF Sortings
<1>a. h \in [1 .. CARDS -> 0 .. DECK - 1]
  BY <1>1 DEF Hands
<1>2. \A m \in 1 .. CARDS : m - 1 <= h[m] /\ h[m] < DECK - CARDS + m
  BY <1>1, <1>a, Room
<1>3. CASE name = "CompareWithFiveEval"
  <2>1. h \in Loops(name, h[1])
    <3>1. \A m \in 2 .. CARDS : m \in 1 .. CARDS /\ m - 1 \in 1 .. CARDS /\ m - 1 < m
      OBVIOUS
    <3>2. \A m \in 2 .. CARDS : h[m - 1] < h[m] /\ h[m] < DECK - CARDS + m
      BY <1>1, <1>2, <3>1 DEF Ascends
    <3> QED BY <1>a, <1>3, <3>2 DEF Loops
  <2>2. h[1] \in FirstCards(name)
    BY <1>a, <1>2, <1>3 DEF FirstCards, Ranges
  <2>3. CardsOf(h) = S BY <1>1 DEF CardsOf
  <2> QED BY <1>3, <2>1, <2>2, <2>3 DEF HandsFrom, FirstCards
<1>4. CASE name = "SevenCardHand"
  <2> DEFINE g == [m \in 1 .. CARDS |-> h[CARDS + 1 - m]]
  <2>1. g \in [1 .. CARDS -> 0 .. DECK - 1] /\ \A m \in 1 .. CARDS : CARDS - m <= g[m]
    BY <1>a, <1>2
  <2>2. \A m \in 2 .. CARDS : g[m] < g[m - 1]
    BY <1>1 DEF Ascends
  <2>3. g \in Loops(name, g[1]) /\ g[1] \in FirstCards(name)
    <3> HIDE DEF g
    <3>1. 1 \in 1 .. CARDS /\ \A m \in 2 .. CARDS : m \in 1 .. CARDS
      OBVIOUS
    <3>2. g \in Loops(name, g[1])
      BY <1>4, <2>1, <2>2, <3>1 DEF Loops
    <3>3. g[1] \in CARDS - 1 .. DECK - 1
      BY <2>1, <3>1
    <3> QED BY <1>4, <3>2, <3>3 DEF FirstCards, Ranges
  <2>5. CardsOf(g) = S
    <3>1. \A m \in 1 .. CARDS : CARDS + 1 - m \in 1 .. CARDS /\ g[CARDS + 1 - m] = h[m]
      OBVIOUS
    <3>2. \A m \in 1 .. CARDS : g[m] \in S BY <1>1, <3>1
    <3> HIDE DEF g
    <3> QED BY <1>1, <3>1, <3>2 DEF CardsOf
  <2> QED BY <1>4, <2>3, <2>5 DEF HandsFrom, FirstCards
<1> QED BY <1>3, <1>4 DEF Tests

(***************************************************************************)
(* The hands that the loops of a test visit for all first cards, each of   *)
(* them in ascending order or turned round.                                *)
(***************************************************************************)
LoopHands(name) == UNION {HandsFrom[name][i] : i \in FirstCards(name)}
Turned(name, h) ==
  IF name = "CompareWithFiveEval" THEN h ELSE [m \in 1 .. CARDS |-> h[CARDS + 1 - m]]

LEMMA FirstOfHand ==
  ASSUME NEW name \in Tests, NEW i \in FirstCards(name)
  PROVE  \A h : h \in HandsFrom[name][i] <=> h \in LoopHands(name) /\ h[1] = i
<1>1. \A j \in FirstCards(name) : HandsFrom[name][j] = Loops(name, j)
  BY DEF HandsFrom, FirstCards
<1>2. \A j : \A h \in Loops(name, j) : h[1] = j
  BY DEF Loops
<1> QED BY <1>1, <1>2 DEF LoopHands

LEMMA TurnedAscends ==
  ASSUME NEW name \in Tests, NEW h \in LoopHands(name)
  PROVE  /\ h \in [1 .. CARDS -> 0 .. DECK - 1]
         /\ Turned(name, h) \in [1 .. CARDS -> 0 .. DECK - 1]
         /\ Ascends(Turned(name, h), CARDS)
         /\ CardsOf(Turned(name, h)) = CardsOf(h)
<1> USE DeckAssumption
<1>1. PICK i \in FirstCards(name) : h \in Loops(name, i)
  BY DEF LoopHands, HandsFrom, FirstCards
<1>2. h \in [1 .. CARDS -> 0 .. DECK - 1]
  BY <1>1 DEF Loops
<1>3. CASE name = "CompareWithFiveEval"
  <2>1. \A m \in 2 .. CARDS : h[m - 1] < h[m]
    BY <1>1, <1>3 DEF Loops
  <2>2. h \in [1 .. CARDS -> Int]
    BY <1>2
  <2>3. Ascends(h, CARDS)
    BY <2>1, <2>2, StepwiseAscends
  <2> QED BY <1>2, <1>3, <2>3 DEF Turned
<1>4. CASE name = "SevenCardHand"
  <2> DEFINE g == [m \in 1 .. CARDS |-> h[CARDS + 1 - m]]
  <2>1. Turned(name, h) = g
    BY <1>4 DEF Turned
  <2>2. \A m \in 2 .. CARDS : h[m] < h[m - 1]
    BY <1>1, <1>4 DEF Loops
  <2>3. g \in [1 .. CARDS -> 0 .. DECK - 1]
    BY <1>2
  <2>4. ASSUME NEW m \in 2 .. CARDS
        PROVE  g[m - 1] < g[m]
    <3>1. /\ m \in 1 .. CARDS /\ m - 1 \in 1 .. CARDS
          /\ CARDS + 2 - m \in 2 .. CARDS
          /\ CARDS + 1 - (m - 1) = CARDS + 2 - m
          /\ (CARDS + 2 - m) - 1 = CARDS + 1 - m
      OBVIOUS
    <3>2. g[m - 1] = h[CARDS + 2 - m] /\ g[m] = h[CARDS + 1 - m]
      BY <3>1
    <3> HIDE DEF g
    <3> QED BY <2>2, <3>1, <3>2
  <2>5. Ascends(g, CARDS)
    <3>1. g \in [1 .. CARDS -> Int] BY <2>3
    <3> HIDE DEF g
    <3> QED BY <2>4, <3>1, StepwiseAscends
  <2>6. CardsOf(g) = CardsOf(h)
    <3>1. \A m \in 1 .. CARDS : CARDS + 1 - m \in 1 .. CARDS /\ g[CARDS + 1 - m] = h[m]
                                /\ g[m] = h[CARDS + 1 - m]
      OBVIOUS
    <3> HIDE DEF g
    <3> QED BY <3>1 DEF CardsOf
  <2> HIDE DEF g
  <2> QED BY <1>2, <2>1, <2>3, <2>5, <2>6
<1> QED BY <1>3, <1>4 DEF Tests

LEMMA TurnedOnce ==
  ASSUME NEW name \in Tests, NEW h \in LoopHands(name), NEW g \in LoopHands(name),
         Turned(name, h) = Turned(name, g)
  PROVE  h = g
<1>1. h \in [1 .. CARDS -> 0 .. DECK - 1] /\ g \in [1 .. CARDS -> 0 .. DECK - 1]
  BY TurnedAscends
<1>2. CASE name = "CompareWithFiveEval" BY <1>2 DEF Turned
<1>3. CASE name = "SevenCardHand"
  <2>1. \A m \in 1 .. CARDS : CARDS + 1 - m \in 1 .. CARDS /\ CARDS + 1 - (CARDS + 1 - m) = m
    BY DeckAssumption
  <2>2. [m \in 1 .. CARDS |-> h[CARDS + 1 - m]] = [m \in 1 .. CARDS |-> g[CARDS + 1 - m]]
    BY <1>3 DEF Turned
  <2>3. \A m \in 1 .. CARDS : h[CARDS + 1 - m] = g[CARDS + 1 - m]
    BY <2>2
  <2>4. \A m \in 1 .. CARDS : h[m] = g[m]
    <3>1. ASSUME NEW m \in 1 .. CARDS PROVE h[m] = g[m]
      <4> DEFINE k == CARDS + 1 - m
      <4>1. k \in 1 .. CARDS /\ CARDS + 1 - k = m BY <2>1
      <4> HIDE DEF k
      <4> QED BY <2>3, <4>1
    <3> QED BY <3>1
  <2>5. h = [m \in 1 .. CARDS |-> h[m]] /\ g = [m \in 1 .. CARDS |-> g[m]]
    BY <1>1
  <2>6. [m \in 1 .. CARDS |-> h[m]] = [m \in 1 .. CARDS |-> g[m]]
    BY <2>4
  <2> QED BY <2>5, <2>6, Zenon
<1> QED BY <1>2, <1>3 DEF Tests

LEMMA FiniteHands == IsFiniteSet(Hands)
<1>1. IsFiniteSet(SUBSET (0 .. DECK - 1))
  <2>1. IsFiniteSet(0 .. DECK - 1) BY DeckAssumption, FS_Interval
  <2> QED BY <2>1, FS_SUBSET, Zenon
<1> QED BY <1>1, FS_Subset DEF Hands

(***************************************************************************)
(* The loops visit every hand once: there are as many of theirs as hands.  *)
(***************************************************************************)
LEMMA EveryHandOnce ==
  ASSUME NEW name \in Tests
  PROVE  IsFiniteSet(LoopHands(name)) /\ Cardinality(LoopHands(name)) = NumberOfHands
<1> DEFINE f == [h \in LoopHands(name) |-> CardsOf(h)]
<1>1. ASSUME NEW h \in LoopHands(name)
      PROVE  CardsOf(h) \in Hands
  <2> DEFINE g == Turned(name, h)
  <2>1. g \in [1 .. CARDS -> 0 .. DECK - 1] /\ Ascends(g, CARDS) /\ CardsOf(g) = CardsOf(h)
    BY TurnedAscends
  <2> HIDE DEF g
  <2>2. \A m, k \in 1 .. CARDS : g[m] = g[k] => m = k
    <3>1. ASSUME NEW m \in 1 .. CARDS, NEW k \in 1 .. CARDS, g[m] = g[k]
          PROVE  m = k
      <4>1. g[m] \in Int /\ g[k] \in Int BY <2>1
      <4>2. ~(m < k) /\ ~(k < m) BY <2>1, <3>1, <4>1 DEF Ascends
      <4> QED BY <4>2
    <3> QED BY <3>1
  <2>3. g \in [1 .. CARDS -> CardsOf(g)] /\ CardsOf(g) \in SUBSET (0 .. DECK - 1)
    BY <2>1 DEF CardsOf
  <2>4. g \in Injection(1 .. CARDS, CardsOf(g))
    BY <2>2, <2>3, Fun_IsInj
  <2>5. g \in Surjection(1 .. CARDS, CardsOf(g))
    BY <2>3 DEF Surjection, CardsOf
  <2>6. Cardinality(CardsOf(g)) = CARDS
    <3>1. IsFiniteSet(1 .. CARDS) /\ Cardinality(1 .. CARDS) = CARDS
      BY DeckAssumption, FS_Interval
    <3> QED BY <2>4, <2>5, <3>1, FS_Surjection
  <2> QED BY <2>1, <2>3, <2>6 DEF Hands
<1>2. ASSUME NEW h \in LoopHands(name), NEW g \in LoopHands(name), CardsOf(h) = CardsOf(g)
      PROVE  h = g
  <2> DEFINE a == Turned(name, h)
             b == Turned(name, g)
  <2>1. /\ a \in [1 .. CARDS -> 0 .. DECK - 1] /\ Ascends(a, CARDS)
        /\ b \in [1 .. CARDS -> 0 .. DECK - 1] /\ Ascends(b, CARDS)
        /\ CardsOf(a) = CardsOf(b)
    BY <1>2, TurnedAscends
  <2>2. a = b
    <3> HIDE DEF a, b
    <3>1. {a[m] : m \in 1 .. CARDS} = {b[m] : m \in 1 .. CARDS}
      BY <2>1 DEF CardsOf
    <3>2. a \in [1 .. CARDS -> Int] /\ b \in [1 .. CARDS -> Int] /\ CARDS \in Nat
      BY <2>1, DeckAssumption
    <3> QED BY <2>1, <3>1, <3>2, OneSorting
  <2> QED BY <2>2, TurnedOnce
<1>3. f \in [LoopHands(name) -> Hands]
  BY <1>1
<1>4. f \in Injection(LoopHands(name), Hands)
  <2>1. \A h, g \in LoopHands(name) : f[h] = f[g] => h = g
    BY <1>2
  <2> HIDE DEF f
  <2> QED BY <1>3, <2>1, Fun_IsInj
<1>5. f \in Surjection(LoopHands(name), Hands)
  <2>1. \A S \in Hands : \E h \in LoopHands(name) : f[h] = S
    BY EveryHandVisited DEF LoopHands
  <2> HIDE DEF f
  <2> QED BY <1>3, <2>1 DEF Surjection
<1> HIDE DEF f
<1> QED BY <1>4, <1>5, FiniteHands, FS_Injection DEF NumberOfHands

LEMMA SomeHands == NumberOfHands \in Nat \ {0}
<1>1. 0 .. CARDS - 1 \in Hands
  BY DeckAssumption, FS_Interval DEF Hands
<1> QED BY <1>1, FiniteHands, FS_CardinalityType, FS_EmptySet DEF NumberOfHands

-------------------------------------------------------------------------------
(***************************************************************************)
(* Why a pass means that no hand differs: a first card that was taken is   *)
(* still being looped over, has been looped over without a difference, or  *)
(* a failure has been reported (LookedAt); and without a task no hand is   *)
(* counted.                                                                *)
(***************************************************************************)
DiffersAt(i) == \E h \in HandsFrom[test][i] : CardsOf(h) \in wrong

GivenRight == /\ test \in Tests /\ wrong \in SUBSET Hands
              /\ begin = Ranges[test][1] /\ end = Ranges[test][2]
LookedAt ==
  \A i \in FirstCards(test) : i < idx =>
    failed \/ ~DiffersAt(i) \/ \E t \in Parallel!Tasks : task[t] = "calling" /\ index[t] = i
BodyRight ==
  /\ body \in [Parallel!Tasks -> {"looping", "adding"}]
  /\ \A t \in Parallel!Tasks : body[t] = "adding" => task[t] = "calling" /\ ~DiffersAt(index[t])
CountRight == num_cpus = 0 => count = 0
Passed == verdict = "passed" => ~failed /\ main = "left" /\ outcome = "returned" /\ num_cpus > 0

TestInv == GivenRight /\ failed \in BOOLEAN /\ LookedAt /\ BodyRight /\ CountRight /\ Passed

LEMMA InitTest == Init => TestInv
<1> SUFFICES ASSUME Init PROVE TestInv
  OBVIOUS
<1>1. LookedAt
  BY DeckAssumption DEF Init, LookedAt, FirstCards, Ranges, Tests
<1> QED BY <1>1 DEF Init, TestInv, GivenRight, BodyRight, CountRight, Passed

(***************************************************************************)
(* What every step keeps.                                                  *)
(***************************************************************************)
LEMMA GivenKept ==
  ASSUME TestInv, [Next]_vars
  PROVE  /\ UNCHANGED <<given, begin, end, num_cpus>>
         /\ GivenRight' /\ Parallel!Tasks' = Parallel!Tasks
         /\ \A i : DiffersAt(i)' = DiffersAt(i)
<1>1. UNCHANGED <<given, begin, end, num_cpus>>
  <2> USE DEF parallel, Parallel!arguments, given
  <2>1. CASE Call
    BY <2>1 DEF Call, Parallel!Caller, Parallel!Launch, Parallel!LaunchFails,
        Parallel!AllLaunched,
       Parallel!Get, Parallel!GetRaises, Parallel!AllGot, Parallel!Leave
  <2>2. CASE AssertCount \/ CatchException
    BY <2>2 DEF AssertCount, CatchException
  <2>3. ASSUME NEW t \in Parallel!Tasks, Take(t) \/ Agree(t) \/ Add(t) \/ Disagree(t)
        PROVE  UNCHANGED <<given, begin, end, num_cpus>>
    BY <2>3 DEF Take, Fetch, Agree, Add, Disagree, Report, Parallel!Fetch, Parallel!Break,
       Parallel!Returns, Parallel!Raises
  <2>4. CASE UNCHANGED vars BY <2>4 DEF vars
  <2> QED BY <2>1, <2>2, <2>3, <2>4 DEF Next
<1> QED BY <1>1 DEF TestInv, GivenRight, given, DiffersAt, Parallel!Tasks

(***************************************************************************)
(* The steps of the caller, and what the test does when it has its result. *)
(***************************************************************************)
LEMMA CallTest ==
  ASSUME TestInv, ParallelInv, Call
  PROVE  TestInv'
<1>0. [Next]_vars BY DEF Next
<1>1. Parallel!Caller /\ UNCHANGED <<given, body, count, failed, verdict>>
  BY DEF Call
<1>2. /\ UNCHANGED <<num_cpus, idx, index>>
      /\ task' \in [Parallel!Tasks -> States]
      /\ \A t \in Parallel!Tasks : task'[t] # task[t] => task[t] = "none" /\ task'[t] = "fetching"
  BY <1>1, CallerKeepsTasks DEF Parallel!arguments
<1>3. \A t \in Parallel!Tasks : task[t] = "calling" => task'[t] = "calling"
  BY <1>2
<1>4. LookedAt'
  BY <1>0, <1>1, <1>2, <1>3, GivenKept DEF TestInv, LookedAt, FirstCards, given
<1>5. BodyRight'
  BY <1>0, <1>1, <1>2, <1>3, GivenKept DEF TestInv, BodyRight
<1>6. Passed'
  BY <1>1 DEF TestInv, Passed, Parallel!Caller, Parallel!Launch, Parallel!LaunchFails,
     Parallel!AllLaunched, Parallel!Get, Parallel!GetRaises, Parallel!AllGot, Parallel!Leave,
     Parallel!arguments
<1> QED BY <1>0, <1>1, <1>2, <1>4, <1>5, <1>6, GivenKept DEF TestInv, CountRight

LEMMA VerdictTest ==
  ASSUME TestInv, ParallelInv, AssertCount \/ CatchException
  PROVE  TestInv'
<1>0. [Next]_vars BY DEF Next
<1>1. UNCHANGED <<idx, task, index, main, outcome, num_cpus, test, body, count>>
      /\ failed' \in BOOLEAN /\ (failed => failed')
  BY DEF AssertCount, CatchException, parallel, given, TestInv
<1>2. (LookedAt /\ BodyRight /\ CountRight)'
  BY <1>0, <1>1, GivenKept DEF TestInv, LookedAt, BodyRight, CountRight, FirstCards
<1>3. Passed'
  <2>1. CASE AssertCount
    <3>1. SUFFICES ASSUME verdict' = "passed" PROVE Passed'
      BY DEF Passed
    <3>2. ~failed' /\ count = NumberOfHands /\ main = "left" /\ outcome = "returned"
      BY <1>1, <2>1, <3>1 DEF AssertCount
    <3>3. num_cpus # 0
      BY <3>2, SomeHands DEF TestInv, CountRight
    <3>4. num_cpus > 0
      BY <3>3, DeckAssumption DEF ParallelInv, Parallel!TypeOK
    <3> QED BY <1>1, <3>2, <3>4 DEF Passed
  <2>2. CASE CatchException BY <2>2 DEF CatchException, Passed
  <2> QED BY <2>1, <2>2
<1> QED BY <1>0, <1>1, <1>2, <1>3, GivenKept DEF TestInv

(***************************************************************************)
(* The steps of a task.                                                    *)
(***************************************************************************)
LEMMA TakeTest ==
  ASSUME TestInv, ParallelInv, NEW t \in Parallel!Tasks, Take(t)
  PROVE  TestInv'
<1>0. [Next]_vars BY DEF Next
<1>1. /\ UNCHANGED <<body, count, failed, verdict, main, outcome, test>>
      /\ Parallel!Fetch(t) \/ Parallel!Break(t)
  BY DEF Take, Fetch, given, Parallel!Fetch, Parallel!Break, Parallel!callers
<1>2. /\ idx' = idx + 1 /\ idx \in Int /\ end \in Int
      /\ task[t] = "fetching" /\ index'[t] = idx
      /\ idx < end => task'[t] = "calling"
      /\ \A u \in Parallel!Tasks \ {t} : task'[u] = task[u] /\ index'[u] = index[u]
  BY <1>1 DEF Parallel!Fetch, Parallel!Break, ParallelInv, Parallel!TypeOK
<1>3. LookedAt'
  <2>1. SUFFICES ASSUME NEW i \in FirstCards(test), i < idx + 1
                 PROVE  failed \/ ~DiffersAt(i)
                        \/ \E u \in Parallel!Tasks : task'[u] = "calling" /\ index'[u] = i
    BY <1>0, <1>1, <1>2, GivenKept DEF LookedAt, FirstCards
  <2>2. i \in Int /\ i < end
    BY <1>2 DEF FirstCards, TestInv, GivenRight
  <2>3. CASE i = idx
    BY <1>2, <2>2, <2>3
  <2>4. CASE i < idx
    <3>1. failed \/ ~DiffersAt(i) \/ \E u \in Parallel!Tasks : task[u] = "calling" /\ index[u] = i
      BY <2>4 DEF TestInv, LookedAt
    <3> QED BY <1>2, <3>1
  <2> QED BY <1>2, <2>1, <2>2, <2>3, <2>4
<1>4. BodyRight'
  BY <1>0, <1>1, <1>2, GivenKept DEF TestInv, BodyRight
<1> QED BY <1>0, <1>1, <1>3, <1>4, GivenKept DEF TestInv, CountRight, Passed

LEMMA BodyTest ==
  ASSUME TestInv, ParallelInv, NEW t \in Parallel!Tasks, Agree(t) \/ Add(t) \/ Disagree(t)
  PROVE  TestInv'
<1>0. [Next]_vars BY DEF Next
<1>1. /\ UNCHANGED <<idx, index, test, main, outcome, verdict, num_cpus>>
      /\ \A u \in Parallel!Tasks \ {t} : task'[u] = task[u]
      /\ task[t] = "calling" /\ num_cpus # 0
  <2>1. num_cpus # 0
    BY DEF ParallelInv, Parallel!TypeOK, Parallel!Tasks
  <2>2. task \in [Parallel!Tasks -> States]
    BY DEF ParallelInv, Parallel!TypeOK, States
  <2> QED
    BY <2>1, <2>2
    DEF Agree, Add, Disagree, Report, Parallel!Returns, Parallel!Raises, Parallel!callers,
        Parallel!arguments, parallel, given
<1>2. main # "left"
  BY <1>1 DEF ParallelInv, Parallel!NoDangling, Parallel!Over
<1>3. CASE Agree(t)
  <2>1. /\ ~DiffersAt(index[t]) /\ body' = [body EXCEPT ![t] = "adding"]
        /\ UNCHANGED <<task, failed, count>>
    BY <1>3 DEF Agree, Differs, DiffersAt, parallel
  <2>2. LookedAt' BY <1>0, <1>1, <2>1, GivenKept DEF TestInv, LookedAt, FirstCards
  <2>3. BodyRight' BY <1>0, <1>1, <2>1, GivenKept DEF TestInv, BodyRight
  <2> QED BY <1>0, <1>1, <1>2, <2>1, <2>2, <2>3, GivenKept DEF TestInv, CountRight, Passed
<1>4. CASE Add(t)
  <2>1. /\ ~DiffersAt(index[t]) /\ body' = [body EXCEPT ![t] = "looping"] /\ failed' = failed
    BY <1>4 DEF Add, TestInv, BodyRight
  <2>2. LookedAt'
    BY <1>0, <1>1, <2>1, GivenKept DEF TestInv, LookedAt, FirstCards
  <2>3. BodyRight' BY <1>0, <1>1, <2>1, GivenKept DEF TestInv, BodyRight
  <2> QED BY <1>0, <1>1, <1>2, <2>1, <2>2, <2>3, GivenKept DEF TestInv, CountRight, Passed
<1>5. CASE Disagree(t)
  <2>1. failed' = TRUE /\ body' = body /\ body[t] = "looping"
    BY <1>5 DEF Disagree, Report
  <2>2. LookedAt' BY <2>1 DEF LookedAt
  <2>3. BodyRight' BY <1>0, <1>1, <2>1, GivenKept DEF TestInv, BodyRight
  <2> QED BY <1>0, <1>1, <1>2, <2>1, <2>2, <2>3, GivenKept DEF TestInv, CountRight, Passed
<1> QED BY <1>3, <1>4, <1>5

LEMMA StepTest == TestInv /\ ParallelInv /\ [Next]_vars => TestInv'
<1> SUFFICES ASSUME TestInv, ParallelInv, [Next]_vars PROVE TestInv'
  OBVIOUS
<1>1. CASE Call BY <1>1, CallTest
<1>2. CASE AssertCount \/ CatchException BY <1>2, VerdictTest
<1>3. CASE \E t \in Parallel!Tasks : Take(t) \/ Agree(t) \/ Add(t) \/ Disagree(t)
  BY <1>3, TakeTest, BodyTest
<1>4. CASE UNCHANGED vars
  <2>1. UNCHANGED <<given, begin, end, num_cpus, idx, main, outcome, task, index, test,
                    body, count, failed, verdict>>
    BY <1>4 DEF vars, parallel, given
  <2> QED BY <2>1, GivenKept DEF TestInv, LookedAt, BodyRight, CountRight, Passed,
      FirstCards
<1> QED BY <1>1, <1>2, <1>3, <1>4 DEF Next

(***************************************************************************)
(* A test that passes has compared every hand, and no hand differs: for    *)
(* every deck, every size of a hand and every number of processors, when a *)
(* thread cannot be started too.                                           *)
(***************************************************************************)
LEMMA PassedRight ==
  ASSUME TestInv, ParallelInv
  PROVE  PassRight
<1>1. SUFFICES ASSUME verdict = "passed"
               PROVE  wrong = {} /\ num_cpus > 0 /\ outcome = "returned"
  BY DEF PassRight
<1>2. ~failed /\ outcome = "returned" /\ num_cpus > 0
  BY <1>1 DEF TestInv, Passed
<1>3. \A t \in Parallel!Tasks : task[t] = "ended"
  BY <1>2 DEF ParallelInv, OutcomeRight
<1>4. idx >= end /\ idx \in Int /\ end \in Int
  <2>1. 0 \in Parallel!Tasks
    BY <1>2, DeckAssumption DEF Parallel!Tasks, ParallelInv, Parallel!TypeOK
  <2> QED BY <1>3, <2>1 DEF ParallelInv, Parallel!TypeOK, EndedLast
<1>5. ASSUME NEW S \in wrong
      PROVE  FALSE
  <2>1. PICK i \in FirstCards(test) : \E h \in HandsFrom[test][i] : CardsOf(h) = S
    BY EveryHandVisited DEF TestInv, GivenRight
  <2>2. i < idx /\ DiffersAt(i)
    BY <1>4, <2>1 DEF FirstCards, TestInv, GivenRight, DiffersAt
  <2> QED BY <1>2, <1>3, <2>2 DEF TestInv, LookedAt
<1> QED BY <1>2, <1>5

THEOREM PassMeansNoHandDiffers == Spec => []PassRight
<1>1. Parallel!Spec => []ParallelInv
  BY ParallelInvariance, PTL
<1>2. Spec => []TestInv
  BY <1>1, UsesParallelFor, InitTest, StepTest, PTL DEF Spec
<1> QED BY <1>1, <1>2, UsesParallelFor, PassedRight, PTL

-------------------------------------------------------------------------------
(***************************************************************************)
(* Why a test fails for no other reason than those of FailRight: as long   *)
(* as no hand differs, count is the number of the hands whose loop has     *)
(* been left, so that in the end it is the number of all hands.            *)
(***************************************************************************)
Left == {h \in LoopHands(test) :
           h[1] < idx /\ ~\E t \in Parallel!Tasks : task[t] = "calling" /\ index[t] = h[1]}
CountExact == wrong = {} => count = Cardinality(Left)
RaisedRight == \A t \in Parallel!Tasks : task[t] = "raised" => wrong # {}
Faulty == wrong # {} \/ num_cpus = 0 \/ outcome = "refused"
FailedRight == failed \/ verdict = "failed" => Faulty

FailInv == CountExact /\ RaisedRight /\ FailedRight

LEMMA LeftOf ==
  ASSUME TestInv
  PROVE  /\ test' = test => LoopHands(test)' = LoopHands(test)
         /\ IsFiniteSet(Left)
         /\ \A h \in LoopHands(test) : h[1] \in FirstCards(test)
<1>1. test \in Tests
  BY DEF TestInv, GivenRight
<1>2. Left \in SUBSET LoopHands(test) /\ IsFiniteSet(LoopHands(test))
  BY <1>1, EveryHandOnce DEF Left
<1>3. IsFiniteSet(Left)
  BY <1>2, FS_Subset
<1>4. \A h \in LoopHands(test) : h[1] \in FirstCards(test)
  BY <1>1, FirstOfHand DEF LoopHands
<1>5. test' = test => LoopHands(test)' = LoopHands(test)
  BY DEF LoopHands, FirstCards
<1> QED BY <1>3, <1>4, <1>5

LEMMA InitFail == Init => FailInv
<1> SUFFICES ASSUME Init PROVE FailInv
  OBVIOUS
<1>0. TestInv
  BY InitTest
<1>1. idx = Ranges[test][1]
  BY DEF Init
<1>2. Ranges[test][1] \in Int /\ Ranges[test][2] \in Int
  BY DeckAssumption DEF Init, Ranges, Tests
<1>3. \A h \in LoopHands(test) : ~(h[1] < idx)
  BY <1>0, <1>1, <1>2, LeftOf DEF FirstCards
<1>4. Left = {}
  BY <1>3 DEF Left
<1>5. CountExact
  BY <1>4, FS_EmptySet DEF Init, CountExact
<1> QED BY <1>5 DEF Init, FailInv, RaisedRight, FailedRight

LEMMA CallFail ==
  ASSUME TestInv, ParallelInv, FailInv, Call
  PROVE  FailInv'
<1>0. [Next]_vars BY DEF Next
<1>1. Parallel!Caller /\ UNCHANGED <<given, body, count, failed, verdict>>
  BY DEF Call
<1>2. /\ UNCHANGED <<num_cpus, idx, index, test, wrong>>
      /\ task' \in [Parallel!Tasks -> States]
      /\ \A t \in Parallel!Tasks : task'[t] # task[t] => task[t] = "none" /\ task'[t] = "fetching"
  BY <1>1, CallerKeepsTasks DEF Parallel!arguments, given
<1>3. \A t \in Parallel!Tasks : /\ task'[t] = "calling" <=> task[t] = "calling"
                              /\ task'[t] = "raised" => task[t] = "raised"
  BY <1>2
<1>4. Left' = Left
  BY <1>0, <1>2, <1>3, GivenKept, LeftOf DEF Left
<1>5. Faulty => Faulty'
  BY <1>1, <1>2
  DEF Faulty, ParallelInv, OutcomeRight, Parallel!Caller, Parallel!Launch,
      Parallel!LaunchFails,
      Parallel!AllLaunched, Parallel!Get, Parallel!GetRaises, Parallel!AllGot, Parallel!Leave
<1>6. RaisedRight'
  BY <1>0, <1>2, <1>3, GivenKept DEF FailInv, RaisedRight
<1> QED BY <1>1, <1>2, <1>4, <1>5, <1>6 DEF FailInv, CountExact, FailedRight

(***************************************************************************)
(* When ParallelFor returns every loop has been left.                      *)
(***************************************************************************)
LEMMA AllLeft ==
  ASSUME TestInv, ParallelInv, CountExact, outcome = "returned", num_cpus # 0, wrong = {}
  PROVE  count = NumberOfHands
<1>1. \A t \in Parallel!Tasks : task[t] = "ended"
  BY DEF ParallelInv, OutcomeRight
<1>2. idx >= end /\ idx \in Int /\ end \in Int
  <2>1. 0 \in Parallel!Tasks
    BY DeckAssumption DEF Parallel!Tasks, ParallelInv, Parallel!TypeOK
  <2> QED BY <1>1, <2>1 DEF ParallelInv, Parallel!TypeOK, EndedLast
<1>3. test \in Tests /\ end = Ranges[test][2]
  BY DEF TestInv, GivenRight
<1>4. \A h \in LoopHands(test) : h[1] < idx
  BY <1>2, <1>3, LeftOf DEF FirstCards
<1>5. Left = LoopHands(test)
  BY <1>1, <1>4 DEF Left
<1> QED BY <1>3, <1>5, EveryHandOnce DEF CountExact

LEMMA VerdictFail ==
  ASSUME TestInv, ParallelInv, FailInv, AssertCount \/ CatchException
  PROVE  FailInv'
<1>0. [Next]_vars BY DEF Next
<1>1. UNCHANGED <<idx, task, index, main, outcome, num_cpus, test, wrong, body, count>>
  BY DEF AssertCount, CatchException, parallel, given
<1>2. Left' = Left
  BY <1>0, <1>1, GivenKept, LeftOf DEF Left
<1>3. (CountExact /\ RaisedRight)' /\ (Faulty => Faulty')
  BY <1>0, <1>1, <1>2, GivenKept DEF FailInv, CountExact, RaisedRight, Faulty
<1>4. FailedRight'
  <2>1. CASE AssertCount
    <3>1. failed' = (failed \/ count # NumberOfHands) /\ outcome = "returned"
          /\ (verdict' = "failed" => failed')
      BY <2>1 DEF AssertCount
    <3>2. count # NumberOfHands => Faulty
      BY <3>1, AllLeft DEF FailInv, Faulty
    <3> QED BY <1>3, <3>1, <3>2 DEF FailInv, FailedRight
  <2>2. CASE CatchException
    <3>1. outcome \in {"raised", "refused"}
      BY <2>2 DEF CatchException
    <3>2. Faulty
      BY <3>1 DEF Faulty, FailInv, RaisedRight, ParallelInv, OutcomeRight
    <3> QED BY <1>3, <3>2 DEF FailedRight
  <2> QED BY <2>1, <2>2
<1> QED BY <1>3, <1>4 DEF FailInv

LEMMA TakeFail ==
  ASSUME TestInv, ParallelInv, FailInv, NEW t \in Parallel!Tasks, Take(t)
  PROVE  FailInv'
<1>0. [Next]_vars BY DEF Next
<1>1. /\ UNCHANGED <<body, count, failed, verdict, main, outcome, test, wrong, num_cpus>>
      /\ Parallel!Fetch(t) \/ Parallel!Break(t)
  BY GivenKept, <1>0
  DEF Take, Fetch, given, Parallel!Fetch, Parallel!Break, Parallel!callers
<1>2. /\ idx' = idx + 1 /\ idx \in Int /\ end \in Int
      /\ task[t] = "fetching" /\ index'[t] = idx
      /\ idx < end => task'[t] = "calling"
      /\ idx >= end => task'[t] = "ended"
      /\ \A u \in Parallel!Tasks \ {t} : task'[u] = task[u] /\ index'[u] = index[u]
  BY <1>1 DEF Parallel!Fetch, Parallel!Break, ParallelInv, Parallel!TypeOK
<1>3. ASSUME NEW h \in LoopHands(test)
      PROVE  /\ h[1] < idx' <=> h[1] < idx \/ (h[1] = idx /\ idx < end)
             /\ h[1] \in Int
  <2>1. h[1] \in FirstCards(test)
    BY LeftOf
  <2>2. h[1] \in Int /\ h[1] < end
    BY <1>2, <2>1 DEF FirstCards, TestInv, GivenRight
  <2> QED BY <1>2, <2>2
<1>4. Left' = Left
  <2>1. ASSUME NEW h \in LoopHands(test)
        PROVE  /\ h[1] < idx' /\ ~\E u \in Parallel!Tasks : task'[u] = "calling" /\ index'[u] = h[1]
               <=>
               /\ h[1] < idx /\ ~\E u \in Parallel!Tasks : task[u] = "calling" /\ index[u] = h[1]
    BY <1>2, <1>3
  <2> QED BY <1>0, <1>1, <2>1, GivenKept, LeftOf DEF Left
<1>5. RaisedRight'
  <2>1. task'[t] # "raised" /\ wrong' = wrong /\ Parallel!Tasks' = Parallel!Tasks
    BY <1>0, <1>1, <1>2, GivenKept
  <2> QED BY <1>2, <2>1 DEF FailInv, RaisedRight
<1> QED BY <1>1, <1>4, <1>5 DEF FailInv, CountExact, FailedRight, Faulty

LEMMA AddFail ==
  ASSUME TestInv, ParallelInv, FailInv, NEW t \in Parallel!Tasks, Add(t)
  PROVE  FailInv'
<1>0. [Next]_vars BY DEF Next
<1>1. /\ UNCHANGED <<idx, index, test, wrong, outcome, failed, verdict, num_cpus>>
      /\ \A u \in Parallel!Tasks \ {t} : task'[u] = task[u]
      /\ task[t] = "calling" /\ task'[t] = "fetching"
      /\ count' = count + Cardinality(HandsFrom[test][index[t]])
  BY DEF Add, Parallel!Returns, Parallel!callers, Parallel!arguments, given,
         ParallelInv, Parallel!TypeOK
<1> DEFINE new == HandsFrom[test][index[t]]
<1>2. index[t] \in FirstCards(test) /\ index[t] < idx
  BY <1>1 DEF ParallelInv, IndexTaken, Inside, TestInv, GivenRight, FirstCards
<1>3. \A u \in Parallel!Tasks \ {t} : task[u] = "calling" => index[u] # index[t]
  BY <1>1 DEF ParallelInv, OneTaskEach, Inside
<1>4. \A h : h \in new <=> h \in LoopHands(test) /\ h[1] = index[t]
  BY <1>2, FirstOfHand DEF TestInv, GivenRight
<1> HIDE DEF new
<1>5. Left' = Left \cup new /\ Left \cap new = {}
  <2>1. ASSUME NEW h \in LoopHands(test)
        PROVE  /\ h[1] < idx' /\ ~\E u \in Parallel!Tasks : task'[u] = "calling" /\ index'[u] = h[1]
               <=>
               \/ h[1] = index[t]
               \/ h[1] < idx /\ ~\E u \in Parallel!Tasks : task[u] = "calling" /\ index[u] = h[1]
    BY <1>1, <1>2, <1>3
  <2>2. Left' = {h \in LoopHands(test) :
                   h[1] < idx' /\ ~\E u \in Parallel!Tasks : task'[u] = "calling" /\ index'[u] = h[1]}
    BY <1>0, <1>1, GivenKept, LeftOf DEF Left
  <2>3. Left' = Left \cup new
    BY <1>4, <2>1, <2>2 DEF Left
  <2>4. Left \cap new = {}
    BY <1>1, <1>4 DEF Left
  <2> QED BY <2>3, <2>4
<1>6. CountExact'
  <2>1. new \in SUBSET LoopHands(test) /\ IsFiniteSet(LoopHands(test))
    BY <1>4, EveryHandOnce DEF TestInv, GivenRight
  <2>2. IsFiniteSet(new) /\ IsFiniteSet(Left)
    BY <2>1, FS_Subset, LeftOf
  <2>3. Cardinality(Left \cup new) = Cardinality(Left) + Cardinality(new)
    <3>1. Cardinality(Left \cap new) = 0 BY <1>5, FS_EmptySet
    <3>2. Cardinality(Left \cup new) = Cardinality(Left) + Cardinality(new) - Cardinality(Left \cap new)
      BY <2>2, FS_Union
    <3>3. Cardinality(Left) \in Nat /\ Cardinality(new) \in Nat
      BY <2>2, FS_CardinalityType
    <3> QED BY <3>1, <3>2, <3>3
  <2> QED BY <1>1, <1>5, <2>3 DEF FailInv, CountExact, new
<1>7. RaisedRight'
  BY <1>0, <1>1, GivenKept DEF FailInv, RaisedRight
<1> QED BY <1>1, <1>6, <1>7 DEF FailInv, FailedRight, Faulty

LEMMA AgreeFail ==
  ASSUME TestInv, ParallelInv, FailInv, NEW t \in Parallel!Tasks, Agree(t) \/ Disagree(t)
  PROVE  FailInv'
<1>0. [Next]_vars BY DEF Next
<1>1. CASE Agree(t)
  <2>1. UNCHANGED <<idx, task, index, outcome, num_cpus, test, wrong, count, failed, verdict>>
    BY <1>1 DEF Agree, parallel, given
  <2>2. Left' = Left
    BY <1>0, <2>1, GivenKept, LeftOf DEF Left
  <2> QED
    BY <1>0, <2>1, <2>2, GivenKept DEF FailInv, CountExact, RaisedRight, FailedRight,
        Faulty
<1>2. CASE Disagree(t)
  <2>1. wrong # {} /\ wrong' = wrong
    BY <1>2 DEF Disagree, Differs, given
  <2> QED BY <2>1 DEF FailInv, CountExact, RaisedRight, FailedRight, Faulty
<1> QED BY <1>1, <1>2

LEMMA StepFail == TestInv /\ ParallelInv /\ FailInv /\ [Next]_vars => FailInv'
<1> SUFFICES ASSUME TestInv, ParallelInv, FailInv, [Next]_vars PROVE FailInv'
  OBVIOUS
<1>1. CASE Call BY <1>1, CallFail
<1>2. CASE AssertCount \/ CatchException BY <1>2, VerdictFail
<1>3. CASE \E t \in Parallel!Tasks : Take(t) \/ Agree(t) \/ Add(t) \/ Disagree(t)
  BY <1>3, TakeFail, AddFail, AgreeFail
<1>4. CASE UNCHANGED vars
  <2>1. UNCHANGED <<given, idx, outcome, num_cpus, task, index, test, wrong, count, failed, verdict>>
    BY <1>4 DEF vars, parallel, given
  <2>2. Left' = Left
    BY <2>1, GivenKept, LeftOf DEF Left
  <2> QED BY <2>1, <2>2, GivenKept DEF FailInv, CountExact, RaisedRight, FailedRight,
      Faulty
<1> QED BY <1>1, <1>2, <1>3, <1>4 DEF Next

(***************************************************************************)
(* The verdict of an exhaustive test is right in both directions: a pass   *)
(* says that no hand differs, and when no hand differs, every thread is    *)
(* started and there is a processor, the test does not fail, in whichever  *)
(* order the tasks take the first cards and add to the count.              *)
(***************************************************************************)
THEOREM VerdictAlwaysRight == Spec => []VerdictRight
<1>1. Parallel!Spec => []ParallelInv
  BY ParallelInvariance, PTL
<1>2. Spec => []TestInv
  BY <1>1, UsesParallelFor, InitTest, StepTest, PTL DEF Spec
<1>3. Spec => []FailInv
  BY <1>1, <1>2, UsesParallelFor, InitFail, StepFail, PTL DEF Spec
<1>4. FailInv => FailRight
  BY DEF FailInv, FailedRight, Faulty, FailRight
<1> QED BY <1>3, <1>4, PassMeansNoHandDiffers, PTL DEF VerdictRight
=============================================================================
