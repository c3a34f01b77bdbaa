------------------------------- MODULE EvalTests -------------------------------
(***************************************************************************)
(* The exhaustive tests of seven cards, CompareWithFiveEval and            *)
(* SevenCardHand: ParallelFor calls a loop over all hands of one first     *)
(* card, which counts the hands whose two ranks agree; a failing ASSERT_EQ *)
(* reports to googletest and returns from the loop, before the count is    *)
(* added, or raises when throw_on_failure is set.                          *)
(***************************************************************************)
EXTENDS Integers, FiniteSets

CONSTANTS DECK,       \* DECK_SIZE, 52
          CARDS,      \* the cards of a hand, seven
          MaxWrong,   \* bound on the hands whose ranks differ
          MaxCpus

ASSUME DeckAssumption ==
  CARDS \in Nat /\ CARDS > 1 /\ DECK \in Nat /\ DECK >= CARDS /\ MaxCpus \in Nat

VARIABLES begin, end, num_cpus, idx, main, cpu, outcome, task, index
VARIABLES
  test,        \* the test that runs
  wrong,       \* the hands whose ranks differ
  throwing,    \* the flag throw_on_failure
  body,        \* where the body of each task is: "looping" or "adding"
  count,       \* count
  failed,      \* a failure has been reported to googletest
  verdict      \* "none", and in the end "passed" or "failed"

parallel == <<begin, end, num_cpus, idx, main, cpu, outcome, task, index>>
given == <<test, wrong, throwing>>
vars == <<parallel, given, body, count, failed, verdict>>

Parallel == INSTANCE ParallelFor

Tests == {"CompareWithFiveEval", "SevenCardHand"}
Ranges == [CompareWithFiveEval |-> <<0, DECK - CARDS + 1>>, SevenCardHand |-> <<CARDS - 1, DECK>>]

(***************************************************************************)
(* The hands that the inner loops visit for i: ascending from i, with room *)
(* for the cards still to come, or descending.                             *)
(***************************************************************************)
Loops(name, i) ==
  {h \in [1 .. CARDS -> 0 .. DECK - 1] :
     /\ h[1] = i
     /\ IF name = "CompareWithFiveEval"
          THEN \A n \in 2 .. CARDS : h[n - 1] < h[n] /\ h[n] < DECK - CARDS + n
          ELSE \A n \in 2 .. CARDS : CARDS - n <= h[n] /\ h[n] < h[n - 1]}

HandsFrom == [name \in Tests |-> [i \in Ranges[name][1] .. Ranges[name][2] - 1 |-> Loops(name, i)]]

CardsOf(h) == {h[n] : n \in 1 .. CARDS}
Hands == {S \in SUBSET (0 .. DECK - 1) : Cardinality(S) = CARDS}

Init ==
  /\ test \in Tests /\ throwing \in BOOLEAN
  /\ wrong \in SUBSET Hands /\ Cardinality(wrong) <= MaxWrong
  /\ begin = Ranges[test][1] /\ end = Ranges[test][2]
  /\ num_cpus \in 0 .. MaxCpus
  /\ idx = begin
  /\ main = "launching" /\ cpu = 0 /\ outcome = "none"
  /\ task = [t \in Parallel!Tasks |-> "none"] /\ index = [t \in Parallel!Tasks |-> begin]
  /\ body = [t \in Parallel!Tasks |-> "looping"]
  /\ count = 0 /\ failed = FALSE /\ verdict = "none"

-------------------------------------------------------------------------------
(***************************************************************************)
(* The steps of ParallelFor itself.                                        *)
(***************************************************************************)
Call == Parallel!Caller /\ UNCHANGED <<given, body, count, failed, verdict>>
Fetch(t) == Parallel!Fetch(t) \/ Parallel!Break(t)
Take(t) == Fetch(t) /\ UNCHANGED <<given, body, count, failed, verdict>>

Differs(t) == \E h \in HandsFrom[test][index[t]] : CardsOf(h) \in wrong

(***************************************************************************)
(* All hands agree: inner_count is their number.                           *)
(***************************************************************************)
Agree(t) ==
  /\ task[t] = "calling" /\ body[t] = "looping" /\ ~Differs(t)
  /\ body' = [body EXCEPT ![t] = "adding"]
  /\ UNCHANGED <<parallel, given, count, failed, verdict>>

(***************************************************************************)
(* count += inner_count, atomic.                                           *)
(***************************************************************************)
Add(t) ==
  /\ body[t] = "adding"
  /\ count' = count + Cardinality(HandsFrom[test][index[t]])
  /\ body' = [body EXCEPT ![t] = "looping"]
  /\ Parallel!Returns(t)
  /\ UNCHANGED <<given, failed, verdict>>

(***************************************************************************)
(* AddTestPartResult, under its mutex: the failure is reported, and raised *)
(* if the flag says so.                                                    *)
(***************************************************************************)
Report(t) == /\ failed' = TRUE
             /\ IF throwing THEN Parallel!Raises(t) ELSE Parallel!Returns(t)

\* seeded fault: the failure is raised without being reported, and the loop goes on
DisagreeSilently(t) ==
  /\ task[t] = "calling" /\ body[t] = "looping" /\ Differs(t)
  /\ body' = [body EXCEPT ![t] = "adding"]
  /\ UNCHANGED <<parallel, given, count, failed, verdict>>

(***************************************************************************)
(* ASSERT_EQ fails for the first hand that differs and leaves the body.    *)
(***************************************************************************)
Disagree(t) ==
  /\ task[t] = "calling" /\ body[t] = "looping" /\ Differs(t)
  /\ Report(t)
  /\ UNCHANGED <<given, body, count, verdict>>

-------------------------------------------------------------------------------
(***************************************************************************)
(* The literal that count is compared with, 133784560.                     *)
(***************************************************************************)
NumberOfHands == Cardinality(Hands)

(***************************************************************************)
(* The last assertion of the test, and its verdict: passed unless a        *)
(* failure has been reported.                                              *)
(***************************************************************************)
AssertCount ==
  /\ main = "left" /\ outcome = "returned" /\ verdict = "none"
  /\ failed' = (failed \/ count # NumberOfHands)
  /\ verdict' = IF failed' THEN "failed" ELSE "passed"
  /\ UNCHANGED <<parallel, given, body, count>>

(***************************************************************************)
(* The exception of ParallelFor leaves the body of the test.               *)
(***************************************************************************)
CatchException ==
  /\ main = "left" /\ outcome \in {"raised", "refused"} /\ verdict = "none"
  /\ failed' = TRUE /\ verdict' = "failed"
  /\ UNCHANGED <<parallel, given, body, count>>

Next ==
  \/ Call \/ AssertCount \/ CatchException
  \/ \E t \in Parallel!Tasks : Take(t) \/ Agree(t) \/ Add(t) \/ Disagree(t)

Spec == Init /\ [][Next]_vars

(***************************************************************************)
(* Every thread runs on, and nothing in it waits but for the tasks: the    *)
(* caller (unless no thread can be started any more) and each task.        *)
(***************************************************************************)
Fairness ==
  /\ WF_vars(Call \/ AssertCount \/ CatchException)
  /\ \A t \in 0 .. MaxCpus - 1 :
       WF_vars(t \in Parallel!Tasks /\ (Take(t) \/ Agree(t) \/ Add(t) \/ Disagree(t)))
FairSpec == Spec /\ Fairness

-------------------------------------------------------------------------------
(***************************************************************************)
(* The tests are worth their time only if the verdict is right: a pass     *)
(* says that no hand differs, whatever the interleaving of the counters;   *)
(* and no test fails for any other reason than a hand that differs, a      *)
(* thread that cannot be started, or a machine that reports no processor,  *)
(* on which nothing would have been tested.                                *)
(***************************************************************************)
PassRight == verdict = "passed" => wrong = {} /\ num_cpus > 0 /\ outcome = "returned"
FailRight == verdict = "failed" => wrong # {} \/ num_cpus = 0 \/ outcome = "refused"
VerdictRight == PassRight /\ FailRight

NoDangling == Parallel!NoDangling
Promised == Parallel!Promised

(***************************************************************************)
(* The test ends, also when bodies raise or threads cannot be started.     *)
(***************************************************************************)
Finishes == <>(verdict # "none")
=============================================================================
