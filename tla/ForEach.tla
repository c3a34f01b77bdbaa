-------------------------------- MODULE ForEach --------------------------------
(***************************************************************************)
(* What ParallelFor promises its caller, with no threads in it: the body   *)
(* is called once for every index, in any order and any number at a time,  *)
(* and the call is over when no body runs any more.                        *)
(***************************************************************************)
VARIABLES
  any_thread,  \* FALSE on a machine that reports no processor: nothing is called there
  indices,     \* the indices from begin up to end
  call,        \* what became of the call of the body for each of them
  outcome      \* "running", or how ParallelFor ended

vars == <<any_thread, indices, call, outcome>>

Init == /\ call = [i \in indices |-> "due"]
        /\ outcome = "running"

Becomes(i, from, to) == /\ outcome = "running" /\ call[i] = from
                        /\ call' = [call EXCEPT ![i] = to]
                        /\ UNCHANGED <<any_thread, indices, outcome>>

Begin(i) == Becomes(i, "due", "running")
End(i) == Becomes(i, "running", "done")
Throw(i) == Becomes(i, "running", "raised")

Ends(how) == /\ outcome = "running" /\ \A i \in indices : call[i] # "running"
             /\ outcome' = how
             /\ UNCHANGED <<any_thread, indices, call>>

(***************************************************************************)
(* It returns only when the body has returned for every index.             *)
(***************************************************************************)
Return == /\ Ends("returned")
          /\ any_thread => \A i \in indices : call[i] = "done"

(***************************************************************************)
(* It raises what a body has raised, or refuses when a thread cannot be    *)
(* started.                                                                *)
(***************************************************************************)
Raise == Ends("raised") /\ \E i \in indices : call[i] = "raised"
Refuse == Ends("refused")

Next == (\E i \in indices : Begin(i) \/ End(i) \/ Throw(i)) \/ Return \/ Raise \/ Refuse

Spec == Init /\ [][Next]_vars
=============================================================================
