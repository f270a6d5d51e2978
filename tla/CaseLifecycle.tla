--------------------------- MODULE CaseLifecycle ---------------------------
(***************************************************************************)
(* What the cases service promises of a case, with everything but its      *)
(* state left out: it is created open, moves along the transition table    *)
(* and never leaves "closed".  CaseService implements this specification.  *)
(***************************************************************************)
EXTENDS CaseStates

CONSTANT Cases      \* the case ids

VARIABLE lifecycle  \* lifecycle[k]: the state of case k, "none" before it exists

Init == lifecycle = [k \in Cases |-> "none"]

Create(k) ==
  /\ lifecycle[k] = "none"
  /\ lifecycle' = [lifecycle EXCEPT ![k] = "open"]

Move(k) ==
  \E t \in Transition : \E s \in NextStates(lifecycle[k], t) :
    lifecycle' = [lifecycle EXCEPT ![k] = s]

Next == \E k \in Cases : Create(k) \/ Move(k)

Spec == Init /\ [][Next]_lifecycle

=============================================================================
