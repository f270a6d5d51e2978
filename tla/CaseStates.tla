----------------------------- MODULE CaseStates -----------------------------
(***************************************************************************)
(* The state machine of a case: regulatory-svc/cases/src/state_machine.ts. *)
(***************************************************************************)

CaseState == {"open", "assigned", "in_action", "monitored", "closed"}

Transition == {"assign", "logAction", "monitor", "close"}

\* The transition table, as <<current, transition, next>>.
TABLE ==
  { <<"open",      "assign",    "assigned">>,
    <<"open",      "close",     "closed">>,
    <<"assigned",  "logAction", "in_action">>,
    <<"assigned",  "close",     "closed">>,
    <<"in_action", "logAction", "in_action">>,
    <<"in_action", "monitor",   "monitored">>,
    <<"in_action", "close",     "closed">>,
    <<"monitored", "logAction", "in_action">>,
    <<"monitored", "close",     "closed">> }

\* nextState(): where a transition leads; no element is IllegalTransition.
NextStates(current, transition) ==
  {s \in CaseState : <<current, transition, s>> \in TABLE}

=============================================================================
