------------------------- MODULE CollectionRouting -------------------------
(***************************************************************************)
(* Routing of cases to the bank's Collection module                        *)
(* (services/collection-adapter/src), with the side of the cases service   *)
(* it reads: the store, and the outbox of case events.                     *)
(*                                                                         *)
(* Each POST /process is a pass: it reads the whole outbox, then goes      *)
(* through the events it read and appends a route for every eligible case  *)
(* not routed yet.  It awaits the sink after every route.  The file sink   *)
(* answers at once, a slower one would not: the model lets passes          *)
(* interleave at every event.  The check (hasRouted) and the append it     *)
(* guards are one step.  What has been routed is kept in memory (seen) and *)
(* rebuilt from the routes at restart.                                     *)
(***************************************************************************)
EXTENDS Naturals, Sequences

CONSTANTS
  Cases,        \* case ids
  Passes,       \* requests to /process that may be in flight at once
  SeverityOf,   \* SeverityOf[k]: the severity on the record of case k
  LoanCases,    \* the cases whose record has a loan_id
  MaxEvents,    \* bound: case events in the outbox
  MaxLost,      \* bound: events lost between the store and the outbox
  MaxFailures   \* bound: restarts of the adapter and failing appends

Severity == {"critical", "high", "medium", "low"}

ASSUME SeverityAssumption == SeverityOf \in [Cases -> Severity]
ASSUME LoanAssumption == LoanCases \subseteq Cases
ASSUME BoundsAssumption == MaxEvents \in Nat /\ MaxLost \in Nat /\ MaxFailures \in Nat

VARIABLES
  stored,    \* the cases in the store of the cases service
  outbox,    \* the case events, in file order
  routes,    \* the lines of apex.collection.routes, in file order
  seen,      \* the sink's set of routed cases
  pass,      \* pass[p]: the events pass p read, and the one it is at
  lost,      \* events lost so far
  failures   \* restarts and failing appends so far

vars == <<stored, outbox, routes, seen, pass, lost, failures>>

\* An event as decideRoute sees it; has_loan: payload.loan_id is a string.
CaseEvent ==
  [ type     : {"case.created", "case.assigned"},
    case     : Cases,
    severity : Severity,
    has_loan : BOOLEAN ]

Reason == {"severity", "loan_default_track", "not_a_creation_event", "below_threshold"}

Route == [case : Cases, reason : Reason]

\* A pass that has not started, has ended or was cut short.
Idle == [read |-> <<>>, at |-> 1]

Done(p) == pass[p].at > Len(pass[p].read)

\* The cases in the routes file: what replay() adds to seen.
RoutedCases == {routes[i].case : i \in DOMAIN routes}

-----------------------------------------------------------------------------
\* Seeded fault: every later event of a case counts as severe.
DecideRouteAnyEvent(e) ==
  IF e.type = "case.created" /\ e.severity \in {"medium", "low"}
  THEN "below_threshold" ELSE "severity"

\* decideRoute(): the reason tells the decision.
DecideRoute(e) ==
  CASE e.type # "case.created" -> "not_a_creation_event"
    [] e.type = "case.created" /\ e.severity \in {"critical", "high"} -> "severity"
    [] e.type = "case.created" /\ e.severity = "medium" /\ e.has_loan -> "loan_default_track"
    [] OTHER -> "below_threshold"

Eligible(e) == DecideRoute(e) \in {"severity", "loan_default_track"}

-----------------------------------------------------------------------------
Init ==
  /\ stored = {}
  /\ outbox = <<>>
  /\ routes = <<>>
  /\ seen = {}
  /\ pass = [p \in Passes |-> Idle]
  /\ lost = 0
  /\ failures = 0

\* Seeded fault: the payload is left out of the event.
CreationEventUnrated(k) ==
  [type |-> "case.created", case |-> k, severity |-> "undefined", has_loan |-> FALSE]

\* The payload of case.created is {severity}: loan_id is not in it.
CreationEvent(k) ==
  [type |-> "case.created", case |-> k, severity |-> SeverityOf[k], has_loan |-> FALSE]

\* Other events carry no severity; decideRoute reads "low".
AssignmentEvent(k) ==
  [type |-> "case.assigned", case |-> k, severity |-> "low", has_loan |-> FALSE]

\* The cases service stores a case and appends its event, or dies between.
CreateCase(k) ==
  /\ k \notin stored
  /\ stored' = stored \cup {k}
  /\ \/ /\ Len(outbox) < MaxEvents
        /\ outbox' = Append(outbox, CreationEvent(k))
        /\ UNCHANGED lost
     \/ /\ lost < MaxLost
        /\ lost' = lost + 1
        /\ UNCHANGED outbox
  /\ UNCHANGED <<routes, seen, pass, failures>>

AssignCase(k) ==
  /\ k \in stored
  /\ Len(outbox) < MaxEvents
  /\ outbox' = Append(outbox, AssignmentEvent(k))
  /\ UNCHANGED <<stored, routes, seen, pass, lost, failures>>

\* POST /process: the pass reads the outbox.
StartPass(p) ==
  /\ Done(p)
  /\ outbox # <<>>
  /\ pass' = [pass EXCEPT ![p] = [read |-> outbox, at |-> 1]]
  /\ UNCHANGED <<stored, outbox, routes, seen, lost, failures>>

\* sink.emit(): the line is appended, then the case is remembered.
Emit(e) ==
  /\ routes' = Append(routes, [case |-> e.case, reason |-> DecideRoute(e)])
  /\ seen' = seen \cup {e.case}

\* The pass handles the event it is at: skip it, or route its case.
HandleEvent(p) ==
  LET e == pass[p].read[pass[p].at]
  IN  /\ ~Done(p)
      /\ pass' = [pass EXCEPT ![p].at = @ + 1]
      /\ IF Eligible(e) /\ e.case \notin seen
         THEN Emit(e)
         ELSE UNCHANGED <<routes, seen>>
      /\ UNCHANGED <<stored, outbox, lost, failures>>

\* Seeded fault: the case is remembered before its line is appended.
EmitFailsRemembered(p) ==
  LET e == pass[p].read[pass[p].at]
  IN  /\ ~Done(p)
      /\ failures < MaxFailures
      /\ Eligible(e) /\ e.case \notin seen
      /\ seen' = seen \cup {e.case}
      /\ pass' = [pass EXCEPT ![p] = Idle]
      /\ failures' = failures + 1
      /\ UNCHANGED <<stored, outbox, routes, lost>>

\* Seeded fault: the error is swallowed and the pass goes on.
EmitFailsSwallowed(p) ==
  LET e == pass[p].read[pass[p].at]
  IN  /\ ~Done(p)
      /\ failures < MaxFailures
      /\ Eligible(e) /\ e.case \notin seen
      /\ pass' = [pass EXCEPT ![p].at = @ + 1]
      /\ failures' = failures + 1
      /\ UNCHANGED <<stored, outbox, routes, seen, lost>>

\* The append of a route fails: process() rejects and the pass is over.
EmitFails(p) ==
  LET e == pass[p].read[pass[p].at]
  IN  /\ ~Done(p)
      /\ failures < MaxFailures
      /\ Eligible(e) /\ e.case \notin seen
      /\ pass' = [pass EXCEPT ![p] = Idle]
      /\ failures' = failures + 1
      /\ UNCHANGED <<stored, outbox, routes, seen, lost>>

\* Seeded fault: the routes written before the restart are not replayed.
RestartForgetful ==
  /\ failures < MaxFailures
  /\ failures' = failures + 1
  /\ pass' = [p \in Passes |-> Idle]
  /\ seen' = {}
  /\ UNCHANGED <<stored, outbox, routes, lost>>

\* The adapter dies and is started again: replay() rebuilds seen.
Restart ==
  /\ failures < MaxFailures
  /\ failures' = failures + 1
  /\ pass' = [p \in Passes |-> Idle]
  /\ seen' = RoutedCases
  /\ UNCHANGED <<stored, outbox, routes, lost>>

Next ==
  \/ \E k \in Cases : CreateCase(k) \/ AssignCase(k)
  \/ \E p \in Passes : StartPass(p) \/ HandleEvent(p) \/ EmitFails(p)
  \/ Restart

Spec == Init /\ [][Next]_vars

\* /process is called again and again, and a running pass goes on.
FairSpec ==
  /\ Spec
  /\ \A p \in Passes : WF_vars(StartPass(p)) /\ WF_vars(HandleEvent(p))

-----------------------------------------------------------------------------
(***************************************************************************)
(* Properties                                                              *)
(***************************************************************************)

\* Every variable holds what the source's types allow.
TypeOK ==
  /\ stored \subseteq Cases
  /\ outbox \in Seq(CaseEvent)
  /\ routes \in Seq(Route)
  /\ seen \subseteq Cases
  /\ pass \in [Passes -> [read : Seq(CaseEvent), at : Nat \ {0}]]
  /\ lost \in 0 .. MaxLost
  /\ failures \in 0 .. MaxFailures

\* "Routing is idempotent on case_id": no case gets two lines, however many
\* passes run at once over however often replayed events, and over restarts.
RoutedOnce ==
  \A i, j \in DOMAIN routes : routes[i].case = routes[j].case => i = j

\* The set the idempotency check reads is what the file says, also between
\* a failing append and the end of the pass it breaks off.
SeenIsRouted == seen = RoutedCases

\* What a pass has gone through is routed, by itself or by another pass: a
\* pass that ends without an error has left no eligible case behind.
PassLeavesNothing ==
  \A p \in Passes : \A i \in 1 .. pass[p].at - 1 :
    /\ pass[p].read[i].type = "case.created"
    /\ pass[p].read[i].severity \in {"critical", "high"}
    => pass[p].read[i].case \in RoutedCases

\* The cases of S that are routed for their severity alone.
Severe(S) == {k \in S : SeverityOf[k] \in {"critical", "high"}}

\* The cases of S that are to be routed, as router.ts states it: "severity in
\* { high, critical }", and "medium AND loan_id present".
Policy(S) == Severe(S) \cup {k \in S : SeverityOf[k] = "medium" /\ k \in LoanCases}

\* The cases whose creation event reached the outbox.
Announced == {k \in Cases : \E i \in DOMAIN outbox : outbox[i] = CreationEvent(k)}

\* When a pass is through with the outbox as it is now, Collection has the
\* severe cases of those announced (of all that are stored, if no event was
\* lost), and no case that was not announced or is not to be routed.  Whatever
\* failed, overlapped or restarted before is made up for.
CaughtUp ==
  \A p \in Passes : Done(p) /\ pass[p].read = outbox =>
    /\ Severe(Announced) \subseteq RoutedCases
    /\ RoutedCases \subseteq Policy(Announced)
    /\ lost = 0 => Severe(stored) \subseteq RoutedCases

\* Only stored cases that the policy escalates are ever sent to Collection,
\* whatever other events of them are in the outbox.
RoutesFollowPolicy == RoutedCases \subseteq Policy(stored)

\* A critical or high case whose creation event reached the outbox is routed
\* in the end, over failing appends and restarts, as /process is called again.
EventsGetRouted ==
  \A k \in Cases :
    k \in Severe(Announced) ~> k \in RoutedCases

\* "emitted [...] on every state transition": a critical or high case in the
\* store is routed in the end.
StoredCasesGetRouted ==
  \A k \in Cases :
    k \in Severe(stored) ~> k \in RoutedCases

=============================================================================
