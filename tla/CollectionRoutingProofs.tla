---------------------- MODULE CollectionRoutingProofs ----------------------
(***************************************************************************)
(* Theorems about CollectionRouting, for every number of cases, passes,    *)
(* events, lost events, failing appends and restarts.                      *)
(*                                                                         *)
(* Idempotency rests on seen being the cases in the file (SeenIsRouted):   *)
(* a line is only appended for a case outside seen, and the two change in  *)
(* the same step.  The policy needs what the events say (EventsAreTrue),   *)
(* in the outbox and in the copies that the passes read.  That a pass      *)
(* catches up needs that what it read begins the outbox (ReadsAreOld),     *)
(* and that no routed case is unannounced, nor a stored one unless its     *)
(* event was lost (Announcing).                                            *)
(***************************************************************************)
EXTENDS CollectionRouting, TLAPS

\* An event of the cases service speaks of one of the known cases, as its
\* creation event or as one that decideRoute skips.
Truthful(e, known) ==
  /\ e.case \in known
  /\ e = CreationEvent(e.case) \/ e = AssignmentEvent(e.case)

EventsAreTrue ==
  /\ \A i \in DOMAIN outbox : Truthful(outbox[i], stored)
  /\ \A p \in Passes : \A i \in DOMAIN pass[p].read : Truthful(pass[p].read[i], stored)

Routing == TypeOK /\ SeenIsRouted /\ RoutedOnce

Inv == Routing /\ EventsAreTrue /\ RoutesFollowPolicy /\ PassLeavesNothing

-----------------------------------------------------------------------------
\* The cases in the file after one more line.
LEMMA OneMoreRoute ==
  ASSUME NEW s \in Seq(Route), NEW r \in Route
  PROVE  {Append(s, r)[i].case : i \in DOMAIN Append(s, r)} = {s[i].case : i \in DOMAIN s} \cup {r.case}
<1>1. DOMAIN Append(s, r) = DOMAIN s \cup {Len(s) + 1}
  OBVIOUS
<1>2. \A i \in DOMAIN s : Append(s, r)[i] = s[i]
  OBVIOUS
<1>3. Append(s, r)[Len(s) + 1] = r
  OBVIOUS
<1> QED
  BY <1>1, <1>2, <1>3

\* decideRoute() gives one of its four reasons.
LEMMA DecideRouteTyped ==
  ASSUME NEW e \in CaseEvent
  PROVE  DecideRoute(e) \in Reason
BY DEF DecideRoute, Reason, CaseEvent

\* The event a running pass is at.
LEMMA CurrentEvent ==
  ASSUME TypeOK, NEW p \in Passes, ~Done(p)
  PROVE  /\ pass[p].at \in DOMAIN pass[p].read
         /\ pass[p].read[pass[p].at] \in CaseEvent
BY DEF TypeOK, Done

-----------------------------------------------------------------------------
LEMMA InitInv == Init => Inv
BY BoundsAssumption
   DEF Init, Inv, Routing, TypeOK, SeenIsRouted, RoutedOnce, RoutedCases, EventsAreTrue, RoutesFollowPolicy, Policy, Severe, PassLeavesNothing, Idle

\* Handling an event keeps the file free of second lines, and seen up to date.
LEMMA HandleRouting ==
  ASSUME Routing, NEW p \in Passes, HandleEvent(p)
  PROVE  Routing'
<1> DEFINE e == pass[p].read[pass[p].at]
           r == [case |-> e.case, reason |-> DecideRoute(e)]
<1>1. ~Done(p)
  BY DEF HandleEvent
<1>2. e \in CaseEvent
  BY <1>1, CurrentEvent DEF Routing
<1>3. pass' \in [Passes -> [read : Seq(CaseEvent), at : Nat \ {0}]]
  BY DEF Routing, TypeOK, HandleEvent
<1>4. CASE Eligible(e) /\ e.case \notin seen
  <2>1. r \in Route
    BY <1>2, DecideRouteTyped DEF Route, CaseEvent
  <2>2. routes' = Append(routes, r) /\ seen' = seen \cup {e.case}
    BY <1>4 DEF HandleEvent, Emit
  <2>3. routes \in Seq(Route)
    BY DEF Routing, TypeOK
  <2>4. TypeOK'
    <3>1. routes' \in Seq(Route)
      BY <2>1, <2>2, <2>3
    <3>2. seen' \subseteq Cases
      BY <1>2, <2>2 DEF Routing, TypeOK, CaseEvent
    <3> QED
      BY <1>3, <3>1, <3>2 DEF Routing, TypeOK, HandleEvent
  <2>5. SeenIsRouted'
    <3>1. RoutedCases' = RoutedCases \cup {r.case}
      BY <2>1, <2>2, <2>3, OneMoreRoute DEF RoutedCases
    <3> QED
      BY <2>2, <3>1 DEF Routing, SeenIsRouted
  <2>6. RoutedOnce'
    <3> SUFFICES ASSUME NEW i \in DOMAIN routes', NEW j \in DOMAIN routes', routes'[i].case = routes'[j].case
                 PROVE  i = j
      BY DEF RoutedOnce
    <3>1. \A k \in DOMAIN routes : routes[k].case # r.case
      BY <1>4 DEF Routing, SeenIsRouted, RoutedCases
    <3>2. DOMAIN routes' = DOMAIN routes \cup {Len(routes) + 1}
      BY <2>1, <2>2, <2>3
    <3>3. /\ \A k \in DOMAIN routes : routes'[k] = routes[k]
          /\ routes'[Len(routes) + 1] = r
      BY <2>1, <2>2, <2>3
    <3> QED
      BY <3>1, <3>2, <3>3 DEF Routing, RoutedOnce
  <2> QED
    BY <2>4, <2>5, <2>6 DEF Routing
<1>5. CASE ~(Eligible(e) /\ e.case \notin seen)
  <2>1. UNCHANGED <<routes, seen, stored, outbox, lost, failures>>
    BY <1>5 DEF HandleEvent
  <2> QED
    BY <1>3, <2>1 DEF Routing, TypeOK, SeenIsRouted, RoutedOnce, RoutedCases
<1> QED
  BY <1>4, <1>5

\* Every step keeps Routing: the other ones append no route, and a restart
\* rebuilds the seen that was there.
LEMMA RoutingStep == Routing /\ [Next]_vars => Routing'
<1> SUFFICES ASSUME Routing, [Next]_vars
             PROVE  Routing'
  OBVIOUS
<1> USE BoundsAssumption
<1>1. ASSUME NEW k \in Cases, CreateCase(k)
      PROVE  Routing'
  <2>1. CreationEvent(k) \in CaseEvent
    BY SeverityAssumption DEF CreationEvent, CaseEvent
  <2>2. UNCHANGED <<routes, seen, pass, failures>>
    BY <1>1 DEF CreateCase
  <2>3. outbox' \in Seq(CaseEvent) /\ lost' \in 0 .. MaxLost /\ stored' \subseteq Cases
    <3>1. outbox \in Seq(CaseEvent) /\ lost \in 0 .. MaxLost /\ stored \subseteq Cases
      BY DEF Routing, TypeOK
    <3>2. CASE outbox' = Append(outbox, CreationEvent(k)) /\ lost' = lost
      BY <1>1, <2>1, <3>1, <3>2 DEF CreateCase
    <3>3. CASE lost < MaxLost /\ lost' = lost + 1 /\ outbox' = outbox
      BY <1>1, <3>1, <3>3 DEF CreateCase
    <3> QED
      BY <1>1, <3>2, <3>3 DEF CreateCase
  <2> QED
    BY <2>2, <2>3 DEF Routing, TypeOK, SeenIsRouted, RoutedOnce, RoutedCases
<1>2. ASSUME NEW k \in Cases, AssignCase(k)
      PROVE  Routing'
  <2>1. AssignmentEvent(k) \in CaseEvent
    BY DEF AssignmentEvent, CaseEvent, Severity
  <2> QED
    BY <1>2, <2>1 DEF AssignCase, Routing, TypeOK, SeenIsRouted, RoutedOnce, RoutedCases
<1>3. ASSUME NEW p \in Passes, StartPass(p)
      PROVE  Routing'
  BY <1>3 DEF StartPass, Routing, TypeOK, SeenIsRouted, RoutedOnce, RoutedCases
<1>4. ASSUME NEW p \in Passes, HandleEvent(p)
      PROVE  Routing'
  BY <1>4, HandleRouting
<1>5. ASSUME NEW p \in Passes, EmitFails(p)
      PROVE  Routing'
  BY <1>5 DEF EmitFails, Idle, Routing, TypeOK, SeenIsRouted, RoutedOnce, RoutedCases
<1>6. CASE Restart
  BY <1>6 DEF Restart, Idle, Routing, TypeOK, SeenIsRouted, RoutedOnce, RoutedCases
<1>7. CASE UNCHANGED vars
  BY <1>7 DEF vars, Routing, TypeOK, SeenIsRouted, RoutedOnce, RoutedCases
<1> QED
  BY <1>1, <1>2, <1>3, <1>4, <1>5, <1>6, <1>7 DEF Next

-----------------------------------------------------------------------------
\* An eligible event that is truthful is the creation event of a case that
\* the policy routes: it speaks of a loan only when the case has one.
LEMMA EligibleFollowsPolicy ==
  ASSUME NEW e \in CaseEvent, Truthful(e, stored), Eligible(e)
  PROVE  e.case \in Policy(stored) /\ e = CreationEvent(e.case)
<1>1. e = CreationEvent(e.case)
  <2> SUFFICES ASSUME e = AssignmentEvent(e.case)
               PROVE  FALSE
    BY DEF Truthful
  <2>1. e.type # "case.created"
    BY DEF AssignmentEvent
  <2> QED
    BY <2>1 DEF Eligible, DecideRoute
<1>2. /\ e.type = "case.created"
      /\ e.severity = SeverityOf[e.case]
      /\ e.has_loan => e.case \in LoanCases
  BY <1>1 DEF CreationEvent
<1>3. e.severity \in {"critical", "high"} \/ (e.severity = "medium" /\ e.has_loan)
  <2> SUFFICES ASSUME e.severity \notin {"critical", "high"}, ~(e.severity = "medium" /\ e.has_loan)
               PROVE  FALSE
    OBVIOUS
  <2>1. DecideRoute(e) = "below_threshold"
    BY <1>2 DEF DecideRoute
  <2> QED
    BY <2>1 DEF Eligible
<1>4. e.case \in stored
  BY DEF Truthful
<1> QED
  BY <1>1, <1>2, <1>3, <1>4 DEF Policy, Severe

\* Events are true when written, and stay true: no case leaves the store.
LEMMA EventsStayTrue == TypeOK /\ EventsAreTrue /\ [Next]_vars => EventsAreTrue'
<1> SUFFICES ASSUME TypeOK, EventsAreTrue, [Next]_vars
             PROVE  EventsAreTrue'
  OBVIOUS
<1>1. ASSUME NEW e, NEW known, NEW more, Truthful(e, known), known \subseteq more
      PROVE  Truthful(e, more)
  BY <1>1 DEF Truthful
<1>2. ASSUME NEW e, Truthful(e, stored'), stored \subseteq stored', pass' = pass,
             outbox' = Append(outbox, e)
      PROVE  EventsAreTrue'
  <2>1. \A i \in DOMAIN outbox' : outbox'[i] = e \/ (i \in DOMAIN outbox /\ outbox'[i] = outbox[i])
    BY <1>2 DEF TypeOK
  <2>2. \A i \in DOMAIN outbox' : Truthful(outbox'[i], stored')
    BY <1>1, <1>2, <2>1 DEF EventsAreTrue
  <2>3. \A p \in Passes : \A i \in DOMAIN pass[p].read : Truthful(pass[p].read[i], stored')
    BY <1>1, <1>2 DEF EventsAreTrue
  <2> QED
    BY <1>2, <2>2, <2>3 DEF EventsAreTrue
<1>3. ASSUME outbox' = outbox, stored \subseteq stored',
             \A q \in Passes : pass'[q].read \in {<<>>, outbox, pass[q].read}
      PROVE  EventsAreTrue'
  <2>1. \A i \in DOMAIN outbox : Truthful(outbox[i], stored')
    BY <1>1, <1>3 DEF EventsAreTrue
  <2>2. ASSUME NEW q \in Passes, NEW i \in DOMAIN pass'[q].read
        PROVE  Truthful(pass'[q].read[i], stored')
    <3>1. pass'[q].read # <<>>
      BY <2>2
    <3>2. CASE pass'[q].read = outbox
      BY <2>1, <2>2, <3>2
    <3>3. CASE pass'[q].read = pass[q].read
      BY <1>1, <1>3, <2>2, <3>3 DEF EventsAreTrue
    <3> QED
      BY <1>3, <3>1, <3>2, <3>3
  <2> QED
    BY <1>3, <2>1, <2>2 DEF EventsAreTrue
<1>4. ASSUME NEW k \in Cases, CreateCase(k)
      PROVE  EventsAreTrue'
  <2>1. stored' = stored \cup {k} /\ pass' = pass
    BY <1>4 DEF CreateCase
  <2>2. Truthful(CreationEvent(k), stored')
    BY <2>1 DEF Truthful, CreationEvent
  <2>3. outbox' = Append(outbox, CreationEvent(k)) \/ outbox' = outbox
    BY <1>4 DEF CreateCase
  <2> QED
    BY <1>2, <1>3, <2>1, <2>2, <2>3
<1>5. ASSUME NEW k \in Cases, AssignCase(k)
      PROVE  EventsAreTrue'
  <2>1. UNCHANGED <<stored, pass>> /\ k \in stored /\ outbox' = Append(outbox, AssignmentEvent(k))
    BY <1>5 DEF AssignCase
  <2>2. Truthful(AssignmentEvent(k), stored')
    BY <2>1 DEF Truthful, AssignmentEvent
  <2> QED
    BY <1>2, <2>1, <2>2
<1>6. ASSUME NEW p \in Passes, StartPass(p) \/ HandleEvent(p) \/ EmitFails(p)
      PROVE  EventsAreTrue'
  <2>1. UNCHANGED <<stored, outbox>>
    BY <1>6 DEF StartPass, HandleEvent, EmitFails
  <2>2. \A q \in Passes : pass'[q].read \in {<<>>, outbox, pass[q].read}
    <3>1. CASE StartPass(p)
      BY <3>1 DEF StartPass, TypeOK
    <3>2. CASE HandleEvent(p)
      BY <3>2 DEF HandleEvent, TypeOK
    <3>3. CASE EmitFails(p)
      BY <3>3 DEF EmitFails, Idle, TypeOK
    <3> QED
      BY <1>6, <3>1, <3>2, <3>3
  <2> QED
    BY <1>3, <2>1, <2>2
<1>7. CASE Restart
  BY <1>3, <1>7 DEF Restart, Idle
<1>8. CASE UNCHANGED vars
  BY <1>3, <1>8 DEF vars
<1> QED
  BY <1>4, <1>5, <1>6, <1>7, <1>8 DEF Next

\* A step adds a case to the routes only when its event is eligible.
LEMMA PolicyStep ==
  Inv /\ [Next]_vars /\ Routing' => RoutesFollowPolicy'
<1> SUFFICES ASSUME Inv, [Next]_vars, Routing'
             PROVE  RoutesFollowPolicy'
  OBVIOUS
<1>1. ASSUME seen' = seen, stored \subseteq stored'
      PROVE  RoutesFollowPolicy'
  BY <1>1 DEF Inv, Routing, SeenIsRouted, RoutesFollowPolicy, Policy, Severe
<1>2. ASSUME NEW k \in Cases, CreateCase(k) \/ AssignCase(k)
      PROVE  RoutesFollowPolicy'
  BY <1>1, <1>2 DEF CreateCase, AssignCase
<1>3. ASSUME NEW p \in Passes, StartPass(p) \/ EmitFails(p)
      PROVE  RoutesFollowPolicy'
  BY <1>1, <1>3 DEF StartPass, EmitFails
<1>4. ASSUME NEW p \in Passes, HandleEvent(p)
      PROVE  RoutesFollowPolicy'
  <2> DEFINE e == pass[p].read[pass[p].at]
  <2>1. ~Done(p) /\ stored' = stored
    BY <1>4 DEF HandleEvent
  <2>2. CASE Eligible(e) /\ e.case \notin seen
    <3>1. seen' = seen \cup {e.case}
      BY <1>4, <2>2 DEF HandleEvent, Emit
    <3>2. e \in CaseEvent /\ pass[p].at \in DOMAIN pass[p].read
      BY <2>1, CurrentEvent DEF Inv, Routing
    <3>3. Truthful(e, stored)
      BY <3>2 DEF Inv, EventsAreTrue
    <3>4. e.case \in Policy(stored)
      BY <2>2, <3>2, <3>3, EligibleFollowsPolicy
    <3>5. Policy(stored') = Policy(stored)
      BY <2>1 DEF Policy, Severe
    <3> QED
      BY <3>1, <3>4, <3>5 DEF Inv, Routing, SeenIsRouted, RoutesFollowPolicy
  <2>3. CASE ~(Eligible(e) /\ e.case \notin seen)
    BY <1>1, <1>4, <2>3 DEF HandleEvent
  <2> QED
    BY <2>2, <2>3
<1>5. CASE Restart
  BY <1>1, <1>5 DEF Restart, Inv, Routing, SeenIsRouted
<1>6. CASE UNCHANGED vars
  BY <1>1, <1>6 DEF vars
<1> QED
  BY <1>2, <1>3, <1>4, <1>5, <1>6 DEF Next

\* A pass goes on only past an event it skips rightly, or whose case is now
\* routed; and no case leaves the routes.
LEMMA PassStep == Routing /\ PassLeavesNothing /\ [Next]_vars /\ Routing' => PassLeavesNothing'
<1> SUFFICES ASSUME Routing, PassLeavesNothing, [Next]_vars, Routing'
             PROVE  PassLeavesNothing'
  OBVIOUS
<1>1. ASSUME seen \subseteq seen',
             \A q \in Passes : pass'[q] = pass[q] \/ pass'[q].at = 1
      PROVE  PassLeavesNothing'
  <2>1. RoutedCases \subseteq RoutedCases'
    BY <1>1 DEF Routing, SeenIsRouted
  <2>2. ASSUME NEW q \in Passes, NEW i \in 1 .. pass'[q].at - 1
        PROVE  pass'[q] = pass[q]
    BY <1>1, <2>2
  <2> QED
    BY <2>1, <2>2 DEF PassLeavesNothing
<1>2. ASSUME NEW k \in Cases, CreateCase(k) \/ AssignCase(k)
      PROVE  PassLeavesNothing'
  BY <1>1, <1>2 DEF CreateCase, AssignCase
<1>3. ASSUME NEW p \in Passes, StartPass(p) \/ EmitFails(p)
      PROVE  PassLeavesNothing'
  <2>1. seen' = seen
    BY <1>3 DEF StartPass, EmitFails
  <2>2. \A q \in Passes : pass'[q] = pass[q] \/ pass'[q].at = 1
    <3>1. CASE StartPass(p)
      BY <3>1 DEF StartPass, Routing, TypeOK
    <3>2. CASE EmitFails(p)
      BY <3>2 DEF EmitFails, Idle, Routing, TypeOK
    <3> QED
      BY <1>3, <3>1, <3>2
  <2> QED
    BY <1>1, <2>1, <2>2
<1>4. ASSUME NEW p \in Passes, HandleEvent(p)
      PROVE  PassLeavesNothing'
  <2> DEFINE e == pass[p].read[pass[p].at]
             ToRoute(f) == f.type = "case.created" /\ f.severity \in {"critical", "high"}
  <2>1. ~Done(p) /\ e \in CaseEvent
    BY <1>4, CurrentEvent DEF HandleEvent, Routing
  <2>2. ToRoute(e) => Eligible(e)
    BY DEF Eligible, DecideRoute
  <2>3. seen \subseteq seen' /\ (ToRoute(e) => e.case \in seen')
    BY <1>4, <2>2 DEF HandleEvent, Emit
  <2>4. /\ \A q \in Passes \ {p} : pass'[q] = pass[q]
        /\ pass'[p].read = pass[p].read /\ pass'[p].at = pass[p].at + 1
    BY <1>4 DEF HandleEvent, Routing, TypeOK
  <2>5. ASSUME NEW q \in Passes, NEW i \in 1 .. pass'[q].at - 1, ToRoute(pass'[q].read[i])
        PROVE  pass'[q].read[i].case \in seen'
    <3>1. CASE q # p
      BY <2>3, <2>4, <2>5, <3>1 DEF Routing, SeenIsRouted, PassLeavesNothing
    <3>2. CASE q = p /\ i = pass[p].at
      BY <2>3, <2>4, <2>5, <3>2
    <3>3. CASE q = p /\ i # pass[p].at
      <4>1. i \in 1 .. pass[p].at - 1
        BY <2>4, <2>5, <3>3 DEF Routing, TypeOK
      <4> QED
        BY <2>3, <2>4, <2>5, <3>3, <4>1 DEF Routing, SeenIsRouted, PassLeavesNothing
    <3> QED
      BY <3>1, <3>2, <3>3
  <2> QED
    BY <2>5 DEF Routing, SeenIsRouted, PassLeavesNothing
<1>5. CASE Restart
  BY <1>1, <1>5 DEF Restart, Idle, Routing, SeenIsRouted
<1>6. CASE UNCHANGED vars
  BY <1>1, <1>6 DEF vars
<1> QED
  BY <1>2, <1>3, <1>4, <1>5, <1>6 DEF Next

LEMMA InvStep == Inv /\ [Next]_vars => Inv'
BY RoutingStep, EventsStayTrue, PolicyStep, PassStep DEF Inv, Routing

LEMMA InvAlways == Spec => []Inv
BY InitInv, InvStep, PTL DEF Spec

\* Type correctness, for any cases, passes and bounds.
THEOREM Typed == Spec => []TypeOK
BY InvAlways, PTL DEF Inv, Routing

\* No case gets two lines in apex.collection.routes (processor.ts checks
\* hasRouted before sink.emit), over any replays, overlaps and restarts.
THEOREM NeverRoutedTwice == Spec => []RoutedOnce
BY InvAlways, PTL DEF Inv, Routing

\* The set that hasRouted reads is the file, after any failure (sink.ts).
THEOREM SeenAlwaysRouted == Spec => []SeenIsRouted
BY InvAlways, PTL DEF Inv, Routing

\* Only stored cases that router.ts's policy routes are sent to Collection:
\* critical and high ones, and medium ones with a loan.
THEOREM PolicyAlwaysFollowed == Spec => []RoutesFollowPolicy
BY InvAlways, PTL DEF Inv

\* What a pass went through without an error is routed (processor.ts).
THEOREM PassesLeaveNothing == Spec => []PassLeavesNothing
BY InvAlways, PTL DEF Inv

-----------------------------------------------------------------------------
(***************************************************************************)
(* A pass that ends without an error leaves Collection exactly the cases   *)
(* the policy escalates.                                                   *)
(***************************************************************************)

\* What a pass read is a beginning of the outbox, which only grows.
ReadsAreOld ==
  \A p \in Passes : \A i \in DOMAIN pass[p].read : i \in DOMAIN outbox /\ outbox[i] = pass[p].read[i]

\* No case is routed unannounced, and none is unannounced unless its event was lost.
Announcing == seen \subseteq Announced /\ (lost = 0 => stored \subseteq Announced)

OutboxInv == Inv /\ ReadsAreOld /\ Announcing

LEMMA InitOutbox == Init => OutboxInv
BY InitInv DEF Init, OutboxInv, ReadsAreOld, Announcing, Idle

\* One more event announces what was announced, and the case it creates.
LEMMA AnnouncedGrows ==
  ASSUME TypeOK, NEW e \in CaseEvent, outbox' = Append(outbox, e)
  PROVE  /\ Announced \subseteq Announced'
         /\ \A k \in Cases : e = CreationEvent(k) => k \in Announced'
         /\ \A i \in DOMAIN outbox : i \in DOMAIN outbox' /\ outbox'[i] = outbox[i]
<1>1. /\ DOMAIN outbox' = DOMAIN outbox \cup {Len(outbox) + 1}
      /\ outbox'[Len(outbox) + 1] = e
      /\ \A i \in DOMAIN outbox : outbox'[i] = outbox[i]
  BY DEF TypeOK
<1> QED
  BY <1>1 DEF Announced

\* A step of the cases service: an event is appended, or lost and counted.
LEMMA ServiceStepOutbox ==
  ASSUME OutboxInv, Inv', UNCHANGED <<seen, pass>>,
         \/ /\ outbox' = outbox
            /\ lost' = lost + 1 \/ UNCHANGED <<lost, stored>>
         \/ \E e \in CaseEvent :
              /\ outbox' = Append(outbox, e)
              /\ lost' = lost
              /\ \A k \in stored' \ stored : e = CreationEvent(k)
  PROVE  OutboxInv'
<1>1. lost \in Nat /\ stored' \subseteq Cases /\ TypeOK
  BY DEF OutboxInv, Inv, Routing, TypeOK
<1>2. CASE outbox' = outbox /\ (lost' = lost + 1 \/ UNCHANGED <<lost, stored>>)
  BY <1>1, <1>2 DEF OutboxInv, ReadsAreOld, Announcing, Announced
<1>3. ASSUME NEW e \in CaseEvent, outbox' = Append(outbox, e), lost' = lost,
             \A k \in stored' \ stored : e = CreationEvent(k)
      PROVE  OutboxInv'
  <2>1. /\ Announced \subseteq Announced'
        /\ \A k \in Cases : e = CreationEvent(k) => k \in Announced'
        /\ \A i \in DOMAIN outbox : i \in DOMAIN outbox' /\ outbox'[i] = outbox[i]
    BY <1>1, <1>3, AnnouncedGrows
  <2>2. ReadsAreOld'
    BY <2>1 DEF OutboxInv, ReadsAreOld
  <2>3. Announcing'
    BY <1>1, <1>3, <2>1 DEF OutboxInv, Announcing
  <2> QED
    BY <2>2, <2>3 DEF OutboxInv
<1> QED
  BY <1>2, <1>3

\* A step of the adapter: a pass reads the outbox, goes on or ends, and what
\* becomes routed was announced.
LEMMA AdapterStepOutbox ==
  ASSUME OutboxInv, Inv', UNCHANGED <<stored, outbox, lost>>,
         seen' \subseteq Announced,
         \A q \in Passes : pass'[q].read \in {<<>>, outbox, pass[q].read}
  PROVE  OutboxInv'
<1>1. Announced' = Announced
  BY DEF Announced
<1>2. ReadsAreOld'
  <2> SUFFICES ASSUME NEW q \in Passes, NEW i \in DOMAIN pass'[q].read
               PROVE  i \in DOMAIN outbox /\ outbox[i] = pass'[q].read[i]
    BY DEF ReadsAreOld
  <2>1. pass'[q].read # <<>>
    OBVIOUS
  <2>2. CASE pass'[q].read = outbox
    BY <2>2
  <2>3. CASE pass'[q].read = pass[q].read
    BY <2>3 DEF OutboxInv, ReadsAreOld
  <2> QED
    BY <2>1, <2>2, <2>3
<1> QED
  BY <1>1, <1>2 DEF OutboxInv, Announcing

LEMMA OutboxStep == OutboxInv /\ [Next]_vars => OutboxInv'
<1> SUFFICES ASSUME OutboxInv, [Next]_vars
             PROVE  OutboxInv'
  OBVIOUS
<1>1. Inv' /\ TypeOK
  BY InvStep DEF OutboxInv, Inv, Routing
<1>2. ASSUME NEW k \in Cases, CreateCase(k)
      PROVE  OutboxInv'
  <2>1. CreationEvent(k) \in CaseEvent
    BY SeverityAssumption DEF CreationEvent, CaseEvent
  <2>2. stored' = stored \cup {k} /\ UNCHANGED <<seen, pass>>
    BY <1>2 DEF CreateCase
  <2>3. CASE outbox' = Append(outbox, CreationEvent(k)) /\ lost' = lost
    <3>1. \A j \in stored' \ stored : CreationEvent(k) = CreationEvent(j)
      BY <2>2
    <3> QED
      BY <1>1, <2>1, <2>2, <2>3, <3>1, ServiceStepOutbox
  <2>4. CASE outbox' = outbox /\ lost' = lost + 1
    BY <1>1, <2>2, <2>4, ServiceStepOutbox
  <2> QED
    BY <1>2, <2>3, <2>4 DEF CreateCase
<1>3. ASSUME NEW k \in Cases, AssignCase(k)
      PROVE  OutboxInv'
  <2>1. AssignmentEvent(k) \in CaseEvent
    BY DEF AssignmentEvent, CaseEvent, Severity
  <2>2. outbox' = Append(outbox, AssignmentEvent(k)) /\ UNCHANGED <<stored, lost, seen, pass>>
    BY <1>3 DEF AssignCase
  <2>3. \A j \in stored' \ stored : AssignmentEvent(k) = CreationEvent(j)
    BY <2>2
  <2> QED
    BY <1>1, <2>1, <2>2, <2>3, ServiceStepOutbox
<1>4. ASSUME NEW p \in Passes, StartPass(p) \/ EmitFails(p)
      PROVE  OutboxInv'
  <2>1. UNCHANGED <<stored, outbox, lost, seen>>
    BY <1>4 DEF StartPass, EmitFails
  <2>2. \A q \in Passes : pass'[q].read \in {<<>>, outbox, pass[q].read}
    <3>1. CASE StartPass(p)
      BY <1>1, <3>1 DEF StartPass, TypeOK
    <3>2. CASE EmitFails(p)
      BY <1>1, <3>2 DEF EmitFails, Idle, TypeOK
    <3> QED
      BY <1>4, <3>1, <3>2
  <2>3. seen' \subseteq Announced
    BY <2>1 DEF OutboxInv, Announcing
  <2> QED
    BY <1>1, <2>1, <2>2, <2>3, AdapterStepOutbox
<1>5. ASSUME NEW p \in Passes, HandleEvent(p)
      PROVE  OutboxInv'
  <2> DEFINE e == pass[p].read[pass[p].at]
  <2>1. UNCHANGED <<stored, outbox, lost>> /\ ~Done(p)
    BY <1>5 DEF HandleEvent
  <2>2. \A q \in Passes : pass'[q].read \in {<<>>, outbox, pass[q].read}
    BY <1>1, <1>5 DEF HandleEvent, TypeOK
  <2>3. seen' \subseteq Announced
    <3>1. CASE Eligible(e) /\ e.case \notin seen
      <4>1. pass[p].at \in DOMAIN pass[p].read /\ e \in CaseEvent
        BY <1>1, <2>1, CurrentEvent
      <4>2. Truthful(e, stored) /\ outbox[pass[p].at] = e /\ pass[p].at \in DOMAIN outbox
        BY <4>1 DEF OutboxInv, Inv, EventsAreTrue, ReadsAreOld
      <4>3. e = CreationEvent(e.case) /\ e.case \in Cases
        BY <3>1, <4>1, <4>2, EligibleFollowsPolicy DEF CaseEvent
      <4>4. e.case \in Announced
        BY <4>2, <4>3 DEF Announced
      <4>5. seen' = seen \cup {e.case}
        BY <1>5, <3>1 DEF HandleEvent, Emit
      <4> QED
        BY <4>4, <4>5 DEF OutboxInv, Announcing
    <3>2. CASE ~(Eligible(e) /\ e.case \notin seen)
      BY <1>5, <3>2 DEF HandleEvent, OutboxInv, Announcing
    <3> QED
      BY <3>1, <3>2
  <2> QED
    BY <1>1, <2>1, <2>2, <2>3, AdapterStepOutbox
<1>6. CASE Restart
  <2>1. UNCHANGED <<stored, outbox, lost>> /\ seen' = seen
    BY <1>6 DEF Restart, OutboxInv, Inv, Routing, SeenIsRouted
  <2>2. \A q \in Passes : pass'[q].read \in {<<>>, outbox, pass[q].read}
    BY <1>6 DEF Restart, Idle
  <2>3. seen' \subseteq Announced
    BY <2>1 DEF OutboxInv, Announcing
  <2> QED
    BY <1>1, <2>1, <2>2, <2>3, AdapterStepOutbox
<1>7. CASE UNCHANGED vars
  <2>1. UNCHANGED <<stored, outbox, lost, seen, pass>> /\ seen' \subseteq Announced
    BY <1>7 DEF vars, OutboxInv, Announcing
  <2> QED
    BY <1>1, <2>1, AdapterStepOutbox
<1> QED
  BY <1>2, <1>3, <1>4, <1>5, <1>6, <1>7 DEF Next

\* A pass of process() that ends on the present outbox has sent Collection
\* every severe case whose event was not lost, and no case unannounced or
\* beside the policy, whatever failed, overlapped or restarted before.
THEOREM PassesCatchUp == Spec => []CaughtUp
<1>1. OutboxInv => CaughtUp
  <2> SUFFICES ASSUME OutboxInv, NEW p \in Passes, Done(p), pass[p].read = outbox
               PROVE  /\ Severe(Announced) \subseteq RoutedCases
                      /\ RoutedCases \subseteq Policy(Announced)
                      /\ lost = 0 => Severe(stored) \subseteq RoutedCases
    BY DEF CaughtUp
  <2>1. RoutedCases \subseteq Policy(Announced)
    BY DEF OutboxInv, Inv, Routing, SeenIsRouted, Announcing, RoutesFollowPolicy, Policy, Severe
  <2>2. Severe(Announced) \subseteq RoutedCases
    <3> SUFFICES ASSUME NEW k \in Severe(Announced)
                 PROVE  k \in RoutedCases
      OBVIOUS
    <3>1. PICK i \in DOMAIN outbox : outbox[i] = CreationEvent(k)
      BY DEF Severe, Announced
    <3>2. i \in 1 .. pass[p].at - 1
      BY DEF Done, OutboxInv, Inv, Routing, TypeOK
    <3>3. CreationEvent(k).type = "case.created" /\ CreationEvent(k).severity \in {"critical", "high"}
            /\ CreationEvent(k).case = k
      BY DEF CreationEvent, Severe
    <3> QED
      BY <3>1, <3>2, <3>3 DEF OutboxInv, Inv, PassLeavesNothing
  <2>3. lost = 0 => Severe(stored) \subseteq Severe(Announced)
    BY DEF OutboxInv, Announcing, Severe
  <2> QED
    BY <2>1, <2>2, <2>3
<1>2. Spec => []OutboxInv
  BY InitOutbox, OutboxStep, PTL DEF Spec
<1> QED
  BY <1>1, <1>2, PTL

-----------------------------------------------------------------------------
(***************************************************************************)
(* The loan track.  router.ts says that the cases service includes the     *)
(* loan in the payload, and routes a medium case for it.                   *)
(***************************************************************************)

\* No line says that a case was routed for its loan.
LoanTrackUnused == \A i \in DOMAIN routes : routes[i].reason # "loan_default_track"

\* A step that appends a line appends one with another reason, as no event
\* carries a loan.
LEMMA LoanTrackStep == Inv /\ LoanTrackUnused /\ [Next]_vars => LoanTrackUnused'
<1> SUFFICES ASSUME Inv, LoanTrackUnused, [Next]_vars
             PROVE  LoanTrackUnused'
  OBVIOUS
<1>1. ASSUME routes' = routes
      PROVE  LoanTrackUnused'
  BY <1>1 DEF LoanTrackUnused
<1>2. ASSUME NEW k \in Cases, CreateCase(k) \/ AssignCase(k)
      PROVE  LoanTrackUnused'
  BY <1>1, <1>2 DEF CreateCase, AssignCase
<1>3. ASSUME NEW p \in Passes, StartPass(p) \/ EmitFails(p)
      PROVE  LoanTrackUnused'
  BY <1>1, <1>3 DEF StartPass, EmitFails
<1>4. ASSUME NEW p \in Passes, HandleEvent(p)
      PROVE  LoanTrackUnused'
  <2> DEFINE e == pass[p].read[pass[p].at]
             r == [case |-> e.case, reason |-> DecideRoute(e)]
  <2>1. ~Done(p)
    BY <1>4 DEF HandleEvent
  <2>2. pass[p].at \in DOMAIN pass[p].read /\ e \in CaseEvent
    BY <2>1, CurrentEvent DEF Inv, Routing
  <2>3. e = CreationEvent(e.case) \/ e = AssignmentEvent(e.case)
    BY <2>2 DEF Inv, EventsAreTrue, Truthful
  <2>4. e.has_loan = FALSE
    BY <2>3 DEF CreationEvent, AssignmentEvent
  <2>5. r.reason # "loan_default_track"
    BY <2>4 DEF DecideRoute
  <2>6. routes \in Seq(Route) /\ r \in Route
    BY <2>2, DecideRouteTyped DEF Inv, Routing, TypeOK, Route, CaseEvent
  <2>7. CASE routes' = Append(routes, r)
    BY <2>5, <2>6, <2>7 DEF LoanTrackUnused
  <2> QED
    BY <1>1, <1>4, <2>7 DEF HandleEvent, Emit
<1>5. CASE Restart
  BY <1>1, <1>5 DEF Restart
<1>6. CASE UNCHANGED vars
  BY <1>1, <1>6 DEF vars
<1> QED
  BY <1>2, <1>3, <1>4, <1>5, <1>6 DEF Next

\* The policy's second part is never applied: createFromAlert leaves the loan
\* out of the payload, so that decideRoute routes no case for it, in any run.
THEOREM LoansNeverRouted == Spec => []LoanTrackUnused
<1>1. Init => LoanTrackUnused
  BY DEF Init, LoanTrackUnused
<1> QED
  BY <1>1, InvAlways, LoanTrackStep, PTL DEF Spec

=============================================================================
