---------------------------- MODULE CaseService ----------------------------
(***************************************************************************)
(* The cases service (services/regulatory-svc/cases/src): CaseService over *)
(* the NDJSON CaseStore and the event outbox.                              *)
(*                                                                         *)
(* Every handler reads the case, checks it, upserts the whole record and   *)
(* appends one event to the outbox, with no await between the read and the *)
(* two appends: on Node's single thread a handler is one step.  Only a     *)
(* death of the process, or a failing append, separates the two: the       *)
(* record is then on disk and its event is in no file.  The approvals      *)
(* calls that follow do nothing over this store (ApprovalsClient.noop).    *)
(*                                                                         *)
(* A case id is a hash of (alert_id, customer_id) and an alert has one     *)
(* customer, so a case is named by its alert.  The tenant is not hashed.   *)
(***************************************************************************)
EXTENDS CaseStates, Naturals

CONSTANTS
  Cases,        \* case ids, one per alert
  Tenants,      \* values of X-Tenant-ID
  Users,        \* officers, makers and checkers
  Outcomes,     \* what a case may be closed with
  CasIds,       \* ids newCasId may return
  CapIds,       \* ids newCapId may return
  None,         \* null
  AlertsOf,     \* AlertsOf[t]: the alerts tenant t's callers post to /cases
  MaxActions,   \* bound: actions logged on a case
  MaxCrashes    \* bound: deaths of the process between the two appends

ASSUME NoneAssumption == None \notin Tenants \cup Users \cup Outcomes
ASSUME AlertsOfAssumption == AlertsOf \in [Tenants -> SUBSET Cases]
ASSUME BoundsAssumption == MaxActions \in Nat /\ MaxCrashes \in Nat

VARIABLES
  cases,      \* cases[k]: the record of case k in the store
  published,  \* published[k]: the last event of case k in the outbox
  unsent,     \* the cases whose last upsert is not followed by its event
  crashes     \* deaths so far

vars == <<cases, published, unsent, crashes>>

ReviewOutcome == {"approved", "rework", "rejected"}
ReviewStatus == {"pending"} \cup ReviewOutcome
CapStatus == {"open", "in_progress", "closed", "overdue"}

EventType ==
  {"case.created", "case.assigned", "case.action_logged", "case.monitored",
   "case.closed", "case.cas_submitted", "case.cas_reviewed",
   "case.cap_proposed", "case.cap_approved", "case.cap_closed"}

\* An id that is not on the case has status "absent".
CasRecord == [status : ReviewStatus \cup {"absent"}, reviewed_by : Users \cup {None}]
Cap == [status : CapStatus \cup {"absent"}, approved_by : Users \cup {None}]

\* outcome stands for outcome and closed_at, which close() sets together;
\* actions is the length of the action log.
Case ==
  [ tenant   : Tenants \cup {None},
    state    : CaseState \cup {"none"},
    assignee : Users \cup {None},
    outcome  : Outcomes \cup {None},
    actions  : Nat,
    cas      : [CasIds -> CasRecord],
    caps     : [CapIds -> Cap] ]

CaseEvent ==
  [ type  : EventType \cup {"none"},
    prior : CaseState \cup {"none"},
    new   : CaseState \cup {"none"} ]

\* A record with nothing on it yet.
Blank(t, s) ==
  [ tenant   |-> t,
    state    |-> s,
    assignee |-> None,
    outcome  |-> None,
    actions  |-> 0,
    cas      |-> [i \in CasIds |-> [status |-> "absent", reviewed_by |-> None]],
    caps     |-> [i \in CapIds |-> [status |-> "absent", approved_by |-> None]] ]

NoCase == Blank(None, "none")

\* Seeded fault: the new record's assignee is filled from the tenant header.
NewCaseTenantAssigned(t) == [Blank(t, "open") EXCEPT !.assignee = t]

\* The record createFromAlert builds for tenant t.
NewCase(t) == Blank(t, "open")

NoEvent == [type |-> "none", prior |-> "none", new |-> "none"]

\* store.get and store.getByAlert: another tenant's record is not found.
Has(t, k) == cases[k].state # "none" /\ cases[k].tenant = t

\* Seeded fault: an approved CAP no longer blocks.
BlockingUnapproved(c) == {i \in CapIds : c.caps[i].status \in {"open", "overdue"}}

\* The CAPs that make close() answer 409.
Blocking(c) == {i \in CapIds : c.caps[i].status \in {"open", "in_progress", "overdue"}}

-----------------------------------------------------------------------------
\* emit(): the event of an upsert of case k is appended to the outbox.
Emit(k, type, prior, new) ==
  /\ published' = [published EXCEPT ![k] = [type |-> type, prior |-> prior, new |-> new]]
  /\ unsent' = unsent \ {k}
  /\ UNCHANGED crashes

\* The process dies after the upsert of case k, before its event is written.
DieBeforeEmit(k) ==
  /\ crashes < MaxCrashes
  /\ crashes' = crashes + 1
  /\ unsent' = unsent \cup {k}
  /\ UNCHANGED published

\* Seeded fault: the event is built from the record read before the change.
CommitStale(k, c, type, prior) ==
  /\ cases' = [cases EXCEPT ![k] = c]
  /\ Emit(k, type, prior, cases[k].state) \/ DieBeforeEmit(k)

\* The end of every handler: the record is upserted, its event emitted.
Commit(k, c, type, prior) ==
  /\ cases' = [cases EXCEPT ![k] = c]
  /\ Emit(k, type, prior, c.state) \/ DieBeforeEmit(k)

\* Seeded fault: prior_state is read after the state was assigned.
TransitLatePrior(k, transition, c, type) ==
  \E s \in NextStates(cases[k].state, transition) :
    Commit(k, [c EXCEPT !.state = s], type, s)

\* A transition of the state machine, with the fields its handler sets.
Transit(k, transition, c, type) ==
  \E s \in NextStates(cases[k].state, transition) :
    Commit(k, [c EXCEPT !.state = s], type, cases[k].state)

\* A handler that changes a CAS or a CAP and leaves the state alone.
Amend(k, c, type) == Commit(k, c, type, cases[k].state)

Init ==
  /\ cases = [k \in Cases |-> NoCase]
  /\ published = [k \in Cases |-> NoEvent]
  /\ unsent = {}
  /\ crashes = 0

\* Seeded fault: a repeated delivery is not recognised.
CreateFromAlertAgain(t, k) ==
  /\ k \in AlertsOf[t]
  /\ Commit(k, NewCase(t), "case.created", "none")

\* A repeated delivery (Has) returns the existing case and changes nothing.
CreateFromAlert(t, k) ==
  /\ k \in AlertsOf[t]
  /\ ~Has(t, k)
  /\ Commit(k, NewCase(t), "case.created", "none")

\* Seeded fault: reassignment that does not go through the transition table.
AssignAnyState(t, k, u) ==
  /\ Has(t, k)
  /\ Amend(k, [cases[k] EXCEPT !.assignee = u], "case.assigned")

Assign(t, k, u) ==
  /\ Has(t, k)
  /\ Transit(k, "assign", [cases[k] EXCEPT !.assignee = u], "case.assigned")

\* Seeded fault: the action is not appended to the log.
LogActionUnlogged(t, k) ==
  /\ Has(t, k)
  /\ cases[k].actions < MaxActions
  /\ Transit(k, "logAction", cases[k], "case.action_logged")

LogAction(t, k) ==
  /\ Has(t, k)
  /\ cases[k].actions < MaxActions
  /\ Transit(k, "logAction", [cases[k] EXCEPT !.actions = @ + 1], "case.action_logged")

Monitor(t, k) ==
  /\ Has(t, k)
  /\ Transit(k, "monitor", cases[k], "case.monitored")

Close(t, k, o) ==
  /\ Has(t, k)
  /\ Blocking(cases[k]) = {}
  /\ Transit(k, "close", [cases[k] EXCEPT !.outcome = o], "case.closed")

\* CAS and CAP handlers do not look at the state of the case: they also
\* run on a closed one.
SubmitCas(t, k, i) ==
  /\ Has(t, k)
  /\ cases[k].cas[i].status = "absent"
  /\ Amend(k, [cases[k] EXCEPT !.cas[i].status = "pending"], "case.cas_submitted")

\* Seeded fault: the "already reviewed" check is missing.
ReviewCasAgain(t, k, i, u, r) ==
  /\ Has(t, k)
  /\ cases[k].cas[i].status # "absent"
  /\ Amend(k, [cases[k] EXCEPT !.cas[i] = [status |-> r, reviewed_by |-> u]],
           "case.cas_reviewed")

ReviewCas(t, k, i, u, r) ==
  /\ Has(t, k)
  /\ cases[k].cas[i].status = "pending"
  /\ Amend(k, [cases[k] EXCEPT !.cas[i] = [status |-> r, reviewed_by |-> u]],
           "case.cas_reviewed")

ProposeCap(t, k, i) ==
  /\ Has(t, k)
  /\ cases[k].caps[i].status = "absent"
  /\ Amend(k, [cases[k] EXCEPT !.caps[i].status = "open"], "case.cap_proposed")

\* approve = FALSE leaves the CAP open; only its comments and the event tell.
ApproveCap(t, k, i, u, approve) ==
  /\ Has(t, k)
  /\ cases[k].caps[i].status = "open"
  /\ Amend(k, IF approve
              THEN [cases[k] EXCEPT !.caps[i] = [status |-> "in_progress", approved_by |-> u]]
              ELSE cases[k],
           "case.cap_approved")

\* Seeded fault: a CAP can be closed without having been approved.
CloseCapUnapproved(t, k, i) ==
  /\ Has(t, k)
  /\ cases[k].caps[i].status \in {"open", "in_progress", "overdue"}
  /\ Amend(k, [cases[k] EXCEPT !.caps[i].status = "closed"], "case.cap_closed")

CloseCap(t, k, i) ==
  /\ Has(t, k)
  /\ cases[k].caps[i].status \in {"in_progress", "overdue"}
  /\ Amend(k, [cases[k] EXCEPT !.caps[i].status = "closed"], "case.cap_closed")

Next ==
  \E t \in Tenants, k \in Cases :
    \/ CreateFromAlert(t, k)
    \/ \E u \in Users : Assign(t, k, u)
    \/ LogAction(t, k)
    \/ Monitor(t, k)
    \/ \E o \in Outcomes : Close(t, k, o)
    \/ \E i \in CasIds : SubmitCas(t, k, i)
    \/ \E i \in CasIds, u \in Users, r \in ReviewOutcome : ReviewCas(t, k, i, u, r)
    \/ \E i \in CapIds : ProposeCap(t, k, i)
    \/ \E i \in CapIds, u \in Users, approve \in BOOLEAN : ApproveCap(t, k, i, u, approve)
    \/ \E i \in CapIds : CloseCap(t, k, i)

Spec == Init /\ [][Next]_vars

-----------------------------------------------------------------------------
(***************************************************************************)
(* Properties                                                              *)
(***************************************************************************)

\* Every variable holds what the source's types allow.
TypeOK ==
  /\ cases \in [Cases -> Case]
  /\ published \in [Cases -> CaseEvent]
  /\ unsent \subseteq Cases
  /\ crashes \in 0 .. MaxCrashes

\* The fields a record collects on its way through the workflow agree with
\* its state, whichever handlers ran and whatever was lost on the way: an
\* outcome is there exactly when the case is closed, a case at work has an
\* assignee, and one in action or monitored has a logged action.
FieldsFit(c) ==
  /\ c.state = "none" <=> c.tenant = None
  /\ c.state = "closed" <=> c.outcome # None
  /\ c.state \in {"assigned", "in_action", "monitored"} => c.assignee # None
  /\ c.state \in {"in_action", "monitored"} => c.actions > 0
  /\ c.actions > 0 => c.assignee # None

FieldsAgree == \A k \in Cases : FieldsFit(cases[k])

\* Maker-checker: a CAP being worked on or done was approved by someone and
\* a CAP still open by no one; a CAS is decided exactly when it has a reviewer.
Attributed(c) ==
  /\ \A i \in CapIds :
       c.caps[i].status \in {"in_progress", "closed", "overdue"} <=> c.caps[i].approved_by # None
  /\ \A i \in CasIds :
       c.cas[i].status \in ReviewOutcome <=> c.cas[i].reviewed_by # None

DecisionsAttributed == \A k \in Cases : Attributed(cases[k])

\* The outbox tells a consumer the state the store holds, except for a case
\* whose process died between the upsert and the emit of its last change.
PublishedAgrees ==
  \A k \in Cases \ unsent : published[k].new = cases[k].state

\* No handler's write undoes or drops an earlier decision: a CAP only goes
\* open, in_progress, closed and keeps its approver; a decided CAS never changes.
CapKept(old, new) ==
  \/ new = old
  \/ old.status = "absent" /\ new.status = "open"
  \/ old.status = "open" /\ new.status = "in_progress"
  \/ old.status \in {"in_progress", "overdue"} /\ new.status = "closed"
     /\ new.approved_by = old.approved_by

CasKept(old, new) ==
  \/ new = old
  \/ old.status = "absent" /\ new.status = "pending"
  \/ old.status = "pending" /\ new.status \in ReviewOutcome

DecisionsKept(old, new) ==
  /\ \A i \in CapIds : CapKept(old.caps[i], new.caps[i])
  /\ \A i \in CasIds : CasKept(old.cas[i], new.cas[i])

DecisionsFinal == [][\A k \in Cases : DecisionsKept(cases[k], cases'[k])]_cases

\* "Case cannot close while any CAP is open": when a case closes, every CAP
\* ever proposed on it is closed.
ClosesDone(old, new) ==
  old.state # "closed" /\ new.state = "closed" =>
    \A i \in CapIds : new.caps[i].status \in {"absent", "closed"}

CloseNeedsCapsDone == [][\A k \in Cases : ClosesDone(cases[k], cases'[k])]_cases

\* A closed case keeps its owner, outcome, assignee and action log: CAS and
\* CAP handlers, which do run on it, rewrite the record but not these.
Frozen(old, new) ==
  old.state = "closed" =>
    /\ new.tenant = old.tenant
    /\ new.state = old.state
    /\ new.outcome = old.outcome
    /\ new.assignee = old.assignee
    /\ new.actions = old.actions

ClosedIsFrozen == [][\A k \in Cases : Frozen(cases[k], cases'[k])]_cases

\* Consecutive events of a case chain: each one's prior_state is the
\* new_state of the one before, unless an event between them was lost.
EventsChain ==
  [][\A k \in Cases \ unsent :
       published'[k] # published[k] => published'[k].prior = published[k].new
    ]_published

\* Each tenant's case goes through the promised lifecycle, undisturbed by
\* the other tenants.  It rests on no alert id being used by two tenants.
TenantLifecycle == INSTANCE CaseLifecycle WITH
  Cases <- Tenants \X Cases,
  lifecycle <- [p \in Tenants \X Cases |-> IF Has(p[1], p[2]) THEN cases[p[2]].state ELSE "none"]

TenantCasesIsolated == TenantLifecycle!Spec

=============================================================================
