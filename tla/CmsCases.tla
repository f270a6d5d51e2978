------------------------------- MODULE CmsCases -------------------------------
(***************************************************************************)
(* The case management system of the BFF: InMemoryCmsCaseStore             *)
(* (services/bff/src/cms_store.ts) over the state machine, the SLA helpers *)
(* and the auto-escalation plan of cms_cases.ts.                           *)
(*                                                                         *)
(* Every operation is one synchronous call, so an action is a whole call.  *)
(* A case carries a lock: close() sets it, and until the case is reopened  *)
(* every other operation refuses it.  Next to the case the store keeps its *)
(* history, of which the newest entry that shows a status is kept here,    *)
(* and its assignments, of which those not ended yet are.                  *)
(***************************************************************************)
EXTENDS Naturals

CONSTANTS
  Cases,      \* case ids that may be drawn
  Tenants,
  TenantOf,   \* TenantOf[c]: the tenant the case c belongs to
  Users,      \* assignees
  Priorities,
  Windows,    \* CMS_SLA_WINDOWS_MS, in the model's units of time
  Threshold,  \* cases.auto_escalate_at_pct, in percent
  None,       \* null
  MaxTime,    \* bound: the clock
  MaxMoves    \* bound: operations on cases

ASSUME TenantsAssumption == TenantOf \in [Cases -> Tenants]
ASSUME WindowsAssumption == Windows \in [Priorities -> Nat \ {0}]
ASSUME UsersAssumption == None \notin Users

VARIABLES
  case,     \* case[c], None while c is not drawn
  recorded, \* recorded[c]: the status the history of c shows last
  holding,  \* holding[c]: assignees of the rows without an unassigned_at
  now,      \* the clock
  moves     \* operations so far

cmsVars == <<case, recorded, holding, moves>>

CmsCaseState ==
  {"OPEN", "ASSIGNED", "INVESTIGATING", "PENDING_APPROVAL", "ESCALATED", "CLOSED", "REOPENED"}

ALLOWED ==
  { <<"OPEN", "ASSIGNED">>, <<"OPEN", "CLOSED">>,
    <<"ASSIGNED", "INVESTIGATING">>, <<"ASSIGNED", "ESCALATED">>, <<"ASSIGNED", "CLOSED">>,
    <<"INVESTIGATING", "PENDING_APPROVAL">>, <<"INVESTIGATING", "ESCALATED">>,
    <<"INVESTIGATING", "CLOSED">>,
    <<"PENDING_APPROVAL", "CLOSED">>, <<"PENDING_APPROVAL", "INVESTIGATING">>,
    <<"PENDING_APPROVAL", "ESCALATED">>,
    <<"ESCALATED", "INVESTIGATING">>, <<"ESCALATED", "CLOSED">>,
    <<"CLOSED", "OPEN">>,
    <<"REOPENED", "ASSIGNED">>, <<"REOPENED", "CLOSED">> }

Case ==
  [ status   : CmsCaseState,
    locked   : BOOLEAN,
    resolved : BOOLEAN,  \* resolution_category and resolved_at are set
    assignee : Users \cup {None},
    priority : Priorities,
    created  : Nat,
    due      : Nat ]
ASSUME CaseAssumption == None \notin Case

CmsInit ==
  /\ case = [c \in Cases |-> None]
  /\ recorded = [c \in Cases |-> None]
  /\ holding = [c \in Cases |-> {}]
  /\ now = 0
  /\ moves = 0

Drawn(c) == case[c] # None

\* requireCase() and rejectIfLocked().
Open(c) == Drawn(c) /\ ~case[c].locked

Move == moves < MaxMoves /\ moves' = moves + 1

\* upsert and writeHistory: the case becomes v, and the history says so.
Store(c, v) ==
  /\ Move
  /\ case' = [case EXCEPT ![c] = v]
  /\ recorded' = [recorded EXCEPT ![c] = v.status]
  /\ UNCHANGED now

Create(c, p, u) ==
  /\ case[c] = None
  /\ Store(c, [ status   |-> IF u = None THEN "OPEN" ELSE "ASSIGNED",
                locked   |-> FALSE,
                resolved |-> FALSE,
                assignee |-> u,
                priority |-> p,
                created  |-> now,
                due      |-> now + Windows[p] ])
  /\ holding' = [holding EXCEPT ![c] = {u} \ {None}]

\* What update() makes of the case v: another priority gives another deadline,
\* counted from the creation of the case.
Repriced(v, p) ==
  IF p = v.priority THEN v ELSE [v EXCEPT !.priority = p, !.due = v.created + Windows[p]]

\* Seeded fault: update() does not look at the lock.
UpdateLocked(c, p) ==
  /\ Drawn(c)
  /\ Store(c, Repriced(case[c], p))
  /\ UNCHANGED holding

\* update(), setCategory(): the other fields they change are not kept here.
Update(c, p) ==
  /\ Open(c)
  /\ Store(c, Repriced(case[c], p))
  /\ UNCHANGED holding

\* What transition() makes of the case v; a locked one is being reopened.
Moved(v, target) ==
  IF v.locked
  THEN [v EXCEPT !.status = target, !.locked = FALSE, !.resolved = FALSE,
                 !.due = now + Windows[v.priority]]
  ELSE [v EXCEPT !.status = target]

\* transition(), reopen().
Transition(c, target) ==
  /\ Drawn(c)
  /\ target # "OPEN" => Open(c)
  /\ <<case[c].status, target>> \in ALLOWED
  /\ target # "CLOSED"
  /\ Store(c, Moved(case[c], target))
  /\ UNCHANGED holding

\* transition() to CLOSED is refused, but the status is assigned first and the
\* case is the stored one, not a copy.
TransitionRefused(c) ==
  /\ Open(c)
  /\ <<case[c].status, "CLOSED">> \in ALLOWED
  /\ Move
  /\ case' = [case EXCEPT ![c].status = "CLOSED"]
  /\ UNCHANGED <<recorded, holding, now>>

\* Seeded fault: the row of the assignee before is not ended.
AssignBeside(c, u) ==
  /\ Open(c)
  /\ Store(c, [case[c] EXCEPT !.assignee = u,
                 !.status = IF case[c].status = "OPEN" THEN "ASSIGNED" ELSE case[c].status])
  /\ holding' = [holding EXCEPT ![c] = @ \cup {u}]

\* assign(); assignRoundRobin() and bulkAssign() call it for each case.
Assign(c, u) ==
  /\ Open(c)
  /\ Store(c, [case[c] EXCEPT !.assignee = u,
                 !.status = IF case[c].status = "OPEN" THEN "ASSIGNED" ELSE case[c].status])
  /\ holding' = [holding EXCEPT ![c] = {u}]

Escalate(c) ==
  /\ Open(c)
  /\ <<case[c].status, "ESCALATED">> \in ALLOWED
  /\ Store(c, [case[c] EXCEPT !.status = "ESCALATED"])
  /\ UNCHANGED holding

Close(c) ==
  /\ Open(c)
  /\ <<case[c].status, "CLOSED">> \in ALLOWED
  /\ Store(c, [case[c] EXCEPT !.status = "CLOSED", !.locked = TRUE, !.resolved = TRUE])
  /\ UNCHANGED holding

\* slaProgressPct(), rounded to the nearest percent.
Progress(v) ==
  LET total == v.due - v.created
  IN IF v.due <= v.created THEN 100 ELSE (200 * (now - v.created) + total) \div (2 * total)

\* findAutoEscalationCandidates().
Candidates(t) ==
  {c \in Cases :
     /\ TenantOf[c] = t
     /\ Open(c)
     /\ <<case[c].status, "ESCALATED">> \in ALLOWED
     /\ Progress(case[c]) >= Threshold}

\* POST /v1/cms/cases/auto-escalate-sla: escalate() for each candidate.
AutoEscalate(t) ==
  /\ Candidates(t) # {}
  /\ Move
  /\ case' = [c \in Cases |->
                IF c \in Candidates(t) THEN [case[c] EXCEPT !.status = "ESCALATED"] ELSE case[c]]
  /\ recorded' = [c \in Cases |-> IF c \in Candidates(t) THEN "ESCALATED" ELSE recorded[c]]
  /\ UNCHANGED <<holding, now>>

Tick ==
  /\ now < MaxTime
  /\ now' = now + 1
  /\ UNCHANGED cmsVars

Operation(c) ==
  \/ \E p \in Priorities, u \in Users \cup {None} : Create(c, p, u)
  \/ \E p \in Priorities : Update(c, p)
  \/ \E target \in CmsCaseState : Transition(c, target)
  \/ TransitionRefused(c)
  \/ \E u \in Users : Assign(c, u)
  \/ Escalate(c)
  \/ Close(c)

CmsNext ==
  \/ \E c \in Cases : Operation(c)
  \/ \E t \in Tenants : AutoEscalate(t)
  \/ Tick

CmsSpec == CmsInit /\ [][CmsNext]_<<cmsVars, now>>

-----------------------------------------------------------------------------
\* Every variable has its type.
CmsTypeOK ==
  /\ case \in [Cases -> Case \cup {None}]
  /\ recorded \in [Cases -> CmsCaseState \cup {None}]
  /\ holding \in [Cases -> SUBSET Users]
  /\ now \in Nat
  /\ moves \in Nat

\* Beside the case its trail tells the same story: the assignment that is not
\* ended is the one of its assignee; a locked case is closed and has its
\* resolution, an unlocked one has none.
TrailAgrees ==
  \A c \in Cases :
    Drawn(c) =>
      /\ holding[c] = {case[c].assignee} \ {None}
      /\ case[c].locked = case[c].resolved
      /\ case[c].locked => case[c].status = "CLOSED"

\* "every mutation on a case [...] writes a row to the history store": the
\* status of a case is the one its history shows last.
HistoryTold == \A c \in Cases : Drawn(c) => recorded[c] = case[c].status

\* Once locked, a case stays as its closing left it until it is reopened, which
\* clears the resolution and gives it a whole SLA window.
LockedFrozen ==
  [][\A c \in Cases :
       (Drawn(c) /\ case[c].locked /\ case'[c] # case[c]) =>
         /\ case'[c].status = "OPEN" /\ ~case'[c].locked /\ ~case'[c].resolved
         /\ case'[c].due = now + Windows[case[c].priority]
         /\ case'[c].assignee = case[c].assignee]_<<cmsVars, now>>

=============================================================================
