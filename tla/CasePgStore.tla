----------------------------- MODULE CasePgStore -----------------------------
(***************************************************************************)
(* The cases service over Postgres (services/regulatory-svc/cases/src):    *)
(* PgCaseStore, its connection pool, and the approvals log.                *)
(*                                                                         *)
(* Reads are answered from a cache.  A handler rewrites the cache and      *)
(* hands the pool one statement for the case and one for each of its       *)
(* items.  Then it awaits the append of its event to the outbox file, and  *)
(* for an item under maker-checker control hands the pool one statement    *)
(* for the approvals log.  The append is synchronous, so that no other     *)
(* handler runs meanwhile and a handler is one step; but the append may    *)
(* throw, and then the approvals log is never told.                        *)
(*                                                                         *)
(* No statement is awaited.  The pool keeps a FIFO queue over a few        *)
(* connections, so statements within that window finish in any order; one  *)
(* that fails is logged and forgotten.                                     *)
(*                                                                         *)
(* A record is named by the turn that wrote it: the columns one UPDATE of  *)
(* a case sets together (state, assignee, outcome, dates, reason) are that *)
(* turn.  Statements of one turn touch different rows, and no child is in  *)
(* the turn that creates its case, so their order does not matter.         *)
(* CaseService says which handler may run when; here any of them may.      *)
(* A case id belongs to one tenant (CaseServiceProofs!AlertsDisjoint).     *)
(***************************************************************************)
EXTENDS Naturals, FiniteSets

CONSTANTS
  Cases,        \* case ids
  ActionIds,    \* ids logAction may return
  CasIds,       \* ids newCasId may return
  CapIds,       \* ids newCapId may return
  CaseOf,       \* CaseOf[i]: the case whose handler draws the id i
  None,         \* null
  Connections,  \* connections of the pool
  MaxTurns,     \* bound: handlers that change a case
  MaxFailures,  \* bound: statements that fail and appends that throw
  MaxRestarts   \* bound: deaths of the process

Items == ActionIds \cup CasIds \cup CapIds

ASSUME IdsAssumption ==
  /\ ActionIds \cap CasIds = {}
  /\ ActionIds \cap CapIds = {}
  /\ CasIds \cap CapIds = {}
  /\ None \notin Items
  /\ CaseOf \in [Items -> Cases]
ASSUME BoundsAssumption ==
  /\ Connections \in Nat \ {0}
  /\ MaxTurns \in Nat
  /\ MaxFailures \in Nat
  /\ MaxRestarts \in Nat

VARIABLES
  cases,       \* cache: cases[k] is the turn of k's last upsert, 0 when absent
  status,      \* cache: status[i] of item i
  persisted,   \* the ids persistedActions, persistedCas and persistedCaps hold
  sent,        \* the statements given to the pool and not finished
  caseRow,     \* app_cases.cases: the turn a row was written in, 0 for no row
  itemRow,     \* app_cases.actions, cas_records and caps
  approvalRow, \* app_audit.approvals: the status of the row about item i
  verdict,     \* the first decision taken on item i; "unborn" until i is drawn
  turn,        \* handlers run so far
  disturbed,   \* cases a statement of which failed, or overtook another
  unlogged,    \* items of which an approvals statement failed, overtook another
               \* statement, was lost in a death or was never sent
  failures,    \* statements failed and appends thrown so far
  restarts     \* deaths so far

cache == <<cases, status, persisted>>
tables == <<caseRow, itemRow, approvalRow>>
history == <<verdict, disturbed, unlogged>>
bounds == <<turn, failures, restarts>>
vars == <<cache, sent, tables, history, bounds>>

Decision == {"approved", "rejected", "rework"}
ItemStatus == {"absent", "logged", "pending", "open", "in_progress", "closed"} \cup Decision
CaseOp == {"insert_case", "update_case"}
ItemOp == {"insert_item", "update_item"}
ApprovalOp == {"propose", "review"}

Statement ==
  [ turn   : Nat,
    op     : CaseOp \cup ItemOp \cup ApprovalOp,
    case   : Cases,
    item   : Items \cup {None},
    status : ItemStatus \cup {"none"} ]

-----------------------------------------------------------------------------
\* Seeded fault: an UPDATE is sent for a case the cache did not hold.
CaseStatementUpdate(k) ==
  [turn |-> turn + 1, op |-> "update_case", case |-> k, item |-> None, status |-> "none"]

\* upsert(), its first half: the statement for the row of the case.
CaseStatement(k) ==
  [ turn   |-> turn + 1,
    op     |-> IF cases[k] = 0 THEN "insert_case" ELSE "update_case",
    case   |-> k,
    item   |-> None,
    status |-> "none" ]

ItemStatement(i, op, s) ==
  [turn |-> turn + 1, op |-> op, case |-> CaseOf[i], item |-> i, status |-> s]

\* upsert(), its second half: an INSERT for each item not sent before; for a
\* CAS or CAP sent before an UPDATE, whether it changed or not.
ItemStatements(k, f) ==
  LET onCase == {i \in Items : CaseOf[i] = k /\ f[i] # "absent"}
  IN {ItemStatement(i, "insert_item", f[i]) : i \in onCase \ persisted}
       \cup {ItemStatement(i, "update_item", f[i]) : i \in (onCase \cap persisted) \ ActionIds}

\* upsert(): the cache is rewritten; f gives the new statuses and approvals
\* the statements of the approvals call that follows, if any.
Upsert(k, f, approvals) ==
  /\ turn < MaxTurns
  /\ turn' = turn + 1
  /\ cases' = [cases EXCEPT ![k] = turn + 1]
  /\ status' = f
  /\ persisted' = persisted \cup {i \in Items : CaseOf[i] = k /\ f[i] # "absent"}
  /\ sent' = sent \cup {CaseStatement(k)} \cup ItemStatements(k, f) \cup approvals
  /\ UNCHANGED <<tables, disturbed, restarts>>

\* A handler to its end: upsert(), emit() and the approvals call.  When emit()
\* throws the handler rejects before that call.
Handle(k, f, approvals) ==
  \/ /\ Upsert(k, f, approvals)
     /\ UNCHANGED <<unlogged, failures>>
  \/ /\ failures < MaxFailures
     /\ approvals # {}
     /\ Upsert(k, f, {})
     /\ unlogged' = unlogged \cup {s.item : s \in approvals}
     /\ failures' = failures + 1

\* The statement of the approvals call about item i.
ApprovalStatement(i, op, decision) ==
  [turn |-> turn + 1, op |-> op, case |-> CaseOf[i], item |-> i, status |-> decision]

Init ==
  /\ cases = [k \in Cases |-> 0]
  /\ status = [i \in Items |-> "absent"]
  /\ persisted = {}
  /\ sent = {}
  /\ caseRow = [k \in Cases |-> 0]
  /\ itemRow = [i \in Items |-> "absent"]
  /\ approvalRow = [i \in Items |-> "none"]
  /\ verdict = [i \in Items |-> "unborn"]
  /\ disturbed = {}
  /\ unlogged = {}
  /\ turn = 0
  /\ failures = 0
  /\ restarts = 0

-----------------------------------------------------------------------------
\* createFromAlert of a case the cache does not hold.
Create(k) ==
  /\ cases[k] = 0
  /\ Handle(k, status, {})
  /\ UNCHANGED verdict

\* assign, monitor and close: only columns of the case change.
Change(k) ==
  /\ cases[k] # 0
  /\ Handle(k, status, {})
  /\ UNCHANGED verdict

\* An item joins its case. Its id is random: never drawn before.
Add(i, s, approvals) ==
  /\ cases[CaseOf[i]] # 0
  /\ verdict[i] = "unborn"
  /\ verdict' = [verdict EXCEPT ![i] = "none"]
  /\ Handle(CaseOf[i], [status EXCEPT ![i] = s], approvals)

LogAction(i) == i \in ActionIds /\ Add(i, "logged", {})
SubmitCas(i) == i \in CasIds /\ Add(i, "pending", {ApprovalStatement(i, "propose", "none")})
ProposeCap(i) == i \in CapIds /\ Add(i, "open", {ApprovalStatement(i, "propose", "none")})

\* Seeded fault: the approvals log is given the status of the CAP.
DecideStatusLogged(i, s, d) ==
  /\ verdict' = [verdict EXCEPT ![i] = IF @ = "none" THEN d ELSE @]
  /\ Handle(CaseOf[i], [status EXCEPT ![i] = s], {ApprovalStatement(i, "review", s)})

\* A checker decides d on item i, whose status becomes s.
Decide(i, s, d) ==
  /\ verdict' = [verdict EXCEPT ![i] = IF @ = "none" THEN d ELSE @]
  /\ Handle(CaseOf[i], [status EXCEPT ![i] = s], {ApprovalStatement(i, "review", d)})

ReviewCas(i, d) == i \in CasIds /\ status[i] = "pending" /\ Decide(i, d, d)

\* A CAP that is not approved stays open, and may be decided again.
ApproveCap(i, approve) ==
  /\ i \in CapIds
  /\ status[i] = "open"
  /\ IF approve THEN Decide(i, "in_progress", "approved") ELSE Decide(i, "open", "rework")

CloseCap(i) ==
  /\ i \in CapIds
  /\ status[i] = "in_progress"
  /\ Handle(CaseOf[i], [status EXCEPT ![i] = "closed"], {})
  /\ UNCHANGED verdict

-----------------------------------------------------------------------------
\* s has a connection: fewer statements than there are connections precede it.
OnConnection(s) == s \in sent /\ Cardinality({q \in sent : q.turn < s.turn}) < Connections

\* s ends while an earlier statement about the same case is still in flight.
Overtakes(s) == \E q \in sent : q.case = s.case /\ q.turn < s.turn

\* s leaves the pool, done or not.
Finish(s, harmful) ==
  /\ sent' = sent \ {s}
  /\ disturbed' = IF harmful THEN disturbed \cup {s.case} ELSE disturbed
  /\ unlogged' = IF harmful /\ s.op \in ApprovalOp THEN unlogged \cup {s.item} ELSE unlogged
  /\ UNCHANGED <<cache, verdict, turn, restarts>>

\* INSERT INTO cases ON CONFLICT DO NOTHING, or UPDATE of a row that is there.
RunCaseStatement(s) ==
  /\ OnConnection(s)
  /\ s.op \in CaseOp
  /\ LET hasRow == caseRow[s.case] # 0
     IN caseRow' = IF (s.op = "insert_case") = hasRow
                   THEN caseRow
                   ELSE [caseRow EXCEPT ![s.case] = s.turn]
  /\ Finish(s, Overtakes(s))
  /\ UNCHANGED <<itemRow, approvalRow, failures>>

\* The same for an item. An INSERT without the row of its case violates the
\* foreign key and fails.
RunItemStatement(s) ==
  /\ OnConnection(s)
  /\ s.op \in ItemOp
  /\ LET hasRow == itemRow[s.item] # "absent"
         refused == s.op = "insert_item" /\ caseRow[s.case] = 0
     IN itemRow' = IF (s.op = "insert_item") = hasRow \/ refused
                   THEN itemRow
                   ELSE [itemRow EXCEPT ![s.item] = s.status]
  /\ Finish(s, Overtakes(s))
  /\ UNCHANGED <<caseRow, approvalRow, failures>>

\* propose(): INSERT of a pending row.
RunPropose(s) ==
  /\ OnConnection(s)
  /\ s.op = "propose"
  /\ approvalRow' = [approvalRow EXCEPT ![s.item] = "pending"]
  /\ Finish(s, Overtakes(s))
  /\ UNCHANGED <<caseRow, itemRow, failures>>

\* Seeded fault: the UPDATE is not limited to pending rows.
RunReviewAnyRow(s) ==
  /\ OnConnection(s)
  /\ s.op = "review"
  /\ approvalRow' = [approvalRow EXCEPT ![s.item] = IF @ # "none" THEN s.status ELSE @]
  /\ Finish(s, Overtakes(s))
  /\ UNCHANGED <<caseRow, itemRow, failures>>

\* review(): UPDATE of the row about the item if it is still pending.
RunReview(s) ==
  /\ OnConnection(s)
  /\ s.op = "review"
  /\ approvalRow' = [approvalRow EXCEPT ![s.item] = IF @ = "pending" THEN s.status ELSE @]
  /\ Finish(s, Overtakes(s))
  /\ UNCHANGED <<caseRow, itemRow, failures>>

\* A statement fails; the catch handler logs it and nobody sends it again.
Fail(s) ==
  /\ OnConnection(s)
  /\ failures < MaxFailures
  /\ failures' = failures + 1
  /\ Finish(s, TRUE)
  /\ UNCHANGED tables

\* Seeded fault: init() does not load the review columns of a CAS.
RestartForgetsReviews ==
  /\ restarts < MaxRestarts
  /\ restarts' = restarts + 1
  /\ cases' = caseRow
  /\ status' = [i \in Items |-> IF i \in CasIds /\ itemRow[i] # "absent" THEN "pending" ELSE itemRow[i]]
  /\ persisted' = {i \in Items : itemRow[i] # "absent"}
  /\ sent' = {}
  /\ disturbed' = {}
  /\ unlogged' = unlogged \cup {s.item : s \in {q \in sent : q.op \in ApprovalOp}}
  /\ UNCHANGED <<tables, verdict, turn, failures>>

\* The process dies and init() loads the tables. What had no connection yet is
\* gone; what had one has run before the load, or never will.
Restart ==
  /\ restarts < MaxRestarts
  /\ restarts' = restarts + 1
  /\ cases' = caseRow
  /\ status' = itemRow
  /\ persisted' = {i \in Items : itemRow[i] # "absent"}
  /\ sent' = {}
  /\ disturbed' = {}
  /\ unlogged' = unlogged \cup {s.item : s \in {q \in sent : q.op \in ApprovalOp}}
  /\ UNCHANGED <<tables, verdict, turn, failures>>

RunStatement(s) ==
  RunCaseStatement(s) \/ RunItemStatement(s) \/ RunPropose(s) \/ RunReview(s)

Next ==
  \/ \E k \in Cases : Create(k) \/ Change(k)
  \/ \E i \in ActionIds : LogAction(i)
  \/ \E i \in CasIds : SubmitCas(i)
  \/ \E i \in CapIds : ProposeCap(i)
  \/ \E i \in CasIds, d \in Decision : ReviewCas(i, d)
  \/ \E i \in CapIds, approve \in BOOLEAN : ApproveCap(i, approve)
  \/ \E i \in CapIds : CloseCap(i)
  \/ \E s \in sent : RunStatement(s) \/ Fail(s)
  \/ Restart

Spec == Init /\ [][Next]_vars

\* The pool sends what it queued and Postgres answers.
FairSpec == Spec /\ WF_vars(\E s \in sent : RunStatement(s))

-----------------------------------------------------------------------------
\* Every variable has its type.
TypeOK ==
  /\ cases \in [Cases -> Nat]
  /\ status \in [Items -> ItemStatus]
  /\ persisted \subseteq Items
  /\ sent \subseteq Statement
  /\ caseRow \in [Cases -> Nat]
  /\ itemRow \in [Items -> ItemStatus]
  /\ approvalRow \in [Items -> {"none", "pending"} \cup Decision]
  /\ verdict \in [Items -> {"unborn", "none"} \cup Decision]
  /\ disturbed \subseteq Cases
  /\ unlogged \subseteq Items
  /\ turn \in Nat
  /\ failures \in Nat
  /\ restarts \in Nat

\* When the pool has nothing left to do for a case, none of whose statements
\* failed or was overtaken, the tables are the cache: PgCaseStore relies on
\* transitions being far apart, and on that only.
Converges ==
  \A k \in Cases :
    (k \notin disturbed /\ ~\E s \in sent : s.case = k) =>
      /\ caseRow[k] = cases[k]
      /\ \A i \in Items : CaseOf[i] = k => itemRow[i] = status[i]

\* When no statement of the approvals log about a CAS or CAP is in flight, and
\* none failed, overtook another statement, died with the process or was kept
\* back by a failing append, the log has the first decision taken on it, or a
\* pending row.  (Of a CAP sent back for rework it keeps "rework".)
ApprovalsAgree ==
  \A i \in CasIds \cup CapIds :
    (verdict[i] # "unborn" /\ i \notin unlogged
       /\ ~\E s \in sent : s.op \in ApprovalOp /\ s.item = i) =>
      approvalRow[i] = IF verdict[i] = "none" THEN "pending" ELSE verdict[i]

\* How far an item has come.
Rank(s) ==
  CASE s = "absent" -> 0
    [] s \in {"logged", "pending", "open"} -> 1
    [] s \in Decision \cup {"in_progress"} -> 2
    [] OTHER -> 3

\* The tables are never ahead of the cache, whatever fails, overtakes or dies:
\* what a restart loads is a case, or an item, as it once was.
RowsNeverAhead ==
  /\ \A k \in Cases : caseRow[k] <= cases[k]
  /\ \A i \in Items : itemRow[i] = status[i] \/ Rank(itemRow[i]) < Rank(status[i])

\* The row of a case catches up with the cache, unless a statement about the
\* case fails or is overtaken.
CatchesUp ==
  \A k \in Cases : caseRow[k] # cases[k] ~> caseRow[k] = cases[k] \/ k \in disturbed

=============================================================================
