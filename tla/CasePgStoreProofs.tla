-------------------------- MODULE CasePgStoreProofs --------------------------
(***************************************************************************)
(* Proofs about CasePgStore, for every value of its constants.             *)
(*                                                                         *)
(* NextCases reduces a step to one of four kinds: a handler (Handled says  *)
(* what all of them have in common), a statement that runs, one that       *)
(* fails, a restart.  Each invariant is then preserved kind by kind.       *)
(***************************************************************************)
EXTENDS CasePgStore, TLAPS

Logged == CasIds \cup CapIds

\* The approvals log is told of item i by q, or the append before threw.
Told(i, q, approvals) ==
  \/ approvals = {q} /\ unlogged' = unlogged
  \/ approvals = {} /\ unlogged' = unlogged \cup {i}

\* What a handler does to the first decisions and gives the approvals log.
NotLogged(f, approvals) ==
  /\ approvals = {}
  /\ UNCHANGED <<verdict, unlogged>>
  /\ \A i \in Items : f[i] # status[i] => status[i] # "absent"

Born(k, f, approvals) ==
  \E i \in Items :
    /\ CaseOf[i] = k
    /\ verdict[i] = "unborn"
    /\ verdict' = [verdict EXCEPT ![i] = "none"]
    /\ \/ i \in ActionIds /\ approvals = {} /\ unlogged' = unlogged
       \/ i \in Logged /\ Told(i, ApprovalStatement(i, "propose", "none"), approvals)
    /\ \A j \in Items : j # i => f[j] = status[j]

Decided(k, f, approvals) ==
  \E i \in Logged, d \in Decision :
    /\ CaseOf[i] = k
    /\ status[i] \in {"pending", "open"}
    /\ verdict' = [verdict EXCEPT ![i] = IF @ = "none" THEN d ELSE @]
    /\ Told(i, ApprovalStatement(i, "review", d), approvals)
    /\ \A j \in Items : j # i => f[j] = status[j]

\* A handler of case k.
Handled(k, f, approvals) ==
  /\ Upsert(k, f, approvals)
  /\ failures' \in {failures, failures + 1}
  /\ cases[k] = 0 => f = status
  /\ \A i \in Items :
       \/ f[i] = status[i]
       \/ /\ CaseOf[i] = k
          /\ Rank(status[i]) < Rank(f[i])
          /\ i \in ActionIds => status[i] = "absent"
  /\ NotLogged(f, approvals) \/ Born(k, f, approvals) \/ Decided(k, f, approvals)

\* An id that was not drawn yet is nowhere.
UnbornNowhere ==
  \A i \in Items : verdict[i] = "unborn" =>
    /\ status[i] = "absent"
    /\ itemRow[i] = "absent"
    /\ approvalRow[i] = "none"
    /\ \A s \in sent : s.item # i

\* An item has its case, in the cache and (by the foreign key) in the tables.
ItemsHaveCase ==
  \A i \in Items :
    /\ status[i] # "absent" => cases[CaseOf[i]] # 0
    /\ itemRow[i] # "absent" => caseRow[CaseOf[i]] # 0

LEMMA Ranks ==
  /\ Rank("absent") = 0
  /\ Rank("logged") = 1 /\ Rank("pending") = 1 /\ Rank("open") = 1
  /\ Rank("in_progress") = 2
  /\ \A d \in Decision : Rank(d) = 2
  /\ Rank("closed") = 3
BY DEF Rank, Decision

LEMMA RankOfStatus ==
  \A s \in ItemStatus : Rank(s) \in 0..3 /\ (Rank(s) = 0 => s = "absent")
BY Ranks DEF ItemStatus

\* What Next may be.
LEMMA NextCases ==
  ASSUME TypeOK, UnbornNowhere, ItemsHaveCase, Next
  PROVE  \/ \E k \in Cases, f \in [Items -> ItemStatus], approvals \in SUBSET Statement :
              Handled(k, f, approvals)
         \/ \E s \in sent : RunStatement(s)
         \/ \E s \in sent : Fail(s)
         \/ Restart
<1>. DEFINE Handler == \E k \in Cases, f \in [Items -> ItemStatus], approvals \in SUBSET Statement :
                         Handled(k, f, approvals)
<1>1. ASSUME NEW k \in Cases, Create(k) \/ Change(k)
      PROVE  Handler
  <2>1. Upsert(k, status, {}) /\ NotLogged(status, {}) /\ failures' = failures
    BY <1>1 DEF Create, Change, Handle, NotLogged
  <2>2. Handled(k, status, {})
    BY <2>1 DEF Handled
  <2>. QED
    BY <2>2 DEF TypeOK
<1>2. ASSUME NEW i \in Items, NEW s \in ItemStatus \ {"absent"}, NEW approvals \in SUBSET Statement,
             Add(i, s, approvals),
             \/ i \in ActionIds /\ approvals = {}
             \/ i \in Logged /\ approvals = {ApprovalStatement(i, "propose", "none")}
      PROVE  Handler
  <2>. DEFINE f == [status EXCEPT ![i] = s]
  <2>0. CaseOf[i] \in Cases /\ f \in [Items -> ItemStatus]
    BY IdsAssumption DEF TypeOK
  <2>1. /\ cases[CaseOf[i]] # 0
        /\ verdict[i] = "unborn"
        /\ verdict' = [verdict EXCEPT ![i] = "none"]
        /\ Handle(CaseOf[i], f, approvals)
    BY <1>2 DEF Add
  <2>2. status[i] = "absent" /\ Rank(status[i]) < Rank(s)
    BY <2>1, Ranks, RankOfStatus DEF UnbornNowhere
  <2>3. f[i] = s /\ \A j \in Items : j # i => f[j] = status[j]
    BY DEF TypeOK
  <2>4. PICK told \in {approvals, {}} :
          /\ Upsert(CaseOf[i], f, told)
          /\ failures' \in {failures, failures + 1}
          /\ \/ told = approvals /\ unlogged' = unlogged
             \/ /\ told = {} /\ approvals # {}
                /\ unlogged' = unlogged \cup {q.item : q \in approvals}
    BY <2>1 DEF Handle
  <2>5. \/ i \in ActionIds /\ told = {} /\ unlogged' = unlogged
        \/ i \in Logged /\ Told(i, ApprovalStatement(i, "propose", "none"), told)
    BY <1>2, <2>4 DEF Told, ApprovalStatement
  <2>6. Born(CaseOf[i], f, told)
    BY <2>1, <2>3, <2>5 DEF Born
  <2>7. Handled(CaseOf[i], f, told)
    BY <2>1, <2>2, <2>3, <2>4, <2>6 DEF Handled
  <2>. QED
    BY <2>0, <2>4, <2>7
<1>3. ASSUME NEW i \in Logged, NEW s \in ItemStatus, NEW d \in Decision,
             Decide(i, s, d), status[i] \in {"pending", "open"},
             s = status[i] \/ Rank(status[i]) < Rank(s)
      PROVE  Handler
  <2>. DEFINE f == [status EXCEPT ![i] = s]
              A == {ApprovalStatement(i, "review", d)}
  <2>0. i \in Items /\ i \notin ActionIds /\ CaseOf[i] \in Cases /\ f \in [Items -> ItemStatus]
    BY IdsAssumption DEF TypeOK, Items, Logged
  <2>1. /\ verdict' = [verdict EXCEPT ![i] = IF @ = "none" THEN d ELSE @]
        /\ Handle(CaseOf[i], f, A)
    BY <1>3 DEF Decide
  <2>2. A \in SUBSET Statement
    BY <2>0 DEF ApprovalStatement, Statement, ApprovalOp, Decision, ItemStatus, TypeOK
  <2>3. f[i] = s /\ \A j \in Items : j # i => f[j] = status[j]
    BY <2>0 DEF TypeOK
  <2>4. PICK told \in {A, {}} :
          /\ Upsert(CaseOf[i], f, told)
          /\ failures' \in {failures, failures + 1}
          /\ Told(i, ApprovalStatement(i, "review", d), told)
    BY <2>1 DEF Handle, Told, ApprovalStatement
  <2>5. Decided(CaseOf[i], f, told)
    BY <1>3, <2>0, <2>1, <2>3, <2>4 DEF Decided
  <2>6. cases[CaseOf[i]] # 0
    BY <1>3, <2>0 DEF ItemsHaveCase
  <2>7. Handled(CaseOf[i], f, told)
    BY <2>0, <2>3, <2>4, <2>5, <2>6, <1>3 DEF Handled
  <2>. QED
    BY <2>0, <2>2, <2>4, <2>7
<1>4. ASSUME NEW i \in CapIds, CloseCap(i)
      PROVE  Handler
  <2>. DEFINE f == [status EXCEPT ![i] = "closed"]
  <2>0. i \in Items /\ i \notin ActionIds /\ CaseOf[i] \in Cases /\ f \in [Items -> ItemStatus]
    BY IdsAssumption DEF TypeOK, Items, ItemStatus
  <2>1. /\ Upsert(CaseOf[i], f, {})
        /\ status[i] = "in_progress"
        /\ UNCHANGED <<verdict, unlogged, failures>>
    BY <1>4 DEF CloseCap, Handle
  <2>2. f[i] = "closed" /\ \A j \in Items : j # i => f[j] = status[j]
    BY <2>0 DEF TypeOK
  <2>3. NotLogged(f, {})
    BY <2>1, <2>2 DEF NotLogged
  <2>4. cases[CaseOf[i]] # 0
    BY <2>0, <2>1 DEF ItemsHaveCase
  <2>5. Handled(CaseOf[i], f, {})
    BY <2>0, <2>1, <2>2, <2>3, <2>4, Ranks DEF Handled
  <2>. QED
    BY <2>0, <2>5
<1>5. ASSUME NEW i \in Items, LogAction(i) \/ SubmitCas(i) \/ ProposeCap(i)
      PROVE  Handler
  <2>1. {ApprovalStatement(i, "propose", "none")} \in SUBSET Statement
    BY IdsAssumption DEF ApprovalStatement, Statement, ApprovalOp, TypeOK
  <2>2. CASE LogAction(i)
    <3>1. i \in ActionIds /\ Add(i, "logged", {}) /\ {} \in SUBSET Statement
      BY <2>2 DEF LogAction
    <3>2. "logged" \in ItemStatus \ {"absent"}
      BY DEF ItemStatus
    <3>. QED
      BY <3>1, <3>2, <1>2
  <2>3. CASE SubmitCas(i)
    <3>1. i \in Logged /\ Add(i, "pending", {ApprovalStatement(i, "propose", "none")})
      BY <2>3 DEF SubmitCas, Logged
    <3>2. "pending" \in ItemStatus \ {"absent"}
      BY DEF ItemStatus
    <3>. QED
      BY <3>1, <3>2, <1>2, <2>1
  <2>4. CASE ProposeCap(i)
    <3>1. i \in Logged /\ Add(i, "open", {ApprovalStatement(i, "propose", "none")})
      BY <2>4 DEF ProposeCap, Logged
    <3>2. "open" \in ItemStatus \ {"absent"}
      BY DEF ItemStatus
    <3>. QED
      BY <3>1, <3>2, <1>2, <2>1
  <2>. QED
    BY <1>5, <2>2, <2>3, <2>4
<1>6. ASSUME NEW i \in CasIds, NEW d \in Decision, ReviewCas(i, d)
      PROVE  Handler
  <2>1. i \in Logged /\ d \in ItemStatus /\ status[i] = "pending" /\ Decide(i, d, d)
    BY <1>6 DEF ReviewCas, Logged, ItemStatus
  <2>2. Rank(status[i]) < Rank(d)
    BY <2>1, Ranks
  <2>. QED
    BY <1>3, <2>1, <2>2
<1>7. ASSUME NEW i \in CapIds, NEW approve \in BOOLEAN, ApproveCap(i, approve)
      PROVE  Handler
  <2>1. CASE approve
    BY <1>3, <1>7, <2>1, Ranks DEF ApproveCap, Logged, ItemStatus, Decision
  <2>2. CASE ~approve
    BY <1>3, <1>7, <2>2 DEF ApproveCap, Logged, ItemStatus, Decision
  <2>. QED
    BY <2>1, <2>2
<1>8. ActionIds \subseteq Items /\ CasIds \subseteq Items /\ CapIds \subseteq Items
  BY DEF Items
<1>. QED
  BY <1>1, <1>4, <1>5, <1>6, <1>7, <1>8 DEF Next

-----------------------------------------------------------------------------
\* Types.

\* A handler's statements are statements.
LEMMA StatementsTyped ==
  ASSUME TypeOK, NEW k \in Cases, NEW f \in [Items -> ItemStatus]
  PROVE  /\ CaseStatement(k) \in Statement
         /\ ItemStatements(k, f) \subseteq Statement
<1>1. CaseStatement(k) \in Statement
  BY DEF CaseStatement, Statement, CaseOp, TypeOK
<1>2. ASSUME NEW i \in Items, NEW op \in ItemOp
      PROVE  ItemStatement(i, op, f[i]) \in Statement
  BY IdsAssumption DEF ItemStatement, Statement, ItemOp, TypeOK
<1>3. ItemStatements(k, f) \subseteq Statement
  BY <1>2 DEF ItemStatements, ItemOp
<1>. QED
  BY <1>1, <1>3

\* What a statement in flight is about.
SentTyped ==
  \A s \in sent :
    /\ s.turn \in 1..turn
    /\ s.op \in ItemOp => s.item \in Items /\ CaseOf[s.item] = s.case /\ s.status \in ItemStatus \ {"absent"}
    /\ s.op \in ApprovalOp => s.item \in Logged /\ CaseOf[s.item] = s.case
    /\ s.op = "review" => s.status \in Decision
    /\ s.op \in CaseOp => s.item = None

\* The statements of a handler are of those kinds.
LEMMA NewStatements ==
  ASSUME TypeOK, NEW k \in Cases, NEW f \in [Items -> ItemStatus], NEW approvals,
         Handled(k, f, approvals), NEW s \in sent' \ sent
  PROVE  /\ s.turn = turn + 1
         /\ s.case = k
         /\ \/ s = CaseStatement(k)
            \/ \E i \in Items :
                 /\ CaseOf[i] = k
                 /\ f[i] # "absent"
                 /\ \/ i \notin persisted /\ s = ItemStatement(i, "insert_item", f[i])
                    \/ i \in persisted \ ActionIds /\ s = ItemStatement(i, "update_item", f[i])
            \/ \E i \in Logged :
                 /\ CaseOf[i] = k
                 /\ verdict[i] = "unborn"
                 /\ s = ApprovalStatement(i, "propose", "none")
            \/ \E i \in Logged, d \in Decision :
                 /\ CaseOf[i] = k
                 /\ status[i] \in {"pending", "open"}
                 /\ s = ApprovalStatement(i, "review", d)
<1>1. s = CaseStatement(k) \/ s \in ItemStatements(k, f) \/ s \in approvals
  BY DEF Handled, Upsert
<1>2. CASE s = CaseStatement(k)
  BY <1>2 DEF CaseStatement
<1>3. CASE s \in ItemStatements(k, f)
  BY <1>3 DEF ItemStatements, ItemStatement
<1>4. CASE s \in approvals
  BY <1>4 DEF Handled, NotLogged, Born, Decided, Told, ApprovalStatement
<1>. QED
  BY <1>1, <1>2, <1>3, <1>4

TypeInv == TypeOK /\ SentTyped /\ UnbornNowhere /\ ItemsHaveCase

LEMMA TypeInvInit == Init => TypeInv
BY DEF Init, TypeInv, TypeOK, SentTyped, UnbornNowhere, ItemsHaveCase, ItemStatus

LEMMA TypeInvHandled ==
  ASSUME TypeInv, NEW k \in Cases, NEW f \in [Items -> ItemStatus],
         NEW approvals \in SUBSET Statement, Handled(k, f, approvals)
  PROVE  TypeInv'
<1>. USE DEF TypeInv
<1>0. /\ turn' = turn + 1
      /\ cases' = [cases EXCEPT ![k] = turn + 1]
      /\ status' = f
      /\ persisted' = persisted \cup {i \in Items : CaseOf[i] = k /\ f[i] # "absent"}
      /\ sent' = sent \cup {CaseStatement(k)} \cup ItemStatements(k, f) \cup approvals
      /\ UNCHANGED <<caseRow, itemRow, approvalRow, disturbed, restarts>>
      /\ failures' \in {failures, failures + 1}
  BY DEF Handled, Upsert, tables
<1>1. TypeOK'
  <2>1. verdict' \in [Items -> {"unborn", "none"} \cup Decision]
    BY DEF Handled, NotLogged, Born, Decided, TypeOK
  <2>2. sent' \subseteq Statement
    BY <1>0, StatementsTyped DEF TypeOK
  <2>3. unlogged' \subseteq Items
    BY DEF Handled, NotLogged, Born, Decided, Told, Logged, Items, TypeOK
  <2>. QED
    BY <1>0, <2>1, <2>2, <2>3 DEF TypeOK
<1>2. SentTyped'
  <2>. SUFFICES ASSUME NEW s \in sent'
                PROVE  /\ s.turn \in 1..turn'
                       /\ s.op \in ItemOp => s.item \in Items /\ CaseOf[s.item] = s.case /\ s.status \in ItemStatus \ {"absent"}
                       /\ s.op \in ApprovalOp => s.item \in Logged /\ CaseOf[s.item] = s.case
                       /\ s.op = "review" => s.status \in Decision
                       /\ s.op \in CaseOp => s.item = None
    BY DEF SentTyped
  <2>1. CASE s \in sent
    BY <1>0, <2>1 DEF SentTyped, TypeOK
  <2>2. CASE s \notin sent
    BY <1>0, <2>2, NewStatements DEF TypeOK, CaseStatement, ItemStatement, ApprovalStatement, CaseOp, ItemOp, ApprovalOp
  <2>. QED
    BY <2>1, <2>2
<1>3. UnbornNowhere'
  <2>. SUFFICES ASSUME NEW i \in Items, verdict'[i] = "unborn"
                PROVE  verdict[i] = "unborn" /\ f[i] = "absent" /\ \A s \in sent' : s.item # i
    BY <1>0 DEF UnbornNowhere
  <2>1. verdict[i] = "unborn" /\ status[i] = "absent"
    BY DEF Handled, NotLogged, Born, Decided, TypeOK, Decision, UnbornNowhere
  <2>2. f[i] = status[i]
    BY <2>1 DEF Handled, NotLogged, Born, Decided, TypeOK, Decision
  <2>3. ASSUME NEW s \in sent' PROVE s.item # i
    <3>1. CASE s \in sent
      BY <3>1, <2>1 DEF UnbornNowhere
    <3>2. CASE s \in approvals
      BY <3>2, <2>1 DEF Handled, NotLogged, Born, Decided, Told, ApprovalStatement, TypeOK, Decision
    <3>3. CASE s = CaseStatement(k) \/ s \in ItemStatements(k, f)
      BY <3>3, <2>1, <2>2, IdsAssumption DEF CaseStatement, ItemStatements, ItemStatement
    <3>. QED
      BY <3>1, <3>2, <3>3, <1>0
  <2>. QED
    BY <2>1, <2>2, <2>3
<1>4. ItemsHaveCase'
  <2>1. \A i \in Items : f[i] # "absent" => cases'[CaseOf[i]] # 0
    BY <1>0, IdsAssumption DEF Handled, ItemsHaveCase, TypeOK
  <2>. QED
    BY <1>0, <2>1 DEF ItemsHaveCase
<1>. QED
  BY <1>1, <1>2, <1>3, <1>4

LEMMA TypeInvRun ==
  ASSUME TypeInv, NEW s \in sent, RunStatement(s) \/ Fail(s)
  PROVE  TypeInv'
<1>. USE DEF TypeInv
<1>0. /\ sent' \subseteq sent
      /\ UNCHANGED <<cases, status, persisted, verdict, turn, restarts>>
      /\ disturbed' \in {disturbed, disturbed \cup {s.case}}
      /\ unlogged' \in {unlogged, unlogged \cup {s.item}} /\ (unlogged' # unlogged => s.op \in ApprovalOp)
      /\ failures' \in {failures, failures + 1}
  BY DEF RunStatement, RunCaseStatement, RunItemStatement, RunPropose, RunReview, Fail, Finish, cache
<1>1. s \in Statement
  BY DEF TypeOK
<1>2. /\ caseRow' \in [Cases -> Nat]
      /\ itemRow' \in [Items -> ItemStatus]
      /\ approvalRow' \in [Items -> {"none", "pending"} \cup Decision]
  <2>1. CASE RunCaseStatement(s)
    BY <2>1, <1>1 DEF RunCaseStatement, TypeOK, Statement
  <2>2. CASE RunItemStatement(s)
    BY <2>2, <1>1 DEF RunItemStatement, TypeOK, SentTyped
  <2>3. CASE RunPropose(s) \/ RunReview(s)
    BY <2>3, <1>1 DEF RunPropose, RunReview, TypeOK, SentTyped, ApprovalOp
  <2>4. CASE Fail(s)
    BY <2>4 DEF Fail, tables, TypeOK
  <2>. QED
    BY <2>1, <2>2, <2>3, <2>4 DEF RunStatement
<1>3. TypeOK'
  <2>1. unlogged' \subseteq Items
    BY <1>0 DEF TypeOK, SentTyped, Logged, Items
  <2>. QED
    BY <1>0, <1>1, <1>2, <2>1 DEF TypeOK, Statement
<1>4. SentTyped'
  BY <1>0 DEF SentTyped
<1>5. \A i \in Items : \/ itemRow'[i] = itemRow[i] /\ approvalRow'[i] = approvalRow[i]
                       \/ s.item = i
  BY DEF RunStatement, RunCaseStatement, RunItemStatement, RunPropose, RunReview, Fail, tables, TypeOK
<1>6. UnbornNowhere'
  BY <1>0, <1>5 DEF UnbornNowhere
<1>7. ItemsHaveCase'
  <2>. SUFFICES ASSUME NEW i \in Items, itemRow'[i] # "absent"
                PROVE  caseRow'[CaseOf[i]] # 0
    BY <1>0 DEF ItemsHaveCase
  <2>1. CASE RunCaseStatement(s)
    BY <2>1, <1>1, IdsAssumption DEF RunCaseStatement, ItemsHaveCase, TypeOK, Statement, SentTyped
  <2>2. CASE RunItemStatement(s)
    <3>1. caseRow' = caseRow /\ s.item \in Items /\ CaseOf[s.item] = s.case
      BY <2>2 DEF RunItemStatement, SentTyped
    <3>2. itemRow'[i] = itemRow[i] \/ (i = s.item /\ (itemRow[i] # "absent" \/ caseRow[s.case] # 0))
      BY <2>2, <3>1 DEF RunItemStatement, TypeOK, ItemOp
    <3>. QED
      BY <3>1, <3>2 DEF ItemsHaveCase
  <2>3. CASE RunPropose(s) \/ RunReview(s) \/ Fail(s)
    BY <2>3 DEF RunPropose, RunReview, Fail, tables, ItemsHaveCase
  <2>. QED
    BY <2>1, <2>2, <2>3 DEF RunStatement
<1>. QED
  BY <1>3, <1>4, <1>6, <1>7

LEMMA TypeInvRestart ==
  ASSUME TypeInv, Restart
  PROVE  TypeInv'
<1>1. unlogged' \subseteq Items
  BY DEF TypeInv, Restart, TypeOK, SentTyped, Logged, Items
<1>. QED
  BY <1>1 DEF TypeInv, Restart, TypeOK, SentTyped, UnbornNowhere, ItemsHaveCase, tables, Statement

LEMMA TypeInvStep == TypeInv /\ [Next]_vars => TypeInv'
<1>. SUFFICES ASSUME TypeInv, [Next]_vars PROVE TypeInv'
  OBVIOUS
<1>1. CASE Next
  BY <1>1, NextCases, TypeInvHandled, TypeInvRun, TypeInvRestart DEF TypeInv
<1>2. CASE UNCHANGED vars
  BY <1>2 DEF vars, cache, tables, history, bounds, TypeInv, TypeOK, SentTyped, UnbornNowhere, ItemsHaveCase
<1>. QED
  BY <1>1, <1>2

\* Every variable keeps its type, and every statement in flight is about what
\* it names.
THEOREM Typed == Spec => []TypeInv
BY TypeInvInit, TypeInvStep, PTL DEF Spec

\* The type invariant the runs check.
THEOREM TypedOK == Spec => []TypeOK
<1>1. TypeInv => TypeOK
  BY DEF TypeInv
<1>. QED
  BY <1>1, Typed, PTL

-----------------------------------------------------------------------------
\* The tables are never ahead of the cache.

\* a is b, or an earlier status than b.
NotAfter(a, b) == a = b \/ Rank(a) < Rank(b)

LEMMA NotAfterTransitive ==
  ASSUME NEW a \in ItemStatus, NEW b \in ItemStatus, NEW c \in ItemStatus,
         NotAfter(a, b), NotAfter(b, c)
  PROVE  NotAfter(a, c)
<1>1. Rank(a) \in Nat /\ Rank(b) \in Nat /\ Rank(c) \in Nat
  BY RankOfStatus
<1>. QED
  BY <1>1 DEF NotAfter

\* Nor is anything on its way to them.
SentNotAhead ==
  /\ \A k \in Cases : cases[k] <= turn
  /\ \A s \in sent :
       /\ s.turn <= cases[s.case]
       /\ s.op \in ItemOp => NotAfter(s.status, status[s.item])

AheadInv == RowsNeverAhead /\ SentNotAhead

LEMMA AheadHandled ==
  ASSUME TypeInv, AheadInv, NEW k \in Cases, NEW f \in [Items -> ItemStatus],
         NEW approvals \in SUBSET Statement, Handled(k, f, approvals)
  PROVE  AheadInv'
<1>0. /\ turn' = turn + 1
      /\ cases' = [cases EXCEPT ![k] = turn + 1]
      /\ status' = f
      /\ caseRow' = caseRow /\ itemRow' = itemRow
  BY DEF Handled, Upsert, tables
<1>1. turn \in Nat /\ cases \in [Cases -> Nat] /\ caseRow \in [Cases -> Nat]
  BY DEF TypeInv, TypeOK
<1>2. \A i \in Items : NotAfter(status[i], f[i])
  BY DEF Handled, NotAfter
<1>3. \A j \in Cases : cases[j] <= cases'[j] /\ cases'[j] <= turn'
  BY <1>0, <1>1 DEF AheadInv, SentNotAhead
<1>4. RowsNeverAhead'
  <2>1. \A j \in Cases : caseRow'[j] <= cases'[j]
    BY <1>0, <1>1, <1>3 DEF AheadInv, RowsNeverAhead
  <2>2. ASSUME NEW i \in Items PROVE NotAfter(itemRow[i], f[i])
    <3>1. NotAfter(itemRow[i], status[i])
      BY DEF AheadInv, RowsNeverAhead, NotAfter
    <3>. QED
      BY <1>2, <3>1, NotAfterTransitive DEF TypeInv, TypeOK
  <2>. QED
    BY <1>0, <2>1, <2>2 DEF RowsNeverAhead, NotAfter
<1>5. SentNotAhead'
  <2>. SUFFICES ASSUME NEW s \in sent'
                PROVE  s.turn <= cases'[s.case] /\ (s.op \in ItemOp => NotAfter(s.status, f[s.item]))
    BY <1>0, <1>3 DEF SentNotAhead
  <2>1. CASE s \in sent
    <3>1. s \in Statement /\ s.turn <= cases[s.case]
      BY <2>1 DEF AheadInv, SentNotAhead, TypeInv, TypeOK
    <3>2. s.turn <= cases'[s.case]
      BY <1>0, <1>1, <1>3, <3>1 DEF Statement
    <3>3. ASSUME s.op \in ItemOp PROVE NotAfter(s.status, f[s.item])
      <4>1. NotAfter(s.status, status[s.item]) /\ s.item \in Items /\ s.status \in ItemStatus
        BY <2>1, <3>3 DEF AheadInv, SentNotAhead, TypeInv, SentTyped
      <4>. QED
        BY <1>2, <4>1, NotAfterTransitive DEF TypeInv, TypeOK
    <3>. QED
      BY <3>2, <3>3
  <2>2. CASE s \notin sent
    <3>1. s.turn = turn + 1 /\ s.case = k
      BY <2>2, NewStatements DEF TypeInv
    <3>2. s.op \in ItemOp => s.item \in Items /\ s.status = f[s.item]
      BY <2>2, NewStatements DEF TypeInv, CaseStatement, ItemStatement, ApprovalStatement, ItemOp
    <3>. QED
      BY <1>0, <1>1, <3>1, <3>2 DEF NotAfter
  <2>. QED
    BY <2>1, <2>2
<1>. QED
  BY <1>4, <1>5 DEF AheadInv

LEMMA AheadRun ==
  ASSUME TypeInv, AheadInv, NEW s \in sent, RunStatement(s) \/ Fail(s)
  PROVE  AheadInv'
<1>0. /\ sent' \subseteq sent
      /\ UNCHANGED <<cases, status, turn>>
      /\ s \in Statement
  BY DEF RunStatement, RunCaseStatement, RunItemStatement, RunPropose, RunReview, Fail, Finish,
         cache, TypeInv, TypeOK
<1>1. SentNotAhead'
  BY <1>0 DEF AheadInv, SentNotAhead
<1>2. \A k \in Cases : caseRow'[k] <= cases[k]
  <2>1. \A k \in Cases : caseRow'[k] = caseRow[k] \/ (k = s.case /\ caseRow'[k] = s.turn)
    BY <1>0 DEF RunStatement, RunCaseStatement, RunItemStatement, RunPropose, RunReview, Fail,
       tables, TypeInv, TypeOK, Statement
  <2>. QED
    BY <2>1 DEF AheadInv, SentNotAhead, RowsNeverAhead
<1>3. ASSUME NEW i \in Items PROVE itemRow'[i] = status[i] \/ Rank(itemRow'[i]) < Rank(status[i])
  <2>1. itemRow'[i] = itemRow[i] \/ (s.op \in ItemOp /\ i = s.item /\ itemRow'[i] = s.status)
    BY <1>0 DEF RunStatement, RunCaseStatement, RunItemStatement, RunPropose, RunReview, Fail,
       tables, TypeInv, TypeOK
  <2>. QED
    BY <2>1 DEF AheadInv, SentNotAhead, RowsNeverAhead, NotAfter
<1>. QED
  BY <1>0, <1>1, <1>2, <1>3 DEF AheadInv, RowsNeverAhead

LEMMA AheadInit == Init => AheadInv
BY DEF Init, AheadInv, RowsNeverAhead, SentNotAhead

LEMMA AheadStep == TypeInv /\ AheadInv /\ [Next]_vars => AheadInv'
<1>. SUFFICES ASSUME TypeInv, AheadInv, [Next]_vars PROVE AheadInv'
  OBVIOUS
<1>1. CASE Restart
  <2>1. cases' = caseRow /\ status' = itemRow /\ sent' = {} /\ UNCHANGED <<caseRow, itemRow, turn>>
    BY <1>1 DEF Restart, tables
  <2>. QED
    BY <2>1 DEF AheadInv, RowsNeverAhead, SentNotAhead, TypeInv, TypeOK
<1>2. CASE UNCHANGED vars
  BY <1>2 DEF vars, cache, tables, history, bounds, AheadInv, RowsNeverAhead, SentNotAhead
<1>3. CASE Next
  BY <1>1, <1>3, NextCases, AheadHandled, AheadRun DEF TypeInv
<1>. QED
  BY <1>2, <1>3

\* What a restart loads is never more than what the cache held: neither
\* failures, nor overtaking, nor a death puts the tables ahead of it.
THEOREM NeverAhead == Spec => []RowsNeverAhead
<1>1. AheadInv => RowsNeverAhead
  BY DEF AheadInv
<1>. QED
  BY <1>1, TypeInvInit, TypeInvStep, AheadInit, AheadStep, PTL DEF Spec

-----------------------------------------------------------------------------
\* Convergence.

\* The statements in flight for a row of cases, for a row of an item, and for
\* a row of the approvals log.
CaseStatements(k) == {s \in sent : s.op \in CaseOp /\ s.case = k}
RowStatements(i) == {s \in sent : s.op \in ItemOp /\ s.item = i}
Proposals(i) == {s \in sent : s.op = "propose" /\ s.item = i}
Reviews(i) == {s \in sent : s.op = "review" /\ s.item = i}

\* An INSERT in flight that s, which needs its row, does not precede.
CaseInsertBefore(k, s) == \E q \in CaseStatements(k) : q.op = "insert_case" /\ q.turn < s.turn
ItemInsertBefore(i, s) == \E q \in RowStatements(i) : q.op = "insert_item" /\ q.turn < s.turn

\* The last statement in flight writes what the cache holds, and each
\* statement finds its row as it needs it when its turn comes.
CaseOnItsWay(k) ==
  /\ CaseStatements(k) = {} => caseRow[k] = cases[k]
  /\ CaseStatements(k) # {} => \E s \in CaseStatements(k) : s.turn = cases[k]
  /\ \A s, q \in CaseStatements(k) :
       s.turn = q.turn \/ (s.op = "insert_case" /\ q.op = "insert_case") => s = q
  /\ \A s \in CaseStatements(k) :
       /\ s.op = "insert_case" => caseRow[k] = 0
       /\ s.op = "update_case" => caseRow[k] # 0 \/ CaseInsertBefore(k, s)

ItemOnItsWay(i) ==
  /\ RowStatements(i) = {} => itemRow[i] = status[i]
  /\ RowStatements(i) # {} =>
       \E s \in RowStatements(i) :
         s.status = status[i] /\ \A q \in RowStatements(i) : q.turn <= s.turn
  /\ \A s, q \in RowStatements(i) :
       s.turn = q.turn \/ (s.op = "insert_item" /\ q.op = "insert_item") => s = q
  /\ \A s \in RowStatements(i) :
       /\ s.op = "insert_item" =>
            /\ itemRow[i] = "absent"
            /\ caseRow[CaseOf[i]] # 0 \/ CaseInsertBefore(CaseOf[i], s)
       /\ s.op = "update_item" => itemRow[i] # "absent" \/ ItemInsertBefore(i, s)

\* What was sent before is what the cache has: nothing is sent twice or never.
PersistedExact == persisted = {i \in Items : status[i] # "absent"}

OnItsWay ==
  /\ PersistedExact
  /\ \A k \in Cases \ disturbed : CaseOnItsWay(k)
  /\ \A i \in Items : CaseOf[i] \notin disturbed => ItemOnItsWay(i)

\* The row about item i is pending until its first review has run.
ApprovalOnItsWay(i) ==
  /\ \A p, q \in Proposals(i) : p = q
  /\ \A p \in Proposals(i) : approvalRow[i] = "none" /\ \A r \in Reviews(i) : p.turn < r.turn
  /\ approvalRow[i] = "none" => Proposals(i) # {}
  /\ approvalRow[i] \in {"none", "pending"} =>
       IF verdict[i] = "none"
       THEN Reviews(i) = {}
       ELSE \E r \in Reviews(i) :
              r.status = verdict[i] /\ \A q \in Reviews(i) : q = r \/ r.turn < q.turn
  /\ approvalRow[i] \in Decision => approvalRow[i] = verdict[i]

ApprovalsOnTheirWay ==
  \A i \in Logged : verdict[i] # "unborn" /\ i \notin unlogged => ApprovalOnItsWay(i)

WayInv == TypeInv /\ AheadInv /\ OnItsWay

\* What a handler adds to the statements in flight.
LEMMA HandledStatements ==
  ASSUME TypeInv, NEW k \in Cases, NEW f \in [Items -> ItemStatus],
         NEW approvals \in SUBSET Statement, Handled(k, f, approvals)
  PROVE  /\ CaseStatements(k)' = CaseStatements(k) \cup {CaseStatement(k)}
         /\ \A j \in Cases \ {k} : CaseStatements(j)' = CaseStatements(j)
         /\ \A i \in Items :
              IF CaseOf[i] # k \/ f[i] = "absent" \/ (i \in persisted /\ i \in ActionIds)
              THEN RowStatements(i)' = RowStatements(i)
              ELSE RowStatements(i)' = RowStatements(i) \cup
                     {ItemStatement(i, IF i \in persisted THEN "update_item" ELSE "insert_item", f[i])}
<1>. DEFINE new(i) == ItemStatement(i, IF i \in persisted THEN "update_item" ELSE "insert_item", f[i])
<1>0. sent' = sent \cup {CaseStatement(k)} \cup ItemStatements(k, f) \cup approvals
  BY DEF Handled, Upsert
<1>1. \A s \in approvals : s.op \in ApprovalOp
  BY DEF Handled, NotLogged, Born, Decided, Told, ApprovalStatement, ApprovalOp
<1>2. CaseStatement(k).op \in CaseOp /\ CaseStatement(k).case = k
  BY DEF CaseStatement, CaseOp
<1>3. \A s \in ItemStatements(k, f) :
        /\ s.op \in ItemOp
        /\ s.item \in Items /\ CaseOf[s.item] = k /\ f[s.item] # "absent"
        /\ ~(s.item \in persisted /\ s.item \in ActionIds)
        /\ s = new(s.item)
  BY DEF ItemStatements, ItemStatement, ItemOp
<1>4. \A i \in Items :
        CaseOf[i] = k /\ f[i] # "absent" /\ ~(i \in persisted /\ i \in ActionIds) =>
          new(i) \in ItemStatements(k, f)
  BY DEF ItemStatements
<1>5. \A i \in Items : new(i).op \in ItemOp /\ new(i).item = i
  BY DEF ItemStatement, ItemOp
<1>6. CaseOp \cap ItemOp = {} /\ CaseOp \cap ApprovalOp = {} /\ ItemOp \cap ApprovalOp = {}
  BY DEF CaseOp, ItemOp, ApprovalOp
<1>7. CaseStatements(k)' = CaseStatements(k) \cup {CaseStatement(k)}
  BY <1>0, <1>1, <1>2, <1>3, <1>6 DEF CaseStatements
<1>8. \A j \in Cases \ {k} : CaseStatements(j)' = CaseStatements(j)
  BY <1>0, <1>1, <1>2, <1>3, <1>6 DEF CaseStatements
<1>9. ASSUME NEW i \in Items
      PROVE  IF CaseOf[i] # k \/ f[i] = "absent" \/ (i \in persisted /\ i \in ActionIds)
             THEN RowStatements(i)' = RowStatements(i)
             ELSE RowStatements(i)' = RowStatements(i) \cup {new(i)}
  <2>. HIDE DEF new
  <2>1. CASE CaseOf[i] # k \/ f[i] = "absent" \/ (i \in persisted /\ i \in ActionIds)
    BY <2>1, <1>0, <1>1, <1>2, <1>3, <1>6 DEF RowStatements
  <2>2. CASE ~(CaseOf[i] # k \/ f[i] = "absent" \/ (i \in persisted /\ i \in ActionIds))
    BY <2>2, <1>0, <1>1, <1>2, <1>3, <1>4, <1>5, <1>6 DEF RowStatements
  <2>. QED
    BY <2>1, <2>2
<1>. QED
  BY <1>7, <1>8, <1>9

\* A handler leaves the row of every case, and of every item, on its way.
LEMMA CaseWayHandled ==
  ASSUME WayInv, NEW k \in Cases, NEW f \in [Items -> ItemStatus],
         NEW approvals \in SUBSET Statement, Handled(k, f, approvals),
         NEW j \in Cases, CaseOnItsWay(j)
  PROVE  CaseOnItsWay(j)'
<1>. USE DEF WayInv
<1>0. /\ turn \in Nat /\ cases \in [Cases -> Nat]
      /\ cases' = [cases EXCEPT ![k] = turn + 1]
      /\ caseRow' = caseRow
  BY DEF Handled, Upsert, tables, TypeInv, TypeOK
<1>1. CASE j # k
  <2>1. CaseStatements(j)' = CaseStatements(j) /\ cases'[j] = cases[j]
    BY <1>0, <1>1, HandledStatements
  <2>. QED
    BY <1>0, <2>1 DEF CaseOnItsWay, CaseInsertBefore
<1>2. CASE j = k
  <2>. DEFINE c == CaseStatement(k)
  <2>1. CaseStatements(k)' = CaseStatements(k) \cup {c} /\ cases'[k] = turn + 1
    BY <1>0, HandledStatements
  <2>2. c.turn = turn + 1 /\ c.op = IF cases[k] = 0 THEN "insert_case" ELSE "update_case"
    BY DEF CaseStatement
  <2>3. \A s \in CaseStatements(k) : s.turn \in 1..turn /\ s.turn <= cases[k]
    BY DEF CaseStatements, TypeInv, SentTyped, AheadInv, SentNotAhead
  <2>4. cases[k] = 0 => CaseStatements(k) = {} /\ caseRow[k] = 0
    BY <1>2, <2>3 DEF CaseOnItsWay
  <2>5. cases[k] # 0 => caseRow[k] # 0 \/ \E q \in CaseStatements(k) : q.op = "insert_case"
    <3>1. CASE CaseStatements(k) = {}
      BY <1>2, <3>1 DEF CaseOnItsWay
    <3>2. ASSUME NEW s \in CaseStatements(k) PROVE <2>5!2
      BY <1>2, <3>2 DEF CaseOnItsWay, CaseInsertBefore, CaseStatements, CaseOp
    <3>. QED
      BY <3>1, <3>2
  <2>. HIDE DEF c
  <2>6. \A s, q \in CaseStatements(k)' :
          s.turn = q.turn \/ (s.op = "insert_case" /\ q.op = "insert_case") => s = q
    BY <1>0, <1>2, <2>1, <2>2, <2>3, <2>4 DEF CaseOnItsWay
  <2>7. ASSUME NEW s \in CaseStatements(k)'
        PROVE  /\ s.op = "insert_case" => caseRow'[k] = 0
               /\ s.op = "update_case" => caseRow'[k] # 0 \/ CaseInsertBefore(k, s)'
    <3>1. CASE s = c
      BY <1>0, <3>1, <2>1, <2>2, <2>3, <2>4, <2>5 DEF CaseInsertBefore
    <3>2. CASE s \in CaseStatements(k)
      BY <1>0, <1>2, <3>2, <2>1 DEF CaseOnItsWay, CaseInsertBefore
    <3>. QED
      BY <2>1, <3>1, <3>2
  <2>. QED
    BY <1>2, <2>1, <2>2, <2>6, <2>7 DEF CaseOnItsWay
<1>. QED
  BY <1>1, <1>2

LEMMA ItemWayHandled ==
  ASSUME WayInv, NEW k \in Cases, NEW f \in [Items -> ItemStatus],
         NEW approvals \in SUBSET Statement, Handled(k, f, approvals),
         NEW i \in Items, CaseOnItsWay(CaseOf[i]), ItemOnItsWay(i)
  PROVE  ItemOnItsWay(i)'
<1>. USE DEF WayInv
<1>. DEFINE c == CaseOf[i]
            new == ItemStatement(i, IF i \in persisted THEN "update_item" ELSE "insert_item", f[i])
            Silent == c # k \/ f[i] = "absent" \/ (i \in persisted /\ i \in ActionIds)
<1>0. /\ turn \in Nat /\ c \in Cases
      /\ status' = f /\ caseRow' = caseRow /\ itemRow' = itemRow
  BY IdsAssumption DEF Handled, Upsert, tables, TypeInv, TypeOK
<1>1. persisted = {j \in Items : status[j] # "absent"}
  BY DEF OnItsWay, PersistedExact
<1>2. \A s \in RowStatements(i) :
        s.turn \in 1..turn /\ s.status \in ItemStatus \ {"absent"} /\ NotAfter(s.status, status[i])
  BY DEF RowStatements, TypeInv, SentTyped, AheadInv, SentNotAhead
\* An item that is not in the cache has no statement in flight.
<1>3. status[i] = "absent" => RowStatements(i) = {} /\ itemRow[i] = "absent"
  <2>1. ASSUME status[i] = "absent", NEW s \in RowStatements(i) PROVE FALSE
    BY <1>2, <2>1, Ranks, RankOfStatus DEF NotAfter
  <2>. QED
    BY <2>1 DEF ItemOnItsWay
\* An INSERT of the case that is in flight stays there.
<1>4a. CaseStatements(c) \subseteq CaseStatements(c)'
  BY <1>0, HandledStatements DEF WayInv
<1>4. \A s : CaseInsertBefore(c, s) => CaseInsertBefore(c, s)'
  BY <1>4a DEF CaseInsertBefore
<1>5. CASE Silent
  <2>1. RowStatements(i)' = RowStatements(i)
    BY <1>5, HandledStatements
  <2>2. f[i] = status[i]
    BY <1>1, <1>5, Ranks, RankOfStatus DEF Handled, TypeInv, TypeOK
  <2>. QED
    BY <1>0, <1>4, <2>1, <2>2 DEF ItemOnItsWay, ItemInsertBefore
<1>6. CASE ~Silent
  <2>1. RowStatements(i)' = RowStatements(i) \cup {new} /\ c = k
    BY <1>6, HandledStatements
  <2>2. /\ new.turn = turn + 1 /\ new.status = f[i]
        /\ new.op = IF i \in persisted THEN "update_item" ELSE "insert_item"
    BY DEF ItemStatement
  <2>3. i \in persisted => itemRow[i] # "absent" \/ \E q \in RowStatements(i) : q.op = "insert_item"
    <3>1. CASE RowStatements(i) = {}
      BY <1>1, <3>1 DEF ItemOnItsWay
    <3>2. ASSUME NEW s \in RowStatements(i) PROVE <2>3!2
      BY <3>2 DEF ItemOnItsWay, ItemInsertBefore, RowStatements, ItemOp
    <3>. QED
      BY <3>1, <3>2
  \* An item is only added to a case that is cached.
  <2>4. caseRow[c] # 0 \/ \E q \in CaseStatements(c) : q.op = "insert_case"
    <3>1. cases[c] # 0
      BY <1>0, <1>6, <2>1 DEF Handled, TypeInv, ItemsHaveCase
    <3>2. CASE CaseStatements(c) = {}
      BY <3>1, <3>2 DEF CaseOnItsWay
    <3>3. ASSUME NEW s \in CaseStatements(c) PROVE <2>4
      BY <3>3 DEF CaseOnItsWay, CaseInsertBefore, CaseStatements, CaseOp
    <3>. QED
      BY <3>2, <3>3
  <2>5. \A q \in CaseStatements(c) : q.turn \in 1..turn
    BY DEF CaseStatements, TypeInv, SentTyped
  <2>. HIDE DEF new
  <2>6. caseRow'[c] # 0 \/ \E q \in CaseStatements(c)' : q.op = "insert_case" /\ q.turn < new.turn
    BY <1>0, <1>4a, <2>2, <2>4, <2>5
  <2>7. i \notin persisted => RowStatements(i) = {} /\ itemRow[i] = "absent"
    BY <1>1, <1>3
  <2>8. \A s, q \in RowStatements(i)' :
          s.turn = q.turn \/ (s.op = "insert_item" /\ q.op = "insert_item") => s = q
    BY <1>0, <1>2, <2>1, <2>2, <2>7 DEF ItemOnItsWay
  <2>9. ASSUME NEW s \in RowStatements(i)'
        PROVE  /\ s.op = "insert_item" =>
                    itemRow'[i] = "absent" /\ (caseRow'[c] # 0 \/ CaseInsertBefore(c, s)')
               /\ s.op = "update_item" => itemRow'[i] # "absent" \/ ItemInsertBefore(i, s)'
    <3>1. CASE s = new
      <4>1. s.op = "insert_item" => i \notin persisted
        BY <3>1, <2>2
      <4>2. s.op = "update_item" => i \in persisted
        BY <3>1, <2>2
      <4>3. CaseInsertBefore(c, s)' <=> \E q \in CaseStatements(c)' : q.op = "insert_case" /\ q.turn < s.turn
        BY DEF CaseInsertBefore
      <4>4. ItemInsertBefore(i, s)' <=> \E q \in RowStatements(i)' : q.op = "insert_item" /\ q.turn < s.turn
        BY DEF ItemInsertBefore
      <4>. QED
        BY <1>0, <1>2, <3>1, <2>1, <2>2, <2>3, <2>6, <2>7, <4>1, <4>2, <4>3, <4>4
    <3>2. CASE s \in RowStatements(i)
      BY <1>0, <1>4, <3>2, <2>1 DEF ItemOnItsWay, ItemInsertBefore
    <3>. QED
      BY <2>1, <3>1, <3>2
  <2>10. new.status = status'[i] /\ \A q \in RowStatements(i)' : q.turn <= new.turn
    BY <1>0, <1>2, <2>1, <2>2
  <2>. QED
    BY <2>1, <2>8, <2>9, <2>10 DEF ItemOnItsWay
<1>. QED
  BY <1>5, <1>6

LEMMA WayHandled ==
  ASSUME WayInv, NEW k \in Cases, NEW f \in [Items -> ItemStatus],
         NEW approvals \in SUBSET Statement, Handled(k, f, approvals)
  PROVE  OnItsWay'
<1>1. /\ disturbed' = disturbed
      /\ status' = f
      /\ persisted' = persisted \cup {i \in Items : CaseOf[i] = k /\ f[i] # "absent"}
  BY DEF Handled, Upsert
<1>2. PersistedExact'
  <2>1. \A i \in Items : f[i] = status[i] \/ (CaseOf[i] = k /\ f[i] # "absent")
    BY Ranks, RankOfStatus DEF Handled, WayInv, TypeInv, TypeOK
  <2>2. \A i \in Items : CaseOf[i] = k /\ status[i] # "absent" => f[i] # "absent"
    BY Ranks, RankOfStatus DEF Handled, WayInv, TypeInv, TypeOK
  <2>. QED
    BY <1>1, <2>1, <2>2 DEF PersistedExact, WayInv, OnItsWay
<1>3. \A j \in Cases \ disturbed : CaseOnItsWay(j)'
  BY CaseWayHandled DEF WayInv, OnItsWay
<1>4. \A i \in Items : CaseOf[i] \notin disturbed => ItemOnItsWay(i)'
  BY ItemWayHandled, IdsAssumption DEF WayInv, OnItsWay
<1>. QED
  BY <1>1, <1>2, <1>3, <1>4 DEF OnItsWay

\* The statement that runs, if it overtakes nothing, does what it is for.
LEMMA CaseWayRun ==
  ASSUME WayInv, NEW s \in sent, RunCaseStatement(s), ~Overtakes(s), CaseOnItsWay(s.case)
  PROVE  CaseOnItsWay(s.case)' /\ caseRow'[s.case] = s.turn
<1>. DEFINE k == s.case
<1>0. k \in Cases /\ s \in CaseStatements(k) /\ s.turn \in 1..turn /\ s.op \in CaseOp
  BY DEF RunCaseStatement, CaseStatements, WayInv, TypeInv, TypeOK, Statement, SentTyped
<1>1. \A q \in CaseStatements(k) : q.turn \in Nat /\ (q = s \/ s.turn < q.turn)
  <2>1. ASSUME NEW q \in CaseStatements(k) PROVE q.turn >= s.turn /\ q.turn \in Nat
    BY DEF Overtakes, CaseStatements, WayInv, TypeInv, SentTyped, TypeOK
  <2>. QED
    BY <1>0, <2>1 DEF CaseOnItsWay, WayInv, TypeInv, TypeOK
<1>2. ~CaseInsertBefore(k, s)
  <2>1. s.turn \in Nat
    BY <1>0, <1>1
  <2>2. \A q \in CaseStatements(k) : ~(q.turn < s.turn)
    BY <1>1, <2>1
  <2>. QED
    BY <2>2 DEF CaseInsertBefore
<1>3. caseRow[k] \in Nat /\ caseRow' = [caseRow EXCEPT ![k] = s.turn] /\ caseRow'[k] = s.turn
  BY <1>0, <1>2 DEF RunCaseStatement, CaseOnItsWay, CaseOp, WayInv, TypeInv, TypeOK
<1>4. cases' = cases /\ CaseStatements(k)' = CaseStatements(k) \ {s}
  BY DEF RunCaseStatement, Finish, CaseStatements, cache
<1>5. caseRow'[k] # 0 /\ \A q \in CaseStatements(k)' : q.op # "insert_case"
  <2>1. CASE s.op = "insert_case"
    BY <1>0, <1>3, <1>4, <2>1 DEF CaseOnItsWay
  <2>2. CASE s.op = "update_case"
    BY <1>0, <1>2, <1>3, <1>4, <2>2 DEF CaseOnItsWay
  <2>. QED
    BY <1>0, <2>1, <2>2 DEF CaseOp
<1>6. \/ CaseStatements(k)' = {} /\ caseRow'[k] = cases'[k]
      \/ \E q \in CaseStatements(k)' : q.turn = cases'[k]
  <2>1. PICK q \in CaseStatements(k) : q.turn = cases[k]
    BY <1>0 DEF CaseOnItsWay
  <2>2. \A r \in CaseStatements(k) : r.turn <= cases[k] /\ r.turn \in Nat
    BY DEF CaseStatements, WayInv, AheadInv, SentNotAhead, TypeInv, SentTyped, TypeOK
  <2>3. CASE q = s
    BY <1>0, <1>1, <1>3, <1>4, <2>1, <2>2, <2>3 DEF WayInv, TypeInv, TypeOK
  <2>. QED
    BY <1>4, <2>1, <2>3
<1>7. CaseOnItsWay(k)'
  BY <1>4, <1>5, <1>6 DEF CaseOnItsWay
<1>. QED
  BY <1>3, <1>7

LEMMA ItemWayRun ==
  ASSUME WayInv, NEW s \in sent, RunItemStatement(s), ~Overtakes(s), ItemOnItsWay(s.item)
  PROVE  ItemOnItsWay(s.item)'
<1>. DEFINE i == s.item
<1>0. /\ i \in Items /\ CaseOf[i] = s.case /\ s \in RowStatements(i) /\ s.op \in ItemOp
      /\ s.turn \in 1..turn /\ s.status \in ItemStatus \ {"absent"} /\ turn \in Nat
  BY DEF RunItemStatement, RowStatements, WayInv, TypeInv, TypeOK, SentTyped
<1>1. \A q \in sent : q.case = s.case => q.turn >= s.turn /\ q.turn \in Nat
  BY <1>0 DEF Overtakes, WayInv, TypeInv, SentTyped, TypeOK
<1>2. \A q \in RowStatements(i) : q = s \/ s.turn < q.turn
  <2>1. ASSUME NEW q \in RowStatements(i) PROVE q.turn >= s.turn /\ q.turn \in Nat
    BY <1>0, <1>1 DEF RowStatements, WayInv, TypeInv, SentTyped
  <2>. QED
    BY <1>0, <2>1 DEF ItemOnItsWay
<1>3. ~ItemInsertBefore(i, s) /\ ~CaseInsertBefore(s.case, s)
  <2>0. s.turn \in Nat
    BY <1>0, <1>1
  <2>1. \A q \in RowStatements(i) : q.case = s.case
    BY <1>0 DEF RowStatements, WayInv, TypeInv, SentTyped
  <2>2. \A q \in sent : q.case = s.case => ~(q.turn < s.turn)
    BY <1>1, <2>0
  <2>. QED
    BY <2>1, <2>2 DEF ItemInsertBefore, CaseInsertBefore, CaseStatements, RowStatements
<1>4. itemRow' = [itemRow EXCEPT ![i] = s.status] /\ itemRow'[i] = s.status
  BY <1>0, <1>3 DEF RunItemStatement, ItemOnItsWay, ItemOp, WayInv, TypeInv, TypeOK
<1>5. /\ status' = status /\ caseRow' = caseRow
      /\ RowStatements(i)' = RowStatements(i) \ {s}
      /\ CaseStatements(s.case)' = CaseStatements(s.case)
  BY DEF RunItemStatement, Finish, RowStatements, CaseStatements, cache, ItemOp, CaseOp
<1>6. itemRow'[i] # "absent" /\ \A q \in RowStatements(i)' : q.op # "insert_item"
  <2>1. CASE s.op = "insert_item"
    BY <1>0, <1>4, <1>5, <2>1 DEF ItemOnItsWay
  <2>2. CASE s.op = "update_item"
    BY <1>0, <1>3, <1>4, <1>5, <2>2 DEF ItemOnItsWay
  <2>. QED
    BY <1>0, <2>1, <2>2 DEF ItemOp
<1>7. \/ RowStatements(i)' = {} /\ itemRow'[i] = status'[i]
      \/ \E r \in RowStatements(i)' :
           r.status = status'[i] /\ \A q \in RowStatements(i)' : q.turn <= r.turn
  <2>1. PICK r \in RowStatements(i) :
          r.status = status[i] /\ \A q \in RowStatements(i) : q.turn <= r.turn
    BY <1>0 DEF ItemOnItsWay
  <2>2. CASE r = s
    <3>1. RowStatements(i)' = {}
      BY <1>0, <1>2, <1>5, <2>1, <2>2 DEF RowStatements, WayInv, TypeInv, SentTyped
    <3>. QED
      BY <1>4, <1>5, <2>1, <2>2, <3>1
  <2>. QED
    BY <1>5, <2>1, <2>2
<1>. QED
  BY <1>5, <1>6, <1>7 DEF ItemOnItsWay

LEMMA WayRun ==
  ASSUME WayInv, NEW s \in sent, RunStatement(s) \/ Fail(s)
  PROVE  OnItsWay'
<1>0. /\ UNCHANGED <<cases, status, persisted>>
      /\ sent' = sent \ {s}
      /\ disturbed \subseteq disturbed'
      /\ s.case \in Cases
      /\ s.case \notin disturbed' => ~Overtakes(s) /\ ~Fail(s)
  BY DEF RunStatement, RunCaseStatement, RunItemStatement, RunPropose, RunReview, Fail, Finish,
         cache, WayInv, TypeInv, TypeOK, Statement
<1>1. PersistedExact'
  BY <1>0 DEF PersistedExact, WayInv, OnItsWay
\* Rows and statements that s is not about stay as they are.
<1>2. ASSUME NEW j \in Cases, s.op \notin CaseOp \/ s.case # j \/ Fail(s)
      PROVE  caseRow'[j] = caseRow[j] /\ (s.op \notin CaseOp \/ s.case # j => CaseStatements(j)' = CaseStatements(j))
  BY <1>0, <1>2 DEF RunStatement, RunCaseStatement, RunItemStatement, RunPropose, RunReview, Fail,
     tables, CaseStatements, WayInv, TypeInv, TypeOK
<1>3. ASSUME NEW i \in Items, s.op \notin ItemOp \/ s.item # i
      PROVE  itemRow'[i] = itemRow[i] /\ RowStatements(i)' = RowStatements(i)
  BY <1>0, <1>3 DEF RunStatement, RunCaseStatement, RunItemStatement, RunPropose, RunReview, Fail,
     tables, RowStatements, WayInv, TypeInv, TypeOK
<1>4. ASSUME NEW j \in Cases \ disturbed' PROVE CaseOnItsWay(j)'
  <2>1. CaseOnItsWay(j)
    BY <1>0 DEF WayInv, OnItsWay
  <2>2. CASE s.op \notin CaseOp \/ s.case # j
    BY <1>0, <1>2, <2>1, <2>2 DEF CaseOnItsWay, CaseInsertBefore
  <2>3. CASE s.op \in CaseOp /\ s.case = j
    <3>1. RunCaseStatement(s) /\ ~Overtakes(s)
      BY <1>0, <2>3 DEF RunStatement, RunItemStatement, RunPropose, RunReview, CaseOp, ItemOp
    <3>. QED
      BY <2>1, <2>3, <3>1, CaseWayRun
  <2>. QED
    BY <2>2, <2>3
<1>5. ASSUME NEW i \in Items, CaseOf[i] \notin disturbed' PROVE ItemOnItsWay(i)'
  <2>. DEFINE c == CaseOf[i]
  <2>1. c \in Cases /\ CaseOnItsWay(c) /\ ItemOnItsWay(i)
    BY <1>0, <1>5, IdsAssumption DEF WayInv, OnItsWay
  <2>2. CASE s.op \in CaseOp /\ s.case = c
    <3>1. RunCaseStatement(s) /\ ~Overtakes(s)
      BY <1>0, <1>5, <2>2 DEF RunStatement, RunItemStatement, RunPropose, RunReview, CaseOp, ItemOp
    <3>2. caseRow'[c] # 0
      BY <2>1, <2>2, <3>1, CaseWayRun DEF WayInv, TypeInv, SentTyped
    <3>3. itemRow'[i] = itemRow[i] /\ RowStatements(i)' = RowStatements(i)
      BY <1>3, <2>2 DEF CaseOp, ItemOp
    <3>. QED
      BY <1>0, <2>1, <3>2, <3>3 DEF ItemOnItsWay, ItemInsertBefore
  <2>3. CASE s.op \in ItemOp /\ s.item = i
    <3>1. s.case = c
      BY <2>3 DEF WayInv, TypeInv, SentTyped
    <3>2. RunItemStatement(s) /\ ~Overtakes(s)
      BY <1>0, <1>5, <2>3, <3>1 DEF RunStatement, RunCaseStatement, RunPropose, RunReview, CaseOp, ItemOp
    <3>. QED
      BY <2>1, <2>3, <3>2, ItemWayRun
  <2>4. CASE ~(s.op \in CaseOp /\ s.case = c) /\ ~(s.op \in ItemOp /\ s.item = i)
    <3>1. caseRow'[c] = caseRow[c] /\ CaseStatements(c)' = CaseStatements(c)
      BY <1>2, <2>1, <2>4
    <3>2. itemRow'[i] = itemRow[i] /\ RowStatements(i)' = RowStatements(i)
      BY <1>3, <2>4
    <3>. QED
      BY <1>0, <2>1, <3>1, <3>2 DEF ItemOnItsWay, ItemInsertBefore, CaseInsertBefore
  <2>. QED
    BY <2>2, <2>3, <2>4
<1>. QED
  BY <1>1, <1>4, <1>5 DEF OnItsWay

LEMMA WayInit == Init => OnItsWay
BY DEF Init, OnItsWay, PersistedExact, CaseOnItsWay, ItemOnItsWay, CaseStatements, RowStatements

LEMMA WayStep == WayInv /\ [Next]_vars => OnItsWay'
<1>. SUFFICES ASSUME WayInv, [Next]_vars PROVE OnItsWay'
  OBVIOUS
<1>1. CASE Restart
  <2>1. /\ cases' = caseRow /\ status' = itemRow /\ sent' = {}
        /\ persisted' = {i \in Items : itemRow[i] # "absent"}
        /\ UNCHANGED <<caseRow, itemRow>>
    BY <1>1 DEF Restart, tables
  <2>. QED
    BY <2>1 DEF OnItsWay, PersistedExact, CaseOnItsWay, ItemOnItsWay, CaseStatements, RowStatements
<1>2. CASE UNCHANGED vars
  BY <1>2 DEF vars, cache, tables, history, bounds, OnItsWay, PersistedExact, CaseOnItsWay, ItemOnItsWay,
     CaseStatements, RowStatements, CaseInsertBefore, ItemInsertBefore, WayInv
<1>3. CASE Next
  BY <1>1, <1>3, NextCases, WayHandled, WayRun DEF WayInv, TypeInv
<1>. QED
  BY <1>2, <1>3

LEMMA WayInvariant == Spec => []WayInv
BY TypeInvInit, TypeInvStep, AheadInit, AheadStep, WayInit, WayStep, PTL DEF Spec, WayInv

LEMMA WayConverges == WayInv => Converges
<1>. SUFFICES ASSUME WayInv, NEW k \in Cases, k \notin disturbed, ~\E s \in sent : s.case = k
              PROVE  /\ caseRow[k] = cases[k]
                     /\ \A i \in Items : CaseOf[i] = k => itemRow[i] = status[i]
  BY DEF Converges
<1>1. CaseStatements(k) = {}
  BY DEF CaseStatements
<1>2. \A i \in Items : CaseOf[i] = k => RowStatements(i) = {}
  BY DEF RowStatements, WayInv, TypeInv, SentTyped
<1>. QED
  BY <1>1, <1>2 DEF WayInv, OnItsWay, CaseOnItsWay, ItemOnItsWay

\* When nothing about a case is in flight, and nothing about it failed or was
\* overtaken, its rows are what the cache holds.
THEOREM AlwaysConverges == Spec => []Converges
BY WayInvariant, WayConverges, PTL

-----------------------------------------------------------------------------
\* A restart.

\* The pool has nothing left to do for case k, and all of it went well.
Settled(k) == k \notin disturbed /\ ~\E s \in sent : s.case = k

\* init() restores what upsert() left of every settled case: the case, its
\* items, and which of them were sent.  Any other case comes back as it was
\* after some turn before, never later than it was, and an item that changed
\* comes back earlier on its way (PgCaseStore.init(), pg_store.ts).
RestartRestores ==
  [][Restart =>
       /\ \A k \in Cases : cases'[k] <= cases[k]
       /\ \A i \in Items : status'[i] = status[i] \/ Rank(status'[i]) < Rank(status[i])
       /\ persisted' \subseteq persisted
       /\ \A k \in Cases : Settled(k) =>
            /\ cases'[k] = cases[k]
            /\ \A i \in Items : CaseOf[i] = k =>
                 status'[i] = status[i] /\ (i \in persisted' <=> i \in persisted)]_vars

\* A restart never brings a case or an item forward, never takes for sent what
\* was not, and leaves the settled cases as they are.
THEOREM RestartsRestore == Spec => RestartRestores
<1>1. WayInv =>
        [Restart =>
           /\ \A k \in Cases : cases'[k] <= cases[k]
           /\ \A i \in Items : status'[i] = status[i] \/ Rank(status'[i]) < Rank(status[i])
           /\ persisted' \subseteq persisted
           /\ \A k \in Cases : Settled(k) =>
                /\ cases'[k] = cases[k]
                /\ \A i \in Items : CaseOf[i] = k =>
                     status'[i] = status[i] /\ (i \in persisted' <=> i \in persisted)]_vars
  <2>. SUFFICES ASSUME WayInv, Restart
                PROVE  /\ \A k \in Cases : cases'[k] <= cases[k]
                       /\ \A i \in Items : status'[i] = status[i] \/ Rank(status'[i]) < Rank(status[i])
                       /\ persisted' \subseteq persisted
                       /\ \A k \in Cases : Settled(k) =>
                            /\ cases'[k] = cases[k]
                            /\ \A i \in Items : CaseOf[i] = k =>
                                 status'[i] = status[i] /\ (i \in persisted' <=> i \in persisted)
    OBVIOUS
  <2>1. /\ cases' = caseRow /\ status' = itemRow
        /\ persisted' = {i \in Items : itemRow[i] # "absent"}
    BY DEF Restart
  <2>2. persisted = {i \in Items : status[i] # "absent"}
    BY DEF WayInv, OnItsWay, PersistedExact
  <2>3. /\ \A k \in Cases : caseRow[k] <= cases[k]
        /\ \A i \in Items : itemRow[i] = status[i] \/ Rank(itemRow[i]) < Rank(status[i])
    BY DEF WayInv, AheadInv, RowsNeverAhead
  <2>4. persisted' \subseteq persisted
    <3>. SUFFICES ASSUME NEW i \in Items, itemRow[i] # "absent"
                  PROVE  status[i] # "absent"
      BY <2>1, <2>2
    <3>1. Rank(itemRow[i]) \in 0..3 /\ Rank("absent") = 0
      BY DEF Rank, Decision
    <3>. QED
      BY <2>3, <3>1
  <2>5. ASSUME NEW k \in Cases, Settled(k)
        PROVE  /\ caseRow[k] = cases[k]
               /\ \A i \in Items : CaseOf[i] = k => itemRow[i] = status[i]
    BY <2>5, WayConverges DEF Converges, Settled
  <2>. QED
    BY <2>1, <2>2, <2>3, <2>4, <2>5
<1>. QED
  BY <1>1, WayInvariant, PTL DEF RestartRestores

-----------------------------------------------------------------------------
\* The approvals log.

\* What a handler adds to the statements about item i.
LEMMA HandledApprovals ==
  ASSUME TypeInv, NEW k \in Cases, NEW f \in [Items -> ItemStatus],
         NEW approvals \in SUBSET Statement, Handled(k, f, approvals), NEW i \in Logged
  PROVE  \/ /\ verdict'[i] = verdict[i]
            /\ Proposals(i)' = Proposals(i) /\ Reviews(i)' = Reviews(i)
         \/ /\ verdict[i] = "unborn" /\ verdict'[i] = "none"
            /\ Proposals(i)' = Proposals(i) \cup {ApprovalStatement(i, "propose", "none")}
            /\ Reviews(i)' = Reviews(i)
         \/ \E d \in Decision :
              /\ verdict[i] # "unborn"
              /\ verdict'[i] = IF verdict[i] = "none" THEN d ELSE verdict[i]
              /\ Proposals(i)' = Proposals(i)
              /\ Reviews(i)' = Reviews(i) \cup {ApprovalStatement(i, "review", d)}
         \/ i \in unlogged'
<1>0. sent' = sent \cup {CaseStatement(k)} \cup ItemStatements(k, f) \cup approvals
  BY DEF Handled, Upsert
<1>1. \A s \in {CaseStatement(k)} \cup ItemStatements(k, f) : s.op \notin ApprovalOp
  BY DEF CaseStatement, ItemStatements, ItemStatement, ApprovalOp
<1>2. /\ Proposals(i)' = Proposals(i) \cup {s \in approvals : s.op = "propose" /\ s.item = i}
      /\ Reviews(i)' = Reviews(i) \cup {s \in approvals : s.op = "review" /\ s.item = i}
  BY <1>0, <1>1 DEF Proposals, Reviews, ApprovalOp
<1>3. i \in Items /\ i \notin ActionIds
  BY IdsAssumption DEF Logged, Items
<1>4. CASE NotLogged(f, approvals)
  BY <1>2, <1>4 DEF NotLogged
<1>5. CASE Born(k, f, approvals)
  <2>1. PICK j \in Items :
          /\ verdict[j] = "unborn"
          /\ verdict' = [verdict EXCEPT ![j] = "none"]
          /\ \/ j \in ActionIds /\ approvals = {}
             \/ j \in Logged /\ approvals = {ApprovalStatement(j, "propose", "none")}
             \/ approvals = {} /\ j \in unlogged'
    BY <1>5 DEF Born, Told
  <2>2. CASE j = i
    BY <1>2, <1>3, <2>1, <2>2 DEF ApprovalStatement, TypeInv, TypeOK
  <2>3. CASE j # i
    BY <1>2, <1>3, <2>1, <2>3 DEF ApprovalStatement, TypeInv, TypeOK
  <2>. QED
    BY <2>2, <2>3
<1>6. CASE Decided(k, f, approvals)
  <2>1. PICK j \in Logged, d \in Decision :
          /\ status[j] \in {"pending", "open"}
          /\ verdict' = [verdict EXCEPT ![j] = IF @ = "none" THEN d ELSE @]
          /\ \/ approvals = {ApprovalStatement(j, "review", d)}
             \/ approvals = {} /\ j \in unlogged'
    BY <1>6 DEF Decided, Told
  <2>2. j \in Items
    BY DEF Logged, Items
  <2>3. CASE j = i
    <3>1. verdict[i] # "unborn"
      BY <2>1, <2>2, <2>3 DEF TypeInv, UnbornNowhere
    <3>2. verdict'[i] = IF verdict[i] = "none" THEN d ELSE verdict[i]
      BY <1>3, <2>1, <2>3 DEF TypeInv, TypeOK
    <3>3. \/ /\ Proposals(i)' = Proposals(i)
             /\ Reviews(i)' = Reviews(i) \cup {ApprovalStatement(i, "review", d)}
          \/ i \in unlogged'
      BY <1>2, <2>1, <2>3 DEF ApprovalStatement
    <3>. QED
      BY <3>1, <3>2, <3>3
  <2>4. CASE j # i
    BY <1>2, <1>3, <2>1, <2>2, <2>4 DEF ApprovalStatement, TypeInv, TypeOK
  <2>. QED
    BY <2>3, <2>4
<1>. QED
  BY <1>4, <1>5, <1>6 DEF Handled

LEMMA ApprovalsHandled ==
  ASSUME TypeInv, ApprovalsOnTheirWay, NEW k \in Cases, NEW f \in [Items -> ItemStatus],
         NEW approvals \in SUBSET Statement, Handled(k, f, approvals)
  PROVE  ApprovalsOnTheirWay'
<1>0. approvalRow' = approvalRow /\ unlogged \subseteq unlogged'
  BY DEF Handled, Upsert, tables, NotLogged, Born, Decided, Told
<1>. SUFFICES ASSUME NEW i \in Logged, verdict'[i] # "unborn", i \notin unlogged'
              PROVE  ApprovalOnItsWay(i)'
  BY <1>0 DEF ApprovalsOnTheirWay
<1>1. i \in Items /\ turn \in Nat
  BY DEF Logged, Items, TypeInv, TypeOK
<1>2. \A q \in Proposals(i) \cup Reviews(i) : q.turn \in 1..turn
  BY DEF Proposals, Reviews, TypeInv, SentTyped
<1>3. CASE /\ verdict'[i] = verdict[i]
           /\ Proposals(i)' = Proposals(i) /\ Reviews(i)' = Reviews(i)
  <2>1. ApprovalOnItsWay(i)
    BY <1>0, <1>3 DEF ApprovalsOnTheirWay
  <2>. QED
    BY <1>0, <1>3, <2>1 DEF ApprovalOnItsWay
<1>4. CASE /\ verdict[i] = "unborn" /\ verdict'[i] = "none"
           /\ Proposals(i)' = Proposals(i) \cup {ApprovalStatement(i, "propose", "none")}
           /\ Reviews(i)' = Reviews(i)
  <2>1. approvalRow[i] = "none" /\ Proposals(i) = {} /\ Reviews(i) = {}
    BY <1>1, <1>4 DEF TypeInv, UnbornNowhere, Proposals, Reviews
  <2>. QED
    BY <1>0, <1>4, <2>1 DEF ApprovalOnItsWay, Decision
<1>5. ASSUME NEW d \in Decision, verdict[i] # "unborn",
             verdict'[i] = IF verdict[i] = "none" THEN d ELSE verdict[i],
             Proposals(i)' = Proposals(i),
             Reviews(i)' = Reviews(i) \cup {ApprovalStatement(i, "review", d)}
      PROVE  ApprovalOnItsWay(i)'
  <2>. DEFINE new == ApprovalStatement(i, "review", d)
  <2>1. ApprovalOnItsWay(i)
    BY <1>0, <1>5 DEF ApprovalsOnTheirWay
  <2>2. new.turn = turn + 1 /\ new.status = d
    BY DEF ApprovalStatement
  <2>7. Reviews(i)' = Reviews(i) \cup {new}
    BY <1>5
  <2>. HIDE DEF new
  <2>8. \A q \in Proposals(i) \cup Reviews(i) : q.turn < new.turn
    BY <1>1, <1>2, <2>2
  <2>3. \A p \in Proposals(i)' : approvalRow'[i] = "none" /\ \A r \in Reviews(i)' : p.turn < r.turn
    <3>1. \A p \in Proposals(i) : approvalRow[i] = "none" /\ \A r \in Reviews(i) : p.turn < r.turn
      BY <2>1 DEF ApprovalOnItsWay
    <3>. QED
      BY <1>0, <1>5, <2>7, <2>8, <3>1
  <2>4. approvalRow[i] \in Decision => verdict'[i] = verdict[i]
    BY <1>5, <2>1 DEF ApprovalOnItsWay, Decision
  <2>5. verdict'[i] # "none"
    BY <1>5 DEF Decision
  <2>6. ASSUME approvalRow[i] \in {"none", "pending"}
        PROVE  \E r \in Reviews(i)' :
                 r.status = verdict'[i] /\ \A q \in Reviews(i)' : q = r \/ r.turn < q.turn
    <3>1. CASE verdict[i] = "none"
      <4>1. Reviews(i) = {}
        BY <2>1, <2>6, <3>1 DEF ApprovalOnItsWay
      <4>. QED
        BY <1>5, <2>2, <2>7, <3>1, <4>1
    <3>2. CASE verdict[i] # "none"
      <4>1. PICK r \in Reviews(i) :
              r.status = verdict[i] /\ \A q \in Reviews(i) : q = r \/ r.turn < q.turn
        BY <2>1, <2>6, <3>2 DEF ApprovalOnItsWay
      <4>2. r.turn < new.turn
        BY <2>8
      <4>. QED
        BY <1>5, <2>7, <3>2, <4>1, <4>2
    <3>. QED
      BY <3>1, <3>2
  <2>. QED
    BY <1>0, <1>5, <2>1, <2>3, <2>4, <2>5, <2>6 DEF ApprovalOnItsWay
<1>. QED
  BY <1>3, <1>4, <1>5, HandledApprovals

LEMMA ApprovalsRun ==
  ASSUME TypeInv, ApprovalsOnTheirWay, NEW s \in sent, RunStatement(s) \/ Fail(s)
  PROVE  ApprovalsOnTheirWay'
<1>0. /\ verdict' = verdict /\ sent' = sent \ {s}
      /\ unlogged \subseteq unlogged'
      /\ s.op \in ApprovalOp /\ s.item \notin unlogged' => ~Overtakes(s) /\ ~Fail(s)
  BY DEF RunStatement, RunCaseStatement, RunItemStatement, RunPropose, RunReview, Fail, Finish
<1>. SUFFICES ASSUME NEW i \in Logged, verdict[i] # "unborn", i \notin unlogged'
              PROVE  ApprovalOnItsWay(i)'
  BY <1>0 DEF ApprovalsOnTheirWay
<1>1. ApprovalOnItsWay(i) /\ i \in Items
  BY <1>0 DEF ApprovalsOnTheirWay, Logged, Items
<1>2. Proposals(i)' = Proposals(i) \ {s} /\ Reviews(i)' = Reviews(i) \ {s}
  BY <1>0 DEF Proposals, Reviews
<1>3. CASE s.op \notin ApprovalOp \/ s.item # i
  <2>1. approvalRow'[i] = approvalRow[i]
    <3>1. CASE RunPropose(s) \/ RunReview(s)
      <4>1. s.item # i
        BY <1>3, <3>1 DEF RunPropose, RunReview, ApprovalOp
      <4>2. \E v : approvalRow' = [approvalRow EXCEPT ![s.item] = v]
        BY <3>1 DEF RunPropose, RunReview
      <4>. QED
        BY <1>1, <4>1, <4>2 DEF TypeInv, TypeOK
    <3>2. CASE RunCaseStatement(s) \/ RunItemStatement(s) \/ Fail(s)
      BY <3>2 DEF RunCaseStatement, RunItemStatement, Fail, tables
    <3>. QED
      BY <3>1, <3>2 DEF RunStatement
  <2>2. Proposals(i)' = Proposals(i) /\ Reviews(i)' = Reviews(i)
    BY <1>2, <1>3 DEF Proposals, Reviews, ApprovalOp
  <2>. QED
    BY <1>0, <1>1, <2>1, <2>2 DEF ApprovalOnItsWay
<1>4. ASSUME s.op \in ApprovalOp, s.item = i
      PROVE  s.case = CaseOf[i] /\ ~Overtakes(s) /\ (RunPropose(s) \/ RunReview(s))
  BY <1>0, <1>4 DEF RunStatement, RunCaseStatement, RunItemStatement, CaseOp, ItemOp, ApprovalOp,
     TypeInv, SentTyped
<1>5. CASE s.op = "propose" /\ s.item = i
  <2>1. approvalRow'[i] = "pending"
    BY <1>1, <1>4, <1>5 DEF RunPropose, RunReview, ApprovalOp, TypeInv, TypeOK
  <2>2. Proposals(i)' = {} /\ Reviews(i)' = Reviews(i) /\ s \in Proposals(i)
    BY <1>1, <1>2, <1>5 DEF ApprovalOnItsWay, Proposals, Reviews
  <2>3. approvalRow[i] = "none"
    BY <1>1, <2>2 DEF ApprovalOnItsWay
  <2>. QED
    BY <1>0, <1>1, <2>1, <2>2, <2>3 DEF ApprovalOnItsWay, Decision
<1>6. CASE s.op = "review" /\ s.item = i
  <2>1. approvalRow'[i] = IF approvalRow[i] = "pending" THEN s.status ELSE approvalRow[i]
    BY <1>1, <1>4, <1>6 DEF RunPropose, RunReview, ApprovalOp, TypeInv, TypeOK
  <2>2. Proposals(i)' = Proposals(i) /\ Reviews(i)' = Reviews(i) \ {s} /\ s \in Reviews(i)
    BY <1>2, <1>6 DEF Proposals, Reviews
  <2>3. \A q \in Proposals(i) \cup Reviews(i) : ~(q.turn < s.turn) /\ q.turn \in Nat
    BY <1>4, <1>6 DEF Overtakes, Proposals, Reviews, ApprovalOp, TypeInv, SentTyped
  \* The row is there: its INSERT would come first.
  <2>4. Proposals(i) = {} /\ approvalRow[i] # "none"
    BY <1>1, <2>2, <2>3 DEF ApprovalOnItsWay
  <2>5. s.status \in Decision
    BY <1>6 DEF TypeInv, SentTyped
  <2>6. CASE approvalRow[i] = "pending"
    <3>1. verdict[i] # "none"
      BY <1>1, <2>2, <2>6 DEF ApprovalOnItsWay
    <3>2. PICK r \in Reviews(i) :
            r.status = verdict[i] /\ \A q \in Reviews(i) : q = r \/ r.turn < q.turn
      BY <1>1, <2>6, <3>1 DEF ApprovalOnItsWay
    <3>3. s = r
      BY <2>2, <2>3, <3>2
    <3>. QED
      BY <1>0, <2>1, <2>2, <2>4, <2>5, <2>6, <3>2, <3>3 DEF ApprovalOnItsWay, Decision
  <2>7. CASE approvalRow[i] # "pending"
    <3>1. approvalRow[i] \in Decision
      BY <1>1, <2>4, <2>7 DEF TypeInv, TypeOK
    <3>. QED
      BY <1>0, <1>1, <2>1, <2>2, <2>4, <2>7, <3>1 DEF ApprovalOnItsWay, Decision
  <2>. QED
    BY <2>6, <2>7
<1>. QED
  BY <1>3, <1>5, <1>6 DEF ApprovalOp

LEMMA ApprovalsRestart ==
  ASSUME TypeInv, ApprovalsOnTheirWay, Restart
  PROVE  ApprovalsOnTheirWay'
<1>0. /\ sent' = {} /\ approvalRow' = approvalRow /\ verdict' = verdict
      /\ unlogged' = unlogged \cup {s.item : s \in {q \in sent : q.op \in ApprovalOp}}
  BY DEF Restart, tables
<1>. SUFFICES ASSUME NEW i \in Logged, verdict[i] # "unborn", i \notin unlogged'
              PROVE  ApprovalOnItsWay(i)'
  BY <1>0 DEF ApprovalsOnTheirWay
<1>1. Proposals(i) = {} /\ Reviews(i) = {}
  BY <1>0 DEF Proposals, Reviews, TypeInv, SentTyped, ApprovalOp
<1>2. Proposals(i)' = {} /\ Reviews(i)' = {}
  BY <1>0 DEF Proposals, Reviews
<1>3. ApprovalOnItsWay(i)
  BY <1>0 DEF ApprovalsOnTheirWay
<1>. QED
  BY <1>0, <1>1, <1>2, <1>3 DEF ApprovalOnItsWay

LEMMA ApprovalsStep == TypeInv /\ ApprovalsOnTheirWay /\ [Next]_vars => ApprovalsOnTheirWay'
<1>. SUFFICES ASSUME TypeInv, ApprovalsOnTheirWay, [Next]_vars PROVE ApprovalsOnTheirWay'
  OBVIOUS
<1>1. CASE Next
  BY <1>1, NextCases, ApprovalsHandled, ApprovalsRun, ApprovalsRestart DEF TypeInv
<1>2. CASE UNCHANGED vars
  BY <1>2 DEF vars, cache, tables, history, bounds, ApprovalsOnTheirWay, ApprovalOnItsWay, Proposals, Reviews
<1>. QED
  BY <1>1, <1>2

\* When no approvals statement about a CAS or CAP is in flight, its row in the
\* approvals log is pending or has the first decision taken on it, unless such
\* a statement failed, overtook another, was lost in a death, or was never
\* sent because emit() threw before it (service.ts).
THEOREM ApprovalsAlwaysAgree == Spec => []ApprovalsAgree
<1>1. Init => ApprovalsOnTheirWay
  BY DEF Init, ApprovalsOnTheirWay, Logged, Items
<1>2. ASSUME TypeInv, ApprovalsOnTheirWay PROVE ApprovalsAgree
  <2>. SUFFICES ASSUME NEW i \in Logged, verdict[i] # "unborn", i \notin unlogged,
                       ~\E s \in sent : s.op \in ApprovalOp /\ s.item = i
                PROVE  approvalRow[i] = IF verdict[i] = "none" THEN "pending" ELSE verdict[i]
    BY DEF ApprovalsAgree, Logged
  <2>1. ApprovalOnItsWay(i) /\ Proposals(i) = {} /\ Reviews(i) = {}
    BY <1>2 DEF ApprovalsOnTheirWay, Proposals, Reviews, ApprovalOp
  <2>2. approvalRow[i] \in {"none", "pending"} \cup Decision /\ verdict[i] \in {"none"} \cup Decision
    BY <1>2 DEF TypeInv, TypeOK, Logged, Items
  <2>. QED
    BY <2>1, <2>2 DEF ApprovalOnItsWay, Decision
<1>. QED
  BY <1>1, <1>2, TypeInvInit, TypeInvStep, ApprovalsStep, PTL DEF Spec

=============================================================================
