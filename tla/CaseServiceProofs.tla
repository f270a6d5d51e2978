------------------------- MODULE CaseServiceProofs -------------------------
(***************************************************************************)
(* Proofs about CaseService, for every value of its constants.             *)
(*                                                                         *)
(* The argument has one central lemma: every step of Next commits a record *)
(* that is either a new case or a good rewrite of the stored one.  What    *)
(* a good rewrite is says everything the invariants and the action         *)
(* properties need, so each theorem looks at Commit and not at handlers.   *)
(***************************************************************************)
EXTENDS CaseService, TLAPS

\* No two tenants' callers post the same alert id.
AlertsDisjoint ==
  \A t, u \in Tenants : t # u => AlertsOf[t] \cap AlertsOf[u] = {}

\* The record a create writes.
Fresh(t, k, c, type, prior) ==
  /\ k \in AlertsOf[t]
  /\ ~Has(t, k)
  /\ c = NewCase(t)
  /\ type = "case.created"
  /\ prior = "none"

\* What every other handler may make of the stored record old.
Rewrite(old, c, type, prior) ==
  /\ old.state # "none"
  /\ c \in Case
  /\ type \in EventType
  /\ prior = old.state
  /\ c.tenant = old.tenant
  /\ \/ c.state = old.state
     \/ \E t \in Transition : c.state \in NextStates(old.state, t)
  /\ FieldsFit(old) => FieldsFit(c)
  /\ Attributed(old) => Attributed(c)
  /\ DecisionsKept(old, c)
  /\ ClosesDone(old, c)
  /\ Frozen(old, c)

LEMMA NewCaseGood ==
  ASSUME NEW t \in Tenants
  PROVE  NewCase(t) \in Case /\ FieldsFit(NewCase(t)) /\ Attributed(NewCase(t))
<1>1. NewCase(t) \in Case
  BY DEF NewCase, Blank, Case, CasRecord, Cap, CaseState, CapStatus, ReviewStatus
<1>2. FieldsFit(NewCase(t))
  BY NoneAssumption DEF NewCase, Blank, FieldsFit
<1>3. Attributed(NewCase(t))
  BY DEF NewCase, Blank, Attributed, ReviewOutcome
<1>. QED
  BY <1>1, <1>2, <1>3

\* What is committed is the record of an existing case.
LEMMA CommittedExists ==
  ASSUME NEW t \in Tenants, NEW k \in Cases, NEW c \in Case, NEW type, NEW prior,
         Fresh(t, k, c, type, prior) \/ Rewrite(cases[k], c, type, prior)
  PROVE  c.state # "none"
<1>1. CASE Fresh(t, k, c, type, prior)
  BY <1>1 DEF Fresh, NewCase, Blank
<1>2. CASE Rewrite(cases[k], c, type, prior)
  <2>1. \A tr : "none" \notin NextStates(cases[k].state, tr)
    BY DEF NextStates, CaseState
  <2>. QED
    BY <1>2, <2>1 DEF Rewrite
<1>. QED
  BY <1>1, <1>2

LEMMA NoCaseGood == NoCase \in Case /\ FieldsFit(NoCase) /\ Attributed(NoCase)
<1>1. NoCase \in Case
  BY DEF NoCase, Blank, Case, CasRecord, Cap, CaseState, CapStatus, ReviewStatus
<1>2. FieldsFit(NoCase)
  BY DEF NoCase, Blank, FieldsFit
<1>3. Attributed(NoCase)
  BY DEF NoCase, Blank, Attributed, ReviewOutcome
<1>. QED
  BY <1>1, <1>2, <1>3

\* An item of a case is attributed when it has a decider exactly if decided.
CapSigned(p) == p.status \in {"in_progress", "closed", "overdue"} <=> p.approved_by # None
CasSigned(p) == p.status \in ReviewOutcome <=> p.reviewed_by # None

\* Replacing one CAP, or one CAS, by what it may become is a good rewrite.
LEMMA CapRewrite ==
  ASSUME NEW old \in Case, old.state # "none",
         NEW i \in CapIds, NEW d \in Cap, NEW type \in EventType,
         CapKept(old.caps[i], d),
         CapSigned(old.caps[i]) => CapSigned(d)
  PROVE  /\ [old EXCEPT !.caps[i] = d] \in Case
         /\ Rewrite(old, [old EXCEPT !.caps[i] = d], type, old.state)
<1>. DEFINE c == [old EXCEPT !.caps[i] = d]
<1>1. c \in Case
  BY DEF Case
<1>2. /\ c.cas = old.cas
      /\ c.tenant = old.tenant /\ c.state = old.state /\ c.assignee = old.assignee
      /\ c.outcome = old.outcome /\ c.actions = old.actions
  BY DEF Case
<1>3. c.caps[i] = d /\ \A j \in CapIds : j # i => c.caps[j] = old.caps[j]
  BY DEF Case
<1>. HIDE DEF c
<1>4. FieldsFit(old) => FieldsFit(c)
  BY <1>2 DEF FieldsFit
<1>5. Attributed(old) => Attributed(c)
  BY <1>2, <1>3 DEF Attributed, CapSigned
<1>6. DecisionsKept(old, c)
  BY <1>2, <1>3 DEF DecisionsKept, CapKept, CasKept
<1>7. ClosesDone(old, c) /\ Frozen(old, c)
  BY <1>2 DEF ClosesDone, Frozen
<1>8. Rewrite(old, c, type, old.state)
  BY <1>1, <1>2, <1>4, <1>5, <1>6, <1>7 DEF Rewrite
<1>. QED
  BY <1>1, <1>8 DEF c

LEMMA CasRewrite ==
  ASSUME NEW old \in Case, old.state # "none",
         NEW i \in CasIds, NEW d \in CasRecord, NEW type \in EventType,
         CasKept(old.cas[i], d),
         CasSigned(old.cas[i]) => CasSigned(d)
  PROVE  /\ [old EXCEPT !.cas[i] = d] \in Case
         /\ Rewrite(old, [old EXCEPT !.cas[i] = d], type, old.state)
<1>. DEFINE c == [old EXCEPT !.cas[i] = d]
<1>1. c \in Case
  BY DEF Case
<1>2. /\ c.caps = old.caps
      /\ c.tenant = old.tenant /\ c.state = old.state /\ c.assignee = old.assignee
      /\ c.outcome = old.outcome /\ c.actions = old.actions
  BY DEF Case
<1>3. c.cas[i] = d /\ \A j \in CasIds : j # i => c.cas[j] = old.cas[j]
  BY DEF Case
<1>. HIDE DEF c
<1>4. FieldsFit(old) => FieldsFit(c)
  BY <1>2 DEF FieldsFit
<1>5. Attributed(old) => Attributed(c)
  BY <1>2, <1>3 DEF Attributed, CasSigned
<1>6. DecisionsKept(old, c)
  BY <1>2, <1>3 DEF DecisionsKept, CapKept, CasKept
<1>7. ClosesDone(old, c) /\ Frozen(old, c)
  BY <1>2 DEF ClosesDone, Frozen
<1>8. Rewrite(old, c, type, old.state)
  BY <1>1, <1>2, <1>4, <1>5, <1>6, <1>7 DEF Rewrite
<1>. QED
  BY <1>1, <1>8 DEF c

\* Every handler ends in a commit of a fresh record or of a good rewrite.
LEMMA NextCommits ==
  ASSUME TypeOK, Next
  PROVE  \E t \in Tenants, k \in Cases, c \in Case, type \in EventType, prior \in CaseState \cup {"none"} :
           /\ Commit(k, c, type, prior)
           /\ Fresh(t, k, c, type, prior) \/ Rewrite(cases[k], c, type, prior)
<1>. DEFINE Goal(t, k, c, type, prior) ==
       /\ Commit(k, c, type, prior)
       /\ Fresh(t, k, c, type, prior) \/ Rewrite(cases[k], c, type, prior)
<1>1. PICK t \in Tenants, k \in Cases :
        \/ CreateFromAlert(t, k)
        \/ \E u \in Users : Assign(t, k, u)
        \/ LogAction(t, k)
        \/ Monitor(t, k)
        \/ \E o \in Outcomes : Close(t, k, o)
        \/ \E i \in CasIds : SubmitCas(t, k, i)
        \/ \E i \in CasIds, u \in Users, r \in ReviewOutcome : ReviewCas(t, k, i, u, r)
        \/ \E i \in CapIds : ProposeCap(t, k, i)
        \/ \E i \in CapIds, u \in Users, approve \in BOOLEAN : ApproveCap(t, k, i, u, approve)
        \/ \E i \in CapIds : CloseCap(t, k, i)
  BY DEF Next
<1>. DEFINE old == cases[k]
<1>2. old \in Case
  BY DEF TypeOK
<1>3. CASE CreateFromAlert(t, k)
  <2>1. NewCase(t) \in Case
    BY NewCaseGood
  <2>2. Goal(t, k, NewCase(t), "case.created", "none")
    BY <1>3 DEF CreateFromAlert, Fresh
  <2>. QED
    BY <2>1, <2>2 DEF EventType
<1>4. ASSUME NEW u \in Users, Assign(t, k, u)
      PROVE  \E c \in Case, type \in EventType, prior \in CaseState \cup {"none"} : Goal(t, k, c, type, prior)
  <2>1. PICK s \in NextStates(old.state, "assign") :
          Commit(k, [[old EXCEPT !.assignee = u] EXCEPT !.state = s], "case.assigned", old.state)
    BY <1>4 DEF Assign, Transit
  <2>. DEFINE c == [[old EXCEPT !.assignee = u] EXCEPT !.state = s]
  <2>2. old.state = "open" /\ s = "assigned"
    BY <2>1 DEF NextStates, TABLE
  <2>3. c \in Case
    BY <1>2, <2>2 DEF Case, CaseState
  <2>4. Rewrite(old, c, "case.assigned", old.state)
    BY <1>2, <2>1, <2>2, <2>3, NoneAssumption
    DEF Rewrite, Case, FieldsFit, Attributed, DecisionsKept, CapKept, CasKept, ClosesDone, Frozen,
        EventType, Transition
  <2>. QED
    BY <2>1, <2>2, <2>3, <2>4 DEF EventType, CaseState
<1>5. CASE LogAction(t, k)
  <2>1. PICK s \in NextStates(old.state, "logAction") :
          Commit(k, [[old EXCEPT !.actions = @ + 1] EXCEPT !.state = s], "case.action_logged", old.state)
    BY <1>5 DEF LogAction, Transit
  <2>. DEFINE c == [[old EXCEPT !.actions = @ + 1] EXCEPT !.state = s]
  <2>2. old.state \in {"assigned", "in_action", "monitored"} /\ s = "in_action"
    BY <2>1 DEF NextStates, TABLE
  <2>0. old.actions + 1 \in Nat /\ old.actions + 1 > 0
    BY <1>2 DEF Case
  <2>3. c \in Case
    BY <1>2, <2>0, <2>2 DEF Case, CaseState
  <2>4. Rewrite(old, c, "case.action_logged", old.state)
    BY <1>2, <2>1, <2>2, <2>3, NoneAssumption
    DEF Rewrite, Case, FieldsFit, Attributed, DecisionsKept, CapKept, CasKept, ClosesDone, Frozen,
        EventType, Transition
  <2>. QED
    BY <2>1, <2>2, <2>3, <2>4 DEF EventType, CaseState
<1>6. CASE Monitor(t, k)
  <2>1. PICK s \in NextStates(old.state, "monitor") :
          Commit(k, [old EXCEPT !.state = s], "case.monitored", old.state)
    BY <1>6 DEF Monitor, Transit
  <2>. DEFINE c == [old EXCEPT !.state = s]
  <2>2. old.state = "in_action" /\ s = "monitored"
    BY <2>1 DEF NextStates, TABLE
  <2>3. c \in Case
    BY <1>2, <2>2 DEF Case, CaseState
  <2>4. Rewrite(old, c, "case.monitored", old.state)
    BY <1>2, <2>1, <2>2, <2>3, NoneAssumption
    DEF Rewrite, Case, FieldsFit, Attributed, DecisionsKept, CapKept, CasKept, ClosesDone, Frozen,
        EventType, Transition
  <2>. QED
    BY <2>1, <2>2, <2>3, <2>4 DEF EventType, CaseState
<1>7. ASSUME NEW o \in Outcomes, Close(t, k, o)
      PROVE  \E c \in Case, type \in EventType, prior \in CaseState \cup {"none"} : Goal(t, k, c, type, prior)
  <2>1. PICK s \in NextStates(old.state, "close") :
          Commit(k, [[old EXCEPT !.outcome = o] EXCEPT !.state = s], "case.closed", old.state)
    BY <1>7 DEF Close, Transit
  <2>. DEFINE c == [[old EXCEPT !.outcome = o] EXCEPT !.state = s]
  <2>2. old.state \in {"open", "assigned", "in_action", "monitored"} /\ s = "closed"
    BY <2>1 DEF NextStates, TABLE
  <2>3. c \in Case
    BY <1>2, <2>2 DEF Case, CaseState
  <2>0. \A i \in CapIds : old.caps[i].status \in {"absent", "closed"}
    BY <1>2, <1>7 DEF Close, Blocking, Case, Cap, CapStatus
  <2>4. Rewrite(old, c, "case.closed", old.state)
    BY <1>2, <2>1, <2>2, <2>3, NoneAssumption, <2>0
    DEF Rewrite, Case, FieldsFit, Attributed, DecisionsKept, CapKept, CasKept, ClosesDone, Frozen,
        EventType, Transition
  <2>. QED
    BY <2>1, <2>2, <2>3, <2>4 DEF EventType, CaseState
<1>8. ASSUME NEW i \in CasIds, SubmitCas(t, k, i)
      PROVE  \E c \in Case, type \in EventType, prior \in CaseState \cup {"none"} : Goal(t, k, c, type, prior)
  <2>. DEFINE p == old.cas[i]
              d == [p EXCEPT !.status = "pending"]
              c == [old EXCEPT !.cas[i] = d]
  <2>1. Commit(k, c, "case.cas_submitted", old.state) /\ old.state # "none"
    BY <1>8 DEF SubmitCas, Amend, Has
  <2>2. p \in CasRecord /\ d \in CasRecord
    BY <1>2, <1>8 DEF Case, CasRecord, CapStatus, ReviewStatus, ReviewOutcome
  <2>3. CasKept(p, d) /\ (CasSigned(p) => CasSigned(d))
    BY <1>8, <2>2, NoneAssumption
    DEF SubmitCas, CasRecord, CasKept, CasSigned, ReviewOutcome
  <2>4. c \in Case /\ Rewrite(old, c, "case.cas_submitted", old.state)
    BY <1>2, <2>1, <2>2, <2>3, CasRewrite DEF EventType
  <2>. QED
    BY <1>2, <2>1, <2>4 DEF EventType, Case
<1>9. ASSUME NEW i \in CasIds, NEW u \in Users, NEW r \in ReviewOutcome, ReviewCas(t, k, i, u, r)
      PROVE  \E c \in Case, type \in EventType, prior \in CaseState \cup {"none"} : Goal(t, k, c, type, prior)
  <2>. DEFINE p == old.cas[i]
              d == [status |-> r, reviewed_by |-> u]
              c == [old EXCEPT !.cas[i] = d]
  <2>1. Commit(k, c, "case.cas_reviewed", old.state) /\ old.state # "none"
    BY <1>9 DEF ReviewCas, Amend, Has
  <2>2. p \in CasRecord /\ d \in CasRecord
    BY <1>2, <1>9 DEF Case, CasRecord, CapStatus, ReviewStatus, ReviewOutcome
  <2>3. CasKept(p, d) /\ (CasSigned(p) => CasSigned(d))
    BY <1>9, <2>2, NoneAssumption
    DEF ReviewCas, CasRecord, CasKept, CasSigned, ReviewOutcome
  <2>4. c \in Case /\ Rewrite(old, c, "case.cas_reviewed", old.state)
    BY <1>2, <2>1, <2>2, <2>3, CasRewrite DEF EventType
  <2>. QED
    BY <1>2, <2>1, <2>4 DEF EventType, Case
<1>10. ASSUME NEW i \in CapIds, ProposeCap(t, k, i)
      PROVE  \E c \in Case, type \in EventType, prior \in CaseState \cup {"none"} : Goal(t, k, c, type, prior)
  <2>. DEFINE p == old.caps[i]
              d == [p EXCEPT !.status = "open"]
              c == [old EXCEPT !.caps[i] = d]
  <2>1. Commit(k, c, "case.cap_proposed", old.state) /\ old.state # "none"
    BY <1>10 DEF ProposeCap, Amend, Has
  <2>2. p \in Cap /\ d \in Cap
    BY <1>2, <1>10 DEF Case, Cap, CapStatus, ReviewStatus, ReviewOutcome
  <2>3. CapKept(p, d) /\ (CapSigned(p) => CapSigned(d))
    BY <1>10, <2>2, NoneAssumption
    DEF ProposeCap, Cap, CapKept, CapSigned, ReviewOutcome
  <2>4. c \in Case /\ Rewrite(old, c, "case.cap_proposed", old.state)
    BY <1>2, <2>1, <2>2, <2>3, CapRewrite DEF EventType
  <2>. QED
    BY <1>2, <2>1, <2>4 DEF EventType, Case
<1>11. ASSUME NEW i \in CapIds, NEW u \in Users, ApproveCap(t, k, i, u, TRUE)
      PROVE  \E c \in Case, type \in EventType, prior \in CaseState \cup {"none"} : Goal(t, k, c, type, prior)
  <2>. DEFINE p == old.caps[i]
              d == [status |-> "in_progress", approved_by |-> u]
              c == [old EXCEPT !.caps[i] = d]
  <2>1. Commit(k, c, "case.cap_approved", old.state) /\ old.state # "none"
    BY <1>11 DEF ApproveCap, Amend, Has
  <2>2. p \in Cap /\ d \in Cap
    BY <1>2, <1>11 DEF Case, Cap, CapStatus, ReviewStatus, ReviewOutcome
  <2>3. CapKept(p, d) /\ (CapSigned(p) => CapSigned(d))
    BY <1>11, <2>2, NoneAssumption
    DEF ApproveCap, Cap, CapKept, CapSigned, ReviewOutcome
  <2>4. c \in Case /\ Rewrite(old, c, "case.cap_approved", old.state)
    BY <1>2, <2>1, <2>2, <2>3, CapRewrite DEF EventType
  <2>. QED
    BY <1>2, <2>1, <2>4 DEF EventType, Case
<1>12. ASSUME NEW i \in CapIds, NEW u \in Users, ApproveCap(t, k, i, u, FALSE)
      PROVE  \E c \in Case, type \in EventType, prior \in CaseState \cup {"none"} : Goal(t, k, c, type, prior)
  <2>1. Commit(k, old, "case.cap_approved", old.state) /\ old.state # "none"
    BY <1>12 DEF ApproveCap, Amend, Has
  <2>2. Rewrite(old, old, "case.cap_approved", old.state)
    BY <1>2, <2>1 DEF Rewrite, DecisionsKept, CapKept, CasKept, ClosesDone, Frozen, EventType
  <2>. QED
    BY <1>2, <2>1, <2>2 DEF EventType, Case
<1>13. ASSUME NEW i \in CapIds, CloseCap(t, k, i)
      PROVE  \E c \in Case, type \in EventType, prior \in CaseState \cup {"none"} : Goal(t, k, c, type, prior)
  <2>. DEFINE p == old.caps[i]
              d == [p EXCEPT !.status = "closed"]
              c == [old EXCEPT !.caps[i] = d]
  <2>1. Commit(k, c, "case.cap_closed", old.state) /\ old.state # "none"
    BY <1>13 DEF CloseCap, Amend, Has
  <2>2. p \in Cap /\ d \in Cap
    BY <1>2, <1>13 DEF Case, Cap, CapStatus, ReviewStatus, ReviewOutcome
  <2>3. CapKept(p, d) /\ (CapSigned(p) => CapSigned(d))
    BY <1>13, <2>2, NoneAssumption
    DEF CloseCap, Cap, CapKept, CapSigned, ReviewOutcome
  <2>4. c \in Case /\ Rewrite(old, c, "case.cap_closed", old.state)
    BY <1>2, <2>1, <2>2, <2>3, CapRewrite DEF EventType
  <2>. QED
    BY <1>2, <2>1, <2>4 DEF EventType, Case
<1>. QED
  BY <1>1, <1>3, <1>4, <1>5, <1>6, <1>7, <1>8, <1>9, <1>10, <1>11, <1>12, <1>13

-----------------------------------------------------------------------------
(***************************************************************************)
(* Invariants that hold whoever posts which alert.                         *)
(***************************************************************************)

Inv == TypeOK /\ FieldsAgree /\ DecisionsAttributed /\ PublishedAgrees

LEMMA InitInv == Init => Inv
<1>. SUFFICES ASSUME Init PROVE Inv
  OBVIOUS
<1>1. \A k \in Cases : cases[k] \in Case /\ FieldsFit(cases[k]) /\ Attributed(cases[k])
  BY NoCaseGood DEF Init
<1>2. TypeOK
  BY <1>1, BoundsAssumption DEF Init, TypeOK, NoEvent, CaseEvent
<1>3. PublishedAgrees
  BY DEF Init, PublishedAgrees, NoEvent, NoCase, Blank
<1>. QED
  BY <1>1, <1>2, <1>3 DEF Inv, FieldsAgree, DecisionsAttributed

\* A commit of a well-typed record keeps the types, and the outbox in step
\* with the store.
LEMMA CommitTyped ==
  ASSUME TypeOK, NEW k \in Cases, NEW c \in Case, NEW type \in EventType,
         NEW prior \in CaseState \cup {"none"}, Commit(k, c, type, prior)
  PROVE  TypeOK' /\ (PublishedAgrees => PublishedAgrees')
<1>1. cases' \in [Cases -> Case]
  BY DEF TypeOK, Commit
<1>2. CASE Emit(k, type, prior, c.state)
  <2>1. [type |-> type, prior |-> prior, new |-> c.state] \in CaseEvent
    BY DEF CaseEvent, Case
  <2>2. TypeOK'
    BY <1>1, <1>2, <2>1 DEF TypeOK, Emit
  <2>3. PublishedAgrees => PublishedAgrees'
    BY <1>2, <2>1 DEF TypeOK, Emit, Commit, PublishedAgrees, CaseEvent
  <2>. QED
    BY <2>2, <2>3
<1>3. CASE DieBeforeEmit(k)
  <2>1. TypeOK'
    BY <1>1, <1>3, BoundsAssumption DEF TypeOK, DieBeforeEmit
  <2>2. PublishedAgrees => PublishedAgrees'
    BY <1>3 DEF TypeOK, DieBeforeEmit, Commit, PublishedAgrees
  <2>. QED
    BY <2>1, <2>2
<1>. QED
  BY <1>2, <1>3 DEF Commit

LEMMA NextInv == Inv /\ [Next]_vars => Inv'
<1>. SUFFICES ASSUME Inv, [Next]_vars PROVE Inv'
  OBVIOUS
<1>1. CASE Next
  <2>1. PICK t \in Tenants, k \in Cases, c \in Case, type \in EventType, prior \in CaseState \cup {"none"} :
          /\ Commit(k, c, type, prior)
          /\ Fresh(t, k, c, type, prior) \/ Rewrite(cases[k], c, type, prior)
    BY <1>1, NextCommits DEF Inv
  <2>2. TypeOK' /\ PublishedAgrees'
    BY <2>1, CommitTyped DEF Inv
  <2>3. FieldsFit(c) /\ Attributed(c)
    BY <2>1, NewCaseGood DEF Inv, Fresh, Rewrite, FieldsAgree, DecisionsAttributed
  <2>4. cases' = [cases EXCEPT ![k] = c]
    BY <2>1 DEF Commit
  <2>5. \A j \in Cases : FieldsFit(cases'[j]) /\ Attributed(cases'[j])
    BY <2>3, <2>4 DEF Inv, TypeOK, FieldsAgree, DecisionsAttributed
  <2>. QED
    BY <2>2, <2>5 DEF Inv, FieldsAgree, DecisionsAttributed
<1>2. CASE UNCHANGED vars
  BY <1>2 DEF vars, Inv, TypeOK, FieldsAgree, DecisionsAttributed, PublishedAgrees
<1>. QED
  BY <1>1, <1>2

LEMMA SpecInv == Spec => []Inv
BY InitInv, NextInv, PTL DEF Spec

\* The store, the outbox and the crash record always hold values of their types.
THEOREM Typed == Spec => []TypeOK
<1>1. Inv => TypeOK
  BY DEF Inv
<1>. QED
  BY <1>1, SpecInv, PTL

\* The fields of every stored case agree with its state, for any number of
\* cases, tenants, actions and crashes.
THEOREM FieldsAlwaysAgree == Spec => []FieldsAgree
<1>1. Inv => FieldsAgree
  BY DEF Inv
<1>. QED
  BY <1>1, SpecInv, PTL

\* Every decided CAS and every CAP past approval names who decided it.
THEOREM DecisionsAlwaysAttributed == Spec => []DecisionsAttributed
<1>1. Inv => DecisionsAttributed
  BY DEF Inv
<1>. QED
  BY <1>1, SpecInv, PTL

\* The last outbox event of a case tells its stored state, unless the process
\* died before that event was appended.
THEOREM PublishedAlwaysAgrees == Spec => []PublishedAgrees
<1>1. Inv => PublishedAgrees
  BY DEF Inv
<1>. QED
  BY <1>1, SpecInv, PTL

-----------------------------------------------------------------------------
(***************************************************************************)
(* Properties of steps.  They rest on AlertsDisjoint: a create then only   *)
(* writes where no case is.  Owned carries the assumption into the store,  *)
(* and Untouched says that where no case is there is nothing to lose.      *)
(***************************************************************************)

Owned == \A k \in Cases : \A t \in Tenants : cases[k].tenant = t => k \in AlertsOf[t]

Untouched == \A k \in Cases : cases[k].state = "none" => cases[k] = NoCase

SafeInv == Inv /\ Owned /\ Untouched

LEMMA FreshIsNew ==
  ASSUME AlertsDisjoint, SafeInv,
         NEW t \in Tenants, NEW k \in Cases, NEW c, NEW type, NEW prior,
         Fresh(t, k, c, type, prior)
  PROVE  cases[k].state = "none"
<1>1. cases[k] \in Case /\ FieldsFit(cases[k])
  BY DEF SafeInv, Inv, TypeOK, FieldsAgree
<1>2. SUFFICES ASSUME cases[k].state # "none" PROVE FALSE
  OBVIOUS
<1>3. cases[k].tenant \in Tenants
  BY <1>1, <1>2 DEF Case, FieldsFit
<1>4. k \in AlertsOf[cases[k].tenant]
  BY <1>3 DEF SafeInv, Owned
<1>5. cases[k].tenant = t
  BY <1>3, <1>4 DEF AlertsDisjoint, Fresh
<1>. QED
  BY <1>2, <1>5 DEF Fresh, Has

\* A step writes one record, a new case or a good rewrite.
LEMMA StepShape ==
  ASSUME AlertsDisjoint, SafeInv, Next
  PROVE  \E t \in Tenants, k \in Cases, c \in Case, type \in EventType, prior \in CaseState \cup {"none"} :
           /\ Commit(k, c, type, prior)
           /\ prior = cases[k].state
           /\ \/ /\ Fresh(t, k, c, type, prior)
                 /\ cases[k].state = "none"
              \/ Rewrite(cases[k], c, type, prior)
<1>1. PICK t \in Tenants, k \in Cases, c \in Case, type \in EventType, prior \in CaseState \cup {"none"} :
        /\ Commit(k, c, type, prior)
        /\ Fresh(t, k, c, type, prior) \/ Rewrite(cases[k], c, type, prior)
  BY NextCommits DEF SafeInv, Inv
<1>2. Fresh(t, k, c, type, prior) => cases[k].state = "none" /\ prior = cases[k].state
  BY FreshIsNew DEF Fresh
<1>. QED
  BY <1>1, <1>2 DEF Rewrite

LEMMA SpecSafeInv == ASSUME AlertsDisjoint PROVE Spec => []SafeInv
<1>1. Init => SafeInv
  <2>1. Init => Owned
    BY NoneAssumption DEF Init, Owned, NoCase, Blank
  <2>2. Init => Untouched
    BY DEF Init, Untouched
  <2>. QED
    BY <2>1, <2>2, InitInv DEF SafeInv
<1>2. SafeInv /\ [Next]_vars => SafeInv'
  <2>. SUFFICES ASSUME SafeInv, [Next]_vars PROVE Owned' /\ Untouched'
    BY NextInv DEF SafeInv
  <2>1. CASE Next
    <3>1. PICK t \in Tenants, k \in Cases, c \in Case, type \in EventType, prior \in CaseState \cup {"none"} :
            /\ Commit(k, c, type, prior)
            /\ \/ Fresh(t, k, c, type, prior)
               \/ Rewrite(cases[k], c, type, prior)
      BY <2>1, StepShape
    <3>2. (c.tenant = t /\ k \in AlertsOf[t]) \/ c.tenant = cases[k].tenant
      BY <3>1 DEF Fresh, Rewrite, NewCase, Blank
    <3>3. cases' = [cases EXCEPT ![k] = c]
      BY <3>1 DEF Commit
    <3>4. c.state # "none"
      BY <3>1, CommittedExists
    <3>5. Owned'
      BY <3>2, <3>3 DEF SafeInv, Inv, TypeOK, Owned
    <3>6. Untouched'
      BY <3>3, <3>4 DEF SafeInv, Inv, TypeOK, Untouched
    <3>. QED
      BY <3>5, <3>6
  <2>2. CASE UNCHANGED vars
    BY <2>2 DEF vars, SafeInv, Owned, Untouched
  <2>. QED
    BY <2>1, <2>2
<1>. QED
  BY <1>1, <1>2, PTL DEF Spec

\* A step keeps every decision made, closes a case only when its CAPs are
\* done and leaves a closed case's record alone.
LEMMA StepKeeps ==
  ASSUME AlertsDisjoint, SafeInv, [Next]_vars, NEW j \in Cases
  PROVE  /\ DecisionsKept(cases[j], cases'[j])
         /\ ClosesDone(cases[j], cases'[j])
         /\ Frozen(cases[j], cases'[j])
<1>1. \A r : DecisionsKept(r, r) /\ ClosesDone(r, r) /\ Frozen(r, r)
  BY DEF DecisionsKept, CapKept, CasKept, ClosesDone, Frozen
<1>2. CASE UNCHANGED vars
  BY <1>1, <1>2 DEF vars
<1>3. CASE Next
  <2>1. PICK t \in Tenants, k \in Cases, c \in Case, type \in EventType, prior \in CaseState \cup {"none"} :
          /\ Commit(k, c, type, prior)
          /\ \/ /\ Fresh(t, k, c, type, prior)
                /\ cases[k].state = "none"
             \/ Rewrite(cases[k], c, type, prior)
    BY <1>3, StepShape
  <2>2. cases' = [cases EXCEPT ![k] = c] /\ cases \in [Cases -> Case]
    BY <2>1 DEF Commit, SafeInv, Inv, TypeOK
  <2>3. CASE j # k
    BY <1>1, <2>2, <2>3
  <2>4. CASE j = k /\ Rewrite(cases[k], c, type, prior)
    BY <2>2, <2>4 DEF Rewrite
  <2>5. CASE j = k /\ Fresh(t, k, c, type, prior) /\ cases[k].state = "none"
    <3>1. cases'[j] = NewCase(t)
      BY <2>2, <2>5 DEF Fresh
    <3>2. cases[j] = NoCase
      BY <2>5 DEF SafeInv, Untouched
    <3>3. /\ \A i \in CapIds : NewCase(t).caps[i] = NoCase.caps[i]
          /\ \A i \in CasIds : NewCase(t).cas[i] = NoCase.cas[i]
          /\ NewCase(t).state = "open" /\ NoCase.state = "none"
      BY DEF NewCase, NoCase, Blank
    <3>. QED
      BY <3>1, <3>2, <3>3 DEF DecisionsKept, CapKept, CasKept, ClosesDone, Frozen
  <2>. QED
    BY <2>1, <2>3, <2>4, <2>5
<1>. QED
  BY <1>2, <1>3

\* No handler and no crash undoes a CAP approval or closure or a CAS review.
THEOREM DecisionsAreFinal == ASSUME AlertsDisjoint PROVE Spec => DecisionsFinal
<1>1. SafeInv /\ [Next]_vars => [\A k \in Cases : DecisionsKept(cases[k], cases'[k])]_cases
  BY StepKeeps
<1>. QED
  BY <1>1, SpecSafeInv, PTL DEF Spec, DecisionsFinal

\* No case is ever closed over an unfinished CAP.
THEOREM CloseNeedsCaps == ASSUME AlertsDisjoint PROVE Spec => CloseNeedsCapsDone
<1>1. SafeInv /\ [Next]_vars => [\A k \in Cases : ClosesDone(cases[k], cases'[k])]_cases
  BY StepKeeps
<1>. QED
  BY <1>1, SpecSafeInv, PTL DEF Spec, CloseNeedsCapsDone

\* A closed case keeps its owner, state, outcome, assignee and action log.
THEOREM ClosedStaysFrozen == ASSUME AlertsDisjoint PROVE Spec => ClosedIsFrozen
<1>1. SafeInv /\ [Next]_vars => [\A k \in Cases : Frozen(cases[k], cases'[k])]_cases
  BY StepKeeps
<1>. QED
  BY <1>1, SpecSafeInv, PTL DEF Spec, ClosedIsFrozen

\* An event's prior_state is the new_state of the case's event before it,
\* unless the event between them was lost with its process.
THEOREM EventsAlwaysChain == ASSUME AlertsDisjoint PROVE Spec => EventsChain
<1>. DEFINE Chained == \A k \in Cases \ unsent :
       published'[k] # published[k] => published'[k].prior = published[k].new
<1>1. SafeInv /\ [Next]_vars => [Chained]_published
  <2>. SUFFICES ASSUME SafeInv, Next PROVE Chained
    BY DEF vars
  <2>1. PICK t \in Tenants, k \in Cases, c \in Case, type \in EventType, prior \in CaseState \cup {"none"} :
          /\ Commit(k, c, type, prior)
          /\ prior = cases[k].state
    BY StepShape
  <2>2. CASE DieBeforeEmit(k)
    BY <2>2 DEF DieBeforeEmit
  <2>3. CASE Emit(k, type, prior, c.state)
    BY <2>1, <2>3 DEF Emit, SafeInv, Inv, TypeOK, PublishedAgrees
  <2>. QED
    BY <2>1, <2>2, <2>3 DEF Commit
<1>. QED
  BY <1>1, SpecSafeInv, PTL DEF Spec, EventsChain

-----------------------------------------------------------------------------
(***************************************************************************)
(* The refinement: per tenant and case id, the service takes steps of the  *)
(* promised lifecycle or leaves it alone.                                  *)
(***************************************************************************)

LEMMA StepRefines ==
  ASSUME AlertsDisjoint, SafeInv, [Next]_vars
  PROVE  [TenantLifecycle!Next]_([p \in Tenants \X Cases |-> IF Has(p[1], p[2]) THEN cases[p[2]].state ELSE "none"])
<1>. DEFINE life == [p \in Tenants \X Cases |-> IF Has(p[1], p[2]) THEN cases[p[2]].state ELSE "none"]
<1>1. CASE UNCHANGED vars
  BY <1>1 DEF vars, Has
<1>2. CASE Next
  <2>1. PICK t \in Tenants, k \in Cases, c \in Case, type \in EventType, prior \in CaseState \cup {"none"} :
          /\ Commit(k, c, type, prior)
          /\ \/ /\ Fresh(t, k, c, type, prior)
                /\ cases[k].state = "none"
             \/ Rewrite(cases[k], c, type, prior)
    BY <1>2, StepShape
  <2>2. cases' = [cases EXCEPT ![k] = c] /\ cases \in [Cases -> Case]
    BY <2>1 DEF Commit, SafeInv, Inv, TypeOK
  <2>3. c.tenant \in Tenants
    BY <2>1, <2>2 DEF Fresh, Rewrite, NewCase, Blank, SafeInv, Inv, FieldsAgree, FieldsFit, Case
  <2>. DEFINE q == <<c.tenant, k>>
  <2>4. q \in Tenants \X Cases
    BY <2>3
  <2>5. c.state # "none"
    BY <2>1, CommittedExists
  <2>6. life' = [life EXCEPT ![q] = c.state]
    <3>1. \A p \in Tenants \X Cases : p # q => life'[p] = life[p]
      BY <2>1, <2>2, <2>3 DEF Has, Fresh, Rewrite, NewCase, Blank
    <3>2. life'[q] = c.state
      BY <2>2, <2>4, <2>5 DEF Has
    <3>. QED
      BY <3>1, <3>2, <2>4
  <2>7. life[q] = cases[k].state
    BY <2>1, <2>4 DEF Has, Rewrite
  <2>8. CASE Fresh(t, k, c, type, prior) /\ cases[k].state = "none"
    <3>1. c.state = "open"
      BY <2>8 DEF Fresh, NewCase, Blank
    <3>2. TenantLifecycle!Create(q)
      BY <2>6, <2>7, <2>8, <3>1 DEF TenantLifecycle!Create
    <3>. QED
      BY <2>4, <3>2 DEF TenantLifecycle!Next
  <2>9. CASE Rewrite(cases[k], c, type, prior) /\ c.state = cases[k].state
    BY <2>4, <2>6, <2>7, <2>9
  <2>10. CASE Rewrite(cases[k], c, type, prior) /\ c.state # cases[k].state
    <3>1. PICK tr \in Transition : c.state \in NextStates(cases[k].state, tr)
      BY <2>10 DEF Rewrite
    <3>2. TenantLifecycle!Move(q)
      BY <2>6, <2>7, <3>1 DEF TenantLifecycle!Move, TenantLifecycle!NextStates, TenantLifecycle!Transition,
         TenantLifecycle!TABLE, TenantLifecycle!CaseState, NextStates, TABLE, Transition, CaseState
    <3>. QED
      BY <2>4, <3>2 DEF TenantLifecycle!Next
  <2>. QED
    BY <2>1, <2>8, <2>9, <2>10
<1>. QED
  BY <1>1, <1>2

\* As long as no two tenants post one alert id, every tenant's view of every
\* case id implements CaseLifecycle.
THEOREM Isolation == ASSUME AlertsDisjoint PROVE Spec => TenantCasesIsolated
<1>1. Init => TenantLifecycle!Init
  BY DEF Init, TenantLifecycle!Init, Has, NoCase, Blank
<1>2. SafeInv /\ [Next]_vars =>
        [TenantLifecycle!Next]_([p \in Tenants \X Cases |-> IF Has(p[1], p[2]) THEN cases[p[2]].state ELSE "none"])
  BY StepRefines
<1>. QED
  BY <1>1, <1>2, SpecSafeInv, PTL DEF Spec, TenantCasesIsolated, TenantLifecycle!Spec

=============================================================================
