----------------------- MODULE EscalationWorkerProofs -----------------------
(***************************************************************************)
(* Proofs about EscalationWorker and the case store it runs over, for      *)
(* every value of the constants.                                           *)
(*                                                                         *)
(* Two facts about a tick carry the argument: the levels it is about to    *)
(* dispatch are closed downwards but for what fired already (DueClimbs),   *)
(* and a level among them that fired since the filter ran was dispatched   *)
(* by another tick, which saw this one (Excused).  The worker never writes *)
(* the store, so what holds of CmsCases alone holds here.                  *)
(***************************************************************************)
EXTENDS EscalationWorker, TLAPS

States == {"idle", "listing", "scenarios", "resolving", "filtering", "sending"}

\* What the locals of the runner w hold.
PlacedAt(w) ==
  /\ pc[w] \in {"scenarios", "resolving", "filtering", "sending"} => tenant[w] \in Tenants
  /\ pc[w] \in {"idle", "listing", "scenarios"} => due[w] = {}
  /\ \A c \in Cases : listed[w][c] # None => case[c] # None /\ TenantOf[c] = tenant[w]
  /\ \A r \in due[w] : TenantOf[r[1]] = tenant[w]

Placed == \A w \in Runners : PlacedAt(w)

TypeInv == TypeOK /\ Placed

-----------------------------------------------------------------------------
\* The case store.

\* What a step of the case store may do: no case is undrawn.
LEMMA CmsType ==
  ASSUME CmsTypeOK, CmsNext
  PROVE  CmsTypeOK' /\ \A c \in Cases : case[c] # None => case'[c] # None
<1>1. ASSUME NEW c \in Cases, NEW v \in Case, Store(c, v)
      PROVE  /\ case' \in [Cases -> Case \cup {None}]
             /\ recorded' \in [Cases -> CmsCaseState \cup {None}]
             /\ now' \in Nat /\ moves' \in Nat
             /\ \A k \in Cases : case[k] # None => case'[k] # None
  BY <1>1, CaseAssumption DEF Store, Move, CmsTypeOK, Case
<1>2. ASSUME NEW c \in Cases, Drawn(c)
      PROVE  case[c] \in Case
  BY <1>2 DEF Drawn, CmsTypeOK
<1>3. \A p \in Priorities : Windows[p] \in Nat /\ Windows[p] > 0
  BY WindowsAssumption
<1>4. ASSUME NEW c \in Cases, NEW p \in Priorities, NEW u \in Users \cup {None}, Create(c, p, u)
      PROVE  CmsTypeOK' /\ \A k \in Cases : case[k] # None => case'[k] # None
  <2>. DEFINE v == [ status   |-> IF u = None THEN "OPEN" ELSE "ASSIGNED",
                     locked   |-> FALSE,
                     resolved |-> FALSE,
                     assignee |-> u,
                     priority |-> p,
                     created  |-> now,
                     due      |-> now + Windows[p] ]
  <2>1. v \in Case
    BY <1>3 DEF Case, CmsCaseState, CmsTypeOK
  <2>2. Store(c, v) /\ holding' = [holding EXCEPT ![c] = {u} \ {None}]
    BY <1>4 DEF Create
  <2>. HIDE DEF v
  <2>3. holding' \in [Cases -> SUBSET Users]
    BY <2>2, UsersAssumption DEF CmsTypeOK
  <2>. QED
    BY <1>1, <2>1, <2>2, <2>3 DEF CmsTypeOK
<1>5. ASSUME NEW c \in Cases, NEW p \in Priorities, Update(c, p)
      PROVE  CmsTypeOK' /\ \A k \in Cases : case[k] # None => case'[k] # None
  <2>. DEFINE v == Repriced(case[c], p)
  <2>0. case[c] \in Case
    BY <1>2, <1>5 DEF Update, Open
  <2>1. v \in Case
    <3>1. case[c].created + Windows[p] \in Nat
      BY <1>3, <2>0 DEF Case
    <3>. QED
      BY <2>0, <3>1 DEF Case, Repriced
  <2>2. Store(c, v) /\ UNCHANGED holding
    BY <1>5 DEF Update
  <2>. HIDE DEF v
  <2>. QED
    BY <1>1, <2>1, <2>2 DEF CmsTypeOK
<1>6. ASSUME NEW c \in Cases, NEW target \in CmsCaseState, Transition(c, target)
      PROVE  CmsTypeOK' /\ \A k \in Cases : case[k] # None => case'[k] # None
  <2>1. case[c] \in Case /\ now \in Nat
    BY <1>2, <1>6 DEF Transition, CmsTypeOK
  <2>2. Moved(case[c], target) \in Case
    <3>1. now + Windows[case[c].priority] \in Nat
      BY <1>3, <2>1 DEF Case
    <3>. QED
      BY <2>1, <3>1 DEF Moved, Case
  <2>3. Store(c, Moved(case[c], target)) /\ UNCHANGED holding
    BY <1>6 DEF Transition
  <2>. QED
    BY <1>1, <2>2, <2>3 DEF CmsTypeOK
<1>7. ASSUME NEW c \in Cases, TransitionRefused(c)
      PROVE  CmsTypeOK' /\ \A k \in Cases : case[k] # None => case'[k] # None
  <2>1. case[c] \in Case
    BY <1>2, <1>7 DEF TransitionRefused, Open
  <2>2. [case[c] EXCEPT !.status = "CLOSED"] \in Case
    BY <2>1 DEF Case, CmsCaseState
  <2>3. /\ case' = [case EXCEPT ![c] = [case[c] EXCEPT !.status = "CLOSED"]]
        /\ moves' = moves + 1 /\ UNCHANGED <<recorded, holding, now>>
    BY <1>7 DEF TransitionRefused, Move
  <2>. QED
    BY <2>2, <2>3, CaseAssumption DEF CmsTypeOK
<1>8. ASSUME NEW c \in Cases, NEW u \in Users, Assign(c, u)
      PROVE  CmsTypeOK' /\ \A k \in Cases : case[k] # None => case'[k] # None
  <2>. DEFINE v == [case[c] EXCEPT !.assignee = u,
                     !.status = IF case[c].status = "OPEN" THEN "ASSIGNED" ELSE case[c].status]
  <2>1. v \in Case
    BY <1>2, <1>8 DEF Assign, Open, Case, CmsCaseState
  <2>2. Store(c, v) /\ holding' = [holding EXCEPT ![c] = {u}]
    BY <1>8 DEF Assign
  <2>. HIDE DEF v
  <2>. QED
    BY <1>1, <2>1, <2>2 DEF CmsTypeOK
<1>9. ASSUME NEW c \in Cases, Escalate(c)
      PROVE  CmsTypeOK' /\ \A k \in Cases : case[k] # None => case'[k] # None
  <2>. DEFINE v == [case[c] EXCEPT !.status = "ESCALATED"]
  <2>1. v \in Case
    BY <1>2, <1>9 DEF Escalate, Open, Case, CmsCaseState
  <2>2. Store(c, v) /\ UNCHANGED holding
    BY <1>9 DEF Escalate
  <2>. HIDE DEF v
  <2>. QED
    BY <1>1, <2>1, <2>2 DEF CmsTypeOK
<1>10. ASSUME NEW c \in Cases, Close(c)
       PROVE  CmsTypeOK' /\ \A k \in Cases : case[k] # None => case'[k] # None
  <2>. DEFINE v == [case[c] EXCEPT !.status = "CLOSED", !.locked = TRUE, !.resolved = TRUE]
  <2>1. v \in Case
    BY <1>2, <1>10 DEF Close, Open, Case, CmsCaseState
  <2>2. Store(c, v) /\ UNCHANGED holding
    BY <1>10 DEF Close
  <2>. HIDE DEF v
  <2>. QED
    BY <1>1, <2>1, <2>2 DEF CmsTypeOK
<1>11. ASSUME NEW t \in Tenants, AutoEscalate(t)
       PROVE  CmsTypeOK' /\ \A k \in Cases : case[k] # None => case'[k] # None
  <2>1. ASSUME NEW c \in Candidates(t)
        PROVE  [case[c] EXCEPT !.status = "ESCALATED"] \in Case
    BY <1>2, <2>1 DEF Candidates, Open, Case, CmsCaseState
  <2>2. /\ case' = [c \in Cases |-> IF c \in Candidates(t)
                                    THEN [case[c] EXCEPT !.status = "ESCALATED"] ELSE case[c]]
        /\ recorded' = [c \in Cases |-> IF c \in Candidates(t) THEN "ESCALATED" ELSE recorded[c]]
        /\ moves' = moves + 1 /\ UNCHANGED <<holding, now>>
    BY <1>11 DEF AutoEscalate, Move
  <2>3. /\ case' \in [Cases -> Case \cup {None}]
        /\ \A k \in Cases : case[k] # None => case'[k] # None
    BY <2>1, <2>2, CaseAssumption DEF CmsTypeOK
  <2>4. recorded' \in [Cases -> CmsCaseState \cup {None}]
    BY <2>2 DEF CmsTypeOK, CmsCaseState
  <2>. QED
    BY <2>2, <2>3, <2>4 DEF CmsTypeOK
<1>12. CASE Tick
  BY <1>12 DEF Tick, cmsVars, CmsTypeOK
<1>. QED
  BY <1>4, <1>5, <1>6, <1>7, <1>8, <1>9, <1>10, <1>11, <1>12 DEF CmsNext, Operation

\* TrailAgrees, for one case.
Told(c) ==
  Drawn(c) =>
    /\ holding[c] = {case[c].assignee} \ {None}
    /\ case[c].locked = case[c].resolved
    /\ case[c].locked => case[c].status = "CLOSED"

LEMMA ToldSame ==
  ASSUME NEW c \in Cases, Told(c),
         case'[c] = case[c], recorded'[c] = recorded[c], holding'[c] = holding[c]
  PROVE  Told(c)'
BY DEF Told, Drawn, Open

\* What Store(c, v) does to c and to the others.
LEMMA StoreEffect ==
  ASSUME CmsTypeOK, NEW c \in Cases, NEW v, Store(c, v)
  PROVE  /\ case'[c] = v /\ recorded'[c] = v.status
         /\ \A k \in Cases \ {c} : case'[k] = case[k] /\ recorded'[k] = recorded[k]
BY DEF Store, CmsTypeOK

\* The case an operation is about keeps a true trail, and no other one changes.
LEMMA ToldOperation ==
  ASSUME CmsTypeOK, NEW c \in Cases, Told(c), Operation(c)
  PROVE  /\ Told(c)'
         /\ \A k \in Cases \ {c} :
              case'[k] = case[k] /\ recorded'[k] = recorded[k] /\ holding'[k] = holding[k]
<1>0. holding \in [Cases -> SUBSET Users] /\ case \in [Cases -> Case \cup {None}]
  BY DEF CmsTypeOK
<1>1. ASSUME NEW p \in Priorities, NEW u \in Users \cup {None}, Create(c, p, u)
      PROVE  /\ Told(c)'
             /\ \A k \in Cases \ {c} :
                  case'[k] = case[k] /\ recorded'[k] = recorded[k] /\ holding'[k] = holding[k]
  <2>. DEFINE v == [ status   |-> IF u = None THEN "OPEN" ELSE "ASSIGNED",
                     locked   |-> FALSE,
                     resolved |-> FALSE,
                     assignee |-> u,
                     priority |-> p,
                     created  |-> now,
                     due      |-> now + Windows[p] ]
  <2>1. Store(c, v) /\ holding' = [holding EXCEPT ![c] = {u} \ {None}]
    BY <1>1 DEF Create
  <2>2. v.assignee = u /\ v.locked = FALSE /\ v.resolved = FALSE
    OBVIOUS
  <2>. HIDE DEF v
  <2>. QED
    BY <1>0, <2>1, <2>2, StoreEffect DEF Told, Drawn, Open
<1>2. ASSUME NEW v \in Case, Open(c), Store(c, v), UNCHANGED holding,
             v.assignee = case[c].assignee, v.locked = v.resolved, v.locked => v.status = "CLOSED"
      PROVE  /\ Told(c)'
             /\ \A k \in Cases \ {c} :
                  case'[k] = case[k] /\ recorded'[k] = recorded[k] /\ holding'[k] = holding[k]
  BY <1>2, StoreEffect DEF Told, Drawn, Open
<1>3. ASSUME Drawn(c)
      PROVE  case[c] \in Case
  BY <1>3 DEF Drawn, CmsTypeOK
<1>4. ASSUME Open(c)
      PROVE  case[c].locked = FALSE /\ case[c].resolved = FALSE
  BY <1>3, <1>4 DEF Open, Told, Case
<1>5. \A p \in Priorities : Windows[p] \in Nat
  BY WindowsAssumption
<1>6. ASSUME NEW p \in Priorities, Update(c, p)
      PROVE  /\ Told(c)'
             /\ \A k \in Cases \ {c} :
                  case'[k] = case[k] /\ recorded'[k] = recorded[k] /\ holding'[k] = holding[k]
  <2>. DEFINE v == Repriced(case[c], p)
  <2>1. Open(c) /\ Store(c, v) /\ UNCHANGED holding
    BY <1>6 DEF Update
  <2>2. case[c] \in Case
    BY <1>3, <2>1 DEF Open
  <2>3. case[c].created + Windows[p] \in Nat
    BY <1>5, <2>2 DEF Case
  <2>4. v \in Case /\ v.assignee = case[c].assignee /\ v.locked = FALSE /\ v.resolved = FALSE
    BY <1>4, <2>1, <2>2, <2>3 DEF Case, Repriced
  <2>. HIDE DEF v
  <2>. QED
    BY <1>2, <2>1, <2>4
<1>7. ASSUME NEW target \in CmsCaseState, Transition(c, target)
      PROVE  /\ Told(c)'
             /\ \A k \in Cases \ {c} :
                  case'[k] = case[k] /\ recorded'[k] = recorded[k] /\ holding'[k] = holding[k]
  <2>. DEFINE v == Moved(case[c], target)
  <2>1. Drawn(c) /\ Store(c, v) /\ UNCHANGED holding
    BY <1>7 DEF Transition
  <2>2. case[c] \in Case /\ now \in Nat
    BY <1>3, <2>1 DEF CmsTypeOK
  <2>3. now + Windows[case[c].priority] \in Nat
    BY <1>5, <2>2 DEF Case
  <2>4. v \in Case /\ v.assignee = case[c].assignee /\ v.locked = FALSE /\ v.resolved = FALSE
    <3>1. CASE case[c].locked
      BY <2>2, <2>3, <3>1 DEF Moved, Case
    <3>2. CASE ~case[c].locked
      BY <1>4, <2>1, <2>2, <3>2 DEF Moved, Case, Open
    <3>. QED
      BY <3>1, <3>2
  <2>. HIDE DEF v
  <2>. QED
    BY <2>1, <2>4, StoreEffect DEF Told, Drawn, Open
<1>8. ASSUME TransitionRefused(c)
      PROVE  /\ Told(c)'
             /\ \A k \in Cases \ {c} :
                  case'[k] = case[k] /\ recorded'[k] = recorded[k] /\ holding'[k] = holding[k]
  <2>1. /\ Open(c)
        /\ case' = [case EXCEPT ![c] = [case[c] EXCEPT !.status = "CLOSED"]]
        /\ UNCHANGED <<recorded, holding>>
    BY <1>8 DEF TransitionRefused
  <2>2. case[c] \in Case
    BY <1>3, <2>1 DEF Open
  <2>3. /\ case'[c].status = "CLOSED" /\ case'[c].assignee = case[c].assignee
        /\ case'[c].locked = FALSE /\ case'[c].resolved = FALSE /\ case'[c] # None
    BY <1>0, <1>4, <2>1, <2>2, CaseAssumption DEF Case, CmsCaseState
  <2>. QED
    BY <1>0, <2>1, <2>3 DEF Told, Drawn, Open
<1>9. ASSUME NEW u \in Users, Assign(c, u)
      PROVE  /\ Told(c)'
             /\ \A k \in Cases \ {c} :
                  case'[k] = case[k] /\ recorded'[k] = recorded[k] /\ holding'[k] = holding[k]
  <2>. DEFINE v == [case[c] EXCEPT !.assignee = u,
                     !.status = IF case[c].status = "OPEN" THEN "ASSIGNED" ELSE case[c].status]
  <2>1. Open(c) /\ Store(c, v) /\ holding' = [holding EXCEPT ![c] = {u}]
    BY <1>9 DEF Assign
  <2>2. case[c] \in Case
    BY <1>3, <2>1 DEF Open
  <2>3. v.assignee = u /\ v.locked = FALSE /\ v.resolved = FALSE
    BY <1>4, <2>1, <2>2 DEF Case
  <2>. HIDE DEF v
  <2>4. {u} \ {None} = {u}
    BY UsersAssumption
  <2>5. holding'[c] = {v.assignee} \ {None} /\ \A k \in Cases \ {c} : holding'[k] = holding[k]
    BY <1>0, <2>1, <2>3, <2>4
  <2>6. /\ case'[c] = v
        /\ \A k \in Cases \ {c} : case'[k] = case[k] /\ recorded'[k] = recorded[k]
    BY <2>1, StoreEffect
  <2>7. Told(c)'
    BY <2>3, <2>5, <2>6 DEF Told
  <2>. QED
    BY <2>5, <2>6, <2>7
<1>10. ASSUME Escalate(c)
       PROVE  /\ Told(c)'
              /\ \A k \in Cases \ {c} :
                   case'[k] = case[k] /\ recorded'[k] = recorded[k] /\ holding'[k] = holding[k]
  <2>. DEFINE v == [case[c] EXCEPT !.status = "ESCALATED"]
  <2>1. Open(c) /\ Store(c, v) /\ UNCHANGED holding
    BY <1>10 DEF Escalate
  <2>2. case[c] \in Case
    BY <1>3, <2>1 DEF Open
  <2>3. v \in Case /\ v.assignee = case[c].assignee /\ v.locked = FALSE /\ v.resolved = FALSE
    BY <1>4, <2>1, <2>2 DEF Case, CmsCaseState
  <2>. HIDE DEF v
  <2>. QED
    BY <1>2, <2>1, <2>3
<1>11. ASSUME Close(c)
       PROVE  /\ Told(c)'
              /\ \A k \in Cases \ {c} :
                   case'[k] = case[k] /\ recorded'[k] = recorded[k] /\ holding'[k] = holding[k]
  <2>. DEFINE v == [case[c] EXCEPT !.status = "CLOSED", !.locked = TRUE, !.resolved = TRUE]
  <2>1. Open(c) /\ Store(c, v) /\ UNCHANGED holding
    BY <1>11 DEF Close
  <2>2. case[c] \in Case
    BY <1>3, <2>1 DEF Open
  <2>3. /\ v \in Case /\ v.assignee = case[c].assignee
        /\ v.locked = TRUE /\ v.resolved = TRUE /\ v.status = "CLOSED"
    BY <2>2 DEF Case, CmsCaseState
  <2>. HIDE DEF v
  <2>. QED
    BY <1>2, <2>1, <2>3
<1>. QED
  BY <1>1, <1>6, <1>7, <1>8, <1>9, <1>10, <1>11 DEF Operation

LEMMA TrailStep ==
  ASSUME CmsTypeOK, TrailAgrees, CmsNext
  PROVE  TrailAgrees'
<1>1. \A c \in Cases : Told(c)
  BY DEF TrailAgrees, Told
<1>2. SUFFICES \A c \in Cases : Told(c)'
  BY DEF TrailAgrees, Told
<1>3. ASSUME NEW k \in Cases, Operation(k), NEW c \in Cases
      PROVE  Told(c)'
  <2>1. CASE c = k
    BY <1>1, <1>3, <2>1, ToldOperation
  <2>2. CASE c # k
    BY <1>1, <1>3, <2>2, ToldOperation, ToldSame
  <2>. QED
    BY <2>1, <2>2
<1>4. ASSUME NEW t \in Tenants, AutoEscalate(t), NEW c \in Cases
      PROVE  Told(c)'
  <2>1. /\ case' = [k \in Cases |-> IF k \in Candidates(t)
                                    THEN [case[k] EXCEPT !.status = "ESCALATED"] ELSE case[k]]
        /\ recorded' = [k \in Cases |-> IF k \in Candidates(t) THEN "ESCALATED" ELSE recorded[k]]
        /\ UNCHANGED holding
    BY <1>4 DEF AutoEscalate
  <2>2. CASE c \in Candidates(t)
    <3>1. Open(c) /\ Drawn(c) /\ case[c] \in Case
      BY <2>2 DEF Candidates, Open, Drawn, CmsTypeOK
    <3>2. /\ case'[c] = [case[c] EXCEPT !.status = "ESCALATED"]
          /\ recorded'[c] = "ESCALATED" /\ holding'[c] = holding[c]
      BY <2>1, <2>2
    <3>3. /\ case'[c].status = "ESCALATED" /\ case'[c].assignee = case[c].assignee
          /\ case'[c].locked = case[c].locked /\ case'[c].resolved = case[c].resolved
      BY <3>1, <3>2 DEF Case
    <3>. QED
      BY <1>1, <3>1, <3>2, <3>3 DEF Told, Open
  <2>3. CASE c \notin Candidates(t)
    BY <1>1, <2>1, <2>3, ToldSame
  <2>. QED
    BY <2>2, <2>3
<1>5. ASSUME Tick, NEW c \in Cases
      PROVE  Told(c)'
  BY <1>1, <1>5, ToldSame DEF Tick, cmsVars
<1>. QED
  BY <1>3, <1>4, <1>5 DEF CmsNext

\* HistoryTold, for one case.
HistoryOf(c) == Drawn(c) => recorded[c] = case[c].status

\* No step but a refused transition takes the history of a case from its status.
LEMMA HistoryStep ==
  ASSUME CmsTypeOK, CmsNext, NEW c \in Cases, HistoryOf(c), ~TransitionRefused(c)
  PROVE  HistoryOf(c)'
<1>1. ASSUME NEW k \in Cases, NEW v, Store(k, v)
      PROVE  HistoryOf(c)'
  BY <1>1, StoreEffect DEF HistoryOf, Drawn
<1>2. ASSUME NEW k \in Cases, TransitionRefused(k)
      PROVE  HistoryOf(c)'
  <2>1. k # c
    BY <1>2
  <2>2. case'[c] = case[c] /\ recorded'[c] = recorded[c]
    BY <1>2, <2>1 DEF TransitionRefused, CmsTypeOK
  <2>. QED
    BY <2>2 DEF HistoryOf, Drawn
<1>3. ASSUME NEW k \in Cases, Operation(k)
      PROVE  HistoryOf(c)'
  <2>1. (\E v : Store(k, v)) \/ TransitionRefused(k)
    BY <1>3 DEF Operation, Create, Update, Transition, Assign, Escalate, Close
  <2>. QED
    BY <1>1, <1>2, <2>1
<1>4. ASSUME NEW t \in Tenants, AutoEscalate(t)
      PROVE  HistoryOf(c)'
  <2>1. /\ case' = [k \in Cases |-> IF k \in Candidates(t)
                                    THEN [case[k] EXCEPT !.status = "ESCALATED"] ELSE case[k]]
        /\ recorded' = [k \in Cases |-> IF k \in Candidates(t) THEN "ESCALATED" ELSE recorded[k]]
    BY <1>4 DEF AutoEscalate
  <2>2. CASE c \in Candidates(t)
    <3>1. case[c] \in Case
      BY <2>2 DEF Candidates, Open, Drawn, CmsTypeOK
    <3>. QED
      BY <2>1, <2>2, <3>1 DEF HistoryOf, Case
  <2>3. CASE c \notin Candidates(t)
    BY <2>1, <2>3 DEF HistoryOf, Drawn
  <2>. QED
    BY <2>2, <2>3
<1>5. ASSUME Tick
      PROVE  HistoryOf(c)'
  BY <1>5 DEF Tick, cmsVars, HistoryOf, Drawn
<1>. QED
  BY <1>3, <1>4, <1>5 DEF CmsNext

\* What LockedFrozen says of one step.
LEMMA LockedStep ==
  ASSUME CmsTypeOK, CmsNext, NEW c \in Cases, Drawn(c), case[c].locked, case'[c] # case[c]
  PROVE  /\ case'[c].status = "OPEN" /\ ~case'[c].locked /\ ~case'[c].resolved
         /\ case'[c].due = now + Windows[case[c].priority]
         /\ case'[c].assignee = case[c].assignee
<1>1. case[c] \in Case /\ ~Open(c)
  BY DEF Drawn, Open, CmsTypeOK
<1>2. ASSUME NEW k \in Cases, k # c
      PROVE  ~Operation(k)
  <2>1. \A v : ~Store(k, v)
    BY <1>2 DEF Store, CmsTypeOK
  <2>2. ~TransitionRefused(k)
    BY <1>2 DEF TransitionRefused, CmsTypeOK
  <2>. QED
    BY <2>1, <2>2 DEF Operation, Create, Update, Transition, Assign, Escalate, Close
<1>3. \A t \in Tenants : ~AutoEscalate(t)
  BY <1>1 DEF AutoEscalate, Candidates
<1>4. ~Tick
  BY DEF Tick, cmsVars
<1>5. PICK target \in CmsCaseState : Transition(c, target)
  BY <1>1, <1>2, <1>3, <1>4
    DEF CmsNext, Operation, Create, Update, TransitionRefused, Assign, Escalate, Close, Drawn
<1>6. target = "OPEN" /\ case'[c] = Moved(case[c], target)
  BY <1>1, <1>5, StoreEffect DEF Transition
<1>. QED
  BY <1>1, <1>6 DEF Moved, Case

-----------------------------------------------------------------------------
\* Types.

\* What Through(w) makes of the locals.
LEMMA ThroughEffect ==
  ASSUME TypeInv, NEW w \in Runners, Through(w)
  PROVE  /\ pc' \in [Runners -> States]
         /\ queue' \in [Runners -> SUBSET Tenants]
         /\ tenant' \in [Runners -> Tenants \cup {None}]
         /\ started' \in [Runners -> Nat]
         /\ listed' \in [Runners -> [Cases -> Priorities \cup {None}]]
         /\ book' \in [Runners -> [Priorities -> RuleIds \cup {None}]]
         /\ due' \in [Runners -> SUBSET Refs]
         /\ pc'[w] \in {"idle", "listing"} /\ due'[w] = {} /\ listed'[w] = NoCases
         /\ \A v \in Runners \ {w} :
              pc'[v] = pc[v] /\ tenant'[v] = tenant[v] /\ listed'[v] = listed[v] /\ due'[v] = due[v]
<1>1. NoCases \in [Cases -> Priorities \cup {None}]
  BY DEF NoCases
<1>2. NoBook \in [Priorities -> RuleIds \cup {None}]
  BY DEF NoBook
<1>. QED
  BY <1>1, <1>2 DEF Through, TypeInv, TypeOK, States

\* PlacedAt(w) speaks of the locals of w, and of the cases.
LEMMA PlacedSame ==
  ASSUME Placed, NEW w \in Runners,
         \A c \in Cases : case[c] # None => case'[c] # None,
         pc'[w] = pc[w], tenant'[w] = tenant[w], listed'[w] = listed[w], due'[w] = due[w]
  PROVE  PlacedAt(w)'
BY DEF Placed, PlacedAt

LEMMA PlacedThrough ==
  ASSUME TypeInv, NEW w \in Runners, Through(w), UNCHANGED case
  PROVE  Placed'
<1>1. ASSUME NEW v \in Runners, v # w
      PROVE  PlacedAt(v)'
  BY <1>1, ThroughEffect, PlacedSame DEF TypeInv
<1>2. PlacedAt(w)'
  BY ThroughEffect DEF NoCases, PlacedAt
<1>. QED
  BY <1>1, <1>2 DEF Placed

LEMMA AppendedType ==
  ASSUME NEW S, NEW entries \in Seq(S), NEW e \in S
  PROVE  Appended(entries, e) \in Seq(S)
<1>1. CASE Len(entries) < Cap
  BY <1>1 DEF Appended
<1>2. CASE ~(Len(entries) < Cap)
  <2>1. Len(entries) # 0
    BY <1>2, LogAssumption
  <2>2. Tail(entries) \in Seq(S)
    BY <2>1
  <2>. QED
    BY <1>2, <2>2 DEF Appended
<1>. QED
  BY <1>1, <1>2

LEMMA DispatchType ==
  ASSUME TypeInv, NEW w \in Runners, tenant[w] \in Tenants, NEW r \in due[w], Dispatch(w, r)
  PROVE  /\ log' \in [Tenants -> Seq(Refs \cup {Other})]
         /\ fired' \subseteq Refs /\ repeated' \subseteq Refs
         /\ raced' \subseteq Refs /\ evicted' \subseteq Refs
<1>1. r \in Refs
  BY DEF TypeInv, TypeOK
<1>2. Appended(log[tenant[w]], r) \in Seq(Refs \cup {Other})
  BY <1>1, AppendedType DEF TypeInv, TypeOK
<1>3. log' \in [Tenants -> Seq(Refs \cup {Other})]
  BY <1>2 DEF Dispatch, TypeInv, TypeOK
<1>. QED
  BY <1>1, <1>3 DEF Dispatch, Unseen, TypeInv, TypeOK

LEMMA DueLevelsType ==
  ASSUME TypeOK, NEW c \in Cases, NEW rule \in RuleIds \cup {None}, NEW time \in Nat
  PROVE  /\ DueLevels(c, rule, time) \subseteq Refs
         /\ \A r \in DueLevels(c, rule, time) : r[1] = c
<1>1. CASE rule = None \/ matrix[rule] = None
  BY <1>1 DEF DueLevels
<1>2. CASE ~(rule = None \/ matrix[rule] = None)
  <2>1. matrix[rule] \in Chains
    BY <1>2 DEF TypeOK
  <2>2. Len(matrix[rule]) \in Levels
    BY <2>1, ChainsAssumption
  <2>3. 1..Len(matrix[rule]) \subseteq Levels
    <3>1. ASSUME NEW n \in 1..3
          PROVE  1..n \subseteq 1..3
      OBVIOUS
    <3>. QED
      BY <2>2, <3>1 DEF Levels
  <2>. QED
    BY <1>2, <2>3 DEF DueLevels, Refs
<1>. QED
  BY <1>1, <1>2

LEMMA TypeInit == Init => TypeInv
<1>. SUFFICES ASSUME Init PROVE TypeInv
  OBVIOUS
<1>1. CmsTypeOK
  BY DEF Init, CmsInit, CmsTypeOK
<1>2. TypeOK
  BY <1>1 DEF Init, TypeOK, NoCases, NoBook
<1>3. Placed
  BY DEF Init, Placed, PlacedAt, NoCases
<1>. QED
  BY <1>2, <1>3 DEF TypeInv

LEMMA TypeRunTick == ASSUME TypeInv, RunTick PROVE TypeInv'
<1>1. Cron \in Runners
  BY DEF Runners
<1>2. TypeOK'
  BY <1>1 DEF RunTick, TypeInv, TypeOK, CmsTypeOK, cmsVars, setup, outcome
<1>3. Placed'
  BY <1>1 DEF RunTick, TypeInv, TypeOK, Placed, PlacedAt, cmsVars
<1>. QED
  BY <1>2, <1>3 DEF TypeInv

LEMMA TypeListOpen == ASSUME TypeInv, NEW t \in Tenants, ListOpen(t) PROVE TypeInv'
<1>. DEFINE open == {c \in Cases : TenantOf[c] = t /\ Listed(c)}
            list == [c \in Cases |-> IF c \in open THEN case[c].priority ELSE None]
<1>1. Cron \in Runners /\ UNCHANGED <<cmsVars, now, book, due, setup, outcome, upsets>>
  BY DEF Runners, ListOpen
<1>2. queue' \in [Runners -> SUBSET Tenants]
  BY <1>1 DEF ListOpen, TypeInv, TypeOK
<1>3. list \in [Cases -> Priorities \cup {None}]
  BY DEF Listed, Drawn, TypeInv, TypeOK, CmsTypeOK, Case
<1>4. \A c \in Cases : list[c] # None => case[c] # None /\ TenantOf[c] = t
  BY DEF Listed, Drawn
<1>5. CASE open # {}
  <2>1. /\ pc' = [pc EXCEPT ![Cron] = "scenarios"]
        /\ tenant' = [tenant EXCEPT ![Cron] = t]
        /\ listed' = [listed EXCEPT ![Cron] = list]
        /\ UNCHANGED started
    BY <1>5 DEF ListOpen
  <2>2. pc[Cron] = "listing"
    BY DEF ListOpen
  <2>. HIDE DEF list, open
  <2>3. TypeOK'
    BY <1>1, <1>2, <1>3, <2>1 DEF TypeInv, TypeOK, CmsTypeOK, cmsVars, setup, outcome
  <2>4. due[Cron] = {}
    BY <1>1, <2>2 DEF TypeInv, Placed, PlacedAt
  <2>5. PlacedAt(Cron)'
    BY <1>1, <1>4, <2>1, <2>4 DEF TypeInv, TypeOK, PlacedAt, cmsVars
  <2>6. ASSUME NEW w \in Runners, w # Cron
        PROVE  PlacedAt(w)'
    BY <1>1, <2>1, <2>6, PlacedSame DEF TypeInv, TypeOK, cmsVars
  <2>. QED
    BY <2>3, <2>5, <2>6 DEF TypeInv, Placed
<1>6. CASE open = {}
  <2>1. /\ \E label \in {"idle", "listing"} : pc' = [pc EXCEPT ![Cron] = label]
        /\ pc[Cron] = "listing"
        /\ \E time \in Nat : started' = [started EXCEPT ![Cron] = time]
        /\ UNCHANGED <<tenant, listed>>
    BY <1>1, <1>6 DEF ListOpen, TypeInv, TypeOK
  <2>2. TypeOK'
    BY <1>1, <1>2, <2>1 DEF TypeInv, TypeOK, CmsTypeOK, cmsVars, setup, outcome
  <2>3. Placed'
    BY <1>1, <2>1 DEF TypeInv, TypeOK, Placed, PlacedAt, cmsVars
  <2>. QED
    BY <2>2, <2>3 DEF TypeInv
<1>. QED
  BY <1>5, <1>6

LEMMA TypeRequest ==
  ASSUME TypeInv, NEW w \in Requests, NEW t \in Tenants, NEW asked \in SUBSET Cases,
         Request(w, t, asked)
  PROVE  TypeInv'
<1>. DEFINE list == [c \in Cases |-> IF c \in asked THEN case[c].priority ELSE None]
<1>1. /\ w \in Runners /\ pc[w] = "idle" /\ \A c \in asked : TenantOf[c] = t /\ Drawn(c)
      /\ pc' = [pc EXCEPT ![w] = "scenarios"]
      /\ tenant' = [tenant EXCEPT ![w] = t]
      /\ listed' = [listed EXCEPT ![w] = list]
      /\ upsets' = upsets + 1
      /\ UNCHANGED <<cmsVars, now, queue, started, book, due, setup, outcome>>
  BY DEF Request, Upset, Runners
<1>2. list \in [Cases -> Priorities \cup {None}]
  BY <1>1 DEF Drawn, TypeInv, TypeOK, CmsTypeOK, Case
<1>3. \A c \in Cases : list[c] # None => case[c] # None /\ TenantOf[c] = t
  BY <1>1 DEF Drawn
<1>. HIDE DEF list
<1>4. TypeOK'
  BY <1>1, <1>2 DEF TypeInv, TypeOK, CmsTypeOK, cmsVars, setup, outcome
<1>5. due[w] = {}
  BY <1>1 DEF TypeInv, Placed, PlacedAt
<1>6. PlacedAt(w)'
  BY <1>1, <1>3, <1>5 DEF TypeInv, TypeOK, PlacedAt, cmsVars
<1>7. ASSUME NEW v \in Runners, v # w
      PROVE  PlacedAt(v)'
  BY <1>1, <1>7, PlacedSame DEF TypeInv, TypeOK, cmsVars
<1>. QED
  BY <1>4, <1>6, <1>7 DEF TypeInv, Placed

LEMMA TypeScenarios == ASSUME TypeInv, NEW w \in Runners, Scenarios(w) PROVE TypeInv'
<1>1. /\ pc[w] = "scenarios"
      /\ pc' = [pc EXCEPT ![w] = "resolving"]
      /\ book' = [book EXCEPT ![w] = scenario[tenant[w]]]
      /\ \E time \in Nat : started' = [started EXCEPT ![w] = time]
      /\ UNCHANGED <<cmsVars, now, queue, tenant, listed, due, setup, outcome, upsets>>
  <2>1. now \in Nat /\ started[w] \in Nat /\ started = [started EXCEPT ![w] = started[w]]
    BY DEF TypeInv, TypeOK, CmsTypeOK
  <2>2. \E time \in Nat : started' = [started EXCEPT ![w] = time]
    BY <2>1 DEF Scenarios
  <2>. QED
    BY <2>2 DEF Scenarios
<1>2. tenant[w] \in Tenants
  BY <1>1 DEF TypeInv, Placed, PlacedAt
<1>3. TypeOK'
  BY <1>1, <1>2 DEF TypeInv, TypeOK, CmsTypeOK, cmsVars, setup, outcome
<1>4. PlacedAt(w)'
  BY <1>1 DEF TypeInv, TypeOK, Placed, PlacedAt, cmsVars
<1>5. ASSUME NEW v \in Runners, v # w
      PROVE  PlacedAt(v)'
  BY <1>1, <1>5, PlacedSame DEF TypeInv, TypeOK, cmsVars
<1>. QED
  BY <1>3, <1>4, <1>5 DEF TypeInv, Placed

\* What Resolve(w, c) finds due is of the tenant of w.
LEMMA TypeResolve ==
  ASSUME TypeInv, NEW w \in Runners, NEW c \in Cases, Resolve(w, c)
  PROVE  TypeInv'
<1>. DEFINE found == DueLevels(c, book[w][listed[w][c]], started[w])
<1>1. /\ pc[w] = "resolving" /\ listed[w][c] # None
      /\ listed' = [listed EXCEPT ![w] = [listed[w] EXCEPT ![c] = None]]
      /\ due' = [due EXCEPT ![w] = due[w] \cup found]
      /\ \E label \in {"resolving", "filtering"} : pc' = [pc EXCEPT ![w] = label]
      /\ UNCHANGED <<cmsVars, now, queue, tenant, started, book, setup, outcome, upsets>>
  BY DEF Resolve, TypeInv, TypeOK
<1>2. listed[w][c] \in Priorities /\ TenantOf[c] = tenant[w]
  BY <1>1 DEF TypeInv, TypeOK, Placed, PlacedAt
<1>3. book[w][listed[w][c]] \in RuleIds \cup {None} /\ started[w] \in Nat
  BY <1>2 DEF TypeInv, TypeOK
<1>4. found \subseteq Refs /\ \A r \in found : TenantOf[r[1]] = tenant[w]
  BY <1>2, <1>3, DueLevelsType DEF TypeInv
<1>. HIDE DEF found
<1>5. TypeOK'
  BY <1>1, <1>4 DEF TypeInv, TypeOK, CmsTypeOK, cmsVars, setup, outcome
<1>6. PlacedAt(w)'
  BY <1>1, <1>4 DEF TypeInv, TypeOK, Placed, PlacedAt, cmsVars
<1>7. ASSUME NEW v \in Runners, v # w
      PROVE  PlacedAt(v)'
  BY <1>1, <1>7, PlacedSame DEF TypeInv, TypeOK, cmsVars
<1>. QED
  BY <1>5, <1>6, <1>7 DEF TypeInv, Placed

\* The locals after Through(w), for a step that moves nothing else of a type.
LEMMA TypeThrough ==
  ASSUME TypeInv, NEW w \in Runners, Through(w), UNCHANGED <<cmsVars, now, setup>>,
         log' \in [Tenants -> Seq(Refs \cup {Other})],
         fired' \subseteq Refs, repeated' \subseteq Refs,
         raced' \subseteq Refs, evicted' \subseteq Refs, upsets' \in Nat
  PROVE  TypeInv'
<1>1. UNCHANGED case
  BY DEF cmsVars
<1>2. TypeOK'
  BY ThroughEffect DEF TypeInv, TypeOK, CmsTypeOK, cmsVars, setup, States
<1>. QED
  BY <1>1, <1>2, PlacedThrough DEF TypeInv

LEMMA TypeFilter == ASSUME TypeInv, NEW w \in Runners, Filter(w) PROVE TypeInv'
<1>1. UNCHANGED <<cmsVars, now, setup, outcome, upsets>> /\ pc[w] = "filtering"
  BY DEF Filter
<1>2. CASE Fresh(w) # {}
  <2>1. /\ pc' = [pc EXCEPT ![w] = "sending"]
        /\ due' = [due EXCEPT ![w] = Fresh(w)]
        /\ UNCHANGED <<queue, tenant, started, listed, book>>
    BY <1>2 DEF Filter
  <2>2. Fresh(w) \subseteq due[w]
    BY DEF Fresh
  <2>3. TypeOK'
    BY <1>1, <2>1, <2>2 DEF TypeInv, TypeOK, CmsTypeOK, cmsVars, setup, outcome
  <2>4. PlacedAt(w)'
    BY <1>1, <2>1, <2>2 DEF TypeInv, TypeOK, Placed, PlacedAt, cmsVars
  <2>5. ASSUME NEW v \in Runners, v # w
        PROVE  PlacedAt(v)'
    BY <1>1, <2>1, <2>5, PlacedSame DEF TypeInv, TypeOK, cmsVars
  <2>. QED
    BY <2>3, <2>4, <2>5 DEF TypeInv, Placed
<1>3. CASE Fresh(w) = {}
  <2>1. Through(w)
    BY <1>3 DEF Filter
  <2>. QED
    BY <1>1, <2>1, TypeThrough DEF outcome, TypeInv, TypeOK
<1>. QED
  BY <1>2, <1>3

LEMMA TypeSend ==
  ASSUME TypeInv, NEW w \in Runners, NEW r \in Refs, Send(w, r)
  PROVE  TypeInv'
<1>1. /\ pc[w] = "sending" /\ r \in due[w] /\ Dispatch(w, r)
      /\ UNCHANGED <<cmsVars, now, setup, upsets>>
  BY DEF Send, Foremost
<1>2. tenant[w] \in Tenants
  BY <1>1 DEF TypeInv, Placed, PlacedAt
<1>3. /\ log' \in [Tenants -> Seq(Refs \cup {Other})]
      /\ fired' \subseteq Refs /\ repeated' \subseteq Refs
      /\ raced' \subseteq Refs /\ evicted' \subseteq Refs
  BY <1>1, <1>2, DispatchType
<1>4. CASE due[w] = {r}
  <2>1. Through(w)
    BY <1>4 DEF Send
  <2>. QED
    BY <1>1, <1>3, <2>1, TypeThrough DEF TypeInv, TypeOK
<1>5. CASE due[w] # {r}
  <2>1. /\ due' = [due EXCEPT ![w] = due[w] \ {r}]
        /\ UNCHANGED <<pc, queue, tenant, started, listed, book>>
    BY <1>5 DEF Send
  <2>2. TypeOK'
    BY <1>1, <1>3, <2>1 DEF TypeInv, TypeOK, CmsTypeOK, cmsVars, setup
  <2>3. PlacedAt(w)'
    BY <1>1, <2>1 DEF TypeInv, TypeOK, Placed, PlacedAt, cmsVars
  <2>4. ASSUME NEW v \in Runners, v # w
        PROVE  PlacedAt(v)'
    BY <1>1, <2>1, <2>4, PlacedSame DEF TypeInv, TypeOK, cmsVars
  <2>. QED
    BY <2>2, <2>3, <2>4 DEF TypeInv, Placed
<1>. QED
  BY <1>4, <1>5

\* What a failed step leaves of the outcome: nothing new, or one level more.
LEMMA TypeFail == ASSUME TypeInv, NEW w \in Runners, Fail(w) PROVE TypeInv'
<1>1. /\ UNCHANGED <<cmsVars, now, setup>> /\ upsets' \in Nat
      /\ \/ UNCHANGED outcome
         \/ pc[w] = "sending" /\ \E r \in due[w] : Foremost(w, r) /\ Dispatch(w, r)
  BY DEF Fail, Upset, TypeInv, TypeOK
<1>2. /\ log' \in [Tenants -> Seq(Refs \cup {Other})]
      /\ fired' \subseteq Refs /\ repeated' \subseteq Refs
      /\ raced' \subseteq Refs /\ evicted' \subseteq Refs
  <2>1. CASE UNCHANGED outcome
    BY <2>1 DEF outcome, TypeInv, TypeOK
  <2>2. ASSUME pc[w] = "sending", NEW r \in due[w], Dispatch(w, r)
        PROVE  /\ log' \in [Tenants -> Seq(Refs \cup {Other})]
               /\ fired' \subseteq Refs /\ repeated' \subseteq Refs
               /\ raced' \subseteq Refs /\ evicted' \subseteq Refs
    <3>1. tenant[w] \in Tenants
      BY <2>2 DEF TypeInv, Placed, PlacedAt
    <3>. QED
      BY <2>2, <3>1, DispatchType
  <2>. QED
    BY <1>1, <2>1, <2>2
<1>3. CASE pc[w] = "listing"
  <2>1. PICK t \in queue[w] :
          /\ queue' = [queue EXCEPT ![w] = queue[w] \ {t}]
          /\ \E label \in {"idle", "listing"} : pc' = [pc EXCEPT ![w] = label]
          /\ \E time \in Nat : started' = [started EXCEPT ![w] = time]
          /\ UNCHANGED <<tenant, listed, book, due>>
    <3>1. started[w] \in Nat /\ started = [started EXCEPT ![w] = started[w]]
      BY DEF TypeInv, TypeOK
    <3>. QED
      BY <1>3, <3>1 DEF Fail
  <2>2. TypeOK'
    BY <1>1, <1>2, <2>1 DEF TypeInv, TypeOK, CmsTypeOK, cmsVars, setup
  <2>3. PlacedAt(w)'
    BY <1>1, <1>3, <2>1 DEF TypeInv, TypeOK, Placed, PlacedAt, cmsVars
  <2>4. ASSUME NEW v \in Runners, v # w
        PROVE  PlacedAt(v)'
    BY <1>1, <2>1, <2>4, PlacedSame DEF TypeInv, TypeOK, cmsVars
  <2>. QED
    BY <2>2, <2>3, <2>4 DEF TypeInv, Placed
<1>4. CASE pc[w] # "listing"
  <2>1. Through(w)
    BY <1>4 DEF Fail
  <2>. QED
    BY <1>1, <1>2, <2>1, TypeThrough
<1>. QED
  BY <1>3, <1>4

LEMMA PlacedLocals ==
  ASSUME Placed, UNCHANGED locals, \A c \in Cases : case[c] # None => case'[c] # None
  PROVE  Placed'
BY DEF Placed, PlacedAt, locals

LEMMA TypeTestFire == ASSUME TypeInv, NEW t \in Tenants, TestFire(t) PROVE TypeInv'
<1>1. Appended(log[t], Other) \in Seq(Refs \cup {Other})
  BY AppendedType DEF TypeInv, TypeOK
<1>2. TypeOK'
  BY <1>1 DEF TestFire, Upset, Unseen, TypeInv, TypeOK, CmsTypeOK, cmsVars, locals, setup
<1>3. Placed'
  BY PlacedLocals DEF TestFire, TypeInv, cmsVars
<1>. QED
  BY <1>2, <1>3 DEF TypeInv

LEMMA TypeEditScenario ==
  ASSUME TypeInv, NEW t \in Tenants, NEW p \in Priorities, EditScenario(t, p)
  PROVE  TypeInv'
<1>1. PICK r \in RuleIds \cup {None} : scenario' = [scenario EXCEPT ![t] = [scenario[t] EXCEPT ![p] = r]]
  BY DEF EditScenario
<1>2. TypeOK'
  BY <1>1 DEF EditScenario, Upset, TypeInv, TypeOK, CmsTypeOK, cmsVars, locals, outcome
<1>3. Placed'
  BY PlacedLocals DEF EditScenario, TypeInv, cmsVars
<1>. QED
  BY <1>2, <1>3 DEF TypeInv

LEMMA TypeEditRule == ASSUME TypeInv, NEW r \in RuleIds, EditRule(r) PROVE TypeInv'
<1>1. TypeOK'
  BY DEF EditRule, Upset, TypeInv, TypeOK, CmsTypeOK, cmsVars, locals, outcome
<1>2. Placed'
  BY PlacedLocals DEF EditRule, TypeInv, cmsVars
<1>. QED
  BY <1>1, <1>2 DEF TypeInv

LEMMA TypeCms ==
  ASSUME TypeInv, CmsNext, UNCHANGED <<locals, setup, outcome, upsets>>
  PROVE  TypeInv'
<1>1. CmsTypeOK' /\ \A c \in Cases : case[c] # None => case'[c] # None
  BY CmsType DEF TypeInv, TypeOK
<1>2. TypeOK'
  BY <1>1 DEF TypeInv, TypeOK, locals, setup, outcome
<1>3. Placed'
  BY <1>1, PlacedLocals DEF TypeInv
<1>. QED
  BY <1>2, <1>3 DEF TypeInv

LEMMA TypeStutter == ASSUME TypeInv, UNCHANGED vars PROVE TypeInv'
<1>1. TypeOK'
  BY DEF vars, cmsVars, locals, setup, outcome, TypeInv, TypeOK, CmsTypeOK
<1>2. Placed'
  BY PlacedLocals DEF vars, cmsVars, TypeInv
<1>. QED
  BY <1>1, <1>2 DEF TypeInv

LEMMA TypeStep == ASSUME TypeInv, [Next]_vars PROVE TypeInv'
<1>1. Cron \in Runners /\ Requests \subseteq Runners
  BY DEF Runners
<1>2. ASSUME NEW w \in Runners, RunnerStep(w)
      PROVE  TypeInv'
  BY <1>2, TypeScenarios, TypeResolve, TypeFilter, TypeSend DEF RunnerStep
<1>3. ASSUME CronStep
      PROVE  TypeInv'
  BY <1>1, <1>2, <1>3, TypeRunTick, TypeListOpen DEF CronStep
<1>4. ASSUME NEW w \in Requests,
             RunnerStep(w) \/ \E t \in Tenants, asked \in SUBSET Cases : Request(w, t, asked)
      PROVE  TypeInv'
  BY <1>1, <1>2, <1>4, TypeRequest
<1>. QED
  BY <1>3, <1>4, TypeCms, TypeFail, TypeTestFire, TypeEditScenario, TypeEditRule, TypeStutter
    DEF Next

LEMMA TypeInvariant == Spec => []TypeInv
BY TypeInit, TypeStep, PTL DEF Spec

\* Every variable of the worker and of the case store keeps its type.
THEOREM TypesKept == Spec => []TypeOK
<1>1. TypeInv => TypeOK
  BY DEF TypeInv
<1>. QED
  BY <1>1, TypeInvariant, PTL

-----------------------------------------------------------------------------
\* The case store under the worker.

\* Of the steps of the worker none moves a case.
LEMMA OnlyCms ==
  ASSUME [Next]_vars, ~CmsNext
  PROVE  UNCHANGED <<cmsVars, now>>
<1>1. ASSUME NEW w, RunnerStep(w)
      PROVE  UNCHANGED <<cmsVars, now>>
  BY <1>1 DEF RunnerStep, Scenarios, Resolve, Filter, Send
<1>2. ASSUME CronStep
      PROVE  UNCHANGED <<cmsVars, now>>
  BY <1>1, <1>2 DEF CronStep, RunTick, ListOpen
<1>. QED
  BY <1>1, <1>2 DEF Next, Request, Fail, TestFire, EditScenario, EditRule, vars

\* The assignment of a case that is not ended is that of its assignee, and a
\* lock goes with a closed case and its resolution, whatever the order of calls.
THEOREM TrailAlwaysAgrees == Spec => []TrailAgrees
<1>1. Init => TrailAgrees
  BY DEF Init, CmsInit, TrailAgrees, Drawn
<1>2. ASSUME TypeInv, TrailAgrees, [Next]_vars
      PROVE  TrailAgrees'
  <2>1. CASE CmsNext
    BY <1>2, <2>1, TrailStep DEF TypeInv, TypeOK
  <2>2. CASE ~CmsNext
    BY <1>2, <2>2, OnlyCms DEF TrailAgrees, Drawn, Open, cmsVars
  <2>. QED
    BY <2>1, <2>2
<1>. QED
  BY <1>1, <1>2, TypeInvariant, PTL DEF Spec

\* HistoryTold fails for one reason alone: while the history of a case shows its
\* status, every step of the store and of the worker keeps it so, but for a
\* transition to CLOSED that is refused after it assigned the status.
THEOREM HistoryToldButRefused ==
  Spec => [][\A c \in Cases : HistoryOf(c) /\ ~TransitionRefused(c) => HistoryOf(c)']_vars
<1>1. ASSUME TypeInv, [Next]_vars
      PROVE  \A c \in Cases : HistoryOf(c) /\ ~TransitionRefused(c) => HistoryOf(c)'
  <2>1. CASE CmsNext
    BY <1>1, <2>1, HistoryStep DEF TypeInv, TypeOK
  <2>2. CASE ~CmsNext
    BY <1>1, <2>2, OnlyCms DEF HistoryOf, Drawn, cmsVars
  <2>. QED
    BY <2>1, <2>2
<1>. QED
  BY <1>1, TypeInvariant, PTL DEF Spec

\* No call changes a locked case but the one that reopens it.
THEOREM LockAlwaysHolds == Spec => LockedFrozen
<1>1. ASSUME TypeInv, [Next]_vars
      PROVE  [\A c \in Cases :
               (Drawn(c) /\ case[c].locked /\ case'[c] # case[c]) =>
                 /\ case'[c].status = "OPEN" /\ ~case'[c].locked /\ ~case'[c].resolved
                 /\ case'[c].due = now + Windows[case[c].priority]
                 /\ case'[c].assignee = case[c].assignee]_<<cmsVars, now>>
  <2>1. CASE CmsNext
    BY <1>1, <2>1, LockedStep DEF TypeInv, TypeOK
  <2>2. CASE ~CmsNext
    BY <1>1, <2>2, OnlyCms
  <2>. QED
    BY <2>1, <2>2
<1>. QED
  BY <1>1, TypeInvariant, PTL DEF Spec, LockedFrozen

-----------------------------------------------------------------------------
\* What fires, and how often.

\* The log shows nothing that did not fire.
LogTrue == log \in [Tenants -> Seq(fired \cup {Other})]

\* What fired is still in the part of the log that is read, or left it.
Seen == \A r \in fired : r \in Recent(log[TenantOf[r[1]]]) \cup evicted

\* What w is about to dispatch is closed downwards, but for what fired.
DueClimbs(w) == \A r \in due[w] : r[2] > 1 => <<r[1], r[2] - 1>> \in due[w] \cup fired

\* What fired of it since w filtered was dispatched by another runner beside w.
Excused(w) == pc[w] = "sending" => \A r \in due[w] \cap fired : r \in raced \cup evicted

World == LogTrue /\ Seen /\ LadderClimbed /\ OncePerLevel
Safe == World /\ \A w \in Runners : DueClimbs(w) /\ Excused(w)

LEMMA WorldSame ==
  ASSUME World, UNCHANGED outcome
  PROVE  World'
BY DEF World, LogTrue, Seen, LadderClimbed, OncePerLevel, outcome

\* A runner that does nothing, while others may dispatch.
LEMMA RunnerSame ==
  ASSUME NEW v \in Runners, DueClimbs(v), Excused(v),
         due'[v] = due[v], pc'[v] = "sending" => pc[v] = "sending",
         fired \subseteq fired', raced \subseteq raced', evicted \subseteq evicted',
         \A r \in due[v] : pc[v] = "sending" /\ r \in fired' \ fired => r \in raced'
  PROVE  DueClimbs(v)' /\ Excused(v)'
BY DEF DueClimbs, Excused

LEMMA RunnerThrough ==
  ASSUME NEW v \in Runners, due'[v] = {}
  PROVE  DueClimbs(v)' /\ Excused(v)'
BY DEF DueClimbs, Excused

\* A step that fires nothing and leaves the levels of every runner alone.
LEMMA SafeQuiet ==
  ASSUME Safe, UNCHANGED outcome,
         \A v \in Runners : \/ due'[v] = due[v] /\ (pc'[v] = "sending" => pc[v] = "sending")
                            \/ due'[v] = {}
  PROVE  Safe'
<1>1. fired' = fired /\ raced' = raced /\ evicted' = evicted
  BY DEF outcome
<1>2. ASSUME NEW v \in Runners
      PROVE  DueClimbs(v)' /\ Excused(v)'
  <2>1. CASE due'[v] = {}
    BY <2>1, RunnerThrough
  <2>2. CASE due'[v] = due[v] /\ (pc'[v] = "sending" => pc[v] = "sending")
    BY <1>1, <2>2, RunnerSame DEF Safe
  <2>. QED
    BY <2>1, <2>2
<1>. QED
  BY <1>2, WorldSame DEF Safe

\* An entry more in the log of t shows nothing new but that entry.
LEMMA LogAppended ==
  ASSUME TypeInv, LogTrue, NEW t \in Tenants, NEW e \in fired' \cup {Other}, fired \subseteq fired',
         log' = [log EXCEPT ![t] = Appended(@, e)]
  PROVE  LogTrue'
<1>1. ASSUME NEW u \in Tenants
      PROVE  log[u] \in Seq(fired' \cup {Other})
  BY DEF LogTrue
<1>2. Appended(log[t], e) \in Seq(fired' \cup {Other})
  BY <1>1, AppendedType
<1>3. log' = [log EXCEPT ![t] = Appended(log[t], e)] /\ DOMAIN log = Tenants
  BY DEF LogTrue
<1>. QED
  BY <1>1, <1>2, <1>3 DEF LogTrue

\* One level more fires: the lowest that its runner has left of its case.
LEMMA WorldDispatch ==
  ASSUME TypeInv, Safe, NEW w \in Runners, pc[w] = "sending", NEW r \in due[w],
         Foremost(w, r), Dispatch(w, r)
  PROVE  /\ World'
         /\ fired' = fired \cup {r} /\ raced \subseteq raced' /\ evicted \subseteq evicted'
         /\ \A v \in Runners \ {w} : pc[v] = "sending" /\ r \in due[v] => r \in raced'
<1>. DEFINE t == tenant[w]
<1>1. /\ fired' = fired \cup {r} /\ raced \subseteq raced' /\ evicted \subseteq evicted'
      /\ \A v \in Runners \ {w} : pc[v] = "sending" /\ r \in due[v] => r \in raced'
      /\ evicted' = evicted \cup Unseen(t, fired \cup {r})
      /\ log' = [log EXCEPT ![t] = Appended(@, r)]
      /\ repeated' = IF r \in fired THEN repeated \cup {r} ELSE repeated
  BY DEF Dispatch
<1>2. /\ t \in Tenants /\ TenantOf[r[1]] = t /\ r \in Refs
      /\ \A q \in fired : q \in Refs /\ TenantOf[q[1]] \in Tenants
  BY TenantsAssumption DEF TypeInv, TypeOK, Placed, PlacedAt, Refs
<1>. HIDE DEF t
<1>3. LogTrue'
  BY <1>1, <1>2, LogAppended DEF Safe, World
<1>4. ASSUME NEW q \in fired'
      PROVE  q \in Recent(log'[TenantOf[q[1]]]) \cup evicted'
  <2>1. CASE TenantOf[q[1]] = t
    BY <1>1, <1>4, <2>1 DEF Unseen
  <2>2. CASE TenantOf[q[1]] # t
    <3>1. q \in fired
      BY <1>1, <1>2, <1>4, <2>2
    <3>2. log'[TenantOf[q[1]]] = log[TenantOf[q[1]]]
      BY <1>1, <1>2, <2>2, <3>1 DEF TypeInv, TypeOK
    <3>. QED
      BY <1>1, <3>1, <3>2 DEF Safe, World, Seen
  <2>. QED
    BY <2>1, <2>2
<1>5. LadderClimbed'
  <2>1. SUFFICES ASSUME r[2] > 1
                 PROVE  <<r[1], r[2] - 1>> \in fired
    BY <1>1 DEF Safe, World, LadderClimbed
  <2>2. r[2] \in {1, 2, 3}
    BY <1>2 DEF Refs, Levels
  <2>3. <<r[1], r[2] - 1>> \notin due[w]
    BY <2>2 DEF Foremost
  <2>. QED
    BY <2>1, <2>3 DEF Safe, DueClimbs
<1>6. OncePerLevel'
  BY <1>1 DEF Safe, World, OncePerLevel, Excused
<1>. QED
  BY <1>1, <1>3, <1>4, <1>5, <1>6 DEF World, Seen

\* Whoever dispatches goes on with what is left, or is through.
LEMMA SafeDispatch ==
  ASSUME TypeInv, Safe, NEW w \in Runners, pc[w] = "sending", NEW r \in due[w],
         Foremost(w, r), Dispatch(w, r),
         due'[w] = {} \/ due'[w] = due[w] \ {r},
         \A v \in Runners \ {w} : due'[v] = due[v] /\ pc'[v] = pc[v]
  PROVE  Safe'
<1>1. /\ World' /\ fired' = fired \cup {r} /\ raced \subseteq raced' /\ evicted \subseteq evicted'
      /\ \A v \in Runners \ {w} : pc[v] = "sending" /\ r \in due[v] => r \in raced'
  BY WorldDispatch
<1>2. ASSUME NEW v \in Runners, v # w
      PROVE  DueClimbs(v)' /\ Excused(v)'
  BY <1>1, <1>2, RunnerSame DEF Safe
<1>3. DueClimbs(w)' /\ Excused(w)'
  BY <1>1 DEF Safe, DueClimbs, Excused
<1>. QED
  BY <1>1, <1>2, <1>3 DEF Safe

LEMMA SafeSend ==
  ASSUME TypeInv, Safe, NEW w \in Runners, NEW r \in Refs, Send(w, r)
  PROVE  Safe'
<1>1. pc[w] = "sending" /\ r \in due[w] /\ Foremost(w, r) /\ Dispatch(w, r)
  BY DEF Send, Foremost
<1>2. CASE due[w] = {r}
  <2>1. Through(w)
    BY <1>2 DEF Send
  <2>. QED
    BY <1>1, <2>1, ThroughEffect, SafeDispatch
<1>3. CASE due[w] # {r}
  <2>1. due' = [due EXCEPT ![w] = due[w] \ {r}] /\ pc' = pc
    BY <1>3 DEF Send
  <2>2. due'[w] = due[w] \ {r} /\ \A v \in Runners \ {w} : due'[v] = due[v] /\ pc'[v] = pc[v]
    BY <2>1 DEF TypeInv, TypeOK
  <2>. QED
    BY <1>1, <2>2, SafeDispatch
<1>. QED
  BY <1>2, <1>3

LEMMA SafeFail == ASSUME TypeInv, Safe, NEW w \in Runners, Fail(w) PROVE Safe'
<1>1. CASE pc[w] = "listing"
  <2>1. UNCHANGED <<outcome, due>> /\ \E label \in {"idle", "listing"} : pc' = [pc EXCEPT ![w] = label]
    BY <1>1 DEF Fail
  <2>2. \A v \in Runners : due'[v] = due[v] /\ (pc'[v] = "sending" => pc[v] = "sending")
    BY <2>1 DEF TypeInv, TypeOK
  <2>. QED
    BY <2>1, <2>2, SafeQuiet
<1>2. CASE pc[w] # "listing"
  <2>1. Through(w)
    BY <1>2 DEF Fail
  <2>2. due'[w] = {} /\ \A v \in Runners \ {w} : due'[v] = due[v] /\ pc'[v] = pc[v]
    BY <2>1, ThroughEffect
  <2>3. CASE UNCHANGED outcome
    BY <2>2, <2>3, SafeQuiet
  <2>4. ASSUME pc[w] = "sending", NEW r \in due[w], Foremost(w, r), Dispatch(w, r)
        PROVE  Safe'
    BY <2>2, <2>4, SafeDispatch
  <2>. QED
    BY <2>3, <2>4 DEF Fail
<1>. QED
  BY <1>1, <1>2

\* The levels of a rule come due from the first on.
LEMMA DueLevelsClimb ==
  ASSUME TypeOK, NEW c \in Cases, case[c] # None,
         NEW rule \in RuleIds \cup {None}, NEW time \in Nat,
         NEW r \in DueLevels(c, rule, time), r[2] > 1
  PROVE  <<r[1], r[2] - 1>> \in DueLevels(c, rule, time)
<1>1. rule # None /\ matrix[rule] # None
  BY DEF DueLevels
<1>. DEFINE chain == matrix[rule]
<1>2. chain \in Chains
  BY <1>1 DEF TypeOK
<1>3. /\ chain \in Seq(Nat) /\ Len(chain) \in Nat
      /\ \A i, j \in 1..Len(chain) : i < j => chain[i] < chain[j]
  BY <1>2, ChainsAssumption
<1>4. case[c].created \in Nat
  BY DEF TypeOK, CmsTypeOK, Case
<1>5. PICK l \in 1..Len(chain) : r = <<c, l>> /\ case[c].created + chain[l] <= time
  BY <1>1 DEF DueLevels
<1>6. l > 1 /\ l - 1 \in 1..Len(chain)
  BY <1>3, <1>5
<1>. HIDE DEF chain
<1>7. chain[l - 1] < chain[l] /\ chain[l - 1] \in Nat /\ chain[l] \in Nat
  <2>1. l - 1 < l
    BY <1>3, <1>5
  <2>2. chain[l - 1] < chain[l]
    BY <1>3, <1>5, <1>6, <2>1
  <2>3. \A i \in 1..Len(chain) : chain[i] \in Nat
    BY <1>3
  <2>. QED
    BY <1>5, <1>6, <2>2, <2>3
<1>8. case[c].created + chain[l - 1] <= time
  BY <1>4, <1>5, <1>7
<1>. QED
  BY <1>1, <1>5, <1>6, <1>8 DEF DueLevels, chain

LEMMA SafeResolve ==
  ASSUME TypeInv, Safe, NEW w \in Runners, NEW c \in Cases, Resolve(w, c)
  PROVE  Safe'
<1>. DEFINE rule == book[w][listed[w][c]]
            found == DueLevels(c, rule, started[w])
<1>1. /\ listed[w][c] # None /\ UNCHANGED outcome
      /\ due' = [due EXCEPT ![w] = due[w] \cup found]
      /\ \E label \in {"resolving", "filtering"} : pc' = [pc EXCEPT ![w] = label]
  BY DEF Resolve
<1>2. listed[w][c] \in Priorities /\ case[c] # None
  BY <1>1 DEF TypeInv, TypeOK, Placed, PlacedAt
<1>3. rule \in RuleIds \cup {None} /\ started[w] \in Nat
  BY <1>2 DEF TypeInv, TypeOK
<1>. HIDE DEF rule
<1>4. \A r \in found : r[2] > 1 => <<r[1], r[2] - 1>> \in found
  BY <1>2, <1>3, DueLevelsClimb DEF TypeInv
<1>. HIDE DEF found
<1>5. /\ due'[w] = due[w] \cup found /\ pc'[w] # "sending"
      /\ \A v \in Runners \ {w} : due'[v] = due[v] /\ pc'[v] = pc[v]
  BY <1>1 DEF TypeInv, TypeOK
<1>6. fired' = fired /\ raced' = raced /\ evicted' = evicted
  BY <1>1 DEF outcome
<1>7. DueClimbs(w)' /\ Excused(w)'
  BY <1>4, <1>5, <1>6 DEF Safe, DueClimbs, Excused
<1>8. ASSUME NEW v \in Runners, v # w
      PROVE  DueClimbs(v)' /\ Excused(v)'
  BY <1>5, <1>6, <1>8, RunnerSame DEF Safe
<1>. QED
  BY <1>1, <1>7, <1>8, WorldSame DEF Safe

\* What the filter takes for dispatched fired.
LEMMA RecentFired ==
  ASSUME LogTrue, NEW t \in Tenants
  PROVE  Recent(log[t]) \subseteq fired
<1>1. \A i \in DOMAIN log[t] : log[t][i] \in fired \cup {Other}
  BY DEF LogTrue
<1>. QED
  BY <1>1 DEF Recent

LEMMA SafeFilter == ASSUME TypeInv, Safe, NEW w \in Runners, Filter(w) PROVE Safe'
<1>1. UNCHANGED outcome /\ pc[w] = "filtering"
  BY DEF Filter
<1>2. CASE Fresh(w) = {}
  <2>1. Through(w)
    BY <1>2 DEF Filter
  <2>. QED
    BY <1>1, <2>1, ThroughEffect, SafeQuiet
<1>3. CASE Fresh(w) # {}
  <2>1. /\ due'[w] = Fresh(w)
        /\ \A v \in Runners \ {w} : due'[v] = due[v] /\ pc'[v] = pc[v]
    BY <1>3 DEF Filter, TypeInv, TypeOK
  <2>2. fired' = fired /\ raced' = raced /\ evicted' = evicted
    BY <1>1 DEF outcome
  <2>3. tenant[w] \in Tenants /\ \A r \in due[w] : TenantOf[r[1]] = tenant[w]
    BY <1>1 DEF TypeInv, Placed, PlacedAt
  <2>4. Recent(log[tenant[w]]) \subseteq fired
    BY <2>3, RecentFired DEF Safe, World
  <2>5. DueClimbs(w)'
    BY <2>1, <2>2, <2>4 DEF Safe, DueClimbs, Fresh
  <2>6. Excused(w)'
    BY <2>1, <2>2, <2>3 DEF Safe, World, Seen, Excused, Fresh
  <2>7. ASSUME NEW v \in Runners, v # w
        PROVE  DueClimbs(v)' /\ Excused(v)'
    BY <2>1, <2>2, <2>7, RunnerSame DEF Safe
  <2>. QED
    BY <1>1, <2>5, <2>6, <2>7, WorldSame DEF Safe
<1>. QED
  BY <1>2, <1>3

LEMMA SafeTestFire == ASSUME TypeInv, Safe, NEW t \in Tenants, TestFire(t) PROVE Safe'
<1>1. /\ log' = [log EXCEPT ![t] = Appended(@, Other)]
      /\ evicted' = evicted \cup Unseen(t, fired)
      /\ fired' = fired /\ raced' = raced /\ repeated' = repeated /\ pc' = pc /\ due' = due
  BY DEF TestFire, locals
<1>2. LogTrue'
  BY <1>1, LogAppended DEF Safe, World
<1>3. ASSUME NEW q \in fired
      PROVE  q \in Recent(log'[TenantOf[q[1]]]) \cup evicted'
  <2>1. CASE TenantOf[q[1]] = t
    BY <1>1, <2>1 DEF Unseen
  <2>2. CASE TenantOf[q[1]] # t
    <3>1. TenantOf[q[1]] \in Tenants
      BY TenantsAssumption DEF TypeInv, TypeOK, Refs
    <3>2. log'[TenantOf[q[1]]] = log[TenantOf[q[1]]]
      BY <1>1, <2>2, <3>1 DEF TypeInv, TypeOK
    <3>. QED
      BY <1>1, <3>2 DEF Safe, World, Seen
  <2>. QED
    BY <2>1, <2>2
<1>4. World'
  BY <1>1, <1>2, <1>3 DEF Safe, World, Seen, LadderClimbed, OncePerLevel
<1>5. ASSUME NEW v \in Runners
      PROVE  DueClimbs(v)' /\ Excused(v)'
  BY <1>1, <1>5, RunnerSame DEF Safe
<1>. QED
  BY <1>4, <1>5 DEF Safe

LEMMA SafeInit == Init => Safe
<1>. SUFFICES ASSUME Init PROVE Safe
  OBVIOUS
<1>1. log \in [Tenants -> Seq(fired \cup {Other})]
  BY DEF Init
<1>2. \A w \in Runners : due[w] = {}
  BY DEF Init
<1>. QED
  BY <1>1, <1>2 DEF Init, Safe, World, LogTrue, Seen, LadderClimbed, OncePerLevel, DueClimbs, Excused

\* Steps that leave the levels of every runner alone.
LEMMA SafeOthers ==
  ASSUME TypeInv, Safe,
         \/ CmsNext /\ UNCHANGED <<locals, setup, outcome, upsets>>
         \/ RunTick
         \/ \E t \in Tenants : ListOpen(t)
         \/ \E w \in Requests, t \in Tenants, asked \in SUBSET Cases : Request(w, t, asked)
         \/ \E w \in Runners : Scenarios(w)
         \/ \E t \in Tenants, p \in Priorities : EditScenario(t, p)
         \/ \E r \in RuleIds : EditRule(r)
         \/ UNCHANGED vars
  PROVE  Safe'
<1>1. UNCHANGED outcome /\ due' = due
  BY DEF RunTick, ListOpen, Request, Scenarios, EditScenario, EditRule, locals, vars
<1>2. \/ pc' = pc
      \/ \E w \in Runners : \E label \in States \ {"sending"} : pc' = [pc EXCEPT ![w] = label]
  BY DEF RunTick, ListOpen, Request, Scenarios, EditScenario, EditRule, locals, vars, Runners, States
<1>3. \A v \in Runners : pc'[v] = "sending" => pc[v] = "sending"
  BY <1>2 DEF TypeInv, TypeOK
<1>. QED
  BY <1>1, <1>3, SafeQuiet

LEMMA SafeStep == ASSUME TypeInv, Safe, [Next]_vars PROVE Safe'
<1>1. Cron \in Runners /\ Requests \subseteq Runners
  BY DEF Runners
<1>2. ASSUME NEW w \in Runners, RunnerStep(w)
      PROVE  Safe'
  BY <1>2, SafeOthers, SafeResolve, SafeFilter, SafeSend DEF RunnerStep
<1>3. ASSUME CronStep
      PROVE  Safe'
  BY <1>1, <1>2, <1>3, SafeOthers DEF CronStep
<1>4. ASSUME NEW w \in Requests,
             RunnerStep(w) \/ \E t \in Tenants, asked \in SUBSET Cases : Request(w, t, asked)
      PROVE  Safe'
  BY <1>1, <1>2, <1>4, SafeOthers
<1>. QED
  BY <1>3, <1>4, SafeOthers, SafeFail, SafeTestFire DEF Next

LEMMA SafeInvariant == Spec => []Safe
BY TypeInvariant, SafeInit, SafeStep, PTL DEF Spec

\* No level of a case fires before the levels below it, whatever rules were
\* edited, dispatches failed, or ticks ran beside one another.
THEOREM LadderAlwaysClimbed == Spec => []LadderClimbed
<1>1. Safe => LadderClimbed
  BY DEF Safe, World
<1>. QED
  BY <1>1, SafeInvariant, PTL

\* A level of a case fires again only when two runners dispatched it side by
\* side, or its entry left the part of the log that the filter reads.
THEOREM OnceUnlessExcused == Spec => []OncePerLevel
<1>1. Safe => OncePerLevel
  BY DEF Safe, World
<1>. QED
  BY <1>1, SafeInvariant, PTL

-----------------------------------------------------------------------------
\* The worker over the store.

\* The worker reads the case store and never writes it: with runners, edits and
\* failures beside it, the store does what CmsCases says it does alone.
THEOREM WorkerKeepsStore == Spec => CmsSpec
<1>1. Init => CmsInit
  BY DEF Init
<1>2. ASSUME NEW w \in Runners, RunnerStep(w) \/ Fail(w)
      PROVE  UNCHANGED <<cmsVars, now>>
  BY <1>2 DEF RunnerStep, Scenarios, Resolve, Filter, Send, Fail
<1>3. ASSUME CronStep
      PROVE  UNCHANGED <<cmsVars, now>>
  <2>1. Cron \in Runners
    BY DEF Runners
  <2>. QED
    BY <1>2, <1>3, <2>1 DEF CronStep, RunTick, ListOpen
<1>4. ASSUME NEW w \in Requests,
             RunnerStep(w) \/ \E t \in Tenants, asked \in SUBSET Cases : Request(w, t, asked)
      PROVE  UNCHANGED <<cmsVars, now>>
  BY <1>2, <1>4 DEF Request, Runners
<1>5. [Next]_vars => [CmsNext]_<<cmsVars, now>>
  BY <1>2, <1>3, <1>4 DEF Next, TestFire, EditScenario, EditRule, vars
<1>. QED
  BY <1>1, <1>5, PTL DEF Spec, CmsSpec

=============================================================================
