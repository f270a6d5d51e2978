------------------------- MODULE AlertIntakeProofs -------------------------
(***************************************************************************)
(* Theorems about AlertIntake, for every number of firings, tenants,       *)
(* analysts, overlapping calls, messages and crashes.                      *)
(*                                                                         *)
(* What an entry went through survives a restart because the file has the  *)
(* entries as they are (saved = entries), and an entry is only made by a   *)
(* call that has come past its producer (the last conjunct of Inv).        *)
(*                                                                         *)
(* What Reload computes is reasoned about as a function of the place: the  *)
(* n-th alert of a bucket in the file (NthPlace), where an append to the   *)
(* file adds one place at the end (PlacesAppend).  FileInv carries it from *)
(* step to step, and with it a restart is a stutter of AlertQueue.         *)
(***************************************************************************)
EXTENDS AlertIntake, FiniteSetTheorems, SequenceTheorems, TLAPS

Typing ==
  /\ call \in [Calls -> Call]
  /\ emitted \in [Alerts -> Nat]
  /\ entries \in [Alerts -> Entry]
  /\ saved = entries
  /\ cursor \in Nat

\* A call that is past the score has an alert of the firing it was given.
CallsHaveAlerts ==
  \A c \in Calls :
    /\ call[c].pc # "idle" => call[c].firing \in Firings
    /\ call[c].pc \in {"emitting", "enqueuing"} => AlertOf(c) \in Alerts

CallsEmitted ==
  \A c \in Calls : call[c].pc = "enqueuing" => emitted[AlertOf(c)] > 0

Inv == Typing /\ CallsHaveAlerts /\ QueuedWasEmitted /\ CallsEmitted

-----------------------------------------------------------------------------
\* The final severity is one of the two it merges.
LEMMA MergeTyped ==
  ASSUME NEW rule \in Severity, NEW level
  PROVE  MergeSeverity(rule, level) \in Severity
<1> DEFINE other == SeverityFromLevel(level)
           Highest(s) == SEVERITY_RANK[s] >= SEVERITY_RANK[rule] /\ SEVERITY_RANK[s] >= SEVERITY_RANK[other]
<1>1. other \in {"high", "medium", "low"}
  BY DEF SeverityFromLevel
<1>2. SEVERITY_RANK[rule] \in Nat /\ SEVERITY_RANK[other] \in Nat
  BY <1>1 DEF Severity, SEVERITY_RANK
<1>3. \E s \in {rule, other} : Highest(s)
  BY <1>2
<1>4. (CHOOSE s \in {rule, other} : Highest(s)) \in {rule, other}
  BY <1>3
<1> QED
  BY <1>1, <1>4 DEF MergeSeverity, Severity

LEMMA InitInv == Init => Inv
BY DEF Init, Inv, Typing, CallsHaveAlerts, CallsEmitted, QueuedWasEmitted, Queued, Call, NoCall, Entry, NoEntry

\* A handler of the queue only changes an entry that is there, to a typed one,
\* and saves it.
LEMMA SaveKeepsInv ==
  ASSUME Inv, NEW a \in Alerts, NEW e \in Entry, Save(a, e), emitted[a] > 0,
         UNCHANGED <<call, emitted>>, cursor' \in Nat
  PROVE  Inv'
<1>1. saved' = entries' /\ entries' \in [Alerts -> Entry]
  BY DEF Save, Inv, Typing
<1>2. QueuedWasEmitted'
  BY DEF Save, Inv, Typing, QueuedWasEmitted, Queued
<1> QED
  BY <1>1, <1>2 DEF Inv, Typing, CallsHaveAlerts, CallsEmitted, AlertOf

\* A call that moves on keeps Inv if what it holds then is in order, and the
\* topic only grows.
LEMMA CallKeepsInv ==
  ASSUME Inv, NEW c \in Calls, NEW r \in Call,
         call' = [call EXCEPT ![c] = r],
         UNCHANGED <<entries, saved, cursor>>,
         emitted' \in [Alerts -> Nat], \A a \in Alerts : emitted'[a] >= emitted[a],
         r.pc # "idle" => r.firing \in Firings,
         r.pc \in {"emitting", "enqueuing"} => <<r.firing, r.severity>> \in Alerts,
         r.pc = "enqueuing" => emitted'[<<r.firing, r.severity>>] > 0
  PROVE  Inv'
<1>1. call' \in [Calls -> Call] /\ call'[c] = r /\ \A d \in Calls \ {c} : call'[d] = call[d]
  BY DEF Inv, Typing
<1>2. Typing'
  BY <1>1 DEF Inv, Typing
<1>3. CallsHaveAlerts'
  BY <1>1 DEF Inv, CallsHaveAlerts, AlertOf
<1>4. QueuedWasEmitted'
  BY DEF Inv, Typing, QueuedWasEmitted, Queued
<1>5. CallsEmitted'
  <2> SUFFICES ASSUME NEW d \in Calls, call'[d].pc = "enqueuing"
               PROVE  emitted'[<<call'[d].firing, call'[d].severity>>] > 0
    BY DEF CallsEmitted, AlertOf
  <2>1. CASE d = c
    BY <1>1, <2>1
  <2>2. CASE d # c
    <3>1. AlertOf(d) \in Alerts /\ emitted[AlertOf(d)] > 0 /\ call'[d] = call[d]
      BY <1>1, <2>2 DEF Inv, CallsHaveAlerts, CallsEmitted
    <3>2. emitted[AlertOf(d)] \in Nat /\ emitted'[AlertOf(d)] \in Nat /\ emitted'[AlertOf(d)] >= emitted[AlertOf(d)]
      BY <3>1 DEF Inv, Typing
    <3> QED
      BY <3>1, <3>2 DEF AlertOf
  <2> QED
    BY <2>1, <2>2
<1> QED
  BY <1>2, <1>3, <1>4, <1>5 DEF Inv

\* A call that ends leaves everything else in order.
LEMMA CallEnds ==
  ASSUME Inv, NEW c \in Calls, call' = [call EXCEPT ![c] = NoCall],
         UNCHANGED <<entries, saved, emitted, cursor>>
  PROVE  Inv'
<1>1. NoCall \in Call /\ NoCall.pc = "idle"
  BY DEF NoCall, Call
<1>2. emitted' \in [Alerts -> Nat] /\ \A a \in Alerts : emitted'[a] >= emitted[a]
  BY DEF Inv, Typing
<1> QED
  BY <1>1, <1>2, CallKeepsInv

\* Publishing an alert adds to its copies.
LEMMA PublishGrows ==
  ASSUME Inv, NEW a \in Alerts, Publish(a)
  PROVE  /\ emitted' \in [Alerts -> Nat]
         /\ \A b \in Alerts : emitted'[b] >= emitted[b]
         /\ emitted'[a] > 0
<1>1. emitted' = [emitted EXCEPT ![a] = @ + 1]
  BY DEF Publish
<1> QED
  BY <1>1 DEF Inv, Typing

\* pullNext() gives a waiting alert to the given user, or to the analyst the
\* cursor points to.
LEMMA PulledIsAssigned ==
  ASSUME Inv, NEW t \in Tenants, NEW u \in Users \cup {None}, PullNext(t, u)
  PROVE  \E a \in Alerts, who \in Users :
           /\ Queued(a) /\ entries[a].tenant = t /\ entries[a].state = "queued"
           /\ Save(a, [entries[a] EXCEPT !.state = "assigned", !.assignee = who])
<1> DEFINE who == IF u # None THEN u ELSE Pool[(cursor % Len(Pool)) + 1]
<1>1. PICK a \in Alerts : /\ Pulled(a, t)
                          /\ u # None \/ Pool # <<>>
                          /\ Save(a, [entries[a] EXCEPT !.state = "assigned", !.assignee = who])
  BY DEF PullNext
<1>2. who \in Users
  <2>1. CASE u # None
    BY <2>1
  <2>2. CASE u = None
    <3>1. Len(Pool) \in Nat \ {0}
      BY <1>1, <2>2, PoolAssumption
    <3>2. (cursor % Len(Pool)) + 1 \in 1 .. Len(Pool)
      BY <3>1 DEF Inv, Typing
    <3> QED
      BY <2>2, <3>2, PoolAssumption
  <2> QED
    BY <2>1, <2>2
<1>3. Queued(a) /\ entries[a].tenant = t /\ entries[a].state = "queued"
  BY <1>1 DEF Pulled, Has
<1> QED
  BY <1>1, <1>2, <1>3

LEMMA InvStep == Inv /\ [Next]_vars => Inv'
<1> SUFFICES ASSUME Inv, [Next]_vars
             PROVE  Inv'
  OBVIOUS
<1>1. /\ emitted \in [Alerts -> Nat]
      /\ \A a \in Alerts : emitted[a] >= emitted[a]
      /\ call \in [Calls -> Call]
      /\ entries \in [Alerts -> Entry]
      /\ cursor \in Nat
  BY DEF Inv, Typing
<1>2. ASSUME NEW c \in Calls, NEW f \in Firings, Evaluate(c, f)
      PROVE  Inv'
  <2> DEFINE r == [pc |-> "scoring", firing |-> f, severity |-> None]
  <2>1. r \in Call
    BY DEF Call
  <2>2. call' = [call EXCEPT ![c] = r] /\ UNCHANGED <<emitted, entries, saved, cursor>>
    BY <1>2 DEF Evaluate, queue
  <2>3. r.pc = "scoring" /\ r.firing = f
    OBVIOUS
  <2> HIDE DEF r
  <2> QED
    BY <1>1, <2>1, <2>2, <2>3, CallKeepsInv
<1>3. ASSUME NEW c \in Calls, NEW level \in Levels, Scored(c, level)
      PROVE  Inv'
  <2> DEFINE f == call[c].firing
             s == MergeSeverity(RuleSeverity[f], level)
             r == [pc |-> "emitting", firing |-> f, severity |-> s]
  <2>1. f \in Firings
    BY <1>3 DEF Scored, Inv, CallsHaveAlerts
  <2>2. s \in Severity /\ <<f, s>> \in Alerts
    BY <2>1, MergeTyped, FiringAssumption DEF Alerts
  <2>3. UNCHANGED <<emitted, entries, saved, cursor>> /\ (call' = [call EXCEPT ![c] = NoCall] \/ call' = [call EXCEPT ![c] = r])
    BY <1>3 DEF Scored, queue
  <2>4. r \in Call /\ r.pc = "emitting" /\ r.firing = f /\ r.severity = s
    BY <2>1, <2>2 DEF Call
  <2> HIDE DEF r, s, f
  <2> QED
    BY <1>1, <2>1, <2>2, <2>3, <2>4, CallEnds, CallKeepsInv
<1>4. ASSUME NEW c \in Calls, Emit(c)
      PROVE  Inv'
  <2> DEFINE r == [call[c] EXCEPT !.pc = "enqueuing"]
  <2>1. call[c] \in Call /\ call[c].firing \in Firings /\ AlertOf(c) \in Alerts
    BY <1>1, <1>4 DEF Emit, Inv, CallsHaveAlerts
  <2>2. r \in Call /\ r.pc = "enqueuing" /\ r.firing = call[c].firing /\ <<r.firing, r.severity>> = AlertOf(c)
    BY <2>1 DEF Call, AlertOf
  <2>3. call' = [call EXCEPT ![c] = r] /\ UNCHANGED <<entries, saved, cursor>>
    BY <1>4 DEF Emit, queue
  <2>4. /\ emitted' \in [Alerts -> Nat]
        /\ \A b \in Alerts : emitted'[b] >= emitted[b]
        /\ emitted'[AlertOf(c)] > 0
    BY <1>4, <2>1, PublishGrows DEF Emit
  <2> HIDE DEF r
  <2> QED
    BY <2>1, <2>2, <2>3, <2>4, CallKeepsInv
<1>5. ASSUME NEW c \in Calls, EmitFails(c)
      PROVE  Inv'
  <2>1. AlertOf(c) \in Alerts
    BY <1>5 DEF EmitFails, Inv, CallsHaveAlerts
  <2>2. emitted' \in [Alerts -> Nat] /\ \A b \in Alerts : emitted'[b] >= emitted[b]
    BY <1>1, <1>5, <2>1, PublishGrows DEF EmitFails
  <2>3. call' = [call EXCEPT ![c] = NoCall] /\ UNCHANGED <<entries, saved, cursor>>
    BY <1>5 DEF EmitFails, queue
  <2>4. NoCall \in Call /\ NoCall.pc = "idle"
    BY DEF NoCall, Call
  <2> QED
    BY <2>2, <2>3, <2>4, CallKeepsInv
<1>6. ASSUME NEW c \in Calls, Enqueue(c)
      PROVE  Inv'
  <2> DEFINE a == AlertOf(c)
             e == [state |-> "queued", tenant |-> TenantOf[a[1]], assignee |-> None]
  <2>1. a \in Alerts /\ emitted[a] > 0 /\ a[1] \in Firings
    BY <1>6 DEF Enqueue, Inv, CallsHaveAlerts, CallsEmitted, AlertOf
  <2>2. call' = [call EXCEPT ![c] = NoCall] /\ UNCHANGED <<emitted, cursor>>
    BY <1>6 DEF Enqueue
  <2>3. CASE UNCHANGED <<entries, saved>>
    BY <2>2, <2>3, CallEnds
  <2>4. CASE Save(a, e)
    <3>1. e \in Entry
      BY <2>1, FiringAssumption DEF Entry, QueueState
    <3>2. saved' = entries' /\ entries' \in [Alerts -> Entry]
      BY <1>1, <2>4, <3>1 DEF Save, Inv, Typing
    <3>3. QueuedWasEmitted'
      <4> SUFFICES ASSUME NEW b \in Alerts, entries'[b].state # "none"
                   PROVE  emitted[b] > 0
        BY <2>2 DEF QueuedWasEmitted, Queued
      <4>1. b = a \/ entries'[b] = entries[b]
        BY <1>1, <2>4 DEF Save
      <4> QED
        BY <2>1, <4>1 DEF Inv, QueuedWasEmitted, Queued
    <3>4. call' \in [Calls -> Call] /\ \A d \in Calls : call'[d] = call[d] \/ call'[d].pc = "idle"
      BY <1>1, <2>2 DEF NoCall, Call
    <3>5. CallsHaveAlerts' /\ CallsEmitted'
      BY <2>2, <3>4 DEF Inv, CallsHaveAlerts, CallsEmitted, AlertOf
    <3> QED
      BY <1>1, <2>2, <3>2, <3>3, <3>4, <3>5 DEF Inv, Typing
  <2> QED
    BY <1>6, <2>3, <2>4 DEF Enqueue
<1>7. ASSUME NEW a \in Alerts, NEW e \in Entry, Queued(a), Save(a, e),
             UNCHANGED <<call, emitted>>, cursor' \in Nat
      PROVE  Inv'
  BY <1>7, SaveKeepsInv DEF Inv, QueuedWasEmitted
<1>8. ASSUME NEW a \in Alerts, NEW t \in Tenants, NEW u \in Users, Assign(a, u, t)
      PROVE  Inv'
  <2>1. [entries[a] EXCEPT !.state = "assigned", !.assignee = u] \in Entry
    BY <1>1 DEF Entry, QueueState
  <2> QED
    BY <1>1, <1>7, <1>8, <2>1 DEF Assign, Has
<1>9. ASSUME NEW a \in Alerts, NEW t \in Tenants, Ack(a, t)
      PROVE  Inv'
  <2>1. [entries[a] EXCEPT !.state = "acked"] \in Entry
    BY <1>1 DEF Entry, QueueState
  <2> QED
    BY <1>1, <1>7, <1>9, <2>1 DEF Ack, Has
<1>10. ASSUME NEW a \in Alerts, NEW t \in Tenants, Close(a, t)
       PROVE  Inv'
  <2>1. [entries[a] EXCEPT !.state = "closed"] \in Entry
    BY <1>1 DEF Entry, QueueState
  <2> QED
    BY <1>1, <1>7, <1>10, <2>1 DEF Close, Has
<1>11. ASSUME NEW t \in Tenants, NEW u \in Users \cup {None}, PullNext(t, u)
       PROVE  Inv'
  <2>1. PICK a \in Alerts, who \in Users :
               Queued(a) /\ Save(a, [entries[a] EXCEPT !.state = "assigned", !.assignee = who])
    BY <1>11, PulledIsAssigned
  <2>2. [entries[a] EXCEPT !.state = "assigned", !.assignee = who] \in Entry
    BY <1>1 DEF Entry, QueueState
  <2>3. cursor' \in Nat /\ UNCHANGED <<call, emitted>>
    <3>1. PICK b \in Alerts :
                 /\ u # None \/ Pool # <<>>
                 /\ cursor' = IF u # None THEN cursor ELSE (cursor + 1) % Len(Pool)
                 /\ UNCHANGED <<call, emitted>>
      BY <1>11 DEF PullNext
    <3>2. Pool # <<>> => Len(Pool) \in Nat \ {0}
      BY PoolAssumption
    <3> QED
      BY <3>1, <3>2 DEF Inv, Typing
  <2> QED
    BY <1>7, <2>1, <2>2, <2>3
<1>12. CASE Restart
  <2>1. call' = [c \in Calls |-> NoCall] /\ UNCHANGED <<entries, saved, emitted>> /\ cursor' = 0
    BY <1>12 DEF Restart, Inv, Typing
  <2>2. NoCall \in Call /\ NoCall.pc = "idle"
    BY DEF NoCall, Call
  <2> QED
    BY <2>1, <2>2 DEF Inv, Typing, CallsHaveAlerts, CallsEmitted, QueuedWasEmitted, Queued
<1>13. CASE UNCHANGED vars
  BY <1>13 DEF vars, Inv, Typing, CallsHaveAlerts, CallsEmitted, QueuedWasEmitted, Queued, AlertOf
<1> QED
  BY <1>2, <1>3, <1>4, <1>5, <1>6, <1>8, <1>9, <1>10, <1>11, <1>12, <1>13 DEF Next

LEMMA InvAlways == Spec => []Inv
BY InitInv, InvStep, PTL DEF Spec

\* Every alert in the queue was published before (evaluator.ts emits, then
\* enqueues), through any overlap, failing producer and restart.
THEOREM QueuedAlwaysEmitted == Spec => []QueuedWasEmitted
BY InvAlways, PTL DEF Inv

-----------------------------------------------------------------------------
\* What a step may do to an entry that is there.
Kept(a) ==
  Queued(a) => /\ entries'[a].tenant = entries[a].tenant
               /\ entries[a].state = "closed" => entries'[a].state = "closed"

\* Saving another state or assignee of an alert that is not closed keeps all.
LEMMA SaveKeeps ==
  ASSUME Inv, NEW a \in Alerts, NEW e, Save(a, e),
         Queued(a) => e.tenant = entries[a].tenant,
         entries[a].state = "closed" => e.state = "closed"
  PROVE  \A b \in Alerts : Kept(b)
<1>1. entries'[a] = e /\ \A b \in Alerts \ {a} : entries'[b] = entries[b]
  BY DEF Save, Inv, Typing
<1> QED
  BY <1>1 DEF Kept

LEMMA StepKeeps == Inv /\ [Next]_vars => \A b \in Alerts : Kept(b)
<1> SUFFICES ASSUME Inv, [Next]_vars
             PROVE  \A b \in Alerts : Kept(b)
  OBVIOUS
<1>1. entries \in [Alerts -> Entry]
  BY DEF Inv, Typing
<1>2. ASSUME entries' = entries
      PROVE  \A b \in Alerts : Kept(b)
  BY <1>2 DEF Kept
<1>3. ASSUME NEW c \in Calls, Enqueue(c)
      PROVE  \A b \in Alerts : Kept(b)
  <2>1. AlertOf(c) \in Alerts
    BY <1>3 DEF Enqueue, Inv, CallsHaveAlerts
  <2>2. CASE Queued(AlertOf(c))
    BY <1>2, <1>3, <2>2 DEF Enqueue
  <2>3. CASE ~Queued(AlertOf(c))
    BY <1>3, <2>1, <2>3, SaveKeeps DEF Enqueue, Queued
  <2> QED
    BY <2>2, <2>3
<1>4. ASSUME NEW a \in Alerts, NEW t \in Tenants,
             (\E u \in Users : Assign(a, u, t)) \/ Ack(a, t) \/ Close(a, t)
      PROVE  \A b \in Alerts : Kept(b)
  <2>1. ASSUME NEW u \in Users, Assign(a, u, t)
        PROVE  \A b \in Alerts : Kept(b)
    <3> DEFINE e == [entries[a] EXCEPT !.state = "assigned", !.assignee = u]
    <3>1. e.tenant = entries[a].tenant
      BY <1>1 DEF Entry
    <3>2. Save(a, e) /\ entries[a].state # "closed"
      BY <2>1 DEF Assign
    <3> HIDE DEF e
    <3> QED
      BY <3>1, <3>2, SaveKeeps
  <2>2. CASE Ack(a, t)
    <3> DEFINE e == [entries[a] EXCEPT !.state = "acked"]
    <3>1. e.tenant = entries[a].tenant
      BY <1>1 DEF Entry
    <3>2. Save(a, e) /\ entries[a].state # "closed"
      BY <2>2 DEF Ack
    <3> HIDE DEF e
    <3> QED
      BY <3>1, <3>2, SaveKeeps
  <2>3. CASE Close(a, t)
    <3> DEFINE e == [entries[a] EXCEPT !.state = "closed"]
    <3>1. e.tenant = entries[a].tenant /\ e.state = "closed"
      BY <1>1 DEF Entry
    <3>2. Save(a, e)
      BY <2>3 DEF Close
    <3> HIDE DEF e
    <3> QED
      BY <3>1, <3>2, SaveKeeps
  <2> QED
    BY <1>4, <2>1, <2>2, <2>3
<1>5. ASSUME NEW t \in Tenants, NEW u \in Users \cup {None}, PullNext(t, u)
      PROVE  \A b \in Alerts : Kept(b)
  <2>1. PICK a \in Alerts, who \in Users :
               /\ entries[a].state = "queued"
               /\ Save(a, [entries[a] EXCEPT !.state = "assigned", !.assignee = who])
    BY <1>5, PulledIsAssigned
  <2> DEFINE e == [entries[a] EXCEPT !.state = "assigned", !.assignee = who]
  <2>2. e.tenant = entries[a].tenant
    BY <1>1 DEF Entry
  <2>3. Save(a, e) /\ entries[a].state # "closed"
    BY <2>1
  <2> HIDE DEF e
  <2> QED
    BY <2>2, <2>3, SaveKeeps
<1>6. ASSUME NEW c \in Calls,
             \/ \E f \in Firings : Evaluate(c, f)
             \/ \E level \in Levels : Scored(c, level)
             \/ Emit(c) \/ EmitFails(c)
      PROVE  \A b \in Alerts : Kept(b)
  BY <1>2, <1>6 DEF Evaluate, Scored, Emit, EmitFails, queue
<1>7. CASE Restart
  BY <1>2, <1>7 DEF Restart, Inv, Typing
<1>8. CASE UNCHANGED vars
  BY <1>2, <1>8 DEF vars
<1> QED
  BY <1>3, <1>4, <1>5, <1>6, <1>7, <1>8 DEF Next

\* A closed alert is never reopened and none changes tenant: queue.ts refuses
\* other tenants and closed alerts, ignores a second enqueue, and reads back
\* what it wrote.
THEOREM ClosedAlertsStayClosed == Spec => ClosedStaysClosed
<1>1. Inv /\ [Next]_vars =>
        [\A a \in Alerts : Queued(a) =>
           /\ entries'[a].tenant = entries[a].tenant
           /\ entries[a].state = "closed" => entries'[a].state = "closed"]_entries
  BY StepKeeps DEF Kept
<1> QED
  BY <1>1, InvAlways, PTL DEF Spec, ClosedStaysClosed

-----------------------------------------------------------------------------
\* What loadFromDisk() reads back for bucket b from the lines s, and the number
\* of its alerts up to a place.
ReadBack(s, b) == [n \in 1 .. Cardinality(Places(s, b)) |-> s[Nth(s, b, n)]]
Rank(s, b, i) == Cardinality({j \in Places(s, b) : j <= i})

\* There is an n-th alert of bucket b for every n up to their number.
Ranked(s, b) ==
  \A n \in 1 .. Cardinality(Places(s, b)) : \E i \in Places(s, b) : Rank(s, b, i) = n

LEMMA PlacesFinite ==
  ASSUME NEW s \in Seq(Alerts), NEW b
  PROVE  /\ Places(s, b) \subseteq 1 .. Len(s) /\ IsFiniteSet(Places(s, b))
         /\ Cardinality(Places(s, b)) \in Nat
         /\ \A i : Rank(s, b, i) \in Nat /\ Rank(s, b, i) <= Cardinality(Places(s, b))
<1>1. Places(s, b) \subseteq 1 .. Len(s)
  BY DEF Places
<1>2. IsFiniteSet(1 .. Len(s))
  BY FS_Interval
<1>3. IsFiniteSet(Places(s, b))
  BY <1>1, <1>2, FS_Subset
<1>4. ASSUME NEW i
      PROVE  Rank(s, b, i) \in Nat /\ Rank(s, b, i) <= Cardinality(Places(s, b))
  <2> DEFINE R == {j \in Places(s, b) : j <= i}
  <2>1. R \subseteq Places(s, b)
    OBVIOUS
  <2>2. IsFiniteSet(R) /\ Cardinality(R) <= Cardinality(Places(s, b))
    BY <1>3, <2>1, FS_Subset
  <2> QED
    BY <2>2, FS_CardinalityType DEF Rank
<1> QED
  BY <1>1, <1>3, <1>4, FS_CardinalityType

\* A new line adds a place to the bucket of its alert, after all others.
LEMMA PlacesAppend ==
  ASSUME NEW s \in Seq(Alerts), NEW a \in Alerts, NEW b
  PROVE  /\ BucketFor(a[2]) # b => Places(Append(s, a), b) = Places(s, b)
         /\ BucketFor(a[2]) = b =>
              /\ Places(Append(s, a), b) = Places(s, b) \cup {Len(s) + 1}
              /\ Cardinality(Places(Append(s, a), b)) = Cardinality(Places(s, b)) + 1
              /\ Rank(Append(s, a), b, Len(s) + 1) = Cardinality(Places(s, b)) + 1
         /\ \A i \in Places(s, b) : Rank(Append(s, a), b, i) = Rank(s, b, i)
<1> DEFINE t == Append(s, a)
           N == Len(s) + 1
<1>1. /\ t \in Seq(Alerts) /\ DOMAIN t = 1 .. N /\ DOMAIN s = 1 .. Len(s) /\ Len(s) \in Nat
      /\ t[N] = a /\ \A i \in 1 .. Len(s) : t[i] = s[i]
  OBVIOUS
<1> HIDE DEF t
<1>2. Places(s, b) \subseteq 1 .. Len(s)
  BY PlacesFinite
<1>3. Places(t, b) = IF BucketFor(a[2]) = b THEN Places(s, b) \cup {N} ELSE Places(s, b)
  BY <1>1 DEF Places
<1>4. ASSUME NEW i \in Places(s, b)
      PROVE  Rank(t, b, i) = Rank(s, b, i)
  <2>1. {j \in Places(t, b) : j <= i} = {j \in Places(s, b) : j <= i}
    BY <1>1, <1>2, <1>3
  <2> QED
    BY <1>1, <1>2, <2>1 DEF Rank
<1>5. ASSUME BucketFor(a[2]) = b
      PROVE  /\ Cardinality(Places(t, b)) = Cardinality(Places(s, b)) + 1
             /\ Rank(t, b, N) = Cardinality(Places(s, b)) + 1
  <2>1. N \notin Places(s, b) /\ IsFiniteSet(Places(s, b))
    BY <1>1, <1>2, PlacesFinite
  <2>2. Cardinality(Places(s, b) \cup {N}) = Cardinality(Places(s, b)) + 1
    BY <2>1, FS_AddElement
  <2>3. {j \in Places(t, b) : j <= N} = Places(s, b) \cup {N}
    BY <1>1, <1>2, <1>3, <1>5
  <2> QED
    BY <1>3, <1>5, <2>2, <2>3 DEF Rank
<1> QED
  BY <1>1, <1>3, <1>4, <1>5 DEF t

\* The n-th place is one of the bucket's, and of rank n.
LEMMA NthPlace ==
  ASSUME NEW s, NEW b, Ranked(s, b), NEW n \in 1 .. Cardinality(Places(s, b))
  PROVE  Nth(s, b, n) \in Places(s, b) /\ Rank(s, b, Nth(s, b, n)) = n
<1>1. \E i \in Places(s, b) : Cardinality({j \in Places(s, b) : j <= i}) = n
  BY DEF Ranked, Rank
<1> QED
  BY <1>1 DEF Nth, Rank

\* Append, written out.
LEMMA AppendAsFunction ==
  ASSUME NEW S, NEW s \in Seq(S), NEW a \in S
  PROVE  Append(s, a) = [n \in 1 .. Len(s) + 1 |-> IF n = Len(s) + 1 THEN a ELSE s[n]]
<1> DEFINE f == [n \in 1 .. Len(s) + 1 |-> IF n = Len(s) + 1 THEN a ELSE s[n]]
<1>1. Len(s) \in Nat /\ \A n \in 1 .. Len(s) : s[n] \in S
  OBVIOUS
<1>2. f \in [1 .. Len(s) + 1 -> S]
  BY <1>1
<1>3. f \in Seq(S) /\ Len(f) = Len(s) + 1
  BY <1>1, <1>2
<1>4. Append(s, a) \in Seq(S) /\ Len(Append(s, a)) = Len(s) + 1
  OBVIOUS
<1>5. \A n \in 1 .. Len(Append(s, a)) : Append(s, a)[n] = f[n]
  BY <1>1, <1>4
<1>6. Append(s, a) = f
  <2> HIDE DEF f
  <2> QED
    BY <1>3, <1>4, <1>5, SeqEqual
<1> QED
  BY <1>6

\* Reading back one more line appends its alert to the list of its bucket.
LEMMA ReadBackAppend ==
  ASSUME NEW s \in Seq(Alerts), NEW a \in Alerts, NEW b, Ranked(s, b)
  PROVE  /\ Ranked(Append(s, a), b)
         /\ ReadBack(s, b) \in Seq(Alerts)
         /\ ReadBack(Append(s, a), b) =
              IF BucketFor(a[2]) = b THEN Append(ReadBack(s, b), a) ELSE ReadBack(s, b)
<1> DEFINE t == Append(s, a)
           N == Len(s) + 1
           C == Cardinality(Places(s, b))
           D == Cardinality(Places(t, b))
<1>1. /\ C \in Nat /\ D = IF BucketFor(a[2]) = b THEN C + 1 ELSE C
      /\ Places(s, b) \subseteq Places(t, b) /\ Places(t, b) \subseteq Places(s, b) \cup {N}
      /\ \A i \in Places(s, b) : /\ Rank(t, b, i) = Rank(s, b, i) /\ t[i] = s[i]
                                /\ Rank(s, b, i) \in Nat /\ Rank(s, b, i) <= C
      /\ t[N] = a
      /\ BucketFor(a[2]) = b => N \in Places(t, b) /\ Rank(t, b, N) = C + 1
      /\ BucketFor(a[2]) # b => Places(t, b) = Places(s, b)
  <2>1. C \in Nat /\ \A i : Rank(s, b, i) \in Nat /\ Rank(s, b, i) <= C
    BY PlacesFinite
  <2>2. \A i \in Places(s, b) : Rank(t, b, i) = Rank(s, b, i)
    BY PlacesAppend
  <2>3. t[N] = a /\ \A i \in Places(s, b) : t[i] = s[i]
    BY PlacesFinite
  <2>4. CASE BucketFor(a[2]) = b
    <3>1. Places(t, b) = Places(s, b) \cup {N} /\ D = C + 1 /\ Rank(t, b, N) = C + 1
      BY <2>4, PlacesAppend
    <3> HIDE DEF t, N, C, D
    <3> QED
      BY <2>1, <2>2, <2>3, <2>4, <3>1
  <2>5. CASE BucketFor(a[2]) # b
    <3>1. Places(t, b) = Places(s, b) /\ D = C
      BY <2>5, PlacesAppend
    <3> HIDE DEF t, N, C, D
    <3> QED
      BY <2>1, <2>2, <2>3, <2>5, <3>1
  <2> QED
    BY <2>4, <2>5
<1>2. Places(s, b) \subseteq 1 .. Len(s) /\ \A i \in Places(s, b) : s[i] \in Alerts
  BY PlacesFinite
<1> HIDE DEF t
<1>3. Ranked(t, b)
  <2> SUFFICES ASSUME NEW n \in 1 .. D
               PROVE  \E i \in Places(t, b) : Rank(t, b, i) = n
    BY DEF Ranked
  <2>1. CASE n \in 1 .. C
    BY <1>1, <2>1 DEF Ranked
  <2>2. CASE n \notin 1 .. C
    <3>1. BucketFor(a[2]) = b /\ n = C + 1
      BY <1>1, <2>2
    <3> QED
      BY <1>1, <3>1
  <2> QED
    BY <2>1, <2>2
<1>4. ASSUME NEW n \in 1 .. C
      PROVE  t[Nth(t, b, n)] = s[Nth(s, b, n)] /\ s[Nth(s, b, n)] \in Alerts
  <2>1. Nth(s, b, n) \in Places(s, b) /\ Rank(s, b, Nth(s, b, n)) = n
    BY NthPlace
  <2>2. \A i : (i \in Places(t, b) /\ Rank(t, b, i) = n) <=> (i \in Places(s, b) /\ Rank(s, b, i) = n)
    BY <1>1
  <2>3. Nth(t, b, n) = Nth(s, b, n)
    BY <2>2, Zenon DEF Nth, Rank
  <2> QED
    BY <1>1, <1>2, <2>1, <2>3
<1>5. ReadBack(s, b) \in [1 .. C -> Alerts]
  BY <1>4 DEF ReadBack
<1>6. ReadBack(s, b) \in Seq(Alerts) /\ Len(ReadBack(s, b)) = C
  BY <1>1, <1>5
<1>7. CASE BucketFor(a[2]) # b
  BY <1>1, <1>3, <1>4, <1>6, <1>7 DEF ReadBack, t
<1>8. CASE BucketFor(a[2]) = b
  <2>1. Nth(t, b, C + 1) = N
    <3>1. Nth(t, b, C + 1) \in Places(t, b) /\ Rank(t, b, Nth(t, b, C + 1)) = C + 1
      BY <1>1, <1>3, <1>8, NthPlace
    <3> QED
      BY <1>1, <3>1
  <2>2. ReadBack(t, b) = [n \in 1 .. C + 1 |-> t[Nth(t, b, n)]]
    BY <1>1, <1>8 DEF ReadBack
  <2>3. Append(ReadBack(s, b), a) = [n \in 1 .. C + 1 |-> IF n = C + 1 THEN a ELSE ReadBack(s, b)[n]]
    BY <1>6, AppendAsFunction
  <2>4. \A n \in 1 .. C + 1 : t[Nth(t, b, n)] = IF n = C + 1 THEN a ELSE ReadBack(s, b)[n]
    <3> SUFFICES ASSUME NEW n \in 1 .. C + 1
                 PROVE  t[Nth(t, b, n)] = IF n = C + 1 THEN a ELSE ReadBack(s, b)[n]
      OBVIOUS
    <3>1. CASE n = C + 1
      BY <1>1, <2>1, <3>1
    <3>2. CASE n # C + 1
      <4>1. n \in 1 .. C
        BY <1>1, <3>2
      <4>2. ReadBack(s, b)[n] = s[Nth(s, b, n)]
        BY <4>1 DEF ReadBack
      <4> QED
        BY <1>4, <3>2, <4>1, <4>2
    <3> QED
      BY <3>1, <3>2
  <2>5. ReadBack(t, b) = Append(ReadBack(s, b), a)
    BY <2>2, <2>3, <2>4
  <2> QED
    BY <1>3, <1>6, <1>8, <2>5 DEF t
<1> QED
  BY <1>7, <1>8

-----------------------------------------------------------------------------
\* The queue and its file: what the file would give back is the queue as it
\* is, and the bucket lists hold the entries that are there.
FileInv ==
  /\ Inv
  /\ order \in [Bucket -> Seq(Alerts)]
  /\ arrivals \in Seq(Alerts)
  /\ crashes \in 0 .. MaxCrashes
  /\ \A b \in Bucket : Ranked(arrivals, b)
  /\ Reload = order
  /\ IndexExact

\* Every alert belongs to one of the three buckets.
LEMMA BucketTyped ==
  ASSUME NEW a \in Alerts
  PROVE  BucketFor(a[2]) \in Bucket
<1>1. PICK f \in Firings, level \in Levels : a = <<f, MergeSeverity(RuleSeverity[f], level)>>
  BY DEF Alerts
<1>2. a[2] \in Severity
  BY <1>1, MergeTyped, FiringAssumption
<1> QED
  BY <1>2 DEF Severity, BucketFor, Bucket

\* Appending something new to a list without repetitions.
LEMMA AppendNew ==
  ASSUME NEW S, NEW s \in Seq(S), NEW a \in S,
         \A i, j \in DOMAIN s : s[i] = s[j] => i = j,
         a \notin {s[i] : i \in DOMAIN s}
  PROVE  /\ \A i, j \in DOMAIN Append(s, a) : Append(s, a)[i] = Append(s, a)[j] => i = j
         /\ {Append(s, a)[i] : i \in DOMAIN Append(s, a)} = {s[i] : i \in DOMAIN s} \cup {a}
         /\ \A i \in DOMAIN s : i \in DOMAIN Append(s, a) /\ Append(s, a)[i] = s[i]
<1> DEFINE t == Append(s, a)
<1>1. /\ DOMAIN t = 1 .. Len(s) + 1 /\ DOMAIN s = 1 .. Len(s) /\ Len(s) \in Nat
      /\ t[Len(s) + 1] = a /\ \A i \in DOMAIN s : t[i] = s[i]
  OBVIOUS
<1> HIDE DEF t
<1>2. DOMAIN t = DOMAIN s \cup {Len(s) + 1}
  BY <1>1
<1>3. \A i, j \in DOMAIN t : t[i] = t[j] => i = j
  BY <1>1, <1>2
<1>4. {t[i] : i \in DOMAIN t} = {s[i] : i \in DOMAIN s} \cup {a}
  BY <1>1, <1>2
<1> QED
  BY <1>1, <1>2, <1>3, <1>4 DEF t

LEMMA InitFile == Init => FileInv
<1> SUFFICES ASSUME Init
             PROVE  FileInv
  OBVIOUS
<1>1. ASSUME NEW b \in Bucket
      PROVE  Places(arrivals, b) = {} /\ order[b] = <<>>
  BY DEF Init, Places
<1>2. Cardinality({}) = 0
  BY FS_EmptySet
<1>3. \A b \in Bucket : Ranked(arrivals, b)
  <2> SUFFICES ASSUME NEW b \in Bucket
               PROVE  Ranked(arrivals, b)
    OBVIOUS
  <2>1. Cardinality(Places(arrivals, b)) = 0
    BY <1>1, <1>2
  <2>2. 1 .. 0 = {}
    OBVIOUS
  <2> QED
    BY <2>1, <2>2 DEF Ranked
<1>4. Reload = order
  <2>1. Reload = [b \in Bucket |-> [n \in 1 .. 0 |-> arrivals[Nth(arrivals, b, n)]]]
    BY <1>1, <1>2 DEF Reload
  <2>2. \A b \in Bucket : [n \in 1 .. 0 |-> arrivals[Nth(arrivals, b, n)]] = <<>>
    OBVIOUS
  <2> QED
    BY <2>1, <2>2 DEF Init
<1>5. IndexExact
  BY DEF Init, IndexExact, Queued, NoEntry
<1> QED
  BY <1>3, <1>4, <1>5, InitInv, BoundsAssumption DEF Init, FileInv

\* A step that neither makes an entry nor writes a first line.
LEMMA SameAlertsKeepFile ==
  ASSUME FileInv, Inv', UNCHANGED <<order, arrivals>>, crashes' \in 0 .. MaxCrashes,
         \A a \in Alerts : Queued(a)' <=> Queued(a)
  PROVE  FileInv'
<1>1. (\A b \in Bucket : Ranked(arrivals, b))' /\ Reload' = Reload
  BY DEF FileInv, Reload
<1>2. IndexExact'
  BY DEF FileInv, IndexExact
<1> QED
  BY <1>1, <1>2 DEF FileInv

\* A new entry and its first line: the list of its bucket and what would be
\* read back grow by the same alert.
LEMMA NewEntryKeepsFile ==
  ASSUME FileInv, Inv', NEW a \in Alerts, ~Queued(a),
         \A x \in Alerts : Queued(x)' <=> Queued(x) \/ x = a,
         order' = [order EXCEPT ![BucketFor(a[2])] = Append(@, a)],
         arrivals' = Append(arrivals, a), UNCHANGED crashes
  PROVE  /\ FileInv'
         /\ \A b \in Bucket : \A i \in DOMAIN order[b] : i \in DOMAIN order'[b] /\ order'[b][i] = order[b][i]
<1> DEFINE B == BucketFor(a[2])
<1>1. B \in Bucket
  BY BucketTyped
<1>2. /\ order \in [Bucket -> Seq(Alerts)] /\ arrivals \in Seq(Alerts)
      /\ \A b \in Bucket : Ranked(arrivals, b) /\ order[b] = ReadBack(arrivals, b)
  BY DEF FileInv, Reload, ReadBack
<1>3. /\ order' \in [Bucket -> Seq(Alerts)] /\ arrivals' \in Seq(Alerts)
      /\ \A b \in Bucket : order'[b] = IF b = B THEN Append(order[b], a) ELSE order[b]
  BY <1>1, <1>2
<1>4. \A b \in Bucket : Ranked(arrivals', b) /\ ReadBack(arrivals', b) = order'[b]
  BY <1>2, <1>3, ReadBackAppend
<1>5. Reload' = order'
  BY <1>3, <1>4 DEF Reload, ReadBack
<1>6. /\ \A i, j \in DOMAIN order[B] : order[B][i] = order[B][j] => i = j
      /\ {order[B][i] : i \in DOMAIN order[B]} = {x \in Alerts : Queued(x) /\ BucketFor(x[2]) = B}
  BY <1>1 DEF FileInv, IndexExact
<1>7. /\ \A i, j \in DOMAIN order'[B] : order'[B][i] = order'[B][j] => i = j
      /\ {order'[B][i] : i \in DOMAIN order'[B]} = {order[B][i] : i \in DOMAIN order[B]} \cup {a}
      /\ \A i \in DOMAIN order[B] : i \in DOMAIN order'[B] /\ order'[B][i] = order[B][i]
  <2>1. order[B] \in Seq(Alerts) /\ a \notin {order[B][i] : i \in DOMAIN order[B]}
    BY <1>1, <1>2, <1>6
  <2>2. order'[B] = Append(order[B], a)
    BY <1>1, <1>3
  <2> HIDE DEF B
  <2>3. order'[B] \in Seq(Alerts) /\ \A i, j \in DOMAIN order[B] : order[B][i] = order[B][j] => i = j
    BY <1>1, <1>3, <1>6
  <2> QED
    BY <2>1, <2>2, <2>3, AppendNew
<1>8. IndexExact'
  <2> DEFINE Exact(b) == /\ \A i, j \in DOMAIN order'[b] : order'[b][i] = order'[b][j] => i = j
                         /\ {order'[b][i] : i \in DOMAIN order'[b]} =
                              {x \in Alerts : Queued(x)' /\ BucketFor(x[2]) = b}
  <2>1. Exact(B)
    <3>1. {x \in Alerts : Queued(x)' /\ BucketFor(x[2]) = B} =
            {x \in Alerts : Queued(x) /\ BucketFor(x[2]) = B} \cup {a}
      OBVIOUS
    <3> QED
      BY <1>6, <1>7, <3>1, Zenon
  <2>2. ASSUME NEW b \in Bucket, b # B
        PROVE  Exact(b)
    <3>1. {x \in Alerts : Queued(x)' /\ BucketFor(x[2]) = b} = {x \in Alerts : Queued(x) /\ BucketFor(x[2]) = b}
      BY <2>2
    <3>2. /\ \A i, j \in DOMAIN order[b] : order[b][i] = order[b][j] => i = j
          /\ {order[b][i] : i \in DOMAIN order[b]} = {x \in Alerts : Queued(x) /\ BucketFor(x[2]) = b}
      BY DEF FileInv, IndexExact
    <3>3. order'[b] = order[b]
      BY <1>3, <2>2
    <3> QED
      BY <3>1, <3>2, <3>3
  <2>3. \A b \in Bucket : Exact(b)
    <3> HIDE DEF Exact, B
    <3> QED
      BY <2>1, <2>2
  <2> QED
    BY <2>3 DEF IndexExact
<1>9. FileInv'
  BY <1>3, <1>4, <1>5, <1>8 DEF FileInv
<1>10. \A b \in Bucket : \A i \in DOMAIN order[b] : i \in DOMAIN order'[b] /\ order'[b][i] = order[b][i]
  BY <1>3, <1>7
<1> QED
  BY <1>9, <1>10

\* What a step may do to the places in the bucket lists.
PlaceKept(b) == \A i \in DOMAIN order[b] : i \in DOMAIN order'[b] /\ order'[b][i] = order[b][i]

LEMMA FileStep == FileInv /\ [Next]_vars => FileInv' /\ \A b \in Bucket : PlaceKept(b)
<1> SUFFICES ASSUME FileInv, [Next]_vars
             PROVE  FileInv' /\ \A b \in Bucket : PlaceKept(b)
  OBVIOUS
<1>1. Inv' /\ entries \in [Alerts -> Entry] /\ saved = entries /\ crashes \in 0 .. MaxCrashes
  BY InvStep DEF FileInv, Inv, Typing
<1>2. ASSUME UNCHANGED <<order, arrivals>>, crashes' \in 0 .. MaxCrashes,
             \A a \in Alerts : Queued(a)' <=> Queued(a)
      PROVE  FileInv' /\ \A b \in Bucket : PlaceKept(b)
  BY <1>1, <1>2, SameAlertsKeepFile DEF PlaceKept
<1>3. ASSUME NEW a \in Alerts, NEW e, Save(a, e), Queued(a), e.state # "none",
             UNCHANGED <<order, arrivals, crashes>>
      PROVE  FileInv' /\ \A b \in Bucket : PlaceKept(b)
  <2>1. \A x \in Alerts : Queued(x)' <=> Queued(x)
    BY <1>1, <1>3 DEF Save, Queued
  <2> QED
    BY <1>1, <1>2, <1>3, <2>1
<1>4. ASSUME NEW c \in Calls, Enqueue(c)
      PROVE  FileInv' /\ \A b \in Bucket : PlaceKept(b)
  <2> DEFINE a == AlertOf(c)
  <2>1. a \in Alerts
    BY <1>4 DEF Enqueue, FileInv, Inv, CallsHaveAlerts
  <2>2. CASE Queued(a)
    <3>1. UNCHANGED <<entries, order, arrivals, crashes>>
      BY <1>4, <2>2 DEF Enqueue
    <3> QED
      BY <1>1, <1>2, <3>1 DEF Queued
  <2>3. CASE ~Queued(a)
    <3>1. /\ Save(a, [state |-> "queued", tenant |-> TenantOf[a[1]], assignee |-> None])
          /\ order' = [order EXCEPT ![BucketFor(a[2])] = Append(@, a)]
          /\ arrivals' = Append(arrivals, a)
          /\ UNCHANGED crashes
      BY <1>4, <2>3 DEF Enqueue
    <3>2. \A x \in Alerts : Queued(x)' <=> Queued(x) \/ x = a
      BY <1>1, <2>1, <3>1 DEF Save, Queued
    <3> HIDE DEF a
    <3> QED
      BY <1>1, <2>1, <2>3, <3>1, <3>2, NewEntryKeepsFile DEF PlaceKept
  <2> QED
    BY <2>2, <2>3
<1>5. ASSUME NEW a \in Alerts, NEW t \in Tenants, NEW u \in Users, Assign(a, u, t)
      PROVE  FileInv' /\ \A b \in Bucket : PlaceKept(b)
  <2> DEFINE e == [entries[a] EXCEPT !.state = "assigned", !.assignee = u]
  <2>1. e.state # "none"
    BY <1>1 DEF Entry
  <2>2. Save(a, e) /\ Queued(a) /\ UNCHANGED <<order, arrivals, crashes>>
    BY <1>5 DEF Assign, Has
  <2> HIDE DEF e
  <2> QED
    BY <1>3, <2>1, <2>2
<1>6. ASSUME NEW a \in Alerts, NEW t \in Tenants, Ack(a, t)
      PROVE  FileInv' /\ \A b \in Bucket : PlaceKept(b)
  <2> DEFINE e == [entries[a] EXCEPT !.state = "acked"]
  <2>1. e.state # "none"
    BY <1>1 DEF Entry
  <2>2. Save(a, e) /\ Queued(a) /\ UNCHANGED <<order, arrivals, crashes>>
    BY <1>6 DEF Ack, Has
  <2> HIDE DEF e
  <2> QED
    BY <1>3, <2>1, <2>2
<1>7. ASSUME NEW a \in Alerts, NEW t \in Tenants, Close(a, t)
      PROVE  FileInv' /\ \A b \in Bucket : PlaceKept(b)
  <2> DEFINE e == [entries[a] EXCEPT !.state = "closed"]
  <2>1. e.state # "none"
    BY <1>1 DEF Entry
  <2>2. Save(a, e) /\ Queued(a) /\ UNCHANGED <<order, arrivals, crashes>>
    BY <1>7 DEF Close, Has
  <2> HIDE DEF e
  <2> QED
    BY <1>3, <2>1, <2>2
<1>8. ASSUME NEW t \in Tenants, NEW u \in Users \cup {None}, PullNext(t, u)
      PROVE  FileInv' /\ \A b \in Bucket : PlaceKept(b)
  <2>1. UNCHANGED <<order, arrivals, crashes>>
    BY <1>8 DEF PullNext
  <2>2. PICK a \in Alerts, who \in Users :
               Queued(a) /\ Save(a, [entries[a] EXCEPT !.state = "assigned", !.assignee = who])
    BY <1>8, PulledIsAssigned DEF FileInv
  <2> DEFINE e == [entries[a] EXCEPT !.state = "assigned", !.assignee = who]
  <2>3. e.state # "none"
    BY <1>1 DEF Entry
  <2>4. Save(a, e) /\ Queued(a)
    BY <2>2
  <2> HIDE DEF e
  <2> QED
    BY <1>3, <2>1, <2>3, <2>4
<1>9. ASSUME NEW c \in Calls,
             \/ \E f \in Firings : Evaluate(c, f)
             \/ \E level \in Levels : Scored(c, level)
             \/ Emit(c) \/ EmitFails(c)
      PROVE  FileInv' /\ \A b \in Bucket : PlaceKept(b)
  <2>1. UNCHANGED <<entries, order, arrivals, crashes>>
    BY <1>9 DEF Evaluate, Scored, Emit, EmitFails, queue
  <2> QED
    BY <1>1, <1>2, <2>1 DEF Queued
<1>10. CASE Restart
  <2>1. crashes' \in 0 .. MaxCrashes
    BY <1>1, <1>10, BoundsAssumption DEF Restart
  <2>2. entries' = entries /\ order' = order /\ arrivals' = arrivals
    BY <1>1, <1>10 DEF Restart, FileInv
  <2> QED
    BY <1>2, <2>1, <2>2 DEF Queued
<1>11. CASE UNCHANGED vars
  <2>1. UNCHANGED <<entries, order, arrivals, crashes>>
    BY <1>11 DEF vars
  <2> QED
    BY <1>1, <1>2, <2>1 DEF Queued
<1> QED
  BY <1>4, <1>5, <1>6, <1>7, <1>8, <1>9, <1>10, <1>11 DEF Next

LEMMA FileInvAlways == Spec => []FileInv
BY InitFile, FileStep, PTL DEF Spec

\* Every variable holds what the source's types allow, whatever is read back.
THEOREM AlertTypesKept == Spec => []TypeOK
<1>1. FileInv => TypeOK
  BY DEF FileInv, Inv, Typing, TypeOK
<1> QED
  BY <1>1, FileInvAlways, PTL

\* The bucket lists of SmartQueue (byBucket) hold the entries of their bucket,
\* each once, through every race of evaluate() and every loadFromDisk().
THEOREM IndexAlwaysExact == Spec => []IndexExact
BY FileInvAlways, PTL DEF FileInv

\* The file is never behind the memory: an append per operation is enough for
\* loadFromDisk() to rebuild the entries and the bucket lists as they were.
THEOREM FileAlwaysCurrent == Spec => []FileIsCurrent
<1>1. FileInv => FileIsCurrent
  BY DEF FileInv, Inv, Typing, FileIsCurrent
<1> QED
  BY <1>1, FileInvAlways, PTL

\* No alert loses its place in its bucket: enqueue() appends, no handler moves
\* an alert, and a restart puts every one back where it was.
THEOREM PlacesAlwaysKept == Spec => PlacesAreKept
<1>1. FileInv /\ [Next]_vars =>
        [\A b \in Bucket : \A i \in DOMAIN order[b] : i \in DOMAIN order'[b] /\ order'[b][i] = order[b][i]]_order
  BY FileStep DEF PlaceKept
<1> QED
  BY <1>1, FileInvAlways, PTL DEF Spec, PlacesAreKept

-----------------------------------------------------------------------------
(***************************************************************************)
(* The queue implements AlertQueue.  Each step is a step of its own there, *)
(* or leaves what is published, the entries and the lists as they are.     *)
(***************************************************************************)

Published == {a \in Alerts : emitted[a] > 0}

LEMMA QueueStutters ==
  ASSUME Published' = Published, entries' = entries, order' = order
  PROVE  UNCHANGED Queue!vars
BY DEF Queue!vars, Published

\* One more copy on the topic publishes the alert, if it was not before.
LEMMA QueuePublishes ==
  ASSUME Inv, NEW a \in Alerts, Publish(a), UNCHANGED <<entries, order>>
  PROVE  Queue!Next
<1>1. emitted' = [emitted EXCEPT ![a] = @ + 1] /\ emitted \in [Alerts -> Nat]
  BY DEF Publish, Inv, Typing
<1>2. Published' = Published \cup {a}
  BY <1>1 DEF Published
<1>3. Queue!Publish(a)
  BY <1>2 DEF Queue!Publish, Published
<1> QED
  BY <1>3 DEF Queue!Next

\* A handler of an entry that is there.
LEMMA QueueBecomes ==
  ASSUME NEW a \in Alerts, NEW e, Has(a, entries[a].tenant), Save(a, e), UNCHANGED <<emitted, order>>
  PROVE  Queue!Become(a, e)
BY DEF Has, Queued, Save, Queue!Become

LEMMA QueueStep == FileInv /\ [Next]_vars => [Queue!Next]_(Queue!vars)
<1> SUFFICES ASSUME FileInv, [Next]_vars
             PROVE  Queue!Next \/ UNCHANGED Queue!vars
  OBVIOUS
<1>1. Inv
  BY DEF FileInv
<1>2. ASSUME UNCHANGED <<emitted, entries, order>>
      PROVE  UNCHANGED Queue!vars
  BY <1>2, QueueStutters DEF Published
<1>3. ASSUME NEW c \in Calls,
             (\E f \in Firings : Evaluate(c, f)) \/ (\E level \in Levels : Scored(c, level))
      PROVE  UNCHANGED Queue!vars
  BY <1>2, <1>3 DEF Evaluate, Scored, queue
<1>4. ASSUME NEW c \in Calls, Emit(c) \/ EmitFails(c)
      PROVE  Queue!Next \/ UNCHANGED Queue!vars
  <2>1. AlertOf(c) \in Alerts
    BY <1>1, <1>4 DEF Emit, EmitFails, Inv, CallsHaveAlerts
  <2>2. UNCHANGED <<entries, order>> /\ (Publish(AlertOf(c)) \/ UNCHANGED emitted)
    BY <1>4 DEF Emit, EmitFails, queue
  <2> QED
    BY <1>1, <1>2, <2>1, <2>2, QueuePublishes
<1>5. ASSUME NEW c \in Calls, Enqueue(c)
      PROVE  Queue!Next \/ UNCHANGED Queue!vars
  <2> DEFINE a == AlertOf(c)
  <2>1. a \in Alerts /\ emitted[a] > 0
    BY <1>1, <1>5 DEF Enqueue, Inv, CallsHaveAlerts, CallsEmitted
  <2>2. CASE Queued(a)
    BY <1>2, <1>5, <2>2 DEF Enqueue
  <2>3. CASE ~Queued(a)
    <3>1. /\ entries' = [entries EXCEPT ![a] = [state |-> "queued", tenant |-> TenantOf[a[1]], assignee |-> None]]
          /\ order' = [order EXCEPT ![BucketFor(a[2])] = Append(@, a)]
          /\ emitted' = emitted
          /\ entries[a].state = "none"
      BY <1>5, <2>3 DEF Enqueue, Save, Queued
    <3>2. Queue!Enqueue(a)
      BY <2>1, <3>1 DEF Queue!Enqueue
    <3> QED
      BY <2>1, <3>2 DEF Queue!Next
  <2> QED
    BY <2>2, <2>3
<1>6. ASSUME NEW a \in Alerts, NEW t \in Tenants, NEW u \in Users, Assign(a, u, t)
      PROVE  Queue!Next
  <2>1. Queue!Assign(a, u)
    BY <1>6, QueueBecomes DEF Assign, Has, Queue!Assign
  <2> QED
    BY <2>1 DEF Queue!Next
<1>7. ASSUME NEW a \in Alerts, NEW t \in Tenants, Ack(a, t)
      PROVE  Queue!Next
  <2>1. Queue!Ack(a)
    BY <1>7, QueueBecomes DEF Ack, Has, Queue!Ack
  <2> QED
    BY <2>1 DEF Queue!Next
<1>8. ASSUME NEW a \in Alerts, NEW t \in Tenants, Close(a, t)
      PROVE  Queue!Next
  <2>1. Queue!Close(a)
    BY <1>8, QueueBecomes DEF Close, Has, Queue!Close
  <2> QED
    BY <2>1 DEF Queue!Next
<1>9. ASSUME NEW t \in Tenants, NEW u \in Users \cup {None}, PullNext(t, u)
      PROVE  Queue!Next
  <2>1. UNCHANGED <<emitted, order>>
    BY <1>9 DEF PullNext
  <2>2. PICK a \in Alerts, who \in Users :
               /\ Queued(a) /\ entries[a].state = "queued"
               /\ Save(a, [entries[a] EXCEPT !.state = "assigned", !.assignee = who])
    BY <1>1, <1>9, PulledIsAssigned
  <2>3. Queue!Assign(a, who)
    BY <2>1, <2>2, QueueBecomes DEF Has, Queue!Assign
  <2> QED
    BY <2>3 DEF Queue!Next
<1>10. CASE Restart
  <2>1. UNCHANGED <<emitted, entries, order>>
    BY <1>10 DEF Restart, FileInv, Inv, Typing
  <2> QED
    BY <1>2, <2>1
<1>11. CASE UNCHANGED vars
  BY <1>2, <1>11 DEF vars
<1> QED
  BY <1>3, <1>4, <1>5, <1>6, <1>7, <1>8, <1>9, <1>10, <1>11 DEF Next

\* evaluate(), SmartQueue and its file implement a queue that nothing
\* interrupts: no race of calls queues an alert twice or unpublished, and
\* loadFromDisk() gives back the queue as it was.
THEOREM QueueAlwaysImplemented == Spec => QueueImplemented
<1>1. Init => Queue!Init
  BY DEF Init, Queue!Init, NoEntry
<1> QED
  BY <1>1, QueueStep, FileInvAlways, PTL DEF Spec, QueueImplemented, Queue!Spec

-----------------------------------------------------------------------------
\* An entry belongs to the tenant whose firing it is.
Owned == \A a \in Alerts : Queued(a) => entries[a].tenant = TenantOf[a[1]]

\* A call that finds its alert in the queue does not go on to the producer:
\* an alert that is queued is published again only by calls already past
\* that look.
DuplicatesSkipped ==
  [][\A c \in Calls :
       call[c].pc = "scoring" /\ call'[c].pc = "emitting" =>
         ~Queued(<<call'[c].firing, call'[c].severity>>)]_call

\* It is enough to look at the steps of the abstract queue.
LEMMA OwnedStep == FileInv /\ Owned /\ [Next]_vars => Owned'
<1> SUFFICES ASSUME FileInv, Owned, [Next]_vars
             PROVE  Owned'
  OBVIOUS
<1>1. entries \in [Alerts -> Entry]
  BY DEF FileInv, Inv, Typing
<1>2. ASSUME NEW a \in Alerts, NEW e, entries' = [entries EXCEPT ![a] = e],
             e.tenant = TenantOf[a[1]]
      PROVE  Owned'
  BY <1>1, <1>2 DEF Owned, Queued
<1>3. ASSUME NEW a \in Alerts, Queue!Enqueue(a)
      PROVE  Owned'
  <2> DEFINE e == [state |-> "queued", tenant |-> TenantOf[a[1]], assignee |-> None]
  <2>1. entries' = [entries EXCEPT ![a] = e] /\ e.tenant = TenantOf[a[1]]
    BY <1>3 DEF Queue!Enqueue
  <2> HIDE DEF e
  <2> QED
    BY <1>2, <2>1
<1>4. ASSUME NEW a \in Alerts, NEW e, Queue!Become(a, e), e.tenant = entries[a].tenant
      PROVE  Owned'
  BY <1>2, <1>4 DEF Queue!Become, Owned, Queued
<1>5. ASSUME NEW a \in Alerts, Queue!Ack(a) \/ Queue!Close(a) \/ \E u \in Users : Queue!Assign(a, u)
      PROVE  Owned'
  <2>1. \A s : [entries[a] EXCEPT !.state = s].tenant = entries[a].tenant
    BY <1>1 DEF Entry
  <2>2. \A s, u : [entries[a] EXCEPT !.state = s, !.assignee = u].tenant = entries[a].tenant
    BY <1>1 DEF Entry
  <2> QED
    BY <1>4, <1>5, <2>1, <2>2 DEF Queue!Ack, Queue!Close, Queue!Assign
<1>6. ASSUME entries' = entries
      PROVE  Owned'
  BY <1>6 DEF Owned, Queued
<1>7. ASSUME NEW a \in Alerts, Queue!Publish(a)
      PROVE  Owned'
  BY <1>6, <1>7 DEF Queue!Publish
<1>8. CASE UNCHANGED Queue!vars
  BY <1>6, <1>8 DEF Queue!vars
<1> QED
  BY <1>3, <1>5, <1>7, <1>8, QueueStep DEF Queue!Next

\* "skip duplicate emits" (evaluator.ts) holds of every delivery scored after
\* the alert was queued; the others are those of the finding EmittedOnce.
THEOREM DuplicatesAlwaysSkipped == Spec => DuplicatesSkipped
<1>1. Init => Owned
  BY DEF Init, Owned, Queued, NoEntry
<1>2. FileInv /\ Owned /\ [Next]_vars =>
        [\A c \in Calls :
           call[c].pc = "scoring" /\ call'[c].pc = "emitting" =>
             ~Queued(<<call'[c].firing, call'[c].severity>>)]_call
  <2> SUFFICES ASSUME FileInv, Owned, Next, NEW c \in Calls,
                      call[c].pc = "scoring", call'[c].pc = "emitting"
               PROVE  ~Queued(<<call'[c].firing, call'[c].severity>>)
    BY DEF vars
  <2>1. call \in [Calls -> Call] /\ call[c] # call'[c]
    BY DEF FileInv, Inv, Typing
  <2>2. \E level \in Levels : Scored(c, level)
    <3>1. ASSUME NEW d \in Calls, Emit(d) \/ EmitFails(d) \/ Enqueue(d) \/ \E f \in Firings : Evaluate(d, f)
          PROVE  FALSE
      <4>1. call'[d].pc \in {"idle", "scoring", "enqueuing"} /\ \A b \in Calls \ {d} : call'[b] = call[b]
        BY <2>1, <3>1 DEF Emit, EmitFails, Enqueue, Evaluate, NoCall, Call
      <4> QED
        BY <2>1, <4>1
    <3>2. ASSUME NEW d \in Calls, d # c, NEW level \in Levels, Scored(d, level)
          PROVE  FALSE
      BY <2>1, <3>2 DEF Scored
    <3>3. ~Restart
      BY DEF Restart, NoCall
    <3>4. ASSUME NEW a \in Alerts, NEW t \in Tenants,
                 Ack(a, t) \/ Close(a, t) \/ \E u \in Users : Assign(a, u, t)
          PROVE  FALSE
      BY <2>1, <3>4 DEF Ack, Close, Assign
    <3>5. ASSUME NEW t \in Tenants, NEW u \in Users \cup {None}, PullNext(t, u)
          PROVE  FALSE
      BY <2>1, <3>5 DEF PullNext
    <3> QED
      BY <3>1, <3>2, <3>3, <3>4, <3>5 DEF Next
  <2>3. PICK level \in Levels : Scored(c, level)
    BY <2>2
  <2> DEFINE f == call[c].firing
             s == MergeSeverity(RuleSeverity[f], level)
  <2>4. f \in Firings /\ <<f, s>> \in Alerts
    BY <2>3 DEF Scored, FileInv, Inv, CallsHaveAlerts, Alerts
  <2>5. ~Has(<<f, s>>, TenantOf[f]) /\ call'[c] = [pc |-> "emitting", firing |-> f, severity |-> s]
    BY <2>1, <2>3 DEF Scored, NoCall
  <2>6. call'[c].firing = f /\ call'[c].severity = s
    BY <2>5
  <2>7. ~Queued(<<f, s>>)
    <3> HIDE DEF s
    <3> QED
      BY <2>4, <2>5 DEF Owned, Has
  <2> QED
    BY <2>6, <2>7
<1>3. Spec => []Owned
  BY <1>1, OwnedStep, FileInvAlways, PTL DEF Spec
<1> QED
  BY <1>2, <1>3, FileInvAlways, PTL DEF Spec, DuplicatesSkipped

=============================================================================
