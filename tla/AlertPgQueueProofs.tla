-------------------------- MODULE AlertPgQueueProofs --------------------------
(***************************************************************************)
(* Proofs about AlertPgQueue, for every value of its constants.            *)
(*                                                                         *)
(* RowsSettle speaks of alerts with nothing in flight.  OnItsWay says of   *)
(* any moment what the statements in flight will bring, column by column;  *)
(* each step keeps it for the alert it is about and leaves the others.     *)
(* What they bring in the end (Written) is the row the header of           *)
(* pg_queue.ts has for an entry, but for an alert assigned after its ack   *)
(* (WrittenStored), as states, acks and assignees fit (EntriesCoherent).   *)
(* A restart then reads back what was settled, as far as a row can tell    *)
(* (LoadedWritten).                                                        *)
(***************************************************************************)
EXTENDS AlertPgQueue, TLAPS

\* The statements in flight about alert a.
About(a) == {s \in sent : s.alert = a}
Of(a, op) == {s \in About(a) : s.op = op}

\* A statement in flight was sent in some turn so far.
SentTurns == \A s \in sent : s.turn \in 1..turn

\* The status of a row that is not closed says whether it is acked.
Agrees(r) == r.status # "closed" => r.status = IF r.acked THEN "acked" ELSE "open"
RowsAgree == \A a \in Alerts : row[a] # None => Agrees(row[a])

TypeInv == TypeOK /\ SentTurns /\ RowsAgree /\ disturbed \subseteq patchy

LEMMA TypeInit == Init => TypeInv
BY DEF Init, TypeInv, TypeOK, SentTurns, RowsAgree

LEMMA TypeTurn ==
  ASSUME TypeInv, NEW a \in Alerts, NEW e \in Entry, NEW S \in SUBSET Statement,
         \A s \in S : s.turn = turn + 1,
         Turn(a, e, S)
  PROVE  TypeInv'
BY DEF TypeInv, TypeOK, SentTurns, RowsAgree, Turn, tables, history

LEMMA QueryTyped ==
  ASSUME TypeInv, NEW op \in {"enqueue", "assignee", "assignment", "ack", "close"},
         NEW a \in Alerts, NEW u \in Users \cup {None}
  PROVE  Query(op, a, u) \in Statement /\ Query(op, a, u).turn = turn + 1
BY DEF TypeInv, TypeOK, Query, Statement

\* The row an INSERT writes.
OpenRow == [status |-> "open", assignee |-> None, acked |-> FALSE]

LEMMA OpenRowTyped == OpenRow \in Row /\ OpenRow # None /\ Agrees(OpenRow)
<1>1. OpenRow \in Row
  BY DEF OpenRow, Row
<1>. QED
  BY <1>1, RecordsAssumption DEF OpenRow, Agrees

LEMMA TypeRun ==
  ASSUME TypeInv, NEW s \in sent, RunStatement(s) \/ Fail(s)
  PROVE  TypeInv'
<1>0. /\ sent' = sent \ {s}
      /\ UNCHANGED <<entries, turn, restarts>>
      /\ \/ disturbed' = disturbed /\ patchy' = patchy
         \/ disturbed' = disturbed \cup {s.alert} /\ patchy' = patchy \cup {s.alert}
      /\ failures' \in {failures, failures + 1}
      /\ s.alert \in Alerts /\ s.user \in Users \cup {None}
  BY DEF RunStatement, Fail, Finish, TypeInv, TypeOK, Statement
<1>1. /\ row' \in [Alerts -> Row \cup {None}] /\ trail' \in [Alerts -> Users \cup {None}]
      /\ RowsAgree'
  <2>1. CASE RunEnqueue(s)
    <3>1. OpenRow \in Row /\ Agrees(OpenRow)
      BY OpenRowTyped
    <3>. QED
      BY <1>0, <2>1, <3>1 DEF RunEnqueue, OpenRow, TypeInv, TypeOK, RowsAgree
  <2>2. CASE RunAssignment(s)
    BY <1>0, <2>2 DEF RunAssignment, TypeInv, TypeOK, RowsAgree
  <2>3. CASE RunUpdate(s)
    <3>1. ASSUME row[s.alert] # None
          PROVE  Updated(row[s.alert], s) \in Row /\ Agrees(Updated(row[s.alert], s))
      <4>1. row[s.alert] \in Row /\ Agrees(row[s.alert]) /\ s.op \in {"assignee", "ack", "close"}
        BY <1>0, <2>3, <3>1 DEF RunUpdate, TypeInv, TypeOK, RowsAgree
      <4>. QED
        BY <1>0, <4>1 DEF Updated, Agrees, Row
    <3>. QED
      BY <1>0, <2>3, <3>1 DEF RunUpdate, TypeInv, TypeOK, RowsAgree
  <2>4. CASE Fail(s)
    BY <2>4 DEF Fail, tables, TypeInv, TypeOK, RowsAgree
  <2>. QED
    BY <2>1, <2>2, <2>3, <2>4 DEF RunStatement
<1>. QED
  BY <1>0, <1>1 DEF TypeInv, TypeOK, SentTurns

LEMMA LoadedTyped ==
  ASSUME NEW r \in Row \cup {None}
  PROVE  Loaded(r) \in Entry \cup {None} /\ (Loaded(r) = None <=> r = None)
BY RecordsAssumption DEF Loaded, Row, Entry, QueueState

LEMMA TypeRestart ==
  ASSUME TypeInv, Restart
  PROVE  TypeInv'
BY LoadedTyped DEF TypeInv, TypeOK, SentTurns, RowsAgree, Restart, tables, Statement

LEMMA TypeStep == TypeInv /\ [Next]_vars => TypeInv'
<1>. SUFFICES ASSUME TypeInv, [Next]_vars PROVE TypeInv'
  OBVIOUS
<1>0. \A a \in Alerts : entries[a] # None => entries[a] \in Entry
  BY DEF TypeInv, TypeOK
<1>1. ASSUME NEW a \in Alerts, Enqueue(a) \/ Ack(a) \/ Close(a)
      PROVE  TypeInv'
  <2>1. CASE Enqueue(a)
    <3>1. [state |-> "queued", assignee |-> None, acked |-> FALSE] \in Entry
      BY DEF Entry, QueueState
    <3>. QED
      BY <2>1, <3>1, QueryTyped, TypeTurn DEF Enqueue
  <2>2. CASE Ack(a)
    <3>1. [entries[a] EXCEPT !.state = "acked", !.acked = TRUE] \in Entry
      BY <1>0, <2>2 DEF Ack, Open, Entry, QueueState
    <3>. QED
      BY <2>2, <3>1, QueryTyped, TypeTurn DEF Ack
  <2>3. CASE Close(a)
    <3>1. [entries[a] EXCEPT !.state = "closed"] \in Entry
      BY <1>0, <2>3 DEF Close, Entry, QueueState
    <3>. QED
      BY <2>3, <3>1, QueryTyped, TypeTurn DEF Close
  <2>. QED
    BY <1>1, <2>1, <2>2, <2>3
<1>2. ASSUME NEW a \in Alerts, NEW u \in Users, Assign(a, u)
      PROVE  TypeInv'
  <2>1. [entries[a] EXCEPT !.state = "assigned", !.assignee = u] \in Entry
    BY <1>0, <1>2 DEF Assign, Open, Entry, QueueState
  <2>. QED
    BY <1>2, <2>1, QueryTyped, TypeTurn DEF Assign
<1>3. CASE UNCHANGED vars
  BY <1>3 DEF vars, tables, history, TypeInv, TypeOK, SentTurns, RowsAgree
<1>. QED
  BY <1>1, <1>2, <1>3, TypeRun, TypeRestart DEF Next

\* Every variable has its type.
THEOREM TypesKept == Spec => []TypeOK
<1>1. TypeInv => TypeOK
  BY DEF TypeInv
<1>. QED
  BY <1>1, TypeInit, TypeStep, PTL DEF Spec

-----------------------------------------------------------------------------
\* What is on its way.

\* The row of alert a, or the one its INSERT will write.
RowOf(a) == IF row[a] = None THEN OpenRow ELSE row[a]

TrailOf(a) == IF row[a] = None THEN None ELSE trail[a]

\* The newest statement of S names u, or v is u when there is none.
Newest(S, u, v) ==
  IF S = {} THEN v = u ELSE \E s \in S : s.user = u /\ \A q \in S : q = s \/ q.turn < s.turn

\* The INSERT of a, and nothing before it, is in flight while a has no row.
Inserted(a) ==
  /\ entries[a] = None => About(a) = {} /\ row[a] = None
  /\ entries[a] # None => (row[a] = None <=> Of(a, "enqueue") # {})
  /\ \A s \in Of(a, "enqueue"), q \in About(a) : q = s \/ s.turn < q.turn

\* The status is the entry's, or becomes so: no ack comes after a close.
StatusOnItsWay(a) ==
  /\ entries[a].acked <=> RowOf(a).acked \/ Of(a, "ack") # {}
  /\ entries[a].state = "closed" <=> RowOf(a).status = "closed" \/ Of(a, "close") # {}
  /\ RowOf(a).status = "closed" => Of(a, "ack") = {}
  /\ \A s \in Of(a, "ack"), q \in Of(a, "close") : s.turn < q.turn

OnItsWay(a) ==
  /\ Inserted(a)
  /\ entries[a] # None =>
       /\ StatusOnItsWay(a)
       /\ Newest(Of(a, "assignee"), entries[a].assignee, RowOf(a).assignee)

TrailOnItsWay(a) ==
  entries[a] # None => Newest(Of(a, "assignment"), entries[a].assignee, TrailOf(a))

WayInv ==
  /\ TypeInv
  /\ \A a \in Alerts \ disturbed : OnItsWay(a)
  /\ \A a \in Alerts \ patchy : TrailOnItsWay(a)

\* A step that leaves alert a alone.
LEMMA WaySame ==
  ASSUME NEW a, About(a)' = About(a), entries'[a] = entries[a], row'[a] = row[a], trail'[a] = trail[a]
  PROVE  OnItsWay(a)' = OnItsWay(a) /\ TrailOnItsWay(a)' = TrailOnItsWay(a)
BY DEF OnItsWay, TrailOnItsWay, Inserted, StatusOnItsWay, Newest, RowOf, TrailOf, Of

\* A newer statement is the newest.
LEMMA NewestAdded ==
  ASSUME NEW S, NEW s, \A q \in S : q.turn < s.turn, NEW v
  PROVE  Newest(S \cup {s}, s.user, v)
BY DEF Newest

\* What a turn of alert a does.
LEMMA TurnEffect ==
  ASSUME TypeInv, NEW a \in Alerts, NEW e \in Entry, NEW S \in SUBSET Statement,
         \A s \in S : s.alert = a,
         Turn(a, e, S)
  PROVE  /\ entries'[a] = e
         /\ About(a)' = About(a) \cup S
         /\ \A q \in About(a) : q.turn \in Nat /\ q.turn < turn + 1
         /\ UNCHANGED <<row, trail, disturbed, patchy>>
         /\ \A b \in Alerts \ {a} : entries'[b] = entries[b] /\ About(b)' = About(b)
BY DEF TypeInv, TypeOK, SentTurns, Turn, About, tables, history

\* It is enough to look at alert a.
LEMMA WayTurn ==
  ASSUME WayInv, NEW a \in Alerts, NEW e \in Entry, NEW S \in SUBSET Statement,
         \A s \in S : s.alert = a,
         Turn(a, e, S),
         OnItsWay(a) => OnItsWay(a)',
         OnItsWay(a) /\ TrailOnItsWay(a) => TrailOnItsWay(a)',
         TypeInv'
  PROVE  WayInv'
<1>1. UNCHANGED <<row, trail, disturbed, patchy>> /\ disturbed \subseteq patchy
  BY TurnEffect DEF WayInv, TypeInv
<1>2. ASSUME NEW b \in Alerts \ {a}
      PROVE  OnItsWay(b)' = OnItsWay(b) /\ TrailOnItsWay(b)' = TrailOnItsWay(b)
  BY <1>1, TurnEffect, WaySame DEF WayInv
<1>. QED
  BY <1>1, <1>2 DEF WayInv

LEMMA WayEnqueue ==
  ASSUME WayInv, TypeInv', NEW a \in Alerts, Enqueue(a)
  PROVE  WayInv'
<1>. DEFINE e == [state |-> "queued", assignee |-> None, acked |-> FALSE]
            s == Query("enqueue", a, None)
<1>1. e \in Entry /\ s \in Statement /\ s.turn = turn + 1 /\ s.alert = a /\ s.op = "enqueue"
  BY QueryTyped DEF Entry, QueueState, Query, WayInv
<1>2. Turn(a, e, {s}) /\ entries[a] = None
  BY DEF Enqueue
<1>3. e.state = "queued" /\ e.assignee = None /\ e.acked = FALSE /\ e # None
  BY <1>1, RecordsAssumption
<1>. HIDE DEF e, s
<1>4. entries'[a] = e /\ About(a)' = About(a) \cup {s} /\ row' = row /\ trail' = trail
  BY <1>1, <1>2, TurnEffect DEF WayInv
<1>5. ASSUME OnItsWay(a)
      PROVE  OnItsWay(a)' /\ TrailOnItsWay(a)'
  <2>1. About(a) = {} /\ row[a] = None
    BY <1>2, <1>5 DEF OnItsWay, Inserted
  <2>2. Of(a, "enqueue")' = {s} /\ \A op \in {"assignee", "assignment", "ack", "close"} : Of(a, op)' = {}
    BY <1>1, <1>4, <2>1 DEF Of
  <2>3. RowOf(a)' = OpenRow /\ TrailOf(a)' = None
    BY <1>4, <2>1 DEF RowOf, TrailOf
  <2>4. Inserted(a)'
    BY <1>3, <1>4, <2>1, <2>2 DEF Inserted
  <2>5. StatusOnItsWay(a)'
    BY <1>3, <1>4, <2>2, <2>3 DEF StatusOnItsWay, OpenRow
  <2>. QED
    BY <1>3, <1>4, <2>2, <2>3, <2>4, <2>5 DEF OnItsWay, TrailOnItsWay, Newest, OpenRow
<1>. QED
  BY <1>1, <1>2, <1>5, WayTurn

LEMMA WayAssign ==
  ASSUME WayInv, TypeInv', NEW a \in Alerts, NEW u \in Users, Assign(a, u)
  PROVE  WayInv'
<1>. DEFINE e == [entries[a] EXCEPT !.state = "assigned", !.assignee = u]
            s == Query("assignee", a, u)
            r == Query("assignment", a, u)
<1>1. /\ entries[a] \in Entry /\ entries[a] # None /\ entries[a].state # "closed"
      /\ Turn(a, e, {s, r})
  BY DEF Assign, Open, WayInv, TypeInv, TypeOK
<1>2. /\ e \in Entry /\ e.state = "assigned" /\ e.assignee = u /\ e.acked = entries[a].acked
      /\ e # None
  BY <1>1, RecordsAssumption DEF Entry, QueueState
<1>3. /\ {s, r} \in SUBSET Statement
      /\ s.turn = turn + 1 /\ s.alert = a /\ s.op = "assignee" /\ s.user = u
      /\ r.turn = turn + 1 /\ r.alert = a /\ r.op = "assignment" /\ r.user = u
  BY QueryTyped DEF Query, WayInv
<1>. HIDE DEF e, s, r
<1>4. /\ entries'[a] = e /\ About(a)' = About(a) \cup {s, r} /\ row' = row /\ trail' = trail
      /\ \A q \in About(a) : q.turn \in Nat /\ q.turn < turn + 1
  BY <1>1, <1>2, <1>3, TurnEffect DEF WayInv
<1>5. /\ \A op \in {"enqueue", "ack", "close"} : Of(a, op)' = Of(a, op)
      /\ Of(a, "assignee")' = Of(a, "assignee") \cup {s}
      /\ Of(a, "assignment")' = Of(a, "assignment") \cup {r}
  BY <1>3, <1>4 DEF Of
<1>6. RowOf(a)' = RowOf(a) /\ TrailOf(a)' = TrailOf(a)
  BY <1>4 DEF RowOf, TrailOf
<1>7. ASSUME OnItsWay(a)
      PROVE  OnItsWay(a)'
  <2>1. Inserted(a)'
    BY <1>1, <1>2, <1>3, <1>4, <1>5, <1>7 DEF OnItsWay, Inserted, Of
  <2>2. StatusOnItsWay(a)'
    BY <1>1, <1>2, <1>4, <1>5, <1>6, <1>7 DEF OnItsWay, StatusOnItsWay
  <2>3. Newest(Of(a, "assignee"), entries[a].assignee, RowOf(a).assignee)'
    <3>1. \A q \in Of(a, "assignee") : q.turn < s.turn
      BY <1>3, <1>4 DEF Of
    <3>2. Newest(Of(a, "assignee") \cup {s}, u, RowOf(a).assignee)
      BY <1>3, <3>1, NewestAdded
    <3>. QED
      BY <1>2, <1>4, <1>5, <1>6, <3>2 DEF Newest
  <2>. QED
    BY <2>1, <2>2, <2>3 DEF OnItsWay
<1>8. TrailOnItsWay(a)'
  <2>1. \A q \in Of(a, "assignment") : q.turn < r.turn
    BY <1>3, <1>4 DEF Of
  <2>2. Newest(Of(a, "assignment") \cup {r}, u, TrailOf(a))
    BY <1>3, <2>1, NewestAdded
  <2>. QED
    BY <1>2, <1>4, <1>5, <1>6, <2>2 DEF TrailOnItsWay, Newest
<1>. QED
  BY <1>1, <1>2, <1>3, <1>7, <1>8, WayTurn

\* ack() and close() of alert a, whose entry becomes e.
LEMMA WayStatus ==
  ASSUME WayInv, TypeInv', NEW a \in Alerts, Ack(a) \/ Close(a)
  PROVE  WayInv'
<1>. DEFINE e == IF Ack(a) THEN [entries[a] EXCEPT !.state = "acked", !.acked = TRUE]
                 ELSE [entries[a] EXCEPT !.state = "closed"]
            s == Query(IF Ack(a) THEN "ack" ELSE "close", a, None)
<1>1. /\ entries[a] \in Entry /\ entries[a] # None
      /\ Ack(a) => entries[a].state # "closed"
      /\ Turn(a, e, {s})
  BY DEF Ack, Close, Open, WayInv, TypeInv, TypeOK
<1>2. /\ e \in Entry /\ e.assignee = entries[a].assignee /\ e # None
      /\ Ack(a) => e.state = "acked" /\ e.acked = TRUE
      /\ ~Ack(a) => e.state = "closed" /\ e.acked = entries[a].acked
  BY <1>1, RecordsAssumption DEF Entry, QueueState
<1>3. /\ s \in Statement /\ s.turn = turn + 1 /\ s.alert = a
      /\ s.op = IF Ack(a) THEN "ack" ELSE "close"
  BY QueryTyped DEF Query, WayInv
<1>. HIDE DEF e, s
<1>4. /\ entries'[a] = e /\ About(a)' = About(a) \cup {s} /\ row' = row /\ trail' = trail
      /\ \A q \in About(a) : q.turn \in Nat /\ q.turn < turn + 1
  BY <1>1, <1>2, <1>3, TurnEffect DEF WayInv
<1>5. /\ \A op \in {"enqueue", "assignee", "assignment"} : Of(a, op)' = Of(a, op)
      /\ Of(a, "ack")' = IF Ack(a) THEN Of(a, "ack") \cup {s} ELSE Of(a, "ack")
      /\ Of(a, "close")' = IF Ack(a) THEN Of(a, "close") ELSE Of(a, "close") \cup {s}
  BY <1>3, <1>4 DEF Of
<1>6. RowOf(a)' = RowOf(a) /\ TrailOf(a)' = TrailOf(a)
  BY <1>4 DEF RowOf, TrailOf
<1>7. ASSUME OnItsWay(a)
      PROVE  OnItsWay(a)'
  <2>1. Inserted(a)'
    BY <1>1, <1>2, <1>3, <1>4, <1>5, <1>7 DEF OnItsWay, Inserted, Of
  <2>2. StatusOnItsWay(a)
    BY <1>1, <1>7 DEF OnItsWay
  <2>3. StatusOnItsWay(a)'
    <3>1. CASE Ack(a)
      BY <1>1, <1>2, <1>3, <1>4, <1>5, <1>6, <2>2, <3>1 DEF StatusOnItsWay, Of
    <3>2. CASE ~Ack(a)
      BY <1>1, <1>2, <1>3, <1>4, <1>5, <1>6, <2>2, <3>2 DEF StatusOnItsWay, Of
    <3>. QED
      BY <3>1, <3>2
  <2>. QED
    BY <1>1, <1>2, <1>4, <1>5, <1>6, <1>7, <2>1, <2>3 DEF OnItsWay, Newest
<1>8. TrailOnItsWay(a) => TrailOnItsWay(a)'
  BY <1>1, <1>2, <1>4, <1>5, <1>6 DEF TrailOnItsWay, Newest
<1>. QED
  BY <1>1, <1>2, <1>3, <1>7, <1>8, WayTurn

-----------------------------------------------------------------------------
\* A statement that runs in its place.

\* s is not overtaking: what it clashes with comes after it.
LEMMA InPlace ==
  ASSUME TypeInv, NEW s \in sent, ~Overtakes(s), NEW q \in sent, q.alert = s.alert, Clash(q, s)
  PROVE  s.turn <= q.turn
BY DEF Overtakes, TypeInv, TypeOK, SentTurns

\* The first of S ran: what it brought is current until the next one.
LEMMA NewestRun ==
  ASSUME NEW S, NEW s \in S, NEW u, NEW v, Newest(S, u, v),
         \A q \in S : q.turn \in Nat /\ s.turn <= q.turn
  PROVE  Newest(S \ {s}, u, s.user)
BY DEF Newest

LEMMA RunAbout ==
  ASSUME TypeInv, NEW s \in sent, RunStatement(s), ~Overtakes(s)
  PROVE  /\ s.alert \in Alerts /\ s.user \in Users \cup {None} /\ s.turn \in Nat
         /\ s \in About(s.alert) /\ s \in Of(s.alert, s.op)
         /\ entries' = entries
         /\ About(s.alert)' = About(s.alert) \ {s}
         /\ Of(s.alert, s.op)' = Of(s.alert, s.op) \ {s}
         /\ \A op : op # s.op => Of(s.alert, op)' = Of(s.alert, op)
         /\ \A q \in About(s.alert) : q.turn \in Nat /\ (Clash(q, s) => s.turn <= q.turn)
BY InPlace DEF RunStatement, Finish, About, Of, TypeInv, TypeOK, SentTurns, Statement

LEMMA WayRunEnqueue ==
  ASSUME TypeInv, NEW s \in sent, RunStatement(s), RunEnqueue(s), ~Overtakes(s), OnItsWay(s.alert)
  PROVE  OnItsWay(s.alert)' /\ (TrailOnItsWay(s.alert) => TrailOnItsWay(s.alert)')
<1>. DEFINE a == s.alert
<1>1. a \in Alerts /\ s \in Of(a, "enqueue") /\ s \in About(a) /\ s.op = "enqueue"
  BY RunAbout DEF RunEnqueue
<1>2. entries[a] # None /\ row[a] = None
  BY <1>1 DEF OnItsWay, Inserted
<1>3. row'[a] = OpenRow /\ trail'[a] = None
  BY <1>1, <1>2 DEF RunEnqueue, OpenRow, TypeInv, TypeOK
<1>4. row'[a] # None
  BY <1>3, OpenRowTyped
<1>5. RowOf(a)' = RowOf(a) /\ TrailOf(a)' = TrailOf(a)
  BY <1>2, <1>3, <1>4 DEF RowOf, TrailOf
<1>6. Of(a, "enqueue") = {s}
  BY <1>1, RunAbout DEF OnItsWay, Inserted, Of
<1>7. /\ Of(a, "enqueue")' = {} /\ entries' = entries
      /\ \A op \in {"assignee", "assignment", "ack", "close"} : Of(a, op)' = Of(a, op)
  BY <1>1, <1>6, RunAbout
<1>8. Inserted(a)'
  BY <1>2, <1>4, <1>7 DEF Inserted
<1>9. StatusOnItsWay(a)'
  BY <1>2, <1>5, <1>7 DEF StatusOnItsWay, OnItsWay
<1>. QED
  BY <1>2, <1>5, <1>7, <1>8, <1>9 DEF OnItsWay, TrailOnItsWay, Newest

\* An UPDATE or an assignment that is not overtaking finds its row.
LEMMA RowThere ==
  ASSUME TypeInv, NEW s \in sent, RunStatement(s), ~Overtakes(s), s.op # "enqueue",
         Inserted(s.alert)
  PROVE  /\ entries[s.alert] # None /\ row[s.alert] # None /\ row[s.alert] \in Row
         /\ Of(s.alert, "enqueue") = {}
<1>. DEFINE a == s.alert
<1>1. /\ a \in Alerts /\ s \in About(a) /\ s.turn \in Nat
      /\ \A q \in About(a) : q.turn \in Nat /\ (Clash(q, s) => s.turn <= q.turn)
  BY RunAbout
<1>2. ASSUME NEW q \in Of(a, "enqueue")
      PROVE  FALSE
  <2>1. q \in About(a) /\ q.op = "enqueue" /\ q # s
    BY DEF Of
  <2>2. q.turn < s.turn
    BY <1>1, <2>1 DEF Inserted
  <2>. QED
    BY <1>1, <2>1, <2>2 DEF Clash
<1>. QED
  BY <1>1, <1>2 DEF Inserted, TypeInv, TypeOK

LEMMA WayRunAssignment ==
  ASSUME TypeInv, NEW s \in sent, RunStatement(s), RunAssignment(s), ~Overtakes(s),
         OnItsWay(s.alert)
  PROVE  OnItsWay(s.alert)' /\ (TrailOnItsWay(s.alert) => TrailOnItsWay(s.alert)')
<1>. DEFINE a == s.alert
<1>1. /\ a \in Alerts /\ s.op = "assignment" /\ s \in Of(a, "assignment")
      /\ entries' = entries /\ row' = row
      /\ About(a)' = About(a) \ {s}
      /\ Of(a, "assignment")' = Of(a, "assignment") \ {s}
      /\ \A op \in {"enqueue", "assignee", "ack", "close"} : Of(a, op)' = Of(a, op)
  BY RunAbout DEF RunAssignment
<1>2. entries[a] # None /\ row[a] # None
  BY <1>1, RowThere DEF OnItsWay
<1>3. trail'[a] = s.user
  BY <1>1, <1>2 DEF RunAssignment, TypeInv, TypeOK
<1>4. RowOf(a)' = RowOf(a) /\ TrailOf(a)' = s.user
  BY <1>1, <1>2, <1>3 DEF RowOf, TrailOf
<1>5. OnItsWay(a)'
  BY <1>1, <1>2, <1>4 DEF OnItsWay, Inserted, StatusOnItsWay, Newest
<1>6. \A q \in Of(a, "assignment") : q.turn \in Nat /\ s.turn <= q.turn
  BY <1>1, RunAbout DEF Of, Clash
<1>7. ASSUME TrailOnItsWay(a)
      PROVE  TrailOnItsWay(a)'
  <2>1. Newest(Of(a, "assignment") \ {s}, entries[a].assignee, s.user)
    BY <1>1, <1>2, <1>6, <1>7, NewestRun DEF TrailOnItsWay
  <2>. QED
    BY <1>1, <1>4, <2>1 DEF TrailOnItsWay, Newest
<1>. QED
  BY <1>5, <1>7

LEMMA WayRunUpdate ==
  ASSUME TypeInv, NEW s \in sent, RunStatement(s), RunUpdate(s), ~Overtakes(s),
         OnItsWay(s.alert)
  PROVE  OnItsWay(s.alert)' /\ (TrailOnItsWay(s.alert) => TrailOnItsWay(s.alert)')
<1>. DEFINE a == s.alert
<1>1. /\ a \in Alerts /\ s.op \in {"assignee", "ack", "close"} /\ s \in Of(a, s.op)
      /\ s.user \in Users \cup {None}
      /\ entries' = entries /\ trail' = trail
      /\ About(a)' = About(a) \ {s}
      /\ Of(a, s.op)' = Of(a, s.op) \ {s}
      /\ \A op : op # s.op => Of(a, op)' = Of(a, op)
  BY RunAbout DEF RunUpdate
<1>2. entries[a] # None /\ row[a] # None /\ row[a] \in Row
  BY <1>1, RowThere DEF OnItsWay
<1>3. row'[a] = Updated(row[a], s)
  BY <1>1, <1>2 DEF RunUpdate, TypeInv, TypeOK
<1>4. row'[a] \in Row /\ row'[a] # None
  <2>1. Updated(row[a], s) \in Row
    BY <1>1, <1>2 DEF Updated, Row
  <2>. QED
    BY <1>3, <2>1, RecordsAssumption
<1>5. RowOf(a) = row[a] /\ RowOf(a)' = Updated(row[a], s) /\ TrailOf(a)' = TrailOf(a)
  BY <1>1, <1>2, <1>3, <1>4 DEF RowOf, TrailOf
<1>6. Inserted(a)'
  BY <1>1, <1>2, <1>4 DEF OnItsWay, Inserted
<1>7. TrailOnItsWay(a) => TrailOnItsWay(a)'
  BY <1>1, <1>5 DEF TrailOnItsWay, Newest
<1>8. \A q \in About(a) : q.turn \in Nat /\ (Clash(q, s) => s.turn <= q.turn)
  BY RunAbout
<1>9. StatusOnItsWay(a) /\ Newest(Of(a, "assignee"), entries[a].assignee, RowOf(a).assignee)
  BY <1>2 DEF OnItsWay
<1>10. CASE s.op = "assignee"
  <2>1. /\ RowOf(a)'.assignee = s.user
        /\ RowOf(a)'.status = RowOf(a).status /\ RowOf(a)'.acked = RowOf(a).acked
    BY <1>2, <1>5, <1>10 DEF Updated, Row
  <2>2. StatusOnItsWay(a)'
    BY <1>1, <1>9, <1>10, <2>1 DEF StatusOnItsWay
  <2>3. \A q \in Of(a, "assignee") : q.turn \in Nat /\ s.turn <= q.turn
    BY <1>8, <1>10 DEF Of, Clash
  <2>4. Newest(Of(a, "assignee") \ {s}, entries[a].assignee, s.user)
    BY <1>1, <1>9, <1>10, <2>3, NewestRun
  <2>. QED
    BY <1>1, <1>6, <1>7, <1>10, <2>1, <2>2, <2>4 DEF OnItsWay, Newest
<1>11. CASE s.op = "ack"
  <2>1. /\ RowOf(a)'.assignee = RowOf(a).assignee
        /\ RowOf(a)'.status = "acked" /\ RowOf(a)'.acked = TRUE
    BY <1>2, <1>5, <1>11 DEF Updated, Row
  <2>2. StatusOnItsWay(a)'
    BY <1>1, <1>9, <1>11, <2>1 DEF StatusOnItsWay
  <2>. QED
    BY <1>1, <1>6, <1>7, <1>9, <1>11, <2>1, <2>2 DEF OnItsWay, Newest
<1>12. CASE s.op = "close"
  <2>1. /\ RowOf(a)'.assignee = RowOf(a).assignee
        /\ RowOf(a)'.status = "closed" /\ RowOf(a)'.acked = RowOf(a).acked
    BY <1>2, <1>5, <1>12 DEF Updated, Row
  <2>2. Of(a, "ack") = {}
    <3>1. ASSUME NEW q \in Of(a, "ack")
          PROVE  FALSE
      <4>1. q.turn < s.turn
        BY <1>1, <1>9, <1>12 DEF StatusOnItsWay
      <4>2. q.turn \in Nat /\ s.turn \in Nat /\ s.turn <= q.turn
        BY <1>8, <1>12, RunAbout DEF Of, Clash
      <4>. QED
        BY <4>1, <4>2
    <3>. QED
      BY <3>1
  <2>3. StatusOnItsWay(a)'
    BY <1>1, <1>9, <1>12, <2>1, <2>2 DEF StatusOnItsWay
  <2>. QED
    BY <1>1, <1>6, <1>7, <1>9, <1>12, <2>1, <2>3 DEF OnItsWay, Newest
<1>. QED
  BY <1>1, <1>10, <1>11, <1>12

\* A statement leaves the pool; only its alert is concerned, and an alert with
\* a statement that failed or overtook is not spoken of.
LEMMA WayRun ==
  ASSUME WayInv, TypeInv', NEW s \in sent, RunStatement(s) \/ Fail(s)
  PROVE  WayInv'
<1>1. /\ sent' = sent \ {s} /\ entries' = entries /\ s.alert \in Alerts
      /\ disturbed \subseteq disturbed' /\ patchy \subseteq patchy'
      /\ disturbed' \subseteq patchy'
      /\ s.alert \notin disturbed' => RunStatement(s) /\ ~Overtakes(s)
      /\ s.alert \notin patchy' => RunStatement(s) /\ ~Overtakes(s)
  BY DEF RunStatement, Fail, Finish, WayInv, TypeInv, TypeOK, Statement
<1>2. ASSUME NEW b \in Alerts, b # s.alert
      PROVE  OnItsWay(b)' = OnItsWay(b) /\ TrailOnItsWay(b)' = TrailOnItsWay(b)
  <2>1. row'[b] = row[b] /\ trail'[b] = trail[b]
    BY <1>1, <1>2 DEF RunStatement, RunEnqueue, RunAssignment, RunUpdate, Fail, tables,
                      WayInv, TypeInv, TypeOK
  <2>2. About(b)' = About(b)
    BY <1>1, <1>2 DEF About
  <2>. QED
    BY <1>1, <2>1, <2>2, WaySame
<1>3. ASSUME RunStatement(s), ~Overtakes(s), OnItsWay(s.alert)
      PROVE  OnItsWay(s.alert)' /\ (TrailOnItsWay(s.alert) => TrailOnItsWay(s.alert)')
  BY <1>3, WayRunEnqueue, WayRunAssignment, WayRunUpdate DEF RunStatement, WayInv
<1>4. ASSUME NEW b \in Alerts \ disturbed'
      PROVE  OnItsWay(b)'
  BY <1>1, <1>2, <1>3, <1>4 DEF WayInv
<1>5. ASSUME NEW b \in Alerts \ patchy'
      PROVE  TrailOnItsWay(b)'
  BY <1>1, <1>2, <1>3, <1>5 DEF WayInv
<1>. QED
  BY <1>4, <1>5 DEF WayInv

\* Nothing is on its way after a restart: the entries are the rows.
LEMMA WayRestart ==
  ASSUME WayInv, TypeInv', Restart
  PROVE  WayInv'
<1>1. ASSUME NEW a \in Alerts
      PROVE  /\ entries'[a] = Loaded(row[a]) /\ About(a)' = {} /\ \A op : Of(a, op)' = {}
             /\ row'[a] = row[a] /\ trail'[a] = trail[a]
             /\ row[a] = None \/ (row[a] \in Row /\ Agrees(row[a]))
  BY DEF Restart, tables, About, Of, WayInv, TypeInv, TypeOK, RowsAgree
<1>2. ASSUME NEW r \in Row
      PROVE  /\ Loaded(r) # None /\ r # None
             /\ Loaded(r).assignee = r.assignee /\ Loaded(r).acked = r.acked
             /\ Loaded(r).state = "closed" <=> r.status = "closed"
  <2>1. Loaded(r) # None /\ r # None
    BY LoadedTyped, RecordsAssumption
  <2>. QED
    BY <2>1 DEF Loaded, Row
<1>3. ASSUME NEW a \in Alerts
      PROVE  OnItsWay(a)'
  <2>1. CASE row[a] = None
    <3>1. entries'[a] = None
      BY <1>1, <2>1 DEF Loaded
    <3>. QED
      BY <1>1, <2>1, <3>1 DEF OnItsWay, Inserted
  <2>2. CASE row[a] \in Row
    <3>1. RowOf(a)' = row[a]
      BY <1>1, <1>2, <2>2 DEF RowOf
    <3>2. entries'[a] # None /\ Inserted(a)'
      BY <1>1, <1>2, <2>2 DEF Inserted
    <3>3. StatusOnItsWay(a)'
      BY <1>1, <1>2, <2>2, <3>1 DEF StatusOnItsWay
    <3>. QED
      BY <1>1, <1>2, <2>2, <3>1, <3>2, <3>3 DEF OnItsWay, Newest
  <2>. QED
    BY <1>1, <2>1, <2>2
<1>4. ASSUME NEW a \in Alerts \ patchy'
      PROVE  TrailOnItsWay(a)'
  <2>1. a \in Alerts \ patchy /\ a \notin disturbed /\ About(a) = {}
    BY DEF Restart, About, WayInv, TypeInv
  <2>2. OnItsWay(a) /\ TrailOnItsWay(a) /\ \A op : Of(a, op) = {}
    BY <2>1 DEF WayInv, Of
  <2>3. CASE row[a] = None
    BY <1>1, <2>3 DEF Loaded, TrailOnItsWay
  <2>4. CASE row[a] \in Row
    <3>1. entries[a] # None /\ trail[a] = row[a].assignee
      BY <1>2, <2>2, <2>4 DEF OnItsWay, Inserted, TrailOnItsWay, Newest, TrailOf, RowOf
    <3>2. TrailOf(a)' = trail[a] /\ entries'[a].assignee = row[a].assignee
      BY <1>1, <1>2, <2>4 DEF TrailOf
    <3>. QED
      BY <1>1, <3>1, <3>2 DEF TrailOnItsWay, Newest
  <2>. QED
    BY <1>1, <2>3, <2>4
<1>. QED
  BY <1>3, <1>4 DEF WayInv

LEMMA WayInit == Init => WayInv
BY TypeInit DEF Init, WayInv, OnItsWay, TrailOnItsWay, Inserted, About, Of

LEMMA WayStep == WayInv /\ [Next]_vars => WayInv'
<1>. SUFFICES ASSUME WayInv, [Next]_vars PROVE WayInv'
  OBVIOUS
<1>1. TypeInv'
  BY TypeStep DEF WayInv
<1>2. CASE UNCHANGED vars
  <2>1. \A a : OnItsWay(a)' = OnItsWay(a) /\ TrailOnItsWay(a)' = TrailOnItsWay(a)
    BY <1>2, WaySame DEF vars, tables, About
  <2>. QED
    BY <1>1, <1>2, <2>1 DEF vars, history, WayInv
<1>. QED
  BY <1>1, <1>2, WayEnqueue, WayAssign, WayStatus, WayRun, WayRestart DEF Next

\* The row the statements sent for an alert with entry e bring about: no
\* statement takes an ack or a close back.
Written(e) ==
  IF e = None THEN None
  ELSE [ status   |-> IF e.state = "closed" THEN "closed" ELSE IF e.acked THEN "acked" ELSE "open",
         assignee |-> e.assignee,
         acked    |-> e.acked ]

RowsWritten ==
  \A a \in Alerts :
    Settled(a) =>
      /\ row[a] = Written(entries[a])
      /\ a \notin patchy /\ row[a] # None => trail[a] = row[a].assignee

\* An alert with nothing in flight has the row its statements brought about.
LEMMA WaySettles == WayInv => RowsWritten
<1>. SUFFICES ASSUME WayInv, NEW a \in Alerts, Settled(a)
              PROVE  /\ row[a] = Written(entries[a])
                     /\ a \notin patchy /\ row[a] # None => trail[a] = row[a].assignee
  BY DEF RowsWritten
<1>1. OnItsWay(a) /\ About(a) = {} /\ \A op : Of(a, op) = {}
  BY DEF Settled, WayInv, About, Of
<1>2. CASE entries[a] = None
  BY <1>1, <1>2 DEF OnItsWay, Inserted, Written
<1>3. CASE entries[a] # None
  <2>1. row[a] \in Row /\ Agrees(row[a]) /\ row[a] # None /\ RowOf(a) = row[a]
    BY <1>1, <1>3 DEF OnItsWay, Inserted, RowOf, WayInv, TypeInv, TypeOK, RowsAgree
  <2>2. /\ entries[a].assignee = row[a].assignee
        /\ entries[a].acked <=> row[a].acked
        /\ entries[a].state = "closed" <=> row[a].status = "closed"
    BY <1>1, <1>3, <2>1 DEF OnItsWay, StatusOnItsWay, Newest
  <2>3. entries[a] \in Entry
    BY <1>3 DEF WayInv, TypeInv, TypeOK
  <2>4. row[a] = Written(entries[a])
    BY <1>3, <2>1, <2>2, <2>3 DEF Written, Agrees, Row, Entry
  <2>5. ASSUME a \notin patchy
        PROVE  trail[a] = row[a].assignee
    BY <1>1, <1>3, <2>1, <2>2, <2>5 DEF WayInv, TrailOnItsWay, Newest, TrailOf
  <2>. QED
    BY <2>4, <2>5
<1>. QED
  BY <1>2, <1>3

-----------------------------------------------------------------------------
(***************************************************************************)
(* What init() guesses, as the table has no column for the state.          *)
(***************************************************************************)

\* What the operations, and init(), make of an entry: who is told about it
\* and whether it was acked fits its state.
Coherent(e) ==
  /\ e.state = "queued" => e.assignee = None /\ ~e.acked
  /\ e.state = "assigned" => e.assignee # None
  /\ e.state = "acked" => e.acked

EntriesCoherent == \A a \in Alerts : entries[a] # None => Coherent(entries[a])

\* An alert assigned again after its ack comes back as acked; the others as
\* they were.
Restored(e) ==
  IF e # None /\ e.state = "assigned" /\ e.acked THEN [e EXCEPT !.state = "acked"] ELSE e

\* A restart gives back every alert that has nothing in flight and to which
\* nothing went wrong.
RestartRestores ==
  [][Restart => \A a \in Alerts : Settled(a) => entries'[a] = Restored(entries[a])]_vars

\* init() reads off a row the entry it says of, up to an ack that an
\* assignment came after.
LEMMA LoadedWritten ==
  ASSUME NEW e \in Entry, Coherent(e)
  PROVE  Loaded(Written(e)) = Restored(e)
<1>. DEFINE r == [ status   |-> IF e.state = "closed" THEN "closed" ELSE IF e.acked THEN "acked" ELSE "open",
                   assignee |-> e.assignee,
                   acked    |-> e.acked ]
<1>1. Written(e) = r /\ r \in Row /\ r # None /\ e # None
  BY RecordsAssumption DEF Written, Row, Entry
<1>2. Loaded(r) = [ state    |-> IF r.status # "open" THEN r.status
                                 ELSE IF r.assignee # None THEN "assigned" ELSE "queued",
                    assignee |-> e.assignee,
                    acked    |-> e.acked ]
  BY <1>1 DEF Loaded
<1>3. e = [state |-> e.state, assignee |-> e.assignee, acked |-> e.acked]
  BY DEF Entry
<1>4. e.state \in QueueState /\ e.acked \in BOOLEAN
  BY DEF Entry
<1>5. CASE e.state = "closed"
  BY <1>1, <1>2, <1>3, <1>5 DEF Restored
<1>6. CASE e.state = "acked"
  BY <1>1, <1>2, <1>3, <1>6 DEF Restored, Coherent
<1>7. CASE e.state = "queued"
  BY <1>1, <1>2, <1>3, <1>7 DEF Restored, Coherent
<1>8. CASE e.state = "assigned" /\ e.acked
  <2>1. Restored(e) = [state |-> "acked", assignee |-> e.assignee, acked |-> e.acked]
    BY <1>1, <1>8 DEF Restored, Entry
  <2>2. r.status = "acked"
    BY <1>8
  <2>. QED
    BY <1>1, <1>2, <2>1, <2>2
<1>9. CASE e.state = "assigned" /\ ~e.acked
  BY <1>1, <1>2, <1>3, <1>9 DEF Restored, Coherent
<1>. QED
  BY <1>4, <1>5, <1>6, <1>7, <1>8, <1>9 DEF QueueState

\* init() makes coherent entries, also of the rows of an alert to which
\* something went wrong.
LEMMA LoadedCoherent ==
  ASSUME NEW r \in Row, Agrees(r)
  PROVE  Coherent(Loaded(r))
<1>1. r # None
  BY RecordsAssumption
<1>. QED
  BY <1>1 DEF Loaded, Coherent, Agrees, Row

LEMMA CoherentStep == TypeInv /\ EntriesCoherent /\ [Next]_vars => EntriesCoherent'
<1>. SUFFICES ASSUME TypeInv, EntriesCoherent, [Next]_vars
              PROVE  EntriesCoherent'
  OBVIOUS
<1>1. ASSUME NEW a \in Alerts, NEW e, Coherent(e), entries' = [entries EXCEPT ![a] = e]
      PROVE  EntriesCoherent'
  BY <1>1 DEF TypeInv, TypeOK, EntriesCoherent
<1>2. \A a \in Alerts : entries[a] # None => entries[a] \in Entry /\ Coherent(entries[a])
  BY DEF TypeInv, TypeOK, EntriesCoherent
<1>3. ASSUME NEW a \in Alerts, Enqueue(a)
      PROVE  EntriesCoherent'
  BY <1>1, <1>3 DEF Enqueue, Turn, Coherent
<1>4. ASSUME NEW a \in Alerts, NEW u \in Users, Assign(a, u)
      PROVE  EntriesCoherent'
  <2>. DEFINE e == [entries[a] EXCEPT !.state = "assigned", !.assignee = u]
  <2>1. Coherent(e)
    BY <1>2, <1>4, NoneAssumption DEF Assign, Open, Coherent, Entry
  <2>. QED
    BY <1>1, <1>4, <2>1 DEF Assign, Turn
<1>5. ASSUME NEW a \in Alerts, Ack(a)
      PROVE  EntriesCoherent'
  <2>. DEFINE e == [entries[a] EXCEPT !.state = "acked", !.acked = TRUE]
  <2>1. Coherent(e)
    BY <1>2, <1>5 DEF Ack, Open, Coherent, Entry
  <2>. QED
    BY <1>1, <1>5, <2>1 DEF Ack, Turn
<1>6. ASSUME NEW a \in Alerts, Close(a)
      PROVE  EntriesCoherent'
  <2>. DEFINE e == [entries[a] EXCEPT !.state = "closed"]
  <2>1. Coherent(e)
    BY <1>2, <1>6 DEF Close, Coherent, Entry
  <2>. QED
    BY <1>1, <1>6, <2>1 DEF Close, Turn
<1>7. ASSUME NEW s \in sent, RunStatement(s) \/ Fail(s)
      PROVE  EntriesCoherent'
  BY <1>7 DEF RunStatement, Fail, Finish, EntriesCoherent
<1>8. CASE Restart
  <2>1. ASSUME NEW a \in Alerts, entries'[a] # None
        PROVE  Coherent(entries'[a])
    <3>1. entries'[a] = Loaded(row[a]) /\ row[a] # None
      BY <1>8, <2>1 DEF Restart, Loaded
    <3>2. row[a] \in Row /\ Agrees(row[a])
      BY <3>1 DEF TypeInv, TypeOK, RowsAgree
    <3>. QED
      BY <3>1, <3>2, LoadedCoherent
  <2>. QED
    BY <2>1 DEF EntriesCoherent
<1>9. CASE UNCHANGED vars
  BY <1>9 DEF vars, EntriesCoherent
<1>. QED
  BY <1>3, <1>4, <1>5, <1>6, <1>7, <1>8, <1>9 DEF Next

\* The row brought about is the header's, unless an ack came before an
\* assignment.
LEMMA WrittenStored ==
  ASSUME NEW e \in Entry, Coherent(e)
  PROVE  \/ Written(e) = Stored(e)
         \/ Reassigned(e) /\ Written(e) = [Stored(e) EXCEPT !.status = "acked"]
<1>1. e # None /\ e.state \in QueueState /\ e.acked \in BOOLEAN
  BY RecordsAssumption DEF Entry
<1>2. CASE e.state = "closed"
  BY <1>1, <1>2 DEF Written, Stored
<1>3. CASE e.state = "acked"
  BY <1>1, <1>3 DEF Written, Stored, Coherent
<1>4. CASE e.state = "queued" \/ (e.state = "assigned" /\ ~e.acked)
  BY <1>1, <1>4 DEF Written, Stored, Coherent
<1>5. CASE e.state = "assigned" /\ e.acked
  <2>1. /\ Written(e) = [status |-> "acked", assignee |-> e.assignee, acked |-> e.acked]
        /\ Stored(e) = [status |-> "open", assignee |-> e.assignee, acked |-> e.acked]
    BY <1>1, <1>5 DEF Written, Stored
  <2>2. [Stored(e) EXCEPT !.status = "acked"] = Written(e)
    BY <2>1
  <2>. QED
    BY <1>1, <1>5, <2>2 DEF Reassigned
<1>. QED
  BY <1>1, <1>2, <1>3, <1>4, <1>5 DEF QueueState

LEMMA CoherentInit == Init => EntriesCoherent
BY DEF Init, EntriesCoherent

\* The tables agree with the queue on every alert whose statements ran in the
\* order in which those that clash were sent, as the header of pg_queue.ts
\* has it, except for the status of an alert assigned after its ack.
THEOREM RowsAlwaysSettle == Spec => []RowsSettle
<1>1. WayInv /\ EntriesCoherent => RowsSettle
  <2>. SUFFICES ASSUME WayInv, EntriesCoherent, NEW a \in Alerts, Settled(a)
                PROVE  \/ row[a] = Stored(entries[a])
                       \/ Reassigned(entries[a]) /\ row[a] = [Stored(entries[a]) EXCEPT !.status = "acked"]
    BY WaySettles DEF RowsSettle, RowsWritten
  <2>1. row[a] = Written(entries[a])
    BY WaySettles DEF RowsWritten
  <2>2. CASE entries[a] = None
    BY <2>1, <2>2 DEF Written, Stored
  <2>3. CASE entries[a] # None
    <3>1. entries[a] \in Entry /\ Coherent(entries[a])
      BY <2>3 DEF WayInv, TypeInv, TypeOK, EntriesCoherent
    <3>. QED
      BY <2>1, <3>1, WrittenStored
  <2>. QED
    BY <2>2, <2>3
<1>2. WayInv /\ EntriesCoherent /\ [Next]_vars => WayInv' /\ EntriesCoherent'
  BY WayStep, CoherentStep DEF WayInv
<1>. QED
  BY <1>1, <1>2, WayInit, CoherentInit, PTL DEF Spec

\* init() restores each settled alert, except that one which was acked and then
\* assigned comes back acked: the row cannot tell the two (pg_queue.ts).
THEOREM RestartsRestore == Spec => RestartRestores
<1>1. Init => EntriesCoherent
  BY CoherentInit
<1>2. WayInv /\ EntriesCoherent /\ [Next]_vars => WayInv' /\ EntriesCoherent'
  BY WayStep, CoherentStep DEF WayInv
<1>3. WayInv /\ EntriesCoherent =>
        [Restart => \A a \in Alerts : Settled(a) => entries'[a] = Restored(entries[a])]_vars
  <2>. SUFFICES ASSUME WayInv, EntriesCoherent, Restart, NEW a \in Alerts, Settled(a)
                PROVE  entries'[a] = Restored(entries[a])
    OBVIOUS
  <2>1. row[a] = Written(entries[a])
    BY WaySettles DEF RowsWritten
  <2>2. entries'[a] = Loaded(row[a])
    BY DEF Restart
  <2>3. CASE entries[a] = None
    BY <2>1, <2>2, <2>3 DEF Written, Loaded, Restored
  <2>4. CASE entries[a] # None
    <3>1. entries[a] \in Entry /\ Coherent(entries[a])
      BY <2>4 DEF WayInv, TypeInv, TypeOK, EntriesCoherent
    <3>. QED
      BY <2>1, <2>2, <3>1, LoadedWritten
  <2>. QED
    BY <2>3, <2>4
<1>. QED
  BY <1>1, <1>2, <1>3, WayInit, PTL DEF Spec, RestartRestores

=============================================================================
