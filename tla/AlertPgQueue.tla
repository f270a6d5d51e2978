----------------------------- MODULE AlertPgQueue -----------------------------
(***************************************************************************)
(* The alert queue over Postgres                                           *)
(* (services/regulatory-svc/alerts/src/pg_queue.ts).                       *)
(*                                                                         *)
(* Every operation rewrites an entry of the cache and hands the pool one   *)
(* statement, assign() two, without awaiting it.  The pool runs them on a  *)
(* few connections, so they finish in any order within that window; one    *)
(* that fails is logged and forgotten.  The table has no column for the    *)
(* state: init() guesses it from status and assignee.                      *)
(*                                                                         *)
(* The order within a bucket is left out, and with it which alert          *)
(* pullNext() takes: it ends in an assign() of one that is queued.  So are *)
(* outcome and note, which no column holds.  An alert is one tenant's.     *)
(***************************************************************************)
EXTENDS Naturals, FiniteSets

CONSTANTS
  Alerts,      \* alert ids
  Users,       \* analysts
  None,        \* null
  Connections, \* connections of the pool
  MaxTurns,    \* bound: operations that change an entry
  MaxFailures, \* bound: statements that fail
  MaxRestarts  \* bound: deaths of the process

ASSUME ConnectionsAssumption == Connections \in Nat \ {0}
ASSUME NoneAssumption == None \notin Users

VARIABLES
  entries,   \* cache: the entry of each alert, or None
  sent,      \* the statements given to the pool and not finished
  row,       \* app_alerts.alerts
  trail,     \* assigned_to in the newest row about each alert in queue_assignments
  disturbed, \* alerts a statement of which failed, or ran before one it clashes with
  patchy,    \* the same, for ever, with the alerts that lost statements in a death
  turn,      \* operations so far
  failures,  \* statements failed so far
  restarts   \* deaths so far

tables == <<row, trail>>
history == <<disturbed, patchy>>
vars == <<entries, sent, tables, history, turn, failures, restarts>>

QueueState == {"queued", "assigned", "acked", "closed"}
Entry == [state : QueueState, assignee : Users \cup {None}, acked : BOOLEAN] \* acked: acked_at is set
Row == [status : {"open", "acked", "closed"}, assignee : Users \cup {None}, acked : BOOLEAN]
ASSUME RecordsAssumption == None \notin Entry \cup Row

Statement ==
  [ turn  : Nat,
    op    : {"enqueue", "assignee", "assignment", "ack", "close"},
    alert : Alerts,
    user  : Users \cup {None} ]

Init ==
  /\ entries = [a \in Alerts |-> None]
  /\ sent = {}
  /\ row = [a \in Alerts |-> None]
  /\ trail = [a \in Alerts |-> None]
  /\ disturbed = {}
  /\ patchy = {}
  /\ turn = 0
  /\ failures = 0
  /\ restarts = 0

-----------------------------------------------------------------------------
\* The operations of the queue.

Query(op, a, u) == [turn |-> turn + 1, op |-> op, alert |-> a, user |-> u]

\* The entry of alert a becomes e, and the statements are sent.
Turn(a, e, statements) ==
  /\ turn < MaxTurns
  /\ turn' = turn + 1
  /\ entries' = [entries EXCEPT ![a] = e]
  /\ sent' = sent \cup statements
  /\ UNCHANGED <<tables, history, failures, restarts>>

\* requireEntry(), and the refusal of a closed alert.
Open(a) == entries[a] # None /\ entries[a].state # "closed"

\* enqueue(): an alert that is there is left as it is.
Enqueue(a) ==
  /\ entries[a] = None
  /\ Turn(a, [state |-> "queued", assignee |-> None, acked |-> FALSE],
          {Query("enqueue", a, None)})

\* assign(), pullNext(): an acked alert may be assigned too.
Assign(a, u) ==
  /\ Open(a)
  /\ Turn(a, [entries[a] EXCEPT !.state = "assigned", !.assignee = u],
          {Query("assignee", a, u), Query("assignment", a, u)})

\* Seeded fault: a closed alert may be acked.
AckClosed(a) ==
  /\ entries[a] # None
  /\ Turn(a, [entries[a] EXCEPT !.state = IF @ = "closed" THEN @ ELSE "acked", !.acked = TRUE],
          {Query("ack", a, None)})

Ack(a) ==
  /\ Open(a)
  /\ Turn(a, [entries[a] EXCEPT !.state = "acked", !.acked = TRUE], {Query("ack", a, None)})

\* close(): a closed alert may be closed again.
Close(a) ==
  /\ entries[a] # None
  /\ Turn(a, [entries[a] EXCEPT !.state = "closed"], {Query("close", a, None)})

-----------------------------------------------------------------------------
\* The pool and Postgres.

\* s has a connection: fewer statements than there are connections precede it.
OnConnection(s) == s \in sent /\ Cardinality({q \in sent : q.turn < s.turn}) < Connections

\* Statements that write one column, or of which one needs the other's row.
Clash(q, s) == q.op = "enqueue" \/ q.op = s.op \/ {q.op, s.op} = {"ack", "close"}

\* s ends while an earlier statement it clashes with is still in flight.
Overtakes(s) == \E q \in sent : q.alert = s.alert /\ q.turn < s.turn /\ Clash(q, s)

\* s leaves the pool, done or not.
Finish(s, harmful) ==
  /\ sent' = sent \ {s}
  /\ disturbed' = IF harmful THEN disturbed \cup {s.alert} ELSE disturbed
  /\ patchy' = IF harmful THEN patchy \cup {s.alert} ELSE patchy
  /\ UNCHANGED <<entries, turn, restarts>>

\* INSERT of the alert ON CONFLICT DO NOTHING, and of its first assignment.
RunEnqueue(s) ==
  /\ s.op = "enqueue"
  /\ row' = IF row[s.alert] = None
            THEN [row EXCEPT ![s.alert] = [status |-> "open", assignee |-> None, acked |-> FALSE]]
            ELSE row
  /\ trail' = [trail EXCEPT ![s.alert] = None]

\* INSERT of an assignment: refused while the alert has no row (foreign key).
RunAssignment(s) ==
  /\ s.op = "assignment"
  /\ trail' = IF row[s.alert] = None THEN trail ELSE [trail EXCEPT ![s.alert] = s.user]
  /\ UNCHANGED row

\* What the UPDATE s makes of the row r.
Updated(r, s) ==
  CASE s.op = "assignee" -> [r EXCEPT !.assignee = s.user]
    [] s.op = "ack" -> [r EXCEPT !.status = "acked", !.acked = TRUE]
    [] s.op = "close" -> [r EXCEPT !.status = "closed"]

\* UPDATE of the row, if there is one.
RunUpdate(s) ==
  /\ s.op \in {"assignee", "ack", "close"}
  /\ row' = IF row[s.alert] = None THEN row ELSE [row EXCEPT ![s.alert] = Updated(@, s)]
  /\ UNCHANGED trail

RunStatement(s) ==
  /\ OnConnection(s)
  /\ RunEnqueue(s) \/ RunAssignment(s) \/ RunUpdate(s)
  /\ Finish(s, Overtakes(s))
  /\ UNCHANGED failures

\* A statement fails; nobody sends it again.
Fail(s) ==
  /\ OnConnection(s)
  /\ failures < MaxFailures
  /\ failures' = failures + 1
  /\ Finish(s, TRUE)
  /\ UNCHANGED tables

\* Seeded fault: the status is taken for the state.
LoadedStatus(r) ==
  IF r = None THEN None ELSE [state |-> r.status, assignee |-> r.assignee, acked |-> r.acked]

\* What init() makes of a row.
Loaded(r) ==
  IF r = None THEN None
  ELSE [ state    |-> CASE r.status # "open" -> r.status
                        [] r.status = "open" /\ r.assignee # None -> "assigned"
                        [] OTHER -> "queued",
         assignee |-> r.assignee,
         acked    |-> r.acked ]

\* The process dies and init() loads the table. What had no connection yet is
\* gone; what had one has run before the load, or never will.
Restart ==
  /\ restarts < MaxRestarts
  /\ restarts' = restarts + 1
  /\ entries' = [a \in Alerts |-> Loaded(row[a])]
  /\ sent' = {}
  /\ disturbed' = {}
  /\ patchy' = patchy \cup {s.alert : s \in sent}
  /\ UNCHANGED <<tables, turn, failures>>

Next ==
  \/ \E a \in Alerts : Enqueue(a) \/ Ack(a) \/ Close(a)
  \/ \E a \in Alerts, u \in Users : Assign(a, u)
  \/ \E s \in sent : RunStatement(s) \/ Fail(s)
  \/ Restart

Spec == Init /\ [][Next]_vars

-----------------------------------------------------------------------------
\* Every variable has its type.
TypeOK ==
  /\ entries \in [Alerts -> Entry \cup {None}]
  /\ sent \subseteq Statement
  /\ row \in [Alerts -> Row \cup {None}]
  /\ trail \in [Alerts -> Users \cup {None}]
  /\ disturbed \subseteq Alerts
  /\ patchy \subseteq Alerts
  /\ turn \in Nat
  /\ failures \in Nat
  /\ restarts \in Nat

\* The row of an alert with entry e, as the header of pg_queue.ts has it:
\* "Both queued and assigned map to status='open'".
Stored(e) ==
  IF e = None THEN None
  ELSE [ status   |-> IF e.state \in {"queued", "assigned"} THEN "open" ELSE e.state,
         assignee |-> e.assignee,
         acked    |-> e.acked ]

\* assign() leaves the status column as it is.  An alert that was acked before
\* keeps 'acked' there, against the header.
Reassigned(e) == e # None /\ e.state = "assigned" /\ e.acked

\* Nothing about alert a is in flight, or went wrong on its way.
Settled(a) == a \notin disturbed /\ ~\E s \in sent : s.alert = a

\* When the pool has nothing left to do for an alert, none of whose statements
\* failed or ran before one it clashes with, the row has what the entry says
\* (but for the status of one assigned after its ack), and the assignment log
\* ends with the assignee: the two statements of an assign(), and those of
\* later operations, need no other order among them.
RowsSettle ==
  \A a \in Alerts :
    Settled(a) =>
      /\ \/ row[a] = Stored(entries[a])
         \/ Reassigned(entries[a]) /\ row[a] = [Stored(entries[a]) EXCEPT !.status = "acked"]
      /\ a \notin patchy /\ row[a] # None => trail[a] = row[a].assignee

=============================================================================
