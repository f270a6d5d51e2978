---------------------------- MODULE AlertIntake ----------------------------
(***************************************************************************)
(* The alerts service (services/regulatory-svc/alerts/src): AlertEvaluator *)
(* in front of the producer and of SmartQueue over its NDJSON file.        *)
(*                                                                         *)
(* evaluate() awaits twice, the score and the producer, and calls overlap: *)
(* a call is in "scoring", then "emitting", then "enqueuing".  The queue's *)
(* own operations do not await, and each appends the entry it changed to   *)
(* the file in the same step.                                              *)
(*                                                                         *)
(* An alert id is a hash of the firing and of the final severity: here the *)
(* pair of them.                                                           *)
(***************************************************************************)
EXTENDS Naturals, Sequences, FiniteSets, Functions

CONSTANTS
  Firings,       \* firing ids of the rule engine
  Tenants,       \* values of X-Tenant-ID
  Users,         \* analysts, as user_id in a request or in the pool
  Calls,         \* requests to /alerts/evaluate that may be in flight at once
  None,          \* undefined
  RuleSeverity,  \* RuleSeverity[f]: the severity in firing f
  TenantOf,      \* TenantOf[f]: the tenant whose rule engine posts firing f
  Levels,        \* what the score service answers: risk levels, None if it fails
  Pool,          \* the analyst pool, a sequence of users
  MaxEmits,      \* bound: messages on the topic
  MaxCrashes     \* bound: deaths of the process

Severity == {"low", "medium", "high", "critical"}
RiskLevel == {"Low", "Medium", "High"}
Bucket == {"critical", "medium", "low"}
QueueState == {"queued", "assigned", "acked", "closed"}

ASSUME NoneAssumption == None \notin Tenants \cup Users \cup RiskLevel
ASSUME FiringAssumption ==
  /\ RuleSeverity \in [Firings -> Severity]
  /\ TenantOf \in [Firings -> Tenants]
ASSUME LevelAssumption == Levels \subseteq RiskLevel \cup {None}
ASSUME PoolAssumption == Pool \in Seq(Users)
ASSUME BoundsAssumption == MaxEmits \in Nat /\ MaxCrashes \in Nat

VARIABLES
  call,      \* call[c]: what call c is doing
  emitted,   \* emitted[a]: copies of alert a on the topic
  entries,   \* entries[a]: the queue entry of alert a, in memory
  order,     \* order[b]: the alerts of bucket b, oldest first
  cursor,    \* rrCursor
  saved,     \* saved[a]: the last line of alert a in the queue file
  arrivals,  \* the alerts in the queue file, by first line
  crashes    \* deaths so far

vars == <<call, emitted, entries, order, cursor, saved, arrivals, crashes>>
queue == <<entries, order, cursor, saved, arrivals>>

Entry == [state : QueueState \cup {"none"}, tenant : Tenants \cup {None}, assignee : Users \cup {None}]

NoEntry == [state |-> "none", tenant |-> None, assignee |-> None]

Queued(a) == entries[a].state # "none"

Call == [pc : {"idle", "scoring", "emitting", "enqueuing"}, firing : Firings \cup {None}, severity : Severity \cup {None}]

NoCall == [pc |-> "idle", firing |-> None, severity |-> None]

AlertOf(c) == <<call[c].firing, call[c].severity>>

-----------------------------------------------------------------------------
SEVERITY_RANK == [low |-> 0, medium |-> 1, high |-> 2, critical |-> 3]

SeverityFromLevel(level) ==
  CASE level = "High" -> "high"
    [] level = "Medium" -> "medium"
    [] OTHER -> "low"

MergeSeverity(rule, level) ==
  CHOOSE s \in {rule, SeverityFromLevel(level)} :
    SEVERITY_RANK[s] >= SEVERITY_RANK[rule] /\ SEVERITY_RANK[s] >= SEVERITY_RANK[SeverityFromLevel(level)]

\* The alerts that firings and scores give rise to.
Alerts == {<<f, MergeSeverity(RuleSeverity[f], level)>> : f \in Firings, level \in Levels}

BucketFor(severity) ==
  IF severity \in {"critical", "high"} THEN "critical" ELSE severity

\* queue.get and requireEntry: another tenant's entry is not found.
Has(a, t) == Queued(a) /\ entries[a].tenant = t

\* The topic takes one more message.
Publish(a) ==
  /\ FoldFunction(+, 0, emitted) < MaxEmits
  /\ emitted' = [emitted EXCEPT ![a] = @ + 1]

\* Every operation ends by appending the changed entry to the file.
Save(a, e) ==
  /\ entries' = [entries EXCEPT ![a] = e]
  /\ saved' = [saved EXCEPT ![a] = e]

-----------------------------------------------------------------------------
Init ==
  /\ call = [c \in Calls |-> NoCall]
  /\ emitted = [a \in Alerts |-> 0]
  /\ entries = [a \in Alerts |-> NoEntry]
  /\ order = [b \in Bucket |-> <<>>]
  /\ cursor = 0
  /\ saved = [a \in Alerts |-> NoEntry]
  /\ arrivals = <<>>
  /\ crashes = 0

\* POST /alerts/evaluate, up to the await of the score.
Evaluate(c, f) ==
  /\ call[c].pc = "idle"
  /\ call' = [call EXCEPT ![c] = [pc |-> "scoring", firing |-> f, severity |-> None]]
  /\ UNCHANGED <<emitted, queue, crashes>>

\* The score is there, or failed: the alert is built and looked up, and the
\* producer called unless the queue has it.
Scored(c, level) ==
  LET f == call[c].firing
      s == MergeSeverity(RuleSeverity[f], level)
  IN  /\ call[c].pc = "scoring"
      /\ call' = [call EXCEPT ![c] =
           IF Has(<<f, s>>, TenantOf[f])
           THEN NoCall
           ELSE [pc |-> "emitting", firing |-> f, severity |-> s]]
      /\ UNCHANGED <<emitted, queue, crashes>>

\* The alert reaches the topic and the producer says so.
Emit(c) ==
  /\ call[c].pc = "emitting"
  /\ Publish(AlertOf(c))
  /\ call' = [call EXCEPT ![c].pc = "enqueuing"]
  /\ UNCHANGED <<queue, crashes>>

\* Seeded fault: a failing producer does not stop the call.
EmitFailsSwallowed(c) ==
  /\ call[c].pc = "emitting"
  /\ call' = [call EXCEPT ![c].pc = "enqueuing"]
  /\ UNCHANGED <<emitted, queue, crashes>>

\* The producer fails, with or without the alert on the topic: the call ends
\* with a 500 and enqueues nothing.
EmitFails(c) ==
  /\ call[c].pc = "emitting"
  /\ UNCHANGED emitted \/ Publish(AlertOf(c))
  /\ call' = [call EXCEPT ![c] = NoCall]
  /\ UNCHANGED <<queue, crashes>>

\* Seeded fault: an alert queued meanwhile is queued again.
EnqueueAgain(c) ==
  LET a == AlertOf(c)
  IN  /\ call[c].pc = "enqueuing"
      /\ Save(a, [state |-> "queued", tenant |-> TenantOf[a[1]], assignee |-> None])
      /\ order' = [order EXCEPT ![BucketFor(a[2])] = Append(@, a)]
      /\ arrivals' = IF Queued(a) THEN arrivals ELSE Append(arrivals, a)
      /\ call' = [call EXCEPT ![c] = NoCall]
      /\ UNCHANGED <<emitted, cursor, crashes>>

\* enqueue(): a new entry, unless another call queued the alert meanwhile.
Enqueue(c) ==
  LET a == AlertOf(c)
  IN  /\ call[c].pc = "enqueuing"
      /\ IF Queued(a)
         THEN UNCHANGED <<entries, order, saved, arrivals>>
         ELSE /\ Save(a, [state |-> "queued", tenant |-> TenantOf[a[1]], assignee |-> None])
              /\ order' = [order EXCEPT ![BucketFor(a[2])] = Append(@, a)]
              /\ arrivals' = Append(arrivals, a)
      /\ call' = [call EXCEPT ![c] = NoCall]
      /\ UNCHANGED <<emitted, cursor, crashes>>

-----------------------------------------------------------------------------
\* Seeded fault: a closed alert can be assigned.
AssignClosed(a, u, t) ==
  /\ Has(a, t)
  /\ Save(a, [entries[a] EXCEPT !.state = "assigned", !.assignee = u])
  /\ UNCHANGED <<call, emitted, order, cursor, arrivals, crashes>>

\* Seeded fault: the tenant and the user change places.
AssignSwapped(a, u, t) ==
  /\ Has(a, t)
  /\ entries[a].state # "closed"
  /\ Save(a, [entries[a] EXCEPT !.state = "assigned", !.assignee = t])
  /\ UNCHANGED <<call, emitted, order, cursor, arrivals, crashes>>

\* assign(): also takes an acked alert back to "assigned".
Assign(a, u, t) ==
  /\ Has(a, t)
  /\ entries[a].state # "closed"
  /\ Save(a, [entries[a] EXCEPT !.state = "assigned", !.assignee = u])
  /\ UNCHANGED <<call, emitted, order, cursor, arrivals, crashes>>

\* Seeded fault: the acknowledgement is not appended to the file.
AckUnsaved(a, t) ==
  /\ Has(a, t)
  /\ entries[a].state # "closed"
  /\ entries' = [entries EXCEPT ![a].state = "acked"]
  /\ UNCHANGED <<call, emitted, order, cursor, saved, arrivals, crashes>>

Ack(a, t) ==
  /\ Has(a, t)
  /\ entries[a].state # "closed"
  /\ Save(a, [entries[a] EXCEPT !.state = "acked"])
  /\ UNCHANGED <<call, emitted, order, cursor, arrivals, crashes>>

\* close() takes any state, "closed" included.
Close(a, t) ==
  /\ Has(a, t)
  /\ Save(a, [entries[a] EXCEPT !.state = "closed"])
  /\ UNCHANGED <<call, emitted, order, cursor, arrivals, crashes>>

\* a waits for tenant t, and nothing of a higher bucket or older does.
Pulled(a, t) ==
  LET Waiting(b) == {i \in DOMAIN order[b] : Has(order[b][i], t) /\ entries[order[b][i]].state = "queued"}
      Higher(b) == CASE b = "critical" -> {} [] b = "medium" -> {"critical"} [] b = "low" -> {"critical", "medium"}
  IN  \E b \in Bucket :
        /\ \A h \in Higher(b) : Waiting(h) = {}
        /\ \E i \in Waiting(b) : order[b][i] = a /\ \A j \in Waiting(b) : i <= j

\* pullNext(): for a given user, or for the next analyst of the pool; without
\* a pool it returns the entry and changes nothing.
PullNext(t, forUser) ==
  \E a \in Alerts :
    /\ Pulled(a, t)
    /\ forUser # None \/ Pool # <<>>
    /\ Save(a, [entries[a] EXCEPT !.state = "assigned",
                  !.assignee = IF forUser # None THEN forUser ELSE Pool[(cursor % Len(Pool)) + 1]])
    /\ cursor' = IF forUser # None THEN cursor ELSE (cursor + 1) % Len(Pool)
    /\ UNCHANGED <<call, emitted, order, arrivals, crashes>>

\* The places in the sequence s of the alerts of bucket b.
Places(s, b) == {i \in DOMAIN s : BucketFor(s[i][2]) = b}

\* The place in s of the n-th alert of bucket b.
Nth(s, b, n) == CHOOSE i \in Places(s, b) : Cardinality({j \in Places(s, b) : j <= i}) = n

\* Seeded fault: the file is read back newest line first.
ReloadReversed ==
  [b \in Bucket |->
    [n \in 1 .. Cardinality(Places(arrivals, b)) |->
      arrivals[Nth(arrivals, b, Cardinality(Places(arrivals, b)) + 1 - n)]]]

\* loadFromDisk(): an alert takes its place in its bucket at its first line.
Reload ==
  [b \in Bucket |->
    [n \in 1 .. Cardinality(Places(arrivals, b)) |-> arrivals[Nth(arrivals, b, n)]]]

\* The process dies and is started again: the calls are gone.
Restart ==
  /\ crashes < MaxCrashes
  /\ crashes' = crashes + 1
  /\ call' = [c \in Calls |-> NoCall]
  /\ entries' = saved
  /\ order' = Reload
  /\ cursor' = 0
  /\ UNCHANGED <<emitted, saved, arrivals>>

Next ==
  \/ \E c \in Calls :
       \/ \E f \in Firings : Evaluate(c, f)
       \/ \E level \in Levels : Scored(c, level)
       \/ Emit(c) \/ EmitFails(c) \/ Enqueue(c)
  \/ \E a \in Alerts, t \in Tenants :
       \/ \E u \in Users : Assign(a, u, t)
       \/ Ack(a, t) \/ Close(a, t)
  \/ \E t \in Tenants, u \in Users \cup {None} : PullNext(t, u)
  \/ Restart

Spec == Init /\ [][Next]_vars

-----------------------------------------------------------------------------
(***************************************************************************)
(* Properties                                                              *)
(***************************************************************************)

\* Every variable holds what the source's types allow.
TypeOK ==
  /\ call \in [Calls -> Call]
  /\ emitted \in [Alerts -> Nat]
  /\ entries \in [Alerts -> Entry]
  /\ order \in [Bucket -> Seq(Alerts)]
  /\ cursor \in Nat
  /\ saved \in [Alerts -> Entry]
  /\ arrivals \in Seq(Alerts)
  /\ crashes \in 0 .. MaxCrashes

\* The bucket lists and the entries agree: every entry is on the list of its
\* severity's bucket, once, and nothing else is, whichever calls raced to
\* enqueue it and however often the file was read back.
IndexExact ==
  /\ \A b \in Bucket : \A i, j \in DOMAIN order[b] : order[b][i] = order[b][j] => i = j
  /\ \A b \in Bucket :
       {order[b][i] : i \in DOMAIN order[b]} = {a \in Alerts : Queued(a) /\ BucketFor(a[2]) = b}

\* Analysts only ever work on alerts the rest of the system was told of.
QueuedWasEmitted == \A a \in Alerts : Queued(a) => emitted[a] > 0

\* A restart would bring back exactly the queue as it is.
FileIsCurrent == saved = entries /\ Reload = order

\* A closed alert stays closed, and an alert never changes tenant: not by a
\* late delivery of its firing, not by a handler, not by a restart.
ClosedStaysClosed ==
  [][\A a \in Alerts : Queued(a) =>
       /\ entries'[a].tenant = entries[a].tenant
       /\ entries[a].state = "closed" => entries'[a].state = "closed"
    ]_entries

\* The queue is what it promises to be, as if calls did not overlap, producers
\* did not fail and the process did not die: a restart is not to be seen.
Queue == INSTANCE AlertQueue WITH
  published <- {a \in Alerts : emitted[a] > 0},
  BucketOf <- [a \in Alerts |-> BucketFor(a[2])],
  OwnerOf <- [a \in Alerts |-> TenantOf[a[1]]]

QueueImplemented == Queue!Spec

\* First come, first served: no alert is ever placed before one already there,
\* also when the process restarts.
PlacesAreKept ==
  [][\A b \in Bucket : \A i \in DOMAIN order[b] : i \in DOMAIN order'[b] /\ order'[b][i] = order[b][i]]_order

\* "skip duplicate emits": an alert is on the topic at most once.
EmittedOnce == \A a \in Alerts : emitted[a] <= 1

\* "re-deliveries don't create duplicate cases": one firing, one alert.
OneAlertPerFiring ==
  \A f \in Firings : Cardinality({a \in Alerts : a[1] = f /\ Queued(a)}) <= 1

=============================================================================
