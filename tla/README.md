# ZorEWS: verification of the case and alert paths

TLA+ modules, TLC configurations and TLAPS proofs for the parts of the system
where state and order matter most: a rule firing becomes an alert, an alert
becomes a case, a case is worked on under maker-checker control, alerts and
cases are kept in Postgres, severe cases are sent to the bank's Collection module, the BFF's own
cases are escalated by a worker, and the field app replays what it queued
offline. Paths below are relative to the repository.

## The system

| component | state | operations | talks to |
|---|---|---|---|
| rules engine (`services/regulatory-svc/rules`) | rule versions | evaluate, publish, retire | posts firings to alerts |
| indicators (`regulatory-svc/indicators`) | catalog, dead letters | compute, stream to the BFF with retry | event bus, BFF |
| alerts (`regulatory-svc/alerts`) | queue entries, one list per bucket, analyst cursor, NDJSON file or Postgres tables behind a cache | evaluate, assign, ack, close, pullNext, reload | score service, topic `apex.regulatory.events` |
| cases (`regulatory-svc/cases`) | case records with CAS and CAP lists, NDJSON snapshot or Postgres tables behind a cache, event outbox, approvals rows | create, assign, logAction, monitor, close, submit/review CAS, propose/approve/close CAP | outbox `apex.case.events`, approvals log |
| collection-adapter | routes file, set of routed cases | /process (routing pass), /collection/callback | reads the outbox of cases, closes cases |
| bff: case store (`services/bff/src/cms_store.ts`) | cases with lock, deadline, assignments, history | create, update, assign, transition, escalate, close, reopen, auto-escalate | escalation worker |
| bff: escalation worker (`bff/src/admin/escalation_worker.ts`) | rules, scenarios, dispatch log, a flag for a tick under way | cron tick, POST .../tick, test-fire, edits | case store |
| bff, the rest | admin stores, webhook subscriptions | proxying, webhooks, several hundred read views | all services |
| auth-svc | users, sessions, approvals, leave covers | login, maker-checker on users | bff |
| mobile | offline queue in one storage key | enqueue, drain | bff |
| event-bus, notification-svc, audit-svc, pipeline-svc, ai-copilot-svc, ml, data, web, infra | files, models, configuration | adapters, batch jobs, rendering | |

**How they interact.** Services call each other over HTTP and through topics
(Kafka, or NDJSON outboxes in development). The adapter reads the outbox that
the cases service appends to. Inside a service everything runs on Node's single
thread: code between two awaits is one step, and an await lets any other
request, timer or callback run.

**What is hard.** Two files written one after the other without a transaction;
a check before an await and its use after; deliveries repeated by at-least-once
producers; passes that overlap; restarts that rebuild memory from a file; one
record rewritten as a whole by many handlers; tenants that share stores.
PROJECT.json lists these as hazards, each at its line.

**What makes each component correct.**

* alerts: an alert is queued once, in its place, only after it was published;
  a closed alert stays closed; a restart loses nothing; one firing, one alert.
* cases: the record's fields agree with its state; a case moves along the
  transition table; decisions are attributed and final; a case closes only when
  its CAPs are done and is then frozen; events chain, and tell the stored state;
  tenants do not touch each other's cases.
* collection-adapter: a case is routed at most once, only if the policy says so,
  and if it is severe also in the end, in spite of overlap, failing appends and
  restarts.
* Postgres store of cases: the tables converge to the cache and are never ahead
  of it; approvals rows agree with the decisions they record.
* Postgres queue of alerts: row and assignment log end as the entry says, in
  whatever order the statements ran that need none.
* bff case store: trail and case agree; a closed case stays as it was closed
  until it is reopened.
* escalation worker: a role hears of a level once, after the roles below it,
  and every level that stays due fires.
* mobile queue: nothing accepted is lost or left in flight, what the server took
  is not sent again, first tries go in order, retries end.
* webhooks, streaming consumer: retries end, and repeats are harmless.

## Modules

| module | models | role |
|---|---|---|
| `CaseStates` | `cases/src/state_machine.ts`, `types.ts` | states, transition table |
| `CaseLifecycle` | what the state machine promises of a case | abstract specification |
| `CaseService` | `service.ts`, `store.ts`, `case_id.ts`, outbox | detailed specification |
| `CaseServiceProofs` | | proofs |
| `CollectionRouting` | `router.ts`, `processor.ts`, `sink.ts`, `source.ts`, and creation and assignment in cases | specification |
| `CollectionRoutingProofs` | | proofs |
| `AlertIntake` | `alerts/src/evaluator.ts`, `queue.ts`, `severity.ts`, `alert.ts`, producer | specification |
| `AlertQueue` | what that service promises of its queue | abstract specification |
| `AlertIntakeProofs` | | proofs |
| `CasePgStore` | `cases/src/pg_store.ts`, `approvals.ts`, and the statements of the handlers of `service.ts` | specification |
| `CasePgStoreProofs` | | proofs |
| `AlertPgQueue` | `alerts/src/pg_queue.ts` | specification |
| `AlertPgQueueProofs` | | proofs |
| `OfflineSync` | `mobile/src/sync/offline_queue.ts` | specification |
| `OfflineSyncProofs` | | proofs |
| `CmsCases` | `bff/src/cms_store.ts`, `cms_cases.ts` | specification |
| `EscalationWorker` | `bff/src/admin/escalation_worker.ts`, `notification_dispatch_store.ts`, and the routes that edit what it reads | extends `CmsCases`: composition of worker and store |
| `EscalationWorkerProofs` | | proofs, of the store under the worker too |
| `MC...` | | instances for TLC |

Names follow the source. An operator whose comment begins with "Seeded fault"
is not part of a specification: it is a plausible mistake in the definition
below it, kept to show that the property named in PROJECT.json notices it.

### CaseService

`cases` is the store, one record per case id; `published` the last line of each
case in the outbox; `unsent` the cases whose last upsert has no event; `crashes`
counts deaths. Each public method of the class is one action: guard, rewritten
record, then `Commit`, which is `store.upsert` followed by `emit`. There is no
await between reading the record and writing both files, so only a death of the
process, or an append that fails, separates them; that is `DieBeforeEmit`. The
snapshot replayed at restart has the last line of every case, which is `cases`,
so a restart needs no action of its own. An idempotent create of an existing
case changes nothing and is not an action. Timestamps, texts and plan items
are left out; `outcome` stands for the fields `close` sets together, and
`actions` for the length of the log. A CAP becomes "overdue" nowhere in the
code; the guards that mention it are kept.

A case id is a hash of alert and customer without the tenant, which is why
`Cases` is not indexed by tenant, and why a tenant's create can meet another
tenant's record.

`CaseLifecycle` is the abstract specification: a case is created open and moves
along the table. `TenantLifecycle` in CaseService is the refinement mapping,
one lifecycle per tenant and case, with "none" where the tenant sees nothing.

### CollectionRouting

`stored` and `outbox` are the side of the cases service, with events that may
be lost (`lost`) between the two files. `routes` is the routes file, `seen` the
set in memory, `pass[p]` the snapshot of events that request p read and its
position. `HandleEvent` is one turn of the loop: decide, check `hasRouted`,
append, remember; these share a step because nothing is awaited between the
check and the append. `EmitFails` is an append that throws, which ends the
pass with a 500. `Restart` empties memory and replays the file.

### AlertIntake

`call[c]` follows one POST /alerts/evaluate over its two awaits: "scoring",
"emitting", "enqueuing". `emitted` counts copies on the topic; `entries`,
`order` and `cursor` are the queue's memory; `saved` and `arrivals` are its file
(the last line of each alert, and the alerts by first line). An alert is the
pair of firing and final severity, which is what its id hashes. `EmitFails`
covers a producer that fails before or after the message is on the topic.
`PullNext` has no route of its own; it is the queue's public operation for
listeners. `Reload` is `loadFromDisk()`: the n-th alert of a bucket is the one
whose first line is the n-th of that bucket in the file (`Places`, `Nth`).

`AlertQueue` is the abstract specification: an alert is published, queued once at
the end of its bucket's list for the tenant whose firing it is, assigned and
acked until it is closed. `Queue` in AlertIntake is the refinement mapping: the
topic as a set, the entries and the lists as they are. Calls, file,
cursor and restarts are hidden; a restart must be a stutter.

### CasePgStore

The second store of the cases service answers reads from a cache (`cases`,
`status`, `persisted`) and hands the pool statements that it never awaits
(`sent`). A handler is one action, `Handle`: `upsert`, the awaited `emit`, and for
an item under maker-checker control the call of the approvals log. The only
producer (`producer.ts`) appends to a file synchronously, so that the await of
`emit` gives way to no other handler and no statement; but the append may throw,
and then the handler rejects after the upsert and before the approvals call
(`service.ts:244-252`, 298-305, 349-357, 409-416). That is the second disjunct of
`Handle`: the item is decided in cache and tables, its approvals statement is
never sent, and it joins `unlogged`. `RunCaseStatement`, `RunItemStatement`,
`RunPropose` and `RunReview` are Postgres executing one statement against
`caseRow`, `itemRow` and `approvalRow`; `OnConnection` lets as many be in
flight as the pool has connections; `Fail` is the catch handler that logs and
forgets; `Restart` is a death followed by `init()`.

What a handler writes in the row of the case is named by the turn, since one
UPDATE sets all those columns; which handler may run in which state is the
business of CaseService, so here any may, except where the status of an item
decides. `verdict` is the first decision on each item. `disturbed` has the cases
a statement of which failed or overtook an earlier one since the last start;
`unlogged` the items whose approvals statement failed, overtook one, was lost in
a death or was never sent: the code has no answer to these, and the properties
state exactly what holds without them.

Assumed: a case id belongs to one tenant; statements of one turn touch different
rows; a statement that a dead process had on a connection has run, or never
will, when the next process loads. Met while modelling: a CAP sent back for
rework and approved later keeps "rework" in the log, for `review` touches pending
rows only; the comments of `approvals.ts` (22-25, 89-94) speak of an idempotent
UPSERT where `propose` is a plain INSERT.

### AlertPgQueue

`entries` is the cache, `row` the alerts table, `trail` the newest assignee in the
assignment log. An operation is one action, for none awaits: `Enqueue`, `Assign`
(which `pullNext` ends in), `Ack`, `Close`. The statements it sends wait in `sent`
and run, `RunEnqueue`, `RunAssignment` and `RunUpdate`, on as many connections as
the pool has. `Loaded` is `init()`'s guess of the state, which no column holds.

Two statements of an alert clash when they write one column, or one needs the
row the other inserts; `disturbed` has the alerts of which a statement failed
or ran before an earlier one it clashes with. That is narrower than in
CasePgStore: an assignment and an ack may pass each other. A death empties
`disturbed`, since the cache is then read from the rows, but not `patchy`: the
assignment log is never read back. Left out are the order within a bucket
(after a restart it is by `raised_at`), and outcome and note, which are not
stored.

`Stored` is the row of an entry as the header has it (17-18): "Both queued and
assigned map to status='open'". The code does not keep to it: `assign` takes an
acked alert and leaves the status of its row, which stays 'acked', and a restart
gives the alert back as acked. `RowsSettle` excepts exactly this row (`Reassigned`),
and PROJECT.json lists it as a finding. Assumed: an alert is one tenant's; a statement that a dead process had
on a connection has run, or never will, when the next process loads.

### OfflineSync

`storage` is the one value under the queue's storage key. Each operation of
`AsyncStorageOfflineQueue` reads it (`Read`), waits and writes the whole map back
(`Write`) with one entry changed (`patch`). `Drain`, `Mark` and `Answer` are the
lines of `SyncRunner.drain()` between its waits; `listed` is the list it walks.
The dispatcher's answer is any of the four the code tells apart: true, false,
`PermanentSyncError`, another error. The first two are settled in the `try`
("settling"), the others in the `catch` ("recovering"). `Clear` is `clear()`,
`Kill` a death of the app, which keeps the storage and nothing else. An enqueue
of a key that is present writes nothing and is not an action.

`getItem` and `setItem` may be rejected, at any wait; the stored value is then
what it was. In the `try` of `drain()` (`FailsInTry`) the `catch` takes this for a
failed attempt and writes again (`Catch`), so that an action the server took is
put back, or parked; elsewhere, in the `catch` too, the call rejects (`Rejects`):
an enqueue is not accepted, and a drain ends with its entry as it stands, which
may be in flight, where no later drain lists it. A `list()` that rejects before a
drain's first entry or after its last changes nothing and is not an action, nor
is a `clear()` that rejects.

`clobbered` gathers the keys of which an older copy was written back, `orphaned`
those in flight when the app died or their drain rejected, `shared` those two
drains listed at once, `kept` those the server took and the storage failed to
remove; `taken` is what the server took. Assumed: `enqueued_at` differs between
entries; `getItem` and `setItem` happen as a whole or not at all; the hook
`onAttempt` does not throw; a key stands for one action (the real one is a prefix of its fields,
`slice(0, 64)`). A stored blob that does not parse cannot arise from these
operations and is left out.

### CmsCases and EscalationWorker

Each operation of `InMemoryCmsCaseStore` is synchronous and is one action.
`recorded` and `holding` are what history and assignment rows say last;
`Repriced` and `Moved` are what `update` and `transition` do to deadline and
lock. `TransitionRefused` is a transition to CLOSED: it answers an error after
the status was assigned to the stored object (`cms_store.ts:556-561`), though its
comment says "bare transition to CLOSED is rejected" and the header (20-22) that
every mutation writes a row of history. The case stays CLOSED, without lock,
resolution or history entry, and no close() takes it. `HistoryTold`, which is
what the header says, is violated by it (run `cms_history`); `TrailAgrees` speaks
of assignments, lock and resolution, which hold. `assignRoundRobin` and `bulkAssign` are repeated `Assign`s,
`autoCreateCaseFromAlert` is a `Create`. `AutoEscalate` is the route that
escalates every case past the threshold in one turn.

`EscalationWorker` adds the runners. `pc` is the await each is at: `ListOpen`,
`Scenarios`, `Resolve` (one case), `Filter`, `Send` (one entry). Between two
of them cases move, rules are edited and the other runner works. The flag
`inFlight` of the cron is `pc[Cron] # "idle"`. `Fail` is a call that rejects: the
cron leaves the tenant, a request is answered 500, and an append that rejects
may have been written. `log` is the in-memory dispatch log, cut at `Cap`;
`Recent` is the page of it that the filter asks for. `fired`, `repeated`, `raced`
and `evicted` are history variables.

Taken for granted: the category of a case is constant, so that the priority
selects the scenario; a request names cases of its tenant once, with their true
age and priority (the route takes `open_cases` from its body unchecked,
`escalation_worker_routes.ts:59-101`); a tenant has no more than the 200 active
scenarios of the one page that is read (`escalation_worker.ts:424-427`); rules are those `validateLevelChain` accepts
(`escalation_matrix_store.ts:140-174`); tenants are visited in any order. The
store is memory only, so that a restart leaves no state to be wrong about.
Met while modelling: ESCALATED is not in `OPEN_CASE_STATES` (304), so a case the
auto-escalation moved is not listed again; a reopened case measures progress
from its first creation, and its levels, once fired, never fire again. The
header's "second tick produces zero dispatches" (22-24) holds of ticks one after
the other, and of a log that kept the entries: `OncePerLevel` says so.

## Runs

| run | result | what it shows |
|---|---|---|
| `case_service` | holds | every order of the handlers for two tenants, one case, two CAPs, one CAS, two deaths |
| `case_shared_alert` | violated | two tenants with one alert id: the second create replaces the first's case |
| `collection_routing` | holds | overlapping passes over three cases, four events, two failures, one lost event; with liveness |
| `collection_lost_event` | violated | a stored critical case whose event was lost is never routed |
| `alert_intake` | holds | overlapping evaluations of two firings, all queue operations, a restart |
| `alert_duplicate` | violated | overlapping deliveries of one firing publish it twice |
| `alert_rescored` | violated | a firing delivered with and without its score is two alerts |
| `case_persistence` | holds | statements of a case in any order, a failed statement or a throwing append, a restart; with liveness |
| `alert_persistence` | holds | two alerts whose statements run in any order, a failure, a restart |
| `offline_replay` | holds | two drains and a screen over one storage key, with two deaths, rejections of the storage or clears |
| `escalation` | holds | cron and request over a case that moves, with edits, failures and a short log; with liveness |
| `cms_history` | violated | a refused transition to CLOSED leaves the case closed and its history silent |

The larger passing runs take a minute or two (`offline_replay` visits 2.9 million
states, `escalation` 450 thousand, `case_persistence` 410, `collection_routing` 300,
`alert_persistence` 126). The violated properties
state what a comment, a schema, an assertion or a README of the repository says;
PROJECT.json quotes each under "findings" with its line. Two more findings are
exceptions of properties that hold otherwise: the policy routes a medium case
with a loan (`router.ts:9`), but no event carries the loan and none ever is
(theorem `LoansNeverRouted`); an alert assigned after its ack keeps the status
'acked' in its row.

**Properties.** `FieldsAgree`, `DecisionsAttributed`, `DecisionsFinal`,
`CloseNeedsCapsDone`, `ClosedIsFrozen`: no order of handlers, each of which
rewrites the whole record, loses or undoes what an earlier one established.
`PublishedAgrees`, `EventsChain`: a consumer of the outbox can follow the store,
but for events lost in a death. `TenantCasesIsolated`: refinement of
`CaseLifecycle`. `RoutedOnce`, `PassLeavesNothing`, `CaughtUp`,
`RoutesFollowPolicy`: idempotency, policy and completeness of routing. The policy is
the documented one (`Policy`), completeness is claimed of the severe cases
(`Severe`), so that both hold of the code as it is and of one that sends the loan. `EventsGetRouted`:
what is in the outbox is routed in the end. `IndexExact`, `QueuedWasEmitted`,
`FileIsCurrent`, `ClosedStaysClosed`: the queue, its lists, its
file and the topic agree through races and restarts. `QueueImplemented`:
refinement of `AlertQueue`. `Converges`, `CatchesUp`,
`RowsNeverAhead`, `ApprovalsAgree`: what Postgres holds of a case, during and
after the storm of statements. `RowsSettle`: the same of an
alert, up to the order its columns do not need. `NothingLost`, `InFlightHeld`,
`TakenOnce`, `FirstTriesInOrder`, `BudgetSpent`: the offline queue under
read-modify-write races, deaths and a storage that rejects, with each way to break
them named. `TrailAgrees`, `LockedFrozen`: the case store's parts agree through
every order of calls; `HistoryTold`: so does its history, but for one call.
`OncePerLevel`, `LadderClimbed`, `Fires`: what roles hear of a case, and that they
do.

**Bounds and why they are enough.** `MaxActions`, `MaxCrashes`, `MaxEvents`,
`MaxLost`, `MaxFailures`, `MaxEmits` bound counters that only grow; each appears
in a guard.
One case suffices in `case_service` because a handler touches one record; two
CAPs so that one can be open while the other is done; two tenants so that one
can try the other's case; two users so that a second decision would show.
Two passes are the smallest overlap, and two failures let a restart follow a
failing append; a critical case, a medium one with a loan and a low one cover
both parts of the policy and what is outside it. Two evaluations are the smallest race; a firing that a High score
moves to another bucket and a critical one share a bucket and fill two; three
messages let every alert be published, or one twice. The calls are
interchangeable (SYMMETRY), in runs without liveness only.

In `case_persistence` one case with an action, a CAS and a CAP has every kind of
statement; two connections are the smallest window in which one can overtake
another, and four turns reach a decision with its proposal still in the pool.
In `alert_persistence` two connections again, of the pool's four: more only adds
overtaking, which two show for every pair of statements; five operations bring
an alert from its insert to a close with both statements of an assign between.
In `offline_replay` two keys can be overtaken or clobbered by one another, a
retry limit of two tells a retried action from a parked one, and one overlap of
drains is enough for both to list one key; more overlaps repeat it. Two upsets let
a rejection in the `try` be followed by one in the `catch`, or by a death. In
`escalation` one case, two tenants (one may fail for the other), one rule with
chains of one and two levels, a log of two entries of which the filter reads
one, so that a test-fire or a second level evicts; `MaxUpsets` is one budget for
requests, edits, test-fires and failures; three moves take a case from its
creation through a closing to a reopening. The proofs have none of these bounds.

`case_service` does not check deadlock: a case that is closed, with all its
CASs and CAPs decided and no crash left, has nothing more to do. Neither do
`case_persistence` and `alert_persistence` (turns used up and every statement run) and `offline_replay`
(nothing pending). The violation runs of alerts stop when their
bounds on messages are reached. `escalation` does check it: the cron
can always tick.

**Fairness.** `CollectionRouting!FairSpec` assumes weak fairness of starting a
pass and of its next event: /process is called again by whoever schedules it,
and Node goes on with a pass whose await has returned. Nothing is assumed of
creation, assignment, failing appends or restarts, whose number is bounded (in the
source /process is a trigger for an administrator, `collection-adapter/src/server.ts:47`:
that somebody keeps pulling it is an assumption about the operation of the service,
and without it nothing is routed): a
disk that fails for ever would defeat any routing. `CasePgStore!FairSpec` assumes
that some statement in flight ends: the pool sends what it queued and Postgres
answers. `OfflineSync` has no fairness and no liveness property: nothing in
`mobile/src` calls `drain()` yet, so that nothing says it is called again.
`EscalationWorker!FairSpec` assumes that the cron goes on:
it is a `setInterval` that nothing in the source stops once
ESCALATION_WORKER_INTERVAL_SEC turned it on, and the stores answer, if only with
one of the bounded failures. All other properties are safety properties and
need no fairness.

## Proofs

TLAPS checks the following for all values of the constants.

*CaseService.* `Typed`, `FieldsAlwaysAgree`, `DecisionsAlwaysAttributed` and
`PublishedAlwaysAgrees` need only the module's assumptions. The argument goes
through one lemma, `NextCommits`: every step commits, for some case, either a
fresh record or a rewrite that keeps what must be kept (`Rewrite`); it has one
step per handler, and the invariants then follow without looking at handlers
again. `DecisionsAreFinal`, `CloseNeedsCaps`, `ClosedStaysFrozen`,
`EventsAlwaysChain` and the refinement `Isolation` assume `AlertsDisjoint`: no
alert id is posted by two tenants. The run `case_shared_alert` shows that they
fail without it. Their invariant `SafeInv` adds to the state invariants that a
record belongs to a tenant who posts its alert (`Owned`) and that a case that
does not exist is blank (`Untouched`); without `Owned` a create could meet
another tenant's record.

*CollectionRouting.* `Typed`, `NeverRoutedTwice`, `SeenAlwaysRouted`,
`PolicyAlwaysFollowed`, `PassesLeaveNothing`, `PassesCatchUp`, `LoansNeverRouted`. `RoutedOnce` is not
inductive: the code looks at `seen`, not at the file. Together with `SeenIsRouted`,
that `seen` is the cases in the file, it is. `CaughtUp` says that a pass through
with the present outbox leaves Collection with every severe case announced there,
or stored if no event was lost, and with none outside the policy. It needs that what a pass
read still begins the outbox (`ReadsAreOld`), and that no routed case is unannounced,
and no stored one unless its event was lost (`Announcing`).
`RoutesFollowPolicy` needs `EventsAreTrue`: every event in the outbox, and in the
copies that passes hold, is the creation or assignment event of a stored case.
From it follows `LoansNeverRouted`: no such event has a loan, so no line of the
routes file has the reason "loan_default_track".

*AlertIntake.* `QueuedAlwaysEmitted` needs that a call about to enqueue has
emitted its alert (`CallsEmitted`), and that a restart brings back the entries
as they are. `ClosedAlertsStayClosed` follows from the same invariant.
`AlertTypesKept`, `IndexAlwaysExact`, `FileAlwaysCurrent` and `PlacesAlwaysKept` (the
list of a bucket only grows at its end) are one invariant, `FileInv`: the lists have
the alerts with an entry, each once, and are what `Reload` would read from the file.
Its hard case is an enqueue, which appends to both: the lemmas `PlacesAppend` and
`ReadBackAppend` say that the places of a bucket in a longer file are those before
and one at the end. They need that each place has a rank (`Ranked`), which is part of
the invariant, since proving it of an arbitrary sequence would be an induction.
With `FileInv` a restart changes nothing that `AlertQueue` sees, and the refinement
`QueueAlwaysImplemented` follows step by step. `DuplicatesAlwaysSkipped` is what is
true of the comment that `alert_duplicate` refutes: a call that scores its firing
once the alert is queued does not publish it; it needs that an entry belongs to the
tenant of its firing (`Owned`), for the code asks for both.

*CasePgStore.* `TypedOK`, `NeverAhead`, `AlwaysConverges`, `ApprovalsAlwaysAgree`,
`RestartsRestore`.
`RowsNeverAhead` needs that no statement in flight is ahead of the cache
(`SentNotAhead`). `Converges` speaks of the end, when nothing is in flight; its
invariant `OnItsWay` says of any moment, for a case not disturbed, that the
newest statement in flight about a row brings what the cache holds, and that
with none in flight the row has it; that a row exists when an UPDATE comes to it
needs `PersistedExact`. `ApprovalsOnTheirWay` is the same for approvals rows; a
throwing append adds its item to `unlogged` and leaves the invariant to the others.
`RestartRestores` is about the step itself: `init()` gives back every settled case,
its items and the set of those sent as they were, and of any other an earlier
state, so that an id lost in the death is not taken for sent.

*AlertPgQueue.* `TypesKept`, `RowsAlwaysSettle`, `RestartsRestore`. `RowsSettle` speaks of alerts with
nothing in flight. `OnItsWay` says of any moment, column by column, what the
statements in flight will bring: the newest assignment names the assignee, no
ack comes after a close, and an INSERT in flight was sent before all others
(`Inserted`), so that what does not overtake it finds the row. After a restart the
invariant needs that a row's status agrees with its `acked_at` (`RowsAgree`).
`RestartRestores` says what a settled alert comes back as: what it was, except that
one acked and then assigned comes back acked (`Restored`), for no column keeps the
order of the two. It needs that an entry is coherent (`Coherent`): acked, it has the
mark; assigned, an assignee; queued, neither. With it `RowsSettle` follows: the row
is `Stored`, or that of the one exception.

*OfflineSync.* `TypesKept`, `InFlightAlwaysHeld`, `NothingEverLost`,
`FirstTriesAlwaysInOrder`, `TakenAlwaysOnce`, `BudgetAlwaysSpent`. All need
`Placed` (what a caller holds at each wait) and, but for the second, `Dated`: no
entry is dated beyond the clock, and the date an enqueue is about to write is
nowhere else yet. `NothingLost` adds that a drain about to remove an entry that
is owed again removes an older one (`Removing`); the order adds that a drain
works on the oldest of its list, and that an entry never tried is on that list
when a younger one is (`OldestFirst`, `Untried`); the budget adds that an entry
no two drains listed is left to one of them (`OneDrain`), who alone moves it and
listed all it has spent (`ListedBound`). `TakenOnce` needs, of the keys not excused,
that what was taken is not pending (`TakenWaits`), that a drain was the one to send
what it listed, or is about to remove it (`Untaken`), that what is being sent is
not pending meanwhile (`SentMarked`), and that new entries are dated like nothing
taken (`TakenDated`).

*EscalationWorker.* `TypesKept`, `TrailAlwaysAgrees`, `HistoryToldButRefused`,
`LockAlwaysHolds`, `LadderAlwaysClimbed`, `OnceUnlessExcused`, of the composition: the worker's steps
leave the store alone, so that the composition implements `CmsSpec`
(`WorkerKeepsStore`), and the store's lemmas (`TrailStep`, `HistoryStep`) carry over.
`HistoryToldButRefused` says that the refused transition is the only step that
breaks what `HistoryTold` asks.
`OncePerLevel` is not inductive: a runner that is about to send a level must not
have seen it fired, or be excused already (`Excused`), and every level fired must
be in the page the filter reads, or be recorded as evicted (`Seen`).
`LadderClimbed` needs that what a runner found due is closed downwards, but for
levels that fired (`DueClimbs`).

Only model-checked: `EventsGetRouted`, `CatchesUp` and `Fires`, which are
liveness under fairness and rest on ENABLED, out of the prover's reach. Every safety
and action property of a passing run is a theorem. The properties of the violation
runs are false, and so have none; `Isolation` and its neighbours prove one of them
under the assumption the violation shows to be missing, and `HistoryToldButRefused`
another for all steps but the one at fault.

## Not modelled

* Torn lines: a process that dies inside `appendFileSync`. The files are
  sequences of whole lines.
* An append that fails under the alert queue after its entry was changed.
* The Postgres variant of the dispatch log, which has no cap and may order
  entries of one instant either way.
* Outbound webhooks and the streaming consumer (planned).
* Of the BFF's cases: notes, attachments, tags, the SLA override of a case type,
  the caps on stored rows. Of the worker: templates, and /preview, which changes
  nothing.
* The adapter's callback, which keeps no state.
* Roles, schemas, parameters and formatting; scoring, indicators, SQL and user
  interfaces, which are computations without a protocol.

* Most of the repository by volume: the BFF's read views, the web and mobile
  screens, generated API types, catalogues and translations. They compute or
  render and keep no state whose order matters.

## Plan

Done: `CaseStates`, `CaseLifecycle`, `CaseService`, `CollectionRouting`,
`AlertIntake`, `AlertQueue`, `CasePgStore` (with the approvals log), `AlertPgQueue`, `OfflineSync`, `CmsCases`,
`EscalationWorker`, with their proofs. To come, in this order:

1. `WebhookDelivery` and `StreamingConsumer`: attempts, time-outs, late answers
   and dead letters, with liveness (every delivery ends).
2. `AlertToCollection`: AlertIntake, CaseService and CollectionRouting composed:
   an alert's case is routed at most once, end to end.

Theorems to come: the composition as a refinement of a one-variable specification
of a case's way to Collection; what a tick of the worker on a quiet store leaves
undone (nothing), the safety half of `Fires`.
