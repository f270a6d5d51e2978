--------------------------- MODULE EscalationWorker ---------------------------
(***************************************************************************)
(* The escalation worker of the BFF over its case store                    *)
(* (services/bff/src/admin/escalation_worker.ts, its routes, and the log   *)
(* of notification_dispatch_store.ts).                                     *)
(*                                                                         *)
(* A tick lists the open cases of a tenant, reads the scenarios, looks up  *)
(* the rule of each case, drops the levels the dispatch log shows, and     *)
(* appends one entry for each level left; it waits at each of these.  The  *)
(* cron is one runner and lets one tick run at a time; POST .../tick is    *)
(* others, and nothing keeps them apart.  Meanwhile the cases move, the    *)
(* rules are edited, the log is a window.                                  *)
(***************************************************************************)
EXTENDS CmsCases, Sequences, FiniteSets

CONSTANTS
  Cron,        \* the runner EscalationWorkerCron is
  Requests,    \* runners POST /v1/admin/escalations/tick is
  RuleIds,     \* escalation ids
  Chains,      \* after_minutes of the levels of a rule, in order
  Cap,         \* DISPATCH_LOG_CAP
  Window,      \* page_size of filterAlreadyDispatched()
  Other,       \* an entry of another trigger
  MaxUpsets    \* bound: requests, edits, dispatches of others and failures

Runners == Requests \cup {Cron}
Levels == 1..3
Refs == Cases \X Levels

ASSUME RunnersAssumption == Cron \notin Requests
ASSUME ChainsAssumption ==
  \* validateLevelChain()
  \A chain \in Chains :
    /\ chain \in Seq(Nat)
    /\ Len(chain) \in Levels
    /\ \A i, j \in 1..Len(chain) : i < j => chain[i] < chain[j]
ASSUME OtherAssumption == Other \notin Refs
ASSUME NullAssumption ==
  None \notin RuleIds /\ None \notin Chains /\ None \notin Priorities /\ None \notin Tenants
ASSUME LogAssumption == Cap \in Nat \ {0} /\ Window \in Nat \ {0}

VARIABLES
  scenario, \* scenario[t][p]: the rule of the newest ACTIVE scenario, or None
  matrix,   \* matrix[r]: the levels of an ACTIVE rule, or None
  log,      \* log[t]: the dispatch log, oldest first
  pc,       \* where each runner waits
  queue,    \* the tenants the tick has not come to
  tenant,   \* the tenant it is at
  started,  \* the time it reads ages against
  listed,   \* priority of each case it listed and has not resolved
  book,     \* the scenarios it read
  due,      \* the levels it found due and has not dispatched
  fired,    \* levels ever dispatched
  repeated, \* levels dispatched more than once
  raced,    \* levels two ticks were about to dispatch
  evicted,  \* levels that left the part of the log the filter reads
  upsets    \* requests, edits, dispatches of others and failures so far

locals == <<pc, queue, tenant, started, listed, book, due>>
setup == <<scenario, matrix>>
outcome == <<log, fired, repeated, raced, evicted>>
vars == <<cmsVars, now, locals, setup, outcome, upsets>>

NoCases == [c \in Cases |-> None]
NoBook == [p \in Priorities |-> None]

Init ==
  /\ CmsInit
  /\ scenario \in [Tenants -> [Priorities -> RuleIds]]
  /\ matrix \in [RuleIds -> Chains]
  /\ log = [t \in Tenants |-> <<>>]
  /\ pc = [w \in Runners |-> "idle"]
  /\ queue = [w \in Runners |-> {}]
  /\ tenant = [w \in Runners |-> None]
  /\ started = [w \in Runners |-> 0]
  /\ listed = [w \in Runners |-> NoCases]
  /\ book = [w \in Runners |-> NoBook]
  /\ due = [w \in Runners |-> {}]
  /\ fired = {} /\ repeated = {} /\ raced = {} /\ evicted = {}
  /\ upsets = 0

Upset == upsets < MaxUpsets /\ upsets' = upsets + 1

-----------------------------------------------------------------------------
\* The dispatch log.

\* list() with the trigger escalation_worker: its newest entries.
Recent(entries) ==
  {entries[i] : i \in {j \in DOMAIN entries :
     /\ entries[j] # Other
     /\ Cardinality({k \in DOMAIN entries : k > j /\ entries[k] # Other}) < Window}}

\* append(): the oldest entry goes when the log is full.
Appended(entries, e) ==
  IF Len(entries) < Cap THEN Append(entries, e) ELSE Append(Tail(entries), e)

\* The levels fired that the filter does not see in the log of tenant t.
Unseen(t, levels) == {r \in levels : TenantOf[r[1]] = t /\ r \notin Recent(log'[t])}

\* Runner w logs the level r.
Dispatch(w, r) ==
  LET t == tenant[w]
  IN /\ log' = [log EXCEPT ![t] = Appended(@, r)]
     /\ fired' = fired \cup {r}
     /\ repeated' = IF r \in fired THEN repeated \cup {r} ELSE repeated
     /\ raced' = IF \E v \in Runners \ {w} : pc[v] = "sending" /\ r \in due[v]
                 THEN raced \cup {r} ELSE raced
     /\ evicted' = evicted \cup Unseen(t, fired \cup {r})

\* An admin's test-fire: the log is shared.
TestFire(t) ==
  /\ Upset
  /\ log' = [log EXCEPT ![t] = Appended(@, Other)]
  /\ evicted' = evicted \cup Unseen(t, fired)
  /\ UNCHANGED <<cmsVars, now, locals, setup, fired, repeated, raced>>

-----------------------------------------------------------------------------
\* A tick.

\* Runner w is through with its tenant: the cron goes on to the next one.
Through(w) ==
  /\ pc' = [pc EXCEPT ![w] = IF queue[w] = {} THEN "idle" ELSE "listing"]
  /\ tenant' = [tenant EXCEPT ![w] = None]
  /\ started' = [started EXCEPT ![w] = IF queue[w] = {} THEN 0 ELSE @]
  /\ listed' = [listed EXCEPT ![w] = NoCases]
  /\ book' = [book EXCEPT ![w] = NoBook]
  /\ due' = [due EXCEPT ![w] = {}]
  /\ UNCHANGED queue

\* runTick(): nothing happens while a tick runs.
RunTick ==
  /\ pc[Cron] = "idle"
  /\ Tenants # {}
  /\ pc' = [pc EXCEPT ![Cron] = "listing"]
  /\ queue' = [queue EXCEPT ![Cron] = Tenants]
  /\ started' = [started EXCEPT ![Cron] = now]
  /\ UNCHANGED <<cmsVars, now, tenant, listed, book, due, setup, outcome, upsets>>

OPEN_CASE_STATES == {"OPEN", "ASSIGNED", "INVESTIGATING", "PENDING_APPROVAL"}

Listed(c) == Drawn(c) /\ case[c].status \in OPEN_CASE_STATES

\* The first wait of the cron at tenant t: listOpen().
ListOpen(t) ==
  LET open == {c \in Cases : TenantOf[c] = t /\ Listed(c)}
  IN /\ pc[Cron] = "listing"
     /\ t \in queue[Cron]
     /\ queue' = [queue EXCEPT ![Cron] = @ \ {t}]
     /\ IF open # {}
        THEN /\ pc' = [pc EXCEPT ![Cron] = "scenarios"]
             /\ tenant' = [tenant EXCEPT ![Cron] = t]
             /\ listed' = [listed EXCEPT ![Cron] =
                             [c \in Cases |-> IF c \in open THEN case[c].priority ELSE None]]
             /\ UNCHANGED started
        ELSE /\ pc' = [pc EXCEPT ![Cron] = IF queue[Cron] = {t} THEN "idle" ELSE "listing"]
             /\ started' = [started EXCEPT ![Cron] = IF queue[Cron] = {t} THEN 0 ELSE @]
             /\ UNCHANGED <<tenant, listed>>
     /\ UNCHANGED <<cmsVars, now, book, due, setup, outcome, upsets>>

\* POST .../tick: the caller names cases of its tenant, open or not.
Request(w, t, asked) ==
  /\ pc[w] = "idle"
  /\ Upset
  /\ asked # {}
  /\ \A c \in asked : TenantOf[c] = t /\ Drawn(c)
  /\ pc' = [pc EXCEPT ![w] = "scenarios"]
  /\ tenant' = [tenant EXCEPT ![w] = t]
  /\ listed' = [listed EXCEPT ![w] =
                  [c \in Cases |-> IF c \in asked THEN case[c].priority ELSE None]]
  /\ UNCHANGED <<cmsVars, now, queue, started, book, due, setup, outcome>>

\* The scenarios arrive.  A request reads the clock now, the cron did before.
Scenarios(w) ==
  /\ pc[w] = "scenarios"
  /\ pc' = [pc EXCEPT ![w] = "resolving"]
  /\ book' = [book EXCEPT ![w] = scenario[tenant[w]]]
  /\ started' = IF w = Cron THEN started ELSE [started EXCEPT ![w] = now]
  /\ UNCHANGED <<cmsVars, now, queue, tenant, listed, due, setup, outcome, upsets>>

\* Seeded fault: only the highest level due is kept.
DueLevelsHighest(c, rule, time) ==
  IF rule = None \/ matrix[rule] = None THEN {}
  ELSE LET met == {l \in 1..Len(matrix[rule]) : case[c].created + matrix[rule][l] <= time}
       IN {<<c, l>> : l \in {k \in met : \A j \in met : j <= k}}

\* The levels of case c that are due at the given time.
DueLevels(c, rule, time) ==
  IF rule = None \/ matrix[rule] = None THEN {}
  ELSE {<<c, l>> : l \in {k \in 1..Len(matrix[rule]) : case[c].created + matrix[rule][k] <= time}}

\* computeDueEscalations(): the rule of one more case arrives.
Resolve(w, c) ==
  /\ pc[w] = "resolving"
  /\ listed[w][c] # None
  /\ listed' = [listed EXCEPT ![w][c] = None]
  /\ due' = [due EXCEPT ![w] = @ \cup DueLevels(c, book[w][listed[w][c]], started[w])]
  /\ pc' = [pc EXCEPT ![w] =
              IF \E k \in Cases \ {c} : listed[w][k] # None THEN "resolving" ELSE "filtering"]
  /\ UNCHANGED <<cmsVars, now, queue, tenant, started, book, setup, outcome, upsets>>

\* Seeded fault: the log is not asked.
FreshAll(w) == due[w]

\* The levels w found due that the log does not show.
Fresh(w) == due[w] \ Recent(log[tenant[w]])

\* filterAlreadyDispatched().
Filter(w) ==
  /\ pc[w] = "filtering"
  /\ IF Fresh(w) # {}
     THEN /\ pc' = [pc EXCEPT ![w] = "sending"]
          /\ due' = [due EXCEPT ![w] = Fresh(w)]
          /\ UNCHANGED <<queue, tenant, started, listed, book>>
     ELSE Through(w)
  /\ UNCHANGED <<cmsVars, now, setup, outcome, upsets>>

\* dispatchDueEscalations() appends r next: the levels of a case in order.
Foremost(w, r) ==
  /\ r \in due[w]
  /\ \A q \in due[w] : q[1] = r[1] => r[2] <= q[2]

\* dispatchDueEscalations(): one more entry is appended.
Send(w, r) ==
  /\ pc[w] = "sending"
  /\ Foremost(w, r)
  /\ Dispatch(w, r)
  /\ IF due[w] = {r}
     THEN Through(w)
     ELSE /\ due' = [due EXCEPT ![w] = @ \ {r}]
          /\ UNCHANGED <<pc, queue, tenant, started, listed, book>>
  /\ UNCHANGED <<cmsVars, now, setup, upsets>>

\* Seeded fault: a tick that fails never clears inFlight.
FailStuck(w) ==
  /\ pc[w] \in {"listing", "scenarios", "resolving", "filtering", "sending"}
  /\ Upset
  /\ pc' = [pc EXCEPT ![w] = "stuck"]
  /\ UNCHANGED <<cmsVars, now, queue, tenant, started, listed, book, due, setup, outcome>>

\* A store rejects the call w waits for: the cron leaves the tenant for this
\* tick, a request is answered 500.  An append may have been written.
Fail(w) ==
  /\ pc[w] \in {"listing", "scenarios", "resolving", "filtering", "sending"}
  /\ Upset
  /\ IF pc[w] = "listing"
     THEN \E t \in queue[w] :
            /\ queue' = [queue EXCEPT ![w] = @ \ {t}]
            /\ pc' = [pc EXCEPT ![w] = IF queue[w] = {t} THEN "idle" ELSE "listing"]
            /\ started' = [started EXCEPT ![w] = IF queue[w] = {t} THEN 0 ELSE @]
            /\ UNCHANGED <<tenant, listed, book, due>>
     ELSE Through(w)
  /\ \/ UNCHANGED outcome
     \/ pc[w] = "sending" /\ \E r \in due[w] : Foremost(w, r) /\ Dispatch(w, r)
  /\ UNCHANGED <<cmsVars, now, setup>>

-----------------------------------------------------------------------------
\* The admin's edits.

EditScenario(t, p) ==
  /\ Upset
  /\ \E r \in RuleIds \cup {None} :
       r # scenario[t][p] /\ scenario' = [scenario EXCEPT ![t][p] = r]
  /\ UNCHANGED <<cmsVars, now, locals, matrix, outcome>>

EditRule(r) ==
  /\ Upset
  /\ \E chain \in Chains \cup {None} :
       chain # matrix[r] /\ matrix' = [matrix EXCEPT ![r] = chain]
  /\ UNCHANGED <<cmsVars, now, locals, scenario, outcome>>

RunnerStep(w) ==
  \/ Scenarios(w)
  \/ \E c \in Cases : Resolve(w, c)
  \/ Filter(w)
  \/ \E r \in Refs : Send(w, r)

CronStep == RunTick \/ (\E t \in Tenants : ListOpen(t)) \/ RunnerStep(Cron)

Next ==
  \/ CmsNext /\ UNCHANGED <<locals, setup, outcome, upsets>>
  \/ CronStep
  \/ \E w \in Requests :
       RunnerStep(w) \/ \E t \in Tenants, asked \in SUBSET Cases : Request(w, t, asked)
  \/ \E w \in Runners : Fail(w)
  \/ \E t \in Tenants : TestFire(t)
  \/ \E t \in Tenants, p \in Priorities : EditScenario(t, p)
  \/ \E r \in RuleIds : EditRule(r)

Spec == Init /\ [][Next]_vars

\* The interval goes on firing, and the stores answer.
FairSpec == Spec /\ WF_vars(CronStep)

-----------------------------------------------------------------------------
\* Every variable has its type.
TypeOK ==
  /\ CmsTypeOK
  /\ scenario \in [Tenants -> [Priorities -> RuleIds \cup {None}]]
  /\ matrix \in [RuleIds -> Chains \cup {None}]
  /\ log \in [Tenants -> Seq(Refs \cup {Other})]
  /\ pc \in [Runners -> {"idle", "listing", "scenarios", "resolving", "filtering", "sending"}]
  /\ queue \in [Runners -> SUBSET Tenants]
  /\ tenant \in [Runners -> Tenants \cup {None}]
  /\ started \in [Runners -> Nat]
  /\ listed \in [Runners -> [Cases -> Priorities \cup {None}]]
  /\ book \in [Runners -> [Priorities -> RuleIds \cup {None}]]
  /\ due \in [Runners -> SUBSET Refs]
  /\ fired \subseteq Refs /\ repeated \subseteq Refs
  /\ raced \subseteq Refs /\ evicted \subseteq Refs
  /\ upsets \in Nat

\* The dispatch log is the source of truth of what fired: a role hears of a
\* level of a case once.  It hears of it again only if a request and the cron
\* dispatched it side by side, or the entry left the part of the log that the
\* filter reads.
OncePerLevel == repeated \subseteq raced \cup evicted

\* A role is never told before the roles below it: whatever the rules became,
\* and wherever ticks broke off, the levels of a case fire from the first on.
LadderClimbed == \A r \in fired : r[2] > 1 => <<r[1], r[2] - 1>> \in fired

\* Level l of case c is due under the rules in force.
Waiting(c, l) ==
  /\ Listed(c)
  /\ <<c, l>> \in DueLevels(c, scenario[TenantOf[c]][case[c].priority], now)

\* A level that stays due fires: a tick that broke off, at this tenant or at
\* another, is made up for by a later one, and requests do not get in the way.
Fires ==
  \A c \in Cases, l \in Levels :
    Waiting(c, l) ~> (<<c, l>> \in fired \/ ~Waiting(c, l))

=============================================================================
