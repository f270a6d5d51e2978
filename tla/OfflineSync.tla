----------------------------- MODULE OfflineSync -----------------------------
(***************************************************************************)
(* The offline queue of the field app (mobile/src/sync/offline_queue.ts):  *)
(* AsyncStorageOfflineQueue and the SyncRunner that replays it.            *)
(*                                                                         *)
(* The queue is one value of the device's storage.  Every operation reads  *)
(* it, waits, and writes the whole of it back; nothing keeps two           *)
(* operations apart, so a write may put back what another one replaced     *)
(* after the read.  A record that suffers this is "clobbered" here, and    *)
(* the properties say what still holds of the others.                      *)
(*                                                                         *)
(* A read or a write of the storage may be rejected; what is stored stays  *)
(* as it was then.  InMemoryOfflineQueue is the case in which a read and   *)
(* its write are one step.  The dispatcher and the server behind it are    *)
(* the environment.                                                        *)
(***************************************************************************)
EXTENDS Naturals, FiniteSets

CONSTANTS
  Keys,        \* idempotency keys
  Screens,     \* callers of enqueue(): one call at a time each
  Drains,      \* callers of drain(): one call at a time each
  None,        \* no entry
  MaxRetries,  \* the option of the same name
  MaxEnqueues, \* bound: actions put in the queue
  MaxOverlaps, \* bound: drains that begin while another is under way
  MaxUpsets    \* bound: deaths of the app, rejections of its storage, calls of clear()

ASSUME RetriesAssumption == MaxRetries \in Nat \ {0}
ASSUME CallersAssumption == Screens \cap Drains = {}

Callers == Screens \cup Drains

VARIABLES
  storage,   \* the stored entry of each key, or None
  pc,        \* where each caller waits
  copy,      \* what the operation under way read
  key,       \* the entry it is about
  patch,     \* what it will write for that entry, None to remove it
  listed,    \* the entries the caller's drain() listed and has not settled
  clock,     \* enqueued_at of the newest entry
  owed,      \* keys enqueue() took and the server has not answered for
  clobbered, \* keys an older entry of which was written back
  shared,    \* keys two drains listed at the same time
  taken,     \* what the server took: its key and enqueued_at
  kept,      \* keys the server took and the storage failed to remove
  orphaned,  \* keys in flight when the app died or their drain() rejected
  overlaps,  \* drains that began while another was under way
  upsets     \* deaths, rejections and calls of clear() so far

local == <<pc, copy, key, patch, listed>>
history == <<owed, taken, kept, clobbered, shared, orphaned>>
bounds == <<overlaps, upsets>>
vars == <<storage, local, clock, history, bounds>>

Status == {"pending", "in_flight", "failed_permanent"}
Entry == [status : Status, retry_count : 0..MaxRetries, enqueued_at : Nat]
ASSUME NoneAssumption == None \notin Keys /\ None \notin Entry

Writing == {"enqueueing", "marking", "settling", "recovering"}
Empty == [k \in Keys |-> None]

Is(k, status) == storage[k] # None /\ storage[k].status = status

Init ==
  /\ storage = Empty
  /\ pc = [c \in Callers |-> "idle"]
  /\ copy = [c \in Callers |-> Empty]
  /\ key = [c \in Callers |-> None]
  /\ patch = [c \in Callers |-> None]
  /\ listed = [c \in Callers |-> Empty]
  /\ clock = 0
  /\ owed = {} /\ taken = {} /\ kept = {}
  /\ clobbered = {} /\ shared = {} /\ orphaned = {}
  /\ overlaps = 0
  /\ upsets = 0

\* Caller c read the storage and goes on to write e for k.
Read(c, k, e, label) ==
  /\ pc' = [pc EXCEPT ![c] = label]
  /\ copy' = [copy EXCEPT ![c] = storage]
  /\ key' = [key EXCEPT ![c] = k]
  /\ patch' = [patch EXCEPT ![c] = e]

\* enqueue(): a key that is there already is left as it is.
Enqueue(c, k) ==
  /\ pc[c] = "idle"
  /\ clock < MaxEnqueues
  /\ storage[k] = None
  /\ clock' = clock + 1
  /\ Read(c, k, [status |-> "pending", retry_count |-> 0, enqueued_at |-> clock + 1], "enqueueing")
  /\ UNCHANGED <<storage, listed, history, bounds>>

\* The entries d has left to replay.
Todo(d) == {k \in Keys : listed[d][k] # None}

\* drain() begins: it lists the pending entries.
Drain(d) ==
  LET pending == {k \in Keys : Is(k, "pending")}
      overlap == \E c \in Drains \ {d} : Todo(c) # {}
  IN /\ pc[d] = "idle"
     /\ pending # {}
     /\ overlap => overlaps < MaxOverlaps
     /\ overlaps' = IF overlap THEN overlaps + 1 ELSE overlaps
     /\ pc' = [pc EXCEPT ![d] = "ready"]
     /\ listed' = [listed EXCEPT ![d] = [k \in Keys |-> IF k \in pending THEN storage[k] ELSE None]]
     /\ shared' = shared \cup {k \in pending : \E c \in Drains \ {d} : k \in Todo(c)}
     /\ UNCHANGED <<storage, copy, key, patch, clock, owed, taken, kept, clobbered, orphaned, upsets>>

\* Seeded fault: list() does not sort.
FirstAny(d, k) == k \in Todo(d)

\* k is the oldest of the entries d has left.
First(d, k) ==
  /\ k \in Todo(d)
  /\ \A j \in Todo(d) : listed[d][k].enqueued_at <= listed[d][j].enqueued_at

\* drain(): the next entry is to be marked in flight, if it is still there,
\* and is dispatched in either case.
Mark(d, k) ==
  /\ pc[d] = "ready"
  /\ First(d, k)
  /\ IF storage[k] # None
     THEN Read(d, k, [storage[k] EXCEPT !.status = "in_flight"], "marking")
     ELSE /\ pc' = [pc EXCEPT ![d] = "sending"]
          /\ key' = [key EXCEPT ![d] = k]
          /\ UNCHANGED <<copy, patch>>
  /\ UNCHANGED <<storage, listed, clock, history, bounds>>

\* Seeded fault: there is no retry limit.
RetriedForever(e, n) ==
  [status |-> "pending", retry_count |-> n + 1, enqueued_at |-> e.enqueued_at]

\* Seeded fault: the patch leaves retry_count out.
RetriedUncounted(e, n) ==
  [e EXCEPT !.status = IF n + 1 >= MaxRetries THEN "failed_permanent" ELSE "pending"]

\* The entry e after an attempt that failed; n had failed when it was listed.
Retried(e, n) ==
  [ status      |-> IF n + 1 >= MaxRetries THEN "failed_permanent" ELSE "pending",
    retry_count |-> n + 1,
    enqueued_at |-> e.enqueued_at ]

\* d is done with the entry it worked on.
Settled(d) ==
  /\ listed' = [listed EXCEPT ![d][key[d]] = None]
  /\ pc' = [pc EXCEPT ![d] = IF Todo(d) \subseteq {key[d]} THEN "idle" ELSE "ready"]
  /\ key' = [key EXCEPT ![d] = None]

\* Seeded fault: an action the server refused for good is removed.
SettledEntryDropped(e, n, answer) ==
  CASE answer \in {"ok", "refused"} -> None
    [] answer \in {"retry", "error"} -> Retried(e, n)

\* Seeded fault: an action the server took is put back like any other.
SettledEntryKept(e, n, answer) ==
  IF answer = "refused" THEN [e EXCEPT !.status = "failed_permanent"] ELSE Retried(e, n)

\* Seeded fault: the patch of a failed attempt leaves status out.
SettledEntryInFlight(e, n, answer) ==
  CASE answer = "ok" -> None
    [] answer = "refused" -> [e EXCEPT !.status = "failed_permanent"]
    [] answer \in {"retry", "error"} -> [e EXCEPT !.retry_count = n + 1]

\* What the entry e becomes: remove() after a success, else an update().
SettledEntry(e, n, answer) ==
  CASE answer = "ok" -> None
    [] answer = "refused" -> [e EXCEPT !.status = "failed_permanent"]
    [] answer \in {"retry", "error"} -> Retried(e, n)

\* What drain() does with an answer: remove() or update() reads the storage,
\* and is over if the entry is gone.  The catch of drain() does the update for
\* an answer that is an error, its try the others.
Settle(d, answer) ==
  LET k == key[d]
  IN IF storage[k] # None
     THEN /\ Read(d, k, SettledEntry(storage[k], listed[d][k].retry_count, answer),
                  IF answer \in {"ok", "retry"} THEN "settling" ELSE "recovering")
          /\ UNCHANGED listed
     ELSE Settled(d) /\ UNCHANGED <<copy, patch>>

\* The server takes the entry that d sends.
Takes(d) ==
  /\ owed' = owed \ {key[d]}
  /\ taken' = taken \cup {<<key[d], listed[d][key[d]].enqueued_at>>}

\* The dispatcher returns true or false, or throws PermanentSyncError or
\* another error.
Answer(d, answer) ==
  /\ pc[d] = "sending"
  /\ IF answer = "ok" THEN Takes(d) ELSE UNCHANGED <<owed, taken>>
  /\ Settle(d, answer)
  /\ UNCHANGED <<storage, clock, kept, clobbered, shared, orphaned, bounds>>

\* The catch of drain() takes the error of the storage for one of the dispatcher.
Catch(d) ==
  /\ pc[d] = "catching"
  /\ Settle(d, "error")
  /\ UNCHANGED <<storage, clock, history, bounds>>

\* writeAll(): the whole map goes back, with one entry changed.
Write(c) ==
  /\ pc[c] \in Writing
  /\ storage' = [copy[c] EXCEPT ![key[c]] = patch[c]]
  /\ clobbered' = clobbered \cup {k \in Keys : storage[k] # copy[c][k]}
  /\ owed' = IF pc[c] = "enqueueing" THEN owed \cup {key[c]} ELSE owed
  /\ copy' = [copy EXCEPT ![c] = Empty]
  /\ patch' = [patch EXCEPT ![c] = None]
  /\ \/ pc[c] = "enqueueing" /\ Settled(c)
     \/ pc[c] = "marking" /\ pc' = [pc EXCEPT ![c] = "sending"] /\ UNCHANGED <<key, listed>>
     \/ pc[c] \in {"settling", "recovering"} /\ Settled(c)
  /\ UNCHANGED <<clock, taken, kept, shared, orphaned, bounds>>

\* The operation under way is given up; c goes on at label.
Dropped(c, label) ==
  /\ pc' = [pc EXCEPT ![c] = label]
  /\ copy' = [copy EXCEPT ![c] = Empty]
  /\ patch' = [patch EXCEPT ![c] = None]

\* A getItem() or setItem() that the call of c waits for is rejected.
StorageFails(c) ==
  /\ upsets < MaxUpsets
  /\ upsets' = upsets + 1
  /\ UNCHANGED <<storage, clock, clobbered, shared, overlaps>>

\* It is in the try of drain(), whose catch goes on: the dispatcher had returned
\* true or false, so the server may have taken the action.
FailsInTry(d) ==
  /\ StorageFails(d)
  /\ \/ pc[d] = "sending" /\ UNCHANGED <<owed, taken, kept>>
     \/ pc[d] = "sending" /\ Takes(d) /\ kept' = kept \cup {key[d]}
     \/ /\ pc[d] = "settling"
        /\ kept' = IF patch[d] = None THEN kept \cup {key[d]} ELSE kept
        /\ UNCHANGED <<owed, taken>>
  /\ Dropped(d, "catching")
  /\ UNCHANGED <<key, listed, orphaned>>

\* It is not, and the call rejects: an enqueue() that is to write, or a drain()
\* that is to mark an entry, or is in its catch.
Rejects(c) ==
  /\ StorageFails(c)
  /\ pc[c] \in {"enqueueing", "ready", "marking", "sending", "catching", "recovering"}
  /\ Dropped(c, "idle")
  /\ key' = [key EXCEPT ![c] = None]
  /\ listed' = [listed EXCEPT ![c] = Empty]
  /\ orphaned' = orphaned \cup {k \in Keys : k = key[c] /\ Is(k, "in_flight")}
  /\ UNCHANGED <<owed, taken, kept>>

\* clear(): the key is removed from the storage.
Clear ==
  /\ upsets < MaxUpsets
  /\ upsets' = upsets + 1
  /\ storage' = Empty
  /\ owed' = {}
  /\ UNCHANGED <<local, clock, taken, kept, clobbered, shared, orphaned, overlaps>>

\* The app dies: what it waited for is forgotten, the storage stays.
Kill ==
  /\ upsets < MaxUpsets
  /\ upsets' = upsets + 1
  /\ pc' = [c \in Callers |-> "idle"]
  /\ copy' = [c \in Callers |-> Empty]
  /\ key' = [c \in Callers |-> None]
  /\ patch' = [c \in Callers |-> None]
  /\ listed' = [c \in Callers |-> Empty]
  /\ orphaned' = orphaned \cup {k \in Keys : Is(k, "in_flight")}
  /\ UNCHANGED <<storage, clock, owed, taken, kept, clobbered, shared, overlaps>>

Answers == {"ok", "retry", "refused", "error"}

DrainStep(d) ==
  \/ Drain(d)
  \/ \E k \in Keys : Mark(d, k)
  \/ \E answer \in Answers : Answer(d, answer)
  \/ Catch(d)
  \/ Write(d)
  \/ FailsInTry(d)
  \/ Rejects(d)

ScreenStep(c) == Write(c) \/ Rejects(c) \/ \E k \in Keys : Enqueue(c, k)

Next ==
  \/ \E c \in Screens : ScreenStep(c)
  \/ \E d \in Drains : DrainStep(d)
  \/ Clear
  \/ Kill

Spec == Init /\ [][Next]_vars

-----------------------------------------------------------------------------
\* Every variable has its type.
TypeOK ==
  /\ storage \in [Keys -> Entry \cup {None}]
  /\ pc \in [Callers -> {"idle", "ready", "sending", "catching"} \cup Writing]
  /\ copy \in [Callers -> [Keys -> Entry \cup {None}]]
  /\ key \in [Callers -> Keys \cup {None}]
  /\ patch \in [Callers -> Entry \cup {None}]
  /\ listed \in [Callers -> [Keys -> Entry \cup {None}]]
  /\ clock \in Nat
  /\ owed \subseteq Keys
  /\ taken \subseteq Keys \X Nat
  /\ clobbered \subseteq Keys
  /\ shared \subseteq Keys
  /\ kept \subseteq Keys
  /\ orphaned \subseteq Keys
  /\ overlaps \in Nat
  /\ upsets \in Nat

\* An action the app accepted stays in the queue until the server answered for
\* it, through deaths, refusals and two drains at once: only an older copy of
\* the queue, written back by an operation that read it earlier, loses it.
NothingLost == \A k \in owed \ clobbered : storage[k] # None

\* An entry in flight is one that a drain is about to settle. drain() lists the
\* pending ones only, so any other would wait for ever: a death of the app, a
\* drain() that its storage makes reject, and an older copy written back are the
\* ways to get one.
InFlightHeld ==
  \A k \in Keys \ (clobbered \cup orphaned) :
    Is(k, "in_flight") =>
      \E d \in Drains : key[d] = k /\ pc[d] \in {"sending", "settling", "catching", "recovering"}

\* "Sequential by design": no action is sent before an older one of the queue
\* had its first try.  (Only the first: one that was put back is overtaken.)
FirstTriesInOrder ==
  \A d \in Drains, j \in Keys \ clobbered, k \in Keys \ clobbered :
    (/\ pc[d] = "sending" /\ key[d] = k /\ storage[k] # None
     /\ storage[k].enqueued_at = listed[d][k].enqueued_at
     /\ Is(j, "pending") /\ storage[j].enqueued_at < storage[k].enqueued_at) =>
      storage[j].retry_count > 0

\* An action the server took is not sent again, whatever died or was cleared in
\* between: only two drains that list it at once, a removal that the storage
\* rejects, and an older copy written back repeat it.
TakenOnce ==
  \A d \in Drains :
    (pc[d] = "sending" /\ <<key[d], listed[d][key[d]].enqueued_at>> \in taken) =>
      key[d] \in clobbered \cup shared \cup kept

\* The budget of an entry only shrinks, and one that failed for good stays so,
\* unless two drains listed it at once or an older copy was written back.
BudgetSpent ==
  [][\A k \in Keys \ (clobbered' \cup shared) :
       (storage[k] # None /\ storage'[k] # None
          /\ storage'[k].enqueued_at = storage[k].enqueued_at) =>
         /\ storage[k].retry_count <= storage'[k].retry_count
         /\ storage[k].status = "failed_permanent" => storage'[k] = storage[k]
         /\ (storage[k].status = "in_flight" /\ storage'[k].status = "pending") =>
              storage[k].retry_count < storage'[k].retry_count]_vars

=============================================================================
