------------------------- MODULE OfflineSyncProofs -------------------------
(***************************************************************************)
(* Proofs about OfflineSync, for every value of its constants.             *)
(*                                                                         *)
(* What makes them short: a write that does not clobber the entry k finds  *)
(* k as its operation read it, so for k the read and the write are one     *)
(* step (WriteEffect).                                                     *)
(***************************************************************************)
EXTENDS OfflineSync, TLAPS

\* A pending entry has an attempt left.
Sound == {e \in Entry : e.status = "pending" => e.retry_count < MaxRetries}
Slot == Sound \cup {None}

Typed ==
  /\ TypeOK
  /\ storage \in [Keys -> Slot]
  /\ copy \in [Callers -> [Keys -> Slot]]
  /\ patch \in [Callers -> Slot]
  /\ listed \in [Callers -> [Keys -> Slot]]
  /\ \A d \in Callers : \A k \in Todo(d) : listed[d][k].status = "pending"

\* What the locals of a caller hold while it waits.
WellPlaced(c) ==
  /\ c \in Screens => pc[c] \in {"idle", "enqueueing"} /\ Todo(c) = {}
  /\ c \in Drains => pc[c] # "enqueueing"
  /\ pc[c] \in Writing \cup {"sending", "catching"} => key[c] \in Keys
  /\ pc[c] \in {"marking", "sending", "settling", "catching", "recovering"} => key[c] \in Todo(c)
  /\ pc[c] \in {"marking", "settling", "recovering"} => copy[c][key[c]] # None
  /\ pc[c] = "enqueueing" =>
       /\ copy[c][key[c]] = None
       /\ patch[c] # None
       /\ patch[c].status = "pending"
       /\ patch[c].retry_count = 0
  /\ pc[c] = "marking" => patch[c] = [copy[c][key[c]] EXCEPT !.status = "in_flight"]
  /\ (pc[c] \in {"settling", "recovering"} /\ patch[c] # None) =>
       /\ patch[c].enqueued_at = copy[c][key[c]].enqueued_at
       /\ patch[c].status # "in_flight"
       /\ \/ patch[c].retry_count = listed[c][key[c]].retry_count + 1
          \/ patch[c].status = "failed_permanent" /\ patch[c].retry_count = copy[c][key[c]].retry_count

Placed == \A c \in Callers : WellPlaced(c)

TypeInv == Typed /\ Placed

-----------------------------------------------------------------------------
\* Types.

LEMMA ReadType ==
  ASSUME TypeInv, NEW c \in Callers, NEW k \in Keys, NEW e \in Slot,
         NEW label \in {"idle", "ready", "sending", "catching"} \cup Writing, Read(c, k, e, label)
  PROVE  /\ pc' \in [Callers -> {"idle", "ready", "sending", "catching"} \cup Writing]
         /\ copy' \in [Callers -> [Keys -> Slot]]
         /\ copy' \in [Callers -> [Keys -> Entry \cup {None}]]
         /\ key' \in [Callers -> Keys \cup {None}]
         /\ patch' \in [Callers -> Slot]
         /\ patch' \in [Callers -> Entry \cup {None}]
         /\ pc'[c] = label /\ copy'[c] = storage /\ key'[c] = k /\ patch'[c] = e
         /\ \A b \in Callers \ {c} :
              pc'[b] = pc[b] /\ copy'[b] = copy[b] /\ key'[b] = key[b] /\ patch'[b] = patch[b]
<1>1. Slot \subseteq Entry \cup {None}
  BY DEF Slot, Sound
<1>. QED
  BY <1>1 DEF Read, TypeInv, Typed, TypeOK

LEMMA SettledType ==
  ASSUME TypeInv, NEW d \in Callers, key[d] \in Keys, Settled(d)
  PROVE  /\ pc' \in [Callers -> {"idle", "ready", "sending", "catching"} \cup Writing]
         /\ key' \in [Callers -> Keys \cup {None}]
         /\ listed' \in [Callers -> [Keys -> Slot]]
         /\ listed' \in [Callers -> [Keys -> Entry \cup {None}]]
         /\ pc'[d] \in {"idle", "ready"} /\ (Todo(d) = {} => pc'[d] = "idle")
         /\ listed'[d] = [listed[d] EXCEPT ![key[d]] = None]
         /\ Todo(d)' = Todo(d) \ {key[d]}
         /\ \A b \in Callers \ {d} :
              pc'[b] = pc[b] /\ key'[b] = key[b] /\ listed'[b] = listed[b] /\ Todo(b)' = Todo(b)
         /\ \A b \in Callers : \A j \in Todo(b)' : j \in Todo(b) /\ listed'[b][j] = listed[b][j]
<1>1. Slot \subseteq Entry \cup {None}
  BY DEF Slot, Sound
<1>2. /\ pc' \in [Callers -> {"idle", "ready", "sending", "catching"} \cup Writing]
      /\ pc'[d] \in {"idle", "ready"} /\ (Todo(d) = {} => pc'[d] = "idle")
      /\ \A b \in Callers \ {d} : pc'[b] = pc[b]
  BY DEF Settled, TypeInv, Typed, TypeOK
<1>3. /\ key' \in [Callers -> Keys \cup {None}]
      /\ \A b \in Callers \ {d} : key'[b] = key[b]
  BY DEF Settled, TypeInv, Typed, TypeOK
<1>4. /\ listed' \in [Callers -> [Keys -> Slot]]
      /\ listed'[d] = [listed[d] EXCEPT ![key[d]] = None]
      /\ \A b \in Callers \ {d} : listed'[b] = listed[b]
  BY DEF Settled, TypeInv, Typed, Slot
<1>5. listed[d] \in [Keys -> Slot]
  BY DEF TypeInv, Typed
<1>6. Todo(d)' = Todo(d) \ {key[d]}
  BY <1>4, <1>5 DEF Todo
<1>7. ASSUME NEW b \in Callers, NEW j \in Todo(b)'
      PROVE  j \in Todo(b) /\ listed'[b][j] = listed[b][j]
  <2>1. CASE b = d
    BY <1>4, <1>5, <1>6, <1>7, <2>1 DEF Todo
  <2>2. CASE b # d
    BY <1>4, <1>7, <2>2 DEF Todo
  <2>. QED
    BY <2>1, <2>2
<1>8. \A b \in Callers \ {d} : Todo(b)' = Todo(b)
  BY <1>4 DEF Todo
<1>. QED
  BY <1>1, <1>2, <1>3, <1>4, <1>6, <1>7, <1>8

LEMMA RetriedSlot ==
  ASSUME NEW e \in Sound, NEW n \in Nat, n < MaxRetries
  PROVE  /\ Retried(e, n) \in Sound
         /\ Retried(e, n).enqueued_at = e.enqueued_at
         /\ Retried(e, n).status \in {"pending", "failed_permanent"}
         /\ Retried(e, n).retry_count = n + 1
<1>1. n + 1 \in 0..MaxRetries
  BY RetriesAssumption
<1>2. e.enqueued_at \in Nat
  BY DEF Sound, Entry
<1>3. Retried(e, n) \in Entry
  BY <1>1, <1>2 DEF Retried, Entry, Status
<1>. QED
  BY <1>1, <1>3, RetriesAssumption DEF Retried, Sound

LEMMA SettledEntrySlot ==
  ASSUME NEW e \in Sound, NEW n \in Nat, n < MaxRetries, NEW answer \in Answers
  PROVE  /\ SettledEntry(e, n, answer) \in Slot
         /\ (SettledEntry(e, n, answer) = None) <=> (answer = "ok")
         /\ SettledEntry(e, n, answer) # None =>
              /\ SettledEntry(e, n, answer).enqueued_at = e.enqueued_at
              /\ SettledEntry(e, n, answer).status \in {"pending", "failed_permanent"}
              /\ \/ SettledEntry(e, n, answer).retry_count = n + 1
                 \/ /\ SettledEntry(e, n, answer).status = "failed_permanent"
                    /\ SettledEntry(e, n, answer).retry_count = e.retry_count
<1>1. CASE answer = "ok"
  BY <1>1 DEF SettledEntry, Slot
<1>2. CASE answer = "refused"
  <2>1. SettledEntry(e, n, answer) = [e EXCEPT !.status = "failed_permanent"]
    BY <1>2 DEF SettledEntry
  <2>2. /\ e \in [status : Status, retry_count : 0..MaxRetries, enqueued_at : Nat]
        /\ e \in Entry
    BY DEF Sound, Entry
  <2>3. SettledEntry(e, n, answer) \in Entry /\ SettledEntry(e, n, answer).status = "failed_permanent"
        /\ SettledEntry(e, n, answer).retry_count = e.retry_count
        /\ SettledEntry(e, n, answer).enqueued_at = e.enqueued_at
    BY <2>1, <2>2 DEF Entry, Status
  <2>. QED
    BY <1>2, <2>3, NoneAssumption DEF Sound, Slot
<1>3. CASE answer \in {"retry", "error"}
  <2>1. SettledEntry(e, n, answer) = Retried(e, n)
    BY <1>3 DEF SettledEntry
  <2>. QED
    BY <1>3, <2>1, RetriedSlot, NoneAssumption DEF Sound, Slot
<1>. QED
  BY <1>1, <1>2, <1>3 DEF Answers

\* WellPlaced speaks of the locals of c only.
LEMMA PlacedSame ==
  ASSUME NEW c \in Callers, WellPlaced(c),
         pc'[c] = pc[c], copy'[c] = copy[c], key'[c] = key[c], patch'[c] = patch[c], listed'[c] = listed[c]
  PROVE  WellPlaced(c)'
BY DEF WellPlaced, Todo

LEMMA TypeInit == Init => TypeInv
<1>. SUFFICES ASSUME Init PROVE TypeInv
  OBVIOUS
<1>1. Typed
  BY DEF Init, Typed, TypeOK, Empty, Slot, Todo
<1>2. Placed
  BY DEF Init, Placed, WellPlaced, Empty, Todo, Writing
<1>. QED
  BY <1>1, <1>2 DEF TypeInv

LEMMA TypeEnqueue ==
  ASSUME TypeInv, NEW c \in Screens, NEW k \in Keys, Enqueue(c, k)
  PROVE  TypeInv'
<1>. DEFINE e == [status |-> "pending", retry_count |-> 0, enqueued_at |-> clock + 1]
<1>1. c \in Callers /\ c \notin Drains /\ clock \in Nat
  BY CallersAssumption DEF Callers, TypeInv, Typed, TypeOK
<1>2. e \in Sound /\ e # None /\ e \in Slot
  BY <1>1, RetriesAssumption, NoneAssumption DEF Sound, Entry, Status, Slot
<1>. HIDE DEF e
<1>3. /\ storage[k] = None /\ clock' = clock + 1 /\ Read(c, k, e, "enqueueing")
      /\ UNCHANGED <<storage, listed, history, bounds>>
  BY DEF Enqueue, e
<1>4. e.status = "pending" /\ e.retry_count = 0
  BY DEF e
<1>5. Typed'
  BY <1>1, <1>2, <1>3, ReadType DEF TypeInv, Typed, TypeOK, history, bounds, Todo, Writing
<1>6. ASSUME NEW b \in Callers PROVE WellPlaced(b)'
  <2>1. CASE b = c
    <3>1. /\ pc'[c] = "enqueueing" /\ copy'[c] = storage /\ key'[c] = k /\ patch'[c] = e
          /\ listed' = listed
      BY <1>1, <1>2, <1>3, ReadType DEF Writing
    <3>2. WellPlaced(c)
      BY <1>1 DEF TypeInv, Placed
    <3>3. Todo(c)' = {}
      BY <3>1, <3>2 DEF WellPlaced, Todo
    <3>. QED
      BY <1>1, <1>2, <1>3, <1>4, <2>1, <3>1, <3>3 DEF WellPlaced, Writing
  <2>2. CASE b # c
    BY <1>1, <1>2, <1>3, <2>2, ReadType, PlacedSame DEF TypeInv, Placed, Writing
  <2>. QED
    BY <2>1, <2>2
<1>. QED
  BY <1>5, <1>6 DEF TypeInv, Placed

LEMMA TypeDrain ==
  ASSUME TypeInv, NEW d \in Drains, Drain(d)
  PROVE  TypeInv'
<1>. DEFINE list == [k \in Keys |-> IF k \in {j \in Keys : Is(j, "pending")} THEN storage[k] ELSE None]
<1>1. d \in Callers /\ d \notin Screens
  BY CallersAssumption DEF Callers
<1>2. /\ pc[d] = "idle"
      /\ pc' = [pc EXCEPT ![d] = "ready"]
      /\ listed' = [listed EXCEPT ![d] = list]
      /\ shared' \subseteq Keys
      /\ overlaps' \in Nat
      /\ UNCHANGED <<storage, copy, key, patch, clock, owed, taken, kept, clobbered, orphaned, upsets>>
  BY DEF Drain, TypeInv, Typed, TypeOK
<1>3. /\ list \in [Keys -> Slot] /\ list \in [Keys -> Entry \cup {None}]
      /\ \A k \in Keys : list[k] # None => list[k].status = "pending"
  BY DEF Is, TypeInv, Typed, TypeOK, Slot
<1>. HIDE DEF list
<1>4. /\ listed' \in [Callers -> [Keys -> Slot]] /\ listed' \in [Callers -> [Keys -> Entry \cup {None}]]
      /\ listed'[d] = list /\ \A b \in Callers \ {d} : listed'[b] = listed[b]
  BY <1>1, <1>2, <1>3 DEF TypeInv, Typed, TypeOK
<1>5. /\ pc' \in [Callers -> {"idle", "ready", "sending", "catching"} \cup Writing]
      /\ pc'[d] = "ready" /\ \A b \in Callers \ {d} : pc'[b] = pc[b]
  BY <1>1, <1>2 DEF TypeInv, Typed, TypeOK
<1>6. Typed'
  <2>1. \A b \in Callers : \A k \in Todo(b)' : listed'[b][k].status = "pending"
    BY <1>3, <1>4 DEF Todo, TypeInv, Typed
  <2>. QED
    BY <1>2, <1>4, <1>5, <2>1 DEF TypeInv, Typed, TypeOK
<1>7. ASSUME NEW b \in Callers PROVE WellPlaced(b)'
  <2>1. CASE b = d
    BY <1>1, <1>5, <2>1 DEF WellPlaced, Writing
  <2>2. CASE b # d
    BY <1>2, <1>4, <1>5, <2>2, PlacedSame DEF TypeInv, Placed
  <2>. QED
    BY <2>1, <2>2
<1>. QED
  BY <1>6, <1>7 DEF TypeInv, Placed

LEMMA TypeMark ==
  ASSUME TypeInv, NEW d \in Drains, NEW k \in Keys, Mark(d, k)
  PROVE  TypeInv'
<1>1. d \in Callers /\ d \notin Screens /\ k \in Todo(d) /\ UNCHANGED <<storage, listed, clock, history, bounds>>
  BY CallersAssumption DEF Callers, Mark, First
<1>2. CASE storage[k] # None
  <2>. DEFINE e == [storage[k] EXCEPT !.status = "in_flight"]
  <2>1. Read(d, k, e, "marking")
    BY <1>2 DEF Mark
  <2>2. storage[k] \in Sound
    BY <1>2 DEF TypeInv, Typed, Slot
  <2>3. e \in Entry /\ e.status = "in_flight"
    BY <2>2 DEF Sound, Entry, Status
  <2>4. e \in Sound /\ e \in Slot /\ e # None
    BY <2>3, NoneAssumption DEF Sound, Slot
  <2>. HIDE DEF e
  <2>5. Typed'
    BY <1>1, <2>1, <2>4, ReadType DEF TypeInv, Typed, TypeOK, history, bounds, Todo, Writing
  <2>6. ASSUME NEW b \in Callers PROVE WellPlaced(b)'
    <3>1. CASE b = d
      <4>1. pc'[d] = "marking" /\ copy'[d] = storage /\ key'[d] = k /\ patch'[d] = e /\ listed'[d] = listed[d]
        BY <1>1, <2>1, <2>4, ReadType DEF Writing
      <4>. QED
        BY <1>1, <1>2, <3>1, <4>1 DEF e, WellPlaced, Todo, Writing
    <3>2. CASE b # d
      BY <1>1, <2>1, <2>4, <3>2, ReadType, PlacedSame DEF TypeInv, Placed, Writing
    <3>. QED
      BY <3>1, <3>2
  <2>. QED
    BY <2>5, <2>6 DEF TypeInv, Placed
<1>3. CASE storage[k] = None
  <2>1. /\ pc' = [pc EXCEPT ![d] = "sending"] /\ key' = [key EXCEPT ![d] = k]
        /\ UNCHANGED <<copy, patch>>
    BY <1>3 DEF Mark
  <2>2. Typed'
    BY <1>1, <2>1 DEF TypeInv, Typed, TypeOK, history, bounds, Todo
  <2>3. ASSUME NEW b \in Callers PROVE WellPlaced(b)'
    <3>1. CASE b = d
      BY <1>1, <2>1, <3>1 DEF TypeInv, Typed, TypeOK, WellPlaced, Todo, Writing
    <3>2. CASE b # d
      <4>1. pc'[b] = pc[b] /\ key'[b] = key[b]
        BY <1>1, <2>1, <3>2 DEF TypeInv, Typed, TypeOK
      <4>. QED
        BY <1>1, <2>1, <4>1, PlacedSame DEF TypeInv, Placed
    <3>. QED
      BY <3>1, <3>2
  <2>. QED
    BY <2>2, <2>3 DEF TypeInv, Placed
<1>. QED
  BY <1>2, <1>3

\* d does with an answer what drain() does, in its try or in its catch.
Settles(d, answer) ==
  /\ pc[d] \in {"sending", "catching"}
  /\ Settle(d, answer)
  /\ owed' = IF answer = "ok" THEN owed \ {key[d]} ELSE owed
  /\ taken' = IF answer = "ok" THEN taken \cup {<<key[d], listed[d][key[d]].enqueued_at>>} ELSE taken
  /\ answer = "ok" => pc[d] = "sending"
  /\ UNCHANGED <<storage, clock, kept, clobbered, shared, orphaned, bounds>>

\* The storage rejects under c.
Fails(c) == Rejects(c) \/ (c \in Drains /\ FailsInTry(c))

LEMMA TypeSettles ==
  ASSUME TypeInv, NEW d \in Drains, NEW answer \in Answers, Settles(d, answer)
  PROVE  TypeInv'
<1>. DEFINE k == key[d]
<1>. DEFINE label == IF answer \in {"ok", "retry"} THEN "settling" ELSE "recovering"
<1>1. /\ d \in Callers /\ d \notin Screens /\ pc[d] \in {"sending", "catching"}
      /\ UNCHANGED <<storage, clock, kept, clobbered, shared, orphaned, bounds>>
  BY CallersAssumption DEF Callers, Settles
<1>2. k \in Todo(d) /\ k \in Keys
  BY <1>1 DEF TypeInv, Placed, WellPlaced, Todo
<1>3. owed' \subseteq Keys /\ taken' \subseteq Keys \X Nat
  <2>1. listed[d][k] \in Entry
    BY <1>1, <1>2 DEF TypeInv, Typed, TypeOK, Todo
  <2>. QED
    BY <1>2, <2>1 DEF Settles, TypeInv, Typed, TypeOK, Entry
<1>4. CASE storage[k] # None
  <2>. DEFINE n == listed[d][k].retry_count
              e == SettledEntry(storage[k], n, answer)
  <2>1. Read(d, k, e, label) /\ listed' = listed
    BY <1>4 DEF Settles, Settle
  <2>0. label \in {"settling", "recovering"}
    OBVIOUS
  <2>. HIDE DEF label
  <2>2. storage[k] \in Sound
    BY <1>2, <1>4 DEF TypeInv, Typed, Slot
  <2>3. n \in Nat /\ n < MaxRetries
    <3>1. listed[d][k] \in Sound /\ listed[d][k].status = "pending"
      BY <1>1, <1>2 DEF TypeInv, Typed, Slot, Todo
    <3>. QED
      BY <3>1, RetriesAssumption DEF Sound, Entry
  <2>. HIDE DEF n
  <2>4. /\ e \in Slot
        /\ e # None =>
             /\ e.enqueued_at = storage[k].enqueued_at
             /\ e.status # "in_flight"
             /\ e.retry_count = n + 1 \/ (e.status = "failed_permanent" /\ e.retry_count = storage[k].retry_count)
    BY <2>2, <2>3, SettledEntrySlot
  <2>. HIDE DEF e
  <2>5. Typed'
    BY <1>1, <1>2, <1>3, <2>0, <2>1, <2>4, ReadType DEF TypeInv, Typed, TypeOK, bounds, Todo, Writing
  <2>6. ASSUME NEW b \in Callers PROVE WellPlaced(b)'
    <3>1. CASE b = d
      <4>1. /\ pc'[d] \in {"settling", "recovering"} /\ copy'[d] = storage /\ key'[d] = k /\ patch'[d] = e
            /\ Todo(d)' = Todo(d) /\ listed' = listed
        BY <1>1, <1>2, <2>0, <2>1, <2>4, ReadType DEF Writing, Todo
      <4>. HIDE DEF k
      <4>. QED
        BY <1>1, <1>2, <1>4, <2>4, <3>1, <4>1 DEF WellPlaced, Writing, n
    <3>2. CASE b # d
      BY <1>1, <1>2, <2>0, <2>1, <2>4, <3>2, ReadType, PlacedSame DEF TypeInv, Placed, Writing
    <3>. QED
      BY <3>1, <3>2
  <2>. QED
    BY <2>5, <2>6 DEF TypeInv, Placed
<1>5. CASE storage[k] = None
  <2>1. Settled(d) /\ UNCHANGED <<copy, patch>>
    BY <1>5 DEF Settles, Settle
  <2>2. Typed'
    <3>1. \A b \in Callers : \A j \in Todo(b)' : listed'[b][j].status = "pending"
      <4>1. \A b \in Callers : \A j \in Todo(b)' : j \in Todo(b) /\ listed'[b][j] = listed[b][j]
        BY <1>1, <1>2, <2>1, SettledType
      <4>. QED
        BY <4>1 DEF TypeInv, Typed
    <3>. QED
      BY <1>1, <1>2, <1>3, <2>1, <3>1, SettledType DEF TypeInv, Typed, TypeOK, bounds
  <2>3. ASSUME NEW b \in Callers PROVE WellPlaced(b)'
    <3>1. CASE b = d
      <4>1. pc'[d] \in {"idle", "ready"}
        BY <1>1, <1>2, <2>1, SettledType
      <4>. QED
        BY <1>1, <3>1, <4>1 DEF WellPlaced, Writing
    <3>2. CASE b # d
      <4>1. pc'[b] = pc[b] /\ key'[b] = key[b] /\ listed'[b] = listed[b]
        BY <1>1, <1>2, <2>1, <3>2, SettledType
      <4>. QED
        BY <2>1, <4>1, PlacedSame DEF TypeInv, Placed
    <3>. QED
      BY <3>1, <3>2
  <2>. QED
    BY <2>2, <2>3 DEF TypeInv, Placed
<1>. QED
  BY <1>4, <1>5

LEMMA TypeWrite ==
  ASSUME TypeInv, NEW c \in Callers, Write(c)
  PROVE  TypeInv'
<1>1. key[c] \in Keys /\ WellPlaced(c)
  BY DEF Write, TypeInv, Placed, WellPlaced
<1>2. /\ copy' = [copy EXCEPT ![c] = Empty] /\ patch' = [patch EXCEPT ![c] = None]
      /\ storage' = [copy[c] EXCEPT ![key[c]] = patch[c]]
      /\ UNCHANGED <<clock, taken, kept, shared, orphaned, bounds>>
  BY DEF Write
<1>3. /\ storage' \in [Keys -> Slot]
      /\ copy' \in [Callers -> [Keys -> Slot]] /\ patch' \in [Callers -> Slot]
      /\ clobbered' \subseteq Keys /\ owed' \subseteq Keys
      /\ \A b \in Callers \ {c} : copy'[b] = copy[b] /\ patch'[b] = patch[b]
  BY <1>1, <1>2 DEF Write, TypeInv, Typed, TypeOK, Empty, Slot
<1>4. /\ storage' \in [Keys -> Entry \cup {None}]
      /\ copy' \in [Callers -> [Keys -> Entry \cup {None}]] /\ patch' \in [Callers -> Entry \cup {None}]
  <2>1. Slot \subseteq Entry \cup {None}
    BY DEF Slot, Sound
  <2>. QED
    BY <1>3, <2>1
<1>5. CASE Settled(c)
  <2>1. Typed'
    <3>1. \A b \in Callers : \A j \in Todo(b)' : listed'[b][j].status = "pending"
      <4>1. \A b \in Callers : \A j \in Todo(b)' : j \in Todo(b) /\ listed'[b][j] = listed[b][j]
        BY <1>1, <1>5, SettledType
      <4>. QED
        BY <4>1 DEF TypeInv, Typed
    <3>. QED
      BY <1>1, <1>2, <1>3, <1>4, <1>5, <3>1, SettledType DEF TypeInv, Typed, TypeOK, bounds
  <2>2. ASSUME NEW b \in Callers PROVE WellPlaced(b)'
    <3>1. CASE b = c
      <4>1. /\ pc'[c] \in {"idle", "ready"} /\ (Todo(c) = {} => pc'[c] = "idle")
            /\ Todo(c)' = Todo(c) \ {key[c]}
        BY <1>1, <1>5, SettledType
      <4>. QED
        BY <1>1, <3>1, <4>1, CallersAssumption DEF WellPlaced, Writing
    <3>2. CASE b # c
      <4>1. pc'[b] = pc[b] /\ key'[b] = key[b] /\ listed'[b] = listed[b]
        BY <1>1, <1>5, <3>2, SettledType
      <4>. QED
        BY <1>3, <3>2, <4>1, PlacedSame DEF TypeInv, Placed
    <3>. QED
      BY <3>1, <3>2
  <2>. QED
    BY <2>1, <2>2 DEF TypeInv, Placed
<1>6. CASE pc[c] = "marking" /\ pc' = [pc EXCEPT ![c] = "sending"] /\ UNCHANGED <<key, listed>>
  <2>1. Typed'
    BY <1>2, <1>3, <1>4, <1>6 DEF TypeInv, Typed, TypeOK, bounds, Todo
  <2>2. pc'[c] = "sending" /\ \A b \in Callers \ {c} : pc'[b] = pc[b]
    BY <1>6 DEF TypeInv, Typed, TypeOK
  <2>3. ASSUME NEW b \in Callers PROVE WellPlaced(b)'
    <3>1. CASE b = c
      BY <1>1, <1>6, <2>2, <3>1 DEF WellPlaced, Writing, Todo
    <3>2. CASE b # c
      BY <1>3, <1>6, <2>2, <3>2, PlacedSame DEF TypeInv, Placed
    <3>. QED
      BY <3>1, <3>2
  <2>. QED
    BY <2>1, <2>3 DEF TypeInv, Placed
<1>. QED
  BY <1>5, <1>6 DEF Write

\* What a rejection leaves: c lost what it read, and gave up or is in the catch.
LEMMA FailsLocals ==
  ASSUME TypeInv, NEW c \in Callers, Fails(c)
  PROVE  /\ UNCHANGED <<storage, clock, clobbered, shared, overlaps>>
         /\ upsets' = upsets + 1 /\ owed' \subseteq owed
         /\ orphaned \subseteq orphaned' /\ orphaned' \subseteq Keys
         /\ pc' \in [Callers -> {"idle", "ready", "sending", "catching"} \cup Writing]
         /\ key' \in [Callers -> Keys \cup {None}]
         /\ copy' = [copy EXCEPT ![c] = Empty] /\ patch' = [patch EXCEPT ![c] = None]
         /\ listed' \in {listed, [listed EXCEPT ![c] = Empty]}
         /\ copy'[c] = Empty /\ patch'[c] = None
         /\ \/ /\ pc'[c] = "catching" /\ pc[c] \in {"sending", "settling"} /\ c \in Drains
               /\ key'[c] = key[c] /\ listed' = listed
            \/ /\ pc'[c] = "idle" /\ listed'[c] = Empty /\ Todo(c)' = {}
               /\ \A k \in Keys : (k = key[c] /\ Is(k, "in_flight")) => k \in orphaned'
         /\ \A b \in Callers \ {c} :
              /\ pc'[b] = pc[b] /\ key'[b] = key[b] /\ copy'[b] = copy[b] /\ patch'[b] = patch[b]
              /\ listed'[b] = listed[b] /\ Todo(b)' = Todo(b)
         /\ \A b \in Callers : \A j \in Todo(b)' : j \in Todo(b) /\ listed'[b][j] = listed[b][j]
<1>1. CASE Rejects(c)
  <2>1. /\ UNCHANGED <<storage, clock, clobbered, shared, overlaps, owed>> /\ upsets' = upsets + 1
        /\ pc' = [pc EXCEPT ![c] = "idle"]
        /\ copy' = [copy EXCEPT ![c] = Empty] /\ patch' = [patch EXCEPT ![c] = None]
        /\ key' = [key EXCEPT ![c] = None] /\ listed' = [listed EXCEPT ![c] = Empty]
        /\ orphaned' = orphaned \cup {k \in Keys : k = key[c] /\ Is(k, "in_flight")}
    BY <1>1 DEF Rejects, StorageFails, Dropped
  <2>2. /\ pc'[c] = "idle" /\ copy'[c] = Empty /\ patch'[c] = None /\ listed'[c] = Empty
        /\ \A b \in Callers \ {c} :
             /\ pc'[b] = pc[b] /\ key'[b] = key[b] /\ copy'[b] = copy[b] /\ patch'[b] = patch[b]
             /\ listed'[b] = listed[b]
    BY <2>1 DEF TypeInv, Typed, TypeOK
  <2>3. Todo(c)' = {} /\ \A b \in Callers \ {c} : Todo(b)' = Todo(b)
    BY <2>2 DEF Todo, Empty
  <2>4. /\ pc' \in [Callers -> {"idle", "ready", "sending", "catching"} \cup Writing]
        /\ key' \in [Callers -> Keys \cup {None}] /\ orphaned' \subseteq Keys
    BY <2>1 DEF TypeInv, Typed, TypeOK
  <2>. QED
    BY <2>1, <2>2, <2>3, <2>4
<1>2. CASE c \in Drains /\ FailsInTry(c)
  <2>1. /\ UNCHANGED <<storage, clock, clobbered, shared, overlaps, key, listed, orphaned>>
        /\ upsets' = upsets + 1 /\ pc[c] \in {"sending", "settling"}
        /\ pc' = [pc EXCEPT ![c] = "catching"]
        /\ copy' = [copy EXCEPT ![c] = Empty] /\ patch' = [patch EXCEPT ![c] = None]
    BY <1>2 DEF FailsInTry, StorageFails, Dropped
  <2>2. owed' \subseteq owed
    BY <1>2 DEF FailsInTry, Takes
  <2>3. /\ pc'[c] = "catching" /\ copy'[c] = Empty /\ patch'[c] = None
        /\ \A b \in Callers \ {c} : pc'[b] = pc[b] /\ copy'[b] = copy[b] /\ patch'[b] = patch[b]
        /\ pc' \in [Callers -> {"idle", "ready", "sending", "catching"} \cup Writing]
    BY <2>1 DEF TypeInv, Typed, TypeOK
  <2>4. \A b \in Callers : Todo(b)' = Todo(b)
    BY <2>1 DEF Todo
  <2>5. orphaned' \subseteq Keys /\ key' \in [Callers -> Keys \cup {None}]
    BY <2>1 DEF TypeInv, Typed, TypeOK
  <2>. QED
    BY <1>2, <2>1, <2>2, <2>3, <2>4, <2>5
<1>. QED
  BY <1>1, <1>2 DEF Fails

LEMMA TypeFails ==
  ASSUME TypeInv, NEW c \in Callers, Fails(c)
  PROVE  TypeInv'
<1>1. taken' \subseteq Keys \X Nat /\ kept' \subseteq Keys
  <2>1. CASE Rejects(c)
    BY <2>1 DEF Rejects, TypeInv, Typed, TypeOK
  <2>2. CASE c \in Drains /\ FailsInTry(c)
    <3>1. key[c] \in Keys /\ key[c] \in Todo(c)
      BY <2>2 DEF FailsInTry, TypeInv, Placed, WellPlaced, Writing
    <3>2. listed[c][key[c]] \in Entry
      BY <3>1 DEF Todo, TypeInv, Typed, TypeOK
    <3>. QED
      BY <2>2, <3>1, <3>2 DEF FailsInTry, Takes, TypeInv, Typed, TypeOK, Entry
  <2>. QED
    BY <2>1, <2>2 DEF Fails
<1>2. copy' \in [Callers -> [Keys -> Slot]] /\ patch' \in [Callers -> Slot] /\ listed' \in [Callers -> [Keys -> Slot]]
  <2>1. Empty \in [Keys -> Slot] /\ None \in Slot
    BY DEF Empty, Slot
  <2>2. /\ copy \in [Callers -> [Keys -> Slot]] /\ patch \in [Callers -> Slot]
        /\ listed \in [Callers -> [Keys -> Slot]]
    BY DEF TypeInv, Typed
  <2>. QED
    BY <2>1, <2>2, FailsLocals
<1>3. Slot \subseteq Entry \cup {None}
  BY DEF Slot, Sound
<1>4. /\ copy' \in [Callers -> [Keys -> Entry \cup {None}]] /\ patch' \in [Callers -> Entry \cup {None}]
      /\ listed' \in [Callers -> [Keys -> Entry \cup {None}]]
  BY <1>2, <1>3
<1>5. Typed'
  <2>1. \A b \in Callers : \A j \in Todo(b)' : listed'[b][j].status = "pending"
    BY FailsLocals DEF TypeInv, Typed
  <2>. QED
    BY <1>1, <1>2, <1>4, <2>1, FailsLocals DEF TypeInv, Typed, TypeOK
<1>6. ASSUME NEW b \in Callers PROVE WellPlaced(b)'
  <2>1. CASE b = c
    <3>1. CASE pc'[c] = "idle" /\ Todo(c)' = {}
      BY <2>1, <3>1 DEF WellPlaced, Writing
    <3>2. CASE /\ pc'[c] = "catching" /\ pc[c] \in {"sending", "settling"} /\ c \in Drains
               /\ key'[c] = key[c] /\ listed' = listed
      <4>1. WellPlaced(c) /\ c \notin Screens
        BY <3>2, CallersAssumption DEF TypeInv, Placed
      <4>2. Todo(c)' = Todo(c)
        BY <3>2 DEF Todo
      <4>. QED
        BY <2>1, <3>2, <4>1, <4>2 DEF WellPlaced, Writing
    <3>. QED
      BY <3>1, <3>2, FailsLocals
  <2>2. CASE b # c
    BY <2>2, FailsLocals, PlacedSame DEF TypeInv, Placed
  <2>. QED
    BY <2>1, <2>2
<1>. QED
  BY <1>5, <1>6 DEF TypeInv, Placed

LEMMA TypeClear == TypeInv /\ Clear => TypeInv'
<1>. SUFFICES ASSUME TypeInv, Clear PROVE TypeInv'
  OBVIOUS
<1>1. storage' = Empty /\ owed' = {} /\ upsets' = upsets + 1
      /\ UNCHANGED <<local, clock, taken, kept, clobbered, shared, orphaned, overlaps>>
  BY DEF Clear
<1>2. Typed'
  BY <1>1 DEF TypeInv, Typed, TypeOK, local, Empty, Slot, Todo
<1>3. ASSUME NEW b \in Callers PROVE WellPlaced(b)'
  BY <1>1, PlacedSame DEF TypeInv, Placed, local
<1>. QED
  BY <1>2, <1>3 DEF TypeInv, Placed

LEMMA TypeKill == TypeInv /\ Kill => TypeInv'
<1>. SUFFICES ASSUME TypeInv, Kill PROVE TypeInv'
  OBVIOUS
<1>1. Typed'
  BY DEF Kill, TypeInv, Typed, TypeOK, Empty, Slot, Todo
<1>2. Placed'
  BY DEF Kill, Placed, WellPlaced, Empty, Todo, Writing
<1>. QED
  BY <1>1, <1>2 DEF TypeInv

\* The kinds of step.
LEMMA NextKinds ==
  ASSUME Next
  PROVE  \/ \E c \in Screens, k \in Keys : Enqueue(c, k)
         \/ \E d \in Drains : Drain(d)
         \/ \E d \in Drains, k \in Keys : Mark(d, k)
         \/ \E d \in Drains, answer \in Answers : Settles(d, answer)
         \/ \E c \in Callers : Write(c)
         \/ \E c \in Callers : Fails(c)
         \/ Clear
         \/ Kill
<1>1. ASSUME NEW d \in Drains, NEW answer \in Answers, Answer(d, answer) PROVE Settles(d, answer)
  BY <1>1 DEF Answer, Takes, Settles
<1>2. ASSUME NEW d \in Drains, Catch(d) PROVE "error" \in Answers /\ Settles(d, "error")
  BY <1>2 DEF Catch, Settles, Answers, history
<1>3. \A c \in Screens : c \in Callers /\ (ScreenStep(c) => Write(c) \/ Fails(c) \/ \E k \in Keys : Enqueue(c, k))
  BY DEF ScreenStep, Callers, Fails
<1>4. \A d \in Drains :
        /\ d \in Callers
        /\ DrainStep(d) =>
             \/ Drain(d) \/ \E k \in Keys : Mark(d, k)
             \/ \E answer \in Answers : Settles(d, answer)
             \/ Write(d) \/ Fails(d)
  BY <1>1, <1>2 DEF DrainStep, Callers, Fails
<1>. QED
  BY <1>3, <1>4 DEF Next

LEMMA TypeStep == TypeInv /\ [Next]_vars => TypeInv'
<1>. SUFFICES ASSUME TypeInv, [Next]_vars PROVE TypeInv'
  OBVIOUS
<1>1. CASE Next
  BY <1>1, NextKinds, TypeEnqueue, TypeDrain, TypeMark, TypeSettles, TypeWrite, TypeFails, TypeClear, TypeKill
<1>2. CASE UNCHANGED vars
  <2>1. Typed'
    BY <1>2 DEF vars, local, history, bounds, TypeInv, Typed, TypeOK, Todo
  <2>2. ASSUME NEW b \in Callers PROVE WellPlaced(b)'
    BY <1>2, PlacedSame DEF vars, local, TypeInv, Placed
  <2>. QED
    BY <2>1, <2>2 DEF TypeInv, Placed
<1>. QED
  BY <1>1, <1>2

\* Every variable keeps its type.
THEOREM TypesKept == Spec => []TypeOK
<1>1. TypeInv => TypeOK
  BY DEF TypeInv, Typed
<1>. QED
  BY <1>1, TypeInit, TypeStep, PTL DEF Spec

-----------------------------------------------------------------------------
\* Writes.

\* An entry that a write does not clobber is as the operation read it.
LEMMA WriteEffect ==
  ASSUME TypeInv, NEW c \in Callers, Write(c), NEW k \in Keys, k \notin clobbered'
  PROVE  /\ k \notin clobbered
         /\ storage[k] = copy[c][k]
         /\ storage'[k] = IF k = key[c] THEN patch[c] ELSE storage[k]
<1>1. /\ storage' = [copy[c] EXCEPT ![key[c]] = patch[c]]
      /\ clobbered' = clobbered \cup {j \in Keys : storage[j] # copy[c][j]}
  BY DEF Write
<1>2. copy[c] \in [Keys -> Slot]
  BY DEF TypeInv, Typed
<1>. QED
  BY <1>1, <1>2

\* The locals of the others do not change.
LEMMA WriteOthers ==
  ASSUME TypeInv, NEW c \in Callers, Write(c), NEW b \in Callers, b # c
  PROVE  /\ pc'[b] = pc[b] /\ key'[b] = key[b] /\ copy'[b] = copy[b] /\ patch'[b] = patch[b]
         /\ listed'[b] = listed[b] /\ Todo(b)' = Todo(b)
<1>1. key[c] \in Keys
  BY DEF Write, TypeInv, Placed, WellPlaced
<1>2. copy'[b] = copy[b] /\ patch'[b] = patch[b]
  BY DEF Write, TypeInv, Typed, TypeOK
<1>3. CASE Settled(c)
  BY <1>1, <1>2, <1>3, SettledType
<1>4. CASE pc[c] = "marking" /\ pc' = [pc EXCEPT ![c] = "sending"] /\ UNCHANGED <<key, listed>>
  BY <1>2, <1>4 DEF TypeInv, Typed, TypeOK, Todo
<1>. QED
  BY <1>3, <1>4 DEF Write

\* The locals of a drain that has an answer, and of the others.
LEMMA SettlesLocals ==
  ASSUME TypeInv, NEW d \in Drains, NEW answer \in Answers, Settles(d, answer)
  PROVE  /\ key[d] \in Todo(d) /\ key[d] \in Keys
         /\ storage' = storage
         /\ \/ /\ storage[key[d]] # None /\ pc'[d] \in {"settling", "recovering"} /\ key'[d] = key[d]
               /\ copy'[d] = storage /\ listed' = listed
               /\ patch'[d] = SettledEntry(storage[key[d]], listed[d][key[d]].retry_count, answer)
               /\ (patch'[d] = None) <=> (answer = "ok")
               /\ patch'[d] # None => patch'[d].enqueued_at = storage[key[d]].enqueued_at
            \/ /\ storage[key[d]] = None /\ pc'[d] \in {"idle", "ready"} /\ copy' = copy /\ patch' = patch
               /\ Todo(d)' = Todo(d) \ {key[d]}
         /\ \A b \in Callers : \A j \in Todo(b)' : j \in Todo(b) /\ listed'[b][j] = listed[b][j]
         /\ \A b \in Callers \ {d} :
              /\ pc'[b] = pc[b] /\ key'[b] = key[b] /\ copy'[b] = copy[b] /\ patch'[b] = patch[b]
              /\ listed'[b] = listed[b] /\ Todo(b)' = Todo(b)
<1>. DEFINE k == key[d]
            n == listed[d][k].retry_count
            e == SettledEntry(storage[k], n, answer)
<1>. DEFINE label == IF answer \in {"ok", "retry"} THEN "settling" ELSE "recovering"
<1>1. d \in Callers /\ pc[d] \in {"sending", "catching"} /\ storage' = storage
  BY DEF Callers, Settles
<1>2. k \in Todo(d) /\ k \in Keys
  BY <1>1 DEF TypeInv, Placed, WellPlaced, Todo
<1>3. CASE storage[k] # None
  <2>1. Read(d, k, e, label) /\ listed' = listed
    BY <1>3 DEF Settles, Settle
  <2>0. label \in {"settling", "recovering"}
    OBVIOUS
  <2>. HIDE DEF label
  <2>2. storage[k] \in Sound
    BY <1>2, <1>3 DEF TypeInv, Typed, Slot
  <2>3. n \in Nat /\ n < MaxRetries
    <3>1. listed[d][k] \in Sound /\ listed[d][k].status = "pending"
      BY <1>1, <1>2 DEF TypeInv, Typed, Slot, Todo
    <3>. QED
      BY <3>1, RetriesAssumption DEF Sound, Entry
  <2>. HIDE DEF n
  <2>4. /\ e \in Slot
        /\ (e = None) <=> (answer = "ok")
        /\ e # None => e.enqueued_at = storage[k].enqueued_at
    BY <2>2, <2>3, SettledEntrySlot
  <2>5. \A b \in Callers : Todo(b)' = Todo(b)
    BY <2>1 DEF Todo
  <2>. HIDE DEF e, k
  <2>6. /\ pc'[d] \in {"settling", "recovering"} /\ copy'[d] = storage /\ key'[d] = k /\ patch'[d] = e
        /\ \A b \in Callers \ {d} :
             pc'[b] = pc[b] /\ copy'[b] = copy[b] /\ key'[b] = key[b] /\ patch'[b] = patch[b]
    BY <1>1, <1>2, <2>0, <2>1, <2>4, ReadType DEF Writing
  <2>. QED
    BY <1>1, <1>2, <1>3, <2>1, <2>4, <2>5, <2>6 DEF k, e, n
<1>4. CASE storage[k] = None
  <2>1. Settled(d) /\ UNCHANGED <<copy, patch>>
    BY <1>4 DEF Settles, Settle
  <2>. QED
    BY <1>1, <1>2, <1>4, <2>1, SettledType
<1>. QED
  BY <1>3, <1>4

-----------------------------------------------------------------------------
\* An entry in flight is in a drain's hands.

HeldInv == TypeInv /\ InFlightHeld

LEMMA HeldWrite ==
  ASSUME HeldInv, NEW c \in Callers, Write(c)
  PROVE  InFlightHeld'
<1>. SUFFICES ASSUME NEW k \in Keys, k \notin clobbered', k \notin orphaned, Is(k, "in_flight")'
              PROVE  \E d \in Drains : key'[d] = k /\ pc'[d] \in {"sending", "settling", "catching", "recovering"}
  BY DEF InFlightHeld, Write
<1>1. /\ k \notin clobbered /\ storage[k] = copy[c][k]
      /\ storage'[k] = IF k = key[c] THEN patch[c] ELSE storage[k]
  BY WriteEffect DEF HeldInv
<1>2. CASE k = key[c]
  <2>1. pc[c] = "marking"
    BY <1>1, <1>2 DEF Is, Write, Writing, HeldInv, TypeInv, Placed, WellPlaced
  <2>2. pc'[c] = "sending" /\ key'[c] = key[c] /\ c \in Drains
    BY <2>1 DEF Write, Callers, HeldInv, TypeInv, Typed, TypeOK, Placed, WellPlaced
  <2>. QED
    BY <1>2, <2>2
<1>3. CASE k # key[c]
  <2>1. PICK d \in Drains : key[d] = k /\ pc[d] \in {"sending", "settling", "catching", "recovering"}
    BY <1>1, <1>3 DEF HeldInv, InFlightHeld, Is
  <2>. QED
    BY <1>3, <2>1, WriteOthers DEF HeldInv, Callers
<1>. QED
  BY <1>2, <1>3

LEMMA HeldStep == HeldInv /\ [Next]_vars => InFlightHeld'
<1>. SUFFICES ASSUME HeldInv, [Next]_vars PROVE InFlightHeld'
  OBVIOUS
<1>. USE DEF HeldInv
<1>1. ASSUME NEW c \in Screens, NEW k \in Keys, Enqueue(c, k) PROVE InFlightHeld'
  <2>1. c \notin Drains /\ UNCHANGED <<storage, clobbered, orphaned>>
    BY <1>1, CallersAssumption DEF Enqueue, history
  <2>2. \A d \in Drains : key'[d] = key[d] /\ pc'[d] = pc[d]
    BY <1>1, <2>1 DEF Enqueue, Read, Callers, TypeInv, Typed, TypeOK
  <2>. QED
    BY <2>1, <2>2 DEF InFlightHeld, Is
<1>2. ASSUME NEW d \in Drains, Drain(d) PROVE InFlightHeld'
  <2>1. UNCHANGED <<storage, clobbered, orphaned, key>> /\ pc[d] = "idle"
    BY <1>2 DEF Drain
  <2>2. \A b \in Drains \ {d} : pc'[b] = pc[b]
    BY <1>2 DEF Drain, Callers, TypeInv, Typed, TypeOK
  <2>. QED
    BY <2>1, <2>2 DEF InFlightHeld, Is
<1>3. ASSUME NEW d \in Drains, NEW k \in Keys, Mark(d, k) PROVE InFlightHeld'
  <2>1. UNCHANGED <<storage, clobbered, orphaned>> /\ pc[d] = "ready"
    BY <1>3 DEF Mark, history
  <2>2. \A b \in Drains \ {d} : key'[b] = key[b] /\ pc'[b] = pc[b]
    BY <1>3 DEF Mark, Read, Callers, TypeInv, Typed, TypeOK
  <2>. QED
    BY <2>1, <2>2 DEF InFlightHeld, Is
<1>4. ASSUME NEW d \in Drains, NEW answer \in Answers, Settles(d, answer) PROVE InFlightHeld'
  <2>1. UNCHANGED <<storage, clobbered, orphaned>>
    BY <1>4 DEF Settles
  <2>2. \A b \in Drains \ {d} : key'[b] = key[b] /\ pc'[b] = pc[b]
    BY <1>4, SettlesLocals DEF Callers
  <2>3. storage[key[d]] = None \/ (key'[d] = key[d] /\ pc'[d] \in {"settling", "recovering"})
    BY <1>4, SettlesLocals
  <2>. QED
    BY <2>1, <2>2, <2>3 DEF InFlightHeld, Is
<1>5. CASE Clear
  BY <1>5 DEF Clear, InFlightHeld, Is, Empty
<1>6. CASE Kill
  BY <1>6 DEF Kill, InFlightHeld, Is
<1>7. CASE UNCHANGED vars
  BY <1>7 DEF vars, local, history, InFlightHeld, Is
<1>8. ASSUME NEW c \in Callers, Fails(c) PROVE InFlightHeld'
  <2>. SUFFICES ASSUME NEW k \in Keys, k \notin clobbered, k \notin orphaned', Is(k, "in_flight")
                PROVE  \E d \in Drains :
                         key'[d] = k /\ pc'[d] \in {"sending", "settling", "catching", "recovering"}
    BY <1>8, FailsLocals DEF InFlightHeld, Is
  <2>1. PICK d \in Drains : key[d] = k /\ pc[d] \in {"sending", "settling", "catching", "recovering"}
    BY <1>8, FailsLocals DEF InFlightHeld
  <2>2. CASE d = c
    BY <1>8, <2>1, <2>2, FailsLocals
  <2>3. CASE d # c
    BY <1>8, <2>1, <2>3, FailsLocals DEF Callers
  <2>. QED
    BY <2>2, <2>3
<1>. QED
  BY <1>1, <1>2, <1>3, <1>4, <1>5, <1>6, <1>7, <1>8, NextKinds, HeldWrite

\* No entry is left in flight but by a death of the app, by a drain() that its
\* storage made reject, or where an older copy of the queue was written back.
THEOREM InFlightAlwaysHeld == Spec => []InFlightHeld
<1>1. Init => InFlightHeld
  BY DEF Init, InFlightHeld, Is, Empty
<1>. QED
  BY <1>1, TypeInit, TypeStep, HeldStep, PTL DEF Spec, HeldInv

-----------------------------------------------------------------------------
\* Dates: the entry that enqueue() is about to write is dated like no other.

Apart(e, t) == e # None => e.enqueued_at # t

\* No entry anywhere is dated t, the patches of the callers in X aside.
Unused(X, t) ==
  /\ \A k \in Keys : Apart(storage[k], t)
  /\ \A b \in Callers, k \in Keys : Apart(copy[b][k], t) /\ Apart(listed[b][k], t)
  /\ \A b \in Callers \ X : Apart(patch[b], t)

Dated ==
  /\ \A t \in Nat : clock < t => Unused({}, t)
  /\ \A c \in Callers : pc[c] = "enqueueing" =>
       /\ patch[c].enqueued_at \in Nat
       /\ patch[c].enqueued_at <= clock
       /\ Unused({c}, patch[c].enqueued_at)
       /\ \A k \in Keys : copy[c][k] # None => copy[c][k].enqueued_at < patch[c].enqueued_at

DatedInv == TypeInv /\ Dated

LEMMA UnusedWrite ==
  ASSUME TypeInv, NEW X \in SUBSET Callers, NEW t \in Nat, Unused(X, t),
         NEW c \in Callers \ X, Write(c)
  PROVE  Unused(X, t)'
<1>1. /\ key[c] \in Keys /\ copy[c] \in [Keys -> Slot]
      /\ storage' = [copy[c] EXCEPT ![key[c]] = patch[c]]
      /\ copy' = [copy EXCEPT ![c] = Empty] /\ patch' = [patch EXCEPT ![c] = None]
  BY DEF Write, TypeInv, Typed, Placed, WellPlaced
<1>2. \A k \in Keys : Apart(storage'[k], t)
  BY <1>1 DEF Unused, Apart
<1>3. \A b \in Callers : copy'[b] = IF b = c THEN Empty ELSE copy[b]
  BY <1>1 DEF TypeInv, Typed
<1>4. \A b \in Callers : patch'[b] = IF b = c THEN None ELSE patch[b]
  BY <1>1 DEF TypeInv, Typed
<1>5. ASSUME NEW b \in Callers, NEW k \in Keys PROVE listed'[b][k] = listed[b][k] \/ listed'[b][k] = None
  <2>1. CASE Settled(c)
    BY <1>1, <2>1 DEF Settled, TypeInv, Typed
  <2>2. CASE listed' = listed
    BY <2>2
  <2>. QED
    BY <2>1, <2>2 DEF Write
<1>. QED
  BY <1>2, <1>3, <1>4, <1>5 DEF Unused, Apart, Empty

\* A step keeps the date t unused, unless it writes or draws it.
LEMMA UnusedStep ==
  ASSUME TypeInv, NEW X \in SUBSET Callers, NEW t \in Nat, Unused(X, t), [Next]_vars,
         clock + 1 = t => clock' = clock,
         \A c \in X : ~Write(c)
  PROVE  Unused(X, t)'
<1>0. clock \in Nat
  BY DEF TypeInv, Typed, TypeOK
<1>1. ASSUME NEW c \in Screens, NEW k \in Keys, Enqueue(c, k) PROVE Unused(X, t)'
  <2>. DEFINE e == [status |-> "pending", retry_count |-> 0, enqueued_at |-> clock + 1]
  <2>1. clock' = clock + 1 /\ storage' = storage /\ listed' = listed
        /\ copy' = [copy EXCEPT ![c] = storage] /\ patch' = [patch EXCEPT ![c] = e]
    BY <1>1 DEF Enqueue, Read
  <2>2. Apart(e, t)
    BY <1>0, <2>1 DEF Apart
  <2>. HIDE DEF e
  <2>3. \A b \in Callers : copy'[b] \in {copy[b], storage} /\ patch'[b] \in {patch[b], e}
    BY <2>1 DEF TypeInv, Typed
  <2>. QED
    BY <2>1, <2>2, <2>3 DEF Unused
<1>2. ASSUME NEW d \in Drains, Drain(d) PROVE Unused(X, t)'
  <2>1. UNCHANGED <<storage, copy, patch>>
    BY <1>2 DEF Drain
  <2>2. \A b \in Callers, k \in Keys : listed'[b][k] \in {listed[b][k], storage[k], None}
    BY <1>2 DEF Drain, TypeInv, Typed
  <2>. QED
    BY <2>1, <2>2 DEF Unused, Apart
<1>3. ASSUME NEW d \in Drains, NEW k \in Keys, Mark(d, k) PROVE Unused(X, t)'
  <2>1. UNCHANGED <<storage, listed>>
    BY <1>3 DEF Mark
  <2>2. CASE storage[k] = None
    BY <1>3, <2>1, <2>2 DEF Mark, Unused
  <2>3. CASE storage[k] # None
    <3>. DEFINE e == [storage[k] EXCEPT !.status = "in_flight"]
    <3>1. copy' = [copy EXCEPT ![d] = storage] /\ patch' = [patch EXCEPT ![d] = e]
      BY <1>3, <2>3 DEF Mark, Read
    <3>2. storage[k] \in Entry
      BY <2>3 DEF TypeInv, Typed, TypeOK
    <3>3. Apart(e, t)
      BY <2>3, <3>2 DEF Apart, Unused, Entry
    <3>. HIDE DEF e
    <3>4. \A b \in Callers : copy'[b] \in {copy[b], storage} /\ patch'[b] \in {patch[b], e}
      BY <3>1 DEF TypeInv, Typed
    <3>. QED
      BY <2>1, <3>3, <3>4 DEF Unused
  <2>. QED
    BY <2>2, <2>3
<1>4. ASSUME NEW d \in Drains, NEW answer \in Answers, Settles(d, answer) PROVE Unused(X, t)'
  <2>1. storage' = storage /\ key[d] \in Keys
    BY <1>4, SettlesLocals
  <2>2. \A b \in Callers : copy'[b] \in {copy[b], storage}
    BY <1>4, SettlesLocals
  <2>3. \A b \in Callers :
          \/ patch'[b] \in {patch[b], None}
          \/ storage[key[d]] # None /\ patch'[b].enqueued_at = storage[key[d]].enqueued_at
    BY <1>4, SettlesLocals
  <2>4. \A b \in Callers, k \in Keys : listed'[b][k] \in {listed[b][k], None}
    BY <1>4, SettlesLocals DEF Todo
  <2>. QED
    BY <2>1, <2>2, <2>3, <2>4 DEF Unused, Apart
<1>5. ASSUME NEW c \in Callers, Write(c) PROVE Unused(X, t)'
  BY <1>5, UnusedWrite
<1>6. CASE Clear
  BY <1>6 DEF Clear, local, Unused, Apart, Empty
<1>7. CASE Kill
  BY <1>7 DEF Kill, Unused, Apart, Empty
<1>8. CASE UNCHANGED vars
  BY <1>8 DEF vars, local, Unused
<1>9. ASSUME NEW c \in Callers, Fails(c) PROVE Unused(X, t)'
  <2>1. \A b \in Callers : copy'[b] \in {copy[b], Empty} /\ patch'[b] \in {patch[b], None}
    BY <1>9, FailsLocals
  <2>2. \A b \in Callers, k \in Keys : listed'[b][k] \in {listed[b][k], None}
    BY <1>9, FailsLocals DEF Todo
  <2>. QED
    BY <1>9, <2>1, <2>2, FailsLocals DEF Unused, Apart, Empty
<1>. QED
  BY <1>1, <1>2, <1>3, <1>4, <1>5, <1>6, <1>7, <1>8, <1>9, NextKinds

LEMMA DatedInit == Init => Dated
BY DEF Init, Dated, Unused, Apart, Empty

\* A caller that is about to write a new entry has just read, or was so before.
LEMMA EnqueueingStep ==
  ASSUME TypeInv, [Next]_vars, NEW c \in Callers, pc'[c] = "enqueueing"
  PROVE  \/ \E k \in Keys : Enqueue(c, k)
         \/ /\ pc[c] = "enqueueing" /\ ~Write(c)
            /\ copy'[c] = copy[c] /\ patch'[c] = patch[c]
<1>1. ASSUME NEW b \in Screens, NEW k \in Keys, Enqueue(b, k), b # c
      PROVE  pc'[c] = pc[c] /\ copy'[c] = copy[c] /\ patch'[c] = patch[c]
  BY <1>1 DEF Enqueue, Read, TypeInv, Typed, TypeOK
<1>2. ASSUME NEW d \in Drains, Drain(d)
      PROVE  pc'[c] = pc[c] /\ copy'[c] = copy[c] /\ patch'[c] = patch[c]
  BY <1>2 DEF Drain, TypeInv, Typed, TypeOK
<1>3. ASSUME NEW d \in Drains, NEW k \in Keys, Mark(d, k)
      PROVE  pc'[c] = pc[c] /\ copy'[c] = copy[c] /\ patch'[c] = patch[c]
  BY <1>3 DEF Mark, Read, TypeInv, Typed, TypeOK
<1>4. ASSUME NEW d \in Drains, NEW answer \in Answers, Settles(d, answer)
      PROVE  pc'[c] = pc[c] /\ copy'[c] = copy[c] /\ patch'[c] = patch[c]
  <2>1. d # c
    BY <1>4, SettlesLocals
  <2>. QED
    BY <1>4, <2>1, SettlesLocals
<1>5. ASSUME NEW b \in Callers, Write(b)
      PROVE  b # c /\ pc'[c] = pc[c] /\ copy'[c] = copy[c] /\ patch'[c] = patch[c]
  <2>1. CASE b = c
    <3>1. key[c] \in Keys
      BY <1>5, <2>1 DEF Write, TypeInv, Placed, WellPlaced
    <3>2. pc'[c] # "enqueueing"
      BY <1>5, <2>1, <3>1, SettledType DEF Write, TypeInv, Typed, TypeOK
    <3>. QED
      BY <3>2
  <2>2. CASE b # c
    BY <1>5, <2>2, WriteOthers
  <2>. QED
    BY <2>1, <2>2
<1>6. ASSUME Clear
      PROVE  pc'[c] = pc[c] /\ copy'[c] = copy[c] /\ patch'[c] = patch[c]
  BY <1>6 DEF Clear, local
<1>7. CASE Kill
  BY <1>7 DEF Kill
<1>8. ASSUME UNCHANGED vars
      PROVE  pc'[c] = pc[c] /\ copy'[c] = copy[c] /\ patch'[c] = patch[c]
  BY <1>8 DEF vars, local
<1>11. ASSUME NEW b \in Callers, Fails(b)
       PROVE  pc'[c] = pc[c] /\ copy'[c] = copy[c] /\ patch'[c] = patch[c]
  BY <1>11, FailsLocals
<1>9. \/ \E k \in Keys : Enqueue(c, k)
      \/ pc'[c] = pc[c] /\ copy'[c] = copy[c] /\ patch'[c] = patch[c]
  BY <1>1, <1>2, <1>3, <1>4, <1>5, <1>6, <1>7, <1>8, <1>11, NextKinds
<1>10. ~Write(c)
  BY <1>5
<1>. QED
  BY <1>9, <1>10

LEMMA ClockStep ==
  ASSUME TypeInv, [Next]_vars
  PROVE  /\ clock' \in {clock, clock + 1}
         /\ \A c \in Callers, k \in Keys : Enqueue(c, k) => clock' = clock + 1
BY FailsLocals, NextKinds DEF Enqueue, Drain, Mark, Settles, Write, Clear, Kill, vars

LEMMA DatedStep == DatedInv /\ [Next]_vars => Dated'
<1>. SUFFICES ASSUME DatedInv, [Next]_vars PROVE Dated'
  OBVIOUS
<1>0. clock \in Nat /\ TypeInv /\ clock' \in {clock, clock + 1}
  BY ClockStep DEF DatedInv, TypeInv, Typed, TypeOK
<1>1. ASSUME NEW t \in Nat, clock' < t PROVE Unused({}, t)'
  <2>1. clock < t /\ (clock + 1 = t => clock' = clock)
    BY <1>0, <1>1
  <2>2. Unused({}, t)
    BY <2>1 DEF DatedInv, Dated
  <2>. QED
    BY <1>0, <2>1, <2>2, UnusedStep
<1>2. ASSUME NEW c \in Callers, pc'[c] = "enqueueing"
      PROVE  /\ patch'[c].enqueued_at \in Nat
             /\ patch'[c].enqueued_at <= clock'
             /\ Unused({c}, patch[c].enqueued_at)'
             /\ \A k \in Keys : copy'[c][k] # None => copy'[c][k].enqueued_at < patch'[c].enqueued_at
  <2>1. ASSUME NEW k \in Keys, Enqueue(c, k)
        PROVE  /\ patch'[c].enqueued_at \in Nat
               /\ patch'[c].enqueued_at <= clock'
               /\ Unused({c}, patch[c].enqueued_at)'
               /\ \A j \in Keys : copy'[c][j] # None => copy'[c][j].enqueued_at < patch'[c].enqueued_at
    <3>1. /\ clock' = clock + 1 /\ storage' = storage /\ listed' = listed
          /\ copy'[c] = storage /\ patch'[c].enqueued_at = clock + 1
          /\ \A b \in Callers \ {c} : copy'[b] = copy[b] /\ patch'[b] = patch[b]
      BY <2>1 DEF Enqueue, Read, TypeInv, Typed, TypeOK, DatedInv
    <3>2. Unused({}, clock + 1)
      BY <1>0 DEF DatedInv, Dated
    <3>3. Unused({c}, patch[c].enqueued_at)'
      BY <3>1, <3>2 DEF Unused
    <3>4. ASSUME NEW j \in Keys, storage[j] # None PROVE storage[j].enqueued_at < clock + 1
      <4>1. storage[j].enqueued_at \in Nat
        BY <3>4 DEF DatedInv, TypeInv, Typed, TypeOK, Entry
      <4>2. CASE clock < storage[j].enqueued_at
        BY <3>4, <4>1, <4>2 DEF DatedInv, Dated, Unused, Apart
      <4>. QED
        BY <1>0, <4>1, <4>2
    <3>. QED
      BY <1>0, <3>1, <3>3, <3>4
  <2>2. CASE /\ pc[c] = "enqueueing" /\ ~Write(c)
             /\ copy'[c] = copy[c] /\ patch'[c] = patch[c]
    <3>1. /\ patch[c].enqueued_at \in Nat /\ patch[c].enqueued_at <= clock
          /\ Unused({c}, patch[c].enqueued_at)
          /\ \A k \in Keys : copy[c][k] # None => copy[c][k].enqueued_at < patch[c].enqueued_at
      BY <2>2 DEF DatedInv, Dated
    <3>2. PICK t \in Nat : t = patch[c].enqueued_at
      BY <3>1
    <3>3. Unused({c}, t) /\ clock + 1 # t
      BY <1>0, <3>1, <3>2
    <3>4. Unused({c}, t)'
      BY <1>0, <2>2, <3>3, UnusedStep
    <3>5. Unused({c}, patch[c].enqueued_at)'
      BY <2>2, <3>2, <3>4
    <3>. QED
      BY <1>0, <2>2, <3>1, <3>5
  <2>. QED
    BY <1>0, <1>2, <2>1, <2>2, EnqueueingStep
<1>. QED
  BY <1>1, <1>2 DEF Dated

-----------------------------------------------------------------------------
\* An accepted action stays in the queue until it is answered.

\* A drain about to remove an entry that is owed again removes an older one.
Removing ==
  \A d \in Drains :
    (pc[d] \in {"settling", "recovering"} /\ patch[d] = None /\ key[d] \in owed \ clobbered) =>
      /\ storage[key[d]] # None
      /\ storage[key[d]].enqueued_at # copy[d][key[d]].enqueued_at

OwedInv == DatedInv /\ NothingLost /\ Removing

LEMMA OwedWrite ==
  ASSUME OwedInv, NEW c \in Callers, Write(c)
  PROVE  NothingLost' /\ Removing'
<1>. USE DEF OwedInv, DatedInv
<1>0. /\ WellPlaced(c) /\ key[c] \in Keys
      /\ owed' = IF pc[c] = "enqueueing" THEN owed \cup {key[c]} ELSE owed
      /\ pc[c] \in Writing
  BY DEF Write, TypeInv, Placed, WellPlaced
\* The entry that c writes, when it clobbers nothing of it.
<1>1. ASSUME key[c] \in owed', key[c] \notin clobbered'
      PROVE  /\ storage'[key[c]] = patch[c] /\ patch[c] # None
             /\ pc[c] # "enqueueing" =>
                  key[c] \in owed /\ patch[c].enqueued_at = storage[key[c]].enqueued_at
  <2>1. key[c] \notin clobbered /\ storage[key[c]] = copy[c][key[c]] /\ storage'[key[c]] = patch[c]
    BY <1>0, <1>1, WriteEffect
  <2>2. CASE pc[c] = "enqueueing"
    BY <1>0, <2>1, <2>2 DEF WellPlaced
  <2>3. CASE pc[c] = "marking"
    <3>1. copy[c][key[c]] \in Entry
      BY <1>0, <2>3 DEF WellPlaced, TypeInv, Typed, TypeOK
    <3>2. patch[c].enqueued_at = copy[c][key[c]].enqueued_at /\ patch[c] \in Entry
      BY <1>0, <2>3, <3>1 DEF WellPlaced, Entry, Status
    <3>. QED
      BY <1>0, <1>1, <2>1, <2>3, <3>2, NoneAssumption
  <2>4. CASE pc[c] \in {"settling", "recovering"}
    <3>1. c \in Drains /\ key[c] \in owed
      BY <1>0, <1>1, <2>4 DEF WellPlaced, Callers
    <3>2. patch[c] # None
      BY <2>1, <2>4, <3>1 DEF Removing
    <3>. QED
      BY <1>0, <2>1, <2>4, <3>1, <3>2 DEF WellPlaced
  <2>. QED
    BY <1>0, <2>2, <2>3, <2>4 DEF Writing
<1>2. ASSUME NEW k \in owed', k \notin clobbered' PROVE storage'[k] # None
  <2>1. k \in Keys
    BY <1>0, <1>2 DEF TypeInv, Typed, TypeOK
  <2>2. CASE k = key[c]
    BY <1>1, <1>2, <2>2
  <2>3. CASE k # key[c]
    BY <1>0, <1>2, <2>1, <2>3, WriteEffect DEF NothingLost
  <2>. QED
    BY <2>2, <2>3
<1>3. ASSUME NEW d \in Drains, pc'[d] \in {"settling", "recovering"}, patch'[d] = None,
             key'[d] \in owed', key'[d] \notin clobbered'
      PROVE  /\ storage'[key'[d]] # None
             /\ storage'[key'[d]].enqueued_at # copy'[d][key'[d]].enqueued_at
  <2>1. d \in Callers /\ d # c
    <3>1. pc'[c] \notin {"settling", "recovering"}
      BY <1>0, SettledType DEF Write, TypeInv, Typed, TypeOK
    <3>. QED
      BY <1>3, <3>1 DEF Callers
  <2>2. pc[d] \in {"settling", "recovering"} /\ patch[d] = None /\ key'[d] = key[d] /\ copy'[d] = copy[d]
    BY <1>3, <2>1, WriteOthers
  <2>3. key[d] \in Keys /\ copy[d][key[d]] # None
    BY <2>1, <2>2 DEF TypeInv, Placed, WellPlaced, Writing
  <2>4. key[d] \notin clobbered
    BY <1>3, <2>2, <2>3, WriteEffect
  <2>5. CASE key[d] # key[c]
    <3>1. storage'[key[d]] = storage[key[d]] /\ key[d] \in owed
      BY <1>0, <1>3, <2>2, <2>3, <2>5, WriteEffect
    <3>. QED
      BY <2>2, <2>4, <3>1 DEF Removing
  <2>6. CASE key[d] = key[c] /\ pc[c] = "enqueueing"
    <3>1. storage'[key[c]] = patch[c] /\ patch[c] # None
      BY <1>1, <1>3, <2>2, <2>6
    <3>2. Apart(copy[d][key[d]], patch[c].enqueued_at)
      BY <2>1, <2>3, <2>6 DEF Dated, Unused
    <3>. QED
      BY <2>2, <2>3, <2>6, <3>1, <3>2 DEF Apart
  <2>7. CASE key[d] = key[c] /\ pc[c] # "enqueueing"
    <3>1. /\ storage'[key[c]] = patch[c] /\ patch[c] # None
          /\ key[c] \in owed /\ patch[c].enqueued_at = storage[key[c]].enqueued_at
      BY <1>1, <1>3, <2>2, <2>7
    <3>2. storage[key[d]].enqueued_at # copy[d][key[d]].enqueued_at
      BY <2>2, <2>4, <2>7, <3>1 DEF Removing
    <3>. QED
      BY <2>2, <2>7, <3>1, <3>2
  <2>. QED
    BY <2>5, <2>6, <2>7
<1>. QED
  BY <1>2, <1>3 DEF NothingLost, Removing

LEMMA OwedStep == OwedInv /\ [Next]_vars => NothingLost' /\ Removing'
<1>. SUFFICES ASSUME OwedInv, [Next]_vars PROVE NothingLost' /\ Removing'
  OBVIOUS
<1>. USE DEF OwedInv, DatedInv
<1>1. ASSUME NEW c \in Screens, NEW k \in Keys, Enqueue(c, k) PROVE NothingLost' /\ Removing'
  <2>1. c \in Callers /\ c \notin Drains /\ UNCHANGED <<storage, owed, clobbered>>
    BY <1>1, CallersAssumption DEF Enqueue, history, Callers
  <2>2. \A d \in Drains : pc'[d] = pc[d] /\ key'[d] = key[d] /\ patch'[d] = patch[d] /\ copy'[d] = copy[d]
    BY <1>1, <2>1 DEF Enqueue, Read, Callers, TypeInv, Typed, TypeOK
  <2>. QED
    BY <2>1, <2>2 DEF NothingLost, Removing
<1>2. ASSUME NEW d \in Drains, Drain(d) PROVE NothingLost' /\ Removing'
  <2>1. UNCHANGED <<storage, owed, clobbered, key, patch, copy>>
    BY <1>2 DEF Drain
  <2>2. \A b \in Drains : pc'[b] \in {"settling", "recovering"} => pc[b] \in {"settling", "recovering"}
    BY <1>2 DEF Drain, Callers, TypeInv, Typed, TypeOK
  <2>. QED
    BY <2>1, <2>2 DEF NothingLost, Removing
<1>3. ASSUME NEW d \in Drains, NEW k \in Keys, Mark(d, k) PROVE NothingLost' /\ Removing'
  <2>1. UNCHANGED <<storage, owed, clobbered>>
    BY <1>3 DEF Mark, history
  <2>2. pc'[d] \notin {"settling", "recovering"}
    BY <1>3 DEF Mark, Read, Callers, TypeInv, Typed, TypeOK
  <2>3. \A b \in Drains \ {d} :
          pc'[b] = pc[b] /\ key'[b] = key[b] /\ patch'[b] = patch[b] /\ copy'[b] = copy[b]
    BY <1>3 DEF Mark, Read, Callers, TypeInv, Typed, TypeOK
  <2>. QED
    BY <2>1, <2>2, <2>3 DEF NothingLost, Removing
<1>4. ASSUME NEW d \in Drains, NEW answer \in Answers, Settles(d, answer) PROVE NothingLost' /\ Removing'
  <2>1. /\ UNCHANGED <<storage, clobbered>>
        /\ owed' = IF answer = "ok" THEN owed \ {key[d]} ELSE owed
    BY <1>4 DEF Settles
  <2>2. (pc'[d] \in {"settling", "recovering"} /\ patch'[d] = None) => key'[d] \notin owed'
    BY <1>4, <2>1, SettlesLocals
  <2>3. \A b \in Drains \ {d} :
          pc'[b] = pc[b] /\ key'[b] = key[b] /\ patch'[b] = patch[b] /\ copy'[b] = copy[b]
    BY <1>4, SettlesLocals DEF Callers
  <2>. QED
    BY <2>1, <2>2, <2>3 DEF NothingLost, Removing
<1>5. ASSUME NEW c \in Callers, Write(c) PROVE NothingLost' /\ Removing'
  BY <1>5, OwedWrite
<1>6. CASE Clear
  BY <1>6 DEF Clear, NothingLost, Removing
<1>7. CASE Kill
  BY <1>7 DEF Kill, NothingLost, Removing, Callers
<1>8. CASE UNCHANGED vars
  BY <1>8 DEF vars, local, history, NothingLost, Removing
<1>9. ASSUME NEW c \in Callers, Fails(c) PROVE NothingLost' /\ Removing'
  <2>1. UNCHANGED <<storage, clobbered>> /\ owed' \subseteq owed
        /\ pc'[c] \notin {"settling", "recovering"}
    BY <1>9, FailsLocals
  <2>2. \A d \in Drains \ {c} :
          pc'[d] = pc[d] /\ key'[d] = key[d] /\ patch'[d] = patch[d] /\ copy'[d] = copy[d]
    BY <1>9, FailsLocals DEF Callers
  <2>. QED
    BY <2>1, <2>2 DEF NothingLost, Removing
<1>. QED
  BY <1>1, <1>2, <1>3, <1>4, <1>5, <1>6, <1>7, <1>8, <1>9, NextKinds

\* An action that enqueue() took and the server has not answered for is in the
\* queue, unless an older copy of the queue was written back over it.
THEOREM NothingEverLost == Spec => []NothingLost
<1>1. Init => NothingLost /\ Removing
  BY DEF Init, NothingLost, Removing
<1>. QED
  BY <1>1, TypeInit, TypeStep, DatedInit, DatedStep, OwedStep, PTL DEF Spec, OwedInv, DatedInv

-----------------------------------------------------------------------------
\* The order of the first tries.

\* What a drain works on is the oldest of what it has left.
OldestFirst ==
  \A d \in Drains : pc[d] \in {"marking", "sending", "settling", "catching", "recovering"} =>
    \A j \in Todo(d) : listed[d][key[d]].enqueued_at <= listed[d][j].enqueued_at

\* An entry never tried that is older than one d has left is left to d too.
UntriedLeft(d, j, k) ==
  (/\ k \in Todo(d) /\ storage[k] # None
   /\ storage[k].enqueued_at = listed[d][k].enqueued_at
   /\ Is(j, "pending") /\ storage[j].retry_count = 0
   /\ storage[j].enqueued_at < storage[k].enqueued_at) =>
     j \in Todo(d) /\ listed[d][j].enqueued_at = storage[j].enqueued_at

Untried == \A d \in Drains, j \in Keys \ clobbered, k \in Keys \ clobbered : UntriedLeft(d, j, k)

OrderInv == DatedInv /\ OldestFirst /\ Untried

\* An unclobbered entry that a write changes.
LEMMA WrittenEntry ==
  ASSUME DatedInv, NEW c \in Callers, Write(c), key[c] \notin clobbered', patch[c] # None
  PROVE  /\ key[c] \in Keys /\ storage'[key[c]] = patch[c]
         /\ pc[c] = "enqueueing" => patch[c].retry_count = 0 /\ patch[c].status = "pending" /\ storage[key[c]] = None
         /\ pc[c] # "enqueueing" =>
              /\ c \in Drains /\ storage[key[c]] # None /\ key[c] \in Todo(c)
              /\ patch[c].enqueued_at = storage[key[c]].enqueued_at
         /\ pc[c] = "marking" => patch[c].status = "in_flight" /\ patch[c].retry_count = storage[key[c]].retry_count
         /\ pc[c] \in {"settling", "recovering"} =>
              /\ patch[c].status # "in_flight"
              /\ \/ patch[c].retry_count = listed[c][key[c]].retry_count + 1
                 \/ patch[c].status = "failed_permanent" /\ patch[c].retry_count = storage[key[c]].retry_count
<1>1. WellPlaced(c) /\ key[c] \in Keys /\ pc[c] \in Writing
  BY DEF Write, DatedInv, TypeInv, Placed, WellPlaced
<1>2. storage[key[c]] = copy[c][key[c]] /\ storage'[key[c]] = patch[c]
  BY <1>1, WriteEffect DEF DatedInv
<1>3. CASE pc[c] = "marking"
  <2>1. copy[c][key[c]] \in Entry
    BY <1>1, <1>3 DEF WellPlaced, DatedInv, TypeInv, Typed, TypeOK
  <2>2. /\ patch[c].enqueued_at = copy[c][key[c]].enqueued_at
        /\ patch[c].retry_count = copy[c][key[c]].retry_count
        /\ patch[c].status = "in_flight"
    BY <1>1, <1>3, <2>1 DEF WellPlaced, Entry
  <2>. QED
    BY <1>1, <1>2, <1>3, <2>2 DEF WellPlaced, Callers
<1>4. CASE pc[c] # "marking"
  BY <1>1, <1>2, <1>4 DEF WellPlaced, Writing, Callers
<1>. QED
  BY <1>3, <1>4

LEMMA OrderWrite ==
  ASSUME OrderInv, NEW c \in Callers, Write(c)
  PROVE  OldestFirst' /\ Untried'
<1>. USE DEF OrderInv, DatedInv
<1>0. /\ WellPlaced(c) /\ key[c] \in Keys /\ pc[c] \in Writing /\ clobbered \subseteq clobbered'
  BY DEF Write, TypeInv, Placed, WellPlaced
<1>1. \/ /\ pc'[c] \in {"idle", "ready"} /\ Todo(c)' = Todo(c) \ {key[c]}
         /\ \A j \in Todo(c)' : listed'[c][j] = listed[c][j]
         /\ pc[c] # "marking"
      \/ pc[c] = "marking" /\ pc'[c] = "sending" /\ UNCHANGED <<key, listed>> /\ Todo(c)' = Todo(c)
  <2>1. CASE Settled(c) /\ pc[c] # "marking"
    BY <1>0, <2>1, SettledType
  <2>2. CASE pc[c] = "marking" /\ pc' = [pc EXCEPT ![c] = "sending"] /\ UNCHANGED <<key, listed>>
    BY <2>2 DEF TypeInv, Typed, TypeOK, Todo
  <2>. QED
    BY <2>1, <2>2 DEF Write
<1>2. OldestFirst'
  <2>. SUFFICES ASSUME NEW d \in Drains, pc'[d] \in {"marking", "sending", "settling", "catching", "recovering"}, NEW j \in Todo(d)'
                PROVE  listed'[d][key'[d]].enqueued_at <= listed'[d][j].enqueued_at
    BY DEF OldestFirst
  <2>1. CASE d = c
    BY <1>1, <2>1 DEF OldestFirst
  <2>2. CASE d # c
    <3>1. pc'[d] = pc[d] /\ key'[d] = key[d] /\ listed'[d] = listed[d] /\ Todo(d)' = Todo(d)
      BY <2>2, WriteOthers DEF Callers
    <3>. QED
      BY <3>1 DEF OldestFirst
  <2>. QED
    BY <2>1, <2>2
<1>3. ASSUME NEW d \in Drains, NEW j \in Keys \ clobbered', NEW k \in Keys \ clobbered',
             k \in Todo(d)', storage'[k] # None,
             storage'[k].enqueued_at = listed'[d][k].enqueued_at,
             Is(j, "pending")', storage'[j].retry_count = 0,
             storage'[j].enqueued_at < storage'[k].enqueued_at
      PROVE  j \in Todo(d)' /\ listed'[d][j].enqueued_at = storage'[j].enqueued_at
  <2>1. /\ k \in Todo(d) /\ listed'[d][k] = listed[d][k]
        /\ \A i \in Todo(d) : i # key[c] \/ pc[c] = "marking" => i \in Todo(d)' /\ listed'[d][i] = listed[d][i]
    <3>1. CASE d = c
      BY <1>1, <1>3, <3>1
    <3>2. CASE d # c
      BY <1>3, <3>2, WriteOthers DEF Callers
    <3>. QED
      BY <3>1, <3>2
  <2>2. /\ storage[j] = copy[c][j] /\ storage'[j] = IF j = key[c] THEN patch[c] ELSE storage[j]
        /\ storage[k] = copy[c][k] /\ storage'[k] = IF k = key[c] THEN patch[c] ELSE storage[k]
    BY WriteEffect
  <2>3. storage'[j] # None /\ storage'[j].status = "pending"
    BY <1>3 DEF Is
  \* The entry c writes is not one that was never tried, or it is the newest.
  <2>4. j # key[c]
    <3>. SUFFICES ASSUME j = key[c] PROVE FALSE
      OBVIOUS
    <3>1. storage'[j] = patch[c] /\ patch[c] # None
      BY <2>2, <2>3
    <3>2. k # j
      BY <1>3, <2>2, <3>1 DEF TypeInv, Typed, TypeOK, Entry
    <3>3. CASE pc[c] = "enqueueing"
      <4>1. copy[c][k].enqueued_at < patch[c].enqueued_at /\ patch[c].enqueued_at \in Nat
        BY <1>3, <2>2, <3>2, <3>3 DEF Dated
      <4>2. copy[c][k].enqueued_at \in Nat
        BY <1>3, <2>2, <3>2 DEF TypeInv, Typed, TypeOK, Entry
      <4>. QED
        BY <1>3, <2>2, <3>1, <3>2, <4>1, <4>2
    <3>4. CASE pc[c] = "marking"
      BY <2>3, <3>1, <3>4, WrittenEntry
    <3>5. CASE pc[c] \in {"settling", "recovering"}
      <4>1. listed[c][key[c]].retry_count \in Nat
        BY <1>0, <3>5 DEF WellPlaced, Todo, TypeInv, Typed, TypeOK, Entry
      <4>. QED
        BY <1>3, <2>3, <3>1, <3>5, <4>1, WrittenEntry
    <3>. QED
      BY <1>0, <3>3, <3>4, <3>5 DEF Writing
  <2>5. /\ storage[k] # None /\ storage[k].enqueued_at = listed[d][k].enqueued_at
        /\ storage[k].enqueued_at = storage'[k].enqueued_at
    <3>1. CASE k = key[c]
      <4>1. storage'[k] = patch[c] /\ patch[c] # None
        BY <1>3, <2>2, <3>1
      <4>2. pc[c] # "enqueueing"
        <5>1. Apart(listed[d][k], patch[c].enqueued_at) \/ pc[c] # "enqueueing"
          BY DEF Dated, Unused, Callers
        <5>. QED
          BY <1>3, <2>1, <4>1, <5>1 DEF Apart, Todo
      <4>. QED
        BY <1>3, <2>1, <3>1, <4>1, <4>2, WrittenEntry
    <3>2. CASE k # key[c]
      BY <1>3, <2>1, <2>2, <3>2
    <3>. QED
      BY <3>1, <3>2
  <2>6. UntriedLeft(d, j, k)
    BY <1>0 DEF Untried
  <2>7. j \in Todo(d) /\ listed[d][j].enqueued_at = storage[j].enqueued_at
    BY <1>3, <2>1, <2>2, <2>3, <2>4, <2>5, <2>6 DEF UntriedLeft, Is
  <2>. QED
    BY <2>1, <2>2, <2>4, <2>7
<1>. QED
  BY <1>2, <1>3 DEF Untried, UntriedLeft

LEMMA OrderStep == OrderInv /\ [Next]_vars => OldestFirst' /\ Untried'
<1>. SUFFICES ASSUME OrderInv, [Next]_vars PROVE OldestFirst' /\ Untried'
  OBVIOUS
<1>. USE DEF OrderInv, DatedInv
<1>1. ASSUME NEW c \in Screens, NEW k \in Keys, Enqueue(c, k) PROVE OldestFirst' /\ Untried'
  <2>1. c \notin Drains /\ UNCHANGED <<storage, clobbered, listed>>
    BY <1>1, CallersAssumption DEF Enqueue, history
  <2>2. \A d \in Drains : pc'[d] = pc[d] /\ key'[d] = key[d]
    BY <1>1, <2>1 DEF Enqueue, Read, Callers, TypeInv, Typed, TypeOK
  <2>. QED
    BY <2>1, <2>2 DEF OldestFirst, Untried, UntriedLeft, Is, Todo
<1>2. ASSUME NEW d \in Drains, Drain(d) PROVE OldestFirst' /\ Untried'
  <2>1. UNCHANGED <<storage, clobbered, key>> /\ pc'[d] = "ready"
    BY <1>2 DEF Drain, Callers, TypeInv, Typed, TypeOK
  <2>2. \A b \in Drains \ {d} : pc'[b] = pc[b] /\ listed'[b] = listed[b]
    BY <1>2 DEF Drain, Callers, TypeInv, Typed, TypeOK
  <2>3. \A j \in Keys : Is(j, "pending") => listed'[d][j] = storage[j]
    BY <1>2 DEF Drain, Callers, TypeInv, Typed
  <2>4. \A j \in Keys, k \in Keys : UntriedLeft(d, j, k)'
    BY <2>1, <2>3 DEF UntriedLeft, Is, Todo
  <2>. QED
    BY <2>1, <2>2, <2>4 DEF OldestFirst, Untried, UntriedLeft, Is, Todo
<1>3. ASSUME NEW d \in Drains, NEW k \in Keys, Mark(d, k) PROVE OldestFirst' /\ Untried'
  <2>1. UNCHANGED <<storage, clobbered, listed>>
    BY <1>3 DEF Mark, history
  <2>2. \A b \in Drains \ {d} : pc'[b] = pc[b] /\ key'[b] = key[b]
    BY <1>3 DEF Mark, Read, Callers, TypeInv, Typed, TypeOK
  <2>3. key'[d] = k
    BY <1>3 DEF Mark, Read, Callers, TypeInv, Typed, TypeOK
  <2>4. \A j \in Todo(d) : listed[d][k].enqueued_at <= listed[d][j].enqueued_at
    BY <1>3 DEF Mark, First
  <2>. QED
    BY <2>1, <2>2, <2>3, <2>4 DEF OldestFirst, Untried, UntriedLeft, Is, Todo
<1>4. ASSUME NEW d \in Drains, NEW answer \in Answers, Settles(d, answer) PROVE OldestFirst' /\ Untried'
  <2>1. UNCHANGED <<storage, clobbered>> /\ pc[d] \in {"sending", "catching"}
    BY <1>4 DEF Settles
  <2>2. \A b \in Drains \ {d} :
          pc'[b] = pc[b] /\ key'[b] = key[b] /\ listed'[b] = listed[b] /\ Todo(b)' = Todo(b)
    BY <1>4, SettlesLocals DEF Callers
  <2>3. \A b \in Drains : \A j \in Todo(b)' : j \in Todo(b) /\ listed'[b][j] = listed[b][j]
    BY <1>4, SettlesLocals DEF Callers
  <2>4. \/ storage[key[d]] # None /\ key'[d] = key[d] /\ listed' = listed /\ Todo(d)' = Todo(d)
        \/ storage[key[d]] = None /\ pc'[d] \in {"idle", "ready"} /\ Todo(d)' = Todo(d) \ {key[d]}
    BY <1>4, SettlesLocals DEF Todo
  <2>5. OldestFirst'
    <3>. SUFFICES ASSUME NEW b \in Drains, pc'[b] \in {"marking", "sending", "settling", "catching", "recovering"}, NEW j \in Todo(b)'
                  PROVE  listed'[b][key'[b]].enqueued_at <= listed'[b][j].enqueued_at
      BY DEF OldestFirst
    <3>1. CASE b = d
      BY <2>1, <2>4, <3>1 DEF OldestFirst
    <3>2. CASE b # d
      BY <2>2, <3>2 DEF OldestFirst
    <3>. QED
      BY <3>1, <3>2
  <2>6. \A b \in Drains : \A j \in Todo(b) : storage[j] # None => j \in Todo(b)'
    BY <2>2, <2>4
  <2>7. ASSUME NEW b \in Drains, NEW j \in Keys \ clobbered, NEW k \in Keys \ clobbered
        PROVE  UntriedLeft(b, j, k)'
    <3>1. UntriedLeft(b, j, k)
      BY DEF Untried
    <3>. QED
      BY <2>1, <2>3, <2>6, <3>1 DEF UntriedLeft, Is
  <2>. QED
    BY <2>1, <2>5, <2>7 DEF Untried
<1>5. ASSUME NEW c \in Callers, Write(c) PROVE OldestFirst' /\ Untried'
  BY <1>5, OrderWrite
<1>6. CASE Clear
  BY <1>6 DEF Clear, local, OldestFirst, Untried, UntriedLeft, Is, Todo, Empty
<1>7. CASE Kill
  BY <1>7 DEF Kill, OldestFirst, Untried, UntriedLeft, Is, Todo, Empty, Callers
<1>8. CASE UNCHANGED vars
  BY <1>8 DEF vars, local, history, OldestFirst, Untried, UntriedLeft, Is, Todo
<1>9. ASSUME NEW c \in Callers, Fails(c) PROVE OldestFirst' /\ Untried'
  <2>1. UNCHANGED <<storage, clobbered>>
    BY <1>9, FailsLocals
  <2>2. \A b \in Drains \ {c} :
          pc'[b] = pc[b] /\ key'[b] = key[b] /\ listed'[b] = listed[b] /\ Todo(b)' = Todo(b)
    BY <1>9, FailsLocals DEF Callers
  <2>3. CASE pc'[c] = "idle" /\ Todo(c)' = {}
    BY <2>1, <2>2, <2>3 DEF OldestFirst, Untried, UntriedLeft, Is
  <2>4. CASE pc[c] \in {"sending", "settling"} /\ key'[c] = key[c] /\ listed' = listed
    <3>1. \A b \in Drains : Todo(b)' = Todo(b)
      BY <2>4 DEF Todo
    <3>. QED
      BY <2>1, <2>2, <2>4, <3>1 DEF OldestFirst, Untried, UntriedLeft, Is
  <2>. QED
    BY <1>9, <2>3, <2>4, FailsLocals
<1>. QED
  BY <1>1, <1>2, <1>3, <1>4, <1>5, <1>6, <1>7, <1>8, <1>9, NextKinds

\* No action is sent before an older one had its first try.
THEOREM FirstTriesAlwaysInOrder == Spec => []FirstTriesInOrder
<1>1. Init => OldestFirst /\ Untried
  BY DEF Init, OldestFirst, Untried, UntriedLeft, Todo, Empty, Callers
<1>2. ASSUME OrderInv PROVE FirstTriesInOrder
  <2>. USE DEF OrderInv, DatedInv
  <2>. SUFFICES ASSUME NEW d \in Drains, NEW j \in Keys \ clobbered, NEW k \in Keys \ clobbered,
                       pc[d] = "sending", key[d] = k, storage[k] # None,
                       storage[k].enqueued_at = listed[d][k].enqueued_at,
                       Is(j, "pending"), storage[j].enqueued_at < storage[k].enqueued_at,
                       ~(storage[j].retry_count > 0)
                PROVE  FALSE
    BY <1>2 DEF FirstTriesInOrder
  <2>1. k \in Todo(d)
    BY <1>2 DEF TypeInv, Placed, WellPlaced, Callers
  <2>2. storage[j] \in Entry /\ storage[k] \in Entry
    BY <1>2 DEF Is, TypeInv, Typed, TypeOK
  <2>3. j \in Todo(d) /\ listed[d][j].enqueued_at = storage[j].enqueued_at
    <3>1. storage[j].retry_count = 0
      BY <2>2 DEF Entry
    <3>2. UntriedLeft(d, j, k)
      BY <1>2 DEF Untried
    <3>. QED
      BY <2>1, <3>1, <3>2 DEF UntriedLeft
  <2>4. listed[d][k].enqueued_at <= listed[d][j].enqueued_at
    BY <1>2, <2>3 DEF OldestFirst
  <2>. QED
    BY <2>2, <2>3, <2>4 DEF Entry
<1>. QED
  BY <1>1, <1>2, TypeInit, TypeStep, DatedInit, DatedStep, OrderStep, PTL DEF Spec, OrderInv, DatedInv

-----------------------------------------------------------------------------
\* The retry budget.

\* An entry no two drains listed at once is left to one drain at most.
OneDrain ==
  \A d \in Drains, b \in Drains : \A k \in Todo(d) \cap Todo(b) : k \notin shared => d = b

\* It has spent no more than what its drain listed, and only that drain moves it.
ListedBound ==
  \A d \in Drains : \A k \in Todo(d) \ (shared \cup clobbered) :
    storage[k] # None =>
      /\ storage[k].retry_count <= listed[d][k].retry_count
      /\ \/ storage[k].status = "pending"
         \/ storage[k].status = "in_flight" /\ key[d] = k /\ pc[d] \in {"sending", "settling", "catching", "recovering"}

BudgetInv == DatedInv /\ OneDrain /\ ListedBound

LEMMA BudgetWrite ==
  ASSUME BudgetInv, NEW c \in Callers, Write(c)
  PROVE  OneDrain' /\ ListedBound'
<1>. USE DEF BudgetInv, DatedInv
<1>0. /\ WellPlaced(c) /\ key[c] \in Keys /\ pc[c] \in Writing /\ shared' = shared /\ clobbered \subseteq clobbered'
  BY DEF Write, TypeInv, Placed, WellPlaced
<1>1. \/ /\ Todo(c)' = Todo(c) \ {key[c]} /\ pc[c] # "marking"
         /\ \A j \in Todo(c)' : listed'[c][j] = listed[c][j]
      \/ pc[c] = "marking" /\ pc'[c] = "sending" /\ UNCHANGED <<key, listed>> /\ Todo(c)' = Todo(c)
  <2>1. CASE Settled(c) /\ pc[c] # "marking"
    BY <1>0, <2>1, SettledType
  <2>2. CASE pc[c] = "marking" /\ pc' = [pc EXCEPT ![c] = "sending"] /\ UNCHANGED <<key, listed>>
    BY <2>2 DEF TypeInv, Typed, TypeOK, Todo
  <2>. QED
    BY <2>1, <2>2 DEF Write
<1>2. \A d \in Drains : \A k \in Todo(d)' : k \in Todo(d) /\ listed'[d][k] = listed[d][k]
  <2>. TAKE d \in Drains
  <2>1. CASE d = c
    BY <1>1, <2>1
  <2>2. CASE d # c
    BY <2>2, WriteOthers DEF Callers
  <2>. QED
    BY <2>1, <2>2
<1>3. OneDrain'
  BY <1>0, <1>2 DEF OneDrain
<1>4. ASSUME NEW d \in Drains, NEW k \in Todo(d)', k \notin shared, k \notin clobbered', storage'[k] # None
      PROVE  /\ storage'[k].retry_count <= listed'[d][k].retry_count
             /\ \/ storage'[k].status = "pending"
                \/ storage'[k].status = "in_flight" /\ key'[d] = k /\ pc'[d] \in {"sending", "settling", "catching", "recovering"}
  <2>1. k \in Todo(d) /\ k \in Keys /\ listed'[d][k] = listed[d][k] /\ k \notin clobbered
    BY <1>0, <1>2, <1>4 DEF Todo
  <2>2. storage'[k] = IF k = key[c] THEN patch[c] ELSE storage[k]
    BY <1>4, <2>1, WriteEffect
  <2>3. storage[k] # None =>
          /\ storage[k].retry_count <= listed[d][k].retry_count
          /\ \/ storage[k].status = "pending"
             \/ storage[k].status = "in_flight" /\ key[d] = k /\ pc[d] \in {"sending", "settling", "catching", "recovering"}
    BY <1>4, <2>1 DEF ListedBound
  <2>4. CASE k # key[c]
    <3>1. CASE d = c
      BY <1>4, <2>1, <2>2, <2>3, <2>4, <3>1
    <3>2. CASE d # c
      BY <1>4, <2>1, <2>2, <2>3, <2>4, <3>2, WriteOthers DEF Callers
    <3>. QED
      BY <3>1, <3>2
  <2>5. CASE k = key[c] /\ pc[c] = "enqueueing"
    <3>1. storage'[k].retry_count = 0 /\ storage'[k].status = "pending"
      BY <1>4, <2>2, <2>5, WrittenEntry
    <3>2. listed[d][k].retry_count \in Nat
      BY <2>1 DEF Todo, TypeInv, Typed, TypeOK, Entry, Callers
    <3>. QED
      BY <2>1, <3>1, <3>2
  <2>6. CASE k = key[c] /\ pc[c] # "enqueueing"
    <3>1. c \in Drains /\ k \in Todo(c) /\ storage[k] # None
      BY <1>4, <2>2, <2>6, WrittenEntry
    <3>2. d = c
      BY <1>4, <2>1, <3>1 DEF OneDrain
    <3>3. pc[c] = "marking"
      BY <1>1, <1>4, <2>6, <3>2
    <3>4. storage'[k].status = "in_flight" /\ storage'[k].retry_count = storage[k].retry_count
      BY <1>4, <2>2, <2>6, <3>3, WrittenEntry
    <3>. QED
      BY <1>1, <2>1, <2>3, <2>6, <3>1, <3>2, <3>3, <3>4
  <2>. QED
    BY <2>4, <2>5, <2>6
<1>. QED
  BY <1>0, <1>3, <1>4 DEF ListedBound

LEMMA BudgetStep == BudgetInv /\ [Next]_vars => OneDrain' /\ ListedBound'
<1>. SUFFICES ASSUME BudgetInv, [Next]_vars PROVE OneDrain' /\ ListedBound'
  OBVIOUS
<1>. USE DEF BudgetInv, DatedInv
<1>1. ASSUME NEW c \in Screens, NEW k \in Keys, Enqueue(c, k) PROVE OneDrain' /\ ListedBound'
  <2>1. c \notin Drains /\ UNCHANGED <<storage, clobbered, shared, listed>>
    BY <1>1, CallersAssumption DEF Enqueue, history
  <2>2. \A d \in Drains : pc'[d] = pc[d] /\ key'[d] = key[d]
    BY <1>1, <2>1 DEF Enqueue, Read, Callers, TypeInv, Typed, TypeOK
  <2>. QED
    BY <2>1, <2>2 DEF OneDrain, ListedBound, Todo
<1>2. ASSUME NEW d \in Drains, Drain(d) PROVE OneDrain' /\ ListedBound'
  <2>1. UNCHANGED <<storage, clobbered, key>> /\ shared \subseteq shared' /\ pc[d] = "idle"
    BY <1>2 DEF Drain
  <2>2. \A b \in Drains \ {d} : pc'[b] = pc[b] /\ listed'[b] = listed[b] /\ Todo(b)' = Todo(b)
    BY <1>2 DEF Drain, Callers, TypeInv, Typed, TypeOK, Todo
  <2>3. \A k \in Todo(d)' : k \in Keys /\ Is(k, "pending") /\ listed'[d][k] = storage[k]
    BY <1>2 DEF Drain, Callers, TypeInv, Typed, Todo
  <2>4. \A k \in Keys, b \in Drains \ {d} : (Is(k, "pending") /\ k \in Todo(b)) => k \in shared'
    BY <1>2 DEF Drain
  <2>5. OneDrain'
    <3>. SUFFICES ASSUME NEW a \in Drains, NEW b \in Drains, NEW k \in Todo(a)', k \in Todo(b)',
                         k \notin shared', a # b
                  PROVE  FALSE
      BY DEF OneDrain
    <3>1. CASE a = d
      BY <2>2, <2>3, <2>4, <3>1
    <3>2. CASE b = d
      BY <2>2, <2>3, <2>4, <3>2
    <3>3. CASE a # d /\ b # d
      BY <2>1, <2>2, <3>3 DEF OneDrain
    <3>. QED
      BY <3>1, <3>2, <3>3
  <2>6. ListedBound'
    <3>. SUFFICES ASSUME NEW b \in Drains, NEW k \in Todo(b)', k \notin shared', k \notin clobbered, storage[k] # None
                  PROVE  /\ storage[k].retry_count <= listed'[b][k].retry_count
                         /\ \/ storage[k].status = "pending"
                            \/ storage[k].status = "in_flight" /\ key[b] = k /\ pc'[b] \in {"sending", "settling", "catching", "recovering"}
      BY <2>1 DEF ListedBound
    <3>1. CASE b = d
      <4>1. storage[k].retry_count \in Nat
        BY <2>3, <3>1 DEF TypeInv, Typed, TypeOK, Entry
      <4>. QED
        BY <2>3, <3>1, <4>1 DEF Is
    <3>2. CASE b # d
      BY <2>1, <2>2, <3>2 DEF ListedBound
    <3>. QED
      BY <3>1, <3>2
  <2>. QED
    BY <2>5, <2>6
<1>3. ASSUME NEW d \in Drains, NEW k \in Keys, Mark(d, k) PROVE OneDrain' /\ ListedBound'
  <2>1. UNCHANGED <<storage, clobbered, shared, listed>> /\ pc[d] = "ready"
    BY <1>3 DEF Mark, history
  <2>2. \A b \in Drains \ {d} : pc'[b] = pc[b] /\ key'[b] = key[b]
    BY <1>3 DEF Mark, Read, Callers, TypeInv, Typed, TypeOK
  <2>. QED
    BY <2>1, <2>2 DEF OneDrain, ListedBound, Todo
<1>4. ASSUME NEW d \in Drains, NEW answer \in Answers, Settles(d, answer) PROVE OneDrain' /\ ListedBound'
  <2>1. UNCHANGED <<storage, clobbered, shared>>
    BY <1>4 DEF Settles
  <2>2. \A b \in Drains \ {d} : pc'[b] = pc[b] /\ key'[b] = key[b]
    BY <1>4, SettlesLocals DEF Callers
  <2>3. \A b \in Drains : \A j \in Todo(b)' : j \in Todo(b) /\ listed'[b][j] = listed[b][j]
    BY <1>4, SettlesLocals DEF Callers
  <2>4. \/ key'[d] = key[d] /\ pc'[d] \in {"settling", "recovering"}
        \/ storage[key[d]] = None
    BY <1>4, SettlesLocals
  <2>5. OneDrain'
    BY <2>1, <2>3 DEF OneDrain
  <2>6. ListedBound'
    BY <2>1, <2>2, <2>3, <2>4 DEF ListedBound
  <2>. QED
    BY <2>5, <2>6
<1>5. ASSUME NEW c \in Callers, Write(c) PROVE OneDrain' /\ ListedBound'
  BY <1>5, BudgetWrite
<1>6. CASE Clear
  BY <1>6 DEF Clear, local, OneDrain, ListedBound, Todo, Empty
<1>7. CASE Kill
  BY <1>7 DEF Kill, OneDrain, ListedBound, Todo, Empty, Callers
<1>8. CASE UNCHANGED vars
  BY <1>8 DEF vars, local, history, OneDrain, ListedBound, Todo
<1>9. ASSUME NEW c \in Callers, Fails(c) PROVE OneDrain' /\ ListedBound'
  <2>1. UNCHANGED <<storage, clobbered, shared>>
    BY <1>9, FailsLocals
  <2>2. \A b \in Drains : \A j \in Todo(b)' : j \in Todo(b) /\ listed'[b][j] = listed[b][j]
    BY <1>9, FailsLocals DEF Callers
  <2>3. \A b \in Drains : \A j \in Todo(b)' :
          (key[b] = j /\ pc[b] \in {"sending", "settling", "catching", "recovering"}) =>
            key'[b] = j /\ pc'[b] \in {"sending", "settling", "catching", "recovering"}
    BY <1>9, FailsLocals DEF Callers
  <2>4. OneDrain'
    BY <2>1, <2>2 DEF OneDrain
  <2>5. ListedBound'
    BY <2>1, <2>2, <2>3 DEF ListedBound
  <2>. QED
    BY <2>4, <2>5
<1>. QED
  BY <1>1, <1>2, <1>3, <1>4, <1>5, <1>6, <1>7, <1>8, <1>9, NextKinds

\* What a step may do to an entry.
SpentWell ==
  \A k \in Keys \ (clobbered' \cup shared) :
    (storage[k] # None /\ storage'[k] # None
       /\ storage'[k].enqueued_at = storage[k].enqueued_at) =>
      /\ storage[k].retry_count <= storage'[k].retry_count
      /\ storage[k].status = "failed_permanent" => storage'[k] = storage[k]
      /\ (storage[k].status = "in_flight" /\ storage'[k].status = "pending") =>
           storage[k].retry_count < storage'[k].retry_count

LEMMA SpentStep == BudgetInv /\ [Next]_vars => SpentWell
<1>. SUFFICES ASSUME BudgetInv, [Next]_vars PROVE SpentWell
  OBVIOUS
<1>. USE DEF BudgetInv, DatedInv
<1>0. \A k \in Keys : storage[k] # None => storage[k].retry_count \in Nat
  BY DEF TypeInv, Typed, TypeOK, Entry
<1>1. CASE storage' = storage
  BY <1>0, <1>1 DEF SpentWell
<1>2. CASE Clear
  BY <1>2 DEF Clear, SpentWell, Empty
<1>3. ASSUME NEW c \in Callers, Write(c) PROVE SpentWell
  <2>. SUFFICES ASSUME NEW k \in Keys, k \notin clobbered', k \notin shared, storage[k] # None, storage'[k] # None
                PROVE  /\ storage[k].retry_count <= storage'[k].retry_count
                       /\ storage[k].status = "failed_permanent" => storage'[k] = storage[k]
                       /\ (storage[k].status = "in_flight" /\ storage'[k].status = "pending") =>
                            storage[k].retry_count < storage'[k].retry_count
    BY DEF SpentWell
  <2>1. k \notin clobbered /\ storage'[k] = IF k = key[c] THEN patch[c] ELSE storage[k]
    BY <1>3, WriteEffect
  <2>2. CASE k # key[c]
    BY <1>0, <2>1, <2>2
  <2>3. CASE k = key[c]
    <3>1. /\ patch[c] # None /\ storage'[k] = patch[c]
      BY <2>1, <2>3
    <3>2. pc[c] \in {"marking", "settling", "recovering"}
      BY <1>3, <2>3, <3>1, WrittenEntry DEF Write, Writing
    <3>3. c \in Drains /\ k \in Todo(c)
      BY <1>3, <2>3, <3>1, <3>2, WrittenEntry
    <3>4. /\ storage[k].retry_count <= listed[c][k].retry_count
          /\ \/ storage[k].status = "pending"
             \/ storage[k].status = "in_flight" /\ key[c] = k /\ pc[c] \in {"sending", "settling", "catching", "recovering"}
      BY <2>1, <3>3 DEF ListedBound
    <3>5. listed[c][k].retry_count \in Nat /\ storage[k].retry_count \in Nat
      BY <1>0, <3>3 DEF Todo, TypeInv, Typed, TypeOK, Entry
    <3>6. CASE pc[c] = "marking"
      BY <1>3, <2>3, <3>1, <3>4, <3>5, <3>6, WrittenEntry
    <3>7. CASE pc[c] \in {"settling", "recovering"}
      <4>1. \/ patch[c].retry_count = listed[c][k].retry_count + 1
            \/ patch[c].status = "failed_permanent" /\ patch[c].retry_count = storage[k].retry_count
        BY <1>3, <2>3, <3>1, <3>7, WrittenEntry
      <4>. QED
        BY <3>1, <3>4, <3>5, <4>1
    <3>. QED
      BY <3>2, <3>6, <3>7
  <2>. QED
    BY <2>2, <2>3
<1>4. CASE Next
  BY <1>1, <1>2, <1>3, <1>4, FailsLocals, NextKinds DEF Enqueue, Drain, Mark, Settles, Kill
<1>. QED
  BY <1>1, <1>4 DEF vars

\* An entry that one drain at a time works on never regains an attempt, and
\* one that failed for good is left alone.
THEOREM BudgetAlwaysSpent == Spec => BudgetSpent
<1>1. Init => OneDrain /\ ListedBound
  BY DEF Init, OneDrain, ListedBound, Todo, Empty, Callers
<1>2. BudgetInv /\ [Next]_vars => [SpentWell]_vars
  BY SpentStep
<1>. QED
  BY <1>1, <1>2, TypeInit, TypeStep, DatedInit, DatedStep, BudgetStep, PTL
     DEF Spec, BudgetInv, DatedInv, BudgetSpent, SpentWell

-----------------------------------------------------------------------------
\* What the server took is not sent again.

\* Keys whose entries may be sent again.
Excused == clobbered \cup shared \cup kept

\* What was taken is dated, and a new entry is dated like nothing taken.
TakenDated ==
  /\ \A x \in taken : x[2] <= clock
  /\ \A c \in Callers : pc[c] = "enqueueing" => \A k \in Keys : <<k, patch[c].enqueued_at>> \notin taken

\* What was taken is not pending.
TakenWaits ==
  \A k \in Keys \ Excused : Is(k, "pending") => <<k, storage[k].enqueued_at>> \notin taken

\* d is about to remove k.
Removes(d, k) == key[d] = k /\ pc[d] = "settling" /\ patch[d] = None

\* What a drain listed and does not remove was not taken.
UntakenAt(d, k) ==
  Removes(d, k) \/ (/\ <<k, listed[d][k].enqueued_at>> \notin taken
                    /\ storage[k] # None => <<k, storage[k].enqueued_at>> \notin taken)

Untaken == \A d \in Drains : \A k \in Todo(d) \ Excused : UntakenAt(d, k)

\* What a drain sends is not pending, or is another entry.
SentMarked ==
  \A d \in Drains :
    (pc[d] = "sending" /\ key[d] \notin Excused /\ Is(key[d], "pending")) =>
      storage[key[d]].enqueued_at # listed[d][key[d]].enqueued_at

Once == TakenDated /\ TakenWaits /\ Untaken /\ SentMarked

TakenInv == DatedInv /\ OneDrain /\ Once

\* A step that changes no entry and takes nothing.
LEMMA OnceSame ==
  ASSUME TakenInv, UNCHANGED <<storage, taken>>, clock' = clock, Excused \subseteq Excused',
         \A b \in Drains : \A j \in Todo(b)' \ Excused' :
           /\ j \in Todo(b) /\ listed'[b][j] = listed[b][j] /\ (Removes(b, j) => Removes(b, j)'),
         \A b \in Drains : (pc'[b] = "sending" /\ key'[b] \notin Excused' /\ Is(key'[b], "pending")) =>
           pc[b] = "sending" /\ key'[b] = key[b] /\ listed'[b] = listed[b],
         \A b \in Callers : pc'[b] = "enqueueing" => pc[b] = "enqueueing" /\ patch'[b] = patch[b]
  PROVE  Once'
<1>1. TakenDated'
  BY DEF TakenInv, Once, TakenDated
<1>2. TakenWaits'
  BY DEF TakenInv, Once, TakenWaits, Is
<1>3. Untaken'
  <2>. SUFFICES ASSUME NEW b \in Drains, NEW j \in Todo(b)', j \notin Excused' PROVE UntakenAt(b, j)'
    BY DEF Untaken
  <2>1. UntakenAt(b, j)
    BY DEF TakenInv, Once, Untaken
  <2>. QED
    BY <2>1 DEF UntakenAt
<1>4. SentMarked'
  BY DEF TakenInv, Once, SentMarked, Is
<1>. QED
  BY <1>1, <1>2, <1>3, <1>4 DEF Once

LEMMA OnceEnqueue ==
  ASSUME TakenInv, NEW c \in Screens, NEW k \in Keys, Enqueue(c, k)
  PROVE  Once'
<1>1. /\ c \in Callers /\ c \notin Drains /\ clock' = clock + 1 /\ clock \in Nat
      /\ UNCHANGED <<storage, taken, kept, clobbered, shared, listed>>
  BY CallersAssumption DEF Enqueue, history, Callers, TakenInv, DatedInv, TypeInv, Typed, TypeOK
<1>2. /\ patch'[c].enqueued_at = clock + 1
      /\ \A b \in Callers \ {c} : pc'[b] = pc[b] /\ key'[b] = key[b] /\ patch'[b] = patch[b]
  BY <1>1 DEF Enqueue, Read, TakenInv, DatedInv, TypeInv, Typed, TypeOK
<1>3. taken \subseteq Keys \X Nat
  BY DEF TakenInv, DatedInv, TypeInv, Typed, TypeOK
<1>4. TakenDated'
  <2>1. \A x \in taken : x[2] <= clock' /\ x[2] # clock + 1
    BY <1>1, <1>3 DEF TakenInv, Once, TakenDated
  <2>2. \A j \in Keys : <<j, clock + 1>> \notin taken
    BY <2>1
  <2>. QED
    BY <1>1, <1>2, <2>1, <2>2 DEF TakenInv, Once, TakenDated
<1>5. \A d \in Drains : d \in Callers \ {c}
  BY <1>1 DEF Callers
<1>6. TakenWaits' /\ Untaken' /\ SentMarked'
  BY <1>1, <1>2, <1>5 DEF TakenInv, Once, TakenWaits, Untaken, UntakenAt, Removes, SentMarked, Excused, Is, Todo
<1>. QED
  BY <1>4, <1>6 DEF Once

LEMMA OnceDrain ==
  ASSUME TakenInv, NEW d \in Drains, Drain(d)
  PROVE  Once'
<1>1. /\ UNCHANGED <<storage, clock, key, patch, taken, kept, clobbered>>
      /\ shared \subseteq shared' /\ Excused \subseteq Excused' /\ pc[d] = "idle" /\ pc'[d] = "ready"
  BY DEF Drain, Excused, Callers, TakenInv, DatedInv, TypeInv, Typed, TypeOK
<1>2. \A b \in Callers \ {d} : pc'[b] = pc[b] /\ listed'[b] = listed[b] /\ Todo(b)' = Todo(b)
  BY DEF Drain, Callers, TakenInv, DatedInv, TypeInv, Typed, TypeOK, Todo
<1>3. \A k \in Todo(d)' : k \in Keys /\ Is(k, "pending") /\ listed'[d][k] = storage[k]
  BY DEF Drain, Callers, TakenInv, DatedInv, TypeInv, Typed, Todo
<1>4. TakenDated' /\ TakenWaits' /\ SentMarked'
  BY <1>1, <1>2 DEF TakenInv, Once, TakenDated, TakenWaits, SentMarked, Is, Callers
<1>5. ASSUME NEW b \in Drains, NEW k \in Todo(b)', k \notin Excused' PROVE UntakenAt(b, k)'
  <2>1. CASE b = d
    <3>1. <<k, storage[k].enqueued_at>> \notin taken
      BY <1>1, <1>3, <1>5, <2>1 DEF TakenInv, Once, TakenWaits
    <3>. QED
      BY <1>1, <1>3, <2>1, <3>1 DEF UntakenAt
  <2>2. CASE b # d
    <3>1. UntakenAt(b, k) /\ listed'[b] = listed[b] /\ pc'[b] = pc[b]
      BY <1>1, <1>2, <1>5, <2>2 DEF TakenInv, Once, Untaken, Callers
    <3>. QED
      BY <1>1, <3>1 DEF UntakenAt, Removes
  <2>. QED
    BY <2>1, <2>2
<1>. QED
  BY <1>4, <1>5 DEF Once, Untaken

LEMMA OnceMark ==
  ASSUME TakenInv, NEW d \in Drains, NEW k \in Keys, Mark(d, k)
  PROVE  Once'
<1>1. UNCHANGED <<storage, clock, listed, taken, kept, clobbered, shared>> /\ pc[d] = "ready" /\ d \in Callers
  BY DEF Mark, history, Callers
<1>2. \A b \in Callers \ {d} : pc'[b] = pc[b] /\ key'[b] = key[b] /\ patch'[b] = patch[b]
  BY DEF Mark, Read, TakenInv, DatedInv, TypeInv, Typed, TypeOK
<1>3. /\ pc'[d] \in {"marking", "sending"} /\ key'[d] = k
      /\ pc'[d] = "sending" => storage[k] = None
  BY <1>1 DEF Mark, Read, TakenInv, DatedInv, TypeInv, Typed, TypeOK
<1>4. \A b \in Drains : b \in Callers
  BY DEF Callers
<1>. QED
  BY <1>1, <1>2, <1>3, <1>4, OnceSame DEF Excused, Removes, Is, Todo

\* An entry that d has answered for.
LEMMA OnceSettles ==
  ASSUME TakenInv, NEW d \in Drains, NEW answer \in Answers, Settles(d, answer)
  PROVE  Once'
<1>. USE DEF TakenInv, DatedInv
<1>. DEFINE k == key[d]
            t == listed[d][k].enqueued_at
<1>1. /\ UNCHANGED <<storage, clock, kept, clobbered, shared>> /\ Excused' = Excused
      /\ taken' = IF answer = "ok" THEN taken \cup {<<k, t>>} ELSE taken
      /\ answer = "ok" => pc[d] = "sending"
      /\ d \in Callers
  BY DEF Settles, Excused, Callers
<1>2. k \in Todo(d) /\ k \in Keys
  BY SettlesLocals
<1>3. /\ \A b \in Callers : \A j \in Todo(b)' : j \in Todo(b) /\ listed'[b][j] = listed[b][j]
      /\ \A b \in Callers \ {d} : pc'[b] = pc[b] /\ key'[b] = key[b] /\ patch'[b] = patch[b] /\ listed'[b] = listed[b]
      /\ pc'[d] \in {"settling", "recovering", "idle", "ready"}
  BY SettlesLocals
<1>4. listed[d][k] \in Entry
  BY <1>1, <1>2 DEF Todo, TypeInv, Typed, TypeOK
<1>5. TakenDated'
  <2>1. t \in Nat /\ t <= clock
    <3>1. t \in Nat /\ clock \in Nat
      BY <1>4 DEF Entry, TypeInv, Typed, TypeOK
    <3>2. ~(clock < t)
      BY <1>1, <1>2, <3>1 DEF Dated, Unused, Apart, Todo
    <3>. QED
      BY <3>1, <3>2
  <2>2. ASSUME NEW c \in Callers, pc'[c] = "enqueueing"
        PROVE  pc[c] = "enqueueing" /\ patch'[c] = patch[c] /\ patch[c].enqueued_at # t
    <3>1. c # d
      BY <1>3, <2>2
    <3>2. pc[c] = "enqueueing" /\ patch'[c] = patch[c]
      BY <1>3, <2>2, <3>1
    <3>3. Apart(listed[d][k], patch[c].enqueued_at)
      BY <1>1, <1>2, <3>2 DEF Dated, Unused
    <3>. QED
      BY <1>2, <3>2, <3>3 DEF Apart, Todo
  <2>. HIDE DEF t, k
  <2>. QED
    BY <1>1, <2>1, <2>2 DEF Once, TakenDated
<1>6. TakenWaits'
  <2>. SUFFICES ASSUME NEW j \in Keys \ Excused, Is(j, "pending")
                PROVE  <<j, storage[j].enqueued_at>> \notin taken'
    BY <1>1 DEF TakenWaits, Is
  <2>1. <<j, storage[j].enqueued_at>> \notin taken
    BY DEF Once, TakenWaits
  <2>2. (j = k /\ answer = "ok") => storage[j].enqueued_at # t
    BY <1>1 DEF Once, SentMarked
  <2>. HIDE DEF t, k
  <2>. QED
    BY <1>1, <2>1, <2>2
<1>7. ASSUME NEW b \in Drains, NEW j \in Todo(b)', j \notin Excused PROVE UntakenAt(b, j)'
  <2>1. b \in Callers /\ j \in Todo(b) /\ listed'[b][j] = listed[b][j] /\ UntakenAt(b, j)
    BY <1>3, <1>7 DEF Once, Untaken, Callers
  <2>2. CASE j = k /\ b = d
    <3>1. storage[k] # None /\ key'[d] = k /\ ((patch'[d] = None) <=> (answer = "ok"))
          /\ patch'[d] = SettledEntry(storage[k], listed[d][k].retry_count, answer)
      BY <1>7, <2>2, SettlesLocals
    <3>2. CASE answer = "ok"
      <4>1. pc'[d] = "settling"
        BY <1>1, <3>1, <3>2 DEF Settles, Settle, Read, TypeInv, Typed, TypeOK
      <4>. QED
        BY <2>2, <3>1, <3>2, <4>1 DEF UntakenAt, Removes
    <3>3. CASE answer # "ok"
      <4>1. ~Removes(d, k)
        BY DEF Settles, Removes
      <4>. QED
        BY <1>1, <2>1, <2>2, <3>3, <4>1 DEF UntakenAt
    <3>. QED
      BY <3>2, <3>3
  <2>3. CASE j # k
    <3>1. ~Removes(d, j)
      BY <2>3 DEF Removes
    <3>2. (b = d) \/ (Removes(b, j) => Removes(b, j)')
      BY <1>3, <2>1 DEF Removes
    <3>3. /\ <<j, listed[b][j].enqueued_at>> \in taken' => <<j, listed[b][j].enqueued_at>> \in taken
          /\ <<j, storage[j].enqueued_at>> \in taken' => <<j, storage[j].enqueued_at>> \in taken
      <4>. HIDE DEF t, k
      <4>. QED
        BY <1>1, <2>3
    <3>. QED
      BY <1>1, <2>1, <3>1, <3>2, <3>3 DEF UntakenAt
  <2>4. CASE j = k /\ b # d
    BY <1>2, <1>7, <2>1, <2>4 DEF OneDrain, Excused
  <2>. QED
    BY <2>2, <2>3, <2>4
<1>8. SentMarked'
  BY <1>1, <1>3 DEF Once, SentMarked, Is, Callers
<1>. QED
  BY <1>1, <1>5, <1>6, <1>7, <1>8 DEF Once, Untaken

\* What c writes for a key that it does not clobber.
LEMMA OnceWrite ==
  ASSUME TakenInv, NEW c \in Callers, Write(c)
  PROVE  Once'
<1>. USE DEF TakenInv, DatedInv
<1>1. /\ WellPlaced(c) /\ key[c] \in Keys /\ pc[c] \in Writing
      /\ UNCHANGED <<clock, taken, kept, shared>> /\ clobbered \subseteq clobbered' /\ Excused \subseteq Excused'
  BY DEF Write, TypeInv, Placed, WellPlaced, Excused
<1>2. \/ /\ pc'[c] \in {"idle", "ready"} /\ Todo(c)' = Todo(c) \ {key[c]}
         /\ \A j \in Todo(c)' : listed'[c][j] = listed[c][j]
         /\ pc[c] # "marking"
      \/ /\ pc[c] = "marking" /\ pc'[c] = "sending" /\ UNCHANGED <<key, listed>> /\ Todo(c)' = Todo(c)
         /\ c \in Drains
  <2>1. CASE Settled(c) /\ pc[c] # "marking"
    BY <1>1, <2>1, SettledType
  <2>2. CASE pc[c] = "marking" /\ pc' = [pc EXCEPT ![c] = "sending"] /\ UNCHANGED <<key, listed>>
    BY <1>1, <2>2 DEF TypeInv, Typed, TypeOK, Todo, WellPlaced, Callers
  <2>. QED
    BY <2>1, <2>2 DEF Write
<1>3. \A b \in Callers : \A j \in Todo(b)' : j \in Todo(b) /\ listed'[b][j] = listed[b][j]
  BY <1>2, WriteOthers
\* The entry c writes: it is new, or of a date that was not taken.
<1>4. ASSUME key[c] \notin Excused', patch[c] # None
      PROVE  /\ storage'[key[c]] = patch[c]
             /\ <<key[c], patch[c].enqueued_at>> \notin taken
             /\ pc[c] = "marking" => patch[c].status = "in_flight"
  <2>1. key[c] \notin clobbered' /\ key[c] \notin Excused
    BY <1>1, <1>4 DEF Excused
  <2>2. CASE pc[c] = "enqueueing"
    BY <1>1, <1>4, <2>1, <2>2, WrittenEntry DEF Once, TakenDated
  <2>3. CASE pc[c] # "enqueueing"
    <3>1. /\ c \in Drains /\ storage[key[c]] # None /\ key[c] \in Todo(c)
          /\ patch[c].enqueued_at = storage[key[c]].enqueued_at
      BY <1>4, <2>1, <2>3, WrittenEntry
    <3>2. UntakenAt(c, key[c]) /\ ~Removes(c, key[c])
      BY <1>4, <2>1, <3>1 DEF Once, Untaken, Removes
    <3>. QED
      BY <1>1, <1>4, <2>1, <3>1, <3>2, WrittenEntry DEF UntakenAt
  <2>. QED
    BY <2>2, <2>3
<1>5. \A j \in Keys \ Excused' : j # key[c] => storage'[j] = storage[j]
  BY WriteEffect DEF Excused
<1>6. key[c] \notin Excused' => storage'[key[c]] = patch[c]
  BY <1>1, WriteEffect DEF Excused
<1>7. TakenDated'
  <2>1. \A b \in Callers : pc'[b] = "enqueueing" => pc[b] = "enqueueing" /\ patch'[b] = patch[b]
    BY <1>2, WriteOthers
  <2>. QED
    BY <1>1, <2>1 DEF Once, TakenDated
<1>8. TakenWaits'
  BY <1>1, <1>4, <1>5, <1>6 DEF Once, TakenWaits, Is
<1>9. ASSUME NEW d \in Drains, NEW k \in Todo(d)', k \notin Excused' PROVE UntakenAt(d, k)'
  <2>1. k \in Keys /\ k \in Todo(d) /\ listed'[d][k] = listed[d][k] /\ d \in Callers /\ UntakenAt(d, k)
    BY <1>1, <1>3, <1>9 DEF Once, Untaken, Callers, Todo
  <2>2. Removes(d, k) => Removes(d, k)'
    <3>1. CASE d = c
      BY <1>2, <1>9, <2>1, <3>1 DEF Removes
    <3>2. CASE d # c
      BY <2>1, <3>2, WriteOthers DEF Removes
    <3>. QED
      BY <3>1, <3>2
  <2>3. CASE k # key[c]
    BY <1>1, <1>5, <1>9, <2>1, <2>2, <2>3 DEF UntakenAt
  <2>4. CASE k = key[c]
    <3>1. storage'[k] # None => <<k, storage'[k].enqueued_at>> \notin taken
      BY <1>4, <1>6, <1>9, <2>4
    <3>. QED
      BY <1>1, <2>1, <2>2, <3>1 DEF UntakenAt
  <2>. QED
    BY <2>3, <2>4
<1>10. ASSUME NEW d \in Drains, pc'[d] = "sending", key'[d] \notin Excused', Is(key[d], "pending")'
       PROVE  storage'[key'[d]].enqueued_at # listed'[d][key'[d]].enqueued_at
  <2>0. d \in Callers
    BY DEF Callers
  <2>1. CASE d = c
    <3>1. pc[c] = "marking" /\ key'[c] = key[c]
      BY <1>2, <1>10, <2>1
    <3>. QED
      BY <1>4, <1>6, <1>10, <2>1, <3>1 DEF Is
  <2>2. CASE d # c
    <3>1. pc[d] = "sending" /\ key'[d] = key[d] /\ listed'[d] = listed[d]
      BY <1>10, <2>0, <2>2, WriteOthers
    <3>2. key[d] \in Todo(d) /\ key[d] \in Keys /\ key[d] \notin Excused
      BY <1>1, <1>10, <2>0, <3>1 DEF TypeInv, Placed, WellPlaced
    <3>3. CASE key[d] # key[c]
      BY <1>5, <1>10, <3>1, <3>2, <3>3 DEF Once, SentMarked, Is
    <3>4. CASE key[d] = key[c] /\ pc[c] = "enqueueing"
      <4>1. storage'[key[d]] = patch[c] /\ Apart(listed[d][key[d]], patch[c].enqueued_at)
        BY <1>6, <1>10, <2>0, <3>1, <3>2, <3>4 DEF Dated, Unused
      <4>. QED
        BY <3>1, <3>2, <4>1 DEF Apart, Todo
    <3>5. CASE key[d] = key[c] /\ pc[c] # "enqueueing"
      <4>1. patch[c] # None
        BY <1>6, <1>10, <3>1, <3>5 DEF Is
      <4>2. c \in Drains /\ key[c] \in Todo(c)
        BY <1>10, <3>1, <3>5, <4>1, WrittenEntry DEF Excused
      <4>. QED
        BY <2>2, <3>2, <3>5, <4>2 DEF OneDrain, Excused
    <3>. QED
      BY <3>3, <3>4, <3>5
  <2>. QED
    BY <2>1, <2>2
<1>. QED
  BY <1>7, <1>8, <1>9, <1>10 DEF Once, Untaken, SentMarked

\* A rejection: what the server took and the storage keeps is excused.
LEMMA OnceFails ==
  ASSUME TakenInv, NEW c \in Callers, Fails(c)
  PROVE  Once'
<1>. USE DEF TakenInv, DatedInv
<1>1. /\ UNCHANGED <<storage, clock, clobbered, shared>> /\ kept \subseteq kept'
      /\ \/ taken' = taken
         \/ /\ c \in Drains /\ key[c] \in kept' /\ pc[c] = "sending"
            /\ taken' = taken \cup {<<key[c], listed[c][key[c]].enqueued_at>>}
      /\ Removes(c, key[c]) => key[c] \in kept' \/ pc'[c] = "idle"
  <2>1. CASE Rejects(c)
    BY <2>1, FailsLocals DEF Rejects, Removes
  <2>2. CASE c \in Drains /\ FailsInTry(c)
    BY <2>2, FailsLocals DEF FailsInTry, Takes, Removes
  <2>. QED
    BY <2>1, <2>2 DEF Fails
<1>2. Excused \subseteq Excused'
  BY <1>1 DEF Excused
<1>3. /\ \A b \in Callers \ {c} : pc'[b] = pc[b] /\ key'[b] = key[b] /\ patch'[b] = patch[b] /\ listed'[b] = listed[b]
      /\ \A b \in Callers : \A j \in Todo(b)' : j \in Todo(b) /\ listed'[b][j] = listed[b][j]
      /\ \/ pc'[c] = "catching" /\ key'[c] = key[c]
         \/ pc'[c] = "idle" /\ Todo(c)' = {}
  BY FailsLocals
<1>4. ASSUME NEW b \in Drains, NEW j \in Todo(b)', j \notin Excused'
      PROVE  j \in Todo(b) /\ listed'[b][j] = listed[b][j] /\ (Removes(b, j) => Removes(b, j)')
  <2>1. b \in Callers
    BY DEF Callers
  <2>2. CASE b = c
    <3>1. ~Removes(c, j)
      BY <1>1, <1>3, <1>4, <2>2 DEF Removes, Excused
    <3>. QED
      BY <1>3, <1>4, <2>1, <2>2, <3>1
  <2>3. CASE b # c
    BY <1>3, <1>4, <2>1, <2>3 DEF Removes
  <2>. QED
    BY <2>2, <2>3
<1>5. \A b \in Drains : pc'[b] = "sending" => pc[b] = "sending" /\ key'[b] = key[b] /\ listed'[b] = listed[b]
  BY <1>3 DEF Callers
<1>6. \A b \in Callers : pc'[b] = "enqueueing" => pc[b] = "enqueueing" /\ patch'[b] = patch[b]
  BY <1>3
<1>7. CASE taken' = taken
  BY <1>1, <1>2, <1>4, <1>5, <1>6, <1>7, OnceSame
<1>8. CASE /\ c \in Drains /\ key[c] \in kept' /\ pc[c] = "sending"
           /\ taken' = taken \cup {<<key[c], listed[c][key[c]].enqueued_at>>}
  <2>. DEFINE k == key[c]
              t == listed[c][k].enqueued_at
  <2>1. k \in Todo(c) /\ k \in Keys /\ k \in Excused'
    BY <1>8 DEF TypeInv, Placed, WellPlaced, Excused, Todo
  <2>2. t \in Nat /\ t <= clock
    <3>1. t \in Nat /\ clock \in Nat
      BY <2>1 DEF Todo, Entry, TypeInv, Typed, TypeOK
    <3>2. ~(clock < t)
      BY <2>1, <3>1 DEF Dated, Unused, Apart, Todo
    <3>. QED
      BY <3>1, <3>2
  <2>3. \A b \in Callers : pc[b] = "enqueueing" => patch[b].enqueued_at # t
    BY <2>1 DEF Dated, Unused, Apart, Todo
  <2>. HIDE DEF k, t
  <2>4. taken' = taken \cup {<<k, t>>}
    BY <1>8 DEF k, t
  <2>5. TakenDated'
    BY <1>1, <1>6, <2>2, <2>3, <2>4 DEF Once, TakenDated
  <2>6. TakenWaits'
    BY <1>1, <1>2, <2>1, <2>4 DEF Once, TakenWaits, Is
  <2>7. ASSUME NEW b \in Drains, NEW j \in Todo(b)', j \notin Excused' PROVE UntakenAt(b, j)'
    <3>1. UntakenAt(b, j) /\ j # k
      BY <1>2, <1>4, <2>1, <2>7 DEF Once, Untaken
    <3>. QED
      BY <1>1, <1>4, <2>4, <2>7, <3>1 DEF UntakenAt
  <2>8. SentMarked'
    BY <1>1, <1>2, <1>5 DEF Once, SentMarked, Is
  <2>. QED
    BY <2>5, <2>6, <2>7, <2>8 DEF Once, Untaken
<1>. QED
  BY <1>1, <1>7, <1>8

LEMMA OnceStep == TakenInv /\ [Next]_vars => Once'
<1>. SUFFICES ASSUME TakenInv, [Next]_vars PROVE Once'
  OBVIOUS
<1>1. CASE Clear
  <2>1. Once /\ storage' = Empty /\ UNCHANGED <<local, clock, taken, kept, clobbered, shared>>
    BY <1>1 DEF Clear, TakenInv
  <2>2. TakenDated'
    BY <2>1 DEF local, Once, TakenDated
  <2>4. TakenWaits'
    BY <2>1 DEF TakenWaits, Is, Empty
  <2>5. SentMarked'
    <3>1. \A k : ~Is(k, "pending")' \/ k \notin Keys
      BY <2>1 DEF Is, Empty
    <3>2. \A d \in Drains : pc'[d] = "sending" => key'[d] \in Keys
      BY <1>1, TypeClear DEF TakenInv, DatedInv, TypeInv, Placed, WellPlaced, Callers
    <3>. QED
      BY <3>1, <3>2 DEF SentMarked
  <2>3. Untaken'
    BY <2>1 DEF local, Once, Untaken, UntakenAt, Removes, Excused, Todo, Empty
  <2>. QED
    BY <2>2, <2>3, <2>4, <2>5 DEF Once
<1>2. CASE Kill
  <2>1. /\ UNCHANGED <<storage, clock, taken, kept, clobbered, shared>>
        /\ \A b \in Callers : pc'[b] = "idle" /\ Todo(b)' = {}
    BY <1>2 DEF Kill, Todo, Empty
  <2>. QED
    BY <2>1, OnceSame DEF Excused, Callers
<1>3. CASE UNCHANGED vars
  <2>1. UNCHANGED <<storage, clock, taken, kept, clobbered, shared, pc, key, patch, listed>>
    BY <1>3 DEF vars, local, history
  <2>. QED
    BY <2>1, OnceSame DEF Excused, Removes, Todo
<1>. QED
  BY <1>1, <1>2, <1>3, NextKinds, OnceEnqueue, OnceDrain, OnceMark, OnceSettles, OnceWrite, OnceFails

\* The server is not sent again what it took, but where a removal was rejected,
\* two drains listed the entry, or an older copy of the queue was written back.
THEOREM TakenAlwaysOnce == Spec => []TakenOnce
<1>1. Init => OneDrain /\ ListedBound /\ Once
  BY DEF Init, OneDrain, ListedBound, Once, TakenDated, TakenWaits, Untaken, SentMarked, Is, Empty, Todo, Callers
<1>2. ASSUME TakenInv PROVE TakenOnce
  <2>. SUFFICES ASSUME NEW d \in Drains, pc[d] = "sending", key[d] \notin Excused
                PROVE  <<key[d], listed[d][key[d]].enqueued_at>> \notin taken
    BY DEF TakenOnce, Excused
  <2>1. key[d] \in Todo(d)
    BY <1>2 DEF TakenInv, DatedInv, TypeInv, Placed, WellPlaced, Callers
  <2>2. UntakenAt(d, key[d])
    BY <1>2, <2>1 DEF TakenInv, Once, Untaken
  <2>. QED
    BY <2>2 DEF UntakenAt, Removes
<1>. QED
  BY <1>1, <1>2, TypeInit, TypeStep, DatedInit, DatedStep, BudgetStep, OnceStep, PTL
  DEF Spec, TakenInv, BudgetInv, DatedInv

=============================================================================
