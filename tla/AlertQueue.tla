----------------------------- MODULE AlertQueue -----------------------------
(***************************************************************************)
(* What the alerts service promises of its queue, with calls, file and     *)
(* process left out: an alert that was published is queued once, behind    *)
(* those of its bucket, for the tenant whose firing it is; it is assigned  *)
(* and acked until it is closed, and nothing else happens to it.           *)
(* AlertIntake implements this specification.                              *)
(***************************************************************************)
EXTENDS Sequences

CONSTANTS
  Alerts,    \* alert ids
  Users,     \* analysts
  Bucket,    \* the buckets
  BucketOf,  \* BucketOf[a]: the bucket of alert a
  OwnerOf,   \* OwnerOf[a]: the tenant of the firing behind alert a
  None       \* undefined

VARIABLES
  published, \* the alerts on the topic
  entries,   \* entries[a]: the state, tenant and assignee of alert a
  order      \* order[b]: the alerts of bucket b, oldest first

vars == <<published, entries, order>>

Init ==
  /\ published = {}
  /\ entries = [a \in Alerts |-> [state |-> "none", tenant |-> None, assignee |-> None]]
  /\ order = [b \in Bucket |-> <<>>]

Publish(a) ==
  /\ published' = published \cup {a}
  /\ UNCHANGED <<entries, order>>

Enqueue(a) ==
  /\ a \in published
  /\ entries[a].state = "none"
  /\ entries' = [entries EXCEPT ![a] = [state |-> "queued", tenant |-> OwnerOf[a], assignee |-> None]]
  /\ order' = [order EXCEPT ![BucketOf[a]] = Append(@, a)]
  /\ UNCHANGED published

\* The entry of alert a, which is there, becomes e.
Become(a, e) ==
  /\ entries[a].state # "none"
  /\ entries' = [entries EXCEPT ![a] = e]
  /\ UNCHANGED <<published, order>>

Assign(a, u) ==
  entries[a].state # "closed" /\ Become(a, [entries[a] EXCEPT !.state = "assigned", !.assignee = u])

Ack(a) ==
  entries[a].state # "closed" /\ Become(a, [entries[a] EXCEPT !.state = "acked"])

Close(a) == Become(a, [entries[a] EXCEPT !.state = "closed"])

Next ==
  \E a \in Alerts :
    \/ Publish(a) \/ Enqueue(a) \/ Ack(a) \/ Close(a)
    \/ \E u \in Users : Assign(a, u)

Spec == Init /\ [][Next]_vars

=============================================================================
