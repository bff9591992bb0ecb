---------------------------- MODULE OutboxProofs ----------------------------
(***************************************************************************)
(* What the outbox guarantees for any number of writers, schedulers and    *)
(* cancellations, keys, inboxes, versions and failures: the payload of a   *)
(* dispatched event is a job's, deliveries to an inbox leave in causal     *)
(* order, and a cancellation leaves no job of what it cancelled.           *)
(***************************************************************************)
EXTENDS Outbox, FiniteSetTheorems, TLAPS

(* A transaction that records k, and the ids k has or will have.             *)
Recording(p, k) == tx[p].pc = "recorded" /\ k \in tx[p].keys

Ids(k) == ({event[k].id} \cup {tx[p].id : p \in {q \in Procs : Recording(q, k)}}) \ {0}

(* A locked row names an open transaction that is past its SELECT.           *)
HolderInv ==
  \A k \in Keys : event[k].holder # NoOne =>
    k \in tx[event[k].holder].keys /\ tx[event[k].holder].pc \notin {"idle", "selected"}

(* What each statement of a transaction leaves for the next one.             *)
TxKey(p, k) ==
  /\ tx[p].pc = "recorded" =>
       /\ tx[p].keys = {k} /\ event[k].holder = p /\ event[k].id \in {0, tx[p].id}
       /\ tx[p].version = recorded[k] /\ recorded[k] > 0 /\ tx[p].id > 0
       /\ k \in Ordered => event[k].id = 0
  /\ tx[p].pc = "selected" => recorded[k] > 0
  /\ tx[p].pc = "locked" => event[k].holder = p /\ Pending(k)
  /\ tx[p].pc \in {"cancelling", "jobs deleted"} =>
       IF tx[p].id = 0 THEN tx[p].version = 0 ELSE event[k].holder = p
  /\ tx[p].pc = "jobs deleted" =>
       \A j \in JobIds : jobs[j].state = "queued" /\ jobs[j].key = k => jobs[j].version > tx[p].version

TxInv ==
  \A p \in Procs :
    /\ tx[p].pc = "idle" => tx[p].keys = {}
    /\ \A k \in tx[p].keys : TxKey(p, k)

(* Rows and jobs hold versions that were recorded, a delivery the only one.  *)
EventInv ==
  \A k \in Keys :
    /\ IF event[k].id = 0 THEN event[k].version = 0 /\ ~event[k].sent
       ELSE event[k].version \in 1 .. recorded[k]
    /\ k \in Ordered => recorded[k] <= 1

JobsInv ==
  \A j \in JobIds :
    /\ jobs[j].state = "free" <=> j >= nextJob
    /\ jobs[j].state = "free" => jobs[j].key = NoKey
    /\ jobs[j].state # "free" => jobs[j].key \in Keys /\ jobs[j].version \in 1 .. recorded[jobs[j].key]

(* Ids come from the sequence: each names one key.                           *)
IdInv ==
  \A k \in Keys :
    /\ Ids(k) \subseteq 1 .. nextEvent - 1
    /\ \A l \in Keys \ {k} : Ids(k) \cap Ids(l) = {}

(* The deliveries before k have lower ids, and are never recorded again.     *)
BeforeInv ==
  \A k \in Keys : \A i \in before[k] :
    /\ k \in Ordered /\ i \in Ordered \ {k} /\ InboxOf[i] = InboxOf[k]
    /\ recorded[i] > 0 /\ \A p \in Procs : ~Recording(p, i)
    /\ \A a \in Ids(i), b \in Ids(k) : a < b

(* What a scheduler is about to dispatch has no earlier delivery waiting.    *)
ChosenInv ==
  \A p \in Procs : \A k \in tx[p].keys \cap Ordered :
    tx[p].pc \in {"selected", "locked"} => \A i \in before[k] : ~Pending(i)

(* The sequence has counted the rows that were ever recorded.                *)
Rows == {r \in Keys \X (1 .. MaxVersions) : r[2] <= recorded[r[1]]}

CountInv == nextEvent <= Cardinality(Rows) + 1

OutboxInv ==
  /\ TypeOK /\ HolderInv /\ TxInv /\ EventInv /\ JobsInv /\ IdInv /\ BeforeInv /\ ChosenInv /\ CountInv
  /\ NothingLost /\ InboxOrder

-----------------------------------------------------------------------------
(* Ids and bounds are natural numbers, since there are finitely many keys.   *)
LEMMA Bounds ==
  /\ MaxVersions \in Nat /\ MaxVersions > 0 /\ MaxJobs \in Nat /\ MaxRollbacks \in Nat
  /\ IsFiniteSet(Keys) /\ Cardinality(Keys) * MaxVersions \in Nat /\ 0 \in EventIds
<1>1. MaxVersions \in Nat /\ MaxVersions > 0 /\ MaxJobs \in Nat /\ MaxRollbacks \in Nat /\ IsFiniteSet(Keys)
  BY OutboxAssumption DEF OutboxAssumption
<1>2. Cardinality(Keys) \in Nat
  BY <1>1, FS_CardinalityType
<1>3. Cardinality(Keys) * MaxVersions \in Nat
  BY <1>1, <1>2
<1> QED
  BY <1>1, <1>3 DEF EventIds

(* There are no more rows than keys and versions.                            *)
LEMMA RowsBound ==
  ASSUME NEW R \in SUBSET (Keys \X (1 .. MaxVersions))
  PROVE  IsFiniteSet(R) /\ Cardinality(R) \in Nat /\ Cardinality(R) <= Cardinality(Keys) * MaxVersions
<1>1. 1 \in Int /\ MaxVersions \in Int /\ MaxVersions \in Nat
  BY Bounds
<1>2. IsFiniteSet(1 .. MaxVersions) /\ Cardinality(1 .. MaxVersions) = MaxVersions
  <2>1. Cardinality(1 .. MaxVersions) = IF 1 > MaxVersions THEN 0 ELSE MaxVersions - 1 + 1
    BY <1>1, FS_Interval
  <2> QED
    BY <1>1, <2>1, FS_Interval
<1>3. /\ IsFiniteSet(Keys \X (1 .. MaxVersions))
      /\ Cardinality(Keys \X (1 .. MaxVersions)) = Cardinality(Keys) * MaxVersions
  BY <1>2, Bounds, FS_Product
<1> QED
  BY <1>3, FS_Subset, FS_CardinalityType

(* At first nothing is recorded, locked or queued.                           *)
LEMMA InitInv == Init => OutboxInv
<1> SUFFICES ASSUME Init PROVE OutboxInv
  OBVIOUS
<1> USE DEF Init
<1>1. TypeOK
  <2>1. NoTx \in Tx
    BY Bounds DEF NoTx, Tx
  <2>2. [id |-> 0, version |-> 0, sent |-> FALSE, holder |-> NoOne] \in Event
    BY Bounds DEF Event
  <2>3. [state |-> "free", key |-> NoKey, version |-> 0] \in Job
    BY Bounds DEF Job
  <2>4. nextJob \in 1 .. MaxJobs + 1 /\ rollbacks \in 0 .. MaxRollbacks
    BY Bounds
  <2>5. event \in [Keys -> Event] /\ jobs \in [JobIds -> Job] /\ tx \in [Procs -> Tx]
    BY <2>1, <2>2, <2>3
  <2>6. recorded \in [Keys -> 0 .. MaxVersions]
    BY Bounds
  <2>7. before \in [Keys -> SUBSET Ordered] /\ nextEvent \in Nat \ {0}
    OBVIOUS
  <2>8. \A k \in Keys : event[k].holder = NoOne
    OBVIOUS
  <2> QED
    BY <2>4, <2>5, <2>6, <2>7, <2>8 DEF TypeOK
<1>2. HolderInv /\ EventInv
  BY DEF HolderInv, EventInv
<1>3. TxInv /\ ChosenInv
  BY DEF TxInv, TxKey, ChosenInv, NoTx
<1>4. JobsInv
  BY DEF JobsInv, JobIds
<1>5. \A k \in Keys : Ids(k) = {}
  BY DEF Ids, Recording, NoTx
<1>6. IdInv /\ BeforeInv
  BY <1>5 DEF IdInv, BeforeInv
<1>7. CountInv
  <2>1. Rows \in SUBSET (Keys \X (1 .. MaxVersions))
    BY DEF Rows
  <2> QED
    BY <2>1, RowsBound DEF CountInv
<1>8. NothingLost
  BY DEF NothingLost
<1>9. InboxOrder
  <2>1. \A k \in Ordered : before[k] = {}
    BY DEF Keys
  <2> QED
    BY <2>1 DEF InboxOrder
<1> QED
  BY <1>1, <1>2, <1>3, <1>4, <1>6, <1>7, <1>8, <1>9 DEF OutboxInv

-----------------------------------------------------------------------------
(* The types of a row and of a transaction, for the steps.                   *)
LEMMA Types ==
  ASSUME OutboxInv
  PROVE  /\ \A k \in Keys : /\ event[k] \in Event /\ event[k].sent \in BOOLEAN
                            /\ event[k].id \in Nat /\ recorded[k] \in Nat /\ event[k].version \in Nat
         /\ \A p \in Procs : /\ tx[p] \in Tx /\ tx[p].keys \subseteq Keys /\ tx[p].id \in Nat
                             /\ tx[p].version \in Nat
         /\ \A k \in Keys : Ids(k) \subseteq Nat
         /\ \A j \in JobIds : jobs[j] \in Job /\ jobs[j].version \in Nat
         /\ nextJob \in Nat /\ nextEvent \in Nat
<1> USE Bounds DEF OutboxInv, TypeOK
<1>1. EventIds \subseteq Nat /\ 0 .. MaxVersions \subseteq Nat
  BY DEF EventIds
<1>2. \A k \in Keys : event[k] \in Event /\ recorded[k] \in Nat
  BY <1>1
<1>3. \A k \in Keys : event[k].id \in Nat /\ event[k].version \in Nat /\ event[k].sent \in BOOLEAN
  BY <1>1, <1>2 DEF Event
<1>4. \A p \in Procs : tx[p] \in Tx
  OBVIOUS
<1>5. \A p \in Procs : tx[p].keys \subseteq Keys /\ tx[p].id \in Nat /\ tx[p].version \in Nat
  BY <1>1, <1>4 DEF Tx
<1>6. \A k \in Keys : Ids(k) \subseteq Nat
  BY <1>3, <1>5 DEF Ids
<1>7. \A j \in JobIds : jobs[j] \in Job
  OBVIOUS
<1>8. \A j \in JobIds : jobs[j].version \in Nat
  BY <1>1, <1>7 DEF Job
<1> QED
  BY <1>2, <1>3, <1>4, <1>5, <1>6, <1>7, <1>8

(* Steps that take no id from the sequence: at most ids go.                  *)
LEMMA FewerIds ==
  ASSUME OutboxInv, UNCHANGED <<nextEvent, recorded, before>>,
         \A k \in Keys : event'[k].id \in Ids(k) \cup {0},
         \A p \in Procs : tx'[p].pc = "recorded" => tx'[p] = tx[p]
  PROVE  IdInv' /\ BeforeInv' /\ CountInv'
<1> USE DEF OutboxInv
<1>1. \A p \in Procs, k \in Keys : Recording(p, k)' => Recording(p, k) /\ tx'[p] = tx[p]
  BY DEF Recording
<1>2. \A k \in Keys : Ids(k)' \subseteq Ids(k)
  BY <1>1 DEF Ids
<1>3. IdInv'
  BY <1>2 DEF IdInv
<1>4. BeforeInv'
  <2>1. ASSUME NEW k \in Keys, NEW i \in before[k]
        PROVE  /\ k \in Ordered /\ i \in Ordered \ {k} /\ InboxOf[i] = InboxOf[k]
               /\ recorded[i] > 0 /\ \A p \in Procs : ~Recording(p, i)'
               /\ \A a \in Ids(i)', b \in Ids(k)' : a < b
    <3>1. i \in Keys
      BY DEF BeforeInv, Keys
    <3> QED
      BY <1>1, <1>2, <3>1 DEF BeforeInv
  <2> QED
    BY <2>1 DEF BeforeInv
<1>5. CountInv'
  BY DEF CountInv, Rows
<1> QED
  BY <1>3, <1>4, <1>5

(* Steps that dispatch nothing: rows are kept, withdrawn or replaced by what *)
(* was recorded, jobs keep their payload and do not come alive.              *)
LEMMA QuietStep ==
  ASSUME OutboxInv, UNCHANGED <<nextEvent, nextJob, recorded, before>>,
         \A k \in Keys : \/ /\ event'[k].id = event[k].id /\ event'[k].version = event[k].version
                            /\ event'[k].sent = event[k].sent
                         \/ event'[k].id = 0 /\ event'[k].version = 0 /\ ~event'[k].sent
                         \/ \E p \in Procs : /\ Recording(p, k) /\ event'[k].id = tx[p].id
                                             /\ event'[k].version = tx[p].version /\ ~event'[k].sent,
         \A p \in Procs : tx'[p].pc = "recorded" => tx'[p] = tx[p],
         \A j \in JobIds : /\ jobs'[j].key = jobs[j].key /\ jobs'[j].version = jobs[j].version
                           /\ jobs'[j].state = "free" <=> jobs[j].state = "free"
                           /\ Live(j)' => Live(j)
  PROVE  /\ EventInv' /\ JobsInv' /\ IdInv' /\ BeforeInv' /\ CountInv' /\ NothingLost' /\ InboxOrder'
         /\ \A k \in Ordered : \A i \in before[k] : Pending(i)' => Pending(i)
<1> USE DEF OutboxInv
<1>1. ASSUME NEW p \in Procs, NEW k \in Keys, Recording(p, k)
      PROVE  tx[p].id > 0 /\ tx[p].version \in 1 .. recorded[k] /\ tx[p].id \in Ids(k)
  <2>1. TxKey(p, k) /\ tx[p].pc = "recorded"
    BY <1>1 DEF TxInv, Recording
  <2>2. tx[p].id > 0 /\ tx[p].version \in 1 .. recorded[k]
    BY <2>1, Types DEF TxKey
  <2> QED
    BY <1>1, <2>2, Types DEF Ids
<1>2. EventInv' /\ JobsInv'
  <2>1. EventInv'
    BY <1>1, Types DEF EventInv
  <2> QED
    BY <2>1 DEF JobsInv
<1>3. IdInv' /\ BeforeInv' /\ CountInv'
  <2>1. \A k \in Keys : event[k].id \in Ids(k) \cup {0}
    BY DEF Ids
  <2>2. \A k \in Keys : event'[k].id \in Ids(k) \cup {0}
    BY <1>1, <2>1
  <2> QED
    BY <2>2, FewerIds
<1>4. NothingLost'
  BY DEF NothingLost
<1>5. ASSUME NEW k \in Ordered, NEW i \in before[k], Pending(i)' PROVE Pending(i)
  <2>1. k \in Keys /\ i \in Keys /\ \A p \in Procs : ~Recording(p, i)
    BY DEF BeforeInv, Keys
  <2> QED
    BY <1>5, <2>1 DEF Pending
<1>6. InboxOrder'
  <2>1. ASSUME NEW k \in Ordered, NEW i \in before[k], (LiveJob(k) \/ event[k].sent)' PROVE ~Pending(i)'
    <3>1. k \in Keys
      BY DEF Keys
    <3>2. LiveJob(k) \/ event[k].sent
      BY <2>1, <3>1 DEF LiveJob
    <3> QED
      BY <1>5, <3>2 DEF InboxOrder
  <2> QED
    BY <2>1 DEF InboxOrder
<1> QED
  BY <1>2, <1>3, <1>4, <1>5, <1>6

(* A lock changes hands through a step of its old or its new holder.         *)
LEMMA LocksKept ==
  ASSUME OutboxInv, NEW p \in Procs,
         \A q \in Procs : q # p => tx'[q] = tx[q],
         \A k \in Keys : event'[k].holder \in {event[k].holder, NoOne, p},
         \A k \in Keys : event'[k].holder = p => k \in tx'[p].keys /\ tx'[p].pc \notin {"idle", "selected"}
  PROVE  /\ HolderInv'
         /\ \A k \in Keys : event'[k].holder # NoOne => k \in tx'[event'[k].holder].keys
<1> USE DEF OutboxInv
<1>1. ASSUME NEW k \in Keys, event'[k].holder # NoOne
      PROVE  k \in tx'[event'[k].holder].keys /\ tx'[event'[k].holder].pc \notin {"idle", "selected"}
  <2>1. CASE event'[k].holder = p
    BY <2>1
  <2>2. CASE event'[k].holder # p
    <3>1. event'[k].holder = event[k].holder /\ event[k].holder \in Procs
      BY <1>1, <2>2, Types DEF Event
    <3> QED
      BY <1>1, <2>2, <3>1 DEF HolderInv
  <2> QED
    BY <2>1, <2>2
<1> QED
  BY <1>1 DEF HolderInv

(* A scheduler between its SELECT and its dispatch is not surprised.         *)
LEMMA ChosenKept ==
  ASSUME OutboxInv, UNCHANGED before,
         \A p \in Procs : tx'[p].pc \in {"selected", "locked"} =>
           tx'[p].keys \subseteq tx[p].keys /\ tx[p].pc \in {"selected", "locked"},
         \A k \in Ordered : \A i \in before[k] : Pending(i)' => Pending(i)
  PROVE  ChosenInv'
  BY DEF OutboxInv, ChosenInv

(* A transaction that is not at its turn keeps what it relies on, as long as *)
(* the others respect its locks.                                             *)
LEMMA OtherTx ==
  ASSUME OutboxInv, NEW p \in Procs, NEW k \in tx[p].keys, tx'[p] = tx[p],
         event[k].holder = p => event'[k] = event[k] /\ recorded'[k] = recorded[k],
         recorded'[k] = recorded[k] \/ recorded'[k] > 0,
         \A j \in JobIds : jobs'[j].state = "queued" /\ jobs'[j].key = k
                           => jobs'[j] = jobs[j] \/ (event[k].holder # p /\ jobs'[j].version > 0)
  PROVE  TxKey(p, k)'
<1>1. TxKey(p, k)
  BY DEF OutboxInv, TxInv
<1>2. CASE tx[p].pc \in {"recorded", "selected", "locked"}
  BY <1>1, <1>2 DEF TxKey, Pending
<1>3. CASE tx[p].pc \in {"cancelling", "jobs deleted"}
  BY <1>1, <1>3 DEF TxKey
<1>4. CASE tx[p].pc = "idle"
  BY <1>4 DEF OutboxInv, TxInv
<1> QED
  BY <1>2, <1>3, <1>4 DEF OutboxInv, TypeOK, Tx

(* What a scheduler finds is recorded, and what a delivery waits for has     *)
(* left the outbox.                                                          *)
LEMMA SelectStep ==
  ASSUME OutboxInv, NEW d \in Dispatchers, Select(d)
  PROVE  OutboxInv'
<1> USE DEF OutboxInv
<1>1. d \in Procs /\ tx[d] \in Tx
  BY Types DEF Procs
<1>2. PICK found \in SUBSET Heads : tx' = [tx EXCEPT ![d].pc = "selected", ![d].keys = found]
  BY DEF Select
<1>3. found \subseteq Keys /\ \A k \in found : Pending(k)
  BY DEF Heads
<1>4. /\ tx[d].pc = "idle" /\ tx'[d].pc = "selected" /\ tx'[d].keys = found
      /\ \A p \in Procs : p # d => tx'[p] = tx[p]
      /\ UNCHANGED <<event, jobs, nextEvent, nextJob, recorded, before, rollbacks>>
  BY <1>1, <1>2 DEF Select, TypeOK, Tx
<1>5. /\ EventInv' /\ JobsInv' /\ IdInv' /\ BeforeInv' /\ CountInv' /\ NothingLost' /\ InboxOrder'
      /\ \A k \in Ordered : \A i \in before[k] : Pending(i)' => Pending(i)
  BY <1>4, QuietStep DEF Live
<1>6. \A k \in Keys : event[k].holder # d
  BY <1>1, <1>4, OutboxAssumption DEF OutboxAssumption, HolderInv
<1>7. TypeOK' /\ HolderInv'
  <2>1. tx' \in [Procs -> Tx]
    BY <1>1, <1>2, <1>3 DEF TypeOK, Tx
  <2>2. /\ HolderInv'
        /\ \A k \in Keys : event'[k].holder # NoOne => k \in tx'[event'[k].holder].keys
    BY <1>1, <1>4, <1>6, LocksKept
  <2> QED
    BY <1>4, <2>1, <2>2 DEF TypeOK
<1>8. TxInv'
  <2>1. ASSUME NEW k \in found PROVE TxKey(d, k)'
    <3>1. recorded[k] > 0
      BY <1>3, Types DEF EventInv, Pending
    <3> QED
      BY <1>4, <3>1 DEF TxKey
  <2>2. ASSUME NEW p \in Procs, p # d, NEW k \in tx[p].keys PROVE TxKey(p, k)'
    BY <1>4, <2>2, OtherTx
  <2> QED
    BY <1>4, <2>1, <2>2 DEF TxInv
<1>9. ChosenInv'
  <2>1. ASSUME NEW k \in found \cap Ordered, NEW i \in before[k] PROVE ~Pending(i)
    <3>1. /\ k \in Keys /\ i \in Ordered \ {k} /\ i \in Keys /\ InboxOf[i] = InboxOf[k]
          /\ \A a \in Ids(i), b \in Ids(k) : a < b
      BY <1>3 DEF BeforeInv, Keys
    <3>2. Pending(i) => event[k].id < event[i].id
      BY <3>1 DEF Heads
    <3>3. Pending(i) => event[i].id \in Ids(i) /\ event[k].id \in Ids(k)
      BY <1>3 DEF Pending, Ids
    <3> QED
      BY <3>1, <3>2, <3>3, Types
  <2> QED
    BY <1>4, <2>1, Types DEF ChosenInv, Pending
<1> QED
  BY <1>5, <1>7, <1>8, <1>9

(* Of what was found, the rows are locked that are free and still pending.   *)
LEMMA LockStep ==
  ASSUME OutboxInv, NEW d \in Dispatchers, Lock(d)
  PROVE  OutboxInv'
<1> USE DEF OutboxInv
<1>1. d \in Procs /\ tx[d] \in Tx
  BY Types DEF Procs
<1>2. PICK found \in SUBSET tx[d].keys :
        /\ found = {k \in tx[d].keys : Free(k) /\ Pending(k)}
        /\ event' = [k \in Keys |-> IF k \in found THEN [event[k] EXCEPT !.holder = d] ELSE event[k]]
        /\ tx' = [tx EXCEPT ![d] = IF found = {} THEN NoTx ELSE [@ EXCEPT !.pc = "locked", !.keys = found]]
  BY DEF Lock
<1>3. /\ tx[d].pc = "selected" /\ found \subseteq Keys
      /\ UNCHANGED <<jobs, nextEvent, nextJob, recorded, before, rollbacks>>
      /\ \A p \in Procs : p # d => tx'[p] = tx[p]
  BY <1>1, <1>2, Types DEF Lock, TypeOK
<1>4. IF found = {} THEN tx'[d] = NoTx
      ELSE tx'[d].pc = "locked" /\ tx'[d].keys = found
  BY <1>1, <1>2 DEF TypeOK, Tx
<1>5. \A k \in Keys : /\ event'[k].id = event[k].id /\ event'[k].version = event[k].version
                      /\ event'[k].sent = event[k].sent
                      /\ IF k \in found THEN event[k].holder = NoOne /\ event'[k].holder = d
                                         ELSE event'[k] = event[k]
  BY <1>2, Types DEF Event, Free
<1>6. /\ EventInv' /\ JobsInv' /\ IdInv' /\ BeforeInv' /\ CountInv' /\ NothingLost' /\ InboxOrder'
      /\ \A k \in Ordered : \A i \in before[k] : Pending(i)' => Pending(i)
  <2>1. \A p \in Procs : tx'[p].pc = "recorded" => tx'[p] = tx[p]
    BY <1>3, <1>4 DEF NoTx
  <2> QED
    BY <1>3, <1>5, <2>1, QuietStep DEF Live
<1>7. \A k \in Keys : event[k].holder # d
  BY <1>1, <1>3, OutboxAssumption DEF OutboxAssumption, HolderInv
<1>8. /\ HolderInv'
      /\ \A k \in Keys : event'[k].holder # NoOne => k \in tx'[event'[k].holder].keys
  <2>1. ASSUME NEW k \in Keys, event'[k].holder = d
        PROVE  k \in tx'[d].keys /\ tx'[d].pc \notin {"idle", "selected"}
    BY <1>4, <1>5, <1>7, <2>1
  <2>2. \A k \in Keys : event'[k].holder \in {event[k].holder, NoOne, d}
    BY <1>5
  <2> QED
    BY <1>1, <1>3, <2>1, <2>2, LocksKept
<1>9. TypeOK'
  <2>1. tx' \in [Procs -> Tx]
    <3>1. NoTx \in Tx
      BY Bounds DEF NoTx, Tx
    <3>2. [tx[d] EXCEPT !.pc = "locked", !.keys = found] \in Tx
      BY <1>1, <1>3 DEF Tx
    <3> QED
      BY <1>2, <3>1, <3>2 DEF TypeOK
  <2>2. event' \in [Keys -> Event]
    <3>1. \A k \in Keys : [event[k] EXCEPT !.holder = d] \in Event
      BY <1>1, Types DEF Event
    <3> QED
      BY <1>2, <3>1, Types
  <2> QED
    BY <1>3, <1>8, <2>1, <2>2 DEF TypeOK
<1>10. TxInv'
  <2>1. ASSUME NEW k \in tx'[d].keys PROVE TxKey(d, k)'
    <3>1. k \in found /\ k \in Keys /\ Pending(k) /\ tx'[d].pc = "locked"
      BY <1>2, <1>3, <1>4, <2>1 DEF NoTx
    <3>2. Pending(k)' /\ event'[k].holder = d
      BY <1>5, <3>1 DEF Pending
    <3> QED
      BY <3>1, <3>2 DEF TxKey
  <2>2. ASSUME NEW p \in Procs, p # d, NEW k \in tx[p].keys PROVE TxKey(p, k)'
    <3>1. k \in Keys /\ (event[k].holder = p => event'[k] = event[k])
      BY <1>5, <2>2, Types, OutboxAssumption DEF OutboxAssumption
    <3> QED
      BY <1>3, <2>2, <3>1, OtherTx
  <2> QED
    BY <1>3, <1>4, <2>1, <2>2 DEF TxInv, NoTx
<1>11. ChosenInv'
  <2>1. ASSUME NEW p \in Procs, tx'[p].pc \in {"selected", "locked"}
        PROVE  tx'[p].keys \subseteq tx[p].keys /\ tx[p].pc \in {"selected", "locked"}
    BY <1>3, <1>4, <2>1 DEF NoTx
  <2> QED
    BY <1>3, <1>6, <2>1, ChosenKept
<1> QED
  BY <1>6, <1>8, <1>9, <1>10, <1>11


(* A cancellation takes the row it read, or read that there is none.         *)
LEMMA CancelLockStep ==
  ASSUME OutboxInv, NEW c \in Cancellers, NEW k \in Cancellable, CancelLock(c, k)
  PROVE  OutboxInv'
<1> USE DEF OutboxInv
<1>1. c \in Procs /\ c # NoOne /\ k \in Keys /\ event[k] \in Event
  BY OutboxAssumption, Types DEF OutboxAssumption, Procs
<1>2. /\ tx[c].pc = "idle" /\ tx'[c].pc = "cancelling" /\ tx'[c].keys = {k}
      /\ tx'[c].id = event[k].id /\ tx'[c].version = event[k].version
      /\ \A p \in Procs : p # c => tx'[p] = tx[p]
      /\ UNCHANGED <<jobs, nextEvent, nextJob, recorded, before, rollbacks>>
  BY <1>1 DEF CancelLock, TypeOK
<1>3. /\ event'[k].id = event[k].id /\ event'[k].version = event[k].version /\ event'[k].sent = event[k].sent
      /\ IF event[k].id = 0 THEN event'[k] = event[k] ELSE event[k].holder = NoOne /\ event'[k].holder = c
      /\ \A l \in Keys : l # k => event'[l] = event[l]
  BY <1>1 DEF CancelLock, Free, TypeOK, Event
<1>4. /\ EventInv' /\ JobsInv' /\ IdInv' /\ BeforeInv' /\ CountInv' /\ NothingLost' /\ InboxOrder'
      /\ \A l \in Ordered : \A i \in before[l] : Pending(i)' => Pending(i)
  <2>1. \A p \in Procs : tx'[p].pc = "recorded" => tx'[p] = tx[p]
    BY <1>2
  <2>2. \A l \in Keys : event'[l].id = event[l].id /\ event'[l].version = event[l].version /\ event'[l].sent = event[l].sent
    BY <1>3
  <2> QED
    BY <1>2, <2>1, <2>2, QuietStep DEF Live
<1>5. \A l \in Keys : event[l].holder # c
  BY <1>1, <1>2 DEF HolderInv
<1>6. /\ HolderInv'
      /\ \A l \in Keys : event'[l].holder # NoOne => l \in tx'[event'[l].holder].keys
  <2>1. \A l \in Keys : event'[l].holder = event[l].holder \/ (l = k /\ event'[l].holder = c)
    BY <1>3
  <2> QED
    BY <1>1, <1>2, <1>5, <2>1, LocksKept
<1>7. TypeOK'
  <2>1. [pc |-> "cancelling", keys |-> {k}, id |-> event[k].id, version |-> event[k].version] \in Tx
    BY <1>1 DEF Tx, Event
  <2>2. tx' \in [Procs -> Tx]
    BY <1>1, <2>1 DEF CancelLock, TypeOK
  <2>3. [event[k] EXCEPT !.holder = c] \in Event
    BY <1>1 DEF Event
  <2>4. event' \in [Keys -> Event]
    BY <2>3 DEF CancelLock, TypeOK
  <2> QED
    BY <1>2, <1>6, <2>2, <2>4 DEF TypeOK
<1>8. TxInv'
  <2>1. TxKey(c, k)'
    <3>1. event[k].id = 0 => event[k].version = 0
      BY <1>1 DEF EventInv
    <3> QED
      BY <1>2, <1>3, <3>1 DEF TxKey
  <2>2. ASSUME NEW p \in Procs, p # c, NEW l \in tx[p].keys PROVE TxKey(p, l)'
    <3>1. l \in Keys /\ (event[l].holder = p => event'[l] = event[l])
      BY <1>3, <2>2, Types, OutboxAssumption DEF OutboxAssumption
    <3> QED
      BY <1>2, <2>2, <3>1, OtherTx
  <2> QED
    BY <1>2, <2>1, <2>2 DEF TxInv
<1>9. ChosenInv'
  BY <1>2, <1>4, ChosenKept
<1> QED
  BY <1>4, <1>6, <1>7, <1>8, <1>9

(* What is still to be claimed of the key is withdrawn.                      *)
LEMMA CancelJobsStep ==
  ASSUME OutboxInv, NEW c \in Cancellers, CancelJobs(c)
  PROVE  OutboxInv'
<1> USE DEF OutboxInv
<1>1. c \in Procs /\ tx[c] \in Tx
  BY Types DEF Procs
<1>2. /\ tx[c].pc = "cancelling" /\ tx'[c].pc = "jobs deleted" /\ tx'[c].keys = tx[c].keys
      /\ tx'[c].id = tx[c].id /\ tx'[c].version = tx[c].version
      /\ \A p \in Procs : p # c => tx'[p] = tx[p]
      /\ UNCHANGED <<event, nextEvent, nextJob, recorded, before, rollbacks>>
  BY <1>1 DEF CancelJobs, TypeOK, Tx
<1>3. \A j \in JobIds :
        /\ jobs'[j].key = jobs[j].key /\ jobs'[j].version = jobs[j].version
        /\ IF jobs[j].key \in tx[c].keys /\ jobs[j].state \in {"queued", "retrying"}
           THEN jobs'[j].state = "cancelled" ELSE jobs'[j] = jobs[j]
  <2>1. ASSUME NEW j \in JobIds
        PROVE  jobs'[j] = IF jobs[j].key \in tx[c].keys /\ jobs[j].state \in {"queued", "retrying"}
                          THEN [jobs[j] EXCEPT !.state = "cancelled"] ELSE jobs[j]
    BY DEF CancelJobs
  <2> QED
    BY <2>1, Types DEF Job
<1>4. /\ EventInv' /\ JobsInv' /\ IdInv' /\ BeforeInv' /\ CountInv' /\ NothingLost' /\ InboxOrder'
      /\ \A l \in Ordered : \A i \in before[l] : Pending(i)' => Pending(i)
  <2>1. \A p \in Procs : tx'[p].pc = "recorded" => tx'[p] = tx[p]
    BY <1>2
  <2>2. \A j \in JobIds : /\ jobs'[j].state = "free" <=> jobs[j].state = "free"
                          /\ Live(j)' => Live(j)
    BY <1>3 DEF Live
  <2> QED
    BY <1>2, <1>3, <2>1, <2>2, QuietStep
<1>5. /\ HolderInv'
      /\ \A l \in Keys : event'[l].holder # NoOne => l \in tx'[event'[l].holder].keys
  <2>1. \A l \in Keys : event'[l].holder = c => l \in tx'[c].keys /\ tx'[c].pc \notin {"idle", "selected"}
    BY <1>1, <1>2, OutboxAssumption DEF OutboxAssumption, HolderInv
  <2> QED
    BY <1>1, <1>2, <2>1, LocksKept
<1>6. TypeOK'
  <2>1. [tx[c] EXCEPT !.pc = "jobs deleted"] \in Tx
    BY <1>1 DEF Tx
  <2>2. tx' \in [Procs -> Tx]
    BY <1>1, <2>1 DEF CancelJobs, TypeOK
  <2>3. \A j \in JobIds : [jobs[j] EXCEPT !.state = "cancelled"] \in Job
    BY Types DEF Job
  <2>4. jobs' \in [JobIds -> Job]
    BY <2>3, Types DEF CancelJobs
  <2> QED
    BY <1>2, <1>5, <2>2, <2>4 DEF TypeOK
<1>7. TxInv'
  <2>1. ASSUME NEW k \in tx[c].keys PROVE TxKey(c, k)'
    <3>1. IF tx[c].id = 0 THEN tx[c].version = 0 ELSE event[k].holder = c
      BY <1>1, <1>2 DEF TxInv, TxKey
    <3>2. ASSUME NEW j \in JobIds, jobs'[j].key = k PROVE jobs'[j].state # "queued"
      BY <1>3, <3>2
    <3> QED
      BY <1>2, <3>1, <3>2 DEF TxKey
  <2>2. ASSUME NEW p \in Procs, p # c, NEW l \in tx[p].keys PROVE TxKey(p, l)'
    <3>1. \A j \in JobIds : jobs'[j].state = "queued" => jobs'[j] = jobs[j]
      BY <1>3
    <3> QED
      BY <1>2, <2>2, <3>1, OtherTx
  <2> QED
    BY <1>2, <2>1, <2>2 DEF TxInv
<1>8. ChosenInv'
  BY <1>2, <1>4, ChosenKept
<1> QED
  BY <1>4, <1>5, <1>6, <1>7, <1>8

(* The end of a transaction that leaves its rows as they were or withdraws   *)
(* them.                                                                     *)
LEMMA EndStep ==
  ASSUME OutboxInv, NEW c \in Procs, tx' = [tx EXCEPT ![c] = NoTx], event' \in [Keys -> Event],
         \A k \in Keys : \/ /\ event'[k].id = event[k].id /\ event'[k].version = event[k].version
                            /\ event'[k].sent = event[k].sent
                            /\ IF event[k].holder = c THEN event'[k].holder = NoOne ELSE event'[k] = event[k]
                         \/ /\ event'[k].id = 0 /\ event'[k].version = 0 /\ ~event'[k].sent
                            /\ event[k].holder \in {c, NoOne} /\ event'[k].holder = NoOne,
         UNCHANGED <<jobs, nextEvent, nextJob, recorded, before>>, rollbacks' \in 0 .. MaxRollbacks
  PROVE  OutboxInv'
<1> USE DEF OutboxInv
<1>1. /\ tx'[c].pc = "idle" /\ tx'[c].keys = {} /\ c # NoOne
      /\ \A p \in Procs : p # c => tx'[p] = tx[p]
  BY OutboxAssumption DEF OutboxAssumption, TypeOK, NoTx
<1>2. /\ EventInv' /\ JobsInv' /\ IdInv' /\ BeforeInv' /\ CountInv' /\ NothingLost' /\ InboxOrder'
      /\ \A l \in Ordered : \A i \in before[l] : Pending(i)' => Pending(i)
  <2>1. \A p \in Procs : tx'[p].pc = "recorded" => tx'[p] = tx[p]
    BY <1>1
  <2>2. \A k \in Keys : \/ /\ event'[k].id = event[k].id /\ event'[k].version = event[k].version
                           /\ event'[k].sent = event[k].sent
                        \/ event'[k].id = 0 /\ event'[k].version = 0 /\ ~event'[k].sent
    OBVIOUS
  <2> QED
    BY <2>1, <2>2, QuietStep DEF Live
<1>3. /\ HolderInv'
      /\ \A l \in Keys : event'[l].holder # NoOne => l \in tx'[event'[l].holder].keys
  <2>1. \A l \in Keys : event'[l].holder \in {event[l].holder, NoOne} /\ event'[l].holder # c
    BY <1>1
  <2> QED
    BY <1>1, <2>1, LocksKept
<1>4. TypeOK'
  <2>1. NoTx \in Tx
    BY Bounds DEF NoTx, Tx
  <2> QED
    BY <1>3, <2>1 DEF TypeOK
<1>5. TxInv'
  <2>1. ASSUME NEW p \in Procs, p # c, NEW l \in tx[p].keys PROVE TxKey(p, l)'
    <3>1. l \in Keys /\ (event[l].holder = p => event'[l] = event[l])
      BY <2>1, Types, OutboxAssumption DEF OutboxAssumption
    <3> QED
      BY <1>1, <2>1, <3>1, OtherTx
  <2> QED
    BY <1>1, <2>1 DEF TxInv
<1>6. ChosenInv'
  BY <1>1, <1>2, ChosenKept
<1> QED
  BY <1>2, <1>3, <1>4, <1>5, <1>6

(* Giving up the locks of p.                                                 *)
LEMMA UnlockedFacts ==
  ASSUME OutboxInv, NEW p \in Procs, NEW k \in Keys
  PROVE  /\ Unlocked(p)[k] \in Event
         /\ Unlocked(p)[k].id = event[k].id /\ Unlocked(p)[k].version = event[k].version
         /\ Unlocked(p)[k].sent = event[k].sent
         /\ IF event[k].holder = p THEN Unlocked(p)[k].holder = NoOne ELSE Unlocked(p)[k] = event[k]
  BY Types DEF Unlocked, Event

(* A transaction that fails leaves nothing behind.                           *)
LEMMA RollbackStep ==
  ASSUME OutboxInv, NEW p \in Procs, Rollback(p)
  PROVE  OutboxInv'
<1>1. rollbacks' \in 0 .. MaxRollbacks
  BY Bounds DEF Rollback, OutboxInv, TypeOK
<1>2. event' \in [Keys -> Event]
  BY UnlockedFacts DEF Rollback, Unlocked
<1> QED
  BY <1>1, <1>2, UnlockedFacts, EndStep, ZenonT(60) DEF Rollback

(* The commit of a cancellation withdraws what it holds or nobody does.      *)
LEMMA CancelCommitStep ==
  ASSUME OutboxInv, NEW c \in Cancellers, CancelCommit(c)
  PROVE  OutboxInv'
<1>1. c \in Procs
  BY DEF Procs
<1>2. [id |-> 0, version |-> 0, sent |-> FALSE, holder |-> NoOne] \in Event
  BY Bounds DEF Event
<1>3. event' \in [Keys -> Event]
  BY <1>1, <1>2, UnlockedFacts DEF CancelCommit
<1>4. ASSUME NEW k \in Keys
      PROVE  \/ /\ event'[k].id = event[k].id /\ event'[k].version = event[k].version
                /\ event'[k].sent = event[k].sent
                /\ IF event[k].holder = c THEN event'[k].holder = NoOne ELSE event'[k] = event[k]
             \/ /\ event'[k].id = 0 /\ event'[k].version = 0 /\ ~event'[k].sent
                /\ event[k].holder \in {c, NoOne} /\ event'[k].holder = NoOne
  <2>1. CASE k \in tx[c].keys /\ Pending(k)
    BY <2>1 DEF CancelCommit
  <2>2. CASE ~(k \in tx[c].keys /\ Pending(k))
    <3>1. event'[k] = Unlocked(c)[k]
      BY <2>2 DEF CancelCommit
    <3> QED
      BY <1>1, <3>1, UnlockedFacts
  <2> QED
    BY <2>1, <2>2
<1>5. rollbacks' \in 0 .. MaxRollbacks
  BY DEF CancelCommit, OutboxInv, TypeOK
<1> QED
  BY <1>1, <1>3, <1>4, <1>5, EndStep DEF CancelCommit

(* The worker slots move jobs along.                                         *)
LEMMA MoveStep ==
  ASSUME OutboxInv, NEW j \in JobIds, Claim(j) \/ Finish(j) \/ RetryOrExpire(j)
  PROVE  OutboxInv'
<1> USE DEF OutboxInv
<1>1. PICK to \in {"running", "finished", "retrying"} :
        Live(j) /\ jobs' = [jobs EXCEPT ![j].state = to]
  BY DEF Claim, Finish, RetryOrExpire, Move, Live
<1>2. UNCHANGED <<event, tx, nextEvent, nextJob, recorded, before, rollbacks>>
  BY DEF Claim, Finish, RetryOrExpire, Move
<1>3. /\ jobs'[j].key = jobs[j].key /\ jobs'[j].version = jobs[j].version /\ jobs'[j].state = to
      /\ \A i \in JobIds : i # j => jobs'[i] = jobs[i]
  BY <1>1, Types DEF TypeOK, Job
<1>4. /\ EventInv' /\ JobsInv' /\ IdInv' /\ BeforeInv' /\ CountInv' /\ NothingLost' /\ InboxOrder'
      /\ \A l \in Ordered : \A i \in before[l] : Pending(i)' => Pending(i)
  <2>1. ASSUME NEW i \in JobIds
        PROVE  /\ jobs'[i].key = jobs[i].key /\ jobs'[i].version = jobs[i].version
               /\ jobs'[i].state = "free" <=> jobs[i].state = "free"
               /\ Live(i)' => Live(i)
    BY <1>1, <1>3 DEF Live
  <2> QED
    BY <1>2, <2>1, QuietStep
<1>5. TypeOK'
  <2>1. [jobs[j] EXCEPT !.state = to] \in Job
    BY Types DEF Job
  <2> QED
    BY <1>1, <1>2, <2>1 DEF TypeOK
<1>6. TxInv'
  <2>1. \A i \in JobIds : jobs'[i].state = "queued" => jobs'[i] = jobs[i]
    BY <1>3
  <2>2. ASSUME NEW p \in Procs, NEW l \in tx[p].keys PROVE TxKey(p, l)'
    BY <1>2, <2>1, OtherTx
  <2> QED
    BY <1>2, <2>2 DEF TxInv
<1>7. HolderInv' /\ ChosenInv'
  BY <1>2 DEF HolderInv, ChosenInv, Pending
<1> QED
  BY <1>4, <1>5, <1>6, <1>7

(* A recorded row takes the next id, or keeps the one it has.                *)
LEMMA RecordStep ==
  ASSUME OutboxInv, NEW w \in Writers, NEW k \in Keys, Record(w, k)
  PROVE  OutboxInv'
<1> USE DEF OutboxInv
<1>1. /\ w \in Procs /\ w # NoOne /\ event[k] \in Event /\ recorded[k] \in Nat
      /\ nextEvent \in Nat /\ MaxVersions \in Nat /\ MaxVersions > 0
  BY OutboxAssumption, Types, Bounds DEF OutboxAssumption, Procs
<1>2. /\ tx[w].pc = "idle" /\ event[k].holder = NoOne
      /\ k \in Ordered => event[k].id = 0 /\ recorded[k] = 0
      /\ recorded[k] < MaxVersions
      /\ UNCHANGED <<jobs, nextJob, rollbacks>>
  BY <1>1 DEF Record, Free
<1>3. PICK n \in Nat : /\ n = (IF event[k].id = 0 THEN nextEvent ELSE event[k].id)
                       /\ n > 0
                       /\ tx' = [tx EXCEPT ![w] = [pc |-> "recorded", keys |-> {k},
                                                   version |-> recorded[k] + 1, id |-> n]]
  <2> DEFINE id == IF event[k].id = 0 THEN nextEvent ELSE event[k].id
  <2>1. event[k].id \in Nat /\ nextEvent > 0
    <3>1. nextEvent > 0
      BY <1>1 DEF TypeOK
    <3> QED
      BY <3>1, Types
  <2>2. id \in Nat /\ id > 0
    BY <1>1, <2>1
  <2>3. tx' = [tx EXCEPT ![w] = [pc |-> "recorded", keys |-> {k}, version |-> recorded[k] + 1, id |-> id]]
    BY DEF Record
  <2> QED
    BY <2>2, <2>3
<1>4. /\ tx'[w].pc = "recorded" /\ tx'[w].keys = {k} /\ tx'[w].version = recorded[k] + 1 /\ tx'[w].id = n
      /\ \A p \in Procs : p # w => tx'[p] = tx[p]
  BY <1>1, <1>3 DEF TypeOK
<1>5. /\ event'[k].id = event[k].id /\ event'[k].version = event[k].version /\ event'[k].sent = event[k].sent
      /\ event'[k].holder = w
      /\ \A l \in Keys : l # k => event'[l] = event[l]
  BY <1>1 DEF Record, TypeOK, Event
<1>6. /\ recorded'[k] = recorded[k] + 1 /\ recorded'[k] > 0
      /\ \A l \in Keys : l # k => recorded'[l] = recorded[l]
      /\ before'[k] = IF k \in Ordered
                      THEN {i \in Ordered \ {k} : InboxOf[i] = InboxOf[k] /\ event[i].id # 0} ELSE {}
      /\ \A l \in Keys : l # k => before'[l] = before[l]
  BY <1>1 DEF Record, TypeOK
<1>7. nextEvent' = IF event[k].id = 0 THEN nextEvent + 1 ELSE nextEvent
  BY DEF Record
<1>8. \A l \in Keys : l \in Ordered => recorded[l] <= 1 /\ recorded[l] \in Nat
  BY Types DEF EventInv
<1>9. EventInv'
  BY <1>1, <1>2, <1>5, <1>6, Types DEF EventInv
<1>10. JobsInv'
  <2>1. ASSUME NEW j \in JobIds, jobs[j].state # "free" PROVE jobs[j].version \in 1 .. recorded'[jobs[j].key]
    BY <1>1, <1>6, <2>1, Types DEF JobsInv
  <2> QED
    BY <1>2, <2>1 DEF JobsInv
<1>11. CountInv' /\ (event[k].id = 0 => nextEvent <= Cardinality(Keys) * MaxVersions)
  <2>1. Rows \in SUBSET (Keys \X (1 .. MaxVersions)) /\ Rows' \in SUBSET (Keys \X (1 .. MaxVersions))
    BY DEF Rows
  <2>2. Rows' = Rows \cup {<<k, recorded[k] + 1>>} /\ <<k, recorded[k] + 1>> \notin Rows
    <3>1. recorded[k] + 1 \in 1 .. MaxVersions
      BY <1>1, <1>2
    <3>2. ASSUME NEW l \in Keys, NEW v \in 1 .. MaxVersions
          PROVE  v <= recorded'[l] <=> v <= recorded[l] \/ (l = k /\ v = recorded[k] + 1)
      BY <1>1, <1>6, Types
    <3> QED
      BY <1>1, <3>1, <3>2 DEF Rows
  <2>3. Cardinality(Rows') = Cardinality(Rows) + 1
    BY <2>1, <2>2, RowsBound, FS_AddElement
  <2>4. Cardinality(Rows) \in Nat /\ Cardinality(Rows') <= Cardinality(Keys) * MaxVersions
    BY <2>1, RowsBound
  <2>5. Cardinality(Keys) * MaxVersions \in Nat
    BY Bounds
  <2> QED
    BY <1>1, <1>7, <2>3, <2>4, <2>5 DEF CountInv
<1>12. \A p \in Procs : ~Recording(p, k)
  BY <1>2, OutboxAssumption DEF OutboxAssumption, TxInv, TxKey, Recording
<1>13. /\ \A p \in Procs, l \in Keys : l # k /\ Recording(p, l)' => p # w /\ Recording(p, l)
       /\ \A p \in Procs : Recording(p, k)' => p = w
  BY <1>4, <1>12 DEF Recording
<1>14. /\ \A l \in Keys : l # k => Ids(l)' \subseteq Ids(l)
       /\ Ids(k)' = {n} /\ (event[k].id = 0 \/ n \in Ids(k))
  <2>1. ASSUME NEW l \in Keys, l # k PROVE Ids(l)' \subseteq Ids(l)
    BY <1>4, <1>5, <1>13, <2>1 DEF Ids
  <2>2. Recording(w, k)'
    BY <1>4 DEF Recording
  <2>3. Ids(k)' = {n}
    BY <1>1, <1>3, <1>4, <1>5, <1>13, <2>2, Types DEF Ids
  <2> QED
    BY <1>3, <2>1, <2>3 DEF Ids
<1>15. IdInv'
  <2>1. \A l \in Keys : Ids(l) \subseteq 1 .. nextEvent - 1
    BY DEF IdInv
  <2>2. n \in 1 .. nextEvent' - 1
    BY <1>1, <1>3, <1>7, <1>14, <2>1
  <2>3. \A l \in Keys : l # k => n \notin Ids(l)
    BY <1>1, <1>3, <1>14, <2>1 DEF IdInv
  <2>4. \A l \in Keys : Ids(l)' \subseteq 1 .. nextEvent' - 1
    BY <1>1, <1>7, <1>14, <2>1, <2>2
  <2>5. ASSUME NEW l \in Keys, NEW m \in Keys \ {l} PROVE Ids(l)' \cap Ids(m)' = {}
    <3>1. CASE l # k /\ m # k
      BY <1>14, <3>1 DEF IdInv
    <3>2. CASE l = k \/ m = k
      BY <1>14, <2>3, <3>2
    <3> QED
      BY <3>1, <3>2
  <2> QED
    BY <2>4, <2>5 DEF IdInv
<1>16. ASSUME NEW l \in Keys, l # k, NEW i \in before[l] PROVE i # k /\ i \in Keys
  BY <1>2, <1>16 DEF BeforeInv, Keys
<1>17. BeforeInv'
  <2>1. ASSUME NEW l \in Keys, NEW i \in before'[l]
        PROVE  /\ l \in Ordered /\ i \in Ordered \ {l} /\ InboxOf[i] = InboxOf[l]
               /\ recorded'[i] > 0 /\ \A p \in Procs : ~Recording(p, i)'
               /\ \A a \in Ids(i)', b \in Ids(l)' : a < b
    <3>1. CASE l # k
      <4>1. i # k /\ i \in Keys /\ i \in before[l]
        BY <1>6, <1>16, <2>1, <3>1
      <4> QED
        BY <1>6, <1>13, <1>14, <3>1, <4>1 DEF BeforeInv
    <3>2. CASE l = k
      <4>1. /\ k \in Ordered /\ i \in Ordered \ {k} /\ InboxOf[i] = InboxOf[k] /\ event[i].id # 0 /\ i \in Keys
        BY <1>6, <2>1, <3>2 DEF Keys
      <4>2. recorded[i] > 0 /\ recorded'[i] > 0
        BY <1>6, <4>1, Types DEF EventInv
      <4>3. \A p \in Procs : ~Recording(p, i)
        BY <4>1 DEF TxInv, TxKey, Recording
      <4>4. \A a \in Ids(i) : a < n
        BY <1>1, <1>2, <1>3, <4>1 DEF IdInv
      <4> QED
        BY <1>13, <1>14, <3>2, <4>1, <4>2, <4>3, <4>4
    <3> QED
      BY <3>1, <3>2
  <2> QED
    BY <2>1 DEF BeforeInv
<1>18. \A l \in Keys : Pending(l)' <=> Pending(l)
  BY <1>5 DEF Pending
<1>19. NothingLost'
  BY <1>2, <1>5 DEF NothingLost
<1>20. InboxOrder'
  <2>1. ASSUME NEW l \in Ordered, NEW i \in before'[l], (LiveJob(l) \/ event[l].sent)' PROVE ~Pending(i)'
    <3>1. l \in Keys /\ (LiveJob(l) \/ event[l].sent)
      BY <1>2, <1>5, <2>1 DEF LiveJob, Live, Keys
    <3>2. l # k
      BY <1>2, <3>1 DEF LiveJob, Live, JobsInv, EventInv
    <3> QED
      BY <1>6, <1>16, <1>18, <3>1, <3>2 DEF InboxOrder
  <2> QED
    BY <2>1 DEF InboxOrder
<1>21. /\ HolderInv'
       /\ \A l \in Keys : event'[l].holder # NoOne => l \in tx'[event'[l].holder].keys
  <2>1. \A l \in Keys : event[l].holder # w
    BY <1>1, <1>2 DEF HolderInv
  <2>2. \A l \in Keys : event'[l].holder = event[l].holder \/ (l = k /\ event'[l].holder = w)
    BY <1>5
  <2> QED
    BY <1>1, <1>4, <2>1, <2>2, LocksKept
<1>22. TypeOK'
  <2>1. n \in EventIds
    <3>1. event[k].id \in EventIds
      BY <1>1 DEF Event
    <3>2. event[k].id = 0 => nextEvent \in EventIds
      BY <1>1, <1>11, Bounds DEF EventIds
    <3> QED
      BY <1>3, <3>1, <3>2
  <2>2. [pc |-> "recorded", keys |-> {k}, version |-> recorded[k] + 1, id |-> n] \in Tx
    BY <1>1, <1>2, <2>1 DEF Tx
  <2>3. tx' \in [Procs -> Tx]
    BY <1>1, <1>3, <2>2 DEF TypeOK
  <2>4. [event[k] EXCEPT !.holder = w] \in Event
    BY <1>1 DEF Event
  <2>5. event' \in [Keys -> Event]
    BY <2>4 DEF Record, TypeOK
  <2>6. recorded' \in [Keys -> 0 .. MaxVersions]
    <3>1. recorded[k] + 1 \in 0 .. MaxVersions
      BY <1>1, <1>2
    <3> QED
      BY <3>1 DEF Record, TypeOK
  <2>7. before' \in [Keys -> SUBSET Ordered]
    <3>1. (IF k \in Ordered THEN {i \in Ordered \ {k} : InboxOf[i] = InboxOf[k] /\ event[i].id # 0} ELSE {})
            \in SUBSET Ordered
      OBVIOUS
    <3> QED
      BY <3>1 DEF Record, TypeOK
  <2>8. nextEvent' \in Nat /\ nextEvent' > 0
    BY <1>1, <1>7 DEF TypeOK
  <2> QED
    BY <1>2, <1>21, <2>3, <2>5, <2>6, <2>7, <2>8 DEF TypeOK
<1>23. TxInv'
  <2>1. TxKey(w, k)'
    BY <1>2, <1>3, <1>4, <1>5, <1>6 DEF TxKey
  <2>2. ASSUME NEW p \in Procs, p # w, NEW l \in tx[p].keys PROVE TxKey(p, l)'
    <3>1. /\ l \in Keys /\ (recorded'[l] = recorded[l] \/ recorded'[l] > 0)
          /\ event[l].holder = p => event'[l] = event[l] /\ recorded'[l] = recorded[l]
      BY <1>2, <1>5, <1>6, <2>2, Types, OutboxAssumption DEF OutboxAssumption
    <3> QED
      BY <1>2, <1>4, <2>2, <3>1, OtherTx
  <2> QED
    BY <1>4, <2>1, <2>2 DEF TxInv
<1>24. ChosenInv'
  <2>1. ASSUME NEW p \in Procs, NEW l \in tx'[p].keys \cap Ordered, tx'[p].pc \in {"selected", "locked"},
               NEW i \in before'[l]
        PROVE  ~Pending(i)'
    <3>1. p # w /\ tx'[p] = tx[p] /\ l \in tx[p].keys /\ TxKey(p, l)
      BY <1>4, <2>1 DEF TxInv
    <3>2. l # k
      <4>1. tx[p].pc = "selected" => recorded[l] > 0
        BY <3>1 DEF TxKey
      <4>2. tx[p].pc = "locked" => event[l].holder = p
        BY <3>1 DEF TxKey
      <4>3. l = k => recorded[l] = 0 /\ event[l].holder # p
        BY <1>2, <2>1, OutboxAssumption DEF OutboxAssumption
      <4> QED
        BY <2>1, <3>1, <4>1, <4>2, <4>3
    <3>3. l \in Keys /\ i \in before[l] /\ i \in Keys
      BY <1>6, <1>16, <2>1, <3>2 DEF Keys
    <3> QED
      BY <1>18, <2>1, <3>1, <3>3 DEF ChosenInv
  <2> QED
    BY <2>1 DEF ChosenInv
<1> QED
  BY <1>9, <1>10, <1>11, <1>15, <1>17, <1>19, <1>20, <1>21, <1>22, <1>23, <1>24

(* The commit of a recording makes its row and its payload visible.          *)
LEMMA CommitRecordStep ==
  ASSUME OutboxInv, NEW w \in Writers, CommitRecord(w)
  PROVE  OutboxInv'
<1> USE DEF OutboxInv
<1>1. w \in Procs /\ w # NoOne /\ tx[w] \in Tx
  BY OutboxAssumption, Types DEF OutboxAssumption, Procs
<1>2. /\ tx[w].pc = "recorded" /\ tx'[w].pc = "idle" /\ tx'[w].keys = {}
      /\ \A p \in Procs : p # w => tx'[p] = tx[p]
      /\ UNCHANGED <<jobs, nextEvent, nextJob, recorded, before, rollbacks>>
  BY <1>1 DEF CommitRecord, TypeOK, NoTx
<1>3. \A k \in Keys :
        IF k \in tx[w].keys
        THEN /\ Recording(w, k) /\ event[k].holder = w /\ event'[k].holder = NoOne
             /\ event'[k].id = tx[w].id /\ event'[k].version = tx[w].version /\ ~event'[k].sent
        ELSE event'[k] = event[k]
  <2>1. ASSUME NEW k \in tx[w].keys PROVE Recording(w, k) /\ event[k].holder = w
    BY <1>1, <1>2, <2>1 DEF Recording, TxInv, TxKey
  <2> QED
    BY <2>1 DEF CommitRecord
<1>4. /\ EventInv' /\ JobsInv' /\ IdInv' /\ BeforeInv' /\ CountInv' /\ NothingLost' /\ InboxOrder'
      /\ \A l \in Ordered : \A i \in before[l] : Pending(i)' => Pending(i)
  <2>1. \A p \in Procs : tx'[p].pc = "recorded" => tx'[p] = tx[p]
    BY <1>2
  <2>2. \A k \in Keys : \/ /\ event'[k].id = event[k].id /\ event'[k].version = event[k].version
                           /\ event'[k].sent = event[k].sent
                        \/ \E p \in Procs : /\ Recording(p, k) /\ event'[k].id = tx[p].id
                                            /\ event'[k].version = tx[p].version /\ ~event'[k].sent
    BY <1>1, <1>3
  <2> QED
    BY <1>2, <2>1, <2>2, QuietStep DEF Live
<1>5. /\ HolderInv'
      /\ \A l \in Keys : event'[l].holder # NoOne => l \in tx'[event'[l].holder].keys
  <2>1. \A l \in Keys : event'[l].holder \in {event[l].holder, NoOne}
    BY <1>3
  <2>2. \A l \in Keys : event'[l].holder # w
    BY <1>1, <1>3 DEF HolderInv
  <2> QED
    BY <1>1, <1>2, <2>1, <2>2, LocksKept
<1>6. TypeOK'
  <2>1. tx' \in [Procs -> Tx]
    <3>1. NoTx \in Tx
      BY Bounds DEF NoTx, Tx
    <3> QED
      BY <3>1 DEF CommitRecord, TypeOK
  <2>2. event' \in [Keys -> Event]
    <3>1. [id |-> tx[w].id, version |-> tx[w].version, sent |-> FALSE, holder |-> NoOne] \in Event
      BY <1>1 DEF Tx, Event
    <3> QED
      BY <3>1, Types DEF CommitRecord
  <2> QED
    BY <1>2, <1>5, <2>1, <2>2 DEF TypeOK
<1>7. TxInv'
  <2>1. ASSUME NEW p \in Procs, p # w, NEW l \in tx[p].keys PROVE TxKey(p, l)'
    <3>1. l \in Keys /\ (event[l].holder = p => event'[l] = event[l])
      BY <1>3, <2>1, Types
    <3> QED
      BY <1>2, <2>1, <3>1, OtherTx
  <2> QED
    BY <1>2, <2>1 DEF TxInv
<1>8. ChosenInv'
  BY <1>2, <1>4, ChosenKept
<1> QED
  BY <1>4, <1>5, <1>6, <1>7, <1>8

-----------------------------------------------------------------------------
(* Counting who is before is a numbering without gaps.                       *)
LEMMA Ranks ==
  ASSUME NEW S, IsFiniteSet(S), NEW below \in [S -> SUBSET S],
         \A k \in S : k \notin below[k],
         \A k, l \in S : k = l \/ below[k] \cup {k} \subseteq below[l] \/ below[l] \cup {l} \subseteq below[k]
  PROVE  /\ \A k \in S : Cardinality(below[k]) \in 0 .. Cardinality(S) - 1
         /\ \A k, l \in S : Cardinality(below[k]) = Cardinality(below[l]) => k = l
         /\ \A n \in 1 .. Cardinality(S) : \E k \in S : Cardinality(below[k]) + 1 = n
<1>1. Cardinality(S) \in Nat
  BY FS_CardinalityType
<1>2. ASSUME NEW k \in S
      PROVE  /\ Cardinality(below[k]) \in Nat
             /\ \A T \in SUBSET S : below[k] \cup {k} \subseteq T => Cardinality(below[k]) + 1 <= Cardinality(T)
  <2>1. below[k] \in SUBSET S /\ IsFiniteSet(below[k])
    BY FS_Subset
  <2>2. Cardinality(below[k]) \in Nat /\ Cardinality(below[k] \cup {k}) = Cardinality(below[k]) + 1
    BY <2>1, FS_CardinalityType, FS_AddElement
  <2>3. ASSUME NEW T \in SUBSET S, below[k] \cup {k} \subseteq T PROVE Cardinality(below[k] \cup {k}) <= Cardinality(T)
    <3>1. IsFiniteSet(T)
      BY FS_Subset
    <3> QED
      BY <2>3, <3>1, FS_Subset
  <2> QED
    BY <2>2, <2>3
<1>3. \A k \in S : Cardinality(below[k]) \in 0 .. Cardinality(S) - 1
  <2>1. ASSUME NEW k \in S PROVE Cardinality(below[k]) + 1 <= Cardinality(S)
    BY <1>2
  <2> QED
    BY <1>1, <1>2, <2>1
<1>4. ASSUME NEW k \in S, NEW l \in S, Cardinality(below[k]) = Cardinality(below[l]) PROVE k = l
  <2>1. ~(below[k] \cup {k} \subseteq below[l]) /\ ~(below[l] \cup {l} \subseteq below[k])
    <3>1. below[k] \in SUBSET S /\ below[l] \in SUBSET S
      OBVIOUS
    <3>2. below[k] \cup {k} \subseteq below[l] => Cardinality(below[k]) + 1 <= Cardinality(below[l])
      BY <1>2, <3>1
    <3>3. below[l] \cup {l} \subseteq below[k] => Cardinality(below[l]) + 1 <= Cardinality(below[k])
      BY <1>2, <3>1
    <3> QED
      BY <1>2, <1>4, <3>2, <3>3
  <2> QED
    BY <2>1
<1> DEFINE rank == [k \in S |-> Cardinality(below[k]) + 1]
<1>5. rank \in Injection(S, 1 .. Cardinality(S))
  <2>1. rank \in [S -> 1 .. Cardinality(S)]
    <3>1. \A k \in S : Cardinality(below[k]) + 1 \in 1 .. Cardinality(S)
      BY <1>1, <1>3
    <3> QED
      BY <3>1
  <2>2. ASSUME NEW k \in S, NEW l \in S, rank[k] = rank[l] PROVE k = l
    BY <1>2, <1>4, <2>2
  <2> QED
    BY <2>1, <2>2 DEF Injection, IsInjective
<1>6. rank \in Surjection(S, 1 .. Cardinality(S))
  <2>1. IsFiniteSet(1 .. Cardinality(S)) /\ Cardinality(1 .. Cardinality(S)) = Cardinality(S)
    BY <1>1, FS_Interval
  <2> HIDE DEF rank
  <2> QED
    BY <1>5, <2>1, FS_Injection
<1>7. \A n \in 1 .. Cardinality(S) : \E k \in S : rank[k] = n
  BY <1>6 DEF Surjection
<1> QED
  BY <1>3, <1>4, <1>7

(* A dispatch numbers the rows it inserts in id order, without a gap.        *)
LEMMA JobForFacts ==
  ASSUME OutboxInv, NEW d \in Procs, tx[d].pc = "locked"
  PROVE  /\ Cardinality(Inserted(d)) \in Nat
         /\ \A k \in Inserted(d) : JobFor(k, d) \in nextJob .. nextJob + Cardinality(Inserted(d)) - 1
         /\ \A k, l \in Inserted(d) : JobFor(k, d) = JobFor(l, d) => k = l
         /\ \A j \in nextJob .. nextJob + Cardinality(Inserted(d)) - 1 :
              \E k \in Inserted(d) : JobFor(k, d) = j
<1> USE DEF OutboxInv
<1>1. /\ Inserted(d) \subseteq Keys /\ IsFiniteSet(Inserted(d)) /\ Cardinality(Inserted(d)) \in Nat
      /\ nextJob \in Nat
  <2>1. Inserted(d) \subseteq Keys /\ IsFiniteSet(Keys)
    BY Types, OutboxAssumption DEF OutboxAssumption, Inserted
  <2>2. IsFiniteSet(Inserted(d))
    BY <2>1, FS_Subset
  <2> QED
    BY <2>1, <2>2, FS_CardinalityType, Types
<1>2. \A k, l \in Inserted(d) : event[k].id \in Nat /\ (k # l => event[k].id # event[l].id)
  <2>1. ASSUME NEW k \in Inserted(d) PROVE event[k].id \in Ids(k) /\ event[k].id \in Nat
    <3>1. k \in tx[d].keys
      BY <2>1 DEF Inserted
    <3>2. Pending(k)
      BY <3>1 DEF TxInv, TxKey
    <3> QED
      BY <1>1, <2>1, <3>2, Types DEF Pending, Ids
  <2> QED
    BY <1>1, <2>1 DEF IdInv
<1>3. PICK below \in [Inserted(d) -> SUBSET Inserted(d)] :
        \A k \in Inserted(d) : below[k] = {i \in Inserted(d) : event[i].id < event[k].id}
  <2>1. [k \in Inserted(d) |-> {i \in Inserted(d) : event[i].id < event[k].id}]
          \in [Inserted(d) -> SUBSET Inserted(d)]
    OBVIOUS
  <2> QED
    BY <2>1
<1>4. \A k \in Inserted(d) : k \notin below[k]
  BY <1>2, <1>3
<1>5. \A k, l \in Inserted(d) :
        k = l \/ below[k] \cup {k} \subseteq below[l] \/ below[l] \cup {l} \subseteq below[k]
  BY <1>2, <1>3
<1>6. /\ \A k \in Inserted(d) : Cardinality(below[k]) \in 0 .. Cardinality(Inserted(d)) - 1
      /\ \A k, l \in Inserted(d) : Cardinality(below[k]) = Cardinality(below[l]) => k = l
      /\ \A n \in 1 .. Cardinality(Inserted(d)) : \E k \in Inserted(d) : Cardinality(below[k]) + 1 = n
  BY <1>1, <1>4, <1>5, Ranks
<1>7. \A k \in Inserted(d) : JobFor(k, d) = nextJob + Cardinality(below[k])
  BY <1>3, Zenon DEF JobFor
<1>8. ASSUME NEW j \in nextJob .. nextJob + Cardinality(Inserted(d)) - 1
      PROVE  \E k \in Inserted(d) : JobFor(k, d) = j
  <2>1. j - nextJob + 1 \in 1 .. Cardinality(Inserted(d))
    BY <1>1
  <2>2. PICK k \in Inserted(d) : Cardinality(below[k]) + 1 = j - nextJob + 1
    BY <1>6, <2>1
  <2> QED
    BY <1>1, <1>6, <1>7, <2>2
<1> QED
  BY <1>1, <1>6, <1>7, <1>8

(* What was inserted is in the queue, what was absorbed was there already.   *)
LEMMA DispatchStep ==
  ASSUME OutboxInv, NEW d \in Dispatchers, Dispatch(d)
  PROVE  OutboxInv'
<1> USE DEF OutboxInv
<1>1. d \in Procs /\ d # NoOne /\ tx[d].keys \subseteq Keys
  BY OutboxAssumption, Types DEF OutboxAssumption, Procs
<1>2. /\ tx[d].pc = "locked" /\ tx'[d].pc = "idle" /\ tx'[d].keys = {}
      /\ \A p \in Procs : p # d => tx'[p] = tx[p]
      /\ UNCHANGED <<nextEvent, recorded, before, rollbacks>>
  BY <1>1 DEF Dispatch, TypeOK, NoTx
<1>3. \A k \in Keys : /\ k \in tx[d].keys <=> event[k].holder = d
                      /\ k \in tx[d].keys => Pending(k)
  <2>1. ASSUME NEW k \in tx[d].keys PROVE event[k].holder = d /\ Pending(k)
    BY <1>1, <1>2 DEF TxInv, TxKey
  <2>2. ASSUME NEW k \in Keys, event[k].holder = d PROVE k \in tx[d].keys
    BY <1>1, <2>2 DEF HolderInv
  <2> QED
    BY <2>1, <2>2
<1>4. \A k \in Keys :
        /\ event'[k] \in Event
        /\ event'[k].id = event[k].id /\ event'[k].version = event[k].version
        /\ IF k \in tx[d].keys THEN event'[k].holder = NoOne /\ (event'[k].sent <=> k \in Sent(d))
                               ELSE event'[k] = event[k]
  <2>1. ASSUME NEW k \in Keys
        PROVE  event'[k] = IF k \in tx[d].keys
                           THEN [event[k] EXCEPT !.sent = (k \in Sent(d)), !.holder = NoOne]
                           ELSE event[k]
    BY <1>3 DEF Dispatch
  <2>2. ASSUME NEW k \in Keys, k \in tx[d].keys
        PROVE  /\ event'[k] \in Event /\ event'[k].id = event[k].id /\ event'[k].version = event[k].version
               /\ event'[k].holder = NoOne /\ (event'[k].sent <=> k \in Sent(d))
    <3>1. event'[k] = [event[k] EXCEPT !.sent = (k \in Sent(d)), !.holder = NoOne]
      BY <2>1, <2>2
    <3>2. CASE k \in Sent(d)
      <4>1. event'[k] = [event[k] EXCEPT !.sent = TRUE, !.holder = NoOne]
        BY <3>1, <3>2
      <4>2. /\ event'[k] \in Event /\ event'[k].id = event[k].id /\ event'[k].version = event[k].version
            /\ event'[k].holder = NoOne /\ event'[k].sent = TRUE
        BY <4>1, Types DEF Event
      <4> QED
        BY <3>2, <4>2
    <3>3. CASE k \notin Sent(d)
      <4>1. event'[k] = [event[k] EXCEPT !.sent = FALSE, !.holder = NoOne]
        <5>1. (k \in Sent(d)) = FALSE
          BY <3>3
        <5> QED
          BY <3>1, <5>1
      <4>2. /\ event'[k] \in Event /\ event'[k].id = event[k].id /\ event'[k].version = event[k].version
            /\ event'[k].holder = NoOne /\ event'[k].sent = FALSE
        BY <4>1, Types DEF Event
      <4> QED
        BY <3>3, <4>2
    <3> QED
      BY <3>2, <3>3
  <2>3. ASSUME NEW k \in Keys, k \notin tx[d].keys PROVE event'[k] = event[k] /\ event'[k] \in Event
    BY <2>1, <2>3, Types
  <2> QED
    BY <2>2, <2>3
<1>5. PICK m \in Nat :
        /\ nextJob' = nextJob + m /\ nextJob + m <= MaxJobs + 1
        /\ \A k \in Inserted(d) : JobFor(k, d) \in nextJob .. nextJob + m - 1
        /\ \A k, l \in Inserted(d) : JobFor(k, d) = JobFor(l, d) => k = l
        /\ \A j \in nextJob .. nextJob + m - 1 : \E k \in Inserted(d) : JobFor(k, d) = j
  BY <1>1, <1>2, JobForFacts DEF Dispatch
<1>6. Inserted(d) \subseteq tx[d].keys /\ nextJob \in Nat /\ nextJob > 0
  BY DEF Inserted, TypeOK
<1>7. ASSUME NEW j \in JobIds
      PROVE  IF j \in nextJob .. nextJob' - 1
             THEN \E k \in Inserted(d) :
                    /\ JobFor(k, d) = j
                    /\ jobs'[j] = [state |-> "queued", key |-> k, version |-> event[k].version]
             ELSE jobs'[j] = jobs[j]
  <2>1. CASE j \in nextJob .. nextJob' - 1
    <3>1. \E k \in Inserted(d) : JobFor(k, d) = j
      BY <1>5, <1>6, <2>1
    <3>2. PICK k \in Inserted(d) :
            k = (CHOOSE i \in Inserted(d) : JobFor(i, d) = j) /\ JobFor(k, d) = j
      BY <3>1, Zenon
    <3>3. jobs'[j] = [state |-> "queued", key |-> k, version |-> event[k].version]
      BY <3>1, <3>2 DEF Dispatch
    <3> QED
      BY <2>1, <3>2, <3>3
  <2>2. CASE j \notin nextJob .. nextJob' - 1
    <3>1. ~\E k \in Inserted(d) : JobFor(k, d) = j
      BY <1>5, <1>6, <2>2
    <3>2. jobs'[j] = jobs[j]
      BY <3>1 DEF Dispatch
    <3> QED
      BY <2>2, <3>2
  <2> QED
    BY <2>1, <2>2
<1>8. \A j \in JobIds : j >= nextJob => j \in nextJob .. nextJob' - 1 \/ j >= nextJob'
  BY <1>5, <1>6 DEF JobIds
<1>9. EventInv'
  BY <1>1, <1>2, <1>3, <1>4 DEF EventInv, Pending
<1>10. JobsInv'
  <2>1. ASSUME NEW j \in JobIds, j \in nextJob .. nextJob' - 1
        PROVE  /\ jobs'[j].state = "queued" /\ j < nextJob'
               /\ jobs'[j].key \in Keys /\ jobs'[j].version \in 1 .. recorded[jobs'[j].key]
    <3>1. PICK k \in Inserted(d) : jobs'[j] = [state |-> "queued", key |-> k, version |-> event[k].version]
      BY <1>7, <2>1
    <3>2. k \in Keys /\ event[k].version \in 1 .. recorded[k]
      BY <1>1, <1>3, <1>6 DEF EventInv, Pending
    <3> QED
      BY <1>5, <1>6, <2>1, <3>1, <3>2
  <2>2. ASSUME NEW j \in JobIds, j \notin nextJob .. nextJob' - 1
        PROVE  jobs'[j] = jobs[j] /\ (j >= nextJob' <=> j >= nextJob)
    <3>1. jobs'[j] = jobs[j]
      BY <1>7, <2>2
    <3>2. j >= nextJob' <=> j >= nextJob
      BY <1>5, <1>6, <2>2 DEF JobIds
    <3> QED
      BY <3>1, <3>2
  <2>3. ASSUME NEW j \in JobIds
        PROVE  /\ jobs'[j].state = "free" <=> j >= nextJob'
               /\ jobs'[j].state = "free" => jobs'[j].key = NoKey
               /\ jobs'[j].state # "free" => /\ jobs'[j].key \in Keys
                                            /\ jobs'[j].version \in 1 .. recorded[jobs'[j].key]
    <3>1. CASE j \in nextJob .. nextJob' - 1
      BY <1>5, <1>6, <2>1, <3>1 DEF JobIds
    <3>2. CASE j \notin nextJob .. nextJob' - 1
      BY <2>2, <3>2 DEF JobsInv
    <3> QED
      BY <3>1, <3>2
  <2> QED
    BY <1>2, <2>3 DEF JobsInv
<1>11. IdInv' /\ BeforeInv' /\ CountInv'
  <2>1. \A p \in Procs : tx'[p].pc = "recorded" => tx'[p] = tx[p]
    BY <1>2
  <2>2. \A k \in Keys : event'[k].id \in Ids(k) \cup {0}
    BY <1>4 DEF Ids
  <2> QED
    BY <1>2, <2>1, <2>2, FewerIds
<1>12. \A j \in JobIds : jobs[j].state # "free" => jobs'[j] = jobs[j]
  BY <1>5, <1>6, <1>7 DEF JobsInv
<1>13. NothingLost'
  <2>1. ASSUME NEW k \in Keys, event'[k].id # 0, event'[k].sent
        PROVE  \E j \in JobIds : jobs'[j].key = k /\ jobs'[j].version = event'[k].version
    <3>1. CASE k \notin tx[d].keys
      <4>1. PICK j \in JobIds : jobs[j].key = k /\ jobs[j].version = event[k].version
        BY <1>4, <2>1, <3>1 DEF NothingLost
      <4>2. jobs[j].state # "free"
        BY <4>1, OutboxAssumption DEF OutboxAssumption, JobsInv
      <4> QED
        BY <1>4, <1>12, <4>1, <4>2
    <3>2. CASE k \in Inserted(d)
      <4>1. JobFor(k, d) \in JobIds
        BY <1>5, <1>6, <3>2, Bounds DEF JobIds
      <4>2. JobFor(k, d) \in nextJob .. nextJob' - 1
        BY <1>5, <1>6, <3>2
      <4>3. PICK l \in Inserted(d) :
              /\ JobFor(l, d) = JobFor(k, d)
              /\ jobs'[JobFor(k, d)] = [state |-> "queued", key |-> l, version |-> event[l].version]
        BY <1>7, <4>1, <4>2
      <4>4. l = k
        BY <1>5, <3>2, <4>3
      <4> QED
        BY <1>4, <4>1, <4>3, <4>4
    <3>3. CASE k \in tx[d].keys /\ k \notin Inserted(d)
      <4>1. k \in Ordered /\ LiveJob(k)
        BY <1>4, <2>1, <3>3 DEF Sent, Inserted
      <4>2. PICK j \in JobIds : Live(j) /\ jobs[j].key = k
        BY <4>1 DEF LiveJob
      <4>3. jobs[j].state # "free" /\ jobs[j].version = 1
        BY <4>1, <4>2, Types DEF Live, JobsInv, EventInv
      <4>4. event[k].version = 1
        BY <1>3, <3>3, <4>1, Types DEF EventInv, Pending
      <4> QED
        BY <1>4, <1>12, <4>2, <4>3, <4>4
    <3> QED
      BY <3>1, <3>2, <3>3, <1>6
  <2> QED
    BY <2>1 DEF NothingLost
<1>14. \A k \in Keys : Pending(k)' => Pending(k)
  BY <1>3, <1>4 DEF Pending
<1>15. InboxOrder'
  <2>1. ASSUME NEW k \in Ordered, NEW i \in before[k], (LiveJob(k) \/ event[k].sent)' PROVE ~Pending(i)'
    <3>1. k \in Keys /\ i \in Keys
      BY <2>1 DEF BeforeInv, Keys
    <3>2. CASE k \in tx[d].keys
      BY <1>1, <1>2, <1>14, <2>1, <3>1, <3>2 DEF ChosenInv
    <3>3. CASE k \notin tx[d].keys
      <4>1. ASSUME NEW j \in JobIds, Live(j)', jobs'[j].key = k PROVE Live(j) /\ jobs[j].key = k
        <5>1. \A l \in Inserted(d) : jobs'[j] # [state |-> "queued", key |-> l, version |-> event[l].version]
          BY <1>6, <3>3, <4>1
        <5>2. jobs'[j] = jobs[j]
          BY <1>7, <5>1
        <5> QED
          BY <4>1, <5>2 DEF Live
      <4>2. LiveJob(k) \/ event[k].sent
        BY <1>4, <2>1, <3>1, <3>3, <4>1 DEF LiveJob
      <4> QED
        BY <1>14, <2>1, <3>1, <4>2 DEF InboxOrder
    <3> QED
      BY <3>2, <3>3
  <2> QED
    BY <1>2, <2>1 DEF InboxOrder
<1>16. /\ HolderInv'
       /\ \A l \in Keys : event'[l].holder # NoOne => l \in tx'[event'[l].holder].keys
  <2>1. \A l \in Keys : event'[l].holder \in {event[l].holder, NoOne} /\ event'[l].holder # d
    BY <1>1, <1>3, <1>4
  <2> QED
    BY <1>1, <1>2, <2>1, LocksKept
<1>17. TypeOK'
  <2>1. NoTx \in Tx
    BY Bounds DEF NoTx, Tx
  <2>2. tx' \in [Procs -> Tx]
    BY <2>1 DEF Dispatch, TypeOK
  <2>3. event' \in [Keys -> Event]
    BY <1>4 DEF Dispatch
  <2>4. ASSUME NEW j \in JobIds PROVE jobs'[j] \in Job
    <3>1. CASE j \in nextJob .. nextJob' - 1
      <4>1. PICK k \in Inserted(d) : jobs'[j] = [state |-> "queued", key |-> k, version |-> event[k].version]
        BY <1>7, <3>1
      <4>2. k \in Keys /\ event[k].version \in 0 .. MaxVersions
        BY <1>1, <1>6, Types DEF Event
      <4> QED
        BY <4>1, <4>2 DEF Job
    <3>2. CASE j \notin nextJob .. nextJob' - 1
      BY <1>7, <3>2, Types
    <3> QED
      BY <3>1, <3>2
  <2>5. jobs' \in [JobIds -> Job]
    BY <2>4 DEF Dispatch
  <2>6. nextJob' \in 1 .. MaxJobs + 1
    BY <1>5, <1>6, Bounds
  <2> QED
    BY <1>2, <1>16, <2>2, <2>3, <2>5, <2>6 DEF TypeOK
<1>18. TxInv'
  <2>1. ASSUME NEW p \in Procs, p # d, NEW l \in tx[p].keys PROVE TxKey(p, l)'
    <3>1. l \in Keys /\ (event[l].holder = p => event'[l] = event[l])
      BY <1>3, <1>4, <2>1, Types
    <3>2. ASSUME NEW j \in JobIds, jobs'[j].key = l
          PROVE  jobs'[j] = jobs[j] \/ (event[l].holder # p /\ jobs'[j].version > 0)
      <4>1. CASE j \in nextJob .. nextJob' - 1
        <5>1. PICK k \in Inserted(d) : jobs'[j] = [state |-> "queued", key |-> k, version |-> event[k].version]
          BY <1>7, <4>1
        <5>2. l \in tx[d].keys /\ jobs'[j].version = event[l].version
          BY <1>6, <3>2, <5>1
        <5>3. event[l].holder = d /\ event[l].version > 0
          BY <1>3, <3>1, <5>2, Types DEF EventInv, Pending
        <5> QED
          BY <2>1, <5>2, <5>3
      <4>2. CASE j \notin nextJob .. nextJob' - 1
        BY <1>7, <4>2
      <4> QED
        BY <4>1, <4>2
    <3> QED
      BY <1>2, <2>1, <3>1, <3>2, OtherTx
  <2> QED
    BY <1>2, <2>1 DEF TxInv
<1>19. ChosenInv'
  <2>1. \A k \in Ordered : \A i \in before[k] : Pending(i)' => Pending(i)
    BY <1>14 DEF BeforeInv, Keys
  <2> QED
    BY <1>2, <2>1, ChosenKept
<1> QED
  BY <1>9, <1>10, <1>11, <1>13, <1>15, <1>16, <1>17, <1>18, <1>19

-----------------------------------------------------------------------------
(* Every step keeps the invariant.                                           *)
LEMMA OutboxStep == OutboxInv /\ [Next]_vars => OutboxInv'
<1> SUFFICES ASSUME OutboxInv, [Next]_vars PROVE OutboxInv'
  OBVIOUS
<1>1. CASE \E w \in Writers : (\E k \in Keys : Record(w, k)) \/ CommitRecord(w)
  BY <1>1, RecordStep, CommitRecordStep
<1>2. CASE \E d \in Dispatchers : Select(d) \/ Lock(d) \/ Dispatch(d)
  BY <1>2, SelectStep, LockStep, DispatchStep
<1>3. CASE \E c \in Cancellers : (\E k \in Cancellable : CancelLock(c, k)) \/ CancellerStep(c)
  BY <1>3, CancelLockStep, CancelJobsStep, CancelCommitStep DEF CancellerStep
<1>4. CASE \E p \in Procs : Rollback(p)
  BY <1>4, RollbackStep
<1>5. CASE \E j \in JobIds : Claim(j) \/ Finish(j) \/ RetryOrExpire(j)
  BY <1>5, MoveStep
<1>6. CASE UNCHANGED vars
  <2> USE <1>6 DEF vars, OutboxInv
  <2>1. TypeOK' /\ HolderInv' /\ EventInv' /\ JobsInv' /\ ChosenInv' /\ NothingLost' /\ InboxOrder'
    BY DEF TypeOK, HolderInv, EventInv, JobsInv, ChosenInv, NothingLost, InboxOrder, Pending, LiveJob, Live
  <2>2. TxInv'
    <3>1. \A p \in Procs : \A k \in tx[p].keys : TxKey(p, k)'
      BY OtherTx
    <3> QED
      BY <3>1 DEF TxInv
  <2>3. IdInv' /\ BeforeInv' /\ CountInv'
    <3>1. \A k \in Keys : event'[k].id \in Ids(k) \cup {0}
      BY DEF Ids
    <3> QED
      BY <3>1, FewerIds
  <2> QED
    BY <2>1, <2>2, <2>3
<1> QED
  BY <1>1, <1>2, <1>3, <1>4, <1>5, <1>6 DEF Next, DispatcherStep, IdleTick

LEMMA Invariance == Spec => []OutboxInv
  BY InitInv, OutboxStep, PTL DEF Spec

(* A row is locked by an open transaction that names it, for any processes.  *)
THEOREM TypeCorrect == Spec => []TypeOK
<1>1. OutboxInv => TypeOK
  BY DEF OutboxInv
<1> QED
  BY <1>1, Invariance, PTL

(* dispatch_outbox loses no payload: what a dispatched row holds is what a   *)
(* job holds, whatever was recorded, cancelled or rolled back meanwhile.     *)
THEOREM DispatchedIsQueued == Spec => []NothingLost
<1>1. OutboxInv => NothingLost
  BY DEF OutboxInv
<1> QED
  BY <1>1, Invariance, PTL

(* Deliveries to one inbox leave the outbox in causal order, for any number  *)
(* of schedulers.                                                            *)
THEOREM InboxInOrder == Spec => []InboxOrder
<1>1. OutboxInv => InboxOrder
  BY DEF OutboxInv
<1> QED
  BY <1>1, Invariance, PTL

(* A committed cancellation leaves no job of what it cancelled to be claimed *)
(* for the first time: cancel holds the row that a dispatch would need.      *)
THEOREM CancellationIsFinal == Spec => CancelIsFinal
<1>1. ASSUME OutboxInv, [Next]_vars, NEW c \in Cancellers,
             tx[c].pc = "jobs deleted", tx'[c].pc = "idle",
             NEW j \in JobIds, jobs'[j].state = "queued", jobs'[j].key \in tx[c].keys
      PROVE  jobs'[j].version > tx[c].version
  <2>1. c \in Procs /\ \A p \in Procs : tx[p].pc # "jobs deleted" => p # c
    BY <1>1 DEF Procs
  <2>2. jobs' = jobs
    <3>1. CASE \E p \in Procs : /\ tx[p].pc # "jobs deleted"
                                /\ \E t : tx' = [tx EXCEPT ![p] = t]
      BY <1>1, <2>1, <3>1 DEF OutboxInv, TypeOK
    <3>2. CASE UNCHANGED jobs
      BY <3>2
    <3>3. CASE UNCHANGED tx
      BY <1>1, <3>3
    <3>4. ASSUME NEW d \in Dispatchers, Dispatch(d)
          PROVE  /\ d \in Procs /\ tx[d].pc # "jobs deleted"
                 /\ \E t : tx' = [tx EXCEPT ![d] = t]
      BY <3>4 DEF Dispatch, Procs
    <3>5. ASSUME NEW i \in Cancellers, CancelJobs(i)
          PROVE  i # c /\ tx'[c] = tx[c]
      BY <1>1, <2>1, <3>5 DEF CancelJobs, OutboxInv, TypeOK, Procs
    <3> QED
      BY <1>1, <3>1, <3>2, <3>3, <3>4, <3>5
      DEF Next, vars, Record, CommitRecord, DispatcherStep, Select, IdleTick, Lock, CancelLock,
          CancellerStep, CancelCommit, Rollback, Claim, Finish, RetryOrExpire, Move
  <2> QED
    BY <1>1, <2>1, <2>2 DEF OutboxInv, TxInv, TxKey
<1>2. OutboxInv /\ [Next]_vars =>
        [\A c \in Cancellers :
           tx[c].pc = "jobs deleted" /\ tx'[c].pc = "idle" =>
             \A j \in JobIds :
               jobs'[j].state = "queued" /\ jobs'[j].key \in tx[c].keys
                 => jobs'[j].version > tx[c].version]_vars
  BY <1>1
<1> QED
  BY <1>2, Invariance, PTL DEF Spec, CancelIsFinal
=============================================================================
