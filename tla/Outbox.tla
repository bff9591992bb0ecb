------------------------------- MODULE Outbox -------------------------------
(***************************************************************************)
(* The transactional outbox of jobs.rs: business transactions record       *)
(* events (record_outbox_in, record_outbox_once_in), the schedulers of     *)
(* several worker processes turn them into durable jobs (dispatch_outbox), *)
(* and cancel withdraws a logical key.  A transaction is a sequence of     *)
(* statements holding row locks; its writes become visible at its commit.  *)
(*                                                                         *)
(* Ordered events are deliveries: recorded once, dispatched one at a time  *)
(* per inbox.  The other events are upserted: recording a key again resets *)
(* its row with a new version of the payload.                              *)
(***************************************************************************)
EXTENDS Naturals, FiniteSets, FiniteSetsExt

CONSTANTS
  Plain,        (* keys of events that are recorded again and again         *)
  Ordered,      (* keys of ActivityPub deliveries                           *)
  InboxOf,      (* the (source account, inbox) of a delivery                *)
  Cancellable,  (* the keys that are ever cancelled                         *)
  Writers, Dispatchers, Cancellers, NoOne, NoKey,
  MaxVersions,  (* bound: times a key is recorded                           *)
  MaxJobs,      (* bound: jobs ever inserted                                *)
  MaxRollbacks  (* bound: transactions that fail                            *)

Keys == Plain \cup Ordered

Procs == Writers \cup Dispatchers \cup Cancellers

ASSUME OutboxAssumption ==
  /\ Plain \cap Ordered = {} /\ NoKey \notin Keys /\ NoOne \notin Procs
  /\ DOMAIN InboxOf = Ordered /\ Cancellable \subseteq Keys /\ IsFiniteSet(Keys)
  /\ MaxVersions \in Nat \ {0} /\ MaxJobs \in Nat /\ MaxRollbacks \in Nat

VARIABLES
  event,     (* rustodon.outbox_events: one row per logical key             *)
  jobs,      (* rustodon.durable_jobs                                       *)
  tx,        (* the open transaction of each process                        *)
  nextEvent, nextJob,   (* the id sequences                                 *)
  recorded,  (* history: versions of each key ever written                  *)
  before,    (* history: deliveries to the same inbox that were committed   *)
             (* when a delivery was recorded                                *)
  rollbacks  (* history, for the bound                                      *)

vars == <<event, jobs, tx, nextEvent, nextJob, recorded, before, rollbacks>>

JobIds == 1 .. MaxJobs

EventIds == 0 .. Cardinality(Keys) * MaxVersions

(* id 0: no committed row.  holder: the transaction that locked, updated or  *)
(* inserted the row.                                                         *)
Event == [id : EventIds, version : 0 .. MaxVersions, sent : BOOLEAN,
          holder : Procs \cup {NoOne}]

Job == [state : {"free", "queued", "running", "retrying", "finished", "cancelled"},
        key : Keys \cup {NoKey}, version : 0 .. MaxVersions]

Tx == [pc : {"idle", "recorded", "selected", "locked", "cancelling", "jobs deleted"},
       keys : SUBSET Keys, id : EventIds, version : 0 .. MaxVersions]

NoTx == [pc |-> "idle", keys |-> {}, id |-> 0, version |-> 0]

Init ==
  /\ event = [k \in Keys |-> [id |-> 0, version |-> 0, sent |-> FALSE, holder |-> NoOne]]
  /\ jobs = [j \in JobIds |-> [state |-> "free", key |-> NoKey, version |-> 0]]
  /\ tx = [p \in Procs |-> NoTx]
  /\ nextEvent = 1 /\ nextJob = 1
  /\ recorded = [k \in Keys |-> 0]
  /\ before = [k \in Keys |-> {}]
  /\ rollbacks = 0

Free(k) == event[k].holder = NoOne

Pending(k) == event[k].id # 0 /\ ~event[k].sent

Live(j) == jobs[j].state \in {"queued", "running", "retrying"}

LiveJob(k) == \E j \in JobIds : Live(j) /\ jobs[j].key = k

Unlocked(p) ==
  [k \in Keys |-> IF event[k].holder = p THEN [event[k] EXCEPT !.holder = NoOne] ELSE event[k]]

-----------------------------------------------------------------------------
(* record_outbox_in upserts; record_outbox_once_in inserts a row that does   *)
(* not exist, and changes nothing otherwise.                                 *)
Record(w, k) ==
  /\ tx[w].pc = "idle" /\ Free(k)
  /\ k \in Ordered => event[k].id = 0
  /\ recorded[k] < IF k \in Ordered THEN 1 ELSE MaxVersions
  /\ event' = [event EXCEPT ![k].holder = w]
  /\ recorded' = [recorded EXCEPT ![k] = @ + 1]
  /\ nextEvent' = IF event[k].id = 0 THEN nextEvent + 1 ELSE nextEvent
  /\ tx' = [tx EXCEPT ![w] =
              [pc |-> "recorded", keys |-> {k}, version |-> recorded[k] + 1,
               id |-> IF event[k].id = 0 THEN nextEvent ELSE event[k].id]]
  /\ before' = [before EXCEPT ![k] = IF k \in Ordered
                  THEN {i \in Ordered \ {k} : InboxOf[i] = InboxOf[k] /\ event[i].id # 0}
                  ELSE {}]
  /\ UNCHANGED <<jobs, nextJob, rollbacks>>

(* Mistake: the upsert writes the payload but not dispatched_at.             *)
CommitRecordKeepingSent(w) ==
  /\ tx[w].pc = "recorded"
  /\ event' = [k \in Keys |-> IF k \in tx[w].keys
                 THEN [event[k] EXCEPT !.id = tx[w].id, !.version = tx[w].version, !.holder = NoOne]
                 ELSE event[k]]
  /\ tx' = [tx EXCEPT ![w] = NoTx]
  /\ UNCHANGED <<jobs, nextEvent, nextJob, recorded, before, rollbacks>>

CommitRecord(w) ==
  /\ tx[w].pc = "recorded"
  /\ event' = [k \in Keys |-> IF k \in tx[w].keys
                 THEN [id |-> tx[w].id, version |-> tx[w].version, sent |-> FALSE,
                       holder |-> NoOne]
                 ELSE event[k]]
  /\ tx' = [tx EXCEPT ![w] = NoTx]
  /\ UNCHANGED <<jobs, nextEvent, nextJob, recorded, before, rollbacks>>

-----------------------------------------------------------------------------
(* The SELECT of dispatch_outbox: its snapshot, and then the rows it can     *)
(* lock.  A row another transaction holds is skipped, a row that changed     *)
(* since the snapshot is checked again for dispatched_at.                    *)
(* Mistake: earlier deliveries block for ever, dispatched or not.            *)
HeadsEver == {k \in Keys : Pending(k) /\ \A i \in Ordered \ {k} :
                k \in Ordered /\ InboxOf[i] = InboxOf[k] /\ event[i].id # 0
                  => event[k].id < event[i].id}

Heads == {k \in Keys : Pending(k) /\ \A i \in Ordered \ {k} :
            k \in Ordered /\ InboxOf[i] = InboxOf[k] /\ Pending(i) => event[k].id < event[i].id}

(* Mistake: the oldest pending delivery of an inbox is not waited for.       *)
SelectAll(d) ==
  /\ tx[d].pc = "idle"
  /\ LET found == {k \in Keys : Pending(k) /\ ~LiveJob(k)}
     IN  found # {} /\ tx' = [tx EXCEPT ![d].pc = "selected", ![d].keys = found]
  /\ UNCHANGED <<event, jobs, nextEvent, nextJob, recorded, before, rollbacks>>

Select(d) ==
  /\ tx[d].pc = "idle"
  /\ LET found == {k \in Heads : ~LiveJob(k)}
     IN  found # {} /\ tx' = [tx EXCEPT ![d].pc = "selected", ![d].keys = found]
  /\ UNCHANGED <<event, jobs, nextEvent, nextJob, recorded, before, rollbacks>>

(* A tick of the scheduler that finds nothing to dispatch.                   *)
IdleTick(d) ==
  tx[d].pc = "idle" /\ (\A k \in Heads : LiveJob(k)) /\ UNCHANGED vars

Lock(d) ==
  /\ tx[d].pc = "selected"
  /\ LET found == {k \in tx[d].keys : Free(k) /\ Pending(k)}
     IN  /\ event' = [k \in Keys |-> IF k \in found THEN [event[k] EXCEPT !.holder = d]
                                                    ELSE event[k]]
         /\ tx' = [tx EXCEPT ![d] = IF found = {} THEN NoTx
                                    ELSE [@ EXCEPT !.pc = "locked", !.keys = found]]
  /\ UNCHANGED <<jobs, nextEvent, nextJob, recorded, before, rollbacks>>

(* The loop over the locked rows, in id order, and the commit.  A plain      *)
(* event whose key has a live job by now stays pending; an ordered one is    *)
(* enqueued into its stream, where a live job of the same key absorbs it.    *)
Inserted(d) == {k \in tx[d].keys : ~LiveJob(k)}

Sent(d) == Inserted(d) \cup (tx[d].keys \cap Ordered)

JobFor(k, d) ==
  nextJob + Cardinality({i \in Inserted(d) : event[i].id < event[k].id})

Dispatch(d) ==
  /\ tx[d].pc = "locked"
  /\ nextJob + Cardinality(Inserted(d)) <= MaxJobs + 1
  /\ jobs' = [j \in JobIds |->
                IF \E k \in Inserted(d) : JobFor(k, d) = j
                THEN LET k == CHOOSE k \in Inserted(d) : JobFor(k, d) = j
                     IN  [state |-> "queued", key |-> k, version |-> event[k].version]
                ELSE jobs[j]]
  /\ nextJob' = nextJob + Cardinality(Inserted(d))
  /\ event' = [k \in Keys |->
                 IF event[k].holder = d
                 THEN [event[k] EXCEPT !.sent = k \in Sent(d), !.holder = NoOne]
                 ELSE event[k]]
  /\ tx' = [tx EXCEPT ![d] = NoTx]
  /\ UNCHANGED <<nextEvent, recorded, before, rollbacks>>

-----------------------------------------------------------------------------
(* cancel: SELECT ... FOR UPDATE on the event, which waits for a dispatch in *)
(* progress; the jobs; the event; the commit.                                *)
(* Mistake: the cancellation starts with the jobs.                           *)
CancelUnlocked(c, k) ==
  /\ tx[c].pc = "idle"
  /\ tx' = [tx EXCEPT ![c] = [pc |-> "cancelling", keys |-> {k}, id |-> event[k].id,
                              version |-> event[k].version]]
  /\ UNCHANGED <<event, jobs, nextEvent, nextJob, recorded, before, rollbacks>>

CancelLock(c, k) ==
  /\ tx[c].pc = "idle"
  /\ event[k].id = 0 \/ Free(k)
  /\ event' = IF event[k].id = 0 THEN event ELSE [event EXCEPT ![k].holder = c]
  /\ tx' = [tx EXCEPT ![c] = [pc |-> "cancelling", keys |-> {k}, id |-> event[k].id,
                              version |-> event[k].version]]
  /\ UNCHANGED <<jobs, nextEvent, nextJob, recorded, before, rollbacks>>

CancelJobs(c) ==
  /\ tx[c].pc = "cancelling"
  /\ jobs' = [j \in JobIds |->
                IF jobs[j].key \in tx[c].keys /\ jobs[j].state \in {"queued", "retrying"}
                THEN [jobs[j] EXCEPT !.state = "cancelled"] ELSE jobs[j]]
  /\ tx' = [tx EXCEPT ![c].pc = "jobs deleted"]
  /\ UNCHANGED <<event, nextEvent, nextJob, recorded, before, rollbacks>>

CancelCommit(c) ==
  /\ tx[c].pc = "jobs deleted"
  /\ \A k \in tx[c].keys : Pending(k) => event[k].holder \in {c, NoOne}
  /\ event' = [k \in Keys |->
                 IF k \in tx[c].keys /\ Pending(k)
                 THEN [id |-> 0, version |-> 0, sent |-> FALSE, holder |-> NoOne]
                 ELSE Unlocked(c)[k]]
  /\ tx' = [tx EXCEPT ![c] = NoTx]
  /\ UNCHANGED <<jobs, nextEvent, nextJob, recorded, before, rollbacks>>

(* Mistake: a failed transaction leaves its row locks behind.                *)
RollbackHoldingLocks(p) ==
  /\ tx[p].pc \in {"recorded", "selected", "locked", "cancelling"}
  /\ rollbacks < MaxRollbacks
  /\ rollbacks' = rollbacks + 1
  /\ tx' = [tx EXCEPT ![p] = NoTx]
  /\ UNCHANGED <<event, jobs, nextEvent, nextJob, recorded, before>>

(* A process dies or loses its connection: its locks are gone, its writes    *)
(* never happened.                                                           *)
Rollback(p) ==
  /\ tx[p].pc \in {"recorded", "selected", "locked", "cancelling"}
  /\ rollbacks < MaxRollbacks
  /\ rollbacks' = rollbacks + 1
  /\ event' = Unlocked(p)
  /\ tx' = [tx EXCEPT ![p] = NoTx]
  /\ UNCHANGED <<jobs, nextEvent, nextJob, recorded, before>>

-----------------------------------------------------------------------------
(* The worker slots, as far as the outbox can see them.                      *)
Move(j, from, to) ==
  /\ jobs[j].state \in from
  /\ jobs' = [jobs EXCEPT ![j].state = to]
  /\ UNCHANGED <<event, tx, nextEvent, nextJob, recorded, before, rollbacks>>

Claim(j) == Move(j, {"queued", "retrying"}, "running")

(* Acknowledged or dead-lettered: the key is free either way.                *)
Finish(j) == Move(j, {"running"}, "finished")

RetryOrExpire(j) == Move(j, {"running"}, "retrying")

DispatcherStep(d) == Select(d) \/ IdleTick(d) \/ Lock(d) \/ Dispatch(d)

CancellerStep(c) == CancelJobs(c) \/ CancelCommit(c)

Next ==
  \/ \E w \in Writers : (\E k \in Keys : Record(w, k)) \/ CommitRecord(w)
  \/ \E d \in Dispatchers : DispatcherStep(d)
  \/ \E c \in Cancellers : (\E k \in Cancellable : CancelLock(c, k)) \/ CancellerStep(c)
  \/ \E p \in Procs : Rollback(p)
  \/ \E j \in JobIds : Claim(j) \/ Finish(j) \/ RetryOrExpire(j)

Spec == Init /\ [][Next]_vars

(* Open transactions end; every scheduler ticks; a slot takes each job and   *)
(* does not fail it for ever, since its attempts are bounded.                *)
Fairness ==
  /\ \A w \in Writers : WF_vars(CommitRecord(w))
  /\ \A d \in Dispatchers : SF_vars(Select(d)) /\ WF_vars(Lock(d)) /\ WF_vars(Dispatch(d))
  /\ \A c \in Cancellers : WF_vars(CancelJobs(c)) /\ WF_vars(CancelCommit(c))
  /\ \A j \in JobIds : WF_vars(Claim(j)) /\ SF_vars(Finish(j))

FairSpec == Spec /\ Fairness

-----------------------------------------------------------------------------
(* The types, and that a row is locked by an open transaction that names it. *)
TypeOK ==
  /\ event \in [Keys -> Event]
  /\ \A k \in Keys : event[k].holder # NoOne => k \in tx[event[k].holder].keys
  /\ jobs \in [JobIds -> Job]
  /\ tx \in [Procs -> Tx]
  /\ nextEvent \in Nat \ {0} /\ nextJob \in 1 .. MaxJobs + 1
  /\ recorded \in [Keys -> 0 .. MaxVersions]
  /\ before \in [Keys -> SUBSET Ordered]
  /\ rollbacks \in 0 .. MaxRollbacks

(* "Transactional enqueue with database writes" (v1-scope.md): the payload a *)
(* dispatched row holds is the payload of a job, never a later one that was  *)
(* recorded while an older job of the key was in the queue.                  *)
NothingLost ==
  \A k \in Keys :
    event[k].id # 0 /\ event[k].sent =>
      \E j \in JobIds : jobs[j].key = k /\ jobs[j].version = event[k].version

(* Deliveries to one inbox enter its stream in causal order: a delivery      *)
(* recorded after another was committed is not dispatched before it, however *)
(* many schedulers dispatch.                                                 *)
InboxOrder ==
  \A k \in Ordered : \A i \in before[k] :
    LiveJob(k) \/ event[k].sent => ~Pending(i)

(* The comment in cancel: a cancellation ordered after a dispatch in         *)
(* progress removes the job it just created.  No job of what the cancelled   *)
(* event held is left to be claimed for the first time.                      *)
CancelIsFinal ==
  [][\A c \in Cancellers :
       tx[c].pc = "jobs deleted" /\ tx'[c].pc = "idle" =>
         \A j \in JobIds :
           jobs'[j].state = "queued" /\ jobs'[j].key \in tx[c].keys
             => jobs'[j].version > tx[c].version]_vars

(* Every committed event leaves the outbox, by a dispatch or a cancellation, *)
(* also when its key was dead-lettered before or its dispatcher died.        *)
EveryEventLeaves == \A k \in Keys : Pending(k) ~> ~Pending(k)
=============================================================================
