---------------------------- MODULE DurableQueue ----------------------------
(***************************************************************************)
(* The table rustodon.durable_jobs, the operations of jobs.rs on it, and   *)
(* the worker slots of worker.rs that claim a job, run its handler, renew  *)
(* the lease, and acknowledge, retry or dead-letter it.                    *)
(*                                                                         *)
(* Time is abstracted to its two observable effects on a row: its run_at   *)
(* passes and its lease_expires_at passes.  Every SQL                      *)
(* statement of jobs.rs on one row is one action.  Deleted rows stay in    *)
(* the table as history, with status "done" or "cancelled".                *)
(***************************************************************************)
EXTENDS Naturals, FiniteSets

CONSTANTS
  Workers,      (* lease owners: the slots of every worker process          *)
  Keys,         (* (kind, logical_key) pairs                                *)
  Streams,      (* ordering keys                                            *)
  NoStream,     (* "enqueue" without an ordering key                        *)
  StreamOf,     (* the stream a key's jobs are enqueued in, or NoStream     *)
  NoWorker,     (* lease_owner IS NULL                                      *)
  NoKey,        (* the key of a row that was never inserted                 *)
  MaxAttempts,  (* max_attempts of every job                                *)
  MaxJobs,      (* bound: rows ever inserted                                *)
  MaxFaults     (* bound: crashes and lease lapses under a live worker      *)

ASSUME QueueAssumption ==
  /\ StreamOf \in [Keys -> Streams \cup {NoStream}]
  /\ NoStream \notin Streams
  /\ NoWorker \notin Workers
  /\ MaxAttempts \in Nat \ {0}
  /\ MaxJobs \in Nat
  /\ MaxFaults \in Nat

VARIABLES
  jobs,     (* rustodon.durable_jobs                                        *)
  nextId,   (* the id sequence                                              *)
  marker,   (* rustodon.ordering_markers: the last job id of each stream    *)
  worker,   (* what each slot holds between its statements                  *)
  ran,      (* history: jobs whose handler has succeeded                    *)
  faults    (* history: faults so far, for the bound                        *)

vars == <<jobs, nextId, marker, worker, ran, faults>>

JobIds == 1 .. MaxJobs

Row == [status : {"absent", "live", "dead", "done", "cancelled"},
        key : Keys \cup {NoKey}, stream : Streams \cup {NoStream}, pred : 0 .. MaxJobs,
        runAt : {"future", "past"}, lease : {"none", "live", "expired"},
        owner : Workers \cup {NoWorker}, gen : Nat, attempts : 0 .. MaxAttempts]

NoRow == [status |-> "absent", key |-> NoKey,
          stream |-> NoStream, pred |-> 0, runAt |-> "future", lease |-> "none",
          owner |-> NoWorker, gen |-> 0, attempts |-> 0]

Slot == [phase : {"idle", "running", "succeeded", "failed", "rejected"},
         job : 0 .. MaxJobs, gen : Nat, attempt : 0 .. MaxAttempts]

Idle == [phase |-> "idle", job |-> 0, gen |-> 0, attempt |-> 0]

Live(j) == jobs[j].status = "live"

Leased(j) == jobs[j].lease = "live"

(* The fence every acknowledgement, renewal and argument update carries.     *)
Holds(w) ==
  LET j == worker[w].job
  IN  /\ j # 0
      /\ Live(j) /\ Leased(j)
      /\ jobs[j].owner = w /\ jobs[j].gen = worker[w].gen

(* A lease nobody renews any more.                                           *)
Orphaned(j) == \A w \in Workers : ~(worker[w].job = j /\ Holds(w))

-----------------------------------------------------------------------------
Init ==
  /\ jobs = [j \in JobIds |-> NoRow]
  /\ nextId = 1
  /\ marker = [s \in Streams |-> 0]
  /\ worker = [w \in Workers |-> Idle]
  /\ ran = {}
  /\ faults = 0

(* enqueue and enqueue_ordered.  The partial unique index keeps one live job *)
(* per key: a duplicate returns the existing row, and an ordered duplicate   *)
(* rewrites the marker with that row's id.                                   *)
LiveWith(k) == {j \in JobIds : Live(j) /\ jobs[j].key = k}

SetMarker(s, id) ==
  marker' = IF s = NoStream THEN marker ELSE [marker EXCEPT ![s] = id]

EnqueueDuplicate(k) ==
  /\ \E j \in LiveWith(k) : SetMarker(StreamOf[k], j)
  /\ UNCHANGED <<jobs, nextId, worker, ran, faults>>

NewRow(k) ==
  [status |-> "live", key |-> k, stream |-> StreamOf[k],
   pred |-> IF StreamOf[k] = NoStream THEN 0 ELSE marker[StreamOf[k]],
   runAt |-> "future", lease |-> "none", owner |-> NoWorker, gen |-> 0,
   attempts |-> 0]

EnqueueNew(k) ==
  /\ LiveWith(k) = {}
  /\ nextId <= MaxJobs
  /\ jobs' = [jobs EXCEPT ![nextId] = NewRow(k)]
  /\ nextId' = nextId + 1
  /\ SetMarker(StreamOf[k], nextId)
  /\ UNCHANGED <<worker, ran, faults>>

(* cancel: only unleased rows and rows whose lease has expired.              *)
Cancel(k) ==
  \E j \in LiveWith(k) :
    /\ ~Leased(j)
    /\ jobs' = [jobs EXCEPT ![j].status = "cancelled", ![j].lease = "none",
                            ![j].owner = NoWorker]
    /\ UNCHANGED <<nextId, marker, worker, ran, faults>>

(* The maintenance job deletes an expired marker once its stream is idle.    *)
PruneMarker(s) ==
  /\ marker[s] # 0
  /\ ~Live(marker[s])
  /\ \A j \in JobIds : Live(j) => jobs[j].stream # s
  /\ marker' = [marker EXCEPT ![s] = 0]
  /\ UNCHANGED <<jobs, nextId, worker, ran, faults>>

-----------------------------------------------------------------------------
(* Time passes.                                                              *)
BecomeDue(j) ==
  /\ Live(j) /\ jobs[j].runAt = "future"
  /\ jobs' = [jobs EXCEPT ![j].runAt = "past"]
  /\ UNCHANGED <<nextId, marker, worker, ran, faults>>

LeaseExpires(j) ==
  /\ Live(j) /\ Leased(j)
  /\ jobs' = [jobs EXCEPT ![j].lease = "expired"]
  /\ UNCHANGED <<nextId, marker, worker, ran>>

(* Mistake: the lease of a slot that died is never considered expired.       *)
ExpireNever(j) == FALSE /\ LeaseExpires(j) /\ UNCHANGED faults

ExpireOrphan(j) == Orphaned(j) /\ LeaseExpires(j) /\ UNCHANGED faults

(* A slot that stalls or loses the database past its lease.                  *)
ExpireStalled(j) ==
  ~Orphaned(j) /\ faults < MaxFaults /\ LeaseExpires(j) /\ faults' = faults + 1

-----------------------------------------------------------------------------
(* claim.  SKIP LOCKED may pass over any row that another statement holds,   *)
(* so any candidate may come first in the order by run_at and id.            *)
(* Mistake: a predecessor that waits for its next attempt blocks nobody.      *)
BlockedByRunning(j) ==
  jobs[j].pred # 0 /\ Live(jobs[j].pred) /\ Leased(jobs[j].pred)

Blocked(j) ==
  \/ /\ jobs[j].pred # 0
     /\ Live(jobs[j].pred)
     /\ jobs[jobs[j].pred].stream \in {NoStream, jobs[j].stream}
  \/ \E i \in JobIds :
       /\ i < j /\ Live(i)
       /\ jobs[j].stream # NoStream /\ jobs[i].stream = jobs[j].stream

Candidates == {j \in JobIds : Live(j) /\ jobs[j].runAt = "past" /\ ~Leased(j) /\ ~Blocked(j)}

(* Mistake: the last attempt is counted past max_attempts.                   *)
UnboundedAttempt(j) == jobs[j].attempts + 1

NextAttempt(j) ==
  IF jobs[j].attempts < MaxAttempts THEN jobs[j].attempts + 1
                                    ELSE jobs[j].attempts

(* Mistake: a reclaim keeps the generation of the lease it takes over.       *)
ClaimSameGeneration(w, j) ==
  /\ worker[w] = Idle
  /\ j \in Candidates
  /\ jobs' = [jobs EXCEPT ![j].attempts = NextAttempt(j),
                          ![j].gen = IF @ = 0 THEN 1 ELSE @,
                          ![j].owner = w, ![j].lease = "live"]
  /\ worker' = [worker EXCEPT ![w] =
                  [phase |-> "running", job |-> j, gen |-> jobs'[j].gen,
                   attempt |-> NextAttempt(j)]]
  /\ UNCHANGED <<nextId, marker, ran, faults>>

Claim(w, j) ==
  /\ worker[w] = Idle
  /\ j \in Candidates
  /\ jobs' = [jobs EXCEPT ![j].attempts = NextAttempt(j), ![j].gen = @ + 1,
                          ![j].owner = w, ![j].lease = "live"]
  /\ worker' = [worker EXCEPT ![w] =
                  [phase |-> "running", job |-> j, gen |-> jobs[j].gen + 1,
                   attempt |-> NextAttempt(j)]]
  /\ UNCHANGED <<nextId, marker, ran, faults>>

(* A slot that finds nothing sleeps for the poll interval.                   *)
IdlePoll(w) == worker[w] = Idle /\ Candidates = {} /\ UNCHANGED vars

(* The handler future resolves; a stale handler may still do so.             *)
HandlerEnds(w, outcome) ==
  /\ worker[w].phase = "running"
  /\ worker' = [worker EXCEPT ![w].phase = outcome]
  /\ ran' = IF outcome = "succeeded" THEN ran \cup {worker[w].job} ELSE ran
  /\ UNCHANGED <<jobs, nextId, marker, faults>>

HandlerSucceeds(w) == HandlerEnds(w, "succeeded")

HandlerFails(w) == HandlerEnds(w, "failed")

(* A permanent failure, an unknown kind, or a handler of another lane.       *)
HandlerRejects(w) == HandlerEnds(w, "rejected")

(* A renewal tick that finds the fence lost drops the handler future.  A     *)
(* renewal that succeeds keeps the lease live and changes nothing else.      *)
LoseLease(w) ==
  /\ worker[w].phase = "running" /\ ~Holds(w)
  /\ worker' = [worker EXCEPT ![w] = Idle]
  /\ UNCHANGED <<jobs, nextId, marker, ran, faults>>

-----------------------------------------------------------------------------
(* Mistake: the update names the row by id and forgets owner and generation. *)
SettleUnfenced(w, phase, row) ==
  /\ worker[w].phase = phase
  /\ worker' = [worker EXCEPT ![w] = Idle]
  /\ jobs' = IF Live(worker[w].job)
             THEN [jobs EXCEPT ![worker[w].job] = row] ELSE jobs
  /\ UNCHANGED <<nextId, marker, ran, faults>>

(* The last statement of process_one: a fenced update or delete that         *)
(* changes no row when the fence is lost.                                    *)
Settle(w, phase, row) ==
  /\ worker[w].phase = phase
  /\ worker' = [worker EXCEPT ![w] = Idle]
  /\ jobs' = IF Holds(w) THEN [jobs EXCEPT ![worker[w].job] = row] ELSE jobs
  /\ UNCHANGED <<nextId, marker, ran, faults>>

Released(w, status) ==
  [jobs[worker[w].job] EXCEPT !.status = status, !.lease = "none",
                              !.owner = NoWorker]

(* Mistake: the job is acknowledged before its handler is awaited.           *)
CompleteEarly(w) == Settle(w, "running", Released(w, "done"))

Complete(w) == Settle(w, "succeeded", Released(w, "done"))

DeadLetter(w) == Settle(w, "rejected", Released(w, "dead"))

Retry(w) ==
  Settle(w, "failed",
         IF worker[w].attempt >= MaxAttempts
         THEN Released(w, "dead")
         ELSE [Released(w, "live") EXCEPT !.runAt = "future"])

(* The process dies, or its shutdown deadline aborts the slot, or the last   *)
(* statement fails: the slot forgets its job and the row keeps its lease.    *)
Crash(w) ==
  /\ worker[w] # Idle
  /\ faults < MaxFaults
  /\ worker' = [worker EXCEPT ![w] = Idle]
  /\ faults' = faults + 1
  /\ UNCHANGED <<jobs, nextId, marker, ran>>

-----------------------------------------------------------------------------
Finishes(w) ==
  \/ HandlerSucceeds(w) \/ HandlerFails(w) \/ HandlerRejects(w)
  \/ LoseLease(w)
  \/ Complete(w) \/ DeadLetter(w) \/ Retry(w)

Next ==
  \/ \E k \in Keys : EnqueueNew(k) \/ EnqueueDuplicate(k) \/ Cancel(k)
  \/ \E s \in Streams : PruneMarker(s)
  \/ \E j \in JobIds : BecomeDue(j) \/ ExpireOrphan(j) \/ ExpireStalled(j)
  \/ \E w \in Workers : \E j \in JobIds : Claim(w, j)
  \/ \E w \in Workers : Finishes(w) \/ Crash(w) \/ IdlePoll(w)

Spec == Init /\ [][Next]_vars

(* Slots poll, handlers are bounded by their own deadlines, and time passes. *)
(* Nothing is assumed of the callers of enqueue and cancel or of faults.     *)
Fairness ==
  /\ \A w \in Workers : WF_vars(Finishes(w))
  /\ WF_vars(\E w \in Workers, j \in JobIds : Claim(w, j))
  /\ WF_vars(\E j \in JobIds : BecomeDue(j) \/ ExpireOrphan(j))

FairSpec == Spec /\ Fairness

-----------------------------------------------------------------------------
TypeOK ==
  /\ jobs \in [JobIds -> Row]
  /\ nextId \in 1 .. MaxJobs + 1
  /\ marker \in [Streams -> 0 .. MaxJobs]
  /\ worker \in [Workers -> Slot]
  /\ \A w \in Workers : worker[w].phase = "idle" <=> worker[w].job = 0
  /\ ran \subseteq JobIds
  /\ faults \in 0 .. MaxFaults

(* Two slots never hold the same fence: however leases lapse and jobs are    *)
(* reclaimed, the pair (job, generation) names at most one execution.        *)
TokensUnique ==
  \A v, w \in Workers :
    worker[v].job # 0 /\ worker[v].job = worker[w].job
      /\ worker[v].gen = worker[w].gen => v = w

(* claim's promise to a stream: once a member was ever started, every        *)
(* earlier member has left the queue, whatever retries, cancellations of     *)
(* links in the middle, crashes and marker pruning happened in between.      *)
StreamFenced ==
  \A i, j \in JobIds :
    /\ i < j /\ jobs[i].stream = jobs[j].stream
    /\ jobs[j].stream # NoStream /\ jobs[j].gen > 0
    => ~Live(i)

(* process_one discards what a slot did under a lease it lost: no step of    *)
(* such a slot changes the row, which by then may be another slot's.         *)
StaleSlotsAreHarmless ==
  [][\A w \in Workers :
       worker[w].job # 0 /\ ~Holds(w) /\ worker'[w] # worker[w] => UNCHANGED jobs]_vars

(* The queue keeps the promises of JobStream: nothing is lost, nothing is    *)
(* done before its handler succeeded, streams start in order, outcomes are   *)
(* final.                                                                    *)
JobOutcome(j) == IF jobs[j].status = "live" THEN "pending" ELSE jobs[j].status

Service ==
  INSTANCE JobStream WITH
    state <- [j \in JobIds |-> JobOutcome(j)],
    stream <- [j \in JobIds |-> jobs[j].stream],
    started <- {j \in JobIds : jobs[j].gen > 0},
    performed <- ran

KeepsPromises == Service!Spec

(* Retries, blocked streams and leases of dead slots never strand a job:     *)
(* while faults are finite, every job leaves the queue.                      *)
EveryJobResolves == \A j \in JobIds : Live(j) ~> ~Live(j)

(* v1-scope.md lists "Retry limits" and dead letters for "exhausted          *)
(* attempts": no job would be executed more often than its max_attempts.     *)
ExecutionsBounded == \A j \in JobIds : jobs[j].gen <= MaxAttempts
=============================================================================
