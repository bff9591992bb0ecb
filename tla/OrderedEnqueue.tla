--------------------------- MODULE OrderedEnqueue ---------------------------
(***************************************************************************)
(* The transaction by which the inbox accepts one signed activity:         *)
(* enqueue_ordered_once of jobs.rs, statement by statement, with the row   *)
(* locks and READ COMMITTED visibility of PostgreSQL it relies on, next to *)
(* other requests, the claiming worker slots and the maintenance prune.    *)
(*                                                                         *)
(* A statement that would wait for another transaction is not enabled.     *)
(* Writes of an open transaction are kept apart from what is committed.    *)
(***************************************************************************)
EXTENDS Naturals, FiniteSets

CONSTANTS
  Requests,     (* concurrent HTTP requests to an inbox                     *)
  Activities,   (* logical keys of deliveries                               *)
  Bodies,       (* fingerprints of request bodies                           *)
  Deliveries,   (* the (activity, body) pairs that remote servers post      *)
  Streams,      (* ordering keys: the sending actors                        *)
  StreamOf,     (* the actor of an activity                                 *)
  NoOne, NoActivity, NoBody, NoStream,
  Pruner,       (* the transaction of rustodon.maintenance.prune            *)
  MaxJobs,      (* bound: job ids ever allocated                            *)
  MaxPrunes,    (* bound: markers ever pruned                               *)
  PruneRaces,   (* whether a prune may delete a marker between the first    *)
                (* two statements of a request of its stream                *)
  MaxAborts     (* bound: transactions that fail                            *)

ASSUME EnqueueAssumption ==
  /\ StreamOf \in [Activities -> Streams]
  /\ Deliveries \subseteq Activities \X Bodies
  /\ NoStream \notin Streams /\ NoBody \notin Bodies /\ NoOne \notin Requests \cup {Pruner}
  /\ Pruner \notin Requests
  /\ PruneRaces \in BOOLEAN /\ MaxJobs \in Nat /\ MaxPrunes \in Nat /\ MaxAborts \in Nat

VARIABLES
  req,       (* the program counter and locals of each request              *)
  key,       (* rustodon.idempotency_keys                                   *)
  marker,    (* rustodon.ordering_markers                                   *)
  jobs,      (* rustodon.durable_jobs                                       *)
  nextId,    (* the id sequence, which no rollback rewinds                  *)
  accepted,  (* history: deliveries answered with 202 Accepted              *)
  pruned, aborts   (* history, for the bounds                               *)

vars == <<req, key, marker, jobs, nextId, accepted, pruned, aborts>>

JobIds == 1 .. MaxJobs

Request ==
  [pc : {"idle", "key", "marker", "lock", "insert", "upsert", "commit"},
   act : Activities \cup {NoActivity}, body : Bodies \cup {NoBody},
   pred : 0 .. MaxJobs, id : 0 .. MaxJobs]

NoRequest == [pc |-> "idle", act |-> NoActivity, body |-> NoBody, pred |-> 0, id |-> 0]

(* holder: the open transaction that inserted, locked or deleted the row.    *)
(* dirty: it changed the row, so that even ON CONFLICT DO NOTHING waits.     *)
Marker == [exists : BOOLEAN, last : 0 .. MaxJobs,
           holder : Requests \cup {NoOne, Pruner}, dirty : BOOLEAN]

Key == [body : Bodies \cup {NoBody}, holder : Requests \cup {NoOne}]

Job == [state : {"free", "uncommitted", "rolled back", "pending", "running",
                "performed", "done"},
        act : Activities \cup {NoActivity}, body : Bodies \cup {NoBody},
        stream : Streams \cup {NoStream}, pred : 0 .. MaxJobs]

Live(j) == jobs[j].state \in {"pending", "running", "performed"}

StreamOfReq(r) == StreamOf[req[r].act]

Goto(r, next) == req' = [req EXCEPT ![r].pc = next]

-----------------------------------------------------------------------------
Init ==
  /\ req = [r \in Requests |-> NoRequest]
  /\ key = [a \in Activities |-> [body |-> NoBody, holder |-> NoOne]]
  /\ marker = [s \in Streams |-> [exists |-> FALSE, last |-> 0,
                                  holder |-> NoOne, dirty |-> FALSE]]
  /\ jobs = [j \in JobIds |-> [state |-> "free", act |-> NoActivity, body |-> NoBody,
                               stream |-> NoStream, pred |-> 0]]
  /\ nextId = 1
  /\ accepted = {}
  /\ pruned = 0 /\ aborts = 0

(* A verified POST to an inbox.                                              *)
Receive(r, a, b) ==
  /\ req[r].pc = "idle"
  /\ req' = [req EXCEPT ![r] = [NoRequest EXCEPT !.pc = "key", !.act = a, !.body = b]]
  /\ UNCHANGED <<key, marker, jobs, nextId, accepted, pruned, aborts>>

(* Mistake: a racing delivery does not wait for the uncommitted key.         *)
FreshKeyUnlocked(r) ==
  LET a == req[r].act
  IN  /\ req[r].pc = "key"
      /\ key[a].body = NoBody
      /\ key' = [key EXCEPT ![a].holder = r]
      /\ Goto(r, "marker")
      /\ UNCHANGED <<marker, jobs, nextId, accepted, pruned, aborts>>

(* INSERT INTO idempotency_keys ... ON CONFLICT DO UPDATE WHERE expired: an  *)
(* unexpired row is compared by fingerprint and answered without a job.      *)
FreshKey(r) ==
  LET a == req[r].act
  IN  /\ req[r].pc = "key"
      /\ key[a] = [body |-> NoBody, holder |-> NoOne]
      /\ key' = [key EXCEPT ![a].holder = r]
      /\ Goto(r, "marker")
      /\ UNCHANGED <<marker, jobs, nextId, accepted, pruned, aborts>>

KnownKey(r) ==
  LET a == req[r].act
  IN  /\ req[r].pc = "key"
      /\ key[a].holder = NoOne /\ key[a].body # NoBody
      /\ accepted' = IF key[a].body = req[r].body
                     THEN accepted \cup {<<a, req[r].body>>} ELSE accepted
      /\ req' = [req EXCEPT ![r] = NoRequest]
      /\ UNCHANGED <<key, marker, jobs, nextId, pruned, aborts>>

(* INSERT INTO ordering_markers ... ON CONFLICT DO NOTHING takes no lock on  *)
(* a committed row.                                                          *)
InsertMarker(r) ==
  LET s == StreamOfReq(r)
  IN  /\ req[r].pc = "marker"
      /\ \/ /\ marker[s].exists /\ ~marker[s].dirty
            /\ UNCHANGED marker
         \/ /\ ~marker[s].exists /\ marker[s].holder = NoOne
            /\ marker' = [marker EXCEPT ![s].holder = r, ![s].dirty = TRUE]
      /\ Goto(r, "lock")
      /\ UNCHANGED <<key, jobs, nextId, accepted, pruned, aborts>>

(* Mistake: the predecessor is read without FOR UPDATE.                      *)
ReadMarker(r) ==
  LET s == StreamOfReq(r)
  IN  /\ req[r].pc = "lock"
      /\ req' = [req EXCEPT ![r].pc = "insert", ![r].pred = marker[s].last]
      /\ UNCHANGED <<key, marker, jobs, nextId, accepted, pruned, aborts>>

(* Mistake: the id of a marker that has none is used as a predecessor.       *)
LockMarkerNull(r) ==
  LET s == StreamOfReq(r)
      m == marker[s]
  IN  /\ req[r].pc = "lock"
      /\ m.holder \in {NoOne, r}
      /\ marker' = [marker EXCEPT ![s].holder = IF m.exists THEN r ELSE @]
      /\ req' = [req EXCEPT ![r].pc = "insert", ![r].pred = IF m.exists THEN m.last ELSE NoOne]
      /\ UNCHANGED <<key, jobs, nextId, accepted, pruned, aborts>>

(* SELECT ... FROM ordering_markers ... FOR UPDATE.  A row that is gone, or  *)
(* that another transaction inserted and has not committed, is not seen: the *)
(* statement returns no row and locks nothing.                               *)
LockMarker(r) ==
  LET s == StreamOfReq(r)
      m == marker[s]
  IN  /\ req[r].pc = "lock"
      /\ \/ m.holder = r /\ UNCHANGED marker
         \/ /\ m.exists /\ m.holder = NoOne
            /\ marker' = [marker EXCEPT ![s].holder = r]
         \/ ~m.exists /\ m.holder # r /\ UNCHANGED marker
      /\ req' = [req EXCEPT ![r].pc = "insert", ![r].pred = IF m.exists THEN m.last ELSE 0]
      /\ UNCHANGED <<key, jobs, nextId, accepted, pruned, aborts>>

(* INSERT INTO durable_jobs.  The row is invisible until the commit.         *)
InsertJob(r) ==
  /\ req[r].pc = "insert"
  /\ nextId <= MaxJobs
  /\ jobs' = [jobs EXCEPT ![nextId] =
                [state |-> "uncommitted", act |-> req[r].act, body |-> req[r].body,
                 stream |-> StreamOfReq(r), pred |-> req[r].pred]]
  /\ req' = [req EXCEPT ![r].pc = "upsert", ![r].id = nextId]
  /\ nextId' = nextId + 1
  /\ UNCHANGED <<key, marker, accepted, pruned, aborts>>

(* INSERT INTO ordering_markers ... ON CONFLICT DO UPDATE.                   *)
UpsertMarker(r) ==
  LET s == StreamOfReq(r)
  IN  /\ req[r].pc = "upsert"
      /\ marker[s].holder \in {r, NoOne}
      /\ marker' = [marker EXCEPT ![s].holder = r, ![s].dirty = TRUE]
      /\ Goto(r, "commit")
      /\ UNCHANGED <<key, jobs, nextId, accepted, pruned, aborts>>

(* Mistake: the idempotency key is committed before the job.                 *)
CommitKeyOnly(r) ==
  /\ req[r].pc = "commit"
  /\ key' = [key EXCEPT ![req[r].act] = [body |-> req[r].body, holder |-> NoOne]]
  /\ marker' = [marker EXCEPT ![StreamOfReq(r)].holder = NoOne]
  /\ jobs' = [jobs EXCEPT ![req[r].id].state = "rolled back"]
  /\ accepted' = accepted \cup {<<req[r].act, req[r].body>>}
  /\ req' = [req EXCEPT ![r] = NoRequest]
  /\ UNCHANGED <<nextId, pruned, aborts>>

Commit(r) ==
  /\ req[r].pc = "commit"
  /\ key' = [key EXCEPT ![req[r].act] = [body |-> req[r].body, holder |-> NoOne]]
  /\ marker' = [marker EXCEPT ![StreamOfReq(r)] =
                  [exists |-> TRUE, last |-> req[r].id,
                   holder |-> NoOne, dirty |-> FALSE]]
  /\ jobs' = [jobs EXCEPT ![req[r].id].state = "pending"]
  /\ accepted' = accepted \cup {<<req[r].act, req[r].body>>}
  /\ req' = [req EXCEPT ![r] = NoRequest]
  /\ UNCHANGED <<nextId, pruned, aborts>>

(* Mistake: a failed transaction leaves its row locks behind.                *)
AbortHoldingLocks(r) ==
  /\ req[r].pc # "idle"
  /\ aborts < MaxAborts \/ (req[r].pc = "insert" /\ nextId > MaxJobs)
  /\ aborts' = IF aborts < MaxAborts THEN aborts + 1 ELSE aborts
  /\ req' = [req EXCEPT ![r] = NoRequest]
  /\ UNCHANGED <<key, marker, jobs, nextId, accepted, pruned>>

(* The request is cancelled or the database fails: everything but the        *)
(* sequence is rolled back, and the sender will deliver again.               *)
Abort(r) ==
  /\ req[r].pc # "idle"
  /\ aborts < MaxAborts \/ (req[r].pc = "insert" /\ nextId > MaxJobs)
  /\ aborts' = IF aborts < MaxAborts THEN aborts + 1 ELSE aborts
  /\ key' = [a \in Activities |-> IF key[a].holder = r THEN [key[a] EXCEPT !.holder = NoOne]
                                                       ELSE key[a]]
  /\ marker' = [s \in Streams |-> IF marker[s].holder = r
                                  THEN [marker[s] EXCEPT !.holder = NoOne, !.dirty = FALSE]
                                  ELSE marker[s]]
  /\ jobs' = [j \in JobIds |-> IF j = req[r].id THEN [jobs[j] EXCEPT !.state = "rolled back"]
                                                ELSE jobs[j]]
  /\ req' = [req EXCEPT ![r] = NoRequest]
  /\ UNCHANGED <<nextId, accepted, pruned>>

-----------------------------------------------------------------------------
(* claim and complete, as far as they concern ordering.                      *)
Step(j, from, to) ==
  /\ jobs[j].state = from
  /\ jobs' = [jobs EXCEPT ![j].state = to]
  /\ UNCHANGED <<req, key, marker, nextId, accepted, pruned, aborts>>

Start(j) ==
  /\ \A i \in JobIds : i < j /\ jobs[i].stream = jobs[j].stream => ~Live(i)
  /\ jobs[j].pred # 0 => ~Live(jobs[j].pred)
  /\ Step(j, "pending", "running")

Perform(j) == Step(j, "running", "performed")

Complete(j) == Step(j, "performed", "done")

(* Thirty days pass.  A job is assumed to be resolved within that time.      *)
KeyExpires(a) ==
  /\ key[a].body # NoBody /\ key[a].holder = NoOne
  /\ \A j \in JobIds : Live(j) => jobs[j].act # a
  /\ key' = [key EXCEPT ![a].body = NoBody]
  /\ UNCHANGED <<req, marker, jobs, nextId, accepted, pruned, aborts>>

(* DELETE FROM ordering_markers of the prune, which commits after the other  *)
(* deletions of the same script.  The marker of an idle stream may be thirty *)
(* days old; a request that wrote it meanwhile has renewed expires_at.       *)
PruneMarker(s) ==
  /\ marker[s].exists /\ pruned < MaxPrunes /\ marker[s].holder = NoOne
  /\ \A j \in JobIds : Live(j) => jobs[j].stream # s /\ j # marker[s].last
  /\ PruneRaces \/ \A r \in Requests : req[r].pc = "lock" => StreamOfReq(r) # s
  /\ marker' = [marker EXCEPT ![s].holder = Pruner, ![s].dirty = TRUE]
  /\ UNCHANGED <<req, key, jobs, nextId, accepted, pruned, aborts>>

PruneCommit(s) ==
  /\ marker[s].holder = Pruner
  /\ marker' = [marker EXCEPT ![s] = [exists |-> FALSE, last |-> 0,
                                      holder |-> NoOne, dirty |-> FALSE]]
  /\ pruned' = pruned + 1
  /\ UNCHANGED <<req, key, jobs, nextId, accepted, aborts>>

-----------------------------------------------------------------------------
Statement(r) ==
  \/ FreshKey(r) \/ KnownKey(r) \/ InsertMarker(r) \/ LockMarker(r)
  \/ InsertJob(r) \/ UpsertMarker(r) \/ Commit(r) \/ Abort(r)

Next ==
  \/ \E r \in Requests, d \in Deliveries : Receive(r, d[1], d[2])
  \/ \E r \in Requests : Statement(r)
  \/ \E j \in JobIds : Start(j) \/ Perform(j) \/ Complete(j)
  \/ \E a \in Activities : KeyExpires(a)
  \/ \E s \in Streams : PruneMarker(s) \/ PruneCommit(s)

Spec == Init /\ [][Next]_vars

(* PostgreSQL executes statements and grants a row lock to whoever waits     *)
(* longest, so a request is not overtaken for ever.                          *)
Fairness ==
  /\ \A r \in Requests : SF_vars(Statement(r))
  /\ \A s \in Streams : WF_vars(PruneCommit(s))

FairSpec == Spec /\ Fairness

-----------------------------------------------------------------------------
TypeOK ==
  /\ req \in [Requests -> Request]
  /\ key \in [Activities -> Key]
  /\ marker \in [Streams -> Marker]
  /\ jobs \in [JobIds -> Job]
  /\ nextId \in 1 .. MaxJobs + 1
  /\ accepted \subseteq Activities \X Bodies
  /\ pruned \in Nat /\ aborts \in 0 .. MaxAborts

(* Nothing is answered with 202 that was not queued with exactly the body    *)
(* that was posted, whichever of several racing deliveries won and whichever *)
(* transactions were rolled back.                                            *)
AcceptedIsQueued ==
  \A d \in accepted :
    \E j \in JobIds :
      jobs[j].act = d[1] /\ jobs[j].body = d[2] /\ (Live(j) \/ jobs[j].state = "done")

(* While the idempotency key of an activity is retained, racing and repeated *)
(* deliveries of it have produced one live job at most.                      *)
OneLiveJob ==
  \A i, j \in JobIds : Live(i) /\ Live(j) /\ jobs[i].act = jobs[j].act => i = j

(* The comment on claim: ids are allocated under the stream's marker lock,   *)
(* so handlers of one actor's activities never overlap.                      *)
StreamSerial ==
  \A i, j \in JobIds :
    {jobs[i].state, jobs[j].state} \subseteq {"running", "performed"}
      /\ jobs[i].stream = jobs[j].stream => i = j

(* Ordered enqueue, seen at its commits, implements JobStream.               *)
JobOutcome(j) ==
  CASE jobs[j].state \in {"free", "uncommitted", "rolled back"} -> "absent"
    [] Live(j) -> "pending"
    [] OTHER -> "done"

Service ==
  INSTANCE JobStream WITH
    state <- [j \in JobIds |-> JobOutcome(j)],
    stream <- [j \in JobIds |-> IF JobOutcome(j) = "absent" THEN NoStream ELSE jobs[j].stream],
    started <- {j \in JobIds : jobs[j].state \in {"running", "performed", "done"}},
    performed <- {j \in JobIds : jobs[j].state \in {"performed", "done"}}

KeepsPromises == Service!Spec

(* Row locks are always taken in the order key, marker, job: no request      *)
(* waits for ever.                                                           *)
EveryRequestAnswered == \A r \in Requests : req[r].pc # "idle" ~> req[r].pc = "idle"
=============================================================================
