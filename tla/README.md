# Rustodon in TLA+

Rustodon serves a Mastodon database from Rust: a web process, a worker process
with six lanes (ingress, core, push, pull, mail, maintenance), and PostgreSQL
between them.  Almost everything that is hard in it happens between
transactions: jobs under leases, an outbox, ordered streams, a streaming log,
and handlers that read, decide and write in separate snapshots.  This directory
models those parts and the files that have to agree with the database, checks
them with TLC, and proves with TLAPS, for instances of any size, every safety
property the passing runs check.

Paths below are relative to `src/` of the repository.

## 1. Inventory

| Component | Code | State | Operations |
|---|---|---|---|
| Durable queue | `src/jobs.rs` | `durable_jobs`: run_at, attempts, lease owner, expiry and generation, dead_at | enqueue (plain, ordered, once, exact, if idle), claim, renew, complete, retry, dead_letter, cancel, argument updates |
| Worker slots | `src/worker.rs` | the claimed job and handler future of each slot | process_one, run_until_shutdown, scheduler ticks |
| Inbox acceptance | `src/web/federation.rs`, `enqueue_ordered_once` | `idempotency_keys`, `ordering_markers` | POST to an inbox, maintenance prune |
| Outbox | `src/jobs.rs` | `outbox_events` | record_outbox_in, record_outbox_once_in, dispatch_outbox, cancel |
| Status updates | `write_repository.rs`, `worker/push.rs`, `worker/delivery.rs` | versions of status and poll, distribution events and jobs, recorded deliveries | vote, edit, expire, distribute, repair, deliver |
| Streaming | `src/jobs.rs`, `streaming.rs`, `web/stream_socket.rs` | stream rows of `outbox_events`, cursors of each connection | collect, stage, flush, prune; connect, subscribe, replay, poll |
| Poll expiration | `worker/poll_expiration.rs`, `src/jobs.rs`, `write_repository/remote_note.rs` | activation and effect markers, intents, reconciliation job, watermark | record an intent, expire, reconcile, start-up repair |
| Quotes | `worker/delivery.rs`, `write_repository.rs` | quotes, pending requests and decisions | request, approve, revoke, deliver under a lease fence |
| Rate limits | `web/rate_limit.rs` | `rate_limit_windows` | check several windows at once |
| Activity statistics | `src/activity.rs` | day buckets, members, cache | record, prune, report |
| Local files | `web/media.rs`, `worker/local_uploads.rs`, `write_repository/local_uploads.rs`, `write_repository/moderation.rs`, `worker.rs` | `media_attachments`, `local_uploads`, the files, cleanup intents, purge manifests | upload, process, recover, attach, delete, clean up, suspend, reinstate, purge |
| Domain health, remote fetch leases | `worker/delivery.rs`, `src/remote.rs` | counters, leases | success, failure, acquire |
| Web API, OAuth, repository, media, mail, bootstrap | remaining files | Mastodon's tables | requests |

How they interact: every business transaction that has a consequence elsewhere
writes an outbox row in the same transaction.  Schedulers turn outbox rows into
jobs; slots claim jobs and run handlers; handlers open transactions of their
own, which write outbox rows again.  The inbox skips the outbox and enqueues
its job directly, under the marker of the sending actor.  Stream events are
outbox rows no scheduler touches; streaming connections poll them by id.

What is hard: two slots on one job after a lease lapsed; order within a stream
under retries, cancellations and pruning; SKIP LOCKED next to ON CONFLICT; the
idempotency key, the marker and the job in one transaction; a payload recorded
again while its predecessor runs; a handler that reads a status and its poll in
different snapshots; a cursor next to uncommitted rows; a file system that no
transaction covers; intents recorded once for ever for a date that can move.
`PROJECT.json` lists
each hazard at its line with the properties that would catch it.

What makes each part correct:

- Queue: an accepted job is never lost; it is finished only after its handler
  succeeded; one fence names one execution; a stream starts in order; a stale
  slot changes nothing; every job resolves.
- Inbox: 202 means queued; a repeated delivery is queued once; a different body
  under a known id is refused; no two handlers of one actor overlap.
- Outbox: what is marked dispatched is a job; deliveries leave in causal order;
  a cancellation is final; every event leaves.
- Status updates: every inbox ends with the current text and tally.
- Poll expiration: the end that is announced is the poll's own, to all or to
  nobody, never for a poll that was over before, and in the end always.
- Local files: every file is named by a row somebody will act on; a published
  attachment has its files; an accepted upload has its input; in the end nothing
  else is left.
- Streaming: ids appear in commit order; a subscription misses nothing and
  repeats nothing; a revoked token receives nothing.

## 2. Modules

| Module | Models | Composition |
|---|---|---|
| `JobStream` | what the queue promises, without leases, attempts and crashes | abstract specification |
| `DurableQueue` | `durable_jobs`, the SQL of `jobs.rs` on it and the loop of `process_one` | implements `JobStream` |
| `DurableQueueProofs` | theorems about `DurableQueue` | extends it |
| `OrderedEnqueue` | `enqueue_ordered_once`, statement by statement, against claim, complete and prune | implements `JobStream` |
| `OrderedEnqueueProofs` | theorems about `OrderedEnqueue` | extends it |
| `Outbox` | recording, dispatching and cancelling events as transactions with row locks | uses the queue's promise as its jobs |
| `OutboxProofs` | theorems about `Outbox` | extends it |
| `StatusUpdates` | vote, edit, expiration, distribution, repair and delivery | uses Outbox and DurableQueue through their promises |
| `StatusUpdatesProofs` | theorems about `StatusUpdates` | extends it |
| `PollExpiration` | the generations of one poll: votes, edits, jobs, reconciliation | uses Outbox and DurableQueue through their promises |
| `PollExpirationProofs` | theorems about `PollExpiration` | extends it |
| `LocalFiles` | rows, files and jobs of the attachments of one local account | uses Outbox and DurableQueue through their promises |
| `LocalFilesProofs` | theorems about `LocalFiles` | extends it |
| `StreamLog` | the transactions that write stream events, the order lock, the prune | |
| `StreamLogProofs` | theorems about `StreamLog` | extends it |
| `StreamSession` | one streaming connection | extends `StreamLog`, whose steps interleave with its own |
| `StreamSessionProofs` | theorems about `StreamSession` | extends it and `StreamLogProofs` |

The `*MC` modules give the constants of a small instance their values.

### DurableQueue

One record per row of `durable_jobs`.  Time is reduced to what a query can see
of it: `run_at` is "future" or "past", a lease is "none", "live" or "expired".
`BecomeDue`, `ExpireOrphan` and `ExpireStalled` are time passing; the last
consumes the fault budget because the slot that owns the lease is still there.
A deleted row stays as history, as "done" or "cancelled".

| Action | Code |
|---|---|
| `EnqueueNew`, `EnqueueDuplicate` | `enqueue_in`, `enqueue_ordered_kind_in` (committed at once; `OrderedEnqueue` takes them apart) |
| `Cancel` | `Queue::cancel`, job rows |
| `PruneMarker` | `rustodon.maintenance.prune` |
| `Claim`, `IdlePoll` | `Queue::claim`; any candidate may be first because SKIP LOCKED may pass over any row |
| `HandlerSucceeds`, `HandlerFails`, `HandlerRejects` | the handler future of `process_one`; rejection covers an unknown kind and a wrong lane |
| `LoseLease` | a renewal that changes no row, which drops the future; a renewal that succeeds only keeps the lease live |
| `Complete`, `Retry`, `DeadLetter` | the fenced last statement; lost fence, no row |
| `Crash` | process death, abort at the shutdown deadline, failed last statement |

The handler of a slot that lost its lease keeps running until it ends or until
the next renewal tick, so a late effect of a stale handler is a behaviour of
the model; `JobStream` allows it (`Perform` may happen at any later time), so
`KeepsPromises` says nothing of how late an effect is.  What a late handler may do
is a question to its component: `RunLate` of `PollExpiration` (`NoticeIsDue`) and the
processor of `LocalFiles` (`ReadyIsComplete`) follow one.

### OrderedEnqueue

The two statements that open an ordered enqueue, the insert, the upsert and the
commit are separate actions.  READ COMMITTED and row locks are modelled as
follows: an uncommitted row is invisible; a statement that would wait is not
enabled; ON CONFLICT DO NOTHING waits for an uncommitted insert or delete but
passes a row that is merely locked; SELECT FOR UPDATE sees no row when it is
gone.  The idempotency insert locks the key row until the end.  `nextId` is not
rewound by a rollback.  `PruneRaces` says whether the prune may commit in the
gap between the first two statements.

### Outbox

A transaction is a program counter plus the rows it holds.  `Select` is the
snapshot of `dispatch_outbox`, `Lock` the rows it then gets with SKIP LOCKED and
the recheck of `dispatched_at`, `Dispatch` the loop and the commit.  Plain keys
are upserted with a new version; ordered keys, the ActivityPub deliveries, are
recorded once.  A job claims, retries and finishes (or is dead-lettered)
without further detail.

### StatusUpdates

A version is the pair (`edited_at` of the status, `updated_at` of the poll).  A
ballot takes the poll's row, looks for a pending event, looks for active jobs
FOR SHARE, and records a follow-up or relies on what is on its way.  A
distribution reads the status, then the poll's version, decides, then reads the
tally, then records one delivery per inbox under a key; a delivery reads status
and poll and posts, or records a repair.  All reads are separate steps.  The
dispatch is one action here, since `Outbox` shows what its steps come to, and
deliveries of one inbox are a queue, since `Outbox` and `DurableQueue` show
their order.

Left out: interaction-policy and quote updates, deletion of the status,
deliveries that are dead-lettered (a remote inbox that refuses for ever has no
claim to the current version) and the post of a handler that lost its lease
(the receiving server orders by version; the queue promises at least once).

### PollExpiration

A generation is an expiry the poll has had; `event`, `job`, `effect` and `pass`
are indexed by it.  Two keys of one generation can have jobs at the same time
("initial" or "reschedule" and "repair"), and `late` are handlers that outlived
their lease.  Every transaction that decides about the poll holds its row lock,
reads the clock after it, and is one action; `reconcile_poll_expiration` does not
take that lock and is two, `Inspect` for the marker and `Repair` for events and
jobs, on the snapshot `Scan` took.

| Action | Code |
|---|---|
| `Vote` | `vote_poll`, the first ballot of an account here |
| `EditOpen`, `EditClosed`, `Reshape` | `upsert_remote_poll`: the same options before and after the end with somebody waiting; other options |
| `Remove` | `reconcile_remote_poll` without a poll, deletion of the status |
| `Activate` | `ensure_poll_expiration_activation`, before the slots start |
| `DispatchOutbox`, `Claim`, `Complete`, `LoseLease`, `Fail` | the outbox and the queue |
| `Run`, `RunLate` | the handler: `expire_poll_generation`, `finalize_poll_expiration_generation_in` |
| `Scan`, `Inspect`, `Repair`, `Interrupt` | one candidate of a reconciliation pass |

A poll of before the worker has ballots and no intent.  A local poll keeps its
expiry.  `told` stands for the notification events and the final Update, whose
keys are recorded once for ever.  Not modelled: cursors, pages and continuation
segments of a pass, its singleton and its lease at startup, rows under the keys
of older versions with the two actions that move them earlier, malformed
markers, and the notification job.

A voter of a remote poll can still miss its end, in a way the model shows and
the properties leave out: the poll is announced, the author's server removes the
expiry, somebody votes, and the same expiry is set again; its marker is there
already.  A ballot on a poll that was reopened after its end is not announced
either (`remote_past_expiry_suppressed`), as the code intends.

### LocalFiles

`section` is the holder of the account's advisory lock (`with_account_lock`)
and the step it has reached; one account, so one section.  Database commits and
writes to the file system are separate steps, and every operation can end after
any of them: a request is aborted, an execution fails and is retried, a process
dies.  Processing runs outside the lock and the lease is lost or kept there;
`working` are executions that do not hold the lock.

| Action | Code |
|---|---|
| `StageImage`, `WriteOutput`, `PublishImage` | `media_create` |
| `StageRich`, `WriteRaw`, `AcceptUpload` | `media_create_rich` |
| `ClaimUpload`, `RegisterOutputs`, `ClearOutputs`, `WriteOutput`, `PublishUpload`, `AbandonUpload` | `process_with`, in three sections |
| `CleanupLocked`, `CleanupFails` | `cleanup_locked`, which opens each section and closes the last |
| `EnterRecover`, `Recover` | `recover`, one row |
| `Attach`, `DeleteStatus` | creation and deletion of a status, without the account lock |
| `DeleteMedia`, `CleanMedia`, `CleanMediaFails` | `media_delete`, `process_local_media_cleanup_job` |
| `Suspend`, `Unsuspend` | `set_account_suspension`, with its purge event and job |
| `CollectManifest`, `PurgeDatabase`, `UnlinkManifest`, `PurgeFails` | `process_account_purge_job` |

An attachment has two output files and a rich upload an input.  File names derive
from contents, so a retry writes the same names.  A purge's 30 days are over when
its job is claimed.  A cleanup that follows a failed response of `media_create`
is a `DeleteMedia` after it.  A processor that is unavailable or times out is a
claim that returns at once; what may happen meanwhile happens around an execution
that is prepared and then fails.  Not modelled: thumbnails, avatars and headers,
statuses a report protects, scans longer than a page, domain purges, dead letters
of cleanup and purge jobs, and file work that goes on after the lock's own
connection is lost.

### StreamLog

A transaction of the write repository is a script of five kinds of steps; what
else it does to Mastodon's tables is left out.  The theorems hold for all scripts;
`StreamSessionMC` has four, shortened from the code:

| Script | Code | Steps |
|---|---|---|
| `CreateStatus` | creation of a status | collect the timeline event, flush |
| `CreateNotification` | `create_notification` | record the notification, then lock the conversation |
| `SuspendAccount` | account suspension in `moderation.rs` | collect a delete, push the kill event, flush |
| `PurgeDomain` | `process_domain_purge_job` | collect the deletes of one account, lock and record a conversation of another, flush |

| Action | Code |
|---|---|
| `LockRow` | SELECT ... FOR UPDATE of rows that several transactions want, such as `account_conversations` |
| `Collect` | a push to the Vec, which `stage_stream_events_if_large_in` follows except for kill events |
| `Record`, `Refused` | `record_stream_event_for_audience_in`, without and with staged rows |
| `Flush` | `flush_stream_events_in`, `flush_staged_stream_events_in` |
| `TakeOrder` | `lock_stream_event_order`, a lock of the transaction |
| `Commit`, `Fail`, `BreakDeadlock` | the ends of a transaction; PostgreSQL resolves a cycle of two |
| `Prune` | `prune_stream_history` |

Ids come from a sequence that is not rewound.  Staged rows belong to one
transaction and are no log rows.  Logical keys are unique here, so ON CONFLICT
never applies.  A transaction fails after its first step; one that fails earlier
is one that did not run.

### StreamSession

The task of a connection is sequential; each of its reads of the database is an
action, and any step of the writers or of the prune may fall between two of them
(`Others`).  `Authenticate`, `ReadCursor`, `AuthenticateAgain` are the upgrade;
`Subscribe`, `Denied` or `ReadThrough`, `Replay` are `streaming_subscribe`;
`PollSystem`, `PollPending` are the two reads of a poll tick.

An event is a "create" (it enters a route), a "delete" (any transition of a
timeline that enters none), a "notice" (an event of the connection's account) or
a "kill" (of the account or the token).  Every timeline event matches every
timeline, so which route an event takes is not checked.  The two replay reserves of
`stream_replay_events_for_subscription`, for deletes and for other transitions,
are one.  `sent` and `since` are history: the frames of a subscription, and the
rows committed before its duty began.  For the first subscription of a
connection the duty begins with the cursor of the connection, for others with
the subscribe command.  Of the two cursors neither bounds the other: a poll tick
moves `system` before `cursor`, and a prune between two ticks leaves it behind.

## 3. Runs

Bounds are constants; each is named at its declaration.

| Run | Instance | Shows |
|---|---|---|
| `queue` | 2 slots, 3 keys (2 of one stream), 2 jobs, 2 attempts, 2 faults | `TypeOK`, `TokensUnique`, `StreamFenced`, `StaleSlotsAreHarmless`, `KeepsPromises`, `EveryJobResolves` |
| `queue_bounded` | 1 job, 3 faults | violates `ExecutionsBounded` |
| `enqueue` | 2 requests, 2 activities, 2 bodies, 3 ids, 1 abort, 1 prune outside the gap | `TypeOK`, `AcceptedIsQueued`, `OneLiveJob`, `StreamSerial`, `KeepsPromises`, `EveryRequestAnswered` |
| `enqueue_pruned` | the same with `PruneRaces` | violates `StreamSerial` |
| `outbox` | 2 writers, 2 schedulers, 1 canceller, 1 plain key, 2 deliveries to one inbox, 1 rollback | `TypeOK`, `NothingLost`, `InboxOrder`, `CancelIsFinal` |
| `outbox_liveness` | 1 writer, 1 scheduler, 1 rollback | `EveryEventLeaves` |
| `status_updates` | 2 slots, 1 inbox, 1 edit, 2 poll changes, 5 jobs | `TypeOK`, `NoVersionForgotten`, `OneFollowUp` |
| `status_updates_liveness` | the same with 1 fault and 2 changes or faults in all | `Converges` |
| `poll_expiration` | 1 voter, 2 expiries, 1 attempt, 2 edits, 1 fault, a local and a remote poll, new and old | `TypeOK`, `HistoryIsSilent`, `EveryoneIsTold`, `NoticeIsDue`, `EveryPollCloses` |
| `local_files` | 1 attachment of either kind, 2 attempts, 1 fault, 2 suspensions | `TypeOK`, `NothingOrphaned`, `ReadyIsComplete`, `AcceptedHasInput`, `FilesSettle` |
| `stream_session` | 2 writing connections, the 4 scripts, stages of 2 events, 1 failure, 1 prune; 1 session with 1 timeline and the account's stream, 2 subscribe commands, polls of 2 events, a reserve of 1 | `TypeOK`, `SentInOrder`, `NothingSkipped`, `CreationsAreNew`, `NothingAfterKill`, `KillIsAhead`, `CommitOrder` |
| `stream_refused` | the purge alone | violates `RecordsAreAccepted` |

Why the bounds are enough.  Two slots are needed for a fence to be wrong, two
attempts for a retry and an exhausted job, two jobs for a stream whose second
member waits while the first is retried, cancelled or reclaimed; what a stream
with a middle link adds is left to the theorems.  Two requests are needed for a race on a key or a marker.  Two schedulers
and two deliveries are needed for an overtaking.  Two poll changes and one edit
are needed for a follow-up behind a leased job whose snapshot is stale and for a
repair of a repair.  Two writers are needed for a commit out of order and for a
deadlock; polls of two events next to four in the log leave the cursor of the
connection behind the baseline of a subscription; the second subscribe command
follows an unsubscribe or names the other stream.  Two expiries are needed for
a poll that moves, two edits for one that comes back, one attempt for a dead
letter, and the voter, the owner and the servers that follow are the three kinds
of recipients.  Attachments share nothing but the account, its purge and the
lock, so one shows every race of its own operations; two suspensions are needed
for a purge job that outlives its request.  Symmetry is used for
writers, schedulers and deliveries, in runs without liveness properties.
Deadlock is checked except in `poll_expiration` and `local_files`, where a
finished poll or an emptied account has nothing left to do, and in
the two stream runs, where scripts are finite and
the one connection ends: a state in which both are over is an end.  Transactions
that wait for each other cannot hide there, since PostgreSQL's resolution is an
action.

## 4. Fairness

- Slots poll, and every handler is bounded by its own deadline: weak fairness of
  claiming and of finishing.  Leases and `run_at` pass: weak fairness of time.
  Nothing is assumed of the callers of enqueue and cancel, and faults are finite.
- Open transactions end and PostgreSQL grants a row lock to whoever has waited
  longest: strong fairness of statements in `OrderedEnqueue`.
- Each scheduler ticks: strong fairness of `Select`, since other transactions
  may hold the rows at any one tick.  A job does not fail for ever, its attempts
  are bounded: strong fairness of `Finish`.
- The worker starts, time passes, events are dispatched, due jobs are claimed,
  handlers and reconciliation steps end, and the maintenance tick starts one
  pass after another: weak fairness.  Nobody has to vote or edit.
- An operation that holds the account lock ends, and jobs, recovery and the hour
  come: weak fairness.  Whoever waits for the lock gives up after ten seconds and
  is retried, so entering it has strong fairness.  Nobody has to upload, delete,
  suspend or reinstate.
- An inbox that is tried again and again answers: strong fairness of `Posted`.
  Nobody has to vote or edit.

## 5. Proofs

Every invariant and every action property of the passing runs is the subject of
a theorem, and so are both refinements.  Each proof has the shape of its
component: a lemma about `Init`, one about each action, the invariance of the
inductive invariant, and the theorems that follow from it.  In the lists below a
property in brackets is the one the theorem states.

### The queue

`DurableQueueProofs` proves, for all sets of slots, keys and streams and all
bounds (assumption `QueueAssumption` of `DurableQueue`):

- `TypeCorrect`, `FencesAreUnique`, `StreamsInOrder`: the three invariants of
  `queue`;
- `StaleSlotsHarmless`: the action property;
- `QueueKeepsPromises`: `DurableQueue` implements `JobStream`.

The inductive invariant `QueueInv` is `TypeOK /\ AbsentInv /\ TokenInv /\
TokensUnique /\ StreamFenced`.  Uniqueness of tokens is not inductive alone: a
slot might hold a generation the row has not reached yet and a claim could hand
it out a second time.  `TokenInv` bounds what a slot holds by the row's
generation.  `StreamFenced` is not inductive alone either: a row that is inserted
later must have a larger id than every started one, which is `AbsentInv`.  The
refinement maps each action to a step of `JobStream` or a stutter: a claim to
`Start`, a success to `Perform`, a fenced acknowledgement to `Finish`, `GiveUp`
or nothing.

### The ordered enqueue

`OrderedEnqueueProofs` (assumption `EnqueueAssumption`):

- `TypeCorrect`, `NothingAcceptedIsLost` [`AcceptedIsQueued`], `AcceptedOnce`
  [`OneLiveJob`], whether or not a prune falls into the gap;
- `ActorsAreSerial` [`StreamSerial`] and `EnqueueKeepsPromises` [`KeepsPromises`],
  both under `~PruneRaces`.

The hypothesis `~PruneRaces` is a real one: the code does not establish it, and
`enqueue_pruned` shows `StreamSerial` violated without it (section 6).  The
theorems say that nothing else can violate it.

The proof has two inductive invariants.  `EnqueueInv` says what each request holds
between its statements (`RequestInv`), that ids come from the sequence (`JobsInv`)
and that a retained key stands for a job and a live job for its key (`KeysInv`);
without the last, a repetition of an activity that is still queued could be
queued next to it.  `SerialInv` adds that a request that
is going to take an id has the marker (`MarkerInv`), and that next to an
uncommitted id its stream has no later one, and next to a live id no later
one that is running (`OrderInv`).  `MarkerInv` is the part a prune in the gap breaks.

### The outbox

`OutboxProofs` (assumption `OutboxAssumption`, with finitely many keys):

- `TypeCorrect`, `DispatchedIsQueued` [`NothingLost`], `InboxInOrder`
  [`InboxOrder`], `CancellationIsFinal` [`CancelIsFinal`].

`OutboxInv` follows a transaction from statement to statement: a locked row names
its transaction (`HolderInv`), and what a statement found stays true until the
next one uses it (`TxInv`).  `InboxOrder` speaks of jobs, but order is decided by
the ids of events: `IdInv` gives each id to one key, counting those a transaction
has taken and not committed, `BeforeInv` gives the earlier delivery the lower id
and lets nobody record it again, and `ChosenInv` says that what a scheduler is
about to dispatch has no earlier delivery waiting, however long ago it selected.
A dispatch takes job ids in the order of event ids, and without a gap (`Ranks`).
`CountInv` bounds the sequence by the rows recorded, which only the type of ids
needs.

### Status updates

`StatusUpdatesProofs` (assumption `UpdatesAssumption`):

- `TypeCorrect`, `VotesAreCoalesced` [`OneFollowUp`], `NothingIsForgotten`
  [`NoVersionForgotten`].

`NoVersionForgotten` says nothing before the system is at rest, so all the work is
in `UpdatesInv`, which says at every moment who will see to the current version.
Once a repair of the current version has been recorded, `RepairInv`: the repair is
on its way, or each inbox has the version or a delivery of it.  Before that,
`CoverInv`: some pending event or some job is useful, that is, reads the current
version when it runs and then records a repair or deliveries nobody has recorded
(`Useful`, `Fresh`), or each inbox has the version or a delivery that will be
compared with it (`Waiting`).  A vote that relies on a job keeps `CoverInv` only
because that job cannot be claimed before the vote commits: `VoteInv`, which also
gives `OneInv`, the arithmetic-free form of `OneFollowUp`.  The rest excludes
what would spoil it: keys of versions that were not committed (`KnownInv`), a slot
with the arguments of another job (`SlotInv`), a delivery posted though it is
older than what the inbox saw (`InboxInv`).

### Local files

`LocalFilesProofs` (assumption `LocalFilesAssumption`):

- `TypeCorrect`, `EveryFileIsClaimed` [`NothingOrphaned`], `ShownFilesExist`
  [`ReadyIsComplete`], `AcceptedInputExists` [`AcceptedHasInput`].

`LocalInv` has three parts.  `SectionInv` is what the operation that holds the
account lock relies on at each of its steps; `SectionKept` shows that the steps
without the lock leave it alone.  `FilesInv` and `RowsInv` relate the files of
an upload to its row, its owner and its intents.  `Claimed` is stronger than what
`NothingOrphaned` asks: a manifest counts only as long as its job will not be
skipped, since otherwise a reinstatement would turn a claimed file into an
orphan.  That needs `PurgesInv`: what the account, the job and each execution
of a purge know of each other, over several suspensions and a lost lease.

### The stream log

`StreamLogProofs` proves, for any writers, rows, scripts and bounds (assumption
`StreamLogAssumption`):

- `LogInvariant`: `LogTypeOK` and `OrderHeld` in every state;
- `LogIsOrdered`: `CommitOrder`, the action property of `stream_session`.

`CommitOrder` says something of one step, the commit; that the rows of that step
are behind the committed ones was settled when their ids were taken.
`OrderHeld` carries it there: only the holder of the order lock has uncommitted
rows, so nobody else can commit rows in between, and all ids taken are below
`nextId`.  `LogTypeOK` adds that a lock belongs to an open transaction, which is
what a lock that outlives its transaction would break.

### The streaming session

`StreamSessionProofs` (the assumption of the log and `StreamSessionAssumption`), for
any timelines, account streams, batch and replay sizes:

- `SessionsOnlyRead`: a behaviour of `StreamSession` is one of `StreamLog`, so
  `CommitsAreOrdered` [`CommitOrder`] follows from the proof about the log;
- `TypeCorrect`, `SubscriptionsAreOrdered` [`SentInOrder`], `HandoffIsLossless`
  [`NothingSkipped`], `OnlyNewIsAnnounced` [`CreationsAreNew`],
  `RevokedGetsNothing` [`NothingAfterKill`], `RevocationIsFound` [`KillIsAhead`].

`SessionInv` is `LogInv` and six conjuncts besides the properties.  The central one
is `CursorsInv`: no cursor is ahead of what was committed.  With `OrderHeld` of the
log, what is committed later is ahead of every cursor, so a read by id misses
nothing.  `DutyInv` says which rows a connection or a subscription in progress has
to send, as a comparison of ids; `SentInv` says that what was sent is behind the
cursor or the baseline of its subscription; `KillsInv` that neither cursor has
passed a kill event.

### The end of a poll

`PollExpirationProofs` proves, for any voters, expiries, delay and bounds
(assumption `PollExpirationAssumption`: expiries are positive and within the
clock's bound, a job has at least one attempt):

- `TypeCorrect`, `HistoryStaysSilent` [`HistoryIsSilent`] and `ToldTogether`
  [`EveryoneIsTold`];
- `NoticesAreDue` [`NoticeIsDue`], an action property.

The inductive invariant `PollInv` adds three conjuncts to `TypeOK`,
`HistoryIsSilent` and `EveryoneIsTold`.  The activation may turn any expiry into
history, so nothing may have been carried out before it: `Dormant`.  A vote adds
somebody who has to be told, so the announcement must not have been made while
votes were still accepted: `AnnouncedIsOver`, with `LocalHasExpiry`, since a poll
without an expiry accepts them for ever.  A step that announces is a handler, on
time or late, or an edit after the end; `ExpireStep` and `EditClosedStep` treat
both through one lemma about a finalization, which is all their common code.

### Model-checked only

The liveness properties: `EveryJobResolves`, `EveryRequestAnswered`,
`EveryEventLeaves`, `Converges`, `EveryPollCloses` and `FilesSettle`.  The prover
does not reason about fairness.  The three runs that expect a violation are
about the code as it is and have no theorem.

## 6. Findings

- `queue_bounded`: retry limits bound failures, not executions.  A job whose
  last attempt ends with its slot is claimed again with `attempts` at its
  maximum (`src/jobs.rs:1331`), and only `retry` compares the two.  A job that
  kills its worker is executed for ever and never becomes a dead letter, which
  `docs/v1-scope.md:300-305` promises.
- `enqueue_pruned`: `enqueue_ordered_kind_in` opens with INSERT DO NOTHING,
  which does not lock an existing marker (`src/jobs.rs:2241`).  If the prune
  deletes the marker before the SELECT FOR UPDATE that follows, the id is
  allocated without the lock the comment at `src/jobs.rs:1303` relies on, and
  two activities of one actor can be processed at once.  The window is one
  statement wide, after thirty idle days.  `record_member_in` of
  `src/activity.rs` has the same pair of statements inside a loop that closes it.
- `stream_refused`: `record_stream_event_in` is an error in a transaction that has
  staged events: the flush writes the new event together with the staged ones but
  returns no id, and `pop()` is None (`src/jobs.rs:2807`).  A domain purge of two
  accounts, the first with 256 events or more and the second in a conversation
  with a surviving status, fails in this way at every retry.

Not settled by a run:

- `DEVLOG.md:3537-3540` says of the account purge that "failures retain the
  manifest for a lease-fenced retry".  Once the database purge has committed and
  an unlink has failed, `admin unsuspend-account` deletes the waiting purge job
  and its manifest (`write_repository.rs:10396`, from `moderation.rs:747`); a job
  that is leased at that moment ends as `Skipped` (`moderation.rs:983`).  The rows
  are gone, so nothing names the files any more and they stay for ever.  The
  variable `dropped` of `LocalFiles` records exactly these media, and
  `NothingOrphaned` fails without its exemption.
- `DEVLOG.md:1569` says that large transactions take the
  stream order lock only immediately before they commit, but a purge records
  conversation events on its way (`write_repository.rs:6216`) and holds the
  lock from then on.

## 7. Plan

1. `DurableQueue`, `JobStream`, proofs (done).
2. `OrderedEnqueue`, `Outbox`, `StatusUpdates` (done).
3. `StreamLog`, its proofs, and `StreamSession` (done).
4. `LocalFiles`: uploads, manifests and purges (done).
5. `PollExpiration`: the effect of a generation (done).
6. Proofs of the safety properties of all of them (done).
7. `QuoteDelivery`: the lease fence held during the POST, the renewal that waits
   for it, and the lock timeout.
8. `RateLimit` and `ActivityBuckets`: time read before waiting.

Not planned: request parsing, serialization, media and SMTP, which are I/O or
sequential code without shared state of their own.
