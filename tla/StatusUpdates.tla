---------------------------- MODULE StatusUpdates ----------------------------
(***************************************************************************)
(* How the current version of a local status with a poll reaches remote    *)
(* inboxes: votes, edits and the expiration of the poll record             *)
(* distribution events (write_repository.rs), distribution jobs snapshot   *)
(* the status and record one delivery per inbox (worker/push.rs), and a    *)
(* delivery that is no longer current is replaced by a repair              *)
(* (worker/delivery.rs).  No two reads of a handler share a snapshot.      *)
(*                                                                         *)
(* A version is the pair of edited_at of the status and updated_at of the  *)
(* poll, each counted from zero.  Deliveries of one inbox are made in the  *)
(* order they were recorded, as modules Outbox and DurableQueue show.      *)
(***************************************************************************)
EXTENDS Naturals, Sequences, FiniteSets, FiniteSetsExt

CONSTANTS
  Inboxes,    (* inboxes of the followers                                   *)
  Slots,      (* worker slots that run distribution jobs                    *)
  MaxEdits, MaxPolls,   (* bounds: edits; votes and the expiration          *)
  MaxTrouble, (* bound: all of them and the faults together                 *)
  MaxJobs,    (* bound: distribution jobs ever inserted                     *)
  MaxFaults   (* bound: crashed and stalled slots                           *)

ASSUME UpdatesAssumption ==
  {MaxEdits, MaxPolls, MaxTrouble, MaxJobs, MaxFaults} \subseteq Nat

VARIABLES
  current,   (* the committed version                                       *)
  vote,      (* the one transaction that holds the poll's row lock          *)
  event,     (* outbox rows of kind activitypub.distribute_status           *)
  jobs,      (* durable jobs of that kind                                   *)
  slot,      (* what each slot has read so far                              *)
  queue,     (* the recorded deliveries of each inbox that are left to make *)
  keys,      (* logical keys of all deliveries ever recorded                *)
  post,      (* what the delivery at the head of each queue has read        *)
  seen,      (* the version of the last activity each inbox received        *)
  faults     (* history, for the bound                                      *)

vars == <<current, vote, event, jobs, slot, queue, keys, post, seen, faults>>

Edits == 0 .. MaxEdits

Polls == 0 .. MaxPolls

JobIds == 1 .. MaxJobs

Version == [edit : Edits, poll : Polls]

Trouble == current.edit + current.poll + faults < MaxTrouble

CanEdit == current.edit < MaxEdits /\ Trouble

CanChangePoll == current.poll < MaxPolls /\ Trouble

CanFail == faults < MaxFaults /\ Trouble

(* Logical keys.  PollKey(0) is the base key, PollKey(j) its ":after:j".     *)
PollKey(j) == <<"poll", j, 0>>

EditKey(e) == <<"status", e, 0>>

ExpiredKey == <<"expired", 0, 0>>

RepairKey(e, p) == <<"repair", e, p>>

PollFamily == {PollKey(j) : j \in 0 .. MaxJobs}

EventKeys ==
  PollFamily \cup {EditKey(e) : e \in Edits} \cup {ExpiredKey}
    \cup {RepairKey(e, p) : e \in Edits, p \in Polls}

NoEvent == [state |-> "none", edit |-> 0, poll |-> 0]

SentEvent == [NoEvent EXCEPT !.state = "sent"]

Pending(k) == event[k].state = "pending"

NewEvent(e, p) == [state |-> "pending", edit |-> e, poll |-> p]

(* record_outbox_once_in.                                                    *)
RecordOnce(k, e, p) ==
  event' = IF event[k].state = "none" THEN [event EXCEPT ![k] = NewEvent(e, p)] ELSE event

NoJob == [state |-> "none", key |-> PollKey(0), edit |-> 0, poll |-> 0, gen |-> 0]

DoneJob == [NoJob EXCEPT !.state = "done"]

Live(j) == jobs[j].state \in {"queued", "leased"}

PollJobs == {j \in JobIds : Live(j) /\ jobs[j].key \in PollFamily}

NoVote == [pc |-> "idle", job |-> 0, events |-> {}, jobs |-> {}]

(* spec: the arguments of the claimed job.  edit, poll, tally: what was read.*)
IdleSlot ==
  [pc |-> "idle", job |-> 0, gen |-> 0, spec |-> NoJob, edit |-> 0, poll |-> 0, tally |-> 0]

Init ==
  /\ current = [edit |-> 0, poll |-> 0]
  /\ vote = NoVote
  /\ event = [k \in EventKeys |-> NoEvent]
  /\ jobs = [j \in JobIds |-> NoJob]
  /\ slot = [s \in Slots |-> IdleSlot]
  /\ queue = [i \in Inboxes |-> <<>>]
  /\ keys = {}
  /\ post = [i \in Inboxes |-> [pc |-> "idle", edit |-> 0]]
  /\ seen = [i \in Inboxes |-> [edit |-> 0, poll |-> 0]]
  /\ faults = 0

-----------------------------------------------------------------------------
(* vote_poll and its federated twin.  The ballot locks the poll's row; then  *)
(* record_poll_update_distribution decides whether the distribution that is  *)
(* already on its way will read the new tally.                               *)
VoteBegin ==
  /\ vote.pc = "idle" /\ CanChangePoll
  /\ vote' = [vote EXCEPT !.pc = "events"]
  /\ UNCHANGED <<current, event, jobs, slot, queue, keys, post, seen, faults>>

(* A pending event is locked until the commit: the dispatchers skip it.      *)
VoteFindsEvent ==
  /\ vote.pc = "events"
  /\ \E k \in PollFamily :
       Pending(k) /\ vote' = [vote EXCEPT !.pc = "covered", !.events = {k}]
  /\ UNCHANGED <<current, event, jobs, slot, queue, keys, post, seen, faults>>

VoteFindsNoEvent ==
  /\ vote.pc = "events"
  /\ \A k \in PollFamily : ~Pending(k)
  /\ vote' = [vote EXCEPT !.pc = "jobs"]
  /\ UNCHANGED <<current, event, jobs, slot, queue, keys, post, seen, faults>>

(* Mistake: the active jobs are read without FOR SHARE.                      *)
VoteFindsQueuedUnlocked ==
  /\ vote.pc = "jobs"
  /\ \E j \in PollJobs : jobs[j].state = "queued"
  /\ vote' = [vote EXCEPT !.pc = "covered"]
  /\ UNCHANGED <<current, event, jobs, slot, queue, keys, post, seen, faults>>

(* A job that is queued, or whose lease expired, is locked FOR SHARE: claim  *)
(* skips it until the new tally is committed.                                *)
VoteFindsQueued ==
  /\ vote.pc = "jobs"
  /\ \E j \in PollJobs : jobs[j].state = "queued"
  /\ vote' = [vote EXCEPT !.pc = "covered", !.jobs = PollJobs]
  /\ UNCHANGED <<current, event, jobs, slot, queue, keys, post, seen, faults>>

Follow(last) == vote' = [vote EXCEPT !.pc = "record", !.job = last, !.jobs = PollJobs]

LastPollJob == IF PollJobs = {} THEN 0 ELSE Max(PollJobs)

(* Mistake: every ballot queues a distribution after the last one.           *)
VoteFindsAny ==
  /\ vote.pc = "jobs"
  /\ Follow(LastPollJob)
  /\ UNCHANGED <<current, event, jobs, slot, queue, keys, post, seen, faults>>

(* Only leased jobs, which may have read the old tally, or none: a follow-up *)
(* is keyed to the last of them.                                             *)
VoteFindsLeased ==
  /\ vote.pc = "jobs"
  /\ \A j \in PollJobs : jobs[j].state = "leased"
  /\ Follow(LastPollJob)
  /\ UNCHANGED <<current, event, jobs, slot, queue, keys, post, seen, faults>>

VoteCommit ==
  /\ vote.pc \in {"covered", "record"}
  /\ current' = [current EXCEPT !.poll = @ + 1]
  /\ event' = IF vote.pc = "record"
              THEN [event EXCEPT ![PollKey(vote.job)] = NewEvent(current.edit, current.poll + 1)]
              ELSE event
  /\ vote' = NoVote
  /\ UNCHANGED <<jobs, slot, queue, keys, post, seen, faults>>

(* Mistake: the rows a failed ballot locked stay locked.                     *)
VoteRollbackKeepingLocks ==
  /\ vote.pc # "idle"
  /\ vote' = [vote EXCEPT !.pc = "idle"]
  /\ UNCHANGED <<current, event, jobs, slot, queue, keys, post, seen, faults>>

VoteRollback ==
  /\ vote.pc # "idle"
  /\ vote' = NoVote
  /\ UNCHANGED <<current, event, jobs, slot, queue, keys, post, seen, faults>>

(* update_status locks the status, which a ballot holds FOR SHARE.           *)
Edit ==
  /\ vote.pc = "idle" /\ CanEdit
  /\ current' = [current EXCEPT !.edit = @ + 1]
  /\ event' = [event EXCEPT ![EditKey(current.edit + 1)] =
                              NewEvent(current.edit + 1, current.poll)]
  /\ UNCHANGED <<vote, jobs, slot, queue, keys, post, seen, faults>>

(* finalize_poll_expiration_generation_in, for a local poll.                 *)
PollExpires ==
  /\ vote.pc = "idle" /\ CanChangePoll /\ event[ExpiredKey].state = "none"
  /\ current' = [current EXCEPT !.poll = @ + 1]
  /\ RecordOnce(ExpiredKey, current.edit, current.poll + 1)
  /\ UNCHANGED <<vote, jobs, slot, queue, keys, post, seen, faults>>

-----------------------------------------------------------------------------
(* dispatch_outbox, which skips an event a ballot has locked and one whose   *)
(* key a live job has.                                                       *)
Dispatch(k) ==
  /\ Pending(k) /\ k \notin vote.events
  /\ \A j \in JobIds : Live(j) => jobs[j].key # k
  /\ LET free == {i \in JobIds : jobs[i].state = "none"}
     IN  /\ free # {}
         /\ jobs' = [jobs EXCEPT ![Min(free)] =
                       [state |-> "queued", key |-> k, gen |-> 0,
                        edit |-> event[k].edit, poll |-> event[k].poll]]
  /\ event' = [event EXCEPT ![k] = SentEvent]
  /\ UNCHANGED <<current, vote, slot, queue, keys, post, seen, faults>>

-----------------------------------------------------------------------------
(* A distribution job: claim it, read the status, read the poll's version,   *)
(* decide, read the poll's tally, record the deliveries, acknowledge.        *)
Holds(s) ==
  LET j == slot[s].job
  IN  j # 0 /\ jobs[j].state = "leased" /\ jobs[j].gen = slot[s].gen

Claim(s, j) ==
  /\ slot[s].pc = "idle" /\ jobs[j].state = "queued" /\ j \notin vote.jobs
  /\ jobs' = [jobs EXCEPT ![j].state = "leased", ![j].gen = @ + 1]
  /\ slot' = [slot EXCEPT ![s] = [IdleSlot EXCEPT !.pc = "status", !.job = j,
                                      !.gen = jobs[j].gen + 1, !.spec = jobs[j]]]
  /\ UNCHANGED <<current, vote, event, queue, keys, post, seen, faults>>

ReadStatus(s) ==
  /\ slot[s].pc = "status"
  /\ slot' = [slot EXCEPT ![s].pc = "poll", ![s].edit = current.edit]
  /\ UNCHANGED <<current, vote, event, jobs, queue, keys, post, seen, faults>>

Kind(s) == slot[s].spec.key[1]

(* status_update_version_decision.  A poll update takes any version of the   *)
(* poll but only the edit it was recorded with, an edit takes neither, and a *)
(* repair takes what it finds.                                               *)
NeedsRepair(s, poll) ==
  LET asked == slot[s].spec
  IN  CASE Kind(s) = "repair" -> FALSE
        [] Kind(s) = "status" -> <<slot[s].edit, poll>> # <<asked.edit, asked.poll>>
        [] OTHER -> slot[s].edit # asked.edit

ReadPoll(s) ==
  /\ slot[s].pc = "poll"
  /\ slot' = [slot EXCEPT ![s].poll = current.poll,
                          ![s].pc = IF NeedsRepair(s, current.poll) THEN "repair" ELSE "tally"]
  /\ UNCHANGED <<current, vote, event, jobs, queue, keys, post, seen, faults>>

QueueRepair(s) ==
  /\ slot[s].pc = "repair"
  /\ RecordOnce(RepairKey(slot[s].edit, slot[s].poll), slot[s].edit, slot[s].poll)
  /\ slot' = [slot EXCEPT ![s].pc = "done"]
  /\ UNCHANGED <<current, vote, jobs, queue, keys, post, seen, faults>>

ReadTally(s) ==
  /\ slot[s].pc = "tally"
  /\ slot' = [slot EXCEPT ![s].pc = "record", ![s].tally = current.poll]
  /\ UNCHANGED <<current, vote, event, jobs, queue, keys, post, seen, faults>>

DeliveryKey(s) ==
  CASE Kind(s) = "repair" -> <<"repair", slot[s].edit, slot[s].poll>>
    [] Kind(s) = "status" -> <<"status", slot[s].edit, 0>>
    [] OTHER -> <<"poll", 0, slot[s].poll>>

RecordDeliveries(s) ==
  /\ slot[s].pc = "record"
  /\ queue' = IF DeliveryKey(s) \in keys THEN queue
              ELSE [i \in Inboxes |->
                      Append(queue[i], [edit |-> slot[s].edit, poll |-> slot[s].poll,
                                        tally |-> slot[s].tally])]
  /\ keys' = keys \cup {DeliveryKey(s)}
  /\ slot' = [slot EXCEPT ![s].pc = "done"]
  /\ UNCHANGED <<current, vote, event, jobs, post, seen, faults>>

(* The fenced delete waits for a ballot that has locked the row.             *)
Acknowledge(s) ==
  /\ slot[s].pc = "done" /\ slot[s].job \notin vote.jobs
  /\ jobs' = IF Holds(s) THEN [jobs EXCEPT ![slot[s].job] = DoneJob] ELSE jobs
  /\ slot' = [slot EXCEPT ![s] = IdleSlot]
  /\ UNCHANGED <<current, vote, event, queue, keys, post, seen, faults>>

Crash(s) ==
  /\ slot[s].pc # "idle" /\ CanFail
  /\ slot' = [slot EXCEPT ![s] = IdleSlot] /\ faults' = faults + 1
  /\ UNCHANGED <<current, vote, event, jobs, queue, keys, post, seen>>

(* A lease lapses: of a slot that crashed, or, as a fault, of one that       *)
(* stalls and goes on later.                                                 *)
Lapse(j) ==
  /\ jobs[j].state = "leased"
  /\ jobs' = [jobs EXCEPT ![j].state = "queued"]
  /\ UNCHANGED <<current, vote, event, slot, queue, keys, post, seen>>

Running(j) == \E s \in Slots : slot[s].job = j /\ Holds(s)

OrphanLapses(j) == ~Running(j) /\ Lapse(j) /\ UNCHANGED faults

StalledLapses(j) == Running(j) /\ CanFail /\ Lapse(j) /\ faults' = faults + 1

-----------------------------------------------------------------------------
(* deliver_activity: read the status, read the poll's version, and post or   *)
(* replace the delivery.                                                     *)
CheckStatus(i) ==
  /\ post[i].pc = "idle" /\ queue[i] # <<>>
  /\ post' = [post EXCEPT ![i] = [pc |-> "poll", edit |-> current.edit]]
  /\ UNCHANGED <<current, vote, event, jobs, slot, queue, keys, seen, faults>>

Delivery(i) == Head(queue[i])

IsCurrent(i) == post[i].edit = Delivery(i).edit /\ current.poll = Delivery(i).poll

CheckPoll(i) ==
  /\ post[i].pc = "poll" /\ IsCurrent(i)
  /\ post' = [post EXCEPT ![i].pc = "post"]
  /\ UNCHANGED <<current, vote, event, jobs, slot, queue, keys, seen, faults>>

(* Mistake: a delivery that is not current is dropped like a quote's.        *)
DropStale(i) ==
  /\ post[i].pc = "poll" /\ ~IsCurrent(i)
  /\ queue' = [queue EXCEPT ![i] = Tail(@)]
  /\ post' = [post EXCEPT ![i] = [pc |-> "idle", edit |-> 0]]
  /\ UNCHANGED <<current, vote, event, jobs, slot, keys, seen, faults>>

ReplaceStale(i) ==
  /\ post[i].pc = "poll" /\ ~IsCurrent(i)
  /\ RecordOnce(RepairKey(post[i].edit, current.poll), post[i].edit, current.poll)
  /\ queue' = [queue EXCEPT ![i] = Tail(@)]
  /\ post' = [post EXCEPT ![i] = [pc |-> "idle", edit |-> 0]]
  /\ UNCHANGED <<current, vote, jobs, slot, keys, seen, faults>>

Posted(i) ==
  /\ post[i].pc = "post"
  /\ seen' = [seen EXCEPT ![i] = [edit |-> Delivery(i).edit, poll |-> Delivery(i).tally]]
  /\ queue' = [queue EXCEPT ![i] = Tail(@)]
  /\ post' = [post EXCEPT ![i] = [pc |-> "idle", edit |-> 0]]
  /\ UNCHANGED <<current, vote, event, jobs, slot, keys, faults>>

(* The post is answered with an error; the retry reads everything again.     *)
PostFails(i) ==
  /\ post[i].pc = "post"
  /\ post' = [post EXCEPT ![i] = [pc |-> "idle", edit |-> 0]]
  /\ UNCHANGED <<current, vote, event, jobs, slot, queue, keys, seen, faults>>

(* The inbox accepts the activity, but its answer is lost or the slot dies.  *)
AnswerLost(i) ==
  /\ post[i].pc = "post" /\ CanFail
  /\ seen' = [seen EXCEPT ![i] = [edit |-> Delivery(i).edit, poll |-> Delivery(i).tally]]
  /\ post' = [post EXCEPT ![i] = [pc |-> "idle", edit |-> 0]]
  /\ faults' = faults + 1
  /\ UNCHANGED <<current, vote, event, jobs, slot, queue, keys>>

-----------------------------------------------------------------------------
Ballot ==
  \/ VoteFindsEvent \/ VoteFindsNoEvent \/ VoteFindsQueued \/ VoteFindsLeased
  \/ VoteCommit

Distribution(s) ==
  \/ ReadStatus(s) \/ ReadPoll(s) \/ QueueRepair(s) \/ ReadTally(s)
  \/ RecordDeliveries(s) \/ Acknowledge(s)

DeliveryStep(i) == CheckStatus(i) \/ CheckPoll(i) \/ ReplaceStale(i) \/ Posted(i)

Quiescent ==
  /\ vote.pc = "idle"
  /\ \A k \in EventKeys : ~Pending(k)
  /\ \A j \in JobIds : ~Live(j)
  /\ \A s \in Slots : slot[s].pc = "idle"
  /\ \A i \in Inboxes : queue[i] = <<>>

(* The whole system is idle: the only states in which nothing can happen.    *)
Idle == Quiescent /\ UNCHANGED vars

Next ==
  \/ VoteBegin \/ Ballot \/ VoteRollback \/ Edit \/ PollExpires
  \/ \E k \in EventKeys : Dispatch(k)
  \/ \E s \in Slots : Distribution(s) \/ Crash(s)
  \/ \E s \in Slots, j \in JobIds : Claim(s, j)
  \/ \E j \in JobIds : OrphanLapses(j) \/ StalledLapses(j)
  \/ \E i \in Inboxes : DeliveryStep(i) \/ PostFails(i) \/ AnswerLost(i)
  \/ Idle

Spec == Init /\ [][Next]_vars

(* Open transactions end, the scheduler ticks, slots claim and run jobs,     *)
(* leases lapse, and an inbox that is tried again and again answers.  Nobody *)
(* has to vote or edit.                                                      *)
Fairness ==
  /\ WF_vars(\E k \in EventKeys : Dispatch(k))
  /\ WF_vars(\E s \in Slots, j \in JobIds : Claim(s, j))
  /\ WF_vars(\E s \in Slots : Distribution(s))
  /\ WF_vars(\E j \in JobIds : OrphanLapses(j))
  /\ WF_vars(\E i \in Inboxes : CheckStatus(i) \/ CheckPoll(i) \/ ReplaceStale(i))
  /\ \A i \in Inboxes : SF_vars(Posted(i))
  /\ SF_vars(Ballot) /\ SF_vars(VoteCommit)

FairSpec == Spec /\ Fairness

-----------------------------------------------------------------------------
Job == [state : {"none", "queued", "leased", "done"}, key : EventKeys,
        edit : Edits, poll : Polls, gen : Nat]

(* The types, and that only an open ballot holds locks, on rows that exist.   *)
TypeOK ==
  /\ current \in Version
  /\ vote \in [pc : {"idle", "events", "jobs", "covered", "record"}, job : 0 .. MaxJobs,
               events : SUBSET PollFamily, jobs : SUBSET JobIds]
  /\ vote.pc \in {"idle", "events", "jobs"} => vote.events = {} /\ vote.jobs = {}
  /\ (\A k \in vote.events : Pending(k)) /\ \A j \in vote.jobs : Live(j)
  /\ event \in [EventKeys -> [state : {"none", "pending", "sent"}, edit : Edits, poll : Polls]]
  /\ jobs \in [JobIds -> Job]
  /\ slot \in [Slots -> [pc : {"idle", "status", "poll", "repair", "tally", "record", "done"},
                         job : 0 .. MaxJobs, gen : Nat, spec : Job, edit : Edits,
                         poll : Polls, tally : Polls]]
  /\ queue \in [Inboxes -> Seq([edit : Edits, poll : Polls, tally : Polls])]
  /\ post \in [Inboxes -> [pc : {"idle", "poll", "post"}, edit : Edits]]
  /\ seen \in [Inboxes -> Version]
  /\ faults \in 0 .. MaxFaults

(* "retain one follow-up ... rather than dropping the racing vote"           *)
(* (write_repository.rs): when nothing is pending, queued, running or left   *)
(* to deliver, every inbox has received the current text and tally, however  *)
(* votes, edits, expiration, dispatch, snapshots and repairs interleaved.    *)
NoVersionForgotten == Quiescent => \A i \in Inboxes : seen[i] = current

(* A burst of votes is coalesced: at most one distribution of a poll's tally *)
(* that no slot has claimed yet is pending or queued.                        *)
OneFollowUp ==
  Cardinality({k \in PollFamily : Pending(k)})
    + Cardinality({j \in PollJobs : jobs[j].gen = 0}) <= 1

(* However often snapshots turn out stale and are repaired, and whatever     *)
(* slots die or stall, every inbox ends up with the current text and tally   *)
(* once nobody votes or edits any more.                                      *)
Converges == \A i \in Inboxes : <>[](seen[i] = current)
=============================================================================
