------------------------- MODULE StatusUpdatesProofs -------------------------
(***************************************************************************)
(* What status and poll updates guarantee for any inboxes, slots and       *)
(* bounds: votes are coalesced, and when the system comes to rest every    *)
(* inbox has received the current version.                                 *)
(***************************************************************************)
EXTENDS StatusUpdates, FiniteSetTheorems, WellFoundedInduction, TLAPS

(* What a ballot has found out stays true until it commits: there is nothing *)
(* to wait for, or what it found waits for the ballot.                       *)
VoteInv ==
  /\ vote.pc # "idle" => current.poll < MaxPolls
  /\ vote.pc \in {"jobs", "record"} => \A k \in PollFamily : ~Pending(k)
  /\ vote.pc = "covered" =>
       vote.events # {} \/ \E j \in vote.jobs \cap PollJobs : jobs[j].state = "queued"
  /\ vote.pc = "record" => \A j \in PollJobs : jobs[j].gen > 0

(* OneFollowUp without numbers.                                              *)
OneInv ==
  /\ \A j \in JobIds : jobs[j].state = "leased" => jobs[j].gen > 0
  /\ \A k, l \in PollFamily : Pending(k) /\ Pending(l) => k = l
  /\ \A i, j \in PollJobs : jobs[i].gen = 0 /\ jobs[j].gen = 0 => i = j
  /\ \A k \in PollFamily, j \in PollJobs : Pending(k) => jobs[j].gen > 0

(* A version that was committed, and keys that name no other.  TallyKey(p)   *)
(* is the key of the delivery of the poll's version p.                       *)
Known(e, p) == e <= current.edit /\ p <= current.poll

TallyKey(p) == <<"poll", 0, p>>

KnownKey(k) == \A e \in Edits, p \in Polls : k = RepairKey(e, p) => Known(e, p)

KnownDelivery(k) ==
  /\ KnownKey(k)
  /\ \A e \in Edits : k = EditKey(e) => e <= current.edit
  /\ \A p \in Polls : k = TallyKey(p) => p <= current.poll

KnownInv ==
  /\ \A k \in EventKeys : event[k].state # "none" => KnownKey(k)
  /\ \A j \in JobIds : Live(j) => KnownKey(jobs[j].key)
  /\ \A k \in keys : KnownDelivery(k)

(* A slot has the arguments of its job, and no generation of the future.     *)
Same(a, b) == a.key = b.key /\ a.edit = b.edit /\ a.poll = b.poll

JobInv(s) ==
  LET j == slot[s].job
  IN  /\ slot[s].pc = "idle" <=> j = 0
      /\ j # 0 => /\ jobs[j].state # "none"
                  /\ Live(j) => slot[s].gen <= jobs[j].gen /\ Same(slot[s].spec, jobs[j])

(* A repair reads no older version than it was recorded with, and delivers   *)
(* what it reads.                                                            *)
RepairerInv(s) ==
  \A e \in Edits, p \in Polls : slot[s].spec.key = RepairKey(e, p) =>
    /\ slot[s].pc # "repair"
    /\ slot[s].pc # "status" => e <= slot[s].edit
    /\ slot[s].pc \in {"tally", "record", "done"} => p <= slot[s].poll
    /\ slot[s].pc = "done" => RepairKey(slot[s].edit, slot[s].poll) \in keys

SlotInv(s) ==
  /\ JobInv(s) /\ RepairerInv(s) /\ KnownKey(slot[s].spec.key)
  /\ Known(slot[s].edit, slot[s].poll) /\ slot[s].tally <= current.poll
  /\ slot[s].pc = "record" => slot[s].poll <= slot[s].tally

(* A delivery in progress was read after it was recorded and after what the  *)
(* inbox saw; one that is posted is what was current then.                   *)
InboxInv(i) ==
  /\ Known(seen[i].edit, seen[i].poll) /\ post[i].edit <= current.edit
  /\ \A n \in 1 .. Len(queue[i]) : /\ Known(queue[i][n].edit, queue[i][n].tally)
                                   /\ queue[i][n].poll <= queue[i][n].tally
  /\ post[i].pc # "idle" =>
       queue[i] # <<>> /\ Delivery(i).edit <= post[i].edit /\ seen[i].edit <= post[i].edit
  /\ post[i].pc = "post" => Delivery(i).edit = post[i].edit /\ seen[i].poll <= Delivery(i).poll

(* The key under which the current version is repaired and delivered.        *)
CurrentKey == RepairKey(current.edit, current.poll)

IsNow(d) == d.edit = current.edit /\ d.poll = current.poll

Queued(i) == \E n \in 1 .. Len(queue[i]) : IsNow(queue[i][n])

(* The repair of the current version is on its way until it is recorded for  *)
(* every inbox, and then it is there or still in the queue.                  *)
OnItsWay == Pending(CurrentKey) \/ \E j \in JobIds : Live(j) /\ jobs[j].key = CurrentKey

RepairInv ==
  /\ event[CurrentKey].state # "none" => OnItsWay \/ CurrentKey \in keys
  /\ CurrentKey \in keys => \A i \in Inboxes : seen[i] = current \/ Queued(i)

(* The queue of an inbox ends with a delivery that will be compared with the *)
(* current version, or posts it.                                             *)
Waiting(i) ==
  /\ queue[i] # <<>>
  /\ \/ Len(queue[i]) > 1 \/ post[i].pc = "idle"
     \/ post[i].pc = "poll" /\ post[i].edit = current.edit
     \/ IsNow(Delivery(i))

(* A distribution with this key and this version that reads the current one  *)
(* records a repair, or deliveries that nobody has recorded.                 *)
Useful(k, e, p) ==
  \/ k[1] = "repair" /\ CurrentKey \notin keys
  \/ k[1] = "status" /\ (current # [edit |-> e, poll |-> p] \/ EditKey(current.edit) \notin keys)
  \/ k[1] \notin {"repair", "status"} /\ (current.edit # e \/ TallyKey(current.poll) \notin keys)

(* What a slot has read is still current, and it has not done its work.      *)
Fresh(s) ==
  /\ slot[s].pc \in {"status", "poll", "repair", "tally", "record"}
  /\ slot[s].pc # "status" => slot[s].edit = current.edit
  /\ slot[s].pc \in {"repair", "tally", "record"} => slot[s].poll = current.poll
  /\ slot[s].pc \in {"tally", "record"} => ~NeedsRepair(s, current.poll)

UsefulJob(j) ==
  /\ Live(j) /\ Useful(jobs[j].key, jobs[j].edit, jobs[j].poll)
  /\ \A s \in Slots : slot[s].job = j /\ Holds(s) => Fresh(s)

UsefulEvent(k) == Pending(k) /\ Useful(k, event[k].edit, event[k].poll)

Served(i) == seen[i] = current \/ Waiting(i)

(* As long as the current version has no repair, every inbox has it or has a *)
(* delivery waiting, or some distribution will see to it.                    *)
CoverInv ==
  event[CurrentKey].state = "none" =>
    \/ \E k \in EventKeys : UsefulEvent(k)
    \/ \E j \in JobIds : UsefulJob(j)
    \/ \A i \in Inboxes : Served(i)

UpdatesInv ==
  /\ TypeOK /\ VoteInv /\ OneInv /\ KnownInv
  /\ \A s \in Slots : SlotInv(s)
  /\ \A i \in Inboxes : InboxInv(i)
  /\ RepairInv /\ CoverInv

-----------------------------------------------------------------------------
(* Numbers and keys.                                                         *)
LEMMA Bounds ==
  MaxEdits \in Nat /\ MaxPolls \in Nat /\ MaxTrouble \in Nat /\ MaxJobs \in Nat /\ MaxFaults \in Nat
BY UpdatesAssumption DEF UpdatesAssumption

LEMMA LeastOf ==
  ASSUME NEW S, S \subseteq Nat, S # {}
  PROVE  \E n \in S : \A m \in S : n <= m
<1>1. \A m, n \in Nat : m < n => <<m, n>> \in OpToRel(<, Nat)
  BY DEF OpToRel
<1>2. PICK R : R = OpToRel(<, Nat)
  OBVIOUS
<1>3. IsWellFoundedOn(R, Nat)
  BY <1>2, NatLessThanWellFounded
<1>4. \A m, n \in Nat : m < n => <<m, n>> \in R
  BY <1>1, <1>2
<1>5. \E n \in S : \A m \in S : ~ (<<m, n>> \in R)
  BY <1>3, WFMin, Zenon
<1>6. PICK n \in S : \A m \in S : ~ (<<m, n>> \in R)
  BY <1>5
<1>7. ASSUME NEW m \in S PROVE n <= m
  <2>1. m \in Nat /\ n \in Nat /\ ~ (<<m, n>> \in R)
    BY <1>6
  <2>2. ~ (m < n)
    BY <1>4, <2>1
  <2> QED
    BY <2>1, <2>2
<1> QED
  BY <1>7

LEMMA MinFacts ==
  ASSUME NEW S, S \subseteq JobIds, S # {}
  PROVE  Min(S) \in S
<1>1. S \subseteq Nat
  BY Bounds DEF JobIds
<1>2. \E n \in S : \A m \in S : n <= m
  BY <1>1, LeastOf, Zenon
<1> QED
  BY <1>2 DEF Min

LEMMA MaxFacts ==
  ASSUME NEW S, S \subseteq JobIds, S # {}
  PROVE  Max(S) \in S
<1>1. PICK T : T = {MaxJobs - n : n \in S}
  OBVIOUS
<1>2. T \subseteq Nat /\ T # {}
  <2>1. \A n \in S : MaxJobs - n \in Nat
    BY Bounds DEF JobIds
  <2> QED
    BY <1>1, <2>1
<1>3. PICK t \in T : \A u \in T : t <= u
  BY <1>2, LeastOf, Zenon
<1>4. PICK n \in S : t = MaxJobs - n
  BY <1>1, <1>3
<1>5. \A m \in S : MaxJobs - m \in T
  BY <1>1
<1>6. \A m \in S : n >= m
  BY <1>3, <1>4, <1>5, Bounds DEF JobIds
<1> QED
  BY <1>6 DEF Max

LEMMA LastJob == LastPollJob \in 0 .. MaxJobs
<1>1. PollJobs \subseteq JobIds
  BY DEF PollJobs
<1>2. CASE PollJobs = {}
  BY <1>2, Bounds DEF LastPollJob
<1>3. CASE PollJobs # {}
  <2>1. Max(PollJobs) \in JobIds
    BY <1>1, <1>3, MaxFacts
  <2> QED
    BY <1>3, <2>1, Bounds DEF LastPollJob, JobIds
<1> QED
  BY <1>2, <1>3

LEMMA KeyFacts ==
  /\ \A e, p, f, q : RepairKey(e, p) = RepairKey(f, q) => e = f /\ p = q
  /\ \A e, f : EditKey(e) = EditKey(f) => e = f
  /\ \A p, q : TallyKey(p) = TallyKey(q) => p = q
BY DEF RepairKey, EditKey, TallyKey

LEMMA KeyKinds ==
  /\ \A e, p : RepairKey(e, p)[1] = "repair"
  /\ \A e : EditKey(e)[1] = "status"
  /\ \A p : TallyKey(p)[1] = "poll"
  /\ \A k \in PollFamily : k[1] = "poll"
  /\ ExpiredKey[1] = "expired"
BY DEF RepairKey, EditKey, TallyKey, PollFamily, PollKey, ExpiredKey

LEMMA KeysExist ==
  /\ PollFamily \subseteq EventKeys /\ ExpiredKey \in EventKeys
  /\ \A j \in 0 .. MaxJobs : PollKey(j) \in PollFamily
  /\ \A e \in Edits : EditKey(e) \in EventKeys
  /\ \A e \in Edits, p \in Polls : RepairKey(e, p) \in EventKeys
BY DEF EventKeys, PollFamily

-----------------------------------------------------------------------------
(* What a step leaves alone stays as it was.                                 *)
Grows ==
  /\ current \in Version /\ current' \in Version
  /\ current.edit <= current'.edit /\ current.poll <= current'.poll

LEMMA KnownGrows ==
  ASSUME Grows
  PROVE  /\ \A e, p \in Nat : Known(e, p) => Known(e, p)'
         /\ \A k : KnownKey(k) => KnownKey(k)'
         /\ \A k : KnownDelivery(k) => KnownDelivery(k)'
<1> USE Bounds DEF Grows, Version, Edits, Polls
<1>1. \A e, p \in Nat : Known(e, p) => Known(e, p)'
  BY DEF Known
<1>2. \A k : KnownKey(k) => KnownKey(k)'
  BY <1>1 DEF KnownKey
<1>3. \A k : KnownDelivery(k) => KnownDelivery(k)'
  BY <1>2 DEF KnownDelivery
<1> QED
  BY <1>1, <1>2, <1>3

(* The version and what follows from it alone.                               *)
LEMMA CurrentFacts ==
  ASSUME TypeOK
  PROVE  /\ current \in Version /\ current.edit \in Edits /\ current.poll \in Polls
         /\ current.edit \in Nat /\ current.poll \in Nat
         /\ CurrentKey \in EventKeys
         /\ \A v \in Version : v.edit = current.edit /\ v.poll = current.poll <=> v = current
         /\ Edits \subseteq Nat /\ Polls \subseteq Nat
<1>1. current \in Version /\ current.edit \in Edits /\ current.poll \in Polls
  BY DEF TypeOK, Version
<1>2. Edits \subseteq Nat /\ Polls \subseteq Nat
  BY Bounds DEF Edits, Polls
<1>3. CurrentKey \in EventKeys
  BY <1>1, KeysExist DEF CurrentKey
<1>4. \A v \in Version : v.edit = current.edit /\ v.poll = current.poll <=> v = current
  BY <1>1 DEF Version
<1> QED
  BY <1>1, <1>2, <1>3, <1>4

LEMMA SlotTypes ==
  ASSUME TypeOK, NEW s \in Slots
  PROVE  /\ slot[s].job \in 0 .. MaxJobs /\ slot[s].gen \in Nat /\ slot[s].spec \in Job
         /\ slot[s].spec.key \in EventKeys
         /\ slot[s].edit \in Nat /\ slot[s].poll \in Nat /\ slot[s].tally \in Nat
         /\ slot[s].edit \in Edits /\ slot[s].poll \in Polls /\ slot[s].tally \in Polls
         /\ slot[s].spec.edit \in Nat /\ slot[s].spec.poll \in Nat
         /\ slot[s].job # 0 => slot[s].job \in JobIds
<1>1. /\ slot[s].job \in 0 .. MaxJobs /\ slot[s].gen \in Nat /\ slot[s].spec \in Job
      /\ slot[s].edit \in Edits /\ slot[s].poll \in Polls /\ slot[s].tally \in Polls
  BY DEF TypeOK
<1>2. slot[s].spec.key \in EventKeys /\ slot[s].spec.edit \in Edits /\ slot[s].spec.poll \in Polls
  BY <1>1 DEF Job
<1> QED
  BY <1>1, <1>2, Bounds DEF Edits, Polls, JobIds

LEMMA JobTypes ==
  ASSUME TypeOK, NEW j \in JobIds
  PROVE  /\ jobs[j] \in Job /\ jobs[j].key \in EventKeys /\ jobs[j].gen \in Nat
         /\ jobs[j].edit \in Edits /\ jobs[j].poll \in Polls
         /\ jobs[j].state \in {"none", "queued", "leased", "done"}
BY DEF TypeOK, Job

Deliveries == [edit : Edits, poll : Polls, tally : Polls]

LEMMA InboxTypes ==
  ASSUME TypeOK, NEW i \in Inboxes
  PROVE  /\ queue[i] \in Seq(Deliveries) /\ post[i] \in [pc : {"idle", "poll", "post"}, edit : Edits]
         /\ post[i].edit \in Nat /\ post[i].edit \in Edits
         /\ seen[i] \in Version /\ seen[i].edit \in Nat /\ seen[i].poll \in Nat
         /\ \A n \in 1 .. Len(queue[i]) : queue[i][n] \in Deliveries
<1>1. /\ queue[i] \in Seq(Deliveries) /\ seen[i] \in Version
      /\ post[i] \in [pc : {"idle", "poll", "post"}, edit : Edits]
  BY DEF TypeOK, Deliveries
<1> QED
  BY <1>1, Bounds DEF Version, Edits, Polls

LEMMA DeliveryTypes ==
  ASSUME NEW d \in Deliveries
  PROVE  d.edit \in Nat /\ d.poll \in Nat /\ d.tally \in Nat
BY Bounds DEF Deliveries, Edits, Polls

(* A job that lived keeps its arguments, and its generation only grows.      *)
Ages(j) ==
  jobs[j].state # "none" =>
    /\ jobs'[j].state # "none"
    /\ Live(j)' => Live(j) /\ jobs[j].gen <= jobs'[j].gen /\ Same(jobs[j], jobs'[j])

LEMMA SlotKept ==
  ASSUME TypeOK, Grows, keys \subseteq keys', NEW s \in Slots, SlotInv(s), slot'[s] = slot[s],
         \A j \in JobIds : Ages(j) /\ jobs'[j].gen \in Nat
  PROVE  SlotInv(s)'
<1>1. JobInv(s)'
  <2>1. CASE slot[s].job = 0
    BY <2>1 DEF SlotInv, JobInv
  <2>2. CASE slot[s].job # 0
    <3>1. PICK j \in JobIds : slot[s].job = j /\ slot'[s].job = j /\ Ages(j)
      BY <2>2, SlotTypes
    <3>2. jobs[j].state # "none" /\ jobs'[j].state # "none" /\ slot[s].pc # "idle"
      BY <2>2, <3>1 DEF SlotInv, JobInv, Ages
    <3>3. ASSUME Live(j)' PROVE slot[s].gen <= jobs'[j].gen /\ Same(slot[s].spec, jobs'[j])
      <4>1. /\ slot[s].gen <= jobs[j].gen /\ Same(slot[s].spec, jobs[j])
            /\ jobs[j].gen <= jobs'[j].gen /\ Same(jobs[j], jobs'[j])
        BY <2>2, <3>1, <3>2, <3>3 DEF SlotInv, JobInv, Ages
      <4> QED
        BY <4>1, JobTypes, SlotTypes DEF Same
    <3> QED
      BY <2>2, <3>1, <3>2, <3>3 DEF JobInv
  <2> QED
    BY <2>1, <2>2
<1>2. RepairerInv(s)'
  BY DEF SlotInv, RepairerInv
<1>3. KnownKey(slot[s].spec.key)'
  BY KnownGrows DEF SlotInv
<1>4. Known(slot[s].edit, slot[s].poll)' /\ slot[s].tally <= current'.poll
  BY KnownGrows, SlotTypes DEF SlotInv, Grows, Known, Version, Polls
<1> QED
  BY <1>1, <1>2, <1>3, <1>4 DEF SlotInv

LEMMA InboxKept ==
  ASSUME TypeOK, Grows, NEW i \in Inboxes, InboxInv(i),
         queue'[i] = queue[i], post'[i] = post[i], seen'[i] = seen[i]
  PROVE  InboxInv(i)'
<1>1. \A n \in 1 .. Len(queue[i]) : Known(queue[i][n].edit, queue[i][n].tally)'
  BY KnownGrows, InboxTypes, DeliveryTypes DEF InboxInv
<1>2. Known(seen[i].edit, seen[i].poll)' /\ post[i].edit <= current'.edit
  BY KnownGrows, InboxTypes, Bounds DEF InboxInv, Grows, Version, Edits
<1> QED
  BY <1>1, <1>2 DEF InboxInv, Delivery

(* record_outbox_once_in keeps what is there.                                *)
Events == [EventKeys -> [state : {"none", "pending", "sent"}, edit : Edits, poll : Polls]]

LEMMA RecordedOnce ==
  ASSUME TypeOK, NEW k \in EventKeys, NEW e \in Edits, NEW p \in Polls, RecordOnce(k, e, p)
  PROVE  /\ event' \in Events
         /\ event'[k].state # "none"
         /\ event[k].state = "none" => event'[k] = NewEvent(e, p)
         /\ \A l \in EventKeys : event[l].state # "none" => event'[l] = event[l]
         /\ \A l \in EventKeys : l # k => event'[l] = event[l]
<1>1. event \in Events
  BY DEF TypeOK, Events
<1>2. NewEvent(e, p) \in [state : {"none", "pending", "sent"}, edit : Edits, poll : Polls]
      /\ NewEvent(e, p).state # "none"
  BY DEF NewEvent
<1>3. CASE event[k].state = "none"
  <2>1. event' = [event EXCEPT ![k] = NewEvent(e, p)]
    BY <1>3 DEF RecordOnce
  <2> QED
    BY <1>1, <1>2, <1>3, <2>1 DEF Events
<1>4. CASE event[k].state # "none"
  BY <1>1, <1>4 DEF RecordOnce
<1> QED
  BY <1>3, <1>4

(* The ballot, where jobs and the events of votes stay as they are.          *)
Locks ==
  /\ vote.pc \in {"idle", "events", "jobs"} => vote.events = {} /\ vote.jobs = {}
  /\ (\A k \in vote.events : Pending(k)) /\ \A j \in vote.jobs : Live(j)

LEMMA VotesKept ==
  ASSUME TypeOK, VoteInv, OneInv, vote' = vote, jobs' = jobs,
         current'.poll = current.poll \/ vote.pc = "idle",
         \A k \in PollFamily : event'[k] = event[k]
  PROVE  VoteInv' /\ OneInv' /\ Locks'
<1>1. PollJobs' = PollJobs /\ \A j \in JobIds : Live(j)' <=> Live(j)
  BY DEF PollJobs, Live
<1>2. \A k \in PollFamily : Pending(k)' <=> Pending(k)
  BY DEF Pending
<1>3. Locks
  BY DEF TypeOK, Locks
<1>4. vote.events \subseteq PollFamily /\ vote.jobs \subseteq JobIds
  BY DEF TypeOK
<1> QED
  BY <1>1, <1>2, <1>3, <1>4 DEF VoteInv, OneInv, Locks

LEMMA KnownKept ==
  ASSUME TypeOK, KnownInv, Grows,
         \A k \in EventKeys : event'[k].state # "none" => event[k].state # "none" \/ KnownKey(k)',
         \A j \in JobIds : Live(j)' => (Live(j) /\ jobs'[j].key = jobs[j].key) \/ KnownKey(jobs[j].key)',
         \A k \in keys' : k \in keys \/ KnownDelivery(k)'
  PROVE  KnownInv'
<1>1. \A k \in EventKeys : event'[k].state # "none" => KnownKey(k)'
  BY KnownGrows DEF KnownInv
<1>2. \A j \in JobIds : Live(j)' => KnownKey(jobs[j].key)'
  BY KnownGrows DEF KnownInv
<1>3. \A k \in keys' : KnownDelivery(k)'
  BY KnownGrows DEF KnownInv
<1> QED
  BY <1>1, <1>2, <1>3 DEF KnownInv

(* What a distribution is good for depends on the version and the keys.      *)
LEMMA UsefulKept ==
  ASSUME current' = current, keys' = keys
  PROVE  \A k, e, p : Useful(k, e, p) => Useful(k, e, p)'
BY DEF Useful, CurrentKey

LEMMA EventStaysUseful ==
  ASSUME current' = current, keys' = keys, NEW k \in EventKeys, UsefulEvent(k), event'[k] = event[k]
  PROVE  UsefulEvent(k)'
BY UsefulKept DEF UsefulEvent, Pending

LEMMA FreshKept ==
  ASSUME current' = current, NEW s \in Slots, slot'[s] = slot[s], Fresh(s)
  PROVE  Fresh(s)'
BY DEF Fresh, NeedsRepair, Kind

LEMMA JobStaysUseful ==
  ASSUME current' = current, keys' = keys, NEW j \in JobIds, UsefulJob(j), Live(j)',
         Same(jobs[j], jobs'[j]),
         \A s \in Slots : slot'[s].job = j /\ Holds(s)' =>
           Fresh(s)' \/ (slot'[s] = slot[s] /\ Holds(s))
  PROVE  UsefulJob(j)'
<1>1. Useful(jobs[j].key, jobs[j].edit, jobs[j].poll)'
  BY UsefulKept DEF UsefulJob, Same
<1>2. ASSUME NEW s \in Slots, slot'[s].job = j, Holds(s)' PROVE Fresh(s)'
  BY <1>2, FreshKept DEF UsefulJob
<1> QED
  BY <1>1, <1>2 DEF UsefulJob, Same

LEMMA CoverKept ==
  ASSUME TypeOK, CoverInv, current' = current,
         event'[CurrentKey].state = "none" =>
           /\ event[CurrentKey].state = "none"
           /\ \A k \in EventKeys : UsefulEvent(k) => UsefulEvent(k)' \/ \E j \in JobIds : UsefulJob(j)'
           /\ \A j \in JobIds : UsefulJob(j) => UsefulJob(j)'
           /\ (\A i \in Inboxes : Served(i)) => \A i \in Inboxes : Served(i)'
  PROVE  CoverInv'
<1>1. CurrentKey' = CurrentKey
  BY DEF CurrentKey
<1> QED
  BY <1>1 DEF CoverInv

LEMMA RepairKept ==
  ASSUME TypeOK, RepairInv, current' = current, keys' = keys,
         event[CurrentKey].state = "none" /\ event'[CurrentKey].state # "none" => OnItsWay',
         OnItsWay => OnItsWay' \/ CurrentKey \in keys,
         (\A i \in Inboxes : seen[i] = current \/ Queued(i)) =>
           \A i \in Inboxes : seen'[i] = current \/ Queued(i)'
  PROVE  RepairInv'
<1>1. CurrentKey' = CurrentKey
  BY DEF CurrentKey
<1> QED
  BY <1>1 DEF RepairInv

LEMMA WayKept ==
  ASSUME current' = current, jobs' = jobs, OnItsWay,
         Pending(CurrentKey) => event'[CurrentKey].state = "pending"
  PROVE  OnItsWay'
<1>1. CurrentKey' = CurrentKey
  BY DEF CurrentKey
<1> QED
  BY <1>1 DEF OnItsWay, Live, Pending

(* Where nothing of an inbox changes.                                        *)
LEMMA ServedKept ==
  ASSUME current' = current, queue' = queue, post' = post, seen' = seen
  PROVE  \A i \in Inboxes : /\ Served(i) => Served(i)'
                            /\ seen[i] = current \/ Queued(i) => seen'[i] = current \/ Queued(i)'
BY DEF Served, Waiting, Queued, IsNow, Delivery

LEMMA TailFacts ==
  ASSUME NEW q \in Seq(Deliveries), q # <<>>, NEW t, t = Tail(q)
  PROVE  /\ t \in Seq(Deliveries) /\ Len(q) \in Nat /\ Len(q) >= 1 /\ Head(q) = q[1]
         /\ Len(t) = Len(q) - 1 /\ \A n \in 1 .. Len(t) : t[n] = q[n + 1]
         /\ Len(q) > 1 => t # <<>>
OBVIOUS

LEMMA AppendFacts ==
  ASSUME NEW q \in Seq(Deliveries), NEW d \in Deliveries, NEW a, a = Append(q, d)
  PROVE  /\ a \in Seq(Deliveries) /\ Len(q) \in Nat /\ Len(a) = Len(q) + 1 /\ a # <<>>
         /\ \A n \in 1 .. Len(q) : a[n] = q[n]
         /\ a[Len(a)] = d
         /\ q # <<>> => Len(q) >= 1 /\ Head(a) = Head(q)
OBVIOUS

LEMMA SlotsKept ==
  ASSUME UpdatesInv, Grows, jobs' = jobs, slot' = slot, keys \subseteq keys'
  PROVE  \A s \in Slots : SlotInv(s)'
<1>1. \A j \in JobIds : Ages(j) /\ jobs'[j].gen \in Nat
  BY JobTypes DEF UpdatesInv, Ages, Live, Same
<1>2. \A s \in Slots : slot'[s] = slot[s] /\ SlotInv(s)
  BY DEF UpdatesInv
<1> QED
  BY <1>1, <1>2, SlotKept DEF UpdatesInv

LEMMA InboxesKept ==
  ASSUME UpdatesInv, Grows, queue' = queue, post' = post, seen' = seen
  PROVE  \A i \in Inboxes : InboxInv(i)'
BY InboxKept DEF UpdatesInv

LEMMA SameVersion ==
  ASSUME TypeOK, current' = current
  PROVE  Grows
BY CurrentFacts DEF Grows

-----------------------------------------------------------------------------
(* What a ballot reads and locks.                                            *)
LEMMA OnlyTheBallot ==
  ASSUME UpdatesInv, UNCHANGED <<current, event, jobs, slot, queue, keys, post, seen, faults>>
  PROVE  /\ OneInv' /\ KnownInv' /\ RepairInv' /\ CoverInv'
         /\ \A s \in Slots : SlotInv(s)'
         /\ \A i \in Inboxes : InboxInv(i)'
<1> USE DEF UpdatesInv
<1>1. Grows
  BY SameVersion
<1>2. OneInv'
  BY DEF OneInv, Pending, PollJobs, Live
<1>3. KnownInv'
  BY <1>1, KnownKept DEF Live
<1>4. RepairInv'
  <2>1. OnItsWay => OnItsWay'
    BY WayKept DEF Pending
  <2>2. \A i \in Inboxes : seen[i] = current \/ Queued(i) => seen'[i] = current \/ Queued(i)'
    BY ServedKept
  <2> QED
    BY <2>1, <2>2, RepairKept
<1>5. ASSUME NEW j \in JobIds, UsefulJob(j) PROVE UsefulJob(j)'
  BY <1>5, JobStaysUseful DEF UsefulJob, Live, Same, Holds
<1>6. CoverInv'
  BY <1>5, CoverKept, EventStaysUseful, ServedKept
<1> QED
  BY <1>1, <1>2, <1>3, <1>4, <1>6, SlotsKept, InboxesKept

Ballots == [pc : {"idle", "events", "jobs", "covered", "record"}, job : 0 .. MaxJobs,
            events : SUBSET PollFamily, jobs : SUBSET JobIds]

LEMMA BallotReads ==
  ASSUME UpdatesInv,
         \/ VoteBegin \/ VoteFindsEvent \/ VoteFindsNoEvent \/ VoteFindsQueued \/ VoteFindsLeased
         \/ VoteRollback
  PROVE  UpdatesInv'
<1> USE DEF UpdatesInv
<1>1. UNCHANGED <<current, event, jobs, slot, queue, keys, post, seen, faults>>
  BY DEF VoteBegin, VoteFindsEvent, VoteFindsNoEvent, VoteFindsQueued, VoteFindsLeased, VoteRollback
<1>2. vote \in Ballots /\ Locks
  BY DEF TypeOK, Locks, Ballots
<1>3. PollJobs \subseteq JobIds /\ \A j \in PollJobs : Live(j)
  BY DEF PollJobs
<1>4. PollJobs' = PollJobs /\ (\A j \in JobIds : Live(j)' <=> Live(j)) /\ \A k : Pending(k)' <=> Pending(k)
  BY <1>1 DEF PollJobs, Live, Pending
<1>5. vote' \in Ballots /\ Locks' /\ VoteInv'
  <2>1. CASE VoteBegin
    <3>1. vote'.pc = "events" /\ vote'.events = vote.events /\ vote'.jobs = vote.jobs /\ vote' \in Ballots
      BY <1>2, <2>1 DEF VoteBegin, Ballots
    <3>2. current.poll < MaxPolls
      BY <2>1 DEF VoteBegin, CanChangePoll
    <3> QED
      BY <1>1, <1>2, <1>4, <2>1, <3>1, <3>2 DEF VoteBegin, Locks, VoteInv
  <2>2. CASE VoteFindsEvent
    <3>1. PICK k \in PollFamily : Pending(k) /\ vote' = [vote EXCEPT !.pc = "covered", !.events = {k}]
      BY <2>2 DEF VoteFindsEvent
    <3>2. vote'.pc = "covered" /\ vote'.events = {k} /\ vote'.jobs = vote.jobs /\ vote' \in Ballots
      BY <1>2, <3>1 DEF Ballots
    <3> QED
      BY <1>1, <1>2, <1>4, <2>2, <3>1, <3>2 DEF VoteFindsEvent, Locks, VoteInv
  <2>3. CASE VoteFindsNoEvent
    <3>1. vote'.pc = "jobs" /\ vote'.events = vote.events /\ vote'.jobs = vote.jobs /\ vote' \in Ballots
      BY <1>2, <2>3 DEF VoteFindsNoEvent, Ballots
    <3> QED
      BY <1>1, <1>2, <1>4, <2>3, <3>1 DEF VoteFindsNoEvent, Locks, VoteInv
  <2>4. CASE VoteFindsQueued
    <3>1. vote'.pc = "covered" /\ vote'.events = vote.events /\ vote'.jobs = PollJobs /\ vote' \in Ballots
      BY <1>2, <1>3, <2>4 DEF VoteFindsQueued, Ballots
    <3>2. \E j \in PollJobs : jobs[j].state = "queued"
      BY <2>4 DEF VoteFindsQueued
    <3> QED
      BY <1>1, <1>2, <1>3, <1>4, <2>4, <3>1, <3>2 DEF VoteFindsQueued, Locks, VoteInv
  <2>5. CASE VoteFindsLeased
    <3>1. vote'.pc = "record" /\ vote'.events = vote.events /\ vote'.jobs = PollJobs /\ vote' \in Ballots
      BY <1>2, <1>3, <2>5, LastJob DEF VoteFindsLeased, Follow, Ballots
    <3>2. \A j \in PollJobs : jobs[j].gen > 0
      BY <1>3, <2>5 DEF VoteFindsLeased, OneInv
    <3> QED
      BY <1>1, <1>2, <1>3, <1>4, <2>5, <3>1, <3>2 DEF VoteFindsLeased, Locks, VoteInv
  <2>6. CASE VoteRollback
    <3>1. vote'.pc = "idle" /\ vote'.events = {} /\ vote'.jobs = {} /\ vote' \in Ballots
      BY <2>6, Bounds DEF VoteRollback, NoVote, Ballots
    <3> QED
      BY <1>1, <3>1 DEF Locks, VoteInv
  <2> QED
    BY <2>1, <2>2, <2>3, <2>4, <2>5, <2>6
<1>6. TypeOK'
  BY <1>1, <1>5 DEF TypeOK, Locks, Ballots, Version
<1> QED
  BY <1>1, <1>5, <1>6, OnlyTheBallot

-----------------------------------------------------------------------------
(* A new version has no repair and no delivery yet, and the distribution     *)
(* that comes with it will see to it.                                        *)
LEMMA NewVersion ==
  ASSUME UpdatesInv, Grows, current'.edit > current.edit \/ current'.poll > current.poll
  PROVE  /\ CurrentKey' \in EventKeys /\ CurrentKey' \notin keys /\ event[CurrentKey'].state = "none"
         /\ CurrentKey'[1] = "repair"
         /\ current'.edit > current.edit => EditKey(current'.edit) \notin keys
         /\ current'.poll > current.poll => TallyKey(current'.poll) \notin keys
<1> DEFINE e == current'.edit
           p == current'.poll
<1>1. /\ e \in Edits /\ p \in Polls /\ e \in Nat /\ p \in Nat
      /\ current.edit \in Nat /\ current.poll \in Nat
  BY Bounds DEF Grows, Version, Edits, Polls
<1>2. CurrentKey' = RepairKey(e, p)
  BY DEF CurrentKey
<1>3. ~Known(e, p)
  BY <1>1 DEF Known
<1>4. ~KnownKey(RepairKey(e, p)) /\ RepairKey(e, p) \in EventKeys /\ RepairKey(e, p)[1] = "repair"
  BY <1>1, <1>3, KeysExist, KeyKinds DEF KnownKey
<1>5. RepairKey(e, p) \notin keys /\ event[RepairKey(e, p)].state = "none"
  BY <1>4 DEF UpdatesInv, KnownInv, KnownDelivery
<1>6. e > current.edit => EditKey(e) \notin keys
  BY <1>1 DEF UpdatesInv, KnownInv, KnownDelivery
<1>7. p > current.poll => TallyKey(p) \notin keys
  BY <1>1 DEF UpdatesInv, KnownInv, KnownDelivery
<1> QED
  BY <1>2, <1>4, <1>5, <1>6, <1>7

LEMMA NewVersionStep ==
  ASSUME UpdatesInv, Grows, current'.edit > current.edit \/ current'.poll > current.poll,
         UNCHANGED <<jobs, slot, queue, keys, post, seen, faults>>,
         event' \in Events, vote' \in Ballots, vote'.pc = "idle", vote'.events = {}, vote'.jobs = {},
         \A k \in EventKeys : k[1] = "repair" => event'[k] = event[k],
         (\E k \in EventKeys : UsefulEvent(k)') \/ \E j \in JobIds : UsefulJob(j)',
         OneInv'
  PROVE  UpdatesInv'
<1> USE DEF UpdatesInv
<1>1. VoteInv' /\ Locks'
  BY DEF VoteInv, Locks
<1>2. TypeOK'
  BY <1>1 DEF TypeOK, Locks, Ballots, Events, Grows
<1>3. KnownInv'
  <2>1. ASSUME NEW k \in EventKeys, event'[k].state # "none" PROVE event[k].state # "none" \/ KnownKey(k)'
    <3>1. CASE k[1] = "repair"
      BY <2>1, <3>1
    <3>2. CASE k[1] # "repair"
      BY <3>2, KeyKinds DEF KnownKey
    <3> QED
      BY <3>1, <3>2
  <2> QED
    BY <2>1, KnownKept DEF Live
<1>4. event'[CurrentKey'].state = "none" /\ CurrentKey' \notin keys'
  BY NewVersion
<1>5. RepairInv' /\ CoverInv'
  BY <1>4 DEF RepairInv, CoverInv
<1> QED
  BY <1>1, <1>2, <1>3, <1>5, SlotsKept, InboxesKept

LEMMA VoteCommitStep ==
  ASSUME UpdatesInv, VoteCommit
  PROVE  UpdatesInv'
<1> USE DEF UpdatesInv
<1>1. /\ UNCHANGED <<jobs, slot, queue, keys, post, seen, faults>> /\ vote.pc \in {"covered", "record"}
      /\ vote' = NoVote
  BY DEF VoteCommit
<1>2. vote' \in Ballots /\ vote'.pc = "idle" /\ vote'.events = {} /\ vote'.jobs = {}
  BY <1>1, Bounds DEF NoVote, Ballots
<1>3. /\ current'.edit = current.edit /\ current'.poll = current.poll + 1 /\ current'.poll \in Polls
      /\ current' \in Version
  <2>1. current.poll < MaxPolls /\ current' = [current EXCEPT !.poll = @ + 1]
    BY <1>1 DEF VoteInv, VoteCommit
  <2>2. current.poll + 1 \in Polls
    BY <2>1, CurrentFacts, Bounds DEF Polls
  <2> QED
    BY <2>1, <2>2, CurrentFacts DEF Version
<1>4. Grows /\ current'.poll > current.poll
  BY <1>3, CurrentFacts DEF Grows
<1>5. TallyKey(current'.poll) \notin keys'
  BY <1>1, <1>4, NewVersion
<1>6. event \in Events /\ vote.events \subseteq PollFamily /\ vote.jobs \subseteq JobIds
      /\ vote.job \in 0 .. MaxJobs
      /\ \A k \in vote.events : Pending(k)
  BY DEF TypeOK, Events
<1>7. PollJobs' = PollJobs /\ \A j \in JobIds : Live(j)' <=> Live(j)
  BY <1>1 DEF PollJobs, Live
<1>8. CASE vote.pc = "record"
  <2>1. PICK k \in PollFamily : k = PollKey(vote.job)
    BY <1>6, KeysExist
  <2>2. PICK new : new = NewEvent(current.edit, current.poll + 1)
    OBVIOUS
  <2>3. event' = [event EXCEPT ![k] = new] /\ k \in EventKeys
    BY <1>8, <2>1, <2>2, KeysExist DEF VoteCommit
  <2>4. /\ new.state = "pending" /\ new.edit = current.edit
        /\ new \in [state : {"none", "pending", "sent"}, edit : Edits, poll : Polls]
    BY <1>3, <2>2, CurrentFacts DEF NewEvent
  <2>5. event' \in Events /\ event'[k] = new /\ \A l \in EventKeys : l # k => event'[l] = event[l]
    BY <1>6, <2>3, <2>4 DEF Events
  <2>6. \A l \in EventKeys : l[1] = "repair" => event'[l] = event[l]
    BY <2>1, <2>5, KeyKinds
  <2>7. UsefulEvent(k)'
    BY <1>3, <1>5, <2>3, <2>4, <2>5, KeyKinds DEF UsefulEvent, Useful, Pending
  <2>8. \A l \in PollFamily : Pending(l)' => l = k
    BY <1>8, <2>1, <2>5, KeysExist DEF VoteInv, Pending
  <2>9. OneInv'
    BY <1>1, <1>7, <1>8, <2>8 DEF OneInv, VoteInv
  <2> QED
    BY <1>1, <1>2, <1>4, <2>3, <2>5, <2>6, <2>7, <2>9, NewVersionStep
<1>9. CASE vote.pc = "covered"
  <2>1. event' = event
    BY <1>9 DEF VoteCommit
  <2>2. OneInv'
    BY <1>1, <1>7, <2>1 DEF OneInv, Pending
  <2>3. (\E k \in EventKeys : UsefulEvent(k)') \/ \E j \in JobIds : UsefulJob(j)'
    <3>1. CASE vote.events # {}
      <4>1. PICK k \in vote.events : k \in PollFamily /\ k \in EventKeys /\ Pending(k)
        BY <1>6, <3>1, KeysExist
      <4> QED
        BY <1>5, <2>1, <4>1, KeyKinds DEF UsefulEvent, Useful, Pending
    <3>2. CASE \E j \in vote.jobs \cap PollJobs : jobs[j].state = "queued"
      <4>1. PICK j \in PollJobs : jobs[j].state = "queued"
        BY <3>2
      <4>2. j \in JobIds /\ jobs[j].key \in PollFamily
        BY DEF PollJobs
      <4> QED
        BY <1>1, <1>5, <4>1, <4>2, KeyKinds DEF UsefulJob, Useful, Holds, Live
    <3> QED
      BY <1>9, <3>1, <3>2 DEF VoteInv
  <2> QED
    BY <1>1, <1>2, <1>4, <1>6, <2>1, <2>2, <2>3, NewVersionStep
<1> QED
  BY <1>1, <1>8, <1>9

LEMMA EditStep ==
  ASSUME UpdatesInv, Edit
  PROVE  UpdatesInv'
<1> USE DEF UpdatesInv
<1>1. /\ UNCHANGED <<vote, jobs, slot, queue, keys, post, seen, faults>> /\ vote.pc = "idle"
      /\ current.edit < MaxEdits
  BY DEF Edit, CanEdit
<1>2. vote' \in Ballots /\ vote'.pc = "idle" /\ vote'.events = {} /\ vote'.jobs = {}
  BY <1>1 DEF TypeOK, Ballots
<1>3. /\ current'.edit = current.edit + 1 /\ current'.poll = current.poll /\ current'.edit \in Edits
      /\ current' \in Version
  <2>1. current.edit + 1 \in Edits
    BY <1>1, CurrentFacts, Bounds DEF Edits
  <2> QED
    BY <2>1, CurrentFacts DEF Version, Edit
<1>4. Grows /\ current'.edit > current.edit
  BY <1>3, CurrentFacts DEF Grows
<1>5. EditKey(current'.edit) \notin keys'
  BY <1>1, <1>4, NewVersion
<1>6. PICK k \in EventKeys : k = EditKey(current'.edit)
  BY <1>3, KeysExist
<1>7. PICK new : new = NewEvent(current'.edit, current.poll)
  OBVIOUS
<1>8. event' = [event EXCEPT ![k] = new] /\ event \in Events /\ k[1] = "status"
  BY <1>3, <1>6, <1>7, KeyKinds DEF Edit, TypeOK, Events
<1>9. new \in [state : {"none", "pending", "sent"}, edit : Edits, poll : Polls] /\ new.state = "pending"
  BY <1>3, <1>7, CurrentFacts DEF NewEvent
<1>10. event' \in Events /\ event'[k] = new /\ \A l \in EventKeys : l # k => event'[l] = event[l]
  BY <1>8, <1>9 DEF Events
<1>11. UsefulEvent(k)'
  BY <1>5, <1>8, <1>9, <1>10 DEF UsefulEvent, Useful, Pending
<1>12. \A l \in EventKeys : l[1] = "repair" => event'[l] = event[l]
  BY <1>8, <1>10
<1>13. \A l \in PollFamily : event'[l] = event[l]
  BY <1>8, <1>10, KeyKinds, KeysExist
<1>14. OneInv'
  BY <1>1, <1>13, VotesKept
<1> QED
  BY <1>1, <1>2, <1>4, <1>10, <1>11, <1>12, <1>14, NewVersionStep

LEMMA PollExpiresStep ==
  ASSUME UpdatesInv, PollExpires
  PROVE  UpdatesInv'
<1> USE DEF UpdatesInv
<1>1. /\ UNCHANGED <<vote, jobs, slot, queue, keys, post, seen, faults>> /\ vote.pc = "idle"
      /\ current.poll < MaxPolls /\ event[ExpiredKey].state = "none"
      /\ RecordOnce(ExpiredKey, current.edit, current.poll + 1)
  BY DEF PollExpires, CanChangePoll
<1>2. vote' \in Ballots /\ vote'.pc = "idle" /\ vote'.events = {} /\ vote'.jobs = {}
  BY <1>1 DEF TypeOK, Ballots
<1>3. /\ current'.edit = current.edit /\ current'.poll = current.poll + 1 /\ current'.poll \in Polls
      /\ current' \in Version
  <2>1. current.poll + 1 \in Polls
    BY <1>1, CurrentFacts, Bounds DEF Polls
  <2> QED
    BY <2>1, CurrentFacts DEF Version, PollExpires
<1>4. Grows /\ current'.poll > current.poll
  BY <1>3, CurrentFacts DEF Grows
<1>5. TallyKey(current'.poll) \notin keys'
  BY <1>1, <1>4, NewVersion
<1>6. ExpiredKey \in EventKeys /\ current.edit \in Edits /\ current.poll + 1 \in Polls
  BY <1>3, CurrentFacts, KeysExist
<1>7. /\ event' \in Events /\ event'[ExpiredKey] = NewEvent(current.edit, current.poll + 1)
      /\ \A l \in EventKeys : l # ExpiredKey => event'[l] = event[l]
  BY <1>1, <1>6, RecordedOnce
<1>8. UsefulEvent(ExpiredKey)'
  <2>1. event'[ExpiredKey].state = "pending"
    BY <1>7 DEF NewEvent
  <2> QED
    BY <1>5, <2>1, KeyKinds DEF UsefulEvent, Useful, Pending, ExpiredKey
<1>9. \A l \in EventKeys : l[1] = "repair" => event'[l] = event[l]
  BY <1>7, KeyKinds
<1>10. \A l \in PollFamily : event'[l] = event[l]
  BY <1>7, KeyKinds, KeysExist
<1>11. OneInv'
  BY <1>1, <1>10, VotesKept
<1> QED
  BY <1>1, <1>2, <1>4, <1>6, <1>7, <1>8, <1>9, <1>11, NewVersionStep

-----------------------------------------------------------------------------
(* The outbox and the queue.                                                 *)
LEMMA DispatchStep ==
  ASSUME UpdatesInv, NEW k \in EventKeys, Dispatch(k)
  PROVE  UpdatesInv'
<1> USE DEF UpdatesInv
<1>1. /\ UNCHANGED <<current, vote, slot, queue, keys, post, seen, faults>>
      /\ Pending(k) /\ k \notin vote.events /\ Grows /\ event \in Events /\ jobs \in [JobIds -> Job]
  BY SameVersion DEF Dispatch, TypeOK, Events
<1>2. PICK new : new = [state |-> "queued", key |-> k, gen |-> 0,
                          edit |-> event[k].edit, poll |-> event[k].poll]
  OBVIOUS
<1>3. PICK m \in JobIds : jobs[m].state = "none" /\ jobs' = [jobs EXCEPT ![m] = new]
  <2> DEFINE free == {i \in JobIds : jobs[i].state = "none"}
  <2>1. free # {} /\ jobs' = [jobs EXCEPT ![Min(free)] =
                       [state |-> "queued", key |-> k, gen |-> 0,
                        edit |-> event[k].edit, poll |-> event[k].poll]]
    BY DEF Dispatch
  <2>2. Min(free) \in free
    BY <2>1, MinFacts
  <2> QED
    BY <1>2, <2>1, <2>2
<1>4. new \in Job /\ new.state = "queued" /\ new.key = k /\ new.gen = 0
      /\ new.edit = event[k].edit /\ new.poll = event[k].poll
  BY <1>1, <1>2 DEF Job, Events
<1>5. jobs' \in [JobIds -> Job] /\ jobs'[m] = new /\ \A j \in JobIds : j # m => jobs'[j] = jobs[j]
  BY <1>1, <1>3, <1>4
<1>6. event' \in Events /\ event'[k].state = "sent" /\ \A l \in EventKeys : l # k => event'[l] = event[l]
  <2>1. /\ SentEvent \in [state : {"none", "pending", "sent"}, edit : Edits, poll : Polls]
        /\ SentEvent.state = "sent"
    BY Bounds DEF SentEvent, NoEvent, Edits, Polls
  <2>2. event' = [event EXCEPT ![k] = SentEvent]
    BY DEF Dispatch
  <2> QED
    BY <1>1, <2>1, <2>2 DEF Events
<1>7. /\ ~Live(m) /\ Live(m)' /\ \A j \in JobIds : j # m => (Live(j)' <=> Live(j))
      /\ m \notin PollJobs /\ PollJobs' = IF k \in PollFamily THEN PollJobs \cup {m} ELSE PollJobs
  <2>1. ~Live(m) /\ Live(m)' /\ \A j \in JobIds : j # m => (Live(j)' <=> Live(j))
    BY <1>3, <1>4, <1>5 DEF Live
  <2>2. \A j \in JobIds : j \in PollJobs' <=> (j \in PollJobs \/ (j = m /\ k \in PollFamily))
    BY <1>4, <1>5, <2>1 DEF PollJobs
  <2> QED
    BY <2>1, <2>2 DEF PollJobs
<1>8. ~Pending(k)' /\ \A l \in EventKeys : l # k => (Pending(l)' <=> Pending(l))
  BY <1>6 DEF Pending
<1>9. TypeOK'
  <2>1. Locks'
    BY <1>1, <1>7, <1>8, KeysExist DEF TypeOK, Locks
  <2> QED
    BY <1>1, <1>5, <1>6, <2>1 DEF TypeOK, Locks, Events
<1>10. VoteInv'
  <2>1. vote.jobs \subseteq JobIds /\ \A j \in vote.jobs : Live(j)
    BY DEF TypeOK
  <2>2. vote.pc \in {"jobs", "record"} => k \notin PollFamily /\ \A l \in PollFamily : ~Pending(l)'
    BY <1>1, <1>8, KeysExist DEF VoteInv
  <2>3. vote.pc = "covered" =>
          vote.events # {} \/ \E j \in vote.jobs \cap PollJobs : jobs'[j].state = "queued"
    BY <1>5, <1>7, <2>1 DEF VoteInv
  <2>4. vote.pc = "record" => PollJobs' = PollJobs /\ \A j \in PollJobs : jobs'[j].gen > 0
    <3>1. PollJobs \subseteq JobIds
      BY DEF PollJobs
    <3> QED
      BY <1>5, <1>7, <2>2, <3>1 DEF VoteInv
  <2>5. vote.pc # "idle" => current.poll < MaxPolls
    BY DEF VoteInv
  <2>6. PollJobs \subseteq PollJobs'
    BY <1>7
  <2> QED
    BY <1>1, <2>2, <2>3, <2>4, <2>5, <2>6 DEF VoteInv
<1>11. OneInv'
  <2>1. PollJobs \subseteq JobIds
    BY DEF PollJobs
  <2>2. \A j \in JobIds : jobs'[j].state = "leased" => jobs'[j].gen > 0
    BY <1>4, <1>5 DEF OneInv
  <2>3. CASE k \in PollFamily
    <3>1. \A l \in PollFamily : ~Pending(l)'
      BY <1>1, <1>8, <2>3, KeysExist DEF OneInv
    <3>2. \A j \in PollJobs : jobs'[j].gen > 0 /\ jobs[j].gen > 0
      BY <1>1, <1>5, <1>7, <2>1, <2>3 DEF OneInv
    <3>3. \A j \in PollJobs' : jobs'[j].gen = 0 => j = m
      BY <1>7, <3>2
    <3> QED
      BY <2>2, <3>1, <3>3 DEF OneInv
  <2>4. CASE k \notin PollFamily
    <3>1. PollJobs' = PollJobs /\ \A j \in PollJobs : jobs'[j] = jobs[j]
      BY <1>5, <1>7, <2>1, <2>4
    <3>2. \A l \in PollFamily : Pending(l)' <=> Pending(l)
      BY <1>8, <2>4, KeysExist
    <3> QED
      BY <2>2, <3>1, <3>2 DEF OneInv
  <2> QED
    BY <2>3, <2>4
<1>12. KnownInv'
  <2>1. KnownKey(k)'
    BY <1>1, KnownGrows DEF KnownInv, Pending
  <2>2. ASSUME NEW j \in JobIds, Live(j)'
        PROVE  (Live(j) /\ jobs'[j].key = jobs[j].key) \/ KnownKey(jobs[j].key)'
    BY <1>4, <1>5, <1>7, <2>1, <2>2
  <2>3. \A l \in EventKeys : event'[l].state # "none" => event[l].state # "none"
    BY <1>1, <1>6 DEF Pending
  <2> QED
    BY <1>1, <2>2, <2>3, KnownKept
<1>13. \A s \in Slots : SlotInv(s)'
  <2>1. \A j \in JobIds : Ages(j) /\ jobs'[j].gen \in Nat
    BY <1>3, <1>4, <1>5, <1>7, JobTypes DEF Ages, Same
  <2> QED
    BY <1>1, <2>1, SlotKept
<1>14. \A i \in Inboxes : InboxInv(i)'
  BY <1>1, InboxesKept
<1>15. RepairInv'
  <2>1. OnItsWay => OnItsWay'
    <3>1. CurrentKey' = CurrentKey /\ CurrentKey \in EventKeys
      BY <1>1, CurrentFacts DEF CurrentKey
    <3>2. CASE CurrentKey = k
      BY <1>4, <1>5, <1>7, <3>1, <3>2 DEF OnItsWay
    <3>3. CASE CurrentKey # k
      <4>1. Pending(CurrentKey)' <=> Pending(CurrentKey)
        BY <1>8, <3>1, <3>3 DEF Pending
      <4> QED
        BY <1>5, <1>7, <3>1, <4>1 DEF OnItsWay
    <3> QED
      BY <3>2, <3>3
  <2>2. event'[CurrentKey].state # "none" => event[CurrentKey].state # "none"
    BY <1>1, <1>6, CurrentFacts DEF Pending
  <2>3. \A i \in Inboxes : seen[i] = current \/ Queued(i) => seen'[i] = current \/ Queued(i)'
    BY <1>1, ServedKept
  <2> QED
    BY <1>1, <2>1, <2>2, <2>3, RepairKept
<1>16. CoverInv'
  <2>1. event'[CurrentKey].state = "none" => event[CurrentKey].state = "none"
    BY <1>6, CurrentFacts
  <2>2. ASSUME NEW l \in EventKeys, UsefulEvent(l) PROVE UsefulEvent(l)' \/ \E j \in JobIds : UsefulJob(j)'
    <3>1. CASE l # k
      BY <1>1, <1>6, <2>2, <3>1, EventStaysUseful
    <3>2. CASE l = k
      <4>1. Useful(k, new.edit, new.poll)
        BY <1>4, <2>2, <3>2 DEF UsefulEvent
      <4>2. Useful(k, new.edit, new.poll)'
        BY <1>1, <4>1, UsefulKept
      <4>3. \A s \in Slots : slot'[s].job = m => ~Holds(s)'
        BY <1>4, <1>5 DEF Holds
      <4>4. UsefulJob(m)'
        BY <1>4, <1>5, <1>7, <4>2, <4>3 DEF UsefulJob
      <4> QED
        BY <4>4
    <3> QED
      BY <3>1, <3>2
  <2>3. ASSUME NEW j \in JobIds, UsefulJob(j) PROVE UsefulJob(j)'
    <3>1. j # m /\ Live(j)' /\ jobs'[j] = jobs[j]
      BY <1>5, <1>7, <2>3 DEF UsefulJob
    <3>2. \A s \in Slots : slot'[s].job = j /\ Holds(s)' => slot'[s] = slot[s] /\ Holds(s)
      BY <1>1, <3>1 DEF Holds
    <3> QED
      BY <1>1, <2>3, <3>1, <3>2, JobStaysUseful DEF Same
  <2>4. \A i \in Inboxes : Served(i) => Served(i)'
    BY <1>1, ServedKept
  <2> QED
    BY <1>1, <2>1, <2>2, <2>3, <2>4, CoverKept
<1> QED
  BY <1>9, <1>10, <1>11, <1>12, <1>13, <1>14, <1>15, <1>16

LEMMA ClaimStep ==
  ASSUME UpdatesInv, NEW s \in Slots, NEW j \in JobIds, Claim(s, j)
  PROVE  UpdatesInv'
<1> USE DEF UpdatesInv
<1>1. /\ UNCHANGED <<current, vote, event, queue, keys, post, seen, faults>> /\ Grows
      /\ slot[s].pc = "idle" /\ jobs[j].state = "queued" /\ j \notin vote.jobs /\ jobs \in [JobIds -> Job]
  BY SameVersion DEF Claim, TypeOK
<1>2. PICK row : row = jobs'[j]
  OBVIOUS
<1>3. /\ jobs' \in [JobIds -> Job] /\ row.state = "leased" /\ row.gen = jobs[j].gen + 1
      /\ row.key = jobs[j].key /\ row.edit = jobs[j].edit /\ row.poll = jobs[j].poll
      /\ \A i \in JobIds : i # j => jobs'[i] = jobs[i]
  <2>1. jobs' = [jobs EXCEPT ![j].state = "leased", ![j].gen = @ + 1]
    BY DEF Claim
  <2>2. jobs[j] \in Job /\ jobs[j].gen + 1 \in Nat
    BY <1>1, JobTypes
  <2>3. jobs'[j] = [jobs[j] EXCEPT !.state = "leased", !.gen = @ + 1]
    BY <1>1, <2>1
  <2>4. row \in Job /\ row.state = "leased" /\ row.gen = jobs[j].gen + 1
        /\ row.key = jobs[j].key /\ row.edit = jobs[j].edit /\ row.poll = jobs[j].poll
    BY <1>2, <2>2, <2>3 DEF Job
  <2> QED
    BY <1>1, <1>2, <2>1, <2>4
<1>4. PICK new : new = slot'[s]
  OBVIOUS
<1>5. /\ slot' = [slot EXCEPT ![s] = new] /\ new.pc = "status" /\ new.job = j /\ new.gen = jobs[j].gen + 1
      /\ new.spec = jobs[j] /\ new.edit = 0 /\ new.poll = 0 /\ new.tally = 0
      /\ new = [pc |-> "status", job |-> j, gen |-> jobs[j].gen + 1, spec |-> jobs[j],
                 edit |-> 0, poll |-> 0, tally |-> 0]
  <2>1. slot' = [slot EXCEPT ![s] = [IdleSlot EXCEPT !.pc = "status", !.job = j,
                                      !.gen = jobs[j].gen + 1, !.spec = jobs[j]]]
    BY DEF Claim
  <2>2. new = [IdleSlot EXCEPT !.pc = "status", !.job = j, !.gen = jobs[j].gen + 1, !.spec = jobs[j]]
    BY <1>4, <2>1 DEF TypeOK
  <2> QED
    BY <2>1, <2>2 DEF IdleSlot
<1>6. \A t \in Slots : t # s => slot'[t] = slot[t]
  BY <1>5 DEF TypeOK
<1>7. /\ \A i \in JobIds : Live(i)' <=> Live(i)
      /\ \A i \in JobIds : Ages(i) /\ jobs'[i].gen \in Nat /\ Same(jobs[i], jobs'[i])
      /\ PollJobs' = PollJobs
  <2>1. \A i \in JobIds : (Live(i)' <=> Live(i)) /\ Same(jobs[i], jobs'[i])
    BY <1>1, <1>2, <1>3 DEF Live, Same
  <2>2. \A i \in JobIds : Ages(i) /\ jobs'[i].gen \in Nat
    BY <1>1, <1>2, <1>3, <2>1, JobTypes DEF Ages
  <2> QED
    BY <2>1, <2>2 DEF PollJobs, Same
<1>8. Locks' /\ VoteInv' /\ OneInv'
  <2>1. Locks /\ vote.jobs \subseteq JobIds
    BY DEF TypeOK, Locks
  <2>2. \A k : Pending(k)' <=> Pending(k)
    BY <1>1 DEF Pending
  <2>3. PollJobs \subseteq JobIds
    BY DEF PollJobs
  <2>4. \A i \in JobIds : jobs'[i].gen = 0 => jobs[i].gen = 0
    BY <1>2, <1>3, JobTypes
  <2>5. \A i \in JobIds : i # j => jobs'[i] = jobs[i]
    BY <1>3
  <2>6. \A i \in JobIds : jobs'[i].state = "leased" => jobs'[i].gen > 0
    BY <1>2, <1>3, JobTypes DEF OneInv
  <2>7. VoteInv'
    BY <1>1, <1>7, <2>1, <2>2, <2>3, <2>4, <2>5, JobTypes DEF VoteInv
  <2>8. OneInv'
    BY <1>7, <2>2, <2>3, <2>4, <2>6, JobTypes DEF OneInv
  <2>9. Locks'
    BY <1>1, <1>7, <2>1, <2>2 DEF Locks
  <2> QED
    BY <2>7, <2>8, <2>9
<1>9. TypeOK'
  <2>1. new \in [pc : {"idle", "status", "poll", "repair", "tally", "record", "done"},
                 job : 0 .. MaxJobs, gen : Nat, spec : Job, edit : Edits, poll : Polls, tally : Polls]
    <3>1. jobs[j] \in Job /\ jobs[j].gen + 1 \in Nat /\ j \in 0 .. MaxJobs /\ 0 \in Edits /\ 0 \in Polls
      BY <1>1, JobTypes, Bounds DEF Edits, Polls, JobIds
    <3> QED
      BY <1>5, <3>1
  <2> QED
    BY <1>1, <1>3, <1>5, <1>8, <2>1 DEF TypeOK, Locks
<1>10. KnownInv'
  BY <1>1, <1>7, KnownKept DEF Same
<1>11. ASSUME NEW t \in Slots PROVE SlotInv(t)'
  <2>1. CASE t # s
    BY <1>1, <1>6, <1>7, <2>1, SlotKept
  <2>2. CASE t = s
    <3>1. slot'[s] = new /\ j # 0 /\ slot'[s].job = j
      BY <1>4, <1>5 DEF JobIds
    <3>2. JobInv(s)'
      <4>1. /\ slot'[s].pc = "status" /\ slot'[s].gen = jobs'[j].gen /\ jobs'[j].gen \in Nat
            /\ slot'[s].spec = jobs[j] /\ jobs'[j].state = "leased"
        BY <1>2, <1>3, <1>5, <1>7, <3>1
      <4>2. Same(slot'[s].spec, jobs'[j])
        BY <1>7, <4>1
      <4> QED
        BY <3>1, <4>1, <4>2 DEF JobInv
    <3>3. RepairerInv(s)'
      BY <1>5, <3>1 DEF RepairerInv
    <3>4. KnownKey(jobs[j].key)
      BY <1>1 DEF KnownInv, Live
    <3>5. KnownKey(slot[s].spec.key)'
      <4>1. slot'[s].spec.key = jobs[j].key
        BY <1>5, <3>1
      <4> QED
        BY <1>1, <3>4, <4>1 DEF KnownKey, Known
    <3>6. /\ Known(slot[s].edit, slot[s].poll)' /\ slot'[s].tally <= current'.poll
          /\ slot'[s].pc = "record" => slot'[s].poll <= slot'[s].tally
      <4>1. /\ slot'[s].edit = 0 /\ slot'[s].poll = 0 /\ slot'[s].tally = 0 /\ slot'[s].pc # "record"
            /\ current'.edit = current.edit /\ current'.poll = current.poll
        BY <1>1, <1>5, <3>1
      <4> QED
        BY <4>1, CurrentFacts DEF Known
    <3> QED
      BY <2>2, <3>2, <3>3, <3>5, <3>6 DEF SlotInv
  <2> QED
    BY <2>1, <2>2
<1>12. \A i \in Inboxes : InboxInv(i)'
  BY <1>1, InboxesKept
<1>13. RepairInv'
  <2>1. OnItsWay => OnItsWay'
    BY <1>1, <1>7 DEF OnItsWay, CurrentKey, Pending, Same
  <2>2. \A i \in Inboxes : seen[i] = current \/ Queued(i) => seen'[i] = current \/ Queued(i)'
    BY <1>1, ServedKept
  <2> QED
    BY <1>1, <2>1, <2>2, RepairKept
<1>14. CoverInv'
  <2>1. ASSUME NEW i \in JobIds, UsefulJob(i) PROVE UsefulJob(i)'
    <3>1. Live(i)' /\ Same(jobs[i], jobs'[i])
      BY <1>7, <2>1 DEF UsefulJob
    <3>2. ASSUME NEW t \in Slots, slot'[t].job = i, Holds(t)'
          PROVE  Fresh(t)' \/ (slot'[t] = slot[t] /\ Holds(t))
      <4>1. CASE t = s
        BY <1>4, <1>5, <4>1 DEF Fresh
      <4>2. CASE t # s /\ i = j
        <5>1. slot[t].job = j /\ slot[t].gen <= jobs[j].gen /\ j # 0 /\ slot'[t] = slot[t]
          BY <1>1, <1>6, <3>2, <4>2 DEF SlotInv, JobInv, Live, JobIds
        <5>2. slot[t].gen = jobs[j].gen + 1
          BY <1>2, <1>3, <3>2, <4>2, <5>1 DEF Holds
        <5> QED
          BY <5>1, <5>2, JobTypes, SlotTypes
      <4>3. CASE t # s /\ i # j
        BY <1>3, <1>6, <3>2, <4>3 DEF Holds
      <4> QED
        BY <4>1, <4>2, <4>3
    <3> QED
      BY <1>1, <2>1, <3>1, <3>2, JobStaysUseful
  <2>2. \A k \in EventKeys : UsefulEvent(k) => UsefulEvent(k)'
    BY <1>1, EventStaysUseful
  <2>3. \A i \in Inboxes : Served(i) => Served(i)'
    BY <1>1, ServedKept
  <2> QED
    BY <1>1, <2>1, <2>2, <2>3, CoverKept
<1> QED
  BY <1>8, <1>9, <1>10, <1>11, <1>12, <1>13, <1>14

LEMMA LapseStep ==
  ASSUME UpdatesInv, NEW j \in JobIds, Lapse(j), faults' \in 0 .. MaxFaults
  PROVE  UpdatesInv'
<1> USE DEF UpdatesInv
<1>1. /\ UNCHANGED <<current, vote, event, slot, queue, keys, post, seen>> /\ Grows
      /\ jobs[j].state = "leased" /\ jobs \in [JobIds -> Job]
  BY SameVersion DEF Lapse, TypeOK
<1>2. /\ jobs' \in [JobIds -> Job] /\ jobs'[j].state = "queued" /\ Same(jobs[j], jobs'[j])
      /\ jobs'[j].gen = jobs[j].gen /\ \A i \in JobIds : i # j => jobs'[i] = jobs[i]
  <2>1. jobs' = [jobs EXCEPT ![j].state = "queued"]
    BY DEF Lapse
  <2>2. jobs'[j] = [jobs[j] EXCEPT !.state = "queued"] /\ jobs[j] \in Job
    BY <1>1, <2>1
  <2>3. /\ jobs'[j] \in Job /\ jobs'[j].state = "queued" /\ Same(jobs[j], jobs'[j])
        /\ jobs'[j].gen = jobs[j].gen
    BY <2>2 DEF Job, Same
  <2> QED
    BY <1>1, <2>1, <2>3
<1>3. /\ \A i \in JobIds : (Live(i)' <=> Live(i)) /\ Same(jobs[i], jobs'[i]) /\ jobs'[i].gen = jobs[i].gen
      /\ \A i \in JobIds : Ages(i) /\ jobs'[i].gen \in Nat
      /\ PollJobs' = PollJobs
  <2>1. \A i \in JobIds : (Live(i)' <=> Live(i)) /\ Same(jobs[i], jobs'[i]) /\ jobs'[i].gen = jobs[i].gen
    BY <1>1, <1>2 DEF Live, Same
  <2>2. \A i \in JobIds : Ages(i) /\ jobs'[i].gen \in Nat
    BY <1>1, <1>2, <2>1, JobTypes DEF Ages
  <2> QED
    BY <2>1, <2>2 DEF PollJobs, Same
<1>4. Locks' /\ VoteInv' /\ OneInv'
  <2>1. Locks /\ vote.jobs \subseteq JobIds /\ PollJobs \subseteq JobIds
    BY DEF TypeOK, Locks, PollJobs
  <2>2. \A k : Pending(k)' <=> Pending(k)
    BY <1>1 DEF Pending
  <2>3. \A i \in JobIds : jobs[i].state = "queued" => jobs'[i].state = "queued"
    BY <1>2
  <2>4. \A i \in JobIds : jobs'[i].state = "leased" => jobs[i].state = "leased"
    BY <1>2
  <2>5. VoteInv'
    BY <1>1, <1>3, <2>1, <2>2, <2>3 DEF VoteInv
  <2>6. OneInv'
    BY <1>3, <2>1, <2>2, <2>4 DEF OneInv
  <2>7. Locks'
    BY <1>1, <1>3, <2>1, <2>2 DEF Locks
  <2> QED
    BY <2>5, <2>6, <2>7
<1>5. TypeOK'
  BY <1>1, <1>2, <1>4 DEF TypeOK, Locks
<1>6. KnownInv'
  BY <1>1, <1>3, KnownKept DEF Same
<1>7. \A s \in Slots : SlotInv(s)'
  BY <1>1, <1>3, SlotKept
<1>8. \A i \in Inboxes : InboxInv(i)'
  BY <1>1, InboxesKept
<1>9. RepairInv'
  <2>1. OnItsWay => OnItsWay'
    BY <1>1, <1>3 DEF OnItsWay, CurrentKey, Pending, Same
  <2>2. \A i \in Inboxes : seen[i] = current \/ Queued(i) => seen'[i] = current \/ Queued(i)'
    BY <1>1, ServedKept
  <2> QED
    BY <1>1, <2>1, <2>2, RepairKept
<1>10. CoverInv'
  <2>1. ASSUME NEW i \in JobIds, UsefulJob(i) PROVE UsefulJob(i)'
    <3>1. Live(i)' /\ Same(jobs[i], jobs'[i])
      BY <1>3, <2>1 DEF UsefulJob
    <3>2. ASSUME NEW t \in Slots, slot'[t].job = i, Holds(t)' PROVE slot'[t] = slot[t] /\ Holds(t)
      BY <1>1, <1>2, <3>2 DEF Holds
    <3> QED
      BY <1>1, <2>1, <3>1, <3>2, JobStaysUseful
  <2>2. \A k \in EventKeys : UsefulEvent(k) => UsefulEvent(k)'
    BY <1>1, EventStaysUseful
  <2>3. \A i \in Inboxes : Served(i) => Served(i)'
    BY <1>1, ServedKept
  <2> QED
    BY <1>1, <2>1, <2>2, <2>3, CoverKept
<1> QED
  BY <1>4, <1>5, <1>6, <1>7, <1>8, <1>9, <1>10

-----------------------------------------------------------------------------
(* A slot that reads, or that ends its job.                                  *)
SlotType ==
  [pc : {"idle", "status", "poll", "repair", "tally", "record", "done"},
   job : 0 .. MaxJobs, gen : Nat, spec : Job, edit : Edits, poll : Polls, tally : Polls]

LEMMA IdleSlotFacts ==
  ASSUME TypeOK, current' = current, NEW s \in Slots, slot'[s] = IdleSlot
  PROVE  IdleSlot \in SlotType /\ IdleSlot.job = 0 /\ SlotInv(s)'
<1>1. NoJob.key = PollKey(0) /\ PollKey(0) \in EventKeys /\ 0 \in Edits /\ 0 \in Polls
      /\ PollKey(0)[1] = "poll"
  BY KeysExist, KeyKinds, Bounds DEF NoJob, Edits, Polls
<1>2. NoJob \in Job
  BY <1>1 DEF NoJob, Job
<1>3. /\ IdleSlot \in SlotType /\ IdleSlot.pc = "idle" /\ IdleSlot.job = 0 /\ IdleSlot.spec = NoJob
      /\ IdleSlot.edit = 0 /\ IdleSlot.poll = 0 /\ IdleSlot.tally = 0
  BY <1>1, <1>2, Bounds DEF IdleSlot, SlotType
<1>4. JobInv(s)'
  BY <1>3 DEF JobInv
<1>5. \A e, p : slot'[s].spec.key # RepairKey(e, p)
  BY <1>1, <1>3, KeyKinds
<1>6. RepairerInv(s)' /\ KnownKey(slot[s].spec.key)'
  BY <1>5 DEF RepairerInv, KnownKey
<1>7. /\ Known(slot[s].edit, slot[s].poll)' /\ slot'[s].tally <= current'.poll
      /\ slot'[s].pc = "record" => slot'[s].poll <= slot'[s].tally
  BY <1>3, CurrentFacts DEF Known
<1> QED
  BY <1>3, <1>4, <1>6, <1>7 DEF SlotInv

LEMMA OnlyOneSlot ==
  ASSUME UpdatesInv, NEW s \in Slots, NEW w \in SlotType, slot' = [slot EXCEPT ![s] = w], SlotInv(s)',
         w.job # 0 => /\ w.job = slot[s].job /\ w.gen = slot[s].gen
                      /\ UsefulJob(w.job) /\ Fresh(s) => Fresh(s)',
         UNCHANGED <<current, vote, event, jobs, queue, keys, post, seen>>, faults' \in 0 .. MaxFaults
  PROVE  UpdatesInv'
<1> USE DEF UpdatesInv
<1>1. Grows /\ slot'[s] = w /\ \A t \in Slots : t # s => slot'[t] = slot[t]
  BY SameVersion DEF TypeOK
<1>2. VoteInv' /\ OneInv' /\ Locks'
  BY VotesKept
<1>3. TypeOK'
  BY <1>2 DEF TypeOK, Locks, SlotType
<1>4. KnownInv'
  BY <1>1, KnownKept DEF Live
<1>5. \A t \in Slots : SlotInv(t)'
  <2>1. \A j \in JobIds : Ages(j) /\ jobs'[j].gen \in Nat
    BY JobTypes DEF Ages, Live, Same
  <2> QED
    BY <1>1, <2>1, SlotKept
<1>6. \A i \in Inboxes : InboxInv(i)'
  BY <1>1, InboxesKept
<1>7. RepairInv'
  <2>1. OnItsWay => OnItsWay'
    BY WayKept DEF Pending
  <2>2. \A i \in Inboxes : seen[i] = current \/ Queued(i) => seen'[i] = current \/ Queued(i)'
    BY ServedKept
  <2> QED
    BY <2>1, <2>2, RepairKept
<1>8. CoverInv'
  <2>1. ASSUME NEW i \in JobIds, UsefulJob(i) PROVE UsefulJob(i)'
    <3>1. Live(i)' /\ Same(jobs[i], jobs'[i]) /\ i # 0
      BY <2>1, Bounds DEF UsefulJob, Live, Same, JobIds
    <3>2. ASSUME NEW t \in Slots, slot'[t].job = i, Holds(t)'
          PROVE  Fresh(t)' \/ (slot'[t] = slot[t] /\ Holds(t))
      <4>1. CASE t # s
        BY <1>1, <3>2, <4>1 DEF Holds
      <4>2. CASE t = s
        <5>1. slot[s].job = i /\ Holds(s) /\ (Fresh(s) => Fresh(s)')
          BY <1>1, <2>1, <3>1, <3>2, <4>2 DEF Holds
        <5> QED
          BY <2>1, <4>2, <5>1 DEF UsefulJob
      <4> QED
        BY <4>1, <4>2
    <3> QED
      BY <2>1, <3>1, <3>2, JobStaysUseful
  <2>2. \A k \in EventKeys : UsefulEvent(k) => UsefulEvent(k)'
    BY EventStaysUseful
  <2>3. \A i \in Inboxes : Served(i) => Served(i)'
    BY ServedKept
  <2> QED
    BY <2>1, <2>2, <2>3, CoverKept
<1> QED
  BY <1>2, <1>3, <1>4, <1>5, <1>6, <1>7, <1>8

LEMMA CrashStep ==
  ASSUME UpdatesInv, NEW s \in Slots, Crash(s)
  PROVE  UpdatesInv'
<1>1. /\ UNCHANGED <<current, vote, event, jobs, queue, keys, post, seen>>
      /\ slot' = [slot EXCEPT ![s] = IdleSlot] /\ slot'[s] = IdleSlot /\ faults' \in 0 .. MaxFaults /\ TypeOK
  <2>1. slot \in [Slots -> SlotType] /\ faults \in 0 .. MaxFaults /\ TypeOK
    BY DEF UpdatesInv, TypeOK, SlotType
  <2>2. slot' = [slot EXCEPT ![s] = IdleSlot] /\ faults' = faults + 1 /\ faults < MaxFaults
    BY DEF Crash, CanFail
  <2>3. faults' \in 0 .. MaxFaults
    BY <2>1, <2>2, Bounds
  <2> QED
    BY <2>1, <2>2, <2>3 DEF Crash
<1>2. IdleSlot \in SlotType /\ IdleSlot.job = 0 /\ SlotInv(s)'
  BY <1>1, IdleSlotFacts
<1> QED
  BY <1>1, <1>2, OnlyOneSlot

LEMMA SlotShape ==
  ASSUME TypeOK, NEW s \in Slots
  PROVE  slot[s] \in SlotType /\ slot \in [Slots -> SlotType]
BY DEF TypeOK, SlotType

LEMMA ReadStatusStep ==
  ASSUME UpdatesInv, NEW s \in Slots, ReadStatus(s)
  PROVE  UpdatesInv'
<1> USE DEF UpdatesInv
<1>1. /\ UNCHANGED <<current, vote, event, jobs, queue, keys, post, seen, faults>> /\ slot[s].pc = "status"
      /\ slot[s] \in SlotType /\ slot \in [Slots -> SlotType] /\ faults' \in 0 .. MaxFaults
  BY SlotShape DEF ReadStatus, TypeOK
<1>2. PICK w : w = [slot[s] EXCEPT !.pc = "poll", !.edit = current.edit]
  OBVIOUS
<1>3. slot' = [slot EXCEPT ![s] = w] /\ slot'[s] = w
  BY <1>1, <1>2 DEF ReadStatus
<1>4. /\ w \in SlotType /\ w.pc = "poll" /\ w.edit = current.edit /\ w.job = slot[s].job
      /\ w.gen = slot[s].gen /\ w.spec = slot[s].spec /\ w.poll = slot[s].poll /\ w.tally = slot[s].tally
  BY <1>1, <1>2, CurrentFacts DEF SlotType
<1>5. SlotInv(s)'
  <2>1. JobInv(s)'
    BY <1>1, <1>3, <1>4 DEF SlotInv, JobInv, Live, Same
  <2>2. ASSUME NEW e \in Edits, NEW p \in Polls, slot[s].spec.key = RepairKey(e, p) PROVE e <= current.edit
    BY <2>2 DEF SlotInv, KnownKey, Known
  <2>3. RepairerInv(s)'
    BY <1>3, <1>4, <2>2 DEF RepairerInv
  <2>4. KnownKey(slot[s].spec.key)'
    BY <1>1, <1>3, <1>4 DEF SlotInv, KnownKey, Known
  <2>5. /\ Known(slot[s].edit, slot[s].poll)' /\ slot'[s].tally <= current'.poll
        /\ slot'[s].pc = "record" => slot'[s].poll <= slot'[s].tally
    BY <1>1, <1>3, <1>4, CurrentFacts DEF SlotInv, Known
  <2> QED
    BY <2>1, <2>3, <2>4, <2>5 DEF SlotInv
<1>6. Fresh(s)'
  BY <1>1, <1>3, <1>4 DEF Fresh
<1> QED
  BY <1>1, <1>3, <1>4, <1>5, <1>6, OnlyOneSlot

(* Whether a slot needs a repair depends on what it was asked and has read.  *)
LEMMA RepairNeeded ==
  ASSUME NEW s \in Slots, NEW p
  PROVE  /\ slot[s].spec.key[1] = "repair" => ~NeedsRepair(s, p)
         /\ slot[s].spec.key[1] = "status" =>
              (NeedsRepair(s, p) <=> slot[s].edit # slot[s].spec.edit \/ p # slot[s].spec.poll)
         /\ slot[s].spec.key[1] \notin {"repair", "status"} =>
              (NeedsRepair(s, p) <=> slot[s].edit # slot[s].spec.edit)
<1>1. slot[s].spec.key[1] = "repair" => ~NeedsRepair(s, p)
  BY DEF NeedsRepair, Kind
<1>2. slot[s].spec.key[1] = "status" =>
              (NeedsRepair(s, p) <=> slot[s].edit # slot[s].spec.edit \/ p # slot[s].spec.poll)
  BY DEF NeedsRepair, Kind
<1>3. slot[s].spec.key[1] \notin {"repair", "status"} =>
              (NeedsRepair(s, p) <=> slot[s].edit # slot[s].spec.edit)
  BY DEF NeedsRepair, Kind
<1> QED
  BY <1>1, <1>2, <1>3

LEMMA ReadPollStep ==
  ASSUME UpdatesInv, NEW s \in Slots, ReadPoll(s)
  PROVE  UpdatesInv'
<1> USE DEF UpdatesInv
<1>1. /\ UNCHANGED <<current, vote, event, jobs, queue, keys, post, seen, faults>> /\ slot[s].pc = "poll"
      /\ slot[s] \in SlotType /\ slot \in [Slots -> SlotType] /\ faults' \in 0 .. MaxFaults
  BY SlotShape DEF ReadPoll, TypeOK
<1>2. PICK pc : pc = IF NeedsRepair(s, current.poll) THEN "repair" ELSE "tally"
  OBVIOUS
<1>3. PICK w : w = [slot[s] EXCEPT !.poll = current.poll, !.pc = pc]
  OBVIOUS
<1>4. slot' = [slot EXCEPT ![s] = w] /\ slot'[s] = w
  BY <1>1, <1>2, <1>3 DEF ReadPoll
<1>5. /\ w \in SlotType /\ w.pc = pc /\ w.poll = current.poll /\ w.job = slot[s].job
      /\ w.gen = slot[s].gen /\ w.spec = slot[s].spec /\ w.edit = slot[s].edit /\ w.tally = slot[s].tally
      /\ pc \in {"repair", "tally"} /\ (pc = "repair" <=> NeedsRepair(s, current.poll))
  BY <1>1, <1>2, <1>3, CurrentFacts DEF SlotType
<1>6. SlotInv(s)'
  <2>1. JobInv(s)'
    BY <1>1, <1>4, <1>5 DEF SlotInv, JobInv, Live, Same
  <2>2. ASSUME NEW e \in Edits, NEW p \in Polls, slot[s].spec.key = RepairKey(e, p)
        PROVE  p <= current.poll /\ e <= slot[s].edit /\ pc = "tally"
    BY <1>1, <1>5, <2>2, RepairNeeded, KeyKinds DEF SlotInv, RepairerInv, KnownKey, Known
  <2>3. RepairerInv(s)'
    BY <1>4, <1>5, <2>2 DEF RepairerInv
  <2>4. KnownKey(slot[s].spec.key)'
    BY <1>1, <1>4, <1>5 DEF SlotInv, KnownKey, Known
  <2>5. /\ Known(slot[s].edit, slot[s].poll)' /\ slot'[s].tally <= current'.poll
        /\ slot'[s].pc = "record" => slot'[s].poll <= slot'[s].tally
    BY <1>1, <1>4, <1>5, CurrentFacts DEF SlotInv, Known
  <2> QED
    BY <2>1, <2>3, <2>4, <2>5 DEF SlotInv
<1>7. Fresh(s) => Fresh(s)'
  <2>1. NeedsRepair(s, current.poll)' <=> NeedsRepair(s, current.poll)
    BY <1>1, <1>4, <1>5 DEF NeedsRepair, Kind
  <2> QED
    BY <1>1, <1>4, <1>5, <2>1 DEF Fresh
<1> QED
  BY <1>1, <1>4, <1>5, <1>6, <1>7, OnlyOneSlot

LEMMA ReadTallyStep ==
  ASSUME UpdatesInv, NEW s \in Slots, ReadTally(s)
  PROVE  UpdatesInv'
<1> USE DEF UpdatesInv
<1>1. /\ UNCHANGED <<current, vote, event, jobs, queue, keys, post, seen, faults>> /\ slot[s].pc = "tally"
      /\ slot[s] \in SlotType /\ slot \in [Slots -> SlotType] /\ faults' \in 0 .. MaxFaults
  BY SlotShape DEF ReadTally, TypeOK
<1>2. PICK w : w = [slot[s] EXCEPT !.pc = "record", !.tally = current.poll]
  OBVIOUS
<1>3. slot' = [slot EXCEPT ![s] = w] /\ slot'[s] = w
  BY <1>1, <1>2 DEF ReadTally
<1>4. /\ w \in SlotType /\ w.pc = "record" /\ w.tally = current.poll /\ w.job = slot[s].job
      /\ w.gen = slot[s].gen /\ w.spec = slot[s].spec /\ w.edit = slot[s].edit /\ w.poll = slot[s].poll
  BY <1>1, <1>2, CurrentFacts DEF SlotType
<1>5. SlotInv(s)'
  <2>1. JobInv(s)'
    BY <1>1, <1>3, <1>4 DEF SlotInv, JobInv, Live, Same
  <2>2. RepairerInv(s)'
    BY <1>1, <1>3, <1>4 DEF SlotInv, RepairerInv
  <2>3. KnownKey(slot[s].spec.key)'
    BY <1>1, <1>3, <1>4 DEF SlotInv, KnownKey, Known
  <2>4. /\ Known(slot[s].edit, slot[s].poll)' /\ slot'[s].tally <= current'.poll
        /\ slot'[s].pc = "record" => slot'[s].poll <= slot'[s].tally
    BY <1>1, <1>3, <1>4, CurrentFacts DEF SlotInv, Known
  <2> QED
    BY <2>1, <2>2, <2>3, <2>4 DEF SlotInv
<1>6. Fresh(s) => Fresh(s)'
  <2>1. NeedsRepair(s, current.poll)' <=> NeedsRepair(s, current.poll)
    BY <1>1, <1>3, <1>4 DEF NeedsRepair, Kind
  <2> QED
    BY <1>1, <1>3, <1>4, <2>1 DEF Fresh
<1> QED
  BY <1>1, <1>3, <1>4, <1>5, <1>6, OnlyOneSlot

LEMMA AcknowledgeStep ==
  ASSUME UpdatesInv, NEW s \in Slots, Acknowledge(s)
  PROVE  UpdatesInv'
<1> USE DEF UpdatesInv
<1>1. /\ UNCHANGED <<current, vote, event, queue, keys, post, seen, faults>> /\ Grows
      /\ slot[s].pc = "done" /\ slot[s].job \notin vote.jobs /\ jobs \in [JobIds -> Job]
      /\ slot' = [slot EXCEPT ![s] = IdleSlot] /\ slot \in [Slots -> SlotType] /\ faults' \in 0 .. MaxFaults
  BY SlotShape, SameVersion DEF Acknowledge, TypeOK
<1>2. slot'[s] = IdleSlot /\ \A t \in Slots : t # s => slot'[t] = slot[t]
  BY <1>1
<1>3. IdleSlot \in SlotType /\ IdleSlot.job = 0 /\ SlotInv(s)'
  BY <1>1, <1>2, IdleSlotFacts
<1>4. CASE ~Holds(s)
  <2>1. jobs' = jobs
    BY <1>4 DEF Acknowledge
  <2> QED
    BY <1>1, <1>3, <2>1, OnlyOneSlot
<1>5. CASE Holds(s)
  <2>1. PICK j \in JobIds : j = slot[s].job /\ j # 0 /\ jobs[j].state = "leased" /\ jobs[j].gen = slot[s].gen
    BY <1>5, SlotTypes DEF Holds
  <2>2. jobs' = [jobs EXCEPT ![j] = DoneJob] /\ DoneJob \in Job /\ DoneJob.state = "done"
    <3>1. PollKey(0) \in EventKeys /\ 0 \in Edits /\ 0 \in Polls
      BY KeysExist, Bounds DEF Edits, Polls
    <3> QED
      BY <1>5, <2>1, <3>1 DEF Acknowledge, DoneJob, NoJob, Job
  <2>3. jobs' \in [JobIds -> Job] /\ jobs'[j].state = "done" /\ \A i \in JobIds : i # j => jobs'[i] = jobs[i]
    BY <1>1, <2>2
  <2>4. /\ Live(j) /\ ~Live(j)' /\ \A i \in JobIds : i # j => (Live(i)' <=> Live(i))
        /\ \A i \in JobIds : Ages(i) /\ jobs'[i].gen \in Nat
        /\ PollJobs' \subseteq PollJobs /\ PollJobs \ {j} \subseteq PollJobs'
        /\ PollJobs' \subseteq JobIds \ {j}
    <3>1. Live(j) /\ ~Live(j)' /\ \A i \in JobIds : i # j => (Live(i)' <=> Live(i))
      BY <2>1, <2>3 DEF Live
    <3>2. \A i \in JobIds : Ages(i) /\ jobs'[i].gen \in Nat
      BY <2>1, <2>3, <3>1, JobTypes DEF Ages, Same, Job
    <3> QED
      BY <2>3, <3>1, <3>2 DEF PollJobs
  <2>5. Locks' /\ VoteInv' /\ OneInv'
    <3>1. Locks /\ vote.jobs \subseteq JobIds \ {j}
      BY <1>1, <2>1 DEF TypeOK, Locks
    <3>2. \A k : Pending(k)' <=> Pending(k)
      BY <1>1 DEF Pending
    <3>3. \A i \in PollJobs' : i \in PollJobs /\ jobs'[i] = jobs[i]
      BY <2>3, <2>4
    <3>4. \A i \in vote.jobs \cap PollJobs : i \in PollJobs' /\ jobs'[i] = jobs[i]
      BY <2>3, <2>4, <3>1
    <3>5. \A i \in JobIds : jobs'[i].state = "leased" => jobs'[i] = jobs[i]
      BY <2>3
    <3>6. VoteInv'
      <4>1. vote.pc = "covered" =>
              vote.events # {} \/ \E i \in vote.jobs \cap PollJobs' : jobs'[i].state = "queued"
        BY <3>4 DEF VoteInv
      <4>2. vote.pc = "record" => \A i \in PollJobs' : jobs'[i].gen > 0
        BY <3>3 DEF VoteInv
      <4> QED
        BY <1>1, <3>2, <4>1, <4>2 DEF VoteInv
    <3>7. OneInv'
      BY <3>2, <3>3, <3>5 DEF OneInv
    <3>8. Locks'
      BY <1>1, <2>4, <3>1, <3>2 DEF Locks
    <3> QED
      BY <3>6, <3>7, <3>8
  <2>6. TypeOK'
    BY <1>1, <1>3, <2>3, <2>5 DEF TypeOK, Locks, SlotType
  <2>7. KnownInv'
    BY <1>1, <2>3, <2>4, KnownKept
  <2>8. \A t \in Slots : SlotInv(t)'
    BY <1>1, <1>2, <1>3, <2>4, SlotKept
  <2>9. \A i \in Inboxes : InboxInv(i)'
    BY <1>1, InboxesKept
  <2>10. RepairInv'
    <3>1. jobs[j].key = CurrentKey => CurrentKey \in keys
      <4>1. ASSUME jobs[j].key = CurrentKey PROVE CurrentKey \in keys
        <5>1. slot[s].spec.key = RepairKey(current.edit, current.poll)
          BY <2>1, <2>4, <4>1 DEF SlotInv, JobInv, Same, CurrentKey
        <5>2. /\ current.edit <= slot[s].edit /\ current.poll <= slot[s].poll
              /\ RepairKey(slot[s].edit, slot[s].poll) \in keys
          BY <1>1, <5>1, CurrentFacts DEF SlotInv, RepairerInv
        <5>3. slot[s].edit = current.edit /\ slot[s].poll = current.poll
          BY <5>2, CurrentFacts, SlotTypes DEF SlotInv, Known
        <5> QED
          BY <5>2, <5>3 DEF CurrentKey
      <4> QED
        BY <4>1
    <3>2. OnItsWay => OnItsWay' \/ CurrentKey \in keys
      <4>1. CurrentKey' = CurrentKey
        BY <1>1 DEF CurrentKey
      <4> QED
        BY <1>1, <2>3, <2>4, <3>1, <4>1 DEF OnItsWay, Pending
    <3>3. \A i \in Inboxes : seen[i] = current \/ Queued(i) => seen'[i] = current \/ Queued(i)'
      BY <1>1, ServedKept
    <3> QED
      BY <1>1, <3>2, <3>3, RepairKept
  <2>11. CoverInv'
    <3>1. ASSUME NEW i \in JobIds, UsefulJob(i) PROVE UsefulJob(i)'
      <4>1. i # j
        BY <1>1, <1>5, <2>1, <3>1 DEF UsefulJob, Fresh
      <4>2. Live(i)' /\ Same(jobs[i], jobs'[i]) /\ i # 0 /\ jobs'[i] = jobs[i]
        BY <2>3, <2>4, <3>1, <4>1 DEF UsefulJob, Same, JobIds
      <4>3. ASSUME NEW t \in Slots, slot'[t].job = i, Holds(t)' PROVE slot'[t] = slot[t] /\ Holds(t)
        BY <1>2, <1>3, <4>2, <4>3 DEF Holds
      <4> QED
        BY <1>1, <3>1, <4>2, <4>3, JobStaysUseful
    <3>2. \A k \in EventKeys : UsefulEvent(k) => UsefulEvent(k)'
      BY <1>1, EventStaysUseful
    <3>3. \A i \in Inboxes : Served(i) => Served(i)'
      BY <1>1, ServedKept
    <3> QED
      BY <1>1, <3>1, <3>2, <3>3, CoverKept
  <2> QED
    BY <2>5, <2>6, <2>7, <2>8, <2>9, <2>10, <2>11
<1> QED
  BY <1>4, <1>5

LEMMA QueueRepairStep ==
  ASSUME UpdatesInv, NEW s \in Slots, QueueRepair(s)
  PROVE  UpdatesInv'
<1> USE DEF UpdatesInv
<1>1. /\ UNCHANGED <<current, vote, jobs, queue, keys, post, seen, faults>> /\ slot[s].pc = "repair" /\ Grows
      /\ slot[s] \in SlotType /\ slot \in [Slots -> SlotType]
      /\ RecordOnce(RepairKey(slot[s].edit, slot[s].poll), slot[s].edit, slot[s].poll)
  BY SlotShape, SameVersion DEF QueueRepair
<1>2. PICK e \in Edits, p \in Polls : e = slot[s].edit /\ p = slot[s].poll
  BY SlotTypes
<1>3. PICK k \in EventKeys : k = RepairKey(e, p) /\ k[1] = "repair"
  BY KeysExist, KeyKinds
<1>4. /\ event' \in Events /\ event'[k].state # "none"
      /\ event[k].state = "none" => event'[k].state = "pending"
      /\ \A l \in EventKeys : event[l].state # "none" => event'[l] = event[l]
      /\ \A l \in EventKeys : l # k => event'[l] = event[l]
  <2>1. RecordOnce(k, e, p)
    BY <1>1, <1>2, <1>3
  <2>2. NewEvent(e, p).state = "pending"
    BY DEF NewEvent
  <2> QED
    BY <2>1, <2>2, RecordedOnce
<1>5. PICK w : w = [slot[s] EXCEPT !.pc = "done"]
  OBVIOUS
<1>6. slot' = [slot EXCEPT ![s] = w] /\ slot'[s] = w /\ \A t \in Slots : t # s => slot'[t] = slot[t]
  BY <1>1, <1>5 DEF QueueRepair
<1>7. /\ w \in SlotType /\ w.pc = "done" /\ w.job = slot[s].job /\ w.gen = slot[s].gen
      /\ w.spec = slot[s].spec /\ w.edit = slot[s].edit /\ w.poll = slot[s].poll /\ w.tally = slot[s].tally
  BY <1>1, <1>5 DEF SlotType
<1>8. VoteInv' /\ OneInv' /\ Locks'
  <2>1. \A l \in PollFamily : event'[l] = event[l]
    BY <1>3, <1>4, KeyKinds, KeysExist
  <2> QED
    BY <1>1, <2>1, VotesKept
<1>9. TypeOK'
  BY <1>1, <1>4, <1>6, <1>7, <1>8 DEF TypeOK, Locks, SlotType, Events
<1>10. KnownInv'
  <2>1. KnownKey(k)'
    <3>1. e <= current'.edit /\ p <= current'.poll
      BY <1>1, <1>2 DEF SlotInv, Known
    <3>2. \A f, q : k = RepairKey(f, q) => f = e /\ q = p
      BY <1>3, KeyFacts
    <3> QED
      BY <3>1, <3>2 DEF KnownKey, Known
  <2> QED
    BY <1>1, <1>4, <2>1, KnownKept DEF Live
<1>11. \A t \in Slots : SlotInv(t)'
  <2>1. SlotInv(s)'
    <3>1. JobInv(s)'
      BY <1>1, <1>6, <1>7 DEF SlotInv, JobInv, Live, Same
    <3>2. RepairerInv(s)'
      BY <1>1, <1>6, <1>7 DEF SlotInv, RepairerInv
    <3>3. KnownKey(slot[s].spec.key)'
      BY <1>1, <1>6, <1>7 DEF SlotInv, KnownKey, Known
    <3>4. /\ Known(slot[s].edit, slot[s].poll)' /\ slot'[s].tally <= current'.poll
          /\ slot'[s].pc = "record" => slot'[s].poll <= slot'[s].tally
      BY <1>1, <1>6, <1>7 DEF SlotInv, Known
    <3> QED
      BY <3>1, <3>2, <3>3, <3>4 DEF SlotInv
  <2>2. \A j \in JobIds : Ages(j) /\ jobs'[j].gen \in Nat
    BY <1>1, JobTypes DEF Ages, Live, Same
  <2> QED
    BY <1>1, <1>6, <2>1, <2>2, SlotKept
<1>12. \A i \in Inboxes : InboxInv(i)'
  BY <1>1, InboxesKept
<1>13. RepairInv'
  <2>1. CurrentKey' = CurrentKey /\ CurrentKey \in EventKeys
    BY <1>1, CurrentFacts DEF CurrentKey
  <2>2. OnItsWay => OnItsWay'
    <3>1. Pending(CurrentKey) => event'[CurrentKey].state = "pending"
      BY <1>4, <2>1 DEF Pending
    <3> QED
      BY <1>1, <3>1, WayKept
  <2>3. event[CurrentKey].state = "none" /\ event'[CurrentKey].state # "none" => OnItsWay'
    BY <1>4, <2>1 DEF OnItsWay, Pending
  <2>4. \A i \in Inboxes : seen[i] = current \/ Queued(i) => seen'[i] = current \/ Queued(i)'
    BY <1>1, ServedKept
  <2> QED
    BY <1>1, <2>2, <2>3, <2>4, RepairKept
<1>14. CoverInv'
  <2>1. event'[CurrentKey].state = "none" => event[CurrentKey].state = "none" /\ CurrentKey # k
    BY <1>4, CurrentFacts
  <2>2. CurrentKey # k => ~Fresh(s)
    BY <1>1, <1>2, <1>3 DEF Fresh, CurrentKey
  <2>3. ASSUME NEW i \in JobIds, UsefulJob(i), ~Fresh(s) PROVE UsefulJob(i)'
    <3>1. Live(i)' /\ Same(jobs[i], jobs'[i])
      BY <1>1, <2>3 DEF UsefulJob, Live, Same
    <3>2. ASSUME NEW t \in Slots, slot'[t].job = i, Holds(t)' PROVE slot'[t] = slot[t] /\ Holds(t)
      <4>1. CASE t = s
        <5>1. slot[s].job = i /\ Holds(s)
          BY <1>1, <1>6, <1>7, <3>2, <4>1 DEF Holds
        <5> QED
          BY <2>3, <5>1 DEF UsefulJob
      <4>2. CASE t # s
        BY <1>1, <1>6, <3>2, <4>2 DEF Holds
      <4> QED
        BY <4>1, <4>2
    <3> QED
      BY <1>1, <2>3, <3>1, <3>2, JobStaysUseful
  <2>4. \A l \in EventKeys : UsefulEvent(l) => UsefulEvent(l)'
    BY <1>1, <1>4, EventStaysUseful DEF UsefulEvent, Pending
  <2>5. \A i \in Inboxes : Served(i) => Served(i)'
    BY <1>1, ServedKept
  <2> QED
    BY <1>1, <2>1, <2>2, <2>3, <2>4, <2>5, CoverKept
<1> QED
  BY <1>8, <1>9, <1>10, <1>11, <1>12, <1>13, <1>14

(* The key says what was read, and names only what was committed.            *)
LEMMA DeliveryKeys ==
  ASSUME NEW s \in Slots
  PROVE  DeliveryKey(s) = CASE slot[s].spec.key[1] = "repair" -> RepairKey(slot[s].edit, slot[s].poll)
                            [] slot[s].spec.key[1] = "status" -> EditKey(slot[s].edit)
                            [] OTHER -> TallyKey(slot[s].poll)
BY DEF DeliveryKey, Kind, RepairKey, EditKey, TallyKey

LEMMA RecordDeliveriesStep ==
  ASSUME UpdatesInv, NEW s \in Slots, RecordDeliveries(s)
  PROVE  UpdatesInv'
<1> USE DEF UpdatesInv
<1>1. /\ UNCHANGED <<current, vote, event, jobs, post, seen, faults>> /\ slot[s].pc = "record" /\ Grows
      /\ slot[s] \in SlotType /\ slot \in [Slots -> SlotType] /\ faults' \in 0 .. MaxFaults
  BY SlotShape, SameVersion DEF RecordDeliveries, TypeOK
<1>2. PICK k : k = DeliveryKey(s)
  OBVIOUS
<1>3. /\ slot[s].spec.key[1] = "repair" => k = RepairKey(slot[s].edit, slot[s].poll)
      /\ slot[s].spec.key[1] = "status" => k = EditKey(slot[s].edit)
      /\ slot[s].spec.key[1] \notin {"repair", "status"} => k = TallyKey(slot[s].poll)
  BY <1>2, DeliveryKeys
<1>4. KnownDelivery(k)
  <2>1. Known(slot[s].edit, slot[s].poll)
    BY DEF SlotInv
  <2>2. CASE slot[s].spec.key[1] = "repair"
    <3>1. \A e, p : k = RepairKey(e, p) => e = slot[s].edit /\ p = slot[s].poll
      BY <1>3, <2>2, KeyFacts
    <3>2. (\A e : k # EditKey(e)) /\ \A p : k # TallyKey(p)
      BY <1>3, <2>2, KeyKinds
    <3> QED
      BY <2>1, <3>1, <3>2 DEF KnownDelivery, KnownKey
  <2>3. CASE slot[s].spec.key[1] = "status"
    <3>1. \A e : k = EditKey(e) => e = slot[s].edit
      BY <1>3, <2>3, KeyFacts
    <3>2. (\A e, p : k # RepairKey(e, p)) /\ \A p : k # TallyKey(p)
      BY <1>3, <2>3, KeyKinds
    <3> QED
      BY <2>1, <3>1, <3>2 DEF KnownDelivery, KnownKey, Known
  <2>4. CASE slot[s].spec.key[1] \notin {"repair", "status"}
    <3>1. \A p : k = TallyKey(p) => p = slot[s].poll
      BY <1>3, <2>4, KeyFacts
    <3>2. (\A e, p : k # RepairKey(e, p)) /\ \A e : k # EditKey(e)
      BY <1>3, <2>4, KeyKinds
    <3> QED
      BY <2>1, <3>1, <3>2 DEF KnownDelivery, KnownKey, Known
  <2> QED
    BY <2>2, <2>3, <2>4
<1>5. PICK w : w = [slot[s] EXCEPT !.pc = "done"]
  OBVIOUS
<1>6. slot' = [slot EXCEPT ![s] = w] /\ slot'[s] = w /\ \A t \in Slots : t # s => slot'[t] = slot[t]
  BY <1>1, <1>5 DEF RecordDeliveries
<1>7. /\ w \in SlotType /\ w.pc = "done" /\ w.job = slot[s].job /\ w.gen = slot[s].gen
      /\ w.spec = slot[s].spec /\ w.edit = slot[s].edit /\ w.poll = slot[s].poll /\ w.tally = slot[s].tally
  BY <1>1, <1>5 DEF SlotType
<1>8. keys' = keys \cup {k}
  BY <1>2 DEF RecordDeliveries
<1>9. SlotInv(s)'
  <2>1. JobInv(s)'
    BY <1>1, <1>6, <1>7 DEF SlotInv, JobInv, Live, Same
  <2>2. ASSUME NEW e \in Edits, NEW p \in Polls, slot[s].spec.key = RepairKey(e, p)
        PROVE  RepairKey(slot[s].edit, slot[s].poll) \in keys'
    BY <1>3, <1>8, <2>2, KeyKinds
  <2>3. RepairerInv(s)'
    BY <1>1, <1>6, <1>7, <2>2 DEF SlotInv, RepairerInv
  <2>4. KnownKey(slot[s].spec.key)'
    BY <1>1, <1>6, <1>7 DEF SlotInv, KnownKey, Known
  <2>5. /\ Known(slot[s].edit, slot[s].poll)' /\ slot'[s].tally <= current'.poll
        /\ slot'[s].pc = "record" => slot'[s].poll <= slot'[s].tally
    BY <1>1, <1>6, <1>7 DEF SlotInv, Known
  <2> QED
    BY <2>1, <2>3, <2>4, <2>5 DEF SlotInv
<1>10. CASE k \in keys
  <2>1. queue' = queue /\ keys' = keys
    BY <1>2, <1>8, <1>10 DEF RecordDeliveries
  <2>2. ASSUME slot[s].job # 0, UsefulJob(slot[s].job), Fresh(s) PROVE FALSE
    <3>1. PICK j \in JobIds : j = slot[s].job /\ UsefulJob(j) /\ Same(slot[s].spec, jobs[j])
      BY <2>2, SlotTypes DEF SlotInv, JobInv, UsefulJob
    <3>2. /\ slot[s].edit = current.edit /\ slot[s].poll = current.poll /\ ~NeedsRepair(s, current.poll)
          /\ Useful(slot[s].spec.key, slot[s].spec.edit, slot[s].spec.poll)
      BY <1>1, <2>2, <3>1 DEF Fresh, UsefulJob, Same
    <3>3. CASE slot[s].spec.key[1] = "repair"
      BY <1>3, <1>10, <3>2, <3>3 DEF Useful, CurrentKey
    <3>4. CASE slot[s].spec.key[1] = "status"
      <4>1. slot[s].edit = slot[s].spec.edit /\ current.poll = slot[s].spec.poll
        BY <3>2, <3>4, RepairNeeded
      <4>2. current = [edit |-> slot[s].spec.edit, poll |-> slot[s].spec.poll]
        BY <3>2, <4>1, CurrentFacts DEF Version
      <4> QED
        BY <1>3, <1>10, <3>2, <3>4, <4>2 DEF Useful
    <3>5. CASE slot[s].spec.key[1] \notin {"repair", "status"}
      <4>1. slot[s].edit = slot[s].spec.edit
        BY <3>2, <3>5, RepairNeeded
      <4> QED
        BY <1>3, <1>10, <3>2, <3>5, <4>1 DEF Useful
    <3> QED
      BY <3>3, <3>4, <3>5
  <2> QED
    BY <1>1, <1>6, <1>7, <1>9, <2>1, <2>2, OnlyOneSlot
<1>11. CASE k \notin keys
  <2>1. PICK d : d = [edit |-> slot[s].edit, poll |-> slot[s].poll, tally |-> slot[s].tally]
    OBVIOUS
  <2>2. /\ d \in Deliveries /\ d.edit = slot[s].edit /\ d.poll = slot[s].poll /\ d.tally = slot[s].tally
        /\ Known(d.edit, d.tally) /\ d.poll <= d.tally
    BY <1>1, <2>1, SlotTypes DEF Deliveries, SlotInv, Known
  <2>3. queue' = [i \in Inboxes |-> Append(queue[i], d)]
    BY <1>2, <1>11, <2>1 DEF RecordDeliveries
  <2>4. ASSUME NEW i \in Inboxes
        PROVE  /\ queue'[i] \in Seq(Deliveries) /\ Len(queue[i]) \in Nat /\ Len(queue'[i]) = Len(queue[i]) + 1
               /\ queue'[i] # <<>>
               /\ \A n \in 1 .. Len(queue[i]) : queue'[i][n] = queue[i][n]
               /\ queue'[i][Len(queue'[i])] = d
               /\ queue[i] # <<>> => Len(queue[i]) >= 1 /\ Head(queue'[i]) = Head(queue[i])
    <3>1. queue'[i] = Append(queue[i], d)
      BY <2>3
    <3> QED
      BY <2>2, <3>1, AppendFacts, InboxTypes
  <2>5. VoteInv' /\ OneInv' /\ Locks'
    BY <1>1, VotesKept
  <2>6. TypeOK'
    <3>1. queue' \in [Inboxes -> Seq(Deliveries)]
      BY <2>3, <2>4
    <3> QED
      BY <1>1, <1>6, <1>7, <2>5, <3>1 DEF TypeOK, Locks, SlotType, Deliveries
  <2>7. KnownInv'
    <3>1. KnownDelivery(k)'
      BY <1>1, <1>4, KnownGrows
    <3> QED
      BY <1>1, <1>8, <3>1, KnownKept DEF Live
  <2>8. \A t \in Slots : SlotInv(t)'
    <3>1. \A j \in JobIds : Ages(j) /\ jobs'[j].gen \in Nat
      BY <1>1, JobTypes DEF Ages, Live, Same
    <3> QED
      BY <1>1, <1>6, <1>8, <1>9, <3>1, SlotKept
  <2>9. ASSUME NEW i \in Inboxes PROVE InboxInv(i)'
    <3>1. \A n \in 1 .. Len(queue'[i]) : n \in 1 .. Len(queue[i]) \/ n = Len(queue'[i])
      BY <2>4
    <3>2. \A n \in 1 .. Len(queue'[i]) : /\ Known(queue'[i][n].edit, queue'[i][n].tally)
                                         /\ queue'[i][n].poll <= queue'[i][n].tally
      BY <2>2, <2>4, <3>1 DEF InboxInv
    <3> QED
      BY <1>1, <2>4, <3>2 DEF InboxInv, Known, Delivery
  <2>10. RepairInv'
    <3>1. CurrentKey' = CurrentKey /\ (OnItsWay => OnItsWay')
      BY <1>1, WayKept DEF CurrentKey, Pending
    <3>2. ASSUME CurrentKey \in keys', NEW i \in Inboxes PROVE seen'[i] = current \/ Queued(i)'
      <4>1. CASE CurrentKey \in keys
        <5>1. CASE seen[i] = current
          BY <1>1, <5>1
        <5>2. CASE Queued(i)
          <6>1. PICK n \in 1 .. Len(queue[i]) : IsNow(queue[i][n])
            BY <5>2 DEF Queued
          <6>2. n \in 1 .. Len(queue'[i]) /\ queue'[i][n] = queue[i][n]
            BY <2>4
          <6> QED
            BY <1>1, <6>1, <6>2 DEF Queued, IsNow
        <5> QED
          BY <4>1, <5>1, <5>2 DEF RepairInv
      <4>2. CASE CurrentKey = k
        <5>1. slot[s].spec.key[1] = "repair"
          BY <1>3, <4>2, KeyKinds DEF CurrentKey
        <5>2. d.edit = current.edit /\ d.poll = current.poll
          BY <1>3, <2>2, <4>2, <5>1, KeyFacts DEF CurrentKey
        <5>3. Len(queue'[i]) \in 1 .. Len(queue'[i]) /\ queue'[i][Len(queue'[i])] = d
          BY <2>4
        <5> QED
          BY <1>1, <5>2, <5>3 DEF Queued, IsNow
      <4> QED
        BY <1>8, <3>2, <4>1, <4>2
    <3>3. event'[CurrentKey].state # "none" => OnItsWay' \/ CurrentKey \in keys'
      BY <1>1, <1>8, <3>1 DEF RepairInv
    <3> QED
      BY <1>1, <3>1, <3>2, <3>3 DEF RepairInv
  <2>11. CoverInv'
    <3>1. ASSUME NEW i \in Inboxes PROVE Served(i)'
      <4>1. CASE queue[i] = <<>>
        BY <1>1, <2>4, <4>1 DEF InboxInv, Served, Waiting
      <4>2. CASE queue[i] # <<>>
        BY <2>4, <4>2 DEF Served, Waiting
      <4> QED
        BY <4>1, <4>2
    <3> QED
      BY <3>1 DEF CoverInv
  <2> QED
    BY <2>5, <2>6, <2>7, <2>8, <2>9, <2>10, <2>11
<1> QED
  BY <1>10, <1>11

-----------------------------------------------------------------------------
(* A delivery.                                                               *)
Posts == [pc : {"idle", "poll", "post"}, edit : Edits]

LEMMA InboxShapes ==
  ASSUME TypeOK
  PROVE  /\ event \in Events /\ queue \in [Inboxes -> Seq(Deliveries)] /\ post \in [Inboxes -> Posts]
         /\ seen \in [Inboxes -> Version] /\ faults \in 0 .. MaxFaults
BY DEF TypeOK, Events, Deliveries, Posts

LEMMA OneInbox ==
  ASSUME UpdatesInv, NEW i \in Inboxes, UNCHANGED <<current, vote, jobs, slot, keys>>,
         event' \in Events, queue' \in [Inboxes -> Seq(Deliveries)], post' \in [Inboxes -> Posts],
         seen' \in [Inboxes -> Version], faults' \in 0 .. MaxFaults,
         \A l \in EventKeys : event[l].state # "none" => event'[l] = event[l],
         \A l \in EventKeys : event[l].state = "none" /\ event'[l].state # "none" =>
           event'[l].state = "pending" /\ KnownKey(l) /\ l \notin PollFamily,
         \A h \in Inboxes : h # i => queue'[h] = queue[h] /\ post'[h] = post[h] /\ seen'[h] = seen[h],
         InboxInv(i)',
         event'[CurrentKey].state = "none" /\ Served(i) => Served(i)',
         CurrentKey \in keys /\ (seen[i] = current \/ Queued(i)) => seen'[i] = current \/ Queued(i)'
  PROVE  UpdatesInv'
<1> USE DEF UpdatesInv
<1>1. Grows /\ CurrentKey' = CurrentKey /\ CurrentKey \in EventKeys
  BY SameVersion, CurrentFacts DEF CurrentKey
<1>2. \A l \in EventKeys : Pending(l) => event'[l].state = "pending"
  BY DEF Pending
<1>3. VoteInv' /\ OneInv' /\ Locks'
  <2>1. \A l \in PollFamily : Pending(l)' <=> Pending(l)
    BY <1>2, KeysExist DEF Pending
  <2>2. PollJobs' = PollJobs /\ \A j \in JobIds : Live(j)' <=> Live(j)
    BY DEF PollJobs, Live
  <2>3. Locks /\ vote.events \subseteq PollFamily /\ vote.jobs \subseteq JobIds
    BY DEF TypeOK, Locks
  <2> QED
    BY <2>1, <2>2, <2>3 DEF VoteInv, OneInv, Locks
<1>4. TypeOK'
  BY <1>3 DEF TypeOK, Locks, Events, Posts, Deliveries
<1>5. KnownInv'
  <2>1. ASSUME NEW l \in EventKeys, event'[l].state # "none" PROVE event[l].state # "none" \/ KnownKey(l)'
    BY <1>1, <2>1, KnownGrows
  <2> QED
    BY <1>1, <2>1, KnownKept DEF Live
<1>6. \A s \in Slots : SlotInv(s)'
  BY <1>1, SlotsKept
<1>7. ASSUME NEW h \in Inboxes PROVE InboxInv(h)'
  BY <1>1, InboxKept
<1>8. RepairInv'
  <2>1. OnItsWay => OnItsWay'
    BY <1>1, <1>2, WayKept DEF Pending
  <2>2. event[CurrentKey].state = "none" /\ event'[CurrentKey].state # "none" => OnItsWay'
    BY <1>1 DEF OnItsWay, Pending
  <2>3. ASSUME CurrentKey \in keys, NEW h \in Inboxes PROVE seen'[h] = current \/ Queued(h)'
    <3>1. seen[h] = current \/ Queued(h)
      BY <2>3 DEF RepairInv
    <3>2. CASE h = i
      BY <2>3, <3>1, <3>2
    <3>3. CASE h # i
      BY <3>1, <3>3 DEF Queued, IsNow
    <3> QED
      BY <3>2, <3>3
  <2> QED
    BY <1>1, <2>1, <2>2, <2>3 DEF RepairInv
<1>9. CoverInv'
  <2>1. ASSUME NEW j \in JobIds, UsefulJob(j) PROVE UsefulJob(j)'
    BY <2>1, JobStaysUseful DEF UsefulJob, Live, Same, Holds
  <2>2. \A l \in EventKeys : UsefulEvent(l) => UsefulEvent(l)'
    BY EventStaysUseful DEF UsefulEvent, Pending
  <2>3. ASSUME event'[CurrentKey].state = "none", NEW h \in Inboxes, Served(h) PROVE Served(h)'
    <3>1. CASE h = i
      BY <2>3, <3>1
    <3>2. CASE h # i
      BY <2>3, <3>2 DEF Served, Waiting, IsNow, Delivery
    <3> QED
      BY <3>1, <3>2
  <2>4. event'[CurrentKey].state = "none" => event[CurrentKey].state = "none"
    BY <1>1
  <2> QED
    BY <2>1, <2>2, <2>3, <2>4, CoverKept
<1> QED
  BY <1>3, <1>4, <1>5, <1>6, <1>7, <1>8, <1>9

LEMMA HeadFacts ==
  ASSUME TypeOK, NEW i \in Inboxes, queue[i] # <<>>
  PROVE  /\ queue[i] \in Seq(Deliveries) /\ Delivery(i) = queue[i][1] /\ 1 \in 1 .. Len(queue[i])
         /\ Delivery(i) \in Deliveries /\ Len(queue[i]) \in Nat
<1>1. queue[i] \in Seq(Deliveries)
  BY InboxTypes
<1>2. \A t : t = Tail(queue[i]) => Len(queue[i]) \in Nat /\ Len(queue[i]) >= 1 /\ Head(queue[i]) = queue[i][1]
  BY <1>1, TailFacts
<1>3. Delivery(i) = queue[i][1] /\ 1 \in 1 .. Len(queue[i]) /\ Len(queue[i]) \in Nat
  BY <1>2 DEF Delivery
<1> QED
  BY <1>1, <1>3

(* Where the current version heads a queue or was seen, posting the head     *)
(* leaves the inbox with it.                                                 *)
LEMMA WhatIsPosted ==
  ASSUME UpdatesInv, NEW i \in Inboxes, post[i].pc = "post", NEW v,
         v = [edit |-> Delivery(i).edit, poll |-> Delivery(i).tally]
  PROVE  /\ v \in Version /\ Known(v.edit, v.poll)
         /\ IsNow(Delivery(i)) => v = current
         /\ seen[i] = current => v = current
<1> USE DEF UpdatesInv
<1>1. queue[i] # <<>> /\ Delivery(i) \in Deliveries /\ Delivery(i) = queue[i][1] /\ 1 \in 1 .. Len(queue[i])
  BY HeadFacts DEF InboxInv
<1>2. PICK d \in Deliveries : d = Delivery(i)
  BY <1>1
<1>3. /\ d.edit \in Edits /\ d.tally \in Polls /\ d.edit \in Nat /\ d.poll \in Nat /\ d.tally \in Nat
      /\ d.edit <= current.edit /\ d.tally <= current.poll /\ d.poll <= d.tally
      /\ seen[i].edit <= d.edit /\ seen[i].poll <= d.poll
  BY <1>1, <1>2, DeliveryTypes DEF Deliveries, InboxInv, Known
<1>4. v \in Version /\ v.edit = d.edit /\ v.poll = d.tally
  BY <1>2, <1>3 DEF Version
<1>5. ASSUME IsNow(d) PROVE v = current
  BY <1>3, <1>4, <1>5, CurrentFacts DEF IsNow
<1>6. ASSUME seen[i] = current PROVE v = current
  BY <1>3, <1>4, <1>6, CurrentFacts
<1> QED
  BY <1>2, <1>3, <1>4, <1>5, <1>6 DEF Known

LEMMA CheckStatusStep ==
  ASSUME UpdatesInv, NEW i \in Inboxes, CheckStatus(i)
  PROVE  UpdatesInv'
<1> USE DEF UpdatesInv
<1>1. /\ UNCHANGED <<current, vote, event, jobs, slot, queue, keys, seen, faults>>
      /\ post[i].pc = "idle" /\ queue[i] # <<>>
      /\ post' = [post EXCEPT ![i] = [pc |-> "poll", edit |-> current.edit]]
  BY DEF CheckStatus
<1>2. /\ post' \in [Inboxes -> Posts] /\ post'[i].pc = "poll" /\ post'[i].edit = current.edit
      /\ \A h \in Inboxes : h # i => post'[h] = post[h]
  BY <1>1, CurrentFacts, InboxShapes DEF Posts
<1>3. /\ event' \in Events /\ queue' \in [Inboxes -> Seq(Deliveries)] /\ seen' \in [Inboxes -> Version]
      /\ faults' \in 0 .. MaxFaults
  BY <1>1, InboxShapes
<1>4. InboxInv(i)'
  <2>1. Delivery(i).edit <= current.edit /\ seen[i].edit <= current.edit
    BY <1>1, HeadFacts DEF InboxInv, Known
  <2>2. Delivery(i)' = Delivery(i)
    BY <1>1 DEF Delivery
  <2>3. \A n \in 1 .. Len(queue'[i]) : /\ Known(queue'[i][n].edit, queue'[i][n].tally)
                                       /\ queue'[i][n].poll <= queue'[i][n].tally
    BY <1>1 DEF InboxInv
  <2> QED
    BY <1>1, <1>2, <2>1, <2>2, <2>3, CurrentFacts DEF InboxInv, Known
<1>5. Served(i)'
  BY <1>1, <1>2 DEF Served, Waiting
<1>6. seen[i] = current \/ Queued(i) => seen'[i] = current \/ Queued(i)'
  BY <1>1 DEF Queued, IsNow
<1> QED
  BY <1>1, <1>2, <1>3, <1>4, <1>5, <1>6, OneInbox

LEMMA CheckPollStep ==
  ASSUME UpdatesInv, NEW i \in Inboxes, CheckPoll(i)
  PROVE  UpdatesInv'
<1> USE DEF UpdatesInv
<1>1. /\ UNCHANGED <<current, vote, event, jobs, slot, queue, keys, seen, faults>>
      /\ post[i].pc = "poll" /\ post[i].edit = Delivery(i).edit /\ current.poll = Delivery(i).poll
      /\ post' = [post EXCEPT ![i].pc = "post"]
  BY DEF CheckPoll, IsCurrent
<1>2. /\ post' \in [Inboxes -> Posts] /\ post'[i].pc = "post" /\ post'[i].edit = post[i].edit
      /\ \A h \in Inboxes : h # i => post'[h] = post[h]
  BY <1>1, InboxShapes DEF Posts
<1>3. /\ event' \in Events /\ queue' \in [Inboxes -> Seq(Deliveries)] /\ seen' \in [Inboxes -> Version]
      /\ faults' \in 0 .. MaxFaults
  BY <1>1, InboxShapes
<1>4. Delivery(i)' = Delivery(i) /\ queue'[i] = queue[i]
  BY <1>1 DEF Delivery
<1>5. InboxInv(i)'
  BY <1>1, <1>2, <1>4 DEF InboxInv, Known
<1>6. Served(i) => Served(i)'
  <2>1. CASE seen[i] = current
    BY <1>1, <2>1 DEF Served
  <2>2. CASE Waiting(i)
    BY <1>1, <1>2, <1>4, <2>2 DEF Served, Waiting, IsNow
  <2> QED
    BY <2>1, <2>2 DEF Served
<1>7. seen[i] = current \/ Queued(i) => seen'[i] = current \/ Queued(i)'
  BY <1>1 DEF Queued, IsNow
<1> QED
  BY <1>1, <1>2, <1>3, <1>5, <1>6, <1>7, OneInbox

LEMMA PostFailsStep ==
  ASSUME UpdatesInv, NEW i \in Inboxes, PostFails(i)
  PROVE  UpdatesInv'
<1> USE DEF UpdatesInv
<1>1. /\ UNCHANGED <<current, vote, event, jobs, slot, queue, keys, seen, faults>> /\ post[i].pc = "post"
      /\ post' = [post EXCEPT ![i] = [pc |-> "idle", edit |-> 0]]
  BY DEF PostFails
<1>2. /\ post' \in [Inboxes -> Posts] /\ post'[i].pc = "idle" /\ post'[i].edit = 0
      /\ \A h \in Inboxes : h # i => post'[h] = post[h]
  BY <1>1, InboxShapes, Bounds DEF Posts, Edits
<1>3. /\ event' \in Events /\ queue' \in [Inboxes -> Seq(Deliveries)] /\ seen' \in [Inboxes -> Version]
      /\ faults' \in 0 .. MaxFaults
  BY <1>1, InboxShapes
<1>4. InboxInv(i)'
  BY <1>1, <1>2, CurrentFacts DEF InboxInv, Known
<1>5. Served(i)'
  BY <1>1, <1>2 DEF Served, Waiting, InboxInv
<1>6. seen[i] = current \/ Queued(i) => seen'[i] = current \/ Queued(i)'
  BY <1>1 DEF Queued, IsNow
<1> QED
  BY <1>1, <1>2, <1>3, <1>4, <1>5, <1>6, OneInbox

LEMMA AnswerLostStep ==
  ASSUME UpdatesInv, NEW i \in Inboxes, AnswerLost(i)
  PROVE  UpdatesInv'
<1> USE DEF UpdatesInv
<1>1. /\ UNCHANGED <<current, vote, event, jobs, slot, queue, keys>> /\ post[i].pc = "post"
      /\ post' = [post EXCEPT ![i] = [pc |-> "idle", edit |-> 0]]
      /\ faults' = faults + 1 /\ faults < MaxFaults
  BY DEF AnswerLost, CanFail
<1>2. PICK v : v = [edit |-> Delivery(i).edit, poll |-> Delivery(i).tally]
  OBVIOUS
<1>3. v \in Version /\ Known(v.edit, v.poll) /\ (seen[i] = current => v = current)
  BY <1>1, <1>2, WhatIsPosted
<1>4. /\ seen' \in [Inboxes -> Version] /\ seen'[i] = v /\ \A h \in Inboxes : h # i => seen'[h] = seen[h]
  BY <1>2, <1>3, InboxShapes DEF AnswerLost
<1>5. /\ post' \in [Inboxes -> Posts] /\ post'[i].pc = "idle" /\ post'[i].edit = 0
      /\ \A h \in Inboxes : h # i => post'[h] = post[h]
  BY <1>1, InboxShapes, Bounds DEF Posts, Edits
<1>6. /\ event' \in Events /\ queue' \in [Inboxes -> Seq(Deliveries)] /\ faults' \in 0 .. MaxFaults
  <2>1. faults \in 0 .. MaxFaults /\ event' \in Events /\ queue' \in [Inboxes -> Seq(Deliveries)]
    BY <1>1, InboxShapes
  <2>2. faults' \in 0 .. MaxFaults
    BY <1>1, <2>1, Bounds
  <2> QED
    BY <2>1, <2>2
<1>7. InboxInv(i)'
  BY <1>1, <1>3, <1>4, <1>5, CurrentFacts DEF InboxInv, Known
<1>8. Served(i)'
  BY <1>1, <1>5 DEF Served, Waiting, InboxInv
<1>9. seen[i] = current \/ Queued(i) => seen'[i] = current \/ Queued(i)'
  BY <1>1, <1>3, <1>4 DEF Queued, IsNow
<1> QED
  BY <1>1, <1>4, <1>5, <1>6, <1>7, <1>8, <1>9, OneInbox

(* The rest of a queue.                                                      *)
LEMMA RestOfQueue ==
  ASSUME TypeOK, NEW i \in Inboxes, InboxInv(i), queue[i] # <<>>, queue' = [queue EXCEPT ![i] = Tail(@)]
  PROVE  /\ queue' \in [Inboxes -> Seq(Deliveries)]
         /\ \A h \in Inboxes : h # i => queue'[h] = queue[h]
         /\ \A n \in 1 .. Len(queue'[i]) : n + 1 \in 1 .. Len(queue[i]) /\ queue'[i][n] = queue[i][n + 1]
         /\ \A n \in 1 .. Len(queue[i]) : n = 1 \/ n - 1 \in 1 .. Len(queue'[i])
         /\ Len(queue[i]) > 1 => queue'[i] # <<>>
         /\ \A n \in 1 .. Len(queue'[i]) : /\ Known(queue'[i][n].edit, queue'[i][n].tally)
                                           /\ queue'[i][n].poll <= queue'[i][n].tally
<1>1. queue \in [Inboxes -> Seq(Deliveries)]
  BY DEF TypeOK, Deliveries
<1>2. PICK t : t = Tail(queue[i])
  OBVIOUS
<1>3. queue'[i] = t /\ \A h \in Inboxes : h # i => queue'[h] = queue[h]
  BY <1>1, <1>2
<1>4. /\ t \in Seq(Deliveries) /\ Len(queue[i]) \in Nat /\ Len(queue[i]) >= 1 /\ Len(t) = Len(queue[i]) - 1
      /\ (\A n \in 1 .. Len(t) : t[n] = queue[i][n + 1]) /\ (Len(queue[i]) > 1 => t # <<>>)
  <2>1. queue[i] \in Seq(Deliveries) /\ queue[i] # <<>>
    BY <1>1
  <2> QED
    BY <1>2, <2>1, TailFacts
<1>5. queue' \in [Inboxes -> Seq(Deliveries)]
  BY <1>1, <1>2, <1>4
<1>6. \A n \in 1 .. Len(t) : n + 1 \in 1 .. Len(queue[i]) /\ t[n] = queue[i][n + 1]
  BY <1>4
<1>7. \A n \in 1 .. Len(queue[i]) : n = 1 \/ n - 1 \in 1 .. Len(t)
  BY <1>4
<1>8. \A n \in 1 .. Len(t) : Known(t[n].edit, t[n].tally) /\ t[n].poll <= t[n].tally
  BY <1>6 DEF InboxInv
<1> QED
  BY <1>3, <1>4, <1>5, <1>6, <1>7, <1>8

LEMMA ReplaceStaleStep ==
  ASSUME UpdatesInv, NEW i \in Inboxes, ReplaceStale(i)
  PROVE  UpdatesInv'
<1> USE DEF UpdatesInv
<1>1. /\ UNCHANGED <<current, vote, jobs, slot, keys, seen, faults>>
      /\ post[i].pc = "poll" /\ ~(post[i].edit = Delivery(i).edit /\ current.poll = Delivery(i).poll)
      /\ RecordOnce(RepairKey(post[i].edit, current.poll), post[i].edit, current.poll)
      /\ queue' = [queue EXCEPT ![i] = Tail(@)]
      /\ post' = [post EXCEPT ![i] = [pc |-> "idle", edit |-> 0]]
  BY DEF ReplaceStale, IsCurrent
<1>2. /\ queue[i] # <<>> /\ Delivery(i) = queue[i][1] /\ Delivery(i).edit \in Nat
      /\ Delivery(i).edit <= post[i].edit
      /\ post[i].edit <= current.edit /\ post[i].edit \in Edits /\ post[i].edit \in Nat
  BY <1>1, HeadFacts, DeliveryTypes, InboxTypes DEF InboxInv
<1>3. PICK e \in Edits, p \in Polls : e = post[i].edit /\ p = current.poll
  BY <1>2, CurrentFacts
<1>4. PICK k \in EventKeys : k = RepairKey(e, p) /\ k[1] = "repair"
  BY KeysExist, KeyKinds
<1>5. /\ event' \in Events /\ event'[k].state # "none"
      /\ event[k].state = "none" => event'[k].state = "pending"
      /\ \A l \in EventKeys : event[l].state # "none" => event'[l] = event[l]
      /\ \A l \in EventKeys : l # k => event'[l] = event[l]
  <2>1. RecordOnce(k, e, p)
    BY <1>1, <1>3, <1>4
  <2>2. NewEvent(e, p).state = "pending"
    BY DEF NewEvent
  <2> QED
    BY <2>1, <2>2, RecordedOnce
<1>6. KnownKey(k) /\ k \notin PollFamily
  <2>1. \A f, q : k = RepairKey(f, q) => f = e /\ q = p
    BY <1>4, KeyFacts
  <2> QED
    BY <1>2, <1>3, <1>4, <2>1, KeyKinds, CurrentFacts DEF KnownKey, Known
<1>7. /\ post' \in [Inboxes -> Posts] /\ post'[i].pc = "idle" /\ post'[i].edit = 0
      /\ \A h \in Inboxes : h # i => post'[h] = post[h]
  BY <1>1, InboxShapes, Bounds DEF Posts, Edits
<1>8. /\ queue' \in [Inboxes -> Seq(Deliveries)] /\ \A h \in Inboxes : h # i => queue'[h] = queue[h]
      /\ \A n \in 1 .. Len(queue'[i]) : n + 1 \in 1 .. Len(queue[i]) /\ queue'[i][n] = queue[i][n + 1]
      /\ \A n \in 1 .. Len(queue[i]) : n = 1 \/ n - 1 \in 1 .. Len(queue'[i])
      /\ Len(queue[i]) > 1 => queue'[i] # <<>>
      /\ \A n \in 1 .. Len(queue'[i]) : /\ Known(queue'[i][n].edit, queue'[i][n].tally)
                                        /\ queue'[i][n].poll <= queue'[i][n].tally
  BY <1>1, <1>2, RestOfQueue
<1>9. seen' \in [Inboxes -> Version] /\ faults' \in 0 .. MaxFaults
  BY <1>1, InboxShapes
<1>10. InboxInv(i)'
  BY <1>1, <1>7, <1>8, CurrentFacts DEF InboxInv, Known
<1>11. ~IsNow(Delivery(i))
  BY <1>1, <1>2, CurrentFacts DEF IsNow
<1>12. event'[CurrentKey].state = "none" /\ Served(i) => Served(i)'
  <2>1. ASSUME event'[CurrentKey].state = "none", Waiting(i) PROVE Waiting(i)'
    <3>1. post[i].edit # current.edit
      BY <1>3, <1>4, <1>5, <2>1 DEF CurrentKey
    <3>2. Len(queue[i]) > 1
      BY <1>1, <1>11, <2>1, <3>1 DEF Waiting
    <3> QED
      BY <1>7, <1>8, <3>2 DEF Waiting
  <2> QED
    BY <1>1, <2>1 DEF Served
<1>13. seen[i] = current \/ Queued(i) => seen'[i] = current \/ Queued(i)'
  <2>1. ASSUME Queued(i) PROVE Queued(i)'
    <3>1. PICK n \in 1 .. Len(queue[i]) : IsNow(queue[i][n])
      BY <2>1 DEF Queued
    <3>2. n # 1
      BY <1>2, <1>11, <3>1
    <3>3. n - 1 \in 1 .. Len(queue'[i]) /\ queue'[i][n - 1] = queue[i][n]
      BY <1>8, <3>1, <3>2
    <3> QED
      BY <1>1, <3>1, <3>3 DEF Queued, IsNow
  <2> QED
    BY <1>1, <2>1
<1>14. \A l \in EventKeys : event[l].state = "none" /\ event'[l].state # "none" =>
         event'[l].state = "pending" /\ KnownKey(l) /\ l \notin PollFamily
  BY <1>5, <1>6
<1> QED
  BY <1>1, <1>5, <1>7, <1>8, <1>9, <1>10, <1>12, <1>13, <1>14, OneInbox

LEMMA PostedStep ==
  ASSUME UpdatesInv, NEW i \in Inboxes, Posted(i)
  PROVE  UpdatesInv'
<1> USE DEF UpdatesInv
<1>1. /\ UNCHANGED <<current, vote, event, jobs, slot, keys, faults>> /\ post[i].pc = "post"
      /\ queue' = [queue EXCEPT ![i] = Tail(@)]
      /\ post' = [post EXCEPT ![i] = [pc |-> "idle", edit |-> 0]]
  BY DEF Posted
<1>2. PICK v : v = [edit |-> Delivery(i).edit, poll |-> Delivery(i).tally]
  OBVIOUS
<1>3. /\ v \in Version /\ Known(v.edit, v.poll) /\ (seen[i] = current => v = current)
      /\ IsNow(Delivery(i)) => v = current
  BY <1>1, <1>2, WhatIsPosted
<1>4. /\ seen' \in [Inboxes -> Version] /\ seen'[i] = v /\ \A h \in Inboxes : h # i => seen'[h] = seen[h]
  BY <1>2, <1>3, InboxShapes DEF Posted
<1>5. /\ post' \in [Inboxes -> Posts] /\ post'[i].pc = "idle" /\ post'[i].edit = 0
      /\ \A h \in Inboxes : h # i => post'[h] = post[h]
  BY <1>1, InboxShapes, Bounds DEF Posts, Edits
<1>6. queue[i] # <<>> /\ Delivery(i) = queue[i][1]
  BY <1>1, HeadFacts DEF InboxInv
<1>7. /\ queue' \in [Inboxes -> Seq(Deliveries)] /\ \A h \in Inboxes : h # i => queue'[h] = queue[h]
      /\ \A n \in 1 .. Len(queue'[i]) : n + 1 \in 1 .. Len(queue[i]) /\ queue'[i][n] = queue[i][n + 1]
      /\ \A n \in 1 .. Len(queue[i]) : n = 1 \/ n - 1 \in 1 .. Len(queue'[i])
      /\ Len(queue[i]) > 1 => queue'[i] # <<>>
      /\ \A n \in 1 .. Len(queue'[i]) : /\ Known(queue'[i][n].edit, queue'[i][n].tally)
                                        /\ queue'[i][n].poll <= queue'[i][n].tally
  BY <1>1, <1>6, RestOfQueue
<1>8. event' \in Events /\ faults' \in 0 .. MaxFaults
  BY <1>1, InboxShapes
<1>9. InboxInv(i)'
  BY <1>1, <1>3, <1>4, <1>5, <1>7, CurrentFacts DEF InboxInv, Known
<1>10. Served(i) => Served(i)'
  <2>1. ASSUME Waiting(i) PROVE Served(i)'
    <3>1. CASE Len(queue[i]) > 1
      BY <1>5, <1>7, <3>1 DEF Served, Waiting
    <3>2. CASE IsNow(Delivery(i))
      BY <1>1, <1>3, <1>4, <3>2 DEF Served
    <3> QED
      BY <1>1, <2>1, <3>1, <3>2 DEF Waiting
  <2> QED
    BY <1>1, <1>3, <1>4, <2>1 DEF Served
<1>11. seen[i] = current \/ Queued(i) => seen'[i] = current \/ Queued(i)'
  <2>1. ASSUME Queued(i) PROVE v = current \/ Queued(i)'
    <3>1. PICK n \in 1 .. Len(queue[i]) : IsNow(queue[i][n])
      BY <2>1 DEF Queued
    <3>2. CASE n = 1
      BY <1>3, <1>6, <3>1, <3>2
    <3>3. CASE n # 1
      <4>1. n - 1 \in 1 .. Len(queue'[i]) /\ queue'[i][n - 1] = queue[i][n]
        BY <1>7, <3>1, <3>3
      <4> QED
        BY <1>1, <3>1, <4>1 DEF Queued, IsNow
    <3> QED
      BY <3>2, <3>3
  <2> QED
    BY <1>3, <1>4, <2>1
<1> QED
  BY <1>1, <1>4, <1>5, <1>7, <1>8, <1>9, <1>10, <1>11, OneInbox

-----------------------------------------------------------------------------
(* The initial states, every step, and the theorems.                         *)
LEMMA InitInv ==
  ASSUME Init
  PROVE  UpdatesInv
<1> USE Bounds
<1>1. PollKey(0) \in PollFamily /\ PollKey(0) \in EventKeys /\ PollKey(0)[1] = "poll"
  BY KeysExist, KeyKinds
<1>2. KnownKey(PollKey(0))
  BY <1>1, KeyKinds DEF KnownKey
<1>3. NoJob \in Job /\ NoJob.key = PollKey(0) /\ NoJob.state = "none"
  BY <1>1 DEF NoJob, Job, Edits, Polls
<1>4. /\ IdleSlot \in [pc : {"idle", "status", "poll", "repair", "tally", "record", "done"},
                       job : 0 .. MaxJobs, gen : Nat, spec : Job, edit : Edits,
                       poll : Polls, tally : Polls]
      /\ IdleSlot.pc = "idle" /\ IdleSlot.job = 0 /\ IdleSlot.edit = 0 /\ IdleSlot.poll = 0
      /\ IdleSlot.tally = 0 /\ IdleSlot.spec.key = PollKey(0)
  BY <1>3 DEF IdleSlot, Edits, Polls
<1>5. current \in Version /\ current.edit = 0 /\ current.poll = 0
  BY DEF Init, Version, Edits, Polls
<1>6. \A k \in EventKeys : event[k].state = "none" /\ event[k] = NoEvent
  BY DEF Init, NoEvent
<1>7. \A j \in JobIds : jobs[j].state = "none" /\ ~Live(j)
  BY <1>3 DEF Init, Live
<1>8. PollJobs = {} /\ \A k \in PollFamily : ~Pending(k)
  BY <1>6, <1>7, KeysExist DEF PollJobs, Pending
<1>9. TypeOK
  <2>1. vote \in Ballots /\ vote.pc = "idle" /\ vote.events = {} /\ vote.jobs = {}
    BY DEF Init, NoVote, Ballots
  <2>2. event \in [EventKeys -> [state : {"none", "pending", "sent"}, edit : Edits, poll : Polls]]
    BY DEF Init, NoEvent, Edits, Polls
  <2>3. jobs \in [JobIds -> Job]
    BY <1>3 DEF Init
  <2>4. slot \in [Slots -> [pc : {"idle", "status", "poll", "repair", "tally", "record", "done"},
                            job : 0 .. MaxJobs, gen : Nat, spec : Job, edit : Edits,
                            poll : Polls, tally : Polls]]
    BY <1>4 DEF Init
  <2>5. /\ queue \in [Inboxes -> Seq([edit : Edits, poll : Polls, tally : Polls])]
        /\ post \in [Inboxes -> [pc : {"idle", "poll", "post"}, edit : Edits]]
        /\ seen \in [Inboxes -> Version] /\ faults \in 0 .. MaxFaults
    BY DEF Init, Version, Edits, Polls
  <2> QED
    BY <1>5, <2>1, <2>2, <2>3, <2>4, <2>5 DEF TypeOK, Ballots
<1>10. VoteInv
  BY DEF Init, NoVote, VoteInv
<1>11. OneInv
  BY <1>7, <1>8 DEF OneInv
<1>12. KnownInv
  BY <1>6, <1>7 DEF Init, KnownInv
<1>13. ASSUME NEW s \in Slots PROVE SlotInv(s)
  <2>1. slot[s] = IdleSlot
    BY DEF Init
  <2>2. JobInv(s)
    BY <1>4, <2>1 DEF JobInv
  <2>3. RepairerInv(s)
    BY <1>1, <1>4, <2>1, KeyKinds DEF RepairerInv
  <2> QED
    BY <1>2, <1>4, <1>5, <2>1, <2>2, <2>3 DEF SlotInv, Known
<1>14. ASSUME NEW i \in Inboxes PROVE InboxInv(i) /\ seen[i] = current
  BY <1>5 DEF Init, InboxInv, Known
<1>15. RepairInv /\ CoverInv
  BY <1>6, <1>9, <1>14, CurrentFacts DEF Init, RepairInv, CoverInv, Served
<1> QED
  BY <1>9, <1>10, <1>11, <1>12, <1>13, <1>14, <1>15 DEF UpdatesInv

LEMMA NothingChanges ==
  ASSUME UpdatesInv, UNCHANGED vars
  PROVE  UpdatesInv'
<1>1. /\ UNCHANGED <<current, event, jobs, slot, queue, keys, post, seen, faults>>
      /\ vote' = vote
  BY DEF vars
<1>2. TypeOK' /\ VoteInv'
  BY <1>1, VotesKept DEF UpdatesInv, TypeOK, VoteInv, Pending, PollJobs, Live
<1> QED
  BY <1>1, <1>2, OnlyTheBallot DEF UpdatesInv

LEMMA UpdatesStep ==
  ASSUME UpdatesInv, [Next]_vars
  PROVE  UpdatesInv'
<1>1. CASE VoteBegin \/ VoteRollback
  BY <1>1, BallotReads
<1>2. CASE Ballot
  BY <1>2, BallotReads, VoteCommitStep DEF Ballot
<1>3. CASE Edit \/ PollExpires
  BY <1>3, EditStep, PollExpiresStep
<1>4. CASE \E k \in EventKeys : Dispatch(k)
  BY <1>4, DispatchStep
<1>5. ASSUME NEW s \in Slots, Distribution(s) \/ Crash(s) PROVE UpdatesInv'
  BY <1>5, ReadStatusStep, ReadPollStep, QueueRepairStep, ReadTallyStep, RecordDeliveriesStep,
     AcknowledgeStep, CrashStep DEF Distribution
<1>6. CASE \E s \in Slots, j \in JobIds : Claim(s, j)
  BY <1>6, ClaimStep
<1>7. ASSUME NEW j \in JobIds, OrphanLapses(j) \/ StalledLapses(j) PROVE UpdatesInv'
  <2>1. faults \in 0 .. MaxFaults
    BY DEF UpdatesInv, TypeOK
  <2>2. Lapse(j) /\ faults' \in 0 .. MaxFaults
    BY <1>7, <2>1, Bounds DEF OrphanLapses, StalledLapses, CanFail
  <2> QED
    BY <2>2, LapseStep
<1>8. ASSUME NEW i \in Inboxes, DeliveryStep(i) \/ PostFails(i) \/ AnswerLost(i)
      PROVE  UpdatesInv'
  BY <1>8, CheckStatusStep, CheckPollStep, ReplaceStaleStep, PostedStep, PostFailsStep,
     AnswerLostStep DEF DeliveryStep
<1>9. CASE Idle \/ UNCHANGED vars
  BY <1>9, NothingChanges DEF Idle
<1> QED
  BY <1>1, <1>2, <1>3, <1>4, <1>5, <1>6, <1>7, <1>8, <1>9 DEF Next

LEMMA Invariance == Spec => []UpdatesInv
BY InitInv, UpdatesStep, PTL DEF Spec

(* A ballot only locks events that are pending and jobs that are queued or   *)
(* leased, and a rolled back or committed one (vote_poll) leaves no lock.    *)
THEOREM TypeCorrect == Spec => []TypeOK
<1>1. UpdatesInv => TypeOK
  BY DEF UpdatesInv
<1> QED
  BY <1>1, Invariance, PTL

LEMMA AtMostOne ==
  ASSUME NEW S, \A x, y \in S : x = y
  PROVE  (Cardinality(S) = 0 /\ S = {}) \/ Cardinality(S) = 1
<1>1. CASE S = {}
  BY <1>1, FS_EmptySet
<1>2. ASSUME NEW x \in S PROVE Cardinality(S) = 1
  <2>1. S = {x}
    OBVIOUS
  <2> QED
    BY <2>1, FS_Singleton
<1> QED
  BY <1>1, <1>2

(* record_poll_update_distribution adds a distribution only if no pending    *)
(* event and no unclaimed job of the poll will read the new tally, and what  *)
(* it found out stays true until it commits: never are two distributions of  *)
(* a poll's tally left that no slot has claimed.                             *)
THEOREM VotesAreCoalesced == Spec => []OneFollowUp
<1>1. ASSUME UpdatesInv PROVE OneFollowUp
  <2>1. PICK E, J : E = {k \in PollFamily : Pending(k)} /\ J = {j \in PollJobs : jobs[j].gen = 0}
    OBVIOUS
  <2>2. \A k, l \in E : k = l
    BY <1>1, <2>1 DEF UpdatesInv, OneInv
  <2>3. \A i, j \in J : i = j
    BY <1>1, <2>1 DEF UpdatesInv, OneInv
  <2>4. E = {} \/ J = {}
    BY <1>1, <2>1 DEF UpdatesInv, OneInv
  <2>5. (Cardinality(E) = 0 /\ E = {}) \/ Cardinality(E) = 1
    BY <2>2, AtMostOne
  <2>6. (Cardinality(J) = 0 /\ J = {}) \/ Cardinality(J) = 1
    BY <2>3, AtMostOne
  <2>7. Cardinality(E) + Cardinality(J) <= 1
    BY <2>4, <2>5, <2>6, FS_EmptySet
  <2> QED
    BY <2>1, <2>7 DEF OneFollowUp
<1> QED
  BY <1>1, Invariance, PTL

(* However votes, edits, the expiration, snapshots, repairs and lost answers *)
(* interleave (push.rs, delivery.rs): when no event, job or delivery is left *)
(* to work on, every inbox has received the current text and tally.          *)
THEOREM NothingIsForgotten == Spec => []NoVersionForgotten
<1>1. ASSUME UpdatesInv, Quiescent, NEW i \in Inboxes PROVE seen[i] = current
  <2>1. (\A k \in EventKeys : ~Pending(k)) /\ (\A j \in JobIds : ~Live(j)) /\ queue[i] = <<>>
    BY <1>1 DEF Quiescent
  <2>2. ~Queued(i) /\ ~Waiting(i) /\ ~OnItsWay
    BY <1>1, <2>1, CurrentFacts DEF Queued, Waiting, OnItsWay, UpdatesInv
  <2>3. CASE event[CurrentKey].state # "none"
    BY <1>1, <2>2, <2>3 DEF UpdatesInv, RepairInv
  <2>4. CASE event[CurrentKey].state = "none"
    <3>1. (\A k \in EventKeys : ~UsefulEvent(k)) /\ \A j \in JobIds : ~UsefulJob(j)
      BY <2>1 DEF UsefulEvent, UsefulJob
    <3> QED
      BY <1>1, <2>2, <2>4, <3>1 DEF UpdatesInv, CoverInv, Served
  <2> QED
    BY <2>3, <2>4
<1>2. UpdatesInv => NoVersionForgotten
  BY <1>1 DEF NoVersionForgotten
<1> QED
  BY <1>2, Invariance, PTL
=============================================================================
