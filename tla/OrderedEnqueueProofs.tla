------------------------ MODULE OrderedEnqueueProofs ------------------------
(***************************************************************************)
(* What the acceptance of an activity guarantees for any number of         *)
(* requests, activities, actors and failures: nothing is answered that is  *)
(* not queued, nothing is queued twice and, as long as no prune falls      *)
(* between the first two statements, the handlers of one actor never       *)
(* overlap and the ordered enqueue implements JobStream.                   *)
(***************************************************************************)
EXTENDS OrderedEnqueue, TLAPS

(* After the first statement a request holds the key of its activity, from   *)
(* the fifth on it has a job nobody else can see.                            *)
Holding == {"marker", "lock", "insert", "upsert", "commit"}

Inserted == {"upsert", "commit"}

RequestInv ==
  \A r \in Requests :
    /\ req[r].pc # "idle" => req[r].act \in Activities /\ req[r].body \in Bodies
    /\ req[r].pc \in Holding => key[req[r].act].body = NoBody /\ key[req[r].act].holder = r
    /\ IF req[r].pc \in Inserted
       THEN /\ req[r].id \in JobIds /\ jobs[req[r].id].state = "uncommitted"
            /\ jobs[req[r].id].act = req[r].act /\ jobs[req[r].id].body = req[r].body
            /\ jobs[req[r].id].stream = StreamOfReq(r)
       ELSE req[r].id = 0

(* Ids are taken from the sequence, and an uncommitted row has its request.  *)
JobsInv ==
  \A j \in JobIds :
    /\ jobs[j].state = "free" <=> j >= nextId
    /\ IF jobs[j].state = "free" THEN jobs[j].stream = NoStream
       ELSE jobs[j].stream \in Streams /\ jobs[j].act \in Activities
    /\ jobs[j].state = "uncommitted" => \E r \in Requests : req[r].id = j

(* The job of an activity and of a body, as a delivery asks for it.          *)
Queued(j, a, b) == jobs[j].act = a /\ jobs[j].body = b /\ (Live(j) \/ jobs[j].state = "done")

(* A retained key stands for a job, and a live job for its key.              *)
KeysInv ==
  /\ \A j \in JobIds : Live(j) => key[jobs[j].act].body # NoBody
  /\ \A a \in Activities : key[a].body # NoBody => \E j \in JobIds : Queued(j, a, key[a].body)

EnqueueInv == TypeOK /\ RequestInv /\ JobsInv /\ KeysInv /\ AcceptedIsQueued /\ OneLiveJob

(* Who is to take an id has the marker of the stream, and keeps it.          *)
MarkerInv ==
  /\ \A r \in Requests :
       /\ req[r].pc = "lock" => LET m == marker[StreamOfReq(r)]
                                IN  m.holder # Pruner /\ (m.exists \/ m.holder = r)
       /\ req[r].pc \in {"insert", "upsert", "commit"} => marker[StreamOfReq(r)].holder = r
  /\ \A s \in Streams : marker[s].holder = Pruner => marker[s].dirty
(* So ids of one stream are committed in their order, and started in it.     *)
OrderInv ==
  \A i, j \in JobIds :
    i < j /\ jobs[i].stream = jobs[j].stream =>
      /\ jobs[i].state # "uncommitted"
      /\ Live(i) => jobs[j].state \notin {"running", "performed"}

SerialInv == EnqueueInv /\ MarkerInv /\ OrderInv

-----------------------------------------------------------------------------
(* At first there are no jobs, no keys and no markers.                       *)
LEMMA InitInv == Init => SerialInv
<1> SUFFICES ASSUME Init PROVE SerialInv
  OBVIOUS
<1> USE EnqueueAssumption DEF EnqueueAssumption, Init, JobIds
<1>1. TypeOK
  BY DEF TypeOK, NoRequest, Request, Key, Marker, Job
<1>2. RequestInv /\ MarkerInv
  BY DEF RequestInv, MarkerInv, NoRequest, Holding, Inserted
<1>3. JobsInv /\ KeysInv /\ OrderInv
  BY DEF JobsInv, KeysInv, OrderInv, Live
<1>4. AcceptedIsQueued /\ OneLiveJob
  BY DEF AcceptedIsQueued, OneLiveJob, Live
<1> QED
  BY <1>1, <1>2, <1>3, <1>4 DEF SerialInv, EnqueueInv

-----------------------------------------------------------------------------
(* The types the steps rely on.                                              *)
LEMMA Types ==
  ASSUME EnqueueInv, NEW r \in Requests
  PROVE  /\ req[r] \in Request /\ req[r].pred \in 0 .. MaxJobs
         /\ req[r].pc # "idle" => req[r].act \in Activities /\ req[r].body \in Bodies /\ StreamOfReq(r) \in Streams
         /\ req[r].pc \in Inserted => req[r].id \in JobIds
  BY EnqueueAssumption DEF EnqueueAssumption, EnqueueInv, TypeOK, Request, RequestInv, StreamOfReq

(* Steps that only take locks and note what they read: the jobs, the keys    *)
(* and what was accepted stay.                                               *)
LEMMA QuietStep ==
  ASSUME EnqueueInv, NEW r \in Requests, req' \in [Requests -> Request],
         \A q \in Requests : q # r => req'[q] = req[q],
         req'[r].act = req[r].act, req'[r].body = req[r].body, req'[r].id = req[r].id,
         req[r].pc \in Holding, req'[r].pc \in Holding, req'[r].pc \in Inserted <=> req[r].pc \in Inserted,
         marker' \in [Streams -> Marker],
         UNCHANGED <<key, jobs, nextId, accepted, pruned, aborts>>
  PROVE  EnqueueInv'
<1> USE DEF EnqueueInv
<1>3. TypeOK'
  BY DEF TypeOK
<1>4. RequestInv'
  <2>1. ASSUME NEW q \in Requests
        PROVE  /\ req'[q].act = req[q].act /\ req'[q].body = req[q].body /\ req'[q].id = req[q].id
               /\ req'[q].pc \in Inserted <=> req[q].pc \in Inserted
               /\ req'[q].pc \in Holding => req[q].pc \in Holding
               /\ req[q].pc = "idle" => req'[q].pc = "idle"
               /\ req[q].pc # "idle" \/ req'[q].pc = "idle"
    BY DEF Holding
  <2>2. ASSUME NEW q \in Requests, req'[q].pc \in Inserted
        PROVE  /\ req'[q].id \in JobIds /\ jobs'[req'[q].id].state = "uncommitted"
               /\ jobs'[req'[q].id].act = req'[q].act /\ jobs'[req'[q].id].body = req'[q].body
               /\ jobs'[req'[q].id].stream = StreamOf[req'[q].act]
    BY <2>1, <2>2 DEF RequestInv, StreamOfReq
  <2>3. ASSUME NEW q \in Requests, req'[q].pc \notin Inserted PROVE req'[q].id = 0
    BY <2>1, <2>3 DEF RequestInv
  <2>4. ASSUME NEW q \in Requests
        PROVE  /\ req'[q].pc # "idle" => req'[q].act \in Activities /\ req'[q].body \in Bodies
               /\ req'[q].pc \in Holding => key'[req'[q].act].body = NoBody /\ key'[req'[q].act].holder = q
    BY <2>1 DEF RequestInv
  <2> QED
    BY <2>2, <2>3, <2>4 DEF RequestInv, StreamOfReq
<1>5. JobsInv'
  <2>1. \A q \in Requests : req'[q].id = req[q].id
    OBVIOUS
  <2>2. jobs' = jobs /\ nextId' = nextId
    OBVIOUS
  <2>3. ASSUME NEW j \in JobIds, jobs[j].state = "uncommitted" PROVE \E q \in Requests : req'[q].id = j
    BY <2>1, <2>3 DEF JobsInv
  <2> QED
    BY <2>2, <2>3 DEF JobsInv
<1>6. KeysInv' /\ AcceptedIsQueued' /\ OneLiveJob'
  BY DEF KeysInv, AcceptedIsQueued, OneLiveJob, Live, Queued
<1> QED
  BY <1>3, <1>4, <1>5, <1>6

(* A request begins with nothing held and nothing inserted.                 *)
LEMMA ReceiveStep ==
  ASSUME EnqueueInv, NEW r \in Requests, NEW a \in Activities, NEW b \in Bodies, Receive(r, a, b)
  PROVE  EnqueueInv'
<1> USE DEF EnqueueInv
<1>2. /\ req'[r].pc = "key" /\ req'[r].act = a /\ req'[r].body = b /\ req'[r].id = 0 /\ req[r].id = 0
      /\ \A q \in Requests : q # r => req'[q] = req[q]
      /\ UNCHANGED <<key, marker, jobs, nextId, accepted, pruned, aborts>>
  BY DEF Receive, NoRequest, TypeOK, RequestInv, Inserted
<1>3. TypeOK'
  <2>1. [pc |-> "key", act |-> a, body |-> b, pred |-> 0, id |-> 0] \in Request
    BY EnqueueAssumption DEF EnqueueAssumption, Request
  <2>2. req' \in [Requests -> Request]
    BY <2>1 DEF TypeOK, Receive, NoRequest
  <2> QED
    BY <1>2, <2>2 DEF TypeOK
<1>4. RequestInv'
  BY <1>2 DEF RequestInv, StreamOfReq, Holding, Inserted
<1>5. JobsInv'
  BY <1>2 DEF JobsInv, JobIds
<1>6. KeysInv' /\ AcceptedIsQueued' /\ OneLiveJob'
  BY <1>2 DEF KeysInv, AcceptedIsQueued, OneLiveJob, Live, Queued
<1> QED
  BY <1>3, <1>4, <1>5, <1>6

(* The key of an activity is held by one request at most: whoever finds it  *)
(* free takes it.                                                           *)
LEMMA FreshKeyStep ==
  ASSUME EnqueueInv, NEW r \in Requests, FreshKey(r)
  PROVE  EnqueueInv'
<1> USE DEF EnqueueInv
<1> DEFINE a == req[r].act
<1>1. req[r].pc = "key" /\ a \in Activities
  BY Types DEF FreshKey
<1>2. /\ req'[r].pc = "marker" /\ req'[r].act = req[r].act /\ req'[r].body = req[r].body /\ req'[r].id = req[r].id
      /\ \A q \in Requests : q # r => req'[q] = req[q]
      /\ UNCHANGED <<marker, jobs, nextId, accepted, pruned, aborts>>
  BY DEF FreshKey, Goto, TypeOK, Request
<1>3. /\ key[req[r].act].body = NoBody /\ key[req[r].act].holder = NoOne
      /\ key'[req[r].act].body = NoBody /\ key'[req[r].act].holder = r
      /\ \A b \in Activities : b # req[r].act => key'[b] = key[b]
  BY <1>1 DEF FreshKey, TypeOK, Key
<1>4. TypeOK'
  <2>1. req' \in [Requests -> Request]
    BY DEF FreshKey, Goto, TypeOK, Request
  <2>2. key' \in [Activities -> Key]
    BY <1>1 DEF FreshKey, TypeOK, Key
  <2> QED
    BY <1>2, <2>1, <2>2 DEF TypeOK
<1>5. RequestInv'
  <2>1. ASSUME NEW q \in Requests, q # r, req[q].pc \in Holding PROVE req[q].act # req[r].act
    BY <1>3, <2>1, EnqueueAssumption DEF EnqueueAssumption, RequestInv
  <2>2. ASSUME NEW q \in Requests, q # r, req[q].pc \in Holding PROVE key'[req[q].act] = key[req[q].act]
    BY <1>3, <2>1, <2>2, Types DEF Holding
  <2> QED
    BY <1>1, <1>2, <1>3, <2>2 DEF RequestInv, StreamOfReq, Holding, Inserted
<1>6. JobsInv'
  BY <1>2 DEF JobsInv
<1>7. \A b \in Activities : key'[b].body = key[b].body
  BY <1>3
<1>8. KeysInv' /\ AcceptedIsQueued' /\ OneLiveJob'
  BY <1>2, <1>7 DEF KeysInv, AcceptedIsQueued, OneLiveJob, Live, Queued, JobsInv
<1> QED
  BY <1>4, <1>5, <1>6, <1>8

(* A known key is answered without a job, which KeysInv says is there.      *)
LEMMA KnownKeyStep ==
  ASSUME EnqueueInv, NEW r \in Requests, KnownKey(r)
  PROVE  EnqueueInv'
<1> USE DEF EnqueueInv
<1>1. req[r].pc = "key" /\ req[r].act \in Activities /\ req[r].body \in Bodies
  BY Types DEF KnownKey
<1>2. /\ req'[r].pc = "idle" /\ req'[r].id = 0 /\ req[r].id = 0
      /\ \A q \in Requests : q # r => req'[q] = req[q]
      /\ UNCHANGED <<key, marker, jobs, nextId, pruned, aborts>>
  BY DEF KnownKey, NoRequest, TypeOK, RequestInv, Inserted
<1>3. /\ key[req[r].act].body # NoBody
      /\ accepted' = accepted \/ (accepted' = accepted \cup {<<req[r].act, req[r].body>>} /\ key[req[r].act].body = req[r].body)
  BY DEF KnownKey
<1>4. TypeOK'
  <2>1. NoRequest \in Request
    BY EnqueueAssumption DEF EnqueueAssumption, NoRequest, Request
  <2>2. req' \in [Requests -> Request]
    BY <2>1 DEF KnownKey, TypeOK
  <2> QED
    BY <1>1, <1>2, <1>3, <2>2 DEF TypeOK
<1>5. RequestInv'
  BY <1>2 DEF RequestInv, StreamOfReq, Holding, Inserted
<1>6. JobsInv'
  BY <1>2 DEF JobsInv, JobIds
<1>7. KeysInv' /\ OneLiveJob'
  BY <1>2 DEF KeysInv, OneLiveJob, Live, Queued
<1>8. AcceptedIsQueued'
  <2>1. PICK j \in JobIds : Queued(j, req[r].act, key[req[r].act].body)
    BY <1>1, <1>3 DEF KeysInv
  <2> QED
    BY <1>2, <1>3, <2>1 DEF AcceptedIsQueued, Live, Queued
<1> QED
  BY <1>4, <1>5, <1>6, <1>7, <1>8

(* The second statement writes the marker at most.                          *)
LEMMA InsertMarkerStep ==
  ASSUME EnqueueInv, NEW r \in Requests, InsertMarker(r)
  PROVE  EnqueueInv'
<1>1. req[r].pc = "marker" /\ StreamOfReq(r) \in Streams
  BY Types DEF InsertMarker
<1>2. /\ req' \in [Requests -> Request] /\ \A q \in Requests : q # r => req'[q] = req[q]
      /\ req'[r].act = req[r].act /\ req'[r].body = req[r].body /\ req'[r].id = req[r].id /\ req'[r].pc = "lock"
  BY DEF InsertMarker, Goto, EnqueueInv, TypeOK, Request
<1>3. marker' \in [Streams -> Marker]
  BY <1>1 DEF InsertMarker, EnqueueInv, TypeOK, Marker
<1> QED
  BY <1>1, <1>2, <1>3, QuietStep DEF InsertMarker, Holding, Inserted

(* The third locks it at most, and notes the predecessor.                   *)
LEMMA LockMarkerStep ==
  ASSUME EnqueueInv, NEW r \in Requests, LockMarker(r)
  PROVE  EnqueueInv'
<1>1. req[r].pc = "lock" /\ StreamOfReq(r) \in Streams
  BY Types DEF LockMarker
<1>2. /\ req' \in [Requests -> Request] /\ \A q \in Requests : q # r => req'[q] = req[q]
      /\ req'[r].act = req[r].act /\ req'[r].body = req[r].body /\ req'[r].id = req[r].id /\ req'[r].pc = "insert"
  <2>1. MaxJobs \in Nat /\ marker[StreamOfReq(r)].last \in 0 .. MaxJobs
    BY <1>1, EnqueueAssumption DEF EnqueueAssumption, EnqueueInv, TypeOK, Marker
  <2>2. PICK pred \in 0 .. MaxJobs : req' = [req EXCEPT ![r].pc = "insert", ![r].pred = pred]
    <3>1. (IF marker[StreamOfReq(r)].exists THEN marker[StreamOfReq(r)].last ELSE 0) \in 0 .. MaxJobs
      BY <2>1
    <3> QED
      BY <3>1 DEF LockMarker
  <2> QED
    BY <2>2 DEF EnqueueInv, TypeOK, Request
<1>3. marker' \in [Streams -> Marker]
  BY <1>1 DEF LockMarker, EnqueueInv, TypeOK, Marker
<1> QED
  BY <1>1, <1>2, <1>3, QuietStep DEF LockMarker, Holding, Inserted

(* The fifth locks it, if the third did not.                                 *)
LEMMA UpsertMarkerStep ==
  ASSUME EnqueueInv, NEW r \in Requests, UpsertMarker(r)
  PROVE  EnqueueInv'
<1>1. req[r].pc = "upsert" /\ StreamOfReq(r) \in Streams
  BY Types DEF UpsertMarker
<1>2. /\ req' \in [Requests -> Request] /\ \A q \in Requests : q # r => req'[q] = req[q]
      /\ req'[r].act = req[r].act /\ req'[r].body = req[r].body /\ req'[r].id = req[r].id /\ req'[r].pc = "commit"
  BY DEF UpsertMarker, Goto, EnqueueInv, TypeOK, Request
<1>3. marker' \in [Streams -> Marker]
  BY <1>1 DEF UpsertMarker, EnqueueInv, TypeOK, Marker
<1> QED
  BY <1>1, <1>2, <1>3, QuietStep DEF UpsertMarker, Holding, Inserted

(* The new job is seen by nobody, and is nobody else's.                     *)
LEMMA InsertJobStep ==
  ASSUME EnqueueInv, NEW r \in Requests, InsertJob(r)
  PROVE  EnqueueInv'
<1> USE DEF EnqueueInv
<1>1. req[r].pc = "insert" /\ req[r].act \in Activities /\ req[r].body \in Bodies /\ StreamOfReq(r) \in Streams
  BY Types DEF InsertJob
<1>2. nextId \in JobIds /\ nextId \in Nat /\ MaxJobs \in Nat
  BY EnqueueAssumption DEF EnqueueAssumption, InsertJob, TypeOK, JobIds
<1>3. /\ req'[r].pc = "upsert" /\ req'[r].act = req[r].act /\ req'[r].body = req[r].body /\ req'[r].id = nextId
      /\ req[r].id = 0
      /\ \A q \in Requests : q # r => req'[q] = req[q]
      /\ UNCHANGED <<key, marker, accepted, pruned, aborts>> /\ nextId' = nextId + 1
  BY <1>1 DEF InsertJob, TypeOK, Request, RequestInv, Inserted
<1>4. /\ jobs'[nextId].state = "uncommitted" /\ jobs'[nextId].act = req[r].act /\ jobs'[nextId].body = req[r].body
      /\ jobs'[nextId].stream = StreamOfReq(r) /\ jobs[nextId].state = "free"
      /\ \A j \in JobIds : j # nextId => jobs'[j] = jobs[j]
  BY <1>2 DEF InsertJob, TypeOK, JobsInv
<1>5. TypeOK'
  <2>1. [state |-> "uncommitted", act |-> req[r].act, body |-> req[r].body,
         stream |-> StreamOfReq(r), pred |-> req[r].pred] \in Job
    BY <1>1, Types DEF Job
  <2>2. jobs' \in [JobIds -> Job]
    BY <2>1 DEF InsertJob, TypeOK
  <2>3. req' \in [Requests -> Request]
    <3>1. nextId \in 0 .. MaxJobs
      BY <1>2 DEF JobIds
    <3> QED
      BY <3>1, ZenonT(60) DEF InsertJob, TypeOK, Request
  <2> QED
    BY <1>2, <1>3, <2>2, <2>3 DEF TypeOK, JobIds
<1>6. RequestInv'
  <2>1. ASSUME NEW q \in Requests, q # r, req[q].pc \in Inserted PROVE req[q].id # nextId
    BY <1>4, <2>1 DEF RequestInv
  <2>2. ASSUME NEW q \in Requests, q # r, req[q].pc \in Inserted PROVE jobs'[req[q].id] = jobs[req[q].id]
    BY <1>4, <2>1, <2>2, Types
  <2> QED
    BY <1>1, <1>2, <1>3, <1>4, <2>2 DEF RequestInv, StreamOfReq, Holding, Inserted
<1>7. JobsInv'
  BY <1>1, <1>2, <1>3, <1>4, EnqueueAssumption DEF EnqueueAssumption, JobsInv, JobIds
<1>8. \A j \in JobIds : \/ j # nextId /\ jobs'[j] = jobs[j]
                        \/ j = nextId /\ ~Live(j) /\ ~Live(j)' /\ jobs[j].state # "done"
  BY <1>4 DEF Live
<1>9. KeysInv' /\ AcceptedIsQueued' /\ OneLiveJob'
  BY <1>3, <1>8 DEF KeysInv, AcceptedIsQueued, OneLiveJob, Live, Queued
<1> QED
  BY <1>5, <1>6, <1>7, <1>9

(* Two requests of one activity do not get past the first statement, and     *)
(* never write the same row.                                                 *)
LEMMA Exclusive ==
  ASSUME EnqueueInv, NEW r \in Requests, NEW q \in Requests, r # q
  PROVE  /\ req[r].pc \in Holding /\ req[q].pc \in Holding => req[r].act # req[q].act
         /\ req[r].pc \in Inserted /\ req[q].pc \in Inserted => req[r].id # req[q].id
<1>1. req[r].pc \in Holding /\ req[q].pc \in Holding => req[r].act # req[q].act
  BY DEF EnqueueInv, RequestInv
<1>2. Inserted \subseteq Holding
  BY DEF Inserted, Holding
<1> QED
  BY <1>1, <1>2 DEF EnqueueInv, RequestInv

(* The commit shows the job and the key at once.                             *)
LEMMA CommitStep ==
  ASSUME EnqueueInv, NEW r \in Requests, Commit(r)
  PROVE  EnqueueInv'
<1> USE DEF EnqueueInv
<1>1. PICK a \in Activities, b \in Bodies, n \in JobIds :
        req[r].pc = "commit" /\ a = req[r].act /\ b = req[r].body /\ n = req[r].id
  BY Types DEF Commit, Inserted
<1>2. /\ jobs[n].state = "uncommitted" /\ jobs[n].act = a /\ jobs[n].body = b /\ jobs[n].stream = StreamOf[a]
      /\ key[a].body = NoBody /\ StreamOf[a] \in Streams /\ b # NoBody
  BY <1>1, EnqueueAssumption DEF EnqueueAssumption, RequestInv, Inserted, Holding, StreamOfReq
<1>3. /\ req'[r].pc = "idle" /\ req'[r].id = 0
      /\ \A q \in Requests : q # r => req'[q] = req[q]
      /\ UNCHANGED <<nextId, pruned, aborts>> /\ accepted' = accepted \cup {<<a, b>>}
  BY <1>1 DEF Commit, NoRequest, TypeOK
<1>4. /\ key'[a].body = b /\ \A c \in Activities : c # a => key'[c] = key[c]
  BY <1>1 DEF Commit, TypeOK
<1>5. /\ jobs'[n].state = "pending" /\ jobs'[n].act = a /\ jobs'[n].body = b /\ jobs'[n].stream = StreamOf[a]
      /\ \A j \in JobIds : j # n => jobs'[j] = jobs[j]
  <2>1. jobs[n] \in Job /\ jobs' = [jobs EXCEPT ![n].state = "pending"]
    BY <1>1 DEF Commit, TypeOK
  <2> QED
    BY <1>2, <2>1 DEF TypeOK, Job
<1>6. TypeOK'
  <2>1. req' \in [Requests -> Request]
    <3>1. NoRequest \in Request
      BY EnqueueAssumption DEF EnqueueAssumption, NoRequest, Request
    <3> QED
      BY <3>1 DEF Commit, TypeOK
  <2>2. key' \in [Activities -> Key]
    <3>1. [body |-> b, holder |-> NoOne] \in Key
      BY DEF Key
    <3> QED
      BY <1>1, <3>1 DEF Commit, TypeOK
  <2>3. marker' \in [Streams -> Marker]
    <3>1. [exists |-> TRUE, last |-> n, holder |-> NoOne, dirty |-> FALSE] \in Marker
      BY EnqueueAssumption DEF EnqueueAssumption, Marker, JobIds
    <3> QED
      BY <1>1, <3>1 DEF Commit, TypeOK
  <2>4. jobs' \in [JobIds -> Job]
    <3>1. jobs[n] \in Job /\ jobs' = [jobs EXCEPT ![n].state = "pending"]
      BY <1>1 DEF Commit, TypeOK
    <3>2. [jobs[n] EXCEPT !.state = "pending"] \in Job
      BY <3>1 DEF Job
    <3> QED
      BY <3>1, <3>2 DEF TypeOK
  <2> QED
    BY <1>3, <2>1, <2>2, <2>3, <2>4 DEF TypeOK
<1>7. RequestInv'
  <2>1. ASSUME NEW q \in Requests, q # r, req[q].pc \in Holding PROVE key'[req[q].act] = key[req[q].act]
    BY <1>1, <1>4, <2>1, Exclusive, Types DEF Holding
  <2>2. ASSUME NEW q \in Requests, q # r, req[q].pc \in Inserted PROVE jobs'[req[q].id] = jobs[req[q].id]
    BY <1>1, <1>5, <2>2, Exclusive, Types DEF Inserted
  <2> QED
    BY <1>3, <2>1, <2>2 DEF RequestInv, StreamOfReq, Holding, Inserted
<1>8. JobsInv'
  <2>1. ASSUME NEW j \in JobIds, jobs'[j].state = "uncommitted" PROVE \E q \in Requests : req'[q].id = j
    BY <1>1, <1>3, <1>5, <2>1 DEF JobsInv
  <2> QED
    BY <1>2, <1>3, <1>5, <2>1 DEF JobsInv
<1>9. \A j \in JobIds : j # n => (Live(j)' <=> Live(j)) /\ \A c, d : Queued(j, c, d)' <=> Queued(j, c, d)
  BY <1>5 DEF Live, Queued
<1>10. Queued(n, a, b)' /\ Live(n)' /\ ~Live(n) /\ \A c, d : ~Queued(n, c, d)
  BY <1>2, <1>5 DEF Live, Queued
<1>11. ASSUME NEW j \in JobIds, Live(j) PROVE jobs[j].act \in Activities \ {a} /\ key[jobs[j].act].body # NoBody
  BY <1>2, <1>11 DEF JobsInv, KeysInv, Live
<1>12. KeysInv'
  <2>1. ASSUME NEW j \in JobIds, Live(j)' PROVE key'[jobs'[j].act].body # NoBody
    <3>1. CASE j = n
      BY <1>2, <1>4, <1>5, <3>1
    <3>2. CASE j # n
      BY <1>4, <1>5, <1>9, <1>11, <2>1, <3>2
    <3> QED
      BY <3>1, <3>2
  <2>2. ASSUME NEW c \in Activities, key'[c].body # NoBody
        PROVE  \E j \in JobIds : jobs'[j].act = c /\ jobs'[j].body = key'[c].body /\ (Live(j)' \/ jobs'[j].state = "done")
    <3>1. CASE c = a
      BY <1>4, <1>5, <1>10, <3>1
    <3>2. CASE c # a
      <4>1. key'[c] = key[c]
        BY <1>4, <3>2
      <4>2. PICK j \in JobIds : Queued(j, c, key[c].body)
        BY <2>2, <4>1 DEF KeysInv
      <4>3. j # n /\ jobs'[j] = jobs[j]
        BY <1>5, <1>10, <4>2
      <4>4. Live(j)' <=> Live(j)
        BY <1>9, <4>3
      <4> QED
        BY <4>1, <4>2, <4>3, <4>4 DEF Queued
    <3> QED
      BY <3>1, <3>2
  <2> QED
    BY <2>1, <2>2 DEF KeysInv, Queued
<1>13. AcceptedIsQueued'
  <2>1. ASSUME NEW d \in accepted
        PROVE  \E j \in JobIds : jobs'[j].act = d[1] /\ jobs'[j].body = d[2] /\ (Live(j)' \/ jobs'[j].state = "done")
    <3>1. PICK j \in JobIds : Queued(j, d[1], d[2])
      BY DEF AcceptedIsQueued, Queued
    <3>2. j # n /\ jobs'[j] = jobs[j]
      BY <1>5, <1>10, <3>1
    <3>3. Live(j)' <=> Live(j)
      BY <1>9, <3>2
    <3> QED
      BY <3>1, <3>2, <3>3 DEF Queued
  <2>2. <<a, b>>[1] = a /\ <<a, b>>[2] = b
    OBVIOUS
  <2> QED
    BY <1>3, <1>5, <1>10, <2>1, <2>2 DEF AcceptedIsQueued
<1>14. OneLiveJob'
  BY <1>5, <1>9, <1>10, <1>11 DEF OneLiveJob
<1> QED
  BY <1>6, <1>7, <1>8, <1>12, <1>13, <1>14

(* A transaction that fails leaves nothing but its id unused.                *)
LEMMA AbortStep ==
  ASSUME EnqueueInv, NEW r \in Requests, Abort(r)
  PROVE  EnqueueInv'
<1> USE DEF EnqueueInv
<1>1. /\ req'[r].pc = "idle" /\ req'[r].id = 0
      /\ \A q \in Requests : q # r => req'[q] = req[q]
      /\ UNCHANGED <<nextId, accepted, pruned>>
  BY DEF Abort, NoRequest, TypeOK
<1>2. \A a \in Activities : /\ key'[a].body = key[a].body
                            /\ key[a].holder # r => key'[a].holder = key[a].holder
  BY DEF Abort, TypeOK, Key
<1>3. \A j \in JobIds : IF j = req[r].id
                        THEN /\ jobs'[j].state = "rolled back" /\ jobs'[j].act = jobs[j].act
                             /\ jobs'[j].body = jobs[j].body /\ jobs'[j].stream = jobs[j].stream
                             /\ jobs[j].state = "uncommitted" /\ req[r].pc \in Inserted
                        ELSE jobs'[j] = jobs[j]
  <2>1. ASSUME NEW j \in JobIds, j = req[r].id PROVE jobs[j].state = "uncommitted" /\ req[r].pc \in Inserted
    BY <2>1, EnqueueAssumption DEF EnqueueAssumption, RequestInv, JobIds
  <2>2. ASSUME NEW j \in JobIds PROVE jobs'[j] = IF j = req[r].id THEN [jobs[j] EXCEPT !.state = "rolled back"] ELSE jobs[j]
    BY DEF Abort
  <2> QED
    BY <2>1, <2>2 DEF TypeOK, Job
<1>4. TypeOK'
  <2>1. req' \in [Requests -> Request]
    <3>1. NoRequest \in Request
      BY EnqueueAssumption DEF EnqueueAssumption, NoRequest, Request
    <3> QED
      BY <3>1 DEF Abort, TypeOK
  <2>2. key' \in [Activities -> Key]
    BY DEF Abort, TypeOK, Key
  <2>3. marker' \in [Streams -> Marker]
    BY DEF Abort, TypeOK, Marker
  <2>4. jobs' \in [JobIds -> Job]
    <3>1. \A j \in JobIds : jobs[j] \in Job /\ [jobs[j] EXCEPT !.state = "rolled back"] \in Job
      BY DEF TypeOK, Job
    <3> QED
      BY <3>1 DEF Abort
  <2>5. aborts' \in 0 .. MaxAborts
    <3>1. MaxAborts \in Nat /\ aborts \in 0 .. MaxAborts
      BY EnqueueAssumption DEF EnqueueAssumption, TypeOK
    <3>2. (aborts' = aborts + 1 /\ aborts < MaxAborts) \/ aborts' = aborts
      BY DEF Abort
    <3> QED
      BY <3>1, <3>2
  <2> QED
    BY <1>1, <2>1, <2>2, <2>3, <2>4, <2>5 DEF TypeOK
<1>5. RequestInv'
  <2>1. ASSUME NEW q \in Requests, q # r, req[q].pc \in Holding
        PROVE  key'[req[q].act].body = NoBody /\ key'[req[q].act].holder = q
    <3>1. req[q].act \in Activities /\ key[req[q].act].body = NoBody /\ key[req[q].act].holder = q
      BY <2>1, Types DEF RequestInv, Holding
    <3> QED
      BY <1>2, <2>1, <3>1
  <2>2. ASSUME NEW q \in Requests, q # r, req[q].pc \in Inserted PROVE jobs'[req[q].id] = jobs[req[q].id]
    BY <1>3, <2>2, Exclusive, Types
  <2>3. ASSUME NEW q \in Requests, q # r, req[q].pc \in Inserted
        PROVE  /\ req[q].id \in JobIds /\ jobs'[req[q].id].state = "uncommitted"
               /\ jobs'[req[q].id].act = req[q].act /\ jobs'[req[q].id].body = req[q].body
               /\ jobs'[req[q].id].stream = StreamOf[req[q].act]
    BY <2>2, <2>3 DEF RequestInv, StreamOfReq
  <2> QED
    BY <1>1, <2>1, <2>3 DEF RequestInv, StreamOfReq, Holding, Inserted
<1>6. JobsInv'
  <2>1. ASSUME NEW j \in JobIds, jobs'[j].state = "uncommitted" PROVE \E q \in Requests : req'[q].id = j
    <3>1. j # req[r].id /\ jobs'[j] = jobs[j]
      BY <1>3, <2>1
    <3>2. PICK q \in Requests : req[q].id = j
      BY <2>1, <3>1 DEF JobsInv
    <3> QED
      BY <1>1, <3>1, <3>2
  <2> QED
    BY <1>1, <1>3, <2>1 DEF JobsInv
<1>7. \A j \in JobIds : /\ Live(j)' <=> Live(j)
                        /\ jobs'[j].state = "done" <=> jobs[j].state = "done"
                        /\ jobs'[j].act = jobs[j].act /\ jobs'[j].body = jobs[j].body
  BY <1>3 DEF Live
<1>8. KeysInv' /\ AcceptedIsQueued' /\ OneLiveJob'
  BY <1>1, <1>2, <1>7 DEF KeysInv, AcceptedIsQueued, OneLiveJob, Queued, JobsInv, Live
<1> QED
  BY <1>4, <1>5, <1>6, <1>8

(* The processing of the queue: a live job stays its stream's live job       *)
(* until it is done.                                                         *)
LEMMA JobStepStep ==
  ASSUME EnqueueInv, NEW j \in JobIds, Start(j) \/ Perform(j) \/ Complete(j)
  PROVE  EnqueueInv'
<1> USE DEF EnqueueInv
<1>1. PICK from \in {"pending", "running", "performed"}, to \in {"running", "performed", "done"} : Step(j, from, to)
  BY DEF Start, Perform, Complete
<1>2. /\ jobs[j].state = from /\ jobs'[j].state = to
      /\ \A i \in JobIds : jobs'[i].act = jobs[i].act /\ jobs'[i].body = jobs[i].body /\ jobs'[i].stream = jobs[i].stream
      /\ \A i \in JobIds : i # j => jobs'[i] = jobs[i]
      /\ UNCHANGED <<req, key, marker, nextId, accepted, pruned, aborts>>
  <2>1. jobs[j] \in Job
    BY DEF TypeOK
  <2> QED
    BY <1>1, <2>1 DEF Step, TypeOK, Job
<1>3. TypeOK'
  <2>1. jobs[j] \in Job /\ [jobs[j] EXCEPT !.state = to] \in Job
    BY DEF TypeOK, Job
  <2>2. jobs' \in [JobIds -> Job]
    BY <1>1, <2>1 DEF Step, TypeOK
  <2> QED
    BY <1>2, <2>2 DEF TypeOK
<1>4. RequestInv'
  <2>1. ASSUME NEW q \in Requests, req[q].pc \in Inserted PROVE jobs'[req[q].id] = jobs[req[q].id]
    BY <1>2, <2>1, Types DEF RequestInv
  <2> QED
    BY <1>2, <2>1 DEF RequestInv, StreamOfReq
<1>5. JobsInv'
  <2>1. ASSUME NEW i \in JobIds, jobs'[i].state = "uncommitted" PROVE \E q \in Requests : req'[q].id = i
    BY <1>2, <2>1 DEF JobsInv
  <2> QED
    BY <1>2, <2>1 DEF JobsInv
<1>6. \A i \in JobIds : /\ Live(i)' => Live(i)
                        /\ Live(i) \/ jobs[i].state = "done" <=> Live(i)' \/ jobs'[i].state = "done"
  BY <1>2 DEF Live
<1>7. KeysInv' /\ AcceptedIsQueued' /\ OneLiveJob'
  BY <1>2, <1>6 DEF KeysInv, AcceptedIsQueued, OneLiveJob, Queued
<1> QED
  BY <1>3, <1>4, <1>5, <1>7

(* A key is forgotten once its job is resolved.                              *)
LEMMA KeyExpiresStep ==
  ASSUME EnqueueInv, NEW a \in Activities, KeyExpires(a)
  PROVE  EnqueueInv'
<1> USE DEF EnqueueInv
<1>1. /\ key[a].body # NoBody /\ \A j \in JobIds : Live(j) => jobs[j].act # a
      /\ key'[a].body = NoBody /\ \A c \in Activities : c # a => key'[c] = key[c]
      /\ \A c \in Activities : key'[c].holder = key[c].holder
      /\ UNCHANGED <<req, marker, jobs, nextId, accepted, pruned, aborts>>
  BY DEF KeyExpires, TypeOK, Key
<1>2. TypeOK'
  <2>1. key' \in [Activities -> Key]
    BY DEF KeyExpires, TypeOK, Key
  <2> QED
    BY <1>1, <2>1 DEF TypeOK
<1>3. RequestInv'
  <2>1. ASSUME NEW q \in Requests, req[q].pc \in Holding
        PROVE  key'[req[q].act].body = NoBody /\ key'[req[q].act].holder = q
    <3>1. req[q].act \in Activities /\ key[req[q].act].body = NoBody /\ key[req[q].act].holder = q
      BY <2>1, Types DEF RequestInv, Holding
    <3> QED
      BY <1>1, <3>1
  <2> QED
    BY <1>1, <2>1 DEF RequestInv, StreamOfReq
<1>4. JobsInv'
  BY <1>1 DEF JobsInv
<1>5. KeysInv' /\ AcceptedIsQueued' /\ OneLiveJob'
  BY <1>1 DEF KeysInv, AcceptedIsQueued, OneLiveJob, Queued, Live, JobsInv
<1> QED
  BY <1>2, <1>3, <1>4, <1>5

(* The prune touches markers only.                                           *)
LEMMA PruneStep ==
  ASSUME EnqueueInv, NEW s \in Streams, PruneMarker(s) \/ PruneCommit(s)
  PROVE  EnqueueInv'
<1> USE DEF EnqueueInv
<1>1. UNCHANGED <<req, key, jobs, nextId, accepted, aborts>> /\ (pruned' = pruned \/ pruned' = pruned + 1)
  BY DEF PruneMarker, PruneCommit
<1>2. marker' \in [Streams -> Marker]
  <2>1. CASE PruneMarker(s)
    BY <2>1, ZenonT(60) DEF PruneMarker, TypeOK, Marker
  <2>2. CASE PruneCommit(s)
    <3>1. 0 \in 0 .. MaxJobs
      BY EnqueueAssumption DEF EnqueueAssumption
    <3>2. [exists |-> FALSE, last |-> 0, holder |-> NoOne, dirty |-> FALSE] \in Marker
      BY <3>1 DEF Marker
    <3> QED
      BY <2>2, <3>2 DEF PruneCommit, TypeOK
  <2> QED
    BY <2>1, <2>2
<1>3. TypeOK'
  BY <1>1, <1>2 DEF TypeOK
<1>4. RequestInv' /\ JobsInv'
  BY <1>1 DEF RequestInv, JobsInv, StreamOfReq
<1>5. KeysInv' /\ AcceptedIsQueued' /\ OneLiveJob'
  BY <1>1 DEF KeysInv, AcceptedIsQueued, OneLiveJob, Queued, Live
<1> QED
  BY <1>3, <1>4, <1>5

(* Whoever takes part, and whatever the prune does.                          *)
LEMMA EnqueueStep == EnqueueInv /\ [Next]_vars => EnqueueInv'
<1> SUFFICES ASSUME EnqueueInv, [Next]_vars PROVE EnqueueInv'
  OBVIOUS
<1>1. ASSUME NEW r \in Requests, NEW d \in Deliveries, Receive(r, d[1], d[2]) PROVE EnqueueInv'
  <2>1. d[1] \in Activities /\ d[2] \in Bodies
    BY EnqueueAssumption DEF EnqueueAssumption
  <2> QED
    BY <1>1, <2>1, ReceiveStep
<1>2. ASSUME NEW r \in Requests, Statement(r) PROVE EnqueueInv'
  BY <1>2, FreshKeyStep, KnownKeyStep, InsertMarkerStep, LockMarkerStep, InsertJobStep, UpsertMarkerStep,
     CommitStep, AbortStep DEF Statement
<1>3. ASSUME NEW j \in JobIds, Start(j) \/ Perform(j) \/ Complete(j) PROVE EnqueueInv'
  BY <1>3, JobStepStep
<1>4. ASSUME NEW a \in Activities, KeyExpires(a) PROVE EnqueueInv'
  BY <1>4, KeyExpiresStep
<1>5. ASSUME NEW s \in Streams, PruneMarker(s) \/ PruneCommit(s) PROVE EnqueueInv'
  BY <1>5, PruneStep
<1>6. ASSUME UNCHANGED vars PROVE EnqueueInv'
  BY <1>6 DEF vars, EnqueueInv, TypeOK, RequestInv, StreamOfReq, JobsInv, KeysInv, AcceptedIsQueued, OneLiveJob,
     Queued, Live
<1> QED
  BY <1>1, <1>2, <1>3, <1>4, <1>5, <1>6 DEF Next

(* No interleaving of requests, failures and worker slots leaves these       *)
(* values.                                                                   *)
THEOREM TypeCorrect == Spec => []TypeOK
<1>1. Init => EnqueueInv
  BY InitInv DEF SerialInv
<1>2. EnqueueInv => TypeOK
  BY DEF EnqueueInv
<1> QED
  BY <1>1, <1>2, EnqueueStep, PTL DEF Spec

(* What was answered with 202 Accepted has a job with the posted body, live  *)
(* or done, for any number of racing requests and failed transactions.       *)
THEOREM NothingAcceptedIsLost == Spec => []AcceptedIsQueued
<1>1. Init => EnqueueInv
  BY InitInv DEF SerialInv
<1>2. EnqueueInv => AcceptedIsQueued
  BY DEF EnqueueInv
<1> QED
  BY <1>1, <1>2, EnqueueStep, PTL DEF Spec

(* An activity never has two live jobs, however often it is delivered.       *)
THEOREM AcceptedOnce == Spec => []OneLiveJob
<1>1. Init => EnqueueInv
  BY InitInv DEF SerialInv
<1>2. EnqueueInv => OneLiveJob
  BY DEF EnqueueInv
<1> QED
  BY <1>1, <1>2, EnqueueStep, PTL DEF Spec
-----------------------------------------------------------------------------
(* The marker and the order of ids, step by step.  A step that leaves the    *)
(* jobs alone cannot disturb the order.                                      *)
LEMMA OrderKept == OrderInv /\ UNCHANGED jobs => OrderInv'
  BY DEF OrderInv, Live

(* A request between its lock and its commit is alone on its stream, and no  *)
(* other transaction has an uncommitted id of that stream.                   *)
LEMMA Alone ==
  ASSUME SerialInv, NEW r \in Requests, req[r].pc \in {"insert", "upsert", "commit"}
  PROVE  /\ \A q \in Requests : q # r /\ req[q].pc \in {"insert", "upsert", "commit"} => StreamOfReq(q) # StreamOfReq(r)
         /\ \A i \in JobIds : jobs[i].state = "uncommitted" /\ jobs[i].stream = StreamOfReq(r) => i = req[r].id
<1>1. ASSUME NEW q \in Requests, q # r, req[q].pc \in {"insert", "upsert", "commit"}
      PROVE  StreamOfReq(q) # StreamOfReq(r)
  BY <1>1 DEF SerialInv, MarkerInv
<1>2. ASSUME NEW i \in JobIds, jobs[i].state = "uncommitted", jobs[i].stream = StreamOfReq(r)
      PROVE  i = req[r].id
  <2>1. PICK q \in Requests : req[q].id = i
    BY <1>2 DEF SerialInv, EnqueueInv, JobsInv
  <2>2. req[q].pc \in Inserted
    BY <2>1, EnqueueAssumption DEF EnqueueAssumption, SerialInv, EnqueueInv, RequestInv, JobIds
  <2>3. StreamOfReq(q) = StreamOfReq(r)
    BY <1>2, <2>1, <2>2 DEF SerialInv, EnqueueInv, RequestInv
  <2> QED
    BY <1>1, <2>1, <2>2, <2>3 DEF Inserted
<1> QED
  BY <1>1, <1>2

(* Steps of a request that leave the marker as it is and do not bring it     *)
(* among those that need it.                                                 *)
LEMMA MarkerUntouched ==
  ASSUME MarkerInv, NEW r \in Requests, \A q \in Requests : q # r => req'[q] = req[q],
         UNCHANGED marker, req'[r].pc \notin {"lock", "insert", "upsert", "commit"}
  PROVE  MarkerInv'
  BY DEF MarkerInv, StreamOfReq

(* The marker is found or made by the second statement and locked by the     *)
(* third.                                                                    *)
LEMMA MarkerStatements ==
  ASSUME SerialInv, NEW r \in Requests, InsertMarker(r) \/ LockMarker(r) \/ UpsertMarker(r)
  PROVE  MarkerInv' /\ UNCHANGED jobs
<1> USE EnqueueAssumption DEF EnqueueAssumption, SerialInv, EnqueueInv
<1> DEFINE Late == {"insert", "upsert", "commit"}
<1>1. PICK s \in Streams : s = StreamOfReq(r)
  BY Types DEF InsertMarker, LockMarker, UpsertMarker
<1>2. /\ \A q \in Requests : q # r => req'[q] = req[q]
      /\ req'[r].act = req[r].act /\ UNCHANGED jobs
      /\ \/ InsertMarker(r) /\ req'[r].pc = "lock"
         \/ LockMarker(r) /\ req'[r].pc = "insert"
         \/ UpsertMarker(r) /\ req'[r].pc = "commit"
  BY DEF InsertMarker, LockMarker, UpsertMarker, Goto, TypeOK, Request
<1>3. \A q \in Requests : StreamOfReq(q)' = StreamOfReq(q)
  BY <1>2 DEF StreamOfReq
<1>4. \A t \in Streams : t # s => marker'[t] = marker[t]
  BY <1>1 DEF InsertMarker, LockMarker, UpsertMarker, TypeOK
<1>5. /\ marker'[s].exists = marker[s].exists
      /\ marker'[s].holder = marker[s].holder \/ (marker[s].holder \in {NoOne, r} /\ marker'[s].holder = r)
      /\ IF req'[r].pc = "lock"
         THEN marker'[s].holder # Pruner /\ (marker'[s].exists \/ marker'[s].holder = r)
         ELSE marker'[s].holder = r
      /\ marker'[s].holder = Pruner => marker'[s].dirty
  <2>1. marker[s] \in Marker
    BY DEF TypeOK
  <2>2. CASE InsertMarker(r)
    <3>1. CASE marker[s].exists /\ ~marker[s].dirty /\ UNCHANGED marker
      BY <1>2, <2>2, <3>1 DEF InsertMarker, LockMarker, UpsertMarker, MarkerInv
    <3>2. CASE ~marker[s].exists /\ marker[s].holder = NoOne
               /\ marker' = [marker EXCEPT ![s].holder = r, ![s].dirty = TRUE]
      <4>1. marker'[s].holder = r /\ marker'[s].exists = marker[s].exists
        BY <2>1, <3>2 DEF TypeOK, Marker
      <4>2. req'[r].pc = "lock"
        BY <1>2, <2>2 DEF InsertMarker, LockMarker, UpsertMarker
      <4> QED
        BY <3>2, <4>1, <4>2
    <3> QED
      BY <1>1, <2>2, <3>1, <3>2 DEF InsertMarker
  <2>3. CASE LockMarker(r)
    BY <1>1, <1>2, <2>1, <2>3 DEF LockMarker, MarkerInv, TypeOK, Marker
  <2>4. CASE UpsertMarker(r)
    BY <1>1, <1>2, <2>1, <2>4 DEF UpsertMarker, MarkerInv, TypeOK, Marker
  <2> QED
    BY <1>2, <2>2, <2>3, <2>4
<1>6. MarkerInv'
  <2>1. ASSUME NEW q \in Requests, req'[q].pc = "lock"
        PROVE  LET m == marker'[StreamOfReq(q)'] IN m.holder # Pruner /\ (m.exists \/ m.holder = q)
    <3>1. CASE q = r
      BY <1>1, <1>3, <1>5, <2>1, <3>1
    <3>2. CASE q # r
      <4>1. req[q].pc = "lock" /\ StreamOfReq(q) \in Streams
        BY <1>2, <2>1, <3>2, Types
      <4> QED
        BY <1>3, <1>4, <1>5, <3>2, <4>1 DEF MarkerInv
    <3> QED
      BY <3>1, <3>2
  <2>2. ASSUME NEW q \in Requests, req'[q].pc \in Late PROVE marker'[StreamOfReq(q)'].holder = q
    <3>1. CASE q = r
      BY <1>1, <1>3, <1>5, <2>2, <3>1
    <3>2. CASE q # r
      <4>1. req[q].pc \in Late /\ StreamOfReq(q) \in Streams
        BY <1>2, <2>2, <3>2, Types
      <4> QED
        BY <1>3, <1>4, <1>5, <3>2, <4>1 DEF MarkerInv
    <3> QED
      BY <3>1, <3>2
  <2>3. ASSUME NEW t \in Streams, marker'[t].holder = Pruner PROVE marker'[t].dirty
    BY <1>4, <1>5, <2>3 DEF MarkerInv
  <2> QED
    BY <2>1, <2>2, <2>3 DEF MarkerInv
<1> QED
  BY <1>2, <1>6

(* The new id is higher than all of the stream, none of which is open.       *)
LEMMA InsertJobOrder ==
  ASSUME SerialInv, NEW r \in Requests, InsertJob(r)
  PROVE  MarkerInv' /\ OrderInv'
<1> USE EnqueueAssumption DEF EnqueueAssumption, SerialInv, EnqueueInv
<1>1. req[r].pc = "insert" /\ StreamOfReq(r) \in Streams /\ req[r].id = 0
  BY Types DEF InsertJob, RequestInv, Inserted
<1>2. nextId \in JobIds /\ nextId \in Nat /\ MaxJobs \in Nat
  BY DEF InsertJob, TypeOK, JobIds
<1>3. /\ req'[r].pc = "upsert" /\ req'[r].act = req[r].act /\ UNCHANGED marker
      /\ \A q \in Requests : q # r => req'[q] = req[q]
  BY DEF InsertJob, TypeOK, Request
<1>4. /\ jobs'[nextId].state = "uncommitted" /\ jobs'[nextId].stream = StreamOfReq(r)
      /\ \A j \in JobIds : j # nextId => jobs'[j] = jobs[j]
  BY <1>2 DEF InsertJob, TypeOK
<1>5. MarkerInv'
  BY <1>1, <1>3 DEF MarkerInv, StreamOfReq
<1>6. OrderInv'
  <2> SUFFICES ASSUME NEW i \in JobIds, NEW j \in JobIds, i < j, jobs'[i].stream = jobs'[j].stream
               PROVE  /\ jobs'[i].state # "uncommitted"
                      /\ Live(i)' => jobs'[j].state \notin {"running", "performed"}
    BY DEF OrderInv
  <2>1. CASE i = nextId
    <3>1. j # nextId /\ jobs[j].state = "free"
      BY <1>2, <2>1 DEF JobsInv, JobIds
    <3> QED
      BY <1>1, <1>4, <2>1, <3>1 DEF JobsInv
  <2>2. CASE j = nextId
    <3>1. i # nextId /\ i # 0
      BY <1>2, <2>2 DEF JobIds
    <3> QED
      BY <1>1, <1>4, <2>2, <3>1, Alone
  <2>3. CASE i # nextId /\ j # nextId
    BY <1>4, <2>3 DEF OrderInv, Live
  <2> QED
    BY <2>1, <2>2, <2>3
<1> QED
  BY <1>5, <1>6

(* The marker is given up when the id is committed, as the highest of its    *)
(* stream.                                                                   *)
LEMMA CommitOrder ==
  ASSUME SerialInv, NEW r \in Requests, Commit(r)
  PROVE  MarkerInv' /\ OrderInv'
<1> USE EnqueueAssumption DEF EnqueueAssumption, SerialInv, EnqueueInv
<1>1. PICK s \in Streams, n \in JobIds : req[r].pc = "commit" /\ s = StreamOfReq(r) /\ n = req[r].id
  BY Types DEF Commit, Inserted
<1>2. /\ req'[r].pc = "idle" /\ \A q \in Requests : q # r => req'[q] = req[q]
  BY DEF Commit, TypeOK, NoRequest
<1>3. /\ marker'[s].exists /\ marker'[s].holder = NoOne
      /\ \A t \in Streams : t # s => marker'[t] = marker[t]
  BY <1>1 DEF Commit, TypeOK
<1>4. /\ jobs[n].state = "uncommitted" /\ jobs'[n].state = "pending"
      /\ \A j \in JobIds : j # n => jobs'[j] = jobs[j]
      /\ \A j \in JobIds : jobs'[j].stream = jobs[j].stream
  <2>1. jobs[n] \in Job /\ jobs' = [jobs EXCEPT ![n].state = "pending"]
    BY <1>1 DEF Commit, TypeOK
  <2>2. jobs[n].state = "uncommitted"
    BY <1>1 DEF RequestInv, Inserted
  <2> QED
    BY <2>1, <2>2 DEF TypeOK, Job
<1>5. MarkerInv'
  <2>1. ASSUME NEW q \in Requests, req'[q].pc # "idle"
        PROVE  q # r /\ req'[q] = req[q] /\ StreamOfReq(q)' = StreamOfReq(q) /\ StreamOfReq(q) \in Streams
    BY <1>2, <2>1, Types DEF StreamOfReq
  <2>2. ASSUME NEW q \in Requests, req'[q].pc \in {"insert", "upsert", "commit"} PROVE StreamOfReq(q) # s
    BY <1>1, <2>1, <2>2, Alone
  <2>3. ASSUME NEW q \in Requests, req'[q].pc = "lock"
        PROVE  LET m == marker'[StreamOfReq(q)'] IN m.holder # Pruner /\ (m.exists \/ m.holder = q)
    BY <1>3, <2>1, <2>3 DEF MarkerInv
  <2>4. ASSUME NEW q \in Requests, req'[q].pc \in {"insert", "upsert", "commit"}
        PROVE  marker'[StreamOfReq(q)'].holder = q
    BY <1>3, <2>1, <2>2, <2>4 DEF MarkerInv
  <2>5. ASSUME NEW t \in Streams, marker'[t].holder = Pruner PROVE marker'[t].dirty
    BY <1>3, <2>5 DEF MarkerInv
  <2> QED
    BY <2>3, <2>4, <2>5 DEF MarkerInv
<1>6. OrderInv'
  <2> SUFFICES ASSUME NEW i \in JobIds, NEW j \in JobIds, i < j, jobs'[i].stream = jobs'[j].stream
               PROVE  /\ jobs'[i].state # "uncommitted"
                      /\ Live(i)' => jobs'[j].state \notin {"running", "performed"}
    BY DEF OrderInv
  <2> QED
    BY <1>4 DEF OrderInv, Live
<1> QED
  BY <1>5, <1>6

(* A transaction that fails gives the marker up as it found it.              *)
LEMMA AbortOrder ==
  ASSUME SerialInv, NEW r \in Requests, Abort(r)
  PROVE  MarkerInv' /\ OrderInv'
<1> USE EnqueueAssumption DEF EnqueueAssumption, SerialInv, EnqueueInv
<1>1. /\ req'[r].pc = "idle" /\ \A q \in Requests : q # r => req'[q] = req[q]
  BY DEF Abort, TypeOK, NoRequest
<1>2. \A s \in Streams : /\ marker'[s].exists = marker[s].exists
                         /\ IF marker[s].holder = r THEN marker'[s].holder = NoOne
                                                    ELSE marker'[s] = marker[s]
  BY DEF Abort, TypeOK, Marker
<1>3. \A j \in JobIds : /\ jobs'[j].stream = jobs[j].stream
                        /\ jobs'[j] = jobs[j] \/ jobs'[j].state = "rolled back"
  BY DEF Abort, TypeOK, Job
<1>4. MarkerInv'
  <2>1. ASSUME NEW q \in Requests, req'[q].pc # "idle"
        PROVE  q # r /\ req'[q] = req[q] /\ StreamOfReq(q)' = StreamOfReq(q) /\ StreamOfReq(q) \in Streams
    BY <1>1, <2>1, Types DEF StreamOfReq
  <2>2. ASSUME NEW q \in Requests, req'[q].pc = "lock"
        PROVE  LET m == marker'[StreamOfReq(q)'] IN m.holder # Pruner /\ (m.exists \/ m.holder = q)
    BY <1>2, <2>1, <2>2 DEF MarkerInv
  <2>3. ASSUME NEW q \in Requests, req'[q].pc \in {"insert", "upsert", "commit"}
        PROVE  marker'[StreamOfReq(q)'].holder = q
    BY <1>2, <2>1, <2>3 DEF MarkerInv
  <2>4. ASSUME NEW t \in Streams, marker'[t].holder = Pruner PROVE marker'[t].dirty
    BY <1>2, <2>4 DEF MarkerInv
  <2> QED
    BY <2>2, <2>3, <2>4 DEF MarkerInv
<1>5. OrderInv'
  BY <1>3 DEF OrderInv, Live
<1> QED
  BY <1>4, <1>5

(* A job is started when no earlier one of its stream is live, and stays the *)
(* only one until it is done.                                                *)
LEMMA JobStepOrder ==
  ASSUME SerialInv, NEW j \in JobIds, Start(j) \/ Perform(j) \/ Complete(j)
  PROVE  MarkerInv' /\ OrderInv'
<1> USE DEF SerialInv, EnqueueInv
<1>1. PICK from \in {"pending", "running", "performed"}, to \in {"running", "performed", "done"} :
        /\ Step(j, from, to) /\ (from = "pending" <=> to = "running")
        /\ from = "pending" => \A i \in JobIds : i < j /\ jobs[i].stream = jobs[j].stream => ~Live(i)
  BY DEF Start, Perform, Complete
<1>2. /\ jobs[j].state = from /\ jobs'[j].state = to /\ UNCHANGED <<req, marker>>
      /\ \A i \in JobIds : i # j => jobs'[i] = jobs[i]
      /\ \A i \in JobIds : jobs'[i].stream = jobs[i].stream
  <2>1. jobs[j] \in Job
    BY DEF TypeOK
  <2> QED
    BY <1>1, <2>1 DEF Step, TypeOK, Job
<1>3. MarkerInv'
  BY <1>2 DEF MarkerInv, StreamOfReq
<1>4. OrderInv'
  <2> SUFFICES ASSUME NEW i \in JobIds, NEW k \in JobIds, i < k, jobs'[i].stream = jobs'[k].stream
               PROVE  /\ jobs'[i].state # "uncommitted"
                      /\ Live(i)' => jobs'[k].state \notin {"running", "performed"}
    BY DEF OrderInv
  <2>1. jobs[i].state # "uncommitted" /\ (Live(i) => jobs[k].state \notin {"running", "performed"})
    BY <1>2 DEF OrderInv
  <2>2. Live(i)' => Live(i)
    BY <1>2 DEF Live
  <2>3. Live(i)' /\ k = j => from # "pending"
    BY <1>1, <1>2, <2>2
  <2> QED
    BY <1>1, <1>2, <2>1, <2>2, <2>3
<1> QED
  BY <1>3, <1>4

(* A prune that respects the second statement never takes a marker somebody  *)
(* relies on.                                                                *)
LEMMA PruneOrder ==
  ASSUME SerialInv, ~PruneRaces, NEW s \in Streams, PruneMarker(s) \/ PruneCommit(s)
  PROVE  MarkerInv' /\ OrderInv'
<1> USE EnqueueAssumption DEF EnqueueAssumption, SerialInv, EnqueueInv
<1>1. UNCHANGED <<req, jobs>> /\ \A t \in Streams : t # s => marker'[t] = marker[t]
  BY DEF PruneMarker, PruneCommit, TypeOK
<1>2. \A r \in Requests : StreamOfReq(r)' = StreamOfReq(r) /\ (req[r].pc # "idle" => StreamOfReq(r) \in Streams)
  BY <1>1, Types DEF StreamOfReq
<1>3. \A r \in Requests : req[r].pc \in {"lock", "insert", "upsert", "commit"} => StreamOfReq(r) # s
  BY DEF PruneMarker, PruneCommit, MarkerInv
<1>4. marker'[s].holder = Pruner => marker'[s].dirty
  <2>1. CASE PruneMarker(s)
    BY <2>1 DEF PruneMarker, TypeOK, Marker
  <2>2. CASE PruneCommit(s)
    BY <2>2 DEF PruneCommit, TypeOK
  <2> QED
    BY <2>1, <2>2
<1>5. MarkerInv'
  <2>1. ASSUME NEW q \in Requests, req'[q].pc = "lock"
        PROVE  LET m == marker'[StreamOfReq(q)'] IN m.holder # Pruner /\ (m.exists \/ m.holder = q)
    BY <1>1, <1>2, <1>3, <2>1 DEF MarkerInv
  <2>2. ASSUME NEW q \in Requests, req'[q].pc \in {"insert", "upsert", "commit"}
        PROVE  marker'[StreamOfReq(q)'].holder = q
    BY <1>1, <1>2, <1>3, <2>2 DEF MarkerInv
  <2>3. ASSUME NEW t \in Streams, marker'[t].holder = Pruner PROVE marker'[t].dirty
    BY <1>1, <1>4, <2>3 DEF MarkerInv
  <2> QED
    BY <2>1, <2>2, <2>3 DEF MarkerInv
<1> QED
  BY <1>1, <1>5, OrderKept

(* With all of it, the order of ids is the order of commits.                 *)
LEMMA SerialStep == ASSUME ~PruneRaces PROVE SerialInv /\ [Next]_vars => SerialInv'
<1> SUFFICES ASSUME SerialInv, [Next]_vars PROVE MarkerInv' /\ OrderInv'
  BY EnqueueStep DEF SerialInv
<1> USE DEF SerialInv
<1>1. ASSUME NEW r \in Requests, NEW d \in Deliveries, Receive(r, d[1], d[2]) PROVE MarkerInv' /\ OrderInv'
  <2>1. req'[r].pc = "key" /\ \A q \in Requests : q # r => req'[q] = req[q]
    BY <1>1 DEF Receive, NoRequest, EnqueueInv, TypeOK
  <2> QED
    BY <1>1, <2>1, MarkerUntouched, OrderKept DEF Receive
<1>2. ASSUME NEW r \in Requests, Statement(r) PROVE MarkerInv' /\ OrderInv'
  <2>1. CASE FreshKey(r) \/ KnownKey(r)
    <3>1. req'[r].pc \in {"marker", "idle"} /\ \A q \in Requests : q # r => req'[q] = req[q]
      BY <2>1 DEF FreshKey, KnownKey, Goto, NoRequest, EnqueueInv, TypeOK, Request
    <3> QED
      BY <2>1, <3>1, MarkerUntouched, OrderKept DEF FreshKey, KnownKey
  <2>2. CASE InsertMarker(r) \/ LockMarker(r) \/ UpsertMarker(r)
    BY <2>2, MarkerStatements, OrderKept
  <2> QED
    BY <1>2, <2>1, <2>2, InsertJobOrder, CommitOrder, AbortOrder DEF Statement
<1>3. ASSUME NEW j \in JobIds, Start(j) \/ Perform(j) \/ Complete(j) PROVE MarkerInv' /\ OrderInv'
  BY <1>3, JobStepOrder
<1>4. ASSUME NEW a \in Activities, KeyExpires(a) PROVE MarkerInv' /\ OrderInv'
  BY <1>4, OrderKept DEF KeyExpires, MarkerInv, StreamOfReq
<1>5. ASSUME NEW s \in Streams, PruneMarker(s) \/ PruneCommit(s) PROVE MarkerInv' /\ OrderInv'
  BY <1>5, PruneOrder
<1>6. ASSUME UNCHANGED vars PROVE MarkerInv' /\ OrderInv'
  BY <1>6, OrderKept DEF vars, MarkerInv, StreamOfReq
<1> QED
  BY <1>1, <1>2, <1>3, <1>4, <1>5, <1>6 DEF Next

(* The comment on claim holds for every number of requests and actors, on    *)
(* the condition that no prune deletes a marker between the second and the   *)
(* third statement of a request.                                             *)
THEOREM ActorsAreSerial == ASSUME ~PruneRaces PROVE Spec => []StreamSerial
<1>1. SerialInv => StreamSerial
  <2> SUFFICES ASSUME OrderInv, NEW i \in JobIds, NEW j \in JobIds,
                      {jobs[i].state, jobs[j].state} \subseteq {"running", "performed"},
                      jobs[i].stream = jobs[j].stream
               PROVE  i = j
    BY DEF SerialInv, StreamSerial
  <2>1. ~(i < j) /\ ~(j < i)
    BY DEF OrderInv, Live
  <2> QED
    BY <2>1 DEF JobIds
<1> QED
  BY <1>1, InitInv, SerialStep, PTL DEF Spec

-----------------------------------------------------------------------------
(* The state of JobStream as a function of the tables.                       *)
AbsState == [j \in JobIds |-> JobOutcome(j)]
AbsStream == [j \in JobIds |-> IF JobOutcome(j) = "absent" THEN NoStream ELSE jobs[j].stream]
AbsStarted == {j \in JobIds : jobs[j].state \in {"running", "performed", "done"}}
AbsPerformed == {j \in JobIds : jobs[j].state \in {"performed", "done"}}

AbsStep == [Service!Next]_<<AbsState, AbsStream, AbsStarted, AbsPerformed>>

(* The mapping, spelled out.                                                 *)
LEMMA AbsStepIsServiceStep == AbsStep <=> [Service!Next]_(Service!vars)
  BY DEF AbsStep, AbsState, AbsStream, AbsStarted, AbsPerformed, Service!vars

(* A row only its own transaction sees is absent, whatever becomes of it.    *)
LEMMA Unseen ==
  ASSUME \A j \in JobIds :
           \/ jobs'[j] = jobs[j]
           \/ {jobs[j].state, jobs'[j].state} \subseteq {"free", "uncommitted", "rolled back"}
  PROVE  AbsStep
<1>1. ASSUME NEW j \in JobIds
      PROVE  /\ JobOutcome(j)' = JobOutcome(j)
             /\ jobs'[j] = jobs[j] \/ JobOutcome(j) = "absent"
             /\ jobs'[j].state \in {"running", "performed", "done"} <=> jobs[j].state \in {"running", "performed", "done"}
             /\ jobs'[j].state \in {"performed", "done"} <=> jobs[j].state \in {"performed", "done"}
  BY DEF JobOutcome, Live
<1>2. AbsState' = AbsState /\ AbsStream' = AbsStream
  BY <1>1 DEF AbsState, AbsStream
<1>3. AbsStarted' = AbsStarted /\ AbsPerformed' = AbsPerformed
  BY <1>1 DEF AbsStarted, AbsPerformed
<1> QED
  BY <1>2, <1>3 DEF AbsStep

(* The commit submits the job, as the highest of its stream.                 *)
LEMMA SubmitStep ==
  ASSUME SerialInv, NEW r \in Requests, Commit(r)
  PROVE  AbsStep
<1> USE EnqueueAssumption DEF EnqueueAssumption, SerialInv, EnqueueInv
<1>1. PICK s \in Streams, n \in JobIds : req[r].pc = "commit" /\ s = StreamOfReq(r) /\ n = req[r].id
  BY Types DEF Commit, Inserted
<1>2. /\ jobs[n].state = "uncommitted" /\ jobs'[n].state = "pending" /\ jobs'[n].stream = s /\ jobs[n].stream = s
      /\ \A j \in JobIds : j # n => jobs'[j] = jobs[j]
  <2>1. jobs[n] \in Job /\ jobs' = [jobs EXCEPT ![n].state = "pending"]
    BY <1>1 DEF Commit, TypeOK
  <2> QED
    BY <1>1, <2>1, ZenonT(60) DEF TypeOK, Job, RequestInv, Inserted
<1>3. /\ JobOutcome(n) = "absent" /\ JobOutcome(n)' = "pending"
      /\ \A j \in JobIds : j # n => JobOutcome(j)' = JobOutcome(j)
  BY <1>2 DEF JobOutcome, Live
<1>4. AbsState' = [AbsState EXCEPT ![n] = "pending"]
  BY <1>3 DEF AbsState
<1>5. AbsStream' = [AbsStream EXCEPT ![n] = s]
  BY <1>2, <1>3 DEF AbsStream
<1>6. AbsStarted' = AbsStarted /\ AbsPerformed' = AbsPerformed
  BY <1>2 DEF AbsStarted, AbsPerformed
<1>7. ASSUME NEW i \in JobIds, i > n PROVE AbsStream[i] # s
  <2>1. jobs[i].stream # s
    BY <1>2, <1>7 DEF OrderInv, JobIds
  <2> QED
    BY <2>1 DEF AbsStream
<1>8. Service!Submit(n, s)
  BY <1>3, <1>4, <1>5, <1>6, <1>7 DEF Service!Submit, AbsState, AbsStream, AbsStarted, AbsPerformed
<1> QED
  BY <1>8 DEF AbsStep, Service!Next

(* The claim starts a job no earlier one of its stream is before.            *)
LEMMA StartStep ==
  ASSUME SerialInv, NEW j \in JobIds, Start(j)
  PROVE  AbsStep
<1> USE DEF SerialInv, EnqueueInv
<1>1. /\ jobs[j].state = "pending" /\ jobs'[j].state = "running" /\ jobs'[j].stream = jobs[j].stream
      /\ \A i \in JobIds : i # j => jobs'[i] = jobs[i]
      /\ \A i \in JobIds : i < j /\ jobs[i].stream = jobs[j].stream => ~Live(i)
  <2>1. jobs[j] \in Job
    BY DEF TypeOK
  <2> QED
    BY <2>1 DEF Start, Step, TypeOK, Job
<1>2. \A i \in JobIds : JobOutcome(i)' = JobOutcome(i)
  BY <1>1 DEF JobOutcome, Live
<1>3. AbsState' = AbsState /\ AbsStream' = AbsStream
  BY <1>1, <1>2 DEF AbsState, AbsStream
<1>4. AbsStarted' = AbsStarted \cup {j}
  BY <1>1 DEF AbsStarted
<1>5. AbsPerformed' = AbsPerformed
  BY <1>1 DEF AbsPerformed
<1>6. AbsState[j] = "pending" /\ AbsStream[j] = jobs[j].stream
  BY <1>1 DEF AbsState, AbsStream, JobOutcome, Live
<1>7. ASSUME NEW i \in Service!Earlier(j) PROVE AbsState[i] # "pending"
  <2>1. i \in JobIds /\ i < j /\ AbsStream[j] # NoStream /\ AbsStream[i] = AbsStream[j]
    BY <1>7 DEF Service!Earlier, AbsStream
  <2>2. jobs[i].stream = jobs[j].stream
    BY <1>6, <2>1 DEF AbsStream
  <2>3. ~Live(i)
    BY <1>1, <2>1, <2>2
  <2> QED
    BY <2>1, <2>3 DEF AbsState, JobOutcome
<1>8. Service!Start(j)
  BY <1>3, <1>4, <1>5, <1>6, <1>7
     DEF Service!Start, Service!Pending, AbsState, AbsStream, AbsStarted, AbsPerformed
<1> QED
  BY <1>8 DEF AbsStep, Service!Next

(* The handler succeeds, and the job is completed after that.                *)
LEMMA PerformStep ==
  ASSUME SerialInv, NEW j \in JobIds, Perform(j) \/ Complete(j)
  PROVE  AbsStep
<1> USE DEF SerialInv, EnqueueInv
<1>1. /\ \/ jobs[j].state = "running" /\ jobs'[j].state = "performed"
         \/ jobs[j].state = "performed" /\ jobs'[j].state = "done"
      /\ jobs'[j].stream = jobs[j].stream
      /\ \A i \in JobIds : i # j => jobs'[i] = jobs[i]
  <2>1. jobs[j] \in Job
    BY DEF TypeOK
  <2> QED
    BY <2>1 DEF Perform, Complete, Step, TypeOK, Job
<1>2. AbsStarted' = AbsStarted /\ AbsPerformed' = AbsPerformed \cup {j} /\ j \in AbsStarted
  BY <1>1 DEF AbsStarted, AbsPerformed
<1>3. CASE jobs[j].state = "running"
  <2>1. \A i \in JobIds : JobOutcome(i)' = JobOutcome(i)
    BY <1>1, <1>3 DEF JobOutcome, Live
  <2>2. AbsState' = AbsState /\ AbsStream' = AbsStream
    BY <1>1, <2>1 DEF AbsState, AbsStream
  <2>3. Service!Perform(j)
    BY <1>2, <2>2 DEF Service!Perform, AbsState, AbsStream, AbsStarted, AbsPerformed
  <2> QED
    BY <2>3 DEF AbsStep, Service!Next
<1>4. CASE jobs[j].state = "performed"
  <2>1. /\ JobOutcome(j) = "pending" /\ JobOutcome(j)' = "done"
        /\ \A i \in JobIds : i # j => JobOutcome(i)' = JobOutcome(i)
    BY <1>1, <1>4 DEF JobOutcome, Live
  <2>2. AbsState' = [AbsState EXCEPT ![j] = "done"]
    BY <2>1 DEF AbsState
  <2>3. AbsStream' = AbsStream
    BY <1>1, <2>1 DEF AbsStream
  <2>4. AbsPerformed' = AbsPerformed /\ j \in AbsPerformed
    BY <1>2, <1>4 DEF AbsPerformed
  <2>5. Service!Finish(j)
    BY <1>2, <2>1, <2>2, <2>3, <2>4
       DEF Service!Finish, Service!Resolve, Service!Pending, AbsState, AbsStream, AbsStarted, AbsPerformed
  <2> QED
    BY <2>5 DEF AbsStep, Service!Next
<1> QED
  BY <1>1, <1>3, <1>4

(* Every other step is invisible to the users of the queue.                  *)
LEMMA RefinementStep == SerialInv /\ [Next]_vars => AbsStep
<1> SUFFICES ASSUME SerialInv, [Next]_vars PROVE AbsStep
  OBVIOUS
<1>1. ASSUME UNCHANGED jobs PROVE AbsStep
  BY <1>1, Unseen
<1>2. ASSUME NEW r \in Requests, InsertJob(r) PROVE AbsStep
  <2>1. /\ nextId \in JobIds /\ jobs[nextId].state = "free" /\ jobs'[nextId].state = "uncommitted"
        /\ \A j \in JobIds : j # nextId => jobs'[j] = jobs[j]
    BY <1>2, EnqueueAssumption
       DEF EnqueueAssumption, InsertJob, SerialInv, EnqueueInv, TypeOK, JobsInv, JobIds
  <2> QED
    BY <2>1, Unseen
<1>3. ASSUME NEW r \in Requests, Abort(r) PROVE AbsStep
  <2>1. ASSUME NEW j \in JobIds
        PROVE  jobs'[j] = jobs[j] \/ (jobs[j].state = "uncommitted" /\ jobs'[j].state = "rolled back")
    <3>1. jobs'[j] = IF j = req[r].id THEN [jobs[j] EXCEPT !.state = "rolled back"] ELSE jobs[j]
      BY <1>3 DEF Abort
    <3>2. jobs[j] \in Job
      BY DEF SerialInv, EnqueueInv, TypeOK
    <3>3. j = req[r].id => jobs[j].state = "uncommitted"
      BY EnqueueAssumption DEF EnqueueAssumption, SerialInv, EnqueueInv, RequestInv, JobIds
    <3> QED
      BY <3>1, <3>2, <3>3 DEF Job
  <2> QED
    BY <2>1, Unseen
<1>4. ASSUME NEW r \in Requests, Statement(r) PROVE AbsStep
  BY <1>1, <1>2, <1>3, <1>4, SubmitStep
     DEF Statement, FreshKey, KnownKey, InsertMarker, LockMarker, UpsertMarker
<1>5. ASSUME NEW j \in JobIds, Start(j) \/ Perform(j) \/ Complete(j) PROVE AbsStep
  BY <1>5, StartStep, PerformStep
<1> QED
  BY <1>1, <1>4, <1>5 DEF Next, Receive, KeyExpires, PruneMarker, PruneCommit, vars

(* For the code that relies on it, ordered enqueue is JobStream: a job is    *)
(* submitted once, at the commit, behind every earlier one of its actor.     *)
THEOREM EnqueueKeepsPromises == ASSUME ~PruneRaces PROVE Spec => KeepsPromises
<1>1. Init => Service!Init
  BY DEF Init, Service!Init, JobOutcome, Live
<1>2. SerialInv /\ [Next]_vars => [Service!Next]_(Service!vars)
  BY RefinementStep, AbsStepIsServiceStep
<1> QED
  BY <1>1, <1>2, InitInv, SerialStep, PTL DEF Spec, KeepsPromises, Service!Spec
=============================================================================
