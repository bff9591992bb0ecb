---------------------------- MODULE StreamSession ----------------------------
(***************************************************************************)
(* One streaming connection of web/stream_socket.rs over the log of        *)
(* StreamLog.  The task of a connection handles one command or timer at a  *)
(* time; between any two of its reads the writers go on.  Every timeline   *)
(* event matches the route of every timeline stream here: "create" puts a  *)
(* status on it, "delete" stands for every transition that does not.  The  *)
(* account events are those of the account of the connection.              *)
(***************************************************************************)
EXTENDS StreamLog, FiniteSetsExt

CONSTANTS
  Timelines,       (* subscriptions replayed and filtered by a baseline     *)
  AccountStreams,  (* subscriptions to the events of the account            *)
  NoStream,
  BatchSize,       (* STREAM_EVENT_BATCH_SIZE                               *)
  ReplaySize,      (* STREAM_REPLAY_TRANSITION_EVENTS                       *)
  MaxSubscribes    (* bound: subscribe commands                             *)

Streams == Timelines \cup AccountStreams

ASSUME StreamSessionAssumption ==
  /\ Timelines \cap AccountStreams = {} /\ NoStream \notin Streams
  /\ BatchSize \in Nat \ {0} /\ ReplaySize \in Nat /\ MaxSubscribes \in Nat

VARIABLES
  conn,   (* the locals of the connection's task                            *)
  sent,   (* history: the frames sent for each stream since its subscribe   *)
  since   (* history: the rows committed when each stream's duty began      *)

vars == <<logVars, conn, sent, since>>

Closed == [state |-> "closed", cursor |-> 0, system |-> 0, live |-> 0, subs |-> {},
           base |-> [s \in Streams |-> 0], established |-> FALSE,
           stream |-> NoStream, after |-> 0, atOpen |-> {}, atSubscribe |-> {}, asked |-> 0]

Init ==
  /\ LogInit
  /\ conn = [Closed EXCEPT !.state = "upgrading"]
  /\ sent = [s \in Streams |-> <<>>]
  /\ since = [s \in Streams |-> {}]

StreamCursor == IF log = {} THEN 0 ELSE Max({row.id : row \in log})

(* Revoking a token records its kill event in the same transaction.          *)
Revoked == \E row \in committed : row.event.kind = "kill"

Earlier(R, row) == Cardinality({r \in R : r.id < row.id})

EventsAfter(cursor) ==
  LET later == {row \in log : row.id > cursor}
  IN  {row \in later : Earlier(later, row) < BatchSize}

Kills(R) == {row \in R : row.event.kind = "kill"}

IsTimeline(row) == row.event.kind \in {"create", "delete"}

(* The frames of the rows R, in id order.                                    *)
Frames(R, live) ==
  [i \in 1 .. Cardinality(R) |->
     [row |-> CHOOSE row \in R : Earlier(R, row) = i - 1, live |-> live]]

Become(next) == conn' = next /\ UNCHANGED <<logVars, sent, since>>

Close == Become(Closed)

-----------------------------------------------------------------------------
(* streaming: the token is authenticated, the cursor is read, and the token  *)
(* is authenticated again before the connection is upgraded.                 *)
Authenticate ==
  /\ conn.state = "upgrading"
  /\ IF Revoked THEN Close ELSE Become([conn EXCEPT !.state = "authenticated"])

ReadCursor ==
  /\ conn.state = "authenticated"
  /\ Become([conn EXCEPT !.state = "cursor read", !.cursor = StreamCursor,
                         !.system = StreamCursor, !.live = StreamCursor, !.atOpen = committed])

(* Mistake: the second authentication is taken for a repetition.             *)
OpenWithoutCheck ==
  conn.state = "cursor read" /\ Become([conn EXCEPT !.state = "open"])

AuthenticateAgain ==
  /\ conn.state = "cursor read"
  /\ IF Revoked THEN Close ELSE Become([conn EXCEPT !.state = "open"])

-----------------------------------------------------------------------------
(* streaming_subscribe: a first cursor, the authorization, a second cursor,  *)
(* and the replay through it.                                                *)
(* Mistake: subscription_create_after ignores has_established_subscription.  *)
CreateAfterConnection == conn.live

(* Mistake: the first subscription of a connection starts at its command.    *)
CreateAfterCommand == StreamCursor

CreateAfter == IF conn.established THEN StreamCursor ELSE conn.live

Subscribe(s) ==
  /\ conn.state = "open" /\ s \notin conn.subs /\ conn.asked < MaxSubscribes
  /\ Become([conn EXCEPT !.state = "authorizing", !.stream = s, !.asked = @ + 1,
               !.after = IF s \in Timelines THEN CreateAfter ELSE 0,
               !.atSubscribe = IF conn.established THEN committed ELSE conn.atOpen])

Denied == conn.state = "authorizing" /\ Become([conn EXCEPT !.state = "open", !.stream = NoStream])

(* The second cursor becomes the baseline of the subscription.               *)
ReadThrough ==
  /\ conn.state = "authorizing"
  /\ Become([conn EXCEPT !.state = "replaying",
               !.base[conn.stream] = IF conn.stream \in Timelines THEN StreamCursor ELSE 0])

Newest(R, n) == {row \in R : Cardinality({r \in R : r.id > row.id}) < n}

(* stream_replay_events_for_subscription: everything after create_after, and *)
(* of what is older the newest transitions that create nothing.              *)
Replayed(s) ==
  LET candidates == {row \in log : IsTimeline(row) /\ row.id <= conn.base[s]}
      new == {row \in candidates : row.id > conn.after}
  IN  new \cup Newest({row \in candidates \ new : row.event.kind = "delete"}, ReplaySize)

Replay ==
  /\ conn.state = "replaying"
  /\ LET s == conn.stream
     IN  /\ sent' = [sent EXCEPT ![s] = IF s \in Timelines THEN Frames(Replayed(s), FALSE)
                                                           ELSE <<>>]
         /\ since' = [since EXCEPT ![s] = conn.atSubscribe]
         /\ conn' = [conn EXCEPT !.state = "open", !.stream = NoStream, !.subs = @ \cup {s},
                                 !.established = TRUE]
  /\ UNCHANGED logVars

Unsubscribe(s) ==
  /\ conn.state = "open" /\ s \in conn.subs
  /\ conn' = [conn EXCEPT !.subs = @ \ {s}, !.base[s] = 0]
  /\ sent' = [sent EXCEPT ![s] = <<>>]
  /\ since' = [since EXCEPT ![s] = {}]
  /\ UNCHANGED logVars

-----------------------------------------------------------------------------
(* A poll tick: stream_system_events, and then, with a read of its own,      *)
(* stream_pending_events.                                                    *)
PollSystem ==
  /\ conn.state = "open"
  /\ LET batch == EventsAfter(conn.system)
     IN  IF Kills(batch) # {} THEN Close
         ELSE Become([conn EXCEPT
                !.system = IF batch = {} THEN @ ELSE Max({row.id : row \in batch}),
                !.state = IF conn.subs = {} THEN "open" ELSE "polling"])

(* Mistake: the baseline of a subscription is not compared.                  *)
GoesAgain(row, s) ==
  \/ s \in Timelines /\ IsTimeline(row)
  \/ s \in AccountStreams /\ row.event.kind = "notice" /\ row.id > conn.live

Goes(row, s) ==
  \/ s \in Timelines /\ IsTimeline(row) /\ row.id > conn.base[s]
  \/ s \in AccountStreams /\ row.event.kind = "notice" /\ row.id > conn.live

(* Mistake: stream_system_events has just looked for a kill.                 *)
UpToNoKill(batch) == batch

UpToKill(batch) == {row \in batch : \A k \in Kills(batch) : k.id > conn.live => row.id < k.id}

PollPending ==
  /\ conn.state = "polling"
  /\ LET batch == EventsAfter(conn.cursor)
         read  == UpToKill(batch)
     IN  /\ sent' = [s \in Streams |->
                       IF s \in conn.subs
                       THEN sent[s] \o Frames({row \in read : Goes(row, s)}, TRUE)
                       ELSE sent[s]]
         /\ conn' = IF read # batch THEN Closed
                    ELSE [conn EXCEPT !.state = "open",
                            !.cursor = IF batch = {} THEN @ ELSE Max({row.id : row \in batch})]
  /\ UNCHANGED <<logVars, since>>

(* The heartbeat authenticates the token again.                              *)
Heartbeat == conn.state = "open" /\ Revoked /\ Close

(* The client leaves, stops answering pings, or a read fails.                *)
Disconnect == conn.state \in {"open", "authorizing", "replaying", "polling"} /\ Close

SessionNext ==
  \/ Authenticate \/ ReadCursor \/ AuthenticateAgain
  \/ (\E s \in Streams : Subscribe(s) \/ Unsubscribe(s))
  \/ Denied \/ ReadThrough \/ Replay
  \/ PollSystem \/ PollPending \/ Heartbeat \/ Disconnect

(* Bound: the log is not followed beyond the connection.                     *)
Others ==
  conn.state # "closed" /\ LogNext /\ UNCHANGED <<conn, sent, since>>

Next == Others \/ SessionNext

Spec == Init /\ [][Next]_vars

-----------------------------------------------------------------------------
(* The types; a subscription is in progress exactly while it is authorized   *)
(* and replayed, only subscriptions are sent frames, and the event cursor    *)
(* never falls behind the cursor the connection began with.  The cursor of   *)
(* the kill events may be on either side of it: a prune between two ticks    *)
(* leaves the read of the kill events nothing to advance over.               *)
TypeOK ==
  /\ LogTypeOK
  /\ conn.state \in {"upgrading", "authenticated", "cursor read", "open", "authorizing",
                     "replaying", "polling", "closed"}
  /\ {conn.cursor, conn.system, conn.live, conn.after} \subseteq 0 .. nextId
  /\ conn.subs \subseteq Streams /\ conn.base \in [Streams -> 0 .. nextId]
  /\ conn.stream \in Streams \cup {NoStream}
  /\ conn.state \in {"authorizing", "replaying"} <=> conn.stream # NoStream
  /\ conn.state \in {"open", "polling"} => conn.live <= conn.cursor
  /\ \A s \in Streams : sent[s] # <<>> => s \in conn.subs \/ conn.state = "closed"

SentIds(s) == {sent[s][i].row.id : i \in 1 .. Len(sent[s])}

(* What a subscription is sent, replayed or live, is in the order of the log *)
(* and never sent twice: the baseline joins the replay to the cursor, which  *)
(* other subscriptions have moved or which stands far behind.                *)
SentInOrder ==
  \A s \in conn.subs : \A i, j \in 1 .. Len(sent[s]) :
    i < j => sent[s][i].row.id < sent[s][j].row.id

Due(row, s) ==
  IF s \in Timelines THEN IsTimeline(row) /\ row.id <= Max({conn.cursor, conn.base[s]})
  ELSE row.event.kind = "notice" /\ row.id <= conn.cursor

(* "make the subscribe handoff lossless" (stream_replay_events_for_...): an  *)
(* event that was committed after the subscribe command was read, or after   *)
(* the connection's cursor for the first subscription, is never passed over, *)
(* unless retention removed it.                                              *)
NothingSkipped ==
  \A s \in conn.subs : \A row \in log \ since[s] :
    conn.state # "closed" /\ Due(row, s) => row.id \in SentIds(s)

(* "duplicate suppression, deterministic reconnect without replay": a status *)
(* is never announced as new to a subscription that began after its commit.  *)
CreationsAreNew ==
  \A s \in Timelines : \A i \in 1 .. Len(sent[s]) :
    sent[s][i].row.event.kind = "create" => sent[s][i].row \notin since[s]

(* Token revocation: no event of the log behind the kill event is sent by a  *)
(* poll, however the commits fall between the reads of a tick, as long as    *)
(* retention keeps the kill event.                                           *)
NothingAfterKill ==
  \A s \in Streams : \A i \in 1 .. Len(sent[s]) : \A k \in Kills(log) :
    sent[s][i].live => sent[s][i].row.id < k.id

(* A connection whose token is revoked has not read past the kill event, at  *)
(* whatever point of the upgrade the revocation was committed: the next poll *)
(* closes it, or the heartbeat if retention removed the event.               *)
KillIsAhead ==
  conn.state \in {"open", "authorizing", "replaying", "polling"} =>
    \A k \in Kills(log) : conn.system < k.id
=============================================================================
