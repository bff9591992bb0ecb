------------------------------ MODULE StreamLog ------------------------------
(***************************************************************************)
(* The stream events of jobs.rs: rows of rustodon.outbox_events that       *)
(* streaming sessions read in id order and never consume.  A business      *)
(* transaction records events one at a time (record_for_audience), or      *)
(* collects them, stages them in rows of a private kind when they are many *)
(* (stage_if_large) and writes them at its end (flush).  Ids are taken     *)
(* under the transaction-level advisory lock of lock_stream_event_order.   *)
(*                                                                         *)
(* What a transaction does is a script, a sequence of steps:               *)
(*   "row"      lock a row that other transactions lock too                *)
(*   "record"   record_stream_event_in and its siblings                    *)
(*   "push"     push an event to the Vec                                   *)
(*   "collect"  push an event to the Vec, then stage_if_large              *)
(*   "flush"    flush, or flush_staged                                     *)
(***************************************************************************)
EXTENDS Naturals, Sequences, FiniteSets

CONSTANTS
  Writers,     (* connections that run the transactions                     *)
  Scripts,     (* the transactions, each with events of its own             *)
  Rows, NoOne,
  StageSize,   (* PENDING_STREAM_EVENT_STAGE_SIZE                           *)
  MaxFailures, (* bound: transactions that fail on their own                *)
  MaxPrunes    (* bound: prunes that remove something                       *)

EventKinds == {"create", "delete", "notice", "kill"}

Event == [kind : EventKinds, object : Nat]

Step == [op : {"row"}, row : Rows] \cup [op : {"flush"}]
          \cup [op : {"record", "push", "collect"}, event : Event]

Row == [id : Nat, event : Event]

Tx == [state : {"idle", "running", "refused"}, rest : Seq(Step), buffer : Seq(Event),
       staged : Seq(Event), inserted : SUBSET Row]

ASSUME StreamLogAssumption ==
  /\ Scripts \subseteq Seq(Step) /\ NoOne \notin Writers /\ StageSize \in Nat \ {0}
  /\ MaxFailures \in Nat /\ MaxPrunes \in Nat

VARIABLES
  log,        (* the committed, retained rows of kind stream_event          *)
  committed,  (* history: every row ever committed                          *)
  tx,         (* the transaction of each connection                         *)
  rows,       (* the holder of each contended row                           *)
  order,      (* the holder of the stream order lock                        *)
  nextId,     (* the id sequence of the table                               *)
  todo,       (* transactions that are yet to run                           *)
  failures, prunes   (* history, for the bounds                             *)

logVars == <<log, committed, tx, rows, order, nextId, todo, failures, prunes>>

NoTx == [state |-> "idle", rest |-> <<>>, buffer |-> <<>>,
         staged |-> <<>>, inserted |-> {}]

LogInit ==
  /\ log = {} /\ committed = {}
  /\ tx = [w \in Writers |-> NoTx]
  /\ rows = [r \in Rows |-> NoOne] /\ order = NoOne
  /\ nextId = 1 /\ todo = Scripts
  /\ failures = 0 /\ prunes = 0

At(w, op) ==
  tx[w].state = "running" /\ tx[w].rest # <<>> /\ Head(tx[w].rest).op = op

Advanced(w) == [tx[w] EXCEPT !.rest = Tail(@)]

(* The rows an INSERT of the events es, in this order, produces.             *)
Numbered(es) == {[id |-> nextId + i - 1, event |-> es[i]] : i \in 1 .. Len(es)}

Pending(w) == tx[w].staged \o tx[w].buffer

Begin(w) ==
  /\ tx[w].state = "idle"
  /\ \E s \in todo :
       /\ tx' = [tx EXCEPT ![w] = [NoTx EXCEPT !.state = "running", !.rest = s]]
       /\ todo' = todo \ {s}
  /\ UNCHANGED <<log, committed, rows, order, nextId, failures, prunes>>

LockRow(w) ==
  /\ At(w, "row")
  /\ LET row == Head(tx[w].rest).row
     IN  rows[row] \in {NoOne, w} /\ rows' = [rows EXCEPT ![row] = w]
  /\ tx' = [tx EXCEPT ![w] = Advanced(w)]
  /\ UNCHANGED <<log, committed, order, nextId, todo, failures, prunes>>

(* Collected events are staged once there are StageSize of them, unless they *)
(* are only pushed (collect_account_kill_stream_event).                      *)
Collect(w) ==
  /\ At(w, "push") \/ At(w, "collect")
  /\ LET buffer == Append(tx[w].buffer, Head(tx[w].rest).event)
     IN  tx' = [tx EXCEPT ![w] =
           IF At(w, "collect") /\ Len(buffer) >= StageSize
           THEN [Advanced(w) EXCEPT !.staged = @ \o buffer, !.buffer = <<>>]
           ELSE [Advanced(w) EXCEPT !.buffer = buffer]]
  /\ UNCHANGED <<log, committed, rows, order, nextId, todo, failures, prunes>>

(* Mistake: ids are taken without the lock.                                  *)
TakeNothing(w) == w \in Writers /\ order' = order

TakeOrder(w) == order \in {NoOne, w} /\ order' = w

(* record_for_audience: flush of a Vec with this one event.                  *)
Record(w) ==
  /\ At(w, "record") /\ tx[w].staged = <<>>
  /\ TakeOrder(w)
  /\ tx' = [tx EXCEPT ![w] =
              [Advanced(w) EXCEPT !.inserted = @ \cup Numbered(<<Head(tx[w].rest).event>>)]]
  /\ nextId' = nextId + 1
  /\ UNCHANGED <<log, committed, rows, todo, failures, prunes>>

(* The rows are released and the writes undone; the sequence is not.         *)
Rollback(w, state) ==
  /\ tx' = [tx EXCEPT ![w] = [NoTx EXCEPT !.state = state]]
  /\ rows' = [r \in Rows |-> IF rows[r] = w THEN NoOne ELSE rows[r]]
  /\ order' = IF order = w THEN NoOne ELSE order
  /\ UNCHANGED <<log, committed, todo, prunes>>

(* When rows are staged, flush writes them all and returns no id: pop() is   *)
(* None, record_for_audience is an error and the caller rolls back.          *)
Refused(w) ==
  /\ At(w, "record") /\ tx[w].staged # <<>>
  /\ order \in {NoOne, w}
  /\ nextId' = nextId + Len(tx[w].staged) + 1
  /\ Rollback(w, "refused")
  /\ UNCHANGED failures

Flush(w) ==
  /\ At(w, "flush")
  /\ IF Pending(w) = <<>> THEN order' = order ELSE TakeOrder(w)
  /\ tx' = [tx EXCEPT ![w] =
              [Advanced(w) EXCEPT !.inserted = @ \cup Numbered(Pending(w)),
                                  !.staged = <<>>, !.buffer = <<>>]]
  /\ nextId' = nextId + Len(Pending(w))
  /\ UNCHANGED <<log, committed, rows, todo, failures, prunes>>

(* The rows are visible before the locks of the transaction are free.        *)
Commit(w) ==
  /\ tx[w].state = "running" /\ tx[w].rest = <<>>
  /\ log' = log \cup tx[w].inserted
  /\ committed' = committed \cup tx[w].inserted
  /\ tx' = [tx EXCEPT ![w] = NoTx]
  /\ rows' = [r \in Rows |-> IF rows[r] = w THEN NoOne ELSE rows[r]]
  /\ order' = IF order = w THEN NoOne ELSE order
  /\ UNCHANGED <<nextId, todo, failures, prunes>>

(* Mistake: the order lock belongs to the session, not the transaction.      *)
FailHoldingOrder(w) ==
  /\ tx[w].state = "running" /\ tx[w].rest \notin Scripts
  /\ failures < MaxFailures /\ failures' = failures + 1
  /\ tx' = [tx EXCEPT ![w] = NoTx]
  /\ rows' = [r \in Rows |-> IF rows[r] = w THEN NoOne ELSE rows[r]]
  /\ UNCHANGED <<log, committed, order, nextId, todo, prunes>>

(* The connection is lost or a statement fails; one that fails at once need  *)
(* not have begun.                                                           *)
Fail(w) ==
  /\ tx[w].state = "running" /\ tx[w].rest \notin Scripts
  /\ failures < MaxFailures /\ failures' = failures + 1
  /\ Rollback(w, "idle")
  /\ UNCHANGED nextId

(* PostgreSQL aborts one of two transactions that wait for each other.       *)
WaitsFor(w, v) ==
  \/ At(w, "row") /\ rows[Head(tx[w].rest).row] = v
  \/ (At(w, "record") \/ (At(w, "flush") /\ Pending(w) # <<>>)) /\ order = v

BreakDeadlock(w) ==
  /\ \E v \in Writers \ {w} : WaitsFor(w, v) /\ WaitsFor(v, w)
  /\ Rollback(w, "idle")
  /\ UNCHANGED <<nextId, failures>>

(* The job fails, to be retried with the same transaction, or the request.   *)
ReturnError(w) ==
  /\ tx[w].state = "refused"
  /\ tx' = [tx EXCEPT ![w] = NoTx]
  /\ UNCHANGED <<log, committed, rows, order, nextId, todo, failures, prunes>>

(* prune_stream_history: the rows over an age or beyond a number, the oldest *)
(* of the log in both cases, since rows are stamped under the order lock.    *)
Prune ==
  /\ prunes < MaxPrunes /\ prunes' = prunes + 1
  /\ \E oldest \in log : log' = {row \in log : row.id > oldest.id}
  /\ UNCHANGED <<committed, tx, rows, order, nextId, todo, failures>>

WriterStep(w) ==
  \/ Begin(w) \/ LockRow(w) \/ Collect(w) \/ Record(w) \/ Refused(w) \/ Flush(w)
  \/ Commit(w) \/ Fail(w) \/ BreakDeadlock(w) \/ ReturnError(w)

LogNext == Prune \/ \E w \in Writers : WriterStep(w)

LogSpec == LogInit /\ [][LogNext]_logVars

-----------------------------------------------------------------------------
(* The types, and that every lock is held by an open transaction.            *)
LogTypeOK ==
  /\ committed \in SUBSET Row /\ log \subseteq committed
  /\ tx \in [Writers -> Tx]
  /\ rows \in [Rows -> Writers \cup {NoOne}]
  /\ \A r \in Rows : rows[r] # NoOne => tx[rows[r]].state = "running"
  /\ order \in Writers \cup {NoOne}
  /\ order # NoOne => tx[order].state = "running"
  /\ nextId \in Nat /\ todo \subseteq Scripts
  /\ failures \in 0 .. MaxFailures /\ prunes \in 0 .. MaxPrunes

(* Ids are taken under the order lock, and the lock is held until the rows   *)
(* they name are committed: an open transaction's rows are behind all that   *)
(* was committed, and in front of nothing.                                   *)
OrderHeld ==
  /\ \A row \in committed : row.id < nextId
  /\ \A w \in Writers : tx[w].inserted # {} => order = w
  /\ \A w \in Writers : \A new \in tx[w].inserted :
       new.id < nextId /\ \A old \in committed : old.id < new.id

(* Rows become visible in id order: a commit adds no row below one that a    *)
(* session may have read already.                                            *)
CommitOrder ==
  [][\A new \in committed' \ committed : \A old \in committed : old.id < new.id]_logVars

(* record_stream_event_in: "Returns an error for invalid event metadata or a *)
(* rejected database operation": no other event is refused.                  *)
RecordsAreAccepted == \A w \in Writers : tx[w].state # "refused"
=============================================================================
