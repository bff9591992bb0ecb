--------------------------- MODULE StreamLogProofs ---------------------------
(***************************************************************************)
(* The stream log is append-only for its readers: what LogTypeOK says of   *)
(* every state, and CommitOrder of every step, for any number of writers,  *)
(* any transactions and any prunes and failures.                           *)
(***************************************************************************)
EXTENDS StreamLog, FiniteSetTheorems, TLAPS

(* The number of rows an insert adds is the number of ids it takes.          *)
LEMMA NumberedRows ==
  ASSUME NEW es \in Seq(Event), nextId \in Nat
  PROVE  /\ Numbered(es) \in SUBSET Row
         /\ \A row \in Numbered(es) : nextId <= row.id /\ row.id < nextId + Len(es)
         /\ nextId + Len(es) \in Nat /\ nextId <= nextId + Len(es)
         /\ IsFiniteSet(Numbered(es)) /\ \A a, b \in Numbered(es) : a.id = b.id => a = b
<1>1. Len(es) \in Nat /\ \A i \in 1 .. Len(es) : es[i] \in Event
  OBVIOUS
<1>2. IsFiniteSet(Numbered(es))
  <2> DEFINE row == [i \in 1 .. Len(es) |-> [id |-> nextId + i - 1, event |-> es[i]]]
  <2>1. row \in Surjection(1 .. Len(es), Numbered(es))
    BY DEF Surjection, Numbered
  <2> HIDE DEF row
  <2> QED
    BY <1>1, <2>1, FS_Interval, FS_Surjection
<1> QED
  BY <1>1, <1>2 DEF Numbered, Row

(* Sequences of no element and of one.                                       *)
LEMMA ShortSequences ==
  ASSUME NEW S
  PROVE  <<>> \in Seq(S) /\ Len(<<>>) = 0 /\ \A x \in S : <<x>> \in Seq(S)
OBVIOUS

(* A transaction that has done nothing.                                      *)
LEMMA Fresh ==
  ASSUME NEW state \in {"idle", "running", "refused"}, NEW rest \in Seq(Step)
  PROVE  /\ NoTx \in Tx /\ NoTx = [NoTx EXCEPT !.state = "idle"]
         /\ [NoTx EXCEPT !.state = state] \in Tx
         /\ [NoTx EXCEPT !.state = state, !.rest = rest] \in Tx
<1>1. <<>> \in Seq(Step) /\ <<>> \in Seq(Event) /\ {} \in SUBSET Row
  BY ShortSequences
<1>2. NoTx \in Tx
  BY <1>1 DEF NoTx, Tx
<1>3. NoTx = [NoTx EXCEPT !.state = "idle"]
  BY DEF NoTx
<1> HIDE DEF NoTx
<1> QED
  BY <1>2, <1>3 DEF Tx

(* The next step of a script, by its kind.                                   *)
LEMMA NextStep ==
  ASSUME LogTypeOK, NEW w \in Writers, NEW op, At(w, op)
  PROVE  /\ tx[w] \in Tx /\ tx[w].state = "running"
         /\ Tail(tx[w].rest) \in Seq(Step)
         /\ op = "row" => Head(tx[w].rest).row \in Rows
         /\ op \in {"record", "push", "collect"} => Head(tx[w].rest).event \in Event
<1>1. tx[w] \in Tx /\ tx[w].rest \in Seq(Step) /\ tx[w].rest # <<>>
  BY DEF LogTypeOK, At, Tx
<1>2. Head(tx[w].rest) \in Step /\ Tail(tx[w].rest) \in Seq(Step)
  BY <1>1
<1>3. Head(tx[w].rest).op = op /\ tx[w].state = "running"
  BY DEF At
<1> QED
  BY <1>1, <1>2, <1>3 DEF Step

(* A transaction that ends leaves its locks and a record without writes.     *)
LEMMA ReleasedLocks ==
  ASSUME LogTypeOK, NEW w \in Writers, NEW state \in {"idle", "refused"},
         tx' = [tx EXCEPT ![w] = [NoTx EXCEPT !.state = state]],
         rows' = [r \in Rows |-> IF rows[r] = w THEN NoOne ELSE rows[r]],
         order' = IF order = w THEN NoOne ELSE order
  PROVE  /\ tx' \in [Writers -> Tx] /\ tx'[w].inserted = {}
         /\ \A v \in Writers \ {w} : tx'[v] = tx[v]
         /\ rows' \in [Rows -> Writers \cup {NoOne}]
         /\ \A r \in Rows : rows'[r] # NoOne => tx'[rows'[r]].state = "running"
         /\ order' \in Writers \cup {NoOne}
         /\ order' # NoOne => tx'[order'].state = "running"
<1>1. [NoTx EXCEPT !.state = state] \in Tx
  BY Fresh, ShortSequences
<1>2. [NoTx EXCEPT !.state = state].inserted = {}
  BY DEF NoTx
<1>3. \A v \in Writers \ {w} : tx'[v] = tx[v]
  BY DEF LogTypeOK
<1>4. tx'[w] = [NoTx EXCEPT !.state = state] /\ tx' \in [Writers -> Tx]
  BY <1>1 DEF LogTypeOK
<1>5. order' # w /\ \A r \in Rows : rows'[r] # w
  BY StreamLogAssumption
<1> QED
  BY <1>2, <1>3, <1>4, <1>5, StreamLogAssumption DEF LogTypeOK

(* A step of an open transaction that goes on, whatever it writes: the       *)
(* transaction stays open, and a lock it takes is one nobody else had.       *)
LEMMA KeptLocks ==
  ASSUME LogTypeOK, NEW w \in Writers, NEW t \in Tx, t.state = "running",
         tx' = [tx EXCEPT ![w] = t]
  PROVE  /\ tx' \in [Writers -> Tx] /\ tx'[w] = t
         /\ \A v \in Writers \ {w} : tx'[v] = tx[v]
         /\ \A r \in Rows : rows[r] # NoOne => tx'[rows[r]].state = "running"
         /\ order # NoOne => tx'[order].state = "running"
BY DEF LogTypeOK

(* LogTypeOK is inductive.  A prune only removes rows.                       *)
LEMMA TypeStep == LogTypeOK /\ [LogNext]_logVars => LogTypeOK'
<1> SUFFICES ASSUME LogTypeOK, [LogNext]_logVars PROVE LogTypeOK'
  OBVIOUS
<1> USE StreamLogAssumption
<1>1. CASE Prune
  BY <1>1 DEF Prune, LogTypeOK
<1>2. ASSUME NEW w \in Writers, WriterStep(w) PROVE LogTypeOK'
  <2>1. CASE Begin(w)
    <3>1. PICK s \in todo :
            /\ tx' = [tx EXCEPT ![w] = [NoTx EXCEPT !.state = "running", !.rest = s]]
            /\ todo' = todo \ {s}
      BY <2>1 DEF Begin
    <3> DEFINE t == [NoTx EXCEPT !.state = "running", !.rest = s]
    <3>2. t \in Tx /\ t.state = "running"
      <4>1. s \in Seq(Step)
        BY DEF LogTypeOK
      <4>2. t.state = "running"
        BY DEF NoTx
      <4>3. t \in Tx
        BY <4>1, Fresh
      <4> QED
        BY <4>2, <4>3, ShortSequences
    <3> HIDE DEF t
    <3>3. tx' = [tx EXCEPT ![w] = t]
      BY <3>1 DEF t
    <3> QED
      BY <2>1, <3>1, <3>2, <3>3, KeptLocks DEF Begin, LogTypeOK
  <2>2. CASE LockRow(w)
    <3>1. tx[w] \in Tx /\ tx[w].state = "running" /\ Tail(tx[w].rest) \in Seq(Step)
            /\ Head(tx[w].rest).row \in Rows
      BY <2>2, NextStep DEF LockRow
    <3>2. Advanced(w) \in Tx /\ Advanced(w).state = "running"
      BY <3>1 DEF Advanced, Tx
    <3>3. tx' = [tx EXCEPT ![w] = Advanced(w)]
      BY <2>2, <3>2 DEF LockRow, LogTypeOK
    <3>4. /\ tx' \in [Writers -> Tx] /\ tx'[w].state = "running"
          /\ \A r \in Rows : rows[r] # NoOne => tx'[rows[r]].state = "running"
          /\ order # NoOne => tx'[order].state = "running"
      BY <3>2, <3>3, KeptLocks
    <3>5. rows' = [rows EXCEPT ![Head(tx[w].rest).row] = w]
      BY <2>2 DEF LockRow
    <3>6. rows' \in [Rows -> Writers \cup {NoOne}]
            /\ \A r \in Rows : rows'[r] \in {rows[r], w}
      BY <3>1, <3>5 DEF LogTypeOK
    <3> QED
      BY <2>2, <3>4, <3>6 DEF LockRow, LogTypeOK
  <2>3. CASE Collect(w)
    <3> DEFINE buffer == Append(tx[w].buffer, Head(tx[w].rest).event)
               staged == [Advanced(w) EXCEPT !.staged = @ \o buffer, !.buffer = <<>>]
               kept   == [Advanced(w) EXCEPT !.buffer = buffer]
               t == IF At(w, "collect") /\ Len(buffer) >= StageSize THEN staged ELSE kept
    <3>1. tx[w] \in Tx /\ tx[w].state = "running" /\ Tail(tx[w].rest) \in Seq(Step)
            /\ Head(tx[w].rest).event \in Event
      BY <2>3, NextStep DEF Collect
    <3>2. buffer \in Seq(Event) /\ Len(buffer) \in Nat /\ tx[w].staged \o buffer \in Seq(Event)
      BY <3>1 DEF Tx
    <3>3. Advanced(w) \in Tx /\ Advanced(w).state = "running" /\ Advanced(w).staged = tx[w].staged
      BY <3>1 DEF Advanced, Tx
    <3> HIDE DEF buffer
    <3>4. staged \in Tx /\ staged.state = "running"
      BY <3>2, <3>3, ShortSequences DEF Tx
    <3>5. kept \in Tx /\ kept.state = "running"
      BY <3>2, <3>3 DEF Tx
    <3> HIDE DEF staged, kept
    <3>6. t \in Tx /\ t.state = "running"
      BY <3>2, <3>4, <3>5, ShortSequences
    <3>7. tx' = [tx EXCEPT ![w] = t]
      BY <2>3 DEF Collect, buffer, staged, kept
    <3> HIDE DEF t
    <3> QED
      BY <2>3, <3>6, <3>7, KeptLocks DEF Collect, LogTypeOK
  <2>4. CASE Record(w)
    <3> DEFINE es == <<Head(tx[w].rest).event>>
               t == [Advanced(w) EXCEPT !.inserted = @ \cup Numbered(es)]
    <3>1. tx[w] \in Tx /\ tx[w].state = "running" /\ Tail(tx[w].rest) \in Seq(Step)
            /\ Head(tx[w].rest).event \in Event
      BY <2>4, NextStep DEF Record
    <3>2. es \in Seq(Event) /\ Numbered(es) \in SUBSET Row
      <4>1. es \in Seq(Event)
        BY <3>1, ShortSequences
      <4> QED
        BY <4>1, NumberedRows DEF LogTypeOK
    <3> HIDE DEF es
    <3>3. t \in Tx /\ t.state = "running"
      BY <3>1, <3>2 DEF Advanced, Tx
    <3>4. tx' = [tx EXCEPT ![w] = t]
      BY <2>4, <3>3 DEF Record, es, LogTypeOK
    <3> HIDE DEF t
    <3>5. nextId' \in Nat /\ order' = w
      BY <2>4 DEF Record, TakeOrder, LogTypeOK
    <3> QED
      BY <2>4, <3>3, <3>4, <3>5, KeptLocks DEF Record, LogTypeOK
  <2>5. CASE Refused(w)
    <3>1. nextId' \in Nat
      BY <2>5, NextStep DEF Refused, LogTypeOK, Tx
    <3> QED
      BY <2>5, <3>1, ReleasedLocks DEF Refused, Rollback, LogTypeOK
  <2>6. CASE Flush(w)
    <3> DEFINE es == Pending(w)
               t == [Advanced(w) EXCEPT !.inserted = @ \cup Numbered(es), !.staged = <<>>,
                                        !.buffer = <<>>]
    <3>1. tx[w] \in Tx /\ tx[w].state = "running" /\ Tail(tx[w].rest) \in Seq(Step)
      BY <2>6, NextStep DEF Flush
    <3>2. es \in Seq(Event)
      BY <3>1 DEF Pending, Tx
    <3> HIDE DEF es
    <3>3. Numbered(es) \in SUBSET Row /\ nextId + Len(es) \in Nat
      BY <3>2, NumberedRows DEF LogTypeOK
    <3>4. t \in Tx /\ t.state = "running"
      BY <3>1, <3>3, ShortSequences DEF Advanced, Tx
    <3>5. tx' = [tx EXCEPT ![w] = t] /\ nextId' \in Nat
      BY <2>6, <3>3 DEF Flush, es
    <3> HIDE DEF t
    <3>6. order' \in {order, w}
      BY <2>6 DEF Flush, TakeOrder
    <3> QED
      BY <2>6, <3>4, <3>5, <3>6, KeptLocks DEF Flush, LogTypeOK
  <2>7. CASE Commit(w)
    <3>1. NoTx = [NoTx EXCEPT !.state = "idle"]
      BY ShortSequences, Fresh
    <3>2. tx[w].inserted \in SUBSET Row
      BY DEF LogTypeOK, Tx
    <3> QED
      BY <2>7, <3>1, <3>2, ReleasedLocks DEF Commit, LogTypeOK
  <2>8. CASE Fail(w)
    <3>1. failures' \in 0 .. MaxFailures
      BY <2>8 DEF Fail, LogTypeOK
    <3> QED
      BY <2>8, <3>1, ReleasedLocks DEF Fail, Rollback, LogTypeOK
  <2>9. CASE BreakDeadlock(w)
    BY <2>9, ReleasedLocks DEF BreakDeadlock, Rollback, LogTypeOK
  <2>10. CASE ReturnError(w)
    <3>1. NoTx \in Tx
      BY Fresh, ShortSequences
    <3>2. tx' = [tx EXCEPT ![w] = NoTx] /\ tx[w].state = "refused"
      BY <2>10 DEF ReturnError
    <3>3. order # w /\ \A r \in Rows : rows[r] # w
      BY <3>2 DEF LogTypeOK
    <3> QED
      BY <2>10, <3>1, <3>2, <3>3 DEF ReturnError, LogTypeOK
  <2> QED
    BY <1>2, <2>1, <2>2, <2>3, <2>4, <2>5, <2>6, <2>7, <2>8, <2>9, <2>10 DEF WriterStep
<1>3. CASE UNCHANGED logVars
  BY <1>3 DEF logVars, LogTypeOK
<1> QED
  BY <1>1, <1>2, <1>3 DEF LogNext

-----------------------------------------------------------------------------
(* What the steps of a writer do to the rows: nothing, drop the rows of its  *)
(* transaction, add rows with new ids under the order lock, or commit them.  *)
LEMMA RowsOfAStep ==
  ASSUME LogTypeOK, OrderHeld, LogTypeOK', NEW w \in Writers, WriterStep(w)
  PROVE  /\ \A v \in Writers \ {w} : tx'[v].inserted = tx[v].inserted
         /\ nextId' >= nextId
         /\ \/ /\ committed' = committed
               /\ tx'[w].inserted = tx[w].inserted /\ order' \in {order, w}
               /\ order \in {NoOne, w, order'}
            \/ /\ committed' = committed
               /\ tx'[w].inserted = {} /\ (order # w => order' = order)
            \/ /\ committed' = committed /\ order \in {NoOne, w} /\ order' = w
               /\ \A row \in tx'[w].inserted \ tx[w].inserted :
                    nextId <= row.id /\ row.id < nextId'
               /\ \E es \in Seq(Event) : tx'[w].inserted = tx[w].inserted \cup Numbered(es)
            \/ /\ committed' = committed \cup tx[w].inserted
               /\ tx'[w].inserted = {} /\ (order # w => order' = order)
<1> USE StreamLogAssumption
<1>1. tx \in [Writers -> Tx] /\ nextId \in Nat
  BY DEF LogTypeOK
<1>2. NoTx.inserted = {}
  BY DEF NoTx
<1>3. CASE Begin(w) \/ LockRow(w) \/ Collect(w)
  <2>1. nextId' = nextId /\ committed' = committed /\ order' = order
    BY <1>3 DEF Begin, LockRow, Collect
  <2>2. \A v \in Writers \ {w} : tx'[v] = tx[v]
    BY <1>1, <1>3 DEF Begin, LockRow, Collect
  <2>3. CASE Begin(w)
    <3>1. PICK s \in todo : tx'[w] = [NoTx EXCEPT !.state = "running", !.rest = s]
      BY <1>1, <2>3 DEF Begin
    <3>2. tx'[w].inserted = {}
      BY <3>1 DEF NoTx
    <3> QED
      BY <1>1, <2>1, <2>2, <3>2
  <2>4. CASE LockRow(w)
    <3>1. tx'[w].inserted = tx[w].inserted
      BY <1>1, <2>4 DEF LockRow, Advanced, Tx
    <3> QED
      BY <1>1, <2>1, <2>2, <3>1
  <2>5. CASE Collect(w)
    <3>1. tx'[w].inserted = tx[w].inserted
      BY <1>1, <2>5 DEF Collect, Advanced, Tx
    <3> QED
      BY <1>1, <2>1, <2>2, <3>1
  <2> QED
    BY <1>3, <2>3, <2>4, <2>5
<1>4. CASE Record(w)
  <2> DEFINE es == <<Head(tx[w].rest).event>>
  <2>1. es \in Seq(Event) /\ Len(es) = 1
    BY <1>4, NextStep, ShortSequences DEF Record
  <2>2. \A row \in Numbered(es) : nextId <= row.id /\ row.id < nextId + 1
    BY <1>1, <2>1, NumberedRows
  <2>3. tx'[w].inserted = tx[w].inserted \cup Numbered(es)
    BY <1>1, <1>4 DEF Record, Advanced, Tx
  <2>4. nextId' = nextId + 1 /\ committed' = committed /\ order \in {NoOne, w} /\ order' = w
    BY <1>4 DEF Record, TakeOrder
  <2>5. \A v \in Writers \ {w} : tx'[v] = tx[v]
    BY <1>1, <1>4 DEF Record
  <2> HIDE DEF es
  <2> QED
    BY <1>1, <2>1, <2>2, <2>3, <2>4, <2>5
<1>5. CASE Flush(w)
  <2> DEFINE es == Pending(w)
  <2>1. es \in Seq(Event)
    BY <1>1 DEF Pending, Tx
  <2> HIDE DEF es
  <2>2. /\ \A row \in Numbered(es) : nextId <= row.id /\ row.id < nextId + Len(es)
        /\ nextId + Len(es) \in Nat /\ nextId <= nextId + Len(es)
    BY <1>1, <2>1, NumberedRows
  <2>3. tx'[w].inserted = tx[w].inserted \cup Numbered(es)
    BY <1>1, <1>5 DEF Flush, Advanced, Tx, es
  <2>4. nextId' = nextId + Len(es) /\ committed' = committed
    BY <1>5 DEF Flush, es
  <2>5. \A v \in Writers \ {w} : tx'[v] = tx[v]
    BY <1>1, <1>5 DEF Flush
  <2>6. CASE es = <<>>
    <3>1. order' = order
      BY <1>5, <2>6 DEF Flush, es
    <3>2. Numbered(es) = {}
      BY <2>6 DEF Numbered
    <3> QED
      BY <1>1, <2>2, <2>3, <2>4, <2>5, <3>1, <3>2
  <2>7. CASE es # <<>>
    <3>1. order \in {NoOne, w} /\ order' = w
      BY <1>5, <2>7 DEF Flush, TakeOrder, es
    <3> QED
      BY <1>1, <2>1, <2>2, <2>3, <2>4, <2>5, <3>1
  <2> QED
    BY <2>6, <2>7
<1>6. CASE Refused(w) \/ Fail(w) \/ BreakDeadlock(w)
  <2>1. PICK state \in {"idle", "refused"} : Rollback(w, state)
    BY <1>6 DEF Refused, Fail, BreakDeadlock
  <2>2. /\ \A v \in Writers \ {w} : tx'[v] = tx[v]
        /\ tx'[w] = [NoTx EXCEPT !.state = state]
        /\ committed' = committed /\ (order # w => order' = order)
    BY <1>1, <2>1 DEF Rollback
  <2>3. tx'[w].inserted = {}
    BY <2>2 DEF NoTx
  <2>4. CASE Refused(w)
    <3>1. Len(tx[w].staged) \in Nat
      BY <1>1 DEF Tx
    <3>2. nextId' = nextId + Len(tx[w].staged) + 1
      BY <2>4 DEF Refused
    <3>3. nextId' >= nextId
      BY <1>1, <3>1, <3>2
    <3> QED
      BY <2>2, <2>3, <3>3
  <2>5. CASE Fail(w) \/ BreakDeadlock(w)
    <3>1. nextId' = nextId
      BY <2>5 DEF Fail, BreakDeadlock
    <3> QED
      BY <1>1, <2>2, <2>3, <3>1
  <2> QED
    BY <1>6, <2>4, <2>5
<1>7. CASE Commit(w)
  <2>1. /\ \A v \in Writers \ {w} : tx'[v] = tx[v]
        /\ tx'[w] = NoTx /\ nextId' = nextId
        /\ committed' = committed \cup tx[w].inserted /\ (order # w => order' = order)
    BY <1>1, <1>7 DEF Commit
  <2> QED
    BY <1>1, <1>2, <2>1
<1>8. CASE ReturnError(w)
  <2>1. /\ \A v \in Writers \ {w} : tx'[v] = tx[v]
        /\ tx'[w] = NoTx /\ nextId' = nextId /\ committed' = committed /\ order' = order
    BY <1>1, <1>8 DEF ReturnError
  <2> QED
    BY <1>1, <1>2, <2>1
<1> QED
  BY <1>3, <1>4, <1>5, <1>6, <1>7, <1>8 DEF WriterStep

(* OrderHeld is inductive relative to the types.  Only the holder of the     *)
(* order lock has rows, so a commit leaves nobody with rows in front of its  *)
(* own.                                                                      *)
LEMMA OrderStep ==
  LogTypeOK /\ OrderHeld /\ LogTypeOK' /\ [LogNext]_logVars => OrderHeld'
<1> SUFFICES ASSUME LogTypeOK, OrderHeld, LogTypeOK', [LogNext]_logVars PROVE OrderHeld'
  OBVIOUS
<1> USE StreamLogAssumption
<1>1. /\ nextId \in Nat /\ nextId' \in Nat
      /\ \A row \in committed : row.id \in Nat
      /\ \A v \in Writers : \A row \in tx[v].inserted : row.id \in Nat
      /\ \A v \in Writers : \A row \in tx'[v].inserted : row.id \in Nat
  BY DEF LogTypeOK, Tx, Row
<1>2. CASE Prune
  BY <1>2 DEF Prune, OrderHeld
<1>3. ASSUME NEW w \in Writers, WriterStep(w) PROVE OrderHeld'
  <2>1. \A v \in Writers \ {w} : tx'[v].inserted = tx[v].inserted
    BY <1>3, RowsOfAStep
  <2>2. nextId' >= nextId
    BY <1>3, RowsOfAStep
  <2>3. CASE /\ committed' = committed
             /\ tx'[w].inserted = tx[w].inserted /\ order' \in {order, w}
             /\ order \in {NoOne, w, order'}
    BY <1>1, <2>1, <2>2, <2>3 DEF OrderHeld
  <2>4. CASE /\ committed' = committed
             /\ tx'[w].inserted = {} /\ (order # w => order' = order)
    BY <1>1, <2>1, <2>2, <2>4 DEF OrderHeld
  <2>5. CASE /\ committed' = committed /\ order \in {NoOne, w} /\ order' = w
             /\ \A row \in tx'[w].inserted \ tx[w].inserted :
                  nextId <= row.id /\ row.id < nextId'
    <3>1. \A v \in Writers \ {w} : tx[v].inserted = {}
      BY <2>5 DEF OrderHeld
    <3>2. \A row \in committed' : row.id < nextId'
      BY <1>1, <2>2, <2>5 DEF OrderHeld
    <3>3. \A new \in tx'[w].inserted :
            new.id < nextId' /\ \A old \in committed' : old.id < new.id
      BY <1>1, <2>2, <2>5 DEF OrderHeld
    <3> QED
      BY <2>1, <2>5, <3>1, <3>2, <3>3 DEF OrderHeld
  <2>6. CASE /\ committed' = committed \cup tx[w].inserted
             /\ tx'[w].inserted = {} /\ (order # w => order' = order)
    <3>1. CASE tx[w].inserted = {}
      BY <1>1, <2>1, <2>2, <2>6, <3>1 DEF OrderHeld
    <3>2. CASE tx[w].inserted # {}
      <4>1. \A v \in Writers : tx'[v].inserted = {}
        BY <2>1, <2>6, <3>2 DEF OrderHeld
      <4>2. \A row \in committed' : row.id < nextId'
        BY <1>1, <2>2, <2>6 DEF OrderHeld
      <4> QED
        BY <4>1, <4>2 DEF OrderHeld
    <3> QED
      BY <3>1, <3>2
  <2> QED
    BY <1>3, <2>3, <2>4, <2>5, <2>6, RowsOfAStep
<1>4. CASE UNCHANGED logVars
  BY <1>4 DEF logVars, OrderHeld
<1> QED
  BY <1>2, <1>3, <1>4 DEF LogNext

(* The log starts empty, with every connection idle and every lock free.     *)
LEMMA LogStarts == LogInit => LogTypeOK /\ OrderHeld
<1> SUFFICES ASSUME LogInit PROVE LogTypeOK /\ OrderHeld
  OBVIOUS
<1>1. NoTx \in Tx
  <2>1. <<>> \in Seq(Step)
    BY ShortSequences
  <2> QED
    BY <2>1, Fresh, ShortSequences
<1>2. NoTx.inserted = {}
  BY DEF NoTx
<1>3. LogTypeOK
  BY <1>1, StreamLogAssumption DEF LogInit, LogTypeOK
<1>4. OrderHeld
  BY <1>2 DEF LogInit, OrderHeld
<1> QED
  BY <1>3, <1>4

(* In every reachable state of the log the variables have their types, locks *)
(* belong to open transactions, and only the holder of lock_stream_event_    *)
(* order has uncommitted rows, all of them behind the committed ones.        *)
THEOREM LogInvariant == LogSpec => [](LogTypeOK /\ OrderHeld)
<1>1. LogTypeOK /\ OrderHeld /\ [LogNext]_logVars => (LogTypeOK /\ OrderHeld)'
  BY TypeStep, OrderStep
<1> QED
  BY LogStarts, <1>1, PTL DEF LogSpec

(* A commit adds rows behind all rows ever committed: a session that has     *)
(* read up to an id never misses a row that becomes visible later.           *)
THEOREM LogIsOrdered == LogSpec => CommitOrder
<1>1. ASSUME LogTypeOK, OrderHeld, LogTypeOK', [LogNext]_logVars
      PROVE  \A new \in committed' \ committed : \A old \in committed : old.id < new.id
  <2>1. CASE Prune
    BY <2>1 DEF Prune
  <2>2. ASSUME NEW w \in Writers, WriterStep(w)
        PROVE  \A new \in committed' \ committed : \A old \in committed : old.id < new.id
    <3>1. committed' = committed \/ committed' = committed \cup tx[w].inserted
      BY <1>1, <2>2, RowsOfAStep
    <3> QED
      BY <1>1, <3>1 DEF OrderHeld
  <2>3. CASE UNCHANGED logVars
    BY <2>3 DEF logVars
  <2> QED
    BY <1>1, <2>1, <2>2, <2>3 DEF LogNext
<1>2. (LogTypeOK /\ OrderHeld) /\ (LogTypeOK /\ OrderHeld)' /\ [LogNext]_logVars
        => [\A new \in committed' \ committed : \A old \in committed : old.id < new.id]_logVars
  BY <1>1
<1> QED
  BY LogInvariant, <1>2, PTL DEF LogSpec, CommitOrder
=============================================================================
