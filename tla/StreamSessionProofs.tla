------------------------ MODULE StreamSessionProofs ------------------------
(***************************************************************************)
(* What a streaming connection is sent, for any log, any timelines and     *)
(* account streams, any batch and replay sizes, and however the commits    *)
(* and the prunes fall between the reads of its task: every subscription   *)
(* skips and repeats nothing, announces no old status as new, and a        *)
(* revoked token gets nothing behind its kill event.                       *)
(***************************************************************************)
EXTENDS StreamSession, StreamLogProofs


(* The connection and the frames, but for the bounds of the cursors.         *)
Conn ==
  [state : {"upgrading", "authenticated", "cursor read", "open", "authorizing", "replaying",
            "polling", "closed"},
   cursor : Nat, system : Nat, live : Nat, subs : SUBSET Streams, base : [Streams -> Nat],
   established : BOOLEAN, stream : Streams \cup {NoStream}, after : Nat,
   atOpen : SUBSET Row, atSubscribe : SUBSET Row, asked : Nat]

Frame == [row : Row, live : BOOLEAN]

(* Finitely many rows with ids of their own.                                 *)
Distinct(R) == IsFiniteSet(R) /\ \A a, b \in R : a.id > 0 /\ (a.id = b.id => a = b)

(* Every row has an id of its own.                                           *)
RowsInv == nextId > 0 /\ Distinct(committed) /\ \A w \in Writers : Distinct(tx[w].inserted)

Opened == conn.state \in {"open", "authorizing", "replaying", "polling"}

Subscribing == conn.state \in {"authorizing", "replaying"}

(* The types, and what the states of the task mean.                          *)
ConnInv ==
  /\ conn \in Conn /\ sent \in [Streams -> Seq(Frame)] /\ since \in [Streams -> SUBSET Row]
  /\ Subscribing <=> conn.stream # NoStream
  /\ conn.stream \notin conn.subs
  /\ conn.established => Opened
  /\ ~conn.established => conn.subs = {}
  /\ conn.state = "polling" => conn.subs # {}
  /\ \A s \in Streams : sent[s] # <<>> => s \in conn.subs \/ conn.state = "closed"

(* The histories hold rows that were committed.                              *)
HistoryInv ==
  /\ conn.atOpen \subseteq committed /\ conn.atSubscribe \subseteq committed
  /\ \A s \in Streams : /\ since[s] \subseteq committed
                        /\ \A i \in 1 .. Len(sent[s]) : sent[s][i].row \in committed

(* No cursor is ahead of what was committed, so what is committed later is   *)
(* ahead of every cursor.                                                    *)
Seen(n) == n = 0 \/ \E row \in committed : n <= row.id

CursorsInv ==
  /\ Seen(conn.cursor) /\ Seen(conn.system) /\ Seen(conn.live) /\ Seen(conn.after)
  /\ \A s \in Streams : Seen(conn.base[s])
  /\ conn.live <= conn.cursor /\ conn.live <= conn.system
  /\ ~conn.established => conn.cursor = conn.live

(* Neither cursor has passed a kill.                                         *)
KillsInv == Opened => \A k \in Kills(log) : conn.system < k.id /\ conn.cursor < k.id

(* The duty of a connection or of a subscription in progress, as ids.        *)
DutyInv ==
  /\ \A row \in log : row \in conn.atOpen <=> row.id <= conn.live
  /\ Subscribing =>
       /\ \A row \in log \ conn.atSubscribe : row.id > conn.cursor
       /\ conn.stream \in Timelines => \A row \in log : row \in conn.atSubscribe <=> row.id <= conn.after
  /\ conn.state = "replaying" /\ conn.stream \in Timelines =>
       \A row \in log : row \in conn.atSubscribe \/ row.id <= conn.cursor => row.id <= conn.base[conn.stream]

(* What was sent is behind the cursor or the baseline.                       *)
SentInv ==
  \A s \in conn.subs :
    /\ \A i \in 1 .. Len(sent[s]) :
         sent[s][i].row.id <= conn.cursor \/ (s \in Timelines /\ sent[s][i].row.id <= conn.base[s])
    /\ s \in Timelines => \A row \in since[s] \cap log : row.id <= conn.base[s]

(* The inductive invariant.                                                  *)
LogInv == LogTypeOK /\ OrderHeld /\ RowsInv

SessionInv ==
  /\ LogInv /\ ConnInv /\ HistoryInv /\ CursorsInv /\ KillsInv /\ DutyInv /\ SentInv
  /\ SentInOrder /\ NothingSkipped /\ CreationsAreNew /\ NothingAfterKill
-----------------------------------------------------------------------------
(* Rows with ids of their own are numbered by how many are earlier.          *)
LEMMA EarlierFacts ==
  ASSUME NEW R, Distinct(R), \A row \in R : row.id \in Nat
  PROVE  /\ Cardinality(R) \in Nat
         /\ \A row \in R : Earlier(R, row) \in 0 .. Cardinality(R) - 1
         /\ \A a, b \in R : a.id < b.id => Earlier(R, a) < Earlier(R, b)
         /\ \A n \in 1 .. Cardinality(R) : \E row \in R : Earlier(R, row) + 1 = n
<1>1. IsFiniteSet(R) /\ Cardinality(R) \in Nat
  BY FS_CardinalityType DEF Distinct
<1>2. PICK below \in [R -> SUBSET R] : \A row \in R : below[row] = {r \in R : r.id < row.id}
  <2>1. [row \in R |-> {r \in R : r.id < row.id}] \in [R -> SUBSET R]
    OBVIOUS
  <2> QED
    BY <2>1
<1>3. \A row \in R : Earlier(R, row) = Cardinality(below[row])
  BY <1>2, Zenon DEF Earlier
<1>4. ASSUME NEW row \in R
      PROVE  /\ Cardinality(below[row]) \in Nat
             /\ \A T \in SUBSET R : below[row] \cup {row} \subseteq T =>
                  Cardinality(below[row]) + 1 <= Cardinality(T)
  <2>1. below[row] \in SUBSET R /\ IsFiniteSet(below[row]) /\ row \notin below[row]
    BY <1>1, <1>2, FS_Subset
  <2>2. Cardinality(below[row]) \in Nat /\ Cardinality(below[row] \cup {row}) = Cardinality(below[row]) + 1
    BY <2>1, FS_CardinalityType, FS_AddElement
  <2>3. ASSUME NEW T \in SUBSET R, below[row] \cup {row} \subseteq T
        PROVE  Cardinality(below[row] \cup {row}) <= Cardinality(T)
    <3>1. IsFiniteSet(T)
      BY <1>1, FS_Subset
    <3> QED
      BY <2>3, <3>1, FS_Subset
  <2> QED
    BY <2>2, <2>3
<1>5. \A row \in R : Earlier(R, row) \in 0 .. Cardinality(R) - 1
  <2>1. ASSUME NEW row \in R PROVE Cardinality(below[row]) + 1 <= Cardinality(R)
    BY <1>4
  <2> QED
    BY <1>1, <1>3, <1>4, <2>1
<1>6. ASSUME NEW a \in R, NEW b \in R, a.id < b.id PROVE Earlier(R, a) < Earlier(R, b)
  <2>1. below[b] \in SUBSET R /\ below[a] \cup {a} \subseteq below[b]
    BY <1>2, <1>6
  <2> QED
    BY <1>3, <1>4, <2>1
<1> DEFINE rank == [row \in R |-> Earlier(R, row) + 1]
<1>7. rank \in Injection(R, 1 .. Cardinality(R))
  <2>1. rank \in [R -> 1 .. Cardinality(R)]
    <3>1. \A row \in R : Earlier(R, row) + 1 \in 1 .. Cardinality(R)
      BY <1>1, <1>5
    <3> QED
      BY <3>1
  <2>2. ASSUME NEW a \in R, NEW b \in R, rank[a] = rank[b] PROVE a = b
    <3>1. Earlier(R, a) = Earlier(R, b) /\ Earlier(R, a) \in Nat
      BY <1>5, <2>2
    <3>2. a.id = b.id
      BY <1>6, <3>1
    <3> QED
      BY <3>2 DEF Distinct
  <2> QED
    BY <2>1, <2>2 DEF Injection, IsInjective
<1>8. rank \in Surjection(R, 1 .. Cardinality(R))
  <2>1. IsFiniteSet(1 .. Cardinality(R)) /\ Cardinality(1 .. Cardinality(R)) = Cardinality(R)
    BY <1>1, FS_Interval
  <2> HIDE DEF rank
  <2> QED
    BY <1>7, <2>1, FS_Injection
<1>9. \A n \in 1 .. Cardinality(R) : \E row \in R : rank[row] = n
  BY <1>8 DEF Surjection
<1> QED
  BY <1>1, <1>5, <1>6, <1>9

(* The last row of a set, and what a cursor becomes.                         *)
LEMMA MaxFacts ==
  ASSUME NEW R, Distinct(R), \A row \in R : row.id \in Nat, R # {}
  PROVE  \E last \in R : Max({row.id : row \in R}) = last.id /\ \A row \in R : row.id <= last.id
<1>1. Cardinality(R) \in Nat /\ Cardinality(R) # 0
  BY FS_EmptySet, FS_CardinalityType DEF Distinct
<1>2. PICK last \in R : Earlier(R, last) + 1 = Cardinality(R)
  BY <1>1, EarlierFacts
<1>3. \A row \in R : row.id <= last.id
  BY <1>1, <1>2, EarlierFacts
<1>4. \A n \in {row.id : row \in R} : (\A i \in {row.id : row \in R} : n >= i) => n = last.id
  BY <1>3
<1>5. Max({row.id : row \in R}) = last.id
  <2>1. \A i \in {row.id : row \in R} : last.id >= i
    BY <1>3
  <2> QED
    BY <1>4, <2>1 DEF Max
<1> QED
  BY <1>3, <1>5

(* Of a cursor and a baseline the later counts.                              *)
LEMMA MaxOfTwo ==
  ASSUME NEW a \in Nat, NEW b \in Nat
  PROVE  Max({a, b}) = IF a >= b THEN a ELSE b
BY DEF Max

(* Frames are the rows, in id order.                                         *)
LEMMA FramesFacts ==
  ASSUME NEW R, Distinct(R), R \subseteq Row, NEW live \in BOOLEAN, NEW f, f = Frames(R, live)
  PROVE  /\ f \in Seq(Frame)
         /\ \A i \in 1 .. Len(f) : f[i].row \in R /\ f[i].live = live
         /\ \A i, j \in 1 .. Len(f) : i < j => f[i].row.id < f[j].row.id
         /\ \A row \in R : \E i \in 1 .. Len(f) : f[i].row = row
<1>1. \A row \in R : row.id \in Nat
  BY DEF Row
<1>2. PICK n \in Nat : n = Cardinality(R)
  BY <1>1, EarlierFacts
<1>3. ASSUME NEW i \in 1 .. n
      PROVE  f[i].row \in R /\ f[i].live = live /\ Earlier(R, f[i].row) = i - 1 /\ f[i] \in Frame
  <2>1. \E row \in R : Earlier(R, row) = i - 1
    <3>1. PICK row \in R : Earlier(R, row) + 1 = i
      BY <1>1, <1>2, EarlierFacts
    <3>2. Earlier(R, row) \in Nat
      BY <1>1, EarlierFacts
    <3> QED
      BY <3>1, <3>2
  <2>2. PICK row \in R : row = (CHOOSE r \in R : Earlier(R, r) = i - 1) /\ Earlier(R, row) = i - 1
    BY <2>1, Zenon
  <2>3. f[i] = [row |-> row, live |-> live]
    BY <1>2, <2>2 DEF Frames
  <2> QED
    BY <2>2, <2>3 DEF Frame
<1>4. f \in Seq(Frame) /\ Len(f) = n
  <2>1. f = [i \in 1 .. n |-> f[i]]
    BY <1>2 DEF Frames
  <2> QED
    BY <1>3, <2>1
<1>5. \A i, j \in 1 .. n : i < j => f[i].row.id < f[j].row.id
  <2>1. ASSUME NEW i \in 1 .. n, NEW j \in 1 .. n, i < j PROVE f[i].row.id < f[j].row.id
    <3>1. Earlier(R, f[i].row) < Earlier(R, f[j].row)
      BY <1>3, <2>1
    <3>2. f[j].row.id < f[i].row.id => Earlier(R, f[j].row) < Earlier(R, f[i].row)
      BY <1>1, <1>3, EarlierFacts
    <3>3. Earlier(R, f[i].row) \in Nat /\ Earlier(R, f[j].row) \in Nat
      BY <1>3, <2>1
    <3>4. f[j].row.id # f[i].row.id
      BY <1>3, <3>1, <3>3 DEF Distinct
    <3> QED
      BY <1>1, <1>3, <3>1, <3>2, <3>3, <3>4
  <2> QED
    BY <2>1
<1>6. ASSUME NEW row \in R PROVE \E i \in 1 .. n : f[i].row = row
  <2>1. Earlier(R, row) \in 0 .. n - 1
    BY <1>1, <1>2, EarlierFacts
  <2>2. PICK i \in 1 .. n : Earlier(R, row) = i - 1
    BY <2>1
  <2>3. Earlier(R, f[i].row) = Earlier(R, row) /\ f[i].row \in R
    BY <1>3, <2>2
  <2>4. row.id = f[i].row.id
    BY <1>1, <2>1, <2>3, EarlierFacts
  <2> QED
    BY <2>3, <2>4 DEF Distinct
<1> QED
  BY <1>3, <1>4, <1>5, <1>6

-----------------------------------------------------------------------------
(* A finite part of the log, and of what is behind the committed rows.       *)
LEMMA LogFacts ==
  ASSUME LogInv
  PROVE  /\ \A R \in SUBSET committed : Distinct(R) /\ R \subseteq Row /\ \A row \in R : row.id \in Nat
         /\ log \subseteq committed /\ nextId \in Nat
<1>1. \A R \in SUBSET committed : IsFiniteSet(R)
  BY FS_Subset DEF LogInv, RowsInv, Distinct
<1>2. \A R \in SUBSET committed : R \subseteq Row /\ \A row \in R : row.id \in Nat
  BY DEF LogInv, LogTypeOK, Row
<1> QED
  BY <1>1, <1>2 DEF LogInv, LogTypeOK, RowsInv, Distinct

(* The steps of the log keep the ids distinct.                               *)
LEMMA RowsStep ==
  ASSUME LogInv, (LogTypeOK /\ OrderHeld)', [LogNext]_logVars
  PROVE  RowsInv'
<1> USE DEF LogInv, RowsInv
<1>1. CASE Prune
  BY <1>1 DEF Prune, Distinct
<1>2. ASSUME NEW w \in Writers, WriterStep(w) PROVE RowsInv'
  <2>1. /\ \A v \in Writers \ {w} : tx'[v].inserted = tx[v].inserted
        /\ nextId' >= nextId /\ nextId \in Nat /\ nextId' \in Nat /\ nextId' > 0
    BY <1>2, RowsOfAStep DEF LogTypeOK
  <2>2. CASE committed' = committed /\ tx'[w].inserted = tx[w].inserted
    BY <2>1, <2>2 DEF Distinct
  <2>3. CASE committed' = committed /\ tx'[w].inserted = {}
    <3>1. Distinct({})
      BY FS_EmptySet DEF Distinct
    <3> QED
      BY <2>1, <2>3, <3>1
  <2>4. CASE /\ committed' = committed
             /\ \E es \in Seq(Event) : tx'[w].inserted = tx[w].inserted \cup Numbered(es)
    <3>1. PICK es \in Seq(Event) : tx'[w].inserted = tx[w].inserted \cup Numbered(es)
      BY <2>4
    <3>2. /\ IsFiniteSet(Numbered(es)) /\ \A a, b \in Numbered(es) : a.id = b.id => a = b
          /\ \A row \in Numbered(es) : row.id >= nextId /\ row.id \in Nat
      BY <2>1, NumberedRows DEF Row
    <3>3. \A row \in tx[w].inserted : row.id < nextId /\ row.id \in Nat
      BY DEF OrderHeld, LogTypeOK, Tx, Row
    <3>4. IsFiniteSet(tx'[w].inserted)
      <4>1. IsFiniteSet(tx[w].inserted \cup Numbered(es))
        BY <3>2, FS_Union DEF Distinct
      <4> QED
        BY <3>1, <4>1
    <3>5. \A a, b \in tx'[w].inserted : a.id > 0 /\ (a.id = b.id => a = b)
      BY <2>1, <3>1, <3>2, <3>3 DEF Distinct
    <3>6. Distinct(tx'[w].inserted)
      BY <3>4, <3>5 DEF Distinct
    <3> QED
      BY <2>1, <2>4, <3>6 DEF Distinct
  <2>5. CASE committed' = committed \cup tx[w].inserted /\ tx'[w].inserted = {}
    <3>1. Distinct({})
      BY FS_EmptySet DEF Distinct
    <3>2. IsFiniteSet(committed')
      BY <2>5, FS_Union DEF Distinct
    <3>3. \A new \in tx[w].inserted : new.id \in Nat /\ \A old \in committed : old.id < new.id /\ old.id \in Nat
      BY DEF OrderHeld, LogTypeOK, Tx, Row
    <3>4. \A a, b \in committed' : a.id > 0 /\ (a.id = b.id => a = b)
      BY <2>5, <3>3 DEF Distinct
    <3>5. Distinct(committed')
      BY <3>2, <3>4 DEF Distinct
    <3> QED
      BY <2>1, <2>5, <3>1, <3>5
  <2> QED
    BY <1>2, <2>2, <2>3, <2>4, <2>5, RowsOfAStep
<1>3. CASE UNCHANGED logVars
  BY <1>3 DEF logVars, Distinct
<1> QED
  BY <1>1, <1>2, <1>3 DEF LogNext

(* What a step of the log shows a session: new rows behind all others.       *)
LEMMA LogMoves ==
  ASSUME LogInv, LogNext
  PROVE  /\ LogInv' /\ committed \subseteq committed'
         /\ \A row \in log' \ log : row \in Row /\ row \notin committed
         /\ \A row \in log' \ log, old \in committed : old.id < row.id
<1>1. LogTypeOK' /\ OrderHeld'
  BY TypeStep, OrderStep DEF LogInv
<1>2. LogInv'
  BY <1>1, RowsStep DEF LogInv
<1>3. CASE Prune
  BY <1>2, <1>3 DEF Prune
<1>4. ASSUME NEW w \in Writers, Commit(w)
      PROVE  /\ committed \subseteq committed'
             /\ \A row \in log' \ log : row \in Row /\ \A old \in committed : old.id < row.id
             /\ \A row \in log' \ log : row \notin committed
  <2>1. /\ log' = log \cup tx[w].inserted /\ committed' = committed \cup tx[w].inserted
        /\ \A row \in tx[w].inserted : row \in Row /\ \A old \in committed : old.id < row.id
    BY <1>4 DEF Commit, LogInv, OrderHeld, LogTypeOK, Tx
  <2>2. \A row \in committed : row.id \in Nat
    BY LogFacts
  <2> QED
    BY <2>1, <2>2
<1>5. ASSUME NEW w \in Writers, WriterStep(w), ~Commit(w) PROVE log' = log /\ committed' = committed
  BY <1>5 DEF WriterStep, Begin, LockRow, Collect, Record, Refused, Flush, Fail, BreakDeadlock, ReturnError,
              Rollback
<1> QED
  BY <1>2, <1>3, <1>4, <1>5 DEF LogNext

(* A batch is what comes next after the cursor.                              *)
LEMMA BatchFacts ==
  ASSUME LogInv, NEW c \in Nat
  PROVE  /\ EventsAfter(c) \subseteq log /\ \A row \in EventsAfter(c) : row.id > c
         /\ \A row \in log, read \in EventsAfter(c) : row.id > c /\ row.id <= read.id => row \in EventsAfter(c)
<1> DEFINE later == {row \in log : row.id > c}
<1>1. later \subseteq committed /\ BatchSize \in Nat
  BY LogFacts, StreamSessionAssumption DEF StreamSessionAssumption
<1>2. Distinct(later) /\ \A row \in later : row.id \in Nat
  BY <1>1, LogFacts
<1>3. EventsAfter(c) = {row \in later : Earlier(later, row) < BatchSize}
  BY DEF EventsAfter
<1> HIDE DEF later
<1>4. ASSUME NEW row \in later, NEW read \in EventsAfter(c), row.id <= read.id PROVE row \in EventsAfter(c)
  <2>1. read \in later /\ Earlier(later, read) < BatchSize
    BY <1>3
  <2>2. /\ Earlier(later, row) \in Nat /\ Earlier(later, read) \in Nat
        /\ row.id < read.id => Earlier(later, row) < Earlier(later, read)
        /\ row.id \in Nat /\ read.id \in Nat
    BY <1>2, <2>1, EarlierFacts
  <2>3. row.id = read.id => row = read
    BY <1>2, <2>1 DEF Distinct
  <2> QED
    BY <1>1, <1>3, <1>4, <2>1, <2>2, <2>3
<1> USE DEF later
<1> QED
  BY <1>3, <1>4

(* The cursor of the log is behind nothing that is in it.                    *)
LEMMA CursorFacts ==
  ASSUME LogInv
  PROVE  StreamCursor \in Nat /\ Seen(StreamCursor) /\ \A row \in log : row.id <= StreamCursor
<1>1. Distinct(log) /\ (\A row \in log : row.id \in Nat) /\ log \subseteq committed
  BY LogFacts
<1>2. CASE log = {}
  BY <1>2 DEF StreamCursor, Seen
<1>3. CASE log # {}
  <2>1. PICK last \in log : Max({row.id : row \in log}) = last.id /\ \A row \in log : row.id <= last.id
    BY <1>1, <1>3, MaxFacts
  <2>2. StreamCursor = last.id
    BY <1>3, <2>1 DEF StreamCursor
  <2> QED
    BY <1>1, <2>1, <2>2 DEF Seen
<1> QED
  BY <1>2, <1>3

-----------------------------------------------------------------------------
(* The types of the connection, and of what it was sent.                     *)
LEMMA ConnFacts ==
  ASSUME ConnInv
  PROVE  /\ conn.cursor \in Nat /\ conn.system \in Nat /\ conn.live \in Nat /\ conn.after \in Nat
         /\ conn.asked \in Nat /\ conn.subs \subseteq Streams /\ conn.established \in BOOLEAN
         /\ conn.base \in [Streams -> Nat] /\ conn.stream \in Streams \cup {NoStream}
         /\ conn.atOpen \subseteq Row /\ conn.atSubscribe \subseteq Row /\ NoStream \notin Streams
         /\ \A s \in Streams : conn.base[s] \in Nat /\ sent[s] \in Seq(Frame)
         /\ \A s \in Streams : \A i \in 1 .. Len(sent[s]) : sent[s][i] \in Frame /\ sent[s][i].row \in Row
<1> USE DEF ConnInv
<1>1. \A s \in Streams : \A i \in 1 .. Len(sent[s]) : sent[s][i] \in Frame
  OBVIOUS
<1>2. \A s \in Streams : \A i \in 1 .. Len(sent[s]) : sent[s][i].row \in Row
  BY <1>1 DEF Frame
<1> QED
  BY <1>1, <1>2, StreamSessionAssumption DEF Conn, StreamSessionAssumption

(* The writers go on: what they commit is ahead of every cursor.             *)
LEMMA OthersStep ==
  ASSUME SessionInv, LogNext, UNCHANGED <<conn, sent, since>>
  PROVE  SessionInv'
<1> USE DEF SessionInv
<1>1. /\ LogInv' /\ committed \subseteq committed'
      /\ \A row \in log' \ log : row \in Row /\ row \notin committed
      /\ \A row \in log' \ log, old \in committed : old.id < row.id
  BY LogMoves
<1>2. /\ log \subseteq committed /\ \A row \in committed : row.id \in Nat
      /\ \A row \in log' \ log : row.id \in Nat /\ row.id > 0
  BY <1>1, LogFacts DEF LogInv, LogTypeOK, RowsInv, Distinct, Row
<1>3. ASSUME NEW n \in Nat, Seen(n) PROVE Seen(n)' /\ \A row \in log' \ log : n < row.id
  BY <1>1, <1>2, <1>3 DEF Seen
<1>4. ConnInv' /\ HistoryInv'
  BY <1>1 DEF ConnInv, HistoryInv, Subscribing, Opened
<1>5. CursorsInv'
  BY <1>3, ConnFacts DEF CursorsInv
<1>6. KillsInv'
  BY <1>3, ConnFacts DEF KillsInv, Kills, Opened, CursorsInv
<1>7. DutyInv'
  <2>1. /\ \A row \in log' \ log : row \notin conn.atOpen /\ row \notin conn.atSubscribe
        /\ \A row \in log' \ log : row.id > conn.live /\ row.id > conn.cursor /\ row.id > conn.after
        /\ \A s \in Streams, row \in log' \ log : row.id > conn.base[s]
    BY <1>1, <1>3, ConnFacts DEF HistoryInv, CursorsInv
  <2>2. /\ conn.live \in Nat /\ conn.cursor \in Nat /\ conn.after \in Nat
        /\ \A row \in log' : row.id \in Nat
    BY <1>2, ConnFacts
  <2> QED
    BY <2>1, <2>2 DEF DutyInv, Subscribing
<1>8. SentInv' /\ SentInOrder'
  BY <1>1, ConnFacts DEF SentInv, SentInOrder, HistoryInv
<1>9. NothingSkipped'
  <2>1. ASSUME NEW s \in conn.subs, NEW row \in log' \ log PROVE ~Due(row, s)
    <3>1. s \in Streams /\ conn.cursor \in Nat /\ conn.base[s] \in Nat /\ row.id \in Nat
      BY <1>2, ConnFacts
    <3>2. conn.cursor < row.id /\ conn.base[s] < row.id
      BY <1>3, <3>1 DEF CursorsInv
    <3> QED
      BY <3>1, <3>2, MaxOfTwo DEF Due
  <2>2. \A row, s : Due(row, s)' <=> Due(row, s)
    BY DEF Due, IsTimeline
  <2> QED
    BY <2>1, <2>2 DEF NothingSkipped, SentIds
<1>10. CreationsAreNew'
  BY DEF CreationsAreNew
<1>11. NothingAfterKill'
  BY <1>1, ConnFacts DEF NothingAfterKill, Kills, HistoryInv
<1> QED
  BY <1>1, <1>4, <1>5, <1>6, <1>7, <1>8, <1>9, <1>10, <1>11

(* Steps of the session that send nothing keep what was sent right.          *)
LEMMA QuietConn ==
  ASSUME SessionInv, UNCHANGED <<logVars, sent, since>>, conn.state # "closed",
         conn'.subs = conn.subs, conn.subs = {} \/ conn'.cursor = conn.cursor,
         \A s \in conn.subs : conn'.base[s] = conn.base[s]
  PROVE  /\ LogInv' /\ SentInv' /\ SentInOrder' /\ NothingSkipped' /\ CreationsAreNew' /\ NothingAfterKill'
         /\ \A n : Seen(n) => Seen(n)'
<1> USE DEF SessionInv
<1>1. LogInv'
  BY DEF LogInv, LogTypeOK, OrderHeld, RowsInv, logVars
<1>2. SentInv' /\ SentInOrder'
  BY DEF SentInv, SentInOrder, logVars
<1>3. NothingSkipped'
  <2>1. \A s \in conn.subs, row \in log : Due(row, s)' <=> Due(row, s)
    BY DEF Due, IsTimeline
  <2> QED
    BY <2>1 DEF NothingSkipped, SentIds, logVars
<1>4. CreationsAreNew' /\ NothingAfterKill'
  BY DEF CreationsAreNew, NothingAfterKill, Kills, logVars
<1> QED
  BY <1>1, <1>2, <1>3, <1>4 DEF Seen, logVars

(* A closed connection has no duty.                                          *)
LEMMA CloseStep ==
  ASSUME SessionInv, UNCHANGED <<logVars, since>>, conn' = Closed,
         sent' \in [Streams -> Seq(Frame)], CreationsAreNew', NothingAfterKill',
         \A s \in Streams : \A i \in 1 .. Len(sent'[s]) : sent'[s][i].row \in committed
  PROVE  SessionInv'
<1> USE DEF SessionInv
<1>1. LogInv'
  BY DEF LogInv, LogTypeOK, OrderHeld, RowsInv, logVars
<1>2. Closed \in Conn
  BY DEF Closed, Conn
<1>3. /\ conn'.state = "closed" /\ conn'.cursor = 0 /\ conn'.system = 0 /\ conn'.live = 0 /\ conn'.after = 0
      /\ conn'.subs = {} /\ conn'.established = FALSE /\ conn'.stream = NoStream
      /\ conn'.atOpen = {} /\ conn'.atSubscribe = {} /\ conn'.base = [s \in Streams |-> 0]
  BY DEF Closed
<1>4. ConnInv' /\ HistoryInv'
  BY <1>2, <1>3 DEF ConnInv, HistoryInv, Subscribing, Opened, logVars
<1>5. CursorsInv' /\ KillsInv' /\ SentInv' /\ SentInOrder' /\ NothingSkipped'
  BY <1>3 DEF CursorsInv, KillsInv, Opened, SentInv, SentInOrder, NothingSkipped, Seen
<1>6. DutyInv'
  <2>1. \A row \in log' : row.id \in Nat /\ row.id > 0
    BY LogFacts DEF logVars, LogInv, RowsInv, Distinct
  <2> QED
    BY <1>3, <2>1 DEF DutyInv, Subscribing
<1> QED
  BY <1>1, <1>4, <1>5, <1>6

(* A session that ends without sending anything.                             *)
LEMMA JustClose ==
  ASSUME SessionInv, Close
  PROVE  SessionInv'
<1>1. UNCHANGED <<logVars, sent, since>> /\ conn' = Closed
  BY DEF Close, Become
<1>2. CreationsAreNew' /\ NothingAfterKill'
  BY <1>1 DEF SessionInv, CreationsAreNew, NothingAfterKill, Kills, logVars
<1> QED
  BY <1>1, <1>2, CloseStep DEF SessionInv, ConnInv, HistoryInv

(* The upgrade: the cursor is read between two authentications, so a kill    *)
(* that is committed before it is read is found by the second.               *)
LEMMA AuthenticateStep ==
  ASSUME SessionInv, Authenticate
  PROVE  SessionInv'
<1> USE DEF SessionInv
<1>1. CASE Revoked
  BY <1>1, JustClose DEF Authenticate
<1>2. CASE ~Revoked
  <2>1. /\ UNCHANGED <<logVars, sent, since>> /\ conn.state = "upgrading"
        /\ conn' = [conn EXCEPT !.state = "authenticated"]
    BY <1>2 DEF Authenticate, Become
  <2>2. /\ conn' \in Conn /\ conn'.state = "authenticated"
        /\ conn'.cursor = conn.cursor /\ conn'.system = conn.system /\ conn'.live = conn.live
        /\ conn'.after = conn.after /\ conn'.subs = conn.subs /\ conn'.base = conn.base
        /\ conn'.established = conn.established /\ conn'.stream = conn.stream
        /\ conn'.atOpen = conn.atOpen /\ conn'.atSubscribe = conn.atSubscribe
    BY <2>1 DEF ConnInv, Conn
  <2>3. /\ LogInv' /\ SentInv' /\ SentInOrder' /\ NothingSkipped' /\ CreationsAreNew' /\ NothingAfterKill'
        /\ \A n : Seen(n) => Seen(n)'
    BY <2>1, <2>2, QuietConn
  <2>4. ConnInv' /\ HistoryInv' /\ CursorsInv' /\ KillsInv' /\ DutyInv'
    BY <2>1, <2>2, <2>3 DEF ConnInv, HistoryInv, CursorsInv, KillsInv, DutyInv, Subscribing, Opened, logVars
  <2> QED
    BY <2>3, <2>4
<1> QED
  BY <1>1, <1>2

(* All that the log holds is behind the cursor of a new connection.          *)
LEMMA ReadCursorStep ==
  ASSUME SessionInv, ReadCursor
  PROVE  SessionInv'
<1> USE DEF SessionInv
<1>1. /\ UNCHANGED <<logVars, sent, since>> /\ conn.state = "authenticated"
      /\ conn' = [conn EXCEPT !.state = "cursor read", !.cursor = StreamCursor,
                              !.system = StreamCursor, !.live = StreamCursor, !.atOpen = committed]
  BY DEF ReadCursor, Become
<1>2. StreamCursor \in Nat /\ Seen(StreamCursor) /\ \A row \in log : row.id <= StreamCursor /\ row \in committed
  BY CursorFacts, LogFacts
<1>3. committed \subseteq Row
  BY LogFacts
<1>4. /\ conn' \in Conn /\ conn'.state = "cursor read"
      /\ conn'.cursor = StreamCursor /\ conn'.system = StreamCursor /\ conn'.live = StreamCursor
      /\ conn'.after = conn.after /\ conn'.subs = conn.subs /\ conn'.base = conn.base
      /\ conn'.established = conn.established /\ conn'.stream = conn.stream
      /\ conn'.atOpen = committed /\ conn'.atSubscribe = conn.atSubscribe
  BY <1>1, <1>2, <1>3 DEF ConnInv, Conn
<1>5. conn.subs = {}
  BY <1>1 DEF ConnInv, Opened
<1>6. /\ LogInv' /\ SentInv' /\ SentInOrder' /\ NothingSkipped' /\ CreationsAreNew' /\ NothingAfterKill'
      /\ \A n : Seen(n) => Seen(n)'
  BY <1>1, <1>4, <1>5, QuietConn
<1>7. ConnInv' /\ HistoryInv' /\ CursorsInv'
  BY <1>1, <1>2, <1>4, <1>6 DEF ConnInv, HistoryInv, CursorsInv, Subscribing, Opened, logVars
<1>8. KillsInv' /\ DutyInv'
  BY <1>1, <1>2, <1>4 DEF KillsInv, DutyInv, Subscribing, Opened, logVars
<1> QED
  BY <1>6, <1>7, <1>8

(* A token that is not revoked by now has its kill ahead of the cursor.      *)
LEMMA AuthenticateAgainStep ==
  ASSUME SessionInv, AuthenticateAgain
  PROVE  SessionInv'
<1> USE DEF SessionInv
<1>1. CASE Revoked
  BY <1>1, JustClose DEF AuthenticateAgain
<1>2. CASE ~Revoked
  <2>1. /\ UNCHANGED <<logVars, sent, since>> /\ conn.state = "cursor read"
        /\ conn' = [conn EXCEPT !.state = "open"]
    BY <1>2 DEF AuthenticateAgain, Become
  <2>2. /\ conn' \in Conn /\ conn'.state = "open"
        /\ conn'.cursor = conn.cursor /\ conn'.system = conn.system /\ conn'.live = conn.live
        /\ conn'.after = conn.after /\ conn'.subs = conn.subs /\ conn'.base = conn.base
        /\ conn'.established = conn.established /\ conn'.stream = conn.stream
        /\ conn'.atOpen = conn.atOpen /\ conn'.atSubscribe = conn.atSubscribe
    BY <2>1 DEF ConnInv, Conn
  <2>3. /\ LogInv' /\ SentInv' /\ SentInOrder' /\ NothingSkipped' /\ CreationsAreNew' /\ NothingAfterKill'
        /\ \A n : Seen(n) => Seen(n)'
    BY <2>1, <2>2, QuietConn
  <2>4. ConnInv' /\ HistoryInv' /\ CursorsInv' /\ DutyInv'
    BY <2>1, <2>2, <2>3 DEF ConnInv, HistoryInv, CursorsInv, DutyInv, Subscribing, Opened, logVars
  <2>5. KillsInv'
    BY <1>2, <2>1, LogFacts DEF KillsInv, Kills, Revoked, logVars
  <2> QED
    BY <2>3, <2>4, <2>5
<1> QED
  BY <1>1, <1>2

-----------------------------------------------------------------------------
(* A subscribe command fixes what its subscription is owed.                  *)
LEMMA SubscribeStep ==
  ASSUME SessionInv, NEW s \in Streams, Subscribe(s)
  PROVE  SessionInv'
<1> USE DEF SessionInv
<1>1. /\ UNCHANGED <<logVars, sent, since>> /\ conn.state = "open" /\ s \notin conn.subs
      /\ conn' = [conn EXCEPT !.state = "authorizing", !.stream = s, !.asked = @ + 1,
                    !.after = IF s \in Timelines THEN CreateAfter ELSE 0,
                    !.atSubscribe = IF conn.established THEN committed ELSE conn.atOpen]
  BY DEF Subscribe, Become
<1>2. StreamCursor \in Nat /\ Seen(StreamCursor) /\ \A row \in log : row.id <= StreamCursor /\ row \in committed
  BY CursorFacts, LogFacts
<1>3. PICK owed \in SUBSET Row :
        /\ owed = IF conn.established THEN committed ELSE conn.atOpen
        /\ owed \subseteq committed
  BY LogFacts DEF HistoryInv
<1>4. PICK after \in Nat :
        /\ after = IF s \in Timelines THEN CreateAfter ELSE 0
        /\ Seen(after)
        /\ s \in Timelines => after = IF conn.established THEN StreamCursor ELSE conn.live
  BY <1>2, ConnFacts DEF CreateAfter, CursorsInv, Seen
<1>5. /\ conn' \in Conn /\ conn'.state = "authorizing"
      /\ conn'.cursor = conn.cursor /\ conn'.system = conn.system /\ conn'.live = conn.live
      /\ conn'.after = after /\ conn'.subs = conn.subs /\ conn'.base = conn.base
      /\ conn'.established = conn.established /\ conn'.stream = s
      /\ conn'.atOpen = conn.atOpen /\ conn'.atSubscribe = owed
  <2>1. conn' = [conn EXCEPT !.state = "authorizing", !.stream = s, !.asked = conn.asked + 1,
                             !.after = after, !.atSubscribe = owed]
    BY <1>1, <1>3, <1>4
  <2>2. conn.asked + 1 \in Nat
    BY ConnFacts
  <2> QED
    BY <2>1, <2>2 DEF ConnInv, Conn
<1>6. /\ LogInv' /\ SentInv' /\ SentInOrder' /\ NothingSkipped' /\ CreationsAreNew' /\ NothingAfterKill'
      /\ \A n : Seen(n) => Seen(n)'
  BY <1>1, <1>5, QuietConn
<1>7. ConnInv' /\ HistoryInv'
  BY <1>1, <1>3, <1>5, ConnFacts DEF ConnInv, HistoryInv, Subscribing, Opened, logVars
<1>8. CursorsInv' /\ KillsInv'
  BY <1>1, <1>4, <1>5, <1>6 DEF CursorsInv, KillsInv, Opened, logVars
<1>9. DutyInv'
  <2>1. /\ \A row \in log \ owed : row.id > conn.cursor
        /\ s \in Timelines => \A row \in log : row \in owed <=> row.id <= after
    <3>1. CASE conn.established
      BY <1>2, <1>3, <1>4, <3>1
    <3>2. CASE ~conn.established
      <4>1. owed = conn.atOpen /\ conn.cursor = conn.live /\ conn.live \in Nat
        BY <1>3, <3>2, ConnFacts DEF CursorsInv
      <4>2. s \in Timelines => after = conn.live
        BY <1>4, <3>2
      <4>3. \A row \in log : row.id \in Nat /\ (row \in conn.atOpen <=> row.id <= conn.live)
        BY LogFacts DEF DutyInv
      <4> QED
        BY <4>1, <4>2, <4>3
    <3> QED
      BY <3>1, <3>2
  <2>2. log' = log /\ \A row \in log : row \in conn.atOpen <=> row.id <= conn.live
    BY <1>1 DEF DutyInv, logVars
  <2>3. \A row \in log' : row \in conn'.atOpen <=> row.id <= conn'.live
    BY <1>5, <2>2
  <2>4. /\ \A row \in log' \ conn'.atSubscribe : row.id > conn'.cursor
        /\ conn'.stream \in Timelines => \A row \in log' : row \in conn'.atSubscribe <=> row.id <= conn'.after
    BY <1>5, <2>1, <2>2
  <2>5. conn'.state # "replaying"
    BY <1>5
  <2> QED
    BY <2>3, <2>4, <2>5 DEF DutyInv
<1> QED
  BY <1>6, <1>7, <1>8, <1>9

(* A subscription that is denied leaves nothing.                             *)
LEMMA DeniedStep ==
  ASSUME SessionInv, Denied
  PROVE  SessionInv'
<1> USE DEF SessionInv
<1>1. /\ UNCHANGED <<logVars, sent, since>> /\ conn.state = "authorizing"
      /\ conn' = [conn EXCEPT !.state = "open", !.stream = NoStream]
  BY DEF Denied, Become
<1>2. /\ conn' \in Conn /\ conn'.state = "open"
      /\ conn'.cursor = conn.cursor /\ conn'.system = conn.system /\ conn'.live = conn.live
      /\ conn'.after = conn.after /\ conn'.subs = conn.subs /\ conn'.base = conn.base
      /\ conn'.established = conn.established /\ conn'.stream = NoStream
      /\ conn'.atOpen = conn.atOpen /\ conn'.atSubscribe = conn.atSubscribe
  BY <1>1 DEF ConnInv, Conn
<1>3. /\ LogInv' /\ SentInv' /\ SentInOrder' /\ NothingSkipped' /\ CreationsAreNew' /\ NothingAfterKill'
      /\ \A n : Seen(n) => Seen(n)'
  BY <1>1, <1>2, QuietConn
<1>4. ConnInv' /\ HistoryInv'
  BY <1>1, <1>2, ConnFacts DEF ConnInv, HistoryInv, Subscribing, Opened, logVars
<1>5. CursorsInv' /\ KillsInv' /\ DutyInv'
  BY <1>1, <1>2, <1>3 DEF CursorsInv, KillsInv, DutyInv, Subscribing, Opened, logVars
<1> QED
  BY <1>3, <1>4, <1>5

(* The baseline is not behind the cursor of the connection, as far as the    *)
(* log goes.                                                                 *)
LEMMA ReadThroughStep ==
  ASSUME SessionInv, ReadThrough
  PROVE  SessionInv'
<1> USE DEF SessionInv
<1>1. /\ UNCHANGED <<logVars, sent, since>> /\ conn.state = "authorizing"
      /\ conn' = [conn EXCEPT !.state = "replaying",
                    !.base[conn.stream] = IF conn.stream \in Timelines THEN StreamCursor ELSE 0]
  BY DEF ReadThrough, Become
<1>2. StreamCursor \in Nat /\ Seen(StreamCursor) /\ \A row \in log : row.id <= StreamCursor
  BY CursorFacts
<1>3. conn.stream \in Streams /\ conn.stream \notin conn.subs
  BY <1>1, ConnFacts DEF ConnInv, Subscribing
<1>4. PICK through \in Nat :
        /\ through = IF conn.stream \in Timelines THEN StreamCursor ELSE 0
        /\ Seen(through)
  BY <1>2 DEF Seen
<1>5. /\ conn' \in Conn /\ conn'.state = "replaying"
      /\ conn'.cursor = conn.cursor /\ conn'.system = conn.system /\ conn'.live = conn.live
      /\ conn'.after = conn.after /\ conn'.subs = conn.subs
      /\ conn'.base = [conn.base EXCEPT ![conn.stream] = through]
      /\ conn'.established = conn.established /\ conn'.stream = conn.stream
      /\ conn'.atOpen = conn.atOpen /\ conn'.atSubscribe = conn.atSubscribe
  <2>1. conn' = [conn EXCEPT !.state = "replaying", !.base = [conn.base EXCEPT ![conn.stream] = through]]
    <3>1. conn' = [conn EXCEPT !.state = "replaying", !.base[conn.stream] = through]
      BY <1>1, <1>4, Zenon
    <3>2. conn \in Conn /\ [conn EXCEPT !.state = "replaying"].base = conn.base
      BY DEF ConnInv, Conn
    <3> QED
      BY <3>1, <3>2
  <2>2. [conn.base EXCEPT ![conn.stream] = through] \in [Streams -> Nat]
    BY <1>3, ConnFacts
  <2> QED
    BY <2>1, <2>2 DEF ConnInv, Conn
<1>6. conn'.base[conn.stream] = through /\ \A s \in Streams : s # conn.stream => conn'.base[s] = conn.base[s]
  BY <1>3, <1>5, ConnFacts
<1>7. /\ LogInv' /\ SentInv' /\ SentInOrder' /\ NothingSkipped' /\ CreationsAreNew' /\ NothingAfterKill'
      /\ \A n : Seen(n) => Seen(n)'
  BY <1>1, <1>3, <1>5, <1>6, ConnFacts, QuietConn
<1>8. ConnInv' /\ HistoryInv'
  BY <1>1, <1>5 DEF ConnInv, HistoryInv, Subscribing, Opened, logVars
<1>9. CursorsInv' /\ KillsInv'
  BY <1>1, <1>4, <1>5, <1>6, <1>7 DEF CursorsInv, KillsInv, Opened, logVars
<1>10. DutyInv'
  BY <1>1, <1>2, <1>4, <1>5, <1>6 DEF DutyInv, Subscribing, logVars
<1> QED
  BY <1>7, <1>8, <1>9, <1>10

(* What is replayed is behind the baseline: every row behind create_after,   *)
(* and of the others only rows that create nothing.                          *)
LEMMA ReplayedFacts ==
  ASSUME LogInv, NEW s
  PROVE  /\ Replayed(s) \subseteq log
         /\ \A row \in Replayed(s) : row.id <= conn.base[s]
         /\ \A row \in Replayed(s) : row.event.kind = "create" => row.id > conn.after
         /\ \A row \in log :
              IsTimeline(row) /\ row.id <= conn.base[s] /\ row.id > conn.after => row \in Replayed(s)
BY DEF Replayed, Newest

(* A replay sends what its subscription is owed so far: rows behind the      *)
(* baseline that its command preceded.                                       *)
LEMMA ReplayStep ==
  ASSUME SessionInv, Replay
  PROVE  SessionInv'
<1> USE DEF SessionInv
<1>1. PICK s \in Streams : s = conn.stream /\ s \notin conn.subs
  BY ConnFacts DEF Replay, ConnInv, Subscribing
<1>2. PICK frames : frames = IF s \in Timelines THEN Frames(Replayed(s), FALSE) ELSE <<>>
  OBVIOUS
<1>3. /\ UNCHANGED logVars /\ conn.state = "replaying"
      /\ sent' = [sent EXCEPT ![s] = frames] /\ since' = [since EXCEPT ![s] = conn.atSubscribe]
      /\ conn' = [conn EXCEPT !.state = "open", !.stream = NoStream, !.subs = conn.subs \cup {s},
                              !.established = TRUE]
  BY <1>1, <1>2 DEF Replay
<1>4. log' = log /\ committed' = committed
  BY <1>3 DEF logVars
<1>5. /\ conn' \in Conn /\ conn'.state = "open"
      /\ conn'.cursor = conn.cursor /\ conn'.system = conn.system /\ conn'.live = conn.live
      /\ conn'.after = conn.after /\ conn'.subs = conn.subs \cup {s} /\ conn'.base = conn.base
      /\ conn'.established = TRUE /\ conn'.stream = NoStream
      /\ conn'.atOpen = conn.atOpen /\ conn'.atSubscribe = conn.atSubscribe
  BY <1>1, <1>3 DEF ConnInv, Conn
<1>6. /\ sent'[s] = frames /\ since'[s] = conn.atSubscribe
      /\ \A t \in Streams : t # s => sent'[t] = sent[t] /\ since'[t] = since[t]
      /\ since' \in [Streams -> SUBSET Row]
  BY <1>1, <1>3, ConnFacts DEF ConnInv
<1>7. /\ Replayed(s) \subseteq log /\ Replayed(s) \subseteq committed
      /\ \A row \in Replayed(s) : row.id <= conn.base[s]
      /\ \A row \in Replayed(s) : row.event.kind = "create" => row.id > conn.after
      /\ \A row \in log :
           IsTimeline(row) /\ row.id <= conn.base[s] /\ row.id > conn.after => row \in Replayed(s)
  BY ReplayedFacts, LogFacts
<1>8. /\ frames \in Seq(Frame)
      /\ \A i \in 1 .. Len(frames) : /\ s \in Timelines /\ frames[i].row \in Replayed(s)
                                     /\ frames[i].live = FALSE
      /\ \A i, j \in 1 .. Len(frames) : i < j => frames[i].row.id < frames[j].row.id
      /\ s \in Timelines => \A row \in Replayed(s) : \E i \in 1 .. Len(frames) : frames[i].row = row
  <2>1. CASE s \in Timelines
    <3>1. Distinct(Replayed(s)) /\ Replayed(s) \subseteq Row
      BY <1>7, LogFacts
    <3>2. PICK live \in BOOLEAN : live = FALSE
      OBVIOUS
    <3>3. frames = Frames(Replayed(s), live)
      BY <1>2, <2>1, <3>2
    <3> QED
      BY <2>1, <3>1, <3>2, <3>3, FramesFacts
  <2>2. CASE s \notin Timelines
    <3>1. frames = <<>>
      BY <1>2, <2>2
    <3> QED
      BY <2>2, <3>1, ShortSequences
  <2> QED
    BY <2>1, <2>2
<1>9. LogInv'
  BY <1>3 DEF LogInv, LogTypeOK, OrderHeld, RowsInv, logVars
<1>10. ConnInv' /\ HistoryInv'
  <2>1. sent' \in [Streams -> Seq(Frame)]
    BY <1>1, <1>3, <1>8 DEF ConnInv
  <2>2. ConnInv'
    BY <1>1, <1>5, <1>6, <2>1, ConnFacts DEF ConnInv, Subscribing, Opened
  <2>3. \A i \in 1 .. Len(sent'[s]) : sent'[s][i].row \in committed
    BY <1>6, <1>7, <1>8
  <2>4. since'[s] \subseteq committed
    BY <1>6 DEF HistoryInv
  <2> QED
    BY <1>4, <1>5, <1>6, <2>2, <2>3, <2>4 DEF HistoryInv
<1>11. CursorsInv' /\ KillsInv'
  BY <1>3, <1>4, <1>5 DEF CursorsInv, KillsInv, Kills, Opened, Seen
<1>12. DutyInv'
  BY <1>4, <1>5 DEF DutyInv, Subscribing
<1>13. SentInv'
  <2>1. \A i \in 1 .. Len(sent'[s]) : s \in Timelines /\ sent'[s][i].row.id <= conn.base[s]
    BY <1>6, <1>7, <1>8
  <2>2. s \in Timelines => \A row \in since'[s] \cap log : row.id <= conn.base[s]
    BY <1>1, <1>3, <1>6 DEF DutyInv
  <2> QED
    BY <1>4, <1>5, <1>6, <2>1, <2>2, ConnFacts DEF SentInv
<1>14. SentInOrder'
  <2>1. \A t \in conn.subs : t # s /\ t \in Streams
    BY <1>1, ConnFacts
  <2> QED
    BY <1>5, <1>6, <1>8, <2>1 DEF SentInOrder
<1>15. NothingSkipped'
  <2>1. \A t, row : Due(row, t)' <=> Due(row, t)
    BY <1>5 DEF Due, IsTimeline
  <2>2. ASSUME NEW row \in log \ conn.atSubscribe, Due(row, s) PROVE row.id \in SentIds(s)'
    <3>1. row.id > conn.cursor /\ row.id \in Nat /\ conn.cursor \in Nat /\ conn.base[s] \in Nat
      BY <1>1, <1>3, ConnFacts, LogFacts DEF DutyInv, Subscribing
    <3>2. s \in Timelines /\ IsTimeline(row) /\ row.id <= conn.base[s]
      BY <2>2, <3>1, MaxOfTwo DEF Due
    <3>3. row.id > conn.after
      BY <1>1, <1>3, <3>1, <3>2, ConnFacts DEF DutyInv, Subscribing
    <3>4. PICK i \in 1 .. Len(frames) : frames[i].row = row
      BY <1>7, <1>8, <3>2, <3>3
    <3> QED
      BY <1>6, <3>4 DEF SentIds
  <2>3. ASSUME NEW t \in conn.subs, NEW row \in log \ since[t], Due(row, t) PROVE row.id \in SentIds(t)'
    <3>1. t \in Streams /\ t # s
      BY <1>1, ConnFacts
    <3>2. row.id \in SentIds(t)
      BY <1>3, <2>3 DEF NothingSkipped
    <3> QED
      BY <1>6, <3>1, <3>2 DEF SentIds
  <2>4. \A t \in conn.subs : t # s /\ t \in Streams
    BY <1>1, ConnFacts
  <2> QED
    BY <1>4, <1>5, <1>6, <2>1, <2>2, <2>3, <2>4 DEF NothingSkipped
<1>16. CreationsAreNew'
  <2>1. ASSUME NEW i \in 1 .. Len(frames), frames[i].row.event.kind = "create"
        PROVE  frames[i].row \notin conn.atSubscribe
    <3>1. frames[i].row \in log /\ frames[i].row.id > conn.after /\ s \in Timelines
      BY <1>7, <1>8, <2>1
    <3>2. conn.after \in Nat /\ frames[i].row.id \in Nat
      BY <3>1, ConnFacts, LogFacts
    <3> QED
      BY <1>1, <1>3, <3>1, <3>2 DEF DutyInv, Subscribing
  <2>2. \A t \in Timelines : t \in Streams
    BY DEF Streams
  <2> QED
    BY <1>6, <2>1, <2>2 DEF CreationsAreNew
<1>17. NothingAfterKill'
  BY <1>4, <1>6, <1>8 DEF NothingAfterKill, Kills
<1> QED
  BY <1>9, <1>10, <1>11, <1>12, <1>13, <1>14, <1>15, <1>16, <1>17

(* The other subscriptions keep what they were sent.                         *)
LEMMA UnsubscribeStep ==
  ASSUME SessionInv, NEW s \in Streams, Unsubscribe(s)
  PROVE  SessionInv'
<1> USE DEF SessionInv
<1>1. /\ UNCHANGED logVars /\ conn.state = "open" /\ s \in conn.subs
      /\ sent' = [sent EXCEPT ![s] = <<>>] /\ since' = [since EXCEPT ![s] = {}]
      /\ conn' = [conn EXCEPT !.subs = @ \ {s}, !.base[s] = 0]
  BY DEF Unsubscribe
<1>2. log' = log /\ committed' = committed
  BY <1>1 DEF logVars
<1>3. /\ conn' \in Conn /\ conn'.state = "open"
      /\ conn'.cursor = conn.cursor /\ conn'.system = conn.system /\ conn'.live = conn.live
      /\ conn'.after = conn.after /\ conn'.subs = conn.subs \ {s}
      /\ conn'.base = [conn.base EXCEPT ![s] = 0]
      /\ conn'.established = conn.established /\ conn'.stream = conn.stream
      /\ conn'.atOpen = conn.atOpen /\ conn'.atSubscribe = conn.atSubscribe
  <2>1. [conn.base EXCEPT ![s] = 0] \in [Streams -> Nat]
    BY ConnFacts
  <2>2. conn \in Conn /\ [conn EXCEPT !.subs = @ \ {s}].base = conn.base
    BY DEF ConnInv, Conn
  <2>3. conn' = [conn EXCEPT !.subs = conn.subs \ {s}, !.base = [conn.base EXCEPT ![s] = 0]]
    BY <1>1, <2>2
  <2> QED
    BY <1>1, <2>1, <2>3, ZenonT(60) DEF ConnInv, Conn
<1>4. conn'.base[s] = 0 /\ \A t \in Streams : t # s => conn'.base[t] = conn.base[t]
  BY <1>3, ConnFacts
<1>5. /\ sent'[s] = <<>> /\ since'[s] = {}
      /\ \A t \in Streams : t # s => sent'[t] = sent[t] /\ since'[t] = since[t]
      /\ since' \in [Streams -> SUBSET Row] /\ sent' \in [Streams -> Seq(Frame)]
  BY <1>1, ShortSequences DEF ConnInv
<1>6. Len(<<>>) = 0 /\ \A t \in conn'.subs : t \in conn.subs /\ t \in Streams /\ t # s
  BY <1>3, ConnFacts, ShortSequences
<1>7. LogInv'
  BY <1>1 DEF LogInv, LogTypeOK, OrderHeld, RowsInv, logVars
<1>8. ConnInv'
  BY <1>1, <1>3, <1>5, <1>6, ConnFacts DEF ConnInv, Subscribing, Opened
<1>9. HistoryInv'
  BY <1>2, <1>3, <1>5, <1>6 DEF HistoryInv
<1>10. CursorsInv' /\ KillsInv'
  BY <1>1, <1>2, <1>3, <1>4, ConnFacts DEF CursorsInv, KillsInv, Kills, Opened, Seen
<1>11. DutyInv'
  BY <1>1, <1>2, <1>3 DEF DutyInv, Subscribing
<1>12. SentInv' /\ SentInOrder'
  BY <1>2, <1>3, <1>4, <1>5, <1>6 DEF SentInv, SentInOrder
<1>13. NothingSkipped'
  <2>1. \A t \in conn'.subs, row \in log : Due(row, t)' <=> Due(row, t)
    BY <1>3, <1>4, <1>6 DEF Due, IsTimeline
  <2>2. \A t \in conn'.subs : SentIds(t)' = SentIds(t)
    BY <1>5, <1>6 DEF SentIds
  <2> QED
    BY <1>1, <1>2, <1>5, <1>6, <2>1, <2>2 DEF NothingSkipped
<1>14. CreationsAreNew' /\ NothingAfterKill'
  <2>1. \A t \in Timelines : t \in Streams
    BY DEF Streams
  <2>2. CreationsAreNew'
    BY <1>5, <1>6, <2>1 DEF CreationsAreNew
  <2>3. ASSUME NEW t \in Streams, NEW i \in 1 .. Len(sent'[t]), NEW k \in log, k.event.kind = "kill",
               sent'[t][i].live
        PROVE  sent'[t][i].row.id < k.id
    <3>1. t # s /\ sent'[t] = sent[t]
      BY <1>5, <1>6, <2>3
    <3> QED
      BY <2>3, <3>1 DEF NothingAfterKill, Kills
  <2> QED
    BY <1>2, <2>2, <2>3 DEF NothingAfterKill, Kills
<1> QED
  BY <1>7, <1>8, <1>9, <1>10, <1>11, <1>12, <1>13, <1>14

-----------------------------------------------------------------------------
(* A cursor that moves to the end of a batch without a kill passes no kill.  *)
LEMMA NextCursor ==
  ASSUME LogInv, NEW c \in Nat, Seen(c), \A k \in Kills(log) : c < k.id, Kills(EventsAfter(c)) = {}
  PROVE  \E next \in Nat :
           /\ next = IF EventsAfter(c) = {} THEN c ELSE Max({row.id : row \in EventsAfter(c)})
           /\ Seen(next) /\ c <= next
           /\ \A k \in Kills(log) : next < k.id
           /\ \A row \in EventsAfter(c) : row.id <= next
           /\ \A row \in log : row.id > c /\ row.id <= next => row \in EventsAfter(c)
<1>1. CASE EventsAfter(c) = {}
  <2>1. \A row \in log : ~(row.id > c /\ row.id <= c)
    BY LogFacts
  <2> QED
    BY <1>1, <2>1
<1>2. CASE EventsAfter(c) # {}
  <2>1. /\ EventsAfter(c) \subseteq log /\ \A row \in EventsAfter(c) : row.id > c
        /\ \A row \in log, read \in EventsAfter(c) : row.id > c /\ row.id <= read.id => row \in EventsAfter(c)
    BY BatchFacts
  <2>2. /\ EventsAfter(c) \subseteq committed /\ Distinct(EventsAfter(c))
        /\ \A row \in EventsAfter(c) : row.id \in Nat
    BY <2>1, LogFacts
  <2>3. PICK last \in EventsAfter(c) :
          Max({row.id : row \in EventsAfter(c)}) = last.id /\ \A row \in EventsAfter(c) : row.id <= last.id
    BY <1>2, <2>2, MaxFacts
  <2>4. last.id \in Nat /\ Seen(last.id) /\ c <= last.id
    BY <2>1, <2>2, <2>3 DEF Seen
  <2>5. \A k \in Kills(log) : last.id < k.id
    <3>1. ASSUME NEW k \in Kills(log), k.id <= last.id PROVE FALSE
      <4>1. k \in log /\ k.event.kind = "kill" /\ k.id > c
        BY <3>1, LogFacts DEF Kills
      <4>2. k \in EventsAfter(c)
        BY <2>1, <2>3, <3>1, <4>1
      <4> QED
        BY <4>1, <4>2 DEF Kills
    <3>2. \A k \in Kills(log) : k.id \in Nat
      BY LogFacts DEF Kills
    <3> QED
      BY <2>4, <3>1, <3>2
  <2> QED
    BY <1>2, <2>1, <2>3, <2>4, <2>5
<1> QED
  BY <1>1, <1>2

(* The system cursor moves to the end of its batch, or the session ends.     *)
LEMMA PollSystemStep ==
  ASSUME SessionInv, PollSystem
  PROVE  SessionInv'
<1> USE DEF SessionInv
<1>1. CASE Kills(EventsAfter(conn.system)) # {}
  BY <1>1, JustClose DEF PollSystem
<1>2. CASE Kills(EventsAfter(conn.system)) = {}
  <2>1. PICK next \in Nat :
          /\ next = IF EventsAfter(conn.system) = {} THEN conn.system
                    ELSE Max({row.id : row \in EventsAfter(conn.system)})
          /\ Seen(next) /\ conn.system <= next
          /\ \A k \in Kills(log) : next < k.id
    <3>1. \A k \in Kills(log) : conn.system < k.id
      BY DEF KillsInv, Opened, PollSystem
    <3>2. conn.system \in Nat /\ Seen(conn.system)
      BY ConnFacts DEF CursorsInv
    <3> QED
      BY <1>2, <3>1, <3>2, NextCursor
  <2>2. PICK state \in {"open", "polling"} :
          /\ state = IF conn.subs = {} THEN "open" ELSE "polling"
          /\ UNCHANGED <<logVars, sent, since>> /\ conn.state = "open"
          /\ conn' = [conn EXCEPT !.system = next, !.state = state]
    BY <1>2, <2>1 DEF PollSystem, Become
  <2>3. /\ conn' \in Conn /\ conn'.state = state
        /\ conn'.cursor = conn.cursor /\ conn'.system = next /\ conn'.live = conn.live
        /\ conn'.after = conn.after /\ conn'.subs = conn.subs /\ conn'.base = conn.base
        /\ conn'.established = conn.established /\ conn'.stream = conn.stream
        /\ conn'.atOpen = conn.atOpen /\ conn'.atSubscribe = conn.atSubscribe
    BY <2>2 DEF ConnInv, Conn
  <2>4. /\ LogInv' /\ SentInv' /\ SentInOrder' /\ NothingSkipped' /\ CreationsAreNew' /\ NothingAfterKill'
        /\ \A n : Seen(n) => Seen(n)'
    BY <2>2, <2>3, QuietConn
  <2>5. ConnInv' /\ HistoryInv'
    BY <2>2, <2>3, ConnFacts DEF ConnInv, HistoryInv, Subscribing, Opened, logVars
  <2>6. CursorsInv' /\ KillsInv'
    BY <2>1, <2>2, <2>3, <2>4, ConnFacts DEF CursorsInv, KillsInv, Kills, Opened, logVars
  <2>7. DutyInv'
    BY <2>2, <2>3 DEF DutyInv, Subscribing, logVars
  <2> QED
    BY <2>4, <2>5, <2>6, <2>7
<1> QED
  BY <1>1, <1>2

(* Frames behind frames.                                                     *)
Joined(a, b, c) == c = a \o b

LEMMA Appended ==
  ASSUME NEW a \in Seq(Frame), NEW b \in Seq(Frame), NEW c, Joined(a, b, c)
  PROVE  /\ c \in Seq(Frame)
         /\ \A i \in 1 .. Len(c) :
              \/ i \in 1 .. Len(a) /\ c[i] = a[i]
              \/ i > Len(a) /\ i - Len(a) \in 1 .. Len(b) /\ c[i] = b[i - Len(a)]
         /\ \A i \in 1 .. Len(a) : i \in 1 .. Len(c) /\ c[i] = a[i]
         /\ \A i \in 1 .. Len(b) : \E j \in 1 .. Len(c) : c[j] = b[i]
<1> USE DEF Joined
<1>1. \A i \in 1 .. Len(b) : Len(a) + i \in 1 .. Len(c) /\ c[Len(a) + i] = b[i]
  OBVIOUS
<1>2. \A i \in 1 .. Len(b) : \E j \in 1 .. Len(c) : c[j] = b[i]
  BY <1>1
<1>3. /\ c \in Seq(Frame)
      /\ \A i \in 1 .. Len(a) : i \in 1 .. Len(c) /\ c[i] = a[i]
  OBVIOUS
<1>4. \A i \in 1 .. Len(c) :
        \/ i \in 1 .. Len(a) /\ c[i] = a[i]
        \/ i > Len(a) /\ i - Len(a) \in 1 .. Len(b) /\ c[i] = b[i - Len(a)]
  OBVIOUS
<1> QED
  BY <1>2, <1>3, <1>4

(* What a poll sends to each stream.                                         *)
LEMMA PollSends ==
  ASSUME SessionInv, PollPending
  PROVE  \E added \in [Streams -> Seq(Frame)] :
           /\ sent' \in [Streams -> Seq(Frame)]
           /\ \A s \in Streams : sent'[s] = sent[s] \o added[s]
           /\ \A s \in Streams : \A i \in 1 .. Len(added[s]) :
                /\ s \in conn.subs /\ added[s][i].row \in UpToKill(EventsAfter(conn.cursor))
                /\ Goes(added[s][i].row, s)
           /\ \A s \in Streams : \A i, j \in 1 .. Len(added[s]) :
                i < j => added[s][i].row.id < added[s][j].row.id
           /\ \A s \in conn.subs : \A row \in UpToKill(EventsAfter(conn.cursor)) :
                Goes(row, s) => \E i \in 1 .. Len(added[s]) : added[s][i].row = row
<1> DEFINE read == UpToKill(EventsAfter(conn.cursor))
           going(s) == {row \in read : Goes(row, s)}
<1>1. PICK added : added = [s \in Streams |-> IF s \in conn.subs THEN Frames(going(s), TRUE) ELSE <<>>]
  OBVIOUS
<1>2. read \subseteq committed
  BY BatchFacts, LogFacts, ConnFacts DEF SessionInv, UpToKill
<1>3. ASSUME NEW s \in conn.subs
      PROVE  /\ added[s] \in Seq(Frame)
             /\ \A i \in 1 .. Len(added[s]) : added[s][i].row \in going(s)
             /\ \A i, j \in 1 .. Len(added[s]) : i < j => added[s][i].row.id < added[s][j].row.id
             /\ \A row \in going(s) : \E i \in 1 .. Len(added[s]) : added[s][i].row = row
  <2>1. Distinct(going(s)) /\ going(s) \subseteq Row
    BY <1>2, LogFacts DEF SessionInv
  <2>2. s \in Streams
    BY ConnFacts DEF SessionInv
  <2>3. PICK live \in BOOLEAN : live = TRUE
    OBVIOUS
  <2>4. PICK R : R = going(s)
    OBVIOUS
  <2>5. Distinct(R) /\ R \subseteq Row /\ added[s] = Frames(R, live)
    BY <1>1, <2>1, <2>2, <2>3, <2>4
  <2>6. /\ added[s] \in Seq(Frame) /\ \A i \in 1 .. Len(added[s]) : added[s][i].row \in R
        /\ \A i, j \in 1 .. Len(added[s]) : i < j => added[s][i].row.id < added[s][j].row.id
        /\ \A row \in R : \E i \in 1 .. Len(added[s]) : added[s][i].row = row
    BY <2>5, FramesFacts
  <2> HIDE DEF going
  <2> QED
    BY <2>4, <2>6
<1>4. ASSUME NEW s \in Streams, s \notin conn.subs PROVE added[s] = <<>> /\ added[s] \in Seq(Frame)
  BY <1>1, <1>4, ShortSequences
<1>5. added \in [Streams -> Seq(Frame)]
  <2>1. added = [s \in Streams |-> added[s]]
    BY <1>1
  <2> QED
    BY <1>3, <1>4, <2>1
<1>6. sent' = [s \in Streams |-> IF s \in conn.subs THEN sent[s] \o Frames(going(s), TRUE) ELSE sent[s]]
  BY DEF PollPending
<1>7. ASSUME NEW s \in Streams PROVE sent'[s] = sent[s] \o added[s] /\ sent'[s] \in Seq(Frame)
  <2>1. sent[s] \in Seq(Frame) /\ sent[s] \o <<>> = sent[s]
    BY ConnFacts DEF SessionInv
  <2>2. sent'[s] = sent[s] \o added[s]
    <3>1. CASE s \in conn.subs
      BY <1>1, <1>6, <3>1
    <3>2. CASE s \notin conn.subs
      BY <1>4, <1>6, <2>1, <3>2
    <3> QED
      BY <3>1, <3>2
  <2> QED
    BY <1>5, <2>1, <2>2, Appended
<1>8. sent' \in [Streams -> Seq(Frame)]
  <2>1. sent' = [s \in Streams |-> sent'[s]]
    BY <1>6
  <2> QED
    BY <1>7, <2>1
<1>9. ASSUME NEW s \in Streams, NEW i \in 1 .. Len(added[s])
      PROVE  s \in conn.subs /\ added[s][i].row \in read /\ Goes(added[s][i].row, s)
  <2>1. s \in conn.subs
    BY <1>4, <1>9, ShortSequences
  <2> QED
    BY <1>3, <2>1
<1>10. ASSUME NEW s \in Streams, NEW i \in 1 .. Len(added[s]), NEW j \in 1 .. Len(added[s]), i < j
       PROVE  added[s][i].row.id < added[s][j].row.id
  BY <1>3, <1>9, <1>10
<1>11. ASSUME NEW s \in conn.subs, NEW row \in read, Goes(row, s)
       PROVE  \E i \in 1 .. Len(added[s]) : added[s][i].row = row
  BY <1>3, <1>11
<1> HIDE DEF read
<1>12. \A s \in Streams : \A i \in 1 .. Len(added[s]) :
         s \in conn.subs /\ added[s][i].row \in read /\ Goes(added[s][i].row, s)
  BY <1>9
<1> USE DEF read
<1> QED
  BY <1>5, <1>7, <1>8, <1>10, <1>11, <1>12

(* A row that a poll sends is new to its subscription: it is behind the      *)
(* cursor, and behind the baseline of a timeline; and it is ahead of every   *)
(* kill that the log keeps.                                                  *)
LEMMA NewRows ==
  ASSUME SessionInv, conn.state = "polling", NEW s \in conn.subs,
         NEW row \in UpToKill(EventsAfter(conn.cursor)), Goes(row, s)
  PROVE  /\ row \in log /\ row \in EventsAfter(conn.cursor) /\ row.id \in Nat
         /\ row.id > conn.cursor /\ (s \in Timelines => row.id > conn.base[s])
         /\ row \in since[s] => s \notin Timelines
         /\ \A k \in Kills(log) : row.id < k.id
<1> USE DEF SessionInv
<1>1. /\ row \in EventsAfter(conn.cursor)
      /\ \A k \in Kills(EventsAfter(conn.cursor)) : k.id > conn.live => row.id < k.id
  BY DEF UpToKill
<1>2. conn.cursor \in Nat /\ conn.live \in Nat /\ s \in Streams /\ conn.live <= conn.cursor /\ conn.base[s] \in Nat
  BY ConnFacts DEF CursorsInv
<1>3. /\ EventsAfter(conn.cursor) \subseteq log /\ \A r \in EventsAfter(conn.cursor) : r.id > conn.cursor
      /\ \A r \in log, read \in EventsAfter(conn.cursor) :
           r.id > conn.cursor /\ r.id <= read.id => r \in EventsAfter(conn.cursor)
  BY <1>2, BatchFacts
<1>4. row \in log /\ row.id > conn.cursor /\ \A r \in log : r.id \in Nat
  BY <1>1, <1>3, LogFacts
<1>5. s \in Timelines => row.id > conn.base[s]
  BY StreamSessionAssumption DEF Goes, StreamSessionAssumption
<1>6. row \in since[s] => s \notin Timelines
  BY <1>2, <1>4, <1>5 DEF SentInv
<1>7. ASSUME NEW k \in Kills(log), ~(row.id < k.id) PROVE FALSE
  <2>1. k \in log /\ k.event.kind = "kill" /\ k.id \in Nat /\ k.id <= row.id
    BY <1>4, <1>7 DEF Kills
  <2>2. k.id > conn.cursor
    BY <1>2, <2>1 DEF KillsInv, Opened, Kills
  <2>3. k \in Kills(EventsAfter(conn.cursor))
    BY <1>1, <1>3, <2>1, <2>2 DEF Kills
  <2>4. k.id > conn.live
    BY <1>2, <2>1, <2>2
  <2> QED
    BY <1>1, <1>7, <2>3, <2>4
<1> QED
  BY <1>1, <1>4, <1>5, <1>6, <1>7

(* A poll appends new rows to what each subscription was sent, and moves the *)
(* cursor behind them; a kill in its batch ends the session instead.         *)
LEMMA PollPendingStep ==
  ASSUME SessionInv, PollPending
  PROVE  SessionInv'
<1> DEFINE batch == EventsAfter(conn.cursor)
<1>1. PICK added \in [Streams -> Seq(Frame)] :
        /\ sent' \in [Streams -> Seq(Frame)]
        /\ \A s \in Streams : sent'[s] = sent[s] \o added[s]
        /\ \A s \in Streams : \A i \in 1 .. Len(added[s]) :
             /\ s \in conn.subs /\ added[s][i].row \in UpToKill(batch)
             /\ Goes(added[s][i].row, s)
        /\ \A s \in Streams : \A i, j \in 1 .. Len(added[s]) :
             i < j => added[s][i].row.id < added[s][j].row.id
        /\ \A s \in conn.subs : \A row \in UpToKill(batch) :
             Goes(row, s) => \E i \in 1 .. Len(added[s]) : added[s][i].row = row
  BY PollSends
<1>2. UNCHANGED <<logVars, since>> /\ conn.state = "polling" /\ log' = log /\ committed' = committed
  BY DEF PollPending, logVars
<1>3. ASSUME NEW s \in Streams, NEW i \in 1 .. Len(sent'[s])
      PROVE  \/ /\ i \in 1 .. Len(sent[s]) /\ sent'[s][i] = sent[s][i]
             \/ /\ s \in conn.subs /\ i > Len(sent[s]) /\ i - Len(sent[s]) \in 1 .. Len(added[s])
                /\ sent'[s][i] = added[s][i - Len(sent[s])]
                /\ sent'[s][i].row \in UpToKill(batch) /\ Goes(sent'[s][i].row, s)
  <2>1. sent[s] \in Seq(Frame) /\ added[s] \in Seq(Frame) /\ Joined(sent[s], added[s], sent'[s])
    BY <1>1, ConnFacts DEF SessionInv, Joined
  <2>2. \/ i \in 1 .. Len(sent[s]) /\ sent'[s][i] = sent[s][i]
        \/ /\ i > Len(sent[s]) /\ i - Len(sent[s]) \in 1 .. Len(added[s])
           /\ sent'[s][i] = added[s][i - Len(sent[s])]
    BY <1>3, <2>1, Appended
  <2> QED
    BY <1>1, <2>2
<1>4. ASSUME NEW s \in Streams
      PROVE  /\ \A i \in 1 .. Len(sent[s]) : i \in 1 .. Len(sent'[s]) /\ sent'[s][i] = sent[s][i]
             /\ \A i \in 1 .. Len(added[s]) : \E j \in 1 .. Len(sent'[s]) : sent'[s][j] = added[s][i]
  <2>1. sent[s] \in Seq(Frame) /\ added[s] \in Seq(Frame) /\ Joined(sent[s], added[s], sent'[s])
    BY <1>1, ConnFacts DEF SessionInv, Joined
  <2>2. \A i \in 1 .. Len(sent[s]) : i \in 1 .. Len(sent'[s]) /\ sent'[s][i] = sent[s][i]
    BY <2>1, Appended, SMTT(30)
  <2>3. \A i \in 1 .. Len(added[s]) : \E j \in 1 .. Len(sent'[s]) : sent'[s][j] = added[s][i]
    BY <2>1, Appended, SMTT(30)
  <2> QED
    BY <2>2, <2>3
<1>5. ASSUME NEW s \in Streams, NEW i \in 1 .. Len(sent'[s]) PROVE sent'[s][i].row \in committed
  <2>1. CASE i \in 1 .. Len(sent[s]) /\ sent'[s][i] = sent[s][i]
    BY <2>1 DEF SessionInv, HistoryInv
  <2>2. CASE s \in conn.subs /\ sent'[s][i].row \in UpToKill(batch) /\ Goes(sent'[s][i].row, s)
    BY <1>2, <2>2, NewRows, LogFacts DEF SessionInv
  <2> QED
    BY <1>3, <2>1, <2>2
<1>6. CreationsAreNew'
  <2>1. ASSUME NEW s \in Timelines, NEW i \in 1 .. Len(sent'[s]), sent'[s][i].row.event.kind = "create"
        PROVE  sent'[s][i].row \notin since[s]
    <3>1. s \in Streams
      BY DEF Streams
    <3>2. CASE i \in 1 .. Len(sent[s]) /\ sent'[s][i] = sent[s][i]
      BY <2>1, <3>2 DEF SessionInv, CreationsAreNew
    <3>3. CASE s \in conn.subs /\ sent'[s][i].row \in UpToKill(batch) /\ Goes(sent'[s][i].row, s)
      BY <1>2, <3>3, NewRows
    <3> QED
      BY <1>3, <3>1, <3>2, <3>3
  <2> QED
    BY <1>2, <2>1 DEF CreationsAreNew
<1>7. NothingAfterKill'
  <2>1. ASSUME NEW s \in Streams, NEW i \in 1 .. Len(sent'[s]), NEW k \in Kills(log), sent'[s][i].live
        PROVE  sent'[s][i].row.id < k.id
    <3>1. CASE i \in 1 .. Len(sent[s]) /\ sent'[s][i] = sent[s][i]
      BY <2>1, <3>1 DEF SessionInv, NothingAfterKill
    <3>2. CASE s \in conn.subs /\ sent'[s][i].row \in UpToKill(batch) /\ Goes(sent'[s][i].row, s)
      BY <1>2, <3>2, NewRows
    <3> QED
      BY <1>3, <3>1, <3>2
  <2> QED
    BY <1>2, <2>1 DEF NothingAfterKill, Kills
<1>8. CASE UpToKill(batch) # batch
  <2>1. conn' = Closed
    BY <1>8 DEF PollPending
  <2> QED
    BY <1>1, <1>2, <1>5, <1>6, <1>7, <2>1, CloseStep
<1>9. CASE UpToKill(batch) = batch
  <2> USE DEF SessionInv
  <2>1. /\ conn.cursor \in Nat /\ conn.live \in Nat /\ conn.live <= conn.cursor
        /\ Seen(conn.cursor) /\ \A k \in Kills(log) : conn.cursor < k.id
        /\ \A s \in conn.subs : s \in Streams
    BY <1>2, ConnFacts DEF CursorsInv, KillsInv, Opened
  <2>2. Kills(batch) = {}
    <3>1. ASSUME NEW k \in Kills(batch) PROVE FALSE
      <4>1. k \in batch /\ k.id > conn.cursor /\ k.id \in Nat
        BY <2>1, <3>1, BatchFacts, LogFacts DEF Kills
      <4>2. k \in UpToKill(batch) /\ k.id > conn.live
        BY <1>9, <2>1, <4>1
      <4>3. k.id < k.id
        BY <3>1, <4>2 DEF UpToKill
      <4> QED
        BY <4>1, <4>3
    <3> QED
      BY <3>1
  <2>3. PICK next \in Nat :
          /\ next = IF batch = {} THEN conn.cursor ELSE Max({row.id : row \in batch})
          /\ Seen(next) /\ conn.cursor <= next
          /\ \A k \in Kills(log) : next < k.id
          /\ \A row \in batch : row.id <= next
          /\ \A row \in log : row.id > conn.cursor /\ row.id <= next => row \in batch
    BY <2>1, <2>2, NextCursor
  <2>4. conn' = [conn EXCEPT !.state = "open", !.cursor = next]
    BY <1>9, <2>3 DEF PollPending
  <2>5. /\ conn' \in Conn /\ conn'.state = "open"
        /\ conn'.cursor = next /\ conn'.system = conn.system /\ conn'.live = conn.live
        /\ conn'.after = conn.after /\ conn'.subs = conn.subs /\ conn'.base = conn.base
        /\ conn'.established = conn.established /\ conn'.stream = conn.stream
        /\ conn'.atOpen = conn.atOpen /\ conn'.atSubscribe = conn.atSubscribe
    BY <2>4 DEF ConnInv, Conn
  <2>6. LogInv'
    BY <1>2 DEF LogInv, LogTypeOK, OrderHeld, RowsInv, logVars
  <2> HIDE DEF batch
  <2>7. ConnInv' /\ HistoryInv'
    <3>1. ASSUME NEW s \in Streams, s \notin conn.subs, sent'[s] # <<>> PROVE FALSE
      <4>1. sent[s] = <<>> /\ added[s] \in Seq(Frame) /\ Len(added[s]) \in Nat
        BY <1>1, <1>2, <3>1 DEF ConnInv
      <4>2. added[s] = <<>>
        <5>1. 1 \notin 1 .. Len(added[s])
          BY <1>1, <3>1
        <5> QED
          BY <4>1, <5>1
      <4>3. <<>> \o <<>> = <<>>
        OBVIOUS
      <4> QED
        BY <1>1, <3>1, <4>1, <4>2, <4>3
    <3>2. ConnInv'
      BY <1>1, <1>2, <2>5, <3>1, ConnFacts DEF ConnInv, Subscribing, Opened
    <3>3. HistoryInv'
      BY <1>2, <1>5, <2>5 DEF HistoryInv
    <3> QED
      BY <3>2, <3>3
  <2>8. CursorsInv'
    <3>1. conn.established
      BY <1>2 DEF ConnInv
    <3>2. \A n : Seen(n)' <=> Seen(n)
      BY <1>2 DEF Seen
    <3>3. conn.live <= conn.system /\ conn.live <= next
      BY <2>1, <2>3 DEF CursorsInv
    <3>4. /\ Seen(next) /\ Seen(conn.system) /\ Seen(conn.live) /\ Seen(conn.after)
          /\ \A s \in Streams : Seen(conn.base[s])
      BY <2>3 DEF CursorsInv
    <3> QED
      BY <2>5, <3>1, <3>2, <3>3, <3>4 DEF CursorsInv
  <2>9. KillsInv'
    <3>1. \A k \in Kills(log) : conn.system < k.id /\ next < k.id
      BY <1>2, <2>3 DEF KillsInv, Opened
    <3> QED
      BY <1>2, <2>5, <3>1 DEF KillsInv, Kills
  <2>10. DutyInv'
    BY <1>2, <2>5 DEF DutyInv, Subscribing
  <2>11. ASSUME NEW s \in conn.subs, NEW i \in 1 .. Len(sent[s])
         PROVE  /\ sent[s][i].row.id \in Nat
                /\ \/ sent[s][i].row.id <= conn.cursor
                   \/ s \in Timelines /\ sent[s][i].row.id <= conn.base[s]
    BY <2>1, ConnFacts DEF SentInv, Row
  <2>12. ASSUME NEW s \in conn.subs, NEW i \in 1 .. Len(sent'[s]), i \notin 1 .. Len(sent[s])
         PROVE  /\ sent'[s][i].row \in batch /\ sent'[s][i].row.id \in Nat
                /\ sent'[s][i].row.id > conn.cursor /\ (s \in Timelines => sent'[s][i].row.id > conn.base[s])
                /\ \A j \in 1 .. Len(sent[s]) : sent[s][j].row.id < sent'[s][i].row.id
    <3>1. sent'[s][i].row \in UpToKill(batch) /\ Goes(sent'[s][i].row, s)
      BY <1>3, <2>1, <2>12
    <3>2. /\ sent'[s][i].row \in batch /\ sent'[s][i].row.id \in Nat
          /\ sent'[s][i].row.id > conn.cursor /\ (s \in Timelines => sent'[s][i].row.id > conn.base[s])
      BY <1>2, <3>1, NewRows DEF batch
    <3>3. conn.base[s] \in Nat
      BY <2>1, ConnFacts
    <3> QED
      BY <2>1, <2>11, <3>2, <3>3
  <2>13. SentInv'
    <3>1. ASSUME NEW s \in conn.subs, NEW i \in 1 .. Len(sent'[s])
          PROVE  sent'[s][i].row.id <= next \/ (s \in Timelines /\ sent'[s][i].row.id <= conn.base[s])
      <4>1. CASE i \in 1 .. Len(sent[s])
        <5>1. sent'[s][i] = sent[s][i]
          BY <1>4, <2>1, <4>1
        <5> QED
          BY <2>1, <2>3, <2>11, <4>1, <5>1
      <4>2. CASE i \notin 1 .. Len(sent[s])
        BY <2>3, <2>12, <4>2
      <4> QED
        BY <4>1, <4>2
    <3> QED
      BY <1>2, <2>5, <3>1 DEF SentInv
  <2>14. SentInOrder'
    <3>1. ASSUME NEW s \in conn.subs, NEW i \in 1 .. Len(sent'[s]), NEW j \in 1 .. Len(sent'[s]), i < j
          PROVE  sent'[s][i].row.id < sent'[s][j].row.id
      <4>1. s \in Streams /\ sent[s] \in Seq(Frame) /\ Len(sent[s]) \in Nat
        BY <2>1, ConnFacts
      <4>2. CASE i \in 1 .. Len(sent[s]) /\ j \in 1 .. Len(sent[s])
        <5>1. sent'[s][i] = sent[s][i] /\ sent'[s][j] = sent[s][j]
          BY <1>4, <4>1, <4>2
        <5> QED
          BY <3>1, <4>2, <5>1 DEF SentInOrder
      <4>3. CASE i \in 1 .. Len(sent[s]) /\ j \notin 1 .. Len(sent[s])
        <5>1. sent'[s][i] = sent[s][i]
          BY <1>4, <4>1, <4>3
        <5> QED
          BY <2>12, <4>3, <5>1
      <4>4. CASE i \notin 1 .. Len(sent[s])
        <5>1. j \notin 1 .. Len(sent[s])
          BY <3>1, <4>1, <4>4
        <5>2. /\ i - Len(sent[s]) \in 1 .. Len(added[s]) /\ sent'[s][i] = added[s][i - Len(sent[s])]
              /\ j - Len(sent[s]) \in 1 .. Len(added[s]) /\ sent'[s][j] = added[s][j - Len(sent[s])]
          BY <1>3, <4>1, <4>4, <5>1
        <5>3. i - Len(sent[s]) < j - Len(sent[s])
          BY <3>1, <4>1
        <5> QED
          BY <1>1, <4>1, <5>2, <5>3
      <4> QED
        BY <4>2, <4>3, <4>4
    <3> QED
      BY <2>5, <3>1 DEF SentInOrder
  <2>15. NothingSkipped'
    <3>1. ASSUME NEW s \in conn.subs, NEW row \in log \ since[s], Due(row, s)'
          PROVE  row.id \in SentIds(s)'
      <4>1. s \in Streams /\ row.id \in Nat /\ conn.base[s] \in Nat
        BY <2>1, ConnFacts, LogFacts
      <4>2. CASE Due(row, s)
        <5>1. row.id \in SentIds(s)
          BY <1>2, <3>1, <4>2 DEF NothingSkipped
        <5>2. PICK i \in 1 .. Len(sent[s]) : row.id = sent[s][i].row.id
          BY <5>1 DEF SentIds
        <5>3. i \in 1 .. Len(sent'[s]) /\ sent'[s][i] = sent[s][i]
          BY <1>4, <4>1
        <5> QED
          BY <5>2, <5>3 DEF SentIds
      <4>3. CASE ~Due(row, s)
        <5>1. row.id > conn.cursor /\ row.id <= next /\ Goes(row, s)
          <6>1. CASE s \in Timelines
            <7>1. IsTimeline(row) /\ row.id <= Max({next, conn.base[s]})
              BY <2>5, <3>1, <6>1 DEF Due, IsTimeline
            <7>2. ~(row.id <= Max({conn.cursor, conn.base[s]}))
              BY <4>3, <6>1, <7>1 DEF Due
            <7>3. row.id > conn.cursor /\ row.id > conn.base[s]
              <8>1. Max({conn.cursor, conn.base[s]})
                      = IF conn.cursor >= conn.base[s] THEN conn.cursor ELSE conn.base[s]
                BY <2>1, <4>1, MaxOfTwo
              <8> QED
                BY <2>1, <4>1, <7>2, <8>1
            <7>4. row.id <= next
              <8>1. Max({next, conn.base[s]}) = IF next >= conn.base[s] THEN next ELSE conn.base[s]
                BY <4>1, MaxOfTwo
              <8> QED
                BY <4>1, <7>1, <7>3, <8>1
            <7> QED
              BY <6>1, <7>1, <7>3, <7>4 DEF Goes
          <6>2. CASE s \notin Timelines
            <7>1. row.event.kind = "notice" /\ row.id <= next /\ ~(row.id <= conn.cursor)
              BY <2>5, <3>1, <4>3, <6>2 DEF Due
            <7>2. s \in AccountStreams
              BY <4>1, <6>2 DEF Streams
            <7> QED
              BY <2>1, <4>1, <6>2, <7>1, <7>2 DEF Goes
          <6> QED
            BY <6>1, <6>2
        <5>2. row \in UpToKill(batch)
          BY <1>9, <2>3, <5>1
        <5>3. PICK i \in 1 .. Len(added[s]) : added[s][i].row = row
          BY <1>1, <5>1, <5>2
        <5>4. PICK j \in 1 .. Len(sent'[s]) : sent'[s][j] = added[s][i]
          BY <1>4, <4>1
        <5> QED
          BY <5>3, <5>4 DEF SentIds
      <4> QED
        BY <4>2, <4>3
    <3> QED
      BY <1>2, <2>5, <3>1 DEF NothingSkipped
  <2> QED
    BY <1>6, <1>7, <2>6, <2>7, <2>8, <2>9, <2>10, <2>13, <2>14, <2>15
<1> QED
  BY <1>8, <1>9

-----------------------------------------------------------------------------
(* A connection starts with an empty log, and has sent nothing.              *)
LEMMA SessionStarts == Init => SessionInv
<1> SUFFICES ASSUME Init PROVE SessionInv
  OBVIOUS
<1>1. LogTypeOK /\ OrderHeld
  BY LogStarts DEF Init
<1>2. log = {} /\ committed = {} /\ nextId = 1 /\ tx = [w \in Writers |-> NoTx] /\ NoTx.inserted = {}
  BY DEF Init, LogInit, NoTx
<1>3. Distinct({})
  BY FS_EmptySet DEF Distinct
<1>4. LogInv
  BY <1>1, <1>2, <1>3 DEF LogInv, RowsInv
<1>5. conn = [Closed EXCEPT !.state = "upgrading"] /\ Closed \in Conn
  BY DEF Init, Closed, Conn
<1>6. /\ conn \in Conn /\ conn.state = "upgrading"
      /\ conn.cursor = 0 /\ conn.system = 0 /\ conn.live = 0 /\ conn.after = 0
      /\ conn.subs = {} /\ conn.established = FALSE /\ conn.stream = NoStream
      /\ conn.atOpen = {} /\ conn.atSubscribe = {} /\ conn.base = [s \in Streams |-> 0]
  BY <1>5 DEF Closed, Conn
<1>7. sent = [s \in Streams |-> <<>>] /\ since = [s \in Streams |-> {}]
  BY DEF Init
<1>8. \A s \in Streams : sent[s] = <<>> /\ Len(sent[s]) = 0
  BY <1>7
<1>9. ConnInv /\ HistoryInv
  <2>1. sent \in [Streams -> Seq(Frame)]
    BY <1>7, ShortSequences
  <2> QED
    BY <1>6, <1>7, <1>8, <2>1 DEF ConnInv, HistoryInv, Subscribing, Opened
<1>10. CursorsInv /\ KillsInv /\ DutyInv /\ SentInv /\ SentInOrder /\ NothingSkipped
  BY <1>2, <1>6 DEF CursorsInv, KillsInv, Opened, DutyInv, Subscribing, SentInv, SentInOrder,
                    NothingSkipped, Seen
<1>11. CreationsAreNew /\ NothingAfterKill
  <2>1. \A s \in Timelines : s \in Streams
    BY DEF Streams
  <2> QED
    BY <1>8, <2>1 DEF CreationsAreNew, NothingAfterKill
<1> QED
  BY <1>4, <1>9, <1>10, <1>11 DEF SessionInv

(* SessionInv is inductive.                                                  *)
LEMMA SessionStep == SessionInv /\ [Next]_vars => SessionInv'
<1> SUFFICES ASSUME SessionInv, [Next]_vars PROVE SessionInv'
  OBVIOUS
<1>1. CASE Others
  BY <1>1, OthersStep DEF Others
<1>2. CASE Authenticate
  BY <1>2, AuthenticateStep
<1>3. CASE ReadCursor
  BY <1>3, ReadCursorStep
<1>4. CASE AuthenticateAgain
  BY <1>4, AuthenticateAgainStep
<1>5. ASSUME NEW s \in Streams, Subscribe(s) PROVE SessionInv'
  BY <1>5, SubscribeStep
<1>6. ASSUME NEW s \in Streams, Unsubscribe(s) PROVE SessionInv'
  BY <1>6, UnsubscribeStep
<1>7. CASE Denied
  BY <1>7, DeniedStep
<1>8. CASE ReadThrough
  BY <1>8, ReadThroughStep
<1>9. CASE Replay
  BY <1>9, ReplayStep
<1>10. CASE PollSystem
  BY <1>10, PollSystemStep
<1>11. CASE PollPending
  BY <1>11, PollPendingStep
<1>12. CASE Heartbeat \/ Disconnect
  BY <1>12, JustClose DEF Heartbeat, Disconnect
<1>13. CASE UNCHANGED vars
  <2> USE <1>13 DEF SessionInv, vars, logVars
  <2>1. LogInv'
    BY DEF LogInv, LogTypeOK, OrderHeld, RowsInv
  <2>2. ConnInv' /\ HistoryInv'
    BY DEF ConnInv, HistoryInv, Subscribing, Opened
  <2>3. CursorsInv' /\ KillsInv' /\ DutyInv'
    BY DEF CursorsInv, KillsInv, Kills, DutyInv, Subscribing, Opened, Seen
  <2>4. SentInv' /\ SentInOrder' /\ NothingSkipped'
    <3>1. SentInv' /\ SentInOrder'
      BY DEF SentInv, SentInOrder
    <3>2. \A row, s : Due(row, s)' <=> Due(row, s)
      BY DEF Due, IsTimeline
    <3> QED
      BY <3>1, <3>2 DEF NothingSkipped, SentIds
  <2>5. CreationsAreNew' /\ NothingAfterKill'
    BY DEF CreationsAreNew, NothingAfterKill, Kills
  <2> QED
    BY <2>1, <2>2, <2>3, <2>4, <2>5
<1> QED
  BY <1>1, <1>2, <1>3, <1>4, <1>5, <1>6, <1>7, <1>8, <1>9, <1>10, <1>11, <1>12, <1>13 DEF Next, SessionNext

(* What every reachable state satisfies.                                     *)
LEMMA SessionInvariant == Spec => []SessionInv
BY SessionStarts, SessionStep, PTL DEF Spec

(* In every reachable state the variables have their types: no cursor is     *)
(* ahead of the sequence, a stream is in progress exactly while it is        *)
(* authorized and replayed, and frames belong to a subscription.             *)
THEOREM TypeCorrect == Spec => []TypeOK
<1>1. SessionInv => TypeOK
  <2> SUFFICES ASSUME SessionInv PROVE TypeOK
    OBVIOUS
  <2> USE DEF SessionInv
  <2>1. LogTypeOK /\ nextId \in Nat /\ \A row \in committed : row.id \in Nat /\ row.id < nextId
    BY LogFacts DEF LogInv, LogTypeOK, OrderHeld
  <2>2. \A n \in Nat : Seen(n) => n \in 0 .. nextId
    BY <2>1 DEF Seen
  <2>3. {conn.cursor, conn.system, conn.live, conn.after} \subseteq 0 .. nextId
    BY <2>2, ConnFacts DEF CursorsInv
  <2>4. conn.base \in [Streams -> 0 .. nextId]
    BY <2>2, ConnFacts DEF CursorsInv
  <2>5. conn \in Conn
    BY DEF ConnInv
  <2> QED
    BY <2>1, <2>3, <2>4, <2>5 DEF TypeOK, Conn, ConnInv, CursorsInv, Subscribing
<1> QED
  BY SessionInvariant, <1>1, PTL

(* A subscription is sent events in the order of the log and none twice:     *)
(* streaming_subscribe replays up to the baseline that stream_pending_events *)
(* compares.                                                                 *)
THEOREM SubscriptionsAreOrdered == Spec => []SentInOrder
<1>1. SessionInv => SentInOrder
  BY DEF SessionInv
<1> QED
  BY SessionInvariant, <1>1, PTL

(* The handoff from stream_replay_events_for_subscription to the polls is    *)
(* lossless: no event that the log keeps is passed over.                     *)
THEOREM HandoffIsLossless == Spec => []NothingSkipped
<1>1. SessionInv => NothingSkipped
  BY DEF SessionInv
<1> QED
  BY SessionInvariant, <1>1, PTL

(* subscription_create_after announces no status to a subscription that      *)
(* began after the status was committed.                                     *)
THEOREM OnlyNewIsAnnounced == Spec => []CreationsAreNew
<1>1. SessionInv => CreationsAreNew
  BY DEF SessionInv
<1> QED
  BY SessionInvariant, <1>1, PTL

(* A poll sends nothing that is behind a kill event of the log, although     *)
(* stream_system_events and stream_pending_events read at different times.   *)
THEOREM RevokedGetsNothing == Spec => []NothingAfterKill
<1>1. SessionInv => NothingAfterKill
  BY DEF SessionInv
<1> QED
  BY SessionInvariant, <1>1, PTL

(* No connection that was opened is past a kill event: streaming             *)
(* authenticates again after it has read its cursor.                         *)
THEOREM RevocationIsFound == Spec => []KillIsAhead
<1>1. SessionInv => KillIsAhead
  BY DEF SessionInv, KillsInv, Opened, KillIsAhead
<1> QED
  BY SessionInvariant, <1>1, PTL

(* Sessions only read the log: with a connection the writers behave as they  *)
(* do alone.                                                                 *)
THEOREM SessionsOnlyRead == Spec => LogSpec
<1>1. Init => LogInit
  BY DEF Init
<1>2. [Next]_vars => [LogNext]_logVars
  <2> SUFFICES ASSUME Next PROVE LogNext \/ UNCHANGED logVars
    BY DEF vars
  <2>1. CASE Others
    BY <2>1 DEF Others
  <2>2. CASE SessionNext
    BY <2>2 DEF SessionNext, Authenticate, ReadCursor, AuthenticateAgain, Subscribe, Unsubscribe, Denied,
                ReadThrough, Replay, PollSystem, PollPending, Heartbeat, Disconnect, Close, Become
  <2> QED
    BY <2>1, <2>2 DEF Next
<1> QED
  BY <1>1, <1>2, PTL DEF Spec, LogSpec

(* What a session reads is extended behind what it has read: commits become  *)
(* visible in id order whatever the session does.                            *)
THEOREM CommitsAreOrdered == Spec => CommitOrder
BY SessionsOnlyRead, LogIsOrdered, PTL
=============================================================================
