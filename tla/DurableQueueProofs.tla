------------------------- MODULE DurableQueueProofs -------------------------
(***************************************************************************)
(* Machine-checked proofs about DurableQueue for every set of slots, keys  *)
(* and streams and every bound: type correctness, uniqueness of fencing    *)
(* tokens, ordered streams, harmlessness of stale slots, and that the      *)
(* queue implements JobStream.                                             *)
(***************************************************************************)
EXTENDS DurableQueue, TLAPS

USE QueueAssumption DEF QueueAssumption

(* Ids at or above nextId were never inserted, and an absent row was never   *)
(* claimed and belongs to no stream.                                         *)
AbsentInv ==
  \A j \in JobIds :
    /\ j >= nextId <=> jobs[j].status = "absent"
    /\ jobs[j].status = "absent" => jobs[j].gen = 0 /\ jobs[j].stream = NoStream

(* A slot holds a generation its job has reached.                              *)
TokenInv ==
  \A w \in Workers :
    worker[w].job # 0 =>
      /\ worker[w].gen \in 1 .. jobs[worker[w].job].gen
      /\ worker[w].phase = "succeeded" => worker[w].job \in ran

QueueInv == TypeOK /\ AbsentInv /\ TokenInv /\ TokensUnique /\ StreamFenced

-----------------------------------------------------------------------------
LEMMA TypeInit == Init => TypeOK
  BY DEF Init, TypeOK, JobIds, Row, NoRow, Slot, Idle

(* The three closing statements differ only in the row they would write.     *)
Settles(w, row) ==
  /\ worker' = [worker EXCEPT ![w] = Idle]
  /\ jobs' = IF Holds(w) THEN [jobs EXCEPT ![worker[w].job] = row] ELSE jobs
  /\ UNCHANGED <<nextId, marker, ran, faults>>

Outcome(w, row) ==
  LET old == jobs[worker[w].job]
  IN  /\ row \in Row
      /\ row.stream = old.stream /\ row.gen = old.gen
      /\ \/ row.status = "live"
         \/ row.status = "dead"
         \/ row.status = "done" /\ worker[w].phase = "succeeded"

LEMMA SettleCases ==
  ASSUME TypeOK, NEW w \in Workers, Complete(w) \/ DeadLetter(w) \/ Retry(w)
  PROVE  \E row : Settles(w, row) /\ (Holds(w) => Outcome(w, row))
<1> USE DEF TypeOK, JobIds
<1> DEFINE old == jobs[worker[w].job]
<1>1. Holds(w) => old \in Row
  BY DEF TypeOK, Holds, JobIds, Slot
<1>2. ASSUME NEW st \in {"live", "dead", "done"}
      PROVE /\ Holds(w) => Released(w, st) \in Row
            /\ Holds(w) => /\ Released(w, st).status = st
                           /\ Released(w, st).stream = old.stream
                           /\ Released(w, st).gen = old.gen
  BY <1>1 DEF Released, Row
<1>3. CASE Complete(w)
  BY <1>2, <1>3 DEF Complete, Settle, Settles, Outcome
<1>4. CASE DeadLetter(w)
  BY <1>2, <1>4 DEF DeadLetter, Settle, Settles, Outcome
<1>5. CASE Retry(w)
  <2>1. CASE worker[w].attempt >= MaxAttempts
    BY <1>2, <1>5, <2>1 DEF Retry, Settle, Settles, Outcome
  <2>2. CASE ~(worker[w].attempt >= MaxAttempts)
    <3> DEFINE row == [Released(w, "live") EXCEPT !.runAt = "future"]
    <3>1. Settles(w, row)
      BY <1>5, <2>2 DEF Retry, Settle, Settles
    <3>2. Holds(w) => Outcome(w, row)
      BY <1>2 DEF Outcome, Row
    <3>3. QED
      BY <3>1, <3>2
  <2>3. QED
    BY <2>1, <2>2
<1>6. QED
  BY <1>3, <1>4, <1>5

LEMMA TypeNext == TypeOK /\ [Next]_vars => TypeOK'
<1> SUFFICES ASSUME TypeOK, [Next]_vars PROVE TypeOK'
  OBVIOUS
<1> USE DEF TypeOK, JobIds
<1>1. ASSUME NEW k \in Keys, EnqueueNew(k) PROVE TypeOK'
  <2>1. nextId \in JobIds
    BY <1>1 DEF EnqueueNew
  <2>2. NewRow(k) \in Row
    BY DEF NewRow, Row
  <2>3. jobs' \in [JobIds -> Row]
    BY <1>1, <2>1, <2>2 DEF EnqueueNew
  <2>4. QED
    BY <1>1, <2>1, <2>3 DEF EnqueueNew, SetMarker
<1>2. ASSUME NEW k \in Keys, EnqueueDuplicate(k) PROVE TypeOK'
  BY <1>2 DEF EnqueueDuplicate, SetMarker, LiveWith
<1>3. ASSUME NEW k \in Keys, Cancel(k) PROVE TypeOK'
  <2>1. PICK j \in JobIds :
           jobs' = [jobs EXCEPT ![j] =
                      [@ EXCEPT !.status = "cancelled", !.lease = "none", !.owner = NoWorker]]
    BY <1>3 DEF Cancel, LiveWith
  <2>2. jobs[j] \in Row
    OBVIOUS
  <2>3. [jobs[j] EXCEPT !.status = "cancelled", !.lease = "none", !.owner = NoWorker] \in Row
    BY <2>2 DEF Row
  <2>4. jobs' \in [JobIds -> Row]
    BY <2>1, <2>3
  <2>5. QED
    BY <1>3, <2>4 DEF Cancel
<1>4. ASSUME NEW s \in Streams, PruneMarker(s) PROVE TypeOK'
  BY <1>4 DEF PruneMarker
<1>5. ASSUME NEW j \in JobIds, BecomeDue(j) \/ ExpireOrphan(j) \/ ExpireStalled(j)
      PROVE TypeOK'
  <2>1. /\ [jobs[j] EXCEPT !.runAt = "past"] \in Row
        /\ [jobs[j] EXCEPT !.lease = "expired"] \in Row
    <3>1. jobs[j] \in Row
      OBVIOUS
    <3>2. [jobs[j] EXCEPT !.runAt = "past"] \in Row
      BY <3>1 DEF Row
    <3>3. [jobs[j] EXCEPT !.lease = "expired"] \in Row
      BY <3>1 DEF Row
    <3>4. QED
      BY <3>2, <3>3
  <2>2. \/ jobs' = [jobs EXCEPT ![j] = [jobs[j] EXCEPT !.runAt = "past"]]
        \/ jobs' = [jobs EXCEPT ![j] = [jobs[j] EXCEPT !.lease = "expired"]]
    <3>1. CASE BecomeDue(j)
      BY <3>1 DEF BecomeDue
    <3>2. CASE LeaseExpires(j)
      BY <3>2 DEF LeaseExpires
    <3>3. QED
      BY <1>5, <3>1, <3>2 DEF ExpireOrphan, ExpireStalled
  <2>3. jobs' \in [JobIds -> Row]
    BY <2>1, <2>2
  <2>4. QED
    BY <1>5, <2>3 DEF BecomeDue, ExpireOrphan, ExpireStalled, LeaseExpires
<1>6. ASSUME NEW w \in Workers, NEW j \in JobIds, Claim(w, j) PROVE TypeOK'
  <2>1. NextAttempt(j) \in 0 .. MaxAttempts
    BY DEF NextAttempt, Row
  <2>2. jobs' \in [JobIds -> Row]
    BY <1>6, <2>1 DEF Claim, Row
  <2>3. worker' \in [Workers -> Slot]
    BY <1>6, <2>1, SMTT(30) DEF Claim, Row, Slot
  <2>4. QED
    BY <1>6, <2>2, <2>3 DEF Claim
<1>7. ASSUME NEW w \in Workers,
             HandlerSucceeds(w) \/ HandlerFails(w) \/ HandlerRejects(w)
      PROVE TypeOK'
  <2>1. PICK o \in {"succeeded", "failed", "rejected"} : HandlerEnds(w, o)
    BY <1>7 DEF HandlerSucceeds, HandlerFails, HandlerRejects
  <2>2. worker[w].job \in JobIds
    BY <2>1 DEF HandlerEnds, Slot
  <2>3. /\ worker' \in [Workers -> Slot]
        /\ \A v \in Workers : worker'[v].phase = "idle" <=> worker'[v].job = 0
    BY <2>1 DEF HandlerEnds, Slot
  <2>4. QED
    BY <2>1, <2>2, <2>3 DEF HandlerEnds, Slot
<1>8. ASSUME NEW w \in Workers, LoseLease(w) \/ Crash(w) PROVE TypeOK'
  <2>1. worker' = [worker EXCEPT ![w] = Idle] /\ Idle \in Slot
    BY <1>8 DEF LoseLease, Crash, Slot, Idle
  <2>2. /\ worker' \in [Workers -> Slot]
        /\ \A v \in Workers : worker'[v].phase = "idle" <=> worker'[v].job = 0
    BY <2>1 DEF Idle
  <2>3. UNCHANGED <<jobs, nextId, marker, ran>> /\ faults' \in 0 .. MaxFaults
    BY <1>8 DEF LoseLease, Crash
  <2>4. QED
    BY <2>2, <2>3
<1>9. ASSUME NEW w \in Workers, Complete(w) \/ DeadLetter(w) \/ Retry(w)
      PROVE TypeOK'
  <2>1. PICK row : /\ Settles(w, row)
                   /\ Holds(w) => Outcome(w, row)
    BY <1>9, SettleCases
  <2>2. Holds(w) => row \in Row /\ worker[w].job \in JobIds
    BY <2>1 DEF Outcome, Holds, Row, Slot
  <2>3. QED
    BY <2>1, <2>2 DEF Settles, Slot, Idle
<1>10. CASE UNCHANGED vars
  BY <1>10 DEF vars
<1>11. QED
  BY <1>1, <1>2, <1>3, <1>4, <1>5, <1>6, <1>7, <1>8, <1>9, <1>10
     DEF Next, Finishes, IdlePoll

(* Theorem: every reachable state of the queue is well typed (jobs.rs).      *)
THEOREM TypeCorrect == Spec => []TypeOK
<1>1. QED
  BY TypeInit, TypeNext, PTL DEF Spec

-----------------------------------------------------------------------------
(* What a step may do to a row: never lower its generation, never bring a    *)
(* row that left the queue back to life, never move it to another stream.    *)
RowsAge ==
  \A j \in JobIds :
    /\ jobs'[j].gen >= jobs[j].gen
    /\ jobs[j].status # "absent" =>
         /\ jobs'[j].stream = jobs[j].stream
         /\ jobs'[j].status # "absent"
         /\ ~Live(j) => jobs'[j].status = jobs[j].status

(* The steps that neither insert nor claim leave tokens where they are.      *)
RowsKept ==
  \A j \in JobIds :
    /\ jobs'[j].stream = jobs[j].stream
    /\ jobs'[j].gen = jobs[j].gen
    /\ \/ jobs'[j].status = jobs[j].status
       \/ Live(j) /\ jobs'[j].status # "absent"

SlotsKept ==
  \A w \in Workers :
    \/ worker'[w] = Idle
    \/ /\ worker'[w].job = worker[w].job
       /\ worker'[w].gen = worker[w].gen
       /\ worker'[w].phase = "succeeded" =>
            worker[w].phase = "succeeded" \/ worker[w].job \in ran'

Quiet == RowsKept /\ SlotsKept /\ ran \subseteq ran' /\ UNCHANGED nextId

(* The typing facts the step lemmas need.                                    *)
Typing ==
  /\ JobIds \subseteq Nat /\ 0 \notin JobIds
  /\ nextId \in Nat
  /\ jobs \in [JobIds -> Row]
  /\ worker \in [Workers -> Slot]
  /\ \A j \in JobIds : jobs[j].gen \in Nat
  /\ \A w \in Workers :
       /\ worker[w].gen \in Nat
       /\ worker[w].job # 0 => worker[w].job \in JobIds

LEMMA TypingFacts == TypeOK => Typing
<1> USE DEF TypeOK, JobIds
<1>1. TypeOK => \A j \in JobIds : jobs[j].gen \in Nat
  BY DEF Row
<1>2. TypeOK => \A w \in Workers :
                 worker[w].gen \in Nat /\ (worker[w].job # 0 => worker[w].job \in JobIds)
  BY DEF Slot
<1>3. QED
  BY <1>1, <1>2 DEF Typing

StepGoal ==
  AbsentInv' /\ TokenInv' /\ TokensUnique' /\ StreamFenced' /\ RowsAge

(* The job of a slot was claimed at least once.                              *)
LEMMA HeldIsStarted ==
  ASSUME Typing, TokenInv, NEW w \in Workers, worker[w].job # 0
  PROVE  /\ jobs[worker[w].job].gen > 0
         /\ worker[w].phase = "succeeded" => worker[w].job \in ran
<1>1. jobs[worker[w].job].gen \in Nat /\ worker[w].gen \in Nat
  BY DEF Typing
<1>2. worker[w].gen \in 1 .. jobs[worker[w].job].gen
  BY DEF TokenInv
<1>3. QED
  BY <1>1, <1>2 DEF TokenInv

LEMMA QuietStep == ASSUME QueueInv, TypeOK', Quiet PROVE StepGoal
<1> USE DEF Quiet
<1>1. /\ Typing /\ Typing'
      /\ AbsentInv /\ TokenInv /\ TokensUnique /\ StreamFenced
  BY TypingFacts, PTL DEF QueueInv
<1>2. AbsentInv'
  BY <1>1 DEF AbsentInv, RowsKept, Live
<1>3. RowsAge
  BY <1>1 DEF Typing, RowsAge, RowsKept, Live
<1>4. TokenInv'
  <2> SUFFICES ASSUME NEW w \in Workers, worker'[w].job # 0
               PROVE  /\ worker'[w].gen \in 1 .. jobs'[worker'[w].job].gen
                      /\ worker'[w].phase = "succeeded" => worker'[w].job \in ran'
    BY DEF TokenInv
  <2>1. /\ worker'[w].job = worker[w].job /\ worker'[w].gen = worker[w].gen
        /\ worker'[w].phase = "succeeded" =>
             worker[w].phase = "succeeded" \/ worker[w].job \in ran'
    BY DEF SlotsKept, Idle
  <2>2. jobs'[worker[w].job].gen = jobs[worker[w].job].gen
    BY <1>1, <2>1 DEF Typing, RowsKept
  <2>3. QED
    BY <1>1, <2>1, <2>2 DEF TokenInv
<1>5. TokensUnique'
  BY <1>1 DEF TokensUnique, SlotsKept, Idle
<1>6. StreamFenced'
  BY <1>1 DEF StreamFenced, RowsKept, Live
<1>7. QED
  BY <1>2, <1>3, <1>4, <1>5, <1>6 DEF StepGoal

LEMMA EnqueueStep ==
  ASSUME QueueInv, TypeOK', NEW k \in Keys, EnqueueNew(k) PROVE StepGoal
<1>1. /\ Typing /\ Typing'
      /\ AbsentInv /\ TokenInv /\ TokensUnique /\ StreamFenced
  BY TypingFacts, PTL DEF QueueInv
<1>2. nextId \in JobIds /\ jobs' = [jobs EXCEPT ![nextId] = NewRow(k)]
  BY DEF EnqueueNew, QueueInv, TypeOK, JobIds
<1>3. /\ jobs[nextId].status = "absent" /\ jobs[nextId].gen = 0
      /\ jobs'[nextId].status = "live" /\ jobs'[nextId].gen = 0
      /\ \A j \in JobIds : j # nextId => jobs'[j] = jobs[j]
      /\ nextId' = nextId + 1 /\ UNCHANGED <<worker, ran>>
  BY <1>1, <1>2 DEF EnqueueNew, NewRow, AbsentInv, Typing
<1>4. AbsentInv'
  BY <1>1, <1>3 DEF AbsentInv, Typing
<1>5. RowsAge
  BY <1>1, <1>3 DEF RowsAge, Live, Typing
<1>6. TokenInv'
  BY <1>1, <1>3 DEF TokenInv, Typing
<1>7. TokensUnique'
  BY <1>1, <1>3 DEF TokensUnique
<1>8. StreamFenced'
  <2> SUFFICES ASSUME NEW i \in JobIds, NEW j \in JobIds, i < j,
                      jobs'[i].stream = jobs'[j].stream, jobs'[j].stream # NoStream,
                      jobs'[j].gen > 0
               PROVE  jobs'[i].status # "live"
    BY DEF StreamFenced, Live
  <2>1. j # nextId /\ jobs'[j] = jobs[j] /\ jobs[j].gen > 0
    BY <1>3
  <2>2. ~(j >= nextId)
    BY <1>1, <2>1 DEF AbsentInv
  <2>3. i # nextId /\ jobs'[i] = jobs[i]
    BY <1>1, <1>3, <2>2 DEF Typing
  <2>4. QED
    BY <1>1, <2>1, <2>3 DEF StreamFenced, Live
<1>9. QED
  BY <1>4, <1>5, <1>6, <1>7, <1>8 DEF StepGoal

LEMMA ClaimStep ==
  ASSUME QueueInv, TypeOK', NEW w \in Workers, NEW j \in JobIds, Claim(w, j)
  PROVE  StepGoal
<1>1. /\ Typing /\ Typing'
      /\ AbsentInv /\ TokenInv /\ TokensUnique /\ StreamFenced
  BY TypingFacts, PTL DEF QueueInv
<1>2. /\ Live(j) /\ ~Blocked(j)
      /\ jobs'[j].gen = jobs[j].gen + 1
      /\ jobs'[j].status = "live" /\ jobs'[j].stream = jobs[j].stream
      /\ \A i \in JobIds : i # j => jobs'[i] = jobs[i]
      /\ worker'[w].job = j /\ worker'[w].gen = jobs[j].gen + 1
      /\ worker'[w].phase = "running"
      /\ \A v \in Workers : v # w => worker'[v] = worker[v]
      /\ UNCHANGED <<nextId, ran>>
  <2>1. Live(j) /\ ~Blocked(j)
    BY DEF Claim, Candidates
  <2>2. jobs[j] \in Row /\ Live(j)
    BY <1>1, <2>1 DEF Typing
  <2>3. /\ jobs'[j].gen = jobs[j].gen + 1
        /\ jobs'[j].status = jobs[j].status /\ jobs'[j].stream = jobs[j].stream
        /\ \A i \in JobIds : i # j => jobs'[i] = jobs[i]
    BY <1>1, <2>2 DEF Claim, Typing, Row
  <2>4. QED
    BY <1>1, <2>1, <2>3 DEF Claim, Live, Typing
<1>3. AbsentInv'
  BY <1>1, <1>2, ZenonT(60) DEF AbsentInv, Live, Typing
<1>4. RowsAge
  BY <1>1, <1>2 DEF RowsAge, Live, Typing
<1>5. TokenInv'
  <2>1. jobs[j].gen \in Nat
    BY <1>1 DEF Typing
  <2>2. ASSUME NEW v \in Workers, worker'[v].job # 0
        PROVE  /\ worker'[v].gen \in 1 .. jobs'[worker'[v].job].gen
               /\ worker'[v].phase = "succeeded" => worker'[v].job \in ran'
    <3>1. CASE v = w
      BY <1>2, <2>1, <3>1
    <3>2. CASE v # w
      <4>1. worker'[v] = worker[v] /\ worker[v].job \in JobIds
        BY <1>1, <1>2, <2>2, <3>2 DEF Typing
      <4>2. jobs'[worker[v].job].gen >= jobs[worker[v].job].gen
        BY <1>4, <4>1 DEF RowsAge
      <4>3. /\ worker[v].gen \in 1 .. jobs[worker[v].job].gen
            /\ worker[v].phase = "succeeded" => worker[v].job \in ran
        BY <1>1, <2>2, <4>1 DEF TokenInv
      <4>4. /\ jobs[worker[v].job].gen \in Nat /\ jobs'[worker[v].job].gen \in Nat
            /\ worker[v].gen \in Nat
        BY <1>1, <4>1 DEF Typing
      <4>5. worker[v].gen \in 1 .. jobs'[worker[v].job].gen
        BY <4>2, <4>3, <4>4
      <4>6. QED
        BY <1>2, <4>1, <4>3, <4>5
    <3>3. QED
      BY <3>1, <3>2
  <2>3. QED
    BY <2>2 DEF TokenInv
<1>6. TokensUnique'
  <2>1. \A v \in Workers : worker[v].job = j => worker[v].gen <= jobs[j].gen
    BY <1>1 DEF TokenInv, Typing
  <2>2. QED
    BY <1>1, <1>2, <2>1 DEF TokensUnique, Typing
<1>7. StreamFenced'
  BY <1>1, <1>2 DEF StreamFenced, Blocked, Live, Typing
<1>8. QED
  BY <1>3, <1>4, <1>5, <1>6, <1>7 DEF StepGoal

LEMMA InvNext == QueueInv /\ [Next]_vars => QueueInv' /\ RowsAge
<1> SUFFICES ASSUME QueueInv, [Next]_vars PROVE StepGoal
  BY TypeNext DEF QueueInv, StepGoal
<1> TypeOK /\ TypeOK' /\ Typing
  BY TypeNext, TypingFacts DEF QueueInv
<1>e. ASSUME NEW k \in Keys, EnqueueNew(k) PROVE StepGoal
  BY <1>e, EnqueueStep
<1>c. ASSUME NEW w \in Workers, NEW j \in JobIds, Claim(w, j) PROVE StepGoal
  BY <1>c, ClaimStep
<1>q. ASSUME Quiet PROVE StepGoal
  BY <1>q, QuietStep
<1>1. ASSUME NEW k \in Keys, EnqueueDuplicate(k) PROVE Quiet
  BY <1>1 DEF EnqueueDuplicate, Quiet, RowsKept, SlotsKept
<1>2. ASSUME NEW k \in Keys, Cancel(k) PROVE Quiet
  <2>1. PICK j \in LiveWith(k) :
          jobs' = [jobs EXCEPT ![j].status = "cancelled", ![j].lease = "none",
                               ![j].owner = NoWorker]
    BY <1>2 DEF Cancel
  <2> j \in JobIds /\ Live(j)
    BY DEF LiveWith
  <2>2. jobs[j] \in Row
    BY DEF Typing
  <2>3. /\ jobs'[j].stream = jobs[j].stream /\ jobs'[j].gen = jobs[j].gen
        /\ jobs'[j].status = "cancelled"
        /\ \A i \in JobIds : i # j => jobs'[i] = jobs[i]
    BY <2>1, <2>2 DEF Typing, Row
  <2>4. RowsKept
    BY <2>1, <2>3 DEF RowsKept
  <2>5. QED
    BY <1>2, <2>4 DEF Cancel, Quiet, SlotsKept
<1>3. ASSUME NEW s \in Streams, PruneMarker(s) PROVE Quiet
  BY <1>3 DEF PruneMarker, Quiet, RowsKept, SlotsKept
<1>4. ASSUME NEW j \in JobIds, BecomeDue(j) PROVE Quiet
  BY <1>4 DEF BecomeDue, Quiet, RowsKept, SlotsKept
<1>5. ASSUME NEW j \in JobIds, ExpireOrphan(j) \/ ExpireStalled(j) PROVE Quiet
  <2>1. LeaseExpires(j)
    BY <1>5 DEF ExpireOrphan, ExpireStalled
  <2>2. jobs[j] \in Row
    BY DEF Typing
  <2>3. RowsKept
    BY <2>1, <2>2 DEF LeaseExpires, RowsKept, Typing, Row
  <2>4. QED
    BY <2>1, <2>3 DEF LeaseExpires, Quiet, SlotsKept
<1>6. ASSUME NEW w \in Workers,
             HandlerSucceeds(w) \/ HandlerFails(w) \/ HandlerRejects(w)
      PROVE Quiet
  <2>1. PICK o \in {"succeeded", "failed", "rejected"} : HandlerEnds(w, o)
    BY <1>6 DEF HandlerSucceeds, HandlerFails, HandlerRejects
  <2>2. QED
    BY <2>1 DEF HandlerEnds, Quiet, RowsKept, SlotsKept
<1>7. ASSUME NEW w \in Workers, LoseLease(w) \/ Crash(w) PROVE Quiet
  <2>1. worker' = [worker EXCEPT ![w] = Idle] /\ UNCHANGED <<jobs, nextId, ran>>
    BY <1>7 DEF LoseLease, Crash
  <2>2. SlotsKept
    BY <2>1 DEF SlotsKept, Typing
  <2>3. QED
    BY <2>1, <2>2 DEF Quiet, RowsKept
<1>8. ASSUME NEW w \in Workers, Complete(w) \/ DeadLetter(w) \/ Retry(w)
      PROVE Quiet
  <2>1. PICK row : Settles(w, row) /\ (Holds(w) => Outcome(w, row))
    BY <1>8, SettleCases
  <2>2. SlotsKept /\ ran \subseteq ran' /\ UNCHANGED nextId
    BY <2>1 DEF Settles, SlotsKept
  <2>3. RowsKept
    BY <2>1 DEF Settles, Outcome, RowsKept, Holds, Live
  <2>4. QED
    BY <2>2, <2>3 DEF Quiet
<1>9. ASSUME UNCHANGED vars PROVE Quiet
  BY <1>9 DEF vars, Quiet, RowsKept, SlotsKept
<1>10. QED
  BY <1>e, <1>c, <1>q, <1>1, <1>2, <1>3, <1>4, <1>5, <1>6, <1>7, <1>8, <1>9
     DEF Next, Finishes, IdlePoll

LEMMA InvInit == Init => QueueInv
<1> SUFFICES ASSUME Init PROVE QueueInv
  OBVIOUS
<1>1. TypeOK
  BY TypeInit
<1>2. AbsentInv
  BY DEF Init, AbsentInv, NoRow, JobIds
<1>3. TokenInv /\ TokensUnique
  BY DEF Init, TokenInv, TokensUnique, Idle
<1>4. StreamFenced
  BY DEF Init, StreamFenced, NoRow
<1>5. QED
  BY <1>1, <1>2, <1>3, <1>4 DEF QueueInv

LEMMA QueueInvariant == Spec => [](QueueInv /\ TypeOK)
<1>1. QueueInv => TypeOK
  BY DEF QueueInv
<1>2. QED
  BY <1>1, InvInit, InvNext, PTL DEF Spec

(* Theorem: no two slots ever hold the same (job, lease generation), however *)
(* leases lapse and jobs are reclaimed, so the fence in complete, retry and  *)
(* dead_letter names one execution.                                          *)
THEOREM FencesAreUnique == Spec => []TokensUnique
<1>1. QueueInv => TokensUnique
  BY DEF QueueInv
<1>2. QED
  BY <1>1, QueueInvariant, PTL

(* Theorem: claim starts a member of a stream only after every earlier       *)
(* member has left the queue, for any number of slots, streams and retries.  *)
THEOREM StreamsInOrder == Spec => []StreamFenced
<1>1. QueueInv => StreamFenced
  BY DEF QueueInv
<1>2. QED
  BY <1>1, QueueInvariant, PTL

(* Theorem: whatever a slot does after it lost its lease, the row it claimed *)
(* is not changed by it.                                                     *)
THEOREM StaleSlotsHarmless == Spec => StaleSlotsAreHarmless
<1> DEFINE A == \A w \in Workers :
                 worker[w].job # 0 /\ ~Holds(w) /\ worker'[w] # worker[w] => UNCHANGED jobs
<1>1. TypeOK /\ [Next]_vars => [A]_vars
  <2> SUFFICES ASSUME TypeOK, Next, NEW w \in Workers,
                      worker[w].job # 0, ~Holds(w), worker'[w] # worker[w]
               PROVE  UNCHANGED jobs
    OBVIOUS
  <2> worker \in [Workers -> Slot]
    BY DEF TypeOK
  <2>1. ASSUME NEW v \in Workers, v # w PROVE ~\E f : worker' = [worker EXCEPT ![v] = f]
    BY <2>1
  <2>2. \A j \in JobIds : ~Claim(w, j)
    BY DEF Claim, Idle
  <2>3. ASSUME NEW v \in Workers, NEW j \in JobIds PROVE ~Claim(v, j)
    BY <2>1, <2>2 DEF Claim
  <2>4. ASSUME NEW v \in Workers, Finishes(v) \/ Crash(v) PROVE UNCHANGED jobs
    <3>1. CASE v = w
      BY <2>4, <3>1 DEF Finishes, HandlerSucceeds, HandlerFails, HandlerRejects, HandlerEnds,
                        LoseLease, Complete, DeadLetter, Retry, Settle, Crash
    <3>2. CASE v # w
      BY <2>1, <2>4, <3>2 DEF Finishes, HandlerSucceeds, HandlerFails, HandlerRejects, HandlerEnds,
                        LoseLease, Complete, DeadLetter, Retry, Settle, Crash
    <3>3. QED
      BY <3>1, <3>2
  <2>5. QED
    BY <2>3, <2>4 DEF Next, EnqueueNew, EnqueueDuplicate, Cancel, PruneMarker, BecomeDue,
                      ExpireOrphan, ExpireStalled, LeaseExpires, IdlePoll, vars
<1>2. QED
  BY <1>1, TypeCorrect, PTL DEF Spec, StaleSlotsAreHarmless

-----------------------------------------------------------------------------
(* The state of JobStream as a function of the queue's.                      *)
AbsState == [j \in JobIds |-> JobOutcome(j)]
AbsStream == [j \in JobIds |-> jobs[j].stream]
AbsStarted == {j \in JobIds : jobs[j].gen > 0}

AbsStep == [Service!Next]_<<AbsState, AbsStream, AbsStarted, ran>>

LEMMA AbsStepIsServiceStep == AbsStep <=> [Service!Next]_(Service!vars)
  BY DEF AbsStep, AbsState, AbsStream, AbsStarted, Service!vars

(* A step that writes one row, keeping its stream and generation, changes    *)
(* only the abstract state of that job.                                      *)
LEMMA OneRow ==
  ASSUME Typing, NEW j \in JobIds, NEW row,
         row.stream = jobs[j].stream, row.gen = jobs[j].gen,
         jobs' = [jobs EXCEPT ![j] = row]
  PROVE  /\ AbsState' = [AbsState EXCEPT ![j] =
                            IF row.status = "live" THEN "pending" ELSE row.status]
         /\ UNCHANGED <<AbsStream, AbsStarted>>
<1>1. \A i \in JobIds : jobs'[i] = IF i = j THEN row ELSE jobs[i]
  BY DEF Typing
<1>2. AbsState' = [AbsState EXCEPT ![j] =
                     IF row.status = "live" THEN "pending" ELSE row.status]
  <2> DEFINE out == IF row.status = "live" THEN "pending" ELSE row.status
  <2>1. \A i \in JobIds : JobOutcome(i)' = IF i = j THEN out ELSE JobOutcome(i)
    BY <1>1 DEF JobOutcome
  <2> HIDE DEF out
  <2>2. AbsState' = [AbsState EXCEPT ![j] = out]
    BY <2>1 DEF AbsState
  <2>3. QED
    BY <2>2 DEF out
<1>3. AbsStream' = AbsStream
  BY <1>1 DEF AbsStream
<1>4. AbsStarted' = AbsStarted
  BY <1>1 DEF AbsStarted
<1>5. QED
  BY <1>2, <1>3, <1>4

LEMMA ResolveStep ==
  ASSUME Typing, NEW j \in JobIds, Live(j), NEW row,
         row.stream = jobs[j].stream, row.gen = jobs[j].gen,
         jobs' = [jobs EXCEPT ![j] = row], ran' = ran,
         \/ row.status \in {"live", "cancelled"}
         \/ row.status = "dead" /\ jobs[j].gen > 0
         \/ row.status = "done" /\ j \in ran
  PROVE  AbsStep
<1>1. /\ AbsState' = [AbsState EXCEPT ![j] =
                         IF row.status = "live" THEN "pending" ELSE row.status]
      /\ UNCHANGED <<AbsStream, AbsStarted>>
  BY OneRow
<1>2. AbsState[j] = "pending" /\ AbsState = [i \in JobIds |-> AbsState[i]]
  BY DEF AbsState, JobOutcome, Live
<1>3. CASE row.status = "live"
  BY <1>1, <1>2, <1>3 DEF AbsStep
<1>4. CASE row.status = "cancelled"
  <2>1. Service!Withdraw(j)
    BY <1>1, <1>2, <1>4 DEF Service!Withdraw, Service!Resolve, Service!Pending,
                            AbsState, AbsStream, AbsStarted
  <2>2. QED
    BY <2>1 DEF AbsStep, Service!Next
<1>5. CASE row.status = "dead" /\ jobs[j].gen > 0
  <2>1. Service!GiveUp(j)
    BY <1>1, <1>2, <1>5 DEF Service!GiveUp, Service!Resolve, Service!Pending,
                            AbsState, AbsStream, AbsStarted
  <2>2. QED
    BY <2>1 DEF AbsStep, Service!Next
<1>6. CASE row.status = "done" /\ j \in ran
  <2>1. Service!Finish(j)
    BY <1>1, <1>2, <1>6 DEF Service!Finish, Service!Resolve, Service!Pending,
                            AbsState, AbsStream, AbsStarted
  <2>2. QED
    BY <2>1 DEF AbsStep, Service!Next
<1>7. QED
  BY <1>3, <1>4, <1>5, <1>6

(* A step that leaves every row's outcome, stream and generation alone.      *)
LEMMA QuietRows ==
  ASSUME ran' = ran,
         \A j \in JobIds : /\ jobs'[j].status = jobs[j].status
                           /\ jobs'[j].stream = jobs[j].stream
                           /\ jobs'[j].gen = jobs[j].gen
  PROVE  AbsStep
  BY DEF AbsStep, AbsState, AbsStream, AbsStarted, JobOutcome

LEMMA SubmitStep ==
  ASSUME QueueInv, NEW k \in Keys, EnqueueNew(k) PROVE AbsStep
<1>1. Typing /\ AbsentInv /\ nextId \in JobIds
  BY TypingFacts DEF QueueInv, TypeOK, JobIds, EnqueueNew
<1>2. jobs' = [jobs EXCEPT ![nextId] = NewRow(k)] /\ ran' = ran
  BY DEF EnqueueNew
<1>3. \A i \in JobIds : jobs'[i] = IF i = nextId THEN NewRow(k) ELSE jobs[i]
  BY <1>1, <1>2 DEF Typing
<1>4. /\ NewRow(k).status = "live" /\ NewRow(k).gen = 0
      /\ NewRow(k).stream = StreamOf[k]
      /\ StreamOf[k] \in Streams \cup {NoStream}
  BY DEF NewRow
<1>5. jobs[nextId].gen = 0 /\ jobs[nextId].status = "absent"
  BY <1>1 DEF AbsentInv, Typing
<1>6. AbsState' = [AbsState EXCEPT ![nextId] = "pending"]
  BY <1>3, <1>4 DEF AbsState, JobOutcome
<1>7. AbsStream' = [AbsStream EXCEPT ![nextId] = StreamOf[k]]
  BY <1>3, <1>4 DEF AbsStream
<1>8. AbsStarted' = AbsStarted
  BY <1>3, <1>4, <1>5 DEF AbsStarted
<1>9. /\ AbsState[nextId] = "absent"
      /\ \A i \in JobIds : i > nextId => AbsStream[i] = NoStream
  BY <1>1, <1>5 DEF AbsState, AbsStream, JobOutcome, AbsentInv, Typing
<1>10. Service!Submit(nextId, StreamOf[k])
  BY <1>1, <1>2, <1>4, <1>6, <1>7, <1>8, <1>9
     DEF Service!Submit, AbsState, AbsStream, AbsStarted
<1>11. QED
  BY <1>1, <1>4, <1>10 DEF AbsStep, Service!Next

LEMMA StartStep ==
  ASSUME QueueInv, NEW w \in Workers, NEW j \in JobIds, Claim(w, j) PROVE AbsStep
<1>1. Typing /\ Live(j) /\ ~Blocked(j) /\ ran' = ran
  BY TypingFacts DEF QueueInv, Claim, Candidates
<1>2. jobs[j] \in Row
  BY <1>1 DEF Typing
<1>3. /\ jobs'[j].status = jobs[j].status /\ jobs'[j].stream = jobs[j].stream
      /\ jobs'[j].gen = jobs[j].gen + 1
      /\ \A i \in JobIds : i # j => jobs'[i] = jobs[i]
  BY <1>1, <1>2 DEF Claim, Typing, Row
<1>4. UNCHANGED <<AbsState, AbsStream>>
  BY <1>3 DEF AbsState, AbsStream, JobOutcome
<1>5. AbsStarted' = AbsStarted \cup {j}
  <2>1. jobs[j].gen \in Nat /\ jobs'[j].gen > 0
    BY <1>1, <1>3 DEF Typing
  <2>2. QED
    BY <1>3, <2>1 DEF AbsStarted
<1>6. /\ AbsState[j] = "pending"
      /\ \A i \in Service!Earlier(j) : AbsState[i] # "pending"
  <2>1. AbsState[j] = "pending"
    BY <1>1 DEF AbsState, JobOutcome, Live
  <2>2. ASSUME NEW i \in Service!Earlier(j) PROVE AbsState[i] # "pending"
    <3>1. /\ i \in JobIds /\ i < j /\ jobs[j].stream # NoStream
          /\ jobs[i].stream = jobs[j].stream
      BY <2>2 DEF Service!Earlier
    <3>2. jobs[i].status # "live"
      BY <1>1, <3>1 DEF Blocked, Live
    <3>3. jobs[i] \in Row
      BY <1>1, <3>1 DEF Typing
    <3>4. jobs[i].status # "pending"
      BY <3>3 DEF Row
    <3>5. QED
      BY <3>1, <3>2, <3>4 DEF AbsState, JobOutcome
  <2>3. QED
    BY <2>1, <2>2
<1>7. Service!Start(j)
  BY <1>1, <1>4, <1>5, <1>6 DEF Service!Start, Service!Pending, AbsState, AbsStream, AbsStarted
<1>8. QED
  BY <1>7 DEF AbsStep, Service!Next

LEMMA PerformStep ==
  ASSUME QueueInv, NEW w \in Workers, HandlerSucceeds(w) PROVE AbsStep
<1>1. /\ worker[w].phase = "running"
      /\ ran' = ran \cup {worker[w].job} /\ jobs' = jobs
  BY DEF HandlerSucceeds, HandlerEnds
<1>2. worker[w].job # 0 /\ worker[w].job \in JobIds /\ Typing
  BY <1>1, TypingFacts DEF QueueInv, TypeOK, Typing
<1>3. jobs[worker[w].job].gen > 0
  BY <1>2, HeldIsStarted DEF QueueInv
<1>4. Service!Perform(worker[w].job)
  BY <1>1, <1>2, <1>3 DEF Service!Perform, JobOutcome
<1>5. QED
  BY <1>2, <1>4 DEF AbsStep, Service!Next

LEMMA SettleStep ==
  ASSUME QueueInv, NEW w \in Workers, Complete(w) \/ DeadLetter(w) \/ Retry(w)
  PROVE  AbsStep
<1>1. TypeOK /\ Typing /\ TokenInv
  BY TypingFacts DEF QueueInv
<1>2. PICK row : Settles(w, row) /\ (Holds(w) => Outcome(w, row))
  BY <1>1, SettleCases
<1>3. CASE ~Holds(w)
  BY <1>2, <1>3, QuietRows DEF Settles
<1>4. CASE Holds(w)
  <2> DEFINE j == worker[w].job
  <2>1. j # 0 /\ j \in JobIds /\ Live(j)
    BY <1>1, <1>4 DEF Holds, Typing
  <2>2. jobs[j].gen > 0 /\ (worker[w].phase = "succeeded" => j \in ran)
    BY <1>1, <2>1, HeldIsStarted
  <2>3. jobs' = [jobs EXCEPT ![j] = row] /\ ran' = ran
    BY <1>2, <1>4 DEF Settles
  <2>4. /\ row.stream = jobs[j].stream /\ row.gen = jobs[j].gen
        /\ \/ row.status \in {"live", "cancelled"}
           \/ row.status = "dead" /\ jobs[j].gen > 0
           \/ row.status = "done" /\ j \in ran
    BY <1>2, <1>4, <2>2 DEF Outcome
  <2>5. QED
    BY <1>1, <2>1, <2>3, <2>4, ResolveStep
<1>5. QED
  BY <1>3, <1>4

LEMMA RefinementStep == QueueInv /\ [Next]_vars => AbsStep
<1> SUFFICES ASSUME QueueInv, [Next]_vars PROVE AbsStep
  OBVIOUS
<1> Typing
  BY TypingFacts DEF QueueInv
<1>1. ASSUME NEW k \in Keys, EnqueueNew(k) \/ EnqueueDuplicate(k) PROVE AbsStep
  BY <1>1, SubmitStep, QuietRows DEF EnqueueDuplicate
<1>2. ASSUME NEW k \in Keys, Cancel(k) PROVE AbsStep
  <2>1. PICK j \in LiveWith(k) :
          /\ jobs' = [jobs EXCEPT ![j].status = "cancelled", ![j].lease = "none",
                                  ![j].owner = NoWorker]
          /\ ran' = ran
    BY <1>2 DEF Cancel
  <2>2. j \in JobIds /\ Live(j) /\ jobs[j] \in Row
    BY DEF LiveWith, Typing
  <2> DEFINE row == jobs'[j]
  <2>3. /\ row.stream = jobs[j].stream /\ row.gen = jobs[j].gen
        /\ row.status = "cancelled" /\ jobs' = [jobs EXCEPT ![j] = row]
    BY <2>1, <2>2 DEF Typing, Row
  <2> HIDE DEF row
  <2>4. QED
    BY <2>1, <2>2, <2>3, ResolveStep
<1>3. ASSUME NEW s \in Streams, PruneMarker(s) PROVE AbsStep
  BY <1>3, QuietRows DEF PruneMarker
<1>4. ASSUME NEW j \in JobIds, BecomeDue(j) \/ ExpireOrphan(j) \/ ExpireStalled(j)
      PROVE AbsStep
  <2>1. jobs[j] \in Row
    BY DEF Typing
  <2>2. BecomeDue(j) \/ LeaseExpires(j)
    BY <1>4 DEF ExpireOrphan, ExpireStalled
  <2>3. CASE BecomeDue(j)
    BY <2>1, <2>3, QuietRows DEF BecomeDue, Typing, Row
  <2>4. CASE LeaseExpires(j)
    BY <2>1, <2>4, QuietRows DEF LeaseExpires, Typing, Row
  <2>5. QED
    BY <2>2, <2>3, <2>4
<1>5. ASSUME NEW w \in Workers, NEW j \in JobIds, Claim(w, j) PROVE AbsStep
  BY <1>5, StartStep
<1>6. ASSUME NEW w \in Workers, HandlerFails(w) \/ HandlerRejects(w) PROVE AbsStep
  BY <1>6, QuietRows DEF HandlerFails, HandlerRejects, HandlerEnds
<1>7. ASSUME NEW w \in Workers, LoseLease(w) \/ Crash(w) PROVE AbsStep
  BY <1>7, QuietRows DEF LoseLease, Crash
<1>8. ASSUME UNCHANGED vars PROVE AbsStep
  BY <1>8, QuietRows DEF vars
<1>9. QED
  BY <1>1, <1>2, <1>3, <1>4, <1>5, <1>6, <1>7, <1>8, PerformStep, SettleStep
     DEF Next, Finishes, IdlePoll

(* Theorem: for every number of slots, keys, streams, retries and faults the *)
(* queue of jobs.rs with the loop of worker.rs implements JobStream.         *)
THEOREM QueueKeepsPromises == Spec => KeepsPromises
<1>1. Init => Service!Init
  BY DEF Init, Service!Init, NoRow, JobOutcome
<1>2. QueueInv /\ [Next]_vars => [Service!Next]_(Service!vars)
  BY RefinementStep, AbsStepIsServiceStep
<1>3. QED
  BY <1>1, <1>2, QueueInvariant, PTL DEF Spec, KeepsPromises, Service!Spec
=============================================================================
