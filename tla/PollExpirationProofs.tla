------------------------ MODULE PollExpirationProofs ------------------------
(***************************************************************************)
(* What PollExpiration guarantees for any voters, expiries and bounds: an  *)
(* end is announced only when it is the poll's own and due, never when it  *)
(* lies before the activation, and the end of a local poll to everybody.   *)
(***************************************************************************)
EXTENDS PollExpiration, TLAPS

(* Before the activation nothing has been carried out.                       *)
Dormant ==
  activation = 0 =>
    /\ \A g \in Times : effect[g] = "none" /\ pass[g] = "idle"
    /\ \A k \in Jobs : job[k].state = "none"
    /\ late = {}

(* What was announced is over, so no ballot is accepted behind it.           *)
AnnouncedIsOver == \A g \in Times : effect[g] = "enqueued" => g <= now

LocalHasExpiry == local => poll.expires # 0

PollInv == TypeOK /\ Dormant /\ HistoryIsSilent /\ AnnouncedIsOver /\ LocalHasExpiry /\ EveryoneIsTold

------------------------------------------------------------------------------
(* An intent's generation is an expiry; expiries are positive.               *)
LEMMA KeysOfGenerations ==
  /\ \A k \in Jobs : k[2] \in Times
  /\ \A k \in Intents : k[2] \in Times /\ k \in Jobs
  /\ \A g \in Times : /\ g \in Nat /\ g > 0
                      /\ <<"reschedule", g>> \in Intents /\ <<"repair", g>> \in Jobs
  BY PollExpirationAssumption DEF PollExpirationAssumption, Jobs, Intents

(* The clock and the activation are numbers.                                 *)
LEMMA Clocks == TypeOK => now \in Nat /\ activation \in Nat
  BY PollExpirationAssumption DEF PollExpirationAssumption, TypeOK

(* What is due after the activation lies between the two.                    *)
LEMMA DueAfterActivation ==
  ASSUME TypeOK, activation # 0, NEW g \in Times, ~Historical(g), g <= now
  PROVE  g \in activation + 1 .. now
<1>1. g \in Nat /\ now \in Nat /\ activation \in Nat
  BY KeysOfGenerations, Clocks
<1>2. g > activation
  BY <1>1 DEF Historical
<1> QED
  BY <1>1, <1>2

(* Recording an intent keeps the events well typed.                          *)
LEMMA RecordOnceType ==
  ASSUME TypeOK, NEW k \in Intents, RecordOnce(k)
  PROVE  event' \in [Intents -> {"none", "pending", "dispatched"}]
  BY DEF TypeOK, RecordOnce

(* The markers after a finalization, and who has been told.                  *)
LEMMA FinalizationType ==
  ASSUME TypeOK, NEW g \in Times
  PROVE  /\ Marked(g) \in [Times -> {"none", "historical", "enqueued", "suppressed"}]
         /\ Notified(g) \subseteq Voters \cup {"owner", "update"}
         /\ told \subseteq Notified(g)
  BY DEF TypeOK, Marked, Notified, Outcome, Recipients

(* The outcome of finalizing g in an active worker.                          *)
LEMMA FinalizationSound ==
  ASSUME TypeOK, HistoryIsSilent, AnnouncedIsOver, NEW g \in Times
  PROVE  /\ \A h \in Times : Historical(h) => Marked(g)[h] \in {"none", "historical"}
         /\ \A h \in Times : Marked(g)[h] = "enqueued" => h <= now
         /\ \A h \in Times \ {g} : Marked(g)[h] = effect[h]
         /\ Marked(g)[g] = "enqueued" => effect[g] = "enqueued" \/ Recipients \subseteq Notified(g)
         /\ Notified(g) # told => ~Historical(g) /\ g <= now
  BY KeysOfGenerations DEF TypeOK, HistoryIsSilent, AnnouncedIsOver, Marked, Notified, Finalizes, Outcome

------------------------------------------------------------------------------
(* A new or an older poll, before the worker starts.                         *)
LEMMA InitInv == Init => PollInv
<1> SUFFICES ASSUME Init PROVE PollInv
  OBVIOUS
<1>1. TypeOK
  <2>1. [state |-> "none", attempts |-> 0] \in Job
    BY PollExpirationAssumption DEF PollExpirationAssumption, Job
  <2>2. now \in 1 .. MaxTime /\ activation \in 0 .. now /\ edits \in 0 .. MaxEdits /\ faults \in 0 .. MaxFaults
    BY PollExpirationAssumption DEF PollExpirationAssumption, Init
  <2>3. event \in [Intents -> {"none", "pending", "dispatched"}] /\ job \in [Jobs -> Job]
    BY <2>1 DEF Init
  <2> QED
    BY <2>2, <2>3 DEF Init, TypeOK
<1>2. Dormant /\ HistoryIsSilent /\ AnnouncedIsOver /\ LocalHasExpiry
  BY DEF Init, Dormant, HistoryIsSilent, AnnouncedIsOver, LocalHasExpiry
<1>3. EveryoneIsTold
  BY DEF Init, EveryoneIsTold
<1> QED
  BY <1>1, <1>2, <1>3 DEF PollInv

------------------------------------------------------------------------------
(* Types, one action after another.                                          *)
LEMMA TypeStep == TypeOK /\ [Next]_vars => TypeOK'
<1> SUFFICES ASSUME TypeOK, [Next]_vars PROVE TypeOK'
  OBVIOUS
<1> USE DEF TypeOK
<1>1. CASE Tick \/ Activate \/ Remove \/ Scan
  <2>1. CASE Tick
    BY <2>1, PollExpirationAssumption DEF PollExpirationAssumption, Tick
  <2>2. CASE Activate
    BY <2>2, PollExpirationAssumption DEF PollExpirationAssumption, Activate
  <2>3. CASE Remove
    BY <2>3 DEF Remove
  <2>4. CASE Scan
    BY <2>4 DEF Scan
  <2> QED
    BY <1>1, <2>1, <2>2, <2>3, <2>4
<1>2. CASE \E v \in Voters : Vote(v)
  <2> PICK v \in Voters : Vote(v)
    BY <1>2
  <2>1. event' \in [Intents -> {"none", "pending", "dispatched"}]
    BY RecordOnceType, KeysOfGenerations DEF Vote
  <2> QED
    BY <2>1 DEF Vote
<1>3. CASE \E e \in Times \cup {0} : EditOpen(e)
  <2> PICK e \in Times \cup {0} : EditOpen(e)
    BY <1>3
  <2>1. event' \in [Intents -> {"none", "pending", "dispatched"}]
    BY RecordOnceType, KeysOfGenerations DEF EditOpen
  <2> QED
    BY <2>1, PollExpirationAssumption DEF PollExpirationAssumption, EditOpen
<1>4. CASE \E e \in Times \cup {0} : EditClosed(e)
  <2> PICK e \in Times \cup {0} : EditClosed(e)
    BY <1>4
  <2>1. poll.expires \in Times
    BY DEF EditClosed
  <2>2. /\ effect' \in [Times -> {"none", "historical", "enqueued", "suppressed"}]
        /\ told' \subseteq Voters \cup {"owner", "update"}
    BY <2>1, FinalizationType DEF EditClosed
  <2> QED
    BY <2>2, PollExpirationAssumption DEF PollExpirationAssumption, EditClosed
<1>5. CASE \E e \in Times \cup {0} : Reshape(e)
  <2> PICK e \in Times \cup {0} : Reshape(e)
    BY <1>5
  <2>1. poll' \in [live : BOOLEAN, expires : Times \cup {0}, votes : SUBSET Voters]
    BY DEF Reshape
  <2> QED
    BY <2>1, PollExpirationAssumption DEF PollExpirationAssumption, Reshape
<1>6. CASE \E k \in Intents : DispatchOutbox(k)
  <2> PICK k \in Intents : DispatchOutbox(k)
    BY <1>6
  <2>1. k \in Jobs /\ [state |-> "queued", attempts |-> 0] \in Job
    BY KeysOfGenerations, PollExpirationAssumption DEF PollExpirationAssumption, Job
  <2> QED
    BY <2>1 DEF DispatchOutbox
<1>7. CASE \E k \in Jobs : Claim(k) \/ Complete(k) \/ LoseLease(k) \/ Fail(k)
  <2> PICK k \in Jobs : Claim(k) \/ Complete(k) \/ LoseLease(k) \/ Fail(k)
    BY <1>7
  <2> USE PollExpirationAssumption DEF PollExpirationAssumption, Job
  <2>1. CASE Claim(k)
    BY <2>1 DEF Claim
  <2>2. CASE Complete(k)
    BY <2>2 DEF Complete
  <2>3. CASE LoseLease(k)
    BY <2>3, KeysOfGenerations DEF LoseLease, CanFail
  <2>4. CASE Fail(k)
    BY <2>4 DEF Fail, CanFail
  <2> QED
    BY <2>1, <2>2, <2>3, <2>4
<1>8. ASSUME NEW g \in Times, Expire(g)
      PROVE  /\ event' \in [Intents -> {"none", "pending", "dispatched"}]
             /\ effect' \in [Times -> {"none", "historical", "enqueued", "suppressed"}]
             /\ told' \subseteq Voters \cup {"owner", "update"}
  BY <1>8, FinalizationType, RecordOnceType, KeysOfGenerations, ZenonT(60) DEF Expire
<1>9. CASE \E k \in Jobs : Run(k)
  BY <1>8, <1>9, KeysOfGenerations DEF Run, Expire, Job
<1>10. CASE \E g \in Times : RunLate(g)
  BY <1>8, <1>10 DEF RunLate, Expire
<1>11. CASE \E g \in Times : Inspect(g) \/ Repair(g) \/ Interrupt(g)
  <2> PICK g \in Times : Inspect(g) \/ Repair(g) \/ Interrupt(g)
    BY <1>11
  <2>1. CASE Inspect(g)
    BY <2>1 DEF Inspect
  <2>2. CASE Repair(g)
    <3>1. [state |-> "queued", attempts |-> 0] \in Job
      BY PollExpirationAssumption DEF PollExpirationAssumption, Job
    <3>2. <<"repair", g>> \in Jobs
      BY KeysOfGenerations
    <3> QED
      BY <2>2, <3>1, <3>2 DEF Repair
  <2>3. CASE Interrupt(g)
    BY <2>3, PollExpirationAssumption DEF PollExpirationAssumption, Interrupt, CanFail
  <2> QED
    BY <2>1, <2>2, <2>3
<1>12. CASE UNCHANGED vars
  BY <1>12 DEF vars
<1> QED
  BY <1>1, <1>2, <1>3, <1>4, <1>5, <1>6, <1>7, <1>9, <1>10, <1>11, <1>12 DEF Next

------------------------------------------------------------------------------
(* A handler: on time or late, with a job of this or of an older expiry.     *)
LEMMA ExpireStep ==
  ASSUME PollInv, NEW g \in Times, Expire(g), activation # 0
  PROVE  /\ HistoryIsSilent' /\ AnnouncedIsOver' /\ EveryoneIsTold'
         /\ told' # told => poll.live /\ poll.expires \in activation + 1 .. now
<1> USE DEF PollInv
<1>1. /\ now' = now /\ activation' = activation /\ local' = local /\ poll' = poll
      /\ \/ effect' = effect /\ told' = told
         \/ poll.live /\ poll.expires = g /\ effect' = Marked(g) /\ told' = Notified(g)
  BY DEF Expire
<1>2. CASE effect' = effect /\ told' = told
  BY <1>1, <1>2 DEF HistoryIsSilent, AnnouncedIsOver, EveryoneIsTold, Historical, Recipients
<1>3. CASE poll.live /\ poll.expires = g /\ effect' = Marked(g) /\ told' = Notified(g)
  <2>1. HistoryIsSilent' /\ AnnouncedIsOver'
    BY <1>1, <1>3, FinalizationSound DEF HistoryIsSilent, AnnouncedIsOver, Historical
  <2>2. effect'[g] = "enqueued" => effect[g] = "enqueued" \/ Recipients \subseteq told'
    BY <1>3, FinalizationSound
  <2>3. told \subseteq told'
    BY <1>3, FinalizationType
  <2>4. EveryoneIsTold'
    BY <1>1, <1>3, <2>2, <2>3 DEF EveryoneIsTold, Recipients
  <2>5. told' # told => ~Historical(g) /\ g <= now
    BY <1>3, FinalizationSound
  <2>6. told' # told => poll.expires \in activation + 1 .. now
    BY <1>3, <2>5, DueAfterActivation
  <2> QED
    BY <1>3, <2>1, <2>4, <2>6
<1> QED
  BY <1>1, <1>2, <1>3

(* An edit after the end, which announces it before it moves it.             *)
LEMMA EditClosedStep ==
  ASSUME PollInv, NEW e \in Times \cup {0}, EditClosed(e)
  PROVE  /\ HistoryIsSilent' /\ AnnouncedIsOver' /\ EveryoneIsTold'
         /\ told' # told => poll.live /\ poll.expires \in activation + 1 .. now
<1> USE DEF PollInv
<1> DEFINE g == poll.expires
<1>1. g \in Times /\ poll.live /\ ~local /\ activation # 0
  BY DEF EditClosed, TypeOK
<1>2. /\ now' = now /\ activation' = activation /\ local' = local /\ told' = Notified(g)
      /\ \A h \in Times : effect'[h] = Marked(g)[h]
                            \/ effect'[h] = (IF Historical(h) THEN "historical" ELSE "suppressed")
  BY <1>1, FinalizationType DEF EditClosed
<1>3. HistoryIsSilent' /\ AnnouncedIsOver'
  BY <1>1, <1>2, FinalizationSound DEF HistoryIsSilent, AnnouncedIsOver, Historical
<1>4. EveryoneIsTold'
  BY <1>1, <1>2 DEF EveryoneIsTold
<1>5. told' # told => ~Historical(g) /\ g <= now
  BY <1>1, <1>2, FinalizationSound
<1>6. told' # told => g \in activation + 1 .. now
  BY <1>1, <1>5, DueAfterActivation
<1> QED
  BY <1>1, <1>3, <1>4, <1>6

(* Every step keeps it.                                                      *)
LEMMA InvStep == PollInv /\ [Next]_vars => PollInv'
<1> SUFFICES ASSUME PollInv, [Next]_vars PROVE PollInv'
  OBVIOUS
<1>0. TypeOK'
  BY TypeStep DEF PollInv
<1> SUFFICES Dormant' /\ HistoryIsSilent' /\ AnnouncedIsOver' /\ LocalHasExpiry' /\ EveryoneIsTold'
  BY <1>0 DEF PollInv
<1> USE DEF PollInv
<1>1. CASE Tick
  <2>1. /\ now' = now + 1 /\ now \in Nat
        /\ UNCHANGED <<activation, local, poll, job, late, effect, told, pass>>
    BY <1>1, Clocks DEF Tick
  <2>2. Dormant' /\ HistoryIsSilent' /\ LocalHasExpiry' /\ EveryoneIsTold'
    BY <2>1 DEF Dormant, HistoryIsSilent, LocalHasExpiry, EveryoneIsTold, Historical, Recipients
  <2>3. AnnouncedIsOver'
    <3> SUFFICES ASSUME NEW g \in Times, effect'[g] = "enqueued" PROVE g <= now'
      BY DEF AnnouncedIsOver
    <3>1. g \in Nat /\ g <= now
      BY <2>1, KeysOfGenerations DEF AnnouncedIsOver
    <3> QED
      BY <2>1, <3>1
  <2> QED
    BY <2>2, <2>3
<1>2. CASE Activate
  <2>1. \A g \in Times : effect'[g] = "none"
    BY <1>2 DEF Activate, Dormant
  <2>2. activation' # 0
    BY <1>2 DEF Activate, TypeOK
  <2>3. poll' = poll /\ local' = local /\ told' = told /\ effect' = effect
    BY <1>2 DEF Activate
  <2> QED
    BY <2>1, <2>2, <2>3 DEF Dormant, HistoryIsSilent, AnnouncedIsOver, LocalHasExpiry, EveryoneIsTold, Recipients
<1>3. CASE Remove \/ (\E v \in Voters : Vote(v)) \/ (\E e \in Times \cup {0} : EditOpen(e) \/ Reshape(e))
  <2>1. /\ now' = now /\ activation' = activation /\ local' = local /\ effect' = effect /\ told' = told
        /\ pass' = pass /\ job' = job /\ late' = late
    BY <1>3 DEF Remove, Vote, EditOpen, Reshape
  <2>2. Dormant' /\ HistoryIsSilent' /\ AnnouncedIsOver'
    BY <2>1 DEF Dormant, HistoryIsSilent, AnnouncedIsOver, Historical
  <2>3. local => poll'.expires = poll.expires /\ (~poll'.live \/ poll.expires > now)
    <3>1. CASE Remove
      BY <3>1 DEF Remove, TypeOK
    <3>2. CASE \E v \in Voters : Vote(v)
      BY <3>2 DEF Vote, TypeOK, LocalHasExpiry
    <3>3. CASE \E e \in Times \cup {0} : EditOpen(e) \/ Reshape(e)
      BY <3>3 DEF EditOpen, Reshape
    <3> QED
      BY <1>3, <3>1, <3>2, <3>3
  <2>4. local /\ effect[poll.expires] = "enqueued" => ~(poll.expires > now)
    <3> SUFFICES ASSUME local PROVE effect[poll.expires] = "enqueued" => ~(poll.expires > now)
      OBVIOUS
    <3>1. poll.expires \in Times
      BY DEF TypeOK, LocalHasExpiry
    <3>2. poll.expires \in Nat /\ now \in Nat
      BY <3>1, KeysOfGenerations, Clocks
    <3>3. effect[poll.expires] = "enqueued" => poll.expires <= now
      BY <3>1 DEF AnnouncedIsOver
    <3> QED
      BY <3>2, <3>3
  <2> QED
    BY <2>1, <2>2, <2>3, <2>4 DEF LocalHasExpiry, EveryoneIsTold
<1>4. CASE \E e \in Times \cup {0} : EditClosed(e)
  <2> PICK e \in Times \cup {0} : EditClosed(e)
    BY <1>4
  <2>1. Dormant' /\ LocalHasExpiry'
    BY DEF EditClosed, Dormant, LocalHasExpiry
  <2> QED
    BY <2>1, EditClosedStep
<1>5. CASE \E k \in Jobs : Run(k)
  <2> PICK k \in Jobs : Run(k)
    BY <1>5
  <2>1. activation # 0 /\ k[2] \in Times /\ Expire(k[2])
    BY KeysOfGenerations DEF Run, Dormant
  <2>2. Dormant' /\ LocalHasExpiry'
    BY <2>1 DEF Expire, Dormant, LocalHasExpiry
  <2> QED
    BY <2>1, <2>2, ExpireStep
<1>6. CASE \E g \in Times : RunLate(g)
  <2> PICK g \in Times : RunLate(g)
    BY <1>6
  <2>1. activation # 0 /\ Expire(g)
    BY DEF RunLate, Dormant
  <2>2. Dormant' /\ LocalHasExpiry'
    BY <2>1 DEF Expire, Dormant, LocalHasExpiry
  <2> QED
    BY <2>1, <2>2, ExpireStep
<1>7. CASE \/ Scan \/ (\E k \in Intents : DispatchOutbox(k))
           \/ \E k \in Jobs : Claim(k) \/ Complete(k) \/ LoseLease(k) \/ Fail(k)
           \/ \E g \in Times : Repair(g) \/ Interrupt(g)
  <2>1. /\ now' = now /\ activation' = activation /\ local' = local /\ poll' = poll
        /\ effect' = effect /\ told' = told
    BY <1>7 DEF Scan, DispatchOutbox, Claim, Complete, LoseLease, Fail, Repair, Interrupt
  <2>2. activation # 0
    BY <1>7, KeysOfGenerations DEF Scan, DispatchOutbox, Claim, Complete, LoseLease, Fail, Repair, Interrupt,
                                   Working, Dormant
  <2> QED
    BY <2>1, <2>2 DEF Dormant, HistoryIsSilent, AnnouncedIsOver, LocalHasExpiry, EveryoneIsTold,
                      Historical, Recipients
<1>8. CASE \E g \in Times : Inspect(g)
  <2> PICK g \in Times : Inspect(g)
    BY <1>8
  <2>1. /\ now' = now /\ activation' = activation /\ local' = local /\ poll' = poll /\ told' = told
        /\ \A h \in Times : effect'[h] \in {effect[h], "historical"}
    BY DEF Inspect, TypeOK
  <2>2. activation # 0
    BY DEF Inspect, Dormant
  <2>3. local => poll.expires \in Times
    BY DEF TypeOK, LocalHasExpiry
  <2> QED
    BY <2>1, <2>2, <2>3 DEF Dormant, HistoryIsSilent, AnnouncedIsOver, LocalHasExpiry, EveryoneIsTold,
                            Historical, Recipients
<1>9. CASE UNCHANGED vars
  BY <1>9 DEF vars, Dormant, HistoryIsSilent, AnnouncedIsOver, LocalHasExpiry, EveryoneIsTold, Historical, Recipients
<1> QED
  BY <1>1, <1>2, <1>3, <1>4, <1>5, <1>6, <1>7, <1>8, <1>9 DEF Next

(* Every reachable state is well formed.                                     *)
THEOREM TypeCorrect == Spec => []TypeOK
<1>1. PollInv => TypeOK
  BY DEF PollInv
<1> QED
  BY <1>1, InitInv, InvStep, PTL DEF Spec

(* A poll that was over before the activation never announces anything, by   *)
(* whatever handler, reconciliation or edit.                                 *)
THEOREM HistoryStaysSilent == Spec => []HistoryIsSilent
<1>1. PollInv => HistoryIsSilent
  BY DEF PollInv
<1> QED
  BY <1>1, InitInv, InvStep, PTL DEF Spec

(* The end of a poll of this server has been announced to everybody          *)
(* concerned or to nobody.                                                   *)
THEOREM ToldTogether == Spec => []EveryoneIsTold
<1>1. PollInv => EveryoneIsTold
  BY DEF PollInv
<1> QED
  BY <1>1, InitInv, InvStep, PTL DEF Spec

(* A step that tells somebody of an end, a handler or an edit, tells of the  *)
(* poll's own, which is over and was not before the activation.              *)
LEMMA NoticeStep ==
  PollInv /\ [Next]_vars => [told' # told => poll.live /\ poll.expires \in activation + 1 .. now]_vars
<1> SUFFICES ASSUME PollInv, Next, told' # told
             PROVE  poll.live /\ poll.expires \in activation + 1 .. now
  BY DEF vars
<1>1. CASE \E e \in Times \cup {0} : EditClosed(e)
  BY <1>1, EditClosedStep
<1>2. CASE \E k \in Jobs : Run(k)
  BY <1>2, ExpireStep, KeysOfGenerations DEF Run, PollInv, Dormant
<1>3. CASE \E g \in Times : RunLate(g)
  BY <1>3, ExpireStep DEF RunLate, PollInv, Dormant
<1> QED
  BY <1>1, <1>2, <1>3 DEF Next, Tick, Activate, Remove, Scan, Vote, EditOpen, Reshape, DispatchOutbox, Claim,
                          Complete, LoseLease, Fail, Inspect, Repair, Interrupt

(* Nobody is told of an end that is not the poll's, not yet due, or older    *)
(* than the activation.                                                      *)
THEOREM NoticesAreDue == Spec => NoticeIsDue
<1> QED
  BY InitInv, InvStep, NoticeStep, PTL DEF Spec, NoticeIsDue
=============================================================================
