--------------------------- MODULE PollExpiration ---------------------------
(***************************************************************************)
(* The end of one poll.  Each expiry the poll has had is a generation; the *)
(* intents to act on it are recorded by the poll's creation, by votes and  *)
(* by edits of a remote poll, repaired by the reconciliation of            *)
(* worker/poll_expiration.rs and jobs.rs, and carried out at most once by  *)
(* finalize_poll_expiration_generation_in of remote_note.rs, whose marker  *)
(* is the effect of the generation.  Dispatched intents stay for ever, so  *)
(* an intent recorded once is never recorded again.                        *)
(***************************************************************************)
EXTENDS Naturals

CONSTANTS
  Voters,       (* accounts of this server                                  *)
  Times,        (* the expiries a poll can be given                         *)
  Delay,        (* the five minutes a remote poll is waited for             *)
  MaxAttempts,  (* max_attempts of an expiration job                        *)
  MaxTime,      (* bound: the clock stops there                             *)
  MaxEdits,     (* bound: edits of the remote poll                          *)
  MaxFaults     (* bound: lost leases, failures, interrupted passes         *)

ASSUME PollExpirationAssumption ==
  /\ {Delay, MaxEdits, MaxFaults} \subseteq Nat /\ {MaxAttempts, MaxTime} \subseteq Nat \ {0}
  /\ Times \subseteq 1 .. MaxTime

VARIABLES
  now,         (* clock_timestamp()                                         *)
  activation,  (* the activation marker, or 0                               *)
  local,       (* the author is an account of this server                   *)
  poll,        (* live: it and its status exist; its expiry, or 0; ballots  *)
  event,       (* outbox events of the expiration kind                      *)
  job,         (* durable jobs of the expiration kind                       *)
  late,        (* generations whose handler outlived its lease              *)
  effect,      (* effect markers                                            *)
  told,        (* notifications, and the final Update of a local poll       *)
  pass,        (* reconciliation: the snapshot of each generation           *)
  edits, faults

vars == <<now, activation, local, poll, event, job, late, effect, told, pass, edits, faults>>

Intents == {"initial", "reschedule"} \X Times

Jobs == {"initial", "reschedule", "repair"} \X Times

Job == [state : {"none", "queued", "leased", "ran", "dead"}, attempts : 0 .. MaxAttempts]

(* Votes and edits of remote polls, and repairs of them, wait for Delay.     *)
RunAt(k) == k[2] + (IF k[1] = "initial" \/ (k[1] = "repair" /\ local) THEN 0 ELSE Delay)

(* poll_expiration_is_historical.                                            *)
Historical(g) == activation # 0 /\ g <= activation

(* A poll of this server with its intent, or any poll of before that has none. *)
Init ==
  /\ now = 1 /\ activation = 0 /\ local \in BOOLEAN
  /\ poll \in [live : {TRUE}, expires : Times \cup {0}, votes : SUBSET Voters]
  /\ event \in [Intents -> {"none", "pending"}]
  /\ \A k \in Intents : event[k] = "pending" => local /\ poll.votes = {} /\ k = <<"initial", poll.expires>>
  /\ local => poll.expires # 0
  /\ job = [k \in Jobs |-> [state |-> "none", attempts |-> 0]]
  /\ late = {} /\ effect = [g \in Times |-> "none"] /\ told = {}
  /\ pass = [g \in Times |-> "idle"]
  /\ edits = 0 /\ faults = 0

Tick ==
  /\ now < MaxTime
  /\ now' = now + 1
  /\ UNCHANGED <<activation, local, poll, event, job, late, effect, told, pass, edits, faults>>

(* ensure_poll_expiration_activation, before the worker does anything.       *)
Activate ==
  /\ activation = 0
  /\ activation' = now
  /\ UNCHANGED <<now, local, poll, event, job, late, effect, told, pass, edits, faults>>

------------------------------------------------------------------------------
RecordOnce(k) == event' = IF event[k] = "none" THEN [event EXCEPT ![k] = "pending"] ELSE event

(* Mistake: a ballot is accepted after the end.                              *)
VoteLate(v) ==
  /\ poll.live /\ v \notin poll.votes
  /\ poll' = [poll EXCEPT !.votes = @ \cup {v}]
  /\ IF ~local /\ poll.expires # 0 THEN RecordOnce(<<"reschedule", poll.expires>>) ELSE UNCHANGED event
  /\ UNCHANGED <<now, activation, local, job, late, effect, told, pass, edits, faults>>

(* vote_poll, first ballot of an account.                                    *)
Vote(v) ==
  /\ poll.live /\ v \notin poll.votes
  /\ poll.expires = 0 \/ poll.expires > now
  /\ poll' = [poll EXCEPT !.votes = @ \cup {v}]
  /\ IF ~local /\ poll.expires # 0 THEN RecordOnce(<<"reschedule", poll.expires>>) ELSE UNCHANGED event
  /\ UNCHANGED <<now, activation, local, job, late, effect, told, pass, edits, faults>>

(* Mistake: the activation is not looked at.                                 *)
OutcomeOfAll(g) == "enqueued"

(* The marker finalize_poll_expiration_generation_in writes for a due g.     *)
Outcome(g) == IF Historical(g) THEN "historical" ELSE "enqueued"

Recipients == poll.votes \cup (IF local THEN {"owner", "update"} ELSE {})

(* finalize_poll_expiration_generation_in: the markers and notices after it. *)
Finalizes(g) == effect[g] = "none" /\ (Historical(g) \/ g <= now)

Marked(g) == IF Finalizes(g) THEN [effect EXCEPT ![g] = Outcome(g)] ELSE effect

Notified(g) == IF Finalizes(g) /\ Outcome(g) = "enqueued" THEN told \cup Recipients ELSE told

(* upsert_remote_poll with another expiry, 0 for none, and the same options. *)
EditOpen(e) ==
  /\ poll.live /\ ~local /\ e # poll.expires /\ edits < MaxEdits
  /\ poll.votes = {} \/ poll.expires = 0 \/ poll.expires > now
  /\ poll' = [poll EXCEPT !.expires = e]
  /\ IF poll.votes # {} /\ e # 0 THEN RecordOnce(<<"reschedule", e>>) ELSE UNCHANGED event
  /\ edits' = edits + 1
  /\ UNCHANGED <<now, activation, local, job, late, effect, told, pass, faults>>

(* The previous expiry is over: it is finalized first, and nobody is told of *)
(* the new one.                                                              *)
EditClosed(e) ==
  /\ poll.live /\ ~local /\ e # poll.expires /\ edits < MaxEdits /\ activation # 0
  /\ poll.votes # {} /\ poll.expires # 0 /\ poll.expires <= now
  /\ poll' = [poll EXCEPT !.expires = e]
  /\ told' = Notified(poll.expires)
  /\ LET marked == Marked(poll.expires) IN
     effect' = IF e = 0 \/ marked[e] # "none" THEN marked
               ELSE [marked EXCEPT ![e] = IF Historical(e) THEN "historical" ELSE "suppressed"]
  /\ edits' = edits + 1
  /\ UNCHANGED <<now, activation, local, event, job, late, pass, faults>>

(* With other options: the ballots are gone and no intent is recorded.       *)
Reshape(e) ==
  /\ poll.live /\ ~local /\ edits < MaxEdits
  /\ poll' = [poll EXCEPT !.expires = e, !.votes = {}]
  /\ edits' = edits + 1
  /\ UNCHANGED <<now, activation, local, event, job, late, effect, told, pass, faults>>

(* The status is deleted, or an edit takes the poll away.                    *)
Remove ==
  /\ poll.live
  /\ poll' = [poll EXCEPT !.live = FALSE, !.votes = {}]
  /\ UNCHANGED <<now, activation, local, event, job, late, effect, told, pass, edits, faults>>

------------------------------------------------------------------------------
(* The outbox and the queue.                                                 *)
Working == activation # 0

DispatchOutbox(k) ==
  /\ Working /\ event[k] = "pending"
  /\ event' = [event EXCEPT ![k] = "dispatched"]
  /\ job' = [job EXCEPT ![k] = [state |-> "queued", attempts |-> 0]]
  /\ UNCHANGED <<now, activation, local, poll, late, effect, told, pass, edits, faults>>

(* Mistake: attempts grow past their maximum when an execution is lost.      *)
ClaimAgain(k) ==
  /\ Working /\ job[k].state = "queued" /\ RunAt(k) <= now
  /\ job' = [job EXCEPT ![k] = [state |-> "leased", attempts |-> @.attempts + 1]]
  /\ UNCHANGED <<now, activation, local, poll, event, late, effect, told, pass, edits, faults>>

Claim(k) ==
  /\ Working /\ job[k].state = "queued" /\ RunAt(k) <= now
  /\ job' = [job EXCEPT ![k] = [state |-> "leased", attempts |-> IF @.attempts < MaxAttempts
                                                                THEN @.attempts + 1 ELSE @.attempts]]
  /\ UNCHANGED <<now, activation, local, poll, event, late, effect, told, pass, edits, faults>>

(* Mistake: the job acts on its own generation, whatever the poll's is.      *)
ExpireJobs(g) ==
  /\ IF poll.live THEN effect' = Marked(g) /\ told' = Notified(g) ELSE UNCHANGED <<effect, told>>
  /\ UNCHANGED <<now, activation, local, poll, event, pass, edits, faults>>

(* expire_poll_generation: the poll may be gone or have another expiry.  A   *)
(* job that came too early would record another one.                         *)
Expire(g) ==
  /\ IF poll.live /\ poll.expires = g
     THEN /\ effect' = Marked(g) /\ told' = Notified(g)
          /\ IF effect[g] = "none" /\ ~Finalizes(g) THEN RecordOnce(<<"reschedule", g>>) ELSE UNCHANGED event
     ELSE UNCHANGED <<effect, told, event>>
  /\ UNCHANGED <<now, activation, local, poll, pass, edits, faults>>

Run(k) ==
  /\ job[k].state = "leased"
  /\ Expire(k[2])
  /\ job' = [job EXCEPT ![k].state = "ran"]
  /\ UNCHANGED late

RunLate(g) ==
  /\ g \in late
  /\ Expire(g)
  /\ late' = late \ {g}
  /\ UNCHANGED job

Complete(k) ==
  /\ job[k].state = "ran"
  /\ job' = [job EXCEPT ![k] = [state |-> "none", attempts |-> 0]]
  /\ UNCHANGED <<now, activation, local, poll, event, late, effect, told, pass, edits, faults>>

CanFail == faults < MaxFaults /\ faults' = faults + 1

(* The lease ends: the slot is gone, before or after its handler committed,  *)
(* or it is only late.                                                       *)
LoseLease(k) ==
  /\ CanFail /\ job[k].state \in {"leased", "ran"}
  /\ job' = [job EXCEPT ![k].state = "queued"]
  /\ late' \in {late, late \cup (IF job[k].state = "leased" THEN {k[2]} ELSE {})}
  /\ UNCHANGED <<now, activation, local, poll, event, effect, told, pass, edits>>

Fail(k) ==
  /\ CanFail /\ job[k].state = "leased"
  /\ job' = [job EXCEPT ![k].state = IF job[k].attempts = MaxAttempts THEN "dead" ELSE "queued"]
  /\ UNCHANGED <<now, activation, local, poll, event, late, effect, told, pass, edits>>

------------------------------------------------------------------------------
(* The candidates of a page: polls somebody here waits for, without marker.  *)
Scan ==
  /\ Working /\ poll.live /\ poll.expires # 0 /\ (local \/ poll.votes # {})
  /\ effect[poll.expires] = "none" /\ pass[poll.expires] = "idle"
  /\ pass' = [pass EXCEPT ![poll.expires] = "found"]
  /\ UNCHANGED <<now, activation, local, poll, event, job, late, effect, told, edits, faults>>

(* reconcile_poll_expiration: it does not lock the poll, and reads the       *)
(* marker before the intents.                                                *)
Inspect(g) ==
  /\ pass[g] = "found"
  /\ effect' = IF Historical(g) /\ effect[g] = "none" THEN [effect EXCEPT ![g] = "historical"] ELSE effect
  /\ pass' = [pass EXCEPT ![g] = IF Historical(g) \/ effect[g] # "none" THEN "idle" ELSE "unrecorded"]
  /\ UNCHANGED <<now, activation, local, poll, event, job, late, told, edits, faults>>

(* Mistake: an event that was dispatched stands for a job.                   *)
HealthyOnceRecorded(g) ==
  \/ \E k \in Jobs : k[2] = g /\ job[k].state \in {"queued", "leased", "ran"}
  \/ \E k \in Intents : k[2] = g /\ event[k] # "none"

(* poll_expiration_repair_action: a job that is not dead, or an event that   *)
(* is not dispatched.                                                        *)
Healthy(g) ==
  \/ \E k \in Jobs : k[2] = g /\ job[k].state \in {"queued", "leased", "ran"}
  \/ \E k \in Intents : k[2] = g /\ event[k] = "pending"

Repair(g) ==
  /\ pass[g] = "unrecorded"
  /\ job' = IF Healthy(g) THEN job
            ELSE [job EXCEPT ![<<"repair", g>>] = [state |-> "queued", attempts |-> 0]]
  /\ pass' = [pass EXCEPT ![g] = "idle"]
  /\ UNCHANGED <<now, activation, local, poll, event, late, effect, told, edits, faults>>

(* A pass is cut short; a later one starts again.                            *)
Interrupt(g) ==
  /\ CanFail /\ pass[g] # "idle"
  /\ pass' = [pass EXCEPT ![g] = "idle"]
  /\ UNCHANGED <<now, activation, local, poll, event, job, late, effect, told, edits>>

------------------------------------------------------------------------------
Next ==
  \/ Tick \/ Activate \/ Remove \/ Scan
  \/ \E v \in Voters : Vote(v)
  \/ \E e \in Times \cup {0} : EditOpen(e) \/ EditClosed(e) \/ Reshape(e)
  \/ \E k \in Intents : DispatchOutbox(k)
  \/ \E k \in Jobs : Claim(k) \/ Run(k) \/ Complete(k) \/ LoseLease(k) \/ Fail(k)
  \/ \E g \in Times : RunLate(g) \/ Inspect(g) \/ Repair(g) \/ Interrupt(g)

Spec == Init /\ [][Next]_vars

(* Time passes, the worker starts, its slots run what is due, and the        *)
(* maintenance tick starts one reconciliation after another.                 *)
Fairness ==
  /\ WF_vars(Tick) /\ WF_vars(Activate) /\ WF_vars(Scan)
  /\ \A k \in Intents : WF_vars(DispatchOutbox(k))
  /\ \A k \in Jobs : WF_vars(Claim(k)) /\ WF_vars(Run(k)) /\ WF_vars(Complete(k))
  /\ \A g \in Times : WF_vars(Inspect(g)) /\ WF_vars(Repair(g))

FairSpec == Spec /\ Fairness

------------------------------------------------------------------------------
(* Types; the attempts of a job stay within their maximum.                   *)
TypeOK ==
  /\ now \in 1 .. MaxTime /\ activation \in 0 .. now /\ local \in BOOLEAN
  /\ poll \in [live : BOOLEAN, expires : Times \cup {0}, votes : SUBSET Voters]
  /\ event \in [Intents -> {"none", "pending", "dispatched"}] /\ job \in [Jobs -> Job]
  /\ late \subseteq Times
  /\ effect \in [Times -> {"none", "historical", "enqueued", "suppressed"}]
  /\ told \subseteq Voters \cup {"owner", "update"}
  /\ pass \in [Times -> {"idle", "found", "unrecorded"}]
  /\ edits \in 0 .. MaxEdits /\ faults \in 0 .. MaxFaults

(* A poll that was over before this server took it on announces nothing, and *)
(* the three writers of markers, which hold no common lock, agree on         *)
(* its marker, so that none fails with "conflicts with its generation".      *)
HistoryIsSilent == \A g \in Times : Historical(g) => effect[g] \in {"none", "historical"}

(* Somebody is told that a poll has ended only while its expiry of that      *)
(* moment is in the past and after the activation: no intent of an expiry    *)
(* that was moved, removed or brought back announces the wrong end.          *)
NoticeIsDue ==
  [][told' # told => poll.live /\ poll.expires \in activation + 1 .. now]_vars

(* The end of a poll of this server is announced to all who voted, to its    *)
(* owner and to the servers that follow it: no ballot slips in behind the    *)
(* announcement, no job or repair announces to some only.                    *)
EveryoneIsTold ==
  local /\ poll.live /\ effect[poll.expires] = "enqueued" => Recipients \subseteq told

(* Everybody concerned hears of the end of the poll although its intent was  *)
(* never recorded, was carried out while the poll had another expiry, ended  *)
(* as a dead letter or was interrupted, unless the poll is moved, reset or   *)
(* gone, or its end lies before the activation.                              *)
EveryPollCloses ==
  \A g \in Times :
    LET Ends == poll.live /\ poll.expires = g IN
    Ends /\ effect[g] = "none" ~> Recipients \subseteq told \/ ~Ends \/ Historical(g)
=============================================================================
