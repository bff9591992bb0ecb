----------------------------- MODULE LocalFiles -----------------------------
(***************************************************************************)
(* Who answers for the files of one local account: media_create and        *)
(* media_create_rich of web/media.rs, worker/local_uploads.rs, the local   *)
(* media cleanup and the account purge of worker.rs.  Database and file    *)
(* system share no transaction.  Every file is named by a row before it is *)
(* written, and a row that names a file goes only after the file or in     *)
(* exchange for another owner.  Everything that touches files runs under   *)
(* the advisory lock of the account; the one that holds it is "section".   *)
(***************************************************************************)
EXTENDS Naturals

CONSTANTS
  Media,          (* identifiers of attachments, each used once             *)
  MaxAttempts,    (* max_attempts of the processing job                     *)
  MaxFaults,      (* bound: crashes, lapsed leases, unlinks that fail       *)
  MaxSuspensions  (* bound: suspensions of the account                      *)

ASSUME LocalFilesAssumption ==
  /\ MaxAttempts \in Nat \ {0} /\ {MaxFaults, MaxSuspensions} \subseteq Nat

VARIABLES
  row,      (* media_attachments: state of each upload                      *)
  owner,    (* rustodon.local_uploads                                       *)
  disk,     (* the files of each upload                                     *)
  job,      (* process_local_upload: outbox event, then durable job         *)
  working,  (* executions of jobs that do not hold the account lock         *)
  section,  (* the operation that holds the account lock                    *)
  intents,  (* live local media cleanup jobs                                *)
  old,      (* created_at is more than an hour ago                          *)
  account,  (* accounts, users and account_deletion_requests                *)
  purge,    (* the account purge job                                        *)
  event,    (* its undispatched outbox event: the request it names, or 0    *)
  dropped,  (* history: media whose manifest an unsuspension took away      *)
  faults    (* history, for the bound                                       *)

vars == <<row, owner, disk, job, working, section, intents, old, account, purge, event, dropped, faults>>

Outputs == {"original", "small"}

Files == {"raw"} \cup Outputs

(* "staged" to "failed": processing 0, 1, 2 and 3; "ready" and "posted" have *)
(* a file name, "posted" has a status.                                       *)
Rows == {"none", "staged", "pending", "ready", "posted", "failed", "deleted"}

Owner == [state : {"none", "staged", "accepted"}, claim : Nat, outputs : BOOLEAN]

NoOwner == [state |-> "none", claim |-> 0, outputs |-> FALSE]

Job == [state : {"none", "event", "queued", "leased", "dead", "done"}, attempts : 0 .. MaxAttempts]

(* An execution of the job of m.  live: its lease is.                        *)
Work == [phase : {"claimed", "prepared", "unfit"}, m : Media, claim : Nat, live : BOOLEAN]

Requests == 0 .. MaxSuspensions

(* An execution of the purge job, with the arguments it was claimed with.    *)
Purger == [phase : {"purge"}, for : Requests, collected : BOOLEAN, manifest : SUBSET Media, live : BOOLEAN]

NoPurge == [state |-> "none", for |-> 0, collected |-> FALSE, manifest |-> {}]

Init ==
  /\ row = [m \in Media |-> "none"] /\ owner = [m \in Media |-> NoOwner]
  /\ disk = [m \in Media |-> {}] /\ intents = [m \in Media |-> {}]
  /\ job = [m \in Media |-> [state |-> "none", attempts |-> 0]]
  /\ working = {} /\ section = [op |-> "free"]
  /\ old = [m \in Media |-> FALSE]
  /\ account = [suspended |-> FALSE, disabled |-> FALSE, request |-> 0, last |-> 0]
  /\ purge = NoPurge /\ event = 0
  /\ dropped = {} /\ faults = 0

Ready(m) == row[m] \in {"ready", "posted"}

(* ensure_account_write_allowed: a purge disables the user for good.         *)
CanWrite == ~account.suspended /\ ~account.disabled

CanFail == faults < MaxFaults

Free == section.op = "free"

Enter(op, step, m) == section' = [op |-> op, step |-> step, m |-> m]

At(ops, step) == section.op \in ops /\ section.step = step

Step(step) == section' = [section EXCEPT !.step = step]

Leave == section' = [op |-> "free"]

------------------------------------------------------------------------------
(* media_create: stage with a durable rollback, write, publish.              *)
StageImage(m) ==
  /\ Free /\ CanWrite /\ row[m] = "none"
  /\ row' = [row EXCEPT ![m] = "staged"]
  /\ intents' = [intents EXCEPT ![m] = {"rollback_create"}]
  /\ Enter("image", "original", m)
  /\ UNCHANGED <<owner, disk, job, working, old, account, purge, event, dropped, faults>>

(* write_prepared_media, for an image and for an installation.               *)
WriteOutput ==
  /\ At({"image", "install"}, "original") \/ At({"image", "install"}, "small")
  /\ disk' = [disk EXCEPT ![section.m] = @ \cup {section.step}]
  /\ Step(IF section.step = "original" THEN "small" ELSE "publish")
  /\ UNCHANGED <<row, owner, job, working, intents, old, account, purge, event, dropped, faults>>

PublishImage ==
  /\ At({"image"}, "publish") /\ CanWrite
  /\ row' = [row EXCEPT ![section.m] = "ready"]
  /\ Leave
  /\ UNCHANGED <<owner, disk, job, working, intents, old, account, purge, event, dropped, faults>>

(* media_create_rich: stage, write the input, accept.                        *)
StageRich(m) ==
  /\ Free /\ CanWrite /\ row[m] = "none"
  /\ row' = [row EXCEPT ![m] = "staged"]
  /\ owner' = [owner EXCEPT ![m].state = "staged"]
  /\ Enter("rich", "raw", m)
  /\ UNCHANGED <<disk, job, working, intents, old, account, purge, event, dropped, faults>>

WriteRaw ==
  /\ At({"rich"}, "raw")
  /\ disk' = [disk EXCEPT ![section.m] = @ \cup {"raw"}]
  /\ Step("accept")
  /\ UNCHANGED <<row, owner, job, working, intents, old, account, purge, event, dropped, faults>>

AcceptUpload ==
  /\ At({"rich"}, "accept") /\ CanWrite
  /\ owner' = [owner EXCEPT ![section.m].state = "accepted"]
  /\ job' = [job EXCEPT ![section.m].state = "event"]
  /\ row' = [row EXCEPT ![section.m] = "pending"]
  /\ Leave
  /\ UNCHANGED <<disk, working, intents, old, account, purge, event, dropped, faults>>

------------------------------------------------------------------------------
(* The processing job: dispatch, claim, lease.                               *)
DispatchUpload(m) ==
  /\ job[m].state = "event"
  /\ job' = [job EXCEPT ![m].state = "queued"]
  /\ UNCHANGED <<row, owner, disk, working, section, intents, old, account, purge, event, dropped, faults>>

(* Mistake: attempts grow past their maximum when an execution is lost.      *)
ClaimJobAgain(m) ==
  /\ job[m].state = "queued"
  /\ job' = [job EXCEPT ![m].state = "leased", ![m].attempts = @ + 1]
  /\ working' = working \cup {[phase |-> "claimed", m |-> m, claim |-> 0, live |-> TRUE]}
  /\ UNCHANGED <<row, owner, disk, section, intents, old, account, purge, event, dropped, faults>>

ClaimJob(m) ==
  /\ job[m].state = "queued"
  /\ job' = [job EXCEPT ![m].state = "leased",
                        ![m].attempts = IF @ < MaxAttempts THEN @ + 1 ELSE @]
  /\ working' = working \cup {[phase |-> "claimed", m |-> m, claim |-> 0, live |-> TRUE]}
  /\ UNCHANGED <<row, owner, disk, section, intents, old, account, purge, event, dropped, faults>>

(* What becomes of the job of m when an execution returns.                   *)
Settle(m, live, ok) ==
  job' = IF ~live THEN job
         ELSE [job EXCEPT ![m].state = IF ok THEN "done"
                                       ELSE IF job[m].attempts = MaxAttempts THEN "dead"
                                       ELSE "queued"]

Executions == {"process", "install", "unfit"}

Runs(w, m) == w.phase # "purge" /\ w.m = m /\ w.live

Orphaned(m) ==
  /\ job[m].state = "leased"
  /\ ~(section.op \in Executions /\ section.m = m /\ section.live)
  /\ \A w \in working : ~Runs(w, m)

LeaseExpires(m) ==
  /\ Orphaned(m)
  /\ job' = [job EXCEPT ![m].state = "queued"]
  /\ UNCHANGED <<row, owner, disk, working, section, intents, old, account, purge, event, dropped, faults>>

(* A live lease lapses while its execution goes on.                          *)
Lapse(m) ==
  /\ CanFail /\ job[m].state = "leased" /\ ~Orphaned(m)
  /\ job' = [job EXCEPT ![m].state = "queued"]
  /\ working' = {IF Runs(w, m) THEN [w EXCEPT !.live = FALSE] ELSE w : w \in working}
  /\ section' = IF section.op \in Executions /\ section.m = m
                THEN [section EXCEPT !.live = FALSE] ELSE section
  /\ faults' = faults + 1
  /\ UNCHANGED <<row, owner, disk, intents, old, account, purge, event, dropped>>

------------------------------------------------------------------------------
(* process_with: three times under the lock, processing in between without.  *)
EnterProcess(w) ==
  /\ Free /\ w.phase # "purge"
  /\ working' = working \ {w}
  /\ section' = [op |-> CASE w.phase = "claimed" -> "process" [] w.phase = "prepared" -> "install"
                          [] OTHER -> "unfit",
                 step |-> "cleanup", m |-> w.m, claim |-> w.claim, live |-> w.live]
  /\ UNCHANGED <<row, owner, disk, job, intents, old, account, purge, event, dropped, faults>>

Return(ok) ==
  /\ section' = [op |-> "free"]
  /\ IF section.op \in Executions THEN Settle(section.m, section.live, ok) ELSE UNCHANGED job

(* The files cleanup_locked removes; those of the outputs once registered.   *)
Condemned(m) ==
  CASE owner[m].state = "none" -> {}
    [] Ready(m) -> {"raw"}
    [] OTHER -> {"raw"} \cup (IF owner[m].outputs THEN Outputs ELSE {})

(* Mistake: an accepted upload is cleaned like one without a row.            *)
UndecidedStaged(m) == owner[m].state # "none" /\ row[m] = "staged"

Undecided(m) == owner[m].state # "none" /\ row[m] \in {"staged", "pending"}

AfterCleanup == CASE section.step = "recheck" -> "clear"   [] section.op = "process" -> "claim"
                  [] section.op = "install" -> "register" [] section.op = "unfit" -> "abandon"
                  [] section.op = "recover" -> "decide"

Cleaning == section.op \in Executions \cup {"recover"} /\ section.step \in {"cleanup", "recheck", "retire"}

(* One transaction: it locks both rows, removes the files and commits.       *)
CleanupLocked ==
  /\ Cleaning
  /\ LET m == section.m IN
     \/ /\ Undecided(m) /\ section.step # "retire"
        /\ Step(AfterCleanup)
        /\ UNCHANGED <<owner, disk, job, dropped>>
     \/ /\ ~Undecided(m)
        /\ disk' = [disk EXCEPT ![m] = @ \ Condemned(m)]
        /\ owner' = [owner EXCEPT ![m] = NoOwner]
        /\ Return(TRUE)
  /\ UNCHANGED <<row, working, intents, old, account, purge, event, dropped, faults>>

CleanupFails ==
  /\ CanFail /\ Cleaning /\ ~Undecided(section.m) /\ Condemned(section.m) # {}
  /\ \E gone \in SUBSET Condemned(section.m) : disk' = [disk EXCEPT ![section.m] = @ \ gone]
  /\ Return(FALSE)
  /\ faults' = faults + 1
  /\ UNCHANGED <<row, owner, working, intents, old, account, purge, event, dropped>>

(* claim_in, read_raw; then the processor answers, or not in time.           *)
ClaimUpload ==
  /\ At({"process"}, "claim") /\ CanWrite
  /\ LET m == section.m
         claim == owner[m].claim + 1 IN
     /\ row[m] = "pending" /\ owner[m].state = "accepted" /\ "raw" \in disk[m]
     /\ owner' = [owner EXCEPT ![m].claim = claim]
     /\ \/ Return(FALSE) /\ UNCHANGED working
        \/ /\ \E phase \in {"prepared", "unfit"} :
                working' = working \cup {[phase |-> phase, m |-> m, claim |-> claim, live |-> section.live]}
           /\ Leave /\ UNCHANGED job
  /\ UNCHANGED <<row, disk, intents, old, account, purge, event, dropped, faults>>

(* owned_pending: the row is still pending and the claim is the latest.      *)
Owns == row[section.m] = "pending" /\ owner[section.m].claim = section.claim

RegisterOutputs ==
  /\ At({"install"}, "register") /\ CanWrite /\ Owns
  /\ owner' = [owner EXCEPT ![section.m].outputs = TRUE]
  /\ Step("recheck")
  /\ UNCHANGED <<row, disk, job, working, intents, old, account, purge, event, dropped, faults>>

ClearOutputs ==
  /\ At({"install"}, "clear") /\ Owns
  /\ disk' = [disk EXCEPT ![section.m] = @ \ Outputs]
  /\ Step("original")
  /\ UNCHANGED <<row, owner, job, working, intents, old, account, purge, event, dropped, faults>>

PublishUpload ==
  /\ At({"install"}, "publish") /\ Owns /\ owner[section.m].outputs
  /\ row' = [row EXCEPT ![section.m] = "ready"]
  /\ Step("retire")
  /\ UNCHANGED <<owner, disk, job, working, intents, old, account, purge, event, dropped, faults>>

AbandonUpload ==
  /\ At({"unfit"}, "abandon") /\ Owns
  /\ row' = [row EXCEPT ![section.m] = "failed"]
  /\ Step("retire")
  /\ UNCHANGED <<owner, disk, job, working, intents, old, account, purge, event, dropped, faults>>

(* recover, for one row of local_uploads.                                    *)
EnterRecover(m) ==
  /\ Free /\ owner[m].state # "none"
  /\ Enter("recover", "cleanup", m)
  /\ UNCHANGED <<row, owner, disk, job, working, intents, old, account, purge, event, dropped, faults>>

(* Mistake: a dead-lettered job counts as active.                            *)
UnderwayOrDead(m) == owner[m].state = "accepted" /\ job[m].state # "done"

Underway(m) == owner[m].state = "accepted" /\ job[m].state \in {"event", "queued", "leased"}

Recover ==
  /\ At({"recover"}, "decide")
  /\ LET m == section.m IN
     \/ (~old[m] \/ Underway(m)) /\ Leave /\ UNCHANGED <<row, owner>>
     \/ /\ old[m] /\ ~Underway(m) /\ Step("retire")
        /\ IF owner[m].state = "accepted"
           THEN /\ owner' = [owner EXCEPT ![m].claim = @ + 1]
                /\ row' = [row EXCEPT ![m] = "failed"]
           ELSE row' = [row EXCEPT ![m] = "deleted"] /\ UNCHANGED owner
  /\ UNCHANGED <<disk, job, working, intents, old, account, purge, event, dropped, faults>>

(* An operation ends early.  A failed image write removes what it can, and a *)
(* request that dies leaves everything; an execution that fails is retried,  *)
(* one that dies loses its lease.  An installation that fails while it       *)
(* clears or writes the outputs has removed any of them.                     *)
AbortRequest ==
  /\ section.op \in {"image", "rich"}
  /\ \E gone \in SUBSET Outputs :
       /\ gone # {} => section.op = "image"
       /\ disk' = [disk EXCEPT ![section.m] = @ \ gone]
  /\ Leave
  /\ UNCHANGED <<row, owner, job, working, intents, old, account, purge, event, dropped, faults>>

FailExecution ==
  /\ section.op \in Executions
  /\ \E gone \in SUBSET Outputs :
       /\ gone # {} => At({"install"}, "clear") \/ At({"install"}, "original") \/ At({"install"}, "small")
       /\ disk' = [disk EXCEPT ![section.m] = @ \ gone]
  /\ Return(FALSE)
  /\ UNCHANGED <<row, owner, working, intents, old, account, purge, event, dropped, faults>>

Crash ==
  /\ CanFail /\ section.op \in Executions \cup {"recover", "purge"}
  /\ Leave
  /\ faults' = faults + 1
  /\ UNCHANGED <<row, owner, disk, job, working, intents, old, account, purge, event, dropped>>

Die(w) ==
  /\ CanFail
  /\ working' = working \ {w}
  /\ faults' = faults + 1
  /\ UNCHANGED <<row, owner, disk, job, section, intents, old, account, purge, event, dropped>>

------------------------------------------------------------------------------
(* Posts take media and give it back without the account lock.               *)
Attach(m) ==
  /\ CanWrite /\ row[m] = "ready"
  /\ row' = [row EXCEPT ![m] = "posted"]
  /\ UNCHANGED <<owner, disk, job, working, section, intents, old, account, purge, event, dropped, faults>>

(* delete_status: the media stays for a redraft, or goes with an intent.     *)
DeleteStatus(m) ==
  /\ CanWrite /\ row[m] = "posted"
  /\ \/ row' = [row EXCEPT ![m] = "ready"] /\ UNCHANGED intents
     \/ /\ row' = [row EXCEPT ![m] = "deleted"]
        /\ intents' = [intents EXCEPT ![m] = @ \cup {"delete"}]
  /\ UNCHANGED <<owner, disk, job, working, section, old, account, purge, event, dropped, faults>>

(* media_delete: commit, then the files as far as they can be removed.  An   *)
(* upload without a file name is left to its owner.                          *)
DeleteMedia(m) ==
  /\ Free /\ CanWrite /\ row[m] \in {"pending", "ready", "failed"}
  /\ row' = [row EXCEPT ![m] = "deleted"]
  /\ IF row[m] = "ready"
     THEN /\ intents' = [intents EXCEPT ![m] = @ \cup {"delete"}]
          /\ \E gone \in SUBSET Outputs : disk' = [disk EXCEPT ![m] = @ \ gone]
     ELSE UNCHANGED <<intents, disk>>
  /\ UNCHANGED <<owner, job, working, section, old, account, purge, event, dropped, faults>>

(* Mistake: the rollback of an upload does not look for a file name.         *)
KeepsOwned(m, a) == a = "rollback_create" /\ owner[m].state # "none"

(* The cleanup job of an intent; it is retried until it succeeds.  What a    *)
(* rollback finds owned, published or posted it leaves alone, and is done.   *)
Keeps(m, a) == a = "rollback_create" /\ (owner[m].state # "none" \/ Ready(m))

CleanMedia(m, a) ==
  /\ Free /\ a \in intents[m]
  /\ intents' = [intents EXCEPT ![m] = @ \ {a}]
  /\ IF Keeps(m, a) THEN UNCHANGED <<disk, row>>
     ELSE /\ disk' = [disk EXCEPT ![m] = @ \ Outputs]
          /\ row' = [row EXCEPT ![m] = "deleted"]
  /\ UNCHANGED <<owner, job, working, section, old, account, purge, event, dropped, faults>>

CleanMediaFails(m, a) ==
  /\ Free /\ CanFail /\ a \in intents[m] /\ ~Keeps(m, a)
  /\ \E gone \in SUBSET Outputs : disk' = [disk EXCEPT ![m] = @ \ gone]
  /\ faults' = faults + 1
  /\ UNCHANGED <<row, owner, job, working, section, intents, old, account, purge, event, dropped>>

Hour(m) ==
  /\ owner[m].state # "none" /\ ~old[m]
  /\ old' = [old EXCEPT ![m] = TRUE]
  /\ UNCHANGED <<row, owner, disk, job, working, section, intents, account, purge, event, dropped, faults>>

------------------------------------------------------------------------------
(* set_account_suspension and request_account_deletion.                      *)
Suspend ==
  /\ Free /\ ~account.suspended /\ account.last < MaxSuspensions
  /\ LET request == account.last + 1 IN
     /\ account' = [account EXCEPT !.suspended = TRUE, !.request = request, !.last = request]
     /\ event' = request
  /\ UNCHANGED <<row, owner, disk, job, working, section, intents, old, purge, dropped, faults>>

Unsuspend ==
  /\ Free /\ account.suspended
  /\ account' = [account EXCEPT !.suspended = FALSE, !.request = 0]
  /\ event' = 0
  /\ purge' = IF purge.state = "queued" THEN NoPurge ELSE purge
  /\ dropped' = IF account.disabled THEN dropped \cup purge.manifest ELSE dropped
  /\ UNCHANGED <<row, owner, disk, job, working, section, intents, old, faults>>

(* An event waits until no live job has its key.                             *)
DispatchPurge ==
  /\ event # 0 /\ purge.state = "none"
  /\ purge' = [NoPurge EXCEPT !.state = "queued", !.for = event]
  /\ event' = 0
  /\ UNCHANGED <<row, owner, disk, job, working, section, intents, old, account, dropped, faults>>

(* When the 30 days are over.                                                *)
ClaimPurge ==
  /\ purge.state = "queued"
  /\ purge' = [purge EXCEPT !.state = "leased"]
  /\ working' = working \cup {[phase |-> "purge", for |-> purge.for, collected |-> purge.collected,
                               manifest |-> purge.manifest, live |-> TRUE]}
  /\ UNCHANGED <<row, owner, disk, job, section, intents, old, account, event, dropped, faults>>

Purging(w) == w.phase = "purge" /\ w.live

PurgeOrphaned ==
  /\ purge.state = "leased" /\ \A w \in working : ~Purging(w)
  /\ ~(section.op = "purge" /\ section.live)

PurgeLeaseExpires ==
  /\ PurgeOrphaned
  /\ purge' = [purge EXCEPT !.state = "queued"]
  /\ UNCHANGED <<row, owner, disk, job, working, section, intents, old, account, event, dropped, faults>>

PurgeLapse ==
  /\ CanFail /\ purge.state = "leased" /\ ~PurgeOrphaned
  /\ purge' = [purge EXCEPT !.state = "queued"]
  /\ working' = {IF Purging(w) THEN [w EXCEPT !.live = FALSE] ELSE w : w \in working}
  /\ section' = IF section.op = "purge" THEN [section EXCEPT !.live = FALSE] ELSE section
  /\ faults' = faults + 1
  /\ UNCHANGED <<row, owner, disk, job, intents, old, account, event, dropped>>

------------------------------------------------------------------------------
(* process_account_purge_job.                                                *)
EnterPurge(w) ==
  /\ Free /\ w.phase = "purge"
  /\ working' = working \ {w}
  /\ section' = [op |-> "purge", step |-> "collect", for |-> w.for, collected |-> w.collected,
                 manifest |-> w.manifest, live |-> w.live]
  /\ UNCHANGED <<row, owner, disk, job, intents, old, account, purge, event, dropped, faults>>

ReturnPurge(ok) ==
  /\ Leave
  /\ purge' = IF ~section.live THEN purge ELSE IF ok THEN NoPurge ELSE [purge EXCEPT !.state = "queued"]

(* Mistake: the manifest stays in memory.                                    *)
CollectUnsaved ==
  /\ At({"purge"}, "collect")
  /\ section' = [section EXCEPT !.step = "database", !.collected = TRUE,
                  !.manifest = IF account.suspended /\ account.request = section.for
                               THEN {m \in Media : Ready(m)} ELSE {}]
  /\ UNCHANGED <<row, owner, disk, job, working, intents, old, account, purge, event, dropped, faults>>

(* The manifest is collected once and merged into the job under its lease.   *)
CollectManifest ==
  /\ At({"purge"}, "collect")
  /\ \/ section.collected /\ Step("database") /\ UNCHANGED purge
     \/ ~section.collected /\ ~section.live /\ ReturnPurge(FALSE)
     \/ /\ ~section.collected /\ section.live
        /\ LET media == IF account.suspended /\ account.request = section.for
                        THEN {m \in Media : Ready(m)} ELSE {} IN
           /\ purge' = [purge EXCEPT !.collected = TRUE, !.manifest = media]
           /\ section' = [section EXCEPT !.step = "database", !.collected = TRUE, !.manifest = media]
  /\ UNCHANGED <<row, owner, disk, job, working, intents, old, account, event, dropped, faults>>

Skipped == ~account.suspended \/ account.request \notin {0, section.for}

(* purge_account_after_deletion.  Without a request it was done before.      *)
PurgeDatabase ==
  /\ At({"purge"}, "database")
  /\ \/ Skipped /\ ReturnPurge(TRUE) /\ UNCHANGED <<row, account>>
     \/ /\ ~Skipped /\ Step("unlink") /\ UNCHANGED purge
        /\ IF account.request = 0 THEN UNCHANGED <<row, account>>
           ELSE /\ row' = [m \in Media |-> IF row[m] = "none" THEN "none" ELSE "deleted"]
                /\ account' = [account EXCEPT !.disabled = TRUE, !.request = 0]
  /\ UNCHANGED <<owner, disk, job, working, intents, old, event, dropped, faults>>

UnlinkManifest ==
  /\ At({"purge"}, "unlink")
  /\ disk' = [m \in Media |-> IF m \in section.manifest THEN disk[m] \ Outputs ELSE disk[m]]
  /\ ReturnPurge(TRUE)
  /\ UNCHANGED <<row, owner, job, working, intents, old, account, event, dropped, faults>>

(* A step fails, an unlink after some others: the job is retried.            *)
PurgeFails ==
  /\ CanFail /\ section.op = "purge"
  /\ \E gone \in [Media -> SUBSET Outputs] :
       /\ \A m \in Media : gone[m] # {} => section.step = "unlink" /\ m \in section.manifest
       /\ disk' = [m \in Media |-> disk[m] \ gone[m]]
  /\ ReturnPurge(FALSE)
  /\ faults' = faults + 1
  /\ UNCHANGED <<row, owner, job, working, intents, old, account, event, dropped>>

------------------------------------------------------------------------------
SectionStep ==
  \/ WriteOutput \/ PublishImage \/ WriteRaw \/ AcceptUpload
  \/ CleanupLocked \/ ClaimUpload \/ RegisterOutputs \/ ClearOutputs \/ PublishUpload
  \/ AbandonUpload \/ Recover \/ AbortRequest \/ FailExecution
  \/ CollectManifest \/ PurgeDatabase \/ UnlinkManifest

Faults ==
  \/ CleanupFails \/ Crash \/ PurgeLapse \/ PurgeFails
  \/ \E w \in working : Die(w)
  \/ \E m \in Media : Lapse(m)
  \/ \E m \in Media : \E a \in intents[m] : CleanMediaFails(m, a)

Next ==
  \/ SectionStep \/ Faults
  \/ \E m \in Media : \/ StageImage(m) \/ StageRich(m) \/ DispatchUpload(m) \/ ClaimJob(m)
                      \/ LeaseExpires(m) \/ EnterRecover(m) \/ Hour(m)
                      \/ Attach(m) \/ DeleteStatus(m) \/ DeleteMedia(m)
                      \/ \E a \in intents[m] : CleanMedia(m, a)
  \/ \E w \in working : EnterProcess(w) \/ EnterPurge(w)
  \/ Suspend \/ Unsuspend \/ DispatchPurge \/ ClaimPurge \/ PurgeLeaseExpires

Spec == Init /\ [][Next]_vars

(* An operation under the lock ends; workers and the maintenance tick run;   *)
(* and whoever asks for the lock again and again gets it (a bounded wait and *)
(* a retry, so no more than strong fairness).                                *)
Fairness ==
  /\ WF_vars(SectionStep) /\ WF_vars(DispatchPurge) /\ WF_vars(ClaimPurge) /\ WF_vars(PurgeLeaseExpires)
  /\ SF_vars(\E w \in working : EnterPurge(w)) /\ SF_vars(\E w \in working : EnterProcess(w))
  /\ \A m \in Media :
       /\ WF_vars(DispatchUpload(m)) /\ WF_vars(ClaimJob(m)) /\ WF_vars(LeaseExpires(m))
       /\ WF_vars(Hour(m)) /\ SF_vars(EnterRecover(m))
  /\ \A m \in Media : \A a \in {"rollback_create", "delete"} : SF_vars(CleanMedia(m, a))

FairSpec == Spec /\ Fairness

------------------------------------------------------------------------------
TypeOK ==
  /\ row \in [Media -> Rows] /\ owner \in [Media -> Owner] /\ disk \in [Media -> SUBSET Files]
  /\ job \in [Media -> Job] /\ working \subseteq Work \cup Purger
  /\ intents \in [Media -> SUBSET {"rollback_create", "delete"}]
  /\ old \in [Media -> BOOLEAN] /\ dropped \subseteq Media /\ faults \in 0 .. MaxFaults /\ event \in Requests
  /\ account \in [suspended : BOOLEAN, disabled : BOOLEAN, request : Requests, last : Requests]
  /\ purge \in [state : {"none", "queued", "leased"}, for : Requests, collected : BOOLEAN,
                manifest : SUBSET Media]

(* No file is lost: each one on disk is named by the row that owns the       *)
(* upload (its input at once, its outputs once registered), by a ready       *)
(* attachment, by a cleanup intent or by the manifest of a live purge job,   *)
(* so that a crash at any point leaves nothing that nobody will remove.  The *)
(* exception is "dropped": unsuspending a purged account takes the manifest  *)
(* away while its files may still be there.                                  *)
Named(m) ==
  (IF owner[m].state # "none" THEN {"raw"} ELSE {})
    \cup (IF \/ owner[m].outputs \/ Ready(m) \/ intents[m] # {}
             \/ purge.state # "none" /\ m \in purge.manifest
             \/ m \in dropped
          THEN Outputs ELSE {})

NothingOrphaned == \A m \in Media : disk[m] \subseteq Named(m)

(* No cleanup, retry, late processor or purge takes a file of an attachment  *)
(* that is published: its row names files that are there.                    *)
ReadyIsComplete == \A m \in Media : Ready(m) => Outputs \subseteq disk[m]

(* An upload the client was told is accepted can still be processed: until   *)
(* it is published or given up its input is on disk.                         *)
AcceptedHasInput == \A m \in Media : row[m] = "pending" => "raw" \in disk[m]

(* In the end the disk holds the files of the published attachments and no   *)
(* others: every cleanup owed is done, whatever stopped before it.           *)
FilesSettle ==
  \A m \in Media : <>[](m \in dropped \/ disk[m] = IF Ready(m) THEN Outputs ELSE {})
=============================================================================
