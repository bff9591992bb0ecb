-------------------------- MODULE LocalFilesProofs --------------------------
(***************************************************************************)
(* What LocalFiles guarantees for any number of attachments, attempts,     *)
(* faults and suspensions: no file without somebody who answers for it,    *)
(* no published attachment without its files, no accepted upload without   *)
(* its input.                                                              *)
(***************************************************************************)
EXTENDS LocalFiles, TLAPS

(* The account was emptied by a purge and has not been reinstated.           *)
Purged == account.disabled /\ account.suspended /\ account.request = 0

(* Who will remove the outputs of m, or says that they are wanted.  The      *)
(* manifest counts only while its job is not going to be skipped.            *)
Claimed(m) ==
  \/ owner[m].outputs \/ Ready(m) \/ intents[m] # {} \/ m \in dropped
  \/ Purged /\ purge.state # "none" /\ m \in purge.manifest

FilesInv(m) ==
  /\ "raw" \in disk[m] => owner[m].state # "none"
  /\ disk[m] \cap Outputs # {} => Claimed(m)
  /\ Ready(m) => Outputs \subseteq disk[m]
  /\ row[m] = "pending" => "raw" \in disk[m]

(* How the row, its owner and its cleanup intents go together.               *)
RowsInv(m) ==
  /\ row[m] = "pending" => owner[m].state = "accepted"
  /\ owner[m].state = "none" => ~owner[m].outputs
  /\ owner[m].state # "none" => row[m] # "none"
  /\ "delete" \in intents[m] => row[m] = "deleted"
  /\ "rollback_create" \in intents[m] =>
       owner[m].state = "none" /\ row[m] \in {"staged", "ready", "posted", "deleted"}

(* What each operation that holds the account lock relies on.                *)
InImage ==
  /\ section \in [op : {"image"}, step : {"original", "small", "publish"}, m : Media]
  /\ row[section.m] = "staged" /\ "rollback_create" \in intents[section.m]
  /\ section.step = "small" => "original" \in disk[section.m]
  /\ section.step = "publish" => Outputs \subseteq disk[section.m]

InRich ==
  /\ section \in [op : {"rich"}, step : {"raw", "accept"}, m : Media]
  /\ row[section.m] = "staged" /\ owner[section.m].state = "staged"
  /\ section.step = "accept" => "raw" \in disk[section.m]

InRecover ==
  /\ section \in [op : {"recover"}, step : {"cleanup", "decide", "retire"}, m : Media]
  /\ section.step = "decide" => Undecided(section.m)

InProcess ==
  section \in [op : {"process"}, step : {"cleanup", "claim"}, m : Media, claim : Nat, live : BOOLEAN]

InUnfit ==
  section \in [op : {"unfit"}, step : {"cleanup", "abandon", "retire"}, m : Media, claim : Nat,
               live : BOOLEAN]

Installing == {"recheck", "clear", "original", "small", "publish"}

InInstall ==
  /\ section \in [op : {"install"}, step : {"cleanup", "register", "retire"} \cup Installing, m : Media,
                  claim : Nat, live : BOOLEAN]
  /\ section.step \in Installing =>
       CanWrite /\ row[section.m] = "pending" /\ owner[section.m].outputs
  /\ section.step = "small" => "original" \in disk[section.m]
  /\ section.step = "publish" => Outputs \subseteq disk[section.m]

InPurge ==
  /\ section \in [op : {"purge"}, step : {"collect", "database", "unlink"}, for : Requests,
                  collected : BOOLEAN, manifest : SUBSET Media, live : BOOLEAN]
  /\ section.step # "collect" => section.collected
  /\ section.step = "unlink" => account.disabled /\ account.request # section.for

SectionInv ==
  \/ section = [op |-> "free"]
  \/ InImage \/ InRich \/ InRecover \/ InProcess \/ InUnfit \/ InInstall \/ InPurge

(* Suspensions are numbered, and a purge empties the account for good.       *)
AccountInv ==
  /\ account.request <= account.last /\ event <= account.last
  /\ account.request # 0 => account.suspended
  /\ event # 0 => event = account.request
  /\ account.suspended /\ account.request = 0 => account.disabled
  /\ account.disabled => \A m \in Media : row[m] \in {"none", "deleted"}

(* The executions of the purge job, with the arguments they were given.      *)
Purges == {w \in working : w.phase = "purge"} \cup (IF section.op = "purge" THEN {section} ELSE {})

(* A collected manifest names what its request will take from the account,   *)
(* and the job has the same; the execution with the lease has all of it.     *)
PurgeInv(x) ==
  /\ x.for # 0 /\ x.for <= account.last /\ x.for # event
  /\ x.collected /\ account.request = x.for => \A m \in Media : Ready(m) => m \in x.manifest
  /\ account.request = x.for => purge.state # "none" /\ purge.for = x.for
  /\ x.collected /\ purge.state # "none" /\ purge.for = x.for =>
       purge.collected /\ purge.manifest = x.manifest
  /\ x.live => /\ purge.state = "leased" /\ purge.for = x.for
               /\ purge.collected = x.collected /\ purge.manifest = x.manifest

JobInv ==
  /\ purge.state # "none" =>
       /\ purge.for # 0 /\ purge.for <= account.last /\ purge.for # event
       /\ purge.collected /\ account.request = purge.for =>
            \A m \in Media : Ready(m) => m \in purge.manifest
  /\ ~purge.collected => purge.manifest = {}
  /\ \A w \in working : Purging(w) => ~(section.op = "purge" /\ section.live)

PurgesInv == AccountInv /\ JobInv /\ \A x \in Purges : PurgeInv(x)

LocalInv == TypeOK /\ SectionInv /\ PurgesInv /\ \A m \in Media : FilesInv(m) /\ RowsInv(m)

------------------------------------------------------------------------------
(* The operation under the lock is the one it says it is.                    *)
LEMMA SectionByOp ==
  ASSUME SectionInv
  PROVE  /\ section.op = "free" => section = [op |-> "free"]
         /\ section.op = "image" => InImage
         /\ section.op = "rich" => InRich
         /\ section.op = "recover" => InRecover
         /\ section.op = "process" => InProcess
         /\ section.op = "unfit" => InUnfit
         /\ section.op = "install" => InInstall
         /\ section.op = "purge" => InPurge
         /\ section.op \in {"free", "image", "rich", "recover", "process", "unfit", "install", "purge"}
  BY DEF SectionInv, InImage, InRich, InRecover, InProcess, InUnfit, InInstall, InPurge

(* Steps without the lock take no upload from the operation that has it.     *)
LEMMA SectionKept ==
  ASSUME TypeOK, SectionInv, section' = section, owner' = owner, disk' = disk, account' = account,
         \A m \in Media : row[m] \in {"staged", "pending"} => row'[m] = row[m],
         \A m \in Media : intents[m] \subseteq intents'[m]
  PROVE  SectionInv'
<1>1. CASE section = [op |-> "free"]
  BY <1>1 DEF SectionInv
<1>2. CASE InImage
  BY <1>2 DEF SectionInv, InImage
<1>3. CASE InRich
  BY <1>3 DEF SectionInv, InRich
<1>4. CASE InRecover
  BY <1>4 DEF SectionInv, InRecover, Undecided
<1>5. CASE InProcess
  BY <1>5 DEF SectionInv, InProcess
<1>6. CASE InUnfit
  BY <1>6 DEF SectionInv, InUnfit
<1>7. CASE InInstall
  BY <1>7 DEF SectionInv, InInstall, CanWrite
<1>8. CASE InPurge
  BY <1>8 DEF SectionInv, InPurge
<1> QED
  BY <1>1, <1>2, <1>3, <1>4, <1>5, <1>6, <1>7, <1>8 DEF SectionInv

(* Most steps leave the purge alone: they may publish on an account that can *)
(* be written, and bring nothing back to one that was emptied.               *)
LEMMA PurgesKept ==
  ASSUME TypeOK, SectionInv, PurgesInv, UNCHANGED <<account, purge, event>>,
         {w \in working' : w.phase = "purge"} \subseteq working,
         section'.op = "purge" => section' = section,
         \A m \in Media : Ready(m)' => Ready(m) \/ CanWrite,
         \A m \in Media : CanWrite \/ row'[m] = row[m] \/ row'[m] = "deleted"
                            \/ row[m] \notin {"none", "deleted"}
  PROVE  PurgesInv'
<1>1. AccountInv'
  BY DEF PurgesInv, AccountInv, TypeOK, CanWrite
<1>2. JobInv'
  BY DEF PurgesInv, AccountInv, JobInv, Purging, TypeOK, CanWrite
<1>3. ASSUME NEW x \in Purges' PROVE PurgeInv(x)'
  <2>1. x \in Purges
    BY DEF Purges
  <2> QED
    BY <2>1 DEF PurgesInv, AccountInv, PurgeInv, TypeOK, CanWrite
<1> QED
  BY <1>1, <1>2, <1>3 DEF PurgesInv

------------------------------------------------------------------------------
(* At first there is nothing.                                                *)
LEMMA InitInv == Init => LocalInv
<1> SUFFICES ASSUME Init PROVE LocalInv
  OBVIOUS
<1> USE LocalFilesAssumption DEF LocalFilesAssumption, Init
<1>1. TypeOK
  BY DEF TypeOK, Rows, Owner, NoOwner, Job, Requests, NoPurge
<1>2. SectionInv
  BY DEF SectionInv
<1>3. AccountInv /\ JobInv
  BY DEF AccountInv, JobInv, NoPurge
<1>4. Purges = {}
  BY DEF Purges
<1>5. ASSUME NEW m \in Media PROVE FilesInv(m) /\ RowsInv(m)
  BY <1>5 DEF FilesInv, RowsInv, Claimed, Ready, NoOwner
<1> QED
  BY <1>1, <1>2, <1>3, <1>4, <1>5 DEF LocalInv, PurgesInv
------------------------------------------------------------------------------
(* Requests under the account lock.                                          *)
LEMMA StageStep ==
  ASSUME LocalInv, NEW m \in Media, StageImage(m) \/ StageRich(m)
  PROVE  LocalInv'
<1> USE DEF LocalInv
<1>1. TypeOK'
  BY SMTT(30) DEF TypeOK, StageImage, StageRich, Rows, Owner, NoOwner
<1>2. SectionInv'
  <2>1. CASE StageImage(m)
    <3>1. InImage'
      BY <2>1 DEF StageImage, Enter, InImage, TypeOK
    <3> QED
      BY <3>1 DEF SectionInv
  <2>2. CASE StageRich(m)
    <3>1. InRich'
      BY <2>2 DEF StageRich, Enter, InRich, TypeOK, Owner
    <3> QED
      BY <3>1 DEF SectionInv
  <2> QED
    BY <2>1, <2>2
<1>3. PurgesInv'
  BY PurgesKept DEF StageImage, StageRich, Enter, Ready, TypeOK
<1>4. ASSUME NEW n \in Media PROVE FilesInv(n)' /\ RowsInv(n)'
  BY <1>4, SMTT(30) DEF StageImage, StageRich, TypeOK, FilesInv, RowsInv, Claimed, Ready, Purged, Owner
<1> QED
  BY <1>1, <1>2, <1>3, <1>4

(* The files of an upload are written by the operation that named them.      *)
LEMMA WriteStep ==
  ASSUME LocalInv, WriteOutput \/ WriteRaw
  PROVE  LocalInv'
<1> USE DEF LocalInv
<1>1. InImage \/ InInstall \/ InRich
  BY SectionByOp DEF WriteOutput, WriteRaw, At
<1>2. section.m \in Media /\ section.op # "purge"
  BY <1>1 DEF InImage, InRich, InInstall
<1>3. TypeOK'
  BY <1>1 DEF TypeOK, WriteOutput, WriteRaw, Files, Outputs, InImage, InRich, InInstall, At
<1>4. SectionInv'
  <2>1. CASE InImage
    BY <1>2, <2>1 DEF WriteOutput, WriteRaw, At, Step, SectionInv, InImage, TypeOK, Outputs
  <2>2. CASE InInstall
    BY <1>2, <2>2 DEF WriteOutput, WriteRaw, At, Step, SectionInv, InInstall, TypeOK, Outputs, CanWrite, Installing
  <2>3. CASE InRich
    BY <1>2, <2>3 DEF WriteOutput, WriteRaw, At, Step, SectionInv, InRich, TypeOK, Outputs
  <2> QED
    BY <1>1, <2>1, <2>2, <2>3
<1>5. PurgesInv'
  <2>1. section'.op # "purge"
    BY <1>1 DEF WriteOutput, WriteRaw, Step, InImage, InInstall, InRich
  <2> QED
    BY <2>1, PurgesKept DEF WriteOutput, WriteRaw, Ready, TypeOK
<1>6. ASSUME NEW n \in Media PROVE FilesInv(n)' /\ RowsInv(n)'
  <2>1. RowsInv(n)'
    BY DEF WriteOutput, WriteRaw, RowsInv
  <2>2. FilesInv(n)'
    <3>1. CASE WriteRaw
      BY <1>1, <1>2, <3>1 DEF WriteRaw, At, InRich, InImage, InInstall, TypeOK, FilesInv, Claimed, Ready, Purged, Outputs
    <3>2. CASE WriteOutput
      BY <1>1, <1>2, <3>2 DEF WriteOutput, At, InRich, InImage, InInstall, Installing, TypeOK, FilesInv, Claimed, Ready, Purged, Outputs
    <3> QED
      BY <3>1, <3>2
  <2> QED
    BY <2>1, <2>2
<1> QED
  BY <1>3, <1>4, <1>5, <1>6

(* An image is published with both of its files.                             *)
LEMMA PublishImageStep ==
  ASSUME LocalInv, PublishImage
  PROVE  LocalInv'
<1> USE DEF LocalInv
<1>1. InImage /\ section.step = "publish" /\ section.m \in Media
  BY SectionByOp DEF PublishImage, At, InImage
<1>2. TypeOK'
  BY <1>1 DEF TypeOK, PublishImage, Rows
<1>3. SectionInv'
  BY DEF PublishImage, Leave, SectionInv
<1>4. PurgesInv'
  BY <1>1, PurgesKept DEF PublishImage, Leave, Ready, TypeOK
<1>5. ASSUME NEW n \in Media PROVE FilesInv(n)' /\ RowsInv(n)'
  BY <1>1, <1>5 DEF PublishImage, InImage, TypeOK, FilesInv, RowsInv, Claimed, Ready, Purged
<1> QED
  BY <1>2, <1>3, <1>4, <1>5

(* An upload is accepted when its input is there.                            *)
LEMMA AcceptStep ==
  ASSUME LocalInv, AcceptUpload
  PROVE  LocalInv'
<1> USE DEF LocalInv
<1>1. InRich /\ section.step = "accept" /\ section.m \in Media
  BY SectionByOp DEF AcceptUpload, At, InRich
<1>2. TypeOK'
  <2>1. row' \in [Media -> Rows]
    BY <1>1 DEF TypeOK, AcceptUpload, Rows
  <2>2. owner' \in [Media -> Owner]
    BY <1>1, SMTT(30) DEF TypeOK, AcceptUpload, Owner
  <2>3. job' \in [Media -> Job]
    BY <1>1 DEF TypeOK, AcceptUpload, Job
  <2> QED
    BY <2>1, <2>2, <2>3 DEF TypeOK, AcceptUpload
<1>3. SectionInv'
  BY DEF AcceptUpload, Leave, SectionInv
<1>4. PurgesInv'
  BY <1>1, PurgesKept DEF AcceptUpload, Leave, Ready, TypeOK
<1>5. ASSUME NEW n \in Media PROVE FilesInv(n)' /\ RowsInv(n)'
  BY <1>1, <1>5 DEF AcceptUpload, InRich, TypeOK, FilesInv, RowsInv, Claimed, Ready, Purged, Owner
<1> QED
  BY <1>2, <1>3, <1>4, <1>5

(* Operations that end early.                                                *)
LEMMA AbortStep ==
  ASSUME LocalInv, AbortRequest
  PROVE  LocalInv'
<1> USE DEF LocalInv
<1>1. (InImage \/ InRich) /\ section.m \in Media
  BY SectionByOp DEF AbortRequest, InImage, InRich
<1>2. TypeOK'
  BY <1>1 DEF TypeOK, AbortRequest
<1>3. SectionInv'
  BY DEF AbortRequest, Leave, SectionInv
<1>4. PurgesInv'
  BY PurgesKept DEF AbortRequest, Leave, Ready
<1>5. ASSUME NEW n \in Media PROVE FilesInv(n)' /\ RowsInv(n)'
  BY <1>1, <1>5 DEF AbortRequest, InImage, InRich, TypeOK, FilesInv, RowsInv, Claimed, Ready, Purged, Outputs
<1> QED
  BY <1>2, <1>3, <1>4, <1>5

------------------------------------------------------------------------------
(* Steps that do not hold the lock and leave rows and files alone.           *)
LEMMA QueueStep ==
  ASSUME LocalInv, NEW m \in Media, DispatchUpload(m) \/ ClaimJob(m) \/ LeaseExpires(m) \/ Hour(m)
  PROVE  LocalInv'
<1> USE DEF LocalInv
<1>1. TypeOK'
  <2>1. job' \in [Media -> Job]
    BY LocalFilesAssumption DEF LocalFilesAssumption, TypeOK, DispatchUpload, ClaimJob, LeaseExpires, Hour, Job
  <2>2. working' \subseteq Work \cup Purger
    <3>1. [phase |-> "claimed", m |-> m, claim |-> 0, live |-> TRUE] \in Work
      BY DEF Work
    <3> QED
      BY <3>1 DEF TypeOK, DispatchUpload, ClaimJob, LeaseExpires, Hour
  <2>3. old' \in [Media -> BOOLEAN]
    BY DEF TypeOK, DispatchUpload, ClaimJob, LeaseExpires, Hour
  <2> QED
    BY <2>1, <2>2, <2>3 DEF TypeOK, DispatchUpload, ClaimJob, LeaseExpires, Hour
<1>2. SectionInv'
  BY SectionKept DEF DispatchUpload, ClaimJob, LeaseExpires, Hour
<1>3. PurgesInv'
  BY PurgesKept DEF DispatchUpload, ClaimJob, LeaseExpires, Hour, Ready, TypeOK
<1>4. ASSUME NEW n \in Media PROVE FilesInv(n)' /\ RowsInv(n)'
  BY DEF DispatchUpload, ClaimJob, LeaseExpires, Hour, FilesInv, RowsInv, Claimed, Ready, Purged
<1> QED
  BY <1>1, <1>2, <1>3, <1>4

(* An execution that loses its lease keeps its place.                        *)
LEMMA LapseStep ==
  ASSUME LocalInv, NEW m \in Media, Lapse(m)
  PROVE  LocalInv'
<1> USE DEF LocalInv
<1>1. TypeOK'
  <2>1. ASSUME NEW w \in working PROVE (IF Runs(w, m) THEN [w EXCEPT !.live = FALSE] ELSE w) \in Work \cup Purger
    BY ZenonT(60) DEF TypeOK, Work, Purger, Runs
  <2>2. working' \subseteq Work \cup Purger
    BY <2>1 DEF Lapse
  <2> QED
    BY <2>2, LocalFilesAssumption DEF LocalFilesAssumption, TypeOK, Lapse, Job, CanFail
<1>2. SectionInv'
  <2>1. CASE section' = section
    BY <2>1, SectionKept DEF Lapse
  <2>2. CASE section.op \in Executions /\ section' = [section EXCEPT !.live = FALSE]
    <3>1. InProcess \/ InInstall \/ InUnfit
      BY <2>2, SectionByOp DEF Executions
    <3> QED
      BY <2>2, <3>1 DEF Lapse, SectionInv, InProcess, InInstall, InUnfit, Installing, CanWrite
  <2> QED
    BY <2>1, <2>2 DEF Lapse
<1>3. PurgesInv'
  <2>1. {w \in working' : w.phase = "purge"} \subseteq working
    BY DEF Lapse, Runs, TypeOK, Work, Purger
  <2>2. section'.op = "purge" => section' = section
    BY SectionByOp DEF Lapse, Executions, InProcess, InInstall, InUnfit
  <2> QED
    BY <2>1, <2>2, PurgesKept DEF Lapse, Ready
<1>4. ASSUME NEW n \in Media PROVE FilesInv(n)' /\ RowsInv(n)'
  BY DEF Lapse, FilesInv, RowsInv, Claimed, Ready, Purged
<1> QED
  BY <1>1, <1>2, <1>3, <1>4

(* Posts take attachments and give them back.                                *)
LEMMA PostStep ==
  ASSUME LocalInv, NEW m \in Media, Attach(m) \/ DeleteStatus(m)
  PROVE  LocalInv'
<1> USE DEF LocalInv
<1>1. TypeOK'
  BY DEF TypeOK, Attach, DeleteStatus, Rows
<1>2. SectionInv'
  BY SectionKept DEF Attach, DeleteStatus, TypeOK
<1>3. PurgesInv'
  BY PurgesKept DEF Attach, DeleteStatus, Ready, TypeOK
<1>4. ASSUME NEW n \in Media PROVE FilesInv(n)' /\ RowsInv(n)'
  BY <1>4 DEF Attach, DeleteStatus, TypeOK, FilesInv, RowsInv, Claimed, Ready, Purged
<1> QED
  BY <1>1, <1>2, <1>3, <1>4

(* Deletions and cleanups, under the lock in one step.                       *)
LEMMA DeleteStep ==
  ASSUME LocalInv, NEW m \in Media, DeleteMedia(m)
  PROVE  LocalInv'
<1> USE DEF LocalInv
<1>1. TypeOK'
  BY DEF TypeOK, DeleteMedia, Rows
<1>2. SectionInv'
  BY SectionByOp DEF DeleteMedia, Free, SectionInv
<1>3. PurgesInv'
  BY PurgesKept DEF DeleteMedia, Ready, TypeOK
<1>4. ASSUME NEW n \in Media PROVE FilesInv(n)' /\ RowsInv(n)'
  BY <1>4 DEF DeleteMedia, TypeOK, FilesInv, RowsInv, Claimed, Ready, Purged, Outputs
<1> QED
  BY <1>1, <1>2, <1>3, <1>4

(* The cleanup of an intent ends only when the files are gone, or are kept.  *)
LEMMA CleanStep ==
  ASSUME LocalInv, NEW m \in Media, NEW a \in intents[m], CleanMedia(m, a) \/ CleanMediaFails(m, a)
  PROVE  LocalInv'
<1> USE DEF LocalInv
<1>0. a \in {"rollback_create", "delete"} /\ row[m] # "none"
  BY DEF TypeOK, RowsInv
<1>1. TypeOK'
  BY LocalFilesAssumption DEF LocalFilesAssumption, TypeOK, CleanMedia, CleanMediaFails, Rows, CanFail
<1>2. SectionInv'
  BY SectionByOp DEF CleanMedia, CleanMediaFails, Free, SectionInv
<1>3. PurgesInv'
  BY <1>0, PurgesKept DEF CleanMedia, CleanMediaFails, Ready, TypeOK
<1>4. ASSUME NEW n \in Media PROVE FilesInv(n)' /\ RowsInv(n)'
  BY <1>0, <1>4 DEF CleanMedia, CleanMediaFails, Keeps, TypeOK, FilesInv, RowsInv, Claimed, Ready, Purged, Outputs
<1> QED
  BY <1>1, <1>2, <1>3, <1>4

------------------------------------------------------------------------------
(* Executions ask for the lock and get it.                                   *)
LEMMA EnterStep ==
  ASSUME LocalInv, (\E w \in working : EnterProcess(w)) \/ (\E m \in Media : EnterRecover(m))
  PROVE  LocalInv'
<1> USE DEF LocalInv
<1>1. ASSUME NEW w \in working, EnterProcess(w) PROVE w \in Work
  BY <1>1 DEF EnterProcess, TypeOK, Purger
<1>2. TypeOK'
  BY DEF EnterProcess, EnterRecover, TypeOK
<1>3. SectionInv' /\ section'.op # "purge"
  <2>1. CASE \E m \in Media : EnterRecover(m)
    <3>1. InRecover' /\ section'.op # "purge"
      BY <2>1 DEF EnterRecover, Enter, InRecover
    <3> QED
      BY <3>1 DEF SectionInv
  <2>2. ASSUME NEW w \in working, EnterProcess(w) PROVE SectionInv' /\ section'.op # "purge"
    <3>1. w \in Work
      BY <1>1, <2>2
    <3>2. CASE w.phase = "claimed"
      BY <2>2, <3>1, <3>2 DEF EnterProcess, Work, SectionInv, InProcess
    <3>3. CASE w.phase = "prepared"
      BY <2>2, <3>1, <3>3 DEF EnterProcess, Work, SectionInv, InInstall, Installing
    <3>4. CASE w.phase = "unfit"
      BY <2>2, <3>1, <3>4 DEF EnterProcess, Work, SectionInv, InUnfit
    <3> QED
      BY <3>1, <3>2, <3>3, <3>4 DEF Work
  <2> QED
    BY <2>1, <2>2
<1>4. PurgesInv'
  BY <1>3, PurgesKept DEF EnterProcess, EnterRecover, Ready
<1>5. ASSUME NEW n \in Media PROVE FilesInv(n)' /\ RowsInv(n)'
  BY DEF EnterProcess, EnterRecover, FilesInv, RowsInv, Claimed, Ready, Purged
<1> QED
  BY <1>2, <1>3, <1>4, <1>5

(* What a return does to the job of the upload.                              *)
LEMMA ReturnType ==
  ASSUME TypeOK, SectionInv, section.op # "purge", NEW ok \in BOOLEAN, Return(ok)
  PROVE  job' \in [Media -> Job] /\ section' = [op |-> "free"]
<1>1. CASE section.op \in Executions
  <2>1. section.m \in Media
    BY <1>1, SectionByOp DEF Executions, InProcess, InInstall, InUnfit
  <2> QED
    BY <1>1, <2>1 DEF Return, Settle, TypeOK, Job
<1>2. CASE section.op \notin Executions
  BY <1>2 DEF Return, TypeOK
<1> QED
  BY <1>1, <1>2

(* A cleanup keeps the files of who can still want them, and gives the owner *)
(* up only without them.                                                     *)
LEMMA CleanupStep ==
  ASSUME LocalInv, CleanupLocked \/ CleanupFails
  PROVE  LocalInv'
<1> USE DEF LocalInv
<1>1. PICK m \in Media :
        /\ m = section.m /\ section.op # "purge"
        /\ InProcess \/ InInstall \/ InUnfit \/ InRecover
  <2>1. section.op \in Executions \cup {"recover"}
    BY DEF CleanupLocked, CleanupFails, Cleaning
  <2>2. InProcess \/ InInstall \/ InUnfit \/ InRecover
    BY <2>1, SectionByOp DEF Executions
  <2> QED
    BY <2>2 DEF InProcess, InInstall, InUnfit, InRecover
<1>2. CASE Undecided(m)
  <2>1. /\ section' = [section EXCEPT !.step = AfterCleanup] /\ section.step # "retire"
        /\ UNCHANGED <<row, owner, disk, job, working, intents, old, account, purge, event, dropped, faults>>
    BY <1>1, <1>2 DEF CleanupLocked, CleanupFails, Step
  <2>2. SectionInv'
    <3>1. CASE InProcess
      BY <1>1, <1>2, <2>1, <3>1 DEF CleanupLocked, CleanupFails, Cleaning, AfterCleanup, InProcess, SectionInv
    <3>2. CASE InInstall
      BY <1>1, <1>2, <2>1, <3>2 DEF CleanupLocked, CleanupFails, Cleaning, AfterCleanup, InInstall, SectionInv, Installing, CanWrite
    <3>3. CASE InUnfit
      BY <1>1, <1>2, <2>1, <3>3 DEF CleanupLocked, CleanupFails, Cleaning, AfterCleanup, InUnfit, SectionInv
    <3>4. CASE InRecover
      BY <1>1, <1>2, <2>1, <3>4 DEF CleanupLocked, CleanupFails, Cleaning, AfterCleanup, InRecover, SectionInv, Undecided
    <3> QED
      BY <1>1, <3>1, <3>2, <3>3, <3>4
  <2>3. section'.op # "purge"
    BY <1>1, <2>1 DEF InProcess, InInstall, InUnfit, InRecover
  <2>4. TypeOK'
    BY <2>1 DEF TypeOK
  <2>5. PurgesInv'
    BY <2>1, <2>3, PurgesKept DEF Ready
  <2>6. ASSUME NEW n \in Media PROVE FilesInv(n)' /\ RowsInv(n)'
    BY <2>1 DEF FilesInv, RowsInv, Claimed, Ready, Purged
  <2> QED
    BY <2>2, <2>4, <2>5, <2>6
<1>3. CASE ~Undecided(m)
  <2>1. UNCHANGED <<row, working, intents, old, account, purge, event, dropped>>
    BY DEF CleanupLocked, CleanupFails
  <2>2. CleanupLocked => disk' = [disk EXCEPT ![m] = @ \ Condemned(m)] /\ owner' = [owner EXCEPT ![m] = NoOwner]
    BY <1>1, <1>3 DEF CleanupLocked
  <2>3. ~CleanupLocked => owner' = owner
    BY DEF CleanupFails
  <2>4. PICK gone \in SUBSET Condemned(m) :
          disk' = [disk EXCEPT ![m] = @ \ gone] /\ (CleanupLocked => gone = Condemned(m))
    BY <1>1, <2>2 DEF CleanupFails
  <2>5. Return(TRUE) \/ Return(FALSE)
    BY <1>1, <1>3 DEF CleanupLocked, CleanupFails
  <2>6. job' \in [Media -> Job] /\ section' = [op |-> "free"]
    BY <1>1, <2>5, ReturnType
  <2>7. TypeOK'
    <3>1. owner' \in [Media -> Owner]
      <4>1. NoOwner \in Owner
        BY DEF NoOwner, Owner
      <4> QED
        BY <2>2, <2>3, <4>1 DEF TypeOK
    <3>2. disk' \in [Media -> SUBSET Files]
      BY <2>4 DEF TypeOK
    <3>3. faults' \in 0 .. MaxFaults
      <4>1. CASE CleanupLocked
        BY <4>1 DEF CleanupLocked, TypeOK
      <4>2. CASE CleanupFails
        <5>1. faults < MaxFaults /\ faults' = faults + 1
          BY <4>2 DEF CleanupFails, CanFail
        <5> QED
          BY <5>1, LocalFilesAssumption DEF LocalFilesAssumption, TypeOK
      <4> QED
        BY <4>1, <4>2
    <3> QED
      BY <2>1, <2>6, <3>1, <3>2, <3>3 DEF TypeOK
  <2>8. SectionInv'
    BY <2>6 DEF SectionInv
  <2>9. PurgesInv'
    BY <2>1, <2>6, PurgesKept DEF Ready
  <2>10. ASSUME NEW n \in Media, n # m PROVE FilesInv(n)' /\ RowsInv(n)'
    <3>1. disk'[n] = disk[n] /\ owner'[n] = owner[n]
      BY <2>2, <2>3, <2>4, <2>10 DEF TypeOK
    <3> QED
      BY <2>1, <3>1 DEF FilesInv, RowsInv, Claimed, Ready, Purged
  <2>11. /\ disk'[m] = disk[m] \ gone
         /\ IF CleanupLocked THEN gone = Condemned(m) /\ owner'[m] = NoOwner ELSE owner'[m] = owner[m]
    BY <1>1, <2>2, <2>3, <2>4 DEF TypeOK
  <2>12. row[m] # "pending"
    BY <1>1, <1>3 DEF Undecided, RowsInv
  <2>13. RowsInv(m)'
    BY <1>1, <2>1, <2>11, <2>12 DEF RowsInv, NoOwner
  <2>14. FilesInv(m)'
    <3>1. FilesInv(m) /\ RowsInv(m) /\ owner[m].outputs \in BOOLEAN
      BY <1>1 DEF TypeOK, Owner
    <3>2. "raw" \in disk'[m] => owner'[m].state # "none"
      BY <2>11, <3>1 DEF FilesInv, Condemned
    <3>3. Ready(m)' => Outputs \subseteq disk'[m]
      BY <2>1, <2>11, <3>1 DEF FilesInv, Condemned, Ready, Outputs
    <3>4. disk'[m] \cap Outputs # {} => Claimed(m)'
      BY <2>1, <2>11, <3>1 DEF FilesInv, RowsInv, Condemned, Claimed, Ready, Purged, NoOwner
    <3> QED
      BY <2>1, <2>12, <3>2, <3>3, <3>4 DEF FilesInv
  <2> QED
    BY <2>7, <2>8, <2>9, <2>10, <2>13, <2>14
<1> QED
  BY <1>2, <1>3

------------------------------------------------------------------------------
(* The processing job under the lock.                                        *)

(* A claim takes nothing but a number.                                       *)
LEMMA ClaimStep ==
  ASSUME LocalInv, ClaimUpload
  PROVE  LocalInv'
<1> USE DEF LocalInv
<1>1. InProcess /\ section.m \in Media /\ section.op # "purge" /\ section.live \in BOOLEAN
  BY SectionByOp DEF ClaimUpload, At, InProcess
<1>2. /\ owner' = [owner EXCEPT ![section.m].claim = owner[section.m].claim + 1]
      /\ UNCHANGED <<row, disk, intents, old, account, purge, event, dropped, faults>>
  BY DEF ClaimUpload
<1>3. job' \in [Media -> Job] /\ section' = [op |-> "free"]
  BY <1>1, ReturnType DEF ClaimUpload, Leave, TypeOK
<1>4. owner' \in [Media -> Owner]
  BY <1>1, <1>2 DEF TypeOK, Owner
<1>5. working' \subseteq working \cup Work
  <2>1. owner[section.m].claim + 1 \in Nat
    BY <1>1 DEF TypeOK, Owner
  <2>2. ASSUME NEW phase \in {"prepared", "unfit"}
        PROVE  [phase |-> phase, m |-> section.m, claim |-> owner[section.m].claim + 1, live |-> section.live] \in Work
    BY <1>1, <2>1 DEF Work
  <2> QED
    BY <2>2 DEF ClaimUpload
<1>6. TypeOK'
  BY <1>2, <1>3, <1>4, <1>5 DEF TypeOK
<1>7. SectionInv'
  BY <1>3 DEF SectionInv
<1>8. PurgesInv'
  <2>1. {w \in working' : w.phase = "purge"} \subseteq working
    BY <1>5 DEF Work
  <2> QED
    BY <1>2, <1>3, <2>1, PurgesKept DEF Ready
<1>9. ASSUME NEW n \in Media PROVE FilesInv(n)' /\ RowsInv(n)'
  <2>1. owner'[n].state = owner[n].state /\ owner'[n].outputs = owner[n].outputs
    BY <1>1, <1>2 DEF TypeOK, Owner
  <2> QED
    BY <1>2, <2>1 DEF FilesInv, RowsInv, Claimed, Ready, Purged
<1> QED
  BY <1>6, <1>7, <1>8, <1>9

(* The outputs are registered before one of them is written.                 *)
LEMMA RegisterStep ==
  ASSUME LocalInv, RegisterOutputs
  PROVE  LocalInv'
<1> USE DEF LocalInv
<1>1. InInstall /\ section.m \in Media
  BY SectionByOp DEF RegisterOutputs, At, InInstall
<1>2. TypeOK'
  <2>1. owner' \in [Media -> Owner]
    <3>1. PICK o \in Owner : o = owner[section.m]
      BY <1>1 DEF TypeOK
    <3>2. [o EXCEPT !.outputs = TRUE] \in Owner
      BY DEF Owner
    <3>3. owner' = [owner EXCEPT ![section.m] = [o EXCEPT !.outputs = TRUE]]
      BY <3>1 DEF RegisterOutputs
    <3> QED
      BY <1>1, <3>2, <3>3 DEF TypeOK
  <2> QED
    BY <2>1 DEF TypeOK, RegisterOutputs
<1>3. SectionInv' /\ section'.op # "purge"
  <2>1. InInstall' /\ section'.op # "purge"
    BY <1>1 DEF RegisterOutputs, At, Owns, Step, InInstall, Installing, CanWrite, TypeOK, Owner
  <2> QED
    BY <2>1 DEF SectionInv
<1>4. PurgesInv'
  BY <1>3, PurgesKept DEF RegisterOutputs, Ready
<1>5. ASSUME NEW n \in Media PROVE FilesInv(n)' /\ RowsInv(n)'
  <2>1. /\ owner'[n].state = owner[n].state
        /\ owner'[n].outputs = IF n = section.m THEN TRUE ELSE owner[n].outputs
    BY <1>1 DEF RegisterOutputs, TypeOK, Owner
  <2> QED
    BY <2>1 DEF RegisterOutputs, Owns, FilesInv, RowsInv, Claimed, Ready, Purged
<1> QED
  BY <1>2, <1>3, <1>4, <1>5

(* What an earlier attempt wrote goes first.                                 *)
LEMMA ClearStep ==
  ASSUME LocalInv, ClearOutputs
  PROVE  LocalInv'
<1> USE DEF LocalInv
<1>1. InInstall /\ section.m \in Media
  BY SectionByOp DEF ClearOutputs, At, InInstall
<1>2. TypeOK'
  BY <1>1 DEF TypeOK, ClearOutputs
<1>3. SectionInv' /\ section'.op # "purge"
  <2>1. InInstall' /\ section'.op # "purge"
    BY <1>1 DEF ClearOutputs, At, Step, InInstall, Installing, CanWrite
  <2> QED
    BY <2>1 DEF SectionInv
<1>4. PurgesInv'
  BY <1>3, PurgesKept DEF ClearOutputs, Ready
<1>5. ASSUME NEW n \in Media PROVE FilesInv(n)' /\ RowsInv(n)'
  BY <1>1 DEF ClearOutputs, Owns, TypeOK, FilesInv, RowsInv, Claimed, Ready, Purged, Outputs
<1> QED
  BY <1>2, <1>3, <1>4, <1>5

(* An upload is published with its files, or given up.                       *)
LEMMA DecideStep ==
  ASSUME LocalInv, PublishUpload \/ AbandonUpload
  PROVE  LocalInv'
<1> USE DEF LocalInv
<1>1. /\ section.m \in Media /\ row[section.m] = "pending"
      /\ PublishUpload => InInstall /\ section.step = "publish"
      /\ AbandonUpload => InUnfit
  BY SectionByOp DEF PublishUpload, AbandonUpload, At, Owns, InInstall, InUnfit
<1>2. TypeOK'
  BY <1>1 DEF TypeOK, PublishUpload, AbandonUpload, Rows
<1>3. SectionInv' /\ section'.op # "purge"
  <2>1. (InInstall' \/ InUnfit') /\ section'.op # "purge"
    BY <1>1 DEF PublishUpload, AbandonUpload, Step, InInstall, InUnfit, Installing
  <2> QED
    BY <2>1 DEF SectionInv
<1>4. PurgesInv'
  <2>1. UNCHANGED <<account, purge, event, working>>
    BY DEF PublishUpload, AbandonUpload
  <2>2. ASSUME NEW n \in Media PROVE Ready(n)' => Ready(n) \/ CanWrite
    BY <1>1 DEF PublishUpload, AbandonUpload, Ready, InInstall, Installing, TypeOK
  <2>3. ASSUME NEW n \in Media PROVE row'[n] = row[n] \/ row[n] \notin {"none", "deleted"}
    BY <1>1 DEF PublishUpload, AbandonUpload, TypeOK
  <2> QED
    BY <1>3, <2>1, <2>2, <2>3, PurgesKept
<1>5. ASSUME NEW n \in Media PROVE FilesInv(n)' /\ RowsInv(n)'
  <2>1. CASE n = section.m
    BY <1>1, <2>1 DEF PublishUpload, AbandonUpload, InInstall, TypeOK, FilesInv, RowsInv, Claimed, Ready, Purged
  <2>2. CASE n # section.m
    BY <1>1, <2>2 DEF PublishUpload, AbandonUpload, TypeOK, FilesInv, RowsInv, Claimed, Ready, Purged
  <2> QED
    BY <2>1, <2>2
<1> QED
  BY <1>2, <1>3, <1>4, <1>5

(* The recovery of an upload that waits for a decision too long.             *)
LEMMA RecoverStep ==
  ASSUME LocalInv, Recover
  PROVE  LocalInv'
<1> USE DEF LocalInv
<1>1. InRecover /\ section.m \in Media /\ section.op # "purge" /\ Undecided(section.m)
  BY SectionByOp DEF Recover, At, InRecover
<1>2. /\ row' \in {row, [row EXCEPT ![section.m] = "failed"], [row EXCEPT ![section.m] = "deleted"]}
      /\ owner' = owner \/ owner' = [owner EXCEPT ![section.m].claim = @ + 1]
      /\ UNCHANGED <<disk, job, working, intents, old, account, purge, event, dropped, faults>>
  BY DEF Recover
<1>3. TypeOK'
  <2>1. row' \in [Media -> Rows]
    BY <1>2 DEF TypeOK, Rows
  <2>2. owner' \in [Media -> Owner]
    BY <1>1, <1>2 DEF TypeOK, Owner
  <2> QED
    BY <1>2, <2>1, <2>2 DEF TypeOK
<1>4. SectionInv' /\ section'.op # "purge"
  <2>1. section' = [op |-> "free"] \/ section' = [section EXCEPT !.step = "retire"]
    BY DEF Recover, Leave, Step
  <2>2. section' = [op |-> "free"] \/ InRecover'
    BY <1>1, <2>1 DEF InRecover
  <2> QED
    BY <2>2 DEF SectionInv, InRecover
<1>5. PurgesInv'
  BY <1>1, <1>2, <1>4, PurgesKept DEF Undecided, Ready, TypeOK
<1>6. ASSUME NEW n \in Media PROVE FilesInv(n)' /\ RowsInv(n)'
  <2>1. owner'[n].state = owner[n].state /\ owner'[n].outputs = owner[n].outputs
    BY <1>1, <1>2 DEF TypeOK, Owner
  <2>2. row'[n] = row[n] \/ (n = section.m /\ row'[n] \in {"failed", "deleted"} /\ Undecided(n))
    BY <1>1, <1>2 DEF TypeOK
  <2> QED
    BY <1>2, <2>1, <2>2 DEF FilesInv, RowsInv, Claimed, Ready, Purged, Undecided
<1> QED
  BY <1>3, <1>4, <1>5, <1>6

(* Executions that stop.                                                     *)
LEMMA StopStep ==
  ASSUME LocalInv, FailExecution \/ Crash \/ \E w \in working : Die(w)
  PROVE  LocalInv'
<1> USE DEF LocalInv
<1>1. /\ UNCHANGED <<row, owner, intents, old, account, purge, event, dropped>>
      /\ working' \subseteq working
  BY DEF FailExecution, Crash, Die
<1>2. /\ job' \in [Media -> Job]
      /\ (section' = section /\ disk' = disk) \/ section' = [op |-> "free"]
  <2>1. CASE FailExecution
    BY <2>1, ReturnType DEF FailExecution, Executions, Return
  <2> QED
    BY <2>1 DEF Crash, Die, Leave, TypeOK
<1>3. faults' = faults \/ (faults < MaxFaults /\ faults' = faults + 1)
  <2>1. CASE FailExecution
    BY <2>1 DEF FailExecution
  <2> QED
    BY <2>1 DEF Crash, Die, CanFail
<1>4. /\ disk' \in [Media -> SUBSET Files]
      /\ \A n \in Media : disk'[n] \subseteq disk[n] /\ ("raw" \in disk[n] => "raw" \in disk'[n])
      /\ \A n \in Media : row[n] = "pending" \/ disk'[n] = disk[n]
  <2>1. CASE FailExecution
    <3>1. PICK gone \in SUBSET Outputs :
            /\ gone # {} => section.op = "install" /\ section.step \in Installing
            /\ disk' = [disk EXCEPT ![section.m] = @ \ gone]
      BY <2>1 DEF FailExecution, At, Installing
    <3>2. gone # {} => row[section.m] = "pending"
      BY <3>1, SectionByOp DEF InInstall
    <3>3. disk \in [Media -> SUBSET Files] /\ "raw" \notin gone
      BY DEF TypeOK, Outputs
    <3> QED
      BY <3>1, <3>2, <3>3
  <2> QED
    BY <2>1 DEF Crash, Die, TypeOK
<1>5. TypeOK'
  BY <1>1, <1>2, <1>3, <1>4, LocalFilesAssumption DEF LocalFilesAssumption, TypeOK
<1>6. SectionInv'
  <2>1. CASE section' = section /\ disk' = disk
    BY <1>1, <2>1, SectionKept
  <2> QED
    BY <1>2, <2>1 DEF SectionInv
<1>7. PurgesInv'
  BY <1>1, <1>2, PurgesKept DEF Ready
<1>8. ASSUME NEW n \in Media PROVE FilesInv(n)' /\ RowsInv(n)'
  BY <1>1, <1>4 DEF FilesInv, RowsInv, Claimed, Ready, Purged
<1> QED
  BY <1>5, <1>6, <1>7, <1>8

------------------------------------------------------------------------------
(* The account is suspended and reinstated.                                  *)
LEMMA SuspendStep ==
  ASSUME LocalInv, Suspend
  PROVE  LocalInv'
<1> USE DEF LocalInv
<1>1. /\ account' = [account EXCEPT !.suspended = TRUE, !.request = account.last + 1, !.last = account.last + 1]
      /\ event' = account.last + 1 /\ ~account.suspended /\ account.last + 1 \in Requests
      /\ section = [op |-> "free"]
      /\ UNCHANGED <<row, owner, disk, job, working, section, intents, old, purge, dropped, faults>>
  BY SectionByOp, LocalFilesAssumption DEF LocalFilesAssumption, Suspend, Free, TypeOK, Requests
<1>2. TypeOK'
  BY <1>1 DEF TypeOK
<1>3. SectionInv'
  BY <1>1 DEF SectionInv
<1>4. AccountInv' /\ JobInv'
  BY <1>1 DEF PurgesInv, AccountInv, JobInv, Purging, TypeOK, Requests, Ready
<1>5. ASSUME NEW x \in Purges' PROVE PurgeInv(x)'
  <2>1. PurgeInv(x)
    BY <1>1 DEF Purges, PurgesInv
  <2>2. x.for \in Nat
    <3>1. x \in Purger
      BY <1>1 DEF Purges, TypeOK, Work, Purger
    <3> QED
      BY <3>1 DEF Purger, Requests
  <2> QED
    BY <1>1, <2>1, <2>2 DEF PurgeInv, TypeOK, Requests
<1>6. ASSUME NEW n \in Media PROVE FilesInv(n)' /\ RowsInv(n)'
  BY <1>1 DEF FilesInv, RowsInv, Claimed, Ready, Purged, TypeOK
<1> QED
  BY <1>2, <1>3, <1>4, <1>5, <1>6 DEF PurgesInv

(* The manifest of an emptied account is dropped with its job.               *)
LEMMA UnsuspendStep ==
  ASSUME LocalInv, Unsuspend
  PROVE  LocalInv'
<1> USE DEF LocalInv
<1>1. /\ account' = [account EXCEPT !.suspended = FALSE, !.request = 0] /\ event' = 0
      /\ purge' = IF purge.state = "queued" THEN NoPurge ELSE purge
      /\ dropped' = IF account.disabled THEN dropped \cup purge.manifest ELSE dropped
      /\ section = [op |-> "free"]
      /\ UNCHANGED <<row, owner, disk, job, working, section, intents, old, faults>>
  BY SectionByOp DEF Unsuspend, Free
<1>2. TypeOK'
  <2>1. NoPurge \in [state : {"none", "queued", "leased"}, for : Requests, collected : BOOLEAN,
                      manifest : SUBSET Media]
    BY LocalFilesAssumption DEF LocalFilesAssumption, NoPurge, Requests
  <2>2. purge' \in {purge, NoPurge} /\ dropped' \subseteq Media
    BY <1>1 DEF TypeOK
  <2>3. account' \in [suspended : BOOLEAN, disabled : BOOLEAN, request : Requests, last : Requests]
    <3>1. 0 \in Requests
      BY LocalFilesAssumption DEF LocalFilesAssumption, Requests
    <3>2. [account EXCEPT !.suspended = FALSE] \in [suspended : BOOLEAN, disabled : BOOLEAN, request : Requests, last : Requests]
      BY DEF TypeOK
    <3> QED
      BY <1>1, <3>1, <3>2
  <2>4. event' \in Requests
    BY <1>1, LocalFilesAssumption DEF LocalFilesAssumption, Requests
  <2> QED
    BY <1>1, <2>1, <2>2, <2>3, <2>4 DEF TypeOK
<1>3. SectionInv'
  BY <1>1 DEF SectionInv
<1>4. AccountInv'
  BY <1>1 DEF PurgesInv, AccountInv, TypeOK, Requests
<1>5. JobInv'
  BY <1>1 DEF PurgesInv, JobInv, Purging, TypeOK, NoPurge, Ready
<1>6. ASSUME NEW x \in Purges' PROVE PurgeInv(x)'
  <2>1. PurgeInv(x)
    BY <1>1 DEF Purges, PurgesInv
  <2> QED
    BY <1>1, <2>1 DEF PurgeInv, TypeOK, NoPurge
<1>7. ASSUME NEW n \in Media PROVE FilesInv(n)' /\ RowsInv(n)'
  BY <1>1 DEF FilesInv, RowsInv, Claimed, Ready, Purged, TypeOK
<1> QED
  BY <1>2, <1>3, <1>4, <1>5, <1>6, <1>7 DEF PurgesInv

------------------------------------------------------------------------------
(* The purge job in the queue.                                               *)

(* A dispatched purge has collected nothing.                                 *)
LEMMA DispatchPurgeStep ==
  ASSUME LocalInv, DispatchPurge
  PROVE  LocalInv'
<1> USE DEF LocalInv
<1>1. /\ event # 0 /\ event = account.request /\ purge.state = "none"
      /\ purge' = [state |-> "queued", for |-> event, collected |-> FALSE, manifest |-> {}] /\ event' = 0
      /\ UNCHANGED <<row, owner, disk, job, working, section, intents, old, account, dropped, faults>>
  BY DEF DispatchPurge, PurgesInv, AccountInv, NoPurge
<1>2. TypeOK'
  BY <1>1, LocalFilesAssumption DEF LocalFilesAssumption, TypeOK, Requests
<1>3. SectionInv'
  BY <1>1, SectionKept
<1>4. AccountInv' /\ JobInv'
  BY <1>1 DEF PurgesInv, AccountInv, JobInv, Purging, TypeOK, Requests, Ready
<1>5. ASSUME NEW x \in Purges' PROVE PurgeInv(x)'
  <2>1. PurgeInv(x)
    BY <1>1 DEF Purges, PurgesInv
  <2> QED
    BY <1>1, <2>1 DEF PurgeInv, TypeOK, Ready
<1>6. ASSUME NEW n \in Media PROVE FilesInv(n)' /\ RowsInv(n)'
  BY <1>1 DEF FilesInv, RowsInv, Claimed, Ready, Purged
<1> QED
  BY <1>2, <1>3, <1>4, <1>5, <1>6 DEF PurgesInv

(* The executions of the purge job keep their form.                          *)
LEMMA PurgesType ==
  ASSUME LocalInv, NEW x \in Purges
  PROVE  /\ x.for \in Requests /\ x.collected \in BOOLEAN /\ x.manifest \subseteq Media /\ x.live \in BOOLEAN
         /\ PurgeInv(x)
<1>1. CASE x \in working
  <2>1. x \in Purger
    BY <1>1, SectionByOp DEF LocalInv, TypeOK, Purges, Work, InPurge
  <2> QED
    BY <2>1 DEF LocalInv, PurgesInv, Purger
<1>2. CASE x = section /\ section.op = "purge"
  BY <1>2, SectionByOp DEF LocalInv, PurgesInv, InPurge
<1> QED
  BY <1>1, <1>2 DEF Purges

(* An execution has the arguments of the job.                                *)
LEMMA ClaimPurgeStep ==
  ASSUME LocalInv, ClaimPurge
  PROVE  LocalInv'
<1> USE DEF LocalInv
<1> DEFINE new == [phase |-> "purge", for |-> purge.for, collected |-> purge.collected,
                   manifest |-> purge.manifest, live |-> TRUE]
<1>1. PICK p : p = new
  OBVIOUS
<1>2. /\ purge.state = "queued" /\ purge' = [purge EXCEPT !.state = "leased"] /\ working' = working \cup {p}
      /\ UNCHANGED <<row, owner, disk, job, section, intents, old, account, event, dropped, faults>>
  BY <1>1 DEF ClaimPurge
<1>3. p \in Purger
  BY <1>1 DEF TypeOK, Purger
<1>4. TypeOK'
  BY <1>2, <1>3 DEF TypeOK
<1>5. SectionInv'
  BY <1>2, SectionKept
<1>6. AccountInv'
  BY <1>2 DEF PurgesInv, AccountInv, Ready
<1>7. /\ purge'.state = "leased" /\ purge'.for = purge.for /\ purge'.collected = purge.collected
      /\ purge'.manifest = purge.manifest
  BY <1>2 DEF TypeOK
<1>8. ASSUME NEW x \in Purges PROVE ~x.live
  BY <1>2, <1>8, PurgesType DEF PurgeInv
<1>9. JobInv'
  <2>1. ~(section.op = "purge" /\ section.live)
    BY <1>8 DEF Purges
  <2> QED
    BY <1>2, <1>7, <2>1 DEF PurgesInv, JobInv, Ready
<1>10. ASSUME NEW x \in Purges' PROVE PurgeInv(x)'
  <2>1. CASE x = p
    BY <1>1, <1>2, <1>7, <2>1 DEF PurgesInv, JobInv, PurgeInv, Ready
  <2>2. CASE x # p
    <3>1. x \in Purges
      BY <1>2, <2>2 DEF Purges
    <3> QED
      BY <1>2, <1>7, <1>8, <3>1, PurgesType DEF PurgeInv, Ready
  <2> QED
    BY <2>1, <2>2
<1>11. ASSUME NEW n \in Media PROVE FilesInv(n)' /\ RowsInv(n)'
  BY <1>2, <1>7 DEF FilesInv, RowsInv, Claimed, Ready, Purged
<1> QED
  BY <1>4, <1>5, <1>6, <1>9, <1>10, <1>11 DEF PurgesInv

(* The job of an execution that is gone returns to the queue.                *)
LEMMA PurgeExpiresStep ==
  ASSUME LocalInv, PurgeLeaseExpires
  PROVE  LocalInv'
<1> USE DEF LocalInv
<1>1. /\ purge.state = "leased" /\ purge' = [purge EXCEPT !.state = "queued"]
      /\ \A x \in Purges : ~x.live
      /\ UNCHANGED <<row, owner, disk, job, working, section, intents, old, account, event, dropped, faults>>
  BY DEF PurgeLeaseExpires, PurgeOrphaned, Purges, Purging
<1>2. /\ purge'.state = "queued" /\ purge'.for = purge.for /\ purge'.collected = purge.collected
      /\ purge'.manifest = purge.manifest
  BY <1>1 DEF TypeOK
<1>3. TypeOK'
  BY <1>1 DEF TypeOK
<1>4. SectionInv'
  BY <1>1, SectionKept
<1>5. AccountInv' /\ JobInv'
  BY <1>1, <1>2 DEF PurgesInv, AccountInv, JobInv, Purging, Ready
<1>6. ASSUME NEW x \in Purges' PROVE PurgeInv(x)'
  <2>1. x \in Purges
    BY <1>1 DEF Purges
  <2> QED
    BY <1>1, <1>2, <2>1, PurgesType DEF PurgeInv, Ready
<1>7. ASSUME NEW n \in Media PROVE FilesInv(n)' /\ RowsInv(n)'
  BY <1>1, <1>2 DEF FilesInv, RowsInv, Claimed, Ready, Purged
<1> QED
  BY <1>3, <1>4, <1>5, <1>6, <1>7 DEF PurgesInv

(* So does the job of one that goes on without its lease.                    *)
LEMMA PurgeLapseStep ==
  ASSUME LocalInv, PurgeLapse
  PROVE  LocalInv'
<1> USE DEF LocalInv
<1>1. /\ purge.state = "leased" /\ purge' = [purge EXCEPT !.state = "queued"]
      /\ working' = {IF Purging(w) THEN [w EXCEPT !.live = FALSE] ELSE w : w \in working}
      /\ section' = IF section.op = "purge" THEN [section EXCEPT !.live = FALSE] ELSE section
      /\ faults < MaxFaults /\ faults' = faults + 1
      /\ UNCHANGED <<row, owner, disk, job, intents, old, account, event, dropped>>
  BY DEF PurgeLapse, CanFail
<1>2. /\ purge'.state = "queued" /\ purge'.for = purge.for /\ purge'.collected = purge.collected
      /\ purge'.manifest = purge.manifest
  BY <1>1 DEF TypeOK
<1>3. ASSUME NEW w \in working PROVE (IF Purging(w) THEN [w EXCEPT !.live = FALSE] ELSE w) \in Work \cup Purger
  <2>1. CASE Purging(w)
    <3>1. w \in Purger
      BY <2>1 DEF TypeOK, Work, Purging
    <3> QED
      BY <2>1, <3>1 DEF Purger
  <2> QED
    BY <2>1 DEF TypeOK
<1>4. TypeOK'
  <2>1. working' \subseteq Work \cup Purger
    BY <1>1, <1>3
  <2> QED
    BY <1>1, <2>1, LocalFilesAssumption DEF LocalFilesAssumption, TypeOK
<1>5. SectionInv'
  <2>1. CASE section.op = "purge"
    <3>1. InPurge'
      BY <1>1, <2>1, SectionByOp DEF InPurge
    <3> QED
      BY <3>1 DEF SectionInv
  <2>2. CASE section.op # "purge"
    BY <1>1, <2>2, SectionKept
  <2> QED
    BY <2>1, <2>2
<1>6. ASSUME NEW x \in Purges'
      PROVE  \E y \in Purges : /\ x.for = y.for /\ x.collected = y.collected /\ x.manifest = y.manifest /\ ~x.live
  <2>1. CASE x \in working'
    <3>1. PICK w \in working : x = IF Purging(w) THEN [w EXCEPT !.live = FALSE] ELSE w
      BY <1>1, <2>1
    <3>2. x.phase = "purge" /\ w.phase = "purge" /\ w \in Purger
      BY <1>1, <2>1, <3>1, <1>6, SectionByOp DEF Purges, TypeOK, Work, Purger, Purging, InPurge
    <3>3. w \in Purges
      BY <3>2 DEF Purges
    <3>4. x.for = w.for /\ x.collected = w.collected /\ x.manifest = w.manifest /\ ~x.live
      BY <3>1, <3>2 DEF Purging, Purger
    <3> QED
      BY <3>3, <3>4
  <2>2. CASE section'.op = "purge" /\ x = section'
    <3>1. InPurge /\ section.op = "purge"
      BY <1>1, <2>2, SectionByOp DEF InPurge
    <3> QED
      BY <1>1, <2>2, <3>1 DEF Purges, InPurge
  <2> QED
    BY <1>6, <2>1, <2>2 DEF Purges
<1>7. AccountInv' /\ JobInv'
  <2>1. ASSUME NEW w \in working', w.phase = "purge" PROVE ~w.live
    BY <1>6, <2>1 DEF Purges
  <2> QED
    BY <1>1, <1>2, <2>1 DEF PurgesInv, AccountInv, JobInv, Purging, Ready
<1>8. ASSUME NEW x \in Purges' PROVE PurgeInv(x)'
  <2>1. PICK y \in Purges : x.for = y.for /\ x.collected = y.collected /\ x.manifest = y.manifest /\ ~x.live
    BY <1>6, <1>8
  <2>2. PurgeInv(y)
    BY DEF PurgesInv
  <2> QED
    BY <1>1, <1>2, <2>1, <2>2 DEF PurgeInv, Ready
<1>9. ASSUME NEW n \in Media PROVE FilesInv(n)' /\ RowsInv(n)'
  BY <1>1, <1>2 DEF FilesInv, RowsInv, Claimed, Ready, Purged
<1> QED
  BY <1>4, <1>5, <1>7, <1>8, <1>9 DEF PurgesInv

------------------------------------------------------------------------------
(* The purge under the lock.                                                 *)

(* The execution with the lease asks for the lock and gets it.               *)
LEMMA EnterPurgeStep ==
  ASSUME LocalInv, NEW w \in working, EnterPurge(w)
  PROVE  LocalInv'
<1> USE DEF LocalInv
<1>1. /\ working' = working \ {w} /\ section = [op |-> "free"]
      /\ section' = [op |-> "purge", step |-> "collect", for |-> w.for, collected |-> w.collected,
                     manifest |-> w.manifest, live |-> w.live]
      /\ UNCHANGED <<row, owner, disk, job, intents, old, account, purge, event, dropped, faults>>
  BY SectionByOp DEF EnterPurge, Free
<1>2. w \in Purger /\ w \in Purges
  BY DEF EnterPurge, TypeOK, Work, Purges
<1>3. TypeOK'
  BY <1>1 DEF TypeOK
<1>4. SectionInv'
  <2>1. InPurge'
    BY <1>1, <1>2 DEF InPurge, Purger
  <2> QED
    BY <2>1 DEF SectionInv
<1>5. AccountInv'
  BY <1>1 DEF PurgesInv, AccountInv
<1>6. ASSUME NEW x \in Purges' PROVE PurgeInv(x)'
  <2>1. PICK y \in Purges : x.for = y.for /\ x.collected = y.collected /\ x.manifest = y.manifest /\ x.live = y.live
    BY <1>1, <1>2 DEF Purges
  <2>2. PurgeInv(y)
    BY DEF PurgesInv
  <2> QED
    BY <1>1, <2>1, <2>2 DEF PurgeInv, Ready
<1>7. JobInv'
  <2>1. ASSUME NEW v \in working, v # w, Purging(v), w.live PROVE FALSE
    <3>1. v \in Purges /\ v \in Purger
      BY <2>1 DEF Purging, TypeOK, Work, Purges
    <3>2. v.for = w.for /\ v.collected = w.collected /\ v.manifest = w.manifest /\ v.live = w.live /\ v.phase = w.phase
      BY <1>2, <2>1, <3>1, PurgesType DEF PurgeInv, Purging, Purger
    <3>3. \A x \in Purger : x = [phase |-> x.phase, for |-> x.for, collected |-> x.collected,
                                 manifest |-> x.manifest, live |-> x.live]
      BY DEF Purger
    <3> QED
      BY <1>2, <2>1, <3>1, <3>2, <3>3
  <2> QED
    BY <1>1, <2>1 DEF PurgesInv, JobInv, Ready, Purging
<1>8. ASSUME NEW n \in Media PROVE FilesInv(n)' /\ RowsInv(n)'
  BY <1>1 DEF FilesInv, RowsInv, Claimed, Ready, Purged
<1> QED
  BY <1>3, <1>4, <1>5, <1>6, <1>7, <1>8 DEF PurgesInv

(* The execution under the lock has the lease alone, or none has it.         *)
LEMMA OneLease ==
  ASSUME LocalInv, section.op = "purge"
  PROVE  /\ InPurge /\ section \in Purges /\ PurgeInv(section)
         /\ section.live => \A w \in working : w.phase = "purge" => ~w.live
         /\ section.live => /\ purge.state = "leased" /\ purge.for = section.for
                            /\ purge.collected = section.collected /\ purge.manifest = section.manifest
<1>1. InPurge /\ section \in Purges
  BY SectionByOp DEF LocalInv, Purges
<1>2. PurgeInv(section)
  BY <1>1 DEF LocalInv, PurgesInv
<1> QED
  BY <1>1, <1>2 DEF LocalInv, PurgesInv, JobInv, Purging, PurgeInv

(* A return of the purge takes the job away only when it is no longer owed.  *)
LEMMA ReturnPurgeInv ==
  ASSUME LocalInv, section.op = "purge", NEW ok \in BOOLEAN, ReturnPurge(ok),
         ok => account.request # section.for,
         UNCHANGED <<row, working, account, event>>
  PROVE  PurgesInv' /\ SectionInv'
<1> USE DEF LocalInv
<1>1. /\ section' = [op |-> "free"]
      /\ purge' = IF ~section.live THEN purge ELSE IF ok THEN NoPurge ELSE [purge EXCEPT !.state = "queued"]
  BY DEF ReturnPurge, Leave
<1>2. SectionInv'
  BY <1>1 DEF SectionInv
<1>3. AccountInv'
  BY DEF PurgesInv, AccountInv
<1>4. JobInv'
  <2>1. CASE ~section.live
    BY <1>1, <2>1 DEF PurgesInv, JobInv, Purging, Ready
  <2>2. CASE section.live /\ ok
    BY <1>1, <2>2 DEF PurgesInv, JobInv, Purging, NoPurge
  <2>3. CASE section.live /\ ~ok
    <3>1. /\ purge'.state = "queued" /\ purge'.for = purge.for /\ purge'.collected = purge.collected
          /\ purge'.manifest = purge.manifest
      BY <1>1, <2>3 DEF TypeOK
    <3>2. purge.state # "none"
      BY <2>3, OneLease
    <3> QED
      BY <1>1, <3>1, <3>2 DEF PurgesInv, JobInv, Purging, Ready
  <2> QED
    BY <2>1, <2>2, <2>3
<1>5. ASSUME NEW x \in Purges' PROVE PurgeInv(x)'
  <2>1. x \in working /\ x \in Purges /\ PurgeInv(x) /\ x.phase = "purge"
    BY <1>1 DEF Purges, PurgesInv
  <2>2. CASE ~section.live
    BY <1>1, <2>1, <2>2 DEF PurgeInv, Ready
  <2>3. CASE section.live
    <3>1. ~x.live /\ purge.for = section.for /\ purge.state # "none"
      BY <2>1, <2>3, OneLease
    <3>2. ok => purge'.state = "none" /\ account.request # x.for
      BY <1>1, <2>1, <2>3, <3>1 DEF PurgeInv, NoPurge
    <3>3. ~ok => /\ purge'.state = "queued" /\ purge'.for = purge.for /\ purge'.collected = purge.collected
                 /\ purge'.manifest = purge.manifest
      BY <1>1, <2>3 DEF TypeOK
    <3> QED
      BY <2>1, <3>1, <3>2, <3>3 DEF PurgeInv, Ready
  <2> QED
    BY <2>2, <2>3
<1> QED
  BY <1>2, <1>3, <1>4, <1>5 DEF PurgesInv

(* What a return leaves of the job.                                          *)
LEMMA ReturnPurgeType ==
  ASSUME TypeOK, NEW ok \in BOOLEAN, ReturnPurge(ok)
  PROVE  purge' \in [state : {"none", "queued", "leased"}, for : Requests, collected : BOOLEAN,
                     manifest : SUBSET Media]
<1>1. NoPurge \in [state : {"none", "queued", "leased"}, for : Requests, collected : BOOLEAN,
                   manifest : SUBSET Media]
  BY LocalFilesAssumption DEF LocalFilesAssumption, NoPurge, Requests
<1> QED
  BY <1>1 DEF ReturnPurge, TypeOK

(* The manifest is in the job before anything depends on it.                 *)
LEMMA CollectStep ==
  ASSUME LocalInv, CollectManifest
  PROVE  LocalInv'
<1> USE DEF LocalInv
<1>1. /\ section.op = "purge" /\ section.step = "collect"
      /\ UNCHANGED <<row, owner, disk, job, working, intents, old, account, event, dropped, faults>>
  BY DEF CollectManifest, At
<1>2. InPurge /\ PurgeInv(section)
  BY <1>1, OneLease
<1>3. AccountInv'
  BY <1>1 DEF PurgesInv, AccountInv
<1>4. CASE section.collected /\ Step("database") /\ UNCHANGED purge
  <2>1. section' = [section EXCEPT !.step = "database"] /\ purge' = purge
    BY <1>4 DEF Step
  <2>2. InPurge' /\ section'.op = "purge" /\ section'.live = section.live /\ section'.for = section.for
          /\ section'.collected = section.collected /\ section'.manifest = section.manifest
    BY <1>1, <1>2, <1>4, <2>1 DEF InPurge
  <2>3. TypeOK'
    BY <1>1, <2>1 DEF TypeOK
  <2>4. JobInv'
    BY <1>1, <2>1, <2>2 DEF PurgesInv, JobInv, Purging, Ready
  <2>5. ASSUME NEW x \in Purges' PROVE PurgeInv(x)'
    <3>1. PICK y \in Purges : x.for = y.for /\ x.collected = y.collected /\ x.manifest = y.manifest /\ x.live = y.live
      BY <1>1, <2>2 DEF Purges
    <3>2. PurgeInv(y)
      BY DEF PurgesInv
    <3> QED
      BY <1>1, <2>1, <3>1, <3>2 DEF PurgeInv, Ready
  <2>6. ASSUME NEW n \in Media PROVE FilesInv(n)' /\ RowsInv(n)'
    BY <1>1, <2>1 DEF FilesInv, RowsInv, Claimed, Ready, Purged
  <2> QED
    BY <1>3, <2>2, <2>3, <2>4, <2>5, <2>6 DEF PurgesInv, SectionInv
<1>5. CASE ~section.live /\ ReturnPurge(FALSE)
  <2>1. TypeOK'
    BY <1>1, <1>5, ReturnPurgeType DEF TypeOK
  <2>2. PurgesInv' /\ SectionInv'
    BY <1>1, <1>5, ReturnPurgeInv
  <2>3. purge' = purge
    BY <1>5 DEF ReturnPurge
  <2>4. ASSUME NEW n \in Media PROVE FilesInv(n)' /\ RowsInv(n)'
    BY <1>1, <2>3 DEF FilesInv, RowsInv, Claimed, Ready, Purged
  <2> QED
    BY <2>1, <2>2, <2>4
<1>6. CASE ~section.collected /\ section.live /\ ~(~section.live /\ ReturnPurge(FALSE))
  <2>1. PICK media \in SUBSET Media :
          /\ media = IF account.suspended /\ account.request = section.for THEN {m \in Media : Ready(m)} ELSE {}
          /\ purge' = [purge EXCEPT !.collected = TRUE, !.manifest = media]
          /\ section' = [section EXCEPT !.step = "database", !.collected = TRUE, !.manifest = media]
    BY <1>6 DEF CollectManifest
  <2>2. InPurge' /\ section'.op = "purge" /\ section'.live /\ section'.for = section.for
          /\ section'.collected /\ section'.manifest = media
    BY <1>1, <1>2, <1>6, <2>1 DEF InPurge
  <2>3. /\ purge.state = "leased" /\ purge.for = section.for /\ ~purge.collected /\ purge.manifest = {}
        /\ \A w \in working : w.phase = "purge" => ~w.live
    BY <1>1, <1>6, OneLease DEF PurgesInv, JobInv
  <2>4. /\ purge'.state = purge.state /\ purge'.for = purge.for /\ purge'.collected = TRUE /\ purge'.manifest = media
    BY <2>1 DEF TypeOK
  <2>5. TypeOK'
    BY <1>1, <2>1 DEF TypeOK
  <2>6. account.request = section.for => \A m \in Media : Ready(m) => m \in media
    BY <1>2, <2>1 DEF PurgesInv, AccountInv, PurgeInv
  <2>7. JobInv'
    BY <1>1, <1>2, <2>3, <2>4, <2>6 DEF PurgesInv, JobInv, PurgeInv, Purging, Ready
  <2>8. ASSUME NEW x \in Purges' PROVE PurgeInv(x)'
    <3>1. CASE x = section'
      BY <1>1, <1>2, <2>2, <2>3, <2>4, <2>6, <3>1 DEF PurgeInv, Ready
    <3>2. CASE x # section'
      <4>1. x \in Purges /\ PurgeInv(x) /\ ~x.live
        BY <1>1, <2>2, <2>3, <3>2 DEF Purges, PurgesInv
      <4> QED
        BY <1>1, <2>3, <2>4, <4>1 DEF PurgeInv, Ready
    <3> QED
      BY <3>1, <3>2
  <2>9. ASSUME NEW n \in Media PROVE FilesInv(n)' /\ RowsInv(n)'
    BY <1>1, <2>3, <2>4 DEF FilesInv, RowsInv, Claimed, Ready, Purged
  <2> QED
    BY <1>3, <2>2, <2>5, <2>7, <2>8, <2>9 DEF PurgesInv, SectionInv
<1> QED
  BY <1>4, <1>5, <1>6 DEF CollectManifest

(* The rows go only when the manifest names what they named.                 *)
LEMMA DatabaseStep ==
  ASSUME LocalInv, PurgeDatabase
  PROVE  LocalInv'
<1> USE DEF LocalInv
<1>1. /\ section.op = "purge" /\ section.step = "database"
      /\ UNCHANGED <<owner, disk, job, working, intents, old, event, dropped, faults>>
  BY DEF PurgeDatabase, At
<1>2. InPurge /\ PurgeInv(section) /\ section.collected
  BY <1>1, OneLease DEF InPurge
<1>3. CASE Skipped /\ ReturnPurge(TRUE) /\ UNCHANGED <<row, account>>
  <2>1. account.request # section.for
    BY <1>2, <1>3 DEF Skipped, PurgeInv, PurgesInv, AccountInv
  <2>2. PurgesInv' /\ SectionInv'
    BY <1>1, <1>3, <2>1, ReturnPurgeInv
  <2>3. TypeOK'
    BY <1>1, <1>3, ReturnPurgeType DEF TypeOK
  <2>4. ~Purged
    BY <1>2, <1>3 DEF Skipped, Purged
  <2>5. ASSUME NEW n \in Media PROVE FilesInv(n)' /\ RowsInv(n)'
    BY <1>1, <1>3, <2>4 DEF FilesInv, RowsInv, Claimed, Ready, Purged
  <2> QED
    BY <2>2, <2>3, <2>5
<1>4. CASE ~Skipped /\ Step("unlink") /\ UNCHANGED purge /\ account.request = 0 /\ UNCHANGED <<row, account>>
  <2>1. section' = [section EXCEPT !.step = "unlink"] /\ purge' = purge
    BY <1>4 DEF Step
  <2>2. account.disabled /\ account.request # section.for
    BY <1>2, <1>4 DEF Skipped, PurgesInv, AccountInv, PurgeInv
  <2>3. /\ InPurge' /\ section'.op = "purge" /\ section'.live = section.live /\ section'.for = section.for
        /\ section'.collected = section.collected /\ section'.manifest = section.manifest
    BY <1>1, <1>2, <1>4, <2>1, <2>2 DEF InPurge
  <2>4. TypeOK'
    BY <1>1, <1>4 DEF TypeOK
  <2>5. AccountInv' /\ JobInv'
    BY <1>1, <1>4, <2>3 DEF PurgesInv, AccountInv, JobInv, Purging, Ready
  <2>6. ASSUME NEW x \in Purges' PROVE PurgeInv(x)'
    <3>1. PICK y \in Purges : x.for = y.for /\ x.collected = y.collected /\ x.manifest = y.manifest /\ x.live = y.live
      BY <1>1, <2>3 DEF Purges
    <3>2. PurgeInv(y)
      BY DEF PurgesInv
    <3> QED
      BY <1>1, <1>4, <3>1, <3>2 DEF PurgeInv, Ready
  <2>7. ASSUME NEW n \in Media PROVE FilesInv(n)' /\ RowsInv(n)'
    BY <1>1, <1>4 DEF FilesInv, RowsInv, Claimed, Ready, Purged
  <2> QED
    BY <2>3, <2>4, <2>5, <2>6, <2>7 DEF PurgesInv, SectionInv
<1>5. CASE /\ ~Skipped /\ Step("unlink") /\ UNCHANGED purge /\ account.request # 0
           /\ row' = [m \in Media |-> IF row[m] = "none" THEN "none" ELSE "deleted"]
           /\ account' = [account EXCEPT !.disabled = TRUE, !.request = 0]
  <2>1. section' = [section EXCEPT !.step = "unlink"] /\ purge' = purge
    BY <1>5 DEF Step
  <2>2. account.suspended /\ account.request = section.for /\ event = 0
    BY <1>2, <1>5 DEF Skipped, PurgesInv, AccountInv, PurgeInv
  <2>3. /\ account'.suspended /\ account'.disabled /\ account'.request = 0 /\ account'.last = account.last
        /\ \A m \in Media : row'[m] = IF row[m] = "none" THEN "none" ELSE "deleted"
    BY <1>5, <2>2 DEF TypeOK
  <2>4. /\ InPurge' /\ section'.op = "purge" /\ section'.live = section.live /\ section'.for = section.for
        /\ section'.collected = section.collected /\ section'.manifest = section.manifest
    BY <1>1, <1>2, <1>5, <2>1, <2>2, <2>3 DEF InPurge
  <2>5. TypeOK'
    <3>1. row' \in [Media -> Rows]
      BY <1>5 DEF TypeOK, Rows
    <3>2. account' \in [suspended : BOOLEAN, disabled : BOOLEAN, request : Requests, last : Requests]
      <4>1. 0 \in Requests
        BY LocalFilesAssumption DEF LocalFilesAssumption, Requests
      <4> QED
        BY <1>5, <4>1 DEF TypeOK
    <3> QED
      BY <1>1, <1>5, <3>1, <3>2 DEF TypeOK
  <2>6. AccountInv'
    BY <1>1, <2>2, <2>3 DEF PurgesInv, AccountInv, TypeOK, Requests
  <2>7. ASSUME NEW m \in Media PROVE ~Ready(m)'
    BY <2>3 DEF Ready
  <2>8. JobInv'
    BY <1>1, <1>5, <2>3, <2>4, <2>7 DEF PurgesInv, JobInv, Purging
  <2>9. ASSUME NEW x \in Purges' PROVE PurgeInv(x)'
    <3>1. PICK y \in Purges : x.for = y.for /\ x.collected = y.collected /\ x.manifest = y.manifest /\ x.live = y.live
      BY <1>1, <2>4 DEF Purges
    <3>2. PurgeInv(y)
      BY DEF PurgesInv
    <3> QED
      BY <1>1, <1>5, <2>3, <2>7, <3>1, <3>2 DEF PurgeInv
  <2>10. ASSUME NEW n \in Media PROVE FilesInv(n)' /\ RowsInv(n)'
    <3>1. RowsInv(n)'
      BY <1>1, <2>3 DEF RowsInv
    <3>2. purge.state # "none" /\ (Ready(n) => n \in purge.manifest) /\ Purged'
      BY <1>2, <2>2, <2>3 DEF PurgeInv, Purged
    <3>3. disk[n] \cap Outputs # {} => Claimed(n)'
      <4>1. ~Purged
        BY <1>5 DEF Purged
      <4> QED
        BY <1>1, <1>5, <3>2, <4>1 DEF FilesInv, Claimed
    <3> QED
      BY <1>1, <2>3, <2>7, <3>1, <3>3 DEF FilesInv
  <2> QED
    BY <2>4, <2>5, <2>6, <2>8, <2>9, <2>10 DEF PurgesInv, SectionInv
<1> QED
  BY <1>3, <1>4, <1>5 DEF PurgeDatabase

(* The manifest is gone when its files are, and they are nobody's.           *)
LEMMA UnlinkStep ==
  ASSUME LocalInv, UnlinkManifest \/ PurgeFails
  PROVE  LocalInv'
<1> USE DEF LocalInv
<1>1. /\ section.op = "purge"
      /\ UNCHANGED <<row, owner, job, working, intents, old, account, event, dropped>>
  BY DEF UnlinkManifest, PurgeFails, At
<1>2. PICK gone \in [Media -> SUBSET Outputs] :
        /\ disk' = [m \in Media |-> disk[m] \ gone[m]]
        /\ \A m \in Media : gone[m] # {} => section.step = "unlink"
        /\ ~PurgeFails => \A m \in section.manifest : gone[m] = Outputs
  <2>1. CASE PurgeFails
    BY <2>1 DEF PurgeFails
  <2>2. CASE UnlinkManifest
    <3>1. PICK gone : gone = [m \in Media |-> IF m \in section.manifest THEN Outputs ELSE {}]
      OBVIOUS
    <3>2. gone \in [Media -> SUBSET Outputs] /\ section.step = "unlink" /\ section.manifest \subseteq Media
      BY <1>1, <2>2, <3>1, OneLease DEF UnlinkManifest, At, InPurge
    <3>3. disk' = [m \in Media |-> disk[m] \ gone[m]]
      BY <2>2, <3>1 DEF UnlinkManifest, TypeOK
    <3> QED
      BY <3>1, <3>2, <3>3
  <2> QED
    BY <2>1, <2>2
<1>3. /\ PurgeFails => ReturnPurge(FALSE)
      /\ ~PurgeFails => ReturnPurge(TRUE) /\ section.step = "unlink"
  BY DEF UnlinkManifest, PurgeFails, At
<1>4. section.step = "unlink" => account.disabled /\ account.request # section.for
  BY <1>1, OneLease DEF InPurge
<1>5. PurgesInv' /\ SectionInv'
  BY <1>1, <1>3, <1>4, ReturnPurgeInv
<1>6. TypeOK'
  <2>1. disk' \in [Media -> SUBSET Files]
    BY <1>2 DEF TypeOK
  <2>2. CASE PurgeFails
    <3>1. faults < MaxFaults /\ faults' = faults + 1
      BY <2>2 DEF PurgeFails, CanFail
    <3>2. faults' \in 0 .. MaxFaults
      BY <3>1, LocalFilesAssumption DEF LocalFilesAssumption, TypeOK
    <3> QED
      BY <1>1, <1>3, <1>5, <2>1, <2>2, <3>2, ReturnPurgeType DEF TypeOK
  <2>3. CASE UnlinkManifest /\ ~PurgeFails
    BY <1>1, <1>3, <1>5, <2>1, <2>3, ReturnPurgeType DEF TypeOK, UnlinkManifest
  <2> QED
    BY <2>2, <2>3
<1>7. ASSUME NEW n \in Media PROVE FilesInv(n)' /\ RowsInv(n)'
  <2>1. RowsInv(n)'
    BY <1>1 DEF RowsInv
  <2>2. disk'[n] = disk[n] \ gone[n] /\ gone[n] \subseteq Outputs /\ (Ready(n) => gone[n] = {})
    BY <1>2, <1>4 DEF PurgesInv, AccountInv, Ready
  <2>3. \/ /\ purge'.state = "none" <=> purge.state = "none"
           /\ purge'.manifest = purge.manifest
        \/ ~PurgeFails /\ purge.manifest = section.manifest
    <3>1. CASE ~section.live
      BY <1>3, <3>1 DEF ReturnPurge
    <3>2. CASE section.live /\ PurgeFails
      <4>1. purge' = [purge EXCEPT !.state = "queued"] /\ purge.state = "leased"
        BY <1>1, <1>3, <3>2, OneLease DEF ReturnPurge
      <4> QED
        BY <4>1 DEF TypeOK
    <3>3. CASE section.live /\ ~PurgeFails
      BY <1>1, <3>3, OneLease
    <3> QED
      BY <3>1, <3>2, <3>3
  <2>4. disk'[n] \cap Outputs # {} => Claimed(n)'
    <3>1. ASSUME disk'[n] \cap Outputs # {} PROVE Claimed(n)
      BY <2>2, <3>1 DEF FilesInv
    <3>2. (~PurgeFails /\ n \in section.manifest) => disk'[n] \cap Outputs = {}
      BY <1>2, <2>2
    <3> QED
      BY <1>1, <2>3, <3>1, <3>2 DEF Claimed, Ready, Purged
  <2>5. "raw" \in disk'[n] <=> "raw" \in disk[n]
    BY <2>2 DEF Outputs
  <2> QED
    BY <1>1, <2>1, <2>2, <2>4, <2>5 DEF FilesInv, Ready
<1> QED
  BY <1>5, <1>6, <1>7

------------------------------------------------------------------------------
(* Every step keeps it, and so does a stutter.                               *)
LEMMA NextInv == LocalInv /\ [Next]_vars => LocalInv'
<1> SUFFICES ASSUME LocalInv, [Next]_vars PROVE LocalInv'
  OBVIOUS
<1>1. CASE SectionStep
  BY <1>1, WriteStep, PublishImageStep, AcceptStep, CleanupStep, ClaimStep, RegisterStep, ClearStep, DecideStep,
     RecoverStep, AbortStep, StopStep, CollectStep, DatabaseStep, UnlinkStep
  DEF SectionStep
<1>2. CASE Faults
  BY <1>2, CleanupStep, StopStep, PurgeLapseStep, UnlinkStep, LapseStep, CleanStep DEF Faults
<1>3. ASSUME NEW m \in Media, \/ StageImage(m) \/ StageRich(m) \/ DispatchUpload(m) \/ ClaimJob(m)
                              \/ LeaseExpires(m) \/ EnterRecover(m) \/ Hour(m)
                              \/ Attach(m) \/ DeleteStatus(m) \/ DeleteMedia(m)
                              \/ \E a \in intents[m] : CleanMedia(m, a)
      PROVE  LocalInv'
  BY <1>3, StageStep, QueueStep, EnterStep, PostStep, DeleteStep, CleanStep
<1>4. ASSUME NEW w \in working, EnterProcess(w) \/ EnterPurge(w) PROVE LocalInv'
  BY <1>4, EnterStep, EnterPurgeStep
<1>5. CASE Suspend \/ Unsuspend \/ DispatchPurge \/ ClaimPurge \/ PurgeLeaseExpires
  BY <1>5, SuspendStep, UnsuspendStep, DispatchPurgeStep, ClaimPurgeStep, PurgeExpiresStep
<1>6. CASE UNCHANGED vars
  <2>1. /\ row' = row /\ owner' = owner /\ disk' = disk /\ job' = job /\ working' = working
        /\ section' = section /\ intents' = intents /\ old' = old /\ account' = account
        /\ purge' = purge /\ event' = event /\ dropped' = dropped /\ faults' = faults
    BY <1>6 DEF vars
  <2>2. TypeOK'
    BY <2>1 DEF LocalInv, TypeOK
  <2>3. SectionInv'
    BY <2>1, SectionKept DEF LocalInv
  <2>4. PurgesInv'
    BY <2>1, PurgesKept DEF LocalInv, Ready
  <2>5. ASSUME NEW n \in Media PROVE FilesInv(n)' /\ RowsInv(n)'
    BY <2>1 DEF LocalInv, FilesInv, RowsInv, Claimed, Ready, Purged
  <2> QED
    BY <2>2, <2>3, <2>4, <2>5 DEF LocalInv
<1> QED
  BY <1>1, <1>2, <1>3, <1>4, <1>5, <1>6 DEF Next

(* What the invariant says of the files, in the words of the runs.           *)
LEMMA FilesCovered ==
  ASSUME LocalInv
  PROVE  NothingOrphaned /\ ReadyIsComplete /\ AcceptedHasInput
<1>1. ASSUME NEW m \in Media PROVE disk[m] \subseteq Named(m)
  <2>1. FilesInv(m) /\ disk[m] \subseteq {"raw"} \cup Outputs
    BY DEF LocalInv, TypeOK, Files
  <2>2. Claimed(m) => Outputs \subseteq Named(m)
    BY DEF Claimed, Named
  <2>3. owner[m].state # "none" => "raw" \in Named(m)
    BY DEF Named
  <2> QED
    BY <2>1, <2>2, <2>3 DEF FilesInv
<1> QED
  BY <1>1 DEF LocalInv, FilesInv, NothingOrphaned, ReadyIsComplete, AcceptedHasInput

(* Every reachable state is well formed.                                     *)
THEOREM TypeCorrect == Spec => []TypeOK
<1>1. LocalInv => TypeOK
  BY DEF LocalInv
<1> QED
  BY <1>1, InitInv, NextInv, PTL DEF Spec

(* However requests, executions, cleanups and purges of one account are      *)
(* interleaved, and wherever they stop, every file on disk has an attachment *)
(* or somebody who will still remove it.                                     *)
THEOREM EveryFileIsClaimed == Spec => []NothingOrphaned
<1>1. LocalInv => NothingOrphaned
  BY FilesCovered
<1> QED
  BY <1>1, InitInv, NextInv, PTL DEF Spec

(* An attachment that is shown has all of its files, whatever recovery,      *)
(* cleanup and purge do meanwhile.                                           *)
THEOREM ShownFilesExist == Spec => []ReadyIsComplete
<1>1. LocalInv => ReadyIsComplete
  BY FilesCovered
<1> QED
  BY <1>1, InitInv, NextInv, PTL DEF Spec

(* An upload that was accepted keeps its input until its processing is over. *)
THEOREM AcceptedInputExists == Spec => []AcceptedHasInput
<1>1. LocalInv => AcceptedHasInput
  BY FilesCovered
<1> QED
  BY <1>1, InitInv, NextInv, PTL DEF Spec
=============================================================================
