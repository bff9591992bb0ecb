----------------------------- MODULE JobStream -----------------------------
(***************************************************************************)
(* What the durable queue promises to the code that enqueues work,         *)
(* with leases, generations, retries and crashes left out.                 *)
(*                                                                         *)
(*   - A submitted job is never lost: it stays pending until it is         *)
(*     finished, given up (dead-lettered) or withdrawn (cancelled).        *)
(*   - It is finished only after its handler has succeeded once.           *)
(*   - Within one stream a job is started only when no earlier job of      *)
(*     that stream is still pending.                                       *)
(*   - An outcome is final.  The handler of a job may nevertheless perform *)
(*     its effect again, and late: the queue is at least once.             *)
(***************************************************************************)
EXTENDS Naturals

CONSTANTS
  JobIds,    (* identifiers, in each stream in the order of submission      *)
  Streams,   (* the ordering keys                                           *)
  NoStream   (* the stream of a job that was submitted without ordering     *)

VARIABLES
  state,     (* [JobIds -> "absent", "pending" or an outcome]               *)
  stream,    (* [JobIds -> Streams \cup {NoStream}]                         *)
  started,   (* jobs whose handler was ever started                         *)
  performed  (* jobs whose handler ever succeeded                           *)

vars == <<state, stream, started, performed>>

Pending(j) == state[j] = "pending"

Earlier(j) ==
  {i \in JobIds : i < j /\ stream[j] # NoStream /\ stream[i] = stream[j]}

Init ==
  /\ state = [j \in JobIds |-> "absent"]
  /\ stream = [j \in JobIds |-> NoStream]
  /\ started = {}
  /\ performed = {}

Submit(j, s) ==
  /\ state[j] = "absent"
  /\ s # NoStream => \A i \in JobIds : i > j => stream[i] # s
  /\ state' = [state EXCEPT ![j] = "pending"]
  /\ stream' = [stream EXCEPT ![j] = s]
  /\ UNCHANGED <<started, performed>>

Start(j) ==
  /\ Pending(j)
  /\ \A i \in Earlier(j) : ~Pending(i)
  /\ started' = started \cup {j}
  /\ UNCHANGED <<state, stream, performed>>

Perform(j) ==
  /\ j \in started
  /\ performed' = performed \cup {j}
  /\ UNCHANGED <<state, stream, started>>

Resolve(j, outcome) ==
  /\ Pending(j)
  /\ state' = [state EXCEPT ![j] = outcome]
  /\ UNCHANGED <<stream, started, performed>>

Finish(j) == j \in performed /\ Resolve(j, "done")

GiveUp(j) == j \in started /\ Resolve(j, "dead")

Withdraw(j) == Resolve(j, "cancelled")

Next ==
  \E j \in JobIds :
    \/ \E s \in Streams \cup {NoStream} : Submit(j, s)
    \/ Start(j) \/ Perform(j) \/ Finish(j) \/ GiveUp(j) \/ Withdraw(j)

Spec == Init /\ [][Next]_vars
=============================================================================
