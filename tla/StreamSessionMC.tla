--------------------------- MODULE StreamSessionMC ---------------------------
(* Transactions of the write repository as scripts.  Two connections run     *)
(* them, one session reads.                                                  *)
EXTENDS StreamSession, TLC

CONSTANTS conversation, w1, w2, public, user

EventOf(kind, object) == [kind |-> kind, object |-> object]

Locks(row) == [op |-> "row", row |-> row]
Records(kind, object) == [op |-> "record", event |-> EventOf(kind, object)]
Collects(kind, object) == [op |-> "collect", event |-> EventOf(kind, object)]
Pushes(kind, object) == [op |-> "push", event |-> EventOf(kind, object)]
Flushes == [op |-> "flush"]

(* create_status: the event for the timelines.                               *)
CreateStatus == <<Collects("create", 1), Flushes>>

(* create_notification: the notification, and then its conversation.         *)
CreateNotification == <<Records("notice", 2), Locks(conversation)>>

(* suspend_account: the deletes of its statuses, and the kill.               *)
SuspendAccount == <<Collects("delete", 3), Pushes("kill", 4), Flushes>>

(* process_domain_purge_job: the many statuses of one account, and then the  *)
(* conversations of another, of which one survives without its statuses.     *)
PurgeDomain ==
  <<Collects("delete", 5), Collects("delete", 6), Locks(conversation), Records("notice", 7),
    Flushes>>

SessionScripts == {CreateStatus, CreateNotification, SuspendAccount, PurgeDomain}

(* One purge and nothing else.                                               *)
PurgeScripts == {PurgeDomain}

Symmetric == Permutations(Writers)
=============================================================================
