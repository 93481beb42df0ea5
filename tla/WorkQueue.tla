----------------------------- MODULE WorkQueue -----------------------------
(***************************************************************************)
(* The Azure storage queue behind src/src/message_queue.py.  A received    *)
(* message is hidden, not removed: it reappears when its visibility        *)
(* timeout runs out, and only its last receiver holds a pop receipt that   *)
(* deletes it.  The dequeue count is left out: the code copies it into the *)
(* audit row and reads it nowhere else.                                    *)
(***************************************************************************)
EXTENDS Environment

CONSTANTS
    Procs,          \* processor replicas
    Slots           \* bound: messages outstanding at once

ASSUME QueueAssumption == Slots \subseteq Nat /\ None \notin Procs \cup Slots

VARIABLE queue      \* queue[m]: the message in slot m

Message == [state  : {"free", "visible", "hidden"},
            item   : Items \cup {None},
            hash   : Hashes \cup {None},
            holder : Procs \cup {None}]

Free == [state |-> "free", item |-> None, hash |-> None, holder |-> None]

QueueInit   == queue = [m \in Slots |-> Free]
QueueTypeOK == queue \in [Slots -> Message]

OnQueue(m) == queue[m].state # "free"

----------------------------------------------------------------------------
\* A message takes the first free slot; which one makes no difference.
Send(i, h) ==
    \E m \in Slots :
        /\ ~OnQueue(m)
        /\ \A s \in Slots : ~OnQueue(s) => m <= s
        /\ queue' = [queue EXCEPT ![m] =
               [state |-> "visible", item |-> i, hash |-> h, holder |-> None]]

\* The receiver's pop receipt replaces every earlier one.
Receive(p, m) ==
    /\ queue[m].state = "visible"
    /\ queue' = [queue EXCEPT ![m].state = "hidden", ![m].holder = p]

HasReceipt(p, m) == OnQueue(m) /\ queue[m].holder = p

Delete(p, m) ==
    /\ HasReceipt(p, m)
    /\ queue' = [queue EXCEPT ![m] = Free]

\* The visibility timeout of a hidden message runs out.
Reappear(m) ==
    /\ queue[m].state = "hidden"
    /\ queue' = [queue EXCEPT ![m].state = "visible"]

\* The queue drops a message older than its time to live.
Expire(m) ==
    /\ OnQueue(m)
    /\ queue' = [queue EXCEPT ![m] = Free]
============================================================================
