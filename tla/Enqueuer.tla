------------------------------ MODULE Enqueuer -----------------------------
(***************************************************************************)
(* The enqueue core every producer shares (src/src/enqueuer.py): decide    *)
(* whether a discovered file needs work, commit its row as queued, then    *)
(* send the message.  The commit and the send are separate steps, and the  *)
(* row is read before the commit, so a replica can act in between.         *)
(***************************************************************************)
EXTENDS StateStore, WorkQueue

VARIABLE enq        \* the call in progress: its step and its candidate

EnqTypeOK == enq \in [pc : {"idle", "commit", "send"},
                      item : Items \cup {None}, hash : Hashes \cup {None}]

NoCall  == [pc |-> "idle", item |-> None, hash |-> None]
EnqInit == enq = NoCall

----------------------------------------------------------------------------
InFlight == {"queued", "processing"}

\* Mutant: a hash change is not looked at.
ShouldEnqueueNewOrPending(row, h) ==
    row.status = Absent \/ row.status = "pending"


ShouldEnqueue(row, h) ==
    \/ row.status = Absent
    \/ row.status = "pending"
    \/ row.status \notin InFlight /\ h # row.content_hash

\* enqueue_if_needed reads the row and decides to queue the document.
EnqueueBegin(i, h) ==
    /\ enq.pc = "idle"
    /\ ShouldEnqueue(docs[i], h)
    /\ enq' = [pc |-> "commit", item |-> i, hash |-> h]

\* Mutant: the message is sent before the row is committed.
EnqueueCommitForgotten ==
    /\ enq.pc = "commit"
    /\ enq' = [enq EXCEPT !.pc = "send"]
    /\ UNCHANGED <<envVars, storeVars, queue>>

\* The row is committed as queued.  The status the decision was taken on is
\* not part of the UPDATE, and an override is never touched.
EnqueueCommit ==
    /\ enq.pc = "commit"
    /\ docs' = [docs EXCEPT ![enq.item].status = "queued",
                            ![enq.item].content_hash = enq.hash]
    /\ enq' = [enq EXCEPT !.pc = "send"]
    /\ UNCHANGED <<envVars, audit, sync, queue>>

\* The message is sent after the commit.
EnqueueSend ==
    /\ enq.pc = "send"
    /\ Send(enq.item, enq.hash)
    /\ enq' = NoCall
============================================================================
