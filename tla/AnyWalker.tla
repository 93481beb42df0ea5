----------------------------- MODULE AnyWalker -----------------------------
(***************************************************************************)
(* What a walker promises the rest of the pipeline, whichever way it finds *)
(* its files: rows and messages are touched by way of the enqueuer only,   *)
(* one file at a time, and what a walk stores of its own progress is its   *)
(* own affair.  DeltaWalker and FullWalker implement it.                   *)
(***************************************************************************)
EXTENDS Enqueuer

\* A file is handed to the enqueuer with the hash the walker takes it to have.
HandsOver ==
    /\ \E i \in Items, h \in Hashes : EnqueueBegin(i, h)
    /\ UNCHANGED <<envVars, storeVars, queue>>

Sends == EnqueueSend /\ UNCHANGED <<envVars, storeVars>>

\* The walk begins, ends or stores a token: its own row and no other.
KeepsBooks ==
    /\ sync' \in SyncRow
    /\ UNCHANGED <<envVars, docs, audit, queue, enq>>

SourceFails == Fault("graph") /\ UNCHANGED <<storeVars, queue, enq>>

\* A send fails; the message may have landed.
SendUnsure ==
    /\ enq.pc = "send"
    /\ Fault("send")
    /\ UNCHANGED queue \/ Send(enq.item, enq.hash)
    /\ enq' = NoCall
    /\ UNCHANGED storeVars

Dies == Fault("walkcrash") /\ enq' = NoCall /\ UNCHANGED <<storeVars, queue>>

AnyWalkerStep ==
    HandsOver \/ EnqueueCommit \/ Sends \/ KeepsBooks \/ SourceFails \/ SendUnsure \/ Dies
============================================================================
