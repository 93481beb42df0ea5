---------------------------- MODULE Work_proofs ----------------------------
(***************************************************************************)
(* Why no outcome escapes the audit trail and no row is left without work, *)
(* for every library, set of replicas and budget of the faults that are    *)
(* left: each theorem names the faults it needs excluded.                  *)
(***************************************************************************)
EXTENDS Documents_proofs

\* No message is dropped for its age.
NoExpiry == "ttl" \notin Faults

----------------------------------------------------------------------------
(***************************************************************************)
(* What a step does                                                        *)
(***************************************************************************)

\* A replica that goes from one step to another keeps its message and document.
Step(p, from, to) ==
    /\ proc[p].pc \in from /\ proc'[p].pc \in to
    /\ proc'[p].slot = proc[p].slot /\ proc'[p].item = proc[p].item
    /\ UNCHANGED queue

\* The steps of a replica, with where they lead (Processor.run_once).
LEMMA ReplicaTable ==
    ASSUME SharedInv, NEW p \in Procs, ProcessorStep(p) \/ ProcessorFault(p)
    PROVE  \/ \E m \in Slots : ReceiveMessage(p, m)
           \/ DeleteMessage(p)
           \/ proc'[p] = Idle /\ UNCHANGED <<docs, audit, queue>>
           \/ RecordFailure(p) /\ proc'[p] = Idle /\ UNCHANGED queue
           \/ /\ LoadDocument(p) /\ Step(p, {"load"}, {"override", "mark"})
              /\ proc'[p].seen = docs[proc[p].item].status
              /\ UNCHANGED <<docs, audit>>
           \/ RecordOverride(p) /\ Step(p, {"override"}, {"ack"})
           \/ MarkProcessing(p) /\ Step(p, {"mark"}, {"check"}) /\ UNCHANGED audit
           \/ /\ Step(p, {"check", "download", "classify", "skip"},
                         {"download", "classify", "skip", "unsupported", "fail", "write"})
              /\ UNCHANGED <<docs, audit>>
           \/ RecordSkipped(p) /\ Step(p, {"skip", "unsupported"}, {"ack"})
           \/ WriteResult(p) /\ Step(p, {"write"}, {"log"}) /\ UNCHANGED audit
           \/ LogCompleted(p) /\ Step(p, {"log"}, {"ack"}) /\ UNCHANGED docs
  <1> USE DEF SharedInv, SharedTypeOK, ProcTypeOK, Execution, storeVars, At, GoTo, Exit
  <1>1. CASE LoadDocument(p)
    BY <1>1 DEF LoadDocument, Step
  <1>2. CASE RecordOverride(p)
    BY <1>2 DEF RecordOverride, Step
  <1>3. CASE MarkProcessing(p)
    BY <1>3 DEF MarkProcessing, Step
  <1>4. CASE CheckHash(p)
    BY <1>4 DEF CheckHash, Step
  <1>5. CASE Download(p)
    BY <1>5 DEF Download, Step
  <1>6. CASE Classify(p)
    BY <1>6 DEF Classify, Step
  <1>7. CASE RecordSkipped(p)
    BY <1>7 DEF RecordSkipped, Step
  <1>8. CASE RecordFailure(p)
    BY <1>8 DEF RecordFailure
  <1>9. CASE WriteResult(p)
    BY <1>9 DEF WriteResult, Step
  <1>10. CASE LogCompleted(p)
    BY <1>10 DEF LogCompleted, Step
  <1>11. CASE DeleteRefused(p)
    BY <1>11 DEF DeleteRefused
  <1>12. CASE AttemptFails(p)
    BY <1>12 DEF AttemptFails, Step
  <1>13. CASE CommitFails(p)
    BY <1>13 DEF CommitFails, Step
  <1>14. CASE DeleteFails(p)
    BY <1>14 DEF DeleteFails
  <1>15. CASE Crash(p)
    BY <1>15 DEF Crash
  <1> QED
    BY <1>1, <1>2, <1>3, <1>4, <1>5, <1>6, <1>7, <1>8, <1>9, <1>10, <1>11, <1>12,
       <1>13, <1>14, <1>15
    DEF ProcessorStep, ProcessorFault

\* What the steps of everybody else do to the rows: the producer queues one, an
\* operator labels or resets one.
LEMMA OtherSteps ==
    ASSUME SharedInv, [PipelineNext]_pipelineVars
    PROVE  \/ \E p \in Procs : /\ ProcessorStep(p) \/ ProcessorFault(p)
                               /\ UNCHANGED enq
           \/ /\ UNCHANGED <<proc, audit>>
              /\ \A i \in Items :
                    \/ docs'[i].status = docs[i].status
                    \/ docs'[i].status = "pending"
                    \/ docs'[i].status = "queued" /\ EnqueueCommit /\ enq.item = i
  <1> USE DEF SharedInv, SharedTypeOK, StoreTypeOK, Row
  <1>1. CASE AnyChange \/ UNCHANGED <<storeVars, proc>>
    BY <1>1 DEF AnyChange, storeVars
  <1>2. CASE OperatorSteps
    BY <1>2 DEF OperatorSteps, SetOverride, ResetPending, SetStatus
  <1>3. CASE EnqueueCommit /\ UNCHANGED proc
    BY <1>3 DEF EnqueueCommit
  <1>4. CASE AnyWalkerStep /\ ~EnqueueCommit /\ UNCHANGED proc
    BY <1>4, WalkerLeavesRows
  <1>5. CASE UNCHANGED pipelineVars
    BY <1>5 DEF pipelineVars, storeVars
  <1> QED  BY PipelineCases, <1>1, <1>2, <1>3, <1>4, <1>5

\* A message stays what it is until a replica deletes it (MessageQueue.delete).
LEMMA MessageStays ==
    ASSUME NoExpiry, SharedInv, [PipelineNext]_pipelineVars, NEW m \in Slots, OnQueue(m)
    PROVE  \/ /\ OnQueue(m)' /\ queue'[m].item = queue[m].item
              /\ queue'[m].hash = queue[m].hash
           \/ \E p \in Procs : DeleteMessage(p) /\ proc[p].slot = m
  <1> USE DEF SharedInv, SharedTypeOK, QueueTypeOK, OnQueue
  <1>1. CASE AnyChange \/ UNCHANGED queue
    BY <1>1 DEF AnyChange
  <1>2. CASE QueueSteps
    BY <1>2 DEF QueueSteps, LeaseEnds, LeaseTooShort, MessageExpires, Reappear, Message,
                Fault, NoExpiry
  <1>3. CASE AnyWalkerStep
    BY <1>1, <1>3, WalkerSends DEF Send
  <1>5. ASSUME NEW p \in Procs, ProcessorStep(p) \/ ProcessorFault(p)
        PROVE  \/ /\ OnQueue(m)' /\ queue'[m].item = queue[m].item
                  /\ queue'[m].hash = queue[m].hash
               \/ DeleteMessage(p) /\ proc[p].slot = m
    <2>1. CASE \E n \in Slots : ReceiveMessage(p, n)
      BY <2>1 DEF ReceiveMessage, Receive, Message
    <2>2. CASE DeleteMessage(p)
      BY <2>2 DEF DeleteMessage, Delete
    <2> QED  BY <1>5, <2>1, <2>2, ReplicaEffect
  <1>6. CASE UNCHANGED pipelineVars
    BY <1>1, <1>6 DEF pipelineVars
  <1> QED  BY PipelineCases, <1>1, <1>2, <1>3, <1>5, <1>6

----------------------------------------------------------------------------
(***************************************************************************)
(* Section 1: the audit trail                                              *)
(***************************************************************************)

\* An attempt that labelled the document, or found it labelled or unreadable, is in
\* the audit trail; otherwise a message is left that will repeat it.
Done(i)   == audit[i] \cap {"completed", "skipped"} # {}
Backed(i) == Done(i) \/ About(i) # {}

\* A message whose pop receipt a replica holds is the one it received.
OwnReceipt ==
    \A p \in Procs, m \in Slots :
        ~At(p, "idle") /\ proc[p].slot = m /\ HasReceipt(p, m)
            => queue[m].item = proc[p].item

AuditedRow(i) ==
    /\ docs[i].status \in {"failed", "skipped"} => docs[i].status \in audit[i]
    /\ docs[i].status = "completed" => Backed(i)

\* The document of every execution is backed, and done with when only the message
\* is left to delete.
AuditedReplica(p) ==
    ~At(p, "idle") => /\ Backed(proc[p].item)
                      /\ At(p, "ack") => Done(proc[p].item)

AuditInv ==
    /\ OwnReceipt
    /\ \A i \in Items : AuditedRow(i)
    /\ \A p \in Procs : AuditedReplica(p)

\* The audit trail only grows (MetadataExtractor.add appends rows).
LEMMA AuditGrows ==
    ASSUME SharedInv, [PipelineNext]_pipelineVars, NEW i \in Items
    PROVE  audit[i] \subseteq audit'[i]
  <1> USE DEF SharedInv, SharedTypeOK, StoreTypeOK
  <1>1. ASSUME NEW p \in Procs, ProcessorStep(p) \/ ProcessorFault(p)
        PROVE  audit[i] \subseteq audit'[i]
    <2>1. ASSUME NEW s, AddLog(proc[p].item, s) PROVE audit[i] \subseteq audit'[i]
      BY <2>1 DEF AddLog
    <2>2. CASE UNCHANGED audit
      BY <2>2
    <2> QED
      BY <1>1, <2>1, <2>2
      DEF ProcessorStep, ProcessorFault, ReceiveMessage, LoadDocument, RecordOverride,
          MarkProcessing, CheckHash, Download, Classify, RecordSkipped, RecordFailure,
          WriteResult, LogCompleted, DeleteMessage, DeleteRefused, AttemptFails,
          CommitFails, DeleteFails, Crash, storeVars
  <1> QED  BY <1>1, OtherSteps

\* Work on a document that is not done leaves its messages on the queue.
LEMMA BackedStays ==
    ASSUME NoExpiry, SharedInv, AuditInv, [PipelineNext]_pipelineVars,
           NEW i \in Items, Backed(i)
    PROVE  Backed(i)'
  <1>1. CASE Done(i)
    BY <1>1, AuditGrows DEF Done, Backed
  <1>2. CASE ~Done(i)
    <2>1. PICK m \in Slots : OnQueue(m) /\ queue[m].item = i
      BY <1>2 DEF Backed, About
    <2>2. ASSUME NEW p \in Procs, DeleteMessage(p), proc[p].slot = m PROVE FALSE
      <3>1. At(p, "ack") /\ HasReceipt(p, m)
        BY <2>2 DEF DeleteMessage, Delete
      <3>2. ~At(p, "idle")
        BY <3>1 DEF At
      <3>3. proc[p].item = i
        BY <2>1, <2>2, <3>1, <3>2 DEF AuditInv, OwnReceipt
      <3> QED  BY <1>2, <3>1, <3>2, <3>3 DEF AuditInv, AuditedReplica
    <2>3. OnQueue(m)' /\ queue'[m].item = i
      BY <2>1, <2>2, MessageStays
    <2> QED  BY <2>3 DEF Backed, About
  <1> QED  BY <1>1, <1>2

\* A valid receipt the replica did not get in this step it had before, for the same
\* message and document.
LEMMA ReceiptBack ==
    ASSUME SharedInv, [PipelineNext]_pipelineVars, NEW p \in Procs, NEW m \in Slots,
           ~At(p, "idle")', proc'[p].slot = m, HasReceipt(p, m)',
           ~\E n \in Slots : ReceiveMessage(p, n)
    PROVE  /\ HasReceipt(p, m) /\ queue'[m].item = queue[m].item
           /\ ~At(p, "idle") /\ proc'[p].slot = proc[p].slot
           /\ proc'[p].item = proc[p].item
  <1> USE QueueAssumption DEF SharedInv, SharedTypeOK, QueueTypeOK, HasReceipt, OnQueue
  <1>1. CASE AnyChange \/ UNCHANGED <<queue, proc>>
    BY <1>1 DEF AnyChange, At
  <1>2. CASE QueueSteps
    BY <1>2 DEF QueueSteps, LeaseEnds, LeaseTooShort, MessageExpires, Reappear, Expire,
                Free, Message, Fault, At
  <1>3. CASE AnyWalkerStep /\ UNCHANGED proc
    BY <1>1, <1>3, WalkerSends DEF Send, At
  <1>5. ASSUME NEW r \in Procs, ProcessorStep(r) \/ ProcessorFault(r)
        PROVE  /\ HasReceipt(p, m) /\ queue'[m].item = queue[m].item
               /\ ~At(p, "idle") /\ proc'[p].slot = proc[p].slot
               /\ proc'[p].item = proc[p].item
    <2>1. /\ HasReceipt(p, m) /\ queue'[m].item = queue[m].item
      <3>1. CASE \E n \in Slots : ReceiveMessage(r, n)
        <4>1. PICK n \in Slots : ReceiveMessage(r, n)
          BY <3>1
        <4>2. r # p
          BY <4>1
        <4>3. queue' = [queue EXCEPT ![n].state = "hidden", ![n].holder = r]
          BY <4>1 DEF ReceiveMessage, Receive
        <4>4. m # n
          BY <4>2, <4>3 DEF Message
        <4> QED  BY <4>3, <4>4
      <3>2. CASE DeleteMessage(r)
        BY <3>2 DEF DeleteMessage, Delete, Free
      <3> QED  BY <1>5, <3>1, <3>2, ReplicaEffect
    <2>2. CASE r = p
      BY <1>5, <2>2, ReplicaTable
      DEF Step, DeleteMessage, Exit, ProcTypeOK, Idle, At
    <2>3. CASE r # p
      <3>1. proc'[p] = proc[p]
        BY <1>5, <2>3, OtherReplicas
      <3> QED  BY <2>1, <3>1 DEF At
    <2> QED  BY <2>1, <2>2, <2>3
  <1>6. CASE UNCHANGED pipelineVars
    BY <1>1, <1>6 DEF pipelineVars
  <1> QED  BY PipelineCases, <1>1, <1>2, <1>3, <1>5, <1>6

\* A receipt is handed out by the queue alone, for the message it delivers.
LEMMA ReceiptStep ==
    ASSUME SharedInv, OwnReceipt, [PipelineNext]_pipelineVars
    PROVE  OwnReceipt'
  <1> SUFFICES ASSUME NEW p \in Procs, NEW m \in Slots,
                      ~At(p, "idle")', proc'[p].slot = m, HasReceipt(p, m)'
               PROVE  queue'[m].item = proc'[p].item
    BY DEF OwnReceipt
  <1> USE DEF SharedInv, SharedTypeOK, QueueTypeOK, HasReceipt, OnQueue
  <1>1. ASSUME NEW n \in Slots, ReceiveMessage(p, n)
        PROVE  queue'[m].item = proc'[p].item
    BY <1>1 DEF ReceiveMessage, Receive, ProcTypeOK, Idle, Message
  <1>2. CASE ~\E n \in Slots : ReceiveMessage(p, n)
    BY <1>2, ReceiptBack DEF OwnReceipt
  <1> QED  BY <1>1, <1>2 DEF OwnReceipt

\* Every outcome a step gives a row is in the audit trail, or its work is backed.
LEMMA RowAudited ==
    ASSUME NoExpiry, SharedInv, AuditInv, [PipelineNext]_pipelineVars, NEW i \in Items
    PROVE  AuditedRow(i)'
  <1> USE DEF SharedInv, SharedTypeOK, StoreTypeOK, Row
  <1>1. AuditedRow(i) /\ audit[i] \subseteq audit'[i] /\ (Backed(i) => Backed(i)')
    BY AuditGrows, BackedStays DEF AuditInv
  <1>2. CASE \/ docs'[i].status = docs[i].status
             \/ docs'[i].status \in {"pending", "queued", "processing"}
    BY <1>1, <1>2 DEF AuditedRow
  <1>3. ASSUME NEW p \in Procs, ProcessorStep(p) \/ ProcessorFault(p)
        PROVE  AuditedRow(i)'
    <2> DEFINE s == docs'[i].status
    <2>1. CASE RecordFailure(p) \/ RecordSkipped(p)
      <3>1. \/ s = docs[i].status
            \/ s \in {"failed", "skipped"} /\ s \in audit'[i]
        BY <2>1 DEF RecordFailure, RecordSkipped, SetStatus, AddLog
      <3> QED  BY <1>2, <3>1 DEF AuditedRow
    <2>2. CASE RecordOverride(p)
      <3>1. s = docs[i].status \/ (s = "completed" /\ "skipped" \in audit'[i])
        BY <2>2 DEF RecordOverride, SetStatusIfDiffers, SetStatus, AddLog
      <3> QED  BY <1>2, <3>1 DEF AuditedRow, Backed, Done
    <2>3. CASE WriteResult(p)
      <3>1. s = docs[i].status \/ (s = "completed" /\ i = proc[p].item)
        BY <2>3 DEF WriteResult
      <3>2. Backed(proc[p].item)
        BY <2>3 DEF AuditInv, AuditedReplica, WriteResult, At
      <3> QED  BY <1>1, <1>2, <3>1, <3>2 DEF AuditedRow
    <2>4. CASE ~(\/ RecordFailure(p) \/ RecordSkipped(p) \/ RecordOverride(p)
                 \/ WriteResult(p))
      <3>1. s = docs[i].status \/ s = "processing"
        BY <1>3, <2>4
        DEF ProcessorStep, ProcessorFault, ReceiveMessage, LoadDocument, MarkProcessing,
            SetStatusIfDiffers, SetStatus, CheckHash, Download, Classify, LogCompleted,
            DeleteMessage, DeleteRefused, AttemptFails, CommitFails, DeleteFails, Crash,
            storeVars
      <3> QED  BY <1>2, <3>1
    <2> QED  BY <2>1, <2>2, <2>3, <2>4
  <1> QED  BY <1>2, <1>3, OtherSteps

\* A replica reaches the deletion only by way of a row in the audit trail.
LEMMA ReplicaAudited ==
    ASSUME NoExpiry, SharedInv, AuditInv, [PipelineNext]_pipelineVars, NEW p \in Procs
    PROVE  AuditedReplica(p)'
  <1> USE DEF SharedInv, SharedTypeOK, StoreTypeOK
  <1>1. ~At(p, "idle") => proc[p].item \in Items
    BY DEF Named
  <1>2. CASE proc'[p] = proc[p]
    <2>1. \A i \in Items : (Backed(i) => Backed(i)') /\ (Done(i) => Done(i)')
      BY AuditGrows, BackedStays DEF Done
    <2> QED  BY <1>1, <1>2, <2>1 DEF AuditInv, AuditedReplica, At
  <1>3. ASSUME ProcessorStep(p) \/ ProcessorFault(p)
        PROVE  AuditedReplica(p)'
    <2>1. CASE \E m \in Slots : ReceiveMessage(p, m)
      <3>1. PICK m \in Slots : ReceiveMessage(p, m)
        BY <2>1
      <3>2. /\ proc'[p].item = queue[m].item /\ proc'[p].pc = "load"
            /\ OnQueue(m)' /\ queue'[m].item = queue[m].item
        BY <3>1 DEF ReceiveMessage, Receive, Idle, ProcTypeOK, QueueTypeOK, Message, OnQueue
      <3> QED  BY <3>2 DEF AuditedReplica, Backed, About, At
    <2>2. CASE proc'[p] = Idle
      BY <2>2 DEF AuditedReplica, At, Idle
    <2>3. CASE DeleteMessage(p)
      BY <2>3 DEF DeleteMessage, Exit, Idle, ProcTypeOK, AuditedReplica, At
    <2>4. CASE /\ ~(\E m \in Slots : ReceiveMessage(p, m))
               /\ ~DeleteMessage(p) /\ proc'[p] # Idle
      <3>1. ~At(p, "idle") /\ proc'[p].item = proc[p].item
        BY <1>3, <2>4, ReplicaEffect
      <3>2. Backed(proc[p].item)'
        <4>1. PICK i \in Items : i = proc[p].item /\ Backed(i)
          BY <1>1, <3>1 DEF AuditInv, AuditedReplica
        <4>2. Backed(i)'
          BY <4>1, BackedStays
        <4>3. proc'[p].item = i
          BY <3>1, <4>1
        <4> QED  BY <4>2, <4>3 DEF Backed, Done, About
      <3>3. At(p, "ack")' => \/ RecordOverride(p) \/ RecordSkipped(p) \/ LogCompleted(p)
        BY <1>3, <2>4, ReplicaTable DEF Step, At
      <3>4. RecordOverride(p) \/ RecordSkipped(p) \/ LogCompleted(p)
                => audit'[proc[p].item] \cap {"completed", "skipped"} # {}
        BY <1>1, <3>1 DEF RecordOverride, RecordSkipped, LogCompleted, AddLog
      <3> QED  BY <3>1, <3>2, <3>3, <3>4 DEF AuditedReplica, Done
    <2> QED  BY <2>1, <2>2, <2>3, <2>4
  <1>4. \/ proc'[p] = proc[p]
        \/ ProcessorStep(p) \/ ProcessorFault(p)
    BY OtherSteps, OtherReplicas
  <1> QED  BY <1>2, <1>3, <1>4

\* The invariant behind the audit trail holds in every behaviour in which no message
\* is dropped for its age.
THEOREM AuditInvariant ==
    ASSUME NoExpiry
    PROVE  PipelineSpec => []AuditInv
  <1>1. PipelineInit => AuditInv
    BY DEF PipelineInit, StoreInit, QueueInit, ProcInit, NoRow, Idle, AuditInv, OwnReceipt,
           AuditedRow, AuditedReplica, At, Absent
  <1>2. SharedInv /\ AuditInv /\ [PipelineNext]_pipelineVars => AuditInv'
    BY NoExpiry, ReceiptStep, RowAudited, ReplicaAudited DEF AuditInv
  <1> QED  BY <1>1, <1>2, PipelineTypes, PTL DEF PipelineSpec

\* No outcome escapes the audit trail, also when the commit between a result and its
\* audit row is lost, a replica dies or two replicas hold one message: the attempt
\* has its row, or its message is still there to repeat it (Processor.process,
\* Processor.run_once).
THEOREM SettledAudited ==
    ASSUME NoExpiry
    PROVE  PipelineSpec => []SettledIsAudited
  <1>1. AuditInv => SettledIsAudited
    BY DEF AuditInv, AuditedRow, Backed, Done, SettledIsAudited
  <1> QED  BY <1>1, AuditInvariant, PTL

\* No attempt ends between two of its commits.
NoLoss == Faults \cap {"commit", "crash"} = {}

\* A replica between the result and its audit row writes that row next.
LEMMA LogFollows ==
    ASSUME NoLoss, SharedInv, [PipelineNext]_pipelineVars,
           NEW p \in Procs, NEW i \in Items, At(p, "log"), proc[p].item = i
    PROVE  \/ At(p, "log")' /\ proc'[p].item = i
           \/ Done(i)'
  <1> USE DEF SharedInv, SharedTypeOK
  <1>1. CASE ProcessorStep(p) \/ ProcessorFault(p)
    <2>1. LogCompleted(p)
      BY <1>1 DEF ProcessorStep, ProcessorFault, ReceiveMessage, LoadDocument,
         RecordOverride, MarkProcessing, CheckHash, Download, Classify, RecordSkipped,
         RecordFailure, WriteResult, DeleteMessage, DeleteRefused, AttemptFails,
         CommitFails, DeleteFails, Crash, Fault, NoLoss, At
    <2>2. audit' = [audit EXCEPT ![i] = @ \cup {"completed"}]
      BY <2>1 DEF LogCompleted, AddLog
    <2>3. "completed" \in audit'[i]
      BY <2>2 DEF StoreTypeOK
    <2> QED  BY <2>3 DEF Done
  <1>2. CASE proc'[p] = proc[p]
    BY <1>2 DEF At
  <1> QED  BY <1>1, <1>2, OtherSteps, OtherReplicas

\* When no attempt is lost between two commits, every label is in the audit trail or
\* about to be: what the loss of the second commit takes away is exactly this.
THEOREM ResultAudited ==
    ASSUME NoLoss
    PROVE  PipelineSpec => []ResultIsAudited
  <1> DEFINE Logs(i) == Done(i) \/ \E p \in Procs : At(p, "log") /\ proc[p].item = i
  <1>1. PipelineInit => ResultIsAudited
    BY DEF PipelineInit, StoreInit, NoRow, Absent, ResultIsAudited
  <1>2. ASSUME SharedInv, ResultIsAudited, [PipelineNext]_pipelineVars, NEW i \in Items,
               docs'[i].status = "completed"
        PROVE  Logs(i)'
    <2> USE DEF SharedInv, SharedTypeOK, StoreTypeOK, Row
    <2>1. CASE docs[i].status = "completed"
      <3>1. CASE Done(i)
        BY <1>2, <3>1, AuditGrows DEF Done
      <3>2. CASE \E p \in Procs : At(p, "log") /\ proc[p].item = i
        <4>1. PICK p \in Procs : At(p, "log") /\ proc[p].item = i
          BY <3>2
        <4>2. (At(p, "log")' /\ proc'[p].item = i) \/ Done(i)'
          BY <1>2, <4>1, NoLoss, LogFollows
        <4> QED  BY <4>2
      <3> QED  BY <1>2, <2>1, <3>1, <3>2 DEF ResultIsAudited, Done
    <2>2. CASE docs[i].status # "completed"
      <3>1. PICK p \in Procs : ProcessorStep(p) \/ ProcessorFault(p)
        BY <1>2, <2>2, OtherSteps
      <3>2. ASSUME NEW s, SetStatus(proc[p].item, s)
            PROVE  proc[p].item = i /\ s = "completed"
        BY <1>2, <2>2, <3>2 DEF SetStatus
      <3>3. CASE WriteResult(p)
        <4>1. proc[p].item = i
          BY <1>2, <2>2, <3>3 DEF WriteResult
        <4>2. proc'[p].pc = "log" /\ proc'[p].item = i
          BY <1>2, <3>3, <4>1 DEF WriteResult, GoTo, ProcTypeOK, Execution
        <4> QED  BY <4>2 DEF At
      <3>4. CASE RecordOverride(p)
        <4>1. proc[p].item = i
          BY <1>2, <2>2, <3>2, <3>4 DEF RecordOverride, SetStatusIfDiffers
        <4>2. "skipped" \in audit'[i]
          BY <1>2, <3>4, <4>1 DEF RecordOverride, AddLog
        <4> QED  BY <4>2 DEF Done
      <3>5. CASE ~WriteResult(p) /\ ~RecordOverride(p)
        <4>1. UNCHANGED docs \/ \E s \in {"processing", "skipped", "failed"} :
                                   SetStatus(proc[p].item, s)
          BY <3>1, <3>5
          DEF ProcessorStep, ProcessorFault, ReceiveMessage, LoadDocument, MarkProcessing,
              SetStatusIfDiffers, CheckHash, Download, Classify, RecordSkipped,
              RecordFailure, LogCompleted, DeleteMessage, DeleteRefused, AttemptFails,
              CommitFails, DeleteFails, Crash, storeVars
        <4> QED  BY <1>2, <2>2, <3>2, <4>1
      <3> QED  BY <3>3, <3>4, <3>5
    <2> QED  BY <2>1, <2>2
  <1>3. SharedInv /\ ResultIsAudited /\ [PipelineNext]_pipelineVars => ResultIsAudited'
    BY <1>2 DEF ResultIsAudited, Done
  <1> QED  BY <1>1, <1>3, PipelineTypes, PTL DEF PipelineSpec

----------------------------------------------------------------------------
(***************************************************************************)
(* Section 2: the retry of a failed document                               *)
(***************************************************************************)

\* No message reappears while its replica still works on it.
NoLease == "lease" \notin Faults

Holds(p, m) == ~At(p, "idle") /\ proc[p].slot = m

\* A replica's message is on the queue, hidden, its own, and about its document.
HeldInv ==
    \A p \in Procs : ~At(p, "idle") =>
        /\ proc[p].slot \in Slots
        /\ queue[proc[p].slot].state = "hidden"
        /\ queue[proc[p].slot].holder = p
        /\ queue[proc[p].slot].item = proc[p].item

\* A replica that works keeps its message to itself.
LEMMA HeldStep ==
    ASSUME NoExpiry, SharedInv, HeldInv, [PipelineNext]_pipelineVars,
           \A m \in Slots : ~LeaseTooShort(m)
    PROVE  HeldInv'
  <1> DEFINE Good(p) == ~At(p, "idle") =>
                 /\ proc[p].slot \in Slots
                 /\ queue[proc[p].slot].state = "hidden"
                 /\ queue[proc[p].slot].holder = p
                 /\ queue[proc[p].slot].item = proc[p].item
  <1> SUFFICES ASSUME NEW p \in Procs PROVE Good(p)'
    BY DEF HeldInv
  <1> USE DEF SharedInv, SharedTypeOK, QueueTypeOK, OnQueue
  <1>1. Good(p)
    BY DEF HeldInv
  <1>2. CASE AnyChange \/ UNCHANGED <<queue, proc>>
    BY <1>1, <1>2 DEF AnyChange, At
  <1>3. CASE QueueSteps
    BY <1>1, <1>3 DEF QueueSteps, LeaseEnds, MessageExpires, Held, Working, Reappear,
                      Fault, NoExpiry, Message, At
  <1>4. CASE AnyWalkerStep /\ UNCHANGED proc
    <2>1. CASE Send(enq.item, enq.hash)
      BY <1>1, <1>4, <2>1 DEF Send, Message, At
    <2> QED  BY <1>2, <1>4, <2>1, WalkerSends
  <1>6. ASSUME NEW r \in Procs, ProcessorStep(r) \/ ProcessorFault(r)
        PROVE  Good(p)'
    <2>1. CASE \E m \in Slots : ReceiveMessage(r, m)
      <3>1. PICK m \in Slots : ReceiveMessage(r, m)
        BY <2>1
      <3>2. CASE r = p
        BY <3>1, <3>2 DEF ReceiveMessage, Receive, Idle, ProcTypeOK, Message
      <3>3. CASE r # p
        <4>1. proc'[p] = proc[p]
          BY <1>6, <3>3, OtherReplicas
        <4>2. queue[m].state = "visible" /\ \A n \in Slots : n # m => queue'[n] = queue[n]
          BY <3>1 DEF ReceiveMessage, Receive
        <4> QED  BY <1>1, <4>1, <4>2 DEF At
      <3> QED  BY <3>2, <3>3
    <2>2. CASE DeleteMessage(r)
      <3>1. CASE r = p
        BY <2>2, <3>1 DEF DeleteMessage, Exit, Idle, ProcTypeOK, At
      <3>2. CASE r # p
        <4>1. proc'[p] = proc[p]
          BY <1>6, <3>2, OtherReplicas
        <4>2. /\ queue[proc[r].slot].holder = r
              /\ \A n \in Slots : n # proc[r].slot => queue'[n] = queue[n]
          BY <2>2 DEF DeleteMessage, Delete, HasReceipt
        <4> QED  BY <1>1, <3>2, <4>1, <4>2 DEF At
      <3> QED  BY <3>1, <3>2
    <2>3. CASE ~(\E m \in Slots : ReceiveMessage(r, m)) /\ ~DeleteMessage(r)
      <3>1. UNCHANGED queue
        BY <1>6, <2>3, ReplicaEffect
      <3>2. CASE r = p
        BY <1>1, <1>6, <2>3, <3>1, <3>2, ReplicaTable DEF Step, RecordFailure, Idle, At
      <3>3. CASE r # p
        <4>1. proc'[p] = proc[p]
          BY <1>6, <3>3, OtherReplicas
        <4> QED  BY <1>1, <3>1, <4>1 DEF At
      <3> QED  BY <3>2, <3>3
    <2> QED  BY <2>1, <2>2, <2>3
  <1>7. CASE UNCHANGED pipelineVars
    BY <1>2, <1>7 DEF pipelineVars
  <1> HIDE DEF Good
  <1> QED  BY PipelineCases, <1>2, <1>3, <1>4, <1>6, <1>7

\* Nobody holds the message of another replica, so a message leaves the queue at the
\* hands of the one replica that holds it.
LEMMA HolderKeeps ==
    ASSUME NoExpiry, SharedInv, HeldInv, [PipelineNext]_pipelineVars,
           NEW m \in Slots, OnQueue(m),
           \A p \in Procs : Holds(p, m) => ~At(p, "ack")
    PROVE  OnQueue(m)' /\ queue'[m].item = queue[m].item /\ queue'[m].hash = queue[m].hash
  <1>1. ASSUME NEW p \in Procs, DeleteMessage(p), proc[p].slot = m PROVE FALSE
    BY <1>1 DEF DeleteMessage, Holds, At
  <1> QED  BY <1>1, MessageStays

\* How a replica comes to hold a message: it receives it, and until then nobody did.
LEMMA HoldsStep ==
    ASSUME SharedInv, HeldInv, [PipelineNext]_pipelineVars,
           NEW m \in Slots, NEW p \in Procs, Holds(p, m)'
    PROVE  \/ ReceiveMessage(p, m) /\ proc'[p].pc = "load"
           \/ Holds(p, m) /\ proc'[p] = proc[p]
           \/ Holds(p, m) /\ (ProcessorStep(p) \/ ProcessorFault(p)) /\ ~DeleteMessage(p)
  <1> USE DEF SharedInv, SharedTypeOK
  <1>1. CASE proc'[p] = proc[p]
    BY <1>1 DEF Holds, At
  <1>2. CASE ProcessorStep(p) \/ ProcessorFault(p)
    <2>1. ASSUME NEW n \in Slots, ReceiveMessage(p, n)
          PROVE  ReceiveMessage(p, m) /\ proc'[p].pc = "load"
      BY <2>1 DEF ReceiveMessage, Idle, Holds, ProcTypeOK
    <2>2. CASE DeleteMessage(p)
      BY <2>2 DEF DeleteMessage, Exit, Idle, Holds, At, ProcTypeOK
    <2>3. CASE ~(\E n \in Slots : ReceiveMessage(p, n)) /\ ~DeleteMessage(p)
      BY <1>2, <2>3, ReplicaTable DEF Step, RecordFailure, Idle, Holds, At
    <2> QED  BY <1>2, <2>1, <2>2, <2>3
  <1>3. proc'[p] = proc[p] \/ ProcessorStep(p) \/ ProcessorFault(p)
    BY OtherSteps, OtherReplicas
  <1> QED  BY <1>1, <1>2, <1>3

\* A message that will bring a failed document back: whoever holds it has not got
\* beyond reading the failed row.
Retry(m) ==
    \A p \in Procs : Holds(p, m) =>
        \/ At(p, "load")
        \/ proc[p].pc \in {"override", "mark"} /\ proc[p].seen = "failed"

FailedInv ==
    \A i \in Items : docs[i].status = "failed" => \E m \in About(i) : Retry(m)

\* The retry of a document that stays failed is not used up.
LEMMA RetryStays ==
    ASSUME NoExpiry, SharedInv, HeldInv, [PipelineNext]_pipelineVars,
           NEW i \in Items, NEW m \in About(i),
           Retry(m), docs[i].status = "failed", docs'[i].status = "failed"
    PROVE  m \in About(i)' /\ Retry(m)'
  <1> USE DEF SharedInv, SharedTypeOK
  <1>1. m \in Slots /\ OnQueue(m) /\ queue[m].item = i
    BY DEF About
  <1>2. m \in About(i)'
    BY <1>1, HolderKeeps DEF Retry, At, About
  <1>3. ASSUME NEW p \in Procs, Holds(p, m)'
        PROVE  \/ At(p, "load")'
               \/ proc'[p].pc \in {"override", "mark"} /\ proc'[p].seen = "failed"
    <2> m \in Slots /\ Holds(p, m)'
      BY <1>1, <1>3
    <2>1. CASE ReceiveMessage(p, m) /\ proc'[p].pc = "load"
      BY <2>1 DEF At
    <2>2. CASE Holds(p, m) /\ (ProcessorStep(p) \/ ProcessorFault(p)) /\ ~DeleteMessage(p)
      <3>1. proc[p].item = i
        BY <1>1, <2>2 DEF HeldInv, Holds
      <3>2. \/ proc[p].pc = "load"
            \/ proc[p].pc \in {"override", "mark"} /\ proc[p].seen = "failed"
        BY <2>2 DEF Retry, At
      <3>3. CASE RecordOverride(p) \/ MarkProcessing(p)
        BY <3>1, <3>2, <3>3 DEF RecordOverride, MarkProcessing, SetStatusIfDiffers, At,
                                SetStatus, StoreTypeOK, Row
      <3>4. CASE LoadDocument(p)
        BY <3>1, <3>4 DEF LoadDocument, ProcTypeOK, Execution, At
      <3>5. CASE \E n \in Slots : ReceiveMessage(p, n)
        BY <2>2, <3>5 DEF ReceiveMessage, Holds
      <3>6. CASE /\ ~(RecordOverride(p) \/ MarkProcessing(p) \/ LoadDocument(p))
                 /\ ~\E n \in Slots : ReceiveMessage(p, n)
        <4>1. proc'[p] = Idle
          BY <2>2, <3>2, <3>6, ReplicaTable
          DEF Step, RecordSkipped, WriteResult, LogCompleted, At
        <4> QED  BY <1>3, <4>1 DEF Holds, At, Idle
      <3> QED  BY <3>3, <3>4, <3>5, <3>6
    <2>3. CASE Holds(p, m) /\ proc'[p] = proc[p]
      BY <2>3 DEF Retry, At
    <2> QED  BY <2>1, <2>2, <2>3, HoldsStep
  <1> QED  BY <1>2, <1>3 DEF Retry

\* Whoever records a failure leaves its message behind.
LEMMA FailureLeavesMessage ==
    ASSUME NoExpiry, SharedInv, HeldInv, [PipelineNext]_pipelineVars,
           NEW p \in Procs, NEW m \in Slots, NEW i \in Items,
           RecordFailure(p), Holds(p, m), proc[p].item = i
    PROVE  m \in About(i)' /\ Retry(m)'
  <1> USE DEF SharedInv, SharedTypeOK
  <1>1. OnQueue(m) /\ queue[m].item = i /\ queue[m].holder = p
    BY DEF Holds, HeldInv, OnQueue
  <1>2. UNCHANGED queue /\ proc'[p] = Idle
    BY DEF RecordFailure, Exit, ProcTypeOK
  <1>3. ASSUME NEW r \in Procs PROVE ~Holds(r, m)'
    <2>1. CASE r = p
      BY <1>2, <2>1 DEF Holds, Idle, At
    <2>2. CASE r # p
      <3>1. proc'[r] = proc[r]
        BY <2>2, OtherReplicas DEF ProcessorStep
      <3>2. ~Holds(r, m)
        BY <1>1, <2>2 DEF HeldInv, Holds
      <3> QED  BY <3>1, <3>2 DEF Holds, At
    <2> QED  BY <2>1, <2>2
  <1>4. m \in About(i)'
    BY <1>1, <1>2 DEF About, OnQueue
  <1> QED  BY <1>3, <1>4 DEF Retry

\* Every step keeps a way back for the failed documents.
LEMMA FailedStep ==
    ASSUME NoExpiry, SharedInv, HeldInv, FailedInv, [PipelineNext]_pipelineVars
    PROVE  FailedInv'
  <1> SUFFICES ASSUME NEW i \in Items, docs'[i].status = "failed"
               PROVE  \E m \in About(i)' : Retry(m)'
    BY DEF FailedInv
  <1>1. CASE docs[i].status = "failed"
    <2>1. PICK m \in About(i) : Retry(m)
      BY <1>1 DEF FailedInv
    <2> QED  BY <1>1, <2>1, RetryStays
  <1>2. CASE docs[i].status # "failed"
    <2>1. PICK p \in Procs : ProcessorStep(p) \/ ProcessorFault(p)
      BY <1>2, OtherSteps
    <2>2. RecordFailure(p) /\ proc[p].item = i
      <3> USE DEF SharedInv, SharedTypeOK, StoreTypeOK, Row
      <3>1. ASSUME NEW s, SetStatus(proc[p].item, s)
            PROVE  proc[p].item = i /\ s = "failed"
        BY <1>2, <3>1 DEF SetStatus
      <3>2. ~UNCHANGED docs
        BY <1>2
      <3>3. ~(WriteResult(p) \/ RecordOverride(p) \/ MarkProcessing(p) \/ RecordSkipped(p))
        BY <1>2 DEF WriteResult, RecordOverride, MarkProcessing, SetStatusIfDiffers,
                    SetStatus, RecordSkipped
      <3>4. RecordFailure(p)
        BY <2>1, <3>2, <3>3
        DEF ProcessorStep, ProcessorFault, ReceiveMessage, LoadDocument, CheckHash,
            Download, Classify, LogCompleted, DeleteMessage, DeleteRefused,
            AttemptFails, CommitFails, DeleteFails, Crash, storeVars
      <3> QED  BY <3>1, <3>4 DEF RecordFailure
    <2>3. PICK m \in Slots : Holds(p, m)
      BY <2>2 DEF RecordFailure, HeldInv, Holds, At
    <2> QED  BY <2>2, <2>3, FailureLeavesMessage
  <1> QED  BY <1>1, <1>2

\* Without an early reappearance a replica's message is its own in every behaviour.
THEOREM HeldInvariant ==
    ASSUME NoExpiry, NoLease
    PROVE  PipelineSpec => []HeldInv
  <1>1. PipelineInit => HeldInv
    BY DEF PipelineInit, ProcInit, HeldInv, Idle, At
  <1>2. SharedInv /\ HeldInv /\ [PipelineNext]_pipelineVars => HeldInv'
    <2>1. \A m \in Slots : ~LeaseTooShort(m)
      BY NoLease DEF NoLease, LeaseTooShort, Fault
    <2> QED  BY <2>1, NoExpiry, HeldStep
  <1> QED  BY <1>1, <1>2, PipelineTypes, PTL DEF PipelineSpec

\* A failed document has a message that brings it back: the failure is raised before
\* the message is deleted, and no other replica uses it up (Processor.run_once).
THEOREM FailedRetried ==
    ASSUME NoExpiry, NoLease
    PROVE  PipelineSpec => []FailedHasMessage
  <1>1. PipelineInit => FailedInv
    BY DEF PipelineInit, StoreInit, NoRow, FailedInv, Absent
  <1>2. SharedInv /\ HeldInv /\ FailedInv /\ [PipelineNext]_pipelineVars => FailedInv'
    BY NoExpiry, FailedStep
  <1>3. FailedInv => FailedHasMessage
    BY DEF FailedInv, FailedHasMessage
  <1> QED  BY <1>1, <1>2, <1>3, PipelineTypes, HeldInvariant, PTL DEF PipelineSpec

----------------------------------------------------------------------------
(***************************************************************************)
(* Section 3: the work behind a row in flight                              *)
(***************************************************************************)

\* The walker is not interrupted between the commit of a row and its message.
SendLands == "send" \notin Faults /\ "walkcrash" \notin Faults

\* The message is about the version the row was committed with.
SendHash == enq.pc = "send" => docs[enq.item].content_hash = enq.hash

\* Nobody who holds the message has recorded its outcome yet.
Fresh(m) == \A p \in Procs : Holds(p, m) => ~At(p, "log") /\ ~At(p, "ack")

FreshWork(i) ==
    ~docs[i].override =>
        /\ docs[i].status = "processing" => \E m \in About(i) : Fresh(m)
        /\ docs[i].status = "queued" =>
              SendPending(i) \/ \E m \in AboutItsHash(i) : Fresh(m)

FlightInv == SendHash /\ \A i \in Items : FreshWork(i)

\* How a row comes into flight, or to another version.
LEMMA FlightEffects ==
    ASSUME SharedInv, [PipelineNext]_pipelineVars, NEW i \in Items
    PROVE  \/ EnqueueCommit /\ enq.item = i
           \/ /\ docs'[i].content_hash = docs[i].content_hash
              /\ \/ docs'[i].status = docs[i].status
                 \/ docs'[i].status \notin InFlight
                 \/ \E p \in Procs : MarkProcessing(p) /\ proc[p].item = i
                                     /\ docs'[i].status = "processing"
  <1> USE DEF SharedInv, SharedTypeOK, StoreTypeOK, Row, InFlight
  <1>1. CASE AnyChange \/ UNCHANGED <<storeVars, proc>>
    BY <1>1 DEF AnyChange, storeVars
  <1>2. CASE OperatorSteps
    BY <1>2 DEF OperatorSteps, SetOverride, ResetPending, SetStatus
  <1>3. CASE EnqueueCommit
    BY <1>3 DEF EnqueueCommit
  <1>4. CASE AnyWalkerStep /\ ~EnqueueCommit
    BY <1>4, WalkerLeavesRows
  <1>5. ASSUME NEW p \in Procs, ProcessorStep(p) \/ ProcessorFault(p)
        PROVE  /\ docs'[i].content_hash = docs[i].content_hash
               /\ \/ docs'[i].status = docs[i].status
                  \/ docs'[i].status \notin InFlight
                  \/ MarkProcessing(p) /\ proc[p].item = i /\ docs'[i].status = "processing"
    <2>1. CASE UNCHANGED docs
      BY <2>1
    <2>2. CASE MarkProcessing(p)
      BY <2>2 DEF MarkProcessing, SetStatusIfDiffers, SetStatus
    <2>3. CASE RecordOverride(p) \/ RecordSkipped(p) \/ RecordFailure(p)
      BY <2>3 DEF RecordOverride, RecordSkipped, RecordFailure, SetStatusIfDiffers, SetStatus
    <2>4. CASE WriteResult(p)
      BY <2>4 DEF WriteResult
    <2> QED
      BY <1>5, <2>1, <2>2, <2>3, <2>4
      DEF ProcessorStep, ProcessorFault, ReceiveMessage, LoadDocument, CheckHash,
          Download, Classify, LogCompleted, DeleteMessage, DeleteRefused,
          AttemptFails, CommitFails, DeleteFails, Crash, storeVars
  <1>6. CASE UNCHANGED pipelineVars
    BY <1>6 DEF pipelineVars, storeVars
  <1> QED  BY PipelineCases, <1>1, <1>2, <1>3, <1>4, <1>5, <1>6

\* The message behind a row that stays in flight stays fresh.
LEMMA FreshStays ==
    ASSUME NoExpiry, SharedInv, RowInv, HeldInv, [PipelineNext]_pipelineVars,
           NEW i \in Items,
           NEW m \in About(i), Fresh(m), ~docs'[i].override, docs'[i].status \in InFlight
    PROVE  m \in About(i)' /\ queue'[m].hash = queue[m].hash /\ Fresh(m)'
  <1> USE DEF SharedInv, SharedTypeOK
  <1>1. m \in Slots /\ OnQueue(m) /\ queue[m].item = i
    BY DEF About
  <1>2. OnQueue(m)' /\ queue'[m].item = queue[m].item /\ queue'[m].hash = queue[m].hash
    BY <1>1, HolderKeeps DEF Fresh
  <1>3. ~docs[i].override
    BY RowSteps DEF KeepsOverridden
  <1>4. ASSUME NEW p \in Procs, Holds(p, m)'
        PROVE  ~At(p, "log")' /\ ~At(p, "ack")'
    <2> m \in Slots /\ Holds(p, m)'
      BY <1>1, <1>4
    <2>1. CASE ReceiveMessage(p, m) /\ proc'[p].pc = "load"
      BY <2>1 DEF At
    <2>2. CASE Holds(p, m) /\ proc'[p] = proc[p]
      BY <2>2 DEF Fresh, At
    <2>3. CASE Holds(p, m) /\ (ProcessorStep(p) \/ ProcessorFault(p)) /\ ~DeleteMessage(p)
      <3>1. proc[p].item = i /\ proc[p].pc \notin {"log", "ack", "idle"}
        BY <1>1, <2>3 DEF HeldInv, Holds, Fresh, At
      <3>2. ~RecordOverride(p)
        BY <1>3, <3>1 DEF RecordOverride, RowInv, PathInv
      <3>3. ~RecordSkipped(p)
        BY <3>1 DEF RecordSkipped, SetStatus, StoreTypeOK, Row, InFlight
      <3>4. ~WriteResult(p)
        BY <1>3, <3>1 DEF WriteResult, StoreTypeOK, Row, InFlight
      <3>5. ~ReceiveMessage(p, m) /\ ~\E n \in Slots : ReceiveMessage(p, n)
        BY <3>1 DEF ReceiveMessage, At
      <3> QED
        BY <2>3, <3>1, <3>2, <3>3, <3>4, <3>5, ReplicaTable DEF Step, At, Idle
    <2> QED  BY <2>1, <2>2, <2>3, HoldsStep
  <1> QED  BY <1>1, <1>2, <1>4 DEF About, Fresh

\* A replica that marks the row processing holds the message that will settle it.
LEMMA MarkLeavesFresh ==
    ASSUME SharedInv, HeldInv, NEW p \in Procs, MarkProcessing(p), NEW i \in Items,
           proc[p].item = i
    PROVE  \E m \in About(i)' : Fresh(m)'
  <1> USE DEF SharedInv, SharedTypeOK
  <1>1. PICK m \in Slots : Holds(p, m)
    BY DEF MarkProcessing, HeldInv, Holds, At
  <1>2. OnQueue(m) /\ queue[m].item = i /\ queue[m].holder = p
    BY <1>1 DEF Holds, HeldInv, OnQueue
  <1>3. UNCHANGED queue /\ proc' = [proc EXCEPT ![p].pc = "check"]
    BY DEF MarkProcessing, GoTo
  <1>4. ASSUME NEW r \in Procs, Holds(r, m)' PROVE ~At(r, "log")' /\ ~At(r, "ack")'
    <2>1. CASE r = p
      BY <1>3, <2>1 DEF ProcTypeOK, At
    <2>2. CASE r # p
      <3>1. proc'[r] = proc[r]
        BY <1>3, <2>2 DEF ProcTypeOK
      <3> QED  BY <1>2, <1>4, <2>2, <3>1 DEF HeldInv, Holds, At
    <2> QED  BY <2>1, <2>2
  <1> QED  BY <1>2, <1>3, <1>4 DEF About, OnQueue, Fresh

\* The message the producer sends is fresh: its slot was free, so nobody holds it.
LEMMA SendIsFresh ==
    ASSUME SharedInv, HeldInv, Sends, UNCHANGED proc
    PROVE  \E m \in Slots : /\ OnQueue(m)' /\ Fresh(m)'
                            /\ queue'[m].item = enq.item /\ queue'[m].hash = enq.hash
  <1> USE DEF SharedInv, SharedTypeOK, QueueTypeOK, OnQueue
  <1>1. PICK m \in Slots :
            /\ ~OnQueue(m)
            /\ queue' = [queue EXCEPT ![m] = [state |-> "visible", item |-> enq.item,
                                              hash |-> enq.hash, holder |-> None]]
    BY DEF Sends, EnqueueSend, Send
  <1>2. \A p \in Procs : ~Holds(p, m)
    BY <1>1 DEF HeldInv, Holds
  <1>3. Fresh(m)'
    BY <1>2 DEF Fresh, Holds, At
  <1> QED  BY <1>1, <1>3

\* The producer is left alone between the commit and the send.
LEMMA SendStays ==
    ASSUME SendLands, SharedInv, [PipelineNext]_pipelineVars, enq.pc = "send"
    PROVE  enq' = enq \/ (Sends /\ UNCHANGED proc)
  <1>1. CASE AnyWalkerStep /\ UNCHANGED proc
    BY <1>1
    DEF AnyWalkerStep, HandsOver, EnqueueBegin, EnqueueCommit, KeepsBooks, SourceFails,
        SendUnsure, Dies, Fault, SendLands
  <1>2. CASE UNCHANGED enq
    BY <1>2
  <1> QED  BY PipelineCases, <1>1, <1>2 DEF AnyChange, pipelineVars

\* Every step leaves work behind every row in flight.
LEMMA FlightStep ==
    ASSUME NoExpiry, SendLands, SharedInv, RowInv, HeldInv, FlightInv,
           [PipelineNext]_pipelineVars
    PROVE  FlightInv'
  <1> USE DEF SharedInv, SharedTypeOK
  <1>1. SendHash'
    <2> SUFFICES ASSUME enq'.pc = "send" PROVE docs'[enq'.item].content_hash = enq'.hash
      BY DEF SendHash
    <2>1. CASE EnqueueCommit
      BY <2>1 DEF EnqueueCommit, EnqTypeOK, StoreTypeOK, Row, Named
    <2>2. CASE ~EnqueueCommit
      <3>1. enq' = enq /\ enq.item \in Items
        BY <2>2, Subjects DEF Named
      <3> QED  BY <2>2, <3>1, FlightEffects DEF FlightInv, SendHash
    <2> QED  BY <2>1, <2>2
  <1>2. ASSUME NEW i \in Items, ~docs'[i].override, docs'[i].status \in InFlight
        PROVE  /\ docs'[i].status = "processing" => \E m \in About(i)' : Fresh(m)'
               /\ docs'[i].status = "queued" =>
                     SendPending(i)' \/ \E m \in AboutItsHash(i)' : Fresh(m)'
    <2>1. CASE EnqueueCommit /\ enq.item = i
      BY <2>1 DEF EnqueueCommit, EnqTypeOK, StoreTypeOK, Row, SendPending
    <2>2. CASE \E p \in Procs : MarkProcessing(p) /\ proc[p].item = i
                                /\ docs'[i].status = "processing"
      BY <2>2, MarkLeavesFresh
    <2>3. CASE docs'[i].content_hash = docs[i].content_hash /\ docs'[i].status = docs[i].status
      <3>1. ~docs[i].override /\ FreshWork(i)
        BY <1>2, RowSteps DEF KeepsOverridden, FlightInv
      <3>2. ASSUME NEW m \in About(i), Fresh(m)
            PROVE  m \in About(i)' /\ Fresh(m)' /\ queue'[m].hash = queue[m].hash
        BY <1>2, <3>2, FreshStays
      <3>3. CASE docs'[i].status = "processing"
        BY <2>3, <3>1, <3>2, <3>3 DEF FreshWork
      <3>4. CASE docs'[i].status = "queued"
        <4>1. CASE \E m \in AboutItsHash(i) : Fresh(m)
          BY <2>3, <3>2, <3>4, <4>1 DEF AboutItsHash
        <4>2. CASE SendPending(i)
          <5>1. CASE enq' = enq
            BY <3>4, <4>2, <5>1 DEF SendPending
          <5>2. CASE Sends /\ UNCHANGED proc
            <6>1. docs[i].content_hash = enq.hash /\ enq.item = i
              BY <4>2 DEF SendPending, FlightInv, SendHash
            <6>2. PICK m \in Slots : /\ OnQueue(m)' /\ Fresh(m)'
                                     /\ queue'[m].item = i /\ queue'[m].hash = enq.hash
              BY <5>2, <6>1, SendIsFresh
            <6>3. m \in AboutItsHash(i)'
              BY <2>3, <6>1, <6>2 DEF AboutItsHash, About
            <6> QED  BY <3>4, <6>2, <6>3
          <5> QED
            BY <4>2, <5>1, <5>2, SendStays DEF SendPending
        <4> QED  BY <2>3, <3>1, <3>4, <4>1, <4>2 DEF FreshWork
      <3> QED  BY <1>2, <3>3, <3>4 DEF InFlight
    <2> QED  BY <1>2, <2>1, <2>2, <2>3, FlightEffects
  <1>3. \A i \in Items : FreshWork(i)'
    BY <1>2 DEF FreshWork, InFlight
  <1> QED  BY <1>1, <1>3 DEF FlightInv

\* The invariant behind the work of rows in flight holds in every behaviour in which
\* no message expires or reappears early and no send is lost.
THEOREM FlightInvariant ==
    ASSUME NoExpiry, NoLease, SendLands
    PROVE  PipelineSpec => []FlightInv
  <1>1. PipelineInit => FlightInv
    BY DEF PipelineInit, StoreInit, EnqInit, NoRow, NoCall, FlightInv, SendHash,
           FreshWork, Absent
  <1>2. SharedInv /\ RowInv /\ HeldInv /\ FlightInv /\ [PipelineNext]_pipelineVars
            => FlightInv'
    BY NoExpiry, SendLands, FlightStep
  <1> QED
    BY <1>1, <1>2, NoExpiry, NoLease, PipelineTypes, RowInvariant, HeldInvariant, PTL
    DEF PipelineSpec

\* A row in flight has work behind it, whatever replicas, operators, crashes and lost
\* commits do: no row is left in a status that every later walk skips
\* (Enqueuer._should_enqueue, Processor.process).
THEOREM InFlightWorked ==
    ASSUME NoExpiry, NoLease, SendLands
    PROVE  PipelineSpec => []InFlightHasWork
  <1>1. FlightInv => InFlightHasWork
    BY DEF FlightInv, FreshWork, InFlightHasWork, AboutItsHash
  <1> QED  BY <1>1, NoExpiry, NoLease, SendLands, FlightInvariant, PTL

----------------------------------------------------------------------------
(***************************************************************************)
(* Section 4: the owner of a row in flight, when messages reappear early   *)
(***************************************************************************)

\* Nobody labels a row by hand: a replica that classified it would leave its status.
NoOverride == "override" \notin Operations

\* A message reappears under a live replica, or an attempt is lost, but not both: two
\* such faults together can take a row's message and its replica away.
OneLoss == NoLease \/ NoLoss \/ MaxFaults <= 1

\* Nobody whose receipt for the message is valid has recorded an outcome yet.
Unrecorded(m) == \A p \in Procs : Working(p, m) => ~At(p, "log") /\ ~At(p, "ack")

OwnedRow(i) ==
    ~docs[i].override =>
        /\ docs[i].status = "processing" => AtWork(i)
        /\ docs[i].status = "queued" =>
              SendPending(i) \/ \E m \in About(i) : Unrecorded(m)

OwnedInv == \A i \in Items : OwnedRow(i)

WorkSteps ==
    {"check", "download", "classify", "skip", "unsupported", "fail", "write"}

\* A replica between the mark and the outcome goes on, or records the outcome.
LEMMA WorkGoesOn ==
    ASSUME SharedInv, NEW p \in Procs, ProcessorStep(p) \/ ProcessorFault(p),
           ~CommitFails(p), ~Crash(p), proc[p].pc \in WorkSteps
    PROVE  \/ proc'[p].pc \in WorkSteps /\ proc'[p].item = proc[p].item
           \/ RecordFailure(p) \/ RecordSkipped(p) \/ WriteResult(p)
  <1> USE DEF SharedInv, SharedTypeOK, ProcTypeOK, Execution, At, GoTo, WorkSteps
  <1>1. CASE CheckHash(p)
    BY <1>1 DEF CheckHash
  <1>2. CASE Download(p)
    BY <1>2 DEF Download
  <1>3. CASE Classify(p)
    BY <1>3 DEF Classify
  <1>4. CASE AttemptFails(p)
    BY <1>4 DEF AttemptFails
  <1> QED
    BY <1>1, <1>2, <1>3, <1>4
    DEF ProcessorStep, ProcessorFault, ReceiveMessage, LoadDocument, RecordOverride,
        MarkProcessing, LogCompleted, DeleteMessage, DeleteRefused, DeleteFails

\* An outcome takes its row out of flight, unless a person has labelled it.
LEMMA OutcomeSettles ==
    ASSUME SharedInv, NEW p \in Procs, NEW i \in Items, proc[p].item = i,
           ~docs[i].override, RecordFailure(p) \/ RecordSkipped(p) \/ WriteResult(p)
    PROVE  docs'[i].status \notin InFlight
  BY DEF RecordFailure, RecordSkipped, WriteResult, SetStatus, InFlight, SharedInv, SharedTypeOK,
         StoreTypeOK, Row

\* A row that stays processing keeps the replica that will record its outcome.
LEMMA WorkStays ==
    ASSUME SharedInv, [PipelineNext]_pipelineVars,
           \A p \in Procs : ~CommitFails(p) /\ ~Crash(p),
           NEW i \in Items, AtWork(i), ~docs[i].override, docs'[i].status \in InFlight
    PROVE  AtWork(i)'
  <1>1. PICK p \in Procs : proc[p].item = i /\ proc[p].pc \in WorkSteps
    BY DEF AtWork, WorkSteps
  <1>2. CASE proc'[p] = proc[p]
    BY <1>1, <1>2 DEF AtWork, WorkSteps
  <1>3. CASE ProcessorStep(p) \/ ProcessorFault(p)
    BY <1>1, <1>3, WorkGoesOn, OutcomeSettles DEF AtWork, WorkSteps
  <1>4. proc'[p] = proc[p] \/ ProcessorStep(p) \/ ProcessorFault(p)
    BY OtherSteps, OtherReplicas DEF SharedInv, SharedTypeOK
  <1> QED  BY <1>2, <1>3, <1>4

\* The message behind a row that stays in flight is not used up: only the replica
\* whose receipt is valid deletes it, and after an outcome only.
LEMMA UnrecordedStays ==
    ASSUME NoExpiry, SharedInv, RowInv, OwnReceipt, [PipelineNext]_pipelineVars,
           NEW i \in Items,
           NEW m \in About(i), Unrecorded(m), ~docs[i].override,
           docs'[i].status \in InFlight
    PROVE  m \in About(i)' /\ Unrecorded(m)'
  <1> USE DEF SharedInv, SharedTypeOK
  <1>1. m \in Slots /\ OnQueue(m) /\ queue[m].item = i
    BY DEF About
  <1>2. ~\E p \in Procs : DeleteMessage(p) /\ proc[p].slot = m
    BY DEF DeleteMessage, Delete, HasReceipt, Unrecorded, Working
  <1>3. OnQueue(m)' /\ queue'[m].item = i
    BY <1>1, <1>2, MessageStays
  <1>4. ASSUME NEW p \in Procs, Working(p, m)'
        PROVE  ~At(p, "log")' /\ ~At(p, "ack")'
    <2>1. CASE \E n \in Slots : ReceiveMessage(p, n)
      BY <2>1 DEF ReceiveMessage, Idle, ProcTypeOK, At
    <2>2. CASE proc'[p] = Idle
      BY <2>2 DEF Idle, At
    <2>3. CASE ~(\E n \in Slots : ReceiveMessage(p, n)) /\ proc'[p] # Idle
               /\ (At(p, "log")' \/ At(p, "ack")')
      <3>1. ~At(p, "idle") /\ proc'[p].slot = m /\ HasReceipt(p, m)'
        <4>1. proc'[p].slot = m /\ queue'[m].holder = p
          BY <1>4 DEF Working
        <4>2. ~At(p, "idle")
          BY <2>3, OtherSteps, OtherReplicas, ReplicaTable
          DEF Step, At, DeleteMessage, RecordFailure
        <4> QED  BY <1>3, <4>1, <4>2 DEF HasReceipt, OnQueue
      <3>2. HasReceipt(p, m) /\ proc[p].slot = m
        <4>1. m \in Slots /\ ~At(p, "idle")' /\ ~\E n \in Slots : ReceiveMessage(p, n)
          BY <1>1, <2>3 DEF At
        <4>2. HasReceipt(p, m) /\ proc'[p].slot = proc[p].slot
          BY <3>1, <4>1, ReceiptBack
        <4> QED  BY <3>1, <4>2
      <3>3. Working(p, m) /\ proc[p].item = i
        BY <1>1, <3>1, <3>2 DEF OwnReceipt, HasReceipt, Working
      <3>4. ~At(p, "log") /\ ~At(p, "ack")
        BY <3>3 DEF Unrecorded
      <3>5. ProcessorStep(p) \/ ProcessorFault(p)
        BY <2>3, <3>4, OtherSteps, OtherReplicas DEF At
      <3>6. RecordOverride(p) \/ RecordSkipped(p) \/ WriteResult(p)
        BY <2>3, <3>4, <3>5, ReplicaTable DEF Step, At, DeleteMessage, RecordFailure
      <3>7. ~RecordOverride(p)
        BY <3>3 DEF RecordOverride, RowInv, PathInv
      <3> QED  BY <3>3, <3>6, <3>7, OutcomeSettles
    <2> QED  BY <2>1, <2>2, <2>3
  <1> QED  BY <1>1, <1>3, <1>4 DEF About, Unrecorded

\* The message the producer sends is nobody's yet.
LEMMA SendIsUnrecorded ==
    ASSUME SharedInv, Sends, UNCHANGED proc
    PROVE  \E m \in Slots : /\ OnQueue(m)' /\ Unrecorded(m)'
                            /\ queue'[m].item = enq.item
  <1> USE DEF SharedInv, SharedTypeOK, QueueTypeOK, OnQueue
  <1>1. PICK m \in Slots :
            queue' = [queue EXCEPT ![m] = [state |-> "visible", item |-> enq.item,
                                           hash |-> enq.hash, holder |-> None]]
    BY DEF Sends, EnqueueSend, Send
  <1>2. queue'[m].holder = None
    BY <1>1
  <1>3. Unrecorded(m)'
    BY <1>2, QueueAssumption DEF Unrecorded, Working
  <1> QED  BY <1>1, <1>3

\* Every step without a lost attempt leaves an owner to every row in flight.
LEMMA OwnedStep ==
    ASSUME NoExpiry, SendLands, SharedInv, RowInv, OwnReceipt, OwnedInv,
           [PipelineNext]_pipelineVars,
           \A p \in Procs : ~CommitFails(p) /\ ~Crash(p)
    PROVE  OwnedInv'
  <1> USE DEF SharedInv, SharedTypeOK
  <1>1. ASSUME NEW i \in Items, ~docs'[i].override, docs'[i].status \in InFlight
        PROVE  /\ docs'[i].status = "processing" => AtWork(i)'
               /\ docs'[i].status = "queued" =>
                     SendPending(i)' \/ \E m \in About(i)' : Unrecorded(m)'
    <2>1. CASE EnqueueCommit /\ enq.item = i
      BY <2>1 DEF EnqueueCommit, EnqTypeOK, StoreTypeOK, Row, SendPending
    <2>2. CASE \E p \in Procs : MarkProcessing(p) /\ proc[p].item = i
                                /\ docs'[i].status = "processing"
      BY <2>2 DEF MarkProcessing, GoTo, ProcTypeOK, Execution, AtWork
    <2>3. CASE docs'[i].status = docs[i].status
      <3>1. ~docs[i].override /\ OwnedRow(i)
        BY <1>1, RowSteps DEF KeepsOverridden, OwnedInv
      <3>2. CASE docs'[i].status = "processing"
        BY <1>1, <2>3, <3>1, <3>2, WorkStays DEF OwnedRow
      <3>3. CASE docs'[i].status = "queued"
        <4>1. ASSUME NEW m \in About(i), Unrecorded(m)
              PROVE  m \in About(i)' /\ Unrecorded(m)'
          BY <1>1, <3>1, <4>1, UnrecordedStays
        <4>2. CASE SendPending(i) /\ enq' = enq
          BY <3>3, <4>2 DEF SendPending
        <4>3. CASE SendPending(i) /\ Sends /\ UNCHANGED proc
          BY <3>3, <4>3, SendIsUnrecorded DEF SendPending, About
        <4> QED
          BY <2>3, <3>1, <3>3, <4>1, <4>2, <4>3, SendStays DEF OwnedRow, SendPending
      <3> QED  BY <1>1, <3>2, <3>3 DEF InFlight
    <2> QED  BY <1>1, <2>1, <2>2, <2>3, FlightEffects
  <1> QED  BY <1>1 DEF OwnedInv, OwnedRow, InFlight

\* The message that brings a row in flight forward is still its replica's.
KeptInv == HeldInv /\ FlightInv

\* One of the two arguments holds, and each holds until a fault of its kind.
EitherInv ==
    /\ KeptInv \/ OwnedInv
    /\ NoLease => KeptInv
    /\ NoLoss => OwnedInv
    /\ faults = 0 => KeptInv /\ OwnedInv

\* A fault is counted, and is one of a kind that is allowed.
LEMMA FaultsCount ==
    ASSUME SharedInv, [PipelineNext]_pipelineVars
    PROVE  faults' = faults \/ (faults' = faults + 1 /\ faults < MaxFaults)
  <1> USE DEF Fault
  <1>1. CASE AnyChange \/ OperatorSteps
    BY <1>1 DEF AnyChange, Change, OperatorSteps, SetOverride, ResetPending, Operation,
                budgets
  <1>2. CASE QueueSteps
    BY <1>2 DEF QueueSteps, LeaseEnds, LeaseTooShort, MessageExpires, envVars
  <1>3. CASE AnyWalkerStep
    BY <1>3 DEF AnyWalkerStep, HandsOver, EnqueueCommit, Sends, KeepsBooks, SourceFails,
                SendUnsure, Dies, envVars
  <1>5. ASSUME NEW p \in Procs, ProcessorStep(p) PROVE faults' = faults
    BY <1>5 DEF ProcessorStep, ReceiveMessage, LoadDocument, RecordOverride,
       MarkProcessing, CheckHash, Download, Classify, RecordSkipped, RecordFailure,
       WriteResult, LogCompleted, DeleteMessage, DeleteRefused, envVars
  <1>6. ASSUME NEW p \in Procs, ProcessorFault(p)
        PROVE  faults' = faults + 1 /\ faults < MaxFaults
    BY <1>6 DEF ProcessorFault, AttemptFails, CommitFails, DeleteFails, Crash
  <1>7. CASE UNCHANGED pipelineVars
    BY <1>7 DEF pipelineVars, envVars
  <1> QED  BY PipelineCases, <1>1, <1>2, <1>3, <1>5, <1>6, <1>7

\* Every step keeps one of the two arguments.
LEMMA EitherStep ==
    ASSUME NoExpiry, SendLands, OneLoss, SharedInv, RowInv, OwnReceipt, EitherInv,
           [PipelineNext]_pipelineVars
    PROVE  EitherInv'
  <1> DEFINE Early == \E m \in Slots : LeaseTooShort(m)
             Lost  == \E p \in Procs : CommitFails(p) \/ Crash(p)
  <1>1. KeptInv /\ ~Early => KeptInv'
    BY NoExpiry, SendLands, HeldStep, FlightStep DEF KeptInv
  <1>2. OwnedInv /\ ~Lost => OwnedInv'
    BY NoExpiry, SendLands, OwnedStep
  <1>3. Early \/ Lost => faults < MaxFaults /\ faults' = faults + 1
    BY DEF LeaseTooShort, CommitFails, Crash, Fault
  <1>4. (Early => ~NoLease) /\ (Lost => ~NoLoss)
    BY DEF LeaseTooShort, CommitFails, Crash, Fault, NoLease, NoLoss
  <1>5. ~(Early /\ Lost)
    BY DEF LeaseTooShort, Reappear, CommitFails, Crash, SharedInv, SharedTypeOK, QueueTypeOK,
           Message
  <1>6. faults \in Nat /\ MaxFaults \in Nat
    BY EnvironmentAssumption DEF SharedInv, SharedTypeOK, EnvTypeOK
  <1>7. faults' = 0 => faults = 0 /\ ~Early /\ ~Lost
    BY <1>3, <1>6, FaultsCount
  <1>8. (NoLease' <=> NoLease) /\ (NoLoss' <=> NoLoss)
    BY DEF NoLease, NoLoss
  <1>9. CASE NoLease \/ NoLoss
    BY <1>1, <1>2, <1>4, <1>7, <1>8, <1>9 DEF EitherInv
  <1>10. CASE MaxFaults <= 1
    <2>1. Early \/ Lost => faults = 0
      BY <1>3, <1>6, <1>10
    <2> HIDE DEF Early, Lost
    <2> QED  BY <1>1, <1>2, <1>4, <1>5, <1>7, <1>8, <2>1 DEF EitherInv
  <1> QED  BY <1>9, <1>10 DEF OneLoss

\* Only a person sets or clears the manual label.
LEMMA NotLabelled ==
    ASSUME NoOverride, SharedInv, [PipelineNext]_pipelineVars, NEW i \in Items
    PROVE  docs'[i].override = docs[i].override
  <1> USE DEF SharedInv, SharedTypeOK, StoreTypeOK, Row
  <1>1. CASE AnyChange \/ UNCHANGED <<storeVars, proc>>
    BY <1>1 DEF AnyChange, storeVars
  <1>2. CASE OperatorSteps
    BY <1>2 DEF OperatorSteps, SetOverride, Operation, NoOverride, ResetPending, SetStatus
  <1>3. CASE EnqueueCommit
    BY <1>3 DEF EnqueueCommit
  <1>4. CASE AnyWalkerStep /\ ~EnqueueCommit
    BY <1>4, WalkerLeavesRows
  <1>5. ASSUME NEW p \in Procs, ProcessorStep(p) \/ ProcessorFault(p)
        PROVE  docs'[i].override = docs[i].override
    <2>1. ASSUME NEW s, SetStatus(proc[p].item, s)
          PROVE  docs'[i].override = docs[i].override
      BY <2>1 DEF SetStatus
    <2>2. CASE WriteResult(p)
      BY <2>2 DEF WriteResult
    <2> QED
      BY <1>5, <2>1, <2>2
      DEF ProcessorStep, ProcessorFault, ReceiveMessage, LoadDocument, RecordOverride,
          MarkProcessing, SetStatusIfDiffers, CheckHash, Download, Classify,
          RecordSkipped, RecordFailure, LogCompleted, DeleteMessage, DeleteRefused,
          AttemptFails, CommitFails, DeleteFails, Crash, storeVars
  <1>6. CASE UNCHANGED pipelineVars
    BY <1>6 DEF pipelineVars, storeVars
  <1> QED  BY PipelineCases, <1>1, <1>2, <1>3, <1>4, <1>5, <1>6

\* A row in flight has a message, a pending send or a replica at work on it, also when
\* its message reappears under a live replica (run_once asks for no visibility timeout):
\* no later walk would take it up again (Enqueuer._should_enqueue).
THEOREM InFlightOwned ==
    ASSUME NoExpiry, SendLands, NoOverride, OneLoss
    PROVE  PipelineSpec => []InFlightIsOwned
  <1> DEFINE Unlabelled == \A i \in Items : ~docs[i].override
  <1>1. PipelineInit => EitherInv /\ Unlabelled
    <2>1. PipelineInit => HeldInv
      BY DEF PipelineInit, ProcInit, HeldInv, Idle, At
    <2>2. PipelineInit => FlightInv /\ OwnedInv /\ Unlabelled
      BY DEF PipelineInit, StoreInit, EnqInit, NoRow, NoCall, FlightInv, SendHash, FreshWork,
             OwnedInv, OwnedRow, Absent
    <2> QED  BY <2>1, <2>2 DEF EitherInv, KeptInv
  <1>2. SharedInv /\ RowInv /\ AuditInv /\ EitherInv /\ [PipelineNext]_pipelineVars
            => EitherInv'
    BY NoExpiry, SendLands, OneLoss, EitherStep DEF AuditInv
  <1>3. SharedInv /\ RowInv /\ Unlabelled /\ [PipelineNext]_pipelineVars => Unlabelled'
    BY NoOverride, NotLabelled
  <1>4. EitherInv /\ Unlabelled => InFlightIsOwned
    BY DEF EitherInv, KeptInv, FlightInv, FreshWork, AboutItsHash, OwnedInv, OwnedRow,
           InFlightIsOwned, InFlight
  <1> QED
    BY <1>1, <1>2, <1>3, <1>4, PipelineTypes, RowInvariant, AuditInvariant, PTL
    DEF PipelineSpec

\* A replica that deletes its message leaves no row reading processing without another
\* message about it, as long as nobody labels rows by hand in the middle of an attempt
\* (Processor.run_once deletes on a terminal outcome only).
THEOREM DeletedSettled ==
    ASSUME NoExpiry, NoLease, SendLands, NoOverride
    PROVE  PipelineSpec =>
               [][\A p \in Procs, m \in Slots : DeletesWhenSettled(p, m)]_pipelineVars
  <1> DEFINE Unlabelled == \A i \in Items : ~docs[i].override
             Settles    == \A p \in Procs, m \in Slots : DeletesWhenSettled(p, m)
  <1>1. PipelineInit => Unlabelled
    <2>1. ASSUME PipelineInit, NEW i \in Items PROVE docs[i].override = FALSE
      BY <2>1 DEF PipelineInit, StoreInit, NoRow
    <2> QED  BY <2>1
  <1>2. SharedInv /\ Unlabelled /\ [PipelineNext]_pipelineVars => Unlabelled'
    BY NoOverride, NotLabelled
  <1>3. SharedInv /\ FlightInv /\ Unlabelled => Settles
    <2> SUFFICES ASSUME SharedInv, FlightInv, Unlabelled, NEW p \in Procs, NEW m \in Slots,
                        Working(p, m), At(p, "ack"),
                        docs[proc[p].item].status = "processing"
                 PROVE  About(proc[p].item) # {m}
      BY DEF DeletesWhenSettled
    <2>1. proc[p].item \in Items
      BY DEF SharedInv, Named, At
    <2>2. PICK n \in About(proc[p].item) : Fresh(n)
      BY <2>1 DEF FlightInv, FreshWork
    <2>3. n # m
      BY <2>2 DEF Fresh, Holds, Working, At
    <2> QED  BY <2>2, <2>3
  <1>4. Settles => [Settles]_pipelineVars
    OBVIOUS
  <1> QED
    BY <1>1, <1>2, <1>3, <1>4, NoExpiry, NoLease, SendLands, PipelineTypes,
       FlightInvariant, PTL DEF PipelineSpec
============================================================================
