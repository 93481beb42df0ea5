--------------------------- MODULE Pipeline_proofs --------------------------
(***************************************************************************)
(* Lemmas about what both deployments share: the enqueuer's commit and     *)
(* send, the replicas, the queue's timeouts and the operator, whichever    *)
(* walker is the producer.                                                 *)
(***************************************************************************)
EXTENDS Pipeline, TLAPS

SharedTypeOK == EnvTypeOK /\ StoreTypeOK /\ QueueTypeOK /\ EnqTypeOK /\ ProcTypeOK

\* Work in progress is about a file of the library: the call of the producer,
\* every message, and the execution of every replica.  Without it a replica could
\* load the row of nothing, so TypeOK alone is not inductive.
Named ==
    /\ enq.pc # "idle" => enq.item \in Items
    /\ \A m \in Slots : OnQueue(m) => queue[m].item \in Items
    /\ \A p \in Procs : ~At(p, "idle") => proc[p].item \in Items

SharedInv == SharedTypeOK /\ Named

\* The producer sends only about a row it has committed.
SendHasRow == enq.pc = "send" => docs[enq.item].status # Absent

----------------------------------------------------------------------------
\* Changing the status of a row, one audit trail or the step of one replica
\* keeps the table's type.
LEMMA SetStatusType ==
    ASSUME StoreTypeOK, NEW i, NEW s \in DocumentStatus, SetStatus(i, s)
    PROVE  docs' \in [Items -> Row]
  <1>1. ASSUME NEW j \in Items PROVE docs'[j] \in Row
    <2>1. docs[j] \in Row
      BY DEF StoreTypeOK
    <2>2. docs'[j] = docs[j] \/ docs'[j] = [docs[j] EXCEPT !.status = s]
      BY DEF SetStatus, StoreTypeOK
    <2> QED  BY <2>1, <2>2 DEF Row
  <1>2. docs' = [j \in Items |-> docs'[j]]
    BY DEF SetStatus, StoreTypeOK
  <1> QED  BY <1>1, <1>2

\* Adding an outcome to one audit trail keeps the table's type.
LEMMA AddLogType ==
    ASSUME StoreTypeOK, NEW i, NEW outcome \in Outcomes, AddLog(i, outcome)
    PROVE  audit' \in [Items -> SUBSET Outcomes]
  <1>1. ASSUME NEW j \in Items PROVE audit'[j] \in SUBSET Outcomes
    <2>1. audit[j] \in SUBSET Outcomes
      BY DEF StoreTypeOK
    <2>2. audit'[j] = audit[j] \/ audit'[j] = audit[j] \cup {outcome}
      BY DEF AddLog, StoreTypeOK
    <2> QED  BY <2>1, <2>2
  <1>2. audit' = [j \in Items |-> audit'[j]]
    BY DEF AddLog, StoreTypeOK
  <1> QED  BY <1>1, <1>2

\* Moving a replica to a step of the pipeline keeps its type.
LEMMA GoToType ==
    ASSUME ProcTypeOK, NEW p \in Procs, NEW step \in Steps, GoTo(p, step)
    PROVE  ProcTypeOK'
  BY DEF ProcTypeOK, GoTo, Execution

\* Storing a whole execution for one replica keeps the type.
LEMMA ExecutionType ==
    ASSUME ProcTypeOK, NEW p \in Procs, NEW x \in Execution,
           proc' = [proc EXCEPT ![p] = x]
    PROVE  ProcTypeOK'
  BY DEF ProcTypeOK

\* A replica that exits is back in a typed state.
LEMMA ExitType ==
    ASSUME ProcTypeOK, NEW p \in Procs, Exit(p)
    PROVE  ProcTypeOK'
  BY DEF ProcTypeOK, Exit, Execution, Idle, Steps

\* Every step of a replica (Processor.run_once and what it calls) keeps the types.
LEMMA ProcessorStepType ==
    ASSUME SharedInv, NEW p \in Procs, ProcessorStep(p), UNCHANGED enq
    PROVE  SharedTypeOK'
  <1> USE DEF SharedInv, SharedTypeOK, EnvTypeOK, QueueTypeOK, EnqTypeOK, envVars,
              storeVars
  <1>1. CASE \E m \in Slots : ReceiveMessage(p, m)
    <2>1. PICK m \in Slots : ReceiveMessage(p, m)
      BY <1>1
    <2>2. queue[m] \in Message
      OBVIOUS
    <2> DEFINE x == [Idle EXCEPT !.pc = "load", !.slot = m, !.item = queue[m].item,
                                 !.hash = queue[m].hash]
    <2>3. x \in Execution
      BY <2>2 DEF Message, Idle, Execution, Steps
    <2>4. proc' = [proc EXCEPT ![p] = x]
      BY <2>1 DEF ReceiveMessage
    <2>5. ProcTypeOK'
      BY <2>3, <2>4, ExecutionType
    <2>6. queue' \in [Slots -> Message]
      BY <2>1 DEF ReceiveMessage, Receive, Message
    <2> QED  BY <2>1, <2>5, <2>6 DEF ReceiveMessage, StoreTypeOK
  <1>2. CASE LoadDocument(p)
    <2>1. docs[proc[p].item].status \in DocumentStatus
      BY <1>2 DEF LoadDocument, Named, At, StoreTypeOK, Row
    <2> DEFINE row == docs[proc[p].item]
               x   == [proc[p] EXCEPT !.seen = row.status,
                           !.pc = IF row.override THEN "override" ELSE "mark"]
    <2>2. x \in Execution
      <3>1. proc[p] \in Execution
        BY DEF ProcTypeOK
      <3> QED  BY <2>1, <3>1 DEF Execution, Steps
    <2>3. proc' = [proc EXCEPT ![p] = x]
      BY <1>2 DEF LoadDocument, ProcTypeOK
    <2>4. ProcTypeOK'
      BY <2>2, <2>3, ExecutionType
    <2> QED  BY <1>2, <2>4 DEF LoadDocument, StoreTypeOK
  <1>3. CASE RecordOverride(p)
    <2>1. docs' \in [Items -> Row]
      <3>1. CASE UNCHANGED docs
        BY <3>1 DEF StoreTypeOK
      <3>2. CASE SetStatus(proc[p].item, "completed")
        BY <3>2, SetStatusType DEF DocumentStatus
      <3> QED  BY <1>3, <3>1, <3>2 DEF RecordOverride, SetStatusIfDiffers
    <2>2. audit' \in [Items -> SUBSET Outcomes]
      BY <1>3, AddLogType DEF RecordOverride, Outcomes
    <2>3. ProcTypeOK'
      BY <1>3, GoToType DEF RecordOverride, Steps
    <2> QED  BY <1>3, <2>1, <2>2, <2>3 DEF RecordOverride, StoreTypeOK
  <1>4. CASE MarkProcessing(p)
    <2>1. docs' \in [Items -> Row]
      <3>1. CASE UNCHANGED docs
        BY <3>1 DEF StoreTypeOK
      <3>2. CASE SetStatus(proc[p].item, "processing")
        BY <3>2, SetStatusType DEF DocumentStatus
      <3> QED  BY <1>4, <3>1, <3>2 DEF MarkProcessing, SetStatusIfDiffers
    <2>2. ProcTypeOK'
      BY <1>4, GoToType DEF MarkProcessing, Steps
    <2> QED  BY <1>4, <2>1, <2>2 DEF MarkProcessing, StoreTypeOK
  <1>5. CASE CheckHash(p)
    <2>1. ProcTypeOK'
      BY <1>5, GoToType DEF CheckHash, Steps
    <2> QED  BY <1>5, <2>1 DEF CheckHash, StoreTypeOK
  <1>6. CASE Download(p)
    <2> DEFINE now == content[proc[p].item]
    <2>1. CASE now = Gone
      <3>1. ProcTypeOK'
        BY <1>6, <2>1, GoToType DEF Download, Steps
      <3> QED  BY <1>6, <3>1 DEF Download, StoreTypeOK
    <2>2. CASE now # Gone
      <3>1. proc[p] \in Execution /\ proc[p].item \in Items
        BY <1>6 DEF Download, At, Named, ProcTypeOK
      <3>2. now \in Hashes \cup {Hashless}
        BY <2>2, <3>1 DEF Contents
      <3> DEFINE x == [proc[p] EXCEPT !.pc = "classify", !.data = now]
      <3>3. x \in Execution
        BY <3>1, <3>2 DEF Execution, Steps
      <3>4. proc' = [proc EXCEPT ![p] = x]
        BY <1>6, <2>2 DEF Download, ProcTypeOK
      <3>5. ProcTypeOK'
        BY <3>3, <3>4, ExecutionType
      <3> QED  BY <1>6, <3>5 DEF Download, StoreTypeOK
    <2> QED  BY <2>1, <2>2
  <1>7. CASE Classify(p)
    <2>1. ProcTypeOK'
      BY <1>7, GoToType DEF Classify, Steps
    <2> QED  BY <1>7, <2>1 DEF Classify, StoreTypeOK
  <1>8. CASE RecordSkipped(p)
    <2>1. docs' \in [Items -> Row]
      BY <1>8, SetStatusType DEF RecordSkipped, DocumentStatus
    <2>2. audit' \in [Items -> SUBSET Outcomes]
      BY <1>8, AddLogType DEF RecordSkipped, Outcomes
    <2>3. ProcTypeOK'
      BY <1>8, GoToType DEF RecordSkipped, Steps
    <2> QED  BY <1>8, <2>1, <2>2, <2>3 DEF RecordSkipped, StoreTypeOK
  <1>9. CASE RecordFailure(p)
    <2>1. docs' \in [Items -> Row]
      BY <1>9, SetStatusType DEF RecordFailure, DocumentStatus
    <2>2. audit' \in [Items -> SUBSET Outcomes]
      BY <1>9, AddLogType DEF RecordFailure, Outcomes
    <2>3. ProcTypeOK'
      BY <1>9, ExitType DEF RecordFailure
    <2> QED  BY <1>9, <2>1, <2>2, <2>3 DEF RecordFailure, StoreTypeOK
  <1>10. CASE WriteResult(p)
    <2>1. ASSUME NEW j \in Items PROVE docs'[j] \in Row
      <3>1. docs[j] \in Row /\ proc[p].data \in Hashes \cup {Hashless, None}
        BY DEF StoreTypeOK, ProcTypeOK, Execution
      <3>2. \/ docs'[j] = docs[j]
            \/ docs'[j] = [docs[j] EXCEPT !.category = proc[p].data,
                                          !.status = "completed"]
        <4>1. CASE docs[proc[p].item].override
          BY <1>10, <4>1 DEF WriteResult
        <4>2. CASE ~docs[proc[p].item].override
          <5>1. docs' = [docs EXCEPT ![proc[p].item].category = proc[p].data,
                                     ![proc[p].item].status = "completed"]
            BY <1>10, <4>2 DEF WriteResult
          <5> QED  BY <5>1 DEF StoreTypeOK
        <4> QED  BY <4>1, <4>2
      <3> QED  BY <3>1, <3>2 DEF Row, DocumentStatus
    <2>2. docs' = [j \in Items |-> docs'[j]]
      BY <1>10 DEF WriteResult, StoreTypeOK
    <2>3. docs' \in [Items -> Row]
      BY <2>1, <2>2
    <2>4. ProcTypeOK'
      BY <1>10, GoToType DEF WriteResult, Steps
    <2> QED  BY <1>10, <2>3, <2>4 DEF WriteResult, StoreTypeOK
  <1>11. CASE LogCompleted(p)
    <2>1. audit' \in [Items -> SUBSET Outcomes]
      BY <1>11, AddLogType DEF LogCompleted, Outcomes
    <2>2. ProcTypeOK'
      BY <1>11, GoToType DEF LogCompleted, Steps
    <2> QED  BY <1>11, <2>1, <2>2 DEF LogCompleted, StoreTypeOK
  <1>12. CASE DeleteMessage(p)
    <2>1. ProcTypeOK'
      BY <1>12, ExitType DEF DeleteMessage
    <2> QED
      BY <1>12, <2>1 DEF DeleteMessage, Delete, Free, Message, StoreTypeOK
  <1>13. CASE DeleteRefused(p)
    <2>1. ProcTypeOK'
      BY <1>13, ExitType DEF DeleteRefused
    <2> QED  BY <1>13, <2>1 DEF DeleteRefused, StoreTypeOK
  <1> QED
    BY <1>1, <1>2, <1>3, <1>4, <1>5, <1>6, <1>7, <1>8, <1>9, <1>10, <1>11, <1>12,
       <1>13 DEF ProcessorStep

\* A failed attempt, a failed commit, a failed delete and a crash of a replica keep
\* the types.
LEMMA ProcessorFaultType ==
    ASSUME SharedTypeOK, NEW p \in Procs, ProcessorFault(p), UNCHANGED enq
    PROVE  SharedTypeOK'
  BY DEF SharedTypeOK, EnvTypeOK, StoreTypeOK, QueueTypeOK, EnqTypeOK,
         ProcTypeOK, storeVars, At, GoTo, Exit, Execution, Idle, Steps,
         ProcessorFault, Fault, AttemptFails, CommitFails, DeleteFails, Crash

\* An operator's override or reset keeps the types.
LEMMA OperatorType ==
    ASSUME SharedTypeOK, OperatorSteps
    PROVE  SharedTypeOK'
  <1> USE DEF SharedTypeOK, EnvTypeOK, QueueTypeOK, EnqTypeOK, ProcTypeOK, envVars
  <1>1. CASE \E i \in Items : SetOverride(i)
    <2>1. PICK i \in Items : SetOverride(i)
      BY <1>1
    <2>2. ASSUME NEW j \in Items PROVE docs'[j] \in Row
      <3>1. docs[j] \in Row
        BY DEF StoreTypeOK
      <3>2. docs'[j] = docs[j] \/ docs'[j] = [docs[j] EXCEPT !.override = TRUE]
        BY <2>1 DEF SetOverride, StoreTypeOK
      <3> QED  BY <3>1, <3>2 DEF Row
    <2>3. docs' = [j \in Items |-> docs'[j]]
      BY <2>1 DEF SetOverride, StoreTypeOK
    <2>4. docs' \in [Items -> Row]
      BY <2>2, <2>3
    <2> QED
      BY <2>1, <2>4 DEF OperatorSteps, SetOverride, Operation, StoreTypeOK
  <1>2. CASE \E i \in Items : ResetPending(i)
    <2>1. PICK i \in Items : ResetPending(i)
      BY <1>2
    <2>2. docs' \in [Items -> Row]
      BY <2>1, SetStatusType DEF ResetPending, DocumentStatus
    <2> QED
      BY <2>1, <2>2 DEF OperatorSteps, ResetPending, Operation, StoreTypeOK
  <1> QED  BY <1>1, <1>2 DEF OperatorSteps

\* The queue's timeouts keep the types.
LEMMA QueueType ==
    ASSUME SharedTypeOK, QueueSteps
    PROVE  SharedTypeOK'
  BY DEF SharedTypeOK, EnvTypeOK, StoreTypeOK, QueueTypeOK, EnqTypeOK, ProcTypeOK,
         envVars, storeVars, QueueSteps, LeaseEnds, LeaseTooShort, MessageExpires,
         Reappear, Expire, Fault, Free, Message

\* The producer's commit keeps the types (Enqueuer.enqueue_if_needed).
LEMMA CommitType ==
    ASSUME SharedTypeOK, EnqueueCommit, UNCHANGED proc
    PROVE  SharedTypeOK'
  <1> USE DEF SharedTypeOK, StoreTypeOK, EnqTypeOK
  <1>1. ASSUME NEW j \in Items PROVE docs'[j] \in Row
    <2>1. docs[j] \in Row
      OBVIOUS
    <2>2. \/ docs'[j] = docs[j]
          \/ docs'[j] = [docs[j] EXCEPT !.status = "queued",
                                        !.content_hash = enq.hash]
      BY DEF EnqueueCommit
    <2> QED  BY <2>1, <2>2 DEF Row, DocumentStatus
  <1>2. docs' = [j \in Items |-> docs'[j]]
    BY DEF EnqueueCommit
  <1>3. docs' \in [Items -> Row]
    BY <1>1, <1>2
  <1> QED
    BY <1>3 DEF EnqueueCommit, EnvTypeOK, QueueTypeOK, ProcTypeOK, envVars

\* And so does its send.
LEMMA SendType ==
    ASSUME QueueTypeOK, EnqTypeOK, Send(enq.item, enq.hash)
    PROVE  QueueTypeOK'
  BY DEF QueueTypeOK, EnqTypeOK, Send, Message

\* A step of a replica that neither receives nor deletes a message leaves the queue
\* and the other replicas alone, and keeps to its document until the replica exits.
LEMMA ReplicaEffect ==
    ASSUME ProcTypeOK, NEW p \in Procs, ProcessorStep(p) \/ ProcessorFault(p),
           ~ \E m \in Slots : ReceiveMessage(p, m), ~DeleteMessage(p)
    PROVE  /\ UNCHANGED queue /\ ~At(p, "idle")
           /\ \A r \in Procs : r # p => proc'[r] = proc[r]
           /\ proc'[p].item = proc[p].item \/ proc'[p] = Idle
  <1>1. \/ LoadDocument(p) \/ RecordOverride(p) \/ MarkProcessing(p)
        \/ CheckHash(p) \/ Download(p) \/ Classify(p) \/ RecordSkipped(p)
        \/ RecordFailure(p) \/ WriteResult(p) \/ LogCompleted(p) \/ DeleteRefused(p)
        \/ AttemptFails(p) \/ CommitFails(p) \/ DeleteFails(p) \/ Crash(p)
    BY DEF ProcessorStep, ProcessorFault
  <1>2. UNCHANGED queue /\ ~At(p, "idle")
    BY <1>1 DEF LoadDocument, RecordOverride, MarkProcessing, CheckHash, Download,
                Classify, RecordSkipped, RecordFailure, WriteResult, LogCompleted,
                DeleteRefused, AttemptFails, CommitFails, DeleteFails, Crash, At
  <1>3. CASE \E step : GoTo(p, step)
    BY <1>2, <1>3 DEF GoTo, ProcTypeOK, Execution
  <1>4. CASE Exit(p)
    BY <1>2, <1>4 DEF Exit, ProcTypeOK
  <1>5. CASE LoadDocument(p)
    BY <1>2, <1>5 DEF LoadDocument, ProcTypeOK, Execution
  <1>6. CASE Download(p)
    <2>1. CASE content[proc[p].item] = Gone
      BY <1>3, <1>6, <2>1 DEF Download
    <2>2. CASE content[proc[p].item] # Gone
      BY <1>2, <1>6, <2>2 DEF Download, ProcTypeOK, Execution
    <2> QED  BY <2>1, <2>2
  <1>7. CASE CommitFails(p)
    BY <1>3, <1>4, <1>7 DEF CommitFails
  <1>8. (\E step : GoTo(p, step)) \/ Exit(p) \/ LoadDocument(p) \/ Download(p)
        \/ CommitFails(p)
    BY <1>1 DEF RecordOverride, MarkProcessing, CheckHash, Classify, RecordSkipped,
                RecordFailure, WriteResult, LogCompleted, DeleteRefused, AttemptFails,
                DeleteFails, Crash
  <1> QED  BY <1>3, <1>4, <1>5, <1>6, <1>7, <1>8

\* A replica stays about a file of the library: an execution comes from a message.
LEMMA ReplicaNamed ==
    ASSUME SharedInv, NEW p \in Procs, ProcessorStep(p) \/ ProcessorFault(p),
           UNCHANGED enq
    PROVE  Named'
  <1> USE DEF SharedInv, SharedTypeOK
  <1>1. CASE \E m \in Slots : ReceiveMessage(p, m)
    <2>1. PICK m \in Slots : ReceiveMessage(p, m)
      BY <1>1
    <2>2. queue[m].item \in Items
      BY <2>1 DEF ReceiveMessage, Receive, Named, OnQueue
    <2>3. /\ proc'[p].item = queue[m].item
          /\ \A r \in Procs : r # p => proc'[r] = proc[r]
      BY <2>1 DEF ReceiveMessage, ProcTypeOK, Idle
    <2>4. \A n \in Slots : queue'[n].item = queue[n].item
      BY <2>1 DEF ReceiveMessage, Receive, QueueTypeOK, Message
    <2>5. \A n \in Slots : queue'[n].state # "free" => queue[n].state # "free"
      BY <2>1 DEF ReceiveMessage, Receive, QueueTypeOK, Message
    <2> QED  BY <2>2, <2>3, <2>4, <2>5 DEF Named, OnQueue, At
  <1>2. CASE /\ ~ \E m \in Slots : ReceiveMessage(p, m)
             /\ ~DeleteMessage(p)
    <2>1. /\ proc'[p].item = proc[p].item \/ proc'[p] = Idle
          /\ \A r \in Procs : r # p => proc'[r] = proc[r]
      BY <1>2, ReplicaEffect
    <2> QED  BY <1>2, <2>1, ReplicaEffect DEF Named, OnQueue, At, Idle
  <1>3. CASE DeleteMessage(p)
    <2>1. /\ proc'[p] = Idle
          /\ \A r \in Procs : r # p => proc'[r] = proc[r]
      BY <1>3 DEF DeleteMessage, Exit, ProcTypeOK
    <2>2. \A n \in Slots : queue'[n] = queue[n] \/ queue'[n] = Free
      BY <1>3 DEF DeleteMessage, Delete, QueueTypeOK
    <2> QED  BY <2>1, <2>2 DEF Named, OnQueue, At, Idle, Free
  <1> QED
    BY <1>1, <1>2, <1>3

\* So do the messages, when they reappear or expire.
LEMMA QueueNamed ==
    ASSUME SharedInv, QueueSteps
    PROVE  Named'
  BY DEF SharedInv, SharedTypeOK, QueueSteps, LeaseEnds, LeaseTooShort, MessageExpires,
         Reappear, Expire, Free, Named, OnQueue, At, QueueTypeOK, Message

\* A message that is sent is about the candidate of the call.
LEMMA SendNamed ==
    ASSUME SharedInv, enq.pc = "send", Send(enq.item, enq.hash), enq' = NoCall,
           UNCHANGED proc
    PROVE  Named'
  BY DEF SharedInv, SharedTypeOK, NoCall, Send, Named, At, OnQueue, QueueTypeOK

\* A step of one replica does not move another.
LEMMA OtherReplicas ==
    ASSUME ProcTypeOK, NEW p \in Procs, ProcessorStep(p) \/ ProcessorFault(p)
    PROVE  \A r \in Procs : r # p => proc'[r] = proc[r]
  <1>1. CASE \E m \in Slots : ReceiveMessage(p, m)
    BY <1>1 DEF ReceiveMessage, ProcTypeOK
  <1>2. CASE DeleteMessage(p)
    BY <1>2 DEF DeleteMessage, Exit, ProcTypeOK
  <1> QED  BY <1>1, <1>2, ReplicaEffect

\* What a message or a replica is about after a replica's step, it or another message
\* was about before.
LEMMA ReplicaSubjects ==
    ASSUME QueueTypeOK, ProcTypeOK, NEW p \in Procs, ProcessorStep(p) \/ ProcessorFault(p)
    PROVE  /\ \A m \in Slots : OnQueue(m)' => OnQueue(m) /\ queue'[m].item = queue[m].item
           /\ \A r \in Procs : At(r, "idle")' \/
                 \/ ~At(r, "idle") /\ proc'[r].item = proc[r].item
                 \/ \E m \in Slots : OnQueue(m) /\ proc'[r].item = queue[m].item
  <1> USE DEF QueueTypeOK, OnQueue, At
  <1>1. CASE \E m \in Slots : ReceiveMessage(p, m)
    <2>1. PICK m \in Slots : ReceiveMessage(p, m)
      BY <1>1
    <2>2. OnQueue(m) /\ proc'[p].item = queue[m].item
      BY <2>1 DEF ReceiveMessage, Receive, ProcTypeOK, Idle
    <2>3. \A n \in Slots : /\ queue'[n].item = queue[n].item
                           /\ OnQueue(n)' => OnQueue(n)
      BY <2>1 DEF ReceiveMessage, Receive, Message
    <2> QED  BY <2>2, <2>3, OtherReplicas
  <1>2. CASE DeleteMessage(p)
    <2>1. At(p, "idle")'
      BY <1>2 DEF DeleteMessage, Exit, ProcTypeOK, Idle
    <2>2. \A n \in Slots : queue'[n] = queue[n] \/ queue'[n] = Free
      BY <1>2 DEF DeleteMessage, Delete
    <2> QED  BY <2>1, <2>2, OtherReplicas DEF Free
  <1>3. CASE ~(\E m \in Slots : ReceiveMessage(p, m)) /\ ~DeleteMessage(p)
    BY <1>3, ReplicaEffect DEF Idle
  <1> QED  BY <1>1, <1>2, <1>3

\* No step of a replica or an operator takes a row away.
LEMMA RowsStay ==
    ASSUME StoreTypeOK, NEW i \in Items, docs[i].status # Absent,
           OperatorSteps \/ \E p \in Procs : ProcessorStep(p) \/ ProcessorFault(p)
    PROVE  docs'[i].status # Absent
  <1> USE DEF StoreTypeOK
  <1>1. ASSUME NEW j, NEW s \in DocumentStatus, SetStatus(j, s)
        PROVE  docs'[i].status # Absent
    BY <1>1 DEF SetStatus, DocumentStatus, Absent, Row
  <1>2. CASE OperatorSteps
    <2>1. CASE \E j \in Items : SetOverride(j)
      BY <2>1 DEF SetOverride, Row
    <2>2. CASE \E j \in Items : ResetPending(j)
      BY <1>1, <2>2 DEF ResetPending, DocumentStatus
    <2> QED  BY <1>2, <2>1, <2>2 DEF OperatorSteps
  <1>3. ASSUME NEW p \in Procs, ProcessorStep(p) \/ ProcessorFault(p)
        PROVE  docs'[i].status # Absent
    <2>1. CASE UNCHANGED docs
      BY <2>1
    <2>2. CASE WriteResult(p)
      <3>1. \/ UNCHANGED docs
            \/ docs' = [docs EXCEPT ![proc[p].item].category = proc[p].data,
                                    ![proc[p].item].status = "completed"]
        BY <2>2 DEF WriteResult
      <3> QED  BY <3>1 DEF Absent, Row
    <2>3. CASE ~WriteResult(p)
      BY <1>1, <1>3, <2>1, <2>3
      DEF ProcessorStep, ReceiveMessage, LoadDocument, RecordOverride, MarkProcessing,
          SetStatusIfDiffers, CheckHash, Download, Classify, RecordSkipped,
          RecordFailure, LogCompleted, DeleteMessage, DeleteRefused, ProcessorFault,
          AttemptFails, CommitFails, DeleteFails, Crash, storeVars, DocumentStatus
    <2> QED  BY <2>2, <2>3
  <1> QED  BY <1>2, <1>3

----------------------------------------------------------------------------
(***************************************************************************)
(* The pipeline with any walker                                            *)
(***************************************************************************)

\* The next-state relation as the actions of the system, for case analysis.
LEMMA PipelineCases ==
    ASSUME [PipelineNext]_pipelineVars
    PROVE  \/ AnyWalkerStep /\ UNCHANGED proc
           \/ AnyChange
           \/ OperatorSteps /\ UNCHANGED <<queue, enq, proc>>
           \/ QueueSteps /\ UNCHANGED <<storeVars, enq, proc>>
           \/ \E p \in Procs : (ProcessorStep(p) \/ ProcessorFault(p)) /\ UNCHANGED enq
           \/ UNCHANGED pipelineVars
  BY DEF PipelineNext, Replica, OperatorSteps, QueueSteps, LeaseEnds, LeaseTooShort,
         MessageExpires

\* Whatever a walker does by way of the enqueuer keeps the types and is about a file.
LEMMA AnyWalkerType ==
    ASSUME SharedInv, AnyWalkerStep, UNCHANGED proc
    PROVE  SharedInv'
  <1>0. SharedTypeOK /\ Named
    BY DEF SharedInv
  <1>1. CASE HandsOver
    BY <1>0, <1>1
    DEF HandsOver, EnqueueBegin, SharedInv, SharedTypeOK, EnvTypeOK, StoreTypeOK,
        QueueTypeOK, EnqTypeOK, ProcTypeOK, Named, OnQueue, At, envVars, storeVars
  <1>2. CASE EnqueueCommit
    <2>1. SharedTypeOK'
      BY <1>0, <1>2, CommitType
    <2> QED
      BY <1>0, <1>2, <2>1
      DEF EnqueueCommit, SharedInv, SharedTypeOK, EnqTypeOK, Named, OnQueue, At
  <1>3. CASE Sends
    <2>1. QueueTypeOK' /\ Named'
      BY <1>0, <1>3, SendType, SendNamed DEF Sends, EnqueueSend, SharedTypeOK
    <2> QED
      BY <1>0, <1>3, <2>1
      DEF Sends, EnqueueSend, NoCall, SharedInv, SharedTypeOK, EnvTypeOK, StoreTypeOK,
          EnqTypeOK, ProcTypeOK, envVars, storeVars
  <1>4. CASE KeepsBooks
    BY <1>0, <1>4
    DEF KeepsBooks, SharedInv, SharedTypeOK, EnvTypeOK, StoreTypeOK, QueueTypeOK,
        EnqTypeOK, ProcTypeOK, Named, OnQueue, At, envVars
  <1>5. CASE SourceFails \/ SendUnsure \/ Dies
    <2>1. QueueTypeOK' /\ Named'
      <3>1. CASE UNCHANGED queue
        BY <1>0, <1>5, <3>1
        DEF SourceFails, SendUnsure, Dies, NoCall, SharedTypeOK, QueueTypeOK, Named,
            OnQueue, At
      <3>2. CASE SendUnsure /\ Send(enq.item, enq.hash)
        BY <1>0, <3>2, SendType, SendNamed DEF SendUnsure, SharedTypeOK
      <3> QED  BY <1>5, <3>1, <3>2 DEF SourceFails, SendUnsure, Dies
    <2> QED
      BY <1>0, <1>5, <2>1
      DEF SourceFails, SendUnsure, Dies, Fault, NoCall, SharedInv, SharedTypeOK,
          EnvTypeOK, StoreTypeOK, EnqTypeOK, ProcTypeOK, storeVars
  <1> QED  BY <1>1, <1>2, <1>3, <1>4, <1>5 DEF AnyWalkerStep

\* Every step of the pipeline keeps the types, and keeps the work about files.
LEMMA PipelineTypeStep ==
    ASSUME SharedInv, [PipelineNext]_pipelineVars
    PROVE  SharedInv'
  <1>0. SharedTypeOK /\ Named
    BY DEF SharedInv
  <1>1. CASE AnyChange
    BY <1>0, <1>1
    DEF AnyChange, Change, budgets, storeVars, SharedInv, SharedTypeOK, EnvTypeOK,
        StoreTypeOK, QueueTypeOK, EnqTypeOK, ProcTypeOK, Named, OnQueue, At
  <1>2. CASE OperatorSteps /\ UNCHANGED <<queue, enq, proc>>
    BY <1>0, <1>2, OperatorType DEF SharedInv, Named, OnQueue, At
  <1>3. CASE QueueSteps
    BY <1>0, <1>3, QueueType, QueueNamed DEF SharedInv
  <1>4. ASSUME NEW p \in Procs, ProcessorStep(p) \/ ProcessorFault(p), UNCHANGED enq
        PROVE  SharedInv'
    BY <1>0, <1>4, ProcessorStepType, ProcessorFaultType, ReplicaNamed DEF SharedInv
  <1>5. CASE UNCHANGED pipelineVars
    BY <1>0, <1>5
    DEF pipelineVars, envVars, storeVars, SharedInv, SharedTypeOK, EnvTypeOK,
        StoreTypeOK, QueueTypeOK, EnqTypeOK, ProcTypeOK, Named, OnQueue, At
  <1> QED  BY PipelineCases, AnyWalkerType, <1>1, <1>2, <1>3, <1>4, <1>5

\* Whatever walker feeds the pipeline, its rows, messages, calls and executions have
\* their types and are about files of the library.
THEOREM PipelineTypes == PipelineSpec => []SharedInv
  <1>1. PipelineInit => SharedInv
    BY EnvironmentAssumption
    DEF PipelineInit, EnvInit, StoreInit, QueueInit, EnqInit, ProcInit, SharedInv,
        SharedTypeOK, Named, OnQueue, At, EnvTypeOK, StoreTypeOK, QueueTypeOK, EnqTypeOK,
        ProcTypeOK, Contents, NoRow, Row, SyncRow, WalkStatus, Token, Free, Message,
        NoCall, Idle, Execution, Steps
  <1>2. SharedInv /\ [PipelineNext]_pipelineVars => SharedInv'
    BY PipelineTypeStep
  <1> QED  BY <1>1, <1>2, PTL DEF PipelineSpec
============================================================================
