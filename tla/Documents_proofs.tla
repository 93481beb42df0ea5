-------------------------- MODULE Documents_proofs -------------------------
(***************************************************************************)
(* What the documents table keeps through every interleaving of producer,  *)
(* replicas and operators: rows outlive the messages about them, a manual  *)
(* label stands, and no row reads completed without a label.               *)
(***************************************************************************)
EXTENDS Pipeline_proofs

\* A replica's picture of its document: the override path is taken for a labelled
\* row only, and past the download there are bytes to classify.
PathInv ==
    \A p \in Procs :
        /\ At(p, "override") => docs[proc[p].item].override
        /\ proc[p].pc \in {"classify", "write"} => proc[p].data # None

RowInv == SendHasRow /\ MessageHasRow /\ PathInv /\ CompletedIsLabelled

----------------------------------------------------------------------------
\* The ways a step can change a row.
Labelled(i)       == docs'[i] = [docs[i] EXCEPT !.override = TRUE]
Queued(i)         == docs'[i] = [docs[i] EXCEPT !.status = "queued",
                                                !.content_hash = enq.hash]
Classified(i, d)  == docs'[i] = [docs[i] EXCEPT !.category = d, !.status = "completed"]
Moved(i, s)       == docs'[i] = [docs[i] EXCEPT !.status = s]

RowEffect(i) ==
    \/ UNCHANGED docs[i]
    \/ Labelled(i)
    \/ Queued(i)
    \/ \E s \in DocumentStatus :
          Moved(i, s) /\ (s = "completed" => docs[i].override)
    \/ \E d : Classified(i, d) /\ d # None /\ ~docs[i].override

\* SetStatus changes the status of one row and nothing else.
LEMMA SetStatusEffect ==
    ASSUME StoreTypeOK, NEW i, NEW s, SetStatus(i, s), NEW j \in Items
    PROVE  docs'[j] = docs[j] \/ (j = i /\ Moved(j, s))
  BY DEF SetStatus, StoreTypeOK, Moved

\* A walker writes to the documents table through the enqueuer's commit alone.
LEMMA WalkerLeavesRows ==
    ASSUME AnyWalkerStep, ~EnqueueCommit
    PROVE  UNCHANGED <<docs, audit>>
  BY DEF AnyWalkerStep, HandsOver, Sends, KeepsBooks, SourceFails, SendUnsure, Dies,
         storeVars

\* And to the queue through its send.
LEMMA WalkerSends ==
    ASSUME AnyWalkerStep
    PROVE  UNCHANGED queue \/ (enq.pc = "send" /\ Send(enq.item, enq.hash))
  BY DEF AnyWalkerStep, HandsOver, EnqueueCommit, Sends, EnqueueSend, KeepsBooks,
         SourceFails, SendUnsure, Dies

\* What a step can do to a row: the enqueuer queues it, an operator labels or resets it,
\* a replica moves its status, or the UPSERT stores a classification on a row without
\* a manual label.
LEMMA RowEffects ==
    ASSUME SharedInv, PathInv, [PipelineNext]_pipelineVars, NEW i \in Items
    PROVE  RowEffect(i)
  <1> USE DEF SharedInv, SharedTypeOK, StoreTypeOK, RowEffect
  <1>1. CASE AnyChange \/ UNCHANGED storeVars
    BY <1>1 DEF AnyChange, storeVars
  <1>2. CASE OperatorSteps
    <2>1. CASE \E j \in Items : SetOverride(j)
      BY <2>1 DEF SetOverride, Labelled
    <2>2. CASE \E j \in Items : ResetPending(j)
      BY <2>2, SetStatusEffect DEF ResetPending, DocumentStatus
    <2> QED  BY <1>2, <2>1, <2>2 DEF OperatorSteps
  <1>3. CASE EnqueueCommit
    BY <1>3 DEF EnqueueCommit, Queued
  <1>4. CASE AnyWalkerStep /\ ~EnqueueCommit
    BY <1>4, WalkerLeavesRows
  <1>5. ASSUME NEW p \in Procs, ProcessorStep(p)
        PROVE  RowEffect(i)
    <2>1. CASE RecordOverride(p)
      <3>1. docs[proc[p].item].override
        BY <2>1 DEF RecordOverride, PathInv
      <3> QED
        BY <2>1, <3>1, SetStatusEffect
        DEF RecordOverride, SetStatusIfDiffers, DocumentStatus
    <2>2. CASE MarkProcessing(p)
      BY <2>2, SetStatusEffect DEF MarkProcessing, SetStatusIfDiffers, DocumentStatus
    <2>3. CASE RecordSkipped(p)
      BY <2>3, SetStatusEffect DEF RecordSkipped, DocumentStatus
    <2>4. CASE RecordFailure(p)
      BY <2>4, SetStatusEffect DEF RecordFailure, DocumentStatus
    <2>5. CASE WriteResult(p)
      <3>1. proc[p].data # None
        BY <2>5 DEF WriteResult, PathInv, At
      <3>2. CASE docs[proc[p].item].override
        BY <2>5, <3>2 DEF WriteResult
      <3>3. CASE ~docs[proc[p].item].override
        <4>1. docs' = [docs EXCEPT ![proc[p].item].category = proc[p].data,
                                   ![proc[p].item].status = "completed"]
          BY <2>5, <3>3 DEF WriteResult
        <4>2. \/ docs'[i] = docs[i]
              \/ i = proc[p].item /\ Classified(i, proc[p].data)
          BY <4>1 DEF Classified
        <4> QED  BY <3>1, <3>3, <4>2
      <3> QED  BY <3>2, <3>3
    <2>6. CASE ~(\/ RecordOverride(p) \/ MarkProcessing(p) \/ RecordSkipped(p)
                 \/ RecordFailure(p) \/ WriteResult(p))
      BY <1>5, <2>6
      DEF ProcessorStep, ReceiveMessage, LoadDocument, CheckHash, Download, Classify,
          LogCompleted, DeleteMessage, DeleteRefused, storeVars
    <2> QED  BY <2>1, <2>2, <2>3, <2>4, <2>5, <2>6
  <1>6. ASSUME NEW p \in Procs, ProcessorFault(p)
        PROVE  RowEffect(i)
    BY <1>6 DEF ProcessorFault, AttemptFails, CommitFails, DeleteFails, Crash, storeVars
  <1>7. CASE UNCHANGED pipelineVars
    BY <1>7 DEF pipelineVars, storeVars
  <1> QED  BY PipelineCases, <1>1, <1>2, <1>3, <1>4, <1>5, <1>6, <1>7

\* A row is never deleted, a label never taken back, and a completed row has a label.
LEMMA RowSteps ==
    ASSUME SharedInv, RowInv, [PipelineNext]_pipelineVars, NEW i \in Items
    PROVE  /\ docs[i].status # Absent => docs'[i].status # Absent
           /\ KeepsOverridden(i)
           /\ docs'[i].status = "completed" =>
                 docs'[i].category # None \/ docs'[i].override
  <1> docs[i] \in Row
    BY DEF SharedInv, SharedTypeOK, StoreTypeOK
  <1>1. RowEffect(i)
    BY RowEffects DEF RowInv
  <1>2. docs[i].status = "completed" => docs[i].category # None \/ docs[i].override
    BY DEF RowInv, CompletedIsLabelled
  <1> QED
    BY <1>1, <1>2 DEF RowEffect, Labelled, Queued, Classified, Moved, Row,
       DocumentStatus, Absent, KeepsOverridden

\* A replica is on the override path only for a row with a manual label, and reaches
\* the UPSERT only with bytes it has downloaded (Processor.process).
LEMMA PathStep ==
    ASSUME SharedInv, RowInv, NEW p \in Procs, ProcessorStep(p) \/ ProcessorFault(p),
           UNCHANGED enq, [PipelineNext]_pipelineVars
    PROVE  PathInv'
  <1> DEFINE OnPath(r) == /\ At(r, "override") => docs[proc[r].item].override
                          /\ proc[r].pc \in {"classify", "write"} => proc[r].data # None
  <1> USE DEF SharedInv, SharedTypeOK, ProcTypeOK, Execution
  <1>1. ASSUME NEW r \in Procs, r # p PROVE OnPath(r)'
    <2>1. proc'[r] = proc[r]
      BY <1>1, OtherReplicas
    <2>2. At(r, "override") => proc[r].item \in Items
      BY DEF Named, At
    <2> QED
      BY <2>1, <2>2, RowSteps DEF RowInv, PathInv, KeepsOverridden, At
  <1>2. OnPath(p)'
    <2>1. CASE LoadDocument(p)
      <3>1. /\ proc'[p].item = proc[p].item
            /\ proc'[p].pc = IF docs[proc[p].item].override THEN "override" ELSE "mark"
            /\ docs' = docs
        BY <2>1 DEF LoadDocument, storeVars
      <3> QED  BY <3>1 DEF At
    <2>2. CASE Download(p) /\ content[proc[p].item] # Gone
      <3>1. proc'[p].data = content[proc[p].item] /\ proc'[p].pc = "classify"
        BY <2>2 DEF Download
      <3>2. proc[p].item \in Items
        BY <2>2 DEF Download, Named, At
      <3>3. content[proc[p].item] # None
        BY <3>2, EnvironmentAssumption DEF EnvTypeOK, Contents
      <3> QED  BY <3>1, <3>3 DEF At
    <2>3. CASE Classify(p)
      <3>1. proc'[p].data = proc[p].data /\ proc'[p].pc # "override"
        BY <2>3 DEF Classify, GoTo
      <3>2. proc[p].data # None
        BY <2>3 DEF Classify, At, RowInv, PathInv
      <3> QED  BY <3>1, <3>2 DEF At
    <2>4. CASE Download(p) /\ content[proc[p].item] = Gone
      <3>1. proc'[p].pc = "fail"
        BY <2>4 DEF Download, GoTo
      <3> QED  BY <3>1 DEF At
    <2>5. CASE ~(LoadDocument(p) \/ Download(p) \/ Classify(p))
      <3>1. CASE Exit(p) \/ \E m \in Slots : ReceiveMessage(p, m)
        <4>1. CASE Exit(p)
          BY <4>1 DEF Exit, Idle, At
        <4>2. CASE \E m \in Slots : ReceiveMessage(p, m)
          <5>1. proc'[p].pc = "load"
            BY <4>2 DEF ReceiveMessage, Idle
          <5> QED  BY <5>1 DEF At
        <4> HIDE DEF OnPath
        <4> QED  BY <3>1, <4>1, <4>2
      <3>2. CASE \E step : GoTo(p, step) /\ step \notin {"override", "classify", "write"}
        BY <3>2 DEF GoTo, At
      <3>3. CASE ProcessorStep(p)
        BY <2>5, <3>1, <3>2, <3>3
        DEF ProcessorStep, RecordOverride, MarkProcessing, CheckHash, RecordSkipped,
            RecordFailure, WriteResult, LogCompleted, DeleteMessage, DeleteRefused
      <3>4. CASE ProcessorFault(p)
        BY <3>1, <3>2, <3>4
        DEF ProcessorFault, AttemptFails, CommitFails, DeleteFails, Crash
      <3> QED  BY <3>3, <3>4
    <2> HIDE DEF OnPath
    <2> QED  BY <2>1, <2>2, <2>3, <2>4, <2>5
  <1> QED  BY <1>1, <1>2 DEF PathInv

\* What a message or a replica is about after a step, it or another message, replica
\* or the producer's send was about before.
LEMMA Subjects ==
    ASSUME SharedInv, [PipelineNext]_pipelineVars
    PROVE  /\ \A m \in Slots : OnQueue(m)' =>
                 \/ OnQueue(m) /\ queue'[m].item = queue[m].item
                 \/ enq.pc = "send" /\ queue'[m].item = enq.item
           /\ \A p \in Procs : At(p, "idle")' \/
                 \/ ~At(p, "idle") /\ proc'[p].item = proc[p].item
                 \/ \E m \in Slots : OnQueue(m) /\ proc'[p].item = queue[m].item
           /\ enq'.pc = "send" =>
                 \/ enq' = enq
                 \/ EnqueueCommit /\ enq'.item = enq.item
  <1> USE DEF SharedInv, SharedTypeOK, QueueTypeOK, OnQueue, At
  <1>1. CASE AnyChange \/ UNCHANGED <<queue, enq, proc>>
    BY <1>1 DEF AnyChange
  <1>2. CASE QueueSteps /\ UNCHANGED <<storeVars, enq, proc>>
    BY <1>2 DEF QueueSteps, LeaseEnds, LeaseTooShort, MessageExpires, Reappear, Expire,
                Free, Message
  <1>3. CASE EnqueueCommit /\ UNCHANGED proc
    <2>1. UNCHANGED <<queue, proc>> /\ enq'.item = enq.item
      BY <1>3 DEF EnqueueCommit, EnqTypeOK
    <2> QED  BY <1>3, <2>1
  <1>4. CASE AnyWalkerStep /\ ~EnqueueCommit /\ UNCHANGED proc
    <2>1. UNCHANGED queue \/ (enq.pc = "send" /\ Send(enq.item, enq.hash))
      BY <1>4, WalkerSends
    <2>2. enq' = enq \/ enq'.pc # "send"
      BY <1>4 DEF AnyWalkerStep, HandsOver, EnqueueBegin, Sends, EnqueueSend, KeepsBooks,
                  SourceFails, SendUnsure, Dies, NoCall
    <2>3. \A m \in Slots : OnQueue(m)' =>
              \/ OnQueue(m) /\ queue'[m].item = queue[m].item
              \/ enq.pc = "send" /\ queue'[m].item = enq.item
      BY <2>1 DEF Send
    <2> QED  BY <1>4, <2>2, <2>3
  <1>5. CASE \E p \in Procs : (ProcessorStep(p) \/ ProcessorFault(p)) /\ UNCHANGED enq
    BY <1>5, ReplicaSubjects DEF OnQueue, At
  <1>6. CASE UNCHANGED pipelineVars
    BY <1>1, <1>6 DEF pipelineVars
  <1> QED  BY PipelineCases, <1>1, <1>2, <1>3, <1>4, <1>5, <1>6

\* Every step keeps the row invariant.
LEMMA RowInvStep ==
    ASSUME SharedInv, RowInv, [PipelineNext]_pipelineVars
    PROVE  RowInv'
  <1>1. \A i \in Items : docs[i].status # Absent => docs'[i].status # Absent
    BY RowSteps
  <1>2. /\ enq.pc = "send" => enq.item \in Items /\ docs[enq.item].status # Absent
        /\ \A m \in Slots : OnQueue(m) =>
              queue[m].item \in Items /\ docs[queue[m].item].status # Absent
        /\ \A p \in Procs : ~At(p, "idle") =>
              proc[p].item \in Items /\ docs[proc[p].item].status # Absent
    BY DEF RowInv, SendHasRow, MessageHasRow, SharedInv, Named
  <1>3. SendHasRow'
    <2>1. CASE EnqueueCommit
      <3>1. enq.item \in Items /\ enq'.item = enq.item
        BY <2>1 DEF EnqueueCommit, SharedInv, SharedTypeOK, EnqTypeOK, Named
      <3>2. docs'[enq.item].status = "queued"
        BY <2>1, <3>1 DEF EnqueueCommit, SharedInv, SharedTypeOK, StoreTypeOK, Row
      <3> QED  BY <3>1, <3>2 DEF SendHasRow, Absent
    <2>2. CASE ~EnqueueCommit
      BY <1>1, <1>2, <2>2, Subjects DEF SendHasRow
    <2> QED  BY <2>1, <2>2
  <1>4. MessageHasRow'
    BY <1>1, <1>2, Subjects DEF MessageHasRow
  <1>5. PathInv'
    <2>1. ASSUME NEW p \in Procs, ProcessorStep(p) \/ ProcessorFault(p),
                 UNCHANGED enq
          PROVE  PathInv'
      BY <2>1, PathStep
    <2>2. CASE UNCHANGED proc
      <3>1. \A i \in Items : docs[i].override => docs'[i].override
        BY RowSteps DEF KeepsOverridden
      <3> QED  BY <1>2, <2>2, <3>1 DEF RowInv, PathInv, At
    <2>3. UNCHANGED proc \/ \E p \in Procs :
              (ProcessorStep(p) \/ ProcessorFault(p)) /\ UNCHANGED enq
      BY PipelineCases DEF AnyChange, pipelineVars
    <2> QED  BY <2>1, <2>2, <2>3
  <1>6. CompletedIsLabelled'
    BY RowSteps DEF CompletedIsLabelled
  <1> QED  BY <1>3, <1>4, <1>5, <1>6 DEF RowInv

\* The inductive invariant that relates rows, messages and replicas holds in every
\* behaviour.
THEOREM RowInvariant == PipelineSpec => []RowInv
  <1>1. PipelineInit => RowInv
    BY DEF PipelineInit, StoreInit, QueueInit, EnqInit, ProcInit, NoRow, Free, NoCall,
           Idle, RowInv, SendHasRow, MessageHasRow, PathInv, CompletedIsLabelled, OnQueue, At,
           Absent
  <1>2. SharedInv /\ RowInv /\ [PipelineNext]_pipelineVars => RowInv'
    BY RowInvStep
  <1> QED  BY <1>1, <1>2, PipelineTypes, PTL DEF PipelineSpec

\* The producer's row is in the database before its message is on the queue, so no
\* replica ever looks up a document that is not there (Processor._load_document).
THEOREM MessagesHaveRows == PipelineSpec => []MessageHasRow
  <1>1. RowInv => MessageHasRow
    BY DEF RowInv
  <1> QED  BY <1>1, RowInvariant, PTL

\* No row reads completed without a label (Processor._record_override and
\* DatabaseWriter.write between them).
THEOREM CompletedHasLabel == PipelineSpec => []CompletedIsLabelled
  <1>1. RowInv => CompletedIsLabelled
    BY DEF RowInv
  <1> QED  BY <1>1, RowInvariant, PTL

\* A manual label is never overwritten, also by a replica that loaded the row before
\* it was set (build_document_upsert's WHERE clause).
THEOREM OverridesStand ==
    PipelineSpec => [][\A i \in Items : KeepsOverridden(i)]_pipelineVars
  <1>1. SharedInv /\ RowInv /\ [PipelineNext]_pipelineVars
            => [\A i \in Items : KeepsOverridden(i)]_pipelineVars
    BY RowSteps
  <1> QED  BY <1>1, PipelineTypes, RowInvariant, PTL DEF PipelineSpec
============================================================================
