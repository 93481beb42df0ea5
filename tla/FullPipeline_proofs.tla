------------------------ MODULE FullPipeline_proofs ------------------------
(***************************************************************************)
(* Theorems about FullPipeline for every directory or container, set of    *)
(* replicas and budget of changes, faults and interventions: like the      *)
(* cloud pipeline it implements the pipeline with any walker.              *)
(***************************************************************************)
EXTENDS FullPipeline, Work_proofs

\* Every file of a directory or container has a hash, and so has every listing.
\* TypeOK alone would let the walker hand over a file without one.
Hashed == \A i \in Items : content[i] # Hashless /\ scan.listed[i] # Hashless

TypeInv == TypeOK /\ Named /\ Hashed

HistoryTypeOK == past \in [Items -> SUBSET Contents] /\ lost \subseteq Items

\* What FullPipeline adds to the types both deployments share.
LEMMA TypeParts ==
    /\ TypeOK <=> SharedTypeOK /\ ScanTypeOK /\ HistoryTypeOK
    /\ TypeInv <=> SharedInv /\ ScanTypeOK /\ HistoryTypeOK /\ Hashed
  BY DEF TypeInv, TypeOK, SharedInv, SharedTypeOK, HistoryTypeOK

\* The next-state relation as the actions of the system, for case analysis.
LEMMA NextCases ==
    ASSUME [Next]_vars
    PROVE  \/ ScanStep /\ UNCHANGED proc
           \/ ScanFault /\ UNCHANGED proc
           \/ /\ UNCHANGED scan
              /\ \/ LibraryChanges \/ QueueSteps \/ OperatorSteps
                 \/ \E p \in Procs : (ProcessorStep(p) \/ ProcessorFault(p)) /\ UNCHANGED enq
           \/ UNCHANGED vars
  BY DEF Next, Walker, Queue, Operator, Replicas, Replica

\* Every step keeps the types of the history variables.
LEMMA HistoryType ==
    ASSUME HistoryTypeOK, [Next]_vars
    PROVE  HistoryTypeOK'
  <1> USE DEF HistoryTypeOK
  <1>1. CASE LibraryChanges
    BY <1>1, EnvironmentAssumption DEF LibraryChanges, Contents
  <1>2. CASE Walker \/ Queue \/ Operator
    BY <1>2 DEF Walker, Queue, Operator
  <1>3. CASE Replicas \/ UNCHANGED vars
    BY <1>3 DEF Replicas, vars, history
  <1> QED  BY <1>1, <1>2, <1>3 DEF Next

\* A walk's hash for a file it can read is a hash.
LEMMA HashNowType ==
    ASSUME TypeInv, NEW i \in Items, Readable(i)
    PROVE  HashNow(i) \in Hashes
  BY DEF TypeInv, TypeOK, EnvTypeOK, ScanTypeOK, Scan, Hashed, Contents, Readable, HashNow

----------------------------------------------------------------------------
(***************************************************************************)
(* Refinement                                                              *)
(***************************************************************************)

\* What a full walk does to rows, messages and calls it does by way of the enqueuer
\* (FilesystemWalker.walk, BlobWalker.walk), also with a hash from a stale listing.
LEMMA ScanRefines ==
    ASSUME TypeInv, ScanStep \/ ScanFault
    PROVE  AnyWalkerStep \/ UNCHANGED <<envVars, storeVars, queue, enq>>
  <1>0. sync \in SyncRow /\ scan \in Scan
    BY DEF TypeInv, TypeOK, StoreTypeOK, ScanTypeOK
  <1>1. CASE BeginScan
    BY <1>0, <1>1 DEF BeginScan, SyncRow, WalkStatus, KeepsBooks, AnyWalkerStep
  <1>2. CASE EndScan
    BY <1>0, <1>2 DEF EndScan, SyncRow, WalkStatus, KeepsBooks, AnyWalkerStep
  <1>3. CASE TakeFile
    <2>1. PICK i \in scan.todo : Readable(i) /\ EnqueueBegin(i, HashNow(i))
      BY <1>3 DEF TakeFile
    <2>2. i \in Items
      BY <1>0 DEF Scan
    <2>3. HashNow(i) \in Hashes
      BY <2>1, <2>2, HashNowType
    <2> QED  BY <1>3, <2>1, <2>2, <2>3 DEF TakeFile, HandsOver, AnyWalkerStep
  <1>4. CASE CommitFile
    BY <1>4 DEF CommitFile, AnyWalkerStep
  <1>5. CASE SendFile
    BY <1>5 DEF SendFile, Sends, AnyWalkerStep
  <1>6. CASE ListFiles \/ PassFile \/ FileGone
    BY <1>6 DEF ListFiles, PassFile, FileGone
  <1>7. CASE ReadFails
    BY <1>7 DEF ReadFails, SourceFails, AnyWalkerStep
  <1>8. CASE SendFileFails
    BY <1>8 DEF SendFileFails, SendUnsure, AnyWalkerStep
  <1>9. CASE ScanCrash
    BY <1>9 DEF ScanCrash, Dies, AnyWalkerStep
  <1> QED
    BY <1>1, <1>2, <1>3, <1>4, <1>5, <1>6, <1>7, <1>8, <1>9 DEF ScanStep, ScanFault

\* Every step of the pipeline on a directory or container is a step of the pipeline
\* with any walker, or one that only moves the walker through its listing.
LEMMA Refines ==
    ASSUME TypeInv, [Next]_vars
    PROVE  [PipelineNext]_pipelineVars
  <1>1. CASE Walker
    <2>1. AnyWalkerStep \/ UNCHANGED <<envVars, storeVars, queue, enq>>
      BY <1>1, ScanRefines DEF Walker
    <2> QED  BY <1>1, <2>1 DEF Walker, PipelineNext, pipelineVars
  <1>2. CASE LibraryChanges
    BY <1>2 DEF LibraryChanges, AnyChange, Contents, PipelineNext
  <1>3. CASE Queue \/ Operator \/ Replicas
    BY <1>3 DEF Queue, Operator, Replicas, PipelineNext
  <1>4. CASE UNCHANGED vars
    BY <1>4 DEF vars, pipelineVars
  <1> QED  BY <1>1, <1>2, <1>3, <1>4 DEF Next

\* Every step keeps the type of the walk, and every file and listing with a hash.
LEMMA ScanType ==
    ASSUME TypeInv, [Next]_vars
    PROVE  ScanTypeOK' /\ Hashed'
  <1>0. /\ scan \in Scan /\ Hashed
        /\ content \in [Items -> Contents]
        /\ enq.pc = "send" => enq.item \in Items
    BY DEF TypeInv, TypeOK, ScanTypeOK, EnvTypeOK, Named
  <1> USE EnvironmentAssumption DEF ScanTypeOK, Hashed, Contents, Gone, Hashless
  <1>1. CASE ListFiles
    <2>1. PICK stamped \in SUBSET Items :
              scan' = [pc |-> "files",
                      todo |-> {i \in Items : IsSupported(i) /\ content[i] # Gone},
                      listed |-> [i \in Items |-> StoredHash(i, stamped)]]
      BY <1>1 DEF ListFiles
    <2>2. \A i \in Items : StoredHash(i, stamped) \in Contents \ {Hashless}
      BY <1>0 DEF StoredHash
    <2>3. scan' \in Scan /\ \A i \in Items : scan'.listed[i] # Hashless
      BY <2>1, <2>2 DEF Scan
    <2> QED  BY <1>0, <1>1, <2>3 DEF ListFiles, envVars
  <1>2. ASSUME NEW i \in Items, Visited(i), UNCHANGED content
        PROVE  ScanTypeOK' /\ Hashed'
    BY <1>0, <1>2 DEF Visited, Scan
  <1>3. CASE PassFile \/ SendFile
    <2>1. PICK i \in Items : Visited(i)
      BY <1>0, <1>3 DEF PassFile, SendFile, EnqueueSend, Scan
    <2> QED  BY <1>2, <1>3, <2>1 DEF PassFile, SendFile, envVars
  <1>4. CASE FileGone \/ EndScan \/ ScanFault
    <2>1. scan' = NoScan /\ UNCHANGED content
      BY <1>4 DEF FileGone, EndScan, ScanFault, ReadFails, SendFileFails, ScanCrash, Fault,
                  envVars
    <2> QED  BY <1>0, <2>1 DEF NoScan, Nothing, Scan
  <1>5. CASE BeginScan
    BY <1>0, <1>5 DEF BeginScan, Scan, envVars
  <1>6. CASE LibraryChanges /\ UNCHANGED scan
    <2>1. PICK i \in Items, c \in Hashes \cup {Gone} : Change(i, c)
      BY <1>6 DEF LibraryChanges
    <2> QED  BY <1>0, <1>6, <2>1 DEF Change
  <1>7. CASE UNCHANGED <<scan, content>>
    BY <1>0, <1>7
  <1>8. ASSUME NEW p \in Procs, ProcessorStep(p) \/ ProcessorFault(p)
        PROVE  UNCHANGED content
    BY <1>8
    DEF ProcessorStep, ReceiveMessage, LoadDocument, RecordOverride, MarkProcessing,
        CheckHash, Download, Classify, RecordSkipped, RecordFailure, WriteResult,
        LogCompleted, DeleteMessage, DeleteRefused, ProcessorFault, AttemptFails,
        CommitFails, DeleteFails, Crash, Fault, envVars
  <1>9. UNCHANGED content \/ LibraryChanges
    BY NextCases, <1>8
    DEF ScanStep, BeginScan, ListFiles, PassFile, TakeFile, CommitFile, EnqueueCommit,
        SendFile, FileGone, EndScan, ScanFault, ReadFails, SendFileFails, ScanCrash,
        Fault, QueueSteps, LeaseEnds, LeaseTooShort, MessageExpires, OperatorSteps,
        SetOverride, ResetPending, Operation, envVars, vars
  <1> QED
    BY <1>1, <1>3, <1>4, <1>5, <1>6, <1>7, <1>9, NextCases
    DEF ScanStep, TakeFile, CommitFile, vars

\* The inductive type invariant holds in every behaviour: the candidates, messages and
\* executions of a full walk are about files of the library and carry hashes.
THEOREM TypeInvariant == Spec => []TypeInv
  <1>1. Init => TypeInv
    BY EnvironmentAssumption
    DEF Init, EnvInit, StoreInit, QueueInit, EnqInit, ScanInit, ProcInit, TypeInv,
        TypeOK, Named, Hashed, OnQueue, At, EnvTypeOK, StoreTypeOK, QueueTypeOK,
        EnqTypeOK, ScanTypeOK, ProcTypeOK, Contents, NoRow, Row, SyncRow, WalkStatus,
        Token, Free, Message, NoCall, NoScan, Nothing, Scan, Idle, Execution, Steps, Gone,
        Hashless
  <1>2. TypeInv /\ [Next]_vars => TypeInv'
    <2> SUFFICES ASSUME TypeInv, [Next]_vars PROVE TypeInv'
      OBVIOUS
    <2>1. SharedInv /\ HistoryTypeOK /\ [PipelineNext]_pipelineVars
      BY TypeParts, Refines
    <2>2. SharedInv' /\ ScanTypeOK' /\ Hashed' /\ HistoryTypeOK'
      BY <2>1, PipelineTypeStep, ScanType, HistoryType
    <2> QED  BY <2>2 DEF TypeInv, TypeOK, SharedInv, SharedTypeOK, HistoryTypeOK
  <1> QED  BY <1>1, <1>2, PTL DEF Spec

\* Every variable of the pipeline on a directory or container has its type.
THEOREM TypeCorrect == Spec => []TypeOK
  <1>1. TypeInv => TypeOK
    BY DEF TypeInv
  <1> QED  BY <1>1, TypeInvariant, PTL

\* The pipeline on a directory or container implements the pipeline with any walker.
THEOREM FullImplementsPipeline == Spec => PipelineSpec
  <1>1. Init => PipelineInit
    BY DEF Init, PipelineInit
  <1>2. TypeInv /\ [Next]_vars => [PipelineNext]_pipelineVars
    BY Refines
  <1> QED  BY <1>1, <1>2, TypeInvariant, PTL DEF Spec, PipelineSpec

----------------------------------------------------------------------------
(***************************************************************************)
(* What the pipeline on a directory or container inherits                  *)
(***************************************************************************)

\* A message sent by a full walk has its row, also when the hash in it came from a
\* stale listing, and no row reads completed without a label.
THEOREM FullRows == Spec => [](MessageHasRow /\ CompletedIsLabelled)
  BY FullImplementsPipeline, MessagesHaveRows, CompletedHasLabel, PTL

\* Nothing the replicas record about a file of a directory escapes the audit trail.
THEOREM FullAudit ==
    ASSUME NoExpiry
    PROVE  Spec => []SettledIsAudited
  BY NoExpiry, FullImplementsPipeline, SettledAudited, PTL

\* And no row of a directory is stranded in flight, or failed without a retry, while
\* messages stay with their replicas.
THEOREM FullWork ==
    ASSUME NoExpiry, NoLease, SendLands
    PROVE  Spec => [](InFlightHasWork /\ FailedHasMessage)
  BY NoExpiry, NoLease, SendLands, FullImplementsPipeline, InFlightWorked, FailedRetried,
     PTL

\* Nor is it stranded when a message may reappear under a live replica and nobody
\* labels rows by hand.
THEOREM FullOwned ==
    ASSUME NoExpiry, SendLands, NoOverride, OneLoss
    PROVE  Spec => []InFlightIsOwned
  BY NoExpiry, SendLands, NoOverride, OneLoss, FullImplementsPipeline, InFlightOwned, PTL
============================================================================
