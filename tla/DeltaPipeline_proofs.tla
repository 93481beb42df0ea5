------------------------ MODULE DeltaPipeline_proofs -----------------------
(***************************************************************************)
(* Theorems about DeltaPipeline for every library, every number of         *)
(* replicas and every budget of changes, faults and interventions: the     *)
(* cloud pipeline implements the pipeline with any walker, and so inherits *)
(* what Documents_proofs and Work_proofs say of that.                      *)
(***************************************************************************)
EXTENDS DeltaPipeline, Work_proofs

\* The next-state relation as the actions of the system, for case analysis.
LEMMA NextCases ==
    ASSUME [Next]_vars
    PROVE  \/ LibraryChanges /\ UNCHANGED walkVars
           \/ OperatorSteps /\ UNCHANGED walkVars
           \/ QueueSteps /\ UNCHANGED walkVars
           \/ WalkerStep /\ UNCHANGED proc
           \/ WalkerFault /\ UNCHANGED proc
           \/ \E p \in Procs : ProcessorStep(p) /\ UNCHANGED <<enq, walkVars>>
           \/ \E p \in Procs : ProcessorFault(p) /\ UNCHANGED <<enq, walkVars>>
           \/ UNCHANGED vars
  BY DEF Next, Walker, Others, Replica

----------------------------------------------------------------------------
(***************************************************************************)
(* Types                                                                   *)
(***************************************************************************)

\* TypeOK alone is not inductive: a replica could load the row of nothing.
TypeInv == TypeOK /\ Named

\* What DeltaPipeline adds to the types both deployments share.
LEMMA TypeParts == /\ TypeOK <=> SharedTypeOK /\ WalkTypeOK
                   /\ TypeInv <=> SharedInv /\ WalkTypeOK
  BY DEF TypeInv, TypeOK, SharedInv, SharedTypeOK

\* The position a walk starts from is a position of the change log
\* (Walker._start_url).
LEMMA StartPosType ==
    ASSUME StoreTypeOK
    PROVE  StartPos(sync) \in Nat
  BY DEF StoreTypeOK, SyncRow, Token, StartPos

----------------------------------------------------------------------------
(***************************************************************************)
(* Refinement                                                              *)
(***************************************************************************)

\* What the walker does to rows, messages and calls it does by way of the enqueuer
\* (Walker._process_item), and of the database it touches its own row besides.
LEMMA WalkerRefines ==
    ASSUME TypeInv, WalkerStep \/ WalkerFault
    PROVE  AnyWalkerStep \/ UNCHANGED <<envVars, storeVars, queue, enq>>
  <1>0. StoreTypeOK /\ WalkTypeOK
    BY DEF TypeInv, TypeOK
  <1>1. CASE BeginWalk \/ Interrupt \/ Complete
    <2>1. walk.next \in Nat
      BY <1>0 DEF WalkTypeOK, Walk
    <2>2. sync \in SyncRow
      BY <1>0 DEF StoreTypeOK
    <2>3. CASE BeginWalk
      BY <2>2, <2>3 DEF BeginWalk, SyncRow, WalkStatus, KeepsBooks, AnyWalkerStep
    <2>4. CASE Interrupt
      BY <2>1, <2>2, <2>4
      DEF Interrupt, SyncRow, WalkStatus, Token, KeepsBooks, AnyWalkerStep
    <2>5. CASE Complete
      BY <2>1, <2>5 DEF Complete, SyncRow, WalkStatus, Token, KeepsBooks, AnyWalkerStep
    <2> QED  BY <1>1, <2>3, <2>4, <2>5
  <1>2. CASE TakeItem
    <2>1. PICK e \in walk.todo : e.hash \in Hashes /\ EnqueueBegin(e.item, e.hash)
      BY <1>2 DEF TakeItem
    <2>2. e.item \in Items
      BY <1>0 DEF WalkTypeOK, Walk, Entry
    <2> QED  BY <1>2, <2>1, <2>2 DEF TakeItem, HandsOver, AnyWalkerStep
  <1>3. CASE CommitItem
    BY <1>3 DEF CommitItem, AnyWalkerStep
  <1>4. CASE SendItem
    BY <1>4 DEF SendItem, Sends, AnyWalkerStep
  <1>5. CASE FetchPage \/ SkipItem \/ NextPage
    BY <1>5 DEF FetchPage, SkipItem, NextPage
  <1>6. CASE FetchFails
    BY <1>6 DEF FetchFails, SourceFails, AnyWalkerStep
  <1>7. CASE SendFails
    BY <1>7 DEF SendFails, SendUnsure, AnyWalkerStep
  <1>8. CASE WalkerCrash
    BY <1>8 DEF WalkerCrash, Dies, AnyWalkerStep
  <1> QED
    BY <1>1, <1>2, <1>3, <1>4, <1>5, <1>6, <1>7, <1>8 DEF WalkerStep, WalkerFault

\* Every step of the cloud pipeline is a step of the pipeline with any walker, or one
\* that only moves the walker's position in the change log.
LEMMA Refines ==
    ASSUME TypeInv, [Next]_vars
    PROVE  [PipelineNext]_pipelineVars
  <1>1. CASE Walker
    <2>1. AnyWalkerStep \/ UNCHANGED <<envVars, storeVars, queue, enq>>
      BY <1>1, WalkerRefines DEF Walker
    <2> QED  BY <1>1, <2>1 DEF Walker, PipelineNext, pipelineVars
  <1>2. CASE Others
    BY <1>2 DEF Others, LibraryChanges, AnyChange, PipelineNext
  <1>3. CASE UNCHANGED vars
    BY <1>3 DEF vars, pipelineVars
  <1> QED  BY <1>1, <1>2, <1>3 DEF Next

\* Every step keeps the types of the walk and of its history.
LEMMA WalkType ==
    ASSUME TypeInv, [Next]_vars
    PROVE  WalkTypeOK'
  <1> USE DEF TypeInv, TypeOK, WalkTypeOK, walkVars, Walk
  <1>0. EnvTypeOK /\ StoreTypeOK
    OBVIOUS
  <1>1. CASE BeginWalk
    BY <1>1, StartPosType DEF BeginWalk, NoWalk
  <1>2. CASE FetchPage
    <2>1. PICK to \in walk.pos .. seq :
              walk' = [walk EXCEPT !.pc = "items", !.next = to,
                          !.todo = Page(walk.pos, to), !.final = (to = seq)]
      BY <1>2 DEF FetchPage
    <2>2. Page(walk.pos, to) \subseteq Entry
      BY <1>0 DEF EnvTypeOK, Page, Entry
    <2>3. to \in Nat
      BY <1>0 DEF EnvTypeOK
    <2> QED  BY <1>2, <2>1, <2>2, <2>3 DEF FetchPage
  <1>3. CASE SkipItem \/ SendItem
    <2>1. PICK e \in walk.todo : Dealt(e)
      BY <1>3 DEF SkipItem, SendItem
    <2> QED  BY <2>1 DEF Dealt, Entry
  <1>4. CASE NextPage
    BY <1>4 DEF NextPage
  <1>5. CASE Interrupt \/ Complete \/ WalkerFault
    <2>1. walk' = NoWalk /\ UNCHANGED offered
      BY <1>5 DEF Interrupt, Complete, WalkerFault, FetchFails, SendFails, WalkerCrash
    <2> QED  BY <2>1 DEF NoWalk
  <1>6. CASE UNCHANGED walkVars
    BY <1>6
  <1> QED
    BY <1>1, <1>2, <1>3, <1>4, <1>5, <1>6, NextCases
    DEF WalkerStep, TakeItem, CommitItem, vars

\* The inductive type invariant holds in every behaviour: the walker adds the types of
\* its own position to what every walker keeps.
THEOREM TypeInvariant == Spec => []TypeInv
  <1>1. Init => TypeInv
    BY EnvironmentAssumption
    DEF Init, EnvInit, StoreInit, QueueInit, EnqInit, WalkInit, ProcInit, TypeInv,
        TypeOK, Named, OnQueue, At, EnvTypeOK, StoreTypeOK, QueueTypeOK, EnqTypeOK,
        WalkTypeOK, ProcTypeOK, Contents, NoRow, Row, SyncRow, WalkStatus, Token, Free,
        Message, NoCall, NoWalk, Walk, Idle, Execution, Steps
  <1>2. TypeInv /\ [Next]_vars => TypeInv'
    <2> SUFFICES ASSUME TypeInv, [Next]_vars PROVE TypeInv'
      OBVIOUS
    <2>1. SharedInv /\ [PipelineNext]_pipelineVars
      BY TypeParts, Refines
    <2>2. SharedInv' /\ WalkTypeOK'
      BY <2>1, PipelineTypeStep, WalkType
    <2> QED  BY <2>2 DEF TypeInv, TypeOK, SharedInv, SharedTypeOK
  <1> QED  BY <1>1, <1>2, PTL DEF Spec

\* Every variable has its type in every behaviour.
THEOREM TypeCorrect == Spec => []TypeOK
  <1>1. TypeInv => TypeOK
    BY DEF TypeInv
  <1> QED  BY <1>1, TypeInvariant, PTL

\* The cloud pipeline implements the pipeline with any walker: its pages, budgets,
\* tokens and failed requests are invisible to the rows, the messages and the replicas.
THEOREM DeltaImplementsPipeline == Spec => PipelineSpec
  <1>1. Init => PipelineInit
    BY DEF Init, PipelineInit
  <1>2. TypeInv /\ [Next]_vars => [PipelineNext]_pipelineVars
    BY Refines
  <1> QED  BY <1>1, <1>2, TypeInvariant, PTL DEF Spec, PipelineSpec

----------------------------------------------------------------------------
(***************************************************************************)
(* What the cloud pipeline inherits                                        *)
(***************************************************************************)

\* No replica of the cloud pipeline looks up a row that is not there, and none of its
\* rows reads completed without a label.
THEOREM DeltaRows == Spec => [](MessageHasRow /\ CompletedIsLabelled)
  BY DeltaImplementsPipeline, MessagesHaveRows, CompletedHasLabel, PTL

\* In the cloud pipeline a person's label is never overwritten.
THEOREM DeltaOverrides == Spec => OverrideStands
  <1> DEFINE Keeps == \A i \in Items : KeepsOverridden(i)
  <1>1. [Keeps]_pipelineVars => [Keeps]_vars
    BY DEF KeepsOverridden, pipelineVars, storeVars
  <1> QED
    BY <1>1, DeltaImplementsPipeline, OverridesStand, PTL DEF OverrideStands

\* Nothing the cloud pipeline records escapes the audit trail.
THEOREM DeltaAudit ==
    ASSUME NoExpiry
    PROVE  Spec => []SettledIsAudited
  BY NoExpiry, DeltaImplementsPipeline, SettledAudited, PTL

\* While messages stay with their replicas it neither strands a row in flight nor
\* forgets a failed one.
THEOREM DeltaWork ==
    ASSUME NoExpiry, NoLease, SendLands
    PROVE  Spec => [](InFlightHasWork /\ FailedHasMessage)
  BY NoExpiry, NoLease, SendLands, DeltaImplementsPipeline, InFlightWorked, FailedRetried,
     PTL

\* Nor does it strand a row in flight when a message may reappear under a live replica
\* and nobody labels rows by hand.
THEOREM DeltaOwned ==
    ASSUME NoExpiry, SendLands, NoOverride, OneLoss
    PROVE  Spec => []InFlightIsOwned
  BY NoExpiry, SendLands, NoOverride, OneLoss, DeltaImplementsPipeline, InFlightOwned, PTL

\* When no attempt is lost between two of its commits, every label is in the audit trail
\* or about to be.
THEOREM DeltaResults ==
    ASSUME NoLoss
    PROVE  Spec => []ResultIsAudited
  BY NoLoss, DeltaImplementsPipeline, ResultAudited, PTL

\* Its replicas delete a message on a terminal outcome only (Processor.run_once).
THEOREM DeltaDeletes ==
    ASSUME NoExpiry, NoLease, SendLands, NoOverride
    PROVE  Spec => DeletedWhenSettled
  <1> DEFINE Settles == \A p \in Procs, m \in Slots : DeletesWhenSettled(p, m)
  <1>1. SharedInv /\ [Settles]_pipelineVars => [Settles]_vars
    <2> SUFFICES ASSUME SharedInv, UNCHANGED proc, NEW p \in Procs, NEW m \in Slots
                 PROVE  DeletesWhenSettled(p, m)
      BY DEF pipelineVars
    <2> QED  BY DEF DeletesWhenSettled, At, Idle
  <1> QED
    BY <1>1, NoExpiry, NoLease, SendLands, NoOverride, DeltaImplementsPipeline,
       DeletedSettled, PipelineTypes, PTL DEF DeletedWhenSettled
============================================================================
