--------------------------- MODULE DeltaPipeline ---------------------------
(***************************************************************************)
(* The cloud pipeline on a SharePoint library: the delta walker and the    *)
(* processor replicas, sharing the state store and the queue, with the     *)
(* library changing underneath, operators editing rows, and faults.        *)
(***************************************************************************)
EXTENDS DeltaWalker, Pipeline

vars == <<envVars, storeVars, queue, enq, walkVars, proc>>

Init == EnvInit /\ StoreInit /\ QueueInit /\ EnqInit /\ WalkInit /\ ProcInit

LibraryChanges ==
    /\ \E i \in Items, c \in Contents : Change(i, c)
    /\ UNCHANGED <<storeVars, queue, enq, proc>>

Walker == (WalkerStep \/ WalkerFault) /\ UNCHANGED proc

Others ==
    \/ LibraryChanges \/ OperatorSteps \/ QueueSteps
    \/ \E p \in Procs : Replica(p)

Next == Walker \/ (Others /\ UNCHANGED walkVars)

Spec == Init /\ [][Next]_vars

(***************************************************************************)
(* Fairness.  The walker is a cron job and KEDA starts a replica for every *)
(* visible message, so both keep taking steps; the queue lets a timeout    *)
(* run out, and hands messages out roughly in the order they become        *)
(* visible, so none waits for ever while others are received again and     *)
(* again.  Changes, interventions and faults need never happen.            *)
(***************************************************************************)
Fairness ==
    /\ WF_vars(WalkerStep /\ UNCHANGED proc)
    /\ \A p \in Procs : WF_vars(ProcessorStep(p) /\ UNCHANGED <<enq, walkVars>>)
    /\ \A m \in Slots : /\ WF_vars(LeaseEnds(m) /\ UNCHANGED walkVars)
                         /\ SF_vars(Delivered(m) /\ UNCHANGED walkVars)

FairSpec == Spec /\ Fairness

(***************************************************************************)
(* Properties                                                              *)
(***************************************************************************)

\* Every variable has its type.
TypeOK ==
    /\ EnvTypeOK /\ StoreTypeOK /\ QueueTypeOK
    /\ EnqTypeOK /\ WalkTypeOK /\ ProcTypeOK

\* No change is lost between walks: every change before the token the next walk
\* starts from has been handed to the enqueuer and finished with, through budget
\* interruptions, failed requests, failed sends and crashes (Walker._interrupt,
\* Walker._complete and Walker._start_url together).
NoChangeSkipped ==
    \A i \in Items : changed[i] <= StartPos(sync) => offered[i] = changed[i]

\* The walker implements the abstract change cursor: whatever pages, budgets,
\* tokens, failures and crashes do, the position the next walk starts from moves
\* forward only, and only over changes that have been dealt with.
Cursor == INSTANCE ChangeCursor WITH handled <- offered, cursor <- StartPos(sync)

ImplementsCursor == Cursor!Spec

\* No replica that loaded the row before a person labelled it overwrites the
\* label afterwards (build_document_upsert, Processor.process).
OverrideStands == [][\A i \in Items : KeepsOverridden(i)]_vars

\* A message is deleted on a terminal outcome only (Processor.run_once).
DeletedWhenSettled ==
    [][\A p \in Procs, m \in Slots : DeletesWhenSettled(p, m)]_vars

\* Every change of the library is eventually dealt with by a walk.
ChangesAreNoticed == \A i \in Items : []<>(offered[i] = changed[i])
============================================================================
