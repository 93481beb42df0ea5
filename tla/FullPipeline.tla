---------------------------- MODULE FullPipeline ---------------------------
(***************************************************************************)
(* The pipeline on a mounted directory or a blob container: the walker     *)
(* that enumerates everything, and the same replicas, queue and store as   *)
(* DeltaPipeline.                                                          *)
(***************************************************************************)
EXTENDS FullWalker, Pipeline

CONSTANT Recurring  \* whether a file may come back to a content it had before

ASSUME FullPipelineAssumption == Recurring \in BOOLEAN

VARIABLES
    past,   \* history: past[i] is the set of contents file i has had
    lost    \* history: the files a message was lost for, until their row is reset

history == <<past, lost>>
vars    == <<envVars, storeVars, queue, enq, scan, proc, history>>

Init ==
    /\ EnvInit /\ StoreInit /\ QueueInit /\ EnqInit /\ ScanInit /\ ProcInit
    /\ past = [i \in Items |-> {}] /\ lost = {}

\* Every file of a directory or container has a hash.
LibraryChanges ==
    \E i \in Items, c \in Hashes \cup {Gone} :
        /\ Recurring \/ c \notin past[i] \ {content[i], Gone}
        /\ Change(i, c)
        /\ past' = [past EXCEPT ![i] = @ \cup {c}]
        /\ UNCHANGED <<storeVars, queue, enq, proc, lost>>

\* A walk that ends with a row committed and its message not sent.
Walker ==
    /\ ScanStep \/ ScanFault
    /\ lost' = lost \cup {i \in Items :
                   SendPending(i) /\ enq' = NoCall /\ queue' = queue}
    /\ UNCHANGED <<proc, past>>

\* A message that expires.
Queue ==
    /\ QueueSteps
    /\ lost' = lost \cup {i \in Items : About(i) # {} /\ About(i)' # About(i)}
    /\ UNCHANGED past

\* A row that is reset.
Operator ==
    /\ OperatorSteps
    /\ lost' = lost \ {i \in Items : docs'[i].status = "pending"}
    /\ UNCHANGED past

Replicas == (\E p \in Procs : Replica(p)) /\ UNCHANGED history

Next ==
    \/ Walker
    \/ (LibraryChanges \/ Queue \/ Operator \/ Replicas) /\ UNCHANGED scan

Spec == Init /\ [][Next]_vars

\* As in DeltaPipeline: cron restarts the walker, KEDA starts replicas,
\* visibility timeouts run out, and no visible message is passed over for ever.
Fairness ==
    /\ WF_vars(ScanStep /\ UNCHANGED <<proc, history>>)
    /\ \A p \in Procs :
          WF_vars(ProcessorStep(p) /\ UNCHANGED <<enq, scan, history>>)
    /\ \A m \in Slots : /\ WF_vars(LeaseEnds(m) /\ UNCHANGED <<scan, history>>)
                         /\ SF_vars(Delivered(m) /\ UNCHANGED <<scan, history>>)

FairSpec == Spec /\ Fairness

(***************************************************************************)
(* Properties                                                              *)
(***************************************************************************)

\* Every variable has its type.
TypeOK ==
    /\ EnvTypeOK /\ StoreTypeOK /\ QueueTypeOK
    /\ EnqTypeOK /\ ScanTypeOK /\ ProcTypeOK
    /\ past \in [Items -> SUBSET Contents] /\ lost \subseteq Items

\* The row is settled for the bytes the file has now: it carries their label, or a
\* person's, or was skipped because no extractor reads their type.  A late message
\* about an older version may leave a labelled row skipped.
Settled(i) ==
    /\ docs[i].content_hash = content[i]
    /\ docs[i].status \in {"completed", "skipped"}
    /\ \/ docs[i].override
       \/ docs[i].category = content[i]
       \/ docs[i].status = "skipped" /\ content[i] \in Unsupported


\* And every file an extractor reads ends up classified: a file skipped because it
\* changed under its message is queued again by the next walk.
EventuallyClassified ==
    \A i \in Items \ Unlisted :
        <>[](content[i] \in Hashes \ (Unsupported \cup Poison)
                => docs[i].status = "completed")
============================================================================
