----------------------------- MODULE Processor -----------------------------
(***************************************************************************)
(* The processor job (src/src/processor.py): one replica receives one      *)
(* message, classifies its document and deletes the message, then exits.   *)
(* Between two steps of a replica anything else may happen.  A replica     *)
(* that raises exits without deleting its message.                         *)
(***************************************************************************)
EXTENDS StateStore, WorkQueue

CONSTANTS
    Unsupported,    \* versions whose message names a type no extractor reads
    Poison          \* versions whose extraction or classification always fails

ASSUME ProcessorAssumption == Unsupported \subseteq Hashes /\ Poison \subseteq Hashes

VARIABLE proc       \* proc[p]: the execution of replica p

\* The steps of an execution, each named for what it does next.
Steps == {"idle", "load", "override", "mark", "check", "download", "classify",
          "skip", "unsupported", "fail", "write", "log", "ack"}

\* seen: the row's status when it was loaded; data: the bytes downloaded.
Execution == [pc   : Steps,
              slot : Slots \cup {None},
              item : Items \cup {None},
              hash : Hashes \cup {None},
              seen : DocumentStatus \cup {None},
              data : Hashes \cup {Hashless, None}]

Idle == [pc |-> "idle", slot |-> None, item |-> None, hash |-> None,
         seen |-> None, data |-> None]

ProcInit   == proc = [p \in Procs |-> Idle]
ProcTypeOK == proc \in [Procs -> Execution]

At(p, step)   == proc[p].pc = step
GoTo(p, step) == proc' = [proc EXCEPT ![p].pc = step]
Exit(p)       == proc' = [proc EXCEPT ![p] = Idle]

----------------------------------------------------------------------------
\* run_once: an empty queue is a no-op.
ReceiveMessage(p, m) ==
    /\ At(p, "idle")
    /\ Receive(p, m)
    /\ proc' = [proc EXCEPT ![p] =
           [Idle EXCEPT !.pc = "load", !.slot = m,
                        !.item = queue[m].item, !.hash = queue[m].hash]]
    /\ UNCHANGED <<envVars, storeVars>>

\* The row is read; a manual label decides the path.
LoadDocument(p) ==
    /\ At(p, "load")
    /\ LET row == docs[proc[p].item] IN
          /\ row.status # Absent
          /\ proc' = [proc EXCEPT ![p].seen = row.status,
                         ![p].pc = IF row.override THEN "override" ELSE "mark"]
    /\ UNCHANGED <<envVars, storeVars, queue>>

\* The session writes a column only when it differs from what it loaded.
SetStatusIfDiffers(p, s) ==
    IF proc[p].seen = s THEN UNCHANGED docs ELSE SetStatus(proc[p].item, s)

RecordOverride(p) ==
    /\ At(p, "override")
    /\ SetStatusIfDiffers(p, "completed")
    /\ AddLog(proc[p].item, "skipped")
    /\ GoTo(p, "ack")
    /\ UNCHANGED <<envVars, sync, queue>>

MarkProcessing(p) ==
    /\ At(p, "mark")
    /\ SetStatusIfDiffers(p, "processing")
    /\ GoTo(p, "check")
    /\ UNCHANGED <<envVars, audit, sync, queue>>

\* Mutant: a mismatch returns without recording the outcome.
CheckHashUnrecorded(p) ==
    /\ At(p, "check")
    /\ LET now == content[proc[p].item] IN
          GoTo(p, IF now = Gone THEN "fail"
                  ELSE IF now = proc[p].hash THEN "download" ELSE "ack")
    /\ UNCHANGED <<envVars, storeVars, queue>>

\* The hash re-check: a file that is gone is an error, one that changed is left
\* to the walker.
CheckHash(p) ==
    /\ At(p, "check")
    /\ LET now == content[proc[p].item] IN
          GoTo(p, IF now = Gone THEN "fail"
                  ELSE IF now = proc[p].hash THEN "download" ELSE "skip")
    /\ UNCHANGED <<envVars, storeVars, queue>>

\* The bytes are whatever the library holds at this later moment.
Download(p) ==
    /\ At(p, "download")
    /\ LET now == content[proc[p].item] IN
          IF now = Gone THEN GoTo(p, "fail")
          ELSE proc' = [proc EXCEPT ![p].pc = "classify", ![p].data = now]
    /\ UNCHANGED <<envVars, storeVars, queue>>

\* Some extractor reads the type the walker put into the message.
Extractable(h) == h \notin Unsupported

\* The bytes have a text, and the classifier answers it with a valid label.
Classifiable(c) == c \notin Poison

\* The type is the message's, the bytes are the ones that were downloaded.
Classify(p) ==
    /\ At(p, "classify")
    /\ GoTo(p, IF ~Extractable(proc[p].hash) THEN "unsupported"
               ELSE IF Classifiable(proc[p].data) THEN "write" ELSE "fail")
    /\ UNCHANGED <<envVars, storeVars, queue>>

\* Mutant: a skipped document is marked completed, being done with.
RecordSkippedAsCompleted(p) ==
    /\ At(p, "skip") \/ At(p, "unsupported")
    /\ SetStatus(proc[p].item, "completed")
    /\ AddLog(proc[p].item, "skipped")
    /\ GoTo(p, "ack")
    /\ UNCHANGED <<envVars, sync, queue>>

RecordSkipped(p) ==
    /\ At(p, "skip") \/ At(p, "unsupported")
    /\ SetStatus(proc[p].item, "skipped")
    /\ AddLog(proc[p].item, "skipped")
    /\ GoTo(p, "ack")
    /\ UNCHANGED <<envVars, sync, queue>>

\* Mutant: the failure is swallowed and the message deleted.
RecordFailureAndDelete(p) ==
    /\ At(p, "fail")
    /\ SetStatus(proc[p].item, "failed")
    /\ AddLog(proc[p].item, "failed")
    /\ GoTo(p, "ack")
    /\ UNCHANGED <<envVars, sync, queue>>

\* Mutant: the attempt leaves no audit row.
RecordFailureUnlogged(p) ==
    /\ At(p, "fail")
    /\ SetStatus(proc[p].item, "failed")
    /\ Exit(p)
    /\ UNCHANGED <<envVars, audit, sync, queue>>

\* The failure is recorded and raised: the message stays on the queue.
RecordFailure(p) ==
    /\ At(p, "fail")
    /\ SetStatus(proc[p].item, "failed")
    /\ AddLog(proc[p].item, "failed")
    /\ Exit(p)
    /\ UNCHANGED <<envVars, sync, queue>>

\* Mutant: the UPSERT has lost its WHERE clause.
WriteResultAlways(p) ==
    /\ At(p, "write")
    /\ docs' = [docs EXCEPT ![proc[p].item].category = proc[p].data,
                            ![proc[p].item].status = "completed"]
    /\ GoTo(p, "log")
    /\ UNCHANGED <<envVars, audit, sync, queue>>

\* The UPSERT: a no-op on a row with a manual label.
WriteResult(p) ==
    /\ At(p, "write")
    /\ LET i == proc[p].item IN
          IF docs[i].override THEN UNCHANGED docs
          ELSE docs' = [docs EXCEPT ![i].category = proc[p].data,
                                    ![i].status = "completed"]
    /\ GoTo(p, "log")
    /\ UNCHANGED <<envVars, audit, sync, queue>>

\* The audit row is a transaction of its own.
LogCompleted(p) ==
    /\ At(p, "log")
    /\ AddLog(proc[p].item, "completed")
    /\ GoTo(p, "ack")
    /\ UNCHANGED <<envVars, docs, sync, queue>>

\* The message is deleted; a replica whose receipt was replaced gets an error.
DeleteMessage(p) ==
    /\ At(p, "ack")
    /\ Delete(p, proc[p].slot)
    /\ Exit(p)
    /\ UNCHANGED <<envVars, storeVars>>

DeleteRefused(p) ==
    /\ At(p, "ack")
    /\ ~HasReceipt(p, proc[p].slot)
    /\ Exit(p)
    /\ UNCHANGED <<envVars, storeVars, queue>>

----------------------------------------------------------------------------
\* A call to the content source or the classifier fails.
AttemptFails(p) ==
    /\ At(p, "check") \/ At(p, "download") \/ At(p, "classify")
    /\ Fault("graph")
    /\ GoTo(p, "fail")
    /\ UNCHANGED <<storeVars, queue>>

\* A commit fails and is rolled back (PersistenceError).  Only the one that
\* records a hash mismatch is inside the try block that records failures.
CommitFails(p) ==
    /\ proc[p].pc \in {"override", "mark", "skip", "unsupported", "fail",
                       "write", "log"}
    /\ Fault("commit")
    /\ IF At(p, "skip") THEN GoTo(p, "fail") ELSE Exit(p)
    /\ UNCHANGED <<storeVars, queue>>

\* The delete request fails and the message stays (QueueError).
DeleteFails(p) ==
    /\ At(p, "ack")
    /\ Fault("send")
    /\ Exit(p)
    /\ UNCHANGED <<storeVars, queue>>

Crash(p) ==
    /\ ~At(p, "idle")
    /\ Fault("crash")
    /\ Exit(p)
    /\ UNCHANGED <<storeVars, queue>>

ProcessorStep(p) ==
    \/ \E m \in Slots : ReceiveMessage(p, m)
    \/ LoadDocument(p) \/ RecordOverride(p) \/ MarkProcessing(p)
    \/ CheckHash(p) \/ Download(p) \/ Classify(p)
    \/ RecordSkipped(p) \/ RecordFailure(p) \/ WriteResult(p)
    \/ LogCompleted(p) \/ DeleteMessage(p) \/ DeleteRefused(p)

ProcessorFault(p) ==
    AttemptFails(p) \/ CommitFails(p) \/ DeleteFails(p) \/ Crash(p)

============================================================================
