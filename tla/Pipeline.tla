------------------------------ MODULE Pipeline -----------------------------
(***************************************************************************)
(* What every deployment of the two-job pipeline has in common, whichever  *)
(* walker feeds it: the replicas, the queue's timeouts, the operator, and  *)
(* the invariants that do not depend on how a walk finds its files.        *)
(***************************************************************************)
EXTENDS AnyWalker, Processor

\* A replica that has received the message and whose receipt is still valid.
Working(p, m) == proc[p].slot = m /\ queue[m].holder = p
Held(m)       == \E p \in Procs : Working(p, m)

\* The visibility timeout of a message whose replica failed or died runs out.
LeaseEnds(m) ==
    /\ ~Held(m)
    /\ Reappear(m)
    /\ UNCHANGED <<envVars, storeVars, enq, proc>>

\* It runs out while the replica is still at work: run_once asks for no
\* visibility timeout, so the queue's default of 30 seconds applies.
LeaseTooShort(m) ==
    /\ Held(m)
    /\ Reappear(m)
    /\ Fault("lease")
    /\ UNCHANGED <<storeVars, enq, proc>>

MessageExpires(m) ==
    /\ Expire(m)
    /\ Fault("ttl")
    /\ UNCHANGED <<storeVars, enq, proc>>

QueueSteps ==
    \E m \in Slots : LeaseEnds(m) \/ LeaseTooShort(m) \/ MessageExpires(m)

OperatorSteps ==
    \E i \in Items :
        /\ SetOverride(i) \/ ResetPending(i)
        /\ UNCHANGED <<queue, enq, proc>>

\* Some replica receives the message.
Delivered(m) == (\E p \in Procs : ReceiveMessage(p, m)) /\ UNCHANGED enq

Replica(p) == (ProcessorStep(p) \/ ProcessorFault(p)) /\ UNCHANGED enq

(***************************************************************************)
(* The pipeline with any walker                                            *)
(***************************************************************************)

pipelineVars == <<envVars, storeVars, queue, enq, proc>>

PipelineInit == EnvInit /\ StoreInit /\ QueueInit /\ EnqInit /\ ProcInit

AnyChange ==
    /\ \E i \in Items, c \in Contents : Change(i, c)
    /\ UNCHANGED <<storeVars, queue, enq, proc>>

PipelineNext ==
    \/ AnyWalkerStep /\ UNCHANGED proc
    \/ AnyChange \/ OperatorSteps \/ QueueSteps
    \/ \E p \in Procs : Replica(p)

\* Each deployment implements it: its walker drives the rows and the queue by way of
\* the enqueuer alone, whatever pages, listings, tokens and errors it deals with.
PipelineSpec == PipelineInit /\ [][PipelineNext]_pipelineVars

(***************************************************************************)
(* Invariants                                                              *)
(***************************************************************************)

\* A message is only ever about a document whose row is in the database: the
\* producer commits before it sends, so the processor's lookup by id succeeds.
MessageHasRow ==
    /\ \A m \in Slots : OnQueue(m) => docs[queue[m].item].status # Absent
    /\ \A p \in Procs : ~At(p, "idle") => docs[proc[p].item].status # Absent

About(i)         == {m \in Slots : OnQueue(m) /\ queue[m].item = i}
AboutItsHash(i)  == {m \in About(i) : queue[m].hash = docs[i].content_hash}
SendPending(i)   == enq.pc = "send" /\ enq.item = i

\* A row in flight has work behind it: a message on the queue or the producer
\* about to send one, and for a queued row a message about the very version the
\* row records.  Nothing else ever moves a row out of flight, because every later
\* walk skips it (Enqueuer._should_enqueue), so a row without it is stuck.  A row
\* labelled by hand is excepted: see DeletesWhenSettled.
InFlightHasWork ==
    \A i \in Items : ~docs[i].override =>
        /\ docs[i].status = "processing" => About(i) # {} \/ SendPending(i)
        /\ docs[i].status = "queued" => AboutItsHash(i) # {} \/ SendPending(i)

\* A failed document still has a message that will bring it back: the walker does
\* not queue an unchanged file again, so the queue's redelivery is its only retry.
FailedHasMessage == \A i \in Items : docs[i].status = "failed" => About(i) # {}

\* The steps between marking a row processing and recording the outcome.
AtWork(i) ==
    \E p \in Procs : proc[p].item = i /\ proc[p].pc \in
        {"check", "download", "classify", "skip", "unsupported", "fail", "write"}

\* When messages reappear under a live replica, a row in flight has a message, a
\* pending send, or a replica that will still record an outcome for it.
InFlightIsOwned ==
    \A i \in Items :
        docs[i].status \in InFlight => About(i) # {} \/ SendPending(i) \/ AtWork(i)

\* A row reads completed only with a label to show for it: the classifier's or a
\* person's, whatever replicas, resets and re-deliveries did before.
CompletedIsLabelled ==
    \A i \in Items :
        docs[i].status = "completed" => docs[i].category # None \/ docs[i].override

\* The attempt that labelled the row has its row in the audit trail, or a replica
\* is about to write it: the result and its audit row are separate commits.
ResultIsAudited ==
    \A i \in Items :
        docs[i].status = "completed" =>
            \/ audit[i] \cap {"completed", "skipped"} # {}
            \/ \E p \in Procs : At(p, "log") /\ proc[p].item = i

\* No outcome escapes the audit trail: when the commit between a result and its
\* audit row is lost, the message is still there and the attempt is repeated.
SettledIsAudited ==
    \A i \in Items :
        /\ docs[i].status \in {"failed", "skipped"} => docs[i].status \in audit[i]
        /\ docs[i].status = "completed" =>
              \/ audit[i] \cap {"completed", "skipped"} # {}
              \/ \E p \in Procs : At(p, "log") /\ proc[p].item = i
              \/ About(i) # {}

(***************************************************************************)
(* Step predicates, for the action properties of the composed modules      *)
(***************************************************************************)

\* Once a person has labelled a document the classifier's label is frozen.
KeepsOverridden(i) ==
    docs[i].override =>
        docs'[i].override /\ docs'[i].category = docs[i].category

\* When a replica at its last step deletes its message, the row does not read
\* processing, unless another message about the document is on the queue.
DeletesWhenSettled(p, m) ==
    Working(p, m) /\ At(p, "ack") /\ proc'[p] = Idle /\ queue'[m] = Free
        => \/ docs[proc[p].item].status # "processing"
           \/ About(proc[p].item) # {m}

(***************************************************************************)
(* Liveness                                                                *)
(***************************************************************************)

\* A file in flight does not stay in flight.
InFlightSettles ==
    \A i \in Items : docs[i].status \in InFlight ~> docs[i].status \notin InFlight

\* A row skipped because the file changed under its message.
StaleSkip(i) ==
    /\ docs[i].status = "skipped"
    /\ content[i] \in Hashes /\ content[i] # docs[i].content_hash

\* Such a row does not stay skipped: the walker queues the new version.
StaleSkipIsRequeued == \A i \in Items : StaleSkip(i) ~> ~StaleSkip(i)

\* A row reset to pending is queued again, as long as its file exists.
PendingIsRequeued ==
    \A i \in Items :
        (docs[i].status = "pending" /\ content[i] \in Hashes)
            ~> (docs[i].status # "pending" \/ content[i] = Gone)

\* A message every attempt fails on does not go round for ever.
PoisonIsShed ==
    \A m \in Slots : (OnQueue(m) /\ queue[m].hash \in Poison) ~> ~OnQueue(m)
============================================================================
