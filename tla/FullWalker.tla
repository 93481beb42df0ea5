----------------------------- MODULE FullWalker ----------------------------
(***************************************************************************)
(* The walk that enumerates everything every time                          *)
(* (src/src/filesystem_walker.py and src/src/blob_walker.py): list the     *)
(* files, hand each to the enqueuer, and keep no position.  Any error ends *)
(* the walk, whatever files were still to come.                            *)
(***************************************************************************)
EXTENDS Enqueuer

CONSTANTS
    HashOf,         \* where a candidate's hash may come from
    Unlisted        \* files the enumeration leaves out: no extractor for them

\* "bytes": the file is read when its turn comes (files, and blobs that carry no
\* sha256 metadata);  "listing": the blob's metadata came with the listing.
ASSUME FullWalkerAssumption ==
    HashOf \subseteq {"bytes", "listing"} /\ Unlisted \subseteq Items

VARIABLE scan       \* the walk in progress

\* todo: files listed and not visited yet; listed: the hash the listing carries
\* for a file, or Gone when it carries none.
Scan == [pc : {"off", "list", "files"}, todo : SUBSET Items,
         listed : [Items -> Contents]]

Nothing  == [i \in Items |-> Gone]
NoScan   == [pc |-> "off", todo |-> {}, listed |-> Nothing]
ScanInit   == scan = NoScan
ScanTypeOK == scan \in Scan

----------------------------------------------------------------------------
BeginScan ==
    /\ scan.pc = "off"
    /\ sync' = [sync EXCEPT !.walk_status = "walking"]
    /\ scan' = [scan EXCEPT !.pc = "list"]
    /\ UNCHANGED <<envVars, docs, audit, queue, enq>>

\* The suffix has an extractor.
IsSupported(i) == i \notin Unlisted

\* The hash the listing carries for a file, when exactly the stamped ones have
\* theirs in their metadata.
StoredHash(i, stamped) == IF i \in stamped THEN content[i] ELSE Gone

ListFiles ==
    /\ scan.pc = "list"
    /\ \E stamped \in SUBSET Items :
          /\ stamped # {} => "listing" \in HashOf
          /\ stamped # Items => "bytes" \in HashOf
          /\ scan' = [pc |-> "files",
                      todo |-> {i \in Items : IsSupported(i) /\ content[i] # Gone},
                      listed |-> [i \in Items |-> StoredHash(i, stamped)]]
    /\ UNCHANGED <<envVars, storeVars, queue, enq>>

\* The hash the walker computes for a file when its turn comes.
HashNow(i) == IF scan.listed[i] # Gone THEN scan.listed[i] ELSE content[i]

\* Mutant: what the listing showed is taken to be there still.
ReadableOnceListed(i) == i \in scan.todo

Readable(i) == HashNow(i) # Gone

Visited(i) == scan' = [scan EXCEPT !.todo = @ \ {i}, !.listed[i] = Gone]

PassFile ==
    /\ scan.pc = "files" /\ enq.pc = "idle"
    /\ \E i \in scan.todo :
          /\ Readable(i) /\ ~ShouldEnqueue(docs[i], HashNow(i))
          /\ Visited(i)
    /\ UNCHANGED <<envVars, storeVars, queue, enq>>

\* Mutant: only a new file has its row committed before the message is sent.
TakeFileCommitsNew ==
    /\ scan.pc = "files"
    /\ \E i \in scan.todo :
          /\ Readable(i) /\ enq.pc = "idle" /\ ShouldEnqueue(docs[i], HashNow(i))
          /\ enq' = [pc |-> IF docs[i].status = Absent THEN "commit" ELSE "send",
                     item |-> i, hash |-> HashNow(i)]
    /\ UNCHANGED <<envVars, storeVars, queue, scan>>

TakeFile ==
    /\ scan.pc = "files"
    /\ \E i \in scan.todo : Readable(i) /\ EnqueueBegin(i, HashNow(i))
    /\ UNCHANGED <<envVars, storeVars, queue, scan>>

CommitFile == EnqueueCommit /\ UNCHANGED scan

SendFile ==
    /\ EnqueueSend
    /\ Visited(enq.item)
    /\ UNCHANGED <<envVars, storeVars>>

\* A file that disappeared since the listing cannot be read (SourceError).
FileGone ==
    /\ scan.pc = "files" /\ enq.pc = "idle"
    /\ \E i \in scan.todo : ~Readable(i)
    /\ scan' = NoScan
    /\ UNCHANGED <<envVars, storeVars, queue, enq>>

EndScan ==
    /\ scan.pc = "files" /\ scan.todo = {}
    /\ sync' = [sync EXCEPT !.walk_status = "completed"]
    /\ scan' = NoScan
    /\ UNCHANGED <<envVars, docs, audit, queue, enq>>

----------------------------------------------------------------------------
\* Reading a file fails for another reason (SourceError).
ReadFails ==
    /\ scan.pc = "files" /\ enq.pc = "idle"
    /\ \E i \in scan.todo : scan.listed[i] = Gone
    /\ Fault("graph")
    /\ scan' = NoScan
    /\ UNCHANGED <<storeVars, queue, enq>>

\* A send fails (QueueError) and the walk ends; the message may have landed.
SendFileFails ==
    /\ enq.pc = "send"
    /\ Fault("send")
    /\ UNCHANGED queue \/ Send(enq.item, enq.hash)
    /\ scan' = NoScan /\ enq' = NoCall
    /\ UNCHANGED storeVars

\* The walker's process dies, or a database or listing error it does not catch.
ScanCrash ==
    /\ scan.pc # "off"
    /\ Fault("walkcrash")
    /\ scan' = NoScan /\ enq' = NoCall
    /\ UNCHANGED <<storeVars, queue>>

ScanStep ==
    \/ BeginScan \/ ListFiles \/ PassFile \/ TakeFile \/ CommitFile
    \/ SendFile \/ FileGone \/ EndScan

ScanFault == ReadFails \/ SendFileFails \/ ScanCrash
============================================================================
