---------------------------- MODULE StateStore -----------------------------
(***************************************************************************)
(* The PostgreSQL state store both jobs share (src/src/db.py): one         *)
(* sync_state row of the library, one documents row per file, and the      *)
(* processing_log.  Each action of a job that touches it is one committed  *)
(* transaction.  Timestamps, file names and costs are left out; category   *)
(* is the hash of the bytes it was computed from.                          *)
(***************************************************************************)
EXTENDS Environment

VARIABLES
    docs,           \* docs[i]: the documents row of item i
    audit,          \* audit[i]: outcomes in the item's processing_log rows
    sync            \* the sync_state row

storeVars == <<docs, audit, sync>>

WalkStatus     == {"idle", "walking", "interrupted", "completed"}
DocumentStatus ==
    {"queued", "processing", "completed", "skipped", "pending", "failed"}
Outcomes       == {"completed", "skipped", "failed"}

Absent == "absent"          \* there is no such row yet

Row == [status       : DocumentStatus \cup {Absent},
        content_hash : Hashes \cup {None},
        category     : Hashes \cup {Hashless, None},
        override     : BOOLEAN]

NoRow == [status |-> Absent, content_hash |-> None, category |-> None,
          override |-> FALSE]

\* A token is a position in the change log the next request starts after.
Token == Nat \cup {None}

SyncRow == [walk_status : WalkStatus, delta_token : Token, resume_token : Token]

StoreInit ==
    /\ docs = [i \in Items |-> NoRow]
    /\ audit = [i \in Items |-> {}]
    /\ sync = [walk_status |-> "idle", delta_token |-> None,
               resume_token |-> None]

StoreTypeOK ==
    /\ docs \in [Items -> Row]
    /\ audit \in [Items -> SUBSET Outcomes]
    /\ sync \in SyncRow

----------------------------------------------------------------------------
\* UPDATE documents SET status = s for the item's row.
SetStatus(i, s) == docs' = [docs EXCEPT ![i].status = s]

\* INSERT INTO processing_log.
AddLog(i, outcome) == audit' = [audit EXCEPT ![i] = @ \cup {outcome}]

\* A person labels the document by hand; the label stays.
SetOverride(i) ==
    /\ Operation("override")
    /\ docs[i].status # Absent /\ ~docs[i].override
    /\ docs' = [docs EXCEPT ![i].override = TRUE]
    /\ UNCHANGED <<audit, sync>>

\* A person resets a row to pending to have it classified again.
ResetPending(i) ==
    /\ Operation("reset")
    /\ docs[i].status \notin {Absent, "pending"}
    /\ SetStatus(i, "pending")
    /\ UNCHANGED <<audit, sync>>
============================================================================
