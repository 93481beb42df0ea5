---------------------------- MODULE Environment ----------------------------
(***************************************************************************)
(* What the walker and the processor find around them and do not control:  *)
(* the document library and its change log (Microsoft Graph), and the      *)
(* budget of faults and operator interventions of a behaviour.  Only the   *)
(* way src/src/graph_client.py and src/src/content_source.py read the      *)
(* library is code of the repository; the library itself is external.      *)
(***************************************************************************)
EXTENDS Integers

CONSTANTS
    Items,          \* drive items (files) of the library
    Hashes,         \* content hashes a file can have
    None,           \* the absent value (SQL NULL, Python None)
    MaxSeq,         \* bound: changes made to the library
    Faults,         \* kinds of fault a behaviour may contain
    MaxFaults,      \* bound: faults in one behaviour
    Operations,     \* manual interventions allowed: "override", "reset"
    MaxOps          \* bound: manual interventions in one behaviour

\* "graph": a content-source or classifier call fails;  "commit": a database
\* commit fails;  "crash": a processor replica dies;  "walkcrash": the walker
\* dies (a database error included);  "send": a queue call fails;  "lease": a
\* message reappears while its replica still works on it;  "ttl": the queue
\* drops an old message.
FaultKinds ==
    {"graph", "commit", "crash", "walkcrash", "send", "lease", "ttl"}

Gone     == "gone"          \* not in the library: never created, or deleted
Hashless == "hashless"      \* a folder, or a file Graph reports no hash for

ASSUME EnvironmentAssumption ==
    /\ None \notin Items \cup Hashes \cup Nat \cup {Gone, Hashless}
    /\ Hashes \cap {Gone, Hashless} = {}
    /\ MaxSeq \in Nat /\ MaxFaults \in Nat /\ MaxOps \in Nat
    /\ Faults \subseteq FaultKinds
    /\ Operations \subseteq {"override", "reset"}

VARIABLES
    content,        \* content[i]: the hash of the file's bytes now
    changed,        \* changed[i]: position of the item's last change in the log
    seq,            \* length of the library's change log
    faults,         \* faults so far
    ops             \* manual interventions so far

Contents   == Hashes \cup {Gone, Hashless}
library    == <<content, changed, seq>>
budgets    == <<faults, ops>>
envVars    == <<content, changed, seq, faults, ops>>

EnvInit ==
    /\ content = [i \in Items |-> Gone]
    /\ changed = [i \in Items |-> 0]
    /\ seq = 0
    /\ faults = 0
    /\ ops = 0

EnvTypeOK ==
    /\ content \in [Items -> Contents]
    /\ changed \in [Items -> Nat]
    /\ seq \in Nat
    /\ faults \in Nat
    /\ ops \in Nat

----------------------------------------------------------------------------
\* Somebody creates, edits, touches or deletes a file.  The change goes to the
\* end of the log, so an item that changes again moves past every token that
\* was issued before.
Change(i, c) ==
    /\ seq < MaxSeq
    /\ c # Gone \/ content[i] # Gone
    /\ content' = [content EXCEPT ![i] = c]
    /\ changed' = [changed EXCEPT ![i] = seq + 1]
    /\ seq' = seq + 1
    /\ UNCHANGED budgets

\* A step in which something of this kind goes wrong.
Fault(kind) ==
    /\ kind \in Faults
    /\ faults < MaxFaults
    /\ faults' = faults + 1
    /\ UNCHANGED <<content, changed, seq, ops>>

\* A step in which a person edits the database by hand.
Operation(kind) ==
    /\ kind \in Operations
    /\ ops < MaxOps
    /\ ops' = ops + 1
    /\ UNCHANGED <<content, changed, seq, faults>>
============================================================================
