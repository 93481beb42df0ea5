---------------------------- MODULE DeltaWalker ----------------------------
(***************************************************************************)
(* The Graph delta walk (src/src/walker.py, Walker): read the change log   *)
(* from a stored token page by page, hand every item to the enqueuer, and  *)
(* store a resume token when the time budget is spent between two pages or *)
(* the new delta token when the log is exhausted.  Any error ends the walk *)
(* with the stored tokens as they were.                                    *)
(*                                                                         *)
(* offered is a history variable: offered[i] is the last change of item i  *)
(* a walk has handed to the enqueuer and finished with.                    *)
(***************************************************************************)
EXTENDS Enqueuer

VARIABLES
    walk,           \* the walk in progress
    offered         \* history: last change of the item the walker dealt with

walkVars == <<walk, offered>>

\* One item of a delta page: its content hash when the page was built.
Entry == [item : Items, hash : Contents, at : Nat]

\* pos: the log up to here is behind us; todo: what is left of the page; next:
\* where the page ends, and final: whether it is the terminal page.
Walk == [pc : {"off", "fetch", "items"}, pos : Nat, todo : SUBSET Entry,
         next : Nat, final : BOOLEAN]

NoWalk == [pc |-> "off", pos |-> 0, todo |-> {}, next |-> 0, final |-> FALSE]

WalkInit   == walk = NoWalk /\ offered = [i \in Items |-> 0]
WalkTypeOK == walk \in Walk /\ offered \in [Items -> Nat]

----------------------------------------------------------------------------
\* Mutant: the resume token is used even when there is none.
StartPosUnchecked(s) == s.resume_token

\* resume_token > delta_token > full walk.
StartPos(s) ==
    IF s.resume_token # None THEN s.resume_token
    ELSE IF s.delta_token # None THEN s.delta_token ELSE 0

\* Mutant: every walk is a full walk.
BeginFullWalk ==
    /\ walk.pc = "off"
    /\ sync' = [sync EXCEPT !.walk_status = "walking"]
    /\ walk' = [NoWalk EXCEPT !.pc = "fetch"]
    /\ UNCHANGED <<envVars, docs, audit, queue, enq, offered>>

BeginWalk ==
    /\ walk.pc = "off"
    /\ sync' = [sync EXCEPT !.walk_status = "walking"]
    /\ walk' = [NoWalk EXCEPT !.pc = "fetch", !.pos = StartPos(sync)]
    /\ UNCHANGED <<envVars, docs, audit, queue, enq, offered>>

\* The items whose last change lies in (from, to].
Page(from, to) ==
    {[item |-> i, hash |-> content[i], at |-> changed[i]] :
        i \in {j \in Items : from < changed[j] /\ changed[j] <= to}}

\* Graph returns the next stretch of the log, as long as it likes; the page that
\* reaches the end of the log is the terminal one.
FetchPage ==
    /\ walk.pc = "fetch"
    /\ \E to \in walk.pos .. seq :
          /\ to > walk.pos \/ to = seq
          /\ walk' = [walk EXCEPT !.pc = "items", !.next = to,
                          !.todo = Page(walk.pos, to), !.final = (to = seq)]
    /\ UNCHANGED <<envVars, storeVars, queue, enq, offered>>

\* The walker is through with an item of the page.
Dealt(e) ==
    /\ walk' = [walk EXCEPT !.todo = @ \ {e}]
    /\ offered' = [offered EXCEPT ![e.item] = e.at]

\* Mutant: the row of a deleted file is deleted with it.
SkipItemDropsRow ==
    /\ walk.pc = "items" /\ enq.pc = "idle"
    /\ \E e \in walk.todo :
          /\ e.hash \in Hashes => ~ShouldEnqueue(docs[e.item], e.hash)
          /\ docs' = IF e.hash = Gone THEN [docs EXCEPT ![e.item] = NoRow] ELSE docs
          /\ Dealt(e)
    /\ UNCHANGED <<envVars, audit, sync, queue, enq>>

\* Deleted and hashless items are ignored; a file that is in flight or
\* unchanged is left alone.
SkipItem ==
    /\ walk.pc = "items" /\ enq.pc = "idle"
    /\ \E e \in walk.todo :
          /\ e.hash \in Hashes => ~ShouldEnqueue(docs[e.item], e.hash)
          /\ Dealt(e)
    /\ UNCHANGED <<envVars, storeVars, queue, enq>>

TakeItem ==
    /\ walk.pc = "items"
    /\ \E e \in walk.todo :
          e.hash \in Hashes /\ EnqueueBegin(e.item, e.hash)
    /\ UNCHANGED <<envVars, storeVars, queue, walkVars>>

CommitItem == EnqueueCommit /\ UNCHANGED walkVars

SendItem ==
    /\ EnqueueSend
    /\ \E e \in walk.todo : e.item = enq.item /\ Dealt(e)
    /\ UNCHANGED <<envVars, storeVars>>

PageDone == walk.pc = "items" /\ walk.todo = {}

\* There is a further page and the budget is not spent.
NextPage ==
    /\ PageDone /\ ~walk.final
    /\ walk' = [walk EXCEPT !.pc = "fetch", !.pos = walk.next]
    /\ UNCHANGED <<envVars, storeVars, queue, enq, offered>>

\* Mutant: an interrupted walk stores the end of the log, like a completed one.
InterruptStoresEnd ==
    /\ PageDone /\ ~walk.final
    /\ sync' = [sync EXCEPT !.delta_token = seq, !.walk_status = "interrupted"]
    /\ walk' = NoWalk
    /\ UNCHANGED <<envVars, docs, audit, queue, enq, offered>>

\* Mutant: an interrupted walk stores nothing.
InterruptForgetsToken ==
    /\ PageDone /\ ~walk.final
    /\ sync' = [sync EXCEPT !.walk_status = "interrupted"]
    /\ walk' = NoWalk
    /\ UNCHANGED <<envVars, docs, audit, queue, enq, offered>>

\* There is a further page and the budget is spent.
Interrupt ==
    /\ PageDone /\ ~walk.final
    /\ sync' = [sync EXCEPT !.resume_token = walk.next,
                            !.walk_status = "interrupted"]
    /\ walk' = NoWalk
    /\ UNCHANGED <<envVars, docs, audit, queue, enq, offered>>

Complete ==
    /\ PageDone /\ walk.final
    /\ sync' = [walk_status |-> "completed", delta_token |-> walk.next,
                resume_token |-> None]
    /\ walk' = NoWalk
    /\ UNCHANGED <<envVars, docs, audit, queue, enq, offered>>

----------------------------------------------------------------------------
\* A delta request fails, or the log ends without a delta link (GraphError):
\* the walk ends where it stands.
FetchFails ==
    /\ walk.pc = "fetch" \/ (PageDone /\ walk.final)
    /\ Fault("graph")
    /\ walk' = NoWalk
    /\ UNCHANGED <<storeVars, queue, enq, offered>>

\* A send fails (QueueError) and the walk ends; the message may have landed.
SendFails ==
    /\ enq.pc = "send"
    /\ Fault("send")
    /\ UNCHANGED queue \/ Send(enq.item, enq.hash)
    /\ walk' = NoWalk /\ enq' = NoCall
    /\ UNCHANGED <<storeVars, offered>>

\* The walker's process dies, or a database error it does not catch kills it.
WalkerCrash ==
    /\ walk.pc # "off"
    /\ Fault("walkcrash")
    /\ walk' = NoWalk /\ enq' = NoCall
    /\ UNCHANGED <<storeVars, queue, offered>>

WalkerStep ==
    \/ BeginWalk \/ FetchPage \/ SkipItem \/ TakeItem \/ CommitItem
    \/ SendItem \/ NextPage \/ Interrupt \/ Complete

WalkerFault == FetchFails \/ SendFails \/ WalkerCrash
============================================================================
