------------------------ MODULE ChangeCursor_proofs ------------------------
(***************************************************************************)
(* No change is lost between walks, and the walker implements the abstract *)
(* change cursor, for every library, page size and budget of faults.       *)
(***************************************************************************)
EXTENDS DeltaPipeline_proofs

\* The change log only grows: no item's change, and no token, lies beyond its end.
LogInv ==
    /\ \A i \in Items : changed[i] <= seq
    /\ sync.delta_token # None => sync.delta_token <= seq
    /\ sync.resume_token # None => sync.resume_token <= seq

\* A walk starts at the stored position and moves forward from there.
WalkInv ==
    /\ walk.pc # "off" => StartPos(sync) <= walk.pos /\ walk.pos <= seq
    /\ walk.pc = "items" => walk.pos <= walk.next /\ walk.next <= seq

\* What is left of a page: one entry for an item, no older than what was dealt with,
\* and if the item changed after the page was built its change lies behind the page.
PageInv ==
    /\ walk.pc # "items" => walk.todo = {}
    /\ walk.pc = "items" =>
         /\ \A d, e \in walk.todo : d.item = e.item => d = e
         /\ \A e \in walk.todo :
               /\ offered[e.item] <= e.at /\ e.at <= changed[e.item]
               /\ e.at = changed[e.item] \/ walk.next < changed[e.item]

\* The changes up to the walk's position are dealt with, and those up to the end of
\* the page are dealt with or still on it.
Covered ==
    \A i \in Items :
        /\ offered[i] <= changed[i]
        /\ walk.pc = "fetch" /\ changed[i] <= walk.pos => offered[i] = changed[i]
        /\ walk.pc = "items" /\ changed[i] <= walk.next =>
              \/ offered[i] = changed[i]
              \/ \E e \in walk.todo : e.item = i /\ e.at = changed[i]

CursorInv == LogInv /\ WalkInv /\ PageInv /\ Covered /\ NoChangeSkipped

----------------------------------------------------------------------------
\* What a step does to the change log, the walk and the tokens: one of eight things.
Advance(to) ==
    /\ walk.pc = "items" /\ walk.todo = {} /\ to = walk.next
    /\ walk' = NoWalk
    /\ StartPos(sync') = to
    /\ sync'.delta_token # None => sync'.delta_token \in {to, sync.delta_token}
    /\ sync'.resume_token # None => sync'.resume_token = to
    /\ UNCHANGED <<changed, seq, offered>>

Grow(i) ==
    /\ changed' = [changed EXCEPT ![i] = seq + 1]
    /\ seq' = seq + 1
    /\ UNCHANGED <<offered, walk, sync>>

\* What a step does to the log, the tokens, the walk and the history, in eight cases:
\* the walk's own steps that matter, a change of the library, and everything else.
LEMMA Effects ==
    ASSUME TypeInv, [Next]_vars
    PROVE  \/ \E i \in Items : Grow(i)
           \/ /\ walk.pc = "off"
              /\ walk' = [NoWalk EXCEPT !.pc = "fetch", !.pos = StartPos(sync)]
              /\ StartPos(sync') = StartPos(sync)
              /\ sync'.delta_token = sync.delta_token
              /\ sync'.resume_token = sync.resume_token
              /\ UNCHANGED <<changed, seq, offered>>
           \/ FetchPage
           \/ /\ \E e \in walk.todo : Dealt(e)
              /\ UNCHANGED <<changed, seq, sync>>
           \/ NextPage
           \/ Advance(walk.next)
           \/ walk' = NoWalk /\ UNCHANGED <<changed, seq, offered, sync>>
           \/ UNCHANGED <<changed, seq, offered, walk, sync>>
  <1> USE DEF TypeInv, TypeOK, storeVars, walkVars, envVars
  <1>1. CASE LibraryChanges /\ UNCHANGED walkVars
    BY <1>1 DEF LibraryChanges, Change, Grow
  <1>2. CASE OperatorSteps /\ UNCHANGED walkVars
    BY <1>2 DEF OperatorSteps, SetOverride, ResetPending, Operation
  <1>3. CASE QueueSteps /\ UNCHANGED walkVars
    BY <1>3 DEF QueueSteps, LeaseEnds, LeaseTooShort, MessageExpires, Fault
  <1>4. CASE WalkerStep /\ UNCHANGED proc
    <2>1. CASE BeginWalk
      <3>1. /\ sync'.delta_token = sync.delta_token
            /\ sync'.resume_token = sync.resume_token
        BY <2>1 DEF BeginWalk, StoreTypeOK, SyncRow
      <3> QED  BY <2>1, <3>1 DEF BeginWalk, StartPos
    <2>2. CASE SkipItem
      BY <2>2 DEF SkipItem
    <2>3. CASE TakeItem
      BY <2>3 DEF TakeItem
    <2>7. CASE CommitItem
      BY <2>7 DEF CommitItem, EnqueueCommit
    <2>4. CASE SendItem
      BY <2>4 DEF SendItem, EnqueueSend
    <2>5. CASE Interrupt
      <3>1. /\ sync'.delta_token = sync.delta_token
            /\ sync'.resume_token = walk.next
        BY <2>5 DEF Interrupt, StoreTypeOK, SyncRow
      <3>2. walk.next # None
        BY EnvironmentAssumption DEF WalkTypeOK, Walk
      <3> QED  BY <2>5, <3>1, <3>2 DEF Interrupt, PageDone, Advance, StartPos
    <2>6. CASE Complete
      <3>1. walk.next # None
        BY EnvironmentAssumption DEF WalkTypeOK, Walk
      <3> QED  BY <2>6, <3>1 DEF Complete, PageDone, Advance, StartPos
    <2> QED  BY <1>4, <2>1, <2>2, <2>3, <2>4, <2>5, <2>6, <2>7 DEF WalkerStep
  <1>5. CASE WalkerFault
    BY <1>5 DEF WalkerFault, FetchFails, SendFails, WalkerCrash, Fault
  <1>6. ASSUME NEW p \in Procs, ProcessorStep(p), UNCHANGED <<enq, walkVars>>
        PROVE  UNCHANGED <<changed, seq, offered, walk, sync>>
    BY <1>6 DEF ProcessorStep, ReceiveMessage, LoadDocument, RecordOverride,
                MarkProcessing, CheckHash, Download, Classify, RecordSkipped,
                RecordFailure, WriteResult, LogCompleted, DeleteMessage, DeleteRefused
  <1>7. ASSUME NEW p \in Procs, ProcessorFault(p), UNCHANGED <<enq, walkVars>>
        PROVE  UNCHANGED <<changed, seq, offered, walk, sync>>
    BY <1>7 DEF ProcessorFault, AttemptFails, CommitFails, DeleteFails, Crash, Fault
  <1>8. CASE UNCHANGED vars
    BY <1>8 DEF vars
  <1> QED  BY NextCases, <1>1, <1>2, <1>3, <1>4, <1>5, <1>6, <1>7, <1>8

\* Every step keeps the cursor invariant.  The cases that matter are a change of the
\* library, which moves an item past every token, and the end or interruption of a
\* walk, which stores a token only when its page is dealt with.
LEMMA CursorStep ==
    ASSUME TypeInv, CursorInv, [Next]_vars
    PROVE  CursorInv'
  <1> USE DEF TypeInv, TypeOK, EnvTypeOK, StoreTypeOK, SyncRow, WalkTypeOK, Token, Walk,
              CursorInv, LogInv, WalkInv, PageInv, Covered, NoChangeSkipped
  <1>0. StartPos(sync) \in Nat /\ StartPos(sync) <= seq
    BY StartPosType DEF StartPos
  <1>1. CASE \E i \in Items : Grow(i)
    <2>1. PICK i \in Items : Grow(i)
      BY <1>1
    <2>2. \A j \in Items : changed'[j] = IF j = i THEN seq + 1 ELSE changed[j]
      BY <2>1 DEF Grow
    <2>3. seq' = seq + 1 /\ offered' = offered /\ walk' = walk /\ sync' = sync
      BY <2>1 DEF Grow
    <2>4. LogInv' /\ WalkInv'
      BY <1>0, <2>2, <2>3
    <2>5. PageInv'
      BY <2>2, <2>3 DEF Entry
    <2>6. Covered' /\ NoChangeSkipped'
      BY <1>0, <2>2, <2>3
    <2> QED  BY <2>4, <2>5, <2>6
  <1>2. CASE /\ walk.pc = "off"
             /\ walk' = [NoWalk EXCEPT !.pc = "fetch", !.pos = StartPos(sync)]
             /\ StartPos(sync') = StartPos(sync)
             /\ sync'.delta_token = sync.delta_token
             /\ sync'.resume_token = sync.resume_token
             /\ UNCHANGED <<changed, seq, offered>>
    BY <1>0, <1>2 DEF NoWalk
  <1>3. CASE FetchPage
    <2>1. PICK to \in walk.pos .. seq :
              walk' = [walk EXCEPT !.pc = "items", !.next = to,
                          !.todo = Page(walk.pos, to), !.final = (to = seq)]
      BY <1>3 DEF FetchPage
    <2>2. /\ UNCHANGED <<changed, seq, offered, sync>>
          /\ walk.pc = "fetch"
      BY <1>3 DEF FetchPage, envVars, storeVars
    <2>3. \A i \in Items : changed[i] > walk.pos /\ changed[i] <= to
              => \E e \in Page(walk.pos, to) : e.item = i /\ e.at = changed[i]
      <3> TAKE i \in Items
      <3> HAVE changed[i] > walk.pos /\ changed[i] <= to
      <3> DEFINE e == [item |-> i, hash |-> content[i], at |-> changed[i]]
      <3>1. e \in Page(walk.pos, to)
        BY DEF Page
      <3> QED  BY <3>1
    <2>4. \A e \in Page(walk.pos, to) :
              e.item \in Items /\ e.at = changed[e.item] /\ e.hash = content[e.item]
      BY DEF Page
    <2>5. \A d, e \in Page(walk.pos, to) : d.item = e.item => d = e
      BY DEF Page
    <2>6. LogInv' /\ WalkInv' /\ NoChangeSkipped'
      BY <1>0, <2>1, <2>2
    <2>7. PageInv'
      BY <2>1, <2>2, <2>4, <2>5
    <2>8. Covered'
      BY <2>1, <2>2, <2>3
    <2> QED  BY <2>6, <2>7, <2>8
  <1>4. CASE /\ \E e \in walk.todo : Dealt(e)
             /\ UNCHANGED <<changed, seq, sync>>
    <2>1. PICK e \in walk.todo : Dealt(e)
      BY <1>4
    <2>2. e.item \in Items /\ e.at \in Nat
      BY DEF Entry
    <2>3. /\ walk'.pc = walk.pc /\ walk'.pos = walk.pos /\ walk'.next = walk.next
          /\ walk'.todo = walk.todo \ {e}
      BY <2>1 DEF Dealt
    <2>4. \A i \in Items : offered'[i] = IF i = e.item THEN e.at ELSE offered[i]
      BY <2>1 DEF Dealt
    <2>5. changed[e.item] <= walk.next => e.at = changed[e.item]
      <3>1. e.at = changed[e.item] \/ walk.next < changed[e.item]
        BY <1>4
      <3>2. changed[e.item] \in Nat /\ walk.next \in Nat
        BY <2>2
      <3> QED  BY <3>1, <3>2
    <2>6. LogInv' /\ WalkInv'
      BY <1>4, <2>3
    <2>7. PageInv'
      BY <1>4, <2>2, <2>3, <2>4 DEF Entry
    <2>8. Covered'
      BY <1>4, <2>2, <2>3, <2>4, <2>5
    <2>9. NoChangeSkipped'
      BY <1>0, <1>4, <2>2, <2>4, <2>5
    <2> QED  BY <2>6, <2>7, <2>8, <2>9
  <1>5. CASE NextPage
    BY <1>0, <1>5 DEF NextPage, PageDone, envVars, storeVars
  <1>6. CASE Advance(walk.next)
    BY <1>0, <1>6 DEF Advance, NoWalk
  <1>7. CASE walk' = NoWalk /\ UNCHANGED <<changed, seq, offered, sync>>
    BY <1>0, <1>7 DEF NoWalk
  <1>8. CASE UNCHANGED <<changed, seq, offered, walk, sync>>
    BY <1>8
  <1> QED  BY Effects, <1>1, <1>2, <1>3, <1>4, <1>5, <1>6, <1>7, <1>8

\* The inductive invariant of the walk's position holds in every behaviour.
THEOREM CursorInvariant == Spec => []CursorInv
  <1>1. Init => CursorInv
    BY EnvironmentAssumption
    DEF Init, EnvInit, StoreInit, WalkInit, NoWalk, StartPos, CursorInv, LogInv, WalkInv,
        PageInv, Covered, NoChangeSkipped
  <1>2. TypeInv /\ CursorInv /\ [Next]_vars => CursorInv'
    BY CursorStep
  <1> QED  BY <1>1, <1>2, TypeInvariant, PTL DEF Spec

\* Every change before the token the next walk starts from has been dealt with
\* (Walker._interrupt, _complete and _start_url), whatever is interrupted or fails.
THEOREM NoChangeIsSkipped == Spec => []NoChangeSkipped
  <1>1. CursorInv => NoChangeSkipped
    BY DEF CursorInv
  <1> QED  BY <1>1, CursorInvariant, PTL
----------------------------------------------------------------------------
(***************************************************************************)
(* Refinement                                                              *)
(***************************************************************************)

\* A step of the pipeline is a step of the abstract cursor or leaves it alone: the
\* library's changes append, a finished item is handled, and an interrupted or a
\* completed walk advances the cursor.
LEMMA CursorSimulation ==
    ASSUME TypeInv, CursorInv, [Next]_vars
    PROVE  [Cursor!Next]_(Cursor!vars)
  <1> USE DEF Cursor!Next, Cursor!vars, TypeInv, TypeOK, EnvTypeOK, WalkTypeOK, Walk,
              CursorInv
  <1>0. StartPos(sync) \in Nat
    BY StartPosType DEF StartPos
  <1>1. CASE \E i \in Items : Grow(i)
    BY <1>1 DEF Grow, Cursor!Append
  <1>2. CASE \E e \in walk.todo : Dealt(e) /\ UNCHANGED <<changed, seq, sync>>
    <2>1. PICK e \in walk.todo : Dealt(e) /\ UNCHANGED <<changed, seq, sync>>
      BY <1>2
    <2>2. e.item \in Items /\ e.at \in Nat
      BY DEF Entry
    <2>3. offered[e.item] <= e.at /\ e.at <= changed[e.item]
      BY DEF PageInv
    <2>4. e.at \in offered[e.item] .. changed[e.item]
      BY <2>2, <2>3
    <2>5. Cursor!Handle(e.item)
      BY <2>1, <2>4 DEF Dealt, Cursor!Handle
    <2> QED  BY <2>2, <2>5
  <1>3. CASE Advance(walk.next)
    <2>1. walk.next \in StartPos(sync) .. seq
      BY <1>0, <1>3 DEF Advance, WalkInv
    <2>2. \A i \in Items : changed[i] <= walk.next => offered[i] = changed[i]
      BY <1>3 DEF Advance, Covered
    <2>3. Cursor!Advance
      BY <1>3, <2>1, <2>2 DEF Advance, Cursor!Advance
    <2> QED  BY <2>3
  <1>4. CASE UNCHANGED <<changed, seq, offered>> /\ StartPos(sync') = StartPos(sync)
    BY <1>4
  <1> QED
    BY Effects, <1>1, <1>2, <1>3, <1>4 DEF FetchPage, NextPage, envVars, storeVars

\* The delta walker implements the abstract change cursor (ADR-0014).
THEOREM WalkerImplementsCursor == Spec => ImplementsCursor
  <1>1. Init => Cursor!Init
    BY DEF Init, EnvInit, StoreInit, WalkInit, StartPos, Cursor!Init
  <1>2. TypeInv /\ CursorInv /\ [Next]_vars => [Cursor!Next]_(Cursor!vars)
    BY CursorSimulation
  <1> QED
    BY <1>1, <1>2, TypeInvariant, CursorInvariant, PTL
    DEF Spec, ImplementsCursor, Cursor!Spec
============================================================================
