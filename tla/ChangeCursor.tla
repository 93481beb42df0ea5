---------------------------- MODULE ChangeCursor ---------------------------
(***************************************************************************)
(* What a delta walk promises (spec/adr/0014-sharepoint-delta-walker.md),  *)
(* without pages, budgets, tokens or failures: changes are dealt with in   *)
(* any order, and a cursor moves forward over them only once they are.     *)
(***************************************************************************)
EXTENDS Integers

CONSTANT Items

VARIABLES
    changed,        \* changed[i]: position of the item's last change
    seq,            \* length of the change log
    handled,        \* handled[i]: last change of the item dealt with
    cursor          \* everything up to here need not be read again

vars == <<changed, seq, handled, cursor>>

Init ==
    /\ changed = [i \in Items |-> 0]
    /\ seq = 0
    /\ handled = [i \in Items |-> 0]
    /\ cursor = 0

Append(i) ==
    /\ seq' = seq + 1
    /\ changed' = [changed EXCEPT ![i] = seq + 1]
    /\ UNCHANGED <<handled, cursor>>

Handle(i) ==
    /\ \E at \in handled[i] .. changed[i] : handled' = [handled EXCEPT ![i] = at]
    /\ UNCHANGED <<changed, seq, cursor>>

Advance ==
    /\ \E to \in cursor .. seq :
          /\ \A i \in Items : changed[i] <= to => handled[i] = changed[i]
          /\ cursor' = to
    /\ UNCHANGED <<changed, seq, handled>>

Next == Advance \/ \E i \in Items : Append(i) \/ Handle(i)

Spec == Init /\ [][Next]_vars
============================================================================
