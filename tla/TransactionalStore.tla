------------------------- MODULE TransactionalStore -------------------------
(***************************************************************************)
(* What the state tree promises to the rest of the VM: a map from actor    *)
(* ids to actor states with nested transactions and a persisted version.   *)
(* Reverting a transaction brings back exactly the map it began with, and  *)
(* flushing, outside of transactions only, persists exactly the map.       *)
(***************************************************************************)
EXTENDS Sequences, Integers

CONSTANTS Keys, Values

VARIABLES
    view,        \* the map, as reads see it
    stack,       \* the map as it was when each open transaction began
    persisted    \* the map under the last flushed root

storeVars == <<view, stack, persisted>>

StoreInit ==
    /\ persisted \in [Keys -> Values]
    /\ view = persisted
    /\ stack = <<>>

Pop(s) == SubSeq(s, 1, Len(s) - 1)

\* Some key gets some value.
Write(k) ==
    /\ view'[k] \in Values
    /\ view' = [view EXCEPT ![k] = view'[k]]
    /\ UNCHANGED <<stack, persisted>>

Begin ==
    /\ stack' = Append(stack, view)
    /\ UNCHANGED <<view, persisted>>

Commit ==
    /\ stack # <<>>
    /\ stack' = Pop(stack)
    /\ UNCHANGED <<view, persisted>>

Revert ==
    /\ stack # <<>>
    /\ view' = stack[Len(stack)]
    /\ stack' = Pop(stack)
    /\ UNCHANGED persisted

Persist ==
    /\ stack = <<>>
    /\ persisted' = view
    /\ UNCHANGED <<view, stack>>

StoreNext ==
    \/ \E k \in Keys : Write(k)
    \/ Begin
    \/ Commit
    \/ Revert
    \/ Persist

StoreSpec == StoreInit /\ [][StoreNext]_storeVars
=============================================================================
