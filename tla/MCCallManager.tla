---------------------------- MODULE MCCallManager ----------------------------
(* A message on a tree with the singletons and some users, one of whom      *)
(* holds all the tokens; nobody has an address but their id.                *)
EXTENDS CallManager, FiniteSetsExt

MCActor(code, balance) ==
    [code |-> code, root |-> EmptyRoot, balance |-> balance, delegated |-> None]

MCCode == CHOOSE c \in Codes : TRUE

MCStarts ==
    {[actors    |-> [i \in Ids |->
                       CASE i = holder              -> MCActor(MCCode, Total)
                         [] i \in Users \ {holder}  -> MCActor(MCCode, 0)
                         [] i \in Singletons        -> MCActor(Account, 0)
                         [] OTHER                   -> None],
      addresses |-> [a \in Addresses |-> None],
      next_id   |-> 1 + Max(Singletons \cup Users)] : holder \in Users}

\* A call under a gas limit may end in every way that a call without one can, so
\* only the read-only calls have none.
LimitedCall == [send |-> FALSE, readOnly |-> FALSE, limited |-> TRUE]
ReadOnlyCall == [send |-> FALSE, readOnly |-> TRUE, limited |-> FALSE]
MCCallFlags == {LimitedCall, ReadOnlyCall}
MCCreationFlags == {LimitedCall, ReadOnlyCall, [LimitedCall EXCEPT !.send = TRUE]}
=============================================================================
