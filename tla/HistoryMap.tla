----------------------------- MODULE HistoryMap -----------------------------
(***************************************************************************)
(* HistoryMap (history_map.rs): a map with an undo history.  A history map *)
(* is a record: its map, a function that is Vacant at the keys with no     *)
(* entry, and its history, one [key, old] pair per change, oldest first.   *)
(***************************************************************************)
EXTENDS Integers, Sequences

CONSTANT Vacant   \* no entry: Entry::Vacant, and the None of the history

\* The entries of the history, and the history maps, over some keys and values.
Changes(Keys, Values) == [key : Keys, old : Values \cup {Vacant}]
HistoryMaps(Keys, Values) ==
    [map : [Keys -> Values \cup {Vacant}], history : Seq(Changes(Keys, Values))]

\* HistoryMap::default over a set of keys.
EmptyHistoryMap(Keys) == [map |-> [k \in Keys |-> Vacant], history |-> <<>>]

\* insert: nothing happens when the entry already has the value; otherwise the
\* old value, or that there was none, goes to the history.
Insert(h, k, v) ==
    IF h.map[k] = v
    THEN h
    ELSE [map     |-> [h.map EXCEPT ![k] = v],
          history |-> Append(h.history, [key |-> k, old |-> h.map[k]])]

\* get_or_try_insert_with, when the initializer returns v.
GetOrInsert(h, k, v) == IF h.map[k] = Vacant THEN Insert(h, k, v) ELSE h

\* history_len.
HistoryLen(h) == Len(h.history)

\* The changes made to key k after the history had the given length.
ChangesSince(h, height, k) == {i \in height + 1 .. Len(h.history) : h.history[i].key = k}

\* The value key k had then: what the first of those changes replaced.
ValueAt(h, height, k) ==
    LET changes == ChangesSince(h, height, k)
        first == CHOOSE i \in changes : \A j \in changes : i <= j
    IN  IF changes = {} THEN h.map[k] ELSE h.history[first].old

\* rollback that restores what the last change replaced, as if the history were
\* drained from its oldest entry to its newest.
RollbackInOrder(h, height) ==
    LET last(k) == CHOOSE i \in ChangesSince(h, height, k) :
                      \A j \in ChangesSince(h, height, k) : i >= j
    IN  IF Len(h.history) <= height
        THEN h
        ELSE [map     |-> [k \in DOMAIN h.map |->
                             IF ChangesSince(h, height, k) = {} THEN h.map[k]
                             ELSE h.history[last(k)].old],
              history |-> SubSeq(h.history, 1, height)]

\* rollback.  The code undoes the changes after `height` from the newest to the
\* oldest; each overwrites the effect of the later ones on its key, so what
\* remains for a key is the old value of its oldest change.  RollbackLoop is the
\* loop itself.
Rollback(h, height) ==
    IF Len(h.history) <= height
    THEN h
    ELSE [map     |-> [k \in DOMAIN h.map |-> ValueAt(h, height, k)],
          history |-> SubSeq(h.history, 1, height)]

\* The loop of rollback: for (k, v) in history.drain(height..).rev().
RollbackLoop(h, height) ==
    LET undo[n \in 0 .. Len(h.history)] ==
            IF n = Len(h.history) THEN h.map
            ELSE LET change == h.history[n + 1]
                 IN  [undo[n + 1] EXCEPT ![change.key] = change.old]
    IN  IF Len(h.history) <= height
        THEN h
        ELSE [map |-> undo[height], history |-> SubSeq(h.history, 1, height)]

\* discard_history.
DiscardHistory(h) == [h EXCEPT !.history = <<>>]
=============================================================================
