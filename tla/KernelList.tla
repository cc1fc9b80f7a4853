----------------------------- MODULE KernelList -----------------------------
(***************************************************************************)
(* The kernel's lists (firmware/librtos/list.c).  A list is a circle of    *)
(* items closed by an end marker, with an index that walks it: items is    *)
(* the circle read from the end marker, index the position of pxIndex,     *)
(* with 0 for the end marker itself.  Only the ready lists are walked; of  *)
(* the others the model keeps the items.                                   *)
(***************************************************************************)
EXTENDS Integers, Sequences, SequencesExt

EmptyList == [items |-> <<>>, index |-> 0]

\* A new item goes in just behind the index: last in the round.
vListInsertEnd(l, e) ==
  IF l.index = 0
  THEN [l EXCEPT !.items = Append(@, e)]
  ELSE [items |-> InsertAt(l.items, l.index, e), index |-> l.index + 1]

\* A sorted list takes the item behind those of an equal value.
vListInsert(s, e, value) ==
  LET i == SelectInSeq(s, LAMBDA x : value[x] > value[e])
  IN  IF i = 0 THEN Append(s, e) ELSE InsertAt(s, i, e)

\* An index at the removed item steps back to the one before it.
uxListRemove(l, e) ==
  LET i == SelectInSeq(l.items, LAMBDA x : x = e)
  IN  IF i = 0 THEN l
      ELSE [items |-> RemoveAt(l.items, i),
            index |-> IF l.index >= i THEN l.index - 1 ELSE l.index]

\* listGET_OWNER_OF_NEXT_ENTRY: the index moves on, over the end marker.
NextEntry(l) == [l EXCEPT !.index = (@ % Len(l.items)) + 1]

Holds(l, e) == Contains(l.items, e)
=============================================================================
