---------------------------- MODULE LinkedLists ----------------------------
(***************************************************************************)
(* List<T> and SortedList<T> of lib/list.cc on their cells.  A store h maps *)
(* the cells that are allocated (ListElements) to their item and their next *)
(* cell; a list is the record of its members first, last and numInList.     *)
(* Each operation yields the store and the list it leaves.  The assertion   *)
(* !IsInList(item) of the operations that add is their callers' duty.       *)
(***************************************************************************)
EXTENDS Integers, Sequences, FiniteSets

CONSTANTS
  Cells,            \* where ListElements may be allocated: a set of numbers
  NULL,
  Compare(_, _)     \* the order of a SortedList: -1, 0 or 1

EmptyList == [first |-> NULL, last |-> NULL, numInList |-> 0]
IsEmpty(l) == l.numInList = 0

\* new never fails: there is a cell for every item.
Free(h) == Cells \ DOMAIN h
New(h) == CHOOSE c \in Free(h) : \A d \in Free(h) : c <= d
Cell(item, next) == [item |-> item, next |-> next]
With(h, c, cell) == [d \in DOMAIN h \cup {c} |-> IF d = c THEN cell ELSE h[d]]
Delete(h, c) == [d \in DOMAIN h \ {c} |-> h[d]]
Result(h, l) == [store |-> h, list |-> l]

\* The cells from c on, as every loop over a list meets them; at most one round
\* over the whole store, which a list that is not circular never needs.
Advance(h, w) ==
  IF w.at \in DOMAIN h THEN [met |-> Append(w.met, w.at), at |-> h[w.at].next] ELSE w
From(h, c) ==
  LET walk[n \in 0..Cardinality(DOMAIN h) + 1] ==
        IF n = 0 THEN [met |-> <<>>, at |-> c] ELSE Advance(h, walk[n - 1])
  IN  walk[Cardinality(DOMAIN h) + 1].met

CellsOf(h, l) == From(h, l.first)
ItemsOf(h, l) == LET cells == CellsOf(h, l) IN [n \in DOMAIN cells |-> h[cells[n]].item]
IsInList(h, l, item) == LET items == ItemsOf(h, l) IN \E n \in DOMAIN items : items[n] = item

\* Wrong variant of AddLast, refused by ImplementsLibrary.
AddLastForgetsLast(h, l, item) ==
  LET e == New(h)  h1 == With(h, e, Cell(item, NULL)) IN
  IF IsEmpty(l) THEN Result(h1, [first |-> e, last |-> e, numInList |-> 1])
  ELSE Result([h1 EXCEPT ![l.last].next = e], [l EXCEPT !.numInList = @ + 1])

\* List<T>::Append
AddLast(h, l, item) ==
  LET e == New(h)  h1 == With(h, e, Cell(item, NULL)) IN
  IF IsEmpty(l) THEN Result(h1, [first |-> e, last |-> e, numInList |-> 1])
  ELSE Result([h1 EXCEPT ![l.last].next = e],
              [l EXCEPT !.last = e, !.numInList = @ + 1])

\* List<T>::Prepend
AddFirst(h, l, item) ==
  LET e == New(h) IN
  IF IsEmpty(l)
    THEN Result(With(h, e, Cell(item, NULL)), [first |-> e, last |-> e, numInList |-> 1])
    ELSE Result(With(h, e, Cell(item, l.first)), [l EXCEPT !.first = e, !.numInList = @ + 1])

\* List<T>::RemoveFront; the item is that of the first cell.
RemoveFront(h, l) ==
  Result(Delete(h, l.first),
         IF l.first = l.last THEN [first |-> NULL, last |-> NULL, numInList |-> l.numInList - 1]
         ELSE [l EXCEPT !.first = h[l.first].next, !.numInList = @ - 1])

\* Wrong variant of RemoveItem, refused by LibraryInv.
RemoveKeepsLast(h, l, item) ==
  LET cells == CellsOf(h, l)
      n == CHOOSE k \in DOMAIN cells : h[cells[k]].item = item
  IN
  IF n = 1 THEN RemoveFront(h, l)
  ELSE Result([Delete(h, cells[n]) EXCEPT ![cells[n - 1]].next = h[cells[n]].next],
              [l EXCEPT !.numInList = @ - 1])

\* List<T>::Remove, of an item of the list: the first cell that holds it.
RemoveItem(h, l, item) ==
  LET cells == CellsOf(h, l)
      n == CHOOSE k \in DOMAIN cells :
             /\ h[cells[k]].item = item
             /\ \A j \in 1..k - 1 : h[cells[j]].item # item
      next == h[cells[n]].next
  IN
  IF n = 1 THEN RemoveFront(h, l)
  ELSE Result([Delete(h, cells[n]) EXCEPT ![cells[n - 1]].next = next],
              [l EXCEPT !.last = IF next = NULL THEN cells[n - 1] ELSE @,
                        !.numInList = @ - 1])

\* SortedList<T>::Insert: before the first bigger item, behind its equals.
Insert(h, l, item) ==
  LET e == New(h)
      cells == CellsOf(h, l)
      bigger == {n \in 2..Len(cells) : Compare(item, h[cells[n]].item) < 0}
      n == CHOOSE k \in bigger : \A j \in bigger : k <= j
      longer == [l EXCEPT !.numInList = @ + 1]
  IN
  IF IsEmpty(l) THEN
    Result(With(h, e, Cell(item, NULL)), [longer EXCEPT !.first = e, !.last = e])
  ELSE IF Compare(item, h[l.first].item) < 0 THEN
    Result(With(h, e, Cell(item, l.first)), [longer EXCEPT !.first = e])
  ELSE IF bigger # {} THEN
    Result([With(h, e, Cell(item, cells[n])) EXCEPT ![cells[n - 1]].next = e], longer)
  ELSE
    Result([With(h, e, Cell(item, NULL)) EXCEPT ![l.last].next = e],
           [longer EXCEPT !.last = e])

\* List<T>::SanityCheck: its assertions.
Sane(h, l) ==
  LET cells == CellsOf(h, l) IN
  IF l.first = NULL THEN l.numInList = 0 /\ l.last = NULL
  ELSE /\ Len(cells) = l.numInList
       /\ cells[Len(cells)] = l.last
       /\ h[l.last].next = NULL

\* SortedList<T>::SanityCheck
Sorted(h, l) ==
  LET items == ItemsOf(h, l) IN \A n \in 2..Len(items) : Compare(items[n - 1], items[n]) <= 0
=============================================================================
