------------------------------ MODULE Library ------------------------------
(***************************************************************************)
(* A List<T>, a SortedList<T> or a HashTable<Key,T> of lib/ and every order *)
(* of calls on it: lib/list.cc on its cells (LinkedLists) and lib/hash.cc   *)
(* over an array of such lists.  LibSelfTest calls them in one fixed order; *)
(* the kernel's other modules use the first two as sequences.               *)
(***************************************************************************)
EXTENDS LinkedLists, SequencesExt

CONSTANTS
  Objects,
  KeyOf(_), Hash(_),          \* getKey and hash of the table
  InitialBuckets, ResizeRatio, IncreaseSizeBy,    \* 4, 3 and 4
  MaxItems                    \* bound on the number of items at a time

\* There is a cell for every item; Compare is an order of the items.
ASSUME LibraryAssumption ==
  /\ InitialBuckets \in Nat \ {0} /\ ResizeRatio \in Nat \ {0}
  /\ IncreaseSizeBy \in Nat \ {0, 1}
  /\ NULL \notin Cells \cup Objects
  /\ Cells \subseteq Nat /\ IsFiniteSet(Cells) /\ MaxItems \in 0..Cardinality(Cells)
  /\ \A x \in Objects : Hash(KeyOf(x)) \in Nat
  /\ \A x, y \in Objects : Compare(x, y) \in Int /\ (Compare(x, y) < 0 <=> Compare(y, x) > 0)
  /\ \A x, y, z \in Objects : Compare(x, y) <= 0 /\ Compare(y, z) <= 0 => Compare(x, z) <= 0

VARIABLES
  kind,       \* which of the three is under test
  store,      \* the allocated cells
  buckets,    \* sequence of lists: the buckets of the table, or the one list
  numItems,   \* of the table
  answer      \* what the last call returned
libraryVars == <<kind, store, buckets, numItems, answer>>

NumBuckets == Len(buckets)
HashValue(key, sz) == (Hash(key) % sz) + 1
InitBuckets(sz) == [b \in 1..sz |-> EmptyList]

\* HashTable::FindInBucket: the first item of the bucket with the key.
FindInBucket(h, bucket, key) ==
  LET items == ItemsOf(h, bucket)
      found == {n \in DOMAIN items : KeyOf(items[n]) = key}
  IN  IF found = {} THEN NULL ELSE items[CHOOSE n \in found : \A m \in found : n <= m]
Find(key) == FindInBucket(store, buckets[HashValue(key, NumBuckets)], key)

\* Put an item in its bucket of a table t = [store, buckets].
Put(t, item) ==
  LET b == HashValue(KeyOf(item), Len(t.buckets))
      added == AddLast(t.store, t.buckets[b], item)
  IN  [t EXCEPT !.store = added.store, !.buckets[b] = added.list]

\* HashTable::ReHash: bucket by bucket, each item from the front of its old
\* bucket, whose cell is deleted first, to the end of its new one.
Move(t) ==
  LET b == CHOOSE k \in DOMAIN t.old :
             ~IsEmpty(t.old[k]) /\ \A j \in 1..k - 1 : IsEmpty(t.old[j])
      taken == RemoveFront(t.store, t.old[b])
  IN  Put([t EXCEPT !.store = taken.store, !.old[b] = taken.list],
          t.store[t.old[b].first].item)
ReHash ==
  LET move[n \in 0..numItems] ==
        IF n = 0 THEN [old |-> buckets, store |-> store,
                       buckets |-> InitBuckets(NumBuckets * IncreaseSizeBy)]
        ELSE Move(move[n - 1])
  IN  move[numItems]

Leaves(h, l) == store' = h /\ buckets' = <<l>> /\ UNCHANGED <<kind, numItems>>

ListAdd(x) ==
  /\ kind = "List" /\ ~IsInList(store, buckets[1], x)
  /\ \/ LET r == AddLast(store, buckets[1], x) IN Leaves(r.store, r.list)
     \/ LET r == AddFirst(store, buckets[1], x) IN Leaves(r.store, r.list)
  /\ answer' = NULL

\* Append and Prepend of a SortedList are Insert.
SortedAdd(x) ==
  /\ kind = "SortedList" /\ ~IsInList(store, buckets[1], x)
  /\ LET r == Insert(store, buckets[1], x) IN Leaves(r.store, r.list)
  /\ answer' = NULL

ListRemoveFront ==
  /\ kind # "HashTable" /\ ~IsEmpty(buckets[1])
  /\ LET r == RemoveFront(store, buckets[1]) IN Leaves(r.store, r.list)
  /\ answer' = store[buckets[1].first].item

ListRemove(x) ==
  /\ kind # "HashTable" /\ IsInList(store, buckets[1], x)
  /\ LET r == RemoveItem(store, buckets[1], x) IN Leaves(r.store, r.list)
  /\ answer' = NULL

\* HashTable::Insert, the table grown first if it is too full.
HashInsert(x) ==
  LET full == numItems \div NumBuckets >= ResizeRatio
      t == Put(IF full THEN ReHash ELSE [store |-> store, buckets |-> buckets], x)
  IN
  /\ kind = "HashTable" /\ Find(KeyOf(x)) = NULL
  /\ store' = t.store /\ buckets' = t.buckets
  /\ numItems' = numItems + 1
  /\ answer' = NULL
  /\ UNCHANGED kind

HashRemove(key) ==
  LET b == HashValue(key, NumBuckets)
      item == FindInBucket(store, buckets[b], key)
      r == RemoveItem(store, buckets[b], item)
  IN
  /\ kind = "HashTable" /\ item # NULL
  /\ store' = r.store /\ buckets' = [buckets EXCEPT ![b] = r.list]
  /\ numItems' = numItems - 1
  /\ answer' = item
  /\ UNCHANGED kind

HashFind(key) ==
  /\ kind = "HashTable"
  /\ answer' = Find(key)
  /\ UNCHANGED <<kind, store, buckets, numItems>>

LibraryInit ==
  /\ kind \in {"List", "SortedList", "HashTable"}
  /\ store = [c \in {} |-> 0]
  /\ buckets = InitBuckets(IF kind = "HashTable" THEN InitialBuckets ELSE 1)
  /\ numItems = 0 /\ answer = NULL

LibraryNext ==
  \E x \in Objects :
    \/ Cardinality(DOMAIN store) < MaxItems /\ (ListAdd(x) \/ SortedAdd(x) \/ HashInsert(x))
    \/ ListRemoveFront
    \/ ListRemove(x)
    \/ HashRemove(KeyOf(x))
    \/ HashFind(KeyOf(x))

LibrarySpec == LibraryInit /\ [][LibraryNext]_libraryVars

-----------------------------------------------------------------------------
(* Iteration: HashIterator over the buckets, ListIterator over each *)

\* Wrong variant of FindNextFullBucket, refused by LibraryInv.
NextFullBelowLast(b) ==
  LET full == {k \in b..NumBuckets - 1 : ~IsEmpty(buckets[k])} IN
  IF full = {} THEN NumBuckets + 1 ELSE CHOOSE k \in full : \A j \in full : k <= j

FindNextFullBucket(b) ==
  LET full == {k \in b..NumBuckets : ~IsEmpty(buckets[k])} IN
  IF full = {} THEN NumBuckets + 1 ELSE CHOOSE k \in full : \A j \in full : k <= j

\* A position is the current cell of the current bucket.
IteratorStart ==
  LET b == FindNextFullBucket(1) IN
  [bucket |-> b, at |-> IF b <= NumBuckets THEN buckets[b].first ELSE NULL]
IteratorNext(i) ==
  LET next == store[i.at].next  b == FindNextFullBucket(i.bucket + 1) IN
  IF next # NULL THEN [i EXCEPT !.at = next]
  ELSE [bucket |-> b, at |-> IF b <= NumBuckets THEN buckets[b].first ELSE NULL]
IsDone(i) == i.bucket = NumBuckets + 1

\* The items a loop over an iterator meets, in at most one step for each cell.
Iterate(p) ==
  IF IsDone(p.i) THEN p
  ELSE [i |-> IteratorNext(p.i), met |-> Append(p.met, store[p.i.at].item)]
Iteration ==
  LET run[n \in 0..Cardinality(DOMAIN store) + 1] ==
        IF n = 0 THEN [i |-> IteratorStart, met |-> <<>>] ELSE Iterate(run[n - 1])
  IN  run[Cardinality(DOMAIN store) + 1].met

-----------------------------------------------------------------------------
(* Properties *)

Stored(b) == ToSet(CellsOf(store, buckets[b]))

\* A loop over an iterator meets every item once, however full the buckets are
\* and after any number of changes of the table's size.
IterationIsComplete ==
  LET met == Iteration IN
  IsInjective(met) /\ ToSet(met) = {store[c].item : c \in DOMAIN store}

\* The assertions of the three SanityChecks, after any calls; and no cell is on
\* two lists, none is lost, and none that was deleted is still linked.
LibraryInv ==
  /\ \A b \in 1..NumBuckets :
       /\ Sane(store, buckets[b])
       /\ kind = "SortedList" => Sorted(store, buckets[b])
       /\ kind = "HashTable" =>
            \A x \in ToSet(ItemsOf(store, buckets[b])) : HashValue(KeyOf(x), NumBuckets) = b
       /\ \A c \in 1..b - 1 : Stored(b) \cap Stored(c) = {}
  /\ UNION {Stored(b) : b \in 1..NumBuckets} = DOMAIN store
  /\ kind = "HashTable" => numItems = Cardinality(DOMAIN store)
  /\ IterationIsComplete

\* The order of a sorted list.
Before(x, y) == Compare(x, y) < 0
Documented == INSTANCE AbstractLibrary WITH
  Items <- Objects,
  Nothing <- NULL,
  sequence <- IF kind = "HashTable" THEN <<>> ELSE ItemsOf(store, buckets[1]),
  table <- IF kind = "HashTable" THEN {store[c].item : c \in DOMAIN store} ELSE {}
\* Lists are sequences, sorted lists sorted sequences in which items of equal
\* keys keep their order, and tables sets: every call has the effect and the
\* answer the header files promise.
ImplementsLibrary == Documented!ALSpec
=============================================================================
