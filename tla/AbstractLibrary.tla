-------------------------- MODULE AbstractLibrary --------------------------
(***************************************************************************)
(* What lib/list.h and lib/hash.h promise: a list is a sequence, a sorted   *)
(* list a sequence whose items are in the order of the keys and, with equal *)
(* keys, in the order they came, and a hash table a set of items found by   *)
(* their keys.                                                             *)
(***************************************************************************)
EXTENDS Integers, Sequences, SequencesExt

CONSTANTS Items, Nothing, KeyOf(_), Before(_, _)
VARIABLES kind,        \* "List", "SortedList" or "HashTable"
          sequence,    \* the items of a list
          table,       \* the items of a hash table
          answer       \* what the last operation returned
alVars == <<kind, sequence, table, answer>>

ALInit == kind \in {"List", "SortedList", "HashTable"}
          /\ sequence = <<>> /\ table = {} /\ answer = Nothing

Contents == ToSet(sequence) \cup table
Returns(x) == answer' = x /\ UNCHANGED kind

AAdd(x) ==
  /\ x \notin Contents
  /\ Returns(Nothing)
  /\ CASE kind = "List" ->
            sequence' \in {Append(sequence, x), <<x>> \o sequence} /\ table' = table
       [] kind = "SortedList" ->
            /\ \E n \in 0..Len(sequence) :
                 /\ \A j \in 1..n : ~Before(x, sequence[j])
                 /\ \A j \in n + 1..Len(sequence) : Before(x, sequence[j])
                 /\ sequence' = InsertAt(sequence, n + 1, x)
            /\ table' = table
       [] kind = "HashTable" -> table' = table \cup {x} /\ sequence' = sequence

ARemoveFront ==
  /\ sequence # <<>>
  /\ sequence' = Tail(sequence) /\ table' = table /\ Returns(Head(sequence))

ARemove(x) ==
  /\ x \in Contents
  /\ IF kind = "HashTable" THEN sequence' = sequence
     ELSE \E n \in DOMAIN sequence : sequence[n] = x /\ sequence' = RemoveAt(sequence, n)
  /\ table' = table \ {x}
  /\ Returns(IF kind = "HashTable" THEN x ELSE Nothing)

\* Find: the item with the key, or NULL.
AFind(key) ==
  /\ kind = "HashTable"
  /\ Returns(IF \E x \in table : KeyOf(x) = key
               THEN CHOOSE x \in table : KeyOf(x) = key ELSE Nothing)
  /\ UNCHANGED <<sequence, table>>

ALNext == \/ \E x \in Items : AAdd(x) \/ ARemove(x) \/ AFind(KeyOf(x))
          \/ ARemoveFront
ALSpec == ALInit /\ [][ALNext]_alVars
=============================================================================
