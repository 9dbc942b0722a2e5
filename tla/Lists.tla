------------------------------- MODULE Lists -------------------------------
(***************************************************************************)
(* The List<T> of lib/list.h as the rest of the kernel uses it: a sequence *)
(* of items, where List::Append is Append and List::RemoveFront takes the  *)
(* Head and leaves the Tail.                                               *)
(***************************************************************************)
EXTENDS Naturals, Sequences

\* List<T>::IsInList, which List<T>::Append asserts to be false.
InList(t, list) == \E i \in DOMAIN list : list[i] = t

\* What the assertions of List<T>::Append keep: no item is there twice.
Distinct(list) == \A i, j \in DOMAIN list : list[i] = list[j] => i = j

=============================================================================
