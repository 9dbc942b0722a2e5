----------------------------- MODULE ListProofs -----------------------------
(***************************************************************************)
(* Proofs about SynchList, for any finite set of threads and any items:    *)
(* SynchListInv is kept by every step, and under it the list implements    *)
(* the queue of AbstractQueue.  Proofs about Library, for any objects and  *)
(* any sizes of the table: the cells of each list form a chain of its own, *)
(* every operation is an insertion into its chain or a removal, and so the *)
(* lists and the table are what AbstractLibrary says.                      *)
(***************************************************************************)
EXTENDS SynchList, Library, FunctionTheorems, FiniteSetTheorems, SequenceTheorems,
        WellFoundedInduction, TLAPS

-----------------------------------------------------------------------------
(***************************************************************************)
(* What Append and RemoveFront do to the set of the items of a list and to *)
(* the absence of duplicates (lib/list.cc).                                *)
(***************************************************************************)

\* List<T>::Append adds its item and nothing else.
LEMMA InListAppend ==
    ASSUME NEW S, NEW line \in Seq(S), NEW u \in S, NEW t
    PROVE  InList(t, Append(line, u)) <=> (InList(t, line) \/ t = u)
  <1>1. /\ \A i \in DOMAIN line : /\ i \in DOMAIN Append(line, u)
                                  /\ Append(line, u)[i] = line[i]
        /\ Len(line) + 1 \in DOMAIN Append(line, u)
        /\ Append(line, u)[Len(line) + 1] = u
    OBVIOUS
  <1>2. \A i \in DOMAIN Append(line, u) : i \in DOMAIN line \/ i = Len(line) + 1
    OBVIOUS
  <1> QED BY <1>1, <1>2 DEF InList

\* List<T>::Append of an item that is not in the list (its assertion) keeps
\* the list without duplicates.
LEMMA DistinctAppend ==
    ASSUME NEW S, NEW line \in Seq(S), NEW u \in S,
           Distinct(line), ~ InList(u, line)
    PROVE  Distinct(Append(line, u))
  BY DEF Distinct, InList

\* The first item of a list is in it.
LEMMA HeadInList ==
    ASSUME NEW S, NEW line \in Seq(S), line # <<>>
    PROVE  Head(line) \in S /\ InList(Head(line), line)
  BY 1 \in DOMAIN line, Head(line) = line[1] DEF InList

\* List<T>::RemoveFront removes the first item and nothing else.
LEMMA InListTail ==
    ASSUME NEW S, NEW line \in Seq(S), line # <<>>, Distinct(line), NEW t
    PROVE  InList(t, Tail(line)) <=> (InList(t, line) /\ t # Head(line))
  <1>1. \A i \in DOMAIN Tail(line) : /\ i + 1 \in DOMAIN line /\ i + 1 # 1
                                     /\ Tail(line)[i] = line[i + 1]
    OBVIOUS
  <1>2. 1 \in DOMAIN line /\ Head(line) = line[1]
    OBVIOUS
  <1>3. \A i \in DOMAIN line :
          i # 1 => i - 1 \in DOMAIN Tail(line) /\ Tail(line)[i - 1] = line[i]
    OBVIOUS
  <1>4. InList(t, Tail(line)) => InList(t, line) /\ t # Head(line)
    BY <1>1, <1>2 DEF InList, Distinct
  <1>5. InList(t, line) /\ t # Head(line) => InList(t, Tail(line))
    BY <1>2, <1>3 DEF InList
  <1> QED BY <1>4, <1>5

\* List<T>::RemoveFront keeps the list without duplicates.
LEMMA DistinctTail ==
    ASSUME NEW S, NEW line \in Seq(S), line # <<>>, Distinct(line)
    PROVE  Distinct(Tail(line))
  BY \A i \in DOMAIN Tail(line) : i + 1 \in DOMAIN line /\ Tail(line)[i] = line[i + 1]
  DEF Distinct

-----------------------------------------------------------------------------
(***************************************************************************)
(* What a step does to where the threads are: PlaceExact and TypeOK need   *)
(* nothing of the list and the items.                                      *)
(***************************************************************************)

\* Coming is a finite set, so its Cardinality counts.
LEMMA ComingFinite ==
    /\ IsFiniteSet(Coming)
    /\ Cardinality(Coming) \in Nat
  <1>1. Coming \subseteq Threads
    BY DEF Coming
  <1> QED BY <1>1, SynchListAssumption, FS_Subset, FS_CardinalityType

\* Acquire, called by a thread that is in no operation, takes the lock or
\* asks for it.
LEMMA AcquireCallPlace ==
    ASSUME TypeOK, PlaceExact, NEW t \in Threads, op[t] = "none",
           AcquireCall(t), NEW to \in {"append", "remove", "apply"}, Goes(t, to)
    PROVE  /\ PlaceExact'
           /\ holder' \in Threads \cup {NoThread}
           /\ asking' \subseteq Threads
           /\ waiters' = waiters
           /\ ~ InWaiters(t)
  <1>1. /\ waiters' = waiters
        /\ \/ holder = NoThread /\ holder' = t /\ asking' = asking
           \/ holder' = holder /\ asking' = asking \cup {t}
        /\ op' = [op EXCEPT ![t] = to]
    BY DEF AcquireCall, EnterAtOnce, Ask, Goes
  <1>2. \A u \in Threads : InWaiters(u)' <=> InWaiters(u)
    BY <1>1 DEF InWaiters
  <1>3. ~ InWaiters(t) /\ holder # t /\ t \notin asking
    BY DEF PlaceExact
  <1>4. /\ op \in [Threads -> Operations]
        /\ \A u \in Threads : op'[u] = IF u = t THEN to ELSE op[u]
    BY <1>1 DEF TypeOK
  <1>5. PlaceExact'
    <2>1. Distinct(waiters)'
      BY <1>1 DEF PlaceExact, Distinct
    <2>2. ASSUME NEW u \in Threads
          PROVE  /\ InWaiters(u)' => op'[u] = "remove"
                 /\ op'[u] # "none" <=> (holder' = u \/ u \in asking' \/ InWaiters(u)')
                 /\ ~(holder' = u /\ u \in asking')
                 /\ ~(InWaiters(u)' /\ (holder' = u \/ u \in asking'))
                 /\ op'[u] = "appended" => holder' = u
      <3>1. CASE u = t
        BY <1>1, <1>2, <1>3, <1>4, <3>1, SynchListAssumption
      <3>2. CASE u # t
        BY <1>1, <1>2, <1>4, <3>2, SynchListAssumption DEF PlaceExact
      <3> QED BY <3>1, <3>2
    <2> QED BY <2>1, <2>2 DEF PlaceExact
  <1> QED BY <1>1, <1>3, <1>5 DEF TypeOK

\* Release at the end of an operation: the holder is in no operation and
\* nobody else has moved.
LEMMA LeavePlace ==
    ASSUME TypeOK, PlaceExact, NEW t \in Threads,
           Leave(t), Goes(t, "none"), UNCHANGED waiters
    PROVE  /\ PlaceExact'
           /\ holder' = NoThread
           /\ asking' = asking
           /\ ~ InWaiters(t)
  <1>1. /\ holder = t /\ holder' = NoThread /\ asking' = asking
        /\ op' = [op EXCEPT ![t] = "none"]
    BY DEF Leave, Goes
  <1>2. \A u \in Threads : InWaiters(u)' <=> InWaiters(u)
    BY DEF InWaiters
  <1>3. ~ InWaiters(t) /\ t \notin asking
    BY <1>1 DEF PlaceExact
  <1>4. \A u \in Threads : op'[u] = IF u = t THEN "none" ELSE op[u]
    BY <1>1 DEF TypeOK
  <1>5. Distinct(waiters)'
    BY DEF PlaceExact, Distinct
  <1>6. PlaceExact'
    BY <1>1, <1>2, <1>3, <1>4, <1>5, SynchListAssumption DEF PlaceExact
  <1> QED BY <1>1, <1>3, <1>6

-----------------------------------------------------------------------------
(***************************************************************************)
(* The operations, one lemma each.                                         *)
(***************************************************************************)

\* The list is empty and nobody is in an operation.
LEMMA InitInv == Init => SynchListInv
  <1> SUFFICES ASSUME Init PROVE SynchListInv
    OBVIOUS
  <1> USE SynchListAssumption DEF Init, MonitorInit
  <1>1. TypeOK
    BY DEF TypeOK, Operations
  <1>2. PlaceExact
    BY DEF PlaceExact, Distinct, InWaiters, InList
  <1>3. ItemsDistinct
    BY DEF ItemsDistinct, Distinct
  <1>4. NoItemForgotten
    BY DEF NoItemForgotten
  <1> QED BY <1>1, <1>2, <1>3, <1>4 DEF SynchListInv

\* Neither the waiters nor the list grow, and no remover gets lost.
LEMMA NoItemForgottenKept ==
    ASSUME TypeOK, NoItemForgotten, waiters' = waiters, list' = list,
           \A t \in Threads : op[t] = "remove" => op'[t] = "remove"
    PROVE  NoItemForgotten'
  <1>1. Coming \subseteq Coming'
    BY DEF Coming, InWaiters
  <1>2. Coming' \subseteq Threads
    BY DEF Coming
  <1>3. IsFiniteSet(Coming') /\ Cardinality(Coming) <= Cardinality(Coming')
    BY <1>1, <1>2, SynchListAssumption, FS_Subset
  <1>4. Cardinality(Coming') \in Nat
    BY <1>3, FS_CardinalityType
  <1>5. Cardinality(Coming)' = Cardinality(Coming')
    OBVIOUS
  <1>6. Len(list) \in Nat
    BY DEF TypeOK
  <1> QED BY <1>3, <1>4, <1>6, ComingFinite DEF NoItemForgotten

LEMMA AcquiredInv ==
    ASSUME SynchListInv, NEW t \in Threads, Acquired(t)
    PROVE  SynchListInv'
  <1>1. /\ holder = NoThread /\ t \in asking
        /\ holder' = t /\ asking' = asking \ {t}
        /\ UNCHANGED <<waiters, list, op, item, got>>
    BY DEF Acquired, Enter
  <1>2. TypeOK'
    BY <1>1 DEF SynchListInv, TypeOK
  <1>3. PlaceExact'
    <2>1. \A u \in Threads : InWaiters(u)' <=> InWaiters(u)
      BY <1>1 DEF InWaiters
    <2>2. Distinct(waiters)'
      BY <1>1 DEF SynchListInv, PlaceExact, Distinct
    <2> QED BY <1>1, <2>1, <2>2, SynchListAssumption DEF SynchListInv, PlaceExact
  <1>4. ItemsDistinct'
    BY <1>1 DEF SynchListInv, ItemsDistinct, Distinct, InList
  <1>5. NoItemForgotten'
    BY <1>1, NoItemForgottenKept DEF SynchListInv
  <1> QED BY <1>2, <1>3, <1>4, <1>5 DEF SynchListInv

\* The item that Append is called with is nobody else's.
LEMMA CallAppendInv ==
    ASSUME SynchListInv, NEW t \in Threads, NEW v \in Items, CallAppend(t, v)
    PROVE  SynchListInv'
  <1>1. /\ op[t] = "none" /\ ~ InList(v, list)
        /\ \A u \in Threads : item[u] # v
        /\ AcquireCall(t) /\ Goes(t, "append")
        /\ item' = [item EXCEPT ![t] = v]
        /\ UNCHANGED <<list, got>>
    BY DEF CallAppend
  <1>2. /\ TypeOK /\ PlaceExact /\ ItemsDistinct /\ NoItemForgotten
    BY DEF SynchListInv
  <1>3. /\ PlaceExact' /\ holder' \in Threads \cup {NoThread}
        /\ asking' \subseteq Threads /\ waiters' = waiters
    BY <1>1, <1>2, AcquireCallPlace
  <1>4. TypeOK'
    BY <1>1, <1>2, <1>3 DEF TypeOK, Goes, Operations
  <1>5. ItemsDistinct'
    <2>1. /\ \A u \in Threads : op'[u] = IF u = t THEN "append" ELSE op[u]
          /\ \A u \in Threads : item'[u] = IF u = t THEN v ELSE item[u]
      BY <1>1, <1>2 DEF TypeOK, Goes
    <2>2. \A w : InList(w, list)' <=> InList(w, list)
      BY <1>1 DEF InList
    <2>3. Distinct(list)'
      BY <1>1, <1>2 DEF ItemsDistinct, Distinct
    <2>4. \A u \in Threads :
            /\ op'[u] = "append" => item'[u] \in Items /\ ~ InList(item'[u], list')
            /\ op'[u] \notin {"append", "appended"} => item'[u] = NoItem
      BY <1>1, <1>2, <2>1, <2>2 DEF ItemsDistinct
    <2>5. \A u, w \in Threads : item'[u] = item'[w] /\ item'[u] # NoItem => u = w
      BY <1>1, <1>2, <2>1 DEF ItemsDistinct
    <2> QED BY <2>3, <2>4, <2>5 DEF ItemsDistinct
  <1>6. NoItemForgotten'
    BY <1>1, <1>2, <1>3, NoItemForgottenKept DEF TypeOK, Goes
  <1> QED BY <1>3, <1>4, <1>5, <1>6 DEF SynchListInv

\* RemoveFront and Apply are called: the list and the items stay.
LEMMA CallOtherInv ==
    ASSUME SynchListInv, NEW t \in Threads, CallRemoveFront(t) \/ CallApply(t)
    PROVE  SynchListInv'
  <1>1. PICK to \in {"remove", "apply"} :
           /\ op[t] = "none" /\ AcquireCall(t) /\ Goes(t, to)
           /\ UNCHANGED <<list, item, got>>
    BY DEF CallRemoveFront, CallApply
  <1>2. /\ TypeOK /\ PlaceExact /\ ItemsDistinct /\ NoItemForgotten
    BY DEF SynchListInv
  <1>3. /\ PlaceExact' /\ holder' \in Threads \cup {NoThread}
        /\ asking' \subseteq Threads /\ waiters' = waiters
    BY <1>1, <1>2, AcquireCallPlace
  <1>4. TypeOK'
    BY <1>1, <1>2, <1>3 DEF TypeOK, Goes, Operations
  <1>5. ItemsDistinct'
    BY <1>1, <1>2 DEF TypeOK, ItemsDistinct, Distinct, InList, Goes
  <1>6. NoItemForgotten'
    BY <1>1, <1>2, <1>3, NoItemForgottenKept DEF TypeOK, Goes
  <1> QED BY <1>3, <1>4, <1>5, <1>6 DEF SynchListInv

\* Append adds the item and signals: the waiter that is woken is one more
\* remover on its way for the one item that is added.
LEMMA DoAppendInv ==
    ASSUME SynchListInv, NEW t \in Threads, DoAppend(t)
    PROVE  SynchListInv'
  <1>1. /\ holder = t /\ op[t] = "append"
        /\ list' = Append(list, item[t])
        /\ holder' = holder
        /\ op' = [op EXCEPT ![t] = "appended"]
        /\ UNCHANGED <<item, got>>
    BY DEF DoAppend, Signal, Goes
  <1>2. /\ TypeOK /\ PlaceExact /\ ItemsDistinct /\ NoItemForgotten
        /\ waiters \in Seq(Threads) /\ Distinct(waiters)
        /\ list \in Seq(Items)
        /\ item[t] \in Items /\ ~ InList(item[t], list)
    BY <1>1 DEF SynchListInv, TypeOK, PlaceExact, ItemsDistinct
  <1>3. /\ \A u \in Threads : op'[u] = IF u = t THEN "appended" ELSE op[u]
    BY <1>1, <1>2 DEF TypeOK
  <1>4. ItemsDistinct'
    <2>1. Distinct(list)'
      BY <1>1, <1>2, DistinctAppend DEF ItemsDistinct
    <2>2. ASSUME NEW u \in Threads, op'[u] = "append"
          PROVE  item'[u] \in Items /\ ~ InList(item'[u], list')
      <3>1. u # t /\ op[u] = "append" /\ item[u] # item[t]
        BY <1>2, <1>3, <2>2, SynchListAssumption DEF ItemsDistinct
      <3>2. InList(item[u], Append(list, item[t])) <=> InList(item[u], list)
        BY <1>2, <3>1, InListAppend
      <3> QED BY <1>1, <1>2, <3>1, <3>2 DEF ItemsDistinct
    <2>3. ASSUME NEW u \in Threads, op'[u] \notin {"append", "appended"}
          PROVE  item'[u] = NoItem
      BY <1>1, <1>2, <1>3, <2>3 DEF ItemsDistinct
    <2> QED BY <1>1, <1>2, <2>1, <2>2, <2>3 DEF ItemsDistinct
  <1>5. CASE waiters = <<>>
    <2>1. waiters' = waiters /\ asking' = asking
      BY <1>5 DEF DoAppend, Signal
    <2>2. TypeOK'
      BY <1>1, <1>2, <2>1 DEF TypeOK, Operations
    <2>3. PlaceExact'
      BY <1>1, <1>2, <1>3, <2>1 DEF PlaceExact, InWaiters, InList, Distinct
    <2>4. NoItemForgotten'
      BY <1>5, <2>1 DEF NoItemForgotten
    <2> QED BY <1>4, <2>2, <2>3, <2>4 DEF SynchListInv
  <1>6. CASE waiters # <<>>
    <2> DEFINE h == Head(waiters)
    <2>1. /\ waiters' = Tail(waiters) /\ asking' = asking \cup {h}
          /\ h \in Threads /\ InWaiters(h)
      BY <1>2, <1>6, HeadInList DEF DoAppend, Signal, InWaiters
    <2>2. \A u \in Threads : InWaiters(u)' <=> (InWaiters(u) /\ u # h)
      BY <1>2, <1>6, <2>1, InListTail DEF InWaiters
    <2>3. op[h] = "remove" /\ h # t
      BY <1>1, <1>2, <2>1 DEF PlaceExact
    <2>4. TypeOK'
      BY <1>1, <1>2, <1>6, <2>1 DEF TypeOK, Operations
    <2>5. PlaceExact'
      <3>1. Distinct(waiters)'
        BY <1>2, <1>6, <2>1, DistinctTail
      <3>2. ASSUME NEW u \in Threads
            PROVE  /\ InWaiters(u)' => op'[u] = "remove"
                   /\ op'[u] # "none" <=>
                        (holder' = u \/ u \in asking' \/ InWaiters(u)')
                   /\ ~(holder' = u /\ u \in asking')
                   /\ ~(InWaiters(u)' /\ (holder' = u \/ u \in asking'))
                   /\ op'[u] = "appended" => holder' = u
        BY <1>1, <1>2, <1>3, <2>1, <2>2, <2>3 DEF PlaceExact
      <3> QED BY <3>1, <3>2 DEF PlaceExact
    <2>6. NoItemForgotten'
      <3>1. Coming' = Coming \cup {h}
        BY <1>1, <1>2, <1>3, <2>1, <2>2, <2>3 DEF Coming, PlaceExact
      <3>2. h \notin Coming
        BY <2>1 DEF Coming
      <3>3. Cardinality(Coming') = Cardinality(Coming) + 1
        BY <3>1, <3>2, ComingFinite, FS_AddElement
      <3>4. Len(list') = Len(list) + 1 /\ Len(list) \in Nat
        BY <1>1, <1>2
      <3>5. Cardinality(Coming) >= Len(list)
        BY <1>2, <1>6 DEF NoItemForgotten
      <3>6. Cardinality(Coming') >= Len(list')
        BY <3>3, <3>4, <3>5, ComingFinite
      <3> QED BY <3>6 DEF NoItemForgotten
    <2> QED BY <1>4, <2>4, <2>5, <2>6 DEF SynchListInv
  <1> QED BY <1>5, <1>6

\* Release at the end of Append, with the item in the list.
LEMMA ReturnFromAppendInv ==
    ASSUME SynchListInv, NEW t \in Threads, ReturnFromAppend(t)
    PROVE  SynchListInv'
  <1>1. /\ op[t] = "appended" /\ Leave(t) /\ Goes(t, "none")
        /\ item' = [item EXCEPT ![t] = NoItem]
        /\ UNCHANGED <<waiters, list, got>>
    BY DEF ReturnFromAppend
  <1>2. /\ TypeOK /\ PlaceExact /\ ItemsDistinct /\ NoItemForgotten
    BY DEF SynchListInv
  <1>3. PlaceExact' /\ holder' = NoThread /\ asking' = asking
    BY <1>1, <1>2, LeavePlace
  <1>4. TypeOK'
    BY <1>1, <1>2, <1>3 DEF TypeOK, Goes, Operations
  <1>5. ItemsDistinct'
    <2>1. /\ \A u \in Threads : op'[u] = IF u = t THEN "none" ELSE op[u]
          /\ \A u \in Threads : item'[u] = IF u = t THEN NoItem ELSE item[u]
      BY <1>1, <1>2 DEF TypeOK, Goes
    <2> QED BY <1>1, <1>2, <2>1 DEF ItemsDistinct, Distinct, InList
  <1>6. NoItemForgotten'
    BY <1>1, <1>2, NoItemForgottenKept DEF TypeOK, Goes
  <1> QED BY <1>3, <1>4, <1>5, <1>6 DEF SynchListInv

\* A remover that finds nothing joins the waiters and frees the lock.
LEMMA WaitWhileEmptyInv ==
    ASSUME SynchListInv, NEW t \in Threads, WaitWhileEmpty(t)
    PROVE  SynchListInv'
  <1>1. /\ holder = t /\ op[t] = "remove" /\ list = <<>>
        /\ ~ InWaiters(t)
        /\ holder' = NoThread /\ waiters' = Append(waiters, t)
        /\ asking' = asking
        /\ UNCHANGED <<list, op, item, got>>
    BY DEF WaitWhileEmpty, Wait
  <1>2. /\ TypeOK /\ PlaceExact /\ ItemsDistinct
        /\ waiters \in Seq(Threads) /\ Distinct(waiters)
    BY DEF SynchListInv, TypeOK, PlaceExact
  <1>3. TypeOK'
    BY <1>1, <1>2 DEF TypeOK
  <1>4. PlaceExact'
    <2>1. \A u \in Threads : InWaiters(u)' <=> (InWaiters(u) \/ u = t)
      BY <1>1, <1>2, InListAppend DEF InWaiters
    <2>2. Distinct(waiters)'
      BY <1>1, <1>2, DistinctAppend DEF InWaiters
    <2> QED BY <1>1, <1>2, <2>1, <2>2, SynchListAssumption DEF PlaceExact
  <1>5. ItemsDistinct'
    BY <1>1, <1>2 DEF ItemsDistinct, Distinct, InList
  <1>6. NoItemForgotten'
    <2>1. Len(list') = 0
      BY <1>1
    <2>2. Cardinality(Coming') \in Nat
      <3>1. Coming' \subseteq Threads
        BY DEF Coming
      <3> QED BY <3>1, SynchListAssumption, FS_Subset, FS_CardinalityType
    <2> QED BY <2>1, <2>2 DEF NoItemForgotten
  <1> QED BY <1>3, <1>4, <1>5, <1>6 DEF SynchListInv

\* One item less, and one remover less on its way.
LEMMA RemoveFrontInv ==
    ASSUME SynchListInv, NEW t \in Threads, DoRemoveFront(t)
    PROVE  SynchListInv'
  <1>1. /\ op[t] = "remove" /\ list # <<>>
        /\ list' = Tail(list)
        /\ got' = [got EXCEPT ![t] = Head(list)]
        /\ Leave(t) /\ Goes(t, "none")
        /\ UNCHANGED <<waiters, item>>
    BY DEF DoRemoveFront
  <1>2. /\ TypeOK /\ PlaceExact /\ ItemsDistinct /\ NoItemForgotten
        /\ list \in Seq(Items) /\ Distinct(list)
    BY DEF SynchListInv, TypeOK, ItemsDistinct
  <1>3. /\ PlaceExact' /\ holder' = NoThread /\ asking' = asking
        /\ ~ InWaiters(t)
    BY <1>1, <1>2, LeavePlace
  <1>4. \A u \in Threads : op'[u] = IF u = t THEN "none" ELSE op[u]
    BY <1>1, <1>2 DEF TypeOK, Goes
  <1>5. TypeOK'
    <2>1. list' \in Seq(Items) /\ Head(list) \in Items
      BY <1>1, <1>2, HeadInList
    <2> QED BY <1>1, <1>2, <1>3, <2>1 DEF TypeOK, Goes, Operations
  <1>6. ItemsDistinct'
    <2>1. Distinct(list)'
      BY <1>1, <1>2, DistinctTail
    <2>2. \A v : InList(v, list') => InList(v, list)
      BY <1>1, <1>2, InListTail
    <2> QED BY <1>1, <1>2, <1>4, <2>1, <2>2 DEF ItemsDistinct
  <1>7. NoItemForgotten'
    <2> SUFFICES ASSUME waiters # <<>>
                 PROVE  Cardinality(Coming') >= Len(list')
      BY <1>1 DEF NoItemForgotten
    <2>1. t \in Coming /\ Coming' = Coming \ {t}
      BY <1>1, <1>3, <1>4 DEF Coming, InWaiters
    <2>2. Cardinality(Coming') = Cardinality(Coming) - 1
      BY <2>1, ComingFinite, FS_RemoveElement
    <2>3. Len(list') = Len(list) - 1 /\ Len(list) \in Nat
      BY <1>1, <1>2
    <2>4. Cardinality(Coming) >= Len(list)
      BY <1>2 DEF NoItemForgotten
    <2> QED BY <2>2, <2>3, <2>4, ComingFinite
  <1> QED BY <1>3, <1>5, <1>6, <1>7 DEF SynchListInv

\* Release at the end of Apply.
LEMMA ApplyInv ==
    ASSUME SynchListInv, NEW t \in Threads, Apply(t)
    PROVE  SynchListInv'
  <1>1. /\ op[t] = "apply" /\ Leave(t) /\ Goes(t, "none")
        /\ UNCHANGED <<waiters, list, item, got>>
    BY DEF Apply
  <1>2. /\ TypeOK /\ PlaceExact /\ ItemsDistinct /\ NoItemForgotten
    BY DEF SynchListInv
  <1>3. PlaceExact' /\ holder' = NoThread /\ asking' = asking
    BY <1>1, <1>2, LeavePlace
  <1>4. TypeOK'
    BY <1>1, <1>2, <1>3 DEF TypeOK, Goes, Operations
  <1>5. ItemsDistinct'
    BY <1>1, <1>2 DEF TypeOK, ItemsDistinct, Distinct, InList, Goes
  <1>6. NoItemForgotten'
    BY <1>1, <1>2, NoItemForgottenKept DEF TypeOK, Goes
  <1> QED BY <1>3, <1>4, <1>5, <1>6 DEF SynchListInv

-----------------------------------------------------------------------------
(***************************************************************************)
(* The theorems.                                                           *)
(***************************************************************************)

LEMMA NextInv == SynchListInv /\ [Next]_vars => SynchListInv'
  <1> SUFFICES ASSUME SynchListInv, [Next]_vars PROVE SynchListInv'
    OBVIOUS
  <1>1. CASE UNCHANGED vars
    BY <1>1 DEF vars, SynchListInv, TypeOK, PlaceExact, ItemsDistinct, Distinct,
                InWaiters, InList, NoItemForgotten, Coming
  <1>2. CASE Next
    BY <1>2, AcquiredInv, CallAppendInv, CallOtherInv, DoAppendInv,
       ReturnFromAppendInv, WaitWhileEmptyInv, RemoveFrontInv, ApplyInv
       DEF Next, Inside
  <1> QED BY <1>1, <1>2

\* Every thread in an operation is exactly where the monitor has it, no item
\* is in the list twice or lost by its caller, and while removers wait, at
\* least as many others are on their way as there are items: the one Signal
\* of SynchList::Append (synchlist.cc) is enough.
THEOREM SynchListCorrect == Spec => []SynchListInv
  BY InitInv, NextInv, PTL DEF Spec

\* Every step of the synchronized list is a step of the queue, or none.
LEMMA StepImplementsQueue ==
    SynchListInv /\ [Next]_vars => [Promise!QueueNext]_(Promise!queueVars)
  <1> SUFFICES ASSUME SynchListInv, [Next]_vars
               PROVE  [Promise!QueueNext]_(Promise!queueVars)
    OBVIOUS
  <1> DEFINE Takers == {t \in Threads : op[t] = "remove"}
  <1>0. TypeOK /\ ItemsDistinct
    BY DEF SynchListInv
  <1> USE <1>0 DEF Promise!QueueNext, Promise!queueVars
  <1>1. ASSUME NEW t \in Threads, NEW to \in Operations \ {"remove"},
               op[t] # "remove", Goes(t, to)
        PROVE  Takers' = Takers
    BY <1>1 DEF Goes, TypeOK
  <1>2. ASSUME NEW t \in Threads, Acquired(t) \/ WaitWhileEmpty(t)
        PROVE  UNCHANGED <<list, Takers, got>>
    BY <1>2 DEF Acquired, WaitWhileEmpty
  <1>3. ASSUME NEW t \in Threads,
               \/ ReturnFromAppend(t) \/ Apply(t) \/ CallApply(t)
               \/ \E v \in Items : CallAppend(t, v)
        PROVE  UNCHANGED <<list, Takers, got>>
    BY <1>1, <1>3 DEF ReturnFromAppend, Apply, CallApply, CallAppend, Operations
  <1>4. ASSUME NEW t \in Threads, DoAppend(t)
        PROVE  Promise!Put(item[t]) /\ item[t] \in Items
    <2>1. Takers' = Takers
      BY <1>1, <1>4 DEF DoAppend, Operations
    <2> QED BY <1>4, <2>1 DEF DoAppend, ItemsDistinct, Promise!Put
  <1>5. ASSUME NEW t \in Threads, CallRemoveFront(t)
        PROVE  Promise!AskItem(t)
    BY <1>5 DEF CallRemoveFront, Goes, TypeOK, Promise!AskItem
  <1>6. ASSUME NEW t \in Threads, DoRemoveFront(t)
        PROVE  Promise!GetItem(t)
    BY <1>6 DEF DoRemoveFront, Goes, TypeOK, Promise!GetItem
  <1>7. CASE UNCHANGED vars
    BY <1>7 DEF vars
  <1> QED BY <1>2, <1>3, <1>4, <1>5, <1>6, <1>7 DEF Next, Inside

\* SynchList<T> is a queue with atomic operations, first in first out: a
\* RemoveFront returns the oldest item, whichever thread was woken for it.
THEOREM SynchListImplements == Spec => ImplementsQueue
  <1>1. Init => Promise!QueueInit
    BY DEF Init, Promise!QueueInit
  <1> QED BY <1>1, SynchListCorrect, StepImplementsQueue, PTL
          DEF Spec, ImplementsQueue, Promise!QueueSafety

-----------------------------------------------------------------------------
(* Least numbers and loops *)

\* A set of natural numbers that is not empty has a least one.
LEMMA LeastNumber ==
    ASSUME NEW S, S \subseteq Nat, S # {}
    PROVE  \E s \in S : \A r \in S : s <= r
  <1>1. PICK s \in S : \A r \in S : ~ (<<r, s>> \in OpToRel(<, Nat))
    BY WFMin, NatLessThanWellFounded, Zenon
  <1>2. \A r \in S : ~ (r < s)
    BY <1>1, Zenon DEF OpToRel
  <1> QED BY <1>2

\* Induction up to n, for a set in place of a predicate.
LEMMA Induction ==
    ASSUME NEW n \in Nat, NEW S, 0 \in S, \A k \in 1..n : k - 1 \in S => k \in S
    PROVE  \A k \in 0..n : k \in S
  <1> DEFINE Bad == (0..n) \ S
  <1>1. CASE Bad = {}
    BY <1>1
  <1>2. CASE Bad # {}
    <2>1. Bad \subseteq Nat
      OBVIOUS
    <2>2. PICK m \in Bad : \A k \in Bad : m <= k
      <3> HIDE DEF Bad
      <3> QED BY <1>2, <2>1, LeastNumber
    <2>3. m \in 1..n /\ m - 1 \in 0..n /\ ~(m <= m - 1)
      BY <2>2
    <2>4. m - 1 \in S
      BY <2>2, <2>3
    <2> QED BY <2>2, <2>3, <2>4
  <1> QED BY <1>1, <1>2

\* A loop of n rounds has a state before and after each.
LoopOf(f, start, step, n) == f[0] = start /\ \A k \in 1..n : f[k] = step[f[k - 1]]

\* Stages[k] are the states the loop may be in after k rounds.
LEMMA LoopStays ==
    ASSUME NEW n \in Nat, NEW Stages, NEW start \in Stages[0], NEW step,
           \A k \in 1..n : \A p \in Stages[k - 1] : step[p] \in Stages[k],
           NEW f, LoopOf(f, start, step, n)
    PROVE  \A k \in 0..n : f[k] \in Stages[k]
  <1> DEFINE Good == {k \in 0..n : f[k] \in Stages[k]}
  <1>1. 0 \in Good
    BY DEF LoopOf
  <1>2. \A k \in 1..n : k - 1 \in Good => k \in Good
    BY DEF LoopOf
  <1> HIDE DEF Good
  <1>3. \A k \in 0..n : k \in Good
    BY <1>1, <1>2, Induction
  <1> QED BY <1>3 DEF Good

LEMMA LoopExists ==
    ASSUME NEW n \in Nat, NEW U, NEW start \in U, NEW step \in [U -> U]
    PROVE  \E f \in [0..n -> U] : LoopOf(f, start, step, n)
  <1> DEFINE Reached == {m \in 0..n : \E f \in [0..m -> U] : LoopOf(f, start, step, m)}
  <1>1. 0 \in Reached
    <2> DEFINE f == [k \in 0..0 |-> start]
    <2>1. f \in [0..0 -> U] /\ f[0] = start /\ 1..0 = {}
      OBVIOUS
    <2> HIDE DEF f
    <2>2. LoopOf(f, start, step, 0)
      BY <2>1 DEF LoopOf
    <2> QED BY <2>1, <2>2
  <1>2. ASSUME NEW m \in 1..n, m - 1 \in Reached PROVE m \in Reached
    <2>1. m \in 0..n /\ m - 1 \in 0..n
      OBVIOUS
    <2>2. PICK f \in [0..m - 1 -> U] : LoopOf(f, start, step, m - 1)
      BY <1>2
    <2> DEFINE g == [k \in 0..m |-> IF k = m THEN step[f[m - 1]] ELSE f[k]]
    <2>3. f[m - 1] \in U /\ step[f[m - 1]] \in U
      BY <2>1
    <2>4. g \in [0..m -> U]
      BY <2>1, <2>2, <2>3
    <2>5. g[0] = start
      BY <2>1, <2>2 DEF LoopOf
    <2>6. ASSUME NEW k \in 1..m PROVE g[k] = step[g[k - 1]]
      <3>1. k - 1 \in 0..m - 1 /\ k - 1 # m /\ k \in 0..m /\ k - 1 \in 0..m
        BY <2>1
      <3>2. g[k - 1] = f[k - 1]
        BY <3>1
      <3>3. CASE k = m
        BY <3>2, <3>3
      <3>4. CASE k # m
        <4>1. k \in 1..m - 1 /\ g[k] = f[k]
          BY <2>1, <3>4
        <4> QED BY <2>2, <3>2, <4>1 DEF LoopOf
      <3> QED BY <3>3, <3>4
    <2> HIDE DEF g
    <2>7. LoopOf(g, start, step, m)
      BY <2>5, <2>6 DEF LoopOf
    <2> QED BY <2>1, <2>4, <2>7
  <1> HIDE DEF Reached
  <1>3. \A k \in 0..n : k \in Reached
    BY <1>1, <1>2, Induction
  <1> QED BY <1>3 DEF Reached

-----------------------------------------------------------------------------
(* Lists on their cells *)

Places == Cells \cup {NULL}
CellRecord == [item : Objects, next : Places]
ListRecord == [first : Places, last : Places, numInList : Nat]
IsStore(h) == DOMAIN h \subseteq Cells /\ h \in [DOMAIN h -> CellRecord]

\* The cells of list l in store h are those of the sequence s.
On(s) == {s[k] : k \in 1..Len(s)}
OnChain(h, l, s) ==
  /\ s \in Seq(DOMAIN h) /\ l \in ListRecord /\ Len(s) = l.numInList
  /\ \A j, k \in 1..Len(s) : s[j] = s[k] => j = k
  /\ l.first = (IF Len(s) = 0 THEN NULL ELSE s[1])
  /\ l.last = (IF Len(s) = 0 THEN NULL ELSE s[Len(s)])
  /\ \A k \in 1..Len(s) : h[s[k]].next = IF k = Len(s) THEN NULL ELSE s[k + 1]

LEMMA StoreFinite ==
    ASSUME NEW h, IsStore(h)
    PROVE  IsFiniteSet(DOMAIN h) /\ Cardinality(DOMAIN h) \in Nat /\ NULL \notin DOMAIN h
  <1>1. IsFiniteSet(DOMAIN h) /\ NULL \notin DOMAIN h
    BY LibraryAssumption, FS_Subset DEF IsStore
  <1> QED BY <1>1, FS_CardinalityType

\* A chain has no more cells than the store.
LEMMA ChainFits ==
    ASSUME NEW S, IsFiniteSet(S), NEW s \in Seq(S),
           \A j, k \in 1..Len(s) : s[j] = s[k] => j = k
    PROVE  Len(s) \in Nat /\ Len(s) <= Cardinality(S)
  <1>1. Len(s) \in Nat /\ s \in [1..Len(s) -> S]
    BY LenProperties
  <1>2. s \in Injection(1..Len(s), S)
    BY <1>1 DEF Injection, IsInjective
  <1>3. Cardinality(1..Len(s)) <= Cardinality(S)
    BY <1>2, FS_Injection
  <1>4. Cardinality(1..Len(s)) = Len(s)
    BY <1>1, FS_Interval
  <1> QED BY <1>1, <1>3, <1>4

\* A loop over a list meets the cells of its chain.
LEMMA CellsAre ==
    ASSUME NEW h, IsStore(h), NEW l, NEW s, OnChain(h, l, s)
    PROVE  CellsOf(h, l) = s
  <1> DEFINE N == Cardinality(DOMAIN h) + 1
             U == [met : Seq(DOMAIN h), at : Places]
             start == [met |-> <<>>, at |-> l.first]
             step == [w \in U |-> Advance(h, w)]
             Is(f) == f = [n \in 0..N |-> IF n = 0 THEN start ELSE Advance(h, f[n - 1])]
             walk == CHOOSE f : Is(f)
             Stage(w, k) == /\ Len(w.met) = (IF k <= Len(s) THEN k ELSE Len(s))
                            /\ \A j \in 1..Len(w.met) : w.met[j] = s[j]
                            /\ w.at = (IF k < Len(s) THEN s[k + 1] ELSE NULL)
             Stages == [k \in 0..N |-> {w \in U : Stage(w, k)}]
  <1>1. N \in Nat /\ Len(s) \in Nat /\ Len(s) <= N /\ NULL \notin DOMAIN h
    <2>1. IsFiniteSet(DOMAIN h) /\ Cardinality(DOMAIN h) \in Nat /\ NULL \notin DOMAIN h
      BY StoreFinite
    <2>2. Len(s) \in Nat /\ Len(s) <= Cardinality(DOMAIN h)
      BY <2>1, ChainFits DEF OnChain
    <2> QED BY <2>1, <2>2
  <1> HIDE DEF N
  <1>2. start \in U /\ Stage(start, 0)
    <2>1. <<>> \in Seq(DOMAIN h) /\ Len(<<>>) = 0
      BY EmptySeq
    <2>2. l.first \in Places
      BY DEF OnChain, ListRecord
    <2> QED BY <1>1, <2>1, <2>2 DEF OnChain
  <1>3. ASSUME NEW w \in U PROVE Advance(h, w) \in U
    <2>1. CASE w.at \in DOMAIN h
      <3>1. Append(w.met, w.at) \in Seq(DOMAIN h) /\ h[w.at].next \in Places
        BY <2>1, AppendProperties DEF IsStore, CellRecord
      <3> QED BY <2>1, <3>1 DEF Advance
    <2>2. CASE w.at \notin DOMAIN h
      BY <2>2 DEF Advance
    <2> QED BY <2>1, <2>2
  <1>4. ASSUME NEW k \in 1..N, NEW w \in U, Stage(w, k - 1)
        PROVE  Stage(Advance(h, w), k)
    <2>1. k \in Nat /\ w.met \in Seq(DOMAIN h)
      BY <1>1
    <2>2. CASE k <= Len(s)
      <3>1. Len(w.met) = k - 1 /\ w.at = s[k] /\ s[k] \in DOMAIN h
        BY <1>1, <1>4, <2>1, <2>2, ElementOfSeq DEF OnChain
      <3>2. Advance(h, w) = [met |-> Append(w.met, s[k]), at |-> h[s[k]].next]
        BY <3>1 DEF Advance
      <3>3. h[s[k]].next = IF k < Len(s) THEN s[k + 1] ELSE NULL
        BY <1>1, <2>1, <2>2 DEF OnChain
      <3>4. /\ Len(Append(w.met, s[k])) = k
            /\ \A j \in 1..k - 1 : Append(w.met, s[k])[j] = w.met[j]
            /\ Append(w.met, s[k])[k] = s[k]
        BY <2>1, <3>1, AppendProperties
      <3>5. \A j \in 1..k : Append(w.met, s[k])[j] = s[j]
        BY <1>4, <2>1, <3>1, <3>4
      <3> QED BY <2>2, <3>2, <3>3, <3>4, <3>5
    <2>3. CASE ~(k <= Len(s))
      <3>1. w.at = NULL /\ Advance(h, w) = w
        BY <1>1, <1>4, <2>1, <2>3 DEF Advance
      <3> QED BY <1>1, <1>4, <2>1, <2>3, <3>1
    <2> QED BY <2>2, <2>3
  <1>5. step \in [U -> U]
    BY <1>3
  <1>6. \E f : Is(f)
    <2> HIDE DEF start, step, U
    <2>1. PICK f \in [0..N -> U] : LoopOf(f, start, step, N)
      BY <1>1, <1>2, <1>5, LoopExists
    <2>2. ASSUME NEW k \in 0..N
          PROVE  f[k] = IF k = 0 THEN start ELSE Advance(h, f[k - 1])
      <3>1. CASE k = 0
        BY <2>1, <3>1 DEF LoopOf
      <3>2. CASE k # 0
        <4>1. k \in 1..N /\ k - 1 \in 0..N
          BY <1>1, <3>2
        <4>2. f[k] = step[f[k - 1]] /\ f[k - 1] \in U
          BY <2>1, <4>1 DEF LoopOf
        <4> QED BY <3>2, <4>2 DEF step
      <3> QED BY <3>1, <3>2
    <2>3. Is(f)
      BY <2>2
    <2> QED BY <2>3
  <1>7. Is(walk)
    BY <1>6
  <1>8. CellsOf(h, l) = walk[N].met
    BY DEF CellsOf, From, walk, start, N
  <1> HIDE DEF walk, start
  <1> DEFINE Good == {k \in 0..N : walk[k] \in U /\ Stage(walk[k], k)}
  <1>9. 0 \in Good
    BY <1>1, <1>2, <1>7
  <1>10. ASSUME NEW k \in 1..N, k - 1 \in Good PROVE k \in Good
    <2>1. walk[k] = Advance(h, walk[k - 1])
      BY <1>1, <1>7
    <2> HIDE DEF Stage, U
    <2> QED BY <1>3, <1>4, <1>10, <2>1
  <1> HIDE DEF Good
  <1>11. \A k \in 0..N : k \in Good
    BY <1>1, <1>9, <1>10, Induction
  <1>12. walk[N] \in U /\ Stage(walk[N], N)
    BY <1>1, <1>11 DEF Good
  <1>13. walk[N].met \in Seq(DOMAIN h) /\ Len(walk[N].met) = Len(s)
    BY <1>1, <1>12
  <1>14. \A j \in 1..Len(s) : walk[N].met[j] = s[j]
    BY <1>12, <1>13
  <1>15. walk[N].met = s
    BY <1>13, <1>14, SeqEqual DEF OnChain
  <1> QED BY <1>8, <1>15

\* What InsertAt and RemoveAt do, element by element.
IsInserted(S, s, n, e, t) ==
  /\ t \in Seq(S) /\ Len(t) = Len(s) + 1
  /\ \A k \in 1..Len(s) + 1 :
       t[k] = IF k <= n THEN s[k] ELSE IF k = n + 1 THEN e ELSE s[k - 1]
IsRemoved(S, s, n, t) ==
  /\ t \in Seq(S) /\ Len(t) = Len(s) - 1
  /\ \A k \in 1..Len(s) - 1 : t[k] = IF k < n THEN s[k] ELSE s[k + 1]

LEMMA InsertAtIs ==
    ASSUME NEW S, NEW s \in Seq(S), NEW e \in S, NEW n \in 0..Len(s)
    PROVE  IsInserted(S, s, n, e, InsertAt(s, n + 1, e))
  <1> DEFINE a == SubSeq(s, 1, n)
             b == <<e>>
             c == SubSeq(s, n + 1, Len(s))
  <1>1. Len(s) \in Nat /\ n \in Nat /\ n <= Len(s) /\ n \in Int /\ n + 1 \in Int /\ 1 \in Int
    BY LenProperties
  <1>2. \A k \in 1..Len(s) : s[k] \in S
    BY ElementOfSeq
  <1>3. a \in Seq(S) /\ Len(a) = n /\ \A k \in 1..n : a[k] = s[k]
    <2>1. \A k \in 1..n : s[k] \in S
      BY <1>1, <1>2
    <2> QED BY <1>1, <2>1, SubSeqProperties
  <1>4. /\ c \in Seq(S) /\ Len(c) = Len(s) - n
        /\ \A k \in 1..Len(s) - n : c[k] = s[n + k]
    <2>1. \A k \in n + 1..Len(s) : s[k] \in S
      BY <1>1, <1>2
    <2>2. /\ c \in Seq(S) /\ Len(c) = (IF n + 1 <= Len(s) THEN Len(s) - (n + 1) + 1 ELSE 0)
          /\ \A k \in 1..Len(s) - (n + 1) + 1 : c[k] = s[(n + 1) + k - 1]
      BY <1>1, <2>1, SubSeqProperties
    <2> QED BY <1>1, <2>2
  <1>5. b \in Seq(S) /\ Len(b) = 1 /\ b[1] = e
    OBVIOUS
  <1>6. InsertAt(s, n + 1, e) = a \o b \o c
    <2>1. (n + 1) - 1 = n
      BY <1>1
    <2> QED BY <2>1 DEF InsertAt
  <1> HIDE DEF a, b, c
  <1>7. /\ a \o b \in Seq(S) /\ Len(a \o b) = n + 1
        /\ \A k \in 1..n + 1 : (a \o b)[k] = IF k <= n THEN a[k] ELSE b[k - n]
    <2>1. /\ a \o b \in Seq(S) /\ Len(a \o b) = Len(a) + Len(b)
          /\ \A k \in 1..Len(a) + Len(b) :
               (a \o b)[k] = IF k <= Len(a) THEN a[k] ELSE b[k - Len(a)]
      BY <1>3, <1>5, ConcatProperties
    <2> QED BY <1>3, <1>5, <2>1
  <1>8. /\ a \o b \o c \in Seq(S) /\ Len(a \o b \o c) = Len(s) + 1
        /\ \A k \in 1..Len(s) + 1 :
             (a \o b \o c)[k] = IF k <= n + 1 THEN (a \o b)[k] ELSE c[k - (n + 1)]
    <2> DEFINE ab == a \o b
    <2>1. ab \in Seq(S) /\ Len(ab) = n + 1 /\ (n + 1) + (Len(s) - n) = Len(s) + 1
      BY <1>1, <1>7
    <2> HIDE DEF ab
    <2>2. /\ ab \o c \in Seq(S) /\ Len(ab \o c) = Len(ab) + Len(c)
          /\ \A k \in 1..Len(ab) + Len(c) :
               (ab \o c)[k] = IF k <= Len(ab) THEN ab[k] ELSE c[k - Len(ab)]
      BY <1>4, <2>1, ConcatProperties
    <2>3. /\ ab \o c \in Seq(S) /\ Len(ab \o c) = Len(s) + 1
          /\ \A k \in 1..Len(s) + 1 :
               (ab \o c)[k] = IF k <= n + 1 THEN ab[k] ELSE c[k - (n + 1)]
      BY <1>4, <2>1, <2>2
    <2> QED BY <2>3 DEF ab
  <1> DEFINE ab == a \o b
             t == a \o b \o c
  <1>10. /\ \A k \in 1..n + 1 : ab[k] = IF k <= n THEN a[k] ELSE b[k - n]
         /\ \A k \in 1..Len(s) + 1 : t[k] = IF k <= n + 1 THEN ab[k] ELSE c[k - (n + 1)]
         /\ t \in Seq(S) /\ Len(t) = Len(s) + 1 /\ InsertAt(s, n + 1, e) = t
    BY <1>6, <1>7, <1>8
  <1> HIDE DEF ab, t
  <1>9. ASSUME NEW k \in 1..Len(s) + 1
        PROVE  t[k] = IF k <= n THEN s[k] ELSE IF k = n + 1 THEN e ELSE s[k - 1]
    <2>0. k \in Nat
      OBVIOUS
    <2>1. CASE k <= n
      <3>1. k \in 1..n /\ k \in 1..n + 1 /\ k <= n + 1
        BY <1>1, <2>0, <2>1
      <3> QED BY <1>3, <1>10, <2>1, <3>1
    <2>2. CASE k = n + 1
      <3>1. ~(n + 1 <= n) /\ n + 1 \in 1..n + 1 /\ (n + 1) - n = 1 /\ k <= n + 1
        BY <1>1, <2>2
      <3> QED BY <1>5, <1>10, <2>2, <3>1
    <2>3. CASE k > n + 1
      <3>1. ~(k <= n + 1) /\ ~(k <= n) /\ k # n + 1 /\ k - (n + 1) \in 1..Len(s) - n
            /\ n + (k - (n + 1)) = k - 1
        BY <1>1, <2>0, <2>3
      <3> QED BY <1>4, <1>10, <3>1
    <2>4. k <= n \/ k = n + 1 \/ k > n + 1
      BY <1>1, <2>0
    <2> QED BY <2>1, <2>2, <2>3, <2>4
  <1> QED BY <1>9, <1>10 DEF IsInserted

LEMMA RemoveAtIs ==
    ASSUME NEW S, NEW s \in Seq(S), NEW n \in 1..Len(s)
    PROVE  IsRemoved(S, s, n, RemoveAt(s, n))
  <1> DEFINE a == SubSeq(s, 1, n - 1)
             c == SubSeq(s, n + 1, Len(s))
  <1>1. Len(s) \in Nat /\ n \in Nat /\ n <= Len(s) /\ n - 1 \in Int /\ n + 1 \in Int /\ 1 \in Int
        /\ Len(s) \in Int /\ n >= 1
    BY LenProperties
  <1>2. \A k \in 1..Len(s) : s[k] \in S
    BY ElementOfSeq
  <1>3. a \in Seq(S) /\ Len(a) = n - 1 /\ \A k \in 1..n - 1 : a[k] = s[k]
    <2>1. \A k \in 1..n - 1 : s[k] \in S
      BY <1>1, <1>2
    <2>2. /\ a \in Seq(S) /\ Len(a) = (IF 1 <= n - 1 THEN (n - 1) - 1 + 1 ELSE 0)
          /\ \A k \in 1..(n - 1) - 1 + 1 : a[k] = s[1 + k - 1]
      BY <1>1, <2>1, SubSeqProperties
    <2> QED BY <1>1, <2>2
  <1>4. /\ c \in Seq(S) /\ Len(c) = Len(s) - n
        /\ \A k \in 1..Len(s) - n : c[k] = s[n + k]
    <2>1. \A k \in n + 1..Len(s) : s[k] \in S
      BY <1>1, <1>2
    <2>2. /\ c \in Seq(S) /\ Len(c) = (IF n + 1 <= Len(s) THEN Len(s) - (n + 1) + 1 ELSE 0)
          /\ \A k \in 1..Len(s) - (n + 1) + 1 : c[k] = s[(n + 1) + k - 1]
      BY <1>1, <2>1, SubSeqProperties
    <2> QED BY <1>1, <2>2
  <1>5. RemoveAt(s, n) = a \o c
    BY DEF RemoveAt
  <1> HIDE DEF a, c
  <1>6. /\ a \o c \in Seq(S) /\ Len(a \o c) = Len(s) - 1
        /\ \A k \in 1..Len(s) - 1 : (a \o c)[k] = IF k <= n - 1 THEN a[k] ELSE c[k - (n - 1)]
    <2>1. /\ a \o c \in Seq(S) /\ Len(a \o c) = Len(a) + Len(c)
          /\ \A k \in 1..Len(a) + Len(c) :
               (a \o c)[k] = IF k <= Len(a) THEN a[k] ELSE c[k - Len(a)]
      BY <1>3, <1>4, ConcatProperties
    <2>2. (n - 1) + (Len(s) - n) = Len(s) - 1
      BY <1>1
    <2> QED BY <1>3, <1>4, <2>1, <2>2
  <1>7. ASSUME NEW k \in 1..Len(s) - 1
        PROVE  (a \o c)[k] = IF k < n THEN s[k] ELSE s[k + 1]
    <2>0. k \in Nat
      OBVIOUS
    <2>1. CASE k < n
      <3>1. k \in 1..n - 1 /\ k <= n - 1
        BY <1>1, <2>0, <2>1
      <3> QED BY <1>3, <1>6, <2>1, <3>1
    <2>2. CASE ~(k < n)
      <3>1. ~(k <= n - 1) /\ k - (n - 1) \in 1..Len(s) - n /\ n + (k - (n - 1)) = k + 1
        BY <1>1, <2>0, <2>2
      <3> QED BY <1>4, <1>6, <2>2, <3>1
    <2> QED BY <2>1, <2>2
  <1> QED BY <1>5, <1>6, <1>7 DEF IsRemoved

LEMMA NewIsFree ==
    ASSUME NEW h, IsStore(h), Cardinality(DOMAIN h) < Cardinality(Cells)
    PROVE  New(h) \in Cells /\ New(h) \notin DOMAIN h
  <1>1. Cardinality(Cells) \in Nat
    BY LibraryAssumption, FS_CardinalityType
  <1>2. Free(h) # {}
    <2> SUFFICES ASSUME Free(h) = {} PROVE FALSE
      OBVIOUS
    <2>1. DOMAIN h = Cells
      BY DEF Free, IsStore
    <2> QED BY <1>1, <2>1
  <1>3. Free(h) \subseteq Nat
    BY LibraryAssumption DEF Free
  <1>4. \E c \in Free(h) : \A d \in Free(h) : c <= d
    BY <1>2, <1>3, LeastNumber
  <1>5. New(h) \in Free(h)
    BY <1>4 DEF New
  <1> QED BY <1>5 DEF Free

\* Store h2 differs from h in the cells of one chain only, which was s and is s2,
\* and no cell has got another item.
Edited(h, s, h2, s2) ==
  /\ IsStore(h2)
  /\ DOMAIN h2 = (DOMAIN h \ On(s)) \cup On(s2)
  /\ On(s2) \cap (DOMAIN h \ On(s)) = {}
  /\ \A c \in DOMAIN h \ On(s) : h2[c] = h[c]
  /\ \A c \in DOMAIN h \cap DOMAIN h2 : h2[c].item = h[c].item

LEMMA ChainFacts ==
    ASSUME NEW h, NEW l, NEW s, OnChain(h, l, s)
    PROVE  /\ Len(s) \in Nat /\ On(s) \subseteq DOMAIN h
           /\ \A k \in 1..Len(s) : s[k] \in DOMAIN h
  <1>1. Len(s) \in Nat /\ \A k \in 1..Len(s) : s[k] \in DOMAIN h
    BY LenProperties, ElementOfSeq DEF OnChain
  <1> QED BY <1>1 DEF On

\* The other chains stay.
LEMMA ChainUntouched ==
    ASSUME NEW h, NEW l, NEW t, OnChain(h, l, t), NEW s, NEW h2, NEW s2,
           Edited(h, s, h2, s2), On(t) \cap On(s) = {}
    PROVE  OnChain(h2, l, t) /\ On(t) \cap On(s2) = {}
  <1>1. Len(t) \in Nat /\ \A k \in 1..Len(t) : t[k] \in DOMAIN h /\ t[k] \notin On(s)
    BY ChainFacts DEF On
  <1>2. \A k \in 1..Len(t) : t[k] \in DOMAIN h2 /\ h2[t[k]] = h[t[k]] /\ t[k] \notin On(s2)
    BY <1>1 DEF Edited
  <1>3. t \in Seq(DOMAIN h2)
    <2>1. t \in [1..Len(t) -> DOMAIN h2]
      BY <1>1, <1>2, LenProperties DEF OnChain
    <2> QED BY <1>1, <2>1, SeqDef
  <1> QED BY <1>2, <1>3 DEF OnChain, On

\* A cell e linked into a chain behind the first n cells.
Links(h, l, s, e, n, h2, l2) ==
  /\ e \in Cells /\ e \notin DOMAIN h /\ n \in 0..Len(s)
  /\ h2 \in [DOMAIN h \cup {e} -> CellRecord] /\ l2 \in ListRecord
  /\ h2[e].next = (IF n = Len(s) THEN NULL ELSE s[n + 1])
  /\ \A c \in DOMAIN h : h2[c].item = h[c].item
  /\ \A c \in DOMAIN h : (n = 0 \/ c # s[n]) => h2[c] = h[c]
  /\ n > 0 => h2[s[n]].next = e
  /\ l2.numInList = l.numInList + 1
  /\ l2.first = (IF n = 0 THEN e ELSE l.first)
  /\ l2.last = (IF n = Len(s) THEN e ELSE l.last)

LEMMA LinkedIn ==
    ASSUME NEW h, IsStore(h), NEW l, NEW s, OnChain(h, l, s),
           NEW e, NEW n, NEW h2, NEW l2, Links(h, l, s, e, n, h2, l2)
    PROVE  /\ OnChain(h2, l2, InsertAt(s, n + 1, e))
           /\ Edited(h, s, h2, InsertAt(s, n + 1, e))
           /\ On(InsertAt(s, n + 1, e)) = On(s) \cup {e}
  <1> USE DEF Links
  <1> DEFINE t == InsertAt(s, n + 1, e)
             D == DOMAIN h \cup {e}
  <1>1. Len(s) \in Nat /\ n \in Nat /\ n <= Len(s) /\ \A k \in 1..Len(s) : s[k] \in DOMAIN h
    BY ChainFacts
  <1>2. DOMAIN h2 = D /\ IsStore(h2)
    BY DEF IsStore
  <1>3. /\ t \in Seq(D) /\ Len(t) = Len(s) + 1
        /\ \A k \in 1..Len(s) + 1 :
             t[k] = IF k <= n THEN s[k] ELSE IF k = n + 1 THEN e ELSE s[k - 1]
    <2>1. s \in Seq(D) /\ e \in D
      BY SeqMonotonic DEF OnChain
    <2> HIDE DEF D
    <2>2. IsInserted(D, s, n, e, t)
      BY <2>1, InsertAtIs DEF t
    <2> QED BY <2>2 DEF IsInserted
  <1> HIDE DEF t
  <1>4. /\ \A k \in 1..n : t[k] = s[k]
        /\ t[n + 1] = e
        /\ \A k \in n + 2..Len(s) + 1 : t[k] = s[k - 1]
    <2>1. \A k \in 1..n : k \in 1..Len(s) + 1 /\ k <= n
      BY <1>1
    <2>2. n + 1 \in 1..Len(s) + 1 /\ ~(n + 1 <= n)
      BY <1>1
    <2>3. \A k \in n + 2..Len(s) + 1 : k \in 1..Len(s) + 1 /\ ~(k <= n) /\ k # n + 1
      BY <1>1
    <2> QED BY <1>3, <2>1, <2>2, <2>3
  <1>5. \A j, k \in 1..Len(s) : s[j] = s[k] => j = k
    BY DEF OnChain
  <1>6. ASSUME NEW j \in 1..Len(t), NEW k \in 1..Len(t), t[j] = t[k]
        PROVE  j = k
    <2> DEFINE old(i) == IF i <= n THEN i ELSE i - 1
    <2>1. \A i \in 1..Len(t) : i # n + 1 => old(i) \in 1..Len(s) /\ t[i] = s[old(i)]
      BY <1>1, <1>3
    <2>2. j = n + 1 <=> k = n + 1
      BY <1>1, <1>4, <1>6, <2>1
    <2>3. ASSUME j # n + 1, k # n + 1 PROVE old(j) = old(k)
      <3>1. t[j] = s[old(j)] /\ t[k] = s[old(k)] /\ old(j) \in 1..Len(s) /\ old(k) \in 1..Len(s)
        BY <2>1, <2>3
      <3> HIDE DEF old
      <3> QED BY <1>5, <1>6, <3>1
    <2> QED BY <1>1, <1>3, <2>2, <2>3
  <1>7. ASSUME NEW k \in 1..Len(t)
        PROVE  h2[t[k]].next = IF k = Len(t) THEN NULL ELSE t[k + 1]
    <2>0. k \in Nat /\ k >= 1 /\ k <= Len(s) + 1
      BY <1>1, <1>3
    <2>1. \A i \in 1..Len(s) : h[s[i]].next = IF i = Len(s) THEN NULL ELSE s[i + 1]
      BY DEF OnChain
    <2>2. CASE k < n
      <3>1. k \in 1..n /\ k + 1 \in 1..n /\ k \in 1..Len(s) /\ n \in 1..Len(s) /\ k # Len(s)
            /\ k # Len(t) /\ k # n
        BY <1>1, <1>3, <2>0, <2>2
      <3>2. s[k] # s[n]
        BY <1>5, <3>1
      <3>3. h2[s[k]] = h[s[k]]
        BY <1>1, <3>1, <3>2
      <3> QED BY <1>4, <2>1, <3>1, <3>3
    <2>3. CASE k = n
      <3>1. n \in 1..n /\ n > 0 /\ k # Len(t)
        BY <1>1, <1>3, <2>0, <2>3
      <3> QED BY <1>4, <2>3, <3>1
    <2>4. CASE k = n + 1
      <3>1. CASE n = Len(s)
        BY <1>3, <1>4, <2>4, <3>1
      <3>2. CASE n # Len(s)
        <4>1. k # Len(t) /\ k + 1 \in n + 2..Len(s) + 1 /\ (k + 1) - 1 = n + 1
          BY <1>1, <1>3, <2>4, <3>2
        <4>2. t[k + 1] = s[n + 1]
          BY <1>4, <4>1
        <4> QED BY <1>4, <2>4, <3>2, <4>1, <4>2
      <3> QED BY <3>1, <3>2
    <2>5. CASE k > n + 1
      <3>1. /\ k \in n + 2..Len(s) + 1 /\ k - 1 \in 1..Len(s) /\ k - 1 # n
            /\ (k - 1 = Len(s) <=> k = Len(t)) /\ (k - 1) + 1 = k /\ (k + 1) - 1 = k
            /\ (n = 0 \/ n \in 1..Len(s))
        BY <1>1, <1>3, <2>0, <2>5
      <3>2. n = 0 \/ s[k - 1] # s[n]
        BY <1>5, <3>1
      <3>3. h2[s[k - 1]] = h[s[k - 1]]
        BY <1>1, <3>1, <3>2
      <3>4. k # Len(t) => t[k + 1] = s[k]
        <4>1. k # Len(t) => k + 1 \in n + 2..Len(s) + 1
          BY <1>1, <1>3, <2>0, <2>5
        <4> QED BY <1>4, <3>1, <4>1
      <3>5. h2[t[k]] = h[s[k - 1]]
        BY <1>4, <3>1, <3>3
      <3>6. h[s[k - 1]].next = IF k - 1 = Len(s) THEN NULL ELSE s[k]
        BY <2>1, <3>1
      <3> QED BY <3>1, <3>4, <3>5, <3>6
    <2> QED BY <1>1, <2>0, <2>2, <2>3, <2>4, <2>5
  <1>8. /\ l2.first = t[1] /\ l2.last = t[Len(t)]
    <2>1. l2.first = t[1]
      <3>1. CASE n = 0
        BY <1>4, <3>1
      <3>2. CASE n # 0
        <4>1. 1 \in 1..n /\ Len(s) # 0
          BY <1>1, <3>2
        <4> QED BY <1>4, <3>2, <4>1 DEF OnChain
      <3> QED BY <3>1, <3>2
    <2>2. l2.last = t[Len(t)]
      <3>1. CASE n = Len(s)
        BY <1>3, <1>4, <3>1
      <3>2. CASE n # Len(s)
        <4>1. Len(t) \in n + 2..Len(s) + 1 /\ Len(t) - 1 = Len(s) /\ Len(s) # 0
          BY <1>1, <1>3, <3>2
        <4>2. t[Len(t)] = s[Len(s)]
          BY <1>4, <4>1
        <4> QED BY <3>2, <4>1, <4>2 DEF OnChain
      <3> QED BY <3>1, <3>2
    <2> QED BY <2>1, <2>2
  <1>9. OnChain(h2, l2, t)
    <2>1. Len(t) = l2.numInList /\ Len(t) # 0
      BY <1>1, <1>3 DEF OnChain
    <2> QED BY <1>2, <1>3, <1>6, <1>7, <1>8, <2>1 DEF OnChain
  <1>10. On(t) = On(s) \cup {e}
    <2>1. \A k \in 1..Len(t) : t[k] \in On(s) \cup {e}
      BY <1>1, <1>3 DEF On
    <2>2. e \in On(t)
      <3>1. n + 1 \in 1..Len(t)
        BY <1>1, <1>3
      <3> QED BY <1>4, <3>1 DEF On
    <2>3. ASSUME NEW k \in 1..Len(s) PROVE s[k] \in On(t)
      <3>1. CASE k <= n
        <4>1. k \in 1..n /\ k \in 1..Len(t)
          BY <1>1, <1>3, <3>1
        <4> QED BY <1>4, <4>1 DEF On
      <3>2. CASE k > n
        <4>1. k + 1 \in n + 2..Len(s) + 1 /\ k + 1 \in 1..Len(t) /\ (k + 1) - 1 = k
          BY <1>1, <1>3, <3>2
        <4>2. t[k + 1] = s[k]
          BY <1>4, <4>1
        <4> QED BY <4>1, <4>2 DEF On
      <3>3. k <= n \/ k > n
        BY <1>1
      <3> QED BY <3>1, <3>2, <3>3
    <2>4. On(t) \subseteq On(s) \cup {e}
      BY <2>1 DEF On
    <2>5. On(s) \subseteq On(t)
      BY <2>3 DEF On
    <2> QED BY <2>2, <2>4, <2>5
  <1>11. Edited(h, s, h2, t)
    <2>1. On(s) \subseteq DOMAIN h
      BY ChainFacts
    <2>2. \A c \in DOMAIN h \ On(s) : n = 0 \/ c # s[n]
      BY <1>1 DEF On
    <2> QED BY <1>2, <1>10, <2>1, <2>2 DEF Edited
  <1> QED BY <1>9, <1>10, <1>11 DEF t

\* The n-th cell of a chain unlinked and deleted.
Unlinks(h, l, s, n, h2, l2) ==
  /\ n \in 1..Len(s) /\ h2 \in [DOMAIN h \ {s[n]} -> CellRecord] /\ l2 \in ListRecord
  /\ \A c \in DOMAIN h2 : h2[c].item = h[c].item
  /\ \A c \in DOMAIN h2 : (n = 1 \/ c # s[n - 1]) => h2[c] = h[c]
  /\ n > 1 => h2[s[n - 1]].next = h[s[n]].next
  /\ l2.numInList = l.numInList - 1
  /\ l2.first = (IF n > 1 THEN l.first ELSE IF Len(s) = 1 THEN NULL ELSE s[2])
  /\ l2.last = (IF n < Len(s) THEN l.last ELSE IF n = 1 THEN NULL ELSE s[n - 1])

LEMMA Unlinked ==
    ASSUME NEW h, IsStore(h), NEW l, NEW s, OnChain(h, l, s),
           NEW n, NEW h2, NEW l2, Unlinks(h, l, s, n, h2, l2)
    PROVE  /\ OnChain(h2, l2, RemoveAt(s, n))
           /\ Edited(h, s, h2, RemoveAt(s, n))
           /\ On(RemoveAt(s, n)) = On(s) \ {s[n]}
  <1> USE DEF Unlinks
  <1> DEFINE t == RemoveAt(s, n)
  <1>1. /\ Len(s) \in Nat /\ n \in Nat /\ n <= Len(s) /\ n >= 1
        /\ \A k \in 1..Len(s) : s[k] \in DOMAIN h
    BY ChainFacts
  <1>2. DOMAIN h2 = DOMAIN h \ {s[n]} /\ IsStore(h2)
    BY DEF IsStore
  <1>3. /\ t \in Seq(DOMAIN h) /\ Len(t) = Len(s) - 1
        /\ \A k \in 1..Len(s) - 1 : t[k] = IF k < n THEN s[k] ELSE s[k + 1]
    <2>1. IsRemoved(DOMAIN h, s, n, t)
      BY RemoveAtIs DEF OnChain
    <2> QED BY <2>1 DEF IsRemoved
  <1> HIDE DEF t
  <1>4. /\ \A k \in 1..n - 1 : t[k] = s[k] /\ k \in 1..Len(t) /\ k \in 1..Len(s)
        /\ \A k \in n..Len(t) : t[k] = s[k + 1] /\ k \in 1..Len(t) /\ k + 1 \in 1..Len(s)
        /\ \A k \in 1..Len(t) : k \in 1..n - 1 \/ k \in n..Len(t)
    <2>1. \A k \in 1..n - 1 : k \in 1..Len(s) - 1 /\ k < n /\ k \in 1..Len(s)
      BY <1>1
    <2>2. \A k \in n..Len(s) - 1 : k \in 1..Len(s) - 1 /\ ~(k < n) /\ k + 1 \in 1..Len(s)
      BY <1>1
    <2>3. \A k \in 1..Len(s) - 1 : k \in 1..n - 1 \/ k \in n..Len(s) - 1
      BY <1>1
    <2> QED BY <1>3, <2>1, <2>2, <2>3
  <1>5. \A j, k \in 1..Len(s) : s[j] = s[k] => j = k
    BY DEF OnChain
  <1> DEFINE old(i) == IF i < n THEN i ELSE i + 1
  <1>6. \A i \in 1..Len(t) : old(i) \in 1..Len(s) /\ old(i) # n /\ t[i] = s[old(i)]
    BY <1>1, <1>3
  <1>7. ASSUME NEW j \in 1..Len(t), NEW k \in 1..Len(t), t[j] = t[k]
        PROVE  j = k
    <2>1. old(j) = old(k)
      <3> HIDE DEF old
      <3> QED BY <1>5, <1>6, <1>7
    <2> QED BY <1>1, <1>3, <2>1
  <1>8. \A k \in 1..Len(t) : t[k] \in DOMAIN h /\ t[k] # s[n]
    <2> HIDE DEF old
    <2> QED BY <1>1, <1>5, <1>6
  <1>9. t \in Seq(DOMAIN h2)
    <2>1. Len(t) \in Nat /\ t \in [1..Len(t) -> DOMAIN h2]
      BY <1>2, <1>3, <1>8, LenProperties
    <2> QED BY <2>1, SeqDef
  <1>10. \A i \in 1..Len(s) : h[s[i]].next = IF i = Len(s) THEN NULL ELSE s[i + 1]
    BY DEF OnChain
  <1>11. ASSUME NEW k \in 1..Len(t)
         PROVE  h2[t[k]].next = IF k = Len(t) THEN NULL ELSE t[k + 1]
    <2>0. k \in Nat /\ k >= 1 /\ k <= Len(s) - 1 /\ Len(t) = Len(s) - 1
      BY <1>1, <1>3
    <2>1. CASE k < n - 1
      <3>1. /\ k \in 1..n - 1 /\ k + 1 \in 1..n - 1 /\ n - 1 \in 1..Len(s) /\ k \in 1..Len(s)
            /\ k # Len(s) /\ k # Len(t) /\ k # n - 1 /\ n # 1
        BY <1>1, <2>0, <2>1
      <3>2. t[k] = s[k] /\ t[k + 1] = s[k + 1] /\ s[k] # s[n - 1]
        BY <1>4, <1>5, <3>1
      <3>3. h2[t[k]] = h[s[k]]
        BY <1>2, <1>8, <3>2
      <3>4. h[s[k]].next = s[k + 1]
        BY <1>10, <3>1
      <3> QED BY <3>1, <3>2, <3>3, <3>4
    <2>2. CASE k = n - 1
      <3>1. k \in 1..n - 1 /\ n > 1 /\ n \in 1..Len(s) /\ (k = Len(t) <=> n = Len(s)) /\ k + 1 = n
        BY <1>1, <2>0, <2>2
      <3>2. h2[t[k]].next = IF n = Len(s) THEN NULL ELSE s[n + 1]
        BY <1>4, <1>10, <2>2, <3>1
      <3>3. k # Len(t) => t[n] = s[n + 1]
        <4>1. k # Len(t) => n \in n..Len(t)
          BY <1>1, <2>0, <2>2
        <4> QED BY <1>4, <4>1
      <3> QED BY <3>1, <3>2, <3>3
    <2>3. CASE k > n - 1
      <3>1. /\ k \in n..Len(t) /\ k + 1 \in 1..Len(s) /\ (k + 1 = Len(s) <=> k = Len(t))
            /\ n = 1 \/ (n - 1 \in 1..Len(s) /\ k + 1 # n - 1)
        BY <1>1, <2>0, <2>3
      <3>2. t[k] = s[k + 1] /\ (n = 1 \/ s[k + 1] # s[n - 1])
        BY <1>4, <1>5, <3>1
      <3>3. h2[t[k]] = h[s[k + 1]]
        BY <1>2, <1>8, <3>2
      <3>4. h[s[k + 1]].next = IF k + 1 = Len(s) THEN NULL ELSE s[(k + 1) + 1]
        BY <1>10, <3>1
      <3>5. k # Len(t) => t[k + 1] = s[(k + 1) + 1]
        <4>1. k # Len(t) => k + 1 \in n..Len(t)
          BY <1>1, <2>0, <2>3
        <4> QED BY <1>4, <4>1
      <3> QED BY <3>1, <3>3, <3>4, <3>5
    <2> QED BY <1>1, <2>0, <2>1, <2>2, <2>3
  <1>12. /\ l2.first = (IF Len(t) = 0 THEN NULL ELSE t[1])
         /\ l2.last = (IF Len(t) = 0 THEN NULL ELSE t[Len(t)])
    <2>1. CASE Len(s) = 1
      <3>1. n = 1 /\ Len(t) = 0
        BY <1>1, <1>3, <2>1
      <3> QED BY <2>1, <3>1
    <2>2. CASE Len(s) # 1
      <3>1. Len(t) # 0 /\ Len(s) # 0 /\ Len(t) = Len(s) - 1
        BY <1>1, <1>3, <2>2
      <3>2. l2.first = t[1]
        <4>1. CASE n > 1
          <5>1. 1 \in 1..n - 1
            BY <1>1, <4>1
          <5> QED BY <1>4, <3>1, <4>1, <5>1 DEF OnChain
        <4>2. CASE ~(n > 1)
          <5>1. n = 1 /\ 1 \in n..Len(t)
            BY <1>1, <3>1, <4>2
          <5>2. t[1] = s[1 + 1]
            BY <1>4, <5>1
          <5> QED BY <2>2, <4>2, <5>2
        <4> QED BY <4>1, <4>2
      <3>3. l2.last = t[Len(t)]
        <4>1. CASE n < Len(s)
          <5>1. Len(t) \in n..Len(t) /\ Len(t) + 1 = Len(s)
            BY <1>1, <3>1, <4>1
          <5>2. t[Len(t)] = s[Len(s)]
            BY <1>4, <5>1
          <5> QED BY <3>1, <4>1, <5>2 DEF OnChain
        <4>2. CASE ~(n < Len(s))
          <5>1. n # 1 /\ Len(t) = n - 1 /\ n - 1 \in 1..n - 1
            BY <1>1, <2>2, <3>1, <4>2
          <5>2. t[n - 1] = s[n - 1]
            BY <1>4, <5>1
          <5> QED BY <4>2, <5>1, <5>2
        <4> QED BY <4>1, <4>2
      <3> QED BY <3>1, <3>2, <3>3
    <2> QED BY <2>1, <2>2
  <1>13. OnChain(h2, l2, t)
    <2>1. Len(t) = l2.numInList
      BY <1>3 DEF OnChain
    <2> QED BY <1>7, <1>9, <1>11, <1>12, <2>1 DEF OnChain
  <1>14. On(t) = On(s) \ {s[n]}
    <2>1. On(t) \subseteq On(s) \ {s[n]}
      <3> HIDE DEF old
      <3> QED BY <1>6, <1>8 DEF On
    <2>2. ASSUME NEW k \in 1..Len(s), k # n PROVE s[k] \in On(t)
      <3>1. CASE k < n
        <4>1. k \in 1..n - 1
          BY <1>1, <3>1
        <4> QED BY <1>4, <4>1 DEF On
      <3>2. CASE ~(k < n)
        <4>1. k - 1 \in n..Len(t) /\ (k - 1) + 1 = k
          BY <1>1, <1>3, <2>2, <3>2
        <4>2. t[k - 1] = s[k] /\ k - 1 \in 1..Len(t)
          BY <1>4, <4>1
        <4> QED BY <4>2 DEF On
      <3> QED BY <3>1, <3>2
    <2>3. On(s) \ {s[n]} \subseteq On(t)
      BY <2>2 DEF On
    <2> QED BY <2>1, <2>3
  <1>15. Edited(h, s, h2, t)
    <2>1. On(s) \subseteq DOMAIN h /\ s[n] \in On(s) /\ s[n] \in DOMAIN h
      BY <1>1, ChainFacts DEF On
    <2>2. \A c \in DOMAIN h \ On(s) : n = 1 \/ c # s[n - 1]
      <3>1. n = 1 \/ n - 1 \in 1..Len(s)
        BY <1>1
      <3> QED BY <3>1 DEF On
    <2>3. \A c \in DOMAIN h \ On(s) : c \in DOMAIN h2 /\ h2[c] = h[c]
      BY <1>2, <2>1, <2>2
    <2> QED BY <1>2, <1>14, <2>1, <2>3 DEF Edited
  <1> QED BY <1>13, <1>14, <1>15 DEF t

\* Store w is h with a cell e of item x, next to p.
HasCell(h, e, x, p, w) ==
  /\ w \in [DOMAIN h \cup {e} -> CellRecord]
  /\ w[e].item = x /\ w[e].next = p
  /\ \A c \in DOMAIN h : w[c] = h[c]

LEMMA WithCell ==
    ASSUME NEW h, IsStore(h), NEW e, e \notin DOMAIN h, NEW x \in Objects, NEW p \in Places
    PROVE  HasCell(h, e, x, p, With(h, e, Cell(x, p)))
  <1> DEFINE cell == Cell(x, p)
             w == With(h, e, cell)
  <1>1. cell \in CellRecord /\ cell.item = x /\ cell.next = p
    BY DEF Cell, CellRecord
  <1>2. w = [d \in DOMAIN h \cup {e} |-> IF d = e THEN cell ELSE h[d]]
    BY DEF With
  <1> HIDE DEF cell
  <1>3. \A d \in DOMAIN h : h[d] \in CellRecord
    BY DEF IsStore
  <1> HIDE DEF w
  <1>4. w \in [DOMAIN h \cup {e} -> CellRecord]
    BY <1>1, <1>2, <1>3
  <1>5. w[e] = cell /\ \A c \in DOMAIN h : w[c] = h[c]
    BY <1>2
  <1>6. HasCell(h, e, x, p, w)
    BY <1>1, <1>4, <1>5 DEF HasCell
  <1> QED BY <1>6 DEF w, cell

LEMMA Relinked ==
    ASSUME NEW D, NEW w \in [D -> CellRecord], NEW d \in D, NEW p \in Places
    PROVE  /\ [w EXCEPT ![d].next = p] \in [D -> CellRecord]
           /\ [w EXCEPT ![d].next = p][d].next = p
           /\ [w EXCEPT ![d].next = p][d].item = w[d].item
           /\ \A c \in D : c # d => [w EXCEPT ![d].next = p][c] = w[c]
  BY DEF CellRecord

\* Operation r has added item x behind the first n cells of the chain s.
Adds(h, s, x, n, r) ==
  \E e \in Cells :
    /\ e \notin DOMAIN h /\ r.store[e].item = x
    /\ OnChain(r.store, r.list, InsertAt(s, n + 1, e))
    /\ Edited(h, s, r.store, InsertAt(s, n + 1, e))
    /\ On(InsertAt(s, n + 1, e)) = On(s) \cup {e}

\* Operation r has removed the n-th cell of the chain s.
Removes(h, s, n, r) ==
  /\ OnChain(r.store, r.list, RemoveAt(s, n))
  /\ Edited(h, s, r.store, RemoveAt(s, n))
  /\ On(RemoveAt(s, n)) = On(s) \ {s[n]}

Roomy(h) == IsStore(h) /\ Cardinality(DOMAIN h) < Cardinality(Cells)

LEMMA ResultIs ==
    ASSUME NEW h, NEW l
    PROVE  Result(h, l).store = h /\ Result(h, l).list = l
  BY DEF Result

LEMMA LinksAdd ==
    ASSUME NEW h, IsStore(h), NEW l, NEW s, OnChain(h, l, s), NEW e, NEW n, NEW x,
           NEW h2, NEW l2, Links(h, l, s, e, n, h2, l2), h2[e].item = x
    PROVE  Adds(h, s, x, n, Result(h2, l2))
  <1>1. /\ OnChain(h2, l2, InsertAt(s, n + 1, e)) /\ Edited(h, s, h2, InsertAt(s, n + 1, e))
        /\ On(InsertAt(s, n + 1, e)) = On(s) \cup {e}
    BY LinkedIn
  <1>2. e \in Cells /\ e \notin DOMAIN h
    BY DEF Links
  <1>3. Result(h2, l2).store = h2 /\ Result(h2, l2).list = l2
    BY ResultIs
  <1> HIDE DEF Result
  <1> QED BY <1>1, <1>2, <1>3 DEF Adds

\* The first cell of an empty list.
LEMMA FirstCell ==
    ASSUME NEW h, Roomy(h), NEW l, NEW s, OnChain(h, l, s), Len(s) = 0, NEW x \in Objects,
           NEW l2 \in ListRecord, l2.first = New(h), l2.last = New(h), l2.numInList = 1
    PROVE  Adds(h, s, x, 0, Result(With(h, New(h), Cell(x, NULL)), l2))
  <1> DEFINE e == New(h)
             h2 == With(h, e, Cell(x, NULL))
  <1>1. IsStore(h) /\ e \in Cells /\ e \notin DOMAIN h
    BY NewIsFree DEF Roomy
  <1> HIDE DEF e
  <1>2. HasCell(h, e, x, NULL, h2)
    BY <1>1, WithCell DEF Places
  <1> HIDE DEF h2
  <1>3. l.numInList = 0 /\ l2.first = e /\ l2.last = e
    BY DEF OnChain, e
  <1>4. Links(h, l, s, e, 0, h2, l2) /\ h2[e].item = x
    BY <1>1, <1>2, <1>3 DEF Links, HasCell
  <1>5. Adds(h, s, x, 0, Result(h2, l2))
    BY <1>1, <1>4, LinksAdd
  <1> QED BY <1>5 DEF h2, e

\* A cell behind another one.
LEMMA CellBehind ==
    ASSUME NEW h, Roomy(h), NEW l, NEW s, OnChain(h, l, s), NEW n \in 1..Len(s),
           NEW x \in Objects, NEW l2 \in ListRecord,
           l2.first = l.first, l2.last = (IF n = Len(s) THEN New(h) ELSE l.last),
           l2.numInList = l.numInList + 1,
           NEW p, p = (IF n = Len(s) THEN NULL ELSE s[n + 1])
    PROVE  Adds(h, s, x, n,
                Result([With(h, New(h), Cell(x, p)) EXCEPT ![s[n]].next = New(h)], l2))
  <1> DEFINE e == New(h)
             w == With(h, e, Cell(x, p))
             h2 == [w EXCEPT ![s[n]].next = e]
  <1>1. IsStore(h) /\ e \in Cells /\ e \notin DOMAIN h
    BY NewIsFree DEF Roomy
  <1>2. Len(s) \in Nat /\ s[n] \in DOMAIN h /\ s[n] # e /\ n > 0 /\ n \in 0..Len(s) /\ n # 0
    BY <1>1, ChainFacts
  <1>3. p \in Places /\ e \in Places
    <2>1. n # Len(s) => n + 1 \in 1..Len(s)
      BY <1>2
    <2>2. n # Len(s) => s[n + 1] \in Cells
      BY <1>1, <2>1, ChainFacts DEF IsStore
    <2> QED BY <1>1, <2>2 DEF Places
  <1> HIDE DEF e
  <1>4. HasCell(h, e, x, p, w)
    BY <1>1, <1>3, WithCell
  <1> HIDE DEF w
  <1>5. w \in [DOMAIN h \cup {e} -> CellRecord] /\ s[n] \in DOMAIN h \cup {e}
    BY <1>2, <1>4 DEF HasCell
  <1>6. /\ h2 \in [DOMAIN h \cup {e} -> CellRecord]
        /\ h2[s[n]].next = e /\ h2[s[n]].item = w[s[n]].item
        /\ \A c \in DOMAIN h \cup {e} : c # s[n] => h2[c] = w[c]
    BY <1>3, <1>5, Relinked
  <1> HIDE DEF h2
  <1>7. l2.last = (IF n = Len(s) THEN e ELSE l.last)
    BY DEF e
  <1>8. /\ h2[e].next = p /\ h2[e].item = x
        /\ \A c \in DOMAIN h : h2[c].item = h[c].item
        /\ \A c \in DOMAIN h : (n = 0 \/ c # s[n]) => h2[c] = h[c]
    BY <1>1, <1>2, <1>4, <1>6 DEF HasCell
  <1>9. Links(h, l, s, e, n, h2, l2)
    BY <1>1, <1>2, <1>6, <1>7, <1>8 DEF Links
  <1>10. Adds(h, s, x, n, Result(h2, l2))
    BY <1>1, <1>8, <1>9, LinksAdd
  <1> QED BY <1>10 DEF h2, w, e

\* A cell before the first one.
LEMMA CellBefore ==
    ASSUME NEW h, Roomy(h), NEW l, NEW s, OnChain(h, l, s), Len(s) # 0,
           NEW x \in Objects, NEW l2 \in ListRecord,
           l2.first = New(h), l2.last = l.last, l2.numInList = l.numInList + 1
    PROVE  Adds(h, s, x, 0, Result(With(h, New(h), Cell(x, l.first)), l2))
  <1> DEFINE e == New(h)
             h2 == With(h, e, Cell(x, l.first))
  <1>1. IsStore(h) /\ e \in Cells /\ e \notin DOMAIN h /\ l2.first = e
    BY NewIsFree DEF Roomy
  <1> HIDE DEF e
  <1>2. HasCell(h, e, x, l.first, h2)
    <2>1. l.first \in Places
      BY DEF OnChain, ListRecord
    <2> QED BY <1>1, <2>1, WithCell
  <1>3. 0 \in 0..Len(s) /\ 0 # Len(s) /\ l.first = s[0 + 1]
    <2>1. Len(s) \in Nat
      BY ChainFacts
    <2> QED BY <2>1 DEF OnChain
  <1> HIDE DEF h2
  <1>4. Links(h, l, s, e, 0, h2, l2) /\ h2[e].item = x
    BY <1>1, <1>2, <1>3 DEF Links, HasCell
  <1>5. Adds(h, s, x, 0, Result(h2, l2))
    BY <1>1, <1>4, LinksAdd
  <1> QED BY <1>5 DEF h2, e

LEMMA AddLastIs ==
    ASSUME NEW h, Roomy(h), NEW l, NEW s, OnChain(h, l, s), NEW x \in Objects
    PROVE  Adds(h, s, x, Len(s), AddLast(h, l, x))
  <1> DEFINE e == New(h)
  <1>1. Len(s) \in Nat /\ e \in Places /\ IsStore(h) /\ l \in ListRecord
    BY ChainFacts, NewIsFree DEF Roomy, Places, OnChain
  <1>2. CASE Len(s) = 0
    <2> DEFINE l2 == [first |-> e, last |-> e, numInList |-> 1]
    <2>1. l2 \in ListRecord /\ l2.first = e /\ l2.last = e /\ l2.numInList = 1
      BY <1>1 DEF ListRecord
    <2>2. AddLast(h, l, x) = Result(With(h, New(h), Cell(x, NULL)), l2)
      BY <1>2 DEF AddLast, IsEmpty, OnChain
    <2> HIDE DEF l2
    <2>3. Adds(h, s, x, 0, Result(With(h, New(h), Cell(x, NULL)), l2))
      BY <1>2, <2>1, FirstCell
    <2> QED BY <1>2, <2>2, <2>3
  <1>3. CASE Len(s) # 0
    <2> DEFINE l2 == [l EXCEPT !.last = e, !.numInList = @ + 1]
    <2>1. /\ l2 \in ListRecord /\ l2.first = l.first /\ l2.last = e
          /\ l2.numInList = l.numInList + 1
      <3>1. e \in Places /\ l \in [first : Places, last : Places, numInList : Nat]
        BY <1>1 DEF ListRecord
      <3> HIDE DEF e
      <3>2. l.numInList + 1 \in Nat
        BY <3>1
      <3> QED BY <3>1, <3>2 DEF ListRecord
    <2>2. Len(s) \in 1..Len(s) /\ l.last = s[Len(s)] /\ l.numInList # 0
      BY <1>1, <1>3 DEF OnChain
    <2>3. AddLast(h, l, x)
            = Result([With(h, New(h), Cell(x, NULL)) EXCEPT ![s[Len(s)]].next = New(h)], l2)
      BY <2>2 DEF AddLast, IsEmpty
    <2> HIDE DEF l2
    <2> DEFINE n == Len(s)
               p == NULL
    <2>4. /\ n \in 1..Len(s) /\ l2.last = (IF n = Len(s) THEN New(h) ELSE l.last)
          /\ p = (IF n = Len(s) THEN NULL ELSE s[n + 1])
      BY <2>1, <2>2
    <2> HIDE DEF n, p
    <2>5. Adds(h, s, x, n, Result([With(h, New(h), Cell(x, p)) EXCEPT ![s[n]].next = New(h)], l2))
      BY <2>1, <2>4, CellBehind
    <2> QED BY <2>3, <2>5 DEF n, p
  <1> QED BY <1>2, <1>3

LEMMA AddFirstIs ==
    ASSUME NEW h, Roomy(h), NEW l, NEW s, OnChain(h, l, s), NEW x \in Objects
    PROVE  Adds(h, s, x, 0, AddFirst(h, l, x))
  <1> DEFINE e == New(h)
  <1>1. Len(s) \in Nat /\ e \in Places /\ IsStore(h) /\ l \in ListRecord
    BY ChainFacts, NewIsFree DEF Roomy, Places, OnChain
  <1>2. CASE Len(s) = 0
    <2> DEFINE l2 == [first |-> e, last |-> e, numInList |-> 1]
    <2>1. l2 \in ListRecord /\ l2.first = e /\ l2.last = e /\ l2.numInList = 1
      BY <1>1 DEF ListRecord
    <2>2. AddFirst(h, l, x) = Result(With(h, New(h), Cell(x, NULL)), l2)
      BY <1>2 DEF AddFirst, IsEmpty, OnChain
    <2> HIDE DEF l2
    <2>3. Adds(h, s, x, 0, Result(With(h, New(h), Cell(x, NULL)), l2))
      BY <1>2, <2>1, FirstCell
    <2> QED BY <2>2, <2>3
  <1>3. CASE Len(s) # 0
    <2> DEFINE l2 == [l EXCEPT !.first = e, !.numInList = @ + 1]
    <2>1. /\ l2 \in ListRecord /\ l2.first = e /\ l2.last = l.last
          /\ l2.numInList = l.numInList + 1
      <3>1. e \in Places /\ l \in [first : Places, last : Places, numInList : Nat]
        BY <1>1 DEF ListRecord
      <3> HIDE DEF e
      <3>2. l.numInList + 1 \in Nat
        BY <3>1
      <3> QED BY <3>1, <3>2 DEF ListRecord
    <2>2. AddFirst(h, l, x) = Result(With(h, New(h), Cell(x, l.first)), l2)
      BY <1>3 DEF AddFirst, IsEmpty, OnChain
    <2> HIDE DEF l2
    <2>3. Adds(h, s, x, 0, Result(With(h, New(h), Cell(x, l.first)), l2))
      BY <1>3, <2>1, CellBefore
    <2> QED BY <2>2, <2>3
  <1> QED BY <1>2, <1>3

\* A cell deleted, and maybe the one before it linked to the one behind.
LEMMA WithoutCell ==
    ASSUME NEW h, IsStore(h), NEW d
    PROVE  /\ Delete(h, d) \in [DOMAIN h \ {d} -> CellRecord]
           /\ \A c \in DOMAIN h \ {d} : Delete(h, d)[c] = h[c]
  BY DEF Delete, IsStore

LEMMA UnlinksRemove ==
    ASSUME NEW h, IsStore(h), NEW l, NEW s, OnChain(h, l, s), NEW n, NEW h2, NEW l2,
           Unlinks(h, l, s, n, h2, l2)
    PROVE  Removes(h, s, n, Result(h2, l2))
  <1>1. /\ OnChain(h2, l2, RemoveAt(s, n)) /\ Edited(h, s, h2, RemoveAt(s, n))
        /\ On(RemoveAt(s, n)) = On(s) \ {s[n]}
    BY Unlinked
  <1>2. Result(h2, l2).store = h2 /\ Result(h2, l2).list = l2
    BY ResultIs
  <1> QED BY <1>1, <1>2 DEF Removes

LEMMA RemoveFrontIs ==
    ASSUME NEW h, IsStore(h), NEW l, NEW s, OnChain(h, l, s), Len(s) # 0
    PROVE  Removes(h, s, 1, RemoveFront(h, l))
  <1>1. /\ Len(s) \in Nat /\ s[1] \in DOMAIN h /\ l \in ListRecord /\ 1 \in 1..Len(s)
        /\ l.first = s[1] /\ l.last = s[Len(s)] /\ l.numInList = Len(s)
    <2>1. Len(s) \in Nat /\ 1 \in 1..Len(s) /\ l \in ListRecord
      BY ChainFacts DEF OnChain
    <2> QED BY <2>1, ChainFacts DEF OnChain
  <1>2. l.first = l.last <=> Len(s) = 1
    <2>1. Len(s) \in 1..Len(s)
      BY <1>1
    <2> QED BY <1>1, <2>1 DEF OnChain
  <1> DEFINE h2 == Delete(h, l.first)
             l2 == IF l.first = l.last
                     THEN [first |-> NULL, last |-> NULL, numInList |-> l.numInList - 1]
                   ELSE [l EXCEPT !.first = h[l.first].next, !.numInList = @ - 1]
  <1>3. RemoveFront(h, l) = Result(h2, l2)
    BY DEF RemoveFront
  <1>4. h[s[1]].next \in Places /\ h[s[1]].next = (IF Len(s) = 1 THEN NULL ELSE s[2])
    <2>1. h[s[1]].next = IF 1 = Len(s) THEN NULL ELSE s[1 + 1]
      BY <1>1 DEF OnChain
    <2>2. h[s[1]] \in CellRecord
      BY <1>1 DEF IsStore
    <2> QED BY <2>1, <2>2 DEF CellRecord
  <1>5. /\ l2 \in ListRecord /\ l2.numInList = l.numInList - 1
        /\ l2.first = (IF Len(s) = 1 THEN NULL ELSE s[2])
        /\ l2.last = (IF 1 < Len(s) THEN l.last ELSE NULL)
    <2>1. CASE l.first = l.last
      <3>1. l2 = [first |-> NULL, last |-> NULL, numInList |-> l.numInList - 1]
        BY <2>1
      <3>2. l.numInList - 1 \in Nat /\ Len(s) = 1 /\ ~(1 < Len(s))
        <4>1. Len(s) = 1
          BY <1>2, <2>1, Zenon
        <4>2. l.numInList = 1
          BY <1>1, <4>1
        <4> QED BY <4>1, <4>2
      <3>3. NULL \in Places
        BY DEF Places
      <3> QED BY <3>1, <3>2, <3>3 DEF ListRecord
    <2>2. CASE l.first # l.last
      <3>1. l2 = [l EXCEPT !.first = h[l.first].next, !.numInList = @ - 1]
        BY <2>2
      <3>2. l.numInList - 1 \in Nat /\ Len(s) # 1 /\ 1 < Len(s)
        BY <1>1, <1>2, <2>2
      <3> QED BY <1>1, <1>4, <3>1, <3>2 DEF ListRecord
    <2> QED BY <2>1, <2>2
  <1>6. /\ h2 \in [DOMAIN h \ {s[1]} -> CellRecord]
        /\ \A c \in DOMAIN h \ {s[1]} : h2[c] = h[c]
    <2>1. h2 = Delete(h, s[1])
      BY <1>1
    <2> HIDE DEF h2
    <2> QED BY <2>1, WithoutCell
  <1> HIDE DEF h2, l2
  <1>7. Unlinks(h, l, s, 1, h2, l2)
    BY <1>1, <1>5, <1>6 DEF Unlinks
  <1> QED BY <1>3, <1>7, UnlinksRemove

\* The n-th cell is the first that holds item x.
FirstWith(h, s, x, n) ==
  n \in 1..Len(s) /\ h[s[n]].item = x /\ \A j \in 1..n - 1 : h[s[j]].item # x

LEMMA FirstExists ==
    ASSUME NEW h, NEW s, Len(s) \in Nat, NEW x, \E n \in 1..Len(s) : h[s[n]].item = x
    PROVE  \E n : FirstWith(h, s, x, n)
  <1> DEFINE S == {n \in 1..Len(s) : h[s[n]].item = x}
  <1>1. S \subseteq Nat /\ S # {}
    OBVIOUS
  <1>2. PICK n \in S : \A r \in S : n <= r
    <2> HIDE DEF S
    <2> QED BY <1>1, LeastNumber
  <1>3. \A j \in 1..n - 1 : j \in 1..Len(s) /\ ~(n <= j)
    BY <1>2
  <1>4. FirstWith(h, s, x, n)
    BY <1>2, <1>3 DEF FirstWith
  <1> QED BY <1>4

LEMMA RemoveItemIs ==
    ASSUME NEW h, IsStore(h), NEW l, NEW s, OnChain(h, l, s), NEW x,
           \E n \in 1..Len(s) : h[s[n]].item = x
    PROVE  \E n : FirstWith(h, s, x, n) /\ Removes(h, s, n, RemoveItem(h, l, x))
  <1> DEFINE n == CHOOSE k \in DOMAIN s :
                    /\ h[s[k]].item = x
                    /\ \A j \in 1..k - 1 : h[s[j]].item # x
  <1>1. Len(s) \in Nat /\ DOMAIN s = 1..Len(s) /\ l \in ListRecord
    BY ChainFacts, LenProperties DEF OnChain
  <1>2. FirstWith(h, s, x, n)
    <2>1. PICK k : FirstWith(h, s, x, k)
      BY <1>1, FirstExists
    <2> QED BY <1>1, <2>1 DEF FirstWith
  <1>3. CellsOf(h, l) = s
    BY CellsAre
  <1> DEFINE next == h[s[n]].next
             w == Delete(h, s[n])
             h2 == [w EXCEPT ![s[n - 1]].next = next]
             l2 == [l EXCEPT !.last = IF next = NULL THEN s[n - 1] ELSE @, !.numInList = @ - 1]
  <1>4. RemoveItem(h, l, x) = IF n = 1 THEN RemoveFront(h, l) ELSE Result(h2, l2)
    BY <1>3 DEF RemoveItem
  <1> HIDE DEF n
  <1>5. n \in 1..Len(s) /\ Len(s) # 0 /\ s[n] \in DOMAIN h
    BY <1>1, <1>2, ChainFacts DEF FirstWith
  <1>6. CASE n = 1
    <2>1. Removes(h, s, 1, RemoveFront(h, l))
      BY <1>5, RemoveFrontIs
    <2> QED BY <1>2, <1>4, <1>6, <2>1
  <1>7. CASE n # 1
    <2>1. /\ n - 1 \in 1..Len(s) /\ n > 1 /\ s[n - 1] \in DOMAIN h /\ s[n - 1] # s[n]
          /\ s[n - 1] \in Places
      <3>1. n - 1 \in 1..Len(s) /\ n > 1 /\ n - 1 # n
        BY <1>1, <1>5, <1>7
      <3> QED BY <1>5, <3>1, ChainFacts DEF OnChain, IsStore, Places
    <2>2. next \in Places /\ next = (IF n = Len(s) THEN NULL ELSE s[n + 1])
      <3>1. h[s[n]] \in CellRecord
        BY <1>5 DEF IsStore
      <3> QED BY <1>5, <3>1 DEF OnChain, CellRecord
    <2>3. next = NULL <=> n = Len(s)
      <3>1. n # Len(s) => n + 1 \in 1..Len(s)
        BY <1>1, <1>5
      <3>2. n # Len(s) => s[n + 1] \in DOMAIN h
        BY <3>1, ChainFacts
      <3>3. NULL \notin DOMAIN h
        BY StoreFinite
      <3> HIDE DEF next
      <3> QED BY <2>2, <3>2, <3>3
    <2> HIDE DEF next
    <2>4. /\ l2 \in ListRecord /\ l2.numInList = l.numInList - 1 /\ l2.first = l.first
          /\ l2.last = (IF n < Len(s) THEN l.last ELSE s[n - 1])
      <3>1. l.numInList - 1 \in Nat /\ (n < Len(s) <=> n # Len(s))
        BY <1>1, <1>5 DEF OnChain
      <3> QED BY <1>1, <2>1, <2>3, <3>1 DEF ListRecord
    <2>5. /\ w \in [DOMAIN h \ {s[n]} -> CellRecord]
          /\ \A c \in DOMAIN h \ {s[n]} : w[c] = h[c]
      BY WithoutCell
    <2> HIDE DEF w
    <2>6. /\ h2 \in [DOMAIN h \ {s[n]} -> CellRecord]
          /\ h2[s[n - 1]].next = next /\ h2[s[n - 1]].item = w[s[n - 1]].item
          /\ \A c \in DOMAIN h \ {s[n]} : c # s[n - 1] => h2[c] = w[c]
      <3>1. s[n - 1] \in DOMAIN h \ {s[n]}
        BY <2>1
      <3> QED BY <2>2, <2>5, <3>1, Relinked
    <2> HIDE DEF h2, l2
    <2>7. /\ \A c \in DOMAIN h2 : h2[c].item = h[c].item
          /\ \A c \in DOMAIN h2 : (n = 1 \/ c # s[n - 1]) => h2[c] = h[c]
      BY <1>7, <2>1, <2>5, <2>6
    <2>8. Unlinks(h, l, s, n, h2, l2)
      BY <1>5, <1>7, <2>1, <2>4, <2>6, <2>7 DEF Unlinks, next
    <2>9. Removes(h, s, n, Result(h2, l2))
      BY <2>8, UnlinksRemove
    <2> QED BY <1>2, <1>4, <1>7, <2>9
  <1> QED BY <1>6, <1>7

\* Item x belongs behind the first n cells of the sorted chain s.
Belongs(h, s, x, n) ==
  /\ \A j \in 1..n : ~(Compare(x, h[s[j]].item) < 0)
  /\ n < Len(s) => Compare(x, h[s[n + 1]].item) < 0

LEMMA InsertIs ==
    ASSUME NEW h, Roomy(h), NEW l, NEW s, OnChain(h, l, s), NEW x \in Objects
    PROVE  \E n \in 0..Len(s) : Belongs(h, s, x, n) /\ Adds(h, s, x, n, Insert(h, l, x))
  <1> DEFINE e == New(h)
             bigger == {n \in 2..Len(s) : Compare(x, h[s[n]].item) < 0}
             m == CHOOSE k \in bigger : \A j \in bigger : k <= j
             longer == [l EXCEPT !.numInList = @ + 1]
             empty == Result(With(h, e, Cell(x, NULL)), [longer EXCEPT !.first = e, !.last = e])
             front == Result(With(h, e, Cell(x, l.first)), [longer EXCEPT !.first = e])
             inside == Result([With(h, e, Cell(x, s[m])) EXCEPT ![s[m - 1]].next = e], longer)
             end == Result([With(h, e, Cell(x, NULL)) EXCEPT ![l.last].next = e],
                           [longer EXCEPT !.last = e])
  <1>1. Len(s) \in Nat /\ e \in Places /\ IsStore(h) /\ l \in ListRecord
    BY ChainFacts, NewIsFree DEF Roomy, Places, OnChain
  <1>2. CellsOf(h, l) = s
    BY <1>1, CellsAre
  <1>3. Insert(h, l, x) = IF IsEmpty(l) THEN empty
                          ELSE IF Compare(x, h[l.first].item) < 0 THEN front
                          ELSE IF bigger # {} THEN inside ELSE end
    BY <1>2 DEF Insert
  <1>4. IsEmpty(l) <=> Len(s) = 0
    BY DEF IsEmpty, OnChain
  <1>5. Len(s) # 0 => l.first = s[1] /\ l.last = s[Len(s)]
    BY DEF OnChain
  <1>6. /\ longer \in ListRecord /\ longer.first = l.first /\ longer.last = l.last
        /\ longer.numInList = l.numInList + 1
    <2>1. l \in [first : Places, last : Places, numInList : Nat]
      BY <1>1 DEF ListRecord
    <2>2. l.numInList + 1 \in Nat
      BY <2>1
    <2> QED BY <2>1, <2>2 DEF ListRecord
  <1> HIDE DEF longer
  <1> DEFINE First(k) == [k EXCEPT !.first = e]
  <1>7. /\ First(longer) \in ListRecord /\ First(longer).first = e
        /\ First(longer).last = l.last /\ First(longer).numInList = l.numInList + 1
    <2> HIDE DEF e
    <2> QED BY <1>1, <1>6 DEF ListRecord
  <1> DEFINE WithLast(k) == [k EXCEPT !.last = e]
  <1>8. /\ WithLast(longer) \in ListRecord /\ WithLast(longer).first = l.first
        /\ WithLast(longer).last = e /\ WithLast(longer).numInList = l.numInList + 1
    <2> HIDE DEF e
    <2> QED BY <1>1, <1>6 DEF ListRecord
  <1>9. CASE Len(s) = 0
    <2> DEFINE l2 == [longer EXCEPT !.first = e, !.last = e]
    <2>1. l2 \in ListRecord /\ l2.first = e /\ l2.last = e /\ l2.numInList = 1
      <3>1. l.numInList = 0
        BY <1>9 DEF OnChain
      <3>2. longer \in [first : Places, last : Places, numInList : Nat] /\ e \in Places
        BY <1>1, <1>6 DEF ListRecord
      <3>3. longer.numInList = 1
        BY <1>6, <3>1
      <3> HIDE DEF e
      <3> QED BY <3>2, <3>3 DEF ListRecord
    <2>2. Insert(h, l, x) = Result(With(h, New(h), Cell(x, NULL)), l2)
      BY <1>3, <1>4, <1>9
    <2> HIDE DEF l2
    <2>3. Adds(h, s, x, 0, Result(With(h, New(h), Cell(x, NULL)), l2))
      BY <1>9, <2>1, FirstCell
    <2>4. 0 \in 0..Len(s) /\ Belongs(h, s, x, 0)
      BY <1>1, <1>9 DEF Belongs
    <2> QED BY <2>2, <2>3, <2>4
  <1>10. CASE Len(s) # 0 /\ Compare(x, h[s[1]].item) < 0
    <2>1. Insert(h, l, x) = Result(With(h, New(h), Cell(x, l.first)), First(longer))
      BY <1>3, <1>4, <1>5, <1>10
    <2> HIDE DEF First
    <2>2. Adds(h, s, x, 0, Result(With(h, New(h), Cell(x, l.first)), First(longer)))
      BY <1>7, <1>10, CellBefore
    <2>3. 0 \in 0..Len(s) /\ Belongs(h, s, x, 0)
      BY <1>1, <1>10 DEF Belongs
    <2> QED BY <2>1, <2>2, <2>3
  <1>11. CASE Len(s) # 0 /\ ~(Compare(x, h[s[1]].item) < 0) /\ bigger # {}
    <2>1. Insert(h, l, x) = inside
      BY <1>3, <1>4, <1>5, <1>11
    <2>2. m \in bigger /\ \A j \in bigger : m <= j
      <3>1. bigger \subseteq Nat
        BY <1>1
      <3>2. bigger # {}
        BY <1>11
      <3> HIDE DEF bigger
      <3> QED BY <3>1, <3>2, LeastNumber
    <2> DEFINE n == m - 1
    <2> HIDE DEF m
    <2>3. n \in 1..Len(s) /\ n + 1 = m /\ n < Len(s) /\ n \in 0..Len(s) /\ m \in 2..Len(s)
      BY <1>1, <2>2
    <2>4. Belongs(h, s, x, n)
      <3>1. \A j \in 1..n : j = 1 \/ (j \in 2..Len(s) /\ ~(m <= j))
        BY <1>1, <2>3
      <3> QED BY <1>11, <2>2, <2>3, <3>1 DEF Belongs
    <2> DEFINE p == s[m]
    <2>5. /\ p = (IF n = Len(s) THEN NULL ELSE s[n + 1])
          /\ longer.last = (IF n = Len(s) THEN New(h) ELSE l.last)
      BY <1>1, <1>6, <2>3
    <2> HIDE DEF n, p
    <2>6. Adds(h, s, x, n,
               Result([With(h, New(h), Cell(x, p)) EXCEPT ![s[n]].next = New(h)], longer))
      BY <1>6, <2>3, <2>5, CellBehind
    <2>7. inside = Result([With(h, New(h), Cell(x, p)) EXCEPT ![s[n]].next = New(h)], longer)
      BY DEF n, p
    <2> QED BY <2>1, <2>3, <2>4, <2>6, <2>7
  <1>12. CASE Len(s) # 0 /\ ~(Compare(x, h[s[1]].item) < 0) /\ bigger = {}
    <2>1. Insert(h, l, x)
            = Result([With(h, New(h), Cell(x, NULL)) EXCEPT ![s[Len(s)]].next = New(h)],
                     WithLast(longer))
      BY <1>3, <1>4, <1>5, <1>12
    <2> DEFINE n == Len(s)
               p == NULL
    <2>2. /\ n \in 1..Len(s) /\ n \in 0..Len(s)
          /\ WithLast(longer).last = (IF n = Len(s) THEN New(h) ELSE l.last)
          /\ p = (IF n = Len(s) THEN NULL ELSE s[n + 1])
      BY <1>1, <1>8, <1>12
    <2>3. Belongs(h, s, x, n)
      <3>1. \A j \in 1..n : j = 1 \/ j \in 2..Len(s)
        BY <1>1
      <3> QED BY <1>1, <1>12, <3>1 DEF Belongs
    <2> HIDE DEF n, p, WithLast
    <2>4. Adds(h, s, x, n,
               Result([With(h, New(h), Cell(x, p)) EXCEPT ![s[n]].next = New(h)],
                      WithLast(longer)))
      BY <1>8, <2>2, CellBehind
    <2> QED BY <2>1, <2>2, <2>3, <2>4 DEF n, p
  <1> QED BY <1>9, <1>10, <1>11, <1>12

-----------------------------------------------------------------------------
(* Several lists in one store *)

\* The cells of the lists bs are those of the chains ch: each list has its own,
\* and there are no others.
Linked(h, I, bs, ch) ==
  /\ IsStore(h) /\ bs \in [I -> ListRecord] /\ ch \in [I -> Seq(Cells)]
  /\ \A i \in I : OnChain(h, bs[i], ch[i])
  /\ \A i, j \in I : i # j => On(ch[i]) \cap On(ch[j]) = {}
  /\ \A c \in DOMAIN h : \E i \in I : c \in On(ch[i])

\* One list changed.
Changes(I, b, bs, ch, bs2, ch2) ==
  /\ b \in I /\ bs2 \in [I -> ListRecord] /\ ch2 \in [I -> Seq(Cells)]
  /\ \A i \in I \ {b} : bs2[i] = bs[i] /\ ch2[i] = ch[i]

LEMMA Relink ==
    ASSUME NEW h, NEW I, NEW bs, NEW ch, Linked(h, I, bs, ch),
           NEW b, NEW bs2, NEW ch2, Changes(I, b, bs, ch, bs2, ch2),
           NEW h2, OnChain(h2, bs2[b], ch2[b]), Edited(h, ch[b], h2, ch2[b])
    PROVE  Linked(h2, I, bs2, ch2)
  <1>1. ASSUME NEW i \in I, i # b
        PROVE  OnChain(h2, bs2[i], ch2[i]) /\ On(ch2[i]) \cap On(ch2[b]) = {}
    <2>1. OnChain(h, bs[i], ch[i]) /\ On(ch[i]) \cap On(ch[b]) = {}
      BY <1>1 DEF Linked, Changes
    <2>2. OnChain(h2, bs[i], ch[i]) /\ On(ch[i]) \cap On(ch2[b]) = {}
      BY <2>1, ChainUntouched
    <2> QED BY <1>1, <2>2 DEF Changes
  <1>2. \A i \in I : OnChain(h2, bs2[i], ch2[i])
    BY <1>1
  <1>3. ASSUME NEW i \in I, NEW j \in I, i # j
        PROVE  On(ch2[i]) \cap On(ch2[j]) = {}
    <2>1. CASE i # b /\ j # b
      <3>1. ch2[i] = ch[i] /\ ch2[j] = ch[j]
        BY <2>1 DEF Changes
      <3> QED BY <1>3, <3>1 DEF Linked
    <2>2. CASE i = b
      BY <1>1, <1>3, <2>2
    <2>3. CASE j = b
      BY <1>1, <1>3, <2>3
    <2> QED BY <2>1, <2>2, <2>3
  <1>4. ASSUME NEW c \in DOMAIN h2 PROVE \E i \in I : c \in On(ch2[i])
    <2>1. CASE c \in On(ch2[b])
      BY <2>1 DEF Changes
    <2>2. CASE c \notin On(ch2[b])
      <3>1. c \in DOMAIN h /\ c \notin On(ch[b])
        BY <2>2 DEF Edited
      <3>2. PICK i \in I : c \in On(ch[i])
        BY <3>1 DEF Linked
      <3>3. ch2[i] = ch[i]
        BY <3>1, <3>2 DEF Changes
      <3> QED BY <3>2, <3>3
    <2> QED BY <2>1, <2>2
  <1> QED BY <1>2, <1>3, <1>4 DEF Linked, Changes, Edited

\* The sequence of chains with one of them replaced.
ReplacedBy(ch, b, s) == [ch EXCEPT ![b] = s]

OneReplaced(I, S, ch, b, s, ch2) ==
  ch2 \in [I -> S] /\ ch2[b] = s /\ \A i \in I \ {b} : ch2[i] = ch[i]

LEMMA ReplacedIs ==
    ASSUME NEW I, NEW S, NEW ch \in [I -> S], NEW b \in I, NEW s \in S
    PROVE  OneReplaced(I, S, ch, b, s, ReplacedBy(ch, b, s))
  BY DEF ReplacedBy, OneReplaced

\* What adding an item does to the lists.
AddedTo(h, I, bs, ch, b, n, x, h2, bs2, ch2, e) ==
  /\ Linked(h2, I, bs2, ch2)
  /\ e \in Cells /\ e \notin DOMAIN h /\ DOMAIN h2 = DOMAIN h \cup {e}
  /\ h2[e].item = x /\ \A c \in DOMAIN h : h2[c].item = h[c].item
  /\ ch2[b] = InsertAt(ch[b], n + 1, e) /\ On(ch2[b]) = On(ch[b]) \cup {e}
  /\ \A i \in I \ {b} : ch2[i] = ch[i]

LEMMA AddedIs ==
    ASSUME NEW h, NEW I, NEW bs, NEW ch, Linked(h, I, bs, ch), NEW b \in I, NEW n, NEW x,
           NEW r, Adds(h, ch[b], x, n, r),
           NEW bs2 \in [I -> ListRecord], bs2[b] = r.list, \A i \in I \ {b} : bs2[i] = bs[i]
    PROVE  \E ch2, e : AddedTo(h, I, bs, ch, b, n, x, r.store, bs2, ch2, e)
  <1>1. PICK e \in Cells :
          /\ e \notin DOMAIN h /\ r.store[e].item = x
          /\ OnChain(r.store, r.list, InsertAt(ch[b], n + 1, e))
          /\ Edited(h, ch[b], r.store, InsertAt(ch[b], n + 1, e))
          /\ On(InsertAt(ch[b], n + 1, e)) = On(ch[b]) \cup {e}
    BY DEF Adds
  <1> DEFINE s2 == InsertAt(ch[b], n + 1, e)
             h2 == r.store
             ch2 == ReplacedBy(ch, b, s2)
  <1>2. OnChain(h2, bs2[b], s2) /\ Edited(h, ch[b], h2, s2) /\ On(s2) = On(ch[b]) \cup {e}
    BY <1>1
  <1>3. s2 \in Seq(Cells)
    <2> HIDE DEF s2, h2
    <2>1. s2 \in Seq(DOMAIN h2) /\ DOMAIN h2 \subseteq Cells
      BY <1>2 DEF OnChain, Edited, IsStore
    <2> QED BY <2>1, SeqMonotonic
  <1> HIDE DEF s2, h2
  <1>4. ch \in [I -> Seq(Cells)] /\ OnChain(h, bs[b], ch[b]) /\ On(ch[b]) \subseteq DOMAIN h
    <2>1. ch \in [I -> Seq(Cells)] /\ OnChain(h, bs[b], ch[b])
      BY DEF Linked
    <2> QED BY <2>1, ChainFacts
  <1>5. ch2 \in [I -> Seq(Cells)] /\ ch2[b] = s2 /\ \A i \in I \ {b} : ch2[i] = ch[i]
    <2>1. OneReplaced(I, Seq(Cells), ch, b, s2, ch2)
      BY <1>3, <1>4, ReplacedIs
    <2> QED BY <2>1 DEF OneReplaced
  <1> HIDE DEF ch2
  <1>6. Changes(I, b, bs, ch, bs2, ch2)
    BY <1>5 DEF Changes
  <1>7. Linked(h2, I, bs2, ch2)
    BY <1>2, <1>5, <1>6, Relink
  <1>8. DOMAIN h2 = DOMAIN h \cup {e}
    BY <1>2, <1>4 DEF Edited
  <1>9. \A c \in DOMAIN h : h2[c].item = h[c].item
    BY <1>2, <1>8 DEF Edited
  <1>10. AddedTo(h, I, bs, ch, b, n, x, h2, bs2, ch2, e)
    BY <1>1, <1>2, <1>5, <1>7, <1>8, <1>9 DEF AddedTo, s2, h2
  <1> QED BY <1>10 DEF h2

\* What removing the n-th cell of a list does to the lists.
RemovedFrom(h, I, bs, ch, b, n, h2, bs2, ch2) ==
  /\ Linked(h2, I, bs2, ch2)
  /\ ch[b][n] \in DOMAIN h /\ DOMAIN h2 = DOMAIN h \ {ch[b][n]}
  /\ \A c \in DOMAIN h2 : h2[c].item = h[c].item
  /\ ch2[b] = RemoveAt(ch[b], n) /\ On(ch2[b]) = On(ch[b]) \ {ch[b][n]}
  /\ \A i \in I \ {b} : ch2[i] = ch[i]

LEMMA RemovedIs ==
    ASSUME NEW h, NEW I, NEW bs, NEW ch, Linked(h, I, bs, ch), NEW b \in I,
           NEW n \in 1..Len(ch[b]), NEW r, Removes(h, ch[b], n, r),
           NEW bs2 \in [I -> ListRecord], bs2[b] = r.list, \A i \in I \ {b} : bs2[i] = bs[i]
    PROVE  \E ch2 : RemovedFrom(h, I, bs, ch, b, n, r.store, bs2, ch2)
  <1> DEFINE s2 == RemoveAt(ch[b], n)
             h2 == r.store
             ch2 == ReplacedBy(ch, b, s2)
  <1>2. OnChain(h2, bs2[b], s2) /\ Edited(h, ch[b], h2, s2) /\ On(s2) = On(ch[b]) \ {ch[b][n]}
    BY DEF Removes
  <1>3. s2 \in Seq(Cells)
    <2> HIDE DEF s2, h2
    <2>1. s2 \in Seq(DOMAIN h2) /\ DOMAIN h2 \subseteq Cells
      BY <1>2 DEF OnChain, Edited, IsStore
    <2> QED BY <2>1, SeqMonotonic
  <1> HIDE DEF s2, h2
  <1>4. ch \in [I -> Seq(Cells)] /\ On(ch[b]) \subseteq DOMAIN h /\ ch[b][n] \in On(ch[b])
    <2>1. ch \in [I -> Seq(Cells)] /\ OnChain(h, bs[b], ch[b])
      BY DEF Linked
    <2>2. On(ch[b]) \subseteq DOMAIN h /\ ch[b][n] \in On(ch[b])
      BY <2>1, ChainFacts DEF On
    <2> QED BY <2>1, <2>2
  <1>5. ch2 \in [I -> Seq(Cells)] /\ ch2[b] = s2 /\ \A i \in I \ {b} : ch2[i] = ch[i]
    <2>1. OneReplaced(I, Seq(Cells), ch, b, s2, ch2)
      BY <1>3, <1>4, ReplacedIs
    <2> QED BY <2>1 DEF OneReplaced
  <1> HIDE DEF ch2
  <1>6. Changes(I, b, bs, ch, bs2, ch2)
    BY <1>5 DEF Changes
  <1>7. Linked(h2, I, bs2, ch2)
    BY <1>2, <1>5, <1>6, Relink
  <1>8. DOMAIN h2 = DOMAIN h \ {ch[b][n]}
    BY <1>2, <1>4 DEF Edited
  <1>9. \A c \in DOMAIN h2 : h2[c].item = h[c].item
    BY <1>2, <1>8 DEF Edited
  <1>10. RemovedFrom(h, I, bs, ch, b, n, h2, bs2, ch2)
    BY <1>2, <1>4, <1>5, <1>7, <1>8, <1>9 DEF RemovedFrom, s2
  <1> QED BY <1>10 DEF h2

\* The cells of the store increase and decrease by one.
LEMMA OneMore ==
    ASSUME NEW h, IsStore(h), NEW h2, NEW e, e \notin DOMAIN h, DOMAIN h2 = DOMAIN h \cup {e}
    PROVE  Cardinality(DOMAIN h2) = Cardinality(DOMAIN h) + 1
  BY StoreFinite, FS_AddElement

LEMMA OneLess ==
    ASSUME NEW h, IsStore(h), NEW h2, NEW e \in DOMAIN h, DOMAIN h2 = DOMAIN h \ {e}
    PROVE  Cardinality(DOMAIN h2) = Cardinality(DOMAIN h) - 1
  BY StoreFinite, FS_RemoveElement

-----------------------------------------------------------------------------
(* One list, sorted or not *)

ItemsDiffer(h) == \A c, d \in DOMAIN h : h[c].item = h[d].item => c = d
Ascending(h, s) == \A k \in 2..Len(s) : Compare(h[s[k - 1]].item, h[s[k]].item) <= 0
Absent(h, x) == \A c \in DOMAIN h : h[c].item # x

\* What is kept of a List or a SortedList.
ListIs(sorted, h, bs, ch) ==
  /\ bs \in Seq(ListRecord) /\ Len(bs) = 1 /\ Linked(h, 1..1, bs, ch)
  /\ ItemsDiffer(h)
  /\ sorted => Ascending(h, ch[1])

\* A chain through all of a set counts it.
LEMMA ChainCounts ==
    ASSUME NEW S, NEW s \in Seq(S), \A j, k \in 1..Len(s) : s[j] = s[k] => j = k, On(s) = S
    PROVE  Cardinality(S) = Len(s)
  <1>1. s \in [1..Len(s) -> S] /\ Len(s) \in Nat
    BY LenProperties
  <1>2. \A c \in S : \E k \in 1..Len(s) : s[k] = c
    BY DEF On
  <1>3. s \in Bijection(1..Len(s), S)
    BY <1>1, <1>2 DEF Bijection, Injection, Surjection, IsInjective
  <1>4. ExistsBijection(1..Len(s), S)
    BY <1>3 DEF ExistsBijection
  <1>5. IsFiniteSet(1..Len(s)) /\ Cardinality(1..Len(s)) = Len(s)
    <2>1. 1 \in Int /\ Len(s) \in Int /\ Len(s) - 1 + 1 = Len(s) /\ (1 > Len(s) => Len(s) = 0)
      BY <1>1
    <2>2. IsFiniteSet(1..Len(s))
      BY <2>1, FS_Interval
    <2>3. Cardinality(1..Len(s)) = Len(s)
      BY <1>1, <2>1, FS_Interval
    <2> QED BY <2>2, <2>3
  <1> QED BY <1>4, <1>5, FS_Bijection

\* The one list holds all the cells.
LEMMA OneList ==
    ASSUME NEW sorted, NEW h, NEW bs, NEW ch, ListIs(sorted, h, bs, ch)
    PROVE  /\ IsStore(h) /\ OnChain(h, bs[1], ch[1]) /\ On(ch[1]) = DOMAIN h
           /\ Len(ch[1]) \in Nat /\ \A k \in 1..Len(ch[1]) : ch[1][k] \in DOMAIN h
           /\ CellsOf(h, bs[1]) = ch[1]
           /\ Len(ch[1]) = Cardinality(DOMAIN h)
  <1>1. /\ IsStore(h) /\ OnChain(h, bs[1], ch[1]) /\ 1 \in 1..1
        /\ \A c \in DOMAIN h : \E i \in 1..1 : c \in On(ch[i])
    BY DEF ListIs, Linked
  <1>2. /\ Len(ch[1]) \in Nat /\ On(ch[1]) \subseteq DOMAIN h
        /\ \A k \in 1..Len(ch[1]) : ch[1][k] \in DOMAIN h
    BY <1>1, ChainFacts
  <1>3. On(ch[1]) = DOMAIN h
    <2>1. \A i \in 1..1 : i = 1
      OBVIOUS
    <2> QED BY <1>1, <1>2, <2>1
  <1>4. CellsOf(h, bs[1]) = ch[1]
    BY <1>1, CellsAre
  <1>5. /\ ch[1] \in Seq(DOMAIN h)
        /\ \A j, k \in 1..Len(ch[1]) : ch[1][j] = ch[1][k] => j = k
    BY <1>1 DEF OnChain
  <1>6. Cardinality(DOMAIN h) = Len(ch[1])
    BY <1>3, <1>5, ChainCounts
  <1> QED BY <1>1, <1>2, <1>3, <1>4, <1>6

LEMMA InListIs ==
    ASSUME NEW h, IsStore(h), NEW l, NEW s, OnChain(h, l, s), NEW x
    PROVE  IsInList(h, l, x) <=> \E n \in 1..Len(s) : h[s[n]].item = x
  <1>1. CellsOf(h, l) = s /\ DOMAIN s = 1..Len(s)
    BY CellsAre, LenProperties DEF OnChain
  <1> QED BY <1>1 DEF IsInList, ItemsOf

LEMMA SingleList ==
    ASSUME NEW l \in ListRecord
    PROVE  <<l>> \in Seq(ListRecord) /\ Len(<<l>>) = 1 /\ <<l>> \in [1..1 -> ListRecord]
           /\ <<l>>[1] = l
  OBVIOUS

\* An order: smaller items come first, whoever asks.
LEMMA CompareIs ==
    ASSUME NEW x \in Objects, NEW y \in Objects
    PROVE  /\ Compare(x, y) < 0 => Compare(x, y) <= 0
           /\ ~(Compare(x, y) < 0) => Compare(y, x) <= 0
           /\ \A z \in Objects : Compare(x, y) <= 0 /\ Compare(y, z) <= 0 => Compare(x, z) <= 0
  <1>1. /\ Compare(x, y) \in Int /\ Compare(y, x) \in Int
        /\ Compare(y, x) < 0 <=> Compare(x, y) > 0
        /\ Compare(x, y) < 0 <=> Compare(y, x) > 0
    BY LibraryAssumption
  <1>2. \A z \in Objects : Compare(x, y) <= 0 /\ Compare(y, z) <= 0 => Compare(x, z) <= 0
    BY LibraryAssumption
  <1> QED BY <1>1, <1>2

\* An item where it belongs leaves the list sorted.
LEMMA InsertSorts ==
    ASSUME NEW h, NEW h2, NEW s \in Seq(DOMAIN h), NEW e, NEW x \in Objects, NEW n \in 0..Len(s),
           \A c \in DOMAIN h : h[c].item \in Objects /\ h2[c].item = h[c].item,
           h2[e].item = x, Ascending(h, s), Belongs(h, s, x, n)
    PROVE  Ascending(h2, InsertAt(s, n + 1, e))
  <1> DEFINE t == InsertAt(s, n + 1, e)
             D == DOMAIN h \cup {e}
  <1>1. Len(s) \in Nat /\ n \in Nat /\ n <= Len(s) /\ \A k \in 1..Len(s) : s[k] \in DOMAIN h
    BY LenProperties, ElementOfSeq
  <1>2. /\ Len(t) = Len(s) + 1
        /\ \A k \in 1..Len(s) + 1 :
             t[k] = IF k <= n THEN s[k] ELSE IF k = n + 1 THEN e ELSE s[k - 1]
    <2>1. s \in Seq(D) /\ e \in D
      BY SeqMonotonic
    <2> HIDE DEF D
    <2>2. IsInserted(D, s, n, e, t)
      BY <2>1, InsertAtIs DEF t
    <2> QED BY <2>2 DEF IsInserted
  <1> HIDE DEF t
  <1>3. \A k \in 2..Len(s) : Compare(h[s[k - 1]].item, h[s[k]].item) <= 0
    BY DEF Ascending
  <1>4. \A k \in 1..Len(s) : h[s[k]].item \in Objects /\ h2[s[k]].item = h[s[k]].item
    BY <1>1
  <1>5. ASSUME NEW k \in 2..Len(t) PROVE Compare(h2[t[k - 1]].item, h2[t[k]].item) <= 0
    <2>0. k \in Nat /\ k >= 2 /\ k <= Len(s) + 1 /\ k \in 1..Len(s) + 1 /\ k - 1 \in 1..Len(s) + 1
      BY <1>1, <1>2
    <2>1. CASE k <= n
      <3>1. k - 1 <= n /\ k \in 1..Len(s) /\ k - 1 \in 1..Len(s) /\ k \in 2..Len(s)
        BY <1>1, <2>0, <2>1
      <3>2. t[k] = s[k] /\ t[k - 1] = s[k - 1]
        BY <1>2, <2>0, <2>1, <3>1
      <3> QED BY <1>3, <1>4, <3>1, <3>2
    <2>2. CASE k = n + 1
      <3>1. k - 1 = n /\ n <= n /\ n \in 1..Len(s) /\ n \in 1..n /\ ~(k <= n)
        BY <1>1, <2>0, <2>2
      <3>2. t[k] = e /\ t[k - 1] = s[n]
        BY <1>2, <2>0, <2>2, <3>1
      <3>3. ~(Compare(x, h[s[n]].item) < 0)
        BY <3>1 DEF Belongs
      <3>4. Compare(h[s[n]].item, x) <= 0
        BY <1>4, <3>1, <3>3, CompareIs
      <3> QED BY <1>4, <3>1, <3>2, <3>4
    <2>3. CASE k = n + 2
      <3>1. k - 1 = n + 1 /\ ~(n + 1 <= n) /\ n + 1 \in 1..Len(s) /\ n < Len(s) /\ ~(k <= n)
            /\ k # n + 1
        BY <1>1, <2>0, <2>3
      <3>2. t[k] = s[n + 1] /\ t[k - 1] = e
        BY <1>2, <2>0, <2>3, <3>1
      <3>3. Compare(x, h[s[n + 1]].item) < 0
        BY <3>1 DEF Belongs
      <3>4. Compare(x, h[s[n + 1]].item) <= 0
        BY <1>4, <3>1, <3>3, CompareIs
      <3> QED BY <1>4, <3>1, <3>2, <3>4
    <2>4. CASE k > n + 2
      <3>1. /\ ~(k <= n) /\ k # n + 1 /\ ~(k - 1 <= n) /\ k - 1 # n + 1 /\ k - 1 \in 2..Len(s)
            /\ k - 1 \in 1..Len(s) /\ (k - 1) - 1 \in 1..Len(s)
        BY <1>1, <2>0, <2>4
      <3>2. t[k] = s[k - 1] /\ t[k - 1] = s[(k - 1) - 1]
        BY <1>2, <2>0, <3>1
      <3>3. Compare(h[s[(k - 1) - 1]].item, h[s[k - 1]].item) <= 0
        BY <1>3, <3>1
      <3> QED BY <1>4, <3>1, <3>2, <3>3
    <2> QED BY <1>1, <2>0, <2>1, <2>2, <2>3, <2>4
  <1>6. Ascending(h2, t)
    BY <1>5 DEF Ascending
  <1> QED BY <1>6 DEF t

LEMMA RemoveSorts ==
    ASSUME NEW h, NEW h2, NEW s \in Seq(DOMAIN h), NEW n \in 1..Len(s),
           \A c \in DOMAIN h : h[c].item \in Objects,
           \A k \in 1..Len(s) : k # n => h2[s[k]].item = h[s[k]].item,
           Ascending(h, s)
    PROVE  Ascending(h2, RemoveAt(s, n))
  <1> DEFINE t == RemoveAt(s, n)
  <1>1. Len(s) \in Nat /\ n \in Nat /\ n <= Len(s) /\ \A k \in 1..Len(s) : s[k] \in DOMAIN h
    BY LenProperties, ElementOfSeq
  <1>2. /\ Len(t) = Len(s) - 1
        /\ \A k \in 1..Len(s) - 1 : t[k] = IF k < n THEN s[k] ELSE s[k + 1]
    <2>1. IsRemoved(DOMAIN h, s, n, t)
      BY RemoveAtIs
    <2> QED BY <2>1 DEF IsRemoved
  <1> HIDE DEF t
  <1>3. \A k \in 2..Len(s) : Compare(h[s[k - 1]].item, h[s[k]].item) <= 0
    BY DEF Ascending
  <1>4. \A k \in 1..Len(s) : h[s[k]].item \in Objects
    BY <1>1
  <1>5. ASSUME NEW k \in 2..Len(t) PROVE Compare(h2[t[k - 1]].item, h2[t[k]].item) <= 0
    <2>0. k \in Nat /\ k >= 2 /\ k <= Len(s) - 1 /\ k \in 1..Len(s) - 1 /\ k - 1 \in 1..Len(s) - 1
          /\ k \in 2..Len(s) /\ k + 1 \in 2..Len(s) /\ k - 1 \in 1..Len(s) /\ k \in 1..Len(s)
          /\ k + 1 \in 1..Len(s) /\ (k - 1) + 1 = k /\ (k + 1) - 1 = k
      BY <1>1, <1>2
    <2>1. CASE k < n
      <3>1. k - 1 < n /\ k # n /\ k - 1 # n
        BY <1>1, <2>0, <2>1
      <3>2. t[k] = s[k] /\ t[k - 1] = s[k - 1]
        BY <1>2, <2>0, <2>1, <3>1
      <3>3. h2[s[k]].item = h[s[k]].item /\ h2[s[k - 1]].item = h[s[k - 1]].item
        BY <2>0, <3>1
      <3> QED BY <1>3, <2>0, <3>2, <3>3
    <2>2. CASE k = n
      <3>1. k - 1 < n /\ ~(k < n) /\ k + 1 # n /\ k - 1 # n
        BY <1>1, <2>0, <2>2
      <3>2. t[k] = s[k + 1] /\ t[k - 1] = s[k - 1]
        BY <1>2, <2>0, <3>1
      <3>3. h2[s[k + 1]].item = h[s[k + 1]].item /\ h2[s[k - 1]].item = h[s[k - 1]].item
        BY <2>0, <3>1
      <3>4. /\ Compare(h[s[k - 1]].item, h[s[k]].item) <= 0
            /\ Compare(h[s[k]].item, h[s[k + 1]].item) <= 0
        <4>1. Compare(h[s[(k + 1) - 1]].item, h[s[k + 1]].item) <= 0
          BY <1>3, <2>0
        <4> QED BY <1>3, <2>0, <4>1
      <3>5. Compare(h[s[k - 1]].item, h[s[k + 1]].item) <= 0
        BY <1>4, <2>0, <3>4, CompareIs
      <3> QED BY <3>2, <3>3, <3>5
    <2>3. CASE k > n
      <3>1. ~(k - 1 < n) /\ ~(k < n) /\ k + 1 # n /\ k # n
        BY <1>1, <2>0, <2>3
      <3>2. t[k] = s[k + 1] /\ t[k - 1] = s[k]
        <4>1. t[k - 1] = s[(k - 1) + 1]
          BY <1>2, <2>0, <3>1
        <4> QED BY <1>2, <2>0, <3>1, <4>1
      <3>3. h2[s[k + 1]].item = h[s[k + 1]].item /\ h2[s[k]].item = h[s[k]].item
        BY <2>0, <3>1
      <3>4. Compare(h[s[(k + 1) - 1]].item, h[s[k + 1]].item) <= 0
        BY <1>3, <2>0
      <3> QED BY <2>0, <3>2, <3>3, <3>4
    <2> QED BY <1>1, <2>0, <2>1, <2>2, <2>3
  <1>6. Ascending(h2, t)
    BY <1>5 DEF Ascending
  <1> QED BY <1>6 DEF t

\* An item added to the list.
LEMMA ListAdded ==
    ASSUME NEW sorted, NEW h, NEW bs, NEW ch, ListIs(sorted, h, bs, ch),
           NEW x \in Objects, Absent(h, x), NEW n \in 0..Len(ch[1]),
           sorted => Belongs(h, ch[1], x, n), NEW r, Adds(h, ch[1], x, n, r)
    PROVE  /\ \E ch2 : ListIs(sorted, r.store, <<r.list>>, ch2)
           /\ Cardinality(DOMAIN r.store) = Cardinality(DOMAIN h) + 1
  <1> DEFINE bs2 == <<r.list>>
             h2 == r.store
  <1>1. r.list \in ListRecord
    BY DEF Adds, OnChain
  <1>2. bs2 \in Seq(ListRecord) /\ Len(bs2) = 1 /\ bs2 \in [1..1 -> ListRecord] /\ bs2[1] = r.list
    BY <1>1, SingleList
  <1>3. Linked(h, 1..1, bs, ch) /\ 1 \in 1..1 /\ \A i \in (1..1) \ {1} : FALSE
    BY DEF ListIs
  <1> HIDE DEF bs2
  <1>4. PICK ch2, e : AddedTo(h, 1..1, bs, ch, 1, n, x, h2, bs2, ch2, e)
    BY <1>2, <1>3, AddedIs
  <1> HIDE DEF h2
  <1>5. IsStore(h) /\ IsStore(h2) /\ \A c \in DOMAIN h : h[c].item \in Objects
    BY <1>3, <1>4 DEF AddedTo, Linked, IsStore, CellRecord
  <1>6. ItemsDiffer(h2)
    <2>1. DOMAIN h2 = DOMAIN h \cup {e} /\ h2[e].item = x
          /\ \A c \in DOMAIN h : h2[c].item = h[c].item /\ h[c].item # x
      BY <1>4 DEF AddedTo, Absent
    <2>2. \A c, d \in DOMAIN h : h[c].item = h[d].item => c = d
      BY DEF ListIs, ItemsDiffer
    <2> QED BY <2>1, <2>2 DEF ItemsDiffer
  <1>7. sorted => Ascending(h2, ch2[1])
    <2> SUFFICES ASSUME sorted PROVE Ascending(h2, ch2[1])
      OBVIOUS
    <2> DEFINE s == ch[1]
    <2>1. s \in Seq(DOMAIN h) /\ Ascending(h, s) /\ Belongs(h, s, x, n) /\ n \in 0..Len(s)
      BY OneList DEF OnChain, ListIs
    <2>2. h2[e].item = x /\ \A c \in DOMAIN h : h2[c].item = h[c].item
      BY <1>4 DEF AddedTo
    <2>3. ch2[1] = InsertAt(s, n + 1, e)
      BY <1>4 DEF AddedTo
    <2> HIDE DEF s
    <2>4. Ascending(h2, InsertAt(s, n + 1, e))
      BY <1>5, <2>1, <2>2, InsertSorts
    <2> QED BY <2>3, <2>4
  <1>8. ListIs(sorted, h2, bs2, ch2)
    BY <1>2, <1>4, <1>6, <1>7 DEF ListIs, AddedTo
  <1>9. Cardinality(DOMAIN h2) = Cardinality(DOMAIN h) + 1
    BY <1>4, <1>5, OneMore DEF AddedTo
  <1> QED BY <1>8, <1>9 DEF bs2, h2

\* A cell removed from the list.
LEMMA ListRemoved ==
    ASSUME NEW sorted, NEW h, NEW bs, NEW ch, ListIs(sorted, h, bs, ch),
           NEW n \in 1..Len(ch[1]), NEW r, Removes(h, ch[1], n, r)
    PROVE  /\ \E ch2 : ListIs(sorted, r.store, <<r.list>>, ch2)
           /\ Cardinality(DOMAIN r.store) = Cardinality(DOMAIN h) - 1
  <1> DEFINE bs2 == <<r.list>>
             h2 == r.store
  <1>1. r.list \in ListRecord
    BY DEF Removes, OnChain
  <1>2. bs2 \in Seq(ListRecord) /\ Len(bs2) = 1 /\ bs2 \in [1..1 -> ListRecord] /\ bs2[1] = r.list
    BY <1>1, SingleList
  <1>3. Linked(h, 1..1, bs, ch) /\ 1 \in 1..1 /\ \A i \in (1..1) \ {1} : FALSE
    BY DEF ListIs
  <1> HIDE DEF bs2
  <1>4. PICK ch2 : RemovedFrom(h, 1..1, bs, ch, 1, n, h2, bs2, ch2)
    BY <1>2, <1>3, RemovedIs
  <1> HIDE DEF h2
  <1>5. IsStore(h) /\ \A c \in DOMAIN h : h[c].item \in Objects
    BY <1>3 DEF Linked, IsStore, CellRecord
  <1>6. /\ ch[1][n] \in DOMAIN h /\ DOMAIN h2 = DOMAIN h \ {ch[1][n]}
        /\ \A c \in DOMAIN h2 : h2[c].item = h[c].item
    BY <1>4 DEF RemovedFrom
  <1>7. ItemsDiffer(h2)
    <2>1. \A c, d \in DOMAIN h : h[c].item = h[d].item => c = d
      BY DEF ListIs, ItemsDiffer
    <2> QED BY <1>6, <2>1 DEF ItemsDiffer
  <1>8. sorted => Ascending(h2, ch2[1])
    <2> SUFFICES ASSUME sorted PROVE Ascending(h2, ch2[1])
      OBVIOUS
    <2> DEFINE s == ch[1]
    <2>1. s \in Seq(DOMAIN h) /\ Ascending(h, s) /\ n \in 1..Len(s)
          /\ \A j, k \in 1..Len(s) : s[j] = s[k] => j = k
      BY OneList DEF OnChain, ListIs
    <2>2. \A k \in 1..Len(s) : k # n => h2[s[k]].item = h[s[k]].item
      <3>1. \A k \in 1..Len(s) : s[k] \in DOMAIN h
        BY OneList
      <3>2. \A k \in 1..Len(s) : k # n => s[k] # s[n]
        BY <2>1
      <3> QED BY <1>6, <3>1, <3>2
    <2>3. ch2[1] = RemoveAt(s, n)
      BY <1>4 DEF RemovedFrom
    <2> HIDE DEF s
    <2>4. Ascending(h2, RemoveAt(s, n))
      BY <1>5, <2>1, <2>2, RemoveSorts
    <2> QED BY <2>3, <2>4
  <1>9. ListIs(sorted, h2, bs2, ch2)
    BY <1>2, <1>4, <1>7, <1>8 DEF ListIs, RemovedFrom
  <1>10. Cardinality(DOMAIN h2) = Cardinality(DOMAIN h) - 1
    BY <1>5, <1>6, OneLess
  <1> QED BY <1>9, <1>10 DEF bs2, h2

-----------------------------------------------------------------------------
(* The hash table *)

KeysDiffer(h) == \A c, d \in DOMAIN h : KeyOf(h[c].item) = KeyOf(h[d].item) => c = d
KeyAbsent(h, key) == \A c \in DOMAIN h : KeyOf(h[c].item) # key
Hashed(h, m, ch) == \A b \in 1..m : \A c \in On(ch[b]) : HashValue(KeyOf(h[c].item), m) = b

\* What is kept of a HashTable.
TableIs(h, bs, num, ch) ==
  /\ bs \in Seq(ListRecord) /\ Len(bs) # 0 /\ Linked(h, 1..Len(bs), bs, ch)
  /\ KeysDiffer(h) /\ Hashed(h, Len(bs), ch)
  /\ num = Cardinality(DOMAIN h)

LEMMA HashIn ==
    ASSUME NEW x \in Objects, NEW m \in Nat, m # 0
    PROVE  HashValue(KeyOf(x), m) \in 1..m
  <1> DEFINE k == Hash(KeyOf(x))
  <1>1. k \in Nat
    BY LibraryAssumption
  <1> HIDE DEF k
  <1>2. k % m \in 0..m - 1
    BY <1>1
  <1>3. (k % m) + 1 \in 1..m
    BY <1>2
  <1> QED BY <1>3 DEF HashValue, k

LEMMA FindIs ==
    ASSUME NEW h, IsStore(h), NEW l, NEW s, OnChain(h, l, s), NEW key
    PROVE  \/ /\ FindInBucket(h, l, key) = NULL
              /\ \A c \in On(s) : KeyOf(h[c].item) # key
           \/ /\ FindInBucket(h, l, key) # NULL
              /\ \E n \in 1..Len(s) : /\ FindInBucket(h, l, key) = h[s[n]].item
                                      /\ KeyOf(h[s[n]].item) = key
  <1> DEFINE items == [n \in 1..Len(s) |-> h[s[n]].item]
             found == {n \in 1..Len(s) : KeyOf(h[s[n]].item) = key}
             first == CHOOSE n \in found : \A m \in found : n <= m
  <1>1. CellsOf(h, l) = s /\ DOMAIN s = 1..Len(s) /\ Len(s) \in Nat
    BY CellsAre, LenProperties DEF OnChain
  <1>2. ItemsOf(h, l) = items
    BY <1>1 DEF ItemsOf
  <1>3. FindInBucket(h, l, key) = IF found = {} THEN NULL ELSE items[first]
    <2>1. DOMAIN items = 1..Len(s) /\ \A n \in 1..Len(s) : items[n] = h[s[n]].item
      OBVIOUS
    <2> HIDE DEF items
    <2>2. found = {n \in DOMAIN items : KeyOf(items[n]) = key}
      BY <2>1
    <2> HIDE DEF found
    <2> QED BY <1>2, <2>2 DEF FindInBucket
  <1>4. CASE found = {}
    <2>1. \A c \in On(s) : KeyOf(h[c].item) # key
      BY <1>4 DEF On
    <2> QED BY <1>3, <1>4, <2>1
  <1>5. CASE found # {}
    <2>1. first \in found
      <3>1. found \subseteq Nat
        BY <1>1
      <3> HIDE DEF found
      <3> QED BY <1>5, <3>1, LeastNumber
    <2> HIDE DEF first
    <2>2. items[first] = h[s[first]].item /\ first \in 1..Len(s) /\ KeyOf(h[s[first]].item) = key
      BY <2>1
    <2>3. h[s[first]].item # NULL
      <3>1. s[first] \in DOMAIN h
        BY <2>2, ChainFacts
      <3>2. h[s[first]].item \in Objects
        BY <3>1 DEF IsStore, CellRecord
      <3> QED BY <3>2, LibraryAssumption
    <2> HIDE DEF found, items
    <2> QED BY <1>3, <1>5, <2>2, <2>3
  <1> QED BY <1>4, <1>5

\* A sequence with one list replaced.
LEMMA BucketReplaced ==
    ASSUME NEW bs \in Seq(ListRecord), NEW b \in 1..Len(bs), NEW l \in ListRecord
    PROVE  /\ [bs EXCEPT ![b] = l] \in Seq(ListRecord)
           /\ Len([bs EXCEPT ![b] = l]) = Len(bs)
           /\ OneReplaced(1..Len(bs), ListRecord, bs, b, l, [bs EXCEPT ![b] = l])
  <1> DEFINE m == Len(bs)
             t == [bs EXCEPT ![b] = l]
  <1>1. bs \in [1..m -> ListRecord] /\ m \in Nat
    BY LenProperties
  <1>2. t \in [1..m -> ListRecord] /\ t[b] = l /\ \A i \in (1..m) \ {b} : t[i] = bs[i]
    BY <1>1
  <1> HIDE DEF t
  <1>3. t \in Seq(ListRecord) /\ Len(t) = m
    <2> HIDE DEF m
    <2>1. t \in Seq(ListRecord)
      BY <1>1, <1>2, SeqDef
    <2>2. DOMAIN t = 1..m
      BY <1>2
    <2> QED BY <1>1, <2>1, <2>2, LenProperties
  <1> QED BY <1>2, <1>3 DEF OneReplaced, t

\* The items of a store.
Contents(h) == {h[c].item : c \in DOMAIN h}

LEMMA TableAdded ==
    ASSUME NEW h, Roomy(h), NEW bs, NEW num, NEW ch, TableIs(h, bs, num, ch),
           NEW x \in Objects, KeyAbsent(h, KeyOf(x)),
           NEW t, t = Put([store |-> h, buckets |-> bs], x)
    PROVE  /\ \E ch2 : TableIs(t.store, t.buckets, num + 1, ch2)
           /\ Cardinality(DOMAIN t.store) = Cardinality(DOMAIN h) + 1
           /\ Contents(t.store) = Contents(h) \cup {x}
  <1> DEFINE m == Len(bs)
             b == HashValue(KeyOf(x), m)
             r == AddLast(h, bs[b], x)
             bs2 == [bs EXCEPT ![b] = r.list]
             h2 == r.store
  <1>1. t.store = h2 /\ t.buckets = bs2
    BY DEF Put
  <1>2. /\ bs \in Seq(ListRecord) /\ m # 0 /\ m \in Nat /\ Linked(h, 1..m, bs, ch) /\ KeysDiffer(h)
        /\ Hashed(h, m, ch) /\ num = Cardinality(DOMAIN h) /\ IsStore(h)
    BY LenProperties DEF TableIs, Roomy
  <1>3. b \in 1..m
    BY <1>2, HashIn
  <1> HIDE DEF b
  <1>4. OnChain(h, bs[b], ch[b])
    BY <1>2, <1>3 DEF Linked
  <1>5. Adds(h, ch[b], x, Len(ch[b]), r)
    BY <1>4, AddLastIs
  <1> HIDE DEF r
  <1>6. r.list \in ListRecord
    BY <1>5 DEF Adds, OnChain
  <1>7. /\ bs2 \in Seq(ListRecord) /\ Len(bs2) = m
        /\ OneReplaced(1..m, ListRecord, bs, b, r.list, bs2)
    BY <1>2, <1>3, <1>6, BucketReplaced
  <1> HIDE DEF bs2
  <1>8. bs2 \in [1..m -> ListRecord] /\ bs2[b] = r.list /\ \A i \in (1..m) \ {b} : bs2[i] = bs[i]
    BY <1>7 DEF OneReplaced
  <1> HIDE DEF m
  <1>9. PICK ch2, e : AddedTo(h, 1..m, bs, ch, b, Len(ch[b]), x, h2, bs2, ch2, e)
    BY <1>2, <1>3, <1>5, <1>8, AddedIs
  <1> HIDE DEF h2
  <1>10. /\ e \notin DOMAIN h /\ DOMAIN h2 = DOMAIN h \cup {e} /\ h2[e].item = x
         /\ \A c \in DOMAIN h : h2[c].item = h[c].item
         /\ On(ch2[b]) = On(ch[b]) \cup {e} /\ \A i \in (1..m) \ {b} : ch2[i] = ch[i]
    BY <1>9 DEF AddedTo
  <1>11. KeysDiffer(h2)
    <2>1. \A c \in DOMAIN h : KeyOf(h[c].item) # KeyOf(x)
      BY DEF KeyAbsent
    <2>2. \A c, d \in DOMAIN h : KeyOf(h[c].item) = KeyOf(h[d].item) => c = d
      BY <1>2 DEF KeysDiffer
    <2> QED BY <1>10, <2>1, <2>2 DEF KeysDiffer
  <1>12. Hashed(h2, m, ch2)
    <2> SUFFICES ASSUME NEW i \in 1..m, NEW c \in On(ch2[i])
                 PROVE  HashValue(KeyOf(h2[c].item), m) = i
      BY DEF Hashed
    <2>1. CASE c = e /\ i = b
      BY <1>10, <2>1 DEF b, m
    <2>2. CASE ~(c = e /\ i = b)
      <3>1. c \in On(ch[i])
        BY <1>10, <2>2
      <3>2. c \in DOMAIN h
        <4>1. OnChain(h, bs[i], ch[i])
          BY <1>2 DEF Linked
        <4> QED BY <3>1, <4>1, ChainFacts
      <3>3. h2[c].item = h[c].item
        BY <1>10, <3>2
      <3> QED BY <1>2, <3>1, <3>3 DEF Hashed
    <2> QED BY <2>1, <2>2
  <1>13. Cardinality(DOMAIN h2) = Cardinality(DOMAIN h) + 1
    BY <1>2, <1>10, OneMore
  <1>14. Linked(h2, 1..m, bs2, ch2)
    BY <1>9 DEF AddedTo
  <1>15. TableIs(h2, bs2, num + 1, ch2)
    BY <1>2, <1>7, <1>11, <1>12, <1>13, <1>14 DEF TableIs
  <1>16. Contents(h2) = Contents(h) \cup {x}
    BY <1>10 DEF Contents
  <1> QED BY <1>1, <1>13, <1>15, <1>16

\* The items but for that of cell c.
WithoutItem(h, c, h2) == Contents(h2) = Contents(h) \ {h[c].item}

LEMMA TableRemoved ==
    ASSUME NEW h, NEW bs, NEW num, NEW ch, TableIs(h, bs, num, ch),
           NEW b \in 1..Len(bs), NEW n \in 1..Len(ch[b]), NEW r, Removes(h, ch[b], n, r)
    PROVE  /\ \E ch2 : TableIs(r.store, [bs EXCEPT ![b] = r.list], num - 1, ch2)
           /\ Cardinality(DOMAIN r.store) = Cardinality(DOMAIN h) - 1
           /\ WithoutItem(h, ch[b][n], r.store)
  <1> DEFINE m == Len(bs)
             bs2 == [bs EXCEPT ![b] = r.list]
             h2 == r.store
  <1>2. /\ bs \in Seq(ListRecord) /\ m # 0 /\ m \in Nat /\ Linked(h, 1..m, bs, ch) /\ KeysDiffer(h)
        /\ Hashed(h, m, ch) /\ num = Cardinality(DOMAIN h) /\ IsStore(h)
    BY LenProperties DEF TableIs, Linked
  <1>6. r.list \in ListRecord
    BY DEF Removes, OnChain
  <1>7. /\ bs2 \in Seq(ListRecord) /\ Len(bs2) = m
        /\ OneReplaced(1..m, ListRecord, bs, b, r.list, bs2)
    BY <1>2, <1>6, BucketReplaced
  <1> HIDE DEF bs2
  <1>8. /\ bs2 \in [1..m -> ListRecord] /\ bs2[b] = r.list /\ b \in 1..m
        /\ \A i \in (1..m) \ {b} : bs2[i] = bs[i]
    BY <1>7 DEF OneReplaced
  <1> HIDE DEF m
  <1>9. PICK ch2 : RemovedFrom(h, 1..m, bs, ch, b, n, h2, bs2, ch2)
    BY <1>2, <1>8, RemovedIs
  <1> HIDE DEF h2
  <1>10. /\ ch[b][n] \in DOMAIN h /\ DOMAIN h2 = DOMAIN h \ {ch[b][n]}
         /\ \A c \in DOMAIN h2 : h2[c].item = h[c].item
         /\ On(ch2[b]) = On(ch[b]) \ {ch[b][n]} /\ \A i \in (1..m) \ {b} : ch2[i] = ch[i]
    BY <1>9 DEF RemovedFrom
  <1>11. KeysDiffer(h2)
    <2>1. \A c, d \in DOMAIN h : KeyOf(h[c].item) = KeyOf(h[d].item) => c = d
      BY <1>2 DEF KeysDiffer
    <2> QED BY <1>10, <2>1 DEF KeysDiffer
  <1>14. Linked(h2, 1..m, bs2, ch2)
    BY <1>9 DEF RemovedFrom
  <1>12. Hashed(h2, m, ch2)
    <2> SUFFICES ASSUME NEW i \in 1..m, NEW c \in On(ch2[i])
                 PROVE  HashValue(KeyOf(h2[c].item), m) = i
      BY DEF Hashed
    <2>1. c \in On(ch[i])
      BY <1>10
    <2>2. c \in DOMAIN h2
      <3>1. OnChain(h2, bs2[i], ch2[i])
        BY <1>14 DEF Linked
      <3> QED BY <3>1, ChainFacts
    <2> QED BY <1>2, <1>10, <2>1, <2>2 DEF Hashed
  <1>13. Cardinality(DOMAIN h2) = Cardinality(DOMAIN h) - 1
    BY <1>2, <1>10, OneLess
  <1>15. TableIs(h2, bs2, num - 1, ch2)
    BY <1>2, <1>7, <1>11, <1>12, <1>13, <1>14 DEF TableIs
  <1>16. WithoutItem(h, ch[b][n], h2)
    <2>1. \A c \in DOMAIN h : h[c].item = h[ch[b][n]].item => c = ch[b][n]
      BY <1>2, <1>10 DEF KeysDiffer
    <2> QED BY <1>10, <2>1 DEF Contents, WithoutItem
  <1> QED BY <1>13, <1>15, <1>16 DEF h2, bs2

-----------------------------------------------------------------------------
(* ReHash *)

Stores == UNION {[D -> CellRecord] : D \in SUBSET Cells}
Tables == [old : Seq(ListRecord), store : Stores, buckets : Seq(ListRecord)]

\* The old buckets, numbered downwards from -1, and the new ones from 1.
Index(n, m) == (-n..-1) \cup (1..m)
Both(n, m, old, new) == [i \in Index(n, m) |-> IF i > 0 THEN new[i] ELSE old[-i]]

\* The cells that are not in a new bucket.
OldCells(h, m, ch) == {c \in DOMAIN h : \A i \in 1..m : c \notin On(ch[i])}

\* Table t between two moves: num items, left of them in n old buckets.
Rehashing(t, n, m, num, left) ==
  /\ t \in Tables /\ Len(t.old) = n /\ Len(t.buckets) = m
  /\ KeysDiffer(t.store) /\ Cardinality(DOMAIN t.store) = num
  /\ \E ch : /\ Linked(t.store, Index(n, m), Both(n, m, t.old, t.buckets), ch)
             /\ Hashed(t.store, m, ch)
             /\ Cardinality(OldCells(t.store, m, ch)) = left

LEMMA StoreIs ==
    ASSUME NEW h
    PROVE  h \in Stores <=> IsStore(h)
  <1>1. ASSUME h \in Stores PROVE IsStore(h)
    <2>1. PICK D \in SUBSET Cells : h \in [D -> CellRecord]
      BY <1>1 DEF Stores
    <2> QED BY <2>1 DEF IsStore
  <1>2. ASSUME IsStore(h) PROVE h \in Stores
    BY <1>2 DEF IsStore, Stores
  <1> QED BY <1>1, <1>2

BothIs(n, m, old, new, bs) ==
  /\ bs \in [Index(n, m) -> ListRecord]
  /\ \A i \in 1..m : i \in Index(n, m) /\ bs[i] = new[i]
  /\ \A j \in 1..n : -j \in Index(n, m) /\ bs[-j] = old[j]

LEMMA BothLists ==
    ASSUME NEW n \in Nat, NEW m \in Nat,
           NEW old \in Seq(ListRecord), NEW new \in Seq(ListRecord), Len(old) = n, Len(new) = m
    PROVE  BothIs(n, m, old, new, Both(n, m, old, new))
  <1> DEFINE J == Index(n, m)
             bs == Both(n, m, old, new)
  <1>1. \A i \in 1..m : i \in J /\ i > 0 /\ new[i] \in ListRecord
    BY ElementOfSeq DEF Index
  <1>2. \A j \in 1..n : -j \in J /\ ~(-j > 0) /\ old[j] \in ListRecord /\ -(-j) = j
    BY ElementOfSeq DEF Index
  <1>3. \A i \in J : (i > 0 /\ i \in 1..m) \/ (~(i > 0) /\ -i \in 1..n)
    BY DEF Index
  <1>4. bs = [i \in J |-> IF i > 0 THEN new[i] ELSE old[-i]]
    BY DEF Both
  <1> HIDE DEF bs, J
  <1>5. bs \in [J -> ListRecord]
    BY <1>1, <1>2, <1>3, <1>4
  <1>6. \A i \in 1..m : bs[i] = new[i]
    BY <1>1, <1>4
  <1>7. \A j \in 1..n : bs[-j] = old[j]
    BY <1>2, <1>4
  <1> QED BY <1>1, <1>2, <1>5, <1>6, <1>7 DEF BothIs, bs, J

\* Put, into a new bucket.
LEMMA PutIs ==
    ASSUME NEW n \in Nat, NEW m \in Nat, m # 0, NEW num, NEW left,
           NEW t, Rehashing(t, n, m, num, left),
           num < Cardinality(Cells), NEW x \in Objects, KeyAbsent(t.store, KeyOf(x))
    PROVE  /\ Rehashing(Put(t, x), n, m, num + 1, left)
           /\ Contents(Put(t, x).store) = Contents(t.store) \cup {x}
  <1> DEFINE h == t.store
             J == Index(n, m)
             bs == Both(n, m, t.old, t.buckets)
             b == HashValue(KeyOf(x), m)
             r == AddLast(h, t.buckets[b], x)
             new == [t.buckets EXCEPT ![b] = r.list]
             h2 == r.store
             bs2 == Both(n, m, t.old, new)
             t2 == Put(t, x)
  <1>1. /\ t.old \in Seq(ListRecord) /\ Len(t.old) = n /\ t.buckets \in Seq(ListRecord)
        /\ Len(t.buckets) = m /\ KeysDiffer(h) /\ Cardinality(DOMAIN h) = num /\ t \in Tables
    BY DEF Rehashing, Tables
  <1>2. PICK ch : /\ Linked(h, J, bs, ch) /\ Hashed(h, m, ch)
                  /\ Cardinality(OldCells(h, m, ch)) = left
    BY DEF Rehashing
  <1>3. b \in 1..m
    BY HashIn
  <1>4. BothIs(n, m, t.old, t.buckets, bs)
    BY <1>1, BothLists
  <1> HIDE DEF bs
  <1>5. /\ t2.store = h2 /\ t2.buckets = new /\ t2.old = t.old
        /\ h2 \in Stores /\ new \in Seq(ListRecord) => t2 \in Tables
    <2>1. t2 = [t EXCEPT !.store = h2, !.buckets = [t.buckets EXCEPT ![b] = r.list]]
      BY <1>1 DEF Put, Tables
    <2> HIDE DEF h2, new, r, b
    <2> QED BY <1>1, <2>1 DEF Tables, new
  <1> HIDE DEF b, t2
  <1>6. OnChain(h, t.buckets[b], ch[b]) /\ b \in J /\ IsStore(h)
    BY <1>2, <1>3, <1>4 DEF Linked, BothIs
  <1>7. Roomy(h)
    BY <1>1, <1>6 DEF Roomy
  <1> HIDE DEF h
  <1>8. Adds(h, ch[b], x, Len(ch[b]), r)
    BY <1>6, <1>7, AddLastIs
  <1> HIDE DEF r
  <1>9. r.list \in ListRecord
    BY <1>8 DEF Adds, OnChain
  <1>10. /\ new \in Seq(ListRecord) /\ Len(new) = m
         /\ OneReplaced(1..m, ListRecord, t.buckets, b, r.list, new)
    BY <1>1, <1>3, <1>9, BucketReplaced
  <1> HIDE DEF new
  <1>11. BothIs(n, m, t.old, new, bs2)
    BY <1>1, <1>10, BothLists
  <1> HIDE DEF bs2
  <1>12. /\ bs2 \in [J -> ListRecord] /\ bs2[b] = r.list
         /\ \A i \in J \ {b} : bs2[i] = bs[i]
    <2>1. \A i \in J : i \in 1..m \/ \E j \in 1..n : i = -j
      <3>1. \A i \in J : i \in 1..m \/ (-i \in 1..n /\ i = -(-i))
        BY DEF Index
      <3> QED BY <3>1
    <2>2. \A i \in 1..m : i # b => bs2[i] = bs[i]
      BY <1>4, <1>10, <1>11 DEF BothIs, OneReplaced
    <2>3. \A j \in 1..n : bs2[-j] = bs[-j]
      BY <1>4, <1>11 DEF BothIs
    <2>4. bs2[b] = r.list /\ bs2 \in [J -> ListRecord]
      BY <1>3, <1>10, <1>11 DEF BothIs, OneReplaced
    <2> HIDE DEF J
    <2> QED BY <2>1, <2>2, <2>3, <2>4
  <1> HIDE DEF J
  <1>13. PICK ch2, e : AddedTo(h, J, bs, ch, b, Len(ch[b]), x, h2, bs2, ch2, e)
    BY <1>2, <1>6, <1>8, <1>12, AddedIs
  <1> HIDE DEF h2
  <1>14. /\ e \notin DOMAIN h /\ DOMAIN h2 = DOMAIN h \cup {e} /\ h2[e].item = x
         /\ \A c \in DOMAIN h : h2[c].item = h[c].item
         /\ On(ch2[b]) = On(ch[b]) \cup {e} /\ \A i \in J \ {b} : ch2[i] = ch[i]
         /\ Linked(h2, J, bs2, ch2)
    BY <1>13 DEF AddedTo
  <1>15. KeysDiffer(h2)
    <2>1. \A c \in DOMAIN h : KeyOf(h[c].item) # KeyOf(x)
      BY DEF KeyAbsent, h
    <2>2. \A c, d \in DOMAIN h : KeyOf(h[c].item) = KeyOf(h[d].item) => c = d
      BY <1>1 DEF KeysDiffer, h
    <2> QED BY <1>14, <2>1, <2>2 DEF KeysDiffer
  <1>16. \A i \in 1..m : i \in J
    BY <1>4 DEF BothIs, J
  <1>17. Hashed(h2, m, ch2)
    <2> SUFFICES ASSUME NEW i \in 1..m, NEW c \in On(ch2[i])
                 PROVE  HashValue(KeyOf(h2[c].item), m) = i
      BY DEF Hashed
    <2>1. CASE c = e /\ i = b
      BY <1>14, <2>1 DEF b
    <2>2. CASE ~(c = e /\ i = b)
      <3>1. c \in On(ch[i])
        BY <1>14, <1>16, <2>2
      <3>2. c \in DOMAIN h
        <4>1. OnChain(h, bs[i], ch[i])
          BY <1>2, <1>16 DEF Linked
        <4> QED BY <3>1, <4>1, ChainFacts
      <3>3. h2[c].item = h[c].item
        BY <1>14, <3>2
      <3> QED BY <1>2, <3>1, <3>3 DEF Hashed, h
    <2> QED BY <2>1, <2>2
  <1>18. OldCells(h2, m, ch2) = OldCells(h, m, ch)
    <2>1. e \in On(ch2[b]) /\ \A c \in DOMAIN h : c # e
      BY <1>14
    <2>2. \A c \in DOMAIN h : \A i \in 1..m : c \in On(ch2[i]) <=> c \in On(ch[i])
      BY <1>14, <1>16, <2>1
    <2> QED BY <1>3, <1>14, <2>1, <2>2 DEF OldCells
  <1>19. Cardinality(DOMAIN h2) = num + 1
    <2>1. Cardinality(DOMAIN h) = num
      BY <1>1 DEF h
    <2> QED BY <1>6, <1>14, <2>1, OneMore
  <1>20. h2 \in Stores
    BY <1>14, StoreIs DEF Linked
  <1>21. t2.store = h2 /\ t2.buckets = new /\ t2.old = t.old /\ t2 \in Tables
    BY <1>5, <1>10, <1>20
  <1>22. Rehashing(t2, n, m, num + 1, left)
    <2>1. Linked(t2.store, Index(n, m), Both(n, m, t2.old, t2.buckets), ch2)
      BY <1>14, <1>21 DEF bs2, J
    <2>2. Hashed(t2.store, m, ch2) /\ Cardinality(OldCells(t2.store, m, ch2)) = left
      BY <1>2, <1>17, <1>18, <1>21 DEF h
    <2> QED BY <1>1, <1>10, <1>15, <1>19, <1>21, <2>1, <2>2 DEF Rehashing
  <1>23. Contents(t2.store) = Contents(h) \cup {x}
    <2>1. t2.store = h2
      BY <1>21
    <2> QED BY <1>14, <2>1 DEF Contents
  <1> QED BY <1>22, <1>23 DEF t2, h

\* RemoveFront, from an old bucket.
Taken(t, b) ==
  LET r == RemoveFront(t.store, t.old[b]) IN [t EXCEPT !.store = r.store, !.old[b] = r.list]
FrontItem(t, b) == t.store[t.old[b].first].item
HasItems(t, b) == ~IsEmpty(t.old[b])
IsTaken(t, b, x, n, m, num, left) ==
  /\ Rehashing(Taken(t, b), n, m, num - 1, left - 1)
  /\ x \in Objects /\ KeyAbsent(Taken(t, b).store, KeyOf(x))
  /\ Contents(t.store) = Contents(Taken(t, b).store) \cup {x}

LEMMA TakenIs ==
    ASSUME NEW n \in Nat, NEW m \in Nat, NEW num, NEW left, NEW t, Rehashing(t, n, m, num, left),
           NEW b \in 1..n, HasItems(t, b)
    PROVE  IsTaken(t, b, FrontItem(t, b), n, m, num, left)
  <1> DEFINE h == t.store
             J == Index(n, m)
             bs == Both(n, m, t.old, t.buckets)
             r == RemoveFront(h, t.old[b])
             x == FrontItem(t, b)
             old2 == [t.old EXCEPT ![b] = r.list]
             h2 == r.store
             bs2 == Both(n, m, old2, t.buckets)
             t2 == Taken(t, b)
  <1>1. /\ t.old \in Seq(ListRecord) /\ Len(t.old) = n /\ t.buckets \in Seq(ListRecord)
        /\ Len(t.buckets) = m /\ KeysDiffer(h) /\ Cardinality(DOMAIN h) = num /\ t \in Tables
    BY DEF Rehashing, Tables
  <1>2. PICK ch : /\ Linked(h, J, bs, ch) /\ Hashed(h, m, ch)
                  /\ Cardinality(OldCells(h, m, ch)) = left
    BY DEF Rehashing
  <1>4. BothIs(n, m, t.old, t.buckets, bs)
    BY <1>1, BothLists
  <1> HIDE DEF bs
  <1>5. t2.store = h2 /\ t2.buckets = t.buckets /\ t2.old = old2
        /\ (h2 \in Stores /\ old2 \in Seq(ListRecord) => t2 \in Tables)
    <2>1. t2 = [t EXCEPT !.store = h2, !.old = [t.old EXCEPT ![b] = r.list]]
      BY <1>1 DEF Taken, Tables
    <2> HIDE DEF h2, old2, r
    <2> QED BY <1>1, <2>1 DEF Tables, old2
  <1> HIDE DEF t2
  <1> DEFINE g == -b
  <1>6. /\ OnChain(h, t.old[b], ch[g]) /\ g \in J /\ IsStore(h) /\ Len(ch[g]) # 0
        /\ bs[g] = t.old[b] /\ g \notin 1..m
    <2>1. g \in J /\ bs[g] = t.old[b] /\ g \notin 1..m
      BY <1>4 DEF BothIs
    <2> HIDE DEF g
    <2>2. OnChain(h, t.old[b], ch[g]) /\ IsStore(h)
      BY <1>2, <2>1 DEF Linked
    <2>3. Len(ch[g]) # 0
      BY <2>2 DEF OnChain, IsEmpty, HasItems
    <2> QED BY <2>1, <2>2, <2>3
  <1> HIDE DEF h, g
  <1>7. Removes(h, ch[g], 1, r)
    BY <1>6, RemoveFrontIs
  <1>8. 1 \in 1..Len(ch[g]) /\ t.old[b].first = ch[g][1] /\ ch[g][1] \in On(ch[g])
    <2>1. Len(ch[g]) \in Nat
      BY <1>6, ChainFacts
    <2>2. 1 \in 1..Len(ch[g])
      BY <1>6, <2>1
    <2> QED BY <1>6, <2>2 DEF OnChain, On
  <1> HIDE DEF r
  <1>9. r.list \in ListRecord
    BY <1>7 DEF Removes, OnChain
  <1>10. /\ old2 \in Seq(ListRecord) /\ Len(old2) = n
         /\ OneReplaced(1..n, ListRecord, t.old, b, r.list, old2)
    BY <1>1, <1>9, BucketReplaced
  <1> HIDE DEF old2
  <1>11. BothIs(n, m, old2, t.buckets, bs2)
    BY <1>1, <1>10, BothLists
  <1> HIDE DEF bs2
  <1>12. /\ bs2 \in [J -> ListRecord] /\ bs2[g] = r.list
         /\ \A i \in J \ {g} : bs2[i] = bs[i]
    <2>1. \A i \in J : i \in 1..m \/ \E j \in 1..n : i = -j
      <3>1. \A i \in J : i \in 1..m \/ (-i \in 1..n /\ i = -(-i))
        BY DEF Index
      <3> QED BY <3>1
    <2>2. \A i \in 1..m : bs2[i] = bs[i]
      BY <1>4, <1>11 DEF BothIs
    <2>3. \A j \in 1..n : j # b => bs2[-j] = bs[-j]
      <3>1. \A j \in 1..n : j # b => old2[j] = t.old[j]
        BY <1>10 DEF OneReplaced
      <3>2. \A j \in 1..n : bs2[-j] = old2[j] /\ bs[-j] = t.old[j]
        BY <1>4, <1>11 DEF BothIs
      <3> QED BY <3>1, <3>2
    <2>4. bs2[g] = r.list /\ bs2 \in [J -> ListRecord]
      BY <1>10, <1>11 DEF BothIs, OneReplaced, g
    <2>5. \A i \in J \ {g} : i \in 1..m \/ \E j \in 1..n : i = -j /\ j # b
      BY <2>1 DEF g
    <2> HIDE DEF J
    <2> QED BY <2>2, <2>3, <2>4, <2>5
  <1> HIDE DEF J
  <1>13. PICK ch2 : RemovedFrom(h, J, bs, ch, g, 1, h2, bs2, ch2)
    BY <1>2, <1>6, <1>7, <1>8, <1>12, RemovedIs DEF h
  <1> HIDE DEF h2
  <1> DEFINE d == ch[g][1]
  <1>14. /\ d \in DOMAIN h /\ DOMAIN h2 = DOMAIN h \ {d}
         /\ \A c \in DOMAIN h2 : h2[c].item = h[c].item
         /\ \A i \in J \ {g} : ch2[i] = ch[i]
         /\ Linked(h2, J, bs2, ch2)
    BY <1>13 DEF RemovedFrom
  <1> HIDE DEF x
  <1>15. x = h[d].item /\ x \in Objects /\ KeysDiffer(h2) /\ KeyAbsent(h2, KeyOf(x))
    <2>1. x = h[d].item
      BY <1>8 DEF h, FrontItem, x
    <2>2. \A c, i \in DOMAIN h : KeyOf(h[c].item) = KeyOf(h[i].item) => c = i
      BY <1>1 DEF KeysDiffer, h
    <2>3. h[d].item \in Objects
      BY <1>6, <1>14 DEF IsStore, CellRecord
    <2> HIDE DEF d
    <2> QED BY <1>14, <2>1, <2>2, <2>3 DEF KeysDiffer, KeyAbsent
  <1>16. \A i \in 1..m : i \in J /\ ch2[i] = ch[i] /\ On(ch[i]) \cap On(ch[g]) = {}
    <2>1. \A i \in 1..m : i \in J \ {g}
      BY <1>4, <1>6 DEF BothIs, J
    <2>2. \A i \in J \ {g} : On(ch[i]) \cap On(ch[g]) = {}
      BY <1>2, <1>6 DEF Linked
    <2> QED BY <1>14, <2>1, <2>2
  <1>17. Hashed(h2, m, ch2)
    <2> SUFFICES ASSUME NEW i \in 1..m, NEW c \in On(ch2[i])
                 PROVE  HashValue(KeyOf(h2[c].item), m) = i
      BY DEF Hashed
    <2>1. c \in On(ch[i])
      BY <1>16
    <2>2. c \in DOMAIN h2
      <3>1. OnChain(h2, bs2[i], ch2[i])
        BY <1>14, <1>16 DEF Linked
      <3> QED BY <3>1, ChainFacts
    <2> QED BY <1>2, <1>14, <2>1, <2>2 DEF Hashed, h
  <1>18. OldCells(h2, m, ch2) = OldCells(h, m, ch) \ {d} /\ d \in OldCells(h, m, ch)
    <2>1. \A i \in 1..m : d \notin On(ch[i])
      BY <1>8, <1>16
    <2> HIDE DEF d
    <2> QED BY <1>14, <1>16, <2>1 DEF OldCells
  <1> HIDE DEF d
  <1>19. Cardinality(DOMAIN h2) = num - 1
    <2>1. Cardinality(DOMAIN h) = num
      BY <1>1 DEF h
    <2> QED BY <1>6, <1>14, <2>1, OneLess
  <1>20. Cardinality(OldCells(h2, m, ch2)) = left - 1
    <2>1. IsFiniteSet(OldCells(h, m, ch))
      <3>1. IsFiniteSet(DOMAIN h) /\ OldCells(h, m, ch) \subseteq DOMAIN h
        BY <1>6, StoreFinite DEF OldCells
      <3> QED BY <3>1, FS_Subset
    <2>2. Cardinality(OldCells(h, m, ch) \ {d}) = Cardinality(OldCells(h, m, ch)) - 1
      BY <1>18, <2>1, FS_RemoveElement
    <2> QED BY <1>2, <1>18, <2>2 DEF h
  <1>21. h2 \in Stores
    BY <1>14, StoreIs DEF Linked
  <1>22. t2.store = h2 /\ t2.buckets = t.buckets /\ t2.old = old2 /\ t2 \in Tables
    BY <1>5, <1>10, <1>21
  <1>23. Rehashing(t2, n, m, num - 1, left - 1)
    <2>1. Linked(t2.store, Index(n, m), Both(n, m, t2.old, t2.buckets), ch2)
      BY <1>14, <1>22 DEF bs2, J
    <2>2. Hashed(t2.store, m, ch2) /\ Cardinality(OldCells(t2.store, m, ch2)) = left - 1
      BY <1>17, <1>20, <1>22
    <2> QED BY <1>1, <1>10, <1>15, <1>19, <1>22, <2>1, <2>2 DEF Rehashing
  <1>24. Contents(h) = Contents(t2.store) \cup {x}
    <2>1. t2.store = h2
      BY <1>22
    <2> QED BY <1>14, <1>15, <2>1 DEF Contents
  <1> QED BY <1>15, <1>22, <1>23, <1>24 DEF t2, h, x, IsTaken

\* While items are left there is an old bucket that is not empty, and Move takes from it.
LEMMA MoveIs ==
    ASSUME NEW n \in Nat, NEW m \in Nat, m # 0, NEW num \in Nat, num <= Cardinality(Cells),
           NEW left, left # 0, NEW t, Rehashing(t, n, m, num, left)
    PROVE  /\ Rehashing(Move(t), n, m, num, left - 1)
           /\ Contents(Move(t).store) = Contents(t.store)
  <1> DEFINE First(k) == ~IsEmpty(t.old[k]) /\ \A j \in 1..k - 1 : IsEmpty(t.old[j])
             b == CHOOSE k \in DOMAIN t.old : First(k)
             x == FrontItem(t, b)
  <1>1. DOMAIN t.old = 1..n
    BY LenProperties DEF Rehashing, Tables
  <1>2. \E k \in 1..n : ~IsEmpty(t.old[k])
    <2> DEFINE bs == Both(n, m, t.old, t.buckets)
    <2>1. BothIs(n, m, t.old, t.buckets, bs)
      BY BothLists DEF Rehashing, Tables
    <2> HIDE DEF bs
    <2>2. PICK ch : /\ Linked(t.store, Index(n, m), bs, ch)
                    /\ Cardinality(OldCells(t.store, m, ch)) = left
      BY DEF Rehashing, bs
    <2>3. PICK c : c \in OldCells(t.store, m, ch)
      <3>1. OldCells(t.store, m, ch) # {}
        BY <2>2, FS_EmptySet
      <3> QED BY <3>1
    <2>4. PICK i \in Index(n, m) : c \in On(ch[i])
      BY <2>2, <2>3 DEF Linked, OldCells
    <2>5. -i \in 1..n /\ i = -(-i)
      BY <2>3, <2>4 DEF OldCells, Index
    <2>6. bs[i] = t.old[-i]
      BY <2>1, <2>5 DEF BothIs
    <2>7. OnChain(t.store, t.old[-i], ch[i])
      BY <2>2, <2>6 DEF Linked
    <2>8. Len(ch[i]) # 0
      <3>1. PICK k \in 1..Len(ch[i]) : c = ch[i][k]
        BY <2>4 DEF On
      <3>2. Len(ch[i]) \in Nat
        BY <2>7, ChainFacts
      <3> QED BY <3>1, <3>2
    <2>9. ~IsEmpty(t.old[-i])
      BY <2>7, <2>8 DEF OnChain, IsEmpty
    <2> QED BY <2>5, <2>9
  <1>3. b \in 1..n /\ ~IsEmpty(t.old[b])
    <2> DEFINE S == {k \in 1..n : ~IsEmpty(t.old[k])}
    <2>1. S \subseteq Nat /\ S # {}
      BY <1>2
    <2>2. PICK k \in S : \A j \in S : k <= j
      <3> HIDE DEF S
      <3> QED BY <2>1, LeastNumber
    <2>3. \A j \in 1..k - 1 : j \in 1..n /\ ~(k <= j)
      BY <2>2
    <2>4. k \in DOMAIN t.old /\ First(k)
      BY <1>1, <2>2, <2>3
    <2>5. b \in DOMAIN t.old /\ First(b)
      <3> HIDE DEF First
      <3> QED BY <2>4
    <2> QED BY <1>1, <2>5
  <1>4. Move(t) = Put(Taken(t, b), x)
    BY DEF Move, Taken, FrontItem
  <1> HIDE DEF b, x
  <1>5. /\ Rehashing(Taken(t, b), n, m, num - 1, left - 1)
        /\ x \in Objects /\ KeyAbsent(Taken(t, b).store, KeyOf(x))
        /\ Contents(t.store) = Contents(Taken(t, b).store) \cup {x}
    <2>1. HasItems(t, b)
      BY <1>3 DEF HasItems
    <2>2. IsTaken(t, b, FrontItem(t, b), n, m, num, left)
      BY <1>3, <2>1, TakenIs
    <2> QED BY <2>2 DEF x, IsTaken
  <1> DEFINE t1 == Taken(t, b)
             num1 == num - 1
             left1 == left - 1
  <1>6. num1 < Cardinality(Cells) /\ num1 + 1 = num
    <2>1. Cardinality(Cells) \in Nat
      BY LibraryAssumption, FS_CardinalityType
    <2> QED BY <2>1
  <1>7. Rehashing(t1, n, m, num1, left1) /\ KeyAbsent(t1.store, KeyOf(x))
    BY <1>5
  <1> HIDE DEF t1, num1, left1
  <1>8. /\ Rehashing(Put(t1, x), n, m, num1 + 1, left1)
        /\ Contents(Put(t1, x).store) = Contents(t1.store) \cup {x}
    BY <1>5, <1>6, <1>7, PutIs
  <1> QED BY <1>4, <1>5, <1>6, <1>8 DEF t1, left1

\* Lists on part of the buckets, and on new empty ones beside.
LEMMA EmptyChain ==
    ASSUME NEW h
    PROVE  OnChain(h, EmptyList, <<>>) /\ On(<<>>) = {} /\ EmptyList \in ListRecord
           /\ <<>> \in Seq(Cells)
  <1>1. EmptyList \in ListRecord /\ EmptyList.first = NULL /\ EmptyList.last = NULL
        /\ EmptyList.numInList = 0
    <2>1. NULL \in Places
      BY DEF Places
    <2> QED BY <2>1 DEF EmptyList, ListRecord
  <1>2. <<>> \in Seq(DOMAIN h) /\ Len(<<>>) = 0 /\ 1..0 = {} /\ <<>> \in Seq(Cells)
    BY EmptySeq
  <1>3. OnChain(h, EmptyList, <<>>)
    BY <1>1, <1>2 DEF OnChain
  <1>4. On(<<>>) = {}
    BY <1>2 DEF On
  <1> QED BY <1>1, <1>2, <1>3, <1>4

LEMMA EmptyBuckets ==
    ASSUME NEW m \in Nat
    PROVE  /\ InitBuckets(m) \in Seq(ListRecord) /\ Len(InitBuckets(m)) = m
           /\ \A i \in 1..m : InitBuckets(m)[i] = EmptyList
  <1> DEFINE bs == InitBuckets(m)
  <1>1. bs \in [1..m -> ListRecord] /\ DOMAIN bs = 1..m /\ \A i \in 1..m : bs[i] = EmptyList
    <2>1. EmptyList \in ListRecord
      BY EmptyChain
    <2> QED BY <2>1 DEF InitBuckets
  <1> HIDE DEF bs
  <1>2. bs \in Seq(ListRecord)
    BY <1>1, SeqDef
  <1>3. Len(bs) = m
    BY <1>1, <1>2, LenProperties
  <1> QED BY <1>1, <1>2, <1>3 DEF bs

StartOf(bs, h, m) == [old |-> bs, store |-> h, buckets |-> InitBuckets(m)]

LEMMA RehashStarts ==
    ASSUME NEW h, NEW bs, NEW num, NEW ch, TableIs(h, bs, num, ch), NEW m \in Nat
    PROVE  /\ Rehashing(StartOf(bs, h, m), Len(bs), m, num, num)
           /\ StartOf(bs, h, m) \in Tables
  <1> DEFINE n == Len(bs)
             new == InitBuckets(m)
             J == Index(n, m)
             b2 == Both(n, m, bs, new)
             ch2 == [i \in J |-> IF i > 0 THEN <<>> ELSE ch[-i]]
             t == StartOf(bs, h, m)
  <1>1. /\ bs \in Seq(ListRecord) /\ n \in Nat /\ Linked(h, 1..n, bs, ch) /\ KeysDiffer(h)
        /\ num = Cardinality(DOMAIN h) /\ IsStore(h)
    BY LenProperties DEF TableIs, Linked
  <1>2. new \in Seq(ListRecord) /\ Len(new) = m /\ \A i \in 1..m : new[i] = EmptyList
    BY EmptyBuckets
  <1> HIDE DEF new, n
  <1>3. BothIs(n, m, bs, new, b2)
    BY <1>1, <1>2, BothLists DEF n
  <1> HIDE DEF b2
  <1>4. \A i \in J : (i > 0 /\ i \in 1..m) \/ (~(i > 0) /\ -i \in 1..n /\ -(-i) = i)
    BY <1>1 DEF Index
  <1> HIDE DEF J
  <1>5. /\ <<>> \in Seq(Cells) /\ \A i \in 1..n : ch[i] \in Seq(Cells) /\ OnChain(h, bs[i], ch[i])
        /\ OnChain(h, EmptyList, <<>>) /\ On(<<>>) = {}
    BY <1>1, EmptyChain DEF Linked
  <1>6. ch2 \in [J -> Seq(Cells)]
    BY <1>4, <1>5
  <1>7. /\ \A i \in J : i \in 1..m => ch2[i] = <<>> /\ b2[i] = EmptyList
        /\ \A i \in J : i \notin 1..m => /\ ch2[i] = ch[-i] /\ b2[i] = bs[-i]
                                         /\ -i \in 1..n /\ -(-i) = i
    <2>1. \A i \in J : i \in 1..m => ch2[i] = <<>> /\ b2[i] = EmptyList
      BY <1>2, <1>3, <1>4 DEF BothIs
    <2>2. \A i \in J : i \notin 1..m => ch2[i] = ch[-i] /\ -i \in 1..n /\ -(-i) = i
      BY <1>4
    <2>3. \A i \in J : i \notin 1..m => b2[-(-i)] = bs[-i]
      BY <1>3, <2>2 DEF BothIs
    <2> HIDE DEF ch2
    <2> QED BY <2>1, <2>2, <2>3
  <1> HIDE DEF ch2
  <1>8. \A i \in J : OnChain(h, b2[i], ch2[i])
    BY <1>5, <1>7
  <1>9. \A i, j \in J : i # j => On(ch2[i]) \cap On(ch2[j]) = {}
    <2> SUFFICES ASSUME NEW i \in J, NEW j \in J, i # j
                 PROVE  On(ch2[i]) \cap On(ch2[j]) = {}
      OBVIOUS
    <2>1. CASE i \in 1..m
      BY <1>5, <1>7, <2>1
    <2>2. CASE j \in 1..m
      BY <1>5, <1>7, <2>2
    <2>3. CASE i \notin 1..m /\ j \notin 1..m
      <3>1. ch2[i] = ch[-i] /\ ch2[j] = ch[-j] /\ -i \in 1..n /\ -j \in 1..n /\ -i # -j
        BY <1>7, <2>3
      <3> QED BY <1>1, <3>1 DEF Linked
    <2> QED BY <2>1, <2>2, <2>3
  <1>10. \A c \in DOMAIN h : \E i \in J : c \in On(ch2[i])
    <2> SUFFICES ASSUME NEW c \in DOMAIN h PROVE \E i \in J : c \in On(ch2[i])
      OBVIOUS
    <2>1. PICK k \in 1..n : c \in On(ch[k])
      BY <1>1 DEF Linked
    <2>2. -k \in J /\ -k \notin 1..m /\ -(-k) = k
      BY <1>3, <2>1 DEF BothIs, J
    <2>3. ch2[-k] = ch[k]
      BY <1>7, <2>2
    <2> QED BY <2>1, <2>2, <2>3
  <1>11. Linked(h, J, b2, ch2)
    BY <1>1, <1>3, <1>6, <1>8, <1>9, <1>10 DEF Linked, BothIs, J
  <1>12. \A i \in 1..m : On(ch2[i]) = {}
    <2>1. \A i \in 1..m : i \in J
      BY <1>3 DEF BothIs, J
    <2> QED BY <1>5, <1>7, <2>1
  <1>13. Hashed(h, m, ch2) /\ OldCells(h, m, ch2) = DOMAIN h
    BY <1>12 DEF Hashed, OldCells
  <1>14. t.old = bs /\ t.store = h /\ t.buckets = new /\ t \in Tables
    <2>1. h \in Stores
      BY <1>1, StoreIs
    <2> QED BY <1>1, <1>2, <2>1 DEF StartOf, Tables, new
  <1> HIDE DEF t
  <1>15. /\ Linked(t.store, Index(n, m), Both(n, m, t.old, t.buckets), ch2)
         /\ Hashed(t.store, m, ch2) /\ Cardinality(OldCells(t.store, m, ch2)) = num
    BY <1>1, <1>11, <1>13, <1>14 DEF b2, J
  <1>16. Rehashing(t, n, m, num, num)
    BY <1>1, <1>2, <1>14, <1>15 DEF Rehashing, n
  <1> QED BY <1>14, <1>16 DEF t, n

LEMMA RehashEnds ==
    ASSUME NEW n \in Nat, NEW m \in Nat, m # 0, NEW num, NEW t, Rehashing(t, n, m, num, 0)
    PROVE  \E ch : TableIs(t.store, t.buckets, num, ch)
  <1> DEFINE h == t.store
             J == Index(n, m)
             bs == Both(n, m, t.old, t.buckets)
  <1>1. /\ t.old \in Seq(ListRecord) /\ Len(t.old) = n /\ t.buckets \in Seq(ListRecord)
        /\ Len(t.buckets) = m /\ KeysDiffer(h) /\ Cardinality(DOMAIN h) = num
        /\ t.buckets \in [1..m -> ListRecord]
    BY LenProperties DEF Rehashing, Tables
  <1>2. PICK ch : /\ Linked(h, J, bs, ch) /\ Hashed(h, m, ch)
                  /\ Cardinality(OldCells(h, m, ch)) = 0
    BY DEF Rehashing
  <1>3. BothIs(n, m, t.old, t.buckets, bs)
    BY <1>1, BothLists
  <1> HIDE DEF bs, J, h
  <1>4. OldCells(h, m, ch) = {}
    <2>1. IsFiniteSet(DOMAIN h) /\ OldCells(h, m, ch) \subseteq DOMAIN h
      BY <1>2, StoreFinite DEF OldCells, Linked
    <2>2. IsFiniteSet(OldCells(h, m, ch))
      BY <2>1, FS_Subset
    <2> QED BY <1>2, <2>2, FS_EmptySet
  <1> DEFINE ch2 == [i \in 1..m |-> ch[i]]
  <1>5. \A i \in 1..m : i \in J /\ bs[i] = t.buckets[i] /\ ch2[i] = ch[i]
    BY <1>3 DEF BothIs, J
  <1>6. ch2 \in [1..m -> Seq(Cells)]
    <2>1. \A i \in 1..m : ch[i] \in Seq(Cells)
      BY <1>2, <1>5 DEF Linked
    <2> QED BY <2>1
  <1> HIDE DEF ch2
  <1>7. Linked(h, 1..m, t.buckets, ch2)
    <2>1. IsStore(h) /\ \A i \in 1..m : OnChain(h, t.buckets[i], ch2[i])
      BY <1>2, <1>5 DEF Linked
    <2>2. \A i, j \in 1..m : i # j => On(ch2[i]) \cap On(ch2[j]) = {}
      BY <1>2, <1>5 DEF Linked
    <2>3. \A c \in DOMAIN h : \E i \in 1..m : c \in On(ch2[i])
      BY <1>4, <1>5 DEF OldCells
    <2> QED BY <1>1, <1>6, <2>1, <2>2, <2>3 DEF Linked
  <1>8. Hashed(h, m, ch2)
    BY <1>2, <1>5 DEF Hashed
  <1>9. TableIs(h, t.buckets, num, ch2)
    BY <1>1, <1>7, <1>8 DEF TableIs, h
  <1> QED BY <1>9 DEF h

LEMMA ReHashIs ==
    ASSUME NEW ch, TableIs(store, buckets, numItems, ch), numItems <= Cardinality(Cells)
    PROVE  /\ \E ch2 : TableIs(ReHash.store, ReHash.buckets, numItems, ch2)
           /\ Contents(ReHash.store) = Contents(store) /\ ReHash \in Tables
  <1> DEFINE N == numItems
             n == Len(buckets)
             m == n * IncreaseSizeBy
             start == StartOf(buckets, store, m)
             step == [t \in Tables |-> IF Move(t) \in Tables THEN Move(t) ELSE start]
             Is(f) == f = [k \in 0..N |-> IF k = 0 THEN start ELSE Move(f[k - 1])]
             move == CHOOSE f : Is(f)
             Stage(t, k) == Rehashing(t, n, m, N, N - k) /\ Contents(t.store) = Contents(store)
             Stages == [k \in 0..N |-> {t \in Tables : Stage(t, k)}]
  <1>1. n \in Nat /\ n # 0 /\ N \in Nat /\ N = Cardinality(DOMAIN store) /\ IsStore(store)
    BY LenProperties, StoreFinite DEF TableIs, Linked
  <1>2. m \in Nat /\ m # 0
    <2>1. IncreaseSizeBy \in Nat /\ IncreaseSizeBy # 0
      BY LibraryAssumption
    <2> HIDE DEF n
    <2> QED BY <1>1, <2>1
  <1>3. start \in Tables /\ Stage(start, 0)
    <2>1. Rehashing(start, n, m, N, N) /\ start \in Tables
      <3> HIDE DEF m
      <3> QED BY <1>2, RehashStarts
    <2>2. start.store = store /\ N - 0 = N
      BY <1>1 DEF StartOf
    <2> HIDE DEF start, m, n
    <2> QED BY <2>1, <2>2
  <1> HIDE DEF start, m, n
  <1>4. ASSUME NEW k \in 1..N, NEW t \in Tables, Stage(t, k - 1)
        PROVE  Move(t) \in Tables /\ Stage(Move(t), k)
    <2> DEFINE left == N - (k - 1)
    <2>1. left # 0 /\ left - 1 = N - k /\ Rehashing(t, n, m, N, left)
      BY <1>1, <1>4
    <2> HIDE DEF left
    <2>2. /\ Rehashing(Move(t), n, m, N, left - 1)
          /\ Contents(Move(t).store) = Contents(t.store)
      BY <1>1, <1>2, <2>1, MoveIs
    <2>3. Move(t) \in Tables
      BY <2>2 DEF Rehashing
    <2> QED BY <1>4, <2>1, <2>2, <2>3
  <1> HIDE DEF Stage
  <1>5. step \in [Tables -> Tables] /\ start \in Stages[0]
    BY <1>1, <1>3
  <1>6. \A k \in 1..N : \A t \in Stages[k - 1] : step[t] \in Stages[k] /\ step[t] = Move(t)
    <2> SUFFICES ASSUME NEW k \in 1..N, NEW t \in Stages[k - 1]
                 PROVE  step[t] \in Stages[k] /\ step[t] = Move(t)
      OBVIOUS
    <2>1. k \in 0..N /\ k - 1 \in 0..N
      BY <1>1
    <2>2. t \in Tables /\ Stage(t, k - 1)
      BY <2>1
    <2>3. Move(t) \in Tables /\ Stage(Move(t), k)
      BY <1>4, <2>2
    <2> QED BY <2>1, <2>2, <2>3
  <1> HIDE DEF step
  <1>7. \E f : Is(f)
    <2>1. PICK f \in [0..N -> Tables] : LoopOf(f, start, step, N)
      BY <1>1, <1>3, <1>5, LoopExists
    <2>2. \A k \in 0..N : f[k] \in Stages[k]
      <3> HIDE DEF Stages
      <3> QED BY <1>1, <1>5, <1>6, <2>1, LoopStays
    <2>3. ASSUME NEW k \in 0..N
          PROVE  f[k] = IF k = 0 THEN start ELSE Move(f[k - 1])
      <3>1. CASE k = 0
        BY <2>1, <3>1 DEF LoopOf
      <3>2. CASE k # 0
        <4>1. k \in 1..N /\ k - 1 \in 0..N
          BY <1>1, <3>2
        <4>2. f[k] = step[f[k - 1]] /\ f[k - 1] \in Stages[k - 1]
          BY <2>1, <2>2, <4>1 DEF LoopOf
        <4> HIDE DEF Stages
        <4> QED BY <1>6, <3>2, <4>1, <4>2
      <3> QED BY <3>1, <3>2
    <2>4. Is(f)
      BY <2>1, <2>3
    <2> QED BY <2>4
  <1>8. Is(move)
    BY <1>7
  <1>9. ReHash = move[N]
    BY DEF ReHash, StartOf, start, m, n, NumBuckets
  <1> HIDE DEF move
  <1> DEFINE Good == {k \in 0..N : move[k] \in Tables /\ Stage(move[k], k)}
  <1>10. 0 \in Good
    BY <1>1, <1>3, <1>8
  <1>11. ASSUME NEW k \in 1..N, k - 1 \in Good PROVE k \in Good
    <2>1. move[k] = Move(move[k - 1]) /\ k \in 0..N
      BY <1>1, <1>8
    <2> QED BY <1>4, <1>11, <2>1
  <1> HIDE DEF Good
  <1>12. \A k \in 0..N : k \in Good
    BY <1>1, <1>10, <1>11, Induction
  <1>13. move[N] \in Tables /\ Stage(move[N], N)
    BY <1>1, <1>12 DEF Good
  <1>14. Rehashing(move[N], n, m, N, 0) /\ Contents(move[N].store) = Contents(store)
    <2>1. N - N = 0
      BY <1>1
    <2> QED BY <1>13, <2>1 DEF Stage
  <1>15. \E ch2 : TableIs(move[N].store, move[N].buckets, N, ch2)
    BY <1>1, <1>2, <1>14, RehashEnds
  <1> QED BY <1>9, <1>13, <1>14, <1>15

-----------------------------------------------------------------------------
(* The invariant *)

LibraryIInv ==
  /\ kind \in {"List", "SortedList", "HashTable"}
  /\ Cardinality(DOMAIN store) <= MaxItems
  /\ kind # "HashTable" => \E ch : ListIs(kind = "SortedList", store, buckets, ch)
  /\ kind = "HashTable" => \E ch : TableIs(store, buckets, numItems, ch)

LEMMA LibraryStarts == LibraryInit => LibraryIInv
  <1> SUFFICES ASSUME LibraryInit PROVE LibraryIInv
    OBVIOUS
  <1> USE DEF LibraryInit
  <1>1. store = [c \in {} |-> 0] /\ DOMAIN store = {} /\ IsStore(store)
    BY DEF IsStore
  <1>2. Cardinality(DOMAIN store) = 0
    BY <1>1, FS_EmptySet
  <1>3. Cardinality(DOMAIN store) <= MaxItems
    <2>1. MaxItems \in 0..Cardinality(Cells) /\ Cardinality(Cells) \in Nat
      BY LibraryAssumption, FS_CardinalityType
    <2> QED BY <1>2, <2>1
  <1>4. ASSUME NEW m \in Nat, buckets = InitBuckets(m)
        PROVE  /\ buckets \in Seq(ListRecord) /\ Len(buckets) = m
               /\ \E ch : /\ Linked(store, 1..m, buckets, ch)
                          /\ \A i \in 1..m : ch[i] = <<>> /\ On(ch[i]) = {}
    <2> DEFINE ch == [i \in 1..m |-> <<>>]
    <2>1. /\ buckets \in Seq(ListRecord) /\ Len(buckets) = m
          /\ \A i \in 1..m : buckets[i] = EmptyList
      BY <1>4, EmptyBuckets
    <2>2. buckets \in [1..m -> ListRecord]
      BY <2>1, LenProperties
    <2>3. OnChain(store, EmptyList, <<>>) /\ On(<<>>) = {} /\ <<>> \in Seq(Cells)
      BY EmptyChain
    <2>4. ch \in [1..m -> Seq(Cells)] /\ \A i \in 1..m : ch[i] = <<>> /\ On(ch[i]) = {}
      BY <2>3
    <2> HIDE DEF ch
    <2>5. Linked(store, 1..m, buckets, ch)
      BY <1>1, <2>1, <2>2, <2>3, <2>4 DEF Linked
    <2> QED BY <2>1, <2>4, <2>5
  <1>5. kind # "HashTable" => \E ch : ListIs(kind = "SortedList", store, buckets, ch)
    <2> SUFFICES ASSUME kind # "HashTable"
                 PROVE  \E ch : ListIs(kind = "SortedList", store, buckets, ch)
      OBVIOUS
    <2>1. PICK ch : /\ buckets \in Seq(ListRecord) /\ Len(buckets) = 1
                    /\ Linked(store, 1..1, buckets, ch)
                    /\ \A i \in 1..1 : ch[i] = <<>>
      BY <1>4
    <2>2. ch[1] = <<>> /\ Len(<<>>) = 0
      BY <2>1, EmptySeq
    <2>3. ItemsDiffer(store) /\ Ascending(store, ch[1])
      BY <1>1, <2>2 DEF ItemsDiffer, Ascending
    <2>4. ListIs(kind = "SortedList", store, buckets, ch)
      BY <2>1, <2>3 DEF ListIs
    <2> QED BY <2>4
  <1>6. kind = "HashTable" => \E ch : TableIs(store, buckets, numItems, ch)
    <2> SUFFICES ASSUME kind = "HashTable"
                 PROVE  \E ch : TableIs(store, buckets, numItems, ch)
      OBVIOUS
    <2>1. InitialBuckets \in Nat /\ InitialBuckets # 0 /\ buckets = InitBuckets(InitialBuckets)
      BY LibraryAssumption
    <2>2. PICK ch : /\ buckets \in Seq(ListRecord) /\ Len(buckets) = InitialBuckets
                    /\ Linked(store, 1..InitialBuckets, buckets, ch)
                    /\ \A i \in 1..InitialBuckets : On(ch[i]) = {}
      BY <1>4, <2>1
    <2>3. KeysDiffer(store) /\ Hashed(store, InitialBuckets, ch)
      BY <1>1, <2>2 DEF KeysDiffer, Hashed
    <2> QED BY <1>2, <2>1, <2>2, <2>3 DEF TableIs
  <1> QED BY <1>3, <1>5, <1>6 DEF LibraryIInv

LEMMA IsRoomy ==
    ASSUME IsStore(store), Cardinality(DOMAIN store) < MaxItems
    PROVE  Roomy(store)
  <1>1. MaxItems \in Nat /\ MaxItems <= Cardinality(Cells) /\ Cardinality(Cells) \in Nat
    <2>1. Cardinality(Cells) \in Nat /\ MaxItems \in 0..Cardinality(Cells)
      BY LibraryAssumption, FS_CardinalityType
    <2> QED BY <2>1
  <1>2. Cardinality(DOMAIN store) \in Nat
    BY StoreFinite
  <1> QED BY <1>1, <1>2 DEF Roomy

\* A list or a table is left by a call that added or removed one item or none.
LEMMA ListKept ==
    ASSUME LibraryIInv, kind # "HashTable", kind' = kind,
           NEW ch, ListIs(kind = "SortedList", store', buckets', ch),
           Cardinality(DOMAIN store') <= MaxItems
    PROVE  LibraryIInv'
  BY DEF LibraryIInv

LEMMA TableKept ==
    ASSUME LibraryIInv, kind = "HashTable", kind' = kind,
           NEW ch, TableIs(store', buckets', numItems', ch),
           Cardinality(DOMAIN store') <= MaxItems
    PROVE  LibraryIInv'
  BY DEF LibraryIInv

\* Absent items are on no list.
LEMMA NotInList ==
    ASSUME NEW sorted, NEW h, NEW bs, NEW ch, ListIs(sorted, h, bs, ch), NEW x
    PROVE  ~IsInList(h, bs[1], x) <=> Absent(h, x)
  <1>1. /\ IsStore(h) /\ OnChain(h, bs[1], ch[1]) /\ On(ch[1]) = DOMAIN h
    BY OneList
  <1>2. IsInList(h, bs[1], x) <=> \E n \in 1..Len(ch[1]) : h[ch[1][n]].item = x
    BY <1>1, InListIs
  <1>3. (\E n \in 1..Len(ch[1]) : h[ch[1][n]].item = x) <=> \E c \in On(ch[1]) : h[c].item = x
    BY DEF On
  <1> QED BY <1>1, <1>2, <1>3 DEF Absent

\* A call adds x behind the first n cells of the list, or removes its n-th.
AddsTo(ch, x, n) ==
  /\ kind # "HashTable" /\ ListIs(kind = "SortedList", store, buckets, ch)
  /\ ~IsInList(store, buckets[1], x) /\ n \in 0..Len(ch[1])
  /\ kind = "List" => n = 0 \/ n = Len(ch[1])
  /\ kind = "SortedList" => Belongs(store, ch[1], x, n)
  /\ \E r : Adds(store, ch[1], x, n, r) /\ Leaves(r.store, r.list)
RemovesFrom(ch, n) ==
  /\ kind # "HashTable" /\ ListIs(kind = "SortedList", store, buckets, ch)
  /\ n \in 1..Len(ch[1])
  /\ \E r : Removes(store, ch[1], n, r) /\ Leaves(r.store, r.list)

LEMMA AddsKeeps ==
    ASSUME LibraryIInv, Cardinality(DOMAIN store) < MaxItems, NEW ch, NEW n, NEW x \in Objects,
           AddsTo(ch, x, n)
    PROVE  LibraryIInv'
  <1>0. /\ kind # "HashTable" /\ ListIs(kind = "SortedList", store, buckets, ch)
        /\ ~IsInList(store, buckets[1], x) /\ n \in 0..Len(ch[1])
        /\ kind = "SortedList" => Belongs(store, ch[1], x, n)
    BY DEF AddsTo
  <1>7. PICK r : Adds(store, ch[1], x, n, r) /\ Leaves(r.store, r.list)
    BY DEF AddsTo
  <1>1. Absent(store, x)
    BY <1>0, NotInList
  <1> DEFINE sorted == kind = "SortedList"
  <1>2. ListIs(sorted, store, buckets, ch) /\ (sorted => Belongs(store, ch[1], x, n))
    BY <1>0
  <1> HIDE DEF sorted
  <1>3. /\ \E ch2 : ListIs(sorted, r.store, <<r.list>>, ch2)
        /\ Cardinality(DOMAIN r.store) = Cardinality(DOMAIN store) + 1
    BY <1>0, <1>1, <1>2, <1>7, ListAdded
  <1>4. store' = r.store /\ buckets' = <<r.list>> /\ kind' = kind
    BY <1>7 DEF Leaves
  <1>5. Cardinality(DOMAIN store') <= MaxItems
    <2>1. Cardinality(DOMAIN store) \in Nat /\ MaxItems \in Nat
      <3>1. IsStore(store)
        BY <1>2, OneList
      <3>2. MaxItems \in 0..Cardinality(Cells) /\ Cardinality(Cells) \in Nat
        BY LibraryAssumption, FS_CardinalityType
      <3> QED BY <3>1, <3>2, StoreFinite
    <2> QED BY <1>3, <1>4, <2>1
  <1>6. \E ch2 : ListIs(sorted, store', buckets', ch2)
    BY <1>3, <1>4
  <1> QED BY <1>0, <1>4, <1>5, <1>6, ListKept DEF sorted

LEMMA RemovesKeeps ==
    ASSUME LibraryIInv, NEW ch, NEW n, RemovesFrom(ch, n)
    PROVE  LibraryIInv'
  <1>0. /\ kind # "HashTable" /\ ListIs(kind = "SortedList", store, buckets, ch)
        /\ n \in 1..Len(ch[1])
    BY DEF RemovesFrom
  <1>7. PICK r : Removes(store, ch[1], n, r) /\ Leaves(r.store, r.list)
    BY DEF RemovesFrom
  <1> DEFINE sorted == kind = "SortedList"
  <1>2. ListIs(sorted, store, buckets, ch)
    BY <1>0
  <1> HIDE DEF sorted
  <1>3. /\ \E ch2 : ListIs(sorted, r.store, <<r.list>>, ch2)
        /\ Cardinality(DOMAIN r.store) = Cardinality(DOMAIN store) - 1
    BY <1>0, <1>2, <1>7, ListRemoved
  <1>4. store' = r.store /\ buckets' = <<r.list>> /\ kind' = kind
    BY <1>7 DEF Leaves
  <1>5. Cardinality(DOMAIN store') <= MaxItems
    <2>1. /\ Cardinality(DOMAIN store) \in Nat /\ MaxItems \in Nat
          /\ Cardinality(DOMAIN store) <= MaxItems
      <3>1. IsStore(store)
        BY <1>2, OneList
      <3>2. MaxItems \in 0..Cardinality(Cells) /\ Cardinality(Cells) \in Nat
        BY LibraryAssumption, FS_CardinalityType
      <3> QED BY <3>1, <3>2, StoreFinite DEF LibraryIInv
    <2> QED BY <1>3, <1>4, <2>1
  <1>6. \E ch2 : ListIs(sorted, store', buckets', ch2)
    BY <1>3, <1>4
  <1> QED BY <1>0, <1>4, <1>5, <1>6, ListKept DEF sorted

\* What the actions on a list start from.
LEMMA ListFacts ==
    ASSUME LibraryIInv, kind # "HashTable"
    PROVE  \E ch : /\ ListIs(kind = "SortedList", store, buckets, ch)
                   /\ IsStore(store) /\ OnChain(store, buckets[1], ch[1])
                   /\ Len(ch[1]) \in Nat
  <1>1. PICK ch : ListIs(kind = "SortedList", store, buckets, ch)
    BY DEF LibraryIInv
  <1> DEFINE sorted == kind = "SortedList"
  <1>2. ListIs(sorted, store, buckets, ch)
    BY <1>1
  <1> HIDE DEF sorted
  <1>3. IsStore(store) /\ OnChain(store, buckets[1], ch[1]) /\ Len(ch[1]) \in Nat
    BY <1>2, OneList
  <1> QED BY <1>1, <1>3

LEMMA ListAddIs ==
    ASSUME LibraryIInv, Cardinality(DOMAIN store) < MaxItems, NEW x \in Objects, ListAdd(x)
    PROVE  \E ch, n : AddsTo(ch, x, n)
  <1>1. kind = "List" /\ ~IsInList(store, buckets[1], x)
    BY DEF ListAdd
  <1>2. PICK ch : /\ ListIs(kind = "SortedList", store, buckets, ch)
                  /\ IsStore(store) /\ OnChain(store, buckets[1], ch[1])
                  /\ Len(ch[1]) \in Nat
    BY <1>1, ListFacts
  <1>3. Roomy(store)
    BY <1>2, IsRoomy
  <1>4. CASE LET r == AddLast(store, buckets[1], x) IN Leaves(r.store, r.list)
    <2> DEFINE r == AddLast(store, buckets[1], x)
    <2>1. Adds(store, ch[1], x, Len(ch[1]), r)
      BY <1>2, <1>3, AddLastIs
    <2>2. Leaves(r.store, r.list)
      BY <1>4
    <2>3. Len(ch[1]) \in 0..Len(ch[1])
      BY <1>2
    <2> HIDE DEF r
    <2> QED BY <1>1, <1>2, <2>1, <2>2, <2>3 DEF AddsTo
  <1>5. CASE LET r == AddFirst(store, buckets[1], x) IN Leaves(r.store, r.list)
    <2> DEFINE r == AddFirst(store, buckets[1], x)
    <2>1. Adds(store, ch[1], x, 0, r)
      BY <1>2, <1>3, AddFirstIs
    <2>2. Leaves(r.store, r.list)
      BY <1>5
    <2>3. 0 \in 0..Len(ch[1])
      BY <1>2
    <2> HIDE DEF r
    <2> QED BY <1>1, <1>2, <2>1, <2>2, <2>3 DEF AddsTo
  <1> QED BY <1>4, <1>5 DEF ListAdd

LEMMA SortedAddIs ==
    ASSUME LibraryIInv, Cardinality(DOMAIN store) < MaxItems, NEW x \in Objects, SortedAdd(x)
    PROVE  \E ch, n : AddsTo(ch, x, n)
  <1> DEFINE r == Insert(store, buckets[1], x)
  <1>1. kind = "SortedList" /\ ~IsInList(store, buckets[1], x) /\ Leaves(r.store, r.list)
    BY DEF SortedAdd
  <1> HIDE DEF r
  <1>2. PICK ch : /\ ListIs(kind = "SortedList", store, buckets, ch)
                  /\ IsStore(store) /\ OnChain(store, buckets[1], ch[1])
                  /\ Len(ch[1]) \in Nat
    BY <1>1, ListFacts
  <1>3. Roomy(store)
    BY <1>2, IsRoomy
  <1>4. PICK n \in 0..Len(ch[1]) : Belongs(store, ch[1], x, n) /\ Adds(store, ch[1], x, n, r)
    BY <1>2, <1>3, InsertIs DEF r
  <1> QED BY <1>1, <1>2, <1>4 DEF AddsTo

LEMMA ListRemoveFrontIs ==
    ASSUME LibraryIInv, ListRemoveFront
    PROVE  \E ch : RemovesFrom(ch, 1)
  <1> DEFINE r == RemoveFront(store, buckets[1])
  <1>1. kind # "HashTable" /\ ~IsEmpty(buckets[1]) /\ Leaves(r.store, r.list)
    BY DEF ListRemoveFront
  <1>2. PICK ch : /\ ListIs(kind = "SortedList", store, buckets, ch)
                  /\ IsStore(store) /\ OnChain(store, buckets[1], ch[1])
                  /\ Len(ch[1]) \in Nat
    BY <1>1, ListFacts
  <1>3. Len(ch[1]) # 0 /\ 1 \in 1..Len(ch[1])
    BY <1>1, <1>2 DEF IsEmpty, OnChain
  <1>4. Removes(store, ch[1], 1, r)
    BY <1>2, <1>3, RemoveFrontIs
  <1> HIDE DEF r
  <1> QED BY <1>1, <1>2, <1>3, <1>4 DEF RemovesFrom

LEMMA ListRemoveIs ==
    ASSUME LibraryIInv, NEW x, ListRemove(x)
    PROVE  \E ch, n : RemovesFrom(ch, n) /\ FirstWith(store, ch[1], x, n)
  <1> DEFINE r == RemoveItem(store, buckets[1], x)
  <1>1. kind # "HashTable" /\ IsInList(store, buckets[1], x) /\ Leaves(r.store, r.list)
    BY DEF ListRemove
  <1>2. PICK ch : /\ ListIs(kind = "SortedList", store, buckets, ch)
                  /\ IsStore(store) /\ OnChain(store, buckets[1], ch[1])
                  /\ Len(ch[1]) \in Nat
    BY <1>1, ListFacts
  <1>3. \E n \in 1..Len(ch[1]) : store[ch[1][n]].item = x
    BY <1>1, <1>2, InListIs
  <1> HIDE DEF r
  <1>4. PICK n : FirstWith(store, ch[1], x, n) /\ Removes(store, ch[1], n, r)
    BY <1>2, <1>3, RemoveItemIs DEF r
  <1>5. n \in 1..Len(ch[1])
    BY <1>4 DEF FirstWith
  <1> QED BY <1>1, <1>2, <1>4, <1>5 DEF RemovesFrom

-----------------------------------------------------------------------------

\* What the actions on a table start from.
LEMMA TableFacts ==
    ASSUME LibraryIInv, kind = "HashTable"
    PROVE  \E ch : /\ TableIs(store, buckets, numItems, ch)
                   /\ IsStore(store) /\ NumBuckets \in Nat /\ NumBuckets # 0
                   /\ Linked(store, 1..NumBuckets, buckets, ch)
                   /\ Hashed(store, NumBuckets, ch)
  <1>1. PICK ch : TableIs(store, buckets, numItems, ch)
    BY DEF LibraryIInv
  <1>2. /\ IsStore(store) /\ NumBuckets \in Nat /\ NumBuckets # 0
        /\ Linked(store, 1..NumBuckets, buckets, ch) /\ Hashed(store, NumBuckets, ch)
    BY <1>1, LenProperties DEF TableIs, Linked, NumBuckets
  <1> QED BY <1>1, <1>2

\* Find looks in the right bucket.
LEMMA FindLooks ==
    ASSUME NEW h, NEW m \in Nat, m # 0, NEW bs, NEW ch, Linked(h, 1..m, bs, ch), Hashed(h, m, ch),
           NEW x \in Objects,
           NEW b, b = HashValue(KeyOf(x), m), FindInBucket(h, bs[b], KeyOf(x)) = NULL
    PROVE  KeyAbsent(h, KeyOf(x))
  <1>1. b \in 1..m
    BY HashIn
  <1>2. IsStore(h) /\ OnChain(h, bs[b], ch[b])
    BY <1>1 DEF Linked
  <1>3. \A c \in On(ch[b]) : KeyOf(h[c].item) # KeyOf(x)
    BY <1>2, FindIs
  <1>4. ASSUME NEW c \in DOMAIN h, KeyOf(h[c].item) = KeyOf(x) PROVE FALSE
    <2>1. PICK i \in 1..m : c \in On(ch[i])
      BY DEF Linked
    <2>2. HashValue(KeyOf(h[c].item), m) = i
      BY <2>1 DEF Hashed
    <2>3. i = b
      BY <1>4, <2>2
    <2> QED BY <1>3, <1>4, <2>1, <2>3
  <1> QED BY <1>4 DEF KeyAbsent

LEMMA PutSame ==
    ASSUME NEW t \in Tables, NEW x
    PROVE  /\ Put(t, x).store = Put([store |-> t.store, buckets |-> t.buckets], x).store
           /\ Put(t, x).buckets = Put([store |-> t.store, buckets |-> t.buckets], x).buckets
  <1> DEFINE b == HashValue(KeyOf(x), Len(t.buckets))
             r == AddLast(t.store, t.buckets[b], x)
             new == [t.buckets EXCEPT ![b] = r.list]
             u == [store |-> t.store, buckets |-> t.buckets]
  <1>1. Put(t, x) = [t EXCEPT !.store = r.store, !.buckets = new]
    BY DEF Put, Tables
  <1>2. Put(u, x) = [u EXCEPT !.store = r.store, !.buckets = new]
    BY DEF Put
  <1> HIDE DEF r, new
  <1>3. Put(t, x).store = r.store /\ Put(t, x).buckets = new
    BY <1>1 DEF Tables
  <1>4. Put(u, x).store = r.store /\ Put(u, x).buckets = new
    BY <1>2
  <1> QED BY <1>3, <1>4

LEMMA HashInsertKeeps ==
    ASSUME LibraryIInv, Cardinality(DOMAIN store) < MaxItems, NEW x \in Objects, HashInsert(x)
    PROVE  /\ LibraryIInv' /\ KeyAbsent(store, KeyOf(x))
           /\ Contents(store') = Contents(store) \cup {x}
  <1> DEFINE full == numItems \div NumBuckets >= ResizeRatio
             t == IF full THEN ReHash ELSE [store |-> store, buckets |-> buckets]
             h == t.store
             bs == t.buckets
             u == Put([store |-> h, buckets |-> bs], x)
  <1>1. kind = "HashTable" /\ Find(KeyOf(x)) = NULL /\ kind' = kind /\ numItems' = numItems + 1
    BY DEF HashInsert
  <1>2. PICK ch : /\ TableIs(store, buckets, numItems, ch)
                  /\ IsStore(store) /\ NumBuckets \in Nat /\ NumBuckets # 0
                  /\ Linked(store, 1..NumBuckets, buckets, ch)
                  /\ Hashed(store, NumBuckets, ch)
    BY <1>1, TableFacts
  <1>3. KeyAbsent(store, KeyOf(x))
    <2> DEFINE b == HashValue(KeyOf(x), NumBuckets)
    <2>1. FindInBucket(store, buckets[b], KeyOf(x)) = NULL
      BY <1>1 DEF Find
    <2> HIDE DEF b
    <2> QED BY <1>2, <2>1, FindLooks DEF b
  <1>4. Roomy(store)
    BY <1>2, IsRoomy
  <1>5. numItems <= Cardinality(Cells) /\ numItems = Cardinality(DOMAIN store) /\ numItems \in Nat
        /\ MaxItems \in Nat
    <2>1. numItems = Cardinality(DOMAIN store) /\ numItems \in Nat /\ Cardinality(Cells) \in Nat
          /\ MaxItems \in 0..Cardinality(Cells)
      BY <1>2, StoreFinite, LibraryAssumption, FS_CardinalityType DEF TableIs
    <2> QED BY <1>4, <2>1 DEF Roomy
  <1>6. /\ \E ch2 : TableIs(h, bs, numItems, ch2)
        /\ Contents(h) = Contents(store)
        /\ store' = u.store /\ buckets' = u.buckets
    <2>0. store' = Put(t, x).store /\ buckets' = Put(t, x).buckets
      BY DEF HashInsert
    <2>1. CASE full
      <3>1. t = ReHash
        BY <2>1
      <3> HIDE DEF t, full
      <3>2. /\ \E ch2 : TableIs(ReHash.store, ReHash.buckets, numItems, ch2)
            /\ Contents(ReHash.store) = Contents(store) /\ ReHash \in Tables
        BY <1>2, <1>5, ReHashIs
      <3>3. Put(t, x).store = u.store /\ Put(t, x).buckets = u.buckets
        BY <3>1, <3>2, PutSame
      <3> QED BY <2>0, <3>1, <3>2, <3>3
    <2>2. CASE ~full
      <3>1. t = [store |-> store, buckets |-> buckets]
        BY <2>2
      <3> HIDE DEF t, full
      <3>2. h = store /\ bs = buckets /\ t = [store |-> h, buckets |-> bs]
        BY <3>1
      <3> QED BY <1>2, <2>0, <3>2
    <2> QED BY <2>1, <2>2
  <1> HIDE DEF t, full
  <1>7. PICK ch2 : TableIs(h, bs, numItems, ch2)
    BY <1>6
  <1>8. KeyAbsent(h, KeyOf(x))
    <2>1. \A y \in Contents(store) : KeyOf(y) # KeyOf(x)
      BY <1>3 DEF KeyAbsent, Contents
    <2> QED BY <1>6, <2>1 DEF KeyAbsent, Contents
  <1>9. Roomy(h) /\ Cardinality(DOMAIN h) = Cardinality(DOMAIN store)
    <2>1. IsStore(h) /\ Cardinality(DOMAIN h) = numItems
      BY <1>7 DEF TableIs, Linked
    <2> QED BY <1>4, <1>5, <2>1 DEF Roomy
  <1> HIDE DEF h, bs
  <1>10. /\ \E ch3 : TableIs(u.store, u.buckets, numItems + 1, ch3)
         /\ Cardinality(DOMAIN u.store) = Cardinality(DOMAIN h) + 1
         /\ Contents(u.store) = Contents(h) \cup {x}
    <2>1. u = Put([store |-> h, buckets |-> bs], x)
      OBVIOUS
    <2> HIDE DEF u
    <2> QED BY <1>7, <1>8, <1>9, <2>1, TableAdded
  <1>11. Cardinality(DOMAIN store') <= MaxItems
    BY <1>5, <1>6, <1>9, <1>10
  <1>12. \E ch3 : TableIs(store', buckets', numItems', ch3)
    BY <1>1, <1>6, <1>10
  <1>13. Contents(store') = Contents(store) \cup {x}
    BY <1>6, <1>10
  <1> QED BY <1>1, <1>3, <1>11, <1>12, <1>13, TableKept

LEMMA HashRemoveKeeps ==
    ASSUME LibraryIInv, NEW x \in Objects, HashRemove(KeyOf(x))
    PROVE  /\ LibraryIInv' /\ kind = "HashTable" /\ kind' = kind
           /\ \E y \in Contents(store) : /\ answer' = y /\ y \in Objects
                                        /\ Contents(store') = Contents(store) \ {y}
  <1> DEFINE key == KeyOf(x)
             b == HashValue(key, NumBuckets)
             found == FindInBucket(store, buckets[b], key)
             r == RemoveItem(store, buckets[b], found)
  <1>1. /\ kind = "HashTable" /\ found # NULL /\ kind' = kind
        /\ store' = r.store /\ buckets' = [buckets EXCEPT ![b] = r.list]
        /\ numItems' = numItems - 1 /\ answer' = found
    BY DEF HashRemove
  <1>2. PICK ch : /\ TableIs(store, buckets, numItems, ch)
                  /\ IsStore(store) /\ NumBuckets \in Nat /\ NumBuckets # 0
                  /\ Linked(store, 1..NumBuckets, buckets, ch)
                  /\ Hashed(store, NumBuckets, ch)
    BY <1>1, TableFacts
  <1>3. b \in 1..NumBuckets
    BY <1>2, HashIn
  <1>4. OnChain(store, buckets[b], ch[b])
    BY <1>2, <1>3 DEF Linked
  <1>5. \E n \in 1..Len(ch[b]) : store[ch[b][n]].item = found
    BY <1>1, <1>2, <1>4, FindIs
  <1> HIDE DEF b, found
  <1>6. PICK n : FirstWith(store, ch[b], found, n) /\ Removes(store, ch[b], n, r)
    BY <1>2, <1>4, <1>5, RemoveItemIs
  <1> HIDE DEF r
  <1>7. n \in 1..Len(ch[b]) /\ b \in 1..Len(buckets)
    BY <1>3, <1>6 DEF FirstWith, NumBuckets
  <1>8. /\ \E ch2 : TableIs(r.store, [buckets EXCEPT ![b] = r.list], numItems - 1, ch2)
        /\ Cardinality(DOMAIN r.store) = Cardinality(DOMAIN store) - 1
        /\ WithoutItem(store, ch[b][n], r.store)
    BY <1>2, <1>6, <1>7, TableRemoved
  <1>9. \E ch2 : TableIs(store', buckets', numItems', ch2)
    BY <1>1, <1>8
  <1>10. Cardinality(DOMAIN store') <= MaxItems
    <2>1. /\ Cardinality(DOMAIN store) \in Nat /\ MaxItems \in Nat
          /\ Cardinality(DOMAIN store) <= MaxItems
      <3>1. MaxItems \in 0..Cardinality(Cells) /\ Cardinality(Cells) \in Nat
        BY LibraryAssumption, FS_CardinalityType
      <3> QED BY <1>2, <3>1, StoreFinite DEF LibraryIInv
    <2> QED BY <1>1, <1>8, <2>1
  <1>11. found \in Contents(store) /\ found \in Objects
         /\ Contents(store') = Contents(store) \ {found}
    <2>1. store[ch[b][n]].item = found /\ ch[b][n] \in DOMAIN store
      BY <1>4, <1>6, <1>7, ChainFacts DEF FirstWith
    <2> QED BY <1>1, <1>2, <1>8, <2>1 DEF Contents, WithoutItem, IsStore, CellRecord
  <1> QED BY <1>1, <1>9, <1>10, <1>11, TableKept

LEMMA LibraryStep == LibraryIInv /\ [LibraryNext]_libraryVars => LibraryIInv'
  <1> SUFFICES ASSUME LibraryIInv, [LibraryNext]_libraryVars PROVE LibraryIInv'
    OBVIOUS
  <1>1. CASE UNCHANGED libraryVars
    BY <1>1 DEF LibraryIInv, libraryVars
  <1>2. ASSUME NEW x \in Objects,
               \/ /\ Cardinality(DOMAIN store) < MaxItems
                  /\ ListAdd(x) \/ SortedAdd(x) \/ HashInsert(x)
               \/ ListRemoveFront
               \/ ListRemove(x)
               \/ HashRemove(KeyOf(x))
               \/ HashFind(KeyOf(x))
        PROVE  LibraryIInv'
    <2>1. CASE Cardinality(DOMAIN store) < MaxItems /\ ListAdd(x)
      BY <2>1, ListAddIs, AddsKeeps
    <2>2. CASE Cardinality(DOMAIN store) < MaxItems /\ SortedAdd(x)
      BY <2>2, SortedAddIs, AddsKeeps
    <2>3. CASE Cardinality(DOMAIN store) < MaxItems /\ HashInsert(x)
      BY <2>3, HashInsertKeeps
    <2>4. CASE ListRemoveFront
      BY <2>4, ListRemoveFrontIs, RemovesKeeps
    <2>5. CASE ListRemove(x)
      BY <2>5, ListRemoveIs, RemovesKeeps
    <2>6. CASE HashRemove(KeyOf(x))
      BY <2>6, HashRemoveKeeps
    <2>7. CASE HashFind(KeyOf(x))
      BY <2>7 DEF HashFind, LibraryIInv
    <2> QED BY <1>2, <2>1, <2>2, <2>3, <2>4, <2>5, <2>6, <2>7
  <1> QED BY <1>1, <1>2 DEF LibraryNext

-----------------------------------------------------------------------------
(* Iteration *)

Positions == [bucket : Nat, at : Places]
Loops == [i : Positions, met : Seq(Objects)]

\* The cells before the n-th of bucket b.
Passed(ch, b, n) == {c \in Cells : \/ \E a \in 1..b - 1 : c \in On(ch[a])
                                   \/ \E j \in 1..n - 1 : c = ch[b][j]}

\* Position i is at the n-th cell of bucket b, or at the end.
IsAt(ch, i, b, n) ==
  /\ i \in Positions /\ i.bucket = b /\ b \in 1..NumBuckets + 1
  /\ b # NumBuckets + 1 => n \in 1..Len(ch[b]) /\ i.at = ch[b][n]
  /\ b = NumBuckets + 1 => n = 1

\* The items met are those of the cells v.
HasMet(v, met) ==
  /\ v \in Seq(DOMAIN store) /\ \A j, k \in 1..Len(v) : v[j] = v[k] => j = k
  /\ met \in Seq(Objects) /\ Len(met) = Len(v)
  /\ \A j \in 1..Len(v) : met[j] = store[v[j]].item

\* A loop p over an iterator after k rounds, or after all it has.
Progress(ch, p, k, v, b, n) ==
  /\ p \in Loops /\ HasMet(v, p.met) /\ IsAt(ch, p.i, b, n)
  /\ On(v) = Passed(ch, b, n)
  /\ b # NumBuckets + 1 => Len(v) = k
Stays(ch, p, k) == \E v, b, n : Progress(ch, p, k, v, b, n)

IsNextFull(ch, b, f) ==
  /\ f \in b..NumBuckets + 1 /\ \A a \in b..f - 1 : Len(ch[a]) = 0
  /\ f # NumBuckets + 1 => Len(ch[f]) # 0

LEMMA NextFull ==
    ASSUME NEW ch, buckets \in Seq(ListRecord), Linked(store, 1..NumBuckets, buckets, ch),
           NEW b \in 1..NumBuckets + 1
    PROVE  IsNextFull(ch, b, FindNextFullBucket(b))
  <1> DEFINE N == NumBuckets
             full == {k \in b..N : ~IsEmpty(buckets[k])}
             f == CHOOSE k \in full : \A j \in full : k <= j
  <1>1. N \in Nat /\ b \in Nat /\ b <= N + 1 /\ b >= 1 /\ b \in 1..N + 1
    BY LenProperties DEF NumBuckets
  <1>2. \A k \in 1..N : IsEmpty(buckets[k]) <=> Len(ch[k]) = 0
    BY DEF Linked, OnChain, IsEmpty
  <1>3. FindNextFullBucket(b) = IF full = {} THEN N + 1 ELSE f
    BY DEF FindNextFullBucket
  <1> HIDE DEF N
  <1>4. CASE full = {}
    <2>1. \A a \in b..(N + 1) - 1 : Len(ch[a]) = 0
      BY <1>1, <1>2, <1>4
    <2>2. N + 1 \in b..N + 1
      BY <1>1
    <2>3. IsNextFull(ch, b, N + 1)
      <3> HIDE DEF f, full
      <3> QED BY <2>1, <2>2 DEF IsNextFull, N
    <2> HIDE DEF full
    <2> QED BY <1>3, <1>4, <2>3
  <1>5. CASE full # {}
    <2>1. f \in full /\ \A j \in full : f <= j
      <3>1. full \subseteq Nat
        BY <1>1
      <3> HIDE DEF full
      <3> QED BY <1>5, <3>1, LeastNumber
    <2> HIDE DEF f
    <2>2. f \in b..N /\ f \in 1..N /\ Len(ch[f]) # 0
      BY <1>1, <1>2, <2>1
    <2>3. \A a \in b..f - 1 : Len(ch[a]) = 0
      <3> SUFFICES ASSUME NEW a \in b..f - 1 PROVE Len(ch[a]) = 0
        OBVIOUS
      <3>1. a \in b..N /\ a \in 1..N /\ ~(f <= a)
        BY <1>1, <2>2
      <3>2. a \notin full
        BY <2>1, <3>1
      <3> QED BY <1>2, <3>1, <3>2
    <2>4. f \in b..N + 1
      BY <1>1, <2>2
    <2> HIDE DEF full
    <2> QED BY <1>3, <1>5, <2>2, <2>3, <2>4 DEF IsNextFull, N
  <1> QED BY <1>4, <1>5

\* Where an iterator comes to that looks for a bucket from b on.
Onward(b) ==
  LET f == FindNextFullBucket(b) IN
  [bucket |-> f, at |-> IF f <= NumBuckets THEN buckets[f].first ELSE NULL]

LEMMA OnwardIs ==
    ASSUME NEW ch, buckets \in Seq(ListRecord), Linked(store, 1..NumBuckets, buckets, ch),
           NEW b \in 1..NumBuckets + 1
    PROVE  \E f : IsAt(ch, Onward(b), f, 1) /\ Passed(ch, f, 1) = Passed(ch, b, 1)
  <1> DEFINE f == FindNextFullBucket(b)
             i == Onward(b)
             N == NumBuckets
  <1>1. N \in Nat /\ b \in 1..N + 1 /\ Linked(store, 1..N, buckets, ch)
    BY LenProperties DEF NumBuckets
  <1>2. IsNextFull(ch, b, f)
    BY NextFull
  <1>3. i = [bucket |-> f, at |-> IF f <= N THEN buckets[f].first ELSE NULL]
    BY DEF Onward
  <1> HIDE DEF f, i
  <1>4. /\ f \in b..N + 1 /\ \A a \in b..f - 1 : Len(ch[a]) = 0
        /\ f # N + 1 => Len(ch[f]) # 0
    BY <1>2 DEF IsNextFull
  <1> HIDE DEF N
  <1>5. Passed(ch, f, 1) = Passed(ch, b, 1)
    <2>1. \A a \in b..f - 1 : On(ch[a]) = {}
      <3>1. 1..0 = {}
        OBVIOUS
      <3> QED BY <1>4, <3>1 DEF On
    <2>2. /\ 1..b - 1 \subseteq 1..f - 1 /\ (1..f - 1) \ (1..b - 1) \subseteq b..f - 1
          /\ 1..1 - 1 = {}
      BY <1>1, <1>4
    <2>3. ASSUME NEW c
          PROVE  (\E a \in 1..f - 1 : c \in On(ch[a])) <=> (\E a \in 1..b - 1 : c \in On(ch[a]))
      BY <2>1, <2>2
    <2> QED BY <2>2, <2>3 DEF Passed
  <1>6. f \in 1..N + 1 /\ f \in Nat
    BY <1>1, <1>4
  <1>7. CASE f = N + 1
    <2>1. i.bucket = f /\ i.at = NULL /\ i \in Positions
      <3>1. ~(f <= N) /\ NULL \in Places
        BY <1>1, <1>7 DEF Places
      <3> QED BY <1>3, <1>6, <3>1 DEF Positions
    <2>2. IsAt(ch, i, f, 1)
      BY <1>6, <1>7, <2>1 DEF IsAt, N
    <2> QED BY <1>5, <2>2 DEF i
  <1>8. CASE f # N + 1
    <2>1. f \in 1..N /\ f <= N
      BY <1>1, <1>6, <1>8
    <2>2. OnChain(store, buckets[f], ch[f]) /\ Len(ch[f]) # 0
      BY <1>1, <1>4, <1>8, <2>1 DEF Linked
    <2>3. Len(ch[f]) \in Nat /\ buckets[f].first = ch[f][1] /\ buckets[f].first \in Places
      BY <2>2, LenProperties DEF OnChain, ListRecord
    <2>4. i.bucket = f /\ i.at = ch[f][1] /\ i \in Positions
      BY <1>3, <1>6, <2>1, <2>3 DEF Positions
    <2>5. 1 \in 1..Len(ch[f])
      BY <2>2, <2>3
    <2>6. IsAt(ch, i, f, 1)
      BY <1>6, <1>8, <2>4, <2>5 DEF IsAt, N
    <2> QED BY <1>5, <2>6 DEF i
  <1> QED BY <1>7, <1>8

LEMMA IterationStarts ==
    ASSUME NEW ch, buckets \in Seq(ListRecord), Linked(store, 1..NumBuckets, buckets, ch)
    PROVE  Stays(ch, [i |-> IteratorStart, met |-> <<>>], 0)
  <1> DEFINE p == [i |-> IteratorStart, met |-> <<>>]
  <1>1. NumBuckets \in Nat /\ 1 \in 1..NumBuckets + 1
    BY LenProperties DEF NumBuckets
  <1>2. IteratorStart = Onward(1)
    BY DEF IteratorStart, Onward
  <1>3. PICK f : IsAt(ch, IteratorStart, f, 1) /\ Passed(ch, f, 1) = Passed(ch, 1, 1)
    BY <1>1, <1>2, OnwardIs
  <1>4. Passed(ch, 1, 1) = {}
    <2>1. 1..1 - 1 = {}
      OBVIOUS
    <2> QED BY <2>1 DEF Passed
  <1>5. <<>> \in Seq(DOMAIN store) /\ <<>> \in Seq(Objects) /\ Len(<<>>) = 0 /\ 1..0 = {}
    BY EmptySeq
  <1>6. On(<<>>) = {} /\ HasMet(<<>>, <<>>)
    BY <1>5 DEF On, HasMet
  <1>7. p \in Loops /\ p.i = IteratorStart /\ p.met = <<>>
    BY <1>3, <1>5 DEF Loops, IsAt
  <1> HIDE DEF p
  <1>8. Progress(ch, p, 0, <<>>, f, 1)
    BY <1>3, <1>4, <1>5, <1>6, <1>7 DEF Progress
  <1> QED BY <1>8 DEF Stays, p

\* One more cell passed.
LEMMA PassesCell ==
    ASSUME NEW ch, Linked(store, 1..NumBuckets, buckets, ch), NumBuckets \in Nat,
           NEW b \in 1..NumBuckets, NEW n \in 1..Len(ch[b])
    PROVE  /\ ch[b][n] \notin Passed(ch, b, n)
           /\ Passed(ch, b, n + 1) = Passed(ch, b, n) \cup {ch[b][n]}
           /\ n = Len(ch[b]) => Passed(ch, b + 1, 1) = Passed(ch, b, n + 1)
  <1> DEFINE N == NumBuckets
             c == ch[b][n]
  <1>1. OnChain(store, buckets[b], ch[b]) /\ ch[b] \in Seq(Cells) /\ ch[b] \in Seq(DOMAIN store)
    BY DEF Linked, OnChain
  <1>2. Len(ch[b]) \in Nat /\ c \in On(ch[b]) /\ c \in Cells
    BY <1>1, LenProperties, ElementOfSeq DEF On
  <1>3. \A a \in 1..b - 1 : a \in 1..N /\ a # b
    OBVIOUS
  <1>4. \A j \in 1..n - 1 : j \in 1..Len(ch[b]) /\ j # n
    BY <1>2
  <1>5. c \notin Passed(ch, b, n)
    <2>1. \A a \in 1..b - 1 : c \notin On(ch[a])
      BY <1>2, <1>3 DEF Linked
    <2>2. \A j \in 1..n - 1 : c # ch[b][j]
      BY <1>1, <1>4 DEF OnChain
    <2> QED BY <2>1, <2>2 DEF Passed
  <1>6. 1..n + 1 - 1 = (1..n - 1) \cup {n}
    BY <1>2
  <1>7. Passed(ch, b, n + 1) = Passed(ch, b, n) \cup {c}
    <2> HIDE DEF N
    <2> QED BY <1>2, <1>6 DEF Passed
  <1>8. ASSUME n = Len(ch[b]) PROVE Passed(ch, b + 1, 1) = Passed(ch, b, n + 1)
    <2>1. 1..b + 1 - 1 = (1..b - 1) \cup {b} /\ 1..1 - 1 = {} /\ 1..n + 1 - 1 = 1..Len(ch[b])
      BY <1>8
    <2> QED BY <2>1 DEF Passed, On
  <1> QED BY <1>5, <1>7, <1>8

LEMMA MeetsCell ==
    ASSUME NEW v, NEW met, HasMet(v, met), NEW c \in DOMAIN store, c \notin On(v), IsStore(store)
    PROVE  /\ HasMet(Append(v, c), Append(met, store[c].item))
           /\ On(Append(v, c)) = On(v) \cup {c} /\ Len(Append(v, c)) = Len(v) + 1
           /\ Append(met, store[c].item) \in Seq(Objects)
  <1> DEFINE x == store[c].item
             w == Append(v, c)
             m == Append(met, x)
  <1>1. x \in Objects
    BY DEF IsStore, CellRecord
  <1>2. v \in Seq(DOMAIN store) /\ met \in Seq(Objects) /\ Len(met) = Len(v) /\ Len(v) \in Nat
    BY LenProperties DEF HasMet
  <1> HIDE DEF x
  <1>3. w \in Seq(DOMAIN store) /\ Len(w) = Len(v) + 1 /\ w[Len(v) + 1] = c
        /\ \A j \in 1..Len(v) : w[j] = v[j]
    BY <1>2, AppendProperties
  <1>4. m \in Seq(Objects) /\ Len(m) = Len(v) + 1 /\ m[Len(v) + 1] = x
        /\ \A j \in 1..Len(v) : m[j] = met[j]
    BY <1>1, <1>2, AppendProperties
  <1> HIDE DEF w, m
  <1>5. 1..Len(v) + 1 = (1..Len(v)) \cup {Len(v) + 1}
    BY <1>2
  <1>6. \A j \in 1..Len(v) : v[j] # c
    BY DEF On
  <1>7. \A j, k \in 1..Len(w) : w[j] = w[k] => j = k
    BY <1>3, <1>5, <1>6 DEF HasMet
  <1>8. \A j \in 1..Len(w) : m[j] = store[w[j]].item
    BY <1>3, <1>4, <1>5 DEF HasMet, x
  <1>9. HasMet(w, m)
    BY <1>3, <1>4, <1>7, <1>8 DEF HasMet
  <1>10. On(w) = On(v) \cup {c}
    BY <1>3, <1>5 DEF On
  <1> QED BY <1>3, <1>4, <1>9, <1>10 DEF w, m, x

LEMMA IterateStays ==
    ASSUME NEW ch, buckets \in Seq(ListRecord), Linked(store, 1..NumBuckets, buckets, ch),
           NEW k \in Nat, NEW p, Stays(ch, p, k)
    PROVE  Stays(ch, Iterate(p), k + 1)
  <1> DEFINE N == NumBuckets
             i == p.i
             q == Iterate(p)
  <1>1. N \in Nat /\ IsStore(store)
    BY LenProperties DEF NumBuckets, Linked
  <1>2. PICK v, b, n : Progress(ch, p, k, v, b, n)
    BY DEF Stays
  <1>3. /\ p \in Loops /\ HasMet(v, p.met) /\ IsAt(ch, i, b, n) /\ On(v) = Passed(ch, b, n)
        /\ b # N + 1 => Len(v) = k
    BY <1>2 DEF Progress
  <1>4. i \in Positions /\ i.bucket = b /\ b \in 1..N + 1
    BY <1>3 DEF IsAt
  <1>5. CASE b = N + 1
    <2>1. q = p
      BY <1>4, <1>5 DEF IsDone, Iterate
    <2>2. Progress(ch, p, k + 1, v, b, n)
      BY <1>3, <1>5 DEF Progress
    <2> QED BY <2>1, <2>2 DEF Stays
  <1>6. CASE b # N + 1
    <2> DEFINE c == ch[b][n]
               met == Append(p.met, store[c].item)
               w == Append(v, c)
    <2>1. b \in 1..N /\ b + 1 \in 1..N + 1 /\ n \in 1..Len(ch[b]) /\ i.at = c /\ Len(v) = k
      BY <1>1, <1>3, <1>4, <1>6 DEF IsAt
    <2>2. /\ OnChain(store, buckets[b], ch[b]) /\ ch[b] \in Seq(DOMAIN store)
          /\ Len(ch[b]) \in Nat /\ c \in DOMAIN store
          /\ store[c].next = IF n = Len(ch[b]) THEN NULL ELSE ch[b][n + 1]
      <3>1. OnChain(store, buckets[b], ch[b])
        BY <2>1 DEF Linked
      <3> QED BY <2>1, <3>1, LenProperties, ElementOfSeq DEF OnChain
    <2>3. /\ c \notin Passed(ch, b, n) /\ Passed(ch, b, n + 1) = Passed(ch, b, n) \cup {c}
          /\ n = Len(ch[b]) => Passed(ch, b + 1, 1) = Passed(ch, b, n + 1)
      BY <1>1, <2>1, PassesCell
    <2> HIDE DEF c, N
    <2>4. HasMet(w, met) /\ On(w) = On(v) \cup {c} /\ Len(w) = k + 1 /\ met \in Seq(Objects)
      BY <1>1, <1>3, <2>1, <2>2, <2>3, MeetsCell
    <2> HIDE DEF w, met
    <2>5. q = [i |-> IteratorNext(i), met |-> met]
      BY <1>4, <1>6, <2>1 DEF IsDone, Iterate, met, N
    <2> HIDE DEF i
    <2>6. \E b2, n2 : /\ IsAt(ch, IteratorNext(i), b2, n2)
                      /\ Passed(ch, b2, n2) = Passed(ch, b, n + 1)
      <3>1. CASE n = Len(ch[b])
        <4>1. IteratorNext(i) = Onward(b + 1)
          BY <1>4, <2>1, <2>2, <3>1 DEF IteratorNext, Onward
        <4>2. PICK f : /\ IsAt(ch, Onward(b + 1), f, 1)
                       /\ Passed(ch, f, 1) = Passed(ch, b + 1, 1)
          BY <2>1, OnwardIs DEF N
        <4> QED BY <2>3, <3>1, <4>1, <4>2
      <3>2. CASE n # Len(ch[b])
        <4> DEFINE d == ch[b][n + 1]
        <4>1. n + 1 \in 1..Len(ch[b]) /\ d \in DOMAIN store
          BY <2>1, <2>2, <3>2, ElementOfSeq
        <4>2. d # NULL /\ d \in Places
          BY <1>1, <4>1, StoreFinite DEF Places, IsStore
        <4>3. store[i.at].next = d
          BY <2>1, <2>2, <3>2
        <4> HIDE DEF d
        <4>4. IteratorNext(i) = [i EXCEPT !.at = d]
          BY <4>2, <4>3 DEF IteratorNext
        <4>5. IteratorNext(i) \in Positions /\ IteratorNext(i).bucket = b /\ IteratorNext(i).at = d
          BY <1>4, <4>2, <4>4 DEF Positions
        <4>6. IsAt(ch, IteratorNext(i), b, n + 1)
          BY <1>4, <1>6, <4>1, <4>5 DEF IsAt, N, d
        <4> QED BY <4>6
      <3> QED BY <3>1, <3>2
    <2>7. PICK b2, n2 : /\ IsAt(ch, IteratorNext(i), b2, n2)
                        /\ Passed(ch, b2, n2) = Passed(ch, b, n + 1)
      BY <2>6
    <2>8. q \in Loops /\ q.i = IteratorNext(i) /\ q.met = met
      BY <2>4, <2>5, <2>7 DEF Loops, IsAt
    <2> HIDE DEF q
    <2>9. Progress(ch, q, k + 1, w, b2, n2)
      BY <1>3, <2>3, <2>4, <2>7, <2>8 DEF Progress, i
    <2> QED BY <2>9 DEF Stays, q
  <1> QED BY <1>5, <1>6

\* At the end all cells have been passed.
LEMMA IterationEnds ==
    ASSUME NEW ch, buckets \in Seq(ListRecord), Linked(store, 1..NumBuckets, buckets, ch),
           NEW p, Stays(ch, p, Cardinality(DOMAIN store) + 1)
    PROVE  \E v : HasMet(v, p.met) /\ On(v) = DOMAIN store
  <1> DEFINE N == NumBuckets
  <1>1. N \in Nat /\ IsStore(store)
    BY LenProperties DEF NumBuckets, Linked
  <1>2. PICK v, b, n : Progress(ch, p, Cardinality(DOMAIN store) + 1, v, b, n)
    BY DEF Stays
  <1>3. /\ HasMet(v, p.met) /\ IsAt(ch, p.i, b, n) /\ On(v) = Passed(ch, b, n)
        /\ b # N + 1 => Len(v) = Cardinality(DOMAIN store) + 1
    BY <1>2 DEF Progress
  <1>4. b = N + 1
    <2>1. IsFiniteSet(DOMAIN store) /\ Cardinality(DOMAIN store) \in Nat
      BY <1>1, StoreFinite
    <2>2. Len(v) \in Nat /\ Len(v) <= Cardinality(DOMAIN store)
      BY <1>3, <2>1, ChainFits DEF HasMet
    <2> HIDE DEF N
    <2> QED BY <1>3, <2>1, <2>2
  <1>5. n = 1
    BY <1>3, <1>4 DEF IsAt
  <1>6. Passed(ch, N + 1, 1) = DOMAIN store
    <2>1. 1..N + 1 - 1 = 1..N /\ 1..1 - 1 = {} /\ DOMAIN store \subseteq Cells
      BY <1>1 DEF IsStore
    <2>2. \A a \in 1..N : On(ch[a]) \subseteq DOMAIN store
      BY ChainFacts DEF Linked
    <2>3. \A c \in DOMAIN store : \E a \in 1..N : c \in On(ch[a])
      BY DEF Linked
    <2> HIDE DEF N
    <2>4. Passed(ch, N + 1, 1) = {c \in Cells : \E a \in 1..N : c \in On(ch[a])}
      <3> DEFINE b2 == N + 1
      <3>2. b2 - 1 = N /\ 1..1 - 1 = {}
        BY <1>1
      <3> HIDE DEF b2
      <3>3. Passed(ch, b2, 1) = {c \in Cells : \E a \in 1..N : c \in On(ch[a])}
        BY <3>2 DEF Passed
      <3> QED BY <3>3 DEF b2
    <2>5. ASSUME NEW c \in Cells PROVE (\E a \in 1..N : c \in On(ch[a])) <=> c \in DOMAIN store
      BY <2>2, <2>3
    <2> QED BY <2>1, <2>4, <2>5
  <1> QED BY <1>3, <1>4, <1>5, <1>6

\* A loop over an iterator has met each item once.
LEMMA IterationIs ==
    ASSUME NEW ch, buckets \in Seq(ListRecord), Linked(store, 1..NumBuckets, buckets, ch)
    PROVE  \E v : HasMet(v, Iteration) /\ On(v) = DOMAIN store
  <1> DEFINE N == Cardinality(DOMAIN store) + 1
             start == [i |-> IteratorStart, met |-> <<>>]
             step == [p \in Loops |-> IF Iterate(p) \in Loops THEN Iterate(p) ELSE start]
             Is(f) == f = [k \in 0..N |-> IF k = 0 THEN start ELSE Iterate(f[k - 1])]
             run == CHOOSE f : Is(f)
             Stages == [k \in 0..N |-> {p \in Loops : Stays(ch, p, k)}]
  <1>1. N \in Nat
    BY StoreFinite DEF Linked
  <1>2. \A k, p : Stays(ch, p, k) => p \in Loops
    BY DEF Stays, Progress
  <1>3. Stays(ch, start, 0) /\ start \in Loops
    <2>1. Stays(ch, start, 0)
      BY IterationStarts
    <2> HIDE DEF start
    <2> QED BY <1>2, <2>1
  <1> HIDE DEF start
  <1>4. ASSUME NEW k \in 1..N, NEW p \in Loops, Stays(ch, p, k - 1)
        PROVE  Iterate(p) \in Loops /\ Stays(ch, Iterate(p), k)
    <2>1. k - 1 \in Nat /\ k - 1 + 1 = k
      BY <1>1
    <2>2. Stays(ch, Iterate(p), k - 1 + 1)
      BY <1>4, <2>1, IterateStays
    <2> QED BY <1>2, <2>1, <2>2
  <1> HIDE DEF N
  <1>5. step \in [Loops -> Loops] /\ start \in Stages[0]
    BY <1>1, <1>3
  <1>6. \A k \in 1..N : \A p \in Stages[k - 1] : step[p] \in Stages[k] /\ step[p] = Iterate(p)
    <2> SUFFICES ASSUME NEW k \in 1..N, NEW p \in Stages[k - 1]
                 PROVE  step[p] \in Stages[k] /\ step[p] = Iterate(p)
      OBVIOUS
    <2>1. k \in 0..N /\ k - 1 \in 0..N
      BY <1>1
    <2>2. p \in Loops /\ Stays(ch, p, k - 1)
      BY <2>1
    <2>3. Iterate(p) \in Loops /\ Stays(ch, Iterate(p), k)
      BY <1>4, <2>2
    <2> QED BY <2>1, <2>2, <2>3
  <1> HIDE DEF step
  <1>7. \E f : Is(f)
    <2>1. PICK f \in [0..N -> Loops] : LoopOf(f, start, step, N)
      BY <1>1, <1>3, <1>5, LoopExists
    <2>2. \A k \in 0..N : f[k] \in Stages[k]
      <3> HIDE DEF Stages
      <3> QED BY <1>1, <1>5, <1>6, <2>1, LoopStays
    <2>3. ASSUME NEW k \in 0..N
          PROVE  f[k] = IF k = 0 THEN start ELSE Iterate(f[k - 1])
      <3>1. CASE k = 0
        BY <2>1, <3>1 DEF LoopOf
      <3>2. CASE k # 0
        <4>1. k \in 1..N /\ k - 1 \in 0..N
          BY <1>1, <3>2
        <4>2. f[k] = step[f[k - 1]] /\ f[k - 1] \in Stages[k - 1]
          BY <2>1, <2>2, <4>1 DEF LoopOf
        <4> HIDE DEF Stages
        <4> QED BY <1>6, <3>2, <4>1, <4>2
      <3> QED BY <3>1, <3>2
    <2>4. Is(f)
      BY <2>1, <2>3
    <2> QED BY <2>4
  <1>8. Is(run)
    BY <1>7
  <1>9. Iteration = run[N].met
    BY DEF Iteration, start, N
  <1> HIDE DEF run
  <1> DEFINE Good == {k \in 0..N : run[k] \in Loops /\ Stays(ch, run[k], k)}
  <1>10. 0 \in Good
    BY <1>1, <1>3, <1>8
  <1>11. ASSUME NEW k \in 1..N, k - 1 \in Good PROVE k \in Good
    <2>1. run[k] = Iterate(run[k - 1]) /\ k \in 0..N
      BY <1>1, <1>8
    <2> QED BY <1>4, <1>11, <2>1
  <1> HIDE DEF Good
  <1>12. \A k \in 0..N : k \in Good
    BY <1>1, <1>10, <1>11, Induction
  <1>13. Stays(ch, run[N], N)
    BY <1>1, <1>12 DEF Good
  <1> QED BY <1>9, <1>13, IterationEnds DEF N

LEMMA IterationCompletes ==
    ASSUME NEW ch, buckets \in Seq(ListRecord), Linked(store, 1..NumBuckets, buckets, ch),
           ItemsDiffer(store)
    PROVE  IterationIsComplete
  <1> DEFINE met == Iteration
  <1>1. PICK v : HasMet(v, met) /\ On(v) = DOMAIN store
    BY IterationIs
  <1>2. /\ v \in Seq(DOMAIN store) /\ DOMAIN met = 1..Len(v)
        /\ \A j, k \in 1..Len(v) : v[j] = v[k] => j = k
        /\ \A j \in 1..Len(v) : met[j] = store[v[j]].item /\ v[j] \in DOMAIN store
    BY <1>1, LenProperties, ElementOfSeq DEF HasMet
  <1> HIDE DEF met
  <1>3. IsInjective(met)
    BY <1>2 DEF IsInjective, ItemsDiffer
  <1>4. ToSet(met) = {store[c].item : c \in DOMAIN store}
    <2>1. ToSet(met) = {store[v[j]].item : j \in 1..Len(v)}
      BY <1>2 DEF ToSet
    <2>2. DOMAIN store = {v[j] : j \in 1..Len(v)}
      BY <1>1 DEF On
    <2> QED BY <2>1, <2>2
  <1> QED BY <1>3, <1>4 DEF IterationIsComplete, met

-----------------------------------------------------------------------------
(* The properties *)

LEMMA ChainSane ==
    ASSUME NEW h, IsStore(h), NEW l, NEW s, OnChain(h, l, s)
    PROVE  Sane(h, l) /\ ToSet(CellsOf(h, l)) = On(s)
  <1>1. /\ CellsOf(h, l) = s /\ Len(s) \in Nat /\ DOMAIN s = 1..Len(s) /\ Len(s) = l.numInList
        /\ \A k \in 1..Len(s) : s[k] \in DOMAIN h /\ s[k] # NULL
    BY CellsAre, StoreFinite, LenProperties, ElementOfSeq DEF OnChain
  <1>2. ToSet(CellsOf(h, l)) = On(s)
    BY <1>1 DEF ToSet, On
  <1>3. CASE Len(s) = 0
    BY <1>1, <1>2, <1>3 DEF OnChain, Sane
  <1>4. CASE Len(s) # 0
    <2>1. 1 \in 1..Len(s) /\ Len(s) \in 1..Len(s)
      BY <1>1, <1>4
    <2>2. /\ l.first = s[1] /\ l.last = s[Len(s)] /\ h[s[Len(s)]].next = NULL
          /\ s[1] # NULL
      BY <1>1, <1>4, <2>1 DEF OnChain
    <2> QED BY <1>1, <1>2, <2>2 DEF Sane
  <1> QED BY <1>1, <1>3, <1>4

\* What Linked says of all lists together.
LEMMA LinkedSane ==
    ASSUME NEW ch, buckets \in Seq(ListRecord), Linked(store, 1..NumBuckets, buckets, ch)
    PROVE  /\ NumBuckets \in Nat
           /\ \A b \in 1..NumBuckets : /\ Sane(store, buckets[b]) /\ Stored(b) = On(ch[b])
                                       /\ \A c \in 1..b - 1 : Stored(b) \cap Stored(c) = {}
           /\ UNION {Stored(b) : b \in 1..NumBuckets} = DOMAIN store
  <1>1. NumBuckets \in Nat /\ IsStore(store)
    BY LenProperties DEF NumBuckets, Linked
  <1>2. \A b \in 1..NumBuckets : /\ Sane(store, buckets[b]) /\ Stored(b) = On(ch[b])
                                 /\ On(ch[b]) \subseteq DOMAIN store
    BY <1>1, ChainSane, ChainFacts DEF Linked, Stored
  <1>3. \A b \in 1..NumBuckets : \A c \in 1..b - 1 : Stored(b) \cap Stored(c) = {}
    <2>1. \A b \in 1..NumBuckets : \A c \in 1..b - 1 : c \in 1..NumBuckets /\ c # b
      BY <1>1
    <2> QED BY <1>2, <2>1 DEF Linked
  <1>4. UNION {Stored(b) : b \in 1..NumBuckets} = DOMAIN store
    <2>1. \A c \in DOMAIN store : \E b \in 1..NumBuckets : c \in On(ch[b])
      BY DEF Linked
    <2>2. \A c \in DOMAIN store : \E b \in 1..NumBuckets : c \in Stored(b)
      BY <1>2, <2>1
    <2>3. \A b \in 1..NumBuckets : Stored(b) \subseteq DOMAIN store
      BY <1>2
    <2> QED BY <2>2, <2>3
  <1> QED BY <1>1, <1>2, <1>3, <1>4

LEMMA LibraryHolds == LibraryIInv => LibraryInv
  <1> SUFFICES ASSUME LibraryIInv PROVE LibraryInv
    OBVIOUS
  <1>1. CASE kind # "HashTable"
    <2>1. PICK ch : ListIs(kind = "SortedList", store, buckets, ch)
      BY <1>1 DEF LibraryIInv
    <2>2. /\ buckets \in Seq(ListRecord) /\ NumBuckets = 1
          /\ Linked(store, 1..NumBuckets, buckets, ch) /\ ItemsDiffer(store)
      BY <2>1 DEF ListIs, NumBuckets
    <2>3. \A b \in 1..NumBuckets : kind = "SortedList" => Sorted(store, buckets[b])
      <3>1. CellsOf(store, buckets[1]) = ch[1] /\ DOMAIN ch[1] = 1..Len(ch[1])
        BY <2>1, OneList, LenProperties DEF OnChain
      <3> DEFINE items == [n \in 1..Len(ch[1]) |-> store[ch[1][n]].item]
      <3>2. ItemsOf(store, buckets[1]) = items
        BY <3>1 DEF ItemsOf
      <3>3. Len(ch[1]) \in Nat
        BY <2>1, OneList
      <3>4. Len(items) = Len(ch[1])
        BY <3>3
      <3>5. ASSUME kind = "SortedList" PROVE Sorted(store, buckets[1])
        <4>1. \A n \in 2..Len(ch[1]) :
                Compare(store[ch[1][n - 1]].item, store[ch[1][n]].item) <= 0
          BY <2>1, <3>5 DEF ListIs, Ascending
        <4>2. \A n \in 2..Len(ch[1]) : n \in 1..Len(ch[1]) /\ n - 1 \in 1..Len(ch[1])
          BY <3>3
        <4>3. \A n \in 2..Len(ch[1]) : Compare(items[n - 1], items[n]) <= 0
          BY <4>1, <4>2
        <4> HIDE DEF items
        <4> QED BY <3>2, <3>4, <4>3 DEF Sorted
      <3>6. \A b \in 1..NumBuckets : b = 1
        BY <2>2
      <3> QED BY <3>5, <3>6
    <2>4. IterationIsComplete
      BY <2>2, IterationCompletes
    <2> QED BY <1>1, <2>2, <2>3, <2>4, LinkedSane DEF LibraryInv
  <1>2. CASE kind = "HashTable"
    <2>1. PICK ch : TableIs(store, buckets, numItems, ch)
      BY <1>2 DEF LibraryIInv
    <2>2. /\ buckets \in Seq(ListRecord) /\ Linked(store, 1..NumBuckets, buckets, ch)
          /\ KeysDiffer(store) /\ Hashed(store, NumBuckets, ch)
          /\ numItems = Cardinality(DOMAIN store)
      BY <2>1 DEF TableIs, NumBuckets
    <2>3. ItemsDiffer(store)
      BY <2>2 DEF KeysDiffer, ItemsDiffer
    <2>4. ASSUME NEW b \in 1..NumBuckets, NEW x \in ToSet(ItemsOf(store, buckets[b]))
          PROVE  HashValue(KeyOf(x), NumBuckets) = b
      <3>1. OnChain(store, buckets[b], ch[b]) /\ IsStore(store)
        BY <2>2 DEF Linked
      <3>2. CellsOf(store, buckets[b]) = ch[b] /\ DOMAIN ch[b] = 1..Len(ch[b])
        BY <3>1, CellsAre, LenProperties DEF OnChain
      <3>3. PICK n \in 1..Len(ch[b]) : x = store[ch[b][n]].item
        BY <3>2 DEF ItemsOf, ToSet
      <3>4. ch[b][n] \in On(ch[b])
        BY DEF On
      <3> QED BY <2>2, <3>3, <3>4 DEF Hashed
    <2>5. IterationIsComplete
      BY <2>2, <2>3, IterationCompletes
    <2> QED BY <1>2, <2>2, <2>4, <2>5, LinkedSane DEF LibraryInv
  <1> QED BY <1>1, <1>2

\* However lists and tables are used, their items lie on chains of cells: each list has
\* a chain of its own, the chains hold all cells, those of a sorted list in ascending order and
\* those of a table's bucket with its hash value, and numItems counts them: through every
\* Append, Prepend, Insert, Remove and ReHash of lib/list.cc and lib/hash.cc.
THEOREM LibraryInvariant == LibrarySpec => []LibraryIInv
  <1> QED BY LibraryStarts, LibraryStep, PTL DEF LibrarySpec

\* The assertions of List, SortedList and HashTable::SanityCheck hold after any calls, no cell
\* is on two lists, lost, or deleted while linked, and a loop over an iterator meets every
\* item once.
THEOREM LibraryCorrect == LibrarySpec => []LibraryInv
  <1> QED BY LibraryInvariant, LibraryHolds, PTL

-----------------------------------------------------------------------------
(* The promise *)

LEMMA InsertedAtEnds ==
    ASSUME NEW S, NEW s \in Seq(S), NEW x \in S
    PROVE  InsertAt(s, Len(s) + 1, x) = Append(s, x) /\ InsertAt(s, 0 + 1, x) = <<x>> \o s
  <1>1. Len(s) \in Nat /\ <<x>> \in Seq(S) /\ Len(<<x>>) = 1 /\ <<x>>[1] = x
    BY LenProperties
  <1>2. ASSUME NEW n \in {0, Len(s)} PROVE IsInserted(S, s, n, x, InsertAt(s, n + 1, x))
    BY <1>1, InsertAtIs
  <1>3. InsertAt(s, Len(s) + 1, x) = Append(s, x)
    <2> DEFINE t == InsertAt(s, Len(s) + 1, x)
               u == Append(s, x)
    <2>1. /\ t \in Seq(S) /\ Len(t) = Len(s) + 1
          /\ \A k \in 1..Len(s) + 1 : t[k] = IF k <= Len(s) THEN s[k] ELSE x
      <3>1. IsInserted(S, s, Len(s), x, t)
        BY <1>2
      <3>2. \A k \in 1..Len(s) + 1 : ~(k <= Len(s)) => k = Len(s) + 1
        BY <1>1
      <3> HIDE DEF t
      <3> QED BY <3>1, <3>2 DEF IsInserted
    <2>2. /\ u \in Seq(S) /\ Len(u) = Len(s) + 1 /\ u[Len(s) + 1] = x
          /\ \A k \in 1..Len(s) : u[k] = s[k]
      BY AppendProperties
    <2> HIDE DEF t, u
    <2>3. \A k \in 1..Len(s) + 1 : t[k] = u[k]
      <3>1. \A k \in 1..Len(s) + 1 : k \in 1..Len(s) \/ k = Len(s) + 1
        BY <1>1
      <3>2. \A k \in 1..Len(s) : k <= Len(s) /\ k \in 1..Len(s) + 1
        BY <1>1
      <3>3. ~(Len(s) + 1 <= Len(s)) /\ Len(s) + 1 \in 1..Len(s) + 1
        BY <1>1
      <3>4. \A k \in 1..Len(s) : t[k] = s[k]
        BY <2>1, <3>2
      <3>5. t[Len(s) + 1] = x
        BY <2>1, <3>3
      <3>6. ASSUME NEW k \in 1..Len(s) + 1 PROVE t[k] = u[k]
        <4>1. CASE k \in 1..Len(s)
          <5>1. t[k] = s[k] /\ u[k] = s[k]
            BY <2>2, <3>4, <4>1
          <5> QED BY <5>1
        <4>2. CASE k = Len(s) + 1
          BY <2>2, <3>5, <4>2
        <4> QED BY <3>1, <4>1, <4>2
      <3> QED BY <3>6
    <2>4. t = u
      BY <2>1, <2>2, <2>3, SeqEqual
    <2> QED BY <2>4 DEF t, u
  <1>4. InsertAt(s, 0 + 1, x) = <<x>> \o s
    <2> DEFINE t == InsertAt(s, 0 + 1, x)
               u == <<x>> \o s
    <2>1. /\ t \in Seq(S) /\ Len(t) = Len(s) + 1
          /\ \A k \in 1..Len(s) + 1 : t[k] = IF k = 1 THEN x ELSE s[k - 1]
      <3>1. IsInserted(S, s, 0, x, t)
        BY <1>2
      <3>2. \A k \in 1..Len(s) + 1 : ~(k <= 0) /\ 0 + 1 = 1
        BY <1>1
      <3> HIDE DEF t
      <3> QED BY <3>1, <3>2 DEF IsInserted
    <2>2. u \in Seq(S) /\ Len(u) = 1 + Len(s)
          /\ \A k \in 1..1 + Len(s) : u[k] = IF k <= 1 THEN <<x>>[k] ELSE s[k - 1]
      <3> DEFINE a == <<x>>
      <3> HIDE DEF a
      <3>1. a \in Seq(S) /\ Len(a) = 1
        BY <1>1 DEF a
      <3>2. /\ a \o s \in Seq(S) /\ Len(a \o s) = Len(a) + Len(s)
            /\ \A k \in 1..Len(a) + Len(s) :
                 (a \o s)[k] = IF k <= Len(a) THEN a[k] ELSE s[k - Len(a)]
        BY <3>1, ConcatProperties
      <3> QED BY <3>1, <3>2 DEF a
    <2> HIDE DEF t, u
    <2>3. Len(t) = Len(u) /\ \A k \in 1..Len(t) : t[k] = u[k]
      <3>1. 1 + Len(s) = Len(s) + 1 /\ \A k \in 1..Len(s) + 1 : k <= 1 <=> k = 1
        BY <1>1
      <3> QED BY <1>1, <2>1, <2>2, <3>1
    <2>4. t = u
      BY <2>1, <2>2, <2>3, SeqEqual
    <2> QED BY <2>4 DEF t, u
  <1> QED BY <1>3, <1>4

LEMMA RemovedAtFront ==
    ASSUME NEW S, NEW s \in Seq(S), s # <<>>
    PROVE  RemoveAt(s, 1) = Tail(s) /\ Head(s) = s[1]
  <1> DEFINE t == RemoveAt(s, 1)
             u == Tail(s)
  <1>1. Len(s) \in Nat /\ Len(s) # 0 /\ 1 \in 1..Len(s)
    <2>1. Len(s) \in Nat /\ Len(s) # 0
      BY LenProperties, EmptySeq
    <2> QED BY <2>1
  <1>2. IsRemoved(S, s, 1, t)
    BY <1>1, RemoveAtIs
  <1>3. u \in Seq(S) /\ Len(u) = Len(s) - 1 /\ \A k \in 1..Len(s) - 1 : u[k] = s[k + 1]
    BY HeadTailProperties
  <1> HIDE DEF t, u
  <1>4. t \in Seq(S) /\ Len(t) = Len(s) - 1 /\ \A k \in 1..Len(s) - 1 : t[k] = s[k + 1]
    BY <1>1, <1>2 DEF IsRemoved
  <1>5. t = u
    BY <1>3, <1>4, SeqEqual
  <1> QED BY <1>5 DEF t, u

\* The items of a chain.
ItemsIn(h, s) == [k \in 1..Len(s) |-> h[s[k]].item]
Sequence == ItemsOf(store, buckets[1])

LEMMA ItemsAre ==
    ASSUME NEW h, IsStore(h), NEW s \in Seq(DOMAIN h)
    PROVE  /\ ItemsIn(h, s) \in Seq(Objects) /\ Len(ItemsIn(h, s)) = Len(s) /\ Len(s) \in Nat
           /\ DOMAIN ItemsIn(h, s) = 1..Len(s)
           /\ \A k \in 1..Len(s) : ItemsIn(h, s)[k] = h[s[k]].item /\ h[s[k]].item \in Objects
  <1> DEFINE t == ItemsIn(h, s)
  <1>1. Len(s) \in Nat /\ \A k \in 1..Len(s) : s[k] \in DOMAIN h
    BY LenProperties, ElementOfSeq
  <1>2. \A k \in 1..Len(s) : h[s[k]].item \in Objects
    BY <1>1 DEF IsStore, CellRecord
  <1>3. /\ t \in [1..Len(s) -> Objects] /\ DOMAIN t = 1..Len(s)
        /\ \A k \in 1..Len(s) : t[k] = h[s[k]].item
    BY <1>2 DEF ItemsIn
  <1> HIDE DEF t
  <1>4. t \in Seq(Objects)
    BY <1>1, <1>3, SeqDef
  <1>5. Len(t) = Len(s)
    BY <1>1, <1>3, <1>4, LenProperties
  <1> QED BY <1>1, <1>2, <1>3, <1>4, <1>5 DEF t

LEMMA ItemsOfIs ==
    ASSUME NEW h, IsStore(h), NEW l, NEW s, OnChain(h, l, s)
    PROVE  ItemsOf(h, l) = ItemsIn(h, s) /\ s \in Seq(DOMAIN h)
  <1>1. CellsOf(h, l) = s /\ DOMAIN s = 1..Len(s) /\ s \in Seq(DOMAIN h)
    BY CellsAre, LenProperties DEF OnChain
  <1> QED BY <1>1 DEF ItemsOf, ItemsIn

LEMMA ItemsInserted ==
    ASSUME NEW h, IsStore(h), NEW h2, IsStore(h2), NEW s \in Seq(DOMAIN h), NEW n \in 0..Len(s),
           NEW e \in DOMAIN h2, NEW x \in Objects, h2[e].item = x,
           \A k \in 1..Len(s) : s[k] \in DOMAIN h2 /\ h2[s[k]].item = h[s[k]].item
    PROVE  ItemsIn(h2, InsertAt(s, n + 1, e)) = InsertAt(ItemsIn(h, s), n + 1, x)
  <1> DEFINE t == InsertAt(s, n + 1, e)
             a == ItemsIn(h, s)
             b == ItemsIn(h2, t)
             u == InsertAt(a, n + 1, x)
  <1>1. a \in Seq(Objects) /\ Len(a) = Len(s) /\ Len(s) \in Nat
        /\ \A k \in 1..Len(s) : a[k] = h[s[k]].item
    BY ItemsAre
  <1>2. s \in Seq(DOMAIN h2)
    <2>1. s \in [1..Len(s) -> DOMAIN h2]
      BY LenProperties
    <2> QED BY <1>1, <2>1, SeqDef
  <1>3. IsInserted(DOMAIN h2, s, n, e, t)
    BY <1>2, InsertAtIs
  <1> HIDE DEF a
  <1>4. IsInserted(Objects, a, n, x, u)
    BY <1>1, InsertAtIs
  <1> HIDE DEF t, u
  <1>5. /\ b \in Seq(Objects) /\ Len(b) = Len(s) + 1
        /\ \A k \in 1..Len(s) + 1 : b[k] = h2[t[k]].item
    BY <1>3, ItemsAre DEF IsInserted
  <1> HIDE DEF b
  <1>6. u \in Seq(Objects) /\ Len(u) = Len(s) + 1
    BY <1>1, <1>4 DEF IsInserted
  <1>7. ASSUME NEW k \in 1..Len(s) + 1 PROVE b[k] = u[k]
    <2>1. /\ t[k] = IF k <= n THEN s[k] ELSE IF k = n + 1 THEN e ELSE s[k - 1]
          /\ u[k] = IF k <= n THEN a[k] ELSE IF k = n + 1 THEN x ELSE a[k - 1]
      BY <1>1, <1>3, <1>4 DEF IsInserted
    <2>2. (k <= n => k \in 1..Len(s)) /\ (~(k <= n) /\ k # n + 1 => k - 1 \in 1..Len(s))
      BY <1>1
    <2> QED BY <1>1, <1>5, <2>1, <2>2
  <1>8. b = u
    BY <1>5, <1>6, <1>7, SeqEqual
  <1> QED BY <1>8 DEF b, u, t, a

LEMMA ItemsRemoved ==
    ASSUME NEW h, IsStore(h), NEW h2, IsStore(h2), NEW s \in Seq(DOMAIN h), NEW n \in 1..Len(s),
           \A k \in 1..Len(s) : k # n => s[k] \in DOMAIN h2 /\ h2[s[k]].item = h[s[k]].item,
           RemoveAt(s, n) \in Seq(DOMAIN h2)
    PROVE  ItemsIn(h2, RemoveAt(s, n)) = RemoveAt(ItemsIn(h, s), n)
  <1> DEFINE t == RemoveAt(s, n)
             a == ItemsIn(h, s)
             b == ItemsIn(h2, t)
             u == RemoveAt(a, n)
  <1>1. a \in Seq(Objects) /\ Len(a) = Len(s) /\ Len(s) \in Nat
        /\ \A k \in 1..Len(s) : a[k] = h[s[k]].item
    BY ItemsAre
  <1>3. IsRemoved(DOMAIN h, s, n, t)
    BY RemoveAtIs
  <1> HIDE DEF a
  <1>4. IsRemoved(Objects, a, n, u)
    BY <1>1, RemoveAtIs
  <1>9. t \in Seq(DOMAIN h2)
    OBVIOUS
  <1> HIDE DEF t, u
  <1>5. /\ b \in Seq(Objects) /\ Len(b) = Len(s) - 1
        /\ \A k \in 1..Len(s) - 1 : b[k] = h2[t[k]].item
    BY <1>3, <1>9, ItemsAre DEF IsRemoved
  <1> HIDE DEF b
  <1>6. u \in Seq(Objects) /\ Len(u) = Len(s) - 1
    BY <1>1, <1>4 DEF IsRemoved
  <1>7. ASSUME NEW k \in 1..Len(s) - 1 PROVE b[k] = u[k]
    <2>1. /\ t[k] = IF k < n THEN s[k] ELSE s[k + 1]
          /\ u[k] = IF k < n THEN a[k] ELSE a[k + 1]
      BY <1>1, <1>3, <1>4 DEF IsRemoved
    <2>2. (k < n => k \in 1..Len(s) /\ k # n) /\ (~(k < n) => k + 1 \in 1..Len(s) /\ k + 1 # n)
      BY <1>1
    <2> QED BY <1>1, <1>5, <2>1, <2>2
  <1>8. b = u
    BY <1>5, <1>6, <1>7, SeqEqual
  <1> QED BY <1>8 DEF b, u, t, a

\* Bigger items follow the first bigger one.
LEMMA BiggerFollow ==
    ASSUME NEW h, IsStore(h), NEW s \in Seq(DOMAIN h), Ascending(h, s), NEW x \in Objects,
           NEW n \in 0..Len(s), Belongs(h, s, x, n)
    PROVE  \A j \in n + 1..Len(s) : Compare(x, h[s[j]].item) < 0
  <1> DEFINE Good == {j \in 0..Len(s) : j <= n \/ Compare(x, h[s[j]].item) < 0}
  <1>1. Len(s) \in Nat /\ \A k \in 1..Len(s) : h[s[k]].item \in Objects
    BY ItemsAre
  <1>2. 0 \in Good
    BY <1>1
  <1>3. ASSUME NEW j \in 1..Len(s), j - 1 \in Good PROVE j \in Good
    <2>0. j \in 0..Len(s) /\ n \in Nat
      BY <1>1
    <2>1. CASE j <= n
      BY <2>0, <2>1
    <2>2. CASE j = n + 1
      <3>1. n < Len(s)
        BY <1>1, <2>2
      <3>2. Compare(x, h[s[n + 1]].item) < 0
        BY <3>1 DEF Belongs
      <3> QED BY <2>0, <2>2, <3>2
    <2>3. CASE ~(j <= n) /\ j # n + 1
      <3> DEFINE y == h[s[j - 1]].item
                 z == h[s[j]].item
      <3>1. ~(j - 1 <= n) /\ j \in 2..Len(s) /\ j - 1 \in 1..Len(s)
        BY <2>0, <2>3
      <3>2. Compare(x, y) < 0 /\ Compare(y, z) <= 0 /\ y \in Objects /\ z \in Objects
        BY <1>1, <1>3, <3>1 DEF Ascending
      <3> HIDE DEF y, z
      <3>3. /\ Compare(x, z) \in Int /\ Compare(x, y) \in Int /\ Compare(y, x) \in Int
            /\ Compare(x, y) < 0 <=> Compare(y, x) > 0
        BY <3>2, LibraryAssumption
      <3>4. CASE Compare(x, z) < 0
        BY <2>0, <3>4 DEF z
      <3>5. CASE ~(Compare(x, z) < 0)
        <4>1. Compare(z, x) <= 0
          BY <3>2, <3>5, CompareIs
        <4>2. Compare(y, x) <= 0
          BY <3>2, <4>1, CompareIs
        <4> QED BY <3>2, <3>3, <4>2
      <3> QED BY <3>4, <3>5
    <2> QED BY <2>1, <2>2, <2>3
  <1> HIDE DEF Good
  <1>4. \A j \in 0..Len(s) : j \in Good
    BY <1>1, <1>2, <1>3, Induction
  <1>5. \A j \in n + 1..Len(s) : j \in 0..Len(s) /\ ~(j <= n)
    BY <1>1
  <1> QED BY <1>4, <1>5 DEF Good

LEMMA SequenceAdded ==
    ASSUME NEW ch, NEW n, NEW x \in Objects, AddsTo(ch, x, n)
    PROVE  /\ IsStore(store) /\ ch[1] \in Seq(DOMAIN store) /\ n \in 0..Len(ch[1])
           /\ Sequence = ItemsIn(store, ch[1]) /\ Sequence' = InsertAt(Sequence, n + 1, x)
           /\ kind' = kind
  <1> DEFINE sorted == kind = "SortedList"
             s == ch[1]
  <1>1. ListIs(sorted, store, buckets, ch) /\ n \in 0..Len(s)
    BY DEF AddsTo
  <1> HIDE DEF sorted
  <1>2. IsStore(store) /\ OnChain(store, buckets[1], s) /\ On(s) = DOMAIN store
    BY <1>1, OneList
  <1>3. Sequence = ItemsIn(store, s) /\ s \in Seq(DOMAIN store)
    BY <1>2, ItemsOfIs DEF Sequence
  <1>4. PICK r : Adds(store, s, x, n, r) /\ Leaves(r.store, r.list)
    BY DEF AddsTo
  <1> HIDE DEF s
  <1>5. PICK e \in Cells :
          /\ e \notin DOMAIN store /\ r.store[e].item = x
          /\ OnChain(r.store, r.list, InsertAt(s, n + 1, e))
          /\ Edited(store, s, r.store, InsertAt(s, n + 1, e))
          /\ On(InsertAt(s, n + 1, e)) = On(s) \cup {e}
    BY <1>4 DEF Adds
  <1> DEFINE h2 == r.store
             t == InsertAt(s, n + 1, e)
  <1>6. /\ store' = h2 /\ buckets'[1] = r.list /\ kind' = kind
        /\ h2[e].item = x /\ OnChain(h2, r.list, t) /\ Edited(store, s, h2, t)
        /\ On(t) = DOMAIN store \cup {e}
    BY <1>2, <1>4, <1>5 DEF Leaves
  <1> HIDE DEF h2, t
  <1>7. /\ IsStore(h2) /\ e \in DOMAIN h2
        /\ \A c \in DOMAIN store : c \in DOMAIN h2 /\ h2[c].item = store[c].item
    BY <1>2, <1>6 DEF Edited
  <1>8. \A k \in 1..Len(s) : s[k] \in DOMAIN h2 /\ h2[s[k]].item = store[s[k]].item
    BY <1>2, <1>7, ChainFacts
  <1>9. ItemsIn(h2, t) = InsertAt(ItemsIn(store, s), n + 1, x)
    BY <1>1, <1>2, <1>3, <1>6, <1>7, <1>8, ItemsInserted DEF t
  <1>10. Sequence' = ItemsIn(h2, t)
    <2>1. ItemsOf(h2, r.list) = ItemsIn(h2, t)
      BY <1>6, <1>7, ItemsOfIs
    <2> QED BY <1>6, <2>1 DEF Sequence
  <1> QED BY <1>1, <1>2, <1>3, <1>6, <1>9, <1>10 DEF s

LEMMA SequenceRemoved ==
    ASSUME NEW ch, NEW n, RemovesFrom(ch, n)
    PROVE  /\ IsStore(store) /\ ch[1] \in Seq(DOMAIN store) /\ n \in 1..Len(ch[1])
           /\ Sequence = ItemsIn(store, ch[1]) /\ Sequence' = RemoveAt(Sequence, n)
           /\ kind' = kind
  <1> DEFINE sorted == kind = "SortedList"
             s == ch[1]
  <1>1. ListIs(sorted, store, buckets, ch) /\ n \in 1..Len(s)
    BY DEF RemovesFrom
  <1> HIDE DEF sorted
  <1>2. IsStore(store) /\ OnChain(store, buckets[1], s) /\ On(s) = DOMAIN store
    BY <1>1, OneList
  <1>3. Sequence = ItemsIn(store, s) /\ s \in Seq(DOMAIN store)
    BY <1>2, ItemsOfIs DEF Sequence
  <1>4. PICK r : Removes(store, s, n, r) /\ Leaves(r.store, r.list)
    BY DEF RemovesFrom
  <1> HIDE DEF s
  <1> DEFINE h2 == r.store
             t == RemoveAt(s, n)
  <1>6. /\ store' = h2 /\ buckets'[1] = r.list /\ kind' = kind
        /\ OnChain(h2, r.list, t) /\ Edited(store, s, h2, t)
        /\ On(t) = DOMAIN store \ {s[n]}
    BY <1>2, <1>4 DEF Leaves, Removes
  <1>13. t \in Seq(DOMAIN h2)
    BY <1>6 DEF OnChain
  <1> HIDE DEF h2, t
  <1>7. /\ IsStore(h2)
        /\ \A c \in DOMAIN store : c # s[n] => c \in DOMAIN h2 /\ h2[c].item = store[c].item
    BY <1>2, <1>6 DEF Edited
  <1>8. \A k \in 1..Len(s) : k # n => s[k] \in DOMAIN h2 /\ h2[s[k]].item = store[s[k]].item
    <2>1. \A k \in 1..Len(s) : s[k] \in DOMAIN store
      BY <1>2, ChainFacts
    <2>2. \A k \in 1..Len(s) : k # n => s[k] # s[n]
      BY <1>1, <1>2 DEF OnChain
    <2> QED BY <1>7, <2>1, <2>2
  <1>9. ItemsIn(h2, t) = RemoveAt(ItemsIn(store, s), n)
    BY <1>1, <1>2, <1>3, <1>7, <1>8, <1>13, ItemsRemoved DEF t
  <1>10. Sequence' = ItemsIn(h2, t)
    <2>1. ItemsOf(h2, r.list) = ItemsIn(h2, t)
      BY <1>6, <1>7, ItemsOfIs
    <2> QED BY <1>6, <2>1 DEF Sequence
  <1> QED BY <1>1, <1>2, <1>3, <1>6, <1>9, <1>10 DEF s

\* The sequence and the set of Documented before and after a step.
Maps(q, q2, T, T2) ==
  /\ (IF kind = "HashTable" THEN <<>> ELSE ItemsOf(store, buckets[1])) = q
  /\ (IF kind' = "HashTable" THEN <<>> ELSE ItemsOf(store', buckets'[1])) = q2
  /\ (IF kind = "HashTable" THEN {store[c].item : c \in DOMAIN store} ELSE {}) = T
  /\ (IF kind' = "HashTable" THEN {store'[c].item : c \in DOMAIN store'} ELSE {}) = T2

LEMMA AddPromised ==
    ASSUME LibraryIInv, NEW ch, NEW n, NEW x \in Objects, AddsTo(ch, x, n), answer' = NULL
    PROVE  Documented!AAdd(x)
  <1> DEFINE q == Sequence
             s == ch[1]
  <1>1. /\ IsStore(store) /\ s \in Seq(DOMAIN store) /\ n \in 0..Len(s)
        /\ q = ItemsIn(store, s) /\ q' = InsertAt(q, n + 1, x) /\ kind' = kind
    BY SequenceAdded
  <1>2. /\ q \in Seq(Objects) /\ Len(q) = Len(s) /\ Len(s) \in Nat /\ DOMAIN q = 1..Len(s)
        /\ \A k \in 1..Len(s) : q[k] = store[s[k]].item /\ store[s[k]].item \in Objects
    BY <1>1, ItemsAre
  <1>3. /\ kind # "HashTable" /\ kind \in {"List", "SortedList", "HashTable"}
        /\ kind = "List" => n = 0 \/ n = Len(s)
        /\ kind = "SortedList" => Ascending(store, s) /\ Belongs(store, s, x, n)
    BY DEF AddsTo, LibraryIInv, ListIs
  <1>4. x \notin ToSet(q)
    <2>1. Absent(store, x)
      <3> DEFINE sorted == kind = "SortedList"
      <3>1. ListIs(sorted, store, buckets, ch) /\ ~IsInList(store, buckets[1], x)
        BY DEF AddsTo
      <3> HIDE DEF sorted
      <3> QED BY <3>1, NotInList
    <2>2. \A k \in 1..Len(s) : s[k] \in DOMAIN store
      BY <1>1, ElementOfSeq
    <2> QED BY <1>2, <2>1, <2>2 DEF Absent, ToSet
  <1>5. Documented!InsertAt(q, n + 1, x) = InsertAt(q, n + 1, x) /\ Documented!ToSet(q) = ToSet(q)
    BY DEF InsertAt, Documented!InsertAt, ToSet, Documented!ToSet
  <1>6. Maps(q, q', {}, {})
    BY <1>1, <1>3 DEF Maps, Sequence
  <1>7. x \notin Documented!Contents /\ Documented!Returns(NULL)
    BY <1>1, <1>4, <1>5, <1>6 DEF Maps, Documented!Contents, Documented!Returns
  <1>8. CASE kind = "List"
    <2>1. q' \in {Append(q, x), <<x>> \o q}
      BY <1>1, <1>2, <1>3, <1>8, InsertedAtEnds
    <2> HIDE DEF q
    <2> QED BY <1>6, <1>7, <1>8, <2>1 DEF Maps, Documented!AAdd
  <1>9. CASE kind = "SortedList"
    <2>1. \A j \in 1..n : ~Before(x, q[j])
      <3>1. \A j \in 1..n : j \in 1..Len(s)
        BY <1>1, <1>2
      <3> QED BY <1>2, <1>3, <1>9, <3>1 DEF Belongs, Before
    <2>2. \A j \in n + 1..Len(q) : Before(x, q[j])
      <3>1. \A j \in n + 1..Len(q) : j \in 1..Len(s)
        BY <1>1, <1>2
      <3>2. \A j \in n + 1..Len(s) : Compare(x, store[s[j]].item) < 0
        BY <1>1, <1>3, <1>9, BiggerFollow
      <3> QED BY <1>2, <3>1, <3>2 DEF Before
    <2>3. n \in 0..Len(q) /\ q' = Documented!InsertAt(q, n + 1, x)
      BY <1>1, <1>2, <1>5
    <2> HIDE DEF q
    <2> QED BY <1>6, <1>7, <1>9, <2>1, <2>2, <2>3 DEF Maps, Documented!AAdd
  <1> QED BY <1>3, <1>8, <1>9

\* The list with its n-th item removed.
LEMMA RemovedItem ==
    ASSUME LibraryIInv, NEW ch, NEW n, RemovesFrom(ch, n)
    PROVE  /\ kind' = kind /\ kind # "HashTable"
           /\ Sequence \in Seq(Objects) /\ DOMAIN Sequence = 1..Len(Sequence)
           /\ Len(Sequence) = Len(ch[1]) /\ n \in 1..Len(Sequence)
           /\ \A k \in 1..Len(Sequence) : Sequence[k] = store[ch[1][k]].item
           /\ Sequence' = RemoveAt(Sequence, n)
           /\ Documented!RemoveAt(Sequence, n) = RemoveAt(Sequence, n)
           /\ Maps(Sequence, Sequence', {}, {})
  <1> DEFINE q == Sequence
             s == ch[1]
  <1>1. /\ IsStore(store) /\ s \in Seq(DOMAIN store) /\ n \in 1..Len(s)
        /\ q = ItemsIn(store, s) /\ q' = RemoveAt(q, n) /\ kind' = kind
    BY SequenceRemoved
  <1>2. /\ q \in Seq(Objects) /\ Len(q) = Len(s) /\ DOMAIN q = 1..Len(s)
        /\ \A k \in 1..Len(s) : q[k] = store[s[k]].item
    BY <1>1, ItemsAre
  <1>3. kind # "HashTable"
    BY DEF RemovesFrom
  <1>4. Documented!RemoveAt(q, n) = RemoveAt(q, n)
    BY DEF RemoveAt, Documented!RemoveAt
  <1>5. Maps(q, q', {}, {})
    BY <1>1, <1>3 DEF Maps, Sequence
  <1> HIDE DEF q, s
  <1>6. n \in 1..Len(q) /\ \A k \in 1..Len(q) : q[k] = store[s[k]].item
    BY <1>1, <1>2
  <1> QED BY <1>1, <1>2, <1>3, <1>4, <1>5, <1>6 DEF q, s

LEMMA RemoveFrontPromised ==
    ASSUME LibraryIInv, ListRemoveFront
    PROVE  Documented!ARemoveFront
  <1>1. PICK ch : RemovesFrom(ch, 1)
    BY ListRemoveFrontIs
  <1>2. /\ kind' = kind /\ kind # "HashTable"
        /\ Sequence \in Seq(Objects) /\ Len(Sequence) = Len(ch[1]) /\ 1 \in 1..Len(Sequence)
        /\ \A k \in 1..Len(Sequence) : Sequence[k] = store[ch[1][k]].item
        /\ Sequence' = RemoveAt(Sequence, 1)
        /\ Maps(Sequence, Sequence', {}, {})
    BY <1>1, RemovedItem
  <1>3. answer' = Sequence[1]
    <2>1. answer' = store[buckets[1].first].item
      BY DEF ListRemoveFront
    <2>2. OnChain(store, buckets[1], ch[1])
      <3> DEFINE sorted == kind = "SortedList"
      <3>1. ListIs(sorted, store, buckets, ch)
        BY <1>1 DEF RemovesFrom
      <3> HIDE DEF sorted
      <3> QED BY <3>1, OneList
    <2>3. Len(ch[1]) # 0
      BY <1>2
    <2>4. buckets[1].first = ch[1][1]
      BY <2>2, <2>3 DEF OnChain
    <2> QED BY <1>2, <2>1, <2>4
  <1>4. Sequence # <<>>
    BY <1>2, EmptySeq
  <1>5. Sequence' = Tail(Sequence) /\ Head(Sequence) = Sequence[1]
    BY <1>2, <1>4, RemovedAtFront
  <1> QED BY <1>2, <1>3, <1>4, <1>5 DEF Maps, Documented!ARemoveFront, Documented!Returns

LEMMA RemovePromised ==
    ASSUME LibraryIInv, NEW x \in Objects, ListRemove(x)
    PROVE  Documented!ARemove(x)
  <1>1. PICK ch, n : RemovesFrom(ch, n) /\ FirstWith(store, ch[1], x, n)
    BY ListRemoveIs
  <1>2. /\ kind' = kind /\ kind # "HashTable"
        /\ DOMAIN Sequence = 1..Len(Sequence) /\ n \in 1..Len(Sequence)
        /\ \A k \in 1..Len(Sequence) : Sequence[k] = store[ch[1][k]].item
        /\ Sequence' = RemoveAt(Sequence, n)
        /\ Documented!RemoveAt(Sequence, n) = RemoveAt(Sequence, n)
        /\ Maps(Sequence, Sequence', {}, {})
    BY <1>1, RemovedItem
  <1>3. Sequence[n] = x /\ n \in DOMAIN Sequence
    BY <1>1, <1>2 DEF FirstWith
  <1>4. x \in Documented!Contents
    BY <1>2, <1>3 DEF Maps, Documented!Contents, Documented!ToSet
  <1>5. answer' = NULL
    BY DEF ListRemove
  <1>6. \E k \in DOMAIN Sequence :
           Sequence[k] = x /\ Sequence' = Documented!RemoveAt(Sequence, k)
    BY <1>2, <1>3
  <1> HIDE DEF Sequence
  <1> QED BY <1>2, <1>4, <1>5, <1>6 DEF Maps, Documented!ARemove, Documented!Returns

\* A table before and after a step.
LEMMA TablePromised ==
    ASSUME kind = "HashTable", kind' = kind
    PROVE  /\ Maps(<<>>, <<>>, Contents(store), Contents(store'))
           /\ Documented!Contents = Contents(store)
  <1>1. Maps(<<>>, <<>>, Contents(store), Contents(store'))
    BY DEF Maps, Contents
  <1>2. DOMAIN <<>> = {}
    OBVIOUS
  <1>3. Documented!ToSet(<<>>) = {}
    BY <1>2 DEF Documented!ToSet
  <1>4. Documented!Contents = Contents(store)
    BY <1>1, <1>3 DEF Maps, Documented!Contents
  <1> QED BY <1>1, <1>4

LEMMA HashInsertPromised ==
    ASSUME LibraryIInv, Cardinality(DOMAIN store) < MaxItems, NEW x \in Objects, HashInsert(x)
    PROVE  Documented!AAdd(x)
  <1>1. kind = "HashTable" /\ kind' = kind /\ answer' = NULL
    BY DEF HashInsert
  <1>2. Contents(store') = Contents(store) \cup {x} /\ x \notin Contents(store)
    BY HashInsertKeeps DEF KeyAbsent, Contents
  <1> QED BY <1>1, <1>2, TablePromised DEF Maps, Documented!AAdd, Documented!Returns

LEMMA HashRemovePromised ==
    ASSUME LibraryIInv, NEW x \in Objects, HashRemove(KeyOf(x))
    PROVE  \E y \in Objects : Documented!ARemove(y)
  <1>1. PICK y \in Contents(store) : /\ answer' = y /\ y \in Objects
                                     /\ Contents(store') = Contents(store) \ {y}
    BY HashRemoveKeeps
  <1>2. kind = "HashTable" /\ kind' = kind
    BY HashRemoveKeeps
  <1>3. Documented!ARemove(y)
    BY <1>1, <1>2, TablePromised DEF Maps, Documented!ARemove, Documented!Returns
  <1> QED BY <1>1, <1>3

LEMMA HashFindPromised ==
    ASSUME LibraryIInv, NEW x \in Objects, HashFind(KeyOf(x))
    PROVE  Documented!AFind(KeyOf(x))
  <1> DEFINE key == KeyOf(x)
             b == HashValue(key, NumBuckets)
             found == FindInBucket(store, buckets[b], key)
  <1>1. /\ kind = "HashTable" /\ kind' = kind /\ store' = store /\ answer' = found
    BY DEF HashFind, Find
  <1>2. PICK ch : /\ TableIs(store, buckets, numItems, ch)
                  /\ IsStore(store) /\ NumBuckets \in Nat /\ NumBuckets # 0
                  /\ Linked(store, 1..NumBuckets, buckets, ch)
                  /\ Hashed(store, NumBuckets, ch)
    BY <1>1, TableFacts
  <1>3. b \in 1..NumBuckets
    BY <1>2, HashIn
  <1>4. OnChain(store, buckets[b], ch[b])
    BY <1>2, <1>3 DEF Linked
  <1>5. found = IF \E y \in Contents(store) : KeyOf(y) = key
                  THEN CHOOSE y \in Contents(store) : KeyOf(y) = key ELSE NULL
    <2>1. CASE found = NULL
      <3>1. KeyAbsent(store, key)
        <4> HIDE DEF b
        <4> QED BY <1>2, <2>1, FindLooks DEF b
      <3> HIDE DEF found
      <3> QED BY <2>1, <3>1 DEF KeyAbsent, Contents
    <2>2. CASE found # NULL
      <3>1. PICK n \in 1..Len(ch[b]) : found = store[ch[b][n]].item /\ KeyOf(found) = key
        <4> HIDE DEF b
        <4> QED BY <1>2, <1>4, <2>2, FindIs
      <3>2. ch[b][n] \in DOMAIN store
        <4> HIDE DEF b
        <4> QED BY <1>4, ChainFacts
      <3> HIDE DEF found, b
      <3>3. found \in Contents(store)
        BY <3>1, <3>2 DEF Contents
      <3>4. \A y \in Contents(store) : KeyOf(y) = key => y = found
        BY <1>2, <3>1, <3>2 DEF Contents, TableIs, KeysDiffer
      <3> HIDE DEF key
      <3> QED BY <3>1, <3>3, <3>4
    <2> QED BY <2>1, <2>2
  <1> HIDE DEF found
  <1>6. answer' = IF \E y \in Contents(store) : KeyOf(y) = key
                    THEN CHOOSE y \in Contents(store) : KeyOf(y) = key ELSE NULL
    BY <1>1, <1>5
  <1> QED BY <1>1, <1>6, TablePromised DEF Maps, Documented!AFind, Documented!Returns

\* Every call is a step of the abstract specification.
LEMMA LibraryStepPromised ==
    LibraryIInv /\ [LibraryNext]_libraryVars => [Documented!ALNext]_(Documented!alVars)
  <1> SUFFICES ASSUME LibraryIInv, [LibraryNext]_libraryVars
               PROVE  Documented!ALNext \/ UNCHANGED Documented!alVars
    OBVIOUS
  <1>1. CASE UNCHANGED libraryVars
    BY <1>1 DEF libraryVars, Documented!alVars
  <1>2. ASSUME NEW x \in Objects,
               \/ /\ Cardinality(DOMAIN store) < MaxItems
                  /\ ListAdd(x) \/ SortedAdd(x) \/ HashInsert(x)
               \/ ListRemoveFront
               \/ ListRemove(x)
               \/ HashRemove(KeyOf(x))
               \/ HashFind(KeyOf(x))
        PROVE  Documented!ALNext
    <2>1. CASE Cardinality(DOMAIN store) < MaxItems /\ (ListAdd(x) \/ SortedAdd(x))
      <3>1. \E ch, n : AddsTo(ch, x, n)
        BY <2>1, ListAddIs, SortedAddIs
      <3>2. answer' = NULL
        BY <2>1 DEF ListAdd, SortedAdd
      <3>3. Documented!AAdd(x)
        BY <3>1, <3>2, AddPromised
      <3> QED BY <3>3 DEF Documented!ALNext
    <2>2. CASE Cardinality(DOMAIN store) < MaxItems /\ HashInsert(x)
      BY <2>2, HashInsertPromised DEF Documented!ALNext
    <2>3. CASE ListRemoveFront
      BY <2>3, RemoveFrontPromised DEF Documented!ALNext
    <2>4. CASE ListRemove(x)
      BY <2>4, RemovePromised DEF Documented!ALNext
    <2>5. CASE HashRemove(KeyOf(x))
      BY <2>5, HashRemovePromised DEF Documented!ALNext
    <2>6. CASE HashFind(KeyOf(x))
      BY <2>6, HashFindPromised DEF Documented!ALNext
    <2> QED BY <1>2, <2>1, <2>2, <2>3, <2>4, <2>5, <2>6
  <1> QED BY <1>1, <1>2 DEF LibraryNext

LEMMA LibraryStartPromised == LibraryInit => Documented!ALInit
  <1> SUFFICES ASSUME LibraryInit PROVE Documented!ALInit
    OBVIOUS
  <1>1. /\ kind \in {"List", "SortedList", "HashTable"} /\ answer = NULL
        /\ DOMAIN store = {} /\ IsStore(store)
        /\ buckets = InitBuckets(IF kind = "HashTable" THEN InitialBuckets ELSE 1)
    BY DEF LibraryInit, IsStore
  <1>2. CASE kind = "HashTable"
    BY <1>1, <1>2 DEF Documented!ALInit
  <1>3. CASE kind # "HashTable"
    <2>1. buckets[1] = EmptyList
      <3>1. 1 \in 1..1 /\ 1 \in Nat
        OBVIOUS
      <3> QED BY <1>1, <1>3, <3>1, EmptyBuckets
    <2>2. ItemsOf(store, buckets[1]) = ItemsIn(store, <<>>)
      BY <1>1, <2>1, EmptyChain, ItemsOfIs
    <2>3. ItemsIn(store, <<>>) = <<>>
      <3>1. ItemsIn(store, <<>>) \in Seq(Objects) /\ Len(ItemsIn(store, <<>>)) = Len(<<>>)
        BY <1>1, EmptySeq, ItemsAre
      <3>2. Len(<<>>) = 0
        OBVIOUS
      <3> QED BY <3>1, <3>2, EmptySeq
    <2> QED BY <1>1, <1>3, <2>2, <2>3 DEF Documented!ALInit
  <1> QED BY <1>2, <1>3

\* A List is a sequence, a SortedList a sequence in the order of the keys in which items of
\* equal keys keep the order they came in, a HashTable a set of items found by their keys:
\* every call of lib/list.cc and lib/hash.cc has the effect and the answer that lib/list.h and
\* lib/hash.h promise, the ReHash inside an Insert included.
THEOREM LibraryImplements == LibrarySpec => ImplementsLibrary
  <1> QED BY LibraryStartPromised, LibraryInvariant, LibraryStepPromised, PTL
          DEF LibrarySpec, ImplementsLibrary, Documented!ALSpec
=============================================================================
