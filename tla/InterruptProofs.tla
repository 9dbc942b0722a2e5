--------------------------- MODULE InterruptProofs ---------------------------
(***************************************************************************)
(* Proofs about Interrupts: its invariant, and that the sorted list of     *)
(* pending interrupts implements the agenda of AbstractAgenda.             *)
(*                                                                         *)
(* Both rest on what SortedList::Insert and RemoveFront do to a sorted     *)
(* list: where the new interrupt goes (InsertShape), which device has one  *)
(* (InsertOnce, TailOnce), and which calls each time has (InsertAgenda,    *)
(* TailAgenda).                                                            *)
(***************************************************************************)
EXTENDS Interrupts, SequenceTheorems, FiniteSetTheorems, WellFoundedInduction,
        TLAPS

Earlier == {p \in Nat \X Nat : p[1] < p[2]}

LEMMA EarlierIsLess ==
    ASSUME NEW m \in Nat, NEW n \in Nat
    PROVE  <<m, n>> \in Earlier <=> m < n
  BY DEF Earlier

\* A set of numbers has a smallest one.
LEMMA Smallest ==
    ASSUME NEW T \in SUBSET Nat, T # {}
    PROVE  \E m \in T : \A n \in T : m <= n
  <1>1. OpToRel(<, Nat) = Earlier
    BY Zenon DEF OpToRel, Earlier
  <1>2. IsWellFoundedOn(Earlier, Nat)
    BY <1>1, NatLessThanWellFounded, Zenon
  <1>3. PICK m \in T : \A n \in T : ~ (<<n, m>> \in Earlier)
    BY <1>2, WFMin
  <1>4. \A n \in T : ~ (n < m)
    BY <1>3, EarlierIsLess
  <1> QED BY <1>4

\* What Min returns.
LEMMA MinIsSmallest ==
    ASSUME NEW T \in SUBSET Nat, T # {}
    PROVE  Min(T) \in T /\ \A n \in T : Min(T) <= n
  BY Smallest DEF Min

-----------------------------------------------------------------------------
(* The sorted list.                                                        *)

\* A list of pending interrupts is an array of them.
LEMMA ListFacts ==
    ASSUME NEW list \in Seq(Interrupt)
    PROVE  /\ Len(list) \in Nat
           /\ DOMAIN list = 1 .. Len(list)
           /\ \A i \in 1 .. Len(list) : list[i] \in Interrupt
           /\ \A i \in 1 .. Len(list) : list[i].when \in Nat
           /\ \A i \in 1 .. Len(list) : list[i].dev \in AllDevices
  <1>1. /\ Len(list) \in Nat
        /\ DOMAIN list = 1 .. Len(list)
        /\ \A i \in 1 .. Len(list) : list[i] \in Interrupt
    OBVIOUS
  <1>2. \A item \in Interrupt : item.when \in Nat /\ item.dev \in AllDevices
    BY DEF Interrupt
  <1> QED BY <1>1, <1>2

\* SortedList::Insert: the item goes behind all that come no later, and the
\* list stays sorted.
LEMMA InsertShape ==
    ASSUME NEW list \in Seq(Interrupt), Sorted(list), NEW item \in Interrupt
    PROVE  /\ Insert(item, list) \in Seq(Interrupt)
           /\ Len(Insert(item, list)) = Len(list) + 1
           /\ \E p \in 1 .. Len(list) + 1 :
                /\ \A i \in 1 .. Len(list) :
                     i < p <=> list[i].when <= item.when
                /\ \A i \in 1 .. Len(list) + 1 :
                     Insert(item, list)[i] = IF i < p THEN list[i]
                                             ELSE IF i = p THEN item
                                             ELSE list[i - 1]
  <1> DEFINE later == {i \in DOMAIN list : item.when < list[i].when}
             p == Min(later \cup {Len(list) + 1})
             front == SubSeq(list, 1, p - 1)
             back == SubSeq(list, p, Len(list))
             one == <<item>>
  <1>0. /\ Len(list) \in Nat /\ DOMAIN list = 1 .. Len(list)
        /\ \A i \in 1 .. Len(list) : list[i] \in Interrupt /\ list[i].when \in Nat
        /\ item.when \in Nat
    BY ListFacts DEF Interrupt
  <1>1. /\ p \in later \cup {Len(list) + 1}
        /\ \A i \in later \cup {Len(list) + 1} : p <= i
    <2>1. later \cup {Len(list) + 1} \in SUBSET Nat
      BY <1>0
    <2> QED BY <2>1, MinIsSmallest
  <1>2. Insert(item, list) = front \o one \o back
    BY DEF Insert, InsertAt
  <1> HIDE DEF p
  <1>3. p \in 1 .. Len(list) + 1
    BY <1>0, <1>1
  <1>4. /\ front \in Seq(Interrupt) /\ Len(front) = p - 1
        /\ \A i \in 1 .. p - 1 : front[i] = list[i]
    BY <1>0, <1>3
  <1>5. /\ back \in Seq(Interrupt) /\ Len(back) = Len(list) - p + 1
        /\ \A i \in 1 .. Len(list) - p + 1 : back[i] = list[p + i - 1]
    BY <1>0, <1>3
  <1>6. one \in Seq(Interrupt) /\ Len(one) = 1 /\ one[1] = item
    OBVIOUS
  <1> HIDE DEF front, back, one
  <1>7. /\ front \o one \in Seq(Interrupt) /\ Len(front \o one) = p
        /\ \A i \in 1 .. p : (front \o one)[i] = IF i < p THEN list[i] ELSE item
    <2>1. /\ front \o one \in Seq(Interrupt)
          /\ Len(front \o one) = Len(front) + Len(one)
          /\ \A i \in 1 .. Len(front) + Len(one) :
               (front \o one)[i] =
                  IF i <= Len(front) THEN front[i] ELSE one[i - Len(front)]
      BY <1>4, <1>6, ConcatProperties
    <2>2. \A i \in 1 .. p : i <= p - 1 => i \in 1 .. p - 1 /\ i < p
      BY <1>0, <1>3
    <2>3. \A i \in 1 .. p : ~ (i <= p - 1) => i = p /\ i - (p - 1) = 1
      BY <1>0, <1>3
    <2>4. (p - 1) + 1 = p
      BY <1>0, <1>3
    <2> QED BY <1>3, <1>4, <1>6, <2>1, <2>2, <2>3, <2>4
  <1>8. /\ Insert(item, list) \in Seq(Interrupt)
        /\ Len(Insert(item, list)) = Len(list) + 1
        /\ \A i \in 1 .. Len(list) + 1 :
             Insert(item, list)[i] = IF i < p THEN list[i]
                                     ELSE IF i = p THEN item ELSE list[i - 1]
    <2>1. /\ (front \o one) \o back \in Seq(Interrupt)
          /\ Len((front \o one) \o back) = p + (Len(list) - p + 1)
          /\ \A i \in 1 .. p + (Len(list) - p + 1) :
               ((front \o one) \o back)[i] =
                  IF i <= p THEN (front \o one)[i] ELSE back[i - p]
      BY <1>5, <1>7, ConcatProperties
    <2>2. p + (Len(list) - p + 1) = Len(list) + 1
      BY <1>0, <1>3
    <2>3. \A i \in 1 .. Len(list) + 1 : p < i => back[i - p] = list[i - 1]
      BY <1>0, <1>3, <1>5
    <2> QED BY <1>0, <1>2, <1>3, <1>7, <2>1, <2>2, <2>3
  <1>9. \A i \in 1 .. Len(list) : i < p <=> list[i].when <= item.when
    <2> SUFFICES ASSUME NEW i \in 1 .. Len(list)
                 PROVE  i < p <=> list[i].when <= item.when
      OBVIOUS
    <2>1. CASE i < p
      BY <1>0, <1>1, <1>3, <2>1
    <2>2. CASE ~ (i < p)
      <3>1. p \in later /\ p \in 1 .. Len(list) /\ p <= i
        BY <1>0, <1>1, <1>3, <2>2
      <3>2. list[p].when <= list[i].when
        BY <1>0, <3>1 DEF Sorted
      <3> QED BY <1>0, <2>2, <3>1, <3>2
    <2> QED BY <2>1, <2>2
  <1> QED BY <1>3, <1>8, <1>9

\* SortedList::Insert keeps its invariant.
LEMMA InsertSorted ==
    ASSUME NEW list \in Seq(Interrupt), Sorted(list), NEW item \in Interrupt
    PROVE  Sorted(Insert(item, list))
  <1> DEFINE new == Insert(item, list)
  <1>0. /\ Len(list) \in Nat /\ DOMAIN list = 1 .. Len(list)
        /\ \A i \in 1 .. Len(list) : list[i].when \in Nat
        /\ item.when \in Nat
    BY ListFacts DEF Interrupt
  <1>1. DOMAIN new = 1 .. Len(list) + 1
    BY InsertShape
  <1>2. PICK p \in 1 .. Len(list) + 1 :
          /\ \A i \in 1 .. Len(list) : i < p <=> list[i].when <= item.when
          /\ \A i \in 1 .. Len(list) + 1 :
               new[i] = IF i < p THEN list[i]
                        ELSE IF i = p THEN item ELSE list[i - 1]
    BY InsertShape
  <1> HIDE DEF new
  <1>3. \A i, j \in 1 .. Len(list) : i <= j => list[i].when <= list[j].when
    BY <1>0 DEF Sorted
  <1>4. ASSUME NEW i \in 1 .. Len(list) + 1, NEW j \in 1 .. Len(list) + 1, i < j
        PROVE  new[i].when <= new[j].when
    <2>1. CASE j < p
      BY <1>0, <1>2, <1>3, <1>4, <2>1
    <2>2. CASE j = p
      BY <1>0, <1>2, <1>4, <2>2
    <2>3. CASE p < j /\ i < p
      <3>1. new[i] = list[i] /\ new[j] = list[j - 1]
        BY <1>0, <1>2, <1>4, <2>3
      <3> QED BY <1>0, <1>3, <1>4, <2>3, <3>1
    <2>4. CASE p < j /\ i = p
      <3>1. new[i] = item /\ new[j] = list[j - 1] /\ ~ (j - 1 < p)
        BY <1>0, <1>2, <1>4, <2>4
      <3> QED BY <1>0, <1>2, <1>4, <2>4, <3>1
    <2>5. CASE p < i
      <3>1. new[i] = list[i - 1] /\ new[j] = list[j - 1]
        BY <1>0, <1>2, <1>4, <2>5
      <3> QED BY <1>0, <1>3, <1>4, <2>5, <3>1
    <2> QED BY <1>0, <1>2, <1>4, <2>1, <2>2, <2>3, <2>4, <2>5
  <1>5. ASSUME NEW i \in 1 .. Len(list) + 1
        PROVE  new[i].when <= new[i].when
    <2>1. new[i].when \in Nat
      BY <1>0, <1>2
    <2> QED BY <2>1
  <1>6. \A i, j \in 1 .. Len(list) + 1 : i <= j => new[i].when <= new[j].when
    BY <1>0, <1>4, <1>5
  <1> QED BY <1>1, <1>6 DEF Sorted, new

\* Insert adds its item and nothing else.
LEMMA InsertItems ==
    ASSUME NEW list \in Seq(Interrupt), Sorted(list), NEW item \in Interrupt,
           NEW i \in DOMAIN Insert(item, list)
    PROVE  \/ Insert(item, list)[i] = item
           \/ \E j \in DOMAIN list : Insert(item, list)[i] = list[j]
  <1>0. Len(list) \in Nat /\ DOMAIN list = 1 .. Len(list)
    BY ListFacts
  <1>1. DOMAIN Insert(item, list) = 1 .. Len(list) + 1
    BY InsertShape
  <1>2. PICK p \in 1 .. Len(list) + 1 :
          \A k \in 1 .. Len(list) + 1 :
            Insert(item, list)[k] = IF k < p THEN list[k]
                                    ELSE IF k = p THEN item ELSE list[k - 1]
    BY InsertShape
  <1>3. CASE i < p
    BY <1>0, <1>1, <1>2, <1>3
  <1>4. CASE i = p
    BY <1>1, <1>2, <1>4
  <1>5. CASE p < i
    <2>1. i - 1 \in DOMAIN list /\ Insert(item, list)[i] = list[i - 1]
      BY <1>0, <1>1, <1>2, <1>5
    <2> QED BY <2>1
  <1> QED BY <1>0, <1>1, <1>2, <1>3, <1>4, <1>5

\* Device d has no pending interrupt.
Never(d, list) == \A i \in DOMAIN list : list[i].dev # d

\* After Interrupt::Schedule for a device that had none, it has exactly one;
\* the others have what they had.
LEMMA InsertOnce ==
    ASSUME NEW list \in Seq(Interrupt), Sorted(list), NEW item \in Interrupt,
           NEW d
    PROVE  /\ Never(item.dev, list) => Once(item.dev, Insert(item, list))
           /\ d # item.dev /\ Once(d, list) => Once(d, Insert(item, list))
           /\ d # item.dev /\ Never(d, list) => Never(d, Insert(item, list))
  <1> DEFINE new == Insert(item, list)
  <1>0. Len(list) \in Nat /\ DOMAIN list = 1 .. Len(list)
    BY ListFacts
  <1>1. DOMAIN new = 1 .. Len(list) + 1
    BY InsertShape
  <1>2. PICK p \in 1 .. Len(list) + 1 :
          \A i \in 1 .. Len(list) + 1 :
            new[i] = IF i < p THEN list[i]
                     ELSE IF i = p THEN item ELSE list[i - 1]
    BY InsertShape
  <1> HIDE DEF new
  <1>3. \A i \in 1 .. Len(list) + 1 :
          \/ i < p /\ i \in 1 .. Len(list) /\ new[i] = list[i]
          \/ i = p /\ new[i] = item
          \/ p < i /\ i - 1 \in 1 .. Len(list) /\ new[i] = list[i - 1]
    BY <1>0, <1>2
  <1>4. ASSUME Never(item.dev, list) PROVE Once(item.dev, new)
    <2>1. \A j \in 1 .. Len(list) : list[j].dev # item.dev
      BY <1>0, <1>4 DEF Never
    <2>2. \A i \in 1 .. Len(list) + 1 : new[i].dev = item.dev <=> p = i
      BY <1>0, <1>3, <2>1
    <2>3. p \in DOMAIN new /\ \A i \in DOMAIN new : new[i].dev = item.dev <=> p = i
      BY <1>1, <2>2
    <2> QED BY <2>3, Zenon DEF Once
  <1>5. ASSUME d # item.dev, Once(d, list) PROVE Once(d, new)
    <2>1. PICK k \in DOMAIN list :
            \A j \in DOMAIN list : list[j].dev = d <=> k = j
      BY <1>5, Zenon DEF Once
    <2> DEFINE kk == IF k < p THEN k ELSE k + 1
    <2>0. k \in 1 .. Len(list)
      BY <1>0, <2>1
    <2>2. kk \in DOMAIN new
      BY <1>0, <1>1, <2>0
    <2>3. \A j \in 1 .. Len(list) : list[j].dev = d <=> k = j
      BY <1>0, <2>1
    <2>4. \A i \in 1 .. Len(list) + 1 : new[i].dev = d <=> kk = i
      BY <1>0, <1>3, <1>5, <2>0, <2>3
    <2>5. \A i \in DOMAIN new : new[i].dev = d <=> kk = i
      BY <1>1, <2>4
    <2> HIDE DEF kk
    <2> QED BY <2>2, <2>5, Zenon DEF Once
  <1>6. ASSUME d # item.dev, Never(d, list) PROVE Never(d, new)
    BY <1>0, <1>1, <1>3, <1>6 DEF Never
  <1> QED BY <1>4, <1>5, <1>6 DEF new

\* SortedList::RemoveFront shifts the list and keeps it sorted.
LEMMA TailShape ==
    ASSUME NEW list \in Seq(Interrupt), list # <<>>
    PROVE  /\ Tail(list) \in Seq(Interrupt)
           /\ Len(list) - 1 \in Nat
           /\ DOMAIN Tail(list) = 1 .. Len(list) - 1
           /\ \A i \in 1 .. Len(list) - 1 : Tail(list)[i] = list[i + 1]
           /\ Head(list) = list[1]
           /\ 1 \in DOMAIN list
           /\ Sorted(list) => Sorted(Tail(list))
  <1>1. /\ Tail(list) \in Seq(Interrupt)
        /\ Len(list) - 1 \in Nat
        /\ DOMAIN Tail(list) = 1 .. Len(list) - 1
        /\ \A i \in 1 .. Len(list) - 1 : Tail(list)[i] = list[i + 1]
        /\ Head(list) = list[1]
        /\ 1 \in DOMAIN list
    OBVIOUS
  <1>2. \A i \in 1 .. Len(list) - 1 : i + 1 \in DOMAIN list
    BY ListFacts
  <1>3. Sorted(list) => Sorted(Tail(list))
    BY <1>1, <1>2 DEF Sorted
  <1> QED BY <1>1, <1>3

\* After CheckIfDue has removed the first interrupt, its device, which had
\* one, has none; the others have what they had.
LEMMA TailOnce ==
    ASSUME NEW list \in Seq(Interrupt), list # <<>>, NEW d
    PROVE  /\ d = Head(list).dev /\ Once(d, list) => Never(d, Tail(list))
           /\ d # Head(list).dev /\ Once(d, list) => Once(d, Tail(list))
           /\ Never(d, list) => (Never(d, Tail(list)) /\ d # Head(list).dev)
  <1> DEFINE rest == Tail(list)
  <1>1. /\ Len(list) - 1 \in Nat
        /\ DOMAIN rest = 1 .. Len(list) - 1
        /\ \A i \in 1 .. Len(list) - 1 : rest[i] = list[i + 1]
        /\ Head(list) = list[1]
    BY TailShape
  <1> HIDE DEF rest
  <1>2. Len(list) \in Nat /\ DOMAIN list = 1 .. Len(list)
    BY ListFacts
  <1>3. ASSUME d = Head(list).dev, Once(d, list)
        PROVE  Never(d, rest)
    <2>1. PICK k \in DOMAIN list : \A j \in DOMAIN list : list[j].dev = d <=> k = j
      BY <1>3 DEF Once
    <2>2. k = 1
      BY <1>1, <1>2, <1>3, <2>1
    <2>3. \A i \in 1 .. Len(list) - 1 : i + 1 \in DOMAIN list /\ i + 1 # 1
      BY <1>1, <1>2
    <2> QED BY <1>1, <2>1, <2>2, <2>3 DEF Never
  <1>4. ASSUME d # Head(list).dev, Once(d, list)
        PROVE  Once(d, rest)
    <2>1. PICK k \in DOMAIN list : \A j \in DOMAIN list : list[j].dev = d <=> k = j
      BY <1>4 DEF Once
    <2>2. k # 1
      BY <1>1, <1>2, <1>4, <2>1
    <2>3. k - 1 \in 1 .. Len(list) - 1
      BY <1>1, <1>2, <2>2
    <2>4. \A i \in 1 .. Len(list) - 1 : i + 1 \in DOMAIN list /\ (k - 1 = i <=> k = i + 1)
      BY <1>1, <1>2
    <2>5. \A i \in 1 .. Len(list) - 1 : rest[i].dev = d <=> k - 1 = i
      BY <1>1, <2>1, <2>4
    <2> QED BY <1>1, <2>3, <2>5 DEF Once
  <1>5. ASSUME Never(d, list)
        PROVE  Never(d, rest) /\ d # Head(list).dev
    BY <1>1, <1>2, <1>5 DEF Never
  <1> QED BY <1>3, <1>4, <1>5 DEF rest

-----------------------------------------------------------------------------
(* The invariant.                                                          *)

\* A delay is at least one tick.
LEMMA DelayFacts ==
    ASSUME NEW d \in AllDevices
    PROVE  Delays[d] \in SUBSET (Nat \ {0})
  BY InterruptsAssumption

\* What Interrupt::Schedule puts into the list.
LEMMA ScheduleFacts ==
    ASSUME totalTicks \in Nat, NEW d \in AllDevices, NEW list, Schedule(d, list)
    PROVE  \E item \in Interrupt :
             /\ item.dev = d
             /\ item.when > totalTicks
             /\ pending' = Insert(item, list)
  <1>1. PICK delay \in Delays[d] :
          pending' = Insert([dev |-> d, when |-> totalTicks + delay], list)
    BY DEF Schedule
  <1>2. delay \in Nat \ {0}
    BY DelayFacts
  <1>3. /\ [dev |-> d, when |-> totalTicks + delay] \in Interrupt
        /\ totalTicks + delay > totalTicks
    BY <1>2 DEF Interrupt
  <1> QED BY <1>1, <1>3

\* Which kind of device an interrupt may come from.
LEMMA KindsOfDevices ==
    /\ Timer \notin Pollers /\ Timer \notin Devices
    /\ \A d \in Pollers : d \notin Devices
    /\ NoStatus # Timer /\ NoStatus \notin Pollers /\ NoStatus \notin Devices
    /\ NoStatus \notin {"SystemMode", "UserMode", "IdleMode"}
  BY InterruptsAssumption DEF AllDevices

\* Kernel::Initialize establishes the invariant.
LEMMA InterruptsInit == Init => InterruptsInv
  <1> SUFFICES ASSUME Init PROVE InterruptsInv
    OBVIOUS
  <1> DEFINE times == UNION {Delays[d] : d \in AllDevices}
             first == [dev : {Timer} \cup Pollers, when : times]
             n == Cardinality(Pollers) + 1
  <1>1. n \in Nat
    BY InterruptsAssumption, FS_CardinalityType
  <1>2. times \subseteq Nat \ {0}
    BY DelayFacts
  <1>3. /\ pending \in [1 .. n -> first]
        /\ Sorted(pending)
        /\ \A d \in {Timer} \cup Pollers : Once(d, pending)
    BY DEF Init
  <1> HIDE DEF times, n
  <1>4. \A i \in 1 .. n : /\ pending[i].dev \in {Timer} \cup Pollers
                          /\ pending[i].when \in Nat \ {0}
    BY <1>2, <1>3
  <1>5. first \subseteq Interrupt
    BY <1>2 DEF Interrupt, AllDevices
  <1> HIDE DEF first
  <1>6. pending \in Seq(Interrupt)
    BY <1>1, <1>3, <1>5
  <1>7. DOMAIN pending = 1 .. n
    BY <1>3
  <1>8. TypeOK
    BY <1>6 DEF Init, TypeOK
  <1>9. NoneOverdue
    BY <1>4, <1>7 DEF Init, NoneOverdue
  <1>10. PendingExact
    <2>1. \A d \in Devices : \A i \in DOMAIN pending : pending[i].dev # d
      BY <1>4, <1>7, KindsOfDevices
    <2>2. \A d \in Devices : ~ \E t \in Threads : waitsFor[t] = d
      BY KindsOfDevices DEF Init
    <2>3. \A t \in Threads : waitsFor[t] = NoStatus
      BY DEF Init
    <2>4. phase # "halted"
      BY DEF Init
    <2> QED BY <1>3, <2>1, <2>2, <2>3, <2>4 DEF PendingExact
  <1>11. ThreadsExact
    BY DEF Init, ThreadsExact, Sleeping
  <1>12. StatusExact
    BY KindsOfDevices DEF Init, StatusExact, Natural, Outermost
  <1> QED BY <1>3, <1>8, <1>9, <1>10, <1>11, <1>12 DEF InterruptsInv

\* A tick advances the clock, and CheckIfDue follows.
LEMMA TickFacts ==
    ASSUME totalTicks \in Nat, NEW st, Tick(st)
    PROVE  totalTicks' \in Nat /\ phase' = "handlers"
  BY InterruptsAssumption DEF Tick

\* Thread::Yield goes on with another ready thread, or with the current one.
LEMMA YieldFacts ==
    ASSUME TypeOK, NEW st, YieldBody(st)
    PROVE  /\ totalTicks' \in Nat /\ phase' = "handlers"
           /\ \/ UNCHANGED <<currentThread, ready>>
              \/ /\ currentThread' \in ready
                 /\ ready' = (ready \ {currentThread'}) \cup {currentThread}
  <1>1. Tick(st)
    BY DEF YieldBody, SwitchTo
  <1>2. \/ UNCHANGED <<currentThread, ready>>
        \/ /\ currentThread' \in ready
           /\ ready' = (ready \ {currentThread'}) \cup {currentThread}
    BY DEF YieldBody, SwitchTo
  <1> QED BY <1>1, <1>2, TickFacts DEF TypeOK

\* What an interrupt handler does to the list, with one disjunct for each
\* kind of device.
LEMMA CallBackFacts ==
    ASSUME TypeOK, Sorted(pending), CallBack
    PROVE  /\ phase = "handlers" /\ Due
           /\ pending # <<>> /\ Head(pending).dev \in AllDevices
           /\ Tail(pending) \in Seq(Interrupt) /\ Sorted(Tail(pending))
           /\ UNCHANGED <<totalTicks, status, phase, currentThread, oldStatus, mode>>
           /\ \/ /\ Head(pending).dev \in {Timer} \cup Pollers
                 /\ \E item \in Interrupt :
                      /\ item.dev = Head(pending).dev
                      /\ item.when > totalTicks
                      /\ pending' = Insert(item, Tail(pending))
                 /\ \/ Head(pending).dev \in Pollers /\ Wake(Head(pending).dev)
                    \/ UNCHANGED <<ready, waitsFor>>
              \/ /\ Head(pending).dev \in Devices
                 /\ pending' = Tail(pending)
                 /\ Wake(Head(pending).dev)
           /\ yieldOnReturn' \in BOOLEAN
           /\ yieldOnReturn' # yieldOnReturn => status # "IdleMode"
  <1>1. /\ phase = "handlers" /\ Due
        /\ UNCHANGED <<totalTicks, status, phase, currentThread, oldStatus, mode>>
    BY DEF CallBack
  <1>2. pending # <<>> /\ pending \in Seq(Interrupt) /\ totalTicks \in Nat
    BY <1>1 DEF Due, TypeOK
  <1>3. /\ Tail(pending) \in Seq(Interrupt) /\ Sorted(Tail(pending))
        /\ Head(pending) = pending[1] /\ 1 \in DOMAIN pending
    BY <1>2, TailShape
  <1>4. Head(pending).dev \in AllDevices
    BY <1>2, <1>3, ListFacts
  <1>5. CASE TimerHandler
    <2>1. /\ Head(pending).dev = Timer
          /\ Schedule(Head(pending).dev, Tail(pending))
          /\ UNCHANGED <<ready, waitsFor>>
      BY <1>5 DEF TimerHandler
    <2>2. \E item \in Interrupt : /\ item.dev = Head(pending).dev
                                  /\ item.when > totalTicks
                                  /\ pending' = Insert(item, Tail(pending))
      BY <1>2, <1>4, <2>1, ScheduleFacts
    <2>3. /\ yieldOnReturn' \in BOOLEAN
          /\ yieldOnReturn' # yieldOnReturn => status # "IdleMode"
      BY <1>5 DEF TimerHandler, TypeOK
    <2> QED BY <1>1, <1>2, <1>3, <1>4, <2>1, <2>2, <2>3
  <1>6. CASE PollHandler
    <2>1. /\ Head(pending).dev \in Pollers
          /\ Schedule(Head(pending).dev, Tail(pending))
          /\ Wake(Head(pending).dev) \/ UNCHANGED <<ready, waitsFor>>
          /\ yieldOnReturn' = yieldOnReturn
      BY <1>6 DEF PollHandler
    <2>2. \E item \in Interrupt : /\ item.dev = Head(pending).dev
                                  /\ item.when > totalTicks
                                  /\ pending' = Insert(item, Tail(pending))
      BY <1>2, <1>4, <2>1, ScheduleFacts
    <2>3. yieldOnReturn' \in BOOLEAN
      BY <2>1 DEF TypeOK
    <2> QED BY <1>1, <1>2, <1>3, <1>4, <2>1, <2>2, <2>3
  <1>7. CASE DeviceHandler
    <2>1. /\ Head(pending).dev \in Devices
          /\ pending' = Tail(pending)
          /\ Wake(Head(pending).dev)
          /\ yieldOnReturn' = yieldOnReturn
      BY <1>7 DEF DeviceHandler
    <2>2. yieldOnReturn' \in BOOLEAN
      BY <2>1 DEF TypeOK
    <2> QED BY <1>1, <1>2, <1>3, <1>4, <2>1, <2>2
  <1> QED BY <1>5, <1>6, <1>7 DEF CallBack

\* The wake-up of the thread that sleeps for device d.
LEMMA WakeFacts ==
    ASSUME TypeOK, NEW d, Wake(d)
    PROVE  /\ ready' \subseteq Threads
           /\ waitsFor' \in [Threads -> Devices \cup Pollers \cup {NoStatus}]
           /\ \A t \in Threads :
                /\ t \in ready' <=> t \in ready \/ waitsFor[t] = d
                /\ waitsFor'[t] = IF waitsFor[t] = d THEN NoStatus ELSE waitsFor[t]
  BY DEF Wake, TypeOK

LEMMA InterruptsTyped ==
    ASSUME InterruptsInv, [Next]_vars
    PROVE  TypeOK'
  <1>0. TypeOK /\ Sorted(pending) /\ StatusExact
    BY DEF InterruptsInv
  <1>1. CASE Run
    BY <1>0, <1>1 DEF Run, Enters, TypeOK, queueVars
  <1>2. CASE Instruction
    <2>1. totalTicks' \in Nat /\ phase' = "handlers"
      BY <1>0, <1>2, TickFacts DEF Instruction, TypeOK
    <2> QED BY <1>0, <1>2, <2>1 DEF Instruction, TypeOK, threadVars
  <1>3. CASE RaiseException
    BY <1>0, <1>3 DEF RaiseException, Enters, TypeOK, queueVars
  <1>4. CASE ReturnToUser
    <2>1. totalTicks' \in Nat /\ phase' = "handlers"
      BY <1>0, <1>4, TickFacts DEF ReturnToUser, TypeOK
    <2> QED BY <1>0, <1>4, <2>1 DEF ReturnToUser, Enters, TypeOK
  <1>5. CASE Enable
    <2>1. totalTicks' \in Nat /\ phase' = "handlers"
      BY <1>0, <1>5, TickFacts DEF Enable, TypeOK
    <2> QED BY <1>0, <1>5, <2>1 DEF Enable, TypeOK, threadVars
  <1>6. CASE Yield
    <2>1. /\ totalTicks' \in Nat /\ phase' = "handlers"
          /\ \/ UNCHANGED <<currentThread, ready>>
             \/ /\ currentThread' \in ready
                /\ ready' = (ready \ {currentThread'}) \cup {currentThread}
      BY <1>0, <1>6, YieldFacts DEF Yield
    <2> QED BY <1>0, <1>6, <2>1 DEF Yield, TypeOK
  <1>7. ASSUME NEW d \in Devices, Request(d)
        PROVE  TypeOK'
    <2>1. d \in AllDevices /\ totalTicks \in Nat /\ pending \in Seq(Interrupt)
      BY <1>0 DEF AllDevices, TypeOK
    <2>2. pending' \in Seq(Interrupt)
      BY <1>0, <1>7, <2>1, ScheduleFacts, InsertShape DEF Request
    <2> QED BY <1>0, <1>7, <2>2 DEF Request, TypeOK
  <1>8. ASSUME NEW d \in Pollers, Await(d)
        PROVE  TypeOK'
    BY <1>0, <1>8 DEF Await, TypeOK, queueVars
  <1>9. CASE Dispatch
    <2>1. totalTicks' \in Nat /\ phase' = "handlers"
      BY <1>0, <1>9, TickFacts DEF Dispatch, SwitchTo, TypeOK
    <2> QED BY <1>0, <1>9, <2>1 DEF Dispatch, SwitchTo, TypeOK
  <1>10. CASE Idle
    <2>1. totalTicks' \in Nat
      <3>1. CASE pending = <<>>
        BY <1>0, <1>10, <3>1 DEF Idle, TypeOK
      <3>2. CASE pending # <<>>
        <4>1. /\ totalTicks \in Nat /\ Head(pending).when \in Nat
          BY <1>0, <3>2, TailShape, ListFacts DEF TypeOK
        <4>2. totalTicks' = Max({totalTicks, Head(pending).when})
          BY <1>10, <3>2 DEF Idle
        <4> QED BY <4>1, <4>2 DEF Max
      <3> QED BY <3>1, <3>2
    <2> QED BY <1>0, <1>10, <2>1 DEF Idle, TypeOK, threadVars
  <1>11. CASE CallBack
    <2>1. pending' \in Seq(Interrupt)
      <3> DEFINE rest == Tail(pending)
      <3>1. rest \in Seq(Interrupt) /\ Sorted(rest)
        BY <1>0, <1>11, CallBackFacts
      <3>2. pending' = rest \/ \E item \in Interrupt : pending' = Insert(item, rest)
        BY <1>0, <1>11, CallBackFacts
      <3> HIDE DEF rest
      <3> QED BY <3>1, <3>2, InsertShape
    <2>2. /\ ready' \subseteq Threads
          /\ waitsFor' \in [Threads -> Devices \cup Pollers \cup {NoStatus}]
      <3>1. CASE UNCHANGED <<ready, waitsFor>>
        BY <1>0, <3>1 DEF TypeOK
      <3>2. CASE Wake(Head(pending).dev)
        BY <1>0, <3>2, WakeFacts
      <3> QED BY <1>0, <1>11, <3>1, <3>2, CallBackFacts
    <2>3. /\ UNCHANGED <<totalTicks, status, phase, currentThread, oldStatus, mode>>
          /\ yieldOnReturn' \in BOOLEAN
      BY <1>0, <1>11, CallBackFacts
    <2> QED BY <1>0, <2>1, <2>2, <2>3 DEF TypeOK
  <1>12. CASE Leave
    <2>1. CASE status = "IdleMode"
      BY <1>0, <1>12, <2>1 DEF Leave, LeaveIdle, TypeOK
    <2>2. CASE status # "IdleMode" /\ yieldOnReturn
      <3>1. /\ yieldOnReturn' = FALSE /\ status' = "SystemMode"
            /\ oldStatus' = [oldStatus EXCEPT ![currentThread] = Outermost]
            /\ YieldBody("SystemMode")
            /\ UNCHANGED <<pending, waitsFor, mode>>
        BY <1>12, <2>2 DEF Leave, LeaveOneTick
      <3>2. /\ totalTicks' \in Nat /\ phase' = "handlers"
            /\ \/ UNCHANGED <<currentThread, ready>>
               \/ /\ currentThread' \in ready
                  /\ ready' = (ready \ {currentThread'}) \cup {currentThread}
        BY <1>0, <3>1, YieldFacts
      <3>3. Outermost \in {"SystemMode", "UserMode", NoStatus}
        BY <1>0, <2>2 DEF Outermost, TypeOK
      <3> QED BY <1>0, <3>1, <3>2, <3>3 DEF TypeOK
    <2>3. CASE status # "IdleMode" /\ ~ yieldOnReturn
      <3>1. /\ status' = Outermost
            /\ oldStatus' = [oldStatus EXCEPT ![currentThread] = NoStatus]
            /\ phase' = "run"
            /\ UNCHANGED <<totalTicks, yieldOnReturn, currentThread, ready,
                           pending, waitsFor, mode>>
        BY <1>12, <2>3 DEF Leave, LeaveOneTick
      <3>2. Outermost \in {"SystemMode", "UserMode"}
        BY <1>0, <2>3 DEF Outermost, TypeOK
      <3> QED BY <1>0, <3>1, <3>2 DEF TypeOK
    <2> QED BY <2>1, <2>2, <2>3
  <1>13. CASE UNCHANGED vars
    BY <1>0, <1>13 DEF TypeOK, vars, queueVars, machineVars, threadVars
  <1> QED BY <1>1, <1>2, <1>3, <1>4, <1>5, <1>6, <1>7, <1>8, <1>9, <1>10,
             <1>11, <1>12, <1>13 DEF Next

\* Outside Thread::Sleep the current thread waits for nothing.
LEMMA CurrentAwake ==
    ASSUME InterruptsInv, \/ phase = "run"
                          \/ phase = "handlers" /\ status # "IdleMode"
    PROVE  /\ currentThread \in Threads /\ currentThread \notin ready
           /\ waitsFor[currentThread] = NoStatus
           /\ status # "IdleMode"
  <1>1. ~ Sleeping /\ status # "IdleMode"
    BY DEF InterruptsInv, StatusExact, Sleeping
  <1>2. currentThread \in Threads
    BY DEF InterruptsInv, TypeOK
  <1> QED BY <1>1, <1>2 DEF InterruptsInv, ThreadsExact

\* A step that leaves the list and the sleeping threads alone.
LEMMA PendingQuiet ==
    ASSUME PendingExact, UNCHANGED <<pending, waitsFor>>, phase' # "halted"
    PROVE  PendingExact'
  BY DEF PendingExact, Once

\* What PendingExact says of one device.
Matched(d) ==
    IF d \in Devices /\ ~ \E t \in Threads : waitsFor[t] = d
    THEN Never(d, pending)
    ELSE Once(d, pending)

OneSleeperEach ==
    \A t, u \in Threads :
        waitsFor[t] = waitsFor[u] /\ waitsFor[t] # NoStatus => t = u

LEMMA PendingByDevice ==
    PendingExact <=> /\ \A d \in AllDevices : Matched(d)
                     /\ OneSleeperEach
                     /\ phase # "halted"
  <1>1. \A d \in {Timer} \cup Pollers : d \notin Devices
    BY KindsOfDevices
  <1>2. (\A d \in AllDevices : Matched(d)) <=>
          /\ \A d \in {Timer} \cup Pollers : Once(d, pending)
          /\ \A d \in Devices : IF \E t \in Threads : waitsFor[t] = d
                                THEN Once(d, pending) ELSE Never(d, pending)
    BY <1>1, Zenon DEF Matched, AllDevices
  <1> QED BY <1>2, Zenon DEF PendingExact, OneSleeperEach, Never

LEMMA PendingByDeviceNext ==
    ASSUME \A d \in AllDevices : Matched(d)', OneSleeperEach', phase' # "halted"
    PROVE  PendingExact'
  <1>1. \A d \in {Timer} \cup Pollers : d \notin Devices
    BY KindsOfDevices
  <1>2. /\ \A d \in {Timer} \cup Pollers : Once(d, pending')
        /\ \A d \in Devices : IF \E t \in Threads : waitsFor'[t] = d
                              THEN Once(d, pending') ELSE Never(d, pending')
    BY <1>1, Zenon DEF Matched, AllDevices
  <1> QED BY <1>2, Zenon DEF PendingExact, OneSleeperEach, Never

\* An interrupt handler takes its device's interrupt away, and the device
\* schedules itself again or has no sleeper any more.
LEMMA CallBackMatched ==
    ASSUME InterruptsInv, CallBack
    PROVE  Sorted(pending') /\ PendingExact'
  <1> DEFINE rest == Tail(pending)
             h == Head(pending).dev
  <1>0. TypeOK /\ Sorted(pending) /\ PendingExact
    BY DEF InterruptsInv
  <1>1. /\ pending # <<>> /\ pending \in Seq(Interrupt) /\ h \in AllDevices
        /\ rest \in Seq(Interrupt) /\ Sorted(rest)
        /\ phase = "handlers" /\ phase' = phase
    BY <1>0, CallBackFacts DEF TypeOK
  <1>2. \/ /\ h \in {Timer} \cup Pollers
           /\ \E item \in Interrupt : item.dev = h /\ pending' = Insert(item, rest)
           /\ Wake(h) \/ UNCHANGED <<ready, waitsFor>>
        \/ h \in Devices /\ pending' = rest /\ Wake(h)
    BY <1>0, CallBackFacts
  <1>3. \A d : /\ d = h /\ Once(d, pending) => Never(d, rest)
               /\ d # h /\ Once(d, pending) => Once(d, rest)
               /\ Never(d, pending) => (Never(d, rest) /\ d # h)
    BY <1>1, TailOnce
  <1> HIDE DEF rest, h
  <1>4. /\ \A d \in AllDevices : Matched(d)
        /\ OneSleeperEach
    BY <1>0, PendingByDevice
  <1>5. h # NoStatus
    BY <1>1, KindsOfDevices DEF AllDevices
  <1>6. \A t \in Threads :
          \/ waitsFor'[t] = waitsFor[t]
          \/ waitsFor[t] = h /\ waitsFor'[t] = NoStatus
    BY <1>0, <1>2, WakeFacts
  <1>7. OneSleeperEach'
    BY <1>4, <1>6 DEF OneSleeperEach
  <1>8. \A d \in Devices :
          d # h => ((\E t \in Threads : waitsFor'[t] = d) <=>
                    (\E t \in Threads : waitsFor[t] = d))
    BY <1>5, <1>6, KindsOfDevices
  <1>9. CASE h \in {Timer} \cup Pollers
    <2>1. PICK item \in Interrupt : item.dev = h /\ pending' = Insert(item, rest)
      BY <1>2, <1>9, KindsOfDevices
    <2>2. h \notin Devices
      BY <1>9, KindsOfDevices
    <2>3. Never(h, rest)
      BY <1>1, <1>3, <1>4, <2>2 DEF Matched
    <2>4. /\ Sorted(pending') /\ Once(h, pending')
          /\ \A d : /\ d # h /\ Once(d, rest) => Once(d, pending')
                    /\ d # h /\ Never(d, rest) => Never(d, pending')
      BY <1>1, <2>1, <2>3, InsertSorted, InsertOnce
    <2>5. \A d \in AllDevices : Matched(d)'
      <3> SUFFICES ASSUME NEW d \in AllDevices PROVE Matched(d)'
        OBVIOUS
      <3>1. CASE d = h
        BY <2>2, <2>4, <3>1 DEF Matched
      <3>2. CASE d # h
        BY <1>3, <1>4, <1>8, <2>4, <3>2 DEF Matched
      <3> QED BY <3>1, <3>2
    <2> QED BY <1>1, <1>7, <2>4, <2>5, PendingByDeviceNext
  <1>10. CASE h \in Devices
    <2>1. pending' = rest /\ Wake(h)
      BY <1>2, <1>10, KindsOfDevices
    <2>2. \A t \in Threads : waitsFor'[t] # h
      BY <1>0, <1>5, <2>1, WakeFacts
    <2>3. \A d \in AllDevices : Matched(d)'
      <3> SUFFICES ASSUME NEW d \in AllDevices PROVE Matched(d)'
        OBVIOUS
      <3>1. CASE d = h
        <4>1. Never(d, pending')
          BY <1>3, <1>4, <2>1, <3>1 DEF Matched
        <4> QED BY <1>10, <2>2, <3>1, <4>1 DEF Matched
      <3>2. CASE d # h
        BY <1>3, <1>4, <1>8, <2>1, <3>2 DEF Matched
      <3> QED BY <3>1, <3>2
    <2> QED BY <1>1, <1>7, <2>1, <2>3, PendingByDeviceNext
  <1> QED BY <1>1, <1>9, <1>10 DEF AllDevices

\* A request puts one interrupt into the list, for the device the current
\* thread starts to wait for, and not before the next tick.
LEMMA RequestMatched ==
    ASSUME InterruptsInv, NEW d \in Devices, Request(d)
    PROVE  Sorted(pending') /\ NoneOverdue' /\ PendingExact'
  <1>0. /\ TypeOK /\ Sorted(pending) /\ PendingExact /\ NoneOverdue
        /\ phase = "run" /\ phase' = "sleep" /\ totalTicks' = totalTicks
        /\ \A t \in Threads : waitsFor[t] # d
        /\ waitsFor' = [waitsFor EXCEPT ![currentThread] = d]
        /\ Schedule(d, pending)
    BY DEF InterruptsInv, Request, InKernel
  <1>1. currentThread \in Threads /\ waitsFor[currentThread] = NoStatus
    BY <1>0, CurrentAwake
  <1>2. /\ d \in AllDevices /\ d # NoStatus
        /\ totalTicks \in Nat /\ pending \in Seq(Interrupt)
    BY <1>0, KindsOfDevices DEF AllDevices, TypeOK
  <1>3. PICK item \in Interrupt : /\ item.dev = d
                                  /\ item.when > totalTicks
                                  /\ pending' = Insert(item, pending)
    BY <1>0, <1>2, ScheduleFacts
  <1>4. /\ \A e \in AllDevices : Matched(e)
        /\ OneSleeperEach
    BY <1>0, PendingByDevice
  <1>5. Never(d, pending)
    BY <1>0, <1>2, <1>4 DEF Matched
  <1>6. /\ Sorted(pending') /\ Once(d, pending')
        /\ \A e : /\ e # d /\ Once(e, pending) => Once(e, pending')
                  /\ e # d /\ Never(e, pending) => Never(e, pending')
    BY <1>0, <1>2, <1>3, <1>5, InsertSorted, InsertOnce
  <1>7. \A t \in Threads :
          waitsFor'[t] = IF t = currentThread THEN d ELSE waitsFor[t]
    BY <1>0 DEF TypeOK
  <1>8. OneSleeperEach'
    BY <1>0, <1>4, <1>7 DEF OneSleeperEach
  <1>9. \A e \in AllDevices : Matched(e)'
    <2> SUFFICES ASSUME NEW e \in AllDevices PROVE Matched(e)'
      OBVIOUS
    <2>1. CASE e = d
      BY <1>1, <1>6, <1>7, <2>1 DEF Matched
    <2>2. CASE e # d
      <3>1. e \in Devices => ((\E t \in Threads : waitsFor'[t] = e) <=>
                              (\E t \in Threads : waitsFor[t] = e))
        BY <1>1, <1>7, <2>2, KindsOfDevices
      <3> QED BY <1>4, <1>6, <2>2, <3>1 DEF Matched
    <2> QED BY <2>1, <2>2
  <1>10. PendingExact'
    BY <1>0, <1>8, <1>9, PendingByDeviceNext
  <1>11. NoneOverdue'
    <2>1. \A i \in DOMAIN pending : pending[i].when > totalTicks
      BY <1>0 DEF NoneOverdue
    <2>2. \A i \in DOMAIN pending' : pending'[i].when > totalTicks
      BY <1>0, <1>2, <1>3, <2>1, InsertItems
    <2> QED BY <1>0, <2>2 DEF NoneOverdue
  <1> QED BY <1>6, <1>10, <1>11

LEMMA AwaitMatched ==
    ASSUME InterruptsInv, NEW d \in Pollers, Await(d)
    PROVE  PendingExact'
  <1>0. /\ TypeOK /\ PendingExact
        /\ phase = "run" /\ phase' = "sleep" /\ pending' = pending
        /\ \A t \in Threads : waitsFor[t] # d
        /\ waitsFor' = [waitsFor EXCEPT ![currentThread] = d]
    BY DEF InterruptsInv, Await, InKernel, queueVars
  <1>1. currentThread \in Threads /\ waitsFor[currentThread] = NoStatus
    BY <1>0, CurrentAwake
  <1>2. d \notin Devices
    BY KindsOfDevices
  <1>3. /\ \A e \in AllDevices : Matched(e)
        /\ OneSleeperEach
    BY <1>0, PendingByDevice
  <1>4. \A t \in Threads :
          waitsFor'[t] = IF t = currentThread THEN d ELSE waitsFor[t]
    BY <1>0 DEF TypeOK
  <1>5. OneSleeperEach'
    BY <1>0, <1>3, <1>4 DEF OneSleeperEach
  <1>6. \A e \in Devices : (\E t \in Threads : waitsFor'[t] = e) <=>
                           (\E t \in Threads : waitsFor[t] = e)
    BY <1>1, <1>2, <1>4, KindsOfDevices
  <1>7. \A e \in AllDevices : Matched(e)'
    BY <1>0, <1>3, <1>6 DEF Matched
  <1> QED BY <1>0, <1>5, <1>7, PendingByDeviceNext

\* What CheckIfDue leaves behind is not due.
LEMMA NotDue ==
    ASSUME TypeOK, Sorted(pending), ~ Due
    PROVE  \A i \in DOMAIN pending : pending[i].when > totalTicks
  <1>0. pending \in Seq(Interrupt) /\ totalTicks \in Nat
    BY DEF TypeOK
  <1>1. CASE pending = <<>>
    BY <1>1
  <1>2. CASE pending # <<>>
    <2>1. 1 \in DOMAIN pending /\ Head(pending) = pending[1]
      BY <1>0, <1>2, TailShape
    <2>2. pending[1].when > totalTicks
      BY <1>0, <1>2, <2>1, ListFacts DEF Due
    <2>3. \A i \in DOMAIN pending : 1 <= i
      BY <1>0, ListFacts
    <2>4. \A i \in DOMAIN pending : pending[1].when <= pending[i].when
      BY <2>1, <2>3 DEF Sorted
    <2>5. \A i \in DOMAIN pending : pending[i].when \in Nat
      BY <1>0, ListFacts
    <2> QED BY <1>0, <2>1, <2>2, <2>4, <2>5
  <1> QED BY <1>1, <1>2

LEMMA PendingNeverEmpty ==
    ASSUME PendingExact
    PROVE  pending # <<>>
  <1>1. Once(Timer, pending)
    BY DEF PendingExact
  <1>2. DOMAIN pending # {}
    BY <1>1 DEF Once
  <1> QED BY <1>2

LEMMA InterruptsPending ==
    ASSUME InterruptsInv, [Next]_vars
    PROVE  Sorted(pending') /\ NoneOverdue' /\ PendingExact'
  <1>0. /\ TypeOK /\ Sorted(pending) /\ NoneOverdue /\ PendingExact
        /\ phase # "halted"
    BY DEF InterruptsInv, PendingExact
  <1>1. CASE Run \/ RaiseException \/ UNCHANGED vars
    <2>1. /\ UNCHANGED <<pending, waitsFor, totalTicks, phase>>
      BY <1>1 DEF Run, RaiseException, vars, queueVars, machineVars, threadVars
    <2> QED BY <1>0, <2>1, PendingQuiet DEF NoneOverdue
  <1>2. CASE Instruction \/ ReturnToUser \/ Enable \/ Yield \/ Dispatch
    <2>1. UNCHANGED <<pending, waitsFor>> /\ phase' = "handlers"
      BY <1>2 DEF Instruction, ReturnToUser, Enable, Yield, Dispatch, Tick,
                  YieldBody, SwitchTo, threadVars
    <2> QED BY <1>0, <2>1, PendingQuiet DEF NoneOverdue
  <1>3. ASSUME NEW d \in Devices, Request(d)
        PROVE  Sorted(pending') /\ NoneOverdue' /\ PendingExact'
    BY <1>3, RequestMatched
  <1>4. ASSUME NEW d \in Pollers, Await(d)
        PROVE  Sorted(pending') /\ NoneOverdue' /\ PendingExact'
    <2>1. UNCHANGED queueVars /\ phase = "run"
      BY <1>4 DEF Await, InKernel
    <2> QED BY <1>0, <1>4, <2>1, AwaitMatched DEF NoneOverdue, queueVars
  <1>5. CASE Idle
    <2>1. UNCHANGED <<pending, waitsFor>> /\ phase' = "handlers"
      BY <1>0, <1>5, PendingNeverEmpty DEF Idle, threadVars
    <2> QED BY <1>0, <2>1, PendingQuiet DEF NoneOverdue
  <1>6. CASE CallBack
    <2>1. phase' = "handlers"
      BY <1>6 DEF CallBack
    <2> QED BY <1>6, <2>1, CallBackMatched DEF NoneOverdue
  <1>7. CASE Leave
    <2>1. /\ UNCHANGED <<pending, waitsFor>> /\ ~ Due
          /\ \/ phase' = "handlers"
             \/ phase' # "halted" /\ totalTicks' = totalTicks
      BY <1>7 DEF Leave, LeaveIdle, LeaveOneTick, YieldBody, SwitchTo, Tick
    <2>2. \A i \in DOMAIN pending : pending[i].when > totalTicks
      BY <1>0, <2>1, NotDue
    <2> QED BY <1>0, <2>1, <2>2, PendingQuiet DEF NoneOverdue
  <1> QED BY <1>1, <1>2, <1>3, <1>4, <1>5, <1>6, <1>7 DEF Next

\* A step after which the same thread is current and awake or asleep as
\* before, and nobody else is concerned.
LEMMA ThreadsQuiet ==
    ASSUME ThreadsExact, UNCHANGED <<ready, waitsFor, currentThread>>,
           Sleeping' <=> Sleeping
    PROVE  ThreadsExact'
  BY DEF ThreadsExact

\* The first status of OneTick's thread is never IdleMode.
LEMMA OutermostTyped ==
    ASSUME TypeOK, status # "IdleMode"
    PROVE  Outermost \in {"SystemMode", "UserMode"}
  BY DEF Outermost, TypeOK

\* The other ready thread that Thread::Yield goes on with.
LEMMA YieldThreads ==
    ASSUME TypeOK, ThreadsExact, ~ Sleeping, ~ Sleeping', waitsFor' = waitsFor,
           \/ UNCHANGED <<currentThread, ready>>
           \/ /\ currentThread' \in ready
              /\ ready' = (ready \ {currentThread'}) \cup {currentThread}
    PROVE  ThreadsExact'
  BY DEF TypeOK, ThreadsExact

LEMMA InterruptsThreads ==
    ASSUME InterruptsInv, [Next]_vars
    PROVE  ThreadsExact'
  <1>0. TypeOK /\ Sorted(pending) /\ PendingExact /\ ThreadsExact /\ StatusExact
    BY DEF InterruptsInv
  <1>1. CASE Run \/ RaiseException \/ Instruction \/ ReturnToUser \/ Enable
    <2>1. /\ phase = "run" /\ phase' \in {"run", "handlers"}
          /\ status' \in {status, "UserMode", "SystemMode"}
          /\ UNCHANGED <<ready, waitsFor, currentThread>>
      BY <1>1 DEF Run, RaiseException, Instruction, ReturnToUser, Enable, Tick,
                  InKernel, InUser, threadVars
    <2>2. status # "IdleMode"
      BY <2>1, CurrentAwake
    <2> QED BY <1>0, <2>1, <2>2, ThreadsQuiet DEF Sleeping
  <1>2. CASE Yield
    <2>1. /\ phase = "run" /\ YieldBody(status)
          /\ status' = status /\ waitsFor' = waitsFor
      BY <1>2 DEF Yield, InKernel
    <2>2. status # "IdleMode"
      BY <2>1, CurrentAwake
    <2>3. /\ phase' = "handlers"
          /\ \/ UNCHANGED <<currentThread, ready>>
             \/ /\ currentThread' \in ready
                /\ ready' = (ready \ {currentThread'}) \cup {currentThread}
      BY <1>0, <2>1, YieldFacts
    <2> QED BY <1>0, <2>1, <2>2, <2>3, YieldThreads DEF Sleeping
  <1>3. ASSUME NEW d \in Devices \cup Pollers, Request(d) \/ Await(d)
        PROVE  ThreadsExact'
    <2>1. /\ phase = "run" /\ phase' = "sleep"
          /\ waitsFor' = [waitsFor EXCEPT ![currentThread] = d]
          /\ UNCHANGED <<ready, currentThread>>
      BY <1>3 DEF Request, Await, InKernel
    <2>2. /\ currentThread \in Threads /\ currentThread \notin ready
          /\ waitsFor[currentThread] = NoStatus
      BY <2>1, CurrentAwake
    <2>3. d # NoStatus
      BY KindsOfDevices
    <2>4. \A t \in Threads :
            waitsFor'[t] = IF t = currentThread THEN d ELSE waitsFor[t]
      BY <1>0, <2>1 DEF TypeOK
    <2> QED BY <1>0, <2>1, <2>2, <2>3, <2>4 DEF ThreadsExact, Sleeping
  <1>4. CASE Dispatch
    <2>1. /\ phase = "sleep" /\ phase' = "handlers"
          /\ currentThread' \in ready /\ ready' = ready \ {currentThread'}
          /\ UNCHANGED <<status, waitsFor>>
      BY <1>4 DEF Dispatch, SwitchTo, Tick
    <2>2. status = "SystemMode" /\ Sleeping
      BY <1>0, <2>1 DEF StatusExact, Sleeping
    <2>3. ~ Sleeping'
      BY <2>1, <2>2 DEF Sleeping
    <2> QED BY <1>0, <2>1, <2>2, <2>3 DEF ThreadsExact, TypeOK
  <1>5. CASE Idle
    <2>1. /\ phase = "sleep" /\ status' = "IdleMode"
          /\ UNCHANGED <<ready, waitsFor, currentThread>>
      BY <1>5 DEF Idle, threadVars
    <2> QED BY <1>0, <2>1, ThreadsQuiet DEF Sleeping
  <1>6. CASE CallBack
    <2> DEFINE h == Head(pending).dev
    <2>1. /\ UNCHANGED <<status, phase, currentThread>>
          /\ h \in AllDevices
          /\ Wake(h) \/ UNCHANGED <<ready, waitsFor>>
      BY <1>0, <1>6, CallBackFacts
    <2> HIDE DEF h
    <2>2. Sleeping' <=> Sleeping
      BY <2>1 DEF Sleeping
    <2>3. h # NoStatus
      BY <2>1, KindsOfDevices DEF AllDevices
    <2>4. CASE UNCHANGED <<ready, waitsFor>>
      BY <1>0, <2>1, <2>2, <2>4, ThreadsQuiet
    <2>5. CASE Wake(h)
      <3>1. \A t \in Threads :
              /\ t \in ready' <=> t \in ready \/ waitsFor[t] = h
              /\ waitsFor'[t] = IF waitsFor[t] = h THEN NoStatus ELSE waitsFor[t]
        BY <1>0, <2>5, WakeFacts
      <3> QED BY <1>0, <2>1, <2>2, <2>3, <3>1 DEF ThreadsExact
    <2> QED BY <2>1, <2>4, <2>5
  <1>7. CASE Leave
    <2>1. phase = "handlers" /\ waitsFor' = waitsFor
      BY <1>7 DEF Leave
    <2>2. CASE status = "IdleMode"
      <3>1. phase' = "sleep" /\ UNCHANGED <<ready, currentThread>>
        BY <1>7, <2>2 DEF Leave, LeaveIdle
      <3> QED BY <1>0, <2>1, <2>2, <3>1, ThreadsQuiet DEF Sleeping
    <2>3. CASE status # "IdleMode" /\ yieldOnReturn
      <3>1. status' = "SystemMode" /\ YieldBody("SystemMode")
        BY <1>7, <2>3 DEF Leave, LeaveOneTick
      <3>2. /\ phase' = "handlers"
            /\ \/ UNCHANGED <<currentThread, ready>>
               \/ /\ currentThread' \in ready
                  /\ ready' = (ready \ {currentThread'}) \cup {currentThread}
        BY <1>0, <3>1, YieldFacts
      <3> QED BY <1>0, <2>1, <2>3, <3>1, <3>2, YieldThreads DEF Sleeping
    <2>4. CASE status # "IdleMode" /\ ~ yieldOnReturn
      <3>1. /\ status' = Outermost /\ phase' = "run"
            /\ UNCHANGED <<currentThread, ready>>
        BY <1>7, <2>4 DEF Leave, LeaveOneTick
      <3>2. status' # "IdleMode"
        BY <1>0, <2>4, <3>1, OutermostTyped
      <3> QED BY <1>0, <2>1, <2>4, <3>1, <3>2, ThreadsQuiet DEF Sleeping
    <2> QED BY <2>2, <2>3, <2>4
  <1>8. CASE UNCHANGED vars
    <2>1. UNCHANGED <<ready, waitsFor, currentThread, phase, status>>
      BY <1>8 DEF vars, machineVars, threadVars
    <2> QED BY <1>0, <2>1, ThreadsQuiet DEF Sleeping
  <1> QED BY <1>1, <1>2, <1>3, <1>4, <1>5, <1>6, <1>7, <1>8 DEF Next

\* The parts of StatusExact: what the current thread is about to find, and
\* what each thread has kept on its stack.
CurrentStatus ==
    /\ phase = "run" => status = Natural(currentThread)
    /\ phase = "handlers" /\ status # "IdleMode" =>
         Outermost = Natural(currentThread)
    /\ phase = "sleep" \/ status = "IdleMode" =>
         mode[currentThread] # "user"

KeptStatus ==
    \A t \in Threads :
        /\ oldStatus[t] # NoStatus => oldStatus[t] = Natural(t)
        /\ t # currentThread /\ mode[t] = "user" => oldStatus[t] = "UserMode"

StatusOfPhase ==
    /\ phase = "sleep" => status = "SystemMode"
    /\ status = "IdleMode" => phase = "handlers" /\ ~ yieldOnReturn
    /\ yieldOnReturn => phase = "handlers"
    /\ phase \in {"run", "sleep"} => oldStatus[currentThread] = NoStatus
    /\ oldStatus[currentThread] # NoStatus => status = "SystemMode"

LEMMA StatusParts ==
    ASSUME TypeOK, phase # "halted"
    PROVE  StatusExact <=> CurrentStatus /\ KeptStatus /\ StatusOfPhase
  <1>1. phase \in {"run", "handlers", "sleep"}
    BY DEF TypeOK
  <1> QED BY <1>1 DEF StatusExact, CurrentStatus, KeptStatus, StatusOfPhase

LEMMA StatusPartsNext ==
    ASSUME TypeOK', phase' # "halted",
           CurrentStatus', KeptStatus', StatusOfPhase'
    PROVE  StatusExact'
  <1>1. phase' \in {"run", "handlers", "sleep"}
    BY DEF TypeOK
  <1> QED BY <1>1 DEF StatusExact, CurrentStatus, KeptStatus, StatusOfPhase

\* A tick in the middle of a thread's code, with its own status.
LEMMA StatusTick ==
    ASSUME TypeOK, CurrentStatus, KeptStatus, StatusOfPhase,
           phase = "run", phase' = "handlers",
           UNCHANGED <<status, yieldOnReturn, currentThread, oldStatus, mode>>
    PROVE  CurrentStatus' /\ KeptStatus' /\ StatusOfPhase'
  <1>1. status = Natural(currentThread) /\ oldStatus[currentThread] = NoStatus
    BY DEF CurrentStatus, StatusOfPhase
  <1>2. status # "IdleMode"
    BY <1>1 DEF Natural
  <1>3. CurrentStatus'
    BY <1>1, <1>2 DEF CurrentStatus, Outermost, Natural
  <1>4. KeptStatus'
    BY DEF KeptStatus, Natural
  <1>5. StatusOfPhase'
    BY <1>1, <1>2 DEF StatusOfPhase
  <1> QED BY <1>3, <1>4, <1>5

\* The current thread enters or leaves the user program, with the status for it.
LEMMA StatusEnters ==
    ASSUME TypeOK, CurrentStatus, KeptStatus, StatusOfPhase,
           NEW m \in {"user", "exception"}, Enters(m),
           phase = "run", phase' \in {"run", "handlers"},
           status' = IF m = "user" THEN "UserMode" ELSE "SystemMode",
           UNCHANGED <<yieldOnReturn, currentThread, oldStatus>>
    PROVE  CurrentStatus' /\ KeptStatus' /\ StatusOfPhase'
  <1>1. /\ currentThread \in Threads /\ oldStatus[currentThread] = NoStatus
        /\ ~ yieldOnReturn
    BY DEF StatusOfPhase, TypeOK
  <1>2. \A t \in Threads : mode'[t] = IF t = currentThread THEN m ELSE mode[t]
    BY DEF Enters, TypeOK
  <1>3. status' = Natural(currentThread)'
    BY <1>1, <1>2 DEF Natural
  <1>4. status' # "IdleMode"
    OBVIOUS
  <1>5. CurrentStatus'
    BY <1>1, <1>3, <1>4 DEF CurrentStatus, Outermost
  <1>6. KeptStatus'
    BY <1>1, <1>2 DEF KeptStatus, Natural
  <1>7. StatusOfPhase'
    BY <1>1, <1>4 DEF StatusOfPhase
  <1> QED BY <1>5, <1>6, <1>7

\* Another thread goes on, in system mode: it finds what it has kept.
LEMMA StatusSwitch ==
    ASSUME TypeOK, KeptStatus,
           NEW kept \in [Threads -> {"SystemMode", "UserMode", NoStatus}],
           \A t \in Threads : /\ kept[t] # NoStatus => kept[t] = Natural(t)
                              /\ mode[t] = "user" => kept[t] = "UserMode",
           oldStatus' = kept, currentThread' \in Threads,
           status' = "SystemMode", phase' = "handlers", mode' = mode,
           yieldOnReturn' = FALSE
    PROVE  CurrentStatus' /\ KeptStatus' /\ StatusOfPhase'
  <1>1. CurrentStatus'
    BY KindsOfDevices DEF CurrentStatus, Outermost, Natural
  <1>2. KeptStatus'
    BY DEF KeptStatus, Natural
  <1>3. StatusOfPhase'
    BY DEF StatusOfPhase
  <1> QED BY <1>1, <1>2, <1>3

\* No status but its own is left behind for any thread.
LEMMA InterruptsStatus ==
    ASSUME InterruptsInv, [Next]_vars, TypeOK', phase' # "halted"
    PROVE  StatusExact'
  <1>0. /\ TypeOK /\ Sorted(pending) /\ phase # "halted"
        /\ CurrentStatus /\ KeptStatus /\ StatusOfPhase
    BY StatusParts DEF InterruptsInv, PendingExact
  <1> SUFFICES CurrentStatus' /\ KeptStatus' /\ StatusOfPhase'
    BY StatusPartsNext
  <1>1. CASE Run
    BY <1>0, <1>1, StatusEnters DEF Run
  <1>2. CASE RaiseException
    BY <1>0, <1>2, StatusEnters DEF RaiseException, InUser
  <1>3. CASE ReturnToUser
    BY <1>0, <1>3, StatusEnters DEF ReturnToUser, Tick
  <1>4. CASE Instruction \/ Enable
    BY <1>0, <1>4, StatusTick
    DEF Instruction, Enable, InUser, InKernel, Tick, threadVars
  <1>5. CASE Yield
    <2>1. /\ phase = "run" /\ mode[currentThread] # "user"
          /\ YieldBody(status)
          /\ UNCHANGED <<status, yieldOnReturn, oldStatus, mode>>
      BY <1>5 DEF Yield, InKernel
    <2>2. status = "SystemMode" /\ ~ yieldOnReturn
      BY <1>0, <2>1 DEF CurrentStatus, StatusOfPhase, Natural
    <2>3. currentThread' \in Threads /\ phase' = "handlers"
      BY <1>0, <2>1, YieldFacts DEF TypeOK
    <2>4. \A t \in Threads :
            /\ oldStatus[t] # NoStatus => oldStatus[t] = Natural(t)
            /\ mode[t] = "user" => oldStatus[t] = "UserMode"
      BY <1>0, <2>1 DEF KeptStatus
    <2> QED BY <1>0, <2>1, <2>2, <2>3, <2>4, StatusSwitch DEF TypeOK
  <1>6. ASSUME NEW d \in Devices \cup Pollers, Request(d) \/ Await(d)
        PROVE  CurrentStatus' /\ KeptStatus' /\ StatusOfPhase'
    <2>1. /\ phase = "run" /\ mode[currentThread] # "user" /\ phase' = "sleep"
          /\ UNCHANGED <<status, yieldOnReturn, currentThread, oldStatus, mode>>
      BY <1>6 DEF Request, Await, InKernel
    <2>2. /\ status = "SystemMode" /\ ~ yieldOnReturn
          /\ oldStatus[currentThread] = NoStatus
      BY <1>0, <2>1 DEF CurrentStatus, StatusOfPhase, Natural
    <2>3. CurrentStatus' /\ StatusOfPhase'
      BY <2>1, <2>2 DEF CurrentStatus, StatusOfPhase
    <2>4. KeptStatus'
      BY <1>0, <2>1 DEF KeptStatus, Natural
    <2> QED BY <2>3, <2>4
  <1>7. CASE Dispatch
    <2>1. /\ phase = "sleep" /\ phase' = "handlers" /\ currentThread' \in ready
          /\ UNCHANGED <<status, yieldOnReturn, oldStatus, mode>>
      BY <1>7 DEF Dispatch, SwitchTo, Tick
    <2>2. /\ status = "SystemMode" /\ ~ yieldOnReturn
          /\ mode[currentThread] # "user"
      BY <1>0, <2>1 DEF CurrentStatus, StatusOfPhase
    <2>3. \A t \in Threads :
            /\ oldStatus[t] # NoStatus => oldStatus[t] = Natural(t)
            /\ mode[t] = "user" => oldStatus[t] = "UserMode"
      BY <1>0, <2>2 DEF KeptStatus
    <2> QED BY <1>0, <2>1, <2>2, <2>3, StatusSwitch DEF TypeOK
  <1>8. CASE Idle
    <2>1. /\ phase = "sleep" /\ status' = "IdleMode" /\ phase' = "handlers"
          /\ UNCHANGED <<yieldOnReturn, currentThread, oldStatus, mode>>
      BY <1>8 DEF Idle, threadVars
    <2>2. /\ ~ yieldOnReturn /\ mode[currentThread] # "user"
          /\ oldStatus[currentThread] = NoStatus
      BY <1>0, <2>1 DEF CurrentStatus, StatusOfPhase
    <2>3. CurrentStatus' /\ StatusOfPhase'
      BY <2>1, <2>2 DEF CurrentStatus, StatusOfPhase
    <2>4. KeptStatus'
      BY <1>0, <2>1 DEF KeptStatus, Natural
    <2> QED BY <2>3, <2>4
  <1>9. CASE CallBack
    <2>1. /\ phase = "handlers"
          /\ UNCHANGED <<status, phase, currentThread, oldStatus, mode>>
          /\ yieldOnReturn' # yieldOnReturn => status # "IdleMode"
          /\ yieldOnReturn' \in BOOLEAN
      BY <1>0, <1>9, CallBackFacts
    <2>2. CurrentStatus'
      BY <1>0, <2>1 DEF CurrentStatus, Outermost, Natural
    <2>3. StatusOfPhase'
      BY <1>0, <2>1 DEF StatusOfPhase
    <2>4. KeptStatus'
      BY <1>0, <2>1 DEF KeptStatus, Natural
    <2> QED BY <2>2, <2>3, <2>4
  <1>10. CASE Leave
    <2>1. phase = "handlers" /\ mode' = mode
      BY <1>10 DEF Leave
    <2>2. CASE status = "IdleMode"
      <3>1. /\ status' = "SystemMode" /\ phase' = "sleep"
            /\ UNCHANGED <<yieldOnReturn, currentThread, oldStatus>>
        BY <1>10, <2>2 DEF Leave, LeaveIdle
      <3>2. /\ ~ yieldOnReturn /\ mode[currentThread] # "user"
            /\ oldStatus[currentThread] = NoStatus
        BY <1>0, <2>1, <2>2 DEF CurrentStatus, StatusOfPhase
      <3>3. CurrentStatus' /\ StatusOfPhase'
        BY <2>1, <3>1, <3>2 DEF CurrentStatus, StatusOfPhase
      <3>4. KeptStatus'
        BY <1>0, <2>1, <3>1 DEF KeptStatus, Natural
      <3> QED BY <3>3, <3>4
    <2>3. CASE status # "IdleMode" /\ yieldOnReturn
      <3> DEFINE kept == [oldStatus EXCEPT ![currentThread] = Outermost]
      <3>1. /\ status' = "SystemMode" /\ yieldOnReturn' = FALSE
            /\ oldStatus' = kept /\ YieldBody("SystemMode")
        BY <1>10, <2>3 DEF Leave, LeaveOneTick
      <3>2. currentThread' \in Threads /\ phase' = "handlers"
        BY <1>0, <3>1, YieldFacts DEF TypeOK
      <3>3. /\ Outermost = Natural(currentThread)
            /\ Outermost \in {"SystemMode", "UserMode"}
        BY <1>0, <2>1, <2>3, OutermostTyped DEF CurrentStatus
      <3>4. /\ kept \in [Threads -> {"SystemMode", "UserMode", NoStatus}]
            /\ \A t \in Threads :
                 kept[t] = IF t = currentThread THEN Outermost ELSE oldStatus[t]
        BY <1>0, <3>3 DEF TypeOK
      <3> HIDE DEF kept
      <3>5. \A t \in Threads : /\ kept[t] # NoStatus => kept[t] = Natural(t)
                               /\ mode[t] = "user" => kept[t] = "UserMode"
        BY <1>0, <3>3, <3>4 DEF KeptStatus, Natural
      <3> QED BY <1>0, <2>1, <3>1, <3>2, <3>4, <3>5, StatusSwitch
    <2>4. CASE status # "IdleMode" /\ ~ yieldOnReturn
      <3>1. /\ status' = Outermost /\ phase' = "run"
            /\ oldStatus' = [oldStatus EXCEPT ![currentThread] = NoStatus]
            /\ UNCHANGED <<yieldOnReturn, currentThread>>
        BY <1>10, <2>4 DEF Leave, LeaveOneTick
      <3>2. /\ Outermost = Natural(currentThread)
            /\ Outermost \in {"SystemMode", "UserMode"}
        BY <1>0, <2>1, <2>4, OutermostTyped DEF CurrentStatus
      <3>3. /\ currentThread \in Threads
            /\ \A t \in Threads :
                 oldStatus'[t] = IF t = currentThread THEN NoStatus ELSE oldStatus[t]
        BY <1>0, <3>1 DEF TypeOK
      <3>4. CurrentStatus' /\ StatusOfPhase'
        BY <2>1, <2>4, <3>1, <3>2, <3>3 DEF CurrentStatus, StatusOfPhase, Natural
      <3>5. KeptStatus'
        BY <1>0, <2>1, <3>1, <3>3 DEF KeptStatus, Natural
      <3> QED BY <3>4, <3>5
    <2> QED BY <2>2, <2>3, <2>4
  <1>11. CASE UNCHANGED vars
    <2>1. UNCHANGED <<status, phase, yieldOnReturn, currentThread, oldStatus, mode>>
      BY <1>11 DEF vars, machineVars, threadVars
    <2> QED BY <1>0, <2>1
         DEF CurrentStatus, KeptStatus, StatusOfPhase, Outermost, Natural
  <1> QED BY <1>1, <1>2, <1>3, <1>4, <1>5, <1>6, <1>7, <1>8, <1>9, <1>10,
             <1>11 DEF Next

\* The simulated interrupts and the machine's status: no interrupt is overdue
\* when a thread runs, none is lost or there twice, every thread is in exactly
\* one place, and each finds its own status again (Interrupt::Schedule,
\* OneTick, Idle, CheckIfDue).
THEOREM InterruptsCorrect == Spec => []InterruptsInv
  <1>1. Init => InterruptsInv
    BY InterruptsInit
  <1>2. ASSUME InterruptsInv, [Next]_vars
        PROVE  InterruptsInv'
    <2>1. /\ TypeOK'
          /\ Sorted(pending') /\ NoneOverdue' /\ PendingExact'
          /\ ThreadsExact'
      BY <1>2, InterruptsTyped, InterruptsPending, InterruptsThreads
    <2>2. phase' # "halted"
      BY <2>1 DEF PendingExact
    <2>3. StatusExact'
      BY <1>2, <2>1, <2>2, InterruptsStatus
    <2> QED BY <2>1, <2>3 DEF InterruptsInv
  <1> QED BY <1>1, <1>2, PTL DEF Spec

-----------------------------------------------------------------------------
(* The refinement.                                                         *)

\* A non-empty set of positions has a largest one, which Max returns.
LEMMA MaxIsLargest ==
    ASSUME NEW n \in Nat, NEW T \in SUBSET (1 .. n), T # {}
    PROVE  Max(T) \in T /\ \A i \in T : i <= Max(T)
  <1> DEFINE distances == {n - i : i \in T}
  <1>0. \A i \in T : i \in 1 .. n /\ n - i \in Nat
    OBVIOUS
  <1>1. distances \in SUBSET Nat /\ distances # {}
    BY <1>0
  <1>2. PICK d \in distances : \A e \in distances : d <= e
    BY <1>1, Smallest
  <1>3. PICK m \in T : d = n - m
    OBVIOUS
  <1>4. \A i \in T : n - m <= n - i
    BY <1>2, <1>3
  <1>5. \A i \in T : m >= i
    BY <1>0, <1>3, <1>4
  <1>6. \E x \in T : \A y \in T : x >= y
    BY <1>5
  <1>7. Max(T) \in T /\ \A i \in T : Max(T) >= i
    BY <1>6, Zenon DEF Max
  <1> QED BY <1>7

\* The interrupts of time w are those at the positions f to l.
Block(w, list, f, l) ==
    /\ f \in 1 .. Len(list) /\ l \in 1 .. Len(list) /\ f <= l
    /\ \A i \in 1 .. Len(list) : list[i].when = w <=> f <= i /\ i <= l

\* In a sorted list the interrupts of one time stand together.
LEMMA TimesHaveBlocks ==
    ASSUME NEW list \in Seq(Interrupt), Sorted(list), NEW w \in TimesOf(list)
    PROVE  \E f, l : Block(w, list, f, l)
  <1> DEFINE T == AtTime(w, list)
             f == Min(T)
             l == Max(T)
  <1>1. /\ Len(list) \in Nat /\ DOMAIN list = 1 .. Len(list)
        /\ \A i \in 1 .. Len(list) : list[i].when \in Nat
    BY ListFacts
  <1>2. /\ T \in SUBSET (1 .. Len(list)) /\ T # {}
        /\ \A i \in 1 .. Len(list) : i \in T <=> list[i].when = w
    BY <1>1 DEF AtTime, TimesOf
  <1> HIDE DEF T
  <1>3. f \in T /\ \A i \in T : f <= i
    <2>1. T \in SUBSET Nat
      BY <1>1, <1>2
    <2> QED BY <1>2, <2>1, MinIsSmallest
  <1>4. l \in T /\ \A i \in T : i <= l
    BY <1>1, <1>2, MaxIsLargest
  <1> HIDE DEF f, l
  <1>5. ASSUME NEW i \in 1 .. Len(list), f <= i, i <= l
        PROVE  list[i].when = w
    <2>1. list[f].when <= list[i].when /\ list[i].when <= list[l].when
      BY <1>1, <1>2, <1>3, <1>4, <1>5 DEF Sorted
    <2>2. list[f].when = w /\ list[l].when = w /\ w \in Nat
      BY <1>1, <1>2, <1>3, <1>4
    <2> QED BY <1>1, <2>1, <2>2
  <1>6. Block(w, list, f, l)
    BY <1>1, <1>2, <1>3, <1>4, <1>5 DEF Block
  <1> QED BY <1>6

\* The calls of a time, read off its block.
LEMMA BlockCalls ==
    ASSUME NEW list \in Seq(Interrupt), NEW w, NEW f, NEW l,
           Block(w, list, f, l)
    PROVE  /\ w \in TimesOf(list)
           /\ CallsAt(w, list) = [k \in 1 .. l - f + 1 |-> list[f + k - 1].dev]
  <1> DEFINE T == AtTime(w, list)
  <1>1. Len(list) \in Nat /\ DOMAIN list = 1 .. Len(list)
    BY ListFacts
  <1>2. /\ f \in T /\ l \in T
        /\ \A i \in T : i \in 1 .. Len(list) /\ f <= i /\ i <= l
    BY <1>1 DEF Block, AtTime
  <1>3. w \in TimesOf(list)
    BY <1>1, <1>2 DEF AtTime, TimesOf
  <1> HIDE DEF T
  <1>4. T \in SUBSET (1 .. Len(list)) /\ T \in SUBSET Nat /\ T # {}
    BY <1>1, <1>2
  <1> DEFINE least == Min(T)
             most == Max(T)
  <1>5. least \in T /\ \A i \in T : least <= i
    BY <1>4, MinIsSmallest
  <1>6. most \in T /\ \A i \in T : i <= most
    BY <1>1, <1>4, MaxIsLargest
  <1> HIDE DEF least, most
  <1>7. least = f /\ most = l
    <2>1. /\ least <= f /\ f <= least /\ l <= most /\ most <= l
          /\ least \in Nat /\ most \in Nat /\ f \in Nat /\ l \in Nat
      BY <1>2, <1>4, <1>5, <1>6
    <2> QED BY <2>1
  <1> QED BY <1>3, <1>7 DEF CallsAt, T, least, most

\* Two agendas are the same if they call the same devices at the same times.
LEMMA CallsTyped ==
    ASSUME NEW list \in Seq(Interrupt), NEW w, NEW f, NEW l,
           Block(w, list, f, l)
    PROVE  /\ CallsAt(w, list) \in Seq(AllDevices)
           /\ Len(CallsAt(w, list)) = l - f + 1
           /\ \A k \in 1 .. l - f + 1 :
                CallsAt(w, list)[k] = list[f + k - 1].dev
  <1>1. CallsAt(w, list) = [k \in 1 .. l - f + 1 |-> list[f + k - 1].dev]
    BY BlockCalls
  <1>2. /\ Len(list) \in Nat
        /\ \A i \in 1 .. Len(list) : list[i].dev \in AllDevices
    BY ListFacts
  <1>3. l - f + 1 \in Nat /\ \A k \in 1 .. l - f + 1 : f + k - 1 \in 1 .. Len(list)
    BY <1>2 DEF Block
  <1>4. \A k \in 1 .. l - f + 1 : list[f + k - 1].dev \in AllDevices
    BY <1>2, <1>3
  <1> QED BY <1>1, <1>3, <1>4

\* Blocks of the same calls at other positions.
LEMMA SameCalls ==
    ASSUME NEW list \in Seq(Interrupt), NEW other \in Seq(Interrupt),
           NEW w, NEW f, NEW l, NEW g, NEW m,
           Block(w, list, f, l), Block(w, other, g, m), l - f = m - g,
           \A k \in 1 .. l - f + 1 : other[g + k - 1].dev = list[f + k - 1].dev
    PROVE  CallsAt(w, other) = CallsAt(w, list)
  <1>1. m - g + 1 = l - f + 1
    OBVIOUS
  <1> DEFINE s == CallsAt(w, list)
             t == CallsAt(w, other)
  <1>2. /\ s \in Seq(AllDevices) /\ Len(s) = l - f + 1
        /\ \A k \in 1 .. l - f + 1 : s[k] = list[f + k - 1].dev
    BY CallsTyped
  <1>3. /\ t \in Seq(AllDevices) /\ Len(t) = m - g + 1
        /\ \A k \in 1 .. m - g + 1 : t[k] = other[g + k - 1].dev
    BY CallsTyped
  <1> HIDE DEF s, t
  <1>4. Len(t) = Len(s) /\ \A k \in 1 .. Len(t) : t[k] = s[k]
    BY <1>1, <1>2, <1>3
  <1>5. t = s
    BY <1>2, <1>3, <1>4, SeqEqual
  <1> QED BY <1>5 DEF s, t

\* SortedList::Insert adds one call, behind the others of its time.
LEMMA InsertCalls ==
    ASSUME NEW list \in Seq(Interrupt), Sorted(list), NEW item \in Interrupt,
           NEW x
    PROVE  /\ TimesOf(Insert(item, list)) = TimesOf(list) \cup {item.when}
           /\ x \in TimesOf(list) /\ x # item.when =>
                CallsAt(x, Insert(item, list)) = CallsAt(x, list)
           /\ x = item.when /\ x \in TimesOf(list) =>
                CallsAt(x, Insert(item, list)) = Append(CallsAt(x, list), item.dev)
           /\ x = item.when /\ x \notin TimesOf(list) =>
                CallsAt(x, Insert(item, list)) = <<item.dev>>
  <1> DEFINE new == Insert(item, list)
             w == item.when
             d == item.dev
             n == Len(list)
  <1>0. /\ n \in Nat /\ DOMAIN list = 1 .. n
        /\ \A i \in 1 .. n : list[i].when \in Nat
        /\ w \in Nat /\ d \in AllDevices
    BY ListFacts DEF Interrupt
  <1>1. new \in Seq(Interrupt) /\ Len(new) = n + 1 /\ DOMAIN new = 1 .. n + 1
    BY InsertShape
  <1>2. PICK p \in 1 .. n + 1 :
          /\ \A i \in 1 .. n : i < p <=> list[i].when <= w
          /\ \A i \in 1 .. n + 1 :
               new[i] = IF i < p THEN list[i]
                        ELSE IF i = p THEN item ELSE list[i - 1]
    BY InsertShape
  <1>3. /\ \A i \in 1 .. n : i < p => i \in 1 .. n + 1 /\ new[i] = list[i]
        /\ \A i \in 1 .. n : ~ (i < p) => i + 1 \in 1 .. n + 1 /\ new[i + 1] = list[i]
        /\ p \in 1 .. n + 1 /\ new[p] = item
        /\ \A i \in 1 .. n + 1 : \/ i < p /\ i \in 1 .. n
                                 \/ i = p
                                 \/ p < i /\ i - 1 \in 1 .. n /\ ~ (i - 1 < p)
    BY <1>0, <1>2
  <1> HIDE DEF new
  <1>4. TimesOf(new) = TimesOf(list) \cup {w}
    <2>1. \A i \in 1 .. n + 1 : new[i].when \in TimesOf(list) \cup {w}
      <3> SUFFICES ASSUME NEW i \in 1 .. n + 1
                   PROVE  new[i].when \in TimesOf(list) \cup {w}
        OBVIOUS
      <3>1. CASE i < p
        <4>1. i \in DOMAIN list /\ new[i] = list[i]
          BY <1>0, <1>3, <3>1
        <4> QED BY <4>1 DEF TimesOf
      <3>2. CASE i = p
        BY <1>3, <3>2
      <3>3. CASE p < i
        BY <1>0, <1>2, <1>3, <3>3 DEF TimesOf
      <3> QED BY <1>3, <3>1, <3>2, <3>3
    <2>2. \A i \in 1 .. n : \E j \in 1 .. n + 1 : new[j].when = list[i].when
      BY <1>3
    <2>3. \E j \in 1 .. n + 1 : new[j].when = w
      BY <1>3
    <2>4. \A i \in 1 .. n + 1 : new[i].when \in TimesOf(new)
      BY <1>1 DEF TimesOf
    <2>5. TimesOf(list) \subseteq TimesOf(new)
      BY <1>0, <2>2, <2>4 DEF TimesOf
    <2>6. TimesOf(new) \subseteq TimesOf(list) \cup {w}
      BY <1>1, <2>1 DEF TimesOf
    <2> QED BY <2>3, <2>4, <2>5, <2>6
  <1>5. ASSUME x \in TimesOf(list), x # w
        PROVE  CallsAt(x, new) = CallsAt(x, list)
    <2>1. PICK f, l : Block(x, list, f, l)
      BY <1>5, TimesHaveBlocks
    <2>2. /\ f \in 1 .. n /\ l \in 1 .. n /\ f <= l /\ x \in Nat
          /\ list[f].when = x /\ list[l].when = x
          /\ \A i \in 1 .. n : list[i].when = x <=> f <= i /\ i <= l
      BY <1>0, <2>1 DEF Block
    <2>3. CASE x < w
      <3>1. l < p
        BY <1>0, <1>2, <2>2, <2>3
      <3>2. \A i \in 1 .. n + 1 : new[i].when = x <=> f <= i /\ i <= l
        <4> SUFFICES ASSUME NEW i \in 1 .. n + 1
                     PROVE  new[i].when = x <=> f <= i /\ i <= l
          OBVIOUS
        <4>1. CASE i < p
          BY <1>3, <2>2, <4>1
        <4>2. CASE i = p
          BY <1>0, <1>3, <2>2, <2>3, <3>1, <4>2
        <4>3. CASE p < i
          <5>1. new[i].when > w
            BY <1>0, <1>2, <1>3, <4>3
          <5> QED BY <1>0, <2>2, <2>3, <3>1, <4>3, <5>1
        <4> QED BY <1>3, <4>1, <4>2, <4>3
      <3>3. Block(x, new, f, l)
        BY <1>0, <1>1, <2>2, <3>2 DEF Block
      <3>4. \A k \in 1 .. l - f + 1 :
              f + k - 1 \in 1 .. n /\ new[f + k - 1].dev = list[f + k - 1].dev
        BY <1>0, <1>3, <2>2, <3>1
      <3> QED BY <1>1, <2>1, <3>3, <3>4, SameCalls
    <2>4. CASE w < x
      <3>1. ~ (f < p) /\ p <= f
        BY <1>0, <1>2, <2>2, <2>4
      <3>2. \A i \in 1 .. n + 1 : new[i].when = x <=> f + 1 <= i /\ i <= l + 1
        <4> SUFFICES ASSUME NEW i \in 1 .. n + 1
                     PROVE  new[i].when = x <=> f + 1 <= i /\ i <= l + 1
          OBVIOUS
        <4>1. CASE i < p
          <5>1. new[i].when <= w
            BY <1>2, <1>3, <4>1
          <5> QED BY <1>0, <1>2, <1>3, <2>2, <2>4, <3>1, <4>1, <5>1
        <4>2. CASE i = p
          BY <1>0, <1>3, <2>2, <2>4, <3>1, <4>2
        <4>3. CASE p < i
          <5>1. i - 1 \in 1 .. n /\ new[i] = list[i - 1]
            BY <1>0, <1>2, <1>3, <4>3
          <5> QED BY <1>0, <2>2, <4>3, <5>1
        <4> QED BY <1>3, <4>1, <4>2, <4>3
      <3>3. Block(x, new, f + 1, l + 1)
        BY <1>0, <1>1, <2>2, <3>2 DEF Block
      <3>4. \A k \in 1 .. l - f + 1 :
              new[(f + 1) + k - 1].dev = list[f + k - 1].dev
        <4> SUFFICES ASSUME NEW k \in 1 .. l - f + 1
                     PROVE  new[(f + 1) + k - 1].dev = list[f + k - 1].dev
          OBVIOUS
        <4>1. /\ f + k - 1 \in 1 .. n /\ ~ (f + k - 1 < p)
              /\ (f + 1) + k - 1 = (f + k - 1) + 1
          BY <1>0, <2>2, <3>1
        <4> QED BY <1>3, <4>1
      <3>5. l - f = (l + 1) - (f + 1)
        BY <1>0, <2>2
      <3> QED BY <1>1, <2>1, <3>3, <3>4, <3>5, SameCalls
    <2> QED BY <1>0, <1>5, <2>2, <2>3, <2>4
  <1>6. ASSUME x = w, x \in TimesOf(list)
        PROVE  CallsAt(x, new) = Append(CallsAt(x, list), d)
    <2>1. PICK f, l : Block(x, list, f, l)
      BY <1>6, TimesHaveBlocks
    <2>2. /\ f \in 1 .. n /\ l \in 1 .. n /\ f <= l
          /\ list[f].when = w /\ list[l].when = w
          /\ \A i \in 1 .. n : list[i].when = w <=> f <= i /\ i <= l
      BY <1>0, <1>6, <2>1 DEF Block
    <2>3. l + 1 = p
      <3>1. l < p
        BY <1>0, <1>2, <2>2
      <3>2. p <= l + 1
        <4>1. CASE l = n
          BY <1>0, <1>2, <4>1
        <4>2. CASE l # n
          <5>1. l + 1 \in 1 .. n /\ l <= l + 1
            BY <1>0, <2>2, <4>2
          <5>2. list[l + 1].when # w /\ list[l].when <= list[l + 1].when
            BY <1>0, <2>2, <5>1 DEF Sorted
          <5>3. ~ (l + 1 < p)
            BY <1>0, <1>2, <2>2, <5>1, <5>2
          <5> QED BY <1>0, <2>2, <5>3
        <4> QED BY <4>1, <4>2
      <3> QED BY <1>0, <2>2, <3>1, <3>2
    <2>4. \A i \in 1 .. n + 1 : new[i].when = w <=> f <= i /\ i <= p
      <3> SUFFICES ASSUME NEW i \in 1 .. n + 1
                   PROVE  new[i].when = w <=> f <= i /\ i <= p
        OBVIOUS
      <3>1. CASE i < p
        BY <1>0, <1>3, <2>2, <2>3, <3>1
      <3>2. CASE i = p
        BY <1>0, <1>3, <2>2, <2>3, <3>2
      <3>3. CASE p < i
        <4>1. new[i].when > w
          BY <1>0, <1>2, <1>3, <3>3
        <4> QED BY <1>0, <3>3, <4>1
      <3> QED BY <1>3, <3>1, <3>2, <3>3
    <2>5. Block(w, new, f, p)
      BY <1>0, <1>1, <2>2, <2>3, <2>4 DEF Block
    <2> DEFINE s == CallsAt(w, list)
               t == CallsAt(w, new)
    <2>6. /\ s \in Seq(AllDevices) /\ Len(s) = l - f + 1
          /\ \A k \in 1 .. l - f + 1 : s[k] = list[f + k - 1].dev
      BY <1>6, <2>1, CallsTyped
    <2>7. /\ t \in Seq(AllDevices) /\ Len(t) = p - f + 1
          /\ \A k \in 1 .. p - f + 1 : t[k] = new[f + k - 1].dev
      BY <1>1, <2>5, CallsTyped
    <2> HIDE DEF s, t
    <2>8. /\ Append(s, d) \in Seq(AllDevices)
          /\ Len(Append(s, d)) = Len(s) + 1
          /\ \A k \in 1 .. Len(s) : Append(s, d)[k] = s[k]
          /\ Append(s, d)[Len(s) + 1] = d
      BY <1>0, <2>6, AppendProperties
    <2>9. Len(t) = Len(Append(s, d)) /\ Len(t) = (p - f) + 1 /\ Len(s) = p - f
      BY <1>0, <2>2, <2>3, <2>6, <2>7, <2>8
    <2>10. \A k \in 1 .. Len(t) : t[k] = Append(s, d)[k]
      <3> SUFFICES ASSUME NEW k \in 1 .. (p - f) + 1
                   PROVE  t[k] = Append(s, d)[k]
        BY <2>9
      <3>1. CASE k = p - f + 1
        <4>1. f + k - 1 = p
          BY <1>0, <1>2, <2>2, <3>1
        <4>2. t[k] = d
          BY <1>3, <2>7, <4>1
        <4> QED BY <2>8, <2>9, <3>1, <4>2
      <3>2. CASE k # p - f + 1
        <4>1. /\ k \in 1 .. p - f /\ f + k - 1 \in 1 .. n /\ f + k - 1 < p
              /\ k \in 1 .. l - f + 1
          BY <1>0, <1>2, <2>2, <2>3, <3>2
        <4>2. t[k] = list[f + k - 1].dev
          BY <1>3, <2>7, <4>1
        <4> QED BY <2>6, <2>8, <2>9, <4>1, <4>2
      <3> QED BY <3>1, <3>2
    <2>11. t = Append(s, d)
      BY <2>7, <2>8, <2>9, <2>10, SeqEqual
    <2> QED BY <1>6, <2>11 DEF s, t
  <1>7. ASSUME x = w, x \notin TimesOf(list)
        PROVE  CallsAt(x, new) = <<d>>
    <2>1. \A i \in 1 .. n : list[i].when # w
      BY <1>0, <1>7 DEF TimesOf
    <2>2. \A i \in 1 .. n + 1 : new[i].when = w <=> i = p
      BY <1>3, <1>2, <2>1
    <2>3. PICK f, l : f = p /\ l = p
      OBVIOUS
    <2>4. Block(w, new, f, l)
      BY <1>0, <1>1, <1>2, <2>2, <2>3 DEF Block
    <2> DEFINE t == CallsAt(w, new)
    <2>5. /\ t \in Seq(AllDevices) /\ Len(t) = l - f + 1
          /\ \A k \in 1 .. l - f + 1 : t[k] = new[f + k - 1].dev
      BY <1>1, <2>4, CallsTyped
    <2> HIDE DEF t
    <2>6. Len(t) = 1 /\ t[1] = d
      BY <1>3, <2>3, <2>5
    <2> DEFINE one == <<d>>
    <2>7. one \in Seq(AllDevices) /\ Len(one) = 1 /\ one[1] = d
      BY <1>0
    <2> HIDE DEF one
    <2>8. t = one
      BY <2>5, <2>6, <2>7, SeqEqual
    <2> QED BY <1>7, <2>8 DEF t, one
  <1> QED BY <1>4, <1>5, <1>6, <1>7 DEF new

\* The first interrupt of the list is the first call of the earliest time,
\* and SortedList::RemoveFront takes this call away.
LEMMA TailCalls ==
    ASSUME NEW list \in Seq(Interrupt), Sorted(list), list # <<>>,
           NEW w, w = Head(list).when
    PROVE  /\ w \in TimesOf(list) /\ \A x \in TimesOf(list) : w <= x
           /\ CallsAt(w, list) \in Seq(AllDevices) /\ CallsAt(w, list) # <<>>
           /\ Head(CallsAt(w, list)) = Head(list).dev
           /\ TimesOf(Tail(list)) = IF Len(CallsAt(w, list)) = 1
                                    THEN TimesOf(list) \ {w} ELSE TimesOf(list)
           /\ Len(CallsAt(w, list)) # 1 =>
                CallsAt(w, Tail(list)) = Tail(CallsAt(w, list))
           /\ \A x \in TimesOf(list) :
                x # w => CallsAt(x, Tail(list)) = CallsAt(x, list)
  <1> DEFINE rest == Tail(list)
             n == Len(list)
             s == CallsAt(w, list)
  <1>0. /\ n \in Nat /\ DOMAIN list = 1 .. n
        /\ \A i \in 1 .. n : list[i].when \in Nat /\ list[i].dev \in AllDevices
    BY ListFacts
  <1>1. /\ rest \in Seq(Interrupt) /\ n - 1 \in Nat /\ Len(rest) = n - 1
        /\ DOMAIN rest = 1 .. n - 1
        /\ \A i \in 1 .. n - 1 : rest[i] = list[i + 1]
        /\ Head(list) = list[1] /\ 1 \in 1 .. n
    BY <1>0, TailShape
  <1> HIDE DEF rest
  <1>2. w \in TimesOf(list) /\ \A x \in TimesOf(list) : w <= x
    <2>1. w \in TimesOf(list)
      BY <1>0, <1>1 DEF TimesOf
    <2>2. \A i \in 1 .. n : list[1].when <= list[i].when
      BY <1>0, <1>1 DEF Sorted
    <2> QED BY <1>0, <1>1, <2>1, <2>2 DEF TimesOf
  <1>3. PICK f, l : Block(w, list, f, l)
    BY <1>2, TimesHaveBlocks
  <1>4. /\ f \in 1 .. n /\ l \in 1 .. n /\ f <= l
        /\ \A i \in 1 .. n : list[i].when = w <=> f <= i /\ i <= l
    BY <1>3 DEF Block
  <1>5. f = 1
    <2>1. list[1].when = w
      BY <1>1
    <2>0. 1 \in 1 .. n
      BY <1>1
    <2>2. list[1].when = w <=> f <= 1 /\ 1 <= l
      BY <1>4, <2>0
    <2> QED BY <1>0, <1>4, <2>1, <2>2
  <1>6. /\ s \in Seq(AllDevices) /\ Len(s) = l - f + 1
        /\ \A k \in 1 .. l - f + 1 : s[k] = list[f + k - 1].dev
    BY <1>3, CallsTyped
  <1> HIDE DEF s
  <1>7. Len(s) = l /\ \A k \in 1 .. l : s[k] = list[k].dev
    <2>1. l - f + 1 = l /\ \A k \in 1 .. l : f + k - 1 = k
      BY <1>0, <1>4, <1>5
    <2> QED BY <1>6, <2>1
  <1>8. s # <<>> /\ Head(s) = Head(list).dev
    <2>1. s # <<>> /\ 1 \in 1 .. l
      BY <1>0, <1>4, <1>6, <1>7
    <2>2. Head(s) = s[1]
      BY <1>6, <2>1
    <2> QED BY <1>1, <1>7, <2>1, <2>2
  <1>9. \A i \in 1 .. n - 1 : i + 1 \in 1 .. n
    BY <1>0
  <1>10. \A x \in TimesOf(list) : x # w => x \in TimesOf(rest)
    <2> SUFFICES ASSUME NEW i \in 1 .. n, list[i].when # w
                 PROVE  list[i].when \in TimesOf(rest)
      BY <1>0 DEF TimesOf
    <2>1. i - 1 \in 1 .. n - 1 /\ (i - 1) + 1 = i
      BY <1>0, <1>4, <1>5
    <2>2. rest[i - 1] = list[i]
      BY <1>1, <2>1
    <2> QED BY <1>1, <2>1, <2>2 DEF TimesOf
  <1>11. TimesOf(rest) \subseteq TimesOf(list)
    <2> SUFFICES ASSUME NEW i \in 1 .. n - 1
                 PROVE  rest[i].when \in TimesOf(list)
      BY <1>1 DEF TimesOf
    <2>1. i + 1 \in DOMAIN list /\ rest[i] = list[i + 1]
      BY <1>0, <1>1, <1>9
    <2> QED BY <2>1 DEF TimesOf
  <1>12. l = 1 => w \notin TimesOf(rest)
    <2>1. ASSUME l = 1, NEW i \in 1 .. n - 1
          PROVE  rest[i].when # w
      <3>1. i + 1 \in 1 .. n /\ ~ (i + 1 <= l)
        BY <1>0, <2>1
      <3> QED BY <1>1, <1>4, <3>1
    <2> QED BY <1>1, <2>1 DEF TimesOf
  <1>13. ASSUME l # 1
         PROVE  /\ w \in TimesOf(rest)
                /\ CallsAt(w, rest) = Tail(s)
    <2>1. l - 1 \in 1 .. n - 1 /\ (l - 1) + 1 = l
      BY <1>0, <1>4, <1>13
    <2>2. PICK g, m : g = 1 /\ m = l - 1
      OBVIOUS
    <2>3. Block(w, rest, g, m)
      <3>1. \A i \in 1 .. n - 1 : rest[i].when = w <=> i + 1 <= l
        BY <1>0, <1>1, <1>4, <1>5, <1>9
      <3>2. \A i \in 1 .. n - 1 : rest[i].when = w <=> g <= i /\ i <= m
        BY <1>0, <2>1, <2>2, <3>1
      <3>3. g \in 1 .. n - 1 /\ m \in 1 .. n - 1 /\ g <= m
        BY <1>0, <2>1, <2>2
      <3> QED BY <1>1, <3>2, <3>3 DEF Block
    <2> DEFINE t == CallsAt(w, rest)
               u == Tail(s)
    <2>4. /\ w \in TimesOf(rest)
          /\ t \in Seq(AllDevices) /\ Len(t) = m - g + 1
          /\ \A k \in 1 .. m - g + 1 : t[k] = rest[g + k - 1].dev
      BY <1>1, <2>3, CallsTyped, BlockCalls
    <2>5. /\ u \in Seq(AllDevices) /\ Len(u) = Len(s) - 1
          /\ \A k \in 1 .. Len(s) - 1 : u[k] = s[k + 1]
      BY <1>6, <1>8, HeadTailProperties
    <2> HIDE DEF t, u
    <2>6. m - g + 1 = l - 1 /\ \A k \in 1 .. l - 1 : g + k - 1 = k
      BY <1>0, <1>4, <2>2
    <2>7. \A k \in 1 .. l - 1 : t[k] = list[k + 1].dev
      <3>1. \A k \in 1 .. l - 1 : t[k] = rest[k].dev
        BY <2>4, <2>6
      <3>2. \A k \in 1 .. l - 1 : k \in 1 .. n - 1
        BY <1>0, <1>4
      <3> QED BY <1>1, <3>1, <3>2
    <2>8. \A k \in 1 .. l - 1 : u[k] = list[k + 1].dev
      <3>1. \A k \in 1 .. l - 1 : k + 1 \in 1 .. l
        BY <1>0, <1>4
      <3> QED BY <1>7, <2>5, <3>1
    <2>9. Len(t) = l - 1 /\ Len(u) = l - 1
      BY <1>7, <2>4, <2>5, <2>6
    <2>10. t = u
      BY <2>4, <2>5, <2>7, <2>8, <2>9, SeqEqual
    <2> QED BY <2>4, <2>10 DEF t, u
  <1>14. ASSUME NEW x \in TimesOf(list), x # w
         PROVE  CallsAt(x, rest) = CallsAt(x, list)
    <2>1. PICK a, b : Block(x, list, a, b)
      BY TimesHaveBlocks
    <2>2. /\ a \in 1 .. n /\ b \in 1 .. n /\ a <= b
          /\ \A i \in 1 .. n : list[i].when = x <=> a <= i /\ i <= b
      BY <2>1 DEF Block
    <2>3. 1 < a
      BY <1>0, <1>1, <1>14, <2>2
    <2>4. PICK g, m : g = a - 1 /\ m = b - 1
      OBVIOUS
    <2>5. /\ g \in 1 .. n - 1 /\ m \in 1 .. n - 1 /\ g <= m /\ b - a = m - g
          /\ b - a + 1 \in Nat
      BY <1>0, <2>2, <2>3, <2>4
    <2>6. Block(x, rest, g, m)
      <3>1. \A i \in 1 .. n - 1 : rest[i].when = x <=> a <= i + 1 /\ i + 1 <= b
        BY <1>1, <1>9, <2>2
      <3>2. \A i \in 1 .. n - 1 : rest[i].when = x <=> g <= i /\ i <= m
        BY <1>0, <2>2, <2>4, <3>1
      <3> QED BY <1>1, <2>5, <3>2 DEF Block
    <2>7. \A k \in 1 .. b - a + 1 : rest[g + k - 1].dev = list[a + k - 1].dev
      <3> SUFFICES ASSUME NEW k \in 1 .. b - a + 1
                   PROVE  rest[g + k - 1].dev = list[a + k - 1].dev
        OBVIOUS
      <3>1. g + k - 1 \in 1 .. n - 1 /\ (g + k - 1) + 1 = a + k - 1
        BY <1>0, <2>2, <2>3, <2>4
      <3> QED BY <1>1, <3>1
    <2> QED BY <1>1, <2>1, <2>5, <2>6, <2>7, SameCalls
  <1>15. TimesOf(rest) = IF Len(s) = 1 THEN TimesOf(list) \ {w} ELSE TimesOf(list)
    <2>1. CASE l = 1
      BY <1>7, <1>10, <1>11, <1>12, <2>1
    <2>2. CASE l # 1
      <3>1. TimesOf(list) \subseteq TimesOf(rest)
        BY <1>10, <1>13, <2>2
      <3> QED BY <1>7, <1>11, <2>2, <3>1
    <2> QED BY <2>1, <2>2
  <1> QED BY <1>2, <1>6, <1>7, <1>8, <1>13, <1>14, <1>15 DEF rest, s

\* Interrupt::Schedule writes one more call into the agenda.
LEMMA InsertAgenda ==
    ASSUME NEW list \in Seq(Interrupt), Sorted(list), NEW item \in Interrupt
    PROVE  AgendaOf(Insert(item, list)) =
             Promise!With(item.dev, item.when, AgendaOf(list))
  <1> DEFINE new == Insert(item, list)
             w == item.when
             d == item.dev
             A == AgendaOf(list)
  <1>1. /\ DOMAIN A = TimesOf(list)
        /\ \A x \in TimesOf(list) : A[x] = CallsAt(x, list)
    BY DEF AgendaOf
  <1>2. /\ TimesOf(new) = TimesOf(list) \cup {w}
        /\ \A x : /\ x \in TimesOf(list) /\ x # w => CallsAt(x, new) = CallsAt(x, list)
                  /\ x = w /\ x \in TimesOf(list) =>
                       CallsAt(x, new) = Append(CallsAt(x, list), d)
                  /\ x = w /\ x \notin TimesOf(list) => CallsAt(x, new) = <<d>>
    BY InsertCalls
  <1> HIDE DEF new, A, w, d
  <1> DEFINE Call(x) == IF x # w THEN A[x]
                        ELSE IF w \in DOMAIN A THEN Append(A[w], d) ELSE <<d>>
  <1>3. \A x \in TimesOf(new) : CallsAt(x, new) = Call(x)
    <2> SUFFICES ASSUME NEW x \in TimesOf(new) PROVE CallsAt(x, new) = Call(x)
      OBVIOUS
    <2>1. CASE x # w
      BY <1>1, <1>2, <2>1
    <2>2. CASE x = w /\ w \in TimesOf(list)
      BY <1>1, <1>2, <2>2
    <2>3. CASE x = w /\ w \notin TimesOf(list)
      BY <1>1, <1>2, <2>3
    <2> QED BY <2>1, <2>2, <2>3
  <1>4. AgendaOf(new) = [x \in DOMAIN A \cup {w} |-> CallsAt(x, new)]
    BY <1>1, <1>2 DEF AgendaOf
  <1>5. AgendaOf(new) = [x \in DOMAIN A \cup {w} |-> Call(x)]
    BY <1>1, <1>2, <1>3, <1>4
  <1>6. AgendaOf(new) = Promise!With(d, w, A)
    BY <1>5 DEF Promise!With
  <1> QED BY <1>6 DEF new, A, w, d

\* CheckIfDue makes the first call of the earliest time.
LEMMA TailAgenda ==
    ASSUME pending \in Seq(Interrupt), Sorted(pending), pending # <<>>
    PROVE  LET w == Head(pending).when
           IN  /\ w \in Promise!Times /\ \A x \in Promise!Times : w <= x
               /\ Head(AgendaOf(pending)[w]) = Head(pending).dev
               /\ AgendaOf(Tail(pending)) = Promise!Without(w)
  <1> DEFINE rest == Tail(pending)
             w == Head(pending).when
             A == AgendaOf(pending)
             s == CallsAt(w, pending)
  <1>1. /\ DOMAIN A = TimesOf(pending)
        /\ \A x \in TimesOf(pending) : A[x] = CallsAt(x, pending)
    BY DEF AgendaOf
  <1>2. /\ w \in TimesOf(pending) /\ \A x \in TimesOf(pending) : w <= x
        /\ Head(s) = Head(pending).dev
        /\ TimesOf(rest) = IF Len(s) = 1 THEN TimesOf(pending) \ {w}
                           ELSE TimesOf(pending)
        /\ Len(s) # 1 => CallsAt(w, rest) = Tail(s)
        /\ \A x \in TimesOf(pending) :
             x # w => CallsAt(x, rest) = CallsAt(x, pending)
    BY TailCalls
  <1>3. A[w] = s
    BY <1>1, <1>2
  <1>4. Promise!Times = DOMAIN A
    BY DEF Promise!Times
  <1> HIDE DEF rest, A, w, s
  <1> DEFINE Call(x) == IF x = w THEN Tail(A[w]) ELSE A[x]
             Left == IF Len(A[w]) = 1 THEN DOMAIN A \ {w} ELSE DOMAIN A
  <1>5. TimesOf(rest) = Left
    BY <1>1, <1>2, <1>3
  <1>6. \A x \in TimesOf(rest) : CallsAt(x, rest) = Call(x)
    <2> SUFFICES ASSUME NEW x \in TimesOf(rest) PROVE CallsAt(x, rest) = Call(x)
      OBVIOUS
    <2>1. CASE x # w
      BY <1>1, <1>2, <2>1
    <2>2. CASE x = w
      <3>1. Len(s) # 1
        BY <1>2, <2>2
      <3> QED BY <1>2, <1>3, <2>2, <3>1
    <2> QED BY <2>1, <2>2
  <1>7. AgendaOf(rest) = [x \in Left |-> CallsAt(x, rest)]
    BY <1>5 DEF AgendaOf
  <1>8. AgendaOf(rest) = [x \in Left |-> Call(x)]
    BY <1>5, <1>6, <1>7
  <1>9. AgendaOf(rest) = Promise!Without(w)
    BY <1>4, <1>8 DEF Promise!Without, A
  <1> QED BY <1>1, <1>2, <1>3, <1>4, <1>9 DEF rest, A, w, s

\* A step that leaves the list alone.
LEMMA SameAgenda ==
    ASSUME pending' = pending
    PROVE  AgendaOf(pending)' = AgendaOf(pending)
  BY DEF AgendaOf, TimesOf, CallsAt, AtTime

\* Nothing is due when no pending interrupt is.
LEMMA NothingDue ==
    ASSUME TypeOK, \A i \in DOMAIN pending : pending[i].when > totalTicks
    PROVE  ~ Promise!Due
  <1>1. Promise!Times = TimesOf(pending)
    BY DEF Promise!Times, AgendaOf
  <1>2. \A i \in DOMAIN pending : pending[i].when \in Nat
    BY ListFacts DEF TypeOK
  <1>3. \A i \in DOMAIN pending : ~ (pending[i].when <= totalTicks)
    BY <1>2 DEF TypeOK
  <1> QED BY <1>1, <1>3 DEF Promise!Due, TimesOf

\* A tick of OneTick, when nothing is due.
LEMMA TickAdvances ==
    ASSUME TypeOK, \A i \in DOMAIN pending : pending[i].when > totalTicks,
           NEW st, Tick(st), pending' = pending
    PROVE  Promise!Advance
  <1>1. totalTicks' \in {totalTicks + SystemTick, totalTicks + UserTick}
    BY DEF Tick
  <1> QED BY <1>1, NothingDue, SameAgenda DEF Promise!Advance

\* Interrupt::Schedule, as the agenda sees it.
LEMMA ScheduleAgenda ==
    ASSUME totalTicks \in Nat, NEW d \in AllDevices,
           NEW list \in Seq(Interrupt), Sorted(list), Schedule(d, list)
    PROVE  \E delay \in Delays[d] :
             AgendaOf(pending') =
               Promise!With(d, totalTicks + delay, AgendaOf(list))
  <1>1. PICK delay \in Delays[d] :
          pending' = Insert([dev |-> d, when |-> totalTicks + delay], list)
    BY DEF Schedule
  <1> DEFINE item == [dev |-> d, when |-> totalTicks + delay]
  <1>2. item \in Interrupt /\ item.dev = d /\ item.when = totalTicks + delay
    BY DelayFacts DEF Interrupt
  <1>3. pending' = Insert(item, list)
    BY <1>1
  <1> HIDE DEF item
  <1>4. AgendaOf(Insert(item, list)) =
          Promise!With(item.dev, item.when, AgendaOf(list))
    BY <1>2, InsertAgenda
  <1> QED BY <1>2, <1>3, <1>4

LEMMA CallBackCalls ==
    ASSUME TypeOK, Sorted(pending), CallBack
    PROVE  \E w \in Promise!Times : Promise!Call(w)
  <1> DEFINE w == Head(pending).when
             d == Head(pending).dev
             rest == Tail(pending)
  <1>1. /\ pending \in Seq(Interrupt) /\ totalTicks \in Nat
        /\ pending # <<>> /\ w <= totalTicks /\ totalTicks' = totalTicks
        /\ d \in AllDevices /\ rest \in Seq(Interrupt) /\ Sorted(rest)
    BY CallBackFacts DEF Due, TypeOK
  <1>2. /\ w \in Promise!Times /\ \A x \in Promise!Times : w <= x
        /\ Head(AgendaOf(pending)[w]) = d
        /\ AgendaOf(rest) = Promise!Without(w)
    BY <1>1, TailAgenda
  <1>3. pending' = rest \/ Schedule(d, rest)
    BY DEF CallBack, TimerHandler, PollHandler, DeviceHandler
  <1>4. \/ AgendaOf(pending)' = Promise!Without(w)
        \/ \E delay \in Delays[d] :
             AgendaOf(pending)' =
               Promise!With(d, totalTicks + delay, Promise!Without(w))
    <2> HIDE DEF w, d, rest
    <2>1. CASE pending' = rest
      <3>1. AgendaOf(pending') = AgendaOf(rest)
        BY <2>1
      <3> QED BY <1>2, <3>1
    <2>2. CASE Schedule(d, rest)
      BY <1>1, <1>2, <2>2, ScheduleAgenda
    <2> QED BY <1>3, <2>1, <2>2
  <1> HIDE DEF w, d, rest
  <1>5. Promise!Call(w)
    BY <1>1, <1>2, <1>4 DEF Promise!Call
  <1> QED BY <1>2, <1>5

\* Interrupt::Idle advances the clock to the first pending interrupt.
LEMMA IdleAdvances ==
    ASSUME InterruptsInv, Idle
    PROVE  Promise!Advance
  <1>0. TypeOK /\ Sorted(pending) /\ PendingExact /\ NoneOverdue
    BY DEF InterruptsInv
  <1>1. pending \in Seq(Interrupt) /\ pending # <<>> /\ totalTicks \in Nat
    BY <1>0, PendingNeverEmpty DEF TypeOK
  <1> DEFINE w == Head(pending).when
  <1>2. /\ totalTicks' = Max({totalTicks, w}) /\ pending' = pending
        /\ phase = "sleep"
    BY <1>1 DEF Idle
  <1>3. \A i \in DOMAIN pending : pending[i].when > totalTicks
    BY <1>0, <1>2 DEF NoneOverdue
  <1>4. w \in Nat /\ w > totalTicks
    <2>1. 1 \in DOMAIN pending /\ Head(pending) = pending[1]
      BY <1>1, TailShape
    <2>2. pending[1].when \in Nat
      BY <1>1, <2>1, ListFacts
    <2> QED BY <1>3, <2>1, <2>2
  <1>5. w \in Promise!Times /\ \A x \in Promise!Times : w <= x
    BY <1>0, <1>1, TailAgenda
  <1> HIDE DEF w
  <1>6. totalTicks' = w
    BY <1>1, <1>2, <1>4 DEF Max
  <1> QED BY <1>0, <1>2, <1>3, <1>5, <1>6, NothingDue, SameAgenda
       DEF Promise!Advance

LEMMA StepImplementsAgenda ==
    ASSUME InterruptsInv, [Next]_vars
    PROVE  Promise!AgendaNext \/ UNCHANGED <<totalTicks, AgendaOf(pending)>>
  <1>0. TypeOK /\ Sorted(pending) /\ PendingExact /\ NoneOverdue
    BY DEF InterruptsInv
  <1>1. CASE UNCHANGED <<totalTicks, pending>>
    BY <1>1, SameAgenda
  <1>2. ASSUME NEW st, Tick(st), pending' = pending,
               phase # "handlers" \/ ~ Due
        PROVE  Promise!Advance
    <2>1. \A i \in DOMAIN pending : pending[i].when > totalTicks
      BY <1>0, <1>2, NotDue DEF NoneOverdue
    <2> QED BY <1>0, <1>2, <2>1, TickAdvances
  <1>3. CASE Instruction \/ ReturnToUser \/ Enable \/ Yield \/ Dispatch
    <2>1. \E st : Tick(st) /\ pending' = pending /\ phase # "handlers"
      BY <1>3, Zenon DEF Instruction, ReturnToUser, Enable, Yield, Dispatch,
         YieldBody, SwitchTo, InUser, InKernel
    <2> QED BY <1>2, <2>1 DEF Promise!AgendaNext
  <1>4. ASSUME NEW d \in Devices, Request(d)
        PROVE  Promise!AgendaNext
    <2>1. /\ phase = "run" /\ totalTicks' = totalTicks
          /\ Schedule(d, pending)
      BY <1>4 DEF Request, InKernel
    <2>2. /\ d \in AllDevices /\ totalTicks \in Nat /\ pending \in Seq(Interrupt)
          /\ \A i \in DOMAIN pending : pending[i].when > totalTicks
      BY <1>0, <2>1 DEF AllDevices, TypeOK, NoneOverdue
    <2>3. \E delay \in Delays[d] :
            AgendaOf(pending') =
              Promise!With(d, totalTicks + delay, AgendaOf(pending))
      BY <1>0, <2>1, <2>2, ScheduleAgenda
    <2>4. ~ Promise!Due
      BY <1>0, <2>2, NothingDue
    <2>5. Promise!Plan(d)
      BY <2>1, <2>3, <2>4 DEF Promise!Plan
    <2> QED BY <2>2, <2>5 DEF Promise!AgendaNext
  <1>5. CASE CallBack
    BY <1>0, <1>5, CallBackCalls DEF Promise!AgendaNext
  <1>6. CASE Idle
    BY <1>6, IdleAdvances DEF Promise!AgendaNext
  <1>7. CASE Leave
    <2>1. CASE status # "IdleMode" /\ yieldOnReturn
      <3>1. Tick("SystemMode") /\ pending' = pending /\ ~ Due
        BY <1>7, <2>1 DEF Leave, LeaveOneTick, YieldBody, SwitchTo
      <3> QED BY <1>2, <3>1 DEF Promise!AgendaNext
    <2>2. CASE ~ (status # "IdleMode" /\ yieldOnReturn)
      <3>1. UNCHANGED <<totalTicks, pending>>
        BY <1>7, <2>2 DEF Leave, LeaveIdle, LeaveOneTick
      <3> QED BY <1>1, <3>1
    <2> QED BY <2>1, <2>2
  <1>8. CASE Run \/ RaiseException \/ (\E d \in Pollers : Await(d)) \/ UNCHANGED vars
    <2>1. UNCHANGED <<totalTicks, pending>>
      BY <1>8 DEF Run, RaiseException, Await, vars, queueVars
    <2> QED BY <1>1, <2>1
  <1> QED BY <1>3, <1>4, <1>5, <1>6, <1>7, <1>8 DEF Next

\* Interrupts are called in the order of their times, those of one time in
\* the order of their calls of Schedule, none before its time and none while
\* an earlier one waits; an idle machine stops the clock at the next one.
THEOREM InterruptsImplement == Spec => ImplementsAgenda
  <1>1. Init => Promise!AgendaInit
    <2> SUFFICES ASSUME Init PROVE Promise!AgendaInit
      OBVIOUS
    <2>1. TypeOK /\ NoneOverdue /\ phase = "run" /\ totalTicks = 0
      BY InterruptsInit DEF InterruptsInv, Init
    <2>2. \A i \in DOMAIN pending : pending[i].when > 0
      BY <2>1 DEF NoneOverdue
    <2> QED BY <2>1, <2>2 DEF Promise!AgendaInit, Promise!Times, AgendaOf, TimesOf
  <1>2. InterruptsInv /\ [Next]_vars =>
          [Promise!AgendaNext]_<<totalTicks, AgendaOf(pending)>>
    BY StepImplementsAgenda
  <1> QED BY <1>1, <1>2, InterruptsCorrect, PTL
          DEF Spec, ImplementsAgenda, Promise!AgendaSpec

=============================================================================
