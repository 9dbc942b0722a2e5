---------------------------- MODULE MonitorProofs ----------------------------
(***************************************************************************)
(* Proofs about Monitor, for any set of threads: MonitorInv is inductive,  *)
(* and Lock and Condition implement the abstract monitor.                  *)
(***************************************************************************)
EXTENDS Monitor, TLAPS

-----------------------------------------------------------------------------
(***************************************************************************)
(* What Append and RemoveFront do to the set of the items of a list and to *)
(* the absence of duplicates (lib/list.cc).                                *)
(***************************************************************************)

\* List<T>::Append adds its item and nothing else.
LEMMA InListAppend ==
    ASSUME NEW S, NEW line \in Seq(S), NEW u \in S, NEW t
    PROVE  InList(t, Append(line, u)) <=> (InList(t, line) \/ t = u)
  <1>1. /\ \A i \in DOMAIN line : /\ i \in DOMAIN Append(line, u)
                                  /\ Append(line, u)[i] = line[i]
        /\ Len(line) + 1 \in DOMAIN Append(line, u)
        /\ Append(line, u)[Len(line) + 1] = u
    OBVIOUS
  <1>2. \A i \in DOMAIN Append(line, u) : i \in DOMAIN line \/ i = Len(line) + 1
    OBVIOUS
  <1> QED BY <1>1, <1>2 DEF InList

\* List<T>::Append of an item that is not in the list (its assertion) keeps
\* the list without duplicates.
LEMMA DistinctAppend ==
    ASSUME NEW S, NEW line \in Seq(S), NEW u \in S,
           Distinct(line), ~ InList(u, line)
    PROVE  Distinct(Append(line, u))
  BY DEF Distinct, InList

\* The first item of a list is in it.
LEMMA HeadInList ==
    ASSUME NEW S, NEW line \in Seq(S), line # <<>>
    PROVE  Head(line) \in S /\ InList(Head(line), line)
  BY 1 \in DOMAIN line, Head(line) = line[1] DEF InList

\* List<T>::RemoveFront removes the first item and nothing else.
LEMMA InListTail ==
    ASSUME NEW S, NEW line \in Seq(S), line # <<>>, Distinct(line), NEW t
    PROVE  InList(t, Tail(line)) <=> (InList(t, line) /\ t # Head(line))
  <1>1. \A i \in DOMAIN Tail(line) : /\ i + 1 \in DOMAIN line /\ i + 1 # 1
                                     /\ Tail(line)[i] = line[i + 1]
    OBVIOUS
  <1>2. 1 \in DOMAIN line /\ Head(line) = line[1]
    OBVIOUS
  <1>3. \A i \in DOMAIN line :
          i # 1 => i - 1 \in DOMAIN Tail(line) /\ Tail(line)[i - 1] = line[i]
    OBVIOUS
  <1>4. InList(t, Tail(line)) => InList(t, line) /\ t # Head(line)
    BY <1>1, <1>2 DEF InList, Distinct
  <1>5. InList(t, line) /\ t # Head(line) => InList(t, Tail(line))
    BY <1>2, <1>3 DEF InList
  <1> QED BY <1>4, <1>5

\* List<T>::RemoveFront keeps the list without duplicates.
LEMMA DistinctTail ==
    ASSUME NEW S, NEW line \in Seq(S), line # <<>>, Distinct(line)
    PROVE  Distinct(Tail(line))
  BY \A i \in DOMAIN Tail(line) : i + 1 \in DOMAIN line /\ Tail(line)[i] = line[i + 1]
  DEF Distinct

-----------------------------------------------------------------------------
\* Everything is free at first.
LEMMA InitInv == Init => MonitorInv
  <1> SUFFICES ASSUME Init PROVE MonitorInv
    OBVIOUS
  <1> USE MonitorAssumption DEF Init, Sem!AbsInit, Initially, At, InQueue,
          InList, Distinct, Owns, InWait
  <1>1. TypeOK
    BY DEF TypeOK, Places
  <1>2. MutualExclusion /\ HolderExact /\ LockExact
    BY DEF MutualExclusion, HolderExact, LockExact
  <1>3. NoMissedSignal
    BY DEF NoMissedSignal
  <1>4. WaitingMatches
    BY DEF WaitingMatches
  <1> QED BY <1>1, <1>2, <1>3, <1>4 DEF MonitorInv

\* A P of the lock's semaphore that returns makes its caller the only owner.
LEMMA TakesMutex ==
    ASSUME MonitorInv, NEW t \in Threads,
           pc[t] \in {"out", "woken", "acquire"},
           value[Mutex] > 0,
           value' = [value EXCEPT ![Mutex] = @ - 1],
           waiting' = [waiting EXCEPT ![Mutex] = @ \ {t}],
           GoTo(t, "acquired"), UNCHANGED <<lockHolder, waitQueue>>
    PROVE  MonitorInv'
  <1> USE MonitorAssumption DEF MonitorInv, GoTo, At, Owns, InWait, InQueue
  <1>0. \A u \in Threads : ~ Owns(u)
    BY DEF LockExact
  <1>1. TypeOK'
    BY DEF TypeOK, Places, LockExact
  <1>2. MutualExclusion' /\ HolderExact'
    BY <1>0 DEF MutualExclusion, HolderExact, TypeOK
  <1>3. LockExact'
    BY <1>0 DEF LockExact, TypeOK
  <1>4. NoMissedSignal'
    BY DEF NoMissedSignal, TypeOK
  <1>5. WaitingMatches'
    BY DEF WaitingMatches, TypeOK
  <1> QED BY <1>1, <1>2, <1>3, <1>4, <1>5

\* A P of the lock's semaphore that has to wait.
LEMMA WaitsForMutex ==
    ASSUME MonitorInv, NEW t \in Threads, pc[t] \in {"out", "woken"},
           UNCHANGED value,
           waiting' = [waiting EXCEPT ![Mutex] = @ \cup {t}],
           GoTo(t, "acquire"), UNCHANGED <<lockHolder, waitQueue>>
    PROVE  MonitorInv'
  <1> USE MonitorAssumption DEF MonitorInv, GoTo, At, Owns, InWait, InQueue
  <1>1. TypeOK'
    BY DEF TypeOK, Places
  <1>2. MutualExclusion' /\ HolderExact' /\ LockExact'
    BY DEF MutualExclusion, HolderExact, LockExact, TypeOK
  <1>4. NoMissedSignal'
    BY DEF NoMissedSignal, TypeOK
  <1>5. WaitingMatches'
    BY DEF WaitingMatches, TypeOK
  <1> QED BY <1>1, <1>2, <1>4, <1>5

LEMMA MutexPKeepsInv ==
    ASSUME MonitorInv, NEW t \in Threads, pc[t] \in {"out", "woken"},
           MutexP(t)
    PROVE  MonitorInv'
  <1>1. CASE Sem!TakeAtOnce(Mutex) /\ GoTo(t, "acquired")
    <2>1. t \notin waiting[Mutex]
      BY DEF MonitorInv, WaitingMatches, At
    <2>2. waiting' = [waiting EXCEPT ![Mutex] = @ \ {t}]
      BY <1>1, <2>1 DEF Sem!TakeAtOnce, MonitorInv, TypeOK
    <2> QED BY <1>1, <2>2, TakesMutex DEF Sem!TakeAtOnce, MutexP
  <1>2. CASE Sem!Wait(t, Mutex) /\ GoTo(t, "acquire")
    BY <1>2, WaitsForMutex DEF Sem!Wait, MutexP
  <1> QED BY <1>1, <1>2 DEF MutexP

\* The holder is set only by the owner, while no other is set.
LEMMA SetLockHolderKeepsInv ==
    ASSUME MonitorInv, NEW t \in Threads, SetLockHolder(t)
    PROVE  MonitorInv'
  <1> USE MonitorAssumption DEF MonitorInv, GoTo, At, Owns, InWait, InQueue,
          SetLockHolder
  <1>1. TypeOK'
    BY DEF TypeOK, Places
  <1>2. MutualExclusion' /\ HolderExact' /\ LockExact'
    BY DEF MutualExclusion, HolderExact, LockExact, TypeOK
  <1>3. NoMissedSignal'
    BY DEF NoMissedSignal, TypeOK
  <1>4. WaitingMatches'
    BY DEF WaitingMatches, TypeOK
  <1> QED BY <1>1, <1>2, <1>3, <1>4

\* Release makes the semaphore 1 when it was 0, with no owner left.
LEMMA ReleaseKeepsInv ==
    ASSUME MonitorInv, NEW t \in Threads, Release(t)
    PROVE  MonitorInv'
  <1> USE MonitorAssumption DEF MonitorInv, GoTo, At, Owns, InWait, InQueue,
          Release, Sem!Increment
  <1>1. TypeOK'
    BY DEF TypeOK, Places
  <1>2. MutualExclusion' /\ HolderExact'
    BY DEF MutualExclusion, HolderExact, TypeOK
  <1>3. LockExact'
    <2>1. value[Mutex] = 0 /\ \A u \in Threads : Owns(u) => u = t
      BY DEF LockExact, MutualExclusion
    <2> QED BY <2>1 DEF LockExact, TypeOK
  <1>4. NoMissedSignal'
    BY DEF NoMissedSignal, TypeOK
  <1>5. WaitingMatches'
    BY DEF WaitingMatches, TypeOK
  <1> QED BY <1>1, <1>2, <1>3, <1>4, <1>5

\* Wait queues its caller, who was not in the list, before the lock is free.
LEMMA WaitKeepsInv ==
    ASSUME MonitorInv, NEW t \in Threads, Wait(t)
    PROVE  MonitorInv'
  <1> USE MonitorAssumption DEF MonitorInv, GoTo, At, Owns, InWait, InQueue,
          Wait
  <1>0. /\ ~ InQueue(t) /\ waitQueue \in Seq(Threads)
        /\ \A u \in Threads : InQueue(u)' <=> (InQueue(u) \/ u = t)
        /\ Distinct(waitQueue)'
    <2>1. ~ InQueue(t) /\ Distinct(waitQueue) /\ waitQueue \in Seq(Threads)
      BY DEF NoMissedSignal, TypeOK
    <2> QED BY <2>1, InListAppend, DistinctAppend
  <1>1. TypeOK'
    BY <1>0 DEF TypeOK, Places
  <1>2. MutualExclusion' /\ HolderExact'
    BY DEF MutualExclusion, HolderExact, TypeOK
  <1>3. LockExact'
    <2>1. value[Mutex] = 0 /\ \A u \in Threads : Owns(u) => u = t
      BY DEF LockExact, MutualExclusion
    <2> QED BY <2>1 DEF LockExact, TypeOK
  <1>4. NoMissedSignal'
    <2>1. \A u \in Threads : InQueue(u)' => InWait(u)'
      BY <1>0 DEF NoMissedSignal, TypeOK
    <2>2. ASSUME NEW u \in Threads
          PROVE  value'[u] = IF InWait(u)' /\ ~InQueue(u)' THEN 1 ELSE 0
      <3>1. CASE u = t
        BY <1>0, <3>1 DEF TypeOK
      <3>2. CASE u # t
        BY <1>0, <3>2 DEF NoMissedSignal, TypeOK
      <3> QED BY <3>1, <3>2
    <2> QED BY <1>0, <2>1, <2>2 DEF NoMissedSignal
  <1>5. WaitingMatches'
    BY DEF WaitingMatches, TypeOK
  <1> QED BY <1>1, <1>2, <1>3, <1>4, <1>5

\* waiter->P takes the signal that is there, or waits for it.
LEMMA WaitPKeepsInv ==
    ASSUME MonitorInv, NEW t \in Threads, WaitP(t)
    PROVE  MonitorInv'
  <1> USE MonitorAssumption DEF MonitorInv, GoTo, At, Owns, InWait, InQueue,
          WaitP, Sem!TakeAtOnce, Sem!Wait
  <1>1. TypeOK'
    <2>1. CASE Sem!TakeAtOnce(t) /\ GoTo(t, "woken")
      BY <2>1 DEF TypeOK, Places
    <2>2. CASE Sem!Wait(t, t) /\ GoTo(t, "asleep")
      BY <2>2 DEF TypeOK, Places
    <2> QED BY <2>1, <2>2
  <1>2. MutualExclusion' /\ HolderExact' /\ LockExact'
    BY DEF MutualExclusion, HolderExact, LockExact, TypeOK
  <1>3. NoMissedSignal'
    <2>1. ASSUME NEW u \in Threads
          PROVE  /\ InQueue(u)' => InWait(u)'
                 /\ value'[u] = IF InWait(u)' /\ ~InQueue(u)' THEN 1 ELSE 0
      <3>1. CASE Sem!TakeAtOnce(t) /\ GoTo(t, "woken")
        BY <3>1 DEF NoMissedSignal, TypeOK
      <3>2. CASE Sem!Wait(t, t) /\ GoTo(t, "asleep")
        BY <3>2 DEF NoMissedSignal, TypeOK
      <3> QED BY <3>1, <3>2
    <2> QED BY <2>1 DEF NoMissedSignal
  <1>4. WaitingMatches'
    <2>1. CASE Sem!TakeAtOnce(t) /\ GoTo(t, "woken")
      BY <2>1 DEF WaitingMatches, TypeOK
    <2>2. CASE Sem!Wait(t, t) /\ GoTo(t, "asleep")
      BY <2>2 DEF WaitingMatches, TypeOK
    <2> QED BY <2>1, <2>2
  <1> QED BY <1>1, <1>2, <1>3, <1>4

LEMMA WaitReturnsKeepsInv ==
    ASSUME MonitorInv, NEW t \in Threads, WaitReturnsFromP(t)
    PROVE  MonitorInv'
  <1> USE MonitorAssumption DEF MonitorInv, GoTo, At, Owns, InWait, InQueue,
          WaitReturnsFromP, Sem!Take
  <1>1. TypeOK'
    BY DEF TypeOK, Places
  <1>2. MutualExclusion' /\ HolderExact' /\ LockExact'
    BY DEF MutualExclusion, HolderExact, LockExact, TypeOK
  <1>3. NoMissedSignal'
    BY DEF NoMissedSignal, TypeOK
  <1>4. WaitingMatches'
    BY DEF WaitingMatches, TypeOK
  <1> QED BY <1>1, <1>2, <1>3, <1>4

\* A signal goes from the list to the semaphore of its first thread.
LEMMA SignalKeepsInv ==
    ASSUME MonitorInv, NEW t \in Threads, pc[t] \in {"inside", "broadcast"},
           SignalBody,
           \/ UNCHANGED pc
           \/ GoTo(t, "inside") /\ waitQueue = <<>>
    PROVE  MonitorInv'
  <1> USE MonitorAssumption DEF MonitorInv, GoTo, At, Owns, InWait, InQueue,
          SignalBody, Sem!Increment
  <1>1. CASE waitQueue = <<>>
    <2>1. TypeOK'
      BY <1>1 DEF TypeOK, Places
    <2>2. MutualExclusion' /\ HolderExact' /\ LockExact'
      BY <1>1 DEF MutualExclusion, HolderExact, LockExact, TypeOK
    <2>3. NoMissedSignal'
      BY <1>1 DEF NoMissedSignal, TypeOK
    <2>4. WaitingMatches'
      BY <1>1 DEF WaitingMatches, TypeOK
    <2> QED BY <2>1, <2>2, <2>3, <2>4
  <1>2. CASE waitQueue # <<>>
    <2>0. waitQueue \in Seq(Threads) /\ Distinct(waitQueue)
      BY DEF TypeOK, NoMissedSignal
    <2>1. PICK u \in Threads : u = Head(waitQueue) /\ InQueue(u)
      BY <1>2, <2>0, HeadInList
    <2>2. /\ \A v \in Threads : InQueue(v)' <=> (InQueue(v) /\ v # u)
          /\ Distinct(waitQueue)'
      <3>1. waitQueue' = Tail(waitQueue)
        BY <1>2
      <3>2. /\ \A v : InList(v, Tail(waitQueue))
                        <=> (InList(v, waitQueue) /\ v # Head(waitQueue))
            /\ Distinct(Tail(waitQueue))
        BY <1>2, <2>0, InListTail, DistinctTail
      <3> QED BY <2>1, <3>1, <3>2
    <2>3. /\ InWait(u) /\ value[u] = 0 /\ value' = [value EXCEPT ![u] = @ + 1]
          /\ UNCHANGED <<pc, lockHolder, waiting>>
      <3>1. InWait(u) /\ value[u] = 0
        BY <2>1 DEF NoMissedSignal
      <3>2. Sem!Increment(u) /\ UNCHANGED <<pc, lockHolder>>
        BY <1>2, <2>1
      <3> QED BY <3>1, <3>2
    <2>4. TypeOK'
      <3>1. Tail(waitQueue) \in Seq(Threads) /\ waitQueue' = Tail(waitQueue)
        BY <1>2, <2>0
      <3>2. value' \in [Threads \cup {Mutex} -> Nat]
        BY <2>3 DEF TypeOK
      <3> QED BY <2>3, <3>1, <3>2 DEF TypeOK
    <2>5. MutualExclusion' /\ HolderExact' /\ LockExact'
      BY <2>3 DEF MutualExclusion, HolderExact, LockExact, TypeOK
    <2>6. NoMissedSignal'
      <3>1. ASSUME NEW v \in Threads
            PROVE  value'[v] = IF InWait(v)' /\ ~InQueue(v)' THEN 1 ELSE 0
        <4>1. CASE v = u
          BY <2>2, <2>3, <4>1 DEF TypeOK
        <4>2. CASE v # u
          BY <2>2, <2>3, <4>2 DEF TypeOK, NoMissedSignal
        <4> QED BY <4>1, <4>2
      <3>2. \A v \in Threads : InQueue(v)' => InWait(v)'
        BY <2>2, <2>3 DEF NoMissedSignal
      <3> QED BY <2>2, <3>1, <3>2 DEF NoMissedSignal
    <2>7. WaitingMatches'
      BY <2>3 DEF WaitingMatches
    <2> QED BY <2>4, <2>5, <2>6, <2>7
  <1> QED BY <1>1, <1>2

LEMMA BroadcastKeepsInv ==
    ASSUME MonitorInv, NEW t \in Threads, Broadcast(t)
    PROVE  MonitorInv'
  <1> USE MonitorAssumption DEF MonitorInv, GoTo, At, Owns, InWait, InQueue,
          Broadcast
  <1>1. TypeOK'
    BY DEF TypeOK, Places
  <1>2. MutualExclusion' /\ HolderExact' /\ LockExact'
    BY DEF MutualExclusion, HolderExact, LockExact, TypeOK
  <1>3. NoMissedSignal'
    BY DEF NoMissedSignal, TypeOK
  <1>4. WaitingMatches'
    BY DEF WaitingMatches, TypeOK
  <1> QED BY <1>1, <1>2, <1>3, <1>4

LEMMA NextInv == MonitorInv /\ [Next]_vars => MonitorInv'
  <1> SUFFICES ASSUME MonitorInv, [Next]_vars PROVE MonitorInv'
    OBVIOUS
  <1>1. ASSUME NEW t \in Threads, Acquire(t) PROVE MonitorInv'
    BY <1>1, MutexPKeepsInv DEF Acquire, At
  <1>2. ASSUME NEW t \in Threads, AcquireReturnsFromP(t) PROVE MonitorInv'
    BY <1>2, TakesMutex DEF AcquireReturnsFromP, At, Sem!Take
  <1>3. ASSUME NEW t \in Threads, SetLockHolder(t) PROVE MonitorInv'
    BY <1>3, SetLockHolderKeepsInv
  <1>4. ASSUME NEW t \in Threads, Release(t) PROVE MonitorInv'
    BY <1>4, ReleaseKeepsInv
  <1>5. ASSUME NEW t \in Threads, Wait(t) PROVE MonitorInv'
    BY <1>5, WaitKeepsInv
  <1>6. ASSUME NEW t \in Threads, WaitP(t) PROVE MonitorInv'
    BY <1>6, WaitPKeepsInv
  <1>7. ASSUME NEW t \in Threads, WaitReturnsFromP(t) PROVE MonitorInv'
    BY <1>7, WaitReturnsKeepsInv
  <1>8. ASSUME NEW t \in Threads, Reacquire(t) PROVE MonitorInv'
    BY <1>8, MutexPKeepsInv DEF Reacquire, At
  <1>9. ASSUME NEW t \in Threads, Signal(t) PROVE MonitorInv'
    BY <1>9, SignalKeepsInv DEF Signal, At
  <1>10. ASSUME NEW t \in Threads, Broadcast(t) PROVE MonitorInv'
    BY <1>10, BroadcastKeepsInv
  <1>11. ASSUME NEW t \in Threads, BroadcastStep(t) PROVE MonitorInv'
    BY <1>11, SignalKeepsInv DEF BroadcastStep, At
  <1>12. CASE UNCHANGED vars
    BY <1>12 DEF vars, MonitorInv, TypeOK, MutualExclusion, HolderExact,
                 LockExact, NoMissedSignal, WaitingMatches, At, Owns, InWait,
                 InQueue
  <1> QED BY <1>1, <1>2, <1>3, <1>4, <1>5, <1>6, <1>7, <1>8, <1>9, <1>10,
             <1>11, <1>12 DEF Next, Step

(***************************************************************************)
(* The theorems.                                                           *)
(***************************************************************************)

\* The inductive invariant holds in every reachable state: Lock and
\* Condition (synch.cc) keep semaphores, holder and list in step.
THEOREM MonitorCorrect == Spec => []MonitorInv
  BY InitInv, NextInv, PTL DEF Spec

\* Between Acquire and Release there is one thread at a time.
THEOREM LockExcludes == Spec => []MutualExclusion
  <1>1. MonitorInv => MutualExclusion
    BY DEF MonitorInv
  <1> QED BY <1>1, MonitorCorrect, PTL

\* Condition::waitQueue is changed by the holder of the lock only, the other
\* threads staying where they are: Signal and Broadcast may use it with
\* interrupts on.
THEOREM QueueHasOneWriter == Spec => QueueChangedByHolder
  <1>1. ASSUME MonitorInv, [Next]_vars
        PROVE  [waitQueue' # waitQueue =>
                  \E t \in Threads :
                     lockHolder = t /\ pc[t] \in {"inside", "broadcast"}
                     /\ \A u \in Threads \ {t} : pc'[u] = pc[u]]_vars
    <2> SUFFICES ASSUME waitQueue' # waitQueue
                 PROVE  \E t \in Threads :
                           lockHolder = t /\ pc[t] \in {"inside", "broadcast"}
                           /\ \A u \in Threads \ {t} : pc'[u] = pc[u]
      OBVIOUS
    <2>1. PICK t \in Threads : Wait(t) \/ Signal(t) \/ BroadcastStep(t)
      BY <1>1 DEF Next, Step, vars, Acquire, MutexP, AcquireReturnsFromP,
                  SetLockHolder, Release, WaitP, WaitReturnsFromP, Reacquire,
                  Broadcast
    <2>2. pc[t] \in {"inside", "broadcast"}
      BY <2>1 DEF Wait, Signal, BroadcastStep, At
    <2>3. lockHolder = t
      BY <1>1, <2>2 DEF MonitorInv, HolderExact
    <2>4. \A u \in Threads \ {t} : pc'[u] = pc[u]
      BY <1>1, <2>1 DEF Wait, Signal, BroadcastStep, GoTo, MonitorInv, TypeOK
    <2> QED BY <2>2, <2>3, <2>4
  <1> QED BY <1>1, MonitorCorrect, PTL DEF Spec, QueueChangedByHolder

\* Every step of the monitor is a P or a V of its semaphores or leaves them
\* alone; a semaphore that Wait allocates is as the last one was left.
LEMMA StepUsesSemaphores ==
    ASSUME MonitorInv, [Next]_vars
    PROVE  [Sem!AbsNext]_Sem!semVars
  <1> USE DEF Sem!AbsNext, Sem!semVars
  <1>1. ASSUME NEW t \in Threads, MutexP(t)
        PROVE  Sem!AbsNext
    BY <1>1 DEF MutexP
  <1>2. ASSUME NEW t \in Threads, AcquireReturnsFromP(t)
        PROVE  Sem!AbsNext
    BY <1>2 DEF AcquireReturnsFromP
  <1>3. ASSUME NEW t \in Threads, SetLockHolder(t) \/ Broadcast(t)
        PROVE  UNCHANGED Sem!semVars
    BY <1>3 DEF SetLockHolder, Broadcast
  <1>4. ASSUME NEW t \in Threads, Release(t)
        PROVE  Sem!AbsNext
    BY <1>4 DEF Release
  <1>5. ASSUME NEW t \in Threads, Wait(t)
        PROVE  Sem!AbsNext
    <2>1. value[t] = 0 /\ t # Mutex
      BY <1>5, MonitorAssumption
         DEF Wait, At, MonitorInv, NoMissedSignal, InWait
    <2>2. value' = [value EXCEPT ![Mutex] = @ + 1]
      BY <1>5, <2>1 DEF Wait, MonitorInv, TypeOK
    <2> QED BY <1>5, <2>2 DEF Wait, Sem!Increment
  <1>6. ASSUME NEW t \in Threads, WaitP(t)
        PROVE  Sem!AbsNext
    BY <1>6 DEF WaitP
  <1>7. ASSUME NEW t \in Threads, WaitReturnsFromP(t)
        PROVE  Sem!AbsNext
    BY <1>7 DEF WaitReturnsFromP
  <1>8. ASSUME SignalBody
        PROVE  [Sem!AbsNext]_Sem!semVars
    <2>1. CASE waitQueue = <<>>
      BY <1>8, <2>1 DEF SignalBody
    <2>2. CASE waitQueue # <<>>
      <3>1. Head(waitQueue) \in Threads
        BY <2>2, HeadInList DEF MonitorInv, TypeOK
      <3> QED BY <1>8, <2>2, <3>1 DEF SignalBody
    <2> QED BY <2>1, <2>2
  <1>9. CASE UNCHANGED vars
    BY <1>9 DEF vars
  <1> QED BY <1>1, <1>2, <1>3, <1>4, <1>5, <1>6, <1>7, <1>8, <1>9
          DEF Next, Step, Acquire, Reacquire, Signal, BroadcastStep

\* Lock and Condition stay within what AbstractSemaphores describes.
THEOREM SemaphoresUsed == Spec => UsesSemaphores
  <1>1. Init => Sem!AbsInit
    BY DEF Init
  <1>2. MonitorInv /\ [Next]_vars => [Sem!AbsNext]_Sem!semVars
    BY StepUsesSemaphores
  <1> QED BY <1>1, <1>2, MonitorCorrect, PTL
          DEF Spec, UsesSemaphores, Sem!AbsSafety

(***************************************************************************)
(* The refinement of the abstract monitor.                                 *)
(***************************************************************************)

\* Who the abstract holder is.
LEMMA OwnerIs ==
    /\ MutualExclusion => \A t \in Threads : Owns(t) => Owner = t
    /\ (\A t \in Threads : ~ Owns(t)) => Owner = NoThread
    /\ Owner \in Threads => Owns(Owner)
  BY MonitorAssumption DEF Owner, MutualExclusion

\* A P of the lock's semaphore that returns is Acquire returning.
LEMMA TakeIsEnter ==
    ASSUME MonitorInv, MonitorInv', NEW t \in Threads,
           pc[t] \in {"out", "woken", "acquire"},
           value[Mutex] > 0, GoTo(t, "acquired"), UNCHANGED waitQueue
    PROVE  Promise!MonitorNext
  <1>1. /\ \A u \in Threads : ~ Owns(u)
        /\ Owner = NoThread
    BY OwnerIs DEF MonitorInv, LockExact
  <1>2. Owner' = t
    <2>1. Owns(t)' /\ MutualExclusion'
      BY DEF Owns, GoTo, MonitorInv, TypeOK
    <2> QED BY <2>1, OwnerIs DEF Owns, Owner, MutualExclusion
  <1>3. \A u \in Threads : Asks(u)' <=> (Asks(u) /\ u # t)
    BY DEF Asks, GoTo, InWait, InQueue, MonitorInv, TypeOK
  <1>4. CASE pc[t] = "out"
    <2>1. ~ Asks(t) /\ ~ InQueue(t)
      BY <1>4 DEF Asks, InWait, MonitorInv, NoMissedSignal
    <2>2. Promise!EnterAtOnce(t) /\ ~ Promise!InWaiters(t)
      BY <1>1, <1>2, <1>3, <2>1
         DEF Promise!EnterAtOnce, Promise!InWaiters, Promise!InList,
             InQueue, InList
    <2> QED BY <2>2 DEF Promise!MonitorNext
  <1>5. CASE pc[t] # "out"
    <2>1. Asks(t)
      BY <1>5 DEF Asks
    <2>2. Promise!Enter(t)
      BY <1>1, <1>2, <1>3, <2>1 DEF Promise!Enter
    <2> QED BY <2>2 DEF Promise!MonitorNext
  <1> QED BY <1>4, <1>5

\* Steps that leave owner, askers and list as they are.
LEMMA Stutters ==
    ASSUME \A u \in Threads : Owns(u)' <=> Owns(u),
           \A u \in Threads : Asks(u)' <=> Asks(u),
           UNCHANGED waitQueue
    PROVE  UNCHANGED Promise!monitorVars
  <1>1. Owner' = Owner
    BY DEF Owner
  <1>2. {u \in Threads : Asks(u)}' = {u \in Threads : Asks(u)}
    OBVIOUS
  <1> QED BY <1>1, <1>2 DEF Promise!monitorVars

\* A P of the lock's semaphore that has to wait is the call of Acquire, or
\* nothing new when Wait had already asked.
LEMMA WaitIsAsk ==
    ASSUME MonitorInv, NEW t \in Threads, pc[t] \in {"out", "woken"},
           GoTo(t, "acquire"), UNCHANGED waitQueue
    PROVE  [Promise!MonitorNext]_Promise!monitorVars
  <1> USE DEF MonitorInv, TypeOK, GoTo, InWait, InQueue, Asks, Owns
  <1>1. \A u \in Threads : Owns(u)' <=> Owns(u)
    OBVIOUS
  <1>2. CASE pc[t] = "woken"
    <2>1. \A u \in Threads : Asks(u)' <=> Asks(u)
      BY <1>2
    <2> QED BY <1>1, <2>1, Stutters
  <1>3. CASE pc[t] = "out"
    <2>1. Owner' = Owner /\ Owner # t
      BY <1>1, <1>3, OwnerIs DEF Owner
    <2>2. ~ Asks(t) /\ ~ InQueue(t)
      BY <1>3 DEF NoMissedSignal
    <2>3. {u \in Threads : Asks(u)}' = {u \in Threads : Asks(u)} \cup {t}
      BY <1>3
    <2>4. Promise!Ask(t) /\ ~ Promise!InWaiters(t)
      BY <2>1, <2>2, <2>3
         DEF Promise!Ask, Promise!InWaiters, Promise!InList, InList
    <2> QED BY <2>4 DEF Promise!MonitorNext
  <1> QED BY <1>2, <1>3

LEMMA MutexPRefines ==
    ASSUME MonitorInv, MonitorInv', NEW t \in Threads,
           pc[t] \in {"out", "woken"}, MutexP(t)
    PROVE  [Promise!MonitorNext]_Promise!monitorVars
  <1>1. CASE Sem!TakeAtOnce(Mutex) /\ GoTo(t, "acquired")
    BY <1>1, TakeIsEnter DEF MutexP, Sem!TakeAtOnce
  <1>2. CASE Sem!Wait(t, Mutex) /\ GoTo(t, "acquire")
    BY <1>2, WaitIsAsk DEF MutexP
  <1> QED BY <1>1, <1>2 DEF MutexP

\* Release, and the V in Wait, free the abstract lock.
LEMMA FreesLock ==
    ASSUME MonitorInv, NEW t \in Threads, pc[t] = "inside",
           GoTo(t, "out") \/ GoTo(t, "released")
    PROVE  Owner = t /\ Owner' = NoThread
  <1>1. Owner = t
    BY OwnerIs DEF Owns, MonitorInv
  <1>2. \A u \in Threads : ~ Owns(u)'
    BY DEF Owns, GoTo, MonitorInv, TypeOK, MutualExclusion
  <1>3. Owner' = NoThread
    BY <1>2 DEF Owner
  <1> QED BY <1>1, <1>3

LEMMA ReleaseRefines ==
    ASSUME MonitorInv, NEW t \in Threads, Release(t)
    PROVE  Promise!MonitorNext
  <1>1. Owner = t /\ Owner' = NoThread
    BY FreesLock DEF Release, At
  <1>2. {u \in Threads : Asks(u)}' = {u \in Threads : Asks(u)}
    BY DEF Release, At, GoTo, Asks, InWait, InQueue, MonitorInv, TypeOK
  <1>3. Promise!Leave(t) /\ UNCHANGED waitQueue
    BY <1>1, <1>2 DEF Promise!Leave, Release
  <1> QED BY <1>3 DEF Promise!MonitorNext

LEMMA WaitRefines ==
    ASSUME MonitorInv, MonitorInv', NEW t \in Threads, Wait(t)
    PROVE  Promise!MonitorNext
  <1>1. Owner = t /\ Owner' = NoThread
    BY FreesLock DEF Wait, At
  <1>2. ~ InQueue(t)
    BY DEF Wait, At, MonitorInv, NoMissedSignal, InWait
  <1>3. \A u \in Threads : InQueue(u)' <=> (InQueue(u) \/ u = t)
    BY InListAppend DEF Wait, InQueue, MonitorInv, TypeOK
  <1>4. \A u \in Threads : Asks(u)' <=> Asks(u)
    BY <1>3 DEF Wait, At, GoTo, Asks, InWait, MonitorInv, TypeOK
  <1>5. {u \in Threads : Asks(u)}' = {u \in Threads : Asks(u)}
    BY <1>4
  <1>6. Promise!Wait(t)
    BY <1>1, <1>2, <1>5
       DEF Promise!Wait, Promise!InWaiters, Promise!InList, InQueue, InList,
           Wait
  <1> QED BY <1>6 DEF Promise!MonitorNext

\* waiter->P and the rest of Wait change nothing that the abstract monitor
\* sees: whether a thread asks is decided by Signal.
LEMMA WaitPRefines ==
    ASSUME MonitorInv, NEW t \in Threads, WaitP(t) \/ WaitReturnsFromP(t)
    PROVE  UNCHANGED Promise!monitorVars
  <1> USE DEF MonitorInv, TypeOK, GoTo, At, InWait, InQueue, Asks, Owns
  <1>1. CASE pc' = [pc EXCEPT ![t] = "woken"]
    <2>1. value[t] > 0 /\ InWait(t) /\ UNCHANGED waitQueue
      BY <1>1 DEF WaitP, WaitReturnsFromP, Sem!TakeAtOnce, Sem!Take
    <2>2. ~ InQueue(t)
      BY <2>1 DEF NoMissedSignal
    <2>3. \A u \in Threads : Asks(u)' <=> Asks(u)
      BY <1>1, <2>1, <2>2
    <2>4. \A u \in Threads : Owns(u)' <=> Owns(u)
      BY <1>1, <2>1
    <2> QED BY <2>1, <2>3, <2>4, Stutters
  <1>2. CASE pc' = [pc EXCEPT ![t] = "asleep"]
    <2>1. InWait(t) /\ UNCHANGED waitQueue
      BY <1>2 DEF WaitP, WaitReturnsFromP
    <2>2. \A u \in Threads : Asks(u)' <=> Asks(u)
      BY <1>2, <2>1
    <2>3. \A u \in Threads : Owns(u)' <=> Owns(u)
      BY <1>2, <2>1
    <2> QED BY <2>1, <2>2, <2>3, Stutters
  <1> QED BY <1>1, <1>2 DEF WaitP, WaitReturnsFromP

LEMMA SetLockHolderRefines ==
    ASSUME MonitorInv, NEW t \in Threads, SetLockHolder(t) \/ Broadcast(t)
    PROVE  UNCHANGED Promise!monitorVars
  <1> USE DEF MonitorInv, TypeOK, GoTo, At, InWait, InQueue, Asks, Owns,
          SetLockHolder, Broadcast
  <1>1. \A u \in Threads : Asks(u)' <=> Asks(u)
    OBVIOUS
  <1>2. \A u \in Threads : Owns(u)' <=> Owns(u)
    OBVIOUS
  <1> QED BY <1>1, <1>2, Stutters

LEMMA SignalRefines ==
    ASSUME MonitorInv, NEW t \in Threads, pc[t] \in {"inside", "broadcast"},
           SignalBody,
           \/ UNCHANGED pc
           \/ GoTo(t, "inside") /\ waitQueue = <<>>
    PROVE  [Promise!MonitorNext]_Promise!monitorVars
  <1>1. CASE waitQueue = <<>>
    <2>1. UNCHANGED waitQueue
      BY <1>1 DEF SignalBody
    <2>2. \A u \in Threads : Asks(u)' <=> Asks(u)
      BY <2>1 DEF Asks, GoTo, InWait, InQueue, MonitorInv, TypeOK
    <2>3. \A u \in Threads : Owns(u)' <=> Owns(u)
      BY DEF Owns, GoTo, MonitorInv, TypeOK
    <2> QED BY <2>1, <2>2, <2>3, Stutters
  <1>2. CASE waitQueue # <<>>
    <2>0. /\ waitQueue \in Seq(Threads) /\ Distinct(waitQueue)
          /\ waitQueue' = Tail(waitQueue) /\ UNCHANGED pc
      BY <1>2 DEF SignalBody, MonitorInv, TypeOK, NoMissedSignal
    <2>1. PICK u \in Threads : u = Head(waitQueue) /\ InQueue(u)
      BY <1>2, <2>0, HeadInList DEF InQueue
    <2>2. \A v \in Threads : InQueue(v)' <=> (InQueue(v) /\ v # u)
      <3>1. \A v : InList(v, Tail(waitQueue))
                     <=> (InList(v, waitQueue) /\ v # Head(waitQueue))
        BY <1>2, <2>0, InListTail
      <3> QED BY <2>0, <2>1, <3>1 DEF InQueue
    <2>3. InWait(u)
      BY <2>1 DEF MonitorInv, NoMissedSignal
    <2>4. {v \in Threads : Asks(v)}' = {v \in Threads : Asks(v)} \cup {u}
      BY <2>0, <2>2, <2>3 DEF Asks, InWait
    <2>5. Owner = t /\ Owner' = t
      BY <2>0, OwnerIs DEF Owner, Owns, MonitorInv
    <2>6. Promise!Signal(t)
      BY <1>2, <2>0, <2>1, <2>4, <2>5 DEF Promise!Signal
    <2> QED BY <2>6 DEF Promise!MonitorNext
  <1> QED BY <1>1, <1>2

LEMMA NextRefines ==
    ASSUME MonitorInv, MonitorInv', [Next]_vars
    PROVE  [Promise!MonitorNext]_Promise!monitorVars
  <1>1. ASSUME NEW t \in Threads, Acquire(t) \/ Reacquire(t)
        PROVE  [Promise!MonitorNext]_Promise!monitorVars
    BY <1>1, MutexPRefines DEF Acquire, Reacquire, At
  <1>2. ASSUME NEW t \in Threads, AcquireReturnsFromP(t)
        PROVE  Promise!MonitorNext
    BY <1>2, TakeIsEnter DEF AcquireReturnsFromP, At, Sem!Take
  <1>3. ASSUME NEW t \in Threads, SetLockHolder(t) \/ Broadcast(t)
        PROVE  UNCHANGED Promise!monitorVars
    BY <1>3, SetLockHolderRefines
  <1>4. ASSUME NEW t \in Threads, Release(t)
        PROVE  Promise!MonitorNext
    BY <1>4, ReleaseRefines
  <1>5. ASSUME NEW t \in Threads, Wait(t)
        PROVE  Promise!MonitorNext
    BY <1>5, WaitRefines
  <1>6. ASSUME NEW t \in Threads, WaitP(t) \/ WaitReturnsFromP(t)
        PROVE  UNCHANGED Promise!monitorVars
    BY <1>6, WaitPRefines
  <1>7. ASSUME NEW t \in Threads, Signal(t) \/ BroadcastStep(t)
        PROVE  [Promise!MonitorNext]_Promise!monitorVars
    BY <1>7, SignalRefines DEF Signal, BroadcastStep, At
  <1>8. CASE UNCHANGED vars
    <2>1. UNCHANGED <<pc, waitQueue>>
      BY <1>8 DEF vars
    <2> QED BY <2>1, Stutters DEF Asks, Owns, InWait, InQueue
  <1> QED BY <1>1, <1>2, <1>3, <1>4, <1>5, <1>6, <1>7, <1>8 DEF Next, Step

LEMMA InitRefines == Init => Promise!MonitorInit
  <1> SUFFICES ASSUME Init PROVE Promise!MonitorInit
    OBVIOUS
  <1>1. \A t \in Threads : ~ Owns(t) /\ ~ Asks(t)
    BY DEF Init, Owns, Asks, InWait
  <1>2. Owner = NoThread
    BY <1>1, OwnerIs
  <1> QED BY <1>1, <1>2 DEF Promise!MonitorInit, Init

\* Lock and Condition implement the abstract monitor: Wait is atomic, a
\* signal moves its thread from the waiting ones to those that ask for the
\* lock, whether or not it has gone to sleep yet.
THEOREM MonitorImplements == Spec => ImplementsMonitorSafety
  BY InitRefines, NextRefines, MonitorCorrect, PTL
     DEF Spec, ImplementsMonitorSafety, Promise!MonitorSafety

=============================================================================
