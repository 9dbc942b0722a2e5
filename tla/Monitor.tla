------------------------------ MODULE Monitor ------------------------------
(***************************************************************************)
(* Lock and Condition (synch.cc).  A Lock is a semaphore and the name of   *)
(* its holder, a Condition a list of semaphores, one for every thread in   *)
(* Wait.  The semaphores are the ones AbstractSemaphores promises and      *)
(* Semaphores provides.  Neither class turns interrupts off: each action   *)
(* is the code up to the next tick, that is up to the end of a P or a V,   *)
(* and between two actions any other thread may run.                       *)
(***************************************************************************)
EXTENDS Lists

CONSTANTS Threads,   (* the threads that use the lock and its condition    *)
          NoThread,  (* lockHolder of a free lock                          *)
          Mutex      (* Lock::semaphore                                    *)

ASSUME MonitorAssumption ==
    /\ NoThread \notin Threads
    /\ Mutex \notin Threads

VARIABLES value,       (* the semaphores' values: the lock's, and at t the *)
          waiting,     (* one Wait allocates for thread t; who waits in P  *)
          lockHolder,  (* Lock::lockHolder                                 *)
          waitQueue,   (* Condition::waitQueue, a semaphore by its thread  *)
          pc           (* where each thread is                             *)

vars == <<value, waiting, lockHolder, waitQueue, pc>>

(* out       neither holds nor wants the lock                              *)
(* acquire   waits in Lock::Acquire's P                                    *)
(* acquired  P has returned, lockHolder is not yet set                     *)
(* inside    Acquire has returned                                          *)
(* broadcast inside the loop of Condition::Broadcast                       *)
(* released  in Condition::Wait, after Release and before waiter->P        *)
(* asleep    waits in waiter->P                                            *)
(* woken     waiter->P has returned, Wait is about to call Acquire         *)
Places == {"out", "acquire", "acquired", "inside", "broadcast",
           "released", "asleep", "woken"}

Initially == [s \in Threads \cup {Mutex} |-> IF s = Mutex THEN 1 ELSE 0]

Sem == INSTANCE AbstractSemaphores WITH
          Sems <- Threads \cup {Mutex}, InitialValue <- Initially

Init ==
    /\ Sem!AbsInit
    /\ lockHolder = NoThread
    /\ waitQueue = <<>>
    /\ pc = [t \in Threads |-> "out"]

At(t, place) == pc[t] = place

GoTo(t, place) == pc' = [pc EXCEPT ![t] = place]

InQueue(t) == InList(t, waitQueue)

-----------------------------------------------------------------------------
\* The P of Lock::Acquire: returns at once, or waits.
MutexP(t) ==
    /\ \/ Sem!TakeAtOnce(Mutex) /\ GoTo(t, "acquired")
       \/ Sem!Wait(t, Mutex) /\ GoTo(t, "acquire")
    /\ UNCHANGED <<lockHolder, waitQueue>>

Acquire(t) == At(t, "out") /\ MutexP(t)

AcquireReturnsFromP(t) ==
    /\ At(t, "acquire")
    /\ Sem!Take(t, Mutex)
    /\ GoTo(t, "acquired")
    /\ UNCHANGED <<lockHolder, waitQueue>>

\* The tick of P may have run other threads before this assignment.
SetLockHolder(t) ==
    /\ At(t, "acquired")
    /\ lockHolder' = t
    /\ GoTo(t, "inside")
    /\ UNCHANGED <<value, waiting, waitQueue>>

\* Lock::Release.  Its ASSERT is the part HolderExact of MonitorInv.
Release(t) ==
    /\ At(t, "inside")
    /\ lockHolder' = NoThread
    /\ Sem!Increment(Mutex)
    /\ GoTo(t, "out")
    /\ UNCHANGED waitQueue

\* Condition::Wait, up to the V of its Release: a new semaphore, at the end
\* of the list before the lock is free.
Wait(t) ==
    /\ At(t, "inside")
    /\ value' = [value EXCEPT ![t] = 0, ![Mutex] = @ + 1]
    /\ waitQueue' = Append(waitQueue, t)
    /\ lockHolder' = NoThread
    /\ GoTo(t, "released")
    /\ UNCHANGED waiting

\* Wrong variant of WaitP, refused by MonitorInv, UsesSemaphores.
WaitPIgnoresEarlySignal(t) ==
    /\ At(t, "released")
    /\ value' = [value EXCEPT ![t] = 0]
    /\ waiting' = [waiting EXCEPT ![t] = @ \cup {t}]
    /\ GoTo(t, "asleep")
    /\ UNCHANGED <<lockHolder, waitQueue>>

\* waiter->P(): finds the signal there, or waits for it.
WaitP(t) ==
    /\ At(t, "released")
    /\ \/ Sem!TakeAtOnce(t) /\ GoTo(t, "woken")
       \/ Sem!Wait(t, t) /\ GoTo(t, "asleep")
    /\ UNCHANGED <<lockHolder, waitQueue>>

WaitReturnsFromP(t) ==
    /\ At(t, "asleep")
    /\ Sem!Take(t, t)
    /\ GoTo(t, "woken")
    /\ UNCHANGED <<lockHolder, waitQueue>>

\* conditionLock->Acquire() of Wait, which returns like any other.
Reacquire(t) == At(t, "woken") /\ MutexP(t)

\* Wrong variant of SignalBody, refused by ImplementsMonitor.
SignalForgetsV ==
    /\ IF waitQueue # <<>> THEN waitQueue' = Tail(waitQueue)
                           ELSE UNCHANGED waitQueue
    /\ UNCHANGED <<value, waiting, lockHolder>>

\* The body of Condition::Signal.
SignalBody ==
    /\ IF waitQueue # <<>>
       THEN /\ Sem!Increment(Head(waitQueue))
            /\ waitQueue' = Tail(waitQueue)
       ELSE UNCHANGED <<value, waiting, waitQueue>>
    /\ UNCHANGED lockHolder

\* Wrong variant of Signal, refused by QueueChangedByHolder.
SignalByAnyone(t) == pc[t] \in {"out", "inside"} /\ SignalBody /\ UNCHANGED pc

Signal(t) == At(t, "inside") /\ SignalBody /\ UNCHANGED pc

\* Condition::Broadcast signals until the list is empty; every V may run
\* other threads.
Broadcast(t) ==
    /\ At(t, "inside")
    /\ GoTo(t, "broadcast")
    /\ UNCHANGED <<value, waiting, lockHolder, waitQueue>>

BroadcastStep(t) ==
    /\ At(t, "broadcast")
    /\ SignalBody
    /\ IF waitQueue = <<>> THEN GoTo(t, "inside") ELSE UNCHANGED pc

-----------------------------------------------------------------------------
Step(t) ==
    \/ Acquire(t) \/ AcquireReturnsFromP(t) \/ SetLockHolder(t)
    \/ Release(t)
    \/ Wait(t) \/ WaitP(t) \/ WaitReturnsFromP(t) \/ Reacquire(t)
    \/ Signal(t) \/ Broadcast(t) \/ BroadcastStep(t)

Next == \E t \in Threads : Step(t)

Spec == Init /\ [][Next]_vars

\* A thread inside Acquire, Wait or Broadcast goes on, as the scheduler runs
\* every ready thread; the Ps return as AbstractSemaphores promises.
\* Nothing makes a thread call Acquire or Release.
Fairness ==
    /\ WF_vars(\E t \in Threads : AcquireReturnsFromP(t))
    /\ \A t \in Threads :
         /\ WF_vars(SetLockHolder(t))
         /\ WF_vars(WaitP(t))
         /\ WF_vars(WaitReturnsFromP(t))
         /\ WF_vars(Reacquire(t))
         /\ WF_vars(BroadcastStep(t))

FairSpec == Spec /\ Fairness

-----------------------------------------------------------------------------
(* Properties.                                                             *)

TypeOK ==
    /\ value \in [Threads \cup {Mutex} -> Nat]
    /\ waiting \in [Threads \cup {Mutex} -> SUBSET Threads]
    /\ lockHolder \in Threads \cup {NoThread}
    /\ waitQueue \in Seq(Threads)
    /\ pc \in [Threads -> Places]

Owns(t) == pc[t] \in {"acquired", "inside", "broadcast"}

InWait(t) == pc[t] \in {"released", "asleep"}

\* One thread at a time is between Acquire and Release.
MutualExclusion == \A t, u \in Threads : Owns(t) /\ Owns(u) => t = u

\* IsHeldByCurrentThread is TRUE for the thread that Acquire has returned
\* to and for no other: the ASSERTs of Release, Wait and Signal hold, and
\* would stop any other caller.
HolderExact ==
    \A t \in Threads : lockHolder = t <=> pc[t] \in {"inside", "broadcast"}

\* The semaphore of the lock is 1 exactly when nobody owns the lock, so that
\* it is never lost, nor handed out twice, by a Wait or a Release.
LockExact == value[Mutex] = IF \E t \in Threads : Owns(t) THEN 0 ELSE 1

\* "there is no chance the waiter will miss the signal, even though the lock
\* is released before calling P()": a thread in Wait is in the list, once,
\* or has its signal in its semaphore; and no semaphore holds a signal that
\* a later Wait could mistake for its own.
NoMissedSignal ==
    /\ \A t \in Threads : InQueue(t) => InWait(t)
    /\ \A t \in Threads :
         value[t] = IF InWait(t) /\ ~InQueue(t) THEN 1 ELSE 0
    /\ Distinct(waitQueue)

\* P's waiting threads are where they ought to be.
WaitingMatches ==
    /\ waiting[Mutex] = {t \in Threads : At(t, "acquire")}
    /\ \A t \in Threads :
         waiting[t] = {u \in Threads : u = t /\ At(t, "asleep")}

\* The inductive invariant.
MonitorInv ==
    /\ TypeOK
    /\ MutualExclusion
    /\ HolderExact
    /\ LockExact
    /\ NoMissedSignal
    /\ WaitingMatches

\* "we assume the caller holds the monitor lock. This allows us to access
\* waitQueue without disabling interrupts": only the holder changes the
\* list, so no other thread does between two steps of a Broadcast.
QueueChangedByHolder ==
    [][waitQueue' # waitQueue =>
         \E t \in Threads : lockHolder = t /\ pc[t] \in {"inside", "broadcast"}
                            /\ \A u \in Threads \ {t} : pc'[u] = pc[u]]_vars

\* The thread between Acquire and Release, and the threads that ask for the
\* lock: in Acquire, or in Wait with a signal.
Owner == IF \E t \in Threads : Owns(t)
         THEN CHOOSE t \in Threads : Owns(t)
         ELSE NoThread

Asks(t) ==
    \/ pc[t] \in {"acquire", "woken"}
    \/ InWait(t) /\ ~InQueue(t)

\* Lock and Condition are the abstract monitor, Wait being atomic.
Promise == INSTANCE AbstractMonitor WITH
              holder <- Owner, asking <- {t \in Threads : Asks(t)},
              waiters <- waitQueue

ImplementsMonitor == Promise!MonitorSpec

ImplementsMonitorSafety == Promise!MonitorSafety

\* Lock and Condition call P and V as AbstractSemaphores describes it: the
\* semaphore that Wait allocates and deletes is a fresh one every time.
UsesSemaphores == Sem!AbsSafety

=============================================================================
