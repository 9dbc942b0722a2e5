----------------------------- MODULE Semaphores -----------------------------
(***************************************************************************)
(* Semaphore::P and Semaphore::V (synch.cc) on top of the scheduler.  P    *)
(* and V run with interrupts off, so each is one action up to the tick of  *)
(* its last SetLevel, or up to the switch inside Sleep; a P that slept goes *)
(* on where it is switched in again.  V is called by threads and, for the   *)
(* semaphores in DeviceSems, by the interrupt handlers of the device       *)
(* drivers (SynchDisk::CallBack, SynchConsoleInput::CallBack, ...).        *)
(***************************************************************************)
EXTENDS Scheduler

CONSTANTS Sems,          (* the semaphores                                 *)
          DeviceSems,    (* those that interrupt handlers signal           *)
          InitialValue,  (* the constructor's initialValue                 *)
          MaxValue,      (* bound on value[s], so that the state is finite *)
          NoSem

ASSUME SemsAssumption ==
    /\ DeviceSems \subseteq Sems
    /\ NoSem \notin Sems
    /\ MaxValue \in Nat
    /\ InitialValue \in [Sems -> 0 .. MaxValue]
    /\ IsFiniteSet(Threads)

VARIABLES value,   (* Semaphore::value                                     *)
          queue,   (* Semaphore::queue                                     *)
          waitsOn  (* the semaphore a thread is in P of, after it has gone *)
                   (* to sleep there for the first time                    *)

vars == <<status, readyList, currentThread, toBeDestroyed, yieldOnReturn,
          phase, cont, value, queue, waitsOn>>

syncVars == <<value, queue, waitsOn>>

Init ==
    /\ SchedulerInit
    /\ value = InitialValue
    /\ queue = [s \in Sems |-> <<>>]
    /\ waitsOn = [t \in Threads |-> NoSem]

-----------------------------------------------------------------------------

\* Wrong variant of PLoop, refused by SemInv.
PLoopIfNotWhile(s) ==
    IF value[s] = 0 /\ phase = "run"
    THEN /\ queue' = [queue EXCEPT ![s] = Append(@, currentThread)]
         /\ waitsOn' = [waitsOn EXCEPT ![currentThread] = s]
         /\ SleepBody(FALSE)
         /\ UNCHANGED value
    ELSE /\ value' = [value EXCEPT ![s] = @ - 1]
         /\ waitsOn' = [waitsOn EXCEPT ![currentThread] = NoSem]
         /\ phase' = "tick"
         /\ UNCHANGED <<queue, status, readyList, currentThread,
                        toBeDestroyed, cont>>

\* The loop of P from its test on: leave with the value, or join the queue
\* and sleep.
PLoop(s) ==
    IF value[s] = 0
    THEN /\ queue' = [queue EXCEPT ![s] = Append(@, currentThread)]
         /\ waitsOn' = [waitsOn EXCEPT ![currentThread] = s]
         /\ SleepBody(FALSE)
         /\ UNCHANGED value
    ELSE /\ value' = [value EXCEPT ![s] = @ - 1]
         /\ waitsOn' = [waitsOn EXCEPT ![currentThread] = NoSem]
         /\ phase' = "tick"
         /\ UNCHANGED <<queue, status, readyList, currentThread,
                        toBeDestroyed, cont>>

\* Semaphore::P is called.
P(s) ==
    /\ phase = "run"
    /\ PLoop(s)
    /\ UNCHANGED yieldOnReturn

\* Semaphore::P goes on after Sleep has returned.
PAfterSleep ==
    /\ phase = "off"
    /\ PLoop(waitsOn[currentThread])
    /\ UNCHANGED yieldOnReturn

\* Wrong variant of VBody, refused by ImplementsSemaphore.
VWakesOnlyAtZero(s) ==
    /\ value[s] < MaxValue
    /\ value' = [value EXCEPT ![s] = @ + 1]
    /\ IF queue[s] # <<>> /\ value[s] = 0
       THEN /\ ReadyToRun(Head(queue[s]))
            /\ queue' = [queue EXCEPT ![s] = Tail(@)]
       ELSE UNCHANGED <<status, readyList, queue>>
    /\ UNCHANGED <<currentThread, toBeDestroyed, yieldOnReturn, cont, waitsOn>>

\* Wrong variant of VBody, refused by UsesScheduler.
VLeavesInQueue(s) ==
    /\ value[s] < MaxValue
    /\ value' = [value EXCEPT ![s] = @ + 1]
    /\ IF queue[s] # <<>>
       THEN ReadyToRun(Head(queue[s]))
       ELSE UNCHANGED <<status, readyList>>
    /\ UNCHANGED <<queue, currentThread, toBeDestroyed, yieldOnReturn, cont,
                   waitsOn>>

\* The body of Semaphore::V.
VBody(s) ==
    /\ value[s] < MaxValue
    /\ value' = [value EXCEPT ![s] = @ + 1]
    /\ IF queue[s] # <<>>
       THEN /\ ReadyToRun(Head(queue[s]))
            /\ queue' = [queue EXCEPT ![s] = Tail(@)]
       ELSE UNCHANGED <<status, readyList, queue>>
    /\ UNCHANGED <<currentThread, toBeDestroyed, yieldOnReturn, cont, waitsOn>>

\* Semaphore::V called by the current thread.
V(s) ==
    /\ phase = "run"
    /\ VBody(s)
    /\ phase' = "tick"

\* Semaphore::V called by an interrupt handler: CheckIfDue runs it with
\* interrupts off, so its SetLevel(oldLevel) does not tick.
VByHandler(s) ==
    /\ phase \in {"tick", "idle"}
    /\ VBody(s)
    /\ UNCHANGED phase

-----------------------------------------------------------------------------
\* The steps of the scheduler that do not go through a semaphore.

SchedulerStep ==
    /\ \/ Compute \/ Yield \/ Finish
       \/ TimerHandler \/ EndTick \/ IdleReturn \/ Begin \/ ReturnFromRun
       \/ \E t \in Threads : Fork(t)
    /\ UNCHANGED syncVars

Next ==
    \/ SchedulerStep
    \/ PAfterSleep
    \/ \E s \in Sems : P(s) \/ V(s)
    \/ \E s \in DeviceSems : VByHandler(s)

\* The scheduler's fairness; nothing makes a thread call P or V.
Fairness ==
    /\ WF_vars(Compute /\ UNCHANGED syncVars)
    /\ WF_vars(EndTick /\ UNCHANGED syncVars)
    /\ WF_vars(IdleReturn /\ UNCHANGED syncVars)
    /\ WF_vars(Begin /\ UNCHANGED syncVars)
    /\ WF_vars(ReturnFromRun /\ UNCHANGED syncVars)
    /\ WF_vars(PAfterSleep)
    /\ SF_vars(phase = "tick" /\ TimerHandler /\ UNCHANGED syncVars)

Spec == Init /\ [][Next]_vars

FairSpec == Spec /\ Fairness

-----------------------------------------------------------------------------
(* Properties.                                                             *)

SemTypeOK ==
    /\ value \in [Sems -> 0 .. MaxValue]
    /\ queue \in [Sems -> Seq(Threads)]
    /\ waitsOn \in [Threads -> Sems \cup {NoSem}]

\* Asleep in Semaphore::P, and anywhere in P since its first sleep there.
Asleep(t) == status[t] = "BLOCKED" /\ cont[t] = "sleep"
InP(t)    == cont[t] = "sleep" \/ (t = currentThread /\ phase = "off")

\* A thread is in the queue of a semaphore exactly when it sleeps in P of
\* that semaphore, and it is there once: !IsInList of List::Append holds when
\* P joins the queue, and V hands ReadyToRun a thread that does sleep.
QueueExact ==
    /\ \A t \in Threads : \A s \in Sems :
         InList(t, queue[s]) <=> (Asleep(t) /\ waitsOn[t] = s)
    /\ \A s \in Sems : Distinct(queue[s])

\* A thread has a semaphore to wait for exactly while it is in P: asleep, or
\* woken and on its way to test the value again.
WaitsOnMatches ==
    \A t \in Threads : waitsOn[t] # NoSem <=> InP(t)

\* The threads V has woken in P(s) that have not tested the value again.
Woken(s) == {t \in Threads : waitsOn[t] = s /\ ~InList(t, queue[s])}

\* No wakeup is lost although a running thread may take the value a woken
\* thread was woken for: while threads sleep on s, at least as many woken
\* ones are on their way as there are increments to be had.
NoLostWakeup ==
    \A s \in Sems :
        queue[s] # <<>> => Cardinality(Woken(s)) >= value[s]

\* The inductive invariant of the semaphores.
SemInv ==
    /\ SchedulerInv
    /\ SemTypeOK
    /\ QueueExact
    /\ WaitsOnMatches
    /\ NoLostWakeup

\* Every increment is consumed by a P that returns, every P waits for a
\* positive value and none for ever beside one: the semaphores implement
\* the abstract ones.
Promise == INSTANCE AbstractSemaphores WITH
              waiting <- [s \in Sems |-> {t \in Threads : waitsOn[t] = s}]

ImplementsSemaphore == Promise!AbsSpec

ImplementsSemaphoreSafety == Promise!AbsSafety

\* P and V use the scheduler as Scheduler describes it: they ready sleeping
\* threads only and sleep with interrupts off.
UsesScheduler == SchedulerSpec

=============================================================================
