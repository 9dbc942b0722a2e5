----------------------------- MODULE Scheduler -----------------------------
(***************************************************************************)
(* The thread scheduler of the Nachos kernel: Thread (thread.cc),          *)
(* Scheduler (scheduler.cc), the interrupt level and the timer tick        *)
(* (interrupt.cc, alarm.cc).                                               *)
(*                                                                         *)
(* There is one CPU.  A thread can lose it at two kinds of place only: when*)
(* it gives it up itself (Yield, Sleep, Finish), and inside                *)
(* Interrupt::OneTick, which runs whenever interrupts go from off to on and*)
(* after each user instruction.  Whatever a thread does between two such   *)
(* places is atomic, so an action of this module is one such stretch of    *)
(* code.  "phase" says where the CPU is:                                   *)
(*                                                                         *)
(*   "run"       the current thread executes with interrupts on            *)
(*   "tick"      inside OneTick, handlers of due interrupts may be called  *)
(*   "switched"  SWITCH has just loaded the current thread, interrupts off *)
(*   "off"       Sleep has returned to its caller, interrupts still off    *)
(*   "idle"      the current thread is in the loop of Sleep, in Idle       *)
(*                                                                         *)
(* Simulated time is abstracted: at a tick any of the handlers may be due. *)
(***************************************************************************)
EXTENDS Lists, FiniteSets

CONSTANTS Threads,   (* names of Thread objects; a name is reused once its *)
                     (* object has been deleted                            *)
          Main,      (* the thread that main() runs in                     *)
          NoThread   (* the null pointer                                   *)

ASSUME ThreadsAssumption == Main \in Threads /\ NoThread \notin Threads

VARIABLES status,         (* per thread: NONE when there is no such object *)
          readyList,      (* Scheduler::readyList                          *)
          currentThread,  (* kernel->currentThread                         *)
          toBeDestroyed,  (* Scheduler::toBeDestroyed                      *)
          yieldOnReturn,  (* Interrupt::yieldOnReturn                      *)
          phase,          (* where the CPU is, see above                   *)
          cont            (* where a thread that is switched out continues *)

schedulerVars == <<status, readyList, currentThread, toBeDestroyed,
                   yieldOnReturn, phase, cont>>

Statuses == {"NONE", "READY", "RUNNING", "BLOCKED"}
Phases   == {"run", "tick", "switched", "off", "idle"}
Conts    == {"none", "begin", "yield", "sleep", "finish"}

SchedulerInit ==
    /\ status = [t \in Threads |-> IF t = Main THEN "RUNNING" ELSE "NONE"]
    /\ readyList = <<>>
    /\ currentThread = Main
    /\ toBeDestroyed = NoThread
    /\ yieldOnReturn = FALSE
    /\ phase = "run"
    /\ cont = [t \in Threads |-> "none"]

-----------------------------------------------------------------------------
(* Pieces that several handlers share.                                     *)

\* Scheduler::ReadyToRun
ReadyToRun(t) ==
    /\ status' = [status EXCEPT ![t] = "READY"]
    /\ readyList' = Append(readyList, t)

\* Wrong variant of Run, refused by OnlyFinishedDestroyed.
RunAlwaysDestroys(next, st, ready, finishing) ==
    /\ status' = [st EXCEPT ![next] = "RUNNING"]
    /\ readyList' = ready
    /\ currentThread' = next
    /\ toBeDestroyed' = currentThread
    /\ phase' = "switched"

\* Scheduler::Run, up to SWITCH.  "st" is status as the caller leaves it and
\* "ready" the list as FindNextToRun and the caller leave it.
Run(next, st, ready, finishing) ==
    /\ status' = [st EXCEPT ![next] = "RUNNING"]
    /\ readyList' = ready
    /\ currentThread' = next
    /\ toBeDestroyed' = IF finishing THEN currentThread ELSE toBeDestroyed
    /\ phase' = "switched"

\* The body of Thread::Yield.  When nobody is ready the only effect is the
\* tick of SetLevel(oldLevel).
YieldBody ==
    IF readyList = <<>>
    THEN /\ phase' = "tick"
         /\ UNCHANGED <<status, readyList, currentThread, toBeDestroyed, cont>>
    ELSE /\ Run(Head(readyList), [status EXCEPT ![currentThread] = "READY"],
                Append(Tail(readyList), currentThread), FALSE)
         /\ cont' = [cont EXCEPT ![currentThread] = "yield"]

\* Thread::Sleep up to the switch, or up to the first call of Idle when
\* FindNextToRun returns NULL.
SleepBody(finishing) ==
    /\ cont' = [cont EXCEPT ![currentThread] =
                    IF finishing THEN "finish" ELSE "sleep"]
    /\ IF readyList = <<>>
       THEN /\ status' = [status EXCEPT ![currentThread] = "BLOCKED"]
            /\ phase' = "idle"
            /\ UNCHANGED <<readyList, currentThread, toBeDestroyed>>
       ELSE Run(Head(readyList), [status EXCEPT ![currentThread] = "BLOCKED"],
                Tail(readyList), finishing)

\* Scheduler::CheckToBeDestroyed; the thread that runs it is not switched
\* out any more.
CheckToBeDestroyed ==
    /\ status' = [t \in Threads |->
                    IF t = toBeDestroyed THEN "NONE" ELSE status[t]]
    /\ cont' = [t \in Threads |->
                    IF t \in {toBeDestroyed, currentThread}
                    THEN "none" ELSE cont[t]]
    /\ toBeDestroyed' = NoThread

-----------------------------------------------------------------------------
(* What the current thread does while interrupts are on.                   *)

\* A user instruction, or kernel code that disables and restores interrupts
\* and touches no scheduler state: the tick is all that shows.
Compute ==
    /\ phase = "run"
    /\ phase' = "tick"
    /\ UNCHANGED <<status, readyList, currentThread, toBeDestroyed,
                   yieldOnReturn, cont>>

\* new Thread and Thread::Fork; SetLevel(oldLevel) ends in a tick.
Fork(t) ==
    /\ phase = "run"
    /\ status[t] = "NONE"
    /\ ReadyToRun(t)
    /\ cont' = [cont EXCEPT ![t] = "begin"]
    /\ phase' = "tick"
    /\ UNCHANGED <<currentThread, toBeDestroyed, yieldOnReturn>>

\* Thread::Yield called by the thread itself.
Yield ==
    /\ phase = "run"
    /\ YieldBody
    /\ UNCHANGED yieldOnReturn

\* Thread::Sleep(FALSE), called with interrupts off by the synchronization
\* code: at once, or again after it woke up.
Sleep ==
    /\ phase \in {"run", "off"}
    /\ SleepBody(FALSE)
    /\ UNCHANGED yieldOnReturn

\* Thread::Finish
Finish ==
    /\ phase = "run"
    /\ SleepBody(TRUE)
    /\ UNCHANGED yieldOnReturn

\* The current thread readies a sleeping one (Semaphore::V).
WakeByThread(t) ==
    /\ phase = "run"
    /\ status[t] = "BLOCKED" /\ cont[t] = "sleep"
    /\ ReadyToRun(t)
    /\ phase' = "tick"
    /\ UNCHANGED <<currentThread, toBeDestroyed, yieldOnReturn, cont>>

\* The caller of Sleep re-enables interrupts.
Enable ==
    /\ phase = "off"
    /\ phase' = "tick"
    /\ UNCHANGED <<status, readyList, currentThread, toBeDestroyed,
                   yieldOnReturn, cont>>

-----------------------------------------------------------------------------
(* Interrupt::OneTick, Interrupt::Idle and the handlers CheckIfDue calls.  *)

\* Alarm::CallBack asks for a time slice unless the machine is idle.
TimerHandler ==
    /\ phase \in {"tick", "idle"}
    /\ yieldOnReturn' = (yieldOnReturn \/ phase = "tick")
    /\ UNCHANGED <<status, readyList, currentThread, toBeDestroyed, phase, cont>>

\* A device handler readies a sleeping thread.
WakeByHandler(t) ==
    /\ phase \in {"tick", "idle"}
    /\ status[t] = "BLOCKED" /\ cont[t] = "sleep"
    /\ ReadyToRun(t)
    /\ UNCHANGED <<currentThread, toBeDestroyed, yieldOnReturn, phase, cont>>

\* Wrong variant of EndTick, refused by ThreadsProgress.
EndTickDropsYield ==
    /\ phase = "tick"
    /\ yieldOnReturn' = FALSE
    /\ phase' = "run"
    /\ UNCHANGED <<status, readyList, currentThread, toBeDestroyed, cont>>

\* The end of OneTick: back to the thread, or the Yield the timer asked for.
EndTick ==
    /\ phase = "tick"
    /\ yieldOnReturn' = FALSE
    /\ IF yieldOnReturn
       THEN YieldBody
       ELSE /\ phase' = "run"
            /\ UNCHANGED <<status, readyList, currentThread, toBeDestroyed,
                           cont>>

\* Wrong variant of IdleReturn, refused by ThreadsProgress.
IdleReturnForgetsFinishing ==
    /\ phase = "idle"
    /\ readyList # <<>>
    /\ Run(Head(readyList), status, Tail(readyList), FALSE)
    /\ UNCHANGED <<yieldOnReturn, cont>>

\* Idle has returned, the loop of Sleep finds a ready thread and runs it;
\* that may be the sleeping thread itself.
IdleReturn ==
    /\ phase = "idle"
    /\ readyList # <<>>
    /\ Run(Head(readyList), status, Tail(readyList),
           cont[currentThread] = "finish")
    /\ UNCHANGED <<yieldOnReturn, cont>>

-----------------------------------------------------------------------------
(* The first code a thread runs after SWITCH.                              *)

\* Thread::Begin, at the start of a forked thread.
Begin ==
    /\ phase = "switched"
    /\ cont[currentThread] = "begin"
    /\ CheckToBeDestroyed
    /\ phase' = "tick"
    /\ UNCHANGED <<readyList, currentThread, yieldOnReturn>>

\* Scheduler::Run after SWITCH, and what follows in its caller: Yield turns
\* interrupts back on, Sleep returns with interrupts off.
ReturnFromRun ==
    /\ phase = "switched"
    /\ cont[currentThread] # "begin"
    /\ CheckToBeDestroyed
    /\ phase' = IF cont[currentThread] = "yield" THEN "tick" ELSE "off"
    /\ UNCHANGED <<readyList, currentThread, yieldOnReturn>>

-----------------------------------------------------------------------------

SchedulerNext ==
    \/ Compute \/ Yield \/ Sleep \/ Finish \/ Enable
    \/ TimerHandler \/ EndTick \/ IdleReturn \/ Begin \/ ReturnFromRun
    \/ \E t \in Threads : Fork(t) \/ WakeByThread(t) \/ WakeByHandler(t)

\* Code between two ticks terminates, and the periodic timer interrupt
\* (Timer::SetInterrupt) is due at infinitely many of infinitely many ticks.
SchedulerFairness ==
    /\ WF_schedulerVars(Compute) /\ WF_schedulerVars(Enable)
    /\ WF_schedulerVars(EndTick) /\ WF_schedulerVars(IdleReturn)
    /\ WF_schedulerVars(Begin)   /\ WF_schedulerVars(ReturnFromRun)
    /\ SF_schedulerVars(phase = "tick" /\ TimerHandler)

SchedulerSpec == SchedulerInit /\ [][SchedulerNext]_schedulerVars

FairSchedulerSpec == SchedulerSpec /\ SchedulerFairness

-----------------------------------------------------------------------------
(* Properties.                                                             *)

SchedulerTypeOK ==
    /\ status \in [Threads -> Statuses]
    /\ readyList \in Seq(Threads)
    /\ currentThread \in Threads
    /\ toBeDestroyed \in Threads \cup {NoThread}
    /\ yieldOnReturn \in BOOLEAN
    /\ phase \in Phases
    /\ cont \in [Threads -> Conts]

\* kernel->currentThread is a thread that exists, and the one marked RUNNING
\* except while it sits in the idle loop of Thread::Sleep
\* (ASSERT(this == currentThread) in Yield, Sleep, Finish and Begin).
OneRunning ==
    /\ status[currentThread] # "NONE"
    /\ \A t \in Threads :
         status[t] = "RUNNING" <=> (t = currentThread /\ phase # "idle")

\* The ready list holds exactly the READY threads, each once: the assertion
\* !IsInList of List::Append holds in every ReadyToRun, and no ready thread
\* is lost.
ReadyListExact ==
    /\ \A t \in Threads : status[t] = "READY" <=> InList(t, readyList)
    /\ Distinct(readyList)

\* A finished thread waits for deletion only until the next thread has left
\* SWITCH, so toBeDestroyed is NULL whenever Run is called
\* (ASSERT(toBeDestroyed == NULL)); and its stack is never the running one
\* (ASSERT(this != kernel->currentThread) in ~Thread).
CarcassReclaimed ==
    /\ toBeDestroyed # NoThread =>
         /\ phase = "switched"
         /\ toBeDestroyed # currentThread
         /\ status[toBeDestroyed] = "BLOCKED"
         /\ cont[toBeDestroyed] = "finish"
    /\ \A t \in Threads :
         cont[t] = "finish" =>
            \/ t = toBeDestroyed
            \/ t = currentThread /\ phase = "idle"

\* A thread that is switched out continues where it stopped: a READY thread
\* at its start, in Yield or in Sleep, a BLOCKED one in Sleep or Finish, and
\* the thread SWITCH has just loaded never in Finish.
ContMatchesStatus ==
    \A t \in Threads :
        /\ status[t] = "NONE"    => cont[t] = "none"
        /\ status[t] = "READY"   => cont[t] \in {"begin", "yield", "sleep"}
        /\ status[t] = "BLOCKED" => cont[t] \in {"sleep", "finish"}
        /\ status[t] = "RUNNING" =>
              IF phase = "switched" THEN cont[t] \in {"begin", "yield", "sleep"}
                                    ELSE cont[t] = "none"

\* The inductive invariant of the scheduler.
SchedulerInv ==
    /\ SchedulerTypeOK
    /\ OneRunning
    /\ ReadyListExact
    /\ CarcassReclaimed
    /\ ContMatchesStatus

\* Only a thread that has called Finish is ever deleted, and never by itself.
OnlyFinishedDestroyed ==
    [][\A t \in Threads :
          status[t] # "NONE" /\ status'[t] = "NONE"
              => cont[t] = "finish" /\ t # currentThread]_schedulerVars

\* Every ready thread gets the CPU: time slicing through the timer interrupt
\* and the FIFO ready list starve nobody.
ReadyRuns ==
    \A t \in Threads : status[t] = "READY" ~> status[t] = "RUNNING"

\* A finished thread is deleted once somebody else can run.
FinishedDeleted ==
    \A t \in Threads :
        (cont[t] = "finish" /\ readyList # <<>>) ~> (status[t] = "NONE")

\* Both, which hold of every client of the scheduler that leaves its fairness
\* alone: no thread is left ready, or finished and not deleted.
ThreadsProgress == ReadyRuns /\ FinishedDeleted

=============================================================================
