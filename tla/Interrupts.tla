----------------------------- MODULE Interrupts -----------------------------
(***************************************************************************)
(* The simulated interrupts (interrupt.cc): the clock, the sorted list of  *)
(* pending interrupts, and the machine's status, which decides how much a  *)
(* tick adds to the clock and whether the timer may ask for a time slice.  *)
(* The handlers are those of the timer (timer.cc, alarm.cc), of devices    *)
(* that poll (network.cc, console.cc while nothing is typed) and of        *)
(* devices that answer a request (disk.cc, console.cc, network.cc).        *)
(* Scheduler abstracts from all this: there an interrupt may come at any   *)
(* tick.  Here the order of the ready list is left out.                    *)
(*                                                                         *)
(* "phase" says where the CPU is: "run" (a thread's code), "handlers" (the *)
(* loop of CheckIfDue), "sleep" (the loop of Thread::Sleep), "halted".     *)
(***************************************************************************)
EXTENDS Naturals, SequencesExt

CONSTANTS Threads,
          NoStatus,  (* no status and no device                            *)
          Timer,     (* the timer                                          *)
          Pollers,   (* devices that schedule themselves again             *)
          Devices,   (* devices that answer one request with one interrupt *)
          Delays,    (* how long after Schedule an interrupt may come      *)
          SystemTick, UserTick

AllDevices == {Timer} \cup Pollers \cup Devices

ASSUME InterruptsAssumption ==
    /\ Timer \notin Pollers \cup Devices
    /\ Pollers \cap Devices = {}
    /\ IsFiniteSet(Pollers)
    /\ Delays \in [AllDevices -> (SUBSET (Nat \ {0})) \ {{}}]
    /\ SystemTick \in Nat \ {0} /\ UserTick \in Nat \ {0}
    /\ NoStatus \notin {"SystemMode", "UserMode", "IdleMode"}
    /\ NoStatus \notin AllDevices

VARIABLES totalTicks,     (* stats->totalTicks, the clock                  *)
          pending,        (* Interrupt::pending                            *)
          status,         (* Interrupt::status                             *)
          yieldOnReturn,  (* Interrupt::yieldOnReturn                      *)
          phase,
          currentThread,
          ready,          (* the threads in the ready list                 *)
          waitsFor,       (* the device a thread sleeps for                *)
          oldStatus,      (* OneTick's oldStatus on the thread's stack     *)
          mode            (* what the thread executes: kernel code that    *)
                          (* has no user program, a user program, or the   *)
                          (* ExceptionHandler for one                      *)

queueVars == <<totalTicks, pending>>
machineVars == <<status, yieldOnReturn, phase>>
threadVars == <<currentThread, ready, waitsFor, oldStatus, mode>>
vars == <<queueVars, machineVars, threadVars>>

Interrupt == [dev : AllDevices, when : Nat]

Sorted(list) ==
    \A i, j \in DOMAIN list : i <= j => list[i].when <= list[j].when

Once(d, list) ==
    \E i \in DOMAIN list : \A j \in DOMAIN list : list[j].dev = d <=> i = j

\* Wrong variant of Insert, refused by ImplementsAgenda.
InsertBeforeEqual(item, list) ==
    LET later == {i \in DOMAIN list : item.when <= list[i].when}
    IN  InsertAt(list, Min(later \cup {Len(list) + 1}), item)

\* SortedList::Insert with PendingCompare: behind those of the same time.
Insert(item, list) ==
    LET later == {i \in DOMAIN list : item.when < list[i].when}
    IN  InsertAt(list, Min(later \cup {Len(list) + 1}), item)

\* Interrupt::Schedule, on the list as the caller leaves it.
Schedule(d, list) ==
    \E delay \in Delays[d] :
        pending' = Insert([dev |-> d, when |-> totalTicks + delay], list)

\* Kernel::Initialize has scheduled the timer and the pollers.
Init ==
    /\ totalTicks = 0
    /\ pending \in
         {list \in [1 .. Cardinality(Pollers) + 1 ->
                      [dev : {Timer} \cup Pollers, when : UNION {Delays[d] : d \in AllDevices}]] :
            /\ Sorted(list)
            /\ \A d \in {Timer} \cup Pollers : Once(d, list)
            /\ \A i \in DOMAIN list : list[i].when \in Delays[list[i].dev]}
    /\ status = "SystemMode"
    /\ yieldOnReturn = FALSE
    /\ phase = "run"
    /\ currentThread \in Threads
    /\ ready = Threads \ {currentThread}
    /\ waitsFor = [t \in Threads |-> NoStatus]
    /\ oldStatus = [t \in Threads |-> NoStatus]
    /\ mode = [t \in Threads |-> "kernel"]

-----------------------------------------------------------------------------
\* Interrupt::OneTick up to CheckIfDue(FALSE); "st" is the status.
Tick(st) ==
    /\ totalTicks' = totalTicks + (IF st = "SystemMode" THEN SystemTick ELSE UserTick)
    /\ phase' = "handlers"

\* SWITCH to n.  Where it goes on interrupts are off, and the next thing it
\* does is to enable them: at the end of Yield, in Begin, or in the P that
\* has called Sleep.
SwitchTo(n, st) == currentThread' = n /\ Tick(st)

\* Thread::Yield; without another ready thread only its SetLevel is left,
\* which ticks.
YieldBody(st) ==
    IF ready = {}
    THEN Tick(st) /\ UNCHANGED <<currentThread, ready>>
    ELSE \E n \in ready :
           /\ SwitchTo(n, st)
           /\ ready' = (ready \ {n}) \cup {currentThread}

InKernel == phase = "run" /\ mode[currentThread] # "user"
InUser   == phase = "run" /\ mode[currentThread] = "user"

Enters(m) == mode' = [mode EXCEPT ![currentThread] = m]

\* Machine::Run starts a user program, in a thread that never returns.
Run ==
    /\ phase = "run" /\ mode[currentThread] = "kernel"
    /\ Enters("user")
    /\ status' = "UserMode"
    /\ UNCHANGED <<queueVars, yieldOnReturn, phase, currentThread, ready,
                   waitsFor, oldStatus>>

\* Machine::OneInstruction without an exception, and the tick behind it.
Instruction ==
    /\ InUser
    /\ Tick(status)
    /\ UNCHANGED <<pending, status, yieldOnReturn, threadVars>>

\* Machine::RaiseException, up to the ExceptionHandler ...
RaiseException ==
    /\ InUser
    /\ Enters("exception")
    /\ status' = "SystemMode"
    /\ UNCHANGED <<queueVars, yieldOnReturn, phase, currentThread, ready,
                   waitsFor, oldStatus>>

\* ... and after it, with the tick of the instruction that has trapped.
ReturnToUser ==
    /\ phase = "run" /\ mode[currentThread] = "exception"
    /\ Enters("user")
    /\ status' = "UserMode"
    /\ Tick("UserMode")
    /\ UNCHANGED <<pending, yieldOnReturn, currentThread, ready,
                   waitsFor, oldStatus>>

\* Kernel code enables interrupts: SetLevel(IntOn).
Enable ==
    /\ InKernel
    /\ Tick(status)
    /\ UNCHANGED <<pending, status, yieldOnReturn, threadVars>>

\* Kernel code calls Thread::Yield.
Yield ==
    /\ InKernel
    /\ YieldBody(status)
    /\ UNCHANGED <<pending, status, yieldOnReturn, waitsFor, oldStatus, mode>>

\* Kernel code makes a request of a device that is idle, and sleeps until the
\* device's interrupt wakes it.
Request(d) ==
    /\ InKernel
    /\ \A t \in Threads : waitsFor[t] # d
    /\ Schedule(d, pending)
    /\ waitsFor' = [waitsFor EXCEPT ![currentThread] = d]
    /\ phase' = "sleep"
    /\ UNCHANGED <<totalTicks, status, yieldOnReturn, currentThread, ready,
                   oldStatus, mode>>

\* Kernel code sleeps until a poller has something for it.
Await(d) ==
    /\ InKernel
    /\ \A t \in Threads : waitsFor[t] # d
    /\ waitsFor' = [waitsFor EXCEPT ![currentThread] = d]
    /\ phase' = "sleep"
    /\ UNCHANGED <<queueVars, status, yieldOnReturn, currentThread, ready,
                   oldStatus, mode>>

-----------------------------------------------------------------------------
\* The loop of Thread::Sleep: run a ready thread, which may be the sleeping
\* one, or call Interrupt::Idle.
Dispatch ==
    /\ phase = "sleep"
    /\ \E n \in ready :
         /\ SwitchTo(n, status)
         /\ ready' = ready \ {n}
    /\ UNCHANGED <<pending, status, yieldOnReturn, waitsFor, oldStatus, mode>>

\* Interrupt::Idle and CheckIfDue(TRUE): the clock is advanced to the next
\* pending interrupt; without one the machine halts.
Idle ==
    /\ phase = "sleep"
    /\ ready = {}
    /\ status' = "IdleMode"
    /\ IF pending = <<>>
       THEN phase' = "halted" /\ UNCHANGED totalTicks
       ELSE /\ phase' = "handlers"
            /\ totalTicks' = Max({totalTicks, Head(pending).when})
    /\ UNCHANGED <<pending, yieldOnReturn, threadVars>>

Due == pending # <<>> /\ Head(pending).when <= totalTicks

\* The handlers that the loop of CheckIfDue calls.
TimerHandler ==
    /\ Head(pending).dev = Timer
    /\ yieldOnReturn' = (yieldOnReturn \/ status # "IdleMode")
    /\ Schedule(Timer, Tail(pending))
    /\ UNCHANGED <<ready, waitsFor>>

\* The thread that sleeps for device d is put on the ready list.
Wake(d) ==
    LET woken == {t \in Threads : waitsFor[t] = d}
    IN  /\ ready' = ready \cup woken
        /\ waitsFor' = [t \in Threads |->
                          IF t \in woken THEN NoStatus ELSE waitsFor[t]]

PollHandler ==
    /\ Head(pending).dev \in Pollers
    /\ Schedule(Head(pending).dev, Tail(pending))
    /\ Wake(Head(pending).dev) \/ UNCHANGED <<ready, waitsFor>>
    /\ UNCHANGED yieldOnReturn

DeviceHandler ==
    /\ Head(pending).dev \in Devices
    /\ pending' = Tail(pending)
    /\ Wake(Head(pending).dev)
    /\ UNCHANGED yieldOnReturn

CallBack ==
    /\ phase = "handlers"
    /\ Due
    /\ TimerHandler \/ PollHandler \/ DeviceHandler
    /\ UNCHANGED <<totalTicks, status, phase, currentThread, oldStatus, mode>>

\* OneTick's oldStatus.  The tick at the end of the Yield that the timer has
\* asked for is nested: only the outermost oldStatus can be UserMode.
Outermost == IF oldStatus[currentThread] = NoStatus
             THEN status ELSE oldStatus[currentThread]

\* Wrong variant of LeaveOneTick, refused by InterruptsInv.
LeaveOneTickInSystemMode ==
    IF yieldOnReturn
    THEN /\ yieldOnReturn' = FALSE
         /\ status' = "SystemMode"
         /\ YieldBody("SystemMode")
         /\ UNCHANGED oldStatus
    ELSE /\ phase' = "run"
         /\ UNCHANGED <<totalTicks, status, yieldOnReturn, currentThread, ready,
                        oldStatus>>

\* The end of OneTick, with the Yield that the timer may have asked for.
LeaveOneTick ==
    IF yieldOnReturn
    THEN /\ yieldOnReturn' = FALSE
         /\ status' = "SystemMode"
         /\ oldStatus' = [oldStatus EXCEPT ![currentThread] = Outermost]
         /\ YieldBody("SystemMode")
    ELSE /\ status' = Outermost
         /\ oldStatus' = [oldStatus EXCEPT ![currentThread] = NoStatus]
         /\ phase' = "run"
         /\ UNCHANGED <<totalTicks, yieldOnReturn, currentThread, ready>>

\* The end of Idle.
LeaveIdle ==
    /\ status' = "SystemMode"
    /\ phase' = "sleep"
    /\ UNCHANGED <<totalTicks, yieldOnReturn, currentThread, ready, oldStatus>>

\* Wrong variant of Leave, refused by InterruptsInv.
LeaveAfterOne ==
    /\ phase = "handlers"
    /\ IF status = "IdleMode" THEN LeaveIdle ELSE LeaveOneTick
    /\ UNCHANGED <<pending, waitsFor, mode>>

\* CheckIfDue returns when no interrupt is due any more.
Leave ==
    /\ phase = "handlers"
    /\ ~Due
    /\ IF status = "IdleMode" THEN LeaveIdle ELSE LeaveOneTick
    /\ UNCHANGED <<pending, waitsFor, mode>>

-----------------------------------------------------------------------------
Next ==
    \/ Run \/ Instruction \/ RaiseException \/ ReturnToUser
    \/ Enable \/ Yield
    \/ \E d \in Devices : Request(d)
    \/ \E d \in Pollers : Await(d)
    \/ Dispatch \/ Idle
    \/ CallBack \/ Leave

Spec == Init /\ [][Next]_vars

-----------------------------------------------------------------------------
(* Properties.                                                             *)

TypeOK ==
    /\ totalTicks \in Nat
    /\ pending \in Seq(Interrupt)
    /\ status \in {"SystemMode", "UserMode", "IdleMode"}
    /\ yieldOnReturn \in BOOLEAN
    /\ phase \in {"run", "handlers", "sleep", "halted"}
    /\ currentThread \in Threads
    /\ ready \subseteq Threads
    /\ waitsFor \in [Threads -> Devices \cup Pollers \cup {NoStatus}]
    /\ oldStatus \in [Threads -> {"SystemMode", "UserMode", NoStatus}]
    /\ mode \in [Threads -> {"kernel", "user", "exception"}]

\* A tick leaves no interrupt behind that was due, however many were, so that
\* Schedule is always called for a time to come and Idle never turns the
\* clock back.
NoneOverdue ==
    phase # "handlers" =>
        \A i \in DOMAIN pending : pending[i].when > totalTicks

\* "If the console or the network is operating, there are *always* pending
\* interrupts": the timer and every poller have exactly one, so that the
\* machine never halts by itself, and a device has one exactly while a
\* thread sleeps for it, so that none is lost and none comes twice.
PendingExact ==
    /\ \A d \in {Timer} \cup Pollers : Once(d, pending)
    /\ \A d \in Devices :
         IF \E t \in Threads : waitsFor[t] = d
         THEN Once(d, pending)
         ELSE \A i \in DOMAIN pending : pending[i].dev # d
    /\ \A t, u \in Threads :
         waitsFor[t] = waitsFor[u] /\ waitsFor[t] # NoStatus => t = u
    /\ phase # "halted"

\* The current thread is in the loop of Thread::Sleep.
Sleeping == phase = "sleep" \/ status = "IdleMode"

\* A thread is running, ready, or asleep; in Sleep's loop the current one is
\* one of the last two.
ThreadsExact ==
    \A t \in Threads :
        /\ t \in ready => waitsFor[t] = NoStatus
        /\ t \notin ready /\ waitsFor[t] = NoStatus => t = currentThread
        /\ t = currentThread =>
             (t \notin ready /\ waitsFor[t] = NoStatus <=> ~Sleeping)

Natural(t) == IF mode[t] = "user" THEN "UserMode" ELSE "SystemMode"

\* The machine's status is that of the code that runs: a tick costs what it
\* should, and the timer asks for a time slice whenever a thread runs.  It
\* survives preemption: each thread finds its own status again, whatever
\* other threads and the idle loop have made of it.
StatusExact ==
    /\ CASE phase = "run" -> status = Natural(currentThread)
         [] phase = "handlers" /\ status # "IdleMode" ->
              Outermost = Natural(currentThread)
         [] OTHER -> mode[currentThread] # "user"
    /\ phase = "sleep" => status = "SystemMode"
    /\ status = "IdleMode" => phase = "handlers" /\ ~yieldOnReturn
    /\ yieldOnReturn => phase = "handlers"
    /\ \A t \in Threads :
         /\ oldStatus[t] # NoStatus => oldStatus[t] = Natural(t)
         /\ t # currentThread /\ mode[t] = "user" => oldStatus[t] = "UserMode"
    /\ phase \in {"run", "sleep"} => oldStatus[currentThread] = NoStatus
    /\ oldStatus[currentThread] # NoStatus => status = "SystemMode"

InterruptsInv ==
    /\ TypeOK
    /\ Sorted(pending)
    /\ NoneOverdue
    /\ PendingExact
    /\ ThreadsExact
    /\ StatusExact

\* The calls of time w, whose interrupts stand together in a sorted list.
AtTime(w, list) == {i \in DOMAIN list : list[i].when = w}

CallsAt(w, list) ==
    LET first == Min(AtTime(w, list))
    IN  [k \in 1 .. Max(AtTime(w, list)) - first + 1 |-> list[first + k - 1].dev]

TimesOf(list) == {list[i].when : i \in DOMAIN list}

AgendaOf(list) == [w \in TimesOf(list) |-> CallsAt(w, list)]

\* Interrupts are called in the order of their times, those of one time in
\* the order in which they were scheduled, none early, none late by more
\* than the tick in which it was due.
Promise == INSTANCE AbstractAgenda WITH
              now <- totalTicks, agenda <- AgendaOf(pending)

ImplementsAgenda == Promise!AgendaSpec

=============================================================================
