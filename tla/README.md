# Nachos 4.0: a TLA+ model of the kernel

This directory holds TLA+ modules that model the Nachos 4.0 kernel under
`src/Source/NachOS-4.0/code/`, TLC configurations that check them on small
instances, and TLAPS proofs about them for every value of their constants.
Paths below are relative to that `code/` directory. `PROJECT.json` says, for
every definition, which lines of the source it models (`map`), and lists the
components, the runs, the hazards, the theorems and the known disagreements.

Contents: 1. the system, 2. how it is modelled, 3. the modules, 4. the runs,
5. fairness, 6. the proofs, 7. findings, 8. what is not modelled, 9. the plan.

## 1. The system

Nachos is a teaching operating system that runs as one Unix process. The kernel
(`threads/`, `userprog/`, `filesys/`, `network/`) is C++; the hardware
(`machine/`) is simulated in the same process. There is **one CPU**, and no
preemption inside C++ code: the simulation looks at pending interrupts only in
`Interrupt::OneTick`, which runs when interrupts go from off to on and after
each user instruction, and in `Interrupt::Idle`. Everything between two such
points is atomic. Nearly all kernel code enables interrupts somewhere (every `P`
and `V` ends with it), and there a timer interrupt may make the thread yield:
that is where the hard behaviour comes from.

| component | state | operations | what makes it correct |
|---|---|---|---|
| threads and scheduler (`threads/thread.cc`, `scheduler.cc`, `alarm.cc`) | status of each thread, ready list, current thread, thread to be destroyed | Fork, Yield, Sleep, Finish, Begin, Run, ReadyToRun, FindNextToRun, CheckToBeDestroyed | one running thread; the ready list is exactly the ready threads; only finished threads are deleted, all of them, never the running one; nobody starves |
| interrupts, timer, simulated time (`machine/interrupt.cc`, `timer.cc`) | level, sorted list of pending interrupts, yieldOnReturn, clock | SetLevel, OneTick, Idle, Schedule, CheckIfDue, YieldOnReturn | handlers run in the order of their times, with interrupts off; the machine idles only if nothing is ready |
| semaphores (`threads/synch.cc`) | value, queue | P, V | no lost wakeup, every increment taken once |
| locks, conditions (`threads/synch.cc`) | lockHolder, semaphore; queue of semaphores | Acquire, Release; Wait, Signal, Broadcast | mutual exclusion, no missed signal although Wait is not atomic |
| synchronized list (`threads/synchlist.cc`) | list, lock, condition | Append, RemoveFront, Apply | an atomic FIFO queue; nobody waits beside an item |
| disk, synchronous disk (`machine/disk.cc`, `filesys/synchdisk.cc`) | the file, active; lock, semaphore | ReadRequest, WriteRequest, interrupt; ReadSector, WriteSector | one request at a time, atomic sectors, return only after the interrupt, contents survive a stop |
| console, synchronous console (`machine/console.cc`, `userprog/synchconsole.cc`) | one-character buffer, putBusy; locks, semaphores | GetChar, PutChar, both interrupts | no key lost, overwritten or reordered; one character shown at a time |
| network, post office (`machine/network.cc`, `network/post.cc`) | one-packet buffer, sockets; mailboxes, sendLock, two semaphores, worker thread | Send, Receive, PostalDelivery, both interrupts | each packet not lost arrives once, in order; Send returns even if its packet is lost |
| file system calls (`threads/kernel.cc`, the stub `filesys/filesys.h`, `openfile.h`) | table of 20 open files, UNIX files | Create, Open, Close, Remove, Read, Write, Seek | an identifier stands for one file until it is closed; open files cannot be removed; results as `syscall.h` says |
| console calls and dispatch (`userprog/exception.cc`, `threads/kernel.cc`) | registers, user memory | Add, Sub, ReadNum, PrintNum, ReadChar, PrintChar, RandomNum, ReadString, PrintString, Halt | a number that is printed is read back; the program counter advanced once per call |
| address space (`userprog/addrspace.cc`) | page table, numPages | Load, Execute, Translate | program and kernel see the same memory; every virtual page has its own frame |
| real file system (`filesys/`) | the sectors of the disk: bitmap, directory, headers, data; open files | Create, Open, Remove, ReadAt, WriteAt | sectors owned once, data read as written, a stop in an operation leaves the other files alone |
| MIPS machine (`machine/machine.cc`, `mipssim.cc`, `translate.cc`) | registers, the load in progress, memory, use and dirty bits | OneInstruction, DelayedLoad, RaiseException, Translate, ReadMem, WriteMem | a program cannot tell it from the processor, whenever interrupts and exceptions come |
| library (`lib/`) | the cells of List and SortedList, the buckets of HashTable, Bitmap | their operations | they implement sequences, sorted sequences and sets; no cell lost, shared or used after its deletion |
| start-up, host interface, debugging, context switch, user programs | | | sequential glue, UNIX calls, assembly, clients |

### How the components interact

* **Downward calls.** A user program executes a system call; `ExceptionHandler`
  dispatches to `Kernel`, which uses the file table or the synchronous console.
  `SynchDisk`, `SynchConsoleInput/Output` and the post office use a `Lock` and a
  `Semaphore` each, mailboxes are `SynchList`s, `SynchList` is a `Lock` and a
  `Condition`, these are `Semaphore`s, and a `Semaphore` calls `Thread::Sleep`
  and `Scheduler::ReadyToRun` with interrupts off.
* **Callbacks.** Devices schedule an interrupt; `CheckIfDue` calls the handler
  with interrupts off in the middle of whatever thread is at a tick, and the
  handler calls `Semaphore::V` or, the timer's, `YieldOnReturn`.
* **Shared state.** The ready list and thread statuses (interrupts off); the
  condition's list (protected by the lock only); the device registers
  (protected by the driver's lock and by "at most one interrupt pending").
* **Between machines.** Packets through UNIX sockets, which may be lost.

### What is hard

* The woken thread of `P` and of `RemoveFront` has no precedence: any running
  thread may take what it was woken for.
* `Lock::Acquire` sets `lockHolder` after the tick of its `P`, and
  `Condition::Wait` releases the lock before it sleeps.
* A finishing thread runs on its own stack: only the next thread can delete it,
  and `Sleep` may idle for long inside a finished one.
* Each device has buffers of size one and assertions that the caller is never
  early; only the driver's lock and the pairing of V and P ensure it.
* The machine may be stopped between a disk transfer and its interrupt.
* Packets are lost, the keyboard's input ends, the table of files fills up.
* Loads and branches take effect an instruction later, and an interrupt or an
  exception may come in between.
* The directory of the real file system spans two sectors; Create and Remove
  write several sectors, and the machine may stop between any two.

The list of hazards with their lines and properties is in `PROJECT.json`.

## 2. How it is modelled

**Layers.** Each layer of synchronization has a detailed module that models the
code and an abstract one that says what its header file promises. A module uses
the *abstract* module of the layer below, and the detailed one is shown to
implement it, so that no run has to carry the scheduler along:

    Scheduler                      threads, ready list, ticks
       ^  EXTENDS
    Semaphores  --implements-->  AbstractSemaphores
                                       ^  used by
    Monitor     --implements-->  AbstractMonitor (EXTENDS AbstractLock)
                                       ^  used by
    SynchList   --implements-->  AbstractQueue

    SynchDisk     over AbstractLock, AbstractSemaphores   --implements-->  AbstractDisk
    SynchConsole  over AbstractLock, AbstractSemaphores   --implements-->  AbstractConsole
    PostOffice    locks, semaphores and mailboxes inlined --implements-->  AbstractPost

    Interrupts    clock, pending interrupts, status       --implements-->  AbstractAgenda
    Machine       processor, memory, loader (EXTENDS Words) --implements-->  AbstractMips
    FileSystem    sectors of the disk                     --implements-->  AbstractFiles
    LinkedLists   cells and pointers
       ^  EXTENDS
    Library       lists and hash tables                   --implements-->  AbstractLibrary
    FileTable     file system calls, each atomic (no tick in a handler)
       ^  EXTENDS
    SystemCalls   the other calls and the dispatcher
    Lists         the List<T> of the threads' modules as a sequence

Both directions are checked where one module uses another: `ImplementsSemaphore`
says that P and V keep the promise; `UsesSemaphores` that Lock and Condition make
only the calls the promise is about (a fresh semaphore for every Wait);
`UsesScheduler` that P and V use the scheduler as `Scheduler` describes it.

**Atomicity.** One action is the code from one tick (or switch) to the next. In
`Scheduler` the tick itself is a phase: handlers may run in it, in any number and
order, and `EndTick` returns to the thread or yields for it. In the upper
modules a tick is where other threads' actions may come in between.

**Time** is abstracted, except in `Interrupts`: an interrupt that is pending may
come at any tick. The clock, latencies and the order of pending interrupts of
different devices are left out, so that every order they could produce is
covered, and others too. **Names of threads** stand for objects; a name is used again after
its thread has been deleted, so that forks and finishes go on for ever.
**Data** (items, keys, letters, sector contents, bytes) are model values or
members of a small set where the code does not look into them. Where it does, they
are what the code sees: the words of `Machine` are numbers modulo a power of two,
characters of the console calls are their codes, a directory is cut into the bytes
of its two sectors only at the entry that straddles them. **Widths** are constants
(`ByteBits`, `MaxInt`, `SectorSize`, `NumDirEntries`): a small instance has the same
kinds of boundary as the full width.

**Wrong variants.** Definitions marked "Wrong variant of ..., refused by ..."
are plausible bugs in the definition that follows. They occur in no
specification: `PROJECT.json` ("mutants") pairs each with the property that TLC
finds violated if the variant takes the definition's place. They show that the
properties are about the code and do not hold for any code of this shape.

## 3. The modules and the code

* **Scheduler**: `status`, `readyList`, `currentThread`, `toBeDestroyed`,
  `yieldOnReturn` are the fields of that name; `phase` says where the CPU is and
  `cont` where a switched-out thread will go on. `Fork`, `Yield`, `Sleep`,
  `Finish`, `Begin` are the methods of `Thread`; `Run`, `ReadyToRun`,
  `CheckToBeDestroyed` of `Scheduler`; `ReturnFromRun` is the code behind
  `SWITCH`; `TimerHandler` is `Alarm::CallBack`; `EndTick` the end of `OneTick`;
  `IdleReturn` the loop of `Sleep` after `Idle`, which runs inside the old
  thread, that thread being possibly the next one to run.
* **Semaphores**: adds `value`, `queue` and `waitsOn` (which P a thread is in).
  `P` and `PAfterSleep` are the loop of `Semaphore::P` from the call and from the
  return of `Sleep`; `V` and `VByHandler` are `Semaphore::V` in a thread and in an
  interrupt handler, where re-enabling interrupts does not tick.
* **AbstractSemaphores**: value and the set of threads in P; any of them may take
  an increment, and none keeps it waiting for ever (weak fairness).
* **Monitor**: `lockHolder`, `waitQueue`, the semaphores (the lock's and one per
  thread for `Wait`), and `pc`. `Acquire`/`AcquireReturnsFromP`/`SetLockHolder`,
  `Release`, `Wait`/`WaitP`/`WaitReturnsFromP`/`Reacquire`, `Signal`,
  `Broadcast`/`BroadcastStep` are the methods cut at their ticks.
* **AbstractLock, AbstractMonitor**: the holder, those who ask, the waiters.
  `Wait` is atomic; `Signal` moves the oldest waiter to those who ask.
* **SynchList / AbstractQueue**: `list`, the operation and argument of each
  thread; the abstract one has the contents and the threads in `RemoveFront`.
* **SynchDisk / AbstractDisk**: `Request` is `ReadRequest`/`WriteRequest` with the
  `P` that follows it without a tick; `Interrupt` is both callbacks; `Restart` is
  the end of the process at any moment and its next start on the same file.
* **SynchConsole / AbstractConsole**: keyboard and display with their drivers;
  `Type` and `EndInput` are the user; `polling` and `putBusy` stand for the
  scheduled interrupts. It assumes that no key has the code of `EOF`.
* **PostOffice / AbstractPost**: several machines, each with a socket (`wire`), a
  buffer (`inbox`), a worker, mailboxes and a `sendLock`. A packet is lost when
  it is sent, which covers loss at random and a receiver that cannot be reached.
* **FileTable**: `ListFile` (entries with the name, file and offset), the UNIX
  directory and files, and what a call gives the program: register 2, bytes,
  characters shown. `crashed` is reached where the handler follows a null
  or unset pointer.
* **SystemCalls** (EXTENDS FileTable): the other system calls of
  `ExceptionHandler`. What is typed comes with the call; `Converted` is the loop
  of `EH_ReadNum` with `ValueOf` its sum, `Shown` the text of `PrintNum`, `Wrapped` the addition of two
  ints; buffers have their sizes and their leftovers.
* **Words**: the arithmetic of `mipssim.cc` on words of a given width. **Machine**:
  `registers` with the special registers that hold the load in progress (`LoadReg`,
  `LoadValueReg`), `mainMemory`, `pageTable` with its use and dirty bits. `OneInstruction` is
  one fetch and one case of the switch; the cases are grouped by what they
  change (`Loads`, `LoadsPart`, `Stores`, `StoresPart`, `Branches`, `Jumps`,
  `Divide`, `Mult`, `Moves`, `Shifts`, ...). `InterruptDue`, `RaiseException`, `SysHalt`,
  `UnknownCall`, `ReturnFromCall` (`IncreasePC`) and `CopyByte`
  (`User2System`, `System2User`) are what the kernel does with the machine; `Load` and `Execute`
  are those of `AddrSpace`. **AbstractMips** is the processor as its manual has it:
  a load is there for the next instruction but one, and no instruction is half done.
  Both have `instr`, the instruction decoded last, as an observed variable, so that a step of the
  simulator has to be a step of that instruction and not of any other.
  `fuel` bounds the number of instructions and is no part of the code.
* **LinkedLists**: `List<T>` and `SortedList<T>` on their cells; a pointer is a cell
  or `NULL`, `store` the cells that are allocated, so that a use of a deleted
  cell is an error of TLC. **Library / AbstractLibrary**: `HashTable` on an array of
  such lists with `ReHash`, and both iterators.
* **FileSystem / AbstractFiles**: `image` is the contents of the sectors; an
  operation computes what it has to write (`pending`), and `WriteSector` writes the
  next sector, so that every state is one which a machine that stops may leave.
  `handle` is a client's `OpenFile`, made as `Open` makes it (`NewOpenFile`); `Open` itself
  returns NULL, as the code does. `removed` says that its file was removed since, `misused`
  that a client did what the code neither refuses nor survives: it made a file that is too long for
  its header, wrote to a file that was removed, or set a negative position. From then on nothing is
  modelled. `AbstractFiles` gives up its promise in the same three cases (`AMisuse`) and in no other.
* **Interrupts / AbstractAgenda**: `totalTicks`, `pending`, `status`,
  `yieldOnReturn` are the fields of that name; `oldStatus` is the local variable of
  `OneTick` on each thread's stack; `phase` tells the loop of `CheckIfDue` and that
  of `Sleep` from a thread's code. A tick is `Tick` (the clock), any number of
  `CallBack` (one handler each) and `Leave` (the end of `OneTick` with the Yield
  the timer asked for, or the end of `Idle`). Threads enable interrupts, yield,
  ask a device for something and sleep, sleep until a poller has something for
  them, or run user programs with exceptions.
  The abstract module has, for each time to come, the devices to call, in the order in
  which they were scheduled: those that stand together in the sorted list (`CallsAt`).
* **Lists**: `InList` and `Distinct`, the assertion of `List::Append` and what
  it keeps.

## 4. The runs

| run (module, configuration) | instance | distinct states | what it shows |
|---|---|---|---|
| semaphores (MCSemaphores) | 3 thread names, a mutex and a device semaphore, values up to 2 | 9 420 | statuses, ready list, carcass and queues are exact, and enough woken threads are on their way for the value there is (`SemInv`); only finished threads are deleted, not by themselves (`OnlyFinishedDestroyed`); every ready thread gets the CPU and every finished one is deleted (`ThreadsProgress`); P and V are steps of the scheduler (`UsesScheduler`) and implement the abstract semaphores, their progress included (`ImplementsSemaphore`) |
| monitor (MCMonitor) | 4 threads | 9 229 | one owner, an exact holder and no missed signal (`MonitorInv`), the list changed by the holder only (`QueueChangedByHolder`), semaphores used as promised (`UsesSemaphores`), and the abstract monitor with its progress implemented (`ImplementsMonitor`) |
| synchlist (MCSynchList) | 3 threads, 2 items | 36 126 | no item left beside sleepers with nobody coming (`SynchListInv`); a FIFO queue with atomic operations (`ImplementsQueue`); with the other operations over, no wait beside an item (`ItemsDelivered`) |
| synch_disk (MCSynchDisk) | 3 threads, 2 sectors, 2 contents, restarts | 15 871 | the disk's ASSERTs (`SynchDiskInv`), no return before the interrupt (`ReturnsAfterInterrupt`), atomic and durable sectors (`ImplementsDisk`), no operation stuck (`DiskKeepsServing`) |
| synch_console (MCSynchConsole) | 3 threads, 2 keys, 1 typed ahead, end of input | 111 504 | the devices' ASSERTs (`SynchConsoleInv`), each key once and in order (`ImplementsConsole`), readers and writers served (`ConsoleServes`) |
| post_office (MCPostOffice) | 2 machines, 3 threads, 2 mailboxes, 2 messages at a time, any loss | 46 710 | one send at a time and no packet overwritten in the buffer (`PostOfficeInv`), delivery at most once and in order (`ImplementsPost`), sends return and arrived packets get to their mailboxes (`PostServes`) |
| interrupts (MCInterrupts) | 3 threads, timer, 1 poller, 2 devices | 36 579 | no interrupt overdue after a tick, lost or twice, no halt while a device can answer, each thread finds its own machine status after preemption (`InterruptsInv`); handlers in the order of their times, ties in the order of scheduling (`ImplementsAgenda`) |
| machine (MCMachine) | words of 8 bits, 12 bytes of memory in 3 pages, 5 registers, every case of `OneInstruction` on 13 x 13 boundary values, and runs of 3 instructions | 72 694 | a load is never in progress in the kernel (`MachineInv`); both Translate functions draw the same line (`OneMemoryForBoth`); use and dirty bits tell the truth (`ChangesAreNoted`); every step is that of the decoded instruction on the processor, where SRL and SRLV of a negative word may also give what the simulator gives (`ImplementsMips`, section 7) |
| library (MCLibrary) | 4 items in pairs of equal order, a table of 1 bucket that grows to 4 | 4 009 | every SanityCheck, no cell lost or shared, complete iterations (`LibraryInv`); sequences, sorted sequences and sets implemented (`ImplementsLibrary`) |
| filesystem (MCFileSystem) | 11 sectors of 2 bytes, headers of 2 sectors, 4 entries of which the last straddles the two sectors of the directory, 3 names beside the initial files, of which two are compared as one | 41 420 | no sector lost or owned twice (`FileSystemInv`); a stop between any two writes leaves the other files as they were (`OthersUntouched`); files are byte sequences, open ones may be removed, and the promise ends only with a misuse (`ImplementsFiles`) |
| system_calls (MCSystemCalls) | 3 names, a table of 4, files and transfers of 1 byte; integers of 6 bits with buffers as tight as the program's | 64 896 | one entry per name, no file shared, open files not removed (`FileTableInv`); identifiers stand for one file until closed (`IdsAreStable`); numbers printed are read back (`NumbersReadBack`); calls that fail change nothing (`FailedCallsChangeNothing`) |
| open_missing (MCSystemCalls, MCOpenOfMissingFails) | the same, with the calls on files only | - | a violation, see section 7 |

**Why these bounds are enough.** The code treats all threads alike, and what can
go wrong is between a thread, the one that wakes it and one that barges in: three
suffice, and a fourth in `Monitor` lets two wait while one signals and one barges.
A scheduler with three names has one running, one ready and one finishing. Two
items, keys, letters or sectors tell order and identity. `MaxValue` = 2 lets an
increment be there while another is made; `MaxTyped` = 1 with the one-character
buffer makes the keyboard full; `MaxMail` = 2 puts one packet on the wire while
the other is in the buffer or in the worker's hands. The table has two entries
for user files and three names (one of them "stdin", which a program may also
open by name), so that it fills up; every identifier from -1 to one past what is
tested is passed. In `MCInterrupts` a kernel tick is two user ticks and the
delays are from 1 to 5, so that interrupts of all four devices come in any order,
several in one tick, at the same time, and again while their tick is still being
handled (a kernel tick after a timer delay of 1); in the code a kernel tick is 10
and delays are 1 or more. Symmetry is not used: most runs check liveness.

A byte of 2 bits keeps four bytes to the word, so that parts of words, their sign
extension and every alignment occur; the values are the ends of the range, its
middle and their neighbours, and every page of the space, its last byte and the one
behind it can be addressed. Three instructions in a row are a load, one in its
slot and one that sees the result, or a branch, its slot and the target. The hash table's
three sizes let an insertion rehash twice, into more buckets than there are
items. In `MCFileSystem` four sectors are free at the start: a file of two
sectors leaves one, two files of one sector leave none, requests begin and end
inside sectors and at their ends, and Create is refused for a name that exists, for want of a
sector or an entry, and because the data do not fit. A file of three sectors is one too long for its
header. The entry that straddles is the last of four, so that it is torn also when another entry
of the same name lies before it.

`CHECK_DEADLOCK FALSE` is in the configurations in which all clients may be
waiting legitimately (for a signal, an item, a key, a message), in that of
the machine, which halts or has used its fuel, in those of the system calls, where a
crash ends the run, and in that of the file system, where a misuse does. In the other runs the check is on but says
little, as the timer of an idle machine goes on (`TimerHandler`, as in the code),
the machine with the disk can always be restarted and a library can always be
called: that somebody always makes progress is what the liveness properties are for.
In `MCInterrupts` the deadlock check is real: the machine that has halted has no
next step.

`MCInterrupts` uses a VIEW in which times are relative to the clock, which makes
the states finitely many without a bound on the clock: every guard compares a
time with the clock, every new time is the clock plus a constant, and each
property is about such differences, or checked on every step TLC generates.

`MCSystemCalls` uses a VIEW that leaves out the results of the last call: no action
reads them, the invariants are about the other variables, and TLC evaluates the
action properties on every step it generates. Hence states that differ
only in what the last call returned are one. The calls on the console change
neither files nor table, so `MCSpec` makes them only while no file is open.

`OpenOfMissingFails` states a comment of the code that the code does not keep, and
is alone in its run.

## 5. Fairness

Nothing is assumed about clients: nobody has to call anything, to release a lock,
to signal, type or send.

* **Scheduler, Semaphores**: weak fairness of each piece of kernel code that
  is under way (`Compute`, `Enable`, `EndTick`, `IdleReturn`, `Begin`,
  `ReturnFromRun`, `PAfterSleep`): straight-line code ends. Strong fairness of
  `TimerHandler` at ticks: the timer schedules its next interrupt in every
  interrupt (`machine/timer.cc`), time advances at every tick, so it is due at
  infinitely many of infinitely many ticks: in `Interrupts`, the conjunct `PendingExact` of
  `InterruptsInv` says that the timer always has a pending interrupt, `NoneOverdue` that none
  is passed over. Without the timer a computing thread would starve the others, and the code
  relies on it. It needs the alarm, which the
  kernel always creates.
* **Monitor**: weak fairness of each thread's next piece of code inside an
  operation, which is what `ThreadsProgress` gives, and of `AcquireReturnsFromP` of
  *some* thread, which is what `AbstractSemaphores` gives. Not of each thread: the
  semaphore lets newcomers pass, and individual threads can starve. The
  abstract monitor's promise is accordingly that a free lock that is asked for is
  taken, not by whom.
* **SynchList, SynchDisk, SynchConsole, PostOffice**: weak fairness of each
  thread's code inside an operation, of "some asker gets the free lock", and of
  pending device interrupts, since simulated time goes on until they are due. The
  receive interrupt's poll is rescheduled for ever.

Because newcomers may pass a woken thread for ever, `ItemsDelivered` is about the
time when the other operations have come to an end, `DiskKeepsServing` and
`ConsoleServes` promise that somebody is served, not each.
`ConsoleServes` has no more to say once keys stop arriving, since after the end of input
the keyboard tells only one reader; the other readers then wait for ever.
`Machine`, `Library`, `FileSystem` and `SystemCalls` are sequential and have no fairness.

## 6. The proofs

`tlapm` proves the following for every set of threads (a finite one where cardinalities
occur) and every value of the other constants. "Implements" is a step-by-step
refinement: initial states map to initial states, every step to a step or a stutter.

| module | theorem | statement |
|---|---|---|
| SemaphoreProofs | `SchedulerCorrect`, `ReadyListCorrect`, `CarcassCorrect`, `DestroyCorrect` | of `Scheduler`: `SchedulerInv` with its type invariant; the ready list is exact; one carcass at most, while switching; only finished threads are deleted |
| | `SemaphoresCorrect`, `QueueCorrect`, `SchedulerUsed`, `SemaphoresImplement` | `SemInv`, no lost wakeup among its parts; queues are exact; P and V are scheduler steps; P and V implement `AbstractSemaphores` (safety) |
| MonitorProofs | `MonitorCorrect`, `LockExcludes`, `QueueHasOneWriter`, `SemaphoresUsed`, `MonitorImplements` | `MonitorInv`, with the ASSERTs on the holder and no missed signal among its parts; mutual exclusion; one writer of the list; semaphores used as promised; `AbstractMonitor` implemented (safety) |
| ListProofs | `SynchListCorrect`, `SynchListImplements` | `SynchListInv`, with no item forgotten beside sleepers; `AbstractQueue` implemented |
| | `LibraryInvariant`, `LibraryCorrect`, `LibraryImplements` | of lists and hash tables: their inductive invariant `LibraryIInv`; `LibraryInv`, every SanityCheck passes, no cell is lost or shared, an iterator meets every item once; `AbstractLibrary` implemented: sequences, sorted sequences and sets |
| DiskProofs | `SynchDiskCorrect`, `ReturnsCorrect`, `SynchDiskImplements` | `SynchDiskInv`; no return before the interrupt; `AbstractDisk` implemented |
| | `FileSystemInvariant`, `FileSystemConsistent`, `FilesUntouched`, `BytesAsWritten`, `FilesImplement` | of the real file system: its inductive invariant `IInv`; `FileSystemInv`, no sector lost or owned twice; a stop within an operation leaves the files it does not change as they were; a write changes the bytes it is asked to and no others; `AbstractFiles` implemented: files are byte sequences until a client misuses them |
| SynchConsoleProofs | `SynchConsoleCorrect`, `SynchConsoleImplements` | `SynchConsoleInv`, the ASSERTs of both devices; `AbstractConsole` implemented: each key once, in order |
| PostOfficeProofs | `PostOfficeCorrect`, `PostOfficeImplements` | `PostOfficeInv`; `AbstractPost` implemented: at most once, in order |
| UserProgramProofs | `SystemCallsCorrect`, `IdsStable`, `FailuresChangeNothing`, `NumbersComeBack` | `FileTableInv` of all system calls; identifiers stand for one file until closed; a call that fails has changed nothing; a number shown is read back |
| | `ProcessorInvariant`, `RegistersAreRight`, `MemoryIsOne`, `BitsTellTheTruth` | of the processor: its inductive invariant `ProcessorInv`; `MachineInv`, in the kernel no load is in progress; both Translate functions draw the same line; every byte that changes has its page's dirty bit set and no bit is ever cleared |
| InterruptProofs | `InterruptsCorrect`, `InterruptsImplement` | `InterruptsInv`; the sorted list implements `AbstractAgenda`: handlers in the order of times, ties in that of scheduling |

**Assumptions.** Only the named ones of the modules: null pointers are no
threads, items, mails or files; main is a thread; initial values are within the bound; `Blank`
is a possible content; device semaphores are semaphores; console and interrupt devices
are different ones; delays and ticks are at least 1 and pollers finitely many. `Semaphores` and
`SynchList` also assume that `Threads` is finite, for `Cardinality`; `FileTable` that names
and UNIX files are finitely many, with room for a file of each name and two more; `SystemCalls` that
the number furthest from 0 fits the buffers for numbers; `FileSystem` that the disk has room for the
special files and the headers of the two initial ones (7 sectors), that sectors are not empty, that a
directory has at least 2 entries, one of which is the one that straddles, that a header has room for at least
2 sectors (those of the directory), that the two initial names differ in
the characters that are compared, that sizes are not negative, and that NULL is no `OpenFile`. `Machine` assumes that
pages are whole words, that words can address the memory, that the stack has room for the gap above it,
that the registers it names exist and the stack pointer is not register 0, that results of system calls are words and that the host's &, |
and ^ map words to words (they are constants; `MCMachine` gives them Bitwise's operators), that decoded
instructions have fields of their widths, and that programs consist of words and bytes. `PowersOfTwo` in
`Words` is what the provers have to be told about `^`: 2^n is positive and
2^(m + n) = 2^m * 2^n, as far as the width of a word. `Library` assumes that `Compare` is an order
(it may find different items equal), that hashes are not negative, that the table starts with a bucket, grows by
a factor of 2 at least and at a ratio of 1 at least, and that cells are finitely many numbers, other than `NULL`, with
room for `MaxItems` of them. The two parts of `DiskProofs`, of `UserProgramProofs` and
of `ListProofs` use neither the definitions nor the assumptions of one another.

**The argument.** Each module's main invariant is inductive and is
checked by TLC under the same name (for SynchConsole and PostOffice the inductive form `CoreInv`
says the same without cardinalities; for Library TLC checks what follows from it). The strengthenings in it are these:

* *Scheduler.* The exact ready list needs `ContMatchesStatus` (a thread put on the
  list must not be on it, so Sleep, Yield and forked threads have to be told
  apart) and `CarcassReclaimed`: `toBeDestroyed` is set only between a switch and
  the first code of the next thread, so that `Run` never finds it set. The hard
  case is `IdleReturn`, where the thread in `Sleep` may be finished, or may itself
  be the next one.
* *Semaphores.* Every step is first shown to be a step of the scheduler, which
  carries `SchedulerInv` over. `NoLostWakeup` is kept by counting: a V adds one
  to the value and one woken thread; a P that finds the value 0 adds a
  sleeper but then there is nothing to be had; a P that takes one lowers the value.
  It needs `QueueExact` (V wakes a thread that does sleep there) and
  `WaitsOnMatches` (a woken thread is counted until it tests again).
* *Monitor.* `LockExact` ties the value of the lock's semaphore to the owners,
  `NoMissedSignal` ties each waiter's semaphore to its place in the list:
  1 exactly if it is in Wait and no longer listed. The latter is what makes
  Wait's early Release harmless, whether the signal comes before or after its `P`.
  For the refinement, a thread owns the lock as soon as its `P` returns, and
  asks for it again as soon as it has its signal.
* *SynchList.* `NoItemForgotten` is a counting argument again: an Append adds an item and, if
  anybody waits, moves one waiter to those who are coming; a coming thread that
  finds an item takes one away from both sides, one that finds none goes back to wait
  when there is nothing to be had. An operation takes effect where it changes the list.
* *SynchDisk.* `OneCompletion`: pending interrupt plus value of the semaphore is
  1 if a thread is in P and 0 otherwise; with `LockCoversRequest` it gives the
  ASSERT. Only the holder makes requests, so without a thread in P the disk is
  quiet. An operation takes effect at its request, and a restart maps to a restart.
* *SynchConsole.* For the writer the same: whoever waits in `PutChar` has either an
  interrupt coming or an increment waiting, never both, and without one the display is
  quiet. For the reader, a key is in exactly one of three places: typed, in the
  buffer with its increment, or handed to the thread that holds the lock.
* *PostOffice.* The sender's part is that of the display. The receiver's is a
  pipeline, worker, buffer and socket, in which each interrupt moves one packet
  one place on and only into an empty one; the abstract queue is their
  concatenation, and a mailbox gets what leaves its end.
* *File system.* The invariant between operations, `GoodDisk`, says which sectors are whose: the map,
  the directory, and a header and data for each entry in use, none shared, and the map has marked exactly
  these. An operation is a list of writes, and the inductive `IInv` says that the disk is a good one on
  which the first of them are done (`Partly`), so that what is left to do leads to the same disk after every step
  (`Settled`). Create writes the map last and Remove writes it first, so a file the operation does not
  change has its sectors marked throughout. Between the two
  writes of the directory one entry is half old and half new (`FirstWritten`, `OneEntryChanges`); that it hides
  nobody needs `StaleBehind`: an entry that is free but has a name that is in use lies behind the
  one in use, since `Add` takes the first free one. A write whose ends lie inside sectors reads these
  back first, whence the bytes around it stay (`BytesAsWritten`). For the refinement an operation takes effect when
  it starts, on the disk it will settle to: its files are those of the entries, `EntriesUsed` and `AsManySectors`
  count entries and sectors through bijections, so that Create succeeds exactly if there is an entry and room
  for the header and the data (`CreatesIfFits`), and `BytesInv` says that the data sectors hold nothing but what
  was written, or junk.
* *System calls.* A step is of one of a few kinds: those that leave files and table alone
  (`FailIsQuiet`, `GivesIsQuiet`), those that move one offset and extend one file (`MovesInv`), and Create,
  Open, Close and Remove, each with its own proof. That a file to be created finds a UNIX file of its own
  (`FreeInodeIsFree`) is by counting names and open entries, of which distinct ones have
  distinct names. `FailuresChangeNothing` is about the order in the handlers: each
  of their early returns comes before their first change.
* *Processor.* `ProcessorInv` says that the page table is the identity on the pages of the space, with use
  and dirty set on no other, that registers are words and register 0 is 0, that a program that is loaded has room for
  its stack, and that the kernel sees no load in progress. What an instruction does is a record of
  what it leaves; `Good` says of such a record that it is well typed, keeps the table but for bits
  that are set, and has changed only bytes whose page is now dirty. There is a lemma for each group of instructions
  (arithmetic, logic, shifts, branches, loads, stores of bytes and of parts of words), joined in
  `EffectGood`; a step then notes a good record. The loop of the multiplication is a recursive
  function, shown to exist first (`LoopOf`) and then to stay within its words at each of its steps.
* *Library.* `OnChain` says that a list is a sequence of different cells: `first` and `last` are its ends, each
  `next` is the cell behind, `numInList` its length. Each operation on pointers is then shown to be an insertion
  into that sequence or a removal from it, at a place that is told (`Adds`, `Removes`), and to touch no
  cell of another (`Edited`). `Linked` says the same of several lists in one store: their chains are disjoint and
  cover it, so no cell is lost or shared. `LibraryIInv` is this with `SortedList`'s order, or with the places of
  keys in the table and `numItems`; it asserts that chains exist, which is why TLC checks `LibraryInv`, what
  follows from it. The loop of `ReHash` has an invariant of its own over old and new
  buckets together (`Rehashing`), which each `Move` keeps; both loops are recursive functions, shown to exist (`LoopExists`) and
  then to keep their invariants (`LoopStays`). The iterator's is `Stays`: what it has met are the items
  of the cells behind it, each once. For the refinement an insertion among the cells is the same insertion
  among the items (`ItemsInserted`, `ItemsRemoved`), and for a sorted list the place of the insertion is told by the
  order: behind the items that are no greater (`BiggerFollow`).
* *Interrupts.* `InsertShape` says what `SortedList::Insert` does to a sorted list: the new
  interrupt goes behind all that are no later and before the others. Its place is the
  least of a set of numbers, which exists since < is well-founded (`Smallest`). With it
  each device keeps one pending interrupt and none is overdue. What
  `OneTick` keeps in `oldStatus` needs `StatusExact`, which tells for every thread that is
  switched out the status it will find. For the refinement the interrupts of one time stand together
  in the list (`Blocks`), an insertion is at the end of its block (`InsertAgenda`), and the
  first of the list is the first of the earliest block (`TailAgenda`).
* *Numbers.* Induction is by the least counterexample, for sets in place of predicates
  (`Induction`). The recursive functions are first shown to exist (`SumsExist`, `TextExists`),
  then reading one more digit is tenfold and one digit more (`ValueAppend`), and so the
  digits of a number have its value (`DigitsCorrect`). A greater number has no fewer
  digits (`DigitsGrow`): it is enough for the buffers to hold the most negative
  number (`BuffersAssumption`), and 12 and 20 bytes hold its 11 characters.

**Only model-checked.** All liveness (`ThreadsProgress`, the progress
parts of `ImplementsSemaphore` and `ImplementsMonitor`, `ItemsDelivered`,
`DiskKeepsServing`, `ConsoleServes`, `PostServes`): temporal reasoning under fairness
and ENABLED are out of the prover's reach.
`ImplementsMips` is model-checked too: that a product computed bit by bit is the product, and that LWL, LWR,
SWL and SWR merge bytes as the reference says, is arithmetic on powers of two beyond the
provers. All the other invariants, action properties and refinements that the runs check are proved.

## 7. Findings

With a run that exhibits it:

* **Open of a missing file kills the kernel** (`open_missing`): `File_Open` writes
  to `ListFile[freeIndex]->fileName` (kernel.cc:542) before the test at
  line 547 whether the file could be opened. `test/cat.c` relies on the test.

Met while modelling, and part of the models, without a run of their own:

* *Bytes behind a NUL.* `System2User` stops behind the first NUL (kernel.cc:313),
  `File_Read` returns the number of bytes read from the file (691), which
  `syscall.h:182` calls the number actually read.
* *ConsoleOutput.* Identifier 1 is the UNIX file "stdout" of the table, and the
  console's branch (kernel.cc:740) is reached only if there was nothing to write,
  though `syscall.h:153` names it as the console.
* *Results.* `Create` returns 0 where syscall.h:164 says 1; `Read` at the end of a
  file returns INT_MIN (kernel.cc:696); a `Write` of no bytes leaves the call's number in
  register 2 (742); `RandomNum` may be 0 although syscall.h:98 says positive.
* *Table of files.* Close, Read, Write and Seek let the identifier 20 pass, one past
  the table (567); `Remove` does not look at entries 0 and 1 (612); a keyboard
  read goes through an unset pointer (644, 673); the copy of a file name is
  allocated one byte short (542).
* *Numbers.* `EH_ReadNum` does not end its text with a NUL, so digits left in memory
  behind it count (360); the end of the input is no newline, and it reads on; digits behind the point
  count for nothing, their power of ten being an int (395). `ReadString` delivers no NUL.
* *Unknown system call.* The default case returns without `IncreasePC`
  (exception.cc:336): the program makes the same call for ever.
* *System call in a branch delay slot.* `IncreasePC` sets the next program counter to
  that of the call plus 8 (kernel.cc:270): the branch is lost. `ImplementsMips` asks for no more
  than the code does there.
* *Shifts.* SRL and SRLV shift a signed int (mipssim.cc:520-530), so that a
  negative word is filled with ones, as by SRA, where the manual fills it with zeros. `Shifts` models
  it as it is, and the run executes both. `AbstractMips` names the deviation: for these two instructions
  `SimulatedShift` allows the simulator's result beside the manual's. If `SimulatedShift` allows
  nothing, TLC finds `ImplementsMips` violated by an SRLV of a negative word.
* *Division.* DIV of the most negative word by -1 traps on the host
  (mipssim.cc:232) and ends the simulator; the manual leaves the result undefined.
* *Network.* `network.h` says of the reliability both that it is the chance to lose a
  packet and, as network.cc:171 has it, the chance that it works. `sendBusy` is
  never set, so that its ASSERT (165) guards nothing. A number of a mailbox
  that the receiver does not have stops it (post.cc:210). `NetworkTest` (kernel.cc:256) waits
  for ever if one packet is lost.
* *Console.* At the end of the input only one reader is told (console.cc:79), and
  the key 0xFF is taken for the end (106).
* *Real file system.* `Open` makes an `OpenFile`, forgets it and returns an empty table entry
  (filesys.cc:288), or with a full table the one before the first, so the
  constructor dereferences a null pointer (158). `Remove` does not look at
  open files (325). `Allocate` does not compare the size with the 30 entries of a header
  (filehdr.cc:47), and writes behind it. `Seek` takes a negative position (openfile.cc:56), and the
  next request copies from in front of its buffer.

## 8. What is not modelled, and why

* **Decode** (`mipssim.cc`): `Machine` executes decoded instructions from a given set.
  Nor the debugger, single stepping, and the TLB (not in the default build); words are little
  endian (`SIM_FIX`).
* **Real file system.** The default build defines FILESYS_STUB; without it the
  constructor crashes at filesys.cc:158, and `FileSystem` starts from the disk as
  it is by then. Its `Open` returns NULL to a client; `NewOpenFile` is the constructor `Open` calls, and stands
  for a client that has the `OpenFile` all the same. The memory that `Open` leaks and its search for
  a free slot are left out, since ListFile stays empty. One operation runs at a time, as the comment
  above `Create` demands. What follows after a misuse (section 3) is not
  modelled, since it depends on what lies in memory; in particular, of a removed open file the model has
  reads, seeks and closes, and the first write. `OthersUntouched` is about the files an
  operation does *not* change: a stop inside `Create` or `Remove` may leave the file in
  question with a header but no entry, or an entry whose sectors are free again, and nothing
  in the code repairs that. `Add` takes the first free entry
  and `Find` the first match, and this is what keeps the torn directory harmless. With ten
  entries of 20 bytes in sectors of 128 the seventh straddles: between the two writes it shows
  its new sector under the name of a removed file, but a file of that name that has been
  created again lies in an earlier entry. With a search that goes on after
  the first match (the wrong variant `FindLastIndex`) it would be hidden.
* **Disk latency** (`TimeToSeek`, `ComputeLatency`, `UpdateLast`), which decides only when
  an interrupt comes, and the overflow of the clock (an `int` compared as it is).
* **Start-up and shutdown, host interface, debugging and self tests, user programs**: glue,
  UNIX calls, or clients; what the modelled code sees of them is in the modules' Init and
  environment actions. `FileTable` leaves out the byte behind the copy of a name (kernel.cc:542) and
  does not cut names at the length the calls pass to `User2System`: names are short.
  `Machine` executes programs that keep the rules of the MIPS assembler (`Scheduled`): no use of a
  register in the slot of its load, no branch or system call in the slot of a branch, no link
  register that is also read. The **context switch** is assembly: `Scheduler` takes SWITCH as
  the change of the running thread.
* Destructors of objects in use (the code forbids it; that of `List` frees cells but not the items), statistics,
  `SaveUserState`, machines that come and go (seen as packet loss), a `sendto` that blocks on a full socket (seen as loss too), mailbox
  numbers out of range. `NetworkTest`: its loss of a packet is described in section 7.
* About a sixth of the implementation files' lines are headers of the GNU binary file library
  under `src/Source/usr/local/nachos/include` (bfd.h and others), which no code of the kernel includes, and most of the
  rest that no definition maps is tests, comments, debugging output, host calls and
  declarations.

## 9. The plan

Done, in this order: Scheduler, Semaphores, Monitor, SynchList, FileTable,
SynchDisk, SynchConsole, PostOffice, Interrupts, Machine with the address space,
Library, FileSystem, SystemCalls; the proofs of all of them that the prover can reach (section 6).

To come, most important first:

1. **Restart of FileSystem**: what a second start finds after a torn operation, beyond
   `OthersUntouched`.
2. **NetworkTest** on AbstractPost: with no loss both machines end, with loss
   both may wait for ever.
3. **Decode** and the disk's latency as functions checked against references.
