----------------------------- MODULE SynchDisk -----------------------------
(***************************************************************************)
(* SynchDisk (synchdisk.cc) over the simulated Disk (disk.cc): a lock that *)
(* lets one request at a time through, the one AbstractLock describes, and *)
(* a semaphore on which the requester waits for the disk's interrupt.  The *)
(* disk's file outlives the run of Nachos.                                 *)
(***************************************************************************)
EXTENDS AbstractLock

CONSTANTS Sectors,   (* the sectors of the disk                            *)
          Contents,  (* what a sector can hold                             *)
          Blank,     (* what the sectors of a new disk hold                *)
          Done       (* SynchDisk::semaphore                               *)

ASSUME SynchDiskAssumption ==
    /\ NoThread \notin Threads
    /\ Blank \in Contents

VARIABLES value, waiting,  (* the semaphore, see AbstractSemaphores        *)
          active,          (* Disk::active; the interrupt is pending       *)
          disk,            (* the file DISK_0                              *)
          place,           (* where each thread is                         *)
          call,            (* the operation it is in, with its arguments   *)
          buffer           (* the buffer a thread passes to ReadSector     *)

lockVars == <<holder, asking>>
semaphoreVars == <<value, waiting>>
vars == <<lockVars, semaphoreVars, active, disk, place, call, buffer>>

\* none      in no operation         issued   in P, the request is made
\* acquire   in Acquire, or past it  finished P has returned
Places == {"none", "acquire", "issued", "finished"}

Calls == [kind : {"read"}, sector : Sectors]
           \cup [kind : {"write"}, sector : Sectors, data : Contents]

NoCall == [kind |-> "none"]

Sem == INSTANCE AbstractSemaphores WITH
          Sems <- {Done}, InitialValue <- [s \in {Done} |-> 0]

Goes(t, to) == place' = [place EXCEPT ![t] = to]

Start ==
    /\ holder = NoThread
    /\ asking = {}
    /\ Sem!AbsInit
    /\ active = FALSE
    /\ place = [t \in Threads |-> "none"]
    /\ call = [t \in Threads |-> NoCall]
    /\ buffer = [t \in Threads |-> Blank]

Init == Start /\ disk = [s \in Sectors |-> Blank]

-----------------------------------------------------------------------------
\* ReadSector and WriteSector: Acquire ...
Call(t, c) ==
    /\ place[t] = "none"
    /\ EnterAtOnce(t) \/ Ask(t)
    /\ Goes(t, "acquire")
    /\ call' = [call EXCEPT ![t] = c]
    /\ buffer' = [buffer EXCEPT ![t] = Blank]
    /\ UNCHANGED <<semaphoreVars, active, disk>>

Acquired(t) ==
    /\ Enter(t)
    /\ UNCHANGED <<semaphoreVars, active, disk, place, call, buffer>>

\* ... ReadRequest or WriteRequest, which do the transfer to or from the
\* file at once and schedule the interrupt ...
Transfer(t) ==
    LET req == call[t]
    IN  IF req.kind = "write"
        THEN disk' = [disk EXCEPT ![req.sector] = req.data] /\ UNCHANGED buffer
        ELSE buffer' = [buffer EXCEPT ![t] = disk[req.sector]] /\ UNCHANGED disk

\* Wrong variant of Request, refused by ReturnsAfterInterrupt.
RequestWithoutP(t) ==
    /\ holder = t /\ place[t] = "acquire"
    /\ ~active
    /\ active' = TRUE
    /\ Transfer(t)
    /\ Goes(t, "finished")
    /\ UNCHANGED <<lockVars, semaphoreVars, call>>

\* ... and P, up to its sleep: no tick between the request and the sleep.  P
\* returns at once if it finds the semaphore positive.
Request(t) ==
    /\ holder = t /\ place[t] = "acquire"
    /\ ~active
    /\ active' = TRUE
    /\ Transfer(t)
    /\ IF value[Done] = 0 THEN Sem!Wait(t, Done) /\ Goes(t, "issued")
                          ELSE Sem!TakeAtOnce(Done) /\ Goes(t, "finished")
    /\ UNCHANGED <<lockVars, call>>

\* Wrong variant of Interrupt, refused by SynchDiskInv.
InterruptStaysActive ==
    /\ active
    /\ value[Done] = 0
    /\ Sem!Increment(Done)
    /\ UNCHANGED <<lockVars, active, disk, place, call, buffer>>

\* Wrong variant of Interrupt, refused by DiskKeepsServing.
InterruptForgetsV ==
    /\ active
    /\ active' = FALSE
    /\ UNCHANGED <<lockVars, semaphoreVars, disk, place, call, buffer>>

\* The interrupt: Disk::CallBack and SynchDisk::CallBack.
Interrupt ==
    /\ active
    /\ active' = FALSE
    /\ Sem!Increment(Done)
    /\ UNCHANGED <<lockVars, disk, place, call, buffer>>

PReturns(t) ==
    /\ place[t] = "issued"
    /\ Sem!Take(t, Done)
    /\ Goes(t, "finished")
    /\ UNCHANGED <<lockVars, active, disk, call, buffer>>

\* ... and Release; the operation returns.
Release(t) ==
    /\ place[t] = "finished"
    /\ Leave(t)
    /\ Goes(t, "none")
    /\ call' = [call EXCEPT ![t] = NoCall]
    /\ UNCHANGED <<semaphoreVars, active, disk, buffer>>

\* Wrong variant of Restart, refused by ImplementsDisk.
RestartWithEmptyDisk ==
    /\ holder' = NoThread
    /\ asking' = {}
    /\ value' = [s \in {Done} |-> 0]
    /\ waiting' = [s \in {Done} |-> {}]
    /\ active' = FALSE
    /\ place' = [t \in Threads |-> "none"]
    /\ call' = [t \in Threads |-> NoCall]
    /\ buffer' = [t \in Threads |-> Blank]
    /\ disk' = [s \in Sectors |-> Blank]

\* The machine stops, at any moment, and is started again: only the file is
\* the same.
Restart ==
    /\ holder' = NoThread
    /\ asking' = {}
    /\ value' = [s \in {Done} |-> 0]
    /\ waiting' = [s \in {Done} |-> {}]
    /\ active' = FALSE
    /\ place' = [t \in Threads |-> "none"]
    /\ call' = [t \in Threads |-> NoCall]
    /\ buffer' = [t \in Threads |-> Blank]
    /\ UNCHANGED disk

-----------------------------------------------------------------------------
Inside(t) == Request(t) \/ PReturns(t) \/ Release(t)

Next ==
    \/ \E t \in Threads :
         \/ \E c \in Calls : Call(t, c)
         \/ Acquired(t)
         \/ Inside(t)
    \/ Interrupt
    \/ Restart

Spec == Init /\ [][Next]_vars

\* The scheduler runs the ready threads, the lock and the semaphore keep the
\* promises of AbstractMonitor and AbstractSemaphores, and simulated time
\* reaches every pending interrupt.
FairSpec ==
    /\ Spec
    /\ \A t \in Threads : WF_vars(Inside(t))
    /\ WF_vars(\E t \in Threads : Acquired(t))
    /\ WF_vars(Interrupt)

-----------------------------------------------------------------------------
(* Properties.                                                             *)

TypeOK ==
    /\ holder \in Threads \cup {NoThread}
    /\ asking \subseteq Threads
    /\ value \in [{Done} -> Nat]
    /\ waiting \in [{Done} -> SUBSET Threads]
    /\ active \in BOOLEAN
    /\ disk \in [Sectors -> Contents]
    /\ place \in [Threads -> Places]
    /\ call \in [Threads -> Calls \cup {NoCall}]
    /\ buffer \in [Threads -> Contents]

\* A thread in an operation holds the lock, or asks for it and has not made
\* its request.
LockCoversRequest ==
    \A t \in Threads :
        /\ place[t] = "none" => holder # t /\ t \notin asking
        /\ place[t] # "none" => call[t] \in Calls
        /\ place[t] = "acquire" => (holder = t <=> t \notin asking)
        /\ place[t] \in {"issued", "finished"} => holder = t /\ t \notin asking

\* The ASSERT(!active) of ReadRequest and WriteRequest: who has the lock and
\* has not made its request finds the disk idle and no earlier completion in
\* the semaphore, so that its P waits for its own interrupt.
OneRequestAtATime ==
    \A t \in Threads :
        holder = t /\ place[t] = "acquire" => ~active /\ value[Done] = 0

\* The requester is woken once per request: the interrupt is pending, or its
\* V has been done, never both, and neither without a thread in P.
OneCompletion ==
    /\ waiting[Done] = {t \in Threads : place[t] = "issued"}
    /\ value[Done] + (IF active THEN 1 ELSE 0)
         = IF waiting[Done] = {} THEN 0 ELSE 1

SynchDiskInv ==
    /\ TypeOK
    /\ LockCoversRequest
    /\ OneRequestAtATime
    /\ OneCompletion

\* "Return only after the data has been read (written)": no operation gets
\* past its P while the interrupt of a request is pending.
ReturnsAfterInterrupt ==
    [][\A t \in Threads :
         place[t] # "finished" /\ place'[t] = "finished"
           => ~active /\ ~active']_vars

\* The sectors are atomic and keep what was written over a restart.
Promise == INSTANCE AbstractDisk WITH
              stage <- [t \in Threads |->
                          IF place[t] \in {"issued", "finished"} THEN "done"
                          ELSE IF place[t] = "acquire" THEN "called" ELSE "none"]

ImplementsDisk == Promise!DiskSafety

\* As long as some thread is in an operation, operations keep being finished:
\* no interrupt is missed and no lock is left behind.
DiskKeepsServing ==
    \/ []<>(\A t \in Threads : place[t] = "none")
    \/ []<><<\E t \in Threads : Release(t)>>_vars

=============================================================================
