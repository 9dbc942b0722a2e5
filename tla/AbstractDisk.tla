---------------------------- MODULE AbstractDisk ----------------------------
(***************************************************************************)
(* What synchdisk.h promises: ReadSector and WriteSector are atomic, take  *)
(* effect once, and return only after they have.  A sector keeps what the  *)
(* last write gave it, also over a stop of the machine, and a request that *)
(* the stop interrupts has been done or not, never in part.                *)
(***************************************************************************)
EXTENDS Naturals

CONSTANTS Threads, Sectors, Contents, Blank

VARIABLES disk,   (* the contents of each sector                           *)
          stage,  (* how far each thread's operation is                    *)
          call,   (* the operation and its arguments                       *)
          buffer  (* what each thread's last ReadSector has read           *)

diskVars == <<disk, stage, call, buffer>>

Calls == [kind : {"read"}, sector : Sectors]
           \cup [kind : {"write"}, sector : Sectors, data : Contents]

NoCall == [kind |-> "none"]

DiskInit ==
    /\ disk = [s \in Sectors |-> Blank]
    /\ stage = [t \in Threads |-> "none"]
    /\ call = [t \in Threads |-> NoCall]
    /\ buffer = [t \in Threads |-> Blank]

CallDisk(t, c) ==
    /\ stage[t] = "none"
    /\ stage' = [stage EXCEPT ![t] = "called"]
    /\ call' = [call EXCEPT ![t] = c]
    /\ buffer' = [buffer EXCEPT ![t] = Blank]
    /\ UNCHANGED disk

TakeEffect(t) ==
    /\ stage[t] = "called"
    /\ stage' = [stage EXCEPT ![t] = "done"]
    /\ LET req == call[t]
       IN  IF req.kind = "write"
           THEN disk' = [disk EXCEPT ![req.sector] = req.data] /\ UNCHANGED buffer
           ELSE buffer' = [buffer EXCEPT ![t] = disk[req.sector]] /\ UNCHANGED disk
    /\ UNCHANGED call

ReturnFromDisk(t) ==
    /\ stage[t] = "done"
    /\ stage' = [stage EXCEPT ![t] = "none"]
    /\ call' = [call EXCEPT ![t] = NoCall]
    /\ UNCHANGED <<disk, buffer>>

StopAndStart ==
    /\ stage' = [t \in Threads |-> "none"]
    /\ call' = [t \in Threads |-> NoCall]
    /\ buffer' = [t \in Threads |-> Blank]
    /\ UNCHANGED disk

DiskNext ==
    \/ \E t \in Threads :
         \/ \E c \in Calls : CallDisk(t, c)
         \/ TakeEffect(t)
         \/ ReturnFromDisk(t)
    \/ StopAndStart

DiskSafety == DiskInit /\ [][DiskNext]_diskVars

=============================================================================
