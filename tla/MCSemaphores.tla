---------------------------- MODULE MCSemaphores ----------------------------
(***************************************************************************)
(* Model checking of Semaphores: one semaphore of each kind, so that a     *)
(* thread can be woken by another thread and by a device handler.          *)
(***************************************************************************)
EXTENDS Semaphores

CONSTANTS main, a, b, null, mutex, device, noSem

MCThreads3 == {main, a, b}
MCSems     == {mutex, device}
MCDevice   == {device}
MCInitial  == [s \in MCSems |-> IF s = mutex THEN 1 ELSE 0]


=============================================================================
