---------------------------- MODULE AbstractLock ----------------------------
(***************************************************************************)
(* What synch.h promises of a Lock: Acquire waits until the lock is free   *)
(* and takes it, Release frees it, and both are atomic.  Any of the threads *)
(* in Acquire, or a newcomer, may be the next to get it; a free lock does  *)
(* not stay free for ever beside a thread that asks for it.                *)
(***************************************************************************)
EXTENDS Naturals

CONSTANTS Threads, NoThread

VARIABLES holder,  (* the thread between Acquire and Release, or NoThread  *)
          asking   (* the threads that wait in Acquire                     *)

\* Acquire is called: the lock is taken at once, or the caller waits.
EnterAtOnce(t) ==
    /\ holder = NoThread
    /\ t \notin asking
    /\ holder' = t
    /\ UNCHANGED asking

Ask(t) ==
    /\ holder # t
    /\ t \notin asking
    /\ asking' = asking \cup {t}
    /\ UNCHANGED holder

\* Acquire returns to a thread that had to wait.
Enter(t) ==
    /\ holder = NoThread
    /\ t \in asking
    /\ holder' = t
    /\ asking' = asking \ {t}

\* Release.
Leave(t) ==
    /\ holder = t
    /\ holder' = NoThread
    /\ UNCHANGED asking

=============================================================================
