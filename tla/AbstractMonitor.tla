--------------------------- MODULE AbstractMonitor ---------------------------
(***************************************************************************)
(* What synch.h promises of a Lock with one Condition, Mesa style: Wait    *)
(* releases the lock and relinquishes the CPU atomically, Signal wakes up  *)
(* one waiting thread if there is any, and a woken thread asks for the     *)
(* lock again, in competition with everybody else.                         *)
(***************************************************************************)
EXTENDS AbstractLock, Lists

VARIABLE waiters   (* the threads in Wait that nobody has signalled yet    *)

monitorVars == <<holder, asking, waiters>>

InWaiters(t) == InList(t, waiters)

MonitorInit ==
    /\ holder = NoThread
    /\ asking = {}
    /\ waiters = <<>>

Wait(t) ==
    /\ holder = t
    /\ ~InWaiters(t)
    /\ holder' = NoThread
    /\ waiters' = Append(waiters, t)
    /\ UNCHANGED asking

Signal(t) ==
    /\ holder = t
    /\ UNCHANGED holder
    /\ IF waiters # <<>>
       THEN /\ waiters' = Tail(waiters)
            /\ asking' = asking \cup {Head(waiters)}
       ELSE UNCHANGED <<waiters, asking>>

MonitorNext ==
    \E t \in Threads :
        \/ /\ EnterAtOnce(t) \/ Ask(t)
           /\ ~InWaiters(t)
           /\ UNCHANGED waiters
        \/ /\ Enter(t) \/ Leave(t)
           /\ UNCHANGED waiters
        \/ Wait(t)
        \/ Signal(t)

MonitorSafety == MonitorInit /\ [][MonitorNext]_monitorVars

\* A free lock is taken when threads ask for it, those included that a
\* signal has woken: no signal is missed.
MonitorSpec ==
    /\ MonitorSafety
    /\ WF_monitorVars(\E t \in Threads : Enter(t) /\ UNCHANGED waiters)

=============================================================================
