------------------------ MODULE AbstractSemaphores ------------------------
(***************************************************************************)
(* What synch.h promises of a semaphore: "P() -- wait until value > 0,     *)
(* then decrement"; "V() -- increment, waking up a waiting thread if       *)
(* necessary".  No queue, no scheduler: which of the threads in P takes an *)
(* increment is open, and none keeps it waiting for ever.                  *)
(***************************************************************************)
EXTENDS Naturals

CONSTANTS Threads, Sems, InitialValue

VARIABLES value,    (* value[s]                                            *)
          waiting   (* waiting[s]: the threads that have called P and have *)
                    (* not returned                                        *)

semVars == <<value, waiting>>

AbsInit ==
    /\ value = InitialValue
    /\ waiting = [s \in Sems |-> {}]

\* P finds the value positive.
TakeAtOnce(s) ==
    /\ value[s] > 0
    /\ value' = [value EXCEPT ![s] = @ - 1]
    /\ UNCHANGED waiting

\* P finds the value zero.
Wait(t, s) ==
    /\ value[s] = 0
    /\ \A r \in Sems : t \notin waiting[r]
    /\ waiting' = [waiting EXCEPT ![s] = @ \cup {t}]
    /\ UNCHANGED value

\* A waiting P returns.
Take(t, s) ==
    /\ t \in waiting[s]
    /\ value[s] > 0
    /\ value' = [value EXCEPT ![s] = @ - 1]
    /\ waiting' = [waiting EXCEPT ![s] = @ \ {t}]

Increment(s) ==
    /\ value' = [value EXCEPT ![s] = @ + 1]
    /\ UNCHANGED waiting

AbsNext ==
    \E s \in Sems :
        \/ TakeAtOnce(s)
        \/ Increment(s)
        \/ \E t \in Threads : Wait(t, s) \/ Take(t, s)

AbsSafety == AbsInit /\ [][AbsNext]_semVars

\* Nobody waits for ever beside a positive value.
AbsProgress ==
    \A s \in Sems : WF_semVars(\E t \in Threads : Take(t, s))

AbsSpec == AbsSafety /\ AbsProgress

=============================================================================
