---------------------------- MODULE MCInterrupts ----------------------------
(***************************************************************************)
(* Model checking of Interrupts: three threads that preempt each other, a  *)
(* timer with a random delay, a poller and two devices.  A kernel tick is  *)
(* two user ticks, and the delays make interrupts due together, one by one *)
(* and before the end of a tick.                                           *)
(***************************************************************************)
EXTENDS Interrupts

CONSTANTS a, b, c, none, timer, network, diskette, console

MCThreads == {a, b, c}
MCPollers == {network}
MCDevices == {diskette, console}
MCDelays  == [d \in {timer, network, diskette, console} |->
                CASE d = timer    -> {1, 4}
                  [] d = network  -> {3}
                  [] d = diskette -> {2, 5}
                  [] d = console  -> {3}]

\* Times count relative to the clock only: states that differ in when they
\* happen are one.
Shifted ==
    <<[i \in DOMAIN pending |-> <<pending[i].dev, pending[i].when - totalTicks>>],
      machineVars, threadVars>>

=============================================================================
