--------------------------- MODULE AbstractAgenda ---------------------------
(***************************************************************************)
(* What interrupt.h promises of Schedule: an interrupt occurs at the time  *)
(* it is scheduled for.  The agenda says for each time to come which       *)
(* devices to call, in the order of the calls of Schedule; the clock does  *)
(* not advance while a call is due, and an idle clock advances to the next *)
(* one and no further.                                                     *)
(***************************************************************************)
EXTENDS Naturals, Sequences

CONSTANTS AllDevices, Delays, SystemTick, UserTick

VARIABLES now, agenda

Times == DOMAIN agenda

Due == \E w \in Times : w <= now

\* The agenda with device d called at time w, behind the others.
With(d, w, calls) ==
    [x \in DOMAIN calls \cup {w} |->
        IF x # w THEN calls[x]
        ELSE IF w \in DOMAIN calls THEN Append(calls[w], d) ELSE <<d>>]

\* The agenda without the first call of time w.
Without(w) ==
    [x \in IF Len(agenda[w]) = 1 THEN Times \ {w} ELSE Times |->
        IF x = w THEN Tail(agenda[w]) ELSE agenda[x]]

Plan(d) ==
    /\ ~Due
    /\ \E delay \in Delays[d] : agenda' = With(d, now + delay, agenda)
    /\ UNCHANGED now

\* The earliest call is made; its device may schedule itself again.
Call(w) ==
    LET d == Head(agenda[w])
    IN  /\ w <= now
        /\ \A x \in Times : w <= x
        /\ \/ agenda' = Without(w)
           \/ \E delay \in Delays[d] : agenda' = With(d, now + delay, Without(w))
        /\ UNCHANGED now

Advance ==
    /\ ~Due
    /\ \/ now' \in {now + SystemTick, now + UserTick}
       \/ now' \in Times /\ \A x \in Times : now' <= x
    /\ UNCHANGED agenda

AgendaInit == now = 0 /\ \A w \in Times : w > 0

AgendaNext ==
    \/ Advance
    \/ \E d \in AllDevices : Plan(d)
    \/ \E w \in Times : Call(w)

AgendaSpec == AgendaInit /\ [][AgendaNext]_<<now, agenda>>

=============================================================================
