---------------------------- MODULE AbstractPost ----------------------------
(***************************************************************************)
(* What post.h and network.h promise: the network carries messages "in     *)
(* order but unreliably", each is put into the mailbox it is addressed to, *)
(* once, and Receive waits for a message, then removes and returns it.     *)
(* Send returns when the next message can be sent, be the last one lost or *)
(* not.                                                                    *)
(***************************************************************************)
EXTENDS Sequences

CONSTANTS Threads, Hosts, Boxes, Letters,
          Host,    (* the machine on which a thread runs                   *)
          None     (* no message                                           *)

Mail == [to : Hosts, box : Boxes, letter : Letters]

VARIABLES flight,   (* the messages on their way to each host              *)
          boxes,    (* the mailboxes of each host                          *)
          posting   (* the message of each thread in Send                  *)

postVars == <<flight, boxes, posting>>

PostInit ==
    /\ flight = [h \in Hosts |-> <<>>]
    /\ boxes = [h \in Hosts |-> [b \in Boxes |-> <<>>]]
    /\ posting = [t \in Threads |-> None]

Post(t, m) ==
    /\ posting[t] = None
    /\ posting' = [posting EXCEPT ![t] = m]
    /\ UNCHANGED <<flight, boxes>>

\* The message is on its way, or lost.
Leave(t) ==
    LET m == posting[t]
    IN  /\ m # None
        /\ \/ flight' = [flight EXCEPT ![m.to] = Append(@, m)]
           \/ UNCHANGED flight
        /\ posting' = [posting EXCEPT ![t] = None]
        /\ UNCHANGED <<boxes>>

Arrive(h) ==
    /\ flight[h] # <<>>
    /\ boxes' = [boxes EXCEPT ![h][Head(flight[h]).box] =
                   Append(@, Head(flight[h]).letter)]
    /\ flight' = [flight EXCEPT ![h] = Tail(@)]
    /\ UNCHANGED <<posting>>

Collect(t, b) ==
    LET h == Host[t]
    IN  /\ boxes[h][b] # <<>>
        /\ boxes' = [boxes EXCEPT ![h][b] = Tail(@)]
        /\ UNCHANGED <<flight, posting>>

PostNext ==
    \/ \E t \in Threads :
         \/ \E m \in Mail : Post(t, m)
         \/ Leave(t)
         \/ \E b \in Boxes : Collect(t, b)
    \/ \E h \in Hosts : Arrive(h)

PostSafety == PostInit /\ [][PostNext]_postVars

=============================================================================
