---------------------------- MODULE AbstractQueue ----------------------------
(***************************************************************************)
(* What synchlist.h promises: a list whose operations are atomic, and a    *)
(* RemoveFront that waits until there is an item and returns the oldest.   *)
(***************************************************************************)
EXTENDS Sequences

CONSTANTS Threads, Items, NoItem

VARIABLES contents,  (* the items, oldest first                            *)
          takers,    (* the threads in RemoveFront                         *)
          got        (* what each thread's last RemoveFront has returned   *)

queueVars == <<contents, takers, got>>

QueueInit ==
    /\ contents = <<>>
    /\ takers = {}
    /\ got = [t \in Threads |-> NoItem]

Put(v) ==
    /\ contents' = Append(contents, v)
    /\ UNCHANGED <<takers, got>>

AskItem(t) ==
    /\ t \notin takers
    /\ takers' = takers \cup {t}
    /\ UNCHANGED <<contents, got>>

GetItem(t) ==
    /\ t \in takers
    /\ contents # <<>>
    /\ contents' = Tail(contents)
    /\ got' = [got EXCEPT ![t] = Head(contents)]
    /\ takers' = takers \ {t}

QueueNext ==
    \/ \E v \in Items : Put(v)
    \/ \E t \in Threads : AskItem(t) \/ GetItem(t)

QueueSafety == QueueInit /\ [][QueueNext]_queueVars

=============================================================================
