----------------------------- MODULE SynchList -----------------------------
(***************************************************************************)
(* SynchList<T> (synchlist.cc): a List<T> with a lock and a condition, the *)
(* monitor that AbstractMonitor describes and Monitor implements.  An      *)
(* action is the code between two calls of the monitor that may run other  *)
(* threads.                                                                *)
(***************************************************************************)
EXTENDS AbstractMonitor, FiniteSets

CONSTANTS Items,   (* what the list holds; List::Append wants each item to *)
          NoItem   (* be there once, so the callers' items are distinct    *)

ASSUME SynchListAssumption ==
    /\ IsFiniteSet(Threads)   \* for Cardinality
    /\ NoThread \notin Threads
    /\ NoItem \notin Items

VARIABLES list,  (* SynchList::list                                        *)
          op,    (* the operation a thread is in, and how far              *)
          item,  (* the argument of Append, until it returns               *)
          got    (* the result of a thread's last RemoveFront              *)

vars == <<holder, asking, waiters, list, op, item, got>>

(* none     in no operation          append    in Append, item not added   *)
(* remove   in RemoveFront           appended  in Append, item added       *)
(* apply    in Apply                                                       *)
Operations == {"none", "append", "appended", "remove", "apply"}

Init ==
    /\ MonitorInit
    /\ list = <<>>
    /\ op = [t \in Threads |-> "none"]
    /\ item = [t \in Threads |-> NoItem]
    /\ got = [t \in Threads |-> NoItem]

\* lock->Acquire(), called and returning.
AcquireCall(t) == (EnterAtOnce(t) \/ Ask(t)) /\ UNCHANGED waiters

Acquired(t) == Enter(t) /\ UNCHANGED <<waiters, list, op, item, got>>

Goes(t, to) == op' = [op EXCEPT ![t] = to]

-----------------------------------------------------------------------------
\* An item that is in the list, or that another thread is appending, is not
\* appended: each caller hands over an object of its own.
CallAppend(t, v) ==
    /\ op[t] = "none"
    /\ ~InList(v, list) /\ \A u \in Threads : item[u] # v
    /\ AcquireCall(t)
    /\ Goes(t, "append")
    /\ item' = [item EXCEPT ![t] = v]
    /\ UNCHANGED <<list, got>>

\* Wrong variant of DoAppend, refused by ItemsDelivered, SynchListInv.
DoAppendSignalsFirstOnly(t) ==
    /\ holder = t /\ op[t] = "append"
    /\ list' = Append(list, item[t])
    /\ IF list = <<>> THEN Signal(t) ELSE UNCHANGED monitorVars
    /\ Goes(t, "appended")
    /\ UNCHANGED <<item, got>>

\* list->Append(item) and listEmpty->Signal(lock), up to the tick of its V.
DoAppend(t) ==
    /\ holder = t /\ op[t] = "append"
    /\ list' = Append(list, item[t])
    /\ Signal(t)
    /\ Goes(t, "appended")
    /\ UNCHANGED <<item, got>>

\* Wrong variant of ReturnFromAppend, refused by SynchListInv.
ReturnFromAppendLocked(t) ==
    /\ op[t] = "appended"
    /\ Goes(t, "none")
    /\ item' = [item EXCEPT ![t] = NoItem]
    /\ UNCHANGED <<holder, asking, waiters, list, got>>

ReturnFromAppend(t) ==
    /\ op[t] = "appended"
    /\ Leave(t)
    /\ Goes(t, "none")
    /\ item' = [item EXCEPT ![t] = NoItem]
    /\ UNCHANGED <<waiters, list, got>>

-----------------------------------------------------------------------------
CallRemoveFront(t) ==
    /\ op[t] = "none"
    /\ AcquireCall(t)
    /\ Goes(t, "remove")
    /\ UNCHANGED <<list, item, got>>

\* The while loop: each time the lock is held again, the list is tested.
WaitWhileEmpty(t) ==
    /\ holder = t /\ op[t] = "remove"
    /\ list = <<>>
    /\ Wait(t)
    /\ UNCHANGED <<list, op, item, got>>

\* Wrong variant of RemoveFront, refused by ImplementsQueue.
RemoveFrontTakesLast(t) ==
    /\ op[t] = "remove"
    /\ list # <<>>
    /\ list' = SubSeq(list, 1, Len(list) - 1)
    /\ got' = [got EXCEPT ![t] = list[Len(list)]]
    /\ Leave(t)
    /\ Goes(t, "none")
    /\ UNCHANGED <<waiters, item>>

\* The list is not empty: take its first item and release the lock.
DoRemoveFront(t) ==
    /\ op[t] = "remove"
    /\ list # <<>>
    /\ list' = Tail(list)
    /\ got' = [got EXCEPT ![t] = Head(list)]
    /\ Leave(t)
    /\ Goes(t, "none")
    /\ UNCHANGED <<waiters, item>>

-----------------------------------------------------------------------------
\* Apply: the function sees every item and changes none.
CallApply(t) ==
    /\ op[t] = "none"
    /\ AcquireCall(t)
    /\ Goes(t, "apply")
    /\ UNCHANGED <<list, item, got>>

Apply(t) ==
    /\ op[t] = "apply"
    /\ Leave(t)
    /\ Goes(t, "none")
    /\ UNCHANGED <<waiters, list, item, got>>

-----------------------------------------------------------------------------
Inside(t) ==
    \/ DoAppend(t) \/ ReturnFromAppend(t)
    \/ WaitWhileEmpty(t) \/ DoRemoveFront(t)
    \/ Apply(t)

Next ==
    \E t \in Threads :
        \/ Acquired(t)
        \/ Inside(t)
        \/ CallRemoveFront(t) \/ CallApply(t)
        \/ \E v \in Items : CallAppend(t, v)

Spec == Init /\ [][Next]_vars

\* The holder of the lock goes on, and a free lock is taken (AbstractMonitor).
\* Nothing makes a thread call an operation.
FairSpec ==
    /\ Spec
    /\ \A t \in Threads : WF_vars(Inside(t))
    /\ WF_vars(\E t \in Threads : Acquired(t))

-----------------------------------------------------------------------------
(* Properties.                                                             *)

TypeOK ==
    /\ holder \in Threads \cup {NoThread}
    /\ asking \subseteq Threads
    /\ waiters \in Seq(Threads)
    /\ list \in Seq(Items)
    /\ op \in [Threads -> Operations]
    /\ item \in [Threads -> Items \cup {NoItem}]
    /\ got \in [Threads -> Items \cup {NoItem}]

\* The removers that are not waiting: they hold the lock or ask for it and
\* will test the list again.
Coming == {t \in Threads : op[t] = "remove" /\ ~InWaiters(t)}

\* While threads wait for items, at least as many others are on their way as
\* there are items: one Signal per Append is enough although any thread may
\* take the item that a waiter was woken for.
NoItemForgotten == waiters # <<>> => Cardinality(Coming) >= Len(list)

\* A thread in an operation holds the lock, asks for it, or waits for an
\* item, and only a remover does the latter; a thread outside does none.
PlaceExact ==
    /\ Distinct(waiters)
    /\ \A t \in Threads :
         /\ InWaiters(t) => op[t] = "remove"
         /\ op[t] # "none" <=> (holder = t \/ t \in asking \/ InWaiters(t))
         /\ ~(holder = t /\ t \in asking)
         /\ ~(InWaiters(t) /\ (holder = t \/ t \in asking))
         /\ op[t] = "appended" => holder = t

\* The assertion !IsInList of List::Append holds when an item is added.
ItemsDistinct ==
    /\ Distinct(list)
    /\ \A t \in Threads :
         /\ op[t] = "append" => item[t] \in Items /\ ~InList(item[t], list)
         /\ op[t] \notin {"append", "appended"} => item[t] = NoItem
    /\ \A t, u \in Threads : item[t] = item[u] /\ item[t] # NoItem => t = u

SynchListInv ==
    /\ TypeOK
    /\ PlaceExact
    /\ ItemsDistinct
    /\ NoItemForgotten

\* Append and RemoveFront are atomic and the list is first in, first out.
Promise == INSTANCE AbstractQueue WITH
              contents <- list,
              takers <- {t \in Threads : op[t] = "remove"}

ImplementsQueue == Promise!QueueSafety

\* When the other operations come to an end, so does the wait beside an item.
\* (While they go on they may keep the lock busy for ever: a woken thread
\* has no precedence over them.)
ItemsDelivered ==
    <>[](\A t \in Threads : op[t] \in {"none", "remove"})
      => <>[](list = <<>> \/ \A t \in Threads : op[t] # "remove")

=============================================================================
