-------------------------- MODULE SemaphoreProofs --------------------------
(***************************************************************************)
(* Proofs about Scheduler and Semaphores, for any finite set of threads,   *)
(* any semaphores and any initial values.  SchedulerInv is inductive for   *)
(* the scheduler alone; every step with semaphores is shown to be a step   *)
(* of the scheduler, so that it carries over; then QueueExact,             *)
(* WaitsOnMatches and NoLostWakeup are shown to be kept together.          *)
(***************************************************************************)
EXTENDS Semaphores, FiniteSetTheorems, TLAPS

-----------------------------------------------------------------------------
(***************************************************************************)
(* What Append and RemoveFront do to the set of the items of a list and to *)
(* the absence of duplicates (lib/list.cc).                                *)
(***************************************************************************)

\* List<T>::Append adds its item and nothing else.
LEMMA InListAppend ==
    ASSUME NEW S, NEW line \in Seq(S), NEW u \in S, NEW t
    PROVE  InList(t, Append(line, u)) <=> (InList(t, line) \/ t = u)
  <1>1. /\ \A i \in DOMAIN line : /\ i \in DOMAIN Append(line, u)
                                  /\ Append(line, u)[i] = line[i]
        /\ Len(line) + 1 \in DOMAIN Append(line, u)
        /\ Append(line, u)[Len(line) + 1] = u
    OBVIOUS
  <1>2. \A i \in DOMAIN Append(line, u) : i \in DOMAIN line \/ i = Len(line) + 1
    OBVIOUS
  <1> QED BY <1>1, <1>2 DEF InList

\* List<T>::Append of an item that is not in the list (its assertion) keeps
\* the list without duplicates.
LEMMA DistinctAppend ==
    ASSUME NEW S, NEW line \in Seq(S), NEW u \in S,
           Distinct(line), ~ InList(u, line)
    PROVE  Distinct(Append(line, u))
  BY DEF Distinct, InList

\* The first item of a list is in it.
LEMMA HeadInList ==
    ASSUME NEW S, NEW line \in Seq(S), line # <<>>
    PROVE  Head(line) \in S /\ InList(Head(line), line)
  BY 1 \in DOMAIN line, Head(line) = line[1] DEF InList

\* List<T>::RemoveFront removes the first item and nothing else.
LEMMA InListTail ==
    ASSUME NEW S, NEW line \in Seq(S), line # <<>>, Distinct(line), NEW t
    PROVE  InList(t, Tail(line)) <=> (InList(t, line) /\ t # Head(line))
  <1>1. \A i \in DOMAIN Tail(line) : /\ i + 1 \in DOMAIN line /\ i + 1 # 1
                                     /\ Tail(line)[i] = line[i + 1]
    OBVIOUS
  <1>2. 1 \in DOMAIN line /\ Head(line) = line[1]
    OBVIOUS
  <1>3. \A i \in DOMAIN line :
          i # 1 => i - 1 \in DOMAIN Tail(line) /\ Tail(line)[i - 1] = line[i]
    OBVIOUS
  <1>4. InList(t, Tail(line)) => InList(t, line) /\ t # Head(line)
    BY <1>1, <1>2 DEF InList, Distinct
  <1>5. InList(t, line) /\ t # Head(line) => InList(t, Tail(line))
    BY <1>2, <1>3 DEF InList
  <1> QED BY <1>4, <1>5

\* List<T>::RemoveFront keeps the list without duplicates.
LEMMA DistinctTail ==
    ASSUME NEW S, NEW line \in Seq(S), line # <<>>, Distinct(line)
    PROVE  Distinct(Tail(line))
  BY \A i \in DOMAIN Tail(line) : i + 1 \in DOMAIN line /\ Tail(line)[i] = line[i + 1]
  DEF Distinct

-----------------------------------------------------------------------------
(***************************************************************************)
(* Scheduler.                                                              *)
(***************************************************************************)

(***************************************************************************)
(* The pieces shared by several actions, each with what it does to the     *)
(* invariant.                                                              *)
(***************************************************************************)

\* The two ways the ready list grows or shrinks keep it exact.
LEMMA ReadyToRunExact ==
    ASSUME SchedulerTypeOK, ReadyListExact,
           NEW t \in Threads, status[t] # "READY", ReadyToRun(t)
    PROVE  /\ readyList' \in Seq(Threads)
           /\ ReadyListExact'
  <1>1. /\ readyList \in Seq(Threads) /\ ~ InList(t, readyList)
        /\ Distinct(readyList)
        /\ readyList' = Append(readyList, t)
        /\ status' = [status EXCEPT ![t] = "READY"]
    BY DEF SchedulerTypeOK, ReadyListExact, ReadyToRun
  <1>2. readyList' \in Seq(Threads) /\ Distinct(readyList')
    BY <1>1, DistinctAppend
  <1>3. ASSUME NEW u \in Threads
        PROVE  (status'[u] = "READY") <=> InList(u, readyList')
    <2>1. InList(u, readyList') <=> (InList(u, readyList) \/ u = t)
      BY <1>1, InListAppend
    <2>2. status'[u] = "READY" <=> (status[u] = "READY" \/ u = t)
      BY <1>1 DEF SchedulerTypeOK
    <2> QED BY <2>1, <2>2 DEF ReadyListExact
  <1> QED BY <1>2, <1>3 DEF ReadyListExact

\* Taking the first thread off the list and marking it RUNNING keeps the
\* list exact; "old" is the thread that gives up the CPU, BLOCKED.
LEMMA DispatchExact ==
    ASSUME SchedulerTypeOK, ReadyListExact, readyList # <<>>,
           NEW st \in [Threads -> Statuses],
           \A t \in Threads : st[t] = "READY" <=> status[t] = "READY",
           status' = [st EXCEPT ![Head(readyList)] = "RUNNING"],
           readyList' = Tail(readyList)
    PROVE  /\ readyList' \in Seq(Threads)
           /\ ReadyListExact'
  <1>1. readyList \in Seq(Threads) /\ Distinct(readyList)
    BY DEF SchedulerTypeOK, ReadyListExact
  <1>2. Head(readyList) \in Threads
    BY <1>1, HeadInList
  <1>3. readyList' \in Seq(Threads) /\ Distinct(readyList')
    BY <1>1, DistinctTail
  <1>4. ASSUME NEW u \in Threads
        PROVE  (status'[u] = "READY") <=> InList(u, readyList')
    <2>1. InList(u, readyList') <=> (InList(u, readyList) /\ u # Head(readyList))
      BY <1>1, InListTail
    <2>2. status'[u] = "READY" <=> (status[u] = "READY" /\ u # Head(readyList))
      BY <1>2
    <2> QED BY <2>1, <2>2 DEF ReadyListExact
  <1> QED BY <1>3, <1>4 DEF ReadyListExact

\* The same when the old thread yields: it goes to the tail of the list.
LEMMA RotateExact ==
    ASSUME SchedulerTypeOK, ReadyListExact, readyList # <<>>,
           status[currentThread] # "READY",
           status' = [[status EXCEPT ![currentThread] = "READY"]
                          EXCEPT ![Head(readyList)] = "RUNNING"],
           readyList' = Append(Tail(readyList), currentThread)
    PROVE  /\ readyList' \in Seq(Threads)
           /\ ReadyListExact'
  <1>1. readyList \in Seq(Threads) /\ Distinct(readyList)
        /\ currentThread \in Threads /\ ~ InList(currentThread, readyList)
    BY DEF SchedulerTypeOK, ReadyListExact
  <1>2. Head(readyList) \in Threads /\ InList(Head(readyList), readyList)
    BY <1>1, HeadInList
  <1>3. Tail(readyList) \in Seq(Threads) /\ Distinct(Tail(readyList))
    BY <1>1, DistinctTail
  <1>4. \A u : InList(u, Tail(readyList))
                <=> (InList(u, readyList) /\ u # Head(readyList))
    BY <1>1, InListTail
  <1>5. readyList' \in Seq(Threads) /\ Distinct(readyList')
    <2>1. ~ InList(currentThread, Tail(readyList))
      BY <1>1, <1>4
    <2>2. Append(Tail(readyList), currentThread) \in Seq(Threads)
      BY <1>1, <1>3
    <2>3. Distinct(Append(Tail(readyList), currentThread))
      BY <1>1, <1>3, <2>1, DistinctAppend
    <2> QED BY <2>2, <2>3
  <1>6. ASSUME NEW u \in Threads
        PROVE  (status'[u] = "READY") <=> InList(u, readyList')
    <2>1. InList(u, readyList')
             <=> (InList(u, Tail(readyList)) \/ u = currentThread)
      BY <1>1, <1>3, InListAppend
    <2>2. status'[u] = "READY"
             <=> (status[u] = "READY" \/ u = currentThread) /\ u # Head(readyList)
      BY <1>1, <1>2 DEF SchedulerTypeOK
    <2>3. currentThread # Head(readyList)
      BY <1>1, <1>2
    <2> QED BY <2>1, <2>2, <2>3, <1>4 DEF ReadyListExact
  <1> QED BY <1>5, <1>6 DEF ReadyListExact

\* What Scheduler::Run leaves, whoever called it: the rest of the invariant
\* needs only how the old thread was left.
LEMMA RunKeepsInv ==
    ASSUME SchedulerInv, readyList # <<>>,
           NEW st \in [Threads -> Statuses], NEW ct \in [Threads -> Conts],
           NEW ready, NEW finishing \in BOOLEAN,
           toBeDestroyed = NoThread,
           \A t \in Threads \ {currentThread} :
               st[t] = status[t] /\ ct[t] = cont[t],
           \/ /\ st[currentThread] = "READY"
              /\ ct[currentThread] \in {"begin", "yield", "sleep"}
              /\ ~ finishing
           \/ /\ st[currentThread] = "BLOCKED"
              /\ ct[currentThread] = IF finishing THEN "finish" ELSE "sleep",
           st[Head(readyList)] = "READY",
           Run(Head(readyList), st, ready, finishing),
           cont' = ct, yieldOnReturn' \in BOOLEAN,
           ready \in Seq(Threads), ReadyListExact'
    PROVE  SchedulerInv'
  <1> DEFINE next == Head(readyList)
  <1>1. next \in Threads
    BY HeadInList DEF SchedulerInv, SchedulerTypeOK
  <1>2. /\ status' = [st EXCEPT ![next] = "RUNNING"]
        /\ readyList' = ready
        /\ currentThread' = next
        /\ toBeDestroyed' = IF finishing THEN currentThread ELSE NoThread
        /\ phase' = "switched"
    BY DEF Run
  <1>3. /\ currentThread \in Threads
        /\ \A t \in Threads : status[t] = "RUNNING" => t = currentThread
        /\ \A t \in Threads : cont[t] = "finish" => t = currentThread
    BY ThreadsAssumption
       DEF SchedulerInv, SchedulerTypeOK, OneRunning, CarcassReclaimed
  <1>4. SchedulerTypeOK'
    BY <1>1, <1>2, <1>3
       DEF SchedulerInv, SchedulerTypeOK, Statuses, Phases
  <1>5. OneRunning'
    BY <1>1, <1>2, <1>3 DEF OneRunning
  <1>6. finishing => currentThread # next
    OBVIOUS
  <1>7. CarcassReclaimed'
    BY <1>1, <1>2, <1>3, <1>6 DEF CarcassReclaimed
  <1>8. ContMatchesStatus'
    <2> SUFFICES ASSUME NEW t \in Threads
                 PROVE  /\ status'[t] = "NONE"    => cont'[t] = "none"
                        /\ status'[t] = "READY"   => cont'[t] \in {"begin", "yield", "sleep"}
                        /\ status'[t] = "BLOCKED" => cont'[t] \in {"sleep", "finish"}
                        /\ status'[t] = "RUNNING" => cont'[t] \in {"begin", "yield", "sleep"}
      BY <1>2 DEF ContMatchesStatus
    <2>1. CASE t = next
      BY <1>1, <1>2, <2>1 DEF SchedulerInv, ContMatchesStatus
    <2>2. CASE t # next /\ t = currentThread
      BY <1>1, <1>2, <2>2
    <2>3. CASE t # next /\ t # currentThread
      BY <1>1, <1>2, <1>3, <2>3 DEF SchedulerInv, ContMatchesStatus
    <2> QED BY <2>1, <2>2, <2>3
  <1> QED BY <1>4, <1>5, <1>7, <1>8 DEF SchedulerInv

\* Only a switch leaves a thread to be destroyed.
LEMMA NothingToDestroy ==
    ASSUME SchedulerInv, phase # "switched"
    PROVE  toBeDestroyed = NoThread
  BY DEF SchedulerInv, CarcassReclaimed

-----------------------------------------------------------------------------
(***************************************************************************)
(* Steps that leave the CPU with the current thread.                       *)
(***************************************************************************)

\* A step that moves only the phase, between two phases in which the current
\* thread runs with nothing left to reclaim.
LEMMA PhaseStep ==
    ASSUME SchedulerInv,
           phase \in {"run", "tick", "off"}, phase' \in {"run", "tick", "off"},
           yieldOnReturn' \in BOOLEAN,
           UNCHANGED <<status, readyList, currentThread, toBeDestroyed, cont>>
    PROVE  SchedulerInv'
  <1>1. SchedulerTypeOK' /\ OneRunning'
    BY DEF SchedulerInv, SchedulerTypeOK, OneRunning, Phases
  <1>2. ReadyListExact'
    BY DEF SchedulerInv, ReadyListExact, InList, Distinct
  <1>3. CarcassReclaimed'
    BY NothingToDestroy DEF SchedulerInv, CarcassReclaimed
  <1>4. ContMatchesStatus'
    BY DEF SchedulerInv, ContMatchesStatus
  <1> QED BY <1>1, <1>2, <1>3, <1>4 DEF SchedulerInv

\* Readying a thread that is not running: Fork, and V by a thread or a
\* handler.
LEMMA ReadyStep ==
    ASSUME SchedulerInv, NEW t \in Threads,
           phase \in {"run", "tick", "idle"},
           (phase' = phase) \/ (phase = "run" /\ phase' = "tick"),
           \/ status[t] = "NONE" /\ cont' = [cont EXCEPT ![t] = "begin"]
           \/ status[t] = "BLOCKED" /\ cont[t] = "sleep" /\ cont' = cont,
           ReadyToRun(t),
           UNCHANGED <<currentThread, toBeDestroyed, yieldOnReturn>>
    PROVE  SchedulerInv'
  <1>1. /\ readyList' \in Seq(Threads)
        /\ ReadyListExact'
    BY ReadyToRunExact DEF SchedulerInv
  <1>2. status' = [status EXCEPT ![t] = "READY"]
    BY DEF ReadyToRun
  <1>3. toBeDestroyed = NoThread
    BY NothingToDestroy
  <1>4. SchedulerTypeOK'
    BY <1>1, <1>2 DEF SchedulerInv, SchedulerTypeOK, Statuses, Phases, Conts
  <1>5. OneRunning'
    BY <1>2 DEF SchedulerInv, SchedulerTypeOK, OneRunning
  <1>6. CarcassReclaimed'
    BY <1>2, <1>3 DEF SchedulerInv, SchedulerTypeOK, CarcassReclaimed
  <1>7. ContMatchesStatus'
    BY <1>2 DEF SchedulerInv, SchedulerTypeOK, ContMatchesStatus
  <1> QED BY <1>1, <1>4, <1>5, <1>6, <1>7 DEF SchedulerInv

\* What the first code after SWITCH leaves (Begin, ReturnFromRun).
LEMMA AfterSwitch ==
    ASSUME SchedulerInv, phase = "switched", CheckToBeDestroyed,
           phase' \in {"tick", "off"},
           UNCHANGED <<readyList, currentThread, yieldOnReturn>>
    PROVE  SchedulerInv'
  <1>1. /\ currentThread \in Threads
        /\ toBeDestroyed # currentThread
        /\ \A t \in Threads : status[t] = "RUNNING" <=> t = currentThread
        /\ toBeDestroyed \in Threads => status[toBeDestroyed] = "BLOCKED"
        /\ \A t \in Threads : cont[t] = "finish" => t = toBeDestroyed
    BY ThreadsAssumption
       DEF SchedulerInv, SchedulerTypeOK, OneRunning, CarcassReclaimed
  <1>2. /\ status' = [t \in Threads |->
                          IF t = toBeDestroyed THEN "NONE" ELSE status[t]]
        /\ cont' = [t \in Threads |->
                        IF t \in {toBeDestroyed, currentThread}
                        THEN "none" ELSE cont[t]]
        /\ toBeDestroyed' = NoThread
    BY DEF CheckToBeDestroyed
  <1>3. SchedulerTypeOK'
    BY <1>2 DEF SchedulerInv, SchedulerTypeOK, Statuses, Phases, Conts
  <1>4. OneRunning'
    BY <1>1, <1>2 DEF SchedulerInv, OneRunning
  <1>5. ReadyListExact'
    <2>1. \A t \in Threads : (status'[t] = "READY") <=> (status[t] = "READY")
      BY <1>1, <1>2 DEF SchedulerInv, SchedulerTypeOK
    <2> QED BY <2>1 DEF SchedulerInv, ReadyListExact, InList, Distinct
  <1>6. CarcassReclaimed'
    BY <1>1, <1>2 DEF CarcassReclaimed
  <1>7. ContMatchesStatus'
    BY <1>1, <1>2 DEF SchedulerInv, ContMatchesStatus
  <1> QED BY <1>3, <1>4, <1>5, <1>6, <1>7 DEF SchedulerInv

(***************************************************************************)
(* Steps that give up the CPU.                                             *)
(***************************************************************************)

\* The body of Thread::Yield, called by the thread or by OneTick.
LEMMA YieldKeepsInv ==
    ASSUME SchedulerInv, phase \in {"run", "tick"}, YieldBody,
           yieldOnReturn' \in BOOLEAN
    PROVE  SchedulerInv'
  <1>1. CASE readyList = <<>>
    BY <1>1, PhaseStep DEF YieldBody
  <1>2. CASE readyList # <<>>
    <2> DEFINE st == [status EXCEPT ![currentThread] = "READY"]
               ct == [cont EXCEPT ![currentThread] = "yield"]
               ready == Append(Tail(readyList), currentThread)
    <2>1. /\ Run(Head(readyList), st, ready, FALSE)
          /\ cont' = ct
      BY <1>2 DEF YieldBody
    <2>2. /\ status[currentThread] = "RUNNING"
          /\ currentThread \in Threads
          /\ status \in [Threads -> Statuses]
          /\ cont \in [Threads -> Conts]
      BY DEF SchedulerInv, SchedulerTypeOK, OneRunning
    <2>3. ready \in Seq(Threads) /\ ReadyListExact'
      BY <1>2, <2>1, <2>2, RotateExact DEF SchedulerInv, Run
    <2>4. Head(readyList) \in Threads /\ status[Head(readyList)] = "READY"
      BY <1>2, HeadInList DEF SchedulerInv, SchedulerTypeOK, ReadyListExact
    <2>5. /\ st \in [Threads -> Statuses] /\ ct \in [Threads -> Conts]
          /\ st[Head(readyList)] = "READY"
          /\ st[currentThread] = "READY" /\ ct[currentThread] = "yield"
          /\ \A t \in Threads \ {currentThread} :
                 st[t] = status[t] /\ ct[t] = cont[t]
      BY <2>2, <2>4 DEF Statuses, Conts
    <2>6. toBeDestroyed = NoThread
      BY NothingToDestroy
    <2> HIDE DEF st, ct, ready
    <2> QED BY <1>2, <2>1, <2>3, <2>5, <2>6, RunKeepsInv
  <1> QED BY <1>1, <1>2

\* Thread::Sleep, whichever way it is called.
LEMMA SleepKeepsInv ==
    ASSUME SchedulerInv, phase \in {"run", "off"},
           NEW finishing \in BOOLEAN, SleepBody(finishing),
           UNCHANGED yieldOnReturn
    PROVE  SchedulerInv'
  <1> DEFINE st == [status EXCEPT ![currentThread] = "BLOCKED"]
             ct == [cont EXCEPT ![currentThread] =
                        IF finishing THEN "finish" ELSE "sleep"]
  <1>1. /\ status[currentThread] = "RUNNING"
        /\ currentThread \in Threads
        /\ status \in [Threads -> Statuses]
        /\ cont \in [Threads -> Conts]
        /\ yieldOnReturn' \in BOOLEAN
    BY DEF SchedulerInv, SchedulerTypeOK, OneRunning
  <1>2. toBeDestroyed = NoThread
    BY NothingToDestroy
  <1>3. /\ st \in [Threads -> Statuses] /\ ct \in [Threads -> Conts]
        /\ st[currentThread] = "BLOCKED"
        /\ ct[currentThread] = IF finishing THEN "finish" ELSE "sleep"
        /\ \A t \in Threads \ {currentThread} :
               st[t] = status[t] /\ ct[t] = cont[t]
        /\ \A t \in Threads : st[t] = "READY" <=> status[t] = "READY"
    BY <1>1 DEF Statuses, Conts
  <1>4. CASE readyList = <<>>
    <2>1. /\ status' = st /\ cont' = ct /\ phase' = "idle"
          /\ UNCHANGED <<readyList, currentThread, toBeDestroyed>>
      BY <1>4 DEF SleepBody
    <2>2. SchedulerTypeOK'
      BY <1>1, <1>3, <2>1 DEF SchedulerInv, SchedulerTypeOK, Phases
    <2>3. OneRunning'
      BY <1>1, <2>1 DEF SchedulerInv, OneRunning
    <2>4. ReadyListExact'
      BY <1>1, <2>1 DEF SchedulerInv, ReadyListExact, InList, Distinct
    <2>5. CarcassReclaimed'
      BY <1>1, <1>2, <2>1 DEF SchedulerInv, CarcassReclaimed
    <2>6. ContMatchesStatus'
      BY <1>1, <2>1 DEF SchedulerInv, ContMatchesStatus, OneRunning
    <2> QED BY <2>2, <2>3, <2>4, <2>5, <2>6 DEF SchedulerInv
  <1>5. CASE readyList # <<>>
    <2>1. /\ Run(Head(readyList), st, Tail(readyList), finishing)
          /\ cont' = ct
      BY <1>5 DEF SleepBody
    <2>2. readyList' \in Seq(Threads) /\ ReadyListExact'
          /\ readyList' = Tail(readyList)
      BY <1>3, <1>5, <2>1, DispatchExact DEF SchedulerInv, Run
    <2>3. st[Head(readyList)] = "READY"
      BY <1>3, <1>5, HeadInList DEF SchedulerInv, SchedulerTypeOK, ReadyListExact
    <2>4. Tail(readyList) \in Seq(Threads)
      BY <2>2
    <2> HIDE DEF st, ct
    <2> QED BY <1>1, <1>2, <1>3, <1>5, <2>1, <2>2, <2>3, <2>4, RunKeepsInv
  <1> QED BY <1>4, <1>5

\* The end of the idle loop of Thread::Sleep.
LEMMA IdleReturnKeepsInv ==
    ASSUME SchedulerInv, IdleReturn
    PROVE  SchedulerInv'
  <1> DEFINE finishing == cont[currentThread] = "finish"
  <1>1. /\ phase = "idle" /\ readyList # <<>>
        /\ Run(Head(readyList), status, Tail(readyList), finishing)
        /\ UNCHANGED <<yieldOnReturn, cont>>
    BY DEF IdleReturn
  <1>2. /\ currentThread \in Threads
        /\ status \in [Threads -> Statuses] /\ cont \in [Threads -> Conts]
        /\ status[currentThread] \in {"READY", "BLOCKED"}
        /\ yieldOnReturn' \in BOOLEAN
    BY <1>1 DEF SchedulerInv, SchedulerTypeOK, OneRunning, Statuses
  <1>3. /\ readyList' \in Seq(Threads) /\ ReadyListExact'
        /\ readyList' = Tail(readyList)
    BY <1>1, <1>2, DispatchExact DEF SchedulerInv, Run
  <1>4. status[Head(readyList)] = "READY"
    BY <1>1, HeadInList DEF SchedulerInv, SchedulerTypeOK, ReadyListExact
  <1>5. \/ /\ status[currentThread] = "READY"
           /\ cont[currentThread] \in {"begin", "yield", "sleep"}
           /\ ~ finishing
        \/ /\ status[currentThread] = "BLOCKED"
           /\ cont[currentThread] = IF finishing THEN "finish" ELSE "sleep"
    BY <1>2 DEF SchedulerInv, ContMatchesStatus
  <1>6. finishing \in BOOLEAN /\ Tail(readyList) \in Seq(Threads)
    BY <1>3
  <1>7. toBeDestroyed = NoThread
    BY <1>1, NothingToDestroy
  <1> HIDE DEF finishing
  <1> QED BY <1>1, <1>2, <1>3, <1>4, <1>5, <1>6, <1>7, RunKeepsInv

-----------------------------------------------------------------------------

LEMMA InitInv == SchedulerInit => SchedulerInv
  <1> SUFFICES ASSUME SchedulerInit PROVE SchedulerInv
    OBVIOUS
  <1> USE ThreadsAssumption DEF SchedulerInit
  <1>1. SchedulerTypeOK
    <2>1. readyList \in Seq(Threads)
      OBVIOUS
    <2>2. status \in [Threads -> Statuses] /\ cont \in [Threads -> Conts]
      BY DEF Statuses, Conts
    <2> QED BY <2>1, <2>2 DEF SchedulerTypeOK, Phases
  <1>2. OneRunning /\ ContMatchesStatus /\ CarcassReclaimed
    BY DEF OneRunning, ContMatchesStatus, CarcassReclaimed
  <1>3. ReadyListExact
    BY DEF ReadyListExact, InList, Distinct
  <1> QED BY <1>1, <1>2, <1>3 DEF SchedulerInv

LEMMA NextInv == SchedulerInv /\ [SchedulerNext]_schedulerVars => SchedulerInv'
  <1> SUFFICES ASSUME SchedulerInv, [SchedulerNext]_schedulerVars
               PROVE  SchedulerInv'
    OBVIOUS
  <1>0. yieldOnReturn \in BOOLEAN
    BY DEF SchedulerInv, SchedulerTypeOK
  <1>1. CASE Compute
    BY <1>0, <1>1, PhaseStep DEF Compute
  <1>2. CASE Yield
    BY <1>0, <1>2, YieldKeepsInv DEF Yield
  <1>3. CASE Sleep
    BY <1>3, SleepKeepsInv DEF Sleep
  <1>4. CASE Finish
    BY <1>4, SleepKeepsInv DEF Finish
  <1>5. CASE Enable
    BY <1>0, <1>5, PhaseStep DEF Enable
  <1>6. CASE TimerHandler
    <2>1. CASE phase = "tick"
      BY <1>6, <2>1, PhaseStep DEF TimerHandler
    <2>2. CASE phase = "idle"
      <3>1. UNCHANGED schedulerVars
        BY <1>0, <1>6, <2>2 DEF TimerHandler, schedulerVars
      <3> QED BY <3>1 DEF schedulerVars, SchedulerInv, SchedulerTypeOK,
                 OneRunning, ReadyListExact, InList, Distinct,
                 CarcassReclaimed, ContMatchesStatus
    <2> QED BY <1>6, <2>1, <2>2 DEF TimerHandler
  <1>7. CASE EndTick
    <2>1. CASE yieldOnReturn
      BY <1>7, <2>1, YieldKeepsInv DEF EndTick
    <2>2. CASE ~ yieldOnReturn
      BY <1>7, <2>2, PhaseStep DEF EndTick
    <2> QED BY <2>1, <2>2
  <1>8. CASE IdleReturn
    BY <1>8, IdleReturnKeepsInv
  <1>9. CASE Begin
    BY <1>9, AfterSwitch DEF Begin
  <1>10. CASE ReturnFromRun
    BY <1>10, AfterSwitch DEF ReturnFromRun
  <1>11. ASSUME NEW t \in Threads, Fork(t)
         PROVE  SchedulerInv'
    BY <1>11, ReadyStep DEF Fork
  <1>12. ASSUME NEW t \in Threads, WakeByThread(t)
         PROVE  SchedulerInv'
    BY <1>12, ReadyStep DEF WakeByThread
  <1>13. ASSUME NEW t \in Threads, WakeByHandler(t)
         PROVE  SchedulerInv'
    BY <1>13, ReadyStep DEF WakeByHandler
  <1>14. CASE UNCHANGED schedulerVars
    BY <1>14 DEF schedulerVars, SchedulerInv, SchedulerTypeOK, OneRunning,
                 ReadyListExact, InList, Distinct, CarcassReclaimed,
                 ContMatchesStatus
  <1> QED BY <1>1, <1>2, <1>3, <1>4, <1>5, <1>6, <1>7, <1>8, <1>9, <1>10,
             <1>11, <1>12, <1>13, <1>14 DEF SchedulerNext

\* The scheduler's bookkeeping is consistent in every reachable state:
\* currentThread, the status fields, the ready list, toBeDestroyed and the
\* saved contexts agree, whatever the threads do and whenever interrupts are
\* due.
THEOREM SchedulerCorrect == SchedulerSpec => []SchedulerInv
  BY InitInv, NextInv, PTL DEF SchedulerSpec

\* The assertion !IsInList of List::Append, for the ready list, and no ready
\* thread is lost from it.
THEOREM ReadyListCorrect == SchedulerSpec => []ReadyListExact
  <1>1. SchedulerInv => ReadyListExact
    BY DEF SchedulerInv
  <1> QED BY <1>1, SchedulerCorrect, PTL

\* ASSERT(toBeDestroyed == NULL) in Scheduler::Run and
\* ASSERT(this != kernel->currentThread) in ~Thread.
THEOREM CarcassCorrect == SchedulerSpec => []CarcassReclaimed
  <1>1. SchedulerInv => CarcassReclaimed
    BY DEF SchedulerInv
  <1> QED BY <1>1, SchedulerCorrect, PTL

\* A thread object goes away in CheckToBeDestroyed and nowhere else.
LEMMA OnlyCheckDestroys ==
    ASSUME SchedulerInv, SchedulerNext, NEW t \in Threads,
           status[t] # "NONE", status'[t] = "NONE"
    PROVE  t = toBeDestroyed
  <1>1. /\ status \in [Threads -> Statuses]
        /\ currentThread \in Threads
        /\ readyList # <<>> => Head(readyList) \in Threads
    BY HeadInList DEF SchedulerInv, SchedulerTypeOK
  <1>2. CASE Begin \/ ReturnFromRun
    BY <1>2 DEF Begin, ReturnFromRun, CheckToBeDestroyed
  <1>3. CASE Yield \/ EndTick
    BY <1>1, <1>3 DEF Yield, EndTick, YieldBody, Run
  <1>4. CASE Sleep \/ Finish
    BY <1>1, <1>4 DEF Sleep, Finish, SleepBody, Run
  <1>5. CASE IdleReturn
    BY <1>1, <1>5 DEF IdleReturn, Run
  <1>6. CASE Compute \/ Enable \/ TimerHandler
    BY <1>6 DEF Compute, Enable, TimerHandler
  <1>7. ASSUME NEW u \in Threads, Fork(u) \/ WakeByThread(u) \/ WakeByHandler(u)
        PROVE  t = toBeDestroyed
    BY <1>1, <1>7 DEF Fork, WakeByThread, WakeByHandler, ReadyToRun
  <1> QED BY <1>2, <1>3, <1>4, <1>5, <1>6, <1>7 DEF SchedulerNext

\* Scheduler::CheckToBeDestroyed deletes finished threads only, and never
\* the one whose stack it runs on.
THEOREM DestroyCorrect == SchedulerSpec => OnlyFinishedDestroyed
  <1> DEFINE A == \A t \in Threads :
                    status[t] # "NONE" /\ status'[t] = "NONE"
                        => cont[t] = "finish" /\ t # currentThread
  <1>1. SchedulerInv /\ [SchedulerNext]_schedulerVars => [A]_schedulerVars
    <2> SUFFICES ASSUME SchedulerInv, SchedulerNext PROVE A
      OBVIOUS
    <2> SUFFICES ASSUME NEW t \in Threads,
                        status[t] # "NONE", status'[t] = "NONE"
                 PROVE  cont[t] = "finish" /\ t # currentThread
      OBVIOUS
    <2>1. t = toBeDestroyed
      BY OnlyCheckDestroys
    <2> QED BY <2>1, ThreadsAssumption DEF SchedulerInv, CarcassReclaimed
  <1> QED BY <1>1, SchedulerCorrect, PTL DEF SchedulerSpec, OnlyFinishedDestroyed

-----------------------------------------------------------------------------
(***************************************************************************)
(* Semaphores.                                                             *)
(***************************************************************************)

(***************************************************************************)
(* The pieces P and V are made of, as steps of the scheduler.              *)
(***************************************************************************)

\* The next thread of a queue is one that sleeps there.
LEMMA QueueHead ==
    ASSUME SemTypeOK, QueueExact, NEW s \in Sems, queue[s] # <<>>
    PROVE  /\ Head(queue[s]) \in Threads
           /\ Asleep(Head(queue[s]))
           /\ waitsOn[Head(queue[s])] = s
  <1>1. queue[s] \in Seq(Threads)
    BY DEF SemTypeOK
  <1>2. Head(queue[s]) \in Threads /\ InList(Head(queue[s]), queue[s])
    BY <1>1, HeadInList
  <1> QED BY <1>2 DEF QueueExact

\* P and V are steps of the scheduler or leave it alone.
LEMMA StepUsesScheduler ==
    ASSUME SemTypeOK, QueueExact, WaitsOnMatches, SchedulerTypeOK,
           [Next]_vars
    PROVE  [SchedulerNext]_schedulerVars
  <1>1. CASE SchedulerStep
    BY <1>1 DEF SchedulerStep, SchedulerNext
  <1>2. CASE PAfterSleep
    <2>1. PICK s : s = waitsOn[currentThread]
      OBVIOUS
    <2>2. CASE value[s] = 0
      BY <1>2, <2>1, <2>2 DEF PAfterSleep, PLoop, Sleep, SchedulerNext
    <2>3. CASE value[s] # 0
      BY <1>2, <2>1, <2>3 DEF PAfterSleep, PLoop, Enable, SchedulerNext
    <2> QED BY <2>2, <2>3
  <1>3. ASSUME NEW s \in Sems, P(s)
        PROVE  SchedulerNext
    <2>1. CASE value[s] = 0
      BY <1>3, <2>1 DEF P, PLoop, Sleep, SchedulerNext
    <2>2. CASE value[s] # 0
      BY <1>3, <2>2 DEF P, PLoop, Compute, SchedulerNext
    <2> QED BY <2>1, <2>2
  <1>4. ASSUME NEW s \in Sems, V(s)
        PROVE  SchedulerNext
    <2>1. CASE queue[s] = <<>>
      BY <1>4, <2>1 DEF V, VBody, Compute, SchedulerNext
    <2>2. CASE queue[s] # <<>>
      <3>1. WakeByThread(Head(queue[s]))
        BY <1>4, <2>2, QueueHead DEF V, VBody, WakeByThread, Asleep
      <3> QED BY <2>2, <3>1, QueueHead DEF SchedulerNext
    <2> QED BY <2>1, <2>2
  <1>5. ASSUME NEW s \in DeviceSems, VByHandler(s)
        PROVE  [SchedulerNext]_schedulerVars
    <2>0. s \in Sems
      BY SemsAssumption
    <2>1. CASE queue[s] = <<>>
      BY <1>5, <2>1 DEF VByHandler, VBody, schedulerVars
    <2>2. CASE queue[s] # <<>>
      <3>1. WakeByHandler(Head(queue[s]))
        BY <1>5, <2>0, <2>2, QueueHead DEF VByHandler, VBody, WakeByHandler, Asleep
      <3> QED BY <2>0, <2>2, <3>1, QueueHead DEF SchedulerNext
    <2> QED BY <2>1, <2>2
  <1>6. CASE UNCHANGED vars
    BY <1>6 DEF vars, schedulerVars
  <1> QED BY <1>1, <1>2, <1>3, <1>4, <1>5, <1>6 DEF Next

\* The steps that do not go through a semaphore put nobody to sleep in P and
\* take nobody out of it.
LEMMA SchedulerStepAsleep ==
    ASSUME SchedulerInv, SchedulerStep, NEW t \in Threads
    PROVE  /\ Asleep(t)' <=> Asleep(t)
           /\ InP(t)' <=> InP(t)
  <1>1. /\ status \in [Threads -> Statuses] /\ cont \in [Threads -> Conts]
        /\ currentThread \in Threads
        /\ readyList # <<>> => /\ Head(readyList) \in Threads
                               /\ status[Head(readyList)] = "READY"
        /\ phase # "idle" => status[currentThread] = "RUNNING"
        /\ phase \notin {"idle", "switched"} => cont[currentThread] = "none"
    BY HeadInList DEF SchedulerInv, SchedulerTypeOK, ReadyListExact, OneRunning,
                      ContMatchesStatus
  <1>2. CASE Compute \/ TimerHandler
    BY <1>2 DEF Compute, TimerHandler, Asleep, InP
  <1>3. CASE Yield \/ EndTick
    BY <1>1, <1>3 DEF Yield, EndTick, YieldBody, Run, Asleep, InP
  <1>4. CASE Finish
    BY <1>1, <1>4 DEF Finish, SleepBody, Run, Asleep, InP
  <1>5. CASE IdleReturn
    BY <1>1, <1>5 DEF IdleReturn, Run, Asleep, InP
  <1>6. CASE Begin \/ ReturnFromRun
    <2>1. /\ phase = "switched"
          /\ status' = [u \in Threads |->
                          IF u = toBeDestroyed THEN "NONE" ELSE status[u]]
          /\ cont' = [u \in Threads |->
                        IF u \in {toBeDestroyed, currentThread}
                        THEN "none" ELSE cont[u]]
          /\ currentThread' = currentThread
          /\ phase' = "off" <=> cont[currentThread] \notin {"begin", "yield"}
      BY <1>6 DEF Begin, ReturnFromRun, CheckToBeDestroyed
    <2>2. /\ status[currentThread] = "RUNNING"
          /\ cont[currentThread] \in {"begin", "yield", "sleep"}
          /\ toBeDestroyed \in Threads =>
                cont[toBeDestroyed] = "finish" /\ toBeDestroyed # currentThread
      BY <1>1, <2>1, ThreadsAssumption
         DEF SchedulerInv, ContMatchesStatus, CarcassReclaimed
    <2> QED BY <2>1, <2>2 DEF Asleep, InP
  <1>7. ASSUME NEW u \in Threads, Fork(u)
        PROVE  (Asleep(t)' <=> Asleep(t)) /\ (InP(t)' <=> InP(t))
    BY <1>1, <1>7 DEF Fork, ReadyToRun, Asleep, InP, SchedulerInv, ContMatchesStatus
  <1> QED BY <1>2, <1>3, <1>4, <1>5, <1>6, <1>7 DEF SchedulerStep

-----------------------------------------------------------------------------
(***************************************************************************)
(* The loop of P.                                                          *)
(***************************************************************************)

\* Where P can be: at its call, or behind the Sleep of its loop.
InLoop(s) ==
    \/ phase = "run" /\ waitsOn[currentThread] = NoSem
    \/ phase = "off" /\ waitsOn[currentThread] = s

\* P's Sleep puts the current thread to sleep and touches nobody else.
LEMMA SleepAsleep ==
    ASSUME SchedulerInv, phase \in {"run", "off"}, SleepBody(FALSE),
           NEW t \in Threads
    PROVE  /\ Asleep(t)' <=> (Asleep(t) \/ t = currentThread)
           /\ InP(t)' <=> (InP(t) \/ t = currentThread)
  <1>1. /\ status \in [Threads -> Statuses] /\ cont \in [Threads -> Conts]
        /\ currentThread \in Threads
        /\ status[currentThread] = "RUNNING"
        /\ readyList # <<>> => /\ Head(readyList) \in Threads
                               /\ status[Head(readyList)] = "READY"
    BY HeadInList DEF SchedulerInv, SchedulerTypeOK, ReadyListExact, OneRunning
  <1>2. CASE readyList = <<>>
    BY <1>1, <1>2 DEF SleepBody, Asleep, InP
  <1>3. CASE readyList # <<>>
    BY <1>1, <1>3 DEF SleepBody, Run, Asleep, InP
  <1> QED BY <1>2, <1>3

\* P finds the value zero: it joins the queue.
LEMMA PSleeps ==
    ASSUME SemInv, SchedulerInv', NEW s \in Sems, InLoop(s), value[s] = 0, PLoop(s)
    PROVE  SemInv'
  <1> DEFINE c == currentThread
  <1>1. /\ queue' = [queue EXCEPT ![s] = Append(@, c)]
        /\ waitsOn' = [waitsOn EXCEPT ![c] = s]
        /\ SleepBody(FALSE)
        /\ value' = value
    BY DEF PLoop
  <1>2. /\ c \in Threads /\ phase \in {"run", "off"}
        /\ ~ Asleep(c)
        /\ queue \in [Sems -> Seq(Threads)]
        /\ waitsOn \in [Threads -> Sems \cup {NoSem}]
        /\ NoSem \notin Sems
    BY SemsAssumption
       DEF InLoop, SemInv, SchedulerInv, SchedulerTypeOK, OneRunning, Asleep, SemTypeOK
  <1>3. \A t \in Threads : /\ Asleep(t)' <=> (Asleep(t) \/ t = c)
                           /\ InP(t)' <=> (InP(t) \/ t = c)
    BY <1>1, <1>2, SleepAsleep DEF SemInv
  <1>4. SemTypeOK'
    BY <1>1, <1>2 DEF SemInv, SemTypeOK
  <1>5. WaitsOnMatches'
    BY <1>1, <1>2, <1>3 DEF SemInv, WaitsOnMatches
  <1>6. ~ InList(c, queue[s])
    BY <1>2 DEF SemInv, QueueExact
  <1>7. QueueExact'
    <2>1. ASSUME NEW t \in Threads, NEW r \in Sems
          PROVE  InList(t, queue'[r]) <=> (Asleep(t)' /\ waitsOn'[t] = r)
      <3>1. InList(t, queue[r]) <=> (Asleep(t) /\ waitsOn[t] = r)
        BY DEF SemInv, QueueExact
      <3>2. InList(t, queue'[r]) <=> (InList(t, queue[r]) \/ (t = c /\ r = s))
        <4>1. CASE r = s
          BY <1>1, <1>2, <4>1, InListAppend
        <4>2. CASE r # s
          BY <1>1, <1>2, <4>2
        <4> QED BY <4>1, <4>2
      <3>3. waitsOn'[t] = IF t = c THEN s ELSE waitsOn[t]
        BY <1>1, <1>2
      <3> QED BY <1>2, <1>3, <3>1, <3>2, <3>3
    <2>2. ASSUME NEW r \in Sems
          PROVE  Distinct(queue'[r])
      <3>1. Distinct(queue[r]) /\ queue[r] \in Seq(Threads)
        BY <1>2 DEF SemInv, QueueExact
      <3>2. CASE r = s
        <4>1. Distinct(Append(queue[s], c))
          BY <1>2, <1>6, <3>1, <3>2, DistinctAppend
        <4> QED BY <1>1, <1>2, <3>2, <4>1
      <3>3. CASE r # s
        BY <1>1, <1>2, <3>1, <3>3
      <3> QED BY <3>2, <3>3
    <2> QED BY <2>1, <2>2 DEF QueueExact
  <1>8. NoLostWakeup'
    <2> SUFFICES ASSUME NEW r \in Sems, queue'[r] # <<>>
                 PROVE  Cardinality(Woken(r)') >= value'[r]
      BY DEF NoLostWakeup
    <2>1. IsFiniteSet(Woken(r)') /\ Cardinality(Woken(r)') \in Nat
      BY SemsAssumption, FS_Subset, FS_CardinalityType DEF Woken
    <2>2. CASE r = s
      BY <1>1, <2>1, <2>2
    <2>3. CASE r # s
      <3>1. queue'[r] = queue[r]
        BY <1>1, <1>2, <2>3
      <3>2. \A t \in Threads : waitsOn'[t] = r <=> waitsOn[t] = r
        BY <1>1, <1>2, <2>3 DEF InLoop
      <3>3. Woken(r)' = Woken(r)
        BY <3>1, <3>2 DEF Woken
      <3> QED BY <1>1, <3>1, <3>3 DEF SemInv, NoLostWakeup
    <2> QED BY <2>2, <2>3
  <1> QED BY <1>4, <1>5, <1>7, <1>8 DEF SemInv

\* P finds the value positive: it takes one and returns.
LEMMA PTakes ==
    ASSUME SemInv, SchedulerInv', NEW s \in Sems, InLoop(s), value[s] # 0, PLoop(s)
    PROVE  SemInv'
  <1> DEFINE c == currentThread
  <1>1. /\ value' = [value EXCEPT ![s] = @ - 1]
        /\ waitsOn' = [waitsOn EXCEPT ![c] = NoSem]
        /\ phase' = "tick"
        /\ UNCHANGED <<queue, status, cont, currentThread>>
    BY DEF PLoop
  <1>2. /\ c \in Threads /\ phase \in {"run", "off"}
        /\ status[c] = "RUNNING" /\ cont[c] = "none"
        /\ queue \in [Sems -> Seq(Threads)]
        /\ waitsOn \in [Threads -> Sems \cup {NoSem}]
        /\ value \in [Sems -> 0 .. MaxValue]
        /\ NoSem \notin Sems /\ MaxValue \in Nat
    BY SemsAssumption
       DEF InLoop, SemInv, SchedulerInv, SchedulerTypeOK, OneRunning,
           ContMatchesStatus, SemTypeOK
  <1>3. SemTypeOK'
    BY <1>1, <1>2 DEF SemTypeOK
  <1>4. WaitsOnMatches'
    BY <1>1, <1>2 DEF SemInv, WaitsOnMatches, InP
  <1>5. QueueExact'
    <2>1. \A t \in Threads : Asleep(t)' <=> Asleep(t)
      BY <1>1 DEF Asleep
    <2>2. \A t \in Threads : \A r \in Sems :
             (Asleep(t) /\ waitsOn'[t] = r) <=> (Asleep(t) /\ waitsOn[t] = r)
      BY <1>1, <1>2 DEF Asleep
    <2> QED BY <1>1, <2>1, <2>2 DEF SemInv, QueueExact
  <1>6. NoLostWakeup'
    <2> SUFFICES ASSUME NEW r \in Sems, queue'[r] # <<>>
                 PROVE  Cardinality(Woken(r)') >= value'[r]
      BY DEF NoLostWakeup
    <2>1. IsFiniteSet(Woken(r)) /\ Cardinality(Woken(r)) \in Nat
      BY SemsAssumption, FS_Subset, FS_CardinalityType DEF Woken
    <2>2. Cardinality(Woken(r)) >= value[r]
      BY <1>1 DEF SemInv, NoLostWakeup
    <2>3. CASE r = s
      <3>1. Woken(r)' = Woken(r) \ {c}
        BY <1>1, <1>2, <2>3 DEF Woken
      <3>2. Cardinality(Woken(r) \ {c}) >= Cardinality(Woken(r)) - 1
        <4>1. Cardinality(Woken(r) \ {c}) =
                IF c \in Woken(r) THEN Cardinality(Woken(r)) - 1
                                  ELSE Cardinality(Woken(r))
          BY <2>1, FS_RemoveElement
        <4> QED BY <2>1, <4>1
      <3>3. value'[r] = value[r] - 1 /\ value[r] \in Nat
        BY <1>1, <1>2, <2>3
      <3>4. Cardinality(Woken(r)') \in Nat
        BY <2>1, <3>1, FS_RemoveElement, FS_CardinalityType
      <3> QED BY <2>1, <2>2, <3>1, <3>2, <3>3, <3>4
    <2>4. CASE r # s
      <3>1. \A t \in Threads : waitsOn'[t] = r <=> waitsOn[t] = r
        BY <1>1, <1>2, <2>4 DEF InLoop
      <3>2. Woken(r)' = Woken(r)
        BY <1>1, <3>1 DEF Woken
      <3>3. value'[r] = value[r]
        BY <1>1, <1>2, <2>4
      <3> QED BY <2>2, <3>2, <3>3
    <2> QED BY <2>3, <2>4
  <1> QED BY <1>3, <1>4, <1>5, <1>6 DEF SemInv

-----------------------------------------------------------------------------
(***************************************************************************)
(* V.                                                                      *)
(***************************************************************************)

\* V with nobody in the queue.
LEMMA VEmpty ==
    ASSUME SemInv, SchedulerInv', NEW s \in Sems, queue[s] = <<>>, VBody(s),
           phase \in {"run", "tick", "idle"}, phase' \in {"tick", "idle"}
    PROVE  SemInv'
  <1>1. /\ value' = [value EXCEPT ![s] = @ + 1]
        /\ value[s] < MaxValue
        /\ UNCHANGED <<status, queue, waitsOn, cont, currentThread>>
    BY DEF VBody
  <1>2. value \in [Sems -> 0 .. MaxValue] /\ MaxValue \in Nat
    BY SemsAssumption DEF SemInv, SemTypeOK
  <1>3. SemTypeOK'
    BY <1>1, <1>2 DEF SemInv, SemTypeOK
  <1>4. QueueExact' /\ WaitsOnMatches'
    BY <1>1 DEF SemInv, QueueExact, WaitsOnMatches, Asleep, InP
  <1>5. NoLostWakeup'
    <2> SUFFICES ASSUME NEW r \in Sems, queue'[r] # <<>>
                 PROVE  Cardinality(Woken(r)') >= value'[r]
      BY DEF NoLostWakeup
    <2>1. r # s /\ value'[r] = value[r]
      BY <1>1, <1>2
    <2>2. Woken(r)' = Woken(r)
      BY <1>1 DEF Woken
    <2> QED BY <1>1, <2>1, <2>2 DEF SemInv, NoLostWakeup
  <1> QED BY <1>3, <1>4, <1>5 DEF SemInv

\* V with somebody in the queue: the first of it is woken, and counts among
\* the woken ones from now on.
LEMMA VWakes ==
    ASSUME SemInv, SchedulerInv', NEW s \in Sems, queue[s] # <<>>, VBody(s),
           phase \in {"run", "tick", "idle"}, phase' \in {"tick", "idle"}
    PROVE  SemInv'
  <1> DEFINE h == Head(queue[s])
  <1>1. /\ value' = [value EXCEPT ![s] = @ + 1]
        /\ value[s] < MaxValue
        /\ status' = [status EXCEPT ![h] = "READY"]
        /\ queue' = [queue EXCEPT ![s] = Tail(@)]
        /\ UNCHANGED <<waitsOn, cont, currentThread>>
    BY DEF VBody, ReadyToRun
  <1>2. /\ h \in Threads /\ Asleep(h) /\ waitsOn[h] = s
        /\ InList(h, queue[s])
        /\ queue \in [Sems -> Seq(Threads)]
        /\ value \in [Sems -> 0 .. MaxValue] /\ MaxValue \in Nat
        /\ status \in [Threads -> Statuses]
    BY SemsAssumption, QueueHead
       DEF SemInv, SemTypeOK, SchedulerInv, SchedulerTypeOK, QueueExact
  <1>3. SemTypeOK'
    BY <1>1, <1>2 DEF SemInv, SemTypeOK
  <1>4. WaitsOnMatches'
    BY <1>1 DEF SemInv, WaitsOnMatches, InP
  <1>5. \A t \in Threads : Asleep(t)' <=> (Asleep(t) /\ t # h)
    BY <1>1, <1>2 DEF Asleep
  <1>6. \A t \in Threads : \A r \in Sems :
           InList(t, queue'[r]) <=> (InList(t, queue[r]) /\ ~ (t = h /\ r = s))
    <2> SUFFICES ASSUME NEW t \in Threads, NEW r \in Sems
                 PROVE  InList(t, queue'[r])
                          <=> (InList(t, queue[r]) /\ ~ (t = h /\ r = s))
      OBVIOUS
    <2>1. CASE r = s
      <3>1. queue[s] \in Seq(Threads) /\ Distinct(queue[s])
        BY <1>2 DEF SemInv, QueueExact
      <3> QED BY <1>1, <1>2, <2>1, <3>1, InListTail
    <2>2. CASE r # s
      BY <1>1, <1>2, <2>2
    <2> QED BY <2>1, <2>2
  <1>7. QueueExact'
    <2>1. \A t \in Threads : \A r \in Sems :
             InList(t, queue'[r]) <=> (Asleep(t)' /\ waitsOn'[t] = r)
      BY <1>1, <1>2, <1>5, <1>6 DEF SemInv, QueueExact
    <2>2. ASSUME NEW r \in Sems
          PROVE  Distinct(queue'[r])
      <3>1. queue[r] \in Seq(Threads) /\ Distinct(queue[r])
        BY <1>2 DEF SemInv, QueueExact
      <3>2. CASE r = s
        BY <1>1, <1>2, <3>1, <3>2, DistinctTail
      <3>3. CASE r # s
        BY <1>1, <1>2, <3>1, <3>3
      <3> QED BY <3>2, <3>3
    <2> QED BY <2>1, <2>2 DEF QueueExact
  <1>8. NoLostWakeup'
    <2> SUFFICES ASSUME NEW r \in Sems, queue'[r] # <<>>
                 PROVE  Cardinality(Woken(r)') >= value'[r]
      BY DEF NoLostWakeup
    <2>1. IsFiniteSet(Woken(r)) /\ Cardinality(Woken(r)) \in Nat
      BY SemsAssumption, FS_Subset, FS_CardinalityType DEF Woken
    <2>2. CASE r = s
      <3>1. Cardinality(Woken(s)) >= value[s]
        BY DEF SemInv, NoLostWakeup
      <3>2. Woken(s)' = Woken(s) \cup {h} /\ h \notin Woken(s)
        BY <1>1, <1>2, <1>6 DEF Woken
      <3>3. Cardinality(Woken(s) \cup {h}) = Cardinality(Woken(s)) + 1
        BY <2>1, <2>2, <3>2, FS_AddElement
      <3>4. value'[s] = value[s] + 1 /\ value[s] \in Nat
        BY <1>1, <1>2
      <3> QED BY <2>1, <2>2, <3>1, <3>2, <3>3, <3>4
    <2>3. CASE r # s
      <3>1. queue'[r] = queue[r] /\ value'[r] = value[r]
        BY <1>1, <1>2, <2>3
      <3>2. Woken(r)' = Woken(r)
        BY <1>1, <2>3, <3>1 DEF Woken
      <3> QED BY <3>1, <3>2 DEF SemInv, NoLostWakeup
    <2> QED BY <2>2, <2>3
  <1> QED BY <1>3, <1>4, <1>7, <1>8 DEF SemInv

-----------------------------------------------------------------------------

LEMMA SemInitInv == Init => SemInv
  <1> SUFFICES ASSUME Init PROVE SemInv
    OBVIOUS
  <1> USE SemsAssumption DEF Init
  <1>1. SchedulerInv
    BY InitInv
  <1>2. SemTypeOK
    BY DEF SemTypeOK
  <1>3. QueueExact /\ WaitsOnMatches
    BY ThreadsAssumption
       DEF QueueExact, WaitsOnMatches, InList, Distinct, Asleep, InP, SchedulerInit
  <1>4. NoLostWakeup
    BY DEF NoLostWakeup
  <1> QED BY <1>1, <1>2, <1>3, <1>4 DEF SemInv

LEMMA SemNextInv == SemInv /\ [Next]_vars => SemInv'
  <1> SUFFICES ASSUME SemInv, [Next]_vars PROVE SemInv'
    OBVIOUS
  <1>1. SchedulerInv'
    BY StepUsesScheduler, NextInv DEF SemInv, SchedulerInv
  <1>2. CASE SchedulerStep
    <2>1. \A t \in Threads : /\ Asleep(t)' <=> Asleep(t)
                             /\ InP(t)' <=> InP(t)
      BY <1>2, SchedulerStepAsleep DEF SemInv
    <2>2. UNCHANGED <<value, queue, waitsOn>>
      BY <1>2 DEF SchedulerStep, syncVars
    <2>3. QueueExact' /\ WaitsOnMatches' /\ SemTypeOK'
      BY <2>1, <2>2 DEF SemInv, QueueExact, WaitsOnMatches, SemTypeOK
    <2>4. NoLostWakeup'
      BY <2>2 DEF SemInv, NoLostWakeup, Woken
    <2> QED BY <1>1, <2>3, <2>4 DEF SemInv
  <1>3. CASE PAfterSleep
    <2> DEFINE s == waitsOn[currentThread]
    <2>1. s \in Sems /\ InLoop(s)
      BY <1>3 DEF PAfterSleep, InLoop, SemInv, WaitsOnMatches, InP, SemTypeOK,
                  SchedulerInv, SchedulerTypeOK
    <2>2. PLoop(s)
      BY <1>3 DEF PAfterSleep
    <2> QED BY <1>1, <2>1, <2>2, PSleeps, PTakes
  <1>4. ASSUME NEW s \in Sems, P(s)
        PROVE  SemInv'
    <2>1. InLoop(s)
      BY <1>4 DEF P, InLoop, SemInv, WaitsOnMatches, InP, SchedulerInv,
                  SchedulerTypeOK, OneRunning, ContMatchesStatus
    <2> QED BY <1>1, <1>4, <2>1, PSleeps, PTakes DEF P
  <1>5. ASSUME NEW s \in Sems, V(s)
        PROVE  SemInv'
    BY <1>1, <1>5, VEmpty, VWakes DEF V
  <1>6. ASSUME NEW s \in DeviceSems, VByHandler(s)
        PROVE  SemInv'
    BY <1>1, <1>6, VEmpty, VWakes, SemsAssumption DEF VByHandler
  <1>7. CASE UNCHANGED vars
    BY <1>7 DEF vars, SemInv, SchedulerInv, SchedulerTypeOK, OneRunning,
                ReadyListExact, InList, Distinct, CarcassReclaimed,
                ContMatchesStatus, SemTypeOK, QueueExact, WaitsOnMatches,
                NoLostWakeup, Woken, Asleep, InP
  <1> QED BY <1>2, <1>3, <1>4, <1>5, <1>6, <1>7 DEF Next

\* The inductive invariant holds in every reachable state.
THEOREM SemaphoresCorrect == Spec => []SemInv
  BY SemInitInv, SemNextInv, PTL DEF Spec

\* The assertion !IsInList of List::Append, for the queues of the semaphores,
\* and V readies a thread that sleeps in this P.
THEOREM QueueCorrect == Spec => []QueueExact
  <1>1. SemInv => QueueExact
    BY DEF SemInv
  <1> QED BY <1>1, SemaphoresCorrect, PTL

\* The semaphores use the scheduler as Scheduler describes it, so that what
\* is proved of it holds in a kernel with semaphores.
THEOREM SchedulerUsed == Spec => UsesScheduler
  <1>1. Init => SchedulerInit
    BY DEF Init
  <1>2. SemInv /\ [Next]_vars => [SchedulerNext]_schedulerVars
    BY StepUsesScheduler DEF SemInv, SchedulerInv
  <1> QED BY <1>1, <1>2, SemaphoresCorrect, PTL
          DEF Spec, UsesScheduler, SchedulerSpec

-----------------------------------------------------------------------------
(***************************************************************************)
(* The semaphores implement the abstract ones: a thread waits from its     *)
(* first Sleep in P until it takes the value.                              *)
(***************************************************************************)

WaitingSet == [s \in Sems |-> {t \in Threads : waitsOn[t] = s}]

LEMMA InitRefines == Init => Promise!AbsInit
  BY SemsAssumption DEF Init, Promise!AbsInit

LEMMA NextRefines ==
    ASSUME SemInv, [Next]_vars
    PROVE  [Promise!AbsNext]_(Promise!semVars)
  <1>1. /\ currentThread \in Threads
        /\ waitsOn \in [Threads -> Sems \cup {NoSem}]
        /\ value \in [Sems -> 0 .. MaxValue] /\ MaxValue \in Nat
        /\ NoSem \notin Sems
    BY SemsAssumption DEF SemInv, SchedulerInv, SchedulerTypeOK, SemTypeOK
  <1>2. ASSUME UNCHANGED <<value, waitsOn>>
        PROVE  UNCHANGED Promise!semVars
    BY <1>2 DEF Promise!semVars
  <1>3. ASSUME NEW s \in Sems, VBody(s)
        PROVE  Promise!AbsNext
    BY <1>3 DEF VBody, Promise!AbsNext, Promise!Increment
  <1>4. CASE SchedulerStep \/ UNCHANGED vars
    BY <1>2, <1>4 DEF SchedulerStep, syncVars, vars
  <1>5. CASE PAfterSleep
    <2>0. PICK c \in Threads : c = currentThread
      BY <1>1
    <2>1. PICK s \in Sems : s = waitsOn[c]
      BY <1>1, <1>5, <2>0 DEF PAfterSleep, SemInv, WaitsOnMatches, InP
    <2>2. CASE value[s] = 0
      <3>1. UNCHANGED <<value, waitsOn>>
        BY <1>1, <1>5, <2>0, <2>1, <2>2 DEF PAfterSleep, PLoop
      <3> QED BY <1>2, <3>1
    <2>3. CASE value[s] # 0
      <3>1. /\ value' = [value EXCEPT ![s] = @ - 1]
            /\ waitsOn' = [waitsOn EXCEPT ![c] = NoSem]
        BY <1>5, <2>0, <2>1, <2>3 DEF PAfterSleep, PLoop
      <3>2. WaitingSet' = [WaitingSet EXCEPT ![s] = @ \ {c}]
        BY <1>1, <2>1, <3>1 DEF WaitingSet
      <3>3. Promise!Take(c, s)
        BY <1>1, <2>1, <2>3, <3>1, <3>2 DEF Promise!Take, WaitingSet
      <3> QED BY <3>3 DEF Promise!AbsNext
    <2> QED BY <2>2, <2>3
  <1>6. ASSUME NEW s \in Sems, P(s)
        PROVE  Promise!AbsNext
    <2>0. PICK c \in Threads : c = currentThread
      BY <1>1
    <2>1. waitsOn[c] = NoSem
      BY <1>1, <1>6, <2>0 DEF P, SemInv, WaitsOnMatches, InP, SchedulerInv,
                        OneRunning, ContMatchesStatus
    <2>2. CASE value[s] = 0
      <3>1. waitsOn' = [waitsOn EXCEPT ![c] = s] /\ value' = value
        BY <1>6, <2>0, <2>2 DEF P, PLoop
      <3>2. WaitingSet' = [WaitingSet EXCEPT ![s] = @ \cup {c}]
        BY <1>1, <2>1, <3>1 DEF WaitingSet
      <3>3. Promise!Wait(c, s)
        BY <1>1, <2>1, <2>2, <3>1, <3>2 DEF Promise!Wait, WaitingSet
      <3> QED BY <3>3 DEF Promise!AbsNext
    <2>3. CASE value[s] # 0
      <3>1. /\ value' = [value EXCEPT ![s] = @ - 1]
            /\ waitsOn' = [waitsOn EXCEPT ![c] = NoSem]
        BY <1>6, <2>0, <2>3 DEF P, PLoop
      <3>2. waitsOn' = waitsOn
        BY <1>1, <2>1, <3>1
      <3>3. Promise!TakeAtOnce(s)
        BY <1>1, <2>3, <3>1, <3>2 DEF Promise!TakeAtOnce
      <3> QED BY <3>3 DEF Promise!AbsNext
    <2> QED BY <2>2, <2>3
  <1>7. CASE \E s \in Sems : V(s)
    BY <1>3, <1>7 DEF V
  <1>8. CASE \E s \in DeviceSems : VByHandler(s)
    BY <1>3, <1>8, SemsAssumption DEF VByHandler
  <1> QED BY <1>4, <1>5, <1>6, <1>7, <1>8 DEF Next

\* Semaphore::P and Semaphore::V keep what synch.h promises of them: a P
\* returns only by taking one from a positive value, a V adds one, and
\* nothing else changes the value.
THEOREM SemaphoresImplement == Spec => ImplementsSemaphoreSafety
  BY InitRefines, NextRefines, SemaphoresCorrect, PTL
     DEF Spec, ImplementsSemaphoreSafety, Promise!AbsSafety

=============================================================================
