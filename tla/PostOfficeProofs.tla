-------------------------- MODULE PostOfficeProofs --------------------------
(***************************************************************************)
(* Proofs about PostOffice, for any machines, threads, mailboxes and       *)
(* letters and any bound on the mail: PostOfficeInv holds, and the post    *)
(* office implements AbstractPost.  The count in the invariant is first    *)
(* brought to a form without Cardinality.                                  *)
(***************************************************************************)
EXTENDS PostOffice, FiniteSetTheorems, TLAPS

Holding == {"locked", "handed", "over"}

InP(h) == sendLock[h] # NoThread /\ place[sendLock[h]] = "handed"

\* The sendLock of a host has the one thread of it that is past its Acquire,
\* and there is an interrupt or an increment for it exactly while it is in P:
\* what OneSendAtATime counts.
OutputInStep ==
    /\ \A t \in Threads : place[t] \in Holding <=> sendLock[Host[t]] = t
    /\ \A h \in Hosts :
         /\ sendLock[h] # NoThread => Host[sendLock[h]] = h
         /\ InP(h) => IF sending[h] THEN sent[h] = 0 ELSE sent[h] = 1
         /\ ~ InP(h) => ~sending[h] /\ sent[h] = 0

CoreInv ==
    /\ TypeOK
    /\ WorkerInStep
    /\ OutputInStep
    /\ ClientsMatch

LEMMA CoreIsInv == CoreInv => PostOfficeInv
  <1> SUFFICES ASSUME CoreInv PROVE OneSendAtATime
    BY DEF CoreInv, PostOfficeInv
  <1> SUFFICES ASSUME NEW h \in Hosts
      PROVE  LET Busy == {t \in Threads : Host[t] = h
                                          /\ place[t] \in {"locked", "handed", "over"}}
             IN  /\ Busy = IF sendLock[h] = NoThread THEN {} ELSE {sendLock[h]}
                 /\ (IF sending[h] THEN 1 ELSE 0) + sent[h]
                      = Cardinality({t \in Busy : place[t] = "handed"})
    BY DEF OneSendAtATime
  <1> DEFINE Busy == {t \in Threads : Host[t] = h
                                      /\ place[t] \in {"locked", "handed", "over"}}
             Handed == {t \in Busy : place[t] = "handed"}
  <1>1. Busy = IF sendLock[h] = NoThread THEN {} ELSE {sendLock[h]}
    BY PostOfficeAssumption DEF CoreInv, TypeOK, OutputInStep, Holding
  <1>2. Handed = IF InP(h) THEN {sendLock[h]} ELSE {}
    <2> HIDE DEF Busy
    <2> QED BY <1>1 DEF InP
  <1>3. Cardinality({}) = 0 /\ Cardinality({sendLock[h]}) = 1
    BY FS_EmptySet, FS_Singleton
  <1>4. Cardinality(Handed) = IF InP(h) THEN 1 ELSE 0
    <2> HIDE DEF Handed
    <2> QED BY <1>2, <1>3
  <1>5. (IF sending[h] THEN 1 ELSE 0) + sent[h] = IF InP(h) THEN 1 ELSE 0
    BY DEF CoreInv, OutputInStep
  <1> QED BY <1>1, <1>4, <1>5

LEMMA InitInv == Init => CoreInv
  <1> SUFFICES ASSUME Init PROVE CoreInv
    OBVIOUS
  <1> USE PostOfficeAssumption DEF Init
  <1>1. TypeOK
    BY DEF TypeOK, Places
  <1>2. WorkerInStep /\ ClientsMatch
    BY DEF WorkerInStep, ClientsMatch
  <1>3. OutputInStep
    BY DEF OutputInStep, Holding, InP
  <1> QED BY <1>1, <1>2, <1>3 DEF CoreInv

-----------------------------------------------------------------------------
(***************************************************************************)
(* Send touches the input side only where it gives a packet to the network; *)
(* the network's interrupt and the worker do not touch the output side.    *)
(***************************************************************************)

\* A thread that neither leaves nor enters the places behind its Acquire.
LEMMA PlaceOutside ==
    ASSUME OutputInStep, NEW t \in Threads, place[t] \notin Holding,
           NEW p, p \notin Holding,
           \A u \in Threads : place'[u] = IF u = t THEN p ELSE place[u],
           UNCHANGED <<sendLock, sending, sent>>, TypeOK
    PROVE  OutputInStep'
  <1>1. \A u \in Threads : place'[u] \in Holding <=> sendLock'[Host[u]] = u
    BY DEF OutputInStep
  <1>2. \A h \in Hosts : sendLock[h] # NoThread => sendLock[h] \in Threads
    BY DEF TypeOK
  <1>3. \A h \in Hosts : InP(h)' <=> InP(h)
    BY <1>2 DEF InP, Holding
  <1> QED BY <1>1, <1>3 DEF OutputInStep

\* Send and Receive, called and waiting for the lock.
LEMMA CallInv ==
    ASSUME CoreInv, NEW t \in Threads,
           \/ \E m \in Mail : Send(t, m)
           \/ \E b \in Boxes : Receive(t, b)
    PROVE  CoreInv'
  <1> USE PostOfficeAssumption DEF Send, Receive, Goes, input, output, CoreInv
  <1>1. TypeOK'
    <2>1. /\ place' \in [Threads -> Places]
          /\ posting' \in [Threads -> Mail \cup {None}]
          /\ from' \in [Threads -> Boxes \cup {None}]
      <3>1. PICK p \in {"send", "wait"} : place' = [place EXCEPT ![t] = p]
        OBVIOUS
      <3>2. place' \in [Threads -> Places]
        BY <3>1 DEF TypeOK, Places
      <3> USE DEF TypeOK
      <3>3. CASE \E m \in Mail : Send(t, m)
        BY <3>2, <3>3
      <3>4. CASE \E b \in Boxes : Receive(t, b)
        BY <3>2, <3>4
      <3> QED BY <3>3, <3>4
    <2>2. TypeOK
      OBVIOUS
    <2> QED BY <2>1, <2>2 DEF TypeOK
  <1>2. WorkerInStep'
    BY DEF WorkerInStep
  <1>3. OutputInStep'
    <2>1. PICK p \in {"send", "wait"} :
            \A u \in Threads : place'[u] = IF u = t THEN p ELSE place[u]
      BY DEF TypeOK
    <2>2. place[t] = "none" /\ UNCHANGED <<sendLock, sending, sent>>
      OBVIOUS
    <2>3. place[t] \notin Holding /\ p \notin Holding /\ TypeOK /\ OutputInStep
      BY <2>1, <2>2 DEF Holding
    <2> QED BY <2>1, <2>2, <2>3, PlaceOutside
  <1>4. ClientsMatch'
    <2> USE DEF ClientsMatch, TypeOK
    <2>1. ASSUME NEW m \in Mail, Send(t, m) PROVE ClientsMatch'
      BY <2>1
    <2>2. ASSUME NEW b \in Boxes, Receive(t, b) PROVE ClientsMatch'
      BY <2>2
    <2> QED BY <2>1, <2>2
  <1> QED BY <1>1, <1>2, <1>3, <1>4

LEMMA SendAcquiresInv ==
    ASSUME CoreInv, NEW t \in Threads, SendAcquires(t)
    PROVE  CoreInv'
  <1> USE PostOfficeAssumption DEF SendAcquires, Goes, input, CoreInv
  <1>1. TypeOK'
    BY DEF TypeOK, Places
  <1>2. WorkerInStep'
    BY DEF WorkerInStep
  <1>3. OutputInStep'
    <2>1. /\ \A u \in Threads : place'[u] = IF u = t THEN "locked" ELSE place[u]
          /\ \A h \in Hosts : sendLock'[h] = IF h = Host[t] THEN t ELSE sendLock[h]
      BY DEF TypeOK
    <2>2. sendLock[Host[t]] = NoThread /\ t # NoThread /\ Host[t] \in Hosts
          /\ place[t] = "send"
      OBVIOUS
    <2>3. \A u \in Threads : place'[u] \in Holding <=> sendLock'[Host[u]] = u
      BY <2>1, <2>2 DEF OutputInStep, Holding
    <2>4. \A h \in Hosts : InP(h)' <=> InP(h)
      BY <2>1, <2>2 DEF OutputInStep, InP
    <2>5. \A h \in Hosts : sendLock'[h] # NoThread => Host[sendLock'[h]] = h
      BY <2>1 DEF OutputInStep
    <2> QED BY <2>3, <2>4, <2>5 DEF OutputInStep
  <1>4. ClientsMatch'
    BY DEF ClientsMatch, TypeOK
  <1> QED BY <1>1, <1>2, <1>3, <1>4

\* Only the holder of the sendLock gives a packet to the network, while no
\* interrupt is scheduled and no increment is left: the ASSERT of
\* NetworkOutput::Send, which sendBusy does not ensure.
LEMMA NetworkIdle ==
    ASSUME CoreInv, NEW t \in Threads, place[t] = "locked"
    PROVE  /\ sendLock[Host[t]] = t
           /\ ~sending[Host[t]] /\ sent[Host[t]] = 0
           /\ posting[t] \in Mail /\ posting[t].to \in Hosts
  <1>1. sendLock[Host[t]] = t /\ Host[t] \in Hosts
    BY PostOfficeAssumption DEF CoreInv, OutputInStep, Holding
  <1>2. ~ InP(Host[t])
    BY <1>1 DEF InP
  <1>3. posting[t] \in Mail
    BY DEF CoreInv, ClientsMatch, TypeOK
  <1>4. posting[t].to \in Hosts
    BY <1>3 DEF Mail
  <1> QED BY <1>1, <1>2, <1>3, <1>4 DEF CoreInv, OutputInStep

LEMMA NetworkSendInv ==
    ASSUME CoreInv, NEW t \in Threads, NetworkSend(t)
    PROVE  CoreInv'
  <1> USE PostOfficeAssumption DEF NetworkSend, Goes, CoreInv
  <1>1. /\ sendLock[Host[t]] = t
        /\ ~sending[Host[t]] /\ sent[Host[t]] = 0
        /\ posting[t] \in Mail /\ posting[t].to \in Hosts
    BY NetworkIdle
  <1>2. TypeOK'
    <2>1. wire' \in [Hosts -> Seq(Mail)]
      <3>1. wire \in [Hosts -> Seq(Mail)]
        BY DEF TypeOK
      <3>2. Append(wire[posting[t].to], posting[t]) \in Seq(Mail)
        BY <1>1, <3>1
      <3> QED BY <1>1, <3>1, <3>2
    <2> QED BY <2>1 DEF TypeOK, Places
  <1>3. WorkerInStep'
    BY DEF WorkerInStep
  <1>4. OutputInStep'
    <2>1. /\ \A u \in Threads : place'[u] = IF u = t THEN "handed" ELSE place[u]
          /\ \A h \in Hosts : sending'[h] = IF h = Host[t] THEN TRUE ELSE sending[h]
          /\ place[t] = "locked" /\ UNCHANGED <<sendLock, sent>>
          /\ \A h \in Hosts : sendLock[h] \in Threads \cup {NoThread}
          /\ Host[t] \in Hosts
      BY DEF TypeOK
    <2>2. \A u \in Threads : place'[u] \in Holding <=> place[u] \in Holding
      BY <2>1 DEF Holding
    <2>3. \A h \in Hosts : sendLock[h] = t <=> h = Host[t]
      BY <1>1, <2>1 DEF OutputInStep
    <2>4. \A h \in Hosts : InP(h)' <=> InP(h) \/ h = Host[t]
      BY <2>1, <2>3 DEF InP
    <2>5. \A u \in Threads : place'[u] \in Holding <=> sendLock'[Host[u]] = u
      BY <2>1, <2>2 DEF OutputInStep
    <2>6. ASSUME NEW h \in Hosts
          PROVE  /\ sendLock'[h] # NoThread => Host[sendLock'[h]] = h
                 /\ InP(h)' => IF sending'[h] THEN sent'[h] = 0 ELSE sent'[h] = 1
                 /\ ~ InP(h)' => ~sending'[h] /\ sent'[h] = 0
      BY <1>1, <2>1, <2>4 DEF OutputInStep
    <2> QED BY <2>5, <2>6 DEF OutputInStep
  <1>5. ClientsMatch'
    BY DEF ClientsMatch, TypeOK
  <1> QED BY <1>2, <1>3, <1>4, <1>5

LEMMA SendInterruptInv ==
    ASSUME CoreInv, NEW h \in Hosts, SendInterrupt(h)
    PROVE  CoreInv'
  <1> USE DEF SendInterrupt, input, client, CoreInv
  <1>1. InP(h) /\ sent[h] = 0
    BY DEF OutputInStep
  <1>2. TypeOK'
    BY DEF TypeOK
  <1>3. WorkerInStep'
    BY DEF WorkerInStep
  <1>4. OutputInStep'
    BY <1>1 DEF OutputInStep, TypeOK, InP
  <1>5. ClientsMatch'
    BY DEF ClientsMatch
  <1> QED BY <1>2, <1>3, <1>4, <1>5

\* The increment that P takes is the only one, and no other thread of the
\* host is there to take it.
LEMMA SendReturnsFromPInv ==
    ASSUME CoreInv, NEW t \in Threads, SendReturnsFromP(t)
    PROVE  CoreInv'
  <1> USE PostOfficeAssumption DEF SendReturnsFromP, Goes, input, CoreInv
  <1>1. sendLock[Host[t]] = t /\ Host[t] \in Hosts /\ InP(Host[t])
    <2>1. sendLock[Host[t]] = t /\ Host[t] \in Hosts
      BY DEF OutputInStep, Holding
    <2> QED BY <2>1 DEF InP
  <1>2. sent[Host[t]] = 1 /\ ~sending[Host[t]]
    BY <1>1 DEF OutputInStep
  <1>3. sent' \in [Hosts -> Nat] /\ sent'[Host[t]] = 0
    BY <1>1, <1>2 DEF TypeOK
  <1>4. TypeOK'
    BY <1>3 DEF TypeOK, Places
  <1>5. WorkerInStep'
    BY DEF WorkerInStep
  <1>6. OutputInStep'
    BY <1>1, <1>2, <1>3 DEF OutputInStep, TypeOK, Holding, InP
  <1>7. ClientsMatch'
    BY DEF ClientsMatch, TypeOK
  <1> QED BY <1>4, <1>5, <1>6, <1>7

LEMMA SendReturnsInv ==
    ASSUME CoreInv, NEW t \in Threads, SendReturns(t)
    PROVE  CoreInv'
  <1> USE PostOfficeAssumption DEF SendReturns, Goes, input, CoreInv
  <1>1. TypeOK'
    BY DEF TypeOK, Places
  <1>2. WorkerInStep'
    BY DEF WorkerInStep
  <1>3. OutputInStep'
    <2>1. sendLock[Host[t]] = t /\ Host[t] \in Hosts /\ ~ InP(Host[t])
      BY DEF OutputInStep, Holding, InP
    <2>2. /\ \A u \in Threads : place'[u] = IF u = t THEN "none" ELSE place[u]
          /\ \A h \in Hosts :
               sendLock'[h] = IF h = Host[t] THEN NoThread ELSE sendLock[h]
      BY DEF TypeOK
    <2>3. \A u \in Threads : place'[u] \in Holding <=> sendLock'[Host[u]] = u
      BY <2>1, <2>2 DEF OutputInStep, Holding
    <2>4. \A h \in Hosts : InP(h)' <=> InP(h)
      BY <2>1, <2>2 DEF OutputInStep, InP
    <2>5. \A h \in Hosts : sendLock'[h] # NoThread => Host[sendLock'[h]] = h
      BY <2>2 DEF OutputInStep
    <2> QED BY <2>3, <2>4, <2>5 DEF OutputInStep
  <1>4. ClientsMatch'
    BY DEF ClientsMatch, TypeOK
  <1> QED BY <1>1, <1>2, <1>3, <1>4

-----------------------------------------------------------------------------
(* The network's interrupt, the worker and Receive.                        *)

\* What those steps have in common.
LEMMA InputInv ==
    ASSUME CoreInv, UNCHANGED <<output, client>>, TypeOK', WorkerInStep'
    PROVE  CoreInv'
  BY DEF output, client, CoreInv, OutputInStep, InP, ClientsMatch

LEMMA RecvInterruptInv ==
    ASSUME CoreInv, NEW h \in Hosts, RecvInterrupt(h)
    PROVE  CoreInv'
  <1> USE PostOfficeAssumption DEF RecvInterrupt, CoreInv
  <1>1. wire[h] \in Seq(Mail) /\ available[h] = 0 /\ worker[h] # "awake"
    BY DEF TypeOK, WorkerInStep
  <1>2. Head(wire[h]) \in Mail /\ Tail(wire[h]) \in Seq(Mail)
    BY <1>1
  <1>3. TypeOK'
    BY <1>2 DEF TypeOK, output, client
  <1>4. WorkerInStep'
    <2>1. available'[h] = 1 /\ inbox'[h] # None
      BY <1>1, <1>2 DEF TypeOK
    <2>2. \A k \in Hosts \ {h} : available'[k] = available[k] /\ inbox'[k] = inbox[k]
      BY DEF TypeOK
    <2> QED BY <1>1, <2>1, <2>2 DEF WorkerInStep
  <1> QED BY <1>3, <1>4, InputInv

LEMMA WorkerWakesInv ==
    ASSUME CoreInv, NEW h \in Hosts, WorkerWakes(h)
    PROVE  CoreInv'
  <1> USE DEF WorkerWakes, CoreInv
  <1>1. available[h] = 1 /\ inbox[h] # None
    <2>1. available[h] + 0 = IF inbox[h] = None THEN 0 ELSE 1
      BY DEF WorkerInStep
    <2>2. available[h] \in Nat /\ available[h] > 0
      BY DEF TypeOK
    <2> QED BY <2>1, <2>2
  <1>2. TypeOK'
    BY <1>1 DEF TypeOK, output, client
  <1>3. WorkerInStep'
    BY <1>1 DEF TypeOK, WorkerInStep
  <1> QED BY <1>2, <1>3, InputInv

LEMMA WorkerReceivesInv ==
    ASSUME CoreInv, NEW h \in Hosts, WorkerReceives(h)
    PROVE  CoreInv'
  <1> USE DEF WorkerReceives, CoreInv
  <1>1. available[h] = 0 /\ inbox[h] # None
    BY DEF TypeOK, WorkerInStep
  <1>2. TypeOK'
    BY <1>1 DEF TypeOK, output, client
  <1>3. WorkerInStep'
    BY <1>1 DEF TypeOK, WorkerInStep
  <1> QED BY <1>2, <1>3, InputInv

LEMMA WorkerDeliversInv ==
    ASSUME CoreInv, NEW h \in Hosts, WorkerDelivers(h)
    PROVE  CoreInv'
  <1> USE DEF WorkerDelivers, CoreInv
  <1>1. mail[h] \in Mail
    BY DEF TypeOK, WorkerInStep
  <1>2. mail[h].box \in Boxes /\ mail[h].letter \in Letters
    BY <1>1 DEF Mail
  <1>3. boxes' \in [Hosts -> [Boxes -> Seq(Letters)]]
    BY <1>2 DEF TypeOK
  <1>4. TypeOK'
    BY <1>3 DEF TypeOK, output, client
  <1>5. WorkerInStep'
    BY <1>1 DEF TypeOK, WorkerInStep
  <1> QED BY <1>4, <1>5, InputInv

LEMMA ReceiveReturnsInv ==
    ASSUME CoreInv, NEW t \in Threads, ReceiveReturns(t)
    PROVE  CoreInv'
  <1> USE PostOfficeAssumption DEF ReceiveReturns, Goes, output, CoreInv
  <1>1. from[t] \in Boxes /\ Host[t] \in Hosts
    BY DEF ClientsMatch, TypeOK
  <1>2. boxes' \in [Hosts -> [Boxes -> Seq(Letters)]]
    BY <1>1 DEF TypeOK
  <1>3. TypeOK'
    BY <1>2 DEF TypeOK, Places
  <1>4. WorkerInStep'
    BY DEF WorkerInStep
  <1>5. OutputInStep'
    BY DEF OutputInStep, TypeOK, Holding, InP
  <1>6. ClientsMatch'
    BY DEF ClientsMatch, TypeOK
  <1> QED BY <1>3, <1>4, <1>5, <1>6

-----------------------------------------------------------------------------
LEMMA NextInv == CoreInv /\ [Next]_vars => CoreInv'
  <1> SUFFICES ASSUME CoreInv, [Next]_vars PROVE CoreInv'
    OBVIOUS
  <1>1. CASE UNCHANGED vars
    BY <1>1 DEF vars, input, output, client, CoreInv, TypeOK, WorkerInStep,
                OutputInStep, InP, ClientsMatch
  <1>2. CASE Next
    BY <1>2, CallInv, SendAcquiresInv, NetworkSendInv, SendInterruptInv,
       SendReturnsFromPInv, SendReturnsInv, RecvInterruptInv, WorkerWakesInv,
       WorkerReceivesInv, WorkerDeliversInv, ReceiveReturnsInv
       DEF Next, Inside, Worker
  <1> QED BY <1>1, <1>2

LEMMA CoreCorrect == Spec => []CoreInv
  BY InitInv, NextInv, PTL DEF Spec

\* Every packet in the one-packet buffer has exactly one V or the worker past
\* its P, so that none is overwritten and the worker never fetches from an
\* empty buffer (network.cc:66, post.cc:200); one message of a host is on its
\* way to the network, with one wake-up for its Send (network.cc:165).
THEOREM PostOfficeCorrect == Spec => []PostOfficeInv
  BY CoreCorrect, CoreIsInv, PTL

-----------------------------------------------------------------------------
(* The refinement.                                                         *)

Flight == [h \in Hosts |-> Pipeline(h)]

\* A packet goes in at the end of the pipeline, from its part in the socket to
\* the buffer and on to the worker without any change, and out at its front.
LEMMA PipelineMoves ==
    ASSUME NEW a \in Mail \cup {None}, NEW b \in Mail \cup {None}, NEW w \in Seq(Mail)
    PROVE  /\ \A m \in Mail :
                One(a) \o One(b) \o Append(w, m) = Append(One(a) \o One(b) \o w, m)
           /\ b = None /\ w # <<>> =>
                One(a) \o One(Head(w)) \o Tail(w) = One(a) \o One(b) \o w
           /\ a = None => One(b) \o One(None) \o w = One(a) \o One(b) \o w
           /\ a # None => /\ One(a) \o One(b) \o w # <<>>
                          /\ Head(One(a) \o One(b) \o w) = a
                          /\ Tail(One(a) \o One(b) \o w) = One(None) \o One(b) \o w
  <1>1. None \notin Mail
    BY PostOfficeAssumption
  <1>2. /\ One(a) \in Seq(Mail) /\ One(b) \in Seq(Mail)
        /\ One(None) = <<>>
        /\ \A m \in Mail : One(m) = <<m>>
    BY <1>1 DEF One
  <1> HIDE DEF One
  <1>3. ASSUME NEW m \in Mail
        PROVE  One(a) \o One(b) \o Append(w, m) = Append(One(a) \o One(b) \o w, m)
    BY <1>2
  <1>4. ASSUME b = None, w # <<>>
        PROVE  One(a) \o One(Head(w)) \o Tail(w) = One(a) \o One(b) \o w
    <2>1. Head(w) \in Mail /\ Tail(w) \in Seq(Mail) /\ <<Head(w)>> \o Tail(w) = w
      BY <1>4
    <2>2. One(b) = <<>> /\ One(Head(w)) = <<Head(w)>>
      BY <1>2, <1>4, <2>1
    <2>3. One(a) \o <<Head(w)>> \o Tail(w) = One(a) \o (<<Head(w)>> \o Tail(w))
      BY <1>2, <2>1
    <2>4. One(a) \o One(Head(w)) \o Tail(w) = One(a) \o w
      BY <2>1, <2>2, <2>3
    <2>5. One(a) \o One(b) \o w = One(a) \o w
      BY <1>2, <2>2
    <2> QED BY <2>4, <2>5
  <1>5. ASSUME a = None
        PROVE  One(b) \o One(None) \o w = One(a) \o One(b) \o w
    BY <1>2, <1>5
  <1>6. ASSUME a # None
        PROVE  /\ One(a) \o One(b) \o w # <<>>
               /\ Head(One(a) \o One(b) \o w) = a
               /\ Tail(One(a) \o One(b) \o w) = One(None) \o One(b) \o w
    <2> DEFINE rest == One(b) \o w
    <2>1. rest \in Seq(Mail) /\ One(a) = <<a>> /\ a \in Mail
      BY <1>2, <1>6
    <2>2. One(a) \o One(b) \o w = <<a>> \o rest /\ One(None) \o One(b) \o w = rest
      BY <1>2, <2>1
    <2> HIDE DEF rest
    <2>3. <<a>> \o rest # <<>> /\ Head(<<a>> \o rest) = a /\ Tail(<<a>> \o rest) = rest
      BY <2>1
    <2> QED BY <2>2, <2>3
  <1> QED BY <1>3, <1>4, <1>5, <1>6

\* The parts of the pipeline of a host have their types.
LEMMA Parts ==
    ASSUME CoreInv, NEW h \in Hosts
    PROVE  /\ mail[h] \in Mail \cup {None} /\ inbox[h] \in Mail \cup {None}
           /\ wire[h] \in Seq(Mail)
           /\ Flight[h] = One(mail[h]) \o One(inbox[h]) \o wire[h]
  BY DEF CoreInv, TypeOK, Flight, Pipeline

\* A packet that is not lost comes behind those on their way to its host.
LEMMA NetworkSendRefines ==
    ASSUME CoreInv, NEW t \in Threads, NetworkSend(t)
    PROVE  Promise!Leave(t)
  <1> DEFINE m == posting[t]
  <1>1. m \in Mail /\ m.to \in Hosts /\ m # None
    BY NetworkIdle, PostOfficeAssumption DEF NetworkSend
  <1>2. /\ UNCHANGED <<inbox, mail, boxes>>
        /\ posting' = [posting EXCEPT ![t] = None]
        /\ wire' = wire \/ wire' = [wire EXCEPT ![m.to] = Append(@, m)]
    BY DEF NetworkSend
  <1> HIDE DEF m
  <1>3. CASE wire' = wire
    <2>1. Flight' = Flight
      BY <1>2, <1>3 DEF Flight, Pipeline
    <2> QED BY <1>1, <1>2, <2>1 DEF Promise!Leave, Flight, m
  <1>4. CASE wire' = [wire EXCEPT ![m.to] = Append(@, m)]
    <2>1. \A h \in Hosts :
            Flight'[h] = IF h = m.to THEN Append(Flight[h], m) ELSE Flight[h]
      <3> SUFFICES ASSUME NEW h \in Hosts
                   PROVE  Pipeline(h)' = IF h = m.to THEN Append(Flight[h], m)
                                                     ELSE Flight[h]
        BY DEF Flight
      <3>1. wire'[h] = IF h = m.to THEN Append(wire[h], m) ELSE wire[h]
        BY <1>1, <1>4 DEF CoreInv, TypeOK
      <3>2. Pipeline(h)' = One(mail[h]) \o One(inbox[h]) \o wire'[h]
        BY <1>2 DEF Pipeline, One
      <3>3. One(mail[h]) \o One(inbox[h]) \o Append(wire[h], m)
              = Append(One(mail[h]) \o One(inbox[h]) \o wire[h], m)
        <4>1. /\ mail[h] \in Mail \cup {None} /\ inbox[h] \in Mail \cup {None}
              /\ wire[h] \in Seq(Mail)
          BY Parts
        <4> QED BY <1>1, <4>1, PipelineMoves
      <3> QED BY <3>1, <3>2, <3>3, Parts
    <2>2. Flight' = [Flight EXCEPT ![m.to] = Append(@, m)]
      BY <1>1, <2>1 DEF Flight
    <2> QED BY <1>1, <1>2, <2>2 DEF Promise!Leave, Flight, m
  <1> QED BY <1>2, <1>3, <1>4

\* The network's interrupt and the worker's Receive move the first packet on.
LEMMA MovesOn ==
    ASSUME CoreInv, NEW h \in Hosts, RecvInterrupt(h) \/ WorkerReceives(h)
    PROVE  UNCHANGED Promise!postVars
  <1>1. UNCHANGED <<boxes, posting>>
    BY DEF RecvInterrupt, WorkerReceives, client
  <1>2. Pipeline(h)' = Pipeline(h)
    <2>1. CASE RecvInterrupt(h)
      <3>1. /\ mail'[h] = mail[h] /\ inbox'[h] = Head(wire[h])
            /\ wire'[h] = Tail(wire[h]) /\ inbox[h] = None /\ wire[h] # <<>>
        <4>1. /\ inbox' = [inbox EXCEPT ![h] = Head(wire[h])]
              /\ wire' = [wire EXCEPT ![h] = Tail(wire[h])]
              /\ mail' = mail /\ inbox[h] = None /\ wire[h] # <<>>
          BY <2>1 DEF RecvInterrupt
        <4>2. DOMAIN inbox = Hosts /\ DOMAIN wire = Hosts
          BY DEF CoreInv, TypeOK
        <4> QED BY <4>1, <4>2, Zenon
      <3>2. Pipeline(h)' = One(mail'[h]) \o One(inbox'[h]) \o wire'[h]
        BY DEF Pipeline, One
      <3>3. /\ mail[h] \in Mail \cup {None} /\ inbox[h] \in Mail \cup {None}
            /\ wire[h] \in Seq(Mail)
        BY Parts
      <3>4. One(mail[h]) \o One(Head(wire[h])) \o Tail(wire[h])
              = One(mail[h]) \o One(inbox[h]) \o wire[h]
        <4> DEFINE a == mail[h]
                   b == inbox[h]
                   w == wire[h]
        <4>1. /\ a \in Mail \cup {None} /\ b \in Mail \cup {None}
              /\ w \in Seq(Mail) /\ b = None /\ w # <<>>
          BY <3>1, <3>3
        <4> HIDE DEF a, b, w
        <4>2. One(a) \o One(Head(w)) \o Tail(w) = One(a) \o One(b) \o w
          BY <4>1, PipelineMoves
        <4> QED BY <4>2 DEF a, b, w
      <3> QED BY <3>1, <3>2, <3>4 DEF Pipeline
    <2>2. CASE WorkerReceives(h)
      <3>1. /\ mail'[h] = inbox[h] /\ inbox'[h] = None /\ wire'[h] = wire[h]
            /\ mail[h] = None
        BY <2>2 DEF WorkerReceives, CoreInv, TypeOK, WorkerInStep
      <3>2. Pipeline(h)' = One(mail'[h]) \o One(inbox'[h]) \o wire'[h]
        BY DEF Pipeline, One
      <3>3. /\ mail[h] \in Mail \cup {None} /\ inbox[h] \in Mail \cup {None}
            /\ wire[h] \in Seq(Mail)
        BY Parts
      <3>4. One(inbox[h]) \o One(None) \o wire[h]
              = One(mail[h]) \o One(inbox[h]) \o wire[h]
        BY <3>1, <3>3, PipelineMoves
      <3> QED BY <3>1, <3>2, <3>4 DEF Pipeline
    <2> QED BY <2>1, <2>2
  <1>3. \A k \in Hosts \ {h} : Pipeline(k)' = Pipeline(k)
    BY DEF RecvInterrupt, WorkerReceives, CoreInv, TypeOK, Pipeline, One
  <1>4. Flight' = Flight
    BY <1>2, <1>3 DEF Flight
  <1> QED BY <1>1, <1>4 DEF Promise!postVars, Flight

\* The worker puts the oldest packet into its mailbox.
LEMMA WorkerDeliversRefines ==
    ASSUME CoreInv, NEW h \in Hosts, WorkerDelivers(h)
    PROVE  Promise!Arrive(h)
  <1>1. /\ mail[h] # None /\ mail'[h] = None
        /\ UNCHANGED <<inbox, wire, posting>>
        /\ boxes' = [boxes EXCEPT ![h][mail[h].box] = Append(@, mail[h].letter)]
    BY DEF WorkerDelivers, client, CoreInv, TypeOK, WorkerInStep
  <1>2. /\ Flight[h] # <<>> /\ Head(Flight[h]) = mail[h]
        /\ Pipeline(h)' = Tail(Flight[h])
    <2>1. /\ mail[h] \in Mail \cup {None} /\ inbox[h] \in Mail \cup {None}
          /\ wire[h] \in Seq(Mail)
          /\ Flight[h] = One(mail[h]) \o One(inbox[h]) \o wire[h]
      BY Parts
    <2>2. Pipeline(h)' = One(None) \o One(inbox[h]) \o wire[h]
      BY <1>1 DEF Pipeline, One
    <2>3. /\ One(mail[h]) \o One(inbox[h]) \o wire[h] # <<>>
          /\ Head(One(mail[h]) \o One(inbox[h]) \o wire[h]) = mail[h]
          /\ Tail(One(mail[h]) \o One(inbox[h]) \o wire[h])
               = One(None) \o One(inbox[h]) \o wire[h]
      BY <1>1, <2>1, PipelineMoves
    <2> QED BY <2>1, <2>2, <2>3
  <1>3. \A k \in Hosts \ {h} : Pipeline(k)' = Pipeline(k)
    BY <1>1 DEF WorkerDelivers, CoreInv, TypeOK, Pipeline, One
  <1>4. Flight' = [Flight EXCEPT ![h] = Tail(@)]
    BY <1>2, <1>3 DEF Flight
  <1> QED BY <1>1, <1>2, <1>4 DEF Promise!Arrive, Flight

LEMMA SendRefines ==
    ASSUME CoreInv, NEW t \in Threads, NEW m \in Mail, Send(t, m)
    PROVE  Promise!Post(t, m)
  <1>1. posting[t] = None
    BY DEF CoreInv, ClientsMatch, Send
  <1> QED BY <1>1 DEF Send, input, Promise!Post, Pipeline, One

LEMMA ReceiveReturnsRefines ==
    ASSUME CoreInv, NEW t \in Threads, ReceiveReturns(t)
    PROVE  \E b \in Boxes : Promise!Collect(t, b)
  <1>1. from[t] \in Boxes
    BY DEF CoreInv, TypeOK, ClientsMatch, ReceiveReturns
  <1> QED BY <1>1 DEF ReceiveReturns, Promise!Collect, Pipeline, One

\* The steps that nobody outside sees.
LEMMA InnerRefines ==
    ASSUME \/ UNCHANGED vars
           \/ \E t \in Threads :
                \/ SendAcquires(t) \/ SendReturnsFromP(t) \/ SendReturns(t)
                \/ \E b \in Boxes : Receive(t, b)
           \/ \E h \in Hosts : SendInterrupt(h) \/ WorkerWakes(h)
    PROVE  UNCHANGED Promise!postVars
  <1>1. UNCHANGED <<wire, inbox, mail, boxes, posting>>
    BY DEF vars, input, client, SendAcquires, SendReturnsFromP, SendReturns,
           Receive, SendInterrupt, WorkerWakes
  <1> QED BY <1>1 DEF Promise!postVars, Pipeline, One

LEMMA NextRefines ==
    CoreInv /\ [Next]_vars => [Promise!PostNext]_(Promise!postVars)
  <1> SUFFICES ASSUME CoreInv, [Next]_vars
               PROVE  [Promise!PostNext]_(Promise!postVars)
    OBVIOUS
  <1>1. Promise!Mail = Mail
    BY DEF Promise!Mail, Mail
  <1> QED BY <1>1, SendRefines, NetworkSendRefines, MovesOn,
          WorkerDeliversRefines, ReceiveReturnsRefines, InnerRefines
          DEF Next, Inside, Worker, Promise!PostNext

\* What the network has not lost comes to the mailbox it is addressed to, once
\* and in the order of sending, and Receive takes it from there (post.h).
THEOREM PostOfficeImplements == Spec => ImplementsPost
  <1>1. Init => Promise!PostInit
    BY DEF Init, Promise!PostInit, Pipeline, One
  <1> QED BY <1>1, NextRefines, CoreCorrect, PTL
          DEF Spec, ImplementsPost, Promise!PostSafety

=============================================================================
