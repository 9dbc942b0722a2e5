----------------------------- MODULE PostOffice -----------------------------
(***************************************************************************)
(* The post offices (post.cc) of several machines and the network between  *)
(* them (network.cc).  The locks, semaphores and mailboxes do what         *)
(* AbstractLock, AbstractSemaphores and AbstractQueue describe: a thread   *)
(* in Acquire, P or RemoveFront goes on when it can.                       *)
(***************************************************************************)
EXTENDS Naturals, Sequences, FiniteSets

CONSTANTS Threads, NoThread,
          Hosts,    (* the machines                                        *)
          Host,     (* the machine on which a thread runs                  *)
          Boxes,    (* the numbers of the mailboxes                        *)
          Letters,  (* what a message says                                 *)
          None,     (* no message                                          *)
          MaxMail   (* bound on the messages sent and not received         *)

Mail == [to : Hosts, box : Boxes, letter : Letters]

ASSUME PostOfficeAssumption ==
    /\ NoThread \notin Threads
    /\ None \notin Mail \cup Boxes
    /\ Host \in [Threads -> Hosts]
    /\ MaxMail \in Nat

VARIABLES wire,       (* the packets in the socket of each host            *)
          inbox,      (* NetworkInput::inHdr and inbox; None: length is 0  *)
          available,  (* PostOfficeInput::messageAvailable                 *)
          worker,     (* where the postal worker of each host is           *)
          mail,       (* the packet it is delivering                       *)
          boxes,      (* PostOfficeInput::boxes                            *)
          sendLock,   (* the holder of PostOfficeOutput::sendLock          *)
          sending,    (* a NetworkSendInt is scheduled                     *)
          sent,       (* PostOfficeOutput::messageSent                     *)
          place,      (* where each thread is                              *)
          posting,    (* the message of a thread in Send, until it is sent *)
          from        (* the mailbox of a thread in Receive                *)

input == <<wire, inbox, available, worker, mail, boxes>>
output == <<sendLock, sending, sent>>
client == <<place, posting, from>>
vars == <<input, output, client>>

\* send   in Send's Acquire                 handed   in Send's P
\* locked sendLock is taken, nothing sent   over     past Send's P
\* wait   in Receive
Places == {"none", "send", "locked", "handed", "over", "wait"}

Goes(t, to) == place' = [place EXCEPT ![t] = to]

Init ==
    /\ wire = [h \in Hosts |-> <<>>]
    /\ inbox = [h \in Hosts |-> None]
    /\ available = [h \in Hosts |-> 0]
    /\ worker = [h \in Hosts |-> "wait"]
    /\ mail = [h \in Hosts |-> None]
    /\ boxes = [h \in Hosts |-> [b \in Boxes |-> <<>>]]
    /\ sendLock = [h \in Hosts |-> NoThread]
    /\ sending = [h \in Hosts |-> FALSE]
    /\ sent = [h \in Hosts |-> 0]
    /\ place = [t \in Threads |-> "none"]
    /\ posting = [t \in Threads |-> None]
    /\ from = [t \in Threads |-> None]

\* What is between Send's call and the mailbox of host h, oldest first.
One(m) == IF m = None THEN <<>> ELSE <<m>>

Pipeline(h) == One(mail[h]) \o One(inbox[h]) \o wire[h]

Outstanding ==
    Cardinality({t \in Threads : posting[t] # None})
      + Cardinality({p \in Hosts \X (1..MaxMail) : p[2] <= Len(Pipeline(p[1]))})
      + Cardinality({p \in Hosts \X Boxes \X (1..MaxMail) :
                       p[3] <= Len(boxes[p[1]][p[2]])})

-----------------------------------------------------------------------------
\* PostOfficeOutput::Send: Acquire ...
Send(t, m) ==
    /\ place[t] = "none"
    /\ Outstanding < MaxMail
    /\ posting' = [posting EXCEPT ![t] = m]
    /\ Goes(t, "send")
    /\ UNCHANGED <<input, output, from>>

SendAcquires(t) ==
    /\ place[t] = "send"
    /\ sendLock[Host[t]] = NoThread
    /\ sendLock' = [sendLock EXCEPT ![Host[t]] = t]
    /\ Goes(t, "locked")
    /\ UNCHANGED <<input, sending, sent, posting, from>>

\* Wrong variant of NetworkSend, refused by PostServes.
NetworkSendForgetsInterruptOfLost(t) ==
    LET m == posting[t] IN
    /\ place[t] = "locked"
    /\ \/ /\ wire' = [wire EXCEPT ![m.to] = Append(@, m)]
          /\ sending' = [sending EXCEPT ![Host[t]] = TRUE]
       \/ UNCHANGED <<wire, sending>>
    /\ posting' = [posting EXCEPT ![t] = None]
    /\ Goes(t, "handed")
    /\ UNCHANGED <<inbox, available, worker, mail, boxes, sendLock, sent, from>>

\* ... NetworkOutput::Send: the interrupt is scheduled and the packet goes
\* to the socket of the receiver, or is lost: at random, or because that
\* socket takes no packet in ten attempts ...
NetworkSend(t) ==
    LET m == posting[t] IN
    /\ place[t] = "locked"
    /\ sending' = [sending EXCEPT ![Host[t]] = TRUE]
    /\ \/ wire' = [wire EXCEPT ![m.to] = Append(@, m)]
       \/ UNCHANGED wire
    /\ posting' = [posting EXCEPT ![t] = None]
    /\ Goes(t, "handed")
    /\ UNCHANGED <<inbox, available, worker, mail, boxes, sendLock, sent, from>>

\* The interrupt: NetworkOutput::CallBack and PostOfficeOutput::CallBack.
SendInterrupt(h) ==
    /\ sending[h]
    /\ sending' = [sending EXCEPT ![h] = FALSE]
    /\ sent' = [sent EXCEPT ![h] = @ + 1]
    /\ UNCHANGED <<input, sendLock, client>>

\* ... P ...
SendReturnsFromP(t) ==
    /\ place[t] = "handed"
    /\ sent[Host[t]] > 0
    /\ sent' = [sent EXCEPT ![Host[t]] = @ - 1]
    /\ Goes(t, "over")
    /\ UNCHANGED <<input, sendLock, sending, posting, from>>

\* ... Release.
SendReturns(t) ==
    /\ place[t] = "over"
    /\ sendLock' = [sendLock EXCEPT ![Host[t]] = NoThread]
    /\ Goes(t, "none")
    /\ UNCHANGED <<input, sending, sent, posting, from>>

-----------------------------------------------------------------------------
\* Wrong variant of RecvInterrupt, refused by ImplementsPost.
RecvInterruptOverwrites(h) ==
    /\ wire[h] # <<>>
    /\ inbox' = [inbox EXCEPT ![h] = Head(wire[h])]
    /\ wire' = [wire EXCEPT ![h] = Tail(@)]
    /\ available' = [available EXCEPT ![h] = @ + 1]
    /\ UNCHANGED <<worker, mail, boxes, output, client>>

\* Wrong variant of RecvInterrupt, refused by PostServes, PostOfficeInv.
RecvInterruptForgetsV(h) ==
    /\ inbox[h] = None
    /\ wire[h] # <<>>
    /\ inbox' = [inbox EXCEPT ![h] = Head(wire[h])]
    /\ wire' = [wire EXCEPT ![h] = Tail(@)]
    /\ UNCHANGED <<available, worker, mail, boxes, output, client>>

\* NetworkInput::CallBack: a packet is read when none is buffered.  The poll
\* goes on for ever.
RecvInterrupt(h) ==
    /\ inbox[h] = None
    /\ wire[h] # <<>>
    /\ inbox' = [inbox EXCEPT ![h] = Head(wire[h])]
    /\ wire' = [wire EXCEPT ![h] = Tail(@)]
    /\ available' = [available EXCEPT ![h] = @ + 1]
    /\ UNCHANGED <<worker, mail, boxes, output, client>>

\* PostalDelivery: P ...
WorkerWakes(h) ==
    /\ worker[h] = "wait"
    /\ available[h] > 0
    /\ available' = [available EXCEPT ![h] = @ - 1]
    /\ worker' = [worker EXCEPT ![h] = "awake"]
    /\ UNCHANGED <<wire, inbox, mail, boxes, output, client>>

\* ... NetworkInput::Receive, which frees the buffer ...
WorkerReceives(h) ==
    /\ worker[h] = "awake"
    /\ mail' = [mail EXCEPT ![h] = inbox[h]]
    /\ inbox' = [inbox EXCEPT ![h] = None]
    /\ worker' = [worker EXCEPT ![h] = "deliver"]
    /\ UNCHANGED <<wire, available, boxes, output, client>>

\* ... and MailBox::Put, which is SynchList::Append.
WorkerDelivers(h) ==
    /\ worker[h] = "deliver"
    /\ boxes' = [boxes EXCEPT ![h][mail[h].box] = Append(@, mail[h].letter)]
    /\ mail' = [mail EXCEPT ![h] = None]
    /\ worker' = [worker EXCEPT ![h] = "wait"]
    /\ UNCHANGED <<wire, inbox, available, output, client>>

-----------------------------------------------------------------------------
\* PostOfficeInput::Receive: MailBox::Get, which is SynchList::RemoveFront.
Receive(t, b) ==
    /\ place[t] = "none"
    /\ from' = [from EXCEPT ![t] = b]
    /\ Goes(t, "wait")
    /\ UNCHANGED <<input, output, posting>>

ReceiveReturns(t) ==
    LET host == Host[t]
        num == from[t]
    IN  /\ place[t] = "wait"
        /\ boxes[host][num] # <<>>
        /\ boxes' = [boxes EXCEPT ![host][num] = Tail(@)]
        /\ from' = [from EXCEPT ![t] = None]
        /\ Goes(t, "none")
        /\ UNCHANGED <<wire, inbox, available, worker, mail, output, posting>>

-----------------------------------------------------------------------------
Inside(t) ==
    \/ NetworkSend(t) \/ SendReturnsFromP(t) \/ SendReturns(t)
    \/ ReceiveReturns(t)

Worker(h) == WorkerWakes(h) \/ WorkerReceives(h) \/ WorkerDelivers(h)

Next ==
    \/ \E t \in Threads :
         \/ \E m \in Mail : Send(t, m)
         \/ \E b \in Boxes : Receive(t, b)
         \/ SendAcquires(t)
         \/ Inside(t)
    \/ \E h \in Hosts : SendInterrupt(h) \/ RecvInterrupt(h) \/ Worker(h)

Spec == Init /\ [][Next]_vars

\* Each machine runs its ready threads and its interrupts; which of the
\* threads that want a sendLock gets it is open.
FairSpec ==
    /\ Spec
    /\ \A t \in Threads : WF_vars(Inside(t))
    /\ \A h \in Hosts :
         /\ WF_vars(\E t \in Threads : Host[t] = h /\ SendAcquires(t))
         /\ WF_vars(SendInterrupt(h))
         /\ WF_vars(RecvInterrupt(h))
         /\ WF_vars(Worker(h))

-----------------------------------------------------------------------------
(* Properties.                                                             *)

TypeOK ==
    /\ wire \in [Hosts -> Seq(Mail)]
    /\ inbox \in [Hosts -> Mail \cup {None}]
    /\ available \in [Hosts -> Nat]
    /\ worker \in [Hosts -> {"wait", "awake", "deliver"}]
    /\ mail \in [Hosts -> Mail \cup {None}]
    /\ boxes \in [Hosts -> [Boxes -> Seq(Letters)]]
    /\ sendLock \in [Hosts -> Threads \cup {NoThread}]
    /\ sending \in [Hosts -> BOOLEAN]
    /\ sent \in [Hosts -> Nat]
    /\ place \in [Threads -> Places]
    /\ posting \in [Threads -> Mail \cup {None}]
    /\ from \in [Threads -> Boxes \cup {None}]

\* The one-packet buffer and its worker keep step: a V for every packet
\* buffered, a packet there whenever the worker has come from P, and no
\* second packet accepted before that.
WorkerInStep ==
    \A h \in Hosts :
        /\ available[h] + (IF worker[h] = "awake" THEN 1 ELSE 0)
             = IF inbox[h] = None THEN 0 ELSE 1
        /\ worker[h] = "deliver" <=> mail[h] # None

\* One message of a host is on its way to the network at a time, and the P
\* that follows it waits for the interrupt of that message.
OneSendAtATime ==
    \A h \in Hosts :
        LET Busy == {t \in Threads : Host[t] = h
                                     /\ place[t] \in {"locked", "handed", "over"}}
        IN  /\ Busy = IF sendLock[h] = NoThread THEN {} ELSE {sendLock[h]}
            /\ (IF sending[h] THEN 1 ELSE 0) + sent[h]
                 = Cardinality({t \in Busy : place[t] = "handed"})

ClientsMatch ==
    \A t \in Threads :
        /\ posting[t] # None <=> place[t] \in {"send", "locked"}
        /\ from[t] # None <=> place[t] = "wait"

PostOfficeInv ==
    /\ TypeOK
    /\ WorkerInStep
    /\ OneSendAtATime
    /\ ClientsMatch

\* The post office is the abstract one: what is not lost by the network
\* comes to its mailbox once, and in the order in which it was sent.
Promise == INSTANCE AbstractPost WITH
              flight <- [h \in Hosts |-> Pipeline(h)]

ImplementsPost == Promise!PostSafety

\* Send returns whether or not its message is lost.
SendsReturn == \A t \in Threads : place[t] = "handed" ~> place[t] = "none"

\* What the network has taken comes to its mailbox.
MailArrives == \A h \in Hosts : []<>(Pipeline(h) = <<>>)
                                \/ []<><<WorkerDelivers(h)>>_vars

\* Neither sending nor receiving ever comes to rest, whatever is lost.
PostServes == SendsReturn /\ MailArrives

=============================================================================
