----------------------------- MODULE DiskProofs -----------------------------
(***************************************************************************)
(* Proofs about the disk and what is on it, in two parts.                  *)
(*                                                                         *)
(* SynchDisk, for any threads, sectors and contents: SynchDiskInv is       *)
(* inductive, no operation passes its P before the interrupt, and the disk *)
(* implements the abstract one.                                            *)
(*                                                                         *)
(* FileSystem, for any number and size of sectors, any directory and any   *)
(* names: the disk is consistent between operations; wherever a machine    *)
(* stops within one, the files it does not change are untouched; a write   *)
(* changes the bytes it is asked to and no others; and the operations are  *)
(* those of the abstract files, for a client that does none of the three   *)
(* things the code does not guard against.                                 *)
(* Neither part uses the other's definitions or assumptions.               *)
(***************************************************************************)
EXTENDS SynchDisk, FileSystem, FiniteSetTheorems, FunctionTheorems,
        SequenceTheorems, TLAPS

-----------------------------------------------------------------------------
(* Part one: SynchDisk *)

\* Everything is idle at first.
LEMMA InitInv == Init => SynchDiskInv
  <1> SUFFICES ASSUME Init PROVE SynchDiskInv
    OBVIOUS
  <1> USE SynchDiskAssumption DEF Init, Start, Sem!AbsInit
  <1>1. TypeOK
    BY DEF TypeOK, Places
  <1>2. LockCoversRequest /\ OneRequestAtATime
    BY DEF LockCoversRequest, OneRequestAtATime
  <1>3. OneCompletion
    BY DEF OneCompletion
  <1> QED BY <1>1, <1>2, <1>3 DEF SynchDiskInv

\* Only the holder of the lock is in P, so that without a thread in P there
\* is neither a pending interrupt nor a completion.
LEMMA QuietUnlessIssued ==
    ASSUME SynchDiskInv, \A u \in Threads : place[u] # "issued"
    PROVE  value[Done] = 0 /\ ~active
  BY DEF SynchDiskInv, TypeOK, OneCompletion

LEMMA CallInv ==
    ASSUME SynchDiskInv, NEW t \in Threads, NEW c \in Calls, Call(t, c)
    PROVE  SynchDiskInv'
  <1> USE SynchDiskAssumption
  <1>1. TypeOK'
    BY DEF SynchDiskInv, TypeOK, Places, Call, Goes, EnterAtOnce, Ask, semaphoreVars
  <1>2. LockCoversRequest'
    BY DEF SynchDiskInv, TypeOK, LockCoversRequest, Call, Goes, EnterAtOnce, Ask
  <1>3. OneRequestAtATime'
    <2>1. CASE EnterAtOnce(t)
      <3>1. \A u \in Threads : place[u] # "issued"
        BY <2>1 DEF EnterAtOnce, SynchDiskInv, LockCoversRequest
      <3> QED BY <3>1, QuietUnlessIssued
              DEF OneRequestAtATime, Call, semaphoreVars
    <2>2. CASE Ask(t)
      BY <2>2 DEF SynchDiskInv, OneRequestAtATime, TypeOK, Ask, Call, Goes,
                  semaphoreVars
    <2> QED BY <2>1, <2>2 DEF Call
  <1>4. OneCompletion'
    BY DEF SynchDiskInv, OneCompletion, TypeOK, Call, Goes, semaphoreVars
  <1> QED BY <1>1, <1>2, <1>3, <1>4 DEF SynchDiskInv

LEMMA AcquiredInv ==
    ASSUME SynchDiskInv, NEW t \in Threads, Acquired(t)
    PROVE  SynchDiskInv'
  <1> USE SynchDiskAssumption DEF Acquired, Enter, semaphoreVars
  <1>1. TypeOK'
    BY DEF SynchDiskInv, TypeOK
  <1>2. LockCoversRequest'
    BY DEF SynchDiskInv, TypeOK, Places, LockCoversRequest
  <1>3. OneRequestAtATime'
    <2>1. \A u \in Threads : place[u] # "issued"
      BY DEF SynchDiskInv, LockCoversRequest
    <2> QED BY <2>1, QuietUnlessIssued DEF OneRequestAtATime
  <1>4. OneCompletion'
    BY DEF SynchDiskInv, OneCompletion
  <1> QED BY <1>1, <1>2, <1>3, <1>4 DEF SynchDiskInv

\* The request is made with an idle disk and an empty semaphore, so its P
\* waits.
LEMMA RequestWaits ==
    ASSUME SynchDiskInv, NEW t \in Threads, Request(t)
    PROVE  /\ Sem!Wait(t, Done) /\ Goes(t, "issued")
           /\ \A u \in Threads : place[u] # "issued"
           /\ value[Done] = 0
  <1>1. \A u \in Threads : place[u] # "issued"
    BY DEF SynchDiskInv, LockCoversRequest, Request
  <1>2. value[Done] = 0
    BY <1>1, QuietUnlessIssued
  <1> QED BY <1>1, <1>2 DEF Request

LEMMA TransferType ==
    ASSUME SynchDiskInv, NEW t \in Threads, place[t] # "none", Transfer(t)
    PROVE  disk' \in [Sectors -> Contents] /\ buffer' \in [Threads -> Contents]
  <1>1. call[t] \in Calls
    BY DEF SynchDiskInv, LockCoversRequest
  <1>2. call[t].sector \in Sectors
    BY <1>1 DEF Calls
  <1>3. call[t].kind = "write" => call[t].data \in Contents
    BY <1>1 DEF Calls
  <1>4. CASE call[t].kind = "write"
    BY <1>2, <1>3, <1>4 DEF Transfer, SynchDiskInv, TypeOK
  <1>5. CASE call[t].kind # "write"
    BY <1>2, <1>5 DEF Transfer, SynchDiskInv, TypeOK
  <1> QED BY <1>4, <1>5

LEMMA RequestInv ==
    ASSUME SynchDiskInv, NEW t \in Threads, Request(t)
    PROVE  SynchDiskInv'
  <1> USE SynchDiskAssumption
  <1>0. /\ Sem!Wait(t, Done) /\ Goes(t, "issued")
        /\ \A u \in Threads : place[u] # "issued"
        /\ value[Done] = 0
    BY RequestWaits
  <1>1. TypeOK'
    <2>1. disk' \in [Sectors -> Contents] /\ buffer' \in [Threads -> Contents]
      BY TransferType DEF Request
    <2>2. place' \in [Threads -> Places]
      BY <1>0 DEF SynchDiskInv, TypeOK, Places, Goes
    <2> QED BY <1>0, <2>1, <2>2
            DEF SynchDiskInv, TypeOK, Request, Sem!Wait, lockVars
  <1>2. LockCoversRequest'
    BY <1>0 DEF SynchDiskInv, TypeOK, LockCoversRequest, Request, Goes, lockVars
  <1>3. OneRequestAtATime'
    BY <1>0 DEF SynchDiskInv, TypeOK, OneRequestAtATime, Request, Goes, lockVars
  <1>4. OneCompletion'
    <2>1. waiting'[Done] = {t}
      BY <1>0 DEF SynchDiskInv, TypeOK, OneCompletion, Sem!Wait
    <2>2. {u \in Threads : place'[u] = "issued"} = {t}
      BY <1>0 DEF SynchDiskInv, TypeOK, Goes
    <2> QED BY <1>0, <2>1, <2>2 DEF OneCompletion, Request, Sem!Wait
  <1> QED BY <1>1, <1>2, <1>3, <1>4 DEF SynchDiskInv

LEMMA InterruptInv ==
    ASSUME SynchDiskInv, Interrupt
    PROVE  SynchDiskInv'
  <1> USE DEF Interrupt, Sem!Increment, lockVars
  <1>1. TypeOK'
    <2>1. value' \in [{Done} -> Nat]
      BY DEF SynchDiskInv, TypeOK
    <2>2. active' \in BOOLEAN
      OBVIOUS
    <2> QED BY <2>1, <2>2 DEF SynchDiskInv, TypeOK
  <1>2. LockCoversRequest'
    BY DEF SynchDiskInv, LockCoversRequest
  <1>3. OneRequestAtATime'
    BY DEF SynchDiskInv, OneRequestAtATime
  <1>4. OneCompletion'
    BY DEF SynchDiskInv, TypeOK, OneCompletion
  <1> QED BY <1>1, <1>2, <1>3, <1>4 DEF SynchDiskInv

\* P returns to the only thread in it, after the interrupt.
LEMMA PReturnsQuiet ==
    ASSUME SynchDiskInv, NEW t \in Threads, PReturns(t)
    PROVE  /\ value[Done] = 1 /\ ~active
           /\ waiting[Done] = {t}
  <1>1. waiting[Done] = {t}
    BY DEF SynchDiskInv, LockCoversRequest, OneCompletion, PReturns
  <1>2. value[Done] > 0
    BY DEF PReturns, Sem!Take
  <1> QED BY <1>1, <1>2 DEF SynchDiskInv, TypeOK, OneCompletion

LEMMA PReturnsInv ==
    ASSUME SynchDiskInv, NEW t \in Threads, PReturns(t)
    PROVE  SynchDiskInv'
  <1> USE SynchDiskAssumption DEF PReturns, Sem!Take, Goes, lockVars
  <1>0. value[Done] = 1 /\ ~active /\ waiting[Done] = {t}
    BY PReturnsQuiet
  <1>1. TypeOK'
    BY <1>0 DEF SynchDiskInv, TypeOK, Places
  <1>2. LockCoversRequest'
    BY DEF SynchDiskInv, TypeOK, LockCoversRequest
  <1>3. OneRequestAtATime'
    BY DEF SynchDiskInv, TypeOK, LockCoversRequest, OneRequestAtATime
  <1>4. OneCompletion'
    <2>1. {u \in Threads : place'[u] = "issued"} = {}
      BY <1>0 DEF SynchDiskInv, TypeOK, OneCompletion
    <2> QED BY <1>0, <2>1 DEF SynchDiskInv, TypeOK, OneCompletion
  <1> QED BY <1>1, <1>2, <1>3, <1>4 DEF SynchDiskInv

LEMMA ReleaseInv ==
    ASSUME SynchDiskInv, NEW t \in Threads, Release(t)
    PROVE  SynchDiskInv'
  <1> USE SynchDiskAssumption DEF Release, Leave, Goes, semaphoreVars
  <1>1. TypeOK'
    BY DEF SynchDiskInv, TypeOK, Places
  <1>2. LockCoversRequest'
    BY DEF SynchDiskInv, TypeOK, LockCoversRequest
  <1>3. OneRequestAtATime'
    BY DEF OneRequestAtATime
  <1>4. OneCompletion'
    BY DEF SynchDiskInv, TypeOK, OneCompletion
  <1> QED BY <1>1, <1>2, <1>3, <1>4 DEF SynchDiskInv

LEMMA RestartInv ==
    ASSUME SynchDiskInv, Restart
    PROVE  SynchDiskInv'
  <1> USE SynchDiskAssumption DEF Restart
  <1>1. TypeOK'
    BY DEF SynchDiskInv, TypeOK, Places
  <1>2. LockCoversRequest' /\ OneRequestAtATime'
    BY DEF LockCoversRequest, OneRequestAtATime
  <1>3. OneCompletion'
    BY DEF OneCompletion
  <1> QED BY <1>1, <1>2, <1>3 DEF SynchDiskInv

LEMMA NextInv == SynchDiskInv /\ [Next]_vars => SynchDiskInv'
  <1> SUFFICES ASSUME SynchDiskInv, [Next]_vars PROVE SynchDiskInv'
    OBVIOUS
  <1>1. CASE \E t \in Threads, c \in Calls : Call(t, c)
    BY <1>1, CallInv
  <1>2. CASE \E t \in Threads : Acquired(t)
    BY <1>2, AcquiredInv
  <1>3. CASE \E t \in Threads : Inside(t)
    BY <1>3, RequestInv, PReturnsInv, ReleaseInv DEF Inside
  <1>4. CASE Interrupt
    BY <1>4, InterruptInv
  <1>5. CASE Restart
    BY <1>5, RestartInv
  <1>6. CASE UNCHANGED vars
    BY <1>6 DEF vars, lockVars, semaphoreVars, SynchDiskInv, TypeOK,
                LockCoversRequest, OneRequestAtATime, OneCompletion
  <1> QED BY <1>1, <1>2, <1>3, <1>4, <1>5, <1>6 DEF Next

\* The invariant of the synchronous disk: one request at a time, and one
\* completion for each.
THEOREM SynchDiskCorrect == Spec => []SynchDiskInv
  BY InitInv, NextInv, PTL DEF Spec

-----------------------------------------------------------------------------
\* Only PReturns lets an operation past its P, and it finds the disk idle.
THEOREM ReturnsCorrect == Spec => ReturnsAfterInterrupt
  <1> DEFINE Early(t) == place[t] # "finished" /\ place'[t] = "finished"
             Idle == \A t \in Threads : Early(t) => ~active /\ ~active'
  <1>1. SynchDiskInv /\ [Next]_vars => [Idle]_vars
    <2> SUFFICES ASSUME SynchDiskInv, Next, NEW u \in Threads, Early(u)
                 PROVE  ~active /\ ~active'
      OBVIOUS
    <2> USE DEF SynchDiskInv, TypeOK, Goes
    <2>1. CASE \E t \in Threads, c \in Calls : Call(t, c)
      BY <2>1 DEF Call
    <2>2. CASE \E t \in Threads : Acquired(t)
      BY <2>2 DEF Acquired
    <2>3. ASSUME NEW t \in Threads, Request(t) PROVE FALSE
      BY <2>3, RequestWaits
    <2>4. ASSUME NEW t \in Threads, PReturns(t) PROVE ~active /\ ~active'
      BY <2>4, PReturnsQuiet DEF PReturns
    <2>5. ASSUME NEW t \in Threads, Release(t) PROVE FALSE
      BY <2>5 DEF Release
    <2>6. CASE Interrupt
      BY <2>6 DEF Interrupt
    <2>7. CASE Restart
      BY <2>7 DEF Restart
    <2> QED BY <2>1, <2>2, <2>3, <2>4, <2>5, <2>6, <2>7 DEF Next, Inside
  <1> QED BY <1>1, SynchDiskCorrect, PTL DEF Spec, ReturnsAfterInterrupt

-----------------------------------------------------------------------------
(* The refinement.                                                         *)

Stage == [t \in Threads |->
            IF place[t] \in {"issued", "finished"} THEN "done"
            ELSE IF place[t] = "acquire" THEN "called" ELSE "none"]

LEMMA InitRefines == Init => Promise!DiskInit
  BY DEF Init, Start, Promise!DiskInit, NoCall, Promise!NoCall

\* A thread's own step moves only its own stage.
LEMMA StageMoves ==
    ASSUME TypeOK, NEW t \in Threads, NEW p \in Places, Goes(t, p)
    PROVE  Stage' = [Stage EXCEPT ![t] =
                       IF p \in {"issued", "finished"} THEN "done"
                       ELSE IF p = "acquire" THEN "called" ELSE "none"]
  BY DEF TypeOK, Goes, Stage

LEMMA CallRefines ==
    ASSUME SynchDiskInv, NEW t \in Threads, NEW c \in Calls, Call(t, c)
    PROVE  Promise!CallDisk(t, c)
  <1>1. Stage' = [Stage EXCEPT ![t] = "called"]
    BY StageMoves DEF Call, SynchDiskInv, Places
  <1>2. Stage[t] = "none"
    BY DEF Call, Stage
  <1> QED BY <1>1, <1>2 DEF Call, Stage, Promise!CallDisk

LEMMA RequestRefines ==
    ASSUME SynchDiskInv, NEW t \in Threads, Request(t)
    PROVE  Promise!TakeEffect(t)
  <1>1. Stage' = [Stage EXCEPT ![t] = "done"]
    BY RequestWaits, StageMoves DEF SynchDiskInv, Places
  <1>2. Stage[t] = "called"
    BY DEF Request, Stage
  <1>3. UNCHANGED call
    BY DEF Request
  <1>4. CASE call[t].kind = "write"
    BY <1>1, <1>2, <1>3, <1>4 DEF Request, Transfer, Stage, Promise!TakeEffect
  <1>5. CASE call[t].kind # "write"
    BY <1>1, <1>2, <1>3, <1>5 DEF Request, Transfer, Stage, Promise!TakeEffect
  <1> QED BY <1>4, <1>5

LEMMA ReleaseRefines ==
    ASSUME SynchDiskInv, NEW t \in Threads, Release(t)
    PROVE  Promise!ReturnFromDisk(t)
  <1>1. Stage' = [Stage EXCEPT ![t] = "none"]
    BY StageMoves DEF Release, SynchDiskInv, Places
  <1>2. Stage[t] = "done"
    BY DEF Release, Stage
  <1> QED BY <1>1, <1>2
          DEF Release, Stage, Promise!ReturnFromDisk, NoCall, Promise!NoCall

LEMMA NextRefines ==
    SynchDiskInv /\ [Next]_vars => [Promise!DiskNext]_(Promise!diskVars)
  <1> SUFFICES ASSUME SynchDiskInv, [Next]_vars
               PROVE  [Promise!DiskNext]_(Promise!diskVars)
    OBVIOUS
  <1> USE DEF Promise!DiskNext, Promise!diskVars
  <1>1. ASSUME NEW t \in Threads, NEW c \in Calls, Call(t, c)
        PROVE  Promise!DiskNext
    BY <1>1, CallRefines DEF Calls, Promise!Calls
  <1>2. CASE \E t \in Threads : Acquired(t)
    BY <1>2 DEF Acquired
  <1>3. CASE \E t \in Threads : Request(t)
    BY <1>3, RequestRefines
  <1>4. ASSUME NEW t \in Threads, PReturns(t)
        PROVE  UNCHANGED Promise!diskVars
    <2>1. Stage' = Stage
      <3>1. TypeOK /\ place[t] = "issued" /\ Goes(t, "finished") /\ "finished" \in Places
        BY <1>4 DEF PReturns, SynchDiskInv, Places
      <3>2. Stage' = [Stage EXCEPT ![t] = "done"]
        BY <3>1, StageMoves
      <3>3. Stage[t] = "done" /\ Stage = [u \in Threads |-> Stage[u]]
        BY <3>1 DEF Stage
      <3> QED BY <3>2, <3>3
    <2> QED BY <1>4, <2>1 DEF PReturns, Stage
  <1>5. CASE \E t \in Threads : Release(t)
    BY <1>5, ReleaseRefines
  <1>6. CASE Interrupt
    BY <1>6 DEF Interrupt
  <1>7. CASE Restart
    <2>1. Stage' = [t \in Threads |-> "none"]
      BY <1>7 DEF Restart, Stage
    <2> QED BY <1>7, <2>1
            DEF Restart, Stage, Promise!StopAndStart, NoCall, Promise!NoCall
  <1>8. CASE UNCHANGED vars
    BY <1>8 DEF vars
  <1> QED BY <1>1, <1>2, <1>3, <1>4, <1>5, <1>6, <1>7, <1>8 DEF Next, Inside

\* The sectors are atomic, an operation takes effect once, between its call
\* and its return, and a restart leaves the disk as it is.
THEOREM SynchDiskImplements == Spec => ImplementsDisk
  BY InitRefines, NextRefines, SynchDiskCorrect, PTL
     DEF Spec, ImplementsDisk, Promise!DiskSafety

-----------------------------------------------------------------------------
(* Part two: FileSystem *)

\* A set of natural numbers that is not empty has a least one, which Min returns.
LEMMA MinOf ==
    ASSUME NEW S, S \subseteq Nat, S # {}
    PROVE  Min(S) \in S /\ \A r \in S : Min(S) <= r
  <1>1. PICK s \in S : \A r \in S : ~ (<<r, s>> \in OpToRel(<, Nat))
    BY WFMin, NatLessThanWellFounded, Zenon
  <1>2. \A r \in S : ~ (r < s)
    BY <1>1, Zenon DEF OpToRel
  <1>3. \E m \in S : \A r \in S : m <= r
    BY <1>2
  <1> QED BY <1>3 DEF Min

-----------------------------------------------------------------------------
(* Sequences of writes *)

\* No sector is written twice.
SectorsApart(writes) ==
  \A j, k \in DOMAIN writes : writes[j][1] = writes[k][1] => j = k

\* The writes of one operation, on sectors of the disk.
WriteSequence(writes) ==
  /\ writes \in Seq(Range(writes))
  /\ \A k \in DOMAIN writes : writes[k][1] \in SectorNumbers
  /\ SectorsApart(writes)

\* The contents of a disk.
IsDisk(d) == d = [s \in SectorNumbers |-> d[s]]

\* What a settled disk holds: what was written, and elsewhere what was there.
LEMMA SettledAt ==
    ASSUME NEW d, NEW w, WriteSequence(w)
    PROVE  /\ IsDisk(Settled(d, w))
           /\ \A k \in DOMAIN w : Settled(d, w)[w[k][1]] = w[k][2]
           /\ \A s \in SectorNumbers :
                (\A k \in DOMAIN w : w[k][1] # s) => Settled(d, w)[s] = d[s]
  <1>1. DOMAIN w \subseteq Int
    BY LenProperties DEF WriteSequence
  <1>2. IsDisk(Settled(d, w))
    BY DEF IsDisk, Settled
  <1>3. ASSUME NEW k \in DOMAIN w PROVE Settled(d, w)[w[k][1]] = w[k][2]
    <2>1. {j \in DOMAIN w : w[j][1] = w[k][1]} = {k}
      BY DEF WriteSequence, SectorsApart
    <2>2. Max({k}) = k
      BY <1>1 DEF Max
    <2>3. w[k][1] \in SectorNumbers
      BY DEF WriteSequence
    <2> QED BY <2>1, <2>2, <2>3, Zenon DEF Settled
  <1>4. ASSUME NEW s \in SectorNumbers, \A k \in DOMAIN w : w[k][1] # s
        PROVE  Settled(d, w)[s] = d[s]
    <2>1. {j \in DOMAIN w : w[j][1] = s} = {}
      BY <1>4
    <2> QED BY <2>1, Zenon DEF Settled
  <1> QED BY <1>2, <1>3, <1>4

\* Two disks that agree on every sector are the same.
LEMMA SameDisk ==
    ASSUME NEW d, NEW e, IsDisk(d), IsDisk(e),
           \A s \in SectorNumbers : d[s] = e[s]
    PROVE  d = e
  BY DEF IsDisk

\* The disk after the first k writes.
Partly(d, w, k) ==
  [s \in SectorNumbers |-> IF s \in {w[j][1] : j \in 1..k} THEN Settled(d, w)[s] ELSE d[s]]

\* The writes that remain after the first k.
Rest(w, k) == SubSeq(w, k + 1, Len(w))

LEMMA NothingWritten ==
    ASSUME NEW d, NEW w, IsDisk(d), WriteSequence(w)
    PROVE  Partly(d, w, 0) = d /\ Rest(w, 0) = w
  <1>1. Partly(d, w, 0) = d
    BY DEF Partly, IsDisk
  <1>2. Rest(w, 0) = w
    BY SubSeqFull DEF Rest, WriteSequence
  <1> QED BY <1>1, <1>2

LEMMA AllWritten ==
    ASSUME NEW d, NEW w, WriteSequence(w)
    PROVE  Partly(d, w, Len(w)) = Settled(d, w)
  <1>1. DOMAIN w = 1..Len(w)
    BY LenProperties DEF WriteSequence
  <1>2. ASSUME NEW s \in SectorNumbers
        PROVE  Partly(d, w, Len(w))[s] = Settled(d, w)[s]
    <2>1. CASE s \in {w[j][1] : j \in 1..Len(w)}
      BY <2>1 DEF Partly
    <2>2. CASE s \notin {w[j][1] : j \in 1..Len(w)}
      <3>1. \A k \in DOMAIN w : w[k][1] # s
        BY <1>1, <2>2
      <3> QED BY <2>2, <3>1, SettledAt DEF Partly
    <2> QED BY <2>1, <2>2
  <1>3. IsDisk(Partly(d, w, Len(w)))
    BY DEF IsDisk, Partly
  <1>4. IsDisk(Settled(d, w))
    BY SettledAt
  <1> QED BY <1>2, <1>3, <1>4, SameDisk

\* What remains after k writes, write by write.
LEMMA RestFacts ==
    ASSUME NEW w, WriteSequence(w), NEW k \in Nat, k <= Len(w)
    PROVE  /\ Len(w) \in Nat /\ DOMAIN w = 1..Len(w)
           /\ DOMAIN Rest(w, k) = 1..Len(w) - k
           /\ \A i \in 1..Len(w) - k : Rest(w, k)[i] = w[k + i]
           /\ Rest(w, k) \in Seq(Range(w))
           /\ Rest(w, k) = <<>> <=> k = Len(w)
  <1> DEFINE R == Range(w)
  <1>1. w \in Seq(R)
    BY DEF WriteSequence
  <1> HIDE DEF R
  <1>2. Len(w) \in Nat /\ DOMAIN w = 1..Len(w) /\ \A i \in 1..Len(w) : w[i] \in R
    BY <1>1, LenProperties, ElementOfSeq
  <1>3. \A i \in k + 1..Len(w) : w[i] \in R
    BY <1>2
  <1>4. /\ Rest(w, k) \in Seq(R)
        /\ Len(Rest(w, k)) = IF k + 1 <= Len(w) THEN Len(w) - (k + 1) + 1 ELSE 0
        /\ \A i \in 1..Len(w) - (k + 1) + 1 : Rest(w, k)[i] = w[(k + 1) + i - 1]
    <2>1. k + 1 \in Int /\ Len(w) \in Int
      BY <1>2
    <2> QED BY <1>3, <2>1, SubSeqProperties DEF Rest
  <1>5. Len(Rest(w, k)) = Len(w) - k /\ Len(w) - (k + 1) + 1 = Len(w) - k
    <2> DEFINE n == Len(w)
               m == Len(Rest(w, k))
    <2>1. n \in Nat /\ k <= n /\ m = IF k + 1 <= n THEN n - (k + 1) + 1 ELSE 0
      BY <1>2, <1>4
    <2> HIDE DEF n, m
    <2>2. m = n - k /\ n - (k + 1) + 1 = n - k
      BY <2>1
    <2> QED BY <2>2 DEF n, m
  <1>6. \A i \in 1..Len(w) - k : (k + 1) + i - 1 = k + i
    OBVIOUS
  <1>7. DOMAIN Rest(w, k) = 1..Len(w) - k
    BY <1>4, <1>5, LenProperties
  <1>8. Rest(w, k) = <<>> <=> Len(Rest(w, k)) = 0
    BY <1>4, EmptySeq
  <1>9. Rest(w, k) = <<>> <=> k = Len(w)
    <2>1. Len(w) - k = 0 <=> k = Len(w)
      BY <1>2
    <2> QED BY <1>5, <1>8, <2>1, Zenon
  <1>10. \A i \in 1..Len(w) - k : Rest(w, k)[i] = w[k + i]
    <2>1. \A i \in 1..Len(w) - k : Rest(w, k)[i] = w[(k + 1) + i - 1]
      BY <1>4, <1>5, Zenon
    <2> QED BY <1>6, <2>1, Zenon
  <1>11. Rest(w, k) \in Seq(Range(w))
    BY <1>4 DEF R
  <1> QED BY <1>2, <1>7, <1>9, <1>10, <1>11, Zenon

\* The next write.
LEMMA NextWrite ==
    ASSUME NEW d, NEW w, WriteSequence(w), NEW k \in Nat, k < Len(w)
    PROVE  /\ k + 1 \in 1..Len(w)
           /\ Head(Rest(w, k)) = w[k + 1]
           /\ Tail(Rest(w, k)) = Rest(w, k + 1)
           /\ [Partly(d, w, k) EXCEPT ![w[k + 1][1]] = w[k + 1][2]] = Partly(d, w, k + 1)
  <1>1. Len(w) \in Nat /\ DOMAIN w = 1..Len(w)
    BY LenProperties DEF WriteSequence
  <1>2. k + 1 \in 1..Len(w) /\ Len(w) \in k + 1..Len(w)
    BY <1>1
  <1>3. Head(Rest(w, k)) = w[k + 1] /\ Tail(Rest(w, k)) = Rest(w, k + 1)
    BY <1>2, HeadTailOfSubSeq DEF Rest, WriteSequence
  <1>4. Settled(d, w)[w[k + 1][1]] = w[k + 1][2]
    BY <1>1, <1>2, SettledAt
  <1>5. {w[j][1] : j \in 1..k + 1} = {w[j][1] : j \in 1..k} \cup {w[k + 1][1]}
    <2>1. 1..k + 1 = (1..k) \cup {k + 1}
      OBVIOUS
    <2> QED BY <2>1, Zenon
  <1>6. [Partly(d, w, k) EXCEPT ![w[k + 1][1]] = w[k + 1][2]] = Partly(d, w, k + 1)
    <2> DEFINE e == [Partly(d, w, k) EXCEPT ![w[k + 1][1]] = w[k + 1][2]]
               x == w[k + 1][1]
    <2>1. IsDisk(e) /\ IsDisk(Partly(d, w, k + 1))
      BY DEF IsDisk, Partly
    <2>2. ASSUME NEW s \in SectorNumbers PROVE e[s] = Partly(d, w, k + 1)[s]
      <3>1. s \in {w[j][1] : j \in 1..k + 1} <=> s \in {w[j][1] : j \in 1..k} \/ s = x
        BY <1>5
      <3>2. Partly(d, w, k + 1)[s] = IF s \in {w[j][1] : j \in 1..k} \/ s = x
                                      THEN Settled(d, w)[s] ELSE d[s]
        BY <3>1, Zenon DEF Partly
      <3>3. s = x => e[s] = w[k + 1][2]
        BY DEF Partly
      <3>4. s # x => e[s] = IF s \in {w[j][1] : j \in 1..k} THEN Settled(d, w)[s] ELSE d[s]
        BY DEF Partly
      <3> QED BY <1>4, <3>2, <3>3, <3>4
    <2> QED BY <2>1, <2>2, SameDisk
  <1> QED BY <1>2, <1>3, <1>6

\* However many of the writes are done, the disk settles to the same.
LEMMA SettledTheSame ==
    ASSUME NEW d, NEW w, WriteSequence(w), NEW k \in Nat, k <= Len(w)
    PROVE  Settled(Partly(d, w, k), Rest(w, k)) = Settled(d, w)
  <1> DEFINE p == Partly(d, w, k)
             r == Rest(w, k)
  <1>1. /\ Len(w) \in Nat /\ DOMAIN w = 1..Len(w)
        /\ DOMAIN r = 1..Len(w) - k
        /\ \A i \in 1..Len(w) - k : r[i] = w[k + i]
        /\ r \in Seq(Range(w))
    BY RestFacts
  <1>2. WriteSequence(r)
    <2>1. r \in Seq(Range(r))
      BY <1>1, SeqOfRange
    <2>2. ASSUME NEW i \in DOMAIN r PROVE r[i][1] \in SectorNumbers
      <3>1. k + i \in DOMAIN w /\ r[i] = w[k + i]
        BY <1>1
      <3> QED BY <3>1 DEF WriteSequence
    <2>3. SectorsApart(r)
      <3>1. ASSUME NEW i \in DOMAIN r, NEW j \in DOMAIN r, r[i][1] = r[j][1]
            PROVE  i = j
        <4>1. k + i \in DOMAIN w /\ k + j \in DOMAIN w /\ w[k + i][1] = w[k + j][1]
          BY <1>1, <3>1
        <4>2. k + i = k + j
          BY <4>1 DEF WriteSequence, SectorsApart
        <4> QED BY <1>1, <4>2
      <3> QED BY <3>1 DEF SectorsApart
    <2> QED BY <2>1, <2>2, <2>3 DEF WriteSequence
  <1>3. ASSUME NEW s \in SectorNumbers
        PROVE  Settled(p, r)[s] = Settled(d, w)[s]
    <2>1. CASE \E i \in DOMAIN r : r[i][1] = s
      <3>1. PICK i \in DOMAIN r : r[i][1] = s
        BY <2>1
      <3>2. Settled(p, r)[s] = r[i][2]
        BY <1>2, <3>1, SettledAt
      <3>3. k + i \in DOMAIN w /\ w[k + i] = r[i]
        BY <1>1
      <3>4. Settled(d, w)[s] = r[i][2]
        BY <3>1, <3>3, SettledAt
      <3> QED BY <3>2, <3>4
    <2>2. CASE \A i \in DOMAIN r : r[i][1] # s
      <3>1. Settled(p, r)[s] = p[s]
        BY <1>2, <2>2, SettledAt
      <3>2. CASE s \in {w[j][1] : j \in 1..k}
        BY <3>1, <3>2 DEF Partly
      <3>3. CASE s \notin {w[j][1] : j \in 1..k}
        <4>1. p[s] = d[s]
          BY <3>3 DEF Partly
        <4>2. ASSUME NEW j \in DOMAIN w PROVE w[j][1] # s
          <5>1. CASE j <= k
            BY <1>1, <3>3, <5>1
          <5>2. CASE j > k
            <6>1. j - k \in 1..Len(w) - k /\ k + (j - k) = j
              BY <1>1, <5>2
            <6>2. r[j - k] = w[j] /\ j - k \in DOMAIN r
              BY <1>1, <6>1
            <6> QED BY <2>2, <6>2
          <5> QED BY <1>1, <5>1, <5>2
        <4> QED BY <3>1, <4>1, <4>2, SettledAt
      <3> QED BY <3>2, <3>3
    <2> QED BY <2>1, <2>2
  <1>4. IsDisk(Settled(p, r)) /\ IsDisk(Settled(d, w))
    BY <1>2, SettledAt
  <1> QED BY <1>3, <1>4, SameDisk

-----------------------------------------------------------------------------
(* What a consistent disk holds *)

StoredNames ==
  {NULL} \cup {Short(n) : n \in FileNames} \cup {Short(InitialFiles[k]) : k \in 1..2}
Entries == [inUse : BOOLEAN, sector : SectorNumbers, name : StoredNames]
Tables == [1..NumDirEntries -> Entries]

\* A header with a sector of its own for each part of the file, and room for them.
IsHeader(c) ==
  /\ c = HeaderOf(c.numBytes, c.dataSectors)
  /\ c.numBytes \in Nat
  /\ divRoundUp(c.numBytes, SectorSize) <= NumDirect
  /\ c.dataSectors \in [1..divRoundUp(c.numBytes, SectorSize) -> SectorNumbers]
  /\ \A j, k \in 1..divRoundUp(c.numBytes, SectorSize) :
       c.dataSectors[j] = c.dataSectors[k] => j = k

\* The map has one sector and the directory two, beside those of their headers.
SpecialFiles(d) ==
  /\ d[FreeMapSector].dataSectors
       \in [1..1 -> SectorNumbers \ {FreeMapSector, DirectorySector}]
  /\ DirectorySectors(d)
       \in [1..2 -> SectorNumbers \ {FreeMapSector, DirectorySector, MapSector(d)}]
  /\ DirectorySectors(d)[1] # DirectorySectors(d)[2]

\* What is marked is what the special and the listed files own.
MapExact(d) ==
  FreeMap(d) = SpecialSectors(d) \cup UNION {OwnedBy(d, i) : i \in Listed(d)}

\* The sector and the header of a listed file.
FileAt(d, i) ==
  LET s == Directory(d)[i].sector IN
  /\ IsHeader(d[s])
  /\ s \notin Range(d[s].dataSectors)
  /\ OwnedBy(d, i) \cap SpecialSectors(d) = {}

\* Two listed files share neither a sector nor a name.
FilesApart(d) ==
  \A i, j \in Listed(d) :
    i # j => /\ OwnedBy(d, i) \cap OwnedBy(d, j) = {}
             /\ Directory(d)[i].name # Directory(d)[j].name

\* Add takes the first free entry, so that a name which a free entry still holds
\* is listed, if at all, further to the front.
StaleBehind(table) ==
  \A i, j \in 1..NumDirEntries :
    ~table[i].inUse /\ table[j].inUse /\ table[i].name = table[j].name => j < i

GoodDisk(d) ==
  /\ IsDisk(d)
  /\ SpecialFiles(d)
  /\ Directory(d) \in Tables
  /\ MapExact(d)
  /\ \A i \in Listed(d) : FileAt(d, i)
  /\ FilesApart(d)
  /\ StaleBehind(Directory(d))

-----------------------------------------------------------------------------
(* The parts of the directory *)

LEMMA EntryFacts ==
    ASSUME NEW t \in Tables, NEW i \in 1..NumDirEntries
    PROVE  /\ t[i] \in Entries
           /\ t[i].inUse \in BOOLEAN
           /\ t[i].sector \in SectorNumbers
           /\ t[i].name \in StoredNames
           /\ t[i] = [inUse |-> t[i].inUse, sector |-> t[i].sector, name |-> t[i].name]
  BY DEF Tables, Entries

\* An entry of a directory of which the first part has the entries of t, and the
\* second those of u.
LEMMA Torn ==
    ASSUME NEW t \in Tables, NEW u \in Tables, NEW i \in 1..NumDirEntries
    PROVE  /\ i < Straddling => DirectoryFrom(FirstPart(t), SecondPart(u))[i] = t[i]
           /\ i > Straddling => DirectoryFrom(FirstPart(t), SecondPart(u))[i] = u[i]
           /\ i = Straddling =>
                DirectoryFrom(FirstPart(t), SecondPart(u))[i]
                  = [inUse |-> t[i].inUse, sector |-> t[i].sector, name |-> u[i].name]
  <1> DEFINE a == FirstPart(t)
             b == SecondPart(u)
  <1> USE FileSystemAssumption
  <1>1. DirectoryFrom(a, b)[i] =
          LET use == IF i <= Straddling THEN a.use[i] ELSE b.use[i] IN
          [inUse |-> use[1], sector |-> use[2],
           name |-> IF i < Straddling THEN a.name[i] ELSE b.name[i]]
    BY DEF DirectoryFrom
  <1>2. i <= Straddling => a.use[i] = <<t[i].inUse, t[i].sector>>
    BY DEF FirstPart
  <1>3. i < Straddling => a.name[i] = t[i].name
    BY DEF FirstPart
  <1>4. i > Straddling => b.use[i] = <<u[i].inUse, u[i].sector>>
    BY DEF SecondPart
  <1>5. i >= Straddling => b.name[i] = u[i].name
    BY DEF SecondPart
  <1> HIDE DEF a, b
  <1>6. /\ t[i] = [inUse |-> t[i].inUse, sector |-> t[i].sector, name |-> t[i].name]
        /\ u[i] = [inUse |-> u[i].inUse, sector |-> u[i].sector, name |-> u[i].name]
    BY EntryFacts
  <1>7. CASE i < Straddling
    <2>1. a.use[i] = <<t[i].inUse, t[i].sector>> /\ a.name[i] = t[i].name
      BY <1>2, <1>3, <1>7
    <2>2. DirectoryFrom(a, b)[i]
            = [inUse |-> a.use[i][1], sector |-> a.use[i][2], name |-> a.name[i]]
      BY <1>1, <1>7
    <2> QED BY <1>6, <1>7, <2>1, <2>2 DEF a, b
  <1>8. CASE i = Straddling
    <2>1. a.use[i] = <<t[i].inUse, t[i].sector>> /\ b.name[i] = u[i].name
      BY <1>2, <1>5, <1>8
    <2>2. DirectoryFrom(a, b)[i]
            = [inUse |-> a.use[i][1], sector |-> a.use[i][2], name |-> b.name[i]]
      BY <1>1, <1>8
    <2> QED BY <1>8, <2>1, <2>2 DEF a, b
  <1>9. CASE i > Straddling
    <2>1. b.use[i] = <<u[i].inUse, u[i].sector>> /\ b.name[i] = u[i].name
      BY <1>4, <1>5, <1>9
    <2>2. DirectoryFrom(a, b)[i]
            = [inUse |-> b.use[i][1], sector |-> b.use[i][2], name |-> b.name[i]]
      BY <1>1, <1>9
    <2> QED BY <1>6, <1>9, <2>1, <2>2 DEF a, b
  <1> QED BY <1>7, <1>8, <1>9

LEMMA TableEqual ==
    ASSUME NEW a, NEW b, NEW t \in Tables,
           \A i \in 1..NumDirEntries : DirectoryFrom(a, b)[i] = t[i]
    PROVE  DirectoryFrom(a, b) = t
  BY DEF DirectoryFrom, Tables

\* FetchFrom after WriteBack.
LEMMA RoundTrip ==
    ASSUME NEW t \in Tables
    PROVE  DirectoryFrom(FirstPart(t), SecondPart(t)) = t
  <1>1. ASSUME NEW i \in 1..NumDirEntries
        PROVE  DirectoryFrom(FirstPart(t), SecondPart(t))[i] = t[i]
    <2>1. t[i] = [inUse |-> t[i].inUse, sector |-> t[i].sector, name |-> t[i].name]
      BY EntryFacts
    <2> QED BY <2>1, Torn, FileSystemAssumption
  <1> QED BY <1>1, TableEqual

-----------------------------------------------------------------------------
(* The sectors of files *)

LEMMA SectorNumberFacts ==
  /\ SectorNumbers \subseteq Nat
  /\ IsFiniteSet(SectorNumbers) /\ Cardinality(SectorNumbers) = NumSectors
  /\ FreeMapSector \in SectorNumbers /\ DirectorySector \in SectorNumbers
  /\ FreeMapSector # DirectorySector
  <1> USE FileSystemAssumption
  <1>1. IsFiniteSet(0..NumSectors - 1) /\ Cardinality(0..NumSectors - 1) = NumSectors
    BY FS_Interval
  <1> QED BY <1>1 DEF SectorNumbers, FreeMapSector, DirectorySector

LEMMA RoundUpFacts ==
    ASSUME NEW n \in Nat
    PROVE  /\ divRoundUp(n, SectorSize) \in Nat
           /\ \A p \in Nat : p < n => p \div SectorSize + 1 \in 1..divRoundUp(n, SectorSize)
  <1>1. SectorSize \in Nat \ {0}
    BY FileSystemAssumption
  <1>2. divRoundUp(n, SectorSize) = (n + SectorSize - 1) \div SectorSize
    BY DEF divRoundUp
  <1>3. (n + SectorSize - 1) \div SectorSize \in Nat
    BY <1>1
  <1>4. ASSUME NEW p \in Nat, p < n
        PROVE  p \div SectorSize + 1 \in 1..(n + SectorSize - 1) \div SectorSize
    BY <1>1, <1>4
  <1> QED BY <1>2, <1>3, <1>4

LEMMA SpecialIs ==
    ASSUME NEW d, SpecialFiles(d)
    PROVE  /\ SpecialSectors(d) = {FreeMapSector, DirectorySector, MapSector(d),
                                   DirectorySectors(d)[1], DirectorySectors(d)[2]}
           /\ SpecialSectors(d) \subseteq SectorNumbers
           /\ MapSector(d) \notin {FreeMapSector, DirectorySector}
           /\ DirectorySectors(d)[1]
                \notin {FreeMapSector, DirectorySector, MapSector(d), DirectorySectors(d)[2]}
           /\ DirectorySectors(d)[2] \notin {FreeMapSector, DirectorySector, MapSector(d)}
  <1>1. Range(d[FreeMapSector].dataSectors) = {MapSector(d)}
    <2>1. DOMAIN d[FreeMapSector].dataSectors = {1}
      BY DEF SpecialFiles
    <2> QED BY <2>1 DEF Range, MapSector
  <1>2. Range(DirectorySectors(d)) = {DirectorySectors(d)[1], DirectorySectors(d)[2]}
    <2>1. DOMAIN DirectorySectors(d) = {1, 2}
      BY DEF SpecialFiles
    <2> QED BY <2>1 DEF Range
  <1>3. /\ MapSector(d) \in SectorNumbers \ {FreeMapSector, DirectorySector}
        /\ DirectorySectors(d)[1]
             \in SectorNumbers \ {FreeMapSector, DirectorySector, MapSector(d)}
        /\ DirectorySectors(d)[2]
             \in SectorNumbers \ {FreeMapSector, DirectorySector, MapSector(d)}
        /\ DirectorySectors(d)[1] # DirectorySectors(d)[2]
    BY DEF SpecialFiles, MapSector
  <1>4. SpecialSectors(d) = {FreeMapSector, DirectorySector, MapSector(d),
                             DirectorySectors(d)[1], DirectorySectors(d)[2]}
    BY <1>1, <1>2 DEF SpecialSectors
  <1> QED BY <1>3, <1>4, SectorNumberFacts

LEMMA ListedFacts ==
    ASSUME NEW d, NEW i \in Listed(d)
    PROVE  i \in 1..NumDirEntries /\ Directory(d)[i].inUse
  BY DEF Listed

\* What a header lists: as many sectors as the file has parts.
LEMMA HeaderFacts ==
    ASSUME NEW c, IsHeader(c)
    PROVE  /\ DOMAIN c.dataSectors = 1..divRoundUp(c.numBytes, SectorSize)
           /\ Range(c.dataSectors) \subseteq SectorNumbers
           /\ IsFiniteSet(Range(c.dataSectors))
           /\ Len(c.dataSectors) = divRoundUp(c.numBytes, SectorSize)
           /\ Cardinality(Range(c.dataSectors)) = divRoundUp(c.numBytes, SectorSize)
  <1> DEFINE n == divRoundUp(c.numBytes, SectorSize)
             f == c.dataSectors
  <1>1. n \in Nat
    BY RoundUpFacts DEF IsHeader
  <1>2. /\ f \in [1..n -> SectorNumbers]
        /\ \A j, k \in 1..n : f[j] = f[k] => j = k
    BY DEF IsHeader
  <1> HIDE DEF n, f
  <1>3. Range(f) \subseteq SectorNumbers
    BY <1>2 DEF Range
  <1>4. f \in [1..n -> Range(f)] /\ \A y \in Range(f) : \E x \in 1..n : f[x] = y
    BY <1>2 DEF Range
  <1>5. f \in Bijection(1..n, Range(f))
    BY <1>2, <1>4, Fun_IsBij
  <1>6. IsFiniteSet(1..n) /\ Cardinality(1..n) = n
    <2>1. IsFiniteSet(1..n) /\ Cardinality(1..n) = IF 1 > n THEN 0 ELSE n - 1 + 1
      BY <1>1, FS_Interval
    <2> QED BY <1>1, <2>1
  <1>7. ExistsBijection(1..n, Range(f))
    BY <1>5 DEF ExistsBijection
  <1>8. IsFiniteSet(Range(f)) /\ Cardinality(Range(f)) = n
    BY <1>6, <1>7, FS_Bijection
  <1>9. f \in Seq(SectorNumbers) /\ Len(f) = n
    BY <1>1, <1>2
  <1> QED BY <1>2, <1>3, <1>8, <1>9 DEF n, f

\* The invariant of the disk is as strong as what is checked of it.
LEMMA GoodIsConsistent ==
    ASSUME NEW d, GoodDisk(d)
    PROVE  Consistent(d)
  <1> DEFINE table == Directory(d)
  <1>1. FreeMap(d) = SpecialSectors(d) \cup UNION {OwnedBy(d, i) : i \in Listed(d)}
    BY DEF GoodDisk, MapExact
  <1>2. ASSUME NEW i \in Listed(d)
        PROVE  LET hdr == d[table[i].sector] IN
               /\ hdr.is = "header"
               /\ Len(hdr.dataSectors) = divRoundUp(hdr.numBytes, SectorSize)
               /\ Len(hdr.dataSectors) <= NumDirect
               /\ Cardinality(OwnedBy(d, i)) = 1 + Len(hdr.dataSectors)
               /\ OwnedBy(d, i) \cap SpecialSectors(d) = {}
               /\ \A j \in Listed(d) \ {i} :
                    OwnedBy(d, i) \cap OwnedBy(d, j) = {} /\ table[i].name # table[j].name
    <2> DEFINE s == table[i].sector
               hdr == d[s]
    <2>1. /\ IsHeader(hdr) /\ s \notin Range(hdr.dataSectors)
          /\ OwnedBy(d, i) \cap SpecialSectors(d) = {}
      BY DEF GoodDisk, FileAt
    <2>2. \A j \in Listed(d) \ {i} :
            OwnedBy(d, i) \cap OwnedBy(d, j) = {} /\ table[i].name # table[j].name
      BY DEF GoodDisk, FilesApart
    <2>3. OwnedBy(d, i) = Range(hdr.dataSectors) \cup {s}
      BY DEF OwnedBy
    <2> HIDE DEF table, s, hdr
    <2>4. /\ IsFiniteSet(Range(hdr.dataSectors))
          /\ Len(hdr.dataSectors) = divRoundUp(hdr.numBytes, SectorSize)
          /\ Cardinality(Range(hdr.dataSectors)) = divRoundUp(hdr.numBytes, SectorSize)
      BY <2>1, HeaderFacts
    <2>5. Cardinality(OwnedBy(d, i)) = Cardinality(Range(hdr.dataSectors)) + 1
      BY <2>1, <2>3, <2>4, FS_AddElement
    <2>6. divRoundUp(hdr.numBytes, SectorSize) \in Nat
      BY <2>1, RoundUpFacts DEF IsHeader
    <2>7. hdr.is = "header" /\ divRoundUp(hdr.numBytes, SectorSize) <= NumDirect
      BY <2>1 DEF IsHeader, HeaderOf
    <2> QED BY <2>1, <2>2, <2>4, <2>5, <2>6, <2>7 DEF s, hdr
  <1> QED BY <1>1, <1>2 DEF Consistent

-----------------------------------------------------------------------------
(* FindAndSet and Allocate *)

\* The first n sectors of a set, in their order.
FirstOf(clear, n, s) ==
  /\ s \in [1..n -> clear]
  /\ \A j, k \in 1..n : j < k => s[j] < s[k]
  /\ \A c \in clear : (\E k \in 1..n : c < s[k]) => c \in Range(s)

\* One more can be found while there are more.
LEMMA OneMore ==
    ASSUME NEW clear, clear \subseteq Nat, IsFiniteSet(clear),
           NEW n \in Nat, n < Cardinality(clear), NEW s, FirstOf(clear, n, s)
    PROVE  \E t : FirstOf(clear, n + 1, t)
  <1>1. s \in [1..n -> clear] /\ Range(s) \subseteq clear
    BY DEF FirstOf, Range
  <1>2. clear \ Range(s) # {}
    <2>1. s \in Surjection(1..n, Range(s))
      BY <1>1, Fun_RangeProperties
    <2>2. IsFiniteSet(1..n) /\ Cardinality(1..n) = n
      <3>1. IsFiniteSet(1..n) /\ Cardinality(1..n) = IF 1 > n THEN 0 ELSE n - 1 + 1
        BY FS_Interval
      <3> QED BY <3>1
    <2>3. Cardinality(Range(s)) <= n
      BY <2>1, <2>2, FS_Surjection
    <2>4. CASE clear \ Range(s) = {}
      <3>1. clear = Range(s)
        BY <1>1, <2>4
      <3>2. Cardinality(clear) <= n /\ Cardinality(clear) \in Nat
        BY <2>3, <3>1, FS_CardinalityType
      <3> QED BY <3>2
    <2> QED BY <2>4
  <1> DEFINE x == Min(clear \ Range(s))
             t == [k \in 1..n + 1 |-> IF k = n + 1 THEN x ELSE s[k]]
  <1>3. x \in clear /\ x \notin Range(s) /\ \A c \in clear \ Range(s) : x <= c
    <2>1. clear \ Range(s) \subseteq Nat
      OBVIOUS
    <2> QED BY <1>2, <2>1, MinOf
  <1> HIDE DEF x
  <1>4. t \in [1..n + 1 -> clear] /\ t[n + 1] = x /\ \A k \in 1..n : t[k] = s[k]
    <2>1. \A k \in 1..n + 1 : k # n + 1 => k \in 1..n
      OBVIOUS
    <2> QED BY <1>1, <1>3, <2>1
  <1> HIDE DEF t
  <1>5. \A k \in 1..n : s[k] < x
    <2> SUFFICES ASSUME NEW k \in 1..n PROVE s[k] < x
      OBVIOUS
    <2>1. s[k] \in Range(s) /\ s[k] \in Nat
      BY <1>1 DEF Range
    <2>2. ~ (x < s[k])
      BY <1>3 DEF FirstOf
    <2>3. s[k] # x /\ x \in Nat
      BY <1>3, <2>1
    <2> QED BY <2>1, <2>2, <2>3
  <1>6. ASSUME NEW j \in 1..n + 1, NEW k \in 1..n + 1, j < k PROVE t[j] < t[k]
    <2>1. j \in 1..n
      BY <1>6
    <2>2. CASE k = n + 1
      BY <1>4, <1>5, <2>1, <2>2
    <2>3. CASE k # n + 1
      <3>1. k \in 1..n
        BY <2>3
      <3> QED BY <1>4, <1>6, <2>1, <3>1 DEF FirstOf
    <2> QED BY <2>2, <2>3
  <1>7. Range(s) \subseteq Range(t)
    <2>1. ASSUME NEW k \in 1..n PROVE s[k] \in Range(t)
      <3>1. k \in 1..n + 1
        OBVIOUS
      <3> QED BY <1>4, <3>1 DEF Range
    <2> QED BY <1>1, <2>1 DEF Range
  <1>8. ASSUME NEW c \in clear, NEW k \in 1..n + 1, c < t[k] PROVE c \in Range(t)
    <2>1. CASE k = n + 1
      <3>1. c < x /\ c \in Nat /\ x \in Nat
        BY <1>3, <1>4, <1>8, <2>1
      <3>2. c \in Range(s)
        BY <1>3, <3>1
      <3> QED BY <1>7, <3>2
    <2>2. CASE k # n + 1
      <3>1. k \in 1..n
        BY <2>2
      <3>2. c < s[k]
        BY <1>4, <1>8, <3>1
      <3>3. c \in Range(s)
        BY <3>1, <3>2 DEF FirstOf
      <3> QED BY <1>7, <3>3
    <2> QED BY <2>1, <2>2
  <1>9. FirstOf(clear, n + 1, t)
    <2>1. \A c \in clear : (\E k \in 1..n + 1 : c < t[k]) => c \in Range(t)
      BY <1>8
    <2>2. \A j, k \in 1..n + 1 : j < k => t[j] < t[k]
      BY <1>6
    <2> QED BY <1>4, <2>1, <2>2 DEF FirstOf
  <1> QED BY <1>9

\* As many can be found as there are.
LEMMA FirstExist ==
    ASSUME NEW clear, clear \subseteq Nat, IsFiniteSet(clear),
           NEW n \in Nat, n <= Cardinality(clear)
    PROVE  \E s : FirstOf(clear, n, s)
  <1>1. Cardinality(clear) \in Nat
    BY FS_CardinalityType
  <1> DEFINE Lacking == {k \in Nat : k <= Cardinality(clear) /\ ~ \E s : FirstOf(clear, k, s)}
  <1>2. Lacking \subseteq Nat /\ \A k \in Lacking : k <= Cardinality(clear)
    OBVIOUS
  <1>3. 0 \notin Lacking
    <2>1. FirstOf(clear, 0, <<>>)
      <3>1. 1..0 = {}
        OBVIOUS
      <3>2. <<>> \in [1..0 -> clear]
        BY <3>1
      <3> QED BY <3>1, <3>2 DEF FirstOf
    <2> QED BY <2>1
  <1>4. CASE Lacking # {}
    <2> DEFINE m == Min(Lacking)
    <2>1. m \in Lacking /\ \A k \in Lacking : m <= k
      <3> HIDE DEF Lacking
      <3> QED BY <1>2, <1>4, MinOf
    <2> HIDE DEF m
    <2>2. m \in Nat /\ m # 0 /\ m <= Cardinality(clear)
      BY <1>3, <2>1
    <2>3. m - 1 \in Nat /\ m - 1 < Cardinality(clear) /\ m - 1 < m /\ (m - 1) + 1 = m
      BY <1>1, <2>2
    <2>4. m - 1 \notin Lacking
      <3> HIDE DEF Lacking
      <3> QED BY <2>1, <2>2, <2>3
    <2>5. PICK s : FirstOf(clear, m - 1, s)
      BY <1>1, <2>3, <2>4
    <2>6. \E t : FirstOf(clear, (m - 1) + 1, t)
      BY <2>3, <2>5, OneMore
    <2>7. ~ \E t : FirstOf(clear, m, t)
      BY <2>1
    <2> QED BY <2>3, <2>6, <2>7
  <1>5. CASE Lacking = {}
    BY <1>5
  <1> QED BY <1>4, <1>5

\* Clear gives numbers of sectors, of which there are finitely many.
LEMMA ClearFacts ==
    ASSUME NEW marked
    PROVE  /\ Clear(marked) \subseteq SectorNumbers /\ Clear(marked) \subseteq Nat
           /\ Clear(marked) \cap marked = {}
           /\ IsFiniteSet(Clear(marked))
  BY SectorNumberFacts, FS_Subset DEF Clear

LEMMA FindAndSetFinds ==
    ASSUME NEW marked, NEW n \in Nat, n <= Cardinality(Clear(marked))
    PROVE  FirstOf(Clear(marked), n, FindAndSet(marked, n))
  <1> DEFINE C == Clear(marked)
  <1>1. \E s : FirstOf(C, n, s)
    BY ClearFacts, FirstExist
  <1>2. \E s \in [1..n -> C] : FirstOf(C, n, s)
    BY <1>1 DEF FirstOf
  <1>3. FindAndSet(marked, n) = CHOOSE s \in [1..n -> C] : FirstOf(C, n, s)
    BY Zenon DEF FindAndSet, FirstOf
  <1> HIDE DEF C
  <1>4. FirstOf(C, n, CHOOSE s \in [1..n -> C] : FirstOf(C, n, s))
    BY <1>2, Zenon
  <1> QED BY <1>3, <1>4 DEF C

\* The header that Allocate makes, of sectors that were clear.
LEMMA AllocateFacts ==
    ASSUME NEW marked, NEW size \in Nat, Allocates(marked, size), ~TooLong(size)
    PROVE  /\ IsHeader(Allocate(marked, size))
           /\ Allocate(marked, size).numBytes = size
           /\ Range(Allocate(marked, size).dataSectors) \subseteq Clear(marked)
  <1> DEFINE n == divRoundUp(size, SectorSize)
             f == FindAndSet(marked, n)
             c == Allocate(marked, size)
  <1>1. n \in Nat
    BY RoundUpFacts
  <1>2. n <= Cardinality(Clear(marked))
    <2>1. Cardinality(Clear(marked)) \in Nat
      BY ClearFacts, FS_CardinalityType
    <2> QED BY <1>1, <2>1 DEF Allocates
  <1>3. c = HeaderOf(size, f) /\ c.numBytes = size /\ c.dataSectors = f
    BY DEF Allocate, HeaderOf
  <1>4. FirstOf(Clear(marked), n, f)
    BY <1>1, <1>2, FindAndSetFinds
  <1> HIDE DEF n, f, c
  <1>5. f \in [1..n -> Clear(marked)] /\ \A j, k \in 1..n : j < k => f[j] < f[k]
    BY <1>4 DEF FirstOf
  <1>6. ASSUME NEW j \in 1..n, NEW k \in 1..n, f[j] = f[k] PROVE j = k
    <2>1. f[j] \in Nat /\ f[k] \in Nat
      BY <1>5, ClearFacts
    <2>2. ~ (j < k) /\ ~ (k < j)
      BY <1>5, <1>6, <2>1
    <2> QED BY <2>2
  <1>7. f \in [1..n -> SectorNumbers] /\ Range(f) \subseteq Clear(marked)
    BY <1>5, ClearFacts DEF Range
  <1>8. IsHeader(c)
    <2>1. divRoundUp(c.numBytes, SectorSize) = n
      BY <1>3 DEF n
    <2>2. n <= NumDirect
      BY <1>1, FileSystemAssumption DEF TooLong, n
    <2> QED BY <1>3, <1>6, <1>7, <2>1, <2>2 DEF IsHeader
  <1> QED BY <1>3, <1>7, <1>8 DEF c

-----------------------------------------------------------------------------
(* What an operation leaves as it is *)

LEMMA SameSpecial ==
    ASSUME NEW d, NEW e, e[FreeMapSector] = d[FreeMapSector],
           e[DirectorySector] = d[DirectorySector]
    PROVE  /\ MapSector(e) = MapSector(d)
           /\ DirectorySectors(e) = DirectorySectors(d)
           /\ SpecialSectors(e) = SpecialSectors(d)
           /\ SpecialFiles(d) => SpecialFiles(e)
  BY DEF MapSector, DirectorySectors, SpecialSectors, SpecialFiles

LEMMA SameFile ==
    ASSUME NEW d, NEW e, NEW i,
           Directory(e)[i].sector = Directory(d)[i].sector,
           e[Directory(d)[i].sector] = d[Directory(d)[i].sector]
    PROVE  OwnedBy(e, i) = OwnedBy(d, i)
  BY DEF OwnedBy

\* The sectors of a listed file: marked, and none of them special.
LEMMA OwnedFacts ==
    ASSUME NEW d, GoodDisk(d), NEW i \in Listed(d)
    PROVE  /\ i \in 1..NumDirEntries /\ Directory(d)[i].inUse
           /\ Directory(d)[i].sector \in OwnedBy(d, i)
           /\ Directory(d)[i].sector \in SectorNumbers
           /\ IsHeader(d[Directory(d)[i].sector])
           /\ Range(d[Directory(d)[i].sector].dataSectors) \subseteq OwnedBy(d, i)
           /\ Directory(d)[i].sector \notin Range(d[Directory(d)[i].sector].dataSectors)
           /\ OwnedBy(d, i) \subseteq SectorNumbers
           /\ OwnedBy(d, i) \subseteq FreeMap(d)
           /\ OwnedBy(d, i) \cap SpecialSectors(d) = {}
  <1> DEFINE s == Directory(d)[i].sector
             f == d[s].dataSectors
  <1>1. i \in 1..NumDirEntries /\ Directory(d)[i].inUse
    BY ListedFacts
  <1>2. OwnedBy(d, i) = {s} \cup Range(f)
    BY DEF OwnedBy
  <1>3. IsHeader(d[s]) /\ s \notin Range(f) /\ OwnedBy(d, i) \cap SpecialSectors(d) = {}
    BY DEF GoodDisk, FileAt
  <1>4. Range(f) \subseteq SectorNumbers
    BY <1>3, HeaderFacts
  <1>5. s \in SectorNumbers
    BY <1>1, EntryFacts DEF GoodDisk
  <1>6. OwnedBy(d, i) \subseteq FreeMap(d)
    BY DEF GoodDisk, MapExact
  <1> QED BY <1>1, <1>2, <1>3, <1>4, <1>5, <1>6

LEMMA SpecialMarked ==
    ASSUME NEW d, GoodDisk(d)
    PROVE  SpecialSectors(d) \subseteq FreeMap(d)
  BY DEF GoodDisk, MapExact

-----------------------------------------------------------------------------
(* Short sequences of writes *)

LEMMA ThreeWrites ==
    ASSUME NEW x1, NEW x2, NEW x3, NEW c1, NEW c2, NEW c3,
           x1 \in SectorNumbers, x2 \in SectorNumbers, x3 \in SectorNumbers,
           x1 # x2, x1 # x3, x2 # x3
    PROVE  WriteSequence(<< <<x1, c1>>, <<x2, c2>>, <<x3, c3>> >>)
  <1> DEFINE w == << <<x1, c1>>, <<x2, c2>>, <<x3, c3>> >>
  <1>1. DOMAIN w = 1..3 /\ 1..3 = {1, 2, 3}
    OBVIOUS
  <1>2. w[1] = <<x1, c1>> /\ w[2] = <<x2, c2>> /\ w[3] = <<x3, c3>>
    OBVIOUS
  <1>3. w \in Seq({<<x1, c1>>, <<x2, c2>>, <<x3, c3>>})
    OBVIOUS
  <1>4. w \in Seq(Range(w))
    <2> HIDE DEF w
    <2> QED BY <1>3, SeqOfRange
  <1> HIDE DEF w
  <1>5. \A k \in DOMAIN w : w[k][1] \in SectorNumbers
    BY <1>1, <1>2
  <1>6. SectorsApart(w)
    BY <1>1, <1>2 DEF SectorsApart
  <1> QED BY <1>4, <1>5, <1>6 DEF WriteSequence, w

LEMMA FourWrites ==
    ASSUME NEW x1, NEW x2, NEW x3, NEW x4, NEW c1, NEW c2, NEW c3, NEW c4,
           x1 \in SectorNumbers, x2 \in SectorNumbers,
           x3 \in SectorNumbers, x4 \in SectorNumbers,
           x1 # x2, x1 # x3, x1 # x4, x2 # x3, x2 # x4, x3 # x4
    PROVE  WriteSequence(<< <<x1, c1>>, <<x2, c2>>, <<x3, c3>>, <<x4, c4>> >>)
  <1> DEFINE w == << <<x1, c1>>, <<x2, c2>>, <<x3, c3>>, <<x4, c4>> >>
  <1>1. DOMAIN w = 1..4 /\ 1..4 = {1, 2, 3, 4}
    OBVIOUS
  <1>2. w[1] = <<x1, c1>> /\ w[2] = <<x2, c2>> /\ w[3] = <<x3, c3>> /\ w[4] = <<x4, c4>>
    OBVIOUS
  <1>3. w \in Seq({<<x1, c1>>, <<x2, c2>>, <<x3, c3>>, <<x4, c4>>})
    OBVIOUS
  <1>4. w \in Seq(Range(w))
    <2> HIDE DEF w
    <2> QED BY <1>3, SeqOfRange
  <1> HIDE DEF w
  <1>5. \A k \in DOMAIN w : w[k][1] \in SectorNumbers
    BY <1>1, <1>2
  <1>6. SectorsApart(w)
    BY <1>1, <1>2 DEF SectorsApart
  <1> QED BY <1>4, <1>5, <1>6 DEF WriteSequence, w

\* The writes of the parts of an operation, one after the other.
LEMMA JoinThree ==
    ASSUME NEW x, NEW y, NEW z
    PROVE  <<x>> \o <<y, z>> = <<x, y, z>>
  <1> DEFINE S == {x, y, z}
             p == <<x>>
             q == <<y, z>>
             r == <<x, y, z>>
  <1>1. /\ p \in Seq(S) /\ Len(p) = 1 /\ p[1] = x
        /\ q \in Seq(S) /\ Len(q) = 2 /\ q[1] = y /\ q[2] = z
        /\ r \in Seq(S) /\ Len(r) = 3 /\ r[1] = x /\ r[2] = y /\ r[3] = z
    OBVIOUS
  <1> HIDE DEF S, p, q, r
  <1>2. /\ p \o q \in Seq(S) /\ Len(p \o q) = Len(p) + Len(q)
        /\ \A i \in 1..Len(p) + Len(q) :
             (p \o q)[i] = IF i <= Len(p) THEN p[i] ELSE q[i - Len(p)]
    BY <1>1, ConcatProperties
  <1>3. Len(p \o q) = 3 /\ (p \o q)[1] = x /\ (p \o q)[2] = y /\ (p \o q)[3] = z
    BY <1>1, <1>2
  <1>4. \A i \in 1..Len(p \o q) : (p \o q)[i] = r[i]
    BY <1>1, <1>3
  <1>5. p \o q = r
    BY <1>1, <1>2, <1>3, <1>4, SeqEqual
  <1> QED BY <1>5 DEF p, q, r

LEMMA JoinFour ==
    ASSUME NEW x, NEW y, NEW z, NEW u
    PROVE  <<x>> \o <<y, z>> \o <<u>> = <<x, y, z, u>>
  <1> DEFINE S == {x, y, z, u}
             p == <<x, y, z>>
             q == <<u>>
             r == <<x, y, z, u>>
  <1>1. /\ p \in Seq(S) /\ Len(p) = 3 /\ p[1] = x /\ p[2] = y /\ p[3] = z
        /\ q \in Seq(S) /\ Len(q) = 1 /\ q[1] = u
        /\ r \in Seq(S) /\ Len(r) = 4 /\ r[1] = x /\ r[2] = y /\ r[3] = z /\ r[4] = u
    OBVIOUS
  <1> HIDE DEF S, p, q, r
  <1>2. /\ p \o q \in Seq(S) /\ Len(p \o q) = Len(p) + Len(q)
        /\ \A i \in 1..Len(p) + Len(q) :
             (p \o q)[i] = IF i <= Len(p) THEN p[i] ELSE q[i - Len(p)]
    BY <1>1, ConcatProperties
  <1>3. /\ Len(p \o q) = 4 /\ (p \o q)[1] = x /\ (p \o q)[2] = y
        /\ (p \o q)[3] = z /\ (p \o q)[4] = u
    BY <1>1, <1>2
  <1>4. \A i \in 1..Len(p \o q) : (p \o q)[i] = r[i]
    BY <1>1, <1>3
  <1>5. p \o q = r
    BY <1>1, <1>2, <1>3, <1>4, SeqEqual
  <1> QED BY <1>5, JoinThree DEF p, q, r

-----------------------------------------------------------------------------
(* FileSystem::Create *)

NewSector(d) == Min(Clear(FreeMap(d)))
NewHeader(d, size) == Allocate(FreeMap(d) \cup {NewSector(d)}, size)
NewEntry(d) == Min(FreeEntries(Directory(d)))
NewTable(d, name) == Add(Directory(d), name, NewSector(d))
NewMap(d, size) == (FreeMap(d) \cup {NewSector(d)}) \cup Range(NewHeader(d, size).dataSectors)

LEMMA CreationIs ==
    ASSUME NEW d, NEW name, NEW size
    PROVE  Creation(d, name, size)
             = << <<NewSector(d), NewHeader(d, size)>>,
                  <<DirectorySectors(d)[1], FirstPart(NewTable(d, name))>>,
                  <<DirectorySectors(d)[2], SecondPart(NewTable(d, name))>>,
                  <<MapSector(d), MapOf(NewMap(d, size))>> >>
  BY JoinFour
     DEF Creation, WriteDirectory, WriteMap, NewSector, NewHeader, NewTable, NewMap

LEMMA NewFacts ==
    ASSUME NEW d, GoodDisk(d), NEW name, Short(name) \in StoredNames, NEW size \in Nat,
           CanCreate(d, name, size), ~TooLong(size)
    PROVE  /\ NewSector(d) \in SectorNumbers /\ NewSector(d) \notin FreeMap(d)
           /\ IsHeader(NewHeader(d, size)) /\ NewHeader(d, size).numBytes = size
           /\ NewSector(d) \notin Range(NewHeader(d, size).dataSectors)
           /\ Range(NewHeader(d, size).dataSectors) \subseteq SectorNumbers
           /\ Range(NewHeader(d, size).dataSectors) \cap FreeMap(d) = {}
  <1>1. NewSector(d) \in Clear(FreeMap(d))
    BY MinOf, ClearFacts DEF CanCreate, NewSector
  <1>2. Allocates(FreeMap(d) \cup {NewSector(d)}, size)
    BY DEF CanCreate, NewSector
  <1>3. /\ IsHeader(NewHeader(d, size)) /\ NewHeader(d, size).numBytes = size
        /\ Range(NewHeader(d, size).dataSectors) \subseteq Clear(FreeMap(d) \cup {NewSector(d)})
    BY <1>2, AllocateFacts DEF NewHeader
  <1> QED BY <1>1, <1>3 DEF Clear

\* The entry that Add fills.
LEMMA NewEntryFacts ==
    ASSUME NEW d, GoodDisk(d), NEW name, Short(name) \in StoredNames, NEW size \in Nat,
           CanCreate(d, name, size), ~TooLong(size)
    PROVE  /\ NewEntry(d) \in 1..NumDirEntries /\ ~Directory(d)[NewEntry(d)].inUse
           /\ \A i \in 1..NumDirEntries : ~Directory(d)[i].inUse => NewEntry(d) <= i
           /\ NewTable(d, name) \in Tables
           /\ NewTable(d, name)[NewEntry(d)]
                = [inUse |-> TRUE, sector |-> NewSector(d), name |-> Short(name)]
           /\ \A i \in 1..NumDirEntries :
                i # NewEntry(d) => NewTable(d, name)[i] = Directory(d)[i]
           /\ \A i \in 1..NumDirEntries :
                Directory(d)[i].inUse => Directory(d)[i].name # Short(name)
  <1> DEFINE t == Directory(d)
             a == NewEntry(d)
             r == [inUse |-> TRUE, sector |-> NewSector(d), name |-> Short(name)]
  <1>1. FreeEntries(t) # {} /\ FreeEntries(t) \subseteq Nat
    BY DEF CanCreate, FreeEntries
  <1>2. a \in FreeEntries(t) /\ \A i \in FreeEntries(t) : a <= i
    BY <1>1, MinOf DEF NewEntry
  <1>3. a \in 1..NumDirEntries /\ ~t[a].inUse
    BY <1>2 DEF FreeEntries
  <1>4. \A i \in 1..NumDirEntries : ~t[i].inUse => a <= i
    BY <1>2 DEF FreeEntries
  <1>5. NewTable(d, name) = [t EXCEPT ![a] = r]
    BY DEF NewTable, Add, NewEntry
  <1>6. t \in [1..NumDirEntries -> Entries]
    BY DEF GoodDisk, Tables
  <1>7. r \in Entries
    BY NewFacts DEF Entries
  <1>8. \A i \in 1..NumDirEntries : t[i].inUse => t[i].name # Short(name)
    <2>1. FindIndex(t, name) = {}
      BY DEF CanCreate
    <2>2. {i \in 1..NumDirEntries : t[i].inUse /\ t[i].name = Short(name)} = {}
      BY <2>1 DEF FindIndex
    <2> QED BY <2>2
  <1> HIDE DEF t, a, r
  <1>9. [t EXCEPT ![a] = r] \in [1..NumDirEntries -> Entries]
    BY <1>3, <1>6, <1>7
  <1>10. /\ [t EXCEPT ![a] = r][a] = r
         /\ \A i \in 1..NumDirEntries : i # a => [t EXCEPT ![a] = r][i] = t[i]
    BY <1>3, <1>6
  <1> QED BY <1>3, <1>4, <1>5, <1>8, <1>9, <1>10 DEF t, a, r, Tables

\* What is on the disk after Create.
LEMMA CreationWrites ==
    ASSUME NEW d, GoodDisk(d), NEW name, Short(name) \in StoredNames, NEW size \in Nat,
           CanCreate(d, name, size), ~TooLong(size)
    PROVE  /\ WriteSequence(Creation(d, name, size))
           /\ NewSector(d) \notin SpecialSectors(d)
           /\ LET e == Settled(d, Creation(d, name, size)) IN
              /\ IsDisk(e)
              /\ e[NewSector(d)] = NewHeader(d, size)
              /\ e[DirectorySectors(d)[1]] = FirstPart(NewTable(d, name))
              /\ e[DirectorySectors(d)[2]] = SecondPart(NewTable(d, name))
              /\ e[MapSector(d)] = MapOf(NewMap(d, size))
              /\ \A s \in SectorNumbers \ {NewSector(d), DirectorySectors(d)[1],
                                           DirectorySectors(d)[2], MapSector(d)} :
                   e[s] = d[s]
  <1> DEFINE x1 == NewSector(d)
             x2 == DirectorySectors(d)[1]
             x3 == DirectorySectors(d)[2]
             x4 == MapSector(d)
             c1 == NewHeader(d, size)
             c2 == FirstPart(NewTable(d, name))
             c3 == SecondPart(NewTable(d, name))
             c4 == MapOf(NewMap(d, size))
             w == Creation(d, name, size)
             e == Settled(d, w)
  <1>1. w = << <<x1, c1>>, <<x2, c2>>, <<x3, c3>>, <<x4, c4>> >>
    BY CreationIs
  <1>2. /\ x2 \in SectorNumbers /\ x3 \in SectorNumbers /\ x4 \in SectorNumbers
        /\ x2 # x3 /\ x2 # x4 /\ x3 # x4
        /\ SpecialSectors(d) = {FreeMapSector, DirectorySector, x4, x2, x3}
    BY SpecialIs DEF GoodDisk
  <1>3. x1 \in SectorNumbers /\ x1 \notin SpecialSectors(d)
    BY NewFacts, SpecialMarked
  <1> HIDE DEF x1, x2, x3, x4, c1, c2, c3, c4, w
  <1>4. WriteSequence(w)
    BY <1>1, <1>2, <1>3, FourWrites
  <1>5. /\ DOMAIN w = {1, 2, 3, 4}
        /\ w[1] = <<x1, c1>> /\ w[2] = <<x2, c2>> /\ w[3] = <<x3, c3>> /\ w[4] = <<x4, c4>>
    BY <1>1
  <1>6. IsDisk(e) /\ e[x1] = c1 /\ e[x2] = c2 /\ e[x3] = c3 /\ e[x4] = c4
    BY <1>4, <1>5, SettledAt
  <1>7. ASSUME NEW s \in SectorNumbers \ {x1, x2, x3, x4} PROVE e[s] = d[s]
    <2>1. \A k \in DOMAIN w : w[k][1] # s
      BY <1>5
    <2> QED BY <1>4, <2>1, SettledAt
  <1> QED BY <1>3, <1>4, <1>6, <1>7 DEF x1, x2, x3, x4, c1, c2, c3, c4, w

-----------------------------------------------------------------------------
\* Create leaves what it does not write, and the new file as one of those listed.
LEMMA CreationResult ==
    ASSUME NEW d, GoodDisk(d), NEW name, Short(name) \in StoredNames, NEW size \in Nat,
           CanCreate(d, name, size), ~TooLong(size), NEW e, e = Settled(d, Creation(d, name, size))
    PROVE  /\ MapSector(e) = MapSector(d) /\ DirectorySectors(e) = DirectorySectors(d)
           /\ SpecialSectors(e) = SpecialSectors(d) /\ SpecialFiles(e)
           /\ Directory(e) = NewTable(d, name)
           /\ FreeMap(e) = NewMap(d, size)
           /\ \A s \in SectorNumbers :
                s \notin SpecialSectors(d) /\ s # NewSector(d) => e[s] = d[s]
  <1> DEFINE x1 == NewSector(d)
             x2 == DirectorySectors(d)[1]
             x3 == DirectorySectors(d)[2]
             x4 == MapSector(d)
  <1>1. /\ x1 \notin SpecialSectors(d)
        /\ e[x2] = FirstPart(NewTable(d, name))
        /\ e[x3] = SecondPart(NewTable(d, name))
        /\ e[x4] = MapOf(NewMap(d, size))
        /\ \A s \in SectorNumbers \ {x1, x2, x3, x4} : e[s] = d[s]
    BY CreationWrites
  <1>2. /\ SpecialSectors(d) = {FreeMapSector, DirectorySector, x4, x2, x3}
        /\ FreeMapSector \notin {x2, x3, x4} /\ DirectorySector \notin {x2, x3, x4}
    BY SpecialIs DEF GoodDisk
  <1>3. e[FreeMapSector] = d[FreeMapSector] /\ e[DirectorySector] = d[DirectorySector]
    BY <1>1, <1>2, SectorNumberFacts
  <1>4. /\ MapSector(e) = x4 /\ DirectorySectors(e) = DirectorySectors(d)
        /\ SpecialSectors(e) = SpecialSectors(d) /\ SpecialFiles(e)
    BY <1>3, SameSpecial DEF GoodDisk
  <1>5. FreeMap(e) = NewMap(d, size)
    BY <1>1, <1>4 DEF FreeMap, MapOf
  <1>6. Directory(e) = NewTable(d, name)
    <2>1. Directory(e) = DirectoryFrom(e[x2], e[x3])
      BY <1>4 DEF Directory
    <2>2. NewTable(d, name) \in Tables
      BY NewEntryFacts
    <2> QED BY <1>1, <2>1, <2>2, RoundTrip
  <1> QED BY <1>1, <1>2, <1>4, <1>5, <1>6

LEMMA CreatedFiles ==
    ASSUME NEW d, GoodDisk(d), NEW name, Short(name) \in StoredNames, NEW size \in Nat,
           CanCreate(d, name, size), ~TooLong(size), NEW e, e = Settled(d, Creation(d, name, size))
    PROVE  /\ Listed(e) = Listed(d) \cup {NewEntry(d)} /\ NewEntry(d) \notin Listed(d)
           /\ e[NewSector(d)] = NewHeader(d, size)
           /\ OwnedBy(e, NewEntry(d))
                = {NewSector(d)} \cup Range(NewHeader(d, size).dataSectors)
           /\ \A i \in Listed(d) :
                /\ Directory(e)[i] = Directory(d)[i]
                /\ e[Directory(d)[i].sector] = d[Directory(d)[i].sector]
                /\ OwnedBy(e, i) = OwnedBy(d, i)
  <1> DEFINE a == NewEntry(d)
             t == Directory(d)
             u == Directory(e)
  <1>1. /\ a \in 1..NumDirEntries /\ ~t[a].inUse
        /\ u[a] = [inUse |-> TRUE, sector |-> NewSector(d), name |-> Short(name)]
        /\ \A i \in 1..NumDirEntries : i # a => u[i] = t[i]
    BY NewEntryFacts, CreationResult
  <1>2. Listed(e) = Listed(d) \cup {a} /\ a \notin Listed(d)
    <2> HIDE DEF a
    <2> QED BY <1>1 DEF Listed
  <1>3. e[NewSector(d)] = NewHeader(d, size)
    BY CreationWrites
  <1>4. OwnedBy(e, a) = {NewSector(d)} \cup Range(NewHeader(d, size).dataSectors)
    BY <1>1, <1>3 DEF OwnedBy
  <1>5. ASSUME NEW i \in Listed(d)
        PROVE  u[i] = t[i] /\ e[t[i].sector] = d[t[i].sector] /\ OwnedBy(e, i) = OwnedBy(d, i)
    <2>1. i \in 1..NumDirEntries /\ i # a
      BY <1>2, ListedFacts
    <2>2. u[i] = t[i]
      BY <1>1, <2>1
    <2>3. t[i].sector \in SectorNumbers /\ t[i].sector \in FreeMap(d)
      BY OwnedFacts
    <2>4. t[i].sector \notin SpecialSectors(d)
      BY OwnedFacts
    <2>5. t[i].sector # NewSector(d)
      BY <2>3, NewFacts
    <2>6. e[t[i].sector] = d[t[i].sector]
      BY <2>3, <2>4, <2>5, CreationResult
    <2> QED BY <2>2, <2>6, SameFile
  <1> QED BY <1>2, <1>3, <1>4, <1>5

LEMMA CreationGood ==
    ASSUME NEW d, GoodDisk(d), NEW name, Short(name) \in StoredNames, NEW size \in Nat,
           CanCreate(d, name, size), ~TooLong(size)
    PROVE  GoodDisk(Settled(d, Creation(d, name, size)))
  <1> DEFINE e == Settled(d, Creation(d, name, size))
             a == NewEntry(d)
             t == Directory(d)
             u == Directory(e)
             s == NewSector(d)
             hdr == NewHeader(d, size)
             new == {s} \cup Range(hdr.dataSectors)
  <1>1. IsDisk(e)
    BY CreationWrites
  <1>2. /\ SpecialSectors(e) = SpecialSectors(d) /\ SpecialFiles(e)
        /\ u = NewTable(d, name) /\ FreeMap(e) = FreeMap(d) \cup new
    BY CreationResult DEF NewMap
  <1>3. /\ Listed(e) = Listed(d) \cup {a} /\ a \notin Listed(d)
        /\ e[s] = hdr /\ OwnedBy(e, a) = new
        /\ \A i \in Listed(d) : /\ u[i] = t[i]
                                /\ e[t[i].sector] = d[t[i].sector]
                                /\ OwnedBy(e, i) = OwnedBy(d, i)
    BY CreatedFiles
  <1>4. /\ a \in 1..NumDirEntries /\ ~t[a].inUse
        /\ \A i \in 1..NumDirEntries : ~t[i].inUse => a <= i
        /\ u \in Tables
        /\ u[a] = [inUse |-> TRUE, sector |-> s, name |-> Short(name)]
        /\ \A i \in 1..NumDirEntries : i # a => u[i] = t[i]
        /\ \A i \in 1..NumDirEntries : t[i].inUse => t[i].name # Short(name)
    BY <1>2, NewEntryFacts
  <1>5. /\ IsHeader(hdr) /\ s \notin Range(hdr.dataSectors)
        /\ new \cap FreeMap(d) = {}
    BY NewFacts
  <1>6. /\ SpecialSectors(d) \subseteq FreeMap(d)
        /\ \A i \in Listed(d) : OwnedBy(d, i) \subseteq FreeMap(d)
    BY SpecialMarked, OwnedFacts
  <1>7. /\ FreeMap(d) = SpecialSectors(d) \cup UNION {OwnedBy(d, i) : i \in Listed(d)}
        /\ \A i \in Listed(d) : FileAt(d, i)
        /\ FilesApart(d) /\ StaleBehind(t)
    BY DEF GoodDisk, MapExact
  <1> HIDE DEF e, a, t, u, s, hdr, new
  <1>8. MapExact(e)
    <2>1. {OwnedBy(e, i) : i \in Listed(e)} = {OwnedBy(d, i) : i \in Listed(d)} \cup {new}
      BY <1>3
    <2>2. UNION {OwnedBy(e, i) : i \in Listed(e)}
            = (UNION {OwnedBy(d, i) : i \in Listed(d)}) \cup new
      BY <2>1
    <2> QED BY <1>2, <1>7, <2>2 DEF MapExact
  <1>9. ASSUME NEW i \in Listed(e) PROVE FileAt(e, i)
    <2>1. CASE i = a
      <3>1. u[i].sector = s
        BY <1>4, <2>1
      <3>2. OwnedBy(e, i) \cap SpecialSectors(e) = {}
        BY <1>2, <1>3, <1>5, <1>6, <2>1
      <3> QED BY <1>3, <1>5, <3>1, <3>2 DEF FileAt, u
    <2>2. CASE i \in Listed(d)
      <3>1. FileAt(d, i) /\ u[i] = t[i] /\ e[t[i].sector] = d[t[i].sector]
            /\ OwnedBy(e, i) = OwnedBy(d, i)
        BY <1>3, <1>7, <2>2
      <3> QED BY <1>2, <3>1 DEF FileAt, t, u
    <2> QED BY <1>3, <2>1, <2>2
  <1>10. FilesApart(e)
    <2>1. ASSUME NEW i \in Listed(d)
          PROVE  OwnedBy(e, i) \cap new = {} /\ u[i].name # u[a].name
      <3>1. OwnedBy(e, i) \cap new = {}
        BY <1>3, <1>5, <1>6
      <3>2. i \in 1..NumDirEntries /\ t[i].inUse
        BY ListedFacts DEF t
      <3> QED BY <1>3, <1>4, <3>1, <3>2
    <2>2. ASSUME NEW i \in Listed(e), NEW j \in Listed(e), i # j
          PROVE  OwnedBy(e, i) \cap OwnedBy(e, j) = {} /\ u[i].name # u[j].name
      <3>1. CASE i \in Listed(d) /\ j \in Listed(d)
        <4>1. OwnedBy(d, i) \cap OwnedBy(d, j) = {} /\ t[i].name # t[j].name
          BY <1>7, <2>2, <3>1 DEF FilesApart, t
        <4> QED BY <1>3, <3>1, <4>1
      <3>2. CASE i = a
        BY <1>3, <2>1, <2>2, <3>2
      <3>3. CASE j = a
        BY <1>3, <2>1, <2>2, <3>3
      <3> QED BY <1>3, <3>1, <3>2, <3>3
    <2> QED BY <2>2 DEF FilesApart, u
  <1>11. StaleBehind(u)
    <2>1. ASSUME NEW i \in 1..NumDirEntries, NEW j \in 1..NumDirEntries,
                 ~u[i].inUse, u[j].inUse, u[i].name = u[j].name
          PROVE  j < i
      <3>1. i # a /\ u[i] = t[i] /\ a <= i
        BY <1>4, <2>1
      <3>2. CASE j = a
        BY <1>4, <3>1, <3>2, FileSystemAssumption
      <3>3. CASE j # a
        BY <1>4, <1>7, <2>1, <3>1, <3>3 DEF StaleBehind
      <3> QED BY <3>2, <3>3
    <2> QED BY <2>1 DEF StaleBehind
  <1> QED BY <1>1, <1>2, <1>4, <1>8, <1>9, <1>10, <1>11 DEF GoodDisk, e, u

-----------------------------------------------------------------------------
(* Directory::Find *)

\* FindIndex returns the first entry in use with the name.
LEMMA FindFirst ==
    ASSUME NEW t, NEW name, NEW i \in 1..NumDirEntries,
           t[i].inUse, t[i].name = Short(name),
           \A j \in 1..NumDirEntries : t[j].inUse /\ t[j].name = Short(name) => i <= j
    PROVE  FindIndex(t, name) = {i}
  <1> DEFINE same == {j \in 1..NumDirEntries : t[j].inUse /\ t[j].name = Short(name)}
  <1>1. i \in same /\ same \subseteq Nat /\ same # {} /\ \A j \in same : i <= j
    OBVIOUS
  <1>2. FindIndex(t, name) = IF same = {} THEN {} ELSE {Min(same)}
    BY DEF FindIndex
  <1> HIDE DEF same
  <1> DEFINE m == Min(same)
  <1>3. m \in same /\ m <= i
    BY <1>1, MinOf
  <1> HIDE DEF m
  <1>4. m = i
    <2>1. m \in Nat /\ i \in Nat /\ i <= m
      BY <1>1, <1>3
    <2> QED BY <1>3, <2>1
  <1> QED BY <1>1, <1>2, <1>4 DEF m

LEMMA FindNone ==
    ASSUME NEW t, NEW name,
           \A j \in 1..NumDirEntries : t[j].inUse => t[j].name # Short(name)
    PROVE  FindIndex(t, name) = {}
  <1>1. {j \in 1..NumDirEntries : t[j].inUse /\ t[j].name = Short(name)} = {}
    OBVIOUS
  <1> QED BY <1>1 DEF FindIndex

LEMMA FindListed ==
    ASSUME NEW d, GoodDisk(d),
           NEW name, NEW i \in Listed(d), Directory(d)[i].name = Short(name)
    PROVE  FindIndex(Directory(d), name) = {i} /\ Find(d, name) = {Directory(d)[i].sector}
  <1> DEFINE t == Directory(d)
  <1>1. i \in 1..NumDirEntries /\ t[i].inUse
    BY ListedFacts
  <1>2. ASSUME NEW j \in 1..NumDirEntries, t[j].inUse, t[j].name = Short(name) PROVE i = j
    <2>1. j \in Listed(d)
      BY <1>2 DEF Listed
    <2> QED BY <1>2, <2>1 DEF GoodDisk, FilesApart
  <1>3. \A j \in 1..NumDirEntries : t[j].inUse /\ t[j].name = Short(name) => i <= j
    BY <1>1, <1>2
  <1>4. FindIndex(t, name) = {i}
    BY <1>1, <1>3, FindFirst
  <1> QED BY <1>4 DEF Find

LEMMA FindUnlisted ==
    ASSUME NEW d, NEW name, \A i \in Listed(d) : Directory(d)[i].name # Short(name)
    PROVE  FindIndex(Directory(d), name) = {} /\ Find(d, name) = {}
  <1>1. \A j \in 1..NumDirEntries :
          Directory(d)[j].inUse => Directory(d)[j].name # Short(name)
    BY DEF Listed
  <1>2. FindIndex(Directory(d), name) = {}
    BY <1>1, FindNone
  <1> QED BY <1>2 DEF Find

\* A file that is found is listed under its name.
LEMMA FoundListed ==
    ASSUME NEW d, GoodDisk(d), NEW name, Find(d, name) # {}
    PROVE  \E i \in Listed(d) : /\ Directory(d)[i].name = Short(name)
                                /\ FindIndex(Directory(d), name) = {i}
                                /\ Find(d, name) = {Directory(d)[i].sector}
  <1>1. PICK i \in Listed(d) : Directory(d)[i].name = Short(name)
    BY FindUnlisted
  <1> QED BY <1>1, FindListed

-----------------------------------------------------------------------------
(* FileSystem::Remove *)

RemovedTable(d, r) == RemoveEntry(Directory(d), r)
RemovedMap(d, r) == FreeMap(d) \ OwnedBy(d, r)

LEMMA RemovalIs ==
    ASSUME NEW d, NEW name, NEW r, FindIndex(Directory(d), name) = {r}
    PROVE  Removal(d, name)
             = << <<MapSector(d), MapOf(RemovedMap(d, r))>>,
                  <<DirectorySectors(d)[1], FirstPart(RemovedTable(d, r))>>,
                  <<DirectorySectors(d)[2], SecondPart(RemovedTable(d, r))>> >>
  <1> DEFINE s == Directory(d)[r].sector
             map == Deallocate(FreeMap(d), d[s]) \ {s}
  <1>1. (CHOOSE k \in FindIndex(Directory(d), name) : TRUE) = r
    OBVIOUS
  <1>2. map = RemovedMap(d, r)
    BY DEF Deallocate, RemovedMap, OwnedBy
  <1>3. Removal(d, name) = WriteMap(d, map) \o WriteDirectory(d, RemovedTable(d, r))
    BY <1>1, Zenon DEF Removal, RemovedTable
  <1> HIDE DEF map
  <1> QED BY <1>2, <1>3, JoinThree DEF WriteMap, WriteDirectory

LEMMA NotInUse ==
    ASSUME NEW c, NEW x, NEW y, NEW z, c = [inUse |-> x, sector |-> y, name |-> z]
    PROVE  [c EXCEPT !.inUse = FALSE] = [inUse |-> FALSE, sector |-> y, name |-> z]
  <1> SUFFICES ASSUME NEW v, v = FALSE
               PROVE  [c EXCEPT !.inUse = v] = [inUse |-> v, sector |-> y, name |-> z]
    OBVIOUS
  <1> QED OBVIOUS

LEMMA RemovedEntryFacts ==
    ASSUME NEW d, GoodDisk(d), NEW r \in Listed(d)
    PROVE  /\ r \in 1..NumDirEntries
           /\ RemovedTable(d, r) \in Tables
           /\ RemovedTable(d, r)[r] = [inUse |-> FALSE, sector |-> Directory(d)[r].sector,
                                       name |-> Directory(d)[r].name]
           /\ \A i \in 1..NumDirEntries :
                i # r => RemovedTable(d, r)[i] = Directory(d)[i]
  <1> DEFINE t == Directory(d)
             c == [inUse |-> FALSE, sector |-> t[r].sector, name |-> t[r].name]
  <1>1. r \in 1..NumDirEntries
    BY ListedFacts
  <1>2. t \in [1..NumDirEntries -> Entries]
    BY DEF GoodDisk, Tables
  <1>3. t[r] = [inUse |-> t[r].inUse, sector |-> t[r].sector, name |-> t[r].name]
    BY <1>1, EntryFacts DEF GoodDisk
  <1>4. [t[r] EXCEPT !.inUse = FALSE] = c
    BY <1>3, NotInUse
  <1>5. RemovedTable(d, r) = [t EXCEPT ![r] = c]
    <2>1. RemovedTable(d, r) = [t EXCEPT ![r] = [t[r] EXCEPT !.inUse = FALSE]]
      BY Zenon DEF RemovedTable, RemoveEntry
    <2> QED BY <1>4, <2>1
  <1>6. c \in Entries
    <2>1. t[r].sector \in SectorNumbers /\ t[r].name \in StoredNames
      BY <1>1, EntryFacts DEF GoodDisk
    <2> QED BY <2>1 DEF Entries
  <1> HIDE DEF t, c
  <1> QED BY <1>1, <1>2, <1>5, <1>6 DEF Tables, t, c

\* What is on the disk after Remove.
LEMMA RemovalWrites ==
    ASSUME NEW d, GoodDisk(d), NEW name, NEW r \in Listed(d),
           FindIndex(Directory(d), name) = {r}
    PROVE  /\ WriteSequence(Removal(d, name))
           /\ LET e == Settled(d, Removal(d, name)) IN
              /\ IsDisk(e)
              /\ e[DirectorySectors(d)[1]] = FirstPart(RemovedTable(d, r))
              /\ e[DirectorySectors(d)[2]] = SecondPart(RemovedTable(d, r))
              /\ e[MapSector(d)] = MapOf(RemovedMap(d, r))
              /\ \A s \in SectorNumbers \ {DirectorySectors(d)[1],
                                           DirectorySectors(d)[2], MapSector(d)} :
                   e[s] = d[s]
  <1> DEFINE x1 == MapSector(d)
             x2 == DirectorySectors(d)[1]
             x3 == DirectorySectors(d)[2]
             c1 == MapOf(RemovedMap(d, r))
             c2 == FirstPart(RemovedTable(d, r))
             c3 == SecondPart(RemovedTable(d, r))
             w == Removal(d, name)
             e == Settled(d, w)
  <1>1. w = << <<x1, c1>>, <<x2, c2>>, <<x3, c3>> >>
    BY RemovalIs
  <1>2. /\ x2 \in SectorNumbers /\ x3 \in SectorNumbers /\ x1 \in SectorNumbers
        /\ x2 # x3 /\ x2 # x1 /\ x3 # x1
    BY SpecialIs DEF GoodDisk
  <1> HIDE DEF x1, x2, x3, c1, c2, c3, w
  <1>3. WriteSequence(w)
    BY <1>1, <1>2, ThreeWrites
  <1>4. /\ DOMAIN w = {1, 2, 3}
        /\ w[1] = <<x1, c1>> /\ w[2] = <<x2, c2>> /\ w[3] = <<x3, c3>>
    BY <1>1
  <1>5. IsDisk(e) /\ e[x1] = c1 /\ e[x2] = c2 /\ e[x3] = c3
    BY <1>3, <1>4, SettledAt
  <1>6. ASSUME NEW s \in SectorNumbers \ {x1, x2, x3} PROVE e[s] = d[s]
    <2>1. \A k \in DOMAIN w : w[k][1] # s
      BY <1>4
    <2> QED BY <1>3, <2>1, SettledAt
  <1> QED BY <1>3, <1>5, <1>6 DEF x1, x2, x3, c1, c2, c3, w

LEMMA RemovalResult ==
    ASSUME NEW d, GoodDisk(d), NEW name, NEW r \in Listed(d),
           FindIndex(Directory(d), name) = {r},
           NEW e, e = Settled(d, Removal(d, name))
    PROVE  /\ MapSector(e) = MapSector(d) /\ DirectorySectors(e) = DirectorySectors(d)
           /\ SpecialSectors(e) = SpecialSectors(d) /\ SpecialFiles(e)
           /\ Directory(e) = RemovedTable(d, r)
           /\ FreeMap(e) = RemovedMap(d, r)
           /\ \A s \in SectorNumbers : s \notin SpecialSectors(d) => e[s] = d[s]
  <1> DEFINE x1 == MapSector(d)
             x2 == DirectorySectors(d)[1]
             x3 == DirectorySectors(d)[2]
  <1>1. /\ e[x2] = FirstPart(RemovedTable(d, r))
        /\ e[x3] = SecondPart(RemovedTable(d, r))
        /\ e[x1] = MapOf(RemovedMap(d, r))
        /\ \A s \in SectorNumbers \ {x2, x3, x1} : e[s] = d[s]
    BY RemovalWrites
  <1>2. /\ SpecialSectors(d) = {FreeMapSector, DirectorySector, x1, x2, x3}
        /\ FreeMapSector \notin {x2, x3, x1} /\ DirectorySector \notin {x2, x3, x1}
    BY SpecialIs DEF GoodDisk
  <1>3. e[FreeMapSector] = d[FreeMapSector] /\ e[DirectorySector] = d[DirectorySector]
    BY <1>1, <1>2, SectorNumberFacts
  <1>4. /\ MapSector(e) = x1 /\ DirectorySectors(e) = DirectorySectors(d)
        /\ SpecialSectors(e) = SpecialSectors(d) /\ SpecialFiles(e)
    BY <1>3, SameSpecial DEF GoodDisk
  <1>5. FreeMap(e) = RemovedMap(d, r)
    BY <1>1, <1>4 DEF FreeMap, MapOf
  <1>6. Directory(e) = RemovedTable(d, r)
    <2>1. Directory(e) = DirectoryFrom(e[x2], e[x3])
      BY <1>4 DEF Directory
    <2>2. RemovedTable(d, r) \in Tables
      BY RemovedEntryFacts
    <2> QED BY <1>1, <2>1, <2>2, RoundTrip
  <1> QED BY <1>1, <1>2, <1>4, <1>5, <1>6

LEMMA RemovedFiles ==
    ASSUME NEW d, GoodDisk(d), NEW name, NEW r \in Listed(d),
           FindIndex(Directory(d), name) = {r},
           NEW e, e = Settled(d, Removal(d, name))
    PROVE  /\ Listed(e) = Listed(d) \ {r}
           /\ \A i \in Listed(e) :
                /\ Directory(e)[i] = Directory(d)[i]
                /\ e[Directory(d)[i].sector] = d[Directory(d)[i].sector]
                /\ OwnedBy(e, i) = OwnedBy(d, i)
  <1> DEFINE t == Directory(d)
             u == Directory(e)
  <1>1. /\ r \in 1..NumDirEntries
        /\ u[r] = [inUse |-> FALSE, sector |-> t[r].sector, name |-> t[r].name]
        /\ \A i \in 1..NumDirEntries : i # r => u[i] = t[i]
    BY RemovedEntryFacts, RemovalResult
  <1>2. Listed(e) = Listed(d) \ {r}
    BY <1>1 DEF Listed
  <1>3. ASSUME NEW i \in Listed(e)
        PROVE  u[i] = t[i] /\ e[t[i].sector] = d[t[i].sector] /\ OwnedBy(e, i) = OwnedBy(d, i)
    <2>1. i \in Listed(d) /\ i \in 1..NumDirEntries /\ i # r
      BY <1>2, ListedFacts
    <2>2. u[i] = t[i]
      BY <1>1, <2>1
    <2>3. t[i].sector \in SectorNumbers /\ t[i].sector \notin SpecialSectors(d)
      BY <2>1, OwnedFacts
    <2>4. e[t[i].sector] = d[t[i].sector]
      BY <2>3, RemovalResult
    <2> QED BY <2>2, <2>4, SameFile
  <1> QED BY <1>2, <1>3

LEMMA RemovalGood ==
    ASSUME NEW d, GoodDisk(d), NEW name, NEW r \in Listed(d),
           FindIndex(Directory(d), name) = {r}
    PROVE  GoodDisk(Settled(d, Removal(d, name)))
  <1> DEFINE e == Settled(d, Removal(d, name))
             t == Directory(d)
             u == Directory(e)
  <1>1. IsDisk(e)
    BY RemovalWrites
  <1>2. /\ SpecialSectors(e) = SpecialSectors(d) /\ SpecialFiles(e)
        /\ u = RemovedTable(d, r) /\ FreeMap(e) = FreeMap(d) \ OwnedBy(d, r)
    BY RemovalResult DEF RemovedMap
  <1>3. /\ Listed(e) = Listed(d) \ {r}
        /\ \A i \in Listed(e) : /\ u[i] = t[i]
                                /\ e[t[i].sector] = d[t[i].sector]
                                /\ OwnedBy(e, i) = OwnedBy(d, i)
    BY RemovedFiles
  <1>4. /\ r \in 1..NumDirEntries /\ u \in Tables
        /\ u[r] = [inUse |-> FALSE, sector |-> t[r].sector, name |-> t[r].name]
        /\ \A i \in 1..NumDirEntries : i # r => u[i] = t[i]
    BY <1>2, RemovedEntryFacts
  <1>5. /\ FreeMap(d) = SpecialSectors(d) \cup UNION {OwnedBy(d, i) : i \in Listed(d)}
        /\ \A i \in Listed(d) : FileAt(d, i)
        /\ FilesApart(d) /\ StaleBehind(t)
    BY DEF GoodDisk, MapExact
  <1>6. OwnedBy(d, r) \cap SpecialSectors(d) = {}
    BY OwnedFacts
  <1>7. \A i \in Listed(e) : OwnedBy(d, i) \cap OwnedBy(d, r) = {} /\ t[i].name # t[r].name
    BY <1>3, <1>5 DEF FilesApart
  <1> HIDE DEF e, t, u
  <1>8. MapExact(e)
    <2>1. UNION {OwnedBy(d, i) : i \in Listed(d)}
            = (UNION {OwnedBy(e, i) : i \in Listed(e)}) \cup OwnedBy(d, r)
      BY <1>3
    <2>2. (UNION {OwnedBy(e, i) : i \in Listed(e)}) \cap OwnedBy(d, r) = {}
      BY <1>3, <1>7
    <2> QED BY <1>2, <1>5, <1>6, <2>1, <2>2 DEF MapExact
  <1>9. ASSUME NEW i \in Listed(e) PROVE FileAt(e, i)
    <2>1. FileAt(d, i) /\ u[i] = t[i] /\ e[t[i].sector] = d[t[i].sector]
          /\ OwnedBy(e, i) = OwnedBy(d, i)
      BY <1>3, <1>5
    <2> QED BY <1>2, <2>1 DEF FileAt, t, u
  <1>10. FilesApart(e)
    <2>1. ASSUME NEW i \in Listed(e), NEW j \in Listed(e), i # j
          PROVE  OwnedBy(e, i) \cap OwnedBy(e, j) = {} /\ u[i].name # u[j].name
      <3>1. OwnedBy(d, i) \cap OwnedBy(d, j) = {} /\ t[i].name # t[j].name
        BY <1>3, <1>5, <2>1 DEF FilesApart, t
      <3> QED BY <1>3, <3>1
    <2> QED BY <2>1 DEF FilesApart, u
  <1>11. StaleBehind(u)
    <2>1. ASSUME NEW i \in 1..NumDirEntries, NEW j \in 1..NumDirEntries,
                 ~u[i].inUse, u[j].inUse, u[i].name = u[j].name
          PROVE  j < i
      <3>1. j # r /\ u[j] = t[j]
        BY <1>4, <2>1
      <3>2. j \in Listed(e)
        BY <2>1 DEF Listed, u
      <3>3. CASE i = r
        BY <1>4, <1>7, <2>1, <3>1, <3>2, <3>3
      <3>4. CASE i # r
        BY <1>4, <1>5, <2>1, <3>1, <3>4 DEF StaleBehind
      <3> QED BY <3>3, <3>4
    <2> QED BY <2>1 DEF StaleBehind
  <1> QED BY <1>1, <1>2, <1>4, <1>8, <1>9, <1>10, <1>11 DEF GoodDisk, e, u

-----------------------------------------------------------------------------
(* OpenFile::WriteAt *)

\* The data sectors of a file may hold anything.
LEMMA DataWritten ==
    ASSUME NEW d, GoodDisk(d), NEW r \in Listed(d), NEW e, IsDisk(e),
           \A s \in SectorNumbers :
             s \notin Range(d[Directory(d)[r].sector].dataSectors) => e[s] = d[s]
    PROVE  /\ Directory(e) = Directory(d) /\ FreeMap(e) = FreeMap(d)
           /\ SpecialSectors(e) = SpecialSectors(d)
           /\ \A i \in Listed(d) : e[Directory(d)[i].sector] = d[Directory(d)[i].sector]
           /\ GoodDisk(e)
  <1> DEFINE t == Directory(d)
             data == Range(d[t[r].sector].dataSectors)
  <1>1. data \subseteq OwnedBy(d, r) /\ OwnedBy(d, r) \cap SpecialSectors(d) = {}
        /\ t[r].sector \notin data
    BY OwnedFacts
  <1>2. SpecialFiles(d) /\ SpecialSectors(d) \subseteq SectorNumbers
        /\ SpecialSectors(d) = {FreeMapSector, DirectorySector, MapSector(d),
                                DirectorySectors(d)[1], DirectorySectors(d)[2]}
    BY SpecialIs DEF GoodDisk
  <1>3. \A s \in SpecialSectors(d) : e[s] = d[s]
    BY <1>1, <1>2
  <1>4. /\ MapSector(e) = MapSector(d) /\ DirectorySectors(e) = DirectorySectors(d)
        /\ SpecialSectors(e) = SpecialSectors(d) /\ SpecialFiles(e)
    BY <1>2, <1>3, SameSpecial
  <1>5. Directory(e) = t /\ FreeMap(e) = FreeMap(d)
    BY <1>2, <1>3, <1>4 DEF Directory, FreeMap
  <1>6. ASSUME NEW i \in Listed(d) PROVE e[t[i].sector] = d[t[i].sector]
    <2>1. t[i].sector \in SectorNumbers /\ t[i].sector \in OwnedBy(d, i)
      BY OwnedFacts
    <2>2. t[i].sector \notin data
      <3>1. i # r => OwnedBy(d, i) \cap OwnedBy(d, r) = {}
        BY DEF GoodDisk, FilesApart
      <3> QED BY <1>1, <2>1, <3>1
    <2> QED BY <2>1, <2>2
  <1>7. Listed(e) = Listed(d)
    BY <1>5 DEF Listed
  <1>8. \A i \in Listed(d) : OwnedBy(e, i) = OwnedBy(d, i)
    BY <1>5, <1>6, SameFile
  <1>9. MapExact(e)
    <2>1. {OwnedBy(e, i) : i \in Listed(e)} = {OwnedBy(d, i) : i \in Listed(d)}
      BY <1>7, <1>8
    <2> QED BY <1>4, <1>5, <2>1 DEF MapExact, GoodDisk
  <1>10. \A i \in Listed(e) : FileAt(e, i)
    <2> SUFFICES ASSUME NEW i \in Listed(e) PROVE FileAt(e, i)
      OBVIOUS
    <2>1. FileAt(d, i) /\ e[t[i].sector] = d[t[i].sector] /\ OwnedBy(e, i) = OwnedBy(d, i)
      BY <1>6, <1>7, <1>8 DEF GoodDisk
    <2> QED BY <1>4, <1>5, <2>1 DEF FileAt
  <1>11. FilesApart(e)
    BY <1>5, <1>7, <1>8 DEF FilesApart, GoodDisk
  <1>12. GoodDisk(e)
    BY <1>4, <1>5, <1>9, <1>10, <1>11 DEF GoodDisk
  <1> QED BY <1>4, <1>5, <1>6, <1>12

\* A request is cut to the file.
LEMMA InFileFacts ==
    ASSUME NEW hdr, hdr.numBytes \in Nat, NEW numBytes \in Int, NEW position \in Nat
    PROVE  /\ InFile(hdr, numBytes, position) \in Nat
           /\ InFile(hdr, numBytes, position) > 0 =>
                /\ position < hdr.numBytes
                /\ position + InFile(hdr, numBytes, position) <= hdr.numBytes
  BY DEF InFile, SmallerOf

LEMMA Parts ==
    ASSUME NEW i \in Nat
    PROVE  (i * SectorSize) \div SectorSize = i
  BY FileSystemAssumption

\* The part of a position does not lie before that of an earlier one.
LEMMA PartsInOrder ==
    ASSUME NEW p \in Nat, NEW q \in Nat, p <= q
    PROVE  /\ p \div SectorSize \in Nat /\ q \div SectorSize \in Nat
           /\ p \div SectorSize <= q \div SectorSize
  BY FileSystemAssumption

\* WriteAt writes parts of the file, each once.
LEMMA WriteAtWrites ==
    ASSUME NEW d, NEW hdr, IsHeader(hdr), NEW from, Len(from) \in Nat, NEW position \in Nat
    PROVE  /\ WriteSequence(WriteAt(d, hdr, from, position))
           /\ \A k \in DOMAIN WriteAt(d, hdr, from, position) :
                WriteAt(d, hdr, from, position)[k][1] \in Range(hdr.dataSectors)
  <1> DEFINE n == InFile(hdr, Len(from), position)
             first == position \div SectorSize
             last == (position + n - 1) \div SectorSize
             w == WriteAt(d, hdr, from, position)
             parts == divRoundUp(hdr.numBytes, SectorSize)
  <1>1. n \in Nat /\ (n > 0 => position < hdr.numBytes /\ position + n <= hdr.numBytes)
    <2>1. hdr.numBytes \in Nat /\ Len(from) \in Int
      BY DEF IsHeader
    <2> QED BY <2>1, InFileFacts
  <1>2. CASE n = 0
    <2>1. w = <<>>
      BY <1>2, Zenon DEF WriteAt
    <2>2. DOMAIN <<>> = {} /\ <<>> \in Seq(Range(<<>>))
      BY EmptySeq
    <2>3. WriteSequence(<<>>)
      BY <2>2 DEF WriteSequence, SectorsApart
    <2> HIDE DEF w
    <2> QED BY <2>1, <2>2, <2>3 DEF w
  <1>3. CASE n # 0
    <2>1. position + n - 1 \in Nat /\ position <= position + n - 1
          /\ position + n - 1 < hdr.numBytes /\ hdr.numBytes \in Nat
      <3> HIDE DEF n
      <3> QED BY <1>1, <1>3 DEF IsHeader
    <2>2. first \in Nat /\ last \in Nat /\ first <= last
      <3> HIDE DEF n
      <3> QED BY <2>1, PartsInOrder
    <2>3. last + 1 \in 1..parts /\ parts \in Nat
      <3> HIDE DEF n
      <3> QED BY <2>1, RoundUpFacts
    <2> DEFINE m == 1 + last - first
    <2>4. DOMAIN w = 1..m /\ w = [k \in 1..m |-> w[k]]
      BY <1>3, Zenon DEF WriteAt
    <2>5. ASSUME NEW k \in 1..m
          PROVE  w[k][1] = ByteToSector(hdr, (first + k - 1) * SectorSize)
      <3>1. \E c : w[k] = <<ByteToSector(hdr, (first + k - 1) * SectorSize), c>>
        BY <1>3, Zenon DEF WriteAt
      <3> HIDE DEF w
      <3> QED BY <3>1
    <2> HIDE DEF w, first, last, n, parts
    <2>6. m \in Nat
      BY <2>2
    <2>7. ASSUME NEW k \in 1..m
          PROVE  first + k \in 1..parts /\ w[k][1] = hdr.dataSectors[first + k]
      <3>1. first + k - 1 \in Nat /\ (first + k - 1) + 1 = first + k /\ first + k \in 1..parts
        BY <2>2, <2>3
      <3>2. ((first + k - 1) * SectorSize) \div SectorSize = first + k - 1
        BY <3>1, Parts
      <3> QED BY <2>5, <3>1, <3>2 DEF ByteToSector
    <2>8. /\ hdr.dataSectors \in [1..parts -> SectorNumbers]
          /\ \A j, k \in 1..parts : hdr.dataSectors[j] = hdr.dataSectors[k] => j = k
      BY DEF IsHeader, parts
    <2>9. \A k \in 1..m : w[k][1] \in Range(hdr.dataSectors) /\ w[k][1] \in SectorNumbers
      BY <2>7, <2>8 DEF Range
    <2>10. SectorsApart(w)
      <3>1. ASSUME NEW j \in 1..m, NEW k \in 1..m, w[j][1] = w[k][1] PROVE j = k
        <4>1. first + j = first + k
          BY <2>7, <2>8, <3>1
        <4> QED BY <2>2, <4>1
      <3> QED BY <2>4, <3>1 DEF SectorsApart
    <2>11. w \in Seq(Range(w))
      <3>1. w \in [1..m -> Range(w)]
        BY <2>4 DEF Range
      <3> QED BY <2>6, <3>1
    <2>12. WriteSequence(w)
      BY <2>4, <2>9, <2>10, <2>11 DEF WriteSequence
    <2> QED BY <2>4, <2>9, <2>12 DEF w
  <1> QED BY <1>2, <1>3

\* The contents of the other sectors after any of the writes.
LEMMA WriteAtResult ==
    ASSUME NEW d, NEW hdr, IsHeader(hdr), NEW from, Len(from) \in Nat, NEW position \in Nat
    PROVE  /\ IsDisk(Settled(d, WriteAt(d, hdr, from, position)))
           /\ \A s \in SectorNumbers : s \notin Range(hdr.dataSectors) =>
                Settled(d, WriteAt(d, hdr, from, position))[s] = d[s]
  <1> DEFINE w == WriteAt(d, hdr, from, position)
  <1>1. WriteSequence(w) /\ \A k \in DOMAIN w : w[k][1] \in Range(hdr.dataSectors)
    BY WriteAtWrites
  <1> HIDE DEF w
  <1>2. ASSUME NEW s \in SectorNumbers, s \notin Range(hdr.dataSectors)
        PROVE  Settled(d, w)[s] = d[s]
    <2>1. \A k \in DOMAIN w : w[k][1] # s
      BY <1>1, <1>2
    <2> QED BY <1>1, <2>1, SettledAt
  <1>3. IsDisk(Settled(d, w))
    BY <1>1, SettledAt
  <1> QED BY <1>2, <1>3 DEF w

-----------------------------------------------------------------------------
(* The constructor *)

\* How many sectors are clear if few are marked.
LEMMA MostAreClear ==
    ASSUME NEW marked, IsFiniteSet(marked)
    PROVE  /\ Cardinality(Clear(marked)) \in Nat
           /\ Cardinality(Clear(marked)) >= NumSectors - Cardinality(marked)
  <1>1. Cardinality(Clear(marked)) = NumSectors - Cardinality(SectorNumbers \cap marked)
    BY SectorNumberFacts, FS_Difference DEF Clear
  <1>2. SectorNumbers \cap marked \in SUBSET marked
    OBVIOUS
  <1>3. IsFiniteSet(SectorNumbers \cap marked)
        /\ Cardinality(SectorNumbers \cap marked) <= Cardinality(marked)
    BY <1>2, FS_Subset
  <1>4. Cardinality(SectorNumbers \cap marked) \in Nat /\ Cardinality(marked) \in Nat
        /\ Cardinality(Clear(marked)) \in Nat /\ NumSectors \in Nat
    BY <1>3, ClearFacts, FS_CardinalityType, FileSystemAssumption
  <1> QED BY <1>1, <1>3, <1>4

LEMMA AtMostThree ==
    ASSUME NEW x1, NEW x2, NEW x3
    PROVE  IsFiniteSet({x1, x2, x3}) /\ Cardinality({x1, x2, x3}) \in 1..3
  <1>1. IsFiniteSet({x1}) /\ Cardinality({x1}) = 1
    BY FS_Singleton
  <1>2. IsFiniteSet({x1} \cup {x2}) /\ Cardinality({x1} \cup {x2}) \in 1..2
    BY <1>1, FS_AddElement
  <1>3. IsFiniteSet(({x1} \cup {x2}) \cup {x3})
        /\ Cardinality(({x1} \cup {x2}) \cup {x3}) \in 1..3
    BY <1>2, FS_AddElement
  <1>4. ({x1} \cup {x2}) \cup {x3} = {x1, x2, x3}
    OBVIOUS
  <1> QED BY <1>3, <1>4

LEMMA AtMostSix ==
    ASSUME NEW x1, NEW x2, NEW x3, NEW x4, NEW x5, NEW x6
    PROVE  /\ IsFiniteSet({x1, x2, x3, x4, x5, x6})
           /\ Cardinality({x1, x2, x3, x4, x5, x6}) \in 1..6
  <1> DEFINE T == {x1, x2, x3}
             U == T \cup {x4}
             V == U \cup {x5}
             W == V \cup {x6}
  <1>1. IsFiniteSet(T) /\ Cardinality(T) \in 1..3
    BY AtMostThree
  <1>2. IsFiniteSet(U) /\ Cardinality(U) \in 1..4
    <2> HIDE DEF T
    <2> QED BY <1>1, FS_AddElement
  <1>3. IsFiniteSet(V) /\ Cardinality(V) \in 1..5
    <2> HIDE DEF U
    <2> QED BY <1>2, FS_AddElement
  <1>4. IsFiniteSet(W) /\ Cardinality(W) \in 1..6
    <2> HIDE DEF V
    <2> QED BY <1>3, FS_AddElement
  <1>5. W = {x1, x2, x3, x4, x5, x6}
    OBVIOUS
  <1> HIDE DEF W
  <1> QED BY <1>4, <1>5

LEMMA RoomForOne ==
    ASSUME NEW x1, NEW x2, NEW x3, NEW x4, NEW x5, NEW x6
    PROVE  Clear({x1, x2, x3, x4, x5, x6}) # {}
  <1> DEFINE T == {x1, x2, x3, x4, x5, x6}
  <1>1. IsFiniteSet(T) /\ Cardinality(T) \in 1..6
    BY AtMostSix
  <1> HIDE DEF T
  <1>2. Cardinality(Clear(T)) \in Nat /\ Cardinality(Clear(T)) >= NumSectors - Cardinality(T)
    BY <1>1, MostAreClear
  <1>3. Cardinality(Clear(T)) # 0
    BY <1>1, <1>2, FileSystemAssumption
  <1>4. Clear(T) # {}
    BY <1>3, FS_EmptySet
  <1> QED BY <1>4 DEF T

LEMMA SizesInSectors ==
  /\ divRoundUp(0, SectorSize) = 0
  /\ divRoundUp(SectorSize, SectorSize) = 1
  /\ divRoundUp(2 * SectorSize, SectorSize) = 2
  /\ ~TooLong(0) /\ ~TooLong(SectorSize) /\ ~TooLong(2 * SectorSize)
  <1>1. /\ divRoundUp(0, SectorSize) = 0
        /\ divRoundUp(SectorSize, SectorSize) = 1
        /\ divRoundUp(2 * SectorSize, SectorSize) = 2
    BY FileSystemAssumption DEF divRoundUp
  <1> QED BY <1>1, FileSystemAssumption DEF TooLong

-----------------------------------------------------------------------------
(* The special files as formatting makes them. *)
MapHeader == Allocate({FreeMapSector, DirectorySector}, SectorSize)
MarkedFirst == {FreeMapSector, DirectorySector} \cup Range(MapHeader.dataSectors)
DirectoryHeader == Allocate(MarkedFirst, 2 * SectorSize)
MarkedThen == MarkedFirst \cup Range(DirectoryHeader.dataSectors)
EmptyTable == [i \in 1..NumDirEntries |-> [inUse |-> FALSE, sector |-> 0, name |-> NULL]]
WithHeaders == [s \in SectorNumbers |->
                  CASE s = FreeMapSector -> MapHeader
                    [] s = DirectorySector -> DirectoryHeader
                    [] OTHER -> Data([k \in 1..SectorSize |-> Junk])]

LEMMA FormattedIs ==
  Formatted = Settled(WithHeaders, WriteMap(WithHeaders, MarkedThen)
                                   \o WriteDirectory(WithHeaders, EmptyTable))
  BY Zenon DEF Formatted, WithHeaders, MapHeader, MarkedFirst, DirectoryHeader,
               MarkedThen, EmptyTable

LEMMA MapHeaderFacts ==
  /\ IsHeader(MapHeader) /\ MapHeader.numBytes = SectorSize
  /\ MapHeader.dataSectors \in [1..1 -> SectorNumbers \ {FreeMapSector, DirectorySector}]
  /\ MarkedFirst = {FreeMapSector, DirectorySector, MapHeader.dataSectors[1]}
  <1> DEFINE T == {FreeMapSector, DirectorySector}
             f == MapHeader.dataSectors
  <1>1. Allocates(T, SectorSize)
    <2>1. IsFiniteSet({FreeMapSector, DirectorySector, FreeMapSector})
          /\ Cardinality({FreeMapSector, DirectorySector, FreeMapSector}) \in 1..3
      BY AtMostThree
    <2>2. {FreeMapSector, DirectorySector, FreeMapSector} = T
      OBVIOUS
    <2>3. IsFiniteSet(T) /\ Cardinality(T) \in 1..3
      BY <2>1, <2>2
    <2> HIDE DEF T
    <2>4. Cardinality(Clear(T)) \in Nat /\ Cardinality(Clear(T)) >= NumSectors - Cardinality(T)
      BY <2>3, MostAreClear
    <2>5. Cardinality(Clear(T)) >= 1
      BY <2>3, <2>4, FileSystemAssumption
    <2> QED BY <2>5, SizesInSectors DEF Allocates
  <1>2. SectorSize \in Nat
    BY FileSystemAssumption
  <1>3. IsHeader(MapHeader) /\ MapHeader.numBytes = SectorSize /\ Range(f) \subseteq Clear(T)
    <2> HIDE DEF T
    <2>1. /\ IsHeader(Allocate(T, SectorSize)) /\ Allocate(T, SectorSize).numBytes = SectorSize
          /\ Range(Allocate(T, SectorSize).dataSectors) \subseteq Clear(T)
      BY <1>1, <1>2, AllocateFacts, SizesInSectors
    <2> QED BY <2>1 DEF MapHeader, T
  <1>4. f \in [1..1 -> SectorNumbers]
    BY <1>3, SizesInSectors DEF IsHeader
  <1>5. Range(f) = {f[1]}
    <2>1. DOMAIN f = {1}
      BY <1>4
    <2> QED BY <2>1 DEF Range
  <1>6. f[1] \in SectorNumbers /\ f[1] \notin T
    BY <1>3, <1>5 DEF Clear
  <1>7. f \in [1..1 -> SectorNumbers \ T]
    BY <1>4, <1>6
  <1>8. MarkedFirst = {FreeMapSector, DirectorySector, f[1]}
    BY <1>5 DEF MarkedFirst
  <1> QED BY <1>3, <1>7, <1>8

LEMMA DirectoryHeaderFacts ==
  /\ IsHeader(DirectoryHeader) /\ DirectoryHeader.numBytes = 2 * SectorSize
  /\ DirectoryHeader.dataSectors \in [1..2 -> SectorNumbers \ MarkedFirst]
  /\ DirectoryHeader.dataSectors[1] # DirectoryHeader.dataSectors[2]
  /\ MarkedThen = {FreeMapSector, DirectorySector, MapHeader.dataSectors[1],
                   DirectoryHeader.dataSectors[1], DirectoryHeader.dataSectors[2]}
  <1> DEFINE T == MarkedFirst
             f == DirectoryHeader.dataSectors
  <1>1. Allocates(T, 2 * SectorSize)
    <2>1. IsFiniteSet(T) /\ Cardinality(T) \in 1..3
      BY MapHeaderFacts, AtMostThree
    <2> HIDE DEF T
    <2>2. Cardinality(Clear(T)) \in Nat /\ Cardinality(Clear(T)) >= NumSectors - Cardinality(T)
      BY <2>1, MostAreClear
    <2>3. Cardinality(Clear(T)) >= 2
      BY <2>1, <2>2, FileSystemAssumption
    <2> QED BY <2>3, SizesInSectors DEF Allocates
  <1>2. 2 * SectorSize \in Nat
    BY FileSystemAssumption
  <1>3. /\ IsHeader(DirectoryHeader) /\ DirectoryHeader.numBytes = 2 * SectorSize
        /\ Range(f) \subseteq Clear(T)
    BY <1>1, <1>2, AllocateFacts, SizesInSectors DEF DirectoryHeader
  <1>4. f \in [1..2 -> SectorNumbers] /\ \A j, k \in 1..2 : f[j] = f[k] => j = k
    BY <1>3, SizesInSectors DEF IsHeader
  <1>5. Range(f) = {f[1], f[2]}
    <2>1. DOMAIN f = {1, 2}
      BY <1>4
    <2> QED BY <2>1 DEF Range
  <1>6. f[1] \notin T /\ f[2] \notin T /\ f[1] # f[2]
    BY <1>3, <1>4, <1>5 DEF Clear
  <1>7. f \in [1..2 -> SectorNumbers \ T]
    <2>1. \A k \in 1..2 : k = 1 \/ k = 2
      OBVIOUS
    <2> HIDE DEF T
    <2> QED BY <1>4, <1>6, <2>1
  <1>8. MarkedThen = {FreeMapSector, DirectorySector, MapHeader.dataSectors[1], f[1], f[2]}
    BY <1>5, MapHeaderFacts DEF MarkedThen
  <1> QED BY <1>3, <1>6, <1>7, <1>8

LEMMA EmptyTableFacts ==
  /\ EmptyTable \in Tables
  /\ \A i \in 1..NumDirEntries : ~EmptyTable[i].inUse
  <1>1. 0 \in SectorNumbers
    BY SectorNumberFacts DEF FreeMapSector
  <1> QED BY <1>1 DEF EmptyTable, Tables, Entries, StoredNames

\* The map and the directory that formatting writes.
FormattingWrites ==
  << <<MapHeader.dataSectors[1], MapOf(MarkedThen)>>,
     <<DirectoryHeader.dataSectors[1], FirstPart(EmptyTable)>>,
     <<DirectoryHeader.dataSectors[2], SecondPart(EmptyTable)>> >>

LEMMA FormattingFacts ==
  /\ WithHeaders[FreeMapSector] = MapHeader /\ WithHeaders[DirectorySector] = DirectoryHeader
  /\ Formatted = Settled(WithHeaders, FormattingWrites)
  /\ WriteSequence(FormattingWrites) /\ DOMAIN FormattingWrites = {1, 2, 3}
  /\ FormattingWrites[1] = <<MapHeader.dataSectors[1], MapOf(MarkedThen)>>
  /\ FormattingWrites[2] = <<DirectoryHeader.dataSectors[1], FirstPart(EmptyTable)>>
  /\ FormattingWrites[3] = <<DirectoryHeader.dataSectors[2], SecondPart(EmptyTable)>>
  <1> DEFINE h == WithHeaders
             x1 == MapHeader.dataSectors[1]
             x2 == DirectoryHeader.dataSectors[1]
             x3 == DirectoryHeader.dataSectors[2]
             c1 == MapOf(MarkedThen)
             c2 == FirstPart(EmptyTable)
             c3 == SecondPart(EmptyTable)
             w == << <<x1, c1>>, <<x2, c2>>, <<x3, c3>> >>
  <1>1. h[FreeMapSector] = MapHeader /\ h[DirectorySector] = DirectoryHeader
    BY SectorNumberFacts DEF WithHeaders
  <1>2. MapSector(h) = x1 /\ DirectorySectors(h)[1] = x2 /\ DirectorySectors(h)[2] = x3
    BY <1>1 DEF MapSector, DirectorySectors
  <1>3. Formatted = Settled(h, w)
    <2>1. WriteMap(h, MarkedThen) = << <<x1, c1>> >>
      BY <1>2 DEF WriteMap
    <2>2. WriteDirectory(h, EmptyTable) = << <<x2, c2>>, <<x3, c3>> >>
      BY <1>2 DEF WriteDirectory
    <2>3. << <<x1, c1>> >> \o << <<x2, c2>>, <<x3, c3>> >> = w
      BY JoinThree
    <2> QED BY <2>1, <2>2, <2>3, FormattedIs
  <1>4. /\ x1 \in SectorNumbers /\ x2 \in SectorNumbers /\ x3 \in SectorNumbers
        /\ x1 # x2 /\ x1 # x3 /\ x2 # x3
    BY MapHeaderFacts, DirectoryHeaderFacts
  <1>5. WriteSequence(w) /\ DOMAIN w = {1, 2, 3}
        /\ w[1] = <<x1, c1>> /\ w[2] = <<x2, c2>> /\ w[3] = <<x3, c3>>
    <2>1. WriteSequence(w)
      <3> HIDE DEF x1, x2, x3, c1, c2, c3
      <3> QED BY <1>4, ThreeWrites
    <2> HIDE DEF x1, x2, x3, c1, c2, c3
    <2> QED BY <2>1
  <1>6. FormattingWrites = w
    BY DEF FormattingWrites
  <1> HIDE DEF w
  <1> QED BY <1>1, <1>3, <1>5, <1>6

LEMMA FormattedGood ==
  /\ GoodDisk(Formatted)
  /\ Listed(Formatted) = {}
  /\ FreeMap(Formatted) = {FreeMapSector, DirectorySector, MapHeader.dataSectors[1],
                           DirectoryHeader.dataSectors[1], DirectoryHeader.dataSectors[2]}
  <1> DEFINE h == WithHeaders
             x1 == MapHeader.dataSectors[1]
             x2 == DirectoryHeader.dataSectors[1]
             x3 == DirectoryHeader.dataSectors[2]
             c1 == MapOf(MarkedThen)
             c2 == FirstPart(EmptyTable)
             c3 == SecondPart(EmptyTable)
             w == FormattingWrites
             e == Formatted
  <1>1. h[FreeMapSector] = MapHeader /\ h[DirectorySector] = DirectoryHeader
    BY FormattingFacts
  <1>2. e = Settled(h, w)
    BY FormattingFacts
  <1>3. /\ x1 \in SectorNumbers /\ x2 \in SectorNumbers /\ x3 \in SectorNumbers
        /\ x1 # x2 /\ x1 # x3 /\ x2 # x3
        /\ FreeMapSector \notin {x1, x2, x3} /\ DirectorySector \notin {x1, x2, x3}
    BY MapHeaderFacts, DirectoryHeaderFacts
  <1>4. WriteSequence(w) /\ DOMAIN w = {1, 2, 3}
        /\ w[1] = <<x1, c1>> /\ w[2] = <<x2, c2>> /\ w[3] = <<x3, c3>>
    BY FormattingFacts
  <1> HIDE DEF w, e, h
  <1>5. IsDisk(e) /\ e[x1] = c1 /\ e[x2] = c2 /\ e[x3] = c3
    <2> HIDE DEF x1, x2, x3, c1, c2, c3
    <2> QED BY <1>2, <1>4, SettledAt
  <1>6. e[FreeMapSector] = MapHeader /\ e[DirectorySector] = DirectoryHeader
    <2>1. ASSUME NEW s \in SectorNumbers \ {x1, x2, x3} PROVE e[s] = h[s]
      <3> HIDE DEF x1, x2, x3, c1, c2, c3
      <3>1. \A k \in DOMAIN w : w[k][1] # s
        BY <1>4, <2>1
      <3> QED BY <1>2, <1>4, <3>1, SettledAt
    <2> QED BY <1>1, <1>3, <2>1, SectorNumberFacts
  <1>7. MapSector(e) = x1 /\ DirectorySectors(e) = DirectoryHeader.dataSectors
    BY <1>6 DEF MapSector, DirectorySectors
  <1>8. SpecialFiles(e)
    <2>1. DirectoryHeader.dataSectors
            \in [1..2 -> SectorNumbers \ {FreeMapSector, DirectorySector, x1}]
      BY MapHeaderFacts, DirectoryHeaderFacts
    <2> QED BY <1>6, <1>7, <2>1, MapHeaderFacts, DirectoryHeaderFacts DEF SpecialFiles
  <1>9. Directory(e) = EmptyTable
    <2>1. Directory(e) = DirectoryFrom(c2, c3)
      BY <1>5, <1>7 DEF Directory
    <2> QED BY <2>1, EmptyTableFacts, RoundTrip
  <1>10. FreeMap(e) = MarkedThen
    BY <1>5, <1>7 DEF FreeMap, MapOf
  <1>11. Listed(e) = {}
    BY <1>9, EmptyTableFacts DEF Listed
  <1>12. SpecialSectors(e) = MarkedThen
    BY <1>7, <1>8, SpecialIs, DirectoryHeaderFacts
  <1>13. MapExact(e)
    BY <1>10, <1>11, <1>12 DEF MapExact
  <1>14. StaleBehind(Directory(e))
    BY <1>9, EmptyTableFacts DEF StaleBehind
  <1>15. GoodDisk(e)
    BY <1>5, <1>8, <1>9, <1>11, <1>13, <1>14, EmptyTableFacts DEF GoodDisk, FilesApart
  <1> QED BY <1>10, <1>11, <1>15, DirectoryHeaderFacts DEF e

\* A file without data takes the sector of its header.
LEMMA EmptyFile ==
    ASSUME NEW d, GoodDisk(d), NEW name, Short(name) \in StoredNames, CanCreate(d, name, 0)
    PROVE  NewMap(d, 0) = FreeMap(d) \cup {NewSector(d)}
  <1>1. IsHeader(NewHeader(d, 0)) /\ NewHeader(d, 0).numBytes = 0
    BY NewFacts, SizesInSectors
  <1>2. DOMAIN NewHeader(d, 0).dataSectors = {}
    BY <1>1, SizesInSectors DEF IsHeader
  <1>3. Range(NewHeader(d, 0).dataSectors) = {}
    BY <1>2 DEF Range
  <1> QED BY <1>3 DEF NewMap

LEMMA CanCreateEmpty ==
    ASSUME NEW d, NEW name, FindIndex(Directory(d), name) = {},
           Clear(FreeMap(d)) # {}, FreeEntries(Directory(d)) # {}
    PROVE  CanCreate(d, name, 0)
  <1>1. \A marked : Cardinality(Clear(marked)) \in Nat
    BY ClearFacts, FS_CardinalityType
  <1>2. Allocates(FreeMap(d) \cup {Min(Clear(FreeMap(d)))}, 0)
    BY <1>1, SizesInSectors DEF Allocates
  <1> QED BY <1>2 DEF CanCreate

InitialDisk1 == Settled(Formatted, Creation(Formatted, InitialFiles[1], 0))
InitialDisk2 == Settled(InitialDisk1, Creation(InitialDisk1, InitialFiles[2], 0))

\* The initial files can be created.
LEMMA InitialCreates ==
  /\ Short(InitialFiles[1]) \in StoredNames /\ Short(InitialFiles[2]) \in StoredNames
  /\ GoodDisk(Formatted) /\ CanCreate(Formatted, InitialFiles[1], 0)
  /\ GoodDisk(InitialDisk1) /\ CanCreate(InitialDisk1, InitialFiles[2], 0)
  <1> DEFINE d0 == Formatted
             d1 == InitialDisk1
             n1 == InitialFiles[1]
             n2 == InitialFiles[2]
  <1>1. Short(n1) \in StoredNames /\ Short(n2) \in StoredNames /\ Short(n1) # Short(n2)
    BY FileSystemAssumption DEF StoredNames
  <1>2. GoodDisk(d0) /\ Listed(d0) = {}
        /\ \E x3, x4, x5 : FreeMap(d0) = {FreeMapSector, DirectorySector, x3, x4, x5}
    BY FormattedGood
  <1>3. 1 \in 1..NumDirEntries /\ 2 \in 1..NumDirEntries
    BY FileSystemAssumption
  <1>4. CanCreate(d0, n1, 0)
    <2>1. FindIndex(Directory(d0), n1) = {}
      BY <1>2, FindUnlisted
    <2>2. Clear(FreeMap(d0)) # {}
      <3>1. PICK x3, x4, x5 : FreeMap(d0) = {FreeMapSector, DirectorySector, x3, x4, x5}
        BY <1>2
      <3>2. FreeMap(d0) = {FreeMapSector, DirectorySector, x3, x4, x5, x5}
        BY <3>1
      <3> QED BY <3>2, RoomForOne
    <2>3. FreeEntries(Directory(d0)) # {}
      BY <1>2, <1>3 DEF FreeEntries, Listed
    <2> QED BY <2>1, <2>2, <2>3, CanCreateEmpty
  <1>5. GoodDisk(d1)
    BY <1>1, <1>2, <1>4, SizesInSectors, CreationGood DEF InitialDisk1
  <1>6. /\ Listed(d1) = {NewEntry(d0)}
        /\ Directory(d1)[NewEntry(d0)].name = Short(n1)
    <2>1. Listed(d1) = Listed(d0) \cup {NewEntry(d0)}
      BY <1>1, <1>2, <1>4, SizesInSectors, CreatedFiles DEF InitialDisk1
    <2>2. Directory(d1) = NewTable(d0, n1)
      BY <1>1, <1>2, <1>4, SizesInSectors, CreationResult DEF InitialDisk1
    <2>3. NewTable(d0, n1)[NewEntry(d0)]
            = [inUse |-> TRUE, sector |-> NewSector(d0), name |-> Short(n1)]
      BY <1>1, <1>2, <1>4, SizesInSectors, NewEntryFacts
    <2> QED BY <1>2, <2>1, <2>2, <2>3
  <1>7. CanCreate(d1, n2, 0)
    <2>1. FindIndex(Directory(d1), n2) = {}
      BY <1>1, <1>6, FindUnlisted
    <2>2. Clear(FreeMap(d1)) # {}
      <3>1. PICK x3, x4, x5 : FreeMap(d0) = {FreeMapSector, DirectorySector, x3, x4, x5}
        BY <1>2
      <3>2. FreeMap(d1) = NewMap(d0, 0)
        BY <1>1, <1>2, <1>4, SizesInSectors, CreationResult DEF InitialDisk1
      <3>3. NewMap(d0, 0) = FreeMap(d0) \cup {NewSector(d0)}
        BY <1>1, <1>2, <1>4, EmptyFile
      <3>4. FreeMap(d1) = {FreeMapSector, DirectorySector, x3, x4, x5, NewSector(d0)}
        BY <3>1, <3>2, <3>3
      <3> QED BY <3>4, RoomForOne
    <2>3. FreeEntries(Directory(d1)) # {}
      <3>1. \E i \in 1..NumDirEntries : i \notin Listed(d1)
        BY <1>3, <1>6
      <3> QED BY <3>1 DEF FreeEntries, Listed
    <2> QED BY <2>1, <2>2, <2>3, CanCreateEmpty
  <1> QED BY <1>1, <1>2, <1>4, <1>5, <1>7

LEMMA InitialGood == GoodDisk(InitialDisk2)
  BY InitialCreates, SizesInSectors, CreationGood DEF InitialDisk2

-----------------------------------------------------------------------------
(* The inductive invariant *)

\* What the operations write, on a disk on which they find what they need.
HeaderAt(d, i) == d[Directory(d)[i].sector]
Creates(d, w) ==
  \E name, size : /\ Short(name) \in StoredNames /\ size \in Nat
                  /\ CanCreate(d, name, size) /\ ~TooLong(size)
                  /\ w = Creation(d, name, size)
Removes(d, w) ==
  \E name, r : /\ r \in Listed(d) /\ FindIndex(Directory(d), name) = {r}
               /\ w = Removal(d, name)
Writes(d, w) ==
  \E r, from, position : /\ r \in Listed(d) /\ Len(from) \in Nat /\ position \in Nat
                         /\ w = WriteAt(d, HeaderAt(d, r), from, position)
Operation(d, w) == w = <<>> \/ Creates(d, w) \/ Removes(d, w) \/ Writes(d, w)

\* A good disk, and an operation of which the first writes are done.
Underway(d, w, k) ==
  /\ GoodDisk(d) /\ Operation(d, w)
  /\ k \in Nat /\ k <= Len(w)
  /\ image = Partly(d, w, k) /\ pending = Rest(w, k)
DiskInv == \E d, w, k : Underway(d, w, k)

\* An open file that was not removed is one of those listed when the operation
\* is done, with the header that is on the disk.
HandleOK(h, gone, d) == h # NULL =>
  /\ h = [hdr |-> h.hdr, seekPosition |-> h.seekPosition, sector |-> h.sector]
  /\ h.seekPosition \in Nat /\ h.sector \in Nat /\ IsHeader(h.hdr)
  /\ gone \/ \E i \in Listed(d) : h.sector = Directory(d)[i].sector /\ h.hdr = HeaderAt(d, i)
HandleInv == removed \in BOOLEAN /\ HandleOK(handle, removed, Settled(image, pending))

IInv == misused \/ (DiskInv /\ HandleInv)

-----------------------------------------------------------------------------
(* Operations keep the disk good *)

LEMMA NoWrites ==
  /\ WriteSequence(<<>>) /\ Len(<<>>) = 0
  /\ \A d : IsDisk(d) => Settled(d, <<>>) = d
  <1>1. DOMAIN <<>> = {} /\ <<>> \in Seq(Range(<<>>)) /\ Len(<<>>) = 0
    BY EmptySeq
  <1>2. WriteSequence(<<>>)
    BY <1>1 DEF WriteSequence, SectorsApart
  <1>3. ASSUME NEW d, IsDisk(d) PROVE Settled(d, <<>>) = d
    <2>1. IsDisk(Settled(d, <<>>)) /\ \A s \in SectorNumbers : Settled(d, <<>>)[s] = d[s]
      BY <1>1, <1>2, SettledAt
    <2> QED BY <1>3, <2>1, SameDisk
  <1> QED BY <1>1, <1>2, <1>3

\* Write changes nothing but the contents of its file.
LEMMA WriteLeaves ==
    ASSUME NEW d, NEW r, NEW from, NEW position \in Nat,
           NEW e, e = Settled(d, WriteAt(d, HeaderAt(d, r), from, position)),
           IsHeader(HeaderAt(d, r)), Len(from) \in Nat
    PROVE  /\ IsDisk(e)
           /\ \A s \in SectorNumbers : s \notin Range(HeaderAt(d, r).dataSectors) => e[s] = d[s]
  <1>1. IsDisk(e)
    BY WriteAtResult
  <1>2. \A s \in SectorNumbers : s \notin Range(HeaderAt(d, r).dataSectors) => e[s] = d[s]
    BY WriteAtResult
  <1> QED BY <1>1, <1>2

LEMMA OperationGood ==
    ASSUME NEW d, GoodDisk(d), NEW w, Operation(d, w)
    PROVE  WriteSequence(w) /\ Len(w) \in Nat /\ GoodDisk(Settled(d, w))
  <1>1. CASE w = <<>>
    BY <1>1, NoWrites DEF GoodDisk
  <1>2. CASE Creates(d, w)
    <2>1. PICK name, size : /\ Short(name) \in StoredNames /\ size \in Nat
                            /\ CanCreate(d, name, size) /\ ~TooLong(size)
                            /\ w = Creation(d, name, size)
      BY <1>2 DEF Creates
    <2>2. WriteSequence(w) /\ GoodDisk(Settled(d, w))
      BY <2>1, CreationWrites, CreationGood
    <2> QED BY <2>2 DEF WriteSequence
  <1>3. CASE Removes(d, w)
    <2>1. PICK name, r : /\ r \in Listed(d) /\ FindIndex(Directory(d), name) = {r}
                         /\ w = Removal(d, name)
      BY <1>3 DEF Removes
    <2>2. WriteSequence(w) /\ GoodDisk(Settled(d, w))
      BY <2>1, RemovalWrites, RemovalGood
    <2> QED BY <2>2 DEF WriteSequence
  <1>4. CASE Writes(d, w)
    <2>1. PICK r, from, position :
            /\ r \in Listed(d) /\ Len(from) \in Nat /\ position \in Nat
            /\ w = WriteAt(d, HeaderAt(d, r), from, position)
      BY <1>4 DEF Writes
    <2>2. IsHeader(HeaderAt(d, r))
      BY <2>1, OwnedFacts DEF HeaderAt
    <2>3. WriteSequence(w)
      BY <2>1, <2>2, WriteAtWrites
    <2>4. IsDisk(Settled(d, w))
          /\ \A s \in SectorNumbers : s \notin Range(HeaderAt(d, r).dataSectors) =>
                Settled(d, w)[s] = d[s]
      BY <2>1, <2>2, WriteAtResult
    <2>5. GoodDisk(Settled(d, w))
      BY <2>1, <2>4, DataWritten DEF HeaderAt
    <2> QED BY <2>3, <2>5 DEF WriteSequence
  <1> QED BY <1>1, <1>2, <1>3, <1>4 DEF Operation

\* In the course of an operation the disk settles to what the operation leaves,
\* and with nothing more to write it is there.
LEMMA UnderwayFacts ==
    ASSUME NEW d, NEW w, NEW k, Underway(d, w, k)
    PROVE  /\ WriteSequence(w) /\ Len(w) \in Nat
           /\ Settled(image, pending) = Settled(d, w)
           /\ GoodDisk(Settled(image, pending))
           /\ Quiet => image = Settled(image, pending)
           /\ ~Quiet => k < Len(w)
  <1>1. /\ WriteSequence(w) /\ Len(w) \in Nat /\ GoodDisk(Settled(d, w))
        /\ k \in Nat /\ k <= Len(w) /\ image = Partly(d, w, k) /\ pending = Rest(w, k)
    BY OperationGood DEF Underway
  <1>2. Settled(image, pending) = Settled(d, w)
    BY <1>1, SettledTheSame
  <1>3. pending = <<>> <=> k = Len(w)
    BY <1>1, RestFacts
  <1>4. Quiet => image = Settled(d, w)
    BY <1>1, <1>3, AllWritten DEF Quiet
  <1>5. ~Quiet => k < Len(w)
    <2>1. ~Quiet => k # Len(w)
      BY <1>3 DEF Quiet
    <2> QED BY <1>1, <2>1
  <1> QED BY <1>1, <1>2, <1>4, <1>5

LEMMA QuietGood ==
    ASSUME DiskInv, Quiet
    PROVE  GoodDisk(image) /\ Settled(image, pending) = image
  <1>1. PICK d, w, k : Underway(d, w, k)
    BY DEF DiskInv
  <1> QED BY <1>1, UnderwayFacts

\* The start of an operation.
LEMMA Starts ==
    ASSUME NEW d, GoodDisk(d), NEW w, Operation(d, w), image' = d, pending' = w
    PROVE  DiskInv' /\ Settled(image, pending)' = Settled(d, w)
  <1>1. WriteSequence(w) /\ Len(w) \in Nat /\ IsDisk(d)
    BY OperationGood DEF GoodDisk
  <1>2. image' = Partly(d, w, 0) /\ pending' = Rest(w, 0) /\ 0 \in Nat /\ 0 <= Len(w)
    BY <1>1, NothingWritten
  <1>3. Underway(d, w, 0)'
    BY <1>2 DEF Underway
  <1> QED BY <1>3 DEF DiskInv

\* Its next write.
LEMMA Continues ==
    ASSUME NEW d, NEW w, NEW k, Underway(d, w, k), WriteSector
    PROVE  /\ k < Len(w) /\ k + 1 \in 1..Len(w) /\ Underway(d, w, k + 1)'
           /\ Settled(image, pending)' = Settled(image, pending)
  <1>1. /\ WriteSequence(w) /\ Len(w) \in Nat /\ k < Len(w) /\ k \in Nat
        /\ image = Partly(d, w, k) /\ pending = Rest(w, k)
    <2>1. ~Quiet
      BY DEF WriteSector, Quiet
    <2> QED BY <2>1, UnderwayFacts DEF Underway
  <1>2. k + 1 \in 1..Len(w) /\ k + 1 \in Nat /\ k + 1 <= Len(w) /\ k <= Len(w)
    BY <1>1
  <1>3. image' = Partly(d, w, k + 1) /\ pending' = Rest(w, k + 1)
    <2>1. image' = [image EXCEPT ![Head(pending)[1]] = Head(pending)[2]]
          /\ pending' = Tail(pending)
      BY DEF WriteSector
    <2>2. /\ Head(Rest(w, k)) = w[k + 1]
          /\ Tail(Rest(w, k)) = Rest(w, k + 1)
          /\ [Partly(d, w, k) EXCEPT ![w[k + 1][1]] = w[k + 1][2]] = Partly(d, w, k + 1)
      BY <1>1, NextWrite
    <2> QED BY <1>1, <2>1, <2>2, Zenon
  <1>4. Underway(d, w, k + 1)'
    BY <1>2, <1>3 DEF Underway
  <1>5. Settled(image, pending)' = Settled(d, w)
    BY <1>1, <1>2, <1>3, SettledTheSame
  <1>6. Settled(image, pending) = Settled(d, w)
    BY UnderwayFacts
  <1> QED BY <1>1, <1>2, <1>4, <1>5, <1>6

-----------------------------------------------------------------------------
(* Operations keep an open file *)

LEMMA HandleThroughCreation ==
    ASSUME NEW d, GoodDisk(d), NEW name, Short(name) \in StoredNames, NEW size \in Nat,
           CanCreate(d, name, size), ~TooLong(size), NEW h, NEW gone \in BOOLEAN, HandleOK(h, gone, d)
    PROVE  HandleOK(h, gone, Settled(d, Creation(d, name, size)))
  <1> DEFINE e == Settled(d, Creation(d, name, size))
  <1>1. /\ Listed(d) \subseteq Listed(e)
        /\ \A i \in Listed(d) : /\ Directory(e)[i] = Directory(d)[i]
                                /\ e[Directory(d)[i].sector] = d[Directory(d)[i].sector]
    BY CreatedFiles
  <1> HIDE DEF e
  <1> QED BY <1>1 DEF HandleOK, HeaderAt, e

\* Remove leaves the headers of the other files.
LEMMA HandleThroughRemoval ==
    ASSUME NEW d, GoodDisk(d), NEW name, NEW r \in Listed(d),
           FindIndex(Directory(d), name) = {r}, NEW h, NEW gone \in BOOLEAN,
           HandleOK(h, gone, d), NEW goneNow \in BOOLEAN,
           goneNow <=> gone \/ (h # NULL /\ h.sector \in Find(d, name))
    PROVE  HandleOK(h, goneNow, Settled(d, Removal(d, name)))
  <1> DEFINE e == Settled(d, Removal(d, name))
  <1>1. /\ Listed(e) = Listed(d) \ {r}
        /\ \A i \in Listed(e) : /\ Directory(e)[i] = Directory(d)[i]
                                /\ e[Directory(d)[i].sector] = d[Directory(d)[i].sector]
    BY RemovedFiles
  <1> HIDE DEF e
  <1>2. SUFFICES ASSUME h # NULL, ~goneNow
                 PROVE  \E i \in Listed(e) : /\ h.sector = Directory(e)[i].sector
                                              /\ h.hdr = HeaderAt(e, i)
    BY DEF HandleOK, e
  <1>3. PICK i \in Listed(d) : h.sector = Directory(d)[i].sector /\ h.hdr = HeaderAt(d, i)
    BY <1>2 DEF HandleOK
  <1>4. i # r
    BY <1>2, <1>3 DEF Find
  <1>5. i \in Listed(e) /\ h.sector = Directory(e)[i].sector /\ h.hdr = HeaderAt(e, i)
    BY <1>1, <1>3, <1>4 DEF HeaderAt
  <1> QED BY <1>5

LEMMA HandleThroughWrite ==
    ASSUME NEW d, GoodDisk(d), NEW r \in Listed(d), NEW from, Len(from) \in Nat,
           NEW position \in Nat, NEW h, NEW gone \in BOOLEAN, HandleOK(h, gone, d)
    PROVE  HandleOK(h, gone, Settled(d, WriteAt(d, HeaderAt(d, r), from, position)))
  <1> DEFINE e == Settled(d, WriteAt(d, HeaderAt(d, r), from, position))
  <1>1. IsHeader(HeaderAt(d, r))
    BY OwnedFacts DEF HeaderAt
  <1>2. IsDisk(e) /\ \A s \in SectorNumbers : s \notin Range(HeaderAt(d, r).dataSectors) =>
                       e[s] = d[s]
    BY <1>1, WriteAtResult
  <1> HIDE DEF e
  <1>3. /\ Directory(e) = Directory(d)
        /\ \A i \in Listed(d) : e[Directory(d)[i].sector] = d[Directory(d)[i].sector]
    BY <1>2, DataWritten DEF HeaderAt
  <1>4. Listed(e) = Listed(d) /\ \A i \in Listed(d) : HeaderAt(e, i) = HeaderAt(d, i)
    BY <1>3 DEF Listed, HeaderAt
  <1> QED BY <1>3, <1>4 DEF HandleOK, e

-----------------------------------------------------------------------------
(* Every action keeps the invariant *)

LEMMA NamesStored == \A name \in FileNames : Short(name) \in StoredNames
  BY DEF StoredNames

LEMMA InitInvariant == FSInit => IInv
  <1> SUFFICES ASSUME FSInit PROVE IInv
    OBVIOUS
  <1>1. image = InitialDisk2 /\ pending = <<>> /\ handle = NULL /\ removed = FALSE
    BY Zenon DEF FSInit, InitialDisk1, InitialDisk2
  <1>2. GoodDisk(image) /\ IsDisk(image)
    BY <1>1, InitialGood DEF GoodDisk
  <1>3. Operation(image, <<>>)
    BY DEF Operation
  <1>4. /\ image = Partly(image, <<>>, 0) /\ pending = Rest(<<>>, 0)
        /\ 0 \in Nat /\ 0 <= Len(<<>>)
    BY <1>1, <1>2, NoWrites, NothingWritten
  <1>5. Underway(image, <<>>, 0)
    BY <1>2, <1>3, <1>4 DEF Underway
  <1>6. HandleInv
    BY <1>1 DEF HandleInv, HandleOK
  <1> QED BY <1>5, <1>6 DEF IInv, DiskInv

\* An operation that changes the disk begins.
LEMMA Begins ==
    ASSUME IInv, Ready, NEW w, Operation(image, w), UNCHANGED image, pending' = w,
           removed' \in BOOLEAN, HandleOK(handle', removed', Settled(image, w))
    PROVE  IInv'
  <1>1. GoodDisk(image)
    BY QuietGood DEF IInv, Ready
  <1> DEFINE d == image
  <1>2. PICK e : e = image
    OBVIOUS
  <1>3. DiskInv' /\ Settled(image, pending)' = Settled(e, w)
    BY <1>1, <1>2, Starts
  <1> QED BY <1>2, <1>3 DEF IInv, HandleInv

\* A step that writes nothing.
LEMMA Stays ==
    ASSUME IInv, Ready, UNCHANGED <<image, pending>>,
           removed' \in BOOLEAN, HandleOK(handle', removed', image)
    PROVE  IInv'
  <1>1. GoodDisk(image) /\ IsDisk(image)
    BY QuietGood DEF IInv, GoodDisk, Ready
  <1>2. Settled(image, <<>>) = image /\ Operation(image, <<>>)
    BY <1>1, NoWrites DEF Operation
  <1>3. pending' = <<>>
    BY DEF Ready, Quiet
  <1> QED BY <1>2, <1>3, Begins

LEMMA HandleQuiet ==
    ASSUME IInv, Ready
    PROVE  GoodDisk(image) /\ removed \in BOOLEAN /\ HandleOK(handle, removed, image)
  BY QuietGood DEF IInv, HandleInv, Ready

LEMMA CreateInv ==
    ASSUME IInv, NEW name \in FileNames, NEW size \in Sizes, Create(name, size)
    PROVE  IInv'
  <1>1. Ready /\ UNCHANGED <<image, handle, removed>>
    BY DEF Create
  <1>2. GoodDisk(image) /\ removed \in BOOLEAN /\ HandleOK(handle, removed, image)
    BY <1>1, HandleQuiet
  <1>3. CASE CanCreate(image, name, size) /\ ~TooLong(size)
    <2>1. Short(name) \in StoredNames /\ size \in Nat
      BY NamesStored, FileSystemAssumption
    <2>2. pending' = Creation(image, name, size)
      BY <1>3 DEF Create
    <2>3. Operation(image, Creation(image, name, size))
      BY <1>3, <2>1 DEF Operation, Creates
    <2>4. PICK d : d = image
      OBVIOUS
    <2>5. HandleOK(handle, removed, Settled(d, Creation(d, name, size)))
      BY <1>2, <1>3, <2>1, <2>4, HandleThroughCreation
    <2> QED BY <1>1, <1>2, <2>2, <2>3, <2>4, <2>5, Begins
  <1>4. CASE CanCreate(image, name, size) /\ TooLong(size)
    BY <1>4 DEF Create, IInv
  <1>5. CASE ~CanCreate(image, name, size)
    <2>1. pending' = pending
      BY <1>1, <1>5 DEF Create, Ready, Quiet
    <2> QED BY <1>1, <1>2, <2>1, Stays
  <1> QED BY <1>3, <1>4, <1>5

LEMMA RemoveInv ==
    ASSUME IInv, NEW name \in FileNames, Remove(name)
    PROVE  IInv'
  <1>1. Ready /\ UNCHANGED <<image, handle>>
        /\ removed' = (removed \/ (handle # NULL /\ handle.sector \in Find(image, name)))
    BY DEF Remove
  <1>2. GoodDisk(image) /\ removed \in BOOLEAN /\ HandleOK(handle, removed, image)
    BY <1>1, HandleQuiet
  <1>3. removed' \in BOOLEAN
    BY <1>1
  <1>4. CASE Find(image, name) # {}
    <2>1. PICK d, h, gone, goneNow :
            d = image /\ h = handle /\ gone = removed /\ goneNow = removed'
      OBVIOUS
    <2>2. PICK r \in Listed(d) : FindIndex(Directory(d), name) = {r}
      BY <1>2, <1>4, <2>1, FoundListed
    <2>3. pending' = Removal(image, name)
      BY <1>4 DEF Remove
    <2>4. Operation(image, Removal(image, name))
      BY <2>1, <2>2 DEF Operation, Removes
    <2>5. HandleOK(h, goneNow, Settled(d, Removal(d, name)))
      BY <1>1, <1>2, <1>3, <2>1, <2>2, HandleThroughRemoval
    <2> QED BY <1>1, <1>3, <2>1, <2>3, <2>4, <2>5, Begins
  <1>5. CASE Find(image, name) = {}
    <2>1. pending' = pending /\ removed' = removed
      BY <1>1, <1>2, <1>5 DEF Remove, Ready, Quiet
    <2> QED BY <1>1, <1>2, <2>1, Stays
  <1> QED BY <1>4, <1>5

LEMMA OpenInv ==
    ASSUME IInv, NEW name \in FileNames, Open(name)
    PROVE  IInv'
  <1>1. Ready /\ UNCHANGED <<image, pending, handle, removed>>
    BY DEF Open
  <1> QED BY <1>1, HandleQuiet, Stays

LEMMA NewOpenFileInv ==
    ASSUME IInv, NEW name \in FileNames, NewOpenFile(name)
    PROVE  IInv'
  <1>1. Ready /\ UNCHANGED <<image, pending>> /\ removed' = FALSE
    BY DEF NewOpenFile
  <1>2. PICK s \in Find(image, name) :
          handle' = [hdr |-> image[s], seekPosition |-> 0, sector |-> s]
    BY DEF NewOpenFile
  <1>3. PICK d : d = image
    OBVIOUS
  <1>4. GoodDisk(d)
    BY <1>1, <1>3, HandleQuiet
  <1>5. PICK i \in Listed(d) : s = Directory(d)[i].sector
    <2>1. Find(d, name) # {} /\ s \in Find(d, name)
      BY <1>2, <1>3
    <2> QED BY <1>4, <2>1, FoundListed
  <1>6. IsHeader(d[s]) /\ s \in Nat
    BY <1>4, <1>5, OwnedFacts, SectorNumberFacts
  <1>7. HandleOK(handle', FALSE, d)
    BY <1>2, <1>3, <1>5, <1>6 DEF HandleOK, HeaderAt
  <1> QED BY <1>1, <1>3, <1>7, Stays

\* Another position in the open file.
LEMMA HandleMoves ==
    ASSUME NEW d, NEW h, h # NULL, NEW gone, HandleOK(h, gone, d), NEW p \in Nat,
           NEW g, g = [h EXCEPT !.seekPosition = p]
    PROVE  HandleOK(g, gone, d)
  <1>1. h = [hdr |-> h.hdr, seekPosition |-> h.seekPosition, sector |-> h.sector]
    BY DEF HandleOK
  <1>2. g = [hdr |-> h.hdr, seekPosition |-> p, sector |-> h.sector]
    BY <1>1
  <1> QED BY <1>2 DEF HandleOK

\* How many bytes a request moves.
LEMMA InOpenFile ==
    ASSUME NEW d, NEW h, h # NULL, NEW gone \in BOOLEAN, HandleOK(h, gone, d), NEW n \in Int
    PROVE  h.seekPosition \in Nat /\ h.hdr.numBytes \in Nat
           /\ InFile(h.hdr, n, h.seekPosition) \in Nat
  <1>1. h.seekPosition \in Nat /\ h.hdr.numBytes \in Nat
    BY DEF HandleOK, IsHeader
  <1> QED BY <1>1, InFileFacts

LEMMA ReadAtLength ==
    ASSUME NEW d, NEW hdr, NEW n, NEW position, InFile(hdr, n, position) \in Nat
    PROVE  Len(ReadAt(d, hdr, n, position)) = InFile(hdr, n, position)
  <1> DEFINE m == InFile(hdr, n, position)
             r == ReadAt(d, hdr, n, position)
  <1>1. r = [k \in 1..m |-> ByteAt(d, hdr, position + k - 1)]
    BY DEF ReadAt
  <1> HIDE DEF m, r
  <1>2. r \in [1..m -> Range(r)] /\ DOMAIN r = 1..m /\ m \in Nat
    BY <1>1 DEF Range, m
  <1>3. r \in Seq(Range(r))
    BY <1>2
  <1> QED BY <1>2, <1>3 DEF m, r

LEMMA ReadInv ==
    ASSUME IInv, NEW n \in Counts, Read(n)
    PROVE  IInv'
  <1>1. Ready /\ handle # NULL /\ UNCHANGED <<image, pending, removed>>
    BY DEF Read
  <1>2. PICK d, h, gone : d = image /\ h = handle /\ gone = removed
    OBVIOUS
  <1>3. gone \in BOOLEAN /\ HandleOK(h, gone, d) /\ h # NULL /\ n \in Int
    BY <1>1, <1>2, HandleQuiet, FileSystemAssumption
  <1> DEFINE m == InFile(h.hdr, n, h.seekPosition)
             p == h.seekPosition + m
  <1>4. h.seekPosition \in Nat /\ m \in Nat
    BY <1>3, InOpenFile
  <1>5. handle' = [h EXCEPT !.seekPosition = h.seekPosition
                                   + Len(ReadAt(d, h.hdr, n, h.seekPosition))]
    BY <1>2 DEF Read
  <1>6. Len(ReadAt(d, h.hdr, n, h.seekPosition)) = m
    BY <1>4, ReadAtLength
  <1> HIDE DEF m
  <1>7. p \in Nat /\ handle' = [h EXCEPT !.seekPosition = p]
    BY <1>4, <1>5, <1>6
  <1> HIDE DEF p
  <1>8. HandleOK(handle', gone, d)
    BY <1>3, <1>7, HandleMoves
  <1> QED BY <1>1, <1>2, <1>3, <1>8, Stays

\* A write to a removed file moves no byte, or is what is not guarded against.
LEMMA WriteInv ==
    ASSUME IInv, NEW from \in Chunks, Write(from)
    PROVE  IInv'
  <1>1. Ready /\ handle # NULL /\ UNCHANGED <<image, removed>>
    BY DEF Write
  <1>2. PICK d, h, gone : d = image /\ h = handle /\ gone = removed
    OBVIOUS
  <1>3. GoodDisk(d) /\ gone \in BOOLEAN /\ HandleOK(h, gone, d) /\ h # NULL
    BY <1>1, <1>2, HandleQuiet
  <1>4. Len(from) \in Nat /\ Len(from) \in Int
    BY FileSystemAssumption
  <1> DEFINE m == InFile(h.hdr, Len(from), h.seekPosition)
             p == h.seekPosition + m
  <1>5. h.seekPosition \in Nat /\ m \in Nat
    BY <1>3, <1>4, InOpenFile
  <1>6. /\ handle' = [h EXCEPT !.seekPosition = p]
        /\ pending' = WriteAt(d, h.hdr, from, h.seekPosition)
        /\ misused' = (gone /\ m > 0)
    BY <1>2 DEF Write
  <1>7. m = 0 => WriteAt(d, h.hdr, from, h.seekPosition) = <<>>
    BY DEF WriteAt
  <1> HIDE DEF m
  <1>8. p \in Nat
    BY <1>5
  <1> HIDE DEF p
  <1>9. HandleOK(handle', gone, d)
    BY <1>3, <1>6, <1>8, HandleMoves
  <1>10. CASE ~gone
    <2>1. PICK r \in Listed(d) : h.hdr = HeaderAt(d, r)
      BY <1>3, <1>10 DEF HandleOK
    <2> DEFINE w == WriteAt(d, HeaderAt(d, r), from, h.seekPosition)
    <2>2. Operation(d, w)
      BY <1>4, <1>5 DEF Operation, Writes
    <2>3. HandleOK(handle', gone, Settled(d, w))
      BY <1>3, <1>4, <1>5, <1>9, HandleThroughWrite
    <2> QED BY <1>1, <1>2, <1>3, <1>6, <2>1, <2>2, <2>3, Begins
  <1>11. CASE m = 0
    <2>1. pending' = pending
      BY <1>1, <1>6, <1>7, <1>11 DEF Ready, Quiet
    <2> QED BY <1>1, <1>2, <1>3, <1>9, <2>1, Stays
  <1>12. CASE gone /\ m # 0
    <2>1. m > 0
      BY <1>5, <1>12
    <2> QED BY <1>6, <1>12, <2>1 DEF IInv
  <1> QED BY <1>10, <1>11, <1>12

LEMMA SeekInv ==
    ASSUME IInv, NEW p \in Positions, Seek(p)
    PROVE  IInv'
  <1>1. /\ Ready /\ handle # NULL /\ UNCHANGED <<image, pending, removed>>
        /\ handle' = [handle EXCEPT !.seekPosition = p] /\ misused' = (p < 0)
    BY DEF Seek
  <1>2. PICK d, h, gone : d = image /\ h = handle /\ gone = removed
    OBVIOUS
  <1>3. gone \in BOOLEAN /\ HandleOK(h, gone, d) /\ p \in Int
    BY <1>1, <1>2, HandleQuiet, FileSystemAssumption
  <1>4. CASE p < 0
    BY <1>1, <1>4 DEF IInv
  <1>5. CASE ~(p < 0)
    <2>1. p \in Nat
      BY <1>3, <1>5
    <2>2. HandleOK(handle', gone, d)
      BY <1>1, <1>2, <1>3, <2>1, HandleMoves
    <2> QED BY <1>1, <1>2, <1>3, <2>2, Stays
  <1> QED BY <1>4, <1>5

LEMMA CloseInv ==
    ASSUME IInv, Close
    PROVE  IInv'
  <1>1. /\ Ready /\ UNCHANGED <<image, pending>> /\ removed' \in BOOLEAN
        /\ HandleOK(handle', removed', image)
    BY DEF Close, HandleOK
  <1> QED BY <1>1, Stays

LEMMA WriteSectorInv ==
    ASSUME IInv, WriteSector
    PROVE  IInv'
  <1>1. handle' = handle /\ removed' = removed /\ misused' = misused
    BY DEF WriteSector
  <1>2. CASE ~misused
    <2>1. PICK d, w, k : Underway(d, w, k)
      BY <1>2 DEF IInv, DiskInv
    <2>2. Underway(d, w, k + 1)' /\ Settled(image, pending)' = Settled(image, pending)
      BY <2>1, Continues
    <2>3. DiskInv'
      BY <2>2 DEF DiskInv
    <2> QED BY <1>1, <1>2, <2>2, <2>3 DEF IInv, HandleInv
  <1> QED BY <1>1, <1>2 DEF IInv

LEMMA FileSystemNextInv ==
    ASSUME IInv, [FSNext]_fsVars
    PROVE  IInv'
  <1>1. CASE FSNext
    BY <1>1, CreateInv, RemoveInv, OpenInv, NewOpenFileInv, ReadInv, WriteInv, SeekInv,
       CloseInv, WriteSectorInv DEF FSNext
  <1>2. CASE UNCHANGED fsVars
    <2>1. UNCHANGED <<image, pending, handle, removed, misused>>
      BY <1>2 DEF fsVars
    <2> QED BY <2>1 DEF IInv, DiskInv, Underway, HandleInv
  <1> QED BY <1>1, <1>2

\* Whatever a client calls and wherever the machine stops, the disk is a good one
\* on which some of the writes of one operation are done, and would be a good
\* one with the rest of them; an open file that was not removed stays one of
\* those listed; unless the client did what the code does not guard against.
THEOREM FileSystemInvariant == FSSpec => []IInv
  <1>1. FSInit => IInv
    BY InitInvariant
  <1>2. IInv /\ [FSNext]_fsVars => IInv'
    BY FileSystemNextInv
  <1> QED BY <1>1, <1>2, PTL DEF FSSpec

\* Create, Remove and Write leave a free map that marks the sectors of the files
\* and no others, and no sector or name twice, between any two operations.
THEOREM FileSystemConsistent == FSSpec => []FileSystemInv
  <1>1. IInv => FileSystemInv
    <2> SUFFICES ASSUME IInv, Ready
                 PROVE  Consistent(image)
                        /\ (handle # NULL /\ ~removed => image[handle.sector] = handle.hdr)
      BY DEF FileSystemInv
    <2>1. GoodDisk(image) /\ HandleOK(handle, removed, image)
      BY HandleQuiet
    <2>2. Consistent(image)
      BY <2>1, GoodIsConsistent
    <2> QED BY <2>1, <2>2 DEF HandleOK, HeaderAt
  <1> QED BY <1>1, FileSystemInvariant, PTL

-----------------------------------------------------------------------------
(* What is found of a file *)

\* What a restarted machine finds of the file whose header is in sector s.
FileView(d, s) ==
  IF d[s].is # "header" THEN <<>>
  ELSE <<d[s], ReadAt(d, d[s], d[s].numBytes, 0),
         {s} \cup Range(d[s].dataSectors) \subseteq FreeMap(d)>>

LEMMA ViewIs == \A d, name : View(d, name) = {FileView(d, s) : s \in Find(d, name)}
  BY DEF View, FileView

\* The bytes of a file are in its sectors.
LEMMA BytesOfFile ==
    ASSUME NEW hdr, IsHeader(hdr), NEW k \in 1..InFile(hdr, hdr.numBytes, 0)
    PROVE  ByteToSector(hdr, 0 + k - 1) \in Range(hdr.dataSectors)
  <1>1. hdr.numBytes \in Nat
    BY DEF IsHeader
  <1>2. InFile(hdr, hdr.numBytes, 0) \in Nat /\ InFile(hdr, hdr.numBytes, 0) <= hdr.numBytes
    BY <1>1 DEF InFile, SmallerOf
  <1>3. 0 + k - 1 \in Nat /\ 0 + k - 1 < hdr.numBytes
    BY <1>1, <1>2
  <1> DEFINE p == 0 + k - 1
  <1> HIDE DEF p
  <1>4. p \div SectorSize + 1 \in DOMAIN hdr.dataSectors
    BY <1>1, <1>3, RoundUpFacts, HeaderFacts DEF p
  <1>5. ByteToSector(hdr, p) \in Range(hdr.dataSectors)
    BY <1>4 DEF ByteToSector, Range
  <1> QED BY <1>5 DEF p

\* On a disk whose sectors each hold what one of two disks has there, a file
\* that reads the same on those two reads so as well.
LEMMA ReadAtMixed ==
    ASSUME NEW hdr, IsHeader(hdr), NEW d, NEW e, NEW f,
           \A s \in Range(hdr.dataSectors) : f[s] = d[s] \/ f[s] = e[s],
           ReadAt(d, hdr, hdr.numBytes, 0) = ReadAt(e, hdr, hdr.numBytes, 0)
    PROVE  ReadAt(f, hdr, hdr.numBytes, 0) = ReadAt(d, hdr, hdr.numBytes, 0)
  <1> DEFINE m == InFile(hdr, hdr.numBytes, 0)
             At(g) == ReadAt(g, hdr, hdr.numBytes, 0)
  <1>1. \A g : At(g) = [k \in 1..m |-> ByteAt(g, hdr, 0 + k - 1)]
    BY DEF ReadAt
  <1>2. ASSUME NEW k \in 1..m PROVE ByteAt(f, hdr, 0 + k - 1) = ByteAt(d, hdr, 0 + k - 1)
    <2>1. ByteToSector(hdr, 0 + k - 1) \in Range(hdr.dataSectors)
      BY BytesOfFile
    <2>2. At(d)[k] = ByteAt(d, hdr, 0 + k - 1) /\ At(e)[k] = ByteAt(e, hdr, 0 + k - 1)
      <3> HIDE DEF m, At
      <3> QED BY <1>1
    <2> DEFINE p == 0 + k - 1
    <2>3. ByteAt(d, hdr, p) = ByteAt(e, hdr, p)
      BY <2>2
    <2> HIDE DEF p, m, At
    <2> QED BY <2>1, <2>3 DEF ByteAt, p
  <1> HIDE DEF m, At
  <1>3. At(f) = At(d)
    BY <1>1, <1>2
  <1> QED BY <1>3 DEF At

LEMMA ReadAtSame ==
    ASSUME NEW hdr, IsHeader(hdr), NEW d, NEW e, \A s \in Range(hdr.dataSectors) : e[s] = d[s]
    PROVE  ReadAt(e, hdr, hdr.numBytes, 0) = ReadAt(d, hdr, hdr.numBytes, 0)
  BY ReadAtMixed

\* A listed file of a good disk is whole and its sectors are marked.
LEMMA ListedView ==
    ASSUME NEW d, GoodDisk(d),
           NEW name, NEW i \in Listed(d), Directory(d)[i].name = Short(name)
    PROVE  View(d, name)
             = {<<HeaderAt(d, i), ReadAt(d, HeaderAt(d, i), HeaderAt(d, i).numBytes, 0), TRUE>>}
  <1> DEFINE s == Directory(d)[i].sector
  <1>1. Find(d, name) = {s}
    BY FindListed
  <1>2. IsHeader(d[s]) /\ OwnedBy(d, i) \subseteq FreeMap(d)
    BY OwnedFacts
  <1>3. {s} \cup Range(d[s].dataSectors) \subseteq FreeMap(d)
    BY <1>2 DEF OwnedBy
  <1>4. FileView(d, s) = <<d[s], ReadAt(d, d[s], d[s].numBytes, 0), TRUE>>
    <2>1. d[s].is = "header"
      BY <1>2 DEF IsHeader, HeaderOf
    <2>2. ({s} \cup Range(d[s].dataSectors) \subseteq FreeMap(d)) = TRUE
      BY <1>3
    <2> QED BY <2>1, <2>2, Zenon DEF FileView
  <1> QED BY <1>1, <1>4, ViewIs DEF HeaderAt

\* Where a listed file is found with its sectors as they were and marked, it is
\* seen as it was.
LEMMA SameView ==
    ASSUME NEW d, GoodDisk(d),
           NEW name, NEW i \in Listed(d), Directory(d)[i].name = Short(name),
           NEW e, FindIndex(Directory(e), name) = {i},
           Directory(e)[i].sector = Directory(d)[i].sector,
           \A s \in OwnedBy(d, i) : e[s] = d[s],
           OwnedBy(d, i) \subseteq FreeMap(e)
    PROVE  View(e, name) = View(d, name)
  <1> DEFINE s == Directory(d)[i].sector
  <1>1. Find(e, name) = {s}
    BY DEF Find
  <1>2. /\ s \in OwnedBy(d, i) /\ IsHeader(d[s])
        /\ Range(d[s].dataSectors) \subseteq OwnedBy(d, i)
    BY OwnedFacts
  <1>3. e[s] = d[s] /\ e[s].is = "header"
    BY <1>2 DEF IsHeader, HeaderOf
  <1>4. ReadAt(e, d[s], d[s].numBytes, 0) = ReadAt(d, d[s], d[s].numBytes, 0)
    BY <1>2, ReadAtSame
  <1>5. ({s} \cup Range(e[s].dataSectors) \subseteq FreeMap(e)) = TRUE
    <2>1. {s} \cup Range(d[s].dataSectors) \subseteq FreeMap(e)
      BY <1>2
    <2> QED BY <1>3, <2>1
  <1>6. FileView(e, s) = <<d[s], ReadAt(d, d[s], d[s].numBytes, 0), TRUE>>
    BY <1>3, <1>4, <1>5, Zenon DEF FileView
  <1>7. View(e, name) = {<<d[s], ReadAt(d, d[s], d[s].numBytes, 0), TRUE>>}
    <2>1. View(e, name) = {FileView(e, s)}
      <3> HIDE DEF s
      <3>1. View(e, name) = {FileView(e, q) : q \in {s}}
        BY <1>1, ViewIs
      <3> QED BY <3>1
    <2> QED BY <1>6, <2>1
  <1>8. View(d, name) = {<<d[s], ReadAt(d, d[s], d[s].numBytes, 0), TRUE>>}
    <2>1. View(d, name) = {<<HeaderAt(d, i),
                             ReadAt(d, HeaderAt(d, i), HeaderAt(d, i).numBytes, 0), TRUE>>}
      BY ListedView
    <2> QED BY <2>1 DEF HeaderAt
  <1> QED BY <1>7, <1>8

-----------------------------------------------------------------------------
(* The disk in the course of an operation *)

\* After k of the writes w on the disk d, the disk e.
AfterWrites(d, w, k, e) ==
  /\ \A j \in DOMAIN w : e[w[j][1]] = IF j <= k THEN w[j][2] ELSE d[w[j][1]]
  /\ \A s \in SectorNumbers : (\A j \in DOMAIN w : w[j][1] # s) => e[s] = d[s]

LEMMA PartlyAt ==
    ASSUME NEW d, NEW w, WriteSequence(w), NEW k \in Nat, k <= Len(w)
    PROVE  AfterWrites(d, w, k, Partly(d, w, k))
  <1>1. Len(w) \in Nat /\ DOMAIN w = 1..Len(w) /\ SectorsApart(w)
        /\ \A j \in DOMAIN w : w[j][1] \in SectorNumbers
    BY DEF WriteSequence
  <1>2. \A s \in SectorNumbers :
          Partly(d, w, k)[s] = IF s \in {w[j][1] : j \in 1..k} THEN Settled(d, w)[s] ELSE d[s]
    BY DEF Partly
  <1>3. 1..k \subseteq DOMAIN w
    BY <1>1
  <1>4. ASSUME NEW j \in DOMAIN w
        PROVE  Partly(d, w, k)[w[j][1]] = IF j <= k THEN w[j][2] ELSE d[w[j][1]]
    <2>1. CASE j <= k
      <3>1. w[j][1] \in {w[i][1] : i \in 1..k}
        BY <1>1, <2>1
      <3> QED BY <1>1, <1>2, <2>1, <3>1, SettledAt
    <2>2. CASE ~(j <= k)
      <3>1. w[j][1] \notin {w[i][1] : i \in 1..k}
        BY <1>1, <1>3, <2>2 DEF SectorsApart
      <3> QED BY <1>1, <1>2, <2>2, <3>1
    <2> QED BY <2>1, <2>2
  <1>5. ASSUME NEW s \in SectorNumbers, \A j \in DOMAIN w : w[j][1] # s
        PROVE  Partly(d, w, k)[s] = d[s]
    BY <1>2, <1>3, <1>5
  <1> DEFINE e == Partly(d, w, k)
  <1> HIDE DEF e
  <1>6. /\ \A j \in DOMAIN w : e[w[j][1]] = IF j <= k THEN w[j][2] ELSE d[w[j][1]]
        /\ \A s \in SectorNumbers : (\A j \in DOMAIN w : w[j][1] # s) => e[s] = d[s]
    BY <1>4, <1>5 DEF e
  <1> QED BY <1>6 DEF AfterWrites, e

\* Every sector is as it was or as it will be.
LEMMA OldOrNew ==
    ASSUME NEW d, NEW w, NEW k, NEW s \in SectorNumbers
    PROVE  Partly(d, w, k)[s] = d[s] \/ Partly(d, w, k)[s] = Settled(d, w)[s]
  BY DEF Partly

LEMMA PartlyIsDisk == \A d, w, k : IsDisk(Partly(d, w, k))
  BY DEF IsDisk, Partly

\* After one more write a sector is as it was or as it will be.
LEMMA OneMoreWrite ==
    ASSUME NEW d, NEW w, NEW k \in Nat, NEW s \in SectorNumbers
    PROVE  Partly(d, w, k + 1)[s] = Partly(d, w, k)[s]
           \/ Partly(d, w, k + 1)[s] = Settled(d, w)[s]
  <1>1. 1..k \subseteq 1..k + 1
    OBVIOUS
  <1> QED BY <1>1 DEF Partly

\* The directory when only its first sector is written: its second entries are
\* the old ones, and the straddling one has its old name.
LEMMA FirstWritten ==
    ASSUME NEW u \in Tables, NEW a, NEW b, DirectoryFrom(a, b) \in Tables,
           NEW i \in 1..NumDirEntries
    PROVE  /\ i < Straddling => DirectoryFrom(FirstPart(u), b)[i] = u[i]
           /\ i > Straddling => DirectoryFrom(FirstPart(u), b)[i] = DirectoryFrom(a, b)[i]
           /\ i = Straddling =>
                DirectoryFrom(FirstPart(u), b)[i]
                  = [inUse |-> u[i].inUse, sector |-> u[i].sector,
                     name |-> DirectoryFrom(a, b)[i].name]
  <1> DEFINE c == FirstPart(u)
             EntryOf(g, h, use) ==
               [inUse |-> use[1], sector |-> use[2],
                name |-> IF i < Straddling THEN g.name[i] ELSE h.name[i]]
  <1>1. Straddling \in 1..NumDirEntries /\ NumDirEntries \in Nat
    BY FileSystemAssumption
  <1>2. u[i] = [inUse |-> u[i].inUse, sector |-> u[i].sector, name |-> u[i].name]
    BY EntryFacts
  <1>3. \A g, h : DirectoryFrom(g, h)[i]
                    = EntryOf(g, h, IF i <= Straddling THEN g.use[i] ELSE h.use[i])
    BY Zenon DEF DirectoryFrom
  <1>4. i <= Straddling => c.use[i] = <<u[i].inUse, u[i].sector>>
    BY <1>1 DEF FirstPart
  <1>5. i < Straddling => c.name[i] = u[i].name
    BY <1>1 DEF FirstPart
  <1> HIDE DEF c
  <1>6. CASE i < Straddling
    <2>1. i <= Straddling /\ ~(i > Straddling) /\ i # Straddling
      BY <1>1, <1>6
    <2>2. DirectoryFrom(c, b)[i]
            = [inUse |-> u[i].inUse, sector |-> u[i].sector, name |-> u[i].name]
      BY <1>3, <1>4, <1>5, <1>6, <2>1
    <2> QED BY <1>2, <2>1, <2>2 DEF c
  <1>7. CASE i > Straddling
    <2>1. ~(i <= Straddling) /\ ~(i < Straddling) /\ i # Straddling
      BY <1>1, <1>7
    <2>2. \A g : DirectoryFrom(g, b)[i]
                 = [inUse |-> b.use[i][1], sector |-> b.use[i][2], name |-> b.name[i]]
      BY <1>3, <2>1
    <2> QED BY <2>1, <2>2 DEF c
  <1>8. CASE i = Straddling
    <2>1. i <= Straddling /\ ~(i < Straddling) /\ ~(i > Straddling)
      BY <1>1, <1>8
    <2>2. DirectoryFrom(a, b)[i].name = b.name[i]
      <3>1. DirectoryFrom(a, b)[i]
              = [inUse |-> a.use[i][1], sector |-> a.use[i][2], name |-> b.name[i]]
        BY <1>3, <2>1
      <3> QED BY <3>1
    <2>3. DirectoryFrom(c, b)[i]
            = [inUse |-> u[i].inUse, sector |-> u[i].sector, name |-> b.name[i]]
      BY <1>3, <1>4, <2>1
    <2> QED BY <2>1, <2>2, <2>3 DEF c
  <1> QED BY <1>1, <1>6, <1>7, <1>8

-----------------------------------------------------------------------------
(* Files an operation does not change *)

LEMMA FoundIndex ==
    ASSUME NEW t, NEW name, NEW i \in FindIndex(t, name)
    PROVE  i \in 1..NumDirEntries /\ t[i].inUse /\ t[i].name = Short(name)
  <1> DEFINE same == {j \in 1..NumDirEntries : t[j].inUse /\ t[j].name = Short(name)}
  <1>1. FindIndex(t, name) = IF same = {} THEN {} ELSE {Min(same)}
    BY DEF FindIndex
  <1>2. same \subseteq Nat
    OBVIOUS
  <1> HIDE DEF same
  <1>3. i \in same
    BY <1>1, <1>2, MinOf
  <1> QED BY <1>3 DEF same

\* The directory at any time of an operation that changes one of its entries.
LEMMA OneEntryChanges ==
    ASSUME NEW t \in Tables, NEW u \in Tables, NEW b1, NEW b2, t = DirectoryFrom(b1, b2),
           NEW a \in 1..NumDirEntries, \A i \in 1..NumDirEntries : i # a => u[i] = t[i],
           NEW v, \/ v = t
                  \/ v = DirectoryFrom(FirstPart(u), b2)
                  \/ v = DirectoryFrom(FirstPart(u), SecondPart(u))
    PROVE  /\ \A i \in 1..NumDirEntries : i # a => v[i] = t[i]
           /\ v[a] \in {t[a], u[a],
                        [inUse |-> u[a].inUse, sector |-> u[a].sector, name |-> t[a].name]}
  <1>1. CASE v = t
    BY <1>1
  <1>2. CASE v = DirectoryFrom(FirstPart(u), b2)
    <2>1. Straddling \in Int /\ \A i \in 1..NumDirEntries : i \in Int
      BY FileSystemAssumption
    <2>2. ASSUME NEW i \in 1..NumDirEntries
          PROVE  v[i] \in {t[i], u[i],
                    [inUse |-> u[i].inUse, sector |-> u[i].sector, name |-> t[i].name]}
      <3>1. /\ i < Straddling => v[i] = u[i]
            /\ i > Straddling => v[i] = t[i]
            /\ i = Straddling =>
                 v[i] = [inUse |-> u[i].inUse, sector |-> u[i].sector, name |-> t[i].name]
        BY <1>2, FirstWritten
      <3>2. i < Straddling \/ i > Straddling \/ i = Straddling
        BY <2>1
      <3> QED BY <3>1, <3>2
    <2>3. ASSUME NEW i \in 1..NumDirEntries, i # a PROVE v[i] = t[i]
      <3>1. t[i] = [inUse |-> t[i].inUse, sector |-> t[i].sector, name |-> t[i].name]
        BY EntryFacts
      <3>2. u[i] = t[i]
        BY <2>3
      <3> QED BY <2>2, <3>1, <3>2
    <2> QED BY <2>2, <2>3
  <1>3. CASE v = DirectoryFrom(FirstPart(u), SecondPart(u))
    BY <1>3, RoundTrip
  <1> QED BY <1>1, <1>2, <1>3

\* The map is marked last, so that a new file is not seen as it will be before.
LEMMA CreationMarksLast ==
    ASSUME NEW d, GoodDisk(d), NEW name, Short(name) \in StoredNames, NEW size \in Nat,
           CanCreate(d, name, size), ~TooLong(size), NEW k \in Nat, k < 4,
           NEW e, e = Partly(d, Creation(d, name, size), k)
    PROVE  /\ MapSector(e) = MapSector(d) /\ DirectorySectors(e) = DirectorySectors(d)
           /\ FreeMap(e) = FreeMap(d)
           /\ \A s \in SectorNumbers :
                s \notin SpecialSectors(d) /\ s # NewSector(d) => e[s] = d[s]
           /\ 2 <= k => e[NewSector(d)] = NewHeader(d, size)
           /\ e[DirectorySectors(d)[1]]
                = IF 2 <= k THEN FirstPart(NewTable(d, name)) ELSE d[DirectorySectors(d)[1]]
           /\ e[DirectorySectors(d)[2]]
                = IF 3 <= k THEN SecondPart(NewTable(d, name)) ELSE d[DirectorySectors(d)[2]]
           /\ Len(Creation(d, name, size)) = 4
  <1> DEFINE x1 == NewSector(d)
             x2 == DirectorySectors(d)[1]
             x3 == DirectorySectors(d)[2]
             x4 == MapSector(d)
             c1 == NewHeader(d, size)
             c2 == FirstPart(NewTable(d, name))
             c3 == SecondPart(NewTable(d, name))
             c4 == MapOf(NewMap(d, size))
             w == Creation(d, name, size)
  <1>1. WriteSequence(w) /\ x1 \notin SpecialSectors(d)
    BY CreationWrites
  <1>2. w = << <<x1, c1>>, <<x2, c2>>, <<x3, c3>>, <<x4, c4>> >>
    BY CreationIs
  <1>3. /\ SpecialSectors(d) = {FreeMapSector, DirectorySector, x4, x2, x3}
        /\ FreeMapSector \notin {x2, x3, x4} /\ DirectorySector \notin {x2, x3, x4}
    BY SpecialIs DEF GoodDisk
  <1>4. FreeMapSector \in SectorNumbers /\ DirectorySector \in SectorNumbers
    BY SectorNumberFacts
  <1> HIDE DEF x1, x2, x3, x4, c1, c2, c3, c4, w
  <1>5. /\ Len(w) = 4 /\ DOMAIN w = 1..4
        /\ w[1] = <<x1, c1>> /\ w[2] = <<x2, c2>> /\ w[3] = <<x3, c3>> /\ w[4] = <<x4, c4>>
    BY <1>2
  <1>6. /\ \A j \in DOMAIN w : e[w[j][1]] = IF j <= k THEN w[j][2] ELSE d[w[j][1]]
        /\ \A s \in SectorNumbers : (\A j \in DOMAIN w : w[j][1] # s) => e[s] = d[s]
    <2>1. k <= Len(w)
      BY <1>5
    <2>2. e = Partly(d, w, k)
      BY DEF w
    <2>3. AfterWrites(d, w, k, e)
      BY <1>1, <2>1, <2>2, PartlyAt
    <2> QED BY <2>3 DEF AfterWrites
  <1>7. /\ 1 <= k => e[x1] = c1
        /\ e[x2] = IF 2 <= k THEN c2 ELSE d[x2]
        /\ e[x3] = IF 3 <= k THEN c3 ELSE d[x3]
        /\ e[x4] = d[x4]
    <2>1. \A j \in 1..4 : e[w[j][1]] = IF j <= k THEN w[j][2] ELSE d[w[j][1]]
      BY <1>5, <1>6
    <2>2. ~(4 <= k)
      OBVIOUS
    <2> QED BY <1>5, <2>1, <2>2
  <1>8. ASSUME NEW s \in SectorNumbers, s \notin {x1, x2, x3, x4} PROVE e[s] = d[s]
    BY <1>5, <1>6, <1>8
  <1>9. e[FreeMapSector] = d[FreeMapSector] /\ e[DirectorySector] = d[DirectorySector]
    BY <1>1, <1>3, <1>4, <1>8
  <1>10. MapSector(e) = MapSector(d) /\ DirectorySectors(e) = DirectorySectors(d)
    BY <1>9, SameSpecial
  <1>11. FreeMap(e) = FreeMap(d)
    BY <1>7, <1>10 DEF FreeMap, x4
  <1>12. \A s \in SectorNumbers : s \notin SpecialSectors(d) /\ s # x1 => e[s] = d[s]
    BY <1>3, <1>8
  <1>13. 2 <= k => 1 <= k
    OBVIOUS
  <1> QED BY <1>5, <1>7, <1>10, <1>11, <1>12, <1>13 DEF x1, x2, x3, c1, c2, c3, w

\* What the directory is at any time of Create: the entry it takes is in use
\* only with the new sector, under the new name or the one it had.
LEMMA CreationTable ==
    ASSUME NEW d, GoodDisk(d), NEW name, Short(name) \in StoredNames, NEW size \in Nat,
           CanCreate(d, name, size), ~TooLong(size), NEW k \in Nat, k < 4,
           NEW e, e = Partly(d, Creation(d, name, size), k)
    PROVE  /\ \A i \in 1..NumDirEntries : i # NewEntry(d) => Directory(e)[i] = Directory(d)[i]
           /\ Directory(e)[NewEntry(d)].inUse =>
                /\ e[NewSector(d)] = NewHeader(d, size)
                /\ Directory(e)[NewEntry(d)].sector = NewSector(d)
                /\ Directory(e)[NewEntry(d)].name
                     \in {Short(name), Directory(d)[NewEntry(d)].name}
  <1> DEFINE t == Directory(d)
             u == NewTable(d, name)
             v == Directory(e)
             a == NewEntry(d)
             b1 == d[DirectorySectors(d)[1]]
             b2 == d[DirectorySectors(d)[2]]
  <1>1. /\ DirectorySectors(e) = DirectorySectors(d)
        /\ 2 <= k => e[NewSector(d)] = NewHeader(d, size)
        /\ e[DirectorySectors(d)[1]] = IF 2 <= k THEN FirstPart(u) ELSE b1
        /\ e[DirectorySectors(d)[2]] = IF 3 <= k THEN SecondPart(u) ELSE b2
    BY CreationMarksLast
  <1>2. /\ a \in 1..NumDirEntries /\ ~t[a].inUse
        /\ u \in Tables
        /\ u[a] = [inUse |-> TRUE, sector |-> NewSector(d), name |-> Short(name)]
        /\ \A i \in 1..NumDirEntries : i # a => u[i] = t[i]
    BY NewEntryFacts
  <1>3. t \in Tables /\ t = DirectoryFrom(b1, b2)
    BY DEF GoodDisk, Directory
  <1>4. v = DirectoryFrom(e[DirectorySectors(d)[1]], e[DirectorySectors(d)[2]])
    BY <1>1 DEF Directory
  <1> HIDE DEF t, u, v, a, b1, b2
  <1>5. v = t \/ v = DirectoryFrom(FirstPart(u), b2)
        \/ v = DirectoryFrom(FirstPart(u), SecondPart(u))
    <2>1. 3 <= k => 2 <= k
      OBVIOUS
    <2> QED BY <1>1, <1>3, <1>4, <2>1
  <1>6. /\ \A i \in 1..NumDirEntries : i # a => v[i] = t[i]
        /\ v[a] \in {t[a], u[a],
                     [inUse |-> u[a].inUse, sector |-> u[a].sector, name |-> t[a].name]}
    BY <1>2, <1>3, <1>5, OneEntryChanges
  <1>7. k < 2 => v = t
    <2>1. k < 2 => ~(2 <= k) /\ ~(3 <= k)
      OBVIOUS
    <2> QED BY <1>1, <1>3, <1>4, <2>1
  <1>8. ASSUME v[a].inUse
        PROVE  /\ e[NewSector(d)] = NewHeader(d, size)
               /\ v[a].sector = NewSector(d) /\ v[a].name \in {Short(name), t[a].name}
    <2>1. v # t
      BY <1>2, <1>8
    <2>2. 2 <= k
      BY <1>7, <2>1
    <2>3. \/ v[a] = u[a]
          \/ v[a] = [inUse |-> u[a].inUse, sector |-> u[a].sector, name |-> t[a].name]
      BY <1>2, <1>6, <1>8
    <2> QED BY <1>1, <1>2, <2>2, <2>3
  <1> QED BY <1>6, <1>8 DEF t, v, a

\* Create hides no listed file: where the entry it takes still holds the name
\* of one, that file comes first.
LEMMA CreationOthers ==
    ASSUME NEW d, GoodDisk(d), NEW name, Short(name) \in StoredNames, NEW size \in Nat,
           CanCreate(d, name, size), ~TooLong(size), NEW k \in Nat, k < 4,
           NEW e, e = Partly(d, Creation(d, name, size), k),
           NEW other, NEW i \in Listed(d), Directory(d)[i].name = Short(other)
    PROVE  View(e, other) = View(d, other)
  <1> DEFINE t == Directory(d)
             v == Directory(e)
             a == NewEntry(d)
  <1>1. /\ a \in 1..NumDirEntries /\ ~t[a].inUse
        /\ \A j \in 1..NumDirEntries : t[j].inUse => t[j].name # Short(name)
    BY NewEntryFacts
  <1>2. /\ \A j \in 1..NumDirEntries : j # a => v[j] = t[j]
        /\ v[a].inUse => v[a].name \in {Short(name), t[a].name}
    BY CreationTable
  <1>3. /\ i \in 1..NumDirEntries /\ t[i].inUse
        /\ OwnedBy(d, i) \subseteq SectorNumbers
        /\ OwnedBy(d, i) \subseteq FreeMap(d)
        /\ OwnedBy(d, i) \cap SpecialSectors(d) = {}
    BY OwnedFacts
  <1>4. StaleBehind(t) /\ \A j \in Listed(d) : j # i => t[j].name # t[i].name
    BY DEF GoodDisk, FilesApart
  <1>5. i # a /\ v[i] = t[i]
    BY <1>1, <1>2, <1>3
  <1>6. ASSUME NEW j \in 1..NumDirEntries, v[j].inUse, v[j].name = Short(other)
        PROVE  i <= j
    <2>1. CASE j = a
      <3>1. t[a].name = t[i].name
        BY <1>1, <1>2, <1>3, <1>6, <2>1
      <3>2. i < a
        BY <1>1, <1>3, <1>4, <3>1 DEF StaleBehind
      <3> QED BY <1>1, <1>3, <2>1, <3>2
    <2>2. CASE j # a
      <3>1. j \in Listed(d) /\ t[j].name = t[i].name
        BY <1>2, <1>6, <2>2 DEF Listed
      <3>2. j = i
        BY <1>4, <3>1
      <3> QED BY <1>3, <3>2
    <2> QED BY <2>1, <2>2
  <1>7. FindIndex(v, other) = {i}
    BY <1>3, <1>5, <1>6, FindFirst
  <1>8. /\ FreeMap(e) = FreeMap(d)
        /\ \A s \in SectorNumbers :
             s \notin SpecialSectors(d) /\ s # NewSector(d) => e[s] = d[s]
    BY CreationMarksLast
  <1>9. NewSector(d) \notin FreeMap(d)
    BY NewFacts
  <1>10. \A s \in OwnedBy(d, i) : e[s] = d[s]
    BY <1>3, <1>8, <1>9
  <1> QED BY <1>3, <1>5, <1>7, <1>8, <1>10, SameView

\* What is found under another name, before the map is written, is not as it will
\* be: the sectors of the new file are not marked yet.
LEMMA CreationNew ==
    ASSUME NEW d, GoodDisk(d), NEW name, Short(name) \in StoredNames, NEW size \in Nat,
           CanCreate(d, name, size), ~TooLong(size), NEW k \in Nat, k < 4,
           NEW e, e = Partly(d, Creation(d, name, size), k),
           NEW f, f = Settled(d, Creation(d, name, size)),
           NEW other, \A i \in Listed(d) : Directory(d)[i].name # Short(other)
    PROVE  View(e, other) = {} \/ View(e, other) # View(f, other)
  <1> DEFINE t == Directory(d)
             v == Directory(e)
             a == NewEntry(d)
             s == NewSector(d)
  <1>1. SUFFICES ASSUME View(e, other) # {}, View(e, other) = View(f, other) PROVE FALSE
    OBVIOUS
  <1>2. /\ \A j \in 1..NumDirEntries : j # a => v[j] = t[j]
        /\ v[a].inUse => v[a].sector = s /\ e[s] = NewHeader(d, size)
    BY CreationTable
  <1>3. PICK i : i \in FindIndex(v, other)
    BY <1>1, ViewIs DEF Find
  <1>4. i \in 1..NumDirEntries /\ v[i].inUse /\ v[i].name = Short(other)
    BY <1>3, FoundIndex
  <1>5. i = a
    BY <1>2, <1>4 DEF Listed
  <1>6. s \in Find(e, other) /\ e[s] = NewHeader(d, size)
    BY <1>2, <1>3, <1>4, <1>5 DEF Find
  <1>7. FileView(e, s) \in View(e, other)
    BY <1>6, ViewIs
  <1>8. FreeMap(e) = FreeMap(d) /\ s \notin FreeMap(d) /\ IsHeader(NewHeader(d, size))
    BY CreationMarksLast, NewFacts
  <1>9. FileView(e, s) = <<e[s], ReadAt(e, e[s], e[s].numBytes, 0), FALSE>>
    <2>1. e[s].is = "header"
      BY <1>6, <1>8 DEF IsHeader, HeaderOf
    <2>2. ({s} \cup Range(e[s].dataSectors) \subseteq FreeMap(e)) = FALSE
      BY <1>8
    <2> QED BY <2>1, <2>2, Zenon DEF FileView
  <1>10. GoodDisk(f) /\ Find(f, other) # {}
    <2>1. View(f, other) # {}
      BY <1>1
    <2> QED BY <2>1, CreationGood, ViewIs
  <1>11. \E j \in Listed(f) : Directory(f)[j].name = Short(other)
    BY <1>10, FoundListed
  <1>12. \E x, y : View(f, other) = {<<x, y, TRUE>>}
    BY <1>10, <1>11, ListedView
  <1> QED BY <1>1, <1>7, <1>9, <1>12

\* Remove clears the marks of the file first, and then its entry.
LEMMA RemovalStages ==
    ASSUME NEW d, GoodDisk(d), NEW name, NEW r \in Listed(d),
           FindIndex(Directory(d), name) = {r}, NEW k \in Nat, k < 3,
           NEW e, e = Partly(d, Removal(d, name), k)
    PROVE  /\ MapSector(e) = MapSector(d) /\ DirectorySectors(e) = DirectorySectors(d)
           /\ FreeMap(d) \ OwnedBy(d, r) \subseteq FreeMap(e)
           /\ \A s \in SectorNumbers : s \notin SpecialSectors(d) => e[s] = d[s]
           /\ e[DirectorySectors(d)[1]]
                = IF 2 <= k THEN FirstPart(RemovedTable(d, r)) ELSE d[DirectorySectors(d)[1]]
           /\ e[DirectorySectors(d)[2]] = d[DirectorySectors(d)[2]]
           /\ Len(Removal(d, name)) = 3
  <1> DEFINE x1 == MapSector(d)
             x2 == DirectorySectors(d)[1]
             x3 == DirectorySectors(d)[2]
             c1 == MapOf(RemovedMap(d, r))
             c2 == FirstPart(RemovedTable(d, r))
             c3 == SecondPart(RemovedTable(d, r))
             w == Removal(d, name)
  <1>1. WriteSequence(w)
    BY RemovalWrites
  <1>2. w = << <<x1, c1>>, <<x2, c2>>, <<x3, c3>> >>
    BY RemovalIs
  <1>3. /\ SpecialSectors(d) = {FreeMapSector, DirectorySector, x1, x2, x3}
        /\ FreeMapSector \notin {x2, x3, x1} /\ DirectorySector \notin {x2, x3, x1}
    BY SpecialIs DEF GoodDisk
  <1>4. FreeMapSector \in SectorNumbers /\ DirectorySector \in SectorNumbers
    BY SectorNumberFacts
  <1> HIDE DEF x1, x2, x3, c1, c2, c3, w
  <1>5. /\ Len(w) = 3 /\ DOMAIN w = 1..3
        /\ w[1] = <<x1, c1>> /\ w[2] = <<x2, c2>> /\ w[3] = <<x3, c3>>
    BY <1>2
  <1>6. /\ \A j \in DOMAIN w : e[w[j][1]] = IF j <= k THEN w[j][2] ELSE d[w[j][1]]
        /\ \A s \in SectorNumbers : (\A j \in DOMAIN w : w[j][1] # s) => e[s] = d[s]
    <2>1. k <= Len(w)
      BY <1>5
    <2>2. e = Partly(d, w, k)
      BY DEF w
    <2>3. AfterWrites(d, w, k, e)
      BY <1>1, <2>1, <2>2, PartlyAt
    <2> QED BY <2>3 DEF AfterWrites
  <1>7. /\ e[x1] = c1 \/ e[x1] = d[x1]
        /\ e[x2] = IF 2 <= k THEN c2 ELSE d[x2]
        /\ e[x3] = d[x3]
    <2>1. \A j \in 1..3 : e[w[j][1]] = IF j <= k THEN w[j][2] ELSE d[w[j][1]]
      BY <1>5, <1>6
    <2>2. ~(3 <= k)
      OBVIOUS
    <2> QED BY <1>5, <2>1, <2>2
  <1>8. ASSUME NEW s \in SectorNumbers, s \notin {x1, x2, x3} PROVE e[s] = d[s]
    BY <1>5, <1>6, <1>8
  <1>9. e[FreeMapSector] = d[FreeMapSector] /\ e[DirectorySector] = d[DirectorySector]
    BY <1>3, <1>4, <1>8
  <1>10. MapSector(e) = MapSector(d) /\ DirectorySectors(e) = DirectorySectors(d)
    BY <1>9, SameSpecial
  <1>11. FreeMap(d) \ OwnedBy(d, r) \subseteq FreeMap(e)
    BY <1>7, <1>10 DEF FreeMap, x1, c1, MapOf, RemovedMap
  <1>12. \A s \in SectorNumbers : s \notin SpecialSectors(d) => e[s] = d[s]
    BY <1>3, <1>8
  <1> QED BY <1>5, <1>7, <1>10, <1>11, <1>12 DEF x2, x3, c2, w

\* Remove hides no other file.
LEMMA RemovalOthers ==
    ASSUME NEW d, GoodDisk(d), NEW name, NEW r \in Listed(d),
           FindIndex(Directory(d), name) = {r}, NEW k \in Nat, k < 3,
           NEW e, e = Partly(d, Removal(d, name), k),
           NEW other, NEW i \in Listed(d), i # r, Directory(d)[i].name = Short(other)
    PROVE  View(e, other) = View(d, other)
  <1> DEFINE t == Directory(d)
             u == RemovedTable(d, r)
             v == Directory(e)
             b1 == d[DirectorySectors(d)[1]]
             b2 == d[DirectorySectors(d)[2]]
  <1>1. /\ r \in 1..NumDirEntries /\ u \in Tables
        /\ u[r] = [inUse |-> FALSE, sector |-> t[r].sector, name |-> t[r].name]
        /\ \A j \in 1..NumDirEntries : j # r => u[j] = t[j]
    BY RemovedEntryFacts
  <1>2. /\ DirectorySectors(e) = DirectorySectors(d)
        /\ e[DirectorySectors(d)[1]] = IF 2 <= k THEN FirstPart(u) ELSE b1
        /\ e[DirectorySectors(d)[2]] = b2
        /\ FreeMap(d) \ OwnedBy(d, r) \subseteq FreeMap(e)
    BY RemovalStages
  <1>3. \A s \in SectorNumbers : s \notin SpecialSectors(d) => e[s] = d[s]
    BY RemovalStages
  <1>4. t \in Tables /\ t = DirectoryFrom(b1, b2)
    BY DEF GoodDisk, Directory
  <1>5. v = DirectoryFrom(e[DirectorySectors(d)[1]], e[DirectorySectors(d)[2]])
    BY <1>2 DEF Directory
  <1>6. /\ i \in 1..NumDirEntries /\ t[i].inUse
        /\ OwnedBy(d, i) \subseteq SectorNumbers
        /\ OwnedBy(d, i) \subseteq FreeMap(d)
        /\ OwnedBy(d, i) \cap SpecialSectors(d) = {}
    BY OwnedFacts
  <1>7. /\ OwnedBy(d, i) \cap OwnedBy(d, r) = {}
        /\ \A j \in Listed(d) : j # i => t[j].name # t[i].name
    BY DEF GoodDisk, FilesApart
  <1> HIDE DEF t, u, v, b1, b2
  <1>8. v = t \/ v = DirectoryFrom(FirstPart(u), b2)
    BY <1>2, <1>4, <1>5
  <1>9. /\ \A j \in 1..NumDirEntries : j # r => v[j] = t[j]
        /\ v[r] \in {t[r], u[r],
                     [inUse |-> u[r].inUse, sector |-> u[r].sector, name |-> t[r].name]}
    BY <1>1, <1>4, <1>8, OneEntryChanges
  <1>10. v[r].name = t[r].name
    BY <1>1, <1>9
  <1>11. ASSUME NEW j \in 1..NumDirEntries, v[j].inUse, v[j].name = Short(other)
         PROVE  i <= j
    <2>1. j # r
      <3>1. t[r].name # t[i].name
        BY <1>7
      <3> QED BY <1>10, <1>11, <3>1 DEF t
    <2>2. j \in Listed(d) /\ t[j].name = t[i].name
      BY <1>9, <1>11, <2>1 DEF Listed, t
    <2>3. j = i
      BY <1>7, <2>2
    <2> QED BY <1>6, <2>3
  <1>12. v[i] = t[i]
    BY <1>6, <1>9
  <1>13. FindIndex(v, other) = {i}
    <2>1. v[i].inUse /\ v[i].name = Short(other)
      BY <1>6, <1>12 DEF t
    <2>2. \A j \in 1..NumDirEntries : v[j].inUse /\ v[j].name = Short(other) => i <= j
      BY <1>11
    <2> QED BY <1>6, <2>1, <2>2, FindFirst
  <1>14. \A s \in OwnedBy(d, i) : e[s] = d[s]
    BY <1>3, <1>6
  <1>15. OwnedBy(d, i) \subseteq FreeMap(e)
    BY <1>2, <1>6, <1>7
  <1> QED BY <1>12, <1>13, <1>14, <1>15, SameView DEF t, v

\* Nothing is found of the removed file in the end.
LEMMA RemovalGone ==
    ASSUME NEW d, GoodDisk(d), NEW name, NEW r \in Listed(d),
           FindIndex(Directory(d), name) = {r},
           NEW other, \A i \in Listed(d) : i # r => Directory(d)[i].name # Short(other)
    PROVE  View(Settled(d, Removal(d, name)), other) = {}
  <1> DEFINE e == Settled(d, Removal(d, name))
  <1>1. /\ Listed(e) = Listed(d) \ {r}
        /\ \A i \in Listed(e) : Directory(e)[i] = Directory(d)[i]
    BY RemovedFiles
  <1> HIDE DEF e
  <1>2. \A i \in Listed(e) : Directory(e)[i].name # Short(other)
    BY <1>1
  <1>3. Find(e, other) = {}
    BY <1>2, FindUnlisted
  <1> QED BY <1>3, ViewIs DEF e

-----------------------------------------------------------------------------
(* Every step keeps the files that the operation does not change *)

\* A write of the operation changes nothing of a file that is as it will be.
Keeps(d, w, k, name) ==
  /\ View(Partly(d, w, k), name) # {}
  /\ View(Partly(d, w, k), name) = View(Settled(d, w), name)
  => View(Partly(d, w, k + 1), name) = View(Partly(d, w, k), name)

LEMMA LastWriteKeeps ==
    ASSUME NEW d, NEW w, WriteSequence(w), NEW k \in Nat, k + 1 = Len(w), NEW name
    PROVE  Keeps(d, w, k, name)
  <1>1. Partly(d, w, k + 1) = Settled(d, w)
    BY AllWritten
  <1> QED BY <1>1 DEF Keeps

LEMMA CreationKeeps ==
    ASSUME NEW d, GoodDisk(d), NEW name, Short(name) \in StoredNames, NEW size \in Nat,
           CanCreate(d, name, size), ~TooLong(size), NEW w, w = Creation(d, name, size),
           NEW k \in Nat, k < Len(w), NEW other
    PROVE  Keeps(d, w, k, other)
  <1>1. WriteSequence(w)
    BY CreationWrites
  <1>2. Len(w) = 4
    BY CreationMarksLast, 0 \in Nat, 0 < 4
  <1>3. CASE k + 1 = 4
    BY <1>1, <1>2, <1>3, LastWriteKeeps
  <1>4. CASE k + 1 # 4
    <2>1. k < 4 /\ k + 1 < 4 /\ k + 1 \in Nat
      BY <1>2, <1>4
    <2>2. CASE \E i \in Listed(d) : Directory(d)[i].name = Short(other)
      <3>1. PICK i \in Listed(d) : Directory(d)[i].name = Short(other)
        BY <2>2
      <3>2. View(Partly(d, w, k), other) = View(d, other)
        BY <2>1, <3>1, CreationOthers
      <3>3. View(Partly(d, w, k + 1), other) = View(d, other)
        BY <2>1, <3>1, CreationOthers
      <3> QED BY <3>2, <3>3 DEF Keeps
    <2>3. CASE \A i \in Listed(d) : Directory(d)[i].name # Short(other)
      <3>1. \/ View(Partly(d, w, k), other) = {}
            \/ View(Partly(d, w, k), other) # View(Settled(d, w), other)
        BY <2>1, <2>3, CreationNew
      <3> QED BY <3>1 DEF Keeps
    <2> QED BY <2>2, <2>3
  <1> QED BY <1>3, <1>4

LEMMA RemovalKeeps ==
    ASSUME NEW d, GoodDisk(d), NEW name, NEW r \in Listed(d),
           FindIndex(Directory(d), name) = {r}, NEW w, w = Removal(d, name),
           NEW k \in Nat, k < Len(w), NEW other
    PROVE  Keeps(d, w, k, other)
  <1>1. WriteSequence(w)
    BY RemovalWrites
  <1>2. Len(w) = 3
    BY RemovalStages, 0 \in Nat, 0 < 3
  <1>3. CASE k + 1 = 3
    BY <1>1, <1>2, <1>3, LastWriteKeeps
  <1>4. CASE k + 1 # 3
    <2>1. k < 3 /\ k + 1 < 3 /\ k + 1 \in Nat
      BY <1>2, <1>4
    <2>2. CASE \E i \in Listed(d) : i # r /\ Directory(d)[i].name = Short(other)
      <3>1. PICK i \in Listed(d) : i # r /\ Directory(d)[i].name = Short(other)
        BY <2>2
      <3>2. View(Partly(d, w, k), other) = View(d, other)
        BY <2>1, <3>1, RemovalOthers
      <3>3. View(Partly(d, w, k + 1), other) = View(d, other)
        BY <2>1, <3>1, RemovalOthers
      <3> QED BY <3>2, <3>3 DEF Keeps
    <2>3. CASE \A i \in Listed(d) : i # r => Directory(d)[i].name # Short(other)
      <3>1. View(Settled(d, w), other) = {}
        BY <2>3, RemovalGone
      <3> QED BY <3>1 DEF Keeps
    <2> QED BY <2>2, <2>3
  <1> QED BY <1>3, <1>4

\* Of the file that is written each sector is as it was or as it will be.
LEMMA WriteKeeps ==
    ASSUME NEW d, GoodDisk(d), NEW r \in Listed(d), NEW from, Len(from) \in Nat,
           NEW position \in Nat, NEW w, w = WriteAt(d, HeaderAt(d, r), from, position),
           NEW k \in Nat, k < Len(w), NEW other
    PROVE  Keeps(d, w, k, other)
  <1> DEFINE hdr == HeaderAt(d, r)
             e == Partly(d, w, k)
             f == Partly(d, w, k + 1)
             g == Settled(d, w)
  <1>1. IsHeader(hdr)
    BY OwnedFacts DEF HeaderAt
  <1>2. /\ IsDisk(g)
        /\ \A s \in SectorNumbers : s \notin Range(hdr.dataSectors) => g[s] = d[s]
    BY <1>1, WriteLeaves
  <1>3. IsDisk(e) /\ IsDisk(f)
    BY PartlyIsDisk
  <1>4. /\ \A s \in SectorNumbers : e[s] = d[s] \/ e[s] = g[s]
        /\ \A s \in SectorNumbers : f[s] = d[s] \/ f[s] = g[s]
    BY OldOrNew
  <1>5. \A s \in SectorNumbers : f[s] = e[s] \/ f[s] = g[s]
    BY OneMoreWrite
  <1> HIDE DEF e, f, g
  <1>6. ASSUME NEW h, h \in {e, f, g}
        PROVE  /\ Directory(h) = Directory(d) /\ FreeMap(h) = FreeMap(d)
               /\ \A i \in Listed(d) : h[Directory(d)[i].sector] = d[Directory(d)[i].sector]
               /\ GoodDisk(h)
    <2>1. IsDisk(h) /\ \A s \in SectorNumbers : s \notin Range(hdr.dataSectors) => h[s] = d[s]
      BY <1>2, <1>3, <1>4, <1>6
    <2> QED BY <2>1, DataWritten DEF HeaderAt
  <1>7. SUFFICES ASSUME View(e, other) # {}, View(e, other) = View(g, other)
                 PROVE  View(f, other) = View(e, other)
    BY DEF Keeps, e, f, g
  <1>8. PICK i \in Listed(d) : Directory(d)[i].name = Short(other)
    <2>1. Find(e, other) # {} /\ GoodDisk(e) /\ Directory(e) = Directory(d)
      BY <1>6, <1>7, ViewIs
    <2>2. \E i \in Listed(e) : Directory(e)[i].name = Short(other)
      BY <2>1, FoundListed
    <2> QED BY <2>1, <2>2 DEF Listed
  <1> DEFINE c == HeaderAt(d, i)
             At(h) == ReadAt(h, c, c.numBytes, 0)
  <1>9. IsHeader(c) /\ Range(c.dataSectors) \subseteq SectorNumbers
    <2>1. IsHeader(c)
      BY OwnedFacts DEF HeaderAt
    <2> QED BY <2>1, HeaderFacts
  <1>10. ASSUME NEW h, h \in {e, f, g} PROVE View(h, other) = {<<c, At(h), TRUE>>}
    <2>1. /\ GoodDisk(h) /\ i \in Listed(h) /\ Directory(h)[i].name = Short(other)
          /\ HeaderAt(h, i) = c
      BY <1>6, <1>8, <1>10 DEF Listed, HeaderAt
    <2>2. View(h, other)
            = {<<HeaderAt(h, i), ReadAt(h, HeaderAt(h, i), HeaderAt(h, i).numBytes, 0), TRUE>>}
      BY <2>1, ListedView
    <2> QED BY <2>1, <2>2
  <1>11. At(e) = At(g)
    <2> HIDE DEF At, c
    <2>1. View(e, other) = {<<c, At(e), TRUE>>} /\ View(g, other) = {<<c, At(g), TRUE>>}
      BY <1>10
    <2>2. <<c, At(e), TRUE>> \in {<<c, At(g), TRUE>>}
      BY <1>7, <2>1
    <2> QED BY <2>2
  <1>12. At(f) = At(e)
    BY <1>5, <1>9, <1>11, ReadAtMixed
  <1> QED BY <1>10, <1>12

LEMMA OperationKeeps ==
    ASSUME NEW d, GoodDisk(d), NEW w, Operation(d, w), NEW k \in Nat, k < Len(w), NEW other
    PROVE  Keeps(d, w, k, other)
  <1>1. CASE w = <<>>
    <2>1. Len(w) = 0
      BY <1>1, NoWrites
    <2> QED BY <2>1
  <1>2. CASE Creates(d, w)
    BY <1>2, CreationKeeps DEF Creates
  <1>3. CASE Removes(d, w)
    BY <1>3, RemovalKeeps DEF Removes
  <1>4. CASE Writes(d, w)
    BY <1>4, WriteKeeps DEF Writes
  <1> QED BY <1>1, <1>2, <1>3, <1>4 DEF Operation

\* What OthersUntouched says of one step.
Untouched == ~misused =>
  LET done == Settled(image, pending) IN
  \A name \in FileNames :
    LET view == View(image, name) IN
    view # {} /\ view = View(done, name) => View(image', name) = view

LEMMA WriteSectorUntouched ==
    ASSUME IInv, WriteSector
    PROVE  Untouched
  <1> SUFFICES ASSUME ~misused PROVE Untouched
    BY DEF Untouched
  <1>1. PICK d, w, k : Underway(d, w, k)
    BY DEF IInv, DiskInv
  <1>2. k < Len(w) /\ image' = Partly(d, w, k + 1)
    BY <1>1, Continues DEF Underway
  <1>3. GoodDisk(d) /\ Operation(d, w) /\ k \in Nat /\ image = Partly(d, w, k)
    BY <1>1 DEF Underway
  <1>4. Settled(image, pending) = Settled(d, w)
    BY <1>1, UnderwayFacts
  <1>5. \A name : Keeps(d, w, k, name)
    BY <1>2, <1>3, OperationKeeps
  <1> QED BY <1>2, <1>3, <1>4, <1>5 DEF Untouched, Keeps

\* Wherever a machine stops between the writes of Create, Remove or Write, the
\* files which the operation does not change are found as they were.
THEOREM FilesUntouched == FSSpec => OthersUntouched
  <1>1. IInv /\ [FSNext]_fsVars => [Untouched]_image
    <2> SUFFICES ASSUME IInv, [FSNext]_fsVars, image' # image PROVE Untouched
      OBVIOUS
    <2>1. FSNext
      BY DEF fsVars
    <2>2. WriteSector
      BY <2>1 DEF FSNext, Create, Remove, Open, NewOpenFile, Read, Write, Seek, Close
    <2> QED BY <2>2, WriteSectorUntouched
  <1>2. FSSpec => [][Untouched]_image
    BY <1>1, FileSystemInvariant, PTL DEF FSSpec
  <1> QED BY <1>2 DEF OthersUntouched, Untouched

-----------------------------------------------------------------------------
(* The bytes that WriteAt writes *)

\* The byte of its buffer for position p of the file.
BufferAt(d, hdr, from, position, n, p) ==
  IF p \in position..position + n - 1 THEN from[p - position + 1]
  ELSE IF ReadsBack(p \div SectorSize, position, n) /\ p < hdr.numBytes
         THEN ByteAt(d, hdr, p) ELSE Junk

\* A position is in a part of the file, at an offset in it.
LEMMA PartAndOffset ==
    ASSUME NEW p \in Nat
    PROVE  /\ p \div SectorSize \in Nat /\ p % SectorSize \in Nat
           /\ p % SectorSize < SectorSize
           /\ p = (p \div SectorSize) * SectorSize + (p % SectorSize)
           /\ (p \div SectorSize) * SectorSize <= p
           /\ p < (p \div SectorSize + 1) * SectorSize
  <1>1. SectorSize \in Nat /\ SectorSize > 0
    BY FileSystemAssumption
  <1>2. /\ p \div SectorSize \in Nat /\ p % SectorSize \in Nat /\ p % SectorSize < SectorSize
    BY <1>1
  <1>3. p = (p \div SectorSize) * SectorSize + (p % SectorSize)
    BY <1>1
  <1>4. (p \div SectorSize) * SectorSize \in Nat
    BY <1>1, <1>2
  <1>5. (p \div SectorSize + 1) * SectorSize = (p \div SectorSize) * SectorSize + SectorSize
    <2> DEFINE i == p \div SectorSize
    <2>1. i \in Nat
      BY <1>2
    <2> HIDE DEF i
    <2>2. (i + 1) * SectorSize = i * SectorSize + SectorSize
      BY <1>1, <2>1
    <2> QED BY <2>2 DEF i
  <1> QED BY <1>1, <1>2, <1>3, <1>4, <1>5

\* The writes w of a request on the parts first to last of a file.
WritesParts(d, hdr, from, position, n, first, last, w) ==
  /\ n \in Nat /\ first \in Nat /\ last \in Nat /\ first <= last
  /\ DOMAIN w = 1..1 + last - first
  /\ \A k \in 1..1 + last - first :
       /\ w[k][1] = ByteToSector(hdr, (first + k - 1) * SectorSize)
       /\ w[k][2] = Data([b \in 1..SectorSize |->
              BufferAt(d, hdr, from, position, n, (first + k - 1) * SectorSize + b - 1)])

LEMMA WriteAtParts ==
    ASSUME NEW d, NEW hdr, IsHeader(hdr), NEW from, Len(from) \in Nat, NEW position \in Nat,
           NEW n, n = InFile(hdr, Len(from), position), n # 0,
           NEW w, w = WriteAt(d, hdr, from, position)
    PROVE  WritesParts(d, hdr, from, position, n, position \div SectorSize,
                       (position + n - 1) \div SectorSize, w)
  <1> DEFINE first == position \div SectorSize
             last == (position + n - 1) \div SectorSize
  <1>1. n \in Nat /\ (n > 0 => position < hdr.numBytes /\ position + n <= hdr.numBytes)
    <2>1. hdr.numBytes \in Nat /\ Len(from) \in Int
      BY DEF IsHeader
    <2> QED BY <2>1, InFileFacts
  <1>2. position + n - 1 \in Nat /\ position <= position + n - 1
    BY <1>1
  <1>3. first \in Nat /\ last \in Nat /\ first <= last
    BY <1>2, PartsInOrder
  <1> DEFINE m == 1 + last - first
             Part(k) == <<ByteToSector(hdr, (first + k - 1) * SectorSize),
                          Data([b \in 1..SectorSize |->
                            BufferAt(d, hdr, from, position, n,
                                     (first + k - 1) * SectorSize + b - 1)])>>
  <1>4. w = [k \in 1..m |-> Part(k)]
    BY Zenon DEF WriteAt, BufferAt
  <1> HIDE DEF Part, first, last
  <1>5. DOMAIN w = 1..m /\ \A k \in 1..m : w[k] = Part(k)
    BY <1>4
  <1>6. ASSUME NEW k \in 1..m
        PROVE  /\ w[k][1] = ByteToSector(hdr, (first + k - 1) * SectorSize)
               /\ w[k][2] = Data([b \in 1..SectorSize |->
                    BufferAt(d, hdr, from, position, n, (first + k - 1) * SectorSize + b - 1)])
    BY <1>5 DEF Part
  <1> QED BY <1>1, <1>3, <1>5, <1>6 DEF WritesParts, first, last

\* A byte that the request does not cover is read back if its sector is written.
LEMMA ReadBack ==
    ASSUME NEW position \in Nat, NEW n \in Nat, n > 0, NEW p \in Nat,
           p \notin position..position + n - 1,
           position \div SectorSize <= p \div SectorSize,
           p \div SectorSize <= (position + n - 1) \div SectorSize
    PROVE  ReadsBack(p \div SectorSize, position, n)
  <1> DEFINE i == p \div SectorSize
             first == position \div SectorSize
             last == (position + n - 1) \div SectorSize
  <1>1. position + n - 1 \in Nat /\ position + n \in Nat
    OBVIOUS
  <1>2. i \in Nat /\ i * SectorSize <= p /\ p < (i + 1) * SectorSize
    BY PartAndOffset
  <1>3. first \in Nat /\ last \in Nat /\ i * SectorSize \in Nat /\ (i + 1) * SectorSize \in Nat
    BY <1>1, <1>2, PartAndOffset, FileSystemAssumption
  <1>4. CASE p < position
    <2>1. i = first
      <3>1. i <= first
        BY <1>4, PartsInOrder
      <3> QED BY <1>2, <1>3, <3>1
    <2>2. position # first * SectorSize
      <3> HIDE DEF i, first
      <3> QED BY <1>2, <1>3, <1>4, <2>1
    <2> HIDE DEF i, first, last
    <2> QED BY <2>1, <2>2 DEF ReadsBack, i, first
  <1>5. CASE p >= position + n
    <2>1. i = last
      <3>1. last <= i
        BY <1>1, <1>5, PartsInOrder
      <3> QED BY <1>2, <1>3, <3>1
    <2>2. position + n # (last + 1) * SectorSize
      <3> HIDE DEF i, last
      <3> QED BY <1>1, <1>2, <1>3, <1>5, <2>1
    <2> QED BY <2>1, <2>2, Zenon DEF ReadsBack
  <1>6. p < position \/ p >= position + n
    BY <1>1
  <1> QED BY <1>4, <1>5, <1>6

\* After WriteAt the bytes of a file are those that were asked for, and elsewhere
\* those that were there, whatever parts of sectors the request covers.
LEMMA WriteAtBytes ==
    ASSUME NEW d, NEW hdr, IsHeader(hdr), NEW from, Len(from) \in Nat, NEW position \in Nat,
           NEW n, n = InFile(hdr, Len(from), position),
           NEW e, e = Settled(d, WriteAt(d, hdr, from, position)),
           NEW p \in Nat, p < hdr.numBytes
    PROVE  ByteAt(e, hdr, p) = IF p \in position..position + n - 1
                                 THEN from[p - position + 1] ELSE ByteAt(d, hdr, p)
  <1> DEFINE w == WriteAt(d, hdr, from, position)
             i == p \div SectorSize
             o == p % SectorSize
             parts == divRoundUp(hdr.numBytes, SectorSize)
             s == ByteToSector(hdr, p)
  <1>1. WriteSequence(w)
    BY WriteAtWrites
  <1>2. /\ hdr.numBytes \in Nat /\ hdr.dataSectors \in [1..parts -> SectorNumbers]
        /\ \A j, k \in 1..parts : hdr.dataSectors[j] = hdr.dataSectors[k] => j = k
    BY DEF IsHeader
  <1>3. /\ i \in Nat /\ o \in Nat /\ o < SectorSize /\ p = i * SectorSize + o
        /\ i * SectorSize \in Nat /\ SectorSize \in Nat
    <2>1. SectorSize \in Nat
      BY FileSystemAssumption
    <2>2. i \in Nat /\ o \in Nat /\ o < SectorSize /\ p = i * SectorSize + o
      BY PartAndOffset
    <2>3. i * SectorSize \in Nat
      <3> HIDE DEF i
      <3> QED BY <2>1, <2>2
    <2> QED BY <2>1, <2>2, <2>3
  <1>4. i + 1 \in 1..parts
    BY <1>2, RoundUpFacts
  <1>5. s = hdr.dataSectors[i + 1]
    BY DEF ByteToSector
  <1>6. s \in SectorNumbers
    BY <1>2, <1>4, <1>5
  <1>7. n \in Nat
    <2>1. Len(from) \in Int
      OBVIOUS
    <2> QED BY <1>2, <2>1, InFileFacts
  <1>8. \A c : ByteAt(c, hdr, p) = BytesIn(c[s])[o + 1]
    BY Zenon DEF ByteAt
  <1> HIDE DEF w, i, o, parts, s
  <1>9. ASSUME e[s] = d[s] PROVE ByteAt(e, hdr, p) = ByteAt(d, hdr, p)
    BY <1>8, <1>9
  <1>10. e = Settled(d, w)
    BY DEF w
  <1>11. CASE n = 0
    <2>1. w = <<>>
      BY <1>11, Zenon DEF w, WriteAt
    <2>2. DOMAIN w = {}
      BY <2>1, EmptySeq
    <2>3. e[s] = d[s]
      BY <1>1, <1>6, <1>10, <2>2, SettledAt
    <2>4. p \notin position..position + n - 1
      BY <1>11
    <2> QED BY <1>9, <2>3, <2>4
  <1>12. CASE n # 0
    <2> DEFINE first == position \div SectorSize
               last == (position + n - 1) \div SectorSize
               m == 1 + last - first
    <2>1. /\ first \in Nat /\ last \in Nat /\ first <= last
          /\ DOMAIN w = 1..m
          /\ \A k \in 1..m :
               /\ w[k][1] = ByteToSector(hdr, (first + k - 1) * SectorSize)
               /\ w[k][2] = Data([b \in 1..SectorSize |->
                   BufferAt(d, hdr, from, position, n, (first + k - 1) * SectorSize + b - 1)])
      <3>1. WritesParts(d, hdr, from, position, n, first, last, w)
        BY <1>12, WriteAtParts DEF w
      <3> HIDE DEF first, last
      <3> QED BY <3>1 DEF WritesParts
    <2>2. CASE first <= i /\ i <= last
      <3> DEFINE k == i - first + 1
      <3>1. k \in 1..m /\ first + k - 1 = i
        <4> HIDE DEF first, last
        <4> QED BY <1>3, <2>1, <2>2
      <3>2. /\ w[k][1] = ByteToSector(hdr, i * SectorSize)
            /\ w[k][2] = Data([b \in 1..SectorSize |->
                   BufferAt(d, hdr, from, position, n, i * SectorSize + b - 1)])
        <4> HIDE DEF first, last, k
        <4> QED BY <2>1, <3>1
      <3>3. ByteToSector(hdr, i * SectorSize) = s
        BY <1>3, <1>5, Parts DEF ByteToSector
      <3>4. e[s] = Data([b \in 1..SectorSize |->
                   BufferAt(d, hdr, from, position, n, i * SectorSize + b - 1)])
        <4> HIDE DEF first, last, k
        <4>1. k \in DOMAIN w
          BY <2>1, <3>1
        <4>2. Settled(d, w)[w[k][1]] = w[k][2]
          BY <1>1, <4>1, SettledAt
        <4> QED BY <1>10, <3>2, <3>3, <4>2
      <3>5. BytesIn(e[s]) = [b \in 1..SectorSize |->
                   BufferAt(d, hdr, from, position, n, i * SectorSize + b - 1)]
        BY <3>4 DEF BytesIn, Data
      <3>6. o + 1 \in 1..SectorSize /\ i * SectorSize + (o + 1) - 1 = p
        BY <1>3
      <3>7. ByteAt(e, hdr, p) = BufferAt(d, hdr, from, position, n, p)
        <4> DEFINE f == [b \in 1..SectorSize |->
                           BufferAt(d, hdr, from, position, n, i * SectorSize + b - 1)]
        <4>1. f[o + 1] = BufferAt(d, hdr, from, position, n, i * SectorSize + (o + 1) - 1)
          BY <3>6
        <4> HIDE DEF f
        <4> QED BY <1>8, <3>5, <3>6, <4>1 DEF f
      <3>8. p \notin position..position + n - 1 =>
              ReadsBack(p \div SectorSize, position, n)
        <4>1. n > 0
          BY <1>7, <1>12
        <4> QED BY <1>7, <2>2, <4>1, ReadBack DEF i
      <3> QED BY <3>7, <3>8 DEF BufferAt
    <2>3. CASE ~(first <= i /\ i <= last)
      <3>1. p \notin position..position + n - 1
        <4>1. SUFFICES ASSUME p \in position..position + n - 1 PROVE FALSE
          OBVIOUS
        <4>2. position + n - 1 \in Nat /\ position <= p /\ p <= position + n - 1
          BY <1>7, <4>1
        <4>3. first <= i /\ i <= last
          BY <4>2, PartsInOrder DEF i
        <4> QED BY <2>3, <4>3
      <3>2. ASSUME NEW k \in DOMAIN w PROVE w[k][1] # s
        <4> HIDE DEF first, last
        <4>1. k \in 1..m /\ first + k - 1 \in Nat /\ first + k - 1 # i
          BY <1>3, <2>1, <2>3, <3>2
        <4>2. w[k][1] = hdr.dataSectors[(first + k - 1) + 1]
          BY <2>1, <4>1, Parts DEF ByteToSector
        <4>3. (first + k - 1) + 1 \in 1..parts
          <5>1. last + 1 \in 1..parts
            <6>1. position + n - 1 \in Nat /\ position + n - 1 < hdr.numBytes
              <7>1. Len(from) \in Int /\ n > 0
                BY <1>7, <1>12
              <7>2. position + n <= hdr.numBytes
                BY <1>2, <7>1, InFileFacts
              <7> QED BY <1>2, <1>7, <7>1, <7>2
            <6> QED BY <1>2, <6>1, RoundUpFacts DEF last, parts
          <5>2. parts \in Nat
            BY <1>2, RoundUpFacts DEF parts
          <5> QED BY <2>1, <4>1, <5>1, <5>2
        <4> QED BY <1>2, <1>3, <1>4, <1>5, <4>1, <4>2, <4>3
      <3>3. e[s] = d[s]
        BY <1>1, <1>6, <1>10, <3>2, SettledAt
      <3> QED BY <1>9, <3>1, <3>3
    <2> QED BY <2>2, <2>3
  <1> QED BY <1>11, <1>12

\* What a Write of a client asks for.
OverwritesOnly ==
  \A from \in Chunks : Write(from) =>
    \A p \in 0..handle.hdr.numBytes - 1 :
      ByteAt(Settled(image', pending'), handle.hdr, p)
        = IF p \in handle.seekPosition..handle'.seekPosition - 1
            THEN from[p - handle.seekPosition + 1] ELSE ByteAt(image, handle.hdr, p)

\* When the writes of a Write are done, its bytes are at the position the file
\* was open at, up to the position it is open at then, and every other byte of
\* the file is the one it was: the sectors that the request covers in part were
\* read back where they had to be.
THEOREM BytesAsWritten == FSSpec => [][OverwritesOnly]_fsVars
  <1>1. IInv /\ [FSNext]_fsVars => [OverwritesOnly]_fsVars
    <2> SUFFICES ASSUME IInv, NEW from \in Chunks, Write(from),
                        NEW p \in 0..handle.hdr.numBytes - 1
                 PROVE  ByteAt(Settled(image', pending'), handle.hdr, p)
                          = IF p \in handle.seekPosition..handle'.seekPosition - 1
                              THEN from[p - handle.seekPosition + 1]
                              ELSE ByteAt(image, handle.hdr, p)
      BY DEF OverwritesOnly
    <2>1. Ready /\ handle # NULL /\ image' = image
      BY DEF Write
    <2>2. PICK d, h, gone : d = image /\ h = handle /\ gone = removed
      OBVIOUS
    <2>3. GoodDisk(d) /\ gone \in BOOLEAN /\ HandleOK(h, gone, d) /\ h # NULL
      BY <2>1, <2>2, HandleQuiet
    <2>4. Len(from) \in Nat /\ Len(from) \in Int
      BY FileSystemAssumption
    <2> DEFINE n == InFile(h.hdr, Len(from), h.seekPosition)
    <2>5. h.seekPosition \in Nat /\ h.hdr.numBytes \in Nat /\ n \in Nat
      BY <2>3, <2>4, InOpenFile
    <2>6. IsHeader(h.hdr)
      BY <2>3 DEF HandleOK
    <2>7. /\ pending' = WriteAt(d, h.hdr, from, h.seekPosition)
          /\ handle' = [h EXCEPT !.seekPosition = h.seekPosition + n]
      BY <2>2 DEF Write
    <2>8. handle'.seekPosition = h.seekPosition + n
      <3> HIDE DEF n
      <3>1. h = [hdr |-> h.hdr, seekPosition |-> h.seekPosition, sector |-> h.sector]
        BY <2>3 DEF HandleOK
      <3> QED BY <2>7, <3>1
    <2>9. p \in Nat /\ p < h.hdr.numBytes
      BY <2>2, <2>5
    <2>10. ByteAt(Settled(d, WriteAt(d, h.hdr, from, h.seekPosition)), h.hdr, p)
             = IF p \in h.seekPosition..h.seekPosition + n - 1
                 THEN from[p - h.seekPosition + 1] ELSE ByteAt(d, h.hdr, p)
      BY <2>4, <2>5, <2>6, <2>9, WriteAtBytes
    <2> HIDE DEF n
    <2>11. image' = d
      BY <2>1, <2>2
    <2>12. ByteAt(Settled(image', pending'), h.hdr, p)
             = IF p \in h.seekPosition..handle'.seekPosition - 1
                 THEN from[p - h.seekPosition + 1] ELSE ByteAt(d, h.hdr, p)
      <3>1. Settled(image', pending') = Settled(d, WriteAt(d, h.hdr, from, h.seekPosition))
        BY <2>7, <2>11
      <3>2. h.seekPosition..handle'.seekPosition - 1
              = h.seekPosition..h.seekPosition + n - 1
        BY <2>5, <2>8
      <3> QED BY <2>10, <3>1, <3>2, Zenon
    <2> QED BY <2>2, <2>12, Zenon
  <1> QED BY <1>1, FileSystemInvariant, PTL DEF FSSpec

-----------------------------------------------------------------------------
(* The files on a disk *)

WholeFile(d, i) == ReadAt(d, HeaderAt(d, i), HeaderAt(d, i).numBytes, 0)
NamesOn(d) == {Directory(d)[i].name : i \in Listed(d)}

\* Read from its start, a file is all of its bytes.
LEMMA ReadsWhole ==
    ASSUME NEW d, NEW hdr, IsHeader(hdr)
    PROVE  /\ hdr.numBytes \in Nat
           /\ Len(ReadAt(d, hdr, hdr.numBytes, 0)) = hdr.numBytes
           /\ ReadAt(d, hdr, hdr.numBytes, 0)
                = [k \in 1..hdr.numBytes |-> ByteAt(d, hdr, k - 1)]
  <1> DEFINE n == hdr.numBytes
  <1>1. n \in Nat
    BY DEF IsHeader
  <1>2. InFile(hdr, n, 0) = n
    BY <1>1 DEF InFile, SmallerOf
  <1>3. \A k \in 1..n : 0 + k - 1 = k - 1
    OBVIOUS
  <1>4. ReadAt(d, hdr, n, 0) = [k \in 1..n |-> ByteAt(d, hdr, 0 + k - 1)]
    BY <1>2, Zenon DEF ReadAt
  <1>5. [k \in 1..n |-> ByteAt(d, hdr, 0 + k - 1)] = [k \in 1..n |-> ByteAt(d, hdr, k - 1)]
    BY <1>3, Zenon
  <1>6. Len(ReadAt(d, hdr, n, 0)) = n
    BY <1>1, <1>2, ReadAtLength
  <1> QED BY <1>1, <1>4, <1>5, <1>6

LEMMA WholeFileIs ==
    ASSUME NEW d, GoodDisk(d), NEW i \in Listed(d)
    PROVE  /\ IsHeader(HeaderAt(d, i)) /\ HeaderAt(d, i).numBytes \in Nat
           /\ WholeFile(d, i)
                = [k \in 1..HeaderAt(d, i).numBytes |-> ByteAt(d, HeaderAt(d, i), k - 1)]
           /\ Len(WholeFile(d, i)) = HeaderAt(d, i).numBytes
  <1>1. IsHeader(HeaderAt(d, i))
    BY OwnedFacts DEF HeaderAt
  <1>2. HeaderAt(d, i).numBytes \in Nat
    BY <1>1 DEF IsHeader
  <1>3. WholeFile(d, i)
          = [k \in 1..HeaderAt(d, i).numBytes |-> ByteAt(d, HeaderAt(d, i), k - 1)]
    BY <1>1, ReadsWhole DEF WholeFile
  <1>4. Len(WholeFile(d, i)) = HeaderAt(d, i).numBytes
    BY <1>1, ReadsWhole DEF WholeFile
  <1> QED BY <1>1, <1>2, <1>3, <1>4

\* The files of a good disk by name, each listed once.
LEMMA FilesOnAt ==
    ASSUME NEW d, GoodDisk(d)
    PROVE  /\ FilesOn(d) = [n \in NamesOn(d) |-> FilesOn(d)[n]]
           /\ \A i \in Listed(d) : FilesOn(d)[Directory(d)[i].name] = WholeFile(d, i)
  <1>1. FilesOn(d) = [n \in NamesOn(d) |-> FilesOn(d)[n]]
    BY DEF FilesOn, NamesOn
  <1>2. ASSUME NEW i \in Listed(d)
        PROVE  FilesOn(d)[Directory(d)[i].name] = WholeFile(d, i)
    <2> DEFINE n == Directory(d)[i].name
               j == CHOOSE k \in Listed(d) : Directory(d)[k].name = n
    <2>1. j \in Listed(d) /\ Directory(d)[j].name = n
      OBVIOUS
    <2>2. j = i
      <3> HIDE DEF j
      <3> QED BY <2>1 DEF GoodDisk, FilesApart
    <2>3. n \in NamesOn(d)
      BY DEF NamesOn
    <2>4. FilesOn(d)[n] = WholeFile(d, j)
      BY <2>3, Zenon DEF FilesOn, NamesOn, WholeFile, HeaderAt
    <2> QED BY <2>2, <2>4
  <1> QED BY <1>1, <1>2

\* A file is known by the sector of its header.
LEMMA NameOfAt ==
    ASSUME NEW d, GoodDisk(d), NEW i \in Listed(d)
    PROVE  NameOf(d, Directory(d)[i].sector) = Directory(d)[i].name
  <1> DEFINE s == Directory(d)[i].sector
             j == CHOOSE k \in Listed(d) : Directory(d)[k].sector = s
  <1>1. j \in Listed(d) /\ Directory(d)[j].sector = s
    OBVIOUS
  <1>2. j = i
    <2> HIDE DEF j
    <2>1. s \in OwnedBy(d, i) /\ s \in OwnedBy(d, j)
      BY <1>1, OwnedFacts
    <2> QED BY <1>1, <2>1 DEF GoodDisk, FilesApart
  <1>3. NameOf(d, s) = Directory(d)[j].name
    BY Zenon DEF NameOf
  <1> QED BY <1>2, <1>3

-----------------------------------------------------------------------------
(* There is room for a file if the files there are leave enough *)

\* One entry for each name.
LEMMA EntriesUsed ==
    ASSUME NEW d, GoodDisk(d)
    PROVE  FreeEntries(Directory(d)) # {} <=> Cardinality(NamesOn(d)) < NumDirEntries
  <1> DEFINE E == 1..NumDirEntries
             F == [i \in Listed(d) |-> Directory(d)[i].name]
  <1>1. NumDirEntries \in Nat
    BY FileSystemAssumption
  <1>2. IsFiniteSet(E) /\ Cardinality(E) = NumDirEntries
    <2>1. IsFiniteSet(E) /\ Cardinality(E) = IF 1 > NumDirEntries THEN 0 ELSE NumDirEntries - 1 + 1
      BY <1>1, FS_Interval
    <2> QED BY <1>1, <2>1
  <1>3. Listed(d) \subseteq E /\ FreeEntries(Directory(d)) = E \ Listed(d)
    BY DEF Listed, FreeEntries
  <1>4. IsFiniteSet(Listed(d)) /\ Cardinality(Listed(d)) <= NumDirEntries
        /\ (Cardinality(Listed(d)) = NumDirEntries => Listed(d) = E)
    <2>1. IsFiniteSet(E) /\ Listed(d) \in SUBSET E
      BY <1>2, <1>3
    <2>2. IsFiniteSet(Listed(d)) /\ Cardinality(Listed(d)) <= Cardinality(E)
          /\ (Cardinality(Listed(d)) = Cardinality(E) => Listed(d) = E)
      <3> HIDE DEF E
      <3> QED BY <2>1, FS_Subset
    <2> QED BY <1>2, <2>2
  <1>5. F \in Bijection(Listed(d), NamesOn(d))
    <2>1. F \in [Listed(d) -> NamesOn(d)]
      BY DEF NamesOn
    <2>2. \A i, j \in Listed(d) : F[i] = F[j] => i = j
      BY DEF GoodDisk, FilesApart
    <2>3. \A n \in NamesOn(d) : \E i \in Listed(d) : F[i] = n
      BY DEF NamesOn
    <2> HIDE DEF F
    <2> QED BY <2>1, <2>2, <2>3, Fun_IsBij
  <1>6. Cardinality(NamesOn(d)) = Cardinality(Listed(d))
    <2>1. ExistsBijection(Listed(d), NamesOn(d))
      BY <1>5 DEF ExistsBijection
    <2> QED BY <1>4, <2>1, FS_Bijection
  <1>7. Cardinality(Listed(d)) \in Nat
    BY <1>4, FS_CardinalityType
  <1> HIDE DEF E, F
  <1>8. FreeEntries(Directory(d)) # {} => Cardinality(Listed(d)) # NumDirEntries
    BY <1>3, <1>4
  <1>9. FreeEntries(Directory(d)) = {} => Listed(d) = E
    BY <1>3
  <1> QED BY <1>1, <1>2, <1>4, <1>6, <1>7, <1>8, <1>9

\* The sectors of a listed file by number: that of the header, 0, and its parts.
PartsOf(d, i) == divRoundUp(HeaderAt(d, i).numBytes, SectorSize)
SectorAt(d, i, k) ==
  IF k = 0 THEN Directory(d)[i].sector ELSE HeaderAt(d, i).dataSectors[k]
\* All of them by the name of the file.
PlacesOn(d) ==
  UNION {{name} \X (0..SectorsFor(Len(FilesOn(d)[name]))) : name \in NamesOn(d)}
OwnedOn(d) == UNION {OwnedBy(d, i) : i \in Listed(d)}

LEMMA SectorAtFacts ==
    ASSUME NEW d, GoodDisk(d), NEW i \in Listed(d)
    PROVE  /\ PartsOf(d, i) \in Nat
           /\ \A k \in 0..PartsOf(d, i) : SectorAt(d, i, k) \in OwnedBy(d, i)
           /\ \A s \in OwnedBy(d, i) : \E k \in 0..PartsOf(d, i) : SectorAt(d, i, k) = s
           /\ \A k, l \in 0..PartsOf(d, i) : SectorAt(d, i, k) = SectorAt(d, i, l) => k = l
  <1> DEFINE n == PartsOf(d, i)
             s == Directory(d)[i].sector
             f == HeaderAt(d, i).dataSectors
  <1>1. IsHeader(HeaderAt(d, i)) /\ s \notin Range(f) /\ OwnedBy(d, i) = {s} \cup Range(f)
    BY OwnedFacts DEF HeaderAt, OwnedBy
  <1>2. /\ n \in Nat /\ f \in [1..n -> SectorNumbers]
        /\ \A j, k \in 1..n : f[j] = f[k] => j = k
    <2>1. HeaderAt(d, i).numBytes \in Nat
      BY <1>1 DEF IsHeader
    <2> QED BY <1>1, <2>1, RoundUpFacts DEF IsHeader, PartsOf
  <1>3. \A k \in 0..n : k # 0 => k \in 1..n
    BY <1>2
  <1>4. \A k \in 0..n : SectorAt(d, i, k) = IF k = 0 THEN s ELSE f[k]
    BY DEF SectorAt
  <1> HIDE DEF n, s, f
  <1>5. \A k \in 1..n : f[k] \in Range(f)
    BY <1>2 DEF Range
  <1>6. \A k \in 0..n : SectorAt(d, i, k) \in OwnedBy(d, i)
    BY <1>1, <1>3, <1>4, <1>5
  <1>7. ASSUME NEW r \in OwnedBy(d, i) PROVE \E k \in 0..n : SectorAt(d, i, k) = r
    <2>1. CASE r = s
      BY <1>2, <1>4, <2>1
    <2>2. CASE r \in Range(f)
      <3>1. PICK k \in 1..n : f[k] = r
        BY <1>2, <2>2 DEF Range
      <3>2. k \in 0..n /\ k # 0
        BY <1>2
      <3> QED BY <1>4, <3>1, <3>2
    <2> QED BY <1>1, <2>1, <2>2
  <1>8. ASSUME NEW k \in 0..n, NEW l \in 0..n, SectorAt(d, i, k) = SectorAt(d, i, l)
        PROVE  k = l
    BY <1>1, <1>2, <1>3, <1>4, <1>5, <1>8
  <1> QED BY <1>2, <1>6, <1>7, <1>8 DEF n

LEMMA PlacesAre ==
    ASSUME NEW d, GoodDisk(d)
    PROVE  /\ \A i \in Listed(d) : \A k \in 0..PartsOf(d, i) :
                <<Directory(d)[i].name, k>> \in PlacesOn(d)
           /\ \A x \in PlacesOn(d) : \E i \in Listed(d) : \E k \in 0..PartsOf(d, i) :
                x = <<Directory(d)[i].name, k>>
  <1>1. ASSUME NEW i \in Listed(d)
        PROVE  SectorsFor(Len(FilesOn(d)[Directory(d)[i].name])) = PartsOf(d, i)
    <2>1. FilesOn(d)[Directory(d)[i].name] = WholeFile(d, i)
      BY FilesOnAt
    <2>2. Len(WholeFile(d, i)) = HeaderAt(d, i).numBytes
      BY WholeFileIs
    <2> QED BY <2>1, <2>2, Zenon DEF SectorsFor, PartsOf
  <1>2. ASSUME NEW i \in Listed(d), NEW k \in 0..PartsOf(d, i)
        PROVE  <<Directory(d)[i].name, k>> \in PlacesOn(d)
    <2> DEFINE name == Directory(d)[i].name
    <2>1. name \in NamesOn(d)
      BY DEF NamesOn
    <2>2. <<name, k>> \in {name} \X (0..SectorsFor(Len(FilesOn(d)[name])))
      BY <1>1
    <2> HIDE DEF name
    <2>3. <<name, k>> \in PlacesOn(d)
      BY <2>1, <2>2 DEF PlacesOn
    <2> QED BY <2>3 DEF name
  <1>3. ASSUME NEW x \in PlacesOn(d)
        PROVE  \E i \in Listed(d) : \E k \in 0..PartsOf(d, i) : x = <<Directory(d)[i].name, k>>
    <2>1. PICK name \in NamesOn(d) : x \in {name} \X (0..SectorsFor(Len(FilesOn(d)[name])))
      BY DEF PlacesOn
    <2>2. PICK i \in Listed(d) : name = Directory(d)[i].name
      BY DEF NamesOn
    <2>3. x \in {name} \X (0..PartsOf(d, i))
      BY <1>1, <2>1, <2>2
    <2> QED BY <2>2, <2>3
  <1> QED BY <1>2, <1>3

\* A place of a file is a sector it owns, and the other way round.
LEMMA AsManySectors ==
    ASSUME NEW d, GoodDisk(d)
    PROVE  /\ IsFiniteSet(OwnedOn(d)) /\ IsFiniteSet(PlacesOn(d))
           /\ Cardinality(PlacesOn(d)) = Cardinality(OwnedOn(d))
  <1> DEFINE P == PlacesOn(d)
             O == OwnedOn(d)
             Entry(n) == CHOOSE i \in Listed(d) : Directory(d)[i].name = n
             F == [x \in P |-> SectorAt(d, Entry(x[1]), x[2])]
  <1>1. ASSUME NEW i \in Listed(d) PROVE Entry(Directory(d)[i].name) = i
    <2> DEFINE j == Entry(Directory(d)[i].name)
    <2>1. j \in Listed(d) /\ Directory(d)[j].name = Directory(d)[i].name
      OBVIOUS
    <2> HIDE DEF j
    <2>2. j = i
      BY <2>1 DEF GoodDisk, FilesApart
    <2> QED BY <2>2 DEF j
  <1> HIDE DEF Entry
  <1>2. ASSUME NEW i \in Listed(d), NEW k \in 0..PartsOf(d, i)
        PROVE  F[<<Directory(d)[i].name, k>>] = SectorAt(d, i, k)
    <2> DEFINE x == <<Directory(d)[i].name, k>>
    <2>1. x \in P /\ x[1] = Directory(d)[i].name /\ x[2] = k
      BY PlacesAre
    <2> HIDE DEF x
    <2>2. F[x] = SectorAt(d, Entry(x[1]), x[2])
      BY <2>1
    <2> QED BY <1>1, <2>1, <2>2 DEF x
  <1> HIDE DEF F
  <1>3. F \in [P -> O]
    <2>1. F = [x \in P |-> F[x]]
      BY DEF F
    <2>2. ASSUME NEW x \in P PROVE F[x] \in O
      <3>1. PICK i \in Listed(d) : \E k \in 0..PartsOf(d, i) : x = <<Directory(d)[i].name, k>>
        BY PlacesAre
      <3>2. PICK k \in 0..PartsOf(d, i) : x = <<Directory(d)[i].name, k>>
        BY <3>1
      <3>3. F[x] = SectorAt(d, i, k)
        BY <1>2, <3>2
      <3>4. F[x] \in OwnedBy(d, i)
        BY <3>3, SectorAtFacts
      <3> QED BY <3>4 DEF OwnedOn
    <2> HIDE DEF P, O
    <2> QED BY <2>1, <2>2
  <1>4. ASSUME NEW x \in P, NEW y \in P, F[x] = F[y] PROVE x = y
    <2>1. PICK i \in Listed(d) : \E k \in 0..PartsOf(d, i) : x = <<Directory(d)[i].name, k>>
      BY PlacesAre
    <2>2. PICK k \in 0..PartsOf(d, i) : x = <<Directory(d)[i].name, k>>
      BY <2>1
    <2>3. PICK j \in Listed(d) : \E l \in 0..PartsOf(d, j) : y = <<Directory(d)[j].name, l>>
      BY PlacesAre
    <2>4. PICK l \in 0..PartsOf(d, j) : y = <<Directory(d)[j].name, l>>
      BY <2>3
    <2>5. SectorAt(d, i, k) = SectorAt(d, j, l)
      BY <1>2, <1>4, <2>2, <2>4
    <2>6. SectorAt(d, i, k) \in OwnedBy(d, i) /\ SectorAt(d, j, l) \in OwnedBy(d, j)
      BY SectorAtFacts
    <2>7. i = j
      BY <2>5, <2>6 DEF GoodDisk, FilesApart
    <2>8. k = l
      BY <2>5, <2>7, SectorAtFacts
    <2> QED BY <2>2, <2>4, <2>7, <2>8
  <1>5. ASSUME NEW s \in O PROVE \E x \in P : F[x] = s
    <2>1. PICK i \in Listed(d) : s \in OwnedBy(d, i)
      BY DEF OwnedOn
    <2>2. PICK k \in 0..PartsOf(d, i) : SectorAt(d, i, k) = s
      BY <2>1, SectorAtFacts
    <2>3. <<Directory(d)[i].name, k>> \in P
      BY PlacesAre
    <2> QED BY <1>2, <2>2, <2>3
  <1>6. IsFiniteSet(O)
    <2>1. O \subseteq SectorNumbers
      BY OwnedFacts DEF OwnedOn
    <2> QED BY <2>1, SectorNumberFacts, FS_Subset
  <1>7. F \in Bijection(P, O)
    <2> HIDE DEF P, O
    <2> QED BY <1>3, <1>4, <1>5, Fun_IsBij
  <1>8. ExistsBijection(O, P)
    <2>1. ExistsBijection(P, O)
      BY <1>7 DEF ExistsBijection
    <2> QED BY <2>1, Fun_ExistsBijSymmetric
  <1>9. IsFiniteSet(P) /\ Cardinality(P) = Cardinality(O)
    BY <1>6, <1>8, FS_Bijection
  <1> QED BY <1>6, <1>9

LEMMA CardinalityOfBoth ==
    ASSUME NEW S, NEW T, IsFiniteSet(S), IsFiniteSet(T), S \cap T = {}
    PROVE  IsFiniteSet(S \cup T) /\ Cardinality(S \cup T) = Cardinality(S) + Cardinality(T)
  <1>1. /\ IsFiniteSet(S \cup T)
        /\ Cardinality(S \cup T) = Cardinality(S) + Cardinality(T) - Cardinality(S \cap T)
    BY FS_Union
  <1>2. Cardinality(S \cap T) = 0
    BY FS_EmptySet
  <1>3. Cardinality(S) \in Nat /\ Cardinality(T) \in Nat
    BY FS_CardinalityType
  <1> QED BY <1>1, <1>2, <1>3

\* In the abstract module the number of elements is the same.
LEMMA SameCardinality == \A S : Files!Cardinality(S) = Cardinality(S)
  BY Zenon DEF Files!Cardinality, Cardinality

LEMMA FiveSpecial ==
    ASSUME NEW d, SpecialFiles(d)
    PROVE  IsFiniteSet(SpecialSectors(d)) /\ Cardinality(SpecialSectors(d)) = 5
  <1> DEFINE a == MapSector(d)
             b == DirectorySectors(d)[1]
             c == DirectorySectors(d)[2]
             S2 == {FreeMapSector, DirectorySector}
             S3 == S2 \cup {a}
             S4 == S3 \cup {b}
             S5 == S4 \cup {c}
  <1>1. a \notin S2 /\ b \notin S3 /\ c \notin S4 /\ SpecialSectors(d) = S5
    BY SpecialIs
  <1>2. FreeMapSector # DirectorySector
    BY SectorNumberFacts
  <1>3. IsFiniteSet(S2) /\ Cardinality(S2) = 2
    <2>1. IsFiniteSet({FreeMapSector}) /\ Cardinality({FreeMapSector}) = 1
      BY FS_Singleton
    <2>2. S2 = {FreeMapSector} \cup {DirectorySector} /\ DirectorySector \notin {FreeMapSector}
      BY <1>2
    <2> QED BY <2>1, <2>2, FS_AddElement
  <1> HIDE DEF S2, a, b, c
  <1>4. IsFiniteSet(S3) /\ Cardinality(S3) = 3
    BY <1>1, <1>3, FS_AddElement
  <1> HIDE DEF S3
  <1>5. IsFiniteSet(S4) /\ Cardinality(S4) = 4
    BY <1>1, <1>4, FS_AddElement
  <1> HIDE DEF S4
  <1>6. IsFiniteSet(S5) /\ Cardinality(S5) = 5
    BY <1>1, <1>5, FS_AddElement
  <1> QED BY <1>1, <1>6

\* What the files do not need is clear.
LEMMA ClearSectors ==
    ASSUME NEW d, GoodDisk(d)
    PROVE  /\ Cardinality(PlacesOn(d)) \in Nat
           /\ Cardinality(Clear(FreeMap(d))) \in Nat
           /\ Cardinality(Clear(FreeMap(d))) = NumSectors - 5 - Cardinality(PlacesOn(d))
  <1> DEFINE S == SpecialSectors(d)
             O == OwnedOn(d)
             C == Clear(FreeMap(d))
  <1>1. IsFiniteSet(S) /\ Cardinality(S) = 5 /\ S \subseteq SectorNumbers
    BY FiveSpecial, SpecialIs DEF GoodDisk
  <1>2. IsFiniteSet(O) /\ Cardinality(PlacesOn(d)) = Cardinality(O) /\ O \subseteq SectorNumbers
    BY AsManySectors, OwnedFacts DEF OwnedOn
  <1>3. S \cap O = {} /\ FreeMap(d) = S \cup O
    <2>1. S \cap O = {}
      BY OwnedFacts DEF OwnedOn
    <2>2. FreeMap(d) = S \cup O
      BY DEF GoodDisk, MapExact, OwnedOn
    <2> QED BY <2>1, <2>2
  <1>4. IsFiniteSet(C) /\ C = SectorNumbers \ (S \cup O)
    BY <1>3, ClearFacts DEF Clear
  <1> HIDE DEF S, O, C
  <1>5. Cardinality(S \cup O) = 5 + Cardinality(O) /\ IsFiniteSet(S \cup O)
    BY <1>1, <1>2, <1>3, CardinalityOfBoth
  <1>6. C \cup (S \cup O) = SectorNumbers /\ C \cap (S \cup O) = {}
    BY <1>1, <1>2, <1>4
  <1>7. NumSectors = Cardinality(C) + Cardinality(S \cup O)
    <2>1. Cardinality(C \cup (S \cup O)) = Cardinality(C) + Cardinality(S \cup O)
      BY <1>4, <1>5, <1>6, CardinalityOfBoth
    <2> QED BY <1>6, <2>1, SectorNumberFacts
  <1>8. Cardinality(C) \in Nat /\ Cardinality(O) \in Nat
    BY <1>2, <1>4, FS_CardinalityType
  <1>9. NumSectors \in Nat
    BY FileSystemAssumption
  <1>10. Cardinality(C) = NumSectors - 5 - Cardinality(O)
    BY <1>5, <1>7, <1>8, <1>9
  <1> QED BY <1>2, <1>8, <1>10 DEF C

\* Allocate finds the sectors for the data beside that for the header.
LEMMA EnoughSectors ==
    ASSUME NEW d, GoodDisk(d), NEW size \in Nat
    PROVE  /\ Clear(FreeMap(d)) # {}
           /\ Allocates(FreeMap(d) \cup {Min(Clear(FreeMap(d)))}, size)
           <=> Cardinality(PlacesOn(d)) + 1 + SectorsFor(size) <= NumSectors - 5
  <1> DEFINE C == Clear(FreeMap(d))
             m == Min(C)
             p == Cardinality(PlacesOn(d))
             q == SectorsFor(size)
  <1>1. q \in Nat /\ p \in Nat /\ Cardinality(C) \in Nat /\ NumSectors \in Nat
        /\ Cardinality(C) = NumSectors - 5 - p
    BY ClearSectors, RoundUpFacts, FileSystemAssumption DEF SectorsFor
  <1>2. IsFiniteSet(C) /\ C \subseteq Nat
    BY ClearFacts
  <1>3. Clear(FreeMap(d) \cup {m}) = C \ {m}
    BY DEF Clear
  <1>4. Allocates(FreeMap(d) \cup {m}, size) <=> Cardinality(C \ {m}) >= q
    <2> HIDE DEF C, m
    <2> QED BY <1>3 DEF Allocates, SectorsFor
  <1> HIDE DEF C, m, p, q
  <1>5. CASE C = {}
    <2>1. Cardinality(C) = 0
      BY <1>5, FS_EmptySet
    <2> QED BY <1>1, <1>5, <2>1 DEF C, m, p, q
  <1>6. CASE C # {}
    <2>1. m \in C
      BY <1>2, <1>6, MinOf DEF m
    <2>2. Cardinality(C \ {m}) = Cardinality(C) - 1
      BY <1>2, <2>1, FS_RemoveElement
    <2>3. Cardinality(C \ {m}) >= q <=> p + 1 + q <= NumSectors - 5
      BY <1>1, <2>2
    <2> QED BY <1>4, <1>6, <2>3 DEF C, m, p, q
  <1> QED BY <1>5, <1>6

\* Create succeeds exactly if the name is new and there are an entry and the
\* sectors: nothing is lost to files that are gone.
LEMMA CreatesIfFits ==
    ASSUME NEW d, GoodDisk(d), NEW name, NEW size \in Nat
    PROVE  CanCreate(d, name, size) <=> Files!Fits(FilesOn(d), Short(name), size)
  <1>1. DOMAIN FilesOn(d) = NamesOn(d)
    BY DEF FilesOn, NamesOn
  <1>2. Files!Used(FilesOn(d)) = Cardinality(PlacesOn(d))
    BY <1>1, SameCardinality, Zenon DEF Files!Used, PlacesOn
  <1>3. FindIndex(Directory(d), name) = {} <=> Short(name) \notin NamesOn(d)
    <2>1. CASE \E i \in Listed(d) : Directory(d)[i].name = Short(name)
      BY <2>1, FindListed DEF NamesOn
    <2>2. CASE \A i \in Listed(d) : Directory(d)[i].name # Short(name)
      BY <2>2, FindUnlisted DEF NamesOn
    <2> QED BY <2>1, <2>2
  <1>4. FreeEntries(Directory(d)) # {} <=> Cardinality(NamesOn(d)) < NumDirEntries
    BY EntriesUsed
  <1>5. /\ Clear(FreeMap(d)) # {}
        /\ Allocates(FreeMap(d) \cup {Min(Clear(FreeMap(d)))}, size)
        <=> Files!Used(FilesOn(d)) + 1 + SectorsFor(size) <= NumSectors - 5
    BY <1>2, EnoughSectors
  <1>6. Files!Fits(FilesOn(d), Short(name), size)
          <=> /\ Short(name) \notin NamesOn(d)
              /\ Cardinality(NamesOn(d)) < NumDirEntries
              /\ Files!Used(FilesOn(d)) + 1 + SectorsFor(size) <= NumSectors - 5
    BY <1>1, SameCardinality, Zenon DEF Files!Fits
  <1> QED BY <1>3, <1>4, <1>5, <1>6, Zenon DEF CanCreate

-----------------------------------------------------------------------------
(* The bytes on a disk *)

AnyByte == Bytes \cup {Junk}
Block == [1..SectorSize -> AnyByte]

\* What is read of a sector is what somebody wrote, or what nobody did.
AllBytes(d) == \A s \in SectorNumbers : BytesIn(d[s]) \in Block

LEMMA NoData ==
    ASSUME NEW c, c.is # "data"
    PROVE  BytesIn(c) \in Block
  BY DEF BytesIn, Block, AnyByte

LEMMA WritesKeepBytes ==
    ASSUME NEW d, AllBytes(d), NEW w, WriteSequence(w),
           \A k \in DOMAIN w : BytesIn(w[k][2]) \in Block
    PROVE  AllBytes(Settled(d, w))
  <1> SUFFICES ASSUME NEW s \in SectorNumbers PROVE BytesIn(Settled(d, w)[s]) \in Block
    BY DEF AllBytes
  <1>1. CASE \E k \in DOMAIN w : w[k][1] = s
    <2>1. PICK k \in DOMAIN w : w[k][1] = s
      BY <1>1
    <2>2. Settled(d, w)[s] = w[k][2]
      BY <2>1, SettledAt
    <2> QED BY <2>2
  <1>2. CASE \A k \in DOMAIN w : w[k][1] # s
    <2>1. Settled(d, w)[s] = d[s]
      BY <1>2, SettledAt
    <2> QED BY <2>1 DEF AllBytes
  <1> QED BY <1>1, <1>2

LEMMA CreationBytes ==
    ASSUME NEW d, GoodDisk(d), NEW name, Short(name) \in StoredNames, NEW size \in Nat,
           CanCreate(d, name, size), ~TooLong(size), AllBytes(d)
    PROVE  AllBytes(Settled(d, Creation(d, name, size)))
  <1> DEFINE c1 == NewHeader(d, size)
             c2 == FirstPart(NewTable(d, name))
             c3 == SecondPart(NewTable(d, name))
             c4 == MapOf(NewMap(d, size))
             x1 == NewSector(d)
             x2 == DirectorySectors(d)[1]
             x3 == DirectorySectors(d)[2]
             x4 == MapSector(d)
             w == << <<x1, c1>>, <<x2, c2>>, <<x3, c3>>, <<x4, c4>> >>
  <1>1. WriteSequence(Creation(d, name, size)) /\ Creation(d, name, size) = w
    BY CreationWrites, CreationIs
  <1>2. c1.is = "header"
    BY NewFacts DEF IsHeader, HeaderOf
  <1>3. c2.is = "directory" /\ c3.is = "directory" /\ c4.is = "map"
    BY DEF FirstPart, SecondPart, MapOf
  <1> HIDE DEF c1, c2, c3, c4, x1, x2, x3, x4
  <1>4. /\ BytesIn(c1) \in Block /\ BytesIn(c2) \in Block
        /\ BytesIn(c3) \in Block /\ BytesIn(c4) \in Block
    BY <1>2, <1>3, NoData
  <1>5. DOMAIN w = 1..4
        /\ w[1][2] = c1 /\ w[2][2] = c2 /\ w[3][2] = c3 /\ w[4][2] = c4
    OBVIOUS
  <1> HIDE DEF w
  <1>6. ASSUME NEW k \in DOMAIN w PROVE BytesIn(w[k][2]) \in Block
    <2>1. k = 1 \/ k = 2 \/ k = 3 \/ k = 4
      BY <1>5
    <2> QED BY <1>4, <1>5, <2>1
  <1>7. AllBytes(Settled(d, w))
    BY <1>1, <1>6, WritesKeepBytes
  <1> QED BY <1>1, <1>7

LEMMA RemovalBytes ==
    ASSUME NEW d, GoodDisk(d), NEW name, NEW r \in Listed(d),
           FindIndex(Directory(d), name) = {r}, AllBytes(d)
    PROVE  AllBytes(Settled(d, Removal(d, name)))
  <1> DEFINE c1 == MapOf(RemovedMap(d, r))
             c2 == FirstPart(RemovedTable(d, r))
             c3 == SecondPart(RemovedTable(d, r))
             x1 == MapSector(d)
             x2 == DirectorySectors(d)[1]
             x3 == DirectorySectors(d)[2]
             w == << <<x1, c1>>, <<x2, c2>>, <<x3, c3>> >>
  <1>1. WriteSequence(Removal(d, name)) /\ Removal(d, name) = w
    BY RemovalWrites, RemovalIs
  <1>2. c2.is = "directory" /\ c3.is = "directory" /\ c1.is = "map"
    BY DEF FirstPart, SecondPart, MapOf
  <1> HIDE DEF c1, c2, c3, x1, x2, x3
  <1>3. BytesIn(c1) \in Block /\ BytesIn(c2) \in Block /\ BytesIn(c3) \in Block
    BY <1>2, NoData
  <1>4. DOMAIN w = 1..3 /\ w[1][2] = c1 /\ w[2][2] = c2 /\ w[3][2] = c3
    OBVIOUS
  <1> HIDE DEF w
  <1>5. ASSUME NEW k \in DOMAIN w PROVE BytesIn(w[k][2]) \in Block
    <2>1. k = 1 \/ k = 2 \/ k = 3
      BY <1>4
    <2> QED BY <1>3, <1>4, <2>1
  <1>6. AllBytes(Settled(d, w))
    BY <1>1, <1>5, WritesKeepBytes
  <1> QED BY <1>1, <1>6

\* A position of a file is in a sector and at an offset in it.
LEMMA ByteAtTyped ==
    ASSUME NEW d, AllBytes(d), NEW hdr, IsHeader(hdr), NEW p \in Nat, p < hdr.numBytes
    PROVE  ByteAt(d, hdr, p) \in AnyByte
  <1> DEFINE s == ByteToSector(hdr, p)
             o == p % SectorSize
  <1>1. s \in SectorNumbers
    <2>1. /\ hdr.numBytes \in Nat
          /\ hdr.dataSectors \in [1..divRoundUp(hdr.numBytes, SectorSize) -> SectorNumbers]
      BY DEF IsHeader
    <2>2. p \div SectorSize + 1 \in 1..divRoundUp(hdr.numBytes, SectorSize)
      BY <2>1, RoundUpFacts
    <2> QED BY <2>1, <2>2 DEF ByteToSector
  <1>2. o + 1 \in 1..SectorSize
    <2>1. o \in Nat /\ o < SectorSize
      BY PartAndOffset
    <2>2. SectorSize \in Nat
      BY FileSystemAssumption
    <2> QED BY <2>1, <2>2
  <1>3. BytesIn(d[s]) \in [1..SectorSize -> AnyByte]
    BY <1>1 DEF AllBytes, Block
  <1>4. ByteAt(d, hdr, p) = BytesIn(d[s])[o + 1]
    BY Zenon DEF ByteAt
  <1> QED BY <1>2, <1>3, <1>4

LEMMA WholeFileTyped ==
    ASSUME NEW d, GoodDisk(d), AllBytes(d), NEW i \in Listed(d)
    PROVE  WholeFile(d, i) \in AnyBytes(HeaderAt(d, i).numBytes)
  <1> DEFINE hdr == HeaderAt(d, i)
  <1>1. IsHeader(hdr) /\ hdr.numBytes \in Nat
        /\ WholeFile(d, i) = [k \in 1..hdr.numBytes |-> ByteAt(d, hdr, k - 1)]
    BY WholeFileIs
  <1> HIDE DEF hdr
  <1>2. ASSUME NEW k \in 1..hdr.numBytes PROVE ByteAt(d, hdr, k - 1) \in AnyByte
    <2>1. k - 1 \in Nat /\ k - 1 < hdr.numBytes
      BY <1>1
    <2> QED BY <1>1, <2>1, ByteAtTyped
  <1>3. WholeFile(d, i) \in [1..hdr.numBytes -> AnyByte]
    BY <1>1, <1>2
  <1> QED BY <1>3 DEF AnyBytes, AnyByte, hdr

LEMMA WriteBytes ==
    ASSUME NEW d, AllBytes(d), NEW hdr, IsHeader(hdr), NEW from \in Seq(Bytes),
           NEW position \in Nat
    PROVE  AllBytes(Settled(d, WriteAt(d, hdr, from, position)))
  <1> DEFINE n == InFile(hdr, Len(from), position)
             w == WriteAt(d, hdr, from, position)
             first == position \div SectorSize
             last == (position + n - 1) \div SectorSize
  <1>1. Len(from) \in Nat /\ DOMAIN from = 1..Len(from)
    BY LenProperties
  <1>2. WriteSequence(w)
    BY <1>1, WriteAtWrites
  <1>3. n \in Nat /\ n <= Len(from) /\ hdr.numBytes \in Nat
    <2>1. hdr.numBytes \in Nat
      BY DEF IsHeader
    <2> QED BY <1>1, <2>1 DEF InFile, SmallerOf
  <1>4. CASE n = 0
    <2>1. w = <<>>
      BY <1>4, Zenon DEF WriteAt
    <2>2. DOMAIN w = {}
      BY <2>1, EmptySeq
    <2> HIDE DEF w
    <2>3. AllBytes(Settled(d, w))
      BY <1>2, <2>2, WritesKeepBytes
    <2> QED BY <2>3 DEF w
  <1>5. CASE n # 0
    <2>1. WritesParts(d, hdr, from, position, n, first, last, w)
      BY <1>1, <1>5, WriteAtParts
    <2> HIDE DEF w, first, last, n
    <2>2. ASSUME NEW k \in DOMAIN w PROVE BytesIn(w[k][2]) \in Block
      <3> DEFINE g(b) == BufferAt(d, hdr, from, position, n, (first + k - 1) * SectorSize + b - 1)
      <3>1. w[k][2] = Data([b \in 1..SectorSize |-> g(b)])
        BY <2>1, <2>2 DEF WritesParts
      <3>2. BytesIn(w[k][2]) = [b \in 1..SectorSize |-> g(b)]
        <4> HIDE DEF g
        <4> QED BY <3>1 DEF BytesIn, Data
      <3>3. ASSUME NEW b \in 1..SectorSize PROVE g(b) \in AnyByte
        <4> DEFINE p == (first + k - 1) * SectorSize + b - 1
        <4>1. p \in Nat
          <5>1. first + k - 1 \in Nat /\ SectorSize \in Nat
            BY <2>1, FileSystemAssumption DEF WritesParts
          <5>2. (first + k - 1) * SectorSize \in Nat
            <6> DEFINE q == first + k - 1
            <6> HIDE DEF q
            <6>1. q \in Nat => q * SectorSize \in Nat
              BY <5>1
            <6> QED BY <5>1, <6>1 DEF q
          <5> QED BY <5>2
        <4>2. g(b) = BufferAt(d, hdr, from, position, n, p)
          OBVIOUS
        <4> HIDE DEF p, g
        <4>3. CASE p \in position..position + n - 1
          <5>1. p - position + 1 \in DOMAIN from
            BY <1>1, <1>3, <4>3
          <5>2. from[p - position + 1] \in Bytes
            BY <5>1, ElementOfSeq, <1>1
          <5> QED BY <4>2, <4>3, <5>2 DEF BufferAt, AnyByte
        <4>4. CASE p \notin position..position + n - 1 /\ p < hdr.numBytes
          <5>1. ByteAt(d, hdr, p) \in AnyByte
            BY <4>1, <4>4, ByteAtTyped
          <5> QED BY <4>2, <4>4, <5>1 DEF BufferAt, AnyByte
        <4>5. CASE p \notin position..position + n - 1 /\ ~(p < hdr.numBytes)
          BY <4>2, <4>5 DEF BufferAt, AnyByte
        <4> QED BY <4>3, <4>4, <4>5
      <3> HIDE DEF g
      <3> QED BY <3>2, <3>3 DEF Block
    <2>3. AllBytes(Settled(d, w))
      BY <1>2, <2>2, WritesKeepBytes
    <2> QED BY <2>3 DEF w
  <1> QED BY <1>4, <1>5

-----------------------------------------------------------------------------
(* What the operations make of the files *)

\* A file whose entry and sectors are kept.
LEMMA KeptFile ==
    ASSUME NEW d, GoodDisk(d), NEW e, GoodDisk(e), NEW i \in Listed(d), i \in Listed(e),
           Directory(e)[i] = Directory(d)[i], \A s \in OwnedBy(d, i) : e[s] = d[s]
    PROVE  /\ FilesOn(e)[Directory(d)[i].name] = FilesOn(d)[Directory(d)[i].name]
           /\ NameOf(e, Directory(d)[i].sector) = NameOf(d, Directory(d)[i].sector)
  <1>1. HeaderAt(e, i) = HeaderAt(d, i) /\ IsHeader(HeaderAt(d, i))
    BY OwnedFacts DEF HeaderAt
  <1>2. \A s \in Range(HeaderAt(d, i).dataSectors) : e[s] = d[s]
    BY OwnedFacts DEF HeaderAt
  <1>3. WholeFile(e, i) = WholeFile(d, i)
    BY <1>1, <1>2, ReadAtSame DEF WholeFile
  <1>4. FilesOn(e)[Directory(e)[i].name] = WholeFile(e, i)
    BY FilesOnAt
  <1>5. FilesOn(d)[Directory(d)[i].name] = WholeFile(d, i)
    BY FilesOnAt
  <1>6. NameOf(e, Directory(e)[i].sector) = Directory(e)[i].name
    BY NameOfAt
  <1>7. NameOf(d, Directory(d)[i].sector) = Directory(d)[i].name
    BY NameOfAt
  <1> QED BY <1>3, <1>4, <1>5, <1>6, <1>7

LEMMA FilesAfterCreate ==
    ASSUME NEW d, GoodDisk(d), NEW name, Short(name) \in StoredNames, NEW size \in Nat,
           CanCreate(d, name, size), ~TooLong(size), AllBytes(d),
           NEW e, e = Settled(d, Creation(d, name, size))
    PROVE  /\ NamesOn(e) = NamesOn(d) \cup {Short(name)}
           /\ FilesOn(e)[Short(name)] \in AnyBytes(size)
           /\ \A i \in Listed(d) :
                /\ FilesOn(e)[Directory(d)[i].name] = FilesOn(d)[Directory(d)[i].name]
                /\ NameOf(e, Directory(d)[i].sector) = NameOf(d, Directory(d)[i].sector)
  <1> DEFINE a == NewEntry(d)
  <1>1. GoodDisk(e) /\ AllBytes(e)
    BY CreationGood, CreationBytes
  <1>2. Listed(e) = Listed(d) \cup {a}
    BY CreatedFiles
  <1>3. e[NewSector(d)] = NewHeader(d, size)
    BY CreatedFiles
  <1>4. ASSUME NEW i \in Listed(d)
        PROVE  i \in Listed(e) /\ Directory(e)[i] = Directory(d)[i]
    BY <1>2, CreatedFiles
  <1>5. Directory(e)[a] = [inUse |-> TRUE, sector |-> NewSector(d), name |-> Short(name)]
    BY CreationResult, NewEntryFacts
  <1>6. NewHeader(d, size).numBytes = size
    BY NewFacts
  <1> HIDE DEF a
  <1>7. a \in Listed(e) /\ Directory(e)[a].name = Short(name) /\ HeaderAt(e, a).numBytes = size
    BY <1>2, <1>3, <1>5, <1>6 DEF HeaderAt
  <1>8. NamesOn(e) = NamesOn(d) \cup {Short(name)}
    BY <1>2, <1>4, <1>7 DEF NamesOn
  <1>9. FilesOn(e)[Short(name)] \in AnyBytes(size)
    <2>1. FilesOn(e)[Directory(e)[a].name] = WholeFile(e, a)
      BY <1>1, <1>7, FilesOnAt
    <2>2. WholeFile(e, a) \in AnyBytes(HeaderAt(e, a).numBytes)
      BY <1>1, <1>7, WholeFileTyped
    <2> QED BY <1>7, <2>1, <2>2
  <1>10. ASSUME NEW i \in Listed(d)
         PROVE  /\ FilesOn(e)[Directory(d)[i].name] = FilesOn(d)[Directory(d)[i].name]
                /\ NameOf(e, Directory(d)[i].sector) = NameOf(d, Directory(d)[i].sector)
    <2>1. \A s \in SectorNumbers : s \notin SpecialSectors(d) /\ s # NewSector(d) => e[s] = d[s]
      BY CreationResult
    <2>2. /\ OwnedBy(d, i) \subseteq SectorNumbers /\ OwnedBy(d, i) \subseteq FreeMap(d)
          /\ OwnedBy(d, i) \cap SpecialSectors(d) = {}
      BY OwnedFacts
    <2>3. NewSector(d) \notin FreeMap(d)
      BY NewFacts
    <2>4. \A s \in OwnedBy(d, i) : e[s] = d[s]
      BY <2>1, <2>2, <2>3
    <2> QED BY <1>1, <1>4, <2>4, KeptFile
  <1> QED BY <1>8, <1>9, <1>10

LEMMA FilesAfterRemove ==
    ASSUME NEW d, GoodDisk(d), NEW name, NEW r \in Listed(d), Directory(d)[r].name = Short(name),
           FindIndex(Directory(d), name) = {r},
           NEW e, e = Settled(d, Removal(d, name))
    PROVE  /\ NamesOn(e) = NamesOn(d) \ {Short(name)}
           /\ \A i \in Listed(d) : i # r =>
                /\ FilesOn(e)[Directory(d)[i].name] = FilesOn(d)[Directory(d)[i].name]
                /\ NameOf(e, Directory(d)[i].sector) = NameOf(d, Directory(d)[i].sector)
  <1>1. GoodDisk(e)
    BY RemovalGood
  <1>2. Listed(e) = Listed(d) \ {r}
    BY RemovedFiles
  <1>3. \A i \in Listed(e) : Directory(e)[i] = Directory(d)[i]
    BY RemovedFiles
  <1>4. \A i, j \in Listed(d) : i # j => Directory(d)[i].name # Directory(d)[j].name
    BY DEF GoodDisk, FilesApart
  <1>5. NamesOn(e) = NamesOn(d) \ {Short(name)}
    <2>1. NamesOn(e) = {Directory(d)[i].name : i \in Listed(d) \ {r}}
      BY <1>2, <1>3 DEF NamesOn
    <2> QED BY <1>4, <2>1 DEF NamesOn
  <1>6. ASSUME NEW i \in Listed(d), i # r
        PROVE  /\ FilesOn(e)[Directory(d)[i].name] = FilesOn(d)[Directory(d)[i].name]
               /\ NameOf(e, Directory(d)[i].sector) = NameOf(d, Directory(d)[i].sector)
    <2>1. \A s \in SectorNumbers : s \notin SpecialSectors(d) => e[s] = d[s]
      BY RemovalResult
    <2>2. OwnedBy(d, i) \subseteq SectorNumbers /\ OwnedBy(d, i) \cap SpecialSectors(d) = {}
      BY OwnedFacts
    <2>3. \A s \in OwnedBy(d, i) : e[s] = d[s]
      BY <2>1, <2>2
    <2>4. i \in Listed(e)
      BY <1>2, <1>6
    <2> QED BY <1>1, <1>3, <2>3, <2>4, KeptFile
  <1> QED BY <1>5, <1>6

\* What a file is once m bytes of from are written at a position.
NewBytes(hdr, bytes, from, position, m) ==
  [k \in 1..hdr.numBytes |->
     IF k - 1 \in position..position + m - 1 THEN from[k - 1 - position + 1] ELSE bytes[k]]

\* A write of m bytes to file r, which leaves all names and the other files.
WriteOf(d, r, from, position, m, e) ==
  /\ NamesOn(e) = NamesOn(d)
  /\ FilesOn(e)[Directory(d)[r].name]
       = NewBytes(HeaderAt(d, r), FilesOn(d)[Directory(d)[r].name], from, position, m)
  /\ \A i \in Listed(d) : i # r =>
       FilesOn(e)[Directory(d)[i].name] = FilesOn(d)[Directory(d)[i].name]
  /\ \A i \in Listed(d) : NameOf(e, Directory(d)[i].sector) = NameOf(d, Directory(d)[i].sector)

LEMMA FilesAfterWrite ==
    ASSUME NEW d, GoodDisk(d), NEW r \in Listed(d), NEW from, Len(from) \in Nat,
           NEW position \in Nat,
           NEW n, n = InFile(HeaderAt(d, r), Len(from), position),
           NEW e, e = Settled(d, WriteAt(d, HeaderAt(d, r), from, position))
    PROVE  WriteOf(d, r, from, position, n, e)
  <1>1. IsHeader(HeaderAt(d, r)) /\ HeaderAt(d, r).numBytes \in Nat
    BY WholeFileIs
  <1>2. \A s \in SectorNumbers : s \notin Range(HeaderAt(d, r).dataSectors) => e[s] = d[s]
    BY <1>1, WriteLeaves
  <1>3. IsDisk(e)
    BY <1>1, WriteLeaves
  <1> DEFINE hdr == HeaderAt(d, r)
             name == Directory(d)[r].name
  <1>4. GoodDisk(e) /\ Directory(e) = Directory(d)
        /\ \A i \in Listed(d) : e[Directory(d)[i].sector] = d[Directory(d)[i].sector]
    BY <1>2, <1>3, DataWritten DEF HeaderAt
  <1>5. Listed(e) = Listed(d) /\ HeaderAt(e, r) = hdr
    BY <1>4 DEF Listed, HeaderAt
  <1>6. NamesOn(e) = NamesOn(d)
    BY <1>4, <1>5 DEF NamesOn
  <1>7. FilesOn(e)[name] = [k \in 1..hdr.numBytes |-> ByteAt(e, hdr, k - 1)]
        /\ FilesOn(d)[name] = [k \in 1..hdr.numBytes |-> ByteAt(d, hdr, k - 1)]
    <2>1. FilesOn(e)[name] = WholeFile(e, r)
      BY <1>4, <1>5, FilesOnAt
    <2>2. FilesOn(d)[name] = WholeFile(d, r)
      BY FilesOnAt
    <2>3. WholeFile(e, r) = [k \in 1..hdr.numBytes |-> ByteAt(e, hdr, k - 1)]
      BY <1>4, <1>5, WholeFileIs
    <2>4. WholeFile(d, r) = [k \in 1..hdr.numBytes |-> ByteAt(d, hdr, k - 1)]
      BY WholeFileIs
    <2> QED BY <2>1, <2>2, <2>3, <2>4
  <1> HIDE DEF hdr, name
  <1>8. ASSUME NEW k \in 1..hdr.numBytes
        PROVE  ByteAt(e, hdr, k - 1)
                 = IF k - 1 \in position..position + n - 1 THEN from[k - 1 - position + 1]
                   ELSE FilesOn(d)[name][k]
    <2>1. k - 1 \in Nat /\ k - 1 < hdr.numBytes
      BY <1>1 DEF hdr
    <2>2. ByteAt(e, hdr, k - 1) = IF k - 1 \in position..position + n - 1
                                    THEN from[k - 1 - position + 1] ELSE ByteAt(d, hdr, k - 1)
      BY <1>1, <2>1, WriteAtBytes DEF hdr
    <2> QED BY <1>7, <2>2
  <1>9. FilesOn(e)[name] = [k \in 1..hdr.numBytes |->
                     IF k - 1 \in position..position + n - 1 THEN from[k - 1 - position + 1]
                     ELSE FilesOn(d)[name][k]]
    BY <1>7, <1>8
  <1>10. ASSUME NEW i \in Listed(d), i # r
        PROVE  FilesOn(e)[Directory(d)[i].name] = FilesOn(d)[Directory(d)[i].name]
    <2>1. OwnedBy(d, i) \cap OwnedBy(d, r) = {}
      BY <1>10 DEF GoodDisk, FilesApart
    <2>2. Range(hdr.dataSectors) \subseteq OwnedBy(d, r) /\ OwnedBy(d, i) \subseteq SectorNumbers
      BY OwnedFacts DEF hdr, HeaderAt
    <2>3. \A s \in OwnedBy(d, i) : e[s] = d[s]
      BY <1>2, <2>1, <2>2 DEF hdr
    <2> QED BY <1>4, <1>5, <2>3, KeptFile
  <1>11. ASSUME NEW i \in Listed(d)
         PROVE  NameOf(e, Directory(d)[i].sector) = NameOf(d, Directory(d)[i].sector)
    <2>1. NameOf(e, Directory(e)[i].sector) = Directory(e)[i].name
      BY <1>4, <1>5, NameOfAt
    <2>2. NameOf(d, Directory(d)[i].sector) = Directory(d)[i].name
      BY NameOfAt
    <2> QED BY <1>4, <2>1, <2>2
  <1> QED BY <1>6, <1>9, <1>10, <1>11 DEF hdr, name, WriteOf, NewBytes

-----------------------------------------------------------------------------
(* Nothing is on the disk but what was written *)

BytesInv == misused \/ AllBytes(Settled(image, pending))

LEMMA FormattedBytes == AllBytes(Formatted)
  <1> DEFINE h == WithHeaders
             w == FormattingWrites
  <1>1. AllBytes(h)
    <2> SUFFICES ASSUME NEW s \in SectorNumbers PROVE BytesIn(h[s]) \in Block
      BY DEF AllBytes
    <2>1. CASE s = FreeMapSector \/ s = DirectorySector
      <3>1. h[s] = MapHeader \/ h[s] = DirectoryHeader
        BY <2>1, FormattingFacts
      <3>2. MapHeader.is # "data" /\ DirectoryHeader.is # "data"
        BY MapHeaderFacts, DirectoryHeaderFacts DEF IsHeader, HeaderOf
      <3> QED BY <3>1, <3>2, NoData
    <2>2. CASE s # FreeMapSector /\ s # DirectorySector
      <3>1. h[s] = Data([k \in 1..SectorSize |-> Junk])
        BY <2>2 DEF WithHeaders
      <3> QED BY <3>1 DEF Data, BytesIn, Block, AnyByte
    <2> QED BY <2>1, <2>2
  <1>2. ASSUME NEW k \in DOMAIN w PROVE BytesIn(w[k][2]) \in Block
    <2>1. /\ DOMAIN w = {1, 2, 3}
          /\ w[1][2] = MapOf(MarkedThen)
          /\ w[2][2] = FirstPart(EmptyTable)
          /\ w[3][2] = SecondPart(EmptyTable)
      BY FormattingFacts
    <2>2. /\ MapOf(MarkedThen).is # "data"
          /\ FirstPart(EmptyTable).is # "data"
          /\ SecondPart(EmptyTable).is # "data"
      BY DEF MapOf, FirstPart, SecondPart
    <2>3. w[k][2].is # "data"
      <3> HIDE DEF w
      <3>1. k = 1 \/ k = 2 \/ k = 3
        BY <2>1
      <3> QED BY <2>1, <2>2, <3>1
    <2> HIDE DEF w
    <2> QED BY <2>3, NoData
  <1>3. WriteSequence(w) /\ Formatted = Settled(h, w)
    BY FormattingFacts
  <1> HIDE DEF h, w
  <1> QED BY <1>1, <1>2, <1>3, WritesKeepBytes

LEMMA InitialBytes == FSInit => BytesInv
  <1> SUFFICES ASSUME FSInit PROVE BytesInv
    OBVIOUS
  <1>1. image = InitialDisk2 /\ pending = <<>>
    BY Zenon DEF FSInit, InitialDisk1, InitialDisk2
  <1>2. AllBytes(InitialDisk1)
    BY InitialCreates, SizesInSectors, FormattedBytes, CreationBytes DEF InitialDisk1
  <1>3. AllBytes(InitialDisk2)
    BY <1>2, InitialCreates, SizesInSectors, CreationBytes DEF InitialDisk2
  <1>4. Settled(image, pending) = image
    BY <1>1, InitialGood, NoWrites DEF GoodDisk
  <1> QED BY <1>1, <1>3, <1>4 DEF BytesInv

\* What an operation starts from.
LEMMA QuietBytes ==
    ASSUME IInv, BytesInv, Ready
    PROVE  /\ AllBytes(image) /\ GoodDisk(image) /\ Settled(image, pending) = image
           /\ removed \in BOOLEAN /\ HandleOK(handle, removed, image)
  BY QuietGood DEF IInv, HandleInv, BytesInv, Ready

LEMMA CreateBytes ==
    ASSUME IInv, BytesInv, NEW name \in FileNames, NEW size \in Sizes, Create(name, size)
    PROVE  BytesInv'
  <1>1. Ready /\ UNCHANGED image
    BY DEF Create
  <1>2. PICK d : d = image
    OBVIOUS
  <1>3. AllBytes(d) /\ GoodDisk(d)
    BY <1>1, <1>2, QuietBytes
  <1>4. CASE CanCreate(image, name, size) /\ ~TooLong(size)
    <2>1. Short(name) \in StoredNames /\ size \in Nat
      BY NamesStored, FileSystemAssumption
    <2>2. pending' = Creation(d, name, size)
      BY <1>2, <1>4 DEF Create
    <2>3. AllBytes(Settled(d, Creation(d, name, size)))
      BY <1>2, <1>3, <1>4, <2>1, CreationBytes
    <2> QED BY <1>1, <1>2, <2>2, <2>3 DEF BytesInv
  <1>5. CASE CanCreate(image, name, size) /\ TooLong(size)
    BY <1>5 DEF Create, BytesInv
  <1>6. CASE ~CanCreate(image, name, size)
    <2>1. pending' = pending /\ ~misused
      BY <1>1, <1>6 DEF Create, Ready, Quiet
    <2> QED BY <1>1, <2>1 DEF BytesInv
  <1> QED BY <1>4, <1>5, <1>6

LEMMA RemoveBytes ==
    ASSUME IInv, BytesInv, NEW name \in FileNames, Remove(name)
    PROVE  BytesInv'
  <1>1. Ready /\ UNCHANGED <<image, misused>>
    BY DEF Remove
  <1>2. PICK d : d = image
    OBVIOUS
  <1>3. AllBytes(d) /\ GoodDisk(d)
    BY <1>1, <1>2, QuietBytes
  <1>4. CASE Find(image, name) # {}
    <2>1. PICK r \in Listed(d) : FindIndex(Directory(d), name) = {r}
      BY <1>2, <1>3, <1>4, FoundListed
    <2>2. pending' = Removal(d, name)
      BY <1>2, <1>4 DEF Remove
    <2>3. AllBytes(Settled(d, Removal(d, name)))
      BY <1>3, <2>1, RemovalBytes
    <2> QED BY <1>1, <1>2, <2>2, <2>3 DEF BytesInv
  <1>5. CASE Find(image, name) = {}
    <2>1. pending' = pending
      BY <1>1, <1>5 DEF Remove, Ready, Quiet
    <2> QED BY <1>1, <2>1 DEF BytesInv
  <1> QED BY <1>4, <1>5

LEMMA WritesBytes ==
    ASSUME IInv, BytesInv, NEW from \in Chunks, Write(from)
    PROVE  BytesInv'
  <1>1. Ready /\ handle # NULL /\ UNCHANGED image
    BY DEF Write
  <1>2. PICK d, h, gone : d = image /\ h = handle /\ gone = removed
    OBVIOUS
  <1>3. AllBytes(d) /\ HandleOK(h, gone, d) /\ h # NULL
    BY <1>1, <1>2, QuietBytes
  <1>4. from \in Seq(Bytes)
    BY FileSystemAssumption
  <1>5. IsHeader(h.hdr) /\ h.seekPosition \in Nat
    BY <1>3 DEF HandleOK
  <1>6. pending' = WriteAt(d, h.hdr, from, h.seekPosition)
    BY <1>2 DEF Write
  <1>7. AllBytes(Settled(d, WriteAt(d, h.hdr, from, h.seekPosition)))
    BY <1>3, <1>4, <1>5, WriteBytes
  <1> QED BY <1>1, <1>2, <1>6, <1>7 DEF BytesInv

LEMMA WriteSectorBytes ==
    ASSUME IInv, BytesInv, WriteSector
    PROVE  BytesInv'
  <1>1. misused' = misused
    BY DEF WriteSector
  <1>2. CASE ~misused
    <2>1. PICK d, w, k : Underway(d, w, k)
      BY <1>2 DEF IInv, DiskInv
    <2>2. Settled(image, pending)' = Settled(image, pending)
      BY <2>1, Continues
    <2> QED BY <1>1, <2>2 DEF BytesInv
  <1> QED BY <1>1, <1>2 DEF BytesInv

LEMMA FileSystemNextBytes ==
    ASSUME IInv, BytesInv, [FSNext]_fsVars
    PROVE  BytesInv'
  <1>1. ASSUME UNCHANGED <<image, pending, misused>>
        PROVE  BytesInv'
    BY <1>1 DEF BytesInv
  <1>2. CASE FSNext
    <2>1. ASSUME NEW name \in FileNames, Open(name) \/ NewOpenFile(name) PROVE BytesInv'
      BY <1>1, <2>1 DEF Open, NewOpenFile
    <2>2. ASSUME NEW n \in Counts, Read(n) PROVE BytesInv'
      BY <1>1, <2>2 DEF Read
    <2>3. ASSUME NEW p \in Positions, Seek(p) PROVE BytesInv'
      <3>1. UNCHANGED <<image, pending>> /\ ~misused
        BY <2>3 DEF Seek, Ready
      <3> QED BY <3>1 DEF BytesInv
    <2>4. ASSUME Close PROVE BytesInv'
      BY <1>1, <2>4 DEF Close
    <2> QED BY <1>2, <2>1, <2>2, <2>3, <2>4, CreateBytes, RemoveBytes, WritesBytes,
               WriteSectorBytes DEF FSNext
  <1>3. CASE UNCHANGED fsVars
    BY <1>1, <1>3 DEF fsVars
  <1> QED BY <1>2, <1>3

-----------------------------------------------------------------------------
(* The files and the open file as they are promised *)

HandleOn(h, gone, d) ==
  IF h = NULL THEN <<>>
  ELSE [file |-> IF gone THEN {} ELSE {NameOf(d, h.sector)}, position |-> h.seekPosition]

LEMMA FilesThenIs ==
  /\ ~misused => FilesThen = FilesOn(Settled(image, pending))
  /\ ~misused' => FilesThen' = FilesOn(Settled(image', pending'))
  <1>1. \A x : (CHOOSE c \in {FilesOn(d) : d \in {x}} : TRUE) = FilesOn(x)
    <2> TAKE x
    <2>1. {FilesOn(d) : d \in {x}} = {FilesOn(x)}
      OBVIOUS
    <2>2. (CHOOSE c \in {FilesOn(x)} : TRUE) \in {FilesOn(x)}
      OBVIOUS
    <2> QED BY <2>1, <2>2
  <1>2. ~misused => FilesThen = FilesOn(Settled(image, pending))
    BY <1>1 DEF FilesThen
  <1>3. ~misused' => FilesThen' = FilesOn(Settled(image', pending'))
    BY <1>1 DEF FilesThen
  <1> QED BY <1>2, <1>3

LEMMA HandleThenIs ==
  /\ ~misused => HandleThen = HandleOn(handle, removed, Settled(image, pending))
  /\ ~misused' => HandleThen' = HandleOn(handle', removed', Settled(image', pending'))
  BY DEF HandleThen, HandleOn

\* A record is not the empty sequence, which stands for no open file.
LEMMA NotNoFile ==
    ASSUME NEW a, NEW b
    PROVE  [file |-> a, position |-> b] # <<>>
  <1> SUFFICES ASSUME [file |-> a, position |-> b] = <<>> PROVE FALSE
    OBVIOUS
  <1>1. "file" \in DOMAIN [file |-> a, position |-> b]
    OBVIOUS
  <1>2. DOMAIN <<>> = {}
    OBVIOUS
  <1> QED BY <1>1, <1>2

\* An OpenFile is not the null pointer.
LEMMA NotNull ==
    ASSUME NEW hdr, IsHeader(hdr), NEW p \in Nat, NEW s \in Nat
    PROVE  [hdr |-> hdr, seekPosition |-> p, sector |-> s] # NULL
  <1>1. /\ hdr = HeaderOf(hdr.numBytes, hdr.dataSectors)
        /\ hdr.numBytes \in Nat
        /\ hdr.dataSectors \in [1..divRoundUp(hdr.numBytes, SectorSize) -> SectorNumbers]
    BY DEF IsHeader
  <1>2. divRoundUp(hdr.numBytes, SectorSize) \in Nat
    BY <1>1, RoundUpFacts
  <1>3. hdr.dataSectors \in Seq(Nat)
    <2> DEFINE n == divRoundUp(hdr.numBytes, SectorSize)
               s1 == hdr.dataSectors
    <2>1. n \in Nat /\ s1 \in [1..n -> SectorNumbers] /\ SectorNumbers \subseteq Nat
      BY <1>1, <1>2, SectorNumberFacts
    <2> HIDE DEF n, s1
    <2>2. s1 \in [1..n -> Nat]
      BY <2>1
    <2>3. s1 \in Seq(Nat)
      BY <2>1, <2>2
    <2> QED BY <2>3 DEF s1
  <1>4. hdr \in [is : {"header"}, numBytes : Nat, dataSectors : Seq(Nat)]
    <2> DEFINE a == hdr.numBytes
               b == hdr.dataSectors
    <2>1. a \in Nat /\ b \in Seq(Nat) /\ hdr = [is |-> "header", numBytes |-> a, dataSectors |-> b]
      BY <1>1, <1>3 DEF HeaderOf
    <2> HIDE DEF a, b
    <2> QED BY <2>1
  <1>5. [hdr |-> hdr, seekPosition |-> p, sector |-> s]
          \in [hdr : [is : {"header"}, numBytes : Nat, dataSectors : Seq(Nat)],
               seekPosition : Nat, sector : Nat]
    BY <1>4
  <1> QED BY <1>5, FileSystemAssumption

\* An open file at another position.
LEMMA HandleAt ==
    ASSUME NEW d, NEW h, h # NULL, NEW gone, HandleOK(h, gone, d), NEW p \in Nat,
           NEW g, g = [h EXCEPT !.seekPosition = p]
    PROVE  g # NULL /\ g.sector = h.sector /\ g.seekPosition = p
  <1>1. h = [hdr |-> h.hdr, seekPosition |-> h.seekPosition, sector |-> h.sector]
    BY DEF HandleOK
  <1>2. g = [hdr |-> h.hdr, seekPosition |-> p, sector |-> h.sector]
    BY <1>1
  <1>3. IsHeader(h.hdr) /\ h.sector \in Nat
    BY DEF HandleOK
  <1>4. [hdr |-> h.hdr, seekPosition |-> p, sector |-> h.sector] # NULL
    BY <1>3, NotNull
  <1> QED BY <1>2, <1>4

\* The file that is open.
LEMMA OpenFileIs ==
    ASSUME NEW d, GoodDisk(d), NEW h, h # NULL, HandleOK(h, FALSE, d)
    PROVE  \E r \in Listed(d) :
             /\ h.sector = Directory(d)[r].sector /\ h.hdr = HeaderAt(d, r)
             /\ HandleOn(h, FALSE, d)
                  = [file |-> {Directory(d)[r].name}, position |-> h.seekPosition]
  <1>1. PICK r \in Listed(d) : h.sector = Directory(d)[r].sector /\ h.hdr = HeaderAt(d, r)
    BY DEF HandleOK
  <1>2. NameOf(d, h.sector) = Directory(d)[r].name
    BY <1>1, NameOfAt
  <1> QED BY <1>1, <1>2 DEF HandleOn

\* A request is cut alike.
LEMMA SameInFile ==
    ASSUME NEW hdr, hdr.numBytes \in Nat, NEW bytes, Len(bytes) = hdr.numBytes,
           NEW n \in Int, NEW position \in Nat
    PROVE  Files!InFile(bytes, position, n) = InFile(hdr, n, position)
  <1> DEFINE m == hdr.numBytes
  <1>1. Len(bytes) = m /\ m \in Nat
    OBVIOUS
  <1> HIDE DEF m
  <1>2. SmallerOf(n, m - position) = IF position + n > m THEN m - position ELSE n
    BY <1>1 DEF SmallerOf
  <1> QED BY <1>1, <1>2 DEF Files!InFile, InFile, m

-----------------------------------------------------------------------------
(* Each operation is one of those promised *)

\* A step that leaves the disk as it is when the operation is done.
LEMMA SameFiles ==
    ASSUME ~misused, ~misused', UNCHANGED <<image, pending>>
    PROVE  FilesThen' = FilesThen
  BY FilesThenIs

LEMMA SameHandle ==
    ASSUME ~misused, ~misused', UNCHANGED <<image, pending, handle, removed>>
    PROVE  HandleThen' = HandleThen
  BY HandleThenIs

\* A file keeps its name while others are created or removed.
LEMMA HandleKept ==
    ASSUME NEW d, NEW h, NEW gone, HandleOK(h, gone, d), NEW e,
           \A i \in Listed(d) : h # NULL /\ h.sector = Directory(d)[i].sector =>
             NameOf(e, Directory(d)[i].sector) = NameOf(d, Directory(d)[i].sector)
    PROVE  HandleOn(h, gone, e) = HandleOn(h, gone, d)
  <1>1. CASE h = NULL
    BY <1>1 DEF HandleOn
  <1>2. CASE h # NULL /\ gone
    BY <1>2 DEF HandleOn
  <1>3. CASE h # NULL /\ ~gone
    <2>1. PICK i \in Listed(d) : h.sector = Directory(d)[i].sector
      BY <1>3 DEF HandleOK
    <2>2. NameOf(e, h.sector) = NameOf(d, h.sector)
      BY <1>3, <2>1
    <2> QED BY <2>2 DEF HandleOn
  <1> QED BY <1>1, <1>2, <1>3

\* An open file when the file of a name is removed.
Without(handleOn, name) ==
  IF handleOn = <<>> THEN <<>> ELSE [handleOn EXCEPT !.file = @ \ {name}]

LEMMA WithoutIs ==
    ASSUME NEW files, NEW position, NEW name
    PROVE  Without([file |-> files, position |-> position], name)
             = [file |-> files \ {name}, position |-> position]
  BY NotNoFile DEF Without

LEMMA CreateImplements ==
    ASSUME IInv, BytesInv, NEW name \in FileNames, NEW size \in Sizes, Create(name, size)
    PROVE  IF misused' THEN Files!AMisuse ELSE Files!ACreate
  <1>1. Ready /\ ~misused /\ UNCHANGED <<image, handle, removed>>
    BY DEF Create, Ready
  <1>2. PICK d, h, gone : d = image /\ h = handle /\ gone = removed
    OBVIOUS
  <1>3. /\ AllBytes(d) /\ GoodDisk(d) /\ Settled(image, pending) = d
        /\ gone \in BOOLEAN /\ HandleOK(h, gone, d)
    BY <1>1, <1>2, QuietBytes
  <1>4. Short(name) \in StoredNames /\ size \in Nat
    BY NamesStored, FileSystemAssumption
  <1>5. CanCreate(d, name, size) = Files!Fits(FilesOn(d), Short(name), size)
    <2>1. CanCreate(d, name, size) \in BOOLEAN
      BY DEF CanCreate
    <2>2. Files!Fits(FilesOn(d), Short(name), size) \in BOOLEAN
      BY DEF Files!Fits
    <2>3. CanCreate(d, name, size) <=> Files!Fits(FilesOn(d), Short(name), size)
      BY <1>3, <1>4, CreatesIfFits
    <2> QED BY <2>1, <2>2, <2>3
  <1>6. FilesThen = FilesOn(d) /\ HandleThen = HandleOn(h, gone, d)
    BY <1>1, <1>2, <1>3, FilesThenIs, HandleThenIs
  <1>7. answer' = <<"Create", Files!Fits(FilesThen, Short(name), size)>>
    BY <1>2, <1>5, <1>6 DEF Create
  <1>8. answer'[2] = Files!Fits(FilesThen, Short(name), size)
    BY <1>7
  <1>9. Short(name) \in {Short(n) : n \in FileNames}
    OBVIOUS
  <1>10. CASE CanCreate(d, name, size) /\ ~TooLong(size)
    <2> DEFINE e == Settled(d, Creation(d, name, size))
    <2>1. pending' = Creation(d, name, size) /\ image' = d /\ ~misused'
      BY <1>1, <1>2, <1>10 DEF Create
    <2>2. GoodDisk(e)
      BY <1>3, <1>4, <1>10, CreationGood
    <2>3. /\ NamesOn(e) = NamesOn(d) \cup {Short(name)}
          /\ FilesOn(e)[Short(name)] \in AnyBytes(size)
      BY <1>3, <1>4, <1>10, FilesAfterCreate
    <2>4. \A i \in Listed(d) :
             /\ FilesOn(e)[Directory(d)[i].name] = FilesOn(d)[Directory(d)[i].name]
             /\ NameOf(e, Directory(d)[i].sector) = NameOf(d, Directory(d)[i].sector)
      BY <1>3, <1>4, <1>10, FilesAfterCreate
    <2>5. FilesThen' = FilesOn(e)
      BY <2>1, FilesThenIs
    <2>6. HandleThen' = HandleOn(h, gone, e)
      BY <1>1, <1>2, <2>1, HandleThenIs
    <2> HIDE DEF e
    <2>7. HandleThen' = HandleThen
      BY <1>3, <1>6, <2>4, <2>6, HandleKept
    <2>8. DOMAIN FilesOn(d) = NamesOn(d) /\ DOMAIN FilesOn(e) = NamesOn(e)
          /\ FilesOn(d) = [n \in NamesOn(d) |-> FilesOn(d)[n]]
      BY <1>3, <2>2, FilesOnAt
    <2>9. \A n \in NamesOn(d) : FilesOn(e)[n] = FilesOn(d)[n]
      BY <2>4 DEF NamesOn
    <2>10. Files!Restrict(FilesOn(e), NamesOn(d)) = FilesOn(d)
      <3>1. Files!Restrict(FilesOn(e), NamesOn(d)) = [n \in NamesOn(d) |-> FilesOn(e)[n]]
        BY DEF Files!Restrict
      <3>2. [n \in NamesOn(d) |-> FilesOn(e)[n]] = [n \in NamesOn(d) |-> FilesOn(d)[n]]
        BY <2>9
      <3> QED BY <2>8, <3>1, <3>2
    <2>11. answer'[2] /\ SectorsFor(size) <= NumDirect
      <3>1. Files!Fits(FilesThen, Short(name), size)
        BY <1>5, <1>6, <1>10
      <3>2. divRoundUp(size, SectorSize) \in Nat
        BY <1>4, RoundUpFacts
      <3>3. SectorsFor(size) <= NumDirect
        BY <1>10, <3>2, FileSystemAssumption DEF TooLong, SectorsFor
      <3> QED BY <1>8, <3>1, <3>3
    <2>12. Files!ACreate
      BY <1>6, <1>8, <1>9, <2>3, <2>5, <2>7, <2>8, <2>10, <2>11 DEF Files!ACreate
    <2> QED BY <2>1, <2>12
  <1>11. CASE CanCreate(d, name, size) /\ TooLong(size)
    <2>1. misused'
      BY <1>2, <1>11 DEF Create
    <2>2. Files!Fits(FilesThen, Short(name), size) /\ SectorsFor(size) > NumDirect
      BY <1>5, <1>6, <1>11 DEF TooLong, SectorsFor
    <2>3. answer' = <<"Create", TRUE>>
      <3>1. CanCreate(d, name, size) = TRUE
        BY <1>11 DEF CanCreate
      <3> QED BY <1>2, <3>1 DEF Create
    <2>4. Files!AMisuse
      BY <1>9, <2>2, <2>3 DEF Files!AMisuse
    <2> QED BY <2>1, <2>4
  <1>12. CASE ~CanCreate(d, name, size)
    <2>1. UNCHANGED <<image, pending, handle, removed>> /\ ~misused'
      BY <1>1, <1>2, <1>12 DEF Create, Ready, Quiet
    <2>2. FilesThen' = FilesThen /\ HandleThen' = HandleThen
      BY <1>1, <2>1, SameFiles, SameHandle
    <2>3. ~answer'[2]
      BY <1>5, <1>6, <1>8, <1>12
    <2>4. Files!ACreate
      BY <1>8, <1>9, <2>2, <2>3 DEF Files!ACreate
    <2> QED BY <2>1, <2>4
  <1> QED BY <1>10, <1>11, <1>12

\* The open file when a file is removed, which may be the same one.
LEMMA HandleWithout ==
    ASSUME NEW d, GoodDisk(d), NEW h, NEW gone, gone \in BOOLEAN, HandleOK(h, gone, d),
           NEW name, NEW e, NEW after,
           after <=> \/ gone
                     \/ h # NULL /\ \E i \in Listed(d) :
                          Directory(d)[i].name = name /\ h.sector = Directory(d)[i].sector,
           \A i \in Listed(d) : Directory(d)[i].name # name =>
             NameOf(e, Directory(d)[i].sector) = NameOf(d, Directory(d)[i].sector)
    PROVE  HandleOn(h, after, e) = Without(HandleOn(h, gone, d), name)
  <1>1. CASE h = NULL
    BY <1>1 DEF HandleOn, Without
  <1>2. CASE h # NULL /\ gone
    <2>1. /\ HandleOn(h, gone, d) = [file |-> {}, position |-> h.seekPosition]
          /\ HandleOn(h, after, e) = [file |-> {}, position |-> h.seekPosition]
      BY <1>2 DEF HandleOn
    <2>2. {} \ {name} = {}
      OBVIOUS
    <2> QED BY <2>1, <2>2, WithoutIs
  <1>3. CASE h # NULL /\ ~gone
    <2>1. gone = FALSE
      BY <1>3
    <2>2. PICK r \in Listed(d) :
            /\ h.sector = Directory(d)[r].sector
            /\ HandleOn(h, gone, d)
                 = [file |-> {Directory(d)[r].name}, position |-> h.seekPosition]
      BY <1>3, <2>1, OpenFileIs
    <2>3. Without(HandleOn(h, gone, d), name)
            = [file |-> {Directory(d)[r].name} \ {name}, position |-> h.seekPosition]
      BY <2>2, WithoutIs
    <2>4. CASE Directory(d)[r].name = name
      <3>1. after
        BY <1>3, <2>2, <2>4
      <3>2. HandleOn(h, after, e) = [file |-> {}, position |-> h.seekPosition]
        BY <1>3, <3>1 DEF HandleOn
      <3>3. {Directory(d)[r].name} \ {name} = {}
        BY <2>4
      <3> QED BY <2>3, <3>2, <3>3
    <2>5. CASE Directory(d)[r].name # name
      <3>1. ASSUME NEW i \in Listed(d), Directory(d)[i].name = name,
                   h.sector = Directory(d)[i].sector
            PROVE  FALSE
        <4>1. NameOf(d, h.sector) = Directory(d)[i].name
          BY <3>1, NameOfAt
        <4>2. NameOf(d, h.sector) = Directory(d)[r].name
          BY <2>2, NameOfAt
        <4> QED BY <2>5, <3>1, <4>1, <4>2
      <3>2. ~after
        BY <1>3, <3>1
      <3>3. NameOf(e, h.sector) = Directory(d)[r].name
        BY <2>2, <2>5, NameOfAt
      <3>4. HandleOn(h, after, e) = [file |-> {Directory(d)[r].name}, position |-> h.seekPosition]
        BY <1>3, <3>2, <3>3 DEF HandleOn
      <3>5. {Directory(d)[r].name} \ {name} = {Directory(d)[r].name}
        BY <2>5
      <3> QED BY <2>3, <3>4, <3>5
    <2> QED BY <2>4, <2>5
  <1> QED BY <1>1, <1>2, <1>3

LEMMA RemoveImplements ==
    ASSUME IInv, BytesInv, NEW name \in FileNames, Remove(name)
    PROVE  Files!ARemove /\ ~misused'
  <1>1. Ready /\ ~misused /\ ~misused' /\ UNCHANGED <<image, handle>>
    BY DEF Remove, Ready
  <1>2. PICK d, h, gone, after : d = image /\ h = handle /\ gone = removed /\ after = removed'
    OBVIOUS
  <1>3. /\ AllBytes(d) /\ GoodDisk(d) /\ Settled(image, pending) = d
        /\ gone \in BOOLEAN /\ HandleOK(h, gone, d)
    BY <1>1, <1>2, QuietBytes
  <1>4. FilesThen = FilesOn(d) /\ HandleThen = HandleOn(h, gone, d)
    BY <1>1, <1>2, <1>3, FilesThenIs, HandleThenIs
  <1>5. Short(name) \in {Short(n) : n \in FileNames}
    OBVIOUS
  <1>6. DOMAIN FilesOn(d) = NamesOn(d) /\ FilesOn(d) = [n \in NamesOn(d) |-> FilesOn(d)[n]]
    BY <1>3, FilesOnAt
  <1>7. after = (gone \/ (h # NULL /\ h.sector \in Find(d, name)))
    BY <1>2 DEF Remove
  <1>8. after <=> \/ gone
                  \/ h # NULL /\ \E i \in Listed(d) :
                       /\ Directory(d)[i].name = Short(name)
                       /\ h.sector = Directory(d)[i].sector
    <2>1. ASSUME h.sector \in Find(d, name)
          PROVE  \E i \in Listed(d) : /\ Directory(d)[i].name = Short(name)
                                      /\ h.sector = Directory(d)[i].sector
      BY <1>3, <2>1, FoundListed
    <2>2. ASSUME NEW i \in Listed(d), Directory(d)[i].name = Short(name),
                 h.sector = Directory(d)[i].sector
          PROVE  h.sector \in Find(d, name)
      BY <1>3, <2>2, FindListed
    <2> QED BY <1>7, <2>1, <2>2
  <1>9. after \in BOOLEAN
    BY <1>3, <1>7
  <1>10. CASE Find(d, name) # {}
    <2>1. PICK r \in Listed(d) : /\ Directory(d)[r].name = Short(name)
                                 /\ FindIndex(Directory(d), name) = {r}
                                 /\ Find(d, name) = {Directory(d)[r].sector}
      BY <1>3, <1>10, FoundListed
    <2> DEFINE e == Settled(d, Removal(d, name))
    <2>2. pending' = Removal(d, name) /\ image' = d
      BY <1>1, <1>2, <1>10 DEF Remove
    <2>3. GoodDisk(e)
      BY <1>3, <2>1, RemovalGood
    <2>4. NamesOn(e) = NamesOn(d) \ {Short(name)}
      BY <1>3, <2>1, FilesAfterRemove
    <2>5. \A i \in Listed(d) : i # r =>
            /\ FilesOn(e)[Directory(d)[i].name] = FilesOn(d)[Directory(d)[i].name]
            /\ NameOf(e, Directory(d)[i].sector) = NameOf(d, Directory(d)[i].sector)
      BY <1>3, <2>1, FilesAfterRemove
    <2>6. FilesThen' = FilesOn(e)
      BY <1>1, <2>2, FilesThenIs
    <2>7. HandleThen' = HandleOn(h, after, e)
      BY <1>1, <1>2, <2>2, HandleThenIs
    <2> HIDE DEF e
    <2>8. HandleThen' = Without(HandleThen, Short(name))
      <3>1. \A i \in Listed(d) : Directory(d)[i].name # Short(name) =>
              NameOf(e, Directory(d)[i].sector) = NameOf(d, Directory(d)[i].sector)
        BY <2>1, <2>5
      <3> QED BY <1>3, <1>4, <1>8, <1>9, <2>7, <3>1, HandleWithout
    <2>9. FilesOn(e) = [n \in NamesOn(e) |-> FilesOn(e)[n]]
      BY <2>3, FilesOnAt
    <2>10. \A n \in NamesOn(e) : FilesOn(e)[n] = FilesOn(d)[n]
      <3> TAKE n \in NamesOn(e)
      <3>1. PICK i \in Listed(d) : n = Directory(d)[i].name
        BY <2>4 DEF NamesOn
      <3>2. i # r
        BY <2>1, <2>4, <3>1
      <3> QED BY <2>5, <3>1, <3>2
    <2>11. Short(name) \in NamesOn(d)
      BY <2>1 DEF NamesOn
    <2>12. Files!Restrict(FilesOn(d), NamesOn(d) \ {Short(name)}) = FilesOn(e)
      <3>1. Files!Restrict(FilesOn(d), NamesOn(e)) = [n \in NamesOn(e) |-> FilesOn(d)[n]]
        BY DEF Files!Restrict
      <3>2. [n \in NamesOn(e) |-> FilesOn(d)[n]] = [n \in NamesOn(e) |-> FilesOn(e)[n]]
        BY <2>10
      <3> QED BY <2>4, <2>9, <3>1, <3>2
    <2>13. answer' = <<"Remove", TRUE>>
      BY <1>2, <1>10 DEF Remove
    <2>14. answer' = <<"Remove", Short(name) \in DOMAIN FilesThen>>
      BY <1>4, <1>6, <2>11, <2>13
    <2> QED BY <1>1, <1>4, <1>5, <1>6, <2>6, <2>8, <2>12, <2>14 DEF Files!ARemove, Without
  <1>11. CASE Find(d, name) = {}
    <2>1. UNCHANGED <<image, pending>>
      BY <1>1, <1>2, <1>11 DEF Remove, Ready, Quiet
    <2>2. FilesThen' = FilesThen
      BY <1>1, <2>1, SameFiles
    <2>3. HandleThen' = HandleOn(h, after, d)
      BY <1>1, <1>2, <1>3, <2>1, HandleThenIs
    <2>4. HandleThen' = Without(HandleThen, Short(name))
      BY <1>3, <1>4, <1>8, <1>9, <2>3, HandleWithout
    <2>5. Short(name) \notin NamesOn(d)
      <3> SUFFICES ASSUME NEW i \in Listed(d), Directory(d)[i].name = Short(name) PROVE FALSE
        BY DEF NamesOn
      <3>1. Find(d, name) = {Directory(d)[i].sector}
        BY <1>3, FindListed
      <3> QED BY <1>11, <3>1
    <2>6. answer' = <<"Remove", FALSE>>
      BY <1>2, <1>11 DEF Remove
    <2>7. answer' = <<"Remove", Short(name) \in DOMAIN FilesThen>>
      <3>1. (Short(name) \in DOMAIN FilesThen) = FALSE
        BY <1>4, <1>6, <2>5
      <3> QED BY <2>6, <3>1, Zenon
    <2>8. Files!Restrict(FilesOn(d), NamesOn(d) \ {Short(name)}) = FilesOn(d)
      <3>1. NamesOn(d) \ {Short(name)} = NamesOn(d)
        BY <2>5
      <3> QED BY <1>6, <3>1 DEF Files!Restrict
    <2> QED BY <1>1, <1>4, <1>5, <1>6, <2>2, <2>4, <2>7, <2>8 DEF Files!ARemove, Without
  <1> QED BY <1>10, <1>11

\* Whether the name is there or not.
LEMMA OpenImplements ==
    ASSUME NEW name \in FileNames, Open(name)
    PROVE  Files!AOpen /\ ~misused'
  <1>1. ~misused /\ ~misused' /\ UNCHANGED <<image, pending, handle, removed>>
    BY DEF Open, Ready
  <1> QED BY <1>1, SameFiles, SameHandle DEF Files!AOpen

LEMMA NewOpenFileImplements ==
    ASSUME IInv, BytesInv, NEW name \in FileNames, NewOpenFile(name)
    PROVE  Files!ANewOpenFile(Short(name)) /\ ~misused'
  <1>1. /\ Ready /\ ~misused /\ ~misused' /\ handle = NULL /\ UNCHANGED <<image, pending>>
        /\ removed' = FALSE
    BY DEF NewOpenFile, Ready
  <1>2. PICK s \in Find(image, name) :
          handle' = [hdr |-> image[s], seekPosition |-> 0, sector |-> s]
    BY DEF NewOpenFile
  <1>3. PICK d : d = image
    OBVIOUS
  <1>4. GoodDisk(d) /\ Settled(image, pending) = d
    BY <1>1, <1>3, QuietBytes
  <1>5. Find(d, name) # {} /\ s \in Find(d, name)
    BY <1>2, <1>3
  <1>6. PICK i \in Listed(d) : /\ Directory(d)[i].name = Short(name)
                               /\ Find(d, name) = {Directory(d)[i].sector}
    BY <1>4, <1>5, FoundListed
  <1>7. s = Directory(d)[i].sector /\ IsHeader(d[s]) /\ s \in Nat
    BY <1>4, <1>5, <1>6, OwnedFacts, SectorNumberFacts
  <1>8. handle' # NULL
    BY <1>2, <1>3, <1>7, NotNull
  <1>9. HandleThen = <<>>
    BY <1>1 DEF HandleThen
  <1>10. FilesThen = FilesOn(d) /\ FilesThen' = FilesThen
    BY <1>1, <1>4, FilesThenIs, SameFiles
  <1>11. HandleThen' = [file |-> {Short(name)}, position |-> 0]
    <2>1. HandleThen' = HandleOn(handle', FALSE, d)
      BY <1>1, <1>3, <1>4, HandleThenIs
    <2>2. HandleOn(handle', FALSE, d) = [file |-> {NameOf(d, handle'.sector)},
                                         position |-> handle'.seekPosition]
      BY <1>8 DEF HandleOn
    <2>3. handle'.sector = s /\ handle'.seekPosition = 0
      BY <1>2
    <2>4. NameOf(d, s) = Short(name)
      BY <1>4, <1>6, <1>7, NameOfAt
    <2> QED BY <2>1, <2>2, <2>3, <2>4
  <1>12. Short(name) \in DOMAIN FilesThen
    <2>1. DOMAIN FilesOn(d) = NamesOn(d)
      BY <1>4, FilesOnAt
    <2>2. Short(name) \in NamesOn(d)
      BY <1>6 DEF NamesOn
    <2> QED BY <1>10, <2>1, <2>2
  <1> QED BY <1>1, <1>9, <1>10, <1>11, <1>12 DEF Files!ANewOpenFile

\* What the operations of an open file start from.
LEMMA OpenState ==
    ASSUME IInv, BytesInv, Ready, handle # NULL
    PROVE  \E d, h, gone, files :
             /\ d = image /\ h = handle /\ h # NULL
             /\ gone = removed /\ gone \in BOOLEAN
             /\ GoodDisk(d) /\ AllBytes(d) /\ HandleOK(h, gone, d)
             /\ Settled(image, pending) = d
             /\ h.seekPosition \in Nat /\ IsHeader(h.hdr)
             /\ FilesThen = FilesOn(d) /\ HandleThen = HandleOn(h, gone, d)
             /\ HandleThen = [file |-> files, position |-> h.seekPosition]
             /\ HandleThen # <<>>
             /\ gone => files = {}
             /\ ~gone => \E r \in Listed(d) :
                           /\ h.sector = Directory(d)[r].sector /\ h.hdr = HeaderAt(d, r)
                           /\ files = {Directory(d)[r].name}
  <1>1. PICK d, h, gone : d = image /\ h = handle /\ gone = removed
    OBVIOUS
  <1>2. /\ GoodDisk(d) /\ AllBytes(d) /\ Settled(image, pending) = d
        /\ gone \in BOOLEAN /\ HandleOK(h, gone, d) /\ h # NULL
    BY <1>1, QuietBytes
  <1>3. FilesThen = FilesOn(d) /\ HandleThen = HandleOn(h, gone, d)
    BY <1>1, <1>2, FilesThenIs, HandleThenIs DEF Ready
  <1>4. h.seekPosition \in Nat /\ IsHeader(h.hdr)
    BY <1>2 DEF HandleOK
  <1>5. PICK files :
          /\ HandleThen = [file |-> files, position |-> h.seekPosition]
          /\ gone => files = {}
          /\ ~gone => \E r \in Listed(d) :
                        /\ h.sector = Directory(d)[r].sector /\ h.hdr = HeaderAt(d, r)
                        /\ files = {Directory(d)[r].name}
    <2>1. CASE gone
      BY <1>2, <1>3, <2>1 DEF HandleOn
    <2>2. CASE ~gone
      <3>1. gone = FALSE
        BY <1>2, <2>2
      <3> QED BY <1>2, <1>3, <3>1, OpenFileIs
    <2> QED BY <2>1, <2>2
  <1>6. HandleThen # <<>>
    BY <1>5, NotNoFile
  <1> QED BY <1>1, <1>2, <1>3, <1>4, <1>5, <1>6

\* The open file at another position, with its name.
Moved(handleOn, p) == [handleOn EXCEPT !.position = p]

LEMMA Repositioned ==
    ASSUME NEW d, NEW h, h # NULL, NEW gone, HandleOK(h, gone, d), NEW p \in Nat,
           NEW g, g = [h EXCEPT !.seekPosition = p],
           NEW e, ~gone => NameOf(e, h.sector) = NameOf(d, h.sector)
    PROVE  HandleOn(g, gone, e) = Moved(HandleOn(h, gone, d), p)
  <1>1. g # NULL /\ g.sector = h.sector /\ g.seekPosition = p
    BY HandleAt
  <1>2. PICK files : files = IF gone THEN {} ELSE {NameOf(d, h.sector)}
    OBVIOUS
  <1>3. HandleOn(h, gone, d) = [file |-> files, position |-> h.seekPosition]
    BY <1>2 DEF HandleOn
  <1>4. HandleOn(g, gone, e) = [file |-> files, position |-> p]
    BY <1>1, <1>2 DEF HandleOn
  <1> QED BY <1>3, <1>4 DEF Moved

LEMMA SeekImplements ==
    ASSUME IInv, BytesInv, NEW p \in Positions, Seek(p)
    PROVE  HandleThen # <<>> /\ IF misused' THEN Files!AMisuse ELSE Files!ASeek(p)
  <1>1. Ready /\ ~misused /\ handle # NULL /\ UNCHANGED <<image, pending, removed>>
    BY DEF Seek, Ready
  <1>2. PICK d, h, gone :
             /\ d = image /\ h = handle /\ h # NULL /\ gone = removed /\ gone \in BOOLEAN
             /\ GoodDisk(d) /\ HandleOK(h, gone, d) /\ Settled(image, pending) = d
             /\ HandleThen = HandleOn(h, gone, d) /\ HandleThen # <<>>
    BY <1>1, OpenState
  <1>3. p \in Int /\ misused' = (p < 0) /\ answer' = <<"Seek">>
    BY FileSystemAssumption DEF Seek
  <1>4. CASE p < 0
    <2>1. Files!AMisuse
      BY <1>2, <1>3, <1>4 DEF Files!AMisuse
    <2> QED BY <1>2, <1>3, <1>4, <2>1
  <1>5. CASE ~(p < 0)
    <2>1. p \in Nat /\ p >= 0 /\ ~misused'
      <3>1. (p < 0) = FALSE
        BY <1>5
      <3>2. misused' = FALSE
        BY <1>3, <3>1
      <3> QED BY <1>3, <1>5, <3>2
    <2>2. PICK g : g = handle' /\ g = [h EXCEPT !.seekPosition = p]
      BY <1>2 DEF Seek
    <2>3. HandleThen' = HandleOn(g, gone, d)
      BY <1>1, <1>2, <2>1, <2>2, HandleThenIs
    <2>4. HandleOn(g, gone, d) = Moved(HandleOn(h, gone, d), p)
      BY <1>2, <2>1, <2>2, Repositioned
    <2>5. HandleThen' = [HandleThen EXCEPT !.position = p]
      BY <1>2, <2>3, <2>4 DEF Moved
    <2>6. FilesThen' = FilesThen
      BY <1>1, <2>1, SameFiles
    <2>7. Files!ASeek(p)
      BY <2>1, <2>5, <2>6 DEF Files!ASeek
    <2> QED BY <1>2, <2>1, <2>7
  <1> QED BY <1>4, <1>5

LEMMA CloseImplements ==
    ASSUME IInv, BytesInv, Close
    PROVE  Files!AClose /\ HandleThen # <<>> /\ ~misused'
  <1>1. /\ Ready /\ ~misused /\ ~misused' /\ handle # NULL
        /\ UNCHANGED <<image, pending>> /\ handle' = NULL
    BY DEF Close, Ready
  <1>2. HandleThen # <<>>
    BY <1>1, OpenState
  <1>3. HandleThen' = <<>>
    BY <1>1 DEF HandleThen
  <1>4. FilesThen' = FilesThen
    BY <1>1, SameFiles
  <1> QED BY <1>1, <1>2, <1>3, <1>4 DEF Files!AClose

\* A request for n bytes at a position of a file is cut to m of its bytes.
Requested(d, hdr, bytes, n, position, m) ==
  /\ hdr.numBytes \in Nat /\ position \in Nat
  /\ bytes = [k \in 1..hdr.numBytes |-> ByteAt(d, hdr, k - 1)]
  /\ m \in Nat /\ (m > 0 => position + m <= hdr.numBytes)
  /\ m = InFile(hdr, n, position) /\ m = Files!InFile(bytes, position, n)

LEMMA RequestIs ==
    ASSUME NEW d, GoodDisk(d), NEW r \in Listed(d), NEW n \in Int, NEW position \in Nat
    PROVE  Requested(d, HeaderAt(d, r), FilesOn(d)[Directory(d)[r].name], n, position,
                     InFile(HeaderAt(d, r), n, position))
  <1> DEFINE hdr == HeaderAt(d, r)
             bytes == FilesOn(d)[Directory(d)[r].name]
             m == InFile(HeaderAt(d, r), n, position)
  <1>1. bytes = WholeFile(d, r)
    BY FilesOnAt
  <1>2. /\ hdr.numBytes \in Nat
        /\ WholeFile(d, r) = [k \in 1..hdr.numBytes |-> ByteAt(d, hdr, k - 1)]
        /\ Len(WholeFile(d, r)) = hdr.numBytes
    BY WholeFileIs
  <1>3. m = InFile(hdr, n, position)
    OBVIOUS
  <1> HIDE DEF hdr, m, bytes
  <1>4. m \in Nat /\ (m > 0 => position + m <= hdr.numBytes)
    BY <1>2, <1>3, InFileFacts
  <1>5. Files!InFile(bytes, position, n) = m
    BY <1>1, <1>2, <1>3, SameInFile
  <1>6. Requested(d, hdr, bytes, n, position, m)
    BY <1>1, <1>2, <1>3, <1>4, <1>5 DEF Requested
  <1> QED BY <1>6 DEF hdr, bytes, m

\* What is read is a part of the whole file.
LEMMA SliceIs ==
    ASSUME NEW d, NEW hdr, NEW bytes, NEW n, NEW position, NEW m,
           Requested(d, hdr, bytes, n, position, m)
    PROVE  Files!Slice(bytes, position, m) = ReadAt(d, hdr, n, position)
  <1>1. PICK size, S, from, to :
          size = hdr.numBytes /\ S = Range(bytes) /\ from = position + 1 /\ to = position + m
    OBVIOUS
  <1>2. /\ size \in Nat /\ position \in Nat /\ m \in Nat
        /\ bytes = [k \in 1..size |-> ByteAt(d, hdr, k - 1)]
        /\ (m > 0 => position + m <= size)
        /\ ReadAt(d, hdr, n, position) = [k \in 1..m |-> ByteAt(d, hdr, position + k - 1)]
    BY <1>1 DEF Requested, ReadAt
  <1>3. from \in Int /\ to \in Int
    BY <1>1, <1>2
  <1>4. \A i \in from..to : bytes[i] = ByteAt(d, hdr, i - 1) /\ bytes[i] \in S
    <2> TAKE i \in from..to
    <2>1. i \in 1..size
      BY <1>1, <1>2
    <2>2. bytes[i] = ByteAt(d, hdr, i - 1) /\ i \in DOMAIN bytes
      BY <1>2, <2>1
    <2> QED BY <1>1, <2>2 DEF Range
  <1>5. PICK part : part = SubSeq(bytes, from, to)
    OBVIOUS
  <1>6. /\ part \in Seq(S)
        /\ Len(part) = IF from <= to THEN to - from + 1 ELSE 0
        /\ \A i \in 1..to - from + 1 : part[i] = bytes[from + i - 1]
    BY <1>3, <1>4, <1>5, SubSeqProperties
  <1>7. Len(part) = m
    BY <1>1, <1>2, <1>6
  <1>8. part = [k \in 1..m |-> part[k]]
    BY <1>6, <1>7
  <1>9. ASSUME NEW k \in 1..m PROVE part[k] = ByteAt(d, hdr, position + k - 1)
    <2>1. PICK i : i = position + k
      OBVIOUS
    <2>2. k \in 1..to - from + 1 /\ from + k - 1 = i /\ i \in from..to
          /\ i - 1 = position + k - 1
      BY <1>1, <1>2, <2>1
    <2>3. part[k] = bytes[i]
      BY <1>6, <2>2
    <2>4. bytes[i] = ByteAt(d, hdr, i - 1)
      BY <1>4, <2>2
    <2> QED BY <2>2, <2>3, <2>4
  <1>10. Files!Slice(bytes, position, m) = part
    BY <1>1, <1>5 DEF Files!Slice
  <1> QED BY <1>2, <1>8, <1>9, <1>10

LEMMA ReadImplements ==
    ASSUME IInv, BytesInv, NEW n \in Counts, Read(n)
    PROVE  Files!ARead(n) /\ HandleThen # <<>> /\ ~misused'
  <1>1. /\ Ready /\ ~misused /\ ~misused' /\ handle # NULL
        /\ UNCHANGED <<image, pending, removed>>
    BY DEF Read, Ready
  <1>2. PICK d, h, gone, files :
             /\ d = image /\ h = handle /\ h # NULL /\ gone = removed /\ gone \in BOOLEAN
             /\ GoodDisk(d) /\ HandleOK(h, gone, d) /\ Settled(image, pending) = d
             /\ h.seekPosition \in Nat /\ IsHeader(h.hdr)
             /\ FilesThen = FilesOn(d) /\ HandleThen = HandleOn(h, gone, d)
             /\ HandleThen = [file |-> files, position |-> h.seekPosition]
             /\ HandleThen # <<>>
             /\ gone => files = {}
             /\ ~gone => \E r \in Listed(d) :
                           /\ h.sector = Directory(d)[r].sector /\ h.hdr = HeaderAt(d, r)
                           /\ files = {Directory(d)[r].name}
    BY <1>1, OpenState
  <1>3. n \in Int
    BY FileSystemAssumption
  <1>4. PICK position, hdr, m, result :
          /\ position = h.seekPosition /\ hdr = h.hdr
          /\ m = InFile(hdr, n, position) /\ result = ReadAt(d, hdr, n, position)
    OBVIOUS
  <1>5. m \in Nat /\ position \in Nat
    BY <1>2, <1>3, <1>4, InFileFacts DEF IsHeader
  <1>6. m <= IF n <= 0 THEN 0 ELSE n
    <2>1. hdr.numBytes \in Nat
      BY <1>2, <1>4 DEF IsHeader
    <2> QED BY <1>3, <1>4, <1>5, <2>1 DEF InFile, SmallerOf
  <1>7. Len(result) = m
    BY <1>4, <1>5, ReadAtLength
  <1>8. answer' = <<"Read", result>> /\ handle' = [h EXCEPT !.seekPosition = @ + Len(result)]
    BY <1>2, <1>4 DEF Read
  <1>9. PICK g, p : p = position + m /\ g = handle' /\ g = [h EXCEPT !.seekPosition = p]
    BY <1>4, <1>7, <1>8
  <1>10. HandleThen' = HandleOn(g, gone, d)
    BY <1>1, <1>2, <1>9, HandleThenIs
  <1>11. HandleOn(g, gone, d) = Moved(HandleOn(h, gone, d), p)
    <2>1. p \in Nat
      BY <1>5, <1>9
    <2>2. h # NULL /\ HandleOK(h, gone, d)
      BY <1>2
    <2> QED BY <1>9, <2>1, <2>2, Repositioned
  <1>12. HandleThen' = [HandleThen EXCEPT !.position = position + m]
    BY <1>2, <1>9, <1>10, <1>11 DEF Moved
  <1>13. FilesThen' = FilesThen
    BY <1>1, SameFiles
  <1>14. HandleThen.position = position /\ HandleThen.file = files
    BY <1>2, <1>4
  <1>15. ASSUME NEW name \in files
         PROVE  /\ m = Files!InFile(FilesThen[name], position, n)
                /\ result = Files!Slice(FilesThen[name], position, m)
    <2>1. PICK r \in Listed(d) : h.hdr = HeaderAt(d, r) /\ name = Directory(d)[r].name
      BY <1>2, <1>15
    <2>2. Requested(d, hdr, FilesThen[name], n, position, m)
      BY <1>2, <1>3, <1>4, <1>5, <2>1, RequestIs
    <2>3. Files!Slice(FilesThen[name], position, m) = ReadAt(d, hdr, n, position)
      BY <2>2, SliceIs
    <2> QED BY <1>4, <2>2, <2>3 DEF Requested
  <1>16. Files!ARead(n)
    <2>1. Len(answer'[2]) = m /\ answer'[1] = "Read" /\ answer'[2] = result
      BY <1>7, <1>8
    <2> QED BY <1>6, <1>12, <1>13, <1>14, <1>15, <2>1 DEF Files!ARead
  <1> QED BY <1>1, <1>2, <1>16

LEMMA OverwrittenIs ==
    ASSUME NEW d, NEW hdr, NEW bytes, NEW from \in Seq(Bytes), NEW position, NEW m,
           Requested(d, hdr, bytes, Len(from), position, m)
    PROVE  Files!Overwritten(bytes, position, SubSeq(from, 1, m))
             = NewBytes(hdr, bytes, from, position, m)
  <1>1. PICK size, n : size = hdr.numBytes /\ n = Len(from) /\ n \in Nat
    OBVIOUS
  <1>2. /\ size \in Nat /\ position \in Nat /\ m \in Nat /\ n \in Nat
        /\ bytes = [k \in 1..size |-> ByteAt(d, hdr, k - 1)]
        /\ m = InFile(hdr, n, position)
    BY <1>1 DEF Requested
  <1>3. m <= n
    <2>1. m = 0 \/ m = SmallerOf(n, size - position)
      BY <1>1, <1>2 DEF InFile
    <2>2. CASE m = 0
      BY <1>2, <2>2
    <2>3. CASE m = SmallerOf(n, size - position)
      BY <1>2, <2>3 DEF SmallerOf
    <2> QED BY <2>1, <2>2, <2>3
  <1>4. \A i \in 1..m : from[i] \in Bytes
    <2> TAKE i \in 1..m
    <2>1. i \in 1..Len(from)
      BY <1>1, <1>2, <1>3
    <2> QED BY <2>1, ElementOfSeq
  <1>5. PICK part : part = SubSeq(from, 1, m)
    OBVIOUS
  <1>6. /\ Len(part) = IF 1 <= m THEN m - 1 + 1 ELSE 0
        /\ \A i \in 1..m - 1 + 1 : part[i] = from[1 + i - 1]
    <2>1. 1 \in Int /\ m \in Int
      BY <1>2
    <2> QED BY <1>4, <1>5, <2>1, SubSeqProperties
  <1>7. Len(part) = m
    BY <1>2, <1>6
  <1>8. \A i \in 1..m : part[i] = from[i]
    BY <1>2, <1>6
  <1>9. DOMAIN bytes = 1..size
    BY <1>2
  <1>10. ASSUME NEW k \in 1..size
         PROVE  (IF k \in position + 1..position + Len(part) THEN part[k - position] ELSE bytes[k])
                  = IF k - 1 \in position..position + m - 1 THEN from[k - 1 - position + 1]
                    ELSE bytes[k]
    <2>1. k \in position + 1..position + Len(part) <=> k - 1 \in position..position + m - 1
      BY <1>2, <1>7
    <2>2. CASE k - 1 \in position..position + m - 1
      <3>1. PICK i : i = k - position
        OBVIOUS
      <3>2. i \in 1..m /\ k - 1 - position + 1 = i
        BY <1>2, <2>2, <3>1
      <3>3. part[i] = from[i]
        BY <1>8, <3>2
      <3> QED BY <2>1, <2>2, <3>1, <3>2, <3>3
    <2> QED BY <2>1, <2>2
  <1>11. Files!Overwritten(bytes, position, part)
           = [k \in 1..size |-> IF k \in position + 1..position + Len(part)
                                  THEN part[k - position] ELSE bytes[k]]
    BY <1>9 DEF Files!Overwritten
  <1> QED BY <1>1, <1>5, <1>10, <1>11 DEF NewBytes

\* The files after a request to write, all but one as they were.
Overwrites(d, r, from, position, m, e) ==
  FilesOn(e) = [FilesOn(d) EXCEPT ![Directory(d)[r].name] =
                  NewBytes(HeaderAt(d, r), FilesOn(d)[Directory(d)[r].name], from, position, m)]

LEMMA FilesWritten ==
    ASSUME NEW d, GoodDisk(d), NEW r \in Listed(d), NEW from, Len(from) \in Nat,
           NEW position \in Nat,
           NEW m, m = InFile(HeaderAt(d, r), Len(from), position),
           NEW e, e = Settled(d, WriteAt(d, HeaderAt(d, r), from, position))
    PROVE  /\ Overwrites(d, r, from, position, m, e)
           /\ \A i \in Listed(d) :
                NameOf(e, Directory(d)[i].sector) = NameOf(d, Directory(d)[i].sector)
  <1> DEFINE name == Directory(d)[r].name
             new == NewBytes(HeaderAt(d, r), FilesOn(d)[name], from, position, m)
  <1>1. WriteOf(d, r, from, position, m, e)
    BY FilesAfterWrite
  <1>2. NamesOn(e) = NamesOn(d) /\ FilesOn(e)[name] = new
    BY <1>1 DEF WriteOf
  <1>3. \A i \in Listed(d) : i # r =>
          FilesOn(e)[Directory(d)[i].name] = FilesOn(d)[Directory(d)[i].name]
    BY <1>1 DEF WriteOf
  <1>4. \A i \in Listed(d) :
          NameOf(e, Directory(d)[i].sector) = NameOf(d, Directory(d)[i].sector)
    BY <1>1 DEF WriteOf
  <1>5. GoodDisk(e)
    <2>1. Operation(d, WriteAt(d, HeaderAt(d, r), from, position))
      BY DEF Operation, Writes
    <2> QED BY <2>1, OperationGood
  <1>6. /\ FilesOn(d) = [n \in NamesOn(d) |-> FilesOn(d)[n]]
        /\ FilesOn(e) = [n \in NamesOn(d) |-> FilesOn(e)[n]]
    BY <1>2, <1>5, FilesOnAt
  <1> HIDE DEF new
  <1>7. \A n \in NamesOn(d) : FilesOn(e)[n] = IF n = name THEN new ELSE FilesOn(d)[n]
    <2> TAKE n \in NamesOn(d)
    <2>1. PICK i \in Listed(d) : n = Directory(d)[i].name
      BY DEF NamesOn
    <2> QED BY <1>2, <1>3, <2>1
  <1> HIDE DEF name
  <1>8. FilesOn(e) = [FilesOn(d) EXCEPT ![name] = new]
    BY <1>6, <1>7
  <1> QED BY <1>4, <1>8 DEF name, new, Overwrites

LEMMA WriteImplements ==
    ASSUME IInv, BytesInv, NEW from \in Chunks, Write(from)
    PROVE  HandleThen # <<>> /\ IF misused' THEN Files!AMisuse ELSE Files!AWrite(from)
  <1>1. Ready /\ ~misused /\ handle # NULL /\ UNCHANGED <<image, removed>>
    BY DEF Write, Ready
  <1>2. PICK d, h, gone, files :
             /\ d = image /\ h = handle /\ h # NULL /\ gone = removed /\ gone \in BOOLEAN
             /\ GoodDisk(d) /\ HandleOK(h, gone, d) /\ Settled(image, pending) = d
             /\ h.seekPosition \in Nat /\ IsHeader(h.hdr)
             /\ FilesThen = FilesOn(d) /\ HandleThen = HandleOn(h, gone, d)
             /\ HandleThen = [file |-> files, position |-> h.seekPosition]
             /\ HandleThen # <<>>
             /\ gone => files = {}
             /\ ~gone => \E r \in Listed(d) :
                           /\ h.sector = Directory(d)[r].sector /\ h.hdr = HeaderAt(d, r)
                           /\ files = {Directory(d)[r].name}
    BY <1>1, OpenState
  <1>3. from \in Seq(Bytes) /\ Len(from) \in Nat /\ Len(from) \in Int
    BY FileSystemAssumption
  <1>4. PICK position, hdr, m :
          position = h.seekPosition /\ hdr = h.hdr /\ m = InFile(hdr, Len(from), position)
    OBVIOUS
  <1>5. m \in Nat /\ position \in Nat
    BY <1>2, <1>3, <1>4, InFileFacts DEF IsHeader
  <1>6. /\ answer' = <<"Write", m>> /\ misused' = (gone /\ m > 0)
        /\ pending' = WriteAt(d, hdr, from, position) /\ image' = d
        /\ handle' = [h EXCEPT !.seekPosition = @ + m]
    BY <1>1, <1>2, <1>4 DEF Write
  <1>7. PICK g, p : p = position + m /\ g = handle' /\ g = [h EXCEPT !.seekPosition = p]
    BY <1>4, <1>6
  <1>8. HandleThen.position = position /\ HandleThen.file = files
    BY <1>2, <1>4
  <1>9. answer'[1] = "Write" /\ answer'[2] = m
    BY <1>6
  <1>10. CASE gone /\ m > 0
    <2>1. Files!AMisuse
      BY <1>2, <1>8, <1>9, <1>10 DEF Files!AMisuse
    <2> QED BY <1>2, <1>6, <1>10, <2>1
  <1>11. CASE gone /\ m = 0
    <2>1. ~misused' /\ pending' = pending
      <3>1. WriteAt(d, hdr, from, position) = <<>>
        BY <1>4, <1>11 DEF WriteAt
      <3>2. (gone /\ m > 0) = FALSE
        BY <1>11
      <3>3. misused' = FALSE
        BY <1>6, <3>2
      <3> QED BY <1>1, <1>6, <3>1, <3>3 DEF Ready, Quiet
    <2>2. FilesThen' = FilesThen
      BY <1>1, <2>1, SameFiles
    <2>3. HandleThen' = HandleOn(g, gone, d)
      BY <1>1, <1>2, <1>7, <2>1, HandleThenIs
    <2>4. HandleOn(g, gone, d) = Moved(HandleOn(h, gone, d), p)
      <3>1. p \in Nat
        BY <1>5, <1>7
      <3>2. h # NULL /\ HandleOK(h, gone, d)
        BY <1>2
      <3> QED BY <1>7, <3>1, <3>2, Repositioned
    <2>5. HandleThen' = [HandleThen EXCEPT !.position = position + m]
      BY <1>2, <1>7, <2>3, <2>4 DEF Moved
    <2>6. Files!AWrite(from)
      BY <1>2, <1>8, <1>9, <1>11, <2>2, <2>5 DEF Files!AWrite
    <2> QED BY <1>2, <2>1, <2>6
  <1>12. CASE ~gone
    <2>1. ~misused'
      BY <1>6, <1>12
    <2>2. PICK r \in Listed(d) : /\ h.sector = Directory(d)[r].sector /\ hdr = HeaderAt(d, r)
                                 /\ files = {Directory(d)[r].name}
      BY <1>2, <1>4, <1>12
    <2>3. PICK name, bytes, e :
            /\ name = Directory(d)[r].name /\ bytes = FilesOn(d)[Directory(d)[r].name]
            /\ e = Settled(d, WriteAt(d, HeaderAt(d, r), from, position))
      OBVIOUS
    <2>4. Requested(d, hdr, bytes, Len(from), position, m)
      BY <1>2, <1>3, <1>4, <1>5, <2>2, <2>3, RequestIs
    <2>5. m = Files!InFile(bytes, position, Len(from))
      BY <2>4 DEF Requested
    <2>6. Files!Overwritten(bytes, position, SubSeq(from, 1, m))
            = NewBytes(hdr, bytes, from, position, m)
      BY <1>3, <2>4, OverwrittenIs
    <2>7. /\ Overwrites(d, r, from, position, m, e)
          /\ \A i \in Listed(d) :
               NameOf(e, Directory(d)[i].sector) = NameOf(d, Directory(d)[i].sector)
      BY <1>2, <1>3, <1>4, <1>5, <2>2, <2>3, FilesWritten
    <2>8. FilesOn(e) = [FilesOn(d) EXCEPT ![name] = NewBytes(hdr, bytes, from, position, m)]
      BY <2>2, <2>3, <2>7 DEF Overwrites
    <2>9. FilesThen' = FilesOn(e) /\ HandleThen' = HandleOn(g, gone, e)
      BY <1>1, <1>2, <1>6, <1>7, <2>1, <2>2, <2>3, FilesThenIs, HandleThenIs
    <2>10. HandleOn(g, gone, e) = Moved(HandleOn(h, gone, d), p)
      <3>1. NameOf(e, h.sector) = NameOf(d, h.sector)
        BY <2>2, <2>7
      <3>2. p \in Nat
        BY <1>5, <1>7
      <3>3. h # NULL /\ HandleOK(h, gone, d)
        BY <1>2
      <3> QED BY <1>7, <3>1, <3>2, <3>3, Repositioned
    <2>11. HandleThen' = [HandleThen EXCEPT !.position = position + m]
      BY <1>2, <1>7, <2>9, <2>10 DEF Moved
    <2>12. HandleThen.file = {name} /\ FilesThen[name] = bytes
      BY <1>2, <1>8, <2>2, <2>3
    <2>13. FilesThen' = [FilesThen EXCEPT ![name] =
                           Files!Overwritten(bytes, position, SubSeq(from, 1, m))]
      BY <1>2, <2>6, <2>8, <2>9
    <2>14. Files!AWrite(from)
      <3>1. HandleThen.file # {} /\ \A x \in HandleThen.file : x = name
        BY <2>12
      <3> QED BY <1>8, <1>9, <2>5, <2>11, <2>12, <2>13, <3>1 DEF Files!AWrite
    <2> QED BY <1>2, <2>1, <2>14
  <1> QED BY <1>2, <1>5, <1>10, <1>11, <1>12

\* The writes of an operation were promised when it began.
LEMMA WriteSectorImplements ==
    ASSUME IInv, WriteSector
    PROVE  UNCHANGED Files!afVars
  <1>1. UNCHANGED <<handle, removed, misused, answer>>
    BY DEF WriteSector
  <1>2. CASE ~misused
    <2>1. PICK d, w, k : Underway(d, w, k)
      BY <1>2 DEF IInv, DiskInv
    <2>2. Settled(image, pending)' = Settled(image, pending)
      BY <2>1, Continues
    <2>3. FilesThen' = FilesThen /\ HandleThen' = HandleThen
      BY <1>1, <1>2, <2>2, FilesThenIs, HandleThenIs
    <2> QED BY <1>1, <2>3 DEF Files!afVars
  <1>3. CASE misused
    BY <1>1, <1>3 DEF FilesThen, HandleThen, Files!afVars
  <1> QED BY <1>2, <1>3

LEMMA FilesNext ==
    ASSUME IInv, BytesInv, [FSNext]_fsVars
    PROVE  [Files!AFNext]_(Files!afVars)
  <1>1. ASSUME NEW name \in FileNames, NEW size \in Sizes, Create(name, size)
        PROVE  Files!AFNext
    <2>1. answer'[1] = "Create" /\ ~misused
      BY <1>1 DEF Create, Ready
    <2>2. IF misused' THEN Files!AMisuse ELSE Files!ACreate
      BY <1>1, CreateImplements
    <2> QED BY <2>1, <2>2 DEF Files!AFNext, Files!AOperation
  <1>2. ASSUME NEW name \in FileNames, Remove(name)
        PROVE  Files!AFNext
    <2>1. answer'[1] = "Remove" /\ ~misused
      BY <1>2 DEF Remove, Ready
    <2>2. Files!ARemove /\ ~misused'
      BY <1>2, RemoveImplements
    <2> QED BY <2>1, <2>2 DEF Files!AFNext, Files!AOperation
  <1>3. ASSUME NEW name \in FileNames, Open(name)
        PROVE  Files!AFNext
    <2>1. answer'[1] = "Open" /\ ~misused
      BY <1>3 DEF Open, Ready
    <2>2. Files!AOpen /\ ~misused'
      BY <1>3, OpenImplements
    <2> QED BY <2>1, <2>2 DEF Files!AFNext, Files!AOperation
  <1>4. ASSUME NEW name \in FileNames, NewOpenFile(name)
        PROVE  Files!AFNext
    <2>1. answer'[1] = "OpenFile" /\ ~misused
      BY <1>4 DEF NewOpenFile, Ready
    <2>2. Files!ANewOpenFile(Short(name)) /\ Short(name) \in {Short(n) : n \in FileNames}
          /\ ~misused'
      BY <1>4, NewOpenFileImplements
    <2> QED BY <2>1, <2>2 DEF Files!AFNext, Files!AOperation
  <1>5. ASSUME NEW n \in Counts, Read(n)
        PROVE  Files!AFNext
    <2>1. answer'[1] = "Read" /\ ~misused
      BY <1>5 DEF Read, Ready
    <2>2. Files!ARead(n) /\ HandleThen # <<>> /\ ~misused'
      BY <1>5, ReadImplements
    <2> QED BY <2>1, <2>2 DEF Files!AFNext, Files!AOperation
  <1>6. ASSUME NEW from \in Chunks, Write(from)
        PROVE  Files!AFNext
    <2>1. answer'[1] = "Write" /\ ~misused
      BY <1>6 DEF Write, Ready
    <2>2. HandleThen # <<>> /\ IF misused' THEN Files!AMisuse ELSE Files!AWrite(from)
      BY <1>6, WriteImplements
    <2> QED BY <2>1, <2>2 DEF Files!AFNext, Files!AOperation
  <1>7. ASSUME NEW p \in Positions, Seek(p)
        PROVE  Files!AFNext
    <2>1. answer'[1] = "Seek" /\ ~misused
      BY <1>7 DEF Seek, Ready
    <2>2. HandleThen # <<>> /\ IF misused' THEN Files!AMisuse ELSE Files!ASeek(p)
      BY <1>7, SeekImplements
    <2> QED BY <2>1, <2>2 DEF Files!AFNext, Files!AOperation
  <1>8. ASSUME Close
        PROVE  Files!AFNext
    <2>1. answer'[1] = "Close" /\ ~misused
      BY <1>8 DEF Close, Ready
    <2>2. Files!AClose /\ HandleThen # <<>> /\ ~misused'
      BY <1>8, CloseImplements
    <2> QED BY <2>1, <2>2 DEF Files!AFNext, Files!AOperation
  <1>9. ASSUME UNCHANGED fsVars
        PROVE  UNCHANGED Files!afVars
    <2>1. UNCHANGED <<image, pending, handle, removed, misused, answer>>
      BY <1>9 DEF fsVars
    <2>2. CASE ~misused
      BY <2>1, <2>2, SameFiles, SameHandle DEF Files!afVars
    <2>3. CASE misused
      BY <2>1, <2>3 DEF FilesThen, HandleThen, Files!afVars
    <2> QED BY <2>2, <2>3
  <1>10. CASE FSNext
    BY <1>10, <1>1, <1>2, <1>3, <1>4, <1>5, <1>6, <1>7, <1>8, WriteSectorImplements DEF FSNext
  <1> QED BY <1>9, <1>10

\* Up to the creation of a file longer than a header describes, a write to a
\* file that was removed or a negative position, the operations of the real file
\* system are those of a set of byte sequences by name: Create fails only for
\* want of a name, an entry or sectors that the files there leave, Remove takes
\* its file, the open one too, and Write changes its file alone, and Read
\* returns what was written.  Nothing is promised of what Open returns.
THEOREM FilesImplement == FSSpec => ImplementsFiles
  <1>1. FSInit => IInv /\ BytesInv
    BY InitInvariant, InitialBytes
  <1>2. FSInit => answer = <<"none">> /\ HandleThen = <<>> /\ ~misused
    <2> SUFFICES ASSUME FSInit PROVE answer = <<"none">> /\ HandleThen = <<>> /\ ~misused
      OBVIOUS
    <2>1. answer = <<"none">> /\ handle = NULL /\ misused = FALSE
      BY Zenon DEF FSInit
    <2> QED BY <2>1 DEF HandleThen
  <1>3. IInv /\ BytesInv /\ [FSNext]_fsVars => (IInv /\ BytesInv)'
    BY FileSystemNextInv, FileSystemNextBytes
  <1>4. IInv /\ BytesInv /\ [FSNext]_fsVars => [Files!AFNext]_(Files!afVars)
    BY FilesNext
  <1> QED BY <1>1, <1>2, <1>3, <1>4, PTL DEF FSSpec, ImplementsFiles, Files!AFSpec
=============================================================================
