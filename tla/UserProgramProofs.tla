-------------------------- MODULE UserProgramProofs --------------------------
(***************************************************************************)
(* Proofs about what the user program sees: the system calls and the       *)
(* processor.                                                              *)
(*                                                                         *)
(* FileTable and SystemCalls, for any names, any size of the table and any *)
(* bounds: FileTableInv is kept by every system call, open files keep      *)
(* their identifiers, a call that fails changes nothing, and a number that *)
(* PrintNum has shown is read back by ReadNum.                             *)
(*                                                                         *)
(* Machine, for any size of words, pages and memory, any instructions and  *)
(* any programs: registers hold words and register 0 is 0, the program and *)
(* the kernel translate addresses alike, and the use and dirty bits tell   *)
(* which pages have been changed, after any sequence of instructions.      *)
(***************************************************************************)
EXTENDS SystemCalls, Machine, FiniteSetTheorems, FunctionTheorems, SequenceTheorems,
        WellFoundedInduction, TLAPS

-----------------------------------------------------------------------------
(* Numbers and sequences.                                                  *)

\* A set of natural numbers that is not empty has a least one.
LEMMA LeastNumber ==
    ASSUME NEW S, S \subseteq Nat, S # {}
    PROVE  \E s \in S : \A r \in S : s <= r
  <1>1. PICK s \in S : \A r \in S : ~ (<<r, s>> \in OpToRel(<, Nat))
    BY WFMin, NatLessThanWellFounded, Zenon
  <1>2. \A r \in S : ~ (r < s)
    BY <1>1, Zenon DEF OpToRel
  <1> QED BY <1>2

\* Strong induction up to n, for a set in place of a predicate.
LEMMA Induction ==
    ASSUME NEW n \in Nat, NEW S,
           \A k \in 0 .. n : (\A j \in 0 .. n : j < k => j \in S) => k \in S
    PROVE  \A k \in 0 .. n : k \in S
  <1> DEFINE Bad == (0 .. n) \ S
  <1>1. CASE Bad = {}
    BY <1>1
  <1>2. CASE Bad # {}
    <2>1. Bad \subseteq Nat
      OBVIOUS
    <2>2. PICK m \in Bad : \A k \in Bad : m <= k
      <3> HIDE DEF Bad
      <3> QED BY <1>2, <2>1, LeastNumber
    <2>3. \A j \in 0 .. n : j < m => j \in S
      BY <2>2
    <2> QED BY <2>2, <2>3
  <1> QED BY <1>1, <1>2

\* Every set of natural numbers that is not empty has a least element: the
\* loops that look for the first entry of the table find one.
LEMMA LeastExists ==
    ASSUME NEW S, S \subseteq Nat, S # {}
    PROVE  (CHOOSE s \in S : \A r \in S : s <= r) \in S
  BY LeastNumber

\* A function on an interval is a sequence of that length.
LEMMA FunctionIsSeq ==
    ASSUME NEW S, NEW n \in Nat, NEW f \in [1 .. n -> S]
    PROVE  f \in Seq(S) /\ Len(f) = n
  <1>1. f \in Seq(S)
    BY SeqDef
  <1>2. DOMAIN f = 1 .. Len(f) /\ Len(f) \in Nat
    BY <1>1, LenProperties
  <1>3. DOMAIN f = 1 .. n
    OBVIOUS
  <1>4. Len(f) = n
    <2>1. CASE n < Len(f)
      <3>1. Len(f) \in 1 .. Len(f) /\ Len(f) \notin 1 .. n
        BY <1>2, <2>1
      <3> QED BY <1>2, <1>3, <3>1
    <2>2. CASE Len(f) < n
      <3>1. n \in 1 .. n /\ n \notin 1 .. Len(f)
        BY <1>2, <2>2
      <3> QED BY <1>2, <1>3, <3>1
    <2> QED BY <1>2, <2>1, <2>2
  <1> QED BY <1>1, <1>4

\* Write of the stub OpenFile: the file grows as far as it has to.
LEMMA OverwrittenType ==
    ASSUME NEW S, 0 \in S, NEW old \in Seq(S), NEW buffer \in Seq(S),
           NEW offset \in Nat
    PROVE  /\ Overwritten(old, offset, buffer) \in Seq(S)
           /\ Len(Overwritten(old, offset, buffer))
                = Maximum(Len(old), offset + Len(buffer))
  <1> DEFINE n == Maximum(Len(old), offset + Len(buffer))
             new == Overwritten(old, offset, buffer)
  <1>1. Len(old) \in Nat /\ Len(buffer) \in Nat /\ n \in Nat
    BY DEF Maximum
  <1>2. new = [i \in 1 .. n |->
                 IF i \in offset + 1 .. offset + Len(buffer) THEN buffer[i - offset]
                 ELSE IF i <= Len(old) THEN old[i] ELSE 0]
    BY DEF Overwritten
  <1>3. ASSUME NEW i \in 1 .. n PROVE new[i] \in S
    <2>1. CASE i \in offset + 1 .. offset + Len(buffer)
      <3>1. i - offset \in 1 .. Len(buffer)
        BY <1>1, <2>1
      <3>2. buffer[i - offset] \in S
        BY <3>1, ElementOfSeq
      <3> QED BY <1>2, <2>1, <3>2
    <2>2. CASE i \notin offset + 1 .. offset + Len(buffer) /\ i <= Len(old)
      <3>1. old[i] \in S
        BY <1>1, <2>2, ElementOfSeq
      <3> QED BY <1>2, <2>2, <3>1
    <2>3. CASE i \notin offset + 1 .. offset + Len(buffer) /\ ~(i <= Len(old))
      BY <1>2, <2>3
    <2> QED BY <2>1, <2>2, <2>3
  <1>4. new \in [1 .. n -> S]
    <2> HIDE DEF n
    <2> QED BY <1>2, <1>3
  <1> HIDE DEF n, new
  <1>5. new \in Seq(S) /\ Len(new) = n
    BY <1>1, <1>4, FunctionIsSeq
  <1> QED BY <1>5 DEF n, new

\* A buffer that Write is called with, as Kernel::User2System copies it.
LEMMA User2SystemType ==
    ASSUME NEW buffer \in Buffers
    PROVE  /\ User2System(buffer) \in Seq(Bytes \cup {0})
           /\ Len(User2System(buffer)) = Len(buffer)
           /\ Len(buffer) \in Nat
  <1>1. PICK n \in 0 .. MaxIO : buffer \in [1 .. n -> Bytes]
    BY DEF Buffers
  <1>2. n \in Nat /\ Len(buffer) = n
    BY <1>1, FunctionIsSeq, FileTableAssumption
  <1>3. User2System(buffer) \in [1 .. n -> Bytes \cup {0}]
    BY <1>1, <1>2 DEF User2System
  <1> QED BY <1>2, <1>3, FunctionIsSeq

-----------------------------------------------------------------------------
(* The table.                                                              *)

LEMMA SetOfTwo ==
    ASSUME NEW x, NEW y
    PROVE  IsFiniteSet({x, y}) /\ Cardinality({x, y}) <= 2
  <1>1. PICK S : S = {x}
    OBVIOUS
  <1>2. IsFiniteSet(S) /\ Cardinality(S) = 1
    BY <1>1, FS_Singleton
  <1>3. /\ IsFiniteSet(S \cup {y})
        /\ Cardinality(S \cup {y}) = 1 \/ Cardinality(S \cup {y}) = 2
    BY <1>2, FS_AddElement
  <1>4. {x, y} = S \cup {y}
    BY <1>1
  <1> QED BY <1>3, <1>4

\* A name that stands for no file can be given one: the others and the two
\* standard entries leave a UNIX file free, and so does every entry that Open
\* has filled, because its name stands for its file.
LEMMA FreeInodeIsFree ==
    ASSUME FileTableInv, NEW n \in Names, dir[n] = Null
    PROVE  /\ FreeInode \in Inodes
           /\ \A m \in Names : dir[m] # FreeInode
           /\ \A s \in Slots : IsOpen(s) => ListFile[s].inode # FreeInode
  <1> DEFINE Others == Names \ {n}
             Named == {dir[m] : m \in Others}
             Standard == {ListFile[0].inode, ListFile[1].inode}
             Used == Named \cup Standard
  <1>1. IsFiniteSet(Others) /\ Cardinality(Others) = Cardinality(Names) - 1
    BY FS_RemoveElement, FileTableAssumption
  <1>2. IsFiniteSet(Named) /\ Cardinality(Named) <= Cardinality(Others)
    <2> DEFINE f == [m \in Others |-> dir[m]]
    <2>1. f \in Surjection(Others, Named)
      BY DEF Surjection
    <2> HIDE DEF f, Others, Named
    <2> QED BY <1>1, <2>1, FS_Surjection
  <1>3. IsFiniteSet(Standard) /\ Cardinality(Standard) <= 2
    BY SetOfTwo
  <1>4. IsFiniteSet(Used) /\ Cardinality(Used) < Cardinality(Inodes)
    <2> HIDE DEF Others, Named, Standard
    <2>1. /\ IsFiniteSet(Named \cup Standard)
          /\ Cardinality(Named \cup Standard)
               = Cardinality(Named) + Cardinality(Standard)
                   - Cardinality(Named \cap Standard)
      BY <1>2, <1>3, FS_Union
    <2>2. IsFiniteSet(Named \cap Standard)
      BY <1>2, FS_Subset
    <2>3. /\ Cardinality(Named \cap Standard) \in Nat
          /\ Cardinality(Named) \in Nat /\ Cardinality(Standard) \in Nat
          /\ Cardinality(Names) \in Nat /\ Cardinality(Inodes) \in Nat
      BY <1>2, <1>3, <2>2, FS_CardinalityType, FileTableAssumption
    <2> QED BY <1>1, <1>2, <1>3, <2>1, <2>3, FileTableAssumption
  <1>5. \E i \in Inodes : i \notin Used
    <2> SUFFICES ASSUME Inodes \subseteq Used PROVE FALSE
      OBVIOUS
    <2> HIDE DEF Used
    <2>1. Cardinality(Inodes) <= Cardinality(Used)
      BY <1>4, FS_Subset
    <2> QED BY <1>4, <2>1, FS_CardinalityType, FileTableAssumption
  <1>6. /\ \A m \in Names : dir[m] \in Inodes => dir[m] \in Used
        /\ \A s \in Slots : IsOpen(s) => ListFile[s].inode \in Used
    <2>1. \A m \in Names : dir[m] \in Inodes => m \in Others
      BY FileTableAssumption
    <2>2. ASSUME NEW s \in Slots, IsOpen(s), s \notin {0, 1}
          PROVE  ListFile[s].inode \in Used
      <3>1. /\ s \in 2 .. TableSize - 1
            /\ ListFile[s].name \in Names /\ ListFile[s].inode \in Inodes
        BY <2>2, FileTableAssumption
           DEF Slots, IsOpen, FileTableInv, TypeOK, OpenFiles
      <3>2. dir[ListFile[s].name] = ListFile[s].inode
        BY <2>2, <3>1 DEF FileTableInv, OpenFilesHaveTheirName
      <3>3. ListFile[s].name \in Others
        BY <2>1, <3>1, <3>2
      <3> QED BY <3>2, <3>3
    <2> QED BY <2>1, <2>2
  <1>7. \A i \in Inodes : i \notin Used =>
          /\ \A m \in Names : dir[m] # i
          /\ \A s \in Slots : IsOpen(s) => ListFile[s].inode # i
    <2> HIDE DEF Used
    <2> QED BY <1>6
  <1> HIDE DEF Used
  <1> QED BY <1>5, <1>7 DEF FreeInode

\* The entries that Open and Remove search are natural numbers.
LEMMA FirstEntry ==
    /\ \A n \in Names : OpenAs(n) # {} =>
         (CHOOSE s \in OpenAs(n) : \A r \in OpenAs(n) : s <= r) \in OpenAs(n)
    /\ FindFreeSlot # -1 => FindFreeSlot \in FreeSlots
    /\ FindFreeSlot \in Int
    /\ 2 .. TableSize - 1 = Slots \ {0, 1}
  <1>1. 2 .. TableSize - 1 = Slots \ {0, 1} /\ Slots \subseteq Nat
    BY FileTableAssumption DEF Slots
  <1>2. ASSUME NEW n \in Names, OpenAs(n) # {}
        PROVE  (CHOOSE s \in OpenAs(n) : \A r \in OpenAs(n) : s <= r) \in OpenAs(n)
    <2>1. OpenAs(n) \subseteq Nat
      BY <1>1 DEF OpenAs
    <2> QED BY <1>2, <2>1, LeastExists
  <1>3. FreeSlots \subseteq Nat
    BY <1>1 DEF FreeSlots
  <1>4. FreeSlots # {} => FindFreeSlot \in FreeSlots
    <2> SUFFICES ASSUME FreeSlots # {} PROVE FindFreeSlot \in FreeSlots
      OBVIOUS
    <2>1. (CHOOSE s \in FreeSlots : \A r \in FreeSlots : s <= r) \in FreeSlots
      BY <1>3, LeastExists
    <2> QED BY <2>1 DEF FindFreeSlot
  <1>5. FreeSlots = {} => FindFreeSlot = -1
    BY DEF FindFreeSlot
  <1>6. FindFreeSlot # -1 => FindFreeSlot \in FreeSlots
    BY <1>4, <1>5
  <1>7. FindFreeSlot \in Int
    <2>1. CASE FreeSlots = {}
      BY <1>5, <2>1
    <2>2. CASE FreeSlots # {}
      <3>1. FindFreeSlot \in Nat
        BY <1>3, <1>4, <2>2, Zenon
      <3> QED BY <3>1
    <2> QED BY <2>1, <2>2
  <1> QED BY <1>1, <1>2, <1>6, <1>7, Zenon

-----------------------------------------------------------------------------
(***************************************************************************)
(* What the calls do to the table.  Each of the following kinds of step    *)
(* keeps the invariant.                                                    *)
(***************************************************************************)

\* A call that touches neither files nor directory nor table.
Quiet ==
    /\ UNCHANGED <<dir, data, ListFile>>
    /\ result' \in Int
    /\ crashed' \in BOOLEAN

LEMMA QuietInv ==
    ASSUME FileTableInv, Quiet
    PROVE  FileTableInv'
  BY DEF Quiet, FileTableInv, TypeOK, OneEntryPerName, OpenFilesHaveTheirName,
         FilesNotShared, IsOpen

LEMMA FailIsQuiet ==
    ASSUME FileTableInv, Fail \/ Crash
    PROVE  Quiet
  <1>1. result \in Int /\ crashed \in BOOLEAN
    BY DEF FileTableInv, TypeOK
  <1>2. CASE Fail
    BY <1>1, <1>2 DEF Fail, Return, Quiet
  <1>3. CASE Crash
    BY <1>1, <1>3 DEF Crash, Quiet
  <1> QED BY <1>2, <1>3

LEMMA RefuseIdIsQuiet ==
    ASSUME FileTableInv, NEW id, NEW first, RefuseId(id, first)
    PROVE  Quiet
  BY FailIsQuiet DEF RefuseId, LookBeyondTable

\* A call that moves the offset of an open file, and may write to it.
MovedTo(id, offset) ==
    /\ id \in Slots /\ IsOpen(id)
    /\ offset \in 0 .. MaxLength
    /\ ListFile' = [ListFile EXCEPT ![id].offset = offset]
    /\ UNCHANGED dir
    /\ data' \in [Inodes -> Seq(Bytes \cup {0})]
    /\ \A i \in Inodes : Len(data'[i]) <= MaxLength
    /\ result' \in Int
    /\ UNCHANGED crashed

\* What such a call leaves as it is.
LEMMA MovesKeeps ==
    ASSUME FileTableInv, NEW id, NEW offset, MovedTo(id, offset)
    PROVE  /\ ListFile' \in [Slots -> OpenFiles \cup {Null}]
           /\ \A s \in Slots :
                /\ IsOpen(s)' <=> IsOpen(s)
                /\ IsOpen(s) => /\ ListFile'[s].name = ListFile[s].name
                                /\ ListFile'[s].inode = ListFile[s].inode
  <1> DEFINE file == [ListFile[id] EXCEPT !.offset = offset]
  <1>1. /\ id \in Slots /\ ListFile[id] \in OpenFiles
        /\ ListFile \in [Slots -> OpenFiles \cup {Null}]
    BY DEF MovedTo, FileTableInv, TypeOK, IsOpen
  <1>2. /\ file \in OpenFiles
        /\ file.name = ListFile[id].name /\ file.inode = ListFile[id].inode
    BY <1>1 DEF OpenFiles, MovedTo
  <1>3. ListFile' = [ListFile EXCEPT ![id] = file]
    BY DEF MovedTo
  <1> HIDE DEF file
  <1>4. Null \notin OpenFiles
    BY FileTableAssumption
  <1>5. \A s \in Slots : ListFile'[s] = IF s = id THEN file ELSE ListFile[s]
    BY <1>1, <1>3
  <1> QED BY <1>1, <1>2, <1>3, <1>4, <1>5 DEF IsOpen, MovedTo

LEMMA MovesInv ==
    ASSUME FileTableInv, NEW id, NEW offset, MovedTo(id, offset)
    PROVE  FileTableInv'
  <1>1. /\ ListFile' \in [Slots -> OpenFiles \cup {Null}]
        /\ \A s \in Slots :
             /\ IsOpen(s)' <=> IsOpen(s)
             /\ IsOpen(s) => /\ ListFile'[s].name = ListFile[s].name
                             /\ ListFile'[s].inode = ListFile[s].inode
    BY MovesKeeps
  <1>2. 2 .. TableSize - 1 \subseteq Slots
    BY FirstEntry
  <1>3. dir' = dir
    BY DEF MovedTo
  <1>4. TypeOK'
    BY <1>1 DEF MovedTo, FileTableInv, TypeOK
  <1>5. OneEntryPerName'
    BY <1>1, <1>2 DEF FileTableInv, OneEntryPerName
  <1>6. OpenFilesHaveTheirName'
    BY <1>1, <1>2, <1>3 DEF FileTableInv, OpenFilesHaveTheirName
  <1>7. FilesNotShared'
    BY <1>1, <1>3 DEF FileTableInv, FilesNotShared
  <1> QED BY <1>4, <1>5, <1>6, <1>7 DEF FileTableInv

\* The empty file is a file.
LEMMA EmptiedType ==
    ASSUME TypeOK, NEW i \in Inodes, data' = [data EXCEPT ![i] = <<>>]
    PROVE  /\ data' \in [Inodes -> Seq(Bytes \cup {0})]
           /\ \A j \in Inodes : Len(data'[j]) <= MaxLength
  <1>1. <<>> \in Seq(Bytes \cup {0}) /\ Len(<<>>) = 0 /\ 0 <= MaxLength
    BY EmptySeq, FileTableAssumption
  <1>2. \A j \in Inodes : data'[j] = IF j = i THEN <<>> ELSE data[j]
    BY DEF TypeOK
  <1>3. data' \in [Inodes -> Seq(Bytes \cup {0})]
    BY <1>1 DEF TypeOK
  <1>4. \A j \in Inodes : Len(data'[j]) <= MaxLength
    BY <1>1, <1>2 DEF TypeOK
  <1> QED BY <1>3, <1>4

\* Create gives a new name a file that is nobody's, and empties an old one.
LEMMA CreateInv ==
    ASSUME FileTableInv, NEW n \in Names, File_Create(n)
    PROVE  FileTableInv'
  <1>1. /\ ListFile' = ListFile /\ result' = 0 /\ crashed' = crashed
        /\ \A s \in Slots : IsOpen(s)' <=> IsOpen(s)
    BY DEF File_Create, Return, IsOpen
  <1>2. CASE dir[n] = Null
    <2>1. dir' = [dir EXCEPT ![n] = FreeInode] /\ data' = data
      BY <1>2 DEF File_Create
    <2>2. /\ FreeInode \in Inodes
          /\ \A m \in Names : dir[m] # FreeInode
          /\ \A s \in Slots : IsOpen(s) => ListFile[s].inode # FreeInode
      BY <1>2, FreeInodeIsFree
    <2>3. \A m \in Names : dir'[m] = IF m = n THEN FreeInode ELSE dir[m]
      BY <2>1 DEF FileTableInv, TypeOK
    <2>4. TypeOK'
      BY <1>1, <2>1, <2>2 DEF FileTableInv, TypeOK
    <2>5. OneEntryPerName'
      BY <1>1, FirstEntry DEF FileTableInv, OneEntryPerName
    <2>6. OpenFilesHaveTheirName'
      <3> SUFFICES ASSUME NEW s \in 2 .. TableSize - 1, IsOpen(s)
                   PROVE  dir'[ListFile[s].name] = ListFile[s].inode
        BY <1>1, FirstEntry DEF OpenFilesHaveTheirName
      <3>1. s \in Slots /\ ListFile[s] \in OpenFiles
        BY FirstEntry DEF FileTableInv, TypeOK, IsOpen
      <3>2. ListFile[s].name \in Names /\ ListFile[s].inode \in Inodes
        BY <3>1 DEF OpenFiles
      <3>3. dir[ListFile[s].name] = ListFile[s].inode
        BY DEF FileTableInv, OpenFilesHaveTheirName
      <3>4. ListFile[s].name # n
        BY <1>2, <3>2, <3>3, FileTableAssumption
      <3> QED BY <2>3, <3>2, <3>3, <3>4
    <2>7. FilesNotShared'
      BY <1>1, <2>2, <2>3 DEF FileTableInv, FilesNotShared
    <2> QED BY <2>4, <2>5, <2>6, <2>7 DEF FileTableInv
  <1>3. CASE dir[n] # Null
    <2>1. dir' = dir /\ data' = [data EXCEPT ![dir[n]] = <<>>] /\ dir[n] \in Inodes
      BY <1>3 DEF File_Create, FileTableInv, TypeOK
    <2>2. TypeOK'
      <3>1. TypeOK
        BY DEF FileTableInv
      <3>2. /\ data' \in [Inodes -> Seq(Bytes \cup {0})]
            /\ \A i \in Inodes : Len(data'[i]) <= MaxLength
        BY <2>1, <3>1, EmptiedType
      <3> QED BY <1>1, <2>1, <3>1, <3>2 DEF TypeOK
    <2> QED BY <1>1, <2>1, <2>2, FirstEntry
            DEF FileTableInv, OneEntryPerName, OpenFilesHaveTheirName, FilesNotShared
  <1> QED BY <1>2, <1>3

\* Open of a name that is not open fills a free entry with the file that the
\* name stands for.
LEMMA OpenInv ==
    ASSUME FileTableInv, NEW n \in Names, File_Open(n)
    PROVE  FileTableInv'
  <1>1. CASE OpenAs(n) # {}
    <2>1. (CHOOSE s \in OpenAs(n) : \A r \in OpenAs(n) : s <= r) \in OpenAs(n)
      BY <1>1, FirstEntry
    <2>2. OpenAs(n) \subseteq Int
      BY DEF OpenAs
    <2>3. Quiet
      <3>1. crashed \in BOOLEAN
        BY DEF FileTableInv, TypeOK
      <3>2. Return(CHOOSE s \in OpenAs(n) : \A r \in OpenAs(n) : s <= r)
            /\ UNCHANGED <<dir, data, ListFile>>
        BY <1>1 DEF File_Open
      <3> QED BY <2>1, <2>2, <3>1, <3>2 DEF Return, Quiet
    <2> QED BY <2>3, QuietInv
  <1>2. CASE OpenAs(n) = {} /\ (Fail \/ Crash)
    BY <1>2, FailIsQuiet, QuietInv
  <1>3. CASE OpenAs(n) = {} /\ ~ (Fail \/ Crash)
    <2> DEFINE f == FindFreeSlot
               file == [name |-> n, inode |-> dir[n], offset |-> 0]
    <2>1. /\ f # -1 /\ dir[n] # Null
          /\ ListFile' = [ListFile EXCEPT ![f] = file]
          /\ UNCHANGED <<dir, data, crashed>> /\ result' = f
      BY <1>3 DEF File_Open, OpenNew, Return
    <2>2. f \in Slots /\ f \in 2 .. TableSize - 1 /\ f \in Int
      BY <2>1, FirstEntry DEF FreeSlots
    <2>3. dir[n] \in Inodes /\ file \in OpenFiles
      BY <2>1, FileTableAssumption DEF FileTableInv, TypeOK, OpenFiles
    <2>4. file.name = n /\ file.inode = dir[n]
      OBVIOUS
    <2> HIDE DEF f, file
    <2>5. \A s \in Slots : ListFile'[s] = IF s = f THEN file ELSE ListFile[s]
      BY <2>1 DEF FileTableInv, TypeOK
    <2>6. \A s \in Slots : s # f => (IsOpen(s)' <=> IsOpen(s))
      BY <2>5 DEF IsOpen
    <2>7. TypeOK'
      BY <2>1, <2>2, <2>3 DEF FileTableInv, TypeOK
    <2>8. \A s \in 2 .. TableSize - 1 : IsOpen(s) => ListFile[s].name # n
      BY <1>3 DEF OpenAs
    <2>9. OneEntryPerName'
      BY <2>4, <2>5, <2>6, <2>8, FirstEntry DEF FileTableInv, OneEntryPerName
    <2>10. OpenFilesHaveTheirName'
      BY <2>1, <2>4, <2>5, <2>6, FirstEntry DEF FileTableInv, OpenFilesHaveTheirName
    <2>11. FilesNotShared'
      BY <2>1, <2>3, <2>4, <2>5, <2>6 DEF FileTableInv, FilesNotShared
    <2> QED BY <2>7, <2>9, <2>10, <2>11 DEF FileTableInv
  <1> QED BY <1>1, <1>2, <1>3

\* What the tests at the start of a call let through.
LEMMA UsableSlot ==
    ASSUME FileTableInv, NEW id \in Ids, NEW first \in Nat, Usable(id, first)
    PROVE  /\ id \in Slots /\ IsOpen(id)
           /\ ListFile[id] \in OpenFiles
           /\ ListFile[id].inode \in Inodes
           /\ ListFile[id].offset \in 0 .. MaxLength
           /\ File(id) \in Seq(Bytes \cup {0}) /\ Len(File(id)) <= MaxLength
  <1>1. id \in Slots /\ IsOpen(id)
    BY FileTableAssumption DEF Usable, Refused, BeyondTable, Ids, Slots
  <1>2. ListFile[id] \in OpenFiles
    BY <1>1 DEF FileTableInv, TypeOK, IsOpen
  <1>3. /\ ListFile[id].inode \in Inodes
        /\ ListFile[id].offset \in 0 .. MaxLength
    BY <1>2 DEF OpenFiles
  <1> QED BY <1>1, <1>2, <1>3 DEF File, FileTableInv, TypeOK

LEMMA CloseInv ==
    ASSUME FileTableInv, NEW id \in Ids, File_Close(id)
    PROVE  FileTableInv'
  <1>1. CASE RefuseId(id, 2)
    BY <1>1, RefuseIdIsQuiet, QuietInv
  <1>2. CASE Usable(id, 2) /\ ~ RefuseId(id, 2)
    <2>1. id \in Slots
      BY <1>2, UsableSlot
    <2>2. /\ ListFile' = [ListFile EXCEPT ![id] = Null]
          /\ UNCHANGED <<dir, data, crashed>> /\ result' = 1
      BY <1>2 DEF File_Close, Return
    <2>3. \A s \in Slots : ListFile'[s] = IF s = id THEN Null ELSE ListFile[s]
      BY <2>2 DEF FileTableInv, TypeOK
    <2>4. \A s \in Slots : IsOpen(s)' <=> IsOpen(s) /\ s # id
      BY <2>3 DEF IsOpen
    <2>5. TypeOK'
      <3>1. ListFile' \in [Slots -> OpenFiles \cup {Null}]
        BY <2>2 DEF FileTableInv, TypeOK
      <3>2. TypeOK /\ result' \in Int
        BY <2>2 DEF FileTableInv
      <3> QED BY <2>2, <3>1, <3>2 DEF TypeOK
    <2> QED BY <2>2, <2>3, <2>4, <2>5, FirstEntry
            DEF FileTableInv, OneEntryPerName, OpenFilesHaveTheirName, FilesNotShared
  <1> QED BY <1>1, <1>2 DEF File_Close

\* Remove refuses a name that is open, so that no entry loses its name.
LEMMA RemoveInv ==
    ASSUME FileTableInv, NEW n \in Names, File_Remove(n)
    PROVE  FileTableInv'
  <1>1. CASE OpenAs(n) # {} \/ dir[n] = Null
    <2>1. Fail
      BY <1>1 DEF File_Remove
    <2> QED BY <2>1, FailIsQuiet, QuietInv
  <1>2. CASE OpenAs(n) = {} /\ dir[n] # Null
    <2>1. /\ dir' = [dir EXCEPT ![n] = Null] /\ ListFile' = ListFile
          /\ data' = data \/ data' = [data EXCEPT ![dir[n]] = <<>>]
          /\ result' = 0 /\ crashed' = crashed
          /\ \A s \in Slots : IsOpen(s)' <=> IsOpen(s)
      BY <1>2 DEF File_Remove, Unlink, Return, IsOpen
    <2>2. dir[n] \in Inodes /\ TypeOK
      BY <1>2 DEF FileTableInv, TypeOK
    <2>3. /\ data' \in [Inodes -> Seq(Bytes \cup {0})]
          /\ \A i \in Inodes : Len(data'[i]) <= MaxLength
      <3>1. CASE data' = data
        BY <2>2, <3>1 DEF TypeOK
      <3>2. CASE data' = [data EXCEPT ![dir[n]] = <<>>]
        BY <2>2, <3>2, EmptiedType
      <3> QED BY <2>1, <3>1, <3>2
    <2>4. TypeOK'
      <3>1. dir' \in [Names -> Inodes \cup {Null}]
        BY <2>1, <2>2 DEF TypeOK
      <3> QED BY <2>1, <2>2, <2>3, <3>1 DEF TypeOK
    <2>5. \A m \in Names : dir'[m] = IF m = n THEN Null ELSE dir[m]
      BY <2>1, <2>2 DEF TypeOK
    <2>6. OneEntryPerName'
      BY <2>1, FirstEntry DEF FileTableInv, OneEntryPerName
    <2>7. OpenFilesHaveTheirName'
      <3> SUFFICES ASSUME NEW s \in 2 .. TableSize - 1, IsOpen(s)
                   PROVE  dir'[ListFile[s].name] = ListFile[s].inode
        BY <2>1, FirstEntry DEF OpenFilesHaveTheirName
      <3>1. ListFile[s].name \in Names
        BY FirstEntry DEF FileTableInv, TypeOK, OpenFiles, IsOpen
      <3>2. ListFile[s].name # n
        BY <1>2 DEF OpenAs
      <3> QED BY <2>5, <3>1, <3>2 DEF FileTableInv, OpenFilesHaveTheirName
    <2>8. FilesNotShared'
      <3>1. \A s \in Slots : IsOpen(s) => ListFile[s].inode # Null
        BY FileTableAssumption DEF FileTableInv, TypeOK, OpenFiles, IsOpen
      <3> QED BY <2>1, <2>5, <3>1 DEF FileTableInv, FilesNotShared
    <2> QED BY <2>4, <2>6, <2>7, <2>8 DEF FileTableInv
  <1> QED BY <1>1, <1>2

\* Read ends at the end of the file and moves the offset by what it has read.
LEMMA BytesAtType ==
    ASSUME FileTableInv, NEW id \in Ids, Usable(id, 0), NEW size \in Sizes
    PROVE  /\ Len(BytesAt(id, size)) \in Nat
           /\ ListFile[id].offset + Len(BytesAt(id, size)) \in 0 .. MaxLength
           /\ BytesAt(id, size) # <<>> <=> Len(BytesAt(id, size)) > 0
  <1> DEFINE off == ListFile[id].offset
             file == File(id)
             n == Minimum(size, Maximum(0, Len(file) - off))
  <1>1. /\ off \in 0 .. MaxLength /\ file \in Seq(Bytes \cup {0})
        /\ Len(file) <= MaxLength /\ Len(file) \in Nat
        /\ MaxLength \in Nat /\ size \in Nat
    BY UsableSlot, LenProperties, FileTableAssumption DEF Sizes
  <1>2. BytesAt(id, size) = SubSeq(file, off + 1, off + n)
    BY DEF BytesAt
  <1> HIDE DEF off, file
  <1>3. n \in Nat /\ (n > 0 => off + n <= Len(file))
    BY <1>1 DEF Minimum, Maximum
  <1> HIDE DEF n
  <1>4. \A i \in off + 1 .. off + n : file[i] \in Bytes \cup {0}
    <2> SUFFICES ASSUME NEW i \in off + 1 .. off + n
                 PROVE  i \in 1 .. Len(file)
      BY <1>1, ElementOfSeq
    <2> QED BY <1>1, <1>3
  <1>5. off + 1 \in Int /\ off + n \in Int
    BY <1>1, <1>3
  <1>6. /\ SubSeq(file, off + 1, off + n) \in Seq(Bytes \cup {0})
        /\ Len(SubSeq(file, off + 1, off + n))
             = IF off + 1 <= off + n THEN (off + n) - (off + 1) + 1 ELSE 0
    BY <1>4, <1>5, SubSeqProperties
  <1>7. Len(BytesAt(id, size)) = n
    BY <1>1, <1>2, <1>3, <1>6
  <1>8. BytesAt(id, size) # <<>> <=> Len(BytesAt(id, size)) > 0
    <2>1. PICK bytes \in Seq(Bytes \cup {0}) : bytes = BytesAt(id, size)
      BY <1>2, <1>6
    <2>2. bytes # <<>> => Len(bytes) \in Nat \ {0}
      BY EmptySeq
    <2>3. Len(<<>>) = 0
      OBVIOUS
    <2> QED BY <2>1, <2>2, <2>3
  <1> QED BY <1>1, <1>3, <1>7, <1>8 DEF off

\* Reading a file moves its offset by what has been read, and a keyboard line
\* touches nothing at all.
LEMMA ReadFileMoves ==
    ASSUME FileTableInv, NEW id \in Ids, Usable(id, 0), NEW size \in Sizes,
           ReadFile(id, size)
    PROVE  MovedTo(id, ListFile[id].offset + Len(BytesAt(id, size)))
  <1> DEFINE bytes == BytesAt(id, size)
             n == Len(bytes)
  <1>1. /\ ListFile' = [ListFile EXCEPT ![id].offset = @ + n]
        /\ result' = IF bytes = <<>> THEN INT_MIN ELSE n
        /\ UNCHANGED <<dir, data, crashed>>
    BY DEF ReadFile
  <1>2. n \in Nat /\ ListFile[id].offset + n \in 0 .. MaxLength
    BY BytesAtType
  <1>3. INT_MIN \in Int
    BY DEF INT_MIN
  <1>4. id \in Slots /\ IsOpen(id)
    BY UsableSlot
  <1> HIDE DEF bytes, n
  <1>5. result' \in Int
    BY <1>1, <1>2, <1>3
  <1>6. /\ data \in [Inodes -> Seq(Bytes \cup {0})]
        /\ \A i \in Inodes : Len(data[i]) <= MaxLength
    BY DEF FileTableInv, TypeOK
  <1>7. ListFile' = [ListFile EXCEPT ![id].offset = ListFile[id].offset + n]
    BY <1>1
  <1> QED BY <1>1, <1>2, <1>4, <1>5, <1>6, <1>7 DEF MovedTo, n, bytes

LEMMA ReadKeyboardIsQuiet ==
    ASSUME FileTableInv, NEW size \in Sizes, ReadKeyboard(size)
    PROVE  Quiet
  <1>1. CASE Crash
    BY <1>1, FailIsQuiet
  <1>2. CASE ~ Crash
    <2>1. PICK n \in 0 .. size :
            result' = n /\ UNCHANGED <<dir, data, ListFile, crashed>>
      BY <1>2 DEF ReadKeyboard
    <2>2. result' \in Int /\ crashed' \in BOOLEAN
      BY <2>1 DEF FileTableInv, TypeOK
    <2> QED BY <2>1, <2>2 DEF Quiet
  <1> QED BY <1>1, <1>2

LEMMA ReadInv ==
    ASSUME FileTableInv, NEW id \in Ids, NEW size \in Sizes, File_Read(size, id)
    PROVE  FileTableInv'
  <1>1. CASE RefuseId(id, 0)
    BY <1>1, RefuseIdIsQuiet, QuietInv
  <1>2. CASE Usable(id, 0) /\ ReadKeyboard(size)
    BY <1>2, ReadKeyboardIsQuiet, QuietInv
  <1>3. CASE Usable(id, 0) /\ ReadFile(id, size)
    BY <1>3, ReadFileMoves, MovesInv
  <1> QED BY <1>1, <1>2, <1>3 DEF File_Read

\* Write keeps the file within its bound and moves the offset behind what it
\* has written.
LEMMA WriteFileMoves ==
    ASSUME FileTableInv, NEW id \in Ids, Usable(id, 0), NEW buffer \in Buffers,
           WriteFile(id, buffer)
    PROVE  /\ MovedTo(id, ListFile[id].offset + Len(buffer))
           /\ result' = Len(buffer) /\ Len(buffer) \in Nat
  <1> DEFINE off == ListFile[id].offset
             inode == ListFile[id].inode
             copy == User2System(buffer)
             new == Overwritten(data[inode], off, copy)
  <1>1. /\ id \in Slots /\ IsOpen(id) /\ inode \in Inodes /\ off \in 0 .. MaxLength
        /\ data[inode] \in Seq(Bytes \cup {0}) /\ Len(data[inode]) <= MaxLength
    BY UsableSlot DEF File
  <1>2. /\ copy \in Seq(Bytes \cup {0}) /\ Len(copy) = Len(buffer)
        /\ Len(buffer) \in Nat
    BY User2SystemType
  <1>3. /\ off + Len(buffer) <= MaxLength
        /\ data' = [data EXCEPT ![inode] = new]
        /\ ListFile' = [ListFile EXCEPT ![id].offset = off + Len(buffer)]
        /\ UNCHANGED <<dir, crashed>> /\ result' = Len(buffer)
    BY DEF WriteFile, Return
  <1> HIDE DEF off, inode, copy
  <1>4. off \in Nat /\ Len(data[inode]) \in Nat /\ MaxLength \in Nat
    BY <1>1, LenProperties, FileTableAssumption
  <1>5. /\ new \in Seq(Bytes \cup {0})
        /\ Len(new) = Maximum(Len(data[inode]), off + Len(copy))
    <2>1. 0 \in Bytes \cup {0}
      OBVIOUS
    <2> DEFINE old == data[inode]
    <2> HIDE DEF old
    <2>2. old \in Seq(Bytes \cup {0})
      BY <1>1 DEF old
    <2>3. /\ Overwritten(old, off, copy) \in Seq(Bytes \cup {0})
          /\ Len(Overwritten(old, off, copy)) = Maximum(Len(old), off + Len(copy))
      <3> DEFINE S == Bytes \cup {0}
      <3> HIDE DEF S
      <3>1. old \in Seq(S) /\ copy \in Seq(S) /\ 0 \in S /\ off \in Nat
        BY <1>2, <1>4, <2>1, <2>2 DEF S
      <3>2. /\ Overwritten(old, off, copy) \in Seq(S)
            /\ Len(Overwritten(old, off, copy)) = Maximum(Len(old), off + Len(copy))
        BY <3>1, OverwrittenType
      <3> QED BY <3>2 DEF S
    <2> QED BY <2>3 DEF old
  <1> HIDE DEF new
  <1>6. Len(new) <= MaxLength
    BY <1>1, <1>2, <1>3, <1>4, <1>5 DEF Maximum
  <1>7. /\ data \in [Inodes -> Seq(Bytes \cup {0})]
        /\ \A i \in Inodes : Len(data[i]) <= MaxLength
    BY DEF FileTableInv, TypeOK
  <1>8. data' \in [Inodes -> Seq(Bytes \cup {0})]
    BY <1>3, <1>5, <1>7
  <1>9. \A i \in Inodes : data'[i] = IF i = inode THEN new ELSE data[i]
    BY <1>3, <1>7
  <1>10. \A i \in Inodes : Len(data'[i]) <= MaxLength
    BY <1>6, <1>7, <1>9
  <1>11. off + Len(buffer) \in 0 .. MaxLength /\ result' \in Int
    BY <1>2, <1>3, <1>4
  <1> QED BY <1>1, <1>2, <1>3, <1>8, <1>10, <1>11 DEF MovedTo, off

LEMMA WriteNothingIsQuiet ==
    ASSUME FileTableInv, NEW id, WriteNothing(id)
    PROVE  Quiet
  <1>1. crashed \in BOOLEAN
    BY DEF FileTableInv, TypeOK
  <1> QED BY <1>1 DEF WriteNothing, SC_Write, Quiet

LEMMA WriteInv ==
    ASSUME FileTableInv, NEW id \in Ids, NEW buffer \in Buffers,
           File_Write(buffer, id)
    PROVE  FileTableInv'
  <1>1. CASE RefuseId(id, 0) \/ Fail
    BY <1>1, RefuseIdIsQuiet, FailIsQuiet, QuietInv
  <1>2. CASE Usable(id, 0) /\ WriteFile(id, buffer)
    BY <1>2, WriteFileMoves, MovesInv
  <1>3. CASE WriteNothing(id)
    BY <1>3, WriteNothingIsQuiet, QuietInv
  <1> QED BY <1>1, <1>2, <1>3 DEF File_Write

LEMMA SeekMoves ==
    ASSUME FileTableInv, NEW id \in Ids, NEW pos \in Positions,
           File_Seek(pos, id)
    PROVE  \/ RefuseId(id, 0) \/ Fail
           \/ \E p \in Nat : MovedTo(id, p) /\ result' = p
  <1> SUFFICES ASSUME ~ RefuseId(id, 0), ~ Fail
               PROVE  \E p \in Nat : MovedTo(id, p) /\ result' = p
    OBVIOUS
  <1> DEFINE p == IF pos = -1 THEN Len(File(id)) ELSE pos
  <1>1. /\ Usable(id, 0) /\ p \in 0 .. Len(File(id))
        /\ ListFile' = [ListFile EXCEPT ![id].offset = p]
        /\ UNCHANGED <<dir, data, crashed>> /\ result' = p
    BY DEF File_Seek, Return
  <1> HIDE DEF p
  <1>2. /\ id \in Slots /\ IsOpen(id)
        /\ File(id) \in Seq(Bytes \cup {0}) /\ Len(File(id)) <= MaxLength
    BY <1>1, UsableSlot
  <1>3. p \in Nat /\ p \in 0 .. MaxLength
    BY <1>1, <1>2, LenProperties, FileTableAssumption
  <1>4. /\ data \in [Inodes -> Seq(Bytes \cup {0})]
        /\ \A i \in Inodes : Len(data[i]) <= MaxLength
    BY DEF FileTableInv, TypeOK
  <1>5. MovedTo(id, p)
    BY <1>1, <1>2, <1>3, <1>4 DEF MovedTo
  <1> QED BY <1>1, <1>3, <1>5

LEMMA SeekInv ==
    ASSUME FileTableInv, NEW id \in Ids, NEW pos \in Positions,
           File_Seek(pos, id)
    PROVE  FileTableInv'
  BY SeekMoves, RefuseIdIsQuiet, FailIsQuiet, QuietInv, MovesInv

-----------------------------------------------------------------------------
(* The calls on numbers, characters and strings.                           *)

LEMMA GivesIsQuiet ==
    ASSUME FileTableInv, NEW r \in Int, NEW bytes, NEW characters,
           Gives(r, bytes, characters)
    PROVE  Quiet
  <1>1. crashed \in BOOLEAN
    BY DEF FileTableInv, TypeOK
  <1> QED BY <1>1 DEF Gives, Quiet

\* ReadNum gives a number whatever has been typed and lies in memory.
LEMMA ConvertedType ==
    ASSUME NEW text
    PROVE  Converted(text) \in Numbers
  <1>1. 0 \in Numbers /\ MinInt \in Numbers
    BY SystemCallsAssumption DEF Numbers, MinInt
  <1> QED BY <1>1 DEF Converted

LEMMA NumbersAreInt == Numbers \subseteq Int /\ MinInt \in Int /\ MaxInt \in Int
  BY SystemCallsAssumption DEF Numbers, MinInt

\* The characters of a C string are those of the buffer in front of its NUL.
LEMMA CStringType ==
    ASSUME NEW S, NEW buffer \in Seq(S)
    PROVE  CString(buffer) \in Seq(S)
  <1> DEFINE nuls == {k \in DOMAIN buffer : buffer[k] = 0}
  <1>1. DOMAIN buffer = 1 .. Len(buffer) /\ Len(buffer) \in Nat
    BY LenProperties
  <1>2. CASE nuls = {}
    BY <1>2 DEF CString
  <1>3. CASE nuls # {}
    <2>1. nuls \subseteq Nat
      BY <1>1
    <2>2. LeastOf(nuls) \in nuls
      <3> HIDE DEF nuls
      <3> QED BY <1>3, <2>1, LeastExists DEF LeastOf
    <2>3. CString(buffer) = SubSeq(buffer, 1, LeastOf(nuls) - 1)
      BY <1>3 DEF CString
    <2>4. LeastOf(nuls) \in 1 .. Len(buffer)
      BY <1>1, <2>2
    <2> HIDE DEF nuls
    <2>5. LeastOf(nuls) - 1 \in Int /\ LeastOf(nuls) - 1 <= Len(buffer)
      BY <1>1, <2>4
    <2>6. \A i \in 1 .. LeastOf(nuls) - 1 : buffer[i] \in S
      BY <1>1, <2>5, ElementOfSeq
    <2>7. SubSeq(buffer, 1, LeastOf(nuls) - 1) \in Seq(S)
      BY <2>5, <2>6, SubSeqProperties
    <2> QED BY <2>3, <2>7
  <1> QED BY <1>2, <1>3

LEMMA ReadCharIsQuiet ==
    ASSUME FileTableInv, NEW line \in Typed, EH_ReadChar(line)
    PROVE  Quiet
  <1> DEFINE text == CString(line)
             n == Minimum(Len(text), CharBuffer - 1)
             r == IF n = 1 THEN text[1] ELSE 0
  <1>1. text \in Seq(Int) /\ CharBuffer \in Nat
    BY CStringType, SystemCallsAssumption
  <1>2. Gives(r, <<>>, <<>>)
    BY DEF EH_ReadChar
  <1> HIDE DEF text
  <1>3. n = 1 => 1 \in 1 .. Len(text)
    BY <1>1, LenProperties DEF Minimum
  <1>4. r \in Int
    BY <1>1, <1>3, ElementOfSeq
  <1> HIDE DEF r
  <1> QED BY <1>2, <1>4, GivesIsQuiet

\* The calls that do not name a file touch none.
LEMMA ConsoleIsQuiet ==
    ASSUME FileTableInv, ConsoleNext
    PROVE  Quiet
  <1>1. CASE \E line \in Typed : EH_ReadNum(line)
    <2>1. PICK line \in Typed : EH_ReadNum(line)
      BY <1>1
    <2>2. CASE \E left \in Leftovers :
                 Gives(Converted(CString(line \o left)), <<>>, <<>>)
      BY <2>2, ConvertedType, NumbersAreInt, GivesIsQuiet
    <2> QED BY <2>1, <2>2, FailIsQuiet DEF EH_ReadNum
  <1>2. CASE \E line \in Typed : EH_ReadChar(line)
    BY <1>2, ReadCharIsQuiet
  <1>3. CASE \E line \in Typed : \E size \in StringSizes : ReadString(size, line)
    BY <1>3, GivesIsQuiet DEF ReadString
  <1>4. CASE \E n \in Numbers : PrintNum(n)
    BY <1>4, GivesIsQuiet DEF PrintNum
  <1>5. CASE \E op1, op2 \in {MinInt, -1, MaxInt} : SysAdd(op1, op2) \/ SysSub(op1, op2)
    <2>1. PICK n \in Int : Gives(Wrapped(n), <<>>, <<>>)
      BY <1>5, NumbersAreInt DEF SysAdd, SysSub
    <2>2. Wrapped(n) \in Int
      <3>1. MinInt \in Int /\ MaxInt - MinInt + 1 \in Nat \ {0}
        BY SystemCallsAssumption DEF MinInt
      <3>2. (n - MinInt) % (MaxInt - MinInt + 1) \in Int
        BY <3>1
      <3> QED BY <3>1, <3>2 DEF Wrapped
    <2> QED BY <2>1, <2>2, GivesIsQuiet
  <1>6. CASE \E string \in Strings : PrintString(string) \/ EH_PrintChar(string[1])
    BY <1>6, GivesIsQuiet DEF PrintString, EH_PrintChar
  <1>7. CASE RandomNum
    BY <1>7, GivesIsQuiet DEF RandomNum
  <1>8. CASE SysHalt
    BY <1>8, FailIsQuiet DEF SysHalt
  <1> QED BY <1>1, <1>2, <1>3, <1>4, <1>5, <1>6, <1>7, <1>8 DEF ConsoleNext

-----------------------------------------------------------------------------
(* The invariant.                                                          *)

\* The constructor opens two different files.
LEMMA InitInv == Init => FileTableInv
  <1> SUFFICES ASSUME Init PROVE FileTableInv
    OBVIOUS
  <1> DEFINE in == CHOOSE i \in Inodes : TRUE
             out == CHOOSE i \in Inodes \ {in} : TRUE
  <1>1. in \in Inodes /\ out \in Inodes /\ in # out
    <2>1. {StdinName, StdoutName} \subseteq Names /\ StdinName # StdoutName
      BY FileTableAssumption
    <2>2. Cardinality(Names) \in Nat /\ Cardinality(Inodes) \in Nat
          /\ Cardinality(Inodes) >= 2
      BY FS_CardinalityType, FileTableAssumption
    <2>3. Inodes # {}
      BY <2>2, FS_EmptySet
    <2>4. in \in Inodes
      BY <2>3
    <2> HIDE DEF in
    <2>5. Cardinality({in}) = 1
      BY FS_Singleton
    <2>6. Inodes \ {in} # {}
      <3> SUFFICES ASSUME Inodes = {in} PROVE FALSE
        BY <2>4
      <3> QED BY <2>2, <2>5
    <2> QED BY <2>4, <2>6
  <1>2. /\ dir = [n \in Names |-> CASE n = StdinName -> in
                                     [] n = StdoutName -> out
                                     [] OTHER -> Null]
        /\ data = [i \in Inodes |-> <<>>]
        /\ ListFile = [s \in Slots |->
               CASE s = 0 -> [name |-> StdinName, inode |-> in, offset |-> 0]
                 [] s = 1 -> [name |-> StdoutName, inode |-> out, offset |-> 0]
                 [] OTHER -> Null]
        /\ result = 0 /\ crashed = FALSE
    BY DEF Init
  <1> HIDE DEF in, out
  <1>3. StdinName \in Names /\ StdoutName \in Names /\ StdinName # StdoutName
        /\ MaxLength \in Nat /\ TableSize \in Nat /\ TableSize > 2
        /\ Null \notin Inodes /\ Null \notin OpenFiles
    BY FileTableAssumption
  <1> DEFINE stdin == [name |-> StdinName, inode |-> in, offset |-> 0]
             stdout == [name |-> StdoutName, inode |-> out, offset |-> 0]
  <1>4. stdin \in OpenFiles /\ stdout \in OpenFiles
    BY <1>1, <1>3 DEF OpenFiles
  <1>5. /\ stdin.name = StdinName /\ stdin.inode = in
        /\ stdout.name = StdoutName /\ stdout.inode = out
    OBVIOUS
  <1>6. ListFile = [s \in Slots |-> CASE s = 0 -> stdin [] s = 1 -> stdout
                                      [] OTHER -> Null]
    BY <1>2
  <1> HIDE DEF stdin, stdout
  <1>7. \A s \in Slots : /\ s = 0 => ListFile[s] = stdin
                         /\ s = 1 => ListFile[s] = stdout
                         /\ s # 0 /\ s # 1 => ListFile[s] = Null
    BY <1>6
  <1>8. ListFile \in [Slots -> OpenFiles \cup {Null}]
    BY <1>4, <1>6, <1>7
  <1>9. \A n \in Names : /\ n = StdinName => dir[n] = in
                         /\ n = StdoutName => dir[n] = out
                         /\ n # StdinName /\ n # StdoutName => dir[n] = Null
    BY <1>2, <1>3
  <1>10. TypeOK
    <2>1. dir \in [Names -> Inodes \cup {Null}]
      BY <1>1, <1>2, <1>9
    <2>2. <<>> \in Seq(Bytes \cup {0}) /\ Len(<<>>) = 0
      BY EmptySeq
    <2>3. /\ data \in [Inodes -> Seq(Bytes \cup {0})]
          /\ \A i \in Inodes : Len(data[i]) <= MaxLength
      BY <1>2, <1>3, <2>2
    <2>4. result \in Int
      BY <1>2
    <2>5. crashed \in BOOLEAN
      BY <1>2, Zenon
    <2> QED BY <1>8, <2>1, <2>3, <2>4, <2>5 DEF TypeOK
  <1>11. ASSUME NEW s \in Slots, IsOpen(s)
         PROVE  \/ s = 0 /\ ListFile[s] = stdin
                \/ s = 1 /\ ListFile[s] = stdout
    BY <1>7, <1>11 DEF IsOpen
  <1>12. OneEntryPerName /\ OpenFilesHaveTheirName
    <2>1. \A s \in 2 .. TableSize - 1 : s \in Slots /\ s # 0 /\ s # 1
      BY FirstEntry
    <2>2. \A s \in 2 .. TableSize - 1 : ~ IsOpen(s)
      BY <1>11, <2>1, Zenon
    <2> QED BY <2>2 DEF OneEntryPerName, OpenFilesHaveTheirName
  <1>13. FilesNotShared
    <2>1. \A m, n \in Names : dir[m] = dir[n] /\ dir[m] # Null => m = n
      BY <1>1, <1>9
    <2>2. ASSUME NEW s \in Slots, NEW n \in Names,
                 IsOpen(s), dir[n] = ListFile[s].inode
          PROVE  n = ListFile[s].name
      <3>1. \/ dir[n] = in /\ ListFile[s].name = StdinName
            \/ dir[n] = out /\ ListFile[s].name = StdoutName
        BY <1>5, <1>11, <2>2, Zenon
      <3> QED BY <1>1, <1>3, <1>9, <3>1, Zenon
    <2> QED BY <2>1, <2>2 DEF FilesNotShared
  <1> QED BY <1>10, <1>12, <1>13 DEF FileTableInv

LEMMA NextInv == FileTableInv /\ [CallsNext]_vars => FileTableInv'
  <1> SUFFICES ASSUME FileTableInv, [CallsNext]_vars PROVE FileTableInv'
    OBVIOUS
  <1>1. ASSUME NEW n \in Names, File_Create(n) \/ File_Open(n) \/ File_Remove(n)
        PROVE  FileTableInv'
    BY <1>1, CreateInv, OpenInv, RemoveInv
  <1>2. ASSUME NEW id \in Ids,
               \/ File_Close(id)
               \/ \E size \in Sizes : File_Read(size, id)
               \/ \E buffer \in Buffers : File_Write(buffer, id)
               \/ \E pos \in Positions : File_Seek(pos, id)
        PROVE  FileTableInv'
    BY <1>2, CloseInv, ReadInv, WriteInv, SeekInv
  <1>3. CASE ConsoleNext
    BY <1>3, ConsoleIsQuiet, QuietInv
  <1>4. CASE UNCHANGED vars
    <2>1. Quiet
      BY <1>4 DEF vars, Quiet, FileTableInv, TypeOK
    <2> QED BY <2>1, QuietInv
  <1> QED BY <1>1, <1>2, <1>3, <1>4 DEF CallsNext, Next

\* No sequence of system calls of any length opens a name twice, takes the file
\* away from under an open name, or makes a name stand for the file of another
\* one or for one that only a standard entry has kept (kernel.cc, File_*).
THEOREM SystemCallsCorrect == CallsSpec => []FileTableInv
  <1> QED BY InitInv, NextInv, PTL DEF CallsSpec

-----------------------------------------------------------------------------
(* What a step may never do.                                               *)

\* The two action properties of a step, as the runs check them.
Stable ==
    \A s \in Slots :
        IsOpen(s) => \/ IsOpen(s)' /\ ListFile'[s].inode = ListFile[s].inode
                                   /\ ListFile'[s].name = ListFile[s].name
                     \/ File_Close(s)

FailsClean == result' < 0 => UNCHANGED <<dir, data, ListFile>>

LEMMA QuietStep ==
    ASSUME Quiet
    PROVE  Stable /\ FailsClean
  BY DEF Quiet, Stable, FailsClean, IsOpen

LEMMA MovesStable ==
    ASSUME FileTableInv, NEW id, NEW offset, MovedTo(id, offset)
    PROVE  Stable
  BY MovesKeeps DEF Stable

LEMMA NamesStep ==
    ASSUME FileTableInv, NEW n \in Names,
           File_Create(n) \/ File_Open(n) \/ File_Remove(n)
    PROVE  Stable /\ FailsClean
  <1>1. CASE File_Create(n)
    BY <1>1 DEF File_Create, Return, Stable, FailsClean, IsOpen
  <1>2. CASE File_Open(n)
    <2>1. CASE OpenAs(n) # {}
      <3>1. ListFile' = ListFile /\ dir' = dir /\ data' = data
        BY <1>2, <2>1 DEF File_Open
      <3> QED BY <3>1 DEF Stable, FailsClean, IsOpen
    <2>2. CASE OpenAs(n) = {} /\ (Fail \/ Crash)
      BY <2>2, FailIsQuiet, QuietStep
    <2>3. CASE OpenAs(n) = {} /\ ~ (Fail \/ Crash)
      <3> DEFINE f == FindFreeSlot
                 file == [name |-> n, inode |-> dir[n], offset |-> 0]
      <3>1. /\ f # -1 /\ result' = f
            /\ ListFile' = [ListFile EXCEPT ![f] = file]
        BY <1>2, <2>3 DEF File_Open, OpenNew, Return
      <3>2. f \in FreeSlots
        BY <3>1, FirstEntry
      <3>3. ~ IsOpen(f) /\ f \in 2 .. TableSize - 1
        BY <3>2 DEF FreeSlots
      <3> HIDE DEF f, file
      <3>4. \A s \in Slots : s # f => ListFile'[s] = ListFile[s]
        BY <3>1 DEF FileTableInv, TypeOK
      <3>5. ~ (result' < 0)
        BY <3>1, <3>3
      <3> QED BY <3>3, <3>4, <3>5 DEF Stable, FailsClean, IsOpen
    <2> QED BY <2>1, <2>2, <2>3
  <1>3. CASE File_Remove(n)
    <2>1. CASE Fail
      BY <2>1, FailIsQuiet, QuietStep
    <2>2. CASE ~ Fail
      BY <1>3, <2>2 DEF File_Remove, Unlink, Return, Stable, FailsClean, IsOpen
    <2> QED BY <2>1, <2>2
  <1> QED BY <1>1, <1>2, <1>3

LEMMA CloseStep ==
    ASSUME FileTableInv, NEW id \in Ids, File_Close(id)
    PROVE  Stable /\ FailsClean
  <1>1. CASE RefuseId(id, 2)
    BY <1>1, RefuseIdIsQuiet, QuietStep
  <1>2. CASE ~ RefuseId(id, 2)
    <2>1. /\ ListFile' = [ListFile EXCEPT ![id] = Null] /\ result' = 1
      BY <1>2 DEF File_Close, Return
    <2>2. \A s \in Slots : s # id => ListFile'[s] = ListFile[s]
      BY <2>1 DEF FileTableInv, TypeOK
    <2>3. FailsClean
      BY <2>1 DEF FailsClean
    <2> QED BY <2>2, <2>3 DEF Stable, IsOpen
  <1> QED BY <1>1, <1>2

\* A Read that finds nothing returns the least int and moves the offset by 0.
LEMMA ReadFileStep ==
    ASSUME FileTableInv, NEW id \in Ids, Usable(id, 0), NEW size \in Sizes,
           ReadFile(id, size)
    PROVE  Stable /\ FailsClean
  <1> DEFINE bytes == BytesAt(id, size)
             n == Len(bytes)
  <1>1. Stable
    BY ReadFileMoves, MovesStable
  <1>2. /\ ListFile' = [ListFile EXCEPT ![id].offset = @ + n]
        /\ result' = IF bytes = <<>> THEN INT_MIN ELSE n
        /\ UNCHANGED <<dir, data>>
    BY DEF ReadFile
  <1>3. n \in Nat /\ (bytes # <<>> <=> n > 0)
    BY BytesAtType
  <1>4. /\ id \in Slots /\ ListFile[id] \in OpenFiles
        /\ ListFile[id].offset \in 0 .. MaxLength
        /\ ListFile \in [Slots -> OpenFiles \cup {Null}]
    BY UsableSlot DEF FileTableInv, TypeOK
  <1> HIDE DEF bytes, n
  <1>5. CASE n = 0
    <2>1. ListFile[id].offset + n = ListFile[id].offset
      BY <1>4, <1>5
    <2>2. [ListFile[id] EXCEPT !.offset = ListFile[id].offset] = ListFile[id]
      BY <1>4 DEF OpenFiles
    <2>3. ListFile' = [ListFile EXCEPT ![id] =
                         [ListFile[id] EXCEPT !.offset = ListFile[id].offset]]
      BY <1>2, <2>1
    <2>4. ListFile' = ListFile
      BY <1>4, <2>2, <2>3
    <2> QED BY <1>1, <1>2, <2>4 DEF FailsClean
  <1>6. CASE n # 0
    <2>1. ~ (result' < 0)
      BY <1>2, <1>3, <1>6
    <2> QED BY <1>1, <2>1 DEF FailsClean
  <1> QED BY <1>5, <1>6

LEMMA ReadStep ==
    ASSUME FileTableInv, NEW id \in Ids, NEW size \in Sizes, File_Read(size, id)
    PROVE  Stable /\ FailsClean
  <1>1. CASE RefuseId(id, 0) \/ ReadKeyboard(size)
    BY <1>1, RefuseIdIsQuiet, ReadKeyboardIsQuiet, QuietStep
  <1>2. CASE Usable(id, 0) /\ ReadFile(id, size)
    BY <1>2, ReadFileStep
  <1> QED BY <1>1, <1>2 DEF File_Read

LEMMA WriteStep ==
    ASSUME FileTableInv, NEW id \in Ids, NEW buffer \in Buffers,
           File_Write(buffer, id)
    PROVE  Stable /\ FailsClean
  <1>1. CASE RefuseId(id, 0) \/ Fail \/ WriteNothing(id)
    BY <1>1, RefuseIdIsQuiet, FailIsQuiet, WriteNothingIsQuiet, QuietStep
  <1>2. CASE Usable(id, 0) /\ WriteFile(id, buffer)
    <2>1. /\ MovedTo(id, ListFile[id].offset + Len(buffer))
          /\ result' = Len(buffer) /\ Len(buffer) \in Nat
      BY <1>2, WriteFileMoves
    <2>2. ~ (result' < 0)
      BY <2>1
    <2> QED BY <2>1, <2>2, MovesStable DEF FailsClean
  <1> QED BY <1>1, <1>2 DEF File_Write

LEMMA SeekStep ==
    ASSUME FileTableInv, NEW id \in Ids, NEW pos \in Positions,
           File_Seek(pos, id)
    PROVE  Stable /\ FailsClean
  <1>1. CASE RefuseId(id, 0) \/ Fail
    BY <1>1, RefuseIdIsQuiet, FailIsQuiet, QuietStep
  <1>2. CASE \E p \in Nat : MovedTo(id, p) /\ result' = p
    <2>1. PICK p \in Nat : MovedTo(id, p) /\ result' = p
      BY <1>2
    <2>2. ~ (result' < 0)
      BY <2>1
    <2> QED BY <2>1, <2>2, MovesStable DEF FailsClean
  <1> QED BY <1>1, <1>2, SeekMoves

LEMMA StepKeepsPromises ==
    FileTableInv /\ [CallsNext]_vars => Stable /\ FailsClean
  <1> SUFFICES ASSUME FileTableInv, [CallsNext]_vars
               PROVE  Stable /\ FailsClean
    OBVIOUS
  <1>1. ASSUME NEW n \in Names, File_Create(n) \/ File_Open(n) \/ File_Remove(n)
        PROVE  Stable /\ FailsClean
    BY <1>1, NamesStep
  <1>2. ASSUME NEW id \in Ids,
               \/ File_Close(id)
               \/ \E size \in Sizes : File_Read(size, id)
               \/ \E buffer \in Buffers : File_Write(buffer, id)
               \/ \E pos \in Positions : File_Seek(pos, id)
        PROVE  Stable /\ FailsClean
    BY <1>2, CloseStep, ReadStep, WriteStep, SeekStep
  <1>3. CASE ConsoleNext
    BY <1>3, ConsoleIsQuiet, QuietStep
  <1>4. CASE UNCHANGED vars
    BY <1>4 DEF vars, Stable, FailsClean, IsOpen
  <1> QED BY <1>1, <1>2, <1>3, <1>4 DEF CallsNext, Next

\* An identifier that Open has returned goes on standing for the same file and
\* the same name until Close is called for it, for any size of the table and
\* any number of files (kernel.cc, File_Open and FindFreeSlot).
THEOREM IdsStable == CallsSpec => IdsAreStable
  <1>1. FileTableInv /\ [CallsNext]_vars => Stable
    BY StepKeepsPromises
  <1> QED BY <1>1, SystemCallsCorrect, PTL DEF CallsSpec, IdsAreStable, Stable

\* A call whose result is negative has left the files, the directory and the
\* table as they were: each handler tests before it changes anything, and a
\* Read of nothing moves no offset (kernel.cc, File_*).
THEOREM FailuresChangeNothing == CallsSpec => FailedCallsChangeNothing
  <1>1. FileTableInv /\ [CallsNext]_vars => FailsClean
    BY StepKeepsPromises
  <1> QED BY <1>1, SystemCallsCorrect, PTL
          DEF CallsSpec, FailedCallsChangeNothing, FailsClean

-----------------------------------------------------------------------------
(* What ReadNum makes of digits.                                           *)

\* The values of the first k digits, for k up to n.
Sums(digits, n, re) ==
    /\ re[0] = 0
    /\ \A k \in 1 .. n : re[k] = re[k - 1] * 10 + (digits[k] - Zero)

\* They exist, and are ints.
LEMMA SumsExist ==
    ASSUME NEW digits \in Seq(Int), NEW n \in 0 .. Len(digits)
    PROVE  \E re \in [0 .. n -> Int] : Sums(digits, n, re)
  <1> DEFINE Good == {k \in 0 .. Len(digits) :
                        \E re \in [0 .. k -> Int] : Sums(digits, k, re)}
  <1>1. ASSUME NEW m \in 0 .. Len(digits),
               \A j \in 0 .. Len(digits) : j < m => j \in Good
        PROVE  m \in Good
    <2>1. CASE m = 0
      <3> DEFINE zero == [k \in 0 .. 0 |-> 0]
      <3>1. zero \in [0 .. 0 -> Int] /\ zero[0] = 0
        OBVIOUS
      <3>2. 1 .. 0 = {}
        OBVIOUS
      <3> HIDE DEF zero
      <3>3. Sums(digits, 0, zero)
        BY <3>1, <3>2 DEF Sums
      <3> QED BY <2>1, <3>1, <3>3
    <2>2. CASE m # 0
      <3>1. m - 1 \in 0 .. Len(digits) /\ m - 1 \in Good /\ m \in 1 .. Len(digits)
        BY <1>1, <2>2
      <3>2. PICK re \in [0 .. m - 1 -> Int] : Sums(digits, m - 1, re)
        BY <3>1
      <3> DEFINE next == [k \in 0 .. m |->
                   IF k = m THEN re[m - 1] * 10 + (digits[m] - Zero) ELSE re[k]]
      <3>3. digits[m] \in Int /\ re[m - 1] \in Int
        BY <3>1
      <3>4. next \in [0 .. m -> Int]
        BY <3>1, <3>2, <3>3 DEF Zero
      <3>5. next[0] = 0
        BY <3>1, <3>2 DEF Sums
      <3>6. ASSUME NEW k \in 1 .. m
            PROVE  next[k] = next[k - 1] * 10 + (digits[k] - Zero)
        <4>1. k - 1 \in 0 .. m - 1 /\ k - 1 # m /\ k \in 0 .. m /\ k - 1 \in 0 .. m
          BY <3>1
        <4>2. next[k - 1] = re[k - 1]
          BY <4>1
        <4>3. CASE k = m
          BY <4>2, <4>3
        <4>4. CASE k # m
          <5>1. k \in 1 .. m - 1 /\ next[k] = re[k]
            BY <3>1, <4>4
          <5> QED BY <3>2, <4>2, <5>1 DEF Sums
        <4> QED BY <4>3, <4>4
      <3> HIDE DEF next
      <3>7. Sums(digits, m, next)
        BY <3>5, <3>6 DEF Sums
      <3> QED BY <3>4, <3>7
    <2> QED BY <2>1, <2>2
  <1> HIDE DEF Good
  <1>2. Len(digits) \in Nat
    OBVIOUS
  <1>3. \A k \in 0 .. Len(digits) : k \in Good
    BY <1>1, <1>2, Induction
  <1> QED BY <1>3 DEF Good

Agree(s, t, n) == \A k \in 1 .. n : s[k] = t[k]

\* They depend on nothing but the first n digits.
LEMMA SumsUnique ==
    ASSUME NEW s, NEW t, NEW n \in Nat, NEW p, NEW q,
           Agree(s, t, n), Sums(s, n, p), Sums(t, n, q)
    PROVE  \A k \in 0 .. n : p[k] = q[k]
  <1> DEFINE Good == {k \in 0 .. n : p[k] = q[k]}
  <1>1. ASSUME NEW m \in 0 .. n, \A j \in 0 .. n : j < m => j \in Good
        PROVE  m \in Good
    <2>1. CASE m = 0
      BY <2>1 DEF Sums, Agree
    <2>2. CASE m # 0
      <3>1. m \in 1 .. n /\ m - 1 \in 0 .. n /\ m - 1 \in Good
        BY <1>1, <2>2
      <3>2. p[m] = q[m]
        BY <3>1 DEF Sums, Agree
      <3> QED BY <3>2
    <2> QED BY <2>1, <2>2
  <1> HIDE DEF Good
  <1>2. \A k \in 0 .. n : k \in Good
    BY <1>1, Induction
  <1> QED BY <1>2 DEF Good

\* ValueOf is the last of them.
LEMMA ValueIsSum ==
    ASSUME NEW digits \in Seq(Int)
    PROVE  \E re \in [0 .. Len(digits) -> Int] :
              Sums(digits, Len(digits), re) /\ ValueOf(digits) = re[Len(digits)]
  <1> DEFINE n == Len(digits)
             Eq(re) == re = [k \in 0 .. n |->
                         IF k = 0 THEN 0 ELSE re[k - 1] * 10 + (digits[k] - Zero)]
             f == CHOOSE re : Eq(re)
  <1>1. n \in Nat
    OBVIOUS
  <1>2. PICK g \in [0 .. n -> Int] : Sums(digits, n, g)
    BY <1>1, SumsExist
  <1>3. Eq(g)
    BY <1>1, <1>2 DEF Sums
  <1>4. Eq(f)
    BY <1>3
  <1>5. ValueOf(digits) = f[n]
    BY DEF ValueOf
  <1> HIDE DEF f
  <1>6. Sums(digits, n, f)
    <2>1. f[0] = 0
      BY <1>1, <1>4
    <2>2. ASSUME NEW k \in 1 .. n
          PROVE  f[k] = f[k - 1] * 10 + (digits[k] - Zero)
      <3>1. k \in 0 .. n /\ k # 0
        BY <1>1
      <3> HIDE DEF n
      <3> QED BY <1>4, <3>1
    <2> QED BY <2>1, <2>2 DEF Sums
  <1> HIDE DEF n
  <1>7. \A k \in 0 .. n : g[k] = f[k]
    BY <1>1, <1>2, <1>6, SumsUnique DEF Agree
  <1>8. ValueOf(digits) = g[n]
    BY <1>1, <1>5, <1>7
  <1> QED BY <1>2, <1>8 DEF n

\* One more digit.
LEMMA ValueAppend ==
    ASSUME NEW s \in Seq(Int), NEW d \in Int
    PROVE  ValueOf(Append(s, d)) = ValueOf(s) * 10 + (d - Zero)
  <1> DEFINE t == Append(s, d)
             n == Len(s)
  <1>1. t \in Seq(Int) /\ Len(t) = n + 1 /\ n \in Nat /\ t[n + 1] = d
        /\ \A k \in 1 .. n : s[k] = t[k]
    OBVIOUS
  <1> HIDE DEF t
  <1>2. PICK p : p \in [0 .. n -> Int] /\ Sums(s, n, p) /\ ValueOf(s) = p[n]
    BY ValueIsSum
  <1>3. PICK q : q \in [0 .. n + 1 -> Int] /\ Sums(t, n + 1, q) /\ ValueOf(t) = q[n + 1]
    BY <1>1, ValueIsSum
  <1>4. Sums(t, n, q)
    BY <1>1, <1>3 DEF Sums
  <1> HIDE DEF n
  <1>5. \A k \in 0 .. n : p[k] = q[k]
    <2>1. n \in Nat /\ \A k \in 1 .. n : s[k] = t[k]
      BY <1>1
    <2>2. Sums(s, n, p)
      BY <1>2
    <2>3. Agree(s, t, n)
      BY <2>1 DEF Agree
    <2> QED BY <2>1, <2>2, <2>3, <1>4, SumsUnique
  <1>6. q[n + 1] = q[n] * 10 + (d - Zero)
    <2>1. n + 1 \in 1 .. n + 1 /\ (n + 1) - 1 = n
      BY <1>1
    <2> QED BY <1>1, <1>3, <2>1 DEF Sums
  <1>7. p[n] = q[n]
    BY <1>1, <1>5
  <1> QED BY <1>2, <1>3, <1>6, <1>7 DEF t

LEMMA ValueOfOne ==
    ASSUME NEW d \in Int
    PROVE  ValueOf(<<d>>) = d - Zero
  <1>1. <<d>> \in Seq(Int) /\ Len(<<d>>) = 1 /\ <<d>>[1] = d
    OBVIOUS
  <1>2. PICK p \in [0 .. 1 -> Int] : Sums(<<d>>, 1, p) /\ ValueOf(<<d>>) = p[1]
    BY <1>1, ValueIsSum
  <1>3. p[0] = 0 /\ p[1] = p[1 - 1] * 10 + (<<d>>[1] - Zero)
    BY <1>2 DEF Sums
  <1> QED BY <1>1, <1>2, <1>3 DEF Zero

-----------------------------------------------------------------------------
(* What PrintNum shows.                                                    *)

LEMMA TenthIsLess ==
    ASSUME NEW k \in Nat, k >= 10
    PROVE  /\ k \div 10 \in Nat /\ k \div 10 < k /\ k \div 10 > 0
           /\ k % 10 \in 0 .. 9
           /\ k = (k \div 10) * 10 + (k % 10)
  OBVIOUS

\* Text shows the numbers up to n.
Shows(n, text) ==
    text = [k \in 0 .. n |->
              IF k < 10 THEN <<Zero + k>> ELSE Append(text[k \div 10], Zero + (k % 10))]

\* Every number has a text.
LEMMA TextExists ==
    ASSUME NEW n \in Nat
    PROVE  \E text : Shows(n, text)
  <1> DEFINE Form(text, k) ==
               IF k < 10 THEN <<Zero + k>> ELSE Append(text[k \div 10], Zero + (k % 10))
             Good == {m \in 0 .. n : \E text : Shows(m, text)}
  <1>1. ASSUME NEW m \in 0 .. n, \A j \in 0 .. n : j < m => j \in Good
        PROVE  m \in Good
    <2>1. CASE m = 0
      <3> DEFINE zero == [k \in 0 .. 0 |-> <<Zero + k>>]
      <3>1. \A k \in 0 .. 0 : zero[k] = Form(zero, k)
        OBVIOUS
      <3>2. zero = [k \in 0 .. 0 |-> Form(zero, k)]
        <4> HIDE DEF Form
        <4> QED BY <3>1
      <3>3. Shows(0, zero)
        BY <3>2 DEF Shows
      <3> QED BY <2>1, <3>3
    <2>2. CASE m # 0
      <3>1. m - 1 \in 0 .. n /\ m - 1 \in Good
        BY <1>1, <2>2
      <3>2. PICK text : Shows(m - 1, text)
        BY <3>1
      <3> DEFINE next == [k \in 0 .. m |-> IF k = m THEN Form(text, m) ELSE text[k]]
      <3>3. ASSUME NEW k \in 0 .. m
            PROVE  next[k] = Form(next, k)
        <4>1. Form(next, k) = Form(text, k)
          <5>1. CASE k < 10
            BY <5>1
          <5>2. CASE k >= 10
            <6>1. k \div 10 \in 0 .. m /\ k \div 10 # m
              BY <5>2, TenthIsLess
            <6>2. next[k \div 10] = text[k \div 10]
              BY <6>1
            <6> QED BY <5>2, <6>2
          <5> QED BY <5>1, <5>2
        <4>2. CASE k = m
          BY <4>1, <4>2
        <4>3. CASE k # m
          <5>1. k \in 0 .. m - 1
            BY <4>3
          <5>2. text[k] = Form(text, k)
            BY <3>2, <5>1 DEF Shows
          <5> QED BY <4>1, <4>3, <5>2
        <4> QED BY <4>2, <4>3
      <3>4. next = [k \in 0 .. m |-> Form(next, k)]
        <4> HIDE DEF Form
        <4> QED BY <3>3
      <3>5. Shows(m, next)
        BY <3>4 DEF Shows
      <3> HIDE DEF next
      <3> QED BY <3>5
    <2> QED BY <2>1, <2>2
  <1> HIDE DEF Good
  <1>2. n \in Good
    BY <1>1, Induction
  <1> QED BY <1>2 DEF Good

LEMMA DigitsEquation ==
    \A k \in 0 .. MaxInt + 1 :
        /\ k < 10 => DigitsOf[k] = <<Zero + k>>
        /\ k >= 10 => DigitsOf[k] = Append(DigitsOf[k \div 10], Zero + (k % 10))
  <1>1. MaxInt + 1 \in Nat
    BY SystemCallsAssumption
  <1>2. \E text : Shows(MaxInt + 1, text)
    BY <1>1, TextExists
  <1>3. DigitsOf = CHOOSE text : Shows(MaxInt + 1, text)
    BY DEF DigitsOf, Shows
  <1>4. Shows(MaxInt + 1, DigitsOf)
    BY <1>2, <1>3
  <1>5. \A k \in 0 .. MaxInt + 1 : DigitsOf[k] =
          IF k < 10 THEN <<Zero + k>> ELSE Append(DigitsOf[k \div 10], Zero + (k % 10))
    BY <1>4, Zenon DEF Shows
  <1>6. \A k \in 0 .. MaxInt + 1 : k >= 10 => ~ (k < 10)
    BY <1>1
  <1> QED BY <1>5, <1>6, Zenon

\* Reading the digits of a number gives the number.
LEMMA DigitsCorrect ==
    \A k \in 0 .. MaxInt + 1 :
        /\ DigitsOf[k] \in Seq(Digits) /\ DigitsOf[k] \in Seq(Int)
        /\ Len(DigitsOf[k]) >= 1
        /\ ValueOf(DigitsOf[k]) = k
  <1> DEFINE n == MaxInt + 1
             Right(k) == /\ DigitsOf[k] \in Seq(Digits) /\ DigitsOf[k] \in Seq(Int)
                         /\ Len(DigitsOf[k]) >= 1
                         /\ ValueOf(DigitsOf[k]) = k
             Good == {k \in 0 .. n : Right(k)}
  <1>1. n \in Nat
    BY SystemCallsAssumption
  <1>2. ASSUME NEW k \in 0 .. n, \A j \in 0 .. n : j < k => j \in Good
        PROVE  k \in Good
    <2>1. CASE k < 10
      <3>1. DigitsOf[k] = <<Zero + k>>
        BY <2>1, DigitsEquation
      <3>2. Zero + k \in Digits /\ Zero + k \in Int /\ (Zero + k) - Zero = k
        BY <1>1, <2>1 DEF Digits, Zero
      <3>3. ValueOf(<<Zero + k>>) = k
        BY <3>2, ValueOfOne
      <3>4. <<Zero + k>> \in Seq(Digits) /\ <<Zero + k>> \in Seq(Int) /\ Len(<<Zero + k>>) = 1
        BY <3>2
      <3>5. Right(k)
        BY <3>1, <3>3, <3>4
      <3> HIDE DEF Right
      <3> QED BY <3>5
    <2>2. CASE k >= 10
      <3> DEFINE j == k \div 10
                 d == Zero + (k % 10)
      <3>1. j \in 0 .. n /\ j < k /\ d \in Digits /\ d \in Int /\ k = j * 10 + (d - Zero)
        <4>1. k \in Nat
          BY <1>1
        <4>2. /\ j \in Nat /\ j < k /\ k % 10 \in 0 .. 9
              /\ k = j * 10 + (k % 10)
          BY <4>1, <2>2, TenthIsLess
        <4> DEFINE r == k % 10
        <4> HIDE DEF j, r
        <4>3. Zero + r \in Digits /\ Zero + r \in Int /\ (Zero + r) - Zero = r
          BY <4>2 DEF r, Digits, Zero
        <4> QED BY <1>1, <4>1, <4>2, <4>3 DEF r
      <3>2. DigitsOf[k] = Append(DigitsOf[j], d)
        BY <2>2, DigitsEquation, Zenon
      <3> HIDE DEF j, d
      <3>3. Right(j)
        BY <1>2, <3>1
      <3>4. ValueOf(Append(DigitsOf[j], d)) = j * 10 + (d - Zero)
        BY <3>1, <3>3, ValueAppend
      <3>5. /\ Append(DigitsOf[j], d) \in Seq(Digits)
            /\ Append(DigitsOf[j], d) \in Seq(Int)
            /\ Len(Append(DigitsOf[j], d)) >= 1
        BY <3>1, <3>3
      <3>6. Right(k)
        BY <3>1, <3>2, <3>4, <3>5
      <3> HIDE DEF Right
      <3> QED BY <3>6
    <2> QED BY <1>1, <2>1, <2>2
  <1> HIDE DEF Good
  <1>3. \A k \in 0 .. n : k \in Good
    BY <1>1, <1>2, Induction
  <1> QED BY <1>3 DEF Good

\* A greater number has no fewer digits.
LEMMA DigitsGrow ==
    \A k \in 0 .. MaxInt + 1 : \A j \in 0 .. k :
        Len(DigitsOf[j]) <= Len(DigitsOf[k])
  <1> DEFINE n == MaxInt + 1
             Good == {k \in 0 .. n : \A j \in 0 .. k :
                        Len(DigitsOf[j]) <= Len(DigitsOf[k])}
  <1>1. n \in Nat
    BY SystemCallsAssumption
  <1>2. ASSUME NEW k \in 0 .. n, \A i \in 0 .. n : i < k => i \in Good,
               NEW j \in 0 .. k
        PROVE  Len(DigitsOf[j]) <= Len(DigitsOf[k])
    <2>1. j \in 0 .. n /\ Len(DigitsOf[k]) \in Nat /\ Len(DigitsOf[k]) >= 1
      BY <1>1, DigitsCorrect
    <2>2. CASE j < 10
      <3>1. DigitsOf[j] = <<Zero + j>>
        BY <2>1, <2>2, DigitsEquation
      <3> QED BY <2>1, <3>1
    <2>3. CASE j >= 10
      <3> DEFINE jj == j \div 10
                 kk == k \div 10
      <3>1. jj \in 0 .. kk /\ kk \in 0 .. n /\ kk < k /\ jj \in 0 .. n /\ k >= 10
        <4>1. k \in Nat /\ j \in Nat /\ k >= 10 /\ j <= k
          BY <1>1, <2>3
        <4>2. jj \in Nat /\ kk \in Nat /\ kk < k
          BY <4>1, <2>3, TenthIsLess
        <4>3. jj <= kk
          BY <4>1
        <4> HIDE DEF jj, kk
        <4> QED BY <1>1, <4>1, <4>2, <4>3
      <3>2. /\ DigitsOf[j] = Append(DigitsOf[jj], Zero + (j % 10))
            /\ DigitsOf[k] = Append(DigitsOf[kk], Zero + (k % 10))
        <4>1. k \in 0 .. MaxInt + 1 /\ j \in 0 .. MaxInt + 1
          BY <2>1
        <4> QED BY <4>1, <2>3, <3>1, DigitsEquation, Zenon
      <3> HIDE DEF jj, kk
      <3>3. Len(DigitsOf[jj]) <= Len(DigitsOf[kk])
        BY <1>2, <3>1
      <3>4. DigitsOf[jj] \in Seq(Int) /\ DigitsOf[kk] \in Seq(Int)
        BY <3>1, DigitsCorrect
      <3>5. /\ Len(DigitsOf[j]) = Len(DigitsOf[jj]) + 1
            /\ Len(DigitsOf[k]) = Len(DigitsOf[kk]) + 1
        BY <3>2, <3>4
      <3> QED BY <3>3, <3>4, <3>5
    <2> QED BY <1>1, <2>2, <2>3
  <1>3. \A k \in 0 .. n : (\A i \in 0 .. n : i < k => i \in Good) => k \in Good
    BY <1>2
  <1> HIDE DEF Good
  <1>4. \A k \in 0 .. n : k \in Good
    BY <1>1, <1>3, Induction
  <1> QED BY <1>4 DEF Good

\* Where a C string without a NUL gets one, it ends.
LEMMA EndedString ==
    ASSUME NEW text \in Seq(Int), \A k \in DOMAIN text : text[k] # 0
    PROVE  CString(text \o <<0>>) = text
  <1> DEFINE n == Len(text)
             buffer == text \o <<0>>
             nuls == {k \in DOMAIN buffer : buffer[k] = 0}
  <1>1. n \in Nat /\ DOMAIN text = 1 .. n /\ buffer \in Seq(Int) /\ Len(buffer) = n + 1
        /\ DOMAIN buffer = 1 .. n + 1
        /\ buffer[n + 1] = 0 /\ \A k \in 1 .. n : buffer[k] = text[k]
    OBVIOUS
  <1> HIDE DEF buffer
  <1>2. nuls = {n + 1}
    BY <1>1
  <1>3. LeastOf(nuls) = n + 1
    BY <1>1, <1>2 DEF LeastOf
  <1>4. CString(buffer) = SubSeq(buffer, 1, n)
    <2>1. nuls # {} /\ (n + 1) - 1 = n
      BY <1>1, <1>2
    <2> HIDE DEF nuls
    <2>2. CString(buffer) = SubSeq(buffer, 1, LeastOf(nuls) - 1)
      BY <2>1 DEF CString, nuls
    <2> QED BY <1>3, <2>1, <2>2
  <1>5. SubSeq(buffer, 1, n) = text
    BY <1>1
  <1> QED BY <1>4, <1>5 DEF buffer

\* ReadNum on digits, with or without a sign.
LEMMA ReadsDigits ==
    ASSUME NEW body \in Seq(Digits), body \in Seq(Int), Len(body) >= 1
    PROVE  /\ ValueOf(body) \in Numbers => Converted(body) = ValueOf(body)
           /\ -ValueOf(body) \in Numbers =>
                  Converted(<<Minus>> \o body) = -ValueOf(body)
  <1>1. /\ Len(body) \in Nat /\ DOMAIN body = 1 .. Len(body)
        /\ \A k \in 1 .. Len(body) : body[k] \in Digits
    OBVIOUS
  <1>2. {k \in DOMAIN body : body[k] = Dot} = {} /\ body # <<>> /\ body[1] # Minus
    <2>1. \A d \in Digits : d # Dot /\ d # Minus
      BY DEF Digits, Zero, Dot, Minus
    <2> QED BY <1>1, <2>1
  <1>3. ~ (\E k \in DOMAIN body : body[k] \notin Digits \cup {Dot})
    BY <1>1
  <1>4. ~ (Cardinality({}) > 1)
    BY FS_EmptySet
  <1>5. ValueOf(body) \in Numbers => Converted(body) = ValueOf(body)
    <2> DEFINE v == ValueOf(body)
    <2>1. Converted(body) = IF v \in Numbers THEN v ELSE MinInt
      BY <1>2, <1>3, <1>4, Zenon DEF Converted
    <2> QED BY <2>1, Zenon
  <1> DEFINE text == <<Minus>> \o body
  <1>6. text # <<>> /\ text[1] = Minus /\ Tail(text) = body /\ body # text
    <2>1. text \in Seq(Int) /\ Len(text) = Len(body) + 1 /\ text[1] = Minus
      BY DEF Minus
    <2>2. \A k \in 1 .. Len(body) : text[k + 1] = body[k]
      BY <1>1 DEF Minus
    <2> HIDE DEF text
    <2>3. text # <<>> /\ body # text
      BY <1>1, <2>1
    <2>4. /\ Tail(text) \in Seq(Int) /\ Len(Tail(text)) = Len(body)
          /\ \A k \in 1 .. Len(body) : Tail(text)[k] = text[k + 1]
      BY <1>1, <2>1, <2>3
    <2>5. \A k \in 1 .. Len(body) : Tail(text)[k] = body[k]
      BY <2>2, <2>4
    <2> DEFINE tail == Tail(text)
    <2> HIDE DEF tail
    <2>6. tail = body
      BY <1>1, <2>4, <2>5, SeqEqual DEF tail
    <2> QED BY <2>1, <2>3, <2>6 DEF tail
  <1> HIDE DEF text
  <1>7. -ValueOf(body) \in Numbers => Converted(text) = -ValueOf(body)
    <2> DEFINE v == -ValueOf(body)
    <2>1. Converted(text) = IF v \in Numbers THEN v ELSE MinInt
      BY <1>2, <1>3, <1>4, <1>6, Zenon DEF Converted
    <2> QED BY <2>1, Zenon
  <1> QED BY <1>5, <1>7 DEF text

\* What PrintNum shows can be read, and is no longer than the number furthest from 0.
LEMMA ShownReadsBack ==
    ASSUME NEW n \in Numbers
    PROVE  /\ Converted(CString(Shown(n) \o <<0>>)) = n
           /\ Len(Shown(n)) < PrintBuffer /\ Len(Shown(n)) <= NumBuffer
  <1> DEFINE abs == IF n < 0 THEN -n ELSE n
             most == MaxInt + 1
  <1>1. abs \in 0 .. most /\ most \in 0 .. most /\ n \in Int /\ MaxInt \in Nat
    BY SystemCallsAssumption DEF Numbers, MinInt
  <1>2. /\ DigitsOf[abs] \in Seq(Digits) /\ DigitsOf[abs] \in Seq(Int)
        /\ Len(DigitsOf[abs]) >= 1 /\ ValueOf(DigitsOf[abs]) = abs
        /\ DigitsOf[most] \in Seq(Int)
    BY <1>1, DigitsCorrect
  <1>3. Len(DigitsOf[abs]) <= Len(DigitsOf[most])
    BY <1>1, DigitsGrow
  <1>4. Shown(n) = IF n < 0 THEN <<Minus>> \o DigitsOf[abs] ELSE DigitsOf[abs]
    BY DEF Shown
  <1>5. Shown(MinInt) = <<Minus>> \o DigitsOf[most]
    <2>1. MinInt < 0 /\ -MinInt = most
      BY <1>1 DEF MinInt
    <2> QED BY <2>1 DEF Shown
  <1> HIDE DEF most
  <1>6. Converted(Shown(n)) = n
    <2>1. CASE n < 0
      <3>1. -abs = n
        BY <1>1, <2>1
      <3> HIDE DEF abs
      <3> QED BY <1>2, <1>4, <2>1, <3>1, ReadsDigits
    <2>2. CASE ~ (n < 0)
      <3>1. abs = n
        BY <2>2
      <3> HIDE DEF abs
      <3> QED BY <1>2, <1>4, <2>2, <3>1, ReadsDigits
    <2> QED BY <2>1, <2>2
  <1> HIDE DEF abs
  <1>7. Shown(n) \in Seq(Int) /\ \A k \in DOMAIN Shown(n) : Shown(n)[k] # 0
    <2>1. \A k \in 1 .. Len(DigitsOf[abs]) : DigitsOf[abs][k] # 0
      <3>1. \A d \in Digits : d # 0
        BY DEF Digits, Zero
      <3> QED BY <1>2, <3>1
    <2>2. CASE n < 0
      BY <1>2, <1>4, <2>1, <2>2 DEF Minus
    <2>3. CASE ~ (n < 0)
      BY <1>2, <1>4, <2>1, <2>3
    <2> QED BY <2>2, <2>3
  <1>8. Len(Shown(n)) <= Len(Shown(MinInt)) /\ Len(Shown(n)) \in Nat
        /\ Len(Shown(MinInt)) \in Nat
    BY <1>2, <1>3, <1>4, <1>5 DEF Minus
  <1>9. CString(Shown(n) \o <<0>>) = Shown(n)
    BY <1>7, EndedString
  <1> QED BY <1>6, <1>8, <1>9, BuffersAssumption

\* Every number PrintNum shows, the most negative one included, is read back by
\* ReadNum as the number it was, and fits the buffers of both (kernel.cc,
\* EH_ReadNum and PrintNum): for any width of integers and any size of the
\* buffers in which the number furthest from 0 finds room.
THEOREM NumbersComeBack == CallsSpec => NumbersReadBack
  <1> DEFINE Back == shown' # <<>> => \A n \in Numbers : PrintNum(n) =>
                       /\ Converted(CString(shown' \o <<0>>)) = n
                       /\ Len(shown') < PrintBuffer /\ Len(shown') <= NumBuffer
  <1>1. Back
    BY ShownReadsBack DEF PrintNum, Gives
  <1> QED BY <1>1, PTL DEF NumbersReadBack

-----------------------------------------------------------------------------
(* The processor: words *)

LEMMA PowerNat == \A n \in 0..WordBits : 2^n \in Nat \ {0}
  BY ByteBitsAssumption, PowersOfTwo DEF WordBits

LEMMA PowerSum == \A m, n \in 0..WordBits : 2^(m + n) = 2^m * 2^n
  BY ByteBitsAssumption, PowersOfTwo DEF WordBits

\* A word is four bytes and two halves.
LEMMA WordSizes ==
  /\ WordBits \in Nat /\ WordBits >= 4 /\ ByteBits \in 1..WordBits
  /\ 2 * ByteBits \in 1..WordBits /\ 3 * ByteBits \in 1..WordBits
  /\ 2^ByteBits \in Nat /\ 2^ByteBits >= 2 /\ Half \in Nat \ {0} /\ 2^WordBits \in Nat \ {0}
  /\ Half = 2^ByteBits * 2^ByteBits /\ 2^(3 * ByteBits) = Half * 2^ByteBits
  /\ 2^WordBits = Half * Half /\ Half <= 2^WordBits
  <1>1. /\ WordBits \in Nat /\ WordBits >= 4 /\ ByteBits \in 1..WordBits
        /\ 2 * ByteBits \in 1..WordBits /\ 3 * ByteBits \in 1..WordBits
        /\ WordBits = 4 * ByteBits
    BY ByteBitsAssumption DEF WordBits
  <1>2. 2^ByteBits \in Nat \ {0} /\ Half \in Nat \ {0} /\ 2^WordBits \in Nat \ {0}
    BY <1>1, PowerNat DEF Half
  <1>3. 2^ByteBits >= 2
    <2>1. 1 \in 0..WordBits /\ ByteBits - 1 \in 0..WordBits /\ 1 + (ByteBits - 1) = ByteBits
      BY <1>1
    <2>2. 2^ByteBits = 2^1 * 2^(ByteBits - 1)
      BY <2>1, PowerSum
    <2>3. 2^1 = 2 /\ 2^(ByteBits - 1) \in Nat \ {0}
      BY <2>1, PowerNat
    <2> QED BY <2>2, <2>3
  <1>4. Half = 2^ByteBits * 2^ByteBits
    <2>1. 2 * ByteBits = ByteBits + ByteBits
      BY <1>1
    <2> QED BY <1>1, <2>1, PowerSum DEF Half
  <1>5. 2^(3 * ByteBits) = Half * 2^ByteBits
    <2>1. 3 * ByteBits = 2 * ByteBits + ByteBits
      BY <1>1
    <2> QED BY <1>1, <2>1, PowerSum DEF Half
  <1>6. 2^WordBits = Half * Half
    <2>1. WordBits = 2 * ByteBits + 2 * ByteBits
      BY <1>1
    <2> QED BY <1>1, <2>1, PowerSum DEF Half
  <1>7. Half <= 2^WordBits
    <2>1. \A h \in Nat \ {0} : h <= h * h
      OBVIOUS
    <2> QED BY <1>2, <1>6, <2>1
  <1> QED BY <1>1, <1>2, <1>3, <1>4, <1>5, <1>6, <1>7

LEMMA Remainder == \A n \in Int, m \in Nat \ {0} : n % m \in 0..m - 1
  OBVIOUS

LEMMA WrapWord == \A n \in Int : Wrap(n) \in Word
  BY WordSizes, Remainder DEF Wrap, Word

LEMMA WordFacts ==
  /\ \A w \in Word : w \in Nat
  /\ 0 \in Word /\ 1 \in Word /\ 4 \in Word
  /\ \A w \in Word : Signed(w) \in Int
  /\ \A n \in 0..Half - 1 : n \in Word
  <1>1. 4 <= 2^WordBits - 1
    <2>1. \A b \in Nat : b >= 2 => b * b >= 4
      OBVIOUS
    <2>2. Half >= 4
      BY <2>1, WordSizes
    <2>3. \A h \in Nat : h >= 4 => h * h >= 5
      OBVIOUS
    <2> QED BY <2>2, <2>3, WordSizes
  <1> QED BY <1>1, WordSizes DEF Word, Signed

LEMMA ByteAtByte ==
    ASSUME NEW w \in Word, NEW k \in 0..3
    PROVE  ByteAt(w, k) \in Byte
  <1>1. ByteBits * k \in 0..WordBits
    BY WordSizes, ByteBitsAssumption DEF WordBits
  <1>2. 2^(ByteBits * k) \in Nat \ {0}
    BY <1>1, PowerNat
  <1>3. w \div 2^(ByteBits * k) \in Int
    BY <1>2, WordFacts
  <1>4. \A q \in Int : q % 2^ByteBits \in Byte
    BY WordSizes, Remainder DEF Byte
  <1> QED BY <1>3, <1>4 DEF ByteAt

\* A number of size bytes.
Assembles(bytes, a, size) == \A k \in 0..size - 1 : bytes[a + k] \in Byte

LEMMA AssembledIs ==
    ASSUME NEW bytes, NEW a \in Int, NEW size \in {1, 2, 4}, Assembles(bytes, a, size)
    PROVE  LET B == 2^ByteBits IN
           /\ size = 1 => Assembled(bytes, a, 1) = bytes[a]
           /\ size = 2 => Assembled(bytes, a, 2) = bytes[a] + B * bytes[a + 1]
           /\ size = 4 => Assembled(bytes, a, 4) =
                bytes[a] + B * (bytes[a + 1] + B * (bytes[a + 2] + B * bytes[a + 3]))
  <1> DEFINE B == 2^ByteBits
             Is(f) == f = [k \in 0..size |-> IF k = size THEN 0 ELSE bytes[a + k] + B * f[k + 1]]
             value == CHOOSE f : Is(f)
             b(k) == bytes[a + k]
             v3 == b(3)
             v2 == IF size > 3 THEN b(2) + B * v3 ELSE b(2)
             v1 == IF size > 2 THEN b(1) + B * v2 ELSE b(1)
             v0 == IF size > 1 THEN b(0) + B * v1 ELSE b(0)
             g == [k \in 0..size |-> IF k = size THEN 0 ELSE
                     CASE k = 0 -> v0 [] k = 1 -> v1 [] k = 2 -> v2 [] OTHER -> v3]
  <1>1. B \in Nat /\ \A k \in 0..size - 1 : b(k) \in Int
    BY WordSizes DEF Assembles, Byte
  <1>2. /\ size = 1 => v0 = b(0)
        /\ size = 2 => v0 = b(0) + B * v1 /\ v1 = b(1)
        /\ size = 4 => v0 = b(0) + B * v1 /\ v1 = b(1) + B * v2 /\ v2 = b(2) + B * v3 /\ v3 = b(3)
    OBVIOUS
  <1> HIDE DEF v0, v1, v2, v3
  <1>3. \A k \in 0..size :
          g[k] = IF k = size THEN 0 ELSE b(k) + B * g[k + 1]
    <2> SUFFICES ASSUME NEW k \in 0..size
                 PROVE  g[k] = IF k = size THEN 0 ELSE b(k) + B * g[k + 1]
      OBVIOUS
    <2>1. CASE size = 1
      BY <1>1, <1>2, <2>1
    <2>2. CASE size = 2
      BY <1>1, <1>2, <2>2
    <2>3. CASE size = 4
      BY <1>1, <1>2, <2>3
    <2> QED BY <2>1, <2>2, <2>3
  <1>4. Is(value)
    <2>1. Is(g)
      <3> DEFINE h == [k \in 0..size |-> IF k = size THEN 0 ELSE b(k) + B * g[k + 1]]
      <3>1. DOMAIN g = 0..size /\ g = [k \in 0..size |-> g[k]]
        OBVIOUS
      <3> HIDE DEF g
      <3>2. g = h
        BY <1>3, <3>1
      <3> QED BY <3>2
    <2> QED BY <2>1
  <1> HIDE DEF value
  <1>9. value[size] = 0 /\ \A k \in 0..size - 1 : value[k] = b(k) + B * value[k + 1]
    <2>1. \A k \in 0..size : value[k] = IF k = size THEN 0 ELSE b(k) + B * value[k + 1]
      BY <1>4
    <2> QED BY <2>1
  <1>5. Assembled(bytes, a, size) = value[0]
    BY DEF Assembled, value
  <1>6. CASE size = 1
    BY <1>1, <1>5, <1>6, <1>9
  <1>7. CASE size = 2
    BY <1>1, <1>5, <1>7, <1>9
  <1>8. CASE size = 4
    BY <1>1, <1>5, <1>8, <1>9
  <1> QED BY <1>6, <1>7, <1>8

\* The numbers of size bytes.
ValuesOf(size) == 0..(CASE size = 1 -> 2^ByteBits [] size = 2 -> Half [] OTHER -> 2^WordBits) - 1

LEMMA AssembledNumber ==
    ASSUME NEW bytes, NEW a \in Int, NEW size \in {1, 2, 4}, Assembles(bytes, a, size)
    PROVE  Assembled(bytes, a, size) \in ValuesOf(size)
  <1> DEFINE B == 2^ByteBits
             D == 0..B - 1
  <1>1. B \in Nat /\ B >= 2
    BY WordSizes
  <1>2. \A k \in 0..size - 1 : bytes[a + k] \in D
    BY DEF Assembles, Byte
  <1>3. \A m \in Nat \ {0} : \A x \in D, y \in 0..m - 1 : x + B * y \in 0..B * m - 1
    <2> HIDE DEF B
    <2> SUFFICES ASSUME NEW m \in Nat \ {0}, NEW x \in D, NEW y \in 0..m - 1
                 PROVE  x + B * y \in 0..B * m - 1
      OBVIOUS
    <2>1. B * y <= B * (m - 1) /\ B * y >= 0 /\ B * y \in Int /\ B * m \in Int
      BY <1>1
    <2>2. B * (m - 1) = B * m - B
      BY <1>1
    <2> QED BY <1>1, <2>1, <2>2
  <1>4. /\ Half = B * B /\ 2^WordBits = B * (B * (B * B))
        /\ B * B \in Nat \ {0} /\ B * (B * B) \in Nat \ {0}
    <2>1. Half = B * B /\ 2^WordBits = Half * Half
      BY WordSizes
    <2> HIDE DEF B
    <2>2. (B * B) * (B * B) = B * (B * (B * B)) /\ B * B \in Nat \ {0} /\ B * (B * B) \in Nat \ {0}
      BY <1>1
    <2> QED BY <2>1, <2>2
  <1>5. CASE size = 1
    BY <1>2, <1>5, AssembledIs DEF ValuesOf
  <1>6. CASE size = 2
    <2>1. bytes[a] \in D /\ bytes[a + 1] \in D
      BY <1>2, <1>6
    <2>2. bytes[a] + B * bytes[a + 1] \in 0..B * B - 1
      BY <1>1, <1>3, <2>1
    <2> QED BY <1>4, <1>6, <2>2, AssembledIs DEF ValuesOf
  <1>7. CASE size = 4
    <2>1. bytes[a] \in D /\ bytes[a + 1] \in D /\ bytes[a + 2] \in D /\ bytes[a + 3] \in D
      BY <1>2, <1>7
    <2>2. bytes[a + 2] + B * bytes[a + 3] \in 0..B * B - 1
      BY <1>1, <1>3, <2>1
    <2>3. bytes[a + 1] + B * (bytes[a + 2] + B * bytes[a + 3]) \in 0..B * (B * B) - 1
      BY <1>3, <1>4, <2>1, <2>2
    <2>4. bytes[a] + B * (bytes[a + 1] + B * (bytes[a + 2] + B * bytes[a + 3]))
            \in 0..B * (B * (B * B)) - 1
      BY <1>3, <1>4, <2>1, <2>3
    <2> QED BY <1>4, <1>7, <2>4, AssembledIs DEF ValuesOf
  <1> QED BY <1>5, <1>6, <1>7

LEMMA NumberIsWord ==
    ASSUME NEW size \in {1, 2, 4}, NEW n \in ValuesOf(size)
    PROVE  n \in Word /\ (size # 4 => SignExtended(n, size) \in Word)
  <1>1. 2^ByteBits <= Half /\ Half <= 2^WordBits
    <2>1. \A b \in Nat : b >= 2 => b <= b * b
      OBVIOUS
    <2> QED BY <2>1, WordSizes
  <1>2. n \in Word
    BY <1>1, WordSizes DEF ValuesOf, Word
  <1>3. ASSUME size # 4 PROVE SignExtended(n, size) \in Word
    <2>1. 2^(size * ByteBits) = CASE size = 1 -> 2^ByteBits [] OTHER -> Half
      BY <1>3, ByteBitsAssumption DEF Half
    <2>2. /\ n < 2^(size * ByteBits) /\ 2^(size * ByteBits) \in Nat
          /\ 2^(size * ByteBits) <= 2^WordBits
      BY <1>1, <1>3, <2>1, WordSizes DEF ValuesOf
    <2>3. n + 2^WordBits - 2^(size * ByteBits) \in Word
      BY <2>2, <1>2, WordSizes DEF Word
    <2> QED BY <1>2, <2>3 DEF SignExtended
  <1> QED BY <1>2, <1>3

\* The parts of words that LWL, LWR, SWL and SWR put together.
LEMMA PartsAreInts ==
    ASSUME NEW w \in Word, NEW k \in 0..4
    PROVE  Low(w, k) \in Int /\ Up(w, k) \in Int /\ Down(w, k) \in Int
           /\ High(w, k) \in Int
  <1>1. /\ ByteBits * k \in 0..WordBits /\ ByteBits * (4 - k) \in 0..WordBits
    <2>1. k = 0 \/ k = 1 \/ k = 2 \/ k = 3 \/ k = 4
      OBVIOUS
    <2> QED BY <2>1, ByteBitsAssumption DEF WordBits
  <1>2. 2^(ByteBits * k) \in Nat \ {0} /\ 2^(ByteBits * (4 - k)) \in Nat \ {0}
    BY <1>1, PowerNat
  <1>3. w \in Nat
    BY WordFacts
  <1> DEFINE p == 2^(ByteBits * k)
             q == 2^(ByteBits * (4 - k))
  <1> HIDE DEF p, q
  <1>4. w % p \in Int /\ w * p \in Int /\ w \div p \in Int /\ w % q \in Int
    BY <1>2, <1>3 DEF p, q
  <1>5. Wrap(w * p) \in Int
    BY <1>4, WrapWord, WordFacts
  <1> QED BY <1>3, <1>4, <1>5 DEF Low, Up, Down, High, p, q

LEMMA DivisionIs ==
    ASSUME NEW n \in Int, NEW m \in Nat \ {0}, NEW d \in Int, NEW r \in 0..m - 1,
           n = m * d + r
    PROVE  n \div m = d /\ n % m = r
  <1> DEFINE e == n \div m
             s == n % m
  <1>1. e \in Int /\ s \in 0..m - 1 /\ n = m * e + s
    OBVIOUS
  <1> HIDE DEF e, s
  <1>2. CASE d > e
    <2>1. m * d >= m * (e + 1) /\ m * (e + 1) = m * e + m
      BY <1>1, <1>2
    <2> QED BY <1>1, <2>1
  <1>3. CASE d < e
    <2>1. m * e >= m * (d + 1) /\ m * (d + 1) = m * d + m
      BY <1>1, <1>3
    <2> QED BY <1>1, <2>1
  <1>4. CASE d = e
    BY <1>1, <1>4 DEF e, s
  <1> QED BY <1>1, <1>2, <1>3, <1>4

\* A word in two parts, of p and of q values.
LEMMA TwoParts ==
    ASSUME NEW p \in Nat \ {0}, NEW q \in Nat \ {0}, NEW v \in 0..p * q - 1
    PROVE  /\ (v * p) % (p * q) = p * (v % q)
           /\ v - (v % q) = q * (v \div q)
           /\ v % q \in 0..q - 1 /\ v \div q \in 0..p - 1
           /\ p * q \in Nat \ {0} /\ v \in Nat
  <1> DEFINE d == v \div q
             m == v % q
  <1>1. d \in Int /\ m \in 0..q - 1 /\ v = q * d + m /\ p * q \in Nat \ {0} /\ v \in Nat
    OBVIOUS
  <1> HIDE DEF d, m
  <1>2. v * p = (p * q) * d + p * m
    <2>1. v * p = (q * d + m) * p
      BY <1>1
    <2>2. (q * d + m) * p = (p * q) * d + p * m
      BY <1>1
    <2> QED BY <2>1, <2>2
  <1>3. p * m \in 0..p * q - 1
    <2>1. p * m <= p * (q - 1) /\ p * m >= 0 /\ p * (q - 1) = p * q - p /\ p * m \in Int
      BY <1>1
    <2> QED BY <1>1, <2>1
  <1>4. (v * p) % (p * q) = p * m
    <2>1. v * p \in Int
      BY <1>1
    <2> QED BY <1>1, <1>2, <1>3, <2>1, DivisionIs
  <1>5. d \in 0..p - 1
    <2>1. CASE d >= p
      <3>1. q * d >= q * p /\ q * p = p * q
        BY <1>1, <2>1
      <3> QED BY <1>1, <3>1
    <2>2. CASE d < 0
      <3>1. q * d <= q * (-1) /\ q * (-1) = -q
        BY <1>1, <2>2
      <3> QED BY <1>1, <3>1
    <2> QED BY <1>1, <2>1, <2>2
  <1> QED BY <1>1, <1>4, <1>5 DEF d, m

LEMMA MergedIsWord ==
    ASSUME NEW w \in Word, NEW v \in Word, NEW k \in 0..3
    PROVE  Low(w, k) + Up(v, k) \in Word /\ High(w, k) + Down(v, k) \in Word
  <1> DEFINE p == 2^(ByteBits * k)
             q == 2^(ByteBits * (4 - k))
  <1>1. p \in Nat \ {0} /\ q \in Nat \ {0} /\ p * q = 2^WordBits
    <2>1. /\ ByteBits * k \in 0..WordBits /\ ByteBits * (4 - k) \in 0..WordBits
          /\ WordBits = ByteBits * k + ByteBits * (4 - k)
      <3>1. k = 0 \/ k = 1 \/ k = 2 \/ k = 3
        OBVIOUS
      <3> QED BY <3>1, ByteBitsAssumption DEF WordBits
    <2> QED BY <2>1, PowerNat, PowerSum
  <1> HIDE DEF p, q
  <1>2. w \in 0..p * q - 1 /\ v \in 0..p * q - 1 /\ v \in 0..q * p - 1
    <2>1. p * q = q * p
      BY <1>1
    <2> QED BY <1>1, <2>1 DEF Word
  <1>3. Low(w, k) + Up(v, k) \in Word
    <2>1. w % p \in 0..p - 1
      <3>1. w \in Int
        BY <1>1, <1>2
      <3> QED BY <1>1, <3>1, Remainder
    <2>2. (v * p) % (p * q) = p * (v % q) /\ v % q \in 0..q - 1
      <3>1. p \in Nat \ {0} /\ q \in Nat \ {0} /\ v \in 0..p * q - 1
        BY <1>1, <1>2
      <3>2. (v * p) % (p * q) = p * (v % q)
        BY <3>1, TwoParts, Zenon
      <3>3. v % q \in 0..q - 1
        BY <3>1, TwoParts, Zenon
      <3> QED BY <3>2, <3>3
    <2>3. \A m \in 0..q - 1, x \in 0..p - 1 : x + p * m \in 0..p * q - 1
      <3> SUFFICES ASSUME NEW m \in 0..q - 1, NEW x \in 0..p - 1
                   PROVE  x + p * m \in 0..p * q - 1
        OBVIOUS
      <3>1. p * m <= p * (q - 1) /\ p * m >= 0 /\ p * (q - 1) = p * q - p /\ p * m \in Int
            /\ p * q \in Int
        BY <1>1
      <3> QED BY <1>1, <3>1
    <2>4. (w % p) + p * (v % q) \in 0..p * q - 1
      BY <2>1, <2>2, <2>3
    <2> QED BY <1>1, <2>2, <2>4 DEF Low, Up, Wrap, Word, p
  <1>4. High(w, k) + Down(v, k) \in Word
    <2>1. w - (w % q) = q * (w \div q) /\ w \div q \in 0..p - 1
      BY <1>1, <1>2, TwoParts
    <2>2. v \div p \in 0..q - 1
      BY <1>1, <1>2, TwoParts
    <2>3. \A m \in 0..p - 1, x \in 0..q - 1 : q * m + x \in 0..p * q - 1
      <3> SUFFICES ASSUME NEW m \in 0..p - 1, NEW x \in 0..q - 1
                   PROVE  q * m + x \in 0..p * q - 1
        OBVIOUS
      <3>1. q * m <= q * (p - 1) /\ q * m >= 0 /\ q * (p - 1) = p * q - q /\ q * m \in Int
            /\ p * q \in Int
        BY <1>1
      <3> QED BY <1>1, <3>1
    <2>4. q * (w \div q) + (v \div p) \in 0..p * q - 1
      BY <2>1, <2>2, <2>3
    <2> QED BY <1>1, <2>1, <2>4 DEF High, Down, Word, p, q
  <1> QED BY <1>3, <1>4

-----------------------------------------------------------------------------
(* The processor: the invariant *)

\* The table Load makes, with the use and dirty bits of pages of the space.
Pages == 0..NumPhysPages - 1
PageEntry == [physicalPage : Pages, valid : BOOLEAN, use : BOOLEAN, dirty : BOOLEAN,
              readOnly : BOOLEAN]
IsTable(t, size) ==
  /\ t \in [Pages -> PageEntry]
  /\ \A p \in Pages :
       /\ t[p].physicalPage = p /\ t[p].valid /\ ~t[p].readOnly
       /\ t[p].dirty => t[p].use
       /\ t[p].use => p < size

ProcessorInv ==
  /\ status \in {"boot", "loaded", "user", "system", "halted"}
  /\ registers \in RegisterFile /\ registers.gp[0] = 0
  /\ status = "system" => registers.load = 0 /\ registers.loadValue = 0
  /\ mainMemory \in Memories
  /\ pageTableSize \in 0..NumPhysPages
  /\ status = "loaded" => UserStackSize <= pageTableSize * PageSize
  /\ IsTable(pageTable, pageTableSize)

LEMMA InvIsType == ProcessorInv => MachineInv
  BY DEF ProcessorInv, MachineInv, RegisterFile, Memories, Special

-----------------------------------------------------------------------------
(* The processor: translation *)

LEMMA PageOf ==
    ASSUME NEW a \in Nat, NEW size \in Nat
    PROVE  /\ VirtualPage(a) \in Nat
           /\ a % PageSize \in 0..PageSize - 1
           /\ a = VirtualPage(a) * PageSize + (a % PageSize)
           /\ VirtualPage(a) < size <=> a < size * PageSize
  <1> DEFINE v == a \div PageSize
             m == a % PageSize
  <1>1. PageSize \in Nat \ {0}
    BY MachineAssumption
  <1>2. v \in Nat /\ m \in 0..PageSize - 1 /\ a = v * PageSize + m
    BY <1>1
  <1> HIDE DEF v, m
  <1>3. ASSUME v < size PROVE a < size * PageSize
    <2>1. /\ v * PageSize <= (size - 1) * PageSize
          /\ (size - 1) * PageSize = size * PageSize - PageSize
      BY <1>1, <1>2, <1>3
    <2> QED BY <1>1, <1>2, <2>1
  <1>4. ASSUME v >= size PROVE a >= size * PageSize
    <2>1. v * PageSize >= size * PageSize
      BY <1>1, <1>2, <1>4
    <2> QED BY <1>1, <1>2, <2>1
  <1> QED BY <1>1, <1>2, <1>3, <1>4 DEF VirtualPage, v, m

LEMMA PageIsNat == \A a \in Nat : VirtualPage(a) \in Nat
  BY MachineAssumption DEF VirtualPage

LEMMA Multiple == \A a \in Nat, s \in Nat \ {0} :
                    a % s = 0 => a = s * (a \div s) /\ a \div s \in Nat
  OBVIOUS

\* Every address of the space is its own physical address, and has a page.
LEMMA AddressesOfSpace ==
    ASSUME ProcessorInv, NEW a \in Nat, VirtualPage(a) < pageTableSize
    PROVE  /\ VirtualPage(a) \in Pages
           /\ PhysAddr(a) = a
           /\ a \in 0..MemorySize - 1
  <1>1. VirtualPage(a) \in Nat /\ a = VirtualPage(a) * PageSize + (a % PageSize)
    BY PageOf
  <1>2. VirtualPage(a) \in Pages /\ NumPhysPages \in Nat
    BY <1>1, MachineAssumption DEF ProcessorInv, Pages
  <1>3. PhysAddr(a) = a
    BY <1>1, <1>2 DEF PhysAddr, ProcessorInv, IsTable
  <1>4. a < NumPhysPages * PageSize /\ NumPhysPages * PageSize \in Int
    <2>1. VirtualPage(a) < NumPhysPages
      BY <1>2 DEF Pages
    <2>2. a < NumPhysPages * PageSize
      BY <1>2, <2>1, PageOf
    <2>3. PageSize \in Nat
      BY MachineAssumption
    <2> QED BY <1>2, <2>2, <2>3
  <1> QED BY <1>2, <1>3, <1>4 DEF MemorySize

LEMMA TranslateIs ==
    ASSUME ProcessorInv, NEW a \in Nat, NEW size \in Nat \ {0}, NEW writing \in BOOLEAN
    PROVE  /\ Translate(a, size, writing) =
                IF a % size = 0 /\ VirtualPage(a) < pageTableSize
                  THEN "NoException" ELSE "AddressError"
           /\ SpaceTranslate(a, writing) =
                IF VirtualPage(a) < pageTableSize THEN "NoException" ELSE "AddressError"
  <1>1. VirtualPage(a) \in Nat /\ pageTableSize \in Nat /\ NumPhysPages \in Nat
    BY PageIsNat, MachineAssumption DEF ProcessorInv
  <1>2. CASE VirtualPage(a) >= pageTableSize
    <2>1. ~(VirtualPage(a) < pageTableSize)
      BY <1>1, <1>2
    <2>2. Translate(a, size, writing) = "AddressError"
      BY <1>2 DEF Translate
    <2>3. SpaceTranslate(a, writing) = "AddressError"
      BY <1>2 DEF SpaceTranslate
    <2> QED BY <2>1, <2>2, <2>3
  <1>3. CASE VirtualPage(a) < pageTableSize
    <2>1. VirtualPage(a) \in Pages
      BY <1>3, AddressesOfSpace
    <2>2. /\ pageTable[VirtualPage(a)].valid /\ ~pageTable[VirtualPage(a)].readOnly
          /\ ~(pageTable[VirtualPage(a)].physicalPage >= NumPhysPages)
      BY <1>1, <2>1 DEF ProcessorInv, IsTable, Pages
    <2>3. ~(VirtualPage(a) >= pageTableSize)
      BY <1>1, <1>3
    <2> QED BY <1>3, <2>2, <2>3 DEF Translate, SpaceTranslate
  <1>4. VirtualPage(a) >= pageTableSize \/ VirtualPage(a) < pageTableSize
    BY <1>1
  <1> QED BY <1>2, <1>3, <1>4

LEMMA TranslatePasses ==
    ASSUME ProcessorInv, NEW a \in Nat, NEW size \in Nat \ {0}, NEW writing \in BOOLEAN
    PROVE  /\ Translate(a, size, writing) \in {"NoException", "AddressError"}
           /\ Translate(a, size, writing) = "NoException" =>
                a % size = 0 /\ VirtualPage(a) < pageTableSize
  BY TranslateIs

LEMMA AnyByteAligned == \A a \in Nat : a % 1 = 0
  OBVIOUS

LEMMA InvOneMemory == ProcessorInv => OneMemoryForBoth
  <1> SUFFICES ASSUME ProcessorInv PROVE OneMemoryForBoth
    OBVIOUS
  <1>1. ASSUME NEW a \in Word, NEW writing \in BOOLEAN
        PROVE  /\ SpaceTranslate(a, writing) = Translate(a, 1, writing)
               /\ Translate(a, 1, writing) =
                    IF a < pageTableSize * PageSize THEN "NoException" ELSE "AddressError"
    <2>1. a \in Nat /\ pageTableSize \in Nat
      BY WordFacts DEF ProcessorInv
    <2> QED BY <2>1, PageOf, TranslateIs, AnyByteAligned
  <1>2. ASSUME NEW a \in 0..pageTableSize * PageSize - 1,
               NEW b \in 0..pageTableSize * PageSize - 1,
               a # b
        PROVE  PhysAddr(a) # PhysAddr(b)
    <2>1. a \in Nat /\ b \in Nat /\ pageTableSize \in Nat /\ a < pageTableSize * PageSize
          /\ b < pageTableSize * PageSize
      BY MachineAssumption DEF ProcessorInv
    <2> QED BY <1>2, <2>1, PageOf, AddressesOfSpace
  <1> QED BY <1>1, <1>2 DEF OneMemoryForBoth

\* An access to aligned bytes stays on its page.
LEMMA AlignedOnPage ==
    ASSUME NEW a \in Nat, NEW size \in {1, 2, 4}, a % size = 0, NEW k \in 0..size - 1
    PROVE  VirtualPage(a + k) = VirtualPage(a)
  <1>1. PageSize \in Nat \ {0} /\ PageSize % 4 = 0
    BY MachineAssumption
  <1>2. PICK c \in Nat : PageSize = size * c /\ c # 0
    <2>1. 4 \in Nat \ {0} /\ PageSize \in Nat
      BY <1>1
    <2>2. PageSize = 4 * (PageSize \div 4) /\ PageSize \div 4 \in Nat
      BY <1>1, <2>1, Multiple
    <2>3. PICK d \in Nat : PageSize = 4 * d
      BY <2>2
    <2>4. size = 1 \/ size = 2 \/ size = 4
      OBVIOUS
    <2>5. /\ d # 0
          /\ PageSize = 1 * (4 * d) /\ PageSize = 2 * (2 * d) /\ 4 * d \in Nat /\ 2 * d \in Nat
      BY <1>1, <2>3
    <2>6. CASE size = 1
      BY <2>5, <2>6
    <2>7. CASE size = 2
      BY <2>5, <2>7
    <2>8. CASE size = 4
      BY <2>3, <2>5, <2>8
    <2> QED BY <2>4, <2>6, <2>7, <2>8
  <1>3. PICK b \in Nat : a = size * b
    <2>1. a = size * (a \div size) /\ a \div size \in Nat
      BY Multiple
    <2> QED BY <2>1
  <1> DEFINE v == b \div c
             m == b % c
  <1>4. v \in Nat /\ m \in 0..c - 1 /\ b = c * v + m
    BY <1>2
  <1> HIDE DEF v, m
  <1>5. a + k = PageSize * v + (size * m + k) /\ a = PageSize * v + size * m
    <2>1. size * b = (size * c) * v + size * m
      <3>1. size * b = size * (c * v + m)
        BY <1>4
      <3> QED BY <1>2, <1>4, <3>1
    <2> QED BY <1>2, <1>3, <1>4, <2>1
  <1>6. size * m + k \in 0..PageSize - 1 /\ size * m \in 0..PageSize - 1
    <2>1. size * m <= size * (c - 1) /\ size * (c - 1) = size * c - size /\ size * m >= 0
      BY <1>2, <1>4
    <2> QED BY <1>2, <1>4, <2>1
  <1> DEFINE x == size * m + k
             y == size * m
  <1>7. (a + k) \div PageSize = v
    <2>1. x \in 0..PageSize - 1 /\ a + k = PageSize * v + x /\ a + k \in Int /\ v \in Int
      BY <1>4, <1>5, <1>6
    <2> HIDE DEF x
    <2> QED BY <1>1, <2>1, DivisionIs
  <1>8. a \div PageSize = v
    <2>1. y \in 0..PageSize - 1 /\ a = PageSize * v + y /\ a \in Int /\ v \in Int
      BY <1>4, <1>5, <1>6
    <2> HIDE DEF y
    <2> QED BY <1>1, <2>1, DivisionIs
  <1> QED BY <1>7, <1>8 DEF VirtualPage

-----------------------------------------------------------------------------
(* The effect of an access *)

\* The bits that are set stay set.
Grown(t, u) == \A p \in Pages :
  (t[p].use => u[p].use) /\ (t[p].dirty => u[p].dirty)

\* What differs from memory m is on pages that are dirty in t.
Noted(m, n, t) == \A b \in 0..MemorySize - 1 :
  n[b] # m[b] => VirtualPage(b) \in Pages /\ t[VirtualPage(b)].dirty

LEMMA TouchedEntry ==
    ASSUME NEW e \in PageEntry, NEW d \in BOOLEAN
    PROVE  LET w == [e EXCEPT !.use = TRUE, !.dirty = d] IN
           /\ w \in PageEntry /\ w.physicalPage = e.physicalPage /\ w.valid = e.valid
           /\ w.use = TRUE /\ w.dirty = d /\ w.readOnly = e.readOnly
  BY DEF PageEntry

LEMMA TouchedTable ==
    ASSUME NEW t, NEW size \in 0..NumPhysPages, IsTable(t, size),
           NEW a \in Nat, VirtualPage(a) < size, NEW writing \in BOOLEAN
    PROVE  /\ IsTable(Touched(t, a, writing), size)
           /\ Grown(t, Touched(t, a, writing))
           /\ writing => Touched(t, a, writing)[VirtualPage(a)].dirty
  <1> DEFINE v == VirtualPage(a)
             u == Touched(t, a, writing)
  <1>1. v \in Pages /\ NumPhysPages \in Nat /\ size \in Nat
    BY PageIsNat, MachineAssumption DEF Pages
  <1>2. u = [t EXCEPT ![v] = [t[v] EXCEPT !.use = TRUE, !.dirty = t[v].dirty \/ writing]]
    BY <1>1 DEF Touched, IsTable
  <1>3. t[v] \in PageEntry
    BY <1>1 DEF IsTable
  <1> DEFINE w == [t[v] EXCEPT !.use = TRUE, !.dirty = t[v].dirty \/ writing]
  <1>5. /\ w \in PageEntry /\ w.physicalPage = t[v].physicalPage /\ w.valid = t[v].valid
        /\ w.use = TRUE /\ w.dirty = (t[v].dirty \/ writing) /\ w.readOnly = t[v].readOnly
    <2>1. (t[v].dirty \/ writing) \in BOOLEAN
      OBVIOUS
    <2> QED BY <1>3, <2>1, TouchedEntry
  <1> HIDE DEF w
  <1>6. u = [t EXCEPT ![v] = w]
    BY <1>2 DEF w
  <1> HIDE DEF u, v
  <1>7. u \in [Pages -> PageEntry] /\ u[v] = w /\ \A p \in Pages : p # v => u[p] = t[p]
    BY <1>1, <1>5, <1>6 DEF IsTable
  <1>8. IsTable(u, size)
    <2> SUFFICES ASSUME NEW p \in Pages
                 PROVE  /\ u[p].physicalPage = p /\ u[p].valid /\ ~u[p].readOnly
                        /\ u[p].dirty => u[p].use
                        /\ u[p].use => p < size
      BY <1>7 DEF IsTable
    <2>1. CASE p = v
      BY <1>1, <1>5, <1>7, <2>1 DEF IsTable, v
    <2>2. CASE p # v
      BY <1>7, <2>2 DEF IsTable
    <2> QED BY <2>1, <2>2
  <1>9. Grown(t, u)
    <2> SUFFICES ASSUME NEW p \in Pages
                 PROVE  (t[p].use => u[p].use) /\ (t[p].dirty => u[p].dirty)
      BY DEF Grown
    <2> QED BY <1>5, <1>7
  <1>10. writing => u[v].dirty
    BY <1>5, <1>7
  <1> QED BY <1>8, <1>9, <1>10 DEF u, v

\* The memory with size bytes of value at a.
Written(m, a, size, value) ==
  [b \in DOMAIN m |-> IF b - a \in 0..size - 1 THEN ByteAt(value, b - a) ELSE m[b]]

LEMMA WrittenByte ==
    ASSUME NEW m \in Memories, NEW a \in Nat, NEW size \in {1, 2, 4}, NEW value \in Word,
           NEW b \in 0..MemorySize - 1
    PROVE  /\ Written(m, a, size, value)[b] \in Byte
           /\ Written(m, a, size, value)[b] # m[b] => b - a \in 0..size - 1
  <1>1. DOMAIN m = 0..MemorySize - 1 /\ m[b] \in Byte
    BY DEF Memories
  <1>2. b - a \in 0..size - 1 => b - a \in 0..3
    OBVIOUS
  <1> QED BY <1>1, <1>2, ByteAtByte DEF Written

LEMMA WrittenMemory ==
    ASSUME NEW m \in Memories, NEW a \in Nat, NEW size \in {1, 2, 4}, NEW value \in Word
    PROVE  Written(m, a, size, value) \in Memories
  <1>1. DOMAIN m = 0..MemorySize - 1
    BY DEF Memories
  <1> QED BY <1>1, WrittenByte DEF Written, Memories

LEMMA WrittenWhere ==
    ASSUME NEW m \in Memories, NEW a \in Nat, NEW size \in {1, 2, 4}, NEW value \in Word,
           NEW b \in 0..MemorySize - 1, Written(m, a, size, value)[b] # m[b]
    PROVE  \E k \in 0..size - 1 : b = a + k
  <1>1. b - a \in 0..size - 1 /\ b \in Int
    BY WrittenByte, MachineAssumption DEF MemorySize
  <1>2. b = a + (b - a)
    BY <1>1
  <1> QED BY <1>1, <1>2

LEMMA MemoryRead ==
    ASSUME ProcessorInv, NEW a \in Nat, NEW size \in {1, 2, 4}, a % size = 0,
           VirtualPage(a) < pageTableSize
    PROVE  ReadMem(a, size) \in ValuesOf(size) /\ ReadMem(a, size) \in Word
  <1>1. PhysAddr(a) = a
    BY AddressesOfSpace
  <1>2. ASSUME NEW k \in 0..size - 1 PROVE a + k \in 0..MemorySize - 1
    BY AlignedOnPage, AddressesOfSpace
  <1>3. Assembles(mainMemory, a, size)
    BY <1>2 DEF Assembles, ProcessorInv, Memories
  <1>4. ReadMem(a, size) \in ValuesOf(size)
    BY <1>1, <1>3, AssembledNumber DEF ReadMem
  <1> QED BY <1>4, NumberIsWord

-----------------------------------------------------------------------------
(* The effect of an instruction *)

EffectRecord ==
  [exception : Exceptions \cup {"NoException", "HostTrap"}, badVAddr : Word,
   regs : RegisterFile, memory : Memories, table : [Pages -> PageEntry],
   pcAfter : Word, loadReg : GPRegs, loadValue : Word]

Good(e) ==
  /\ e \in EffectRecord
  /\ IsTable(e.table, pageTableSize)
  /\ Grown(pageTable, e.table)
  /\ Noted(mainMemory, e.memory, e.table)

LEMMA GrownFurther ==
    ASSUME NEW t, NEW u, NEW w, Grown(t, u), Grown(u, w)
    PROVE  Grown(t, w)
  BY DEF Grown

LEMMA NotedFurther ==
    ASSUME NEW m, NEW n, NEW t, NEW u, Noted(m, n, t), Grown(t, u)
    PROVE  Noted(m, n, u)
  BY DEF Noted, Grown

LEMMA RegistersAreWords ==
    ASSUME ProcessorInv, NEW r \in GPRegs
    PROVE  GP(r) \in Word
  BY DEF ProcessorInv, RegisterFile, GP

LEMMA ZeroRegister == 0 \in GPRegs /\ 2 \in GPRegs /\ StackReg \in GPRegs /\ RetAddrReg \in GPRegs
  BY MachineAssumption DEF GPRegs

LEMMA FetchedGood ==
    ASSUME ProcessorInv, Translate(registers.pc, 4, FALSE) = "NoException"
    PROVE  Good(Fetched) /\ Fetched.exception = "NoException"
  <1>1. registers.pc \in Word /\ registers.nextPC \in Word
    BY DEF ProcessorInv, RegisterFile
  <1>2. registers.pc \in Nat /\ registers.nextPC + 4 \in Int
    BY <1>1, WordFacts
  <1>3. VirtualPage(registers.pc) < pageTableSize
    <2>1. 4 \in Nat \ {0} /\ FALSE \in BOOLEAN
      OBVIOUS
    <2> QED BY <1>2, <2>1, TranslatePasses
  <1> DEFINE u == Touched(pageTable, registers.pc, FALSE)
  <1>4. IsTable(u, pageTableSize) /\ Grown(pageTable, u)
    BY <1>2, <1>3, TouchedTable DEF ProcessorInv
  <1>5. Noted(mainMemory, mainMemory, u)
    BY DEF Noted
  <1>6. Wrap(registers.nextPC + 4) \in Word
    BY <1>2, WrapWord
  <1>7. u \in [Pages -> PageEntry]
    BY <1>4 DEF IsTable
  <1> HIDE DEF u
  <1>8. Fetched = [exception |-> "NoException", badVAddr |-> 0, regs |-> registers,
                   memory |-> mainMemory, table |-> u,
                   pcAfter |-> Wrap(registers.nextPC + 4), loadReg |-> 0, loadValue |-> 0]
    BY DEF Fetched, u
  <1>9. Fetched \in EffectRecord
    BY <1>6, <1>7, <1>8, WordFacts, ZeroRegister DEF EffectRecord, ProcessorInv
  <1> QED BY <1>4, <1>5, <1>8, <1>9 DEF Good

LEMMA RaisesGood ==
    ASSUME NEW e, Good(e), NEW x \in Exceptions \cup {"HostTrap"}, NEW a \in Word
    PROVE  Good(Raises(e, x, a)) /\ Raises(e, x, a).exception = x
  <1>1. Raises(e, x, a) \in EffectRecord
    BY DEF Good, Raises, EffectRecord
  <1>2. /\ Raises(e, x, a).table = e.table /\ Raises(e, x, a).memory = e.memory
        /\ Raises(e, x, a).exception = x
    BY DEF Good, Raises, EffectRecord
  <1> QED BY <1>1, <1>2 DEF Good

\* Changes of a register, of hi and lo, of the pc and of the load.
LEMMA SetRegGood ==
    ASSUME NEW e, Good(e), NEW r \in GPRegs, NEW n \in Int
    PROVE  /\ Good(SetReg(e, r, n)) /\ SetReg(e, r, n).exception = e.exception
           /\ SetReg(e, r, n).regs.gp \in [GPRegs -> Word]
  <1> DEFINE f == [e.regs EXCEPT !.gp[r] = Wrap(n)]
             g == SetReg(e, r, n)
  <1>1. e.regs \in RegisterFile /\ Wrap(n) \in Word
    BY WrapWord DEF Good, EffectRecord
  <1>2. f \in RegisterFile
    BY <1>1 DEF RegisterFile
  <1>3. g = [e EXCEPT !.regs = f]
    BY DEF SetReg, Good, EffectRecord
  <1> HIDE DEF f, g
  <1>4. g \in EffectRecord
    BY <1>2, <1>3 DEF Good, EffectRecord
  <1>5. g.table = e.table /\ g.memory = e.memory /\ g.exception = e.exception /\ g.regs = f
    BY <1>3 DEF Good, EffectRecord
  <1> QED BY <1>2, <1>4, <1>5 DEF Good, g, RegisterFile

LEMMA HiLoGood ==
    ASSUME NEW e, Good(e), NEW h \in Word, NEW l \in Word
    PROVE  Good([e EXCEPT !.regs.hi = h, !.regs.lo = l])
           /\ Good([e EXCEPT !.regs.lo = l, !.regs.hi = h])
           /\ Good([e EXCEPT !.regs.hi = h]) /\ Good([e EXCEPT !.regs.lo = l])
  <1>1. e.regs \in RegisterFile
    BY DEF Good, EffectRecord
  <1>2. ASSUME NEW f \in RegisterFile PROVE Good([e EXCEPT !.regs = f])
    <2> DEFINE g == [e EXCEPT !.regs = f]
    <2>1. g \in EffectRecord
      BY DEF Good, EffectRecord
    <2>2. g.table = e.table /\ g.memory = e.memory
      BY DEF Good, EffectRecord
    <2> QED BY <2>1, <2>2 DEF Good
  <1>3. /\ [e.regs EXCEPT !.hi = h, !.lo = l] \in RegisterFile
        /\ [e.regs EXCEPT !.lo = l, !.hi = h] \in RegisterFile
        /\ [e.regs EXCEPT !.hi = h] \in RegisterFile
        /\ [e.regs EXCEPT !.lo = l] \in RegisterFile
    BY <1>1 DEF RegisterFile
  <1>4. /\ [e EXCEPT !.regs.hi = h, !.regs.lo = l] =
             [e EXCEPT !.regs = [e.regs EXCEPT !.hi = h, !.lo = l]]
        /\ [e EXCEPT !.regs.lo = l, !.regs.hi = h] =
             [e EXCEPT !.regs = [e.regs EXCEPT !.lo = l, !.hi = h]]
        /\ [e EXCEPT !.regs.hi = h] = [e EXCEPT !.regs = [e.regs EXCEPT !.hi = h]]
        /\ [e EXCEPT !.regs.lo = l] = [e EXCEPT !.regs = [e.regs EXCEPT !.lo = l]]
    BY DEF Good, EffectRecord
  <1> QED BY <1>2, <1>3, <1>4

LEMMA PcGood ==
    ASSUME NEW e, Good(e), NEW a \in Word
    PROVE  Good([e EXCEPT !.pcAfter = a])
  <1> DEFINE g == [e EXCEPT !.pcAfter = a]
  <1>1. g \in EffectRecord
    BY DEF Good, EffectRecord
  <1>2. g.table = e.table /\ g.memory = e.memory
    BY DEF Good, EffectRecord
  <1> QED BY <1>1, <1>2 DEF Good

LEMMA StartsGood ==
    ASSUME NEW e, Good(e), NEW r \in GPRegs, NEW v \in Word
    PROVE  Good(Starts(e, r, v))
  <1> DEFINE g == [e EXCEPT !.loadReg = r, !.loadValue = v]
  <1>1. g \in EffectRecord
    BY DEF Good, EffectRecord
  <1>2. g.table = e.table /\ g.memory = e.memory
    BY DEF Good, EffectRecord
  <1>3. Good(g)
    BY <1>1, <1>2 DEF Good
  <1> QED BY <1>3 DEF Starts

LEMMA ReadingGood ==
    ASSUME ProcessorInv, NEW e, Good(e), e.exception = "NoException",
           NEW a \in Word, NEW size \in {1, 2, 4}
    PROVE  /\ Good(Reading(e, a, size))
           /\ Reading(e, a, size).exception = "NoException" =>
                /\ ReadMem(a, size) \in ValuesOf(size) /\ ReadMem(a, size) \in Word
                /\ Reading(e, a, size).memory = e.memory
  <1> DEFINE x == Translate(a, size, FALSE)
             u == Touched(e.table, a, FALSE)
             g == [e EXCEPT !.table = u]
  <1>1. a \in Nat /\ size \in Nat \ {0} /\ FALSE \in BOOLEAN
    BY WordFacts
  <1>2. CASE x # "NoException"
    <2>1. x \in Exceptions
      BY <1>1, <1>2, TranslatePasses DEF Exceptions
    <2>2. x # "NoException" /\ x \in Exceptions \cup {"HostTrap"}
      BY <1>2, <2>1
    <2>3. Reading(e, a, size) = Raises(e, x, a)
      BY <1>2 DEF Reading
    <2> HIDE DEF x
    <2>4. Good(Raises(e, x, a)) /\ Raises(e, x, a).exception = x
      BY <2>2, RaisesGood
    <2> QED BY <2>2, <2>3, <2>4
  <1>3. CASE x = "NoException"
    <2>1. a % size = 0 /\ VirtualPage(a) < pageTableSize
      BY <1>1, <1>3, TranslatePasses
    <2>2. IsTable(u, pageTableSize) /\ Grown(e.table, u)
      BY <1>1, <2>1, TouchedTable DEF Good, ProcessorInv
    <2>3. Reading(e, a, size) = g
      BY <1>3 DEF Reading, Good, EffectRecord
    <2> HIDE DEF u
    <2>4. g \in EffectRecord /\ g.table = u /\ g.memory = e.memory
      BY <2>2 DEF Good, EffectRecord, IsTable
    <2> HIDE DEF g
    <2>5. Good(g)
      BY <2>2, <2>4, GrownFurther, NotedFurther DEF Good
    <2> QED BY <1>1, <2>1, <2>3, <2>4, <2>5, MemoryRead
  <1> QED BY <1>2, <1>3

LEMMA WriteMemGood ==
    ASSUME ProcessorInv, NEW e, Good(e), e.memory = mainMemory,
           NEW a \in Word, NEW size \in {1, 2, 4}, NEW value \in Word
    PROVE  Good(WriteMem(e, a, size, value))
  <1> DEFINE x == Translate(a, size, TRUE)
             u == Touched(e.table, a, TRUE)
             m == Written(mainMemory, a, size, value)
             g == [e EXCEPT !.table = u, !.memory = m]
  <1>1. a \in Nat /\ size \in Nat \ {0} /\ TRUE \in BOOLEAN
    BY WordFacts
  <1>2. CASE x # "NoException"
    <2>1. x \in Exceptions
      BY <1>1, <1>2, TranslatePasses DEF Exceptions
    <2>2. x \in Exceptions \cup {"HostTrap"}
      BY <2>1
    <2>3. WriteMem(e, a, size, value) = Raises(e, x, a)
      BY <1>2 DEF WriteMem
    <2> HIDE DEF x
    <2> QED BY <2>2, <2>3, RaisesGood
  <1>3. CASE x = "NoException"
    <2>1. a % size = 0 /\ VirtualPage(a) < pageTableSize
      BY <1>1, <1>3, TranslatePasses
    <2>2. IsTable(u, pageTableSize) /\ Grown(e.table, u) /\ u[VirtualPage(a)].dirty
      BY <1>1, <2>1, TouchedTable DEF Good, ProcessorInv
    <2>3. PhysAddr(a) = a /\ VirtualPage(a) \in Pages
      BY <1>1, <2>1, AddressesOfSpace
    <2>4. /\ m \in Memories
          /\ \A b \in 0..MemorySize - 1 : m[b] # mainMemory[b] => \E k \in 0..size - 1 : b = a + k
      <3>1. mainMemory \in Memories
        BY DEF ProcessorInv
      <3>2. Written(mainMemory, a, size, value) \in Memories
        BY <1>1, <3>1, WrittenMemory
      <3>3. ASSUME NEW b \in 0..MemorySize - 1,
                   Written(mainMemory, a, size, value)[b] # mainMemory[b]
            PROVE  \E k \in 0..size - 1 : b = a + k
        BY <1>1, <3>1, <3>3, WrittenWhere
      <3> QED BY <3>2, <3>3
    <2>5. WriteMem(e, a, size, value) = g
      BY <1>3, <2>3 DEF WriteMem, Written, Good, EffectRecord
    <2> HIDE DEF u, m
    <2>6. g \in EffectRecord /\ g.table = u /\ g.memory = m
      BY <2>2, <2>4 DEF Good, EffectRecord, IsTable
    <2> HIDE DEF g
    <2>7. Noted(mainMemory, m, u)
      <3> SUFFICES ASSUME NEW b \in 0..MemorySize - 1, m[b] # mainMemory[b]
                   PROVE  VirtualPage(b) \in Pages /\ u[VirtualPage(b)].dirty
        BY DEF Noted
      <3>1. PICK k \in 0..size - 1 : b = a + k
        BY <2>4
      <3>2. VirtualPage(b) = VirtualPage(a)
        BY <1>1, <2>1, <3>1, AlignedOnPage
      <3> QED BY <2>2, <2>3, <3>2
    <2>8. Good(g)
      BY <2>2, <2>6, <2>7, GrownFurther DEF Good
    <2> QED BY <2>5, <2>8
  <1> QED BY <1>2, <1>3

-----------------------------------------------------------------------------
(* Multiplication *)

\* A loop of n steps has a state before and after each.
LoopOf(f, start, step, n) == f[0] = start /\ \A k \in 1..n : f[k] = step[f[k - 1]]

LEMMA Iterates ==
    ASSUME NEW S, NEW start \in S, NEW step \in [S -> S], NEW n \in Nat
    PROVE  \E f \in [0..n -> S] : LoopOf(f, start, step, n)
  <1> DEFINE Runs(f, m) == f[0] = start /\ \A k \in 1..m : f[k] = step[f[k - 1]]
             Reached == {m \in 0..n : \E f \in [0..m -> S] : Runs(f, m)}
  <1>1. ASSUME NEW m \in 0..n, \A j \in 0..n : j < m => j \in Reached
        PROVE  m \in Reached
    <2>1. CASE m = 0
      <3> DEFINE f == [k \in 0..0 |-> start]
      <3>1. f \in [0..0 -> S] /\ f[0] = start /\ 1..0 = {}
        OBVIOUS
      <3> HIDE DEF f
      <3>2. Runs(f, 0)
        BY <3>1
      <3> QED BY <2>1, <3>1, <3>2
    <2>2. CASE m # 0
      <3>1. m - 1 \in 0..n /\ m - 1 \in Reached /\ m \in 1..n
        BY <1>1, <2>2
      <3>2. PICK f \in [0..m - 1 -> S] : Runs(f, m - 1)
        BY <3>1
      <3> DEFINE g == [k \in 0..m |-> IF k = m THEN step[f[m - 1]] ELSE f[k]]
      <3>3. f[m - 1] \in S /\ step[f[m - 1]] \in S
        BY <3>1
      <3>4. g \in [0..m -> S]
        BY <3>1, <3>2, <3>3
      <3>5. g[0] = start
        BY <3>1, <3>2
      <3>6. ASSUME NEW k \in 1..m PROVE g[k] = step[g[k - 1]]
        <4>1. k - 1 \in 0..m - 1 /\ k - 1 # m /\ k \in 0..m /\ k - 1 \in 0..m
          BY <3>1
        <4>2. g[k - 1] = f[k - 1]
          BY <4>1
        <4>3. CASE k = m
          BY <4>2, <4>3
        <4>4. CASE k # m
          <5>1. k \in 1..m - 1 /\ g[k] = f[k]
            BY <3>1, <4>4
          <5> QED BY <3>2, <4>2, <5>1
        <4> QED BY <4>3, <4>4
      <3> HIDE DEF g
      <3>7. Runs(g, m)
        BY <3>5, <3>6
      <3> QED BY <3>4, <3>7
    <2> QED BY <2>1, <2>2
  <1> HIDE DEF Reached
  <1>2. \A k \in 0..n : k \in Reached
    BY <1>1, Induction
  <1> QED BY <1>2 DEF Reached, LoopOf

\* Half of all words have the sign bit.
LEMMA SignHalf ==
  2^(WordBits - 1) \in Nat \ {0} /\ 2^WordBits = 2 * 2^(WordBits - 1)
  <1>1. 1 \in 0..WordBits /\ WordBits - 1 \in 0..WordBits /\ 1 + (WordBits - 1) = WordBits
    BY WordSizes
  <1>2. 2^1 = 2
    OBVIOUS
  <1> QED BY <1>1, <1>2, PowerSum, PowerNat

LEMMA Doubled ==
    ASSUME NEW w \in Word, NEW x \in {0, 1}
    PROVE  Wrap(2 * w) + x \in Word
  <1> DEFINE h == 2^(WordBits - 1)
  <1>1. h \in Nat \ {0} /\ 2^WordBits = 2 * h /\ w \in Nat
    BY SignHalf, WordFacts
  <1> HIDE DEF h
  <1> DEFINE d == w \div h
             m == w % h
  <1>2. w = h * d + m /\ m \in 0..h - 1 /\ d \in Int
    BY <1>1
  <1> HIDE DEF d, m
  <1>3. 2 * w = (2 * h) * d + 2 * m
    <2>1. 2 * w = 2 * (h * d + m)
      BY <1>2
    <2> QED BY <1>1, <1>2, <2>1
  <1>4. 2 * m \in 0..2 * h - 1 /\ 2 * h \in Nat \ {0} /\ 2 * w \in Int
    BY <1>1, <1>2
  <1>5. (2 * w) % (2 * h) = 2 * m
    <2> DEFINE n == 2 * w
               r == 2 * m
               mm == 2 * h
    <2>1. n \in Int /\ mm \in Nat \ {0} /\ r \in 0..mm - 1 /\ n = mm * d + r
      BY <1>3, <1>4
    <2> HIDE DEF n, r, mm
    <2>2. n % mm = r
      BY <1>2, <2>1, DivisionIs
    <2> QED BY <2>2 DEF n, r, mm
  <1> QED BY <1>1, <1>2, <1>5 DEF Wrap, Word

MultState == [a : Word, lo : Word, hi : Word, bHi : Word, bLo : Word]

LEMMA MultStepWords ==
    ASSUME NEW p \in MultState
    PROVE  MultStep(p) \in MultState
  <1>1. p.a \in Word /\ p.lo \in Word /\ p.hi \in Word /\ p.bHi \in Word /\ p.bLo \in Word
    BY DEF MultState
  <1>2. p.a \in Nat /\ p.lo \in Nat /\ p.hi \in Nat /\ p.bHi \in Nat /\ p.bLo \in Nat
    BY <1>1, WordFacts
  <1>3. p.a \div 2 \in Word
    BY <1>1, <1>2, WordSizes DEF Word
  <1>4. Wrap(p.lo + p.bLo) \in Word /\ Wrap(2 * p.bLo) \in Word
    BY <1>2, WrapWord
  <1>5. \A x \in {0, 1} : Wrap(p.hi + p.bHi + x) \in Word
    BY <1>2, WrapWord
  <1>6. \A x \in {0, 1} : Wrap(2 * p.bHi) + x \in Word
    BY <1>1, Doubled
  <1> QED BY <1>1, <1>3, <1>4, <1>5, <1>6 DEF MultStep, MultState

LEMMA MultWords ==
    ASSUME NEW a \in Word, NEW b \in Word, NEW signedArith \in BOOLEAN
    PROVE  Mult(a, b, signedArith).hi \in Word /\ Mult(a, b, signedArith).lo \in Word
  <1> DEFINE abs(w) == IF signedArith /\ SignBit(w) THEN Wrap(-w) ELSE w
             start == [a |-> abs(a), bLo |-> abs(b), bHi |-> 0, lo |-> 0, hi |-> 0]
             Is(g) == g = [k \in 0..WordBits |-> IF k = 0 THEN start ELSE MultStep(g[k - 1])]
             loop == CHOOSE g : Is(g)
             step == [p \in MultState |-> MultStep(p)]
             r == loop[WordBits]
  <1>1. abs(a) \in Word /\ abs(b) \in Word
    <2>1. -a \in Int /\ -b \in Int
      BY WordFacts
    <2> QED BY <2>1, WrapWord
  <1>2. start \in MultState
    BY <1>1, WordFacts DEF MultState
  <1>3. step \in [MultState -> MultState]
    BY MultStepWords
  <1>4. WordBits \in Nat
    BY WordSizes
  <1>5. \E g : Is(g)
    <2> HIDE DEF start, step
    <2>1. PICK h \in [0..WordBits -> MultState] : LoopOf(h, start, step, WordBits)
      BY <1>2, <1>3, <1>4, Iterates
    <2>2. ASSUME NEW k \in 0..WordBits
          PROVE  h[k] = IF k = 0 THEN start ELSE MultStep(h[k - 1])
      <3>1. CASE k = 0
        BY <2>1, <3>1 DEF LoopOf
      <3>2. CASE k # 0
        <4>1. k \in 1..WordBits /\ k - 1 \in 0..WordBits
          BY <1>4, <3>2
        <4>2. h[k] = step[h[k - 1]] /\ h[k - 1] \in MultState
          BY <2>1, <4>1 DEF LoopOf
        <4> QED BY <3>2, <4>2 DEF step
      <3> QED BY <3>1, <3>2
    <2>3. Is(h)
      BY <2>2
    <2> QED BY <2>3
  <1>6. Is(loop)
    BY <1>5
  <1> HIDE DEF loop, start
  <1>7. \A k \in 0..WordBits : loop[k] = IF k = 0 THEN start ELSE MultStep(loop[k - 1])
    BY <1>6
  <1> DEFINE InWords == {k \in 0..WordBits : loop[k] \in MultState}
  <1>8. ASSUME NEW k \in 0..WordBits, \A j \in 0..WordBits : j < k => j \in InWords
        PROVE  k \in InWords
    <2>1. CASE k = 0
      BY <1>2, <1>7, <2>1
    <2>2. CASE k # 0
      <3>1. k - 1 \in InWords /\ k - 1 \in 0..WordBits
        BY <1>4, <1>8, <2>2
      <3> QED BY <1>7, <2>2, <3>1, MultStepWords
    <2> QED BY <2>1, <2>2
  <1>9. \A k \in 0..WordBits : k \in InWords
    <2> HIDE DEF InWords
    <2> QED BY <1>4, <1>8, Induction
  <1>10. r \in MultState
    BY <1>4, <1>9
  <1> HIDE DEF r
  <1>11. r.hi \in Word /\ r.lo \in Word
    BY <1>10 DEF MultState
  <1> DEFINE not(w) == 2^WordBits - 1 - w
             lo == Wrap(not(r.lo) + 1)
  <1>12. \A w \in Word : not(w) \in Int
    BY WordSizes, WordFacts
  <1>13. lo \in Word /\ Wrap(not(r.hi) + (IF lo = 0 THEN 1 ELSE 0)) \in Word
    <2>1. not(r.lo) + 1 \in Int /\ not(r.hi) + 1 \in Int /\ not(r.hi) + 0 \in Int
      BY <1>11, <1>12
    <2> QED BY <2>1, WrapWord
  <1>14. Mult(a, b, signedArith) =
           IF a = 0 \/ b = 0 THEN [hi |-> 0, lo |-> 0]
           ELSE IF ~(signedArith /\ SignBit(a) # SignBit(b)) THEN [hi |-> r.hi, lo |-> r.lo]
           ELSE [hi |-> Wrap(not(r.hi) + (IF lo = 0 THEN 1 ELSE 0)), lo |-> lo]
    BY DEF Mult, r, loop, start
  <1> HIDE DEF lo
  <1> QED BY <1>11, <1>13, <1>14, WordFacts

-----------------------------------------------------------------------------
(* Every instruction has a good effect *)

\* The fields of an instruction.
LEMMA Decoded ==
    ASSUME NEW i \in Instructions
    PROVE  /\ i.op \in Operations /\ i.rs \in GPRegs /\ i.rt \in GPRegs /\ i.rd \in GPRegs
           /\ i.extra \in Word /\ i.extra \in Nat
           /\ i.op \in {"SLL", "SRA", "SRL"} => i.extra < WordBits
           /\ i.op \in {"J", "JAL"} => i.extra < 2^TargetBits
  BY DecodeAssumption, WordFacts

LEMMA Sources ==
    ASSUME ProcessorInv, NEW i \in Instructions
    PROVE  /\ Rs(i) \in Word /\ Rt(i) \in Word /\ Rs(i) \in Nat /\ Rt(i) \in Nat
           /\ Signed(Rs(i)) \in Int /\ Signed(Rt(i)) \in Int /\ Signed(i.extra) \in Int
           /\ i.extra % Half \in Word
  <1>1. i.rs \in GPRegs /\ i.rt \in GPRegs /\ i.extra \in Word /\ i.extra \in Nat
    BY Decoded
  <1>2. Rs(i) \in Word /\ Rt(i) \in Word
    BY <1>1, RegistersAreWords DEF Rs, Rt
  <1>3. i.extra % Half \in 0..Half - 1
    <2>1. Half \in Nat \ {0} /\ i.extra \in Int
      BY <1>1, WordSizes
    <2> QED BY <2>1, Remainder
  <1> QED BY <1>1, <1>2, <1>3, WordFacts

CanFetch == Translate(registers.pc, 4, FALSE) = "NoException"

LEMMA SignsGood ==
    ASSUME ProcessorInv, CanFetch, NEW i \in Instructions, i.op \in Groups.arithmetic
    PROVE  Good(Signs(i))
  <1>1. Good(Fetched)
    BY FetchedGood DEF CanFetch
  <1>2. Rs(i) \in Word /\ Rt(i) \in Word /\ Rs(i) \in Nat /\ Rt(i) \in Nat /\ i.extra \in Nat
        /\ i.rt \in GPRegs /\ i.rd \in GPRegs /\ i.extra % Half \in Word
    BY Sources, Decoded
  <1>3. Wrap(Rs(i) + Rt(i)) \in Int /\ Wrap(Rs(i) + i.extra) \in Int
    <2>1. Rs(i) + Rt(i) \in Int /\ Rs(i) + i.extra \in Int
      BY <1>2
    <2> QED BY <2>1, WrapWord, WordFacts
  <1>4. BitAnd(Rs(i), Rt(i)) \in Int /\ BitAnd(Rs(i), i.extra % Half) \in Int
    BY <1>2, MachineAssumption, WordFacts
  <1>5. Good(Raises(Fetched, "Overflow", 0))
    BY <1>1, RaisesGood, WordFacts DEF Exceptions
  <1>6. i.op \in {"ADD", "ADDI", "ADDIU", "ADDU", "AND", "ANDI"}
    BY DEF Groups
  <1>7. CASE i.op = "ADD"
    BY <1>1, <1>2, <1>3, <1>5, <1>7, SetRegGood DEF Signs
  <1>8. CASE i.op = "ADDI"
    BY <1>1, <1>2, <1>3, <1>5, <1>8, SetRegGood DEF Signs
  <1>9. CASE i.op \in {"ADDIU", "ADDU", "AND", "ANDI"}
    BY <1>1, <1>2, <1>3, <1>4, <1>9, SetRegGood DEF Signs
  <1> QED BY <1>6, <1>7, <1>8, <1>9

LEMMA SubtractsGood ==
    ASSUME ProcessorInv, CanFetch, NEW i \in Instructions
    PROVE  Good(Subtracts(i))
  <1>1. Good(Fetched)
    BY FetchedGood DEF CanFetch
  <1>2. i.rd \in GPRegs /\ Wrap(Rs(i) - Rt(i)) \in Int
    <2>1. Rs(i) - Rt(i) \in Int
      BY Sources
    <2> QED BY <2>1, Decoded, WrapWord, WordFacts
  <1>3. Good(Raises(Fetched, "Overflow", 0))
    BY <1>1, RaisesGood, WordFacts DEF Exceptions
  <1> QED BY <1>1, <1>2, <1>3, SetRegGood DEF Subtracts

LEMMA BranchesGood ==
    ASSUME ProcessorInv, CanFetch, NEW i \in Instructions
    PROVE  Good(Branches(i))
  <1> DEFINE link == IF i.op \in {"BGEZAL", "BLTZAL"}
                       THEN SetReg(Fetched, RetAddrReg, registers.nextPC + 4) ELSE Fetched
             target == Wrap(registers.nextPC + IndexToAddr(i.extra))
  <1>1. registers.nextPC \in Nat /\ i.extra \in Nat
    BY Decoded, WordFacts DEF ProcessorInv, RegisterFile
  <1>2. Good(link)
    <2>1. Good(Fetched) /\ registers.nextPC + 4 \in Int
      BY <1>1, FetchedGood DEF CanFetch
    <2>2. Good(SetReg(Fetched, RetAddrReg, registers.nextPC + 4))
      BY <2>1, SetRegGood, ZeroRegister
    <2> QED BY <2>1, <2>2
  <1>3. target \in Word
    <2>1. registers.nextPC + IndexToAddr(i.extra) \in Int
      BY <1>1 DEF IndexToAddr
    <2> QED BY <2>1, WrapWord
  <1> HIDE DEF link, target
  <1>4. Good([link EXCEPT !.pcAfter = target])
    BY <1>2, <1>3, PcGood
  <1>5. Branches(i) \in {link, [link EXCEPT !.pcAfter = target]}
    BY DEF Branches, link, target
  <1> QED BY <1>2, <1>4, <1>5

LEMMA DivideGood ==
    ASSUME ProcessorInv, CanFetch, NEW i \in Instructions
    PROVE  Good(Divide(i))
  <1> DEFINE a == IF i.op = "DIV" THEN Signed(Rs(i)) ELSE Rs(i)
             b == IF i.op = "DIV" THEN Signed(Rt(i)) ELSE Rt(i)
             q == HostQuotient(a, b)
  <1>1. Good(Fetched)
    BY FetchedGood DEF CanFetch
  <1>2. a \in Int /\ b \in Int
    BY Sources
  <1>3. Divide(i) = IF b = 0 THEN [Fetched EXCEPT !.regs.lo = 0, !.regs.hi = 0]
                    ELSE IF i.op = "DIV" /\ q \notin SignedRange
                      THEN Raises(Fetched, "HostTrap", 0)
                    ELSE [Fetched EXCEPT !.regs.lo = Wrap(q), !.regs.hi = Wrap(a - q * b)]
    BY DEF Divide
  <1> HIDE DEF a, b
  <1>4. CASE b = 0
    <2>1. 0 \in Word
      BY WordFacts
    <2>2. Good([Fetched EXCEPT !.regs.lo = 0, !.regs.hi = 0])
      BY <1>1, <2>1, HiLoGood
    <2> QED BY <1>3, <1>4, <2>2
  <1>5. CASE b # 0
    <2>1. q \in Int
      BY <1>2, <1>5 DEF HostQuotient
    <2> HIDE DEF q
    <2>2. a - q * b \in Int
      BY <1>2, <2>1
    <2>3. Wrap(q) \in Word /\ Wrap(a - q * b) \in Word
      BY <2>1, <2>2, WrapWord
    <2>4. Good([Fetched EXCEPT !.regs.lo = Wrap(q), !.regs.hi = Wrap(a - q * b)])
      BY <1>1, <2>3, HiLoGood
    <2>5. Good(Raises(Fetched, "HostTrap", 0))
      BY <1>1, RaisesGood, WordFacts
    <2> QED BY <1>3, <1>5, <2>4, <2>5
  <1> QED BY <1>4, <1>5

LEMMA JumpsGood ==
    ASSUME ProcessorInv, CanFetch, NEW i \in Instructions, i.op \in Groups.jump
    PROVE  Good(Jumps(i))
  <1> DEFINE next == Fetched.pcAfter
             link == Wrap(registers.nextPC + 4)
             range == 2^(TargetBits + 2)
             toIndex == (next - (next % range)) + IndexToAddr(i.extra)
  <1>1. Good(Fetched)
    BY FetchedGood DEF CanFetch
  <1>2. next \in Word /\ next \in Nat /\ registers.nextPC + 4 \in Int /\ link \in Int
    <2>1. next \in Word /\ registers.nextPC \in Word
      BY <1>1 DEF Good, EffectRecord, ProcessorInv, RegisterFile
    <2>2. registers.nextPC + 4 \in Int
      BY <2>1, WordFacts
    <2> QED BY <2>1, <2>2, WordFacts, WrapWord
  <1>3. i.op \in {"J", "JAL"} => toIndex \in Word
    <2> SUFFICES ASSUME i.op \in {"J", "JAL"} PROVE toIndex \in Word
      OBVIOUS
    <2>1. TargetBits + 2 \in 0..WordBits /\ TargetBits \in 0..WordBits /\ 2 \in 0..WordBits
      BY MachineAssumption, WordSizes
    <2>2. range = 2^TargetBits * 4 /\ range \in Nat \ {0} /\ 2^TargetBits \in Nat
      <3>1. 2^2 = 4
        OBVIOUS
      <3> QED BY <2>1, <3>1, PowerSum, PowerNat
    <2>3. \E c \in Nat \ {0} : 2^WordBits = range * c
      <3>1. WordBits - (TargetBits + 2) \in 0..WordBits
            /\ WordBits = (TargetBits + 2) + (WordBits - (TargetBits + 2))
        BY <2>1, WordSizes
      <3> QED BY <2>1, <3>1, PowerSum, PowerNat
    <2>4. i.extra \in Nat /\ 4 * i.extra <= range - 4
      BY <2>2, Decoded
    <2> HIDE DEF range, next
    <2>5. PICK c \in Nat \ {0} : 2^WordBits = range * c
      BY <2>3
    <2>6. next \in 0..c * range - 1
      <3>1. c * range = range * c
        BY <2>2
      <3> QED BY <1>2, <2>5, <3>1 DEF Word
    <2>7. next - (next % range) = range * (next \div range) /\ next \div range \in 0..c - 1
      BY <2>2, <2>5, <2>6, TwoParts
    <2>8. \A d \in 0..c - 1 : range * d <= range * c - range /\ range * d \in Nat
      <3> SUFFICES ASSUME NEW d \in 0..c - 1
                   PROVE  range * d <= range * c - range /\ range * d \in Nat
        OBVIOUS
      <3>1. range * d <= range * (c - 1) /\ range * (c - 1) = range * c - range
        BY <2>2
      <3> QED BY <2>2, <3>1
    <2>9. range * (next \div range) <= range * c - range /\ range * (next \div range) \in Nat
      BY <2>7, <2>8
    <2>10. 2^WordBits \in Nat
      BY WordSizes
    <2> QED BY <2>2, <2>4, <2>5, <2>7, <2>9, <2>10 DEF Word, IndexToAddr
  <1> HIDE DEF toIndex, link
  <1>4. Rs(i) \in Word /\ i.rd \in GPRegs /\ i.rs \in GPRegs
    BY Sources, Decoded
  <1>5. Good(SetReg(Fetched, RetAddrReg, link)) /\ Good(SetReg(Fetched, i.rd, link))
        /\ SetReg(Fetched, i.rd, link).regs.gp[i.rs] \in Word
    <2>1. /\ Good(SetReg(Fetched, i.rd, link))
          /\ SetReg(Fetched, i.rd, link).regs.gp \in [GPRegs -> Word]
      BY <1>1, <1>2, <1>4, SetRegGood
    <2>2. Good(SetReg(Fetched, RetAddrReg, link))
      BY <1>1, <1>2, SetRegGood, ZeroRegister
    <2> QED BY <1>4, <2>1, <2>2
  <1>6. i.op \in {"J", "JAL", "JR", "JALR"}
    BY DEF Groups
  <1>7. CASE i.op = "J"
    BY <1>1, <1>3, <1>7, PcGood DEF Jumps, toIndex
  <1>8. CASE i.op = "JAL"
    BY <1>3, <1>5, <1>8, PcGood DEF Jumps, toIndex, link
  <1>9. CASE i.op = "JR"
    BY <1>1, <1>4, <1>9, PcGood DEF Jumps
  <1>10. CASE i.op = "JALR"
    BY <1>5, <1>10, PcGood DEF Jumps, link
  <1> QED BY <1>6, <1>7, <1>8, <1>9, <1>10

LEMMA AddressIsWord ==
    ASSUME ProcessorInv, NEW i \in Instructions
    PROVE  /\ EffAddr(i) \in Word /\ EffAddr(i) \in Nat
           /\ EffAddr(i) % 4 \in 0..3 /\ EffAddr(i) - (EffAddr(i) % 4) \in Word
           /\ (EffAddr(i) - (EffAddr(i) % 4)) % 4 = 0
  <1>1. EffAddr(i) \in Word
    <2>1. Rs(i) + i.extra \in Int
      BY Sources, Decoded
    <2> QED BY <2>1, WrapWord DEF EffAddr
  <1>2. EffAddr(i) \in Nat
    BY <1>1, WordFacts
  <1>3. \A a \in Nat : a % 4 \in 0..3 /\ a - (a % 4) \in 0..a /\ (a - (a % 4)) % 4 = 0
    OBVIOUS
  <1> QED BY <1>1, <1>2, <1>3, WordSizes DEF Word

LEMMA LoadsGood ==
    ASSUME ProcessorInv, CanFetch, NEW i \in Instructions, i.op \in Groups.load
    PROVE  Good(Loads(i))
  <1> DEFINE a == EffAddr(i)
             size == CASE i.op \in {"LB", "LBU"} -> 1 [] i.op \in {"LH", "LHU"} -> 2
                       [] i.op = "LW" -> 4
             e == IF a % size # 0 THEN Raises(Fetched, "AddressError", a)
                  ELSE Reading(Fetched, a, size)
             value == ReadMem(a, size)
             v == IF e.exception # "NoException" THEN 0
                  ELSE IF i.op \in {"LB", "LH"} THEN SignExtended(value, size) ELSE value
  <1>1. Good(Fetched) /\ Fetched.exception = "NoException"
    BY FetchedGood DEF CanFetch
  <1>2. i.op \in {"LB", "LBU", "LH", "LHU", "LW"}
    BY DEF Groups
  <1>3. size \in {1, 2, 4} /\ (i.op \in {"LB", "LH"} => size # 4)
    BY <1>2
  <1>4. a \in Word /\ i.rt \in GPRegs
    BY AddressIsWord, Decoded
  <1>5. Loads(i) = Starts(e, i.rt, v)
    BY DEF Loads
  <1> HIDE DEF size, a
  <1>6. /\ Good(Reading(Fetched, a, size))
        /\ Reading(Fetched, a, size).exception = "NoException" => value \in ValuesOf(size)
    BY <1>1, <1>3, <1>4, ReadingGood
  <1>7. /\ Good(Raises(Fetched, "AddressError", a))
        /\ Raises(Fetched, "AddressError", a).exception = "AddressError"
    BY <1>1, <1>4, RaisesGood DEF Exceptions
  <1>8. Good(e) /\ (e.exception = "NoException" => value \in ValuesOf(size))
    BY <1>6, <1>7
  <1> HIDE DEF e, value
  <1>9. v \in Word
    BY <1>3, <1>8, NumberIsWord, WordFacts
  <1> HIDE DEF v
  <1> QED BY <1>4, <1>5, <1>8, <1>9, StartsGood

LEMMA LoadsPartGood ==
    ASSUME ProcessorInv, CanFetch, NEW i \in Instructions
    PROVE  Good(LoadsPart(i))
  <1> DEFINE a == EffAddr(i)
             byte == a % 4
             e == Reading(Fetched, a - byte, 4)
             value == ReadMem(a - byte, 4)
             old == IF registers.load = i.rt THEN registers.loadValue ELSE Rt(i)
             v == IF e.exception # "NoException" THEN 0
                  ELSE IF i.op = "LWL" THEN Low(old, 3 - byte) + Up(value, 3 - byte)
                  ELSE High(old, byte) + Down(value, byte)
  <1>1. Good(Fetched) /\ Fetched.exception = "NoException"
    BY FetchedGood DEF CanFetch
  <1>2. byte \in 0..3 /\ 3 - byte \in 0..3 /\ a - byte \in Word /\ i.rt \in GPRegs
    BY AddressIsWord, Decoded
  <1>3. old \in Word
    BY Sources DEF ProcessorInv, RegisterFile
  <1>4. LoadsPart(i) = Starts(e, i.rt, v)
    BY DEF LoadsPart
  <1> HIDE DEF old, byte, a
  <1>5. Good(e) /\ (e.exception = "NoException" => value \in Word)
    BY <1>1, <1>2, ReadingGood
  <1> HIDE DEF e, value
  <1>6. v \in Word
    BY <1>2, <1>3, <1>5, MergedIsWord, WordFacts
  <1> HIDE DEF v
  <1> QED BY <1>2, <1>4, <1>5, <1>6, StartsGood

LEMMA MovesGood ==
    ASSUME ProcessorInv, CanFetch, NEW i \in Instructions, i.op \in Groups.move
    PROVE  Good(Moves(i))
  <1> DEFINE product == Mult(Rs(i), Rt(i), i.op = "MULT")
  <1>1. Good(Fetched)
    BY FetchedGood DEF CanFetch
  <1>2. Rs(i) \in Word /\ Rt(i) \in Word /\ i.rd \in GPRegs
    BY Sources, Decoded
  <1>3. product.hi \in Word /\ product.lo \in Word
    <2>1. (i.op = "MULT") \in BOOLEAN
      OBVIOUS
    <2> QED BY <1>2, <2>1, MultWords
  <1>4. registers.hi \in Int /\ registers.lo \in Int
    <2>1. registers.hi \in Word /\ registers.lo \in Word
      BY DEF ProcessorInv, RegisterFile
    <2> QED BY <2>1, WordFacts
  <1>5. i.op \in {"MFHI", "MFLO", "MTHI", "MTLO", "MULT", "MULTU"}
    BY DEF Groups
  <1> HIDE DEF product
  <1>6. CASE i.op \in {"MFHI", "MFLO"}
    BY <1>1, <1>2, <1>4, <1>6, SetRegGood DEF Moves
  <1>7. CASE i.op \in {"MTHI", "MTLO"}
    BY <1>1, <1>2, <1>7, HiLoGood DEF Moves
  <1>8. CASE i.op \in {"MULT", "MULTU"}
    <2>1. Good([Fetched EXCEPT !.regs.hi = product.hi, !.regs.lo = product.lo])
      BY <1>1, <1>3, HiLoGood
    <2> QED BY <1>8, <2>1 DEF Moves, product
  <1> QED BY <1>5, <1>6, <1>7, <1>8

LEMMA LogicalGood ==
    ASSUME ProcessorInv, CanFetch, NEW i \in Instructions, i.op \in Groups.logical
    PROVE  Good(Logical(i))
  <1>1. Good(Fetched)
    BY FetchedGood DEF CanFetch
  <1>2. Rs(i) \in Word /\ Rt(i) \in Word /\ i.extra % Half \in Word /\ i.rd \in GPRegs
        /\ i.rt \in GPRegs /\ i.extra \in Nat
    BY Sources, Decoded
  <1>3. /\ BitOr(Rs(i), Rt(i)) \in Int /\ BitOr(Rs(i), i.extra % Half) \in Int
        /\ BitXor(Rs(i), Rt(i)) \in Int /\ BitXor(Rs(i), i.extra % Half) \in Int
    BY <1>2, MachineAssumption, WordFacts
  <1>4. 2^WordBits - 1 - BitOr(Rs(i), Rt(i)) \in Int /\ i.extra * Half \in Int
    BY <1>2, <1>3, WordSizes
  <1>5. i.op \in {"NOR", "OR", "ORI", "XOR", "XORI", "LUI"}
    BY DEF Groups
  <1> QED BY <1>1, <1>2, <1>3, <1>4, <1>5, SetRegGood DEF Logical

LEMMA StoresGood ==
    ASSUME ProcessorInv, CanFetch, NEW i \in Instructions, i.op \in {"SB", "SH", "SW"}
    PROVE  Good(Stores(i))
  <1> DEFINE size == CASE i.op = "SB" -> 1 [] i.op = "SH" -> 2 [] i.op = "SW" -> 4
  <1>1. Good(Fetched) /\ Fetched.memory = mainMemory
    BY FetchedGood DEF CanFetch, Fetched
  <1>2. Rt(i) \in Word /\ EffAddr(i) \in Word
    BY Sources, AddressIsWord
  <1>3. size \in {1, 2, 4}
    OBVIOUS
  <1>4. Stores(i) = WriteMem(Fetched, EffAddr(i), size, Rt(i))
    BY DEF Stores
  <1> HIDE DEF size
  <1> QED BY <1>1, <1>2, <1>3, <1>4, WriteMemGood

LEMMA ShiftsGood ==
    ASSUME ProcessorInv, CanFetch, NEW i \in Instructions, i.op \in Groups.shift
    PROVE  Good(Shifts(i))
  <1> DEFINE amount == IF i.op \in {"SLL", "SRA", "SRL"} THEN i.extra ELSE Rs(i) % WordBits
             n == IF i.op \in {"SLL", "SLLV"} THEN Rt(i) * 2^amount
                  ELSE Signed(Rt(i)) \div 2^amount
  <1>1. Good(Fetched)
    BY FetchedGood DEF CanFetch
  <1>2. Rs(i) \in Int /\ Rt(i) \in Int /\ Signed(Rt(i)) \in Int /\ i.rd \in GPRegs
    BY Sources, Decoded
  <1>3. amount \in 0..WordBits
    <2>1. Rs(i) % WordBits \in 0..WordBits - 1
      <3>1. WordBits \in Nat \ {0}
        BY WordSizes
      <3> QED BY <1>2, <3>1, Remainder
    <2> QED BY <2>1, Decoded, WordSizes
  <1>4. Shifts(i) = SetReg(Fetched, i.rd, n)
    BY DEF Shifts
  <1> HIDE DEF amount
  <1>5. 2^amount \in Nat \ {0}
    BY <1>3, PowerNat
  <1>6. n \in Int
    <2> DEFINE p == 2^amount
    <2>1. p \in Nat \ {0}
      BY <1>5
    <2> HIDE DEF p
    <2>2. Rt(i) * p \in Int /\ Signed(Rt(i)) \div p \in Int
      BY <1>2, <2>1
    <2> QED BY <2>2 DEF p
  <1> HIDE DEF n
  <1> QED BY <1>1, <1>2, <1>4, <1>6, SetRegGood

LEMMA ComparesGood ==
    ASSUME ProcessorInv, CanFetch, NEW i \in Instructions, i.op \in Groups.compare
    PROVE  Good(Compares(i))
  <1> DEFINE one(b) == IF b THEN 1 ELSE 0
  <1>1. Good(Fetched)
    BY FetchedGood DEF CanFetch
  <1>2. i.rd \in GPRegs /\ i.rt \in GPRegs
    BY Decoded
  <1>3. i.op \in {"SLT", "SLTI", "SLTIU", "SLTU"}
    BY DEF Groups
  <1>4. \A r \in GPRegs : Good(SetReg(Fetched, r, 0)) /\ Good(SetReg(Fetched, r, 1))
    BY <1>1, SetRegGood
  <1>5. \E r \in GPRegs, n \in {0, 1} : Compares(i) = SetReg(Fetched, r, n)
    BY <1>2, <1>3 DEF Compares
  <1> QED BY <1>4, <1>5

LEMMA StoresPartGood ==
    ASSUME ProcessorInv, CanFetch, NEW i \in Instructions
    PROVE  Good(StoresPart(i))
  <1> DEFINE a == EffAddr(i)
             byte == a % 4
             read == Reading(Fetched, a - byte, 4)
             value == ReadMem(a - byte, 4)
             merged == IF i.op = "SWL" THEN High(value, 3 - byte) + Down(Rt(i), 3 - byte)
                       ELSE Low(value, byte) + Up(Rt(i), byte)
  <1>1. Good(Fetched) /\ Fetched.exception = "NoException" /\ Fetched.memory = mainMemory
    BY FetchedGood DEF CanFetch, Fetched
  <1>2. byte \in 0..3 /\ 3 - byte \in 0..3 /\ a - byte \in Word /\ Rt(i) \in Word
    BY AddressIsWord, Sources
  <1>3. StoresPart(i) = IF read.exception # "NoException" THEN read
                        ELSE WriteMem(read, a - byte, 4, merged)
    BY DEF StoresPart
  <1> HIDE DEF byte, a
  <1>4. /\ Good(read)
        /\ read.exception = "NoException" => value \in Word /\ read.memory = mainMemory
    BY <1>1, <1>2, ReadingGood
  <1> HIDE DEF read, value
  <1>5. read.exception = "NoException" => merged \in Word
    BY <1>2, <1>4, MergedIsWord
  <1> HIDE DEF merged
  <1> QED BY <1>2, <1>3, <1>4, <1>5, WriteMemGood

LEMMA EffectGood ==
    ASSUME ProcessorInv, CanFetch, NEW i \in Instructions
    PROVE  Good(Effect(i))
  <1>1. Good(Fetched)
    BY FetchedGood DEF CanFetch
  <1>2. /\ Good(Raises(Fetched, "Syscall", 0)) /\ Good(Raises(Fetched, "IllegalInstr", 0))
    BY <1>1, RaisesGood, WordFacts DEF Exceptions
  <1>3. i.op \in Operations
    BY Decoded
  <1>4. CASE i.op \in Groups.arithmetic
    BY <1>4, SignsGood DEF Effect, Groups
  <1>5. CASE i.op \in Groups.branch
    BY <1>5, BranchesGood DEF Effect, Groups
  <1>6. CASE i.op \in {"DIV", "DIVU"}
    BY <1>6, DivideGood DEF Effect, Groups
  <1>7. CASE i.op \in Groups.jump
    BY <1>7, JumpsGood DEF Effect, Groups
  <1>8. CASE i.op \in Groups.load
    BY <1>8, LoadsGood DEF Effect, Groups
  <1>9. CASE i.op \in {"LWL", "LWR"}
    BY <1>9, LoadsPartGood DEF Effect, Groups
  <1>10. CASE i.op \in Groups.move
    BY <1>10, MovesGood DEF Effect, Groups
  <1>11. CASE i.op \in Groups.logical
    BY <1>11, LogicalGood DEF Effect, Groups
  <1>12. CASE i.op \in {"SB", "SH", "SW"}
    BY <1>12, StoresGood DEF Effect, Groups
  <1>13. CASE i.op \in Groups.shift
    BY <1>13, ShiftsGood DEF Effect, Groups
  <1>14. CASE i.op \in Groups.compare
    BY <1>14, ComparesGood DEF Effect, Groups
  <1>15. CASE i.op \in {"SUB", "SUBU"}
    BY <1>15, SubtractsGood DEF Effect, Groups
  <1>16. CASE i.op \in {"SWL", "SWR"}
    BY <1>16, StoresPartGood DEF Effect, Groups
  <1>17. CASE i.op \in {"SYSCALL", "RES", "UNIMP"}
    BY <1>2, <1>17 DEF Effect, Groups
  <1>18. \/ i.op \in {"DIV", "DIVU", "LWL", "LWR", "SB", "SH", "SW", "SUB", "SUBU", "SWL",
                      "SWR", "SYSCALL", "RES", "UNIMP"}
         \/ i.op \in Groups.arithmetic \/ i.op \in Groups.branch \/ i.op \in Groups.jump
         \/ i.op \in Groups.load \/ i.op \in Groups.move \/ i.op \in Groups.logical
         \/ i.op \in Groups.shift \/ i.op \in Groups.compare
    <2>1. DOMAIN Groups = {"arithmetic", "branch", "jump", "load", "move", "logical", "shift",
                           "compare"}
      BY DEF Groups
    <2>2. i.op \in UNION {Groups[g] : g \in DOMAIN Groups}
           \/ i.op \in {"DIV", "DIVU", "LWL", "LWR", "SB", "SH", "SW", "SUB", "SUBU", "SWL",
                        "SWR", "SYSCALL", "RES", "UNIMP"}
      BY <1>3 DEF Operations
    <2> QED BY <2>1, <2>2
  <1> QED BY <1>4, <1>5, <1>6, <1>7, <1>8, <1>9, <1>10, <1>11, <1>12, <1>13, <1>14, <1>15,
             <1>16, <1>17, <1>18

-----------------------------------------------------------------------------
(* The processor: its steps *)

LEMMA DelayedLoadFile ==
    ASSUME NEW regs \in RegisterFile, NEW reg \in GPRegs, NEW value \in Word
    PROVE  /\ DelayedLoad(regs, reg, value) \in RegisterFile
           /\ DelayedLoad(regs, reg, value).gp[0] = 0
           /\ DelayedLoad(regs, reg, value).load = reg
           /\ DelayedLoad(regs, reg, value).loadValue = value
  <1> DEFINE g == [regs.gp EXCEPT ![regs.load] = regs.loadValue, ![0] = 0]
  <1>1. regs.gp \in [GPRegs -> Word] /\ regs.loadValue \in Word /\ 0 \in GPRegs /\ 0 \in Word
    BY ZeroRegister, WordFacts DEF RegisterFile
  <1>2. g \in [GPRegs -> Word] /\ g[0] = 0
    BY <1>1
  <1>3. DelayedLoad(regs, reg, value) = [regs EXCEPT !.gp = g, !.load = reg, !.loadValue = value]
    BY DEF DelayedLoad, RegisterFile
  <1> HIDE DEF g
  <1> QED BY <1>2, <1>3 DEF RegisterFile

\* A step of the program or of the kernel for it: the bits of the pages it
\* changes are set, and no bit is cleared.
Recorded ==
  /\ Grown(pageTable, pageTable') /\ Noted(mainMemory, mainMemory', pageTable')
  /\ pageTableSize' = pageTableSize

LEMMA NothingRecorded ==
    ASSUME ProcessorInv, UNCHANGED <<mainMemory, pageTable, pageTableSize>>
    PROVE  Recorded
  BY DEF Recorded, Grown, Noted

\* A processor whose load in progress is completed, as the kernel finds it.
LEMMA RaiseExceptionGood ==
    ASSUME ProcessorInv, NEW e, e.badVAddr \in Word, RaiseException(e)
    PROVE  /\ registers' \in RegisterFile /\ registers'.gp[0] = 0
           /\ registers'.load = 0 /\ registers'.loadValue = 0
           /\ status' \in {"system", "halted"}
  <1> DEFINE regs == [registers EXCEPT !.badVAddr = e.badVAddr]
  <1>1. regs \in RegisterFile
    BY DEF ProcessorInv, RegisterFile
  <1>2. registers' = DelayedLoad(regs, 0, 0) /\ status' \in {"system", "halted"}
    BY DEF RaiseException
  <1> HIDE DEF regs
  <1>3. 0 \in GPRegs /\ 0 \in Word
    BY ZeroRegister, WordFacts
  <1>4. registers' \in RegisterFile /\ registers'.gp[0] = 0
    BY <1>1, <1>2, <1>3, DelayedLoadFile
  <1>5. registers'.load = 0 /\ registers'.loadValue = 0
    BY <1>1, <1>2, <1>3, DelayedLoadFile
  <1> QED BY <1>2, <1>4, <1>5

LEMMA OneInstructionGood ==
    ASSUME ProcessorInv, NEW i \in Instructions, OneInstruction(i)
    PROVE  ProcessorInv' /\ Recorded
  <1> DEFINE fetch == Translate(registers.pc, 4, FALSE)
             e == IF fetch = "NoException" THEN Effect(i)
                  ELSE [exception |-> fetch, badVAddr |-> registers.pc, table |-> pageTable]
  <1>1. registers.pc \in Word /\ registers.pc \in Nat /\ registers.nextPC \in Word
    BY WordFacts DEF ProcessorInv, RegisterFile
  <1>2. /\ status = "user" /\ pageTable' = e.table /\ pageTableSize' = pageTableSize
        /\ \/ /\ e.exception = "NoException"
              /\ registers' = [DelayedLoad(e.regs, e.loadReg, e.loadValue)
                                 EXCEPT !.pc = registers.nextPC, !.nextPC = e.pcAfter]
              /\ mainMemory' = e.memory
              /\ status' = status
           \/ RaiseException(e) /\ mainMemory' = mainMemory
           \/ status' = "halted" /\ registers' = registers /\ mainMemory' = mainMemory
    BY DEF OneInstruction
  <1>3. /\ e.badVAddr \in Word
        /\ IsTable(e.table, pageTableSize) /\ Grown(pageTable, e.table)
        /\ e.exception = "NoException" =>
             e \in EffectRecord /\ Noted(mainMemory, e.memory, e.table)
    <2>1. CASE fetch = "NoException"
      <3>1. Good(Effect(i)) /\ e = Effect(i)
        BY <2>1, EffectGood DEF CanFetch
      <3> HIDE DEF e
      <3> QED BY <3>1 DEF Good, EffectRecord
    <2>2. CASE fetch # "NoException"
      BY <1>1, <2>2 DEF ProcessorInv, Grown
    <2> QED BY <2>1, <2>2
  <1> HIDE DEF e
  <1>4. IsTable(pageTable, pageTableSize)' /\ pageTableSize' \in 0..NumPhysPages
    BY <1>2, <1>3 DEF ProcessorInv, IsTable
  <1>5. CASE /\ e.exception = "NoException"
             /\ registers' = [DelayedLoad(e.regs, e.loadReg, e.loadValue)
                                EXCEPT !.pc = registers.nextPC, !.nextPC = e.pcAfter]
             /\ mainMemory' = e.memory
             /\ status' = status
    <2> DEFINE d == DelayedLoad(e.regs, e.loadReg, e.loadValue)
    <2>1. /\ e.regs \in RegisterFile /\ e.loadReg \in GPRegs /\ e.loadValue \in Word
          /\ e.pcAfter \in Word /\ e.memory \in Memories
      BY <1>3, <1>5 DEF EffectRecord
    <2>2. d \in RegisterFile /\ d.gp[0] = 0
      BY <2>1, DelayedLoadFile
    <2>3. registers' = [d EXCEPT !.pc = registers.nextPC, !.nextPC = e.pcAfter]
      BY <1>5
    <2> HIDE DEF d
    <2>4. registers' \in RegisterFile /\ registers'.gp[0] = 0
      BY <1>1, <2>1, <2>2, <2>3 DEF RegisterFile
    <2>5. status' = "user" /\ mainMemory' \in Memories
      BY <1>2, <1>5, <2>1
    <2> QED BY <1>2, <1>3, <1>4, <1>5, <2>4, <2>5 DEF ProcessorInv, Recorded
  <1>6. CASE RaiseException(e) /\ mainMemory' = mainMemory
    <2>1. /\ registers' \in RegisterFile /\ registers'.gp[0] = 0
          /\ registers'.load = 0 /\ registers'.loadValue = 0
          /\ status' \in {"system", "halted"}
      BY <1>3, <1>6, RaiseExceptionGood
    <2>2. Noted(mainMemory, mainMemory', pageTable')
      BY <1>6 DEF Noted
    <2> QED BY <1>2, <1>3, <1>4, <1>6, <2>1, <2>2 DEF ProcessorInv, Recorded
  <1>7. CASE status' = "halted" /\ registers' = registers /\ mainMemory' = mainMemory
    <2>1. Noted(mainMemory, mainMemory', pageTable')
      BY <1>7 DEF Noted
    <2> QED BY <1>2, <1>3, <1>4, <1>7, <2>1 DEF ProcessorInv, Recorded
  <1> QED BY <1>2, <1>5, <1>6, <1>7

LEMMA InterruptDueGood ==
    ASSUME ProcessorInv, InterruptDue
    PROVE  ProcessorInv' /\ Recorded
  <1>1. registers \in RegisterFile /\ 0 \in GPRegs /\ 0 \in Word
    BY ZeroRegister, WordFacts DEF ProcessorInv
  <1>2. registers' = DelayedLoad(registers, 0, 0)
    BY DEF InterruptDue
  <1>3. registers' \in RegisterFile /\ registers'.gp[0] = 0
    BY <1>1, <1>2, DelayedLoadFile
  <1>4. /\ status = "user" /\ status' = status
        /\ UNCHANGED <<mainMemory, pageTable, pageTableSize>>
    BY DEF InterruptDue
  <1> QED BY <1>3, <1>4, NothingRecorded DEF ProcessorInv, IsTable

LEMMA ReturnFromCallGood ==
    ASSUME ProcessorInv, NEW res \in Results, ReturnFromCall(res)
    PROVE  ProcessorInv' /\ Recorded
  <1> DEFINE gp == [registers.gp EXCEPT ![2] = res]
             pc == Wrap(registers.pc + 4)
             next == Wrap(registers.pc + 8)
  <1>1. /\ registers \in RegisterFile /\ registers.gp[0] = 0 /\ registers.pc \in Nat
        /\ res \in Word /\ 2 \in GPRegs
    BY MachineAssumption, ZeroRegister, WordFacts DEF ProcessorInv, RegisterFile
  <1>2. pc \in Word /\ next \in Word
    <2>1. registers.pc + 4 \in Int /\ registers.pc + 8 \in Int
      BY <1>1
    <2> QED BY <2>1, WrapWord
  <1>3. gp \in [GPRegs -> Word] /\ gp[0] = 0
    BY <1>1 DEF RegisterFile
  <1>4. registers' = [registers EXCEPT !.gp = gp, !.pc = pc, !.nextPC = next]
    BY <1>1 DEF ReturnFromCall, RegisterFile
  <1> HIDE DEF gp, pc, next
  <1>5. registers' \in RegisterFile /\ registers'.gp[0] = 0
    BY <1>1, <1>2, <1>3, <1>4 DEF RegisterFile
  <1>6. status' = "user" /\ UNCHANGED <<mainMemory, pageTable, pageTableSize>>
    BY DEF ReturnFromCall
  <1> QED BY <1>5, <1>6, NothingRecorded DEF ProcessorInv, IsTable

LEMMA CopyByteGood ==
    ASSUME ProcessorInv, NEW addr \in Results, NEW writing \in BOOLEAN,
           CopyByte(addr, writing, 1)
    PROVE  ProcessorInv' /\ Recorded
  <1> DEFINE none == [Fetched EXCEPT !.table = pageTable]
             e == IF writing THEN WriteMem(none, addr, 1, 1) ELSE Reading(none, addr, 1)
  <1>1. addr \in Word /\ 1 \in Word /\ 1 \in {1, 2, 4}
    BY MachineAssumption, WordFacts
  <1>2. none.exception = "NoException" /\ none.memory = mainMemory /\ Good(none)
    <2>1. /\ none = [exception |-> "NoException", badVAddr |-> 0, regs |-> registers,
                     memory |-> mainMemory, table |-> pageTable,
                     pcAfter |-> Wrap(registers.nextPC + 4), loadReg |-> 0, loadValue |-> 0]
      BY DEF Fetched
    <2>2. registers.nextPC + 4 \in Int /\ 0 \in Word /\ 0 \in GPRegs
      BY ZeroRegister, WordFacts DEF ProcessorInv, RegisterFile
    <2>3. Wrap(registers.nextPC + 4) \in Word
      BY <2>2, WrapWord
    <2> DEFINE after == Wrap(registers.nextPC + 4)
    <2> HIDE DEF none, after
    <2>4. none \in EffectRecord /\ none.table = pageTable
      BY <2>1, <2>2, <2>3 DEF ProcessorInv, EffectRecord, IsTable, after
    <2>5. none.exception = "NoException" /\ none.memory = mainMemory
      BY <2>1
    <2> QED BY <2>4, <2>5 DEF Good, Grown, Noted, ProcessorInv
  <1>3. /\ pageTable' = e.table /\ mainMemory' = e.memory /\ status = "system"
        /\ pageTableSize' = pageTableSize
        /\ \/ registers' = registers /\ status' = status
           \/ RaiseException(e)
    BY DEF CopyByte
  <1> HIDE DEF none
  <1>4. Good(e)
    BY <1>1, <1>2, ReadingGood, WriteMemGood
  <1> HIDE DEF e
  <1>5. Recorded /\ IsTable(pageTable, pageTableSize)' /\ mainMemory' \in Memories
    BY <1>3, <1>4 DEF Good, Recorded, EffectRecord, IsTable
  <1>6. CASE registers' = registers /\ status' = status
    BY <1>3, <1>5, <1>6 DEF ProcessorInv
  <1>7. CASE RaiseException(e)
    <2>1. e.badVAddr \in Word
      BY <1>4 DEF Good, EffectRecord
    <2>2. /\ registers' \in RegisterFile /\ registers'.gp[0] = 0
          /\ registers'.load = 0 /\ registers'.loadValue = 0
          /\ status' \in {"system", "halted"}
      BY <1>7, <2>1, RaiseExceptionGood
    <2> QED BY <1>3, <1>5, <2>2 DEF ProcessorInv
  <1> QED BY <1>3, <1>6, <1>7

LEMMA StatusOnlyGood ==
    ASSUME ProcessorInv,
           \/ UnknownCall \/ HaltCall \/ LoadFails \/ UNCHANGED machineVars
    PROVE  ProcessorInv' /\ Recorded
  <1>1. UNCHANGED <<registers, mainMemory, pageTable, pageTableSize>>
    BY DEF UnknownCall, HaltCall, LoadFails, machineVars
  <1>2. status' \in {"user", "halted"} \/ status' = status
    BY DEF UnknownCall, HaltCall, LoadFails, machineVars
  <1> QED BY <1>1, <1>2, NothingRecorded DEF ProcessorInv, IsTable

LEMMA CopiedMemory ==
    ASSUME NEW m \in Memories, NEW s \in Segment
    PROVE  Copied(m, s) \in Memories
  <1>1. s.virtualAddr \in Nat /\ s.bytes \in Seq(Byte)
    BY DEF Segment
  <1> DEFINE n == Len(s.bytes)
  <1>2. n \in Nat /\ \A k \in 1..n : s.bytes[k] \in Byte
    BY <1>1
  <1>3. ASSUME NEW b \in 0..MemorySize - 1
        PROVE  (IF b - s.virtualAddr \in 0..n - 1
                  THEN s.bytes[b - s.virtualAddr + 1] ELSE m[b]) \in Byte
    <2>1. CASE b - s.virtualAddr \in 0..n - 1
      <3>1. b \in Int
        BY <1>3
      <3>2. b - s.virtualAddr + 1 \in 1..n
        BY <1>1, <1>2, <2>1, <3>1
      <3> QED BY <1>2, <2>1, <3>2
    <2>2. CASE b - s.virtualAddr \notin 0..n - 1
      BY <2>2 DEF Memories
    <2> QED BY <2>1, <2>2
  <1>4. DOMAIN m = 0..MemorySize - 1
    BY DEF Memories
  <1>5. Copied(m, s) = [b \in 0..MemorySize - 1 |->
                          IF b - s.virtualAddr \in 0..n - 1
                            THEN s.bytes[b - s.virtualAddr + 1] ELSE m[b]]
    BY <1>4 DEF Copied
  <1> QED BY <1>3, <1>5 DEF Memories

LEMMA NoBytes == [b \in 0..MemorySize - 1 |-> 0] \in Memories
  <1>1. 0 \in Byte
    BY WordSizes DEF Byte
  <1> QED BY <1>1 DEF Memories

LEMMA IdentityIsTable ==
    ASSUME NEW size \in Nat
    PROVE  IsTable(IdentityTable, size)
  BY DEF IdentityTable, IsTable, Pages, PageEntry

\* A space has room for the stack.
LEMMA StackFits ==
    ASSUME NEW noff \in NoffFiles
    PROVE  NumPages(noff) \in Nat /\ UserStackSize <= NumPages(noff) * PageSize
  <1> DEFINE n == Len(noff.code.bytes) + Len(noff.readonlyData.bytes)
                    + Len(noff.initData.bytes) + noff.uninitSize
             q == (n + UserStackSize + PageSize - 1) \div PageSize
  <1>1. /\ noff.code.bytes \in Seq(Byte) /\ noff.readonlyData.bytes \in Seq(Byte)
        /\ noff.initData.bytes \in Seq(Byte) /\ noff.uninitSize \in Nat
    BY ProgramAssumption DEF Segment
  <1>2. n \in Nat /\ UserStackSize \in Nat /\ PageSize \in Nat \ {0}
    <2>1. /\ Len(noff.code.bytes) \in Nat /\ Len(noff.readonlyData.bytes) \in Nat
          /\ Len(noff.initData.bytes) \in Nat
      BY <1>1
    <2>2. n \in Nat
      <3> DEFINE x == Len(noff.code.bytes)  y == Len(noff.readonlyData.bytes)
                 z == Len(noff.initData.bytes)  u == noff.uninitSize
      <3>1. x \in Nat /\ y \in Nat /\ z \in Nat /\ u \in Nat
        BY <1>1, <2>1
      <3> HIDE DEF x, y, z, u
      <3>2. x + y + z + u \in Nat
        BY <3>1
      <3> QED BY <3>2 DEF x, y, z, u
    <2> QED BY <2>2, MachineAssumption
  <1>3. NumPages(noff) = q
    BY DEF NumPages, DivRoundUp
  <1> HIDE DEF n
  <1>4. q \in Nat /\ n + UserStackSize + PageSize - 1 < (q + 1) * PageSize
    <2> DEFINE m == n + UserStackSize + PageSize - 1
    <2>1. m \in Nat
      BY <1>2
    <2> HIDE DEF m
    <2>2. m \div PageSize \in Nat /\ m < (m \div PageSize + 1) * PageSize
      BY <1>2, <2>1
    <2> QED BY <2>2 DEF m
  <1> HIDE DEF q
  <1>5. (q + 1) * PageSize = q * PageSize + PageSize /\ q * PageSize \in Nat
    BY <1>2, <1>4
  <1>6. UserStackSize <= q * PageSize
    BY <1>2, <1>4, <1>5
  <1> QED BY <1>3, <1>4, <1>6

LEMMA LoadGood ==
    ASSUME ProcessorInv, NEW noff \in NoffFiles, Load(noff)
    PROVE  ProcessorInv'
  <1>1. noff.code \in Segment /\ noff.initData \in Segment /\ noff.readonlyData \in Segment
    BY ProgramAssumption
  <1>2. mainMemory' \in Memories
    BY <1>1, NoBytes, CopiedMemory DEF Load
  <1>3. /\ pageTableSize' = NumPages(noff) /\ pageTable' = IdentityTable
        /\ status' = "loaded" /\ registers' = registers /\ NumPages(noff) <= NumPhysPages
    BY DEF Load
  <1>4. NumPages(noff) \in 0..NumPhysPages /\ UserStackSize <= NumPages(noff) * PageSize
    BY <1>3, StackFits, MachineAssumption
  <1>5. IsTable(pageTable', pageTableSize')
    BY <1>3, <1>4, IdentityIsTable
  <1>6. IsTable(pageTable, pageTableSize)'
    BY <1>5 DEF IsTable
  <1> QED BY <1>2, <1>3, <1>4, <1>6 DEF ProcessorInv

LEMMA ExecuteGood ==
    ASSUME ProcessorInv, Execute
    PROVE  ProcessorInv'
  <1> DEFINE top == pageTableSize * PageSize - StackGap
  <1>1. /\ pageTableSize \in 0..NumPhysPages /\ UserStackSize <= pageTableSize * PageSize
        /\ PageSize \in Nat \ {0} /\ NumPhysPages \in Nat
        /\ NumPhysPages * PageSize <= 2^WordBits
        /\ UserStackSize \in Nat /\ StackGap \in 1..UserStackSize
    BY MachineAssumption DEF ProcessorInv, Execute
  <1>2. pageTableSize * PageSize <= NumPhysPages * PageSize
    BY <1>1
  <1>3. top \in Word
    <2> DEFINE size == pageTableSize * PageSize
               all == NumPhysPages * PageSize
               words == 2^WordBits
    <2>1. size \in Nat /\ all \in Nat /\ words \in Nat
      BY <1>1, PowerNat, WordSizes
    <2>2. UserStackSize <= size /\ size <= all /\ all <= words
      BY <1>1, <1>2
    <2> HIDE DEF size, all, words
    <2>3. size - StackGap \in 0..words - 1
      BY <1>1, <2>1, <2>2
    <2> QED BY <2>3 DEF size, words, Word
  <1> HIDE DEF top
  <1>4. 0 \in Word /\ 4 \in Word /\ 0 \in GPRegs /\ StackReg \in GPRegs /\ StackReg # 0
    BY ZeroRegister, WordFacts, MachineAssumption
  <1>5. registers' = [gp |-> [r \in GPRegs |-> IF r = StackReg THEN top ELSE 0],
                      hi |-> 0, lo |-> 0, pc |-> 0, nextPC |-> 4, load |-> 0,
                      loadValue |-> 0, badVAddr |-> 0]
    BY DEF Execute, InitialRegisters, top
  <1>6. registers' \in RegisterFile /\ registers'.gp[0] = 0
    BY <1>3, <1>4, <1>5 DEF RegisterFile
  <1>7. status' = "user" /\ UNCHANGED <<mainMemory, pageTable, pageTableSize>>
    BY DEF Execute
  <1> QED BY <1>6, <1>7 DEF ProcessorInv, IsTable

LEMMA InitGood == MInit => ProcessorInv
  <1>1. ASSUME status = "boot",
               registers = [InitialRegisters(0) EXCEPT !.gp[StackReg] = 0, !.nextPC = 0],
               mainMemory = [b \in 0..MemorySize - 1 |-> 0],
               pageTable = IdentityTable, pageTableSize = 0
        PROVE  ProcessorInv
    <2> DEFINE gp == [[r \in GPRegs |-> IF r = StackReg THEN 0 * PageSize - StackGap ELSE 0]
                        EXCEPT ![StackReg] = 0]
    <2>1. 0 \in Word /\ 0 \in GPRegs /\ 0 \in 0..NumPhysPages /\ 0 \in Nat
      BY ZeroRegister, WordFacts, MachineAssumption
    <2>2. gp \in [GPRegs -> Word] /\ gp[0] = 0
      BY <2>1
    <2>3. registers = [gp |-> gp, hi |-> 0, lo |-> 0, pc |-> 0, nextPC |-> 0, load |-> 0,
                       loadValue |-> 0, badVAddr |-> 0]
      BY <1>1 DEF InitialRegisters
    <2> HIDE DEF gp
    <2>4. registers \in RegisterFile /\ registers.gp[0] = 0
      BY <2>1, <2>2, <2>3 DEF RegisterFile
    <2> QED BY <1>1, <2>1, <2>4, NoBytes, IdentityIsTable DEF ProcessorInv
  <1>2. ASSUME status = "user", pageTable = IdentityTable, NEW run \in Running,
               registers = run.registers, mainMemory = run.memory, pageTableSize = run.pages
        PROVE  ProcessorInv
    <2>1. /\ registers \in RegisterFile /\ registers.gp[0] = 0
          /\ mainMemory \in Memories /\ pageTableSize \in 0..NumPhysPages
      BY <1>2, ProgramAssumption
    <2>2. IsTable(pageTable, pageTableSize)
      BY <1>2, <2>1, IdentityIsTable
    <2> QED BY <1>2, <2>1, <2>2 DEF ProcessorInv
  <1> QED BY <1>1, <1>2 DEF MInit

LEMMA StepGood ==
    ASSUME ProcessorInv, [MNext]_machineVars
    PROVE  ProcessorInv' /\ ((status \in {"user", "system"}) => Recorded)
  <1>1. ASSUME NEW noff \in NoffFiles, Load(noff)
        PROVE  ProcessorInv' /\ status = "boot"
    BY <1>1, LoadGood DEF Load
  <1>2. ASSUME Execute
        PROVE  ProcessorInv' /\ status = "loaded"
    BY <1>2, ExecuteGood DEF Execute
  <1>3. ASSUME NEW i \in Instructions, OneInstruction(i)
        PROVE  ProcessorInv' /\ Recorded
    BY <1>3, OneInstructionGood
  <1>4. ASSUME NEW res \in Results, ReturnFromCall(res)
        PROVE  ProcessorInv' /\ Recorded
    BY <1>4, ReturnFromCallGood
  <1>5. ASSUME NEW addr \in Results, NEW writing \in BOOLEAN, CopyByte(addr, writing, 1)
        PROVE  ProcessorInv' /\ Recorded
    BY <1>5, CopyByteGood
  <1>6. CASE LoadFails \/ UnknownCall \/ HaltCall \/ UNCHANGED machineVars
    BY <1>6, StatusOnlyGood
  <1>7. CASE InterruptDue
    BY <1>7, InterruptDueGood
  <1> QED BY <1>1, <1>2, <1>3, <1>4, <1>5, <1>6, <1>7 DEF MNext, RunInstruction

\* What is recorded is what the bits tell.
LEMMA RecordedTells ==
    ASSUME ProcessorInv, ProcessorInv', Recorded, status \in {"user", "system"}
    PROVE  BitsTell
  <1>1. ASSUME NEW a \in DOMAIN VirtualMemory, mainMemory'[PhysAddr(a)] # mainMemory[PhysAddr(a)]
        PROVE  pageTable'[VirtualPage(a)].dirty /\ pageTable'[VirtualPage(a)].use
    <2>1. a \in 0..pageTableSize * PageSize - 1
      BY DEF VirtualMemory
    <2>2. PageSize \in Nat \ {0} /\ pageTableSize \in 0..NumPhysPages /\ NumPhysPages \in Nat
      BY MachineAssumption DEF ProcessorInv
    <2>3. a \in Nat /\ a < pageTableSize * PageSize
      <3> DEFINE size == pageTableSize * PageSize
      <3>1. size \in Nat /\ a \in 0..size - 1
        BY <2>1, <2>2
      <3> HIDE DEF size
      <3> QED BY <3>1 DEF size
    <2>4. VirtualPage(a) < pageTableSize /\ VirtualPage(a) \in Nat
      <3>1. pageTableSize \in Nat
        BY <2>2
      <3> QED BY <2>3, <3>1, PageOf
    <2>5. PhysAddr(a) = a /\ a \in 0..MemorySize - 1
      BY <2>2, <2>3, <2>4, AddressesOfSpace DEF MemorySize
    <2>6. VirtualPage(a) \in Pages /\ pageTable'[VirtualPage(a)].dirty
      BY <1>1, <2>5 DEF Recorded, Noted
    <2> QED BY <2>6 DEF ProcessorInv, IsTable
  <1>2. ASSUME NEW p \in DOMAIN pageTable
        PROVE  /\ pageTable[p].use => pageTable'[p].use
               /\ pageTable[p].dirty => pageTable'[p].dirty
               /\ pageTable'[p].dirty => pageTable'[p].use
               /\ p >= pageTableSize => ~pageTable'[p].use
    <2>1. p \in Pages /\ pageTableSize' = pageTableSize
      BY DEF ProcessorInv, IsTable, Recorded
    <2>2. pageTableSize \in Nat /\ p \in Nat
      BY <2>1, MachineAssumption DEF ProcessorInv, Pages
    <2>3. pageTable'[p].use => p < pageTableSize
      BY <2>1 DEF ProcessorInv, IsTable
    <2> QED BY <2>1, <2>2, <2>3 DEF ProcessorInv, IsTable, Recorded, Grown
  <1> QED BY <1>1, <1>2 DEF BitsTell

\* The invariant of the processor and of the address space, from boot to halt.
THEOREM ProcessorInvariant == MSpec => []ProcessorInv
  <1>1. ProcessorInv /\ [MNext]_machineVars => ProcessorInv'
    BY StepGood
  <1> QED BY <1>1, InitGood, PTL DEF MSpec

\* Whatever the program and the interrupts do, registers and memory hold words and
\* bytes, register 0 is 0, and the kernel finds no load in progress.
THEOREM RegistersAreRight == MSpec => []MachineInv
  BY ProcessorInvariant, InvIsType, PTL

\* Machine::Translate and AddrSpace::Translate agree on every address, and no two
\* addresses of the space are the same byte.
THEOREM MemoryIsOne == MSpec => []OneMemoryForBoth
  BY ProcessorInvariant, InvOneMemory, PTL

\* No instruction, complete or not, and no byte copied by the kernel changes memory
\* that is not marked dirty and used, or clears a bit.
THEOREM BitsTellTheTruth == MSpec => ChangesAreNoted
  <1>1. ProcessorInv /\ [MNext]_machineVars =>
          [(status \in {"user", "system"}) => BitsTell]_machineVars
    BY StepGood, RecordedTells
  <1> QED BY <1>1, ProcessorInvariant, PTL DEF MSpec, ChangesAreNoted
=============================================================================
