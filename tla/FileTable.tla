----------------------------- MODULE FileTable -----------------------------
(***************************************************************************)
(* The file system calls of the default build: Kernel::File_* (kernel.cc)  *)
(* on the table of open files and the UNIX files of the stub FileSystem    *)
(* (filesys.h) and OpenFile (openfile.h).                                  *)
(*                                                                         *)
(* The handlers do not re-enable interrupts, so each call is one action,   *)
(* apart from the console's characters, which no other call sees.  What a  *)
(* user program gets is its register 2, the bytes that Read has put in its *)
(* buffer and what the console shows; each call starts from none of the    *)
(* last two.  Where the handler uses a pointer it has not set, or an entry *)
(* past the end of the table, the kernel may die.                          *)
(***************************************************************************)
EXTENDS Integers, Sequences, FiniteSets

CONSTANTS Names,      (* file names, the two below included                *)
          StdinName, StdoutName,   (* "stdin" and "stdout"                 *)
          Inodes,     (* identities of UNIX files                          *)
          Null,       (* NULL in the table, and no file of that name       *)
          TableSize,  (* 20                                                *)
          Bytes,      (* the bytes programs write, 0 being NUL             *)
          MaxLength,  (* bound on the length of a file                     *)
          MaxIO       (* bound on the size of one Read or Write            *)

\* An entry of the table that is not NULL.
OpenFiles == [name : Names, inode : Inodes, offset : 0 .. MaxLength]

\* UNIX has room for a file of each name and two more, those that the
\* standard entries keep when their names have been removed.
ASSUME FileTableAssumption ==
    /\ {StdinName, StdoutName} \subseteq Names /\ StdinName # StdoutName
    /\ IsFiniteSet(Names) /\ IsFiniteSet(Inodes)
    /\ Cardinality(Inodes) >= Cardinality(Names) + 2
    /\ TableSize \in Nat /\ TableSize > 2
    /\ Bytes \subseteq Nat
    /\ MaxLength \in Nat /\ MaxIO \in Nat
    /\ Null \notin Inodes \cup OpenFiles

VARIABLES dir,       (* the UNIX directory: which file a name stands for   *)
          data,      (* the contents of each UNIX file                     *)
          ListFile,  (* FileSystem::ListFile                               *)
          result,    (* register 2                                         *)
          received,  (* the bytes the last Read has put in user memory     *)
          shown,     (* the characters the last call has put on the console *)
          crashed    (* the kernel has died                                *)

vars == <<dir, data, ListFile, result, received, shown, crashed>>

Slots     == 0 .. TableSize - 1
Buffers   == UNION {[1 .. n -> Bytes] : n \in 0 .. MaxIO}
Newline   == 10
INT_MIN   == -2147483647 - 1
SC_Write  == 8               (* what register 2 holds when Write is called *)

IsOpen(id) == ListFile[id] # Null

\* A UNIX file that no name and no open file stands for.
FreeInode ==
    CHOOSE i \in Inodes :
        /\ \A n \in Names : dir[n] # i
        /\ \A s \in Slots : IsOpen(s) => ListFile[s].inode # i

\* The constructor creates and opens the files named stdin and stdout.
Init ==
    LET in == CHOOSE i \in Inodes : TRUE
        out == CHOOSE i \in Inodes \ {in} : TRUE
    IN  /\ dir = [n \in Names |-> CASE n = StdinName -> in
                                    [] n = StdoutName -> out
                                    [] OTHER -> Null]
        /\ data = [i \in Inodes |-> <<>>]
        /\ ListFile = [s \in Slots |->
               CASE s = 0 -> [name |-> StdinName, inode |-> in, offset |-> 0]
                 [] s = 1 -> [name |-> StdoutName, inode |-> out, offset |-> 0]
                 [] OTHER -> Null]
        /\ result = 0
        /\ received = <<>> /\ shown = <<>>
        /\ crashed = FALSE

-----------------------------------------------------------------------------
\* What a call returns when it gives the program nothing but register 2.
Return(r) ==
    /\ result' = r
    /\ received' = <<>> /\ shown' = <<>>
    /\ UNCHANGED crashed

Fail == Return(-1) /\ UNCHANGED <<dir, data, ListFile>>

Crash ==
    /\ crashed' = TRUE
    /\ UNCHANGED <<dir, data, ListFile, result, received, shown>>

\* The tests that Close, Read, Write and Seek start with: an identifier below
\* the first one or above TableSize is refused, so that entry TableSize, one
\* past the end, is looked at.
Refused(id, first) == id < first \/ id > TableSize

BeyondTable(id) == id = TableSize

\* What the entry past the end does to the call: taken for NULL it is refused
\* as a file that is not open, taken for a pointer it kills the kernel.
LookBeyondTable(id) == BeyondTable(id) /\ (Fail \/ Crash)

Usable(id, first) ==
    ~Refused(id, first) /\ ~BeyondTable(id) /\ IsOpen(id)

RefuseId(id, first) ==
    \/ Refused(id, first) /\ Fail
    \/ ~Refused(id, first) /\ LookBeyondTable(id)
    \/ ~Refused(id, first) /\ ~BeyondTable(id) /\ ~IsOpen(id) /\ Fail

-----------------------------------------------------------------------------
\* Create opens the UNIX file for writing, which makes it or empties it.
File_Create(n) ==
    /\ IF dir[n] = Null
       THEN /\ dir' = [dir EXCEPT ![n] = FreeInode]
            /\ UNCHANGED data
       ELSE /\ data' = [data EXCEPT ![dir[n]] = <<>>]
            /\ UNCHANGED dir
    /\ UNCHANGED ListFile
    /\ Return(0)

\* The open file of that name, in the entries that both Open and Remove
\* search.
OpenAs(n) == {s \in 2 .. TableSize - 1 : IsOpen(s) /\ ListFile[s].name = n}

FreeSlots == {s \in 2 .. TableSize - 1 : ~IsOpen(s)}

\* Wrong variant of FindFreeSlot, refused by IdsAreStable.
FindFreeSlotReusesLast ==
    IF FreeSlots = {} THEN TableSize - 1
    ELSE CHOOSE s \in FreeSlots : \A r \in FreeSlots : s <= r

FindFreeSlot ==
    IF FreeSlots = {} THEN -1
    ELSE CHOOSE s \in FreeSlots : \A r \in FreeSlots : s <= r

OpenNew(n) ==
    IF FindFreeSlot = -1 THEN Fail
    ELSE IF dir[n] = Null THEN Crash     \* ListFile[freeIndex]->fileName = ...
    ELSE /\ ListFile' = [ListFile EXCEPT ![FindFreeSlot] =
                           [name |-> n, inode |-> dir[n], offset |-> 0]]
         /\ UNCHANGED <<dir, data>>
         /\ Return(FindFreeSlot)

File_Open(n) ==
    IF OpenAs(n) # {}
    THEN /\ Return(CHOOSE s \in OpenAs(n) : \A r \in OpenAs(n) : s <= r)
         /\ UNCHANGED <<dir, data, ListFile>>
    ELSE OpenNew(n)

File_Close(id) ==
    \/ RefuseId(id, 2)
    \/ /\ Usable(id, 2)
       /\ ListFile' = [ListFile EXCEPT ![id] = Null]
       /\ UNCHANGED <<dir, data>>
       /\ Return(1)

\* unlink(): the UNIX file lives on while it is open.
Unlink(n) ==
    /\ dir' = [dir EXCEPT ![n] = Null]
    /\ data' = IF \E s \in Slots : IsOpen(s) /\ ListFile[s].inode = dir[n]
               THEN data ELSE [data EXCEPT ![dir[n]] = <<>>]
    /\ UNCHANGED ListFile

\* Wrong variant of File_Remove, refused by FileTableInv.
File_RemoveOpenToo(n) ==
    IF dir[n] = Null THEN Fail
    ELSE Unlink(n) /\ Return(0)

File_Remove(n) ==
    IF OpenAs(n) # {} \/ dir[n] = Null THEN Fail
    ELSE Unlink(n) /\ Return(0)

-----------------------------------------------------------------------------
File(id) == data[ListFile[id].inode]

Minimum(a, b) == IF a <= b THEN a ELSE b
Maximum(a, b) == IF a >= b THEN a ELSE b

\* Kernel::User2System: the copy is NUL from the first NUL on.
User2System(buffer) ==
    [i \in 1 .. Len(buffer) |->
        IF \E j \in 1 .. i : buffer[j] = 0 THEN 0 ELSE buffer[i]]

\* Kernel::System2User copies up to the first NUL, and this one.
System2User(buffer) ==
    LET copied == {k \in 1 .. Len(buffer) : \A j \in 1 .. k - 1 : buffer[j] # 0}
    IN  SubSeq(buffer, 1, Cardinality(copied))

\* read() of the stub OpenFile at its offset.
BytesAt(id, size) ==
    LET n == Minimum(size, Maximum(0, Len(File(id)) - ListFile[id].offset))
    IN  SubSeq(File(id), ListFile[id].offset + 1, ListFile[id].offset + n)

\* A keyboard line of at most "size" characters goes through a pointer that
\* File_Read has not set.
ReadKeyboard(size) ==
    \/ Crash
    \/ \E n \in 0 .. size :
         /\ received' = [i \in 1 .. n |-> 1]
         /\ result' = n
         /\ shown' = <<>>
         /\ UNCHANGED <<dir, data, ListFile, crashed>>

ReadFile(id, size) ==
    LET buffer == BytesAt(id, size) IN
    /\ received' = System2User(buffer)
    /\ result' = IF buffer = <<>> THEN INT_MIN ELSE Len(buffer)
    /\ shown' = <<>>
    /\ ListFile' = [ListFile EXCEPT ![id].offset = @ + Len(buffer)]
    /\ UNCHANGED <<dir, data, crashed>>

File_Read(size, id) ==
    \/ RefuseId(id, 0)
    \/ Usable(id, 0) /\ id = 0 /\ ReadKeyboard(size)
    \/ Usable(id, 0) /\ id # 0 /\ ReadFile(id, size)

\* write() at an offset, with NULs in the gap if it is past the end.
Overwritten(old, offset, buffer) ==
    [i \in 1 .. Maximum(Len(old), offset + Len(buffer)) |->
        IF i \in offset + 1 .. offset + Len(buffer) THEN buffer[i - offset]
        ELSE IF i <= Len(old) THEN old[i] ELSE 0]

\* Standard output is written to the file named stdout like any other one;
\* the console gets a newline when there is nothing to write.
WriteFile(id, buffer) ==
    LET offset == ListFile[id].offset IN
    /\ offset + Len(buffer) <= MaxLength
    /\ data' = [data EXCEPT ![ListFile[id].inode] =
                  Overwritten(@, offset, User2System(buffer))]
    /\ ListFile' = [ListFile EXCEPT ![id].offset = @ + Len(buffer)]
    /\ UNCHANGED dir
    /\ Return(Len(buffer))

WriteNothing(id) ==
    /\ IF id = 1
       THEN result' = -1 /\ shown' = <<Newline>>
       ELSE result' = SC_Write /\ shown' = <<>>
    /\ received' = <<>>
    /\ UNCHANGED <<dir, data, ListFile, crashed>>

File_Write(buffer, id) ==
    \/ RefuseId(id, 0)
    \/ Usable(id, 0) /\ id = 0 /\ Fail
    \/ Usable(id, 0) /\ id # 0 /\ buffer # <<>> /\ WriteFile(id, buffer)
    \/ Usable(id, 0) /\ id # 0 /\ buffer = <<>> /\ WriteNothing(id)

\* Wrong variant of File_Seek, refused by FailedCallsChangeNothing.
File_SeekBeforeTest(pos, id) ==
    \/ RefuseId(id, 0)
    \/ Usable(id, 0) /\ id \in {0, 1} /\ Fail
    \/ /\ Usable(id, 0) /\ id \notin {0, 1}
       /\ LET p == IF pos = -1 THEN Len(File(id)) ELSE pos
          IN  /\ ListFile' = [ListFile EXCEPT ![id].offset = p]
              /\ UNCHANGED <<dir, data>>
              /\ Return(IF p \in 0 .. Len(File(id)) THEN p ELSE -1)

\* Position -1 is the end of the file; one behind it, or before the start,
\* is refused.
File_Seek(pos, id) ==
    \/ RefuseId(id, 0)
    \/ Usable(id, 0) /\ id \in {0, 1} /\ Fail
    \/ /\ Usable(id, 0) /\ id \notin {0, 1}
       /\ LET p == IF pos = -1 THEN Len(File(id)) ELSE pos
          IN  IF p \in 0 .. Len(File(id))
              THEN /\ ListFile' = [ListFile EXCEPT ![id].offset = p]
                   /\ UNCHANGED <<dir, data>>
                   /\ Return(p)
              ELSE Fail

-----------------------------------------------------------------------------
\* The identifiers, positions and sizes programs may pass.
Ids       == -1 .. TableSize + 1
Positions == -2 .. MaxLength + 1
Sizes     == 0 .. MaxIO

Next ==
    /\ ~crashed
    /\ \/ \E n \in Names : File_Create(n) \/ File_Open(n) \/ File_Remove(n)
       \/ \E id \in Ids :
            \/ File_Close(id)
            \/ \E size \in Sizes : File_Read(size, id)
            \/ \E buffer \in Buffers : File_Write(buffer, id)
            \/ \E pos \in Positions : File_Seek(pos, id)

Spec == Init /\ [][Next]_vars

-----------------------------------------------------------------------------
(* Properties.                                                             *)

TypeOK ==
    /\ dir \in [Names -> Inodes \cup {Null}]
    /\ data \in [Inodes -> Seq(Bytes \cup {0})]
    /\ \A i \in Inodes : Len(data[i]) <= MaxLength
    /\ ListFile \in [Slots -> OpenFiles \cup {Null}]
    /\ result \in Int
    /\ crashed \in BOOLEAN

\* No name is open under two identifiers, so that no two offsets move in one
\* file without the program's knowledge.
OneEntryPerName ==
    \A r, s \in 2 .. TableSize - 1 :
        IsOpen(r) /\ IsOpen(s) /\ ListFile[r].name = ListFile[s].name => r = s

\* An identifier that Open has returned stands for the file that its name
\* stands for, whatever has been created and removed since: Remove refuses a
\* file that is open, and Create empties it where it is.
OpenFilesHaveTheirName ==
    \A s \in 2 .. TableSize - 1 :
        IsOpen(s) => dir[ListFile[s].name] = ListFile[s].inode

\* Two names never stand for one file, nor does a name for a file that only
\* the standard entries have kept: a new file is nobody's old one.
FilesNotShared ==
    /\ \A m, n \in Names : dir[m] = dir[n] /\ dir[m] # Null => m = n
    /\ \A s \in Slots : \A n \in Names :
         IsOpen(s) /\ dir[n] = ListFile[s].inode => n = ListFile[s].name

FileTableInv ==
    /\ TypeOK
    /\ OneEntryPerName
    /\ OpenFilesHaveTheirName
    /\ FilesNotShared

\* An identifier goes on standing for the same file until it is closed: no
\* Open takes over an entry that is in use, not when the table is full either.
IdsAreStable ==
    [][\A s \in Slots :
         IsOpen(s) => \/ IsOpen(s)' /\ ListFile'[s].inode = ListFile[s].inode
                                    /\ ListFile'[s].name = ListFile[s].name
                      \/ File_Close(s)]_vars

\* kernel.cc:546 "check whether the file exists": Open of a name that stands
\* for no file fails.
OpenOfMissingFails ==
    [][\A n \in Names :
         dir[n] = Null /\ File_Open(n) => ~crashed' /\ result' = -1]_vars

=============================================================================
