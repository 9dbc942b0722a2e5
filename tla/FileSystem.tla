----------------------------- MODULE FileSystem -----------------------------
(***************************************************************************)
(* The real file system (built without FILESYS_STUB) of filesys/, on the    *)
(* sectors of the synchronous disk: filesys.cc, directory.cc, filehdr.cc,    *)
(* openfile.cc and the two bitmaps.  Its comment excludes concurrent access, *)
(* so one operation runs at a time; but each writes its sectors one after    *)
(* the other, and every state in between is one a stopped machine leaves.    *)
(***************************************************************************)
EXTENDS Integers, Sequences, FiniteSets, FiniteSetsExt, Functions

CONSTANTS
  NumSectors, SectorSize, NumDirEntries,
  NumDirect,         \* the sectors a header has room for
  Straddling,        \* the entry of the directory whose name is in its second sector
  FileNames,
  Short(_),          \* the FileNameMaxLen characters of a name that are compared
  InitialFiles,      \* what the constructor creates: "stdin" and "stdout"
  Sizes, Chunks, Positions, Counts,    \* of the calls of a client
  Bytes, Junk,       \* the bytes it writes, and one nobody wrote
  NULL

\* Room for the special files and the headers of the two initial ones, and in a
\* header for the two sectors of the directory; a null pointer is no OpenFile.
ASSUME FileSystemAssumption ==
  /\ NumSectors \in Nat /\ NumSectors >= 7
  /\ SectorSize \in Nat \ {0}
  /\ NumDirEntries \in Nat /\ NumDirEntries >= 2
  /\ NumDirect \in Nat /\ NumDirect >= 2
  /\ Straddling \in 1..NumDirEntries
  /\ Short(InitialFiles[1]) # Short(InitialFiles[2])
  /\ Sizes \subseteq Nat /\ Positions \subseteq Int
  /\ Counts \subseteq Int /\ Chunks \subseteq Seq(Bytes)
  /\ NULL \notin [hdr : [is : {"header"}, numBytes : Nat, dataSectors : Seq(Nat)],
                  seekPosition : Nat, sector : Nat]

VARIABLES
  image,      \* the contents of each sector
  pending,    \* what the operation has still to write: a sequence of <<sector, contents>>
  handle,     \* a client's OpenFile: NULL, or its header and seekPosition
  removed,    \* whether the file of handle was removed since
  misused,    \* whether a client did what the code does not guard against; no
              \* operation is modelled from then on
  answer      \* the operation done last and what it returns
fsVars == <<image, pending, handle, removed, misused, answer>>

FreeMapSector == 0
DirectorySector == 1
SectorNumbers == 0..NumSectors - 1
divRoundUp(n, s) == (n + s - 1) \div s
SmallerOf(m, n) == IF m < n THEN m ELSE n

-----------------------------------------------------------------------------
(* What is stored in a sector *)

HeaderOf(numBytes, sectors) ==
  [is |-> "header", numBytes |-> numBytes, dataSectors |-> sectors]
MapOf(marked) == [is |-> "map", marked |-> marked]
Data(bytes) == [is |-> "data", bytes |-> bytes]
BytesIn(c) == IF c.is = "data" THEN c.bytes ELSE [k \in 1..SectorSize |-> Junk]

\* The table of a directory as the bytes of two sectors: the straddling entry
\* has inUse and sector in the first and its name in the second.
FirstPart(table) ==
  [is |-> "directory",
   use |-> [i \in 1..Straddling |-> <<table[i].inUse, table[i].sector>>],
   name |-> [i \in 1..Straddling - 1 |-> table[i].name]]
SecondPart(table) ==
  [is |-> "directory",
   use |-> [i \in Straddling + 1..NumDirEntries |-> <<table[i].inUse, table[i].sector>>],
   name |-> [i \in Straddling..NumDirEntries |-> table[i].name]]
DirectoryFrom(a, b) ==
  [i \in 1..NumDirEntries |->
     LET use == IF i <= Straddling THEN a.use[i] ELSE b.use[i] IN
     [inUse |-> use[1], sector |-> use[2],
      name |-> IF i < Straddling THEN a.name[i] ELSE b.name[i]]]

\* The headers of freeMapFile and directoryFile, kept in memory since the start.
MapSector(d) == d[FreeMapSector].dataSectors[1]
DirectorySectors(d) == d[DirectorySector].dataSectors
FreeMap(d) == d[MapSector(d)].marked
Directory(d) == DirectoryFrom(d[DirectorySectors(d)[1]], d[DirectorySectors(d)[2]])
WriteMap(d, marked) == <<<<MapSector(d), MapOf(marked)>>>>
WriteDirectory(d, table) ==
  <<<<DirectorySectors(d)[1], FirstPart(table)>>, <<DirectorySectors(d)[2], SecondPart(table)>>>>

-----------------------------------------------------------------------------
(* Bitmap, Directory and FileHeader *)

Clear(marked) == SectorNumbers \ marked

\* Bitmap::FindAndSet, n times: the first clear sectors, in their order.
FindAndSet(marked, n) ==
  CHOOSE s \in [1..n -> Clear(marked)] :
    /\ \A j, k \in 1..n : j < k => s[j] < s[k]
    /\ \A c \in Clear(marked) : (\E k \in 1..n : c < s[k]) => c \in Range(s)

\* Wrong variant of FindIndex, which goes on after a match; refused by OthersUntouched.
FindLastIndex(table, name) ==
  LET same == {i \in 1..NumDirEntries : table[i].inUse /\ table[i].name = Short(name)}
  IN  IF same = {} THEN {} ELSE {Max(same)}

\* Directory::FindIndex and Find; -1 is {}.
FindIndex(table, name) ==
  LET same == {i \in 1..NumDirEntries : table[i].inUse /\ table[i].name = Short(name)}
  IN  IF same = {} THEN {} ELSE {Min(same)}
Find(d, name) == {Directory(d)[i].sector : i \in FindIndex(Directory(d), name)}
FreeEntries(table) == {i \in 1..NumDirEntries : ~table[i].inUse}

\* Directory::Add and Remove, which leave the other members of the entry.
Add(table, name, newSector) ==
  [table EXCEPT ![Min(FreeEntries(table))] =
     [inUse |-> TRUE, sector |-> newSector, name |-> Short(name)]]
RemoveEntry(table, i) == [table EXCEPT ![i].inUse = FALSE]

\* FileHeader::Allocate, whose test is for free sectors only; a file of more than
\* NumDirect sectors runs over the end of the header.
TooLong(fileSize) == divRoundUp(fileSize, SectorSize) > NumDirect
Allocates(marked, fileSize) == Cardinality(Clear(marked)) >= divRoundUp(fileSize, SectorSize)
Allocate(marked, fileSize) ==
  HeaderOf(fileSize, FindAndSet(marked, divRoundUp(fileSize, SectorSize)))
\* Wrong variant of Deallocate, refused by FileSystemInv.
DeallocateAllButLast(marked, hdr) ==
  marked \ {hdr.dataSectors[k] : k \in 1..Len(hdr.dataSectors) - 1}

\* FileHeader::Deallocate
Deallocate(marked, hdr) == marked \ Range(hdr.dataSectors)

-----------------------------------------------------------------------------
(* FileSystem *)

Quiet == pending = <<>>
Ready == Quiet /\ ~misused

\* FileSystem::Create: what it writes if nothing is lacking.
Creation(d, name, initialSize) ==
  LET map == FreeMap(d)
      sector == Min(Clear(map))
      map1 == map \cup {sector}
      hdr == Allocate(map1, initialSize)
  IN  <<<<sector, hdr>>>> \o WriteDirectory(d, Add(Directory(d), name, sector))
      \o WriteMap(d, map1 \cup Range(hdr.dataSectors))

\* Its answer.
CanCreate(d, name, initialSize) ==
  /\ FindIndex(Directory(d), name) = {}
  /\ Clear(FreeMap(d)) # {}
  /\ FreeEntries(Directory(d)) # {}
  /\ Allocates(FreeMap(d) \cup {Min(Clear(FreeMap(d)))}, initialSize)

\* What a header that is too long has overwritten in memory is anybody's guess.
Create(name, initialSize) ==
  LET success == CanCreate(image, name, initialSize) IN
  /\ Ready
  /\ misused' = (success /\ TooLong(initialSize))
  /\ pending' = IF success /\ ~TooLong(initialSize)
                  THEN Creation(image, name, initialSize) ELSE <<>>
  /\ answer' = <<"Create", success>>
  /\ UNCHANGED <<image, handle, removed>>

\* FileSystem::Remove: what it writes if the file is there.
Removal(d, name) ==
  LET i == CHOOSE k \in FindIndex(Directory(d), name) : TRUE
      s == Directory(d)[i].sector
  IN  WriteMap(d, Deallocate(FreeMap(d), d[s]) \ {s})
      \o WriteDirectory(d, RemoveEntry(Directory(d), i))

\* It does not look whether the file is open.
Remove(name) ==
  /\ Ready
  /\ pending' = IF Find(image, name) = {} THEN <<>> ELSE Removal(image, name)
  /\ removed' = (removed \/ (handle # NULL /\ handle.sector \in Find(image, name)))
  /\ answer' = <<"Remove", Find(image, name) # {}>>
  /\ UNCHANGED <<image, handle, misused>>

\* FileSystem::Open makes an OpenFile of the file if it is there, forgets it, and
\* returns what is in the first free slot of ListFile, which is NULL.
Open(name) ==
  /\ Ready
  /\ answer' = <<"Open", NULL>>
  /\ UNCHANGED <<image, pending, handle, removed, misused>>

-----------------------------------------------------------------------------
(* OpenFile, of a client that has the sector of a header *)

\* The constructor, called as Open calls it.
NewOpenFile(name) ==
  /\ Ready /\ handle = NULL
  /\ \E s \in Find(image, name) :
       handle' = [hdr |-> image[s], seekPosition |-> 0, sector |-> s]
  /\ removed' = FALSE
  /\ answer' = <<"OpenFile">>
  /\ UNCHANGED <<image, pending, misused>>

\* The check of a request, and its cut at the end of the file.
InFile(hdr, numBytes, position) ==
  IF numBytes <= 0 \/ position >= hdr.numBytes THEN 0
  ELSE SmallerOf(numBytes, hdr.numBytes - position)
ByteToSector(hdr, offset) == hdr.dataSectors[(offset \div SectorSize) + 1]
ByteAt(d, hdr, p) == BytesIn(d[ByteToSector(hdr, p)])[(p % SectorSize) + 1]

\* OpenFile::ReadAt
ReadAt(d, hdr, numBytes, position) ==
  [k \in 1..InFile(hdr, numBytes, position) |-> ByteAt(d, hdr, position + k - 1)]

\* Wrong variant of ReadsBack, refused by ImplementsFiles.
ReadsBackOnce(i, position, n) ==
  LET firstSector == position \div SectorSize
      lastSector == (position + n - 1) \div SectorSize
  IN  \/ i = firstSector /\ position % SectorSize # 0
      \/ i = lastSector /\ (position + n) % SectorSize # 0 /\ firstSector # lastSector

\* Whether WriteAt reads sector i, to modify a part of it: the first or the last
\* if the request does not begin or end with them.
ReadsBack(i, position, n) ==
  LET firstSector == position \div SectorSize
      lastSector == (position + n - 1) \div SectorSize
      firstAligned == position = firstSector * SectorSize
      lastAligned == position + n = (lastSector + 1) * SectorSize
  IN  \/ i = firstSector /\ ~firstAligned
      \/ i = lastSector /\ ~lastAligned /\ (firstSector # lastSector \/ firstAligned)

\* OpenFile::WriteAt, the sectors it writes; beyond the end of the file its
\* buffer holds what was in memory.
WriteAt(d, hdr, from, position) ==
  LET n == InFile(hdr, Len(from), position)
      firstSector == position \div SectorSize
      lastSector == (position + n - 1) \div SectorSize
      buf(p) == IF p \in position..position + n - 1 THEN from[p - position + 1]
                ELSE IF ReadsBack(p \div SectorSize, position, n) /\ p < hdr.numBytes
                       THEN ByteAt(d, hdr, p) ELSE Junk
  IN  IF n = 0 THEN <<>>
      ELSE [k \in 1..1 + lastSector - firstSector |->
              LET i == firstSector + k - 1 IN
              <<ByteToSector(hdr, i * SectorSize),
                Data([b \in 1..SectorSize |-> buf(i * SectorSize + b - 1)])>>]

\* The sectors of a removed file may be those of another by now: what Read
\* returns of it means nothing, and Write may overwrite anything.
Read(numBytes) ==
  LET result == ReadAt(image, handle.hdr, numBytes, handle.seekPosition) IN
  /\ Ready /\ handle # NULL
  /\ answer' = <<"Read", result>>
  /\ handle' = [handle EXCEPT !.seekPosition = @ + Len(result)]
  /\ UNCHANGED <<image, pending, removed, misused>>

Write(from) ==
  LET result == InFile(handle.hdr, Len(from), handle.seekPosition) IN
  /\ Ready /\ handle # NULL
  /\ pending' = WriteAt(image, handle.hdr, from, handle.seekPosition)
  /\ misused' = (removed /\ result > 0)
  /\ answer' = <<"Write", result>>
  /\ handle' = [handle EXCEPT !.seekPosition = @ + result]
  /\ UNCHANGED <<image, removed>>

\* Any position is taken; before the start of the file, the next request copies
\* from in front of its buffer.
Seek(position) ==
  /\ Ready /\ handle # NULL
  /\ handle' = [handle EXCEPT !.seekPosition = position]
  /\ misused' = (position < 0)
  /\ answer' = <<"Seek">>
  /\ UNCHANGED <<image, pending, removed>>

Close ==
  /\ Ready /\ handle # NULL
  /\ handle' = NULL /\ removed' = FALSE
  /\ answer' = <<"Close">>
  /\ UNCHANGED <<image, pending, misused>>

\* SynchDisk::WriteSector, of the next sector of the operation.
WriteSector ==
  /\ pending # <<>>
  /\ image' = [image EXCEPT ![Head(pending)[1]] = Head(pending)[2]]
  /\ pending' = Tail(pending)
  /\ UNCHANGED <<handle, removed, misused, answer>>

-----------------------------------------------------------------------------
\* A disk when a sequence of writes is done: the last one to a sector stays.
Settled(d, writes) ==
  [s \in SectorNumbers |->
     LET hits == {k \in DOMAIN writes : writes[k][1] = s} IN
     IF hits = {} THEN d[s] ELSE writes[Max(hits)][2]]

\* The constructor with format = TRUE: the two special files, and then the files
\* it creates; behind them it uses the NULL that Open returns, so that what is
\* modelled are the operations, as they are once that is put right.
Formatted ==
  LET mapHdr == Allocate({FreeMapSector, DirectorySector}, SectorSize)
      marked1 == {FreeMapSector, DirectorySector} \cup Range(mapHdr.dataSectors)
      dirHdr == Allocate(marked1, 2 * SectorSize)
      marked2 == marked1 \cup Range(dirHdr.dataSectors)
      empty == [i \in 1..NumDirEntries |-> [inUse |-> FALSE, sector |-> 0, name |-> NULL]]
      headers == [s \in SectorNumbers |->
                    CASE s = FreeMapSector -> mapHdr
                      [] s = DirectorySector -> dirHdr
                      [] OTHER -> Data([k \in 1..SectorSize |-> Junk])]
  IN  Settled(headers, WriteMap(headers, marked2) \o WriteDirectory(headers, empty))

FSInit ==
  LET d1 == Settled(Formatted, Creation(Formatted, InitialFiles[1], 0))
      d2 == Settled(d1, Creation(d1, InitialFiles[2], 0))
  IN  /\ image = d2 /\ pending = <<>> /\ answer = <<"none">>
      /\ handle = NULL /\ removed = FALSE /\ misused = FALSE

FSNext ==
  \/ \E name \in FileNames : \/ \E size \in Sizes : Create(name, size)
                             \/ Remove(name)
                             \/ Open(name)
                             \/ NewOpenFile(name)
  \/ \E n \in Counts : Read(n)
  \/ \E from \in Chunks : Write(from)
  \/ \E p \in Positions : Seek(p)
  \/ Close
  \/ WriteSector

FSSpec == FSInit /\ [][FSNext]_fsVars

-----------------------------------------------------------------------------
(* Properties *)

SpecialSectors(d) ==
  {FreeMapSector, DirectorySector} \cup Range(d[FreeMapSector].dataSectors)
  \cup Range(DirectorySectors(d))
Listed(d) ==
  LET table == Directory(d) IN {i \in 1..NumDirEntries : table[i].inUse}
OwnedBy(d, i) ==
  LET s == Directory(d)[i].sector IN {s} \cup Range(d[s].dataSectors)

\* The map marks the sectors of the special files and of the listed files and
\* no others; no sector belongs to two of them; every listed file has its name
\* alone and a header with a sector for each part of it, and room for them.
Consistent(d) ==
  LET table == Directory(d) IN
  /\ FreeMap(d) = SpecialSectors(d) \cup UNION {OwnedBy(d, i) : i \in Listed(d)}
  /\ \A i \in Listed(d) :
       LET hdr == d[table[i].sector] IN
       /\ hdr.is = "header"
       /\ Len(hdr.dataSectors) = divRoundUp(hdr.numBytes, SectorSize)
       /\ Len(hdr.dataSectors) <= NumDirect
       /\ Cardinality(OwnedBy(d, i)) = 1 + Len(hdr.dataSectors)
       /\ OwnedBy(d, i) \cap SpecialSectors(d) = {}
       /\ \A j \in Listed(d) \ {i} :
            OwnedBy(d, i) \cap OwnedBy(d, j) = {} /\ table[i].name # table[j].name

\* The disk is consistent between the operations of clients that did nothing the
\* code does not guard against, and the OpenFile of a file that is still there
\* has the header that is on the disk.
FileSystemInv == Ready =>
  /\ Consistent(image)
  /\ handle # NULL /\ ~removed => image[handle.sector] = handle.hdr

\* What a restarted machine would find of a file.
View(d, name) ==
  {IF d[s].is # "header" THEN <<>>
   ELSE <<d[s], ReadAt(d, d[s], d[s].numBytes, 0),
          {s} \cup Range(d[s].dataSectors) \subseteq FreeMap(d)>> : s \in Find(d, name)}

\* Wherever a machine stops between the writes of an operation, the files which
\* the operation does not change are there as they were, with their sectors
\* still marked.  The name of a removed file that is written over later than
\* its entry is taken again never hides one of them.
OthersUntouched ==
  [][~misused => LET done == Settled(image, pending) IN
     \A name \in FileNames :
       LET view == View(image, name) IN
       view # {} /\ view = View(done, name) => View(image', name) = view]_image

\* The operations are those of a set of byte sequences: Create fails only for
\* the reasons its comment lists, so no sector is lost or given twice, and Read
\* returns what was written, whatever parts of sectors the requests cover; and
\* a client loses this promise only by a file longer than a header can describe,
\* by a write to a file that was removed or by a negative position.
NameOf(d, s) ==
  LET table == Directory(d) IN table[CHOOSE i \in Listed(d) : table[i].sector = s].name
FilesOn(d) ==
  LET table == Directory(d)  listed == Listed(d) IN
  [n \in {table[i].name : i \in listed} |->
     LET hdr == d[table[CHOOSE i \in listed : table[i].name = n].sector]
     IN  ReadAt(d, hdr, hdr.numBytes, 0)]
AnyBytes(size) == [1..size -> Bytes \cup {Junk}]
SectorsFor(size) == divRoundUp(size, SectorSize)
\* What the disk is when the operation under way is done; chosen from a set, so
\* that TLC computes it once.
FilesThen ==
  IF misused THEN <<>>
  ELSE CHOOSE c \in {FilesOn(d) : d \in {Settled(image, pending)}} : TRUE
HandleThen ==
  IF misused \/ handle = NULL THEN <<>>
  ELSE [file |-> IF removed THEN {} ELSE {NameOf(Settled(image, pending), handle.sector)},
        position |-> handle.seekPosition]
Files == INSTANCE AbstractFiles WITH
  Names <- {Short(n) : n \in FileNames},
  MaxFiles <- NumDirEntries,
  MaxSectors <- NumDirect,
  Space <- NumSectors - 5,
  NoFile <- <<>>,
  contents <- FilesThen,
  handle <- HandleThen
ImplementsFiles == Files!AFSpec
=============================================================================
