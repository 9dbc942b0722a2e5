--------------------------- MODULE AbstractFiles ---------------------------
(***************************************************************************)
(* What the real file system promises: a set of files of fixed size by name, *)
(* each a sequence of bytes; an operation that fails changes nothing, and    *)
(* none fails for want of space unless the files there are need it.  It is   *)
(* a promise to clients that keep off three things; AMisuse lists them.      *)
(***************************************************************************)
EXTENDS Integers, Sequences, FiniteSets, Functions

CONSTANTS
  Names, Sizes, Chunks, Positions, Counts,
  AnyBytes(_),       \* the contents a file of a size may have before it is written
  SectorsFor(_),     \* for a file of a size
  MaxFiles, Space,   \* files, and sectors for them
  MaxSectors         \* of one file
VARIABLES
  contents,          \* the files, by name
  handle,            \* NoFile, or the name of the open file, {} if it was removed
                     \* since, and the position in it
  misused,           \* whether the promise is off
  answer             \* of the last operation: its name and what it returned
afVars == <<contents, handle, misused, answer>>

CONSTANT NoFile
Slice(bytes, position, n) == SubSeq(bytes, position + 1, position + n)
InFile(bytes, position, n) ==
  IF n <= 0 \/ position >= Len(bytes) THEN 0
  ELSE IF position + n > Len(bytes) THEN Len(bytes) - position ELSE n
Overwritten(bytes, position, new) ==
  [k \in DOMAIN bytes |->
     IF k \in position + 1..position + Len(new) THEN new[k - position] ELSE bytes[k]]
\* The sectors that files need: that of the header, 0, and those of the contents.
Used(files) ==
  Cardinality(UNION {{name} \X (0..SectorsFor(Len(files[name]))) : name \in DOMAIN files})

Fits(files, name, size) ==
  /\ name \notin DOMAIN files
  /\ Cardinality(DOMAIN files) < MaxFiles
  /\ Used(files) + 1 + SectorsFor(size) <= Space

ACreate ==
  LET old == contents  new == contents' IN
  /\ \E name \in Names, size \in Sizes :
       /\ answer'[2] = Fits(old, name, size)
       /\ answer'[2] => /\ SectorsFor(size) <= MaxSectors
                        /\ DOMAIN new = DOMAIN old \cup {name}
                        /\ new[name] \in AnyBytes(size)
                        /\ Restrict(new, DOMAIN old) = old
       /\ ~answer'[2] => new = old
  /\ UNCHANGED handle

\* The open file may be removed.
ARemove ==
  LET old == contents  new == contents' IN
  \E name \in Names :
    /\ answer' = <<"Remove", name \in DOMAIN old>>
    /\ new = Restrict(old, DOMAIN old \ {name})
    /\ handle' = IF handle = NoFile THEN NoFile ELSE [handle EXCEPT !.file = @ \ {name}]

\* FileSystem::Open, of whose answer nothing is promised.
AOpen == UNCHANGED <<contents, handle>>

ANewOpenFile(name) ==
  /\ handle = NoFile /\ name \in DOMAIN contents
  /\ handle' = [file |-> {name}, position |-> 0]
  /\ UNCHANGED contents
AClose == handle' = NoFile /\ UNCHANGED contents
ASeek(p) == p >= 0 /\ handle' = [handle EXCEPT !.position = p] /\ UNCHANGED contents

\* Some bytes, if the file was removed.
ARead(n) ==
  LET got == Len(answer'[2]) IN
  /\ answer'[1] = "Read" /\ got <= IF n <= 0 THEN 0 ELSE n
  /\ \A name \in handle.file :
       /\ got = InFile(contents[name], handle.position, n)
       /\ answer'[2] = Slice(contents[name], handle.position, got)
  /\ handle' = [handle EXCEPT !.position = @ + got]
  /\ UNCHANGED contents

AWrite(chunk) ==
  LET put == answer'[2] IN
  /\ answer'[1] = "Write"
  /\ handle.file = {} => put = 0 /\ UNCHANGED contents
  /\ \A name \in handle.file :
       /\ put = InFile(contents[name], handle.position, Len(chunk))
       /\ contents' = [contents EXCEPT
            ![name] = Overwritten(@, handle.position, SubSeq(chunk, 1, put))]
  /\ handle' = [handle EXCEPT !.position = @ + put]

\* A file that no header can describe is created, a file that was removed is
\* written to, or a position before the start of a file is taken.
AMisuse ==
  \/ \E name \in Names, size \in Sizes :
       /\ answer' = <<"Create", TRUE>>
       /\ Fits(contents, name, size) /\ SectorsFor(size) > MaxSectors
  \/ answer'[1] = "Write" /\ handle # NoFile /\ handle.file = {} /\ answer'[2] > 0
  \/ answer' = <<"Seek">> /\ handle # NoFile /\ \E p \in Positions : p < 0

AOperation ==
  CASE answer'[1] = "Create" -> ACreate
    [] answer'[1] = "Remove" -> ARemove
    [] answer'[1] = "Open" -> AOpen
    [] answer'[1] = "OpenFile" -> \E name \in Names : ANewOpenFile(name)
    [] answer'[1] = "Close" -> handle # NoFile /\ AClose
    [] answer'[1] = "Seek" -> handle # NoFile /\ \E p \in Positions : ASeek(p)
    [] answer'[1] = "Read" -> handle # NoFile /\ \E n \in Counts : ARead(n)
    [] answer'[1] = "Write" -> handle # NoFile /\ \E chunk \in Chunks : AWrite(chunk)
AFNext == ~misused /\ IF misused' THEN AMisuse ELSE AOperation
AFSpec == answer = <<"none">> /\ handle = NoFile /\ ~misused /\ [][AFNext]_afVars
=============================================================================
