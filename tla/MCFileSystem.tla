---------------------------- MODULE MCFileSystem ----------------------------
(* An instance of FileSystem: sectors of two bytes, four of them free after   *)
(* the start, so that two files with data are there at once; a directory of    *)
(* four entries, of which the last straddles, so that a torn entry can come     *)
(* behind one of the same name; three names, of which two are compared as one;  *)
(* headers of two sectors, for files of one and of two and, too long, of three. *)
EXTENDS FileSystem

MCShort(name) == IF name = "longname2" THEN "longname1" ELSE name
MCInitialFiles == <<"stdin", "stdout">>
MCPositions == {1, -1}
MCChunks == {<<1>>, <<1, 1>>}
=============================================================================
