----------------------------- MODULE MCLibrary -----------------------------
(* An instance of Library: four items, in two pairs of equal order, and a    *)
(* table of one bucket that grows to two and to four.                        *)
EXTENDS Library

MCCompare(x, y) == (x \div 2) - (y \div 2)
MCKeyOf(x) == x
MCHash(key) == key * 3
=============================================================================
