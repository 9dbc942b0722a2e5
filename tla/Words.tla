------------------------------- MODULE Words -------------------------------
(***************************************************************************)
(* The words of the simulated machine: four bytes of ByteBits bits each,    *)
(* the least significant byte first (the machine is little endian, and so  *)
(* is the host).  A word is the natural number its bits stand for; a C int  *)
(* of the simulator is that word read as a signed number.  ByteBits is 8;   *)
(* nothing below depends on it.                                            *)
(***************************************************************************)
EXTENDS Integers

CONSTANT ByteBits
ASSUME ByteBitsAssumption == ByteBits \in Nat \ {0}
\* What the provers have to be told about powers.
ASSUME PowersOfTwo ==
  \A m, n \in 0..4 * ByteBits : 2^m \in Nat \ {0} /\ 2^(m + n) = 2^m * 2^n

WordBits == 4 * ByteBits
Byte == 0 .. 2^ByteBits - 1
Word == 0 .. 2^WordBits - 1
Half == 2^(2 * ByteBits)            \* the number of half words

Wrap(n) == n % 2^WordBits           \* what 32-bit arithmetic keeps of n
SignBit(w) == w >= 2^(WordBits - 1)
Signed(w) == IF SignBit(w) THEN w - 2^WordBits ELSE w
SignedRange == -(2^(WordBits - 1)) .. 2^(WordBits - 1) - 1

ByteAt(w, k) == (w \div 2^(ByteBits * k)) % 2^ByteBits

\* The size bytes of the function bytes from position a on, as one number.
Assembled(bytes, a, size) ==
  LET value[k \in 0..size] ==
        IF k = size THEN 0 ELSE bytes[a + k] + 2^ByteBits * value[k + 1]
  IN  value[0]

\* A value of size bytes, its sign bit copied into the bytes above it.
SignExtended(value, size) ==
  IF value >= 2^(size * ByteBits - 1)
    THEN value + 2^WordBits - 2^(size * ByteBits) ELSE value
=============================================================================
