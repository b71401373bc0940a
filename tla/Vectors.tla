------------------------------- MODULE Vectors -------------------------------
(***************************************************************************)
(* Vector registers of 16 bytes, which instructions see as elements of 1,  *)
(* 2, 4 or 8 bytes, the lowest first.  A byte has ByteBits bits.           *)
(***************************************************************************)
EXTENDS Integers, FiniteSets

CONSTANTS ByteBits, Xmm

Bytes == 0..15
Byte == 0..(2^ByteBits - 1)
Vector == [Bytes -> Byte]
Bits(k) == k * ByteBits
Lanes(k) == 0..(16 \div k - 1)

\* Element i of k bytes of register v, and its value as a signed number.
Elem(v, k, i) ==
  LET upper[j \in 0..k] == IF j = 0 THEN 0 ELSE upper[j - 1] * 2^ByteBits + v[k * i + k - j]
  IN upper[k]
Signed(k, x) == IF x >= 2^(Bits(k) - 1) THEN x - 2^Bits(k) ELSE x
Negative(k, x) == Signed(k, x) < 0

\* Byte j of a number, which may be negative: the rest of the number is lost.
ByteOf(x, j) == (x \div 2^Bits(j)) % 2^ByteBits

Abs(x) == IF x < 0 THEN -x ELSE x
=============================================================================
