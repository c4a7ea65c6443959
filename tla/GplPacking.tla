----------------------------- MODULE GplPacking -----------------------------
(***************************************************************************)
(* The 7-bit packing of the texts in GPL scripts, without the loop that    *)
(* unpacks them (src/src/gpl/string.c): the bytes a text is packed into,   *)
(* the code a bit position holds, and how far a reader gets.  Positions in *)
(* a script are numbers of bytes already read: 0 is its first byte.        *)
(***************************************************************************)
EXTENDS Integers, Sequences

CONSTANT TextStringSize     \* TEXTSTRINGSIZE, 300 in include/gpl/string.h

ASSUME SizeAssumption == TextStringSize \in Nat \ {0}

EndMark == 3                \* the code behind the last character

Byte == 0 .. 255

(* The byte at a position; the value of what lies behind a script is never *)
(* used.                                                                   *)
ByteAt(bytes, p) == IF p < Len(bytes) THEN bytes[p + 1] ELSE 0

(* How many bytes n codes of seven bits take.                              *)
PackedLen(n) == n - n \div 8

(* The bytes a script's writer packs a sequence of codes into: byte k,     *)
(* counted from 0, holds the end of code 8k \div 7 and the beginning of the *)
(* next one.                                                               *)
CodeAt(codes, j) == IF j < Len(codes) THEN codes[j + 1] ELSE 0

PackedByte(codes, k) ==
    LET cut   == k % 7
        first == (8 * k) \div 7
    IN (CodeAt(codes, first) % 2^(7 - cut)) * 2^(cut + 1)
         + CodeAt(codes, first + 1) \div 2^(6 - cut)

Pack(codes) == [n \in 1 .. PackedLen(Len(codes)) |-> PackedByte(codes, n - 1)]

(* The i-th code of the bytes from position p on.                          *)
Window(bytes, p, i) ==
    LET at   == p + (7 * i) \div 8
        skip == (7 * i) % 8
    IN ((256 * ByteAt(bytes, at) + ByteAt(bytes, at + 1)) \div 2^(9 - skip)) % 128

(* What the reader shows for a code: a character that is not printable is  *)
(* a blank.                                                                *)
Shown(code) == IF code < 32 \/ code > 126 THEN 32 ELSE code

(* How many codes are read at position p, the end mark included: up to the *)
(* mark, or as many as the reader's buffer holds.                          *)
CodesTaken(bytes, p) ==
    CHOOSE n \in 0 .. TextStringSize :
        /\ \A i \in 0 .. n - 2 : Window(bytes, p, i) # EndMark
        /\ \/ n \in 1 .. TextStringSize - 1 /\ Window(bytes, p, n - 1) = EndMark
           \/ n = TextStringSize - 1 /\ (n > 0 => Window(bytes, p, n - 1) # EndMark)

(* Mutant: every code takes a byte.                                        *)
BytesTaken_of_codes(bytes, p) == CodesTaken(bytes, p)

BytesTaken(bytes, p) == PackedLen(CodesTaken(bytes, p))
=============================================================================
