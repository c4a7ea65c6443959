--------------------------- MODULE GplProofs ---------------------------
(***************************************************************************)
(* What the reader of GPL scripts makes of every script.                   *)
(*                                                                         *)
(* The first part is about read_compressed, which unpacks what was packed, *)
(* for every text and every size of its buffer.  Its lemmas read the       *)
(* packing bit by bit: a code that begins at bit 7i of a script lies in    *)
(* two bytes, and which bits of them it takes depends on i % 8 only.       *)
(*                                                                         *)
(* The second part is about gff_gpl_parse.  What the calls in progress     *)
(* still have to read is to lead from the place where the reader is to the *)
(* place where the command ends that it has begun: for every kind of item  *)
(* there is a relation on places (Leads), and Path chains them.  Every     *)
(* action reads the first item from the place where the reader is, and     *)
(* puts items in its place which lead to where that one led.               *)
(***************************************************************************)
EXTENDS GplText, GplReader, SequenceTheorems, WellFoundedInduction, TLAPS

(* Every number is eight times a number plus one of eight rests, and so    *)
(* with seven.                                                             *)
LEMMA ByEight ==
    ASSUME NEW n \in Nat
    PROVE  \E q \in Nat, r \in 0 .. 7 : n = 8 * q + r
<1>1. n = 8 * (n \div 8) + (n % 8)
    OBVIOUS
<1>2. n \div 8 \in Nat /\ n % 8 \in 0 .. 7
    OBVIOUS
<1> QED BY <1>1, <1>2

LEMMA BySeven ==
    ASSUME NEW n \in Nat
    PROVE  \E q \in Nat, s \in {0, 1, 2, 3, 4, 5, 6} : n = 7 * q + s
<1>1. n = 7 * (n \div 7) + (n % 7)
    OBVIOUS
<1>2. n \div 7 \in Nat /\ n % 7 \in 0 .. 6
    OBVIOUS
<1>3. n % 7 \in {0, 1, 2, 3, 4, 5, 6}
    BY <1>2
<1> QED BY <1>1, <1>2, <1>3

LEMMA CodeInRange ==
    ASSUME NEW codes \in Seq(Codes), NEW j \in Nat
    PROVE  CodeAt(codes, j) \in Codes
<1>1. CASE j < Len(codes)
  <2>1. j + 1 \in 1 .. Len(codes)
      BY <1>1
  <2> QED BY <1>1, <2>1 DEF CodeAt
<1>2. CASE ~(j < Len(codes))
    BY <1>2 DEF CodeAt, Codes
<1> QED BY <1>1, <1>2

(* The byte in which code u ends and code v begins, k bits of v less in it *)
(* than could be: u has 7 - k bits there.                                  *)
Meet(u, v, k) == (u % 2^(7 - k)) * 2^(k + 1) + v \div 2^(6 - k)

LEMMA PackedByteAt ==
    ASSUME NEW codes \in Seq(Codes), NEW q \in Nat, NEW s \in {0, 1, 2, 3, 4, 5, 6}
    PROVE  PackedByte(codes, 7 * q + s) =
             Meet(CodeAt(codes, 8 * q + s), CodeAt(codes, 8 * q + s + 1), s)
<1>1. (7 * q + s) % 7 = s /\ (8 * (7 * q + s)) \div 7 = 8 * q + s
    OBVIOUS
<1> QED BY <1>1 DEF PackedByte, Meet

LEMMA PackedByteInRange ==
    ASSUME NEW codes \in Seq(Codes), NEW k \in Nat
    PROVE  PackedByte(codes, k) \in Byte
<1>1. ASSUME NEW u \in Codes, NEW v \in Codes, NEW s \in {0, 1, 2, 3, 4, 5, 6}
      PROVE  Meet(u, v, s) \in Byte
  <2>1. CASE s = 0 BY <2>1 DEF Meet, Codes, Byte
  <2>2. CASE s = 1 BY <2>2 DEF Meet, Codes, Byte
  <2>3. CASE s = 2 BY <2>3 DEF Meet, Codes, Byte
  <2>4. CASE s = 3 BY <2>4 DEF Meet, Codes, Byte
  <2>5. CASE s = 4 BY <2>5 DEF Meet, Codes, Byte
  <2>6. CASE s = 5 BY <2>6 DEF Meet, Codes, Byte
  <2>7. CASE s = 6 BY <2>7 DEF Meet, Codes, Byte
  <2> QED BY <2>1, <2>2, <2>3, <2>4, <2>5, <2>6, <2>7
<1>2. PICK q \in Nat, s \in {0, 1, 2, 3, 4, 5, 6} : k = 7 * q + s
    BY BySeven
<1>3. CodeAt(codes, 8 * q + s) \in Codes /\ CodeAt(codes, 8 * q + s + 1) \in Codes
    BY CodeInRange
<1>4. PackedByte(codes, k) = Meet(CodeAt(codes, 8 * q + s), CodeAt(codes, 8 * q + s + 1), s)
    BY <1>2, PackedByteAt
<1>5. Meet(CodeAt(codes, 8 * q + s), CodeAt(codes, 8 * q + s + 1), s) \in Byte
    BY <1>1, <1>3
<1> QED BY <1>4, <1>5

LEMMA PackIsBytes ==
    ASSUME NEW codes \in Seq(Codes)
    PROVE  /\ Pack(codes) \in Seq(Byte)
           /\ Len(Pack(codes)) = PackedLen(Len(codes))
<1>1. PackedLen(Len(codes)) \in Nat
    BY DEF PackedLen
<1>2. \A n \in 1 .. PackedLen(Len(codes)) : PackedByte(codes, n - 1) \in Byte
    BY <1>1, PackedByteInRange
<1> QED BY <1>1, <1>2 DEF Pack

(* What a reader finds at a position of the packed text; behind it comes   *)
(* one more byte.                                                          *)
LEMMA ByteOfPack ==
    ASSUME NEW codes \in Seq(Codes), NEW follower \in Byte, NEW k \in Nat,
           k < PackedLen(Len(codes))
    PROVE  ByteAt(Append(Pack(codes), follower), k) = PackedByte(codes, k)
<1> DEFINE p == Pack(codes)
<1>1. p \in Seq(Byte) /\ Len(p) = PackedLen(Len(codes))
    BY PackIsBytes
<1>2. k + 1 \in 1 .. Len(p) /\ k < Len(Append(p, follower))
    BY <1>1
<1>3. Append(p, follower)[k + 1] = p[k + 1]
    BY <1>1, <1>2
<1>4. k + 1 \in 1 .. PackedLen(Len(codes)) /\ (k + 1) - 1 = k
    BY <1>1, <1>2
<1>5. p[k + 1] = PackedByte(codes, k)
    BY <1>4 DEF Pack
<1> QED BY <1>2, <1>3, <1>5 DEF ByteAt

LEMMA ByteAtInRange ==
    ASSUME NEW data \in Seq(Byte), NEW k \in Nat
    PROVE  ByteAt(data, k) \in Byte
<1>1. CASE k < Len(data)
  <2>1. k + 1 \in 1 .. Len(data)
      BY <1>1
  <2> QED BY <1>1, <2>1 DEF ByteAt
<1>2. CASE ~(k < Len(data))
    BY <1>2 DEF ByteAt, Byte
<1> QED BY <1>1, <1>2

(* Where the code with number 8q + r lies.                                 *)
LEMMA WindowAt ==
    ASSUME NEW data, NEW q \in Nat
    PROVE  /\ Window(data, 0, 8 * q) =
                ((256 * ByteAt(data, 7 * q) + ByteAt(data, 7 * q + 1)) \div 2^9) % 128
           /\ \A r \in 1 .. 7 : Window(data, 0, 8 * q + r) =
                ((256 * ByteAt(data, 7 * q + (r - 1)) + ByteAt(data, 7 * q + r)) \div 2^(r + 1)) % 128
<1>1. (7 * (8 * q)) \div 8 = 7 * q /\ (7 * (8 * q)) % 8 = 0
    OBVIOUS
<1>2. ASSUME NEW r \in 1 .. 7
      PROVE  Window(data, 0, 8 * q + r) =
                ((256 * ByteAt(data, 7 * q + (r - 1)) + ByteAt(data, 7 * q + r)) \div 2^(r + 1)) % 128
  <2>1. (7 * (8 * q + r)) \div 8 = 7 * q + (r - 1) /\ (7 * (8 * q + r)) % 8 = 8 - r
      OBVIOUS
  <2>2. 9 - (8 - r) = r + 1 /\ 0 + (7 * q + (r - 1)) = 7 * q + (r - 1) /\ (7 * q + (r - 1)) + 1 = 7 * q + r
      OBVIOUS
  <2> QED BY <2>1, <2>2 DEF Window
<1>3. 9 - 0 = 9 /\ 0 + 7 * q = 7 * q
    OBVIOUS
<1> QED BY <1>1, <1>2, <1>3 DEF Window

(* Of two bytes that hold the end of a, all of m and the beginning of z,   *)
(* the reader's shift and mask leave m.                                    *)
LEMMA Unmixed ==
    ASSUME NEW a \in Codes, NEW m \in Codes, NEW z \in Codes, NEW r \in 1 .. 6
    PROVE  ((256 * Meet(a, m, r - 1) + Meet(m, z, r)) \div 2^(r + 1)) % 128 = m
<1>1. CASE r = 1 BY <1>1 DEF Codes, Meet
<1>2. CASE r = 2
  <2>1. ASSUME NEW A \in Nat, NEW B \in Nat, NEW D \in 0 .. 31, NEW w \in 0 .. 7
        PROVE  (256 * (A * 4 + B) + (D * 8 + w)) \div 8 = 128 * A + (32 * B + D)
      OBVIOUS
  <2>2. a % 64 \in Nat /\ m \div 32 \in Nat /\ m % 32 \in 0 .. 31 /\ z \div 16 \in 0 .. 7
      BY DEF Codes
  <2>3. (256 * ((a % 64) * 4 + m \div 32) + ((m % 32) * 8 + z \div 16)) \div 8
          = 128 * (a % 64) + (32 * (m \div 32) + (m % 32))
      BY <2>1, <2>2
  <2>4. (128 * (a % 64) + m) % 128 = m /\ 32 * (m \div 32) + (m % 32) = m
      BY DEF Codes
  <2>5. Meet(a, m, 1) = (a % 64) * 4 + m \div 32 /\ Meet(m, z, 2) = (m % 32) * 8 + z \div 16
      BY DEF Meet
  <2> QED BY <1>2, <2>3, <2>4, <2>5
<1>3. CASE r = 3 BY <1>3 DEF Codes, Meet
<1>4. CASE r = 4 BY <1>4 DEF Codes, Meet
<1>5. CASE r = 5 BY <1>5 DEF Codes, Meet
<1>6. CASE r = 6 BY <1>6 DEF Codes, Meet
<1> QED BY <1>1, <1>2, <1>3, <1>4, <1>5, <1>6

LEMMA FirstOfEight ==
    ASSUME NEW m \in Codes, NEW z \in Codes, NEW b \in Byte
    PROVE  ((256 * Meet(m, z, 0) + b) \div 2^9) % 128 = m
    BY DEF Codes, Byte, Meet

LEMMA LastOfEight ==
    ASSUME NEW a \in Codes, NEW m \in Codes, NEW b \in Byte
    PROVE  ((256 * Meet(a, m, 6) + b) \div 2^8) % 128 = m
    BY DEF Codes, Byte, Meet

HoldsPack(data, codes) ==
    \A k \in Nat : k < PackedLen(Len(codes)) => ByteAt(data, k) = PackedByte(codes, k)

(* Reading inverts packing.                                                *)
LEMMA WindowOfPack ==
    ASSUME NEW codes \in Seq(Codes), NEW data \in Seq(Byte), HoldsPack(data, codes),
           NEW q \in Nat, NEW r \in 0 .. 7, 8 * q + r < Len(codes)
    PROVE  Window(data, 0, 8 * q + r) = codes[8 * q + r + 1]
<1> DEFINE code(j) == CodeAt(codes, 8 * q + j)
<1>2. ASSUME NEW s \in 0 .. 6, s <= r
      PROVE  ByteAt(data, 7 * q + s) = Meet(code(s), code(s + 1), s)
  <2>1. 7 * q + s < PackedLen(Len(codes))
      BY <1>2 DEF PackedLen
  <2>2. ByteAt(data, 7 * q + s) = PackedByte(codes, 7 * q + s)
      BY <2>1 DEF HoldsPack
  <2>3. s \in {0, 1, 2, 3, 4, 5, 6} /\ 8 * q + (s + 1) = 8 * q + s + 1
      OBVIOUS
  <2> QED BY <2>2, <2>3, PackedByteAt
<1>3. codes[8 * q + r + 1] = code(r)
    BY DEF CodeAt
<1>4. \A j \in Nat : code(j) \in Codes /\ ByteAt(data, 7 * q + j) \in Byte
  <2>1. \A j \in Nat : 8 * q + j \in Nat /\ 7 * q + j \in Nat
      OBVIOUS
  <2> QED BY <2>1, CodeInRange, ByteAtInRange
<1> SUFFICES Window(data, 0, 8 * q + r) = code(r)
    BY <1>3
<1>5. Window(data, 0, 8 * q + 0) =
          ((256 * ByteAt(data, 7 * q + 0) + ByteAt(data, 7 * q + 1)) \div 2^9) % 128
    BY WindowAt
<1>6. \A p \in 1 .. 7 : Window(data, 0, 8 * q + p) =
          ((256 * ByteAt(data, 7 * q + (p - 1)) + ByteAt(data, 7 * q + p)) \div 2^(p + 1)) % 128
    BY WindowAt, ZenonT(60)
<1> HIDE DEF code
<1>7. CASE r = 0
  <2>1. ByteAt(data, 7 * q + 0) = Meet(code(0), code(1), 0)
      BY <1>2, <1>7
  <2>2. code(0) \in Codes /\ code(1) \in Codes /\ ByteAt(data, 7 * q + 1) \in Byte
      BY <1>4
  <2>3. ((256 * Meet(code(0), code(1), 0) + ByteAt(data, 7 * q + 1)) \div 2^9) % 128 = code(0)
      BY <2>2, FirstOfEight
  <2> QED BY <1>5, <1>7, <2>1, <2>3
<1>8. CASE r \in 1 .. 6
  <2>1. ByteAt(data, 7 * q + (r - 1)) = Meet(code(r - 1), code(r), r - 1)
    <3>1. r - 1 \in 0 .. 6 /\ r - 1 <= r /\ (r - 1) + 1 = r
        BY <1>8
    <3> QED BY <1>2, <3>1
  <2>2. ByteAt(data, 7 * q + r) = Meet(code(r), code(r + 1), r)
    <3>1. r \in 0 .. 6 /\ r <= r
        BY <1>8
    <3> QED BY <1>2, <3>1
  <2>3. code(r - 1) \in Codes /\ code(r) \in Codes /\ code(r + 1) \in Codes
    <3>1. r - 1 \in Nat /\ r \in Nat /\ r + 1 \in Nat
        BY <1>8
    <3> QED BY <1>4, <3>1
  <2>4. ((256 * Meet(code(r - 1), code(r), r - 1) + Meet(code(r), code(r + 1), r))
            \div 2^(r + 1)) % 128 = code(r)
    <3> DEFINE Taken(u, v, w, x) ==
              ((256 * Meet(u, v, x - 1) + Meet(v, w, x)) \div 2^(x + 1)) % 128
    <3>1. \A u \in Codes, v \in Codes, w \in Codes, x \in 1 .. 6 : Taken(u, v, w, x) = v
        BY Unmixed, ZenonT(30)
    <3>2. Taken(code(r - 1), code(r), code(r + 1), r)
              = ((256 * Meet(code(r - 1), code(r), r - 1) + Meet(code(r), code(r + 1), r))
                    \div 2^(r + 1)) % 128
        OBVIOUS
    <3> HIDE DEF Taken
    <3>3. Taken(code(r - 1), code(r), code(r + 1), r) = code(r)
        BY <1>8, <2>3, <3>1
    <3> QED BY <3>2, <3>3
  <2>5. r \in 1 .. 7
      BY <1>8
  <2> QED BY <1>6, <2>1, <2>2, <2>4, <2>5
<1>9. CASE r = 7
  <2>1. ByteAt(data, 7 * q + 6) = Meet(code(6), code(7), 6)
      BY <1>2, <1>9
  <2>2. code(6) \in Codes /\ code(7) \in Codes /\ ByteAt(data, 7 * q + 7) \in Byte
      BY <1>4
  <2>3. Window(data, 0, 8 * q + 7) =
            ((256 * ByteAt(data, 7 * q + 6) + ByteAt(data, 7 * q + 7)) \div 2^8) % 128
    <3>1. 7 - 1 = 6 /\ 7 + 1 = 8 /\ 7 \in 1 .. 7
        OBVIOUS
    <3> QED BY <1>6, <3>1
  <2> QED BY <1>9, <2>1, <2>2, <2>3, LastOfEight
<1> QED BY <1>7, <1>8, <1>9

LEMMA CodeOfPack ==
    ASSUME NEW codes \in Seq(Codes), NEW data \in Seq(Byte), HoldsPack(data, codes),
           NEW n \in Nat, n < Len(codes)
    PROVE  Window(data, 0, n) = codes[n + 1]
<1>1. PICK q \in Nat, r \in 0 .. 7 : n = 8 * q + r
    BY ByEight
<1>2. Window(data, 0, 8 * q + r) = codes[8 * q + r + 1]
    BY <1>1, WindowOfPack
<1> QED BY <1>1, <1>2

(* The same wherever in a script the packed text begins.                   *)
LEMMA CodeOfPackAt ==
    ASSUME NEW codes \in Seq(Codes), NEW data \in Seq(Byte), NEW p \in Nat,
           \A k \in Nat : k < PackedLen(Len(codes)) => ByteAt(data, p + k) = PackedByte(codes, k),
           NEW n \in Nat, n < Len(codes)
    PROVE  Window(data, p, n) = codes[n + 1]
<1> DEFINE rest == SubSeq(data, p + 1, Len(data))
<1>1. /\ rest \in Seq(Byte)
      /\ Len(rest) = IF p + 1 <= Len(data) THEN (Len(data) - (p + 1)) + 1 ELSE 0
      /\ \A k \in 1 .. (Len(data) - (p + 1)) + 1 : rest[k] = data[(p + 1) + k - 1]
  <2>1. p + 1 \in Int /\ Len(data) \in Int /\ \A k \in p + 1 .. Len(data) : data[k] \in Byte
      OBVIOUS
  <2> QED BY <2>1, SubSeqProperties
<1>2. ASSUME NEW k \in Nat
      PROVE  ByteAt(rest, k) = ByteAt(data, p + k)
  <2>1. CASE p + k < Len(data)
    <3>1. k < Len(rest) /\ k + 1 \in 1 .. (Len(data) - (p + 1)) + 1 /\ (p + 1) + (k + 1) - 1 = (p + k) + 1
        BY <1>1, <2>1
    <3>2. rest[k + 1] = data[(p + k) + 1]
        BY <1>1, <3>1
    <3> QED BY <2>1, <3>1, <3>2 DEF ByteAt
  <2>2. CASE ~(p + k < Len(data))
    <3>1. ~(k < Len(rest))
        BY <1>1, <2>2
    <3> QED BY <2>2, <3>1 DEF ByteAt
  <2> QED BY <2>1, <2>2
<1>3. HoldsPack(rest, codes)
    BY <1>2 DEF HoldsPack
<1> HIDE DEF rest
<1>4. Window(rest, 0, n) = codes[n + 1]
    BY <1>1, <1>3, CodeOfPack
<1>5. Window(rest, 0, n) = Window(data, p, n)
  <2>1. (7 * n) \div 8 \in Nat
      OBVIOUS
  <2>2. ASSUME NEW k \in Nat
        PROVE  /\ ByteAt(rest, 0 + k) = ByteAt(data, p + k)
               /\ ByteAt(rest, (0 + k) + 1) = ByteAt(data, (p + k) + 1)
    <3>1. 0 + k = k /\ (0 + k) + 1 = k + 1 /\ (p + k) + 1 = p + (k + 1) /\ k + 1 \in Nat
        OBVIOUS
    <3> QED BY <1>2, <3>1
  <2> QED BY <2>1, <2>2 DEF Window
<1> QED BY <1>4, <1>5

(* What one more code does to the bytes taken and to the shift.            *)
LEMMA OneMoreCode ==
    ASSUME NEW n \in Nat
    PROVE  /\ PackedLen(n) \in Nat
           /\ PackedLen(n + 1) = IF (n + 1) % 8 > 0 THEN PackedLen(n) + 1 ELSE PackedLen(n)
           /\ (n + 1) % 8 \in 0 .. 7
           /\ (n + 1 + 1) % 8 = IF ((n + 1) % 8) + 1 > 7 THEN 0 ELSE ((n + 1) % 8) + 1
    BY DEF PackedLen

LEMMA PackedLenGrows ==
    ASSUME NEW n \in Nat, NEW k \in Nat, k <= n
    PROVE  PackedLen(k) <= PackedLen(n)
    BY DEF PackedLen

LEMMA ShownIsPrintable ==
    ASSUME NEW code \in Codes
    PROVE  Shown(code) \in 32 .. 126
    BY DEF Shown, Codes

(* The reader has shown the first i codes, and the low byte of its buffer  *)
(* is the last one it has fetched.                                         *)
HasShown ==
    /\ i <= Len(written)
    /\ idx = (i + 1) % 8
    /\ cursor = PackedLen(i)
    /\ string = [k \in 1 .. i |-> Shown(written[k])]
    /\ i > 0 => buffer % 256 = ByteAt(packed, cursor - 1)

(* It has returned at the end mark, or with its string full.               *)
HasReturned ==
    \/ i = Len(written) /\ i < TextStringSize - 1 /\ cursor = PackedLen(i + 1)
    \/ i = TextStringSize - 1 /\ i <= Len(written) /\ cursor = PackedLen(i)

IsPacked ==
    /\ written \in Texts
    /\ packed = Append(Pack(Append(written, EndMark)), NextCommand)

TextInv ==
    /\ TextTypeOK
    /\ IsPacked
    /\ InsideBuffer
    /\ Unpacked
    /\ phase = "read" => HasShown
    /\ phase = "done" => HasReturned

LEMMA ScriptFacts ==
    ASSUME IsPacked
    PROVE  /\ written \in Seq(Codes) /\ \A k \in 1 .. Len(written) : written[k] # EndMark
           /\ Append(written, EndMark) \in Seq(Codes)
           /\ packed \in Seq(Byte)
           /\ Len(packed) = PackedLen(Len(written) + 1) + 1
           /\ ByteAt(packed, Len(packed) - 1) = NextCommand
<1>1. written \in Seq((0 .. 127) \ {EndMark})
    BY TextsAssumption DEF IsPacked
<1>2. written \in Seq(Codes) /\ \A k \in 1 .. Len(written) : written[k] # EndMark
    BY <1>1 DEF Codes
<1>3. EndMark \in Codes /\ NextCommand \in Byte
    BY DEF EndMark, Codes, NextCommand, Byte
<1>4. Append(written, EndMark) \in Seq(Codes) /\ Len(Append(written, EndMark)) = Len(written) + 1
    BY <1>2, <1>3
<1>5. /\ Pack(Append(written, EndMark)) \in Seq(Byte)
      /\ Len(Pack(Append(written, EndMark))) = PackedLen(Len(written) + 1)
    BY <1>4, PackIsBytes
<1>6. packed \in Seq(Byte) /\ Len(packed) = PackedLen(Len(written) + 1) + 1
    BY <1>3, <1>5 DEF IsPacked
<1>7. ByteAt(packed, Len(packed) - 1) = NextCommand
  <2>1. Len(packed) - 1 < Len(packed) /\ (Len(packed) - 1) + 1 = Len(packed)
      BY <1>6
  <2>2. packed[Len(packed)] = NextCommand
      BY <1>3, <1>5, <1>6 DEF IsPacked
  <2> QED BY <2>1, <2>2 DEF ByteAt
<1> QED BY <1>2, <1>4, <1>6, <1>7

(* The shift and the mask of a turn take the next code out of the buffer.  *)
LEMMA InwordIsWindow ==
    ASSUME TextTypeOK, IsPacked, HasShown
    PROVE  Inword = Window(packed, 0, i)
<1>1. PICK q \in Nat, r \in 0 .. 7 : i = 8 * q + r
    BY ByEight DEF TextTypeOK
<1>2. cursor = 7 * q + r
    BY <1>1 DEF HasShown, PackedLen
<1>3. packed \in Seq(Byte)
    BY ScriptFacts
<1>4. \A k \in Nat : ByteAt(packed, k) \in Byte
    BY <1>3, ByteAtInRange
<1>5. CASE r = 0
  <2>1. idx = 1 /\ cursor = 7 * q
      BY <1>1, <1>2, <1>5 DEF HasShown
  <2>2. Window(packed, 0, 8 * q) =
            ((256 * ByteAt(packed, 7 * q) + ByteAt(packed, 7 * q + 1)) \div 2^9) % 128
      BY WindowAt
  <2>3. Fetched = ((256 * buffer) % 65536) + ByteAt(packed, 7 * q)
      BY <2>1 DEF Fetched
  <2>4. ASSUME NEW x \in Nat, NEW b \in Byte, NEW c \in Byte
        PROVE  ((((256 * x) % 65536) + b) \div 2^1) % 128 = ((256 * b + c) \div 2^9) % 128
    <3>1. PICK y \in Nat : (256 * x) % 65536 = 256 * y
      <4>1. (256 * x) % 65536 = 256 * (x % 256)
          OBVIOUS
      <4> QED BY <4>1
    <3>2. ((256 * y + b) \div 2) % 128 = b \div 2
        BY DEF Byte
    <3>3. ((256 * b + c) \div 512) % 128 = b \div 2
        BY DEF Byte
    <3> QED BY <3>1, <3>2, <3>3
  <2>5. ByteAt(packed, 7 * q) \in Byte /\ ByteAt(packed, 7 * q + 1) \in Byte
      BY <1>4
  <2>6. ((Fetched \div 2^1) % 128) = Window(packed, 0, 8 * q)
      BY <2>2, <2>3, <2>4, <2>5 DEF TextTypeOK
  <2>7. i = 8 * q
      BY <1>1, <1>5
  <2> QED BY <2>1, <2>6, <2>7 DEF Inword
<1>6. CASE r \in 1 .. 6
  <2>1. idx = r + 1 /\ i > 0 /\ cursor - 1 = 7 * q + (r - 1)
      BY <1>1, <1>2, <1>6 DEF HasShown
  <2>2. buffer % 256 = ByteAt(packed, 7 * q + (r - 1))
      BY <2>1 DEF HasShown
  <2>3. (256 * buffer) % 65536 = 256 * (buffer % 256)
      BY DEF TextTypeOK
  <2>4. Fetched = 256 * ByteAt(packed, 7 * q + (r - 1)) + ByteAt(packed, 7 * q + r)
      BY <1>2, <1>6, <2>1, <2>2, <2>3 DEF Fetched
  <2>5. Window(packed, 0, 8 * q + r) =
            ((256 * ByteAt(packed, 7 * q + (r - 1)) + ByteAt(packed, 7 * q + r)) \div 2^(r + 1)) % 128
    <3>1. r \in 1 .. 7
        BY <1>6
    <3>2. \A k \in 1 .. 7 : Window(packed, 0, 8 * q + k) =
              ((256 * ByteAt(packed, 7 * q + (k - 1)) + ByteAt(packed, 7 * q + k)) \div 2^(k + 1)) % 128
        BY WindowAt, ZenonT(60)
    <3> QED BY <3>1, <3>2
  <2> QED BY <1>1, <2>1, <2>4, <2>5 DEF Inword
<1>7. CASE r = 7
  <2>1. idx = 0 /\ i > 0 /\ cursor - 1 = 7 * q + 6
      BY <1>1, <1>2, <1>7 DEF HasShown
  <2>2. buffer % 256 = ByteAt(packed, 7 * q + 6)
      BY <2>1 DEF HasShown
  <2>3. Window(packed, 0, 8 * q + 7) =
            ((256 * ByteAt(packed, 7 * q + 6) + ByteAt(packed, 7 * q + 7)) \div 2^8) % 128
    <3>1. Window(packed, 0, 8 * q + 7) =
            ((256 * ByteAt(packed, 7 * q + (7 - 1)) + ByteAt(packed, 7 * q + 7)) \div 2^(7 + 1)) % 128
        BY WindowAt
    <3>2. 7 - 1 = 6 /\ 7 + 1 = 8
        OBVIOUS
    <3> QED BY <3>1, <3>2
  <2>4. ASSUME NEW x \in Nat, NEW b \in Byte, NEW c \in Byte, x % 256 = b
        PROVE  (x \div 2^0) % 128 = ((256 * b + c) \div 2^8) % 128
    <3>1. x % 128 = b % 128
        BY <2>4 DEF Byte
    <3>2. (256 * b + c) \div 256 = b
        BY DEF Byte
    <3> QED BY <3>1, <3>2
  <2>5. ByteAt(packed, 7 * q + 6) \in Byte /\ ByteAt(packed, 7 * q + 7) \in Byte
      BY <1>4
  <2>6. Fetched = buffer
      BY <2>1 DEF Fetched
  <2>7. (buffer \div 2^0) % 128 = Window(packed, 0, 8 * q + 7)
      BY <2>2, <2>3, <2>4, <2>5 DEF TextTypeOK
  <2> QED BY <1>1, <1>7, <2>1, <2>6, <2>7 DEF Inword
<1> QED BY <1>5, <1>6, <1>7

LEMMA NextCode ==
    ASSUME TextTypeOK, IsPacked, HasShown
    PROVE  /\ i < Len(written) => Inword = written[i + 1] /\ Inword # EndMark /\ Inword \in Codes
           /\ i = Len(written) => Inword = EndMark
<1>1. /\ written \in Seq(Codes) /\ \A k \in 1 .. Len(written) : written[k] # EndMark
      /\ Append(written, EndMark) \in Seq(Codes)
    BY ScriptFacts
<1>2. i \in Nat /\ i < Len(Append(written, EndMark))
    BY <1>1 DEF HasShown, TextTypeOK
<1>3. NextCommand \in Byte
    BY DEF NextCommand, Byte
<1>4. Inword = Append(written, EndMark)[i + 1]
  <2>1. HoldsPack(packed, Append(written, EndMark)) /\ packed \in Seq(Byte)
      BY <1>1, <1>3, ByteOfPack, ScriptFacts DEF HoldsPack, IsPacked
  <2> QED BY <1>1, <1>2, <2>1, CodeOfPack, InwordIsWindow
<1>5. ASSUME i < Len(written)
      PROVE  Append(written, EndMark)[i + 1] = written[i + 1] /\ i + 1 \in 1 .. Len(written)
    BY <1>1, <1>2, <1>5
<1>6. ASSUME i = Len(written)
      PROVE  Append(written, EndMark)[i + 1] = EndMark
    BY <1>1, <1>6
<1> QED BY <1>1, <1>4, <1>5, <1>6

LEMMA FetchedIsNumber ==
    ASSUME TextTypeOK, packed \in Seq(Byte)
    PROVE  Fetched \in Nat /\ ByteAt(packed, cursor) \in Byte
<1>1. ByteAt(packed, cursor) \in Byte
    BY ByteAtInRange DEF TextTypeOK
<1>2. ASSUME NEW x \in Nat
      PROVE  (256 * x) % 65536 \in Nat
    OBVIOUS
<1>3. (256 * buffer) % 65536 \in Nat /\ buffer \in Nat
    BY <1>2 DEF TextTypeOK
<1>4. \A x \in Nat, b \in Byte : x + b \in Nat
    BY DEF Byte
<1>5. ((256 * buffer) % 65536) + ByteAt(packed, cursor) \in Nat
    BY <1>1, <1>3, <1>4
<1> QED BY <1>1, <1>3, <1>5 DEF Fetched

LEMMA TextInitInv == TextInit => TextInv
<1> SUFFICES ASSUME TextInit PROVE TextInv
    OBVIOUS
<1>1. TextTypeOK
    BY DEF TextInit, TextTypeOK
<1>2. IsPacked
    BY DEF TextInit, IsPacked
<1>3. written \in Seq(Codes)
    BY <1>2, ScriptFacts
<1>4. PackedLen(0) = 0 /\ PackedLen(TextStringSize - 1) >= 0
    BY SizeAssumption DEF PackedLen
<1>5. HasShown
    BY <1>3, <1>4 DEF TextInit, HasShown
<1>6. InsideBuffer
    BY <1>4, SizeAssumption DEF TextInit, InsideBuffer
<1>7. Unpacked
    BY DEF TextInit, Unpacked
<1>8. phase = "read"
    BY DEF TextInit
<1> QED BY <1>1, <1>2, <1>5, <1>6, <1>7, <1>8 DEF TextInv

(* A turn that finds the end mark.                                         *)
LEMMA MarkKeepsTextInv ==
    ASSUME TextInv, turn, Inword = EndMark
    PROVE  TextInv'
<1>1. TextTypeOK /\ IsPacked /\ InsideBuffer /\ HasShown /\ phase = "read"
    BY DEF TextInv, turn, Turn
<1>2. /\ written \in Seq(Codes) /\ packed \in Seq(Byte)
      /\ Len(packed) = PackedLen(Len(written) + 1) + 1
      /\ ByteAt(packed, Len(packed) - 1) = NextCommand
    BY <1>1, ScriptFacts
<1>3. i = Len(written) /\ i < TextStringSize - 1 /\ i \in Nat
    BY <1>1, <1>2, NextCode DEF HasShown, TextTypeOK, turn, Turn
<1>4. UNCHANGED <<i, idx, string, written, packed>> /\ phase' = "done" /\ buffer' = Fetched
    BY DEF turn, Turn
<1>5. cursor' = PackedLen(i + 1)
    BY <1>1, <1>3, OneMoreCode DEF HasShown, turn, Turn
<1>6. PackedLen(i + 1) \in Nat
    BY <1>3, OneMoreCode
<1>7. PackedLen(i + 1) <= PackedLen(TextStringSize - 1)
    BY <1>3, SizeAssumption, PackedLenGrows
<1>8. TextTypeOK'
  <2>1. Fetched \in Nat
      BY <1>1, <1>2, FetchedIsNumber
  <2> QED BY <1>1, <1>4, <1>5, <1>6, <2>1 DEF TextTypeOK
<1>9. IsPacked'
    BY <1>1, <1>4 DEF IsPacked
<1>10. InsideBuffer'
    BY <1>1, <1>4, <1>5, <1>7 DEF InsideBuffer
<1>11. Unpacked'
  <2>1. ByteAt(packed', cursor') = NextCommand /\ cursor' = Len(packed') - 1
      BY <1>2, <1>3, <1>4, <1>5, <1>6
  <2>2. string' = [k \in 1 .. Len(written') |-> Shown(written'[k])]
      BY <1>1, <1>3, <1>4 DEF HasShown
  <2> QED BY <1>3, <1>4, <2>1, <2>2 DEF Unpacked
<1>12. HasReturned'
    BY <1>3, <1>4, <1>5 DEF HasReturned
<1> QED BY <1>4, <1>8, <1>9, <1>10, <1>11, <1>12 DEF TextInv

(* A turn that shows a character.                                          *)
LEMMA CharacterKeepsTextInv ==
    ASSUME TextInv, turn, Inword # EndMark
    PROVE  TextInv'
<1>1. TextTypeOK /\ IsPacked /\ InsideBuffer /\ HasShown /\ phase = "read"
    BY DEF TextInv, turn, Turn
<1>2. written \in Seq(Codes) /\ packed \in Seq(Byte)
    BY <1>1, ScriptFacts
<1>3. i < TextStringSize - 1 /\ i \in Nat /\ i < Len(written)
    BY <1>1, <1>2, NextCode DEF HasShown, TextTypeOK, turn, Turn
<1>4. Inword = written[i + 1] /\ Inword \in Codes
    BY <1>1, <1>3, NextCode
<1>5. /\ UNCHANGED <<written, packed, phase>> /\ buffer' = Fetched
      /\ i' = i + 1 /\ string' = Append(string, Shown(written[i + 1]))
      /\ idx' = IF idx + 1 > 7 THEN 0 ELSE idx + 1
      /\ cursor' = IF idx > 0 THEN cursor + 1 ELSE cursor
    BY <1>4 DEF turn, Turn
<1>6. idx' = (i' + 1) % 8 /\ cursor' = PackedLen(i') /\ cursor' \in Nat /\ idx' \in 0 .. 7
  <2>1. /\ PackedLen(i + 1) = IF (i + 1) % 8 > 0 THEN PackedLen(i) + 1 ELSE PackedLen(i)
        /\ (i + 1 + 1) % 8 = IF ((i + 1) % 8) + 1 > 7 THEN 0 ELSE ((i + 1) % 8) + 1
        /\ PackedLen(i + 1) \in Nat /\ (i + 1 + 1) % 8 \in 0 .. 7
      BY <1>3, OneMoreCode
  <2>2. idx = (i + 1) % 8 /\ cursor = PackedLen(i)
      BY <1>1 DEF HasShown
  <2> QED BY <1>5, <2>1, <2>2
<1>7. ByteAt(packed, cursor) \in Byte
    BY <1>1, <1>2, FetchedIsNumber
<1>8. TextTypeOK'
  <2>1. Fetched \in Nat
      BY <1>1, <1>2, FetchedIsNumber
  <2>2. Shown(written[i + 1]) \in 32 .. 126
      BY <1>4, ShownIsPrintable
  <2>3. string' \in Seq(32 .. 126)
      BY <1>1, <1>5, <2>2 DEF TextTypeOK
  <2> QED BY <1>1, <1>3, <1>5, <1>6, <2>1, <2>3 DEF TextTypeOK
<1>9. IsPacked'
    BY <1>1, <1>5 DEF IsPacked
<1>10. InsideBuffer'
  <2>1. PackedLen(i') <= PackedLen(TextStringSize - 1)
      BY <1>3, <1>5, SizeAssumption, PackedLenGrows
  <2>2. Len(string') = i'
    <3>1. Len(string') = Len(string) + 1
        BY <1>1, <1>5 DEF TextTypeOK
    <3> QED BY <1>1, <1>5, <3>1 DEF InsideBuffer
  <2>3. i' <= TextStringSize - 1
      BY <1>3, <1>5, SizeAssumption
  <2> QED BY <1>6, <2>1, <2>2, <2>3 DEF InsideBuffer
<1>11. Unpacked'
    BY <1>1, <1>5 DEF Unpacked
<1>12. HasShown'
  <2>1. string' = [k \in 1 .. i' |-> Shown(written'[k])]
    <3>1. string = [k \in 1 .. i |-> Shown(written[k])]
        BY <1>1 DEF HasShown
    <3> QED BY <1>3, <1>5, <3>1
  <2>2. buffer' % 256 = ByteAt(packed', cursor' - 1)
    <3>1. CASE idx > 0
      <4>1. buffer' = ((256 * buffer) % 65536) + ByteAt(packed, cursor) /\ cursor' - 1 = cursor
          BY <1>1, <1>5, <3>1 DEF Fetched, TextTypeOK
      <4>2. ASSUME NEW x \in Nat, NEW b \in Byte
            PROVE  (((256 * x) % 65536) + b) % 256 = b
        <5>1. (256 * x) % 65536 = 256 * (x % 256)
            OBVIOUS
        <5>2. ASSUME NEW y \in Nat
              PROVE  (256 * y + b) % 256 = b
            BY DEF Byte
        <5> QED BY <5>1, <5>2
      <4> QED BY <1>1, <1>5, <1>7, <4>1, <4>2 DEF TextTypeOK
    <3>2. CASE idx = 0
      <4>1. buffer' = buffer /\ cursor' = cursor /\ i > 0
          BY <1>1, <1>5, <3>2 DEF Fetched, HasShown, TextTypeOK
      <4> QED BY <1>1, <1>5, <4>1 DEF HasShown
    <3> QED BY <1>1, <3>1, <3>2 DEF TextTypeOK
  <2> QED BY <1>2, <1>3, <1>5, <1>6, <2>1, <2>2 DEF HasShown
<1> QED BY <1>1, <1>5, <1>8, <1>9, <1>10, <1>11, <1>12 DEF TextInv

LEMMA FullKeepsTextInv ==
    ASSUME TextInv, full
    PROVE  TextInv'
<1>1. TextTypeOK /\ IsPacked /\ InsideBuffer /\ HasShown
    BY DEF TextInv, full
<1>2. written \in Seq(Codes)
    BY <1>1, ScriptFacts
<1>3. UNCHANGED <<written, packed, cursor, i, idx, buffer, string>> /\ phase' = "done"
    BY DEF full
<1>4. i = TextStringSize - 1 /\ i <= Len(written)
    BY <1>1, SizeAssumption DEF InsideBuffer, HasShown, TextTypeOK, full
<1>5. TextTypeOK' /\ IsPacked' /\ InsideBuffer'
    BY <1>1, <1>3 DEF TextTypeOK, IsPacked, InsideBuffer
<1>6. Unpacked'
    BY <1>1, <1>2, <1>3, <1>4, SizeAssumption DEF Unpacked, HasShown
<1>7. HasReturned'
    BY <1>1, <1>3, <1>4 DEF HasReturned, HasShown
<1> QED BY <1>3, <1>5, <1>6, <1>7 DEF TextInv

LEMMA TextStepKeepsInv == TextInv /\ [TextNext]_textVars => TextInv'
<1> SUFFICES ASSUME TextInv, [TextNext]_textVars PROVE TextInv'
    OBVIOUS
<1>1. CASE turn
    BY <1>1, MarkKeepsTextInv, CharacterKeepsTextInv
<1>2. CASE full
    BY <1>2, FullKeepsTextInv
<1>3. CASE UNCHANGED textVars
    BY <1>3 DEF textVars, TextInv, TextTypeOK, IsPacked, InsideBuffer, Unpacked, HasShown, HasReturned
<1> QED BY <1>1, <1>2, <1>3 DEF TextNext

(* A number of codes CodesTaken may choose: up to the mark, or as many as  *)
(* the string holds.                                                       *)
Chosen(data, p, n) ==
    /\ \A k \in 0 .. n - 2 : Window(data, p, k) # EndMark
    /\ \/ n \in 1 .. TextStringSize - 1 /\ Window(data, p, n - 1) = EndMark
       \/ n = TextStringSize - 1 /\ (n > 0 => Window(data, p, n - 1) # EndMark)

LEMMA CodesTakenIsChosen ==
    ASSUME NEW data, NEW p, NEW n \in 0 .. TextStringSize, Chosen(data, p, n)
    PROVE  CodesTaken(data, p) = n
<1>1. ASSUME NEW l \in 0 .. TextStringSize, NEW m \in 0 .. TextStringSize,
             Chosen(data, p, l), Chosen(data, p, m)
      PROVE  ~(l < m)
  <2> SUFFICES ASSUME l < m PROVE FALSE
      OBVIOUS
  <2>1. TextStringSize \in Nat \ {0}
      BY SizeAssumption
  <2>2. m <= TextStringSize - 1
      BY <1>1, <2>1 DEF Chosen
  <2>3. l \in 1 .. TextStringSize - 1 /\ Window(data, p, l - 1) = EndMark
      BY <1>1, <2>1, <2>2 DEF Chosen
  <2>4. l - 1 \in 0 .. m - 2
      BY <2>1, <2>2, <2>3
  <2> QED BY <1>1, <2>3, <2>4 DEF Chosen
<1>2. \A m \in 0 .. TextStringSize : Chosen(data, p, m) => m = n
  <2> TAKE m \in 0 .. TextStringSize
  <2> HAVE Chosen(data, p, m)
  <2>1. ~(m < n) /\ ~(n < m)
      BY <1>1
  <2>2. m \in Int /\ n \in Int
      BY SizeAssumption
  <2> QED BY <2>1, <2>2
<1>3. CodesTaken(data, p) = CHOOSE m \in 0 .. TextStringSize : Chosen(data, p, m)
    BY DEF CodesTaken, Chosen
<1> QED BY <1>2, <1>3

LEMMA CodesOfText ==
    ASSUME IsPacked, NEW n \in Nat,
           \/ n = Len(written) + 1 /\ n <= TextStringSize - 1
           \/ n = TextStringSize - 1 /\ n <= Len(written)
    PROVE  CodesTaken(packed, 0) = n
<1> DEFINE W(k) == Window(packed, 0, k)
<1>1. /\ written \in Seq(Codes) /\ \A k \in 1 .. Len(written) : written[k] # EndMark
      /\ Append(written, EndMark) \in Seq(Codes)
    BY ScriptFacts
<1>2. Len(written) \in Nat /\ Len(Append(written, EndMark)) = Len(written) + 1
    BY <1>1
<1>3. NextCommand \in Byte
    BY DEF NextCommand, Byte
<1>4. ASSUME NEW k \in Nat, k <= Len(written)
      PROVE  W(k) = Append(written, EndMark)[k + 1]
  <2>1. k < Len(Append(written, EndMark))
      BY <1>2, <1>4
  <2>2. HoldsPack(packed, Append(written, EndMark)) /\ packed \in Seq(Byte)
      BY <1>1, <1>3, ByteOfPack, ScriptFacts DEF HoldsPack, IsPacked
  <2> QED BY <1>1, <2>1, <2>2, CodeOfPack
<1>5. \A k \in Nat : k < Len(written) => W(k) # EndMark
  <2> SUFFICES ASSUME NEW k \in Nat, k < Len(written)
               PROVE  Append(written, EndMark)[k + 1] # EndMark
      BY <1>2, <1>4
  <2>1. k + 1 \in 1 .. Len(written) /\ Append(written, EndMark)[k + 1] = written[k + 1]
      BY <1>1, <1>2
  <2> QED BY <1>1, <2>1
<1>6. W(Len(written)) = EndMark
  <2>1. Append(written, EndMark)[Len(written) + 1] = EndMark
      BY <1>1, <1>2
  <2> QED BY <1>2, <1>4, <2>1
<1> HIDE DEF W
<1>7. Chosen(packed, 0, n)
  <2>1. CASE n = Len(written) + 1 /\ n <= TextStringSize - 1
      BY <1>2, <1>5, <1>6, <2>1 DEF Chosen, W
  <2>2. CASE n = TextStringSize - 1 /\ n <= Len(written)
      BY <1>2, <1>5, <2>2 DEF Chosen, W
  <2> QED BY <2>1, <2>2
<1>8. n \in 0 .. TextStringSize
    BY <1>2, SizeAssumption
<1> QED BY <1>7, <1>8, CodesTakenIsChosen

LEMMA TextInvMovesBytesTaken == TextInv => MovesBytesTaken
<1> SUFFICES ASSUME TextInv, phase = "done" PROVE cursor = BytesTaken(packed, 0)
    BY DEF MovesBytesTaken
<1>1. IsPacked /\ HasReturned /\ i \in Nat /\ written \in Seq(Codes)
    BY ScriptFacts DEF TextInv, TextTypeOK
<1>2. CASE i = Len(written) /\ i < TextStringSize - 1 /\ cursor = PackedLen(i + 1)
  <2>1. i + 1 \in Nat /\ i + 1 = Len(written) + 1 /\ i + 1 <= TextStringSize - 1
      BY <1>1, <1>2, SizeAssumption
  <2>2. CodesTaken(packed, 0) = i + 1
      BY <1>1, <2>1, CodesOfText
  <2> QED BY <1>2, <2>2 DEF BytesTaken
<1>3. CASE i = TextStringSize - 1 /\ i <= Len(written) /\ cursor = PackedLen(i)
  <2>1. CodesTaken(packed, 0) = i
      BY <1>1, <1>3, CodesOfText
  <2> QED BY <1>3, <2>1 DEF BytesTaken
<1> QED BY <1>1, <1>2, <1>3 DEF HasReturned

(* The inductive invariant of read_compressed.                             *)
THEOREM TextInvHolds == TextSpec => []TextInv
    BY TextInitInv, TextStepKeepsInv, PTL DEF TextSpec

(* The variables of read_compressed keep their types.                      *)
THEOREM TextTypeCorrect == TextSpec => []TextTypeOK
<1>1. TextInv => TextTypeOK
    BY DEF TextInv
<1> QED BY <1>1, TextInvHolds, PTL

(* In every turn of the loop of read_compressed the shift and the cursor   *)
(* belong together.                                                        *)
THEOREM CursorStaysOnBits == TextSpec => []CursorOnBits
<1>1. TextInv => CursorOnBits
    BY DEF TextInv, HasShown, CursorOnBits
<1> QED BY <1>1, TextInvHolds, PTL

(* read_compressed never writes behind its string, nor fetches more bytes  *)
(* than a full string takes.                                               *)
THEOREM WritesInsideBuffer == TextSpec => []InsideBuffer
<1>1. TextInv => InsideBuffer
    BY DEF TextInv
<1> QED BY <1>1, TextInvHolds, PTL

(* A text comes back as the script's writer packed it, and the cursor is   *)
(* behind it: for every text and every size of the string.                 *)
THEOREM TextsComeBack == TextSpec => []Unpacked
<1>1. TextInv => Unpacked
    BY DEF TextInv
<1> QED BY <1>1, TextInvHolds, PTL

(* read_compressed moves the cursor as far as the reader of commands       *)
(* counts for a text: what GplReader takes for a step of its own is what   *)
(* the loop does.                                                          *)
THEOREM CursorMovesAsCounted == TextSpec => []MovesBytesTaken
<1> QED BY TextInvHolds, TextInvMovesBytesTaken, PTL

------------------------------------------------------------------------------
(* What the handlers read. *)

Whats == {"number", "next", "text", "free", "complex", "variable", "bounds", "field", "more fields",
          "menu", "deeper", "shallower", "answered"}

Items == [what : Whats, n : Int]

LEMMA ItemIsItem == \A n \in Int : \A what \in Whats : Item(what, n) \in Items
    BY DEF Item, Items, Whats

LEMMA OneIsSeq ==
    ASSUME NEW S, NEW e \in S
    PROVE  <<e>> \in Seq(S)
    OBVIOUS

LEMMA SameIsSeq ==
    ASSUME NEW S, NEW e \in S, NEW n \in Nat
    PROVE  [k \in 1 .. n |-> e] \in Seq(S)
    OBVIOUS

LEMMA GetParametersRead ==
    ASSUME NEW n \in Nat
    PROVE  get_parameters(n) \in Seq(Items)
<1>1. Item("number", 0) \in Items
    BY DEF Item, Items, Whats
<1> QED BY <1>1, SameIsSeq DEF get_parameters

LEMMA ItemsRead ==
    /\ None \in Seq(Items) /\ Deeper \in Seq(Items) /\ Shallower \in Seq(Items)
    /\ Complex(Read) \in Seq(Items) /\ Complex(Write) \in Seq(Items) /\ Complex(Record) \in Seq(Items)
<1>1. Item("deeper", 0) \in Items /\ Item("shallower", 0) \in Items
    BY DEF Item, Items, Whats
<1>2. \A use \in {0, 1, 2} : Item("complex", use) \in Items
    BY DEF Item, Items, Whats
<1>3. <<Item("deeper", 0)>> \in Seq(Items) /\ <<Item("shallower", 0)>> \in Seq(Items)
    BY <1>1, OneIsSeq
<1>4. \A use \in {0, 1, 2} : <<Item("complex", use)>> \in Seq(Items)
    BY <1>2, OneIsSeq
<1>5. None \in Seq(Items)
    BY GetParametersRead DEF None
<1> QED BY <1>3, <1>4, <1>5 DEF Deeper, Shallower, Complex, Read, Write, Record

LEMMA TwoIsSeq ==
    ASSUME NEW S, NEW e \in S, NEW f \in S
    PROVE  <<e, f>> \in Seq(S)
    OBVIOUS

LEMMA InTurnRead == \A p, q \in Seq(Items) : p \o q \in Seq(Items)
    OBVIOUS

LEMMA FlowRead == \A h \in DOMAIN Flow : Flow[h] \in Seq(Items)
<1>1. /\ get_parameters(1) \o Deeper \in Seq(Items)
      /\ Complex(Record) \o get_parameters(1) \in Seq(Items)
    BY GetParametersRead, ItemsRead, InTurnRead
<1>2. /\ Flow["load_accum"] \in Seq(Items) /\ Flow["global_ret"] \in Seq(Items)
      /\ Flow["nextto"] \in Seq(Items) /\ Flow["if"] \in Seq(Items) /\ Flow["else"] \in Seq(Items)
      /\ Flow["setrecord"] \in Seq(Items) /\ Flow["endif"] \in Seq(Items)
      /\ Flow["clear_los"] \in Seq(Items) /\ Flow["nametonum"] \in Seq(Items)
      /\ Flow["numtoname"] \in Seq(Items) /\ Flow["bitsnoop"] \in Seq(Items)
      /\ Flow["award"] \in Seq(Items) /\ Flow["clone"] \in Seq(Items)
      /\ Flow["ifcompare"] \in Seq(Items) /\ Flow["orelse"] \in Seq(Items)
    BY <1>1, GetParametersRead, ItemsRead DEF Flow
<1>3. DOMAIN Flow = {"load_accum", "global_ret", "nextto", "if", "else", "setrecord",
          "endif", "clear_los", "nametonum", "numtoname", "bitsnoop", "award",
          "clone", "ifcompare", "orelse"}
    BY DEF Flow
<1> QED BY <1>2, <1>3

LEMMA DeedsRead == \A h \in DOMAIN Deeds : Deeds[h] \in Seq(Items)
<1>1. /\ <<Item("text", 0), Item("free", 0)>> \in Seq(Items)
      /\ get_parameters(1) \o <<Item("bounds", 0), Item("field", 0)>> \in Seq(Items)
  <2>1. Item("text", 0) \in Items /\ Item("free", 0) \in Items /\ Item("bounds", 0) \in Items /\ Item("field", 0) \in Items
      BY DEF Item, Items, Whats
  <2>2. <<Item("text", 0), Item("free", 0)>> \in Seq(Items) /\ <<Item("bounds", 0), Item("field", 0)>> \in Seq(Items)
      BY <2>1, TwoIsSeq
  <2> QED BY <2>2, GetParametersRead, InTurnRead
<1>2. /\ Deeds["clearpic"] \in Seq(Items) /\ Deeds["continue"] \in Seq(Items)
      /\ Deeds["log"] \in Seq(Items) /\ Deeds["damage"] \in Seq(Items)
      /\ Deeds["drop"] \in Seq(Items) /\ Deeds["passtime"] \in Seq(Items)
      /\ Deeds["exit_gpl"] \in Seq(Items) /\ Deeds["fetch"] \in Seq(Items)
      /\ Deeds["search"] \in Seq(Items)
    BY <1>1, GetParametersRead, ItemsRead DEF Deeds
<1>3. DOMAIN Deeds = {"clearpic", "continue", "log", "damage", "drop", "passtime",
          "exit_gpl", "fetch", "search"}
    BY DEF Deeds
<1> QED BY <1>2, <1>3

LEMMA AskingRead == \A h \in DOMAIN Asking : Asking[h] \in Seq(Items)
<1>1. get_parameters(1) \o <<Item("menu", 0)>> \in Seq(Items)
  <2>1. Item("menu", 0) \in Items
      BY DEF Item, Items, Whats
  <2> QED BY <2>1, OneIsSeq, GetParametersRead, InTurnRead
<1>2. /\ Asking["getparty"] \in Seq(Items) /\ Asking["fight"] \in Seq(Items)
      /\ Asking["flee"] \in Seq(Items) /\ Asking["follow"] \in Seq(Items)
      /\ Asking["getyn"] \in Seq(Items) /\ Asking["give"] \in Seq(Items)
      /\ Asking["go"] \in Seq(Items) /\ Asking["goxy"] \in Seq(Items)
      /\ Asking["readorders"] \in Seq(Items) /\ Asking["setother"] \in Seq(Items)
      /\ Asking["input_string"] \in Seq(Items) /\ Asking["input_number"] \in Seq(Items)
      /\ Asking["input_money"] \in Seq(Items) /\ Asking["menu"] \in Seq(Items)
    BY <1>1, GetParametersRead, ItemsRead DEF Asking
<1>3. DOMAIN Asking = {"getparty", "fight", "flee", "follow", "getyn", "give", "go", "goxy",
          "readorders", "setother", "input_string", "input_number",
          "input_money", "menu"}
    BY DEF Asking
<1> QED BY <1>2, <1>3

LEMMA LoopingRead == \A h \in DOMAIN Looping : Looping[h] \in Seq(Items)
<1>1. /\ get_parameters(1) \o Deeper \in Seq(Items)
      /\ get_parameters(1) \o Shallower \in Seq(Items)
      /\ get_parameters(1) \o <<Item("variable", 0)>> \in Seq(Items)
  <2>1. Item("variable", 0) \in Items
      BY DEF Item, Items, Whats
  <2> QED BY <2>1, OneIsSeq, GetParametersRead, ItemsRead, InTurnRead
<1>2. /\ Looping["compare"] \in Seq(Items) /\ Looping["load_variable"] \in Seq(Items)
      /\ Looping["request"] \in Seq(Items) /\ Looping["shop"] \in Seq(Items)
      /\ Looping["tport"] \in Seq(Items) /\ Looping["cmpend"] \in Seq(Items)
      /\ Looping["wait"] \in Seq(Items) /\ Looping["while"] \in Seq(Items)
      /\ Looping["wend"] \in Seq(Items)
    BY <1>1, GetParametersRead, ItemsRead DEF Looping
<1>3. DOMAIN Looping = {"compare", "load_variable", "request", "shop", "tport", "cmpend",
          "wait", "while", "wend"}
    BY DEF Looping
<1> QED BY <1>2, <1>3

LEMMA ShowingRead == \A h \in DOMAIN Showing : Showing[h] \in Seq(Items)
<1>1. \A n \in 1 .. 7 : get_parameters(n) \in Seq(Items)
    BY GetParametersRead
<1>2. None \in Seq(Items)
    BY ItemsRead
<1> QED BY <1>1, <1>2 DEF Showing

LEMMA CountingRead == \A h \in DOMAIN Counting : Counting[h] \in Seq(Items)
<1>1. \A n \in 1 .. 7 : get_parameters(n) \in Seq(Items)
    BY GetParametersRead
<1>2. None \in Seq(Items)
    BY ItemsRead
<1> QED BY <1>1, <1>2 DEF Counting

LEMMA TriggersRead == \A h \in DOMAIN Triggers : Triggers[h] \in Seq(Items)
<1>1. \A n \in 1 .. 7 : get_parameters(n) \in Seq(Items)
    BY GetParametersRead
<1>2. None \in Seq(Items)
    BY ItemsRead
<1> QED BY <1>1, <1>2 DEF Triggers

LEMMA OperatorsRead == \A h \in DOMAIN Operators : Operators[h] \in Seq(Items)
<1>1. \A n \in 1 .. 7 : get_parameters(n) \in Seq(Items)
    BY GetParametersRead
<1>2. None \in Seq(Items)
    BY ItemsRead
<1> QED BY <1>1, <1>2 DEF Operators


LEMMA HandlersRead == \A h \in DOMAIN Handlers : Handlers[h] \in Seq(Items)
<1>1. \A table \in Tables : \A h \in DOMAIN table : table[h] \in Seq(Items)
    BY FlowRead, DeedsRead, AskingRead, ShowingRead, CountingRead, LoopingRead, TriggersRead,
       OperatorsRead DEF Tables
<1>2. TAKE h \in DOMAIN Handlers
<1>3. PICK table \in Tables : h \in DOMAIN table
    BY DEF Handlers
<1> DEFINE chosen == CHOOSE t \in Tables : h \in DOMAIN t
<1>4. Handlers[h] = chosen[h]
    BY DEF Handlers
<1>5. chosen \in Tables /\ h \in DOMAIN chosen
    BY <1>3
<1> QED BY <1>1, <1>4, <1>5

LEMMA HandlersDomain ==
    DOMAIN Handlers = DOMAIN Flow \cup DOMAIN Deeds \cup DOMAIN Asking \cup DOMAIN Showing
                        \cup DOMAIN Counting \cup DOMAIN Looping \cup DOMAIN Triggers \cup DOMAIN Operators
    BY DEF Handlers, Tables

LEMMA HandlerKnown == \A b \in Commands : Handler(b) \in DOMAIN Handlers \cup {"unknown"}
<1>1. \A n \in 1 .. 129 : gpl_commands[n] \in DOMAIN Flow \cup DOMAIN Deeds \cup DOMAIN Asking \cup DOMAIN Showing
                        \cup DOMAIN Counting \cup DOMAIN Looping \cup DOMAIN Triggers \cup DOMAIN Operators \cup {"unknown"}
    BY SMTT(60) DEF gpl_commands, Flow, Deeds, Asking, Showing, Counting, Looping, Triggers, Operators
<1> QED BY <1>1, HandlersDomain DEF Handler, Commands

------------------------------------------------------------------------------
(* Where reading items leads. *)

(* Reading an item from place a on ends at place b: a phrase is read, or   *)
(* the rest of one.  Of a number the next token begins there, or the last  *)
(* one that was read has ended there.                                      *)
OnePhrase(s, item, a, b) ==
    \E p \in s.phrases :
        /\ p.is = item.what /\ p.from = a /\ p.to = b
        /\ p.is = "complex" => p.n = item.n

TokenBegins(s, n, a, b) ==
    \E p \in s.phrases : \E k \in DOMAIN p.parts :
        p.is = "number" /\ p.parts[k].from = a /\ p.parts[k].n = n /\ p.to = b

TokenEnded(s, n, a, b) ==
    \E p \in s.phrases : \E k \in DOMAIN p.parts :
        /\ p.is = "number" /\ p.parts[k].to = a /\ p.to = b
        /\ Completes(p.parts[k]) /\ OpenBehind(p.parts[k]) = n

FieldBegins(s, a, b) ==
    \E p \in s.phrases : \E k \in DOMAIN p.parts :
        p.is = "field" /\ p.parts[k].from = a /\ p.to = b

FieldEnded(s, a, b) ==
    \E p \in s.phrases : \E k \in DOMAIN p.parts :
        p.is = "field" /\ p.parts[k].to = a /\ p.to = b

EntriesDone(s, n, a, b) ==
    \E p \in s.phrases :
        /\ p.is = "menu" /\ p.to = b /\ n \in 0 .. Len(p.parts)
        /\ a = IF n = 0 THEN p.from ELSE p.parts[n].to

Answered(s, a, b) ==
    b \in Places(s) /\ b = Past(a, 0, 1) /\ s.says[b.said] = <<"))">>

Leads(s, item, a, b) ==
    \/ item.what \in {"text", "complex", "variable", "bounds", "deeper", "shallower"} /\ OnePhrase(s, item, a, b)
    \/ item.what = "number" /\ TokenBegins(s, item.n, a, b)
    \/ item.what = "next" /\ TokenEnded(s, item.n, a, b)
    \/ item.what = "field" /\ FieldBegins(s, a, b)
    \/ item.what = "more fields" /\ FieldEnded(s, a, b)
    \/ item.what = "menu" /\ EntriesDone(s, item.n, a, b)
    \/ item.what = "answered" /\ Answered(s, a, b)

(* Reading items one after another.                                        *)
Path(s, items, a, b) ==
    \E w \in [0 .. Len(items) -> Places(s)] :
        /\ w[0] = a /\ w[Len(items)] = b
        /\ \A k \in 1 .. Len(items) : Leads(s, items[k], w[k - 1], w[k])

LEMMA PathNone ==
    ASSUME NEW s, NEW a, NEW b
    PROVE  /\ a \in Places(s) => Path(s, <<>>, a, a)
           /\ Path(s, <<>>, a, b) => a = b
<1>1. Len(<<>>) = 0
    OBVIOUS
<1>2. ASSUME a \in Places(s) PROVE Path(s, <<>>, a, a)
  <2> DEFINE w == [k \in 0 .. 0 |-> a]
  <2>1. w \in [0 .. 0 -> Places(s)] /\ w[0] = a
      BY <1>2
  <2> HIDE DEF w
  <2>2. \A k \in 1 .. 0 : Leads(s, <<>>[k], w[k - 1], w[k])
      OBVIOUS
  <2> QED BY <1>1, <2>1, <2>2 DEF Path
<1>3. ASSUME Path(s, <<>>, a, b) PROVE a = b
    BY <1>1, <1>3 DEF Path
<1> QED BY <1>2, <1>3

LEMMA PathOne ==
    ASSUME NEW s, NEW item, NEW a \in Places(s), NEW b \in Places(s), Leads(s, item, a, b)
    PROVE  Path(s, <<item>>, a, b)
<1> DEFINE w == [k \in 0 .. 1 |-> IF k = 0 THEN a ELSE b]
<1>1. w \in [0 .. 1 -> Places(s)] /\ w[0] = a /\ w[1] = b
    OBVIOUS
<1>2. Len(<<item>>) = 1 /\ <<item>>[1] = item
    OBVIOUS
<1> HIDE DEF w
<1>3. \A k \in 1 .. 1 : Leads(s, <<item>>[k], w[k - 1], w[k])
  <2> TAKE k \in 1 .. 1
  <2>1. k = 1 /\ k - 1 = 0
      OBVIOUS
  <2> QED BY <1>1, <1>2, <2>1
<1> QED BY <1>1, <1>2, <1>3 DEF Path

LEMMA PathConcat ==
    ASSUME NEW s, NEW p \in Seq(Items), NEW q \in Seq(Items), NEW a, NEW b, NEW c,
           Path(s, p, a, b), Path(s, q, b, c)
    PROVE  Path(s, p \o q, a, c)
<1>1. PICK v \in [0 .. Len(p) -> Places(s)] :
          /\ v[0] = a /\ v[Len(p)] = b
          /\ \A k \in 1 .. Len(p) : Leads(s, p[k], v[k - 1], v[k])
    BY DEF Path
<1>2. PICK u \in [0 .. Len(q) -> Places(s)] :
          /\ u[0] = b /\ u[Len(q)] = c
          /\ \A k \in 1 .. Len(q) : Leads(s, q[k], u[k - 1], u[k])
    BY DEF Path
<1> DEFINE pq == p \o q
           w == [k \in 0 .. Len(pq) |-> IF k <= Len(p) THEN v[k] ELSE u[k - Len(p)]]
<1>3. /\ Len(pq) = Len(p) + Len(q) /\ Len(p) \in Nat /\ Len(q) \in Nat
      /\ \A k \in 1 .. Len(p) + Len(q) : pq[k] = IF k <= Len(p) THEN p[k] ELSE q[k - Len(p)]
    BY ConcatProperties
<1> HIDE DEF pq
<1>4. w \in [0 .. Len(pq) -> Places(s)]
    BY <1>3
<1>5. w[0] = a /\ w[Len(pq)] = c
  <2>1. w[0] = v[0]
      BY <1>3
  <2>2. CASE Len(q) = 0
    <3>1. w[Len(pq)] = v[Len(p)] /\ u[Len(q)] = u[0]
        BY <1>3, <2>2
    <3> QED BY <1>1, <1>2, <2>1, <3>1
  <2>3. CASE Len(q) # 0
    <3>1. w[Len(pq)] = u[Len(q)]
        BY <1>3, <2>3
    <3> QED BY <1>1, <1>2, <2>1, <3>1
  <2> QED BY <2>2, <2>3
<1>6. ASSUME NEW k \in 1 .. Len(pq)
      PROVE  Leads(s, pq[k], w[k - 1], w[k])
  <2>1. CASE k <= Len(p)
    <3>1. k \in 1 .. Len(p) /\ pq[k] = p[k] /\ w[k - 1] = v[k - 1] /\ w[k] = v[k]
        BY <1>3, <2>1
    <3> QED BY <1>1, <3>1
  <2>2. CASE ~(k <= Len(p))
    <3>1. k - Len(p) \in 1 .. Len(q) /\ pq[k] = q[k - Len(p)] /\ w[k] = u[k - Len(p)]
        BY <1>3, <2>2
    <3>2. w[k - 1] = u[(k - Len(p)) - 1]
      <4>1. CASE k - 1 = Len(p)
        <5>1. w[k - 1] = v[Len(p)] /\ (k - Len(p)) - 1 = 0
            BY <1>3, <4>1
        <5> QED BY <1>1, <1>2, <5>1
      <4>2. CASE k - 1 # Len(p)
        <5>1. /\ k - 1 \in 0 .. Len(pq) /\ ~(k - 1 <= Len(p))
              /\ (k - 1) - Len(p) = (k - Len(p)) - 1
            BY <1>3, <2>2, <4>2
        <5>2. w[k - 1] = u[(k - 1) - Len(p)]
            BY <5>1
        <5> QED BY <5>1, <5>2
      <4> QED BY <4>1, <4>2
    <3> QED BY <1>2, <3>1, <3>2
  <2> QED BY <2>1, <2>2
<1> HIDE DEF w
<1> QED BY <1>4, <1>5, <1>6 DEF Path, pq

LEMMA PathTail ==
    ASSUME NEW s, NEW p \in Seq(Items), p # <<>>, NEW a, NEW c, Path(s, p, a, c)
    PROVE  \E b \in Places(s) : Leads(s, Head(p), a, b) /\ Path(s, Tail(p), b, c)
<1>1. PICK v \in [0 .. Len(p) -> Places(s)] :
          /\ v[0] = a /\ v[Len(p)] = c
          /\ \A k \in 1 .. Len(p) : Leads(s, p[k], v[k - 1], v[k])
    BY DEF Path
<1> DEFINE q == Tail(p)
           w == [k \in 0 .. Len(q) |-> v[k + 1]]
<1>2. /\ Len(q) = Len(p) - 1 /\ Len(p) \in Nat /\ Len(p) > 0 /\ Head(p) = p[1]
      /\ \A k \in 1 .. Len(q) : q[k] = p[k + 1]
  <2>1. /\ Len(Tail(p)) = Len(p) - 1 /\ \A k \in 1 .. Len(Tail(p)) : Tail(p)[k] = p[k + 1]
      BY HeadTailProperties
  <2>2. Len(p) \in Nat /\ Len(p) > 0 /\ Head(p) = p[1]
      OBVIOUS
  <2> QED BY <2>1, <2>2
<1> HIDE DEF q
<1>3. w \in [0 .. Len(q) -> Places(s)] /\ w[0] = v[1] /\ w[Len(q)] = c
    BY <1>1, <1>2
<1>4. ASSUME NEW k \in 1 .. Len(q)
      PROVE  Leads(s, q[k], w[k - 1], w[k])
  <2>1. k + 1 \in 1 .. Len(p) /\ q[k] = p[k + 1] /\ w[k] = v[k + 1] /\ w[k - 1] = v[(k + 1) - 1]
      BY <1>2
  <2> QED BY <1>1, <2>1
<1>5. Leads(s, Head(p), a, v[1]) /\ v[1] \in Places(s)
  <2>1. 1 \in 1 .. Len(p) /\ 1 - 1 = 0 /\ 1 \in 0 .. Len(p)
      BY <1>2
  <2> QED BY <1>1, <1>2, <2>1
<1> HIDE DEF w
<1>6. Path(s, q, v[1], c)
    BY <1>3, <1>4 DEF Path
<1> QED BY <1>5, <1>6 DEF q

(* Phrases that lie one behind another are read one after another.         *)
LEMMA PathOfPhrases ==
    ASSUME NEW s, NEW phrases, IsSeq(phrases), NEW items \in Seq(Items), Len(phrases) = Len(items),
           NEW a \in Places(s), NEW b, InTurn(phrases, a, b),
           \A k \in DOMAIN phrases : phrases[k].to \in Places(s)
                                       /\ Leads(s, items[k], phrases[k].from, phrases[k].to)
    PROVE  Path(s, items, a, b)
<1> DEFINE w == [k \in 0 .. Len(items) |-> IF k = 0 THEN a ELSE phrases[k].to]
<1>1. Len(items) \in Nat /\ DOMAIN phrases = 1 .. Len(items) /\ (phrases = <<>> <=> Len(items) = 0)
    BY DEF IsSeq
<1>2. w \in [0 .. Len(items) -> Places(s)] /\ w[0] = a
    BY <1>1
<1>3. w[Len(items)] = b
  <2>1. CASE phrases = <<>>
      BY <1>1, <1>2, <2>1 DEF InTurn
  <2>2. CASE phrases # <<>>
      BY <1>1, <2>2 DEF InTurn
  <2> QED BY <2>1, <2>2
<1>4. ASSUME NEW k \in 1 .. Len(items)
      PROVE  w[k - 1] = phrases[k].from /\ w[k] = phrases[k].to
  <2>1. phrases # <<>> /\ w[k] = phrases[k].to
      BY <1>1
  <2>2. CASE k = 1
      BY <1>1, <2>1, <2>2 DEF InTurn
  <2>3. CASE k # 1
    <3>1. k - 1 \in 1 .. Len(phrases) - 1 /\ (k - 1) + 1 = k /\ w[k - 1] = phrases[k - 1].to
        BY <1>1, <2>3
    <3>2. \A j \in 1 .. Len(phrases) - 1 : phrases[j + 1].from = phrases[j].to
        BY <2>1 DEF InTurn
    <3> QED BY <2>1, <3>1, <3>2
  <2> QED BY <2>2, <2>3
<1>5. \A k \in 1 .. Len(items) : Leads(s, items[k], w[k - 1], w[k])
    BY <1>1, <1>4
<1> HIDE DEF w
<1> QED BY <1>2, <1>3, <1>5 DEF Path

------------------------------------------------------------------------------
(* The reader keeps its types, whatever bytes it is given. *)

Statuses == {"read", "done", "over", "failed", "exited", "crashed", "behind"}

(* A command is still to answer: the mark in_retval will be taken back.    *)
Awaited(items) == \E k \in DOMAIN items : items[k].what = "answered"

(* What holds of the reader whatever bytes it is given.                    *)
Typed ==
    /\ TypeOK
    /\ script \in Scripts
    /\ todo \in Seq(Items)
    /\ ran <= pos
    /\ status = "read" => pos <= Len(bytes)
    /\ status = "read" /\ in_retval = 1 => Awaited(todo)

(* Of a script that is sound so far: the reader is where what it still has *)
(* to read leads it to the end of the command, and has printed what the    *)
(* script says up to there.                                                *)
SaysAsWritten ==
    /\ IsSeq(out) /\ Len(out) <= Len(script.says)
    /\ \A k \in 1 .. Len(out) : out[k] = script.says[k]

InStep ==
    /\ Here \in Places(script)
    /\ SaysAsWritten
    /\ ran <= Len(script.commands)
    /\ ran > 0 => script.commands[ran].from.at + 1 < Len(bytes)
    /\ Path(script, todo, Here, Reached(ran))

LEMMA ScriptFacts1 ==
    ASSUME Typed
    PROVE  WellFormed(script) /\ bytes \in Seq(Byte) /\ Len(bytes) \in Nat /\ IsSeq(script.says)
<1>1. WellFormed(script)
    BY ScriptsAssumption DEF Typed
<1>2. bytes \in Seq(Byte) /\ IsSeq(script.says)
    BY <1>1 DEF WellFormed, bytes
<1> QED BY <1>1, <1>2

LEMMA SeqFacts ==
    ASSUME NEW q, IsSeq(q)
    PROVE  Len(q) \in Nat /\ DOMAIN q = 1 .. Len(q) /\ (q = <<>> <=> Len(q) = 0)
    BY DEF IsSeq

LEMMA PhraseFacts ==
    ASSUME Typed, NEW p \in script.phrases
    PROVE  /\ p.from \in Places(script) /\ p.to \in Places(script) /\ p.n \in Nat
           /\ IsSeq(p.parts) /\ \A k \in DOMAIN p.parts : p.parts[k] \in script.phrases
           /\ IsPhrase(script, p)
    BY ScriptFacts1 DEF WellFormed

LEMMA ThereIsByte ==
    ASSUME Typed, NEW k \in Nat
    PROVE  There(k) \in Byte
<1>1. bytes \in Seq(Byte) /\ Len(bytes) \in Nat
    BY ScriptFacts1
<1>2. pos \in Nat
    BY <1>1 DEF Typed, TypeOK
<1>3. pos + k \in Nat
    BY <1>2
<1> QED BY <1>1, <1>3, ByteAtInRange DEF There

LEMMA WordIsNat ==
    ASSUME Typed, NEW k \in Nat
    PROVE  Word(k) \in 0 .. 2^16 - 1
<1>1. k + 1 \in Nat
    OBVIOUS
<1>2. There(k) \in Byte /\ There(k + 1) \in Byte
    BY <1>1, ThereIsByte
<1>3. \A hi, lo \in Byte : 256 * hi + lo \in 0 .. 2^16 - 1
    BY DEF Byte
<1> QED BY <1>2, <1>3 DEF Word

(* Fetching bytes does not move the cursor back, nor behind the script.    *)
LEMMA Fetching ==
    ASSUME Typed, status = "read", NEW k \in Nat, NEW then, Fetch(k, then)
    PROVE  /\ pos' \in pos .. Len(bytes)
           /\ status' \in {then, "behind"}
           /\ pos + k <= Len(bytes) => pos' = pos + k /\ status' = then
<1>1. Len(bytes) \in Nat
    BY ScriptFacts1
<1>2. pos \in Nat /\ pos <= Len(bytes)
    BY <1>1 DEF Typed, TypeOK
<1> QED BY <1>1, <1>2 DEF Fetch

LEMMA PutsItems ==
    ASSUME Typed, todo # <<>>, NEW items \in Seq(Items), Then(items)
    PROVE  todo' \in Seq(Items)
<1>1. Tail(todo) \in Seq(Items)
    BY HeadTailProperties DEF Typed
<1> QED BY <1>1 DEF Then

LEMMA NowIsNumber ==
    ASSUME Typed, todo # <<>>
    PROVE  Head(todo) \in Items /\ Now \in Int /\ Now = Head(todo).n
<1>1. Head(todo) \in Items
    BY HeadTailProperties DEF Typed
<1> QED BY <1>1 DEF Now, Items

(* A step that keeps the types.                                            *)
Keeps ==
    /\ script' = script
    /\ ran' = ran
    /\ pos' \in pos .. Len(bytes)
    /\ status' \in Statuses
    /\ depth' \in Depths
    /\ in_retval' \in {0, 1}
    /\ big_num' \in 0 .. 64
    /\ todo' \in Seq(Items)
    /\ status' = "read" /\ in_retval' = 1 => Awaited(todo')

LEMMA KeepsTyped ==
    ASSUME Typed, status = "read", Keeps
    PROVE  Typed'
<1>0. Len(bytes) \in Nat
    BY ScriptFacts1
<1>1. pos \in Nat /\ Len(bytes) \in Nat /\ ran \in 0 .. Len(bytes) /\ ran <= pos /\ pos <= Len(bytes)
    BY <1>0 DEF Typed, TypeOK
<1>2. bytes' = bytes
    BY DEF bytes, Keeps
<1>3. \A k \in DOMAIN todo' : todo'[k].n \in Int
  <2>1. todo' \in Seq(Items)
      BY DEF Keeps
  <2>2. \A k \in DOMAIN todo' : todo'[k] \in Items
      BY <2>1
  <2> QED BY <2>2 DEF Items
<1>4. TypeOK'
    BY <1>1, <1>2, <1>3 DEF TypeOK, Keeps, Statuses
<1> QED BY <1>1, <1>2, <1>4 DEF Typed, Keeps

LEMMA OneItem ==
    ASSUME NEW n \in Int
    PROVE  \A what \in Whats : <<Item(what, n)>> \in Seq(Items)
<1> TAKE what \in Whats
<1>1. Item(what, n) \in Items
    BY DEF Item, Items
<1> QED BY <1>1, OneIsSeq

LEMMA MoreItems ==
    ASSUME NEW n \in Int
    PROVE  More(n) \in Seq(Items) /\ Again(n) \in Seq(Items)
    BY OneItem DEF More, Again, Whats

LEMMA BigNumInRange == big_num \in 0 .. 64 => BigNum \in 0 .. 64
    BY DEF BigNum

LEMMA EmptyIsSeq == <<>> \in Seq(Items)
    OBVIOUS

LEMMA LeastNumber ==
    ASSUME NEW S, S \subseteq Nat, S # {}
    PROVE  \E m \in S : \A k \in S : m <= k
<1> DEFINE Smaller == OpToRel(<, Nat)
<1>1. IsWellFoundedOn(Smaller, Nat)
    BY NatLessThanWellFounded
<1>2. PICK m \in S : \A k \in S : ~(<<k, m>> \in Smaller)
    BY <1>1, WFMin
<1>3. \A k \in S : ~(k < m)
    BY <1>2 DEF OpToRel
<1>4. \A k \in S : k \in Int /\ m \in Int
    OBVIOUS
<1> QED BY <1>3, <1>4

LEMMA SomeCodesTaken ==
    ASSUME NEW data, NEW p
    PROVE  CodesTaken(data, p) \in 0 .. TextStringSize
<1> DEFINE marks == {k \in Nat : k <= TextStringSize - 2 /\ Window(data, p, k) = EndMark}
<1>0. TextStringSize \in Nat \ {0}
    BY SizeAssumption
<1>1. CASE marks = {}
  <2>1. TextStringSize - 1 \in 0 .. TextStringSize
      BY <1>0
  <2>2. \A k \in Nat : k <= TextStringSize - 2 => Window(data, p, k) # EndMark
      BY <1>1
  <2>3. Chosen(data, p, TextStringSize - 1)
      BY <1>0, <2>2 DEF Chosen
  <2>4. CodesTaken(data, p) = TextStringSize - 1
      BY <2>1, <2>3, CodesTakenIsChosen
  <2> QED BY <2>1, <2>4
<1>2. CASE marks # {}
  <2>1. PICK m \in marks : \A k \in marks : m <= k
      BY <1>2, LeastNumber
  <2>2. m \in Nat /\ m <= TextStringSize - 2 /\ Window(data, p, m) = EndMark /\ (m + 1) - 1 = m
      BY <2>1
  <2>3. m + 1 \in 0 .. TextStringSize /\ m + 1 \in 1 .. TextStringSize - 1
      BY <1>0, <2>2
  <2>4. \A k \in 0 .. (m + 1) - 2 : Window(data, p, k) # EndMark
    <3> TAKE k \in 0 .. (m + 1) - 2
    <3>1. k \in Nat /\ k < m /\ k <= TextStringSize - 2
        BY <1>0, <2>2
    <3> QED BY <2>1, <2>2, <3>1
  <2>5. Chosen(data, p, m + 1)
      BY <2>2, <2>3, <2>4 DEF Chosen
  <2>6. CodesTaken(data, p) = m + 1
      BY <2>3, <2>5, CodesTakenIsChosen
  <2> QED BY <2>3, <2>6
<1> QED BY <1>1, <1>2

LEMMA BytesTakenIsNumber == \A data, p : BytesTaken(data, p) \in Nat
<1> TAKE data, p
<1>1. CodesTaken(data, p) \in Nat
    BY SomeCodesTaken, SizeAssumption
<1> QED BY <1>1, OneMoreCode DEF BytesTaken

LEMMA ReadingFacts ==
    ASSUME Typed, NEW what, Reading(what)
    PROVE  /\ status = "read" /\ todo # <<>> /\ Head(todo).what = what
           /\ Now \in Int /\ Tail(todo) \in Seq(Items)
           /\ depth \in Depths /\ in_retval \in {0, 1} /\ big_num \in 0 .. 64
           /\ pos \in Nat /\ pos \in pos .. Len(bytes) /\ "read" \in Statuses
<1>1. status = "read" /\ todo # <<>> /\ Head(todo).what = what
    BY DEF Reading
<1>2. Now \in Int
    BY <1>1, NowIsNumber
<1>3. Len(bytes) \in Nat
    BY ScriptFacts1
<1>4. /\ depth \in Depths /\ in_retval \in {0, 1} /\ big_num \in 0 .. 64
      /\ pos \in Nat /\ pos <= Len(bytes) /\ todo \in Seq(Items)
    BY <1>1, <1>3 DEF Typed, TypeOK
<1>5. Tail(todo) \in Seq(Items)
    BY <1>1, <1>4, HeadTailProperties
<1>6. pos \in pos .. Len(bytes)
    BY <1>3, <1>4
<1> QED BY <1>1, <1>2, <1>4, <1>5, <1>6 DEF Statuses

LEMMA AwaitedStays ==
    ASSUME NEW rest \in Seq(Items), NEW items \in Seq(Items), Awaited(items) \/ Awaited(rest)
    PROVE  Awaited(items \o rest)
<1> DEFINE both == items \o rest
<1>1. /\ both \in Seq(Items) /\ Len(both) = Len(items) + Len(rest)
      /\ Len(items) \in Nat /\ Len(rest) \in Nat
      /\ \A k \in 1 .. Len(items) + Len(rest) :
            both[k] = IF k <= Len(items) THEN items[k] ELSE rest[k - Len(items)]
    BY ConcatProperties
<1> HIDE DEF both
<1>2. CASE Awaited(items)
  <2>1. PICK k \in 1 .. Len(items) : items[k].what = "answered"
      BY <1>2 DEF Awaited
  <2>2. k \in DOMAIN both /\ both[k] = items[k]
      BY <1>1
  <2> QED BY <2>1, <2>2 DEF Awaited, both
<1>3. CASE Awaited(rest)
  <2>1. PICK k \in 1 .. Len(rest) : rest[k].what = "answered"
      BY <1>3 DEF Awaited
  <2>2. /\ Len(items) + k \in DOMAIN both /\ Len(items) + k \in 1 .. Len(items) + Len(rest)
        /\ ~(Len(items) + k <= Len(items)) /\ (Len(items) + k) - Len(items) = k
      BY <1>1
  <2>3. both[Len(items) + k] = rest[k]
      BY <1>1, <2>2
  <2> QED BY <2>1, <2>2, <2>3 DEF Awaited, both
<1> QED BY <1>2, <1>3

LEMMA TailAwaits ==
    ASSUME NEW items \in Seq(Items), items # <<>>, Head(items).what # "answered", Awaited(items)
    PROVE  Awaited(Tail(items))
<1>1. PICK k \in 1 .. Len(items) : items[k].what = "answered"
    BY DEF Awaited
<1>2. k # 1
    BY <1>1
<1>3. /\ Tail(items) \in Seq(Items) /\ Len(Tail(items)) = Len(items) - 1
      /\ \A j \in 1 .. Len(Tail(items)) : Tail(items)[j] = items[j + 1]
    BY HeadTailProperties
<1>4. k - 1 \in DOMAIN Tail(items) /\ Tail(items)[k - 1] = items[k]
    BY <1>2, <1>3
<1> QED BY <1>1, <1>4 DEF Awaited

(* An item is read, and others put in its place.                           *)
LEMMA ItemRead ==
    ASSUME Typed, NEW what, Reading(what), what # "answered", NEW items \in Seq(Items), Then(items),
           UNCHANGED <<script, ran, in_retval>>, pos' \in pos .. Len(bytes), status' \in Statuses,
           depth' \in Depths, big_num' \in 0 .. 64
    PROVE  Typed'
<1>1. status = "read" /\ todo # <<>> /\ Head(todo).what = what
    BY DEF Reading
<1>2. todo' \in Seq(Items) /\ Tail(todo) \in Seq(Items) /\ todo \in Seq(Items)
  <2>1. todo \in Seq(Items)
      BY DEF Typed
  <2> QED BY <1>1, <2>1, PutsItems, HeadTailProperties
<1>3. ASSUME in_retval = 1 PROVE Awaited(todo')
  <2>1. Awaited(todo)
      BY <1>1, <1>3 DEF Typed
  <2>2. Awaited(Tail(todo))
      BY <1>1, <1>2, <2>1, TailAwaits
  <2> QED BY <1>2, <2>2, AwaitedStays DEF Then
<1>4. in_retval \in {0, 1}
    BY ReadingFacts
<1>5. Keeps
    BY <1>2, <1>3, <1>4 DEF Keeps
<1> QED BY <1>1, <1>5, KeepsTyped

(* No action leaves the types.                                             *)
LEMMA immediateTyped ==
    ASSUME Typed, immediate
    PROVE  Typed'
<1>1. Reading("number") /\ "number" # "answered"
    BY DEF immediate
<1>2. Fetch(2, "read") /\ Then(More(Now)) /\ UNCHANGED <<depth, in_retval, big_num, script, ran>>
    BY DEF immediate, NumberKeeps, Same
<1>3. pos' \in pos .. Len(bytes) /\ status' \in Statuses
    BY <1>1, <1>2, ReadingFacts, Fetching DEF Statuses
<1>4. More(Now) \in Seq(Items)
    BY <1>1, ReadingFacts, MoreItems
<1>5. depth' \in Depths /\ big_num' \in 0 .. 64
    BY <1>1, <1>2, ReadingFacts
<1> QED BY <1>1, <1>2, <1>3, <1>4, <1>5, ItemRead

LEMMA SingleItems ==
    /\ <<Item("text", 0)>> \in Seq(Items)
    /\ <<Item("answered", 0)>> \in Seq(Items)
    /\ <<Item("field", 0)>> \in Seq(Items)
    /\ <<Item("more fields", 0)>> \in Seq(Items)
<1>1. /\ Item("text", 0) \in Items /\ Item("answered", 0) \in Items /\ Item("field", 0) \in Items
      /\ Item("more fields", 0) \in Items
    BY DEF Item, Items, Whats
<1> QED BY <1>1, OneIsSeq

LEMMA MenuItem == \A n \in Int : <<Item("menu", n)>> \in Seq(Items)
<1> TAKE n \in Int
<1>1. Item("menu", n) \in Items
    BY DEF Item, Items, Whats
<1> QED BY <1>1, OneIsSeq

LEMMA variableTyped ==
    ASSUME Typed, variable
    PROVE  Typed'
<1>1. Reading("number") /\ "number" # "answered"
    BY DEF variable
<1>2. /\ Fetch(IF Wide THEN 3 ELSE 2, "read") /\ Then(More(Now)) /\ UNCHANGED <<depth, in_retval, script, ran>>
      /\ big_num' = Cop - 128 /\ Cop - 128 \in SimpleTypes
    BY DEF variable, NumberKeeps, Same
<1>3. pos' \in pos .. Len(bytes) /\ status' \in Statuses
  <2>1. (IF Wide THEN 3 ELSE 2) \in Nat
      OBVIOUS
  <2> QED BY <1>1, <1>2, <2>1, ReadingFacts, Fetching DEF Statuses
<1>4. More(Now) \in Seq(Items)
    BY <1>1, ReadingFacts, MoreItems
<1>5. depth' \in Depths /\ big_num' \in 0 .. 64
    BY <1>1, <1>2, ReadingFacts DEF SimpleTypes
<1> QED BY <1>1, <1>2, <1>3, <1>4, <1>5, ItemRead

LEMMA constantTyped ==
    ASSUME Typed, constant
    PROVE  Typed'
<1>1. Reading("number") /\ "number" # "answered"
    BY DEF constant
<1>2. /\ \E k \in {2, 3, 5} : Fetch(k, "read")
      /\ Then(More(Now)) /\ UNCHANGED <<depth, in_retval, script, ran>> /\ big_num' = BigNum
    BY DEF constant, NumberKeeps, Same
<1>3. pos' \in pos .. Len(bytes) /\ status' \in Statuses
    BY <1>1, <1>2, ReadingFacts, Fetching DEF Statuses
<1>4. More(Now) \in Seq(Items)
    BY <1>1, ReadingFacts, MoreItems
<1>5. depth' \in Depths /\ big_num' \in 0 .. 64
    BY <1>1, <1>2, ReadingFacts, BigNumInRange
<1> QED BY <1>1, <1>2, <1>3, <1>4, <1>5, ItemRead

LEMMA compoundTyped ==
    ASSUME Typed, compound
    PROVE  Typed'
<1>1. Reading("number") /\ "number" # "answered"
    BY DEF compound
<1>2. /\ Fetch(1, "read")
      /\ \/ Then(<<Item("text", 0)>> \o More(Now)) \/ Then(Complex(Read) \o More(Now))
      /\ UNCHANGED <<depth, in_retval, script, ran>> /\ big_num' = BigNum
    BY DEF compound, NumberKeeps, Same
<1>3. pos' \in pos .. Len(bytes) /\ status' \in Statuses
    BY <1>1, <1>2, ReadingFacts, Fetching DEF Statuses
<1>4. <<Item("text", 0)>> \o More(Now) \in Seq(Items) /\ Complex(Read) \o More(Now) \in Seq(Items)
  <2>1. More(Now) \in Seq(Items)
      BY <1>1, ReadingFacts, MoreItems
  <2>2. <<Item("text", 0)>> \in Seq(Items)
      BY SingleItems
  <2>3. Complex(Read) \in Seq(Items)
      BY ItemsRead
  <2> QED BY <2>1, <2>2, <2>3, InTurnRead
<1>5. depth' \in Depths /\ big_num' \in 0 .. 64
    BY <1>1, <1>2, ReadingFacts, BigNumInRange
<1> QED BY <1>1, <1>2, <1>3, <1>4, <1>5, ItemRead

(* The commands that may answer are among those the table knows.           *)
LEMMA AnsweringKnown == \A b \in Answering : b \in Commands /\ Handler(b) # "unknown"
    BY DEF Answering, Commands, Handler, gpl_commands

LEMMA HandlerReads ==
    ASSUME NEW b \in Commands, Handler(b) # "unknown"
    PROVE  Handlers[Handler(b)] \in Seq(Items)
<1>1. Handler(b) \in DOMAIN Handlers
    BY HandlerKnown
<1> QED BY <1>1, HandlersRead

LEMMA retvalTyped ==
    ASSUME Typed, retval
    PROVE  Typed'
<1>1. Reading("number")
    BY DEF retval, Retval
<1>2. /\ Fetch(2, IF There(1) \in Answering THEN "read" ELSE "exited")
      /\ UNCHANGED <<depth, script, ran>> /\ big_num' = BigNum /\ in_retval' = 1
    BY DEF retval, Retval, Same
<1>3. /\ pos' \in pos .. Len(bytes) /\ status' \in Statuses
      /\ There(1) \notin Answering => status' # "read"
    BY <1>1, <1>2, ReadingFacts, Fetching DEF Statuses
<1>4. depth' \in Depths /\ big_num' \in 0 .. 64
    BY <1>1, <1>2, ReadingFacts, BigNumInRange
<1>5. CASE There(1) \in Answering
  <2> DEFINE items == Handlers[Handler(There(1))] \o <<Item("answered", 0)>> \o More(Now)
  <2>1. Then(items)
      BY <1>5 DEF retval, Retval
  <2>2. /\ More(Now) \in Seq(Items) /\ Handlers[Handler(There(1))] \in Seq(Items)
        /\ <<Item("answered", 0)>> \in Seq(Items)
    <3>1. More(Now) \in Seq(Items)
        BY <1>1, ReadingFacts, MoreItems
    <3>2. Handlers[Handler(There(1))] \in Seq(Items)
        BY <1>5, AnsweringKnown, HandlerReads
    <3> QED BY <3>1, <3>2, SingleItems
  <2>3. Handlers[Handler(There(1))] \o <<Item("answered", 0)>> \in Seq(Items) /\ items \in Seq(Items)
      BY <2>2, InTurnRead
  <2>4. Awaited(items)
    <3>1. Awaited(<<Item("answered", 0)>>)
      <4>1. 1 \in DOMAIN <<Item("answered", 0)>> /\ <<Item("answered", 0)>>[1].what = "answered"
          BY DEF Item
      <4> QED BY <4>1 DEF Awaited
    <3>2. Awaited(Handlers[Handler(There(1))] \o <<Item("answered", 0)>>)
        BY <2>2, <3>1, AwaitedStays
    <3> QED BY <2>2, <2>3, <3>2, AwaitedStays
  <2> HIDE DEF items
  <2>5. todo' \in Seq(Items) /\ Awaited(todo')
    <3>1. Tail(todo) \in Seq(Items)
        BY <1>1, ReadingFacts
    <3>2. todo' = items \o Tail(todo)
        BY <2>1 DEF Then
    <3>3. Awaited(items \o Tail(todo))
        BY <2>3, <2>4, <3>1, AwaitedStays
    <3>4. items \o Tail(todo) \in Seq(Items)
        BY <2>3, <3>1, InTurnRead
    <3> QED BY <3>2, <3>3, <3>4
  <2>6. Keeps
      BY <1>2, <1>3, <1>4, <2>5 DEF Keeps
  <2> QED BY <1>1, <2>6, KeepsTyped, ReadingFacts
<1>6. CASE There(1) \notin Answering
  <2>1. todo' = todo
      BY <1>6 DEF retval, Retval
  <2>2. todo \in Seq(Items)
      BY DEF Typed
  <2>3. Keeps
      BY <1>2, <1>3, <1>4, <1>6, <2>1, <2>2 DEF Keeps
  <2> QED BY <1>1, <2>3, KeepsTyped, ReadingFacts
<1> QED BY <1>5, <1>6

LEMMA answeredTyped ==
    ASSUME Typed, answered
    PROVE  Typed'
<1>1. Reading("answered")
    BY DEF answered
<1>2. Then(<<>>) /\ UNCHANGED <<pos, status, depth, big_num, script, ran>> /\ in_retval' = 0
    BY DEF answered, Same
<1>3. todo' \in Seq(Items)
    BY <1>1, <1>2, ReadingFacts, PutsItems, EmptyIsSeq
<1>4. Keeps
    BY <1>1, <1>2, <1>3, ReadingFacts DEF Keeps
<1> QED BY <1>1, <1>4, KeepsTyped, ReadingFacts

LEMMA operatorTyped ==
    ASSUME Typed, operator
    PROVE  Typed'
<1>1. Reading("number") /\ "number" # "answered"
    BY DEF operator
<1>2. Fetch(1, "read") /\ Then(Again(Now)) /\ UNCHANGED <<depth, in_retval, big_num, script, ran>>
    BY DEF operator, NumberKeeps, Same
<1>3. pos' \in pos .. Len(bytes) /\ status' \in Statuses
    BY <1>1, <1>2, ReadingFacts, Fetching DEF Statuses
<1>4. Again(Now) \in Seq(Items)
    BY <1>1, ReadingFacts, MoreItems
<1>5. depth' \in Depths /\ big_num' \in 0 .. 64
    BY <1>1, <1>2, ReadingFacts
<1> QED BY <1>1, <1>2, <1>3, <1>4, <1>5, ItemRead

LEMMA parenTyped ==
    ASSUME Typed, paren
    PROVE  Typed'
<1>1. Reading("number") /\ "number" # "answered"
    BY DEF paren
<1>2. /\ Fetch(1, "read") /\ UNCHANGED <<depth, in_retval, big_num, script, ran>>
      /\ Then(Again(Now + 1)) \/ Then(More(Now - 1))
    BY DEF paren, NumberKeeps, Same
<1>3. pos' \in pos .. Len(bytes) /\ status' \in Statuses
    BY <1>1, <1>2, ReadingFacts, Fetching DEF Statuses
<1>4. Again(Now + 1) \in Seq(Items) /\ More(Now - 1) \in Seq(Items)
  <2>1. Now + 1 \in Int /\ Now - 1 \in Int
      BY <1>1, ReadingFacts
  <2> QED BY <2>1, MoreItems
<1>5. depth' \in Depths /\ big_num' \in 0 .. 64
    BY <1>1, <1>2, ReadingFacts
<1> QED BY <1>1, <1>2, <1>3, <1>4, <1>5, ItemRead

LEMMA no_numberTyped ==
    ASSUME Typed, no_number
    PROVE  Typed'
<1>1. Reading("number")
    BY DEF no_number
<1>2. /\ \E k \in {1, 17} : Fetch(k, "exited")
      /\ UNCHANGED <<todo, depth, in_retval, script, ran>> /\ big_num' = BigNum
    BY DEF no_number, NumberKeeps, Same
<1>3. pos' \in pos .. Len(bytes) /\ status' \in {"exited", "behind"}
    BY <1>1, <1>2, ReadingFacts, Fetching
<1>4. todo \in Seq(Items)
    BY DEF Typed
<1>5. depth' \in Depths /\ in_retval' \in {0, 1} /\ big_num' \in 0 .. 64
    BY <1>1, <1>2, ReadingFacts, BigNumInRange
<1>6. Keeps
    BY <1>2, <1>3, <1>4, <1>5 DEF Keeps, Statuses
<1> QED BY <1>1, <1>6, KeepsTyped, ReadingFacts

LEMMA nextTyped ==
    ASSUME Typed, next
    PROVE  Typed'
<1>1. Reading("next") /\ "next" # "answered"
    BY DEF next
<1>2. /\ UNCHANGED <<pos, status, depth, in_retval, big_num, script, ran>>
      /\ Then(Again(Now)) \/ Then(<<>>)
    BY DEF next, NumberKeeps, Same
<1>3. Again(Now) \in Seq(Items) /\ <<>> \in Seq(Items)
    BY <1>1, ReadingFacts, MoreItems, EmptyIsSeq
<1> QED BY <1>1, <1>2, <1>3, ReadingFacts, ItemRead

LEMMA complexTyped ==
    ASSUME Typed, complex
    PROVE  Typed'
<1>1. Reading("complex") /\ "complex" # "answered"
    BY DEF complex
<1>2. /\ Then(<<>>) /\ UNCHANGED <<depth, in_retval, big_num, script, ran>>
      /\ \E then \in {"read", "crashed"} : Fetch(3 + There(2), then) \/ Fetch(2, then)
    BY DEF complex, Same
<1>3. pos' \in pos .. Len(bytes) /\ status' \in Statuses
  <2>1. 3 + There(2) \in Nat
    <3>1. There(2) \in Byte
        BY ThereIsByte
    <3> QED BY <3>1 DEF Byte
  <2> QED BY <1>1, <1>2, <2>1, ReadingFacts, Fetching DEF Statuses
<1> QED BY <1>1, <1>2, <1>3, ReadingFacts, EmptyIsSeq, ItemRead

LEMMA textTyped ==
    ASSUME Typed, text
    PROVE  Typed'
<1>1. Reading("text") /\ "text" # "answered"
    BY DEF text
<1>2. /\ Then(<<>>) /\ UNCHANGED <<depth, in_retval, big_num, script, ran>>
      /\ \E then \in {"read", "crashed"} :
            Fetch(0, then) \/ Fetch(1, then) \/ Fetch(1 + BytesTaken(bytes, pos + 1), then)
    BY DEF text, Same
<1>3. pos' \in pos .. Len(bytes) /\ status' \in Statuses
  <2>1. 1 + BytesTaken(bytes, pos + 1) \in Nat
      BY BytesTakenIsNumber
  <2> QED BY <1>1, <1>2, <2>1, ReadingFacts, Fetching DEF Statuses
<1> QED BY <1>1, <1>2, <1>3, ReadingFacts, EmptyIsSeq, ItemRead

LEMMA freeTyped ==
    ASSUME Typed, free
    PROVE  Typed'
<1>1. Reading("free") /\ "free" # "answered"
    BY DEF free
<1>2. /\ Then(<<>>) /\ UNCHANGED <<pos, depth, in_retval, big_num, script, ran>>
      /\ status' \in {"read", "crashed"}
    BY DEF free, Same
<1> QED BY <1>1, <1>2, ReadingFacts, EmptyIsSeq, ItemRead DEF Statuses

LEMMA load_variableTyped ==
    ASSUME Typed, load_variable
    PROVE  Typed'
<1>1. Reading("variable") /\ "variable" # "answered"
    BY DEF load_variable
<1>2. /\ Then(<<>>) \/ Then(Complex(Write))
      /\ UNCHANGED <<depth, in_retval, big_num, script, ran>>
      /\ \E k \in {1, 2, 3} : \E then \in {"read", "crashed"} : Fetch(k, then)
    BY DEF load_variable, Same
<1>3. pos' \in pos .. Len(bytes) /\ status' \in Statuses
    BY <1>1, <1>2, ReadingFacts, Fetching DEF Statuses
<1>4. Complex(Write) \in Seq(Items)
    BY ItemsRead
<1> QED BY <1>1, <1>2, <1>3, <1>4, ReadingFacts, EmptyIsSeq, ItemRead

LEMMA boundsTyped ==
    ASSUME Typed, bounds
    PROVE  Typed'
<1>1. Reading("bounds") /\ "bounds" # "answered"
    BY DEF bounds
<1>2. Fetch(2, "read") /\ Then(<<>>) /\ UNCHANGED <<depth, in_retval, big_num, script, ran>>
    BY DEF bounds, Same
<1>3. pos' \in pos .. Len(bytes) /\ status' \in Statuses
    BY <1>1, <1>2, ReadingFacts, Fetching DEF Statuses
<1> QED BY <1>1, <1>2, <1>3, ReadingFacts, EmptyIsSeq, ItemRead

LEMMA fieldTyped ==
    ASSUME Typed, field
    PROVE  Typed'
<1>1. Reading("field") /\ "field" # "answered"
    BY DEF field
<1>2. /\ \E k \in {2, 3} : Fetch(k, "read")
      /\ Then(Again(0) \o <<Item("more fields", 0)>>) \/ Then(<<>> \o <<Item("more fields", 0)>>)
      /\ UNCHANGED <<depth, in_retval, big_num, script, ran>>
  <2> DEFINE at == IF There(0) = SEARCH_QUAL THEN 1 ELSE 0
             numbers == IF There(at + 1) \in {4, 5} THEN Again(0) ELSE <<>>
  <2>1. /\ Fetch(at + 2, "read") /\ Then(numbers \o <<Item("more fields", 0)>>)
        /\ UNCHANGED <<depth, in_retval, big_num, script, ran>>
      BY DEF field, Same
  <2>2. at + 2 \in {2, 3} /\ numbers \in {Again(0), <<>>}
      OBVIOUS
  <2> HIDE DEF at, numbers
  <2> QED BY <2>1, <2>2
<1>3. pos' \in pos .. Len(bytes) /\ status' \in Statuses
    BY <1>1, <1>2, ReadingFacts, Fetching DEF Statuses
<1>4. /\ Again(0) \o <<Item("more fields", 0)>> \in Seq(Items)
      /\ <<>> \o <<Item("more fields", 0)>> \in Seq(Items)
  <2>1. Again(0) \in Seq(Items)
      BY MoreItems
  <2>2. <<Item("more fields", 0)>> \in Seq(Items)
      BY SingleItems
  <2> QED BY <2>1, <2>2, InTurnRead, EmptyIsSeq
<1> QED BY <1>1, <1>2, <1>3, <1>4, ReadingFacts, ItemRead

LEMMA more_fieldsTyped ==
    ASSUME Typed, more_fields
    PROVE  Typed'
<1>1. Reading("more fields") /\ "more fields" # "answered"
    BY DEF more_fields
<1>2. /\ Then(<<Item("field", 0)>>) \/ Then(<<>>)
      /\ UNCHANGED <<pos, status, depth, in_retval, big_num, script, ran>>
    BY DEF more_fields, Same
<1>3. <<Item("field", 0)>> \in Seq(Items)
    BY SingleItems
<1> QED BY <1>1, <1>2, <1>3, ReadingFacts, EmptyIsSeq, ItemRead

LEMMA menu_entryTyped ==
    ASSUME Typed, menu_entry
    PROVE  Typed'
<1>1. Reading("menu") /\ "menu" # "answered"
    BY DEF menu_entry
<1>2. /\ Then(get_parameters(3) \o <<Item("menu", Now + 1)>>)
      /\ UNCHANGED <<pos, status, depth, in_retval, big_num, script, ran>>
    BY DEF menu_entry, Same
<1>3. get_parameters(3) \o <<Item("menu", Now + 1)>> \in Seq(Items)
  <2>1. Now + 1 \in Int
      BY <1>1, ReadingFacts
  <2>2. <<Item("menu", Now + 1)>> \in Seq(Items) /\ get_parameters(3) \in Seq(Items)
      BY <2>1, MenuItem, GetParametersRead
  <2> QED BY <2>2, InTurnRead
<1> QED BY <1>1, <1>2, <1>3, ReadingFacts, ItemRead

LEMMA menu_endTyped ==
    ASSUME Typed, menu_end
    PROVE  Typed'
<1>1. Reading("menu") /\ "menu" # "answered"
    BY DEF menu_end
<1>2. Fetch(1, "read") /\ Then(<<>>) /\ UNCHANGED <<depth, in_retval, big_num, script, ran>>
    BY DEF menu_end, Same
<1>3. pos' \in pos .. Len(bytes) /\ status' \in Statuses
    BY <1>1, <1>2, ReadingFacts, Fetching DEF Statuses
<1> QED BY <1>1, <1>2, <1>3, ReadingFacts, EmptyIsSeq, ItemRead

LEMMA nestTyped ==
    ASSUME Typed, nest
    PROVE  Typed'
<1>1. PICK what \in {"deeper", "shallower"} : Reading(what)
    BY DEF nest
<1>2. /\ Then(<<>>) /\ UNCHANGED <<pos, status, in_retval, big_num, script, ran>>
      /\ depth' = (depth + 1) % 2^16 \/ depth' = (depth - 1) % 2^16
    BY DEF nest, Same
<1>3. depth' \in Depths
  <2>1. depth \in Depths
      BY <1>1, ReadingFacts
  <2> QED BY <1>2, <2>1 DEF Depths
<1>4. what # "answered"
    BY <1>1
<1> QED BY <1>1, <1>2, <1>3, <1>4, ReadingFacts, EmptyIsSeq, ItemRead

LEMMA stopTyped ==
    ASSUME Typed, stop
    PROVE  Typed'
<1>0. Len(bytes) \in Nat
    BY ScriptFacts1
<1>1. /\ status = "read" /\ status' \in {"done", "over"} /\ pos' = pos + 1
      /\ UNCHANGED <<todo, depth, in_retval, big_num, script, ran>>
    BY DEF stop, Stop, Same
<1>2. bytes' = bytes
    BY <1>1 DEF bytes
<1>3. pos \in Nat /\ pos <= Len(bytes) /\ ran \in 0 .. Len(bytes) /\ ran <= pos
    BY <1>0, <1>1 DEF Typed, TypeOK
<1>4. TypeOK'
  <2>1. pos' \in 0 .. Len(bytes) + 1
      BY <1>0, <1>1, <1>3
  <2> QED BY <1>1, <1>2, <2>1 DEF Typed, TypeOK
<1>5. ran' <= pos'
    BY <1>0, <1>1, <1>3
<1> QED BY <1>1, <1>4, <1>5 DEF Typed

LEMMA commandTyped ==
    ASSUME Typed, command
    PROVE  Typed'
<1>0. Len(bytes) \in Nat
    BY ScriptFacts1
<1>1. /\ status = "read" /\ todo = <<>> /\ pos + 1 < Len(bytes) /\ pos' = pos + 1 /\ ran' = ran + 1
      /\ UNCHANGED <<script, depth, in_retval, big_num>> /\ status' \in {"read", "failed", "crashed"}
    BY DEF command
<1>2. bytes' = bytes
    BY <1>1 DEF bytes
<1>3. pos \in Nat /\ pos <= Len(bytes) /\ ran \in 0 .. Len(bytes) /\ ran <= pos
    BY <1>0, <1>1 DEF Typed, TypeOK
<1>4. todo' \in Seq(Items)
  <2>1. \/ UNCHANGED todo
        \/ There(0) \in Commands /\ Handler(There(0)) # "unknown" /\ todo' = Handlers[Handler(There(0))]
      BY DEF command
  <2>2. todo \in Seq(Items)
      BY DEF Typed
  <2> QED BY <2>1, <2>2, HandlerReads
<1>5. ran' \in 0 .. Len(bytes) /\ pos' \in 0 .. Len(bytes) + 1 /\ ran' <= pos' /\ pos' <= Len(bytes)
    BY <1>0, <1>1, <1>3
<1>6. in_retval' # 1
  <2>1. ~Awaited(todo)
      BY <1>1 DEF Awaited
  <2> QED BY <1>1, <2>1 DEF Typed
<1>7. \A k \in DOMAIN todo' : todo'[k].n \in Int
  <2>1. \A k \in DOMAIN todo' : todo'[k] \in Items
      BY <1>4
  <2> QED BY <2>1 DEF Items
<1>8. depth \in Depths /\ in_retval \in {0, 1} /\ big_num \in 0 .. 64 /\ script \in Scripts
    BY DEF Typed, TypeOK
<1>9. TypeOK'
    BY <1>1, <1>2, <1>5, <1>7, <1>8 DEF TypeOK
<1> QED BY <1>1, <1>2, <1>4, <1>5, <1>6, <1>8, <1>9 DEF Typed

LEMMA InitTyped == Init => Typed
<1> SUFFICES ASSUME Init PROVE Typed
    OBVIOUS
<1>1. script \in Scripts
    BY DEF Init
<1>2. Len(bytes) \in Nat
    BY <1>1, ScriptsAssumption DEF WellFormed, bytes
<1>3. TypeOK
    BY <1>2 DEF Init, TypeOK, Depths
<1> QED BY <1>1, <1>2, <1>3, EmptyIsSeq DEF Init, Typed

LEMMA StepTyped == Typed /\ [Next]_vars => Typed'
<1> SUFFICES ASSUME Typed, [Next]_vars PROVE Typed'
    OBVIOUS
<1>1. CASE Next
    BY <1>1, commandTyped, stopTyped, immediateTyped, variableTyped, constantTyped, compoundTyped,
       retvalTyped, answeredTyped, operatorTyped, parenTyped, no_numberTyped, nextTyped,
       complexTyped, textTyped, freeTyped, load_variableTyped, boundsTyped, fieldTyped,
       more_fieldsTyped, menu_entryTyped, menu_endTyped, nestTyped DEF Next
<1>2. CASE UNCHANGED vars
    BY <1>2 DEF vars, Typed, TypeOK, bytes
<1> QED BY <1>1, <1>2

------------------------------------------------------------------------------
(* Pieces that are printed, and places that are reached. *)

LEMMA SeqIsSeq ==
    ASSUME NEW S, NEW q \in Seq(S)
    PROVE  IsSeq(q)
<1>1. Len(q) \in Nat /\ DOMAIN q = 1 .. Len(q) /\ q = [k \in 1 .. Len(q) |-> q[k]]
    OBVIOUS
<1>2. [k \in 1 .. Len(q) |-> q[k]] \in Seq({q[k] : k \in DOMAIN q})
    BY <1>1
<1> QED BY <1>1, <1>2 DEF IsSeq

LEMMA PiecesAreSeq ==
    /\ IsSeq(<<>>)
    /\ \A e : IsSeq(<<e>>)
    /\ \A e, f : IsSeq(<<e, f>>)
<1>1. <<>> \in Seq({})
    OBVIOUS
<1>2. ASSUME NEW e PROVE IsSeq(<<e>>)
  <2>1. <<e>> \in Seq({e})
      BY OneIsSeq
  <2> QED BY <2>1, SeqIsSeq
<1>3. ASSUME NEW e, NEW f PROVE IsSeq(<<e, f>>)
  <2>1. e \in {e, f} /\ f \in {e, f}
      OBVIOUS
  <2>2. <<e, f>> \in Seq({e, f})
      BY <2>1, TwoIsSeq
  <2> QED BY <2>2, SeqIsSeq
<1>4. IsSeq(<<>>)
    BY <1>1, SeqIsSeq
<1> QED BY <1>2, <1>3, <1>4

LEMMA Joined ==
    ASSUME NEW p, IsSeq(p), NEW q, IsSeq(q)
    PROVE  /\ IsSeq(p \o q) /\ Len(p \o q) = Len(p) + Len(q)
           /\ \A k \in 1 .. Len(p) + Len(q) : (p \o q)[k] = IF k <= Len(p) THEN p[k] ELSE q[k - Len(p)]
<1> DEFINE S == {p[k] : k \in DOMAIN p} \cup {q[k] : k \in DOMAIN q}
<1>1. p \in Seq(S) /\ q \in Seq(S)
  <2>1. /\ Len(p) \in Nat /\ DOMAIN p = 1 .. Len(p) /\ p = [k \in 1 .. Len(p) |-> p[k]]
        /\ Len(q) \in Nat /\ DOMAIN q = 1 .. Len(q) /\ q = [k \in 1 .. Len(q) |-> q[k]]
      BY DEF IsSeq
  <2>2. [k \in 1 .. Len(p) |-> p[k]] \in Seq(S) /\ [k \in 1 .. Len(q) |-> q[k]] \in Seq(S)
      BY <2>1
  <2> QED BY <2>1, <2>2
<1> HIDE DEF S
<1>2. p \o q \in Seq(S)
    BY <1>1
<1>3. IsSeq(p \o q)
    BY <1>2, SeqIsSeq
<1> QED BY <1>1, <1>3, ConcatProperties

LEMMA OnePieceMore ==
    ASSUME NEW p, IsSeq(p)
    PROVE  (\A e : Append(p, e) = p \o <<e>>) /\ p \o <<>> = p
<1>1. ASSUME NEW e PROVE Append(p, e) = p \o <<e>>
  <2> DEFINE S == {p[k] : k \in DOMAIN p} \cup {e}
  <2>1. Len(p) \in Nat /\ DOMAIN p = 1 .. Len(p) /\ p = [k \in 1 .. Len(p) |-> p[k]]
      BY DEF IsSeq
  <2>2. [k \in 1 .. Len(p) |-> p[k]] \in Seq(S)
      BY <2>1
  <2>3. p \in Seq(S) /\ e \in S
      BY <2>1, <2>2
  <2> HIDE DEF S
  <2> QED BY <2>3
<1>2. p \o <<>> = p
    BY DEF IsSeq
<1> QED BY <1>1, <1>2

LEMMA PlaceIs ==
    ASSUME NEW s, NEW a \in Places(s)
    PROVE  /\ a = [at |-> a.at, said |-> a.said, depth |-> a.depth]
           /\ a.at \in 0 .. Len(s.bytes) /\ a.said \in 0 .. Len(s.says) /\ a.depth \in Depths
    BY DEF Places

LEMMA PastIs ==
    ASSUME NEW s, NEW a \in Places(s), NEW n, NEW pieces
    PROVE  /\ Past(a, n, pieces) = [at |-> a.at + n, said |-> a.said + pieces, depth |-> a.depth]
           /\ Past(a, n, pieces).at = a.at + n /\ Past(a, n, pieces).said = a.said + pieces
           /\ Past(a, n, pieces).depth = a.depth
    BY DEF Past

LEMMA NestedIs ==
    ASSUME NEW s, NEW a \in Places(s), NEW by
    PROVE  Nested(a, by) = [at |-> a.at, said |-> a.said, depth |-> (a.depth + by) % 2^16]
    BY DEF Nested

(* Once a number of bytes has been fetched and these pieces printed, the   *)
(* reader is at the place behind them.                                     *)
LEMMA PlaceRead ==
    ASSUME Typed, InStep, status = "read", NEW n \in Nat, NEW pieces, IsSeq(pieces),
           Past(Here, n, Len(pieces)) \in Places(script), Printed(script, Here, pieces),
           out' = out \o pieces, Fetch(n, "read"), UNCHANGED <<script, depth>>
    PROVE  /\ Here' = Past(Here, n, Len(pieces)) /\ Here' \in Places(script)
           /\ SaysAsWritten' /\ status' = "read"
<1>1. Here \in Places(script) /\ IsSeq(out) /\ Len(out) <= Len(script.says)
    BY DEF InStep, SaysAsWritten
<1>0. Len(pieces) \in Nat
    BY SeqFacts
<1>2. Past(Here, n, Len(pieces)) = [at |-> pos + n, said |-> Len(out) + Len(pieces), depth |-> depth]
  <2>1. Here.at = pos /\ Here.said = Len(out) /\ Here.depth = depth
      BY DEF Here
  <2> QED BY <2>1 DEF Past
<1>3. pos + n \in 0 .. Len(bytes) /\ Len(out) + Len(pieces) \in 0 .. Len(script.says)
  <2>1. /\ Past(Here, n, Len(pieces)).at \in 0 .. Len(script.bytes)
        /\ Past(Here, n, Len(pieces)).said \in 0 .. Len(script.says)
      BY PlaceIs
  <2>2. /\ Past(Here, n, Len(pieces)).at = pos + n
        /\ Past(Here, n, Len(pieces)).said = Len(out) + Len(pieces)
      BY <1>2
  <2> QED BY <2>1, <2>2 DEF bytes
<1>4. pos' = pos + n /\ status' = "read"
  <2>1. pos + n <= Len(bytes)
    <3>1. Len(bytes) \in Nat
        BY ScriptFacts1
    <3> QED BY <1>3, <3>1
  <2> QED BY <2>1, Fetching
<1>5. /\ IsSeq(out') /\ Len(out') = Len(out) + Len(pieces)
      /\ \A k \in 1 .. Len(out) + Len(pieces) : out'[k] = IF k <= Len(out) THEN out[k] ELSE pieces[k - Len(out)]
    BY <1>1, Joined
<1>6. Here' = Past(Here, n, Len(pieces))
    BY <1>2, <1>4, <1>5 DEF Here
<1>7. ASSUME NEW k \in 1 .. Len(out')
      PROVE  out'[k] = script.says[k]
  <2>0. Len(out) \in Nat /\ Len(pieces) \in Nat /\ DOMAIN pieces = 1 .. Len(pieces)
      BY <1>1, SeqFacts
  <2>1. CASE k <= Len(out)
    <3>1. k \in 1 .. Len(out) /\ out'[k] = out[k]
        BY <1>5, <2>0, <2>1
    <3> QED BY <3>1 DEF InStep, SaysAsWritten
  <2>2. CASE ~(k <= Len(out))
    <3>1. k - Len(out) \in DOMAIN pieces /\ out'[k] = pieces[k - Len(out)] /\ Len(out) + (k - Len(out)) = k
        BY <1>5, <2>0, <2>2
    <3>2. Here.said = Len(out)
        BY DEF Here
    <3> QED BY <3>1, <3>2 DEF Printed
  <2> QED BY <2>1, <2>2
<1>8. SaysAsWritten'
    BY <1>3, <1>5, <1>7 DEF SaysAsWritten
<1> QED BY <1>4, <1>6, <1>8

(* A phrase without parts is read.                                         *)
LEMMA LeafRead ==
    ASSUME Typed, InStep, status = "read", NEW p \in script.phrases, p.from = Here,
           NEW n \in Nat, NEW pieces, IsSeq(pieces), Leaf(script, p, n, pieces),
           out' = out \o pieces, Fetch(n, "read"), UNCHANGED <<script, depth>>
    PROVE  Here' = p.to /\ Here' \in Places(script) /\ SaysAsWritten' /\ status' = "read"
<1>1. p.to \in Places(script)
    BY PhraseFacts
<1>2. Past(Here, n, Len(pieces)) = p.to /\ Printed(script, Here, pieces)
    BY DEF Leaf
<1> QED BY <1>1, <1>2, PlaceRead

(* Where the parts of a phrase begin is a place of the script.             *)
LEMMA BranchStart ==
    ASSUME Typed, NEW p \in script.phrases, NEW n, NEW pieces, NEW b \in Places(script),
           Branch(script, p, n, pieces, b)
    PROVE  Past(p.from, n, Len(pieces)) \in Places(script)
<1>1. InTurn(p.parts, Past(p.from, n, Len(pieces)), b)
    BY DEF Branch
<1>2. CASE p.parts = <<>>
    BY <1>1, <1>2 DEF InTurn
<1>3. CASE p.parts # <<>>
  <2>1. p.parts[1].from = Past(p.from, n, Len(pieces))
      BY <1>1, <1>3 DEF InTurn
  <2>2. 1 \in DOMAIN p.parts /\ p.parts[1] \in script.phrases
      BY <1>3, PhraseFacts, SeqFacts
  <2> QED BY <2>1, <2>2, PhraseFacts
<1> QED BY <1>2, <1>3

(* Where the parameters of a command that answers end.                     *)
LEMMA AnswerEnd ==
    ASSUME Typed, NEW a \in Places(script), a.said > 0
    PROVE  Past(a, 0, -1) \in Places(script) /\ Past(Past(a, 0, -1), 0, 1) = a
<1>1. PICK x, y, z : a = [at |-> x, said |-> y, depth |-> z]
    BY PlaceIs
<1>2. x \in 0 .. Len(script.bytes) /\ y \in 0 .. Len(script.says) /\ z \in Depths /\ y > 0
    BY <1>1, PlaceIs
<1>3. IsSeq(script.says) /\ Len(script.bytes) \in Nat
    BY ScriptFacts1 DEF bytes
<1>4. Len(script.says) \in Nat
    BY <1>3, SeqFacts
<1>5. x \in Int /\ y \in Int /\ x + 0 = x /\ y + -1 \in 0 .. Len(script.says) /\ (y + -1) + 1 = y
    BY <1>2, <1>3, <1>4
<1>6. Past(a, 0, -1) = [at |-> x, said |-> y + -1, depth |-> z]
    BY <1>1, <1>5 DEF Past
<1>7. Past(Past(a, 0, -1), 0, 1) = [at |-> x, said |-> y, depth |-> z]
    BY <1>5, <1>6 DEF Past
<1> QED BY <1>1, <1>2, <1>5, <1>6, <1>7 DEF Places

(* A phrase is read as far as its first part.                              *)
LEMMA BranchRead ==
    ASSUME Typed, InStep, status = "read", NEW p \in script.phrases, p.from = Here,
           NEW n \in Nat, NEW pieces, IsSeq(pieces), NEW b \in Places(script), Branch(script, p, n, pieces, b),
           out' = out \o pieces, Fetch(n, "read"), UNCHANGED <<script, depth>>
    PROVE  InTurn(p.parts, Here', b) /\ Here' \in Places(script) /\ SaysAsWritten' /\ status' = "read"
<1>1. InTurn(p.parts, Past(Here, n, Len(pieces)), b) /\ Printed(script, Here, pieces)
    BY DEF Branch
<1>2. Past(Here, n, Len(pieces)) \in Places(script)
    BY BranchStart
<1> QED BY <1>1, <1>2, PlaceRead

(* The bytes of the phrase the reader is at.                               *)
LEMMA SameBytes ==
    ASSUME NEW p, p.from = Here
    PROVE  /\ \A k \in Nat : Code(script, p, k) = There(k)
           /\ \A k \in Nat : CodeWord(script, p, k) = Word(k)
<1>1. \A k \in Nat : Code(script, p, k) = There(k)
  <2>1. p.from.at = pos
      BY DEF Here
  <2> QED BY <2>1 DEF Code, There, bytes
<1>2. \A k \in Nat : k + 1 \in Nat
    OBVIOUS
<1> QED BY <1>1, <1>2 DEF CodeWord, Word

(* What is read next leads from here to a place from where the rest leads  *)
(* to the end of the command.                                              *)
LEMMA HeadLeads ==
    ASSUME Typed, InStep, todo # <<>>
    PROVE  \E b \in Places(script) :
              Leads(script, Head(todo), Here, b) /\ Path(script, Tail(todo), b, Reached(ran))
<1>1. todo \in Seq(Items)
    BY DEF Typed
<1>2. Path(script, todo, Here, Reached(ran))
    BY DEF InStep
<1> QED BY <1>1, <1>2, PathTail

(* A step that puts items in the place of the one it read, which lead to   *)
(* where that one led.                                                     *)
LEMMA StepsOn ==
    ASSUME Typed, InStep, todo # <<>>, NEW b, Path(script, Tail(todo), b, Reached(ran)),
           NEW items \in Seq(Items), Then(items), UNCHANGED <<script, ran>>,
           Here' \in Places(script), SaysAsWritten', Path(script, items, Here', b)
    PROVE  InStep'
<1>1. Tail(todo) \in Seq(Items)
    BY HeadTailProperties DEF Typed
<1>2. Path(script, items \o Tail(todo), Here', Reached(ran))
    BY <1>1, PathConcat
<1>3. todo' = items \o Tail(todo) /\ script' = script /\ ran' = ran
    BY DEF Then
<1>4. Reached(ran)' = Reached(ran)
    BY <1>3 DEF Reached
<1>5. Path(script', todo', Here', Reached(ran)')
    BY <1>2, <1>3, <1>4
<1>6. /\ ran <= Len(script.commands)
      /\ ran > 0 => script.commands[ran].from.at + 1 < Len(bytes)
    BY DEF InStep
<1>7. /\ ran' <= Len(script'.commands)
      /\ ran' > 0 => script'.commands[ran'].from.at + 1 < Len(bytes')
    BY <1>3, <1>6 DEF bytes
<1>8. Here' \in Places(script')
    BY <1>3
<1> QED BY <1>5, <1>7, <1>8 DEF InStep

(* A phrase is read as what the command takes.                             *)
LEMMA PhraseLeads ==
    ASSUME Typed, NEW p \in script.phrases, NEW item, p.is = item.what, p.n = item.n, p.is \in Kinds
    PROVE  Leads(script, item, p.from, p.to)
<1>0. /\ IsPhrase(script, p) /\ IsSeq(p.parts)
    BY PhraseFacts
<1>1. CASE p.is \in {"text", "complex", "variable", "bounds", "deeper", "shallower"}
  <2>1. OnePhrase(script, item, p.from, p.to)
      BY DEF OnePhrase
  <2> QED BY <1>1, <2>1 DEF Leads
<1>2. CASE p.is = "number"
  <2>1. p.parts # <<>> /\ p.parts[1].n = 0 /\ p.n = 0 /\ InTurn(p.parts, p.from, p.to)
      BY <1>0, <1>2 DEF IsPhrase, IsNumber
  <2>2. 1 \in DOMAIN p.parts /\ p.parts[1].from = p.from
      BY <1>0, <2>1, SeqFacts DEF InTurn
  <2>3. TokenBegins(script, item.n, p.from, p.to)
      BY <1>2, <2>1, <2>2 DEF TokenBegins
  <2> QED BY <1>2, <2>3 DEF Leads
<1>3. CASE p.is = "field"
  <2>1. p.parts # <<>> /\ InTurn(p.parts, p.from, p.to)
      BY <1>0, <1>3 DEF IsPhrase, IsFields
  <2>2. 1 \in DOMAIN p.parts /\ p.parts[1].from = p.from
      BY <1>0, <2>1, SeqFacts DEF InTurn
  <2>3. FieldBegins(script, p.from, p.to)
      BY <1>3, <2>1, <2>2 DEF FieldBegins
  <2> QED BY <1>3, <2>3 DEF Leads
<1>4. CASE p.is = "menu"
  <2>1. p.n = 0
      BY <1>0, <1>4 DEF IsPhrase
  <2>2. 0 \in 0 .. Len(p.parts)
      BY <1>0, SeqFacts
  <2>3. EntriesDone(script, item.n, p.from, p.to)
      BY <1>4, <2>1, <2>2 DEF EntriesDone
  <2> QED BY <1>4, <2>3 DEF Leads
<1> QED BY <1>1, <1>2, <1>3, <1>4 DEF Kinds

(* What a command takes is read as its handler reads.                      *)
LEMMA TakenLeads ==
    ASSUME Typed, NEW phrases, IsSeq(phrases), \A k \in DOMAIN phrases : phrases[k] \in script.phrases,
           NEW opcode, IsTaken(phrases, opcode), NEW a \in Places(script), NEW b, InTurn(phrases, a, b)
    PROVE  Handlers[Handler(opcode)] \in Seq(Items) /\ Path(script, Handlers[Handler(opcode)], a, b)
<1> DEFINE items == Handlers[Handler(opcode)]
<1>1. /\ opcode \in Commands /\ Handler(opcode) # "unknown" /\ Len(phrases) = Len(items)
      /\ \A k \in DOMAIN phrases :
            phrases[k].is \in Kinds /\ phrases[k].is = items[k].what /\ phrases[k].n = items[k].n
    BY DEF IsTaken
<1>2. items \in Seq(Items)
    BY <1>1, HandlerReads
<1> HIDE DEF items
<1>3. \A k \in DOMAIN phrases :
          phrases[k].to \in Places(script) /\ Leads(script, items[k], phrases[k].from, phrases[k].to)
    BY <1>1, PhraseFacts, PhraseLeads
<1>4. Path(script, items, a, b)
    BY <1>1, <1>2, <1>3, PathOfPhrases
<1> QED BY <1>2, <1>4 DEF items

------------------------------------------------------------------------------
(* Numbers are read as they were written. *)

(* The token the reader is at, in a number that ends at place b.           *)
Ahead(t, b) ==
    /\ t \in script.phrases /\ IsToken(script, t)
    /\ t.from = Here /\ t.n = Now
    /\ IF Completes(t) THEN Leads(script, Item("next", OpenBehind(t)), t.to, b)
       ELSE Leads(script, Item("number", OpenBehind(t)), t.to, b)

LEMMA TokenBehind ==
    ASSUME Typed, NEW p \in script.phrases, p.is = "number", NEW k \in DOMAIN p.parts, NEW t, t = p.parts[k]
    PROVE  /\ t \in script.phrases /\ IsToken(script, t) /\ OpenBehind(t) >= 0
           /\ IF Completes(t) THEN Leads(script, Item("next", OpenBehind(t)), t.to, p.to)
              ELSE Leads(script, Item("number", OpenBehind(t)), t.to, p.to)
<1>1. /\ IsNumber(script, p) /\ IsSeq(p.parts) /\ t \in script.phrases
    BY PhraseFacts DEF IsPhrase
<1>2. Len(p.parts) \in Nat /\ DOMAIN p.parts = 1 .. Len(p.parts)
    BY <1>1, SeqFacts
<1>3. /\ IsToken(script, t) /\ OpenBehind(t) >= 0
      /\ IF k = Len(p.parts) THEN Completes(t) /\ OpenBehind(t) = 0
         ELSE /\ p.parts[k + 1].n = OpenBehind(t)
              /\ Completes(t) <=> p.parts[k + 1].is \in {"operator", "close"}
    BY <1>1 DEF IsNumber
<1>4. ASSUME Completes(t) PROVE Leads(script, Item("next", OpenBehind(t)), t.to, p.to)
  <2>1. TokenEnded(script, OpenBehind(t), t.to, p.to)
      BY <1>4 DEF TokenEnded
  <2> QED BY <2>1 DEF Leads, Item
<1>5. ASSUME ~Completes(t) PROVE Leads(script, Item("number", OpenBehind(t)), t.to, p.to)
  <2>1. k + 1 \in DOMAIN p.parts /\ k \in 1 .. Len(p.parts) - 1 /\ p.parts # <<>>
      BY <1>2, <1>3, <1>5
  <2>2. p.parts[k + 1].n = OpenBehind(t)
      BY <1>2, <1>3, <2>1
  <2>3. p.parts[k + 1].from = t.to
      BY <1>1, <2>1 DEF IsNumber, InTurn
  <2>4. TokenBegins(script, OpenBehind(t), t.to, p.to)
      BY <2>1, <2>2, <2>3 DEF TokenBegins
  <2> QED BY <2>4 DEF Leads, Item
<1> QED BY <1>1, <1>3, <1>4, <1>5

LEMMA NumberAhead ==
    ASSUME Typed, InStep, Reading("number")
    PROVE  \E b \in Places(script) :
              Path(script, Tail(todo), b, Reached(ran)) /\ \E t : Ahead(t, b)
<1>1. todo # <<>> /\ Head(todo).what = "number" /\ Now = Head(todo).n
    BY DEF Reading, Now
<1>2. PICK b \in Places(script) :
          Leads(script, Head(todo), Here, b) /\ Path(script, Tail(todo), b, Reached(ran))
    BY <1>1, HeadLeads
<1>3. TokenBegins(script, Now, Here, b)
    BY <1>1, <1>2 DEF Leads
<1>4. PICK p \in script.phrases : \E k \in DOMAIN p.parts :
          p.is = "number" /\ p.parts[k].from = Here /\ p.parts[k].n = Now /\ p.to = b
    BY <1>3 DEF TokenBegins
<1>5. PICK k \in DOMAIN p.parts :
          p.is = "number" /\ p.parts[k].from = Here /\ p.parts[k].n = Now /\ p.to = b
    BY <1>4
<1>6. Ahead(p.parts[k], b)
    BY <1>5, TokenBehind DEF Ahead
<1> QED BY <1>2, <1>6

(* Which tokens the bytes are the first of.                                *)
LEMMA OperandCodes ==
    ASSUME NEW s, NEW t
    PROVE  /\ IsValue(s, t) => Code(s, t, 0) < 128
           /\ \A type : IsVariableRead(s, t, type) => Code(s, t, 0) = 128 + type \/ Code(s, t, 0) = 192 + type
           /\ IsConstant(s, t) => Code(s, t, 0) = 139 \/ Code(s, t, 0) = 143 \/ Code(s, t, 0) = 145
           /\ IsCompound(s, t) => Code(s, t, 0) = 146 \/ Code(s, t, 0) = 177 \/ Code(s, t, 0) = 179
           /\ IsAnswer(s, t) => Code(s, t, 0) = 140
<1>1. IsValue(s, t) => Code(s, t, 0) < 128
    BY DEF IsValue
<1>2. \A type : IsVariableRead(s, t, type) => Code(s, t, 0) = 128 + type \/ Code(s, t, 0) = 192 + type
    BY DEF IsVariableRead
<1>3. IsConstant(s, t) => Code(s, t, 0) = 139 \/ Code(s, t, 0) = 143 \/ Code(s, t, 0) = 145
    BY DEF IsConstant
<1>4. IsCompound(s, t) => Code(s, t, 0) = 146 \/ Code(s, t, 0) = 177 \/ Code(s, t, 0) = 179
    BY DEF IsCompound
<1>5. IsAnswer(s, t) => Code(s, t, 0) = 140
    BY DEF IsAnswer
<1> QED BY <1>1, <1>2, <1>3, <1>4, <1>5

LEMMA TokenKinds ==
    ASSUME NEW s, NEW t, IsToken(s, t)
    PROVE  \/ t.is = "operand" /\ IsValue(s, t)
           \/ t.is = "operand" /\ \E type \in VariableTypes : IsVariableRead(s, t, type)
           \/ t.is = "operand" /\ IsConstant(s, t)
           \/ t.is = "operand" /\ IsCompound(s, t)
           \/ t.is = "operand" /\ IsAnswer(s, t)
           \/ /\ t.is = "operator" /\ Code(s, t, 0) \in OperatorCodes
              /\ Leaf(s, t, 1, << <<"op", Code(s, t, 0)>> >>)
           \/ t.is = "open" /\ Code(s, t, 0) = 226 /\ Leaf(s, t, 1, << <<"(">> >>)
           \/ t.is = "close" /\ Code(s, t, 0) = 225 /\ Leaf(s, t, 1, << <<")">> >>)
    BY DEF IsToken, IsOperand

LEMMA SomeVariableTypes ==
    /\ \A type \in VariableTypes : type \in 1 .. 14 /\ type # 11 /\ type # 12
    /\ \A c \in OperatorCodes : c \in Int /\ 209 <= c /\ c <= 223
    BY DEF VariableTypes, OperatorCodes

LEMMA VariableCodes ==
    ASSUME NEW s, NEW t, Code(s, t, 0) \in Int, NEW type \in VariableTypes, IsVariableRead(s, t, type)
    PROVE  /\ 129 <= Code(s, t, 0) /\ Code(s, t, 0) <= 206 /\ type \in Int
           /\ Code(s, t, 0) <= 142 \/ Code(s, t, 0) >= 193
           /\ Code(s, t, 0) # 139 /\ Code(s, t, 0) # 140 /\ Code(s, t, 0) # 203 /\ Code(s, t, 0) # 204
           /\ type = IF Code(s, t, 0) <= 142 THEN Code(s, t, 0) - 128 ELSE Code(s, t, 0) - 192
<1>1. type \in Int /\ 1 <= type /\ type <= 14 /\ type # 11 /\ type # 12
    BY SomeVariableTypes
<1>2. Code(s, t, 0) = 128 + type \/ Code(s, t, 0) = 192 + type
    BY OperandCodes
<1> QED BY <1>1, <1>2

TokenCases(s, t) ==
    \/ t.is = "operand" /\ IsValue(s, t) /\ Code(s, t, 0) < 128
    \/ /\ t.is = "operand" /\ \E type \in VariableTypes : IsVariableRead(s, t, type)
       /\ 129 <= Code(s, t, 0) /\ Code(s, t, 0) <= 206
       /\ Code(s, t, 0) <= 142 \/ Code(s, t, 0) >= 193
       /\ Code(s, t, 0) # 139 /\ Code(s, t, 0) # 140 /\ Code(s, t, 0) # 203 /\ Code(s, t, 0) # 204
    \/ /\ t.is = "operand" /\ IsConstant(s, t)
       /\ Code(s, t, 0) = 139 \/ Code(s, t, 0) = 143 \/ Code(s, t, 0) = 145
    \/ /\ t.is = "operand" /\ IsCompound(s, t)
       /\ Code(s, t, 0) = 146 \/ Code(s, t, 0) = 177 \/ Code(s, t, 0) = 179
    \/ t.is = "operand" /\ IsAnswer(s, t) /\ Code(s, t, 0) = 140
    \/ /\ t.is = "operator" /\ Leaf(s, t, 1, << <<"op", Code(s, t, 0)>> >>)
       /\ 209 <= Code(s, t, 0) /\ Code(s, t, 0) <= 223
    \/ t.is = "open" /\ Code(s, t, 0) = 226 /\ Leaf(s, t, 1, << <<"(">> >>)
    \/ t.is = "close" /\ Code(s, t, 0) = 225 /\ Leaf(s, t, 1, << <<")">> >>)

LEMMA TokenCodes ==
    ASSUME NEW s, NEW t, IsToken(s, t), Code(s, t, 0) \in Int
    PROVE  TokenCases(s, t)
<1>1. CASE t.is = "operand" /\ IsValue(s, t)
    BY <1>1, OperandCodes DEF TokenCases
<1>2. CASE t.is = "operand" /\ \E type \in VariableTypes : IsVariableRead(s, t, type)
    BY <1>2, VariableCodes DEF TokenCases
<1>3. CASE t.is = "operand" /\ IsConstant(s, t)
    BY <1>3, OperandCodes DEF TokenCases
<1>4. CASE t.is = "operand" /\ IsCompound(s, t)
    BY <1>4, OperandCodes DEF TokenCases
<1>5. CASE t.is = "operand" /\ IsAnswer(s, t)
    BY <1>5, OperandCodes DEF TokenCases
<1>6. CASE /\ t.is = "operator" /\ Code(s, t, 0) \in OperatorCodes
           /\ Leaf(s, t, 1, << <<"op", Code(s, t, 0)>> >>)
  <2>1. 209 <= Code(s, t, 0) /\ Code(s, t, 0) <= 223
      BY <1>6, SomeVariableTypes
  <2> QED BY <1>6, <2>1 DEF TokenCases
<1>7. CASE \/ t.is = "open" /\ Code(s, t, 0) = 226 /\ Leaf(s, t, 1, << <<"(">> >>)
           \/ t.is = "close" /\ Code(s, t, 0) = 225 /\ Leaf(s, t, 1, << <<")">> >>)
    BY <1>7 DEF TokenCases
<1> QED BY <1>1, <1>2, <1>3, <1>4, <1>5, <1>6, <1>7, TokenKinds

LEMMA ValueToken ==
    ASSUME NEW s, NEW t, IsToken(s, t), Code(s, t, 0) \in Int, Code(s, t, 0) < 128
    PROVE  t.is = "operand" /\ IsValue(s, t)
<1>1. TokenCases(s, t)
    BY TokenCodes
<1> QED BY <1>1 DEF TokenCases

LEMMA VariableToken ==
    ASSUME NEW s, NEW t, IsToken(s, t), Code(s, t, 0) \in Int, NEW type \in VariableTypes,
           Code(s, t, 0) = 128 + type \/ Code(s, t, 0) = 192 + type
    PROVE  t.is = "operand" /\ IsVariableRead(s, t, type)
<1>1. type \in Int /\ 1 <= type /\ type <= 14 /\ type # 11 /\ type # 12
    BY SomeVariableTypes
<1>2. t.is = "operand" /\ \E other \in VariableTypes : IsVariableRead(s, t, other)
  <2>1. TokenCases(s, t)
      BY TokenCodes
  <2> QED BY <1>1, <2>1 DEF TokenCases
<1>3. PICK other \in VariableTypes : IsVariableRead(s, t, other)
    BY <1>2
<1>4. /\ other \in Int
      /\ other = IF Code(s, t, 0) <= 142 THEN Code(s, t, 0) - 128 ELSE Code(s, t, 0) - 192
    BY <1>3, VariableCodes
<1>5. other = type
    BY <1>1, <1>4
<1> QED BY <1>2, <1>3, <1>5

LEMMA ConstantToken ==
    ASSUME NEW s, NEW t, IsToken(s, t), Code(s, t, 0) \in Int,
           Code(s, t, 0) = 139 \/ Code(s, t, 0) = 143 \/ Code(s, t, 0) = 145
    PROVE  t.is = "operand" /\ IsConstant(s, t)
<1>1. TokenCases(s, t)
    BY TokenCodes
<1> QED BY <1>1 DEF TokenCases

LEMMA CompoundToken ==
    ASSUME NEW s, NEW t, IsToken(s, t), Code(s, t, 0) \in Int,
           Code(s, t, 0) = 146 \/ Code(s, t, 0) = 177 \/ Code(s, t, 0) = 179
    PROVE  t.is = "operand" /\ IsCompound(s, t)
<1>1. TokenCases(s, t)
    BY TokenCodes
<1> QED BY <1>1 DEF TokenCases

LEMMA AnswerToken ==
    ASSUME NEW s, NEW t, IsToken(s, t), Code(s, t, 0) \in Int, Code(s, t, 0) = 140
    PROVE  t.is = "operand" /\ IsAnswer(s, t)
<1>1. TokenCases(s, t)
    BY TokenCodes
<1> QED BY <1>1 DEF TokenCases

LEMMA OperatorToken ==
    ASSUME NEW s, NEW t, IsToken(s, t), Code(s, t, 0) \in Int, 209 <= Code(s, t, 0), Code(s, t, 0) <= 223
    PROVE  t.is = "operator" /\ Leaf(s, t, 1, << <<"op", Code(s, t, 0)>> >>)
<1>1. TokenCases(s, t)
    BY TokenCodes
<1> QED BY <1>1 DEF TokenCases

LEMMA ParenToken ==
    ASSUME NEW s, NEW t, IsToken(s, t), Code(s, t, 0) \in Int
    PROVE  /\ Code(s, t, 0) = 226 => t.is = "open" /\ Leaf(s, t, 1, << <<"(">> >>)
           /\ Code(s, t, 0) = 225 => t.is = "close" /\ Leaf(s, t, 1, << <<")">> >>)
<1>1. TokenCases(s, t)
    BY TokenCodes
<1> QED BY <1>1 DEF TokenCases

LEMMA CodesNotWide ==
    ASSUME NEW s, NEW t, IsToken(s, t), Code(s, t, 0) \in Int
    PROVE  Code(s, t, 0) # 203 /\ Code(s, t, 0) # 204 /\ Code(s, t, 0) # 207
<1>1. TokenCases(s, t)
    BY TokenCodes
<1> QED BY <1>1 DEF TokenCases

(* No token begins with another byte.                                      *)
LEMMA SomeToken ==
    ASSUME NEW s, NEW t, IsToken(s, t), Code(s, t, 0) \in Int
    PROVE  \/ Code(s, t, 0) < 128
           \/ \E type \in VariableTypes : Code(s, t, 0) = 128 + type \/ Code(s, t, 0) = 192 + type
           \/ Code(s, t, 0) = 139 \/ Code(s, t, 0) = 140 \/ Code(s, t, 0) = 143 \/ Code(s, t, 0) = 145
           \/ Code(s, t, 0) = 146 \/ Code(s, t, 0) = 177 \/ Code(s, t, 0) = 179
           \/ Code(s, t, 0) = 225 \/ Code(s, t, 0) = 226
           \/ 209 <= Code(s, t, 0) /\ Code(s, t, 0) <= 223
<1>1. ASSUME NEW type \in VariableTypes, IsVariableRead(s, t, type)
      PROVE  Code(s, t, 0) = 128 + type \/ Code(s, t, 0) = 192 + type
    BY <1>1, OperandCodes
<1>2. TokenCases(s, t)
    BY TokenCodes
<1> QED BY <1>1, <1>2 DEF TokenCases

LEMMA NumberSeqs == \A n \in Int : More(n) \in Seq(Items) /\ Again(n) \in Seq(Items)
    BY MoreItems

(* A token has been read, and what may be behind it is read next.          *)
LEMMA TokenRead ==
    ASSUME Typed, InStep, todo # <<>>, NEW b \in Places(script), Path(script, Tail(todo), b, Reached(ran)),
           NEW t, Ahead(t, b), OpenBehind(t) \in Int, UNCHANGED <<script, ran>>,
           Here' = t.to, SaysAsWritten',
           IF Completes(t) THEN Then(More(OpenBehind(t))) ELSE Then(Again(OpenBehind(t)))
    PROVE  InStep'
<1>1. t.to \in Places(script)
    BY PhraseFacts DEF Ahead
<1>2. More(OpenBehind(t)) \in Seq(Items) /\ Again(OpenBehind(t)) \in Seq(Items)
    BY NumberSeqs
<1>3. CASE Completes(t)
  <2>1. Leads(script, Item("next", OpenBehind(t)), t.to, b)
      BY <1>3 DEF Ahead
  <2>2. Path(script, More(OpenBehind(t)), t.to, b)
      BY <1>1, <2>1, PathOne DEF More
  <2> QED BY <1>1, <1>2, <1>3, <2>2, StepsOn
<1>4. CASE ~Completes(t)
  <2>1. Leads(script, Item("number", OpenBehind(t)), t.to, b)
      BY <1>4 DEF Ahead
  <2>2. Path(script, Again(OpenBehind(t)), t.to, b)
      BY <1>1, <2>1, PathOne DEF Again
  <2> QED BY <1>1, <1>2, <1>4, <2>2, StepsOn
<1> QED BY <1>3, <1>4

(* An operand without parts has been read.                                 *)
LEMMA OperandRead ==
    ASSUME Typed, InStep, Reading("number"), NEW b \in Places(script), Path(script, Tail(todo), b, Reached(ran)),
           NEW t, Ahead(t, b), t.is = "operand", NEW n \in Nat, NEW pieces, IsSeq(pieces),
           Leaf(script, t, n, pieces), out' = out \o pieces, Fetch(n, "read"), Then(More(Now)),
           UNCHANGED <<script, ran, depth>>
    PROVE  InStep' /\ status' = "read"
<1>1. status = "read" /\ todo # <<>> /\ Now \in Int
    BY ReadingFacts
<1>2. t \in script.phrases /\ t.from = Here /\ t.n = Now
    BY DEF Ahead
<1>3. Here' = t.to /\ SaysAsWritten' /\ status' = "read"
    BY <1>1, <1>2, LeafRead
<1>4. Completes(t) /\ OpenBehind(t) = Now
    BY <1>1, <1>2 DEF Completes, OpenBehind
<1> QED BY <1>1, <1>3, <1>4, TokenRead

(* An operand has been read as far as its parts.                           *)
LEMMA OperandBegun ==
    ASSUME Typed, InStep, Reading("number"), NEW b \in Places(script), Path(script, Tail(todo), b, Reached(ran)),
           NEW t, Ahead(t, b), t.is = "operand", NEW items \in Seq(Items), Then(items \o More(Now)),
           UNCHANGED <<script, ran>>, Here' \in Places(script), SaysAsWritten',
           Path(script, items, Here', t.to)
    PROVE  InStep'
<1>1. todo # <<>> /\ Now \in Int
    BY ReadingFacts
<1>2. t \in script.phrases /\ t.n = Now
    BY DEF Ahead
<1>3. Completes(t) /\ OpenBehind(t) = Now
    BY <1>1, <1>2 DEF Completes, OpenBehind
<1>4. t.to \in Places(script)
    BY <1>2, PhraseFacts
<1>5. Leads(script, Item("next", Now), t.to, b)
    BY <1>3 DEF Ahead
<1>6. More(Now) \in Seq(Items) /\ Path(script, More(Now), t.to, b)
  <2>1. Path(script, More(Now), t.to, b)
      BY <1>4, <1>5, PathOne DEF More
  <2> QED BY <1>1, <2>1, NumberSeqs
<1>7. items \o More(Now) \in Seq(Items) /\ Path(script, items \o More(Now), Here', b)
    BY <1>6, InTurnRead, PathConcat
<1> QED BY <1>1, <1>7, StepsOn

(* The token the reader is at, and its bytes.                              *)
LEMMA NumberBytes ==
    ASSUME Typed, NEW t, NEW b, Ahead(t, b)
    PROVE  /\ t \in script.phrases /\ t.from = Here /\ IsToken(script, t)
           /\ Code(script, t, 0) = There(0) /\ Code(script, t, 0) \in Int /\ There(0) \in Byte
           /\ Code(script, t, 1) = There(1) /\ CodeWord(script, t, 0) = Word(0)
           /\ CodeWord(script, t, 1) = Word(1) /\ CodeLong(script, t, 1) = Long(1)
<1>1. t \in script.phrases /\ t.from = Here /\ IsToken(script, t)
    BY DEF Ahead
<1>2. There(0) \in Byte
    BY ThereIsByte
<1>3. There(0) \in Int
    BY <1>2 DEF Byte
<1>4. /\ Code(script, t, 0) = There(0) /\ Code(script, t, 1) = There(1) /\ CodeWord(script, t, 0) = Word(0)
      /\ CodeWord(script, t, 1) = Word(1) /\ CodeWord(script, t, 3) = Word(3)
    BY <1>1, SameBytes
<1>5. CodeLong(script, t, 1) = Long(1)
  <2>1. 1 + 2 = 3
      OBVIOUS
  <2> QED BY <1>4, <2>1 DEF CodeLong, Long
<1> QED BY <1>1, <1>2, <1>3, <1>4, <1>5

LEMMA SaysOne ==
    ASSUME InStep, NEW e
    PROVE  Append(out, e) = out \o <<e>> /\ out \o <<>> = out
    BY OnePieceMore DEF InStep, SaysAsWritten

(* Every action keeps in step with a script that is sound so far.          *)
LEMMA immediateInStep ==
    ASSUME Typed, InStep, immediate
    PROVE  InStep' /\ status' = "read"
<1>1. /\ Reading("number") /\ There(0) < 128 /\ Fetch(2, "read") /\ out' = Append(out, <<"value", Word(0)>>)
      /\ Then(More(Now)) /\ UNCHANGED <<script, ran, depth>>
    BY DEF immediate, NumberKeeps, Same, Says
<1>2. PICK b \in Places(script) : Path(script, Tail(todo), b, Reached(ran)) /\ \E t : Ahead(t, b)
    BY <1>1, NumberAhead
<1>3. PICK t : Ahead(t, b)
    BY <1>2
<1>4. t.is = "operand" /\ IsValue(script, t)
    BY <1>1, <1>3, NumberBytes, ValueToken
<1>5. Leaf(script, t, 2, << <<"value", Word(0)>> >>)
    BY <1>3, <1>4, NumberBytes DEF IsValue
<1>6. IsSeq(<< <<"value", Word(0)>> >>) /\ out' = out \o << <<"value", Word(0)>> >>
    BY <1>1, PiecesAreSeq, SaysOne
<1> QED BY <1>1, <1>2, <1>3, <1>4, <1>5, <1>6, OperandRead

LEMMA GotIsRead ==
    ASSUME InStep, NEW type, NEW n
    PROVE  IsSeq(Got(type, n)) /\ VarRead(type, n) = out \o Got(type, n)
<1>1. /\ out \o <<>> = out
      /\ Append(out, <<"get", type, n>>) = out \o << <<"get", type, n>> >>
      /\ Append(out, <<"get", type, n - 32>>) = out \o << <<"get", type, n - 32>> >>
    BY SaysOne
<1>2. /\ IsSeq(<<>>) /\ IsSeq(<< <<"get", type, n>> >>) /\ IsSeq(<< <<"get", type, n - 32>> >>)
    BY PiecesAreSeq
<1> DEFINE plain == type \in {1, 2, 5, 6, 7, 10, 13, 14}
           named == type = 9 /\ n \in 32 .. 46
<1>3. /\ Got(type, n) = IF plain THEN << <<"get", type, n>> >>
                        ELSE IF named THEN << <<"get", type, n - 32>> >> ELSE <<>>
      /\ VarRead(type, n) = IF plain THEN Append(out, <<"get", type, n>>)
                            ELSE IF named THEN Append(out, <<"get", type, n - 32>>) ELSE out
    BY DEF Got, VarRead
<1> HIDE DEF plain, named
<1> QED BY <1>1, <1>2, <1>3

LEMMA variableInStep ==
    ASSUME Typed, InStep, variable
    PROVE  InStep' /\ status' = "read"
<1> DEFINE type == Cop - 128
           n == IF Wide THEN Signed(Word(1), 16) ELSE There(1)
           k == IF Wide THEN 3 ELSE 2
<1>1. /\ Reading("number") /\ type \in SimpleTypes /\ Fetch(k, "read") /\ out' = VarRead(type, n)
      /\ Then(More(Now)) /\ UNCHANGED <<script, ran, depth>>
    BY DEF variable, NumberKeeps, Same
<1>2. PICK b \in Places(script) : Path(script, Tail(todo), b, Reached(ran)) /\ \E t : Ahead(t, b)
    BY <1>1, NumberAhead
<1>3. PICK t : Ahead(t, b)
    BY <1>2
<1>4. type \in VariableTypes
    BY <1>1 DEF SimpleTypes, VariableTypes
<1>5. There(0) \in Int /\ Code(script, t, 0) = There(0) /\ IsToken(script, t)
    BY <1>3, NumberBytes
<1>6. type \in Int /\ 1 <= type /\ type <= 14
    BY <1>4, SomeVariableTypes
<1>7. There(0) = IF Wide THEN 192 + type ELSE 128 + type
    BY <1>5 DEF Cop
<1> HIDE DEF type
<1>8. t.is = "operand" /\ IsVariableRead(script, t, type)
    BY <1>4, <1>5, <1>7, VariableToken
<1>9. Leaf(script, t, k, Got(type, n))
  <2>1. \/ ~Wide /\ Leaf(script, t, 2, Got(type, There(1)))
        \/ Wide /\ Leaf(script, t, 3, Got(type, Signed(Word(1), 16)))
    <3>1. There(0) = 128 + type => There(0) # 192 + type
        BY <1>6
    <3>2. /\ Code(script, t, 1) = There(1) /\ CodeWord(script, t, 1) = Word(1)
        BY <1>3, NumberBytes
    <3> QED BY <1>5, <1>7, <1>8, <3>1, <3>2 DEF IsVariableRead
  <2> QED BY <2>1
<1>10. k \in Nat
    OBVIOUS
<1> HIDE DEF n, k
<1> QED BY <1>1, <1>2, <1>3, <1>8, <1>9, <1>10, GotIsRead, OperandRead

LEMMA constantInStep ==
    ASSUME Typed, InStep, constant
    PROVE  InStep' /\ status' = "read"
<1>1. Reading("number") /\ Then(More(Now)) /\ UNCHANGED <<script, ran, depth>>
    BY DEF constant, NumberKeeps, Same
<1>2. PICK b \in Places(script) : Path(script, Tail(todo), b, Reached(ran)) /\ \E t : Ahead(t, b)
    BY <1>1, NumberAhead
<1>3. PICK t : Ahead(t, b)
    BY <1>2
<1> DEFINE big == << <<"value", Long(1)>> >>
           small == << <<"value", Signed(There(1), 8)>> >>
           name == << <<"name", -Word(1)>> >>
<1>4. \/ Cop = 139 /\ Fetch(5, "read") /\ out' = out \o big
      \/ Cop = 143 /\ Fetch(2, "read") /\ out' = out \o small
      \/ Cop = 145 /\ Fetch(3, "read") /\ out' = out \o name
  <2>1. \/ Cop = 139 /\ Fetch(5, "read") /\ Says(<<"value", Long(1)>>)
        \/ Cop = 143 /\ Fetch(2, "read") /\ Says(<<"value", Signed(There(1), 8)>>)
        \/ Cop = 145 /\ Fetch(3, "read") /\ Says(<<"name", -Word(1)>>)
      BY Zenon DEF constant
  <2>2. \A e : Says(e) => out' = out \o <<e>>
      BY SaysOne DEF Says
  <2> QED BY <2>1, <2>2
<1>5. There(0) \in Int /\ Code(script, t, 0) = There(0) /\ IsToken(script, t)
    BY <1>3, NumberBytes
<1>6. IsSeq(big) /\ IsSeq(small) /\ IsSeq(name)
    BY PiecesAreSeq
<1>7. /\ IsConstant(script, t) => \/ There(0) = 139 /\ Leaf(script, t, 5, big)
                                  \/ There(0) = 143 /\ Leaf(script, t, 2, small)
                                  \/ There(0) = 145 /\ Leaf(script, t, 3, name)
    BY <1>3, NumberBytes DEF IsConstant
<1> HIDE DEF big, small, name
<1>8. There(0) = 139 \/ There(0) = 143 \/ There(0) = 145
  <2>1. There(0) # 203 /\ There(0) # 207
      BY <1>5, CodesNotWide
  <2>2. Wide => There(0) <= 207
      BY <1>5 DEF Wide
  <2> QED BY <1>4, <1>5, <2>1, <2>2 DEF Cop
<1>9. t.is = "operand" /\ IsConstant(script, t)
    BY <1>5, <1>8, ConstantToken
<1>10. /\ There(0) = 139 => Leaf(script, t, 5, big) /\ Fetch(5, "read") /\ out' = out \o big
       /\ There(0) = 143 => Leaf(script, t, 2, small) /\ Fetch(2, "read") /\ out' = out \o small
       /\ There(0) = 145 => Leaf(script, t, 3, name) /\ Fetch(3, "read") /\ out' = out \o name
  <2>1. There(0) \in {139, 143, 145} => Cop = There(0)
      BY DEF Cop, Wide
  <2> QED BY <1>4, <1>7, <1>9, <2>1
<1>11. \E k \in Nat : \E pieces : /\ IsSeq(pieces) /\ Leaf(script, t, k, pieces)
                                  /\ out' = out \o pieces /\ Fetch(k, "read")
    BY <1>6, <1>8, <1>10
<1>12. PICK k \in Nat : \E pieces : /\ IsSeq(pieces) /\ Leaf(script, t, k, pieces)
                                      /\ out' = out \o pieces /\ Fetch(k, "read")
    BY <1>11
<1>13. PICK pieces : /\ IsSeq(pieces) /\ Leaf(script, t, k, pieces)
                     /\ out' = out \o pieces /\ Fetch(k, "read")
    BY <1>12
<1> QED BY <1>1, <1>2, <1>3, <1>9, <1>12, <1>13, OperandRead

LEMMA compoundInStep ==
    ASSUME Typed, InStep, compound
    PROVE  InStep' /\ status' = "read"
<1> DEFINE texts == <<Item("text", 0)>>
           paths == Complex(Read)
<1>1. /\ Reading("number") /\ Fetch(1, "read") /\ UNCHANGED <<script, ran, depth, out>>
      /\ \/ Cop = 146 /\ Then(texts \o More(Now))
         \/ (Cop = 177 \/ Cop = 179) /\ Then(paths \o More(Now))
    BY DEF compound, NumberKeeps, Same, Quiet
<1>0. texts \in Seq(Items) /\ paths \in Seq(Items)
    BY SingleItems, ItemsRead
<1> HIDE DEF texts, paths
<1>2. PICK b \in Places(script) : Path(script, Tail(todo), b, Reached(ran)) /\ \E t : Ahead(t, b)
    BY <1>1, NumberAhead
<1>3. PICK t : Ahead(t, b)
    BY <1>2
<1>4. /\ There(0) \in Int /\ Code(script, t, 0) = There(0) /\ IsToken(script, t)
      /\ t \in script.phrases /\ t.from = Here
    BY <1>3, NumberBytes
<1>5. /\ There(0) = Cop
      /\ There(0) = 146 \/ There(0) = 177 \/ There(0) = 179
  <2>1. (Wide => Cop = There(0) - 64) /\ (~Wide => Cop = There(0))
      BY DEF Cop
  <2>2. Wide => There(0) <= 207
      BY <1>4 DEF Wide
  <2> QED BY <1>1, <1>4, <2>1, <2>2
<1>6. t.is = "operand" /\ IsCompound(script, t)
    BY <1>4, <1>5, CompoundToken
<1>7. Branch(script, t, 1, <<>>, t.to) /\ Len(t.parts) = 1
    BY <1>6 DEF IsCompound
<1>8. /\ t.to \in Places(script) /\ IsSeq(t.parts) /\ 1 \in DOMAIN t.parts
      /\ t.parts[1] \in script.phrases /\ t.parts # <<>>
  <2>1. 1 \in DOMAIN t.parts /\ t.parts # <<>>
      BY <1>4, <1>7, PhraseFacts, SeqFacts
  <2> QED BY <1>4, <2>1, PhraseFacts
<1>9. InTurn(t.parts, Here', t.to) /\ Here' \in Places(script) /\ SaysAsWritten' /\ status' = "read"
  <2>1. status = "read" /\ IsSeq(<<>>) /\ out' = out \o <<>> /\ 1 \in Nat
      BY <1>1, ReadingFacts, PiecesAreSeq, SaysOne
  <2> DEFINE nothing == <<>>
  <2>2. Fetch(1, "read") /\ script' = script /\ depth' = depth /\ t.to \in Places(script)
      BY <1>1, <1>8
  <2>3. IsSeq(nothing) /\ out' = out \o nothing /\ Branch(script, t, 1, nothing, t.to)
      BY <1>7, <2>1
  <2> HIDE DEF nothing
  <2> QED BY <1>4, <2>1, <2>2, <2>3, BranchRead
<1>10. t.parts[1].from = Here' /\ t.parts[1].to = t.to
    BY <1>7, <1>8, <1>9 DEF InTurn
<1>11. CASE There(0) = 146
  <2>1. t.parts[1].is = "text"
      BY <1>4, <1>6, <1>11 DEF IsCompound
  <2>2. OnePhrase(script, Item("text", 0), Here', t.to)
      BY <1>8, <1>10, <2>1 DEF OnePhrase, Item
  <2>3. Leads(script, Item("text", 0), Here', t.to)
      BY <2>2 DEF Leads, Item
  <2>4. Path(script, texts, Here', t.to)
      BY <1>8, <1>9, <2>3, PathOne DEF texts
  <2>5. Then(texts \o More(Now))
      BY <1>1, <1>5, <1>11
  <2> QED BY <1>0, <1>1, <1>2, <1>3, <1>6, <1>9, <2>4, <2>5, OperandBegun
<1>12. CASE There(0) # 146
  <2>1. t.parts[1].is = "complex" /\ t.parts[1].n = Read
      BY <1>4, <1>6, <1>12 DEF IsCompound
  <2>2. OnePhrase(script, Item("complex", Read), Here', t.to)
      BY <1>8, <1>10, <2>1 DEF OnePhrase, Item
  <2>3. Leads(script, Item("complex", Read), Here', t.to)
      BY <2>2 DEF Leads, Item
  <2>4. Path(script, paths, Here', t.to)
      BY <1>8, <1>9, <2>3, PathOne DEF paths, Complex
  <2>5. Then(paths \o More(Now))
      BY <1>1, <1>5, <1>12
  <2> QED BY <1>0, <1>1, <1>2, <1>3, <1>6, <1>9, <2>4, <2>5, OperandBegun
<1> QED BY <1>11, <1>12

LEMMA retvalInStep ==
    ASSUME Typed, InStep, retval
    PROVE  InStep' /\ status' = "read"
<1>1. /\ Reading("number") /\ Cop = 140 /\ UNCHANGED <<script, ran, depth>>
      /\ Fetch(2, IF There(1) \in Answering THEN "read" ELSE "exited")
    BY DEF retval, Retval, Same
<1>2. PICK b \in Places(script) : Path(script, Tail(todo), b, Reached(ran)) /\ \E t : Ahead(t, b)
    BY <1>1, NumberAhead
<1>3. PICK t : Ahead(t, b)
    BY <1>2
<1>4. /\ There(0) \in Int /\ Code(script, t, 0) = There(0) /\ IsToken(script, t)
      /\ t \in script.phrases /\ t.from = Here /\ Code(script, t, 1) = There(1)
    BY <1>3, NumberBytes
<1>5. There(0) = 140
  <2>1. (Wide => Cop = There(0) - 64) /\ (~Wide => Cop = There(0))
      BY DEF Cop
  <2>2. There(0) # 204
      BY <1>4, CodesNotWide
  <2> QED BY <1>1, <1>4, <2>1, <2>2
<1>6. t.is = "operand" /\ IsAnswer(script, t)
    BY <1>4, <1>5, AnswerToken
<1> DEFINE items == Handlers[Handler(There(1))]
           began == << <<"((">>, <<Handler(There(1))>> >>
           behind == Past(t.to, 0, -1)
<1>7. /\ There(1) \in Answering /\ IsTaken(t.parts, There(1))
      /\ t.to.said > 0 /\ script.says[t.to.said] = <<"))">>
      /\ Branch(script, t, 2, began, behind)
    BY <1>4, <1>6 DEF IsAnswer
<1>8. /\ out' = out \o began /\ Then(items \o <<Item("answered", 0)>> \o More(Now)) /\ Fetch(2, "read")
    BY <1>1, <1>7 DEF retval, Retval
<1>9. t.to \in Places(script) /\ IsSeq(t.parts) /\ \A k \in DOMAIN t.parts : t.parts[k] \in script.phrases
    BY <1>4, PhraseFacts
<1>10. behind \in Places(script) /\ Past(behind, 0, 1) = t.to
    BY <1>7, <1>9, AnswerEnd
<1>11. IsSeq(began)
    BY PiecesAreSeq
<1> HIDE DEF began, behind, items
<1>12. InTurn(t.parts, Here', behind) /\ Here' \in Places(script) /\ SaysAsWritten' /\ status' = "read"
  <2>1. status = "read" /\ 2 \in Nat
      BY <1>1, ReadingFacts
  <2> QED BY <1>1, <1>4, <1>7, <1>8, <1>10, <1>11, <2>1, BranchRead
<1>13. items \in Seq(Items) /\ Path(script, items, Here', behind)
    BY <1>7, <1>9, <1>12, TakenLeads DEF items
<1>14. Path(script, <<Item("answered", 0)>>, behind, t.to)
  <2>1. Answered(script, behind, t.to)
      BY <1>7, <1>9, <1>10 DEF Answered
  <2>2. Leads(script, Item("answered", 0), behind, t.to)
      BY <2>1 DEF Leads, Item
  <2> QED BY <1>9, <1>10, <2>2, PathOne
<1>15. /\ items \o <<Item("answered", 0)>> \in Seq(Items)
       /\ Path(script, items \o <<Item("answered", 0)>>, Here', t.to)
  <2>1. <<Item("answered", 0)>> \in Seq(Items)
      BY SingleItems
  <2> QED BY <1>13, <1>14, <2>1, InTurnRead, PathConcat
<1> QED BY <1>1, <1>2, <1>3, <1>6, <1>8, <1>12, <1>15, OperandBegun

LEMMA NothingFetched ==
    ASSUME Typed, status = "read", UNCHANGED <<pos, status>>
    PROVE  Fetch(0, "read")
<1>1. Len(bytes) \in Nat
    BY ScriptFacts1
<1>2. pos \in Nat /\ pos <= Len(bytes) /\ pos + 0 = pos
    BY <1>1 DEF Typed, TypeOK
<1> QED BY <1>2 DEF Fetch

(* An item has been read, and nothing has been put in its place.           *)
LEMMA ItemDone ==
    ASSUME Typed, InStep, todo # <<>>, NEW b \in Places(script), Path(script, Tail(todo), b, Reached(ran)),
           Then(<<>>), UNCHANGED <<script, ran>>, Here' = b, SaysAsWritten'
    PROVE  InStep'
<1> DEFINE nothing == <<>>
<1>1. nothing \in Seq(Items) /\ Then(nothing)
    OBVIOUS
<1>2. Path(script, nothing, Here', b)
    BY PathNone
<1> HIDE DEF nothing
<1> QED BY <1>1, <1>2, StepsOn

LEMMA answeredInStep ==
    ASSUME Typed, InStep, answered
    PROVE  InStep' /\ status' = "read"
<1>1. /\ Reading("answered") /\ out' = Append(out, <<"))">>) /\ Then(<<>>)
      /\ UNCHANGED <<script, ran, pos, status, depth>>
    BY DEF answered, Same, Says
<1>2. status = "read" /\ todo # <<>> /\ Head(todo).what = "answered"
    BY <1>1, ReadingFacts
<1>3. PICK b \in Places(script) :
          Leads(script, Head(todo), Here, b) /\ Path(script, Tail(todo), b, Reached(ran))
    BY <1>2, HeadLeads
<1>4. Answered(script, Here, b)
    BY <1>2, <1>3 DEF Leads
<1>5. b = Past(Here, 0, 1) /\ script.says[b.said] = <<"))">>
    BY <1>4 DEF Answered
<1> DEFINE pieces == << <<"))">> >>
<1>6. /\ IsSeq(pieces) /\ out' = out \o pieces /\ Len(pieces) = 1
      /\ DOMAIN pieces = 1 .. 1 /\ pieces[1] = <<"))">>
    BY <1>1, PiecesAreSeq, SaysOne
<1> HIDE DEF pieces
<1>7. Printed(script, Here, pieces)
  <2>1. b.said = Here.said + 1
      BY <1>5 DEF Past
  <2>2. ASSUME NEW k \in DOMAIN pieces PROVE script.says[Here.said + k] = pieces[k]
    <3>1. k = 1
        BY <1>6
    <3> QED BY <1>5, <1>6, <2>1, <3>1
  <2> QED BY <2>2 DEF Printed
<1>8. Fetch(0, "read") /\ 0 \in Nat /\ script' = script /\ depth' = depth
    BY <1>1, <1>2, NothingFetched
<1>9. Past(Here, 0, Len(pieces)) = b
    BY <1>5, <1>6
<1>10. Here' = b /\ SaysAsWritten' /\ status' = "read"
    BY <1>2, <1>3, <1>6, <1>7, <1>8, <1>9, PlaceRead
<1> QED BY <1>1, <1>2, <1>3, <1>10, ItemDone

LEMMA operatorInStep ==
    ASSUME Typed, InStep, operator
    PROVE  InStep' /\ status' = "read"
<1>1. /\ Reading("number") /\ Fetch(1, "read") /\ out' = Append(out, <<"op", There(0)>>)
      /\ Then(Again(Now)) /\ UNCHANGED <<script, ran, depth>> /\ There(0) \in 209 .. 223
    BY DEF operator, NumberKeeps, Same, Says, OPERATOR_OFFSET, OPERATOR_LAST
<1>2. PICK b \in Places(script) : Path(script, Tail(todo), b, Reached(ran)) /\ \E t : Ahead(t, b)
    BY <1>1, NumberAhead
<1>3. PICK t : Ahead(t, b)
    BY <1>2
<1>4. /\ t \in script.phrases /\ t.from = Here /\ IsToken(script, t) /\ Code(script, t, 0) = There(0)
      /\ Code(script, t, 0) \in Int
    BY <1>3, NumberBytes
<1> DEFINE pieces == << <<"op", There(0)>> >>
<1>5. t.is = "operator" /\ Leaf(script, t, 1, pieces)
  <2>1. 209 <= Code(script, t, 0) /\ Code(script, t, 0) <= 223
      BY <1>1, <1>4
  <2> QED BY <1>4, <2>1, OperatorToken
<1>6. IsSeq(pieces) /\ out' = out \o pieces
    BY <1>1, PiecesAreSeq, SaysOne
<1> HIDE DEF pieces
<1>7. status = "read" /\ todo # <<>> /\ Now \in Int /\ t.n = Now
    BY <1>1, <1>3, ReadingFacts DEF Ahead
<1>8. Here' = t.to /\ SaysAsWritten' /\ status' = "read"
    BY <1>1, <1>4, <1>5, <1>6, <1>7, LeafRead
<1>9. ~Completes(t) /\ OpenBehind(t) = Now
    BY <1>5, <1>7 DEF Completes, OpenBehind
<1> QED BY <1>1, <1>2, <1>3, <1>7, <1>8, <1>9, TokenRead

LEMMA parenInStep ==
    ASSUME Typed, InStep, paren
    PROVE  InStep' /\ status' = "read"
<1> DEFINE open == << <<"(">> >>
           close == << <<")">> >>
<1>1. /\ Reading("number") /\ Fetch(1, "read") /\ UNCHANGED <<script, ran, depth>>
      /\ \/ There(0) = 226 /\ Says(<<"(">>) /\ Then(Again(Now + 1))
         \/ There(0) = 225 /\ Says(<<")">>) /\ Then(More(Now - 1))
    BY DEF paren, NumberKeeps, Same
<1>2. PICK b \in Places(script) : Path(script, Tail(todo), b, Reached(ran)) /\ \E t : Ahead(t, b)
    BY <1>1, NumberAhead
<1>3. PICK t : Ahead(t, b)
    BY <1>2
<1>4. /\ t \in script.phrases /\ t.from = Here /\ IsToken(script, t) /\ Code(script, t, 0) = There(0)
      /\ Code(script, t, 0) \in Int
    BY <1>3, NumberBytes
<1>5. status = "read" /\ todo # <<>> /\ Now \in Int /\ t.n = Now
    BY <1>1, <1>3, ReadingFacts DEF Ahead
<1>6. /\ Says(<<"(">>) => out' = out \o open
      /\ Says(<<")">>) => out' = out \o close
      /\ IsSeq(open) /\ IsSeq(close)
    BY PiecesAreSeq, SaysOne DEF Says
<1>7. CASE There(0) = 226
  <2>1. t.is = "open" /\ Leaf(script, t, 1, open)
      BY <1>4, <1>7, ParenToken
  <2>2. Says(<<"(">>) /\ Then(Again(Now + 1))
      BY <1>1, <1>7
  <2>3. out' = out \o open
      BY <1>6, <2>2
  <2> HIDE DEF open, close
  <2>4. Here' = t.to /\ SaysAsWritten' /\ status' = "read"
    <3>1. Fetch(1, "read") /\ UNCHANGED <<script, depth>> /\ IsSeq(open) /\ 1 \in Nat
        BY <1>1, <1>6
    <3> QED BY <1>4, <1>5, <2>1, <2>3, <3>1, LeafRead
  <2>5. ~Completes(t) /\ OpenBehind(t) = Now + 1 /\ OpenBehind(t) \in Int
      BY <1>5, <2>1 DEF Completes, OpenBehind
  <2> QED BY <1>1, <1>2, <1>3, <1>5, <2>2, <2>4, <2>5, TokenRead
<1>8. CASE There(0) = 225
  <2>1. t.is = "close" /\ Leaf(script, t, 1, close)
      BY <1>4, <1>8, ParenToken
  <2>2. Says(<<")">>) /\ Then(More(Now - 1))
      BY <1>1, <1>8
  <2>3. out' = out \o close
      BY <1>6, <2>2
  <2> HIDE DEF open, close
  <2>4. Here' = t.to /\ SaysAsWritten' /\ status' = "read"
    <3>1. Fetch(1, "read") /\ UNCHANGED <<script, depth>> /\ IsSeq(close) /\ 1 \in Nat
        BY <1>1, <1>6
    <3> QED BY <1>4, <1>5, <2>1, <2>3, <3>1, LeafRead
  <2>5. Completes(t) /\ OpenBehind(t) = Now - 1 /\ OpenBehind(t) \in Int
      BY <1>5, <2>1 DEF Completes, OpenBehind
  <2> QED BY <1>1, <1>2, <1>3, <1>5, <2>2, <2>4, <2>5, TokenRead
<1> QED BY <1>1, <1>7, <1>8

(* In a sound script there is no number that cannot be read.               *)
LEMMA no_numberInStep ==
    ASSUME Typed, InStep, no_number
    PROVE  FALSE
<1>1. /\ Reading("number") /\ There(0) >= 128 /\ Cop - 128 \notin SimpleTypes
      /\ Cop # 139 /\ Cop # 140 /\ Cop # 143 /\ Cop # 145 /\ Cop # 146 /\ Cop # 177 /\ Cop # 179
      /\ Cop # 225 /\ Cop # 226 /\ There(0) \notin OPERATOR_OFFSET + 1 .. OPERATOR_LAST
    BY DEF no_number
<1>2. PICK b \in Places(script) : Path(script, Tail(todo), b, Reached(ran)) /\ \E t : Ahead(t, b)
    BY <1>1, NumberAhead
<1>3. PICK t : Ahead(t, b)
    BY <1>2
<1>4. IsToken(script, t) /\ Code(script, t, 0) = There(0) /\ There(0) \in Int
    BY <1>3, NumberBytes
<1>5. (Wide => Cop = There(0) - 64) /\ (~Wide => Cop = There(0)) /\ (Wide <=> There(0) \in 192 .. 207)
    BY DEF Cop, Wide
<1>6. ~(209 <= There(0) /\ There(0) <= 223)
    BY <1>1, <1>4 DEF OPERATOR_OFFSET, OPERATOR_LAST
<1>7. ASSUME NEW type \in VariableTypes, There(0) = 128 + type \/ There(0) = 192 + type
      PROVE  FALSE
  <2>1. type \in Int /\ 1 <= type /\ type <= 14 /\ type \in SimpleTypes
      BY SomeVariableTypes DEF SimpleTypes, VariableTypes
  <2>2. Cop - 128 = type
      BY <1>4, <1>5, <1>7, <2>1
  <2> QED BY <1>1, <2>1, <2>2
<1>8. \/ There(0) = 139 \/ There(0) = 140 \/ There(0) = 143 \/ There(0) = 145
      \/ There(0) = 146 \/ There(0) = 177 \/ There(0) = 179 \/ There(0) = 225 \/ There(0) = 226
  <2>1. \/ There(0) < 128
        \/ \E type \in VariableTypes : There(0) = 128 + type \/ There(0) = 192 + type
        \/ There(0) = 139 \/ There(0) = 140 \/ There(0) = 143 \/ There(0) = 145
        \/ There(0) = 146 \/ There(0) = 177 \/ There(0) = 179
        \/ There(0) = 225 \/ There(0) = 226
        \/ 209 <= There(0) /\ There(0) <= 223
      BY <1>4, SomeToken
  <2>2. ~(There(0) < 128)
      BY <1>1, <1>4
  <2> QED BY <1>6, <1>7, <2>1, <2>2
<1>9. ~Wide
    BY <1>5, <1>8
<1> QED BY <1>1, <1>5, <1>8, <1>9

LEMMA StaysHere ==
    ASSUME Typed, InStep, UNCHANGED <<script, pos, out, depth>>
    PROVE  Here' = Here /\ Here' \in Places(script) /\ SaysAsWritten'
<1>1. Here' = Here
    BY DEF Here
<1>2. SaysAsWritten'
    BY DEF InStep, SaysAsWritten
<1> QED BY <1>1, <1>2 DEF InStep

LEMMA PreviewIsByte ==
    ASSUME NEW b \in Preview, pos < Len(bytes)
    PROVE  b = There(0)
    BY DEF Preview

(* A token takes a byte, so there is one.                                  *)
LEMMA OperatorTakesByte ==
    ASSUME Typed, NEW t \in script.phrases, IsToken(script, t), t.is = "operator"
    PROVE  Code(script, t, 0) \in OperatorCodes /\ t.from.at < Len(bytes)
<1>1. Code(script, t, 0) \in OperatorCodes /\ Leaf(script, t, 1, << <<"op", Code(script, t, 0)>> >>)
    BY DEF IsToken
<1>2. t.to.at = t.from.at + 1
    BY <1>1 DEF Leaf, Past
<1>3. t.to.at \in 0 .. Len(bytes) /\ t.from.at \in 0 .. Len(bytes) /\ Len(bytes) \in Nat
  <2>1. t.to \in Places(script) /\ t.from \in Places(script)
      BY PhraseFacts
  <2> QED BY <2>1, PlaceIs, ScriptFacts1 DEF bytes
<1> QED BY <1>1, <1>2, <1>3

LEMMA nextInStep ==
    ASSUME Typed, InStep, next
    PROVE  InStep' /\ status' = "read"
<1>1. /\ Reading("next") /\ UNCHANGED <<script, ran, pos, out, depth, status>>
      /\ \E c \in Preview : Then(IF Now > 0 \/ c \in OPERATOR_OFFSET + 1 .. OPERATOR_LAST THEN Again(Now) ELSE <<>>)
    BY DEF next, NumberKeeps, Same, Quiet
<1>2. status = "read" /\ todo # <<>> /\ Head(todo).what = "next" /\ Now \in Int /\ Now = Head(todo).n
    BY <1>1, ReadingFacts DEF Now
<1>3. PICK b \in Places(script) :
          Leads(script, Head(todo), Here, b) /\ Path(script, Tail(todo), b, Reached(ran))
    BY <1>2, HeadLeads
<1>4. TokenEnded(script, Now, Here, b)
    BY <1>2, <1>3 DEF Leads
<1>5. PICK p \in script.phrases : \E k \in DOMAIN p.parts :
        /\ p.is = "number" /\ p.parts[k].to = Here /\ p.to = b
        /\ Completes(p.parts[k]) /\ OpenBehind(p.parts[k]) = Now
    BY <1>4 DEF TokenEnded
<1>6. PICK k \in DOMAIN p.parts :
        /\ p.is = "number" /\ p.parts[k].to = Here /\ p.to = b
        /\ Completes(p.parts[k]) /\ OpenBehind(p.parts[k]) = Now
    BY <1>5
<1>7. IsNumber(script, p) /\ IsSeq(p.parts) /\ DOMAIN p.parts = 1 .. Len(p.parts) /\ Len(p.parts) \in Nat
  <2>1. IsSeq(p.parts)
      BY PhraseFacts
  <2> QED BY <1>6, <2>1, PhraseFacts, SeqFacts DEF IsPhrase
<1>8. /\ OpenBehind(p.parts[k]) >= 0
      /\ IF k = Len(p.parts) THEN Completes(p.parts[k]) /\ OpenBehind(p.parts[k]) = 0
         ELSE /\ p.parts[k + 1].n = OpenBehind(p.parts[k])
              /\ Completes(p.parts[k]) <=> p.parts[k + 1].is \in {"operator", "close"}
    BY <1>7 DEF IsNumber
<1>9. Here' = Here /\ Here \in Places(script) /\ SaysAsWritten' /\ status' = "read"
    BY <1>1, <1>2, StaysHere
<1>10. \A c : c \in OPERATOR_OFFSET + 1 .. OPERATOR_LAST <=> c \in OperatorCodes
    BY DEF OPERATOR_OFFSET, OPERATOR_LAST, OperatorCodes
<1>11. PICK c \in Preview : Then(IF Now > 0 \/ c \in OperatorCodes THEN Again(Now) ELSE <<>>)
    BY <1>1, <1>10
<1>12. CASE k = Len(p.parts)
  <2>1. Now = 0
      BY <1>6, <1>8, <1>12
  <2>2. b = Here
    <3>1. p.parts # <<>> /\ InTurn(p.parts, p.from, p.to)
        BY <1>7 DEF IsNumber
    <3> QED BY <1>6, <1>12, <3>1 DEF InTurn
  <2>3. pos < Len(bytes) /\ There(0) \notin OperatorCodes
    <3>1. p.to.at < Len(script.bytes) /\ ByteAt(script.bytes, p.to.at) \notin OperatorCodes
        BY <1>7 DEF IsNumber, GoesOn
    <3>2. p.to.at = pos
        BY <1>6, <2>2 DEF Here
    <3>3. pos + 0 = pos
        BY <1>1, ReadingFacts
    <3> QED BY <3>1, <3>2, <3>3 DEF There, bytes
  <2>4. c = There(0)
      BY <2>3, PreviewIsByte
  <2>5. Then(<<>>)
      BY <1>11, <2>1, <2>3, <2>4
  <2> QED BY <1>1, <1>2, <1>3, <1>9, <2>2, <2>5, ItemDone
<1>13. CASE k # Len(p.parts)
  <2>1. k + 1 \in DOMAIN p.parts /\ k \in 1 .. Len(p.parts) - 1 /\ p.parts # <<>>
      BY <1>7, <1>13
  <2>2. PICK t : t = p.parts[k + 1]
      OBVIOUS
  <2>3. t.from = Here
      BY <1>6, <1>7, <2>1, <2>2 DEF IsNumber, InTurn
  <2>4. t.n = Now /\ (t.is = "operator" \/ t.is = "close")
      BY <1>6, <1>8, <1>13, <2>2
  <2>5. t \in script.phrases /\ IsToken(script, t) /\ OpenBehind(t) >= 0
      BY <1>6, <2>1, <2>2, TokenBehind
  <2>6. Then(Again(Now))
    <3>1. CASE Now > 0
        BY <1>11, <3>1
    <3>2. CASE ~(Now > 0)
      <4>1. t.is = "operator"
        <5>1. Now >= 0
            BY <1>6, <1>8
        <5>2. t.is = "close" => OpenBehind(t) = Now + -1
            BY <2>4 DEF OpenBehind
        <5> QED BY <1>2, <2>4, <2>5, <3>2, <5>1, <5>2
      <4>2. Code(script, t, 0) \in OperatorCodes /\ t.from.at < Len(bytes)
          BY <2>5, <4>1, OperatorTakesByte
      <4>3. pos < Len(bytes) /\ There(0) \in OperatorCodes
        <5>1. t.from.at = pos /\ Code(script, t, 0) = There(0)
            BY <2>3, SameBytes DEF Here
        <5> QED BY <4>2, <5>1
      <4>4. c = There(0)
          BY <4>3, PreviewIsByte
      <4> QED BY <1>11, <4>3, <4>4
    <3> QED BY <3>1, <3>2
  <2>7. TokenBegins(script, Now, Here, b)
      BY <1>6, <2>1, <2>2, <2>3, <2>4 DEF TokenBegins
  <2>8. Leads(script, Item("number", Now), Here, b)
      BY <2>7 DEF Leads, Item
  <2>9. Path(script, Again(Now), Here', b)
      BY <1>9, <2>8, PathOne DEF Again
  <2>10. Again(Now) \in Seq(Items)
      BY <1>2, NumberSeqs
  <2> QED BY <1>1, <1>2, <1>3, <1>9, <2>6, <2>9, <2>10, StepsOn
<1> QED BY <1>12, <1>13

------------------------------------------------------------------------------
(* Paths, texts and variables are. *)

(* The phrase that is read next, when it is read in one step or is left to *)
(* its parts.                                                              *)
LEMMA PhraseAhead ==
    ASSUME Typed, InStep, NEW what, Reading(what),
           what \in {"text", "complex", "variable", "bounds", "deeper", "shallower"}
    PROVE  \E p \in script.phrases :
              /\ p.is = what /\ p.from = Here /\ p.to \in Places(script) /\ IsPhrase(script, p)
              /\ what = "complex" => p.n = Now
              /\ Path(script, Tail(todo), p.to, Reached(ran))
<1>1. status = "read" /\ todo # <<>> /\ Head(todo).what = what /\ Now = Head(todo).n
    BY ReadingFacts DEF Now
<1>2. PICK b \in Places(script) :
          Leads(script, Head(todo), Here, b) /\ Path(script, Tail(todo), b, Reached(ran))
    BY <1>1, HeadLeads
<1>3. OnePhrase(script, Head(todo), Here, b)
    BY <1>1, <1>2 DEF Leads
<1>4. PICK p \in script.phrases : /\ p.is = Head(todo).what /\ p.from = Here /\ p.to = b
                                  /\ p.is = "complex" => p.n = Head(todo).n
    BY <1>3 DEF OnePhrase
<1>5. IsPhrase(script, p)
    BY PhraseFacts
<1> QED BY <1>1, <1>2, <1>4, <1>5

(* A phrase without parts has been read.                                   *)
LEMMA WholeRead ==
    ASSUME Typed, InStep, NEW what, Reading(what), NEW p \in script.phrases, p.from = Here,
           Path(script, Tail(todo), p.to, Reached(ran)), NEW n \in Nat, NEW pieces, IsSeq(pieces),
           Leaf(script, p, n, pieces), out' = out \o pieces, Fetch(n, "read"), Then(<<>>),
           UNCHANGED <<script, ran, depth>>
    PROVE  InStep' /\ status' = "read"
<1>1. status = "read" /\ todo # <<>> /\ p.to \in Places(script)
    BY ReadingFacts, PhraseFacts
<1>2. Here' = p.to /\ SaysAsWritten' /\ status' = "read"
    BY <1>1, LeafRead
<1> QED BY <1>1, <1>2, ItemDone

LEMMA boundsInStep ==
    ASSUME Typed, InStep, bounds
    PROVE  InStep' /\ status' = "read"
<1> DEFINE nothing == <<>>
<1>1. /\ Reading("bounds") /\ Fetch(2, "read") /\ Then(<<>>) /\ UNCHANGED <<script, ran, depth>> /\ UNCHANGED out
    BY DEF bounds, Same, Quiet
<1>2. PICK p \in script.phrases : /\ p.is = "bounds" /\ p.from = Here /\ IsPhrase(script, p)
                                  /\ Path(script, Tail(todo), p.to, Reached(ran))
    BY <1>1, PhraseAhead
<1>3. Leaf(script, p, 2, nothing)
    BY <1>2 DEF IsPhrase
<1>4. IsSeq(nothing) /\ out' = out \o nothing
    BY <1>1, PiecesAreSeq, SaysOne
<1> HIDE DEF nothing
<1>5. 2 \in Nat
    OBVIOUS
<1> QED BY <1>1, <1>2, <1>3, <1>4, <1>5, WholeRead

LEMMA nestInStep ==
    ASSUME Typed, InStep, nest
    PROVE  InStep' /\ status' = "read"
<1>1. /\ Then(<<>>) /\ UNCHANGED <<script, ran, pos, out, status>>
      /\ \/ Reading("deeper") /\ depth' = (depth + 1) % 2^16
         \/ Reading("shallower") /\ depth' = (depth - 1) % 2^16
    BY DEF nest, Same, Quiet
<1>2. status = "read" /\ todo # <<>> /\ depth \in Depths
    BY <1>1, ReadingFacts
<1>3. ASSUME NEW by \in Int, NEW p \in script.phrases, p.to = Nested(Here, by), depth' = (depth + by) % 2^16,
             Path(script, Tail(todo), p.to, Reached(ran))
      PROVE  InStep'
  <2>1. Here' = p.to
    <3>1. Here.at = pos /\ Here.said = Len(out) /\ Here.depth = depth
        BY DEF Here
    <3>2. Nested(Here, by) = [at |-> pos, said |-> Len(out), depth |-> depth']
        BY <1>3, <3>1 DEF Nested
    <3>3. Here' = [at |-> pos, said |-> Len(out), depth |-> depth']
        BY <1>1 DEF Here
    <3> QED BY <1>3, <3>2, <3>3
  <2>2. SaysAsWritten'
      BY <1>1 DEF InStep, SaysAsWritten
  <2>3. p.to \in Places(script)
      BY PhraseFacts
  <2> QED BY <1>1, <1>2, <1>3, <2>1, <2>2, <2>3, ItemDone
<1>4. CASE Reading("deeper") /\ depth' = (depth + 1) % 2^16
  <2>1. PICK p \in script.phrases : /\ p.is = "deeper" /\ p.from = Here /\ IsPhrase(script, p)
                                    /\ Path(script, Tail(todo), p.to, Reached(ran))
      BY <1>4, PhraseAhead
  <2>2. p.to = Nested(Here, 1)
      BY <2>1 DEF IsPhrase
  <2> QED BY <1>1, <1>2, <1>3, <1>4, <2>1, <2>2
<1>5. CASE Reading("shallower") /\ depth' = (depth - 1) % 2^16
  <2>1. PICK p \in script.phrases : /\ p.is = "shallower" /\ p.from = Here /\ IsPhrase(script, p)
                                    /\ Path(script, Tail(todo), p.to, Reached(ran))
      BY <1>5, PhraseAhead
  <2>2. p.to = Nested(Here, -1)
      BY <2>1 DEF IsPhrase
  <2>3. depth' = (depth + -1) % 2^16 /\ -1 \in Int
    <3>1. depth \in Int /\ depth - 1 = depth + -1
        BY <1>2 DEF Depths
    <3> QED BY <1>5, <3>1
  <2> QED BY <1>1, <1>2, <1>3, <2>1, <2>2, <2>3
<1> QED BY <1>1, <1>2, <1>4, <1>5

(* The text that gpl_log frees is in no sound command.                     *)
LEMMA freeInStep ==
    ASSUME Typed, InStep, free
    PROVE  FALSE
<1>1. Reading("free")
    BY DEF free
<1>2. todo # <<>> /\ Head(todo).what = "free"
    BY <1>1, ReadingFacts
<1>3. PICK b \in Places(script) : Leads(script, Head(todo), Here, b)
    BY <1>2, HeadLeads
<1> QED BY <1>2, <1>3 DEF Leads

LEMMA PackedBytes ==
    ASSUME NEW codes \in Seq(Codes)
    PROVE  /\ DOMAIN Pack(codes) = 1 .. PackedLen(Len(codes))
           /\ \A k \in DOMAIN Pack(codes) : Pack(codes)[k] = PackedByte(codes, k - 1)
    BY DEF Pack

(* A text that is packed at a place is read as it was written.             *)
LEMMA TextThere ==
    ASSUME NEW codes \in Seq(Codes \ {EndMark}), Len(codes) < TextStringSize - 1,
           NEW data \in Seq(Byte), NEW p \in Nat,
           \A k \in DOMAIN Pack(Append(codes, EndMark)) :
               ByteAt(data, (p + k) - 1) = Pack(Append(codes, EndMark))[k]
    PROVE  /\ CodesTaken(data, p) = Len(codes) + 1
           /\ \A k \in 1 .. Len(codes) : Window(data, p, k - 1) = codes[k]
           /\ Window(data, p, Len(codes)) = EndMark
<1> DEFINE all == Append(codes, EndMark)
<1>1. /\ all \in Seq(Codes) /\ Len(all) = Len(codes) + 1 /\ Len(codes) \in Nat /\ all[Len(codes) + 1] = EndMark
      /\ \A k \in 1 .. Len(codes) : all[k] = codes[k] /\ codes[k] # EndMark
  <2>1. codes \in Seq(Codes) /\ EndMark \in Codes
      BY DEF Codes, EndMark
  <2>2. \A k \in 1 .. Len(codes) : codes[k] # EndMark
      OBVIOUS
  <2> QED BY <2>1, <2>2
<1>2. PackedLen(Len(all)) \in Nat
    BY <1>1, OneMoreCode
<1>3. \A k \in DOMAIN Pack(all) : ByteAt(data, (p + k) - 1) = Pack(all)[k]
    OBVIOUS
<1> HIDE DEF all
<1>4. ASSUME NEW k \in Nat, k < PackedLen(Len(all))
      PROVE  ByteAt(data, p + k) = PackedByte(all, k)
  <2>1. k + 1 \in DOMAIN Pack(all) /\ (p + (k + 1)) - 1 = p + k /\ (k + 1) - 1 = k
      BY <1>1, <1>2, <1>4, PackedBytes
  <2>2. Pack(all)[k + 1] = PackedByte(all, k)
      BY <1>1, <2>1, PackedBytes
  <2> QED BY <1>3, <2>1, <2>2
<1>5. \A n \in Nat : n < Len(all) => Window(data, p, n) = all[n + 1]
    BY <1>1, <1>4, CodeOfPackAt
<1>6. \A k \in 1 .. Len(codes) : Window(data, p, k - 1) = codes[k] /\ Window(data, p, k - 1) # EndMark
  <2> TAKE k \in 1 .. Len(codes)
  <2>1. k - 1 \in Nat /\ k - 1 < Len(all) /\ (k - 1) + 1 = k
      BY <1>1
  <2> QED BY <1>1, <1>5, <2>1
<1>7. Window(data, p, Len(codes)) = EndMark
    BY <1>1, <1>5
<1>8. CodesTaken(data, p) = Len(codes) + 1
  <2> DEFINE n == Len(codes) + 1
  <2>1. n \in 0 .. TextStringSize /\ n \in 1 .. TextStringSize - 1 /\ n - 1 = Len(codes)
      BY <1>1, SizeAssumption
  <2>2. ASSUME NEW k \in 0 .. n - 2 PROVE Window(data, p, k) # EndMark
    <3>1. k + 1 \in 1 .. Len(codes) /\ (k + 1) - 1 = k
        BY <1>1
    <3> QED BY <1>6, <3>1
  <2>3. Chosen(data, p, n)
      BY <1>7, <2>1, <2>2 DEF Chosen
  <2> QED BY <2>1, <2>3, CodesTakenIsChosen
<1> QED BY <1>6, <1>7, <1>8

LEMMA CharactersAre ==
    ASSUME NEW codes \in Seq(Codes \ {EndMark}), CodesTaken(bytes, pos + 1) = Len(codes) + 1,
           \A k \in 1 .. Len(codes) : Window(bytes, pos + 1, k - 1) = codes[k],
           Window(bytes, pos + 1, Len(codes)) = EndMark
    PROVE  Characters = [k \in DOMAIN codes |-> Shown(codes[k])]
<1>1. /\ Len(codes) \in Nat /\ (Len(codes) + 1) - 1 = Len(codes) /\ Len(codes) + 1 > 0
      /\ DOMAIN codes = 1 .. Len(codes)
    OBVIOUS
<1>2. Characters = [k \in 1 .. Len(codes) |-> Shown(Window(bytes, pos + 1, k - 1))]
    BY <1>1 DEF Characters
<1> QED BY <1>1, <1>2

LEMMA textInStep ==
    ASSUME Typed, InStep, text
    PROVE  InStep' /\ status' = "read"
<1>1. /\ Reading("text") /\ Then(<<>>) /\ UNCHANGED <<script, ran, depth>>
      /\ There(0) = 1 => Fetch(1, "read") /\ Says(<<"introduction">>)
      /\ There(0) = 5 => Fetch(1 + BytesTaken(bytes, pos + 1), "read") /\ Says(<<"text", Characters>>)
    BY DEF text, Same
<1>2. PICK p \in script.phrases : /\ p.is = "text" /\ p.from = Here /\ IsPhrase(script, p)
                                  /\ Path(script, Tail(todo), p.to, Reached(ran))
    BY <1>1, PhraseAhead
<1>3. IsText(script, p) /\ Code(script, p, 0) = There(0)
    BY <1>2, SameBytes DEF IsPhrase
<1>4. pos \in Nat /\ bytes \in Seq(Byte)
    BY <1>1, ReadingFacts, ScriptFacts1
<1>5. \A e : Says(e) => out' = out \o <<e>>
    BY SaysOne DEF Says
<1>6. CASE There(0) = 1
  <2> DEFINE pieces == << <<"introduction">> >>
  <2>1. Leaf(script, p, 1, pieces)
      BY <1>3, <1>6 DEF IsText
  <2>2. Fetch(1, "read") /\ Says(<<"introduction">>)
      BY <1>1, <1>6
  <2>3. IsSeq(pieces) /\ out' = out \o pieces
      BY <1>5, <2>2, PiecesAreSeq
  <2> HIDE DEF pieces
  <2>4. 1 \in Nat
      OBVIOUS
  <2> QED BY <1>1, <1>2, <2>1, <2>2, <2>3, <2>4, WholeRead
<1>7. CASE There(0) # 1
  <2> DEFINE codes == p.codes
             shown == [k \in DOMAIN codes |-> Shown(codes[k])]
             pieces == << <<"text", shown>> >>
             n == 1 + PackedLen(Len(codes) + 1)
  <2>1. /\ There(0) = 5 /\ codes \in Seq(Codes \ {EndMark}) /\ Len(codes) < TextStringSize - 1
        /\ \A k \in DOMAIN Pack(Append(codes, EndMark)) :
              Code(script, p, k) = Pack(Append(codes, EndMark))[k]
        /\ Leaf(script, p, n, pieces)
      BY <1>3, <1>7 DEF IsText
  <2> HIDE DEF codes
  <2>2. ASSUME NEW k \in DOMAIN Pack(Append(codes, EndMark))
        PROVE  ByteAt(bytes, ((pos + 1) + k) - 1) = Pack(Append(codes, EndMark))[k]
    <3>1. Append(codes, EndMark) \in Seq(Codes)
      <4>1. codes \in Seq(Codes) /\ EndMark \in Codes
          BY <2>1 DEF Codes, EndMark
      <4> QED BY <4>1
    <3>2. k \in Int
        BY <3>1, PackedBytes
    <3>3. ((pos + 1) + k) - 1 = pos + k
        BY <1>4, <3>2
    <3>4. p.from.at = pos
        BY <1>2 DEF Here
    <3> QED BY <2>1, <3>3, <3>4 DEF Code, bytes
  <2>3. /\ CodesTaken(bytes, pos + 1) = Len(codes) + 1
        /\ \A k \in 1 .. Len(codes) : Window(bytes, pos + 1, k - 1) = codes[k]
        /\ Window(bytes, pos + 1, Len(codes)) = EndMark
    <3>1. pos + 1 \in Nat
        BY <1>4
    <3> QED BY <1>4, <2>1, <2>2, <3>1, TextThere
  <2>4. Characters = shown
      BY <2>1, <2>3, CharactersAre
  <2>5. BytesTaken(bytes, pos + 1) = PackedLen(Len(codes) + 1)
      BY <2>3 DEF BytesTaken
  <2>6. Fetch(n, "read") /\ Says(<<"text", shown>>)
      BY <1>1, <2>1, <2>4, <2>5
  <2>7. IsSeq(pieces) /\ out' = out \o pieces
      BY <1>5, <2>6, PiecesAreSeq
  <2>8. n \in Nat
    <3>1. Len(codes) + 1 \in Nat
        BY <2>1
    <3>2. \A m \in Nat : PackedLen(m) \in Nat
        BY OneMoreCode
    <3>3. PackedLen(Len(codes) + 1) \in Nat
        BY <3>1, <3>2
    <3> QED BY <3>3
  <2> HIDE DEF n, pieces
  <2> QED BY <1>1, <1>2, <2>1, <2>6, <2>7, <2>8, WholeRead
<1> QED BY <1>6, <1>7

LEMMA complexInStep ==
    ASSUME Typed, InStep, complex
    PROVE  InStep' /\ status' = "read"
<1> DEFINE first == IF There(2) = 0 THEN 0 ELSE There(3)
           shown == << <<"object", Word(0)>>, <<"element", There(2), first>> >>
           set == << <<"object", Word(0)>>, <<"set_element", There(2), first>> >>
           record == << <<"object", Word(0)>> >>
           lost == << <<"no object">> >>
<1>1. Reading("complex") /\ Then(<<>>) /\ UNCHANGED <<script, ran, depth>>
    BY DEF complex, Same
<1>2. /\ ObjectKnown =>
            /\ \E then \in IF There(2) > MaxSearchStack THEN {"read", "crashed"} ELSE {"read"} :
                  Fetch(3 + There(2), then)
            /\ out' = out \o PathShown
      /\ ~ObjectKnown => Fetch(2, "read") /\ (Now # Record => Says(<<"no object">>))
    BY DEF complex
<1>3. PICK p \in script.phrases : /\ p.is = "complex" /\ p.from = Here /\ IsPhrase(script, p) /\ p.n = Now
                                  /\ Path(script, Tail(todo), p.to, Reached(ran))
    BY <1>1, PhraseAhead
<1>4. /\ CodeWord(script, p, 0) = Word(0) /\ Code(script, p, 2) = There(2) /\ Code(script, p, 3) = There(3)
    BY <1>3, SameBytes
<1>5. ObjectKnown <=> Known(Word(0))
    BY DEF ObjectKnown, Known, Names, CurrentObjects
<1>6. \/ /\ Known(Word(0)) /\ There(2) <= MaxSearchStack
         /\ \/ p.n = Read /\ Leaf(script, p, 3 + There(2), shown)
            \/ p.n = Write /\ Leaf(script, p, 3 + There(2), set)
            \/ p.n = Record /\ Leaf(script, p, 3 + There(2), record)
      \/ ~Known(Word(0)) /\ (p.n = Read \/ p.n = Write) /\ Leaf(script, p, 2, lost)
    BY <1>3, <1>4 DEF IsPhrase, IsPath
<1>7. /\ Now = Read => PathShown = shown
      /\ Now = Write => PathShown = set
      /\ Now = Record => PathShown = record
    BY DEF PathShown, Read, Write, Record
<1>8. IsSeq(shown) /\ IsSeq(set) /\ IsSeq(record) /\ IsSeq(lost)
    BY PiecesAreSeq
<1>9. Says(<<"no object">>) => out' = out \o lost
    BY SaysOne DEF Says
<1> HIDE DEF shown, set, record, lost
<1>10. There(2) \in Nat /\ 3 + There(2) \in Nat
    BY ThereIsByte DEF Byte
<1>11. CASE Known(Word(0))
  <2>1. There(2) <= MaxSearchStack
      BY <1>6, <1>11
  <2>2. ~(There(2) > MaxSearchStack)
      BY <1>10, <2>1, BoundsAssumption
  <2>3. Fetch(3 + There(2), "read") /\ out' = out \o PathShown
      BY <1>2, <1>5, <1>11, <2>2
  <2>4. Leaf(script, p, 3 + There(2), PathShown) /\ IsSeq(PathShown)
      BY <1>3, <1>6, <1>7, <1>8, <1>11
  <2> QED BY <1>1, <1>3, <1>10, <2>3, <2>4, WholeRead
<1>12. CASE ~Known(Word(0))
  <2>1. (p.n = Read \/ p.n = Write) /\ Leaf(script, p, 2, lost)
      BY <1>6, <1>12
  <2>2. Now # Record
      BY <1>3, <2>1 DEF Read, Write, Record
  <2>3. Fetch(2, "read") /\ out' = out \o lost /\ 2 \in Nat
      BY <1>2, <1>5, <1>9, <1>12, <2>2
  <2> QED BY <1>1, <1>3, <1>8, <2>1, <2>3, WholeRead
<1> QED BY <1>11, <1>12

(* A variable that is set is given by its type.                            *)
SetTypes == {2, 5, 7, 10, 13, 14}

LEMMA load_variableInStep ==
    ASSUME Typed, InStep, load_variable
    PROVE  InStep' /\ status' = "read"
<1> DEFINE datatype == There(0) % 64
           extended == There(0) % 128 >= 64
           k == IF extended THEN 3 ELSE 2
           n == IF extended THEN Word(1) ELSE There(1)
           pieces == << <<"set", datatype, n>> >>
<1>1. /\ Reading("variable") /\ UNCHANGED <<script, ran, depth>>
      /\ datatype < 16 => /\ Fetch(k, IF datatype \in SetTypes THEN "read" ELSE "crashed")
                          /\ Says(<<"set", datatype, n>>) /\ Then(<<>>)
      /\ ~(datatype < 16) => Fetch(1, "read") /\ UNCHANGED out /\ Then(Complex(Write))
    BY DEF load_variable, Same, Quiet, SetTypes
<1>2. PICK p \in script.phrases : /\ p.is = "variable" /\ p.from = Here /\ IsPhrase(script, p)
                                  /\ p.to \in Places(script) /\ Path(script, Tail(todo), p.to, Reached(ran))
    BY <1>1, PhraseAhead
<1>3. /\ Code(script, p, 0) = There(0) /\ Code(script, p, 1) = There(1) /\ CodeWord(script, p, 1) = Word(1)
    BY <1>2, SameBytes
<1>4. \/ \E type \in SetTypes :
            \/ There(0) = 128 + type /\ Leaf(script, p, 2, << <<"set", type, There(1)>> >>)
            \/ There(0) = 192 + type /\ Leaf(script, p, 3, << <<"set", type, Word(1)>> >>)
      \/ /\ There(0) = 177 /\ Branch(script, p, 1, <<>>, p.to)
         /\ Len(p.parts) = 1 /\ p.parts[1].is = "complex" /\ p.parts[1].n = Write
    BY <1>2, <1>3 DEF IsPhrase, IsVariable, SetTypes
<1>5. CASE There(0) # 177
  <2>1. PICK type \in SetTypes :
            \/ There(0) = 128 + type /\ Leaf(script, p, 2, << <<"set", type, There(1)>> >>)
            \/ There(0) = 192 + type /\ Leaf(script, p, 3, << <<"set", type, Word(1)>> >>)
      BY <1>4, <1>5
  <2>2. type \in Int /\ 0 <= type /\ type < 16
      BY DEF SetTypes
  <2>3. datatype = type
      BY <2>1, <2>2
  <2>4. (There(0) = 128 + type => ~extended) /\ (There(0) = 192 + type => extended)
      BY <2>2
  <2>5. Leaf(script, p, k, pieces)
      BY <2>1, <2>3, <2>4
  <2>6. Fetch(k, "read") /\ Says(<<"set", datatype, n>>) /\ Then(<<>>)
      BY <1>1, <2>2, <2>3
  <2>7. IsSeq(pieces) /\ out' = out \o pieces
      BY <2>6, PiecesAreSeq, SaysOne DEF Says
  <2>8. k \in Nat
      OBVIOUS
  <2> HIDE DEF k, pieces
  <2> QED BY <1>1, <1>2, <2>5, <2>6, <2>7, <2>8, WholeRead
<1>6. CASE There(0) = 177
  <2>1. ~(datatype < 16)
      BY <1>6
  <2> DEFINE nothing == <<>>
             items == Complex(Write)
  <2>2. Fetch(1, "read") /\ UNCHANGED out /\ Then(items)
      BY <1>1, <2>1
  <2>3. /\ Branch(script, p, 1, nothing, p.to)
        /\ Len(p.parts) = 1 /\ p.parts[1].is = "complex" /\ p.parts[1].n = Write
    <3>1. ASSUME NEW type \in SetTypes, There(0) = 128 + type \/ There(0) = 192 + type PROVE FALSE
      <4>1. type \in Int /\ 0 <= type /\ type < 16
          BY DEF SetTypes
      <4> QED BY <1>6, <3>1, <4>1
    <3> QED BY <1>4, <3>1
  <2>4. IsSeq(nothing) /\ out' = out \o nothing /\ status = "read" /\ todo # <<>> /\ 1 \in Nat
      BY <1>1, <2>2, PiecesAreSeq, SaysOne, ReadingFacts
  <2> HIDE DEF nothing, items
  <2>5. InTurn(p.parts, Here', p.to) /\ Here' \in Places(script) /\ SaysAsWritten' /\ status' = "read"
      BY <1>1, <1>2, <2>2, <2>3, <2>4, BranchRead
  <2>6. /\ 1 \in DOMAIN p.parts /\ p.parts[1] \in script.phrases /\ p.parts # <<>>
    <3>1. 1 \in DOMAIN p.parts /\ p.parts # <<>>
        BY <2>3, PhraseFacts, SeqFacts
    <3> QED BY <3>1, PhraseFacts
  <2>7. p.parts[1].from = Here' /\ p.parts[1].to = p.to
      BY <2>3, <2>5, <2>6 DEF InTurn
  <2>8. OnePhrase(script, Item("complex", Write), Here', p.to)
      BY <2>3, <2>6, <2>7 DEF OnePhrase, Item
  <2>9. Leads(script, Item("complex", Write), Here', p.to)
      BY <2>8 DEF Leads, Item
  <2>10. Path(script, items, Here', p.to) /\ items \in Seq(Items)
      BY <1>2, <2>5, <2>9, PathOne, ItemsRead DEF Complex, items
  <2> QED BY <1>1, <1>2, <2>2, <2>4, <2>5, <2>10, StepsOn
<1> QED BY <1>5, <1>6

------------------------------------------------------------------------------
(* Searches and menus are. *)

LEMMA NumberLeads ==
    ASSUME Typed, NEW q \in script.phrases, q.is = "number"
    PROVE  Leads(script, Item("number", 0), q.from, q.to)
<1>1. q.n = 0
    BY PhraseFacts DEF IsPhrase
<1>2. q.is = Item("number", 0).what /\ q.n = Item("number", 0).n /\ q.is \in Kinds
    BY <1>1 DEF Item, Kinds
<1> QED BY <1>2, PhraseLeads

(* The fields of a search.                                                 *)
LEMMA FieldFacts ==
    ASSUME Typed, NEW p \in script.phrases, p.is = "field", NEW k \in DOMAIN p.parts, NEW f, f = p.parts[k]
    PROVE  /\ f \in script.phrases /\ f.to \in Places(script) /\ IsSeq(f.parts)
           /\ IsField(script, f, 1) \/ (k = 1 /\ IsField(script, f, 0))
<1>1. IsFields(script, p) /\ f \in script.phrases
    BY PhraseFacts DEF IsPhrase
<1>2. \E marked \in (IF k = 1 THEN {0, 1} ELSE {1}) : IsField(script, f, marked)
    BY <1>1 DEF IsFields
<1>3. f.to \in Places(script) /\ IsSeq(f.parts)
    BY <1>1, PhraseFacts
<1> QED BY <1>1, <1>2, <1>3

LEMMA FieldItems ==
    <<Item("more fields", 0)>> \in Seq(Items) /\ <<Item("field", 0)>> \in Seq(Items) /\ Again(0) \in Seq(Items)
<1>1. Item("more fields", 0) \in Items /\ Item("field", 0) \in Items /\ Item("number", 0) \in Items
    BY DEF Item, Items, Whats
<1> QED BY <1>1, OneIsSeq DEF Again

LEMMA fieldInStep ==
    ASSUME Typed, InStep, field
    PROVE  InStep' /\ status' = "read"
<1> DEFINE at == IF There(0) = SEARCH_QUAL THEN 1 ELSE 0
           pieces == << <<"field", There(at), There(at + 1)>> >>
           numbers == IF There(at + 1) \in {4, 5} THEN Again(0) ELSE <<>>
           more == <<Item("more fields", 0)>>
<1>1. /\ Reading("field") /\ Fetch(at + 2, "read") /\ out' = Append(out, <<"field", There(at), There(at + 1)>>)
      /\ Then(numbers \o more) /\ UNCHANGED <<script, ran, depth>>
    BY DEF field, Same, Says
<1>2. status = "read" /\ todo # <<>> /\ Head(todo).what = "field"
    BY <1>1, ReadingFacts
<1>3. PICK b \in Places(script) :
          Leads(script, Head(todo), Here, b) /\ Path(script, Tail(todo), b, Reached(ran))
    BY <1>2, HeadLeads
<1>4. FieldBegins(script, Here, b)
    BY <1>2, <1>3 DEF Leads
<1>5. PICK p \in script.phrases : \E k \in DOMAIN p.parts :
          p.is = "field" /\ p.parts[k].from = Here /\ p.to = b
    BY <1>4 DEF FieldBegins
<1>6. PICK k \in DOMAIN p.parts : p.is = "field" /\ p.parts[k].from = Here /\ p.to = b
    BY <1>5
<1>7. PICK f : f = p.parts[k]
    OBVIOUS
<1>8. /\ f \in script.phrases /\ f.from = Here /\ f.to \in Places(script) /\ IsSeq(f.parts)
      /\ IsField(script, f, 1) \/ IsField(script, f, 0)
    BY <1>6, <1>7, FieldFacts
<1>9. \A j \in Nat : Code(script, f, j) = There(j)
    BY <1>8, SameBytes
<1>10. IsField(script, f, at)
  <2>1. IsField(script, f, 1) => There(0) = 83
      BY <1>9 DEF IsField, FieldMark
  <2>2. IsField(script, f, 0) => There(0) # 83
      BY <1>9 DEF IsField, FieldMark
  <2> QED BY <1>8, <2>1, <2>2 DEF SEARCH_QUAL
<1>11. at \in Nat /\ at + 1 \in Nat /\ at + 2 \in Nat
    OBVIOUS
<1>12. /\ Branch(script, f, at + 2, pieces, f.to)
       /\ IF There(at + 1) \in {4, 5} THEN Len(f.parts) = 1 /\ f.parts[1].is = "number" ELSE f.parts = <<>>
    BY <1>9, <1>10, <1>11 DEF IsField
<1>13. IsSeq(pieces) /\ out' = out \o pieces
  <2> DEFINE piece == <<"field", There(at), There(at + 1)>>
  <2>1. out' = Append(out, piece) /\ pieces = <<piece>>
      BY <1>1
  <2> HIDE DEF piece, pieces
  <2> QED BY <2>1, PiecesAreSeq, SaysOne
<1>14. more \in Seq(Items) /\ numbers \in Seq(Items)
    BY FieldItems, EmptyIsSeq
<1>15. (There(at + 1) \in {4, 5} => numbers = Again(0)) /\ (There(at + 1) \notin {4, 5} => numbers = <<>>)
    OBVIOUS
<1> HIDE DEF at, pieces, numbers
<1>16. InTurn(f.parts, Here', f.to) /\ Here' \in Places(script) /\ SaysAsWritten' /\ status' = "read"
    BY <1>1, <1>2, <1>8, <1>11, <1>12, <1>13, BranchRead
<1>17. Path(script, numbers, Here', f.to)
  <2>1. CASE There(at + 1) \in {4, 5}
    <3>1. Len(f.parts) = 1 /\ f.parts[1].is = "number"
        BY <1>12, <2>1
    <3>2. 1 \in DOMAIN f.parts /\ f.parts # <<>> /\ f.parts[1] \in script.phrases
      <4>1. 1 \in DOMAIN f.parts /\ f.parts # <<>>
          BY <1>8, <3>1, SeqFacts
      <4> QED BY <1>8, <4>1, PhraseFacts
    <3>3. f.parts[1].from = Here' /\ f.parts[1].to = f.to
        BY <1>16, <3>1, <3>2 DEF InTurn
    <3>4. Leads(script, Item("number", 0), Here', f.to)
        BY <3>1, <3>2, <3>3, NumberLeads
    <3> QED BY <1>8, <1>15, <1>16, <2>1, <3>4, PathOne DEF Again
  <2>2. CASE There(at + 1) \notin {4, 5}
    <3>1. f.parts = <<>>
        BY <1>12, <2>2
    <3>2. Here' = f.to
        BY <1>16, <3>1 DEF InTurn
    <3> QED BY <1>8, <1>15, <2>2, <3>2, PathNone
  <2> QED BY <2>1, <2>2
<1>18. Path(script, more, f.to, b)
  <2>1. FieldEnded(script, f.to, b)
      BY <1>6, <1>7 DEF FieldEnded
  <2>2. Leads(script, Item("more fields", 0), f.to, b)
      BY <2>1 DEF Leads, Item
  <2> QED BY <1>3, <1>8, <2>2, PathOne
<1> HIDE DEF more
<1>19. numbers \o more \in Seq(Items) /\ Path(script, numbers \o more, Here', b)
    BY <1>14, <1>17, <1>18, InTurnRead, PathConcat
<1> QED BY <1>1, <1>2, <1>3, <1>16, <1>19, StepsOn

LEMMA more_fieldsInStep ==
    ASSUME Typed, InStep, more_fields
    PROVE  InStep' /\ status' = "read"
<1>1. /\ Reading("more fields") /\ UNCHANGED <<script, ran, pos, out, depth, status>>
      /\ \E c \in Preview : Then(IF c = SEARCH_QUAL THEN <<Item("field", 0)>> ELSE <<>>)
    BY DEF more_fields, Same, Quiet
<1>2. status = "read" /\ todo # <<>> /\ Head(todo).what = "more fields"
    BY <1>1, ReadingFacts
<1>3. PICK b \in Places(script) :
          Leads(script, Head(todo), Here, b) /\ Path(script, Tail(todo), b, Reached(ran))
    BY <1>2, HeadLeads
<1>4. FieldEnded(script, Here, b)
    BY <1>2, <1>3 DEF Leads
<1>5. PICK p \in script.phrases : \E k \in DOMAIN p.parts :
          p.is = "field" /\ p.parts[k].to = Here /\ p.to = b
    BY <1>4 DEF FieldEnded
<1>6. PICK k \in DOMAIN p.parts : p.is = "field" /\ p.parts[k].to = Here /\ p.to = b
    BY <1>5
<1>7. IsFields(script, p) /\ IsSeq(p.parts) /\ DOMAIN p.parts = 1 .. Len(p.parts) /\ Len(p.parts) \in Nat
  <2>1. IsSeq(p.parts)
      BY PhraseFacts
  <2> QED BY <1>6, <2>1, PhraseFacts, SeqFacts DEF IsPhrase
<1>8. /\ p.parts # <<>> /\ InTurn(p.parts, p.from, p.to) /\ GoesOn(script, p.to, {FieldMark})
    BY <1>7 DEF IsFields
<1>9. Here' = Here /\ Here \in Places(script) /\ SaysAsWritten' /\ status' = "read"
    BY <1>1, <1>2, StaysHere
<1>10. PICK c \in Preview : Then(IF c = 83 THEN <<Item("field", 0)>> ELSE <<>>)
    BY <1>1 DEF SEARCH_QUAL
<1>11. CASE k = Len(p.parts)
  <2>1. b = Here
      BY <1>6, <1>8, <1>11 DEF InTurn
  <2>2. pos < Len(bytes) /\ There(0) # 83
    <3>1. p.to.at < Len(script.bytes) /\ ByteAt(script.bytes, p.to.at) # 83
        BY <1>8 DEF GoesOn, FieldMark
    <3>2. p.to.at = pos
        BY <1>6, <2>1 DEF Here
    <3>3. pos \in Nat
        BY <1>1, ReadingFacts
    <3>4. pos + 0 = pos
        BY <3>3
    <3> QED BY <3>1, <3>2, <3>4 DEF There, bytes
  <2>3. c # 83
      BY <2>2, PreviewIsByte
  <2>4. Then(<<>>)
      BY <1>10, <2>3
  <2> QED BY <1>1, <1>2, <1>3, <1>9, <2>1, <2>4, ItemDone
<1>12. CASE k # Len(p.parts)
  <2>1. k + 1 \in DOMAIN p.parts /\ k \in 1 .. Len(p.parts) - 1 /\ k + 1 # 1
      BY <1>7, <1>12
  <2>2. PICK f : f = p.parts[k + 1]
      OBVIOUS
  <2>3. f.from = Here
      BY <1>6, <1>8, <2>1, <2>2 DEF InTurn
  <2>4. f \in script.phrases /\ f.to \in Places(script) /\ IsField(script, f, 1)
      BY <1>6, <2>1, <2>2, FieldFacts
  <2> DEFINE pieces == << <<"field", Code(script, f, 1), Code(script, f, 2)>> >>
  <2>5. Branch(script, f, 3, pieces, f.to) /\ Code(script, f, 0) = 83
      BY <2>4 DEF IsField, FieldMark
  <2> HIDE DEF pieces
  <2>6. There(0) = 83
      BY <2>3, <2>5, SameBytes
  <2>7. pos < Len(bytes)
    <3>1. Past(f.from, 3, Len(pieces)) \in Places(script)
        BY <2>4, <2>5, BranchStart
    <3>2. Past(f.from, 3, Len(pieces)).at = pos + 3
        BY <2>3 DEF Past, Here
    <3>3. pos + 3 \in 0 .. Len(bytes)
        BY <3>1, <3>2, PlaceIs DEF bytes
    <3>4. pos \in Nat /\ Len(bytes) \in Nat
        BY <1>1, ReadingFacts, ScriptFacts1
    <3> QED BY <3>3, <3>4
  <2>8. c = 83
      BY <2>6, <2>7, PreviewIsByte
  <2>9. Then(<<Item("field", 0)>>)
      BY <1>10, <2>8
  <2>10. FieldBegins(script, Here, b)
      BY <1>6, <2>1, <2>2, <2>3 DEF FieldBegins
  <2>11. Leads(script, Item("field", 0), Here, b)
      BY <2>10 DEF Leads, Item
  <2>12. Path(script, <<Item("field", 0)>>, Here', b)
      BY <1>9, <2>11, PathOne
  <2> QED BY <1>1, <1>2, <1>3, <1>9, <2>9, <2>12, FieldItems, StepsOn
<1> QED BY <1>11, <1>12

(* A phrase that takes bytes begins in front of the end.                   *)
LEMMA LeafTakes ==
    ASSUME Typed, NEW t \in script.phrases, NEW n \in Nat \ {0}, NEW pieces, Leaf(script, t, n, pieces)
    PROVE  t.from.at < Len(bytes)
<1>1. t.to.at = t.from.at + n
    BY DEF Leaf, Past
<1>2. t.to.at \in 0 .. Len(bytes) /\ t.from.at \in 0 .. Len(bytes) /\ Len(bytes) \in Nat
  <2>1. t.to \in Places(script) /\ t.from \in Places(script)
      BY PhraseFacts
  <2> QED BY <2>1, PlaceIs, ScriptFacts1 DEF bytes
<1> QED BY <1>1, <1>2

LEMMA BranchTakes ==
    ASSUME Typed, NEW t \in script.phrases, NEW n \in Nat \ {0}, NEW pieces, NEW b \in Places(script),
           Branch(script, t, n, pieces, b)
    PROVE  t.from.at < Len(bytes)
<1>1. Past(t.from, n, Len(pieces)) \in Places(script)
    BY BranchStart
<1>2. Past(t.from, n, Len(pieces)).at = t.from.at + n
    BY DEF Past
<1>3. t.from.at + n \in 0 .. Len(bytes) /\ t.from.at \in 0 .. Len(bytes) /\ Len(bytes) \in Nat
  <2>1. t.from \in Places(script)
      BY PhraseFacts
  <2> QED BY <1>1, <1>2, <2>1, PlaceIs, ScriptFacts1 DEF bytes
<1> QED BY <1>3

LEMMA TokenTakesByte ==
    ASSUME Typed, NEW t \in script.phrases, IsToken(script, t)
    PROVE  t.from.at < Len(bytes)
<1>0. 1 \in Nat \ {0} /\ 2 \in Nat \ {0} /\ 3 \in Nat \ {0} /\ 5 \in Nat \ {0} /\ t.to \in Places(script)
    BY PhraseFacts
<1>1. ASSUME NEW pieces, \/ Leaf(script, t, 1, pieces) \/ Leaf(script, t, 2, pieces)
                         \/ Leaf(script, t, 3, pieces) \/ Leaf(script, t, 5, pieces)
      PROVE  t.from.at < Len(bytes)
    BY <1>0, <1>1, LeafTakes
<1>2. CASE IsValue(script, t)
    BY <1>1, <1>2 DEF IsValue
<1>3. CASE \E type \in VariableTypes : IsVariableRead(script, t, type)
  <2>1. PICK type : IsVariableRead(script, t, type)
      BY <1>3
  <2>2. PICK pieces : Leaf(script, t, 2, pieces) \/ Leaf(script, t, 3, pieces)
      BY <2>1 DEF IsVariableRead
  <2> QED BY <1>1, <2>2
<1>4. CASE IsConstant(script, t)
  <2>1. PICK pieces : Leaf(script, t, 2, pieces) \/ Leaf(script, t, 3, pieces) \/ Leaf(script, t, 5, pieces)
      BY <1>4 DEF IsConstant
  <2> QED BY <1>1, <2>1
<1>5. CASE IsCompound(script, t)
  <2>1. PICK pieces : Branch(script, t, 1, pieces, t.to)
      BY <1>5 DEF IsCompound
  <2> QED BY <1>0, <2>1, BranchTakes
<1>6. CASE IsAnswer(script, t)
  <2>1. PICK pieces : t.to.said > 0 /\ Branch(script, t, 2, pieces, Past(t.to, 0, -1))
      BY <1>6 DEF IsAnswer
  <2>2. Past(t.to, 0, -1) \in Places(script)
      BY <1>0, <2>1, AnswerEnd
  <2> QED BY <1>0, <2>1, <2>2, BranchTakes
<1>7. CASE t.is = "operator" \/ t.is = "open" \/ t.is = "close"
  <2>1. PICK pieces : Leaf(script, t, 1, pieces)
      BY <1>7 DEF IsToken
  <2> QED BY <1>1, <2>1
<1>8. CASE t.is = "operand"
  <2>1. IsOperand(script, t)
      BY <1>8 DEF IsToken
  <2> QED BY <1>2, <1>3, <1>4, <1>5, <1>6, <2>1 DEF IsOperand
<1>9. t.is = "operand" \/ t.is = "operator" \/ t.is = "open" \/ t.is = "close"
    BY DEF IsToken
<1> QED BY <1>7, <1>8, <1>9

LEMMA NumberTakesByte ==
    ASSUME Typed, NEW q \in script.phrases, q.is = "number"
    PROVE  q.from.at < Len(bytes)
<1>1. IsNumber(script, q) /\ IsSeq(q.parts)
    BY PhraseFacts DEF IsPhrase
<1>2. q.parts # <<>> /\ InTurn(q.parts, q.from, q.to)
    BY <1>1 DEF IsNumber
<1>3. 1 \in DOMAIN q.parts /\ q.parts[1].from = q.from
    BY <1>1, <1>2, SeqFacts DEF InTurn
<1>4. PICK t : t = q.parts[1]
    OBVIOUS
<1>5. t \in script.phrases /\ IsToken(script, t)
    BY <1>3, <1>4, TokenBehind
<1> QED BY <1>3, <1>4, <1>5, TokenTakesByte

(* The entries of a menu.                                                  *)
LEMMA MenuAhead ==
    ASSUME Typed, InStep, Reading("menu")
    PROVE  \E p \in script.phrases :
              /\ p.is = "menu" /\ IsMenu(script, p) /\ p.to \in Places(script) /\ IsSeq(p.parts)
              /\ Path(script, Tail(todo), p.to, Reached(ran))
              /\ Now \in 0 .. Len(p.parts) /\ Here = IF Now = 0 THEN p.from ELSE p.parts[Now].to
<1>1. todo # <<>> /\ Head(todo).what = "menu" /\ Now = Head(todo).n
    BY DEF Reading, Now
<1>2. PICK b \in Places(script) :
          Leads(script, Head(todo), Here, b) /\ Path(script, Tail(todo), b, Reached(ran))
    BY <1>1, HeadLeads
<1>3. EntriesDone(script, Now, Here, b)
    BY <1>1, <1>2 DEF Leads
<1>4. PICK p \in script.phrases : /\ p.is = "menu" /\ p.to = b /\ Now \in 0 .. Len(p.parts)
                                  /\ Here = IF Now = 0 THEN p.from ELSE p.parts[Now].to
    BY <1>3 DEF EntriesDone
<1>5. IsMenu(script, p) /\ IsSeq(p.parts)
    BY <1>4, PhraseFacts DEF IsPhrase
<1> QED BY <1>2, <1>4, <1>5

LEMMA EntryAhead ==
    ASSUME Typed, NEW p \in script.phrases, IsMenu(script, p), NEW k \in Nat, k < Len(p.parts),
           Here = IF k = 0 THEN p.from ELSE p.parts[k].to, NEW e, e = p.parts[k + 1]
    PROVE  /\ k + 1 \in DOMAIN p.parts /\ e \in script.phrases /\ e.from = Here /\ e.to \in Places(script)
           /\ Code(script, e, 0) # MenuMark /\ Branch(script, e, 0, << <<"entry">> >>, e.to)
           /\ IsSeq(e.parts) /\ Len(e.parts) = 3
           /\ \A j \in 1 .. 3 : e.parts[j] \in script.phrases /\ e.parts[j].is = "number"
<1>1. IsSeq(p.parts) /\ DOMAIN p.parts = 1 .. Len(p.parts) /\ Len(p.parts) \in Nat
  <2>1. IsSeq(p.parts)
      BY PhraseFacts
  <2> QED BY <2>1, SeqFacts
<1>2. k + 1 \in DOMAIN p.parts /\ p.parts # <<>>
    BY <1>1
<1>3. e \in script.phrases
    BY <1>2, PhraseFacts
<1>4. InTurn(p.parts, p.from, Past(p.to, -1, 0))
    BY DEF IsMenu
<1>5. e.from = Here
  <2>1. CASE k = 0
      BY <1>2, <1>4, <2>1 DEF InTurn
  <2>2. CASE k # 0
    <3>1. k \in 1 .. Len(p.parts) - 1
        BY <1>1, <2>2
    <3> QED BY <1>2, <1>4, <2>2, <3>1 DEF InTurn
  <2> QED BY <2>1, <2>2
<1>6. /\ Code(script, e, 0) # MenuMark /\ Branch(script, e, 0, << <<"entry">> >>, e.to)
      /\ Len(e.parts) = 3 /\ \A j \in 1 .. 3 : e.parts[j].is = "number"
    BY <1>2 DEF IsMenu
<1>7. e.to \in Places(script) /\ IsSeq(e.parts) /\ \A j \in DOMAIN e.parts : e.parts[j] \in script.phrases
    BY <1>3, PhraseFacts
<1>8. DOMAIN e.parts = 1 .. 3
    BY <1>6, <1>7, SeqFacts
<1> QED BY <1>2, <1>3, <1>5, <1>6, <1>7, <1>8

(* There is a byte in front of an entry, and it is not the mark.           *)
LEMMA EntrySeen ==
    ASSUME Typed, InStep, NEW p \in script.phrases, IsMenu(script, p), NEW k \in Nat, k < Len(p.parts),
           Here = IF k = 0 THEN p.from ELSE p.parts[k].to
    PROVE  pos < Len(bytes) /\ There(0) # 74
<1>1. PICK e : e = p.parts[k + 1]
    OBVIOUS
<1> DEFINE pieces == << <<"entry">> >>
<1>2. /\ e \in script.phrases /\ e.from = Here /\ Code(script, e, 0) # MenuMark /\ e.to \in Places(script)
      /\ Branch(script, e, 0, pieces, e.to) /\ Len(e.parts) = 3 /\ IsSeq(e.parts)
      /\ \A j \in 1 .. 3 : e.parts[j] \in script.phrases /\ e.parts[j].is = "number"
    BY <1>1, EntryAhead
<1> HIDE DEF pieces
<1>3. There(0) # 74
    BY <1>2, SameBytes DEF MenuMark
<1>4. InTurn(e.parts, Past(Here, 0, Len(pieces)), e.to)
    BY <1>2 DEF Branch
<1>5. e.parts # <<>>
    BY <1>2, SeqFacts
<1>6. PICK q : q = e.parts[1]
    OBVIOUS
<1>7. q \in script.phrases /\ q.is = "number" /\ q.from = Past(Here, 0, Len(pieces))
    BY <1>2, <1>4, <1>5, <1>6 DEF InTurn
<1>8. q.from.at < Len(bytes)
    BY <1>7, NumberTakesByte
<1>9. q.from.at = pos + 0
    BY <1>7 DEF Past, Here
<1>10. pos + 0 = pos
  <2>1. Here \in Places(script) /\ Here.at = pos
      BY DEF InStep, Here
  <2>2. pos \in 0 .. Len(script.bytes)
      BY <2>1, PlaceIs
  <2> QED BY <2>2
<1> QED BY <1>3, <1>8, <1>9, <1>10

(* Behind the last entry is the mark.                                      *)
LEMMA EntriesOver ==
    ASSUME Typed, InStep, NEW p \in script.phrases, IsMenu(script, p),
           Here = IF Len(p.parts) = 0 THEN p.from ELSE p.parts[Len(p.parts)].to
    PROVE  pos < Len(bytes) /\ There(0) = 74 /\ Past(Here, 1, 0) = p.to
<1>1. IsSeq(p.parts) /\ p.to \in Places(script)
    BY PhraseFacts
<1>2. p.to.at > 0 /\ InTurn(p.parts, p.from, Past(p.to, -1, 0)) /\ ByteAt(script.bytes, p.to.at - 1) = 74
    BY DEF IsMenu, MenuMark
<1>3. Here = Past(p.to, -1, 0)
  <2>1. CASE p.parts = <<>>
    <3>1. Len(p.parts) = 0
        BY <1>1, <2>1, SeqFacts
    <3> QED BY <1>2, <2>1, <3>1 DEF InTurn
  <2>2. CASE p.parts # <<>>
    <3>1. Len(p.parts) # 0
        BY <1>1, <2>2, SeqFacts
    <3> QED BY <1>2, <2>2, <3>1 DEF InTurn
  <2> QED BY <2>1, <2>2
<1>4. PICK x, y, z : p.to = [at |-> x, said |-> y, depth |-> z]
    BY <1>1, PlaceIs
<1>5. x \in 0 .. Len(bytes) /\ Len(bytes) \in Nat /\ y \in Int
  <2>1. x \in 0 .. Len(bytes) /\ y \in 0 .. Len(script.says)
      BY <1>1, <1>4, PlaceIs DEF bytes
  <2> QED BY <2>1, ScriptFacts1
<1>6. x > 0 /\ x + -1 = x - 1 /\ (x + -1) + 1 = x /\ x - 1 < Len(bytes) /\ (x - 1) + 0 = x - 1 /\ (y + 0) + 0 = y
    BY <1>2, <1>4, <1>5
<1>7. Here = [at |-> x + -1, said |-> y + 0, depth |-> z]
    BY <1>3, <1>4 DEF Past
<1>8. pos = x - 1
    BY <1>6, <1>7 DEF Here
<1>9. Past(Here, 1, 0) = p.to
    BY <1>4, <1>6, <1>7 DEF Past
<1>10. There(0) = 74
    BY <1>2, <1>4, <1>6, <1>8 DEF There, bytes
<1> QED BY <1>6, <1>8, <1>9, <1>10

LEMMA ThreeNumbers ==
    ASSUME Typed, NEW parts, IsSeq(parts), Len(parts) = 3,
           \A j \in 1 .. 3 : parts[j] \in script.phrases /\ parts[j].is = "number",
           NEW a \in Places(script), NEW b, InTurn(parts, a, b)
    PROVE  get_parameters(3) \in Seq(Items) /\ Path(script, get_parameters(3), a, b)
<1> DEFINE items == get_parameters(3)
<1>1. Len(items) = 3 /\ \A j \in 1 .. 3 : items[j] = Item("number", 0)
    BY DEF get_parameters
<1>2. items \in Seq(Items)
    BY GetParametersRead
<1> HIDE DEF items
<1>3. DOMAIN parts = 1 .. 3
    BY SeqFacts
<1>4. \A k \in DOMAIN parts :
          parts[k].to \in Places(script) /\ Leads(script, items[k], parts[k].from, parts[k].to)
    BY <1>1, <1>3, NumberLeads, PhraseFacts
<1>5. Path(script, items, a, b)
    BY <1>1, <1>2, <1>4, PathOfPhrases
<1> QED BY <1>2, <1>5 DEF items

LEMMA menu_entryInStep ==
    ASSUME Typed, InStep, menu_entry
    PROVE  InStep' /\ status' = "read"
<1> DEFINE pieces == << <<"entry">> >>
           numbers == get_parameters(3)
           more == <<Item("menu", Now + 1)>>
<1>1. /\ Reading("menu") /\ out' = Append(out, <<"entry">>)
      /\ Then(numbers \o more) /\ UNCHANGED <<script, ran, pos, status, depth>>
      /\ \E c \in Preview : c # 74
    BY DEF menu_entry, Same, Says, MenuEnd
<1>2. status = "read" /\ todo # <<>> /\ Now \in Int
    BY <1>1, ReadingFacts
<1>3. PICK p \in script.phrases :
              /\ p.is = "menu" /\ IsMenu(script, p) /\ p.to \in Places(script) /\ IsSeq(p.parts)
              /\ Path(script, Tail(todo), p.to, Reached(ran))
              /\ Now \in 0 .. Len(p.parts) /\ Here = IF Now = 0 THEN p.from ELSE p.parts[Now].to
    BY <1>1, MenuAhead
<1>4. Now \in Nat /\ Len(p.parts) \in Nat
    BY <1>3, SeqFacts
<1>5. Now < Len(p.parts)
  <2> SUFFICES ASSUME Now = Len(p.parts) PROVE FALSE
      BY <1>3, <1>4
  <2>1. pos < Len(bytes) /\ There(0) = 74
      BY <1>3, EntriesOver
  <2> QED BY <1>1, <2>1, PreviewIsByte
<1>6. PICK e : e = p.parts[Now + 1]
    OBVIOUS
<1>7. /\ Now + 1 \in DOMAIN p.parts /\ e \in script.phrases /\ e.from = Here /\ e.to \in Places(script)
      /\ Branch(script, e, 0, pieces, e.to)
      /\ IsSeq(e.parts) /\ Len(e.parts) = 3
      /\ \A j \in 1 .. 3 : e.parts[j] \in script.phrases /\ e.parts[j].is = "number"
    BY <1>3, <1>4, <1>5, <1>6, EntryAhead
<1>8. IsSeq(pieces) /\ out' = out \o pieces
    BY <1>1, PiecesAreSeq, SaysOne
<1> HIDE DEF pieces
<1>9. InTurn(e.parts, Here', e.to) /\ Here' \in Places(script) /\ SaysAsWritten' /\ status' = "read"
  <2>1. Fetch(0, "read") /\ 0 \in Nat
      BY <1>1, <1>2, NothingFetched
  <2> QED BY <1>1, <1>2, <1>7, <1>8, <2>1, BranchRead
<1>10. numbers \in Seq(Items) /\ Path(script, numbers, Here', e.to)
    BY <1>7, <1>9, ThreeNumbers
<1>11. more \in Seq(Items) /\ Path(script, more, e.to, p.to)
  <2>1. EntriesDone(script, Now + 1, e.to, p.to)
    <3>1. Now + 1 \in 0 .. Len(p.parts) /\ Now + 1 # 0
        BY <1>4, <1>5
    <3> QED BY <1>3, <1>6, <3>1 DEF EntriesDone
  <2>2. Leads(script, Item("menu", Now + 1), e.to, p.to)
      BY <2>1 DEF Leads, Item
  <2>3. Now + 1 \in Int
      BY <1>2
  <2> QED BY <1>3, <1>7, <2>2, <2>3, PathOne, MenuItem
<1> HIDE DEF numbers, more
<1>12. numbers \o more \in Seq(Items) /\ Path(script, numbers \o more, Here', p.to)
    BY <1>10, <1>11, InTurnRead, PathConcat
<1> QED BY <1>1, <1>2, <1>3, <1>9, <1>12, StepsOn

LEMMA menu_endInStep ==
    ASSUME Typed, InStep, menu_end
    PROVE  InStep' /\ status' = "read"
<1> DEFINE nothing == <<>>
<1>1. /\ Reading("menu") /\ Fetch(1, "read") /\ Then(<<>>) /\ UNCHANGED <<script, ran, out, depth>>
      /\ Now > MaxMenu \/ 74 \in Preview
    BY DEF menu_end, Same, Quiet, MenuEnd
<1>2. status = "read" /\ todo # <<>> /\ Now \in Int
    BY <1>1, ReadingFacts
<1>3. PICK p \in script.phrases :
              /\ p.is = "menu" /\ IsMenu(script, p) /\ p.to \in Places(script) /\ IsSeq(p.parts)
              /\ Path(script, Tail(todo), p.to, Reached(ran))
              /\ Now \in 0 .. Len(p.parts) /\ Here = IF Now = 0 THEN p.from ELSE p.parts[Now].to
    BY <1>1, MenuAhead
<1>4. Now \in Nat /\ Len(p.parts) \in Nat
    BY <1>3, SeqFacts
<1>5. Now = Len(p.parts)
  <2> SUFFICES ASSUME Now < Len(p.parts) PROVE FALSE
      BY <1>3, <1>4
  <2>1. pos < Len(bytes) /\ There(0) # 74
      BY <1>3, <1>4, EntrySeen
  <2>2. Now > MaxMenu
      BY <1>1, <2>1, PreviewIsByte
  <2>3. Len(p.parts) <= MaxMenu + 1
      BY <1>3 DEF IsMenu
  <2> QED BY <1>4, <2>2, <2>3, BoundsAssumption
<1>6. Past(Here, 1, 0) = p.to
    BY <1>3, <1>5, EntriesOver
<1>7. /\ IsSeq(nothing) /\ out' = out \o nothing /\ Len(nothing) = 0 /\ Printed(script, Here, nothing)
    BY <1>1, PiecesAreSeq, SaysOne DEF Printed
<1> HIDE DEF nothing
<1>8. Here' = p.to /\ SaysAsWritten' /\ status' = "read"
  <2>1. 1 \in Nat /\ Past(Here, 1, Len(nothing)) = p.to
      BY <1>6, <1>7
  <2> QED BY <1>1, <1>2, <1>3, <1>7, <2>1, PlaceRead
<1> QED BY <1>1, <1>2, <1>3, <1>8, ItemDone

------------------------------------------------------------------------------
(* Commands are, and the script to its end. *)

LEMMA CommandFacts ==
    ASSUME Typed, NEW k \in DOMAIN script.commands, NEW c, c = script.commands[k]
    PROVE  /\ c.from \in Places(script) /\ c.to \in Places(script) /\ c.from.at < c.to.at
           /\ IsSeq(c.parts) /\ \A j \in DOMAIN c.parts : c.parts[j] \in script.phrases
           /\ c.sound => IsCommand(script, c)
    BY ScriptFacts1 DEF WellFormed

(* The commands lie one behind another, up to the end of the script.       *)
LEMMA CommandsInTurn ==
    ASSUME Typed
    PROVE  /\ Len(script.commands) \in Nat \ {0} /\ DOMAIN script.commands = 1 .. Len(script.commands)
           /\ Reached(Len(script.commands)).at = Len(bytes)
           /\ \A k \in Nat : k < Len(script.commands) => script.commands[k + 1].from = Reached(k)
           /\ \A k \in Nat : k < Len(script.commands) => script.commands[k + 1].to = Reached(k + 1)
<1> DEFINE all == script.commands
<1>1. /\ IsSeq(all) /\ all # <<>> /\ InTurn(all, Beginning, all[Len(all)].to)
      /\ all[Len(all)].to.at = Len(bytes)
    BY ScriptFacts1 DEF WellFormed, bytes
<1>2. Len(all) \in Nat \ {0} /\ DOMAIN all = 1 .. Len(all)
    BY <1>1, SeqFacts
<1>3. all[1].from = Beginning /\ \A k \in 1 .. Len(all) - 1 : all[k + 1].from = all[k].to
    BY <1>1 DEF InTurn
<1>4. Reached(Len(all)).at = Len(bytes)
    BY <1>1, <1>2 DEF Reached
<1>5. ASSUME NEW k \in Nat, k < Len(all) PROVE all[k + 1].from = Reached(k)
  <2>1. CASE k = 0
      BY <1>3, <2>1 DEF Reached
  <2>2. CASE k # 0
    <3>1. k \in 1 .. Len(all) - 1
        BY <1>2, <1>5, <2>2
    <3> QED BY <1>3, <2>2, <3>1 DEF Reached
  <2> QED BY <2>1, <2>2
<1>6. ASSUME NEW k \in Nat, k < Len(all) PROVE all[k + 1].to = Reached(k + 1)
  <2>1. k + 1 # 0
      OBVIOUS
  <2> QED BY <2>1 DEF Reached
<1> QED BY <1>2, <1>4, <1>5, <1>6

LEMMA RanIsNumber ==
    ASSUME Typed
    PROVE  ran \in Nat /\ Len(bytes) \in Nat /\ pos \in Nat
<1>1. Len(bytes) \in Nat
    BY ScriptFacts1
<1> QED BY <1>1 DEF Typed, TypeOK

LEMMA commandInStep ==
    ASSUME Typed, InStep, command, Sound(ran + 1)
    PROVE  InStep' /\ status' = "read"
<1>1. /\ status = "read" /\ todo = <<>> /\ pos + 1 < Len(bytes) /\ pos' = pos + 1 /\ ran' = ran + 1
      /\ UNCHANGED <<script, depth>>
    BY DEF command
<1>2. Here \in Places(script) /\ Here = Reached(ran) /\ ran <= Len(script.commands)
  <2>1. Path(script, <<>>, Here, Reached(ran)) /\ Here \in Places(script) /\ ran <= Len(script.commands)
      BY <1>1 DEF InStep
  <2> QED BY <2>1, PathNone
<1>3. ran \in Nat /\ Len(bytes) \in Nat /\ pos \in Nat /\ Len(script.commands) \in Nat
    BY RanIsNumber, CommandsInTurn
<1>4. ran < Len(script.commands)
  <2> SUFFICES ASSUME ran = Len(script.commands) PROVE FALSE
      BY <1>2, <1>3
  <2>1. Here.at = Len(bytes)
      BY <1>2, CommandsInTurn
  <2>2. pos = Len(bytes)
      BY <2>1 DEF Here
  <2> QED BY <1>1, <1>3, <2>2
<1>5. PICK c : c = script.commands[ran + 1]
    OBVIOUS
<1>6. ran + 1 \in DOMAIN script.commands /\ c.from = Here /\ c.to = Reached(ran + 1)
  <2>1. ran + 1 \in 1 .. Len(script.commands)
      BY <1>3, <1>4
  <2> QED BY <1>2, <1>3, <1>4, <1>5, <2>1, CommandsInTurn
<1>7. c.sound
  <2>1. ran + 1 <= ran + 1
      BY <1>3
  <2> QED BY <1>5, <1>6, <2>1 DEF Sound
<1>8. /\ c.to \in Places(script) /\ IsSeq(c.parts) /\ \A j \in DOMAIN c.parts : c.parts[j] \in script.phrases
      /\ IsCommand(script, c)
    BY <1>5, <1>6, <1>7, CommandFacts
<1>9. Code(script, c, 0) = There(0)
    BY <1>6, SameBytes
<1> DEFINE pieces == << <<Handler(There(0))>> >>
<1>10. IsTaken(c.parts, There(0)) /\ Branch(script, c, 1, pieces, c.to)
    BY <1>8, <1>9 DEF IsCommand
<1>11. There(0) \in Commands /\ Handler(There(0)) # "unknown"
    BY <1>10 DEF IsTaken
<1>12. Says(<<Handler(There(0))>>) /\ todo' = Handlers[Handler(There(0))] /\ status' = status
    BY <1>11 DEF command
<1>13. IsSeq(pieces) /\ out' = out \o pieces
    BY <1>12, PiecesAreSeq, SaysOne DEF Says
<1> HIDE DEF pieces
<1>14. InTurn(c.parts, Past(Here, 1, Len(pieces)), c.to) /\ Printed(script, Here, pieces)
    BY <1>6, <1>10 DEF Branch
<1>15. Past(Here, 1, Len(pieces)) \in Places(script)
  <2>1. CASE c.parts = <<>>
      BY <1>8, <1>14, <2>1 DEF InTurn
  <2>2. CASE c.parts # <<>>
    <3>1. c.parts[1].from = Past(Here, 1, Len(pieces))
        BY <1>14, <2>2 DEF InTurn
    <3>2. 1 \in DOMAIN c.parts /\ c.parts[1] \in script.phrases
        BY <1>8, <2>2, SeqFacts
    <3> QED BY <3>1, <3>2, PhraseFacts
  <2> QED BY <2>1, <2>2
<1>16. Fetch(1, "read") /\ 1 \in Nat
    BY <1>1, <1>3, <1>12 DEF Fetch
<1>17. /\ Here' = Past(Here, 1, Len(pieces)) /\ Here' \in Places(script)
       /\ SaysAsWritten' /\ status' = "read"
    BY <1>1, <1>13, <1>14, <1>15, <1>16, PlaceRead
<1>18. Path(script, Handlers[Handler(There(0))], Here', Reached(ran + 1))
    BY <1>6, <1>8, <1>10, <1>14, <1>17, TakenLeads
<1>19. Reached(ran)' = Reached(ran + 1)
    BY <1>1 DEF Reached
<1>20. Path(script', todo', Here', Reached(ran)')
    BY <1>1, <1>12, <1>18, <1>19
<1>21. ran' <= Len(script'.commands) /\ Here' \in Places(script')
    BY <1>1, <1>3, <1>4, <1>17
<1>22. script'.commands[ran'].from.at + 1 < Len(bytes')
  <2>1. c.from.at = pos /\ script'.commands[ran'] = c /\ bytes' = bytes
      BY <1>1, <1>5, <1>6 DEF Here, bytes
  <2> QED BY <1>1, <2>1
<1> QED BY <1>17, <1>20, <1>21, <1>22 DEF InStep

(* How many commands a sound script has run at its end, and whether a byte *)
(* behind the script was fetched.                                          *)
RunAtEnd ==
    \/ status = "done" /\ ran = Len(script.commands) - 1 /\ LastIsAByte
    \/ status = "over" /\ ran = Len(script.commands) /\ ~LastIsAByte

(* gff_gpl_parse leaves its loop behind the last command, or in front of it *)
(* when it is one byte long.                                               *)
LEMMA stopAtEnd ==
    ASSUME Typed, InStep, stop
    PROVE  RunAtEnd'
<1>1. /\ todo = <<>> /\ pos + 1 >= Len(bytes) /\ UNCHANGED <<script, ran>>
      /\ status' = IF pos < Len(bytes) THEN "done" ELSE "over"
    BY DEF stop, Stop, Same
<1>2. /\ Here = Reached(ran) /\ ran <= Len(script.commands)
      /\ ran > 0 => script.commands[ran].from.at + 1 < Len(bytes)
  <2>1. Path(script, <<>>, Here, Reached(ran)) /\ Here \in Places(script)
      BY <1>1 DEF InStep
  <2>2. Here = Reached(ran)
      BY <2>1, PathNone
  <2> QED BY <2>2 DEF InStep
<1> DEFINE len == Len(script.commands)
           final == script.commands[len]
<1>3. /\ ran \in Nat /\ Len(bytes) \in Nat /\ pos \in Nat /\ len \in Nat \ {0}
      /\ DOMAIN script.commands = 1 .. len
    BY RanIsNumber, CommandsInTurn
<1>4. final.to.at = Len(bytes)
    BY <1>3, CommandsInTurn DEF Reached
<1> HIDE DEF len
<1>5. CASE ran = len
  <2>1. final.from.at + 1 < Len(bytes)
      BY <1>2, <1>3, <1>5
  <2>2. final.from.at + 1 # Len(bytes)
    <3>1. final.from \in Places(script)
        BY <1>3, CommandFacts
    <3>2. final.from.at \in 0 .. Len(bytes)
        BY <3>1, PlaceIs DEF bytes
    <3> QED BY <1>3, <2>1, <3>2
  <2>3. ~LastIsAByte
      BY <1>4, <2>2 DEF LastIsAByte, len
  <2>4. pos = Len(bytes)
    <3>1. Reached(ran) = final.to
        BY <1>3, <1>5 DEF Reached
    <3> QED BY <1>2, <1>4, <3>1 DEF Here
  <2>5. status' = "over"
      BY <1>1, <1>3, <2>4
  <2>6. LastIsAByte' = LastIsAByte
      BY <1>1 DEF LastIsAByte
  <2> QED BY <1>1, <1>5, <2>3, <2>5, <2>6 DEF RunAtEnd, len
<1>6. CASE ran # len
  <2>1. ran < len /\ ran + 1 \in DOMAIN script.commands
      BY <1>2, <1>3, <1>6 DEF len
  <2>2. PICK c : c = script.commands[ran + 1]
      OBVIOUS
  <2>3. c.from = Here /\ c.to = Reached(ran + 1)
      BY <1>2, <1>3, <2>1, <2>2, CommandsInTurn DEF len
  <2>4. c.from.at < c.to.at /\ c.to.at \in 0 .. Len(bytes) /\ c.from.at = pos
    <3>1. c.to \in Places(script) /\ c.from.at < c.to.at
        BY <2>1, <2>2, CommandFacts
    <3> QED BY <2>3, <3>1, PlaceIs DEF Here, bytes
  <2>5. c.to.at = pos + 1 /\ c.to.at = Len(bytes)
      BY <1>1, <1>3, <2>4
  <2>6. ran + 1 = len
    <3> SUFFICES ASSUME ran + 1 < len PROVE FALSE
        BY <1>3, <2>1
    <3>1. ran + 1 \in Nat /\ (ran + 1) + 1 \in DOMAIN script.commands
        BY <1>3
    <3>2. PICK d : d = script.commands[(ran + 1) + 1]
        OBVIOUS
    <3>3. d.from = c.to
        BY <2>3, <3>1, <3>2, CommandsInTurn DEF len
    <3>4. d.from.at < d.to.at /\ d.to.at \in 0 .. Len(bytes)
      <4>1. d.to \in Places(script) /\ d.from.at < d.to.at
          BY <3>1, <3>2, CommandFacts
      <4> QED BY <4>1, PlaceIs DEF bytes
    <3> QED BY <1>3, <2>5, <3>3, <3>4
  <2>7. final = c /\ ran = len - 1
      BY <1>3, <2>2, <2>6
  <2>8. LastIsAByte
      BY <2>4, <2>5, <2>7 DEF LastIsAByte, len
  <2>9. status' = "done"
      BY <1>1, <1>3, <2>5
  <2>10. LastIsAByte' = LastIsAByte
      BY <1>1 DEF LastIsAByte
  <2> QED BY <1>1, <2>7, <2>8, <2>9, <2>10 DEF RunAtEnd, len
<1> QED BY <1>5, <1>6

(* The inductive invariant: as long as every command that was begun is     *)
(* sound the reader is in step with the script, or has come to its end.    *)
SoundInv ==
    Sound(ran) => \/ status = "read" /\ InStep
                  \/ RunAtEnd

LEMMA InitSound == Init => SoundInv
<1> SUFFICES ASSUME Init PROVE status = "read" /\ InStep
    BY DEF SoundInv
<1>1. Typed /\ status = "read" /\ todo = <<>> /\ out = <<>> /\ ran = 0 /\ pos = 0 /\ depth = 0
    BY InitTyped DEF Init
<1>2. Here = Beginning /\ Reached(ran) = Beginning
  <2>1. Len(out) = 0
      BY <1>1
  <2> QED BY <1>1, <2>1 DEF Here, Reached, Beginning
<1>3. Here \in Places(script)
  <2>1. Len(script.bytes) \in Nat /\ IsSeq(script.says)
      BY <1>1, ScriptFacts1 DEF bytes
  <2>2. Len(script.says) \in Nat
      BY <2>1, SeqFacts
  <2>3. 0 \in 0 .. Len(script.bytes) /\ 0 \in 0 .. Len(script.says) /\ 0 \in Depths
      BY <2>1, <2>2 DEF Depths
  <2>4. Beginning \in Places(script)
      BY <2>3 DEF Beginning, Places
  <2> QED BY <1>2, <2>4
<1>4. SaysAsWritten
  <2>1. IsSeq(out) /\ Len(out) = 0 /\ IsSeq(script.says)
      BY <1>1, PiecesAreSeq, ScriptFacts1
  <2>2. Len(script.says) \in Nat
      BY <2>1, SeqFacts
  <2> QED BY <2>1, <2>2 DEF SaysAsWritten
<1>5. Path(script, todo, Here, Reached(ran))
    BY <1>1, <1>2, <1>3, PathNone
<1>6. ran <= Len(script.commands) /\ ~(ran > 0)
    BY <1>1, CommandsInTurn
<1> QED BY <1>1, <1>3, <1>4, <1>5, <1>6 DEF InStep

(* A step other than the beginning of a command.                           *)
Onward ==
    \/ stop \/ immediate \/ variable \/ constant \/ compound \/ retval \/ answered
    \/ operator \/ paren \/ no_number \/ next
    \/ complex \/ text \/ free
    \/ load_variable \/ bounds \/ field \/ more_fields
    \/ menu_entry \/ menu_end \/ nest

LEMMA OnwardKeeps == Onward => status = "read" /\ UNCHANGED <<script, ran>>
<1>1. stop \/ answered \/ complex \/ text \/ free => status = "read" /\ UNCHANGED <<script, ran>>
    BY DEF stop, Stop, answered, complex, text, free, Reading, Same
<1>2. immediate \/ variable \/ constant \/ compound => status = "read" /\ UNCHANGED <<script, ran>>
    BY DEF immediate, variable, constant, compound, Reading, NumberKeeps, Same
<1>3. operator \/ paren \/ no_number \/ next => status = "read" /\ UNCHANGED <<script, ran>>
    BY DEF operator, paren, no_number, next, Reading, NumberKeeps, Same
<1>4. retval => status = "read" /\ UNCHANGED <<script, ran>>
    BY DEF retval, Retval, Reading, Same
<1>5. load_variable \/ bounds \/ field \/ more_fields => status = "read" /\ UNCHANGED <<script, ran>>
    BY DEF load_variable, bounds, field, more_fields, Reading, Same
<1>6. menu_entry \/ menu_end \/ nest => status = "read" /\ UNCHANGED <<script, ran>>
    BY DEF menu_entry, menu_end, nest, Reading, Same
<1> QED BY <1>1, <1>2, <1>3, <1>4, <1>5, <1>6 DEF Onward

LEMMA OnwardInStep ==
    ASSUME Typed, InStep, Onward
    PROVE  \/ status' = "read" /\ InStep'
           \/ RunAtEnd'
<1>1. CASE stop
    BY <1>1, stopAtEnd
<1>2. CASE immediate \/ variable \/ constant \/ compound \/ retval \/ answered \/ operator \/ paren \/ no_number \/ next
    BY <1>2, immediateInStep, variableInStep, constantInStep, compoundInStep, retvalInStep, answeredInStep,
       operatorInStep, parenInStep, no_numberInStep, nextInStep
<1>3. CASE complex \/ text \/ free \/ load_variable \/ bounds \/ field \/ more_fields
    BY <1>3, complexInStep, textInStep, freeInStep, load_variableInStep, boundsInStep, fieldInStep,
       more_fieldsInStep
<1>4. CASE menu_entry \/ menu_end \/ nest
    BY <1>4, menu_entryInStep, menu_endInStep, nestInStep
<1> QED BY <1>1, <1>2, <1>3, <1>4 DEF Onward

LEMMA StepSound == Typed /\ SoundInv /\ [Next]_vars => SoundInv'
<1> SUFFICES ASSUME Typed, SoundInv, [Next]_vars, Sound(ran)'
             PROVE  \/ status' = "read" /\ InStep'
                    \/ RunAtEnd'
    BY DEF SoundInv
<1>1. CASE command
  <2>1. status = "read" /\ ran' = ran + 1 /\ script' = script
      BY <1>1 DEF command
  <2>2. Sound(ran + 1)
      BY <2>1 DEF Sound
  <2>3. Sound(ran)
    <3>1. ran \in Nat
        BY RanIsNumber
    <3>2. DOMAIN script.commands \subseteq Nat
        BY CommandsInTurn
    <3>3. \A k \in Nat : k <= ran => k <= ran + 1
        BY <3>1
    <3> QED BY <2>2, <3>2, <3>3 DEF Sound
  <2>4. InStep
      BY <2>1, <2>3 DEF SoundInv, RunAtEnd
  <2> QED BY <1>1, <2>2, <2>4, commandInStep
<1>2. CASE Onward
  <2>1. status = "read" /\ ran' = ran /\ script' = script
      BY <1>2, OnwardKeeps
  <2>2. Sound(ran)
      BY <2>1 DEF Sound
  <2>3. InStep
      BY <2>1, <2>2 DEF SoundInv, RunAtEnd
  <2> QED BY <1>2, <2>3, OnwardInStep
<1>3. CASE UNCHANGED vars
  <2>1. UNCHANGED <<script, pos, todo, out, ran, depth, status>>
      BY <1>3 DEF vars
  <2>2. Sound(ran)
      BY <2>1 DEF Sound
  <2>3. (InStep => InStep') /\ (RunAtEnd => RunAtEnd')
    <3>1. Here' = Here /\ Reached(ran)' = Reached(ran) /\ bytes' = bytes /\ SaysAsWritten' = SaysAsWritten
        BY <2>1 DEF Here, Reached, bytes, SaysAsWritten
    <3>2. InStep => InStep'
        BY <2>1, <3>1 DEF InStep
    <3> QED BY <2>1, <3>2 DEF RunAtEnd, LastIsAByte
  <2> QED BY <2>1, <2>2, <2>3 DEF SoundInv
<1> QED BY <1>1, <1>2, <1>3 DEF Next, Onward

(* Both properties follow.                                                 *)
LEMMA SoundIsDecoded == Typed /\ SoundInv => Decoded
<1> SUFFICES ASSUME Typed, SoundInv PROVE Decoded
    OBVIOUS
<1>1. ASSUME BetweenCommands, Sound(ran)
      PROVE  Here = Reached(ran) /\ out = SubSeq(script.says, 1, Len(out)) /\ in_retval = 0
  <2>1. status = "read" /\ todo = <<>> /\ InStep
      BY <1>1 DEF BetweenCommands, SoundInv, RunAtEnd
  <2>2. Here = Reached(ran)
    <3>1. Path(script, <<>>, Here, Reached(ran)) /\ Here \in Places(script)
        BY <2>1 DEF InStep
    <3> QED BY <3>1, PathNone
  <2>3. out = SubSeq(script.says, 1, Len(out))
    <3>1. /\ IsSeq(out) /\ Len(out) <= Len(script.says)
          /\ \A k \in 1 .. Len(out) : out[k] = script.says[k]
        BY <2>1 DEF InStep, SaysAsWritten
    <3>2. Len(out) \in Nat /\ out = [k \in 1 .. Len(out) |-> out[k]]
        BY <3>1 DEF IsSeq
    <3>3. SubSeq(script.says, 1, Len(out)) = [k \in 1 .. Len(out) |-> script.says[k]]
        BY <3>2
    <3> QED BY <3>1, <3>2, <3>3
  <2>4. in_retval = 0
    <3>1. ~Awaited(todo)
        BY <2>1 DEF Awaited
    <3>2. in_retval \in {0, 1} /\ (status = "read" /\ in_retval = 1 => Awaited(todo))
        BY DEF Typed, TypeOK
    <3> QED BY <2>1, <3>1, <3>2
  <2> QED BY <2>2, <2>3, <2>4
<1>2. ASSUME status \in {"done", "over"}, Sound(Len(script.commands))
      PROVE  RunAtEnd
  <2>1. Sound(ran)
    <3>1. DOMAIN script.commands = 1 .. Len(script.commands) /\ Len(script.commands) \in Nat
        BY CommandsInTurn
    <3>2. \A k \in DOMAIN script.commands : k <= Len(script.commands)
        BY <3>1
    <3> QED BY <1>2, <3>2 DEF Sound
  <2> QED BY <1>2, <2>1 DEF SoundInv
<1> QED BY <1>1, <1>2 DEF Decoded, RunAtEnd

LEMMA SoundStopsForACause == Typed /\ SoundInv => StopsForACause
    BY DEF Typed, SoundInv, RunAtEnd, StopsForACause

(* Whatever bytes it is given, the reader's counters and what it has still *)
(* to read stay in their ranges, and a mark of an answer is taken back.    *)
THEOREM ReaderInductive == Spec => []Typed
    BY InitTyped, StepTyped, PTL DEF Spec

(* As long as every command that was begun is one the reader implements,   *)
(* gff_gpl_parse and the calls it has in progress are in step with the     *)
(* script, whatever it consists of.                                        *)
THEOREM ReaderInStep == Spec => [](Typed /\ SoundInv)
    BY InitTyped, StepTyped, InitSound, StepSound, PTL DEF Spec

(* Between commands gff_gpl_parse is behind the last one it ran, it has    *)
(* printed what the script says up to there and is as deep as the script   *)
(* is nested; and a script is read to its end, except for a last command   *)
(* of one byte: for every well-formed script.                              *)
THEOREM ScriptsAreDecoded == Spec => []Decoded
    BY ReaderInStep, SoundIsDecoded, PTL

(* gff_gpl_parse fails, leaves the process, crashes or reads behind the    *)
(* script in a handler only when it has begun a command it does not        *)
(* implement; and its loop fetches a byte behind the commands it implements *)
(* only after the last, when that is longer than a byte.                   *)
THEOREM ReaderStopsForACause == Spec => []StopsForACause
    BY ReaderInStep, SoundStopsForACause, PTL
==============================================================================
