---------------------------- MODULE FramesProofs ----------------------------
(***************************************************************************)
(* The decoders show the picture of every well-formed frame, read it to    *)
(* its end and not a byte further, and see every frame: for any chunk, any *)
(* number of frames and any size of picture.  The invariant follows the    *)
(* cursor through the parts of the frame (FrameFormat).                    *)
(***************************************************************************)
EXTENDS Frames, TLAPS

------------------------------------------------------------------------------
(* The inductive invariant.                                                *)

Begun == pc \in {"row", "segment", "run", "plane", "image"}

(* The decoder's parts of the type invariant, by who uses them.            *)
Colors == Bytes \union {Clear}

Steps == {"call", "row", "segment", "run", "plane", "image", "none", "behind", "outside"}

RowVariables ==
    num_rows \in Nat /\ at \in Nat /\ startx \in Nat /\ left \in Int /\ last \in BOOLEAN

PlaneVariables ==
    /\ plnr_last_value \in Bytes /\ plnr_remaining \in 0 .. 257
    /\ plnr_num_bits_read \in Nat /\ drawn \in Nat

Pixels == img \in [DOMAIN img -> Colors]

Fresh ==
    /\ num_rows = 0
    /\ plnr_last_value = 0 /\ plnr_remaining = 0 /\ plnr_num_bits_read = 0 /\ drawn = 0

(* For any bytes the next segment lies in front of nothing, and the last   *)
(* value drawn has an entry in the dictionary, which is there when a pixel *)
(* has been drawn.                                                         *)
TypeInv ==
    /\ entry \in Entries /\ frame_id \in 0 .. Len(entry.frames)
    /\ pc \in Steps
    /\ pos \in Nat
    /\ Pixels
    /\ RowVariables
    /\ PlaneVariables
    /\ Begun => OffsetThere /\ Found /\ DOMAIN img = 0 .. Width * Height - 1
    /\ pc = "call" => Fresh
    /\ pc = "run" => pos + left >= 0
    /\ pc = "plane" /\ BitsPerSymbol < 31 => plnr_last_value < DictionarySize
    /\ pc = "plane" => Width * Height # 0 /\ (drawn > 0 => BitsPerSymbol < 31)

(* Where the i-th part begins, or the parts end.                           *)
Place(parts, i, end) == IF i <= Len(parts) THEN parts[i].at ELSE end

(* The pixels of a run are in the image as they are in the picture.        *)
IsDrawn(frame, image, row, part) ==
    \A c \in 0 .. part.n - 1 :
        LET k == Cell(frame, part.x + c, row.y)
        IN  k \in DOMAIN image /\ image[k] = frame.pixels[k]

(* So are those of all runs in front of run i of segment s of row r.       *)
Before(r1, s1, i1, r, s, i) ==
    \/ r1 < r
    \/ r1 = r /\ s1 < s
    \/ r1 = r /\ s1 = s /\ i1 < i

DrawnTo(frame, image, r, s, i) ==
    \A r1 \in DOMAIN frame.rows : \A s1 \in DOMAIN frame.rows[r1].segments :
        \A i1 \in DOMAIN frame.rows[r1].segments[s1].runs :
            Before(r1, s1, i1, r, s, i) =>
                IsDrawn(frame, image, frame.rows[r1], frame.rows[r1].segments[s1].runs[i1])

(* A cursor is at the beginning of a row, of a segment, or of a run, or    *)
(* behind the last one, and what lies in front of it is drawn.  n is the   *)
(* number of rows that were begun, start where the row begins in memory.   *)
RowPlace(frame, image, cursor, n) ==
    /\ n \in 0 .. Len(frame.rows)
    /\ cursor = frame.begin + Place(frame.rows, n + 1, RowsEnd(frame))
    /\ DrawnTo(frame, image, n + 1, 1, 1)

InRow(frame, n, start) ==
    n \in DOMAIN frame.rows /\ start = Cell(frame, 0, frame.rows[n].y)

SegmentPlace(frame, image, cursor, n, start) ==
    /\ InRow(frame, n, start)
    /\ \E s \in DOMAIN frame.rows[n].segments :
          /\ cursor = frame.begin + frame.rows[n].segments[s].at
          /\ DrawnTo(frame, image, n, s, 1)

RunPlaceIn(frame, image, cursor, n, column, rest, is_last, s, i) ==
    LET part == frame.rows[n].segments[s]
    IN  /\ is_last = (s = Len(frame.rows[n].segments))
        /\ cursor + rest = frame.begin + part.past
        /\ cursor = frame.begin + Place(part.runs, i, part.past)
        /\ i <= Len(part.runs) => column = part.runs[i].x
        /\ DrawnTo(frame, image, n, s, i)

RunPlace(frame, image, cursor, n, start, column, rest, is_last) ==
    /\ InRow(frame, n, start)
    /\ \E s \in DOMAIN frame.rows[n].segments :
          \E i \in 1 .. Len(frame.rows[n].segments[s].runs) + 1 :
              RunPlaceIn(frame, image, cursor, n, column, rest, is_last, s, i)

(* The decoder of symbols is in the j-th piece or behind it, and all       *)
(* pixels in front are drawn.                                              *)
PieceEnds(frame, j) ==
    IF j = 0 THEN [past |-> 0, to |-> 0, value |-> 0, from |-> 0]
    ELSE [past |-> frame.pieces[j].past, to |-> frame.pieces[j].to,
          value |-> frame.pieces[j].value, from |-> frame.pieces[j].from]

PixelPlaceIn(frame, image, bits, value, remaining, pixels, j) ==
    /\ bits = 4 * PieceEnds(frame, j).past
    /\ value = PieceEnds(frame, j).value
    /\ pixels + remaining = PieceEnds(frame, j).to
    /\ PieceEnds(frame, j).from <= pixels
    /\ \A k \in 0 .. pixels - 1 : image[k] = frame.pixels[k]

PixelPlace(frame, image, bits, value, remaining, pixels) ==
    \E j \in 0 .. Len(frame.pieces) :
        PixelPlaceIn(frame, image, bits, value, remaining, pixels, j)

(* No pixel is drawn wrong.                                                *)
NoneWrong(frame, image) == \A k \in DOMAIN image : image[k] \in {Clear, frame.pixels[k]}

SoundInv ==
    Sound =>
        /\ pc \notin {"behind", "outside"}
        /\ pc = "none" => ~Found
        /\ pc \in {"row", "segment", "run"} => IsRows(entry, Frame)
        /\ pc = "plane" => IsPlane(entry, Frame)
        /\ NoneWrong(Frame, img)
        /\ pc \in {"call", "none"} => pos = 0
        /\ pc = "row" => RowPlace(Frame, img, pos, num_rows)
        /\ pc = "segment" => SegmentPlace(Frame, img, pos, num_rows, at)
        /\ pc = "run" => RunPlace(Frame, img, pos, num_rows, at, startx, left, last)
        /\ pc = "plane" =>
              PixelPlace(Frame, img, plnr_num_bits_read, plnr_last_value, plnr_remaining, drawn)
        /\ pc = "plane" => pos = Frame.begin + 10
        /\ pc = "image" => img = Frame.pixels /\ pos = Frame.begin + Frame.size

FramesInv == TypeInv /\ SoundInv

------------------------------------------------------------------------------
(* Bytes, and powers of two.                                               *)

(* The sizes of a dictionary that an int can be shifted to.                *)
LEMMA PowersOfTwo ==
    ASSUME NEW b \in 0 .. 30
    PROVE  2^b \in Nat /\ 2^b >= 1 /\ (b \in 1 .. 8 => 2^b <= 256) /\ (b >= 9 => 2^b >= 512)
<1>1. CASE b \in 0 .. 8
  <2>1. CASE b = 0
    BY <2>1
  <2>2. CASE b = 1
    BY <2>2
  <2>3. CASE b = 2
    BY <2>3
  <2>4. CASE b = 3
    BY <2>4
  <2>5. CASE b = 4
    BY <2>5
  <2>6. CASE b = 5
    BY <2>6
  <2>7. CASE b = 6
    BY <2>7
  <2>8. CASE b = 7
    BY <2>8
  <2>9. CASE b = 8
    BY <2>9
  <2> QED
    BY <1>1, <2>1, <2>2, <2>3, <2>4, <2>5, <2>6, <2>7, <2>8, <2>9
<1>2. CASE b \in 9 .. 19
  <2>1. CASE b = 9
    BY <2>1
  <2>2. CASE b = 10
    BY <2>2
  <2>3. CASE b = 11
    BY <2>3
  <2>4. CASE b = 12
    BY <2>4
  <2>5. CASE b = 13
    BY <2>5
  <2>6. CASE b = 14
    BY <2>6
  <2>7. CASE b = 15
    BY <2>7
  <2>8. CASE b = 16
    BY <2>8
  <2>9. CASE b = 17
    BY <2>9
  <2>10. CASE b = 18
    BY <2>10
  <2>11. CASE b = 19
    BY <2>11
  <2> QED
    BY <1>2, <2>1, <2>2, <2>3, <2>4, <2>5, <2>6, <2>7, <2>8, <2>9, <2>10, <2>11
<1>3. CASE b \in 20 .. 30
  <2>1. CASE b = 20
    BY <2>1
  <2>2. CASE b = 21
    BY <2>2
  <2>3. CASE b = 22
    BY <2>3
  <2>4. CASE b = 23
    BY <2>4
  <2>5. CASE b = 24
    BY <2>5
  <2>6. CASE b = 25
    BY <2>6
  <2>7. CASE b = 26
    BY <2>7
  <2>8. CASE b = 27
    BY <2>8
  <2>9. CASE b = 28
    BY <2>9
  <2>10. CASE b = 29
    BY <2>10
  <2>11. CASE b = 30
    BY <2>11
  <2> QED
    BY <1>3, <2>1, <2>2, <2>3, <2>4, <2>5, <2>6, <2>7, <2>8, <2>9, <2>10, <2>11
<1> QED
  BY <1>1, <1>2, <1>3

LEMMA ShiftsOfABit ==
    ASSUME NEW s \in 0 .. 4
    PROVE  2^s \in 1 .. 16
<1>1. CASE s = 0
  BY <1>1
<1>2. CASE s = 1
  BY <1>2
<1>3. CASE s = 2
  BY <1>3
<1>4. CASE s = 3
  BY <1>4
<1>5. CASE s = 4
  BY <1>5
<1> QED
  BY <1>1, <1>2, <1>3, <1>4, <1>5

(* What is there is a byte; numbers put together of bytes are numbers.     *)
LEMMA ByteIsThere ==
    ASSUME entry \in Entries, NEW k \in Nat, There(k)
    PROVE  Byte(k) \in Bytes
<1>1. entry.data \in Seq(Bytes)
  BY EntriesAssumption
<1> DEFINE d == entry.data
<1>2. d \in Seq(Bytes) /\ k < Len(d)
  BY <1>1 DEF There
<1>3. d[k + 1] \in Bytes
  <2> HIDE DEF d
  <2> QED
    BY <1>2
<1> QED
  BY <1>3 DEF Byte

LEMMA LengthIsNatural ==
    ASSUME entry \in Entries
    PROVE  Len(entry.data) \in Nat
<1>1. entry.data \in Seq(Bytes)
  BY EntriesAssumption
<1> QED
  BY <1>1

LEMMA NumbersAreThere ==
    ASSUME entry \in Entries, NEW k \in Nat
    PROVE  /\ There(k + 1) => Half(k) \in Nat
           /\ There(k + 3) => Long(k) \in Nat
<1>2. \A i \in Nat : There(i) => Byte(i) \in Nat
  BY ByteIsThere DEF Bytes
<1>3. Len(entry.data) \in Nat
  BY LengthIsNatural
<1>4. \A i, j \in Nat : There(j) /\ i <= j => There(i)
  BY <1>3 DEF There
<1>6. ASSUME NEW i \in Nat, There(i + 1)
      PROVE  Half(i) \in Nat
  <2>1. Byte(i) \in Nat /\ Byte(i + 1) \in Nat
    BY <1>2, <1>4, <1>6
  <2> QED
    BY <2>1 DEF Half
<1>7. ASSUME There(k + 3)
      PROVE  Long(k) \in Nat
  <2>1. There((k + 2) + 1) /\ There(k + 1)
    BY <1>4, <1>7
  <2>2. Half(k) \in Nat /\ Half(k + 2) \in Nat
    BY <1>6, <2>1
  <2> QED
    BY <2>2 DEF Long
<1> QED
  BY <1>6, <1>7

------------------------------------------------------------------------------
(* The decoder's variables stay in their ranges for any bytes.             *)

(* The frame that is found has its head in the chunk.                      *)
HeadThere ==
    /\ entry \in Entries /\ frame_id \in Nat
    /\ OffsetThere /\ Found

LEMMA HeadIsThere ==
    ASSUME HeadThere
    PROVE  /\ Offset \in Nat /\ \A k \in Nat : k <= Offset + 9 => There(k)
           /\ Width \in Nat /\ Height \in Nat
           /\ BitsPerSymbol \in Bytes
<1>1. entry \in Entries /\ frame_id \in Nat /\ 6 + 4 * frame_id \in Nat
  BY DEF HeadThere
<1>2. There((6 + 4 * frame_id) + 3)
  BY DEF HeadThere, OffsetThere
<1>3. Offset \in Nat
  BY <1>1, <1>2, NumbersAreThere DEF Offset
<1>4. Len(entry.data) \in Nat
  BY <1>1, LengthIsNatural
<1>5. \A k \in Nat : k <= Offset + 9 => There(k)
  BY <1>3, <1>4, BoundsAssumption DEF HeadThere, Found, There
<1>6. Width \in Nat
  BY <1>1, <1>3, <1>5, NumbersAreThere DEF Width
<1>7. Offset + 2 \in Nat /\ There((Offset + 2) + 1)
  BY <1>3, <1>5
<1>8. Height \in Nat
  BY <1>1, <1>7, NumbersAreThere DEF Height
<1>9. Offset + 9 \in Nat /\ There(Offset + 9)
  BY <1>3, <1>5
<1>10. BitsPerSymbol \in Bytes
  BY <1>1, <1>9, ByteIsThere DEF BitsPerSymbol
<1> QED
  BY <1>3, <1>5, <1>6, <1>8, <1>10

LEMMA SameFrame ==
    ASSUME UNCHANGED <<entry, frame_id>>
    PROVE  /\ Offset' = Offset /\ Width' = Width /\ Height' = Height
           /\ OffsetThere' = OffsetThere /\ Found' = Found
           /\ BitsPerSymbol' = BitsPerSymbol /\ DictionarySize' = DictionarySize
           /\ Frame' = Frame /\ Sound' = Sound
<1>1. Offset' = Offset
  BY DEF Offset, Long, Half, Byte
<1>2. Width' = Width /\ Height' = Height
  BY <1>1 DEF Width, Height, Half, Byte
<1>3. BitsPerSymbol' = BitsPerSymbol
  BY <1>1 DEF BitsPerSymbol, Byte
<1>4. DictionarySize' = DictionarySize
  BY <1>3 DEF DictionarySize
<1>5. OffsetThere' = OffsetThere
  BY DEF OffsetThere, There
<1>6. Found' = Found
  BY <1>1 DEF Found
<1>7. Frame' = Frame
  BY DEF Frame
<1>8. Sound' = Sound
  BY DEF Sound
<1> QED
  BY <1>1, <1>2, <1>3, <1>4, <1>5, <1>6, <1>7, <1>8

LEMMA TypeIsOK ==
    TypeInv => TypeOK
<1>1. entry \in Entries => entry.data \in Seq(0 .. 255)
  BY EntriesAssumption DEF Bytes
<1> QED
  BY <1>1 DEF TypeInv, TypeOK, Pixels, RowVariables, PlaneVariables, Colors, Bytes, Steps

(* What the parts of the invariant depend on.                              *)
FrameStays == UNCHANGED <<entry, frame_id>>

LEMMA TypePartsStay ==
    /\ TypeInv /\ FrameStays => entry' \in Entries /\ frame_id' \in 0 .. Len(entry'.frames)
    /\ RowVariables /\ UNCHANGED ds1 => RowVariables'
    /\ PlaneVariables /\ UNCHANGED plnr => PlaneVariables'
    /\ Pixels /\ UNCHANGED img => Pixels'
<1>1. TypeInv /\ FrameStays => entry' \in Entries /\ frame_id' \in 0 .. Len(entry'.frames)
  BY Zenon DEF TypeInv, FrameStays
<1>2. RowVariables /\ UNCHANGED ds1 => RowVariables'
  BY Zenon DEF RowVariables, ds1
<1>3. PlaneVariables /\ UNCHANGED plnr => PlaneVariables'
  BY Zenon DEF PlaneVariables, plnr
<1>4. Pixels /\ UNCHANGED img => Pixels'
  BY Zenon DEF Pixels
<1> QED
  BY <1>1, <1>2, <1>3, <1>4

LEMMA TypeInit ==
    ASSUME Init
    PROVE  TypeInv
<1>1. entry \in Entries /\ frame_id \in 0 .. Len(entry.frames) /\ pc \in Steps /\ pos \in Nat
  BY DEF Init, Steps
<1>4. RowVariables
  <2>1. last \in BOOLEAN
    BY Zenon DEF Init
  <2> QED
    BY <2>1 DEF Init, RowVariables
<1>5. PlaneVariables
  BY DEF Init, PlaneVariables, Bytes
<1>2. Pixels
  BY DEF Init, Pixels
<1>3. pc = "call"
  BY DEF Init
<1> QED
  BY <1>1, <1>2, <1>3, <1>4, <1>5 DEF TypeInv, Begun, Init, Fresh

LEMMA FrameIdIsNatural ==
    ASSUME entry \in Entries, frame_id \in 0 .. Len(entry.frames)
    PROVE  frame_id \in Nat
<1> DEFINE fs == entry.frames
<1>1. fs \in Seq({fs[k] : k \in DOMAIN fs})
  BY EntriesAssumption
<1> HIDE DEF fs
<1>2. Len(fs) \in Nat
  BY <1>1
<1> QED
  BY <1>2 DEF fs

LEMMA TypeIsHead ==
    ASSUME TypeInv, Begun
    PROVE  HeadThere
BY FrameIdIsNatural DEF TypeInv, HeadThere

(* The image that has begun stays the one of this frame.                   *)
ImageThere == OffsetThere /\ Found /\ DOMAIN img = 0 .. Width * Height - 1

LEMMA ImageStays ==
    ASSUME FrameStays, ImageThere, DOMAIN img' = DOMAIN img
    PROVE  ImageThere'
<1>1. Width' = Width /\ Height' = Height /\ OffsetThere' = OffsetThere /\ Found' = Found
  BY SameFrame DEF FrameStays
<1> QED
  BY <1>1, Zenon DEF ImageThere

LEMMA TypeAnswers ==
    ASSUME TypeInv, not_found \/ last_row \/ bad_row \/ behind
    PROVE  TypeInv'
<1>1. FrameStays /\ UNCHANGED <<ds1, plnr, img>>
  BY DEF not_found, last_row, bad_row, behind, Returns, Keeps, FrameStays
<1>2. pc' \in {"behind", "none", "image"} /\ (pc' = "image" => Begun)
  BY DEF not_found, last_row, bad_row, behind, Returns, Begun
<1>3. pos' \in Nat
  BY DEF not_found, last_row, bad_row, behind, Returns, TypeInv
<1>4. Begun' => ImageThere'
  BY <1>1, <1>2, ImageStays DEF Begun, TypeInv, ImageThere
<1> QED
  BY <1>1, <1>2, <1>3, <1>4, TypePartsStay DEF TypeInv, Begun, Steps, ImageThere

LEMMA TypeBegins ==
    ASSUME TypeInv, begin
    PROVE  TypeInv'
<1>1. FrameStays /\ UNCHANGED <<ds1, plnr>> /\ pc' \in {"row", "plane"}
  BY DEF begin, Keeps, FrameStays
<1>2. HeadThere
  BY FrameIdIsNatural DEF begin, HeadThere, TypeInv
<1>3. pos' \in Nat
  BY <1>2, HeadIsThere DEF begin
<1>4. img' = Blank
  BY DEF begin
<1>5. ImageThere' /\ Pixels'
  <2>1. DOMAIN img' = 0 .. Width * Height - 1
    BY <1>4 DEF Blank
  <2>2. Pixels'
    <3> DEFINE S == 0 .. Width * Height - 1
    <3>1. img' = [k \in S |-> Clear] /\ Clear \in Colors
      BY <1>4 DEF Blank, Colors
    <3> HIDE DEF S
    <3>2. img' \in [DOMAIN img' -> Colors]
      BY <3>1
    <3> QED
      BY <3>2 DEF Pixels
  <2>3. ImageThere'
    BY <1>1, <2>1, SameFrame DEF ImageThere, begin, FrameStays
  <2> QED
    BY <2>2, <2>3
<1>6. pc' = "plane" /\ BitsPerSymbol' < 31 => plnr_last_value' < DictionarySize'
  <2>1. UNCHANGED plnr_last_value /\ BitsPerSymbol' = BitsPerSymbol /\ DictionarySize' = DictionarySize
    BY <1>1, SameFrame DEF FrameStays, plnr
  <2>2. CASE BitsPerSymbol < 31
    <3>1. BitsPerSymbol \in 0 .. 30
      BY <1>2, <2>2, HeadIsThere DEF Bytes
    <3>2. DictionarySize \in Nat /\ DictionarySize >= 1
      BY <3>1, PowersOfTwo DEF DictionarySize
    <3>3. plnr_last_value = 0
      BY DEF begin, TypeInv, Fresh
    <3> QED
      BY <2>1, <3>2, <3>3
  <2> QED
    BY <2>1, <2>2
<1>7. Width' * Height' # 0 /\ ~(drawn' > 0)
  <2>1. Width' = Width /\ Height' = Height /\ drawn' = 0
    BY <1>1, SameFrame DEF FrameStays, plnr, begin, TypeInv, Fresh
  <2>2. Width * Height # 0
    <3> DEFINE n == Width * Height
    <3> SUFFICES ASSUME n = 0 PROVE Blank = <<>>
      BY DEF begin
    <3>1. 0 .. n - 1 = {}
      OBVIOUS
    <3> QED
      BY <3>1 DEF Blank
  <2> QED
    BY <2>1, <2>2
<1> QED
  BY <1>1, <1>3, <1>5, <1>6, <1>7, TypePartsStay DEF TypeInv, Begun, Steps, ImageThere

LEMMA TypeRowNumber ==
    ASSUME TypeInv, row_number
    PROVE  TypeInv'
<1>1. FrameStays /\ UNCHANGED <<img, startx, left, last, plnr>> /\ pc = "row" /\ pc' = "segment"
  BY DEF row_number, Keeps, FrameStays
<1>2. HeadThere /\ ImageThere
  BY <1>1, TypeIsHead DEF TypeInv, Begun, ImageThere
<1>3. Width \in Nat /\ Height \in Nat /\ pos \in Nat /\ Byte(pos) \in Nat
  <2>1. Byte(pos) \in Bytes
    BY ByteIsThere DEF TypeInv, row_number
  <2>2. pos \in Nat
    BY DEF TypeInv
  <2> QED
    BY <1>2, <2>1, <2>2, HeadIsThere DEF Bytes
<1>4. at' \in Nat
  <2> DEFINE h == Height - Byte(pos) - 1
  <2>1. h \in Nat
    BY <1>3 DEF row_number
  <2>2. at' = h * Width
    BY DEF row_number, RowStart
  <2> HIDE DEF h
  <2> QED
    BY <1>3, <2>1, <2>2
<1>5. RowVariables'
  <2>1. num_rows \in Nat /\ startx \in Nat /\ left \in Int
    BY DEF TypeInv, RowVariables
  <2>2. num_rows' \in Nat /\ startx' \in Nat /\ left' \in Int
    BY <1>1, <2>1 DEF row_number
  <2>3. last' \in BOOLEAN
    BY <1>1, Zenon DEF TypeInv, RowVariables
  <2> QED
    BY <1>4, <2>2, <2>3 DEF RowVariables
<1>6. pos' \in Nat
  BY <1>3 DEF row_number
<1>7. ImageThere'
  BY <1>1, <1>2, ImageStays
<1> QED
  BY <1>1, <1>5, <1>6, <1>7, TypePartsStay DEF TypeInv, Steps, ImageThere

LEMMA TypeSegment ==
    ASSUME TypeInv, segment
    PROVE  TypeInv'
<1>1. FrameStays /\ UNCHANGED <<img, num_rows, at, plnr>> /\ pc = "segment" /\ pc' = "run"
  BY DEF segment, Keeps, FrameStays
<1>2. ImageThere
  BY <1>1 DEF TypeInv, Begun, ImageThere
<1>3. pos \in Nat /\ entry \in Entries
  BY DEF TypeInv
<1>4. There(pos) /\ There(pos + 1) /\ There(pos + 3)
  BY <1>3, LengthIsNatural DEF segment, There
<1>5. Byte(pos) \in Nat /\ Byte(pos + 1) \in Nat /\ Byte(pos + 3) \in Nat
  <2>1. \A k \in Nat : There(k) => Byte(k) \in Nat
    BY <1>3, ByteIsThere DEF Bytes
  <2>2. pos + 1 \in Nat /\ pos + 3 \in Nat
    BY <1>3
  <2> QED
    BY <1>3, <1>4, <2>1, <2>2
<1>6. startx' \in Nat /\ left' \in Nat /\ pos' \in Nat
  BY <1>3, <1>5 DEF segment
<1>7. RowVariables'
  <2>1. num_rows \in Nat /\ at \in Nat
    BY DEF TypeInv, RowVariables
  <2>2. last' \in BOOLEAN
    <3> DEFINE flag == Byte(pos + 1) >= 128
    <3>1. flag \in BOOLEAN
      OBVIOUS
    <3>2. last' = flag
      BY Zenon DEF segment
    <3> HIDE DEF flag
    <3> QED
      BY <3>1, <3>2
  <2>3. left' \in Int
    BY <1>6
  <2> QED
    BY <1>1, <1>6, <2>1, <2>2, <2>3 DEF RowVariables
<1>8. ImageThere'
  BY <1>1, <1>2, ImageStays
<1>9. pos' + left' >= 0
  <2>1. \A a, b \in Nat : a + b >= 0
    OBVIOUS
  <2> QED
    BY <1>6, <2>1
<1> QED
  BY <1>1, <1>6, <1>7, <1>8, <1>9, TypePartsStay DEF TypeInv, Steps, ImageThere

(* What a run reads is there.                                              *)
LEMMA RunIsThere ==
    ASSUME entry \in Entries, pos \in Nat, There(pos), There(pos + RunBytes)
    PROVE  /\ Byte(pos) \in Bytes /\ RunLength \in Nat \ {0} /\ RunBytes \in Nat
           /\ \A k \in 0 .. RunLength - 1 : Pixel(k) \in Bytes
<1>1. Byte(pos) \in Bytes
  BY ByteIsThere
<1>2. RunLength \in Nat \ {0} /\ RunBytes \in Nat
  BY <1>1 DEF RunLength, RunBytes, Bytes
<1>3. ASSUME NEW k \in 0 .. RunLength - 1
      PROVE  Pixel(k) \in Bytes
  <2> DEFINE j == pos + 1 + (IF Byte(pos) % 2 = 0 THEN k ELSE 0)
  <2>1. Len(entry.data) \in Nat
    BY LengthIsNatural
  <2>2. j \in Nat /\ j <= pos + RunBytes
    BY <1>1, <1>2 DEF RunBytes, Bytes
  <2>3. There(j)
    BY <1>2, <2>1, <2>2 DEF There
  <2>4. Byte(j) \in Bytes
    BY <2>2, <2>3, ByteIsThere
  <2> QED
    BY <2>4 DEF Pixel
<1> QED
  BY <1>1, <1>2, <1>3

LEMMA TypeRun ==
    ASSUME TypeInv, run
    PROVE  TypeInv'
<1> DEFINE first == at + startx
           beyond == first + RunLength
<1>1. FrameStays /\ UNCHANGED <<num_rows, at, last, plnr>> /\ pc = "run" /\ pc' \in {"run", "outside"}
  BY DEF run, Keeps, FrameStays
<1>2. ImageThere
  BY <1>1 DEF TypeInv, Begun, ImageThere
<1>3. pos \in Nat /\ entry \in Entries /\ There(pos) /\ There(pos + RunBytes)
  BY DEF TypeInv, run
<1>4. RunLength \in Nat \ {0} /\ RunBytes \in Nat
  BY <1>3, RunIsThere
<1>5. num_rows \in Nat /\ at \in Nat /\ startx \in Nat /\ left \in Int
  BY DEF TypeInv, RowVariables
<1>6. pos' = pos + 1 + RunBytes /\ left' = left - 1 - RunBytes /\ startx' = startx + RunLength
  BY DEF run
<1>7. RowVariables'
  <2>2. last' \in BOOLEAN
    BY <1>1, Zenon DEF TypeInv, RowVariables
  <2> QED
    BY <1>1, <1>4, <1>5, <1>6, <2>2 DEF RowVariables
<1>8. pos' \in Nat /\ pos' + left' = pos + left
  BY <1>3, <1>4, <1>5, <1>6
<1>9. DOMAIN img' = DOMAIN img /\ Pixels'
  <2>1. CASE beyond - 1 \in DOMAIN img
    <3>1. img' = [k \in DOMAIN img |-> IF k \in first .. beyond - 1 THEN Pixel(k - first) ELSE img[k]]
      BY <2>1 DEF run
    <3>2. ASSUME NEW k \in DOMAIN img, k \in first .. beyond - 1
          PROVE  Pixel(k - first) \in Bytes
      <4>1. k - first \in 0 .. RunLength - 1
        BY <1>4, <1>5, <3>2
      <4> QED
        BY <1>3, <4>1, RunIsThere
    <3>3. \A k \in DOMAIN img : img[k] \in Colors
      BY DEF TypeInv, Pixels
    <3> HIDE DEF first, beyond
    <3> QED
      BY <3>1, <3>2, <3>3 DEF Pixels, Colors
  <2>2. CASE beyond - 1 \notin DOMAIN img
    BY <2>2 DEF run, TypeInv, Pixels
  <2> QED
    BY <2>1, <2>2
<1>10. ImageThere'
  BY <1>1, <1>2, <1>9, ImageStays
<1>11. pos' + left' >= 0
  BY <1>1, <1>8 DEF TypeInv
<1> QED
  BY <1>1, <1>7, <1>8, <1>9, <1>10, <1>11, TypePartsStay DEF TypeInv, Steps, ImageThere

LEMMA TypeEndRun ==
    ASSUME TypeInv, end_run
    PROVE  TypeInv'
<1>1. FrameStays /\ UNCHANGED <<img, ds1, plnr>> /\ pc = "run" /\ pc' \in {"row", "segment"}
  BY DEF end_run, EndRun, Keeps, FrameStays
<1>2. ImageThere
  BY <1>1 DEF TypeInv, Begun, ImageThere
<1>3. pos' \in Nat
  BY <1>1 DEF end_run, EndRun, TypeInv, RowVariables
<1>4. ImageThere'
  BY <1>1, <1>2, ImageStays
<1> QED
  BY <1>1, <1>3, <1>4, TypePartsStay DEF TypeInv, Steps, ImageThere

(* What a symbol can be: a byte that has an entry in the dictionary, which *)
(* is in the chunk.                                                        *)
LEMMA SymbolsHaveEntries ==
    ASSUME HeadThere, BitsPerSymbol < 31, NEW read \in Nat, BitsThere(read),
           BitsPerSymbol = 0 => Bits(read) = {0},
           NEW value \in Bits(read)
    PROVE  value \in Bytes /\ value < DictionarySize
<1> DEFINE b == BitsPerSymbol
           shift == 4 - (read % 8)
<1>1. b \in 0 .. 30 /\ 2^b \in Nat /\ 2^b >= 1 /\ (b \in 1 .. 8 => 2^b <= 256) /\ (b >= 9 => 2^b >= 512)
  <2>1. b \in 0 .. 30
    BY HeadIsThere DEF Bytes
  <2> HIDE DEF b
  <2> QED
    BY <2>1, PowersOfTwo
<1>2. SymbolValues \in 1 .. 256 /\ (b # 0 => SymbolValues <= DictionarySize)
  BY <1>1 DEF SymbolValues, DictionarySize
<1>3. DictionarySize \in Nat /\ DictionarySize >= 1
  BY <1>1 DEF DictionarySize
<1>4. value \in 0 .. SymbolValues - 1
  <2>1. CASE shift + b > 8
    <3>1. value = 0
      BY <2>1 DEF Bits
    <3> QED
      BY <1>2, <3>1
  <2>2. CASE ~(shift + b > 8) /\ shift < 0
    BY <2>2 DEF Bits
  <2>3. CASE ~(shift + b > 8) /\ ~(shift < 0)
    <3> DEFINE j == CodeStart + (read \div 8)
    <3>1. value = (Byte(j) \div 2^shift) % SymbolValues
      BY <2>3 DEF Bits
    <3>2. There(j)
      <4>1. ~(b + 4 - (read % 8) > 8)
        BY <1>1, <2>3
      <4> QED
        BY <4>1 DEF BitsThere
    <3>3. j \in Nat
      BY <1>3, HeadIsThere DEF CodeStart
    <3>4. Byte(j) \in Nat
      BY <3>2, <3>3, ByteIsThere DEF HeadThere, Bytes
    <3>5. 2^shift \in 1 .. 16
      <4>1. shift \in 0 .. 4
        BY <2>3
      <4> HIDE DEF shift
      <4> QED
        BY <4>1, ShiftsOfABit
    <3> HIDE DEF j, shift
    <3>6. Byte(j) \div 2^shift \in Nat
      BY <3>4, <3>5
    <3> QED
      BY <1>2, <3>1, <3>6
  <2> QED
    BY <2>1, <2>2, <2>3
<1>5. CASE b = 0
  <2>1. value = 0
    BY <1>5
  <2> QED
    BY <1>3, <2>1 DEF Bytes
<1>6. CASE b # 0
  BY <1>2, <1>3, <1>4, <1>6 DEF Bytes
<1> QED
  BY <1>5, <1>6

LEMMA ColorsAreThere ==
    ASSUME HeadThere, DictionaryThere, NEW value \in Bytes, value < DictionarySize
    PROVE  Color(value) \in Colors
<1>1. BitsPerSymbol \in 0 .. 30
  BY HeadIsThere DEF Bytes, DictionaryThere
<1>2. DictionarySize \in Nat
  BY <1>1, PowersOfTwo DEF DictionarySize
<1>3. Offset \in Nat /\ entry \in Entries /\ Len(entry.data) \in Nat
  BY HeadIsThere, LengthIsNatural DEF HeadThere
<1>4. Offset + 10 + value \in Nat /\ There(Offset + 10 + value)
  BY <1>2, <1>3 DEF DictionaryThere, CodeStart, There, Bytes
<1>5. Byte(Offset + 10 + value) \in Bytes
  BY <1>3, <1>4, ByteIsThere
<1> QED
  BY <1>5 DEF Color, Colors

(* Each pixel takes its value from a run that has begun or from symbols.   *)
PixelDraws ==
    \E value, remaining, symbols :
        /\ Draws(value, remaining, symbols)
        /\ symbols \in {0, 1, 2}
        /\ value \in Bytes /\ value < DictionarySize
        /\ remaining \in 0 .. 257

LEMMA PixelTakes ==
    ASSUME TypeInv, pixel
    PROVE  PixelDraws
<1>1. pc = "plane" /\ DictionaryThere /\ SymbolThere
  BY DEF pixel
<1>2. HeadThere
  BY <1>1, TypeIsHead DEF Begun
<1>3. BitsPerSymbol < 31 /\ BitsPerSymbol \in Nat
  BY <1>1, <1>2, HeadIsThere DEF DictionaryThere, Bytes
<1>4. /\ plnr_last_value \in Bytes /\ plnr_last_value < DictionarySize
      /\ plnr_remaining \in 0 .. 257 /\ plnr_num_bits_read \in Nat
  BY <1>1, <1>3 DEF TypeInv, PlaneVariables
<1>5. CASE plnr_remaining > 0 /\ Draws(plnr_last_value, plnr_remaining - 1, 0)
  <2>1. plnr_remaining - 1 \in 0 .. 257
    BY <1>4, <1>5
  <2> QED
    BY <1>4, <1>5, <2>1 DEF PixelDraws
<1>6. ASSUME plnr_remaining = 0, NEW first \in Bits(plnr_num_bits_read),
             \/ first # 0 /\ Draws(first, 0, 1)
             \/ /\ first = 0
                /\ \E second \in Bits(plnr_num_bits_read + BitsPerSymbol) :
                      \/ second = 0 /\ Draws(0, 0, 2)
                      \/ second # 0 /\ Draws(plnr_last_value, RunOf(second) - 1, 2)
      PROVE  PixelDraws
  <2>1. /\ BitsThere(plnr_num_bits_read)
        /\ 0 \in Bits(plnr_num_bits_read) => BitsThere(plnr_num_bits_read + BitsPerSymbol)
        /\ BitsPerSymbol = 0 => Bits(plnr_num_bits_read) = {0}
    BY <1>1, <1>6 DEF SymbolThere
  <2>2. first \in Bytes /\ first < DictionarySize
    BY <1>2, <1>3, <1>4, <1>6, <2>1, SymbolsHaveEntries
  <2>3. CASE first # 0 /\ Draws(first, 0, 1)
    <3>1. 0 \in 0 .. 257 /\ 1 \in {0, 1, 2}
      OBVIOUS
    <3> QED
      BY <2>2, <2>3, <3>1 DEF PixelDraws
  <2>4. ASSUME first = 0, NEW second \in Bits(plnr_num_bits_read + BitsPerSymbol),
               \/ second = 0 /\ Draws(0, 0, 2)
               \/ second # 0 /\ Draws(plnr_last_value, RunOf(second) - 1, 2)
        PROVE  PixelDraws
    <3>1. BitsThere(plnr_num_bits_read + BitsPerSymbol) /\ plnr_num_bits_read + BitsPerSymbol \in Nat
      BY <1>3, <1>4, <2>1, <2>4
    <3>2. BitsPerSymbol = 0 => plnr_num_bits_read + BitsPerSymbol = plnr_num_bits_read
      BY <1>3, <1>4
    <3>3. BitsPerSymbol = 0 => Bits(plnr_num_bits_read + BitsPerSymbol) = {0}
      BY <2>1, <3>2
    <3>4. second \in Bytes
      BY <1>2, <1>3, <2>4, <3>1, <3>3, SymbolsHaveEntries
    <3>5. 0 \in 0 .. 257 /\ 2 \in {0, 1, 2} /\ RunOf(second) - 1 \in 0 .. 257
      BY <3>4 DEF RunOf, Bytes
    <3>6. 0 \in Bytes /\ 0 < DictionarySize
      BY <2>2, <2>4
    <3>7. CASE second = 0 /\ Draws(0, 0, 2)
      BY <3>5, <3>6, <3>7 DEF PixelDraws
    <3>8. CASE second # 0 /\ Draws(plnr_last_value, RunOf(second) - 1, 2)
      BY <1>4, <3>5, <3>8 DEF PixelDraws
    <3> QED
      BY <2>4, <3>7, <3>8
  <2> QED
    BY <1>6, <2>3, <2>4
<1> QED
  BY <1>5, <1>6 DEF pixel

LEMMA TypePixel ==
    ASSUME TypeInv, pixel
    PROVE  TypeInv'
<1>1. FrameStays /\ UNCHANGED <<pc, pos, ds1>> /\ pc = "plane" /\ DictionaryThere
  BY DEF pixel, Keeps, FrameStays
<1>2. HeadThere /\ ImageThere
  BY <1>1, TypeIsHead DEF TypeInv, Begun, ImageThere
<1>3. BitsPerSymbol \in Nat
  BY <1>2, HeadIsThere DEF Bytes
<1>4. PICK value, remaining, symbols :
        /\ Draws(value, remaining, symbols)
        /\ symbols \in {0, 1, 2}
        /\ value \in Bytes /\ value < DictionarySize
        /\ remaining \in 0 .. 257
  BY PixelTakes DEF PixelDraws
<1>5. plnr_num_bits_read \in Nat /\ drawn \in Nat
  BY DEF TypeInv, PlaneVariables
<1>6. PlaneVariables'
  <2>1. plnr_num_bits_read' = plnr_num_bits_read + symbols * BitsPerSymbol
    BY <1>4 DEF Draws
  <2>2. plnr_num_bits_read' \in Nat
    BY <1>3, <1>4, <1>5, <2>1
  <2>3. plnr_last_value' = value /\ plnr_remaining' = remaining /\ drawn' = drawn + 1
    BY <1>4 DEF Draws
  <2> QED
    BY <1>4, <1>5, <2>2, <2>3 DEF PlaneVariables
<1>7. DOMAIN img' = DOMAIN img /\ Pixels'
  <2>1. Color(value) \in Colors
    BY <1>1, <1>2, <1>4, ColorsAreThere
  <2>2. img' = [img EXCEPT ![drawn] = Color(value)]
    BY <1>4 DEF Draws
  <2> QED
    BY <2>1, <2>2 DEF TypeInv, Pixels
<1>8. ImageThere'
  BY <1>1, <1>2, <1>7, ImageStays
<1>9. plnr_last_value' < DictionarySize'
  <2>1. DictionarySize' = DictionarySize
    BY <1>1, SameFrame DEF FrameStays
  <2> QED
    BY <1>4, <2>1 DEF Draws
<1>10. Width' * Height' # 0 /\ BitsPerSymbol' < 31
  BY <1>1, SameFrame DEF FrameStays, TypeInv, DictionaryThere
<1> QED
  BY <1>1, <1>6, <1>7, <1>8, <1>9, <1>10, TypePartsStay DEF TypeInv, Steps, ImageThere

LEMMA TypeLastPixel ==
    ASSUME TypeInv, last_pixel
    PROVE  TypeInv'
<1>1. FrameStays /\ UNCHANGED <<img, ds1, plnr>> /\ pc = "plane" /\ pc' = "image"
  BY DEF last_pixel, Keeps, FrameStays
<1>2. HeadThere /\ ImageThere
  BY <1>1, TypeIsHead DEF TypeInv, Begun, ImageThere
<1>3. pos' \in Nat
  <2>0. drawn = Width * Height /\ Width * Height # 0 /\ drawn \in Nat
    BY <1>1 DEF last_pixel, TypeInv, PlaneVariables
  <2>5. BitsPerSymbol < 31
    <3>1. drawn > 0
      BY <2>0
    <3> QED
      BY <1>1, <3>1 DEF TypeInv
  <2>1. BitsPerSymbol \in 0 .. 30 /\ Offset \in Nat
    BY <1>2, <2>5, HeadIsThere DEF Bytes
  <2>2. DictionarySize \in Nat
    BY <2>1, PowersOfTwo DEF DictionarySize
  <2>3. plnr_num_bits_read \in Nat
    BY DEF TypeInv, PlaneVariables
  <2>4. (plnr_num_bits_read + 7) \div 8 \in Nat
    BY <2>3
  <2> QED
    BY <2>1, <2>2, <2>4 DEF last_pixel, CodeStart
<1>4. ImageThere'
  BY <1>1, <1>2, ImageStays
<1> QED
  BY <1>1, <1>3, <1>4, TypePartsStay DEF TypeInv, Steps, ImageThere

LEMMA TypeStep ==
    ASSUME TypeInv, [Next]_vars
    PROVE  TypeInv'
<1>1. CASE not_found \/ last_row \/ bad_row \/ behind
  BY <1>1, TypeAnswers
<1>2. CASE begin
  BY <1>2, TypeBegins
<1>3. CASE row_number
  BY <1>3, TypeRowNumber
<1>4. CASE segment
  BY <1>4, TypeSegment
<1>5. CASE run
  BY <1>5, TypeRun
<1>6. CASE end_run
  BY <1>6, TypeEndRun
<1>7. CASE pixel
  BY <1>7, TypePixel
<1>8. CASE last_pixel
  BY <1>8, TypeLastPixel
<1>9. CASE UNCHANGED vars
  <2>1. FrameStays /\ UNCHANGED <<pc, pos, img, ds1, plnr>>
    BY <1>9 DEF vars, FrameStays
  <2>2. Begun => ImageThere'
    BY <2>1, ImageStays DEF TypeInv, ImageThere
  <2>3. pc = "call" => Fresh'
    BY <2>1, Zenon DEF TypeInv, Fresh, ds1, plnr
  <2>4. pc = "run" => pos' + left' >= 0
    BY <2>1, Zenon DEF TypeInv, ds1
  <2>5. BitsPerSymbol' = BitsPerSymbol /\ DictionarySize' = DictionarySize /\ Width' = Width /\ Height' = Height
    BY <2>1, SameFrame DEF FrameStays
  <2>6. pc = "plane" =>
          /\ BitsPerSymbol' < 31 => plnr_last_value' < DictionarySize'
          /\ Width' * Height' # 0 /\ (drawn' > 0 => BitsPerSymbol' < 31)
    BY <2>1, <2>5 DEF TypeInv, plnr
  <2>7. pc' \in Steps /\ pos' \in Nat
    BY <2>1 DEF TypeInv
  <2> QED
    BY <2>1, <2>2, <2>3, <2>4, <2>6, <2>7, TypePartsStay DEF TypeInv, Begun, ImageThere
<1> QED
  BY <1>1, <1>2, <1>3, <1>4, <1>5, <1>6, <1>7, <1>8, <1>9 DEF Next

------------------------------------------------------------------------------
(* Well-formed frames.                                                     *)

(* The parts of a frame and their places are what they should be.          *)
LEMMA PartsHaveTypes ==
    ASSUME NEW frame, IsFrame(frame)
    PROVE  /\ \A r \in DOMAIN frame.rows : frame.rows[r] \in RowParts
           /\ \A r \in DOMAIN frame.rows : \A s \in DOMAIN frame.rows[r].segments :
                 frame.rows[r].segments[s] \in SegmentParts
           /\ \A r \in DOMAIN frame.rows : \A s \in DOMAIN frame.rows[r].segments :
                 \A i \in DOMAIN frame.rows[r].segments[s].runs :
                    frame.rows[r].segments[s].runs[i] \in RunParts
           /\ \A j \in DOMAIN frame.pieces : frame.pieces[j] \in PieceParts
<1>1. ASSUME NEW S, NEW q \in Seq(S)
      PROVE  \A i \in DOMAIN q : q[i] \in S
  OBVIOUS
<1>2. \A r \in DOMAIN frame.rows : frame.rows[r] \in RowParts
  BY <1>1 DEF IsFrame
<1>3. \A r \in DOMAIN frame.rows : frame.rows[r].segments \in Seq(SegmentParts)
  BY <1>2 DEF RowParts
<1>4. \A r \in DOMAIN frame.rows : \A s \in DOMAIN frame.rows[r].segments :
         frame.rows[r].segments[s] \in SegmentParts
  BY <1>1, <1>3
<1>5. \A r \in DOMAIN frame.rows : \A s \in DOMAIN frame.rows[r].segments :
         frame.rows[r].segments[s].runs \in Seq(RunParts)
  BY <1>4 DEF SegmentParts
<1>6. \A r \in DOMAIN frame.rows : \A s \in DOMAIN frame.rows[r].segments :
         \A i \in DOMAIN frame.rows[r].segments[s].runs :
            frame.rows[r].segments[s].runs[i] \in RunParts
  BY <1>1, <1>5
<1>7. \A j \in DOMAIN frame.pieces : frame.pieces[j] \in PieceParts
  BY <1>1 DEF IsFrame
<1> QED
  BY <1>2, <1>4, <1>6, <1>7

(* Parts in a row: the first begins where they all do, the next one where  *)
(* one ends, and the last one ends where they all do.                      *)
LEMMA PartsFollow ==
    ASSUME NEW S, NEW parts \in Seq(S), NEW from, NEW to, InARow(parts, from, to)
    PROVE  /\ Place(parts, 1, to) = from
           /\ \A i \in 1 .. Len(parts) : Place(parts, i + 1, to) = parts[i].past
<1>1. Place(parts, 1, to) = from
  <2>1. CASE parts = <<>>
    BY <2>1 DEF InARow, Place
  <2>2. CASE parts # <<>>
    <3>1. 1 <= Len(parts) /\ parts[1].at = from
      BY <2>2 DEF InARow
    <3> QED
      BY <3>1 DEF Place
  <2> QED
    BY <2>1, <2>2
<1>2. ASSUME NEW i \in 1 .. Len(parts)
      PROVE  Place(parts, i + 1, to) = parts[i].past
  <2>1. Len(parts) \in Nat /\ i \in DOMAIN parts /\ parts # <<>>
    OBVIOUS
  <2>2. CASE i < Len(parts)
    <3>1. parts[i + 1].at = parts[i].past
      BY <2>1, <2>2 DEF InARow
    <3>2. i + 1 <= Len(parts)
      BY <2>1, <2>2
    <3> QED
      BY <3>1, <3>2 DEF Place
  <2>3. CASE i = Len(parts)
    <3>1. parts[i].past = to
      BY <2>1, <2>3 DEF InARow
    <3>2. ~(i + 1 <= Len(parts))
      BY <2>1, <2>3
    <3> QED
      BY <3>1, <3>2 DEF Place
  <2> QED
    BY <2>1, <2>2, <2>3
<1> QED
  BY <1>1, <1>2

(* The pixels of a row are in the image.                                   *)
LEMMA CellInImage ==
    ASSUME NEW frame, NEW w \in Nat, NEW h \in Nat, frame.width = w, frame.height = h,
           NEW x \in 0 .. w - 1, NEW y \in 0 .. h - 1
    PROVE  Cell(frame, x, y) \in 0 .. w * h - 1
<1> DEFINE d == h - 1 - y
<1>1. d \in Nat /\ w * d \in Nat /\ w * y \in Nat
  OBVIOUS
<1>2. w * h = w * d + w * y + w
  <2>1. h = d + y + 1
    OBVIOUS
  <2> HIDE DEF d
  <2> QED
    BY <1>1, <2>1
<1>3. Cell(frame, x, y) = w * y + x
  BY DEF Cell
<1> HIDE DEF d
<1> DEFINE wd == w * d  wy == w * y  wh == w * h
<1>4. wd \in Nat /\ wy \in Nat /\ wh = wd + wy + w /\ Cell(frame, x, y) = wy + x
  BY <1>1, <1>2, <1>3
<1> HIDE DEF wd, wy, wh
<1>5. wy + x \in 0 .. wh - 1
  BY <1>4
<1> QED
  BY <1>4, <1>5 DEF wh

(* The frame that is asked for, when it is well formed.                    *)
LEMMA SoundFrame ==
    ASSUME TypeInv, Sound
    PROVE  /\ IsFrame(Frame) /\ WellFormed(entry, Frame)
           /\ Offset = Frame.begin /\ Width = Frame.width /\ Height = Frame.height
           /\ OffsetThere
           /\ \A k : FrameByte(entry, Frame, k) = Byte(Frame.begin + k)
           /\ \A k \in Int : k < Frame.begin + Frame.size => There(k)
<1>1. entry \in Entries /\ frame_id \in 0 .. Len(entry.frames)
  BY DEF TypeInv
<1>2. frame_id \in Nat
  BY <1>1, FrameIdIsNatural
<1> DEFINE fs == entry.frames
<1>3. fs \in Seq({fs[k] : k \in DOMAIN fs})
  BY <1>1, EntriesAssumption
<1>4. Len(fs) \in Nat /\ frame_id + 1 \in DOMAIN fs /\ frame_id + 1 <= Len(fs)
  <2>1. frame_id < Len(fs)
    BY DEF Sound
  <2> HIDE DEF fs
  <2> QED
    BY <1>2, <1>3, <2>1
<1>5. IsFrame(Frame) /\ WellFormed(entry, Frame)
  BY <1>1, <1>4, EntriesAssumption DEF Frame, Sound
<1>6. Offset = Frame.begin
  <2>1. Frame.begin = LongOf(entry, 6 + 4 * ((frame_id + 1) - 1))
    <3>1. HasTable(entry)
      BY <1>1, EntriesAssumption
    <3>2. \A k \in DOMAIN fs : fs[k].begin = LongOf(entry, 6 + 4 * (k - 1))
      BY <3>1 DEF HasTable
    <3>3. Frame = fs[frame_id + 1]
      BY DEF Frame
    <3> HIDE DEF fs
    <3> QED
      BY <1>4, <3>2, <3>3
  <2>2. (frame_id + 1) - 1 = frame_id
    BY <1>2
  <2> QED
    BY <2>1, <2>2 DEF Offset, Long, Half, Byte, LongOf, HalfOf, ByteOf
<1>7. Width = Frame.width /\ Height = Frame.height
  BY <1>5, <1>6 DEF WellFormed, Width, Height, Half, Byte, HalfOf, ByteOf
<1>8. Len(entry.data) \in Nat
  BY <1>1, LengthIsNatural
<1>9. OffsetThere
  <2>1. 6 + 4 * Len(fs) <= Len(entry.data)
    <3>1. HasTable(entry)
      BY <1>1, EntriesAssumption
    <3> QED
      BY <3>1 DEF HasTable
  <2> HIDE DEF fs
  <2> QED
    BY <1>2, <1>4, <1>8, <2>1 DEF OffsetThere, There
<1>10. \A k : FrameByte(entry, Frame, k) = Byte(Frame.begin + k)
  BY DEF FrameByte, ByteOf, Byte
<1>11. ASSUME NEW k \in Int, k < Frame.begin + Frame.size
       PROVE  There(k)
  <2>1. Frame.begin + Frame.size <= Len(entry.data)
    BY <1>5 DEF WellFormed
  <2>2. Frame.begin \in Nat /\ Frame.size \in Nat
    BY <1>5 DEF IsFrame
  <2> QED
    BY <1>8, <1>11, <2>1, <2>2 DEF There
<1> QED
  BY <1>5, <1>6, <1>7, <1>9, <1>10, <1>11

(* The rows, segments and runs of a frame, and how they follow each other. *)
FrameOfRows(frame) == IsFrame(frame) /\ frame.size > 4 /\ IsRows(entry, frame)

LEMMA RowFacts ==
    ASSUME NEW frame, FrameOfRows(frame), NEW n \in DOMAIN frame.rows
    PROVE  LET row == frame.rows[n]
           IN  /\ row.at \in Nat /\ row.past \in Nat /\ row.y \in Nat
               /\ row.segments \in Seq(SegmentParts)
               /\ 4 <= row.at /\ row.at < row.past /\ row.past < frame.size + 1
               /\ n + 1 \in Nat /\ n <= Len(frame.rows)
               /\ Place(frame.rows, n, RowsEnd(frame)) = row.at
               /\ Place(frame.rows, n + 1, RowsEnd(frame)) = row.past
               /\ IsRow(entry, frame, row)
<1> DEFINE rows == frame.rows
           row == rows[n]
<1>1. rows \in Seq(RowParts) /\ InARow(rows, 4, RowsEnd(frame)) /\ IsRow(entry, frame, row)
  BY DEF FrameOfRows, IsRows, IsFrame
<1>2. row \in RowParts
  BY PartsHaveTypes DEF FrameOfRows
<1>3. row.at \in Nat /\ row.past \in Nat /\ row.y \in Nat /\ row.segments \in Seq(SegmentParts)
  BY <1>2 DEF RowParts
<1>4. 4 <= row.at /\ row.at < row.past /\ row.past <= RowsEnd(frame)
  BY <1>1 DEF InARow
<1>5. RowsEnd(frame) \in Int /\ RowsEnd(frame) <= frame.size /\ frame.size \in Nat
  BY DEF RowsEnd, FrameOfRows, IsFrame
<1>6. n \in 1 .. Len(rows) /\ Len(rows) \in Nat
  BY <1>1
<1>7. Place(rows, n + 1, RowsEnd(frame)) = row.past
  BY <1>1, <1>6, PartsFollow
<1>8. Place(rows, n, RowsEnd(frame)) = row.at
  BY <1>6 DEF Place
<1>9. row.past < frame.size + 1
  BY <1>3, <1>4, <1>5
<1> HIDE DEF row, rows
<1>10. n + 1 \in Nat /\ n <= Len(rows)
  BY <1>6
<1> QED
  BY <1>1, <1>3, <1>4, <1>7, <1>8, <1>9, <1>10 DEF row, rows

LEMMA SegmentFacts ==
    ASSUME NEW frame, FrameOfRows(frame), NEW n \in DOMAIN frame.rows,
           NEW s \in DOMAIN frame.rows[n].segments
    PROVE  LET row == frame.rows[n]
               part == row.segments[s]
           IN  /\ part.at \in Nat /\ part.past \in Nat /\ part.x \in Nat
               /\ part.runs \in Seq(RunParts)
               /\ row.at + 1 <= part.at /\ part.at + 4 <= part.past /\ part.past <= row.past
               /\ s \in Nat /\ s <= Len(row.segments)
               /\ Place(row.segments, s + 1, row.past) = part.past
               /\ Place(part.runs, 1, part.past) = part.at + 4
               /\ IsSegment(entry, frame, row, s)
<1> DEFINE row == frame.rows[n]
           segs == row.segments
           part == segs[s]
           runs == part.runs
<1>1. row.segments \in Seq(SegmentParts) /\ IsRow(entry, frame, row)
  BY RowFacts
<1>2. InARow(segs, row.at + 1, row.past) /\ IsSegment(entry, frame, row, s)
  BY <1>1 DEF IsRow
<1>3. part \in SegmentParts
  BY PartsHaveTypes DEF FrameOfRows
<1>4. part.at \in Nat /\ part.past \in Nat /\ part.x \in Nat /\ part.runs \in Seq(RunParts)
  BY <1>3 DEF SegmentParts
<1>5. row.at + 1 <= part.at /\ part.past <= row.past
  BY <1>2 DEF InARow
<1>6. s \in 1 .. Len(segs)
  BY <1>1
<1>7. Place(segs, s + 1, row.past) = part.past
  <2>1. segs \in Seq(SegmentParts) /\ InARow(segs, row.at + 1, row.past)
    BY <1>1, <1>2
  <2> HIDE DEF row, segs
  <2> QED
    BY <1>6, <2>1, PartsFollow
<1>8. InARow(runs, part.at + 4, part.past)
  BY <1>2 DEF IsSegment
<1>9. Place(runs, 1, part.past) = part.at + 4
  <2>1. runs \in Seq(RunParts)
    BY <1>4
  <2> HIDE DEF runs, part
  <2> QED
    BY <1>8, <2>1, PartsFollow
<1>10. part.at + 4 <= part.past
  <2>1. CASE runs = <<>>
    BY <1>4, <1>8, <2>1 DEF InARow
  <2>2. CASE runs # <<>>
    <3>1. 1 \in DOMAIN runs
      <4>1. runs \in Seq(RunParts)
        BY <1>4
      <4> HIDE DEF runs
      <4> QED
        BY <2>2, <4>1
    <3>2. part.at + 4 <= runs[1].at /\ runs[1].at < runs[1].past /\ runs[1].past <= part.past
      BY <1>8, <3>1 DEF InARow
    <3>3. runs[1] \in RunParts
      BY <1>4, <3>1
    <3>4. runs[1].at \in Nat /\ runs[1].past \in Nat
      BY <3>3 DEF RunParts
    <3> DEFINE p == part.at  q == part.past  u == runs[1].at  v == runs[1].past
    <3>5. p \in Nat /\ q \in Nat /\ u \in Nat /\ v \in Nat /\ p + 4 <= u /\ u < v /\ v <= q
      BY <1>4, <3>2, <3>4
    <3>6. p + 4 <= q
      <4> HIDE DEF p, q, u, v
      <4> QED
        BY <3>5
    <3> QED
      BY <3>6
  <2> QED
    BY <2>1, <2>2
<1>11. s \in Nat /\ s <= Len(segs)
  BY <1>6
<1> QED
  BY <1>2, <1>4, <1>5, <1>7, <1>9, <1>10, <1>11

(* Where run i of a segment lies, and what follows it.                     *)
RunFits(part, i) ==
    LET r == part.runs[i]
    IN  /\ i <= Len(part.runs) /\ i + 1 \in 1 .. Len(part.runs) + 1
        /\ Place(part.runs, i, part.past) = r.at
        /\ Place(part.runs, i + 1, part.past) = r.past
        /\ i + 1 <= Len(part.runs) => part.runs[i + 1].x = r.x + r.n

LEMMA RunFacts ==
    ASSUME NEW frame, FrameOfRows(frame), NEW n \in DOMAIN frame.rows,
           NEW s \in DOMAIN frame.rows[n].segments,
           NEW i \in DOMAIN frame.rows[n].segments[s].runs
    PROVE  LET part == frame.rows[n].segments[s]
               r == part.runs[i]
           IN  /\ r.at \in Nat /\ r.past \in Nat /\ r.x \in Nat /\ r.n \in Nat \ {0} /\ r.same \in BOOLEAN
               /\ part.at + 4 <= r.at /\ r.at < r.past /\ r.past <= part.past
               /\ i \in Nat /\ RunFits(part, i)
               /\ IsRun(entry, frame, frame.rows[n].y, r)
<1> DEFINE part == frame.rows[n].segments[s]
           runs == part.runs
           r == runs[i]
<1>1. runs \in Seq(RunParts) /\ IsSegment(entry, frame, frame.rows[n], s)
  BY SegmentFacts
<1>2. InARow(runs, part.at + 4, part.past) /\ IsRun(entry, frame, frame.rows[n].y, r)
  BY <1>1 DEF IsSegment
<1>3. \A j \in DOMAIN runs : j # 1 => runs[j].x = runs[j - 1].x + runs[j - 1].n
  BY <1>1 DEF IsSegment
<1>4. r \in RunParts
  BY <1>1
<1>5. r.at \in Nat /\ r.past \in Nat /\ r.x \in Nat /\ r.n \in Nat \ {0} /\ r.same \in BOOLEAN
  BY <1>4 DEF RunParts
<1>6. part.at + 4 <= r.at /\ r.at < r.past /\ r.past <= part.past
  BY <1>2 DEF InARow
<1>7. i \in 1 .. Len(runs) /\ Len(runs) \in Nat
  BY <1>1
<1>8. Place(runs, i + 1, part.past) = r.past /\ Place(runs, i, part.past) = r.at
  <2> HIDE DEF runs
  <2> QED
    BY <1>1, <1>2, <1>7, PartsFollow DEF Place
<1>9. i + 1 <= Len(runs) => runs[i + 1].x = r.x + r.n
  <2>1. i + 1 <= Len(runs) => i + 1 \in DOMAIN runs /\ i + 1 # 1 /\ (i + 1) - 1 = i
    <3> HIDE DEF runs
    <3> QED
      BY <1>1, <1>7
  <2> QED
    BY <1>3, <2>1
<1>10. i \in Nat /\ i <= Len(runs) /\ i + 1 \in 1 .. Len(runs) + 1
  <2> HIDE DEF runs
  <2> QED
    BY <1>7
<1> QED
  BY <1>2, <1>5, <1>6, <1>8, <1>9, <1>10 DEF RunFits

------------------------------------------------------------------------------
(* What is drawn.                                                          *)

(* What is as in the picture stays so.                                     *)
Improves(frame, image, after) ==
    /\ DOMAIN after = DOMAIN image
    /\ \A k \in DOMAIN image : image[k] = frame.pixels[k] => after[k] = frame.pixels[k]

LEMMA DrawnStays ==
    ASSUME NEW frame, NEW image, NEW after, Improves(frame, image, after),
           NEW r, NEW s, NEW i, DrawnTo(frame, image, r, s, i)
    PROVE  DrawnTo(frame, after, r, s, i)
<1>1. ASSUME NEW row, NEW part, IsDrawn(frame, image, row, part)
      PROVE  IsDrawn(frame, after, row, part)
  <2> SUFFICES ASSUME NEW c \in 0 .. part.n - 1
               PROVE  LET k == Cell(frame, part.x + c, row.y)
                      IN  k \in DOMAIN after /\ after[k] = frame.pixels[k]
    BY DEF IsDrawn
  <2> DEFINE k == Cell(frame, part.x + c, row.y)
  <2>1. k \in DOMAIN image /\ image[k] = frame.pixels[k]
    BY <1>1 DEF IsDrawn
  <2> HIDE DEF k
  <2>2. k \in DOMAIN after /\ after[k] = frame.pixels[k]
    BY <2>1 DEF Improves
  <2> QED
    BY <2>2 DEF k
<1> QED
  BY <1>1 DEF DrawnTo

LEMMA NextRun ==
    ASSUME NEW frame, FrameOfRows(frame), NEW image, NEW n \in DOMAIN frame.rows,
           NEW s \in DOMAIN frame.rows[n].segments,
           NEW i \in DOMAIN frame.rows[n].segments[s].runs,
           DrawnTo(frame, image, n, s, i),
           IsDrawn(frame, image, frame.rows[n], frame.rows[n].segments[s].runs[i])
    PROVE  DrawnTo(frame, image, n, s, i + 1)
<1> SUFFICES ASSUME NEW r1 \in DOMAIN frame.rows, NEW s1 \in DOMAIN frame.rows[r1].segments,
                    NEW i1 \in DOMAIN frame.rows[r1].segments[s1].runs,
                    Before(r1, s1, i1, n, s, i + 1)
             PROVE  IsDrawn(frame, image, frame.rows[r1], frame.rows[r1].segments[s1].runs[i1])
  BY DEF DrawnTo
<1>1. i1 \in Nat /\ i \in Nat
  BY RunFacts
<1>2. CASE r1 = n /\ s1 = s /\ i1 = i
  BY <1>2
<1>3. CASE ~(r1 = n /\ s1 = s /\ i1 = i)
  <2>1. Before(r1, s1, i1, n, s, i)
    BY <1>1, <1>3 DEF Before
  <2> QED
    BY <2>1 DEF DrawnTo
<1> QED
  BY <1>2, <1>3

LEMMA NextSegment ==
    ASSUME NEW frame, FrameOfRows(frame), NEW image, NEW n \in DOMAIN frame.rows,
           NEW s \in DOMAIN frame.rows[n].segments,
           DrawnTo(frame, image, n, s, Len(frame.rows[n].segments[s].runs) + 1)
    PROVE  /\ DrawnTo(frame, image, n, s + 1, 1)
           /\ s = Len(frame.rows[n].segments) => DrawnTo(frame, image, n + 1, 1, 1)
<1>1. ASSUME NEW r1 \in DOMAIN frame.rows, NEW s1 \in DOMAIN frame.rows[r1].segments,
             NEW i1 \in DOMAIN frame.rows[r1].segments[s1].runs,
             \/ Before(r1, s1, i1, n, s + 1, 1)
             \/ s = Len(frame.rows[n].segments) /\ Before(r1, s1, i1, n + 1, 1, 1)
      PROVE  IsDrawn(frame, image, frame.rows[r1], frame.rows[r1].segments[s1].runs[i1])
  <2>1. /\ i1 \in Nat /\ i1 <= Len(frame.rows[r1].segments[s1].runs)
        /\ s1 \in Nat /\ s \in Nat /\ s1 <= Len(frame.rows[r1].segments)
        /\ r1 \in Nat /\ n \in Nat /\ i1 # 0 /\ s1 # 0
    <3>1. r1 \in Nat /\ n \in Nat
      <4>1. frame.rows \in Seq(RowParts)
        BY DEF FrameOfRows, IsFrame
      <4> QED
        BY <4>1
    <3>2. s1 \in Nat /\ s1 # 0 /\ s1 <= Len(frame.rows[r1].segments)
      <4> DEFINE segs == frame.rows[r1].segments
      <4>1. segs \in Seq(SegmentParts)
        BY RowFacts
      <4> HIDE DEF segs
      <4>2. \A j \in DOMAIN segs : j \in Nat /\ j # 0 /\ j <= Len(segs)
        BY <4>1
      <4> QED
        BY <4>2 DEF segs
    <3>3. i1 \in Nat /\ i1 # 0 /\ i1 <= Len(frame.rows[r1].segments[s1].runs)
      <4> DEFINE runs == frame.rows[r1].segments[s1].runs
      <4>1. runs \in Seq(RunParts)
        BY SegmentFacts
      <4> HIDE DEF runs
      <4>2. \A j \in DOMAIN runs : j \in Nat /\ j # 0 /\ j <= Len(runs)
        BY <4>1
      <4> QED
        BY <4>2 DEF runs
    <3>4. s \in Nat
      BY SegmentFacts
    <3> QED
      BY <3>1, <3>2, <3>3, <3>4
  <2>2. Before(r1, s1, i1, n, s, Len(frame.rows[n].segments[s].runs) + 1)
    <3>1. CASE r1 < n
      BY <3>1 DEF Before
    <3>2. CASE ~(r1 < n)
      <4>1. r1 = n /\ s1 <= s
        BY <1>1, <2>1, <3>2 DEF Before
      <4>2. CASE s1 < s
        BY <4>1, <4>2 DEF Before
      <4>3. CASE s1 = s
        <5>1. \A len : len \in Nat /\ i1 <= len => i1 < len + 1
          BY <2>1
        <5>2. Len(frame.rows[n].segments[s].runs) \in Nat
          <6> DEFINE runs == frame.rows[n].segments[s].runs
          <6>1. runs \in Seq(RunParts)
            BY SegmentFacts
          <6> HIDE DEF runs
          <6>2. Len(runs) \in Nat
            BY <6>1
          <6> QED
            BY <6>2 DEF runs
        <5> QED
          BY <2>1, <4>1, <4>3, <5>1, <5>2 DEF Before
      <4> QED
        BY <2>1, <4>1, <4>2, <4>3
    <3> QED
      BY <3>1, <3>2
  <2> QED
    BY <2>2 DEF DrawnTo
<1> QED
  BY <1>1 DEF DrawnTo

------------------------------------------------------------------------------
(* Rows.                                                                   *)

(* While fewer rows were begun than the picture has, a number that is not  *)
(* the mark is that of the next row, and behind it is its first segment;   *)
(* and the mark is behind all rows.                                        *)
LEMMA RowBegins ==
    ASSUME NEW frame, FrameOfRows(frame), NEW n \in 0 .. Len(frame.rows), n < frame.height
    PROVE  LET place == Place(frame.rows, n + 1, RowsEnd(frame))
           IN  /\ place \in Nat /\ place < frame.size
               /\ FrameByte(entry, frame, place) # 255 =>
                     /\ n + 1 \in DOMAIN frame.rows /\ place = frame.rows[n + 1].at
                     /\ 1 \in DOMAIN frame.rows[n + 1].segments
                     /\ frame.rows[n + 1].segments[1].at = frame.rows[n + 1].at + 1
               /\ FrameByte(entry, frame, place) = 255 =>
                     n = Len(frame.rows) /\ place = frame.size - 1
<1> DEFINE rows == frame.rows
           len == Len(rows)
           place == Place(rows, n + 1, RowsEnd(frame))
<1>1. rows \in Seq(RowParts) /\ frame.size \in Nat /\ frame.size > 4 /\ IsRows(entry, frame)
  BY DEF FrameOfRows, IsFrame
<1>2. len \in Nat /\ (n < len => n + 1 \in DOMAIN rows /\ n + 1 <= len) /\ (n >= len => n = len /\ ~(n + 1 <= len))
  <2> HIDE DEF rows
  <2> QED
    BY <1>1 DEF rows
<1>3. CASE n < len
  <2> DEFINE row == rows[n + 1]
             segs == row.segments
  <2>1. n + 1 \in DOMAIN rows /\ place = row.at
    BY <1>2, <1>3 DEF Place
  <2>2. /\ row.at \in Nat /\ row.past \in Nat /\ row.at < row.past /\ row.past < frame.size + 1
        /\ segs \in Seq(SegmentParts) /\ IsRow(entry, frame, row)
    BY <2>1, RowFacts
  <2>3. segs # <<>> /\ InARow(segs, row.at + 1, row.past) /\ FrameByte(entry, frame, row.at) # 255
    BY <2>2 DEF IsRow
  <2>4. segs[1].at = row.at + 1
    BY <2>3 DEF InARow
  <2>5. 1 \in DOMAIN segs
    <3> HIDE DEF segs
    <3> QED
      BY <2>2, <2>3
  <2>6. place \in Nat /\ place < frame.size
    <3> DEFINE a == row.at  p == row.past  z == frame.size
    <3>1. a \in Nat /\ p \in Nat /\ z \in Nat /\ a < p /\ p < z + 1
      BY <1>1, <2>2
    <3>2. a < z
      <4> HIDE DEF a, p, z
      <4> QED
        BY <3>1
    <3> QED
      BY <2>1, <3>1, <3>2
  <2> QED
    BY <2>1, <2>3, <2>4, <2>5, <2>6
<1>4. CASE n >= len
  <2>1. n = len /\ place = RowsEnd(frame)
    BY <1>2, <1>4 DEF Place
  <2>2. len < frame.height
    BY <2>1
  <2>3. place = frame.size - 1 /\ FrameByte(entry, frame, place) = 255
    BY <1>1, <2>1, <2>2 DEF RowsEnd, IsRows
  <2>4. place \in Nat /\ place < frame.size
    BY <1>1, <2>3
  <2> QED
    BY <2>1, <2>3, <2>4
<1>5. n \in Int /\ len \in Int
  BY <1>2
<1> QED
  BY <1>3, <1>4, <1>5

(* When all rows are drawn, the image is the picture.                      *)
LEMMA AllRowsDrawn ==
    ASSUME NEW frame, FrameOfRows(frame), NEW image,
           NEW size \in Int, frame.pixels \in [0 .. size -> Colors],
           image \in [DOMAIN image -> Colors], DOMAIN image = 0 .. size,
           NoneWrong(frame, image), DrawnTo(frame, image, Len(frame.rows) + 1, 1, 1)
    PROVE  image = frame.pixels
<1>1. ASSUME NEW k \in 0 .. size
      PROVE  image[k] = frame.pixels[k]
  <2>1. CASE frame.pixels[k] = Clear
    BY <2>1 DEF NoneWrong
  <2>2. ASSUME NEW r \in DOMAIN frame.rows, NEW s \in DOMAIN frame.rows[r].segments,
               NEW i \in DOMAIN frame.rows[r].segments[s].runs,
               InRun(frame, frame.rows[r], frame.rows[r].segments[s].runs[i], k)
        PROVE  image[k] = frame.pixels[k]
    <3> DEFINE part == frame.rows[r].segments[s].runs[i]
    <3>1. r < Len(frame.rows) + 1
      <4> DEFINE rows == frame.rows
      <4>1. rows \in Seq(RowParts)
        BY DEF FrameOfRows, IsFrame
      <4> HIDE DEF rows
      <4>2. \A q \in DOMAIN rows : q < Len(rows) + 1
        BY <4>1
      <4> QED
        BY <4>2 DEF rows
    <3>2. Before(r, s, i, Len(frame.rows) + 1, 1, 1)
      BY <3>1 DEF Before
    <3>3. IsDrawn(frame, image, frame.rows[r], part)
      BY <3>2 DEF DrawnTo
    <3>4. PICK c \in 0 .. part.n - 1 : k = Cell(frame, part.x + c, frame.rows[r].y)
      BY <2>2 DEF InRun
    <3> QED
      BY <3>3, <3>4 DEF IsDrawn
  <2>3. \/ frame.pixels[k] = Clear
        \/ \E r \in DOMAIN frame.rows : \E s \in DOMAIN frame.rows[r].segments :
              \E i \in DOMAIN frame.rows[r].segments[s].runs :
                 InRun(frame, frame.rows[r], frame.rows[r].segments[s].runs[i], k)
    <3>1. k \in DOMAIN frame.pixels
      OBVIOUS
    <3> QED
      BY <3>1 DEF FrameOfRows, IsRows
  <2> QED
    BY <2>1, <2>2, <2>3
<1>2. image \in [0 .. size -> Colors]
  BY Zenon
<1> DEFINE pixels == frame.pixels
<1>3. pixels \in [0 .. size -> Colors] /\ \A k \in 0 .. size : image[k] = pixels[k]
  BY <1>1
<1> HIDE DEF pixels
<1>4. image = pixels
  BY <1>2, <1>3
<1> QED
  BY <1>4 DEF pixels

------------------------------------------------------------------------------
(* The steps, for a well-formed frame.                                     *)

(* What is known of such a frame before and after a step.                  *)
SoundAt == TypeInv /\ SoundInv /\ Sound

LEMMA SoundIsTheSame ==
    ASSUME FrameStays
    PROVE  /\ Frame' = Frame /\ Sound' = Sound /\ Found' = Found
           /\ IsRows(entry, Frame) => IsRows(entry', Frame')
           /\ IsPlane(entry, Frame) => IsPlane(entry', Frame')
           /\ NoneWrong(Frame, img) /\ UNCHANGED img => NoneWrong(Frame', img')
<1>1. Frame' = Frame /\ Sound' = Sound /\ Found' = Found
  BY SameFrame DEF FrameStays
<1>2. entry' = entry
  BY DEF FrameStays
<1> QED
  BY <1>1, <1>2, Zenon

(* Where a frame of rows is.                                               *)
LEMMA RowsFrame ==
    ASSUME SoundAt, pc \in {"row", "segment", "run"}
    PROVE  /\ FrameOfRows(Frame)
           /\ Frame.begin \in Nat /\ Frame.size \in Nat
           /\ Frame.width \in Nat /\ Frame.height \in Nat
           /\ Width = Frame.width /\ Height = Frame.height
           /\ \A k : FrameByte(entry, Frame, k) = Byte(Frame.begin + k)
           /\ \A k \in Int : k < Frame.size => There(Frame.begin + k)
           /\ Frame.pixels \in [0 .. Frame.width * Frame.height - 1 -> Colors]
           /\ DOMAIN img = 0 .. Frame.width * Frame.height - 1
           /\ NoneWrong(Frame, img)
<1>1. /\ IsFrame(Frame) /\ WellFormed(entry, Frame)
      /\ Width = Frame.width /\ Height = Frame.height
      /\ \A k : FrameByte(entry, Frame, k) = Byte(Frame.begin + k)
      /\ \A k \in Int : k < Frame.begin + Frame.size => There(k)
  BY SoundFrame DEF SoundAt
<1>2. FrameOfRows(Frame) /\ NoneWrong(Frame, img)
  BY <1>1 DEF FrameOfRows, WellFormed, SoundAt, SoundInv
<1>3. /\ Frame.begin \in Nat /\ Frame.size \in Nat
      /\ Frame.width \in Nat /\ Frame.height \in Nat
  BY <1>1 DEF IsFrame
<1>4. \A k \in Int : k < Frame.size => There(Frame.begin + k)
  <2> DEFINE b == Frame.begin  z == Frame.size
  <2>1. b \in Nat /\ z \in Nat /\ \A k \in Int : k < b + z => There(k)
    BY <1>1, <1>3
  <2>2. \A k \in Int : k < z => There(b + k)
    <3> HIDE DEF b, z
    <3>1. \A k \in Int : k < z => b + k \in Int /\ b + k < b + z
      BY <2>1
    <3> QED
      BY <2>1, <3>1
  <2> QED
    BY <2>2
<1>5. Frame.pixels \in [0 .. Frame.width * Frame.height - 1 -> Colors]
  BY <1>1 DEF WellFormed, Colors
<1>6. DOMAIN img = 0 .. Width * Height - 1
  BY DEF SoundAt, TypeInv, Begun
<1> QED
  BY <1>1, <1>2, <1>3, <1>4, <1>5, <1>6

(* A row: its segments are drawn where it belongs.                         *)
LEMMA SoundRowNumber ==
    ASSUME SoundAt, row_number
    PROVE  SoundInv'
<1>1. FrameStays /\ UNCHANGED img /\ pc = "row" /\ pc' = "segment"
  BY DEF row_number, Keeps, FrameStays
<1>2. /\ FrameOfRows(Frame) /\ Frame.begin \in Nat /\ Frame.size \in Nat
      /\ Frame.width \in Nat /\ Frame.height \in Nat
      /\ Width = Frame.width /\ Height = Frame.height
      /\ \A k : FrameByte(entry, Frame, k) = Byte(Frame.begin + k)
  BY <1>1, RowsFrame
<1>3. RowPlace(Frame, img, pos, num_rows)
  BY <1>1 DEF SoundAt, SoundInv
<1> DEFINE place == Place(Frame.rows, num_rows + 1, RowsEnd(Frame))
           row == Frame.rows[num_rows + 1]
<1>4. num_rows \in 0 .. Len(Frame.rows) /\ pos = Frame.begin + place /\ num_rows < Frame.height
      /\ DrawnTo(Frame, img, num_rows + 1, 1, 1)
  BY <1>2, <1>3 DEF RowPlace, row_number
<1>5. Byte(pos) # 255 /\ Byte(pos) = FrameByte(entry, Frame, place)
  BY <1>2, <1>4 DEF row_number
<1>6. /\ num_rows + 1 \in DOMAIN Frame.rows /\ place = row.at
      /\ 1 \in DOMAIN row.segments /\ row.segments[1].at = row.at + 1
  BY <1>2, <1>4, <1>5, RowBegins
<1>7. row.at \in Nat /\ row.y \in Nat /\ IsRow(entry, Frame, row)
  BY <1>2, <1>6, RowFacts
<1>8. Byte(pos) = Frame.height - 1 - row.y
  BY <1>5, <1>6, <1>7 DEF IsRow
<1>9. at' = Cell(Frame, 0, row.y)
  <2> DEFINE h == Frame.height  y == row.y  w == Frame.width
  <2>1. at' = (h - (h - 1 - y) - 1) * w
    BY <1>2, <1>8 DEF row_number, RowStart
  <2>2. h \in Nat /\ y \in Nat /\ w \in Nat
    BY <1>2, <1>7
  <2> HIDE DEF h, y, w
  <2>3. h - (h - 1 - y) - 1 = y
    BY <2>2
  <2>4. at' = y * w + 0
    BY <2>1, <2>2, <2>3
  <2> QED
    BY <2>4 DEF Cell, h, y, w
<1>10. pos' = Frame.begin + row.segments[1].at /\ num_rows' = num_rows + 1
  <2> DEFINE b == Frame.begin  a == row.at
  <2>1. pos' = (b + a) + 1 /\ row.segments[1].at = a + 1 /\ b \in Nat /\ a \in Nat
    BY <1>2, <1>4, <1>6, <1>7 DEF row_number
  <2>2. pos' = b + (a + 1)
    <3> HIDE DEF b, a
    <3> QED
      BY <2>1
  <2> QED
    BY <2>1, <2>2 DEF row_number
<1>11. SegmentPlace(Frame, img, pos', num_rows', at')
  BY <1>4, <1>6, <1>9, <1>10 DEF SegmentPlace, InRow
<1>12. SegmentPlace(Frame', img', pos', num_rows', at')
  BY <1>1, <1>11, SoundIsTheSame, Zenon
<1>13. IsRows(entry', Frame') /\ NoneWrong(Frame', img')
  BY <1>1, <1>2, RowsFrame, SoundIsTheSame DEF FrameOfRows
<1> QED
  BY <1>1, <1>12, <1>13 DEF SoundInv

(* Behind the last row all of the picture is drawn.                        *)
LEMMA SoundLastRow ==
    ASSUME SoundAt, last_row
    PROVE  SoundInv'
<1>1. FrameStays /\ UNCHANGED img /\ pc = "row" /\ pc' = "image"
  BY DEF last_row, Keeps, FrameStays
<1>2. /\ FrameOfRows(Frame) /\ Frame.begin \in Nat /\ Frame.size \in Nat
      /\ Frame.width \in Nat /\ Frame.height \in Nat /\ Height = Frame.height
      /\ \A k : FrameByte(entry, Frame, k) = Byte(Frame.begin + k)
      /\ Frame.pixels \in [0 .. Frame.width * Frame.height - 1 -> Colors]
      /\ DOMAIN img = 0 .. Frame.width * Frame.height - 1 /\ NoneWrong(Frame, img)
  BY <1>1, RowsFrame
<1> DEFINE n == num_rows
           len == Len(Frame.rows)
           place == Place(Frame.rows, n + 1, RowsEnd(Frame))
<1>3. n \in 0 .. len /\ pos = Frame.begin + place /\ DrawnTo(Frame, img, n + 1, 1, 1)
  BY <1>1 DEF SoundAt, SoundInv, RowPlace
<1>4. len \in Nat /\ len <= Frame.height
  <2> DEFINE rows == Frame.rows
  <2>1. rows \in Seq(RowParts) /\ Len(rows) <= Frame.height
    BY <1>2 DEF FrameOfRows, IsFrame, IsRows
  <2> HIDE DEF rows
  <2>2. Len(rows) \in Nat
    BY <2>1
  <2> QED
    BY <2>1, <2>2 DEF rows
<1>5. n = len /\ pos' = Frame.begin + Frame.size
  <2>1. CASE n >= Frame.height /\ UNCHANGED pos
    <3>1. n = len /\ len = Frame.height
      BY <1>2, <1>3, <1>4, <2>1
    <3>2. place = Frame.size
      BY <1>4, <3>1 DEF Place, RowsEnd
    <3> QED
      BY <1>3, <2>1, <3>1, <3>2
  <2>2. CASE n < Frame.height /\ Byte(pos) = 255 /\ pos' = pos + 1
    <3>1. FrameByte(entry, Frame, place) = 255
      BY <1>2, <1>3, <2>2
    <3>2. n = len /\ place = Frame.size - 1
      BY <1>2, <1>3, <2>2, <3>1, RowBegins
    <3> HIDE DEF place
    <3> QED
      BY <1>2, <1>3, <2>2, <3>2
  <2> QED
    BY <1>2, <2>1, <2>2 DEF last_row
<1>6. img = Frame.pixels
  <2>1. img \in [DOMAIN img -> Colors]
    BY DEF SoundAt, TypeInv, Pixels
  <2> DEFINE size == Frame.width * Frame.height - 1
  <2>2. size \in Int
    BY <1>2
  <2>3. DrawnTo(Frame, img, Len(Frame.rows) + 1, 1, 1)
    BY <1>3, <1>5
  <2> HIDE DEF size
  <2>4. Frame.pixels \in [0 .. size -> Colors] /\ DOMAIN img = 0 .. size
    BY <1>2 DEF size
  <2> QED
    BY <1>2, <2>1, <2>2, <2>3, <2>4, AllRowsDrawn
<1>7. img' = Frame'.pixels /\ pos' = Frame'.begin + Frame'.size
  BY <1>1, <1>5, <1>6, SoundIsTheSame
<1>8. NoneWrong(Frame', img')
  BY <1>1, <1>2, SoundIsTheSame
<1> QED
  BY <1>1, <1>7, <1>8 DEF SoundInv

(* No row is refused.                                                      *)
LEMMA NoBadRow ==
    ASSUME SoundAt, bad_row
    PROVE  FALSE
<1>1. pc = "row"
  BY DEF bad_row
<1>2. /\ FrameOfRows(Frame) /\ Frame.height \in Nat /\ Height = Frame.height
      /\ \A k : FrameByte(entry, Frame, k) = Byte(Frame.begin + k)
  BY <1>1, RowsFrame
<1> DEFINE place == Place(Frame.rows, num_rows + 1, RowsEnd(Frame))
           row == Frame.rows[num_rows + 1]
<1>3. num_rows \in 0 .. Len(Frame.rows) /\ pos = Frame.begin + place /\ num_rows < Frame.height
  BY <1>1, <1>2 DEF SoundAt, SoundInv, RowPlace, bad_row
<1>4. Byte(pos) # 255 /\ Byte(pos) = FrameByte(entry, Frame, place) /\ Byte(pos) >= Frame.height
  BY <1>2, <1>3 DEF bad_row
<1>5. num_rows + 1 \in DOMAIN Frame.rows /\ place = row.at
  BY <1>2, <1>3, <1>4, RowBegins
<1>6. row.y \in Nat /\ IsRow(entry, Frame, row)
  BY <1>2, <1>5, RowFacts
<1>7. Byte(pos) = Frame.height - 1 - row.y
  BY <1>4, <1>5, <1>6 DEF IsRow
<1> DEFINE h == Frame.height  y == row.y
<1>8. h \in Nat /\ y \in Nat /\ h - 1 - y >= h
  BY <1>2, <1>4, <1>6, <1>7
<1> HIDE DEF h, y
<1> QED
  BY <1>8

(* The type of a frame is where the decoder looks for it.                  *)
LEMMA TypeIsRead ==
    ASSUME TypeInv, Sound
    PROVE  FrameType = TypeBytes(entry, Frame)
<1> DEFINE b == Frame.begin
<1>1. Offset = b /\ b \in Nat /\ \A k : FrameByte(entry, Frame, k) = Byte(b + k)
  BY SoundFrame DEF IsFrame
<1> HIDE DEF b
<1>2. \A k \in 1 .. 4 : Byte(Offset + 4 + k) = FrameByte(entry, Frame, 4 + k)
  <2>1. \A k \in 1 .. 4 : Offset + 4 + k = b + (4 + k)
    BY <1>1
  <2> QED
    BY <1>1, <2>1
<1>3. [k \in 1 .. 4 |-> Byte(Offset + 4 + k)] = [k \in 1 .. 4 |-> FrameByte(entry, Frame, 4 + k)]
  BY <1>2
<1> QED
  BY <1>3 DEF FrameType, TypeBytes

(* A well-formed frame is found unless it is too near the end, and is one  *)
(* of rows or one of symbols, with a picture.                              *)
LEMMA SoundNotFound ==
    ASSUME SoundAt, not_found
    PROVE  SoundInv'
<1>1. FrameStays /\ UNCHANGED img /\ pc = "call"
  BY DEF not_found, Returns, Keeps, FrameStays
<1>2. /\ IsFrame(Frame) /\ WellFormed(entry, Frame) /\ OffsetThere
      /\ Offset = Frame.begin /\ Width = Frame.width /\ Height = Frame.height
  BY SoundFrame DEF SoundAt
<1>3. FrameType = TypeBytes(entry, Frame)
  BY TypeIsRead DEF SoundAt
<1>4. Found => FrameType # PLAN
  <2>1. CASE IsRows(entry, Frame)
    BY <1>2, <1>3, <2>1 DEF IsRows, Found
  <2>2. CASE IsPlane(entry, Frame)
    BY <1>3, <2>2 DEF IsPlane, PLNR, PLAN
  <2> QED
    BY <1>2, <2>1, <2>2 DEF WellFormed
<1>5. Blank # <<>>
  <2> DEFINE size == Width * Height
  <2>1. size \in Nat /\ size > 0
    <3> DEFINE w == Width  h == Height
    <3>1. w \in Nat /\ h \in Nat /\ w > 0 /\ h > 0
      BY <1>2 DEF IsFrame, WellFormed
    <3>2. \A a, c \in Nat : a > 0 /\ c > 0 => a * c \in Nat /\ a * c > 0
      OBVIOUS
    <3> HIDE DEF w, h
    <3>3. w * h \in Nat /\ w * h > 0
      BY <3>1, <3>2
    <3> QED
      BY <3>3 DEF w, h
  <2> HIDE DEF size
  <2>2. 0 \in 0 .. size - 1
    BY <2>1
  <2>3. 0 \in DOMAIN Blank
    BY <2>2 DEF Blank, size
  <2>4. 0 \notin DOMAIN <<>>
    OBVIOUS
  <2> QED
    BY <2>3, <2>4
<1>6. ~Found /\ pc' = "none" /\ pos' = 0
  BY <1>1, <1>2, <1>4, <1>5 DEF not_found, Returns, SoundAt, SoundInv
<1>7. NoneWrong(Frame', img') /\ Found' = Found
  BY <1>1, SoundIsTheSame DEF SoundAt, SoundInv
<1> QED
  BY <1>6, <1>7 DEF SoundInv

(* The first row begins behind the head, and nothing is drawn.             *)
LEMMA NothingBefore ==
    ASSUME NEW frame, FrameOfRows(frame), NEW image
    PROVE  DrawnTo(frame, image, 1, 1, 1)
<1> SUFFICES ASSUME NEW r \in DOMAIN frame.rows, NEW s \in DOMAIN frame.rows[r].segments,
                    NEW i \in DOMAIN frame.rows[r].segments[s].runs,
                    Before(r, s, i, 1, 1, 1)
             PROVE  FALSE
  BY DEF DrawnTo
<1>1. r \in Nat /\ r # 0
  <2> DEFINE rows == frame.rows
  <2>1. rows \in Seq(RowParts)
    BY DEF FrameOfRows, IsFrame
  <2> HIDE DEF rows
  <2>2. \A q \in DOMAIN rows : q \in Nat /\ q # 0
    BY <2>1
  <2> QED
    BY <2>2 DEF rows
<1>2. s \in Nat /\ s # 0
  <2> DEFINE segs == frame.rows[r].segments
  <2>1. segs \in Seq(SegmentParts)
    BY RowFacts
  <2> HIDE DEF segs
  <2>2. \A q \in DOMAIN segs : q \in Nat /\ q # 0
    BY <2>1
  <2> QED
    BY <2>2 DEF segs
<1>3. i \in Nat /\ i # 0
  <2> DEFINE runs == frame.rows[r].segments[s].runs
  <2>1. runs \in Seq(RunParts)
    BY SegmentFacts
  <2> HIDE DEF runs
  <2>2. \A q \in DOMAIN runs : q \in Nat /\ q # 0
    BY <2>1
  <2> QED
    BY <2>2 DEF runs
<1> QED
  BY <1>1, <1>2, <1>3 DEF Before

LEMMA SoundBegins ==
    ASSUME SoundAt, begin
    PROVE  SoundInv'
<1>1. FrameStays /\ UNCHANGED <<ds1, plnr>> /\ pc = "call" /\ pc' \in {"row", "plane"}
  BY DEF begin, Keeps, FrameStays
<1>2. /\ IsFrame(Frame) /\ WellFormed(entry, Frame) /\ Offset = Frame.begin
  BY SoundFrame DEF SoundAt
<1>3. FrameType = TypeBytes(entry, Frame)
  BY TypeIsRead DEF SoundAt
<1>4. IsRows(entry, Frame) => FrameType \notin {PLNR, PLAN}
  BY <1>2, <1>3 DEF IsRows, Found, begin
<1>5. Fresh
  BY <1>1 DEF SoundAt, TypeInv
<1>6. NoneWrong(Frame, img')
  BY DEF NoneWrong, begin, Blank
<1>7. NoneWrong(Frame', img')
  BY <1>1, <1>6, SoundIsTheSame, Zenon
<1>8. CASE FrameType \notin {PLNR, PLAN}
  <2>1. IsRows(entry, Frame) /\ FrameOfRows(Frame)
    BY <1>2, <1>3, <1>8 DEF WellFormed, IsPlane, FrameOfRows
  <2>2. pc' = "row" /\ pos' = Offset + 4
    BY <1>8 DEF begin
  <2>3. Place(Frame.rows, 1, RowsEnd(Frame)) = 4 /\ 0 \in 0 .. Len(Frame.rows)
    <3> DEFINE rows == Frame.rows
    <3>1. rows \in Seq(RowParts) /\ InARow(rows, 4, RowsEnd(Frame))
      BY <2>1 DEF FrameOfRows, IsFrame, IsRows
    <3> HIDE DEF rows
    <3>2. Place(rows, 1, RowsEnd(Frame)) = 4 /\ 0 \in 0 .. Len(rows)
      BY <3>1, PartsFollow
    <3> QED
      BY <3>2 DEF rows
  <2>4. num_rows' = 0 /\ 0 + 1 = 1
    BY <1>1, <1>5 DEF Fresh, ds1
  <2>5. RowPlace(Frame, img', pos', num_rows')
    BY <1>2, <2>1, <2>2, <2>3, <2>4, NothingBefore DEF RowPlace
  <2>6. RowPlace(Frame', img', pos', num_rows') /\ IsRows(entry', Frame')
    BY <1>1, <2>1, <2>5, SoundIsTheSame, Zenon
  <2> QED
    BY <1>7, <2>2, <2>6 DEF SoundInv
<1>9. CASE FrameType \in {PLNR, PLAN}
  <2>1. IsPlane(entry, Frame)
    BY <1>2, <1>4, <1>9 DEF WellFormed
  <2>2. pc' = "plane" /\ pos' = Offset + 10
    BY <1>9 DEF begin
  <2>3. /\ plnr_last_value' = 0 /\ plnr_remaining' = 0
        /\ plnr_num_bits_read' = 0 /\ drawn' = 0
    BY <1>1, <1>5 DEF Fresh, plnr
  <2>4. PixelPlaceIn(Frame, img', 0, 0, 0, 0, 0)
    BY DEF PixelPlaceIn, PieceEnds
  <2>5. 0 \in 0 .. Len(Frame.pieces)
    <3> DEFINE pieces == Frame.pieces
    <3>1. pieces \in Seq(PieceParts)
      BY <1>2 DEF IsFrame
    <3> HIDE DEF pieces
    <3>2. 0 \in 0 .. Len(pieces)
      BY <3>1
    <3> QED
      BY <3>2 DEF pieces
  <2>6. PixelPlace(Frame, img', plnr_num_bits_read', plnr_last_value', plnr_remaining', drawn')
    BY <2>3, <2>4, <2>5 DEF PixelPlace
  <2>7. /\ PixelPlace(Frame', img', plnr_num_bits_read', plnr_last_value', plnr_remaining', drawn')
        /\ IsPlane(entry', Frame') /\ Frame' = Frame
    BY <1>1, <2>1, <2>6, SoundIsTheSame, Zenon
  <2>8. pos' = Frame'.begin + 10
    BY <1>2, <2>2, <2>7
  <2> QED
    BY <1>7, <2>2, <2>7, <2>8 DEF SoundInv
<1> QED
  BY <1>8, <1>9

(* A segment's head says where its runs lie and where they are drawn.      *)
LEMMA SoundSegment ==
    ASSUME SoundAt, segment
    PROVE  SoundInv'
<1>1. FrameStays /\ UNCHANGED <<img, num_rows, at>> /\ pc = "segment" /\ pc' = "run"
  BY DEF segment, Keeps, FrameStays
<1>2. /\ FrameOfRows(Frame) /\ Frame.begin \in Nat /\ Frame.size \in Nat
      /\ \A k : FrameByte(entry, Frame, k) = Byte(Frame.begin + k)
  BY <1>1, RowsFrame
<1> DEFINE n == num_rows
           segs == Frame.rows[n].segments
<1>3. InRow(Frame, n, at)
  BY <1>1 DEF SoundAt, SoundInv, SegmentPlace
<1>4. n \in DOMAIN Frame.rows
  BY <1>3 DEF InRow
<1>5. PICK s \in DOMAIN segs : pos = Frame.begin + segs[s].at /\ DrawnTo(Frame, img, n, s, 1)
  BY <1>1 DEF SoundAt, SoundInv, SegmentPlace
<1> DEFINE part == segs[s]
           b == Frame.begin  a == part.at
<1>6. /\ part.at \in Nat /\ part.past \in Nat /\ part.runs \in Seq(RunParts)
      /\ Place(part.runs, 1, part.past) = part.at + 4 /\ IsSegment(entry, Frame, Frame.rows[n], s)
  BY <1>2, <1>4, SegmentFacts
<1>7. b \in Nat /\ a \in Nat /\ pos = b + a
  BY <1>2, <1>5, <1>6
<1>8. pos + 1 = b + (a + 1) /\ pos + 3 = b + (a + 3) /\ pos + 4 = b + (a + 4)
  <2> HIDE DEF b, a
  <2> QED
    BY <1>7
<1>9. /\ Byte(pos) = FrameByte(entry, Frame, a) /\ Byte(pos + 1) = FrameByte(entry, Frame, a + 1)
      /\ Byte(pos + 3) = FrameByte(entry, Frame, a + 3)
  BY <1>2, <1>7, <1>8
<1>10. startx' = part.x /\ last' = (s = Len(segs)) /\ left' = part.past - (a + 4) /\ pos' = b + (a + 4)
  <2>1. startx' = part.x
    BY <1>6, <1>9 DEF segment, IsSegment
  <2>2. last' = (s = Len(segs))
    <3> DEFINE flag == FrameByte(entry, Frame, a + 1) >= 128
               behind_all == s = Len(segs)
    <3>1. last' = flag
      BY <1>9 DEF segment
    <3>2. flag <=> behind_all
      BY <1>6 DEF IsSegment
    <3>3. flag \in BOOLEAN /\ behind_all \in BOOLEAN
      OBVIOUS
    <3> HIDE DEF flag, behind_all
    <3>4. last' = behind_all
      BY <3>1, <3>2, <3>3
    <3> QED
      BY <3>4 DEF behind_all
  <2>3. left' = part.past - (a + 4)
    BY <1>6, <1>9 DEF segment, IsSegment
  <2> QED
    BY <1>8, <2>1, <2>2, <2>3 DEF segment
<1>11. pos' + left' = b + part.past
  <2> DEFINE p == part.past
  <2>1. p \in Nat /\ left' = p - (a + 4) /\ pos' = b + (a + 4)
    BY <1>6, <1>10
  <2> HIDE DEF p, b, a
  <2> QED
    BY <1>7, <2>1 DEF p
<1>12. 1 <= Len(part.runs) => startx' = part.runs[1].x
  <2> DEFINE runs == part.runs
  <2>1. 1 <= Len(runs) => 1 \in DOMAIN runs
    <3>1. runs \in Seq(RunParts)
      BY <1>6
    <3> HIDE DEF runs
    <3> QED
      BY <3>1
  <2>2. 1 \in DOMAIN runs => runs[1].x = part.x
    BY <1>6 DEF IsSegment
  <2> QED
    BY <1>10, <2>1, <2>2
<1>13. 1 \in 1 .. Len(part.runs) + 1
  <2> DEFINE runs == part.runs
  <2>1. runs \in Seq(RunParts)
    BY <1>6
  <2> HIDE DEF runs
  <2>2. 1 \in 1 .. Len(runs) + 1
    BY <2>1
  <2> QED
    BY <2>2 DEF runs
<1>14. RunPlaceIn(Frame, img, pos', n, startx', left', last', s, 1)
  BY <1>5, <1>6, <1>10, <1>11, <1>12 DEF RunPlaceIn
<1>15. RunPlace(Frame, img, pos', n, at, startx', left', last')
  BY <1>3, <1>13, <1>14 DEF RunPlace
<1>16. RunPlace(Frame', img', pos', num_rows', at', startx', left', last')
  BY <1>1, <1>15, SoundIsTheSame, Zenon
<1>17. IsRows(entry', Frame') /\ NoneWrong(Frame', img')
  BY <1>1, <1>2, RowsFrame, SoundIsTheSame DEF FrameOfRows
<1> QED
  BY <1>1, <1>16, <1>17 DEF SoundInv

(* Where the runs of a segment are read: in front of one, while there are  *)
(* bytes left, or behind them all.                                         *)
LEMMA RunIsHere ==
    ASSUME SoundAt, pc = "run"
    PROVE  /\ InRow(Frame, num_rows, at) /\ num_rows \in DOMAIN Frame.rows
           /\ \E s \in DOMAIN Frame.rows[num_rows].segments :
                 \E i \in 1 .. Len(Frame.rows[num_rows].segments[s].runs) + 1 :
                    LET part == Frame.rows[num_rows].segments[s]
                    IN  /\ RunPlaceIn(Frame, img, pos, num_rows, startx, left, last, s, i)
                        /\ left > 0 => i \in DOMAIN part.runs /\ pos = Frame.begin + part.runs[i].at
                        /\ left <= 0 => i = Len(part.runs) + 1
                        /\ pos + left = Frame.begin + part.past
<1>1. InRow(Frame, num_rows, at) /\ num_rows \in DOMAIN Frame.rows
  BY DEF SoundAt, SoundInv, RunPlace, InRow
<1>2. PICK s \in DOMAIN Frame.rows[num_rows].segments :
         \E i \in 1 .. Len(Frame.rows[num_rows].segments[s].runs) + 1 :
            RunPlaceIn(Frame, img, pos, num_rows, startx, left, last, s, i)
  BY DEF SoundAt, SoundInv, RunPlace
<1> DEFINE part == Frame.rows[num_rows].segments[s]
           runs == part.runs
<1>3. PICK i \in 1 .. Len(runs) + 1 : RunPlaceIn(Frame, img, pos, num_rows, startx, left, last, s, i)
  BY <1>2
<1>4. FrameOfRows(Frame) /\ Frame.begin \in Nat
  BY RowsFrame
<1>5. runs \in Seq(RunParts) /\ part.past \in Nat
  BY <1>1, <1>4, SegmentFacts
<1>6. pos + left = Frame.begin + part.past /\ pos = Frame.begin + Place(runs, i, part.past)
  BY <1>3 DEF RunPlaceIn
<1>7. left \in Int /\ pos \in Nat
  BY DEF SoundAt, TypeInv, RowVariables
<1>8. i \in DOMAIN runs <=> i <= Len(runs)
  <2>1. i \in 1 .. Len(runs) + 1
    OBVIOUS
  <2> HIDE DEF runs
  <2> QED
    BY <1>5, <2>1
<1>9. ASSUME i <= Len(runs)
      PROVE  i \in DOMAIN runs /\ pos = Frame.begin + runs[i].at /\ ~(left <= 0)
  <2>1. i \in DOMAIN runs /\ pos = Frame.begin + runs[i].at
    BY <1>6, <1>8, <1>9 DEF Place
  <2>2. runs[i].at \in Nat /\ runs[i].past \in Nat /\ runs[i].at < runs[i].past /\ runs[i].past <= part.past
    BY <1>1, <1>4, <2>1, RunFacts
  <2>3. left > 0
    <3> DEFINE b == Frame.begin  p == part.past  a == runs[i].at  q == runs[i].past
    <3>1. /\ b \in Nat /\ p \in Nat /\ a \in Nat /\ q \in Nat /\ a < q /\ q <= p
          /\ pos = b + a /\ pos + left = b + p
      BY <1>4, <1>5, <1>6, <2>1, <2>2
    <3> HIDE DEF b, p, a, q
    <3> QED
      BY <1>7, <3>1
  <2>4. ~(left <= 0)
    BY <1>7, <2>3
  <2> QED
    BY <2>1, <2>4
<1>10. ASSUME ~(i <= Len(runs))
       PROVE  i = Len(runs) + 1 /\ ~(left > 0)
  <2>1. i = Len(runs) + 1
    <3>1. i \in 1 .. Len(runs) + 1
      OBVIOUS
    <3> HIDE DEF runs
    <3> QED
      BY <1>5, <1>10, <3>1
  <2>2. pos = Frame.begin + part.past
    BY <1>6, <1>10 DEF Place
  <2>3. left = 0
    <3> DEFINE v == Frame.begin + part.past
    <3>1. pos + left = v /\ pos = v
      BY <1>6, <2>2
    <3> HIDE DEF v
    <3> QED
      BY <1>7, <3>1
  <2> QED
    BY <2>1, <2>3
<1>11. /\ left > 0 => i \in DOMAIN runs /\ pos = Frame.begin + runs[i].at
       /\ left <= 0 => i = Len(runs) + 1
  BY <1>9, <1>10
<1> QED
  BY <1>1, <1>3, <1>6, <1>11

(* Behind its runs is the next segment, or the next row.                   *)
LEMMA SoundEndRun ==
    ASSUME SoundAt, end_run
    PROVE  SoundInv'
<1>1. /\ FrameStays /\ UNCHANGED <<img, num_rows, at>> /\ pc = "run" /\ left <= 0
      /\ pos' = pos + left /\ pc' = IF last THEN "row" ELSE "segment"
  BY DEF end_run, EndRun, Keeps, FrameStays, ds1
<1>2. FrameOfRows(Frame) /\ NoneWrong(Frame, img)
  BY <1>1, RowsFrame
<1> DEFINE n == num_rows
           row == Frame.rows[n]
           segs == row.segments
<1>3. InRow(Frame, n, at) /\ n \in DOMAIN Frame.rows
  BY <1>1, RunIsHere
<1>4. PICK s \in DOMAIN segs :
         /\ \E i : RunPlaceIn(Frame, img, pos, n, startx, left, last, s, i) /\ i = Len(segs[s].runs) + 1
         /\ pos + left = Frame.begin + segs[s].past
  BY <1>1, RunIsHere
<1>5. /\ last = (s = Len(segs)) /\ DrawnTo(Frame, img, n, s, Len(segs[s].runs) + 1)
  BY <1>4 DEF RunPlaceIn
<1>6. pos' = Frame.begin + segs[s].past
  BY <1>1, <1>4
<1>7. /\ segs \in Seq(SegmentParts) /\ row.past \in Nat
      /\ Place(Frame.rows, n + 1, RowsEnd(Frame)) = row.past
  BY <1>2, <1>3, RowFacts
<1>8. Place(segs, s + 1, row.past) = segs[s].past
  BY <1>2, <1>3, SegmentFacts
<1>9. s \in 1 .. Len(segs) /\ Len(segs) \in Nat
  <2> HIDE DEF segs
  <2> QED
    BY <1>7
<1>10. IsRows(entry', Frame') /\ NoneWrong(Frame', img')
  BY <1>1, <1>2, SoundIsTheSame DEF FrameOfRows
<1>11. CASE last
  <2>1. s = Len(segs) /\ DrawnTo(Frame, img, n + 1, 1, 1)
    BY <1>2, <1>3, <1>5, <1>11, NextSegment
  <2>2. segs[s].past = row.past
    <3>1. ~(s + 1 <= Len(segs))
      BY <1>9, <2>1
    <3> QED
      BY <1>8, <3>1 DEF Place
  <2>3. n \in 0 .. Len(Frame.rows)
    <3> DEFINE rows == Frame.rows
    <3>1. rows \in Seq(RowParts)
      BY <1>2 DEF FrameOfRows, IsFrame
    <3> HIDE DEF rows
    <3>2. \A k \in DOMAIN rows : k \in 0 .. Len(rows)
      BY <3>1
    <3> QED
      BY <1>3, <3>2 DEF rows
  <2>4. RowPlace(Frame, img, pos', n)
    BY <1>6, <1>7, <2>1, <2>2, <2>3 DEF RowPlace
  <2>5. RowPlace(Frame', img', pos', num_rows')
    BY <1>1, <2>4, SoundIsTheSame, Zenon
  <2>6. pc' = "row"
    BY <1>1, <1>11
  <2> QED
    BY <1>10, <2>5, <2>6 DEF SoundInv
<1>12. CASE ~last
  <2>1. DrawnTo(Frame, img, n, s + 1, 1)
    BY <1>2, <1>3, <1>5, NextSegment
  <2>2. s + 1 \in DOMAIN segs /\ s + 1 <= Len(segs)
    <3>1. s # Len(segs)
      BY <1>5, <1>12
    <3> HIDE DEF segs
    <3> QED
      BY <1>7, <1>9, <3>1
  <2>3. segs[s + 1].at = segs[s].past
    BY <1>8, <2>2 DEF Place
  <2>4. SegmentPlace(Frame, img, pos', n, at)
    BY <1>3, <1>6, <2>1, <2>2, <2>3 DEF SegmentPlace
  <2>5. SegmentPlace(Frame', img', pos', num_rows', at')
    BY <1>1, <2>4, SoundIsTheSame, Zenon
  <2>6. pc' = "segment"
    BY <1>1, <1>12
  <2> QED
    BY <1>10, <2>5, <2>6 DEF SoundInv
<1> QED
  BY <1>11, <1>12

(* The pixels that are taken from behind a run's code are the run's.       *)
ReadsItsPixels(frame, part) ==
    \A c \in 0 .. part.n - 1 : Pixel(c) = RunPixel(entry, frame, part, c)

(* The image with a run of n pixels drawn from first on.                   *)
WithRun(image, first, n) ==
    [k \in DOMAIN image |->
        IF k \in first .. (first + n) - 1 THEN Pixel(k - first) ELSE image[k]]

(* The run the decoder is at has the length and the bytes it takes it to   *)
(* have.                                                                   *)
LEMMA RunIsRead ==
    ASSUME NEW part, NEW y,
           part.at \in Nat, part.past \in Nat, part.n \in Nat \ {0}, part.same \in BOOLEAN,
           NEW b \in Nat, Frame.begin = b, pos = b + part.at, IsRun(entry, Frame, y, part),
           \A k : FrameByte(entry, Frame, k) = Byte(Frame.begin + k)
    PROVE  /\ RunLength = part.n /\ RunBytes \in Nat
           /\ pos + 1 + RunBytes = b + part.past
           /\ ReadsItsPixels(Frame, part)
<1> DEFINE a == part.at  n == part.n  code == Byte(pos)
<1>1. a \in Nat /\ n \in Nat \ {0} /\ pos = b + a
  OBVIOUS
<1>2. code = 2 * (n - 1) + IF part.same THEN 1 ELSE 0
  BY DEF IsRun
<1>3. part.past = a + 1 + IF part.same THEN 1 ELSE n
  BY DEF IsRun
<1>4. CASE part.same
  <2>1. code = 2 * (n - 1) + 1
    BY <1>2, <1>4
  <2>2. code \div 2 = n - 1 /\ code % 2 = 1
    <3> HIDE DEF code, n, a
    <3> QED
      BY <1>1, <2>1
  <2>3. RunLength = n /\ RunBytes = 1
    <3> HIDE DEF n
    <3> QED
      BY <1>1, <2>2 DEF RunLength, RunBytes
  <2>4. pos + 1 + RunBytes = b + part.past
    <3>1. part.past = a + 2
      BY <1>3, <1>4
    <3> HIDE DEF a
    <3> QED
      BY <1>1, <2>3, <3>1
  <2>5. ASSUME NEW c \in 0 .. n - 1
        PROVE  Pixel(c) = RunPixel(entry, Frame, part, c)
    <3>1. Pixel(c) = Byte(pos + 1 + 0)
      BY <2>2 DEF Pixel
    <3>2. RunPixel(entry, Frame, part, c) = Byte(b + (a + 1 + 0))
      BY <1>4 DEF RunPixel
    <3>3. pos + 1 + 0 = b + (a + 1 + 0)
      <4> HIDE DEF a
      <4> QED
        BY <1>1
    <3> QED
      BY <3>1, <3>2, <3>3
  <2>6. RunBytes \in Nat
    BY <1>1, <2>3
  <2> QED
    BY <2>3, <2>4, <2>5, <2>6 DEF ReadsItsPixels
<1>5. CASE ~part.same
  <2>1. code = 2 * (n - 1)
    <3> HIDE DEF code, n
    <3>1. code = 2 * (n - 1) + 0
      BY <1>2, <1>5
    <3> QED
      BY <1>1, <3>1
  <2>2. code \div 2 = n - 1 /\ code % 2 = 0
    <3> HIDE DEF code, n, a
    <3> QED
      BY <1>1, <2>1
  <2>3. RunLength = n /\ RunBytes = n
    <3>1. RunLength = n
      <4> HIDE DEF n
      <4> QED
        BY <1>1, <2>2 DEF RunLength
    <3> QED
      BY <2>2, <3>1 DEF RunBytes
  <2>4. pos + 1 + RunBytes = b + part.past
    <3>1. part.past = a + 1 + n
      BY <1>3, <1>5
    <3> HIDE DEF a, n
    <3> QED
      BY <1>1, <2>3, <3>1
  <2>5. ASSUME NEW c \in 0 .. n - 1
        PROVE  Pixel(c) = RunPixel(entry, Frame, part, c)
    <3>1. Pixel(c) = Byte(pos + 1 + c)
      BY <2>2 DEF Pixel
    <3>2. RunPixel(entry, Frame, part, c) = Byte(b + (a + 1 + c))
      BY <1>5 DEF RunPixel
    <3>3. pos + 1 + c = b + (a + 1 + c)
      <4> HIDE DEF a, n
      <4> QED
        BY <1>1
    <3> QED
      BY <3>1, <3>2, <3>3
  <2>6. RunBytes \in Nat
    BY <1>1, <2>3
  <2> QED
    BY <2>3, <2>4, <2>5, <2>6 DEF ReadsItsPixels
<1> QED
  BY <1>4, <1>5

(* A run is drawn where it belongs, and nothing else is.                   *)
LEMMA RunIsDrawn ==
    ASSUME NEW frame, NEW w \in Nat, NEW h \in Nat, frame.width = w, frame.height = h,
           NEW row, row.y \in 0 .. h - 1,
           NEW part, part.x \in Nat, part.n \in Nat \ {0}, IsRun(entry, frame, row.y, part),
           NEW image, DOMAIN image = 0 .. w * h - 1, NoneWrong(frame, image),
           NEW first, first = Cell(frame, 0, row.y) + part.x, ReadsItsPixels(frame, part),
           NEW after, after = WithRun(image, first, part.n)
    PROVE  /\ (first + part.n) - 1 \in DOMAIN image
           /\ Improves(frame, image, after) /\ NoneWrong(frame, after)
           /\ IsDrawn(frame, after, row, part)
<1> DEFINE x == part.x  n == part.n  y == row.y
<1>1. x \in Nat /\ n \in Nat \ {0} /\ y \in 0 .. h - 1 /\ x + n <= w
  BY DEF IsRun
<1>2. \A c \in 0 .. n - 1 : frame.pixels[Cell(frame, x + c, y)] = RunPixel(entry, frame, part, c)
  BY DEF IsRun
<1>3. ASSUME NEW c \in 0 .. n - 1
      PROVE  Cell(frame, x + c, y) \in DOMAIN image /\ Cell(frame, x + c, y) = first + c
  <2>1. x + c \in 0 .. w - 1
    <3> HIDE DEF x, n, y
    <3> QED
      BY <1>1
  <2>2. Cell(frame, x + c, y) \in DOMAIN image
    <3> HIDE DEF x, n, y
    <3> QED
      BY <1>1, <2>1, CellInImage
  <2>3. first = (y * w + 0) + x /\ Cell(frame, x + c, y) = y * w + (x + c)
    BY DEF Cell
  <2>4. y * w \in Nat
    BY <1>1
  <2> DEFINE yw == y * w
  <2>5. yw + (x + c) = ((yw + 0) + x) + c
    <3>1. yw \in Nat
      BY <2>4
    <3> HIDE DEF yw, x, n, y
    <3> QED
      BY <1>1, <3>1
  <2> QED
    BY <2>2, <2>3, <2>5
<1>4. first \in Int
  <2>1. y * w \in Nat /\ first = (y * w + 0) + x
    BY <1>1 DEF Cell
  <2> QED
    BY <1>1, <2>1
<1>5. \A k \in first .. first + n - 1 : k - first \in 0 .. n - 1 /\ k = first + (k - first)
  <2> HIDE DEF n, x, y
  <2> QED
    BY <1>1, <1>4
<1>6. \A c \in 0 .. n - 1 : first + c \in first .. first + n - 1 /\ (first + c) - first = c
  <2> HIDE DEF n, x, y
  <2> QED
    BY <1>1, <1>4
<1>7. first + n - 1 \in DOMAIN image
  <2>1. n - 1 \in 0 .. n - 1 /\ first + (n - 1) = first + n - 1
    <3> HIDE DEF n, x, y
    <3> QED
      BY <1>1, <1>4
  <2> QED
    BY <1>3, <2>1
<1>8. \A k \in DOMAIN image : k \in first .. first + n - 1 => after[k] = frame.pixels[k]
  <2> SUFFICES ASSUME NEW k \in DOMAIN image, k \in first .. first + n - 1
               PROVE  after[k] = frame.pixels[k]
    OBVIOUS
  <2> DEFINE c == k - first
  <2>1. c \in 0 .. n - 1 /\ k = first + c
    BY <1>5
  <2>2. after[k] = Pixel(c)
    BY DEF WithRun
  <2> HIDE DEF c
  <2>3. Cell(frame, x + c, y) = k
    BY <1>3, <2>1
  <2>4. Pixel(c) = RunPixel(entry, frame, part, c)
    BY <2>1 DEF ReadsItsPixels
  <2>5. frame.pixels[k] = RunPixel(entry, frame, part, c)
    BY <1>2, <2>1, <2>3
  <2> QED
    BY <2>2, <2>4, <2>5
<1>9. DOMAIN after = DOMAIN image
  BY DEF WithRun
<1>10. \A k \in DOMAIN image : k \notin first .. first + n - 1 => after[k] = image[k]
  BY DEF WithRun
<1> HIDE DEF x, n, y
<1>11. Improves(frame, image, after)
  BY <1>8, <1>9, <1>10 DEF Improves
<1>12. NoneWrong(frame, after)
  BY <1>8, <1>9, <1>10 DEF NoneWrong
<1>13. IsDrawn(frame, after, row, part)
  <2> SUFFICES ASSUME NEW c \in 0 .. n - 1
               PROVE  /\ Cell(frame, x + c, y) \in DOMAIN after
                      /\ after[Cell(frame, x + c, y)] = frame.pixels[Cell(frame, x + c, y)]
    BY DEF IsDrawn, x, n, y
  <2> QED
    BY <1>3, <1>6, <1>8, <1>9
<1> QED
  BY <1>7, <1>11, <1>12, <1>13 DEF n

LEMMA RunWrites ==
    ASSUME run, NEW n, RunLength = n, (at + startx + n) - 1 \in DOMAIN img
    PROVE  img' = WithRun(img, at + startx, n) /\ UNCHANGED pc
<1> DEFINE first == at + startx
           beyond == first + n
           inside == beyond - 1 \in DOMAIN img
           written == [k \in DOMAIN img |->
                         IF k \in first .. beyond - 1 THEN Pixel(k - first) ELSE img[k]]
<1>1. IF inside THEN img' = written /\ UNCHANGED pc ELSE pc' = "outside" /\ UNCHANGED img
  BY DEF run
<1>4. inside
  BY Zenon
<1>2. img' = written /\ UNCHANGED pc
  <2> HIDE DEF inside, written
  <2> QED
    BY <1>1, <1>4
<1> HIDE DEF first
<1>3. img' = WithRun(img, first, n)
  BY <1>2 DEF WithRun
<1> QED
  BY <1>2, <1>3 DEF first

(* A run is drawn in the image.                                            *)
LEMMA SoundRun ==
    ASSUME SoundAt, run
    PROVE  SoundInv'
<1> DEFINE n == num_rows
           row == Frame.rows[n]
           segs == row.segments
<1>1. FrameStays /\ UNCHANGED <<num_rows, at, last>> /\ pc = "run" /\ left > 0
  BY DEF run, Keeps, FrameStays
<1>2. /\ FrameOfRows(Frame) /\ Frame.begin \in Nat /\ Frame.size \in Nat
      /\ Frame.width \in Nat /\ Frame.height \in Nat
      /\ \A k : FrameByte(entry, Frame, k) = Byte(Frame.begin + k)
      /\ DOMAIN img = 0 .. Frame.width * Frame.height - 1 /\ NoneWrong(Frame, img)
  BY <1>1, RowsFrame
<1>3. InRow(Frame, n, at) /\ n \in DOMAIN Frame.rows
  BY <1>1, RunIsHere
<1>4. PICK s \in DOMAIN segs : \E i \in DOMAIN segs[s].runs :
         /\ RunPlaceIn(Frame, img, pos, n, startx, left, last, s, i)
         /\ pos = Frame.begin + segs[s].runs[i].at
         /\ pos + left = Frame.begin + segs[s].past
  BY <1>1, RunIsHere
<1> DEFINE runs == segs[s].runs
<1>5. PICK i \in DOMAIN runs :
         /\ RunPlaceIn(Frame, img, pos, n, startx, left, last, s, i)
         /\ pos = Frame.begin + runs[i].at
         /\ pos + left = Frame.begin + segs[s].past
  BY <1>4
<1> DEFINE part == runs[i]
           b == Frame.begin
<1>6. /\ part.at \in Nat /\ part.past \in Nat /\ part.x \in Nat /\ part.n \in Nat \ {0}
      /\ part.same \in BOOLEAN
      /\ i <= Len(runs) /\ i + 1 \in 1 .. Len(runs) + 1
      /\ Place(runs, i + 1, segs[s].past) = part.past
      /\ i + 1 <= Len(runs) => runs[i + 1].x = part.x + part.n
      /\ IsRun(entry, Frame, row.y, part)
  <2>1. /\ part.at \in Nat /\ part.past \in Nat /\ part.x \in Nat /\ part.n \in Nat \ {0}
        /\ part.same \in BOOLEAN
        /\ IsRun(entry, Frame, row.y, part)
    BY <1>2, <1>3, RunFacts
  <2>2. RunFits(segs[s], i)
    BY <1>2, <1>3, RunFacts
  <2>3. /\ i <= Len(runs) /\ i + 1 \in 1 .. Len(runs) + 1
        /\ Place(runs, i + 1, segs[s].past) = part.past
        /\ i + 1 <= Len(runs) => runs[i + 1].x = part.x + part.n
    BY <2>2 DEF RunFits
  <2> QED
    BY <2>1, <2>3
<1>7. /\ last = (s = Len(segs)) /\ startx = part.x /\ DrawnTo(Frame, img, n, s, i)
  BY <1>5, <1>6 DEF RunPlaceIn
<1>8. /\ RunLength = part.n /\ RunBytes \in Nat
      /\ pos + 1 + RunBytes = b + part.past /\ ReadsItsPixels(Frame, part)
  BY <1>2, <1>5, <1>6, RunIsRead
<1>9. row.y \in 0 .. Frame.height - 1 /\ at = Cell(Frame, 0, row.y)
  <2>1. IsRow(entry, Frame, row)
    BY <1>2, <1>3, RowFacts
  <2> QED
    BY <1>3, <2>1 DEF IsRow, InRow
<1> DEFINE first == at + startx
           after == WithRun(img, first, part.n)
<1>10. /\ (first + part.n) - 1 \in DOMAIN img
       /\ Improves(Frame, img, after) /\ NoneWrong(Frame, after)
       /\ IsDrawn(Frame, after, row, part)
  <2>1. first = Cell(Frame, 0, row.y) + part.x
    BY <1>7, <1>9
  <2>2. after = WithRun(img, first, part.n)
    OBVIOUS
  <2>3. part.x \in Nat /\ part.n \in Nat \ {0} /\ IsRun(entry, Frame, row.y, part)
    BY <1>6
  <2> HIDE DEF after, first, part, row
  <2> QED
    BY <1>2, <1>8, <1>9, <2>1, <2>2, <2>3, RunIsDrawn
<1>11. img' = after /\ pc' = "run"
  <2>1. \E m : RunLength = m /\ (first + m) - 1 \in DOMAIN img /\ m = part.n
    BY <1>8, <1>10, Zenon
  <2>2. img' = WithRun(img, first, part.n) /\ UNCHANGED pc
    BY <2>1, RunWrites, Zenon
  <2> QED
    BY <1>1, <2>2
<1>12. startx' = startx + part.n /\ pos' = b + part.past /\ left' = left - 1 - RunBytes
  BY <1>8 DEF run
<1>13. pos' + left' = b + segs[s].past
  <2>1. pos + left = b + segs[s].past /\ pos' = pos + 1 + RunBytes /\ left' = left - 1 - RunBytes
    BY <1>5 DEF run
  <2>2. pos \in Nat /\ left \in Int
    BY DEF SoundAt, TypeInv, RowVariables
  <2>3. RunBytes \in Int
    BY <1>8
  <2> DEFINE v == b + segs[s].past
  <2>4. pos' + left' = v
    <3>1. pos + left = v
      BY <2>1
    <3> HIDE DEF v
    <3> QED
      BY <2>1, <2>2, <2>3, <3>1
  <2> QED
    BY <2>4
<1>14. DrawnTo(Frame, after, n, s, i + 1)
  <2>1. DrawnTo(Frame, after, n, s, i)
    BY <1>7, <1>10, DrawnStays
  <2> HIDE DEF after
  <2> QED
    BY <1>2, <1>3, <1>10, <2>1, NextRun
<1> HIDE DEF after
<1>15. i + 1 <= Len(runs) => startx' = runs[i + 1].x
  BY <1>6, <1>7, <1>12
<1>16. RunPlaceIn(Frame, img', pos', n, startx', left', last', s, i + 1)
  BY <1>1, <1>6, <1>7, <1>11, <1>12, <1>13, <1>14, <1>15 DEF RunPlaceIn
<1>17. RunPlace(Frame, img', pos', n, at, startx', left', last')
  BY <1>3, <1>6, <1>16 DEF RunPlace
<1>18. RunPlace(Frame', img', pos', num_rows', at', startx', left', last')
  BY <1>1, <1>17, SoundIsTheSame, Zenon
<1>19. NoneWrong(Frame, img')
  BY <1>10, <1>11
<1>20. IsRows(entry', Frame') /\ NoneWrong(Frame', img')
  BY <1>1, <1>2, <1>19, SoundIsTheSame, Zenon DEF FrameOfRows
<1> QED
  BY <1>11, <1>18, <1>20 DEF SoundInv

(* No row, segment or run goes on behind its frame.                        *)
LEMMA RowsAreThere ==
    ASSUME SoundAt, pc \in {"row", "segment", "run"}, behind
    PROVE  FALSE
<1>1. /\ FrameOfRows(Frame) /\ Frame.begin \in Nat /\ Frame.size \in Nat
      /\ Frame.height \in Nat /\ Height = Frame.height
      /\ \A k : FrameByte(entry, Frame, k) = Byte(Frame.begin + k)
      /\ \A k \in Int : k < Frame.size => There(Frame.begin + k)
  BY RowsFrame
<1> DEFINE n == num_rows
           b == Frame.begin
           z == Frame.size
           segs == Frame.rows[n].segments
<1>2. CASE pc = "row"
  <2>1. num_rows < Frame.height /\ ~There(pos)
    BY <1>1, <1>2 DEF behind
  <2> DEFINE place == Place(Frame.rows, n + 1, RowsEnd(Frame))
  <2>2. n \in 0 .. Len(Frame.rows) /\ pos = b + place
    BY <1>2 DEF SoundAt, SoundInv, RowPlace
  <2>3. place \in Nat /\ place < z
    BY <1>1, <2>1, <2>2, RowBegins
  <2> QED
    BY <1>1, <2>1, <2>2, <2>3
<1>3. CASE pc = "segment"
  <2>1. ~There(pos + 3)
    BY <1>3 DEF behind
  <2>2. InRow(Frame, n, at)
    BY <1>3 DEF SoundAt, SoundInv, SegmentPlace
  <2>3. PICK s \in DOMAIN segs : pos = b + segs[s].at
    BY <1>3 DEF SoundAt, SoundInv, SegmentPlace
  <2> DEFINE a == segs[s].at  p == segs[s].past  q == Frame.rows[n].past
  <2>4. n \in DOMAIN Frame.rows
    BY <2>2 DEF InRow
  <2>5. a \in Nat /\ p \in Nat /\ a + 4 <= p /\ p <= q
    BY <1>1, <2>4, SegmentFacts
  <2>6. q \in Nat /\ q < z + 1
    BY <1>1, <2>4, RowFacts
  <2>7. b \in Nat /\ z \in Nat /\ pos = b + a
    BY <1>1, <2>3
  <2>8. a + 3 \in Int /\ a + 3 < z /\ pos + 3 = b + (a + 3)
    <3> HIDE DEF a, p, q, b, z
    <3> QED
      BY <2>5, <2>6, <2>7
  <2> QED
    BY <1>1, <2>1, <2>8
<1>4. CASE pc = "run"
  <2>1. left > 0 /\ (~There(pos) \/ ~There(pos + RunBytes))
    BY <1>4 DEF behind
  <2>2. n \in DOMAIN Frame.rows
    BY <1>4, RunIsHere
  <2>3. PICK s \in DOMAIN segs : \E i \in DOMAIN segs[s].runs : pos = b + segs[s].runs[i].at
    BY <1>4, <2>1, RunIsHere
  <2>4. PICK i \in DOMAIN segs[s].runs : pos = b + segs[s].runs[i].at
    BY <2>3
  <2> DEFINE part == segs[s].runs[i]
             a == part.at  e == part.past  p == segs[s].past  q == Frame.rows[n].past
  <2>5. /\ part.at \in Nat /\ part.past \in Nat /\ part.n \in Nat \ {0} /\ part.same \in BOOLEAN
        /\ part.at < part.past /\ part.past <= p
        /\ IsRun(entry, Frame, Frame.rows[n].y, part)
    BY <1>1, <2>2, RunFacts
  <2>6. p \in Nat /\ p <= q
    BY <1>1, <2>2, SegmentFacts
  <2>7. q \in Nat /\ q < z + 1
    BY <1>1, <2>2, RowFacts
  <2>8. RunBytes \in Nat /\ pos + 1 + RunBytes = b + part.past
    BY <1>1, <2>4, <2>5, RunIsRead
  <2>9. RunBytes \in Int
    BY <2>8
  <2>10. /\ b \in Nat /\ z \in Nat /\ a \in Nat /\ e \in Nat /\ a < e /\ e <= p
         /\ pos = b + a /\ pos + 1 + RunBytes = b + e
    BY <1>1, <2>4, <2>5, <2>8
  <2>11. a < z /\ e - 1 < z /\ e - 1 \in Int /\ pos + RunBytes = b + (e - 1)
    <3> HIDE DEF a, e, p, q, b, z
    <3> QED
      BY <2>6, <2>7, <2>9, <2>10
  <2>12. There(pos)
    <3> HIDE DEF a, e, p, q
    <3> QED
      BY <1>1, <2>10, <2>11
  <2>13. There(pos + RunBytes)
    <3> HIDE DEF a, e, p, q
    <3> QED
      BY <1>1, <2>11
  <2> QED
    BY <2>1, <2>12, <2>13
<1> QED
  BY <1>2, <1>3, <1>4

------------------------------------------------------------------------------
(* Symbols.                                                                *)

(* A frame of symbols, of four bits each.                                  *)
FrameOfSymbols(frame) ==
    /\ IsFrame(frame) /\ IsPlane(entry, frame)
    /\ \A k : FrameByte(entry, frame, k) = Byte(frame.begin + k)
    /\ \A k \in Int : k < frame.size => There(frame.begin + k)

(* Behind its head are sixteen palette entries, then the symbols.          *)
LEMMA PlaneFrame ==
    ASSUME SoundAt, pc = "plane"
    PROVE  /\ FrameOfSymbols(Frame) /\ entry \in Entries
           /\ Offset = Frame.begin /\ Width = Frame.width /\ Height = Frame.height
           /\ BitsPerSymbol = 4 /\ SymbolValues = 16 /\ CodeStart = Frame.begin + 26
           /\ Frame.pixels \in [0 .. Frame.width * Frame.height - 1 -> Colors]
           /\ DOMAIN img = 0 .. Frame.width * Frame.height - 1
           /\ NoneWrong(Frame, img)
<1>1. /\ IsFrame(Frame) /\ WellFormed(entry, Frame)
      /\ Offset = Frame.begin /\ Width = Frame.width /\ Height = Frame.height
      /\ \A k : FrameByte(entry, Frame, k) = Byte(Frame.begin + k)
      /\ \A k \in Int : k < Frame.begin + Frame.size => There(k)
  BY SoundFrame DEF SoundAt
<1>2. Frame.begin \in Nat /\ Frame.size \in Nat
  BY <1>1 DEF IsFrame
<1>3. \A k \in Int : k < Frame.size => There(Frame.begin + k)
  <2> DEFINE b == Frame.begin  z == Frame.size
  <2>1. b \in Nat /\ z \in Nat /\ \A k \in Int : k < b + z => There(k)
    BY <1>1, <1>2
  <2>2. \A k \in Int : k < z => There(b + k)
    <3> HIDE DEF b, z
    <3>1. \A k \in Int : k < z => b + k \in Int /\ b + k < b + z
      BY <2>1
    <3> QED
      BY <2>1, <3>1
  <2> QED
    BY <2>2
<1>4. IsPlane(entry, Frame) /\ NoneWrong(Frame, img)
  BY DEF SoundAt, SoundInv
<1>5. FrameOfSymbols(Frame)
  BY <1>1, <1>3, <1>4 DEF FrameOfSymbols
<1>6. BitsPerSymbol = 4
  BY <1>1, <1>4 DEF IsPlane, BitsPerSymbol
<1>7. DictionarySize = 16
  <2>1. 2^4 = 16
    OBVIOUS
  <2> QED
    BY <1>6, <2>1 DEF DictionarySize
<1>8. SymbolValues = 16
  BY <1>6, <1>7 DEF SymbolValues
<1>9. CodeStart = Frame.begin + 26
  BY <1>1, <1>2, <1>7 DEF CodeStart
<1>10. Frame.pixels \in [0 .. Frame.width * Frame.height - 1 -> Colors]
  BY <1>1 DEF WellFormed, Colors
<1>11. DOMAIN img = 0 .. Width * Height - 1
  BY DEF SoundAt, TypeInv, Begun
<1>12. entry \in Entries
  BY DEF SoundAt, TypeInv
<1> QED
  BY <1>1, <1>4, <1>5, <1>6, <1>8, <1>9, <1>10, <1>11, <1>12

(* The i-th symbol is read from the bits it lies in.                       *)
LEMMA SymbolIsRead ==
    ASSUME NEW frame, FrameOfSymbols(frame), entry \in Entries,
           BitsPerSymbol = 4, SymbolValues = 16, CodeStart = frame.begin + 26,
           NEW i \in Nat, i < 2 * (frame.size - 26)
    PROVE  /\ Bits(4 * i) = {Symbol(entry, frame, i)} /\ BitsThere(4 * i)
           /\ Symbol(entry, frame, i) \in 0 .. 15
<1> DEFINE shift == 4 - ((4 * i) % 8)
           b == frame.begin
           z == frame.size
           byte == FrameByte(entry, frame, 26 + i \div 2)
           place == CodeStart + ((4 * i) \div 8)
<1>1. b \in Nat /\ z \in Nat
  BY DEF FrameOfSymbols, IsFrame
<1>2. (4 * i) \div 8 = i \div 2 /\ i \div 2 \in Nat
  OBVIOUS
<1>3. i \div 2 < z - 26
  <2> HIDE DEF z
  <2> QED
    BY <1>1 DEF z
<1>4. place = b + (26 + i \div 2) /\ 26 + i \div 2 \in Int /\ 26 + i \div 2 < z
  <2> DEFINE half == i \div 2
  <2>1. half \in Nat /\ half < z - 26 /\ place = (b + 26) + half
    BY <1>2, <1>3
  <2> HIDE DEF half, b, z, place
  <2>2. place = b + (26 + half) /\ 26 + half \in Int /\ 26 + half < z
    BY <1>1, <2>1
  <2> QED
    BY <2>2 DEF half
<1>5. There(place) /\ place \in Nat /\ Byte(place) = byte
  <2>1. There(b + (26 + i \div 2)) /\ byte = Byte(b + (26 + i \div 2))
    BY <1>4 DEF FrameOfSymbols
  <2>2. place \in Nat
    <3> HIDE DEF place, b
    <3> QED
      BY <1>1, <1>2, <1>4
  <2> QED
    BY <1>4, <2>1, <2>2
<1>6. byte \in Nat
  BY <1>5, ByteIsThere DEF Bytes
<1>7. i % 2 \in {0, 1} /\ (i % 2 = 0 => shift = 4) /\ (i % 2 = 1 => shift = 0)
  <2>1. (4 * i) % 8 = 4 * (i % 2) /\ i % 2 \in {0, 1}
    OBVIOUS
  <2> QED
    BY <2>1
<1>8. 2^4 = 16 /\ 2^0 = 1
  OBVIOUS
<1>9. shift + 4 <= 8 /\ shift >= 0 /\ shift \in Int
  BY <1>7
<1>10. Bits(4 * i) = {(Byte(place) \div 2^shift) % 16}
  <2>1. ~(shift + BitsPerSymbol > 8) /\ ~(shift < 0)
    BY <1>9
  <2> QED
    BY <2>1 DEF Bits
<1>11. 2^shift = IF i % 2 = 0 THEN 16 ELSE 1
  BY <1>7, <1>8
<1>12. Bits(4 * i) = {Symbol(entry, frame, i)}
  BY <1>5, <1>10, <1>11 DEF Symbol
<1>13. Symbol(entry, frame, i) \in 0 .. 15
  <2> HIDE DEF byte
  <2>1. byte \div 16 \in Nat /\ byte \div 1 \in Nat
    BY <1>6
  <2>2. \A x \in Nat : x % 16 \in 0 .. 15
    OBVIOUS
  <2>3. Symbol(entry, frame, i) = (byte \div (IF i % 2 = 0 THEN 16 ELSE 1)) % 16
    BY DEF Symbol, byte
  <2> QED
    BY <1>7, <2>1, <2>2, <2>3
<1>14. BitsThere(4 * i)
  BY <1>5 DEF BitsThere
<1> QED
  BY <1>12, <1>13, <1>14

(* A piece, and where the one in front of it ends.                         *)
LEMMA PieceFacts ==
    ASSUME NEW frame, FrameOfSymbols(frame), NEW j \in DOMAIN frame.pieces
    PROVE  /\ frame.pieces[j].at \in Nat /\ frame.pieces[j].past \in Nat
           /\ frame.pieces[j].from \in Nat /\ frame.pieces[j].to \in Nat
           /\ frame.pieces[j].value \in 0 .. 15
           /\ frame.pieces[j].at < frame.pieces[j].past
           /\ frame.pieces[j].past <= 2 * (frame.size - 26)
           /\ IsPiece(entry, frame, j)
           /\ frame.pieces[j].at = PieceEnds(frame, j - 1).past
           /\ frame.pieces[j].from = PieceEnds(frame, j - 1).to
           /\ PieceEnds(frame, j).past = frame.pieces[j].past
           /\ PieceEnds(frame, j).to = frame.pieces[j].to
           /\ PieceEnds(frame, j).value = frame.pieces[j].value
           /\ PieceEnds(frame, j).from = frame.pieces[j].from
           /\ j \in Nat /\ j # 0 /\ j <= Len(frame.pieces)
<1> DEFINE pieces == frame.pieces
           piece == pieces[j]
<1>1. pieces \in Seq(PieceParts) /\ frame.size \in Nat
  BY DEF FrameOfSymbols, IsFrame
<1>2. piece \in PieceParts
  BY PartsHaveTypes DEF FrameOfSymbols
<1>3. /\ piece.at \in Nat /\ piece.past \in Nat /\ piece.from \in Nat /\ piece.to \in Nat
      /\ piece.value \in 0 .. 15
  BY <1>2 DEF PieceParts
<1>4. IsPiece(entry, frame, j)
  BY DEF FrameOfSymbols, IsPlane
<1>5. PICK codes \in 2 * (frame.size - 26) - 1 .. 2 * (frame.size - 26) : InARow(pieces, 0, codes)
  BY DEF FrameOfSymbols, IsPlane
<1>6. piece.at < piece.past /\ piece.past <= codes
  BY <1>5 DEF InARow
<1>7. piece.past <= 2 * (frame.size - 26)
  <2> DEFINE p == piece.past  z == frame.size
  <2>1. p \in Nat /\ z \in Nat /\ p <= codes /\ codes \in 2 * (z - 26) - 1 .. 2 * (z - 26)
    BY <1>1, <1>3, <1>6
  <2> HIDE DEF p, z
  <2>2. p <= 2 * (z - 26)
    BY <2>1
  <2> QED
    BY <2>2 DEF p, z
<1>8. j \in Nat /\ j # 0 /\ j <= Len(pieces) /\ (j # 1 => j - 1 \in DOMAIN pieces /\ j - 1 < Len(pieces)) /\ pieces # <<>>
  <2>1. j \in DOMAIN pieces
    OBVIOUS
  <2> HIDE DEF pieces
  <2> QED
    BY <1>1, <2>1
<1>9. piece.at = PieceEnds(frame, j - 1).past
  <2>1. CASE j = 1
    <3>1. pieces[1].at = 0
      BY <1>5, <1>8 DEF InARow
    <3> QED
      BY <2>1, <3>1 DEF PieceEnds
  <2>2. CASE j # 1
    <3>1. pieces[(j - 1) + 1].at = pieces[j - 1].past
      BY <1>5, <1>8, <2>2 DEF InARow
    <3>2. (j - 1) + 1 = j /\ j - 1 # 0
      BY <1>8, <2>2
    <3> QED
      BY <3>1, <3>2 DEF PieceEnds
  <2> QED
    BY <2>1, <2>2
<1>10. piece.from = PieceEnds(frame, j - 1).to
  <2>1. CASE j = 1
    BY <1>4, <2>1 DEF IsPiece, PieceEnds
  <2>2. CASE j # 1
    <3>1. j - 1 # 0
      BY <1>8, <2>2
    <3> QED
      BY <1>4, <2>2, <3>1 DEF IsPiece, PieceEnds
  <2> QED
    BY <2>1, <2>2
<1>11. /\ PieceEnds(frame, j).past = piece.past /\ PieceEnds(frame, j).to = piece.to
       /\ PieceEnds(frame, j).value = piece.value /\ PieceEnds(frame, j).from = piece.from
  BY <1>8 DEF PieceEnds
<1> QED
  BY <1>3, <1>4, <1>6, <1>7, <1>8, <1>9, <1>10, <1>11

(* Where the decoder of symbols is.                                        *)
LEMMA EndsAreNatural ==
    ASSUME NEW frame, FrameOfSymbols(frame), NEW j \in 0 .. Len(frame.pieces)
    PROVE  /\ PieceEnds(frame, j).past \in Nat /\ PieceEnds(frame, j).to \in Nat
           /\ PieceEnds(frame, j).from \in Nat /\ PieceEnds(frame, j).value \in 0 .. 15
           /\ j = 0 \/ j \in DOMAIN frame.pieces
           /\ j < Len(frame.pieces) => j + 1 \in DOMAIN frame.pieces /\ (j + 1) - 1 = j
           /\ j \in Nat /\ Len(frame.pieces) \in Nat /\ Len(frame.pieces) # 0
<1> DEFINE pieces == frame.pieces
<1>1. pieces \in Seq(PieceParts) /\ pieces # <<>>
  BY DEF FrameOfSymbols, IsFrame, IsPlane
<1>2. /\ j = 0 \/ j \in DOMAIN pieces
      /\ j < Len(pieces) => j + 1 \in DOMAIN pieces /\ (j + 1) - 1 = j
      /\ j \in Nat /\ Len(pieces) \in Nat /\ Len(pieces) # 0
  <2>1. j \in 0 .. Len(pieces)
    OBVIOUS
  <2> HIDE DEF pieces
  <2> QED
    BY <1>1, <2>1
<1>3. CASE j = 0
  BY <1>2, <1>3 DEF PieceEnds
<1>4. CASE j \in DOMAIN pieces
  BY <1>2, <1>4, PieceFacts
<1> QED
  BY <1>2, <1>3, <1>4

(* The decoder is in, or behind, the j-th piece.                           *)
LEMMA PieceIsHere ==
    ASSUME SoundAt, pc = "plane"
    PROVE  \E j \in 0 .. Len(Frame.pieces) :
              PixelPlaceIn(Frame, img, plnr_num_bits_read, plnr_last_value, plnr_remaining, drawn, j)
BY DEF SoundAt, SoundInv, PixelPlace

(* While there are pixels to draw, the decoder is in a piece, or behind    *)
(* one, and there is a next one, all of whose symbols are there.           *)
LEMMA NextPiece ==
    ASSUME SoundAt, pc = "plane", drawn < Width * Height,
           NEW j \in 0 .. Len(Frame.pieces), plnr_remaining = 0,
           PixelPlaceIn(Frame, img, plnr_num_bits_read, plnr_last_value, plnr_remaining, drawn, j)
    PROVE  LET piece == Frame.pieces[j + 1]
           IN  /\ j + 1 \in DOMAIN Frame.pieces /\ IsPiece(entry, Frame, j + 1)
               /\ piece.from = drawn /\ piece.at \in Nat
               /\ plnr_num_bits_read = 4 * piece.at
               /\ plnr_num_bits_read + BitsPerSymbol = 4 * (piece.at + 1)
               /\ (j + 1 = 1 => plnr_last_value = 0)
               /\ (j + 1 # 1 => plnr_last_value = Frame.pieces[(j + 1) - 1].value)
               /\ piece.at < 2 * (Frame.size - 26)
               /\ Symbol(entry, Frame, piece.at) = 0 => piece.at + 1 < 2 * (Frame.size - 26)
<1>1. /\ FrameOfSymbols(Frame) /\ entry \in Entries
      /\ Width = Frame.width /\ Height = Frame.height /\ BitsPerSymbol = 4
  BY PlaneFrame
<1>2. drawn \in Nat
  BY DEF SoundAt, TypeInv, PlaneVariables
<1> DEFINE ends == PieceEnds(Frame, j)
           len == Len(Frame.pieces)
<1>3. plnr_num_bits_read = 4 * ends.past /\ plnr_last_value = ends.value /\ drawn + 0 = ends.to
  BY DEF PixelPlaceIn
<1>4. /\ ends.past \in Nat /\ ends.to \in Nat /\ j \in Nat /\ len \in Nat /\ len # 0
      /\ j < len => j + 1 \in DOMAIN Frame.pieces /\ (j + 1) - 1 = j
      /\ j <= len
  BY <1>1, EndsAreNatural
<1>5. drawn = ends.to
  <2> DEFINE to == ends.to
  <2>1. drawn + 0 = to
    BY <1>3
  <2> HIDE DEF to
  <2>2. drawn = to
    BY <1>2, <2>1
  <2> QED
    BY <2>2 DEF to
<1>6. j < len
  <2> SUFFICES ASSUME j = len
               PROVE  FALSE
    BY <1>4
  <2>1. len \in DOMAIN Frame.pieces
    BY <1>1, <1>4, EndsAreNatural
  <2>2. ends.to = Frame.pieces[len].to
    BY <1>1, <2>1, PieceFacts
  <2>3. Frame.pieces[len].to = Frame.width * Frame.height
    BY <1>1 DEF FrameOfSymbols, IsPlane
  <2>4. drawn = Width * Height
    BY <1>1, <1>5, <2>2, <2>3
  <2> DEFINE all == Width * Height
  <2>5. drawn < all /\ drawn = all
    BY <2>4
  <2> HIDE DEF all
  <2> QED
    BY <1>2, <2>5
<1> DEFINE piece == Frame.pieces[j + 1]
<1>7. j + 1 \in DOMAIN Frame.pieces /\ (j + 1) - 1 = j
  BY <1>4, <1>6
<1>8. /\ piece.at \in Nat /\ piece.past \in Nat /\ piece.at < piece.past
      /\ piece.past <= 2 * (Frame.size - 26) /\ IsPiece(entry, Frame, j + 1)
      /\ piece.at = PieceEnds(Frame, (j + 1) - 1).past
      /\ piece.from = PieceEnds(Frame, (j + 1) - 1).to
  BY <1>1, <1>7, PieceFacts
<1>9. piece.from = drawn /\ piece.at = ends.past
  BY <1>5, <1>7, <1>8
<1>10. plnr_num_bits_read = 4 * piece.at /\ plnr_num_bits_read + BitsPerSymbol = 4 * (piece.at + 1)
  <2> DEFINE a == piece.at
  <2>1. plnr_num_bits_read = 4 * a /\ a \in Nat
    BY <1>3, <1>8, <1>9
  <2> HIDE DEF a
  <2>2. plnr_num_bits_read + 4 = 4 * (a + 1)
    BY <2>1
  <2> QED
    BY <1>1, <2>1, <2>2 DEF a
<1>11. /\ j + 1 = 1 => plnr_last_value = 0
       /\ j + 1 # 1 => plnr_last_value = Frame.pieces[(j + 1) - 1].value
  <2>1. CASE j = 0
    BY <1>3, <2>1 DEF PieceEnds
  <2>2. CASE j # 0
    <3>1. plnr_last_value = Frame.pieces[j].value
      BY <1>3, <2>2 DEF PieceEnds
    <3>2. j + 1 # 1
      BY <1>4, <2>2
    <3> QED
      BY <1>7, <3>1, <3>2
  <2> QED
    BY <2>1, <2>2
<1>12. Symbol(entry, Frame, piece.at) = 0 => piece.past = piece.at + 2
  <2>1. piece.past = piece.at + IF Symbol(entry, Frame, piece.at) = 0 THEN 2 ELSE 1
    BY <1>8 DEF IsPiece
  <2> QED
    BY <2>1
<1>13. /\ piece.at < 2 * (Frame.size - 26)
       /\ Symbol(entry, Frame, piece.at) = 0 => piece.at + 1 < 2 * (Frame.size - 26)
  <2> DEFINE a == piece.at  p == piece.past  z == Frame.size
             double == Symbol(entry, Frame, piece.at) = 0
  <2>1. z \in Nat
    BY <1>1 DEF FrameOfSymbols, IsFrame
  <2>2. a \in Nat /\ p \in Nat /\ a < p /\ p <= 2 * (z - 26) /\ (double => p = a + 2)
    BY <1>8, <1>12
  <2> HIDE DEF a, p, z, double
  <2>3. a < 2 * (z - 26) /\ (double => a + 1 < 2 * (z - 26))
    BY <2>1, <2>2
  <2> QED
    BY <2>3 DEF a, z, double
<1> QED
  BY <1>7, <1>8, <1>9, <1>10, <1>11, <1>13

(* A pixel is drawn that has the value of the piece it is in, and the      *)
(* decoder is in that piece.                                               *)
PixelIs(value, remaining, symbols) ==
    \E j \in DOMAIN Frame.pieces :
        LET piece == Frame.pieces[j]
        IN  /\ plnr_num_bits_read + symbols * BitsPerSymbol = 4 * piece.past
            /\ value = piece.value /\ drawn + 1 + remaining = piece.to
            /\ piece.from <= drawn /\ drawn < piece.to

LEMMA PixelOfAPiece ==
    ASSUME SoundAt, pixel
    PROVE  \E value \in 0 .. 15, remaining, symbols \in Int :
              Draws(value, remaining, symbols) /\ PixelIs(value, remaining, symbols)
<1>1. pc = "plane" /\ drawn < Width * Height
  BY DEF pixel
<1>2. /\ FrameOfSymbols(Frame) /\ entry \in Entries
      /\ Width = Frame.width /\ Height = Frame.height
      /\ BitsPerSymbol = 4 /\ SymbolValues = 16 /\ CodeStart = Frame.begin + 26
  BY <1>1, PlaneFrame
<1>3. drawn \in Nat /\ plnr_remaining \in Nat /\ plnr_num_bits_read \in Nat
  BY DEF SoundAt, TypeInv, PlaneVariables
<1>4. PICK j \in 0 .. Len(Frame.pieces) :
         PixelPlaceIn(Frame, img, plnr_num_bits_read, plnr_last_value, plnr_remaining, drawn, j)
  BY <1>1, PieceIsHere
<1>5. CASE plnr_remaining > 0
  <2> DEFINE ends == PieceEnds(Frame, j)
             piece == Frame.pieces[j]
  <2>1. Draws(plnr_last_value, plnr_remaining - 1, 0)
    BY <1>3, <1>5 DEF pixel
  <2>2. /\ plnr_num_bits_read = 4 * ends.past /\ plnr_last_value = ends.value
        /\ drawn + plnr_remaining = ends.to /\ ends.from <= drawn
    BY <1>4 DEF PixelPlaceIn
  <2>3. j # 0
    <3> SUFFICES ASSUME j = 0
                 PROVE  FALSE
      OBVIOUS
    <3>1. ends.to = 0
      BY DEF PieceEnds
    <3>2. drawn + plnr_remaining = 0
      BY <2>2, <3>1
    <3> QED
      BY <1>3, <1>5, <3>2
  <2>4. j \in DOMAIN Frame.pieces
    BY <1>2, <2>3, EndsAreNatural
  <2>5. /\ ends.past = piece.past /\ ends.to = piece.to /\ ends.value = piece.value
        /\ ends.from = piece.from /\ piece.value \in 0 .. 15 /\ piece.to \in Nat
    BY <1>2, <2>4, PieceFacts
  <2>6. plnr_num_bits_read + 0 * BitsPerSymbol = 4 * piece.past
    <3>1. plnr_num_bits_read + 0 * 4 = plnr_num_bits_read
      BY <1>3
    <3> QED
      BY <1>2, <2>2, <2>5, <3>1
  <2>7. drawn + 1 + (plnr_remaining - 1) = piece.to /\ drawn < piece.to
    <3> DEFINE to == piece.to
    <3>1. drawn + plnr_remaining = to
      BY <2>2, <2>5
    <3> HIDE DEF to
    <3>2. drawn + 1 + (plnr_remaining - 1) = to /\ drawn < to
      BY <1>3, <1>5, <3>1
    <3> QED
      BY <3>2 DEF to
  <2>8. plnr_last_value = piece.value /\ piece.from <= drawn
    BY <2>2, <2>5
  <2>9. PixelIs(plnr_last_value, plnr_remaining - 1, 0)
    BY <2>4, <2>6, <2>7, <2>8 DEF PixelIs
  <2>10. plnr_last_value \in 0 .. 15 /\ plnr_remaining - 1 \in Int /\ 0 \in Int
    BY <1>3, <2>5, <2>8
  <2> QED
    BY <2>1, <2>9, <2>10
<1>6. CASE plnr_remaining = 0
  <2> DEFINE piece == Frame.pieces[j + 1]
             one == Symbol(entry, Frame, piece.at)
             two == Symbol(entry, Frame, piece.at + 1)
  <2>1. /\ j + 1 \in DOMAIN Frame.pieces /\ IsPiece(entry, Frame, j + 1)
        /\ piece.from = drawn /\ piece.at \in Nat
        /\ plnr_num_bits_read = 4 * piece.at
        /\ plnr_num_bits_read + BitsPerSymbol = 4 * (piece.at + 1)
        /\ (j + 1 = 1 => plnr_last_value = 0)
        /\ (j + 1 # 1 => plnr_last_value = Frame.pieces[(j + 1) - 1].value)
        /\ piece.at < 2 * (Frame.size - 26)
        /\ Symbol(entry, Frame, piece.at) = 0 => piece.at + 1 < 2 * (Frame.size - 26)
    BY <1>1, <1>4, <1>6, NextPiece
  <2>2. Bits(plnr_num_bits_read) = {one} /\ one \in 0 .. 15
    BY <1>2, <2>1, SymbolIsRead
  <2>3. one = 0 => Bits(plnr_num_bits_read + BitsPerSymbol) = {two} /\ two \in 0 .. 15
    <3>1. piece.at + 1 \in Nat
      BY <2>1
    <3> QED
      BY <1>2, <2>1, <3>1, SymbolIsRead
  <2>4. /\ piece.past \in Nat /\ piece.to \in Nat /\ piece.value \in 0 .. 15
    BY <1>2, <2>1, PieceFacts
  <2> DEFINE before == IF j + 1 = 1 THEN 0 ELSE Frame.pieces[(j + 1) - 1].value
  <2>5. /\ piece.from < piece.to
        /\ piece.past = piece.at + IF one = 0 THEN 2 ELSE 1
        /\ \/ one # 0 /\ piece.value = one /\ piece.to = piece.from + 1
           \/ one = 0 /\ two = 0 /\ piece.value = 0 /\ piece.to = piece.from + 1
           \/ one = 0 /\ two # 0 /\ piece.value = before /\ piece.to = piece.from + two + 2
    BY <2>1 DEF IsPiece
  <2>6. plnr_last_value = before
    BY <2>1
  <2> DEFINE a == piece.at  p == piece.past  to == piece.to  value == piece.value
  <2>7. /\ a \in Nat /\ p \in Nat /\ to \in Nat /\ value \in 0 .. 15
        /\ plnr_num_bits_read = 4 * a /\ BitsPerSymbol = 4 /\ piece.from <= drawn /\ drawn < to
    BY <1>2, <1>3, <2>1, <2>4, <2>5
  <2>8. ASSUME NEW remaining \in Int, NEW symbols \in Int,
               p = a + symbols, drawn + 1 + remaining = to
        PROVE  PixelIs(value, remaining, symbols)
    <3>1. plnr_num_bits_read + symbols * BitsPerSymbol = 4 * p
      <4> HIDE DEF a, p
      <4>1. BitsPerSymbol = 4 /\ a \in Nat /\ p \in Nat /\ plnr_num_bits_read = 4 * a
        BY <2>7
      <4>2. 4 * a + symbols * 4 = 4 * p
        BY <2>8, <4>1
      <4> QED
        BY <4>1, <4>2
    <3> QED
      BY <2>1, <2>7, <2>8, <3>1 DEF PixelIs
  <2>9. \/ /\ one # 0
           /\ Draws(one, 0, 1)
        \/ /\ one = 0 /\ two = 0
           /\ Draws(0, 0, 2)
        \/ /\ one = 0 /\ two # 0
           /\ Draws(plnr_last_value, RunOf(two) - 1, 2)
    BY <1>6, <2>2, <2>3 DEF pixel
  <2>10. CASE one # 0
    <3>1. value = one /\ drawn + 1 + 0 = to /\ p = a + 1
      BY <1>3, <2>1, <2>5, <2>10
    <3>2. PixelIs(value, 0, 1)
      BY <2>8, <3>1
    <3>3. Draws(value, 0, 1)
      BY <2>9, <2>10, <3>1
    <3>4. value \in 0 .. 15 /\ 0 \in Int /\ 1 \in Int /\ 2 \in Int
      BY <2>7
    <3> HIDE DEF value
    <3> QED
      BY <3>2, <3>3, <3>4, Zenon
  <2>11. CASE one = 0 /\ two = 0
    <3>1. value = 0 /\ drawn + 1 + 0 = to /\ p = a + 2
      BY <1>3, <2>1, <2>5, <2>11
    <3>2. PixelIs(value, 0, 2)
      BY <2>8, <3>1
    <3>3. Draws(value, 0, 2)
      BY <2>9, <2>11, <3>1
    <3>4. value \in 0 .. 15 /\ 0 \in Int /\ 1 \in Int /\ 2 \in Int
      BY <2>7
    <3> HIDE DEF value
    <3> QED
      BY <3>2, <3>3, <3>4, Zenon
  <2>12. CASE one = 0 /\ two # 0
    <3>1. value = plnr_last_value /\ to = piece.from + two + 2 /\ p = a + 2
      BY <2>5, <2>6, <2>12
    <3>2. two \in Int /\ to = drawn + two + 2
      <4>1. two \in 0 .. 15
        <5> HIDE DEF one, two
        <5> QED
          BY <2>3, <2>12
      <4>2. piece.from = drawn
        BY <2>1
      <4> HIDE DEF two
      <4> QED
        BY <3>1, <4>1, <4>2
    <3>3. RunOf(two) - 1 \in Int /\ drawn + 1 + (RunOf(two) - 1) = to
      <4> HIDE DEF two, to
      <4> QED
        BY <1>3, <3>2 DEF RunOf
    <3>4. PixelIs(value, RunOf(two) - 1, 2)
      BY <2>8, <3>1, <3>3
    <3>5. Draws(value, RunOf(two) - 1, 2)
      BY <2>9, <2>12, <3>1
    <3>6. value \in 0 .. 15 /\ 2 \in Int
      BY <2>7
    <3> HIDE DEF value, two
    <3> QED
      BY <3>3, <3>4, <3>5, <3>6, Zenon
  <2> QED
    BY <2>10, <2>11, <2>12
<1> QED
  BY <1>3, <1>5, <1>6

LEMMA SoundPixel ==
    ASSUME SoundAt, pixel
    PROVE  SoundInv'
<1>1. FrameStays /\ UNCHANGED <<pc, pos>> /\ pc = "plane"
  BY DEF pixel, Keeps, FrameStays
<1>2. /\ FrameOfSymbols(Frame) /\ Offset = Frame.begin
      /\ Width = Frame.width /\ Height = Frame.height
      /\ DOMAIN img = 0 .. Frame.width * Frame.height - 1 /\ NoneWrong(Frame, img)
  BY <1>1, PlaneFrame
<1>3. drawn \in Nat
  BY DEF SoundAt, TypeInv, PlaneVariables
<1>4. PICK value \in 0 .. 15, remaining, symbols \in Int :
         Draws(value, remaining, symbols) /\ PixelIs(value, remaining, symbols)
  BY PixelOfAPiece
<1>5. PICK j \in DOMAIN Frame.pieces :
         LET piece == Frame.pieces[j]
         IN  /\ plnr_num_bits_read + symbols * BitsPerSymbol = 4 * piece.past
             /\ value = piece.value /\ drawn + 1 + remaining = piece.to
             /\ piece.from <= drawn /\ drawn < piece.to
  BY <1>4 DEF PixelIs
<1> DEFINE piece == Frame.pieces[j]
           all == Width * Height
<1>6. /\ piece.from \in Nat /\ piece.to \in Nat /\ IsPiece(entry, Frame, j) /\ j # 0
      /\ PieceEnds(Frame, j).past = piece.past /\ PieceEnds(Frame, j).to = piece.to
      /\ PieceEnds(Frame, j).value = piece.value /\ PieceEnds(Frame, j).from = piece.from
  BY <1>2, PieceFacts
<1>7. drawn \in piece.from .. piece.to - 1
  <2> DEFINE f == piece.from  t == piece.to
  <2>1. f \in Nat /\ t \in Nat /\ f <= drawn /\ drawn < t
    BY <1>5, <1>6
  <2> HIDE DEF f, t
  <2>2. drawn \in f .. t - 1
    BY <1>3, <2>1
  <2> QED
    BY <2>2 DEF f, t
<1>8. Frame.pixels[drawn] = Shade(entry, Frame, piece.value)
  BY <1>6, <1>7 DEF IsPiece
<1>9. Color(value) = Shade(entry, Frame, value)
  <2> DEFINE b == Frame.begin
  <2>1. b \in Nat /\ Offset = b /\ \A k : FrameByte(entry, Frame, k) = Byte(b + k)
    BY <1>2 DEF FrameOfSymbols, IsFrame
  <2> HIDE DEF b
  <2>2. Offset + 10 + value = b + (10 + value)
    BY <2>1
  <2>3. Byte(Offset + 10 + value) = FrameByte(entry, Frame, 10 + value)
    BY <2>1, <2>2
  <2> QED
    BY <2>3 DEF Color, Shade
<1>10. Color(value) = Frame.pixels[drawn]
  BY <1>5, <1>8, <1>9
<1>11. /\ plnr_last_value' = value /\ plnr_remaining' = remaining /\ drawn' = drawn + 1
       /\ plnr_num_bits_read' = 4 * piece.past
       /\ img' = [img EXCEPT ![drawn] = Frame.pixels[drawn]]
  BY <1>4, <1>5, <1>10 DEF Draws
<1>12. drawn \in DOMAIN img
  <2>1. drawn < all
    BY DEF pixel
  <2>2. all \in Int /\ DOMAIN img = 0 .. all - 1
    <3>1. Frame.width \in Nat /\ Frame.height \in Nat
      BY <1>2 DEF FrameOfSymbols, IsFrame
    <3>2. Frame.width * Frame.height \in Int
      BY <3>1
    <3> QED
      BY <1>2, <3>2
  <2> HIDE DEF all
  <2> QED
    BY <1>3, <2>1, <2>2
<1>13. NoneWrong(Frame, img')
  BY <1>2, <1>11, <1>12 DEF NoneWrong
<1>14. \A k \in 0 .. drawn' - 1 : img'[k] = Frame.pixels[k]
  <2>1. \A k \in 0 .. drawn - 1 : img[k] = Frame.pixels[k] /\ k \in DOMAIN img
    <3>1. \A k \in 0 .. drawn - 1 : img[k] = Frame.pixels[k]
      BY <1>1, PieceIsHere DEF PixelPlaceIn
    <3>2. \A k \in 0 .. drawn - 1 : k \in DOMAIN img
      <4> DEFINE top == Frame.width * Frame.height - 1
      <4>1. DOMAIN img = 0 .. top /\ top \in Int
        <5>1. Frame.width \in Nat /\ Frame.height \in Nat
          BY <1>2 DEF FrameOfSymbols, IsFrame
        <5> QED
          BY <1>2, <5>1
      <4> HIDE DEF top
      <4> QED
        BY <1>3, <1>12, <4>1
    <3> QED
      BY <3>1, <3>2
  <2>2. \A k \in 0 .. drawn' - 1 : k = drawn \/ k \in 0 .. drawn - 1
    BY <1>3, <1>11
  <2>3. img'[drawn] = Frame.pixels[drawn]
    BY <1>11, <1>12
  <2>4. \A k \in 0 .. drawn - 1 : img'[k] = img[k]
    BY <1>3, <1>11, <2>1
  <2> QED
    BY <2>1, <2>2, <2>3, <2>4
<1>15. PixelPlaceIn(Frame, img', plnr_num_bits_read', plnr_last_value', plnr_remaining', drawn', j)
  <2>1. drawn' + plnr_remaining' = piece.to
    BY <1>5, <1>11
  <2>2. piece.from <= drawn'
    <3> DEFINE f == piece.from
    <3>1. f \in Nat /\ f <= drawn
      BY <1>5, <1>6
    <3> HIDE DEF f
    <3>2. f <= drawn'
      BY <1>3, <1>11, <3>1
    <3> QED
      BY <3>2 DEF f
  <2>3. plnr_last_value' = piece.value /\ plnr_num_bits_read' = 4 * piece.past
    BY <1>5, <1>11
  <2> QED
    BY <1>6, <1>14, <2>1, <2>2, <2>3 DEF PixelPlaceIn
<1>16. PixelPlace(Frame, img', plnr_num_bits_read', plnr_last_value', plnr_remaining', drawn')
  <2>1. j \in 0 .. Len(Frame.pieces)
    <3> DEFINE pieces == Frame.pieces
    <3>1. pieces \in Seq(PieceParts) /\ j \in DOMAIN pieces
      BY <1>2 DEF FrameOfSymbols, IsFrame
    <3> HIDE DEF pieces
    <3>2. j \in 0 .. Len(pieces)
      BY <3>1
    <3> QED
      BY <3>2 DEF pieces
  <2> QED
    BY <1>15, <2>1 DEF PixelPlace
<1>17. Frame' = Frame /\ IsPlane(entry', Frame') /\ NoneWrong(Frame', img')
  BY <1>1, <1>2, <1>13, SoundIsTheSame, Zenon DEF FrameOfSymbols
<1>18. PixelPlace(Frame', img', plnr_num_bits_read', plnr_last_value', plnr_remaining', drawn')
  BY <1>16, <1>17, Zenon
<1>19. pos' = Frame'.begin + 10
  BY <1>1, <1>17 DEF SoundAt, SoundInv
<1>20. pc' = "plane"
  BY <1>1
<1> QED
  BY <1>17, <1>18, <1>19, <1>20 DEF SoundInv

(* Behind the last pixel is the end of the frame.                          *)
LEMMA SoundLastPixel ==
    ASSUME SoundAt, last_pixel
    PROVE  SoundInv'
<1>1. /\ FrameStays /\ UNCHANGED img /\ pc = "plane" /\ pc' = "image"
      /\ drawn = Width * Height /\ pos' = CodeStart + (plnr_num_bits_read + 7) \div 8
  BY DEF last_pixel, Keeps, FrameStays
<1>2. /\ FrameOfSymbols(Frame) /\ CodeStart = Frame.begin + 26
      /\ Width = Frame.width /\ Height = Frame.height
      /\ Frame.pixels \in [0 .. Frame.width * Frame.height - 1 -> Colors]
      /\ DOMAIN img = 0 .. Frame.width * Frame.height - 1 /\ NoneWrong(Frame, img)
  BY <1>1, PlaneFrame
<1>3. PICK j \in 0 .. Len(Frame.pieces) :
         PixelPlaceIn(Frame, img, plnr_num_bits_read, plnr_last_value, plnr_remaining, drawn, j)
  BY <1>1, PieceIsHere
<1>4. drawn \in Nat /\ plnr_remaining \in Nat
  BY DEF SoundAt, TypeInv, PlaneVariables
<1> DEFINE len == Len(Frame.pieces)
           ends == PieceEnds(Frame, j)
<1>5. /\ ends.past \in Nat /\ ends.to \in Nat /\ j \in Nat /\ len \in Nat /\ len # 0
      /\ j < len => j + 1 \in DOMAIN Frame.pieces /\ (j + 1) - 1 = j
      /\ j <= len
  BY <1>2, EndsAreNatural
<1>6. /\ plnr_num_bits_read = 4 * ends.past /\ drawn + plnr_remaining = ends.to
      /\ \A k \in 0 .. drawn - 1 : img[k] = Frame.pixels[k]
  BY <1>3 DEF PixelPlaceIn
<1>7. img = Frame.pixels
  <2> DEFINE pixels == Frame.pixels
             places == 0 .. Frame.width * Frame.height - 1
  <2>1. /\ img \in [DOMAIN img -> Colors] /\ DOMAIN img = places /\ pixels \in [places -> Colors]
        /\ \A k \in places : img[k] = pixels[k]
    BY <1>1, <1>2, <1>6 DEF SoundAt, TypeInv, Pixels
  <2> HIDE DEF pixels, places
  <2>2. img \in [places -> Colors]
    BY <2>1, Zenon
  <2>3. img = pixels
    BY <2>1, <2>2
  <2> QED
    BY <2>3 DEF pixels
<1>8. j = len
  <2> SUFFICES ASSUME j < len
               PROVE  FALSE
    BY <1>5
  <2> DEFINE next == Frame.pieces[j + 1]
  <2>1. j + 1 \in DOMAIN Frame.pieces /\ (j + 1) - 1 = j
    BY <1>5
  <2>2. /\ next.from \in Nat /\ next.to \in Nat /\ IsPiece(entry, Frame, j + 1)
        /\ next.from = PieceEnds(Frame, (j + 1) - 1).to
    BY <1>2, <2>1, PieceFacts
  <2>3. next.from < next.to /\ next.to <= Frame.width * Frame.height
    BY <2>2 DEF IsPiece
  <2> DEFINE f == next.from  t == next.to  e == ends.to
  <2>4. f \in Nat /\ t \in Nat /\ e \in Nat /\ f = e /\ f < t /\ t <= drawn /\ drawn + plnr_remaining = e
    BY <1>1, <1>2, <1>5, <1>6, <2>1, <2>2, <2>3
  <2> HIDE DEF f, t, e
  <2> QED
    BY <1>4, <2>4
<1>9. pos' = Frame.begin + Frame.size
  <2>1. len \in DOMAIN Frame.pieces
    BY <1>2, <1>5, <1>8, EndsAreNatural
  <2>2. Frame.pieces[len].past = ends.past
    BY <1>2, <1>8, <2>1, PieceFacts
  <2>3. PICK codes \in 2 * (Frame.size - 26) - 1 .. 2 * (Frame.size - 26) :
           InARow(Frame.pieces, 0, codes)
    BY <1>2 DEF FrameOfSymbols, IsPlane
  <2>4. Frame.pieces # <<>>
    BY <1>2 DEF FrameOfSymbols, IsPlane
  <2>5. Frame.pieces[len].past = codes
    BY <2>3, <2>4 DEF InARow
  <2> DEFINE b == Frame.begin  z == Frame.size  p == ends.past
  <2>6. /\ b \in Nat /\ z \in Nat /\ p \in Nat
        /\ p \in 2 * (z - 26) - 1 .. 2 * (z - 26)
        /\ pos' = (b + 26) + (4 * p + 7) \div 8
    <3>1. b \in Nat /\ z \in Nat
      BY <1>2 DEF FrameOfSymbols, IsFrame
    <3> QED
      BY <1>1, <1>2, <1>5, <1>6, <2>2, <2>3, <2>5, <3>1
  <2> HIDE DEF b, z, p
  <2>7. (4 * p + 7) \div 8 = z - 26
    <3>1. CASE p = 2 * (z - 26)
      BY <2>6, <3>1
    <3>2. CASE p = 2 * (z - 26) - 1
      BY <2>6, <3>2
    <3> QED
      BY <2>6, <3>1, <3>2
  <2>8. pos' = b + z
    BY <2>6, <2>7
  <2> QED
    BY <2>8 DEF b, z
<1>10. Frame' = Frame /\ NoneWrong(Frame', img')
  BY <1>1, <1>2, SoundIsTheSame
<1> QED
  BY <1>1, <1>7, <1>9, <1>10 DEF SoundInv

(* There are symbols behind the palette entries.                           *)
LEMMA SymbolsFollow ==
    ASSUME NEW frame, FrameOfSymbols(frame)
    PROVE  frame.size > 26
<1> DEFINE pieces == frame.pieces
           p == pieces[1].past
           a == pieces[1].at
           z == frame.size
<1>1. pieces \in Seq(PieceParts) /\ pieces # <<>> /\ z \in Nat
  BY DEF FrameOfSymbols, IsFrame, IsPlane
<1>2. 1 \in DOMAIN pieces
  <2> HIDE DEF pieces
  <2> QED
    BY <1>1
<1>3. a \in Nat /\ p \in Nat /\ a < p /\ p <= 2 * (z - 26)
  BY <1>2, PieceFacts
<1> HIDE DEF a, p, z
<1>4. z > 26
  BY <1>1, <1>3 DEF z
<1> QED
  BY <1>4 DEF z

(* Its dictionary and all symbols are in the frame.                        *)
LEMMA SymbolsAreThere ==
    ASSUME SoundAt, pc = "plane", behind
    PROVE  FALSE
<1>1. /\ FrameOfSymbols(Frame) /\ entry \in Entries
      /\ Width = Frame.width /\ Height = Frame.height
      /\ BitsPerSymbol = 4 /\ SymbolValues = 16 /\ CodeStart = Frame.begin + 26
  BY PlaneFrame
<1>2. drawn < Width * Height /\ (~DictionaryThere \/ ~SymbolThere)
  BY DEF behind
<1> DEFINE b == Frame.begin  z == Frame.size
<1>3. b \in Nat /\ z \in Nat
  BY <1>1 DEF FrameOfSymbols, IsFrame
<1>4. DictionaryThere
  <2>1. z > 26
    BY <1>1, SymbolsFollow
  <2>2. 25 < z /\ (b + 26) - 1 = b + 25
    <3> HIDE DEF b, z
    <3> QED
      BY <1>3, <2>1
  <2>3. There(b + 25)
    BY <1>1, <2>2 DEF FrameOfSymbols
  <2>4. There(CodeStart - 1)
    BY <1>1, <2>2, <2>3
  <2> QED
    BY <1>1, <2>4 DEF DictionaryThere
<1>5. SymbolThere
  <2>1. CASE plnr_remaining > 0
    BY <2>1 DEF SymbolThere
  <2>2. CASE plnr_remaining = 0
    <3>1. PICK j \in 0 .. Len(Frame.pieces) :
             PixelPlaceIn(Frame, img, plnr_num_bits_read, plnr_last_value, plnr_remaining, drawn, j)
      BY PieceIsHere
    <3> DEFINE piece == Frame.pieces[j + 1]
    <3>2. /\ piece.at \in Nat
          /\ plnr_num_bits_read = 4 * piece.at
          /\ plnr_num_bits_read + BitsPerSymbol = 4 * (piece.at + 1)
          /\ piece.at < 2 * (Frame.size - 26)
          /\ Symbol(entry, Frame, piece.at) = 0 => piece.at + 1 < 2 * (Frame.size - 26)
      BY <1>2, <2>2, <3>1, NextPiece
    <3>3. /\ Bits(plnr_num_bits_read) = {Symbol(entry, Frame, piece.at)}
          /\ BitsThere(plnr_num_bits_read)
      BY <1>1, <3>2, SymbolIsRead
    <3>4. piece.at + 1 \in Nat
      BY <3>2
    <3>5. Symbol(entry, Frame, piece.at) = 0 => BitsThere(plnr_num_bits_read + BitsPerSymbol)
      BY <1>1, <3>2, <3>4, SymbolIsRead
    <3>6. 0 \in Bits(plnr_num_bits_read) => Symbol(entry, Frame, piece.at) = 0
      BY <3>3
    <3> QED
      BY <1>1, <3>3, <3>5, <3>6 DEF SymbolThere
  <2>3. plnr_remaining \in Nat
    BY DEF SoundAt, TypeInv, PlaneVariables
  <2> QED
    BY <2>1, <2>2, <2>3
<1> QED
  BY <1>2, <1>4, <1>5

------------------------------------------------------------------------------
(* Theorems.                                                               *)

LEMMA SoundStep ==
    ASSUME TypeInv, SoundInv, [Next]_vars
    PROVE  SoundInv'
<1>1. CASE Sound
  <2>1. SoundAt
    BY <1>1 DEF SoundAt
  <2>2. CASE not_found
    BY <2>1, <2>2, SoundNotFound
  <2>3. CASE begin
    BY <2>1, <2>3, SoundBegins
  <2>4. CASE row_number
    BY <2>1, <2>4, SoundRowNumber
  <2>5. CASE last_row
    BY <2>1, <2>5, SoundLastRow
  <2>6. CASE bad_row
    BY <2>1, <2>6, NoBadRow
  <2>7. CASE segment
    BY <2>1, <2>7, SoundSegment
  <2>8. CASE run
    BY <2>1, <2>8, SoundRun
  <2>9. CASE end_run
    BY <2>1, <2>9, SoundEndRun
  <2>10. CASE pixel
    BY <2>1, <2>10, SoundPixel
  <2>11. CASE last_pixel
    BY <2>1, <2>11, SoundLastPixel
  <2>12. CASE behind
    <3>1. pc \in {"row", "segment", "run"} \/ pc = "plane"
      BY <2>12 DEF behind
    <3> QED
      BY <2>1, <2>12, <3>1, RowsAreThere, SymbolsAreThere
  <2>13. CASE UNCHANGED vars
    <3>1. FrameStays /\ UNCHANGED <<img, pc, pos, ds1, plnr>>
      BY <2>13 DEF vars, FrameStays
    <3>2. /\ Frame' = Frame /\ Sound' = Sound /\ Found' = Found /\ entry' = entry
          /\ img' = img /\ pc' = pc /\ pos' = pos /\ num_rows' = num_rows /\ at' = at
          /\ startx' = startx /\ left' = left /\ last' = last
          /\ plnr_last_value' = plnr_last_value /\ plnr_remaining' = plnr_remaining
          /\ plnr_num_bits_read' = plnr_num_bits_read /\ drawn' = drawn
      BY <3>1, SoundIsTheSame DEF ds1, plnr, FrameStays
    <3> QED
      BY <3>2, Zenon DEF SoundInv
  <2> QED
    BY <2>2, <2>3, <2>4, <2>5, <2>6, <2>7, <2>8, <2>9, <2>10, <2>11, <2>12, <2>13 DEF Next
<1>2. CASE ~Sound
  <2>1. FrameStays
    BY DEF Next, vars, FrameStays, Keeps, not_found, begin, row_number, last_row, bad_row,
           segment, run, end_run, EndRun, pixel, last_pixel, behind
  <2>2. ~Sound'
    BY <1>2, <2>1, SoundIsTheSame
  <2> QED
    BY <2>2 DEF SoundInv
<1> QED
  BY <1>1, <1>2

LEMMA SoundInit ==
    ASSUME Init
    PROVE  SoundInv
<1>1. pc = "call" /\ pos = 0 /\ img = <<>>
  BY DEF Init
<1>2. NoneWrong(Frame, img)
  BY <1>1 DEF NoneWrong
<1> QED
  BY <1>1, <1>2 DEF SoundInv

(* For any chunk and any number: the decoder's variables stay in their     *)
(* ranges, and for a well-formed frame its cursor is at one of the frame's *)
(* parts, in front of which everything is drawn as it should be.           *)
THEOREM FramesInductive ==
    Spec => []FramesInv
<1>1. Init => FramesInv
  BY TypeInit, SoundInit DEF FramesInv
<1>2. FramesInv /\ [Next]_vars => FramesInv'
  BY TypeStep, SoundStep DEF FramesInv
<1> QED
  BY <1>1, <1>2, PTL DEF Spec

(* The decoders show the picture of every well-formed frame, and draw no   *)
(* pixel wrong on the way.                                                 *)
THEOREM DecoderShowsThePicture ==
    Spec => []ShowsThePicture
<1>1. FramesInv => ShowsThePicture
  BY DEF FramesInv, SoundInv, NoneWrong, ShowsThePicture
<1> QED
  BY <1>1, FramesInductive, PTL

(* A frame is begun in front of its end, and none of its parts is behind   *)
(* that.                                                                   *)
LEMMA PlacesAreInTheFrame ==
    ASSUME SoundAt, pc \in {"row", "segment", "run", "plane"}
    PROVE  pos <= Frame.begin + Frame.size
<1> DEFINE b == Frame.begin  z == Frame.size  n == num_rows
           segs == Frame.rows[n].segments
<1>1. IsFrame(Frame) /\ b \in Nat /\ z \in Nat
  BY SoundFrame DEF SoundAt, IsFrame
<1>2. \A x \in Nat : x <= z => b + x <= b + z
  <2> HIDE DEF b, z
  <2> QED
    BY <1>1
<1>3. CASE pc = "row"
  <2> DEFINE rows == Frame.rows
             end == RowsEnd(Frame)
  <2>1. FrameOfRows(Frame)
    BY <1>3, RowsFrame
  <2>2. n \in 0 .. Len(rows) /\ pos = b + Place(rows, n + 1, end)
    BY <1>3 DEF SoundAt, SoundInv, RowPlace
  <2>3. CASE n + 1 <= Len(rows)
    <3>1. n + 1 \in DOMAIN rows
      <4>1. rows \in Seq(RowParts)
        BY <1>1 DEF IsFrame
      <4>2. n \in 0 .. Len(rows)
        BY <2>2
      <4> HIDE DEF rows
      <4> QED
        BY <2>3, <4>1, <4>2
    <3> DEFINE a == rows[n + 1].at  p == rows[n + 1].past
    <3>2. a \in Nat /\ p \in Nat /\ a < p /\ p < z + 1
      BY <2>1, <3>1, RowFacts
    <3>3. pos = b + a
      BY <2>2, <2>3 DEF Place
    <3>4. a <= z
      <4> HIDE DEF a, p, z
      <4> QED
        BY <1>1, <3>2
    <3> QED
      BY <1>2, <3>2, <3>3, <3>4
  <2>4. CASE ~(n + 1 <= Len(rows))
    <3>1. pos = b + end
      BY <2>2, <2>4 DEF Place
    <3>2. end \in Nat /\ end <= z
      BY <2>1 DEF RowsEnd, FrameOfRows, IsFrame
    <3> HIDE DEF end
    <3> QED
      BY <1>2, <3>1, <3>2
  <2> QED
    BY <2>3, <2>4
<1>4. CASE pc = "segment"
  <2>1. FrameOfRows(Frame)
    BY <1>4, RowsFrame
  <2>2. n \in DOMAIN Frame.rows
    BY <1>4 DEF SoundAt, SoundInv, SegmentPlace, InRow
  <2>3. PICK s \in DOMAIN segs : pos = b + segs[s].at
    BY <1>4 DEF SoundAt, SoundInv, SegmentPlace
  <2> DEFINE a == segs[s].at  p == segs[s].past  q == Frame.rows[n].past
  <2>4. a \in Nat /\ p \in Nat /\ a + 4 <= p /\ p <= q
    BY <2>1, <2>2, SegmentFacts
  <2>5. q \in Nat /\ q < z + 1
    BY <2>1, <2>2, RowFacts
  <2>6. a <= z
    <3> HIDE DEF a, p, q, z
    <3> QED
      BY <1>1, <2>4, <2>5
  <2> QED
    BY <1>2, <2>3, <2>4, <2>6
<1>5. CASE pc = "run"
  <2>1. FrameOfRows(Frame)
    BY <1>5, RowsFrame
  <2>2. n \in DOMAIN Frame.rows
    BY <1>5, RunIsHere
  <2>3. PICK s \in DOMAIN segs : \E i \in 1 .. Len(segs[s].runs) + 1 :
           pos = b + Place(segs[s].runs, i, segs[s].past)
    BY <1>5 DEF SoundAt, SoundInv, RunPlace, RunPlaceIn
  <2> DEFINE runs == segs[s].runs
             p == segs[s].past  q == Frame.rows[n].past
  <2>4. PICK i \in 1 .. Len(runs) + 1 : pos = b + Place(runs, i, p)
    BY <2>3
  <2>5. p \in Nat /\ p <= q /\ runs \in Seq(RunParts)
    BY <2>1, <2>2, SegmentFacts
  <2>6. q \in Nat /\ q < z + 1
    BY <2>1, <2>2, RowFacts
  <2>7. p <= z
    <3> HIDE DEF p, q, z
    <3> QED
      BY <1>1, <2>5, <2>6
  <2>8. CASE i <= Len(runs)
    <3>1. i \in DOMAIN runs
      <4>1. i \in 1 .. Len(runs) + 1
        OBVIOUS
      <4> HIDE DEF runs
      <4> QED
        BY <2>5, <2>8, <4>1
    <3> DEFINE a == runs[i].at  e == runs[i].past
    <3>2. a \in Nat /\ e \in Nat /\ a < e /\ e <= p
      BY <2>1, <2>2, <3>1, RunFacts
    <3>3. pos = b + a
      BY <2>4, <2>8 DEF Place
    <3>4. a <= z
      <4> HIDE DEF a, e, p, z
      <4> QED
        BY <1>1, <2>5, <2>7, <3>2
    <3> QED
      BY <1>2, <3>2, <3>3, <3>4
  <2>9. CASE ~(i <= Len(runs))
    <3>1. pos = b + p
      BY <2>4, <2>9 DEF Place
    <3> QED
      BY <1>2, <2>5, <2>7, <3>1
  <2> QED
    BY <2>8, <2>9
<1>6. CASE pc = "plane"
  <2>1. z > 26 /\ pos = b + 10
    BY <1>6, PlaneFrame, SymbolsFollow DEF SoundAt, SoundInv
  <2> HIDE DEF b, z
  <2>2. pos <= b + z
    BY <1>1, <2>1
  <2> QED
    BY <2>2 DEF b, z
<1> QED
  BY <1>3, <1>4, <1>5, <1>6

(* A well-formed frame is read up to its end and not a byte further, and   *)
(* nothing is written outside the image.                                   *)
THEOREM DecoderStaysInTheFrame ==
    Spec => []StaysInTheFrame
<1>1. ASSUME FramesInv, Sound
      PROVE  pos <= Frame.begin + Frame.size
  <2>1. SoundAt
    BY <1>1 DEF FramesInv, SoundAt
  <2>2. IsFrame(Frame) /\ WellFormed(entry, Frame)
    BY <2>1, SoundFrame DEF SoundAt
  <2> DEFINE b == Frame.begin  z == Frame.size
  <2>3. b \in Nat /\ z \in Nat /\ z > 4
    BY <2>2 DEF IsFrame, WellFormed
  <2>4. CASE pc \in {"call", "none"}
    <3>1. pos = 0
      BY <2>1, <2>4 DEF SoundAt, SoundInv
    <3> HIDE DEF b, z
    <3>2. pos <= b + z
      BY <2>3, <3>1
    <3> QED
      BY <3>2 DEF b, z
  <2>5. CASE pc \in {"row", "segment", "run", "plane"}
    BY <2>1, <2>5, PlacesAreInTheFrame
  <2>6. CASE pc = "image"
    <3>1. pos = b + z
      BY <2>1, <2>6 DEF SoundAt, SoundInv
    <3> HIDE DEF b, z
    <3>2. pos <= b + z
      BY <2>3, <3>1
    <3> QED
      BY <3>2 DEF b, z
  <2> QED
    BY <2>1, <2>4, <2>5, <2>6 DEF SoundAt, SoundInv, TypeInv, Steps
<1>2. FramesInv => StaysInTheFrame
  BY <1>1, TypeIsOK DEF FramesInv, SoundInv, StaysInTheFrame
<1> QED
  BY <1>2, FramesInductive, PTL

(* Every frame of a chunk is seen: a well-formed one is refused only when  *)
(* it begins too near to the end of its chunk; as many are counted as were *)
(* put in, but none in a chunk of fewer than sixteen bytes; and each one's *)
(* size is that of its picture.                                            *)
THEOREM DecoderSeesEveryFrame ==
    Spec => []SeesEveryFrame
<1>1. ASSUME FramesInv
      PROVE  SeesEveryFrame
  <2>1. entry \in Entries /\ frame_id \in 0 .. Len(entry.frames) /\ HasTable(entry)
    BY <1>1, EntriesAssumption DEF FramesInv, TypeInv
  <2> DEFINE fs == entry.frames
             n == Len(fs)
             size == Len(entry.data)
  <2>2. fs \in Seq({fs[k] : k \in DOMAIN fs}) /\ size \in Nat
    BY <2>1, EntriesAssumption, LengthIsNatural
  <2>3. n \in Nat /\ \A k \in DOMAIN fs : k \in Nat /\ k # 0 /\ k <= n
    <3> HIDE DEF fs
    <3> QED
      BY <2>2
  <2>4. /\ n <= 32767 /\ 6 + 4 * n <= size /\ HalfOf(entry, 4) = n
        /\ \A k \in DOMAIN fs : fs[k].begin = LongOf(entry, 6 + 4 * (k - 1))
    BY <2>1 DEF HasTable
  <2>5. ASSUME pc = "none", Sound
        PROVE  Len(entry.data) - Offset <= Padding
    <3>1. ~Found
      BY <1>1, <2>5 DEF FramesInv, SoundInv
    <3>2. Offset \in Nat
      <4>1. Offset = Frame.begin /\ IsFrame(Frame)
        BY <1>1, <2>5, SoundFrame DEF FramesInv
      <4> QED
        BY <4>1 DEF IsFrame
    <3> HIDE DEF fs, n
    <3>3. Padding \in Nat /\ size \in Nat
      BY <2>2, BoundsAssumption
    <3> QED
      BY <3>1, <3>2, <3>3 DEF Found
  <2>6. FrameCount = IF size < 16 THEN 0 ELSE n
    <3>1. Half(4) = n
      BY <2>4 DEF Half, HalfOf, Byte, ByteOf
    <3> HIDE DEF n
    <3> QED
      BY <2>3, <2>4, <3>1 DEF FrameCount, CountFrom
  <2>7. ASSUME NEW k \in DOMAIN fs, fs[k].sound
        PROVE  FrameInfo(k - 1) = <<fs[k].width, fs[k].height>>
    <3>1. IsFrame(fs[k]) /\ WellFormed(entry, fs[k])
      BY <2>1, <2>7, EntriesAssumption
    <3>2. InfoOffset(k - 1) = fs[k].begin
      BY <2>4, <2>7 DEF InfoOffset, Long, Half, Byte, LongOf, HalfOf, ByteOf
    <3>3. /\ Half(InfoOffset(k - 1)) = fs[k].width
          /\ Half(InfoOffset(k - 1) + 2) = fs[k].height
      BY <3>1, <3>2 DEF WellFormed, Half, Byte, HalfOf, ByteOf
    <3>4. ~(size < 10 + 4 * (k - 1))
      <4>1. k \in Nat /\ k <= n /\ n \in Nat /\ 6 + 4 * n <= size
        BY <2>3, <2>4, <2>7
      <4> HIDE DEF n, size
      <4> QED
        BY <2>2, <4>1
    <3>5. ~(size <= InfoOffset(k - 1) + 4)
      <4> DEFINE b == fs[k].begin  z == fs[k].size
      <4>1. b \in Nat /\ z \in Nat /\ z > 4 /\ b + z <= size /\ InfoOffset(k - 1) = b
        BY <3>1, <3>2 DEF IsFrame, WellFormed
      <4> HIDE DEF b, z, size
      <4> QED
        BY <2>2, <4>1
    <3> QED
      BY <3>3, <3>4, <3>5 DEF FrameInfo, FrameInfoOf
  <2> QED
    BY <2>5, <2>6, <2>7 DEF SeesEveryFrame
<1> QED
  BY <1>1, FramesInductive, PTL
==============================================================================
