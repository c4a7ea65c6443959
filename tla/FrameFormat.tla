---------------------------- MODULE FrameFormat ----------------------------
(***************************************************************************)
(* What an image chunk is to whoever wrote it.  A frame of rows has, for   *)
(* each row that is drawn, segments of runs of pixels; a frame of symbols  *)
(* (PLNR) has pieces of one or two symbols, each for one pixel or for      *)
(* several.  A frame knows where each of its parts lies; WellFormed says   *)
(* that its bytes are these parts and that they draw its picture.  None of *)
(* this is how the decoders of image.c go about it: see Frames.            *)
(***************************************************************************)
EXTENDS Integers, Sequences

CONSTANTS
    Black,          \* the palette entries that are black
    Clear,          \* a pixel that was not drawn
    Padding         \* 18: a frame this near the end of its chunk is not found

(* Parts lie one behind another from a place to a place, each at least one *)
(* byte, or one symbol, long.                                              *)
InARow(parts, from, to) ==
    /\ IF parts = <<>> THEN from = to
       ELSE parts[1].at = from /\ parts[Len(parts)].past = to
    /\ \A i \in DOMAIN parts :
          /\ from <= parts[i].at /\ parts[i].at < parts[i].past /\ parts[i].past <= to
          /\ i < Len(parts) => parts[i + 1].at = parts[i].past

(* The parts of a frame, by their places in it.                            *)
RunParts == [at : Nat, past : Nat, x : Nat, n : Nat \ {0}, same : BOOLEAN]
SegmentParts == [at : Nat, past : Nat, x : Nat, runs : Seq(RunParts)]
RowParts == [at : Nat, past : Nat, y : Nat, segments : Seq(SegmentParts)]
PieceParts == [at : Nat, past : Nat, from : Nat, to : Nat, value : 0 .. 15]

(* Bytes of a chunk, and of a frame in it, counted from 0.                 *)
ByteOf(chunk, k) == chunk.data[k + 1]
HalfOf(chunk, k) == ByteOf(chunk, k) + 256 * ByteOf(chunk, k + 1)
LongOf(chunk, k) == HalfOf(chunk, k) + 65536 * HalfOf(chunk, k + 2)

FrameByte(chunk, frame, k) == ByteOf(chunk, frame.begin + k)

Bytes == 0 .. 255
PLNR == <<80, 76, 78, 82>>
PLAN == <<80, 76, 65, 78>>

TypeBytes(chunk, frame) == [k \in 1 .. 4 |-> FrameByte(chunk, frame, 4 + k)]

(* The pixel in column x of row y, counted from the top.                   *)
Cell(frame, x, y) == y * frame.width + x

------------------------------------------------------------------------------
(* A run of n pixels of row y, from column x on: its code has n - 1 and    *)
(* whether they are all the same; then one byte follows, or n.             *)
RunPixel(chunk, frame, run, k) == FrameByte(chunk, frame, run.at + 1 + IF run.same THEN 0 ELSE k)

IsRun(chunk, frame, y, run) ==
    /\ run.x + run.n <= frame.width
    /\ FrameByte(chunk, frame, run.at) = 2 * (run.n - 1) + IF run.same THEN 1 ELSE 0
    /\ run.past = run.at + 1 + IF run.same THEN 1 ELSE run.n
    /\ \A k \in 0 .. run.n - 1 :
          frame.pixels[Cell(frame, run.x + k, y)] = RunPixel(chunk, frame, run, k)

(* A segment: its first column, whose ninth bit is a flag, a flag for the  *)
(* last one of a row, and how many bytes of runs follow.                   *)
IsSegment(chunk, frame, row, s) ==
    LET segment == row.segments[s]
        flags == FrameByte(chunk, frame, segment.at + 1)
        runs == segment.runs
    IN  /\ segment.x = FrameByte(chunk, frame, segment.at) + 256 * (flags % 2)
        /\ flags >= 128 <=> s = Len(row.segments)
        /\ FrameByte(chunk, frame, segment.at + 3) = segment.past - (segment.at + 4)
        /\ InARow(runs, segment.at + 4, segment.past)
        /\ \A i \in DOMAIN runs :
              /\ IsRun(chunk, frame, row.y, runs[i])
              /\ runs[i].x = IF i = 1 THEN segment.x ELSE runs[i - 1].x + runs[i - 1].n

(* A row: its number, counted from the bottom, and its segments.           *)
IsRow(chunk, frame, row) ==
    /\ row.y \in 0 .. frame.height - 1
    /\ FrameByte(chunk, frame, row.at) = frame.height - 1 - row.y
    /\ FrameByte(chunk, frame, row.at) # 255
    /\ row.segments # <<>>
    /\ InARow(row.segments, row.at + 1, row.past)
    /\ \A s \in DOMAIN row.segments : IsSegment(chunk, frame, row, s)

(* A frame of rows: as many as the picture has, or a mark behind them; and *)
(* what they do not draw is clear.                                         *)
RowsEnd(frame) == IF Len(frame.rows) < frame.height THEN frame.size - 1 ELSE frame.size

InRun(frame, row, run, k) ==
    \E c \in 0 .. run.n - 1 : k = Cell(frame, run.x + c, row.y)

IsRows(chunk, frame) ==
    /\ frame.begin + Padding < Len(chunk.data) => TypeBytes(chunk, frame) \notin {PLNR, PLAN}
    /\ InARow(frame.rows, 4, RowsEnd(frame))
    /\ Len(frame.rows) <= frame.height
    /\ Len(frame.rows) < frame.height => FrameByte(chunk, frame, frame.size - 1) = 255
    /\ \A r \in DOMAIN frame.rows : IsRow(chunk, frame, frame.rows[r])
    /\ \A k \in DOMAIN frame.pixels :
          \/ frame.pixels[k] = Clear
          \/ \E r \in DOMAIN frame.rows : \E s \in DOMAIN frame.rows[r].segments :
                LET runs == frame.rows[r].segments[s].runs
                IN  \E i \in DOMAIN runs : InRun(frame, frame.rows[r], runs[i], k)

------------------------------------------------------------------------------
(* A frame of symbols: four bits each, behind the sixteen palette entries  *)
(* they stand for.  A symbol is a pixel; zero is followed by zero for one  *)
(* pixel of symbol zero, or by how many more than two the pixels are that  *)
(* repeat the last one.                                                    *)
Symbol(chunk, frame, i) ==
    (FrameByte(chunk, frame, 26 + i \div 2) \div (IF i % 2 = 0 THEN 16 ELSE 1)) % 16

(* No palette entry is drawn for a black one.                              *)
Shade(chunk, frame, value) ==
    LET index == FrameByte(chunk, frame, 10 + value) IN IF index \in Black THEN Clear ELSE index

IsPiece(chunk, frame, j) ==
    LET piece == frame.pieces[j]
        first == Symbol(chunk, frame, piece.at)
        second == Symbol(chunk, frame, piece.at + 1)
        before == IF j = 1 THEN 0 ELSE frame.pieces[j - 1].value
    IN  /\ piece.from = IF j = 1 THEN 0 ELSE frame.pieces[j - 1].to
        /\ piece.from < piece.to /\ piece.to <= frame.width * frame.height
        /\ piece.past = piece.at + IF first = 0 THEN 2 ELSE 1
        /\ \/ first # 0 /\ piece.value = first /\ piece.to = piece.from + 1
           \/ first = 0 /\ second = 0 /\ piece.value = 0 /\ piece.to = piece.from + 1
           \/ first = 0 /\ second # 0 /\ piece.value = before /\ piece.to = piece.from + second + 2
        /\ \A k \in piece.from .. piece.to - 1 :
              frame.pixels[k] = Shade(chunk, frame, piece.value)

IsPlane(chunk, frame) ==
    /\ TypeBytes(chunk, frame) = PLNR
    /\ FrameByte(chunk, frame, 9) = 4
    /\ frame.pieces # <<>>
    /\ frame.pieces[Len(frame.pieces)].to = frame.width * frame.height
    /\ \E codes \in 2 * (frame.size - 26) - 1 .. 2 * (frame.size - 26) :
          InARow(frame.pieces, 0, codes)
    /\ \A j \in DOMAIN frame.pieces : IsPiece(chunk, frame, j)

------------------------------------------------------------------------------
(* A frame as its writer knows it; sound: it is what the decoders expect.  *)
IsFrame(frame) ==
    /\ frame.width \in Nat /\ frame.height \in Nat
    /\ frame.begin \in Nat /\ frame.size \in Nat
    /\ frame.sound \in BOOLEAN
    /\ frame.rows \in Seq(RowParts) /\ frame.pieces \in Seq(PieceParts)

WellFormed(chunk, frame) ==
    /\ frame.begin + frame.size <= Len(chunk.data)
    /\ frame.width = HalfOf(chunk, frame.begin) /\ frame.width > 0
    /\ frame.height = HalfOf(chunk, frame.begin + 2) /\ frame.height > 0
    /\ frame.pixels \in [0 .. frame.width * frame.height - 1 -> Bytes \union {Clear}]
    /\ frame.size > 4
    /\ IsRows(chunk, frame) \/ IsPlane(chunk, frame)

(* A chunk's table says how many frames there are and where each begins.   *)
HasTable(chunk) ==
    LET n == Len(chunk.frames)
    IN  /\ n <= 32767
        /\ 6 + 4 * n <= Len(chunk.data)
        /\ HalfOf(chunk, 4) = n
        /\ \A k \in DOMAIN chunk.frames :
              /\ chunk.frames[k].begin = LongOf(chunk, 6 + 4 * (k - 1))
              /\ chunk.frames[k].begin >= 6 + 4 * n
==============================================================================
