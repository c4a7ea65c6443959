------------------------------- MODULE Frames -------------------------------
(***************************************************************************)
(* The decoders of src/src/image.c: gff_get_frame_rgba_palette_img finds a *)
(* frame in an image chunk and draws it, row by row from runs of pixels    *)
(* (create_ds1_rgba) or pixel by pixel from packed symbols (PLNR).  A step *)
(* reads a row's number, the head of a segment, a run, or one pixel.       *)
(***************************************************************************)
EXTENDS FrameFormat

CONSTANTS
    Entries,        \* image chunks: their bytes, and the frames that were put in
    BufSize         \* 1 << 16, what gff_frame_info reads a chunk into

(* A chunk has any bytes behind its table of frames.  Its frames are those *)
(* its writer put in; the decoder is told nothing but the bytes.           *)
ASSUME EntriesAssumption ==
    \A e \in Entries :
        /\ e.data \in Seq(Bytes) /\ e.frames \in Seq({e.frames[k] : k \in DOMAIN e.frames})
        /\ HasTable(e)
        /\ \A k \in DOMAIN e.frames :
              /\ IsFrame(e.frames[k])
              /\ e.frames[k].sound => WellFormed(e, e.frames[k])

(* The head of a frame, its size and type and the size of its symbols, is  *)
(* shorter than the padding.                                               *)
ASSUME BoundsAssumption == Padding \in Nat /\ Padding >= 10 /\ BufSize \in Nat

VARIABLES
    entry,                          \* the chunk: img->data
    frame_id,
    pc,                             \* "call"; "row", "segment", "run" of a DS1 frame; "plane";
                                    \* "image", "none": returned; "behind", "outside": it read
                                    \* behind the chunk or wrote outside the image
    pos,                            \* cpos
    img,                            \* the pixels by their index in memory
    num_rows, at, startx, left, last,   \* of create_ds1_rgba; left: compressed_length - i
    plnr_last_value, plnr_remaining, plnr_num_bits_read, drawn

ds1 == <<num_rows, at, startx, left, last>>
plnr == <<plnr_last_value, plnr_remaining, plnr_num_bits_read, drawn>>
vars == <<entry, frame_id, pc, pos, img, ds1, plnr>>

------------------------------------------------------------------------------
(* The chunk. *)

Byte(k) == entry.data[k + 1]
There(k) == k < Len(entry.data)

Half(k) == Byte(k) + 256 * Byte(k + 1)
Long(k) == Half(k) + 65536 * Half(k + 2)

Offset == Long(6 + 4 * frame_id)
OffsetThere == There(6 + 4 * frame_id + 3)

(* frame_offset is 32 bits wide, and so is its sum with the padding: an   *)
(* offset for which that wraps is found out by the second comparison.      *)
Found == Offset + Padding < Len(entry.data)

Width == Half(Offset)
Height == Half(Offset + 2)

FrameType == [k \in 1 .. 4 |-> Byte(Offset + 4 + k)]

(* create_initialized_image_rgb: no memory for an image without pixels.    *)
Blank == [k \in 0 .. Width * Height - 1 |-> Clear]

(* gff_get_frame_count, through a short, of the first sixteen bytes: a     *)
(* chunk that has fewer counts no frames.                                  *)
CountFrom(bytes) ==
    IF Len(entry.data) < bytes THEN 0
    ELSE IF Half(4) > 32767 THEN Half(4) - 65536 ELSE Half(4)

(* Mutant: more bytes are asked for.                                       *)
FrameCountOfMore == CountFrom(32)
FrameCount == CountFrom(16)

(* gff_frame_info, and gff_get_frame_width and _height in the same way, of *)
(* any frame: they fail, or answer with the size.  A chunk that is larger  *)
(* than their buffer is not read, and they answer from what was in it.     *)
InfoOffset(k) == Long(6 + 4 * k)

FrameInfoOf(k, room) ==
    IF Len(entry.data) < 10 + 4 * k \/ Len(entry.data) <= InfoOffset(k) + room THEN <<>>
    ELSE <<Half(InfoOffset(k)), Half(InfoOffset(k) + 2)>>

(* Mutant: the size is refused where the frame is.                         *)
FrameInfoBehindRows(k) == FrameInfoOf(k, Padding)
FrameInfo(k) == FrameInfoOf(k, 4)

------------------------------------------------------------------------------
Init ==
    /\ entry \in Entries
    /\ frame_id \in 0 .. Len(entry.frames)
    /\ pc = "call" /\ pos = 0 /\ img = <<>>
    /\ num_rows = 0 /\ at = 0 /\ startx = 0 /\ left = 0 /\ last = FALSE
    /\ plnr_last_value = 0 /\ plnr_remaining = 0 /\ plnr_num_bits_read = 0 /\ drawn = 0

Returns(what) == pc' = what /\ UNCHANGED <<pos, img>>

Keeps(others) == UNCHANGED others /\ UNCHANGED <<entry, frame_id>>

(* frame_id is not checked: the test asks for a number that is both below  *)
(* zero and not below the number of frames.                                *)
not_found ==
    /\ pc = "call"
    /\ \/ ~OffsetThere /\ Returns("behind")
       \/ OffsetThere /\ ~Found /\ Returns("none")
       \/ OffsetThere /\ Found /\ FrameType = PLAN /\ Returns("none")
       \/ OffsetThere /\ Found /\ FrameType # PLAN /\ Blank = <<>> /\ Returns("none")
    /\ Keeps(<<ds1, plnr>>)

begin ==
    /\ pc = "call" /\ OffsetThere /\ Found /\ Blank # <<>>
    /\ \/ FrameType \notin {PLNR, PLAN} /\ pc' = "row" /\ pos' = Offset + 4
       \/ FrameType = PLNR /\ pc' = "plane" /\ pos' = Offset + 10
    /\ img' = Blank
    /\ Keeps(<<ds1, plnr>>)

------------------------------------------------------------------------------
(* create_ds1_rgba. *)

(* Mutant: rows are not drawn upside down.                                 *)
RowNotFlipped(row) == row * Width

(* Mutant: rows begin one too early.                                       *)
RowBefore(row) == (Height - row - 2) * Width

(* Rows are drawn upside down.                                             *)
RowStart(row) == (Height - row - 1) * Width

row_number ==
    /\ pc = "row" /\ num_rows < Height /\ There(pos)
    /\ Byte(pos) < Height /\ Byte(pos) # 255
    /\ at' = RowStart(Byte(pos))
    /\ num_rows' = num_rows + 1
    /\ pos' = pos + 1
    /\ pc' = "segment"
    /\ Keeps(<<img, startx, left, last, plnr>>)

(* Mutant: the last row is left out.                                       *)
last_row_early ==
    /\ pc = "row"
    /\ \/ num_rows + 1 >= Height /\ UNCHANGED pos
       \/ num_rows < Height /\ There(pos) /\ Byte(pos) = 255 /\ pos' = pos + 1
    /\ pc' = "image"
    /\ Keeps(<<img, ds1, plnr>>)

(* Mutant: a mark is expected behind all rows.                             *)
last_row_marked ==
    /\ pc = "row"
    /\ \/ num_rows >= Height
       \/ num_rows < Height /\ There(pos) /\ Byte(pos) = 255
    /\ pos' = pos + 1
    /\ pc' = "image"
    /\ Keeps(<<img, ds1, plnr>>)

(* All rows there can be, or the mark that no more follow.                 *)
last_row ==
    /\ pc = "row"
    /\ \/ num_rows >= Height /\ UNCHANGED pos
       \/ num_rows < Height /\ There(pos) /\ Byte(pos) = 255 /\ pos' = pos + 1
    /\ pc' = "image"
    /\ Keeps(<<img, ds1, plnr>>)

(* Mutant: the last row is refused.                                        *)
bad_last_row ==
    /\ pc = "row" /\ num_rows < Height /\ There(pos)
    /\ Byte(pos) + 1 >= Height /\ Byte(pos) # 255
    /\ Returns("none")
    /\ Keeps(<<ds1, plnr>>)

(* The image is freed.                                                     *)
bad_row ==
    /\ pc = "row" /\ num_rows < Height /\ There(pos)
    /\ Byte(pos) >= Height /\ Byte(pos) # 255
    /\ Returns("none")
    /\ Keeps(<<ds1, plnr>>)

(* Mutant: the ninth bit of the column is ignored.                         *)
narrow_segment ==
    /\ pc = "segment" /\ There(pos + 3)
    /\ startx' = Byte(pos)
    /\ last' = (Byte(pos + 1) >= 128)
    /\ left' = Byte(pos + 3)
    /\ pos' = pos + 4
    /\ pc' = "run"
    /\ Keeps(<<img, num_rows, at, plnr>>)

segment ==
    /\ pc = "segment" /\ There(pos + 3)
    /\ startx' = Byte(pos) + 256 * (Byte(pos + 1) % 2)
    /\ last' = (Byte(pos + 1) >= 128)
    /\ left' = Byte(pos + 3)
    /\ pos' = pos + 4
    /\ pc' = "run"
    /\ Keeps(<<img, num_rows, at, plnr>>)

RunLength == Byte(pos) \div 2 + 1

(* The pixels that follow the code: one each, or one for all.              *)
RunBytes == IF Byte(pos) % 2 = 0 THEN RunLength ELSE 1
Pixel(k) == Byte(pos + 1 + (IF Byte(pos) % 2 = 0 THEN k ELSE 0))

run ==
    LET first == at + startx
        beyond == first + RunLength
    IN /\ pc = "run" /\ left > 0 /\ There(pos) /\ There(pos + RunBytes)
       /\ IF beyond - 1 \in DOMAIN img
          THEN /\ img' = [k \in DOMAIN img |->
                            IF k \in first .. beyond - 1 THEN Pixel(k - first) ELSE img[k]]
               /\ UNCHANGED pc
          ELSE pc' = "outside" /\ UNCHANGED img
       /\ startx' = startx + RunLength
       /\ left' = left - 1 - RunBytes
       /\ pos' = pos + 1 + RunBytes
       /\ Keeps(<<num_rows, at, last, plnr>>)

(* The next segment is where this one's length says, also when its last    *)
(* run went on behind that.                                                *)
EndRun(then) ==
    /\ pc = "run" /\ left <= 0
    /\ pos' = pos + left
    /\ pc' = then
    /\ Keeps(<<img, ds1, plnr>>)

end_run == EndRun(IF last THEN "row" ELSE "segment")

------------------------------------------------------------------------------
(* PLNR. *)

BitsPerSymbol == Byte(Offset + 9)
DictionarySize == 2^BitsPerSymbol
CodeStart == Offset + 10 + DictionarySize

(* A dictionary this large is not to be had by shifting an int.            *)
DictionaryThere == BitsPerSymbol < 31 /\ There(CodeStart - 1)

(* plnr_get_mask, for a size it does not know that of eight bits.          *)
SymbolValues == IF BitsPerSymbol \in 1 .. 8 THEN DictionarySize ELSE 256

(* plnr_get_bits.  A shift by a negative number may give anything.         *)
Bits(read) ==
    LET shift == 4 - (read % 8)
    IN  IF shift + BitsPerSymbol > 8 THEN {0}
        ELSE IF shift < 0 THEN 0 .. SymbolValues - 1
        ELSE {(Byte(CodeStart + (read \div 8)) \div 2^shift) % SymbolValues}

BitsThere(read) ==
    \/ BitsPerSymbol + 4 - (read % 8) > 8
    \/ There(CodeStart + (read \div 8))

(* All bytes the pixel may need are there, and so is its palette entry:    *)
(* only of symbols of no bits at all there are more than entries.          *)
SymbolThere ==
    \/ plnr_remaining > 0
    \/ /\ BitsThere(plnr_num_bits_read)
       /\ 0 \in Bits(plnr_num_bits_read) => BitsThere(plnr_num_bits_read + BitsPerSymbol)
       /\ BitsPerSymbol = 0 => Bits(plnr_num_bits_read) = {0}

Color(value) ==
    LET index == Byte(Offset + 10 + value) IN IF index \in Black THEN Clear ELSE index

Draws(value, remaining, symbols) ==
    /\ plnr_last_value' = value
    /\ plnr_remaining' = remaining
    /\ plnr_num_bits_read' = plnr_num_bits_read + symbols * BitsPerSymbol
    /\ img' = [img EXCEPT ![drawn] = Color(value)]
    /\ drawn' = drawn + 1

(* Mutant: runs of symbols count from one.                                 *)
RunTooShort(second) == second + 1
RunOf(second) == second + 2

(* plnr_get_next: a symbol is the value of one pixel; but zero is followed *)
(* by how long the last value goes on, or by zero again for one zero.      *)
pixel ==
    /\ pc = "plane" /\ drawn < Width * Height
    /\ DictionaryThere /\ SymbolThere
    /\ \/ plnr_remaining > 0 /\ Draws(plnr_last_value, plnr_remaining - 1, 0)
       \/ /\ plnr_remaining = 0
          /\ \E first \in Bits(plnr_num_bits_read) :
                \/ first # 0 /\ Draws(first, 0, 1)
                \/ /\ first = 0
                   /\ \E second \in Bits(plnr_num_bits_read + BitsPerSymbol) :
                         \/ second = 0 /\ Draws(0, 0, 2)
                         \/ second # 0 /\ Draws(plnr_last_value, RunOf(second) - 1, 2)
    /\ Keeps(<<pc, pos, ds1>>)

last_pixel ==
    /\ pc = "plane" /\ drawn = Width * Height
    /\ pos' = CodeStart + (plnr_num_bits_read + 7) \div 8
    /\ pc' = "image"
    /\ Keeps(<<img, ds1, plnr>>)

------------------------------------------------------------------------------
(* What the decoder takes from behind the chunk is not followed.           *)
behind ==
    /\ \/ pc = "row" /\ num_rows < Height /\ ~There(pos)
       \/ pc = "segment" /\ ~There(pos + 3)
       \/ pc = "run" /\ left > 0 /\ (~There(pos) \/ ~There(pos + RunBytes))
       \/ pc = "plane" /\ drawn < Width * Height /\ (~DictionaryThere \/ ~SymbolThere)
    /\ Returns("behind")
    /\ Keeps(<<ds1, plnr>>)

Next ==
    \/ not_found \/ begin
    \/ row_number \/ last_row \/ bad_row \/ segment \/ run \/ end_run
    \/ pixel \/ last_pixel
    \/ behind

Spec == Init /\ [][Next]_vars

------------------------------------------------------------------------------
TypeOK ==
    /\ entry.data \in Seq(0 .. 255)
    /\ frame_id \in 0 .. Len(entry.frames)
    /\ pc \in {"call", "row", "segment", "run", "plane", "image", "none", "behind", "outside"}
    /\ pos \in Nat
    /\ \A k \in DOMAIN img : img[k] \in 0 .. 255 \union {Clear}
    /\ num_rows \in Nat /\ at \in Nat /\ startx \in Nat /\ left \in Int /\ last \in BOOLEAN
    /\ plnr_last_value \in 0 .. 255 /\ plnr_remaining \in 0 .. 257
    /\ plnr_num_bits_read \in Nat /\ drawn \in Nat

(* The frame that is asked for, when there is one and it is well formed.   *)
Sound == frame_id < Len(entry.frames) /\ entry.frames[frame_id + 1].sound
Frame == entry.frames[frame_id + 1]

(* The decoder shows the picture that was put into the frame: whatever the *)
(* order of its rows, however a row is cut into segments and a segment     *)
(* into runs, with the pixels nothing was drawn on clear; and so are the   *)
(* black ones of a PLNR frame, which is not drawn upside down.  On the way *)
(* no pixel is drawn wrong: what is not as in the picture is still clear.  *)
ShowsThePicture ==
    Sound => /\ \A k \in DOMAIN img : img[k] \in {Clear, Frame.pixels[k]}
             /\ pc = "image" => img = Frame.pixels

(* A well-formed frame is read up to its end and not a byte further, and   *)
(* nothing is written outside the image: the next frame's bytes, and those *)
(* behind the chunk, are not taken for pixels.  The decoder's variables    *)
(* stay in their ranges for any frame.                                     *)
StaysInTheFrame ==
    /\ TypeOK
    /\ Sound => /\ pc \notin {"behind", "outside"}
                /\ pos <= Frame.begin + Frame.size
                /\ pc = "image" => pos = Frame.begin + Frame.size

(* Every well-formed frame of a chunk is seen.  One is refused only if it  *)
(* begins so near to the end of its chunk that the decoder does not expect *)
(* a frame there; the frames of a chunk are counted as they are, unless    *)
(* the chunk is shorter than the sixteen bytes gff_get_frame_count reads,  *)
(* as one with a frame on which nothing is drawn may be: then none is; and *)
(* the size that is asked for beforehand is that of the frame's picture,   *)
(* also where the decoder refuses it.                                      *)
SeesEveryFrame ==
    /\ pc = "none" /\ Sound => Len(entry.data) - Offset <= Padding
    /\ FrameCount = IF Len(entry.data) < 16 THEN 0 ELSE Len(entry.frames)
    /\ Len(entry.data) <= BufSize =>
          \A k \in DOMAIN entry.frames : entry.frames[k].sound =>
             FrameInfo(k - 1) = <<entry.frames[k].width, entry.frames[k].height>>
=============================================================================
