------------------------------ MODULE MCFrames ------------------------------
(***************************************************************************)
(* Image chunks for the decoders.  The operators below are the writer's    *)
(* side: a picture is a sequence of rows from the top, as it is shown, and *)
(* each style packs it in another way the format allows.                   *)
(***************************************************************************)
EXTENDS Frames, SequencesExt

Undrawn == -1
Concat(seqs) == FlattenSeq(seqs)
TwoBytes(n) == <<n % 256, n \div 256>>
FourBytes(n) == TwoBytes(n) \o <<0, 0>>

AsShown(rows) ==
    [k \in 0 .. Len(rows) * Len(rows[1]) - 1 |->
        rows[(k \div Len(rows[1])) + 1][(k % Len(rows[1])) + 1]]

(* The columns a .. b of a row that are drawn with nothing drawn next to them. *)
Spans(row) ==
    LET cell(k) == k \in DOMAIN row /\ row[k] # Undrawn
    IN  SetToSortSeq({<<a, b>> \in (DOMAIN row) \X (DOMAIN row) :
                        /\ a <= b /\ \A k \in a .. b : cell(k)
                        /\ ~cell(a - 1) /\ ~cell(b + 1)},
                     LAMBDA x, y : x[1] < y[1])

AllSame(seq) == \A k \in DOMAIN seq : seq[k] = seq[1]

(* What a row is packed into: segments of runs, as the style of a packer   *)
(* cuts it.                                                                *)
Literal(seq) == [same |-> FALSE, cells |-> seq]
Repeated(seq) == [same |-> TRUE, cells |-> seq]
Segment(a, runs) == [x |-> a - 1, runs |-> runs]

(* One segment for every span, in one run.                                 *)
Whole(row) ==
    LET spans == Spans(row)
        cells(k) == SubSeq(row, spans[k][1], spans[k][2])
        packed(seq) == IF AllSame(seq) THEN Repeated(seq) ELSE Literal(seq)
    IN  [k \in DOMAIN spans |-> Segment(spans[k][1], <<packed(cells(k))>>)]

(* One segment for every span, in as many runs as it has pixels.           *)
Runs(row) ==
    LET spans == Spans(row)
        run_at(c) == IF c % 2 = 0 THEN Literal(<<row[c]>>) ELSE Repeated(<<row[c]>>)
    IN  [k \in DOMAIN spans |->
            Segment(spans[k][1], [i \in 1 .. spans[k][2] - spans[k][1] + 1 |-> run_at(spans[k][1] + i - 1)])]

(* One segment for every pixel, from right to left.                        *)
Single(row) ==
    LET columns == SetToSortSeq({k \in DOMAIN row : row[k] # Undrawn}, LAMBDA x, y : x > y)
    IN  [k \in DOMAIN columns |-> Segment(columns[k], <<Literal(<<row[columns[k]]>>)>>)]

(* The bytes of these.                                                     *)
RunBytesOf(r) ==
    <<2 * (Len(r.cells) - 1) + IF r.same THEN 1 ELSE 0>> \o IF r.same THEN <<r.cells[1]>> ELSE r.cells

RunsBytes(runs) == Concat([i \in DOMAIN runs |-> RunBytesOf(runs[i])])

SegmentBytes(piece, is_last) ==
    <<piece.x % 256, (IF is_last THEN 128 ELSE 0) + piece.x \div 256, 0, Len(RunsBytes(piece.runs))>>
      \o RunsBytes(piece.runs)

RowBytes(number, segments) ==
    <<number>> \o Concat([s \in DOMAIN segments |-> SegmentBytes(segments[s], s = Len(segments))])

(* Where they lie, when the first begins at a place.                       *)
Places(bytes, from) ==
    [i \in DOMAIN bytes |-> [at |-> from + Len(Concat(SubSeq(bytes, 1, i - 1))),
                             past |-> from + Len(Concat(SubSeq(bytes, 1, i)))]]

LayRuns(runs, x, from) ==
    LET places == Places([i \in DOMAIN runs |-> RunBytesOf(runs[i])], from)
        cells(i) == Len(Concat([k \in 1 .. i - 1 |-> runs[k].cells]))
    IN  [i \in DOMAIN runs |-> places[i] @@ [x |-> x + cells(i), n |-> Len(runs[i].cells), same |-> runs[i].same]]

LaySegments(segments, from) ==
    LET places == Places([s \in DOMAIN segments |-> SegmentBytes(segments[s], FALSE)], from)
    IN  [s \in DOMAIN segments |->
            places[s] @@ [x |-> segments[s].x,
                          runs |-> LayRuns(segments[s].runs, segments[s].x, places[s].at + 4)]]

LayRows(lines, from) ==
    LET places == Places([r \in DOMAIN lines |-> RowBytes(0, lines[r].segments)], from)
    IN  [r \in DOMAIN lines |->
            places[r] @@ [y |-> lines[r].y, segments |-> LaySegments(lines[r].segments, places[r].at + 1)]]

(* A frame of rows: those with nothing to draw are left out, and then the  *)
(* mark that no more follow is there.                                      *)
Packed(rows, Row(_), upwards) ==
    LET height == Len(rows)
        there == SetToSortSeq({y \in 1 .. height : Spans(rows[y]) # <<>>},
                              LAMBDA x, y : (x < y) # upwards)
        lines == [k \in DOMAIN there |-> [y |-> there[k] - 1, segments |-> Row(rows[there[k]])]]
    IN  [bytes |-> TwoBytes(Len(rows[1])) \o TwoBytes(height)
                     \o Concat([k \in DOMAIN lines |-> RowBytes(height - 1 - lines[k].y, lines[k].segments)])
                     \o (IF Len(there) < height THEN <<255>> ELSE <<>>),
         rows |-> LayRows(lines, 4), pieces |-> <<>>]

Styles(rows) ==
    { Packed(rows, Whole, FALSE), Packed(rows, Runs, TRUE), Packed(rows, Single, FALSE) }

(* A frame of symbols of four bits: Dictionary is what symbols stand for.  *)
Dictionary == <<0, 7, 9>> \o [k \in 1 .. 509 |-> 11]
Code(value) == (CHOOSE k \in 1 .. 16 : Dictionary[k] = value) - 1

Nibbles(seq) ==
    LET even == IF Len(seq) % 2 = 0 THEN seq ELSE Append(seq, 0)
    IN  [k \in 1 .. Len(even) \div 2 |-> 16 * even[2 * k - 1] + even[2 * k]]

(* A flat picture in pieces: each pixel for itself, or, from the pixel at  *)
(* cut on, the rest of the picture, all of one value, as a run of the one  *)
(* before.                                                                 *)
Each(flat) ==
    [k \in DOMAIN flat |->
        [value |-> Code(flat[k]), n |-> 1,
         codes |-> IF Code(flat[k]) = 0 THEN <<0, 0>> ELSE <<Code(flat[k])>>]]

Run(flat, cut) ==
    Each(SubSeq(flat, 1, cut))
      \o <<[value |-> Code(flat[cut]), n |-> Len(flat) - cut, codes |-> <<0, Len(flat) - cut - 2>>]>>

LayPieces(pieces) ==
    LET places == Places([j \in DOMAIN pieces |-> pieces[j].codes], 0)
        cells == Places([j \in DOMAIN pieces |-> [k \in 1 .. pieces[j].n |-> 0]], 0)
    IN  [j \in DOMAIN pieces |->
            places[j] @@ [from |-> cells[j].at, to |-> cells[j].past, value |-> pieces[j].value]]

Plane(rows, bits, pieces) ==
    [bytes |-> TwoBytes(Len(rows[1])) \o TwoBytes(Len(rows)) \o <<0>> \o PLNR \o <<bits>>
                 \o SubSeq(Dictionary, 1, 2^bits)
                 \o Nibbles(Concat([j \in DOMAIN pieces |-> pieces[j].codes])),
     rows |-> <<>>, pieces |-> LayPieces(pieces)]

Flat(rows) == Concat(rows)

Planes(rows) ==
    LET flat == Flat(rows)
        cuts == {c \in 1 .. Len(flat) - 3 : AllSame(SubSeq(flat, c, Len(flat)))}
    IN  {Plane(rows, 4, Each(flat))} \union {Plane(rows, 4, Run(flat, c)) : c \in cuts}

ClearBlack(rows) == [k \in DOMAIN rows |-> [c \in DOMAIN rows[k] |->
                        IF rows[k][c] = 0 THEN Undrawn ELSE rows[k][c]]]

(* A frame, and a chunk of frames behind a table of where they begin.      *)
Framed(packed, rows, sound) == [packed |-> packed, picture |-> rows, sound |-> sound]

Chunk(frames) ==
    LET begins == Places([k \in DOMAIN frames |-> frames[k].packed.bytes], 6 + 4 * Len(frames))
    IN [data |-> <<0, 0, 0, 0>> \o TwoBytes(Len(frames))
                   \o Concat([k \in DOMAIN frames |-> FourBytes(begins[k].at)])
                   \o Concat([k \in DOMAIN frames |-> frames[k].packed.bytes]),
        frames |-> [k \in DOMAIN frames |->
            [width |-> Len(frames[k].picture[1]), height |-> Len(frames[k].picture),
             pixels |-> AsShown(frames[k].picture), sound |-> frames[k].sound,
             begin |-> begins[k].at, size |-> begins[k].past - begins[k].at,
             rows |-> frames[k].packed.rows, pieces |-> frames[k].packed.pieces]]]

Pictures(width, height, cells) == [1 .. height -> [1 .. width -> cells]]

Drawings ==
    UNION {{Framed(packed, rows, TRUE) : packed \in Styles(rows)} :
             rows \in Pictures(3, 2, {Undrawn, 7}) \union Pictures(2, 2, {Undrawn, 0, 9})
                      \union Pictures(1, 3, {Undrawn, 7}) \union Pictures(4, 1, {7, 9})}

PlaneDrawings ==
    UNION {{Framed(packed, ClearBlack(rows), TRUE) : packed \in Planes(rows)} :
             rows \in Pictures(3, 2, {0, 7}) \union Pictures(1, 5, {7, 9}) \union {<<<<0, 0, 0, 0, 0, 0>>>>}}

WideRow == [k \in 1 .. 258 |-> IF k \in {1, 255, 256, 257, 258} THEN 7 ELSE Undrawn]
Wide == {Framed(packed, <<WideRow>>, TRUE) :
            packed \in {Packed(<<WideRow>>, Single, FALSE), Packed(<<WideRow>>, Whole, FALSE)}}

(* Frames no writer should make: a row that is not there, runs that leave  *)
(* the picture, a run that is longer than its segment says, bytes that are *)
(* not there, symbols of another size, and what is not implemented.        *)
Square == <<<<7, 7>>, <<7, 7>>>>
Broken(bytes) == Framed([bytes |-> bytes, rows |-> <<>>, pieces |-> <<>>], Square, FALSE)

Odd ==
    { Broken(<<2, 0, 2, 0>> \o rest) : rest \in {
        <<2>> \o SegmentBytes(Segment(1, <<Literal(<<7, 7>>)>>), TRUE),
        <<0>> \o SegmentBytes(Segment(2, <<Repeated(<<7, 7>>)>>), TRUE) \o <<255>>,
        <<1>> \o SegmentBytes(Segment(1, <<Repeated(<<7, 7, 7, 7, 7>>)>>), TRUE),
        <<0, 0, 128, 0, 1>> \o RunBytesOf(Literal(<<7, 7>>)),
        <<1, 0, 0>>, <<1, 0, 128, 0, 9, 2>>, <<1>>, <<0>> \o PLAN } }
    \union {Broken(Plane(Square, bits, Each(Flat(Square))).bytes) : bits \in {0, 2, 3, 5, 9}}
    \union {Broken(<<2, 0, 2, 0, 0>> \o PLNR \o <<200, 0, 0, 0, 0, 0, 0, 0, 0>>)}
    \union {Broken(<<0, 0, 2, 0, 255>>)}

Long4 == Framed(Plane(Square, 4, Each(Flat(Square))), Square, TRUE)

(* Chunks of one small frame: the first is shorter than what is read to    *)
(* count the frames.                                                       *)
Tiny ==
    UNION {{Framed(packed, rows, TRUE) : packed \in Styles(rows)} :
             rows \in {<<<<Undrawn, Undrawn>>>>, <<<<Undrawn>>, <<7>>>>, <<<<7, 9, 7, 9, 7>>>>}}

(* A drawing is the first frame or the last one of its chunk.              *)
MCEntries ==
    {Chunk(<<drawing>>) : drawing \in Tiny} \union
    {Chunk(<<drawing, Long4>>) : drawing \in Drawings \union PlaneDrawings \union Odd}
    \union {Chunk(<<Long4, drawing>>) : drawing \in Drawings \union Wide \union Odd}
=============================================================================
