--------------------------- MODULE GffWriterProofs ---------------------------
(***************************************************************************)
(* Proofs about GffWriter, for any number of types, chunks, payloads,      *)
(* operations and crashes.  Types, for every file; and for files whose     *)
(* table of contents is last the layout, so that no listed or cached chunk *)
(* is ever lost; what a file opens as, which is the last completed lists   *)
(* and nothing else; and that the writer, step by step, implements the     *)
(* image of a file that GffImage promises.                                 *)
(***************************************************************************)
EXTENDS GffWriter, FiniteSetTheorems, TLAPS

(***************************************************************************)
(* Lemmas about pieces, overlap and flushing.                              *)
(***************************************************************************)

(* A piece that starts behind a chunk does not touch its bytes.            *)
LEMMA BehindIsClear ==
    ASSUME NEW c \in Chunk, NEW y, y.at \in Nat, End(c) <= y.at, NEW p
    PROVE  ~Overlap(Data(c, p), y)
  BY DEF Chunk, End, Overlap, Data, Extent

(* The file header does not touch a chunk behind it.                       *)
LEMMA HeaderIsClear ==
    ASSUME NEW c \in Chunk, HeaderLen <= c.location, NEW y,
           y.at = 0, y.len = HeaderLen, NEW p
    PROVE  ~Overlap(Data(c, p), y)
  BY DEF Chunk, Overlap, Data, Extent, HeaderLen

(* Chunks that lie apart do not touch each other.                          *)
LEMMA ApartIsClear ==
    ASSUME NEW c \in Chunk, NEW e \in Chunk, Apart(c, e), NEW p, NEW q
    PROVE  ~Overlap(Data(c, p), Data(e, q))
  BY DEF Chunk, Apart, End, Overlap, Data, Extent

Clear(c, y) == \A p \in Payload : ~Overlap(Data(c, p), y)
Same(c, y) == \E p \in Payload : Length[p] = c.length /\ y = Data(c, p)

(* Writing pieces that miss a chunk, or rewrite it, leaves it whole.       *)
LEMMA WholeAfter ==
    ASSUME NEW d, NEW w, NEW c, Whole(d, c),
           \A y \in w : Clear(c, y) \/ Same(c, y)
    PROVE  Whole(After(d, w), c)
<1>1. CASE \E y \in w : Same(c, y)
  BY <1>1 DEF Same, Whole, After
<1>2. CASE \A y \in w : Clear(c, y)
  BY <1>2 DEF Clear, Whole, After, Torn
<1>3. QED
  BY <1>1, <1>2

LEMMA WholeTorn ==
    ASSUME NEW d, NEW w, NEW c, Whole(d, c), \A y \in w : Clear(c, y)
    PROVE  Whole(Torn(d, w), c)
  BY DEF Clear, Whole, Torn

(* What a flush does to the size of the file.                              *)
LEMMA SizeAfterNone ==
    ASSUME NEW s \in Nat
    PROVE  SizeAfter(s, {}) = s
  BY DEF SizeAfter, Max

LEMMA SizeAfterOne ==
    ASSUME NEW s \in Nat, NEW x, x.at \in Nat, x.len \in Nat
    PROVE  /\ SizeAfter(s, {x}) \in Nat
           /\ s <= SizeAfter(s, {x})
           /\ x.len > 0 => x.at + x.len <= SizeAfter(s, {x})
<1>1. CASE x.len > 0
  <2> DEFINE e == x.at + x.len
             S == {s} \cup {y.at + y.len : y \in {z \in {x} : z.len > 0}}
             m == IF s >= e THEN s ELSE e
  <2>1. S = {s, e}
    BY <1>1
  <2>2. m \in S /\ \A y \in S : m >= y
    BY <2>1
  <2>3. Max(S) \in S /\ \A y \in S : Max(S) >= y
    BY <2>2 DEF Max
  <2>4. SizeAfter(s, {x}) = Max(S)
    BY DEF SizeAfter
  <2>5. QED
    BY <2>1, <2>3, <2>4
<1>2. CASE ~(x.len > 0)
  <2>1. {s} \cup {y.at + y.len : y \in {z \in {x} : z.len > 0}} = {s}
    BY <1>2
  <2>2. SizeAfter(s, {x}) = s
    BY <2>1 DEF SizeAfter, Max
  <2>3. QED
    BY <1>2, <2>2
<1>3. QED
  BY <1>1, <1>2

(* What a flush does to the published lists.                               *)
LEMMA ListedAfterOther ==
    ASSUME NEW l, NEW w, \A x \in w : x.what.kind # "lists"
    PROVE  ListedAfter(l, w) = l
  BY DEF ListedAfter

LEMMA ListedAfterLists ==
    ASSUME NEW l, NEW x, x.what.kind = "lists"
    PROVE  ListedAfter(l, {x}) = [types |-> x.what.types, chunks |-> x.what.chunks]
  BY DEF ListedAfter
(***************************************************************************)
(* Types.                                                                  *)
(***************************************************************************)

LEMMA ListBytesNat ==
    ASSUME NEW g \in Directory, FiniteLists(g)
    PROVE  /\ Cardinality(g.types) \in Nat
           /\ ListBytes(g) \in Nat /\ FreeBytes(g) \in Nat
<1>1. Cardinality(g.types) \in Nat /\ Cardinality(g.seg) \in Nat
      /\ Cardinality(g.chunks) \in Nat
  BY FS_CardinalityType DEF FiniteLists
<1>2. ListBytes(g) \in Nat
  BY <1>1 DEF ListBytes, ListLen, ChunkLen, SegLen
<1>3. FreeBytes(g) \in Nat
  BY DEF FreeBytes, TocBufSize, Directory
<1>4. QED
  BY <1>1, <1>2, <1>3

(* The pieces write_toc writes are extents.                                *)
LEMMA PieceTypes ==
    ASSUME NEW g \in Directory, FiniteLists(g)
    PROVE  Toc(g) \subseteq Extents
<1> USE DEF Extents, What, Extent
<1>1. Header(g) \in Extents
  BY DEF Header, HeaderLen, Directory
<1>2. TocHeader(g) \in Extents
  BY DEF TocHeader, TocHeaderLen, Directory
<1>3. TypeCount(g) \in Extents
  BY ListBytesNat DEF TypeCount, TypesOffset, CountLen, Directory
<1>4. Lists(g) \in Extents
  BY ListBytesNat DEF Lists, TypesOffset, CountLen, Directory
<1>5. QED
  BY <1>1, <1>2, <1>3, <1>4 DEF Toc

LEMMA DataType ==
    ASSUME NEW c \in Chunk, NEW p \in Payload
    PROVE  Data(c, p) \in Extents
  BY DEF Data, Extent, Extents, What, Chunk

(* What the kinds of extents carry.                                        *)
LEMMA WhatOf ==
    ASSUME NEW x \in Extents
    PROVE  /\ x.at \in Nat /\ x.len \in Nat
           /\ x.what.kind = "header" =>
                 x.what.toc_location \in Nat /\ x.what.toc_length \in Nat
           /\ x.what.kind = "toc" => x.what.free_list_offset \in Nat
           /\ x.what.kind = "lists" =>
                 /\ x.what.types \subseteq Type /\ x.what.seg \subseteq Type
                 /\ x.what.chunks \subseteq Chunk
  BY DEF Extents, What

(* What stands for the lists of a directory without types.                 *)
LEMMA NoListsIsEmpty ==
    /\ NoLists \in Extents /\ NoLists.what.kind = "lists"
    /\ NoLists.what.types = {} /\ NoLists.what.seg = {} /\ NoLists.what.chunks = {}
    /\ FiniteLists(NoLists.what)
<1> DEFINE w == [kind |-> "lists", types |-> {}, seg |-> {}, chunks |-> {}]
<1>1. NoLists = [at |-> 0, len |-> 0, what |-> w]
  BY DEF NoLists, Extent
<1>2. w \in What
  BY DEF What
<1>3. w.kind = "lists" /\ w.types = {} /\ w.seg = {} /\ w.chunks = {}
  OBVIOUS
<1> HIDE DEF w
<1>4. QED
  BY <1>1, <1>2, <1>3, FS_EmptySet DEF Extents, FiniteLists

(* A directory read from well-typed extents is a directory.                *)
LEMMA DirectoryTypes ==
    ASSUME NEW d, d \subseteq Extents, NEW g \in Directories(d)
    PROVE  /\ g \in Directory
           /\ \E h \in Piece(d, "header"), t \in Piece(d, "toc"),
                 x \in Piece(d, "lists") \cup {NoLists} :
                /\ g.toc_location = h.what.toc_location
                /\ t.at = g.toc_location
                /\ g.types = x.what.types /\ g.seg = x.what.seg
                /\ g.chunks = x.what.chunks
<1>1. PICK h \in Piece(d, "header"), t \in Piece(d, "toc"),
           n \in Piece(d, "count"), x \in Piece(d, "lists") \cup {NoLists} :
         /\ g = [toc_location |-> h.what.toc_location,
                  toc_length |-> h.what.toc_length,
                  free_list_offset |-> t.what.free_list_offset,
                  types |-> x.what.types, seg |-> x.what.seg,
                  chunks |-> x.what.chunks]
         /\ t.at = h.what.toc_location
  BY DEF Directories
<1>2. h \in Extents /\ h.what.kind = "header" /\ t \in Extents
      /\ t.what.kind = "toc" /\ x \in Extents /\ x.what.kind = "lists"
  BY NoListsIsEmpty DEF Piece
<1>3. g \in Directory
  BY <1>1, <1>2, WhatOf DEF Directory
<1>4. QED
  BY <1>1, <1>3

(* A flush keeps the file well typed.                                      *)
LEMMA FlushTypes ==
    ASSUME TypeOK, Finite, NEW w, w \subseteq Extents,
           \A x, y \in w : x = y,
           \A x \in Piece(w, "lists") : FiniteLists(x.what)
    PROVE  /\ After(disk, w) \subseteq Extents
           /\ SizeAfter(size, w) \in Nat /\ size <= SizeAfter(size, w)
           /\ ListedAfter(listed, w) \in [types : SUBSET Type, chunks : SUBSET Chunk]
           /\ \A x \in Piece(After(disk, w), "lists") : FiniteLists(x.what)
<1>1. After(disk, w) \subseteq Extents
  BY DEF After, Torn, TypeOK
<1>2. \A x \in Piece(After(disk, w), "lists") : FiniteLists(x.what)
  BY DEF After, Torn, Piece, Finite
<1>3. CASE w = {}
  BY <1>1, <1>2, <1>3, SizeAfterNone, ListedAfterOther DEF TypeOK
<1>4. CASE w # {}
  <2>1. PICK x \in w : w = {x}
    BY <1>4
  <2>2. x \in Extents /\ x.at \in Nat /\ x.len \in Nat
    BY <2>1, WhatOf
  <2>3. SizeAfter(size, w) \in Nat /\ size <= SizeAfter(size, w)
    BY <2>1, <2>2, SizeAfterOne DEF TypeOK
  <2>4. CASE x.what.kind = "lists"
    <3>1. ListedAfter(listed, w)
            = [types |-> x.what.types, chunks |-> x.what.chunks]
      BY <2>1, <2>4, ListedAfterLists
    <3>2. x.what.types \subseteq Type /\ x.what.chunks \subseteq Chunk
      BY <2>2, <2>4, WhatOf
    <3>3. QED
      BY <3>1, <3>2, <1>1, <1>2, <2>3
  <2>5. CASE x.what.kind # "lists"
    BY <2>1, <2>5, ListedAfterOther, <1>1, <1>2, <2>3 DEF TypeOK
  <2>6. QED
    BY <2>4, <2>5
<1>5. QED
  BY <1>3, <1>4

(* Inductive form of TypeOK.                                               *)
TypeInv == TypeOK /\ Finite

LEMMA FiniteNoGff == NoGff \in Directory /\ FiniteLists(NoGff)
  BY FS_EmptySet DEF NoGff, Directory, FiniteLists

LEMMA InitTypes == Init => TypeInv
<1> SUFFICES ASSUME Init
             PROVE  TypeInv
  OBVIOUS
<1>1. gff = NoGff /\ pc = "closed" /\ buffer = {} /\ hbuffer = {}
      /\ handle = NoHandle /\ crashes = 0
  BY DEF Init
<1>2. ASSUME disk \subseteq Extents, size \in Nat,
             listed \in [types : SUBSET Type, chunks : SUBSET Chunk],
             \A x \in Piece(disk, "lists") : FiniteLists(x.what)
      PROVE  TypeInv
  BY <1>1, <1>2, FiniteNoGff DEF TypeInv, TypeOK, Finite, Pcs, Piece
<1>3. CASE /\ disk = {} /\ size = 0
           /\ listed = [types |-> {}, chunks |-> {}]
  <2>1. Piece(disk, "lists") = {}
    BY <1>3 DEF Piece
  <2>2. QED
    BY <1>2, <1>3, <2>1
<1>4. ASSUME NEW f \in ExistingFiles,
             disk = FileOf(f), size = f.size,
             listed = [types |-> f.gff.types, chunks |-> f.gff.chunks]
      PROVE  TypeInv
  <2>1. f.gff \in Directory /\ FiniteLists(f.gff) /\ f.size \in Nat
        /\ \A c \in f.gff.chunks : f.payload[c] \in Payload
    BY ExistingAssumption DEF WellFormed
  <2>2. f.gff.types \subseteq Type /\ f.gff.chunks \subseteq Chunk
    BY <2>1 DEF Directory
  <2>3. disk \subseteq Extents
    BY <1>4, <2>1, <2>2, PieceTypes, DataType DEF FileOf
  <2>4. ASSUME NEW x \in Piece(disk, "lists")
        PROVE  FiniteLists(x.what)
    <3>1. x \in FileOf(f) /\ x.what.kind = "lists"
      BY <1>4 DEF Piece
    <3>2. x = Lists(f.gff)
      BY <3>1 DEF FileOf, Toc, Header, TocHeader, TypeCount, Lists, Data, Extent
    <3>3. x.what.types = f.gff.types /\ x.what.seg = f.gff.seg
          /\ x.what.chunks = f.gff.chunks
      BY <3>2 DEF Lists, Extent
    <3>4. QED
      BY <2>1, <3>3 DEF FiniteLists
  <2>5. QED
    BY <1>2, <1>4, <2>1, <2>2, <2>3, <2>4
<1>5. QED
  BY <1>3, <1>4 DEF Init

(* A step that flushes the slot's buffer w and leaves a well-typed slot.   *)
LEMMA StepTypes ==
    ASSUME TypeInv,
           gff' \in Directory, FiniteLists(gff'), pc' \in Pcs, crashes' \in Nat,
           handle' \in Directory \cup {NoHandle},
           disk' \subseteq Extents, size' \in Nat,
           listed' \in [types : SUBSET Type, chunks : SUBSET Chunk],
           \A x \in Piece(disk', "lists") : FiniteLists(x.what),
           buffer' \subseteq Extents, \A x, y \in buffer' : x = y,
           \A x \in Piece(buffer', "lists") : FiniteLists(x.what),
           hbuffer' \subseteq Extents, \A x, y \in hbuffer' : x = y,
           \A x \in Piece(hbuffer', "lists") : FiniteLists(x.what)
    PROVE  TypeInv'
<1>1. \A x \in Piece(disk' \cup buffer' \cup hbuffer', "lists") : FiniteLists(x.what)
  BY DEF Piece
<1>2. QED
  BY <1>1 DEF TypeInv, TypeOK, Finite

FlushedTypes ==
    /\ disk' \subseteq Extents /\ size' \in Nat
    /\ listed' \in [types : SUBSET Type, chunks : SUBSET Chunk]
    /\ \A x \in Piece(disk', "lists") : FiniteLists(x.what)

BufferedTypes(w) ==
    /\ w \subseteq Extents
    /\ \A x, y \in w : x = y
    /\ \A x \in Piece(w, "lists") : FiniteLists(x.what)

LEMMA DataBuffered ==
    ASSUME NEW c \in Chunk, NEW p \in Payload
    PROVE  BufferedTypes({Data(c, p)})
<1>1. Data(c, p).what.kind = "data"
  BY DEF Data, Extent
<1>2. QED
  BY <1>1, DataType DEF BufferedTypes, Piece

LEMMA PieceBuffered ==
    ASSUME NEW g \in Directory, FiniteLists(g), NEW x \in Toc(g)
    PROVE  BufferedTypes({x})
<1>1. x \in Extents
  BY PieceTypes
<1>2. x.what.kind = "lists" => x = Lists(g)
  BY DEF Toc, Header, TocHeader, TypeCount, Extent
<1>3. x.what.kind = "lists" => FiniteLists(x.what)
  BY <1>2 DEF Lists, Extent, FiniteLists
<1>4. QED
  BY <1>1, <1>3 DEF BufferedTypes, Piece

LEMMA EmptyBuffered == BufferedTypes({})
  BY DEF BufferedTypes, Piece

LEMMA NextTypes == TypeInv /\ [Next]_vars => TypeInv'
<1> SUFFICES ASSUME TypeInv, [Next]_vars
             PROVE  TypeInv'
  OBVIOUS
<1>1. /\ gff \in Directory /\ FiniteLists(gff) /\ pc \in Pcs /\ crashes \in Nat
      /\ handle \in Directory \cup {NoHandle}
      /\ BufferedTypes(buffer) /\ BufferedTypes(hbuffer)
      /\ disk \subseteq Extents /\ size \in Nat
      /\ listed \in [types : SUBSET Type, chunks : SUBSET Chunk]
      /\ \A x \in Piece(disk, "lists") : FiniteLists(x.what)
  BY DEF TypeInv, TypeOK, Finite, BufferedTypes, Piece
<1>2. ASSUME NEW w, Flush(w), BufferedTypes(w)
      PROVE  FlushedTypes
  BY <1>2, FlushTypes DEF Flush, BufferedTypes, FlushedTypes, TypeInv
<1>3. ASSUME FlushedTypes, BufferedTypes(buffer'), BufferedTypes(hbuffer'),
             gff' \in Directory, FiniteLists(gff'), pc' \in Pcs, crashes' \in Nat,
             handle' \in Directory \cup {NoHandle}
      PROVE  TypeInv'
  BY <1>3, StepTypes DEF FlushedTypes, BufferedTypes
<1>4. ASSUME UNCHANGED <<disk, size, listed>>
      PROVE  FlushedTypes
  BY <1>1, <1>4 DEF FlushedTypes
<1>5. ASSUME NEW g \in Directories(disk)
      PROVE  g \in Directory /\ FiniteLists(g)
  <2>1. PICK x \in Piece(disk, "lists") \cup {NoLists} :
           g.types = x.what.types /\ g.seg = x.what.seg /\ g.chunks = x.what.chunks
    BY <1>1, DirectoryTypes
  <2>2. FiniteLists(x.what)
    BY <1>1, NoListsIsEmpty
  <2>3. g \in Directory
    BY <1>1, DirectoryTypes
  <2>4. QED
    BY <2>1, <2>2, <2>3 DEF FiniteLists
<1>6. NoGff \in Directory /\ FiniteLists(NoGff) /\ BufferedTypes({})
  BY FiniteNoGff, EmptyBuffered
<1>7. CASE gff_create
  <2>1. FlushedTypes
    BY <1>7 DEF gff_create, FlushedTypes, Piece
  <2>2. gff' \in Directory /\ FiniteLists(gff')
    <3>1. gff' = [toc_location |-> HeaderLen, toc_length |-> TypesOffset + CountLen,
                  free_list_offset |-> TypesOffset + CountLen,
                  types |-> {}, seg |-> {}, chunks |-> {}]
      BY <1>7 DEF gff_create, Created, NoGff
    <3>2. HeaderLen \in Nat /\ TypesOffset + CountLen \in Nat
      BY DEF HeaderLen, TypesOffset, CountLen
    <3>3. QED
      BY <3>1, <3>2, FS_EmptySet DEF Directory, FiniteLists
  <2>3. QED
    BY <1>1, <1>3, <1>7, <2>1, <2>2 DEF gff_create, Pcs
<1>8. CASE gff_open
  BY <1>1, <1>3, <1>4, <1>5, <1>8 DEF gff_open, Pcs
<1>9. CASE gff_close
  BY <1>1, <1>2, <1>3, <1>6, <1>9 DEF gff_close, Pcs
<1>10. CASE crash
  <2>1. FlushedTypes
    BY <1>1, <1>10 DEF crash, FlushedTypes, Torn, Piece
  <2>2. QED
    BY <1>1, <1>3, <1>6, <1>10, <2>1 DEF crash, Pcs
<1>11. CASE early_flush
  BY <1>1, <1>2, <1>3, <1>6, <1>11 DEF early_flush
<1>12. ASSUME NEW t \in Type, gff_add_type(t)
       PROVE  TypeInv'
  <2>1. gff' = [gff EXCEPT !.types = @ \cup {t},
                           !.toc_length = @ + ListLen,
                           !.free_list_offset = @ + ListLen]
    BY <1>12 DEF gff_add_type
  <2>2. gff' \in Directory
    <3>1. gff' = [toc_location |-> gff.toc_location,
                  toc_length |-> gff.toc_length + ListLen,
                  free_list_offset |-> gff.free_list_offset + ListLen,
                  types |-> gff.types \cup {t}, seg |-> gff.seg,
                  chunks |-> gff.chunks]
      BY <1>1, <2>1 DEF Directory
    <3>2. QED
      BY <1>1, <3>1 DEF Directory, ListLen
  <2>3. FiniteLists(gff')
    BY <1>1, <2>1, FS_AddElement DEF Directory, FiniteLists
  <2>4. QED
    BY <1>1, <1>2, <1>3, <1>6, <1>12, <2>2, <2>3 DEF gff_add_type, Pcs
<1>13. ASSUME NEW t \in Type, NEW i \in Id, RefuseDuplicate(t, i)
       PROVE  TypeInv'
  BY <1>1, <1>2, <1>3, <1>6, <1>13 DEF RefuseDuplicate
<1>14. ASSUME NEW t \in Type, NEW i \in Id, NEW p \in Payload, gff_add_chunk(t, i, p)
       PROVE  TypeInv'
  <2> DEFINE new == NewChunk(t, i, p)
             toc == TocAfterChunk(size', p)
  <2>1. Length[p] \in Nat /\ new \in Chunk
    BY <1>1, LengthAssumption DEF Directory, Chunk, NewChunk
  <2> HIDE DEF new, toc
  <2>2. FlushedTypes /\ buffer' = {Data(new, p)} /\ BufferedTypes(buffer')
    BY <1>1, <1>2, <1>14, <2>1, DataBuffered DEF gff_add_chunk, Write, new
  <2>3. toc \in Nat
    BY <1>1, <2>1, <2>2 DEF FlushedTypes, Directory, toc, TocAfterChunk, WritePos
  <2>4. gff' = [gff EXCEPT !.chunks = @ \cup {new},
                           !.toc_location = toc,
                           !.toc_length = @ + ChunkLen,
                           !.free_list_offset = @ + ChunkLen]
    BY <1>14 DEF gff_add_chunk, new, toc
  <2>5. gff' \in Directory
    <3>1. gff' = [toc_location |-> toc,
                  toc_length |-> gff.toc_length + ChunkLen,
                  free_list_offset |-> gff.free_list_offset + ChunkLen,
                  types |-> gff.types, seg |-> gff.seg,
                  chunks |-> gff.chunks \cup {new}]
      BY <1>1, <2>4 DEF Directory
    <3>2. QED
      BY <1>1, <2>1, <2>3, <3>1 DEF Directory, ChunkLen
  <2>6. FiniteLists(gff')
    BY <1>1, <2>4, FS_AddElement DEF Directory, FiniteLists
  <2>7. QED
    BY <1>1, <1>3, <1>14, <2>2, <2>5, <2>6 DEF gff_add_chunk, Pcs
<1>15. CASE write_header
  BY <1>1, <1>2, <1>3, <1>15, PieceBuffered DEF write_header, Write, Toc, Pcs
<1>16. CASE write_toc_header
  BY <1>1, <1>2, <1>3, <1>16, PieceBuffered DEF write_toc_header, Write, Toc, Pcs
<1>17. CASE write_count
  BY <1>1, <1>2, <1>3, <1>17, PieceBuffered DEF write_count, Write, Toc, Pcs
<1>18. CASE write_lists
  BY <1>1, <1>2, <1>3, <1>18, PieceBuffered DEF write_lists, Write, Toc, Pcs
<1>19. CASE exit_segmented
  <2>1. /\ After(disk, buffer) \subseteq Extents
        /\ SizeAfter(size, buffer) \in Nat
        /\ ListedAfter(listed, buffer) \in [types : SUBSET Type, chunks : SUBSET Chunk]
        /\ \A x \in Piece(After(disk, buffer), "lists") : FiniteLists(x.what)
    BY <1>1, FlushTypes DEF BufferedTypes, TypeInv
  <2>2. FlushedTypes
    BY <1>19, <2>1 DEF exit_segmented, FlushedTypes, Torn, Piece
  <2>3. QED
    BY <1>1, <1>3, <1>6, <1>19, <2>2 DEF exit_segmented, Pcs
<1>20. ASSUME NEW c \in gff.chunks, NEW p \in Payload, gff_write_chunk(c, p)
       PROVE  TypeInv'
  <2>1. c \in Chunk
    BY <1>1 DEF Directory
  <2>2. QED
    BY <1>1, <1>2, <1>3, <1>20, <2>1, DataBuffered DEF gff_write_chunk, Write
<1>21. CASE handle_open
  BY <1>1, <1>3, <1>4, <1>5, <1>21 DEF handle_open
<1>22. CASE handle_close
  BY <1>1, <1>2, <1>3, <1>6, <1>22 DEF handle_close
<1>23. ASSUME handle # NoHandle, NEW c \in handle.chunks, NEW p \in Payload,
              handle_write_chunk(c, p)
       PROVE  TypeInv'
  <2>1. c \in Chunk
    BY <1>1, <1>23 DEF Directory
  <2>2. QED
    BY <1>1, <1>2, <1>3, <1>23, <2>1, DataBuffered DEF handle_write_chunk
<1>24. CASE UNCHANGED vars
  BY <1>1, <1>3, <1>4, <1>24 DEF vars
<1>25. QED
  BY <1>7, <1>8, <1>9, <1>10, <1>11, <1>12, <1>13, <1>14, <1>15, <1>16, <1>17,
     <1>18, <1>19, <1>20, <1>21, <1>22, <1>23, <1>24 DEF Next

(* The slot's cached header and directory, the file, the buffers and the   *)
(* other handle stay well typed whatever is added, rewritten or lost.      *)
THEOREM TypeCorrect == Spec => []TypeOK
<1>1. TypeInv => TypeOK
  BY DEF TypeInv
<1>2. QED
  BY <1>1, InitTypes, NextTypes, PTL DEF Spec

------------------------------------------------------------------------------
(* Layout.                                                                  *)

LEMMA KnownTypes == ASSUME TypeInv PROVE Known \subseteq Chunk
<1>1. listed.chunks \subseteq Chunk /\ gff.chunks \subseteq Chunk
  BY DEF TypeInv, TypeOK, Directory
<1>2. HandleChunks \subseteq Chunk
  BY DEF HandleChunks, TypeInv, TypeOK, Directory
<1>3. ASSUME NEW x \in Piece(disk \cup buffer, "lists")
      PROVE  x.what.chunks \subseteq Chunk
  BY WhatOf DEF Piece, TypeInv, TypeOK
<1>4. QED
  BY <1>1, <1>2, <1>3 DEF Known, Published, Named

(* Two data pieces are equal only if they are the same chunk's.            *)
LEMMA DataInjective ==
    ASSUME NEW c \in Chunk, NEW e \in Chunk, NEW p, NEW q, Data(c, p) = Data(e, q)
    PROVE  c = e
<1>1. c.location = e.location /\ c.length = e.length
      /\ c.type = e.type /\ c.id = e.id
  BY DEF Data, Extent
<1>2. QED
  BY <1>1 DEF Chunk

LEMMA WholeFlushed ==
    ASSUME NEW d, NEW w, NEW c, Whole(d \cup w, c),
           \A y \in w : Clear(c, y) \/ Same(c, y)
    PROVE  Whole(After(d, w), c)
<1>1. CASE \E y \in w : Same(c, y)
  BY <1>1 DEF Same, Whole, After
<1>2. CASE \A y \in w : Clear(c, y)
  <2>1. PICK p \in Payload : Length[p] = c.length /\ Data(c, p) \in d \cup w
    BY DEF Whole
  <2>2. CASE Data(c, p) \in w
    BY <2>1, <2>2 DEF Whole, After
  <2>3. CASE Data(c, p) \in d
    BY <1>2, <2>1, <2>3 DEF Whole, After, Torn, Clear
  <2>4. QED
    BY <2>1, <2>2, <2>3
<1>3. QED
  BY <1>1, <1>2

(* What can be buffered, by kind.                                          *)
LEMMA BufferKinds ==
    ASSUME TypeInv, LayoutInv, NEW y \in buffer
    PROVE  /\ pc # "closed"
           /\ \/ pc = "toc" /\ y = Header(gff) /\ y.what.kind = "header"
              \/ pc = "count" /\ y = TocHeader(gff) /\ y.what.kind = "toc"
              \/ pc = "lists" /\ y = TypeCount(gff) /\ y.what.kind = "count"
              \/ pc = "idle" /\ y = Lists(gff) /\ y.what.kind = "lists"
              \/ /\ pc \in {"header", "idle"} /\ y.what.kind = "data"
                 /\ \E e \in gff.chunks, q \in Payload :
                       /\ y = Data(e, q) /\ Length[q] = e.length
                       /\ pc = "header" /\ e.length > 0 => e \notin Published
<1> USE DEF Header, TocHeader, TypeCount, Lists, Data, Extent
<1>1. BufferOK /\ buffer # {}
  BY DEF LayoutInv
<1>2. CASE /\ pc = "header"
           /\ \E c \in gff.chunks, p \in Payload :
                 /\ buffer = {Data(c, p)} /\ Length[p] = c.length
                 /\ c.length > 0 => c \notin Published
  BY <1>2
<1>3. CASE pc = "idle" /\ (buffer = {Lists(gff)} \/ IsData(buffer, gff.chunks))
  BY <1>3 DEF IsData
<1>4. QED
  BY <1>1, <1>2, <1>3 DEF BufferOK

(* The slot's buffered piece misses a known chunk or rewrites it.          *)
LEMMA BufferClear ==
    ASSUME TypeInv, LayoutInv, NEW y \in buffer, NEW c \in Known
    PROVE  Clear(c, y) \/ Same(c, y)
<1>1. c \in Chunk /\ End(c) <= gff.toc_location /\ HeaderLen <= c.location
      /\ gff.toc_location \in Nat
  BY KnownTypes, BufferKinds DEF LayoutInv, BehindChunks, ChunksApart, TypeInv, TypeOK, Directory
<1>2. CASE y = Header(gff)
  <2>1. y.at = 0 /\ y.len = HeaderLen
    BY <1>2 DEF Header, Extent
  <2>2. QED
    BY <1>1, <2>1, HeaderIsClear DEF Clear
<1>3. CASE y \in {TocHeader(gff), TypeCount(gff), Lists(gff)}
  <2>1. y.at \in Nat /\ End(c) <= y.at
    BY <1>1, <1>3 DEF TocHeader, TypeCount, Lists, Extent, TypesOffset, CountLen, End, Chunk
  <2>2. QED
    BY <1>1, <2>1, BehindIsClear DEF Clear
<1>4. ASSUME NEW e \in gff.chunks, NEW q \in Payload,
             y = Data(e, q), Length[q] = e.length
      PROVE  Clear(c, y) \/ Same(c, y)
  <2>1. e \in Known /\ e \in Chunk
    BY KnownTypes DEF Known
  <2>2. CASE e = c
    BY <1>4, <2>2 DEF Same
  <2>3. CASE e # c
    BY <1>1, <1>4, <2>1, <2>3, ApartIsClear DEF Clear, LayoutInv, ChunksApart
  <2>4. QED
    BY <2>2, <2>3
<1>5. QED
  BY <1>2, <1>3, <1>4, BufferKinds

LEMMA KnownWhole ==
    ASSUME TypeInv, LayoutInv, NEW c \in Known
    PROVE  Whole(disk \cup buffer, c)
  BY DEF LayoutInv, BytesWhole, Known, Whole

(* Flushing w adds no chunk to the lists of the disk but those w names.    *)
LEMMA NamedAfter ==
    ASSUME NEW w
    PROVE  /\ Named(After(disk, w)) \subseteq Named(disk \cup w)
           /\ ListedAfter(listed, w).chunks \subseteq listed.chunks \cup Named(w)
<1>1. Named(After(disk, w)) \subseteq Named(disk \cup w)
  BY DEF Named, After, Torn, Piece
<1>2. CASE \E x \in w : x.what.kind = "lists"
  <2> DEFINE x == CHOOSE y \in w : y.what.kind = "lists"
  <2>1. x \in w /\ x.what.kind = "lists"
    BY <1>2
  <2>2. ListedAfter(listed, w) = [types |-> x.what.types, chunks |-> x.what.chunks]
    BY <1>2 DEF ListedAfter
  <2>3. x \in Piece(w, "lists")
    BY <2>1 DEF Piece
  <2>4. x.what.chunks \subseteq Named(w)
    BY <2>3 DEF Named
  <2> HIDE DEF x
  <2>5. ListedAfter(listed, w).chunks = x.what.chunks
    BY <2>2
  <2>6. QED
    BY <1>1, <2>4, <2>5
<1>3. CASE ~\E x \in w : x.what.kind = "lists"
  BY <1>1, <1>3 DEF ListedAfter
<1>4. QED
  BY <1>2, <1>3

(* The file after the slot's buffered piece reached it.                    *)
Flushed == After(disk, buffer)
FlushedSize == SizeAfter(size, buffer)
FlushedListed == ListedAfter(listed, buffer)

LEMMA SlotFlush ==
    ASSUME TypeInv, LayoutInv
    PROVE  /\ \A c \in Known : Whole(Flushed, c)
           /\ FlushedListed.chunks \cup Named(Flushed) \subseteq Published
           /\ \A h \in Piece(Flushed, "header") :
                 /\ h.at = 0 /\ h.len = HeaderLen
                 /\ HeaderLen <= h.what.toc_location
                 /\ \A c \in Published : End(c) <= h.what.toc_location
                 /\ pc \in {"toc", "count", "lists"} =>
                       \A c \in gff.chunks : End(c) <= h.what.toc_location
<1>1. \A c \in Known : Whole(Flushed, c)
  BY KnownWhole, BufferClear, WholeFlushed DEF Flushed
<1>2. FlushedListed.chunks \cup Named(Flushed) \subseteq Published
  <2>1. Named(buffer) \subseteq Named(disk \cup buffer)
    BY DEF Named, Piece
  <2>2. QED
    BY <2>1, NamedAfter DEF Flushed, FlushedListed, Published
<1>3. ASSUME NEW h \in Piece(Flushed, "header")
      PROVE  /\ h.at = 0 /\ h.len = HeaderLen
             /\ HeaderLen <= h.what.toc_location
             /\ \A c \in Published : End(c) <= h.what.toc_location
             /\ pc \in {"toc", "count", "lists"} =>
                   \A c \in gff.chunks : End(c) <= h.what.toc_location
  <2>1. h.what.kind = "header" /\ (h \in Torn(disk, buffer) \/ h \in buffer)
    BY DEF Piece, Flushed, After
  <2>2. CASE h \in buffer
    <3>1. pc = "toc" /\ h = Header(gff)
      BY <2>1, <2>2, BufferKinds
    <3>2. h.at = 0 /\ h.len = HeaderLen /\ h.what.toc_location = gff.toc_location
      BY <3>1 DEF Header, Extent
    <3>3. QED
      BY <3>1, <3>2 DEF LayoutInv, BehindChunks, Known
  <2>3. CASE h \in Torn(disk, buffer)
    <3>1. h \in Piece(disk, "header")
      BY <2>1, <2>3 DEF Torn, Piece
    <3>2. h.at = 0 /\ h.len = HeaderLen /\ HeaderLen <= h.what.toc_location
      BY <3>1 DEF LayoutInv, HeaderAtStart
    <3>3. \A c \in Published : End(c) <= h.what.toc_location
      BY <3>1 DEF LayoutInv, BehindChunks, BeforeToc
    <3>4. ~(buffer = {Header(gff)})
      <4>1. Overlap(h, Header(gff))
        BY <3>2 DEF Overlap, Header, Extent, HeaderLen
      <4>2. QED
        BY <2>3, <4>1 DEF Torn
    <3>5. pc \in {"toc", "count", "lists"} =>
             \A c \in gff.chunks : End(c) <= h.what.toc_location
      BY <3>1, <3>4 DEF LayoutInv, BehindChunks, BeforeToc
    <3>6. QED
      BY <3>2, <3>3, <3>5
  <2>4. QED
    BY <2>1, <2>2, <2>3
<1>4. QED
  BY <1>1, <1>2, <1>3

(* The file reaches to its tables of contents.                             *)
LEMMA SlotFlushSize ==
    ASSUME TypeInv, LayoutInv
    PROVE  /\ FlushedSize \in Nat /\ size <= FlushedSize
           /\ \A x \in Piece(Flushed, "toc") : x.at <= FlushedSize
           /\ pc \in {"count", "lists", "idle"} => gff.toc_location <= FlushedSize
<1>1. FlushedSize \in Nat /\ size <= FlushedSize /\ size \in Nat
  <2>1. buffer \subseteq Extents /\ (\A x, y \in buffer : x = y)
        /\ \A x \in Piece(buffer, "lists") : FiniteLists(x.what)
    BY DEF TypeInv, TypeOK, Finite, Piece
  <2>2. QED
    BY <2>1, FlushTypes DEF FlushedSize, TypeInv, TypeOK
<1>2. ASSUME buffer = {TocHeader(gff)}
      PROVE  gff.toc_location <= FlushedSize
  <2>1. TocHeader(gff).at = gff.toc_location /\ TocHeader(gff).len = TocHeaderLen
    BY DEF TocHeader, Extent
  <2>2. gff.toc_location \in Nat /\ TocHeaderLen \in Nat /\ TocHeaderLen > 0
    BY DEF TypeInv, TypeOK, Directory, TocHeaderLen
  <2>3. gff.toc_location + TocHeaderLen <= FlushedSize
    BY <1>1, <1>2, <2>1, <2>2, SizeAfterOne DEF FlushedSize
  <2>4. QED
    BY <1>1, <2>2, <2>3
<1>3. ASSUME NEW x \in Piece(Flushed, "toc")
      PROVE  x.at <= FlushedSize
  <2>1. x.what.kind = "toc" /\ (x \in disk \/ x \in buffer)
    BY DEF Piece, Flushed, After, Torn
  <2>2. CASE x \in buffer
    <3>1. pc = "count" /\ x = TocHeader(gff)
      BY <2>1, <2>2, BufferKinds
    <3>2. buffer = {TocHeader(gff)}
      BY <2>2, <3>1 DEF TypeInv, TypeOK
    <3>3. x.at = gff.toc_location
      BY <3>1 DEF TocHeader, Extent
    <3>4. QED
      BY <1>2, <3>2, <3>3
  <2>3. CASE x \in disk
    <3>1. x.at <= size
      BY <2>1, <2>3 DEF LayoutInv, SizeReachesToc, Piece
    <3>2. x.at \in Nat
      BY <2>3, WhatOf DEF TypeInv, TypeOK
    <3>3. QED
      BY <1>1, <3>1, <3>2
  <2>4. QED
    BY <2>1, <2>2, <2>3
<1>4. pc \in {"count", "lists", "idle"} => gff.toc_location <= FlushedSize
  <2>1. gff.toc_location \in Nat
    BY DEF TypeInv, TypeOK, Directory
  <2>2. QED
    BY <1>1, <1>2, <2>1 DEF LayoutInv, SizeReachesToc
<1>5. QED
  BY <1>1, <1>3, <1>4

(* A step of the slot that flushes, adds no chunk and keeps the table of   *)
(* contents where it is.                                                   *)
LEMMA FlushStep ==
    ASSUME TypeInv, LayoutInv,
           disk' = Flushed, size' = FlushedSize, listed' = FlushedListed,
           UNCHANGED <<handle, hbuffer>>,
           BufferOK',
           gff'.chunks \subseteq gff.chunks,
           pc' = "closed" => gff'.chunks = {},
           pc' # "closed" => pc # "closed" /\ gff'.toc_location = gff.toc_location,
           \/ Piece(buffer', "lists") = {}
           \/ pc = "lists" /\ Named(buffer') \subseteq gff.chunks,
           pc' \in {"count", "lists"} => pc \in {"toc", "count", "lists"},
           pc' = "toc" => buffer' = {Header(gff')} \/ pc \in {"toc", "count", "lists"},
           pc' \in {"lists", "idle"} => pc \in {"count", "lists", "idle"},
           pc' = "count" =>
              buffer' = {TocHeader(gff')} \/ pc \in {"count", "lists", "idle"}
    PROVE  LayoutInv'
<1>1. Named(Flushed \cup buffer') \subseteq
         Named(Flushed) \cup (IF pc = "lists" THEN gff.chunks ELSE {})
  BY DEF Named, Piece
<1>2. HandleChunks' = HandleChunks
  BY DEF HandleChunks
<1>3. Published' \subseteq Published \cup (IF pc = "lists" THEN gff.chunks ELSE {})
  BY <1>1, <1>2, SlotFlush DEF Published
<1>4. Published' \subseteq Known /\ Known' \subseteq Known
  BY <1>3 DEF Known
<1>5. ChunksApart'
  BY <1>4 DEF ChunksApart, LayoutInv
<1>6. HeaderAtStart'
  BY SlotFlush DEF HeaderAtStart
<1>7. \A c \in Published' : BeforeToc(c)'
  BY <1>3, SlotFlush DEF BeforeToc
<1>8. pc \in {"toc", "count", "lists"} => \A c \in gff'.chunks : BeforeToc(c)'
  BY SlotFlush DEF BeforeToc
<1>9. BehindChunks'
  BY <1>4, <1>7, <1>8 DEF BehindChunks, LayoutInv
<1>10. BytesWhole'
  <2>1. \A c \in Known : Whole(disk', c)
    BY SlotFlush
  <2>2. \A c \in Known : Whole(disk' \cup buffer', c)
    BY <2>1 DEF Whole
  <2>3. QED
    BY <1>4, <2>1, <2>2 DEF BytesWhole, Known
<1>11. HBufferOK'
  BY DEF LayoutInv, HBufferOK, IsData
<1>12. SizeReachesToc'
  BY SlotFlushSize DEF SizeReachesToc
<1>13. QED
  BY <1>5, <1>6, <1>9, <1>10, <1>11, <1>12 DEF LayoutInv, ClosedIsEmpty

(* A data piece carries no lists, no header and no table of contents.      *)
LEMMA DataCarriesNothing ==
    ASSUME NEW c, NEW p
    PROVE  /\ \A k \in {"header", "toc", "lists"} : Piece({Data(c, p)}, k) = {}
           /\ Named({Data(c, p)}) = {}
  BY DEF Data, Extent, Piece, Named

(* The new chunk starts where the table of contents was, behind every      *)
(* known chunk; the table moves behind the new chunk.                      *)
LEMMA AddChunkStep ==
    ASSUME TypeInv, LayoutInv,
           NEW t \in Type, NEW i \in Id, NEW p \in Payload, gff_add_chunk(t, i, p)
    PROVE  LayoutInv'
<1> DEFINE new == NewChunk(t, i, p)
           toc == TocAfterChunk(size', p)
<1>1. /\ pc = "idle" /\ pc' = "header"
      /\ disk' = Flushed /\ size' = FlushedSize /\ listed' = FlushedListed
      /\ buffer' = {Data(new, p)}
      /\ handle' = handle /\ hbuffer' = hbuffer
  BY DEF gff_add_chunk, Write, Flush, Flushed, FlushedSize, FlushedListed
<1>2. gff'.chunks = gff.chunks \cup {new} /\ gff'.toc_location = toc
  BY DEF gff_add_chunk, TypeInv, TypeOK, Directory
<1>3. /\ new \in Chunk /\ new.location = gff.toc_location
      /\ new.length = Length[p] /\ Length[p] \in Nat /\ gff.toc_location \in Nat
  BY LengthAssumption DEF NewChunk, Chunk, TypeInv, TypeOK, Directory
<1>4. /\ HeaderLen <= gff.toc_location
      /\ \A c \in Known : End(c) <= new.location
  BY <1>1, <1>3 DEF LayoutInv, BehindChunks
<1>5. gff.toc_location <= toc /\ End(new) <= toc /\ toc \in Nat
  <2>1. size' \in Nat /\ gff.toc_location <= size'
    BY <1>1, SlotFlushSize
  <2>2. QED
    BY <1>3, <2>1 DEF TocAfterChunk, WritePos, End
<1> HIDE DEF new, toc
<1>6. Published' \subseteq Published
  <2>1. Named(Flushed \cup buffer') = Named(Flushed)
    BY <1>1, DataCarriesNothing DEF Named, Piece
  <2>2. HandleChunks' = HandleChunks
    BY <1>1 DEF HandleChunks
  <2>3. QED
    BY <1>1, <2>1, <2>2, SlotFlush DEF Published
<1>7. Known' \subseteq Known \cup {new}
  BY <1>2, <1>6 DEF Known
<1>8. ChunksApart'
  BY <1>3, <1>4, <1>7 DEF ChunksApart, Apart, LayoutInv
<1>9. BehindChunks'
  <2>1. \A c \in Known' : End(c) <= gff'.toc_location
    <3>1. ASSUME NEW c \in Known
          PROVE  End(c) <= toc
      <4>1. End(c) <= gff.toc_location /\ c \in Chunk
        BY <1>3, <1>4, KnownTypes
      <4>2. QED
        BY <1>3, <1>5, <4>1 DEF End, Chunk
    <3>2. QED
      BY <1>2, <1>5, <1>7, <3>1
  <2>2. HeaderLen <= gff'.toc_location
    BY <1>2, <1>3, <1>4, <1>5 DEF HeaderLen
  <2>3. \A c \in Published' : BeforeToc(c)'
    BY <1>1, <1>6, SlotFlush DEF BeforeToc
  <2>4. QED
    BY <1>1, <2>1, <2>2, <2>3 DEF BehindChunks
<1>10. HeaderAtStart'
  BY <1>1, SlotFlush DEF HeaderAtStart
<1>11. BytesWhole'
  <2>1. \A c \in Published' : Whole(disk', c)
    BY <1>1, <1>6, SlotFlush DEF Known
  <2>2. \A c \in gff.chunks : Whole(disk' \cup buffer', c)
    BY <1>1, SlotFlush DEF Known, Whole
  <2>3. Whole(disk' \cup buffer', new)
    BY <1>1, <1>3 DEF Whole
  <2>4. QED
    BY <1>2, <2>1, <2>2, <2>3 DEF BytesWhole
<1>12. BufferOK'
  <2>1. new.length > 0 => new \notin Published'
    <3>1. End(new) = new.location + new.length
      BY DEF End
    <3>2. new \in Published => End(new) <= new.location
      BY <1>4 DEF Known
    <3>3. new.location \in Nat /\ new.length \in Nat
      BY <1>3 DEF Chunk
    <3>4. QED
      BY <1>6, <3>1, <3>2, <3>3
  <2>2. QED
    BY <1>1, <1>2, <1>3, <2>1 DEF BufferOK
<1>13. HBufferOK'
  BY <1>1 DEF LayoutInv, HBufferOK, IsData
<1>14. SizeReachesToc'
  BY <1>1, SlotFlushSize DEF SizeReachesToc
<1>15. QED
  BY <1>1, <1>8, <1>9, <1>10, <1>11, <1>12, <1>13, <1>14
     DEF LayoutInv, ClosedIsEmpty

(* What the other handle has buffered misses every known chunk or          *)
(* rewrites it.                                                            *)
LEMMA HandleBuffer ==
    ASSUME TypeInv, LayoutInv, NEW y \in hbuffer
    PROVE  /\ handle # NoHandle
           /\ \E e \in handle.chunks, q \in Payload :
                 y = Data(e, q) /\ Length[q] = e.length
           /\ \A c \in Known : Clear(c, y) \/ Same(c, y)
<1>1. PICK e \in handle.chunks, q \in Payload :
         handle # NoHandle /\ y = Data(e, q) /\ Length[q] = e.length
  BY DEF LayoutInv, HBufferOK, IsData
<1>2. e \in Known /\ e \in Chunk
  BY <1>1, KnownTypes DEF Known, Published, HandleChunks
<1>3. ASSUME NEW c \in Known
      PROVE  Clear(c, y) \/ Same(c, y)
  <2>1. c \in Chunk
    BY KnownTypes
  <2>2. CASE c = e
    BY <1>1, <2>2 DEF Same
  <2>3. CASE c # e
    <3>1. Apart(c, e)
      BY <1>2, <2>3 DEF LayoutInv, ChunksApart
    <3>2. QED
      BY <1>1, <1>2, <2>1, <3>1, ApartIsClear DEF Clear
  <2>4. QED
    BY <2>2, <2>3
<1>4. QED
  BY <1>1, <1>3

(* A step that flushes what the other handle has buffered.                 *)
LEMMA HandleFlushStep ==
    ASSUME TypeInv, LayoutInv, Flush(hbuffer),
           UNCHANGED <<gff, pc, buffer>>,
           HandleChunks' \subseteq HandleChunks,
           HBufferOK'
    PROVE  LayoutInv'
<1>1. \A y \in hbuffer : y.what.kind = "data"
  BY HandleBuffer DEF Data, Extent
<1>2. \A k \in {"header", "toc", "lists"} : Piece(disk', k) \subseteq Piece(disk, k)
  BY <1>1 DEF Flush, After, Torn, Piece
<1>3. listed' = listed
  BY <1>1, ListedAfterOther DEF Flush
<1>4. Published' \subseteq Published
  <2>1. Named(disk' \cup buffer) \subseteq Named(disk \cup buffer)
    BY <1>2 DEF Named, Piece
  <2>2. QED
    BY <1>3, <2>1 DEF Published
<1>5. Known' \subseteq Known
  BY <1>4 DEF Known
<1>6. ChunksApart'
  BY <1>5 DEF LayoutInv, ChunksApart
<1>7. \A c : BeforeToc(c) => BeforeToc(c)'
  BY <1>2 DEF BeforeToc
<1>8. BehindChunks'
  BY <1>4, <1>5, <1>7 DEF LayoutInv, BehindChunks
<1>9. HeaderAtStart'
  BY <1>2 DEF LayoutInv, HeaderAtStart
<1>10. BytesWhole'
  <2>1. ASSUME NEW c \in Known, Whole(disk, c)
        PROVE  Whole(disk', c)
    BY <2>1, HandleBuffer, WholeAfter DEF Flush
  <2>2. ASSUME NEW c \in gff.chunks
        PROVE  Whole(disk' \cup buffer, c)
    <3>1. CASE Whole(disk, c)
      BY <2>1, <3>1 DEF Known, Whole
    <3>2. CASE ~Whole(disk, c)
      <4>1. Whole(disk \cup buffer, c)
        BY DEF LayoutInv, BytesWhole
      <4>2. QED
        BY <3>2, <4>1 DEF Whole
    <3>3. QED
      BY <3>1, <3>2
  <2>3. QED
    BY <1>4, <2>1, <2>2 DEF LayoutInv, BytesWhole, Known
<1>11. BufferOK'
  BY <1>4 DEF LayoutInv, BufferOK, IsData
<1>12. SizeReachesToc'
  <2>1. size' \in Nat /\ size <= size' /\ size \in Nat
    <3>1. hbuffer \subseteq Extents /\ (\A x, y \in hbuffer : x = y)
          /\ \A x \in Piece(hbuffer, "lists") : FiniteLists(x.what)
      BY DEF TypeInv, TypeOK, Finite, Piece
    <3>2. QED
      BY <3>1, FlushTypes DEF Flush, TypeInv, TypeOK
  <2>2. \A x \in Piece(disk', "toc") : x \in Piece(disk, "toc") /\ x.at \in Nat
    BY <1>2, WhatOf DEF Piece, TypeInv, TypeOK
  <2>3. gff.toc_location \in Nat
    BY DEF TypeInv, TypeOK, Directory
  <2>4. QED
    BY <2>1, <2>2, <2>3 DEF LayoutInv, SizeReachesToc
<1>13. QED
  BY <1>6, <1>8, <1>9, <1>10, <1>11, <1>12 DEF LayoutInv, ClosedIsEmpty

(* Steps that start from a closed slot: nothing is buffered.               *)
LEMMA ClosedBuffer ==
    ASSUME LayoutInv, pc = "closed"
    PROVE  buffer = {}
  BY DEF LayoutInv, BufferOK

(* What a reader finds in the file is published, and a header points to it.*)
LEMMA OpenedDirectory ==
    ASSUME TypeInv, LayoutInv, NEW g \in Directories(disk)
    PROVE  /\ g \in Directory
           /\ g.chunks \subseteq Published
           /\ HeaderLen <= g.toc_location
           /\ g.toc_location <= size
           /\ \A c \in Published : End(c) <= g.toc_location
<1>1. disk \subseteq Extents
  BY DEF TypeInv, TypeOK
<1>2. PICK h \in Piece(disk, "header"), t \in Piece(disk, "toc"),
           x \in Piece(disk, "lists") \cup {NoLists} :
         /\ g.toc_location = h.what.toc_location
         /\ t.at = g.toc_location
         /\ g.chunks = x.what.chunks
  BY <1>1, DirectoryTypes
<1>3. g \in Directory
  BY <1>1, DirectoryTypes
<1>4. g.chunks \subseteq Published
  <2>1. x \in Piece(disk \cup buffer, "lists") \/ x.what.chunks = {}
    BY <1>2, NoListsIsEmpty DEF Piece
  <2>2. g.chunks \subseteq Named(disk \cup buffer)
    BY <1>2, <2>1 DEF Named
  <2>3. QED
    BY <2>2 DEF Published
<1>5. HeaderLen <= g.toc_location
  BY <1>2 DEF LayoutInv, HeaderAtStart
<1>6. \A c \in Published : End(c) <= g.toc_location
  BY <1>2 DEF LayoutInv, BehindChunks, BeforeToc
<1>7. g.toc_location <= size
  BY <1>2 DEF LayoutInv, SizeReachesToc
<1>8. QED
  BY <1>3, <1>4, <1>5, <1>6, <1>7

LEMMA OpenStep == ASSUME TypeInv, LayoutInv, gff_open PROVE LayoutInv'
<1>1. /\ gff' \in Directories(disk) /\ pc = "closed" /\ pc' = "idle"
      /\ UNCHANGED <<disk, size, buffer, handle, hbuffer, listed>>
  BY DEF gff_open
<1>2. buffer = {} /\ buffer' = {}
  BY <1>1, ClosedBuffer
<1>3. Published' = Published
  BY <1>1 DEF Published, HandleChunks
<1>4. Known' \subseteq Known /\ gff'.chunks \subseteq Published
  BY <1>1, <1>3, OpenedDirectory DEF Known
<1>5. ChunksApart'
  BY <1>4 DEF LayoutInv, ChunksApart
<1>6. BehindChunks'
  BY <1>1, <1>3, <1>4, OpenedDirectory DEF LayoutInv, BehindChunks, BeforeToc, Known
<1>7. BytesWhole'
  BY <1>1, <1>3, <1>4 DEF LayoutInv, BytesWhole, Whole
<1>8. SizeReachesToc'
  BY <1>1, OpenedDirectory DEF LayoutInv, SizeReachesToc
<1>9. HeaderAtStart' /\ BufferOK' /\ HBufferOK'
  BY <1>1, <1>2 DEF LayoutInv, HeaderAtStart, BufferOK, HBufferOK, IsData
<1>10. QED
  BY <1>1, <1>5, <1>6, <1>7, <1>8, <1>9 DEF LayoutInv, ClosedIsEmpty

LEMMA HandleOpenStep == ASSUME TypeInv, LayoutInv, handle_open PROVE LayoutInv'
<1>1. /\ handle = NoHandle /\ handle' \in Directories(disk)
      /\ UNCHANGED <<disk, size, gff, pc, buffer, hbuffer, listed>>
  BY DEF handle_open
<1>2. hbuffer = {} /\ hbuffer' = {}
  BY <1>1 DEF LayoutInv, HBufferOK
<1>3. Published' \subseteq Published
  BY <1>1, OpenedDirectory DEF Published, HandleChunks
<1>4. Known' \subseteq Known
  BY <1>1, <1>3 DEF Known
<1>5. ChunksApart' /\ BehindChunks' /\ HeaderAtStart'
  BY <1>1, <1>3, <1>4
     DEF LayoutInv, ChunksApart, BehindChunks, HeaderAtStart, BeforeToc
<1>6. BytesWhole' /\ BufferOK'
  BY <1>1, <1>3 DEF LayoutInv, BytesWhole, BufferOK, IsData
<1>7. HBufferOK' /\ SizeReachesToc'
  BY <1>1, <1>2 DEF LayoutInv, HBufferOK, SizeReachesToc
<1>8. QED
  BY <1>1, <1>5, <1>6, <1>7 DEF LayoutInv, ClosedIsEmpty

LEMMA CreateStep == ASSUME TypeInv, LayoutInv, gff_create PROVE LayoutInv'
<1>1. /\ pc = "closed" /\ pc' = "header" /\ handle = NoHandle
      /\ disk' = {} /\ listed' = [types |-> {}, chunks |-> {}]
      /\ UNCHANGED <<buffer, handle, hbuffer>>
  BY DEF gff_create
<1>2. buffer' = {} /\ hbuffer' = {}
  BY <1>1, ClosedBuffer DEF LayoutInv, HBufferOK
<1>3. gff'.chunks = {} /\ gff'.toc_location = HeaderLen
  BY DEF gff_create, Created, NoGff
<1>4. \A k : Piece(disk' \cup buffer', k) = {} /\ Piece(disk', k) = {}
  BY <1>1, <1>2 DEF Piece
<1>5. Known' = {}
  BY <1>1, <1>3, <1>4 DEF Known, Published, HandleChunks, Named
<1>6. ChunksApart' /\ BytesWhole'
  BY <1>5 DEF ChunksApart, BytesWhole, Known
<1>7. BehindChunks' /\ HeaderAtStart' /\ SizeReachesToc'
  BY <1>1, <1>3, <1>4, <1>5
     DEF BehindChunks, HeaderAtStart, SizeReachesToc, Known, HeaderLen
<1>8. BufferOK' /\ HBufferOK'
  BY <1>2 DEF BufferOK, HBufferOK
<1>9. QED
  BY <1>3, <1>6, <1>7, <1>8 DEF LayoutInv, ClosedIsEmpty

(* The slot's process ends: its directory and buffer are gone, and of the  *)
(* file d is left, with nothing but bytes of unknown chunks missing.       *)
LEMMA StopStep ==
    ASSUME TypeInv, LayoutInv,
           pc' = "closed", gff' = NoGff, buffer' = {},
           UNCHANGED <<handle, hbuffer>>,
           \A k \in {"header", "toc", "lists"} :
              \/ Piece(disk', k) \subseteq Piece(Flushed, k)
              \/ Piece(disk', k) \subseteq Piece(disk, k),
           listed'.chunks \subseteq Published,
           \A x \in Piece(disk', "toc") : x.at <= size',
           \A c \in Published : Whole(disk', c)
    PROVE  LayoutInv'
<1>1. Piece(disk', "lists") \subseteq Piece(disk \cup buffer, "lists")
  BY DEF Piece, Flushed, After, Torn
<1>2. Published' \subseteq Published
  <2>1. buffer' = {}
    OBVIOUS
  <2>2. Piece(disk' \cup buffer', "lists") \subseteq Piece(disk \cup buffer, "lists")
    BY <1>1, <2>1
  <2>3. Named(disk' \cup buffer') \subseteq Named(disk \cup buffer)
    BY ONLY <2>2 DEF Named
  <2>4. QED
    BY <2>3 DEF Published, HandleChunks
<1>3. Known' \subseteq Published
  BY <1>2 DEF Known, NoGff
<1>4. ChunksApart'
  BY <1>3 DEF LayoutInv, ChunksApart, Known
<1>5. HeaderAtStart' /\ \A c \in Published' : BeforeToc(c)'
  BY <1>2, SlotFlush DEF LayoutInv, HeaderAtStart, BehindChunks, BeforeToc
<1>6. BehindChunks'
  BY <1>5 DEF BehindChunks
<1>7. BytesWhole'
  BY <1>2 DEF BytesWhole, NoGff
<1>8. BufferOK' /\ HBufferOK' /\ SizeReachesToc'
  BY DEF LayoutInv, BufferOK, HBufferOK, IsData, SizeReachesToc
<1>9. QED
  BY <1>4, <1>5, <1>6, <1>7, <1>8 DEF LayoutInv, ClosedIsEmpty, NoGff

(* A long piece that reached the file in part hit no published chunk.      *)
LEMMA LongIsClear ==
    ASSUME TypeInv, LayoutInv, NEW c \in Published, NEW y \in Long(buffer)
    PROVE  Clear(c, y)
<1>1. y \in buffer /\ c \in Known /\ c \in Chunk
  BY KnownTypes DEF Long, Known
<1>2. CASE y = Lists(gff)
  <2>1. y.at = gff.toc_location + TypesOffset + CountLen
    BY <1>2 DEF Lists, Extent
  <2>2. End(c) <= gff.toc_location /\ End(c) \in Nat /\ gff.toc_location \in Nat
    BY <1>1, BufferKinds
       DEF LayoutInv, BehindChunks, TypeInv, TypeOK, Directory, End, Chunk
  <2>3. y.at \in Nat /\ End(c) <= y.at
    BY <2>1, <2>2 DEF TypesOffset, CountLen
  <2>4. QED
    BY <1>1, <2>3, BehindIsClear DEF Clear
<1>3. ASSUME pc = "header", NEW e \in gff.chunks, NEW q \in Payload,
             y = Data(e, q), e.length > 0 => e \notin Published
      PROVE  Clear(c, y)
  <2>1. e \in Known /\ e \in Chunk
    BY KnownTypes DEF Known
  <2>2. CASE e.length > 0
    <3>1. Apart(c, e)
      BY <1>1, <1>3, <2>1, <2>2 DEF LayoutInv, ChunksApart
    <3>2. QED
      BY <1>1, <1>3, <2>1, <3>1, ApartIsClear DEF Clear
  <2>3. CASE ~(e.length > 0)
    BY <1>3, <2>3 DEF Clear, Overlap, Data, Extent
  <2>4. QED
    BY <2>2, <2>3
<1>4. QED
  BY <1>1, <1>2, <1>3, BufferKinds DEF Long

LEMMA CrashStep == ASSUME TypeInv, LayoutInv, crash PROVE LayoutInv'
<1>1. /\ pc' = "closed" /\ gff' = NoGff /\ buffer' = {}
      /\ disk' = disk \/ disk' = Torn(disk, Long(buffer))
      /\ UNCHANGED <<size, handle, hbuffer, listed>>
  BY DEF crash
<1>2. disk' \subseteq disk
  BY <1>1 DEF Torn
<1>3. \A k : Piece(disk', k) \subseteq Piece(disk, k)
  BY <1>2 DEF Piece
<1>4. ASSUME NEW c \in Published
      PROVE  Whole(disk', c)
  <2>1. Whole(disk, c)
    BY DEF LayoutInv, BytesWhole
  <2>2. Whole(Torn(disk, Long(buffer)), c)
    BY <2>1, LongIsClear, WholeTorn
  <2>3. QED
    BY <1>1, <2>1, <2>2
<1>5. \A x \in Piece(disk', "toc") : x.at <= size'
  BY <1>1, <1>3 DEF LayoutInv, SizeReachesToc
<1>6. listed'.chunks \subseteq Published
  BY <1>1 DEF Published
<1>7. QED
  BY <1>1, <1>3, <1>4, <1>5, <1>6, StopStep

LEMMA ExitStep == ASSUME TypeInv, LayoutInv, exit_segmented PROVE LayoutInv'
<1>1. /\ pc = "lists" /\ pc' = "closed" /\ gff' = NoGff /\ buffer' = {}
      /\ disk' = Torn(Flushed, {Lists(gff)})
      /\ size' = FlushedSize /\ listed' = FlushedListed
      /\ UNCHANGED <<handle, hbuffer>>
  BY DEF exit_segmented, Flushed, FlushedSize, FlushedListed
<1>2. \A k : Piece(disk', k) \subseteq Piece(Flushed, k)
  BY <1>1 DEF Torn, Piece
<1>3. ASSUME NEW c \in Published
      PROVE  Whole(disk', c)
  <2>1. c \in Known /\ c \in Chunk
    BY KnownTypes DEF Known
  <2>2. Lists(gff).at = gff.toc_location + TypesOffset + CountLen
    BY DEF Lists, Extent
  <2>3. End(c) <= gff.toc_location /\ End(c) \in Nat /\ gff.toc_location \in Nat
    BY <1>1, <2>1 DEF LayoutInv, BehindChunks, TypeInv, TypeOK, Directory, End, Chunk
  <2>4. Lists(gff).at \in Nat /\ End(c) <= Lists(gff).at
    BY <2>2, <2>3 DEF TypesOffset, CountLen
  <2>5. \A y \in {Lists(gff)} : Clear(c, y)
    BY <2>1, <2>4, BehindIsClear DEF Clear
  <2>6. Whole(Flushed, c)
    BY <2>1, SlotFlush
  <2>7. QED
    BY <1>1, <2>5, <2>6, WholeTorn
<1>4. \A x \in Piece(disk', "toc") : x.at <= size'
  BY <1>1, <1>2, SlotFlushSize
<1>5. listed'.chunks \subseteq Published
  BY <1>1, SlotFlush
<1>6. QED
  BY <1>1, <1>2, <1>3, <1>4, <1>5, StopStep

(* A new file, or one whose table of contents is last.                     *)
LEMMA InitLayout ==
    ASSUME \A f \in ExistingFiles : TocIsLast(f), Init
    PROVE  LayoutInv
<1>1. gff = NoGff /\ pc = "closed" /\ buffer = {} /\ hbuffer = {} /\ handle = NoHandle
  BY DEF Init
<1>2. gff.chunks = {} /\ HandleChunks = {} /\ BufferOK /\ HBufferOK
  BY <1>1 DEF NoGff, HandleChunks, BufferOK, HBufferOK
<1>3. CASE disk = {} /\ listed = [types |-> {}, chunks |-> {}]
  <2>1. \A k : Piece(disk \cup buffer, k) = {} /\ Piece(disk, k) = {}
    BY <1>1, <1>3 DEF Piece
  <2>2. Known = {} /\ Published = {}
    BY <1>2, <1>3, <2>1 DEF Known, Published, Named
  <2>3. QED
    BY <1>1, <1>2, <2>1, <2>2
       DEF LayoutInv, ClosedIsEmpty, ChunksApart, BehindChunks, HeaderAtStart,
           BytesWhole, SizeReachesToc
<1>4. ASSUME NEW f \in ExistingFiles, disk = FileOf(f), size = f.size,
             listed = [types |-> f.gff.types, chunks |-> f.gff.chunks]
      PROVE  LayoutInv
  <2>1. WellFormed(f) /\ TocIsLast(f)
    BY ExistingAssumption
  <2>2. f.gff \in Directory /\ f.gff.toc_location \in Nat /\ f.gff.chunks \subseteq Chunk
    BY <2>1 DEF WellFormed, Directory
  <2>3. ASSUME NEW x \in FileOf(f)
        PROVE  /\ x.what.kind = "header" => x = Header(f.gff)
               /\ x.what.kind = "toc" => x = TocHeader(f.gff)
               /\ x.what.kind = "lists" => x = Lists(f.gff)
    BY DEF FileOf, Toc, Header, TocHeader, TypeCount, Lists, Data, Extent
  <2>4. Named(disk \cup buffer) \subseteq f.gff.chunks
    BY <1>1, <1>4, <2>3 DEF Named, Piece, Lists, Extent
  <2>5. Known \subseteq f.gff.chunks /\ Published \subseteq f.gff.chunks
    BY <1>2, <1>4, <2>4 DEF Known, Published
  <2>6. \A h \in Piece(disk, "header") :
           h.at = 0 /\ h.len = HeaderLen /\ h.what.toc_location = f.gff.toc_location
    BY <1>4, <2>3 DEF Piece, Header, Extent
  <2>7. HeaderLen <= f.gff.toc_location
    <3>1. Header(f.gff) \in FileOf(f) /\ TocHeader(f.gff) \in FileOf(f)
      BY DEF FileOf, Toc
    <3>2. Header(f.gff) # TocHeader(f.gff)
      BY DEF Header, TocHeader, Extent
    <3>3. ~Overlap(Header(f.gff), TocHeader(f.gff))
      BY <2>1, <3>1, <3>2 DEF WellFormed
    <3>4. QED
      BY <2>2, <3>3 DEF Overlap, Header, TocHeader, Extent, HeaderLen, TocHeaderLen
  <2>8. HeaderAtStart
    BY <2>6, <2>7 DEF HeaderAtStart
  <2>9. ChunksApart
    BY <2>1, <2>5 DEF ChunksApart, WellFormed
  <2>10. BehindChunks
    BY <1>1, <2>1, <2>5, <2>6 DEF BehindChunks, BeforeToc, TocIsLast
  <2>11. BytesWhole
    <3>1. ASSUME NEW c \in f.gff.chunks
          PROVE  Whole(disk, c)
      <4>1. f.payload[c] \in Payload /\ Length[f.payload[c]] = c.length
        BY <2>1 DEF WellFormed
      <4>2. Data(c, f.payload[c]) \in disk
        BY <1>4 DEF FileOf
      <4>3. QED
        BY <4>1, <4>2 DEF Whole
    <3>2. QED
      BY <1>2, <2>5, <3>1 DEF BytesWhole
  <2>12. SizeReachesToc
    <3>1. TocHeader(f.gff) \in FileOf(f)
      BY DEF FileOf, Toc
    <3>2. f.gff.toc_location + TocHeaderLen <= f.size /\ f.size \in Nat
      BY <2>1, <3>1 DEF WellFormed, TocHeader, Extent
    <3>3. f.gff.toc_location <= size
      BY <1>4, <2>2, <3>2 DEF TocHeaderLen
    <3>4. QED
      BY <1>1, <1>4, <2>3, <3>3 DEF SizeReachesToc, Piece, TocHeader, Extent
  <2>13. QED
    BY <1>2, <2>8, <2>9, <2>10, <2>11, <2>12 DEF LayoutInv, ClosedIsEmpty
<1>5. QED
  BY <1>3, <1>4 DEF Init

(* What the pieces of write_toc carry.                                     *)
LEMMA TocCarries ==
    ASSUME NEW g
    PROVE  /\ Piece({Header(g)}, "lists") = {}
           /\ Piece({TocHeader(g)}, "lists") = {}
           /\ Piece({TypeCount(g)}, "lists") = {}
           /\ Named({Lists(g)}) = g.chunks
           /\ Piece({}, "lists") = {}
<1>1. /\ Header(g).what.kind = "header" /\ TocHeader(g).what.kind = "toc"
      /\ TypeCount(g).what.kind = "count" /\ Lists(g).what.kind = "lists"
      /\ Lists(g).what.chunks = g.chunks
  BY DEF Header, TocHeader, TypeCount, Lists, Extent
<1>2. Piece({Lists(g)}, "lists") = {Lists(g)}
  BY <1>1 DEF Piece
<1>3. Named({Lists(g)}) = g.chunks
  BY <1>1, <1>2 DEF Named
<1>4. QED
  BY <1>1, <1>3 DEF Piece

LEMMA NextLayout == TypeInv /\ LayoutInv /\ [Next]_vars => LayoutInv'
<1> SUFFICES ASSUME TypeInv, LayoutInv, [Next]_vars
             PROVE  LayoutInv'
  OBVIOUS
<1>1. ASSUME Flush(buffer)
      PROVE  disk' = Flushed /\ size' = FlushedSize /\ listed' = FlushedListed
  BY <1>1 DEF Flush, Flushed, FlushedSize, FlushedListed
<1>2. CASE gff_create
  BY <1>2, CreateStep
<1>3. CASE gff_open
  BY <1>3, OpenStep
<1>4. CASE gff_close
  <2>1. /\ Flush(buffer) /\ buffer' = {} /\ gff' = NoGff /\ pc' = "closed"
        /\ UNCHANGED <<handle, hbuffer>>
    BY <1>4 DEF gff_close
  <2>2. BufferOK' /\ gff'.chunks = {}
    BY <2>1 DEF BufferOK, NoGff
  <2>3. QED
    BY <1>1, <2>1, <2>2, TocCarries, FlushStep
<1>5. CASE crash
  BY <1>5, CrashStep
<1>6. CASE early_flush
  <2>1. CASE /\ Flush(buffer) /\ buffer' = {}
             /\ UNCHANGED <<gff, pc, handle, hbuffer, crashes>>
    <3>1. BufferOK' /\ (pc = "closed" => gff.chunks = {})
      BY <2>1 DEF BufferOK, LayoutInv, ClosedIsEmpty
    <3>2. QED
      BY <1>1, <2>1, <3>1, TocCarries, FlushStep
  <2>2. CASE /\ Flush(hbuffer) /\ hbuffer' = {}
             /\ UNCHANGED <<gff, pc, buffer, handle, crashes>>
    <3>1. HBufferOK' /\ HandleChunks' = HandleChunks
      BY <2>2 DEF HBufferOK, HandleChunks
    <3>2. QED
      BY <2>2, <3>1, HandleFlushStep
  <2>3. QED
    BY <1>6, <2>1, <2>2 DEF early_flush
<1>7. ASSUME NEW t \in Type, gff_add_type(t)
      PROVE  LayoutInv'
  <2>1. /\ pc = "idle" /\ pc' = "header" /\ Flush(buffer) /\ buffer' = {}
        /\ UNCHANGED <<handle, hbuffer>>
    BY <1>7 DEF gff_add_type
  <2>2. gff'.chunks = gff.chunks /\ gff'.toc_location = gff.toc_location
    BY <1>7 DEF gff_add_type, TypeInv, TypeOK, Directory
  <2>3. BufferOK'
    BY <2>1 DEF BufferOK
  <2>4. QED
    BY <1>1, <2>1, <2>2, <2>3, TocCarries, FlushStep
<1>8. ASSUME NEW t \in Type, NEW i \in Id, RefuseDuplicate(t, i)
      PROVE  LayoutInv'
  <2>1. /\ pc = "idle" /\ pc' = "idle" /\ Flush(buffer) /\ buffer' = {}
        /\ UNCHANGED <<gff, handle, hbuffer>>
    BY <1>8 DEF RefuseDuplicate
  <2>2. BufferOK'
    BY <2>1 DEF BufferOK
  <2>3. QED
    BY <1>1, <2>1, <2>2, TocCarries, FlushStep
<1>9. ASSUME NEW t \in Type, NEW i \in Id, NEW p \in Payload, gff_add_chunk(t, i, p)
      PROVE  LayoutInv'
  BY <1>9, AddChunkStep
<1>10. CASE write_header
  <2>1. /\ pc = "header" /\ pc' = "toc" /\ Flush(buffer) /\ buffer' = {Header(gff)}
        /\ UNCHANGED <<gff, handle, hbuffer>>
    BY <1>10 DEF write_header, Write
  <2>2. BufferOK'
    BY <2>1 DEF BufferOK
  <2>3. QED
    BY <1>1, <2>1, <2>2, TocCarries, FlushStep
<1>11. CASE write_toc_header
  <2>1. /\ pc = "toc" /\ pc' = "count" /\ Flush(buffer) /\ buffer' = {TocHeader(gff)}
        /\ UNCHANGED <<gff, handle, hbuffer>>
    BY <1>11 DEF write_toc_header, Write
  <2>2. BufferOK'
    BY <2>1 DEF BufferOK
  <2>3. QED
    BY <1>1, <2>1, <2>2, TocCarries, FlushStep
<1>12. CASE write_count
  <2>1. /\ pc = "count" /\ pc' = "lists" /\ Flush(buffer) /\ buffer' = {TypeCount(gff)}
        /\ UNCHANGED <<gff, handle, hbuffer>>
    BY <1>12 DEF write_count, Write
  <2>2. BufferOK'
    BY <2>1 DEF BufferOK
  <2>3. QED
    BY <1>1, <2>1, <2>2, TocCarries, FlushStep
<1>13. CASE write_lists
  <2>1. /\ pc = "lists" /\ pc' = "idle" /\ Flush(buffer) /\ buffer' = {Lists(gff)}
        /\ UNCHANGED <<gff, handle, hbuffer>>
    BY <1>13 DEF write_lists, Write
  <2>2. BufferOK'
    BY <2>1 DEF BufferOK
  <2>3. QED
    BY <1>1, <2>1, <2>2, TocCarries, FlushStep
<1>14. CASE exit_segmented
  BY <1>14, ExitStep
<1>15. ASSUME NEW c \in gff.chunks, NEW p \in Payload, gff_write_chunk(c, p)
       PROVE  LayoutInv'
  <2>1. /\ pc = "idle" /\ pc' = "idle" /\ Flush(buffer) /\ buffer' = {Data(c, p)}
        /\ Length[p] = c.length
        /\ UNCHANGED <<gff, handle, hbuffer>>
    BY <1>15 DEF gff_write_chunk, Write, Fits
  <2>2. BufferOK'
    BY <1>15, <2>1 DEF BufferOK, IsData
  <2>3. QED
    BY <1>1, <2>1, <2>2, DataCarriesNothing, FlushStep
<1>16. CASE handle_open
  BY <1>16, HandleOpenStep
<1>17. CASE handle_close
  <2>1. /\ handle' = NoHandle /\ Flush(hbuffer) /\ hbuffer' = {}
        /\ UNCHANGED <<gff, pc, buffer>>
    BY <1>17 DEF handle_close
  <2>2. HBufferOK' /\ HandleChunks' = {}
    BY <2>1 DEF HBufferOK, HandleChunks
  <2>3. QED
    BY <2>1, <2>2, HandleFlushStep
<1>18. ASSUME handle # NoHandle, NEW c \in handle.chunks, NEW p \in Payload,
              handle_write_chunk(c, p)
       PROVE  LayoutInv'
  <2>1. /\ Flush(hbuffer) /\ hbuffer' = {Data(c, p)} /\ Length[p] = c.length
        /\ UNCHANGED <<gff, pc, buffer, handle>>
    BY <1>18 DEF handle_write_chunk, Fits
  <2>2. HBufferOK' /\ HandleChunks' = HandleChunks
    BY <1>18, <2>1 DEF HBufferOK, HandleChunks, IsData
  <2>3. QED
    BY <2>1, <2>2, HandleFlushStep
<1>19. CASE UNCHANGED vars
  <2>1. /\ UNCHANGED <<disk, size, gff, pc, buffer, handle, hbuffer, listed>>
    BY <1>19 DEF vars
  <2>2. Published' = Published /\ Known' = Known
    BY <2>1 DEF Published, Known, HandleChunks
  <2>3. QED
    BY <2>1, <2>2
       DEF LayoutInv, ClosedIsEmpty, ChunksApart, BehindChunks, HeaderAtStart,
           BytesWhole, BufferOK, HBufferOK, SizeReachesToc, BeforeToc, IsData
<1>20. QED
  BY <1>2, <1>3, <1>4, <1>5, <1>6, <1>7, <1>8, <1>9, <1>10, <1>11, <1>12, <1>13,
     <1>14, <1>15, <1>16, <1>17, <1>18, <1>19 DEF Next

(* Files whose table of contents lies behind their chunks: the ones this   *)
(* library writes.                                                         *)
TocsAreLast == \A f \in ExistingFiles : TocIsLast(f)

(* The inductive invariant of gff_add_chunk's choice of where a chunk and  *)
(* the table of contents go.                                               *)
THEOREM LayoutInductive == ASSUME TocsAreLast PROVE Spec => [](TypeInv /\ LayoutInv)
<1>1. Init => TypeInv /\ LayoutInv
  BY InitTypes, InitLayout DEF TocsAreLast
<1>2. TypeInv /\ LayoutInv /\ [Next]_vars => TypeInv' /\ LayoutInv'
  BY NextTypes, NextLayout
<1>3. QED
  BY <1>1, <1>2, PTL DEF Spec

(* The chunks of the slot lie apart, behind the file header and before the *)
(* table of contents, however many are added, refused or rewritten.        *)
THEOREM ChunksLieApart == ASSUME TocsAreLast PROVE Spec => []Layout
<1>1. ASSUME TypeInv, LayoutInv
      PROVE  Layout
  BY <1>1 DEF LayoutInv, ClosedIsEmpty, BehindChunks, ChunksApart, Known, Layout
<1>2. QED
  BY <1>1, LayoutInductive, PTL

(* Whatever the writer was doing when it stopped, the bytes of every chunk *)
(* of the last completed lists are whole in the file.                      *)
THEOREM NoDataLost == ASSUME TocsAreLast PROVE Spec => []DataNeverLost
<1>1. TypeInv /\ LayoutInv => DataNeverLost
  BY DEF LayoutInv, BytesWhole, Published, DataNeverLost
<1>2. QED
  BY <1>1, LayoutInductive, PTL

(* Another handle's cached chunk headers name whole bytes while the slot   *)
(* moves the table of contents.                                            *)
THEOREM HandlesStayValid == ASSUME TocsAreLast PROVE Spec => []HandleStaysValid
<1>1. TypeInv /\ LayoutInv => HandleStaysValid
  BY DEF LayoutInv, BytesWhole, Published, HandleChunks, HandleStaysValid
<1>2. QED
  BY <1>1, LayoutInductive, PTL

------------------------------------------------------------------------------
(* The image of the file.                                                 *)

(***************************************************************************)
(* Pieces that share no byte.                                              *)
(***************************************************************************)

LEMMA OverlapSymmetric ==
    ASSUME NEW x, NEW y, Overlap(x, y)
    PROVE  Overlap(y, x)
  BY DEF Overlap

(* Fewer pieces are still apart and hold no table that was left behind.    *)
LEMMA FewerPieces ==
    ASSUME NEW d, NEW e, e \subseteq d
    PROVE  /\ PiecesApart(d) => PiecesApart(e)
           /\ \A k : Piece(e, k) \subseteq Piece(d, k)
           /\ \A l, loc : LastTable(d, l, loc) => LastTable(e, l, loc)
<1>1. \A k : Piece(e, k) \subseteq Piece(d, k)
  BY DEF Piece
<1>2. PiecesApart(d) => PiecesApart(e)
  BY DEF PiecesApart
<1>3. ASSUME NEW l, NEW loc, LastTable(d, l, loc)
      PROVE  LastTable(e, l, loc)
  BY <1>1, <1>3 DEF LastTable
<1>4. QED
  BY <1>1, <1>2, <1>3

(* A piece that is written tears what it touches.                          *)
LEMMA ApartAfter ==
    ASSUME NEW d, PiecesApart(d), NEW w, \A x, y \in w : x = y, \A y \in w : Shaped(y)
    PROVE  PiecesApart(After(d, w))
<1>1. \A x \in After(d, w) : Shaped(x)
  BY DEF After, Torn, PiecesApart
<1>2. ASSUME NEW x \in After(d, w), NEW y \in After(d, w), Overlap(x, y)
      PROVE  x = y
  <2>1. (x \in d /\ y \in d) \/ (x \in w /\ y \in w) => x = y
    BY <1>2 DEF PiecesApart
  <2>2. ~(x \in Torn(d, w) /\ y \in w)
    BY <1>2 DEF Torn
  <2>3. ~(x \in w /\ y \in Torn(d, w))
    BY <1>2, OverlapSymmetric DEF Torn
  <2>4. QED
    BY <2>1, <2>2, <2>3 DEF After, Torn
<1>3. QED
  BY <1>1, <1>2 DEF PiecesApart

(* Two pieces that start at the same byte and have bytes are one.          *)
LEMMA SamePlace ==
    ASSUME NEW d, PiecesApart(d), NEW x \in d, NEW y \in d,
           x.at = y.at, x.at \in Nat, x.len \in Nat, y.len \in Nat,
           x.len > 0, y.len > 0
    PROVE  x = y
  BY DEF PiecesApart, Overlap

(* There is one header, and at one place one toc and one count.            *)
LEMMA OneOfAKind ==
    ASSUME TypeInv, LayoutInv, PiecesApart(disk)
    PROVE  /\ \A x, y \in Piece(disk, "header") : x = y
           /\ \A k \in {"toc", "count"} :
                 \A x, y \in Piece(disk, k) : x.at = y.at => x = y
           /\ \A x, y \in Piece(disk, "lists") :
                 x.at = y.at /\ x.len > 0 /\ y.len > 0 => x = y
<1>1. disk \subseteq Extents
  BY DEF TypeInv, TypeOK
<1>2. \A x \in Piece(disk, "header") : x.at = 0 /\ x.len = HeaderLen /\ x \in disk
  BY DEF LayoutInv, HeaderAtStart, Piece
<1>3. \A x \in Piece(disk, "toc") : x.len = TocHeaderLen /\ x \in disk
  BY DEF PiecesApart, Shaped, Piece
<1>4. \A x \in Piece(disk, "count") : x.len = CountLen /\ x \in disk
  BY DEF PiecesApart, Shaped, Piece
<1>5. \A x, y \in Piece(disk, "header") : x = y
  BY <1>2, SamePlace DEF HeaderLen
<1>6. \A x, y \in Piece(disk, "toc") : x.at = y.at => x = y
  BY <1>1, <1>3, SamePlace, WhatOf DEF TocHeaderLen
<1>7. \A x, y \in Piece(disk, "count") : x.at = y.at => x = y
  BY <1>1, <1>4, SamePlace, WhatOf DEF CountLen
<1>8. \A x, y \in Piece(disk, "lists") :
         x.at = y.at /\ x.len > 0 /\ y.len > 0 => x = y
  BY <1>1, SamePlace, WhatOf DEF Piece
<1>9. QED
  BY <1>5, <1>6, <1>7, <1>8

(***************************************************************************)
(* What a reader finds.                                                    *)
(***************************************************************************)

(* Without types there is nothing to list.                                 *)
LEMMA NoTypesNoLists ==
    ASSUME NEW x, Sound(x), x.types = {}
    PROVE  x.seg = {} /\ x.chunks = {}
  BY DEF Sound, Keyed

(* A reader's directory, from the four pieces it reads.                    *)
Read(h, t, x) ==
    [toc_location |-> h.what.toc_location, toc_length |-> h.what.toc_length,
     free_list_offset |-> t.what.free_list_offset,
     types |-> x.what.types, seg |-> x.what.seg, chunks |-> x.what.chunks]

Agree(h, t, n, x) ==
    /\ t.at = h.what.toc_location
    /\ n.at = t.at + TypesOffset
    /\ ListsBehind(n, x)

(* The lists a reader accepts are the last that were completed.            *)
LEMMA ReadsListed ==
    ASSUME TypeInv, LayoutInv, DirectoryInv,
           NEW h \in Piece(disk, "header"), NEW n \in Piece(disk, "count"),
           NEW x \in Piece(disk, "lists") \cup {NoLists},
           n.at = h.what.toc_location + TypesOffset,
           ListsBehind(n, x)
    PROVE  /\ x.what.types = listed.types /\ x.what.chunks = listed.chunks
           /\ n.what.num_types = Cardinality(x.what.types)
           /\ n.what.num_types = 0 =>
                 x.what.types = {} /\ x.what.seg = {} /\ x.what.chunks = {}
           /\ n.what.num_types # 0 =>
                 x \in Piece(disk, "lists") /\ x.at = n.at + CountLen /\ x.len # 0
<1>1. LastTable(disk, listed, h.what.toc_location) /\ Keyed(listed)
  BY DEF DirectoryInv, NoStaleTable
<1>2. ASSUME n.what.num_types = 0
      PROVE  listed.types = {} /\ listed.chunks = {}
  <2>1. listed.types = {}
    BY <1>1, <1>2 DEF LastTable
  <2>2. QED
    BY <1>1, <2>1 DEF Keyed
<1>3. CASE x = NoLists
  <2>1. Cardinality(x.what.types) = 0
    BY <1>3, NoListsIsEmpty, FS_EmptySet
  <2>2. n.what.num_types = 0
    BY <2>1 DEF ListsBehind
  <2>3. QED
    BY <1>2, <1>3, <2>1, <2>2, NoListsIsEmpty
<1>4. CASE x # NoLists
  <2>1. /\ x \in Piece(disk, "lists") /\ x.at = n.at + CountLen
        /\ n.what.num_types = Cardinality(x.what.types)
    BY <1>4 DEF ListsBehind
  <2>2. Shaped(x) /\ x.what.kind = "lists"
    BY <2>1 DEF DirectoryInv, PiecesApart, Piece
  <2>3. x.at = h.what.toc_location + TypesOffset + CountLen
    <3>1. h.what.toc_location \in Nat /\ x.at \in Nat
      BY <2>1, WhatOf DEF TypeInv, TypeOK, Piece
    <3>2. QED
      BY <2>1, <3>1 DEF TypesOffset, CountLen
  <2>4. IsFiniteSet(x.what.types)
    BY <2>1 DEF TypeInv, Finite, FiniteLists, Piece
  <2>5. n.what.num_types = 0 =>
           x.what.types = {} /\ x.what.seg = {} /\ x.what.chunks = {}
    <3>1. n.what.num_types = 0 => x.what.types = {}
      BY <2>1, <2>4, FS_EmptySet
    <3>2. Sound(x.what)
      BY <2>2 DEF Shaped
    <3>3. QED
      BY <3>1, <3>2, NoTypesNoLists
  <2>6. CASE n.what.num_types = 0
    BY <1>2, <2>1, <2>5, <2>6
  <2>7. CASE n.what.num_types # 0
    <3>1. x.len # 0
      BY <2>1, <2>2, <2>7, FS_EmptySet DEF Shaped
    <3>2. x.len > 0
      BY <2>1, <3>1, WhatOf DEF TypeInv, TypeOK, Piece
    <3>3. QED
      BY <1>1, <2>1, <2>3, <2>7, <3>1, <3>2 DEF LastTable
  <2>8. QED
    BY <2>6, <2>7
<1>5. QED
  BY <1>3, <1>4

LEMMA DirectoriesAre ==
    ASSUME NEW d, NEW g
    PROVE  g \in Directories(d) <=>
              \E h \in Piece(d, "header"), t \in Piece(d, "toc"),
                 n \in Piece(d, "count"), x \in Piece(d, "lists") \cup {NoLists} :
                 Agree(h, t, n, x) /\ g = Read(h, t, x)
<1>1. ASSUME g \in Directories(d)
      PROVE  \E h \in Piece(d, "header"), t \in Piece(d, "toc"),
                n \in Piece(d, "count"), x \in Piece(d, "lists") \cup {NoLists} :
                   Agree(h, t, n, x) /\ g = Read(h, t, x)
  BY <1>1 DEF Directories, Agree, Read
<1>2. ASSUME NEW h \in Piece(d, "header"), NEW t \in Piece(d, "toc"),
             NEW n \in Piece(d, "count"), NEW x \in Piece(d, "lists") \cup {NoLists},
             Agree(h, t, n, x)
      PROVE  Read(h, t, x) \in Directories(d)
  <2> DEFINE q == <<h, t, n, x>>
  <2>1. q \in Piece(d, "header") \X Piece(d, "toc") \X Piece(d, "count")
              \X (Piece(d, "lists") \cup {NoLists})
    OBVIOUS
  <2>2. q[1] = h /\ q[2] = t /\ q[3] = n /\ q[4] = x
    OBVIOUS
  <2> HIDE DEF q
  <2>3. QED
    BY <1>2, <2>1, <2>2 DEF Directories, Agree, Read
<1>3. QED
  BY <1>1, <1>2

(* A reader sees the last lists, and two readers see the same directory.   *)
LEMMA OneDirectory ==
    ASSUME TypeInv, LayoutInv, DirectoryInv
    PROVE  /\ \A g \in Directories(disk) : Shows(g, listed)
           /\ \A f, g \in Directories(disk) : f = g
<1>1. ASSUME NEW h \in Piece(disk, "header"), NEW t \in Piece(disk, "toc"),
             NEW n \in Piece(disk, "count"), NEW x \in Piece(disk, "lists") \cup {NoLists},
             Agree(h, t, n, x)
      PROVE  /\ x.what.types = listed.types /\ x.what.chunks = listed.chunks
             /\ n.what.num_types = 0 => x.what.seg = {}
             /\ n.what.num_types # 0 =>
                   x \in Piece(disk, "lists") /\ x.at = n.at + CountLen /\ x.len # 0
  <2>1. n.at = h.what.toc_location + TypesOffset /\ ListsBehind(n, x)
    BY <1>1 DEF Agree
  <2>2. QED
    BY <2>1, ReadsListed
<1>2. \A g \in Directories(disk) : Shows(g, listed)
  BY <1>1, DirectoriesAre DEF Shows, Read
<1>3. ASSUME NEW f \in Directories(disk), NEW g \in Directories(disk)
      PROVE  f = g
  <2>1. PICK h1 \in Piece(disk, "header"), t1 \in Piece(disk, "toc"),
             n1 \in Piece(disk, "count"), x1 \in Piece(disk, "lists") \cup {NoLists} :
           Agree(h1, t1, n1, x1) /\ f = Read(h1, t1, x1)
    BY DirectoriesAre
  <2>2. PICK h2 \in Piece(disk, "header"), t2 \in Piece(disk, "toc"),
             n2 \in Piece(disk, "count"), x2 \in Piece(disk, "lists") \cup {NoLists} :
           Agree(h2, t2, n2, x2) /\ g = Read(h2, t2, x2)
    BY DirectoriesAre
  <2>3. PiecesApart(disk)
    BY DEF DirectoryInv
  <2>4. h1 = h2
    BY <2>3, OneOfAKind
  <2>5. t1 = t2
    BY <2>1, <2>2, <2>3, <2>4, OneOfAKind DEF Agree
  <2>6. n1 = n2
    BY <2>1, <2>2, <2>3, <2>5, OneOfAKind DEF Agree
  <2>7. x1.what.seg = x2.what.seg
    <3>1. CASE n1.what.num_types = 0
      <4>1. x1.what.seg = {}
        BY <1>1, <2>1, <3>1
      <4>2. n2.what.num_types = 0
        BY <2>6, <3>1
      <4>3. x2.what.seg = {}
        BY <1>1, <2>2, <4>2
      <4>4. QED
        BY <4>1, <4>3
    <3>2. CASE n1.what.num_types # 0
      <4>1. /\ x1 \in Piece(disk, "lists") /\ x2 \in Piece(disk, "lists")
            /\ x1.at = x2.at /\ x1.len # 0 /\ x2.len # 0
        BY <1>1, <2>1, <2>2, <2>6, <3>2
      <4>2. x1.len \in Nat /\ x2.len \in Nat
        BY <4>1, WhatOf DEF TypeInv, TypeOK, Piece
      <4>3. x1.len > 0 /\ x2.len > 0
        BY <4>1, <4>2
      <4>4. QED
        BY <2>3, <4>1, <4>3, OneOfAKind
    <3>3. QED
      BY <3>1, <3>2
  <2>8. QED
    BY <1>1, <2>1, <2>2, <2>4, <2>5, <2>7 DEF Read
<1>4. QED
  BY <1>2, <1>3

(* With nothing buffered, or nothing but a chunk's bytes, an idle slot's   *)
(* file opens as the directory the slot has in memory.                     *)
LEMMA OpensAsCached ==
    ASSUME NEW g \in Directory, Sound(g), NEW d,
           Header(g) \in d, TocHeader(g) \in d, TypeCount(g) \in d,
           g.types = {} \/ \E x \in d : ListsOf(x, g)
    PROVE  g \in Directories(d)
<1>1. /\ Header(g) \in Piece(d, "header") /\ TocHeader(g) \in Piece(d, "toc")
      /\ TypeCount(g) \in Piece(d, "count")
  BY DEF Piece, Header, TocHeader, TypeCount, Extent
<1>2. g.toc_location \in Nat
  BY DEF Directory
<1>3. ASSUME NEW x \in Piece(d, "lists") \cup {NoLists}, ListsBehind(TypeCount(g), x),
             x.what.types = g.types, x.what.seg = g.seg, x.what.chunks = g.chunks
      PROVE  g \in Directories(d)
  <2>1. Agree(Header(g), TocHeader(g), TypeCount(g), x)
    BY <1>2, <1>3 DEF Agree, Header, TocHeader, TypeCount, Extent
  <2>2. g = Read(Header(g), TocHeader(g), x)
    BY <1>3 DEF Read, Header, TocHeader, Extent, Directory
  <2>3. QED
    BY <1>1, <1>3, <2>1, <2>2, DirectoriesAre
<1>4. CASE g.types = {}
  <2>1. g.seg = {} /\ g.chunks = {}
    BY <1>4, NoTypesNoLists
  <2>2. TypeCount(g).what.num_types = 0
    BY <1>4, FS_EmptySet DEF TypeCount, Extent
  <2>3. ListsBehind(TypeCount(g), NoLists)
    BY <2>2 DEF ListsBehind
  <2>4. QED
    BY <1>3, <1>4, <2>1, <2>3, NoListsIsEmpty
<1>5. CASE \E x \in d : ListsOf(x, g)
  <2>1. PICK x \in d : ListsOf(x, g)
    BY <1>5
  <2>2. x \in Piece(d, "lists") /\ ListsBehind(TypeCount(g), x)
    BY <1>2, <2>1 DEF ListsBehind, ListsOf, TypeCount, Extent, Piece
  <2>3. QED
    BY <1>3, <2>1, <2>2 DEF ListsOf
<1>6. QED
  BY <1>4, <1>5

(* An idle slot, once its lists have left the buffer.                      *)
LEMMA IdleOpensAsCached ==
    ASSUME TypeInv, LayoutInv, DirectoryInv, pc = "idle", buffer # {Lists(gff)}
    PROVE  gff \in Directories(disk)
<1>1. Header(gff) \in disk /\ TocHeader(gff) \in disk /\ TypeCount(gff) \in disk
  BY DEF DirectoryInv, TocWritten
<1>2. gff.types = {} \/ \E x \in disk : ListsOf(x, gff)
  <2>1. ASSUME NEW x \in buffer, ListsOf(x, gff)
        PROVE  FALSE
    <3>1. x.what.kind = "lists"
      BY <2>1 DEF ListsOf
    <3>2. IsData(buffer, gff.chunks)
      BY <2>1 DEF LayoutInv, BufferOK
    <3>3. x.what.kind = "data"
      BY <2>1, <3>2 DEF IsData, Data, Extent
    <3>4. QED
      BY <3>1, <3>3
  <2>2. QED
    BY <2>1 DEF DirectoryInv, TocWritten
<1>3. gff \in Directory /\ Sound(gff)
  BY DEF TypeInv, TypeOK, DirectoryInv
<1>4. QED
  BY <1>1, <1>2, <1>3, OpensAsCached

LEMMA InvOpensAsListed ==
    ASSUME TypeInv, LayoutInv, DirectoryInv, ClosedWhole
    PROVE  OpensAsListed
<1>1. Cardinality(Directories(disk)) <= 1
  <2>1. Directories(disk) = {} \/ \E g : Directories(disk) = {g}
    BY OneDirectory
  <2>2. Cardinality(Directories(disk)) \in {0, 1}
    BY <2>1, FS_EmptySet, FS_Singleton
  <2>3. QED
    BY <2>2
<1>2. pc = "idle" => InTable \/ Directories(disk) = {gff}
  BY IdleOpensAsCached, OneDirectory DEF InTable
<1>3. ASSUME Garbage(disk, size)
      PROVE  InTable \/ crashes > 0
  <2>1. Directories(disk) = {} /\ size # 0
    BY <1>3 DEF Garbage, HeaderLen
  <2>2. CASE pc = "closed"
    <3>1. crashes # 0 /\ crashes \in Nat
      BY <2>1, <2>2 DEF ClosedWhole, TypeInv, TypeOK
    <3>2. QED
      BY <3>1
  <2>3. CASE pc # "closed"
    BY <1>2, <2>1, <2>3 DEF InTable, TypeInv, TypeOK, Pcs
  <2>4. QED
    BY <2>2, <2>3
<1>4. QED
  BY <1>1, <1>2, <1>3, OneDirectory DEF OpensAsListed, Shows

(***************************************************************************)
(* What a flush leaves of the table of contents.                           *)
(***************************************************************************)

(* A chunk's bytes lie between the file header and every table of contents.*)
LEMMA DataPlace ==
    ASSUME TypeInv, LayoutInv, NEW e \in Known, NEW q
    PROVE  /\ Data(e, q).at \in Nat /\ Data(e, q).len \in Nat
           /\ HeaderLen <= Data(e, q).at
           /\ pc # "closed" => Data(e, q).at + Data(e, q).len <= gff.toc_location
           /\ e \in Published => \A h \in Piece(disk, "header") :
                 Data(e, q).at + Data(e, q).len <= h.what.toc_location
<1>1. e \in Chunk /\ HeaderLen <= e.location
  BY KnownTypes DEF LayoutInv, ChunksApart
<1>2. Data(e, q).at = e.location /\ Data(e, q).len = e.length
  BY DEF Data, Extent
<1>3. pc # "closed" => End(e) <= gff.toc_location
  BY DEF LayoutInv, BehindChunks
<1>4. e \in Published => \A h \in Piece(disk, "header") : End(e) <= h.what.toc_location
  BY DEF LayoutInv, BehindChunks, BeforeToc
<1>5. QED
  BY <1>1, <1>2, <1>3, <1>4 DEF Chunk, End

(* The slot's buffered chunk lies before the table of contents.            *)
LEMMA BufferPlace ==
    ASSUME TypeInv, LayoutInv, NEW y \in buffer, y.what.kind = "data"
    PROVE  /\ y.at \in Nat /\ y.len \in Nat /\ HeaderLen <= y.at
           /\ y.at + y.len <= gff.toc_location
<1>1. pc # "closed" /\ \E e \in gff.chunks, q \in Payload : y = Data(e, q)
  BY BufferKinds
<1>2. gff.chunks \subseteq Known
  BY DEF Known
<1>3. QED
  BY <1>1, <1>2, DataPlace

LEMMA TocPlace ==
    ASSUME TypeInv, LayoutInv, pc # "closed"
    PROVE  /\ gff.toc_location \in Nat /\ HeaderLen <= gff.toc_location
           /\ Header(gff).at = 0 /\ Header(gff).len = HeaderLen
           /\ TocHeader(gff).at = gff.toc_location /\ TocHeader(gff).len = TocHeaderLen
           /\ TypeCount(gff).at = gff.toc_location + TypesOffset
           /\ TypeCount(gff).len = CountLen
           /\ Lists(gff).at = gff.toc_location + TypesOffset + CountLen
           /\ Lists(gff).len \in Nat
<1>1. gff \in Directory /\ FiniteLists(gff)
  BY DEF TypeInv, TypeOK, Finite
<1>2. Lists(gff).len \in Nat
  BY <1>1, ListBytesNat DEF Lists, Extent
<1>3. QED
  BY <1>1, <1>2
     DEF LayoutInv, BehindChunks, Header, TocHeader, TypeCount, Lists, Extent, Directory

(* No flush of the slot tears the part of its table that is written.       *)
LEMMA TocStays ==
    ASSUME TypeInv, LayoutInv, DirectoryInv
    PROVE  /\ pc \in {"toc", "count", "lists", "idle"} => Header(gff) \in Flushed
           /\ pc \in {"count", "lists", "idle"} => TocHeader(gff) \in Flushed
           /\ pc \in {"lists", "idle"} => TypeCount(gff) \in Flushed
           /\ pc = "idle" => \/ gff.types = {}
                             \/ \E x \in Flushed : ListsOf(x, gff)
<1>1. ASSUME NEW x \in disk \cup buffer,
             \A y \in buffer : x \in buffer \/ ~Overlap(x, y)
      PROVE  x \in Flushed
  BY <1>1 DEF Flushed, After, Torn
<1>2. \A x, y \in buffer : x = y
  BY DEF TypeInv, TypeOK
<1>3. ASSUME pc \in {"toc", "count", "lists", "idle"}
      PROVE  Header(gff) \in Flushed
  <2>1. Header(gff) \in disk \cup buffer
    BY <1>3 DEF DirectoryInv, TocWritten
  <2>2. ASSUME NEW y \in buffer, Header(gff) \notin buffer
        PROVE  ~Overlap(Header(gff), y)
    <3>1. CASE y.what.kind = "data"
      BY <1>3, <3>1, TocPlace, BufferPlace DEF Overlap, HeaderLen
    <3>2. CASE y \in {TocHeader(gff), TypeCount(gff), Lists(gff)}
      BY <1>3, <3>2, TocPlace DEF Overlap, HeaderLen, TypesOffset, CountLen
    <3>3. QED
      BY <2>2, <3>1, <3>2, BufferKinds
  <2>3. QED
    BY <1>1, <2>1, <2>2
<1>4. ASSUME pc \in {"count", "lists", "idle"}
      PROVE  TocHeader(gff) \in Flushed
  <2>1. TocHeader(gff) \in disk \cup buffer
    BY <1>4 DEF DirectoryInv, TocWritten
  <2>2. ASSUME NEW y \in buffer, TocHeader(gff) \notin buffer
        PROVE  ~Overlap(TocHeader(gff), y)
    <3>1. CASE y.what.kind = "data"
      BY <1>4, <3>1, TocPlace, BufferPlace DEF Overlap, TocHeaderLen
    <3>2. CASE y \in {TypeCount(gff), Lists(gff)}
      BY <1>4, <3>2, TocPlace DEF Overlap, TocHeaderLen, TypesOffset, CountLen
    <3>3. QED
      BY <1>4, <2>2, <3>1, <3>2, BufferKinds
  <2>3. QED
    BY <1>1, <2>1, <2>2
<1>5. ASSUME pc \in {"lists", "idle"}
      PROVE  TypeCount(gff) \in Flushed
  <2>1. TypeCount(gff) \in disk \cup buffer
    BY <1>5 DEF DirectoryInv, TocWritten
  <2>2. ASSUME NEW y \in buffer, TypeCount(gff) \notin buffer
        PROVE  ~Overlap(TypeCount(gff), y)
    <3>1. CASE y.what.kind = "data"
      BY <1>5, <3>1, TocPlace, BufferPlace DEF Overlap, TypesOffset, CountLen
    <3>2. CASE y = Lists(gff)
      BY <1>5, <3>2, TocPlace DEF Overlap, TypesOffset, CountLen
    <3>3. QED
      BY <1>5, <2>2, <3>1, <3>2, BufferKinds
  <2>3. QED
    BY <1>1, <2>1, <2>2
<1>6. ASSUME pc = "idle", gff.types # {}
      PROVE  \E x \in Flushed : ListsOf(x, gff)
  <2>1. PICK x \in disk \cup buffer : ListsOf(x, gff)
    BY <1>6 DEF DirectoryInv, TocWritten
  <2>2. CASE \E y \in buffer : y.what.kind = "data"
    <3>1. PICK y \in buffer : y.what.kind = "data"
      BY <2>2
    <3>2. x \in disk
      BY <1>2, <2>1, <3>1 DEF ListsOf
    <3>3. x.at = gff.toc_location + TypesOffset + CountLen /\ x.len \in Nat
      BY <2>1, <3>2, WhatOf DEF ListsOf, TypeInv, TypeOK
    <3>4. ~Overlap(x, y)
      BY <1>6, <3>1, <3>3, TocPlace, BufferPlace DEF Overlap, TypesOffset, CountLen
    <3>5. QED
      BY <1>1, <1>2, <2>1, <3>1, <3>4
  <2>3. CASE \E y \in buffer : y.what.kind # "data"
    <3>1. Lists(gff) \in buffer
      BY <1>6, <2>3, BufferKinds
    <3>2. Lists(gff) \in Flushed /\ ListsOf(Lists(gff), gff)
      BY <3>1 DEF Flushed, After, ListsOf, Lists, Extent
    <3>3. QED
      BY <3>2
  <2>4. CASE buffer = {}
    BY <1>1, <2>1, <2>4
  <2>5. QED
    BY <2>2, <2>3, <2>4
<1>7. QED
  BY <1>3, <1>4, <1>5, <1>6

(* Everything listed is in the directory.                                  *)
LEMMA ListedInDirectory ==
    ASSUME NEW g, NEW l, OneAhead(g, l)
    PROVE  l.types \subseteq g.types /\ l.chunks \subseteq g.chunks
  BY DEF OneAhead, Shows

LEMMA NothingListed ==
    ASSUME NEW g, NEW l, Sound(g), OneAhead(g, l), g.types = {}
    PROVE  l.types = {} /\ l.chunks = {} /\ g.chunks = {}
  BY ListedInDirectory, NoTypesNoLists

(* Lists without bytes list no type.                                       *)
LEMMA EmptyLists ==
    ASSUME NEW g \in Directory, FiniteLists(g), Lists(g).len = 0
    PROVE  g.types = {}
<1>1. /\ Cardinality(g.types) \in Nat /\ Cardinality(g.chunks) \in Nat
      /\ Cardinality(g.seg) \in Nat /\ FreeBytes(g) \in Nat
  BY ListBytesNat, FS_CardinalityType DEF FiniteLists
<1>2. Lists(g).len = ListLen * Cardinality(g.types) + ChunkLen * Cardinality(g.chunks)
                       + SegLen * Cardinality(g.seg) + FreeBytes(g)
  BY DEF Lists, ListBytes, Extent
<1>3. Cardinality(g.types) = 0
  BY <1>1, <1>2 DEF ListLen, ChunkLen, SegLen
<1>4. QED
  BY <1>3, FS_EmptySet DEF FiniteLists

LEMMA ListsShaped ==
    ASSUME NEW g \in Directory, FiniteLists(g), Sound(g)
    PROVE  Shaped(Lists(g))
<1>1. /\ Lists(g).what.types = g.types /\ Lists(g).what.seg = g.seg
      /\ Lists(g).what.chunks = g.chunks /\ Lists(g).what.kind = "lists"
  BY DEF Lists, Extent
<1>2. Sound(Lists(g).what)
  BY <1>1 DEF Sound, Keyed
<1>3. QED
  BY <1>1, <1>2, EmptyLists DEF Shaped

(* The other pieces of a file.                                             *)
LEMMA OthersShaped ==
    /\ \A g : Shaped(Header(g)) /\ Shaped(TocHeader(g)) /\ Shaped(TypeCount(g))
    /\ \A c, p : Length[p] = c.length => Shaped(Data(c, p))
  BY DEF Shaped, Header, TocHeader, TypeCount, Data, Extent

LEMMA BufferShaped ==
    ASSUME TypeInv, LayoutInv, DirectoryInv, NEW y \in buffer
    PROVE  Shaped(y)
<1>1. Shaped(Lists(gff))
  BY ListsShaped DEF TypeInv, TypeOK, Finite, DirectoryInv
<1>2. QED
  BY <1>1, BufferKinds, OthersShaped

(* Once write_header's piece has reached the disk, it is the only header.  *)
LEMMA HeaderIsOurs ==
    ASSUME TypeInv, LayoutInv, DirectoryInv, pc \in {"count", "lists", "idle"},
           NEW h \in Piece(disk, "header")
    PROVE  h.what.toc_location = gff.toc_location
<1>1. Header(gff) \in Piece(disk, "header")
  BY DEF DirectoryInv, TocWritten, Piece, Header, Extent
<1>2. h = Header(gff)
  BY <1>1, OneOfAKind DEF DirectoryInv
<1>3. QED
  BY <1>2 DEF Header, Extent

(* A count of no types is the count of a directory that has none.          *)
LEMMA CountsTypes ==
    ASSUME TypeInv, DirectoryInv, pc # "closed", TypeCount(gff).what.num_types = 0
    PROVE  gff.types = {} /\ listed.types = {}
<1>1. Cardinality(gff.types) = 0 /\ IsFiniteSet(gff.types)
  BY DEF TypeCount, Extent, TypeInv, Finite, FiniteLists
<1>2. gff.types = {}
  BY <1>1, FS_EmptySet
<1>3. QED
  BY <1>2, NothingListed DEF DirectoryInv, ListedInStep

(* The last piece of write_toc replaces the last lists by its own.         *)
LEMMA ListsFlushed ==
    ASSUME TypeInv, LayoutInv, DirectoryInv, Lists(gff) \in buffer
    PROVE  /\ pc = "idle" /\ FlushedListed = [types |-> gff.types, chunks |-> gff.chunks]
           /\ LastTable(Flushed, FlushedListed, gff.toc_location)
           /\ \A h \in Piece(Flushed, "header") : h \in Piece(disk, "header")
<1>1. /\ buffer = {Lists(gff)} /\ Lists(gff).what.kind = "lists"
      /\ Lists(gff).what.types = gff.types /\ Lists(gff).what.chunks = gff.chunks
  BY DEF TypeInv, TypeOK, Lists, Extent
<1>2. pc = "idle"
  BY <1>1, BufferKinds
<1>3. FlushedListed = [types |-> gff.types, chunks |-> gff.chunks]
  BY <1>1, ListedAfterLists DEF FlushedListed
<1>4. LastTable(disk, listed, gff.toc_location)
  BY <1>2 DEF DirectoryInv, NoStaleTable
<1>5. ASSUME NEW x \in Piece(Flushed, "lists")
      PROVE  /\ x.at <= gff.toc_location + TypesOffset + CountLen
             /\ x.at = gff.toc_location + TypesOffset + CountLen /\ x.len > 0 =>
                  x.what.types = gff.types /\ x.what.chunks = gff.chunks
  <2>1. CASE x = Lists(gff)
    BY <1>1, <1>2, <2>1, TocPlace DEF TypesOffset, CountLen
  <2>2. CASE x \in Torn(disk, buffer)
    <3>1. x \in Piece(disk, "lists") /\ ~Overlap(x, Lists(gff))
      BY <1>1, <2>2 DEF Torn, Piece
    <3>2. ASSUME x.at = gff.toc_location + TypesOffset + CountLen, x.len > 0
          PROVE  x.what.types = gff.types /\ x.what.chunks = gff.chunks
      <4>1. Lists(gff).len = 0
        <5>1. /\ x.len \in Nat /\ x.at \in Nat /\ x.at = Lists(gff).at
              /\ Lists(gff).len \in Nat
          BY <1>2, <3>1, <3>2, TocPlace, WhatOf DEF TypeInv, TypeOK, Piece
        <5>2. QED
          BY <3>1, <3>2, <5>1 DEF Overlap
      <4>2. gff.types = {} /\ Sound(gff) /\ OneAhead(gff, listed)
        BY <1>2, <4>1, EmptyLists
           DEF DirectoryInv, ListedInStep, TypeInv, TypeOK, Finite
      <4>3. listed.types = {} /\ listed.chunks = {} /\ gff.chunks = {}
        BY <4>2, NothingListed
      <4>4. QED
        BY <1>4, <3>1, <3>2, <4>2, <4>3 DEF LastTable
    <3>3. QED
      BY <1>4, <3>1, <3>2 DEF LastTable
  <2>3. QED
    BY <1>1, <2>1, <2>2 DEF Flushed, After, Piece
<1>6. ASSUME NEW x \in Piece(Flushed, "count")
      PROVE  /\ x.at <= gff.toc_location + TypesOffset
             /\ x.at = gff.toc_location + TypesOffset /\ x.what.num_types = 0 =>
                  gff.types = {}
  <2>1. x \in Piece(disk, "count")
    BY <1>1 DEF Flushed, After, Torn, Piece
  <2>2. TypeCount(gff) \in Piece(disk, "count")
    BY <1>2 DEF DirectoryInv, TocWritten, Piece, TypeCount, Extent
  <2>3. ASSUME x.at = gff.toc_location + TypesOffset, x.what.num_types = 0
        PROVE  gff.types = {}
    <3>1. x = TypeCount(gff)
      BY <1>2, <2>1, <2>2, <2>3, OneOfAKind, TocPlace DEF DirectoryInv
    <3>2. QED
      BY <1>2, <2>3, <3>1, CountsTypes
  <2>4. QED
    BY <1>4, <2>1, <2>3 DEF LastTable
<1>7. \A h \in Piece(Flushed, "header") : h \in Piece(disk, "header")
  BY <1>1 DEF Flushed, After, Torn, Piece
<1>8. QED
  BY <1>2, <1>3, <1>5, <1>6, <1>7 DEF LastTable

(* Any other piece leaves the last lists the last.                         *)
LEMMA OtherFlushed ==
    ASSUME TypeInv, LayoutInv, DirectoryInv, Lists(gff) \notin buffer
    PROVE  /\ FlushedListed = listed
           /\ pc # "closed" => LastTable(Flushed, listed, gff.toc_location)
           /\ \A h \in Piece(Flushed, "header") :
                 LastTable(Flushed, listed, h.what.toc_location)
<1>1. \A y \in buffer : y.what.kind # "lists"
  BY BufferKinds
<1>2. FlushedListed = listed
  BY <1>1, ListedAfterOther DEF FlushedListed
<1>3. Piece(Flushed, "lists") \subseteq Piece(disk, "lists")
  BY <1>1 DEF Flushed, After, Torn, Piece
<1>4. ASSUME NEW x \in Piece(Flushed, "count"), x \notin disk
      PROVE  pc = "lists" /\ x = TypeCount(gff)
  <2>1. x \in buffer /\ x.what.kind = "count"
    BY <1>4 DEF Flushed, After, Torn, Piece
  <2>2. QED
    BY <2>1, BufferKinds
<1>5. ASSUME NEW loc, LastTable(disk, listed, loc),
             pc = "lists" => loc = gff.toc_location
      PROVE  LastTable(Flushed, listed, loc)
  <2>1. ASSUME NEW x \in Piece(Flushed, "count")
        PROVE  /\ x.at <= loc + TypesOffset
               /\ x.at = loc + TypesOffset /\ x.what.num_types = 0 => listed.types = {}
    <3>1. CASE x \in disk
      <4>1. x \in Piece(disk, "count")
        BY <3>1 DEF Piece
      <4>2. QED
        BY <1>5, <4>1 DEF LastTable
    <3>2. CASE x \notin disk
      <4>1. pc = "lists" /\ x = TypeCount(gff) /\ loc = gff.toc_location
        BY <1>4, <1>5, <3>2
      <4>2. x.at = gff.toc_location + TypesOffset /\ gff.toc_location \in Nat
        BY <4>1, TocPlace
      <4>3. QED
        BY <4>1, <4>2, CountsTypes DEF TypesOffset
    <3>3. QED
      BY <3>1, <3>2
  <2>2. QED
    BY <1>3, <1>5, <2>1 DEF LastTable
<1>6. pc # "closed" => LastTable(Flushed, listed, gff.toc_location)
  BY <1>5 DEF DirectoryInv, NoStaleTable
<1>7. ASSUME NEW h \in Piece(Flushed, "header")
      PROVE  LastTable(Flushed, listed, h.what.toc_location)
  <2>1. CASE h \in disk
    <3>1. h \in Piece(disk, "header")
      BY <2>1 DEF Piece
    <3>2. QED
      BY <1>5, <3>1, HeaderIsOurs DEF DirectoryInv, NoStaleTable
  <2>2. CASE h \notin disk
    <3>1. h \in buffer /\ h.what.kind = "header"
      BY <2>2 DEF Flushed, After, Torn, Piece
    <3>2. pc = "toc" /\ h = Header(gff)
      BY <3>1, BufferKinds
    <3>3. h.what.toc_location = gff.toc_location
      BY <3>2 DEF Header, Extent
    <3>4. QED
      BY <1>6, <3>2, <3>3
  <2>3. QED
    BY <2>1, <2>2
<1>8. QED
  BY <1>2, <1>6, <1>7

(* What holds of the file once the slot's buffer has reached it.           *)
LEMMA FlushDirectory ==
    ASSUME TypeInv, LayoutInv, DirectoryInv
    PROVE  /\ PiecesApart(Flushed)
           /\ Keyed(FlushedListed)
           /\ HandleChunks \subseteq FlushedListed.chunks
           /\ pc # "closed" => OneAhead(gff, FlushedListed)
           /\ pc = "idle" => Shows(gff, FlushedListed)
           /\ pc # "closed" => LastTable(Flushed, FlushedListed, gff.toc_location)
           /\ \A h \in Piece(Flushed, "header") :
                 LastTable(Flushed, FlushedListed, h.what.toc_location)
<1>1. PiecesApart(Flushed)
  <2>1. \A x, y \in buffer : x = y
    BY DEF TypeInv, TypeOK
  <2>2. QED
    BY <2>1, BufferShaped, ApartAfter DEF Flushed, DirectoryInv
<1>2. CASE Lists(gff) \in buffer
  <2>1. pc = "idle" /\ FlushedListed.types = gff.types /\ FlushedListed.chunks = gff.chunks
    BY <1>2, ListsFlushed
  <2>2. Shows(gff, FlushedListed) /\ OneAhead(gff, FlushedListed)
    BY <2>1 DEF Shows, OneAhead
  <2>3. Keyed(FlushedListed)
    BY <2>1 DEF DirectoryInv, Sound, Keyed
  <2>4. HandleChunks \subseteq FlushedListed.chunks
    BY <2>1, ListedInDirectory DEF DirectoryInv, ListedInStep
  <2>5. \A h \in Piece(Flushed, "header") : h.what.toc_location = gff.toc_location
    BY <1>2, <2>1, ListsFlushed, HeaderIsOurs
  <2>6. QED
    BY <1>1, <1>2, <2>2, <2>3, <2>4, <2>5, ListsFlushed
<1>3. CASE Lists(gff) \notin buffer
  <2>1. FlushedListed = listed
    BY <1>3, OtherFlushed
  <2>2. pc = "idle" => Shows(gff, listed)
    BY <1>3 DEF DirectoryInv, ListedInStep
  <2>3. QED
    BY <1>1, <1>3, <2>1, <2>2, OtherFlushed DEF DirectoryInv, ListedInStep
<1>4. QED
  BY <1>2, <1>3

(* A step of the slot that flushes and leaves its table where it is.       *)
LEMMA SlotStep ==
    ASSUME TypeInv, LayoutInv, DirectoryInv,
           disk' = Flushed, listed' = FlushedListed, HandleChunks' = HandleChunks,
           Sound(gff'),
           pc' # "closed" => /\ pc # "closed"
                             /\ gff'.toc_location = gff.toc_location
                             /\ OneAhead(gff', FlushedListed),
           pc' = "idle" => buffer' = {Lists(gff')} \/ Shows(gff', FlushedListed),
           TocWritten'
    PROVE  DirectoryInv'
<1>1. NoStaleTable'
  BY FlushDirectory DEF NoStaleTable
<1>2. ListedInStep'
  BY FlushDirectory DEF ListedInStep
<1>3. QED
  BY <1>1, <1>2, FlushDirectory DEF DirectoryInv

(* A chunk rewritten in place touches no part of the table of contents.    *)
LEMMA DataMissesToc ==
    ASSUME TypeInv, LayoutInv, pc # "closed", NEW e \in Known, NEW q
    PROVE  /\ ~Overlap(Header(gff), Data(e, q))
           /\ ~Overlap(TocHeader(gff), Data(e, q))
           /\ ~Overlap(TypeCount(gff), Data(e, q))
           /\ \A x \in disk : ListsOf(x, gff) => ~Overlap(x, Data(e, q))
<1> DEFINE y == Data(e, q)
<1>1. /\ y.at \in Nat /\ y.len \in Nat /\ HeaderLen <= y.at
      /\ y.at + y.len <= gff.toc_location
  BY DataPlace
<1> HIDE DEF y
<1>2. ~Overlap(Header(gff), y) /\ ~Overlap(TocHeader(gff), y)
      /\ ~Overlap(TypeCount(gff), y)
  BY <1>1, TocPlace DEF Overlap, HeaderLen, TypesOffset, CountLen, TocHeaderLen
<1>3. ASSUME NEW x \in disk, ListsOf(x, gff)
      PROVE  ~Overlap(x, y)
  <2>1. x.at = gff.toc_location + TypesOffset + CountLen
    BY <1>3 DEF ListsOf
  <2>2. QED
    BY <1>1, <2>1, TocPlace DEF Overlap, TypesOffset, CountLen
<1>4. QED
  BY <1>2, <1>3 DEF y

(* A step of the other handle that flushes what it has buffered.           *)
LEMMA HandleStep ==
    ASSUME TypeInv, LayoutInv, DirectoryInv, Flush(hbuffer),
           UNCHANGED <<gff, pc, buffer>>,
           HandleChunks' \subseteq HandleChunks
    PROVE  DirectoryInv'
<1>1. ASSUME NEW y \in hbuffer
      PROVE  /\ Shaped(y) /\ y.what.kind = "data"
             /\ \E e \in Known, q \in Payload : y = Data(e, q)
  <2>1. PICK e \in HandleChunks, q \in Payload : y = Data(e, q) /\ Length[q] = e.length
    BY HandleBuffer DEF HandleChunks
  <2>2. e \in Known
    BY <2>1 DEF Known, Published
  <2>3. QED
    BY <2>1, <2>2 DEF Shaped, Data, Extent
<1>2. disk' = After(disk, hbuffer) /\ listed' = listed
  BY <1>1, ListedAfterOther DEF Flush
<1>3. PiecesApart(disk')
  <2>1. \A x, y \in hbuffer : x = y
    BY DEF TypeInv, TypeOK
  <2>2. QED
    BY <1>1, <1>2, <2>1, ApartAfter DEF DirectoryInv
<1>4. \A k \in {"header", "toc", "count", "lists"} : Piece(disk', k) \subseteq Piece(disk, k)
  BY <1>1, <1>2 DEF After, Torn, Piece
<1>5. \A loc : LastTable(disk, listed, loc) => LastTable(disk', listed, loc)
  BY <1>4 DEF LastTable
<1>6. NoStaleTable'
  BY <1>2, <1>4, <1>5 DEF DirectoryInv, NoStaleTable
<1>7. ASSUME pc # "closed", NEW x \in disk,
             x \in {Header(gff), TocHeader(gff), TypeCount(gff)} \/ ListsOf(x, gff)
      PROVE  x \in disk'
  <2>1. \A y \in hbuffer : ~Overlap(x, y)
    BY <1>1, <1>7, DataMissesToc
  <2>2. QED
    BY <1>2, <2>1 DEF After, Torn
<1>8. TocWritten'
  <2>1. ASSUME pc = "idle", gff.types # {}
        PROVE  \E x \in disk' \cup buffer : ListsOf(x, gff)
    <3>1. PICK x \in disk \cup buffer : ListsOf(x, gff)
      BY <2>1 DEF DirectoryInv, TocWritten
    <3>2. x \in disk' \cup buffer
      BY <1>7, <2>1, <3>1
    <3>3. QED
      BY <3>1, <3>2
  <2>2. QED
    BY <1>7, <2>1 DEF DirectoryInv, TocWritten
<1>9. ListedInStep'
  BY <1>2 DEF DirectoryInv, ListedInStep
<1>10. QED
  BY <1>2, <1>3, <1>6, <1>8, <1>9 DEF DirectoryInv

(* The slot's process ends and pieces are missing.                         *)
LEMMA DeadStep ==
    ASSUME TypeInv, LayoutInv, DirectoryInv,
           pc' = "closed", gff' = NoGff, UNCHANGED handle,
           \/ disk' \subseteq disk /\ listed' = listed
           \/ disk' \subseteq Flushed /\ listed' = FlushedListed
    PROVE  DirectoryInv'
<1>1. HandleChunks' = HandleChunks
  BY DEF HandleChunks
<1>2. Sound(gff') /\ TocWritten'
  BY DEF Sound, Keyed, NoGff, TocWritten
<1>3. CASE disk' \subseteq disk /\ listed' = listed
  <2>1. PiecesApart(disk') /\ NoStaleTable'
    BY <1>3, FewerPieces DEF DirectoryInv, NoStaleTable
  <2>2. QED
    BY <1>1, <1>2, <1>3, <2>1 DEF DirectoryInv, ListedInStep
<1>4. CASE disk' \subseteq Flushed /\ listed' = FlushedListed
  <2>1. PiecesApart(disk') /\ NoStaleTable'
    BY <1>4, FewerPieces, FlushDirectory DEF NoStaleTable
  <2>2. QED
    BY <1>1, <1>2, <1>4, <2>1, FlushDirectory DEF DirectoryInv, ListedInStep
<1>5. QED
  BY <1>3, <1>4

(* What an open reads are the pieces of the directory it caches.           *)
LEMMA Opened ==
    ASSUME TypeInv, LayoutInv, DirectoryInv, NEW g \in Directories(disk)
    PROVE  /\ Header(g) \in disk /\ TocHeader(g) \in disk /\ TypeCount(g) \in disk
           /\ g.types = {} \/ \E x \in disk : ListsOf(x, g)
           /\ \E h \in Piece(disk, "header") : h.what.toc_location = g.toc_location
           /\ Sound(g)
<1>1. PICK h \in Piece(disk, "header"), t \in Piece(disk, "toc"),
           n \in Piece(disk, "count"), x \in Piece(disk, "lists") \cup {NoLists} :
         Agree(h, t, n, x) /\ g = Read(h, t, x)
  BY DirectoriesAre
<1>2. h \in disk /\ t \in disk /\ n \in disk /\ disk \subseteq Extents
  BY DEF Piece, TypeInv, TypeOK
<1>3. h.what.kind = "header" /\ t.what.kind = "toc" /\ n.what.kind = "count"
  BY DEF Piece
<1>4. /\ g.toc_location = h.what.toc_location /\ g.toc_length = h.what.toc_length
      /\ g.free_list_offset = t.what.free_list_offset
      /\ g.types = x.what.types /\ g.seg = x.what.seg /\ g.chunks = x.what.chunks
  BY <1>1 DEF Read
<1>5. /\ t.at = g.toc_location /\ n.at = g.toc_location + TypesOffset
      /\ n.what.num_types = Cardinality(g.types)
      /\ n.what.num_types = 0 => g.types = {} /\ g.seg = {} /\ g.chunks = {}
      /\ n.what.num_types # 0 => x \in Piece(disk, "lists") /\ x.at = n.at + CountLen
  <2>1. /\ t.at = g.toc_location /\ n.at = g.toc_location + TypesOffset
        /\ n.at = h.what.toc_location + TypesOffset /\ ListsBehind(n, x)
    BY <1>1, <1>4 DEF Agree
  <2>2. QED
    BY <1>4, <2>1, ReadsListed
<1>6. /\ h.at = 0 /\ h.len = HeaderLen /\ t.len = TocHeaderLen /\ n.len = CountLen
  BY <1>2, <1>3 DEF LayoutInv, HeaderAtStart, DirectoryInv, PiecesApart, Shaped, Piece
<1>7. Header(g) = h
  <2>1. h.what = [kind |-> "header", toc_location |-> g.toc_location,
                  toc_length |-> g.toc_length]
    BY <1>2, <1>3, <1>4 DEF Extents, What
  <2>2. h = [at |-> 0, len |-> HeaderLen, what |-> h.what]
    BY <1>2, <1>6 DEF Extents
  <2>3. QED
    BY <2>1, <2>2 DEF Header, Extent
<1>8. TocHeader(g) = t
  <2>1. t.what = [kind |-> "toc", free_list_offset |-> g.free_list_offset]
    BY <1>2, <1>3, <1>4 DEF Extents, What
  <2>2. t = [at |-> g.toc_location, len |-> TocHeaderLen, what |-> t.what]
    BY <1>2, <1>5, <1>6 DEF Extents
  <2>3. QED
    BY <2>1, <2>2 DEF TocHeader, Extent
<1>9. TypeCount(g) = n
  <2>1. n.what = [kind |-> "count", num_types |-> Cardinality(g.types)]
    BY <1>2, <1>3, <1>5 DEF Extents, What
  <2>2. n = [at |-> g.toc_location + TypesOffset, len |-> CountLen, what |-> n.what]
    BY <1>2, <1>5, <1>6 DEF Extents
  <2>3. QED
    BY <2>1, <2>2 DEF TypeCount, Extent
<1>10. g.types = {} \/ \E z \in disk : ListsOf(z, g)
  <2>1. CASE n.what.num_types = 0
    BY <1>5, <2>1
  <2>2. CASE n.what.num_types # 0
    <3>1. x \in disk /\ x.what.kind = "lists"
      BY <1>5, <2>2 DEF Piece
    <3>2. ListsOf(x, g)
      BY <1>4, <1>5, <2>2, <3>1 DEF ListsOf
    <3>3. QED
      BY <3>1, <3>2
  <2>3. QED
    BY <2>1, <2>2
<1>11. Sound(g)
  <2>1. CASE n.what.num_types = 0
    BY <1>5, <2>1 DEF Sound, Keyed
  <2>2. CASE n.what.num_types # 0
    <3>1. Sound(x.what)
      BY <1>5, <2>2 DEF DirectoryInv, PiecesApart, Shaped, Piece
    <3>2. QED
      BY <1>4, <3>1 DEF Sound, Keyed
  <2>3. QED
    BY <2>1, <2>2
<1>12. QED
  BY <1>2, <1>4, <1>7, <1>8, <1>9, <1>10, <1>11

LEMMA OpenDirectory ==
    ASSUME TypeInv, LayoutInv, DirectoryInv, gff_open \/ handle_open
    PROVE  DirectoryInv'
<1>1. ASSUME NEW g \in Directories(disk)
      PROVE  Shows(g, listed) /\ LastTable(disk, listed, g.toc_location)
  BY OneDirectory, Opened DEF DirectoryInv, NoStaleTable
<1>2. CASE gff_open
  <2>1. /\ pc = "closed" /\ pc' = "idle" /\ gff' \in Directories(disk)
        /\ UNCHANGED <<disk, buffer, handle, listed>>
    BY <1>2 DEF gff_open
  <2>2. Sound(gff') /\ TocWritten'
    BY <2>1, Opened DEF TocWritten
  <2>3. NoStaleTable'
    BY <1>1, <2>1 DEF DirectoryInv, NoStaleTable
  <2>4. ListedInStep'
    BY <1>1, <2>1 DEF DirectoryInv, ListedInStep, HandleChunks, OneAhead
  <2>5. QED
    BY <2>1, <2>2, <2>3, <2>4 DEF DirectoryInv
<1>3. CASE handle_open
  <2>1. /\ handle' \in Directories(disk)
        /\ UNCHANGED <<disk, gff, pc, buffer, listed>>
    BY <1>3 DEF handle_open
  <2>2. HandleChunks' \subseteq listed.chunks
    BY <1>1, <2>1 DEF HandleChunks, Shows
  <2>3. ListedInStep' /\ NoStaleTable' /\ TocWritten'
    BY <2>1, <2>2 DEF DirectoryInv, ListedInStep, NoStaleTable, TocWritten
  <2>4. QED
    BY <2>1, <2>3 DEF DirectoryInv
<1>4. QED
  BY <1>2, <1>3

LEMMA CreateDirectory ==
    ASSUME TypeInv, LayoutInv, DirectoryInv, gff_create
    PROVE  DirectoryInv'
<1>1. /\ pc' = "header" /\ handle' = NoHandle /\ disk' = {}
      /\ listed'.types = {} /\ listed'.chunks = {}
  BY DEF gff_create
<1>2. gff'.types = {} /\ gff'.seg = {} /\ gff'.chunks = {}
  BY DEF gff_create, Created, NoGff
<1>3. \A k : Piece(disk', k) = {}
  BY <1>1 DEF Piece
<1>4. Keyed(listed') /\ Sound(gff') /\ PiecesApart(disk')
  BY <1>1, <1>2 DEF Keyed, Sound, PiecesApart
<1>5. NoStaleTable' /\ TocWritten'
  BY <1>1, <1>3 DEF NoStaleTable, LastTable, TocWritten
<1>6. ListedInStep'
  BY <1>1, <1>2 DEF ListedInStep, HandleChunks, OneAhead, Shows
<1>7. QED
  BY <1>4, <1>5, <1>6 DEF DirectoryInv

(* The table of contents moves away from the lists it leaves behind.       *)
LEMMA LastTableMoves ==
    ASSUME NEW d, d \subseteq Extents, NEW l, NEW from \in Nat, NEW to \in Nat,
           from <= to, LastTable(d, l, from)
    PROVE  LastTable(d, l, to)
<1>1. \A k : \A x \in Piece(d, k) : x.at \in Nat
  BY WhatOf DEF Piece
<1>2. CASE from = to
  BY <1>2
<1>3. CASE from < to
  BY <1>1, <1>3 DEF LastTable, TypesOffset, CountLen
<1>4. QED
  BY <1>2, <1>3

LEMMA AddDirectory ==
    ASSUME TypeInv, LayoutInv, DirectoryInv,
           NEW t \in Type, NEW i \in Id, NEW p \in Payload, gff_add_chunk(t, i, p)
    PROVE  DirectoryInv'
<1> DEFINE new == NewChunk(t, i, p)
           toc == TocAfterChunk(size', p)
<1>1. /\ pc = "idle" /\ pc' = "header" /\ t \in gff.types /\ ~HasChunk(t, i)
      /\ disk' = Flushed /\ size' = FlushedSize /\ listed' = FlushedListed
      /\ handle' = handle
  BY DEF gff_add_chunk, Write, Flush, Flushed, FlushedSize, FlushedListed
<1>2. /\ gff'.chunks = gff.chunks \cup {new} /\ gff'.toc_location = toc
      /\ gff'.types = gff.types /\ gff'.seg = gff.seg
  BY DEF gff_add_chunk, TypeInv, TypeOK, Directory
<1>3. gff.toc_location \in Nat /\ toc \in Nat /\ gff.toc_location <= toc
  <2>1. size' \in Nat /\ gff.toc_location <= size'
    BY <1>1, SlotFlushSize
  <2>2. Length[p] \in Nat /\ gff.toc_location \in Nat
    BY LengthAssumption DEF TypeInv, TypeOK, Directory
  <2>3. QED
    BY <2>1, <2>2 DEF TocAfterChunk, WritePos
<1>4. new.type = t /\ new.id = i
  BY DEF NewChunk
<1> HIDE DEF new, toc
<1>5. Sound(gff')
  <2>1. \A c \in gff.chunks : KeyOf(c) # KeyOf(new)
    BY <1>1, <1>4 DEF HasChunk, KeyOf
  <2>2. QED
    BY <1>1, <1>2, <1>4, <2>1 DEF DirectoryInv, Sound, Keyed
<1>6. NoStaleTable'
  <2>1. Flushed \subseteq Extents
    BY DEF Flushed, After, Torn, TypeInv, TypeOK
  <2>2. LastTable(Flushed, FlushedListed, toc)
    BY <1>1, <1>3, <2>1, FlushDirectory, LastTableMoves
  <2>3. QED
    BY <1>1, <1>2, <2>2, FlushDirectory DEF NoStaleTable
<1>7. OneAhead(gff', FlushedListed)
  <2>1. Shows(gff, FlushedListed)
    BY <1>1, FlushDirectory
  <2>2. new \notin gff.chunks
    BY <1>1, <1>4 DEF HasChunk
  <2>3. QED
    BY <1>2, <2>1, <2>2 DEF OneAhead, Shows
<1>8. HandleChunks' = HandleChunks
  BY <1>1 DEF HandleChunks
<1>9. ListedInStep' /\ TocWritten'
  BY <1>1, <1>7, <1>8, FlushDirectory DEF ListedInStep, TocWritten
<1>10. QED
  BY <1>1, <1>5, <1>6, <1>9, FlushDirectory DEF DirectoryInv

LEMMA NextDirectory == TypeInv /\ LayoutInv /\ DirectoryInv /\ [Next]_vars => DirectoryInv'
<1> SUFFICES ASSUME TypeInv, LayoutInv, DirectoryInv, [Next]_vars
             PROVE  DirectoryInv'
  OBVIOUS
<1>1. ASSUME Flush(buffer), handle' = handle
      PROVE  disk' = Flushed /\ listed' = FlushedListed /\ HandleChunks' = HandleChunks
  BY <1>1 DEF Flush, Flushed, FlushedListed, HandleChunks
<1>2. Sound(gff) /\ \A g : Shows(g, FlushedListed) => OneAhead(g, FlushedListed)
  BY DEF DirectoryInv, OneAhead
<1>3. ASSUME Flush(buffer), UNCHANGED <<gff, handle>>, pc # "closed",
             pc' # "closed",
             pc' = "idle" => pc = "idle" \/ buffer' = {Lists(gff)},
             TocWritten'
      PROVE  DirectoryInv'
  BY <1>1, <1>2, <1>3, FlushDirectory, SlotStep
<1>4. CASE gff_create
  BY <1>4, CreateDirectory
<1>5. CASE gff_open \/ handle_open
  BY <1>5, OpenDirectory
<1>6. CASE gff_close \/ crash \/ exit_segmented
  <2>1. /\ pc' = "closed" /\ gff' = NoGff /\ handle' = handle
        /\ \/ disk' \subseteq disk /\ listed' = listed
           \/ disk' \subseteq Flushed /\ listed' = FlushedListed
    BY <1>6 DEF gff_close, crash, exit_segmented, Torn, Flush, Flushed, FlushedListed
  <2>2. QED
    BY <2>1, DeadStep
<1>7. CASE early_flush
  <2>1. CASE /\ buffer # {} /\ Flush(buffer) /\ buffer' = {}
             /\ UNCHANGED <<gff, pc, handle, hbuffer, crashes>>
    <3>1. pc # "closed"
      BY <2>1, BufferKinds
    <3>2. TocWritten'
      BY <1>1, <2>1, TocStays DEF TocWritten
    <3>3. QED
      BY <1>3, <2>1, <3>1, <3>2
  <2>2. CASE /\ Flush(hbuffer) /\ hbuffer' = {}
             /\ UNCHANGED <<gff, pc, buffer, handle, crashes>>
    BY <2>2, HandleStep DEF HandleChunks
  <2>3. QED
    BY <1>7, <2>1, <2>2 DEF early_flush
<1>8. ASSUME NEW t \in Type, gff_add_type(t)
      PROVE  DirectoryInv'
  <2>1. /\ pc = "idle" /\ pc' = "header" /\ Flush(buffer) /\ handle' = handle
        /\ t \notin gff.types
    BY <1>8 DEF gff_add_type
  <2>2. /\ gff'.chunks = gff.chunks /\ gff'.toc_location = gff.toc_location
        /\ gff'.types = gff.types \cup {t} /\ gff'.seg = gff.seg
    BY <1>8 DEF gff_add_type, TypeInv, TypeOK, Directory
  <2>3. Sound(gff')
    BY <1>2, <2>2 DEF Sound, Keyed
  <2>4. OneAhead(gff', FlushedListed)
    BY <2>1, <2>2, FlushDirectory DEF OneAhead, Shows
  <2>5. QED
    BY <1>1, <2>1, <2>2, <2>3, <2>4, SlotStep DEF TocWritten
<1>9. ASSUME NEW t \in Type, NEW i \in Id, RefuseDuplicate(t, i)
      PROVE  DirectoryInv'
  <2>1. /\ pc = "idle" /\ pc' = "idle" /\ Flush(buffer) /\ buffer' = {}
        /\ UNCHANGED <<gff, handle>>
    BY <1>9 DEF RefuseDuplicate
  <2>2. TocWritten'
    BY <1>1, <2>1, TocStays DEF TocWritten
  <2>3. QED
    BY <1>3, <2>1, <2>2
<1>10. ASSUME NEW t \in Type, NEW i \in Id, NEW p \in Payload, gff_add_chunk(t, i, p)
       PROVE  DirectoryInv'
  BY <1>10, AddDirectory
<1>11. CASE write_header
  BY <1>1, <1>3, <1>11 DEF write_header, Write, TocWritten
<1>12. CASE write_toc_header
  BY <1>1, <1>3, <1>12, TocStays DEF write_toc_header, Write, TocWritten
<1>13. CASE write_count
  BY <1>1, <1>3, <1>13, TocStays DEF write_count, Write, TocWritten
<1>14. CASE write_lists
  <2>1. ListsOf(Lists(gff), gff)
    BY DEF ListsOf, Lists, Extent
  <2>2. QED
    BY <1>1, <1>3, <1>14, <2>1, TocStays DEF write_lists, Write, TocWritten
<1>15. ASSUME NEW c \in gff.chunks, NEW p \in Payload, gff_write_chunk(c, p)
       PROVE  DirectoryInv'
  BY <1>1, <1>3, <1>15, TocStays DEF gff_write_chunk, Write, TocWritten
<1>16. CASE handle_close
  <2>1. HandleChunks' = {} /\ Flush(hbuffer) /\ UNCHANGED <<gff, pc, buffer>>
    BY <1>16 DEF handle_close, HandleChunks
  <2>2. QED
    BY <2>1, HandleStep
<1>17. ASSUME handle # NoHandle, NEW c \in handle.chunks, NEW p \in Payload,
              handle_write_chunk(c, p)
       PROVE  DirectoryInv'
  <2>1. HandleChunks' = HandleChunks /\ Flush(hbuffer) /\ UNCHANGED <<gff, pc, buffer>>
    BY <1>17 DEF handle_write_chunk, HandleChunks
  <2>2. QED
    BY <2>1, HandleStep
<1>18. CASE UNCHANGED vars
  BY <1>18 DEF vars, DirectoryInv, NoStaleTable, TocWritten, ListedInStep, HandleChunks
<1>19. QED
  BY <1>4, <1>5, <1>6, <1>7, <1>8, <1>9, <1>10, <1>11, <1>12, <1>13, <1>14, <1>15,
     <1>16, <1>17, <1>18 DEF Next

LEMMA InitDirectory == Init => DirectoryInv
<1> SUFFICES ASSUME Init
             PROVE  DirectoryInv
  OBVIOUS
<1>1. gff = NoGff /\ pc = "closed" /\ handle = NoHandle
  BY DEF Init
<1>2. Sound(gff) /\ TocWritten /\ HandleChunks \subseteq listed.chunks
  BY <1>1 DEF NoGff, Sound, Keyed, TocWritten, HandleChunks
<1>3. ASSUME Keyed(listed), PiecesApart(disk),
             \A h \in Piece(disk, "header") : LastTable(disk, listed, h.what.toc_location)
      PROVE  DirectoryInv
  BY <1>1, <1>2, <1>3 DEF DirectoryInv, NoStaleTable, ListedInStep
<1>4. CASE disk = {} /\ listed = [types |-> {}, chunks |-> {}]
  <2>1. Piece(disk, "header") = {} /\ PiecesApart(disk) /\ Keyed(listed)
    BY <1>4 DEF Piece, PiecesApart, Keyed
  <2>2. QED
    BY <1>3, <2>1
<1>5. ASSUME NEW f \in ExistingFiles, disk = FileOf(f),
             listed = [types |-> f.gff.types, chunks |-> f.gff.chunks]
      PROVE  DirectoryInv
  <2> DEFINE g == f.gff
  <2>1. WellFormed(f) /\ g \in Directory /\ FiniteLists(g)
    BY ExistingAssumption DEF WellFormed
  <2>2. Sound(g) /\ Keyed(listed)
    BY <1>5, <2>1 DEF WellFormed, Sound, Keyed, KeyOf
  <2>3. PiecesApart(disk)
    <3>1. \A x \in FileOf(f) : Shaped(x)
      BY <2>1, <2>2, ListsShaped, OthersShaped DEF FileOf, Toc, WellFormed
    <3>2. QED
      BY <1>5, <2>1, <3>1 DEF PiecesApart, WellFormed
  <2>4. ASSUME NEW x \in disk
        PROVE  /\ x.what.kind = "header" => x = Header(g)
               /\ x.what.kind = "count" => x = TypeCount(g)
               /\ x.what.kind = "lists" => x = Lists(g)
    BY <1>5 DEF FileOf, Toc, Header, TocHeader, TypeCount, Lists, Data, Extent
  <2>5. LastTable(disk, listed, g.toc_location)
    <3>1. ASSUME NEW x \in Piece(disk, "lists")
          PROVE  /\ x.at = g.toc_location + TypesOffset + CountLen
                 /\ x.what.types = listed.types /\ x.what.chunks = listed.chunks
      BY <1>5, <2>4 DEF Piece, Lists, Extent
    <3>2. ASSUME NEW x \in Piece(disk, "count")
          PROVE  /\ x.at = g.toc_location + TypesOffset
                 /\ x.what.num_types = 0 => listed.types = {}
      <4>1. x = TypeCount(g)
        BY <2>4 DEF Piece
      <4>2. x.what.num_types = 0 => g.types = {}
        BY <2>1, <4>1, FS_EmptySet DEF TypeCount, Extent, FiniteLists
      <4>3. QED
        BY <1>5, <4>1, <4>2 DEF TypeCount, Extent
    <3>3. g.toc_location + TypesOffset \in Nat
          /\ g.toc_location + TypesOffset + CountLen \in Nat
      BY <2>1 DEF Directory, TypesOffset, CountLen
    <3>4. QED
      BY <3>1, <3>2, <3>3 DEF LastTable
  <2>6. \A h \in Piece(disk, "header") : h.what.toc_location = g.toc_location
    BY <2>4 DEF Piece, Header, Extent
  <2>7. QED
    BY <1>3, <2>2, <2>3, <2>5, <2>6
<1>6. QED
  BY <1>4, <1>5 DEF Init

(* The writer's inductive invariant: where chunks and tables lie, and what *)
(* has been written of the table the slot is writing.                      *)
THEOREM WriterInductive == ASSUME TocsAreLast PROVE Spec => [](TypeInv /\ WriterInv)
<1>1. Init => TypeInv /\ WriterInv
  BY InitTypes, InitLayout, InitDirectory DEF TocsAreLast, WriterInv
<1>2. TypeInv /\ WriterInv /\ [Next]_vars => TypeInv' /\ WriterInv'
  BY NextTypes, NextLayout, NextDirectory DEF WriterInv
<1>3. QED
  BY <1>1, <1>2, PTL DEF Spec

(* Writing the bytes of a published chunk tears no piece of a table of     *)
(* contents that a header points to.                                       *)
LEMMA ReadableStays ==
    ASSUME TypeInv, LayoutInv, NEW e \in Published, NEW q
    PROVE  Directories(After(disk, {Data(e, q)})) = Directories(disk)
<1> DEFINE y == Data(e, q)
           d == After(disk, {y})
<1>1. y.what.kind = "data"
  BY DEF Data, Extent
<1>2. /\ y.at \in Nat /\ y.len \in Nat /\ HeaderLen <= y.at
      /\ \A h \in Piece(disk, "header") : y.at + y.len <= h.what.toc_location
  BY DataPlace DEF Known
<1> HIDE DEF y
<1>3. \A k \in {"header", "toc", "count", "lists"} : Piece(d, k) \subseteq Piece(disk, k)
  BY <1>1 DEF After, Torn, Piece
<1>4. \A x : x \in disk /\ ~Overlap(x, y) => x \in d
  BY DEF After, Torn
<1> HIDE DEF d
<1>5. ASSUME NEW g \in Directories(d)
      PROVE  g \in Directories(disk)
  <2>1. PICK h \in Piece(d, "header"), t \in Piece(d, "toc"),
             n \in Piece(d, "count"), x \in Piece(d, "lists") \cup {NoLists} :
           Agree(h, t, n, x) /\ g = Read(h, t, x)
    BY DirectoriesAre
  <2>2. h \in Piece(disk, "header") /\ t \in Piece(disk, "toc")
        /\ n \in Piece(disk, "count") /\ x \in Piece(disk, "lists") \cup {NoLists}
    BY <1>3
  <2>3. QED
    BY <2>1, <2>2, DirectoriesAre
<1>6. ASSUME NEW g \in Directories(disk)
      PROVE  g \in Directories(d)
  <2>1. PICK h \in Piece(disk, "header"), t \in Piece(disk, "toc"),
             n \in Piece(disk, "count"), x \in Piece(disk, "lists") \cup {NoLists} :
           Agree(h, t, n, x) /\ g = Read(h, t, x)
    BY DirectoriesAre
  <2>2. /\ h.at = 0 /\ h.len = HeaderLen
        /\ y.at + y.len <= h.what.toc_location /\ h.what.toc_location \in Nat
    BY <1>2, WhatOf DEF LayoutInv, HeaderAtStart, TypeInv, TypeOK, Piece
  <2>3. /\ t.at = h.what.toc_location /\ n.at = h.what.toc_location + TypesOffset
        /\ x = NoLists \/ x.at = h.what.toc_location + TypesOffset + CountLen
    BY <2>1 DEF Agree, ListsBehind
  <2>4. ~Overlap(h, y)
    BY <1>2, <2>2 DEF Overlap, HeaderLen
  <2>5. /\ ~Overlap(t, y) /\ ~Overlap(n, y)
        /\ x = NoLists \/ ~Overlap(x, y)
    BY <1>2, <2>2, <2>3 DEF Overlap, TypesOffset, CountLen
  <2>6. h \in Piece(d, "header") /\ t \in Piece(d, "toc")
        /\ n \in Piece(d, "count") /\ x \in Piece(d, "lists") \cup {NoLists}
    BY <1>4, <2>4, <2>5 DEF Piece
  <2>7. QED
    BY <2>1, <2>6, DirectoriesAre
<1>7. QED
  BY <1>5, <1>6 DEF d, y

(* A slot that closes its file leaves the directory it had in memory.      *)
LEMMA ClosedAsCached ==
    ASSUME TypeInv, LayoutInv, DirectoryInv, gff_close
    PROVE  gff \in Directories(disk')
<1>1. pc = "idle" /\ disk' = Flushed
  BY DEF gff_close, Flush, Flushed
<1>2. gff \in Directory /\ Sound(gff)
  BY DEF TypeInv, TypeOK, DirectoryInv
<1>3. /\ Header(gff) \in disk' /\ TocHeader(gff) \in disk' /\ TypeCount(gff) \in disk'
      /\ gff.types = {} \/ \E x \in disk' : ListsOf(x, gff)
  BY <1>1, TocStays
<1>4. QED
  BY <1>2, <1>3, OpensAsCached

(* What the other handle writes leaves a whole file whole; an empty file   *)
(* has no chunk it could write.                                            *)
LEMMA HandleWhole ==
    ASSUME TypeInv, LayoutInv, ClosedWhole, Flush(hbuffer), UNCHANGED <<pc, crashes>>
    PROVE  ClosedWhole'
<1>1. disk' = After(disk, hbuffer) /\ size' = SizeAfter(size, hbuffer)
  BY DEF Flush
<1>2. CASE hbuffer = {}
  <2>1. disk' = disk /\ size' = size
    BY <1>1, <1>2, SizeAfterNone DEF After, Torn, TypeInv, TypeOK
  <2>2. QED
    BY <2>1 DEF ClosedWhole
<1>3. ASSUME NEW y \in hbuffer
      PROVE  ClosedWhole'
  <2>1. PICK e \in HandleChunks, q \in Payload : y = Data(e, q)
    BY HandleBuffer DEF HandleChunks
  <2>2. e \in Published /\ hbuffer = {Data(e, q)}
    BY <2>1 DEF Published, TypeInv, TypeOK
  <2>3. Directories(disk') = Directories(disk)
    BY <1>1, <2>2, ReadableStays
  <2>4. disk # {}
    BY <2>2 DEF LayoutInv, BytesWhole, Whole
  <2>5. QED
    BY <2>3, <2>4 DEF ClosedWhole
<1>4. QED
  BY <1>2, <1>3

LEMMA NextWhole == TypeInv /\ WriterInv /\ ClosedWhole /\ [Next]_vars => ClosedWhole'
<1> SUFFICES ASSUME TypeInv, LayoutInv, DirectoryInv, ClosedWhole, [Next]_vars
             PROVE  ClosedWhole'
  BY DEF WriterInv
<1>1. ASSUME pc' # "closed"
      PROVE  ClosedWhole'
  BY <1>1 DEF ClosedWhole
<1>2. ASSUME UNCHANGED <<disk, size, pc, crashes>>
      PROVE  ClosedWhole'
  BY <1>2 DEF ClosedWhole
<1>3. CASE gff_create \/ gff_open
  BY <1>1, <1>3 DEF gff_create, gff_open
<1>4. CASE gff_close
  BY <1>4, ClosedAsCached DEF ClosedWhole
<1>5. CASE crash \/ exit_segmented
  <2>1. crashes' # 0
    BY <1>5 DEF crash, exit_segmented, TypeInv, TypeOK
  <2>2. QED
    BY <2>1 DEF ClosedWhole
<1>6. CASE early_flush
  <2>1. CASE buffer # {} /\ pc' = pc
    BY <1>1, <2>1, BufferKinds
  <2>2. CASE Flush(hbuffer) /\ UNCHANGED <<pc, crashes>>
    BY <2>2, HandleWhole
  <2>3. QED
    BY <1>6, <2>1, <2>2 DEF early_flush
<1>7. ASSUME NEW t \in Type, NEW i \in Id, NEW p \in Payload, gff_add_chunk(t, i, p)
      PROVE  ClosedWhole'
  BY <1>1, <1>7 DEF gff_add_chunk
<1>8. ASSUME NEW t \in Type, gff_add_type(t)
      PROVE  ClosedWhole'
  BY <1>1, <1>8 DEF gff_add_type
<1>9. ASSUME NEW t \in Type, NEW i \in Id, RefuseDuplicate(t, i)
      PROVE  ClosedWhole'
  BY <1>1, <1>9 DEF RefuseDuplicate
<1>10. CASE write_header \/ write_toc_header \/ write_count \/ write_lists
  BY <1>1, <1>10 DEF write_header, write_toc_header, write_count, write_lists
<1>11. ASSUME NEW c \in gff.chunks, NEW p \in Payload, gff_write_chunk(c, p)
       PROVE  ClosedWhole'
  BY <1>1, <1>11 DEF gff_write_chunk
<1>12. CASE handle_open
  BY <1>2, <1>12 DEF handle_open
<1>13. ASSUME NEW c \in handle.chunks, NEW p \in Payload, handle_write_chunk(c, p)
       PROVE  ClosedWhole'
  BY <1>13, HandleWhole DEF handle_write_chunk
<1>14. CASE handle_close
  BY <1>14, HandleWhole DEF handle_close
<1>15. CASE UNCHANGED vars
  BY <1>2, <1>15 DEF vars
<1>16. QED
  BY <1>3, <1>4, <1>5, <1>6, <1>7, <1>8, <1>9, <1>10, <1>11, <1>12, <1>13, <1>14,
     <1>15 DEF Next

(* The files a slot may find hold the directory they were made from.       *)
LEMMA ExistingOpens ==
    ASSUME NEW f \in ExistingFiles
    PROVE  f.gff \in Directories(FileOf(f))
<1>1. f.gff \in Directory /\ Sound(f.gff) /\ Toc(f.gff) \subseteq FileOf(f)
  BY ExistingAssumption DEF WellFormed, FileOf, Sound, Keyed, KeyOf
<1>2. ListsOf(Lists(f.gff), f.gff)
  BY DEF ListsOf, Lists, Extent
<1>3. QED
  BY <1>1, <1>2, OpensAsCached DEF Toc

LEMMA InitWhole == Init => ClosedWhole
  BY ExistingOpens DEF Init, ClosedWhole

(* Whenever one looks, whatever write_toc was doing or when its process    *)
(* died, the file holds at most one directory, the last completed lists;   *)
(* an idle slot finds its own.  A file without one, which opens as garbage,*)
(* is met only while a table is written or still in the buffer, or after a *)
(* process died: never once a process has closed it.                       *)
THEOREM FilesOpenAsListed == ASSUME TocsAreLast PROVE Spec => []OpensAsListed
<1>1. Init => ClosedWhole
  BY InitWhole
<1>2. TypeInv /\ WriterInv /\ ClosedWhole /\ [Next]_vars => ClosedWhole'
  BY NextWhole
<1>3. TypeInv /\ WriterInv /\ ClosedWhole => OpensAsListed
  BY InvOpensAsListed DEF WriterInv
<1>4. QED
  BY <1>1, <1>2, <1>3, WriterInductive, PTL DEF Spec

(***************************************************************************)
(* The image of the file.                                                  *)
(***************************************************************************)

(* A chunk's bytes are one payload: its pieces would overlap, and without  *)
(* bytes there is only one payload.                                        *)
LEMMA OnePayload ==
    ASSUME NEW d, PiecesApart(d), NEW S, S \subseteq Chunk,
           \A a, b \in S : KeyOf(a) = KeyOf(b) => a = b,
           NEW c \in S, NEW p \in Payload, Data(c, p) \in d
    PROVE  /\ Length[p] = c.length
           /\ {q \in Payload : \E e \in S : KeyOf(e) = KeyOf(c) /\ Data(e, q) \in d} = {p}
<1>1. c \in Chunk /\ c.length \in Nat /\ c.location \in Nat
  BY DEF Chunk
<1>2. ASSUME NEW q \in Payload, Data(c, q) \in d
      PROVE  Length[q] = c.length
  <2>1. Shaped(Data(c, q))
    BY <1>2 DEF PiecesApart
  <2>2. QED
    BY <2>1 DEF Shaped, Data, Extent
<1>3. ASSUME NEW q \in Payload, Data(c, q) \in d
      PROVE  q = p
  <2>1. CASE c.length = 0
    BY <1>2, <1>3, <2>1, EmptyAssumption
  <2>2. CASE c.length > 0
    <3>1. Overlap(Data(c, p), Data(c, q))
      BY <1>1, <2>2 DEF Overlap, Data, Extent
    <3>2. Data(c, p) = Data(c, q)
      BY <1>3, <3>1 DEF PiecesApart
    <3>3. QED
      BY <3>2 DEF Data, Extent
  <2>3. QED
    BY <1>1, <2>1, <2>2
<1>4. QED
  BY <1>2, <1>3

(* The only payload a key can have is the one it has.                      *)
LEMMA PayloadOfOne ==
    ASSUME NEW S, NEW p \in Payload, S = {p}
    PROVE  (IF Cardinality(S) = 1 THEN CHOOSE q \in Payload : q \in S ELSE "lost") = p
  BY FS_Singleton

LEMMA ContentOf ==
    ASSUME TypeInv, WriterInv, NEW c \in listed.chunks
    PROVE  \E p \in Payload :
              /\ Length[p] = c.length /\ Data(c, p) \in disk
              /\ PayloadsAt(KeyOf(c)) = {p}
              /\ KeyOf(c) \in DOMAIN Content /\ Content[KeyOf(c)] = p
<1>1. Whole(disk, c)
  BY DEF WriterInv, LayoutInv, BytesWhole, Published
<1>2. PICK p \in Payload : Length[p] = c.length /\ Data(c, p) \in disk
  BY <1>1 DEF Whole
<1>3. /\ PiecesApart(disk) /\ listed.chunks \subseteq Chunk
      /\ \A a, b \in listed.chunks : KeyOf(a) = KeyOf(b) => a = b
  BY DEF WriterInv, DirectoryInv, Keyed, TypeInv, TypeOK
<1>4. PayloadsAt(KeyOf(c)) = {p}
  BY <1>2, <1>3, OnePayload DEF PayloadsAt
<1>5. PayloadAt(KeyOf(c)) = p
  BY <1>4, PayloadOfOne DEF PayloadAt
<1>6. QED
  BY <1>2, <1>4, <1>5 DEF Content

(* The image stands still where the pieces of the listed chunks do.        *)
LEMMA PayloadsStay ==
    ASSUME NEW k, \A c \in Chunk : KeyOf(c) = k => (c \in listed'.chunks <=> c \in listed.chunks),
           listed.chunks \subseteq Chunk, listed'.chunks \subseteq Chunk,
           \A c \in listed.chunks, p \in Payload :
              KeyOf(c) = k => (Data(c, p) \in disk' <=> Data(c, p) \in disk)
    PROVE  PayloadsAt(k)' = PayloadsAt(k) /\ PayloadAt(k)' = PayloadAt(k)
<1>1. PayloadsAt(k)' = PayloadsAt(k)
  BY DEF PayloadsAt, KeyOf
<1>2. QED
  BY <1>1 DEF PayloadAt

LEMMA ContentStays ==
    ASSUME TypeInv, listed'.chunks = listed.chunks,
           \A c \in listed.chunks, p \in Payload :
              Data(c, p) \in disk' <=> Data(c, p) \in disk
    PROVE  Content' = Content
<1>1. listed.chunks \subseteq Chunk
  BY DEF TypeInv, TypeOK
<1>2. \A k : PayloadAt(k)' = PayloadAt(k)
  BY <1>1, PayloadsStay
<1>3. QED
  BY <1>2 DEF Content, KeyOf

(* A step that changes neither types nor chunks publishes the file, tears  *)
(* it or leaves it as it was.                                              *)
LEMMA SameImage ==
    ASSUME listed'.types = listed.types, Content' = Content
    PROVE  [Image!Next]_(Image!vars)
<1>1. CASE (Directories(disk) # {})' = TRUE
  BY <1>1 DEF Image!Next, Image!Publish
<1>2. CASE (Directories(disk) # {})' = FALSE
  BY <1>2 DEF Image!Next, Image!Tear
<1>3. QED
  BY <1>1, <1>2

(* Bytes that miss a chunk leave it what it was.                           *)
LEMMA BytesStay ==
    ASSUME NEW d, NEW y, NEW c, Clear(c, y), NEW p \in Payload, y # Data(c, p)
    PROVE  /\ Data(c, p) \in After(d, {y}) <=> Data(c, p) \in d
           /\ Data(c, p) \in Torn(d, {y}) <=> Data(c, p) \in d
  BY DEF Clear, After, Torn

(* A chunk's bytes reach the disk: gff_write_chunk's, or a new chunk's that*)
(* nobody can see yet.                                                     *)
LEMMA DataImage ==
    ASSUME TypeInv, WriterInv, NEW e \in Known, NEW q \in Payload, Length[q] = e.length,
           disk' = After(disk, {Data(e, q)}), listed' = listed
    PROVE  [Image!Next]_(Image!vars)
<1>1. LayoutInv /\ DirectoryInv /\ e \in Chunk
  BY KnownTypes DEF WriterInv
<1>2. ASSUME NEW c \in listed.chunks, c # e, NEW p \in Payload
      PROVE  Data(c, p) \in disk' <=> Data(c, p) \in disk
  <2>1. c \in Known /\ c \in Chunk
    BY KnownTypes DEF Known, Published, WriterInv
  <2>2. Clear(c, Data(e, q))
    BY <1>1, <1>2, <2>1, ApartIsClear DEF Clear, LayoutInv, ChunksApart
  <2>3. Data(e, q) # Data(c, p)
    BY <1>1, <1>2, <2>1, DataInjective
  <2>4. QED
    BY <2>2, <2>3, BytesStay
<1>3. CASE e \notin listed.chunks
  <2>1. Content' = Content
    BY <1>2, <1>3, ContentStays
  <2>2. QED
    BY <2>1, SameImage
<1>4. CASE e \in listed.chunks
  <2> DEFINE k == KeyOf(e)
  <2>1. e \in Published
    BY <1>4 DEF Published
  <2>2. (Directories(disk) # {})' = (Directories(disk) # {})
    BY <1>1, <2>1, ReadableStays
  <2>3. k \in DOMAIN Content /\ Length[Content[k]] = e.length
    BY <1>4, ContentOf
  <2>4. /\ PiecesApart(disk') /\ listed.chunks \subseteq Chunk
        /\ \A a, b \in listed.chunks : KeyOf(a) = KeyOf(b) => a = b
    <3>1. PiecesApart(disk')
      BY <1>1, ApartAfter, OthersShaped DEF DirectoryInv
    <3>2. QED
      BY <1>1, <3>1 DEF DirectoryInv, Keyed, TypeInv, TypeOK
  <2>5. PayloadAt(k)' = q
    <3>1. Data(e, q) \in disk'
      BY DEF After
    <3>2. PayloadsAt(k)' = {q}
      BY <1>4, <2>4, <3>1, OnePayload DEF PayloadsAt
    <3>3. QED
      BY <3>2, PayloadOfOne DEF PayloadAt
  <2>6. ASSUME NEW j, j # k
        PROVE  PayloadAt(j)' = PayloadAt(j)
    BY <1>2, <2>4, <2>6, PayloadsStay
  <2>7. Content' = [Content EXCEPT ![k] = q]
    BY <2>3, <2>5, <2>6 DEF Content, KeyOf
  <2>8. k \in Type \X Id
    BY <1>1 DEF KeyOf, Chunk
  <2>9. Image!Overwrite(k, q)
    BY <2>2, <2>3, <2>7 DEF Image!Overwrite
  <2>10. QED
    BY <2>8, <2>9 DEF Image!Next, Image!Key
<1>5. QED
  BY <1>3, <1>4

(* The lists reach the disk: a type or a chunk is published, once, in a    *)
(* file that opens.                                                        *)
LEMMA ListsImage ==
    ASSUME TypeInv, WriterInv, Lists(gff) \in buffer,
           disk' = Flushed, listed' = FlushedListed
    PROVE  [Image!Next]_(Image!vars)
<1>1. LayoutInv /\ DirectoryInv /\ buffer = {Lists(gff)}
  BY DEF WriterInv, TypeInv, TypeOK
<1>2. pc = "idle" /\ listed'.types = gff.types /\ listed'.chunks = gff.chunks
  BY <1>1, ListsFlushed
<1>3. (Directories(disk) # {})' = TRUE
  <2>1. gff \in Directories(Flushed)
    <3>1. gff \in Directory /\ Sound(gff)
      BY <1>1 DEF TypeInv, TypeOK, DirectoryInv
    <3>2. QED
      BY <1>1, <1>2, <3>1, TocStays, OpensAsCached
  <2>2. QED
    BY <2>1
<1>4. ASSUME NEW c \in Known, NEW p \in Payload
      PROVE  Data(c, p) \in disk' <=> Data(c, p) \in disk
  <2>1. Lists(gff) # Data(c, p) /\ ~Same(c, Lists(gff))
    BY DEF Same, Lists, Data, Extent
  <2>2. Clear(c, Lists(gff))
    BY <1>1, <2>1, BufferClear
  <2>3. QED
    BY <1>1, <2>1, <2>2, BytesStay DEF Flushed
<1>5. listed.chunks \subseteq Known /\ gff.chunks \subseteq Known
      /\ listed.chunks \subseteq Chunk /\ gff.chunks \subseteq Chunk
  BY DEF Known, Published, TypeInv, TypeOK, Directory
<1>6. CASE gff.chunks = listed.chunks
  <2>1. Content' = Content
    BY <1>2, <1>4, <1>5, <1>6, ContentStays
  <2>2. CASE gff.types = listed.types
    BY <1>2, <2>1, <2>2, SameImage
  <2>3. ASSUME NEW t \in gff.types \ listed.types, gff.types = listed.types \cup {t}
        PROVE  [Image!Next]_(Image!vars)
    <3>1. t \in Type
      BY DEF TypeInv, TypeOK, Directory
    <3>2. Image!PublishType(t)
      BY <1>2, <1>3, <2>1, <2>3 DEF Image!PublishType
    <3>3. QED
      BY <3>1, <3>2 DEF Image!Next
  <2>4. QED
    BY <1>1, <1>2, <1>6, <2>2, <2>3 DEF DirectoryInv, ListedInStep, OneAhead, Shows
<1>7. ASSUME gff.types = listed.types, NEW c \in gff.chunks \ listed.chunks,
             gff.chunks = listed.chunks \cup {c}
      PROVE  [Image!Next]_(Image!vars)
  <2> DEFINE k == KeyOf(c)
  <2>1. \A a, b \in gff.chunks : KeyOf(a) = KeyOf(b) => a = b
    BY <1>1 DEF DirectoryInv, Sound, Keyed
  <2>2. k \notin DOMAIN Content
    BY <1>7, <2>1 DEF Content
  <2>3. PICK p \in Payload : Data(c, p) \in disk'
    <3>1. Whole(disk \cup buffer, c)
      BY <1>1 DEF LayoutInv, BytesWhole
    <3>2. \A p : Data(c, p) # Lists(gff)
      BY DEF Data, Lists, Extent
    <3>3. QED
      BY <1>1, <1>4, <1>5, <3>1, <3>2 DEF Whole
  <2>4. PayloadAt(k)' = p
    <3>1. PiecesApart(disk')
      BY <1>1, FlushDirectory
    <3>2. PayloadsAt(k)' = {p}
      BY <1>2, <1>5, <2>1, <2>3, <3>1, OnePayload DEF PayloadsAt
    <3>3. QED
      BY <3>2, PayloadOfOne DEF PayloadAt
  <2>5. ASSUME NEW j, j # k
        PROVE  PayloadAt(j)' = PayloadAt(j)
    <3>1. \A b \in Chunk : KeyOf(b) = j => (b \in listed'.chunks <=> b \in listed.chunks)
      BY <1>2, <1>7, <2>5
    <3>2. QED
      BY <1>2, <1>4, <1>5, <3>1, PayloadsStay
  <2>6. DOMAIN Content = {KeyOf(b) : b \in listed.chunks}
        /\ (DOMAIN Content)' = DOMAIN Content \cup {k}
    BY <1>2, <1>7 DEF Content, KeyOf
  <2>7. Content' = [j \in DOMAIN Content \cup {k} |-> IF j = k THEN p ELSE Content[j]]
    BY <2>2, <2>4, <2>5, <2>6 DEF Content, KeyOf
  <2>8. k \in Type \X Id /\ k[1] \in listed.types
    BY <1>1, <1>5, <1>7 DEF KeyOf, Chunk, DirectoryInv, Sound, Keyed
  <2>9. Image!PublishChunk(k, p)
    BY <1>2, <1>3, <1>7, <2>2, <2>7, <2>8 DEF Image!PublishChunk
  <2>10. QED
    BY <2>8, <2>9 DEF Image!Next, Image!Key
<1>8. QED
  BY <1>1, <1>2, <1>6, <1>7 DEF DirectoryInv, ListedInStep, OneAhead, Shows

(* A step that flushes the slot's buffer, whatever it does besides.        *)
LEMMA SlotImage ==
    ASSUME TypeInv, WriterInv, disk' = Flushed, listed' = FlushedListed
    PROVE  [Image!Next]_(Image!vars)
<1>1. LayoutInv /\ DirectoryInv
  BY DEF WriterInv
<1>2. CASE buffer = {}
  <2>1. disk' = disk /\ listed' = listed
    BY <1>1, <1>2, OtherFlushed DEF Flushed, After, Torn
  <2>2. Content' = Content
    BY <2>1, ContentStays
  <2>3. QED
    BY <2>1, <2>2, SameImage
<1>3. CASE Lists(gff) \in buffer
  BY <1>3, ListsImage
<1>4. ASSUME NEW e \in gff.chunks, NEW q \in Payload, Data(e, q) \in buffer,
             Length[q] = e.length
      PROVE  [Image!Next]_(Image!vars)
  <2>1. buffer = {Data(e, q)} /\ Lists(gff) # Data(e, q) /\ e \in Known
    BY <1>4 DEF TypeInv, TypeOK, Data, Lists, Extent, Known
  <2>2. disk' = After(disk, {Data(e, q)}) /\ listed' = listed
    BY <1>1, <2>1, OtherFlushed DEF Flushed
  <2>3. QED
    BY <1>4, <2>1, <2>2, DataImage
<1>5. ASSUME NEW y \in buffer, y \in {Header(gff), TocHeader(gff), TypeCount(gff)}
      PROVE  [Image!Next]_(Image!vars)
  <2>1. buffer = {y} /\ y # Lists(gff)
    BY <1>5 DEF TypeInv, TypeOK, Header, TocHeader, TypeCount, Lists, Extent
  <2>2. disk' = After(disk, {y}) /\ listed' = listed
    BY <1>1, <2>1, OtherFlushed DEF Flushed
  <2>3. ASSUME NEW c \in listed.chunks, NEW p \in Payload
        PROVE  Data(c, p) \in disk' <=> Data(c, p) \in disk
    <3>1. y # Data(c, p) /\ ~Same(c, y)
      BY <1>5 DEF Same, Header, TocHeader, TypeCount, Data, Extent
    <3>2. Clear(c, y)
      BY <1>1, <3>1, BufferClear DEF Known, Published
    <3>3. QED
      BY <2>2, <3>1, <3>2, BytesStay
  <2>4. QED
    BY <2>2, <2>3, ContentStays, SameImage
<1>6. QED
  BY <1>1, <1>2, <1>3, <1>4, <1>5, BufferKinds

(* A step that flushes what the other handle has buffered.                 *)
LEMMA HandleImage ==
    ASSUME TypeInv, WriterInv, Flush(hbuffer)
    PROVE  [Image!Next]_(Image!vars)
<1>1. CASE hbuffer = {}
  <2>1. disk' = disk /\ listed' = listed
    BY <1>1, ListedAfterOther DEF Flush, After, Torn
  <2>2. QED
    BY <2>1, ContentStays, SameImage
<1>2. ASSUME NEW y \in hbuffer
      PROVE  [Image!Next]_(Image!vars)
  <2>1. PICK e \in HandleChunks, q \in Payload : y = Data(e, q) /\ Length[q] = e.length
    BY HandleBuffer DEF WriterInv, HandleChunks
  <2>2. hbuffer = {Data(e, q)} /\ e \in Known
    BY <2>1 DEF TypeInv, TypeOK, Known, Published
  <2>3. Data(e, q).what.kind = "data"
    BY DEF Data, Extent
  <2>4. disk' = After(disk, {Data(e, q)}) /\ listed' = listed
    BY <2>2, <2>3, ListedAfterOther DEF Flush
  <2>5. QED
    BY <2>1, <2>2, <2>4, DataImage
<1>3. QED
  BY <1>1, <1>2

(* The process dies, or gives up in the middle of the lists.               *)
LEMMA DeadImage ==
    ASSUME TypeInv, WriterInv, crash \/ exit_segmented
    PROVE  [Image!Next]_(Image!vars)
<1>1. LayoutInv /\ DirectoryInv
  BY DEF WriterInv
<1>2. listed.chunks \subseteq Published /\ listed.chunks \subseteq Known
  BY DEF Published, Known
<1>3. CASE crash
  <2>1. listed' = listed /\ (disk' = disk \/ disk' = Torn(disk, Long(buffer)))
    BY <1>3 DEF crash
  <2>2. ASSUME NEW c \in listed.chunks, NEW p \in Payload
        PROVE  Data(c, p) \in Torn(disk, Long(buffer)) <=> Data(c, p) \in disk
    BY <1>1, <1>2, LongIsClear DEF Torn, Clear
  <2>3. QED
    BY <2>1, <2>2, ContentStays, SameImage
<1>4. CASE exit_segmented
  <2>1. /\ pc = "lists" /\ disk' = Torn(Flushed, {Lists(gff)})
        /\ listed' = FlushedListed
    BY <1>4 DEF exit_segmented, Flushed, FlushedListed
  <2>2. \A y \in buffer : y = TypeCount(gff)
    BY <1>1, <2>1, BufferKinds
  <2>3. Lists(gff) \notin buffer
    BY <2>2 DEF Lists, TypeCount, Extent
  <2>4. listed' = listed
    BY <1>1, <2>1, <2>3, OtherFlushed
  <2>5. ASSUME NEW c \in listed.chunks, NEW p \in Payload
        PROVE  Data(c, p) \in disk' <=> Data(c, p) \in disk
    <3>1. TypeCount(gff) # Data(c, p) /\ ~Same(c, TypeCount(gff))
          /\ Lists(gff) # Data(c, p)
      BY DEF Same, TypeCount, Lists, Data, Extent
    <3>2. \A y \in buffer : ~Overlap(Data(c, p), y)
      BY <1>1, <1>2, <2>2, <3>1, BufferClear DEF Clear
    <3>3. Data(c, p) \in Flushed <=> Data(c, p) \in disk
      BY <2>2, <3>1, <3>2 DEF Flushed, After, Torn
    <3>4. Clear(c, Lists(gff))
      <4>1. c \in Chunk /\ End(c) <= gff.toc_location
        BY <1>1, <1>2, <2>1, KnownTypes DEF LayoutInv, BehindChunks
      <4>2. Lists(gff).at \in Nat /\ End(c) <= Lists(gff).at
        BY <1>1, <2>1, <4>1, TocPlace DEF TypesOffset, CountLen, End, Chunk
      <4>3. QED
        BY <4>1, <4>2, BehindIsClear DEF Clear
    <3>5. QED
      BY <2>1, <3>1, <3>3, <3>4, BytesStay
  <2>6. QED
    BY <2>4, <2>5, ContentStays, SameImage
<1>5. QED
  BY <1>3, <1>4

LEMMA CreateImage == ASSUME gff_create PROVE Image!Truncate
<1>1. disk' = {} /\ listed'.types = {} /\ listed'.chunks = {}
  BY DEF gff_create
<1>2. Directories({}) = {}
  BY DEF Directories, Piece
<1>3. (Directories(disk) # {})' = FALSE
  BY <1>1, <1>2
<1>4. Content' = [k \in {} |-> {}]
  BY <1>1 DEF Content, KeyOf
<1>5. QED
  BY <1>1, <1>3, <1>4 DEF Image!Truncate

LEMMA InitImage == TypeInv /\ WriterInv => Image!Init
<1> SUFFICES ASSUME TypeInv, WriterInv
             PROVE  Image!Init
  OBVIOUS
<1>1. listed.types \subseteq Type /\ listed.chunks \subseteq Chunk
  BY DEF TypeInv, TypeOK
<1>2. DOMAIN Content = {KeyOf(c) : c \in listed.chunks}
  BY DEF Content
<1>3. DOMAIN Content \subseteq listed.types \X Id
  BY <1>1, <1>2 DEF KeyOf, Chunk, WriterInv, DirectoryInv, Keyed
<1>4. \A k \in DOMAIN Content : Content[k] \in Payload
  BY <1>2, ContentOf
<1>5. QED
  BY <1>1, <1>3, <1>4 DEF Image!Init, Image!TypeOK

LEMMA NextImage == TypeInv /\ WriterInv /\ [Next]_vars => [Image!Next]_(Image!vars)
<1> SUFFICES ASSUME TypeInv, WriterInv, [Next]_vars
             PROVE  [Image!Next]_(Image!vars)
  OBVIOUS
<1>1. ASSUME Flush(buffer)
      PROVE  [Image!Next]_(Image!vars)
  BY <1>1, SlotImage DEF Flush, Flushed, FlushedListed
<1>2. ASSUME UNCHANGED <<disk, listed>>
      PROVE  [Image!Next]_(Image!vars)
  BY <1>2, ContentStays, SameImage
<1>3. CASE gff_create
  BY <1>3, CreateImage DEF Image!Next
<1>4. CASE gff_open \/ handle_open
  BY <1>2, <1>4 DEF gff_open, handle_open
<1>5. CASE gff_close
  BY <1>1, <1>5 DEF gff_close
<1>6. CASE crash \/ exit_segmented
  BY <1>6, DeadImage
<1>7. CASE early_flush
  BY <1>1, <1>7, HandleImage DEF early_flush
<1>8. ASSUME NEW t \in Type,
             \/ gff_add_type(t)
             \/ \E i \in Id : RefuseDuplicate(t, i)
             \/ \E i \in Id, p \in Payload : gff_add_chunk(t, i, p)
      PROVE  [Image!Next]_(Image!vars)
  BY <1>1, <1>8 DEF gff_add_type, RefuseDuplicate, gff_add_chunk, Write
<1>9. CASE write_header \/ write_toc_header \/ write_count \/ write_lists
  BY <1>1, <1>9 DEF write_header, write_toc_header, write_count, write_lists, Write
<1>10. CASE \E c \in gff.chunks, p \in Payload : gff_write_chunk(c, p)
  BY <1>1, <1>10 DEF gff_write_chunk, Write
<1>11. CASE handle_close \/ \E c \in handle.chunks, p \in Payload : handle_write_chunk(c, p)
  BY <1>11, HandleImage DEF handle_close, handle_write_chunk
<1>12. CASE UNCHANGED vars
  BY <1>2, <1>12 DEF vars
<1>13. QED
  BY <1>3, <1>4, <1>5, <1>6, <1>7, <1>8, <1>9, <1>10, <1>11, <1>12 DEF Next

(* The writer implements the image a GFF file promises.  Its initial files *)
(* are images; a flush of a table's pieces and a crash tear or publish the *)
(* file; a flush of the lists publishes one type or one chunk; the bytes of*)
(* a listed chunk overwrite it; every other step leaves the image alone.   *)
THEOREM FileIsImage == ASSUME TocsAreLast PROVE Spec => RefinesImage
<1>1. Init => Image!Init
  BY InitTypes, InitLayout, InitDirectory, InitImage DEF TocsAreLast, WriterInv
<1>2. QED
  BY <1>1, NextImage, WriterInductive, PTL DEF Spec, RefinesImage, Image!Spec

(***************************************************************************)
(* The counters gff_add_chunk compares with the size of the file.          *)
(***************************************************************************)

(* A flush does not reach behind the end of what it writes.                *)
LEMMA SizeBound ==
    ASSUME NEW s \in Nat, NEW w, w \subseteq Extents, \A x, y \in w : x = y,
           NEW b \in Nat, s <= b, \A y \in w : y.at + y.len <= b
    PROVE  SizeAfter(s, w) \in Nat /\ s <= SizeAfter(s, w) /\ SizeAfter(s, w) <= b
<1>1. CASE w = {}
  BY <1>1, SizeAfterNone
<1>2. ASSUME NEW x \in w
      PROVE  SizeAfter(s, w) \in Nat /\ s <= SizeAfter(s, w) /\ SizeAfter(s, w) <= b
  <2>1. w = {x} /\ x.at \in Nat /\ x.len \in Nat /\ x.at + x.len <= b
    BY WhatOf
  <2> DEFINE S == {s} \cup {y.at + y.len : y \in {z \in w : z.len > 0}}
             m == IF x.len > 0 /\ x.at + x.len > s THEN x.at + x.len ELSE s
  <2>2. S \subseteq {s, x.at + x.len} /\ m \in S /\ \A y \in S : m >= y
    BY <2>1
  <2>3. Max(S) \in S
    BY <2>2 DEF Max
  <2>4. SizeAfter(s, w) = Max(S)
    BY DEF SizeAfter
  <2>5. SizeAfter(s, w) \in {s, x.at + x.len}
    BY <2>2, <2>3, <2>4
  <2>6. s <= SizeAfter(s, w)
    BY <2>1, SizeAfterOne
  <2>7. QED
    BY <2>1, <2>5, <2>6
<1>3. QED
  BY <1>1, <1>2

LEMMA SizeReached ==
    ASSUME NEW s \in Nat, NEW x \in Extents
    PROVE  x.len > 0 => x.at + x.len <= SizeAfter(s, {x})
  BY SizeAfterOne, WhatOf

(* The end of the last piece of write_toc is the end the counters claim.   *)
LEMMA ListsEnd ==
    ASSUME NEW g \in Directory, FiniteLists(g), Accounts(g)
    PROVE  /\ TocEnd(g) \in Nat
           /\ Lists(g).at \in Nat /\ Lists(g).len \in Nat
           /\ Lists(g).at = g.toc_location + TypesOffset + CountLen
           /\ Lists(g).at + Lists(g).len = TocEnd(g)
<1>1. /\ g.toc_location \in Nat /\ g.toc_length \in Nat /\ g.free_list_offset \in Nat
      /\ ListBytes(g) \in Nat /\ FreeBytes(g) \in Nat
  BY ListBytesNat DEF Directory
<1>2. FreeBytes(g) = g.toc_length - g.free_list_offset
  BY DEF FreeBytes, Accounts
<1>3. /\ Lists(g).at = g.toc_location + TypesOffset + CountLen
      /\ Lists(g).len = ListBytes(g) + FreeBytes(g)
  BY DEF Lists, Extent
<1>4. QED
  BY <1>1, <1>2, <1>3 DEF TocEnd, Accounts, TypesOffset, CountLen

LEMMA SizeFlush ==
    ASSUME TypeInv, WriterInv, SizeInv, crashes = 0, pc # "closed"
    PROVE  /\ FlushedSize \in Nat /\ TocEnd(gff) \in Nat
           /\ gff.toc_location + TypesOffset + CountLen <= TocEnd(gff)
           /\ Accounts(gff)
           /\ FlushedSize <= TocEnd(gff)
           /\ pc \in {"lists", "idle"} =>
                 gff.toc_location + TypesOffset + CountLen <= FlushedSize
           /\ pc = "idle" => FlushedSize = TocEnd(gff)
<1>1. /\ LayoutInv /\ DirectoryInv /\ gff \in Directory /\ FiniteLists(gff)
      /\ size \in Nat /\ buffer \subseteq Extents /\ \A x, y \in buffer : x = y
  BY DEF WriterInv, TypeInv, TypeOK, Finite
<1>2. Accounts(gff) /\ size <= TocEnd(gff)
  BY DEF SizeInv
<1>3. /\ TocEnd(gff) \in Nat /\ Lists(gff).at \in Nat /\ Lists(gff).len \in Nat
      /\ Lists(gff).at = gff.toc_location + TypesOffset + CountLen
      /\ Lists(gff).at + Lists(gff).len = TocEnd(gff)
  BY <1>1, <1>2, ListsEnd
<1>4. gff.toc_location \in Nat /\ HeaderLen <= gff.toc_location
  BY <1>1, TocPlace
<1>5. ASSUME NEW y \in buffer
      PROVE  y.at + y.len <= TocEnd(gff)
  <2>1. CASE y.what.kind = "data"
    BY <1>1, <1>3, <1>4, <2>1, BufferPlace DEF TypesOffset, CountLen
  <2>2. CASE y = Header(gff)
    <3>1. y.at + y.len = HeaderLen
      BY <1>1, <2>2, TocPlace DEF HeaderLen
    <3>2. QED
      BY <1>3, <1>4, <3>1 DEF TypesOffset, CountLen, HeaderLen
  <2>3. CASE y = TocHeader(gff) \/ y = TypeCount(gff)
    BY <1>1, <1>3, <1>4, <2>3, TocPlace DEF TypesOffset, CountLen, TocHeaderLen
  <2>4. CASE y = Lists(gff)
    BY <1>3, <2>4
  <2>5. QED
    BY <1>1, <2>1, <2>2, <2>3, <2>4, BufferKinds
<1>6. FlushedSize \in Nat /\ size <= FlushedSize /\ FlushedSize <= TocEnd(gff)
  BY <1>1, <1>2, <1>3, <1>5, SizeBound DEF FlushedSize
<1>7. ASSUME pc \in {"lists", "idle"}
      PROVE  gff.toc_location + TypesOffset + CountLen <= FlushedSize
  <2>1. CASE gff.toc_location + TypesOffset + CountLen <= size
    BY <1>1, <1>4, <1>6, <2>1 DEF TypesOffset, CountLen
  <2>2. CASE buffer = {TypeCount(gff)}
    <3>1. TypeCount(gff) \in Extents
      BY <1>1, <2>2
    <3>2. TypeCount(gff).at + TypeCount(gff).len <= FlushedSize
      BY <1>1, <2>2, <3>1, SizeReached, TocPlace DEF FlushedSize, CountLen
    <3>3. QED
      BY <1>1, <3>2, TocPlace
  <2>3. QED
    BY <1>7, <2>1, <2>2 DEF SizeInv
<1>8. ASSUME pc = "idle"
      PROVE  FlushedSize = TocEnd(gff)
  <2>1. CASE size = TocEnd(gff)
    BY <1>1, <1>6, <2>1
  <2>2. CASE buffer = {Lists(gff)} /\ Lists(gff).len > 0
    <3>1. Lists(gff).at + Lists(gff).len <= FlushedSize
      BY <1>1, <2>2, SizeReached DEF FlushedSize
    <3>2. QED
      BY <1>3, <1>6, <3>1
  <2>3. CASE Lists(gff).len = 0
    BY <1>3, <1>6, <1>7, <1>8, <2>3
  <2>4. QED
    BY <1>3, <1>8, <2>1, <2>2, <2>3 DEF SizeInv
<1>9. QED
  BY <1>2, <1>3, <1>6, <1>7, <1>8

(* Two readers of the file, now or after a step, see the same directory.   *)
OneReading == \A f, g \in Directories(disk) : f = g

LEMMA InvOneReading == TypeInv /\ WriterInv => OneReading
  BY OneDirectory DEF WriterInv, OneReading

LEMMA OneReadingAfter == (TypeInv /\ WriterInv)' => OneReading'
  BY InvOneReading, PTL

(* The slot's file is closed behind its table of contents.                 *)
LEMMA CloseSize ==
    ASSUME TypeInv, WriterInv, SizeInv, OneReading', gff_close
    PROVE  SizeInv'
<1>1. /\ pc = "idle" /\ pc' = "closed" /\ disk' = Flushed /\ size' = FlushedSize
      /\ crashes' = crashes
  BY DEF gff_close, Flush, Flushed, FlushedSize
<1>2. gff \in Directories(disk')
  BY ClosedAsCached DEF WriterInv
<1>3. \A g \in Directories(disk') : g = gff
  BY <1>2 DEF OneReading
<1>4. crashes = 0 => Accounts(gff) /\ size' = TocEnd(gff)
  BY <1>1, SizeFlush
<1>5. QED
  BY <1>1, <1>3, <1>4 DEF SizeInv

(* What the other handle writes lies inside the file.                      *)
LEMMA HandleSize ==
    ASSUME TypeInv, WriterInv, SizeInv, Flush(hbuffer),
           UNCHANGED <<gff, pc, buffer, crashes>>
    PROVE  SizeInv'
<1>1. LayoutInv /\ DirectoryInv /\ size \in Nat /\ hbuffer \subseteq Extents
      /\ \A x, y \in hbuffer : x = y
  BY DEF WriterInv, TypeInv, TypeOK
<1>2. disk' = After(disk, hbuffer) /\ size' = SizeAfter(size, hbuffer)
  BY DEF Flush
<1>3. CASE hbuffer = {}
  <2>1. disk' = disk /\ size' = size
    BY <1>1, <1>2, <1>3, SizeAfterNone DEF After, Torn
  <2>2. QED
    BY <2>1 DEF SizeInv
<1>4. ASSUME NEW y \in hbuffer
      PROVE  SizeInv'
  <2>1. PICK e \in HandleChunks, q \in Payload : y = Data(e, q)
    BY <1>1, HandleBuffer DEF HandleChunks
  <2>2. e \in Published /\ e \in Known /\ hbuffer = {y}
    BY <1>1, <2>1 DEF Known, Published
  <2>3. y.at \in Nat /\ y.len \in Nat
        /\ (pc # "closed" => y.at + y.len <= gff.toc_location)
        /\ \A h \in Piece(disk, "header") : y.at + y.len <= h.what.toc_location
    BY <1>1, <2>1, <2>2, DataPlace
  <2>4. Directories(disk') = Directories(disk)
    BY <1>1, <1>2, <2>1, <2>2, ReadableStays
  <2>5. ASSUME NEW b \in Nat, size <= b, y.at + y.len <= b
        PROVE  size' <= b /\ size <= size' /\ size' \in Nat
    BY <1>1, <1>2, <2>2, <2>5, SizeBound
  <2>6. CASE pc = "closed"
    <3>1. ASSUME crashes = 0, NEW g \in Directories(disk)
          PROVE  Accounts(g) /\ size' = TocEnd(g)
      <4>1. Accounts(g) /\ size = TocEnd(g) /\ g \in Directory
        BY <1>1, <2>6, <3>1, DirectoryTypes DEF SizeInv, TypeInv, TypeOK
      <4>2. y.at + y.len <= g.toc_location
        BY <1>1, <2>3, Opened
      <4>3. y.at + y.len <= size
        BY <2>3, <4>1, <4>2 DEF TocEnd, Directory
      <4>4. size' = size
        BY <1>1, <2>5, <4>3
      <4>5. QED
        BY <4>1, <4>4
    <3>2. QED
      BY <2>4, <2>6, <3>1 DEF SizeInv
  <2>7. CASE pc # "closed"
    <3>1. ASSUME crashes = 0
          PROVE  /\ size' \in Nat /\ size <= size' /\ size' <= TocEnd(gff)
                 /\ size = TocEnd(gff) => size' = size
      <4>1. /\ gff \in Directory /\ size <= TocEnd(gff) /\ TocEnd(gff) \in Nat
            /\ gff.toc_location <= TocEnd(gff)
        BY <2>7, <3>1 DEF SizeInv, TypeInv, TypeOK, Directory, TocEnd
      <4>2. y.at + y.len <= TocEnd(gff)
        BY <2>3, <2>7, <4>1 DEF Directory
      <4>3. QED
        BY <1>1, <2>5, <4>1, <4>2
    <3>2. crashes = 0 => \A l \in Nat : l <= size => l <= size'
      BY <1>1, <3>1
    <3>3. gff.toc_location + TypesOffset + CountLen \in Nat
      BY DEF TypeInv, TypeOK, Directory, TypesOffset, CountLen
    <3>4. QED
      BY <2>7, <3>1, <3>2, <3>3 DEF SizeInv
  <2>8. QED
    BY <2>6, <2>7
<1>5. QED
  BY <1>3, <1>4

(* A step of the slot that flushes and keeps its directory.                *)
LEMMA PieceSize ==
    ASSUME TypeInv, WriterInv, SizeInv, Flush(buffer), UNCHANGED <<gff, crashes>>,
           pc # "closed", pc' # "closed",
           pc' = "idle" => pc = "idle" \/ (pc = "lists" /\ buffer' = {Lists(gff)}),
           pc' = "lists" => pc = "lists" \/ buffer' = {TypeCount(gff)}
    PROVE  SizeInv'
<1>1. size' = FlushedSize
  BY DEF Flush, FlushedSize
<1>2. QED
  BY <1>1, SizeFlush DEF SizeInv

(* A type or a chunk moves the counters by the bytes its entry takes.      *)
LEMMA AddTypeSize ==
    ASSUME TypeInv, WriterInv, SizeInv, NEW t \in Type, gff_add_type(t)
    PROVE  SizeInv'
<1>1. /\ pc = "idle" /\ pc' = "header" /\ t \notin gff.types
      /\ size' = FlushedSize /\ crashes' = crashes
  BY DEF gff_add_type, Flush, FlushedSize
<1>2. gff \in Directory /\ FiniteLists(gff)
  BY DEF TypeInv, TypeOK, Finite
<1>3. /\ gff'.types = gff.types \cup {t} /\ gff'.chunks = gff.chunks
      /\ gff'.seg = gff.seg /\ gff'.toc_location = gff.toc_location
      /\ gff'.toc_length = gff.toc_length + ListLen
      /\ gff'.free_list_offset = gff.free_list_offset + ListLen
  BY <1>2 DEF gff_add_type, Directory
<1>4. Cardinality(gff'.types) = Cardinality(gff.types) + 1
  BY <1>1, <1>2, <1>3, FS_AddElement DEF FiniteLists
<1>5. /\ Cardinality(gff.types) \in Nat /\ Cardinality(gff.chunks) \in Nat
      /\ Cardinality(gff.seg) \in Nat
  BY <1>2, FS_CardinalityType DEF FiniteLists
<1>6. ListBytes(gff') = ListBytes(gff) + ListLen /\ ListBytes(gff) \in Nat
  BY <1>3, <1>4, <1>5 DEF ListBytes, ListLen, ChunkLen, SegLen
<1>7. ASSUME crashes = 0
      PROVE  Accounts(gff') /\ size' <= TocEnd(gff')
  <2>1. /\ Accounts(gff) /\ FlushedSize \in Nat /\ FlushedSize = TocEnd(gff)
    BY <1>1, <1>7, SizeFlush
  <2>2. QED
    BY <1>1, <1>2, <1>3, <1>6, <2>1
       DEF Accounts, TocEnd, Directory, ListLen, TypesOffset, CountLen
<1>8. QED
  BY <1>1, <1>7 DEF SizeInv

LEMMA AddChunkSize ==
    ASSUME TypeInv, WriterInv, SizeInv,
           NEW t \in Type, NEW i \in Id, NEW p \in Payload, gff_add_chunk(t, i, p)
    PROVE  SizeInv'
<1> DEFINE new == NewChunk(t, i, p)
           toc == TocAfterChunk(size', p)
<1>1. /\ pc = "idle" /\ pc' = "header" /\ ~HasChunk(t, i)
      /\ size' = FlushedSize /\ crashes' = crashes
  BY DEF gff_add_chunk, Write, Flush, FlushedSize
<1>2. gff \in Directory /\ FiniteLists(gff)
  BY DEF TypeInv, TypeOK, Finite
<1>3. new \notin gff.chunks
  BY <1>1 DEF HasChunk, NewChunk
<1>4. Length[p] \in Nat /\ toc = WritePos(size') + Length[p]
  BY LengthAssumption DEF TocAfterChunk
<1>5. /\ gff'.chunks = gff.chunks \cup {new} /\ gff'.types = gff.types
      /\ gff'.seg = gff.seg /\ gff'.toc_location = toc
      /\ gff'.toc_length = gff.toc_length + ChunkLen
      /\ gff'.free_list_offset = gff.free_list_offset + ChunkLen
  BY <1>2 DEF gff_add_chunk, Directory
<1> HIDE DEF new, toc
<1>6. Cardinality(gff'.chunks) = Cardinality(gff.chunks) + 1
  BY <1>2, <1>3, <1>5, FS_AddElement DEF FiniteLists
<1>7. /\ Cardinality(gff.types) \in Nat /\ Cardinality(gff.chunks) \in Nat
      /\ Cardinality(gff.seg) \in Nat
  BY <1>2, FS_CardinalityType DEF FiniteLists
<1>8. ListBytes(gff') = ListBytes(gff) + ChunkLen /\ ListBytes(gff) \in Nat
  BY <1>5, <1>6, <1>7 DEF ListBytes, ListLen, ChunkLen, SegLen
<1>9. ASSUME crashes = 0
      PROVE  Accounts(gff') /\ size' <= TocEnd(gff')
  <2>1. /\ Accounts(gff) /\ FlushedSize \in Nat /\ FlushedSize = TocEnd(gff)
    BY <1>1, <1>9, SizeFlush
  <2>2. toc = gff.toc_location + Length[p]
    BY <1>1, <1>2, <1>4, <2>1 DEF WritePos, TocEnd, Directory
  <2>3. size' <= TocEnd(gff')
    BY <1>1, <1>2, <1>4, <1>5, <2>1, <2>2 DEF TocEnd, Directory, ChunkLen
  <2>4. Accounts(gff')
    BY <1>2, <1>5, <1>8, <2>1 DEF Accounts, Directory, ChunkLen, TypesOffset, CountLen
  <2>5. QED
    BY <2>3, <2>4
<1>10. QED
  BY <1>1, <1>9 DEF SizeInv

LEMMA CreateSize == ASSUME gff_create PROVE SizeInv'
<1>1. /\ pc' = "header" /\ size' = 0 /\ gff' = Created
  BY DEF gff_create
<1>2. /\ gff'.toc_location = HeaderLen /\ gff'.toc_length = TypesOffset + CountLen
      /\ gff'.free_list_offset = TypesOffset + CountLen
      /\ gff'.types = {} /\ gff'.seg = {} /\ gff'.chunks = {}
  BY <1>1 DEF Created, NoGff
<1>3. ListBytes(gff') = 0
  BY <1>2, FS_EmptySet DEF ListBytes, ListLen, ChunkLen, SegLen
<1>4. Accounts(gff') /\ size' <= TocEnd(gff')
  BY <1>1, <1>2, <1>3
     DEF Accounts, TocEnd, HeaderLen, TypesOffset, CountLen, TocBufSize
<1>5. QED
  BY <1>1, <1>4 DEF SizeInv

LEMMA OpenSize ==
    ASSUME TypeInv, WriterInv, SizeInv, gff_open
    PROVE  SizeInv'
<1>1. /\ pc = "closed" /\ pc' = "idle" /\ gff' \in Directories(disk)
      /\ UNCHANGED <<size, buffer, crashes>>
  BY DEF gff_open
<1>2. gff' \in Directory /\ FiniteLists(gff')
  BY <1>1, NextTypes DEF TypeInv, TypeOK, Finite, Next
<1>3. ASSUME crashes = 0
      PROVE  /\ Accounts(gff') /\ size = TocEnd(gff') /\ size \in Nat
             /\ gff'.toc_location + TypesOffset + CountLen <= size
  <2>1. Accounts(gff') /\ size = TocEnd(gff')
    BY <1>1, <1>3 DEF SizeInv
  <2>2. QED
    BY <1>2, <2>1, ListsEnd
<1>4. size <= size
  BY DEF TypeInv, TypeOK
<1>5. QED
  BY <1>1, <1>3, <1>4 DEF SizeInv

LEMMA NextSize ==
    TypeInv /\ WriterInv /\ SizeInv /\ OneReading' /\ [Next]_vars => SizeInv'
<1> SUFFICES ASSUME TypeInv, WriterInv, SizeInv, OneReading', [Next]_vars
             PROVE  SizeInv'
  OBVIOUS
<1>1. CASE gff_create
  BY <1>1, CreateSize
<1>2. CASE gff_open
  BY <1>2, OpenSize
<1>3. CASE gff_close
  BY <1>3, CloseSize
<1>4. CASE crash
  <2>1. crashes' # 0
    BY <1>4 DEF crash, TypeInv, TypeOK
  <2>2. QED
    BY <2>1 DEF SizeInv
<1>5. CASE exit_segmented
  <2>1. crashes' # 0
    BY <1>5 DEF exit_segmented, TypeInv, TypeOK
  <2>2. QED
    BY <2>1 DEF SizeInv
<1>6. CASE early_flush
  <2>1. CASE /\ buffer # {} /\ Flush(buffer) /\ buffer' = {}
             /\ UNCHANGED <<gff, pc, handle, hbuffer, crashes>>
    BY <2>1, BufferKinds, PieceSize DEF WriterInv
  <2>2. QED
    BY <1>6, <2>1, HandleSize DEF early_flush
<1>7. ASSUME NEW t \in Type, gff_add_type(t)
      PROVE  SizeInv'
  BY <1>7, AddTypeSize
<1>8. ASSUME NEW t \in Type, NEW i \in Id, RefuseDuplicate(t, i)
      PROVE  SizeInv'
  BY <1>8, PieceSize DEF RefuseDuplicate
<1>9. ASSUME NEW t \in Type, NEW i \in Id, NEW p \in Payload, gff_add_chunk(t, i, p)
      PROVE  SizeInv'
  BY <1>9, AddChunkSize
<1>10. CASE write_header
  BY <1>10, PieceSize DEF write_header, Write
<1>11. CASE write_toc_header
  BY <1>11, PieceSize DEF write_toc_header, Write
<1>12. CASE write_count
  BY <1>12, PieceSize DEF write_count, Write
<1>13. CASE write_lists
  BY <1>13, PieceSize DEF write_lists, Write
<1>14. ASSUME NEW c \in gff.chunks, NEW p \in Payload, gff_write_chunk(c, p)
       PROVE  SizeInv'
  BY <1>14, PieceSize DEF gff_write_chunk, Write
<1>15. CASE handle_open
  BY <1>15 DEF handle_open, SizeInv
<1>16. CASE handle_close
  BY <1>16, HandleSize DEF handle_close
<1>17. ASSUME NEW c \in handle.chunks, NEW p \in Payload, handle_write_chunk(c, p)
       PROVE  SizeInv'
  BY <1>17, HandleSize DEF handle_write_chunk
<1>18. CASE UNCHANGED vars
  BY <1>18 DEF vars, SizeInv
<1>19. QED
  BY <1>1, <1>2, <1>3, <1>4, <1>5, <1>6, <1>7, <1>8, <1>9, <1>10, <1>11, <1>12,
     <1>13, <1>14, <1>15, <1>16, <1>17, <1>18 DEF Next

(* Files whose counters are right and whose free list fits write_toc's     *)
(* buffer.                                                                 *)
CountersAreRight == \A f \in ExistingFiles : Accounts(f.gff)

LEMMA InitSize ==
    ASSUME TocsAreLast, CountersAreRight
    PROVE  Init => SizeInv
<1> SUFFICES ASSUME Init
             PROVE  SizeInv
  OBVIOUS
<1>1. pc = "closed" /\ TypeInv /\ WriterInv
  BY InitTypes, InitLayout, InitDirectory DEF Init, TocsAreLast, WriterInv
<1>2. CASE disk = {}
  <2>1. Directories(disk) = {}
    BY <1>2 DEF Directories, Piece
  <2>2. QED
    BY <1>1, <2>1 DEF SizeInv
<1>3. ASSUME NEW f \in ExistingFiles, disk = FileOf(f), size = f.size
      PROVE  SizeInv
  <2>1. WellFormed(f) /\ TocIsLast(f) /\ Accounts(f.gff)
    BY ExistingAssumption DEF TocsAreLast, CountersAreRight
  <2>2. f.gff \in Directories(disk)
    BY <1>3, ExistingOpens
  <2>3. \A g \in Directories(disk) : g = f.gff
    BY <1>1, <2>2, InvOneReading DEF OneReading
  <2>4. QED
    BY <1>1, <1>3, <2>1, <2>3 DEF SizeInv, TocIsLast, TocEnd
<1>4. QED
  BY <1>2, <1>3 DEF Init

(* gff_add_chunk recognises a table of contents that is last by comparing  *)
(* the size of the file with two counters kept by hand.  Without a crash   *)
(* the counters account for every byte whenever the slot is idle, so the   *)
(* comparison always succeeds and no table is ever left behind.            *)
THEOREM TocEndsTheFile ==
    ASSUME TocsAreLast, CountersAreRight
    PROVE  Spec => []TocEndsFile
<1>1. Init => SizeInv
  BY InitSize
<1>2. TypeInv /\ WriterInv /\ SizeInv /\ (TypeInv /\ WriterInv)' /\ [Next]_vars => SizeInv'
  BY NextSize, OneReadingAfter
<1>3. SizeInv => TocEndsFile
  BY DEF SizeInv, Accounts, TocEnd, TocEndsFile, Idle
<1>4. QED
  BY <1>1, <1>2, <1>3, WriterInductive, PTL DEF Spec
=============================================================================
