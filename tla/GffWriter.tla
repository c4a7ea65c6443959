------------------------------ MODULE GffWriter ------------------------------
(***************************************************************************)
(* The writing half of src/src/gff.c: a slot of open_files that creates a  *)
(* GFF file or opens an existing one, adds types and chunks to it and      *)
(* rewrites chunks in place, while another handle on the same path reads   *)
(* and rewrites chunks.                                                    *)
(*                                                                         *)
(* A file is a set of extents: the pieces written by one fwrite each and   *)
(* still whole.  Writing a piece destroys every extent it overlaps.  The   *)
(* C library buffers the last piece of a FILE; fseek and fclose flush it,  *)
(* and the library may flush it earlier.  write_toc is several fwrites     *)
(* with an fseek before each, so the file goes through one state per       *)
(* piece and the process may die in any of them.                           *)
(***************************************************************************)
EXTENDS Integers, FiniteSetsExt

CONSTANTS
    Type, Id, Payload,
    Length,             \* Length[p] is the number of bytes of payload p
    ExistingFiles,      \* the files a slot may find at its path
    NoHandle,           \* the other handle is closed
    MaxCrashes          \* bound: how often the slot's process may die

(* sizeof of the structures of include/gff/common.h *)
HeaderLen == 28         \* gff_file_header_t
TocHeaderLen == 8       \* gff_toc_header_t
TypesOffset == 8        \* toc.types_offset
CountLen == 2           \* num_types, a uint16_t
ListLen == 8            \* chunk_type and chunk_count of one type
ChunkLen == 12          \* gff_chunk_header_t
SegLen == 20            \* seg_header_t and one gff_seg_entry_t
TocBufSize == 1024      \* TOC_BUF_SIZE

ASSUME LengthAssumption == Length \in [Payload -> Nat]

(* Payloads are byte strings: without bytes there is only one.             *)
ASSUME EmptyAssumption ==
    \A p, q \in Payload : Length[p] = 0 /\ Length[q] = 0 => p = q

Chunk == [type : Type, id : Id, location : Nat, length : Nat]

(* The directory a gff_file_t caches: where the table of contents is, the  *)
(* types (seg: those stored as segments) and the chunk headers.            *)
Directory == [toc_location : Nat, toc_length : Nat, free_list_offset : Nat,
              types : SUBSET Type, seg : SUBSET Type, chunks : SUBSET Chunk]

(* Directories hold finitely many types and chunks.                        *)
FiniteLists(g) ==
    IsFiniteSet(g.types) /\ IsFiniteSet(g.seg) /\ IsFiniteSet(g.chunks)

NoGff == [toc_location |-> 0, toc_length |-> 0, free_list_offset |-> 0,
          types |-> {}, seg |-> {}, chunks |-> {}]

------------------------------------------------------------------------------
(* The pieces of a file.                                                   *)

Extent(at, len, what) == [at |-> at, len |-> len, what |-> what]

Header(g) ==
    Extent(0, HeaderLen, [kind |-> "header", toc_location |-> g.toc_location,
                          toc_length |-> g.toc_length])

TocHeader(g) ==
    Extent(g.toc_location, TocHeaderLen,
           [kind |-> "toc", free_list_offset |-> g.free_list_offset])

TypeCount(g) ==
    Extent(g.toc_location + TypesOffset, CountLen,
           [kind |-> "count", num_types |-> Cardinality(g.types)])

(* The bytes of the type and chunk lists.                                  *)
ListBytes(g) ==
    ListLen * Cardinality(g.types) + ChunkLen * Cardinality(g.chunks)
        + SegLen * Cardinality(g.seg)

(* Mutant: the free list is not written again.                             *)
NoFreeBytes(g) == 0

(* The free list written after the lists: as many zeros as the header      *)
(* claims, none when they do not fit the static buffer.                    *)
FreeBytes(g) ==
    LET claimed == g.toc_length - g.free_list_offset
    IN  IF claimed \in 0 .. TocBufSize THEN claimed ELSE 0

Lists(g) ==
    Extent(g.toc_location + TypesOffset + CountLen, ListBytes(g) + FreeBytes(g),
           [kind |-> "lists", types |-> g.types, seg |-> g.seg,
            chunks |-> g.chunks])

Data(c, p) ==
    Extent(c.location, c.length,
           [kind |-> "data", type |-> c.type, id |-> c.id, payload |-> p])

Toc(g) == {Header(g), TocHeader(g), TypeCount(g), Lists(g)}

Overlap(x, y) ==
    /\ x.len > 0 /\ y.len > 0
    /\ x.at < y.at + y.len
    /\ y.at < x.at + x.len

(* The extents left of d when the pieces in w (at most one) are written.   *)
Torn(d, w) == {x \in d : \A y \in w : ~Overlap(x, y)}
After(d, w) == Torn(d, w) \cup w
SizeAfter(s, w) == Max({s} \cup {y.at + y.len : y \in {z \in w : z.len > 0}})

Whole(d, c) == \E p \in Payload : Length[p] = c.length /\ Data(c, p) \in d

(* gff_read_headers: the directories in the file, what the header, the     *)
(* table of contents it points to, the count and the lists agree on.  When *)
(* the count is zero no lists are read.                                    *)
Piece(d, k) == {x \in d : x.what.kind = k}

NoLists == Extent(0, 0, [kind |-> "lists", types |-> {}, seg |-> {}, chunks |-> {}])

ListsBehind(n, x) ==
    \/ n.what.num_types = 0 /\ x = NoLists
    \/ /\ x.at = n.at + CountLen
       /\ n.what.num_types = Cardinality(x.what.types)

Directories(d) ==
    {[toc_location |-> q[1].what.toc_location,
      toc_length |-> q[1].what.toc_length,
      free_list_offset |-> q[2].what.free_list_offset,
      types |-> q[4].what.types, seg |-> q[4].what.seg,
      chunks |-> q[4].what.chunks] :
        q \in {r \in Piece(d, "header") \X Piece(d, "toc") \X Piece(d, "count")
                      \X (Piece(d, "lists") \cup {NoLists}) :
                 /\ r[2].at = r[1].what.toc_location
                 /\ r[3].at = r[2].at + TypesOffset
                 /\ ListsBehind(r[3], r[4])}}

(* Where there is none the code may still open the file: it looks at       *)
(* whether it got the two headers and the count, not at what they say, and *)
(* not at how much of the lists it got.  What it shows then is garbage.    *)
Garbage(d, s) ==
    /\ Directories(d) = {}
    /\ HeaderLen <= s
    /\ \A h \in Piece(d, "header") : h.what.toc_location + TocHeaderLen <= s

End(c) == c.location + c.length
Apart(c, d) == End(c) <= d.location \/ End(d) <= c.location

(* Every existing file is a whole GFF: its pieces lie apart from each      *)
(* other, behind the header and inside the file.                           *)
FileOf(f) == Toc(f.gff) \cup {Data(c, f.payload[c]) : c \in f.gff.chunks}

WellFormed(f) ==
    /\ f.gff \in Directory
    /\ f.gff.seg \subseteq f.gff.types
    /\ FiniteLists(f.gff)
    /\ \A c \in f.gff.chunks :
          /\ c.type \in f.gff.types \ f.gff.seg
          /\ f.payload[c] \in Payload /\ Length[f.payload[c]] = c.length
          /\ HeaderLen <= c.location
    /\ \A c, d \in f.gff.chunks :
          c # d => Apart(c, d) /\ <<c.type, c.id>> # <<d.type, d.id>>
    /\ f.size \in Nat
    /\ \A x \in FileOf(f) : x.at + x.len <= f.size
    /\ \A x, y \in FileOf(f) : Overlap(x, y) => x = y

ASSUME ExistingAssumption == \A f \in ExistingFiles : WellFormed(f)

------------------------------------------------------------------------------
VARIABLES
    disk,      \* the whole extents of the file
    size,      \* its size in bytes
    gff,       \* the slot's cached header, table of contents and directory
    pc,        \* the slot: "closed", "idle", or the next piece of write_toc
    buffer,    \* the piece the slot's FILE has buffered: at most one
    handle,    \* the other handle's cached directory, or NoHandle
    hbuffer,   \* the piece the other handle's FILE has buffered
    listed,    \* history: the types and chunks of the last lists on the disk
    crashes    \* history: how often the slot's process died, or ended itself

vars == <<disk, size, gff, pc, buffer, handle, hbuffer, listed, crashes>>

ListedAfter(l, w) ==
    IF \E x \in w : x.what.kind = "lists"
    THEN LET x == CHOOSE y \in w : y.what.kind = "lists"
         IN  [types |-> x.what.types, chunks |-> x.what.chunks]
    ELSE l

(* The bytes of w reach the file.                                          *)
Flush(w) ==
    /\ disk' = After(disk, w)
    /\ size' = SizeAfter(size, w)
    /\ listed' = ListedAfter(listed, w)

(* fseek: what was buffered reaches the file; fwrite: x is buffered.       *)
Write(x) == Flush(buffer) /\ buffer' = {x}

Init ==
    /\ \/ /\ disk = {} /\ size = 0
          /\ listed = [types |-> {}, chunks |-> {}]
       \/ \E f \in ExistingFiles :
             /\ disk = FileOf(f) /\ size = f.size
             /\ listed = [types |-> f.gff.types, chunks |-> f.gff.chunks]
    /\ gff = NoGff
    /\ pc = "closed"
    /\ buffer = {} /\ hbuffer = {}
    /\ handle = NoHandle
    /\ crashes = 0

(* The empty directory gff_create starts from.                             *)
Created == [NoGff EXCEPT !.toc_location = HeaderLen,
                         !.toc_length = TypesOffset + CountLen,
                         !.free_list_offset = TypesOffset + CountLen]

(* fopen "wb+" truncates.  Creating under an open handle is left to the    *)
(* slot table: two owners of one path.                                     *)
gff_create ==
    /\ pc = "closed" /\ handle = NoHandle
    /\ disk' = {} /\ size' = 0
    /\ listed' = [types |-> {}, chunks |-> {}]
    /\ gff' = Created
    /\ pc' = "header"
    /\ UNCHANGED <<buffer, handle, hbuffer, crashes>>

(* gff_open reads the headers: it ends the process when one is too short   *)
(* to be there, opens the file as its directory, or as garbage.  Bound:    *)
(* what a caller does with garbage is not followed, the slot stays closed. *)
gff_open ==
    /\ pc = "closed"
    /\ gff' \in Directories(disk)
    /\ pc' = "idle"
    /\ UNCHANGED <<disk, size, buffer, handle, hbuffer, listed, crashes>>

(* Mutant: toc_length is not adjusted.                                     *)
AddTypeKeepsLength(t) ==
    /\ pc = "idle"
    /\ t \notin gff.types
    /\ Flush(buffer) /\ buffer' = {}
    /\ gff' = [gff EXCEPT !.types = @ \cup {t}, !.free_list_offset = @ + ListLen]
    /\ pc' = "header"
    /\ UNCHANGED <<handle, hbuffer, crashes>>

(* write_toc starts with the fseek that flushes what was buffered.         *)
gff_add_type(t) ==
    /\ pc = "idle"
    /\ t \notin gff.types
    /\ Flush(buffer) /\ buffer' = {}
    /\ gff' = [gff EXCEPT !.types = @ \cup {t},
                          !.toc_length = @ + ListLen,
                          !.free_list_offset = @ + ListLen]
    /\ pc' = "header"
    /\ UNCHANGED <<handle, hbuffer, crashes>>

(* Mutant: the scan for the id never matches.                              *)
MissesDuplicate(t, i) == FALSE
HasChunk(t, i) == \E c \in gff.chunks : c.type = t /\ c.id = i

(* A duplicate is refused, after the fseek to the end of the file.         *)
RefuseDuplicate(t, i) ==
    /\ pc = "idle"
    /\ t \in gff.types \ gff.seg
    /\ HasChunk(t, i)
    /\ Flush(buffer)
    /\ buffer' = {}
    /\ UNCHANGED <<gff, pc, handle, hbuffer, crashes>>

(* The new chunk goes where the table of contents was; the table moves     *)
(* behind it when it is the last thing in the file, else to the end.       *)
NewChunk(t, i, p) ==
    [type |-> t, id |-> i, location |-> gff.toc_location, length |-> Length[p]]

WritePos(end) ==
    IF end = gff.toc_length + gff.toc_location THEN gff.toc_location ELSE end

(* Mutant: write_pos += len is missing.                                    *)
TocOverChunk(end, p) == WritePos(end)
TocAfterChunk(end, p) == WritePos(end) + Length[p]

(* Mutant: chunk and table go behind the old table, the header stays.      *)
AddWithoutHeader(t, i, p) ==
    LET new == [NewChunk(t, i, p) EXCEPT !.location = size']
    IN  /\ pc = "idle"
        /\ t \in gff.types \ gff.seg
        /\ ~HasChunk(t, i)
        /\ Write(Data(new, p))
        /\ gff' = [gff EXCEPT !.chunks = @ \cup {new},
                              !.toc_location = size' + Length[p],
                              !.toc_length = @ + ChunkLen,
                              !.free_list_offset = @ + ChunkLen]
        /\ pc' = "toc"
        /\ UNCHANGED <<handle, hbuffer, crashes>>

gff_add_chunk(t, i, p) ==
    /\ pc = "idle"
    /\ t \in gff.types \ gff.seg
    /\ ~HasChunk(t, i)
    /\ Write(Data(NewChunk(t, i, p), p))
    /\ gff' = [gff EXCEPT !.chunks = @ \cup {NewChunk(t, i, p)},
                          !.toc_location = TocAfterChunk(size', p),
                          !.toc_length = @ + ChunkLen,
                          !.free_list_offset = @ + ChunkLen]
    /\ pc' = "header"
    /\ UNCHANGED <<handle, hbuffer, crashes>>

------------------------------------------------------------------------------
(* write_toc, one piece at a time.                                         *)

(* Mutant: the header is not rewritten.                                    *)
skip_header ==
    /\ pc = "header" /\ pc' = "toc"
    /\ Flush(buffer) /\ buffer' = {}
    /\ UNCHANGED <<gff, handle, hbuffer, crashes>>

write_header ==
    /\ pc = "header" /\ pc' = "toc"
    /\ Write(Header(gff))
    /\ UNCHANGED <<gff, handle, hbuffer, crashes>>

write_toc_header ==
    /\ pc = "toc" /\ pc' = "count"
    /\ Write(TocHeader(gff))
    /\ UNCHANGED <<gff, handle, hbuffer, crashes>>

(* Mutant: the count is written at the table's start, not types_offset.    *)
count_at_toc ==
    /\ pc = "count" /\ pc' = "lists"
    /\ Write([TypeCount(gff) EXCEPT !.at = gff.toc_location])
    /\ UNCHANGED <<gff, handle, hbuffer, crashes>>

write_count ==
    /\ pc = "count" /\ pc' = "lists"
    /\ Write(TypeCount(gff))
    /\ UNCHANGED <<gff, handle, hbuffer, crashes>>

write_lists ==
    /\ pc = "lists" /\ pc' = "idle"
    /\ gff.seg = {}
    /\ Write(Lists(gff))
    /\ UNCHANGED <<gff, handle, hbuffer, crashes>>

(* A segmented type cannot be written: exit(1) after the lists before it,  *)
(* whose bytes exit flushes.                                               *)
exit_segmented ==
    /\ pc = "lists" /\ pc' = "closed"
    /\ gff.seg # {}
    /\ disk' = Torn(After(disk, buffer), {Lists(gff)})
    /\ size' = SizeAfter(size, buffer)
    /\ listed' = ListedAfter(listed, buffer)
    /\ gff' = NoGff
    /\ buffer' = {}
    /\ crashes' = crashes + 1
    /\ UNCHANGED <<handle, hbuffer>>

------------------------------------------------------------------------------
(* gff_write_chunk overwrites the bytes of a chunk of the cached           *)
(* directory, through the slot or through the other handle.                *)
Fits(c, p) == Length[p] = c.length

gff_write_chunk(c, p) ==
    /\ pc = "idle" /\ Fits(c, p)
    /\ Write(Data(c, p))
    /\ UNCHANGED <<gff, pc, handle, hbuffer, crashes>>

handle_open ==
    /\ handle = NoHandle
    /\ handle' \in Directories(disk)
    /\ UNCHANGED <<disk, size, gff, pc, buffer, hbuffer, listed, crashes>>

(* Mutant: the payload's length is written, not the chunk's.               *)
handle_write_all(c, p) ==
    /\ Flush(hbuffer)
    /\ hbuffer' = {Data([c EXCEPT !.length = Length[p]], p)}
    /\ UNCHANGED <<gff, pc, buffer, handle, crashes>>

handle_write_chunk(c, p) ==
    /\ Fits(c, p)
    /\ Flush(hbuffer)
    /\ hbuffer' = {Data(c, p)}
    /\ UNCHANGED <<gff, pc, buffer, handle, crashes>>

handle_close ==
    /\ handle # NoHandle /\ handle' = NoHandle
    /\ Flush(hbuffer)
    /\ hbuffer' = {}
    /\ UNCHANGED <<gff, pc, buffer, crashes>>

(* Mutant: the FILE is dropped, not closed.                                *)
close_unflushed ==
    /\ pc = "idle" /\ pc' = "closed"
    /\ gff' = NoGff
    /\ buffer' = {}
    /\ UNCHANGED <<disk, size, handle, hbuffer, listed, crashes>>

gff_close ==
    /\ pc = "idle" /\ pc' = "closed"
    /\ Flush(buffer)
    /\ buffer' = {}
    /\ gff' = NoGff
    /\ UNCHANGED <<handle, hbuffer, crashes>>

(* The library flushes a FILE before it is asked to.                       *)
early_flush ==
    \/ /\ buffer # {}
       /\ Flush(buffer) /\ buffer' = {}
       /\ UNCHANGED <<gff, pc, handle, hbuffer, crashes>>
    \/ /\ hbuffer # {}
       /\ Flush(hbuffer) /\ hbuffer' = {}
       /\ UNCHANGED <<gff, pc, buffer, handle, crashes>>

(* A piece longer than the stdio buffer reaches the file in several        *)
(* writes: the lists and the data of a new chunk.  Bound: a chunk          *)
(* rewritten in place fits the buffer.                                     *)
Long(w) == {x \in w : \/ x.what.kind = "lists"
                      \/ x.what.kind = "data" /\ pc = "header"}

(* The slot's process dies: what was buffered is lost, or part of a long   *)
(* piece has replaced what was there.                                      *)
crash ==
    /\ pc # "closed" /\ pc' = "closed"
    /\ crashes < MaxCrashes /\ crashes' = crashes + 1
    /\ \/ UNCHANGED disk
       \/ disk' = Torn(disk, Long(buffer))
    /\ gff' = NoGff
    /\ buffer' = {}
    /\ UNCHANGED <<size, handle, hbuffer, listed>>

Next ==
    \/ gff_create \/ gff_open \/ gff_close \/ crash \/ early_flush
    \/ \E t \in Type :
          \/ gff_add_type(t)
          \/ \E i \in Id : RefuseDuplicate(t, i)
          \/ \E i \in Id, p \in Payload : gff_add_chunk(t, i, p)
    \/ write_header \/ write_toc_header \/ write_count
    \/ write_lists \/ exit_segmented
    \/ \E c \in gff.chunks, p \in Payload : gff_write_chunk(c, p)
    \/ handle_open \/ handle_close
    \/ handle # NoHandle /\ \E c \in handle.chunks, p \in Payload :
                               handle_write_chunk(c, p)

Spec == Init /\ [][Next]_vars

(* write_toc is straight-line code, and an application closes its files.   *)
write_toc == write_header \/ write_toc_header \/ write_count \/ write_lists
FairSpec == Spec /\ WF_vars(write_toc) /\ WF_vars(gff_close)

------------------------------------------------------------------------------
(* Types.                                                                  *)

Pcs == {"closed", "idle", "header", "toc", "count", "lists"}

What ==
    [kind : {"header"}, toc_location : Nat, toc_length : Nat]
    \cup [kind : {"toc"}, free_list_offset : Nat]
    \cup [kind : {"count"}, num_types : Nat]
    \cup [kind : {"lists"}, types : SUBSET Type, seg : SUBSET Type,
          chunks : SUBSET Chunk]
    \cup [kind : {"data"}, type : Type, id : Id, payload : Payload]

Extents == [at : Nat, len : Nat, what : What]

TypeOK ==
    /\ disk \cup buffer \cup hbuffer \subseteq Extents
    /\ \A x, y \in buffer : x = y
    /\ \A x, y \in hbuffer : x = y
    /\ size \in Nat
    /\ gff \in Directory
    /\ pc \in Pcs
    /\ crashes \in Nat
    /\ handle \in Directory \cup {NoHandle}
    /\ listed \in [types : SUBSET Type, chunks : SUBSET Chunk]

------------------------------------------------------------------------------
(* Safety.                                                                 *)

Idle == pc = "idle" /\ buffer = {}

(* Chunks of a directory lie between the file header and the table of      *)
(* contents and never share a byte: what gff_add_chunk's choice of         *)
(* location and write_pos must guarantee.                                  *)
Layout ==
    /\ \A c \in gff.chunks :
          /\ HeaderLen <= c.location
          /\ End(c) <= gff.toc_location
    /\ \A c, d \in gff.chunks : c # d => Apart(c, d)

(* gff_add_chunk recognises "the table of contents is last" by comparing   *)
(* the file's size with two counters kept by hand.  After every operation  *)
(* the counters account for every byte, so the comparison succeeds.  A     *)
(* crash breaks this: a header that claims a longer table of contents may  *)
(* be all that was written of an update.                                   *)
TocEndsFile ==
    Idle /\ crashes = 0 => /\ size = gff.toc_location + gff.toc_length
            /\ gff.free_list_offset = TypesOffset + CountLen + ListBytes(gff)

(* gff.c says of a new chunk: "Now write the new chunk to the end of the   *)
(* file."  No chunk that is already there lies behind its first byte.      *)
NewChunkIsLast ==
    [][\A new \in gff'.chunks \ gff.chunks, c \in gff.chunks :
          pc = "idle" => End(c) <= new.location]_vars

(* Whatever the writer was doing when one looks (or when it died), the     *)
(* bytes of every chunk that was ever listed are whole on the disk.        *)
DataNeverLost == \A c \in listed.chunks : Whole(disk, c)

(* A file that holds a directory holds one, and it shows exactly the last  *)
(* lists that were completed: no mix of an old header, count or table with *)
(* newer lists.  Between operations, once the lists have left the          *)
(* library's buffer, it holds the directory the slot has in memory, so     *)
(* closing and opening it again changes nothing.                           *)
(*   A torn file opens without an error, as garbage.  Only somebody who    *)
(* opens it while a table is written or is still in the buffer sees that,  *)
(* or who finds the file of a process that died: never of one that closed. *)
InTable == pc \in {"header", "toc", "count", "lists"} \/ buffer = {Lists(gff)}

OpensAsListed ==
    LET ds == Directories(disk)
    IN  /\ Cardinality(ds) <= 1
        /\ \A d \in ds : d.types = listed.types /\ d.chunks = listed.chunks
        /\ pc = "idle" => InTable \/ ds = {gff}
        /\ InTable \/ crashes > 0 \/ ~Garbage(disk, size)

(* A handle keeps the directory it read at open while the slot goes on     *)
(* adding: every chunk header it has cached still names whole bytes.       *)
HandleStaysValid ==
    handle # NoHandle => \A c \in handle.chunks : Whole(disk, c)

(* The file refines the image it promises.                                 *)
KeyOf(c) == <<c.type, c.id>>
PayloadsAt(k) ==
    {p \in Payload : \E c \in listed.chunks : KeyOf(c) = k /\ Data(c, p) \in disk}
PayloadAt(k) ==
    IF Cardinality(PayloadsAt(k)) = 1
    THEN CHOOSE p \in Payload : p \in PayloadsAt(k)
    ELSE "lost"

Content == [k \in {KeyOf(c) : c \in listed.chunks} |-> PayloadAt(k)]

Image == INSTANCE GffImage
    WITH whole <- Directories(disk) # {},
         types <- listed.types,
         content <- Content

(* Every step of the writer, the handle, the library and a crash is a step *)
(* of the image or leaves it alone: chunks are published once, one at a    *)
(* time and with their own payload, and only gff_write_chunk changes one.  *)
RefinesImage == Image!Spec

(* The chunk gff_add_chunk accepted is, at some time after, in the lists   *)
(* of a file that holds them, although its last piece stays in the library's    *)
(* buffer and no later call is promised but gff_close.                     *)
Accepted(t, i) == \E c \in gff.chunks : KeyOf(c) = <<t, i>>
Readable(t, i) == Directories(disk) # {} /\ \E c \in listed.chunks : KeyOf(c) = <<t, i>>
AddedIsPublished == \A t \in Type, i \in Id : Accepted(t, i) ~> Readable(t, i)

------------------------------------------------------------------------------
(* The inductive invariant behind Layout, DataNeverLost and                *)
(* HandleStaysValid.  It speaks about every chunk somebody may still use:  *)
(* listed, cached by the other handle, or named by any whole lists.        *)

TocIsLast(f) ==
    /\ f.size = f.gff.toc_location + f.gff.toc_length
    /\ \A c \in f.gff.chunks : End(c) <= f.gff.toc_location

HandleChunks == IF handle = NoHandle THEN {} ELSE handle.chunks
Named(d) == UNION {x.what.chunks : x \in Piece(d, "lists")}
Published == listed.chunks \cup HandleChunks \cup Named(disk \cup buffer)
Known == Published \cup gff.chunks

(* c lies before every table of contents a header on the disk points to.   *)
BeforeToc(c) == \A h \in Piece(disk, "header") : End(c) <= h.what.toc_location

IsData(w, S) ==
    \E c \in S, p \in Payload : w = {Data(c, p)} /\ Length[p] = c.length

ChunksApart ==
    /\ \A c \in Known : HeaderLen <= c.location
    /\ \A c, d \in Known : c # d => Apart(c, d)

BehindChunks ==
    /\ pc # "closed" => /\ HeaderLen <= gff.toc_location
                        /\ \A c \in Known : End(c) <= gff.toc_location
    /\ \A c \in Published : BeforeToc(c)
    /\ pc \in {"count", "lists"} => \A c \in gff.chunks : BeforeToc(c)
    /\ pc = "toc" => \/ buffer = {Header(gff)}
                     \/ \A c \in gff.chunks : BeforeToc(c)

HeaderAtStart ==
    \A h \in Piece(disk, "header") :
       h.at = 0 /\ h.len = HeaderLen /\ HeaderLen <= h.what.toc_location

BytesWhole ==
    /\ \A c \in Published : Whole(disk, c)
    /\ \A c \in gff.chunks : Whole(disk \cup buffer, c)

(* What the library may have buffered, by what the slot did last.          *)
BufferOK ==
    \/ buffer = {}
    \/ /\ pc = "header"
       /\ \E c \in gff.chunks, p \in Payload :
             /\ buffer = {Data(c, p)} /\ Length[p] = c.length
             /\ c.length > 0 => c \notin Published
    \/ pc = "toc" /\ buffer = {Header(gff)}
    \/ pc = "count" /\ buffer = {TocHeader(gff)}
    \/ pc = "lists" /\ buffer = {TypeCount(gff)}
    \/ pc = "idle" /\ (buffer = {Lists(gff)} \/ IsData(buffer, gff.chunks))

HBufferOK ==
    hbuffer = {} \/ (handle # NoHandle /\ IsData(hbuffer, handle.chunks))

(* The file reaches to its table of contents once that was written.        *)
SizeReachesToc ==
    /\ \A x \in Piece(disk, "toc") : x.at <= size
    /\ pc \in {"lists", "idle"} => gff.toc_location <= size
    /\ pc = "count" => buffer = {TocHeader(gff)} \/ gff.toc_location <= size

Finite ==
    /\ FiniteLists(gff)
    /\ \A x \in Piece(disk \cup buffer \cup hbuffer, "lists") : FiniteLists(x.what)

ClosedIsEmpty == pc = "closed" => gff.chunks = {}

LayoutInv ==
    /\ ClosedIsEmpty
    /\ ChunksApart /\ BehindChunks /\ HeaderAtStart /\ BytesWhole
    /\ BufferOK /\ HBufferOK /\ SizeReachesToc

------------------------------------------------------------------------------
(* What OpensAsListed and the refinement need besides: which tables of     *)
(* contents can lie where a header points to.                              *)

(* Chunks carry a type of their directory and each key occurs once.        *)
Keyed(g) ==
    /\ \A c \in g.chunks : c.type \in g.types
    /\ \A c, d \in g.chunks : KeyOf(c) = KeyOf(d) => c = d

Sound(g) == Keyed(g) /\ g.seg \subseteq g.types

(* Every piece has the length of its structure, a chunk's bytes are one of *)
(* its payloads, and whole pieces share no byte.                           *)
Shaped(x) ==
    /\ x.what.kind = "toc" => x.len = TocHeaderLen
    /\ x.what.kind = "count" => x.len = CountLen
    /\ x.what.kind = "lists" =>
          Sound(x.what) /\ (x.len = 0 => x.what.types = {})
    /\ x.what.kind = "data" => Length[x.what.payload] = x.len

PiecesApart(d) ==
    /\ \A x \in d : Shaped(x)
    /\ \A x, y \in d : Overlap(x, y) => x = y

(* No count and no lists of d lie behind those of a table of contents at   *)
(* loc, and those found there are the last that were completed, l: a table *)
(* that was left behind is never read again.                               *)
LastTable(d, l, loc) ==
    /\ \A x \in Piece(d, "lists") :
          /\ x.at <= loc + TypesOffset + CountLen
          /\ x.at = loc + TypesOffset + CountLen /\ x.len > 0 =>
                x.what.types = l.types /\ x.what.chunks = l.chunks
    /\ \A x \in Piece(d, "count") :
          /\ x.at <= loc + TypesOffset
          /\ x.at = loc + TypesOffset /\ x.what.num_types = 0 => l.types = {}

NoStaleTable ==
    /\ \A h \in Piece(disk, "header") : LastTable(disk, listed, h.what.toc_location)
    /\ pc # "closed" => LastTable(disk, listed, gff.toc_location)

(* The pieces write_toc has written so far are on the disk or buffered.    *)
ListsOf(x, g) ==
    /\ x.what.kind = "lists" /\ x.at = g.toc_location + TypesOffset + CountLen
    /\ x.what.types = g.types /\ x.what.seg = g.seg /\ x.what.chunks = g.chunks

TocWritten ==
    /\ pc \in {"count", "lists", "idle"} => Header(gff) \in disk
    /\ pc \in {"lists", "idle"} => TocHeader(gff) \in disk
    /\ pc = "idle" => /\ TypeCount(gff) \in disk
                      /\ \/ gff.types = {}
                         \/ \E x \in disk \cup buffer : ListsOf(x, gff)
    /\ pc = "toc" => Header(gff) \in disk \cup buffer
    /\ pc = "count" => TocHeader(gff) \in disk \cup buffer
    /\ pc = "lists" => TypeCount(gff) \in disk \cup buffer

(* The directory g shows what l lists, or one type or one chunk more.      *)
Shows(g, l) == g.types = l.types /\ g.chunks = l.chunks

OneAhead(g, l) ==
    \/ Shows(g, l)
    \/ /\ g.chunks = l.chunks
       /\ \E t \in g.types \ l.types : g.types = l.types \cup {t}
    \/ /\ g.types = l.types
       /\ \E c \in g.chunks \ l.chunks : g.chunks = l.chunks \cup {c}

ListedInStep ==
    /\ HandleChunks \subseteq listed.chunks
    /\ pc # "closed" => OneAhead(gff, listed)
    /\ pc = "idle" => buffer = {Lists(gff)} \/ Shows(gff, listed)

DirectoryInv ==
    /\ Keyed(listed) /\ Sound(gff)
    /\ PiecesApart(disk)
    /\ NoStaleTable /\ TocWritten /\ ListedInStep

(* The inductive invariant of the writer.                                  *)
WriterInv == LayoutInv /\ DirectoryInv

(* The counters of a directory account for its lists and its free list.    *)
Accounts(g) ==
    /\ g.free_list_offset = TypesOffset + CountLen + ListBytes(g)
    /\ g.toc_length - g.free_list_offset \in 0 .. TocBufSize

TocEnd(g) == g.toc_location + g.toc_length

(* What OpensAsListed needs besides: a process that closed its files left  *)
(* them whole.                                                             *)
ClosedWhole ==
    pc = "closed" /\ crashes = 0 =>
       \/ Directories(disk) # {}
       \/ disk = {} /\ size = 0

(* What TocEndsFile needs besides, as long as no crash has happened: no    *)
(* flush reaches behind the end the counters claim, and the last one does  *)
(* reach it.                                                               *)
SizeInv ==
    crashes = 0 =>
       /\ pc = "closed" => \A g \in Directories(disk) : Accounts(g) /\ size = TocEnd(g)
       /\ pc # "closed" => Accounts(gff) /\ size <= TocEnd(gff)
       /\ pc = "lists" => \/ buffer = {TypeCount(gff)}
                          \/ gff.toc_location + TypesOffset + CountLen <= size
       /\ pc = "idle" => /\ gff.toc_location + TypesOffset + CountLen <= size
                         /\ buffer = {Lists(gff)} \/ size = TocEnd(gff)
=============================================================================
