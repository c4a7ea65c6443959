------------------------------ MODULE Resources ------------------------------
(***************************************************************************)
(* The typed resources of a file.  Every gff_load_... allocates a block    *)
(* and leaves it to the caller, every gff_read_... fills a buffer of the   *)
(* caller; all of them find the chunk (ChunkLookup) and go through         *)
(* gff_read_chunk, and they differ in what they make of a chunk that is    *)
(* not there, empty, longer than the buffer, or cut off because the file   *)
(* ends in it.  A step is one call, or the caller freeing what it loaded.  *)
(***************************************************************************)
EXTENDS Integers, FiniteSets

CONSTANTS
    Pointers,       \* the variables a caller loads into
    Blocks,         \* what malloc returns: bounds the memory
    Lengths,        \* of chunks
    Sizes,          \* of a caller's buffers
    StructSize,     \* sizeof what a fixed read fills
    ButtonSize,     \* the part of it a button needs, 110 bytes
    EntrySize,      \* sizeof(gff_monster_entry_t), gff_etab_object_t
    RowSize,        \* sizeof(ds_item1r_t)
    NameSize,       \* 25
    SizeMax,        \* the largest size_t
    None

ASSUME LengthsAssumption ==
    /\ Lengths \subseteq Nat /\ Sizes \subseteq Nat
    /\ SizeMax \in Nat /\ \A n \in Lengths \cup Sizes : n < SizeMax
ASSUME SizesAssumption ==
    /\ {EntrySize, RowSize, NameSize} \subseteq Nat \ {0}
    /\ StructSize \in Nat /\ ButtonSize \in 1 .. StructSize

(* A chunk: the length in its header, and how much of it the file has:     *)
(* all of it, or all but a byte when the file ends in it.                  *)
Chunks == {c \in [length : Lengths, there : Lengths \cup {n - 1 : n \in Lengths}] :
             c.there >= 0 /\ c.there \in {c.length, c.length - 1}}

(* What a block is malloced for: a chunk, rows and names of a manager's    *)
(* file (Items), a song before and after its conversion, a sheet.          *)
Kinds == {"raw", "monsters", "spin", "etab", "seq", "midi", "export", "rows", "names", "sheet"}

VARIABLES
    heap,       \* for every block None or what malloc was called for
    ptr,        \* for every pointer its block, whether the load succeeded,
                \* and the length or count that came with it
    call        \* the last call

mem == <<heap, ptr>>

------------------------------------------------------------------------------
Free == {b \in Blocks : heap[b] = None}
Block(kind, c) == [kind |-> kind, length |-> c.length, read |-> c.there, of |-> None]

Whole(c) == c # None /\ c.there = c.length
Length(c) == IF c = None THEN 0 ELSE c.length       \* after a failed search

NoCall == [kind |-> "none", chunk |-> None, size |-> 0, ok |-> FALSE, read |-> 0,
           nul |-> None]

NoMemory == [b \in Blocks |-> None]
NothingLoaded == [p \in Pointers |-> [at |-> None, ok |-> FALSE, count |-> 0]]
Fresh == heap = NoMemory /\ call = NoCall

ResourcesInit == Fresh /\ ptr = NothingLoaded

(* After an access to memory that is not there the process is gone.        *)
Runs == call.kind # "fault"

(* README.md: "YOU MUST FREE THE BUFFER!"  A caller does when the load has *)
(* succeeded, and then may use the variable again.                         *)
free(p) ==
    /\ ptr[p].ok
    /\ ptr' = [ptr EXCEPT ![p].ok = FALSE]
    /\ heap' = [b \in Blocks |-> IF b = ptr[p].at THEN None ELSE heap[b]]
    /\ call' = NoCall

------------------------------------------------------------------------------
(* gff_load_raw: a chunk that is cut off is freed, but the caller's        *)
(* variable keeps its address; an empty one looks like a failure.          *)
(* Mutant: it is not freed.                                                *)
LoadedNotFreed(kind, c, b) == [heap EXCEPT ![b] = Block(kind, c)]
Loaded(kind, c, b) ==
    IF Whole(c) THEN [heap EXCEPT ![b] = Block(kind, c)] ELSE heap

load_raw(kind, p, c, count) ==
    /\ ~ptr[p].ok
    /\ IF c = None THEN UNCHANGED mem
       ELSE \E b \in Free :
              /\ heap' = Loaded(kind, c, b)
              /\ ptr' = [ptr EXCEPT ![p] =
                   [at |-> b, ok |-> Whole(c) /\ c.length > 0,
                    count |-> IF Whole(c) THEN count ELSE 0]]
    /\ call' = NoCall

gff_load_raw(p, c) == load_raw("raw", p, c, Length(c))
gff_load_mas(p, c) == load_raw("raw", p, c, Length(c))
gff_load_gpl(p, c) == load_raw("raw", p, c, Length(c))
gff_load_gplx(p, c) == load_raw("raw", p, c, Length(c))
gff_load_char(p, c) == load_raw("raw", p, c, Length(c))
gff_load_voc(p, c) == load_raw("raw", p, c, Length(c))
gff_load_rdff(p, c) == load_raw("raw", p, c, Length(c))
gff_load_font(p, c) == load_raw("raw", p, c, Length(c))
gff_load_window(p, c) == load_raw("raw", p, c, Length(c))

(* The region's number in front of the entries is taken off.  Mutant: not. *)
CountWithRegion(n) == n \div EntrySize
Monsters(n) == ((n - 2) % (SizeMax + 1)) \div EntrySize
gff_load_monster_list(p, c) == load_raw("monsters", p, c, Monsters(Length(c)))

(* gff_load_spin ends the text at text[*len - 2]; but text is the address  *)
(* of the caller's variable, so what it clears is a pointer in the         *)
(* caller's memory: the variable itself for a text of two bytes, one       *)
(* behind it for a longer text, and none that can be there for one byte,   *)
(* whose index wraps around.  No byte of the text becomes its end.         *)
gff_load_spin(p, c) ==
    IF ~Whole(c) \/ Length(c) = 0 THEN load_raw("spin", p, c, Length(c))
    ELSE IF c.length = 1
    THEN /\ ~ptr[p].ok /\ Free # {}
         /\ call' = [NoCall EXCEPT !.kind = "fault", !.chunk = c]
         /\ UNCHANGED mem
    ELSE /\ ~ptr[p].ok
         /\ \E b \in Free :
              /\ heap' = Loaded("spin", c, b)
              /\ ptr' = [ptr EXCEPT ![p] =
                   [at |-> IF c.length = 2 THEN None ELSE b, ok |-> TRUE,
                    count |-> c.length]]
         /\ call' = [NoCall EXCEPT !.kind = "spin", !.chunk = c, !.ok = TRUE]

(* gff_load_etab does not look at what was read.                           *)
gff_load_etab(p, c) ==
    /\ ~ptr[p].ok
    /\ IF c = None THEN UNCHANGED mem
       ELSE \E b \in Free :
              /\ heap' = [heap EXCEPT ![b] = Block("etab", c)]
              /\ ptr' = [ptr EXCEPT ![p] =
                   [at |-> b, ok |-> TRUE, count |-> c.length \div EntrySize]]
    /\ call' = NoCall

(* load_seq of xmi.c: the chunk becomes a MIDI file in a block of its own  *)
(* (module Xmi says how).                                                  *)
(* A chunk that is cut off is neither freed nor handed over.               *)
(* Mutant: the XMIDI data is kept beside the MIDI file.                    *)
ConvertedBeside(c, b, m) ==
    [heap EXCEPT ![b] = Block("seq", c), ![m] = Block("midi", c)]
Converted(c, b, m) == [heap EXCEPT ![m] = Block("midi", c)]

load_seq(p, c) ==
    /\ ~ptr[p].ok
    /\ call' = NoCall
    /\ \/ c = None /\ UNCHANGED mem
       \/ /\ c # None /\ ~Whole(c)
          /\ \E b \in Free :
                /\ heap' = [heap EXCEPT ![b] = Block("seq", c)]
                /\ ptr' = [ptr EXCEPT ![p].at = b]
       \/ /\ Whole(c)                                   \* it is not XMIDI
          /\ ptr' = [ptr EXCEPT ![p].at = None] /\ UNCHANGED heap
       \/ /\ Whole(c) /\ c.length > 0
          /\ \E b \in Free, m \in Free :
                /\ b # m
                /\ heap' = Converted(c, b, m)
                /\ ptr' = [ptr EXCEPT ![p] =
                             [at |-> m, ok |-> TRUE, count |-> c.length]]

(* gff_load_gseq, _pseq, _cseq, _lseq and their _type forms differ in the  *)
(* type of the chunk and of the conversion.                                *)
gff_load_gseq(p, c) == load_seq(p, c)

(* gff_write_raw_bytes copies a chunk into a file of the caller's and      *)
(* keeps the block it needed.                                              *)
gff_write_raw_bytes(c) ==
    /\ \E b \in Free :
          heap' = [heap EXCEPT ![b] =
                     Block("export", IF c = None THEN [length |-> 0, there |-> 0] ELSE c)]
    /\ call' = NoCall
    /\ UNCHANGED ptr

------------------------------------------------------------------------------
(* gff_read_chunk, and gff_read_raw, whose result is what arrived only if  *)
(* that is the whole chunk.                                                *)
Fits(c, size) == c # None /\ c.length <= size
gff_read_chunk(c, size) == IF Fits(c, size) THEN c.there ELSE 0
gff_read_raw(c, size) == IF Fits(c, size) /\ Whole(c) THEN c.length ELSE 0

(* A read leaves the memory alone, so that it is asked before anything is  *)
(* allocated, and once.                                                    *)
Reads(kind, c, size, room, ok, nul) ==
    /\ Fresh
    /\ call' = [kind |-> kind, chunk |-> c, size |-> size, ok |-> ok, nul |-> nul,
                read |-> gff_read_chunk(c, room)]
    /\ UNCHANGED mem

(* The texts lose their last two bytes, the end of a line.                 *)
(* Mutant: one byte.                                                       *)
EndBehind(n) == n
EndOfText(n) == n - 2

read_text(kind, c, size, room) ==
    LET n == gff_read_raw(c, room)
    IN  Reads(kind, c, size, room, n > 0, IF n > 0 THEN EndOfText(n) ELSE None)

gff_read_text(c, size) == read_text("text", c, size, size)
gff_read_etme(c, size) == read_text("text", c, size, size)
gff_read_spin(c, size) == read_text("text", c, size, size)
gff_read_merr(c, size) == read_text("text", c, size, size)
gff_read_rdat(c, size) == read_text("rdat", c, size, (size - 1) % (SizeMax + 1))

gff_read_mas(c, size) == Reads("raw", c, size, size, gff_read_raw(c, size) > 0, None)
gff_read_raw_bytes(c, size) ==
    Reads("raw", c, size, size, c # None /\ gff_read_chunk(c, size) = c.length, None)
gff_read_names(c, size) ==
    Reads("raw", c, size, size, Fits(c, size) /\ Whole(c), None)

(* gff_read_chunk_piece fills what there is room for.                      *)
gff_read_chunk_piece(c, size) ==
    /\ Fresh /\ c # None
    /\ call' = [NoCall EXCEPT !.kind = "piece", !.chunk = c, !.ok = TRUE, !.size = size,
                  !.read = IF c.there <= size THEN c.there ELSE size]
    /\ UNCHANGED mem

(* What fills a structure of the caller, and how much of it must come.     *)
read_struct(c, least) ==
    Reads("struct", c, StructSize, StructSize,
          gff_read_raw(c, StructSize) > 0 /\ gff_read_raw(c, StructSize) >= least, None)

gff_read_psin(c) == read_struct(c, 1)
gff_read_psst(c) == read_struct(c, 1)
gff_read_spst(c) == read_struct(c, 1)
gff_read_rdff(c) == read_struct(c, 1)
gff_read_ebox(c) == read_struct(c, StructSize)
gff_read_button(c) == read_struct(c, ButtonSize)
gff_read_frame(c) == read_struct(c, StructSize)
gff_read_raw_pal(c) == read_struct(c, StructSize)

(* The flags of a map: any byte that comes will do.                        *)
read_flags(c) ==
    Reads("flags", c, StructSize, StructSize, gff_read_chunk(c, StructSize) > 0, None)
gff_read_global_flags(c) == read_flags(c)
gff_read_region_flags(c) == read_flags(c)

------------------------------------------------------------------------------
Load(p, c) ==
    \/ gff_load_raw(p, c) \/ gff_load_mas(p, c) \/ gff_load_gpl(p, c)
    \/ gff_load_gplx(p, c) \/ gff_load_char(p, c) \/ gff_load_voc(p, c)
    \/ gff_load_rdff(p, c) \/ gff_load_font(p, c) \/ gff_load_window(p, c)
    \/ gff_load_monster_list(p, c) \/ gff_load_spin(p, c)
    \/ gff_load_etab(p, c) \/ gff_load_gseq(p, c)

Read(c, size) ==
    \/ gff_read_text(c, size) \/ gff_read_etme(c, size) \/ gff_read_spin(c, size)
    \/ gff_read_merr(c, size) \/ gff_read_rdat(c, size) \/ gff_read_mas(c, size)
    \/ gff_read_raw_bytes(c, size) \/ gff_read_names(c, size)
    \/ gff_read_chunk_piece(c, size)

ReadFixed(c) ==
    \/ gff_read_psin(c) \/ gff_read_psst(c) \/ gff_read_spst(c) \/ gff_read_rdff(c)
    \/ gff_read_ebox(c) \/ gff_read_button(c) \/ gff_read_frame(c)
    \/ gff_read_raw_pal(c)
    \/ gff_read_global_flags(c) \/ gff_read_region_flags(c)

ResourcesNext ==
    \/ \E p \in Pointers : free(p)
    \/ \E c \in Chunks \cup {None} :
          \/ \E p \in Pointers : Load(p, c)
          \/ gff_write_raw_bytes(c)
          \/ \E size \in Sizes : Read(c, size)
          \/ ReadFixed(c)

------------------------------------------------------------------------------
(* What a load that succeeded hands over is the caller's alone: a block    *)
(* that is allocated, that no other variable has, and that holds the whole *)
(* chunk and as many entries as the count says, so that freeing it once is *)
(* right.  The address a failed load leaves behind may be that of a block  *)
(* another variable has got since.  It fails for a SPIN of two bytes, and  *)
(* a cut table of objects is handed over as if it were whole.              *)
Entries(b) == CASE b.kind = "monsters" -> (b.length - 2) \div EntrySize
                [] b.kind = "etab" -> b.length \div EntrySize
                [] b.kind = "rows" -> b.length \div RowSize
                [] OTHER -> b.length

HeldIsWhole ==
    \A p \in Pointers : ptr[p].ok =>
       \/ /\ ptr[p].at # None
          /\ heap[ptr[p].at] # None
          /\ \A q \in Pointers \ {p} : ptr[q].ok => ptr[q].at # ptr[p].at
          /\ LET b == heap[ptr[p].at]
             IN  /\ b.kind # "etab" => b.read = b.length
                 /\ ~(b.kind = "monsters" /\ b.length = 1) => ptr[p].count = Entries(b)
       \/ ptr[p].at = None /\ ptr[p].count = 2

(* A text or a structure that is read stays in the caller's buffer, its    *)
(* end mark too, and is the whole chunk when the call succeeds.  Only a    *)
(* text of one byte is ended in front of the buffer; only an RDAT that is  *)
(* read into no room at all is not kept out; only the flags of a map may   *)
(* be a part of their chunk; gff_manager_item_load succeeds without an     *)
(* item; and a name picked at random is reported the wrong way round: it   *)
(* has been read when the call fails.                                      *)
ReadIsWhole ==
    call.kind \notin {"none", "spin", "fault"} =>
       /\ call.read <= call.size \/ (call.kind = "rdat" /\ call.size = 0)
       /\ call.ok /\ call.kind \notin {"flags", "piece", "random", "item_load"} =>
             call.read = call.chunk.length
       /\ call.kind = "random" => (call.ok => call.read = 0)
       /\ call.nul # None =>
             \/ call.nul >= 0 /\ call.nul < call.size
             \/ call.chunk.length = 1 \/ call.size = 0

(* README.md shows gff_load_spin answering with a string that is printed   *)
(* and freed: as with gff_read_spin, the end mark is set in the text.      *)
SpinIsAString == call.kind = "spin" => call.nul # None
==============================================================================
