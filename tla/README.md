# Verification of libgff

libgff reads and writes the GFF resource files of three DOS games and prints
the scripts (GPL) they contain. It is a C library without threads: an
application calls it, it calls stdio. What makes it hard is state that lives in
several places at once: a file and the directory a `gff_file_t` caches of it, a
table of slots addressed by index and by name, lazily filled caches that
hold pointers into each other, and a recursive-descent reader whose cursor,
nesting and text buffer are shared by all its handlers.

Sections: 1 the system, 2 the models, 3 the runs, 4 the proofs, 5 what is not
modelled, 6 the plan.

## 1. The system

Paths are relative to the repository root.

| component | code | state | operations | correct when |
|---|---|---|---|---|
| file writer | `src/gff.c` 143-351, 430-544, 568, 929 | the file; cached header, toc header and chunk lists; the stdio buffer | `gff_create`, `gff_open`, `gff_add_type`, `gff_add_chunk`, `write_toc`, `gff_write_chunk`, `gff_close` | chunks, header and table of contents never share bytes; a listed chunk is never lost, whenever the process dies; a file that holds a directory holds the last one; no file that was closed is torn |
| chunk lookup and loading | `src/gff.c` 369-426, 546-907 | the cached lists; the segment tables in the GFFI chunk | `gff_find_chunk_header`, `gff_get_resource_length`, `gff_get_resource_ids`, `gff_load_id_list`, `gff_read_*`, `gff_load_*` | the list of ids and the lookup agree; ids fill the buffer they are given |
| slot table | `src/gff.c` 32-132, 186-209, 317-351, 929-959 | `open_files[]`: `file`, `filename`, `chunks`, `num_types` | `gff_init`, `get_next_idx`, `gff_create`, `gff_open`, `gff_find_index`, `gff_load_directory`, `gff_free`, `gff_close` | a slot with a FILE has its directory; a name finds the slot of its file; a loaded file is not emptied |
| palettes | `src/image.c` 14-140 | `gff_file_t.pals`, `start_palette_index`; the global palette counter | `gff_create_palettes`, `gff_palettes_read`, `gff_palettes_free` | palette ids are unique; palettes are those of the open file |
| image decoders, fonts | `src/image.c` 140-560 | cursor over a frame, output position, pending run | the row decoder, PLNR, sizes, font glyphs | the picture is the one that was packed; reads stay in the frame, writes in the picture; the size announced is the size drawn |
| regions, objects | `src/region.c`, `src/object.c` | tiles, flags, object table and objects of one region; the object table and count cached in a handle | read, load, make objects, clean up, free | nothing is freed twice or followed before it is set; count and table go together; objects are those of the region's table |
| game manager | `src/manager.c` | `gff_manager_t`: handles by region number or name | load a directory, create objects, free | no slot has a freed handle, no two the same; a handle is lost only when it is replaced |
| items, names, characters | `src/item.c`, `src/name.c`, `src/char.c` | two tables behind static pointers, read again by every question | read, look up | an answer comes from the caller's own file and from inside the table |
| RDFF, SCMD | `src/rdff.c`, `src/scmd.c` | cursor over linked blocks or a script of frames | read, make an object, advance, add delays | stops at the end mark, inside the data; an object has its own block's data |
| GPL reader | `src/gpl/parse.c`, `src/gpl/string.c` | `gff_gpl_state_t`: byte cursor, depth, `in_retval`; the static text buffer and `gpl_global_big_num` | `gff_gpl_parse` with 129 command handlers, numbers, paths, texts | keeps in step with the commands; prints what they mean; stops for a cause; ends |
| GPL state | `src/gpl/state.c`, `src/gpl/manager.c`, `src/gpl/gpl.c` | variables, their saved form | set up, save, restore | restoring returns what was saved |
| GPL requests | `src/gpl/request.c` | | | in no build file, does not compile against the headers |
| music | `src/xmi.c`, `src/ext/xmi2mid.c` | a list of events with a cursor into it; banks, tempo; the bytes written so far | convert XMIDI to MIDI | events stay sorted; a player hears the song of the file, in its tempo |
| windows, type names, logging | `src/gui.c`, `src/gfftypes.c`, `src/debug.c` | none | decode, print | |
| gfftool | `src/tools/gfftool*.c` | its arguments, what is left to do, the indentation all printers share | print entries, dump, extract pictures, songs and voices | every line is of the chunk it names; every file written holds its chunk |
| tests | `src/test/`, `src/unity/` | none of their own | | |

**How they interact.** Everything reads files through a `gff_file_t`. The
manager opens slots by directory and name and hands them to the region, item,
image and RDFF readers, which keep pointers to a slot, to chunk headers or to
each other's loaded data. `open_files` is declared `extern` in
`include/gff/gff.h`, so an application addresses slots directly as well as
through indexes, and it may have handles of its own (`gff_allocate`). Opening a
file reads its palettes and takes ids from the global counter. The GPL reader
is given one script at a time (`gff_gpl_parse`, whole bytes of a GPL or MAS
chunk) and prints it as text through a callback. A chunk of music goes through
`gff_load_*seq_type` to the converter, which gives back a block of its own.
`gfftool` is an application of all of this; it walks the types and ids of one
file, and a map's objects in another file of the game.

**What is hard.** There is no concurrency inside the library. But a path may be
open in two handles, stdio delays writes, the process can die between two
writes of one table of contents, some caches are filled by the first caller and
never invalidated and others are filled again by every one, the table of slots
keeps fields of an earlier life, and the readers of scripts, frames and blocks
do not look for the end of their input. Every caller has its own idea of what a
chunk that is cut off by the end of its file looks like. The list
of hazards, each at its line with the properties that would catch it, is in
`PROJECT.json`.

## 2. The models

| module | what it is |
|---|---|
| `GffImage` | abstract specification of a GFF file: a map from (type, id) to payloads |
| `GffWriter` | one slot that writes, another handle on the same path, the file between them, stdio, crashes; implements `GffImage` |
| `GffWriterProofs` | its types; its layout and data safety; what a file opens as; that it implements `GffImage` |
| `ChunkLookup` | the id list and the lookup over ordinary and segmented types |
| `Resources` | every `gff_load_*` and `gff_read_*`: the memory and the buffers of the caller |
| `Items` | extends `Resources`: the tables of items and names all managers share; asks `Rdff`, `Scmd` and `Fonts` |
| `Rdff`, `Scmd`, `Fonts` | linked blocks, scripts of frames, the sheet of a font, as operators |
| `ItemsProofs` | what a caller holds, what is lost, whose table answers; delays, objects and sheets of any chunk |
| `Printer` | extends `ChunkLookup`: gfftool's printer of every type |
| `Tool` | extends `Printer`: the whole of gfftool |
| `ToolProofs` | list and lookup agree on every directory, also while it grows; what gfftool lists, what it extracts, and what it dies of |
| `GffHandles` | the life of slots and handles, their names, directories and palettes |
| `GffHandlesProofs` | its type invariant, unique palette ids, directories, names |
| `FrameFormat` | image chunks as whoever wrote them knows them, as operators |
| `Frames` | extends `FrameFormat`: the image decoders, one row, segment, run or pixel per step |
| `FramesProofs` | every well-formed frame is drawn as it was packed, and read to its end |
| `Manager` | the game manager's slots, the table of objects cached in a handle |
| `Regions` | extends `Manager`: one region and its objects, their memory |
| `RegionsProofs` | slots, handles and their tables; what a region holds, and what can go wrong with it |
| `GplPacking` | seven-bit codes packed in bytes: the packer, the window of seven bits the reader looks at |
| `GplText` | `read_compressed`, one turn of its loop per step |
| `GplCommands` | the table of command handlers: what each reads, as a sequence of items |
| `GplFormat` | scripts as whoever compiled them knows them, as operators |
| `GplReader` | the recursive descent, the calls in progress as a sequence of items |
| `GplProofs` | every text comes back as it was packed; every well-formed script is read as it was written |
| `Xmi` | the conversion of XMIDI to MIDI, chunk by chunk and event by event |
| `XmiProofs` | the list of events is sorted whenever it is looked at |
| `XmiSong` | what a song sounds like, and a MIDI player to compare the output with |
| `MC*` | instances for TLC |

### GffWriter

* *The file* is a set of extents `[at, len, what]`: each piece written by one
  `fwrite` (the file header, the toc header, the count of types, the lists with
  the free bytes behind them, the data of a chunk) that is still whole. Writing
  a piece destroys the extents it overlaps. What a piece contains is what a
  reader decodes from it. `Directories` is what `gff_read_headers` comes to:
  header, toc header where the header says, count where the toc header says,
  lists behind it; the file holds a directory when these are whole and agree. Its
  reads of the lists are not checked (gff.c:289-314), so that a torn file is not
  refused: where there is no directory, `Garbage` says whether the open succeeds
  all the same. `gff_open` and `handle_open` go on only from a file that holds a
  directory: from garbage an application might do anything.
* *stdio.* `fwrite` leaves its piece in the `FILE`'s buffer; the next `fseek` or
  `fclose` flushes it (`Write`, `Flush`) and the library may do so earlier
  (`early_flush`). This is why `write_toc`, with an `fseek` before each of its
  writes, is four steps (`pc` is `"header"`, `"toc"`, `"count"`, `"lists"`) and
  why its last piece is still in memory when `gff_add_chunk` returns.
* *A crash* loses the buffer; a piece longer than the stdio buffer (`Long`: the
  lists, the data of a new chunk) may have replaced part of what was there.
* *A segmented type* cannot be written: `write_toc` exits in the middle
  (`exit_segmented`).

`GffImage` is the abstract specification: a map from (type, id) to payloads
that is whole or torn, in which a step publishes at most one type or one
chunk, with its own payload, replaces a payload by one of the same length, or
tears the file. `RefinesImage` maps the listed chunks and the bytes on the disk
to it, and "whole" to "the disk holds a directory". Torn does not mean that an
open fails, for it mostly does not; it means that what it shows is no directory
anybody wrote. `OpensAsListed` says who can meet such a file: somebody who opens
it while a table is written or is still in the buffer, or after a process died or
ended itself, and nobody else.

What TLC showed on the way: a crash between the header and the lists may leave a
file that holds a directory (same location, same number of types) but whose header claims a
longer table than there is. `TocEndsFile` therefore speaks of histories without
a crash; `DataNeverLost` and `OpensAsListed` hold after one too, because
`gff_add_chunk` then takes its other branch and appends.

### ChunkLookup

The state is a cached directory, the id list a caller holds and the header it
found last. An ordinary type has its chunk headers in the directory; a segmented
type has runs of consecutive ids, and the headers are rows of a table in the
file, run behind run. `Length`, `Ids` and `Find` are `gff_get_resource_length`,
`gff_get_resource_ids` and `gff_find_chunk_header`: each walks the runs by its
own arithmetic, and `ListedIdHasItsRow` says that they come to the same row. A loop
over the runs is a recursive function of the number of rounds (`Total`,
`Copied`).
`ListStaysGood` is about a list or a header that a caller keeps while chunks are
added (`Asked` bounds the types it asks for). That happens where no type is
segmented: at a segmented one `write_toc` ends the process (gff.c:461-463), which
is `publishes`, and `running` is false from then on. The run has a directory of
ordinary types alone for it. The lookup accepts the id one
behind a run (`<=`, gff.c:395) and then returns the first row of the next run,
or what lies behind the table: an id that no list names is found. No line of the
repository says what asking for such an id should do, so that this is stated
here and is no finding.

### GffHandles

`gff[h]` holds the fields of slot or handle `h`; `disk` the files;
`num_palettes` the counter of `image.c`. Each action sets the fields its
function sets and leaves the others as an earlier life left them: `gff_close`
keeps `num_types`, `pals` and the palette ids, `gff_open` keeps `pals`,
`gff_create` empties the file before it looks at the index and gives the slot
no name. `NextIndex` is `get_next_idx`, with the reserved slots (`Reserved`:
resource.gff, gpldata.gff, segobjex.gff and objex.gff and others). When the name
is refused the index is -1 and `gff_create` writes in front of the table; the
model keeps the file system's part of that (the file is emptied) and leaves the
stray writes out.

Things the model shows without the code or its docs saying otherwise, which is
why they are not findings: a file that is loaded is emptied by `gff_create`
before the name is refused (gff.c:187), and the handle that has it goes on
listing types its file has lost; the names of a reserved slot share it, so
that loading `objex.gff` after `segobjex.gff` replaces the fields of a file still
open; and a handle that is closed and opened again keeps the palettes
of its earlier file, with as many ids as that one had.

### FrameFormat, Frames

A chunk is a count, offsets, and frames. `gff_get_frame_rgba_palette_img` finds a
frame and draws it by one of two decoders. Of the row decoder
(`create_ds1_rgba`), `row_number`, `segment`, `run` and `end_run` are a turn of
each of its loops; `left` is what remains of the segment's length, and goes
below zero when the last run is longer than that. Of PLNR, `pixel` is a call of
`plnr_get_next` with the calls of `plnr_get_bits` it makes; `last_pixel` computes
where the symbols end, which the code does not, to compare it with the frame.
`img` has the pixels by their index in memory: the rows of the first format are
stored upside down, those of PLNR are not.

`gff_get_frame_count` reads sixteen bytes and answers 0 when it got fewer
(image.c:126-134): a chunk whose frame has nothing drawn on it may be that short.
It is in the run, and `SeesEveryFrame` says that none of its frames is counted,
although the decoder draws them.

`FrameFormat` is the other side. A frame is known with its parts: its rows, their
segments and the runs in these, or its pieces of one or two symbols, each with
the place where it begins and ends and with what it draws. `WellFormed` says that
the bytes at these places are these parts, that the parts lie one behind
another, and that what they draw is the picture. It says nothing of the order of
rows, of how a row is cut, or of how a decoder goes about it. A chunk may have
any bytes behind its table; the properties speak of the frames in it that are
well formed (`sound`). `MCFrames` makes some: it packs pictures in three styles
of rows (whole spans; runs of one pixel, rows upwards; a segment per pixel, from
the right), in PLNR with and without runs, and has the frames no writer should
make.

Things the code does that the model keeps: the test of `frame_id` (image.c:452)
never refuses one; a frame nearer than 18 bytes to the end of its chunk is
refused by the decoder and not by `gff_get_frame_width`, and `SeesEveryFrame` has
that as its one exception; symbols whose size does not divide four are shifted
by a negative number, which may give anything; a symbol that would cross a byte
is zero, so that one of nine bits or more always is; symbols of no bits at all
are looked up behind their dictionary of one entry; an image without pixels has
no memory. A read behind the chunk (`"behind"`) or a write outside the image
(`"outside"`) ends the behaviour, and so does a dictionary too large for an `int`
to be shifted to.

### Manager, Regions

`handles` is every handle ever allocated, in that order; `man` the manager's
slots, which are the regions' numbers, `wild_region` right behind the array (so
that the number 50 is it), and the core files. A load of a directory allocates
the files one by one as `readdir` returns them, `to_load` is what it has still to
return: every order is a behaviour. A number in a file name is not compared with
the size of the array. `gff_manager_free` frees every slot's handle.

A handle caches the table of a region's objects and their count
(`WithTable`, region.c 83-109). `gff_close` frees the table and keeps the count,
`gff_open` resets both; `gff_manager_load_region_objects` looks at the count
first.

`region` is one `gff_region_t`, in memory from `gff_region_load` or of the
application. Each of its pointers is null, held, dangling or unset (what
`malloc` returned), and so is the script of each object. `gff_region_read` is its
three parts, each only after the one before it; it cleans up when one fails,
and `gff_region_load` then frees. `CleanupFaults` are the possible ends of a
clean-up: a pointer nobody set may happen to be null, or not. `fault` is the
cause a behaviour ends with, if it does; `history` what the application did
before. The properties say which faults need which history.

What these show: `gff_region_load` never sets `objs`, so that freeing a region
it returned, before any object is made, follows a pointer nobody set
(`test/ds1-region.c` does that); a failed object leaves the ones behind it
uncleared; reading a region again while it has objects changes how many of them
are freed; a region read from the wild region's file has the number 255, which
leads its objects outside the array; the wild region's place is that of number 50
and holds a handle of number 255, whose objects a region of number 50 would get.
`ObjectsOfTheTable` leaves that out, and objects made under the number a region had
before it was read again: without these two it is not true, and the runs are too
short to tell.

### Resources, Items, Rdff, Scmd, Fonts

The memory is a set of blocks, each free or with the chunk it was allocated for
(`heap`); a variable of the caller (`ptr`) has an address, a count, and whether
the load succeeded. A chunk is the length its header says and how much of it the
file has: all of it, or all but one byte. That is enough for the loaders to
differ, for they look at the sum of what arrived and at nothing else. Each
`gff_load_*` and `gff_read_*` is an action; those that are one call of
`gff_load_raw` or `gff_read_raw` share its operator. `HeldIsWhole` is about what
the caller is given, `LostForCause` about what nobody has any more, `ReadIsWhole`
about a caller's buffer.

`Items` adds `table`, the static pointers of `item.c`. `it1r_reads` is
`gff_read_it1r` with every way out; `gff_manager_get_item1r` and `_get_name` read
with the static table as the caller's and then answer without looking whether
that worked. `ds1_read_*` have blocks of their own.

What these models show, each stated as an exception in the property it touches:

* `gff_load_raw` frees a chunk that is cut off and leaves its address in the
  caller's variable (gff.c:697), and `load_seq` neither frees nor hands over
  what it has; a chunk of length 0 is allocated and reported as a failure;
* `gff_load_spin` ends its text through the caller's pointer: the finding `spin`.
  What it clears is the caller's variable itself for a text of two bytes, which is
  the text the run finds (the call succeeds, the variable is null, the block is
  lost), a pointer behind it for a longer one, which no property looks at, and for
  one byte the index, which is unsigned, wraps around and the access faults
  (`"fault"`, where the behaviour ends);
* `gff_load_etab` ignores a short read; a text of one byte is ended in front of
  the buffer, and `gff_read_rdat` with no room at all takes `size - 1` for it;
* a question about an item whose rows are cut off is answered from no table
  (item.c:163), one whose names are cut off keeps the block of names;
* `gff_name_get_random` says failure when it has read a name and success when it
  has not; `gff_manager_item_load` always succeeds and `gff_manager_font_load`
  always reports a failure, so that the sheet it drew is lost;
* `gff_rdff_to_object` never moves its data on, so that the object behind another
  block is filled from that block; without an end mark it walks on;
* the total delay of a script (scmd.c:98) says "never" for a frame that is marked
  both `LAST` and `JUMP`, where playing stays.

The loops of these operators are recursive functions of the number of rounds:
`Walk` is the `while` of `gff_rdff_to_object`, which stays where it has come to
once it has stopped, `Waited` that of `gff_scmd_total_delay`, `Widths` and `Sheet`
the two over the characters of a font. `SheetShowsCharacters` compares the sheet
with `gff_create_font_rgba`, which draws one character; the two orient their rows
differently.

### Xmi, XmiSong

`file` is a file of bytes, `pos` the cursor, and one action is one turn of a
loop: the chunks of the directory (`pc` `"form"`, `"info"`, `"cat"` and on),
then for each track delay by delay and event by event, then the writing of the
list. `ReadDelay` is one turn of the loop of `GetVLQ2`, `CreateNewEvent` its own
walk of the list: `line` is the list with its cursor, and an event is put behind
the last one that is not later, searching on from the cursor or again from the
front. A note makes two events, its end by its duration. Banks, patches and
tempos are converted as the conversion asks. The output grows by blocks of
`DstChunk` bytes, and `outsize` is computed from what is left of the last one.

`XmiSong` has the other side: a song as a musician knows it, and a MIDI player
that reads the output with running status and delta times. `PlaysTheSong` says
that it hears the song: every message at its time, every note for its duration.

Lengths are 32 bits and are added as the code adds them: `skipsrc` takes a signed
number (xmi2mid.c:170), so that a chunk of 2^31 bytes and more leads back (`Add`,
`Aligned`, `Skip`). A chunk that is skipped and has the length 0xFFFFFFF8 leads to
itself, for ever; the run has such chunks in the directory, in the catalogue and
as tracks, and `Ends` says that nothing else keeps the converter from ending.
The walk may also come before the file, and a file that ends in a delay or in the
middle of an event makes the converter read a status or data behind it
(xmi2mid.c:787). What it reads there is unknown: `pc` is `"outside"` and the
behaviour ends.

Where the code does not do what the repository says, `RefusedForCause` names it as
a cause of its own, apart from broken files: a form without a directory is refused
although a comment says "XDIRless XMIDI, we can handle them here"
(xmi2mid.c:1006), and conversions 3 to 5 are refused at the door
(xmi2mid.c:471) although README.md:276 lists `XMIDI_CONVERT_GS127_TO_GS`.

Observations: without a tempo in the first track the division is 60; only the
first track's tempo counts; a note that ends behind the end mark is never
released; a track without an end mark reads on into what follows. `PlaysInTempo`
and the files of the run are stated accordingly.

### Printer, Tool

gfftool opens a file and does, in a fixed order (`do_mods`), what its arguments
ask. `job` is all of that at once: the directory of the file (any directory of
`ChunkLookup`), the other files of the game, which chunks the file cuts off, and
the arguments. `todo` is what is still to be printed or written, innermost
first, as `todo` of the script reader is; one action prints or writes one chunk.
A line of `shown` and a file of `files` keep whose bytes they were made of, and
the properties compare that with what the directory says.

The printers of the types differ most in what they do when a chunk cannot be
read: say so, say nothing, print the buffer of the chunk before, print what was
read of it, or free a block twice. A font, a control and a character are printed
by the counts and lengths they hold, without a look at their own length
(`shows_unchecked`; gfftool-print.c:228, 401, 604): a block they do not fit is
read behind. The parts of a character lead from one to the next by a signed
length, and may lead back for ever (`GoesBack`). Of an RDFF block a line is
printed when the switch knows its action (gfftool-print.c:746), and none
otherwise; `-r` prints a block at length whatever it is (`gffmod_print_rdff`).
`end` is the cause the process dies of, and
`DiesForACause` lists them: a frame that cannot be drawn is written through a
null pointer, into a file that is open by then and stays empty; a missing output directory crashes `-I` and `-x`, not `-d`; a list
of monsters (`MONR`) or a window that is cut off is freed twice, and the count of
monsters is divided twice; a `GFFI` is taken for the entry with its id as number;
a type with more than 1024 ids overflows the stack.

README.md:309-312 and the help say that gfftool extracts all images, all xmi and
voc. `Due` is that promise, chunk by chunk, and `LeftOut` what the code does not
keep of it: the songs of type `LSEQ`, which a comparison that is turned around
leaves out (gfftool-write.c:122); the conversions from GS127, which give nothing;
the pictures of walls and tiles, and every picture when the file has no palette;
what is cut off or too short; and all voices as soon as one of them is cut off.
`ExtractsTheFile` says that everything else is there, once and with its own bytes.
`ShowsItsChunk` has the exceptions its comment names, all of them things the
printers do.

Also kept: `RDAT` is read with the reader of `SPIN`; `NAME` and `IT1R` always
print chunk 1; names of powers that cannot be read print those of the power
before; the first voice that is cut off ends the voices.

### GplPacking, GplText

A text in a script is a sequence of seven-bit codes packed without gaps and
closed by the code 3. `read_compressed` fetches a byte into a 16-bit buffer,
looks at seven bits at a moving shift, and skips the fetch when the shift is 0.
`turn` is one turn of its loop; `i`, `idx`, `buffer` are its locals, `cursor`
the cursor in the script. `Unpacked` compares what was shown with what was packed
and says where the cursor is left; `MovesBytesTaken` ties the loop to
`BytesTaken`, the operator `GplReader` uses in its place.

### GplCommands, GplFormat, GplReader

The reader is a recursive descent without a stack of its own. In the model the
calls in progress are `todo`, a sequence of items still to be read, the
innermost call's first: a handler is the sequence of items it reads
(`Handlers`), a number is an item that may put others in its place, such as a
command inside an expression (`retval`). One action is one turn of the
innermost loop, and `status` how it ended: a handler may fail, exit, crash or read
behind the script, and the loop of `gff_gpl_parse` is done, or done after it has
fetched one byte from behind the script (`"over"`):

| actions | code |
|---|---|
| `command`, `stop` | the loop of `gff_gpl_parse`, `gpl_execute_func` |
| `immediate`, `variable`, `constant`, `compound`, `retval`, `answered`, `operator`, `paren`, `no_number`, `next` | `gpl_read_number`, `gpl_read_simple_num_var`, `gpl_retval` |
| `complex` | `gpl_access_complex` and its three callers |
| `text`, `free` | `gff_gpl_read_text`; `gpl_log` |
| `load_variable`, `bounds`, `field`, `more_fields`, `menu_entry`, `menu_end`, `nest` | the handlers that read more than numbers |

`GplFormat` is the other side, a grammar: what whoever compiled a script knows of
it. A script is its bytes, all it is to say (`says`), its commands, and the
phrases these are made of: numbers with their tokens, texts with their codes,
paths, variables, the fields of a search, the entries of a menu. Each has the
place where it begins and the place where it ends; a place is how many bytes lie
in front of it, how many pieces were said for these, and how deep the script is
nested there. `WellFormed` says that the bytes at these places are these phrases,
that phrases lie one behind another, and that what is said there is what they
mean. It has no cursor and no stack, and it does not say in which order anything
is looked at. A command the reader does not implement, or of which a part is
missing, is in it too, with `sound` false; nothing is said of its bytes, and the
properties speak of the reader up to there.

`MCGplReader` writes such scripts. It composes drafts (numbers of every kind,
operators, parentheses, answers inside answers, paths, texts, menus, searches,
and 16 commands the reader cannot read, others cut off at every byte) and lays
each where the one before it ends; that what it lays is well formed is an
assumption of `GplReader`, which TLC evaluates.

Three things the reader does not do, which well-formed scripts respect:

* the condition that ends a number looks at the byte behind it, also at the end
  of the script: a number is never the last thing in it (`GoesOn`); the scripts
  of the run end with a command of one byte or with a menu;
* an operator behind a command's answer binds to that command's last parameter,
  not to the answer: no number is followed by an operator that is not its own, so
  that such an answer stands in parentheses (TLC showed this; the compiled code
  does the same);
* the loop fetches a command before it compares the cursor with the end
  (parse.c:1734-1736): the last command of a script is not run when it is one byte
  long, which `Decoded` says, and a byte behind the script is fetched when it is
  longer, which `StopsForACause` says.

`gpl_log` frees a text that lies in a static buffer, and a text that is neither
compressed nor an introduction is printed through a pointer nobody has set;
both are outcomes `"crashed"`, and a command `log` is never sound. A number of
four bytes (`GPL_IMMED_BIGNUM`) is put together through a pointer of another
type; the model reads it the way a build without optimisation does.

## 3. The runs

| run | question | bounds | states |
|---|---|---|---|
| `writer` | Do layout, data and listing survive every order of creating, opening, adding, rewriting, a second handle, a crash, and a type that `write_toc` cannot write? Does the file implement `GffImage`? | two types, one of them segmented in one of the existing files, one id, payloads of 0, 2, 2 and 50 bytes, one crash | 266 500 |
| `grow` | Does the table of contents keep ending the file while it moves? Is every accepted chunk published in the end? | one type, three ids, payloads of 0, 2 and 50 bytes, no crash | 41 600 |
| `tool` | Do id list and lookup agree on every directory, also while it grows? Does gfftool show and extract what the file holds, and die for the listed causes only? | four types in every directory with up to three ascending runs of up to `MaxFirst` ids, each dumped and listed; chunks of length 0, 1, 2, 4 and 7, and of 1 and 4 cut off, of each type that is printed, two of a type; windows with parts, maps with objects; blocks of each action; fonts, controls and characters that fit, do not fit, and lead back; a directory to add to; buffers of 2 to 5 bytes; room for three ids | 139 800 |
| `handles` | Which fields of a slot or handle belong together after any history? | one slot that some names reserve, one handle of the application, two paths, two palette ids | 231 600 |
| `items` | What is a caller given by every load and read, what is lost, and from whose table is a question answered? | two managers, two variables, three blocks; chunks of length 0, 1, 2 and 4, whole or cut; buffers of 0, 1, 3 and 4; RDFF chunks of three blocks, scripts of three frames, fonts of three characters | 38 700 |
| `frames` | Does every frame come back as the picture it was made from, without a byte read or written outside? | pictures of 3x2, 2x2, 1x3, 4x1, 1x5 and 6x1 pixels, one of 258 columns; first and last frames of a chunk; a chunk under sixteen bytes | 23 000 |
| `regions` | What may become of the manager's handles and of a region's memory, in every order of calls? | two region numbers and the wild one, one core file, three handles ever, six directories of two files, one file opened again | 1 192 000 |
| `text` | Does the unpacking loop return every text? | texts of up to nine codes, a buffer of ten | 310 000 |
| `reader` | Does the reader keep in step with every script, and end? | the scripts of `MCGplReader`, menus of 2, paths of 2 elements, texts of 5 | 78 600 |
| `music` | Does a player hear the song of the file, is a broken file refused, does the conversion end? | tracks of every two events of an alphabet of 22, every chord of three notes, two tracks, no end mark, a file cut at every byte of its head; chunks of 2^31 bytes and more in every place; a form without a directory; conversions 0, 1, 2 and 5; blocks of 16 bytes | 50 100 |
| `toc_first` | finding: "Now write the new chunk to the end of the file" (gff.c:531) | a file whose table of contents comes first | |
| `spin` | finding: what `gff_load_spin` returns is used as a string (README.md:174) | as `items`, with chunks of no bytes and of two | |

**Why the bounds are enough.** The payload lengths are chosen around the table
of contents: 0 leaves the old table in place, 2 destroys its header only, 50
destroys all of it; two payloads of length 2 tell an overwrite from a mixture.
Three ids let the table move twice. One crash reaches every partial file, and
what follows is a normal open of it. Three runs of ids are the first, a middle
and a last one; ids next to every run are tried. A text of nine codes passes the
turn that takes no byte (one in eight) and comes back to the first shift; ten is
one more than the longest text, so that texts fit exactly, miss by the mark and
miss by a character. The scripts nest answers in answers, parentheses in
parentheses and have menus beyond the limit. The small pictures have every order
of drawn and clear pixels in a row, rows with nothing to draw, and runs; the wide
one needs the ninth bit of a column; four by one is a last frame that is too
short to be found. The files of `regions` lack one thing each (a map, tiles,
flags, objects, a script), so that every error path is taken; its directories
have two files with one number, a number that is too large, the wild region and
a file in its place; three handles are enough to replace one, free the manager
and load a second.

The lengths of `items` are those at which the readers part: nothing, less than
the two bytes cut from a text, exactly these, and two entries; three blocks are
the two an item's question takes and one that somebody still has. Its blocks and
variables are interchangeable (`Alike`), what a failed load leaves in a variable
is not looked at (`Seen`), and a state in which a block was lost, or that
answers a question that changes nothing, is checked and not left
(`NothingLost`). The lengths of `tool` are the same around its scaled-down
buffers; the second chunk of a type is what a stale buffer or a stale count
shows up on. In `music`, delays of 130 take two bytes, as do durations of 130 and
their triples; three notes with delays of 0 and 1 end in every order, also at one
time; the events of the alphabet differ in every way the converter does. What the
runs `writer`, `handles`, `regions`, `text`, `reader`, `items`, `frames` and `tool`, the
list in `music` and `TocEndsFile` in `grow` leave to their bounds, the proofs show for
every value.

Operators marked *Mutant* in the modules are faulty forms of the definition that
follows: no run uses them as they stand. Put in its place, each breaks the
property that `PROJECT.json` names for it.

**Fairness.** `grow` assumes weak fairness of `write_toc`, which is straight-line
code, and of `gff_close`, which an application calls in the end; it assumes none
of any other operation. `reader` and `music` assume it of the next step of the
reader and of the converter, again straight-line code that runs until it
returns. `CHECK_DEADLOCK FALSE` stands where the system may stop: every handle
closed with nothing more to add, a text unpacked, a script read, a picture drawn,
a file converted or refused, a tool that has ended, a caller whose question has
been answered, a fault or the last handle allocated.

## 4. The proofs

Every theorem holds for every value of the constants under the assumptions the
modules name; TLC evaluates them on the instances. They say what constants are
(numbers, sequences, sets of files of a known form; a value that stands for
"none" is none of the things it stands for) and what the files a program meets
look like: the directories of `ChunkLookup` are `WellFormed` (runs ascend, the
table has a row for each id), the files of `GffWriter` have apart what they list,
the scripts of `Items` are ended by a mark (`ChunksAssumption`; the loop of
`gff_scmd_total_delay` would leave a script without one), the files of `Tool` have
each type once and no chunk where their header is, and a frame of `Frames` that
is called sound and the scripts of `GplReader` are `WellFormed`. Two assumptions stand
in the theorems that need them: `TocsAreLast`, an existing file ends with its table
of contents, without which the finding `toc_first` is what happens; and
`CountersAreRight`, its header counts its lists and its free bytes, which is what
`gff_add_chunk` compares the size of the file with.

**The writer** (`GffWriterProofs`). Four results, each from the one before.

* *Types.* `TypeCorrect`. The invariant is `TypeInv`: the types, and that every
  list is finite, without which the number of types in a table of contents is
  not a number.
* *Layout and data.* `LayoutInductive`, and from it `ChunksLieApart`, `NoDataLost`
  and `HandlesStayValid`, for any number of types, chunks, payloads and crashes.
  `Layout` alone is not inductive: the bytes that are safe are those of every
  chunk *somebody* may still name (the last lists, the cached lists, another
  handle's lists, lists on the disk or in a buffer), and they must lie before
  every table of contents that any header on the disk points to, since the next
  open may take up any of them. The argument goes piece by piece: what is in the
  buffer at each `pc` (`BufferKinds`), that it touches no known chunk
  (`BufferClear`), hence a flush, whenever it happens, keeps all bytes whole
  (`SlotFlush`, `HandleFlushStep`); each action is then a flush and a new piece.
* *What a file opens as.* `WriterInductive` adds `DirectoryInv`, and `FilesOpenAsListed`
  follows: a file holds the last lists that were completed, or no directory, and
  then it opens as garbage. That no closed file is of the second kind is
  `ClosedWhole`, proved beside: `gff_close` flushes the lists, and nothing but the
  next `write_toc` takes them away. `write_toc` publishes the header first
  (gff.c:436), so that a header may well point to a table that is not whole; what
  is inductive is what lies where it points.
  `NoStaleTable` is the heart of it: whatever lists lie where a header on the disk
  points to are the last ones, so that an old table cannot come back to life
  under a new header; `TocWritten` says which pieces `write_toc` has written at
  each `pc`, `ListedInStep` that the cached directory is at most one type or one
  chunk ahead of the listed one. From these `FileIsImage`, `Spec => RefinesImage`:
  a flush of the lists publishes that one type or chunk, with its own payload
  because its data was buffered before them; a flush of another piece of a table,
  or a crash, tears the file or leaves it; the data of a chunk overwrites one
  payload; every other step is a stutter. This is safety only: that what was
  added is published in the end is `AddedIsPublished`.
* *Where the table of contents is.* `TocEndsTheFile`, from `CountersAreRight`. Its
  invariant `SizeInv` is about histories without a crash: no flush reaches behind
  the end the counters claim, and the last one does reach it, so that the
  comparison in `gff_add_chunk` always finds the table last.

**Lookup** (`ToolProofs`). `ListAndLookupAgree` and `KeptListStaysGood`, for
every directory with ascending runs of any number and length. `CopyRun` shows
that the id list has the ids of run `k` from the sum of the runs before it on;
`RowFound` that the lookup, which stops at the first run whose end is not below
the id, comes to the same row. It compares with `<=` and so may stop one run too
early; then the id is the first of the run behind, the ids between are none
(`RowsBetween`), and the row it computes is the same. That an addition keeps what
a caller holds needs that chunks are only appended.
`ToolListAndLookupAgree` carries both over to gfftool and what is asked beside it.

**Handles** (`GffHandlesProofs`). Types, `PaletteIdsNeverShared`, `DirectoryIsThere`
and `NamesLeadToFiles`. Disjointness needs `IdsBelowCounter` (a new range starts
at the counter, so it is apart from all old ones only if those end below it),
and the number of palettes counted at open is that of the directory, so the
two are proved together with `TypesHaveEntries`.

**Regions** (`RegionsProofs`). `RegionsInductive`, and from it `SlotsOwnTheirHandles`,
`NothingFreedTwice`, `EveryFaultHasACause` and `ObjectsAreTheTables`, for any
files, directories and number of handles. The invariant follows two chains. From a
number to a table: a slot's handle is live and was put there (`SlotsInv`), its
number is the slot's but for the wild region's (`NumbersInv`), a slot once filled
stays so until the manager is freed (`KeptInv`), a live handle in no slot has a
younger one in its place (`ReplacedInv`), and a table that is cached is the one of
that number in that file, as long as its count (`TablesInv`). From a region to
what set its pointers: none dangles after a call has returned, the
table is that of the file's first map, each object that was made is the one of
its place in its table (`SoundRegion`), and a pointer nobody set has its history
(`FilledInv`). The first attempt failed and was right to: `ObjectsOfTheTable` as it
stood is false in histories longer than the run's, and it now has the two
exemptions named in section 2.

**Memory of loads and items** (`ItemsProofs`). `ItemsInductive`, and from it
`LoadsHandOverWhole`, `ReadsStayInside`, `NothingElseIsLost` and
`AnswersComeFromOwnTable`. `MemInv` adds `TableInv` to what the run checks: the static
tables lie in blocks of their own, as long as their counts, which no caller's
variable holds, so that no `free` of a caller takes them. The run does not leave a state
in which a block was lost (`NothingLost`); the theorems go on from there.

**Delays, objects, sheets** (`ItemsProofs`). `DelayIsWhatPlays`,
`ObjectsComeFromTheirBlock` and `SheetsShowTheirCharacters`: what is worked out
from a chunk is right for a chunk of any length. Waiting and playing a script go
in step up to the first frame with a mark (`WaitsAsItPlays`), which every script
has within its length. The walk over blocks visits each header, since what lies
between two headers is as long as the first says (`HeadersStand`), and ends at the
first stop within as many rounds as there are cells (`WalkEndsAt`). A place on
the sheet has one row and one column (`OneRow`), the columns of two characters
do not meet (`WidthsGrow`), so that a character, once drawn, stays
(`CharactersStay`).

**Texts of scripts** (`GplProofs`). `TextsComeBack`: for every text and every
size of the string, what is shown is what was packed, with the cursor behind the
mark, or the share that fits; `CursorMovesAsCounted`: the loop moves the cursor by
`BytesTaken`, which is what lets `GplReader` use the one for the other. The
invariant `Reading` says that after `i` codes the cursor has passed the bytes they
occupy, that the shift is `(i + 1) % 8`, and that the low byte of the buffer is the
last byte fetched, the only thing the 16-bit buffer has to remember. The
arithmetic lemmas (`ByEight` to `CodeOfPack`) show that code `8q + r` lies in bytes
`7q + r - 1` and `7q + r` of what the packer wrote; `InwordIsWindow` that the loop
looks at those bits.

**Scripts** (`GplProofs`). `ScriptsAreDecoded` and `ReaderStopsForACause`: for every
well-formed script, whatever it consists of and however deep its answers,
parentheses, searches and menus nest. The properties speak of the moments between
commands; in the middle of one the reader is anywhere in a tree of calls. What
holds there is `ReaderInStep`. `InStep` says that the items on `todo` *lead* from
where the reader is to the end of the command it is in: each is a phrase, or the
rest of one, that begins where the one before it ends (`Leads`, `Path`), and what
was printed is what the script says up to here. So "number" with three open
parentheses leads from the beginning of a token with three open in front of it
to the end of the number the token is in, "next" from the end of such a token, a
menu with two entries read from the end of its second entry. The stack of calls
needs no invariant about its depth or shape: a call that returns takes an item
away from the front of a path, a call that is made puts a path in the place of
one item (`PathTail`, `PathConcat`), and what lies further down is not looked at.

* `ReaderInductive` is for all bytes, well formed or not: ranges, and that whenever
  `in_retval` is set a call that takes it back is still on `todo`.
* The steps of a token are one lemma for each kind of operand; which of them
  a token is follows from its first byte, and the cases do not overlap
  (`TokenCodes`). That the reader ends a number exactly where the format does is
  the argument about `paren_level` and the byte behind: with no parenthesis open it
  goes on if and only if an operator follows, and no number has one behind its end.
* A text is one step here: its bytes are counted by `BytesTaken`, whose value for
  a text that was packed is a lemma of the part about texts.
* `RunAtEnd`: the loop of `gff_gpl_parse` leaves one byte early, which is behind the
  last command unless that is one byte long; if it is longer, the byte it has
  fetched by then lies behind the script (`"over"`).

Assumed are `ScriptsAssumption`, every script is well formed (it may have unsound
commands anywhere), and that the two limits are numbers. `InStep` is not checked by a
run: `Path` asks for a function from the items to the places of the script, and
TLC would enumerate these functions.

**Music** (`XmiProofs`). `EventsStaySorted`, `Spec => []ListInOrder`: the list of
events is sorted by time whenever the converter is between two events, and so
are the lists it has finished, for any file at all, whole or broken, and any
conversion. Sorted alone is not inductive, because an event is not looked for
from the front: `CreateNewEvent` starts at the cursor when the new time is not
before the cursor's. The invariant `IInv` adds `Ready`: the cursor is at an
event of the list that is never later than the clock (which only moves forward,
by delays that are natural numbers), so that what lies before the cursor may
be skipped. `CreateKeepsOrder` shows one insertion; `NotesKeepOrder` the two of
a note, where the cursor is put back to the note's start after its end has gone
in further on; the conversions of banks, patches and tempos are one to three
insertions at one time.

**gfftool** (`ToolProofs`). `ToolInductive`, and from it `ListingShowsTheChunks`,
`ToolExtractsTheFile` and `ToolDiesForACause`: for any file, any other files of the
game, any chunks cut off and any arguments, however deep windows, maps and
objects nest. The properties look at what was shown and written; the invariant
`ToolInv` is about what is left, and each of its parts is there for one reason.

* `ModsInv`: what is left to do was asked for, each thing once, entries first and
  with nothing shown before. Without the order nothing is known of the lines when
  the listing begins.
* `TodoInv`: what is on `todo` is a chunk the directory lists, or one met inside
  another, and the indentations on it bring `indent` back to 0, with each chunk
  four times as deep as it is nested (`Level`). All printers share the one
  counter, so that a printer that forgot to set it back would shift every later
  line.
* `LinesInv`: each line is of the chunk the lookup finds under its id.
* `OrderInv`: the entries shown and those still to come, in that order, are in the
  order of the ids, and every readable one is among them.
* `FilesInv`: each file is due of a listed chunk and is written once; no chunk
  still on `todo` has a file of this kind, which is why the next one is new.
* `WrittenInv`: every file that is due is there, or its chunk is on `todo`, or its
  kind is still to be done, or it is one `LeftOut` names.
* `EndInv`: the causes, and that at the end nothing is left.

A line is the work of one printer, and there are as many kinds of these as types
of chunks: a lemma for each kind (`ReadOutcome` to `ObjectOutcome`) says which line
it makes, what it puts on `todo` and what it may die of, and `PrintOutcome` sums
them up, so that the step of the whole tool knows nothing of types. The same is
done for the four ways to write (`DumpStep`, `ImageStep`, `SongStep`, `VoiceStep`).
Assumed are the lengths (`SizesAssumption`: a structure is longer than a byte and
fits the buffers, as the numbers in the code do), that a file has each type once
and its chunks behind its header (`JobsAssumption`, what `gff_add_type` and
`gff_add_chunk` make and `LayoutInductive` shows of them), and that `None` is none
of the outcomes.

**Frames** (`FramesProofs`). `FramesInductive`, and from it
`DecoderShowsThePicture`, `DecoderStaysInTheFrame` and `DecoderSeesEveryFrame`: for
any chunk, number of frames, size of picture, order of rows and cut of each into
segments and runs, or of the pixels into symbols. Of the invariant, `TypeInv` holds
for any bytes: the segment that comes next does not lie in front of the chunk
(`pos + left >= 0`, although `left` may be negative), and the value drawn last has
an entry in the dictionary. `SoundInv` is for well-formed frames: the cursor is at
the beginning of a part or behind the last one, and everything in front of it is
drawn (`RowPlace`, `SegmentPlace`, `RunPlace`, with `DrawnTo`; for symbols
`PixelPlace`, with the piece the decoder is in and how much of it is drawn), while
no pixel is drawn wrong (`NoneWrong`). That the picture comes out needs both: what
is drawn is right, and what no run covers is still clear, which is what
the format says of it. The cursor's place is what the code never checks, for
neither decoder knows where its frame ends: it stops there because the counts of
rows, of bytes in a segment and of pixels in the picture come out together.
Assumed are that a chunk has bytes and a table of its frames, that its sound
frames are well formed (`EntriesAssumption`), and that the padding of 18 is not
less than the head of a frame (`BoundsAssumption`), so that the head is there when
a frame was found.

**Induction over data**. The library's induction theorems take an
operator, which no prover here can instantiate. Stated of a set they need none:
`UpTo` says that a set which has 0 and every successor of its members up to `n`
has all numbers up to `n`. From it `Computed`: a loop of `n` rounds, given by its
first value and by the function each round applies, has a function of its values
round by round. A recursive function of a model is by definition *some* function
that satisfies its equation if there is one; `Computed` gives one, and so the
equation may be used. Every proof about a recursive function begins with it. The
lemmas stand at the head of `ItemsProofs` and of `ToolProofs`.

The type invariants of `GffWriter`, `GffHandles` and `GplText` are stated and
proved in these modules, so that no run repeats them.

**Only model-checked.**

* Liveness: `AddedIsPublished`, and `Ends` of the reader and of the converter.
* `XmiSong`, whose player and songs are recursive operators, of which nothing can
  be proved here: `PlaysInTempo`, `PlaysTheSong`, `RefusedForCause`.

## 5. What is not modelled

* In `GffWriter`: `types_offset` other than 8; more than one segment entry per
  segmented type; a chunk rewritten in place longer than the stdio buffer; the
  reader's own stdio buffer going stale; wrap-around of 32-bit locations; what
  an application does with a file that opens as garbage.
* In `GffHandles`: failures of `fopen` and `malloc`; the writes in front of the
  table when an index is -1; palettes of type CPAL; `gff_image_init`; handles on
  the stack of `gff_load_directory`, but for the ids they take.
* In `Resources` and `Items`: a `malloc` that fails; the wording of `gff_print`;
  `gff_char_has_spell` and the names of psionic powers, which look up a bit and a
  string; `gff_scmd_get` and `gff_scmd_print`; the colours a font mixes, and
  `gff_create_font_rgba` for a font that is missing. Windows, boxes, buttons and
  raw palettes are read here as structures of a size of their own; their fields
  are not.
* In `Xmi`: times of 2^28 and more, which `GetVLQ` and the writer would cut;
  a `malloc` that fails; the text of error messages. What a broken file makes
  the converter read behind the file ends the behaviour.
* In `Printer` and `Tool`: the arguments as strings (`getopt`; `-w` is in the help
  and not in the option string); what is said of a chunk; the bytes of a BMP
  file's header; pictures of more than 64 KiB whose frames lie behind the buffer;
  output files that cannot be opened, but for a missing directory.
* In `Frames`: portraits and the PNG writers; the colours of a pixel
  (a pixel is the palette entry it was drawn with, or clear); the PLAN format,
  which the code does not implement; what is read behind a chunk.
* In `Manager` and `Regions`: memory that is lost when it is replaced; short
  reads and a `malloc` that fails; game types other than the first game's
  directory; objects that are not made from a region's table
  (`gff_create_object`); the lookup of a tile. What a handle frees, besides its
  table, is in `GffHandles`.
* In `GplReader`: what bytes from behind a script or from memory nobody has set
  make the reader do after the first of them; wording and layout of the output.
* `gpl/request.c` is in no build file and does not compile. Of `gpl/state.c` and
  `gpl/manager.c` the setters are commented out: what is left sets a structure to
  zero and copies it out and in, and nothing changes it in between, so that there
  is nothing for a model to go wrong in.
* The names of types and logging keep no state. The tests and `unity` are not part
  of the library.

## 6. The plan

Done, in this order, because files that lose data and scripts read out of step
are what the library could do worst: the writer (with its abstract image),
lookup, handles and palettes, the reader of scripts, the decoders, the manager
with its regions; then the loaders and readers, items and names, RDFF blocks,
scripts of frames and fonts, the music, and gfftool. Then the proofs, in the order
of section 4.

What is left of the properties that are only model-checked is `RefusedForCause`,
once it is stated apart from the recursive player; the other two of `XmiSong` are
about that player, and the rest is liveness.

And of the code: `gff_create_object`, the lookup of tiles, and the windows' fields.
