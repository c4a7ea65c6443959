------------------------------ MODULE Printer ------------------------------
(***************************************************************************)
(* gfftool -t: prints every chunk of a type.  Each type has a function of  *)
(* its own, which reads a chunk into a buffer or a block and prints it;    *)
(* some print other chunks on the way (the parts of a window, the object   *)
(* behind an entry of a map), further indented by a counter they share.    *)
(* They differ most in what they do when the chunk cannot be read.  The    *)
(* printer is a caller of ChunkLookup, whose directory f it does not       *)
(* change.  What is said of a chunk is left out, but not whose bytes it is *)
(* said of.                                                                *)
(***************************************************************************)
EXTENDS ChunkLookup

CONSTANTS
    TextRoom, NamesRoom,        \* buffers for a text and for the names
    StructSize, ButtonSize,     \* sizeof what a read fills, least of a button
    FlagsRoom,                  \* GMAP_MAX
    HeadSize, ImageRoom,        \* bytes the number of frames takes, 1 << 16
    EntrySize, MonsterSize,     \* of a map's object, of a monster
    RegionSize,                 \* of a region's monsters
    NameSize, RowSize,
    ScmdMax,                    \* SCMD_MAX
    FontSize,                   \* the fields of a font that are printed
    AcclSize, AcclEntry,        \* a control's header and count, one entry
    RdffType,                   \* the header of a block up to its type
    ObjectIds                   \* what unset memory may hold as an object

VARIABLES
    job,        \* the file, the other files of the game, the arguments
    todo,       \* what is being printed or written, innermost first
    indent,
    shown,      \* what was printed
    end         \* None, "exit", or why the process died

(* The objects of a map lie in another file of the game's.                 *)
Segobjex ==
    INSTANCE ChunkLookup WITH f <- job.segobjex, list <- None, found <- None, running <- TRUE
FindIn(file, t, i) == IF file = "segobjex" THEN Segobjex!Find(t, i) ELSE Find(t, i)

Content(h) == job.holds[h.location]
Cut(h) == h.location \in job.cut            \* the file ends in the chunk
At(h) == IF h = NotFound THEN 0 ELSE h.location

(* gff_load_raw and gff_read_raw return a length other than 0.             *)
Loads(h) == h # NotFound /\ h.length > 0 /\ ~Cut(h)
Reads(h, room) == Loads(h) /\ h.length <= room

------------------------------------------------------------------------------
Call(t, i, file, depth) == [type |-> t, id |-> i, file |-> file, depth |-> depth, by |-> 0]
Shift(n) == [Call("indent", 0, "input", 0) EXCEPT !.by = n]
Nested(calls) == <<Shift(4)>> \o calls \o <<Shift(-4)>>

(* What is said is of the chunk at a place ("chunk"), of a part of it      *)
(* ("part"), of its header, of the directory ("entry"), of nothing         *)
(* ("none"), or of memory nobody has set.                                  *)
Show(c, is, at, parts, nested) ==
    /\ shown' = Append(shown, [type |-> c.type, id |-> c.id, file |-> c.file,
                               depth |-> c.depth, indent |-> indent,
                               is |-> is, at |-> at, parts |-> parts])
    /\ todo' = nested \o Tail(todo)
    /\ UNCHANGED <<indent, end>>
ShowsNothing == todo' = Tail(todo) /\ UNCHANGED <<shown, indent, end>>
Ends(why) == end' = why /\ UNCHANGED <<todo, shown, indent>>

(* A buffer that keeps what was read last, when the next read fails.       *)
Latest(s, good) ==
    [k \in DOMAIN s |-> LET before == {j \in 1 .. k : s[j] \in good}
                        IN  IF before = {} THEN 0 ELSE s[Max(before)]]
Numbers(n) == [k \in 1 .. n |-> k]

------------------------------------------------------------------------------
(* Printed whether or not it could be read.                                *)
shows_anyway(c, t, least, room) ==
    LET h == FindIn(c.file, t, c.id)
    IN  Show(c, IF Reads(h, room) /\ h.length >= least THEN "chunk" ELSE "unset",
             At(h), <<>>, <<>>)

print_text(c) == shows_anyway(c, "TEXT", 1, TextRoom)
print_etme(c) == shows_anyway(c, "ETME", 1, TextRoom)
print_spin(c) == shows_anyway(c, "SPIN", 1, TextRoom)
print_rdat(c) == shows_anyway(c, "SPIN", 1, TextRoom)       \* gff_read_spin
print_merr(c) == shows_anyway(c, "MERR", 1, TextRoom)
print_psin(c) == shows_anyway(c, "PSIN", 1, StructSize)
print_button_item(c) == shows_anyway(c, "BUTN", ButtonSize, StructSize)

(* The powers of a character, by number, or by the name the game has; a    *)
(* name that cannot be read leaves the one before it.                      *)
print_powers(c, t) ==
    LET h == FindIn(c.file, t, c.id)
        powers == Content(h).items
    IN  IF Reads(h, StructSize)
        THEN Show(c, "chunk", At(h),
                  IF job.resource = None THEN powers ELSE Latest(powers, job.resource), <<>>)
        ELSE Show(c, "unset", At(h), <<>>, <<>>)

print_psst(c) == print_powers(c, "PSST")
print_spst(c) == print_powers(c, "SPST")

(* The names are those of NAME 1, whatever id was asked for; when they     *)
(* cannot be read their number is what the stack holds.                    *)
NamesRead ==
    LET h == Find("NAME", 1)
    IN  h # NotFound /\ h.length <= NamesRoom /\ ~Cut(h)

print_name(c) ==
    LET h == Find("NAME", 1)
    IN  IF NamesRead
        THEN Show(c, "chunk", At(h), Numbers(h.length \div NameSize), <<>>)
        ELSE Show(c, "unset", 0, <<>>, <<>>) \/ Ends("unset number")

(* The rows are those of IT1R 1; gff_read_it1r takes them back when the    *)
(* names are cut off.                                                      *)
print_it1r(c) ==
    LET h == Find("IT1R", 1)
        names == Find("NAME", 1)
    IN  IF Loads(h) /\ h.length % RowSize = 0 /\ (names # NotFound => ~Cut(names))
        THEN Show(c, IF NamesRead THEN "chunk" ELSE "unset", At(h),
                  Numbers(h.length \div RowSize), <<>>)
        ELSE ShowsNothing

------------------------------------------------------------------------------
(* Printed when it could be read.                                          *)
shows_read(c, t, least, room) ==
    LET h == FindIn(c.file, t, c.id)
    IN  IF Reads(h, room) /\ h.length >= least
        THEN Show(c, "chunk", At(h), <<>>, <<>>) ELSE ShowsNothing

print_ebox(c) == shows_read(c, "EBOX", StructSize, StructSize)
print_frame(c) == shows_read(c, "APFM", StructSize, StructSize)

(* A block is its action, and how many bytes gffmod_print_rdff prints of   *)
(* it.  No line is printed of an action that has none; an object has a     *)
(* type, which may lie behind what was read.                               *)
RDFF_OBJECT == 1
RdffActions == {RDFF_OBJECT, 2, 3, 4, -1}
Action(h) == Content(h).items[1]
print_rdff(c) ==
    LET h == FindIn(c.file, "RDFF", c.id)
    IN  IF Reads(h, StructSize) /\ Action(h) \in RdffActions
        THEN Show(c, IF Action(h) = RDFF_OBJECT /\ h.length < RdffType THEN "unset" ELSE "chunk",
                  At(h), <<>>, <<>>)
        ELSE ShowsNothing

(* Any byte of the flags of a map will do.                                 *)
print_flags(c, t) ==
    LET h == FindIn(c.file, t, c.id)
    IN  IF h.length \in 1 .. FlagsRoom /\ (Cut(h) => h.length > 1)
        THEN Show(c, IF Cut(h) THEN "part" ELSE "chunk", At(h), <<>>, <<>>)
        ELSE ShowsNothing

print_gmap(c) == print_flags(c, "GMAP")
print_rmap(c) == print_flags(c, "RMAP")

(* Printed from a block that is freed afterwards.  Mutant: freed also when *)
(* it could not be loaded.                                                 *)
FreesAlways(c, t) ==
    LET h == FindIn(c.file, t, c.id)
    IN  IF Loads(h) THEN Show(c, "chunk", At(h), Numbers(Len(Content(h).items)), <<>>)
        ELSE Ends("freed twice")
shows_loaded(c, t) ==
    LET h == FindIn(c.file, t, c.id)
    IN  IF Loads(h) THEN Show(c, "chunk", At(h), Numbers(Len(Content(h).items)), <<>>)
        ELSE ShowsNothing

print_mas(c) == shows_loaded(c, "MAS")          \* through gff_gpl_parse
print_gpl(c) == shows_loaded(c, "GPL")
print_gplx(c) == shows_loaded(c, "GPLX")

(* Only what the directory says of a song.                                 *)
print_header(c, t) == Show(c, "header", At(FindIn(c.file, t, c.id)), <<>>, <<>>)
print_cseq(c) == print_header(c, "CSEQ")
print_gseq(c) == print_header(c, "GSEQ")
print_pseq(c) == print_header(c, "PSEQ")
print_lseq(c) == print_header(c, "LSEQ")
print_bvoc(c) == print_header(c, "BVOC")

(* Fields, a count and lengths are taken as the block has them, without a  *)
(* look at how long it is: a block they do not fit is read behind, where   *)
(* there may be anything.  A character is its parts: where the next one    *)
(* begins, and how far what is printed of this one reaches.                *)
Fits(t, h) ==
    LET items == Content(h).items
    IN  CASE t = "FONT" -> h.length >= FontSize
          [] t = "ACCL" -> h.length >= AcclSize + AcclEntry * Len(items)
          [] t = "CHAR" -> \A k \in DOMAIN items : items[k].reach <= h.length
shows_unchecked(c, t) ==
    LET h == FindIn(c.file, t, c.id)
    IN  IF Fits(t, h) THEN Show(c, "chunk", At(h), Numbers(Len(Content(h).items)), <<>>)
        ELSE Show(c, "unset", At(h), <<>>, <<>>) \/ Ends("behind")

print_font(c) ==
    IF Loads(FindIn(c.file, "FONT", c.id)) THEN shows_unchecked(c, "FONT") ELSE ShowsNothing

print_accl(c) ==
    LET h == FindIn(c.file, "ACCL", c.id)
    IN  IF h = NotFound THEN ShowsNothing
        ELSE IF Cut(h) THEN Show(c, "header", At(h), <<>>, <<>>)
        ELSE shows_unchecked(c, "ACCL")

(* The length of a part is signed, and may lead back to one before it.     *)
GoesBack(h) ==
    LET parts == Content(h).items
    IN  ~IsInjective(<<0>> \o [k \in DOMAIN parts |-> parts[k].next])
print_char(c) ==
    LET h == FindIn(c.file, "CHAR", c.id)
    IN  IF ~Loads(h) THEN ShowsNothing
        ELSE IF Fits("CHAR", h) /\ GoesBack(h) THEN Ends("endless")
        ELSE shows_unchecked(c, "CHAR")

(* The entries of a script up to the mark of its last one.                 *)
print_scmd(c) ==
    LET h == FindIn(c.file, "SCMD", c.id)
        marks == {k \in DOMAIN Content(h).items : Content(h).items[k] = 1}
    IN  IF c.id \in 1 .. ScmdMax - 1 /\ h # NotFound /\ h.length <= ScmdMax /\ ~Cut(h)
        THEN Show(c, "chunk", At(h),
                  Numbers(IF marks = {} THEN Len(Content(h).items) ELSE Min(marks)), <<>>)
        ELSE ShowsNothing

------------------------------------------------------------------------------
(* The sizes of frames: one that cannot be found leaves the last one's.    *)
print_frames(c, t) ==
    LET h == FindIn(c.file, t, c.id)
        frames == Content(h).frames
        sized == {k \in DOMAIN frames : frames[k].sized}
    IN  IF h # NotFound /\ h.length >= HeadSize /\ (Cut(h) => h.length > HeadSize)
        THEN Show(c, IF Cut(h) \/ h.length > ImageRoom THEN "part" ELSE "chunk", At(h),
                  Latest(Numbers(Len(frames)), sized), <<>>)
        ELSE Show(c, "none", At(h), <<>>, <<>>)

print_icon(c) == print_frames(c, "ICON")
print_port(c) == print_frames(c, "PORT")
print_wall(c) == print_frames(c, "WALL")
print_bmp(c) == print_frames(c, "BMP")
print_tile(c) == print_frames(c, "TILE")

(* The number of monsters is taken for the length of the regions; that of  *)
(* a list of one byte wraps around.  It is not looked at whether the list  *)
(* could be loaded: one that is cut off was freed, and is freed again.     *)
RegionsOf(n) == ((n - 2) \div MonsterSize) \div RegionSize
print_monr(c) ==
    LET h == FindIn(c.file, "MONR", c.id)
    IN  IF Cut(h) THEN Ends("freed twice")
        ELSE IF h.length = 1 THEN Ends("behind")
        ELSE Show(c, "chunk", At(h), Numbers(IF h.length = 0 THEN 0 ELSE RegionsOf(h.length)), <<>>)

(* The directory's entry of the number the GFFI chunk has for an id.       *)
print_gffi(c) ==
    IF c.id < Len(job.order) THEN Show(c, "entry", 0, <<c.id>>, <<>>) ELSE Ends("behind")

(* The parts of a window, whose type and id it holds.  Nor is it looked at *)
(* whether the window could be loaded.                                     *)
print_window(c) ==
    LET h == FindIn(c.file, "WIND", c.id)
        parts == Content(h).items
    IN  IF Cut(h) THEN Ends("freed twice")
        ELSE IF h.length < StructSize THEN Ends("behind")
        ELSE Show(c, "chunk", At(h), Numbers(Len(parts)),
                  Nested(FlattenSeq([k \in DOMAIN parts |->
                            IF parts[k].type \in {"ACCL", "APFM", "BUTN", "EBOX"}
                            THEN <<Call(parts[k].type, parts[k].id, c.file, c.depth + 1)>>
                            ELSE <<>>])))

(* The objects of a map.  The table may have been cut off; its last entry  *)
(* is then what malloc returned.                                           *)
print_etab(c) ==
    LET h == FindIn(c.file, "ETAB", c.id)
        all == Content(h).items
        n == h.length \div EntrySize
    IN  \E any \in IF Cut(h) THEN ObjectIds ELSE {0} :
           LET objects == [k \in 1 .. n |-> IF Cut(h) /\ k = n THEN any ELSE all[k]]
           IN  Show(c, IF Cut(h) THEN "part" ELSE "chunk", At(h), Numbers(n),
                    IF job.segobjex = None THEN <<>>
                    ELSE FlattenSeq([k \in 1 .. n |->
                           Nested(<<Call("OJFF", objects[k], "segobjex", c.depth + 1)>>)]))

(* An object, with its picture and its script.                             *)
(* Mutant: the indentation is not taken back.                              *)
KeepsIndent(c) ==
    LET h == FindIn(c.file, "OJFF", c.id)
        o == Content(h).items
        Linked(t, i) == IF i > 0 THEN <<Shift(4), Call(t, i, c.file, c.depth + 1)>> ELSE <<>>
    IN  IF Reads(h, StructSize) /\ h.length = StructSize
        THEN Show(c, "chunk", At(h), <<>>, Linked("BMP", o[1]) \o Linked("SCMD", o[2]))
        ELSE ShowsNothing
print_ojff(c) ==
    LET h == FindIn(c.file, "OJFF", c.id)
        o == Content(h).items
        Linked(t, i) == IF i > 0 THEN Nested(<<Call(t, i, c.file, c.depth + 1)>>) ELSE <<>>
    IN  IF Reads(h, StructSize) /\ h.length = StructSize
        THEN Show(c, "chunk", At(h), <<>>, Linked("BMP", o[1]) \o Linked("SCMD", o[2]))
        ELSE ShowsNothing

------------------------------------------------------------------------------
(* print_func, by the type of the chunk.                                   *)
Printers == {"WIND", "BUTN", "GFFI", "TEXT", "ETME", "SPIN", "RDAT", "MONR", "FONT",
             "MERR", "CSEQ", "GSEQ", "PSEQ", "LSEQ", "BVOC", "ACCL", "EBOX", "APFM",
             "ICON", "BMP", "NAME", "IT1R", "PORT", "WALL", "ETAB", "GMAP", "RMAP",
             "TILE", "RDFF", "SCMD", "OJFF", "MAS", "GPL", "GPLX", "PSIN", "PSST",
             "SPST", "CHAR"}

print_func(c) ==
    CASE c.type = "WIND" -> print_window(c)
      [] c.type = "BUTN" -> print_button_item(c)
      [] c.type = "GFFI" -> print_gffi(c)
      [] c.type = "TEXT" -> print_text(c)
      [] c.type = "ETME" -> print_etme(c)
      [] c.type = "SPIN" -> print_spin(c)
      [] c.type = "RDAT" -> print_rdat(c)
      [] c.type = "MONR" -> print_monr(c)
      [] c.type = "FONT" -> print_font(c)
      [] c.type = "MERR" -> print_merr(c)
      [] c.type = "CSEQ" -> print_cseq(c)
      [] c.type = "GSEQ" -> print_gseq(c)
      [] c.type = "PSEQ" -> print_pseq(c)
      [] c.type = "LSEQ" -> print_lseq(c)
      [] c.type = "BVOC" -> print_bvoc(c)
      [] c.type = "ACCL" -> print_accl(c)
      [] c.type = "EBOX" -> print_ebox(c)
      [] c.type = "APFM" -> print_frame(c)
      [] c.type = "ICON" -> print_icon(c)
      [] c.type = "BMP" -> print_bmp(c)
      [] c.type = "NAME" -> print_name(c)
      [] c.type = "IT1R" -> print_it1r(c)
      [] c.type = "PORT" -> print_port(c)
      [] c.type = "WALL" -> print_wall(c)
      [] c.type = "ETAB" -> print_etab(c)
      [] c.type = "GMAP" -> print_gmap(c)
      [] c.type = "RMAP" -> print_rmap(c)
      [] c.type = "TILE" -> print_tile(c)
      [] c.type = "RDFF" -> print_rdff(c)
      [] c.type = "SCMD" -> print_scmd(c)
      [] c.type = "OJFF" -> print_ojff(c)
      [] c.type = "MAS" -> print_mas(c)
      [] c.type = "GPL" -> print_gpl(c)
      [] c.type = "GPLX" -> print_gplx(c)
      [] c.type = "PSIN" -> print_psin(c)
      [] c.type = "PSST" -> print_psst(c)
      [] c.type = "SPST" -> print_spst(c)
      [] c.type = "CHAR" -> print_char(c)

(* printfi writes as many spaces as indent says.                           *)
shift ==
    /\ indent' = indent + Head(todo).by
    /\ todo' = Tail(todo)
    /\ UNCHANGED <<shown, end>>

print ==
    /\ end = None /\ todo # <<>>
    /\ IF Head(todo).type = "indent" THEN shift ELSE print_func(Head(todo))

(* gffmod_print_entry: a number is a place in the directory, all else the  *)
(* name of a type, and so is "-1".                                         *)
EntryIndex(name) ==
    LET places == {k \in DOMAIN job.order : job.order[k] = name.type}
    IN  IF name.number # -1 THEN name.number
        ELSE IF places = {} THEN -1 ELSE Min(places) - 1

(* print_gff_entry: every id of the entry's type, in the list's order.     *)
gffmod_print_entry ==
    LET index == EntryIndex(job.entry)
        t == job.order[index + 1]
        ids == Ids(t)
    IN  IF index \in 0 .. Len(job.order) - 1 /\ t \in Printers
           /\ \A k \in DOMAIN ids : Find(t, ids[k]) # NotFound
        THEN /\ todo' = [k \in DOMAIN ids |-> Call(t, ids[k], "input", 0)]
             /\ UNCHANGED <<indent, shown, end>>
        ELSE Ends("exit")
==============================================================================
