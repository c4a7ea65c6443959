-------------------------------- MODULE Tool --------------------------------
(***************************************************************************)
(* gfftool: opens one file and does to it, in a fixed order, what its      *)
(* arguments ask for: prints an entry (Printer) or a block, writes every   *)
(* chunk to a file of its own, writes the frames of all pictures, all the  *)
(* songs and all the voices.  Each goes through the ids of each type, and  *)
(* each deals in its own way with a chunk that is cut off by the file's    *)
(* end, with a directory that is not there, and with a picture that cannot *)
(* be drawn.                                                               *)
(***************************************************************************)
EXTENDS Printer

CONSTANTS
    Jobs,                   \* what the tool may be asked to do
    NoJob,                  \* another application uses the library
    IdsRoom                 \* the ids of a type there is room for

VARIABLES
    mods,                   \* what is left to do, in order
    mod,                    \* what is being done
    files                   \* what was written, in order

(* What may be asked for, and what of it writes files.                     *)
Writers == {"dump", "images", "songs", "voices"}
Modes == {"entry", "rdff"} \cup Writers

(* Lengths: what a reader takes is more than one byte, and fits where the  *)
(* flags of a map and the entries of a script go.                          *)
ASSUME SizesAssumption ==
    /\ {StructSize, HeadSize, FlagsRoom, ScmdMax} \subseteq Nat /\ EntrySize \in Nat \ {0}
    /\ 1 < StructSize /\ HeadSize <= StructSize
    /\ StructSize <= FlagsRoom /\ StructSize <= ScmdMax

(* A file has each of its types once, and its chunks lie behind its header.*)
Sequence(s) == Len(s) \in Nat /\ DOMAIN s = 1 .. Len(s)
Place(j) == {l \in DOMAIN j.holds : l \in Nat \ {0} /\ Sequence(j.holds[l].items)
                                   /\ Sequence(j.holds[l].frames)}
ASSUME JobsAssumption ==
    /\ NoJob \notin Jobs
    /\ \A j \in Jobs :
          /\ WellFormed(j.dir)
          /\ Sequence(j.order) /\ IsInjective(j.order) /\ ToSet(j.order) = j.dir.types
          /\ \A t \in Ordinary : \A k \in DOMAIN j.dir.chunks[t] :
                j.dir.chunks[t][k].location \in Place(j)
          /\ \A n \in DOMAIN j.dir.gffi : \A k \in DOMAIN j.dir.gffi[n] :
                j.dir.gffi[n][k].location \in Place(j)
          /\ 0 \notin j.cut
(* What the process may come to, and nothing of it is None.                *)
BadEnds == {"exit", "freed twice", "behind", "endless", "unset number", "no file", "no picture",
            "overflow"}
ASSUME NoneAssumption == None \notin Modes \cup BadEnds \cup {"done"}

toolVars == <<job, todo, indent, shown, end, mods, mod, files>>

------------------------------------------------------------------------------
(* A file is a frame of a picture, a song, a conversion of one, or a whole *)
(* chunk, and is named for its chunk; at says whose bytes it holds.        *)
Written(c, as, at) == [mod |-> mod, type |-> c.type, id |-> c.id, as |-> as, at |-> at]
Writes(new) == files' = files \o new /\ todo' = Tail(todo) /\ UNCHANGED end
Dies(new, why) == files' = files \o new /\ end' = why /\ UNCHANGED todo
Skips == Writes(<<>>)

Header(c) == Find(c.type, c.id)

(* dump_entries: a chunk that cannot be loaded gives an empty file.        *)
dump_entry(c) ==
    Writes(<<Written(c, "raw", IF Loads(Header(c)) THEN At(Header(c)) ELSE 0)>>)

(* gffmod_write_image.  A frame that cannot be drawn is no bytes, of which *)
(* as many are written as its size says: its file is open by then, and     *)
(* stays empty.  A chunk too short to have the number of frames has any    *)
(* number of them.                                                         *)
Undrawn(frames) ==
    {k \in DOMAIN frames : ~frames[k].drawn /\ (frames[k].sized => frames[k].size > 0)}

gffmod_write_image(c) ==
    LET h == Header(c)
        frames == Content(h).frames
        Frame(k) == Written(c, k, At(h))
        bad == Undrawn(frames)
    IN  IF c.type \notin {"BMP", "ICON", "PORT"} \/ ~job.pals \/ Cut(h) THEN Skips
        ELSE IF h.length < HeadSize THEN Skips \/ Dies(<<>>, "behind")
        ELSE IF frames = <<>> THEN Skips
        ELSE IF ~job.there THEN Dies(<<>>, "no file")
        ELSE IF bad # {} THEN Dies([k \in 1 .. Min(bad) |->
                                      IF k \in bad THEN Written(c, k, 0) ELSE Frame(k)],
                                   "no picture")
        ELSE Writes([k \in DOMAIN frames |-> Frame(k)])

(* gffmod_write_xmis: the song and what it converts to.  The condition     *)
(* turns away the songs of one type only.  Mutant: the length that was     *)
(* read is not looked at.                                                  *)
Conversions == <<"midi", "gm", "gs">>       \* GS127_TO_GS gives nothing
WritesCut(c) ==
    LET h == Header(c)
        forms == <<"xmi">> \o (IF Content(h).midi THEN Conversions ELSE <<>>)
    IN  IF c.type = "LSEQ" THEN Skips
        ELSE IF ~job.there THEN Dies(<<>>, "no file")
        ELSE Writes([k \in DOMAIN forms |-> Written(c, forms[k], At(h))])
gffmod_write_xmis(c) ==
    LET h == Header(c)
        forms == <<"xmi">> \o (IF Content(h).midi THEN Conversions ELSE <<>>)
    IN  IF c.type = "LSEQ" \/ Cut(h) THEN Skips
        ELSE IF ~job.there THEN Dies(<<>>, "no file")
        ELSE Writes([k \in DOMAIN forms |-> Written(c, forms[k], At(h))])

(* extract_all_bvocs leaves at the first voice that is cut off.            *)
extract_bvoc(c) ==
    LET h == Header(c)
    IN  IF Cut(h) THEN todo' = <<>> /\ UNCHANGED <<files, end>>
        ELSE IF ~job.there THEN Dies(<<>>, "no file")
        ELSE Writes(<<Written(c, "bvoc", At(h))>>)

(* The ids of a type go to a buffer on the stack, whatever the type.       *)
write(c) ==
    IF mod # "dump" /\ Len(Ids(c.type)) > IdsRoom THEN Dies(<<>>, "overflow")
    ELSE CASE mod = "dump" -> dump_entry(c)
           [] mod = "images" -> gffmod_write_image(c)
           [] mod = "songs" -> IF c.type \in {"CSEQ", "GSEQ", "PSEQ", "LSEQ"}
                               THEN gffmod_write_xmis(c) ELSE Skips
           [] mod = "voices" -> IF c.type = "BVOC" THEN extract_bvoc(c) ELSE Skips

(* The types, each with its place.                                         *)
print_table_of_contents ==
    /\ shown' = shown \o [k \in DOMAIN job.order |->
                            [type |-> job.order[k], id |-> k - 1, file |-> "input", depth |-> 0,
                             indent |-> 0, is |-> "entry", at |-> 0, parts |-> <<>>]]
    /\ UNCHANGED <<todo, indent, end>>

(* The block of a number is printed at length, whatever its action is and  *)
(* however much of it there is.                                            *)
gffmod_print_rdff(c) ==
    LET h == FindIn(c.file, "RDFF", c.id)
    IN  IF Reads(h, StructSize)
        THEN Show(c, IF h.length < Content(h).items[2] THEN "unset" ELSE "chunk",
                  At(h), <<>>, <<>>)
        ELSE ShowsNothing

------------------------------------------------------------------------------
(* Mutant: the ids of the first type only.                                 *)
FirstTypeOnly(n) ==
    [k \in DOMAIN Ids(job.order[1]) |-> Call(job.order[1], Ids(job.order[1])[k], "input", 0)]
ChunksOfTypes(n) ==
    FlattenSeq([j \in 1 .. n |-> [k \in DOMAIN Ids(job.order[j]) |->
                                    Call(job.order[j], Ids(job.order[j])[k], "input", 0)]])
AllChunks == ChunksOfTypes(Len(job.order))

Asks(m) == m \in job.args
IfAsked(m) == IF Asks(m) THEN <<m>> ELSE <<>>

(* do_mods; gff_free and gff_manager_free at the end.                      *)
do_mods ==
    /\ end = None /\ todo = <<>>
    /\ IF mods = <<>>
       THEN end' = "done" /\ UNCHANGED <<todo, indent, shown, mods, mod>>
       ELSE /\ mod' = Head(mods) /\ mods' = Tail(mods)
            /\ CASE mod' = "entry" ->
                       IF job.entry = None THEN print_table_of_contents ELSE gffmod_print_entry
                 [] mod' = "rdff" ->
                       /\ todo' = <<Call("RDFF", job.rdff, "input", 0)>>
                       /\ UNCHANGED <<indent, shown, end>>
                 [] mod' = "dump" ->
                       /\ todo' = IF job.there THEN AllChunks ELSE <<>>
                       /\ UNCHANGED <<indent, shown, end>>
                 [] mod' \in {"images", "songs", "voices"} ->
                       /\ todo' = AllChunks
                       /\ UNCHANGED <<indent, shown, end>>
    /\ UNCHANGED <<job, files>>

(* One chunk is printed or written.                                        *)
printing ==
    /\ end = None /\ todo # <<>>
    /\ \/ mod = "entry" /\ print
       \/ mod = "rdff" /\ gffmod_print_rdff(Head(todo))
    /\ UNCHANGED <<job, mods, mod, files>>

writing ==
    /\ mod \in Writers
    /\ end = None /\ todo # <<>>
    /\ write(Head(todo))
    /\ UNCHANGED <<job, indent, shown, mods, mod>>

tool == do_mods \/ printing \/ writing

ToolInit ==
    /\ \E j \in Jobs \cup {NoJob} :
          /\ job = j
          /\ IF j = NoJob THEN f \in Files ELSE f = j.dir
    /\ list = None /\ found = None /\ running = TRUE
    /\ todo = <<>> /\ indent = 0 /\ shown = <<>> /\ end = None
    /\ mods = IF job = NoJob THEN <<>>
              ELSE IfAsked("entry") \o IfAsked("dump") \o IfAsked("images")
                   \o IfAsked("songs") \o IfAsked("voices") \o IfAsked("rdff")
    /\ mod = None /\ files = <<>>

ToolNext ==
    \/ job = NoJob /\ Next /\ UNCHANGED toolVars
    \/ job # NoJob /\ tool /\ UNCHANGED vars

ToolSpec == ToolInit /\ [][ToolNext]_<<vars, toolVars>>

------------------------------------------------------------------------------
(* Types of which every chunk has a line, whether it can be read or not,   *)
(* and those whose line is of the chunk that was asked for.                *)
AlwaysShown ==
    {"TEXT", "ETME", "SPIN", "RDAT", "MERR", "PSIN", "BUTN", "PSST", "SPST", "NAME",
     "CSEQ", "GSEQ", "PSEQ", "LSEQ", "BVOC", "ICON", "PORT", "WALL", "BMP", "TILE",
     "ACCL", "MONR", "GFFI", "WIND"}
ShownById == Printers \ {"RDAT", "NAME", "IT1R", "GFFI"}

Readable(t, i) ==
    /\ ~Cut(Find(t, i))
    /\ Find(t, i).length = StructSize
    /\ t = "SCMD" => i \in 1 .. ScmdMax - 1
    /\ t = "RDFF" => Action(Find(t, i)) \in RdffActions
    /\ t = "IT1R" => /\ i = 1 /\ StructSize % RowSize = 0
                     /\ At(Find("NAME", 1)) \notin job.cut

EntryType == job.order[EntryIndex(job.entry) + 1]
InIdOrder(t, i, j) ==
    \E m, n \in DOMAIN Ids(t) : m < n /\ Ids(t)[m] = i /\ Ids(t)[n] = j

(* The listing says of each chunk what is its own.  Every line is of the   *)
(* chunk the directory has under its type and id, however deep it was met, *)
(* and is indented by that depth; what is said of a chunk that is cut off  *)
(* is not taken for the chunk; and an entry that was listed to the end has *)
(* one line for every id that can be read, in the order of the ids.        *)
(* Except that a record is looked for among the texts of spells, that      *)
(* names and rows of items are those of chunk 1, the rows not without the  *)
(* names, and that a GFFI is the entry of that number.                     *)
ShowsItsChunk ==
    job # NoJob =>
       /\ \A k \in DOMAIN shown :
             LET s == shown[k]
             IN  /\ s.indent = 4 * s.depth
                 /\ s.type \in ShownById /\ s.is # "entry" =>
                       s.at = At(FindIn(s.file, s.type, s.id))
                 /\ s.is = "chunk" => s.at \notin job.cut
       /\ end = "done" /\ Asks("entry") /\ job.entry # None /\ ~Asks("rdff") =>
             LET t == EntryType
                 top == {k \in DOMAIN shown : shown[k].depth = 0}
             IN  /\ \A j, k \in top : j < k => InIdOrder(t, shown[j].id, shown[k].id)
                 /\ {shown[k].id : k \in top} \subseteq ToSet(Ids(t))
                 /\ \A i \in ToSet(Ids(t)) :
                       t \in AlwaysShown \/ Readable(t, i) => \E k \in top : shown[k].id = i

(* The files README.md:309-312 and the help promise of a chunk: its bytes, *)
(* its pictures, its song and what that converts to, its voice.            *)
Listed(types) ==
    UNION {{Call(t, Ids(t)[k], "input", 0) : k \in DOMAIN Ids(t)} : t \in f.types \cap types}
WholeOf(types) == {c \in Listed(types) : ~Cut(Header(c))}
Pictures == {"BMP", "ICON", "PORT", "TILE", "WALL"}
Due(m, c) ==
    CASE m = "dump" -> {"raw"}
      [] m = "images" -> IF c.type \in Pictures THEN DOMAIN Content(Header(c)).frames ELSE {}
      [] m = "songs" ->
            IF c.type \notin {"CSEQ", "GSEQ", "PSEQ", "LSEQ"} THEN {}
            ELSE {"xmi"} \cup (IF Content(Header(c)).midi THEN ToSet(Conversions) \cup {"gs127"}
                               ELSE {})
      [] m = "voices" -> IF c.type = "BVOC" THEN {"bvoc"} ELSE {}

(* Those that are left out.  No picture of a tile or a wall is written,    *)
(* and without a palette none at all; the condition of gfftool-write.c:122 *)
(* turns away every song of type LSEQ; the conversion from GS127 gives     *)
(* nothing; and no voice is written once one is met that is cut off.       *)
LeftOut(m, c, as) ==
    \/ m # "dump" /\ Cut(Header(c))
    \/ m = "images" /\ (~job.pals \/ c.type \in {"TILE", "WALL"} \/ Header(c).length < HeadSize)
    \/ m = "songs" /\ (c.type = "LSEQ" \/ as = "gs127")
    \/ m = "voices" /\ Listed({"BVOC"}) # WholeOf({"BVOC"})

(* What is extracted is what the file holds: every chunk has each file     *)
(* that is due of it, no file is of anything else or written twice, and    *)
(* each has the bytes of the chunk it is named for.  Except that a dump is *)
(* empty where the file is cut, and a picture where drawing it ends the    *)
(* process; and that not all is extracted that README.md:311-312 says is   *)
(* (all images, all xmi and voc): what LeftOut names is not.               *)
Named(w, c) == w.type = c.type /\ w.id = c.id
HasFile(m, c, as) ==
    \E k \in DOMAIN files : files[k].mod = m /\ Named(files[k], c) /\ files[k].as = as
Filled(w, c) ==
    \/ w.at = At(Header(c))
    \/ w.at = 0 /\ w.mod = "dump" /\ ~Loads(Header(c))
    \/ /\ w.at = 0 /\ w.mod = "images" /\ end = "no picture"
       /\ w.as \in Undrawn(Content(Header(c)).frames)
ExtractsTheFile ==
    job # NoJob =>
       /\ \A k \in DOMAIN files :
             LET w == files[k]
             IN  /\ \E c \in Listed(f.types) : /\ Named(w, c) /\ w.as \in Due(w.mod, c)
                                               /\ Filled(w, c)
                 /\ w.at \notin job.cut
                 /\ \A j \in 1 .. k - 1 : files[j] # w
       /\ end = "done" /\ job.there =>
             \A m \in Writers : Asks(m) =>
                \A c \in Listed(f.types) : \A as \in Due(m, c) :
                   HasFile(m, c, as) \/ LeftOut(m, c, as)

(* The tool comes to a bad end for one of these causes only: an entry it   *)
(* does not have, names that cannot be read, an id that is used as a place *)
(* in the directory, a list of monsters, a window or a picture that is cut *)
(* off or too short, a font, a character or a control that says more of    *)
(* itself than it holds, a character whose parts lead back, a directory    *)
(* that is not there, a frame that cannot be drawn, or a type of more ids  *)
(* than there is room for.                                                 *)
ControlIds ==
    {c.id : c \in Listed({"ACCL"})} \cup
    UNION {{p.id : p \in {p \in ToSet(Content(Header(c)).items) : p.type = "ACCL"}} :
             c \in Listed({"WIND"})}
Overstated ==
    \/ \E c \in WholeOf({"FONT", "CHAR"}) : ~Fits(c.type, Header(c))
    \/ \E i \in ControlIds : /\ Find("ACCL", i) # NotFound
                             /\ ~Fits("ACCL", Find("ACCL", i))
DiesForACause ==
    job # NoJob /\ end \notin {None, "done"} =>
       \/ /\ end = "exit" /\ mod = "entry" /\ shown = <<>>
          /\ EntryIndex(job.entry) \in 0 .. Len(job.order) - 1 => EntryType \notin Printers
       \/ /\ end = "freed twice"
          /\ \E c \in Listed({"MONR", "WIND"}) : Cut(Header(c))
       \/ /\ end = "behind"
          /\ \/ \E c \in Listed({"GFFI"}) : c.id >= Len(job.order)
             \/ \E c \in Listed({"MONR", "WIND", "BMP", "ICON", "PORT"}) :
                   Header(c).length < StructSize
             \/ Overstated
       \/ end = "endless" /\ \E c \in Listed({"CHAR"}) : GoesBack(Header(c))
       \/ end = "unset number" /\ mod = "entry" /\ ~NamesRead
       \/ end = "no file" /\ ~job.there /\ mod # "dump"
       \/ /\ end = "no picture" /\ job.pals
          /\ \E c \in WholeOf({"BMP", "ICON", "PORT"}) : Undrawn(Content(Header(c)).frames) # {}
       \/ end = "overflow" /\ \E t \in f.types : Len(Ids(t)) > IdsRoom
==============================================================================
