------------------------------- MODULE MCTool -------------------------------
(***************************************************************************)
(* The directories of MCChunkLookup, for an application that asks for ids  *)
(* and adds chunks, and for the tool, which lists and dumps each of them;  *)
(* and files with chunks of every type the tool prints or writes: whole    *)
(* ones, empty ones, ones that are cut off, and ones too short or too long *)
(* for the reader, two by two.                                             *)
(***************************************************************************)
EXTENDS Tool, MCChunkLookup

(* A file is a sequence of chunks; a chunk lies at its place in it, those  *)
(* of another file behind all of its.                                      *)
Chunk(t, i, n) ==
    [type |-> t, id |-> i, length |-> n, cut |-> FALSE,
     items |-> <<>>, frames |-> <<>>, midi |-> FALSE]
Truncated(c) == [c EXCEPT !.cut = TRUE]
Holding(c, items) == [c EXCEPT !.items = items]
Whole(t, i) == Chunk(t, i, 4)

Places(cs, t) == SetToSortSeq({k \in DOMAIN cs : cs[k].type = t}, <)
TypesOf(cs) == {cs[k].type : k \in DOMAIN cs}
Order(cs) == SetToSortSeq(TypesOf(cs), LAMBDA s, t : Places(cs, s)[1] < Places(cs, t)[1])
Dir(cs, from) ==
    [types |-> TypesOf(cs),
     chunks |-> [t \in Ordinary |->
                   [j \in DOMAIN Places(cs, t) |->
                      LET k == Places(cs, t)[j]
                      IN  [id |-> cs[k].id, location |-> from + k, length |-> cs[k].length]]],
     runs |-> [t \in Segmented |-> <<>>],
     table |-> [t \in Segmented |-> 1],
     gffi |-> << <<>> >>]

Job(cs, os, args) ==
    [dir |-> Dir(cs, 0), order |-> Order(cs), holds |-> cs \o os,
     cut |-> {k \in DOMAIN (cs \o os) : (cs \o os)[k].cut},
     segobjex |-> IF os = <<>> THEN None ELSE Dir(os, Len(cs)),
     resource |-> None, there |-> TRUE, pals |-> TRUE, args |-> args,
     entry |-> [number |-> 0, type |-> "none"], rdff |-> 1]

Listing(cs, t) == [Job(cs, <<>>, {"entry"}) EXCEPT !.entry = [number |-> -1, type |-> t]]

------------------------------------------------------------------------------
Good == [sized |-> TRUE, drawn |-> TRUE, size |-> 2]
Lost == [sized |-> FALSE, drawn |-> FALSE, size |-> 0]
Flat == [sized |-> TRUE, drawn |-> FALSE, size |-> 0]
Spoilt == [sized |-> TRUE, drawn |-> FALSE, size |-> 2]

(* Parts of a character, one behind the other, the last longer than what   *)
(* there is, and one that leads back; blocks of an action that is printed, *)
(* of an object, and of one that is not.                                   *)
Of(next, reach) == [next |-> next, reach |-> reach]
Items(t) ==
    CASE t = "CHAR" -> {<<Of(2, 2)>>, <<Of(2, 2), Of(4, 4)>>, <<Of(2, 2), Of(9, 4)>>,
                        <<Of(2, 2), Of(2, 4)>>}
      [] t = "RDFF" -> {<<-1, 3>>, <<0, 3>>, <<1, 4>>}
      [] OTHER -> {<<2, 1>>}

Variants(t, i) ==
    {[c EXCEPT !.items = items, !.frames = <<Lost, Good, Lost>>] :
       items \in Items(t), c \in {Chunk(t, i, n) : n \in {0, 1, 2, 4, 7}}
                               \cup {Truncated(Chunk(t, i, n)) : n \in {1, 4}}}

WithParts == {"WIND", "ETAB", "OJFF"}
Pairs ==
    UNION {{Listing(<<d, c>>, t) : c \in Variants(t, 1), d \in Variants(t, 0)} :
             t \in (Printers \ Segmented) \ WithParts}
ItemsAndNames == {Listing(<<c, d>>, "IT1R") : c \in Variants("IT1R", 1), d \in Variants("NAME", 1)}

Part(t, i) == [type |-> t, id |-> i]
Parts == <<Part("ACCL", 1), Part("APFM", 1), Part("BUTN", 1), Part("OTHR", 1), Part("EBOX", 1),
           Part("BUTN", 9)>>
Windows ==
    {Listing(<<Holding(c, Parts), d, a, b>>, "WIND") :
       c \in Variants("WIND", 1), d \in {Holding(Whole("WIND", 2), <<Part("EBOX", 1)>>)},
       a \in Variants("ACCL", 1) \cup Variants("APFM", 1),
       b \in Variants("EBOX", 1) \cup Variants("BUTN", 1)}

(* Maps, with the objects of the game and without.                         *)
Objects ==
    {<<Holding(o, <<1, 1>>), Holding(Whole("OJFF", 2), <<0, 2>>), b, Holding(s, <<0, 1, 0>>)>> :
       o \in Variants("OJFF", 1), b \in Variants("BMP", 1), s \in Variants("SCMD", 1)}
Maps ==
    {Job(<<Holding(m, <<1, 2, 3>>)>>, os, {"entry"}) :
       m \in Variants("ETAB", 1), os \in Objects \cup {<<>>}}
ObjectsOnly == {Listing(os, "OJFF") : os \in Objects}

Powers ==
    {[Listing(<<Holding(Whole(t, 1), <<3, 1, 2>>), Whole(t, 2)>>, t) EXCEPT !.resource = names] :
       t \in {"PSST", "SPST"}, names \in SUBSET (1 .. 3)}

Odd == <<Whole("OTHR", 1), Whole("TEXT", 1)>>
Entries ==
    {[Job(Odd, <<>>, {"entry", "dump"}) EXCEPT !.entry = e] :
       e \in {None} \cup [number : -2 .. 2, type : {"OTHR", "TEXT", "EBOX"}]}

(* The tool on the directories of MCChunkLookup.                           *)
Dumps ==
    {[Job(<<>>, <<>>, {"entry", "dump", "images"}) EXCEPT
        !.dir = File(r), !.order = <<"TILE", "GFFI", "CHAR", "WALL">>,
        !.holds = [l \in 1 .. 99 |-> [Whole("TILE", l) EXCEPT !.frames = <<Good>>]],
        !.entry.number = n] :
       r \in RunSeqs, n \in {0, 3}}

Drawings == {<<>>, <<Good, Good>>, <<Flat, Good>>, <<Good, Spoilt>>, <<Good, Lost>>}
Extracts ==
    {[Job(<<[Chunk(t, 1, n) EXCEPT !.frames = p, !.cut = b], [Whole("ICON", 1) EXCEPT !.frames = <<Good>>]>>,
          <<>>, args) EXCEPT !.there = there, !.pals = pals] :
       t \in {"BMP", "PORT", "CHAR"}, n \in {0, 4}, p \in Drawings, b \in BOOLEAN,
       args \in {{"images"}, {"images", "dump"}}, there \in BOOLEAN, pals \in BOOLEAN}
Songs ==
    {[Job(<<c, [Whole(t, 2) EXCEPT !.midi = midi], d, Whole("BVOC", 2), r>>, <<>>,
          {"songs", "voices", "rdff", "dump"}) EXCEPT !.there = there] :
       t \in {"CSEQ", "GSEQ", "PSEQ", "LSEQ"}, c \in Variants("GSEQ", 1), midi \in BOOLEAN,
       d \in Variants("BVOC", 1), r \in {Holding(Whole("RDFF", i), items) : i \in {1, 2}, items \in Items("RDFF")},
       there \in BOOLEAN}
Blocks ==
    {[Listing(<<d, c>>, "RDFF") EXCEPT !.args = {"entry", "rdff"}] :
       c \in Variants("RDFF", 1), d \in Variants("RDFF", 0)}
Many ==
    {Job([k \in 1 .. n |-> Whole(t, k)] \o <<Whole("BVOC", 9)>>, <<>>, {m}) :
       n \in 2 .. 4, t \in {"BMP", "BVOC", "TEXT"}, m \in {"dump", "images", "songs", "voices"}}

MCJobs ==
    Pairs \cup ItemsAndNames \cup Windows \cup Maps \cup ObjectsOnly \cup Powers \cup Entries
    \cup Dumps \cup Extracts \cup Songs \cup Blocks \cup Many
==============================================================================
