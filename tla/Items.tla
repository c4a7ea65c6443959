-------------------------------- MODULE Items --------------------------------
(***************************************************************************)
(* Items and what describes them.  item.c keeps the rows of IT1R and the   *)
(* names of NAME in static variables that every manager of the process     *)
(* shares and every question reads again; gff_manager_ds1_read_... reads   *)
(* them into blocks of its own.  Items themselves are RDFF chunks (Rdff),  *)
(* the scripts of their frames SCMD chunks (Scmd); a manager also draws    *)
(* its font (Fonts).                                                       *)
(***************************************************************************)
EXTENDS Resources, Sequences

CONSTANTS
    Managers,
    ItemFiles,      \* what a GPLDATA file has: [it1r, name], chunks or None
    Indices,        \* rows and names that are asked for
    RdffChunks,     \* the blocks of RDFF chunks
    Scripts,        \* the frames of scripts, ended by LAST or JUMP
    FontChunks      \* fonts

(* None is none of the things it stands for.                               *)
BlockFields == [kind : Kinds, length : Nat, read : Nat, of : Managers \cup {None}]

ASSUME NoneAssumption == None \notin Blocks \cup Chunks /\ None \notin BlockFields
ASSUME ItemsAssumption ==
    /\ ItemFiles \subseteq [it1r : Chunks \cup {None}, name : Chunks \cup {None}]
    /\ Indices \subseteq Int

R == INSTANCE Rdff
S == INSTANCE Scmd
F == INSTANCE Fonts

ASSUME ChunksAssumption ==
    /\ RdffChunks \subseteq Seq(R!ChunkBlocks)
    /\ \A fs \in Scripts : /\ fs \in Seq(S!Frames) /\ fs # <<>>
                           /\ fs[Len(fs)].last \/ fs[Len(fs)].jump
    /\ \A font \in FontChunks :
          font.height \in Nat /\ font.chars \in Seq([width : Nat, data : Seq(Nat)])

VARIABLES
    file,       \* for every manager its GPLDATA file, one of ItemFiles
    table,      \* the static item1rs, num_item1rs, names and num_names
    answer      \* to the last question

allvars == <<heap, ptr, call, file, table, answer>>

NoAnswer == [kind |-> "none", ok |-> FALSE, of |-> None, from |-> None, inside |-> TRUE]

Init ==
    /\ ResourcesInit
    /\ file \in [Managers -> ItemFiles]
    /\ table = [rows |-> None, num_item1rs |-> 0, names |-> None, num_names |-> 0]
    /\ answer = NoAnswer

------------------------------------------------------------------------------
RowsRefused(c) == Length(c) = 0 \/ Length(c) % RowSize # 0

(* A missing NAME has length 0.                                            *)
NameOf(m) == IF file[m].name = None THEN [length |-> 0, there |-> 0] ELSE file[m].name
Owned(kind, c, m) == [Block(kind, c) EXCEPT !.of = m]

(* gff_read_it1r: rows and count belong to the caller, the names are the   *)
(* static ones.  A header that is refused changes nothing; rows that are   *)
(* cut off are freed after the count is set; names that are cut off free   *)
(* the rows and stay themselves.  What was there before is never freed.    *)
it1r_reads(m, rows, count) ==
    LET c == file[m].it1r
        d == NameOf(m)
    IN  IF RowsRefused(c)
        THEN {[heap |-> heap, rows |-> rows, count |-> count, ok |-> FALSE,
               names |-> table.names, num_names |-> table.num_names]}
        ELSE IF ~Whole(c)
        THEN {[heap |-> heap, rows |-> None, count |-> c.length \div RowSize,
               ok |-> FALSE, names |-> table.names, num_names |-> table.num_names]}
        ELSE {[heap |-> [b \in Blocks |->
                           IF b = bn[2] THEN Owned("names", d, m)
                           ELSE IF b = bn[1] /\ Whole(d) THEN Owned("rows", c, m)
                           ELSE heap[b]],
               rows |-> IF Whole(d) THEN bn[1] ELSE None,
               count |-> c.length \div RowSize, ok |-> Whole(d),
               names |-> bn[2], num_names |-> d.length \div NameSize] :
                 bn \in {x \in Free \X Free : x[1] # x[2]}}

gff_read_it1r(p, m) ==
    /\ ~ptr[p].ok
    /\ \E t \in it1r_reads(m, ptr[p].at, ptr[p].count) :
          /\ heap' = t.heap
          /\ ptr' = [ptr EXCEPT ![p] = [at |-> t.rows, ok |-> t.ok, count |-> t.count]]
          /\ table' = [table EXCEPT !.names = t.names, !.num_names = t.num_names]
    /\ answer' = NoAnswer /\ call' = NoCall /\ UNCHANGED file

------------------------------------------------------------------------------
(* Mutant: the tables are read once, as the code that is commented out in  *)
(* get_item1rs had it.                                                     *)
ReadOnce(m) ==
    IF table.rows # None
    THEN {[heap |-> heap, rows |-> table.rows, count |-> table.num_item1rs, ok |-> TRUE,
           names |-> table.names, num_names |-> table.num_names]}
    ELSE it1r_reads(m, table.rows, table.num_item1rs)
get_item1rs(m) == it1r_reads(m, table.rows, table.num_item1rs)

(* A question of manager m reads the tables, whether that works or not,    *)
(* and answers from the block "of" if the index is below the number n.     *)
Asked(kind, m, i, of, n, size) ==
    /\ \E t \in get_item1rs(m) :
          /\ heap' = t.heap
          /\ table' = [rows |-> t.rows, num_item1rs |-> t.count, names |-> t.names,
                       num_names |-> t.num_names]
          /\ answer' = IF i < 0 \/ i >= t[n] THEN NoAnswer
                       ELSE [kind |-> kind, ok |-> TRUE, of |-> m,
                             from |-> IF t[of] = None THEN None ELSE t.heap[t[of]].of,
                             inside |-> t[of] # None =>
                                          (i + 1) * size <= t.heap[t[of]].length]
    /\ call' = NoCall /\ UNCHANGED <<ptr, file>>

gff_manager_get_item1r(m, i) == Asked("row", m, i, "rows", "count", RowSize)
gff_manager_get_name(m, i) == Asked("name", m, i, "names", "num_names", NameSize)

(* The other readers free their own block on every way out.  A negative    *)
(* index is compared as an unsigned one, or refused.                       *)
ReadAlone(kind, m, c, i, size, refused) ==
    /\ answer' = IF refused \/ ~Whole(c) \/ i < 0 \/ i >= c.length \div size THEN NoAnswer
                 ELSE [kind |-> kind, ok |-> TRUE, of |-> m, from |-> m,
                       inside |-> (i + 1) * size <= c.length]
    /\ call' = NoCall /\ UNCHANGED <<heap, ptr, file, table>>

gff_manager_ds1_read_item1r(m, i) ==
    ReadAlone("row", m, file[m].it1r, i, RowSize, RowsRefused(file[m].it1r))
gff_manager_ds1_read_name(m, i) ==
    ReadAlone("name", m, file[m].name, i, NameSize, FALSE)

------------------------------------------------------------------------------
Rest == UNCHANGED <<file, table>> /\ answer' = NoAnswer

(* gff_item_read; gff_manager_item_load says success whatever it was told. *)
item_read(c, type) ==
    /\ Reads("item", c, StructSize, StructSize,
             R!gff_item_read(gff_read_raw(c, StructSize) > 0, type), None)
    /\ Rest
gff_manager_item_load(c) ==
    Reads("item_load", c, StructSize, StructSize, TRUE, None) /\ Rest

(* gff_name_get_random: what was read counts as an error.  The list of ids *)
(* is not asked how long it is, so any chunk or none may be found.         *)
gff_name_get_random(c, size) ==
    Reads("random", c, size, size, c # None /\ gff_read_chunk(c, size) = 0, None) /\ Rest

gff_rdff_to_object(blocks) ==
    /\ Fresh /\ answer = NoAnswer
    /\ answer' = [kind |-> "object", blocks |-> blocks,
                  result |-> R!gff_rdff_to_object(blocks)]
    /\ call' = NoCall /\ UNCHANGED <<heap, ptr, file, table>>

gff_scmd_total_delay(frames, pos) ==
    /\ Fresh /\ answer = NoAnswer
    /\ answer' = [kind |-> "delay", frames |-> frames, pos |-> pos,
                  sum |-> S!gff_scmd_total_delay(frames, pos)]
    /\ call' = NoCall /\ UNCHANGED <<heap, ptr, file, table>>

(* gff_manager_font_load frees the font, hands the sheet over, and falls   *)
(* into read_error: it reports a failure always.                           *)
gff_manager_font_load(font) ==
    /\ Fresh /\ answer = NoAnswer
    /\ \E b \in Free :
          heap' = [heap EXCEPT ![b] = Block("sheet", [length |-> 1, there |-> 1])]
    /\ answer' = [kind |-> "sheet", font |-> font, sheet |-> F!Sheet(font)]
    /\ call' = NoCall /\ UNCHANGED <<ptr, file, table>>

ResourceStep == ResourcesNext /\ Rest

Next ==
    /\ Runs
    /\ \/ ResourceStep
       \/ \E m \in Managers :
             \/ \E p \in Pointers : gff_read_it1r(p, m)
             \/ \E i \in Indices :
                   \/ gff_manager_get_item1r(m, i) \/ gff_manager_get_name(m, i)
                   \/ gff_manager_ds1_read_item1r(m, i) \/ gff_manager_ds1_read_name(m, i)
       \/ \E c \in Chunks \cup {None} :
             \/ \E type \in R!Types : item_read(c, type)
             \/ gff_manager_item_load(c)
             \/ \E size \in Sizes : gff_name_get_random(c, size)
       \/ \E blocks \in RdffChunks : gff_rdff_to_object(blocks)
       \/ \E font \in FontChunks : gff_manager_font_load(font)
       \/ \E frames \in Scripts : \E pos \in 0 .. Len(frames) - 1 :
             gff_scmd_total_delay(frames, pos)

Spec == Init /\ [][Next]_allvars

------------------------------------------------------------------------------
(* Memory that is allocated and that nobody holds was lost in one of the   *)
(* ways the code has: an empty chunk that looked like a failure, a song    *)
(* that is cut off, an export, a SPIN of two bytes whose pointer is        *)
(* cleared, the sheet of a font that was reported as a failure, and the    *)
(* tables a later question replaced.                                       *)
Held(b) == \/ \E p \in Pointers : ptr[p].ok /\ ptr[p].at = b
           \/ b = table.rows \/ b = table.names
LostForCause ==
    \A b \in Blocks : heap[b] # None /\ ~Held(b) =>
       \/ heap[b].kind \in {"export", "sheet", "rows", "names"}
       \/ heap[b].kind = "seq" /\ heap[b].read < heap[b].length
       \/ heap[b].kind = "spin" /\ heap[b].length = 2
       \/ heap[b].kind # "midi" /\ heap[b].length = 0

(* A row or a name that a manager answers with lies inside its table, and  *)
(* the table is the manager's own wherever its file has whole rows and     *)
(* whole names: gff_manager_get_item1r and _get_name do not look whether   *)
(* reading worked, and may follow no table, or another manager's.          *)
Readable(m) == /\ ~RowsRefused(file[m].it1r) /\ Whole(file[m].it1r)
               /\ Whole(NameOf(m))
AnswersOwnTable ==
    answer.kind \in {"row", "name"} =>
       answer.inside /\ (Readable(answer.of) => answer.from = answer.of)

(* An object is filled from the first OBJECT block in front of the end     *)
(* mark, with that block's type; its data is that block's own only where   *)
(* no other block stands in front, for gff_rdff_to_object never moves data *)
(* on.  Blocks without a mark are left by the end.                         *)
ObjectOfItsBlock ==
    answer.kind = "object" =>
       LET bs == answer.blocks
           r == answer.result
           Stops(i) == bs[i].load_action \in {"OBJECT", "END"}
           First(i) == Stops(i) /\ \A j \in 1 .. i - 1 : ~Stops(j)
       IN  /\ r.status = "beyond" <=> \A i \in DOMAIN bs : ~Stops(i)
           /\ \A i \in DOMAIN bs : First(i) =>
                IF bs[i].load_action = "END" THEN r.status = "failure"
                ELSE /\ r.type = bs[i].type
                     /\ r.status = "success" <=> bs[i].type \in {"ITEM", "COMBAT"}
                     /\ i = 1 /\ bs[i].len > 0 => r.from = i

(* The total delay of a script is what passes while it is played by        *)
(* gff_scmd_next_pos until it stays on its last frame, and -1 for one that *)
(* leads back.  The two differ on a frame that is marked LAST and JUMP:    *)
(* playing stays there, and the total says that it never ends.             *)
DelayAsPlayed ==
    answer.kind = "delay" =>
       LET fs == answer.frames
           n == 2 * Len(fs)
           play == S!Played(fs, answer.pos, n)
           Ends(k) == fs[play[k].at + 1].last
       IN  IF \E k \in 0 .. n : Ends(k)
           THEN LET k == CHOOSE j \in 0 .. n : Ends(j) /\ \A i \in 0 .. j - 1 : ~Ends(i)
                    f == fs[play[k].at + 1]
                IN  answer.sum = IF f.jump \/ \E i \in 0 .. k - 1 : fs[play[i].at + 1].jump
                                 THEN -1 ELSE play[k].passed + f.delay
           ELSE answer.sum = -1

(* The sheet of a font shows every character as gff_create_font_rgba draws *)
(* it, upside down, one beside the other, and nothing is written outside.  *)
SheetShowsCharacters ==
    answer.kind = "sheet" =>
       LET font == answer.font
           sheet == answer.sheet
           Char(c) == font.chars[c]
           Left(c) == F!Widths(font)[c - 1]
       IN  /\ DOMAIN sheet.pixels = 0 .. sheet.w * sheet.h - 1
           /\ \A c \in DOMAIN font.chars :
              \A x \in 0 .. font.height - 1, y \in 0 .. Char(c).width - 1 :
                 sheet.pixels[(sheet.h - 1 - x) * sheet.w + Left(c) + y]
                   = F!CharImage(font, c - 1)[x * Char(c).width + y]
==============================================================================
