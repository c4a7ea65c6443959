----------------------------- MODULE GffHandles -----------------------------
(***************************************************************************)
(* The life of a gff_file_t: the slots of open_files, which gff_create     *)
(* chooses by name and an application also addresses itself, and the       *)
(* handles gff_allocate returns.  A handle ties together a FILE, a name,   *)
(* the cached directory, the palettes read from the file and the range of  *)
(* global palette ids it was given; each call sets some of these and       *)
(* leaves the others as an earlier life of the handle left them.           *)
(***************************************************************************)
EXTENDS Integers, FiniteSetsExt

CONSTANTS
    NumSlots,       \* NUM_FILES
    RestIndex,      \* REST_GFF_INDEX: the first slot that is not reserved
    Own,            \* handles of the application, from gff_allocate
    Path, Name,
    Raw,            \* Raw[p]: the path as gff_create compares it
    Base,           \* Base[p]: the lowercase file name gff_open stores
    Reserved,       \* the slot get_next_idx has for some names
    StartDisk,      \* the files there are at first
    None,
    MaxTypes, MaxPals, MaxIds  \* bounds: types and palettes of a file, palette ids

Slot == 0 .. NumSlots - 1
Handle == Slot \cup Own
NoSlot == -1

File == [types : Nat, pals : Nat]   \* how many types and PAL chunks it lists
Empty == [types |-> 0, pals |-> 0]

(* f->pals: the file the palettes were read from, and how many.            *)
Pals == [of : Path, len : Nat]

ASSUME NamesAssumption ==
    /\ NumSlots \in Nat /\ RestIndex \in Slot
    /\ Own \cap Int = {}
    /\ Raw \in [Path -> Name] /\ Base \in [Path -> Name]
    /\ \A n \in DOMAIN Reserved : Reserved[n] \in Slot

ASSUME BoundsAssumption == MaxTypes \in Nat /\ MaxPals \in Nat /\ MaxIds \in Nat

ASSUME DiskAssumption ==
    /\ StartDisk \in [Path -> File \cup {None}]
    /\ None \notin File \cup Path \cup Name \cup Pals

VARIABLES
    live,           \* the handles whose memory is allocated
    gff,            \* gff[h]: the fields of the handle
    disk,           \* disk[p]: the file at p, or None
    num_palettes    \* image.c: palette ids given out so far

vars == <<live, gff, disk, num_palettes>>

(* dir is what f->chunks points to: its length and the PAL chunks in it.   *)
Fields == [file : Path \cup {None}, filename : Name \cup {None},
           num_types : Nat, dir : File \cup {None}, pals : Pals \cup {None},
           start : Nat, count : Nat]

Zeroed == [file |-> None, filename |-> None, num_types |-> 0, dir |-> None,
           pals |-> None, start |-> 0, count |-> 0]

------------------------------------------------------------------------------
(* The slot that has the name, -1 for none.                                *)
FindIndex(n) ==
    LET having == {i \in Slot : gff[i].filename = n}
    IN  IF having = {} THEN NoSlot ELSE Min(having)

(* get_next_idx: a loaded name is refused, some names have their own slot, *)
(* the others take the first one without a FILE.                           *)
NextIndex(n) ==
    LET free == {i \in RestIndex .. NumSlots - 1 : gff[i].file = None}
    IN  IF FindIndex(n) # NoSlot THEN NoSlot
        ELSE IF n \in DOMAIN Reserved THEN Reserved[n]
        ELSE IF free = {} THEN NoSlot ELSE Min(free)

(* PAL chunks a handle lists: the loop over num_types entries of chunks.   *)
Listed(g) == IF g.num_types = 0 THEN 0 ELSE g.dir.pals

(* gff_palettes_read: palettes there are already are kept.                 *)
PalsRead(g) ==
    IF g.pals # None THEN g.pals
    ELSE IF g.file = None THEN None
    ELSE [of |-> g.file, len |-> Listed(g)]

(* gff_create_palettes, as gff_open calls it: what was read is counted.    *)
Counted(g, read) == [g EXCEPT !.pals = read, !.count = read.len]

------------------------------------------------------------------------------
Init ==
    /\ live = Slot
    /\ gff = [h \in Handle |-> Zeroed]
    /\ disk = StartDisk
    /\ num_palettes = 0

gff_allocate(h) ==
    /\ h \in Own \ live
    /\ live' = live \cup {h}
    /\ gff' = [gff EXCEPT ![h] = Zeroed]
    /\ UNCHANGED <<disk, num_palettes>>

gff_init(h) ==
    /\ h \in live
    /\ gff' = [gff EXCEPT ![h] = Zeroed]
    /\ UNCHANGED <<live, disk, num_palettes>>

(* A slot is static memory: an application frees only its own handles.     *)
gff_free(h) ==
    /\ h \in Own \cap live
    /\ live' = live \ {h}
    /\ gff' = [gff EXCEPT ![h] = Zeroed]
    /\ UNCHANGED <<disk, num_palettes>>

(* The handle after gff_read_headers: only the palettes stay.              *)
Reading(g, p) ==
    [file |-> p, filename |-> Base[p], num_types |-> disk[p].types,
     dir |-> disk[p], pals |-> g.pals, start |-> num_palettes, count |-> 0]

(* Mutant: palettes there are already are not counted again.               *)
open_counts_once(h, p) ==
    /\ h \in live
    /\ disk[p] # None
    /\ LET g == Reading(gff[h], p)
           read == PalsRead(g)
       IN  /\ num_palettes + read.len <= MaxIds
           /\ gff' = [gff EXCEPT ![h] = Counted(g, read)]
           /\ num_palettes' = IF g.pals # None THEN num_palettes ELSE num_palettes + read.len
    /\ UNCHANGED <<live, disk>>

(* A missing file leaves all but the status as it was.                     *)
gff_open(h, p) ==
    /\ h \in live
    /\ disk[p] # None
    /\ LET g == Reading(gff[h], p)
           read == PalsRead(g)
       IN  /\ num_palettes + read.len <= MaxIds
           /\ gff' = [gff EXCEPT ![h] = Counted(g, read)]
           /\ num_palettes' = num_palettes + read.len
    /\ UNCHANGED <<live, disk>>

(* Mutant: the name is kept.                                               *)
close_keeps_name(h) ==
    /\ h \in live
    /\ gff' = [gff EXCEPT ![h].file = None, ![h].dir = None]
    /\ UNCHANGED <<live, disk, num_palettes>>

(* Mutant: the FILE is kept.                                               *)
close_keeps_file(h) ==
    /\ h \in live
    /\ gff' = [gff EXCEPT ![h].filename = None, ![h].dir = None]
    /\ UNCHANGED <<live, disk, num_palettes>>

(* num_types, the palettes and their ids stay.                             *)
gff_close(h) ==
    /\ h \in live
    /\ gff' = [gff EXCEPT ![h].file = None, ![h].filename = None, ![h].dir = None]
    /\ UNCHANGED <<live, disk, num_palettes>>

(* The file is emptied whatever the index is; for -1 the fields are then   *)
(* written in front of the table.  The slot gets no name and keeps what    *)
(* f->chunks pointed to.                                                   *)
gff_create(p) ==
    LET i == NextIndex(Raw[p])
    IN  /\ disk' = [disk EXCEPT ![p] = Empty]
        /\ gff' = [h \in Handle |->
                     IF h = i THEN [gff[i] EXCEPT !.file = p, !.num_types = 0, !.pals = None]
                     ELSE gff[h]]
        /\ UNCHANGED <<live, num_palettes>>

(* The whole directory is written with the new type.                       *)
gff_add_type(i) ==
    LET types == gff[i].num_types + 1
        dir == [types |-> types, pals |-> Listed(gff[i])]
    IN  /\ i \in Slot /\ gff[i].file # None /\ types <= MaxTypes
        /\ gff' = [gff EXCEPT ![i].num_types = types, ![i].dir = dir]
        /\ disk' = [disk EXCEPT ![gff[i].file] = dir]
        /\ UNCHANGED <<live, num_palettes>>

(* Of a PAL chunk; chunks of other types change nothing here.              *)
gff_add_chunk(i) ==
    LET dir == [types |-> gff[i].num_types, pals |-> Listed(gff[i]) + 1]
    IN  /\ i \in Slot /\ gff[i].file # None /\ gff[i].num_types > 0
        /\ dir.pals <= MaxPals
        /\ gff' = [gff EXCEPT ![i].dir = dir]
        /\ disk' = [disk EXCEPT ![gff[i].file] = dir]
        /\ UNCHANGED <<live, num_palettes>>

gff_palettes_read(h) ==
    /\ h \in live
    /\ gff' = [gff EXCEPT ![h].pals = PalsRead(gff[h])]
    /\ UNCHANGED <<live, disk, num_palettes>>

gff_palettes_free(h) ==
    /\ h \in live
    /\ gff' = [gff EXCEPT ![h].pals = None]
    /\ UNCHANGED <<live, disk, num_palettes>>

(* Every file is opened with a handle on the stack that nobody initialised *)
(* or closes: what its pals happened to point to is counted.               *)
gff_load_directory(n) ==
    /\ num_palettes + n <= MaxIds
    /\ num_palettes' = num_palettes + n
    /\ UNCHANGED <<live, gff, disk>>

Next ==
    \/ \E h \in Handle :
          \/ gff_allocate(h) \/ gff_init(h) \/ gff_free(h) \/ gff_close(h)
          \/ gff_palettes_read(h) \/ gff_palettes_free(h)
          \/ \E p \in Path : gff_open(h, p)
    \/ \E p \in Path : gff_create(p)
    \/ \E i \in Slot : gff_add_type(i) \/ gff_add_chunk(i)
    \/ \E n \in 1 .. MaxPals : gff_load_directory(n)

Spec == Init /\ [][Next]_vars

------------------------------------------------------------------------------
(* Types.                                                                  *)
TypeOK ==
    /\ live \subseteq Handle
    /\ gff \in [Handle -> Fields]
    /\ disk \in [Path -> File \cup {None}]
    /\ num_palettes \in Nat

(* gff_get_palette_id answers [start, start + count) of a handle, open or  *)
(* closed.  No two handles ever answer the same id, whatever was opened,   *)
(* closed, reopened with old palettes or loaded from a directory between.  *)
Ids(g) == g.start .. g.start + g.count - 1
PaletteIdsDisjoint ==
    \A h, k \in Handle : h # k => Ids(gff[h]) \cap Ids(gff[k]) = {}

(* Why: every range lies below the counter.                                *)
IdsBelowCounter == \A h \in Handle : gff[h].start + gff[h].count <= num_palettes

(* gff_get_resource_length and gff_get_type_id check the FILE and then     *)
(* follow chunks[i] for each i < num_types; gff_add_type only looks at the *)
(* index.  A handle with a FILE has an entry for each type, although       *)
(* gff_close keeps num_types and gff_create keeps chunks.                  *)
TypesHaveEntries ==
    \A h \in Handle :
       gff[h].file # None /\ gff[h].num_types > 0 =>
          gff[h].dir # None /\ gff[h].num_types <= gff[h].dir.types

(* The names gff_list returns and gff_find_index finds belong to slots     *)
(* that have a FILE.                                                       *)
NamedIsOpen == \A h \in Handle : gff[h].filename # None => gff[h].file # None
==============================================================================
