------------------------------ MODULE Regions ------------------------------
(***************************************************************************)
(* A region of src/src/region.c, read from a handle of the manager into    *)
(* memory from gff_region_load or of the application, and its objects,     *)
(* which src/src/manager.c makes from the table of the handle that the     *)
(* region's number leads to.                                               *)
(***************************************************************************)
EXTENDS Manager

VARIABLE region     \* the region an application has, or None

vars == <<manager_vars, history, fault, region>>

(* A pointer is Null, Held, Dangling, or Unset: whatever malloc returned.  *)
Pointers == {"etab", "tile_ids", "objs"}
Pointer == {"null", "held", "dangling", "unset"}

(* table: what etab points to; objects: what objs points to, each with the *)
(* pointer scmd and the region_id it was made for, and the file its number *)
(* was taken from; of: the file the region was read from.                  *)
RegionObject ==
    [number: Nat, region_id: Nat, of: Files \union {None}, scmd: {"null", "held", "unset"}]

RegionFields ==
    [etab: Pointer, tile_ids: Pointer, objs: Pointer, table: Seq(Nat), objects: Seq(RegionObject),
     id: Nat, of: Files \union {None}, heap: BOOLEAN]

Memory(pointer) ==
    [etab |-> pointer, tile_ids |-> pointer, objs |-> pointer,
     table |-> <<>>, objects |-> <<>>, id |-> 0, of |-> None, heap |-> FALSE]

------------------------------------------------------------------------------
(* gff_region_cleanup. *)

Unsets(r) ==
    \/ \E p \in Pointers : r[p] = "unset"
    \/ r.objs = "held" /\ \E k \in DOMAIN r.objects : r.objects[k].scmd = "unset"

(* What was never set may be followed, or happen to be zero.  As many      *)
(* objects are freed as the table has, not as there are.                   *)
CleanupFaults(r) ==
    IF \E p \in Pointers : r[p] = "dangling" THEN {"freed twice"}
    ELSE IF r.objs = "held" /\ Len(r.objects) < Len(r.table) THEN {"too few"}
    ELSE IF Unsets(r) THEN {None, "unset"} ELSE {None}

AfterFree(pointer) == IF pointer = "held" THEN "dangling" ELSE "null"

(* Mutant: etab is not set to NULL.                                        *)
Cleaned_dangling(r) ==
    [r EXCEPT !.etab = AfterFree(@), !.tile_ids = "null", !.objs = "null", !.objects = <<>>]

Cleaned(r) ==
    [r EXCEPT !.etab = "null", !.tile_ids = "null", !.objs = "null", !.objects = <<>>]

------------------------------------------------------------------------------
(* gff_region_read. *)

(* The first id of the list of GMAP chunks; of an empty list, anything.    *)
FirstMap(file) == IF file.gmap # None THEN {file.gmap} ELSE DOMAIN file.etab \union {None}

(* load_region_etab, load_region_flags and load_tiles, each only if the    *)
(* one before it has succeeded.                                            *)
EtabRead(file, map) == map \in DOMAIN file.etab /\ file.etab[map] # <<>>
FlagsRead(file, map) == EtabRead(file, map) /\ file.gmap # None /\ file.mapped
TilesRead(file, map) == FlagsRead(file, map) /\ file.rmap # "none"

Read(r, f, map) ==
    LET etab == IF map \in DOMAIN f.file.etab
                THEN [r EXCEPT !.etab = "held", !.table = f.file.etab[map], !.of = f.file] ELSE r
        flags == IF FlagsRead(f.file, map) THEN [etab EXCEPT !.id = f.id] ELSE etab
    IN  IF TilesRead(f.file, map) THEN [flags EXCEPT !.tile_ids = "held"] ELSE flags

(* A read that fails cleans up, and gff_region_load then frees.            *)
ReadInto(r, f, freed) ==
    \/ /\ f.file = None
       /\ fault' = "no list" /\ region' = r
    \/ /\ f.file # None
       /\ \E map \in FirstMap(f.file) :
            LET read == Read(r, f, map) IN
            \/ /\ TilesRead(f.file, map) /\ f.file.rmap = "fits"
               /\ region' = read /\ UNCHANGED fault
            \/ /\ TilesRead(f.file, map) /\ f.file.rmap = "long"
               /\ fault' = "outside" /\ region' = read
            \/ /\ ~TilesRead(f.file, map)
               /\ fault' \in CleanupFaults(read) \union
                     (IF freed THEN CleanupFaults(Cleaned(read)) ELSE {})
               /\ region' = IF freed THEN None ELSE Cleaned(read)

(* Into memory the application has cleared, or read before.                *)
Own == IF region = None THEN Memory("null") ELSE region

gff_region_read(h) ==
    /\ Idle /\ h \in Live
    /\ region # None => ~region.heap
    /\ ReadInto(Own, handles[h], FALSE)
    /\ history' = history \union (IF Own.objs = "held" THEN {"reread"} ELSE {})
                           \union (IF handles[h].slot \in Core THEN {"core"} ELSE {})
                           \union (IF region'.tile_ids # "held" THEN {"failed"} ELSE {})
    /\ UNCHANGED manager_vars

gff_region_load(h) ==
    /\ Idle /\ h \in Live /\ region = None
    /\ ReadInto([Memory("unset") EXCEPT !.heap = TRUE], handles[h], TRUE)
    /\ history' = history \union {"unfilled"}
                           \union (IF handles[h].slot \in Core THEN {"core"} ELSE {})
    /\ UNCHANGED manager_vars

------------------------------------------------------------------------------
(* gff_manager_load_region_objects. *)

Objex == IF man[Segobjex] = None THEN None ELSE handles[man[Segobjex]].file

(* gff_ojff_read and gff_scmd_read: an object without a script has no scmd. *)
Readable(number) ==
    /\ Objex # None /\ number \in DOMAIN Objex.objects
    /\ Objex.objects[number] \in {0} \union Objex.scripts

(* Mutant: scmd is not set for an object without one.                      *)
Script_left(number) == IF Objex.objects[number] = 0 THEN "unset" ELSE "held"

Script(number) == IF Objex.objects[number] = 0 THEN "null" ELSE "held"

(* gff_manager_create_ds1_region_object for each object in turn: the ones  *)
(* before the first that fails are complete, that one is only cleared, and *)
(* not even that if the handle's table has no such object.                 *)
Object(f, k) ==
    [number |-> f.table[k], region_id |-> region.id, of |-> f.file, scmd |-> Script(f.table[k])]

Made(f, count) ==
    LET good(k) == k <= f.num_objects /\ Readable(f.table[k])
        bad == {k \in 1 .. count : ~good(k)}
    IN [k \in 1 .. count |->
          IF \A j \in bad : k < j THEN Object(f, k)
          ELSE [number |-> 0, region_id |-> 0, of |-> None,
                scmd |-> IF k <= f.num_objects /\ \A j \in bad : k <= j THEN "null" ELSE "unset"]]

Complete(objects) == \A k \in DOMAIN objects : objects[k].of # None

(* The handle in the slot of the region's number is asked for its table as *)
(* long as its count of objects is not positive.                           *)
gff_manager_load_region_objects ==
    LET slot == region.id
        count == Len(region.table)
        f == IF handles[man[slot]].num_objects <= 0 THEN WithTable(handles[man[slot]])
             ELSE handles[man[slot]]
        objects == Made(f, count)
    IN  /\ Idle /\ man # None /\ region # None
        /\ \/ /\ count > 0
              /\ \/ slot \notin Region /\ fault' = "outside"
                 \/ slot \in Region /\ man[slot] = None /\ fault' = "no region"
                 \/ /\ slot \in Region /\ man[slot] # None
                    /\ f.num_objects > 0 /\ f.table = None
                    /\ fault' = "no table"
              /\ UNCHANGED <<region, handles, history>>
           \/ /\ count = 0
              /\ region' = [region EXCEPT !.objs = "held", !.objects = <<>>]
              /\ history' = history \ {"unfilled", "incomplete"}
              /\ UNCHANGED <<handles, fault>>
           \/ /\ count > 0 /\ slot \in Region /\ man[slot] # None
              /\ f.num_objects > 0 => f.table # None
              /\ handles' = [handles EXCEPT ![man[slot]] = f]
              /\ region' = [region EXCEPT !.objs = "held", !.objects = objects]
              /\ history' = IF Complete(objects) THEN history \ {"unfilled", "incomplete"}
                            ELSE history \union {"incomplete"}
              /\ UNCHANGED fault
        /\ UNCHANGED <<man, to_load>>

gff_region_cleanup ==
    /\ Idle /\ region # None
    /\ fault' \in CleanupFaults(region)
    /\ region' = Cleaned(region)
    /\ UNCHANGED <<manager_vars, history>>

gff_region_free ==
    /\ Idle /\ region # None /\ region.heap
    /\ fault' \in CleanupFaults(region)
    /\ region' = None
    /\ UNCHANGED <<manager_vars, history>>

------------------------------------------------------------------------------
Init == ManagerInit /\ region = None

Next ==
    \/ ManagerNext /\ UNCHANGED region
    \/ \E h \in DOMAIN handles : gff_region_read(h) \/ gff_region_load(h)
    \/ region # None /\ gff_manager_load_region_objects
    \/ gff_region_cleanup \/ gff_region_free

Spec == Init /\ [][Next]_vars

------------------------------------------------------------------------------
TypeOK ==
    /\ ManagerTypeOK
    /\ region = None \/ region \in RegionFields

(* A region that fails to be read is cleaned up where it fails, and once   *)
(* more by gff_region_load; an application may clean up before it frees.   *)
(* No memory is freed a second time, and no memory is left half written.   *)
FreedOnce == TypeOK /\ fault # "freed twice"

(* A pointer nobody has set is followed only in a region from              *)
(* gff_region_load that has not been given all its objects, or after an    *)
(* object could not be made; and objects that are not there are freed only *)
(* after a region with objects was read again.  Cleared memory whose       *)
(* objects are all there can be filled, cleaned up and read in any order.  *)
UnsetOnlyIfIncomplete ==
    /\ fault = "unset" => history \intersect {"unfilled", "incomplete"} # {}
    /\ fault = "too few" => "reread" \in history

(* The table and the count of a handle agree as long as no application     *)
(* closes a handle of the manager: opening another file with it, loading   *)
(* the directory again or asking a file without a table does not part them. *)
(* The number of a region leads back to a handle of the manager, unless    *)
(* that manager is gone, the region came from a file that is none, or it   *)
(* could not be read, and what is left of it is used all the same.         *)
MissingOnlyIfTaken ==
    /\ fault \in {"no table", "no list"} => "closed" \in history
    /\ fault = "no region" => history \intersect {"freed", "core", "failed"} # {}

(* What goes wrong with a region has one of these causes.                  *)
FaultsHaveACause == UnsetOnlyIfIncomplete /\ MissingOnlyIfTaken

(* The objects that were made for the region's number, from the file it    *)
(* was read from, are the ones of the region's own table, in its order, if *)
(* that number is the file's map: also when the handle of that number has  *)
(* had other files since, or the region.  In wild_region's place there is  *)
(* a handle of another number.                                             *)
ObjectsOfTheTable ==
    region # None /\ region.of # None /\ region.of.gmap = region.id /\ region.id # MaxRegions =>
        \A k \in DOMAIN region.objects :
            LET object == region.objects[k] IN
            object.of = region.of /\ object.region_id = region.id /\ k <= Len(region.table) =>
                object.number = region.table[k]
=============================================================================
