------------------------------ MODULE Manager ------------------------------
(***************************************************************************)
(* The game manager of src/src/manager.c: it opens the files of a game's   *)
(* directory, whatever order they are listed in, and keeps their handles   *)
(* by region number or by name.  The table of a region's objects is read   *)
(* into the handle when it is first needed.                                *)
(***************************************************************************)
EXTENDS Integers, Sequences, FiniteSets

CONSTANTS
    Files,          \* what files contain
    Reopened,       \* the ones an application opens itself
    Names,          \* Names[n]: the region number, or core file, of a file name
    MaxRegions,     \* DS1_MAX_REGIONS
    Wild,           \* 255: the region file that is kept as wild_region
    Core,           \* the other files a manager keeps, as numbers below zero
    Segobjex,       \* one of them: where objects are
    Games,          \* directories: for some names, the file there, or None: it does not open
    None,
    MaxHandles      \* bound: handles ever allocated

(* The array is followed by wild_region, which number 50 therefore means.  *)
Region == 0 .. MaxRegions
Slot == Region \union Core

ASSUME NamesAssumption ==
    /\ MaxRegions \in Nat /\ Wild \in Nat /\ Wild > MaxRegions
    /\ Core \subseteq Int \ Nat /\ Segobjex \in Core
    /\ \A n \in DOMAIN Names : Names[n] \in Nat \union Core
    /\ \A game \in Games :
          /\ DOMAIN game \subseteq DOMAIN Names
          /\ \A n \in DOMAIN game : game[n] \in Files \union {None}

(* etab: the objects of some resource ids; gmap: the first id of a GMAP,   *)
(* and whether it can be read; rmap: "none", "fits", or "long"; objects:   *)
(* the script of some object numbers, 0 for none; scripts: those there are. *)
ASSUME FilesAssumption ==
    /\ None \notin Files /\ Reopened \subseteq Files
    /\ \A f \in Files :
          /\ DOMAIN f = {"etab", "gmap", "mapped", "rmap", "objects", "scripts"}
          /\ \A id \in DOMAIN f.etab : f.etab[id] \in Seq(Nat)

ASSUME BoundAssumption == MaxHandles \in Nat

(* What can go wrong: see the properties of Regions.                       *)
Fault == {"outside", "no list", "no region", "no table", "freed twice", "too few", "unset"}

(* None is not a number, a table, a manager or a fault.                    *)
ASSUME NoneAssumption ==
    /\ None \notin Nat /\ None \notin Seq(Nat)
    /\ None \notin [Slot -> Nat \union {None}]
    /\ None \notin Fault

VARIABLES
    man,            \* the manager: a handle, or None, for each slot; None: there is no manager
    handles,        \* the handles it ever allocated, the oldest first
    to_load,        \* what readdir has still to return of the directory
    history,        \* what was done that may end badly: see the properties
    fault           \* the first access outside what is allocated, or None

manager_vars == <<man, handles, to_load>>

(* slot is where the handle was put.  table is what entry_table points to: *)
(* the objects, and whose they are.                                        *)
New(file, id, slot) ==
    [live |-> TRUE, file |-> file, id |-> id, num_objects |-> -1, table |-> None, slot |-> slot]

Handle ==
    [live: BOOLEAN, file: Files \union {None}, id: Nat, num_objects: Nat \union {-1},
     table: Seq(Nat) \union {None}, slot: Slot]

Idle == to_load = <<>> /\ fault = None
Live == {h \in DOMAIN handles : handles[h].live}

------------------------------------------------------------------------------
ManagerInit ==
    /\ man = None /\ handles = <<>>
    /\ to_load = <<>>
    /\ history = {} /\ fault = None

gff_manager_create ==
    /\ Idle /\ man = None
    /\ man' = [s \in Slot |-> None]
    /\ UNCHANGED <<handles, to_load, history, fault>>

gff_manager_load_ds1(directory) ==
    /\ Idle /\ man # None
    /\ Len(handles) + Cardinality(DOMAIN directory) <= MaxHandles
    /\ to_load' = directory
    /\ UNCHANGED <<man, handles, history, fault>>

(* Mutant: regions are numbered from one.                                  *)
SlotFromOne(name) == IF Names[name] > 0 THEN Names[name] - 1 ELSE Names[name]

(* A handle's slot: its id is the region number, 0 for a core file.        *)
SlotOf(name) == IF Names[name] = Wild THEN MaxRegions ELSE Names[name]
IdOf(name) == IF Names[name] \in Core THEN 0 ELSE Names[name]

Others(name) == [n \in DOMAIN to_load \ {name} |-> to_load[n]]

(* Mutant: the next handle is stored.                                      *)
load_off_by_one(name) ==
    /\ fault = None /\ name \in DOMAIN to_load /\ SlotOf(name) \in Slot
    /\ handles' = Append(handles, New(to_load[name], IdOf(name), SlotOf(name)))
    /\ man' = [man EXCEPT ![SlotOf(name)] = Len(handles') + 1]
    /\ to_load' = Others(name)
    /\ UNCHANGED <<history, fault>>

(* Mutant: stored before it is known to open.                              *)
load_stored_first(name) ==
    LET slot == SlotOf(name)
        loaded == New(to_load[name], IdOf(name), slot)
    IN  /\ fault = None /\ name \in DOMAIN to_load /\ slot \in Slot
        /\ handles' = Append(handles, [loaded EXCEPT !.live = (to_load[name] # None)])
        /\ man' = [man EXCEPT ![slot] = Len(handles')]
        /\ to_load' = Others(name)
        /\ UNCHANGED <<history, fault>>

(* The handle that was in the slot is not freed.                           *)
detect_and_load_core_ds1(name) ==
    LET slot == SlotOf(name)
    IN  /\ fault = None /\ name \in DOMAIN to_load
        /\ to_load' = Others(name)
        /\ \/ /\ to_load[name] = None
              /\ UNCHANGED <<man, handles, history, fault>>
           \/ /\ to_load[name] # None /\ slot \in Slot
              /\ handles' = Append(handles, New(to_load[name], IdOf(name), slot))
              /\ man' = [man EXCEPT ![slot] = Len(handles')]
              /\ UNCHANGED <<history, fault>>
           \/ /\ to_load[name] # None /\ slot \notin Slot
              /\ fault' = "outside"
              /\ UNCHANGED <<man, handles, history>>

FreedHandle(h) == [h EXCEPT !.live = FALSE, !.file = None, !.table = None, !.num_objects = 0]

(* Mutant: the wild region is not freed.                                   *)
free_no_wild ==
    /\ Idle /\ man # None
    /\ handles' = [h \in DOMAIN handles |->
                     IF \E s \in Slot \ {MaxRegions} : man[s] = h
                     THEN FreedHandle(handles[h]) ELSE handles[h]]
    /\ man' = None
    /\ history' = history \union {"freed"}
    /\ UNCHANGED <<to_load, fault>>

gff_manager_free ==
    /\ Idle /\ man # None
    /\ handles' = [h \in DOMAIN handles |->
                     IF \E s \in Slot : man[s] = h THEN FreedHandle(handles[h]) ELSE handles[h]]
    /\ man' = None
    /\ history' = history \union {"freed"}
    /\ UNCHANGED <<to_load, fault>>

------------------------------------------------------------------------------
(* An application closes a handle it finds in the manager, or opens another *)
(* file with it; the count of objects outlives only the first.             *)

gff_close(h) ==
    /\ Idle /\ h \in Live
    /\ handles' = [handles EXCEPT ![h].file = None, ![h].table = None]
    /\ history' = history \union {"closed"}
    /\ UNCHANGED <<man, to_load, fault>>

(* Mutant: neither count nor table is reset.                               *)
open_keeps_table(h, file) ==
    /\ Idle /\ h \in Live
    /\ handles' = [handles EXCEPT ![h].file = file]
    /\ UNCHANGED <<man, to_load, history, fault>>

(* Mutant: num_objects is not reset.                                       *)
open_keeps_count(h, file) ==
    /\ Idle /\ h \in Live
    /\ handles' = [handles EXCEPT ![h].file = file, ![h].table = None]
    /\ UNCHANGED <<man, to_load, history, fault>>

gff_open(h, file) ==
    /\ Idle /\ h \in Live
    /\ handles' = [handles EXCEPT ![h].file = file, ![h].num_objects = -1, ![h].table = None]
    /\ UNCHANGED <<man, to_load, history, fault>>

(* gff_region_get_num_objects: the handle afterwards; it fails if there is *)
(* still no table.                                                         *)
WithTable(f) ==
    IF f.table # None \/ f.file = None \/ f.id \notin DOMAIN f.file.etab THEN f
    ELSE [f EXCEPT !.table = f.file.etab[f.id], !.num_objects = Len(f.file.etab[f.id])]

gff_region_get_num_objects(h) ==
    /\ Idle /\ h \in Live
    /\ handles' = [handles EXCEPT ![h] = WithTable(@)]
    /\ UNCHANGED <<man, to_load, history, fault>>

ManagerNext ==
    \/ gff_manager_create \/ gff_manager_free
    \/ \E directory \in Games : gff_manager_load_ds1(directory)
    \/ \E name \in DOMAIN to_load : detect_and_load_core_ds1(name)
    \/ \E h \in DOMAIN handles :
          \/ gff_close(h) \/ gff_region_get_num_objects(h)
          \/ \E file \in Reopened : gff_open(h, file)

------------------------------------------------------------------------------
ManagerTypeOK ==
    /\ handles \in Seq(Handle)
    /\ man = None \/ man \in [Slot -> DOMAIN handles \union {None}]
    /\ DOMAIN to_load \subseteq DOMAIN Names
    /\ \A n \in DOMAIN to_load : to_load[n] \in Files \union {None}
    /\ fault \in Fault \union {None}

(* What the manager keeps can be used and is freed once: a slot never has  *)
(* a handle that was freed, nor two slots the same, whatever was loaded    *)
(* over it, refused to open, or was loaded into a new manager.  And a      *)
(* handle that nobody can free any more was replaced by a younger one of   *)
(* its slot: the second file with the number, or a second load.            *)
SlotsOwnHandles ==
    /\ man # None =>
          \A s \in Slot : man[s] # None =>
              /\ man[s] \in Live
              /\ \A t \in Slot : man[t] = man[s] => t = s
    /\ \A h \in Live :
          \/ man # None /\ man[handles[h].slot] = h
          \/ \E k \in DOMAIN handles : k > h /\ handles[k].slot = handles[h].slot
=============================================================================
