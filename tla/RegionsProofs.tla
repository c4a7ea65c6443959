---------------------------- MODULE RegionsProofs ----------------------------
(***************************************************************************)
(* What Regions checks on six small directories holds for every content    *)
(* of the files, every directory and any number of handles.  The invariant *)
(* follows two chains: from the number of a region over the slot to the    *)
(* handle and its table, and from the pointers of a region to what has set *)
(* them.                                                                   *)
(***************************************************************************)
EXTENDS Regions, TLAPS

(* A handle in a slot was put there, and nobody has freed it.              *)
SlotsInv ==
    man # None =>
        \A s \in Slot : man[s] # None =>
            /\ man[s] \in DOMAIN handles
            /\ handles[man[s]].live /\ handles[man[s]].slot = s

(* Its number is the slot's, but for the wild region's.                    *)
NumbersInv ==
    \A h \in DOMAIN handles :
        handles[h].slot \notin Core =>
            \/ handles[h].id = handles[h].slot
            \/ handles[h].id = Wild /\ handles[h].slot = MaxRegions

(* A slot that was ever filled stays so until the manager is freed.        *)
KeptInv ==
    "freed" \notin history =>
        \A h \in DOMAIN handles : man # None /\ man[handles[h].slot] # None

(* A handle that is still live but in no slot has a younger one there.     *)
ReplacedInv ==
    \A h \in DOMAIN handles : handles[h].live =>
        \/ man # None /\ man[handles[h].slot] = h
        \/ \E k \in DOMAIN handles : k > h /\ handles[k].slot = handles[h].slot

(* The table of a handle is the one of its number in its file, and as long *)
(* as the count; the count may be left without a table by a close, and by  *)
(* nothing else.                                                           *)
TablesInv ==
    \A h \in DOMAIN handles :
        LET f == handles[h] IN
        /\ f.table # None /\ f.file # None =>
              f.id \in DOMAIN f.file.etab /\ f.table = f.file.etab[f.id]
        /\ f.table # None => f.num_objects = Len(f.table)
        /\ "closed" \notin history =>
              /\ f.num_objects > 0 => f.table # None
              /\ f.live => f.file # None

(* There is a manager as long as a directory is read.                      *)
LoadingInv == DOMAIN to_load # {} => man # None

HandlesInv == LoadingInv /\ SlotsInv /\ NumbersInv /\ KeptInv /\ ReplacedInv /\ TablesInv

(* What a region always says of itself: no pointer dangles, its table is   *)
(* the one of its file's first map, and an object that was made is the one *)
(* of its place in the table of its number.                                *)
NoDangling(r) == \A p \in Pointers : r[p] # "dangling"

TableOfTheFile(r) ==
    r.of # None /\ r.of.gmap # None =>
        r.of.gmap \in DOMAIN r.of.etab /\ r.table = r.of.etab[r.of.gmap]

FromItsTable(object, k) ==
    object.of # None /\ object.region_id # MaxRegions =>
        /\ object.region_id \in DOMAIN object.of.etab
        /\ object.number = object.of.etab[object.region_id][k]

ObjectsFromTables(r) == \A k \in DOMAIN r.objects : FromItsTable(r.objects[k], k)

SoundRegion(r) ==
    r \in RegionFields /\ NoDangling(r) /\ TableOfTheFile(r) /\ ObjectsFromTables(r)

(* What it owes to what was done: the two pointers that reading sets are   *)
(* set; the scripts of its objects are, or it has not been given all of    *)
(* them; and it has as many objects as its table, or was read over.        *)
FilledInv ==
    region # None =>
        /\ fault = None => region.etab # "unset" /\ region.tile_ids # "unset"
        /\ fault = None /\ Unsets(region) => history \intersect {"unfilled", "incomplete"} # {}
        /\ region.objs = "held" /\ Len(region.objects) < Len(region.table) => "reread" \in history

(* The number of a region is a handle's.                                   *)
NumberOfAHandle ==
    region # None /\ fault = None /\ history \intersect {"core", "failed"} = {} =>
        \E h \in DOMAIN handles : handles[h].slot \notin Core /\ handles[h].id = region.id

RegionInv == (region # None => SoundRegion(region)) /\ FilledInv /\ NumberOfAHandle

FaultInv == FaultsHaveACause /\ fault # "freed twice"

Inv == ManagerTypeOK /\ HandlesInv /\ RegionInv /\ FaultInv

USE NamesAssumption, FilesAssumption, NoneAssumption

------------------------------------------------------------------------------
(* The numbers of slots, and what a file's tables are.                     *)
LEMMA SlotsAreNumbers ==
    /\ Region \subseteq Nat /\ Core \cap Region = {} /\ Slot = Region \union Core
    /\ MaxRegions \in Region /\ Wild \notin Region
    /\ Slot \subseteq Int /\ None \notin Region
BY DEF Region, Slot

LEMMA TablesOfFiles ==
    ASSUME NEW file \in Files, NEW id \in DOMAIN file.etab
    PROVE  file.etab[id] \in Seq(Nat) /\ file # None /\ file.etab[id] # None
OBVIOUS

(* A name leads to a slot, and its number is the slot's or the wild one.   *)
LEMMA NumbersOfNames ==
    ASSUME NEW name \in DOMAIN Names
    PROVE  /\ IdOf(name) \in Nat
           /\ SlotOf(name) \notin Core =>
                 \/ IdOf(name) = SlotOf(name)
                 \/ IdOf(name) = Wild /\ SlotOf(name) = MaxRegions
BY DEF IdOf, SlotOf

(* What asking for the table does to a handle.                             *)
LEMMA Asked ==
    ASSUME NEW f \in Handle
    PROVE  /\ WithTable(f) \in Handle
           /\ WithTable(f).live = f.live /\ WithTable(f).file = f.file
           /\ WithTable(f).id = f.id /\ WithTable(f).slot = f.slot
           /\ \/ WithTable(f) = f
              \/ /\ f.file # None /\ f.id \in DOMAIN f.file.etab
                 /\ WithTable(f).table = f.file.etab[f.id] /\ WithTable(f).table # None
                 /\ WithTable(f).num_objects = Len(WithTable(f).table)
<1>1. CASE f.table # None \/ f.file = None \/ f.id \notin DOMAIN f.file.etab
  BY <1>1 DEF WithTable
<1>2. CASE f.table = None /\ f.file # None /\ f.id \in DOMAIN f.file.etab
  <2>1. f.file.etab[f.id] \in Seq(Nat) /\ f.file.etab[f.id] # None
    BY <1>2, TablesOfFiles DEF Handle
  <2> DEFINE table == f.file.etab[f.id]
             g == [f EXCEPT !.table = table, !.num_objects = Len(table)]
  <2>2. WithTable(f) = g
    BY <1>2 DEF WithTable
  <2>3. table \in Seq(Nat) /\ Len(table) \in Nat
    BY <2>1
  <2> HIDE DEF table
  <2>4. /\ g \in Handle /\ g.table = table /\ g.num_objects = Len(table)
        /\ g.live = f.live /\ g.file = f.file /\ g.id = f.id /\ g.slot = f.slot
    BY <2>3 DEF Handle
  <2> QED BY <1>2, <2>1, <2>2, <2>4 DEF table
<1> QED BY <1>1, <1>2

(* A handle in the sequence is a handle.                                   *)
LEMMA HandleAt ==
    ASSUME ManagerTypeOK, NEW h \in DOMAIN handles
    PROVE  handles[h] \in Handle /\ h \in Nat
BY DEF ManagerTypeOK

------------------------------------------------------------------------------
(* An action that puts g in the place of handle h, live before and after,  *)
(* with its number and slot, keeps the invariants if its table is right.   *)
LEMMA OneHandleChanged ==
    ASSUME ManagerTypeOK, HandlesInv,
           NEW h \in DOMAIN handles, NEW g \in Handle,
           g.live = handles[h].live, g.id = handles[h].id, g.slot = handles[h].slot,
           handles' = [handles EXCEPT ![h] = g],
           man' = man, to_load' = to_load, fault' \in Fault \union {None},
           "freed" \in history => "freed" \in history',
           "closed" \in history => "closed" \in history',
           g.table # None /\ g.file # None =>
              g.id \in DOMAIN g.file.etab /\ g.table = g.file.etab[g.id],
           g.table # None => g.num_objects = Len(g.table),
           "closed" \notin history' =>
              (g.num_objects > 0 => g.table # None) /\ (g.live => g.file # None)
    PROVE  ManagerTypeOK' /\ HandlesInv'
<1>1. handles' \in Seq(Handle) /\ DOMAIN handles' = DOMAIN handles
  BY DEF ManagerTypeOK
<1>2. \A k \in DOMAIN handles : handles'[k] = IF k = h THEN g ELSE handles[k]
  OBVIOUS
<1>3. \A k \in DOMAIN handles :
         /\ handles'[k].live = handles[k].live
         /\ handles'[k].id = handles[k].id /\ handles'[k].slot = handles[k].slot
  BY <1>2
<1>4. ManagerTypeOK'
  BY <1>1 DEF ManagerTypeOK
<1>5. LoadingInv' /\ SlotsInv' /\ NumbersInv' /\ KeptInv' /\ ReplacedInv'
  BY <1>1, <1>3 DEF HandlesInv, LoadingInv, SlotsInv, NumbersInv, KeptInv, ReplacedInv
<1>6. TablesInv'
  BY <1>1, <1>2 DEF HandlesInv, TablesInv
<1> QED BY <1>4, <1>5, <1>6 DEF HandlesInv

LEMMA CreateKeeps ==
    ASSUME ManagerTypeOK, HandlesInv, gff_manager_create
    PROVE  ManagerTypeOK' /\ HandlesInv'
<1>1. /\ man' = [s \in Slot |-> None] /\ man = None
      /\ UNCHANGED <<handles, to_load, history, fault>>
  BY DEF gff_manager_create
<1>2. man' \in [Slot -> DOMAIN handles \union {None}] /\ \A s \in Slot : man'[s] = None
  BY <1>1
<1>3. "freed" \notin history => DOMAIN handles = {}
  BY <1>1 DEF HandlesInv, KeptInv
<1>4. ManagerTypeOK'
  BY <1>1, <1>2 DEF ManagerTypeOK
<1>5. HandlesInv'
  BY <1>1, <1>2, <1>3
     DEF HandlesInv, LoadingInv, SlotsInv, NumbersInv, KeptInv, ReplacedInv, TablesInv, ManagerTypeOK, Handle
<1> QED BY <1>4, <1>5

LEMMA LoadKeeps ==
    ASSUME ManagerTypeOK, HandlesInv, NEW directory \in Games, gff_manager_load_ds1(directory)
    PROVE  ManagerTypeOK' /\ HandlesInv'
<1>1. to_load' = directory /\ man # None /\ UNCHANGED <<man, handles, history, fault>>
  BY DEF gff_manager_load_ds1
<1>2. ManagerTypeOK'
  BY <1>1 DEF ManagerTypeOK
<1>3. HandlesInv'
  BY <1>1 DEF HandlesInv, LoadingInv, SlotsInv, NumbersInv, KeptInv, ReplacedInv, TablesInv
<1> QED BY <1>2, <1>3

(* A new handle is the youngest, and the one it replaces is in no slot.    *)
LEMMA DetectKeeps ==
    ASSUME ManagerTypeOK, HandlesInv, NEW name \in DOMAIN to_load,
           detect_and_load_core_ds1(name)
    PROVE  ManagerTypeOK' /\ HandlesInv'
<1> DEFINE slot == SlotOf(name)
           loaded == New(to_load[name], IdOf(name), slot)
           n == Len(handles) + 1
<1>1. /\ name \in DOMAIN Names /\ to_load[name] \in Files \union {None}
      /\ man # None
  BY DEF ManagerTypeOK, HandlesInv, LoadingInv
<1>2. /\ DOMAIN to_load' \subseteq DOMAIN Names
      /\ \A m \in DOMAIN to_load' : to_load'[m] \in Files \union {None}
  BY DEF detect_and_load_core_ds1, Others, ManagerTypeOK
<1>3. CASE UNCHANGED <<man, handles, history>>
  <2>1. fault' \in Fault \union {None}
    BY <1>3 DEF detect_and_load_core_ds1, ManagerTypeOK, Fault
  <2>2. ManagerTypeOK'
    BY <1>2, <1>3, <2>1 DEF ManagerTypeOK
  <2>3. HandlesInv'
    BY <1>3 DEF HandlesInv, LoadingInv, SlotsInv, NumbersInv, KeptInv, ReplacedInv, TablesInv
  <2> QED BY <2>2, <2>3
<1>4. CASE /\ to_load[name] # None /\ slot \in Slot
           /\ handles' = Append(handles, loaded)
           /\ man' = [man EXCEPT ![slot] = Len(handles')]
           /\ UNCHANGED <<history, fault>>
  <2>1. loaded \in Handle
    BY <1>1, <1>4, NumbersOfNames DEF New, Handle
  <2>2. /\ loaded.live /\ loaded.file # None /\ loaded.table = None /\ ~(loaded.num_objects > 0)
        /\ loaded.slot = slot /\ loaded.id = IdOf(name)
    BY <1>4 DEF New
  <2> HIDE DEF loaded, slot
  <2>3. /\ handles \in Seq(Handle) /\ handles' \in Seq(Handle)
        /\ DOMAIN handles = 1 .. Len(handles) /\ Len(handles) \in Nat
        /\ DOMAIN handles' = DOMAIN handles \union {n} /\ n \notin DOMAIN handles /\ n \in Nat
        /\ handles'[n] = loaded
        /\ \A h \in DOMAIN handles : handles'[h] = handles[h] /\ h < n /\ h \in Nat
    BY <1>4, <2>1 DEF ManagerTypeOK
  <2>4. /\ Len(handles') = n
        /\ man \in [Slot -> DOMAIN handles \union {None}]
        /\ man' \in [Slot -> DOMAIN handles' \union {None}]
        /\ man'[slot] = n /\ \A s \in Slot \ {slot} : man'[s] = man[s]
    BY <1>1, <1>4, <2>3 DEF ManagerTypeOK
  <2>5. ManagerTypeOK'
    BY <1>2, <1>4, <2>3, <2>4 DEF ManagerTypeOK
  <2>6. n # None /\ man' # None
    BY <2>3, <2>4
  <2>7. LoadingInv' /\ SlotsInv'
    BY <1>4, <2>2, <2>3, <2>4, <2>6 DEF HandlesInv, LoadingInv, SlotsInv
  <2>8. NumbersInv'
    BY <1>1, <2>2, <2>3, NumbersOfNames DEF HandlesInv, NumbersInv, slot
  <2>9. \A h \in DOMAIN handles : handles[h].slot \in Slot
    BY HandleAt DEF Handle
  <2>10. KeptInv'
    BY <1>4, <2>2, <2>3, <2>4, <2>6, <2>9 DEF HandlesInv, KeptInv
  <2>11. ReplacedInv'
    BY <1>4, <2>2, <2>3, <2>4, <2>6, <2>9 DEF HandlesInv, ReplacedInv
  <2>12. TablesInv'
    BY <1>4, <2>2, <2>3 DEF HandlesInv, TablesInv
  <2> QED BY <2>5, <2>7, <2>8, <2>10, <2>11, <2>12 DEF HandlesInv
<1> QED BY <1>3, <1>4 DEF detect_and_load_core_ds1

LEMMA FreeKeeps ==
    ASSUME ManagerTypeOK, HandlesInv, gff_manager_free
    PROVE  ManagerTypeOK' /\ HandlesInv'
<1> DEFINE kept(h) == \E s \in Slot : man[s] = h
<1>1. /\ handles' = [h \in DOMAIN handles |-> IF kept(h) THEN FreedHandle(handles[h]) ELSE handles[h]]
      /\ man' = None /\ man # None /\ history' = history \union {"freed"}
      /\ to_load = <<>> /\ UNCHANGED <<to_load, fault>>
  BY DEF gff_manager_free, Idle
<1>2. \A h \in DOMAIN handles : handles[h] \in Handle
  BY DEF ManagerTypeOK
<1>3. \A f \in Handle :
         /\ FreedHandle(f) \in Handle
         /\ FreedHandle(f).id = f.id /\ FreedHandle(f).slot = f.slot
         /\ ~FreedHandle(f).live /\ FreedHandle(f).table = None
         /\ ~(FreedHandle(f).num_objects > 0)
  <2> SUFFICES ASSUME NEW f \in Handle
               PROVE  /\ FreedHandle(f) \in Handle
                      /\ FreedHandle(f).id = f.id /\ FreedHandle(f).slot = f.slot
                      /\ ~FreedHandle(f).live /\ FreedHandle(f).table = None
                      /\ ~(FreedHandle(f).num_objects > 0)
    OBVIOUS
  <2>1. /\ FreedHandle(f) \in Handle
        /\ FreedHandle(f).id = f.id /\ FreedHandle(f).slot = f.slot
        /\ FreedHandle(f).live = FALSE /\ FreedHandle(f).table = None
        /\ FreedHandle(f).num_objects = 0
    BY DEF FreedHandle, Handle
  <2> QED BY <2>1
<1>4. /\ handles' \in Seq(Handle) /\ DOMAIN handles' = DOMAIN handles
      /\ \A h \in DOMAIN handles :
            handles'[h] = IF kept(h) THEN FreedHandle(handles[h]) ELSE handles[h]
  BY <1>1, <1>2, <1>3 DEF ManagerTypeOK
<1>5. ManagerTypeOK'
  BY <1>1, <1>4 DEF ManagerTypeOK
<1>6. \A h \in DOMAIN handles :
         /\ handles'[h].id = handles[h].id /\ handles'[h].slot = handles[h].slot
         /\ handles[h].slot \in Slot
         /\ handles'[h].live => handles[h].live /\ ~kept(h)
  <2> SUFFICES ASSUME NEW h \in DOMAIN handles
               PROVE  /\ handles'[h].id = handles[h].id /\ handles'[h].slot = handles[h].slot
                      /\ handles[h].slot \in Slot
                      /\ handles'[h].live => handles[h].live /\ ~kept(h)
    OBVIOUS
  <2>1. handles[h].slot \in Slot
    BY <1>2 DEF Handle
  <2> QED BY <1>2, <1>3, <1>4, <2>1
<1>7. LoadingInv' /\ SlotsInv' /\ NumbersInv' /\ KeptInv'
  BY <1>1, <1>4, <1>6 DEF HandlesInv, LoadingInv, SlotsInv, NumbersInv, KeptInv
<1>8. ReplacedInv'
  BY <1>1, <1>4, <1>6 DEF HandlesInv, ReplacedInv
<1>9. TablesInv'
  BY <1>1, <1>2, <1>3, <1>4 DEF HandlesInv, TablesInv
<1> QED BY <1>5, <1>7, <1>8, <1>9 DEF HandlesInv

LEMMA CloseKeeps ==
    ASSUME ManagerTypeOK, HandlesInv, NEW h \in DOMAIN handles, gff_close(h)
    PROVE  ManagerTypeOK' /\ HandlesInv'
<1> DEFINE g == [handles[h] EXCEPT !.file = None, !.table = None]
<1>1. handles[h] \in Handle
  BY HandleAt
<1>2. /\ g \in Handle /\ g.table = None
      /\ g.live = handles[h].live /\ g.id = handles[h].id /\ g.slot = handles[h].slot
  BY <1>1 DEF Handle
<1>3. handles' = [handles EXCEPT ![h] = g]
  BY DEF gff_close
<1> HIDE DEF g
<1>4. /\ man' = man /\ to_load' = to_load /\ fault' \in Fault \union {None}
      /\ "freed" \in history => "freed" \in history'
      /\ "closed" \in history'
  BY DEF gff_close, ManagerTypeOK
<1> QED BY <1>1, <1>2, <1>3, <1>4, OneHandleChanged

LEMMA OpenKeeps ==
    ASSUME ManagerTypeOK, HandlesInv, NEW h \in DOMAIN handles, NEW file \in Reopened,
           gff_open(h, file)
    PROVE  ManagerTypeOK' /\ HandlesInv'
<1> DEFINE g == [handles[h] EXCEPT !.file = file, !.num_objects = -1, !.table = None]
<1>1. handles[h] \in Handle
  BY HandleAt
<1>2. /\ g \in Handle /\ g.table = None /\ g.num_objects = -1 /\ g.file = file
      /\ g.live = handles[h].live /\ g.id = handles[h].id /\ g.slot = handles[h].slot
  BY <1>1 DEF Handle
<1>3. handles' = [handles EXCEPT ![h] = g]
  BY DEF gff_open
<1> HIDE DEF g
<1>4. /\ man' = man /\ to_load' = to_load /\ fault' \in Fault \union {None}
      /\ history' = history
  BY DEF gff_open, ManagerTypeOK
<1>5. file # None /\ ~(-1 > 0)
  OBVIOUS
<1> QED BY <1>1, <1>2, <1>3, <1>4, <1>5, OneHandleChanged

(* Asking a handle for its table, which loading a region's objects does    *)
(* too: whatever else history gains.                                       *)
LEMMA AskKeeps ==
    ASSUME ManagerTypeOK, HandlesInv, NEW h \in DOMAIN handles, NEW g,
           g = WithTable(handles[h]), handles' = [handles EXCEPT ![h] = g],
           man' = man, to_load' = to_load, fault' = fault,
           "freed" \in history => "freed" \in history',
           "closed" \in history => "closed" \in history'
    PROVE  ManagerTypeOK' /\ HandlesInv'
<1>1. handles[h] \in Handle
  BY HandleAt
<1>2. /\ g \in Handle
      /\ g.live = handles[h].live /\ g.file = handles[h].file
      /\ g.id = handles[h].id /\ g.slot = handles[h].slot
      /\ \/ g = handles[h]
         \/ /\ g.file # None /\ g.id \in DOMAIN g.file.etab
            /\ g.table = g.file.etab[g.id] /\ g.table # None
            /\ g.num_objects = Len(g.table)
  BY <1>1, Asked
<1>3. /\ g.table # None /\ g.file # None =>
            g.id \in DOMAIN g.file.etab /\ g.table = g.file.etab[g.id]
      /\ g.table # None => g.num_objects = Len(g.table)
      /\ "closed" \notin history' =>
            (g.num_objects > 0 => g.table # None) /\ (g.live => g.file # None)
  BY <1>2 DEF HandlesInv, TablesInv
<1>4. /\ man' = man /\ to_load' = to_load /\ fault' \in Fault \union {None}
      /\ "freed" \in history => "freed" \in history'
      /\ "closed" \in history => "closed" \in history'
  BY DEF ManagerTypeOK
<1>5. /\ g \in Handle
      /\ g.live = handles[h].live /\ g.id = handles[h].id /\ g.slot = handles[h].slot
  BY <1>2
<1> QED BY <1>3, <1>4, <1>5, OneHandleChanged

(* Nothing happens to the handles.                                         *)
LEMMA SameHandles ==
    ASSUME ManagerTypeOK, HandlesInv, UNCHANGED manager_vars,
           fault' \in Fault \union {None}, {"freed", "closed"} \cap history \subseteq history'
    PROVE  ManagerTypeOK' /\ HandlesInv'
<1>1. ManagerTypeOK'
  BY DEF ManagerTypeOK, manager_vars
<1>2. HandlesInv'
  BY DEF manager_vars, HandlesInv, LoadingInv, SlotsInv, NumbersInv, KeptInv, ReplacedInv, TablesInv
<1> QED BY <1>1, <1>2

LEMMA ManagerKeeps ==
    ASSUME ManagerTypeOK, HandlesInv, ManagerNext
    PROVE  ManagerTypeOK' /\ HandlesInv'
<1>1. CASE gff_manager_create
  BY <1>1, CreateKeeps
<1>2. CASE gff_manager_free
  BY <1>2, FreeKeeps
<1>3. ASSUME NEW directory \in Games, gff_manager_load_ds1(directory)
      PROVE  ManagerTypeOK' /\ HandlesInv'
  BY <1>3, LoadKeeps
<1>4. ASSUME NEW name \in DOMAIN to_load, detect_and_load_core_ds1(name)
      PROVE  ManagerTypeOK' /\ HandlesInv'
  BY <1>4, DetectKeeps
<1>5. ASSUME NEW h \in DOMAIN handles, gff_close(h)
      PROVE  ManagerTypeOK' /\ HandlesInv'
  BY <1>5, CloseKeeps
<1>6. ASSUME NEW h \in DOMAIN handles, gff_region_get_num_objects(h)
      PROVE  ManagerTypeOK' /\ HandlesInv'
  BY <1>6, AskKeeps DEF gff_region_get_num_objects
<1>7. ASSUME NEW h \in DOMAIN handles, NEW file \in Reopened, gff_open(h, file)
      PROVE  ManagerTypeOK' /\ HandlesInv'
  BY <1>7, OpenKeeps
<1> QED BY <1>1, <1>2, <1>3, <1>4, <1>5, <1>6, <1>7 DEF ManagerNext

(* Handles are only added, with the number and the slot they keep.         *)
LEMMA ManagerAdds ==
    ASSUME ManagerTypeOK, ManagerNext
    PROVE  /\ \A h \in DOMAIN handles :
                 /\ h \in DOMAIN handles'
                 /\ handles'[h].id = handles[h].id /\ handles'[h].slot = handles[h].slot
           /\ history \subseteq history'
           /\ history' \subseteq history \union {"freed", "closed"}
           /\ fault' \in {fault, "outside"} /\ fault = None
<1> USE DEF Idle
<1>1. CASE gff_manager_create
  BY <1>1 DEF gff_manager_create
<1>2. CASE gff_manager_free
  <2>1. \A h \in DOMAIN handles :
           handles'[h] \in {handles[h], FreedHandle(handles[h])} /\ h \in DOMAIN handles'
    BY <1>2 DEF gff_manager_free
  <2>2. \A h \in DOMAIN handles :
           /\ FreedHandle(handles[h]).id = handles[h].id
           /\ FreedHandle(handles[h]).slot = handles[h].slot
    BY HandleAt DEF FreedHandle, Handle
  <2> QED BY <1>2, <2>1, <2>2 DEF gff_manager_free
<1>3. ASSUME NEW directory \in Games, gff_manager_load_ds1(directory)
      PROVE  UNCHANGED <<handles, history, fault>> /\ fault = None
  BY <1>3 DEF gff_manager_load_ds1
<1>4. ASSUME NEW name \in DOMAIN to_load, detect_and_load_core_ds1(name)
      PROVE  /\ \A h \in DOMAIN handles : h \in DOMAIN handles' /\ handles'[h] = handles[h]
             /\ UNCHANGED history /\ fault' \in {fault, "outside"} /\ fault = None
  <2>1. \A g : \A h \in DOMAIN handles :
           h \in DOMAIN Append(handles, g) /\ Append(handles, g)[h] = handles[h]
    BY DEF ManagerTypeOK
  <2> QED BY <1>4, <2>1 DEF detect_and_load_core_ds1
<1>5. ASSUME NEW h \in DOMAIN handles, NEW g \in Handle,
             g.id = handles[h].id, g.slot = handles[h].slot,
             handles' = [handles EXCEPT ![h] = g]
      PROVE  \A k \in DOMAIN handles :
                /\ k \in DOMAIN handles'
                /\ handles'[k].id = handles[k].id /\ handles'[k].slot = handles[k].slot
  BY <1>5
<1>6. ASSUME NEW h \in DOMAIN handles, gff_close(h)
      PROVE  /\ \A k \in DOMAIN handles :
                   /\ k \in DOMAIN handles'
                   /\ handles'[k].id = handles[k].id /\ handles'[k].slot = handles[k].slot
             /\ history' = history \union {"closed"} /\ fault' = fault /\ fault = None
  <2> DEFINE g == [handles[h] EXCEPT !.file = None, !.table = None]
  <2>0. handles[h] \in Handle
    BY HandleAt
  <2>1. g \in Handle /\ g.id = handles[h].id /\ g.slot = handles[h].slot
    BY <2>0 DEF Handle
  <2> QED BY <1>5, <1>6, <2>1 DEF gff_close
<1>7. ASSUME NEW h \in DOMAIN handles, gff_region_get_num_objects(h)
      PROVE  /\ \A k \in DOMAIN handles :
                   /\ k \in DOMAIN handles'
                   /\ handles'[k].id = handles[k].id /\ handles'[k].slot = handles[k].slot
             /\ history' = history /\ fault' = fault /\ fault = None
  <2>1. /\ WithTable(handles[h]) \in Handle
        /\ WithTable(handles[h]).id = handles[h].id
        /\ WithTable(handles[h]).slot = handles[h].slot
    BY HandleAt, Asked
  <2> QED BY <1>5, <1>7, <2>1 DEF gff_region_get_num_objects
<1>8. ASSUME NEW h \in DOMAIN handles, NEW file \in Reopened, gff_open(h, file)
      PROVE  /\ \A k \in DOMAIN handles :
                   /\ k \in DOMAIN handles'
                   /\ handles'[k].id = handles[k].id /\ handles'[k].slot = handles[k].slot
             /\ history' = history /\ fault' = fault /\ fault = None
  <2> DEFINE g == [handles[h] EXCEPT !.file = file, !.num_objects = -1, !.table = None]
  <2>0. handles[h] \in Handle
    BY HandleAt
  <2>1. g \in Handle /\ g.id = handles[h].id /\ g.slot = handles[h].slot
    BY <2>0 DEF Handle
  <2> QED BY <1>5, <1>8, <2>1 DEF gff_open
<1> QED BY <1>1, <1>2, <1>3, <1>4, <1>6, <1>7, <1>8 DEF ManagerNext

------------------------------------------------------------------------------
(* Cleaning up goes wrong only in three ways, and each says what it found. *)
LEMMA CleanupFindsFaults ==
    ASSUME NEW r, NoDangling(r), NEW x \in CleanupFaults(r)
    PROVE  /\ x \in {None, "too few", "unset"}
           /\ x = "too few" => r.objs = "held" /\ Len(r.objects) < Len(r.table)
           /\ x = "unset" => Unsets(r)
BY DEF CleanupFaults, NoDangling, Fault

LEMMA CleanedIsSound ==
    ASSUME NEW r, SoundRegion(r)
    PROVE  /\ SoundRegion(Cleaned(r))
           /\ Cleaned(r).etab = "null" /\ Cleaned(r).tile_ids = "null" /\ Cleaned(r).objs = "null"
           /\ Cleaned(r).id = r.id /\ ~Unsets(Cleaned(r))
<1>1. /\ Cleaned(r) \in RegionFields
      /\ Cleaned(r).etab = "null" /\ Cleaned(r).tile_ids = "null" /\ Cleaned(r).objs = "null"
      /\ Cleaned(r).id = r.id /\ Cleaned(r).of = r.of /\ Cleaned(r).table = r.table
      /\ Cleaned(r).objects = <<>>
  <2>1. r \in RegionFields /\ "null" \in Pointer /\ <<>> \in Seq(RegionObject)
    BY DEF SoundRegion, Pointer
  <2>2. /\ Cleaned(r).etab = "null" /\ Cleaned(r).tile_ids = "null" /\ Cleaned(r).objs = "null"
        /\ Cleaned(r).id = r.id /\ Cleaned(r).of = r.of /\ Cleaned(r).table = r.table
        /\ Cleaned(r).objects = <<>>
    BY <2>1 DEF Cleaned, RegionFields
  <2>3. Cleaned(r) \in RegionFields
    BY <2>1 DEF Cleaned, RegionFields
  <2> QED BY <2>2, <2>3
<1>2. NoDangling(Cleaned(r)) /\ ~Unsets(Cleaned(r))
  BY <1>1 DEF NoDangling, Unsets, Pointers
<1>3. TableOfTheFile(Cleaned(r)) /\ ObjectsFromTables(Cleaned(r))
  BY <1>1 DEF SoundRegion, TableOfTheFile, ObjectsFromTables
<1> QED BY <1>1, <1>2, <1>3 DEF SoundRegion

(* Memory nobody has read into, cleared or not.                            *)
LEMMA MemoryIsSound ==
    ASSUME NEW pointer \in {"null", "unset"}, NEW heap \in BOOLEAN, NEW r,
           r = [etab |-> pointer, tile_ids |-> pointer, objs |-> pointer,
                table |-> <<>>, objects |-> <<>>, id |-> 0, of |-> None, heap |-> heap]
    PROVE  /\ SoundRegion(r) /\ r.objs = pointer
           /\ pointer = "null" => ~Unsets(r)
<1>1. /\ r \in RegionFields /\ r.objects = <<>> /\ r.of = None
      /\ r.etab = pointer /\ r.tile_ids = pointer /\ r.objs = pointer
  <2>1. pointer \in Pointer /\ None \in Files \union {None} /\ <<>> \in Seq(Nat)
        /\ <<>> \in Seq(RegionObject) /\ 0 \in Nat
    BY DEF Pointer
  <2>2. r \in RegionFields
    BY <2>1 DEF RegionFields
  <2> QED BY <2>2
<1>2. NoDangling(r) /\ (pointer = "null" => ~Unsets(r))
  BY <1>1 DEF NoDangling, Unsets, Pointers
<1>3. TableOfTheFile(r) /\ ObjectsFromTables(r)
  BY <1>1 DEF TableOfTheFile, ObjectsFromTables
<1> QED BY <1>1, <1>2, <1>3 DEF SoundRegion

(* The memory that gff_region_load has allocated.                          *)
LEMMA OnTheHeap ==
    ASSUME NEW pointer, NEW r, r = [Memory(pointer) EXCEPT !.heap = TRUE]
    PROVE  r = [etab |-> pointer, tile_ids |-> pointer, objs |-> pointer,
                table |-> <<>>, objects |-> <<>>, id |-> 0, of |-> None, heap |-> TRUE]
BY DEF Memory

(* What reading sets, whether or not it succeeds.                          *)
LEMMA ReadIsSound ==
    ASSUME NEW r, SoundRegion(r), NEW f \in Handle, f.file # None,
           NEW map \in FirstMap(f.file)
    PROVE  LET q == Read(r, f, map) IN
           /\ SoundRegion(q)
           /\ q.objs = r.objs /\ q.objects = r.objects
           /\ q.etab \in {r.etab, "held"} /\ q.tile_ids \in {r.tile_ids, "held"}
           /\ TilesRead(f.file, map) => q.etab = "held" /\ q.tile_ids = "held" /\ q.id = f.id
<1> DEFINE E == map \in DOMAIN f.file.etab
           etab == IF E
                THEN [r EXCEPT !.etab = "held", !.table = f.file.etab[map], !.of = f.file] ELSE r
           flags == IF FlagsRead(f.file, map) THEN [etab EXCEPT !.id = f.id] ELSE etab
           q == Read(r, f, map)
<1>1. f.file \in Files /\ f.id \in Nat /\ r \in RegionFields
  BY DEF Handle, SoundRegion
<1>2. /\ etab \in RegionFields /\ etab.objs = r.objs /\ etab.objects = r.objects
      /\ etab.etab \in {r.etab, "held"} /\ etab.tile_ids = r.tile_ids
      /\ E => etab.etab = "held" /\ etab.of = f.file /\ etab.table = f.file.etab[map]
      /\ ~E => etab.of = r.of /\ etab.table = r.table
  <2>1. CASE E
    <3>1. f.file.etab[map] \in Seq(Nat)
      BY <1>1, <2>1, TablesOfFiles
    <3> QED BY <1>1, <2>1, <3>1 DEF RegionFields, Pointer
  <2>2. CASE ~E
    BY <1>1, <2>2
  <2> QED BY <2>1, <2>2
<1> HIDE DEF etab, E
<1>3. /\ flags \in RegionFields /\ flags.objs = r.objs /\ flags.objects = r.objects
      /\ flags.etab = etab.etab /\ flags.tile_ids = r.tile_ids
      /\ flags.of = etab.of /\ flags.table = etab.table
      /\ FlagsRead(f.file, map) => flags.id = f.id
  BY <1>1, <1>2 DEF RegionFields
<1> HIDE DEF flags
<1>4. q = IF TilesRead(f.file, map) THEN [flags EXCEPT !.tile_ids = "held"] ELSE flags
  BY DEF Read, flags, etab, E
<1> HIDE DEF q
<1>5. /\ q \in RegionFields /\ q.objs = r.objs /\ q.objects = r.objects
      /\ q.etab = etab.etab /\ q.tile_ids \in {r.tile_ids, "held"} /\ q.id = flags.id
      /\ q.of = etab.of /\ q.table = etab.table
      /\ TilesRead(f.file, map) => q.tile_ids = "held"
  BY <1>3, <1>4 DEF RegionFields, Pointer
<1>6. NoDangling(q)
  BY <1>2, <1>5 DEF SoundRegion, NoDangling, Pointers
<1>7. TableOfTheFile(q)
  BY <1>2, <1>5 DEF SoundRegion, TableOfTheFile, FirstMap, E
<1>8. ObjectsFromTables(q)
  BY <1>5 DEF SoundRegion, ObjectsFromTables
<1>9. TilesRead(f.file, map) => E /\ FlagsRead(f.file, map)
  BY DEF TilesRead, FlagsRead, EtabRead, E
<1>10. SoundRegion(q)
  BY <1>5, <1>6, <1>7, <1>8 DEF SoundRegion
<1> QED BY <1>2, <1>3, <1>5, <1>9, <1>10 DEF q

(* A read into r ends in one of three ways: the region is read, with the   *)
(* number of the handle; it is cleaned up, or freed; or there is a fault,  *)
(* and what caused it.                                                     *)
LEMMA ReadIntoEnds ==
    ASSUME NEW r, SoundRegion(r), NEW f \in Handle, NEW freed \in BOOLEAN, fault = None,
           ReadInto(r, f, freed)
    PROVE  /\ region' # None => SoundRegion(region')
           /\ region' # None /\ region'.objs = "held" => r.objs = "held"
           /\ fault' \in {None, "no list", "outside", "too few", "unset"}
           /\ fault' = "no list" => f.file = None
           /\ fault' = "too few" => r.objs = "held"
           /\ fault' = "unset" => Unsets(r)
           /\ fault' = None /\ region' # None =>
                 \/ /\ region'.etab = "held" /\ region'.tile_ids = "held"
                    /\ region'.id = f.id /\ (Unsets(region') => Unsets(r))
                 \/ /\ ~freed /\ region'.etab = "null" /\ region'.tile_ids = "null"
                    /\ ~Unsets(region')
<1>0. None \notin {"no list", "outside", "too few", "unset"}
  BY DEF Fault
<1>1. CASE f.file = None
  BY <1>0, <1>1 DEF ReadInto
<1>2. ASSUME f.file # None, NEW map \in FirstMap(f.file),
             \/ /\ TilesRead(f.file, map) /\ f.file.rmap = "fits"
                /\ region' = Read(r, f, map) /\ UNCHANGED fault
             \/ /\ TilesRead(f.file, map) /\ f.file.rmap = "long"
                /\ fault' = "outside" /\ region' = Read(r, f, map)
             \/ /\ ~TilesRead(f.file, map)
                /\ fault' \in CleanupFaults(Read(r, f, map)) \union
                      (IF freed THEN CleanupFaults(Cleaned(Read(r, f, map))) ELSE {})
                /\ region' = IF freed THEN None ELSE Cleaned(Read(r, f, map))
      PROVE  /\ region' # None => SoundRegion(region')
             /\ region' # None /\ region'.objs = "held" => r.objs = "held"
             /\ fault' \in {None, "no list", "outside", "too few", "unset"}
             /\ fault' # "no list"
             /\ fault' = "too few" => r.objs = "held"
             /\ fault' = "unset" => Unsets(r)
             /\ fault' = None /\ region' # None =>
                   \/ /\ region'.etab = "held" /\ region'.tile_ids = "held"
                      /\ region'.id = f.id /\ (Unsets(region') => Unsets(r))
                   \/ /\ ~freed /\ region'.etab = "null" /\ region'.tile_ids = "null"
                      /\ ~Unsets(region')
  <2> DEFINE q == Read(r, f, map)
  <2>1. /\ SoundRegion(q)
        /\ q.objs = r.objs /\ q.objects = r.objects
        /\ q.etab \in {r.etab, "held"} /\ q.tile_ids \in {r.tile_ids, "held"}
        /\ TilesRead(f.file, map) => q.etab = "held" /\ q.tile_ids = "held" /\ q.id = f.id
    BY <1>2, ReadIsSound
  <2> HIDE DEF q
  <2>2. Unsets(q) => Unsets(r)
    BY <2>1 DEF Unsets, Pointers
  <2>3. CASE TilesRead(f.file, map)
    BY <1>0, <1>2, <2>1, <2>2, <2>3 DEF q
  <2>4. CASE ~TilesRead(f.file, map)
    <3>1. /\ SoundRegion(Cleaned(q)) /\ ~Unsets(Cleaned(q))
          /\ Cleaned(q).etab = "null" /\ Cleaned(q).tile_ids = "null" /\ Cleaned(q).objs = "null"
      BY <2>1, CleanedIsSound
    <3>2. /\ fault' \in CleanupFaults(q) \union CleanupFaults(Cleaned(q))
          /\ region' = IF freed THEN None ELSE Cleaned(q)
      BY <1>2, <2>4 DEF q
    <3>3. NoDangling(q) /\ NoDangling(Cleaned(q))
      BY <2>1, <3>1 DEF SoundRegion
    <3>4. /\ fault' \in {None, "too few", "unset"}
          /\ fault' = "too few" => q.objs = "held"
          /\ fault' = "unset" => Unsets(q)
      BY <3>1, <3>2, <3>3, CleanupFindsFaults
    <3> QED BY <1>0, <2>1, <2>2, <3>1, <3>2, <3>4
  <2> QED BY <2>3, <2>4
<1> QED BY <1>1, <1>2 DEF ReadInto

(* The objects made from the table of a handle with the region's number.   *)
LEMMA MadeFromTheTable ==
    ASSUME NEW f \in Handle, NEW count \in Nat, region.id \in Nat,
           f.id = region.id \/ region.id = MaxRegions,
           f.table # None /\ f.file # None =>
              f.id \in DOMAIN f.file.etab /\ f.table = f.file.etab[f.id],
           f.table # None => f.num_objects = Len(f.table),
           f.num_objects > 0 => f.table # None
    PROVE  /\ Made(f, count) \in Seq(RegionObject) /\ Len(Made(f, count)) = count
           /\ \A k \in DOMAIN Made(f, count) : FromItsTable(Made(f, count)[k], k)
           /\ Complete(Made(f, count)) =>
                 \A k \in DOMAIN Made(f, count) : Made(f, count)[k].scmd # "unset"
<1> DEFINE good(k) == k <= f.num_objects /\ Readable(f.table[k])
           bad == {k \in 1 .. count : ~good(k)}
           left(k) == [number |-> 0, region_id |-> 0, of |-> None,
                       scmd |-> IF k <= f.num_objects /\ \A j \in bad : k <= j THEN "null" ELSE "unset"]
           objects == Made(f, count)
<1>1. \A k \in 1 .. count : left(k) \in RegionObject /\ left(k).of = None
  BY DEF RegionObject
<1>2. ASSUME NEW k \in 1 .. count, good(k)
      PROVE  /\ Object(f, k) \in RegionObject /\ FromItsTable(Object(f, k), k)
             /\ Object(f, k).scmd # "unset"
  <2>1. f.table # None /\ f.table \in Seq(Nat) /\ k \in 1 .. Len(f.table)
    <3>1. f.num_objects \in Nat \union {-1} /\ f.table \in Seq(Nat) \union {None}
      BY DEF Handle
    <3>2. f.num_objects > 0
      BY <1>2, <3>1
    <3> QED BY <1>2, <3>1, <3>2
  <2>2. f.table[k] \in Nat
    BY <2>1
  <2>3. Script(f.table[k]) \in {"null", "held"}
    BY DEF Script
  <2>4. /\ Object(f, k) = [number |-> f.table[k], region_id |-> region.id, of |-> f.file,
                            scmd |-> Script(f.table[k])]
        /\ f.file \in Files \union {None}
    BY DEF Object, Handle
  <2>5. Object(f, k) \in RegionObject /\ Object(f, k).scmd # "unset"
    BY <2>2, <2>3, <2>4 DEF RegionObject
  <2>6. FromItsTable(Object(f, k), k)
    BY <2>1, <2>4 DEF FromItsTable
  <2> QED BY <2>5, <2>6
<1>3. objects = [k \in 1 .. count |-> IF \A j \in bad : k < j THEN Object(f, k) ELSE left(k)]
  BY DEF Made
<1>4. \A k \in 1 .. count : (\A j \in bad : k < j) => good(k)
  OBVIOUS
<1> HIDE DEF good, bad, left, objects
<1>5. \A k \in 1 .. count :
         /\ objects[k] \in RegionObject
         /\ FromItsTable(objects[k], k)
         /\ objects[k].of # None => objects[k].scmd # "unset"
  <2> SUFFICES ASSUME NEW k \in 1 .. count
               PROVE  /\ objects[k] \in RegionObject
                      /\ FromItsTable(objects[k], k)
                      /\ objects[k].of # None => objects[k].scmd # "unset"
    OBVIOUS
  <2>1. CASE \A j \in bad : k < j
    BY <1>2, <1>3, <1>4, <2>1
  <2>2. CASE ~ \A j \in bad : k < j
    BY <1>1, <1>3, <2>2 DEF FromItsTable
  <2> QED BY <2>1, <2>2
<1>6. objects \in Seq(RegionObject) /\ Len(objects) = count /\ DOMAIN objects = 1 .. count
  BY <1>3, <1>5
<1> QED BY <1>5, <1>6 DEF objects, Complete

------------------------------------------------------------------------------
(* The steps of the region.                                                *)

LEMMA InitInv == Init => Inv
<1> SUFFICES ASSUME Init
             PROVE  Inv
  OBVIOUS
<1>1. /\ man = None /\ handles = <<>> /\ to_load = <<>> /\ history = {} /\ fault = None
      /\ region = None
  BY DEF Init, ManagerInit
<1>2. DOMAIN handles = {} /\ DOMAIN to_load = {} /\ handles \in Seq(Handle)
  BY <1>1
<1>3. ManagerTypeOK
  BY <1>1, <1>2 DEF ManagerTypeOK
<1>4. HandlesInv
  BY <1>1, <1>2
     DEF HandlesInv, LoadingInv, SlotsInv, NumbersInv, KeptInv, ReplacedInv, TablesInv
<1>5. RegionInv
  BY <1>1 DEF RegionInv, FilledInv, NumberOfAHandle
<1>6. FaultInv
  BY <1>1 DEF FaultInv, FaultsHaveACause, UnsetOnlyIfIncomplete, MissingOnlyIfTaken, Fault
<1> QED BY <1>3, <1>4, <1>5, <1>6 DEF Inv

LEMMA StutterKeeps ==
    ASSUME Inv, UNCHANGED vars
    PROVE  Inv'
<1>1. /\ UNCHANGED manager_vars /\ UNCHANGED history /\ UNCHANGED fault /\ UNCHANGED region
      /\ UNCHANGED handles
  BY DEF vars, manager_vars
<1>2. ManagerTypeOK' /\ HandlesInv'
  BY <1>1, SameHandles DEF Inv, ManagerTypeOK
<1>3. RegionInv'
  BY <1>1 DEF Inv, RegionInv, FilledInv, NumberOfAHandle
<1>4. FaultInv'
  BY <1>1 DEF Inv, FaultInv, FaultsHaveACause, UnsetOnlyIfIncomplete, MissingOnlyIfTaken
<1> QED BY <1>2, <1>3, <1>4 DEF Inv

(* What the manager does leaves the region alone.                          *)
LEMMA ManagerKeepsInv ==
    ASSUME Inv, ManagerNext, UNCHANGED region
    PROVE  Inv'
<1>1. ManagerTypeOK /\ HandlesInv
  BY DEF Inv
<1>2. ManagerTypeOK' /\ HandlesInv'
  BY <1>1, ManagerKeeps
<1>3. /\ \A h \in DOMAIN handles :
            /\ h \in DOMAIN handles'
            /\ handles'[h].id = handles[h].id /\ handles'[h].slot = handles[h].slot
      /\ history \subseteq history' /\ history' \subseteq history \union {"freed", "closed"}
      /\ fault' \in {fault, "outside"} /\ fault = None
  BY <1>1, ManagerAdds
<1>4. FilledInv'
  BY <1>3 DEF Inv, RegionInv, FilledInv
<1>5. NumberOfAHandle'
  BY <1>3 DEF Inv, RegionInv, NumberOfAHandle
<1>6. FaultInv'
  BY <1>3 DEF Inv, FaultInv, FaultsHaveACause, UnsetOnlyIfIncomplete, MissingOnlyIfTaken, Fault
<1> QED BY <1>2, <1>4, <1>5, <1>6 DEF Inv, RegionInv

LEMMA RegionReadKeeps ==
    ASSUME Inv, NEW h \in DOMAIN handles, gff_region_read(h)
    PROVE  Inv'
<1> DEFINE f == handles[h]
<1>1. /\ Idle /\ h \in Live /\ fault = None /\ f.live
      /\ ReadInto(Own, f, FALSE) /\ UNCHANGED manager_vars /\ UNCHANGED handles
  BY DEF gff_region_read, Idle, Live, manager_vars
<1>2. /\ history \subseteq history' /\ history' \subseteq history \union {"reread", "core", "failed"}
      /\ Own.objs = "held" => "reread" \in history'
      /\ f.slot \in Core => "core" \in history'
      /\ region'.tile_ids # "held" => "failed" \in history'
  BY DEF gff_region_read
<1>3. f \in Handle
  BY HandleAt DEF Inv
<1>4. SoundRegion(Own) /\ (Unsets(Own) => region # None /\ Unsets(region))
  <2>1. CASE region = None
    <3>1. SoundRegion(Memory("null")) /\ ~Unsets(Memory("null"))
      BY MemoryIsSound DEF Memory
    <3> QED BY <2>1, <3>1 DEF Own
  <2>2. CASE region # None
    BY <2>2 DEF Own, Inv, RegionInv
  <2> QED BY <2>1, <2>2
<1>5. /\ region' # None => SoundRegion(region')
      /\ region' # None /\ region'.objs = "held" => Own.objs = "held"
      /\ fault' \in {None, "no list", "outside", "too few", "unset"}
      /\ fault' = "no list" => f.file = None
      /\ fault' = "too few" => Own.objs = "held"
      /\ fault' = "unset" => Unsets(Own)
      /\ fault' = None /\ region' # None =>
            \/ /\ region'.etab = "held" /\ region'.tile_ids = "held"
               /\ region'.id = f.id /\ (Unsets(region') => Unsets(Own))
            \/ /\ region'.etab = "null" /\ region'.tile_ids = "null" /\ ~Unsets(region')
  BY <1>1, <1>3, <1>4, ReadIntoEnds
<1> HIDE DEF f
<1>6. ManagerTypeOK' /\ HandlesInv'
  BY <1>1, <1>2, <1>5, SameHandles DEF Inv, Fault
<1>7. FilledInv'
  <2>1. Unsets(Own) => history' \intersect {"unfilled", "incomplete"} # {}
    BY <1>1, <1>2, <1>4 DEF Inv, RegionInv, FilledInv
  <2> QED BY <1>2, <1>5, <2>1 DEF FilledInv
<1>8. NumberOfAHandle'
  BY <1>1, <1>2, <1>5 DEF NumberOfAHandle, f
<1>9. FaultInv'
  <2>1. fault' = "unset" => history' \intersect {"unfilled", "incomplete"} # {}
    BY <1>1, <1>2, <1>4, <1>5 DEF Inv, RegionInv, FilledInv
  <2>2. fault' = "no list" => "closed" \in history'
    BY <1>1, <1>2, <1>5 DEF Inv, HandlesInv, TablesInv, f
  <2>3. fault' # "no table" /\ fault' # "no region" /\ fault' # "freed twice"
    BY <1>5 DEF Fault
  <2> QED BY <1>2, <1>5, <2>1, <2>2, <2>3
          DEF FaultInv, FaultsHaveACause, UnsetOnlyIfIncomplete, MissingOnlyIfTaken
<1> QED BY <1>5, <1>6, <1>7, <1>8, <1>9 DEF Inv, RegionInv

LEMMA RegionLoadKeeps ==
    ASSUME Inv, NEW h \in DOMAIN handles, gff_region_load(h)
    PROVE  Inv'
<1> DEFINE f == handles[h]
           r == [Memory("unset") EXCEPT !.heap = TRUE]
<1>1. /\ Idle /\ h \in Live /\ fault = None /\ f.live
      /\ ReadInto(r, f, TRUE) /\ UNCHANGED manager_vars /\ UNCHANGED handles
  BY DEF gff_region_load, Idle, Live, manager_vars
<1>2. /\ history \subseteq history' /\ history' \subseteq history \union {"unfilled", "core"}
      /\ "unfilled" \in history'
      /\ f.slot \in Core => "core" \in history'
  BY DEF gff_region_load
<1>3. f \in Handle
  BY HandleAt DEF Inv
<1>4. SoundRegion(r) /\ r.objs = "unset"
  <2>1. r = [etab |-> "unset", tile_ids |-> "unset", objs |-> "unset",
             table |-> <<>>, objects |-> <<>>, id |-> 0, of |-> None, heap |-> TRUE]
    BY OnTheHeap
  <2> HIDE DEF r
  <2> QED BY <2>1, MemoryIsSound
<1> HIDE DEF r
<1>5. /\ region' # None => SoundRegion(region')
      /\ region' # None /\ region'.objs = "held" => r.objs = "held"
      /\ fault' \in {None, "no list", "outside", "too few", "unset"}
      /\ fault' = "no list" => f.file = None
      /\ fault' = "too few" => r.objs = "held"
      /\ fault' = None /\ region' # None =>
            /\ region'.etab = "held" /\ region'.tile_ids = "held"
            /\ region'.id = f.id
  BY <1>1, <1>3, <1>4, ReadIntoEnds
<1> HIDE DEF f
<1>6. ManagerTypeOK' /\ HandlesInv'
  BY <1>1, <1>2, <1>5, SameHandles DEF Inv, Fault
<1>7. FilledInv'
  BY <1>2, <1>4, <1>5 DEF FilledInv
<1>8. NumberOfAHandle'
  BY <1>1, <1>2, <1>5 DEF NumberOfAHandle, f
<1>9. FaultInv'
  <2>1. fault' = "no list" => "closed" \in history'
    BY <1>1, <1>2, <1>5 DEF Inv, HandlesInv, TablesInv, f
  <2>2. /\ fault' # "no table" /\ fault' # "no region" /\ fault' # "freed twice"
        /\ fault' # "too few"
    BY <1>4, <1>5 DEF Fault
  <2> QED BY <1>2, <1>5, <2>1, <2>2
          DEF FaultInv, FaultsHaveACause, UnsetOnlyIfIncomplete, MissingOnlyIfTaken
<1> QED BY <1>5, <1>6, <1>7, <1>8, <1>9 DEF Inv, RegionInv

(* The objects of a region, of which there are as many as its table has.   *)
LEMMA ObjectsAreLoaded ==
    ASSUME Inv, region # None, fault = None,
           NEW objects \in Seq(RegionObject), Len(objects) = Len(region.table),
           \A k \in DOMAIN objects : FromItsTable(objects[k], k),
           region' = [region EXCEPT !.objs = "held", !.objects = objects],
           fault' = None,
           history \ {"unfilled", "incomplete"} \subseteq history',
           history' \subseteq history \union {"incomplete"},
           (\A k \in DOMAIN objects : objects[k].scmd # "unset") \/ "incomplete" \in history',
           \A h \in DOMAIN handles :
              /\ h \in DOMAIN handles'
              /\ handles'[h].id = handles[h].id /\ handles'[h].slot = handles[h].slot
    PROVE  RegionInv' /\ FaultInv'
<1>1. region \in RegionFields /\ SoundRegion(region)
  BY DEF Inv, RegionInv, SoundRegion
<1>2. /\ region' \in RegionFields
      /\ region'.etab = region.etab /\ region'.tile_ids = region.tile_ids /\ region'.objs = "held"
      /\ region'.table = region.table /\ region'.objects = objects
      /\ region'.id = region.id /\ region'.of = region.of
  <2>1. "held" \in Pointer
    BY DEF Pointer
  <2> QED BY <1>1, <2>1 DEF RegionFields
<1>3. NoDangling(region')
  BY <1>1, <1>2 DEF SoundRegion, NoDangling, Pointers
<1>4. TableOfTheFile(region') /\ ObjectsFromTables(region')
  BY <1>1, <1>2 DEF SoundRegion, TableOfTheFile, ObjectsFromTables
<1>5. region.etab # "unset" /\ region.tile_ids # "unset"
  BY DEF Inv, RegionInv, FilledInv
<1>6. Unsets(region') => "incomplete" \in history'
  BY <1>2, <1>5 DEF Unsets, Pointers
<1>7. FilledInv'
  <2>1. ~(Len(region'.objects) < Len(region'.table))
    BY <1>1, <1>2 DEF RegionFields
  <2> QED BY <1>2, <1>5, <1>6, <2>1 DEF FilledInv
<1>8. NumberOfAHandle'
  BY <1>2 DEF Inv, RegionInv, NumberOfAHandle
<1>9. FaultInv'
  BY DEF FaultInv, FaultsHaveACause, UnsetOnlyIfIncomplete, MissingOnlyIfTaken, Fault
<1> QED BY <1>2, <1>3, <1>4, <1>7, <1>8, <1>9 DEF RegionInv, SoundRegion

(* A fault that follows a pointer the region's number leads to.            *)
LEMMA ObjectsAreNotFound ==
    ASSUME Inv, region # None, UNCHANGED <<region, handles, history>>,
           fault' \in {"outside", "no region", "no table"},
           fault' = "no region" => history \intersect {"freed", "core", "failed"} # {},
           fault' = "no table" => "closed" \in history
    PROVE  RegionInv' /\ FaultInv'
<1>1. fault' # None /\ fault' # "no list" /\ fault' # "unset" /\ fault' # "too few"
      /\ fault' # "freed twice"
  BY DEF Fault
<1>2. RegionInv'
  BY <1>1 DEF Inv, RegionInv, FilledInv, NumberOfAHandle
<1>3. FaultInv'
  BY <1>1 DEF FaultInv, FaultsHaveACause, UnsetOnlyIfIncomplete, MissingOnlyIfTaken
<1> QED BY <1>2, <1>3

(* The number of a region that nothing has happened to leads to a handle.  *)
LEMMA NumberLeadsToAHandle ==
    ASSUME Inv, man # None, region # None, fault = None,
           region.id \in Region, man[region.id] = None
    PROVE  history \intersect {"freed", "core", "failed"} # {}
<1> SUFFICES ASSUME history \intersect {"freed", "core", "failed"} = {}
             PROVE  FALSE
  OBVIOUS
<1>1. PICK h \in DOMAIN handles : handles[h].slot \notin Core /\ handles[h].id = region.id
  BY DEF Inv, RegionInv, NumberOfAHandle
<1>2. handles[h].slot = region.id
  BY <1>1, SlotsAreNumbers DEF Inv, HandlesInv, NumbersInv
<1> QED BY <1>1, <1>2 DEF Inv, HandlesInv, KeptInv

LEMMA LoadObjectsKeeps ==
    ASSUME Inv, region # None, gff_manager_load_region_objects
    PROVE  Inv'
<1> DEFINE slot == region.id
           count == Len(region.table)
           m == man[slot]
           f == IF handles[m].num_objects <= 0 THEN WithTable(handles[m]) ELSE handles[m]
           objects == Made(f, count)
<1>1. /\ Idle /\ fault = None /\ man # None
      /\ UNCHANGED <<man, to_load>>
  BY DEF gff_manager_load_region_objects, Idle
<1>2. region \in RegionFields /\ slot \in Nat /\ count \in Nat
  BY DEF Inv, RegionInv, SoundRegion, RegionFields
<1>3. ManagerTypeOK /\ HandlesInv
  BY DEF Inv
<1>4. ASSUME slot \in Region, m # None
      PROVE  /\ m \in DOMAIN handles /\ f \in Handle
             /\ f.live = handles[m].live /\ f.id = handles[m].id /\ f.slot = handles[m].slot
             /\ f.id = region.id \/ region.id = MaxRegions
             /\ f.table # None /\ f.file # None =>
                   f.id \in DOMAIN f.file.etab /\ f.table = f.file.etab[f.id]
             /\ f.table # None => f.num_objects = Len(f.table)
             /\ "closed" \notin history =>
                   (f.num_objects > 0 => f.table # None) /\ (f.live => f.file # None)
  <2>1. m \in DOMAIN handles /\ handles[m].slot = slot
    BY <1>1, <1>3, <1>4, SlotsAreNumbers DEF HandlesInv, SlotsInv
  <2>2. handles[m] \in Handle
    BY <1>3, <2>1, HandleAt
  <2>3. /\ f \in Handle
        /\ f.live = handles[m].live /\ f.file = handles[m].file
        /\ f.id = handles[m].id /\ f.slot = handles[m].slot
        /\ \/ f = handles[m]
           \/ /\ f.file # None /\ f.id \in DOMAIN f.file.etab
              /\ f.table = f.file.etab[f.id] /\ f.table # None
              /\ f.num_objects = Len(f.table)
    BY <2>2, Asked
  <2> HIDE DEF f, m
  <2>4. f.id = region.id \/ region.id = MaxRegions
    BY <1>3, <1>4, <2>1, <2>3, SlotsAreNumbers DEF HandlesInv, NumbersInv
  <2> QED BY <1>3, <2>1, <2>3, <2>4 DEF HandlesInv, TablesInv
<1>5. CASE /\ count > 0
           /\ \/ slot \notin Region /\ fault' = "outside"
              \/ slot \in Region /\ m = None /\ fault' = "no region"
              \/ /\ slot \in Region /\ m # None
                 /\ f.num_objects > 0 /\ f.table = None
                 /\ fault' = "no table"
           /\ UNCHANGED <<region, handles, history>>
  <2> HIDE DEF f
  <2>1. fault' = "no region" => history \intersect {"freed", "core", "failed"} # {}
    BY <1>1, <1>5, NumberLeadsToAHandle
  <2>2. fault' = "no table" => "closed" \in history
    BY <1>4, <1>5
  <2>3. fault' \in {"outside", "no region", "no table"}
    BY <1>5
  <2>4. RegionInv' /\ FaultInv'
    BY <1>5, <2>1, <2>2, <2>3, ObjectsAreNotFound
  <2>5. fault' \in Fault /\ UNCHANGED manager_vars
    BY <1>1, <1>5, <2>3 DEF Fault, manager_vars
  <2>6. ManagerTypeOK' /\ HandlesInv'
    BY <1>3, <1>5, <2>5, SameHandles
  <2> QED BY <2>4, <2>6 DEF Inv
<1>6. CASE /\ count = 0
           /\ region' = [region EXCEPT !.objs = "held", !.objects = <<>>]
           /\ history' = history \ {"unfilled", "incomplete"}
           /\ UNCHANGED <<handles, fault>>
  <2>1. <<>> \in Seq(RegionObject) /\ Len(<<>>) = Len(region.table) /\ DOMAIN <<>> = {}
    BY <1>6
  <2>2. RegionInv' /\ FaultInv'
    BY <1>1, <1>6, <2>1, ObjectsAreLoaded
  <2>3. ManagerTypeOK' /\ HandlesInv'
    BY <1>1, <1>3, <1>6, SameHandles DEF manager_vars
  <2> QED BY <2>2, <2>3 DEF Inv
<1>7. CASE /\ count > 0 /\ slot \in Region /\ m # None
           /\ f.num_objects > 0 => f.table # None
           /\ handles' = [handles EXCEPT ![m] = f]
           /\ region' = [region EXCEPT !.objs = "held", !.objects = objects]
           /\ history' = IF Complete(objects) THEN history \ {"unfilled", "incomplete"}
                         ELSE history \union {"incomplete"}
           /\ UNCHANGED fault
  <2> HIDE DEF f, m
  <2>1. /\ m \in DOMAIN handles /\ f \in Handle
        /\ f.live = handles[m].live /\ f.id = handles[m].id /\ f.slot = handles[m].slot
        /\ f.id = region.id \/ region.id = MaxRegions
        /\ f.table # None /\ f.file # None =>
              f.id \in DOMAIN f.file.etab /\ f.table = f.file.etab[f.id]
        /\ f.table # None => f.num_objects = Len(f.table)
        /\ "closed" \notin history =>
              (f.num_objects > 0 => f.table # None) /\ (f.live => f.file # None)
    BY <1>4, <1>7
  <2>2. /\ objects \in Seq(RegionObject) /\ Len(objects) = count
        /\ \A k \in DOMAIN objects : FromItsTable(objects[k], k)
        /\ Complete(objects) => \A k \in DOMAIN objects : objects[k].scmd # "unset"
    BY <1>2, <1>7, <2>1, MadeFromTheTable
  <2> HIDE DEF objects
  <2>3. /\ history \ {"unfilled", "incomplete"} \subseteq history'
        /\ history' \subseteq history \union {"incomplete"}
        /\ (\A k \in DOMAIN objects : objects[k].scmd # "unset") \/ "incomplete" \in history'
    BY <1>7, <2>2
  <2>4. \A h \in DOMAIN handles :
           /\ h \in DOMAIN handles'
           /\ handles'[h].id = handles[h].id /\ handles'[h].slot = handles[h].slot
    BY <1>7, <2>1
  <2>5. RegionInv' /\ FaultInv'
    BY <1>1, <1>7, <2>2, <2>3, <2>4, ObjectsAreLoaded
  <2>6. /\ fault' \in Fault \union {None}
        /\ "freed" \in history => "freed" \in history'
        /\ "closed" \in history => "closed" \in history'
        /\ "closed" \notin history' => "closed" \notin history
    BY <1>1, <1>7, <2>3
  <2>7. ManagerTypeOK' /\ HandlesInv'
    BY <1>1, <1>3, <1>7, <2>1, <2>6, OneHandleChanged
  <2> QED BY <2>5, <2>7 DEF Inv
<1> QED BY <1>5, <1>6, <1>7 DEF gff_manager_load_region_objects

(* Cleaning up, and freeing.                                               *)
LEMMA CleanupKeeps ==
    ASSUME Inv, region # None, fault = None, fault' \in CleanupFaults(region),
           region' = Cleaned(region) \/ region' = None, UNCHANGED <<manager_vars, history>>
    PROVE  Inv'
<1>1. SoundRegion(region) /\ NoDangling(region)
  BY DEF Inv, RegionInv, SoundRegion
<1>2. /\ fault' \in {None, "too few", "unset"}
      /\ fault' = "too few" => region.objs = "held" /\ Len(region.objects) < Len(region.table)
      /\ fault' = "unset" => Unsets(region)
  BY <1>1, CleanupFindsFaults
<1>3. /\ SoundRegion(Cleaned(region)) /\ ~Unsets(Cleaned(region))
      /\ Cleaned(region).etab = "null" /\ Cleaned(region).tile_ids = "null"
      /\ Cleaned(region).objs = "null" /\ Cleaned(region).id = region.id
  BY <1>1, CleanedIsSound
<1>4. ManagerTypeOK' /\ HandlesInv'
  BY <1>2, SameHandles DEF Inv, Fault
<1>5. (region' # None => SoundRegion(region')) /\ FilledInv'
  BY <1>3 DEF FilledInv
<1>6. NumberOfAHandle'
  BY <1>3 DEF Inv, RegionInv, NumberOfAHandle, manager_vars
<1>7. FaultInv'
  <2>1. /\ fault' # "no table" /\ fault' # "no list" /\ fault' # "no region"
        /\ fault' # "freed twice"
    BY <1>2 DEF Fault
  <2>2. /\ fault' = "unset" => history \intersect {"unfilled", "incomplete"} # {}
        /\ fault' = "too few" => "reread" \in history
    BY <1>2 DEF Inv, RegionInv, FilledInv
  <2> QED BY <2>1, <2>2 DEF FaultInv, FaultsHaveACause, UnsetOnlyIfIncomplete, MissingOnlyIfTaken
<1> QED BY <1>4, <1>5, <1>6, <1>7 DEF Inv, RegionInv

LEMMA StepKeepsInv == Inv /\ [Next]_vars => Inv'
<1> SUFFICES ASSUME Inv, [Next]_vars
             PROVE  Inv'
  OBVIOUS
<1>1. CASE UNCHANGED vars
  BY <1>1, StutterKeeps
<1>2. CASE ManagerNext /\ UNCHANGED region
  BY <1>2, ManagerKeepsInv
<1>3. ASSUME NEW h \in DOMAIN handles, gff_region_read(h)
      PROVE  Inv'
  BY <1>3, RegionReadKeeps
<1>4. ASSUME NEW h \in DOMAIN handles, gff_region_load(h)
      PROVE  Inv'
  BY <1>4, RegionLoadKeeps
<1>5. CASE region # None /\ gff_manager_load_region_objects
  BY <1>5, LoadObjectsKeeps
<1>6. CASE gff_region_cleanup
  BY <1>6, CleanupKeeps DEF gff_region_cleanup, Idle
<1>7. CASE gff_region_free
  BY <1>7, CleanupKeeps DEF gff_region_free, Idle
<1> QED BY <1>1, <1>2, <1>3, <1>4, <1>5, <1>6, <1>7 DEF Next

------------------------------------------------------------------------------
(* The invariant holds in every state of every behaviour.                  *)
THEOREM RegionsInductive == Spec => []Inv
BY InitInv, StepKeepsInv, PTL DEF Spec

(* Every live handle of the manager is in its slot and in no other, or was *)
(* replaced there by a younger one.                                        *)
THEOREM SlotsOwnTheirHandles == Spec => []SlotsOwnHandles
<1>1. Inv => SlotsOwnHandles
  <2> SUFFICES ASSUME Inv
               PROVE  SlotsOwnHandles
    OBVIOUS
  <2>1. ASSUME man # None, NEW s \in Slot, man[s] # None
        PROVE  man[s] \in Live /\ \A t \in Slot : man[t] = man[s] => t = s
    BY <2>1 DEF Inv, HandlesInv, SlotsInv, Live
  <2>2. \A h \in Live :
           \/ man # None /\ man[handles[h].slot] = h
           \/ \E k \in DOMAIN handles : k > h /\ handles[k].slot = handles[h].slot
    BY DEF Inv, HandlesInv, ReplacedInv, Live
  <2> QED BY <2>1, <2>2 DEF SlotsOwnHandles
<1> QED BY <1>1, RegionsInductive, PTL

(* The variables keep their types, and gff_region_cleanup and              *)
(* gff_region_free never free what is freed already.                       *)
THEOREM NothingFreedTwice == Spec => []FreedOnce
<1>1. Inv => FreedOnce
  BY DEF Inv, FreedOnce, TypeOK, RegionInv, SoundRegion, FaultInv
<1> QED BY <1>1, RegionsInductive, PTL

(* A pointer that is not there is followed only after one of the things    *)
(* that take it away.                                                      *)
THEOREM EveryFaultHasACause == Spec => []FaultsHaveACause
<1>1. Inv => FaultsHaveACause
  BY DEF Inv, FaultInv
<1> QED BY <1>1, RegionsInductive, PTL

(* The objects a region is given are those of its own table, in order.     *)
THEOREM ObjectsAreTheTables == Spec => []ObjectsOfTheTable
<1>1. Inv => ObjectsOfTheTable
  <2> SUFFICES ASSUME Inv, region # None, region.of # None, region.of.gmap = region.id,
                      region.id # MaxRegions, NEW k \in DOMAIN region.objects,
                      region.objects[k].of = region.of,
                      region.objects[k].region_id = region.id
               PROVE  region.objects[k].number = region.table[k]
    BY DEF ObjectsOfTheTable
  <2>1. /\ region.id \in Nat /\ TableOfTheFile(region)
        /\ FromItsTable(region.objects[k], k)
    BY DEF Inv, RegionInv, SoundRegion, RegionFields, ObjectsFromTables
  <2>2. region.of.gmap # None
    BY <2>1
  <2> QED BY <2>1, <2>2 DEF TableOfTheFile, FromItsTable
<1> QED BY <1>1, RegionsInductive, PTL
=============================================================================
