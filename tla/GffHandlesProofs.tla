-------------------------- MODULE GffHandlesProofs --------------------------
(***************************************************************************)
(* What GffHandles checks on two handles holds for any table and any       *)
(* number of files: palette ids are never given out twice, and a handle    *)
(* with a FILE has the directory its num_types promises.                   *)
(***************************************************************************)
EXTENDS GffHandles, TLAPS

(* A range of ids ends where the next one begins or before.                *)
Behind(g, k) == g.start + g.count <= k.start

(* The ranges of two handles, in the form arithmetic can use.              *)
RangesApart ==
    \A h, k \in Handle : h # k =>
       \/ gff[h].count = 0 \/ gff[k].count = 0
       \/ Behind(gff[h], gff[k]) \/ Behind(gff[k], gff[h])

(* The inductive invariant.  IdsBelowCounter is what keeps a new range     *)
(* apart from the old ones; the palettes gff_open counts are those of the  *)
(* directory, so it also needs TypesHaveEntries.                           *)
Inv ==
    /\ TypeOK /\ TypesHaveEntries /\ NamedIsOpen
    /\ IdsBelowCounter /\ RangesApart

USE BoundsAssumption, DiskAssumption

(* What the invariant says of one handle.                                  *)
Sound(g) ==
    /\ g \in Fields
    /\ g.file # None /\ g.num_types > 0 =>
          g.dir # None /\ g.num_types <= g.dir.types
    /\ g.filename # None => g.file # None

(* A handle without ids disturbs no other range.                           *)
LEMMA ZeroedSound == Sound(Zeroed) /\ Zeroed.start = 0 /\ Zeroed.count = 0
BY DEF Sound, Zeroed, Fields

LEMMA InvOfHandles ==
    ASSUME Inv
    PROVE  \A h \in Handle :
              /\ Sound(gff[h])
              /\ gff[h].start \in Nat /\ gff[h].count \in Nat
              /\ gff[h].start + gff[h].count <= num_palettes
BY DEF Inv, TypeOK, TypesHaveEntries, NamedIsOpen, IdsBelowCounter, Sound, Fields

(* A step that changes at most one handle, and leaves its ids or takes     *)
(* them away, keeps the invariant.                                         *)
LEMMA OneHandle ==
    ASSUME Inv, NEW h, NEW g, Sound(g),
           h \in Handle => (\/ g.count = 0 /\ g.start = 0
                            \/ g.count = gff[h].count /\ g.start = gff[h].start),
           gff' = [k \in Handle |-> IF k = h THEN g ELSE gff[k]],
           live' \subseteq Handle,
           disk' \in [Path -> File \cup {None}],
           num_palettes' \in Nat, num_palettes' >= num_palettes
    PROVE  Inv'
<1>1. \A k \in Handle : gff'[k] = IF k = h THEN g ELSE gff[k]
  OBVIOUS
<1>2. \A k \in Handle : Sound(gff'[k])
  BY <1>1, InvOfHandles
<1>3. \A k \in Handle :
         /\ gff'[k].start \in Nat /\ gff'[k].count \in Nat
         /\ \/ gff'[k].count = 0 /\ gff'[k].start = 0
            \/ gff'[k].count = gff[k].count /\ gff'[k].start = gff[k].start
  BY <1>1, InvOfHandles
<1>4. TypeOK' /\ TypesHaveEntries' /\ NamedIsOpen'
  BY <1>2 DEF TypeOK, TypesHaveEntries, NamedIsOpen, Sound, Inv
<1>5. IdsBelowCounter'
  BY <1>3, InvOfHandles DEF IdsBelowCounter, Inv, TypeOK
<1>6. RangesApart'
  <2>1. SUFFICES ASSUME NEW j \in Handle, NEW k \in Handle, j # k
                 PROVE  \/ gff'[j].count = 0 \/ gff'[k].count = 0
                        \/ Behind(gff'[j], gff'[k]) \/ Behind(gff'[k], gff'[j])
    BY DEF RangesApart, Behind
  <2>2. \/ gff[j].count = 0 \/ gff[k].count = 0
        \/ Behind(gff[j], gff[k]) \/ Behind(gff[k], gff[j])
    BY <2>1 DEF Inv, RangesApart
  <2> QED BY <1>3, <2>1, <2>2 DEF Behind
<1> QED BY <1>4, <1>5, <1>6 DEF Inv

LEMMA SlotsAreHandles == Slot \subseteq Handle /\ Own \subseteq Handle /\ NoSlot \notin Handle
BY NamesAssumption DEF Slot, Handle, NoSlot

LEMMA InitInv == Init => Inv
<1> SUFFICES ASSUME Init PROVE Inv
  OBVIOUS
<1>1. \A h \in Handle : gff[h] = Zeroed
  BY DEF Init
<1>2. TypeOK
  BY ZeroedSound, SlotsAreHandles DEF Init, TypeOK, Sound
<1>3. TypesHaveEntries /\ NamedIsOpen
  BY <1>1, ZeroedSound DEF TypesHaveEntries, NamedIsOpen, Sound
<1>4. IdsBelowCounter /\ RangesApart
  BY <1>1, ZeroedSound DEF Init, IdsBelowCounter, RangesApart
<1> QED BY <1>2, <1>3, <1>4 DEF Inv

(* The palettes a sound handle counts.                                     *)
LEMMA ListedIsNat ==
    ASSUME NEW g, Sound(g), g.file # None
    PROVE  Listed(g) \in Nat
BY DEF Sound, Listed, Fields, File

LEMMA PalsReadType ==
    ASSUME NEW g, Sound(g)
    PROVE  /\ PalsRead(g) \in Pals \cup {None}
           /\ g.file # None => PalsRead(g) \in Pals \/ g.pals = PalsRead(g)
           /\ g.file # None /\ PalsRead(g) # None => PalsRead(g).len \in Nat
<1>1. g.pals \in Pals \cup {None} /\ g.file \in Path \cup {None}
  BY DEF Sound, Fields
<1>2. CASE g.pals # None
  BY <1>1, <1>2 DEF PalsRead, Pals
<1>3. CASE g.pals = None /\ g.file = None
  BY <1>3 DEF PalsRead
<1>4. CASE g.pals = None /\ g.file # None
  <2>1. [of |-> g.file, len |-> Listed(g)] \in Pals
    BY <1>1, <1>4, ListedIsNat DEF Pals
  <2> QED BY <1>4, <2>1 DEF PalsRead, Pals
<1> QED BY <1>2, <1>3, <1>4

LEMMA OpenInv ==
    ASSUME Inv, NEW h \in Handle, NEW p \in Path, gff_open(h, p)
    PROVE  Inv'
<1> DEFINE g == Reading(gff[h], p)
           read == PalsRead(g)
           new == Counted(g, read)
<1>1. disk[p] \in File /\ num_palettes \in Nat /\ Base[p] \in Name
  BY NamesAssumption DEF Inv, TypeOK, gff_open
<1>2. Sound(g) /\ g.file = p /\ p # None /\ g.start = num_palettes
  BY <1>1, InvOfHandles DEF Reading, Sound, Fields, File
<1>3. read # None
  <2>1. [of |-> p, len |-> Listed(g)] \in Pals
    BY <1>2, ListedIsNat DEF Pals
  <2> QED BY <1>2, <2>1 DEF PalsRead
<1>4. read \in Pals /\ read.len \in Nat
  <2> HIDE DEF g
  <2> QED BY <1>2, <1>3, PalsReadType DEF Pals
<1>5. /\ Sound(new) /\ new.start = num_palettes /\ new.count = read.len
  <2> HIDE DEF read, g
  <2>1. g \in Fields
    BY <1>2 DEF Sound
  <2>2. new \in Fields
    BY <2>1, <1>4 DEF Fields, Counted
  <2>3. /\ new.file = g.file /\ new.filename = g.filename /\ new.num_types = g.num_types
        /\ new.dir = g.dir /\ new.start = g.start /\ new.count = read.len
    BY <2>1 DEF Fields, Counted
  <2> QED BY <1>2, <2>2, <2>3 DEF Sound
<1>6. gff' = [k \in Handle |-> IF k = h THEN new ELSE gff[k]]
  BY DEF gff_open, Inv, TypeOK
<1>7. num_palettes' = num_palettes + read.len /\ UNCHANGED <<live, disk>>
  BY DEF gff_open
<1> HIDE DEF g, read, new
<1>8. \A k \in Handle : Sound(gff'[k])
  BY <1>5, <1>6, InvOfHandles
<1>9. TypeOK' /\ TypesHaveEntries' /\ NamedIsOpen'
  BY <1>1, <1>4, <1>6, <1>7, <1>8
     DEF TypeOK, TypesHaveEntries, NamedIsOpen, Sound, Inv
<1>10. IdsBelowCounter'
  BY <1>1, <1>4, <1>5, <1>6, <1>7, InvOfHandles DEF IdsBelowCounter
<1>11. RangesApart'
  <2>1. SUFFICES ASSUME NEW j \in Handle, NEW k \in Handle, j # k
                 PROVE  \/ gff'[j].count = 0 \/ gff'[k].count = 0
                        \/ Behind(gff'[j], gff'[k]) \/ Behind(gff'[k], gff'[j])
    BY DEF RangesApart, Behind
  <2>2. CASE j = h
    <3>1. Behind(gff'[k], gff'[j])
      BY <1>5, <1>6, <2>1, <2>2, InvOfHandles DEF Behind
    <3> QED BY <3>1
  <2>3. CASE k = h
    <3>1. Behind(gff'[j], gff'[k])
      BY <1>5, <1>6, <2>1, <2>3, InvOfHandles DEF Behind
    <3> QED BY <3>1
  <2>4. CASE j # h /\ k # h
    BY <1>6, <2>1, <2>4 DEF Inv, RangesApart
  <2> QED BY <2>2, <2>3, <2>4
<1> QED BY <1>9, <1>10, <1>11 DEF Inv

LEMMA NextInv == Inv /\ [Next]_vars => Inv'
<1> SUFFICES ASSUME Inv, [Next]_vars PROVE Inv'
  OBVIOUS
<1> USE DEF Inv
<1>0. TypeOK /\ num_palettes \in Nat
  BY DEF TypeOK
<1>1. ASSUME NEW h \in Handle, gff_allocate(h) PROVE Inv'
  <2>1. gff' = [k \in Handle |-> IF k = h THEN Zeroed ELSE gff[k]]
    BY <1>1 DEF gff_allocate, TypeOK
  <2>2. /\ live' \subseteq Handle /\ num_palettes' = num_palettes
        /\ disk' \in [Path -> File \cup {None}]
    BY <1>1 DEF gff_allocate, TypeOK
  <2> QED BY <1>0, <2>1, <2>2, ZeroedSound, OneHandle
<1>2. ASSUME NEW h \in Handle, gff_init(h) PROVE Inv'
  <2>1. gff' = [k \in Handle |-> IF k = h THEN Zeroed ELSE gff[k]]
    BY <1>2 DEF gff_init, TypeOK
  <2>2. /\ live' \subseteq Handle /\ num_palettes' = num_palettes
        /\ disk' \in [Path -> File \cup {None}]
    BY <1>2 DEF gff_init, TypeOK
  <2> QED BY <1>0, <2>1, <2>2, ZeroedSound, OneHandle
<1>3. ASSUME NEW h \in Handle, gff_free(h) PROVE Inv'
  <2>1. gff' = [k \in Handle |-> IF k = h THEN Zeroed ELSE gff[k]]
    BY <1>3 DEF gff_free, TypeOK
  <2>2. /\ live' \subseteq Handle /\ num_palettes' = num_palettes
        /\ disk' \in [Path -> File \cup {None}]
    BY <1>3 DEF gff_free, TypeOK
  <2> QED BY <1>0, <2>1, <2>2, ZeroedSound, OneHandle
<1>4. ASSUME NEW h \in Handle, gff_close(h) PROVE Inv'
  <2> DEFINE g == [gff[h] EXCEPT !.file = None, !.filename = None, !.dir = None]
  <2>1. gff' = [k \in Handle |-> IF k = h THEN g ELSE gff[k]]
    BY <1>4 DEF gff_close, TypeOK
  <2>2. Sound(g) /\ g.count = gff[h].count /\ g.start = gff[h].start
    BY InvOfHandles DEF Sound, Fields
  <2>3. /\ live' \subseteq Handle /\ num_palettes' = num_palettes
        /\ disk' \in [Path -> File \cup {None}]
    BY <1>4 DEF gff_close, TypeOK
  <2> HIDE DEF g
  <2> QED BY <1>0, <2>1, <2>2, <2>3, OneHandle
<1>5. ASSUME NEW h \in Handle, gff_palettes_read(h) PROVE Inv'
  <2> DEFINE g == [gff[h] EXCEPT !.pals = PalsRead(gff[h])]
  <2>1. gff' = [k \in Handle |-> IF k = h THEN g ELSE gff[k]]
    BY <1>5 DEF gff_palettes_read, TypeOK
  <2>2. Sound(g) /\ g.count = gff[h].count /\ g.start = gff[h].start
    BY InvOfHandles, PalsReadType DEF Sound, Fields
  <2>3. /\ live' \subseteq Handle /\ num_palettes' = num_palettes
        /\ disk' \in [Path -> File \cup {None}]
    BY <1>5 DEF gff_palettes_read, TypeOK
  <2> HIDE DEF g
  <2> QED BY <1>0, <2>1, <2>2, <2>3, OneHandle
<1>6. ASSUME NEW h \in Handle, gff_palettes_free(h) PROVE Inv'
  <2> DEFINE g == [gff[h] EXCEPT !.pals = None]
  <2>1. gff' = [k \in Handle |-> IF k = h THEN g ELSE gff[k]]
    BY <1>6 DEF gff_palettes_free, TypeOK
  <2>2. Sound(g) /\ g.count = gff[h].count /\ g.start = gff[h].start
    BY InvOfHandles DEF Sound, Fields
  <2>3. /\ live' \subseteq Handle /\ num_palettes' = num_palettes
        /\ disk' \in [Path -> File \cup {None}]
    BY <1>6 DEF gff_palettes_free, TypeOK
  <2> HIDE DEF g
  <2> QED BY <1>0, <2>1, <2>2, <2>3, OneHandle
<1>7. ASSUME NEW p \in Path, gff_create(p) PROVE Inv'
  <2> DEFINE i == NextIndex(Raw[p])
             g == [gff[i] EXCEPT !.file = p, !.num_types = 0, !.pals = None]
  <2>1. disk' \in [Path -> File \cup {None}]
    BY <1>0, <1>7 DEF gff_create, TypeOK, File, Empty
  <2>2. gff' = [k \in Handle |-> IF k = i THEN g ELSE gff[k]]
    <3>1. gff' = [k \in Handle |->
                    IF k = NextIndex(Raw[p])
                    THEN [gff[NextIndex(Raw[p])] EXCEPT !.file = p, !.num_types = 0,
                                                        !.pals = None]
                    ELSE gff[k]]
      BY <1>7, Zenon DEF gff_create
    <3> QED BY <3>1, Zenon
  <2>5. live' \subseteq Handle /\ num_palettes' = num_palettes
    BY <1>7 DEF gff_create, TypeOK
  <2>3. CASE i \in Handle
    <3> HIDE DEF i
    <3>1. Sound(g) /\ g.count = gff[i].count /\ g.start = gff[i].start
      <4>1. gff[i] \in Fields
        BY <2>3, InvOfHandles DEF Sound
      <4>2. /\ g.file = p /\ g.num_types = 0 /\ g.filename = gff[i].filename
            /\ g.start = gff[i].start /\ g.count = gff[i].count
        BY <4>1 DEF Fields
      <4>3. g \in Fields
        BY <4>1 DEF Fields
      <4> QED BY <4>2, <4>3 DEF Sound
    <3> HIDE DEF g
    <3> QED BY <1>0, <2>1, <2>2, <2>5, <3>1, OneHandle
  <2>4. CASE i \notin Handle
    <3>1. gff' = [k \in Handle |-> IF k = i THEN Zeroed ELSE gff[k]]
      BY <2>2, <2>4
    <3> HIDE DEF i, g
    <3> QED BY <1>0, <2>1, <2>4, <2>5, <3>1, ZeroedSound, OneHandle
  <2> QED BY <2>3, <2>4
<1>8. ASSUME NEW i \in Slot, NEW dir \in File, gff[i].file # None,
             \/ gff' = [gff EXCEPT ![i].num_types = dir.types, ![i].dir = dir]
             \/ /\ gff' = [gff EXCEPT ![i].dir = dir]
                /\ dir.types = gff[i].num_types,
             disk' = [disk EXCEPT ![gff[i].file] = dir],
             UNCHANGED <<live, num_palettes>>
      PROVE  Inv'
  <2> DEFINE g == [gff[i] EXCEPT !.num_types = dir.types, !.dir = dir]
  <2>0. i \in Handle /\ gff[i] \in Fields
    BY InvOfHandles, SlotsAreHandles DEF Sound
  <2>1. gff' = [k \in Handle |-> IF k = i THEN g ELSE gff[k]]
    <3>1. CASE gff' = [gff EXCEPT ![i].num_types = dir.types, ![i].dir = dir]
      BY <2>0, <3>1 DEF TypeOK
    <3>2. CASE gff' = [gff EXCEPT ![i].dir = dir] /\ dir.types = gff[i].num_types
      <4>1. g = [gff[i] EXCEPT !.dir = dir]
        BY <2>0, <3>2 DEF Fields
      <4> QED BY <2>0, <3>2, <4>1 DEF TypeOK
    <3> QED BY <1>8, <3>1, <3>2
  <2>2. Sound(g) /\ g.count = gff[i].count /\ g.start = gff[i].start
    <3>1. /\ g.num_types = dir.types /\ g.dir = dir
          /\ g.file = gff[i].file /\ g.filename = gff[i].filename
          /\ g.start = gff[i].start /\ g.count = gff[i].count
      BY <2>0 DEF Fields
    <3>2. g \in Fields
      BY <2>0 DEF Fields, File
    <3>3. dir # None /\ dir.types \in Nat
      BY DEF File
    <3> QED BY <1>8, <3>1, <3>2, <3>3 DEF Sound
  <2>3. disk' \in [Path -> File \cup {None}]
    BY <1>8 DEF TypeOK
  <2>4. live' \subseteq Handle /\ num_palettes' = num_palettes
    BY <1>8 DEF TypeOK
  <2> HIDE DEF g
  <2> QED BY <1>0, <2>0, <2>1, <2>2, <2>3, <2>4, OneHandle
<1>9. ASSUME NEW i \in Slot, gff_add_type(i) PROVE Inv'
  <2> DEFINE dir == [types |-> gff[i].num_types + 1, pals |-> Listed(gff[i])]
  <2>1. Listed(gff[i]) \in Nat /\ gff[i].num_types \in Nat
    BY <1>9, InvOfHandles, SlotsAreHandles, ListedIsNat DEF gff_add_type, Sound, Fields
  <2>2. dir \in File /\ dir.types = gff[i].num_types + 1
    BY <2>1 DEF File
  <2>3. /\ gff[i].file # None
        /\ gff' = [gff EXCEPT ![i].num_types = dir.types, ![i].dir = dir]
        /\ disk' = [disk EXCEPT ![gff[i].file] = dir]
        /\ UNCHANGED <<live, num_palettes>>
    BY <1>9 DEF gff_add_type
  <2> HIDE DEF dir
  <2> QED BY <1>8, <2>2, <2>3
<1>10. ASSUME NEW i \in Slot, gff_add_chunk(i) PROVE Inv'
  <2> DEFINE dir == [types |-> gff[i].num_types, pals |-> Listed(gff[i]) + 1]
  <2>1. Listed(gff[i]) \in Nat /\ gff[i].num_types \in Nat
    BY <1>10, InvOfHandles, SlotsAreHandles, ListedIsNat DEF gff_add_chunk, Sound, Fields
  <2>2. dir \in File /\ dir.types = gff[i].num_types
    BY <2>1 DEF File
  <2>3. /\ gff[i].file # None
        /\ gff' = [gff EXCEPT ![i].dir = dir]
        /\ disk' = [disk EXCEPT ![gff[i].file] = dir]
        /\ UNCHANGED <<live, num_palettes>>
    BY <1>10 DEF gff_add_chunk
  <2> HIDE DEF dir
  <2> QED BY <1>8, <2>2, <2>3
<1>11. ASSUME NEW n \in 1 .. MaxPals, gff_load_directory(n) PROVE Inv'
  <2>1. gff' = [k \in Handle |-> IF k = NoSlot THEN Zeroed ELSE gff[k]]
    BY <1>11, SlotsAreHandles DEF gff_load_directory, TypeOK
  <2>2. /\ live' \subseteq Handle /\ disk' \in [Path -> File \cup {None}]
        /\ num_palettes' \in Nat /\ num_palettes' >= num_palettes
    BY <1>0, <1>11 DEF gff_load_directory, TypeOK
  <2> QED BY <2>1, <2>2, SlotsAreHandles, ZeroedSound, OneHandle
<1>12. CASE UNCHANGED vars
  BY <1>12 DEF vars, TypeOK, TypesHaveEntries, NamedIsOpen, IdsBelowCounter, RangesApart, Behind
<1> QED
  BY <1>1, <1>2, <1>3, <1>4, <1>5, <1>6, <1>7, <1>9, <1>10, <1>11, <1>12, OpenInv DEF Next

LEMMA InvAlways == Spec => []Inv
BY InitInv, NextInv, PTL DEF Spec

(* The fields of every handle keep their types.                            *)
THEOREM HandlesTypeCorrect == Spec => []TypeOK
<1>1. Inv => TypeOK
  BY DEF Inv
<1> QED BY <1>1, InvAlways, PTL

(* No palette id is ever answered for two handles.                         *)
THEOREM PaletteIdsNeverShared == Spec => []PaletteIdsDisjoint
<1>1. Inv => PaletteIdsDisjoint
  <2>1. SUFFICES ASSUME Inv, NEW h \in Handle, NEW k \in Handle, h # k
                 PROVE  Ids(gff[h]) \cap Ids(gff[k]) = {}
    BY DEF PaletteIdsDisjoint
  <2>2. /\ gff[h].start \in Nat /\ gff[h].count \in Nat
        /\ gff[k].start \in Nat /\ gff[k].count \in Nat
    BY <2>1, InvOfHandles
  <2>3. \/ gff[h].count = 0 \/ gff[k].count = 0
        \/ Behind(gff[h], gff[k]) \/ Behind(gff[k], gff[h])
    BY <2>1 DEF Inv, RangesApart
  <2> QED BY <2>2, <2>3 DEF Ids, Behind
<1> QED BY <1>1, InvAlways, PTL

(* Nobody who checks the FILE follows a chunk list that is not there.      *)
THEOREM DirectoryIsThere == Spec => []TypesHaveEntries
<1>1. Inv => TypesHaveEntries
  BY DEF Inv
<1> QED BY <1>1, InvAlways, PTL

(* A handle that a name leads to has a FILE: gff_find_index never answers  *)
(* with a handle gff_close has emptied or gff_open has given up.           *)
THEOREM NamesLeadToFiles == Spec => []NamedIsOpen
<1>1. Inv => NamedIsOpen
  BY DEF Inv
<1> QED BY <1>1, InvAlways, PTL
=============================================================================
