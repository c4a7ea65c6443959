-------------------------------- MODULE Rdff --------------------------------
(***************************************************************************)
(* The blocks an RDFF chunk is made of, and how gff_rdff_to_object walks   *)
(* them to fill an object.  Memory is a sequence of cells: each block has  *)
(* one cell for its header, and as many for its data as the header's len   *)
(* says.                                                                   *)
(***************************************************************************)
EXTENDS Integers, Sequences

CONSTANT None

(* A block: its load_action, the type of the object, and len.              *)
Actions == {"OBJECT", "CONTAINER", "DATA", "NEXT", "END"}
Types == {"COMBAT", "ITEM", "CHAR", "MINI", "other"}

ChunkBlocks == [load_action : Actions, type : Types, len : Nat]

(* The cells of a chunk: headers, and data that belongs to a block.        *)
Laid(blocks) ==
    LET laid[n \in 0 .. Len(blocks)] ==
          IF n = 0 THEN <<>>
          ELSE Append(laid[n - 1], [block |-> n, header |-> TRUE])
                 \o [k \in 1 .. blocks[n].len |-> [block |-> n, header |-> FALSE]]
    IN  laid
Cells(blocks) == Laid(blocks)[Len(blocks)]

------------------------------------------------------------------------------
(* From one header to the next.  Mutant: the data is not stepped over.     *)
HeaderOnly(blocks, cells, pos) == pos + 1
NextHeader(blocks, cells, pos) == pos + 1 + blocks[cells[pos].block].len

(* What stands where entry points: a block's load_action, or nothing that  *)
(* was meant as a header.                                                  *)
ActionAt(blocks, cells, pos) ==
    IF pos \in DOMAIN cells /\ cells[pos].header
    THEN blocks[cells[pos].block].load_action
    ELSE "beyond"

(* The while loop: it stops at an OBJECT and at the mark, and is not       *)
(* followed where it leaves the blocks, which have no mark then.           *)
Walk(blocks, cells) ==
    LET entry[n \in 0 .. Len(cells)] ==
          IF n = 0 THEN 1
          ELSE IF ActionAt(blocks, cells, entry[n - 1]) \in {"OBJECT", "END", "beyond"}
               THEN entry[n - 1]
               ELSE NextHeader(blocks, cells, entry[n - 1])
    IN  entry

(* fill_object: what it does with each type; CHAR ends the process.        *)
fill_object(type) ==
    CASE type \in {"COMBAT", "ITEM"} -> "success"
      [] type = "CHAR" -> "exit"
      [] OTHER -> "failure"

(* data stands behind the first header whatever entry has come to.         *)
gff_rdff_to_object(blocks) ==
    LET cells == Cells(blocks)
        entry == Walk(blocks, cells)[Len(cells)]
        type == blocks[cells[entry].block].type
        data == IF Len(cells) > 1 THEN cells[2].block ELSE 0
    IN  CASE ActionAt(blocks, cells, entry) = "OBJECT" ->
               [status |-> fill_object(type), type |-> type, from |-> data]
          [] ActionAt(blocks, cells, entry) = "END" ->
               [status |-> "failure", type |-> None, from |-> None]
          [] OTHER -> [status |-> "beyond", type |-> None, from |-> None]

(* gff_item_read looks for RDFF_OBJECT, which is 1, in the header's type,  *)
(* where 1 says ITEM; a chunk too short leaves the rest of the structure   *)
(* as it was.                                                              *)
gff_item_read(whole, type) == whole /\ type = "ITEM"
==============================================================================
