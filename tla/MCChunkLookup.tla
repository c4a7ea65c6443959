--------------------------- MODULE MCChunkLookup ---------------------------
(***************************************************************************)
(* Every directory with up to three ascending runs of one or two ids below *)
(* MaxFirst + 2 in one segmented type, a second segmented type with a table*)
(* of its own, and an ordinary type; and directories without a segmented   *)
(* type, to which chunks can be added.                                     *)
(***************************************************************************)
EXTENDS ChunkLookup

CONSTANT MaxFirst

Run == [first : 1 .. MaxFirst, num : 1 .. 2]

RunSeqs == {r \in BoundedSeq(Run, 3) : Ascending(r)}

Rows(n, from) == [k \in 1 .. n |-> [location |-> from + k, length |-> k]]

File(r) ==
    [types |-> {"GFFI", "TILE", "WALL", "CHAR"},
     chunks |-> [t \in Ordinary |->
                   CASE t = "GFFI" -> <<[id |-> 0, location |-> 50, length |-> 8],
                                        [id |-> 1, location |-> 58, length |-> 8]>>
                     [] t = "CHAR" -> <<[id |-> 3, location |-> 99, length |-> 1]>>
                     [] OTHER -> <<>>],
     runs |-> [t \in {"TILE", "WALL"} |->
                 IF t = "TILE" THEN r ELSE <<[first |-> 2, num |-> 2]>>],
     table |-> [t \in {"TILE", "WALL"} |-> IF t = "TILE" THEN 2 ELSE 1],
     gffi |-> <<Rows(2, 20),
                Rows(MapThenSumSet(LAMBDA j : r[j].num, DOMAIN r), 30)>>]

(* A directory without a segmented type, with n of the ids 3 and 4.        *)
Plain(n) ==
    [types |-> {"GFFI", "CHAR"},
     chunks |-> [t \in Ordinary |->
                   IF t = "CHAR" THEN [k \in 1 .. n |-> [id |-> 2 + k, location |-> 90 + k, length |-> k]]
                                 ELSE <<>>],
     runs |-> [t \in {"TILE", "WALL"} |-> <<>>],
     table |-> [t \in {"TILE", "WALL"} |-> 1],
     gffi |-> << <<>> >>]

MCFiles == {File(r) : r \in RunSeqs} \cup {Plain(n) : n \in 0 .. 2}
============================================================================
