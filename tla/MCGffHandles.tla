---------------------------- MODULE MCGffHandles ----------------------------
(***************************************************************************)
(* Slots, the first reserved for two names as OBJEX_GFF_INDEX is, and      *)
(* handles of the application.                                             *)
(***************************************************************************)
EXTENDS GffHandles

CONSTANT MCPath

MCReserved == [n \in {"segobjex.gff", "objex.gff"} |-> 0]

MCName == MCPath \cup {"a.gff"}
MCRaw == [p \in MCPath |-> p]
MCBase == [p \in MCPath |-> IF p = "D/A.GFF" THEN "a.gff" ELSE p]

MCDisk ==
    [p \in MCPath |-> CASE p = "segobjex.gff" -> [types |-> 1, pals |-> 1]
                        [] p = "D/A.GFF" -> [types |-> 1, pals |-> 0]
                        [] OTHER -> None]
=============================================================================
