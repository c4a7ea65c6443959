---------------------------- MODULE MCGffWriter ----------------------------
(***************************************************************************)
(* Instances of GffWriter for TLC.  Payloads shorter and longer than the   *)
(* table-of-contents header, and an empty one; an existing file with one   *)
(* chunk, a free list and its table of contents at the end.                *)
(***************************************************************************)
EXTENDS GffWriter

MCLength == [p \in Payload |-> CASE p = "empty" -> 0
                                 [] p = "tiny" -> 2
                                 [] p = "small" -> 2
                                 [] p = "large" -> 50]

One(t) == [type |-> t, id |-> 1, location |-> HeaderLen, length |-> 2]

(* A file of type CACT with chunk 1 and a free list of four bytes.         *)
TocLast ==
    LET c == One("CACT")
    IN  [gff |-> [NoGff EXCEPT !.toc_location = 30, !.toc_length = 34,
                               !.free_list_offset = 30,
                               !.types = {"CACT"}, !.chunks = {c}],
         payload |-> [x \in {c} |-> "tiny"],
         size |-> 64]

(* Its table of contents first, and the chunk behind it.                   *)
TocFirst ==
    LET c == [One("CACT") EXCEPT !.location = 58]
    IN  [gff |-> [NoGff EXCEPT !.toc_location = HeaderLen, !.toc_length = 30,
                               !.free_list_offset = 30,
                               !.types = {"CACT"}, !.chunks = {c}],
         payload |-> [x \in {c} |-> "tiny"],
         size |-> 60]

(* A segmented type, whose lists write_toc cannot write, beside an         *)
(* ordinary one that has no chunk yet.                                     *)
Segmented ==
    [gff |-> [NoGff EXCEPT !.toc_location = 30, !.toc_length = 46,
                           !.free_list_offset = 46,
                           !.types = {"CACT", "TILE"}, !.seg = {"TILE"}],
     payload |-> [x \in {} |-> "tiny"],
     size |-> 76]

MCTocLast == {TocLast}
MCTocFirst == {TocFirst}
MCExisting == {TocLast, Segmented}
============================================================================
