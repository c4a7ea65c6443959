------------------------------- MODULE MCItems -------------------------------
(***************************************************************************)
(* Two managers and two variables over a memory of three blocks.  Sizes    *)
(* are scaled down: an entry or a row has two bytes, a name one.           *)
(***************************************************************************)
EXTENDS Items, TLC

CONSTANTS m1, m2, p1, p2, b1, b2, b3

MCManagers == {m1, m2}
MCPointers == {p1, p2}
MCBlocks == {b1, b2, b3}

(* Lengths around the two bytes that are cut from a text, and an odd one.  *)
MCLengths == {0, 1, 2, 4}
MCSizes == {0, 1, 3, 4}

(* A SPIN of two bytes: what it clears is the caller's own variable.       *)
MCSpinLengths == {0, 2}

At(length, there) == [length |-> length, there |-> there]
MCItemFiles ==
    {[it1r |-> At(4, 4), name |-> At(2, 2)],        \* whole
     [it1r |-> At(2, 1), name |-> At(2, 2)],        \* the rows are cut off
     [it1r |-> At(2, 2), name |-> At(4, 3)],        \* the names are
     [it1r |-> At(1, 1), name |-> None]}            \* half a row, no names
MCSpinFiles == {[it1r |-> At(2, 2), name |-> At(2, 2)]}
MCIndices == {-1, 0, 1, 2}

(* Chunks of up to three blocks; CONTAINER and NEXT are passed as DATA is. *)
RdffBlocks == [load_action : {"OBJECT", "DATA", "END"}, type : {"ITEM"}, len : {0, 2}]
              \cup [load_action : {"OBJECT"}, type : R!Types, len : {1}]
MCRdffChunks == UNION {[1 .. n -> RdffBlocks] : n \in 1 .. 3}

(* Scripts of up to four frames, of which the last has a mark.             *)
ScriptFrames == [delay : {1, 3}, last : BOOLEAN, jump : BOOLEAN]
MCScripts == {fs \in UNION {[1 .. n -> ScriptFrames] : n \in 1 .. 3} :
                 fs[Len(fs)].last \/ fs[Len(fs)].jump}

(* Fonts of up to three characters, also one without width, whose pixels   *)
(* have numbers of their own, so that no two can be taken for each other.  *)
MCFontChunks ==
    {[height |-> h, colors |-> [i \in 0 .. 99 |-> i],
      chars |-> [c \in DOMAIN widths |->
                   [width |-> widths[c],
                    data |-> [k \in 1 .. widths[c] * h |-> 20 * (c - 1) + k - 1]]]] :
        h \in 1 .. 3, widths \in UNION {[1 .. n -> 0 .. 2] : n \in 1 .. 3}}

(* Blocks are alike, and so are the variables they are loaded into.        *)
Alike == Permutations(MCBlocks) \cup Permutations(MCPointers)

(* A lost block, and what was only asked, end the search there: neither is *)
(* looked at again.                                                        *)
NothingLost ==
    /\ \A b \in Blocks : heap[b] # None => Held(b)
    /\ answer.kind \notin {"object", "delay", "sheet"}

(* What a failed load leaves in a variable is never looked at.             *)
Seen == <<heap, [p \in Pointers |-> IF ptr[p].ok THEN ptr[p] ELSE NothingLoaded[p]],
          call, file, table, answer>>
==============================================================================
