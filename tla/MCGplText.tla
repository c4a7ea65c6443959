----------------------------- MODULE MCGplText -----------------------------
(***************************************************************************)
(* Every text of up to nine codes from three: two with alternating bits    *)
(* and one that is not printable.  The reader's buffer holds nine.         *)
(***************************************************************************)
EXTENDS GplText, SequencesExt

MCTexts == BoundedSeq({42, 85, 9}, 9)
=============================================================================
