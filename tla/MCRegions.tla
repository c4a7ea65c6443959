----------------------------- MODULE MCRegions -----------------------------
(***************************************************************************)
(* Two region files with the same number, one for the wild region and one  *)
(* that is in its place, one whose number is too large, and segobjex; and  *)
(* files that lack one thing or another.                                   *)
(***************************************************************************)
EXTENDS Regions, TLC

Good == [etab |-> (1 :> <<11, 12>>), gmap |-> 1, mapped |-> TRUE, rmap |-> "fits",
         objects |-> <<>>, scripts |-> {}]
Other == [Good EXCEPT !.etab = (1 :> <<12>> @@ 2 :> <<11>>)]
Elsewhere == [Other EXCEPT !.gmap = 2]
NoMap == [Good EXCEPT !.gmap = None]
NoTiles == [Good EXCEPT !.rmap = "none"]
TooLong == [Good EXCEPT !.rmap = "long"]
NoObjects == [Good EXCEPT !.etab = (1 :> <<>>)]
Unmapped == [Good EXCEPT !.mapped = FALSE]
Objects == [etab |-> <<>>, gmap |-> None, mapped |-> FALSE, rmap |-> "none",
            objects |-> (11 :> 0 @@ 12 :> 5), scripts |-> {5}]
NoScript == [Objects EXCEPT !.scripts = {}]

MCSegobjex == -1
MCCore == {MCSegobjex}

MCFiles == {Good, Other, Elsewhere, NoMap, NoTiles, TooLong, NoObjects, Unmapped, Objects, NoScript}

MCReopened == {Other}

MCNames == "RGN1.GFF" :> 1 @@ "RGN01.GFF" :> 1 @@ "RGN2.GFF" :> 2 @@ "RGNFF.GFF" :> 255
             @@ "RGN3.GFF" :> 3 @@ "SEGOBJEX.GFF" :> -1

MCGames ==
    { "RGN1.GFF" :> Good @@ "SEGOBJEX.GFF" :> Objects,
      "RGN1.GFF" :> Elsewhere @@ "SEGOBJEX.GFF" :> NoScript,
      "RGN1.GFF" :> NoObjects @@ "RGN01.GFF" :> NoMap,
      "RGN2.GFF" :> Unmapped @@ "RGNFF.GFF" :> Good,
      "RGN3.GFF" :> Good @@ "RGN1.GFF" :> NoTiles,
      "RGN01.GFF" :> TooLong @@ "RGN1.GFF" :> None }
=============================================================================
