-------------------------------- MODULE Scmd --------------------------------
(***************************************************************************)
(* The scripts of frames that animate an object.  A frame has a delay and  *)
(* flags; SCMD_LAST ends a script, SCMD_JUMP leads back to its first       *)
(* frame.  Whoever plays a script asks gff_scmd_next_pos after each frame. *)
(***************************************************************************)
EXTENDS Integers, Sequences

------------------------------------------------------------------------------
Frames == [delay : Nat, last : BOOLEAN, jump : BOOLEAN]

(* Positions count from 0.                                                 *)
gff_scmd_next_pos(frames, pos) ==
    LET f == frames[pos + 1]
    IN  IF f.last THEN pos ELSE IF f.jump THEN 0 ELSE pos + 1

(* The while loop, up to the first frame that has a mark.                  *)
Waited(frames, pos) ==
    LET wait[n \in 0 .. Len(frames)] ==
          IF n = 0 THEN [at |-> pos, sum |-> 0]
          ELSE LET s == wait[n - 1]
                   f == frames[s.at + 1]
               IN  IF f.last \/ f.jump THEN s
                   ELSE [at |-> s.at + 1, sum |-> s.sum + f.delay]
    IN  wait

(* Mutant: the frame that ends the walk is not waited for.                 *)
DelayBefore(frames, pos) ==
    LET end == Waited(frames, pos)[Len(frames)]
    IN  IF frames[end.at + 1].jump THEN -1 ELSE end.sum
gff_scmd_total_delay(frames, pos) ==
    LET end == Waited(frames, pos)[Len(frames)]
        f == frames[end.at + 1]
    IN  IF f.jump THEN -1 ELSE end.sum + f.delay

------------------------------------------------------------------------------
(* Playing from pos on: the delay that has passed before each step.        *)
Played(frames, pos, steps) ==
    LET play[n \in 0 .. steps] ==
          IF n = 0 THEN [at |-> pos, passed |-> 0]
          ELSE LET f == play[n - 1]
               IN  [at |-> gff_scmd_next_pos(frames, f.at),
                    passed |-> f.passed + frames[f.at + 1].delay]
    IN  play
==============================================================================
