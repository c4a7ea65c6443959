------------------------------ MODULE GplText ------------------------------
(***************************************************************************)
(* read_compressed of src/src/gpl/string.c: the loop that unpacks a text   *)
(* from a script.  A step is one turn of the loop, with the byte it may    *)
(* fetch.  The text was packed by the script's writer; another byte of the *)
(* script follows it.                                                      *)
(***************************************************************************)
EXTENDS GplPacking

CONSTANT Texts              \* texts the script's writer may have packed

ASSUME TextsAssumption == Texts \subseteq Seq((0 .. 127) \ {EndMark})

VARIABLES
    written,                \* the text that was packed
    packed,                 \* the bytes of the script from the text on
    cursor,                 \* bytes fetched: gpl->gpl
    i, idx, buffer,         \* the locals of read_compressed
    string,                 \* gff_gpl_global_string
    phase                   \* "read", or "done" once it has returned

textVars == <<written, packed, cursor, i, idx, buffer, string, phase>>

NextCommand == 21           \* the byte of the script behind the text

TextInit ==
    /\ written \in Texts
    /\ packed = Append(Pack(Append(written, EndMark)), NextCommand)
    /\ cursor = 0
    /\ i = 0
    /\ idx = 1
    /\ buffer = 0
    /\ string = <<>>
    /\ phase = "read"

(* The 16-bit buffer and the cursor once a turn has fetched its byte: a    *)
(* turn with idx 0 takes the seven low bits the last fetch has left.       *)
Fetched == IF idx > 0 THEN ((256 * buffer) % 65536) + ByteAt(packed, cursor) ELSE buffer

(* Mutant: the window is not shifted.                                      *)
Inword_unshifted == Fetched % 128

Inword == (Fetched \div 2^idx) % 128

Turn(room, last) ==
    /\ phase = "read"
    /\ i < room
    /\ cursor' = IF idx > 0 THEN cursor + 1 ELSE cursor
    /\ buffer' = Fetched
    /\ IF Inword = EndMark
       THEN /\ phase' = "done"
            /\ UNCHANGED <<i, idx, string>>
       ELSE /\ string' = Append(string, Shown(Inword))
            /\ i' = i + 1
            /\ idx' = IF idx + 1 > last THEN 0 ELSE idx + 1
            /\ UNCHANGED phase
    /\ UNCHANGED <<written, packed>>

(* Mutant: no room is left for the end.                                    *)
turn_fills_all == Turn(TextStringSize, 7)

turn == Turn(TextStringSize - 1, 7)

(* The buffer of the reader is full.                                       *)
full ==
    /\ phase = "read"
    /\ i >= TextStringSize - 1
    /\ phase' = "done"
    /\ UNCHANGED <<written, packed, cursor, i, idx, buffer, string>>

TextNext == turn \/ full

TextSpec == TextInit /\ [][TextNext]_textVars

------------------------------------------------------------------------------

TextTypeOK ==
    /\ cursor \in Nat
    /\ i \in Nat
    /\ idx \in 0 .. 7
    /\ buffer \in Nat
    /\ string \in Seq(32 .. 126)
    /\ phase \in {"read", "done"}

(* The shift and the cursor belong together: while read_compressed is in   *)
(* its loop it has fetched exactly the bytes the codes so far occupy, and  *)
(* the shift is the number of bits of the last of them still to come.      *)
CursorOnBits ==
    phase = "read" => /\ idx = (i + 1) % 8
                      /\ cursor = PackedLen(i)

(* Nothing is written behind the string: its last index is the terminating *)
(* zero's, and the bytes a text may take are bounded whatever follows.     *)
InsideBuffer ==
    /\ i <= TextStringSize - 1
    /\ Len(string) = i
    /\ cursor <= PackedLen(TextStringSize - 1)

(* A text comes back as it was packed, and the cursor is on the next       *)
(* command, when the buffer holds it and its end mark (gff_gpl_read_text   *)
(* in every handler).  Of a longer one the buffer's share comes back, and  *)
(* the cursor stays inside it: already when only the mark does not fit.    *)
Unpacked ==
    phase = "done" =>
        IF Len(written) < TextStringSize - 1
        THEN /\ string = [k \in 1 .. Len(written) |-> Shown(written[k])]
             /\ ByteAt(packed, cursor) = NextCommand /\ cursor = Len(packed) - 1
        ELSE string = [k \in 1 .. TextStringSize - 1 |-> Shown(written[k])]

(* The loop moves the cursor as far as BytesTaken says, the operator the   *)
(* reader of commands uses for a text.                                     *)
MovesBytesTaken == phase = "done" => cursor = BytesTaken(packed, 0)
=============================================================================
