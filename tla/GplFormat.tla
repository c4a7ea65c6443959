------------------------------ MODULE GplFormat ------------------------------
(***************************************************************************)
(* What a script is to whoever compiled it: commands made of phrases, each *)
(* with the place where it begins and the place where it ends.  A place is *)
(* how many bytes lie in front of it, how many pieces are to be printed    *)
(* for these, and how deep the script is nested there.  Phrases are        *)
(* numbers, texts, paths and what else a command takes, and the tokens a   *)
(* number is written with; a phrase of several has them as its parts.      *)
(* WellFormed says that the bytes of a script are its phrases.  None of    *)
(* this is how the reader of parse.c goes about it: see GplReader.         *)
(***************************************************************************)
EXTENDS GplCommands, GplPacking

CONSTANTS
    MaxMenu,            \* MAXMENU, 24
    MaxSearchStack      \* MAX_SEARCH_STACK, 32: the elements of a path

Past(place, bytes, pieces) ==
    [at |-> place.at + bytes, said |-> place.said + pieces, depth |-> place.depth]

Depths == 0 .. 2^16 - 1     \* a uint16_t

Nested(place, by) ==
    [at |-> place.at, said |-> place.said, depth |-> (place.depth + by) % 2^16]

Beginning == [at |-> 0, said |-> 0, depth |-> 0]

Places(s) == [at : 0 .. Len(s.bytes), said : 0 .. Len(s.says), depth : Depths]

IsSeq(q) == q \in Seq({q[k] : k \in DOMAIN q})

(* Phrases lie one behind another from a place to a place.                 *)
InTurn(phrases, from, to) ==
    IF phrases = <<>> THEN from = to
    ELSE /\ phrases[1].from = from /\ phrases[Len(phrases)].to = to
         /\ \A k \in 1 .. Len(phrases) - 1 : phrases[k + 1].from = phrases[k].to

(* The k-th byte of a phrase, counted from 0, and the word there.          *)
Code(s, p, k) == ByteAt(s.bytes, p.from.at + k)
CodeWord(s, p, k) == 256 * Code(s, p, k) + Code(s, p, k + 1)

Signed(n, width) == IF n >= 2^(width - 1) THEN n - 2^width ELSE n

CodeLong(s, p, k) == 65536 * Signed(CodeWord(s, p, k), 16) + CodeWord(s, p, k + 2)

(* These pieces are to be printed from a place on.                         *)
Printed(s, place, pieces) ==
    \A k \in DOMAIN pieces : s.says[place.said + k] = pieces[k]

(* A phrase without parts, of a number of bytes.                           *)
Leaf(s, p, bytes, pieces) ==
    /\ p.parts = <<>>
    /\ p.to = Past(p.from, bytes, Len(pieces))
    /\ Printed(s, p.from, pieces)

(* A phrase whose parts begin behind so many bytes and pieces.             *)
Branch(s, p, bytes, pieces, to) ==
    /\ InTurn(p.parts, Past(p.from, bytes, Len(pieces)), to)
    /\ Printed(s, p.from, pieces)

(* The script goes on behind a place, with none of these bytes.            *)
GoesOn(s, place, without) ==
    place.at < Len(s.bytes) /\ ByteAt(s.bytes, place.at) \notin without

------------------------------------------------------------------------------
(* Texts, and paths into objects. *)

Codes == 0 .. 127

IsText(s, p) ==
    \/ Code(s, p, 0) = 1 /\ Leaf(s, p, 1, << <<"introduction">> >>)
    \/ /\ Code(s, p, 0) = 5
       /\ p.codes \in Seq(Codes \ {EndMark}) /\ Len(p.codes) < TextStringSize - 1
       /\ \A k \in DOMAIN Pack(Append(p.codes, EndMark)) :
             Code(s, p, k) = Pack(Append(p.codes, EndMark))[k]
       /\ Leaf(s, p, 1 + PackedLen(Len(p.codes) + 1),
               << <<"text", [k \in DOMAIN p.codes |-> Shown(p.codes[k])]>> >>)

(* An object is a number, or one of the current ones: of a name that is    *)
(* not known nothing follows.                                              *)
CurrentObjects == {37, 38, 39, 40, 43, 44}
Known(object) == object < 32768 \/ object - 32768 \in CurrentObjects

IsPath(s, p) ==
    LET object == CodeWord(s, p, 0)
        length == Code(s, p, 2)
        first == IF length = 0 THEN 0 ELSE Code(s, p, 3)
    IN  \/ /\ Known(object) /\ length <= MaxSearchStack
           /\ \/ p.n = Read /\ Leaf(s, p, 3 + length,
                                    << <<"object", object>>, <<"element", length, first>> >>)
              \/ p.n = Write /\ Leaf(s, p, 3 + length,
                                     << <<"object", object>>, <<"set_element", length, first>> >>)
              \/ p.n = Record /\ Leaf(s, p, 3 + length, << <<"object", object>> >>)
        \/ ~Known(object) /\ p.n \in {Read, Write} /\ Leaf(s, p, 2, << <<"no object">> >>)

------------------------------------------------------------------------------
(* Numbers are operands with operators between them, and parentheses. *)

(* A variable by its type and number; a global name is said by its name.   *)
Got(type, n) ==
    IF type \in {1, 2, 5, 6, 7, 10, 13, 14} THEN << <<"get", type, n>> >>
    ELSE IF type = 9 /\ n \in 32 .. 46 THEN << <<"get", type, n - 32>> >>
    ELSE <<>>

VariableTypes == {1, 2, 3, 4, 5, 6, 7, 8, 9, 10, 13, 14}

(* What a command takes, by its opcode.                                    *)
Kinds == {"number", "text", "complex", "variable", "bounds", "field", "menu", "deeper", "shallower"}

IsTaken(phrases, opcode) ==
    LET items == Handlers[Handler(opcode)]
    IN  /\ opcode \in Commands /\ Handler(opcode) # "unknown"
        /\ Len(phrases) = Len(items)
        /\ \A k \in DOMAIN phrases :
              phrases[k].is \in Kinds /\ phrases[k].is = items[k].what /\ phrases[k].n = items[k].n

IsAnswer(s, t) ==
    LET opcode == Code(s, t, 1)
    IN  /\ Code(s, t, 0) = 140 /\ opcode \in Answering
        /\ IsTaken(t.parts, opcode)
        /\ t.to.said > 0 /\ s.says[t.to.said] = <<"))">>
        /\ Branch(s, t, 2, << <<"((">>, <<Handler(opcode)>> >>, Past(t.to, 0, -1))

IsValue(s, t) == Code(s, t, 0) < 128 /\ Leaf(s, t, 2, << <<"value", CodeWord(s, t, 0)>> >>)

IsVariableRead(s, t, type) ==
    \/ Code(s, t, 0) = 128 + type /\ Leaf(s, t, 2, Got(type, Code(s, t, 1)))
    \/ Code(s, t, 0) = 192 + type /\ Leaf(s, t, 3, Got(type, Signed(CodeWord(s, t, 1), 16)))

IsConstant(s, t) ==
    \/ Code(s, t, 0) = 139 /\ Leaf(s, t, 5, << <<"value", CodeLong(s, t, 1)>> >>)
    \/ Code(s, t, 0) = 143 /\ Leaf(s, t, 2, << <<"value", Signed(Code(s, t, 1), 8)>> >>)
    \/ Code(s, t, 0) = 145 /\ Leaf(s, t, 3, << <<"name", -CodeWord(s, t, 1)>> >>)

IsCompound(s, t) ==
    /\ Branch(s, t, 1, <<>>, t.to) /\ Len(t.parts) = 1
    /\ \/ Code(s, t, 0) = 146 /\ t.parts[1].is = "text"
       \/ Code(s, t, 0) \in {177, 179} /\ t.parts[1].is = "complex" /\ t.parts[1].n = Read

IsOperand(s, t) ==
    \/ IsValue(s, t)
    \/ \E type \in VariableTypes : IsVariableRead(s, t, type)
    \/ IsConstant(s, t) \/ IsCompound(s, t) \/ IsAnswer(s, t)

OperatorCodes == 209 .. 223

IsToken(s, t) ==
    \/ t.is = "operand" /\ IsOperand(s, t)
    \/ t.is = "operator" /\ Code(s, t, 0) \in OperatorCodes /\ Leaf(s, t, 1, << <<"op", Code(s, t, 0)>> >>)
    \/ t.is = "open" /\ Code(s, t, 0) = 226 /\ Leaf(s, t, 1, << <<"(">> >>)
    \/ t.is = "close" /\ Code(s, t, 0) = 225 /\ Leaf(s, t, 1, << <<")">> >>)

(* A token knows how many parentheses are open in front of it.             *)
OpenBehind(t) == t.n + (IF t.is = "open" THEN 1 ELSE IF t.is = "close" THEN -1 ELSE 0)

Completes(t) == t.is \in {"operand", "close"}

(* What may be behind a token: when no parenthesis is open and no operator *)
(* follows the number is at its end, and nothing else than its end may be  *)
(* taken for that.                                                         *)
IsNumber(s, p) ==
    LET tokens == p.parts
    IN  /\ tokens # <<>> /\ InTurn(tokens, p.from, p.to)
        /\ tokens[1].n = 0 /\ ~(tokens[1].is \in {"operator", "close"})
        /\ \A k \in DOMAIN tokens :
              LET t == tokens[k]
              IN  /\ IsToken(s, t) /\ OpenBehind(t) >= 0
                  /\ IF k = Len(tokens) THEN Completes(t) /\ OpenBehind(t) = 0
                     ELSE /\ tokens[k + 1].n = OpenBehind(t)
                          /\ Completes(t) <=> tokens[k + 1].is \in {"operator", "close"}
        /\ GoesOn(s, p.to, OperatorCodes)

------------------------------------------------------------------------------
(* What else a command takes. *)

(* A variable to set.                                                      *)
IsVariable(s, p) ==
    \/ \E type \in {2, 5, 7, 10, 13, 14} :
          \/ Code(s, p, 0) = 128 + type /\ Leaf(s, p, 2, << <<"set", type, Code(s, p, 1)>> >>)
          \/ Code(s, p, 0) = 192 + type /\ Leaf(s, p, 3, << <<"set", type, CodeWord(s, p, 1)>> >>)
    \/ /\ Code(s, p, 0) = 177 /\ Branch(s, p, 1, <<>>, p.to)
       /\ Len(p.parts) = 1 /\ p.parts[1].is = "complex" /\ p.parts[1].n = Write

(* A search has fields, all but the first with a mark in front; of two     *)
(* types a number follows.                                                 *)
FieldMark == 83

IsField(s, p, marked) ==
    LET type == Code(s, p, marked + 1)
    IN  /\ Branch(s, p, marked + 2, << <<"field", Code(s, p, marked), type>> >>, p.to)
        /\ marked = 1 <=> Code(s, p, 0) = FieldMark
        /\ IF type \in {4, 5} THEN Len(p.parts) = 1 /\ p.parts[1].is = "number" ELSE p.parts = <<>>

IsFields(s, p) ==
    /\ p.parts # <<>> /\ InTurn(p.parts, p.from, p.to)
    /\ \A k \in DOMAIN p.parts :
          \E marked \in (IF k = 1 THEN {0, 1} ELSE {1}) : IsField(s, p.parts[k], marked)
    /\ GoesOn(s, p.to, {FieldMark})

(* A menu has entries of three numbers, and a mark behind them.            *)
MenuMark == 74

IsMenu(s, p) ==
    /\ Len(p.parts) <= MaxMenu + 1
    /\ p.to.at > 0 /\ InTurn(p.parts, p.from, Past(p.to, -1, 0))
    /\ ByteAt(s.bytes, p.to.at - 1) = MenuMark
    /\ \A k \in DOMAIN p.parts :
          LET entry == p.parts[k]
          IN  /\ Code(s, entry, 0) # MenuMark
              /\ Branch(s, entry, 0, << <<"entry">> >>, entry.to)
              /\ Len(entry.parts) = 3
              /\ \A j \in 1 .. 3 : entry.parts[j].is = "number"

(* The tokens of a number, the fields of a search and the entries of a     *)
(* menu are looked at with these.                                          *)
IsPhrase(s, p) ==
    /\ p.is = "number" => IsNumber(s, p) /\ p.n = 0
    /\ p.is = "text" => IsText(s, p)
    /\ p.is = "complex" => IsPath(s, p)
    /\ p.is = "variable" => IsVariable(s, p)
    /\ p.is = "bounds" => Leaf(s, p, 2, <<>>)
    /\ p.is = "field" => IsFields(s, p)
    /\ p.is = "menu" => IsMenu(s, p) /\ p.n = 0
    /\ p.is = "deeper" => p.to = Nested(p.from, 1)
    /\ p.is = "shallower" => p.to = Nested(p.from, -1)

------------------------------------------------------------------------------
(* A script has its commands one behind another.  One that the reader does *)
(* not implement, or of which a part is missing, is not sound.             *)
IsCommand(s, c) ==
    /\ IsTaken(c.parts, Code(s, c, 0))
    /\ Branch(s, c, 1, << <<Handler(Code(s, c, 0))>> >>, c.to)

WellFormed(s) ==
    /\ s.bytes \in Seq(Byte) /\ IsSeq(s.says)
    /\ IsSeq(s.commands) /\ s.commands # <<>>
    /\ InTurn(s.commands, Beginning, s.commands[Len(s.commands)].to)
    /\ s.commands[Len(s.commands)].to.at = Len(s.bytes)
    /\ \A k \in DOMAIN s.commands :
          LET c == s.commands[k]
          IN  /\ c.from \in Places(s) /\ c.to \in Places(s) /\ c.from.at < c.to.at
              /\ c.sound \in BOOLEAN
              /\ IsSeq(c.parts) /\ \A j \in DOMAIN c.parts : c.parts[j] \in s.phrases
              /\ c.sound => IsCommand(s, c)
    /\ \A p \in s.phrases :
          /\ p.from \in Places(s) /\ p.to \in Places(s) /\ p.n \in Nat
          /\ IsSeq(p.parts) /\ \A j \in DOMAIN p.parts : p.parts[j] \in s.phrases
          /\ IsPhrase(s, p)
==============================================================================
