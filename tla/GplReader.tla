----------------------------- MODULE GplReader -----------------------------
(***************************************************************************)
(* The reader of GPL scripts, gff_gpl_parse of src/src/gpl/parse.c.  It is *)
(* a recursive descent; here what the calls in progress still have to read *)
(* is a sequence of items, the innermost call's first.  A step reads one   *)
(* item, which may put other items in its place.                           *)
(***************************************************************************)
EXTENDS GplFormat, SequencesExt

CONSTANT Scripts        \* their bytes, what they say, and their commands and phrases

(* The reader is told nothing but the bytes.                               *)
ASSUME ScriptsAssumption == \A s \in Scripts : WellFormed(s)

ASSUME BoundsAssumption == MaxMenu \in Nat /\ MaxSearchStack \in Nat

VARIABLES
    script,             \* what the caller has loaded, never changed
    pos,                \* bytes fetched: gpl->gpl
    todo,               \* what the calls in progress still read
    out,                \* what was printed, a tuple for each piece
    ran,                \* how many commands of the script were begun
    depth,              \* gpl->depth
    in_retval,          \* gpl->in_retval
    big_num,            \* gpl_global_big_num, a static variable
    status              \* "read"; "done", "over" (done, a byte behind the script
                        \* fetched), "failed" (an unknown command), "exited" (exit(1)),
                        \* "crashed", "behind" (a handler read behind the script)

bytes == script.bytes

vars == <<script, pos, todo, out, ran, depth, in_retval, big_num, status>>

Init ==
    /\ script \in Scripts
    /\ pos = 0
    /\ todo = <<>>
    /\ out = <<>>
    /\ ran = 0
    /\ depth = 0
    /\ in_retval = 0
    /\ big_num = 0
    /\ status = "read"

------------------------------------------------------------------------------
(* Bytes. *)

There(k) == ByteAt(bytes, pos + k)

Word(k) == 256 * There(k) + There(k + 1)

Long(k) == 65536 * Signed(Word(k), 16) + Word(k + 2)

(* k bytes are fetched.  The code does not look for the end of the script; *)
(* what it does with bytes from behind it is not followed.                 *)
Fetch(k, then) ==
    IF pos + k <= Len(bytes)
    THEN pos' = pos + k /\ status' = then
    ELSE pos' = Len(bytes) /\ status' = "behind"

(* A look at the next byte; behind the script it may be any.               *)
Preview == IF pos < Len(bytes) THEN {There(0)} ELSE {0, 74, 83, 209}

Says(piece) == out' = Append(out, piece)

Quiet == UNCHANGED out

(* The next item has to be read, and these items in its place.             *)
Reading(what) == status = "read" /\ todo # <<>> /\ Head(todo).what = what

Now == Head(todo).n

Then(items) == todo' = items \o Tail(todo)

Same == UNCHANGED <<script, ran>>

------------------------------------------------------------------------------
(* Numbers: one turn of the loop of gpl_read_number.  The item counts the  *)
(* open parentheses.                                                       *)

OPERATOR_OFFSET == 208    OPERATOR_LAST == 223

(* A variable's code with the bit EXTENDED_VAR has a number of two bytes.  *)
Wide == There(0) \in 192 .. 207

Cop == IF Wide THEN There(0) - 64 ELSE There(0)

(* What a code below the operators leaves in the static variable.          *)
BigNum == IF There(0) \notin 128 .. 207 THEN big_num ELSE IF Wide THEN 64 ELSE 0

More(paren) == <<Item("next", paren)>>
Again(paren) == <<Item("number", paren)>>

NumberKeeps == UNCHANGED <<depth, in_retval>> /\ Same

immediate ==
    /\ Reading("number") /\ There(0) < 128
    /\ Fetch(2, "read")
    /\ Says(<<"value", Word(0)>>)
    /\ Then(More(Now))
    /\ UNCHANGED big_num /\ NumberKeeps

SimpleTypes == {1, 2, 3, 4, 5, 6, 7, 8, 9, 10, 13, 14}

(* gpl_read_simple_num_var knows no names of the script's own and no bytes, *)
(* and of the global names only fifteen.                                   *)
VarRead(type, n) ==
    IF type \in {1, 2, 5, 6, 7, 10, 13, 14} THEN Append(out, <<"get", type, n>>)
    ELSE IF type = 9 /\ n \in 32 .. 46 THEN Append(out, <<"get", type, n - 32>>)
    ELSE out

(* Mutant: the second byte of a number is not read.                        *)
variable_narrow ==
    /\ Reading("number") /\ Cop - 128 \in SimpleTypes
    /\ Fetch(2, "read")
    /\ out' = VarRead(Cop - 128, There(1))
    /\ big_num' = Cop - 128
    /\ Then(More(Now))
    /\ NumberKeeps

variable ==
    /\ Reading("number") /\ Cop - 128 \in SimpleTypes
    /\ Fetch(IF Wide THEN 3 ELSE 2, "read")
    /\ out' = VarRead(Cop - 128, IF Wide THEN Signed(Word(1), 16) ELSE There(1))
    /\ big_num' = Cop - 128
    /\ Then(More(Now))
    /\ NumberKeeps

(* GPL_IMMED_BIGNUM, GPL_IMMED_BYTE and GPL_IMMED_NAME.                    *)
constant ==
    /\ Reading("number")
    /\ \/ Cop = 139 /\ Fetch(5, "read") /\ Says(<<"value", Long(1)>>)
       \/ Cop = 143 /\ Fetch(2, "read") /\ Says(<<"value", Signed(There(1), 8)>>)
       \/ Cop = 145 /\ Fetch(3, "read") /\ Says(<<"name", -Word(1)>>)
    /\ big_num' = BigNum
    /\ Then(More(Now))
    /\ NumberKeeps

(* GPL_IMMED_STRING, GPL_COMPLEX_VAL and the code 0xb3.                    *)
compound ==
    /\ Reading("number")
    /\ Fetch(1, "read")
    /\ \/ Cop = 146 /\ Then(<<Item("text", 0)>> \o More(Now))
       \/ Cop \in {177, 179} /\ Then(Complex(Read) \o More(Now))
    /\ big_num' = BigNum
    /\ Quiet /\ NumberKeeps

(* GPL_RETVAL: a command in the expression, with its parameters.           *)
Retval(answering) ==
    /\ Reading("number") /\ Cop = 140
    /\ Fetch(2, IF There(1) \in answering THEN "read" ELSE "exited")
    /\ in_retval' = 1
    /\ IF There(1) \in answering
       THEN /\ out' = out \o << <<"((">>, <<Handler(There(1))>> >>
            /\ Then(Handlers[Handler(There(1))] \o <<Item("answered", 0)>> \o More(Now))
       ELSE Quiet /\ UNCHANGED todo
    /\ big_num' = BigNum
    /\ UNCHANGED depth /\ Same

(* Mutant: some commands that answer are missing.                          *)
retval_few == Retval(Answering \ {26, 128})

retval == Retval(Answering)

answered ==
    /\ Reading("answered")
    /\ in_retval' = 0
    /\ Says(<<"))">>)
    /\ Then(<<>>)
    /\ UNCHANGED <<pos, status, depth, big_num>> /\ Same

operator ==
    /\ Reading("number") /\ There(0) \in OPERATOR_OFFSET + 1 .. OPERATOR_LAST
    /\ Fetch(1, "read")
    /\ Says(<<"op", There(0)>>)
    /\ Then(Again(Now))
    /\ UNCHANGED big_num /\ NumberKeeps

paren ==
    /\ Reading("number")
    /\ Fetch(1, "read")
    /\ \/ There(0) = 226 /\ Says(<<"(">>) /\ Then(Again(Now + 1))
       \/ There(0) = 225 /\ Says(<<")">>) /\ Then(More(Now - 1))
    /\ UNCHANGED big_num /\ NumberKeeps

(* GPL_ACCM, GPL_IMMED_WORD and every code not named above: exit(1), the   *)
(* last of them after it has printed sixteen bytes more.                   *)
no_number ==
    /\ Reading("number") /\ There(0) >= 128
    /\ Cop - 128 \notin SimpleTypes
    /\ Cop \notin {139, 140, 143, 145, 146, 177, 179, 225, 226}
    /\ There(0) \notin OPERATOR_OFFSET + 1 .. OPERATOR_LAST
    /\ Fetch(IF Cop \in {128, 144} THEN 1 ELSE 17, "exited")
    /\ big_num' = BigNum
    /\ Quiet /\ UNCHANGED todo /\ NumberKeeps

(* The condition of the loop.                                              *)
next ==
    /\ Reading("next")
    /\ \E b \in Preview :
           Then(IF Now > 0 \/ b \in OPERATOR_OFFSET + 1 .. OPERATOR_LAST THEN Again(Now) ELSE <<>>)
    /\ Quiet /\ UNCHANGED <<pos, status, big_num>> /\ NumberKeeps

------------------------------------------------------------------------------
(* Paths and texts. *)

Names == {37, 38, 39, 40, 43, 44}   \* POV, ACTIVE, PASSIVE, OTHER, THING, OTHER1

ObjectKnown == Word(0) < 32768 \/ Word(0) - 32768 \in Names

(* What the three callers of gpl_access_complex print of a path.           *)
PathShown ==
    LET object  == <<"object", Word(0)>>
        element == IF There(2) = 0 THEN 0 ELSE There(3)
    IN  CASE Now = Read   -> << object, <<"element", There(2), element>> >>
          [] Now = Write  -> << object, <<"set_element", There(2), element>> >>
          [] Now = Record -> << object >>

(* gpl_access_complex.  The elements of a path that is too long are written *)
(* behind an array on the stack.                                           *)
complex ==
    /\ Reading("complex")
    /\ Then(<<>>)
    /\ IF ObjectKnown
       THEN /\ \E then \in IF There(2) > MaxSearchStack THEN {"read", "crashed"} ELSE {"read"} :
                   Fetch(3 + There(2), then)
            /\ out' = out \o PathShown
       ELSE /\ Fetch(2, "read")
            /\ IF Now = Record THEN Quiet ELSE Says(<<"no object">>)
    /\ UNCHANGED <<depth, in_retval, big_num>> /\ Same

Characters ==
    LET n == CodesTaken(bytes, pos + 1)
        shown == IF n > 0 /\ Window(bytes, pos + 1, n - 1) = EndMark THEN n - 1 ELSE n
    IN [k \in 1 .. shown |-> Shown(Window(bytes, pos + 1, k - 1))]

(* gff_gpl_read_text.  Unless the text is compressed or an introduction    *)
(* the caller prints through a pointer nobody has set.                     *)
text ==
    /\ Reading("text")
    /\ Then(<<>>)
    /\ CASE There(0) = 1 -> Fetch(1, "read") /\ Says(<<"introduction">>)
         [] There(0) = 5 -> Fetch(1 + BytesTaken(bytes, pos + 1), "read") /\ Says(<<"text", Characters>>)
         [] OTHER -> /\ \E then \in {"read", "crashed"} :
                            Fetch(IF There(0) = 2 THEN 1 ELSE 0, then)
                     /\ Says(<<"unset">>)
    /\ UNCHANGED <<depth, in_retval, big_num>> /\ Same

(* gpl_log frees the text, which is in a static buffer.                    *)
free ==
    /\ Reading("free")
    /\ status' \in IF Last(out) = <<"unset">> THEN {"read", "crashed"} ELSE {"crashed"}
    /\ Then(<<>>)
    /\ Quiet /\ UNCHANGED <<pos, depth, in_retval, big_num>> /\ Same

------------------------------------------------------------------------------
(* The rest of the handlers that read more than numbers. *)

(* gpl_load_variable, behind the number.                                   *)
load_variable ==
    LET datatype == There(0) % 64
        extended == There(0) % 128 >= 64
    IN /\ Reading("variable")
       /\ IF datatype < 16
          THEN /\ Fetch(IF extended THEN 3 ELSE 2,
                        IF datatype \in {2, 5, 7, 10, 13, 14} THEN "read" ELSE "crashed")
               /\ Says(<<"set", datatype, IF extended THEN Word(1) ELSE There(1)>>)
               /\ Then(<<>>)
          ELSE /\ Fetch(1, "read")
               /\ Quiet
               /\ Then(Complex(Write))
       /\ UNCHANGED <<depth, in_retval, big_num>> /\ Same

(* gpl_search: the low and the high bound, then fields, each but the first *)
(* behind the mark SEARCH_QUAL.                                            *)
SEARCH_QUAL == 83

bounds ==
    /\ Reading("bounds")
    /\ Fetch(2, "read")
    /\ Then(<<>>)
    /\ Quiet /\ UNCHANGED <<depth, in_retval, big_num>> /\ Same

field ==
    LET at == IF There(0) = SEARCH_QUAL THEN 1 ELSE 0
    IN /\ Reading("field")
       /\ Fetch(at + 2, "read")
       /\ Says(<<"field", There(at), There(at + 1)>>)
       /\ Then((IF There(at + 1) \in {4, 5} THEN Again(0) ELSE <<>>) \o <<Item("more fields", 0)>>)
       /\ UNCHANGED <<depth, in_retval, big_num>> /\ Same

more_fields ==
    /\ Reading("more fields")
    /\ \E b \in Preview : Then(IF b = SEARCH_QUAL THEN <<Item("field", 0)>> ELSE <<>>)
    /\ Quiet /\ UNCHANGED <<pos, status, depth, in_retval, big_num>> /\ Same

(* gpl_menu, behind its name: the item counts the entries.                 *)
MenuEnd == 74

menu_entry ==
    /\ Reading("menu") /\ Now <= MaxMenu
    /\ \E b \in Preview : b # MenuEnd
    /\ Says(<<"entry">>)
    /\ Then(get_parameters(3) \o <<Item("menu", Now + 1)>>)
    /\ UNCHANGED <<pos, status, depth, in_retval, big_num>> /\ Same

menu_end ==
    /\ Reading("menu")
    /\ Now > MaxMenu \/ MenuEnd \in Preview
    /\ Fetch(1, "read")
    /\ Then(<<>>)
    /\ Quiet /\ UNCHANGED <<depth, in_retval, big_num>> /\ Same

(* Mutant: the depth goes below zero.                                      *)
nest_signed ==
    /\ \/ Reading("deeper") /\ depth' = depth + 1
       \/ Reading("shallower") /\ depth' = depth - 1
    /\ Then(<<>>)
    /\ Quiet /\ UNCHANGED <<pos, status, in_retval, big_num>> /\ Same

(* Mutant: loops do not nest.                                              *)
nest_flat ==
    /\ Reading("deeper") \/ Reading("shallower")
    /\ Then(<<>>)
    /\ Quiet /\ UNCHANGED <<pos, status, depth, in_retval, big_num>> /\ Same

nest ==
    /\ \/ Reading("deeper") /\ depth' = (depth + 1) % 2^16
       \/ Reading("shallower") /\ depth' = (depth - 1) % 2^16
    /\ Then(<<>>)
    /\ Quiet /\ UNCHANGED <<pos, status, in_retval, big_num>> /\ Same

------------------------------------------------------------------------------
(* The loop of gff_gpl_parse. *)

(* A byte is fetched before the cursor is compared with the end, and is    *)
(* not run if it is the last one: a last command of one byte is left out,  *)
(* and behind a longer one the byte fetched is not of the script.          *)
Stop(enough) ==
    /\ status = "read" /\ todo = <<>>
    /\ enough
    /\ pos' = pos + 1
    /\ status' = IF pos < Len(bytes) THEN "done" ELSE "over"
    /\ Quiet /\ UNCHANGED <<todo, depth, in_retval, big_num>> /\ Same

(* Mutant: stops only right behind the end.                                *)
stop_exactly == Stop(pos + 1 = Len(bytes))
(* Mutant: stops a byte early.                                             *)
stop_early == Stop(pos + 2 >= Len(bytes))

stop == Stop(pos + 1 >= Len(bytes))

(* gpl_execute_func does not compare the command with the table's length.  *)
command ==
    /\ status = "read" /\ todo = <<>>
    /\ pos + 1 < Len(bytes)
    /\ pos' = pos + 1
    /\ ran' = ran + 1
    /\ \/ /\ There(0) \in Commands /\ Handler(There(0)) # "unknown"
          /\ Says(<<Handler(There(0))>>)
          /\ todo' = Handlers[Handler(There(0))]
          /\ UNCHANGED status
       \/ /\ There(0) \in Commands /\ Handler(There(0)) = "unknown"
          /\ status' = "failed"
          /\ Quiet /\ UNCHANGED todo
       \/ /\ There(0) \notin Commands
          /\ status' = "crashed"
          /\ Quiet /\ UNCHANGED todo
    /\ UNCHANGED <<script, depth, in_retval, big_num>>

Next ==
    \/ command \/ stop
    \/ immediate \/ variable \/ constant \/ compound \/ retval \/ answered
    \/ operator \/ paren \/ no_number \/ next
    \/ complex \/ text \/ free
    \/ load_variable \/ bounds \/ field \/ more_fields
    \/ menu_entry \/ menu_end \/ nest

Spec == Init /\ [][Next]_vars

(* The reader is straight-line code: it goes on as long as it can.         *)
FairSpec == Spec /\ WF_vars(Next)

------------------------------------------------------------------------------
(* Properties. *)

TypeOK ==
    /\ pos \in 0 .. Len(bytes) + 1
    /\ ran \in 0 .. Len(bytes)
    /\ depth \in Depths
    /\ in_retval \in {0, 1}
    /\ big_num \in 0 .. 64
    /\ \A k \in DOMAIN todo : todo[k].n \in Int
    /\ status \in {"read", "done", "over", "failed", "exited", "crashed", "behind"}

Sound(n) == \A k \in DOMAIN script.commands : k <= n => script.commands[k].sound

(* Where the n-th command ends.                                            *)
Reached(n) == IF n = 0 THEN Beginning ELSE script.commands[n].to

Here == [at |-> pos, said |-> Len(out), depth |-> depth]

BetweenCommands == status = "read" /\ todo = <<>>

LastIsAByte ==
    LET final == script.commands[Len(script.commands)]
    IN  final.to.at = final.from.at + 1

(* The reader keeps in step with the script: between commands it is behind *)
(* the last command it ran, and has printed just what whoever wrote these  *)
(* commands meant, every number, operator, variable, path and text; it is  *)
(* as deep as the script is nested, and no mark of an answer is left over  *)
(* (gff_gpl_parse and every handler).  And a script is read to its end,    *)
(* except that its last command is left out when it is one byte long (the  *)
(* loop of gff_gpl_parse).                                                 *)
Decoded ==
    LET count == Len(script.commands)
    IN  /\ BetweenCommands /\ Sound(ran) =>
              /\ Here = Reached(ran)
              /\ out = SubSeq(script.says, 1, Len(out))
              /\ in_retval = 0
        /\ status \in {"done", "over"} /\ Sound(count) =>
              ran = IF LastIsAByte THEN count - 1 ELSE count

(* The reader stops for nothing but the end: where it fails, leaves the    *)
(* process, crashes or reads behind the script in a handler, it has begun  *)
(* a command it does not implement; until then its counters stay in their  *)
(* ranges.  Its own loop reads behind a script it implements only behind   *)
(* the last command, one byte, when that command is longer than a byte     *)
(* (gff_gpl_parse fetches before it compares).                             *)
StopsForACause ==
    /\ TypeOK
    /\ status \in {"failed", "exited", "crashed", "behind"} => ~Sound(ran)
    /\ status = "over" /\ Sound(ran) => ran = Len(script.commands) /\ ~LastIsAByte

(* Every script is read in the end, with or without success.               *)
Ends == <>(status # "read")
=============================================================================
