---------------------------- MODULE MCGplReader ----------------------------
(***************************************************************************)
(* Scripts for the reader.  The operators below are the writer's side: what *)
(* a number or a command is, as bytes and as what it means.  A script ends *)
(* with a command of one byte, or with a menu, so that no number is the    *)
(* last thing in it; and a command's answer that an operator follows is in *)
(* parentheses, else the operator belongs to the command's last parameter. *)
(***************************************************************************)
EXTENDS GplReader

(* A phrase to be laid somewhere: its bytes and pieces in front of its     *)
(* parts, and behind them.                                                 *)
Draft(is, lead, says) ==
    [is |-> is, n |-> 0, codes |-> <<>>, sound |-> TRUE, lead |-> lead, says |-> says,
     parts |-> <<>>, tail |-> <<>>, closing |-> <<>>]

RECURSIVE CodeOf(_), SaysOf(_), Laid(_, _)
CodeOf(draft) ==
    draft.lead \o FlattenSeq([k \in DOMAIN draft.parts |-> CodeOf(draft.parts[k])]) \o draft.tail
SaysOf(draft) ==
    draft.says \o FlattenSeq([k \in DOMAIN draft.parts |-> SaysOf(draft.parts[k])]) \o draft.closing

Behind(place, draft) ==
    Nested(Past(place, Len(CodeOf(draft)), Len(SaysOf(draft))),
           CASE draft.is = "deeper" -> 1 [] draft.is = "shallower" -> -1 [] OTHER -> 0)

Laid(draft, place) ==
    LET first == Past(place, Len(draft.lead), Len(draft.says))
        parts == FoldLeft(LAMBDA done, part :
                            LET here == IF done = <<>> THEN first ELSE Last(done).to
                            IN  Append(done, Laid(part, here)),
                          <<>>, draft.parts)
        end == IF parts = <<>> THEN first ELSE Last(parts).to
    IN  [is |-> draft.is, n |-> draft.n, codes |-> draft.codes, sound |-> draft.sound,
         parts |-> parts, from |-> place,
         to |-> Behind(Past(end, Len(draft.tail), Len(draft.closing)),
                       [draft EXCEPT !.lead = <<>>, !.says = <<>>, !.parts = <<>>,
                                     !.tail = <<>>, !.closing = <<>>])]

RECURSIVE Within(_)
Within(phrase) ==
    UNION {{phrase.parts[k]} \cup Within(phrase.parts[k]) : k \in DOMAIN phrase.parts}

(* The commands, one behind another.                                       *)
Script(drafts) ==
    LET whole == [Draft("script", <<>>, <<>>) EXCEPT !.parts = drafts]
        commands == Laid(whole, Beginning).parts
    IN  [bytes |-> CodeOf(whole), says |-> SaysOf(whole), commands |-> commands,
         phrases |-> UNION {Within(commands[k]) : k \in DOMAIN commands}]

(* A number is a sequence of tokens.                                       *)
Operand(lead, says) == <<Draft("operand", lead, says)>>
Number(tokens) == [Draft("number", <<>>, <<>>) EXCEPT !.parts = tokens]

Value(n) == Operand(<<n \div 256, n % 256>>, << <<"value", n>> >>)
Big(hi, lo) == Operand(<<139, hi, 0, lo, 7>>, << <<"value", (IF hi > 127 THEN hi - 256 ELSE hi) * 16777216 + 256 * lo + 7>> >>)
Small(n) == Operand(<<143, IF n < 0 THEN 256 + n ELSE n>>, << <<"value", n>> >>)
Name(n) == Operand(<<145, n \div 256, n % 256>>, << <<"name", -n>> >>)
Var(type, n) == IF n < 256 THEN Operand(<<128 + type, n>>, << <<"get", type, n>> >>)
                ELSE Operand(<<192 + type, n \div 256, n % 256>>, << <<"get", type, n>> >>)
GlobalName(n) == Operand(<<137, n + 32>>, << <<"get", 9, n>> >>)
NotPrinted(type) == Operand(<<128 + type, 1>>, <<>>)
With(tokens, part) == <<[tokens[1] EXCEPT !.parts = <<part>>]>>
Text(codes) ==
    With(Operand(<<146>>, <<>>),
         [Draft("text", <<5>> \o Pack(Append(codes, EndMark)), << <<"text", [k \in DOMAIN codes |-> Shown(codes[k])]>> >>)
            EXCEPT !.codes = codes])
Introduction == With(Operand(<<146>>, <<>>), Draft("text", <<1>>, << <<"introduction">> >>))
Path(use, object, elements, says) ==
    [Draft("complex", <<object \div 256, object % 256, Len(elements)>> \o elements, << <<"object", object>> >> \o says)
       EXCEPT !.n = use]
FirstOf(elements) == IF elements = <<>> THEN 0 ELSE elements[1]
Element(lead, object, elements) ==
    With(Operand(<<lead>>, <<>>), Path(Read, object, elements, << <<"element", Len(elements), FirstOf(elements)>> >>))
Nameless == With(Operand(<<177>>, <<>>), Draft("complex", <<129, 0>>, << <<"no object">> >>))
Op(a, op, b) == a \o <<Draft("operator", <<op>>, << <<"op", op>> >>)>> \o b
Paren(a) ==
    <<Draft("open", <<226>>, << <<"(">> >>)>> \o [k \in DOMAIN a |-> [a[k] EXCEPT !.n = a[k].n + 1]]
        \o <<[Draft("close", <<225>>, << <<")">> >>) EXCEPT !.n = 1]>>
Answer(opcode, handler, params) ==
    <<[Draft("operand", <<140, opcode>>, << <<"((">>, <<handler>> >>)
         EXCEPT !.parts = [k \in DOMAIN params |-> Number(params[k])], !.closing = << <<"))">> >>]>>

Inner == Answer(82, "rand", <<Answer(15, "get_status", <<Value(1)>>)>>)

Numbers ==
    { Value(5), Value(32767), Big(1, 2), Big(255, 0), Small(-2), Name(300), Var(13, 7), Var(7, 258),
      Var(1, 3), GlobalName(14), NotPrinted(3), Text(<<42, 9>>), Text(<<>>), Introduction,
      Element(177, 37 + 32768, <<>>), Element(179, 12, <<4, 5>>), Nameless,
      Op(Value(1), 209, Var(10, 2)), Op(Paren(Op(Value(1), 223, Small(3))), 211, Value(2)),
      Paren(Paren(Text(<<85>>))), Op(Value(3), 210, Paren(Value(4))),
      Answer(128, "range", <<Value(1), Paren(Var(14, 1))>>), Answer(56, "getyn", <<>>),
      Op(Paren(Inner), 215, Value(1)),
      Op(Answer(56, "getyn", <<>>), 213, Answer(26, "nextto", <<Value(1), Inner>>)) }

Command(opcode, handler, phrases) ==
    [Draft("command", <<opcode>>, << <<handler>> >>) EXCEPT !.parts = phrases]

Takes(opcode, handler, numbers) == Command(opcode, handler, [k \in DOMAIN numbers |-> Number(numbers[k])])
Accum(n) == Takes(24, "load_accum", <<n>>)
Plain(opcode, handler, count) ==
    Takes(opcode, handler, [k \in 1 .. count |-> IF k % 2 = 1 THEN Value(k) ELSE Var(7, k)])

Variable(lead, says) == Draft("variable", lead, says)
SetVariable(n, type, to) ==
    Command(22, "load_variable",
            <<Number(n), Variable(IF to < 256 THEN <<128 + type, to>> ELSE <<192 + type, to \div 256, to % 256>>,
                                  << <<"set", type, to>> >>)>>)
SetElement(n, object, elements) ==
    Command(22, "load_variable",
            <<Number(n), [Variable(<<177>>, <<>>) EXCEPT !.parts =
                <<Path(Write, object, elements, << <<"set_element", Len(elements), FirstOf(elements)>> >>)>>]>>)
SetRecord(object, elements, n) ==
    Command(64, "setrecord", <<Path(Record, object, elements, <<>>), Number(n)>>)

Field(f, type, numbers) ==
    [Draft("one field", <<f, type>>, << <<"field", f, type>> >>)
       EXCEPT !.parts = [k \in DOMAIN numbers |-> Number(numbers[k])]]
Qualified(f) == [f EXCEPT !.lead = <<83>> \o f.lead]
Search(n, fields) ==
    Command(51, "search", <<Number(n), Draft("bounds", <<1, 2>>, <<>>), [Draft("field", <<>>, <<>>) EXCEPT !.parts = fields]>>)

Entry(a, b, c) == [Draft("entry", <<>>, << <<"entry">> >>) EXCEPT !.parts = <<Number(a), Number(b), Number(c)>>]
Menu(entries) ==
    Command(72, "menu", <<Number(Text(<<42>>)), [Draft("menu", <<>>, <<>>) EXCEPT !.parts = entries, !.tail = <<74>>]>>)
AnEntry == Entry(Text(<<85, 42>>), Value(9), Op(Value(1), 216, Value(2)))

Return == Command(25, "global_ret", <<>>)

Into == Draft("deeper", <<>>, <<>>)
Out == Draft("shallower", <<>>, <<>>)
Nesting ==
    { Command(62, "if", <<Number(Value(1)), Into>>), Takes(63, "else", <<Value(1)>>), Command(103, "endif", <<Out>>),
      Command(99, "while", <<Number(Value(1)), Into>>), Command(100, "wend", <<Number(Var(13, 1)), Out>>),
      Command(23, "compare", <<Number(Text(<<42>>)), Into>>), Command(97, "cmpend", <<Out>>) }

Sets ==
    { SetVariable(Value(1), 13, 4), SetVariable(Paren(Value(2)), 10, 300), SetElement(Value(3), 11, <<6>>),
      SetRecord(12, <<>>, Value(3)), SetRecord(37 + 32768, <<1, 2>>, Small(1)),
      Search(Value(1), <<Field(7, 4, <<Value(2)>>), Qualified(Field(83, 6, <<>>)), Qualified(Field(1, 5, <<Var(2, 1)>>))>>),
      Search(Value(1), <<Qualified(Field(3, 1, <<>>))>>),
      Menu(<<>>), Menu(<<AnEntry>>), Menu(<<AnEntry, AnEntry, AnEntry>>) }

(* One of the handlers that read numbers only, for each count and opcode   *)
(* group.                                                                  *)
Plains ==
    { Plain(0, "zero", 0), Plain(1, "long_div_eq", 2), Plain(2, "byte_dec", 1), Plain(9, "getxy", 1),
      Plain(16, "get_los", 3), Plain(17, "long_times_equal", 2), Plain(20, "call_global", 2),
      Plain(27, "inlos_trigger", 4), Plain(34, "request", 4), Plain(37, "clone", 6), Plain(41, "orelse", 1),
      Plain(42, "clearpic", 0), Plain(47, "drop", 3), Plain(57, "give", 4), Plain(60, "goxy", 3),
      Plain(73, "setthing", 2), Plain(89, "statroll", 3), Plain(94, "tport", 5), Plain(106, "move_box_trigger", 7),
      Plain(112, "usewith_trigger", 4), Plain(127, "long_minus_equal", 2), Plain(128, "range", 2) }

(* What the reader does not implement, or cannot read.                     *)
Bad(code) == [Draft("command", code, <<>>) EXCEPT !.sound = FALSE]

Unreadable ==
    { Bad(<<13>>), Bad(<<200>>), Bad(<<44, 5, 6, 0>>), Bad(<<44, 2, 65>>), Bad(<<24, 128>>), Bad(<<24, 208>>),
      Bad(<<24, 140, 24, 1, 1>>), Bad(<<24, 146, 2, 65, 0>>), Bad(<<24, 146, 65, 0>>), Bad(<<24, 177, 0, 1, 3, 1, 1, 1>>),
      Bad(<<22, 0, 1, 131, 1>>), Bad(<<62>>), Bad(<<24, 226, 0, 1>>), Bad(<<64, 129, 0, 0, 1>>),
      Bad(CodeOf(Menu(<<AnEntry, AnEntry, AnEntry, AnEntry>>))), Bad(<<51, 0, 1, 213, 0>>) }

(* Commands of which the end is missing.                                   *)
Cut == UNION {{Bad(SubSeq(CodeOf(c), 1, k)) : k \in 1 .. Len(CodeOf(c)) - 1}
                 : c \in Sets \cup {Accum(n) : n \in Numbers}}

Ordinary == Nesting \cup Sets \cup Plains \cup {Accum(Value(8))}

MCDrafts ==
    {<<Accum(n), Return>> : n \in Numbers}
        \cup {<<Accum(n), Takes(20, "call_global", <<k, n>>), Return>> : n \in Numbers, k \in Numbers}
        \cup {<<a, b, Return>> : a \in Ordinary, b \in Ordinary}
        \cup {<<a, b, c, Return>> : a \in Nesting, b \in Nesting, c \in Nesting}
        \cup {<<a, Menu(<<AnEntry>>)>> : a \in Ordinary}
        \cup {<<a, b, c, Return>> : a \in Sets, b \in Unreadable, c \in Sets}
        \cup {<<b>> : b \in Unreadable}
        \cup {<<a, b>> : a \in {Command(62, "if", <<Number(Value(1)), Into>>)}, b \in Cut}

MCScripts == {Script(drafts) : drafts \in MCDrafts}
=============================================================================
