---------------------------- MODULE GplCommands ----------------------------
(***************************************************************************)
(* The commands of GPL scripts (src/src/gpl/parse.c): the table from the    *)
(* opcode to the handler, and what each handler reads, in order.  What is   *)
(* read is a sequence of items; the reader (GplReader) says what reading    *)
(* an item does.                                                           *)
(***************************************************************************)
EXTENDS Naturals, Sequences

Item(what, n) == [what |-> what, n |-> n]

(* n numbers, none of them inside parentheses yet.                         *)
get_parameters(n) == [k \in 1 .. n |-> Item("number", 0)]

None == get_parameters(0)
Complex(use) == <<Item("complex", use)>>    \* the name of an object and a path into it
Read == 0    Write == 1    Record == 2      \* what it is read for
Deeper == <<Item("deeper", 0)>>             \* depth++
Shallower == <<Item("shallower", 0)>>       \* depth--

Flow ==
    [ load_accum |-> get_parameters(1), global_ret |-> None,
      nextto |-> get_parameters(2),     if |-> get_parameters(1) \o Deeper,
      else |-> get_parameters(1),       setrecord |-> Complex(Record) \o get_parameters(1),
      endif |-> Shallower,              clear_los |-> get_parameters(1),
      nametonum |-> get_parameters(1),  numtoname |-> get_parameters(1),
      bitsnoop |-> get_parameters(2),   award |-> get_parameters(2),
      clone |-> get_parameters(6),      ifcompare |-> get_parameters(2),
      orelse |-> get_parameters(1) ]

Deeds ==
    [ clearpic |-> None,                continue |-> None,
      log |-> <<Item("text", 0), Item("free", 0)>>, damage |-> get_parameters(2),
      drop |-> get_parameters(3),       passtime |-> get_parameters(1),
      exit_gpl |-> None,                fetch |-> get_parameters(2),
      search |-> get_parameters(1) \o <<Item("bounds", 0), Item("field", 0)>> ]

Asking ==
    [ getparty |-> get_parameters(1),   fight |-> None,
      flee |-> get_parameters(1),       follow |-> get_parameters(2),
      getyn |-> None,                   give |-> get_parameters(4),
      go |-> get_parameters(2),         goxy |-> get_parameters(3),
      readorders |-> get_parameters(1), setother |-> get_parameters(1),
      input_string |-> get_parameters(1), input_number |-> get_parameters(1),
      input_money |-> get_parameters(1),
      menu |-> get_parameters(1) \o <<Item("menu", 0)>> ]

Showing ==
    [ setthing |-> get_parameters(2),   print_string |-> get_parameters(2),
      print_number |-> get_parameters(2), printnl |-> None,
      rand |-> get_parameters(1),       show_pic |-> get_parameters(1),
      statroll |-> get_parameters(3),   string_compare |-> get_parameters(2),
      take |-> get_parameters(4),       sound |-> get_parameters(1),
      zero |-> None,                    long_div_eq |-> get_parameters(2) ]

Counting ==
    [ byte_dec |-> get_parameters(1),   word_dec |-> get_parameters(1),
      long_dec |-> get_parameters(1),   byte_inc |-> get_parameters(1),
      word_inc |-> get_parameters(1),   long_inc |-> get_parameters(1),
      hunt |-> get_parameters(1),       getxy |-> get_parameters(1),
      string_copy |-> get_parameters(2), pdamage |-> get_parameters(2),
      change_money |-> get_parameters(1), toggle_accum |-> None,
      get_status |-> get_parameters(1), get_los |-> get_parameters(3),
      jump |-> get_parameters(1),       call_local |-> get_parameters(1),
      call_global |-> get_parameters(2), local_ret |-> None ]

Looping ==
    [ compare |-> get_parameters(1) \o Deeper,
      load_variable |-> get_parameters(1) \o <<Item("variable", 0)>>,
      request |-> get_parameters(4),    shop |-> get_parameters(1),
      tport |-> get_parameters(5),      cmpend |-> Shallower,
      wait |-> get_parameters(1),       while |-> get_parameters(1) \o Deeper,
      wend |-> get_parameters(1) \o Shallower ]

Triggers ==
    [ attack_trigger |-> get_parameters(3),   look_trigger |-> get_parameters(3),
      use_trigger |-> get_parameters(3),      move_trigger |-> get_parameters(5),
      door_trigger |-> get_parameters(5),     move_box_trigger |-> get_parameters(7),
      door_box_trigger |-> get_parameters(7), pickup_trigger |-> get_parameters(3),
      talk_to_trigger |-> get_parameters(3),  noorders_trigger |-> get_parameters(3),
      usewith_trigger |-> get_parameters(4),  inlos_trigger |-> get_parameters(4),
      notinlos_trigger |-> get_parameters(4) ]

Operators ==
    [ byte_plus_equal |-> get_parameters(2),  byte_minus_equal |-> get_parameters(2),
      byte_times_equal |-> get_parameters(2), byte_div_equal |-> get_parameters(2),
      word_plus_equal |-> get_parameters(2),  word_minus_equal |-> get_parameters(2),
      word_times_equal |-> get_parameters(2), word_div_equal |-> get_parameters(2),
      long_plus_equal |-> get_parameters(2),  long_minus_equal |-> get_parameters(2),
      long_times_equal |-> get_parameters(2), range |-> get_parameters(2) ]

Tables == {Flow, Deeds, Asking, Showing, Counting, Looping, Triggers, Operators}

Handlers ==
    [handler \in UNION {DOMAIN table : table \in Tables} |->
        (CHOOSE table \in Tables : handler \in DOMAIN table)[handler]]

(* The handler of each opcode from 0 on; gpl_unknown only fails.           *)
gpl_commands ==
    << "zero", "long_div_eq", "byte_dec", "word_dec", "long_dec", "byte_inc", "word_inc", "long_inc",
       "hunt", "getxy", "string_copy", "pdamage", "change_money", "unknown", "toggle_accum", "get_status",
       "get_los", "long_times_equal", "jump", "call_local", "call_global", "local_ret", "load_variable", "compare",
       "load_accum", "global_ret", "nextto", "inlos_trigger", "notinlos_trigger", "clear_los", "nametonum", "numtoname",
       "bitsnoop", "award", "request", "unknown", "shop", "clone", "unknown", "ifcompare",
       "unknown", "orelse", "clearpic", "continue", "log", "damage", "unknown", "drop",
       "passtime", "exit_gpl", "fetch", "search", "getparty", "fight", "flee", "follow",
       "getyn", "give", "go", "unknown", "goxy", "readorders", "if", "else",
       "setrecord", "setother", "input_string", "input_number", "input_money", "unknown", "unknown", "unknown",
       "menu", "setthing", "unknown", "unknown", "unknown", "unknown", "unknown", "print_string",
       "print_number", "printnl", "rand", "unknown", "show_pic", "unknown", "unknown", "unknown",
       "unknown", "statroll", "string_compare", "unknown", "take", "sound", "tport", "unknown",
       "unknown", "cmpend", "wait", "while", "wend", "attack_trigger", "look_trigger", "endif",
       "move_trigger", "door_trigger", "move_box_trigger", "door_box_trigger", "pickup_trigger", "use_trigger", "talk_to_trigger", "noorders_trigger",
       "usewith_trigger", "unknown", "unknown", "unknown", "unknown", "unknown", "byte_plus_equal", "byte_minus_equal",
       "byte_times_equal", "byte_div_equal", "word_plus_equal", "word_minus_equal", "word_times_equal", "word_div_equal", "long_plus_equal", "long_minus_equal",
       "range" >>

Commands == 0 .. 128

Handler(command) == gpl_commands[command + 1]

(* The commands that may answer a value inside an expression.              *)
Answering ==
    { 15, 16, 30, 31, 32, 34, 37, 47, 51, 52, 56, 57, 61, 65, 73, 82, 90, 92, 89, 128, 26 }
=============================================================================
