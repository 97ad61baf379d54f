----------------------------- MODULE KConfData -----------------------------
(***************************************************************************)
(* Configuration files (verilator/tools/kconfig/confdata.c): what a file   *)
(* does to the symbols when it is read, and the lines that are written.    *)
(* A line is a symbol and its text; "# CONFIG_X is not set" is the text n. *)
(* Headings and comments are left out.                                     *)
(***************************************************************************)
EXTENDS KSymbol

Line(s, text) == [sym |-> s, text |-> text]
-----------------------------------------------------------------------------
\* What conf_set_sym_val takes for a value.
Accepted(s, text) == IF Type(s) = "BOOLEAN" THEN text \in {"y", "n"} ELSE sym_string_valid(s, text)

\* A value of a choice sets the choice too: one that is y is picked.
SetChoice(acc, s) ==
  LET choice == Decl[s].choice
      text == acc.st.def[s]
      before == acc.st.def[choice]
      joined == Tri2Text(Maximum(TriNumber(before), TriNumber(text)))
  IN [st |-> [acc.st EXCEPT
                !.def[choice] = joined,
                !.defpick[choice] = IF text = "y" THEN s ELSE @,
                !.user = IF text = "m" /\ before = "y" THEN @ \ {choice} ELSE @],
      warned |-> acc.warned \/ (text = "m" /\ before = "y") \/ (text = "y" /\ before # "n")]

\* A line of a symbol that is not there is dropped, so the file has to be
\* written; one of a symbol that has no type is dropped without that.
ReadLine(acc, line) ==
  LET s == line.sym
      again == s \in acc.st.user
      set == [st |-> [acc.st EXCEPT !.def[s] = line.text, !.user = @ \cup {s}],
              warned |-> acc.warned \/ again]
  IN IF s \notin Found(acc.st) THEN [acc EXCEPT !.st.changed = TRUE]
     ELSE IF s \notin Symbols(acc.st) THEN acc
     ELSE IF ~Accepted(s, line.text) THEN [acc EXCEPT !.warned = TRUE]
     ELSE IF IsValue(s) THEN SetChoice(set, s) ELSE set

\* For S_DEF_USER, of a file that is there.
conf_read_simple(st, lines) ==
  LET none == [s \in DOMAIN st.def |-> None]
      cleared == [st EXCEPT !.valid = {}, !.user = {s \in Symbols(st) : IsChoice(s)},
                            !.def = [s \in DOMAIN st.def |-> Empty(s)], !.defpick = none]
  IN FoldLeft(ReadLine, [st |-> cleared, warned |-> FALSE], lines)

CalcModules(st) == IF Modules \in Symbols(st) THEN sym_calc_value(st, Modules) ELSE st

\* The first loop of conf_read: the file does not say what the symbol is.
Unsaved(st, s) ==
  /\ ~IsChoice(s)
  /\ IF s \in st.user /\ s \in st.write THEN st.def[s] # st.curr[s]
     ELSE s \in st.user \/ s \in st.write

\* The second loop: the user's value is forgotten where it is not seen, and
\* where it is out of range.
Unseen(acc, s) ==
  IF acc.st.visible[s] = 0 /\ ~acc.unsaved THEN [acc EXCEPT !.st.user = @ \ {s}] ELSE acc

OutOfRange(acc, s) ==
  IF Type(s) \in Logical \/ WithinRange(FirstHolding(acc.st, Decl[s].range, 1), s, acc.st.def[s])
  THEN acc
  ELSE [acc EXCEPT !.st.user = @ \ {s}, !.st.valid = @ \ {s}, !.unsaved = TRUE]

Forget(acc, s) ==
  IF s \notin acc.st.user \/ IsValue(s) THEN acc ELSE OutOfRange(Unseen(acc, s), s)

\* conf_read of a file that is there (files has its lines), or is not.
Checked(st, warned) ==
  [st |-> st, unsaved |-> \E s \in Symbols(st) : Unsaved(st, s), warned |-> warned]
Calculated(st) == CalcAll(CalcModules(st), st.source)
Loaded(read) == FoldLeft(Forget, Checked(Calculated(read.st), read.warned), read.st.source)
Unsettled(acc) == [acc.st EXCEPT !.changed = @ \/ acc.warned \/ acc.unsaved]

conf_read(st, files) ==
  IF files = <<>> THEN [CalcModules(st) EXCEPT !.changed = TRUE]
  ELSE Unsettled(Loaded(conf_read_simple([st EXCEPT !.changed = FALSE], files[1])))
-----------------------------------------------------------------------------
\* Lines in the order of the menus, those that Lines gives of each symbol.
Collect(st, Lines(_, _)) ==
  LET also(lines, calc, s) == [st |-> calc, lines |-> lines \o Lines(calc, s)]
  IN FoldLeft(LAMBDA acc, s : also(acc.lines, sym_calc_value(acc.st, s), s),
              [st |-> st, lines |-> <<>>], SelectSeq(st.source, LAMBDA s : ~IsChoice(s)))

\* conf_write, up to the temporary file.
WrittenLine(st, s) == IF s \in st.write THEN <<Line(s, sym_get_string_value(st, s))>> ELSE <<>>
conf_lines(st) == Collect(IF st.changed THEN st ELSE sym_clear_all_valid(st), WrittenLine)

\* conf_write_autoconf: nothing is written of what is n.
AutoLine(st, s) ==
  IF Type(s) \in Logical /\ st.curr[s] = "n" THEN <<>> ELSE WrittenLine(st, s)
auto_lines(st) == Collect(st, AutoLine)

\* sym_get_string_default, with the transpositions of m in their order; the
\* default of a text is not looked at further.
DefaultAtMost(first) ==
  IF first.found THEN Minimum(Value(first.st, first.prop.val), first.tri) ELSE 0

DefaultString(first, s) ==
  LET selected == Maximum(DefaultAtMost(first), first.st.rev[s])
      whole == IF selected = 1 /\ ((~IsValue(s) /\ ~first.st.modules) \/ Type(s) = "BOOLEAN")
               THEN 2 ELSE selected
  IN IF Type(s) \in Logical THEN Tri2Text(Maximum(whole, first.st.imply[s]))
     ELSE IF first.found THEN TextOf(first.st, first.prop.val) ELSE ""

sym_get_string_default(st, s) ==
  DefaultString(FirstHolding(CalcModules(sym_calc_visibility(st, s)), Decl[s].defaults, 1), s)

\* The value that a choice has by itself.
DefaultOfChoice(st, s) ==
  /\ IsValue(s) /\ ~Decl[Decl[s].choice].optional
  /\ sym_choice_default(st, Decl[s].choice, 1).pick[Decl[s].choice] = s
  /\ Type(s) = "BOOLEAN" /\ st.curr[s] = "y"

\* Slip: what a choice has by itself is not told from what it is set to.
NoDefaultIsSetLater(st, s) ==
  s \in st.write /\ sym_is_changeable(st, s) /\ ~IsValue(s)
    /\ sym_get_string_value(st, s) # sym_get_string_default(st, s)

NoDefault(st, s) ==
  /\ s \in st.write
  /\ sym_is_changeable(st, s)
  /\ sym_get_string_value(st, s) # sym_get_string_default(st, s)
  /\ ~DefaultOfChoice(st, s)

MinimalLine(st, s) == IF NoDefault(st, s) THEN WrittenLine(st, s) ELSE <<>>
defconfig_lines(st) == Collect(sym_clear_all_valid(st), MinimalLine)

-----------------------------------------------------------------------------
\* conf_set_all_new_symbols: the symbols that have no value yet get the one of
\* the mode; a choice gets it with its values.
NewValue(st, mode) ==
  LET new == {s \in Symbols(st) : s \notin st.user \cup st.valid /\ Type(s) \in Logical}
      set == [st EXCEPT !.def = [s \in DOMAIN st.def |-> IF s \in new THEN mode ELSE st.def[s]],
                        !.user = @ \cup new]
  IN sym_clear_all_valid(IF mode = "default" THEN st ELSE set)

SettleChoice(st, s) ==
  IF ~IsChoice(s) \/ s \in st.user THEN st ELSE set_all_choice_values(sym_calc_value(st, s), s)

conf_set_all_new_symbols(st, mode) ==
  LET set == NewValue(st, mode)
      need == {s \in Symbols(st) : IsValue(s) \/ (IsChoice(s) /\ s \notin set.user)}
  IN FoldLeft(SettleChoice, [set EXCEPT !.need = @ \cup need], st.source)

\* For randconfig: the states it may leave.  One value of a choice that is y
\* is taken; a symbol that depends on it may then turn a choice to y, so it is
\* done again.
Random(st) ==
  LET new == {s \in Symbols(st) : s \notin st.user \cup st.valid /\ Type(s) \in Logical}
      texts(s) == IF Type(s) = "BOOLEAN" THEN {"n", "y"} ELSE Tristate
      draws == {d \in [new -> Tristate] : \A s \in new : d[s] \in texts(s)}
  IN {sym_clear_all_valid([st EXCEPT
        !.def = [s \in DOMAIN st.def |-> IF s \in new THEN d[s] ELSE st.def[s]],
        !.user = @ \cup {s \in new : ~IsChoice(s)}]) : d \in draws}

RandomPick(st, s, pick) ==
  LET members == Range(Decl[s].members)
  IN [st EXCEPT !.def = [v \in DOMAIN st.def |-> IF v = pick THEN "y" ELSE IF v \in members THEN "n"
                                                 ELSE st.def[v]],
                !.defpick[s] = pick, !.user = @ \cup members \cup {s}, !.valid = @ \ (members \cup {s})]

randomize_choice_values(st, s) ==
  LET calc == sym_calc_value(st, s)
  IN IF calc.curr[s] # "y" THEN {calc} ELSE {RandomPick(calc, s, v) : v \in Range(Decl[s].members)}

RandomChoices(st) ==
  LET open == SelectSeq(st.source, LAMBDA s : IsChoice(s))
  IN FoldLeft(LAMBDA states, s : UNION {IF t \in states /\ s \in t.user THEN {t}
                                        ELSE randomize_choice_values(t, s) : t \in states}, {st}, open)

RECURSIVE conf_random(_)
conf_random(st) ==
  LET set == UNION {RandomChoices(t) : t \in Random(st)}
      more(t) == t.user # st.user
  IN UNION {IF more(t) THEN conf_random(t) ELSE {t} : t \in set}

\* conf_rewrite_mod_or_yes
conf_rewrite_mod_or_yes(st, old, new) ==
  sym_clear_all_valid([st EXCEPT
    !.def = [s \in DOMAIN st.def |-> IF sym_get_type(st, s) = "TRISTATE" /\ st.def[s] = old
                                   THEN new ELSE st.def[s]]])
=============================================================================
