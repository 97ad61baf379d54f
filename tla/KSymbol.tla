------------------------------ MODULE KSymbol ------------------------------
(***************************************************************************)
(* The symbols of a configuration (verilator/tools/kconfig/symbol.c).      *)
(* Values are calculated on demand and kept (SYMBOL_VALID) until something *)
(* that they depend on may have changed.  Calculating one symbol           *)
(* calculates those it depends on first and sets more of its fields than   *)
(* its value, so the operators take the state of all symbols, st, and      *)
(* return the one they leave behind.                                       *)
(***************************************************************************)
EXTENDS KExpr, KDecl

Modules == "MODULES"

ASSUME DeclAssumption ==
  /\ DOMAIN SymType = DOMAIN Decl
  /\ \A s \in DOMAIN Decl : SymType[s] = Decl[s].type

Numeric == {"INT", "HEX"}
Tri2Text(tri) == CASE tri = 0 -> "n" [] tri = 1 -> "m" [] tri = 2 -> "y"

sym_get_type(st, s) ==
  IF Type(s) = "TRISTATE" /\ ((IsValue(s) /\ st.visible[s] = 2) \/ ~st.modules)
  THEN "BOOLEAN" ELSE Type(s)

\* yes for mod where there is no mod.
Settled(st, s, tri) == IF tri = 1 /\ sym_get_type(st, s) = "BOOLEAN" THEN 2 ELSE tri
-----------------------------------------------------------------------------
RECURSIVE sym_calc_value(_, _)

\* expr_calc_value in a program: the operands are calculated, all of them.
\* What no entry of the source declares is n (as a text it would be its own
\* name, but the menus compare no such symbol).
Calc(st, s) == IF s \in Range(st.source) THEN sym_calc_value(st, s) ELSE st

RECURSIVE Asked(_, _)
Asked(st, e) ==
  CASE e.type \in {"AND", "OR"} -> Asked(Asked(st, e.left), e.right)
    [] e.type = "NOT" -> Asked(st, e.arg)
    [] e.type = "SYMBOL" -> Calc(st, e.sym)
    [] e.type \in Comparisons -> Calc(Calc(st, e.sym), e.than)
    [] OTHER -> st

Value(st, e) == expr_calc_value(e, st.curr)

\* sym_get_default_prop, sym_get_range_prop: the first of the properties whose
\* condition holds; those behind it are not looked at.
RECURSIVE FirstHolding(_, _, _)
FirstFrom(asked, props, i) ==
  IF Value(asked, props[i].if) = 0 THEN FirstHolding(asked, props, i + 1)
  ELSE [st |-> asked, found |-> TRUE, prop |-> props[i], tri |-> Value(asked, props[i].if)]

FirstHolding(st, props, i) ==
  IF i > Len(props) THEN [st |-> st, found |-> FALSE] ELSE FirstFrom(Asked(st, props[i].if), props, i)

PromptVisible(st, s) ==
  LET tri == Value(st, Decl[s].prompt[1])
  IN IF IsValue(s) /\ Type(s) = "TRISTATE" /\ tri = 1 /\ st.curr[Decl[s].choice] = "y" THEN 0 ELSE tri

Prompted(st, s) ==
  LET tri == PromptVisible(st, s)
  IN [st EXCEPT !.visible[s] = IF tri = 1 /\ (Type(s) # "TRISTATE" \/ ~st.modules) THEN 2 ELSE tri]

\* The limits of a symbol's value: dir_dep, rev_dep, implied.
LimitTo(st, s, field) ==
  [st EXCEPT ![field][s] = Settled(st, s, Value(st, Decl[s][field]))]
Limit(st, s, field) == LimitTo(Asked(st, Decl[s][field]), s, field)

sym_calc_visibility(st, s) ==
  LET seen == IF HasPrompt(s) THEN Prompted(Asked(st, Decl[s].prompt[1]), s)
              ELSE [st EXCEPT !.visible[s] = 0]
  IN IF IsValue(s) THEN seen ELSE Limit(Limit(Limit(seen, s, "dir"), s, "rev"), s, "imply")

FirstVisible(st, members) ==
  LET shown == {i \in DOMAIN members : st.visible[members[i]] # 0}
  IN IF shown = {} THEN None ELSE members[CHOOSE i \in shown : \A j \in shown : i <= j]

\* A default that is not visible is passed over.  pick is the choice's value.
RECURSIVE sym_choice_default(_, _, _)
DefaultFrom(asked, s, i) ==
  IF Value(asked, Decl[s].defaults[i].if) # 0 /\ asked.visible[Decl[s].defaults[i].val.sym] # 0
  THEN [asked EXCEPT !.pick[s] = Decl[s].defaults[i].val.sym]
  ELSE sym_choice_default(asked, s, i + 1)

sym_choice_default(st, s, i) ==
  IF i > Len(Decl[s].defaults) THEN [st EXCEPT !.pick[s] = FirstVisible(st, Decl[s].members)]
  ELSE DefaultFrom(Asked(st, Decl[s].defaults[i].if), s, i)

\* A choice of which a visible value is new is new itself; one without a value
\* to pick is n.
NewIfValuesAre(st, s) ==
  IF \E v \in Range(Decl[s].members) : st.visible[v] # 0 /\ v \notin st.user
  THEN [st EXCEPT !.user = @ \ {s}] ELSE st

ChoiceValue(st, s) ==
  IF st.defpick[s] # None /\ st.visible[st.defpick[s]] # 0
  THEN [st EXCEPT !.pick[s] = st.defpick[s]] ELSE sym_choice_default(st, s, 1)

NoWithoutValue(st, s) == IF st.pick[s] = None THEN [st EXCEPT !.curr[s] = "n"] ELSE st

RECURSIVE Visibilities(_, _)
Visibilities(st, members) ==
  IF members = <<>> THEN st ELSE Visibilities(sym_calc_visibility(st, Head(members)), Tail(members))

sym_calc_choice(st, s) ==
  NoWithoutValue(ChoiceValue(NewIfValuesAre(Visibilities(st, Decl[s].members), s), s), s)

\* A value on its way, and the state that finding it has left behind.
Own(st, tri) == [st |-> st, tri |-> tri]

\* The default, and what others imply.
AtMost(asked, first) == Own(asked, Minimum(Value(asked, first.prop.val), first.tri))
DefaultOf(first) ==
  IF first.found THEN AtMost(Asked(first.st, first.prop.val), first) ELSE Own(first.st, 0)

Implied(own, s) ==
  LET implied == own.st.imply[s]
  IN Own(IF own.tri # 0 \/ implied # 0 THEN [own.st EXCEPT !.write = @ \cup {s}] ELSE own.st,
         IF implied # 0 THEN Minimum(Maximum(own.tri, implied), own.st.dir[s]) ELSE own.tri)

OwnTristate(st, s) ==
  IF st.visible[s] # 0 /\ s \in st.user THEN Own(st, Minimum(TriNumber(st.def[s]), st.visible[s]))
  ELSE IF IsChoice(s) THEN Own(st, 0)
  ELSE Implied(DefaultOf(FirstHolding(st, Decl[s].defaults, 1)), s)

Raised(own, s) ==
  [own.st EXCEPT !.curr[s] = Tri2Text(Settled(own.st, s, Maximum(own.tri, own.st.rev[s])))]

calc_tristate(st, s) ==
  IF IsValue(s) /\ st.visible[s] = 2
  THEN [st EXCEPT !.curr[s] = IF st.pick[Decl[s].choice] = s THEN "y" ELSE "n"]
  ELSE Raised(OwnTristate(IF st.rev[s] # 0 /\ (st.visible[s] = 0 \/ s \notin st.user)
                          THEN [st EXCEPT !.write = @ \cup {s}] ELSE st, s), s)

\* The text of a symbol, which is asked for here, or of a constant.
TextOf(st, e) == Text(e.sym, Asked(st, e).curr)

DefaultText(first, s) ==
  IF first.found THEN [first.st EXCEPT !.curr[s] = TextOf(first.st, first.prop.val),
                                       !.write = @ \cup {s}]
  ELSE first.st

calc_string(st, s) ==
  IF st.visible[s] # 0 /\ s \in st.user THEN [st EXCEPT !.curr[s] = st.def[s]]
  ELSE DefaultText(FirstHolding(st, Decl[s].defaults, 1), s)

\* strtoll of a text that is no number.
Number(text, s) == IF IsNumber(text, Base(Type(s))) THEN NumberOf(text, Base(Type(s))) ELSE 0

\* The numbers of a range.
Clamped(st, s, low, high) ==
  IF Number(st.curr[s], s) < Number(low, s) THEN [st EXCEPT !.curr[s] = low]
  ELSE IF Number(st.curr[s], s) > Number(high, s) THEN [st EXCEPT !.curr[s] = high]
  ELSE st

ClampedBy(first, s) ==
  IF first.found
  THEN Clamped(first.st, s, TextOf(first.st, first.prop.low), TextOf(first.st, first.prop.high))
  ELSE first.st

sym_validate_range(st, s) ==
  IF Type(s) \in Numeric THEN ClampedBy(FirstHolding(st, Decl[s].range, 1), s) ELSE st

set_all_choice_values(st, s) ==
  [st EXCEPT !.def = [v \in DOMAIN st.def |->
                        IF v \in Range(Decl[s].members) \ st.user THEN "n" ELSE st.def[v]],
             !.user = @ \cup {s}, !.valid = @ \ {s}, !.need = @ \ {s}]

\* Behind the value: the values of a choice are written with it, and a choice
\* itself never is.
ModulesSet(st, s) == IF s = Modules THEN [st EXCEPT !.modules = st.curr[s] # "n"] ELSE st

ChoiceWritten(st, s) ==
  IF ~IsChoice(s) THEN st
  ELSE [st EXCEPT !.write =
          (@ \cup IF s \in @ THEN {v \in Range(Decl[s].members) : st.visible[v] # 0} ELSE {}) \ {s}]

AfterValue(st, s) ==
  IF IsChoice(s) /\ s \in st.need THEN set_all_choice_values(ChoiceWritten(st, s), s)
  ELSE ChoiceWritten(ModulesSet(st, s), s)

\* The value is the empty one while the symbols it depends on are calculated.
Needed(st, s) ==
  IF IsValue(s) /\ s \in st.need THEN sym_calc_value([st EXCEPT !.need = @ \ {s}], Decl[s].choice) ELSE st

Begun(st, s) ==
  [st EXCEPT !.curr[s] = Empty(s), !.write = IF st.visible[s] # 0 THEN @ \cup {s} ELSE @ \ {s}]

Valued(st, s) == IF Type(s) \in Logical THEN calc_tristate(st, s) ELSE calc_string(st, s)
Picked(st, s) == IF IsChoice(s) /\ st.curr[s] = "y" THEN sym_calc_choice(st, s) ELSE st

sym_calc_value(st, s) ==
  LET marked(t) == [t EXCEPT !.valid = @ \cup {s}, !.write = @ \ {s}]
      begun == Begun(sym_calc_visibility(marked(Needed(st, s)), s), s)
  IN IF s \in st.valid THEN st
     ELSE AfterValue(sym_validate_range(Picked(Valued(begun, s), s), s), s)

\* Slip: SYMBOL_VALID of the symbol that was set is cleared and no other.
clear_all_valid_modules(st) == [st EXCEPT !.valid = @ \cap {Modules}, !.changed = TRUE]

\* The symbols, one after the other.
RECURSIVE CalcAll(_, _)
CalcAll(st, symbols) ==
  IF symbols = <<>> THEN st ELSE CalcAll(sym_calc_value(st, Head(symbols)), Tail(symbols))

sym_clear_all_valid(st) ==
  LET cleared == [st EXCEPT !.valid = {}, !.changed = TRUE]
  IN IF Modules \in Range(st.source) THEN sym_calc_value(cleared, Modules) ELSE cleared
-----------------------------------------------------------------------------
(***************************************************************************)
(* Setting a symbol; the states that a call may leave, none if it refuses. *)
(***************************************************************************)
sym_tristate_within_range(st, s, tri) ==
  /\ st.visible[s] # 0
  /\ sym_get_type(st, s) \in Logical
  /\ tri = 1 => sym_get_type(st, s) # "BOOLEAN"
  /\ st.visible[s] > st.rev[s]
  /\ IF IsValue(s) /\ st.visible[s] = 2 THEN tri = 2
     ELSE tri >= st.rev[s] /\ tri <= st.visible[s]

\* To set a value of a choice picks it, and all its values are not new.
PickedByUser(st, s) ==
  LET choice == Decl[s].choice
  IN [st EXCEPT !.defpick[choice] = s,
        !.user = @ \cup {choice} \cup {v \in Range(Decl[choice].members) : st.visible[v] # 0}]

Refused(st, s, tri) == TriNumber(st.curr[s]) # tri /\ ~sym_tristate_within_range(st, s, tri)

sym_set_tristate_value(st, s, tri) ==
  LET flagged == [st EXCEPT !.user = @ \cup {s}]
      picked == IF IsValue(s) /\ tri = 2 THEN PickedByUser(flagged, s) ELSE flagged
      set == [picked EXCEPT !.def[s] = Tri2Text(tri)]
  IN IF Refused(st, s, tri) THEN {}
     ELSE {IF TriNumber(st.curr[s]) # tri THEN sym_clear_all_valid(set) ELSE set}

\* sym_toggle_tristate_value: the next value that is not refused.
sym_toggle_tristate_value(st, s) ==
  LET next(k) == (TriNumber(st.curr[s]) + k) % 3
      k == CHOOSE k \in 1 .. 3 : ~Refused(st, s, next(k)) /\ \A j \in 1 .. k - 1 : Refused(st, s, next(j))
  IN sym_set_tristate_value(st, s, next(k))

sym_string_valid(s, text) ==
  CASE Type(s) = "STRING" -> TRUE
    [] Type(s) \in Numeric -> IsNumber(text, Base(Type(s))) /\ (Type(s) = "HEX" => text # "-1")
    [] OTHER -> text \in Tristate

\* sym_string_within_range, with the range that holds.
WithinRange(first, s, text) ==
  /\ sym_string_valid(s, text)
  /\ Type(s) \in Numeric /\ first.found =>
       /\ Number(text, s) >= Number(TextOf(first.st, first.prop.low), s)
       /\ Number(text, s) <= Number(TextOf(first.st, first.prop.high), s)

\* For what is not a tristate.  A text that def holds already is left alone.
TextSet(first, s, text) ==
  LET flagged == [first.st EXCEPT !.user = @ \cup {s}]
  IN IF ~WithinRange(first, s, text) THEN {}
     ELSE {IF first.st.def[s] = text THEN flagged
           ELSE sym_clear_all_valid([flagged EXCEPT !.def[s] = text])}

sym_set_string_value(st, s, text) == TextSet(FirstHolding(st, Decl[s].range, 1), s, text)

\* sym_get_string_value: m is n where there are no modules.
sym_get_string_value(st, s) ==
  IF st.curr[s] = "m" /\ ~st.modules /\ Type(s) \in Logical THEN "n" ELSE st.curr[s]
=============================================================================
