------------------------------- MODULE KConf -------------------------------
(***************************************************************************)
(* What the sessions of KSession call: looking at menus, asking for and    *)
(* setting symbols, as conf and mconf do it                                *)
(* (verilator/tools/kconfig/conf.c and mconf.c).                           *)
(***************************************************************************)
EXTENDS KConfData, KSession, TLC

CONSTANTS
  Texts        \* what a user may type at a prompt for a text
-----------------------------------------------------------------------------
\* menu_is_visible of a symbol's menu.  A choice that is not seen is, when it
\* is not n, where one of its values is; it counts as set by the user then.
Inside(t, s) ==
  IF \E v \in Range(Decl[s].members) : t.visible[v] # 0
  THEN [st |-> [t EXCEPT !.user = @ \cup {s}], yes |-> TRUE] ELSE [st |-> t, yes |-> FALSE]

VisibleMenu(t, s) ==
  IF t.visible[s] # 0 THEN [st |-> t, yes |-> TRUE]
  ELSE IF t.curr[s] = "n" THEN [st |-> t, yes |-> FALSE]
  ELSE Inside(CalcAll(t, Decl[s].members), s)

menu_is_visible(s0, s) ==
  IF HasPrompt(s) THEN VisibleMenu(sym_calc_value(s0, s), s) ELSE [st |-> s0, yes |-> FALSE]

Shown(s0) ==
  LET next(acc, s) == IF IsValue(s) /\ ~acc.open THEN acc ELSE Seen(acc, menu_is_visible(acc.st, s), s)
  IN FoldLeft(next, [st |-> s0, open |-> FALSE], s0.source).st

\* conf_askvalue: whether an answer is read.
Asks(t, s0, s) == sym_is_changeable(s0, s) /\ (t = "oldaskconfig" \/ s \notin s0.user)

\* conf_sym, conf_string: the states after the answers that are not refused.
conf_sym(t, s0, s) ==
  IF Asks(t, s0, s) THEN UNION {sym_set_tristate_value(s0, s, tri) : tri \in 0 .. 2} ELSE {s0}

conf_string(t, s0, s) ==
  IF Asks(t, s0, s)
  THEN UNION {sym_set_string_value(s0, s, text) : text \in Texts \cup {s0.curr[s]}} ELSE {s0}

\* conf_choice: a choice that is y asks for the value to pick, unless there is
\* but one, or it is not new.
sym_set_choice_value(s0, v) ==
  LET set == sym_set_tristate_value(s0, v, 2)
  IN IF set = {} THEN {s0} ELSE set

PickOne(t, s0, s, new) ==
  LET shown == {v \in Range(Decl[s].members) : s0.visible[v] # 0}
      offered == IF Cardinality(shown) = 1 \/ new \/ t = "oldaskconfig" THEN shown
                 ELSE shown \cap {s0.pick[s]}
  IN UNION {sym_set_choice_value(s0, v) : v \in offered}

Choose(t, calc, s, new) ==
  IF calc.curr[s] = "y" THEN PickOne(t, CalcAll(calc, Decl[s].members), s, new)
  ELSE {calc}

conf_choice(t, s0, s) ==
  LET set == IF sym_is_changeable(s0, s) THEN conf_sym(t, s0, s) ELSE {s0}
  IN UNION {Choose(t, sym_calc_value(s1, s), s, s \notin s0.user) : s1 \in set}

\* conf of one menu, if it is visible.  The values of a choice are looked at
\* where it is m.
Answered(t, menu, s) ==
  IF ~menu.yes THEN {menu.st}
  ELSE IF IsChoice(s) THEN conf_choice(t, menu.st, s)
  ELSE IF Type(s) \in Logical THEN conf_sym(t, menu.st, s)
  ELSE conf_string(t, menu.st, s)

conf(t, s0, s) ==
  IF IsValue(s) /\ s0.curr[Decl[s].choice] # "m" THEN {s0}
  ELSE Answered(t, menu_is_visible(s0, s), s)
-----------------------------------------------------------------------------
\* What a program does before it asks or writes: conf_parse, conf_read, the
\* mode; the states that it may reach.
AllNew == ("allnoconfig" :> "n") @@ ("allyesconfig" :> "y") @@ ("allmodconfig" :> "m")
            @@ ("alldefconfig" :> "default") @@ ("defconfig" :> "default")
Rewritten == ("yes2modconfig" :> <<"y", "m">>) @@ ("mod2yesconfig" :> <<"m", "y">>)

Set(t, s0) ==
  CASE t = "menuconfig" -> {Shown(s0)}
    [] t \in DOMAIN AllNew -> {conf_set_all_new_symbols(s0, AllNew[t])}
    [] t = "randconfig" -> conf_random(s0)
    [] t \in DOMAIN Rewritten ->
         {conf_rewrite_mod_or_yes(s0, Rewritten[t][1], Rewritten[t][2])}
    [] OTHER -> {s0}

Prepared(t, blank, files) ==
  Set(t, IF t \in (DOMAIN AllNew \ {"defconfig"}) \cup {"randconfig"} THEN blank
         ELSE conf_read(blank, files))

\* A key of mconf's menus: y (m where y is refused), n, m and space; a text is
\* typed, and a choice that is y opens its radiolist.  Its values have no items
\* of their own then.
KeyOf(s0, s) ==
  LET set(tri) == sym_set_tristate_value(s0, s, tri)
  IN (IF set(2) # {} THEN set(2) ELSE set(1)) \cup set(0) \cup set(1)
       \cup sym_toggle_tristate_value(s0, s)

RadioList(s0, s) ==
  UNION {sym_set_tristate_value(s0, v, 2) : v \in {v \in Range(Decl[s].members) : s0.visible[v] # 0}}

Keys(s0, s) ==
  IF Type(s) \notin Logical THEN UNION {sym_set_string_value(s0, s, text) : text \in Texts}
  ELSE IF IsValue(s) /\ s0.curr[Decl[s].choice] = "y" THEN {}
  ELSE IF IsChoice(s) /\ s0.curr[s] = "y" THEN KeyOf(s0, s) \cup RadioList(s0, s)
  ELSE IF IsChoice(s) /\ ~sym_is_changeable(s0, s) THEN {}
  ELSE KeyOf(s0, s)

\* What a step of a session calls, as functions of the symbols in memory.
Memory ==
  LET all(S) == [Names -> S]
  IN [source : {p.sources[i] : <<p, i>> \in UNION {{p} \X DOMAIN p.sources : p \in Plans}},
      curr : all(STRING), def : all(STRING), pick : all(STRING), defpick : all(STRING),
      visible : all(0 .. 2), dir : all(0 .. 2), rev : all(0 .. 2), imply : all(0 .. 2),
      valid : SUBSET Names, write : SUBSET Names, user : SUBSET Names, need : SUBSET Names,
      modules : BOOLEAN, changed : BOOLEAN]
Lists == Seq([sym : Names, text : STRING])

KCalls ==
  [prepared   |-> [t \in Tools, s0 \in Memory, files \in Seq(Lists) |-> Prepared(t, s0, files)],
   menu       |-> [s0 \in Memory, s \in Names |-> menu_is_visible(s0, s)],
   answered   |-> [t \in Tools, s0 \in Memory, s \in Names |-> conf(t, s0, s)],
   shown      |-> [s0 \in Memory |-> Shown(s0)],
   pressed    |-> [s0 \in Memory, s \in Names |-> {Shown(s1) : s1 \in Keys(s0, s)}],
   calculated |-> [s0 \in Memory |-> Calculated(s0)],
   lines      |-> [s0 \in Memory |-> conf_lines(s0)],
   auto       |-> [s0 \in Memory |-> auto_lines(s0)],
   minimal    |-> [s0 \in Memory |-> defconfig_lines(s0)]]
-----------------------------------------------------------------------------
\* A value that is marked valid is the one that calculating it now would give
\* (expr.h:91, SYMBOL_VALID; symbol.c:334).
UpToDate ==
  [][\A s \in st'.valid : sym_calc_value([st' EXCEPT !.valid = {}], s).curr[s] = st'.curr[s]]_st

\* Reading what has just been written gives the values back, and nothing to be
\* saved again; reading a minimal configuration and taking the defaults for
\* the rest does too (confdata.c:746).  auto.conf has the value of what is
\* written, and no other line (confdata.c:1075).
SameValues(s0, s1) ==
  \A s \in Symbols(s0) : IsChoice(s) \/ Calculated(s0).curr[s] = Calculated(s1).curr[s]

ReadsBack ==
  [][/\ (at.phase = "same" =>
           LET back == conf_read(Blank(Source), <<disk["config.tmp"]>>)
           IN ~back.changed /\ SameValues(st, back))
     /\ (at.phase = "minimal" =>
           LET back == conf_read(Blank(Source), <<defconfig_lines(st).lines>>)
           IN SameValues(st, conf_set_all_new_symbols(back, "default")))
     /\ AutoTells]_vars

\* The questions come to an end, and when they do there is no symbol that the
\* user could have set and was not asked for (conf.c:690).
NothingNew ==
  /\ at.phase = "asking" ~> at.phase # "asking"
  /\ [][at.phase = "asking" /\ at'.phase \in {"save", "deps"} =>
          \A s \in Symbols(st) : ~IsNew(menu_is_visible(st, s), s)]_vars
=============================================================================
