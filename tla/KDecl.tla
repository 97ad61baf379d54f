------------------------------- MODULE KDecl -------------------------------
(***************************************************************************)
(* The symbols of a configuration as the Kconfig files declare them, and   *)
(* what a program has in memory of them (verilator/tools/kconfig/expr.h,   *)
(* struct symbol).                                                         *)
(***************************************************************************)
EXTENDS Integers, Sequences
LOCAL INSTANCE Functions

CONSTANTS
  Decl     \* what parser.y and menu_finalize make of the entries of Kconfig

\* A symbol has at most one prompt, of which its condition is left; a list of
\* conditional values has its conditions in if; mentions are the symbols that
\* its expressions, selects and implies name; sources list the symbols in the
\* order of the menus.
None == "none"
Type(s) == Decl[s].type
IsChoice(s) == Decl[s].members # <<>>
IsValue(s) == Decl[s].choice # None
HasPrompt(s) == Decl[s].prompt # <<>>

Logical == {"BOOLEAN", "TRISTATE"}
Empty(s) == IF Type(s) \in Logical THEN "n" ELSE ""

\* The state of the symbols of a source behind conf_parse: curr, def[S_DEF_USER]
\* and visible, dir_dep, rev_dep, implied of each; the picks are curr.val and
\* def.val of a choice.  The flags are sets.  modules is modules_val, changed
\* is whether sym_change_count is not 0.
Blank(source) ==
  LET all(v) == [s \in DOMAIN Decl |-> v]
      empty == [s \in DOMAIN Decl |-> Empty(s)]
  IN [source |-> source, curr |-> empty, def |-> empty, pick |-> all(None), defpick |-> all(None),
      visible |-> all(0), dir |-> all(0), rev |-> all(0), imply |-> all(0),
      valid |-> {}, write |-> {}, user |-> {}, need |-> {}, modules |-> FALSE, changed |-> FALSE]

\* The symbols that the source declares, and those that sym_find finds: a name
\* that it only mentions is a symbol of no type (sym_lookup, S_UNKNOWN).
Symbols(st) == Range(st.source)
Found(st) == Symbols(st) \cup UNION {Decl[s].mentions : s \in Symbols(st)}
sym_is_changeable(st, s) == st.visible[s] > st.rev[s]
=============================================================================
