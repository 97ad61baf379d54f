------------------------------- MODULE KExpr -------------------------------
(***************************************************************************)
(* Dependency expressions of Kconfig (verilator/tools/kconfig/expr.c):     *)
(* their value in the logic of n < m < y, the rewriting that menu_finalize *)
(* puts every one of them through, and how they are printed.  An operator  *)
(* that rewrites returns the rewritten tree; Null is a null pointer.       *)
(***************************************************************************)
EXTENDS Integers, Sequences, SequencesExt, FiniteSets

CONSTANTS
  SymType   \* the types of the symbols that are not constants, by name

Null == [type |-> "NULL"]
Sym(s) == [type |-> "SYMBOL", sym |-> s]
Not(e) == [type |-> "NOT", arg |-> e]
Two(type, e1, e2) == [type |-> type, left |-> e1, right |-> e2]
Comp(type, s1, s2) == [type |-> type, sym |-> s1, than |-> s2]

Comparisons == {"EQUAL", "UNEQUAL", "LTH", "LEQ", "GTH", "GEQ"}

\* symbol_no, symbol_mod, symbol_yes, and other constants (SYMBOL_CONST).
Tristate == {"n", "m", "y"}
Third(s1, s2) == CHOOSE s \in Tristate : s \notin {s1, s2}
TypeOf(s) == IF s \in DOMAIN SymType THEN SymType[s] ELSE "UNKNOWN"
IsConst(s) == s \notin DOMAIN SymType
-----------------------------------------------------------------------------
(***************************************************************************)
(* expr_calc_value.  val gives a symbol its text, as                       *)
(* sym_get_string_value does; a constant is its own.                       *)
(***************************************************************************)
Text(s, val) == IF IsConst(s) THEN s ELSE val[s]

TriNumber(text) == CASE text = "n" -> 0 [] text = "m" -> 1 [] text = "y" -> 2 [] OTHER -> -1

\* curr.tri: no for what is not a tristate.
Tri(s, val) ==
  IF TypeOf(s) \in {"BOOLEAN", "TRISTATE"} \/ s \in Tristate
  THEN TriNumber(Text(s, val)) ELSE 0

\* The texts of these models in the order of strcmp, and the numbers that the
\* strtoll family makes of them, by the base; others are strings.
TextOrder == <<"", "-1", "0x2", "10", "2", "m", "n", "y">>
Rank(text) == CHOOSE i \in DOMAIN TextOrder : TextOrder[i] = text

NumberOf(text, base) ==
  CASE text = "2" -> 2
    [] text = "-1" -> -1
    [] text = "10" -> IF base = 16 THEN 16 ELSE 10
    [] text = "0x2" /\ base # 10 -> 2

IsNumber(text, base) == text \in {"2", "-1", "10"} \/ (text = "0x2" /\ base # 10)

Base(type) == IF type = "INT" THEN 10 ELSE IF type = "HEX" THEN 16 ELSE 0

expr_parse_string(text, type) ==
  IF type \in {"BOOLEAN", "TRISTATE"} THEN [kind |-> "signed", val |-> TriNumber(text)]
  ELSE IF ~IsNumber(text, Base(type)) THEN [kind |-> "string", val |-> 0]
  ELSE [kind |-> IF type = "HEX" THEN "unsigned" ELSE "signed",
        val |-> NumberOf(text, Base(type))]

\* A negative number is a large one for a comparison without signs.
Unsigned(n) == IF n < 0 THEN n + 2 ^ 30 ELSE n

\* The sign of res, of the parsed texts, or of the texts if one is no number.
Difference(p1, p2, strings, texts) ==
  IF strings \/ "string" \in {p1.kind, p2.kind} THEN texts
  ELSE IF "unsigned" \in {p1.kind, p2.kind} THEN Unsigned(p1.val) - Unsigned(p2.val)
  ELSE p1.val - p2.val

Compared(s1, s2, val) ==
  Difference(expr_parse_string(Text(s1, val), TypeOf(s1)), expr_parse_string(Text(s2, val), TypeOf(s2)),
             {TypeOf(s1), TypeOf(s2)} = {"STRING"}, Rank(Text(s1, val)) - Rank(Text(s2, val)))

Holds(type, res) ==
  CASE type = "EQUAL" -> res = 0 [] type = "UNEQUAL" -> res # 0
    [] type = "LTH" -> res < 0 [] type = "LEQ" -> res <= 0
    [] type = "GTH" -> res > 0 [] type = "GEQ" -> res >= 0

Minimum(a, b) == IF a < b THEN a ELSE b
Maximum(a, b) == IF a > b THEN a ELSE b

RECURSIVE expr_calc_value(_, _)
expr_calc_value(e, val) ==
  CASE e.type = "NULL" -> 2
    [] e.type = "SYMBOL" -> Tri(e.sym, val)
    [] e.type = "AND" -> Minimum(expr_calc_value(e.left, val), expr_calc_value(e.right, val))
    [] e.type = "OR" -> Maximum(expr_calc_value(e.left, val), expr_calc_value(e.right, val))
    [] e.type = "NOT" -> 2 - expr_calc_value(e.arg, val)
    [] e.type \in Comparisons -> IF Holds(e.type, Compared(e.sym, e.than, val)) THEN 2 ELSE 0
-----------------------------------------------------------------------------
(***************************************************************************)
(* Rewriting.                                                              *)
(***************************************************************************)
expr_alloc_and(e1, e2) == IF e1 = Null THEN e2 ELSE IF e2 = Null THEN e1 ELSE Two("AND", e1, e2)
expr_alloc_or(e1, e2) == IF e1 = Null THEN e2 ELSE IF e2 = Null THEN e1 ELSE Two("OR", e1, e2)

expr_is_yes(e) == e \in {Null, Sym("y")}

\* The operands of one level of && or ||, and the tree with others in their
\* places.
RECURSIVE Leaves(_, _)
Leaves(type, e) ==
  IF e.type = type THEN Leaves(type, e.left) \o Leaves(type, e.right) ELSE <<e>>

RECURSIVE WithLeaves(_, _, _)
WithLeaves(type, e, leaves) ==
  IF e.type # type THEN leaves[1]
  ELSE LET k == Len(Leaves(type, e.left))
       IN Two(type, WithLeaves(type, e.left, SubSeq(leaves, 1, k)),
                    WithLeaves(type, e.right, SubSeq(leaves, k + 1, Len(leaves))))

\* Two nested loops over operands.
Pairs(n, m) == [k \in 1 .. n * m |-> [i |-> (k - 1) \div m + 1, j |-> ((k - 1) % m) + 1]]

Neutral(type) == IF type = "OR" THEN Sym("n") ELSE Sym("y")

RECURSIVE expr_eliminate_yn(_)
expr_eliminate_yn(e) ==
  IF e.type \notin {"AND", "OR"} THEN e
  ELSE LET left == expr_eliminate_yn(e.left)
           right == expr_eliminate_yn(e.right)
           absorbing == Neutral(IF e.type = "OR" THEN "AND" ELSE "OR")
       IN IF absorbing \in {left, right} THEN absorbing
          ELSE IF left = Neutral(e.type) THEN right
          ELSE IF right = Neutral(e.type) THEN left
          ELSE Two(e.type, left, right)

RECURSIVE expr_eq(_, _)

\* __expr_eliminate_eq: operands that both trees have become neutral in both.
\* The operands are those at one level of both trees.
EliminateEq(type, pair) ==
  LET l1 == Leaves(type, pair[1])
      l2 == Leaves(type, pair[2])
      Step(acc, p) ==
        IF \/ acc[1][p.i] = acc[2][p.j] /\ acc[1][p.i] \in {Sym("y"), Sym("n")}
           \/ ~expr_eq(acc[1][p.i], acc[2][p.j])
        THEN acc
        ELSE << [acc[1] EXCEPT ![p.i] = Neutral(type)], [acc[2] EXCEPT ![p.j] = Neutral(type)] >>
      done == FoldLeft(Step, <<l1, l2>>, Pairs(Len(l1), Len(l2)))
  IN << WithLeaves(type, pair[1], done[1]), WithLeaves(type, pair[2], done[2]) >>

expr_eliminate_eq(e1, e2) ==
  IF Null \in {e1, e2} THEN <<e1, e2>>
  ELSE LET one == IF e1.type \in {"AND", "OR"} THEN EliminateEq(e1.type, <<e1, e2>>)
                  ELSE <<e1, e2>>
           two == IF one[2].type \in {"AND", "OR"} /\ one[1].type # one[2].type
                  THEN EliminateEq(one[2].type, one) ELSE one
       IN << expr_eliminate_yn(two[1]), expr_eliminate_yn(two[2]) >>

expr_eq(e1, e2) ==
  IF Null \in {e1, e2} THEN expr_is_yes(e1) /\ expr_is_yes(e2)
  ELSE IF e1.type # e2.type THEN FALSE
  ELSE CASE e1.type \in Comparisons \cup {"SYMBOL"} -> e1 = e2
         [] e1.type = "NOT" -> expr_eq(e1.arg, e2.arg)
         [] e1.type \in {"AND", "OR"} ->
              LET rest == expr_eliminate_eq(e1, e2)
              IN rest[1].type = "SYMBOL" /\ rest[1] = rest[2]

\* FOO!=n -> FOO, for a tristate.
RECURSIVE expr_trans_bool(_)
expr_trans_bool(e) ==
  CASE e.type \in {"AND", "OR"} -> Two(e.type, expr_trans_bool(e.left), expr_trans_bool(e.right))
    [] e.type = "NOT" -> Not(expr_trans_bool(e.arg))
    [] e.type = "UNEQUAL" /\ TypeOf(e.sym) = "TRISTATE" /\ e.than = "n" -> Sym(e.sym)
    [] OTHER -> e

\* The symbol that both operands are about: an operand is a symbol, a test
\* for (in)equality, or the negation of one.
About(e) ==
  IF e.type \in {"SYMBOL", "EQUAL", "UNEQUAL"} THEN {e.sym}
  ELSE IF e.type = "NOT" /\ e.arg.type \in {"SYMBOL", "EQUAL", "UNEQUAL"} THEN {e.arg.sym}
  ELSE {}

Joinable(e1, e2) ==
  {s \in About(e1) \cap About(e2) : /\ TypeOf(s) \in {"BOOLEAN", "TRISTATE"}
                                    /\ e2.type = "NOT" => e2.arg.type = "SYMBOL"}

\* A test of one symbol for two different tristates.
TwoTests(type, s, pair) ==
  {t \in Tristate \X Tristate : t[1] # t[2] /\ pair = {Comp(type, s, t[1]), Comp(type, s, t[2])}}

expr_join_or(e1, e2) ==
  LET pair == {e1, e2}
      joined(s) ==
        CASE TypeOf(s) = "TRISTATE" /\ TwoTests("EQUAL", s, pair) # {} ->
               LET t == CHOOSE t \in TwoTests("EQUAL", s, pair) : TRUE
               IN Comp("UNEQUAL", s, Third(t[1], t[2]))
          [] TypeOf(s) = "BOOLEAN" /\ pair = {Sym(s), Not(Sym(s))} -> Sym("y")
          [] OTHER -> Null
  IN IF expr_eq(e1, e2) THEN e1
     ELSE IF Joinable(e1, e2) = {} THEN Null
     ELSE joined(CHOOSE s \in Joinable(e1, e2) : TRUE)

\* a=b && a!=c for constants b, c.
EqualUnequal(s, pair) ==
  {t \in pair \X pair : /\ t[1].type = "EQUAL" /\ t[2].type = "UNEQUAL"
                        /\ IsConst(t[1].than) /\ IsConst(t[2].than)}

\* Slip: (a) && (a!='m') -> (a), which is right for what is not a tristate.
expr_join_and_m(e1, e2) ==
  LET pair == {e1, e2}
  IN IF expr_eq(e1, e2) THEN e1
     ELSE IF \E s \in Joinable(e1, e2) : pair = {Sym(s), Comp("UNEQUAL", s, "m")}
          THEN Sym(CHOOSE s \in Joinable(e1, e2) : TRUE)
     ELSE Null

expr_join_and(e1, e2) ==
  LET pair == {e1, e2}
      joined(s) ==
        CASE pair = {Sym(s), Comp("EQUAL", s, "y")} -> Comp("EQUAL", s, "y")
          [] pair = {Sym(s), Comp("UNEQUAL", s, "n")} -> Sym(s)
          [] pair = {Sym(s), Comp("UNEQUAL", s, "m")} -> Comp("EQUAL", s, "y")
          [] TypeOf(s) = "TRISTATE" /\ EqualUnequal(s, pair) # {} ->
               LET t == CHOOSE t \in EqualUnequal(s, pair) : TRUE
               IN IF t[1].than # t[2].than THEN t[1] ELSE Sym("n")
          [] TypeOf(s) = "TRISTATE" /\ TwoTests("UNEQUAL", s, pair) # {} ->
               LET t == CHOOSE t \in TwoTests("UNEQUAL", s, pair) : TRUE
               IN Comp("EQUAL", s, Third(t[1], t[2]))
          [] OTHER -> Null
  IN IF expr_eq(e1, e2) THEN e1
     ELSE IF Joinable(e1, e2) = {} THEN Null
     ELSE joined(CHOOSE s \in Joinable(e1, e2) : TRUE)

\* expr_eliminate_dups1, called with one tree twice: each operand is compared
\* with each other one, and joined into that if that can be; before that it is
\* simplified itself.  changed is trans_count # 0.
RECURSIVE EliminateDups(_)
EliminateDups(e) ==
  LET type == e.type
      leaves == Leaves(type, e)
      Inner(l) == IF l.type \in {"AND", "OR"} THEN EliminateDups(l)
                  ELSE [tree |-> l, changed |-> FALSE]
      Step(acc, p) ==
        IF p.i = p.j THEN acc
        ELSE LET inner == Inner(acc.leaves[p.i])
                 join == IF type = "OR" THEN expr_join_or(inner.tree, acc.leaves[p.j])
                         ELSE expr_join_and(inner.tree, acc.leaves[p.j])
             IN IF join = Null
                THEN [leaves |-> [acc.leaves EXCEPT ![p.i] = inner.tree],
                      changed |-> acc.changed \/ inner.changed]
                ELSE [leaves |-> [acc.leaves EXCEPT ![p.i] = Neutral(type), ![p.j] = join],
                      changed |-> TRUE]
      done == FoldLeft(Step, [leaves |-> leaves, changed |-> FALSE],
                       Pairs(Len(leaves), Len(leaves)))
  IN [tree |-> WithLeaves(type, e, done.leaves), changed |-> done.changed]

RECURSIVE expr_eliminate_dups(_)
expr_eliminate_dups(e) ==
  IF e.type \notin {"AND", "OR"} THEN e
  ELSE LET pass == EliminateDups(e)
       IN IF pass.changed THEN expr_eliminate_dups(expr_eliminate_yn(pass.tree)) ELSE pass.tree

Negated(type) ==
  CASE type = "EQUAL" -> "UNEQUAL" [] type = "UNEQUAL" -> "EQUAL"
    [] type = "LEQ" -> "GTH" [] type = "GEQ" -> "LTH"
    [] type = "LTH" -> "GEQ" [] type = "GTH" -> "LEQ"

\* A test of a boolean.
TransformTest(e) ==
  IF TypeOf(e.sym) # "BOOLEAN" \/ e.than \notin Tristate THEN e
  ELSE IF e.than = "m" THEN Sym(IF e.type = "EQUAL" THEN "n" ELSE "y")
  ELSE IF (e.type = "EQUAL") = (e.than = "y") THEN Sym(e.sym) ELSE Not(Sym(e.sym))

RECURSIVE expr_transform(_)

TransformNot(arg) ==
  CASE arg.type = "NOT" -> expr_transform(arg.arg)
    [] arg.type \in Comparisons -> Comp(Negated(arg.type), arg.sym, arg.than)
    [] arg.type = "OR" -> expr_transform(Two("AND", Not(arg.left), Not(arg.right)))
    [] arg.type = "AND" -> expr_transform(Two("OR", Not(arg.left), Not(arg.right)))
    [] arg.type = "SYMBOL" ->
         CASE arg.sym = "y" -> Sym("n") [] arg.sym = "n" -> Sym("y") [] arg.sym = "m" -> arg
           [] OTHER -> Not(arg)

expr_transform(e) ==
  CASE e.type \in {"AND", "OR"} -> Two(e.type, expr_transform(e.left), expr_transform(e.right))
    [] e.type = "NOT" -> TransformNot(expr_transform(e.arg))
    [] e.type \in {"EQUAL", "UNEQUAL"} -> TransformTest(e)
    [] OTHER -> e

\* sym is yes or no; the tests of a conjunction or disjunction are by operand.
RECURSIVE expr_trans_compare(_, _, _)
expr_trans_compare(e, type, sym) ==
  LET operand(o) == expr_trans_compare(o, "EQUAL", sym)
      joined(op) == LET t == Two(op, operand(e.left), operand(e.right))
                    IN IF type = "UNEQUAL" THEN Not(t) ELSE t
  IN CASE e.type = "NULL" -> IF type = "UNEQUAL" THEN Not(Sym(sym)) ELSE Sym(sym)
       [] e.type \in {"AND", "OR"} ->
            joined(IF sym = "y" THEN e.type ELSE IF e.type = "AND" THEN "OR" ELSE "AND")
       [] e.type = "NOT" ->
            expr_trans_compare(e.arg, IF type = "EQUAL" THEN "UNEQUAL" ELSE "EQUAL", sym)
       [] e.type \in Comparisons -> IF (type = "EQUAL") = (sym = "y") THEN e ELSE Not(e)
       [] e.type = "SYMBOL" -> Comp(type, e.sym, sym)

RECURSIVE expr_contains_symbol(_, _)
expr_contains_symbol(dep, s) ==
  CASE dep.type \in {"AND", "OR"} ->
         expr_contains_symbol(dep.left, s) \/ expr_contains_symbol(dep.right, s)
    [] dep.type = "NOT" -> expr_contains_symbol(dep.arg, s)
    [] dep.type = "SYMBOL" -> dep.sym = s
    [] dep.type \in Comparisons -> s \in {dep.sym, dep.than}
    [] OTHER -> FALSE

RECURSIVE expr_depends_symbol(_, _)
expr_depends_symbol(dep, s) ==
  CASE dep.type = "AND" -> expr_depends_symbol(dep.left, s) \/ expr_depends_symbol(dep.right, s)
    [] dep.type = "SYMBOL" -> dep.sym = s
    [] dep.type = "EQUAL" -> dep.sym = s /\ dep.than \in {"y", "m"}
    [] dep.type = "UNEQUAL" -> dep.sym = s /\ dep.than = "n"
    [] OTHER -> FALSE
-----------------------------------------------------------------------------
(***************************************************************************)
(* expr_print into tokens, and the grammar of parser.y that reads them     *)
(* again: || binds less than &&, which binds less than !, which takes a    *)
(* whole comparison.                                                       *)
(***************************************************************************)
\* expr_compare_type(prevtoken, e->type) > 0.
Binds == <<"NONE", "OR", "AND", "NOT">>
\* Slip: as if && did not bind more than ||.
NeedsParensUnderNot(prev, type) == prev = "NOT" /\ type \in {"OR", "AND"}

NeedsParens(prev, type) ==
  /\ type \in {"OR", "AND", "NOT"}
  /\ \E i, j \in DOMAIN Binds : i > j /\ Binds[i] = prev /\ Binds[j] = type

RECURSIVE expr_print(_, _)
expr_print(e, prev) ==
  LET printed ==
        CASE e.type = "NULL" -> <<"y">>
          [] e.type = "SYMBOL" -> <<e.sym>>
          [] e.type = "NOT" -> <<"!">> \o expr_print(e.arg, "NOT")
          [] e.type \in Comparisons -> <<e.sym, e.type, e.than>>
          [] e.type \in {"AND", "OR"} ->
               expr_print(e.left, e.type) \o <<e.type>> \o expr_print(e.right, e.type)
  IN IF NeedsParens(prev, e.type) THEN <<"(">> \o printed \o <<")">> ELSE printed

\* The last operator of a kind that is not inside of parentheses; 0: none.
LastOutside(ts, op) ==
  LET open(i) == Cardinality({j \in 1 .. i : ts[j] = "("}) - Cardinality({j \in 1 .. i : ts[j] = ")"})
      at == {i \in DOMAIN ts : ts[i] = op /\ open(i) = 0}
  IN IF at = {} THEN 0 ELSE CHOOSE i \in at : \A j \in at : j <= i

RECURSIVE Parsed(_)
Parsed(ts) ==
  LET or == LastOutside(ts, "OR")
      and == LastOutside(ts, "AND")
      split(type, at) ==
        Two(type, Parsed(SubSeq(ts, 1, at - 1)), Parsed(SubSeq(ts, at + 1, Len(ts))))
  IN IF or > 0 THEN split("OR", or)
     ELSE IF and > 0 THEN split("AND", and)
     ELSE IF ts[1] = "!" THEN Not(Parsed(Tail(ts)))
     ELSE IF ts[1] = "(" THEN Parsed(SubSeq(ts, 2, Len(ts) - 1))
     ELSE IF Len(ts) = 1 THEN Sym(ts[1])
     ELSE Comp(ts[2], ts[1], ts[3])
-----------------------------------------------------------------------------
(***************************************************************************)
(* Correctness.  val is any assignment of values that fit the types.       *)
(***************************************************************************)
TextsOf(type) ==
  CASE type = "BOOLEAN" -> {"n", "y"} [] type = "TRISTATE" -> Tristate
    [] OTHER -> {"-1", "0x2", "10"}

Valuations == {val \in [DOMAIN SymType -> UNION {TextsOf(SymType[s]) : s \in DOMAIN SymType}] :
                 \A s \in DOMAIN SymType : val[s] \in TextsOf(SymType[s])}

Simplified(e) == expr_eliminate_dups(expr_transform(e))

\* Simplifying a dependency does not change its value for any configuration,
\* although the operands are joined in place while they are compared; for what
\* is not a tristate, not whether it holds.  Two dependencies that are taken
\* for equal have one value, and one of whose operands nothing is left implies
\* nothing that the other does not (the test for a submenu).
SimplifiedMeansTheSame(e1, e2) ==
  LET simple1 == Simplified(e1)
      bool1 == expr_trans_bool(simple1)
      rest == expr_eliminate_eq(e1, e2)
      equal == expr_eq(e1, e2)
  IN \A val \in Valuations :
       LET value(e) == expr_calc_value(e, val)
       IN /\ value(simple1) = value(e1)
          /\ (value(bool1) = 0) = (value(e1) = 0)
          /\ equal => value(e1) = value(e2)
          /\ expr_is_yes(rest[2]) => value(e1) <= value(e2)

RECURSIVE NegatesM(_, _)
NegatesM(e, val) ==
  CASE e.type \in {"AND", "OR"} -> NegatesM(e.left, val) \/ NegatesM(e.right, val)
    [] e.type = "NOT" -> expr_calc_value(e.arg, val) = 1 \/ NegatesM(e.arg, val)
    [] OTHER -> FALSE

\* An item that is put into the submenu of a symbol, because it depends on it
\* and on nothing that the symbol does not depend on, is visible only while
\* the symbol is not n; and the test that this is based on is the dependency's
\* own value, where nothing that is m is negated.
DependsMeansNeeds(e) ==
  \A val \in Valuations :
    LET value(x) == expr_calc_value(x, val)
    IN /\ \A s \in DOMAIN SymType :
            expr_depends_symbol(e, s) /\ value(e) > 0 =>
              val[s] # "n" /\ expr_contains_symbol(e, s)
       /\ ~NegatesM(e, val) =>
            \A type \in {"EQUAL", "UNEQUAL"}, sym \in {"y", "n"} :
              (value(expr_trans_compare(e, type, sym)) = 2)
                = ((value(e) = TriNumber(sym)) = (type = "EQUAL"))

\* A dependency that is shown means, read as a Kconfig file, what it means.
PrintedReadsBack(e) ==
  LET again == Parsed(expr_print(e, "NONE"))
  IN \A val \in Valuations : expr_calc_value(again, val) = expr_calc_value(e, val)
=============================================================================
