------------------------------ MODULE SdbExpr ------------------------------
(***************************************************************************)
(* The debugger's expressions (verilator/src/sdb/expr.cpp): the text is    *)
(* cut into tokens by a table of patterns and the tokens are evaluated     *)
(* by looking for the operator that binds least.  A text is a sequence of  *)
(* characters, of which a few stand for their kind.                        *)
(***************************************************************************)
EXTENDS Integers, Sequences, FiniteSets, SequencesExt, FiniteSetsExt

CONSTANTS
  WORD,     \* values of word_t: 2^64
  Regs,     \* isa_reg_str2val: values of the registers and pc, by the characters
            \* of their names
  Mem       \* host_read of 8 bytes, by address; the host fails elsewhere

Word == 0 .. WORD - 1

ASSUME ExprAssumption ==
  /\ WORD \in Nat \ {0}
  /\ \A name \in DOMAIN Regs : Regs[name] \in Word
  /\ \A addr \in DOMAIN Mem : addr \in Word /\ Mem[addr] \in Word
-----------------------------------------------------------------------------
(***************************************************************************)
(* make_token.                                                             *)
(***************************************************************************)
Digits == <<"0", "1", "2", "3">>
HexDigits == Digits \o <<"4", "5", "6", "7", "8", "9", "a", "b", "c", "d", "e", "f">>
NameChars == Range(HexDigits) \cup {"$", "t"}

\* A rule: the text it begins with and, for some, any number of further
\* characters, at least one.
Rule(type, text) == [type |-> type, text |-> text, more |-> {}]
LongRule(type, text, more) == [type |-> type, text |-> text, more |-> more]

rules ==
  << Rule(">=", <<">", "=">>), Rule("<=", <<"<", "=">>), Rule("!=", <<"!", "=">>),
     Rule("==", <<"=", "=">>), Rule("&&", <<"&", "&">>), Rule("||", <<"|", "|">>),
     Rule("!", <<"!">>), Rule("~", <<"~">>), Rule("*", <<"*">>), Rule("/", <<"/">>),
     Rule("+", <<"+">>), Rule("-", <<"-">>), Rule(">", <<">">>), Rule("<", <<"<">>),
     Rule("&", <<"&">>), Rule("^", <<"^">>), Rule("|", <<"|">>),
     LongRule("NOTYPE", <<>>, {" "}), LongRule("HEXNUM", <<"0", "x">>, Range(HexDigits)),
     LongRule("NUM", <<>>, Range(Digits)), Rule("(", <<"(">>), Rule(")", <<")">>),
     LongRule("REG", <<"$">>, NameChars) >>

\* The length of what a rule matches at the start of a text; 0: nothing.
MatchLength(rule, e) ==
  LET len == Len(rule.text)
      others == {i \in len + 1 .. Len(e) : e[i] \notin rule.more}
      end == IF rule.more = {} THEN len
             ELSE IF others = {} THEN Len(e) ELSE Min(others) - 1
  IN IF IsPrefix(rule.text, e) /\ (rule.more = {} \/ end > len) THEN end ELSE 0

DigitOf(c) == CHOOSE d \in 0 .. 15 : HexDigits[d + 1] = c

\* strtoull, which wraps around instead of stopping at the largest word.
Numeral(text, base) ==
  FoldLeft(LAMBDA n, digit : (n * base + DigitOf(digit)) % WORD, 0, text)

Op(type) == [type |-> type]
Num(val) == [type |-> "NUM", val |-> val]
Reg(name) == [type |-> "REG", name |-> name]
Operand == {"NUM", "REG"}

\* What a rule makes of its text, numbers read as expr_calc does.
Token(rule, text) ==
  CASE rule.type = "NOTYPE" -> <<>>
    [] rule.type = "NUM" -> <<Num(Numeral(text, 10))>>
    [] rule.type = "HEXNUM" -> <<Num(Numeral(SubSeq(text, 3, Len(text)), 16))>>
    [] rule.type = "REG" -> <<Reg(Tail(text))>>
    [] OTHER -> <<Op(rule.type)>>

Matching(e) == {i \in DOMAIN rules : MatchLength(rules[i], e) > 0}

\* Slip: the table is searched from its end.
TakenRuleLast(e) == rules[Max(Matching(e))]

\* The first rule that matches takes the characters.
TakenRule(e) == rules[Min(Matching(e))]

NoMatch == Op("no match")

RECURSIVE make_token(_)
make_token(e) ==
  IF e = <<>> THEN <<>>
  ELSE IF Matching(e) = {} THEN <<NoMatch>>
  ELSE LET rule == TakenRule(e)
           len == MatchLength(rule, e)
       IN Token(rule, SubSeq(e, 1, len)) \o make_token(SubSeq(e, len + 1, Len(e)))
-----------------------------------------------------------------------------
(***************************************************************************)
(* expr_calc.  Its tokens are a part of the array; those that an inner call *)
(* overwrites are not read again.                                          *)
(***************************************************************************)
\* *success and the value; the host may also divide by zero or read outside
\* of its memory.
Value(val) == [end |-> "value", val |-> val]
Bad == [end |-> "bad"]
Crash == [end |-> "crash"]

Level(type) ==
  CASE type = "||" -> 1 [] type = "&&" -> 2 [] type = "|" -> 3 [] type = "^" -> 4
    [] type = "&" -> 5 [] type \in {"==", "!="} -> 6
    [] type \in {">", "<", ">=", "<="} -> 7 [] type \in {"+", "-"} -> 8
    [] type \in {"*", "/"} -> 9 [] type \in {"!", "~", "DEREF", "NEG"} -> 10
    [] OTHER -> 99

Prefix == {"!", "~", "DEREF", "NEG"}

\* val1 op val2 for bits.
BitOp(op(_, _), a, b) ==
  LET sum[k \in 0 .. WORD] ==   \* 2^k up to WORD
        IF 2 ^ k >= WORD THEN 0
        ELSE 2 ^ k * op((a \div 2 ^ k) % 2, (b \div 2 ^ k) % 2) + sum[k + 1]
  IN sum[0]

Bool(b) == IF b THEN 1 ELSE 0

Unary(type, val) ==
  CASE type = "!" -> Value(Bool(val = 0))
    [] type = "~" -> Value(WORD - 1 - val)
    [] type = "NEG" -> Value((WORD - val) % WORD)
    [] type = "DEREF" -> IF val \in DOMAIN Mem THEN Value(Mem[val]) ELSE Crash

Binary(type, a, b) ==
  CASE type = "*" -> Value((a * b) % WORD)
    [] type = "/" -> IF b = 0 THEN Crash ELSE Value(a \div b)
    [] type = "+" -> Value((a + b) % WORD)
    [] type = "-" -> Value((a - b + WORD) % WORD)
    [] type = ">" -> Value(Bool(a > b))
    [] type = "<" -> Value(Bool(a < b))
    [] type = ">=" -> Value(Bool(a >= b))
    [] type = "<=" -> Value(Bool(a <= b))
    [] type = "==" -> Value(Bool(a = b))
    [] type = "!=" -> Value(Bool(a # b))
    [] type = "&" -> Value(BitOp(LAMBDA x, y : x * y, a, b))
    [] type = "|" -> Value(BitOp(LAMBDA x, y : x + y - x * y, a, b))
    [] type = "^" -> Value(BitOp(LAMBDA x, y : (x + y) % 2, a, b))
    [] type \in {"||", "&&"} -> Value(Bool(b # 0))

Shortcut(type, a) == (type = "||" /\ a # 0) \/ (type = "&&" /\ a = 0)

\* Open parentheses before place i.
Depth(ts, i) ==
  Cardinality({j \in 1 .. i - 1 : ts[j].type = "("})
    - Cardinality({j \in 1 .. i - 1 : ts[j].type = ")"})

check_parentheses(ts) ==
  /\ Head(ts).type = "("
  /\ Last(ts).type = ")"
  /\ \A i \in 3 .. Len(ts) : Depth(ts, i) # 0

\* match_parentheses: what is inside of parentheses is stepped over, and a
\* closing one without its partner is no step at all.
RECURSIVE Outside(_, _)
Outside(ts, i) ==
  IF i > Len(ts) THEN {}
  ELSE IF ts[i].type # "(" THEN {i} \cup Outside(ts, i + 1)
  ELSE LET inner == SubSeq(ts, i, Len(ts))
           closed == {j \in 1 .. Len(inner) : Depth(inner, j + 1) = 0}
       IN {i} \cup IF closed = {} THEN {}
                   ELSE Outside(ts, i + Min(closed))

\* Slip: the first of the operators that bind least.
MainOpFirst(ts) ==
  LET ops == {i \in Outside(ts, 1) : Level(ts[i].type) < 99}
      least == {i \in ops : \A j \in ops : Level(ts[i].type) <= Level(ts[j].type)}
  IN IF ops = {} THEN 0 ELSE Min(least)

\* The operator that binds least, the last of them.
MainOp(ts) ==
  LET ops == {i \in Outside(ts, 1) : Level(ts[i].type) < 99}
      least == {i \in ops : \A j \in ops : Level(ts[i].type) <= Level(ts[j].type)}
  IN IF ops = {} THEN 0 ELSE Max(least)

RECURSIVE expr_calc(_)

calc_operand(t) ==
  IF t.type = "NUM" THEN Value(t.val)
  ELSE IF t.type = "REG" /\ t.name \in DOMAIN Regs THEN Value(Regs[t.name])
  ELSE Bad

\* The operator and what follows it become a number, and all is done again.
calc_prefix(ts, at) ==
  LET val == expr_calc(SubSeq(ts, at + 1, Len(ts)))
      res == Unary(ts[at].type, val.val)
  IN IF at > 1 /\ ts[at - 1].type \in Operand THEN Bad
     ELSE IF val.end # "value" THEN val
     ELSE IF res.end # "value" THEN res
     ELSE expr_calc(Append(SubSeq(ts, 1, at - 1), Num(res.val)))

calc_binary(ts, at) ==
  LET val1 == expr_calc(SubSeq(ts, 1, at - 1))
      val2 == expr_calc(SubSeq(ts, at + 1, Len(ts)))
  IN IF val1.end # "value" THEN val1
     ELSE IF Shortcut(ts[at].type, val1.val) THEN Value(Bool(val1.val # 0))
     ELSE IF val2.end # "value" THEN val2
     ELSE Binary(ts[at].type, val1.val, val2.val)

expr_calc(ts) ==
  IF ts = <<>> THEN Bad
  ELSE IF Len(ts) = 1 THEN calc_operand(ts[1])
  ELSE IF check_parentheses(ts) THEN expr_calc(SubSeq(ts, 2, Len(ts) - 1))
  ELSE LET at == MainOp(ts)
       IN IF at = 0 THEN Bad
          ELSE IF ts[at].type \in Prefix THEN calc_prefix(ts, at)
          ELSE calc_binary(ts, at)

\* check_deref, check_neg: a sign or a dereference, by the token before it.
check_prefix(ts, i) == i = 1 \/ ts[i - 1].type \notin Operand

expr(e) ==
  LET ts == make_token(e)
  IN IF NoMatch \in Range(ts) THEN Bad
     ELSE expr_calc([i \in DOMAIN ts |->
            IF ts[i].type = "*" /\ check_prefix(ts, i) THEN Op("DEREF")
            ELSE IF ts[i].type = "-" /\ check_prefix(ts, i) THEN Op("NEG")
            ELSE ts[i]])
-----------------------------------------------------------------------------
(***************************************************************************)
(* The reference: an expression is a tree, whose value is the one that C   *)
(* gives it, and which is written with no parentheses but those it needs.  *)
(***************************************************************************)
Leaf(text, t) == [kind |-> "leaf", text |-> text, token |-> t]
UnaryTree(op, arg) == [kind |-> "unary", op |-> op, arg |-> arg]
BinaryTree(op, left, right) == [kind |-> "binary", op |-> op, left |-> left, right |-> right]

Symbol(op) ==
  CASE op = "DEREF" -> <<"*">> [] op = "NEG" -> <<"-">>
    [] op = ">=" -> <<">", "=">> [] op = "<=" -> <<"<", "=">> [] op = "!=" -> <<"!", "=">>
    [] op = "==" -> <<"=", "=">> [] op = "&&" -> <<"&", "&">> [] op = "||" -> <<"|", "|">> [] OTHER -> <<op>>

\* The texts of the tokens.
RECURSIVE Written(_, _)
Written(tree, level) ==
  LET binary == Written(tree.left, Level(tree.op)) \o <<Symbol(tree.op)>>
                  \o Written(tree.right, Level(tree.op) + 1)
  IN CASE tree.kind = "leaf" -> <<tree.text>>
       [] tree.kind = "unary" -> <<Symbol(tree.op)>> \o Written(tree.arg, 10)
       [] tree.kind = "binary" ->
            IF Level(tree.op) < level THEN << <<"(">> >> \o binary \o << <<")">> >> ELSE binary

RECURSIVE Meaning(_)
Meaning(tree) ==
  CASE tree.kind = "leaf" -> calc_operand(tree.token)
    [] tree.kind = "unary" ->
         LET val == Meaning(tree.arg)
         IN IF val.end # "value" THEN val ELSE Unary(tree.op, val.val)
    [] tree.kind = "binary" ->
         LET val1 == Meaning(tree.left)
             val2 == Meaning(tree.right)
         IN IF val1.end # "value" THEN val1
            ELSE IF Shortcut(tree.op, val1.val) THEN Value(Bool(val1.val # 0))
            ELSE IF val2.end # "value" THEN val2
            ELSE Binary(tree.op, val1.val, val2.val)

Misread(texts) ==
  \E i \in 2 .. Len(texts) : texts[i] \in {<<"*">>, <<"-">>} /\ texts[i - 1] = <<")">>

\* The debugger shows the value that C gives to an expression, written with
\* spaces or without; and where it takes a binary star or minus behind a
\* parenthesis for a prefix (expr.cpp:509), it shows no value rather than
\* another one.
MeansWhatCMeans(tree) ==
  LET texts == Written(tree, 0)
  IN \A space \in {<<>>, <<" ">>} :
       LET result == expr(FlattenSeq([i \in DOMAIN texts |-> space \o texts[i]]))
       IN result = Meaning(tree) \/ (Misread(texts) /\ result.end # "value")
=============================================================================
