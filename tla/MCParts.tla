------------------------------ MODULE MCParts ------------------------------
(***************************************************************************)
(* The parts of the system that work on their own, one of them at a time:  *)
(* the arithmetic of the processor, and of the host program the            *)
(* watchpoints, the traces, the debugger's expressions, masked writes and  *)
(* the expressions of the configuration.  Watchpoints, traces and the      *)
(* multiplier are specifications of their own; the others are operators,   *)
(* which are evaluated for all inputs of the sets below.  An input is      *)
(* chosen in two steps.                                                    *)
(***************************************************************************)
EXTENDS WatchpointPool, Traces, SdbExpr, ByteLanes, KExpr, Execute, BoothMul

VARIABLES tool, part, input

partVars == <<tool, part, input, poolVars, traceVars, mulVars>>
-----------------------------------------------------------------------------
\* Registers and memory of the debugged program, and expressions over them:
\* numbers of each form, a register and what is none.
MCRegs == [r \in {<<"t", "0">>, <<"$", "0">>} |-> IF r = <<"t", "0">> THEN 2 ELSE 7]
MCMem == [a \in 0 .. 3 |-> (a * 3 + 1) % WORD]

Unaries(ops, trees) == {UnaryTree(op, t) : op \in ops, t \in trees}
Binaries(ops, left, right) == {BinaryTree(op, l, r) : op \in ops, l \in left, r \in right}

Operands1 ==
  {Leaf(<<"0">>, Num(0)), Leaf(<<"1", "0">>, Num(10)), Leaf(<<"0", "x", "b">>, Num(11)),
   Leaf(<<"$", "t", "0">>, Reg(<<"t", "0">>)), Leaf(<<"$", "t">>, Reg(<<"t">>))}
Operands2 ==
  LET leaves == {Leaf(<<"3">>, Num(3)), Leaf(<<"0", "x", "1">>, Num(1))}
  IN leaves \cup Unaries({"!", "NEG", "DEREF"}, leaves) \cup Binaries({"||", "-", "*"}, leaves, leaves)

ExprInputs(l) ==
  {l} \cup Unaries(Prefix, {l})
    \cup IF l \in Operands1
         THEN Binaries({"||", "&&", "|", "^", "&", "==", "!=", ">", "<", ">=", "<=",
                        "+", "-", "*", "/"}, {l}, Operands1)
         ELSE Binaries({"||", "&&", ">=", "+", "-", "*", "/"}, {l}, Operands2)
-----------------------------------------------------------------------------
\* Two booleans, a tristate and a number of the configuration, and the
\* dependencies over them.
MCSymType ==
  [s \in {"A", "B", "T", "I"} |->
     CASE s \in {"A", "B"} -> "BOOLEAN" [] s = "T" -> "TRISTATE" [] OTHER -> "INT"]

Tests(symbols, values) ==
  {Comp(type, s, v) : type \in {"EQUAL", "UNEQUAL"}, s \in symbols, v \in values}
Simple ==
  {Sym(s) : s \in {"A", "T", "n", "y", "m"}} \cup Tests({"T"}, Tristate) \cup Tests({"A"}, {"y", "m"})
    \cup {Comp("LTH", "I", "10"), Comp("EQUAL", "I", "0x2")}
Literals == Simple \cup {Not(e) : e \in Simple}
Few == {Sym("A"), Sym("B"), Sym("T"), Comp("UNEQUAL", "T", "m"), Not(Sym("A"))}

TwoOf(left, right) == {Two(type, l, r) : type \in {"AND", "OR"}, l \in left, r \in right}
Longer == TwoOf(Few, TwoOf(Few, {Sym("A"), Sym("T"), Comp("UNEQUAL", "T", "m")}))

KExprInputs(e) ==
  IF e \in Literals THEN {<<x, x>> : x \in {e} \cup TwoOf({e}, Literals)}
  ELSE {<<x, y>> : x \in {e, Not(e), Two("AND", e.right, e.left)},
                   y \in TwoOf({Sym("A")}, {Sym("T")})}
-----------------------------------------------------------------------------
\* Bytes that all differ, and those that they replace.
WriteData == [l \in Lane |-> l + 1]
Replaced == [l \in Lane |-> LANES + l + 1]

\* Second operands and immediates at the borders of a register and of a word,
\* for every first operand; and what stands in the other place.
Borders == {0, 1, 7, 8, 15, 16, 127, 128, 240, 248, 255}
Other == 77
Place == 252

\* Immediates of each format: the borders and every single bit.
Powers(bits) == {2 ^ k : k \in bits}
Signs(S) == S \cup {-n : n \in S} \cup {n - 1 : n \in S} \cup {1 - n : n \in S}
Immediates ==
  [type \in {"I", "S", "B", "U", "J"} |->
     CASE type \in {"I", "S"} -> Signs(Powers(0 .. 10)) \cup {2047, -2048}
       [] type = "B" -> {2 * v : v \in Signs(Powers(0 .. 10)) \cup {2047, -2048}}
       [] type = "U" -> {4096 * v : v \in Signs(Powers(0 .. 18)) \cup {524287, -524288}}
       [] type = "J" -> {2 * v : v \in Signs(Powers(0 .. 18)) \cup {524287, -524288}}]

\* Operands of 65 bits, with the patterns that make every Booth digit.
MCPattern(Bit(_)) == [k \in 0 .. 64 |-> IF Bit(k) THEN 1 ELSE 0]
NoBits == MCPattern(LAMBDA k : FALSE)
MCFactors ==
  {NoBits, MCPattern(LAMBDA k : TRUE), MCPattern(LAMBDA k : k = 0),
   MCPattern(LAMBDA k : k = 64), MCPattern(LAMBDA k : k # 64), MCPattern(LAMBDA k : k % 2 = 0),
   MCPattern(LAMBDA k : k % 3 = 0), MCPattern(LAMBDA k : k % 5 \in {1, 2, 4}),
   MCPattern(LAMBDA k : k % 7 \in {0, 3, 5, 6})}

Parts ==
  [t \in {"instr", "imm", "mul", "pool", "trace", "expr", "write", "kexpr"} |->
     CASE t = "instr" -> Instr
       [] t = "imm" -> DOMAIN Immediates
       [] t = "expr" -> Operands1 \cup Operands2
       [] t = "write" -> SUBSET Lane
       [] t = "kexpr" -> {Null} \cup Literals \cup Longer
       [] OTHER -> {<<>>}]

Inputs ==
  CASE tool = "instr" -> Borders
    [] tool = "imm" -> Immediates[part]
    [] tool = "expr" -> ExprInputs(part)
    [] tool = "write" -> {part}
    [] tool = "kexpr" -> IF part = Null THEN {<<Null, Null>>} ELSE KExprInputs(part)

PartInit ==
  /\ init_wp_pool
  /\ TraceInit
  /\ MulInit
  /\ tool \in DOMAIN Parts
  /\ part \in Parts[tool]
  /\ input = <<>>
  /\ tool # "mul" => multiplicand = NoBits /\ multiplier = NoBits

PartNext ==
  \/ tool = "pool" /\ Next /\ UNCHANGED <<tool, part, input, traceVars, mulVars>>
  \/ tool = "trace" /\ trace /\ UNCHANGED <<tool, part, input, poolVars, mulVars>>
  \/ tool = "mul" /\ NextColumn /\ UNCHANGED <<tool, part, input, poolVars, traceVars>>
  \/ /\ tool \in DOMAIN Parts \ {"pool", "trace", "mul"}
     /\ input = <<>>
     /\ \E i \in Inputs : input' = <<i>>
     /\ UNCHANGED <<tool, part, poolVars, traceVars, mulVars>>

PartSpec == PartInit /\ [][PartNext]_partVars
-----------------------------------------------------------------------------
\* The input that a step of a tool has chosen.
Chosen(t) == tool = t /\ input = <<>>

\* Every instruction of RV64IM has the result and the next pc of the manual,
\* through its row of the decode table and the units that it selects
\* (DecodeTable.scala, EXU.scala); its immediate is the one that was encoded
\* (ImmGen.scala).  Left out are the words of ZeroWordOnly, and jumps of jalr
\* to an odd address (EXU.scala:52).
ExecutesRV64IM ==
  [][/\ Chosen("instr") =>
          \A x \in RegValue, operands \in {<<input'[1], Other>>, <<Other, input'[1]>>} :
            \/ ZeroWordOnly(part, operands[1])
            \/ OddTarget(part, x, operands[2])
            \/ ComputesAsManual(part, x, operands[1], operands[2], Place)
     /\ Chosen("imm") => ImmediateReadsBack(part, input'[1])]_partVars

\* Division and remainder of words by every divisor, those of ZeroWordOnly
\* included (README.md:10).
DividesWords ==
  [][Chosen("instr") /\ part \in {"divw", "divuw", "remw", "remuw"} =>
       \A x \in RegValue : ComputesAsManual(part, x, input'[1], Other, Place)]_partVars

\* The debugger gives every expression the value that C gives to it, or none
\* (expr.cpp).
ExpressionsMeanWhatCMeans == [][Chosen("expr") => MeansWhatCMeans(input'[1])]_partVars

\* A masked write changes the bytes under the mask alone, for every mask
\* (pmem.cpp, mmio.cpp).
WritesByLane ==
  [][Chosen("write") => MaskedWriteByLane(Replaced, input'[1], WriteData)]_partVars

\* What menu_finalize makes of a dependency has its value in every
\* configuration, and what the menu draws from it is so (expr.c, menu.c).
DependenciesKeepTheirMeaning ==
  [][Chosen("kexpr") => /\ SimplifiedMeansTheSame(input'[1][1], input'[1][2])
                        /\ DependsMeansNeeds(input'[1][1])]_partVars

\* A dependency that is shown means, read as a Kconfig file, what it means.
DependenciesReadBack == [][Chosen("kexpr") => PrintedReadsBack(input'[1][1])]_partVars
=============================================================================
