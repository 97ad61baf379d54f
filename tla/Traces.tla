------------------------------- MODULE Traces -------------------------------
(***************************************************************************)
(* The traces of the executed program that the simulator keeps and prints  *)
(* when the program fails: the last instructions (simulate/itrace.cpp) and *)
(* the calls and returns (simulate/ftrace.cpp).                            *)
(*                                                                         *)
(* An address is a function and one of two places in it, its entry and the *)
(* rest.  The program is any program that returns from where it called.    *)
(***************************************************************************)
EXTENDS Integers, Sequences, SequencesExt, FiniteSetsExt

CONSTANTS
  IRING_SIZE,
  Listed,      \* functions that the symbol table of the ELF file has
  Unlisted,    \* and those it does not have (no STT_FUNC)
  MaxExecuted  \* bound of the instructions executed

ASSUME TraceAssumption ==
  IRING_SIZE \in Nat \ {0} /\ MaxExecuted \in Nat /\ Listed \cap Unlisted = {}

VARIABLES
  iring,       \* the texts; the k-th instruction's is k, and none is 0
  iring_head,
  fnodes,      \* the list from fnode_head to fnode_tail
  aborted,     \* search_func_name has failed
  pc,
  frames,      \* history: where the program's calls return to, oldest first
  executed,    \* history: instructions executed
  mistaken,    \* history: jumps so far whose leftover ret says they return
  depths,      \* history: for each node, the calls active around it and mistaken
  foreseen     \* history: every call was to a listed entry

traceVars ==
  <<iring, iring_head, fnodes, aborted, pc, frames, executed, mistaken, depths, foreseen>>

Entry(f) == [fn |-> f, at |-> "entry"]
Address == [fn : Listed \cup Unlisted, at : {"entry", "body"}]

TraceInit ==
  /\ iring = [i \in 0 .. IRING_SIZE - 1 |-> 0]
  /\ iring_head = 0
  /\ fnodes = <<>>
  /\ aborted = FALSE
  /\ pc \in {Entry(f) : f \in Listed}
  /\ frames = <<>>
  /\ executed = 0
  /\ mistaken = 0
  /\ depths = <<>>
  /\ foreseen = TRUE
-----------------------------------------------------------------------------
\* Slip: the ring is advanced first.
add2iring_advance_first(text) ==
  /\ iring_head' = (iring_head + 1) % IRING_SIZE
  /\ iring' = [iring EXCEPT ![iring_head'] = text]

add2iring(text) ==
  /\ iring' = [iring EXCEPT ![iring_head] = text]
  /\ iring_head' = (iring_head + 1) % IRING_SIZE

\* func_sym_init has listed the functions.  Their sizes cover them.
is_func_entry(addr) == addr.fn \in Listed /\ addr.at = "entry"
search_func_name(addr) == addr.fn \in Listed

AddNode(node, active) ==
  /\ fnodes' = Append(fnodes, node)
  /\ depths' = Append(depths, active + mistaken)

\* Before a call the active calls are those of frames, behind a return frames'.
\* Whether a call that does not link "needs return" is what malloc left there.
ftrace_inst(op, dnpc) ==
  \/ /\ op = "ret"
     /\ aborted' = ~search_func_name(dnpc)
     /\ IF aborted' THEN UNCHANGED <<fnodes, depths>>
        ELSE AddNode([type |-> "T_RET", name |-> dnpc.fn], Len(frames'))
     /\ UNCHANGED <<foreseen, mistaken>>
  \/ /\ op \in {"jump", "link"} /\ is_func_entry(dnpc)
     /\ \E ret \in IF op = "link" THEN {TRUE} ELSE BOOLEAN :
          /\ AddNode([type |-> "T_CALL", name |-> dnpc.fn, ret |-> ret], Len(frames))
          /\ mistaken' = mistaken + IF ret /\ op # "link" THEN 1 ELSE 0
     /\ UNCHANGED <<aborted, foreseen>>
  \/ /\ op = "plain" \/ (op \in {"jump", "link"} /\ ~is_func_entry(dnpc))
     /\ foreseen' = (foreseen /\ op # "link")
     /\ UNCHANGED <<fnodes, depths, aborted, mistaken>>

\* An instruction of the program: jal and jalr with rd = ra and rd = x0, ret,
\* and the others.
Executes(op, dnpc) ==
  \/ op = "plain" /\ dnpc = [pc EXCEPT !.at = "body"] /\ UNCHANGED frames
  \/ op = "jump" /\ UNCHANGED frames
  \/ op = "link" /\ frames' = Append(frames, [pc EXCEPT !.at = "body"])
  \/ /\ op = "ret"
     /\ frames # <<>>
     /\ dnpc = Last(frames)
     /\ frames' = Front(frames)

trace ==
  /\ ~aborted
  /\ executed < MaxExecuted
  /\ executed' = executed + 1
  /\ \E op \in {"plain", "jump", "link", "ret"}, dnpc \in Address :
       /\ Executes(op, dnpc)
       /\ pc' = dnpc
       /\ ftrace_inst(op, dnpc)
  /\ add2iring(executed')

TraceSpec == TraceInit /\ [][trace]_traceVars
-----------------------------------------------------------------------------
\* iring_print: the texts that are there, from the oldest place of the ring.
iring_print ==
  LET printed[k \in 0 .. IRING_SIZE] ==
        IF k = 0 THEN <<>>
        ELSE LET text == iring[(iring_head + k - 1) % IRING_SIZE]
             IN IF text > 0 THEN Append(printed[k - 1], text) ELSE printed[k - 1]
  IN printed[IRING_SIZE]

\* A failure shows the last instructions, all of them, in their order.
PrintsLastInstructions ==
  iring_print = [k \in 1 .. Min({executed, IRING_SIZE}) |->
                   executed - Min({executed, IRING_SIZE}) + k]

\* ftrace_print: deep, how far each line is indented; nret, calls that need no
\* return.

\* Slip: the calls that need no return are forgotten.
LineWithoutNret(acc, node) ==
  IF node.type = "T_RET"
  THEN [deep |-> acc.deep - 1, nret |-> 0, indents |-> Append(acc.indents, acc.deep - 1)]
  ELSE [deep |-> acc.deep + 1, nret |-> acc.nret, indents |-> Append(acc.indents, acc.deep)]

Line(acc, node) ==
  IF node.type = "T_RET"
  THEN [deep |-> acc.deep - 1 - acc.nret, nret |-> 0,
        indents |-> Append(acc.indents, acc.deep - 1 - acc.nret)]
  ELSE [deep |-> acc.deep + 1, nret |-> acc.nret + IF node.ret THEN 0 ELSE 1,
        indents |-> Append(acc.indents, acc.deep)]

\* Behind the last node.
Printed ==
  LET after[i \in 0 .. Len(fnodes)] ==
        IF i = 0 THEN [deep |-> 0, nret |-> 0, indents |-> <<>>]
        ELSE Line(after[i - 1], fnodes[i])
  IN after[Len(fnodes)]

ftrace_print == Printed.indents

\* The jumps traced as calls since the last return before a line.
JumpsSinceReturn(i) ==
  Cardinality({j \in 1 .. i - 1 : /\ fnodes[j].type = "T_CALL" /\ ~fnodes[j].ret
                                  /\ \A k \in j .. i - 1 : fnodes[k].type = "T_CALL"})

\* In a program that calls functions of the symbol table at their entries: a
\* return is indented by the calls that are active behind it, whatever jumps to
\* functions there were below them; a call, by those and the jumps since the
\* last return.  Nothing sets the ret of a jump (ftrace.cpp:171): each jump
\* before the line whose node is made of memory that says it returns moves the
\* line by one more, for good, and nothing else moves a line.
IndentedByDepth ==
  foreseen =>
    \A i \in DOMAIN fnodes :
      ftrace_print[i] =
        depths[i] + IF fnodes[i].type = "T_RET" THEN 0 ELSE JumpsSinceReturn(i)
=============================================================================
