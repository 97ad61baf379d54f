----------------------------- MODULE Simulator -----------------------------
(***************************************************************************)
(* The simulator around the processor: its loop                            *)
(* (verilator/src/simulate/simulator.cpp), the comparison with a reference *)
(* machine (simulate/difftest.cpp), the commands of the debugger           *)
(* (sdb/sdb.cpp) with its watchpoints, and the window that may be closed   *)
(* (device/device.cpp).                                                    *)
(*                                                                         *)
(* The processor is seen through the calls it makes in a clock cycle: it   *)
(* reports the next instruction of the program as finished, or nothing.    *)
(* (That it reports them in this order is HarnessPcAgrees of Core.)  An    *)
(* instruction is its kind: what it does to register a0, and what it       *)
(* reports besides.                                                        *)
(***************************************************************************)
EXTENDS WatchpointPool

CONSTANTS
  Setups,       \* what is simulated (below)
  ProgLen,      \* their length; the program starts again at its end
  MaxSi         \* largest argument of "si"

Pc == 0 .. ProgLen - 1
Kind == {"keep", "flip", "device", "wrong", "ebreak", "invalid"}

\* A program, the Kconfig options of the build, and the expressions that the
\* user watches.
Setup ==
  [prog : [Pc -> Kind],
   build : [{"DIFFTEST", "DEVICE", "WATCHPOINT"} -> BOOLEAN],
   watched : SUBSET Exprs]

ASSUME SimulatorAssumption ==
  /\ ProgLen \in Nat \ {0}
  /\ MaxSi \in Nat
  /\ Setups \subseteq Setup
  /\ Exprs \subseteq {"a0", "pc"}
  /\ Vals = 0 .. ProgLen

VARIABLES
  setup,
  cpu, ref,          \* [pc, a0] of the simulator's copy and of the reference
  npc_state,         \* [state, halt_pc, halt_ret]
  ebreak_call, invalid_call, inst_finish_call,   \* the pending calls
  is_skip_ref,
  n,                 \* execute's: instructions still to do, or Forever
  at,                \* where the program is
  is_batch_mode

simVars == <<cpu, ref, npc_state, ebreak_call, invalid_call, inst_finish_call,
             is_skip_ref, n, at>>
vars == <<setup, simVars, is_batch_mode, poolVars>>

Forever == -1   \* cpu_exec(-1): 2^64 - 1 instructions
BadRet == -1    \* halt_ret of an unknown instruction
NoPc == -1      \* the pc of a call that has not been made

prog == setup.prog
CONFIG_DIFFTEST == setup.build["DIFFTEST"]
CONFIG_DEVICE == setup.build["DEVICE"]
CONFIG_WATCHPOINT == setup.build["WATCHPOINT"]

Machine == [pc : Pc, a0 : {0, 1}]
RunState == {"RUNNING", "STOP", "END", "ABORT", "QUIT"}
\* The prompt of the debugger; the loop of exec_one; after it, in execute;
\* device_update; the end of cpu_exec; and the end of the simulator, by
\* returning from main or by a failed assertion.
Place == {"prompt", "clock", "retired", "poll", "return", "exit", "failed"}

SimTypeOK ==
  /\ PoolTypeOK
  /\ setup \in Setups
  /\ cpu \in Machine
  /\ ref \in Machine
  /\ npc_state \in [state : RunState, halt_pc : Pc \cup {NoPc}, halt_ret : {0, 1, BadRet}]
  /\ ebreak_call \in [enable : BOOLEAN, pc : Pc \cup {NoPc}]
  /\ invalid_call \in [enable : BOOLEAN, pc : Pc \cup {NoPc}]
  /\ inst_finish_call \in
       [enable : BOOLEAN, pc : Pc \cup {NoPc}, dnpc : Pc, device_op : BOOLEAN]
  /\ is_skip_ref \in BOOLEAN
  /\ n \in {Forever} \cup 0 .. MaxSi
  /\ at \in Place
  /\ is_batch_mode \in BOOLEAN

\* After init_simulator: the processor has been reset, the registers and the
\* reference agree; npc_state is static and starts as zero, NPC_RUNNING.
Init ==
  /\ init_wp_pool
  /\ setup \in Setups
  /\ cpu = [pc |-> 0, a0 |-> 0]
  /\ ref = cpu
  /\ npc_state = [state |-> "RUNNING", halt_pc |-> NoPc, halt_ret |-> 0]
  /\ ebreak_call = [enable |-> FALSE, pc |-> NoPc]
  /\ invalid_call = [enable |-> FALSE, pc |-> NoPc]
  /\ inst_finish_call = [enable |-> FALSE, pc |-> NoPc, dnpc |-> 0, device_op |-> FALSE]
  /\ is_skip_ref = FALSE
  /\ n = 0
  /\ at = "prompt"
  /\ is_batch_mode \in BOOLEAN
-----------------------------------------------------------------------------
(***************************************************************************)
(* One clock cycle: the processor's calls, then dpi_c_handler.             *)
(***************************************************************************)

\* a0 after an instruction, in the processor and in the reference.  A device
\* may return anything, and the reference has no device; a "wrong" instruction
\* is one the processor gets wrong.
Result(kind, a0) ==
  CASE kind \in {"flip", "wrong"} -> {1 - a0}
    [] kind = "device" -> {0, 1}
    [] OTHER -> {a0}

RefResult(kind, a0) == IF kind = "flip" THEN 1 - a0 ELSE a0

Succ(pc) == (pc + 1) % ProgLen

\* dpi_c_handler after the processor has set a0 and called ebreak or invalid
\* (eb, iv are the call records then): ebreak_handler, invalid_handler.
HandledState(eb, iv, a0) ==
  IF iv.enable THEN [state |-> "ABORT", halt_pc |-> iv.pc, halt_ret |-> BadRet]
  ELSE IF eb.enable THEN [state |-> "END", halt_pc |-> eb.pc, halt_ret |-> a0]
  ELSE npc_state

\* The flag of invalid_call stays up (simulator.cpp:74 clears the other one).
DpiHandlers(eb, iv, a0) ==
  /\ npc_state' = HandledState(eb, iv, a0)
  /\ is_skip_ref' = (is_skip_ref \/ (CONFIG_DIFFTEST /\ (eb.enable \/ iv.enable)))
  /\ ebreak_call' = [eb EXCEPT !.enable = FALSE]
  /\ invalid_call' = iv

\* No instruction leaves the pipeline in this cycle.
ClockEmpty ==
  /\ at = "clock"
  /\ DpiHandlers(ebreak_call, invalid_call, cpu.a0)
  /\ UNCHANGED <<setup, cpu, ref, inst_finish_call, n, at, is_batch_mode, poolVars>>

Call(call, made, pc) == IF made THEN [enable |-> TRUE, pc |-> pc] ELSE call

ClockRetire ==
  /\ at = "clock"
  /\ LET kind == prog[cpu.pc]
     IN \E a0 \in Result(kind, cpu.a0) :
          /\ cpu' = [cpu EXCEPT !.a0 = a0]
          /\ inst_finish_call' = [enable |-> FALSE, pc |-> cpu.pc,
                                  dnpc |-> Succ(cpu.pc), device_op |-> kind = "device"]
          /\ DpiHandlers(Call(ebreak_call, kind = "ebreak", cpu.pc),
                         Call(invalid_call, kind = "invalid", cpu.pc), a0)
  /\ at' = "retired"
  /\ UNCHANGED <<setup, ref, n, is_batch_mode, poolVars>>
-----------------------------------------------------------------------------
(***************************************************************************)
(* The rest of exec_one and of the loop's body.                            *)
(***************************************************************************)

\* Slip: accesses to devices are not skipped.
SkipsFlagOnly == is_skip_ref

\* exec_one and difftest_step: the reference executes the instruction, or is
\* told the registers after one it cannot execute.
Skips == is_skip_ref \/ inst_finish_call.device_op

RefAfter(now) ==
  IF ~CONFIG_DIFFTEST THEN ref
  ELSE IF Skips THEN now
  ELSE [pc |-> Succ(ref.pc), a0 |-> RefResult(prog[ref.pc], ref.a0)]

\* The values of the watched expressions: registers here.
ValueOf(now) == [e \in Exprs |-> now[e]]

\* trace_and_difftest: checkregs, then the watchpoints.
CheckedState(now) ==
  IF RefAfter(now) # now /\ CONFIG_DIFFTEST
  THEN [npc_state EXCEPT !.state = "ABORT", !.halt_pc = inst_finish_call.pc]
  ELSE npc_state

\* Slip: the last watchpoint of the list decides.
StoppedStateByLast(now) ==
  IF CONFIG_WATCHPOINT /\ \E no \in Changed(ValueOf(now)) : next[no] = NULL
  THEN [CheckedState(now) EXCEPT !.state = "STOP"]
  ELSE CheckedState(now)

StoppedState(now) ==
  IF CONFIG_WATCHPOINT /\ Changed(ValueOf(now)) # {}
  THEN [CheckedState(now) EXCEPT !.state = "STOP"]
  ELSE CheckedState(now)

\* Slip: the count is signed, and -1 counts down.
NextRoundSigned ==
  /\ n' = n - 1
  /\ at' = IF n' = 0 THEN "return" ELSE "clock"

\* The loop's head after one more instruction.
NextRound ==
  /\ n' = IF n = Forever THEN Forever ELSE n - 1
  /\ at' = IF n' = 0 THEN "return" ELSE "clock"

\* exec_one behind its loop, and trace_and_difftest.
Body ==
  LET now == [cpu EXCEPT !.pc = inst_finish_call.dnpc]
  IN /\ cpu' = now
     /\ ref' = RefAfter(now)
     /\ is_skip_ref' = FALSE
     /\ npc_state' = StoppedState(now)
     /\ IF CONFIG_WATCHPOINT THEN check_watchpoints(ValueOf(now))
        ELSE UNCHANGED poolVars

\* Slip: a window that has been closed does not end the loop.
LoopEndNoQuit ==
  IF npc_state'.state \in {"END", "ABORT", "STOP"} THEN at' = "return" /\ UNCHANGED n
  ELSE IF CONFIG_DEVICE THEN at' = "poll" /\ UNCHANGED n
  ELSE NextRound

\* The end of the body of execute's loop.
LoopEnd ==
  IF npc_state'.state # "RUNNING" THEN at' = "return" /\ UNCHANGED n
  ELSE IF CONFIG_DEVICE THEN at' = "poll" /\ UNCHANGED n
  ELSE NextRound

Retired ==
  /\ at = "retired"
  /\ Body
  /\ LoopEnd
  /\ UNCHANGED <<setup, ebreak_call, invalid_call, inst_finish_call, is_batch_mode>>

\* device_update: now and then it polls, and the window may have been closed.
device_update ==
  /\ at = "poll"
  /\ \E closed \in BOOLEAN :
       npc_state' = IF closed THEN [npc_state EXCEPT !.state = "QUIT"] ELSE npc_state
  /\ NextRound
  /\ UNCHANGED <<setup, cpu, ref, ebreak_call, invalid_call, inst_finish_call,
                 is_skip_ref, is_batch_mode, poolVars>>

\* The end of cpu_exec; in batch mode of the simulator, too.
Return ==
  /\ at = "return"
  /\ npc_state' = IF npc_state.state = "RUNNING"
                  THEN [npc_state EXCEPT !.state = "STOP"] ELSE npc_state
  /\ at' = IF is_batch_mode THEN "exit" ELSE "prompt"
  /\ UNCHANGED <<setup, cpu, ref, ebreak_call, invalid_call, inst_finish_call,
                 is_skip_ref, n, is_batch_mode, poolVars>>
-----------------------------------------------------------------------------
(***************************************************************************)
(* The commands of the debugger.                                           *)
(***************************************************************************)
Idle == <<setup, cpu, ref, ebreak_call, invalid_call, inst_finish_call,
          is_skip_ref, is_batch_mode>>

Ended == {"END", "ABORT"}

\* Slip: a program that has ended is run again.
cpu_exec_again(count) ==
  /\ at = "prompt"
  /\ npc_state' = [npc_state EXCEPT !.state = "RUNNING"]
  /\ n' = count
  /\ at' = IF count = 0 THEN "return" ELSE "clock"
  /\ UNCHANGED <<Idle, poolVars>>

\* cpu_exec up to its loop: a program that has ended is not run.
cpu_exec(count) ==
  /\ at = "prompt"
  /\ npc_state.state \notin Ended
  /\ npc_state' = [npc_state EXCEPT !.state = "RUNNING"]
  /\ n' = count
  /\ at' = IF count = 0 THEN "return" ELSE "clock"
  /\ UNCHANGED <<Idle, poolVars>>

cmd_c == cpu_exec(Forever)
cmd_si == ~is_batch_mode /\ \E count \in 0 .. MaxSi : cpu_exec(count)

cmd_q ==
  /\ at = "prompt"
  /\ ~is_batch_mode
  /\ npc_state' = [npc_state EXCEPT !.state = "QUIT"]
  /\ at' = "exit"
  /\ UNCHANGED <<Idle, n, poolVars>>

\* The end of the input.
EndOfInput ==
  /\ at = "prompt"
  /\ ~is_batch_mode
  /\ at' = "exit"
  /\ UNCHANGED <<Idle, npc_state, n, poolVars>>

cmd_w ==
  /\ at = "prompt"
  /\ ~is_batch_mode
  /\ IF Exhausted THEN at' = "failed" /\ UNCHANGED poolVars
     ELSE /\ UNCHANGED at
          /\ (\E e \in setup.watched : new_wp(e, ValueOf(cpu))) \/ new_wp_invalid
  /\ UNCHANGED <<Idle, npc_state, n>>

cmd_d ==
  /\ at = "prompt"
  /\ ~is_batch_mode
  /\ \E no \in No : free_wp(no)
  /\ UNCHANGED <<Idle, npc_state, n, at>>

Command == cmd_c \/ cmd_si \/ cmd_q \/ EndOfInput \/ cmd_w \/ cmd_d
Simulate == ClockEmpty \/ ClockRetire \/ Retired \/ device_update \/ Return

SimNext == Command \/ Simulate

SimSpec == Init /\ [][SimNext]_vars

\* The processor finishes an instruction again and again (KeepsRetiring of
\* Core), and the simulator goes on; nothing is assumed of its user.
FairSimSpec ==
  /\ SimSpec
  /\ WF_vars(ClockRetire)
  /\ WF_vars(Retired \/ device_update \/ Return)
-----------------------------------------------------------------------------
(***************************************************************************)
(* Correctness.                                                            *)
(***************************************************************************)

\* The kind of the instruction that finished last.
LastKind ==
  IF inst_finish_call.pc = NoPc THEN "none" ELSE prog[inst_finish_call.pc]

\* The kinds that end a program; a mismatch is only seen by difftest.
Ending == {"ebreak", "invalid"} \cup (IF CONFIG_DIFFTEST THEN {"wrong"} ELSE {})

\* "Program execution has ended. To restart the program, exit NPC and run
\* again." (cpu_exec): nothing runs after an ebreak, an unknown instruction or
\* a mismatch with the reference, whatever commands follow.
EndsForGood == at \in {"clock", "poll"} => LastKind \notin Ending

\* What is reported about the end is true: the place is where the program
\* stopped, the register is the one ebreak found, and there is an alarm for
\* an unknown or a wrong instruction only, never for one that the reference
\* had to skip.
ReportsTheEnd ==
  at \in {"return", "prompt"} /\ npc_state.state \in Ended =>
    /\ npc_state.halt_pc = inst_finish_call.pc
    /\ cpu.pc = Succ(npc_state.halt_pc)
    /\ IF npc_state.state = "END"
       THEN LastKind = "ebreak" /\ npc_state.halt_ret = cpu.a0
       ELSE LastKind \in {"invalid", "wrong"}

\* Slip: the value of a0 alone is looked at.
is_exit_status_bad_a0 ==
  ~ \/ npc_state.halt_ret = 0
    \/ npc_state.state = "QUIT"

\* is_exit_status_bad (utils/state.cpp).
is_exit_status_bad ==
  ~ \/ npc_state.state = "END" /\ npc_state.halt_ret = 0
    \/ npc_state.state = "QUIT"

\* A batch run of a program that fails is not reported as a success, not even
\* when the window is closed at that moment.
FailureIsReported ==
  at = "exit" /\ is_batch_mode /\ ~is_exit_status_bad =>
    /\ LastKind \notin Ending \ {"ebreak"}
    /\ LastKind = "ebreak" => cpu.a0 = 0

\* No change of a watched expression is passed over: while the program runs
\* on, every watchpoint holds the value its expression had before the present
\* instruction, and when that changes one of them the run stops.
NoChangeMissed ==
  [][CONFIG_WATCHPOINT =>
       /\ at' \in {"clock", "poll"} => Changed(ValueOf(cpu))' = {}
       /\ at = "retired" /\ Changed(ValueOf(cpu')) # {} => at' = "return"]_vars

\* "si" comes back to the prompt, and so does any command when the window is
\* closed (unless the simulator ends then).
CommandsReturn ==
  at \in {"clock", "retired", "poll"} /\ (n # Forever \/ npc_state.state = "QUIT")
    ~> at \in {"prompt", "exit"}
=============================================================================
