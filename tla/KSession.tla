------------------------------ MODULE KSession ------------------------------
(***************************************************************************)
(* Sessions of the configuration programs (verilator/tools/kconfig/conf.c  *)
(* and mconf.c), the files they leave behind, and the build that includes  *)
(* them.  A program may be killed between any two steps; what it has in    *)
(* memory is gone then, and its files are as they are.                     *)
(*                                                                         *)
(* conf takes one step for each menu that it looks at, mconf one for each  *)
(* key that changes something; saving takes one for each file.  What the   *)
(* symbols are after a call, and which lines are written of them, Calls    *)
(* says; KConf defines it.                                                 *)
(***************************************************************************)
EXTENDS KDecl
LOCAL INSTANCE Functions

CONSTANTS
  Plans,       \* what the developer does: see PlanAssumption
  Calls        \* what a step calls, as functions of the symbols in memory: see KCalls of KConf

\* sources are the Kconfig files of now and those that they are changed to;
\* tools are the options of conf, and menuconfig for mconf; runs bounds the
\* programs started and edits the keys in each.
ASSUME PlanAssumption ==
  \A p \in Plans : /\ p.sources # <<>>
                  /\ \A i \in DOMAIN p.sources : Range(p.sources[i]) \subseteq DOMAIN Decl
                  /\ {p.runs, p.edits} \subseteq Nat

Tools == UNION {p.tools : p \in Plans}

VARIABLES
  plan,        \* one of Plans; runs and sources are what is left of it
  disk,        \* the lines of each file that is there
  st,          \* the symbols of the program that runs
  tool,        \* what it has been started for
  at,          \* where it is: see At
  edits,       \* keys that are left to mconf
  touched,     \* symbols whose file under include/config is newer than the objects
  passed,      \* history: symbols that were passed over, and not compiled for since
  built,       \* the text of each symbol when the object that uses it was compiled
  saved        \* history: what the last conf_write that was finished has written

vars == <<plan, disk, st, tool, at, edits, touched, passed, built, saved>>
onDisk == <<disk, touched, passed, built, saved>>

Names == DOMAIN Decl
Source == Head(plan.sources)

\* phase; in asking, the menu that check_conf is at, the one that conf is at
\* (0: it is not called), whether the last choice is open, and conf_cnt # 0; in saving, whether mconf goes on.
At(phase) ==
  [phase |-> phase, check |-> 1, walk |-> 0, open |-> FALSE, again |-> FALSE, stay |-> FALSE]
Saving == {"save", "same", "moved", "deps", "auto", "header", "last"}

Has(file) == file \in DOMAIN disk
Files(file) == IF Has(file) THEN <<disk[file]>> ELSE <<>>
With(file, lines) == [f \in DOMAIN disk \cup {file} |-> IF f = file THEN lines ELSE disk[f]]
Without(file) == [f \in DOMAIN disk \ {file} |-> disk[f]]
Renamed(from, to) ==
  [f \in (DOMAIN disk \ {from}) \cup {to} |-> IF f = to THEN disk[from] ELSE disk[f]]
NoText == [s \in Names |-> "n"]

\* The text of a symbol in the lines of a file; n is what has no line.
TextIn(lines, s) ==
  IF \E i \in DOMAIN lines : lines[i].sym = s
  THEN lines[CHOOSE i \in DOMAIN lines : lines[i].sym = s].text ELSE "n"

Init ==
  /\ plan \in Plans
  /\ disk = [f \in {} |-> <<>>]
  /\ st = Blank(Source)
  /\ tool = "none"
  /\ at = At("idle")
  /\ edits = 0
  /\ touched = {}
  /\ passed = {}
  /\ built = NoText
  /\ saved = <<>>
-----------------------------------------------------------------------------
\* build_conf and check_conf look at a menu; menu.yes: it is visible.  open:
\* the last choice is; what lies in one that is not, is not looked at.
Seen(acc, menu, s) == [st |-> menu.st, open |-> IF IsChoice(s) THEN menu.yes ELSE acc.open]

\* check_conf: a menu that is to be asked for.
IsNew(menu, s) ==
  /\ menu.yes /\ s \notin menu.st.user
  /\ sym_is_changeable(menu.st, s) \/ (IsChoice(s) /\ menu.st.curr[s] = "y")

FirstPhase(t, s0) ==
  CASE t = "menuconfig" -> "editing"
    [] t \in {"oldaskconfig", "oldconfig", "syncconfig", "listnewconfig"} -> "asking"
    [] t = "nosilentupdate" -> IF s0.changed THEN "idle" ELSE "asking"
    [] t = "savedefconfig" -> "minimal"
    [] OTHER -> "save"

\* syncconfig with and without KCONFIG_NOSILENTUPDATE.
sync_kconfig == tool \in {"syncconfig", "nosilentupdate"}

Start(t, call) ==
  /\ at.phase = "idle" /\ t \in plan.tools /\ plan.runs > 0
  /\ t = "defconfig" => Has("defconfig")
  /\ \E s0 \in call.prepared[t, Blank(Source),
                            Files(IF t = "defconfig" THEN "defconfig" ELSE "config")] :
       /\ at' = [At(FirstPhase(t, s0)) EXCEPT !.walk = IF t = "oldaskconfig" THEN 1 ELSE 0]
       /\ st' = IF at'.phase = "idle" THEN Blank(Source) ELSE s0
       /\ tool' = IF at'.phase = "idle" THEN "none" ELSE t
  /\ plan' = [plan EXCEPT !.runs = @ - 1]
  /\ edits' = plan.edits
  /\ UNCHANGED onDisk

\* The Kconfig files are changed.
Change ==
  /\ at.phase = "idle" /\ Len(plan.sources) > 1
  /\ plan' = [plan EXCEPT !.sources = Tail(@)]
  /\ st' = Blank(Head(plan'.sources))
  /\ UNCHANGED <<tool, at, edits, onDisk>>

Quit == /\ at' = At("idle")
        /\ st' = Blank(Source)
        /\ tool' = "none"
        /\ edits' = 0
        /\ UNCHANGED plan

Stays(phase) == /\ at' = [at EXCEPT !.phase = phase]
                /\ UNCHANGED <<plan, tool, edits>>

\* The program is killed, or reads the end of its input.
Crash == at.phase # "idle" /\ Quit /\ UNCHANGED onDisk
-----------------------------------------------------------------------------
\* conf, one menu after the other; it is called for the root.  oldaskconfig
\* goes on as oldconfig.
Ask(call) ==
  /\ at.phase = "asking" /\ at.walk # 0
  /\ st' \in call.answered[tool, st, st.source[at.walk]]
  /\ IF at.walk < Len(st.source) THEN at' = [at EXCEPT !.walk = @ + 1] /\ UNCHANGED tool
     ELSE /\ at' = [at EXCEPT !.walk = 0, !.check = IF tool = "oldaskconfig" THEN 1 ELSE @ + 1]
          /\ tool' = IF tool = "oldaskconfig" THEN "oldconfig" ELSE tool
  /\ UNCHANGED <<plan, edits, onDisk>>

\* check_conf, one menu after the other; listnewconfig only lists the new ones.
Check(call) ==
  /\ at.phase = "asking" /\ at.walk = 0 /\ at.check <= Len(st.source)
  /\ LET s == st.source[at.check]
     IN IF IsValue(s) /\ ~at.open THEN UNCHANGED st /\ at' = [at EXCEPT !.check = @ + 1]
        ELSE \E menu \in {call.menu[st, s]} :
               /\ st' = menu.st
               /\ \E seen \in {[at EXCEPT !.open = Seen(at, menu, s).open]} :
                    at' = IF IsNew(menu, s) /\ tool # "listnewconfig"
                          THEN [seen EXCEPT !.walk = 1, !.again = TRUE]
                          ELSE [seen EXCEPT !.check = @ + 1]
  /\ UNCHANGED <<plan, tool, edits, onDisk>>

\* Slip: the menus are looked at once.
AllCheckedOnce ==
  /\ at.phase = "asking" /\ at.walk = 0 /\ at.check > Len(st.source)
  /\ Stays(IF tool = "nosilentupdate" THEN "deps" ELSE "save") /\ UNCHANGED <<st, onDisk>>

\* Update until a loop caused no more changes.
AllChecked ==
  /\ at.phase = "asking" /\ at.walk = 0 /\ at.check > Len(st.source)
  /\ IF tool = "listnewconfig" THEN Quit
     ELSE IF at.again THEN /\ at' = At("asking")
                           /\ UNCHANGED <<plan, st, tool, edits>>
     ELSE Stays(IF tool = "nosilentupdate" THEN "deps" ELSE "save") /\ UNCHANGED st
  /\ UNCHANGED onDisk

Edit(call) ==
  /\ at.phase = "editing" /\ edits > 0
  /\ \E s \in Symbols(st) : call.menu[st, s].yes /\ st' \in call.pressed[st, s]
  /\ edits' = edits - 1
  /\ UNCHANGED <<plan, tool, at, onDisk>>

\* Load of the same file: the user's changes are gone.
Load(call) ==
  /\ at.phase = "editing" /\ edits > 0 /\ Has("config")
  /\ \E s0 \in call.prepared["menuconfig", st, Files("config")] : st' = [s0 EXCEPT !.changed = TRUE]
  /\ edits' = edits - 1
  /\ UNCHANGED <<plan, tool, at, onDisk>>

SaveKey ==
  /\ at.phase = "editing"
  /\ at' = [at EXCEPT !.phase = "save", !.stay = TRUE]
  /\ UNCHANGED <<plan, st, tool, edits, onDisk>>

\* handle_exit, by the key and by SIGINT.
Exit ==
  /\ at.phase = "editing"
  /\ \/ st.changed /\ Stays("save") /\ UNCHANGED st
     \/ Quit
  /\ UNCHANGED onDisk
-----------------------------------------------------------------------------
\* conf_write: a temporary file, which takes the place of the other one if it
\* is not the same.
WriteTmp(call) ==
  /\ at.phase = "save"
  /\ \E written \in {call.lines[st]} :
       disk' = With("config.tmp", written.lines) /\ st' = written.st
  /\ Stays("same") /\ UNCHANGED <<touched, passed, built, saved>>

\* Behind conf_write: mconf goes on, or conf_write_autoconf, which does nothing
\* where auto.conf is there and this is not syncconfig.
AfterSave(call) ==
  IF at.stay THEN /\ at' = At("editing")
                  /\ st' = call.shown[[st EXCEPT !.changed = FALSE]]
                  /\ UNCHANGED <<plan, tool, edits>>
  ELSE IF ~sync_kconfig /\ Has("auto.conf") THEN Quit
  ELSE Stays("deps") /\ st' = [st EXCEPT !.changed = FALSE]

is_same(call) ==
  /\ at.phase = "same" /\ Has("config") /\ disk["config"] = disk["config.tmp"]
  /\ disk' = Without("config.tmp")
  /\ saved' = <<disk["config.tmp"]>>
  /\ AfterSave(call) /\ UNCHANGED <<touched, passed, built>>

\* Slip: the file is removed, not kept.
RenameOldRemoved ==
  /\ at.phase = "same" /\ ~(Has("config") /\ disk["config"] = disk["config.tmp"])
  /\ disk' = IF Has("config") THEN Without("config") ELSE disk
  /\ Stays("moved") /\ UNCHANGED <<st, touched, passed, built, saved>>

RenameOld ==
  /\ at.phase = "same" /\ ~(Has("config") /\ disk["config"] = disk["config.tmp"])
  /\ disk' = IF Has("config") THEN Renamed("config", "config.old") ELSE disk
  /\ Stays("moved") /\ UNCHANGED <<st, touched, passed, built, saved>>

RenameNew(call) ==
  /\ at.phase = "moved"
  /\ disk' = Renamed("config.tmp", "config")
  /\ saved' = <<disk["config.tmp"]>>
  /\ AfterSave(call) /\ UNCHANGED <<touched, passed, built>>

WriteDefconfig(call) ==
  /\ at.phase = "minimal"
  /\ disk' = With("defconfig", call.minimal[st].lines)
  /\ Quit /\ UNCHANGED <<touched, passed, built, saved>>
-----------------------------------------------------------------------------
\* conf_touch_deps: the symbols that do not have the value they have in
\* auto.conf (old has its lines, if it is there), and those that sym_find does
\* not find.  One that is found and has no type gets neither a value nor a
\* flag from its line (conf_set_sym_val), and is passed over.  The flags of
\* S_DEF_AUTO are not used outside it.
\* Slip: a symbol that was n has no line in auto.conf, and is passed over.
changed_deps_known(calc, old) ==
  {old[i].sym : i \in DOMAIN old}
    \ {s \in Found(calc) : s \in Symbols(calc) => calc.curr[s] = TextIn(old, s)}

changed_deps(calc, old) ==
  LET had(s) == \E i \in DOMAIN old : old[i].sym = s
      changed(s) == IF s \in calc.write
                    THEN calc.curr[s] # TextIn(old, s) \/ (~had(s) /\ Type(s) \notin Logical)
                    ELSE had(s)
  IN ({old[i].sym : i \in DOMAIN old} \ Found(calc))
       \cup {s \in Symbols(calc) : ~IsChoice(s) /\ changed(s)}

\* Those with another text in auto.conf than n, what is written of them now.
passed_over(calc, old) == {s \in Found(calc) \ Symbols(calc) : TextIn(old, s) # "n"}

\* conf_write_autoconf.  A file that cannot be touched ends it.
AutoConf == IF Has("auto.conf") THEN disk["auto.conf"] ELSE <<>>

Touch(call) ==
  /\ at.phase = "deps"
  /\ \E calc \in {call.calculated[IF Has("auto.conf") THEN [st EXCEPT !.valid = {}] ELSE st]} :
       \/ /\ touched' = touched \cup changed_deps(calc, AutoConf)
          /\ passed' = passed \cup passed_over(calc, AutoConf)
          /\ st' = calc /\ Stays("auto")
       \/ /\ \E some \in SUBSET changed_deps(calc, AutoConf) :
               some # changed_deps(calc, AutoConf) /\ touched' = touched \cup some
          /\ Quit /\ UNCHANGED passed
  /\ UNCHANGED <<disk, built, saved>>

WriteAuto(call) ==
  /\ at.phase = "auto"
  /\ LET lines == call.auto[st].lines
     IN disk' = [f \in DOMAIN disk \cup {".tmpconfig", ".tmpconfig.h"} |->
                   IF f \in {".tmpconfig", ".tmpconfig.h"} THEN lines ELSE disk[f]]
  /\ Stays("header") /\ UNCHANGED <<st, touched, passed, built, saved>>

RenameHeader ==
  /\ at.phase = "header"
  /\ disk' = Renamed(".tmpconfig.h", "autoconf.h")
  /\ Stays("last") /\ UNCHANGED <<st, touched, passed, built, saved>>

RenameAuto ==
  /\ at.phase = "last"
  /\ disk' = Renamed(".tmpconfig", "auto.conf")
  /\ Quit /\ UNCHANGED <<touched, passed, built, saved>>

\* The build, with the dependencies that fixdep has written for the objects:
\* what uses a symbol that has been touched is compiled again.  It is started
\* behind a syncconfig that has come to its end.
InSync == Has("auto.conf") /\ Has("autoconf.h") /\ disk["auto.conf"] = disk["autoconf.h"]
Header(s) == TextIn(disk["autoconf.h"], s)

Build ==
  /\ at.phase = "idle" /\ InSync
  /\ built' = [s \in Names |-> IF s \in touched THEN Header(s) ELSE built[s]]
  /\ touched' = {}
  /\ passed' = passed \ touched
  /\ UNCHANGED <<plan, disk, st, tool, at, edits, saved>>
-----------------------------------------------------------------------------
Next ==
  \E call \in {Calls} :
    \/ \E t \in Tools : Start(t, call)
    \/ Change \/ Crash
    \/ Ask(call) \/ Check(call) \/ AllChecked
    \/ Edit(call) \/ Load(call) \/ SaveKey \/ Exit
    \/ WriteTmp(call) \/ is_same(call) \/ RenameOld \/ RenameNew(call) \/ WriteDefconfig(call)
    \/ Touch(call) \/ WriteAuto(call) \/ RenameHeader \/ RenameAuto
    \/ Build

\* A user who is asked answers in the end: a program that asks goes on, by Ask,
\* Check or AllChecked.
GoesOn ==
  /\ at.phase = "asking"
  /\ at' \in [phase : {"asking", "save", "deps", "idle"}, check : 1 .. Len(st.source) + 1,
             walk : 0 .. Len(st.source), open : BOOLEAN, again : BOOLEAN, stay : {FALSE}]
  /\ at'.phase = "idle" => tool = "listnewconfig"

Spec == Init /\ [][Next]_vars /\ WF_at(GoesOn)
-----------------------------------------------------------------------------
\* What has been saved is never gone: it is the configuration, until a later
\* one is, and .config.old until then (confdata.c:927).
SavedIsKept ==
  saved # <<>> => saved = Files(IF Has("config") THEN "config" ELSE "config.old")

\* A symbol with another text in the header than when its users were compiled
\* has been touched, whichever sessions were killed in between (confdata.c:1096),
\* and one that is missing now too (confdata.c:466); but not one that has been
\* taken out of the Kconfig files while they still mention it: sym_find finds
\* it, and it is passed over (confdata.c:1024).
NoRebuildMissed ==
  InSync => \A s \in Names : Header(s) # built[s] => s \in touched \cup passed

\* What is written of a symbol is its value, of what is not to be written n
\* (confdata.c:1075); conf_touch_deps has compared its value.
AutoTells ==
  at.phase = "auto" =>
    \A s \in Names :
      TextIn(Calls.auto[st].lines, s) =
        IF s \in Symbols(st) /\ ~IsChoice(s) /\ s \in st.write THEN st.curr[s] ELSE "n"
=============================================================================
