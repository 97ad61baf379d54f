--------------------------- MODULE KSessionProofs ---------------------------
(***************************************************************************)
(* TLAPS proofs about KSession, for any menus, plans, answers and ways to  *)
(* calculate the symbols: what has been saved is never gone, and no object *)
(* that needs it goes without being compiled again, wherever the programs  *)
(* are killed, but for the symbols that conf_touch_deps passes over.       *)
(***************************************************************************)
EXTENDS KSession, TLAPS

\* at is a record with a phase: what EXCEPT needs to change it.
HasPhase == "phase" \in DOMAIN at

\* What a rename takes is there.
RenamesHave ==
  /\ at.phase \in {"same", "moved"} => Has("config.tmp")
  /\ at.phase = "header" => Has(".tmpconfig.h")
  /\ at.phase \in {"header", "last"} => Has(".tmpconfig")

FilesInv == HasPhase /\ RenamesHave /\ SavedIsKept

\* Where each step leaves a program.
LEMMA Phases ==
  ASSUME HasPhase
  PROVE  /\ \A t \in Tools : Start(t, Calls) => at'.phase \in {"editing", "asking", "idle", "minimal", "save"}
         /\ Change \/ Edit(Calls) \/ Load(Calls) => at' = at
         /\ Crash => at'.phase = "idle"
         /\ Ask(Calls) \/ Check(Calls) => at'.phase = "asking"
         /\ AllChecked => at'.phase \in {"idle", "asking", "save", "deps"}
         /\ SaveKey => at'.phase = "save"
         /\ Exit => at'.phase \in {"save", "idle"}
         /\ Next => HasPhase'
<1>. USE DEF HasPhase, At, Quit, Stays
<1>1. ASSUME NEW t \in Tools, Start(t, Calls)
      PROVE  HasPhase' /\ at'.phase \in {"editing", "asking", "idle", "minimal", "save"}
  <2>1. \E s0 : at' = [At(FirstPhase(t, s0)) EXCEPT !.walk = IF t = "oldaskconfig" THEN 1 ELSE 0]
    BY <1>1 DEF Start
  <2>2. \A s0 : FirstPhase(t, s0) \in {"editing", "asking", "idle", "minimal", "save"}
    BY DEF FirstPhase
  <2>. QED
    BY <2>1, <2>2
<1>2. Change \/ Edit(Calls) \/ Load(Calls) => HasPhase' /\ at' = at
  BY DEF Change, Edit, Load
<1>3. Crash => HasPhase' /\ at'.phase = "idle"
  BY DEF Crash
<1>4. Ask(Calls) => HasPhase' /\ at'.phase = "asking"
  BY DEF Ask
<1>5. Check(Calls) => HasPhase' /\ at'.phase = "asking"
  BY DEF Check
<1>6. AllChecked => HasPhase' /\ at'.phase \in {"idle", "asking", "save", "deps"}
  BY DEF AllChecked
<1>7. SaveKey => HasPhase' /\ at'.phase = "save"
  BY DEF SaveKey
<1>8. Exit => HasPhase' /\ at'.phase \in {"save", "idle"}
  BY DEF Exit
<1>9. WriteTmp(Calls) \/ is_same(Calls) \/ RenameOld \/ RenameNew(Calls) \/ WriteDefconfig(Calls) => HasPhase'
  BY DEF WriteTmp, is_same, RenameOld, RenameNew, WriteDefconfig, AfterSave
<1>10. Touch(Calls) \/ WriteAuto(Calls) \/ RenameHeader \/ RenameAuto \/ Build => HasPhase'
  BY DEF Touch, WriteAuto, RenameHeader, RenameAuto, Build
<1>. QED
  BY <1>1, <1>2, <1>3, <1>4, <1>5, <1>6, <1>7, <1>8, <1>9, <1>10 DEF Next
-----------------------------------------------------------------------------
(***************************************************************************)
(* Nothing that was saved is lost.                                         *)
(***************************************************************************)

\* A save in progress: conf_write.
LEMMA FilesSaving ==
  ASSUME FilesInv, WriteTmp(Calls) \/ is_same(Calls) \/ RenameOld \/ RenameNew(Calls)
  PROVE  FilesInv'
<1>. USE DEF HasPhase, At, Stays, Has, Files
<1>1. HasPhase'
  BY Phases DEF FilesInv, Next
<1>2. CASE WriteTmp(Calls)
  <2>1. PICK written : disk' = With("config.tmp", written.lines)
    BY <1>2 DEF WriteTmp
  <2>2. at'.phase = "same" /\ saved' = saved
    BY <1>2 DEF WriteTmp, FilesInv
  <2>3. /\ DOMAIN disk' = DOMAIN disk \cup {"config.tmp"}
        /\ \A f \in DOMAIN disk : f # "config.tmp" => disk'[f] = disk[f]
    BY <2>1 DEF With
  <2>. QED
    BY <1>1, <2>2, <2>3 DEF FilesInv, RenamesHave, SavedIsKept
<1>3. AfterSave(Calls) => at'.phase \in {"editing", "idle", "deps"}
  BY DEF AfterSave, Quit, FilesInv
<1>4. CASE is_same(Calls)
  <2>1. /\ DOMAIN disk' = DOMAIN disk \ {"config.tmp"}
        /\ \A f \in DOMAIN disk : f # "config.tmp" => disk'[f] = disk[f]
        /\ "config" \in DOMAIN disk
        /\ saved' = <<disk["config"]>>
    BY <1>4 DEF is_same, Without
  <2>. QED
    BY <1>1, <1>3, <1>4, <2>1 DEF is_same, FilesInv, RenamesHave, SavedIsKept
<1>5. CASE RenameOld
  <2>1. at'.phase = "moved" /\ saved' = saved /\ "config.tmp" \in DOMAIN disk
    BY <1>5 DEF RenameOld, FilesInv, RenamesHave
  <2>2. CASE "config" \in DOMAIN disk
    <3>1. /\ DOMAIN disk' = (DOMAIN disk \ {"config"}) \cup {"config.old"}
          /\ disk'["config.old"] = disk["config"]
      BY <1>5, <2>2 DEF RenameOld, Renamed
    <3>. QED
      BY <1>1, <2>1, <2>2, <3>1 DEF FilesInv, RenamesHave, SavedIsKept
  <2>3. CASE "config" \notin DOMAIN disk
    <3>1. disk' = disk
      BY <1>5, <2>3 DEF RenameOld
    <3>. QED
      BY <1>1, <2>1, <2>3, <3>1 DEF FilesInv, RenamesHave, SavedIsKept
  <2>. QED
    BY <2>2, <2>3
<1>6. CASE RenameNew(Calls)
  <2>1. /\ "config" \in DOMAIN disk'
        /\ disk'["config"] = disk["config.tmp"]
        /\ saved' = <<disk["config.tmp"]>>
    BY <1>6 DEF RenameNew, Renamed
  <2>. QED
    BY <1>1, <1>3, <1>6, <2>1 DEF RenameNew, FilesInv, RenamesHave, SavedIsKept
<1>. QED
  BY <1>2, <1>4, <1>5, <1>6

\* The other files: the minimal configuration, auto.conf and autoconf.h.
LEMMA FilesOther ==
  ASSUME FilesInv, WriteDefconfig(Calls) \/ Touch(Calls) \/ WriteAuto(Calls) \/ RenameHeader \/ RenameAuto
  PROVE  FilesInv'
<1>. USE DEF HasPhase, At, Stays, Quit, Has, Files
<1>1. HasPhase'
  BY Phases DEF FilesInv, Next
<1>2. ASSUME /\ saved' = saved
             /\ \A f \in {"config", "config.old"} :
                  /\ f \in DOMAIN disk' <=> f \in DOMAIN disk
                  /\ f \in DOMAIN disk => disk'[f] = disk[f]
      PROVE  SavedIsKept'
  BY <1>2 DEF FilesInv, SavedIsKept
<1>3. CASE WriteDefconfig(Calls)
  <2>1. /\ DOMAIN disk' = DOMAIN disk \cup {"defconfig"}
        /\ \A f \in DOMAIN disk : f # "defconfig" => disk'[f] = disk[f]
    BY <1>3 DEF WriteDefconfig, With
  <2>2. at'.phase = "idle" /\ saved' = saved
    BY <1>3 DEF WriteDefconfig
  <2>. QED
    BY <1>1, <1>2, <2>1, <2>2 DEF FilesInv, RenamesHave
<1>4. CASE Touch(Calls)
  <2>1. disk' = disk /\ saved' = saved
    BY <1>4 DEF Touch
  <2>2. at'.phase \in {"auto", "idle"}
    BY <1>4 DEF Touch, FilesInv
  <2>. QED
    BY <1>1, <1>2, <2>1, <2>2 DEF FilesInv, RenamesHave
<1>5. CASE WriteAuto(Calls)
  <2>1. /\ DOMAIN disk' = DOMAIN disk \cup {".tmpconfig", ".tmpconfig.h"}
        /\ \A f \in DOMAIN disk : f \notin {".tmpconfig", ".tmpconfig.h"} => disk'[f] = disk[f]
    BY <1>5 DEF WriteAuto
  <2>2. at'.phase = "header" /\ saved' = saved
    BY <1>5 DEF WriteAuto, FilesInv
  <2>. QED
    BY <1>1, <1>2, <2>1, <2>2 DEF FilesInv, RenamesHave
<1>6. CASE RenameHeader
  <2>1. /\ DOMAIN disk' = (DOMAIN disk \ {".tmpconfig.h"}) \cup {"autoconf.h"}
        /\ \A f \in DOMAIN disk : f \notin {".tmpconfig.h", "autoconf.h"} => disk'[f] = disk[f]
    BY <1>6 DEF RenameHeader, Renamed
  <2>2. at.phase = "header" /\ at'.phase = "last" /\ saved' = saved
    BY <1>6 DEF RenameHeader, FilesInv
  <2>. QED
    BY <1>1, <1>2, <2>1, <2>2 DEF FilesInv, RenamesHave
<1>7. CASE RenameAuto
  <2>1. /\ DOMAIN disk' = (DOMAIN disk \ {".tmpconfig"}) \cup {"auto.conf"}
        /\ \A f \in DOMAIN disk : f \notin {".tmpconfig", "auto.conf"} => disk'[f] = disk[f]
    BY <1>7 DEF RenameAuto, Renamed
  <2>2. at'.phase = "idle" /\ saved' = saved
    BY <1>7 DEF RenameAuto
  <2>. QED
    BY <1>1, <1>2, <2>1, <2>2 DEF FilesInv, RenamesHave
<1>. QED
  BY <1>3, <1>4, <1>5, <1>6, <1>7

\* Everything but saving leaves the files alone.
LEMMA FilesStep == FilesInv /\ [Next]_vars => FilesInv'
<1>. SUFFICES ASSUME FilesInv, [Next]_vars PROVE FilesInv'
  OBVIOUS
<1>1. ASSUME disk' = disk, saved' = saved, HasPhase',
             at'.phase \in {"editing", "asking", "idle", "minimal", "save", "deps"}
      PROVE  FilesInv'
  BY <1>1 DEF FilesInv, RenamesHave, SavedIsKept, Has, Files
<1>2. ASSUME disk' = disk, saved' = saved, at' = at
      PROVE  FilesInv'
  BY <1>2 DEF FilesInv, HasPhase, RenamesHave, SavedIsKept, Has, Files
<1>3. HasPhase
  BY DEF FilesInv
<1>4. ASSUME NEW t \in Tools, Start(t, Calls) PROVE FilesInv'
  <2>1. disk' = disk /\ saved' = saved
    BY <1>4 DEF Start, onDisk
  <2>. QED
    BY <1>1, <1>3, <1>4, <2>1, Phases DEF Next
<1>5. CASE Change \/ Edit(Calls) \/ Load(Calls) \/ Build \/ UNCHANGED vars
  <2>1. disk' = disk /\ saved' = saved
    BY <1>5 DEF Change, Edit, Load, Build, onDisk, vars
  <2>2. at' = at
    BY <1>5 DEF Change, Edit, Load, Build, vars
  <2>. QED
    BY <1>2, <2>1, <2>2
<1>6. CASE Crash \/ Ask(Calls) \/ Check(Calls) \/ AllChecked \/ SaveKey \/ Exit
  <2>1. disk' = disk /\ saved' = saved
    BY <1>6 DEF Crash, Ask, Check, AllChecked, SaveKey, Exit, onDisk
  <2>2. HasPhase'
    BY <1>3, <1>6, Phases DEF Next
  <2>. QED
    BY <1>1, <1>3, <1>6, <2>1, <2>2, Phases
<1>. QED
  BY <1>4, <1>5, <1>6, FilesSaving, FilesOther DEF Next

LEMMA FilesInit == Init => FilesInv
  BY DEF Init, FilesInv, HasPhase, RenamesHave, SavedIsKept, At

THEOREM FilesInvariant == Spec => []FilesInv
  BY FilesInit, FilesStep, PTL DEF Spec

\* Saving takes several files through several steps, and a program may be
\* killed between any two: what a finished save wrote is the configuration, or
\* .config.old while the next one is on its way (confdata.c:927).
THEOREM SavedStays == Spec => []SavedIsKept
<1>1. FilesInv => SavedIsKept
  BY DEF FilesInv
<1>. QED
  BY <1>1, FilesInvariant, PTL
-----------------------------------------------------------------------------
(***************************************************************************)
(* No object that needs it goes without being compiled again.  The links   *)
(* of the argument are that auto.conf only ever changes in symbols that    *)
(* have been touched before or passed over, and that only a build takes    *)
(* the touch away.                                                         *)
(***************************************************************************)

\* What auto.conf is going to say of a symbol.
Value(s) == IF s \in Symbols(st) /\ ~IsChoice(s) /\ s \in st.write THEN st.curr[s] ELSE "n"
Waiting == disk[".tmpconfig"]

\* What conf_touch_deps has seen to, and what it has passed over.
Met == touched \cup passed

BuildInv ==
  /\ HasPhase
  /\ \A s \in Names : IsChoice(s) => TextIn(AutoConf, s) = "n"
  /\ \A s \in Names : TextIn(AutoConf, s) # built[s] => s \in Met
  /\ at.phase = "auto" => \A s \in Names : Value(s) # TextIn(AutoConf, s) => s \in Met
  /\ at.phase \in {"header", "last"} =>
       /\ Has(".tmpconfig")
       /\ \A s \in Names : /\ IsChoice(s) => TextIn(Waiting, s) = "n"
                           /\ TextIn(Waiting, s) # TextIn(AutoConf, s) => s \in Met

LEMMA NoLines == \A s : TextIn(<<>>, s) = "n"
  BY DEF TextIn

LEMMA BuildInit == Init => BuildInv
<1>. SUFFICES ASSUME Init PROVE BuildInv
  OBVIOUS
<1>1. AutoConf = <<>>
  BY DEF Init, AutoConf, Has
<1>2. at.phase = "idle" /\ HasPhase
  BY DEF Init, At, HasPhase
<1>3. \A s \in Names : built[s] = "n"
  BY DEF Init, NoText
<1>. QED
  BY <1>1, <1>2, <1>3, NoLines DEF BuildInv

\* conf_touch_deps: a symbol with another text than auto.conf has is touched or
\* passed over.
LEMMA Compared ==
  ASSUME NEW calc, NEW old, NEW s,
         IsChoice(s) => TextIn(old, s) = "n",
         TextIn(old, s) #
           IF s \in Symbols(calc) /\ ~IsChoice(s) /\ s \in calc.write THEN calc.curr[s] ELSE "n"
  PROVE  s \in changed_deps(calc, old) \cup passed_over(calc, old)
<1>1. TextIn(old, s) # "n" => \E i \in DOMAIN old : old[i].sym = s
  BY DEF TextIn
<1>2. CASE s \notin Symbols(calc)
  BY <1>1, <1>2 DEF changed_deps, passed_over
<1>3. CASE s \in Symbols(calc) /\ ~IsChoice(s) /\ s \in calc.write
  BY <1>3 DEF changed_deps, Found
<1>4. CASE s \in Symbols(calc) /\ ~IsChoice(s) /\ s \notin calc.write
  BY <1>1, <1>4 DEF changed_deps, Found
<1>. QED
  BY <1>2, <1>3, <1>4

\* A step that leaves auto.conf, the touches and the objects alone, and does
\* not go on with them.
LEMMA BuildKept ==
  ASSUME BuildInv, HasPhase', AutoConf' = AutoConf, Met \subseteq Met', built' = built,
         at'.phase \notin {"auto", "header", "last"}
  PROVE  BuildInv'
  BY DEF BuildInv, Names

LEMMA BuildSaving ==
  ASSUME BuildInv, WriteTmp(Calls) \/ is_same(Calls) \/ RenameOld \/ RenameNew(Calls) \/ WriteDefconfig(Calls)
  PROVE  BuildInv'
<1>. USE DEF HasPhase, At, Stays, Quit, Has
<1>1. HasPhase'
  BY Phases DEF BuildInv, Next
<1>2. AfterSave(Calls) => at'.phase \in {"editing", "idle", "deps"}
  BY DEF AfterSave, BuildInv
<1>3. at'.phase \in {"same", "moved", "editing", "idle", "deps"}
  BY <1>2 DEF WriteTmp, is_same, RenameOld, RenameNew, WriteDefconfig, BuildInv
<1>4. Met' = Met /\ built' = built
  BY DEF Met, WriteTmp, is_same, RenameOld, RenameNew, WriteDefconfig
<1>5. AutoConf' = AutoConf
  <2>1. CASE WriteTmp(Calls) \/ WriteDefconfig(Calls)
    <3>1. PICK file, lines : file \in {"config.tmp", "defconfig"} /\ disk' = With(file, lines)
      BY <2>1 DEF WriteTmp, WriteDefconfig
    <3>. QED
      BY <3>1 DEF With, AutoConf
  <2>2. CASE is_same(Calls)
    BY <2>2 DEF is_same, Without, AutoConf
  <2>3. CASE RenameOld
    BY <2>3 DEF RenameOld, Renamed, AutoConf
  <2>4. CASE RenameNew(Calls)
    BY <2>4 DEF RenameNew, Renamed, AutoConf
  <2>. QED
    BY <2>1, <2>2, <2>3, <2>4
<1>. QED
  BY <1>1, <1>3, <1>4, <1>5, BuildKept

LEMMA BuildTouch ==
  ASSUME BuildInv, Touch(Calls)
  PROVE  BuildInv'
<1>. USE DEF HasPhase, At, Stays, Quit, Has
<1>1. HasPhase'
  BY Phases DEF BuildInv, Next
<1>2. AutoConf' = AutoConf /\ built' = built
  BY DEF Touch, AutoConf
<1>3. CASE at'.phase = "auto"
  <2>1. /\ at'.phase = "auto"
        /\ touched' = touched \cup changed_deps(st', AutoConf)
        /\ passed' = passed \cup passed_over(st', AutoConf)
    BY <1>3 DEF Touch, BuildInv
  <2>2. Met' = Met \cup changed_deps(st', AutoConf) \cup passed_over(st', AutoConf)
    BY <2>1 DEF Met
  <2>3. ASSUME NEW s \in Names, Value(s)' # TextIn(AutoConf, s)
        PROVE  s \in changed_deps(st', AutoConf) \cup passed_over(st', AutoConf)
    BY <2>3, Compared DEF BuildInv, Value
  <2>. QED
    BY <1>1, <1>2, <2>1, <2>2, <2>3 DEF BuildInv, Names
<1>4. CASE at'.phase # "auto"
  <2>1. at'.phase = "idle" /\ Met \subseteq Met'
    BY <1>4 DEF Met, Touch, BuildInv
  <2>. QED
    BY <1>1, <1>2, <2>1, BuildKept
<1>. QED
  BY <1>3, <1>4

LEMMA BuildWrite ==
  ASSUME BuildInv, AutoTells, WriteAuto(Calls)
  PROVE  BuildInv'
<1>. USE DEF HasPhase, Stays, Has
<1>. DEFINE lines == Calls.auto[st].lines
<1>1. HasPhase' /\ at'.phase = "header" /\ at.phase = "auto"
  BY DEF WriteAuto, BuildInv
<1>2. AutoConf' = AutoConf /\ built' = built /\ Met' = Met
  BY DEF WriteAuto, AutoConf, Met
<1>3. Has(".tmpconfig")' /\ Waiting' = lines
  BY DEF WriteAuto, Waiting
<1>4. \A s \in Names : TextIn(lines, s) = Value(s)
  BY <1>1 DEF AutoTells, Value
<1>. HIDE DEF lines
<1>5. ASSUME NEW s \in Names
      PROVE  /\ IsChoice(s) => TextIn(lines, s) = "n"
             /\ TextIn(lines, s) # TextIn(AutoConf, s) => s \in Met
  BY <1>1, <1>4 DEF BuildInv, Value
<1>. QED
  BY <1>1, <1>2, <1>3, <1>5 DEF BuildInv, Names

LEMMA BuildRename ==
  ASSUME BuildInv, RenameHeader \/ RenameAuto
  PROVE  BuildInv'
<1>. USE DEF HasPhase, At, Stays, Quit, Has
<1>1. Met' = Met /\ built' = built
  BY DEF Met, RenameHeader, RenameAuto
<1>2. CASE RenameHeader
  <2>1. HasPhase' /\ at'.phase = "last" /\ at.phase = "header"
    BY <1>2 DEF RenameHeader, BuildInv
  <2>2. AutoConf' = AutoConf
    BY <1>2 DEF RenameHeader, Renamed, AutoConf
  <2>3. Has(".tmpconfig")' /\ Waiting' = Waiting
    BY <1>2, <2>1 DEF RenameHeader, Renamed, Waiting, BuildInv
  <2>. QED
    BY <1>1, <2>1, <2>2, <2>3 DEF BuildInv, Names
<1>3. CASE RenameAuto
  <2>1. HasPhase' /\ at'.phase = "idle" /\ at.phase = "last"
    BY <1>3 DEF RenameAuto
  <2>2. AutoConf' = Waiting
    BY <1>3 DEF RenameAuto, Renamed, AutoConf, Waiting
  <2>3. ASSUME NEW s \in Names, TextIn(Waiting, s) # built[s] PROVE s \in Met
    BY <2>1, <2>3 DEF BuildInv
  <2>. QED
    BY <1>1, <2>1, <2>2, <2>3 DEF BuildInv, Names
<1>. QED
  BY <1>2, <1>3

LEMMA BuildBuild ==
  ASSUME BuildInv, Build
  PROVE  BuildInv'
<1>1. HasPhase' /\ at'.phase = "idle"
  BY DEF Build, BuildInv, HasPhase
<1>2. AutoConf' = AutoConf
  BY DEF Build, AutoConf, Has
<1>3. ASSUME NEW s \in Names, TextIn(AutoConf, s) # built'[s] PROVE s \in passed'
  <2>1. Header(s) = TextIn(AutoConf, s)
    BY DEF Build, InSync, Header, AutoConf
  <2>2. s \notin touched /\ built'[s] = built[s]
    BY <1>3, <2>1 DEF Build
  <2>3. s \in Met
    BY <1>3, <2>2 DEF BuildInv
  <2>. QED
    BY <2>2, <2>3 DEF Met, Build
<1>4. passed' \subseteq Met'
  BY DEF Met
<1>. QED
  BY <1>1, <1>2, <1>3, <1>4 DEF BuildInv, Names

LEMMA BuildStep == BuildInv /\ AutoTells /\ [Next]_vars => BuildInv'
<1>. SUFFICES ASSUME BuildInv, AutoTells, [Next]_vars PROVE BuildInv'
  OBVIOUS
<1>1. HasPhase
  BY DEF BuildInv
<1>2. ASSUME onDisk' = onDisk, HasPhase',
             at'.phase \in {"editing", "asking", "idle", "minimal", "save", "deps"}
      PROVE  BuildInv'
  BY <1>2, BuildKept DEF onDisk, AutoConf, Has, Met
<1>3. ASSUME NEW t \in Tools, Start(t, Calls) PROVE BuildInv'
  BY <1>1, <1>2, <1>3, Phases DEF Next, Start
<1>4. CASE Change \/ Edit(Calls) \/ Load(Calls)
  <2>1. onDisk' = onDisk /\ at' = at /\ at.phase \in {"idle", "editing"}
    BY <1>4 DEF Change, Edit, Load, onDisk
  <2>. QED
    BY <1>1, <1>2, <2>1 DEF HasPhase
<1>5. CASE UNCHANGED vars
  BY <1>5 DEF vars, BuildInv, HasPhase, AutoConf, Has, Value, Waiting, Met, Symbols
<1>6. CASE Crash \/ Ask(Calls) \/ Check(Calls) \/ AllChecked \/ SaveKey \/ Exit
  <2>1. onDisk' = onDisk
    BY <1>6 DEF Crash, Ask, Check, AllChecked, SaveKey, Exit, onDisk
  <2>2. HasPhase'
    BY <1>1, <1>6, Phases DEF Next
  <2>. QED
    BY <1>1, <1>2, <1>6, <2>1, <2>2, Phases
<1>. QED
  BY <1>3, <1>4, <1>5, <1>6, BuildSaving, BuildTouch, BuildWrite, BuildRename, BuildBuild DEF Next

\* What the build rests on: whichever sessions and builds there were, and
\* wherever they were killed, a symbol with another text in auto.conf than its
\* users were compiled with has been touched, or passed over.
THEOREM BuildInvariant == Spec /\ []AutoTells => []BuildInv
  BY BuildInit, BuildStep, PTL DEF Spec

\* A symbol with another text in the header than when its users were compiled
\* has been touched, whichever sessions were killed in between
\* (confdata.c:1096), or lost its declaration but not every mention and was
\* passed over (confdata.c:1024), if auto.conf is written as AutoTells has it.
THEOREM RebuildsAll == Spec /\ []AutoTells => []NoRebuildMissed
<1>1. BuildInv => NoRebuildMissed
  BY DEF BuildInv, NoRebuildMissed, InSync, Header, AutoConf, Met
<1>. QED
  BY <1>1, BuildInvariant, PTL
=============================================================================
