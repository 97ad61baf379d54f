------------------------------ MODULE MCKConf ------------------------------
(***************************************************************************)
(* A small menu for KConf: tristates, one of which selects a symbol, a     *)
(* choice of two, a number with a range, and what depends on them.         *)
(***************************************************************************)
EXTENDS KConf
-----------------------------------------------------------------------------
Entry(type, if) ==
  [type |-> type, prompt |-> <<if>>, defaults |-> <<>>, dir |-> Null, rev |-> Sym("n"),
   imply |-> Sym("n"), range |-> <<>>, choice |-> None, members |-> <<>>, optional |-> FALSE,
   mentions |-> {}]
Hidden(type) == [Entry(type, Null) EXCEPT !.prompt = <<>>]
Default(value, if) == [val |-> Sym(value), if |-> if]
On(s) == Sym(s)

DeclAll ==
  [s \in {"MODULES", "LATE", "T", "U", "SEL", "W", "CH", "A", "B", "X", "N"} |->
     CASE s = "MODULES" -> [Entry("BOOLEAN", Null) EXCEPT !.defaults = <<Default("y", Null)>>]
       [] s = "LATE" -> [Entry("BOOLEAN", On("T")) EXCEPT !.dir = On("T"), !.mentions = {"T"}]
       [] s = "T" -> Entry("TRISTATE", Null)
       [] s = "U" -> [Entry("TRISTATE", On("T")) EXCEPT !.dir = On("T"), !.mentions = {"T", "SEL"}]
       [] s = "SEL" -> [Hidden("TRISTATE") EXCEPT !.rev = On("U")]
       [] s = "W" -> [Entry("BOOLEAN", Not(On("SEL"))) EXCEPT
                        !.dir = Not(On("SEL")), !.mentions = {"SEL", "T"},
                        !.defaults = <<Default("y", Two("AND", Not(On("SEL")), On("T")))>>]
       [] s = "CH" -> [Entry("BOOLEAN", On("T")) EXCEPT
                         !.dir = On("T"), !.rev = Two("AND", On("T"), Sym("m")), !.members = <<"A", "B">>,
                         !.mentions = {"T"},
                         !.defaults = <<Default("B", On("T"))>>]
       [] s = "A" -> [Entry("BOOLEAN", On("CH")) EXCEPT !.choice = "CH"]
       [] s = "B" -> [Entry("BOOLEAN", On("CH")) EXCEPT !.choice = "CH"]
       [] s = "X" -> [Entry("BOOLEAN", On("B")) EXCEPT
                        !.dir = On("B"), !.defaults = <<Default("y", On("B"))>>, !.mentions = {"B"}]
       [] s = "N" -> [Entry("INT", Null) EXCEPT
                        !.mentions = {"T"},
                        !.defaults = <<Default("10", Null)>>,
                        !.range = <<[low |-> Sym("2"), high |-> Sym("2"), if |-> On("T")]>>] ]
TypeAll == [s \in DOMAIN DeclAll |-> DeclAll[s].type]

\* The choice is one of tristates.
DeclTri ==
  [s \in DOMAIN DeclAll |->
     IF s \in {"CH", "A", "B"} THEN [DeclAll[s] EXCEPT !.type = "TRISTATE"] ELSE DeclAll[s]]
TypeTri == [s \in DOMAIN DeclTri |-> DeclTri[s].type]

Whole == <<"MODULES", "T", "U", "SEL", "W", "CH", "A", "B", "X", "N">>
Small == <<"LATE", "T", "CH", "A", "B">>
Later == <<"LATE", "T", "U", "CH", "A", "B">>
Plan(history, options, starts, keys) ==
  [sources |-> history, tools |-> options, runs |-> starts, edits |-> keys]

\* menuconfig, and the questions, with everything; the builds between sessions
\* while the Kconfig files change, a symbol that comes, one that goes, and one that
\* goes while LATE still depends on it; the minimal configuration; the other modes.
PlansAll ==
  {Plan(<<Whole>>, {"menuconfig"}, 1, 2),
   Plan(<<Whole>>, {"oldaskconfig", "randconfig"}, 1, 0),
   Plan(<<Small>>, {"menuconfig", "savedefconfig", "defconfig"}, 3, 1),
   Plan(<<Small, Later>>, {"menuconfig", "syncconfig", "nosilentupdate"}, 2, 1),
   Plan(<<<<"T", "LATE">>, <<"T">>>>, {"menuconfig", "syncconfig"}, 3, 2),
   Plan(<<<<"T", "LATE">>, <<"LATE">>>>, {"menuconfig", "syncconfig"}, 3, 1),
   Plan(<<Small, Later>>, {"allmodconfig", "olddefconfig", "oldconfig", "listnewconfig"}, 2, 0),
   Plan(<<Small, Later>>,
        {"allyesconfig", "allnoconfig", "alldefconfig", "mod2yesconfig", "yes2modconfig"}, 2, 0)}

PlansTri == {Plan(<<<<"MODULES", "T", "CH", "A", "B">>>>, {"menuconfig"}, 1, 3)}
=============================================================================
