---------------------------- MODULE TracesProofs ----------------------------
(***************************************************************************)
(* TLAPS proofs about Traces: for every size of the ring and any program,  *)
(* a failure shows the last instructions in their order; and calls and     *)
(* returns are indented by the calls that are active, when the fields that *)
(* ftrace_inst does not set held 0.                                        *)
(***************************************************************************)
EXTENDS Traces, SequenceTheorems, FiniteSetTheorems, WellFoundedInduction, TLAPS

\* Every set of natural numbers has a least one: what the inductions below
\* rest on.
LEMMA LeastNumber ==
  ASSUME NEW T, T \subseteq Nat, T # {}
  PROVE  \E x \in T : \A y \in T : ~(y < x)
<1>1. \E x \in T : \A y \in T : ~(<<y, x>> \in OpToRel(<, Nat))
  BY NatLessThanWellFounded, WFMin
<1>. QED
  BY <1>1 DEF OpToRel
-----------------------------------------------------------------------------
(***************************************************************************)
(* The ring of instructions.                                               *)
(***************************************************************************)

\* The k-th place from the oldest one.
PlaceOf(head, k) == (head + k - 1) % IRING_SIZE

LEMMA NextPlace ==
  ASSUME NEW head \in 0 .. IRING_SIZE - 1
  PROVE  (head + 1) % IRING_SIZE = IF head + 1 = IRING_SIZE THEN 0 ELSE head + 1
  BY TraceAssumption

LEMMA PlaceValue ==
  ASSUME NEW head \in 0 .. IRING_SIZE - 1, NEW k \in 1 .. IRING_SIZE
  PROVE  /\ PlaceOf(head, k) \in 0 .. IRING_SIZE - 1
         /\ PlaceOf(head, k) = IF (head + k) - 1 < IRING_SIZE THEN (head + k) - 1
                               ELSE ((head + k) - 1) - IRING_SIZE
  BY TraceAssumption DEF PlaceOf

\* The k-th place from the head has the k-th of the last instructions.
RingInv ==
  /\ executed \in Nat
  /\ iring_head \in 0 .. IRING_SIZE - 1
  /\ iring \in [0 .. IRING_SIZE - 1 -> Nat]
  /\ \A k \in 1 .. IRING_SIZE :
       iring[PlaceOf(iring_head, k)] =
         IF executed + k > IRING_SIZE THEN executed + k - IRING_SIZE ELSE 0

LEMMA RingStep ==
  ASSUME RingInv, executed' = executed + 1, add2iring(executed')
  PROVE  RingInv'
<1>1. /\ executed \in Nat /\ executed' \in Nat /\ IRING_SIZE \in Nat \ {0}
      /\ iring_head \in 0 .. IRING_SIZE - 1 /\ iring \in [0 .. IRING_SIZE - 1 -> Nat]
      /\ iring' = [iring EXCEPT ![iring_head] = executed']
  BY TraceAssumption DEF RingInv, add2iring
<1>2. iring_head' = IF iring_head + 1 = IRING_SIZE THEN 0 ELSE iring_head + 1
  <2>1. iring_head' = (iring_head + 1) % IRING_SIZE
    BY DEF add2iring
  <2>2. (iring_head + 1) % IRING_SIZE = IF iring_head + 1 = IRING_SIZE THEN 0 ELSE iring_head + 1
    BY <1>1, NextPlace
  <2>. QED
    BY <2>1, <2>2
<1>3. iring_head' \in 0 .. IRING_SIZE - 1 /\ iring' \in [0 .. IRING_SIZE - 1 -> Nat]
  BY <1>1, <1>2
<1>4. ASSUME NEW k \in 1 .. IRING_SIZE
      PROVE  iring'[PlaceOf(iring_head', k)] =
               IF executed' + k > IRING_SIZE THEN executed' + k - IRING_SIZE ELSE 0
  <2>1. CASE k = IRING_SIZE
    <3>1. PlaceOf(iring_head', k) = iring_head
      <4>1. PlaceOf(iring_head', k) =
              IF (iring_head' + k) - 1 < IRING_SIZE THEN (iring_head' + k) - 1
              ELSE ((iring_head' + k) - 1) - IRING_SIZE
        BY <1>3, PlaceValue
      <4>. QED
        BY <1>1, <1>2, <2>1, <4>1
    <3>. QED
      BY <1>1, <2>1, <3>1
  <2>2. CASE k # IRING_SIZE
    <3>1. k + 1 \in 1 .. IRING_SIZE /\ k \in Nat
      BY <1>1, <2>2
    <3>2. PlaceOf(iring_head', k) =
            IF (iring_head' + k) - 1 < IRING_SIZE THEN (iring_head' + k) - 1
            ELSE ((iring_head' + k) - 1) - IRING_SIZE
      BY <1>3, PlaceValue
    <3>3. PlaceOf(iring_head, k + 1) =
            IF iring_head + k < IRING_SIZE THEN iring_head + k ELSE (iring_head + k) - IRING_SIZE
      <4>1. PlaceOf(iring_head, k + 1) =
              IF (iring_head + (k + 1)) - 1 < IRING_SIZE THEN (iring_head + (k + 1)) - 1
              ELSE ((iring_head + (k + 1)) - 1) - IRING_SIZE
        BY <1>1, <3>1, PlaceValue
      <4>2. (iring_head + (k + 1)) - 1 = iring_head + k
        BY <1>1, <3>1
      <4>. QED
        BY <4>1, <4>2
    <3>4. PlaceOf(iring_head', k) = PlaceOf(iring_head, k + 1)
      <4>1. CASE iring_head + 1 = IRING_SIZE
        <5>1. PlaceOf(iring_head', k) = k - 1
          <6>1. iring_head' = 0
            BY <1>2, <4>1
          <6>2. k - 1 < IRING_SIZE /\ (0 + k) - 1 = k - 1
            BY <1>1, <3>1
          <6>. QED
            BY <3>2, <6>1, <6>2
        <5>2. /\ ~(iring_head + k < IRING_SIZE)
              /\ (iring_head + k) - IRING_SIZE = k - 1
          <6>1. k \in Nat \ {0} /\ iring_head \in Nat /\ IRING_SIZE = iring_head + 1
            BY <1>1, <3>1, <4>1
          <6>. QED
            BY ONLY <6>1
        <5>3. PlaceOf(iring_head, k + 1) = k - 1
          BY <3>3, <5>2
        <5>. QED
          BY <5>1, <5>3
      <4>2. CASE iring_head + 1 # IRING_SIZE
        <5>1. (iring_head' + k) - 1 = iring_head + k
          <6>1. iring_head' = iring_head + 1 /\ iring_head \in Nat /\ k \in Nat
            BY <1>1, <1>2, <3>1, <4>2
          <6>. QED
            BY ONLY <6>1
        <5>. QED
          BY <3>2, <3>3, <5>1
      <4>. QED
        BY <4>1, <4>2
    <3>5. PlaceOf(iring_head, k + 1) # iring_head
      BY <1>1, <2>2, <3>1, <3>3
    <3>6. iring'[PlaceOf(iring_head, k + 1)] = iring[PlaceOf(iring_head, k + 1)]
      BY <1>1, <3>1, <3>5, PlaceValue
    <3>7. iring[PlaceOf(iring_head, k + 1)] =
            IF executed + (k + 1) > IRING_SIZE THEN executed + (k + 1) - IRING_SIZE ELSE 0
      BY <3>1 DEF RingInv
    <3>8. executed + (k + 1) = executed' + k
      BY <1>1, <3>1
    <3>. QED
      BY <1>1, <3>1, <3>4, <3>6, <3>7, <3>8
  <2>. QED
    BY <2>1, <2>2
<1>. QED
  BY <1>1, <1>3, <1>4 DEF RingInv

LEMMA RingInvariant == TraceSpec => []RingInv
<1>1. ASSUME TraceInit PROVE RingInv
  <2>1. \A k \in 1 .. IRING_SIZE : PlaceOf(0, k) \in 0 .. IRING_SIZE - 1
    BY PlaceValue, TraceAssumption
  <2>. QED
    BY <1>1, <2>1, TraceAssumption DEF TraceInit, RingInv
<1>2. ASSUME RingInv, [trace]_traceVars PROVE RingInv'
  <2>1. CASE trace
    BY <1>2, <2>1, RingStep DEF trace
  <2>2. CASE UNCHANGED traceVars
    BY <1>2, <2>2 DEF RingInv, traceVars
  <2>. QED
    BY <1>2, <2>1, <2>2
<1>. QED
  BY <1>1, <1>2, PTL DEF TraceSpec

\* How many of the k oldest places have a text.
Texts(k) ==
  IF executed + k <= IRING_SIZE THEN 0
  ELSE IF executed >= IRING_SIZE THEN k ELSE executed + k - IRING_SIZE

\* The loop of iring_print, behind the k oldest places.
PrintedRing(f, n) ==
  f = [k \in 0 .. n |->
         IF k = 0 THEN <<>>
         ELSE LET text == iring[PlaceOf(iring_head, k)]
              IN IF text > 0 THEN Append(f[k - 1], text) ELSE f[k - 1]]

LEMMA PrintedRingExists ==
  ASSUME NEW n \in Nat
  PROVE  \E f : PrintedRing(f, n)
<1>. DEFINE T == {j \in 0 .. n : ~\E f : PrintedRing(f, j)}
<1>1. T = {}
  <2>. SUFFICES ASSUME T # {} PROVE FALSE
    OBVIOUS
  <2>1. PICK j \in T : \A i \in T : ~(i < j)
    <3>1. T \subseteq Nat
      OBVIOUS
    <3>. HIDE DEF T
    <3>. QED
      BY <3>1, LeastNumber
  <2>2. j \in 0 .. n /\ ~\E f : PrintedRing(f, j)
    BY <2>1
  <2>3. CASE j = 0
    <3>. DEFINE g == [k \in 0 .. 0 |-> <<>>]
    <3>1. PrintedRing(g, 0)
      BY DEF PrintedRing
    <3>. QED
      BY <2>2, <2>3, <3>1
  <2>4. CASE j # 0
    <3>1. j - 1 \in 0 .. n /\ j - 1 < j
      BY <2>2, <2>4
    <3>2. j - 1 \notin T
      BY <2>1, <3>1
    <3>3. PICK f : PrintedRing(f, j - 1)
      BY <3>1, <3>2
    <3>. DEFINE Loop(h, k) ==
           IF k = 0 THEN <<>>
           ELSE LET text == iring[PlaceOf(iring_head, k)]
                IN IF text > 0 THEN Append(h[k - 1], text) ELSE h[k - 1]
    <3>. DEFINE g == [k \in 0 .. j |-> IF k = j THEN Loop(f, j) ELSE f[k]]
    <3>4. f = [k \in 0 .. j - 1 |-> Loop(f, k)]
      BY <3>3 DEF PrintedRing
    <3>5. \A k \in 0 .. j - 1 : f[k] = Loop(f, k)
      <4>. HIDE DEF Loop
      <4>. QED
        BY <3>4
    <3>6. \A k \in 0 .. j : g[k] = Loop(g, k)
      BY <2>2, <2>4, <3>5
    <3>7. g = [k \in 0 .. j |-> Loop(g, k)]
      <4>. HIDE DEF Loop
      <4>. QED
        BY <3>6
    <3>8. PrintedRing(g, j)
      BY <3>7 DEF PrintedRing
    <3>. QED
      BY <2>2, <3>8
  <2>. QED
    BY <2>3, <2>4
<1>. QED
  BY <1>1

\* What the loop has printed behind the k oldest places.
LastTexts(k) == [i \in 1 .. Texts(k) |-> executed + k - IRING_SIZE - Texts(k) + i]

LEMMA LastTextsType ==
  ASSUME RingInv, NEW k \in 0 .. IRING_SIZE
  PROVE  LastTexts(k) \in Seq(Int) /\ Len(LastTexts(k)) = Texts(k) /\ Texts(k) \in Nat
<1>1. executed \in Nat /\ IRING_SIZE \in Nat \ {0} /\ k \in Nat
  BY TraceAssumption DEF RingInv
<1>2. Texts(k) \in Nat
  BY <1>1 DEF Texts
<1>. DEFINE At(i) == executed + k - IRING_SIZE - Texts(k) + i
<1>3. \A i \in 1 .. Texts(k) : At(i) \in Int
  BY <1>1, <1>2
<1>4. LastTexts(k) = [i \in 1 .. Texts(k) |-> At(i)]
  BY DEF LastTexts
<1>. HIDE DEF At
<1>. QED
  BY <1>2, <1>3, <1>4

LEMMA LastTextsAppend ==
  ASSUME RingInv, NEW k \in 1 .. IRING_SIZE
  PROVE  LET text == iring[PlaceOf(iring_head, k)]
         IN LastTexts(k) = IF text > 0 THEN Append(LastTexts(k - 1), text) ELSE LastTexts(k - 1)
<1>. DEFINE text == iring[PlaceOf(iring_head, k)]
<1>1. /\ executed \in Nat /\ IRING_SIZE \in Nat \ {0} /\ k \in Nat /\ k - 1 \in Nat
      /\ text = IF executed + k > IRING_SIZE THEN executed + k - IRING_SIZE ELSE 0
  BY TraceAssumption DEF RingInv
<1>2. /\ Texts(k) \in Nat /\ Texts(k - 1) \in Nat
      /\ Texts(k) = IF text > 0 THEN Texts(k - 1) + 1 ELSE Texts(k - 1)
  BY <1>1 DEF Texts
<1>3. /\ LastTexts(k) \in Seq(Int) /\ Len(LastTexts(k)) = Texts(k)
      /\ LastTexts(k - 1) \in Seq(Int) /\ Len(LastTexts(k - 1)) = Texts(k - 1)
  BY <1>1, LastTextsType
<1>. HIDE DEF text
<1>4. CASE text > 0
  <2>1. text \in Int
    BY <1>1
  <2>2. /\ Append(LastTexts(k - 1), text) \in Seq(Int)
        /\ Len(Append(LastTexts(k - 1), text)) = Texts(k)
        /\ \A i \in 1 .. Texts(k - 1) : Append(LastTexts(k - 1), text)[i] = LastTexts(k - 1)[i]
        /\ Append(LastTexts(k - 1), text)[Texts(k)] = text
    BY <1>2, <1>3, <1>4, <2>1, AppendProperties
  <2>3. ASSUME NEW i \in 1 .. Texts(k)
        PROVE  LastTexts(k)[i] = Append(LastTexts(k - 1), text)[i]
    <3>1. /\ LastTexts(k)[i] = executed + k - IRING_SIZE - Texts(k) + i
          /\ i \in 1 .. Texts(k - 1) =>
               LastTexts(k - 1)[i] = executed + (k - 1) - IRING_SIZE - Texts(k - 1) + i
      BY DEF LastTexts
    <3>2. executed + k > IRING_SIZE /\ text = executed + k - IRING_SIZE
      BY <1>1, <1>4
    <3>3. CASE i = Texts(k)
      <4>1. LastTexts(k)[i] = text
        BY <1>1, <1>2, <3>1, <3>2, <3>3
      <4>. QED
        BY <2>2, <3>3, <4>1
    <3>4. CASE i # Texts(k)
      <4>1. i \in 1 .. Texts(k - 1)
        BY <1>2, <1>4, <3>4
      <4>. QED
        BY <1>1, <1>2, <1>4, <2>2, <3>1, <4>1
    <3>. QED
      BY <3>3, <3>4
  <2>4. LastTexts(k) = Append(LastTexts(k - 1), text)
    BY <1>3, <2>2, <2>3, SeqEqual
  <2>. QED
    BY <1>4, <2>4 DEF text
<1>5. CASE ~(text > 0)
  <2>1. executed + k <= IRING_SIZE
    BY <1>1, <1>5
  <2>2. Texts(k) = 0 /\ Texts(k - 1) = 0
    BY <1>1, <2>1 DEF Texts
  <2>3. LastTexts(k) = LastTexts(k - 1)
    BY <2>2 DEF LastTexts
  <2>. QED
    BY <1>5, <2>3 DEF text
<1>. QED
  BY <1>4, <1>5

LEMMA RingPrinted ==
  ASSUME RingInv, NEW f, PrintedRing(f, IRING_SIZE), NEW n \in 0 .. IRING_SIZE
  PROVE  f[n] = LastTexts(n)
<1>. DEFINE T == {k \in 0 .. IRING_SIZE : f[k] # LastTexts(k)}
<1>1. /\ f[0] = <<>>
      /\ \A k \in 1 .. IRING_SIZE :
           f[k] = LET text == iring[PlaceOf(iring_head, k)]
                  IN IF text > 0 THEN Append(f[k - 1], text) ELSE f[k - 1]
  <2>. DEFINE Loop(k) ==
         IF k = 0 THEN <<>>
         ELSE LET text == iring[PlaceOf(iring_head, k)]
              IN IF text > 0 THEN Append(f[k - 1], text) ELSE f[k - 1]
  <2>1. f = [k \in 0 .. IRING_SIZE |-> Loop(k)]
    BY DEF PrintedRing
  <2>2. \A k \in 0 .. IRING_SIZE : f[k] = Loop(k)
    <3>. HIDE DEF Loop
    <3>. QED
      BY <2>1
  <2>3. \A k \in 1 .. IRING_SIZE : k \in 0 .. IRING_SIZE /\ k # 0
    OBVIOUS
  <2>. QED
    BY <2>2, <2>3, TraceAssumption
<1>2. LastTexts(0) = <<>>
  <2>1. Texts(0) = 0
    BY TraceAssumption DEF Texts, RingInv
  <2>2. LastTexts(0) \in Seq(Int) /\ Len(LastTexts(0)) = 0
    BY <2>1, LastTextsType, TraceAssumption
  <2>. QED
    BY <2>2
<1>3. T = {}
  <2>. SUFFICES ASSUME T # {} PROVE FALSE
    OBVIOUS
  <2>1. PICK k \in T : \A i \in T : ~(i < k)
    <3>1. T \subseteq Nat
      OBVIOUS
    <3>. HIDE DEF T
    <3>. QED
      BY <3>1, LeastNumber
  <2>2. k \in 0 .. IRING_SIZE /\ f[k] # LastTexts(k)
    BY <2>1
  <2>3. k # 0
    BY <1>1, <1>2, <2>2
  <2>4. k \in 1 .. IRING_SIZE /\ k - 1 \in 0 .. IRING_SIZE /\ k - 1 < k
    BY <2>2, <2>3, TraceAssumption
  <2>5. f[k - 1] = LastTexts(k - 1)
    BY <2>1, <2>4
  <2>. HIDE DEF T
  <2>6. f[k] = LastTexts(k)
    BY <1>1, <2>4, <2>5, LastTextsAppend
  <2>. QED
    BY <2>2, <2>6
<1>. QED
  BY <1>3

LEMMA MinOfTwo ==
  ASSUME NEW a \in Int, NEW b \in Int
  PROVE  Min({a, b}) = IF a <= b THEN a ELSE b
  BY DEF Min

\* A failure shows the last instructions that were executed, all that the ring
\* has room for, in their order (add2iring, iring_print).
THEOREM RingIsPrinted == TraceSpec => []PrintsLastInstructions
<1>1. ASSUME RingInv PROVE PrintsLastInstructions
  <2>. DEFINE f == CHOOSE g : PrintedRing(g, IRING_SIZE)
  <2>1. executed \in Nat /\ IRING_SIZE \in Nat \ {0}
    BY <1>1, TraceAssumption DEF RingInv
  <2>2. iring_print = f[IRING_SIZE]
    BY DEF iring_print, PrintedRing, PlaceOf
  <2>3. PrintedRing(f, IRING_SIZE)
    BY <2>1, PrintedRingExists
  <2>. HIDE DEF f
  <2>4. iring_print = LastTexts(IRING_SIZE)
    BY <1>1, <2>1, <2>2, <2>3, RingPrinted
  <2>5. Texts(IRING_SIZE) = Min({executed, IRING_SIZE})
    BY <2>1, MinOfTwo DEF Texts
  <2>6. Min({executed, IRING_SIZE}) \in Nat
    BY <2>1, MinOfTwo
  <2>7. \A i \in 1 .. Min({executed, IRING_SIZE}) :
          executed + IRING_SIZE - IRING_SIZE - Min({executed, IRING_SIZE}) + i =
            executed - Min({executed, IRING_SIZE}) + i
    BY <2>1, <2>6
  <2>. QED
    BY <2>4, <2>5, <2>7 DEF LastTexts, PrintsLastInstructions
<1>. QED
  BY <1>1, RingInvariant, PTL
-----------------------------------------------------------------------------
(***************************************************************************)
(* The list of calls and returns.  What ftrace_print has behind a list,    *)
(* as an operator of the list.                                             *)
(***************************************************************************)
Node ==
  [type : {"T_RET"}, name : Listed] \cup [type : {"T_CALL"}, name : Listed, ret : BOOLEAN]

Start == [deep |-> 0, nret |-> 0, indents |-> <<>>]

PrintedNodes(s, f, n) ==
  f = [i \in 0 .. n |-> IF i = 0 THEN Start ELSE Line(f[i - 1], s[i])]

After(s) == (CHOOSE f : PrintedNodes(s, f, Len(s)))[Len(s)]

LEMMA PrintedIsAfter == Printed = After(fnodes)
  BY DEF Printed, After, PrintedNodes, Start

LEMMA PrintedNodesExists ==
  ASSUME NEW s, NEW n \in Nat
  PROVE  \E f : PrintedNodes(s, f, n)
<1>. DEFINE T == {j \in 0 .. n : ~\E f : PrintedNodes(s, f, j)}
<1>1. T = {}
  <2>. SUFFICES ASSUME T # {} PROVE FALSE
    OBVIOUS
  <2>1. PICK j \in T : \A i \in T : ~(i < j)
    <3>1. T \subseteq Nat
      OBVIOUS
    <3>. HIDE DEF T
    <3>. QED
      BY <3>1, LeastNumber
  <2>2. j \in 0 .. n /\ ~\E f : PrintedNodes(s, f, j)
    BY <2>1
  <2>3. CASE j = 0
    <3>. DEFINE g == [i \in 0 .. 0 |-> Start]
    <3>1. PrintedNodes(s, g, 0)
      BY DEF PrintedNodes
    <3>. QED
      BY <2>2, <2>3, <3>1
  <2>4. CASE j # 0
    <3>1. j - 1 \in 0 .. n /\ j - 1 < j
      BY <2>2, <2>4
    <3>2. j - 1 \notin T
      BY <2>1, <3>1
    <3>3. PICK f : PrintedNodes(s, f, j - 1)
      BY <3>1, <3>2
    <3>. DEFINE Loop(h, i) == IF i = 0 THEN Start ELSE Line(h[i - 1], s[i])
    <3>. DEFINE g == [i \in 0 .. j |-> IF i = j THEN Loop(f, j) ELSE f[i]]
    <3>4. f = [i \in 0 .. j - 1 |-> Loop(f, i)]
      BY <3>3 DEF PrintedNodes
    <3>5. \A i \in 0 .. j - 1 : f[i] = Loop(f, i)
      <4>. HIDE DEF Loop
      <4>. QED
        BY <3>4
    <3>6. \A i \in 0 .. j : g[i] = Loop(g, i)
      BY <2>2, <2>4, <3>5
    <3>7. g = [i \in 0 .. j |-> Loop(g, i)]
      <4>. HIDE DEF Loop
      <4>. QED
        BY <3>6
    <3>8. PrintedNodes(s, g, j)
      BY <3>7 DEF PrintedNodes
    <3>. QED
      BY <2>2, <3>8
  <2>. QED
    BY <2>3, <2>4
<1>. QED
  BY <1>1

LEMMA PrintedNodesAt ==
  ASSUME NEW s, NEW n \in Nat, NEW f, PrintedNodes(s, f, n)
  PROVE  /\ f[0] = Start
         /\ \A i \in 1 .. n : f[i] = Line(f[i - 1], s[i])
<1>. DEFINE Loop(i) == IF i = 0 THEN Start ELSE Line(f[i - 1], s[i])
<1>1. f = [i \in 0 .. n |-> Loop(i)]
  BY DEF PrintedNodes
<1>2. \A i \in 0 .. n : f[i] = Loop(i)
  <2>. HIDE DEF Loop
  <2>. QED
    BY <1>1
<1>3. \A i \in 1 .. n : i \in 0 .. n /\ i # 0
  OBVIOUS
<1>. QED
  BY <1>2, <1>3

\* A node at the end of the list is one more line.
LEMMA AfterAppend ==
  ASSUME NEW s \in Seq(Node), NEW node \in Node
  PROVE  After(Append(s, node)) = Line(After(s), node)
<1>. DEFINE t == Append(s, node)
            n == Len(s)
            f == CHOOSE h : PrintedNodes(s, h, Len(s))
            g == CHOOSE h : PrintedNodes(t, h, Len(t))
<1>1. /\ n \in Nat /\ Len(t) = n + 1
      /\ \A i \in 1 .. n : t[i] = s[i]
      /\ t[n + 1] = node
  BY AppendProperties, LenProperties
<1>. HIDE DEF t
<1>2. PrintedNodes(s, f, n) /\ PrintedNodes(t, g, n + 1)
  <2>1. \E h : PrintedNodes(s, h, Len(s))
    BY <1>1, PrintedNodesExists
  <2>2. \E h : PrintedNodes(t, h, Len(t))
    <3>1. Len(t) \in Nat
      BY <1>1
    <3>. QED
      BY <3>1, PrintedNodesExists
  <2>3. PrintedNodes(s, f, Len(s))
    BY <2>1, Zenon
  <2>4. PrintedNodes(t, g, Len(t))
    BY <2>2, Zenon
  <2>. QED
    BY <1>1, <2>3, <2>4
<1>3. After(s) = f[n] /\ After(t) = g[n + 1]
  <2>1. After(s) = f[Len(s)] /\ After(t) = g[Len(t)]
    BY DEF After
  <2>. QED
    BY <1>1, <2>1
<1>. HIDE DEF n, f, g
<1>4. /\ f[0] = Start /\ g[0] = Start
      /\ \A i \in 1 .. n : f[i] = Line(f[i - 1], s[i])
      /\ \A i \in 1 .. n + 1 : g[i] = Line(g[i - 1], t[i])
  BY <1>1, <1>2, PrintedNodesAt
<1>. DEFINE T == {i \in 0 .. n : g[i] # f[i]}
<1>5. T = {}
  <2>. SUFFICES ASSUME T # {} PROVE FALSE
    OBVIOUS
  <2>1. PICK i \in T : \A k \in T : ~(k < i)
    <3>1. T \subseteq Nat
      OBVIOUS
    <3>. HIDE DEF T
    <3>. QED
      BY <3>1, LeastNumber
  <2>2. i \in 1 .. n /\ i \in 1 .. n + 1 /\ i - 1 \in 0 .. n /\ i - 1 < i
    BY <1>1, <1>4, <2>1
  <2>3. g[i - 1] = f[i - 1]
    BY <2>1, <2>2
  <2>4. g[i] # f[i]
    BY <2>1
  <2>. HIDE DEF T
  <2>. QED
    BY <1>1, <1>4, <2>2, <2>3, <2>4
<1>6. g[n] = f[n]
  BY <1>1, <1>5
<1>7. g[n + 1] = Line(g[n], node)
  <2>1. n + 1 \in 1 .. n + 1 /\ (n + 1) - 1 = n
    BY <1>1
  <2>. QED
    BY <1>1, <1>4, <2>1
<1>. QED
  BY <1>3, <1>6, <1>7 DEF t

LEMMA AfterNone == After(<<>>) = Start
<1>. DEFINE f == CHOOSE h : PrintedNodes(<<>>, h, 0)
<1>1. PrintedNodes(<<>>, f, 0)
  BY PrintedNodesExists
<1>2. After(<<>>) = f[0]
  BY DEF After
<1>. HIDE DEF f
<1>. QED
  BY <1>1, <1>2, PrintedNodesAt
-----------------------------------------------------------------------------
\* The jumps traced as calls since the last return before the i-th node.
IsJump(s, i, j) ==
  /\ s[j].type = "T_CALL" /\ ~s[j].ret
  /\ \A k \in j .. i - 1 : s[k].type = "T_CALL"

JumpSet(s, i) == {j \in 1 .. i - 1 : IsJump(s, i, j)}

Jumps(s, i) == Cardinality(JumpSet(s, i))

LEMMA JumpsOfList ==
  ASSUME NEW i
  PROVE  JumpsSinceReturn(i) = Jumps(fnodes, i)
  BY DEF JumpsSinceReturn, Jumps, JumpSet, IsJump

LEMMA JumpsFinite ==
  ASSUME NEW s, NEW i \in Nat
  PROVE  IsFiniteSet(JumpSet(s, i)) /\ Jumps(s, i) \in Nat
<1>1. IsFiniteSet(1 .. i - 1) /\ JumpSet(s, i) \subseteq 1 .. i - 1
  BY FS_Interval DEF JumpSet
<1>2. IsFiniteSet(JumpSet(s, i))
  BY <1>1, FS_Subset
<1>. QED
  BY <1>2, FS_CardinalityType DEF Jumps

\* A node at the end of the list leaves the jumps before the others; a return
\* clears them, and a call that needs no return is one more.
LEMMA JumpsAppend ==
  ASSUME NEW s \in Seq(Node), NEW node \in Node
  PROVE  /\ \A i \in 1 .. Len(s) + 1 : Jumps(Append(s, node), i) = Jumps(s, i)
         /\ Jumps(Append(s, node), Len(s) + 2) =
              IF node.type = "T_RET" THEN 0
              ELSE IF node.ret THEN Jumps(s, Len(s) + 1) ELSE Jumps(s, Len(s) + 1) + 1
<1>. DEFINE t == Append(s, node)
            n == Len(s)
<1>1. /\ n \in Nat
      /\ \A i \in 1 .. n : t[i] = s[i]
      /\ t[n + 1] = node
  BY AppendProperties, LenProperties
<1>. HIDE DEF t, n
<1>2. ASSUME NEW i \in 1 .. n + 1 PROVE JumpSet(t, i) = JumpSet(s, i)
  <2>1. \A j \in 1 .. i - 1 : \A k \in j .. i - 1 : k \in 1 .. n
    BY <1>1
  <2>2. \A j \in 1 .. i - 1 : j \in 1 .. n
    BY <1>1
  <2>. QED
    BY <1>1, <2>1, <2>2 DEF JumpSet, IsJump
<1>3. CASE node.type = "T_RET"
  <2>1. \A j \in 1 .. (n + 2) - 1 : n + 1 \in j .. (n + 2) - 1
    BY <1>1
  <2>2. t[n + 1].type # "T_CALL"
    BY <1>1, <1>3
  <2>3. JumpSet(t, n + 2) = {}
    <3>1. ASSUME NEW j \in 1 .. (n + 2) - 1
          PROVE  ~\A k \in j .. (n + 2) - 1 : t[k].type = "T_CALL"
      <4>1. n + 1 \in j .. (n + 2) - 1
        BY <2>1
      <4>. QED
        BY <2>2, <4>1, Zenon
    <3>2. \A j \in 1 .. (n + 2) - 1 : ~IsJump(t, n + 2, j)
      BY <3>1, Zenon DEF IsJump
    <3>. QED
      BY <3>2 DEF JumpSet
  <2>4. Jumps(t, n + 2) = 0
    BY <2>3, FS_EmptySet DEF Jumps
  <2>. QED
    BY <1>2, <1>3, <2>4 DEF t, n, Jumps
<1>4. CASE node.type # "T_RET"
  <2>1. node.type = "T_CALL" /\ node.ret \in BOOLEAN
    BY <1>4 DEF Node
  <2>. DEFINE one == IF node.ret THEN {} ELSE {n + 1}
  <2>2. JumpSet(t, n + 2) = JumpSet(s, n + 1) \cup one
    <3>1. ASSUME NEW j \in 1 .. n
          PROVE  (\A k \in j .. (n + 2) - 1 : t[k].type = "T_CALL")
                   <=> (\A k \in j .. (n + 1) - 1 : s[k].type = "T_CALL")
      <4>1. \A k : k \in j .. (n + 2) - 1 <=> k \in j .. (n + 1) - 1 \/ k = n + 1
        BY <1>1
      <4>2. \A k \in j .. (n + 1) - 1 : k \in 1 .. n
        BY <1>1
      <4>. QED
        BY <1>1, <2>1, <4>1, <4>2
    <3>2. \A k \in n + 1 .. (n + 2) - 1 : k = n + 1
      BY <1>1
    <3>3. \A j : j \in 1 .. (n + 2) - 1 <=> j \in 1 .. n \/ j = n + 1
      BY <1>1
    <3>4. \A j : j \in 1 .. (n + 1) - 1 <=> j \in 1 .. n
      BY <1>1
    <3>5. ASSUME NEW j PROVE j \in JumpSet(t, n + 2) <=> j \in JumpSet(s, n + 1) \cup one
      <4>1. CASE j \in 1 .. n
        <5>1. j # n + 1
          BY <1>1, <4>1
        <5>2. j \in JumpSet(t, n + 2) <=> j \in JumpSet(s, n + 1)
          BY <1>1, <3>1, <3>3, <3>4, <4>1 DEF JumpSet, IsJump
        <5>. QED
          BY <5>1, <5>2
      <4>2. CASE j = n + 1
        <5>1. j \notin 1 .. (n + 1) - 1
          BY <1>1, <4>2
        <5>2. j \in 1 .. (n + 2) - 1 /\ t[j] = node
          BY <1>1, <3>3, <4>2
        <5>3. \A k \in j .. (n + 2) - 1 : t[k].type = "T_CALL"
          BY <1>1, <2>1, <3>2, <4>2
        <5>4. IsJump(t, n + 2, j) <=> ~node.ret
          BY <2>1, <5>2, <5>3, Zenon DEF IsJump
        <5>5. j \in JumpSet(t, n + 2) <=> ~node.ret
          BY <5>2, <5>4 DEF JumpSet
        <5>. QED
          BY <4>2, <5>1, <5>5 DEF JumpSet
      <4>3. CASE j \notin 1 .. n /\ j # n + 1
        <5>1. j \notin JumpSet(t, n + 2) /\ j \notin JumpSet(s, n + 1)
          BY <3>3, <3>4, <4>3 DEF JumpSet
        <5>2. j \notin one
          BY <4>3
        <5>. QED
          BY <5>1, <5>2
      <4>. QED
        BY <4>1, <4>2, <4>3
    <3>. HIDE DEF one
    <3>. QED
      BY <3>5
  <2>3. IsFiniteSet(JumpSet(s, n + 1)) /\ Jumps(s, n + 1) \in Nat
    BY <1>1, JumpsFinite
  <2>4. n + 1 \notin JumpSet(s, n + 1)
    BY <1>1 DEF JumpSet
  <2>5. CASE node.ret
    <3>1. JumpSet(t, n + 2) = JumpSet(s, n + 1)
      BY <2>2, <2>5
    <3>. QED
      BY <1>2, <1>4, <2>5, <3>1 DEF t, n, Jumps
  <2>6. CASE ~node.ret
    <3>1. JumpSet(t, n + 2) = JumpSet(s, n + 1) \cup {n + 1}
      BY <2>2, <2>6
    <3>2. Cardinality(JumpSet(s, n + 1) \cup {n + 1}) = Cardinality(JumpSet(s, n + 1)) + 1
      BY <2>3, <2>4, FS_AddElement
    <3>3. Jumps(t, n + 2) = Jumps(s, n + 1) + 1
      BY <3>1, <3>2 DEF Jumps
    <3>. QED
      BY <1>2, <1>4, <2>6, <3>3 DEF t, n, Jumps
  <2>. QED
    BY <2>5, <2>6
<1>. QED
  BY <1>3, <1>4
-----------------------------------------------------------------------------
\* The lines of a list, and the depths that go with them.
Fits(s, d) ==
  LET p == After(s)
  IN /\ p \in [deep : Int, nret : Nat, indents : Seq(Int)]
     /\ p.nret = Jumps(s, Len(s) + 1)
     /\ Len(p.indents) = Len(s)
     /\ \A i \in 1 .. Len(s) :
          p.indents[i] = d[i] + IF s[i].type = "T_RET" THEN 0 ELSE Jumps(s, i)

LEMMA FitsAppend ==
  ASSUME NEW s \in Seq(Node), NEW d \in Seq(Nat), Len(d) = Len(s), Fits(s, d),
         NEW node \in Node, NEW active \in Nat,
         active = After(s).deep - IF node.type = "T_RET" THEN 1 + After(s).nret ELSE After(s).nret
  PROVE  /\ Fits(Append(s, node), Append(d, active))
         /\ After(Append(s, node)).deep =
              IF node.type = "T_RET" THEN active ELSE After(s).deep + 1
         /\ After(Append(s, node)).nret =
              IF node.type = "T_RET" THEN 0
              ELSE IF node.ret THEN After(s).nret ELSE After(s).nret + 1
<1>. DEFINE p == After(s)
            q == After(Append(s, node))
            t == Append(s, node)
            e == Append(d, active)
            n == Len(s)
            indent == IF node.type = "T_RET" THEN p.deep - 1 - p.nret ELSE p.deep
<1>1. /\ p \in [deep : Int, nret : Nat, indents : Seq(Int)]
      /\ p.nret = Jumps(s, n + 1)
      /\ Len(p.indents) = n
      /\ \A i \in 1 .. n :
           p.indents[i] = d[i] + IF s[i].type = "T_RET" THEN 0 ELSE Jumps(s, i)
  BY DEF Fits
<1>2. /\ n \in Nat /\ Len(t) = n + 1 /\ t[n + 1] = node
      /\ \A i \in 1 .. n : t[i] = s[i]
  BY AppendProperties, LenProperties
<1>3. /\ e[n + 1] = active
      /\ \A i \in 1 .. n : e[i] = d[i]
  BY AppendProperties, LenProperties
<1>4. /\ \A i \in 1 .. n + 1 : Jumps(t, i) = Jumps(s, i)
      /\ Jumps(t, n + 2) =
           IF node.type = "T_RET" THEN 0
           ELSE IF node.ret THEN Jumps(s, n + 1) ELSE Jumps(s, n + 1) + 1
  BY JumpsAppend
<1>5. q = Line(p, node)
  BY AfterAppend
<1>6. active = p.deep - IF node.type = "T_RET" THEN 1 + p.nret ELSE p.nret
  OBVIOUS
<1>. HIDE DEF p, q, t, e, n
<1>7. p.deep \in Int /\ p.nret \in Nat /\ p.indents \in Seq(Int) /\ indent \in Int
  BY <1>1
<1>8. /\ q.indents = Append(p.indents, indent)
      /\ q.deep = IF node.type = "T_RET" THEN p.deep - 1 - p.nret ELSE p.deep + 1
      /\ q.nret = IF node.type = "T_RET" THEN 0
                  ELSE IF node.ret THEN p.nret ELSE p.nret + 1
      /\ q \in [deep : Int, nret : Nat, indents : Seq(Int)]
  <2>1. CASE node.type = "T_RET"
    <3>1. q = [deep |-> p.deep - 1 - p.nret, nret |-> 0, indents |-> Append(p.indents, indent)]
      BY <1>5, <2>1 DEF Line
    <3>2. Append(p.indents, indent) \in Seq(Int) /\ p.deep - 1 - p.nret \in Int
      BY <1>7, AppendProperties
    <3>. HIDE DEF indent
    <3>. QED
      BY <2>1, <3>1, <3>2
  <2>2. CASE node.type # "T_RET"
    <3>1. q = [deep |-> p.deep + 1, nret |-> p.nret + IF node.ret THEN 0 ELSE 1,
               indents |-> Append(p.indents, indent)]
      BY <1>5, <2>2 DEF Line
    <3>2. Append(p.indents, indent) \in Seq(Int) /\ p.deep + 1 \in Int
      BY <1>7, AppendProperties
    <3>3. p.nret + (IF node.ret THEN 0 ELSE 1) = IF node.ret THEN p.nret ELSE p.nret + 1
      BY <1>7
    <3>4. p.nret + (IF node.ret THEN 0 ELSE 1) \in Nat
      BY <1>7
    <3>. HIDE DEF indent
    <3>. QED
      BY <2>2, <3>1, <3>2, <3>3, <3>4
  <2>. QED
    BY <2>1, <2>2
<1>9. /\ Len(q.indents) = n + 1
      /\ \A i \in 1 .. n : q.indents[i] = p.indents[i]
      /\ q.indents[n + 1] = indent
  <2>. HIDE DEF indent
  <2>. QED
    BY <1>1, <1>7, <1>8, AppendProperties
<1>10. indent = active + IF node.type = "T_RET" THEN 0 ELSE Jumps(s, n + 1)
  BY <1>1, <1>6, <1>7
<1>11. ASSUME NEW i \in 1 .. n + 1
       PROVE  q.indents[i] = e[i] + IF t[i].type = "T_RET" THEN 0 ELSE Jumps(t, i)
  <2>1. CASE i = n + 1
    BY <1>2, <1>3, <1>4, <1>9, <1>10, <2>1
  <2>2. CASE i # n + 1
    <3>1. i \in 1 .. n
      BY <1>2, <2>2
    <3>. QED
      BY <1>1, <1>2, <1>3, <1>4, <1>9, <3>1
  <2>. QED
    BY <2>1, <2>2
<1>12. q.nret = Jumps(t, n + 2)
  BY <1>1, <1>4, <1>8
<1>13. Fits(t, e)
  <2>1. Len(t) + 1 = n + 2
    BY <1>2
  <2>2. q = After(t)
    BY DEF q, t
  <2>. HIDE DEF indent
  <2>. QED
    BY <1>2, <1>8, <1>9, <1>11, <1>12, <2>1, <2>2 DEF Fits
<1>14. q.deep = IF node.type = "T_RET" THEN active ELSE p.deep + 1
  BY <1>6, <1>7, <1>8
<1>. QED
  BY <1>8, <1>13, <1>14 DEF p, q, t, e

\* The depth of the last line is the calls that are active, the jumps mistaken
\* for calls and the jumps since the last return, while the trace sees every call.
DepthInv ==
  /\ pc \in Address /\ frames \in Seq(Address)
  /\ fnodes \in Seq(Node) /\ depths \in Seq(Nat) /\ Len(depths) = Len(fnodes)
  /\ mistaken \in Nat
  /\ foreseen =>
       /\ Fits(fnodes, depths)
       /\ ~aborted => After(fnodes).deep = Len(frames) + mistaken + After(fnodes).nret

LEMMA ExecutesTyped ==
  ASSUME pc \in Address, frames \in Seq(Address), NEW op, NEW dnpc \in Address,
         op \in {"plain", "jump", "link", "ret"}, Executes(op, dnpc)
  PROVE  /\ frames' \in Seq(Address)
         /\ Len(frames) \in Nat
         /\ Len(frames') = IF op = "link" THEN Len(frames) + 1
                           ELSE IF op = "ret" THEN Len(frames) - 1 ELSE Len(frames)
         /\ Len(frames') \in Nat
<1>1. Len(frames) \in Nat
  BY LenProperties
<1>2. CASE op \in {"plain", "jump"}
  BY <1>1, <1>2 DEF Executes
<1>3. CASE op = "link"
  <2>1. [pc EXCEPT !.at = "body"] \in Address
    BY DEF Address
  <2>2. frames' = Append(frames, [pc EXCEPT !.at = "body"])
    BY <1>3 DEF Executes
  <2>. QED
    BY <1>1, <1>3, <2>1, <2>2, AppendProperties
<1>4. CASE op = "ret"
  <2>1. frames # <<>> /\ frames' = SubSeq(frames, 1, Len(frames) - 1)
    BY <1>4 DEF Executes, Front
  <2>2. Len(frames) \in Nat \ {0}
    BY <2>1, EmptySeq
  <2>. HIDE DEF Address
  <2>3. frames' \in Seq(Address) /\ Len(frames') = Len(frames) - 1
    <3>1. \A i \in 1 .. Len(frames) - 1 : frames[i] \in Address
      BY <2>2, LenProperties
    <3>2. 1 \in Int /\ Len(frames) - 1 \in Int
      BY <2>2
    <3>. DEFINE front == SubSeq(frames, 1, Len(frames) - 1)
    <3>3. /\ front \in Seq(Address)
          /\ Len(front) = IF 1 <= Len(frames) - 1 THEN ((Len(frames) - 1) - 1) + 1 ELSE 0
      BY <3>1, <3>2, SubSeqProperties
    <3>4. frames' = front
      BY <2>1
    <3>. HIDE DEF front
    <3>. QED
      BY <2>2, <3>3, <3>4
  <2>. QED
    BY <1>4, <2>2, <2>3
<1>. QED
  BY <1>2, <1>3, <1>4

LEMMA DepthStep ==
  ASSUME DepthInv, trace
  PROVE  DepthInv'
<1>1. /\ pc \in Address /\ frames \in Seq(Address)
      /\ fnodes \in Seq(Node) /\ depths \in Seq(Nat) /\ Len(depths) = Len(fnodes)
      /\ mistaken \in Nat
  BY DEF DepthInv
<1>2. PICK op \in {"plain", "jump", "link", "ret"}, dnpc \in Address :
        Executes(op, dnpc) /\ pc' = dnpc /\ ftrace_inst(op, dnpc)
  BY DEF trace
<1>3. ~aborted
  BY DEF trace
<1>4. /\ pc' \in Address
      /\ frames' \in Seq(Address) /\ Len(frames) \in Nat
      /\ Len(frames') = IF op = "link" THEN Len(frames) + 1
                        ELSE IF op = "ret" THEN Len(frames) - 1 ELSE Len(frames)
      /\ Len(frames') \in Nat
  BY <1>1, <1>2, ExecutesTyped
<1>5. ASSUME NEW node \in Node, NEW active \in Nat, AddNode(node, active)
      PROVE  /\ fnodes' \in Seq(Node) /\ depths' \in Seq(Nat) /\ Len(depths') = Len(fnodes')
             /\ fnodes' = Append(fnodes, node) /\ depths' = Append(depths, active + mistaken)
  BY <1>1, <1>5, AppendProperties DEF AddNode
<1>6. CASE op = "ret"
  <2>1. aborted' = ~search_func_name(dnpc) /\ foreseen' = foreseen /\ mistaken' = mistaken
    BY <1>2, <1>6 DEF ftrace_inst
  <2>2. CASE aborted'
    <3>1. fnodes' = fnodes /\ depths' = depths
      BY <1>2, <1>6, <2>2 DEF ftrace_inst
    <3>. QED
      BY <1>1, <1>4, <2>1, <2>2, <3>1 DEF DepthInv
  <2>3. CASE ~aborted'
    <3>. DEFINE node == [type |-> "T_RET", name |-> dnpc.fn]
    <3>1. node \in Node /\ node.type = "T_RET"
      BY <2>1, <2>3 DEF Node, search_func_name
    <3>2. AddNode(node, Len(frames'))
      BY <1>2, <1>6, <2>3 DEF ftrace_inst
    <3>. HIDE DEF node
    <3>3. /\ fnodes' \in Seq(Node) /\ depths' \in Seq(Nat) /\ Len(depths') = Len(fnodes')
          /\ fnodes' = Append(fnodes, node) /\ depths' = Append(depths, Len(frames') + mistaken)
      BY <1>4, <1>5, <3>1, <3>2
    <3>4. ASSUME foreseen
          PROVE  /\ Fits(fnodes', depths')
                 /\ After(fnodes').deep = Len(frames') + mistaken + After(fnodes').nret
      <4>1. Fits(fnodes, depths) /\ After(fnodes).deep = Len(frames) + mistaken + After(fnodes).nret
        BY <1>3, <3>4 DEF DepthInv
      <4>2. After(fnodes).nret \in Nat
        BY <4>1 DEF Fits
      <4>3. Len(frames') + mistaken = After(fnodes).deep - (1 + After(fnodes).nret)
        BY <1>1, <1>4, <1>6, <4>1, <4>2
      <4>4. /\ Fits(Append(fnodes, node), Append(depths, Len(frames') + mistaken))
            /\ After(Append(fnodes, node)).deep = Len(frames') + mistaken
            /\ After(Append(fnodes, node)).nret = 0
        BY <1>1, <1>4, <3>1, <4>1, <4>3, FitsAppend
      <4>. QED
        BY <1>1, <1>4, <3>3, <4>4
    <3>. QED
      BY <1>4, <2>1, <3>3, <3>4 DEF DepthInv
  <2>. QED
    BY <2>2, <2>3
<1>7. CASE op \in {"jump", "link"} /\ is_func_entry(dnpc)
  <2>1. PICK ret \in IF op = "link" THEN {TRUE} ELSE BOOLEAN :
          /\ AddNode([type |-> "T_CALL", name |-> dnpc.fn, ret |-> ret], Len(frames))
          /\ mistaken' = mistaken + IF ret /\ op # "link" THEN 1 ELSE 0
    BY <1>2, <1>7 DEF ftrace_inst
  <2>2. aborted' = aborted /\ foreseen' = foreseen
    BY <1>2, <1>7 DEF ftrace_inst
  <2>. DEFINE node == [type |-> "T_CALL", name |-> dnpc.fn, ret |-> ret]
  <2>3. node \in Node /\ node.type # "T_RET" /\ node.ret = ret /\ ret \in BOOLEAN
    BY <1>7 DEF Node, is_func_entry
  <2>4. AddNode(node, Len(frames))
    BY <2>1
  <2>. HIDE DEF node
  <2>5. /\ fnodes' \in Seq(Node) /\ depths' \in Seq(Nat) /\ Len(depths') = Len(fnodes')
        /\ fnodes' = Append(fnodes, node) /\ depths' = Append(depths, Len(frames) + mistaken)
    BY <1>4, <1>5, <2>3, <2>4
  <2>6. mistaken' \in Nat
    BY <1>1, <2>1
  <2>7. ASSUME foreseen'
        PROVE  /\ Fits(fnodes', depths')
               /\ After(fnodes').deep = Len(frames') + mistaken' + After(fnodes').nret
    <3>1. foreseen
      BY <2>2, <2>7
    <3>2. Fits(fnodes, depths) /\ After(fnodes).deep = Len(frames) + mistaken + After(fnodes).nret
      BY <1>3, <3>1 DEF DepthInv
    <3>3. After(fnodes).nret \in Nat
      BY <3>2 DEF Fits
    <3>4. Len(frames) + mistaken = After(fnodes).deep - After(fnodes).nret
      BY <1>1, <1>4, <3>2, <3>3
    <3>5. /\ Fits(Append(fnodes, node), Append(depths, Len(frames) + mistaken))
          /\ After(Append(fnodes, node)).deep = After(fnodes).deep + 1
          /\ After(Append(fnodes, node)).nret =
               IF node.ret THEN After(fnodes).nret ELSE After(fnodes).nret + 1
      BY <1>1, <1>4, <2>3, <3>2, <3>4, FitsAppend
    <3>6. Len(frames') + mistaken' =
            IF node.ret THEN Len(frames) + mistaken + 1 ELSE Len(frames) + mistaken
      <4>1. CASE op = "link"
        <5>1. ret /\ mistaken' = mistaken
          BY <1>1, <2>1, <4>1
        <5>. QED
          BY <1>1, <1>4, <2>3, <4>1, <5>1
      <4>2. CASE op # "link"
        <5>1. Len(frames') = Len(frames) /\ Len(frames) \in Nat /\ mistaken \in Nat
          BY <1>1, <1>4, <1>7, <4>2
        <5>2. CASE node.ret
          <6>1. mistaken' = mistaken + 1
            BY <1>1, <2>1, <2>3, <4>2, <5>2
          <6>2. Len(frames') + mistaken' = Len(frames) + mistaken + 1
            BY <5>1, <6>1
          <6>. QED
            BY <5>2, <6>2
        <5>3. CASE ~node.ret
          <6>1. mistaken' = mistaken
            BY <1>1, <2>1, <2>3, <4>2, <5>3
          <6>2. Len(frames') + mistaken' = Len(frames) + mistaken
            BY <5>1, <6>1
          <6>. QED
            BY <5>3, <6>2
        <5>. QED
          BY <5>2, <5>3
      <4>. QED
        BY <4>1, <4>2
    <3>7. After(fnodes).deep + 1 =
            Len(frames') + mistaken' + IF node.ret THEN After(fnodes).nret ELSE After(fnodes).nret + 1
      BY <1>1, <1>4, <2>6, <3>2, <3>3, <3>6
    <3>. QED
      BY <2>5, <3>5, <3>7
  <2>. QED
    BY <1>4, <2>5, <2>7, <2>6 DEF DepthInv
<1>8. CASE op = "plain" \/ (op \in {"jump", "link"} /\ ~is_func_entry(dnpc))
  <2>1. /\ foreseen' = (foreseen /\ op # "link")
        /\ fnodes' = fnodes /\ depths' = depths /\ aborted' = aborted /\ mistaken' = mistaken
    BY <1>2, <1>8 DEF ftrace_inst
  <2>2. foreseen' => foreseen /\ Len(frames') = Len(frames)
    BY <1>4, <1>8, <2>1
  <2>. QED
    BY <1>1, <1>4, <2>1, <2>2 DEF DepthInv
<1>. QED
  BY <1>6, <1>7, <1>8

LEMMA DepthInvariant == TraceSpec => []DepthInv
<1>1. ASSUME TraceInit PROVE DepthInv
  <2>1. /\ pc \in Address /\ frames \in Seq(Address)
        /\ fnodes \in Seq(Node) /\ depths \in Seq(Nat) /\ Len(depths) = Len(fnodes)
        /\ mistaken \in Nat /\ mistaken = 0
    BY <1>1 DEF TraceInit, Entry, Address
  <2>2. fnodes = <<>> /\ depths = <<>> /\ frames = <<>>
    BY <1>1 DEF TraceInit
  <2>3. /\ After(fnodes) = Start
        /\ Start \in [deep : Int, nret : Nat, indents : Seq(Int)]
        /\ Start.deep = 0 /\ Start.nret = 0 /\ Start.indents = <<>>
    BY <2>2, AfterNone DEF Start
  <2>4. Len(fnodes) = 0 /\ Len(frames) = 0 /\ Len(Start.indents) = 0
    BY <2>2, <2>3, EmptySeq
  <2>5. Jumps(fnodes, Len(fnodes) + 1) = 0
    <3>1. JumpSet(fnodes, Len(fnodes) + 1) = {}
      BY <2>4 DEF JumpSet
    <3>. QED
      BY <3>1, FS_EmptySet DEF Jumps
  <2>6. Fits(fnodes, depths)
    <3>1. 1 .. Len(fnodes) = {}
      BY <2>4
    <3>. QED
      BY <2>3, <2>4, <2>5, <3>1 DEF Fits
  <2>. QED
    BY <2>1, <2>3, <2>4, <2>6 DEF DepthInv
<1>2. ASSUME DepthInv, [trace]_traceVars PROVE DepthInv'
  <2>1. CASE trace
    BY <1>2, <2>1, DepthStep
  <2>2. CASE UNCHANGED traceVars
    BY <1>2, <2>2 DEF DepthInv, traceVars
  <2>. QED
    BY <1>2, <2>1, <2>2
<1>. QED
  BY <1>1, <1>2, PTL DEF TraceSpec

\* In a program that calls functions of the symbol table at their entries, and
\* whatever the memory of the nodes holds, each line that a failure prints is
\* indented by the calls that are active and the jumps that were mistaken for
\* calls, and a call by the jumps since the last return too (ftrace_inst,
\* ftrace_print).
THEOREM LinesAreIndented == TraceSpec => []IndentedByDepth
<1>1. ASSUME DepthInv PROVE IndentedByDepth
  <2>. SUFFICES ASSUME foreseen, NEW i \in DOMAIN fnodes
                PROVE  ftrace_print[i] =
                         depths[i] + IF fnodes[i].type = "T_RET" THEN 0 ELSE JumpsSinceReturn(i)
    BY DEF IndentedByDepth
  <2>1. fnodes \in Seq(Node) /\ Fits(fnodes, depths)
    BY <1>1 DEF DepthInv
  <2>2. i \in 1 .. Len(fnodes)
    BY <2>1, LenProperties
  <2>3. ftrace_print = After(fnodes).indents
    BY PrintedIsAfter DEF ftrace_print
  <2>4. JumpsSinceReturn(i) = Jumps(fnodes, i)
    BY JumpsOfList
  <2>. QED
    BY <2>1, <2>2, <2>3, <2>4 DEF Fits
<1>. QED
  BY <1>1, DepthInvariant, PTL
=============================================================================
