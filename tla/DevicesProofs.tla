---------------------------- MODULE DevicesProofs ----------------------------
(***************************************************************************)
(* TLAPS proofs about KeyQueue, ByteLanes and Devices.  The keyboard's     *)
(* ring of key events is a queue, for every length and every set of keys,  *)
(* and a program gets its keys in order, although a read is evaluated      *)
(* several times.  Masked writes, split into runs of bytes, change the     *)
(* bytes under the mask and no others, for every mask and width; and       *)
(* memory and frame buffer behind lanes, masks and regions are an array of *)
(* bytes.                                                                  *)
(***************************************************************************)
EXTENDS Devices, SequenceTheorems, WellFoundedInduction, TLAPS

\* Advance is the next place of the ring.
LEMMA AdvanceValue ==
  ASSUME NEW i \in Place
  PROVE  /\ Advance(i) \in Place
         /\ Advance(i) = IF i + 1 = KEY_QUEUE_LEN THEN 0 ELSE i + 1
  BY KeyAssumption DEF Advance, Place

\* Every variable of the keyboard keeps its type.
THEOREM TypeCorrect == Spec => []TypeOK
<1>1. ASSUME Init PROVE TypeOK
  <2>1. 0 \in Place
    BY KeyAssumption DEF Place
  <2>. QED
    BY <1>1, <2>1 DEF Init, TypeOK
<1>2. TypeOK /\ [Next]_vars => TypeOK'
  <2>1. ASSUME TypeOK, NEW k \in Keys, key_enqueue(k) PROVE TypeOK'
    BY <2>1, AdvanceValue DEF TypeOK, key_enqueue
  <2>2. ASSUME TypeOK, i8042_read PROVE TypeOK'
    BY <2>2, AdvanceValue DEF TypeOK, i8042_read
  <2>3. ASSUME TypeOK, UNCHANGED vars PROVE TypeOK'
    BY <2>3 DEF TypeOK, vars
  <2>. QED
    BY <2>1, <2>2, <2>3 DEF Next
<1>. QED
  BY <1>1, <1>2, PTL DEF Spec

\* How many events wait, and where: those of a queue that has not overflowed.
LEMMA WaitingValue ==
  ASSUME TypeOK
  PROVE  /\ Waiting \in 0 .. Capacity
         /\ \A i \in 1 .. Capacity : Slot(i) \in Place
         /\ Events \in Seq(Keys \cup {KEY_NONE})
         /\ Len(Events) = Waiting
         /\ Events = <<>> <=> Waiting = 0
<1>. USE KeyAssumption DEF TypeOK, Place, Capacity
<1>1. Waiting \in 0 .. Capacity
  BY DEF Waiting
<1>2. \A i \in 1 .. Capacity : Slot(i) \in Place
  BY DEF Slot
<1>3. \A i \in 1 .. Waiting : key_queue[Slot(i)] \in Keys \cup {KEY_NONE}
  BY <1>1, <1>2
<1>4. Events \in Seq(Keys \cup {KEY_NONE}) /\ Len(Events) = Waiting
  BY <1>1, <1>3 DEF Events
<1>. QED
  BY <1>1, <1>2, <1>4 DEF Events

\* A key event is appended, or ends the simulator when there is no room.
LEMMA EnqueueStep ==
  ASSUME TypeOK, TypeOK', NEW k \in Keys, key_enqueue(k)
  PROVE  Fifo!Press(k) \/ Fifo!Overflow
<1>. USE KeyAssumption DEF TypeOK, Place, Capacity
<1>1. key_r' = IF key_r + 1 = KEY_QUEUE_LEN THEN 0 ELSE key_r + 1
  BY AdvanceValue DEF key_enqueue
<1>2. \A i \in 1 .. Capacity : Slot(i)' = Slot(i)
  BY DEF Slot, key_enqueue
<1>3. \A i \in 1 .. Waiting : Slot(i) # key_r
  BY DEF Slot, Waiting, key_enqueue
<1>4. \A i \in 1 .. Waiting : key_queue'[Slot(i)] = key_queue[Slot(i)]
  BY <1>3, WaitingValue DEF key_enqueue
<1>5. CASE key_r' = key_f
  <2>1. Waiting = Capacity /\ Waiting' = Capacity
    <3>1. failed' /\ ~failed
      BY <1>5 DEF key_enqueue
    <3>. QED
      BY <1>1, <1>5, <3>1 DEF Waiting, key_enqueue
  <2>2. Events' = Events
    BY <2>1, <1>2, <1>4 DEF Events
  <2>. QED
    BY <1>5, <2>1, <2>2, WaitingValue DEF Fifo!Overflow, key_enqueue
<1>6. CASE key_r' # key_f
  <2>1. Waiting' = Waiting + 1 /\ Waiting < Capacity
    BY <1>1, <1>6 DEF Waiting, key_enqueue
  <2>2. Slot(Waiting + 1) = key_r
    BY <1>1, <1>6 DEF Slot, Waiting, key_enqueue
  <2>3. Events' = [i \in 1 .. Waiting + 1 |->
                     IF i = Waiting + 1 THEN k ELSE Events[i]]
    <3>1. ASSUME NEW i \in 1 .. Waiting + 1
          PROVE  key_queue'[Slot(i)'] = IF i = Waiting + 1 THEN k ELSE Events[i]
      BY <1>2, <1>4, <2>1, <2>2, WaitingValue DEF Events, key_enqueue
    <3>. QED
      BY <2>1, <3>1 DEF Events
  <2>4. Events' = Append(Events, k)
    <3>. DEFINE S == Keys \cup {KEY_NONE}
    <3>1. \A i \in 1 .. Waiting : Events[i] \in S
      BY WaitingValue, ElementOfSeq
    <3>2. Events' \in Seq(S) /\ Len(Events') = Waiting + 1
      <4>1. Events' \in [1 .. Waiting + 1 -> S] /\ Waiting + 1 \in Nat
        BY <2>3, <3>1, WaitingValue
      <4>. HIDE DEF S
      <4>. QED
        BY ONLY <4>1
    <3>3. /\ Append(Events, k) \in Seq(S)
          /\ Len(Append(Events, k)) = Waiting + 1
          /\ \A i \in 1 .. Waiting + 1 : Append(Events, k)[i] = Events'[i]
      BY <2>3, WaitingValue, AppendProperties
    <3>. HIDE DEF S
    <3>. QED
      BY <3>2, <3>3, SeqEqual
  <2>. QED
    BY <1>6, <2>1, <2>4, WaitingValue DEF Fifo!Press, key_enqueue
<1>. QED
  BY <1>5, <1>6

\* A read of the port takes the oldest event, if there is one.
LEMMA ReadStep ==
  ASSUME TypeOK, TypeOK', i8042_read
  PROVE  Fifo!Read
<1>. USE KeyAssumption DEF TypeOK, Place, Capacity
<1>1. CASE key_f = key_r
  <2>1. Waiting = 0 /\ Waiting' = 0
    BY <1>1 DEF Waiting, i8042_read
  <2>2. Events = <<>> /\ Events' = <<>>
    BY <2>1 DEF Events
  <2>. QED
    BY <1>1, <2>2 DEF Fifo!Read, i8042_read
<1>2. CASE key_f # key_r
  <2>1. key_f' = IF key_f + 1 = KEY_QUEUE_LEN THEN 0 ELSE key_f + 1
    BY <1>2, AdvanceValue DEF i8042_read
  <2>2. Waiting > 0 /\ Waiting' = Waiting - 1
    BY <1>2, <2>1 DEF Waiting, i8042_read
  <2>3. Slot(1) = key_f /\ \A i \in 1 .. Waiting - 1 : Slot(i)' = Slot(i + 1)
    BY <2>1, WaitingValue DEF Slot, i8042_read
  <2>4. Events' = [i \in 1 .. Waiting - 1 |-> Events[i + 1]]
    BY <2>2, <2>3, WaitingValue DEF Events, i8042_read
  <2>5. Events' = Tail(Events)
    <3>. DEFINE S == Keys \cup {KEY_NONE}
    <3>1. \A i \in 1 .. Waiting : Events[i] \in S
      BY WaitingValue, ElementOfSeq
    <3>2. Events' \in Seq(S) /\ Len(Events') = Waiting - 1
      <4>1. Events' \in [1 .. Waiting - 1 -> S] /\ Waiting - 1 \in Nat
        BY <2>2, <2>4, <3>1, WaitingValue
      <4>. HIDE DEF S
      <4>. QED
        BY ONLY <4>1
    <3>3. /\ Tail(Events) \in Seq(S)
          /\ Len(Tail(Events)) = Waiting - 1
          /\ \A i \in 1 .. Waiting - 1 : Tail(Events)[i] = Events'[i]
      BY <2>2, <2>4, WaitingValue, HeadTailProperties
    <3>. HIDE DEF S
    <3>. QED
      BY <3>2, <3>3, SeqEqual
  <2>6. Head(Events) = key_queue[key_f] /\ Events # <<>>
    BY <2>2, <2>3, WaitingValue DEF Events
  <2>. QED
    BY <1>2, <2>5, <2>6 DEF Fifo!Read, i8042_read
<1>. QED
  BY <1>1, <1>2

\* The ring implements the queue KeyFifo with one place less, for every length
\* from two on: no event is lost, repeated or reordered.
THEOREM RingIsQueue == Spec => ImplementsFifo
<1>1. Init => Fifo!Init
  BY KeyAssumption DEF Init, Fifo!Init, Events, Waiting
<1>2. TypeOK /\ TypeOK' /\ [Next]_vars => [Fifo!Next]_(Fifo!vars)
  <2>1. ASSUME TypeOK, TypeOK', Next PROVE Fifo!Next
    BY <2>1, EnqueueStep, ReadStep DEF Next, Fifo!Next
  <2>2. ASSUME UNCHANGED vars PROVE UNCHANGED Fifo!vars
    BY <2>2 DEF vars, Fifo!vars, Events, Waiting, Slot
  <2>. QED
    BY <2>1, <2>2
<1>. QED
  BY <1>1, <1>2, TypeCorrect, PTL DEF Spec, ImplementsFifo, Fifo!Spec
-----------------------------------------------------------------------------
(***************************************************************************)
(* What the program reads.                                                 *)
(***************************************************************************)

\* Keys that have left the ring, and whether the program waits for one.
Taken == Len(typed) - Waiting
AsksForKey == pending # NoLoad /\ Region(pending.addr) = "keyboard"

\* The keys that the program has read are among the first n typed, in order.
ReadFrom(n) ==
  \E place \in [DOMAIN delivered -> 1 .. n] :
    /\ \A i \in DOMAIN delivered : delivered[i] = typed[place[i]]
    /\ \A i, j \in DOMAIN delivered : i < j => place[i] < place[j]

\* The ring holds the last keys typed.  A key on its way to the program has
\* left the ring, behind all that the program has read.
QueueHoldsTheRest ==
  /\ Waiting <= Len(typed)
  /\ \A i \in 1 .. Waiting : Events[i] = typed[Taken + i]

KeyBehind(n) == \E p \in n + 1 .. Taken : typed[p] = r_rdata

KeyOnItsWay ==
  \E n \in 0 .. Taken :
    /\ ReadFrom(n)
    /\ AsksForKey /\ r_rdata \in Keys => KeyBehind(n)

KeyInv ==
  /\ typed \in Seq(Keys)
  /\ delivered \in Seq(Keys)
  /\ pending # NoLoad => r_araddr = pending.addr
  /\ ~failed => QueueHoldsTheRest /\ KeyOnItsWay
  /\ InOrder

\* Whatever the program and the window do, the keyboard takes steps of KeyQueue.
LEMMA DrivesTheRing == DevSpec => Spec
<1>1. ASSUME [DevNext]_allVars PROVE [Next]_vars
  BY <1>1 DEF DevNext, allVars, StartLoad, Reevaluate, FinishLoad, Store, Tick,
     device_update, nmem_read, Next
<1>. QED
  BY <1>1, PTL DEF DevSpec, DevInit, Spec

\* The ring of key events is the bounded queue also in the composition, where a
\* read of the port is carried out several times (keyboard.cpp, MemRead.v).
THEOREM KeyboardIsQueue == DevSpec => ImplementsFifo
  BY DrivesTheRing, RingIsQueue, PTL

\* An evaluation of MemRead is a read of the ring at the keyboard's address,
\* whose result is the port, and leaves the ring alone at others.
LEMMA ReadOfPort ==
  ASSUME NEW addr, nmem_read(addr)
  PROVE  \/ Region(addr) = "keyboard" /\ i8042_read /\ r_rdata' = port'
         \/ Region(addr) # "keyboard" /\ UNCHANGED vars
  BY DEF nmem_read

\* Keys that are typed later do not disturb what has been read.
LEMMA ReadFromMore ==
  ASSUME typed \in Seq(Keys), NEW n \in Nat, n <= Len(typed), ReadFrom(n),
         UNCHANGED delivered, typed' \in Seq(Keys), Len(typed) <= Len(typed'),
         \A p \in 1 .. Len(typed) : typed'[p] = typed[p],
         NEW m \in Nat, n <= m
  PROVE  ReadFrom(m)'
<1>1. PICK place \in [DOMAIN delivered -> 1 .. n] :
        /\ \A i \in DOMAIN delivered : delivered[i] = typed[place[i]]
        /\ \A i, j \in DOMAIN delivered : i < j => place[i] < place[j]
  BY DEF ReadFrom
<1>2. place \in [DOMAIN delivered -> 1 .. m]
  OBVIOUS
<1>3. \A i \in DOMAIN delivered : delivered[i] = typed'[place[i]]
  BY <1>1
<1>. QED
  BY <1>1, <1>2, <1>3 DEF ReadFrom

\* What has been read from the first keys typed has been read in order.
LEMMA ReadInOrder ==
  ASSUME typed \in Seq(Keys)
  PROVE  InOrder <=> ReadFrom(Len(typed))
<1>1. DOMAIN typed = 1 .. Len(typed)
  OBVIOUS
<1>. QED
  BY <1>1 DEF InOrder, ReadFrom

\* A key that arrives was behind all the others.
LEMMA ReadOneMore ==
  ASSUME delivered \in Seq(Keys), typed \in Seq(Keys),
         NEW n \in Nat, ReadFrom(n), NEW p \in n + 1 .. Len(typed),
         UNCHANGED typed, delivered' = Append(delivered, typed[p])
  PROVE  ReadFrom(p)'
<1>1. PICK place \in [DOMAIN delivered -> 1 .. n] :
        /\ \A i \in DOMAIN delivered : delivered[i] = typed[place[i]]
        /\ \A i, j \in DOMAIN delivered : i < j => place[i] < place[j]
  BY DEF ReadFrom
<1>. DEFINE last == Len(delivered) + 1
            next == [i \in 1 .. last |-> IF i = last THEN p ELSE place[i]]
<1>2. /\ DOMAIN delivered = 1 .. last - 1
      /\ DOMAIN delivered' = 1 .. last
      /\ last \in Nat \ {0}
      /\ delivered'[last] = typed[p]
      /\ \A i \in 1 .. last - 1 : delivered'[i] = delivered[i]
  OBVIOUS
<1>3. next \in [DOMAIN delivered' -> 1 .. p]
  BY <1>2
<1>4. \A i \in DOMAIN delivered' : delivered'[i] = typed[next[i]]
  BY <1>1, <1>2
<1>5. \A i, j \in DOMAIN delivered' : i < j => next[i] < next[j]
  <2>. SUFFICES ASSUME NEW i \in 1 .. last, NEW j \in 1 .. last, i < j
                PROVE  next[i] < next[j]
    BY <1>2
  <2>1. i \in 1 .. last - 1 /\ next[i] = place[i] /\ place[i] \in 1 .. n
    BY <1>2
  <2>2. CASE j = last
    BY <2>1, <2>2
  <2>3. CASE j # last
    <3>1. i \in DOMAIN delivered /\ j \in DOMAIN delivered /\ next[j] = place[j]
      BY <1>2, <2>3
    <3>2. place[i] < place[j]
      BY <1>1, <3>1
    <3>. QED
      BY <2>1, <3>1, <3>2
  <2>. QED
    BY <2>2, <2>3
<1>. HIDE DEF next
<1>. QED
  BY <1>3, <1>4, <1>5 DEF ReadFrom

\* The sizes of the queue before and after a step.
LEMMA WaitingSize == TypeOK => Waiting \in Nat /\ Len(Events) = Waiting
  BY WaitingValue, KeyAssumption DEF Capacity

LEMMA WaitingSizeNext == TypeOK' => (Waiting \in Nat /\ Len(Events) = Waiting)'
<1>1. TypeOK => Waiting \in Nat /\ Len(Events) = Waiting
  BY WaitingSize
<1>. QED
  BY <1>1, PTL

\* A read takes the oldest key from the ring, and it is the next one typed.
LEMMA ReadTakesTheNext ==
  ASSUME TypeOK, TypeOK', typed \in Seq(Keys), UNCHANGED typed, QueueHoldsTheRest,
         i8042_read
  PROVE  /\ QueueHoldsTheRest'
         /\ {Taken, Taken'} \subseteq Nat
         /\ Taken <= Taken' /\ Taken' <= Len(typed)
         /\ port' \in Keys => Taken' = Taken + 1 /\ typed[Taken'] = port'
<1>1. /\ Waiting \in Nat /\ Len(Events) = Waiting /\ (Events = <<>> <=> Waiting = 0)
      /\ Events \in Seq(Keys \cup {KEY_NONE})
  BY WaitingValue, KeyAssumption DEF Capacity
<1>2. Waiting' \in Nat /\ Len(Events)' = Waiting'
  BY WaitingSizeNext
<1>3. Fifo!Read
  BY ReadStep
<1>4. Len(typed) \in Nat /\ Waiting <= Len(typed)
  BY DEF QueueHoldsTheRest
<1>5. CASE Events = <<>>
  <2>1. Waiting' = 0 /\ port' = KEY_NONE
    BY <1>1, <1>2, <1>3, <1>5 DEF Fifo!Read
  <2>. QED
    BY <2>1, <1>1, <1>4, <1>5, KeyAssumption DEF Taken, QueueHoldsTheRest
<1>6. CASE Events # <<>>
  <2>1. port' = Head(Events) /\ Events' = Tail(Events)
    BY <1>3, <1>6 DEF Fifo!Read
  <2>2. /\ Waiting' = Waiting - 1 /\ Waiting > 0
        /\ Head(Events) = Events[1]
        /\ \A i \in 1 .. Waiting' : Events'[i] = Events[i + 1]
    BY <1>1, <1>2, <1>6, <2>1, HeadTailProperties
  <2>3. Taken' = Taken + 1 /\ Taken \in Nat /\ Taken' <= Len(typed)
    BY <1>1, <1>4, <2>2 DEF Taken
  <2>4. \A i \in 1 .. Waiting' : Events'[i] = typed[Taken' + i]
    <3>. SUFFICES ASSUME NEW i \in 1 .. Waiting' PROVE Events'[i] = typed[Taken' + i]
      OBVIOUS
    <3>1. i + 1 \in 1 .. Waiting /\ Taken + (i + 1) = Taken' + i
      BY <1>1, <1>2, <2>2, <2>3
    <3>. QED
      BY <3>1, <2>2 DEF QueueHoldsTheRest
  <2>5. Events[1] = typed[Taken + 1]
    BY <1>1, <2>2 DEF QueueHoldsTheRest
  <2>. QED
    BY <1>1, <1>2, <1>4, <2>1, <2>2, <2>3, <2>4, <2>5 DEF QueueHoldsTheRest
<1>. QED
  BY <1>5, <1>6

\* It takes none only if there is none.
LEMMA ReadTakesNone ==
  ASSUME TypeOK, TypeOK', typed \in Seq(Keys), UNCHANGED typed, QueueHoldsTheRest,
         i8042_read, port' \notin Keys
  PROVE  Taken' = Taken
<1>1. /\ Waiting \in Nat /\ Len(Events) = Waiting /\ (Events = <<>> <=> Waiting = 0)
      /\ Events \in Seq(Keys \cup {KEY_NONE})
  BY WaitingValue, KeyAssumption DEF Capacity
<1>2. CASE Events = <<>>
  <2>1. Events' = <<>>
    BY <1>2, ReadStep DEF Fifo!Read
  <2>2. Waiting' = 0
    BY <2>1, WaitingSizeNext
  <2>. QED
    BY <1>1, <1>2, <2>2 DEF Taken
<1>3. CASE Events # <<>>
  <2>1. port' = Events[1] /\ Waiting >= 1
    BY <1>1, <1>3, ReadStep, HeadTailProperties DEF Fifo!Read
  <2>2. Events[1] = typed[Taken + 1] /\ Taken + 1 \in 1 .. Len(typed)
    BY <1>1, <2>1 DEF QueueHoldsTheRest, Taken
  <2>. QED
    BY <2>1, <2>2
<1>. QED
  BY <1>2, <1>3

\* A key that the ring takes in joins those that it holds.
LEMMA EnqueueHolds ==
  ASSUME TypeOK, TypeOK', typed \in Seq(Keys), QueueHoldsTheRest,
         NEW k \in Keys, key_enqueue(k), typed' = Append(typed, k), ~failed'
  PROVE  QueueHoldsTheRest' /\ Taken' = Taken
<1>1. /\ Waiting \in Nat /\ Len(Events) = Waiting
      /\ Events \in Seq(Keys \cup {KEY_NONE})
  BY WaitingValue, KeyAssumption DEF Capacity
<1>2. Waiting' \in Nat /\ Len(Events)' = Waiting'
  BY WaitingSizeNext
<1>3. Events' = Append(Events, k)
  BY EnqueueStep DEF Fifo!Press, Fifo!Overflow
<1>4. /\ Waiting' = Waiting + 1 /\ Events'[Waiting'] = k
      /\ \A i \in 1 .. Waiting : Events'[i] = Events[i]
  BY <1>1, <1>2, <1>3, AppendProperties
<1>5. /\ Len(typed) \in Nat /\ Len(typed') = Len(typed) + 1
      /\ typed'[Len(typed) + 1] = k
      /\ \A i \in 1 .. Len(typed) : typed'[i] = typed[i]
  OBVIOUS
<1>6. Taken' = Taken /\ Taken \in Nat /\ Waiting' <= Len(typed')
  BY <1>1, <1>4, <1>5 DEF Taken, QueueHoldsTheRest
<1>7. ASSUME NEW i \in 1 .. Waiting' PROVE Events'[i] = typed'[Taken' + i]
  <2>1. CASE i = Waiting'
    BY <2>1, <1>1, <1>4, <1>5, <1>6 DEF Taken
  <2>2. CASE i # Waiting'
    <3>1. i \in 1 .. Waiting /\ Taken + i \in 1 .. Len(typed)
      BY <2>2, <1>1, <1>4, <1>5, <1>6 DEF Taken, QueueHoldsTheRest
    <3>. QED
      BY <3>1, <1>4, <1>5, <1>6 DEF QueueHoldsTheRest
  <2>. QED
    BY <2>1, <2>2
<1>. QED
  BY <1>6, <1>7 DEF QueueHoldsTheRest

\* While the program waits for its load, and when the load begins, the read is
\* evaluated: a key that the port shows then is behind all that were read.
LEMMA EvaluationKeepsOrder ==
  ASSUME TypeOK, TypeOK', KeyInv, ~failed, NEW addr, nmem_read(addr),
         UNCHANGED <<typed, delivered>>, pending' # NoLoad => pending'.addr = addr
  PROVE  (QueueHoldsTheRest /\ KeyOnItsWay /\ InOrder)'
<1>1. typed \in Seq(Keys) /\ QueueHoldsTheRest /\ KeyOnItsWay /\ InOrder
  BY DEF KeyInv
<1>2. PICK n \in 0 .. Taken :
        /\ ReadFrom(n)
        /\ AsksForKey /\ r_rdata \in Keys => KeyBehind(n)
  BY <1>1 DEF KeyOnItsWay
<1>3. InOrder' /\ ReadFrom(n)'
  <2>1. typed' = typed /\ delivered' = delivered
    OBVIOUS
  <2>. QED
    BY <1>1, <1>2, <2>1, Zenon DEF InOrder, ReadFrom
<1>4. CASE Region(addr) = "keyboard" /\ i8042_read /\ r_rdata' = port'
  <2>1. /\ QueueHoldsTheRest'
        /\ {Taken, Taken'} \subseteq Nat
        /\ Taken <= Taken'
        /\ port' \in Keys => Taken' = Taken + 1 /\ typed[Taken'] = port'
    BY <1>1, <1>4, ReadTakesTheNext
  <2>2. r_rdata' \in Keys => KeyBehind(n)'
    <3>. SUFFICES ASSUME r_rdata' \in Keys
                  PROVE  Taken' \in n + 1 .. Taken' /\ typed'[Taken'] = r_rdata'
      BY DEF KeyBehind
    <3>. QED
      BY <1>4, <2>1
  <2>3. n \in 0 .. Taken'
    BY <2>1
  <2>. QED
    BY <1>3, <2>1, <2>2, <2>3 DEF KeyOnItsWay
<1>5. CASE Region(addr) # "keyboard" /\ UNCHANGED vars
  <2>1. Waiting' = Waiting /\ Events' = Events /\ Taken' = Taken
    BY <1>5 DEF vars, Waiting, Events, Slot, Taken
  <2>2. QueueHoldsTheRest'
    BY <1>1, <2>1 DEF QueueHoldsTheRest
  <2>3. ~AsksForKey'
    BY <1>5 DEF AsksForKey
  <2>. QED
    BY <1>3, <2>1, <2>2, <2>3 DEF KeyOnItsWay
<1>. QED
  BY <1>4, <1>5, ReadOfPort

\* A load that begins has a size.
LEMMA StartLoadKeepsOrder ==
  ASSUME TypeOK, TypeOK', KeyInv, StartLoad PROVE KeyInv'
<1>1. PICK addr \in Addr, size \in Sizes, signed \in BOOLEAN :
        /\ r_araddr' = addr
        /\ pending' = [addr |-> addr, size |-> size, signed |-> signed]
        /\ nmem_read(addr)
  BY DEF StartLoad
<1>2. ~failed /\ pending'.addr = addr /\ UNCHANGED <<typed, delivered>>
  BY <1>1 DEF StartLoad, Alive
<1>. QED
  BY <1>1, <1>2, EvaluationKeepsOrder DEF KeyInv

LEMMA ReevaluateKeepsOrder ==
  ASSUME TypeOK, TypeOK', KeyInv, Reevaluate PROVE KeyInv'
<1>1. /\ ~failed /\ nmem_read(r_araddr)
      /\ UNCHANGED <<typed, delivered, pending, r_araddr>>
      /\ pending' # NoLoad => pending'.addr = r_araddr
  BY DEF Reevaluate, Alive, KeyInv
<1>. QED
  BY <1>1, EvaluationKeepsOrder DEF KeyInv

\* The response of a load hands its key, if it has one, to the program.
LEMMA FinishLoadKeepsOrder ==
  ASSUME TypeOK, TypeOK', KeyInv, FinishLoad PROVE KeyInv'
<1>1. /\ ~failed /\ UNCHANGED <<vars, typed>> /\ pending' = NoLoad /\ pending # NoLoad
      /\ typed \in Seq(Keys) /\ delivered \in Seq(Keys)
      /\ QueueHoldsTheRest /\ KeyOnItsWay
  BY DEF FinishLoad, Alive, KeyInv
<1>2. Waiting' = Waiting /\ Events' = Events /\ Taken' = Taken
  BY <1>1 DEF vars, Waiting, Events, Slot, Taken
<1>3. QueueHoldsTheRest' /\ ~AsksForKey'
  BY <1>1, <1>2 DEF QueueHoldsTheRest, AsksForKey
<1>4. Taken \in Nat /\ Taken <= Len(typed)
  BY <1>1, WaitingSize DEF Taken, QueueHoldsTheRest
<1>5. PICK n \in 0 .. Taken :
        /\ ReadFrom(n)
        /\ AsksForKey /\ r_rdata \in Keys => KeyBehind(n)
  BY <1>1 DEF KeyOnItsWay
<1>6. delivered' \in Seq(Keys) /\ \E m \in 0 .. Taken : ReadFrom(m)'
  <2>1. CASE AsksForKey /\ r_rdata \in Keys
    <3>1. PICK p \in n + 1 .. Taken : typed[p] = r_rdata
      BY <2>1, <1>5 DEF KeyBehind
    <3>2. delivered' = Append(delivered, typed[p])
      BY <2>1, <3>1 DEF FinishLoad, AsksForKey
    <3>3. n \in Nat /\ p \in n + 1 .. Len(typed) /\ ReadFrom(n) /\ typed' = typed
      BY <1>1, <1>4, <1>5, <3>1
    <3>4. ReadFrom(p)'
      BY <1>1, <3>2, <3>3, ReadOneMore
    <3>5. p \in 0 .. Taken /\ delivered' \in Seq(Keys)
      BY <1>1, <1>4, <2>1, <3>1, <3>2
    <3>. QED
      BY <3>4, <3>5
  <2>2. CASE ~(AsksForKey /\ r_rdata \in Keys)
    <3>1. delivered' = delivered
      BY <2>2, <1>1 DEF FinishLoad, AsksForKey
    <3>2. ReadFrom(n)'
      BY <3>1, <1>1, <1>5, Zenon DEF ReadFrom
    <3>. QED
      BY <3>1, <3>2, <1>1, <1>5
  <2>. QED
    BY <2>1, <2>2
<1>7. InOrder'
  <2>1. PICK m \in 0 .. Taken : ReadFrom(m)'
    BY <1>6
  <2>2. DOMAIN typed' = 1 .. Len(typed) /\ m <= Len(typed)
    BY <1>1, <1>4
  <2>. QED
    BY <2>1, <2>2 DEF ReadFrom, InOrder
<1>. QED
  BY <1>1, <1>2, <1>3, <1>6, <1>7 DEF KeyInv, KeyOnItsWay

\* A key that is typed while the program waits for another does not change
\* what it gets.
LEMMA UpdateKeepsOrder ==
  ASSUME TypeOK, TypeOK', KeyInv, device_update PROVE KeyInv'
<1>1. /\ ~failed /\ UNCHANGED <<r_araddr, pending, r_rdata, delivered>>
      /\ typed \in Seq(Keys) /\ delivered \in Seq(Keys) /\ InOrder
      /\ QueueHoldsTheRest /\ KeyOnItsWay
  BY DEF device_update, Alive, KeyInv
<1>2. AsksForKey' = AsksForKey
  BY <1>1 DEF AsksForKey
<1>3. CASE UNCHANGED <<vars, typed>>
  <2>1. Waiting' = Waiting /\ Events' = Events /\ Taken' = Taken /\ typed' = typed
    BY <1>3 DEF vars, Waiting, Events, Slot, Taken
  <2>2. InOrder' /\ QueueHoldsTheRest'
    BY <1>1, <2>1 DEF InOrder, QueueHoldsTheRest
  <2>3. KeyOnItsWay'
    BY <1>1, <1>2, <2>1 DEF KeyOnItsWay, ReadFrom, KeyBehind
  <2>. QED
    BY <1>1, <2>1, <2>2, <2>3 DEF KeyInv
<1>4. ASSUME NEW k \in Keys, key_enqueue(k), typed' = Append(typed, k) PROVE KeyInv'
  <2>1. /\ typed' \in Seq(Keys) /\ Len(typed) \in Nat /\ Len(typed') = Len(typed) + 1
        /\ \A p \in 1 .. Len(typed) : typed'[p] = typed[p]
    BY <1>1, <1>4
  <2>2. InOrder'
    <3>1. PICK len \in Nat, more \in Nat : len = Len(typed) /\ more = Len(typed)'
      BY <2>1
    <3>2. ReadFrom(len)
      BY <1>1, <3>1, ReadInOrder
    <3>3. ReadFrom(more)'
      BY <1>1, <2>1, <3>1, <3>2, ReadFromMore
    <3>4. DOMAIN typed' = 1 .. more
      BY <2>1, <3>1
    <3>. QED
      BY <3>3, <3>4 DEF ReadFrom, InOrder
  <2>3. ~failed' => QueueHoldsTheRest' /\ KeyOnItsWay'
    <3>. SUFFICES ASSUME ~failed' PROVE QueueHoldsTheRest' /\ KeyOnItsWay'
      OBVIOUS
    <3>1. QueueHoldsTheRest' /\ Taken' = Taken
      BY <1>1, <1>4, EnqueueHolds
    <3>2. Taken \in Nat /\ Taken <= Len(typed)
      BY <1>1, WaitingSize DEF Taken, QueueHoldsTheRest
    <3>3. PICK n \in 0 .. Taken :
            /\ ReadFrom(n)
            /\ AsksForKey /\ r_rdata \in Keys => KeyBehind(n)
      BY <1>1 DEF KeyOnItsWay
    <3>4. ReadFrom(n)'
      <4>1. n \in Nat /\ n <= Len(typed) /\ Len(typed) <= Len(typed')
        BY <2>1, <3>2, <3>3
      <4>. QED
        BY <1>1, <2>1, <3>3, <4>1, ReadFromMore
    <3>5. KeyBehind(n) => KeyBehind(n)'
      <4>1. \A p \in n + 1 .. Taken : typed'[p] = typed[p]
        BY <2>1, <3>2, <3>3
      <4>. QED
        BY <1>1, <3>1, <4>1 DEF KeyBehind
    <3>. QED
      BY <1>1, <1>2, <3>1, <3>3, <3>4, <3>5 DEF KeyOnItsWay
  <2>. QED
    BY <1>1, <2>1, <2>2, <2>3 DEF KeyInv
<1>. QED
  BY <1>3, <1>4 DEF device_update

\* The other steps leave the keyboard and its history alone.
LEMMA OthersKeepOrder ==
  ASSUME KeyInv,
         UNCHANGED <<vars, typed, delivered, r_araddr, pending, r_rdata>>
  PROVE  KeyInv'
<1>1. /\ Waiting' = Waiting /\ Events' = Events /\ Taken' = Taken
      /\ typed' = typed /\ delivered' = delivered /\ failed' = failed
      /\ r_araddr' = r_araddr /\ pending' = pending /\ r_rdata' = r_rdata
  BY DEF vars, Waiting, Events, Slot, Taken
<1>2. InOrder' = InOrder /\ QueueHoldsTheRest' = QueueHoldsTheRest
  BY <1>1 DEF InOrder, QueueHoldsTheRest
<1>3. KeyOnItsWay => KeyOnItsWay'
  BY <1>1 DEF KeyOnItsWay, ReadFrom, KeyBehind, AsksForKey
<1>. QED
  BY <1>1, <1>2, <1>3 DEF KeyInv

\* The parts together.
LEMMA OrderIsKept == DevSpec => []KeyInv
<1>1. DevInit => KeyInv
  <2>1. ASSUME DevInit PROVE typed = <<>> /\ delivered = <<>> /\ pending = NoLoad /\ Waiting = 0
    BY <2>1, KeyAssumption DEF DevInit, Init, Waiting
  <2>2. ASSUME DevInit PROVE ReadFrom(0)
    <3>1. delivered = <<>>
      BY <2>2, <2>1
    <3>2. DOMAIN delivered = {}
      BY <3>1
    <3>3. [i \in {} |-> 0] \in [DOMAIN delivered -> 1 .. 0]
      BY <3>2
    <3>. QED
      BY <3>2, <3>3 DEF ReadFrom
  <2>3. ASSUME DevInit PROVE InOrder
    BY <2>2, <2>3, <2>1, ReadInOrder
  <2>. QED
    BY <2>1, <2>2, <2>3 DEF KeyInv, QueueHoldsTheRest, KeyOnItsWay, AsksForKey, Taken
<1>2. TypeOK /\ TypeOK' /\ KeyInv /\ [DevNext]_allVars => KeyInv'
  <2>1. ASSUME TypeOK, TypeOK', KeyInv, DevNext PROVE KeyInv'
    <3>1. CASE Store \/ Tick
      BY <2>1, <3>1, OthersKeepOrder DEF Store, Tick
    <3>. QED
      BY <2>1, <3>1, StartLoadKeepsOrder, ReevaluateKeepsOrder, FinishLoadKeepsOrder,
         UpdateKeepsOrder DEF DevNext
  <2>2. ASSUME KeyInv, UNCHANGED allVars PROVE KeyInv'
    BY <2>2, OthersKeepOrder DEF allVars, devVars
  <2>. QED
    BY <2>1, <2>2
<1>. QED
  BY <1>1, <1>2, DrivesTheRing, TypeCorrect, PTL DEF DevSpec

\* Until a key has been lost, the program has read all the keys that left the
\* ring but for one that is on the wire.
GapInv ==
  ~lost =>
    /\ Len(delivered) <= Len(typed)
    /\ \A i \in DOMAIN delivered : delivered[i] = typed[i]
    /\ ~failed =>
         /\ Taken = Len(delivered) + (IF KeyOnWire THEN 1 ELSE 0)
         /\ KeyOnWire => typed[Taken] = r_rdata

\* An evaluation of a read takes the next key typed, if it takes one.
LEMMA EvaluationLeavesNoGap ==
  ASSUME TypeOK, TypeOK', KeyInv, GapInv, ~failed, NEW addr, nmem_read(addr),
         r_araddr' = addr, lost' = (lost \/ KeyOnWire), UNCHANGED <<typed, delivered>>
  PROVE  GapInv'
<1>. SUFFICES ASSUME ~lost' PROVE GapInv'
  BY DEF GapInv
<1>1. ~lost /\ ~KeyOnWire
  OBVIOUS
<1>2. /\ Len(delivered) <= Len(typed)
      /\ \A i \in DOMAIN delivered : delivered[i] = typed[i]
      /\ Taken = Len(delivered)
      /\ typed \in Seq(Keys) /\ delivered \in Seq(Keys) /\ QueueHoldsTheRest
  BY <1>1 DEF GapInv, KeyInv
<1>3. CASE Region(addr) = "keyboard" /\ i8042_read /\ r_rdata' = port'
  <2>1. port' \in Keys => Taken' = Taken + 1 /\ typed[Taken'] = port'
    BY <1>2, <1>3, ReadTakesTheNext
  <2>2. port' \notin Keys => Taken' = Taken
    BY <1>2, <1>3, ReadTakesNone
  <2>3. KeyOnWire' <=> port' \in Keys
    BY <1>3 DEF KeyOnWire
  <2>. QED
    BY <1>2, <1>3, <2>1, <2>2, <2>3 DEF GapInv
<1>4. CASE Region(addr) # "keyboard" /\ UNCHANGED vars
  <2>1. Taken' = Taken /\ ~KeyOnWire'
    BY <1>4 DEF vars, Waiting, Taken, KeyOnWire
  <2>. QED
    BY <1>2, <2>1 DEF GapInv
<1>. QED
  BY <1>3, <1>4, ReadOfPort

\* The response of a load takes the key from the wire.
LEMMA FinishLoadLeavesNoGap ==
  ASSUME TypeOK, KeyInv, GapInv, FinishLoad PROVE GapInv'
<1>. SUFFICES ASSUME ~lost' PROVE GapInv'
  BY DEF GapInv
<1>1. /\ ~lost /\ ~failed /\ UNCHANGED <<vars, typed>>
      /\ pending # NoLoad /\ r_araddr = pending.addr
      /\ typed \in Seq(Keys) /\ delivered \in Seq(Keys) /\ QueueHoldsTheRest
  BY DEF FinishLoad, Alive, KeyInv
<1>2. Taken' = Taken /\ Taken \in Nat /\ Taken <= Len(typed)
  BY <1>1, WaitingSize DEF vars, Waiting, Taken, QueueHoldsTheRest
<1>3. ~KeyOnWire'
  BY KeyAssumption DEF FinishLoad, KeyOnWire
<1>4. CASE KeyOnWire
  <2>1. /\ delivered' = Append(delivered, r_rdata)
        /\ Taken = Len(delivered) + 1 /\ typed[Taken] = r_rdata
        /\ \A i \in DOMAIN delivered : delivered[i] = typed[i]
    BY <1>1, <1>4 DEF FinishLoad, KeyOnWire, GapInv
  <2>2. /\ Len(delivered') = Len(delivered) + 1 /\ DOMAIN delivered' = 1 .. Len(delivered) + 1
        /\ \A i \in 1 .. Len(delivered) : delivered'[i] = delivered[i]
        /\ delivered'[Len(delivered) + 1] = r_rdata
        /\ DOMAIN delivered = 1 .. Len(delivered) /\ Len(delivered) \in Nat
    <3>1. r_rdata \in Keys
      BY <1>4 DEF KeyOnWire
    <3>. QED
      BY <1>1, <2>1, <3>1
  <2>3. ASSUME NEW i \in DOMAIN delivered' PROVE delivered'[i] = typed[i]
    <3>1. CASE i = Len(delivered) + 1
      BY <3>1, <2>1, <2>2
    <3>2. CASE i # Len(delivered) + 1
      <4>1. i \in 1 .. Len(delivered)
        BY <2>2, <2>3, <3>2
      <4>. QED
        BY <4>1, <2>1, <2>2
    <3>. QED
      BY <3>1, <3>2
  <2>. QED
    BY <1>1, <1>2, <1>3, <2>1, <2>2, <2>3 DEF GapInv
<1>5. CASE ~KeyOnWire
  <2>1. delivered' = delivered
    BY <1>1, <1>5 DEF FinishLoad, KeyOnWire
  <2>. QED
    BY <1>1, <1>2, <1>3, <1>5, <2>1 DEF GapInv
<1>. QED
  BY <1>4, <1>5

\* A key that is typed is behind the others.
LEMMA UpdateLeavesNoGap ==
  ASSUME TypeOK, TypeOK', KeyInv, GapInv, device_update PROVE GapInv'
<1>. SUFFICES ASSUME ~lost' PROVE GapInv'
  BY DEF GapInv
<1>1. /\ ~lost /\ ~failed /\ UNCHANGED <<r_araddr, r_rdata, delivered>>
      /\ typed \in Seq(Keys) /\ delivered \in Seq(Keys) /\ QueueHoldsTheRest
  BY DEF device_update, Alive, KeyInv
<1>2. KeyOnWire' = KeyOnWire
  BY <1>1 DEF KeyOnWire
<1>3. CASE UNCHANGED <<vars, typed>>
  <2>1. Taken' = Taken
    BY <1>3 DEF vars, Waiting, Taken
  <2>. QED
    BY <1>1, <1>2, <1>3, <2>1 DEF GapInv, vars
<1>4. ASSUME NEW k \in Keys, key_enqueue(k), typed' = Append(typed, k) PROVE GapInv'
  <2>1. /\ Len(typed') = Len(typed) + 1 /\ Len(typed) \in Nat /\ Len(delivered) \in Nat
        /\ \A p \in 1 .. Len(typed) : typed'[p] = typed[p]
        /\ DOMAIN delivered = 1 .. Len(delivered)
    BY <1>1, <1>4
  <2>2. /\ Len(delivered) <= Len(typed)
        /\ \A i \in DOMAIN delivered : delivered[i] = typed[i]
        /\ Taken = Len(delivered) + (IF KeyOnWire THEN 1 ELSE 0)
        /\ KeyOnWire => Taken = Len(delivered) + 1 /\ typed[Taken] = r_rdata
    BY <1>1 DEF GapInv
  <2>3. \A i \in DOMAIN delivered : delivered[i] = typed'[i]
    <3>. SUFFICES ASSUME NEW i \in DOMAIN delivered PROVE delivered[i] = typed'[i]
      OBVIOUS
    <3>1. i \in 1 .. Len(delivered) /\ Len(delivered) <= Len(typed)
      BY <2>1, <2>2
    <3>2. i \in 1 .. Len(typed)
      BY <2>1, <3>1
    <3>3. delivered[i] = typed[i] /\ typed'[i] = typed[i]
      BY <2>1, <2>2, <3>2
    <3>. QED
      BY <3>3
  <2>4. ~failed' => Taken' = Taken
    BY <1>1, <1>4, EnqueueHolds
  <2>5. Taken \in Nat /\ Taken <= Len(typed)
    BY <1>1, WaitingSize DEF Taken, QueueHoldsTheRest
  <2>6. KeyOnWire => typed'[Taken] = r_rdata
    <3>. SUFFICES ASSUME KeyOnWire PROVE typed'[Taken] = r_rdata
      OBVIOUS
    <3>1. Taken \in 1 .. Len(typed) /\ typed[Taken] = r_rdata
      BY <2>1, <2>2, <2>5
    <3>. QED
      BY <2>1, <3>1
  <2>7. Len(delivered') <= Len(typed')
    <3>1. Len(delivered') = Len(delivered) /\ Len(delivered) <= Len(typed)
      BY <1>1, <2>2
    <3>2. \A a, b \in Nat : a <= b => a <= b + 1
      OBVIOUS
    <3>. QED
      BY <2>1, <3>1, <3>2
  <2>8. ASSUME ~failed'
        PROVE  /\ Taken' = Len(delivered') + (IF KeyOnWire' THEN 1 ELSE 0)
               /\ KeyOnWire' => typed'[Taken'] = r_rdata'
    <3>. HIDE DEF Taken, KeyOnWire
    <3>. QED
      BY <1>1, <1>2, <2>2, <2>4, <2>6, <2>8
  <2>9. \A i \in DOMAIN delivered' : delivered'[i] = typed'[i]
    BY <1>1, <2>3
  <2>. QED
    BY <2>7, <2>8, <2>9 DEF GapInv
<1>. QED
  BY <1>3, <1>4 DEF device_update

\* The keys that a program reads are keys that were typed, in their order and
\* each at most once, for every ring, every set of keys, any number of keys
\* and any number of evaluations of a read; and until an evaluation replaces a
\* key that another one took, they are the first ones typed, without a gap.
THEOREM ReadsKeysInOrder == DevSpec => []KeysInOrder
<1>1. DevInit => GapInv
  <2>. SUFFICES ASSUME DevInit PROVE GapInv
    OBVIOUS
  <2>1. typed = <<>> /\ delivered = <<>> /\ Waiting = 0 /\ r_rdata = KEY_NONE
    BY KeyAssumption DEF DevInit, Init, Waiting
  <2>. QED
    BY <2>1, KeyAssumption DEF GapInv, Taken, KeyOnWire
<1>2. TypeOK /\ TypeOK' /\ KeyInv /\ GapInv /\ [DevNext]_allVars => GapInv'
  <2>. SUFFICES ASSUME TypeOK, TypeOK', KeyInv, GapInv, [DevNext]_allVars PROVE GapInv'
    OBVIOUS
  <2>1. CASE StartLoad
    <3>1. PICK addr : r_araddr' = addr /\ nmem_read(addr)
      BY <2>1 DEF StartLoad
    <3>. QED
      BY <2>1, <3>1, EvaluationLeavesNoGap DEF StartLoad, Alive
  <2>2. CASE Reevaluate
    BY <2>2, EvaluationLeavesNoGap DEF Reevaluate, Alive
  <2>3. CASE Store \/ Tick \/ UNCHANGED allVars
    <3>1. UNCHANGED <<vars, typed, delivered, lost, r_araddr, r_rdata>>
      BY <2>3 DEF Store, Tick, allVars, devVars
    <3>2. Taken' = Taken /\ KeyOnWire' = KeyOnWire /\ failed' = failed
      BY <3>1 DEF vars, Waiting, Taken, KeyOnWire
    <3>. QED
      BY <3>1, <3>2 DEF GapInv
  <2>. QED
    BY <2>1, <2>2, <2>3, FinishLoadLeavesNoGap, UpdateLeavesNoGap DEF DevNext
<1>3. KeyInv /\ GapInv => KeysInOrder
  BY DEF KeyInv, GapInv, KeysInOrder
<1>. QED
  BY <1>1, <1>2, <1>3, OrderIsKept, DrivesTheRing, TypeCorrect, PTL DEF DevSpec
-----------------------------------------------------------------------------
\* Every set of natural numbers has a least one: what the inductions below
\* rest on.
LEMMA LeastNumber ==
  ASSUME NEW T, T \subseteq Nat, T # {}
  PROVE  \E x \in T : \A y \in T : ~(y < x)
<1>1. \E x \in T : \A y \in T : ~(<<y, x>> \in OpToRel(<, Nat))
  BY NatLessThanWellFounded, WFMin
<1>. QED
  BY <1>1 DEF OpToRel
-----------------------------------------------------------------------------
(***************************************************************************)
(* Runs written one after the other.                                       *)
(***************************************************************************)

Written(word, runs, f, j) ==
  f = [k \in 0 .. j |-> IF k = 0 THEN word ELSE host_write(f[k - 1], runs[k])]

LEMMA WrittenExists ==
  ASSUME NEW word, NEW runs, NEW len \in Nat
  PROVE  \E f : Written(word, runs, f, len)
<1>. DEFINE T == {j \in 0 .. len : ~\E f : Written(word, runs, f, j)}
<1>1. T = {}
  <2>. SUFFICES ASSUME T # {} PROVE FALSE
    OBVIOUS
  <2>1. PICK j \in T : \A i \in T : ~(i < j)
    <3>1. T \subseteq Nat
      OBVIOUS
    <3>. HIDE DEF T
    <3>. QED
      BY <3>1, LeastNumber
  <2>2. j \in 0 .. len /\ ~\E f : Written(word, runs, f, j)
    BY <2>1
  <2>3. CASE j = 0
    <3>. DEFINE g == [k \in 0 .. 0 |-> word]
    <3>1. g = [k \in 0 .. 0 |-> IF k = 0 THEN word ELSE host_write(g[k - 1], runs[k])]
      OBVIOUS
    <3>. HIDE DEF g
    <3>. QED
      BY <2>2, <2>3, <3>1 DEF Written
  <2>4. CASE j # 0
    <3>1. j - 1 \in 0 .. len /\ j - 1 < j
      BY <2>2, <2>4
    <3>2. j - 1 \notin T
      BY <2>1, <3>1
    <3>3. PICK f : Written(word, runs, f, j - 1)
      BY <3>1, <3>2
    <3>. DEFINE g == [k \in 0 .. j |-> IF k = j THEN host_write(f[j - 1], runs[j]) ELSE f[k]]
    <3>4. \A k \in 0 .. j - 1 : f[k] = IF k = 0 THEN word ELSE host_write(f[k - 1], runs[k])
      BY <3>3 DEF Written
    <3>5. \A k \in 0 .. j : g[k] = IF k = 0 THEN word ELSE host_write(g[k - 1], runs[k])
      BY <2>2, <2>4, <3>4
    <3>6. Written(word, runs, g, j)
      BY <3>5 DEF Written
    <3>. QED
      BY <2>2, <3>6
  <2>. QED
    BY <2>3, <2>4
<1>. QED
  BY <1>1

\* The runs of a list that is longer by one.
LEMMA WriteAllAppend ==
  ASSUME NEW word, NEW R, NEW runs \in Seq(R), NEW r \in R
  PROVE  WriteAll(word, Append(runs, r)) = host_write(WriteAll(word, runs), r)
<1>. DEFINE more == Append(runs, r)
<1>1. /\ more \in Seq(R) /\ Len(more) = Len(runs) + 1 /\ Len(runs) \in Nat
      /\ more[Len(runs) + 1] = r
      /\ \A k \in 1 .. Len(runs) : more[k] = runs[k]
  BY AppendProperties
<1>. HIDE DEF more
<1>. DEFINE a == CHOOSE f : Written(word, runs, f, Len(runs))
            b == CHOOSE f : Written(word, more, f, Len(more))
<1>2. WriteAll(word, runs) = a[Len(runs)] /\ WriteAll(word, more) = b[Len(more)]
  BY DEF WriteAll, Written
<1>3. Written(word, runs, a, Len(runs))
  BY <1>1, WrittenExists
<1>4. Written(word, more, b, Len(more))
  <2>1. Len(more) \in Nat
    BY <1>1
  <2>. QED
    BY <2>1, WrittenExists
<1>. HIDE DEF a, b
<1>5. \A k \in 0 .. Len(runs) : a[k] = IF k = 0 THEN word ELSE host_write(a[k - 1], runs[k])
  BY <1>3 DEF Written
<1>6. \A k \in 0 .. Len(runs) + 1 : b[k] = IF k = 0 THEN word ELSE host_write(b[k - 1], more[k])
  BY <1>1, <1>4 DEF Written
<1>. DEFINE T == {k \in 0 .. Len(runs) : a[k] # b[k]}
<1>7. T = {}
  <2>. SUFFICES ASSUME T # {} PROVE FALSE
    OBVIOUS
  <2>1. PICK k \in T : \A i \in T : ~(i < k)
    <3>1. T \subseteq Nat
      BY <1>1
    <3>. HIDE DEF T
    <3>. QED
      BY <3>1, LeastNumber
  <2>2. k \in 0 .. Len(runs) /\ a[k] # b[k]
    BY <2>1
  <2>3. k # 0
    BY <1>1, <1>5, <1>6, <2>2
  <2>4. k - 1 \in 0 .. Len(runs) /\ k - 1 \notin T
    BY <1>1, <2>1, <2>2, <2>3
  <2>5. a[k - 1] = b[k - 1] /\ more[k] = runs[k]
    BY <1>1, <2>2, <2>3, <2>4
  <2>. QED
    BY <1>1, <1>5, <1>6, <2>2, <2>3, <2>5
<1>8. a[Len(runs)] = b[Len(runs)]
  BY <1>1, <1>7
<1>9. b[Len(runs) + 1] = host_write(b[Len(runs)], r)
  BY <1>1, <1>6
<1>. QED
  BY <1>1, <1>2, <1>8, <1>9 DEF more

LEMMA WriteNothing ==
  ASSUME NEW word
  PROVE  WriteAll(word, <<>>) = word
<1>. DEFINE a == CHOOSE f : Written(word, <<>>, f, 0)
<1>1. WriteAll(word, <<>>) = a[0]
  BY DEF WriteAll, Written
<1>2. Written(word, <<>>, a, 0)
  BY WrittenExists
<1>. HIDE DEF a
<1>. QED
  BY <1>1, <1>2 DEF Written

-----------------------------------------------------------------------------
(***************************************************************************)
(* The loop over the lanes of a mask.                                      *)
(***************************************************************************)

\* The loop's body for lane i - 1.
NextLane(mask, acc, i) ==
  IF i - 1 \in mask THEN [acc EXCEPT !.w_len = @ + 1] ELSE SkipLane(acc, i - 1)

Collected(mask, data, f, j) ==
  f = [i \in 0 .. j |-> IF i = 0 THEN [w_len |-> 0, data |-> data, runs |-> <<>>]
                        ELSE NextLane(mask, f[i - 1], i)]

LEMMA CollectedExists ==
  ASSUME NEW mask, NEW data, NEW len \in Nat
  PROVE  \E f : Collected(mask, data, f, len)
<1>. DEFINE T == {j \in 0 .. len : ~\E f : Collected(mask, data, f, j)}
<1>1. T = {}
  <2>. SUFFICES ASSUME T # {} PROVE FALSE
    OBVIOUS
  <2>1. PICK j \in T : \A i \in T : ~(i < j)
    <3>1. T \subseteq Nat
      OBVIOUS
    <3>. HIDE DEF T
    <3>. QED
      BY <3>1, LeastNumber
  <2>2. j \in 0 .. len /\ ~\E f : Collected(mask, data, f, j)
    BY <2>1
  <2>. PICK zero : zero = [w_len |-> 0, data |-> data, runs |-> <<>>]
    OBVIOUS
  <2>3. CASE j = 0
    <3>. DEFINE g == [k \in 0 .. 0 |-> zero]
    <3>1. g = [k \in 0 .. 0 |-> IF k = 0 THEN zero ELSE NextLane(mask, g[k - 1], k)]
      OBVIOUS
    <3>. HIDE DEF g
    <3>. QED
      BY <2>2, <2>3, <3>1 DEF Collected
  <2>4. CASE j # 0
    <3>1. j - 1 \in 0 .. len /\ j - 1 < j
      BY <2>2, <2>4
    <3>2. j - 1 \notin T
      BY <2>1, <3>1
    <3>3. PICK f : Collected(mask, data, f, j - 1)
      BY <3>1, <3>2
    <3>. DEFINE g == [k \in 0 .. j |-> IF k = j THEN NextLane(mask, f[j - 1], j) ELSE f[k]]
    <3>4. \A k \in 0 .. j - 1 : f[k] = IF k = 0 THEN zero ELSE NextLane(mask, f[k - 1], k)
      BY <3>3 DEF Collected
    <3>5. \A k \in 0 .. j : g[k] = IF k = 0 THEN zero ELSE NextLane(mask, g[k - 1], k)
      BY <2>2, <2>4, <3>4
    <3>6. Collected(mask, data, g, j)
      BY <3>5 DEF Collected
    <3>. QED
      BY <2>2, <3>6
  <2>. QED
    BY <2>3, <2>4
<1>. QED
  BY <1>1

\* What the loop has collected when it is done.
LEMMA WriteRunsValue ==
  ASSUME NEW mask, NEW data
  PROVE  \E f : /\ f[0] = [w_len |-> 0, data |-> data, runs |-> <<>>]
                /\ \A i \in 1 .. LANES : f[i] = NextLane(mask, f[i - 1], i)
                /\ WriteRuns(mask, data) =
                     IF f[LANES].w_len = 0 THEN f[LANES].runs
                     ELSE Append(f[LANES].runs,
                                 Run(LANES - f[LANES].w_len, f[LANES].w_len, f[LANES].data))
<1>. DEFINE a == CHOOSE f : Collected(mask, data, f, LANES)
<1>1. WriteRuns(mask, data) = IF a[LANES].w_len = 0 THEN a[LANES].runs
        ELSE Append(a[LANES].runs, Run(LANES - a[LANES].w_len, a[LANES].w_len, a[LANES].data))
  BY DEF WriteRuns, Collected, NextLane
<1>2. Collected(mask, data, a, LANES)
  <2>1. LANES \in Nat
    BY LaneAssumption
  <2>. QED
    BY <2>1, CollectedExists
<1>. HIDE DEF a
<1>3. /\ a[0] = [w_len |-> 0, data |-> data, runs |-> <<>>]
      /\ \A i \in 1 .. LANES : a[i] = NextLane(mask, a[i - 1], i)
  BY <1>2, LaneAssumption DEF Collected
<1>. QED
  BY <1>1, <1>3

RunSet == [at : Int, len : Int, data : Data]

\* Behind lane i: the run being collected, the rest of the data moved to the
\* first lane of that run, and the runs in front of it written.
Merged(word, mask, data, i) == [l \in Lane |-> IF l \in mask /\ l < i THEN data[l] ELSE word[l]]

Collecting(word, mask, data, acc, i) ==
  /\ acc = [w_len |-> acc.w_len, data |-> acc.data, runs |-> acc.runs]
  /\ acc.w_len \in 0 .. i
  /\ \A l \in i - acc.w_len .. i - 1 : l \in mask
  /\ acc.data = ShiftRight(data, i - acc.w_len)
  /\ acc.runs \in Seq(RunSet)
  /\ WriteAll(word, acc.runs) = Merged(word, mask, data, i - acc.w_len)

LEMMA Shifts ==
  ASSUME NEW data \in Data, NEW j \in Nat, NEW k \in Nat
  PROVE  /\ ShiftRight(data, j) \in Data
         /\ ShiftRight(ShiftRight(data, j), k) = ShiftRight(data, j + k)
         /\ ShiftRight(data, 0) = data
<1>1. 0 \in Byte
  BY LaneAssumption DEF Byte
<1>2. ShiftRight(data, j) \in Data
  BY <1>1 DEF ShiftRight, Data
<1>3. ShiftRight(ShiftRight(data, j), k) = ShiftRight(data, j + k)
  <2>1. ASSUME NEW l \in Lane
        PROVE  (IF l + k \in Lane THEN ShiftRight(data, j)[l + k] ELSE 0)
                 = IF l + (j + k) \in Lane THEN data[l + (j + k)] ELSE 0
    <3>1. l + k + j = l + (j + k) /\ (l + (j + k) \in Lane => l + k \in Lane)
      BY LaneAssumption DEF Lane
    <3>. QED
      BY <3>1 DEF ShiftRight
  <2>. QED
    BY <2>1 DEF ShiftRight
<1>4. ShiftRight(data, 0) = data
  BY DEF ShiftRight, Data, Lane
<1>. QED
  BY <1>2, <1>3, <1>4

\* Writing the run that ends in front of lane i.
LEMMA RunWritten ==
  ASSUME NEW word \in Data, NEW mask, NEW data \in Data, NEW i \in 0 .. LANES, NEW acc,
         Collecting(word, mask, data, acc, i), acc.w_len # 0
  PROVE  LET run == Run(i - acc.w_len, acc.w_len, acc.data)
         IN /\ run \in RunSet
            /\ Append(acc.runs, run) \in Seq(RunSet)
            /\ WriteAll(word, Append(acc.runs, run)) = Merged(word, mask, data, i)
<1>. DEFINE run == Run(i - acc.w_len, acc.w_len, acc.data)
            w == acc.w_len
<1>1. w \in Nat /\ i \in Nat /\ i - w \in Nat /\ i <= LANES /\ LANES \in Nat
  BY LaneAssumption DEF Collecting
<1>2. run \in RunSet
  BY <1>1, Shifts DEF Collecting, Run, RunSet
<1>3. Append(acc.runs, run) \in Seq(RunSet)
  BY <1>2, AppendProperties DEF Collecting
<1>4. WriteAll(word, Append(acc.runs, run)) = host_write(Merged(word, mask, data, i - w), run)
  BY <1>2, WriteAllAppend DEF Collecting
<1>5. host_write(Merged(word, mask, data, i - w), run) = Merged(word, mask, data, i)
  <2>1. ASSUME NEW l \in Lane
        PROVE  (IF l \in run.at .. run.at + run.len - 1 THEN run.data[l - run.at]
                ELSE Merged(word, mask, data, i - w)[l])
                 = IF l \in mask /\ l < i THEN data[l] ELSE word[l]
    <3>1. run.at = i - w /\ run.len = w /\ run.data = ShiftRight(data, i - w)
      BY DEF Run, Collecting
    <3>2. l \in Int /\ (l \in run.at .. run.at + run.len - 1 <=> i - w <= l /\ l < i)
      BY <1>1, <3>1 DEF Lane
    <3>3. CASE i - w <= l /\ l < i
      <4>1. l \in mask
        BY <1>1, <3>2, <3>3 DEF Collecting
      <4>2. l - (i - w) \in Lane /\ l - (i - w) + (i - w) = l
        BY <1>1, <3>2, <3>3 DEF Lane
      <4>3. ShiftRight(data, i - w)[l - (i - w)] = data[l]
        BY <4>2 DEF ShiftRight
      <4>. HIDE DEF run, w
      <4>. QED
        BY <3>1, <3>2, <3>3, <4>1, <4>3
    <3>4. CASE ~(i - w <= l /\ l < i)
      <4>1. Merged(word, mask, data, i - w)[l] = IF l \in mask /\ l < i THEN data[l] ELSE word[l]
        BY <1>1, <3>2, <3>4 DEF Merged
      <4>. HIDE DEF run, w
      <4>. QED
        BY <3>2, <3>4, <4>1
    <3>. QED
      BY <3>3, <3>4
  <2>. HIDE DEF run, w
  <2>. QED
    BY <2>1 DEF host_write, Merged
<1>. QED
  BY <1>2, <1>3, <1>4, <1>5

LEMMA LaneCollected ==
  ASSUME NEW word \in Data, NEW mask, NEW data \in Data, NEW i \in 1 .. LANES, NEW acc,
         Collecting(word, mask, data, acc, i - 1)
  PROVE  Collecting(word, mask, data, NextLane(mask, acc, i), i)
<1>. DEFINE w == acc.w_len
            next == NextLane(mask, acc, i)
<1>1. /\ w \in 0 .. i - 1 /\ i \in Nat /\ i <= LANES /\ LANES \in Nat
      /\ acc = [w_len |-> w, data |-> acc.data, runs |-> acc.runs]
      /\ acc.data = ShiftRight(data, i - 1 - w) /\ acc.runs \in Seq(RunSet)
      /\ WriteAll(word, acc.runs) = Merged(word, mask, data, i - 1 - w)
  BY LaneAssumption DEF Collecting
<1>2. CASE i - 1 \in mask
  <2>1. next = [w_len |-> w + 1, data |-> acc.data, runs |-> acc.runs]
    BY <1>1, <1>2 DEF NextLane
  <2>2. i - (w + 1) = i - 1 - w /\ w + 1 \in 0 .. i
    BY <1>1
  <2>3. \A l \in i - (w + 1) .. i - 1 : l \in mask
    BY <1>1, <1>2 DEF Collecting
  <2>. HIDE DEF next, w
  <2>. QED
    BY <1>1, <2>1, <2>2, <2>3 DEF Collecting, next
<1>3. CASE i - 1 \notin mask
  <2>1. Merged(word, mask, data, i - 1) = Merged(word, mask, data, i)
    <3>1. \A l \in Lane : (l \in mask /\ l < i - 1) <=> (l \in mask /\ l < i)
      BY <1>1, <1>3 DEF Lane
    <3>. QED
      BY <3>1 DEF Merged
  <2>2. CASE w = 0
    <3>1. next = [w_len |-> 0, data |-> ShiftRight(acc.data, 1), runs |-> acc.runs]
      BY <1>1, <1>3, <2>2 DEF NextLane, SkipLane
    <3>2. ShiftRight(acc.data, 1) = ShiftRight(data, i - 0)
      <4>1. i - 1 - w = i - 1 /\ i - 1 \in Nat /\ 1 \in Nat /\ i - 1 + 1 = i - 0
        BY <1>1, <2>2
      <4>2. acc.data = ShiftRight(data, i - 1)
        BY <1>1, <4>1
      <4>3. ShiftRight(ShiftRight(data, i - 1), 1) = ShiftRight(data, i - 1 + 1)
        BY <4>1, Shifts
      <4>. QED
        BY <4>1, <4>2, <4>3
    <3>3. WriteAll(word, acc.runs) = Merged(word, mask, data, i - 0)
      BY <1>1, <2>1, <2>2
    <3>. HIDE DEF next, w
    <3>. QED
      BY <1>1, <3>1, <3>2, <3>3 DEF Collecting, next
  <2>3. CASE w # 0
    <3>. DEFINE run == Run(i - 1 - w, w, acc.data)
    <3>1. next = [w_len |-> 0, data |-> ShiftRight(acc.data, w + 1), runs |-> Append(acc.runs, run)]
      BY <1>1, <1>3, <2>3 DEF NextLane, SkipLane
    <3>2. ShiftRight(acc.data, w + 1) = ShiftRight(data, i - 0)
      <4>1. i - 1 - w \in Nat /\ w + 1 \in Nat /\ i - 1 - w + (w + 1) = i - 0
        BY <1>1
      <4>. QED
        BY <1>1, <4>1, Shifts
    <3>3. i - 1 \in 0 .. LANES
      BY <1>1
    <3>4. /\ Append(acc.runs, run) \in Seq(RunSet)
          /\ WriteAll(word, Append(acc.runs, run)) = Merged(word, mask, data, i - 0)
      BY <1>1, <2>1, <2>3, <3>3, RunWritten
    <3>. HIDE DEF next, w, run
    <3>. QED
      BY <1>1, <3>1, <3>2, <3>4 DEF Collecting, next
  <2>. QED
    BY <2>2, <2>3
<1>. QED
  BY <1>2, <1>3

\* A masked write changes the bytes under the mask to those in the same lanes
\* of the data and no others, for every width of a word and every mask, in
\* however many runs it is carried out (pmem.cpp, mmio.cpp).
THEOREM RunsMerge ==
  ASSUME NEW word \in Data, NEW mask, NEW data \in Data
  PROVE  WriteAll(word, WriteRuns(mask, data))
           = [l \in Lane |-> IF l \in mask THEN data[l] ELSE word[l]]
<1>1. PICK f : /\ f[0] = [w_len |-> 0, data |-> data, runs |-> <<>>]
               /\ \A i \in 1 .. LANES : f[i] = NextLane(mask, f[i - 1], i)
               /\ WriteRuns(mask, data) =
                    IF f[LANES].w_len = 0 THEN f[LANES].runs
                    ELSE Append(f[LANES].runs,
                                Run(LANES - f[LANES].w_len, f[LANES].w_len, f[LANES].data))
  BY WriteRunsValue
<1>2. LANES \in Nat
  BY LaneAssumption
<1>3. Collecting(word, mask, data, f[0], 0)
  <2>1. Merged(word, mask, data, 0) = word
    BY LaneAssumption DEF Merged, Data, Lane
  <2>2. <<>> \in Seq(RunSet)
    OBVIOUS
  <2>. QED
    BY <1>1, <2>1, <2>2, Shifts, WriteNothing DEF Collecting
<1>. DEFINE T == {i \in 0 .. LANES : ~Collecting(word, mask, data, f[i], i)}
<1>4. T = {}
  <2>. SUFFICES ASSUME T # {} PROVE FALSE
    OBVIOUS
  <2>1. PICK i \in T : \A j \in T : ~(j < i)
    <3>1. T \subseteq Nat
      BY <1>2
    <3>. HIDE DEF T
    <3>. QED
      BY <3>1, LeastNumber
  <2>2. i \in 0 .. LANES /\ ~Collecting(word, mask, data, f[i], i) /\ i # 0
    BY <1>3, <2>1
  <2>3. i \in 1 .. LANES /\ i - 1 \in 0 .. LANES /\ i - 1 < i
    BY <1>2, <2>2
  <2>4. Collecting(word, mask, data, f[i - 1], i - 1)
    BY <2>1, <2>3
  <2>. QED
    BY <1>1, <2>2, <2>3, <2>4, LaneCollected
<1>5. LANES \in 0 .. LANES
  BY <1>2
<1>6. Collecting(word, mask, data, f[LANES], LANES)
  BY <1>4, <1>5
<1>7. Merged(word, mask, data, LANES) = [l \in Lane |-> IF l \in mask THEN data[l] ELSE word[l]]
  BY <1>2 DEF Merged, Lane
<1>8. CASE f[LANES].w_len = 0
  <2>1. WriteAll(word, f[LANES].runs) = Merged(word, mask, data, LANES - 0)
    BY <1>6, <1>8 DEF Collecting
  <2>2. LANES - 0 = LANES
    BY <1>2
  <2>. QED
    BY <1>1, <1>7, <1>8, <2>1, <2>2
<1>9. CASE f[LANES].w_len # 0
  BY <1>1, <1>5, <1>6, <1>7, <1>9, RunWritten
<1>. QED
  BY <1>8, <1>9
-----------------------------------------------------------------------------
(***************************************************************************)
(* The lanes of an access: one run of bytes, whatever its size.            *)
(***************************************************************************)

LEMMA SizeValue ==
  ASSUME NEW size \in Sizes, NEW l \in Nat
  PROVE  /\ size \in Nat /\ 0 < size /\ size <= LANES
         /\ l % size \in 0 .. size - 1
         /\ l \div size \in Nat
         /\ size * (l \div size) \in Nat
         /\ size * (l \div size) = l - (l % size)
<1>1. size \in {1, 2, 4, 8} /\ size <= LANES /\ LANES \in Nat
  BY LaneAssumption DEF Sizes
<1>2. CASE size = 1
  BY <1>1, <1>2
<1>3. CASE size = 2
  BY <1>1, <1>3
<1>4. CASE size = 4
  BY <1>1, <1>4
<1>5. CASE size = 8
  BY <1>1, <1>5
<1>. QED
  BY <1>1, <1>2, <1>3, <1>4, <1>5

LEMMA MaskValue ==
  ASSUME NEW size \in Sizes, NEW off \in Lane
  PROVE  LET first == size * (off \div size)
         IN /\ first \in Nat /\ first + size <= LANES
            /\ first = off - (off % size)
            /\ StoreMask(size, off) = first .. first + size - 1
            /\ \A l \in first .. first + size - 1 : l % size = l - first
<1>. DEFINE first == size * (off \div size)
<1>1. size \in {1, 2, 4, 8} /\ LANES % size = 0 /\ LANES \in Nat /\ off \in 0 .. LANES - 1
  BY LaneAssumption, DeviceAssumption DEF Sizes, Lane
<1>2. /\ first \in Nat /\ first + size <= LANES /\ first = off - (off % size)
      /\ \A l \in Nat : l \div size = off \div size <=> first <= l /\ l < first + size
      /\ \A l \in first .. first + size - 1 : l % size = l - first
  <2>1. CASE size = 1
    BY <1>1, <2>1
  <2>2. CASE size = 2
    BY <1>1, <2>2
  <2>3. CASE size = 4
    BY <1>1, <2>3
  <2>4. CASE size = 8
    BY <1>1, <2>4
  <2>. QED
    BY <1>1, <2>1, <2>2, <2>3, <2>4
<1>. HIDE DEF first
<1>3. size \in Nat /\ \A l : l \in first .. first + size - 1 <=> l \in Lane /\ first <= l /\ l < first + size
  BY <1>1, <1>2 DEF Lane
<1>4. \A l \in Lane : l \div size = off \div size <=> l \in first .. first + size - 1
  BY <1>1, <1>2, <1>3 DEF Lane
<1>5. StoreMask(size, off) = first .. first + size - 1
  BY <1>3, <1>4 DEF StoreMask
<1>. QED
  BY <1>2, <1>5 DEF first

\* The loop in front of, in and behind a run of lanes.
OneRunSoFar(acc, first, size, data, i) ==
  LET run == Run(first, size, ShiftRight(data, first))
  IN /\ acc = [w_len |-> acc.w_len, data |-> acc.data, runs |-> acc.runs]
     /\ i <= first => acc.w_len = 0 /\ acc.runs = <<>> /\ acc.data = ShiftRight(data, i)
     /\ first < i /\ i <= first + size =>
          acc.w_len = i - first /\ acc.runs = <<>> /\ acc.data = ShiftRight(data, first)
     /\ first + size < i => acc.w_len = 0 /\ acc.runs = <<run>>

LEMMA OneRunStep ==
  ASSUME NEW first \in Nat, NEW size \in Nat \ {0}, NEW data \in Data, NEW i \in 1 .. LANES,
         NEW acc, OneRunSoFar(acc, first, size, data, i - 1)
  PROVE  OneRunSoFar(NextLane(first .. first + size - 1, acc, i), first, size, data, i)
<1>. DEFINE next == NextLane(first .. first + size - 1, acc, i)
            run == Run(first, size, ShiftRight(data, first))
<1>1. i \in Nat /\ i - 1 \in Nat /\ i # 0
  BY LaneAssumption
<1>2. acc = [w_len |-> acc.w_len, data |-> acc.data, runs |-> acc.runs]
  BY DEF OneRunSoFar
<1>3. CASE i <= first
  <2>1. /\ acc.w_len = 0 /\ acc.runs = <<>> /\ acc.data = ShiftRight(data, i - 1)
        /\ i - 1 \notin first .. first + size - 1
    BY <1>1, <1>3 DEF OneRunSoFar
  <2>2. ShiftRight(acc.data, 1) = ShiftRight(data, i)
    <3>1. ShiftRight(ShiftRight(data, i - 1), 1) = ShiftRight(data, i - 1 + 1)
      BY <1>1, Shifts
    <3>2. i - 1 + 1 = i
      BY <1>1
    <3>. QED
      BY <2>1, <3>1, <3>2
  <2>3. next = [w_len |-> 0, data |-> ShiftRight(data, i), runs |-> <<>>]
    BY <1>2, <2>1, <2>2 DEF NextLane, SkipLane
  <2>. HIDE DEF next
  <2>. QED
    BY <1>1, <1>3, <2>3 DEF OneRunSoFar, next
<1>4. CASE first < i /\ i <= first + size
  <2>1. /\ acc.w_len = i - 1 - first /\ acc.runs = <<>> /\ acc.data = ShiftRight(data, first)
        /\ i - 1 \in first .. first + size - 1
    <3>1. CASE i - 1 = first
      BY <1>1, <1>4, <3>1 DEF OneRunSoFar
    <3>2. CASE i - 1 # first
      BY <1>1, <1>4, <3>2 DEF OneRunSoFar
    <3>. QED
      BY <3>1, <3>2
  <2>2. next = [w_len |-> i - 1 - first + 1, data |-> ShiftRight(data, first), runs |-> <<>>]
    BY <1>2, <2>1 DEF NextLane
  <2>3. i - 1 - first + 1 = i - first
    BY <1>1
  <2>. HIDE DEF next
  <2>. QED
    BY <1>1, <1>4, <2>2, <2>3 DEF OneRunSoFar, next
<1>5. CASE first + size < i
  <2>1. i - 1 \notin first .. first + size - 1
    BY <1>1, <1>5
  <2>2. next.w_len = 0 /\ next.runs = <<run>>
        /\ next = [w_len |-> next.w_len, data |-> next.data, runs |-> next.runs]
    <3>1. CASE i - 1 = first + size
      <4>1. /\ acc.w_len = size /\ acc.runs = <<>> /\ acc.data = ShiftRight(data, first)
            /\ i - 1 - size = first
        BY <1>1, <3>1 DEF OneRunSoFar
      <4>2. next = [w_len |-> 0, data |-> ShiftRight(acc.data, acc.w_len + 1),
                    runs |-> Append(acc.runs, Run(i - 1 - acc.w_len, acc.w_len, acc.data))]
        BY <2>1, <4>1 DEF NextLane, SkipLane
      <4>3. Append(acc.runs, Run(i - 1 - acc.w_len, acc.w_len, acc.data)) = <<run>>
        BY <4>1
      <4>. HIDE DEF next, run
      <4>. QED
        BY <4>2, <4>3
    <3>2. CASE i - 1 # first + size
      <4>1. acc.w_len = 0 /\ acc.runs = <<run>>
        BY <1>1, <1>5, <3>2 DEF OneRunSoFar
      <4>2. next = [w_len |-> 0, data |-> ShiftRight(acc.data, 1), runs |-> acc.runs]
        BY <1>2, <2>1, <4>1 DEF NextLane, SkipLane
      <4>. HIDE DEF next, run
      <4>. QED
        BY <4>1, <4>2
    <3>. QED
      BY <3>1, <3>2
  <2>. HIDE DEF next
  <2>. QED
    BY <1>1, <1>5, <2>2 DEF OneRunSoFar, next
<1>. QED
  BY <1>1, <1>3, <1>4, <1>5

\* A mask of neighbouring lanes is written in one run.
LEMMA OneRun ==
  ASSUME NEW first \in Nat, NEW size \in Nat \ {0}, first + size <= LANES, NEW data \in Data
  PROVE  WriteRuns(first .. first + size - 1, data)
           = <<Run(first, size, ShiftRight(data, first))>>
<1>. DEFINE mask == first .. first + size - 1
<1>1. PICK f : /\ f[0] = [w_len |-> 0, data |-> data, runs |-> <<>>]
               /\ \A i \in 1 .. LANES : f[i] = NextLane(mask, f[i - 1], i)
               /\ WriteRuns(mask, data) =
                    IF f[LANES].w_len = 0 THEN f[LANES].runs
                    ELSE Append(f[LANES].runs,
                                Run(LANES - f[LANES].w_len, f[LANES].w_len, f[LANES].data))
  BY WriteRunsValue
<1>2. LANES \in Nat
  BY LaneAssumption
<1>3. OneRunSoFar(f[0], first, size, data, 0)
  BY <1>1, Shifts DEF OneRunSoFar
<1>. DEFINE T == {i \in 0 .. LANES : ~OneRunSoFar(f[i], first, size, data, i)}
<1>4. T = {}
  <2>. SUFFICES ASSUME T # {} PROVE FALSE
    OBVIOUS
  <2>1. PICK i \in T : \A j \in T : ~(j < i)
    <3>1. T \subseteq Nat
      BY <1>2
    <3>. HIDE DEF T
    <3>. QED
      BY <3>1, LeastNumber
  <2>2. i \in 0 .. LANES /\ ~OneRunSoFar(f[i], first, size, data, i) /\ i # 0
    BY <1>3, <2>1
  <2>3. i \in 1 .. LANES /\ i - 1 \in 0 .. LANES /\ i - 1 < i
    BY <1>2, <2>2
  <2>4. OneRunSoFar(f[i - 1], first, size, data, i - 1)
    BY <2>1, <2>3
  <2>. QED
    BY <1>1, <2>2, <2>3, <2>4, OneRunStep
<1>5. OneRunSoFar(f[LANES], first, size, data, LANES)
  BY <1>2, <1>4
<1>. HIDE DEF mask
<1>6. CASE first + size = LANES
  <2>1. /\ f[LANES].w_len = size /\ f[LANES].runs = <<>> /\ LANES - size = first
        /\ f[LANES].data = ShiftRight(data, first) /\ size # 0
    BY <1>2, <1>5, <1>6 DEF OneRunSoFar
  <2>2. WriteRuns(mask, data) = Append(<<>>, Run(first, size, ShiftRight(data, first)))
    BY <1>1, <2>1
  <2>. QED
    BY <2>2 DEF mask
<1>7. CASE first + size < LANES
  <2>1. f[LANES].w_len = 0 /\ f[LANES].runs = <<Run(first, size, ShiftRight(data, first))>>
    BY <1>2, <1>5, <1>7 DEF OneRunSoFar
  <2>. QED
    BY <1>1, <2>1 DEF mask
<1>. QED
  BY <1>2, <1>6, <1>7
-----------------------------------------------------------------------------
(***************************************************************************)
(* Types, and what a load that is under way has read.                      *)
(***************************************************************************)

Merge(word, size, off, data) ==
  [l \in Lane |-> IF l \in StoreMask(size, off) THEN data[l % size] ELSE word[l]]

\* A store into a region, in all runs or in the first one.
LEMMA StoredWord ==
  ASSUME NEW word \in Data, NEW size \in Sizes, NEW off \in Lane, NEW data \in Data
  PROVE  LET runs == WriteRuns(StoreMask(size, off), StoreData(size, data))
         IN /\ WriteAll(word, runs) = Merge(word, size, off, data)
            /\ host_write(word, runs[1]) = Merge(word, size, off, data)
            /\ Merge(word, size, off, data) \in Data
            /\ runs[1].data[0] \in Byte
<1>. DEFINE first == size * (off \div size)
            stored == StoreData(size, data)
            run == Run(first, size, ShiftRight(stored, first))
<1>1. /\ first \in Nat /\ first + size <= LANES /\ size \in Nat \ {0}
      /\ StoreMask(size, off) = first .. first + size - 1
  <2>1. off \in Nat
    BY LaneAssumption DEF Lane
  <2>. QED
    BY <2>1, MaskValue, SizeValue
<1>2. \A l \in Lane : l % size \in Lane
  <2>1. ASSUME NEW l \in Lane PROVE l % size \in Lane
    <3>1. l \in Nat
      BY LaneAssumption DEF Lane
    <3>. QED
      BY <3>1, SizeValue, LaneAssumption DEF Lane
  <2>. QED
    BY <2>1
<1>3. stored \in Data
  BY <1>2 DEF StoreData, Data
<1>4. Merge(word, size, off, data) \in Data
  BY <1>2 DEF Merge, Data
<1>. HIDE DEF stored, first
<1>5. WriteRuns(StoreMask(size, off), stored) = <<run>>
  BY <1>1, <1>3, OneRun
<1>6. WriteAll(word, <<run>>) = Merge(word, size, off, data)
  <2>1. WriteAll(word, <<run>>) = [l \in Lane |-> IF l \in StoreMask(size, off) THEN stored[l] ELSE word[l]]
    BY <1>3, <1>5, RunsMerge
  <2>2. \A l \in Lane : stored[l] = data[l % size]
    BY DEF stored, StoreData
  <2>. QED
    BY <2>1, <2>2 DEF Merge
<1>7. run.data = ShiftRight(stored, first) /\ run.data \in Data /\ 0 \in Lane
  BY <1>1, <1>3, Shifts, LaneAssumption DEF Run, Lane
<1>8. host_write(word, run) = WriteAll(word, <<run>>)
  <2>. HIDE DEF run
  <2>1. <<>> \in Seq({run}) /\ run \in {run}
    OBVIOUS
  <2>2. Append(<<>>, run) = <<run>>
    OBVIOUS
  <2>3. WriteAll(word, Append(<<>>, run)) = host_write(WriteAll(word, <<>>), run)
    BY <2>1, WriteAllAppend
  <2>4. WriteAll(word, <<>>) = word
    BY WriteNothing
  <2>. QED
    BY <2>2, <2>3, <2>4
<1>9. run.data[0] \in Byte
  BY <1>7 DEF Data
<1>. HIDE DEF run
<1>10. <<run>>[1] = run
  OBVIOUS
<1>. QED
  BY <1>4, <1>5, <1>6, <1>8, <1>9, <1>10 DEF stored

\* Where memory and the frame buffer are.
LEMMA RegionValue ==
  ASSUME NEW addr \in Addr
  PROVE  /\ Region(addr) \in Device \cup {"pmem", "nothing"}
         /\ Region(addr) = "pmem" <=> addr \in 0 .. LANES - 1
         /\ Region(addr) = "vmem" <=> addr \in 5 * LANES .. 6 * LANES - 1
         /\ Offset(addr) \in Lane
         /\ Region(addr) = "pmem" => Offset(addr) = addr
         /\ Region(addr) = "vmem" => Offset(addr) = addr - 5 * LANES
<1>. USE LaneAssumption DEF Lane
<1>1. addr \in Nat /\ LANES \in Nat /\ LANES > 0
  BY DEF Addr, Nowhere
<1>2. Offset(addr) \in Lane
  BY <1>1 DEF Offset
<1>3. in_pmem(addr) <=> addr \in 0 .. LANES - 1
  BY <1>1 DEF in_pmem, MBASE
<1>4. DOMAIN maps = 1 .. 5
  BY DEF maps
<1>. DEFINE In(i) == addr \in maps[i].low .. maps[i].high
<1>5. /\ \A i \in 1 .. 5 : maps[i].name \in Device /\ maps[i].name \notin {"pmem", "nothing"}
      /\ \A i \in 1 .. 4 : maps[i].name # "vmem"
      /\ maps[5].name = "vmem"
  BY DEF maps, Device
<1>6. In(5) <=> addr \in 5 * LANES .. 6 * LANES - 1
  BY DEF maps
<1>7. \A i \in 1 .. 4 : In(i) => addr < 5 * LANES
  <2>1. LANES \div 2 \in Nat /\ LANES \div 2 <= LANES
    BY <1>1
  <2>. QED
    BY <1>1, <2>1 DEF maps
<1>8. \A i \in 1 .. 5 : In(i) => ~in_pmem(addr)
  BY <1>1, <1>3 DEF maps
<1>. HIDE DEF In
<1>9. CASE in_pmem(addr)
  <2>1. Region(addr) = "pmem"
    BY <1>9 DEF Region
  <2>2. Offset(addr) = addr
    BY <1>1, <1>3, <1>9 DEF Offset
  <2>. QED
    BY <1>1, <1>2, <1>3, <1>9, <2>1, <2>2
<1>10. CASE ~in_pmem(addr) /\ \E i \in 1 .. 5 : In(i)
  <2>. DEFINE j == CHOOSE i \in 1 .. 5 : In(i)
  <2>1. j \in 1 .. 5 /\ In(j)
    BY <1>10
  <2>2. Region(addr) = maps[j].name
    BY <1>4, <1>10 DEF Region, In
  <2>. HIDE DEF j
  <2>3. CASE j = 5
    <3>1. addr \in 5 * LANES .. 6 * LANES - 1
      BY <1>6, <2>1, <2>3
    <3>2. Offset(addr) = addr - 5 * LANES
      BY <1>1, <3>1 DEF Offset
    <3>. QED
      BY <1>2, <1>3, <1>5, <1>10, <2>2, <2>3, <3>1, <3>2
  <2>4. CASE j # 5
    <3>1. j \in 1 .. 4
      BY <2>1, <2>4
    <3>2. addr < 5 * LANES
      BY <1>7, <2>1, <3>1
    <3>. QED
      BY <1>1, <1>2, <1>3, <1>5, <1>10, <2>2, <3>1, <3>2
  <2>. QED
    BY <2>3, <2>4
<1>11. CASE ~in_pmem(addr) /\ ~\E i \in 1 .. 5 : In(i)
  <2>1. Region(addr) = "nothing"
    BY <1>4, <1>11 DEF Region, In
  <2>. QED
    BY <1>2, <1>3, <1>6, <1>11, <2>1
<1>. QED
  BY <1>9, <1>10, <1>11

\* The bytes of a number.
LEMMA BitsData ==
  ASSUME NEW number \in Nat
  PROVE  Bits(number) \in Data
<1>. DEFINE Rest(f, j) ==
       f = [l \in 0 .. j |-> IF l = 0 THEN number ELSE f[l - 1] \div BYTE]
<1>1. ASSUME NEW j \in Nat PROVE \E f : Rest(f, j)
  <2>. DEFINE T == {k \in Nat : ~\E f : Rest(f, k)}
  <2>. SUFFICES ASSUME T # {} PROVE FALSE
    OBVIOUS
  <2>1. PICK k \in T : \A i \in T : ~(i < k)
    <3>1. T \subseteq Nat
      OBVIOUS
    <3>. HIDE DEF T
    <3>. QED
      BY <3>1, LeastNumber
  <2>2. k \in Nat /\ ~\E f : Rest(f, k)
    BY <2>1
  <2>3. CASE k = 0
    <3>. DEFINE g == [l \in 0 .. 0 |-> number]
    <3>1. g = [l \in 0 .. 0 |-> IF l = 0 THEN number ELSE g[l - 1] \div BYTE]
      OBVIOUS
    <3>. HIDE DEF g
    <3>. QED
      BY <2>2, <2>3, <3>1
  <2>4. CASE k # 0
    <3>1. k - 1 \in Nat /\ k - 1 < k
      BY <2>2, <2>4
    <3>2. k - 1 \notin T
      BY <2>1, <3>1
    <3>3. PICK f : Rest(f, k - 1)
      BY <3>1, <3>2
    <3>. DEFINE g == [l \in 0 .. k |-> IF l = k THEN f[k - 1] \div BYTE ELSE f[l]]
    <3>4. \A l \in 0 .. k - 1 : f[l] = IF l = 0 THEN number ELSE f[l - 1] \div BYTE
      BY <3>3
    <3>5. \A l \in 0 .. k : g[l] = IF l = 0 THEN number ELSE g[l - 1] \div BYTE
      BY <2>2, <2>4, <3>4
    <3>6. Rest(g, k)
      BY <3>5
    <3>. QED
      BY <2>2, <3>6
  <2>. QED
    BY <2>3, <2>4
<1>. DEFINE rest == CHOOSE f : Rest(f, LANES - 1)
<1>2. LANES - 1 \in Nat /\ BYTE \in Nat \ {0}
  BY LaneAssumption
<1>3. Bits(number) = [l \in Lane |-> rest[l] % BYTE]
  BY DEF Bits, Lane
<1>4. Rest(rest, LANES - 1)
  BY <1>1, <1>2
<1>. HIDE DEF rest
<1>5. \A l \in Lane : rest[l] = IF l = 0 THEN number ELSE rest[l - 1] \div BYTE
  BY <1>4 DEF Lane
<1>. DEFINE U == {l \in Lane : rest[l] \notin Nat}
<1>6. U = {}
  <2>. SUFFICES ASSUME U # {} PROVE FALSE
    OBVIOUS
  <2>1. PICK l \in U : \A i \in U : ~(i < l)
    <3>1. U \subseteq Nat
      BY <1>2 DEF Lane
    <3>. HIDE DEF U
    <3>. QED
      BY <3>1, LeastNumber
  <2>2. l \in Lane /\ rest[l] \notin Nat /\ l # 0
    BY <1>5, <2>1
  <2>3. l - 1 \in Lane /\ l - 1 \notin U
    BY <1>2, <2>1, <2>2 DEF Lane
  <2>4. rest[l - 1] \in Nat /\ rest[l] = rest[l - 1] \div BYTE
    BY <1>5, <2>2, <2>3
  <2>. QED
    BY <1>2, <2>2, <2>4
<1>7. \A l \in Lane : rest[l] % BYTE \in Byte
  BY <1>2, <1>6 DEF Byte
<1>. QED
  BY <1>3, <1>7 DEF Data

RamWord(region) == IF region = "pmem" THEN pmem ELSE space.vmem

\* A load that is under way has its region's word, which nobody changes
\* meanwhile: a store waits for it, and the screen takes nothing from the
\* frame buffer.
LoadedWord ==
  /\ pending = NoLoad \/ pending \in [addr : Addr, size : Sizes, signed : BOOLEAN]
  /\ pending # NoLoad /\ Region(pending.addr) \in Ram =>
       r_araddr = pending.addr /\ r_rdata = RamWord(Region(pending.addr))

BytesInv == DevTypeOK /\ LoadedWord

LEMMA ReadsWord ==
  ASSUME DevTypeOK, TypeOK', NEW addr \in Addr, nmem_read(addr)
  PROVE  /\ space' \in [Device \ {"keyboard"} -> Data]
         /\ space'.vmem = space.vmem
         /\ r_rdata' \in Data \cup Keys \cup {KEY_NONE}
         /\ Region(addr) \in Ram => r_rdata' = RamWord(Region(addr))
<1>1. CASE Region(addr) = "pmem" /\ r_rdata' = pmem /\ UNCHANGED <<vars, space>>
  BY <1>1 DEF DevTypeOK, RamWord
<1>2. CASE Region(addr) = "keyboard" /\ i8042_read /\ r_rdata' = port' /\ UNCHANGED space
  BY <1>2 DEF DevTypeOK, TypeOK, Ram
<1>3. CASE /\ Region(addr) = "rtc" /\ space' = [space EXCEPT !.rtc = Bits(time)]
           /\ r_rdata' = space'.rtc
  <2>1. Bits(time) \in Data
    BY BitsData, DeviceAssumption DEF DevTypeOK
  <2>2. space'.rtc \in Data /\ space'.vmem = space.vmem /\ space' \in [Device \ {"keyboard"} -> Data]
    BY <1>3, <2>1 DEF DevTypeOK, Device
  <2>. QED
    BY <1>3, <2>2 DEF Ram
<1>4. CASE /\ Region(addr) \in {"serial", "vgactl", "vmem"}
           /\ r_rdata' = space[Region(addr)] /\ UNCHANGED <<vars, space>>
  BY <1>4 DEF DevTypeOK, RamWord, Ram, Device
<1>5. CASE Region(addr) = "nothing" /\ r_rdata' = ZeroData /\ UNCHANGED <<vars, space>>
  BY <1>5, LaneAssumption DEF DevTypeOK, Ram, ZeroData, Data, Byte
<1>. QED
  BY <1>1, <1>2, <1>3, <1>4, <1>5 DEF nmem_read

LEMMA StartLoadReads ==
  ASSUME BytesInv, TypeOK', StartLoad
  PROVE  BytesInv'
<1>1. PICK addr \in Addr, size \in Sizes, signed \in BOOLEAN :
        /\ r_araddr' = addr
        /\ pending' = [addr |-> addr, size |-> size, signed |-> signed]
        /\ nmem_read(addr)
  BY DEF StartLoad
<1>2. DevTypeOK /\ UNCHANGED <<pmem, time, out, running, aborted>> /\ lost' \in BOOLEAN
  BY DEF BytesInv, DevTypeOK, StartLoad, KeyOnWire
<1>3. /\ space' \in [Device \ {"keyboard"} -> Data]
      /\ space'.vmem = space.vmem
      /\ r_rdata' \in Data \cup Keys \cup {KEY_NONE}
      /\ Region(addr) \in Ram => r_rdata' = RamWord(Region(addr))
  BY <1>1, <1>2, ReadsWord
<1>4. DevTypeOK'
  BY <1>1, <1>2, <1>3 DEF DevTypeOK
<1>5. pending' \in [addr : Addr, size : Sizes, signed : BOOLEAN] /\ pending'.addr = addr
  BY <1>1
<1>6. RamWord(Region(addr))' = RamWord(Region(addr))
  BY <1>2, <1>3 DEF RamWord, Region, in_pmem
<1>. QED
  BY <1>1, <1>3, <1>4, <1>5, <1>6 DEF BytesInv, LoadedWord

LEMMA ReevaluateReads ==
  ASSUME BytesInv, TypeOK', Reevaluate
  PROVE  BytesInv'
<1>1. /\ DevTypeOK /\ LoadedWord /\ r_araddr \in Addr /\ nmem_read(r_araddr)
      /\ UNCHANGED <<pmem, time, out, running, aborted, r_araddr, pending>>
      /\ lost' \in BOOLEAN
  BY DEF BytesInv, DevTypeOK, Reevaluate, KeyOnWire
<1>2. /\ space' \in [Device \ {"keyboard"} -> Data]
      /\ space'.vmem = space.vmem
      /\ r_rdata' \in Data \cup Keys \cup {KEY_NONE}
      /\ Region(r_araddr) \in Ram => r_rdata' = RamWord(Region(r_araddr))
  BY <1>1, ReadsWord
<1>3. DevTypeOK'
  BY <1>1, <1>2 DEF DevTypeOK
<1>4. \A region : RamWord(region)' = RamWord(region)
  BY <1>1, <1>2 DEF RamWord
<1>. QED
  BY <1>1, <1>2, <1>3, <1>4 DEF BytesInv, LoadedWord

LEMMA StoreWritesTypes ==
  ASSUME BytesInv, TypeOK', Store
  PROVE  BytesInv'
<1>1. PICK addr \in Addr, size \in Sizes, data \in Stored :
        nmem_write(addr, StoreMask(size, Offset(addr)), StoreData(size, data))
  BY DEF Store
<1>2. /\ DevTypeOK /\ pending = NoLoad
      /\ UNCHANGED <<time, running, r_araddr, pending, r_rdata, lost>>
  BY DEF BytesInv, Store
<1>. DEFINE region == Region(addr)
            runs == WriteRuns(StoreMask(size, Offset(addr)), StoreData(size, data))
<1>3. data \in Data /\ Offset(addr) \in Lane /\ aborted \in BOOLEAN /\ out \in Byte
  BY <1>2, DeviceAssumption, RegionValue DEF DevTypeOK
<1>4. /\ \A word \in Data : WriteAll(word, runs) \in Data /\ host_write(word, runs[1]) \in Data
      /\ runs[1].data[0] \in Byte
  BY <1>3, StoredWord, LaneAssumption
<1>5. /\ pmem' \in Data
      /\ space' \in [Device \ {"keyboard"} -> Data]
      /\ out' \in Byte /\ aborted' \in BOOLEAN
  <2>. HIDE DEF region, runs
  <2>1. CASE region = "pmem" /\ pmem' = WriteAll(pmem, runs) /\ UNCHANGED <<space, out, aborted>>
    BY <1>2, <1>3, <1>4, <2>1 DEF DevTypeOK
  <2>2. CASE /\ region \in Device
             /\ space' = IF region = "keyboard" THEN space
                         ELSE [space EXCEPT ![region] = host_write(@, runs[1])]
             /\ WriteCallback(region, runs[1])
             /\ UNCHANGED pmem
    <3>1. pmem' \in Data
      BY <1>2, <2>2 DEF DevTypeOK
    <3>2. space' \in [Device \ {"keyboard"} -> Data]
      BY <1>2, <1>4, <2>2 DEF DevTypeOK
    <3>3. out' \in Byte /\ aborted' \in BOOLEAN
      BY <1>3, <1>4, <2>2 DEF WriteCallback, serial_io_handler
    <3>. QED
      BY <3>1, <3>2, <3>3
  <2>3. CASE region = "nothing" /\ UNCHANGED <<pmem, space, out, aborted>>
    BY <1>2, <1>3, <2>3 DEF DevTypeOK
  <2>. QED
    BY <1>1, <2>1, <2>2, <2>3 DEF nmem_write, region, runs
<1>6. DevTypeOK'
  BY <1>2, <1>5 DEF DevTypeOK
<1>. QED
  BY <1>2, <1>6 DEF BytesInv, LoadedWord

LEMMA ScreenKeepsFrames ==
  ASSUME DevTypeOK, vga_update_screen
  PROVE  space' \in [Device \ {"keyboard"} -> Data] /\ space'.vmem = space.vmem
<1>1. [l \in Lane |-> IF l >= LANES \div 2 THEN 0 ELSE space.vgactl[l]] \in Data
  BY LaneAssumption DEF DevTypeOK, Device, Data, Byte
<1>. QED
  BY <1>1 DEF DevTypeOK, Device, vga_update_screen

\* In every state the devices and memory hold words, and a load under way has
\* the word of its region.
LEMMA BytesInvariant == DevSpec => []BytesInv
<1>1. ASSUME DevInit PROVE BytesInv
  <2>1. ZeroData \in Data /\ 0 \in Byte /\ Nowhere \in Addr
    BY LaneAssumption DEF ZeroData, Data, Byte, Nowhere, Addr
  <2>2. TypeOK
    <3>1. 0 \in Place
      BY KeyAssumption DEF Place
    <3>. QED
      BY <1>1, <3>1 DEF DevInit, Init, TypeOK
  <2>3. time \in 0 .. MaxTime
    BY <1>1, DeviceAssumption DEF DevInit
  <2>. QED
    BY <1>1, <2>1, <2>2, <2>3 DEF DevInit, BytesInv, DevTypeOK, LoadedWord
<1>2. ASSUME BytesInv, TypeOK', [DevNext]_allVars PROVE BytesInv'
  <2>1. CASE StartLoad
    BY <1>2, <2>1, StartLoadReads
  <2>2. CASE Reevaluate
    BY <1>2, <2>2, ReevaluateReads
  <2>3. CASE FinishLoad
    <3>1. DevTypeOK /\ LoadedWord /\ pending # NoLoad /\ pending' = NoLoad /\ Nowhere \in Addr
      BY <1>2, <2>3, LaneAssumption DEF BytesInv, FinishLoad, Nowhere, Addr
    <3>2. r_araddr' \in Addr /\ r_rdata' = KEY_NONE
      BY <2>3, <3>1 DEF FinishLoad, DevTypeOK
    <3>3. UNCHANGED <<vars, pmem, space, time, out, running, aborted, lost>>
      BY <2>3 DEF FinishLoad
    <3>4. DevTypeOK'
      BY <1>2, <3>1, <3>2, <3>3 DEF DevTypeOK
    <3>. QED
      BY <3>1, <3>4 DEF BytesInv, LoadedWord
  <2>4. CASE Store
    BY <1>2, <2>4, StoreWritesTypes
  <2>5. CASE Tick
    <3>1. UNCHANGED <<pmem, space, out, running, aborted, r_araddr, pending, r_rdata, lost>>
      BY <2>5 DEF Tick
    <3>2. time' \in 0 .. MaxTime
      BY <1>2, <2>5, DeviceAssumption DEF Tick, BytesInv, DevTypeOK
    <3>3. DevTypeOK' /\ LoadedWord
      BY <1>2, <3>1, <3>2 DEF BytesInv, DevTypeOK
    <3>. QED
      BY <3>1, <3>3 DEF BytesInv, LoadedWord, RamWord
  <2>6. CASE device_update
    <3>1. /\ UNCHANGED <<pmem, time, out, aborted, r_araddr, pending, r_rdata, lost>>
          /\ running' \in BOOLEAN
      BY <1>2, <2>6 DEF device_update, BytesInv, DevTypeOK
    <3>2. space' \in [Device \ {"keyboard"} -> Data] /\ space'.vmem = space.vmem
      BY <1>2, <2>6, ScreenKeepsFrames DEF device_update, BytesInv
    <3>3. DevTypeOK' /\ LoadedWord
      BY <1>2, <3>1, <3>2 DEF BytesInv, DevTypeOK
    <3>4. \A region : RamWord(region)' = RamWord(region)
      BY <3>1, <3>2 DEF RamWord
    <3>. QED
      BY <3>1, <3>3, <3>4 DEF BytesInv, LoadedWord
  <2>7. CASE UNCHANGED allVars
    <3>1. /\ UNCHANGED <<pmem, space, time, out, running, aborted>>
          /\ UNCHANGED <<r_araddr, pending, r_rdata, lost>>
      BY <2>7 DEF allVars, devVars
    <3>2. DevTypeOK' /\ LoadedWord
      BY <1>2, <3>1 DEF BytesInv, DevTypeOK
    <3>. QED
      BY <3>1, <3>2 DEF BytesInv, LoadedWord, RamWord
  <2>. QED
    BY <1>2, <2>1, <2>2, <2>3, <2>4, <2>5, <2>6, <2>7 DEF DevNext
<1>. QED
  BY <1>1, <1>2, DrivesTheRing, TypeCorrect, PTL DEF DevSpec

\* Memory, the registers of the devices, the keyboard's ring and the wires of
\* an access keep their types (pmem.cpp, mmio.cpp, io.cpp).
THEOREM DevTypeCorrect == DevSpec => []DevTypeOK
<1>1. BytesInv => DevTypeOK
  BY DEF BytesInv
<1>. QED
  BY <1>1, BytesInvariant, PTL
-----------------------------------------------------------------------------
(***************************************************************************)
(* Memory and frame buffer are an array of bytes.                          *)
(***************************************************************************)

RamBytes ==
  [addr \in RamAddr |->
     IF Region(addr) = "pmem" THEN pmem[Offset(addr)] ELSE space.vmem[Offset(addr)]]

\* The bytes of an access, by their addresses and by their lanes.
LEMMA AccessPlace ==
  ASSUME NEW addr \in RamAddr, NEW size \in Sizes
  PROVE  LET at == addr - (addr % size)
             first == size * (Offset(addr) \div size)
         IN /\ \A i \in RamAddr :
                 /\ i - at \in 0 .. size - 1
                      <=> Region(i) = Region(addr) /\ Offset(i) \in first .. first + size - 1
                 /\ i - at \in 0 .. size - 1 => i - at = Offset(i) % size
            /\ \A l \in 0 .. size - 1 :
                 at + l \in RamAddr /\ Region(at + l) = Region(addr) /\ Offset(at + l) = first + l
<1>. DEFINE at == addr - (addr % size)
            first == size * (Offset(addr) \div size)
            off == Offset(addr)
            base == IF Region(addr) = "pmem" THEN 0 ELSE 5 * LANES
<1>1. addr \in Addr /\ Region(addr) \in Ram /\ addr \in Nat /\ LANES \in Nat /\ LANES > 0
  BY LaneAssumption DEF RamAddr, Addr, Nowhere
<1>2. off \in Lane /\ off \in Nat /\ addr = base + off /\ base \in Nat
  BY <1>1, RegionValue, LaneAssumption DEF Ram, Lane
<1>3. /\ first \in Nat /\ first + size <= LANES /\ first = off - (off % size)
      /\ \A l \in first .. first + size - 1 : l % size = l - first
      /\ size \in Nat /\ size > 0
  BY <1>2, MaskValue, SizeValue
<1>4. addr % size = off % size
  <2>1. size \in {1, 2, 4, 8} /\ LANES % size = 0
    BY DeviceAssumption DEF Sizes
  <2>2. CASE base = 0
    BY <1>2, <2>2
  <2>3. CASE base = 5 * LANES
    <3>1. addr = 5 * LANES + off /\ addr \in Nat
      BY <1>1, <1>2, <2>3
    <3>. HIDE DEF base, off
    <3>2. CASE size = 1
      BY <1>1, <1>2, <2>1, <3>1, <3>2
    <3>3. CASE size = 2
      BY <1>1, <1>2, <2>1, <3>1, <3>3
    <3>4. CASE size = 4
      BY <1>1, <1>2, <2>1, <3>1, <3>4
    <3>5. CASE size = 8
      BY <1>1, <1>2, <2>1, <3>1, <3>5
    <3>. QED
      BY <2>1, <3>2, <3>3, <3>4, <3>5
  <2>. QED
    BY <2>2, <2>3
<1>5. at = base + first /\ at \in Nat
  <2>1. off % size = off - first
    BY <1>2, <1>3
  <2>. HIDE DEF base, first, off
  <2>. QED
    BY <1>1, <1>2, <1>3, <1>4, <2>1
<1>. HIDE DEF at, first, off
<1>6. ASSUME NEW i \in RamAddr
      PROVE  /\ i - at \in 0 .. size - 1
                  <=> Region(i) = Region(addr) /\ Offset(i) \in first .. first + size - 1
             /\ i - at \in 0 .. size - 1 => i - at = Offset(i) % size
  <2>1. i \in Nat /\ i \in Addr /\ Region(i) \in Ram /\ Offset(i) \in Nat /\ Offset(i) < LANES
    BY <1>1, RegionValue DEF RamAddr, Addr, Nowhere, Lane
  <2>2. /\ Region(i) = "pmem" => i < LANES /\ Offset(i) = i
        /\ Region(i) = "vmem" => 5 * LANES <= i /\ i < 6 * LANES /\ Offset(i) = i - 5 * LANES
    BY <1>1, <2>1, RegionValue
  <2>3. CASE Region(i) = Region(addr)
    <3>1. i = base + Offset(i)
      BY <1>1, <2>1, <2>2, <2>3 DEF Ram
    <3>2. i - at = Offset(i) - first
      BY <1>2, <1>3, <1>5, <2>1, <3>1
    <3>. HIDE DEF base
    <3>. QED
      BY <1>3, <2>1, <2>3, <3>2
  <2>4. CASE Region(i) # Region(addr)
    <3>1. i < at \/ at + size <= i
      BY <1>1, <1>3, <1>5, <2>1, <2>2, <2>4 DEF Ram
    <3>. HIDE DEF base
    <3>. QED
      BY <1>3, <1>5, <2>1, <2>4, <3>1
  <2>. QED
    BY <2>3, <2>4
<1>7. ASSUME NEW l \in 0 .. size - 1
      PROVE  at + l \in RamAddr /\ Region(at + l) = Region(addr) /\ Offset(at + l) = first + l
  <2>. PICK k, f : k = at + l /\ f = first + l
    OBVIOUS
  <2>1. k = base + f /\ f \in Nat /\ f < LANES /\ k \in Nat
    BY <1>1, <1>2, <1>3, <1>5
  <2>2. k \in Addr
    BY <1>1, <2>1 DEF Addr, Nowhere
  <2>3. Region(k) = Region(addr) /\ Offset(k) = f
    <3>1. CASE Region(addr) = "pmem"
      <4>1. k = f /\ k \in 0 .. LANES - 1
        BY <1>1, <2>1, <3>1
      <4>. QED
        BY <2>2, <3>1, <4>1, RegionValue
    <3>2. CASE Region(addr) # "pmem"
      <4>1. Region(addr) = "vmem" /\ k = 5 * LANES + f
        BY <1>1, <2>1, <3>2 DEF Ram
      <4>2. k \in 5 * LANES .. 6 * LANES - 1 /\ k - 5 * LANES = f
        BY <1>1, <2>1, <4>1
      <4>. QED
        BY <2>2, <4>1, <4>2, RegionValue
    <3>. QED
      BY <3>1, <3>2
  <2>. QED
    BY <1>1, <2>2, <2>3 DEF RamAddr
<1>. QED
  BY <1>6, <1>7 DEF at, first, off

\* A store that is finished.
LEMMA StoreIsOfBytes ==
  ASSUME BytesInv, Store
  PROVE  Memory!Store \/ UNCHANGED Memory!vars
<1>1. PICK addr \in Addr, size \in Sizes, data \in Stored :
        /\ nmem_write(addr, StoreMask(size, Offset(addr)), StoreData(size, data))
        /\ access' = IF Region(addr) \in Ram
                     THEN [op |-> "store", addr |-> addr, size |-> size, data |-> data]
                     ELSE access
  BY DEF Store
<1>. DEFINE region == Region(addr)
            off == Offset(addr)
            runs == WriteRuns(StoreMask(size, off), StoreData(size, data))
<1>2. data \in Data /\ off \in Lane /\ DevTypeOK
  BY DeviceAssumption, RegionValue DEF BytesInv
<1>3. /\ \A word \in Data : /\ WriteAll(word, runs) = Merge(word, size, off, data)
                            /\ host_write(word, runs[1]) = Merge(word, size, off, data)
  BY <1>2, StoredWord
<1>. HIDE DEF region, off, runs
<1>4. CASE region \notin Ram
  <2>1. UNCHANGED <<pmem, access>> /\ space'.vmem = space.vmem
    BY <1>1, <1>2, <1>4 DEF nmem_write, Ram, Device, DevTypeOK, region, runs, off
  <2>. QED
    BY <2>1 DEF Memory!vars, RamAddr, Region, in_pmem, Offset
<1>5. CASE region \in Ram
  <2>1. /\ pmem' = IF region = "pmem" THEN Merge(pmem, size, off, data) ELSE pmem
        /\ space'.vmem = IF region = "vmem" THEN Merge(space.vmem, size, off, data)
                         ELSE space.vmem
    <3>1. CASE region = "pmem"
      BY <1>1, <1>2, <1>3, <3>1 DEF nmem_write, Device, DevTypeOK, region, runs, off
    <3>2. CASE region = "vmem"
      BY <1>1, <1>2, <1>3, <3>2 DEF nmem_write, Device, DevTypeOK, region, runs, off
    <3>. QED
      BY <1>5, <3>1, <3>2 DEF Ram
  <2>2. access' = [op |-> "store", addr |-> addr, size |-> size, data |-> data]
    BY <1>1, <1>5 DEF region
  <2>3. addr \in RamAddr
    BY <1>5 DEF RamAddr, region
  <2>. DEFINE first == size * (off \div size)
              at == addr - (addr % size)
  <2>4. /\ \A i \in RamAddr :
             /\ i - at \in 0 .. size - 1
                  <=> Region(i) = region /\ Offset(i) \in first .. first + size - 1
             /\ i - at \in 0 .. size - 1 => i - at = Offset(i) % size
        /\ StoreMask(size, off) = first .. first + size - 1
    BY <1>2, <2>3, AccessPlace, MaskValue DEF region, off
  <2>. HIDE DEF first, at
  <2>5. ASSUME NEW i \in RamAddr
        PROVE  (IF Region(i) = "pmem" THEN pmem'[Offset(i)] ELSE space'.vmem[Offset(i)])
                 = IF i - at \in 0 .. size - 1 THEN data[i - at] ELSE RamBytes[i]
    <3>1. Offset(i) \in Lane /\ Region(i) \in Ram
      BY RegionValue DEF RamAddr
    <3>2. \A word : Merge(word, size, off, data)[Offset(i)]
                      = IF Offset(i) \in first .. first + size - 1
                        THEN data[Offset(i) % size] ELSE word[Offset(i)]
      BY <2>4, <3>1 DEF Merge
    <3>3. RamBytes[i] = IF Region(i) = "pmem" THEN pmem[Offset(i)] ELSE space.vmem[Offset(i)]
      BY DEF RamBytes
    <3>4. CASE Region(i) = region
      BY <1>5, <2>1, <2>4, <3>1, <3>2, <3>3, <3>4 DEF Ram
    <3>5. CASE Region(i) # region
      BY <1>5, <2>1, <2>4, <3>1, <3>3, <3>5 DEF Ram
    <3>. QED
      BY <3>4, <3>5
  <2>6. Memory!First(access') = at /\ access'.op = "store" /\ access'.data = data
        /\ access'.size = size
    BY <2>2 DEF Memory!First, at
  <2>. QED
    BY <2>5, <2>6 DEF Memory!Store, Memory!Covers, RamBytes, RamAddr, Region, in_pmem, Offset
<1>. QED
  BY <1>4, <1>5

\* A load that is finished: it has its bytes of the word as the word is now.
LEMMA LoadIsOfBytes ==
  ASSUME BytesInv, FinishLoad
  PROVE  Memory!Load \/ UNCHANGED Memory!vars
<1>1. /\ DevTypeOK /\ LoadedWord /\ UNCHANGED <<pmem, space>>
      /\ pending \in [addr : Addr, size : Sizes, signed : BOOLEAN]
  BY DEF BytesInv, LoadedWord, FinishLoad
<1>. DEFINE addr == pending.addr
            size == pending.size
            off == Offset(addr)
            word == RamWord(Region(addr))
<1>2. addr \in Addr /\ size \in Sizes /\ pending.signed \in BOOLEAN
  BY <1>1
<1>3. UNCHANGED RamBytes
  BY <1>1 DEF RamBytes, RamAddr, Region, in_pmem, Offset
<1>4. CASE Region(addr) \notin Ram
  <2>1. UNCHANGED access
    BY <1>4 DEF FinishLoad
  <2>. QED
    BY <1>3, <2>1 DEF Memory!vars, RamBytes
<1>5. CASE Region(addr) \in Ram
  <2>. HIDE DEF addr, size, off, word
  <2>1. addr \in RamAddr
    BY <1>2, <1>5 DEF RamAddr
  <2>2. access' = [op |-> "load", addr |-> addr, size |-> size, signed |-> pending.signed,
                   data |-> LoadData(size, pending.signed, off, word)]
    BY <1>1, <1>5 DEF FinishLoad, LoadedWord, addr, size, off, word
  <2>. DEFINE first == size * (off \div size)
              at == addr - (addr % size)
  <2>3. \A l \in 0 .. size - 1 :
          at + l \in RamAddr /\ Region(at + l) = Region(addr) /\ Offset(at + l) = first + l
    BY <1>2, <2>1, AccessPlace DEF off
  <2>4. first \in Nat /\ size \in Nat /\ size > 0 /\ at \in Int
    <3>1. off \in Lane /\ off \in Nat /\ addr \in Nat
      BY <1>2, RegionValue, LaneAssumption DEF Lane, off, Addr, Nowhere
    <3>. QED
      BY <1>2, <3>1, SizeValue
  <2>. HIDE DEF first, at
  <2>5. \A l \in 0 .. size - 1 : RamBytes[at + l] = word[first + l]
    <3>1. \A l \in 0 .. size - 1 :
            RamBytes[at + l] = IF Region(addr) = "pmem" THEN pmem[first + l] ELSE space.vmem[first + l]
      BY <2>3 DEF RamBytes
    <3>. QED
      BY <3>1 DEF word, RamWord
  <2>6. size - 1 \in 0 .. size - 1 /\ at + size - 1 = at + (size - 1)
        /\ first + size - 1 = first + (size - 1)
    BY <2>4
  <2>7. RamBytes[at + size - 1] = word[first + size - 1]
    BY <2>5, <2>6
  <2>8. LoadData(size, pending.signed, off, word)
          = [l \in 0 .. LANES - 1 |->
               IF l < size THEN RamBytes[at + l]
               ELSE IF pending.signed /\ 2 * RamBytes[at + size - 1] >= BYTE THEN BYTE - 1 ELSE 0]
    <3>1. \A l \in Lane : l < size => l \in 0 .. size - 1
      BY <2>4, LaneAssumption DEF Lane
    <3>. QED
      BY <2>5, <2>7, <3>1 DEF LoadData, Extension, first, Lane
  <2>9. /\ Memory!First(access') = at /\ access'.op = "load" /\ access'.size = size
        /\ access'.signed = pending.signed
        /\ access'.data = LoadData(size, pending.signed, off, word)
    BY <2>2 DEF Memory!First, at
  <2>. QED
    BY <1>3, <2>8, <2>9 DEF Memory!Load, Memory!SignBit, RamBytes
<1>. QED
  BY <1>4, <1>5

\* The other steps leave the bytes and the last access alone.
LEMMA OthersKeepBytes ==
  ASSUME BytesInv, TypeOK', StartLoad \/ Reevaluate \/ Tick \/ device_update \/ UNCHANGED allVars
  PROVE  UNCHANGED Memory!vars
<1>1. UNCHANGED <<pmem, access>>
  BY DEF StartLoad, Reevaluate, Tick, device_update, allVars, devVars
<1>2. space'.vmem = space.vmem
  <2>1. CASE StartLoad
    BY <2>1, ReadsWord DEF StartLoad, BytesInv
  <2>2. CASE Reevaluate
    BY <2>2, ReadsWord DEF Reevaluate, BytesInv, DevTypeOK
  <2>3. CASE device_update
    BY <2>3, ScreenKeepsFrames DEF device_update, BytesInv
  <2>4. CASE Tick \/ UNCHANGED allVars
    BY <2>4 DEF Tick, allVars, devVars
  <2>. QED
    BY <2>1, <2>2, <2>3, <2>4
<1>. QED
  BY <1>1, <1>2 DEF Memory!vars, RamAddr, Region, in_pmem, Offset

\* Through the lanes of LSHandler, the mask, its runs and the choice of the
\* region, loads and stores of every size are those of an array of bytes
\* (LSHandler.scala, pmem.cpp, mmio.cpp): of every width of a word, every
\* address of memory and of the frame buffer and all data, and whatever the
\* screen, the clock and repeated reads do in between.
THEOREM MemoryIsBytes == DevSpec => ImplementsBytes
<1>1. ASSUME DevInit, BytesInv PROVE Memory!Init
  <2>1. ASSUME NEW i \in RamAddr
        PROVE  (IF Region(i) = "pmem" THEN pmem[Offset(i)] ELSE space.vmem[Offset(i)]) \in 0 .. BYTE - 1
    <3>1. Offset(i) \in Lane
      BY RegionValue DEF RamAddr
    <3>. QED
      BY <1>1, <3>1 DEF BytesInv, DevTypeOK, Data, Byte, Device
  <2>. QED
    BY <1>1, <2>1 DEF Memory!Init, DevInit
<1>2. ASSUME BytesInv, TypeOK', [DevNext]_allVars
      PROVE  [Memory!Store \/ Memory!Load]_(Memory!vars)
  <2>1. CASE Store
    BY <1>2, <2>1, StoreIsOfBytes
  <2>2. CASE FinishLoad
    BY <1>2, <2>2, LoadIsOfBytes
  <2>3. CASE StartLoad \/ Reevaluate \/ Tick \/ device_update \/ UNCHANGED allVars
    BY <1>2, <2>3, OthersKeepBytes
  <2>. QED
    BY <1>2, <2>1, <2>2, <2>3 DEF DevNext
<1>. QED
  BY <1>1, <1>2, BytesInvariant, DrivesTheRing, TypeCorrect, PTL
    DEF DevSpec, ImplementsBytes, Memory!Spec
==============================================================================
