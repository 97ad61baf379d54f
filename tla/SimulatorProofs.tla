-------------------------- MODULE SimulatorProofs --------------------------
(***************************************************************************)
(* TLAPS proofs about WatchpointPool and Simulator, for pools of every     *)
(* size and programs of every length.                                      *)
(*                                                                         *)
(* The two lists of the pool never lose, share or circle through a         *)
(* watchpoint, and together they implement the set of watchpoints that the *)
(* user sees.  Partition says so by walking the links and is not           *)
(* inductive.  PoolInv gives every watchpoint its distance from the end of *)
(* its list instead; every step changes these distances in one place, and  *)
(* the walk is recovered from them by an induction on its length           *)
(* (OnListIs).                                                             *)
(*                                                                         *)
(* In the simulator, no change of a watched expression is missed, and what *)
(* is reported of the end of a program is true as long as nobody watches   *)
(* an expression.  (A watchpoint may hide the end, see the run sim_ended.) *)
(***************************************************************************)
EXTENDS Simulator, WellFoundedInduction, TLAPS

\* The links from first on go through the m watchpoints of S, one nearer to
\* the end of the list each time.
IsList(links, first, S, dist, m) ==
  /\ \A x \in S :
       /\ dist[x] < m
       /\ dist[x] = 0 => links[x] = NULL
       /\ dist[x] # 0 => links[x] \in S /\ dist[links[x]] = dist[x] - 1
  /\ \A x, y \in S : dist[x] = dist[y] => x = y
  /\ m = 0 => first = NULL
  /\ m # 0 => first \in S /\ dist[first] = m - 1

\* The watchpoints of S are set, with a text that can be evaluated.
Lists(S, dist, m) ==
  /\ IsList(next, head, S, dist, m)
  /\ IsList(next, free_, No \ S, dist, NR_WP - m)
  /\ \A x \in S : str[x] \in Exprs

PoolInv ==
  /\ PoolTypeOK
  /\ \E S \in SUBSET No, dist \in [No -> Nat], m \in 0 .. NR_WP : Lists(S, dist, m)
-----------------------------------------------------------------------------
(***************************************************************************)
(* The walk along a list.                                                  *)
(***************************************************************************)

\* Every set of natural numbers has a least one: what the inductions below
\* rest on.
LEMMA LeastNumber ==
  ASSUME NEW T, T \subseteq Nat, T # {}
  PROVE  \E x \in T : \A y \in T : ~(y < x)
<1>1. \E x \in T : \A y \in T : ~(<<y, x>> \in OpToRel(<, Nat))
  BY NatLessThanWellFounded, WFMin
<1>. QED
  BY <1>1 DEF OpToRel

\* One step along the links.
LinkOf(x) == IF x = NULL THEN NULL ELSE next[x]

\* The walk is defined for every length of the pool.
LEMMA LinkAfterStep ==
  ASSUME PoolTypeOK, NEW first \in Link
  PROVE  /\ LinkAfter(first)[0] = first
         /\ \A k \in 1 .. NR_WP : LinkAfter(first)[k] = LinkOf(LinkAfter(first)[k - 1])
<1>. DEFINE Walks(f, j) == f[0] = first /\ \A k \in 1 .. j : f[k] = LinkOf(f[k - 1])
            HasWalk(j) == \E f \in [0 .. j -> Link] : Walks(f, j)
            T == {j \in 0 .. NR_WP : ~HasWalk(j)}
<1>1. T = {}
  <2>. SUFFICES ASSUME T # {} PROVE FALSE
    OBVIOUS
  <2>1. PICK j \in T : \A i \in T : ~(i < j)
    <3>1. T \subseteq Nat
      BY PoolAssumption
    <3>. HIDE DEF T
    <3>. QED
      BY <3>1, LeastNumber
  <2>2. j \in 0 .. NR_WP /\ ~HasWalk(j) /\ NR_WP \in Nat
    BY <2>1, PoolAssumption
  <2>3. CASE j = 0
    <3>. DEFINE g == [k \in 0 .. 0 |-> first]
    <3>1. g \in [0 .. 0 -> Link] /\ g[0] = first /\ 1 .. 0 = {}
      OBVIOUS
    <3>. QED
      BY <2>2, <2>3, <3>1
  <2>4. CASE j # 0
    <3>1. HasWalk(j - 1)
      <4>1. j - 1 \in 0 .. NR_WP /\ j - 1 < j
        BY <2>2, <2>4
      <4>2. j - 1 \notin T
        BY <2>1, <4>1
      <4>. QED
        BY <4>1, <4>2
    <3>2. PICK f \in [0 .. j - 1 -> Link] : Walks(f, j - 1)
      BY <3>1
    <3>. DEFINE g == [k \in 0 .. j |-> IF k = j THEN LinkOf(f[j - 1]) ELSE f[k]]
    <3>3. LinkOf(f[j - 1]) \in Link
      BY <2>2, <2>4 DEF LinkOf, PoolTypeOK, Link
    <3>4. g \in [0 .. j -> Link]
      BY <2>2, <2>4, <3>3
    <3>5. Walks(g, j)
      BY <2>2, <2>4, <3>2
    <3>. QED
      BY <2>2, <3>4, <3>5
  <2>. QED
    BY <2>3, <2>4
<1>2. PICK f \in [0 .. NR_WP -> Link] : Walks(f, NR_WP)
  BY <1>1, PoolAssumption
<1>. DEFINE Walk(walk) == [k \in 0 .. NR_WP |->
                           IF k = 0 THEN first
                           ELSE IF walk[k - 1] = NULL THEN NULL ELSE next[walk[k - 1]]]
<1>3. f = Walk(f)
  BY <1>2, PoolAssumption DEF LinkOf
<1>4. LinkAfter(first) = CHOOSE walk : walk = Walk(walk)
  BY DEF LinkAfter
<1>. HIDE DEF Walk
<1>5. LinkAfter(first) = Walk(LinkAfter(first))
  BY <1>3, <1>4
<1>. DEFINE walk == LinkAfter(first)
<1>. HIDE DEF walk
<1>6. walk = [k \in 0 .. NR_WP |->
              IF k = 0 THEN first ELSE IF walk[k - 1] = NULL THEN NULL ELSE next[walk[k - 1]]]
  BY <1>5 DEF Walk, walk
<1>7. 0 \in 0 .. NR_WP /\ \A k \in 1 .. NR_WP : k \in 0 .. NR_WP /\ k # 0
  BY PoolAssumption
<1>8. walk[0] = first /\ \A k \in 1 .. NR_WP : walk[k] = LinkOf(walk[k - 1])
  BY <1>6, <1>7 DEF LinkOf
<1>. QED
  BY <1>8 DEF walk

\* A list meets its watchpoints, each of them, and then ends.
LEMMA OnListIs ==
  ASSUME PoolTypeOK, NEW first \in Link, NEW S \in SUBSET No, NEW dist \in [No -> Nat],
         NEW m \in 0 .. NR_WP, IsList(next, first, S, dist, m)
  PROVE  LinkAfter(first)[NR_WP] = NULL /\ OnList(first) = S
<1>. DEFINE At(k) == LinkAfter(first)[k]
            Found(k) == IF k < m THEN At(k) \in S /\ dist[At(k)] = m - 1 - k ELSE At(k) = NULL
            T == {k \in 0 .. NR_WP : ~Found(k)}
<1>1. NR_WP \in Nat /\ m \in Nat /\ m <= NR_WP
  BY PoolAssumption
<1>2. At(0) = first /\ \A k \in 1 .. NR_WP : At(k) = LinkOf(At(k - 1))
  BY LinkAfterStep
<1>. HIDE DEF At
<1>3. T = {}
  <2>. SUFFICES ASSUME T # {} PROVE FALSE
    OBVIOUS
  <2>1. PICK k \in T : \A i \in T : ~(i < k)
    <3>1. T \subseteq Nat
      BY <1>1
    <3>. HIDE DEF T
    <3>. QED
      BY <3>1, LeastNumber
  <2>2. k \in 0 .. NR_WP /\ ~Found(k)
    BY <2>1
  <2>3. CASE k = 0
    BY <1>1, <1>2, <2>2, <2>3 DEF IsList
  <2>4. CASE k # 0
    <3>1. Found(k - 1) /\ At(k) = LinkOf(At(k - 1))
      BY <1>1, <1>2, <2>1, <2>2, <2>4
    <3>2. NULL \notin S
      BY DEF No, NULL
    <3>3. CASE k <= m
      <4>1. At(k - 1) \in S /\ dist[At(k - 1)] = m - k /\ At(k) = next[At(k - 1)]
        BY <1>1, <2>2, <2>4, <3>1, <3>2, <3>3 DEF LinkOf
      <4>. HIDE DEF Found
      <4>2. k = m => At(k) = NULL
        BY <1>1, <4>1 DEF IsList
      <4>3. k < m => At(k) \in S /\ dist[At(k)] = m - 1 - k
        BY <1>1, <2>2, <3>3, <4>1 DEF IsList
      <4>. QED
        BY <1>1, <2>2, <3>3, <4>2, <4>3 DEF Found
    <3>4. CASE k > m
      BY <1>1, <2>2, <2>4, <3>1, <3>4 DEF LinkOf
    <3>. QED
      BY <1>1, <2>2, <3>3, <3>4
  <2>. QED
    BY <2>3, <2>4
<1>4. \A k \in 0 .. NR_WP : Found(k)
  BY <1>3
<1>5. At(NR_WP) = NULL
  BY <1>1, <1>4
<1>6. \A k \in 0 .. NR_WP : At(k) # NULL => At(k) \in S
  BY <1>4
<1>7. ASSUME NEW x \in S PROVE \E k \in 0 .. NR_WP : At(k) = x
  <2>1. dist[x] \in Nat /\ dist[x] < m
    BY <1>7 DEF IsList
  <2>2. m - 1 - dist[x] \in 0 .. NR_WP /\ m - 1 - dist[x] < m
    BY <1>1, <2>1
  <2>3. At(m - 1 - dist[x]) \in S /\ dist[At(m - 1 - dist[x])] = dist[x]
    BY <1>1, <1>4, <2>1, <2>2
  <2>. QED
    BY <2>2, <2>3 DEF IsList
<1>8. NULL \notin S
  BY DEF No, NULL
<1>. QED
  BY <1>5, <1>6, <1>7, <1>8 DEF OnList, At

\* What the distances say of the two lists.
Located ==
  \A S \in SUBSET No, dist \in [No -> Nat], m \in 0 .. NR_WP :
    Lists(S, dist, m) => OnList(head) = S /\ OnList(free_) = No \ S /\ Partition

LEMMA ListsMean == PoolTypeOK => Located
<1>. SUFFICES ASSUME PoolTypeOK, NEW S \in SUBSET No, NEW dist \in [No -> Nat],
                     NEW m \in 0 .. NR_WP, Lists(S, dist, m)
              PROVE  OnList(head) = S /\ OnList(free_) = No \ S /\ Partition
  BY DEF Located
<1>1. head \in Link /\ free_ \in Link
  BY DEF PoolTypeOK
<1>2. LinkAfter(head)[NR_WP] = NULL /\ OnList(head) = S
  BY <1>1, OnListIs DEF Lists
<1>3. NR_WP - m \in 0 .. NR_WP /\ No \ S \in SUBSET No
  BY PoolAssumption
<1>4. LinkAfter(free_)[NR_WP] = NULL /\ OnList(free_) = No \ S
  BY <1>1, <1>3, OnListIs DEF Lists
<1>. QED
  BY <1>2, <1>4 DEF Partition

LEMMA ListsMeanNext ==
  ASSUME PoolTypeOK', NEW S \in SUBSET No, NEW dist \in [No -> Nat], NEW m \in 0 .. NR_WP,
         Lists(S, dist, m)'
  PROVE  OnList(head)' = S
<1>1. Located'
  BY ListsMean, PTL
<1>. QED
  BY <1>1 DEF Located

LEMMA PoolInit ==
  ASSUME init_wp_pool
  PROVE  PoolInv /\ OnList(head) = {}
<1>. USE PoolAssumption
<1>1. PoolTypeOK
  BY DEF init_wp_pool, PoolTypeOK, No, Link, NULL
<1>. DEFINE dist == [x \in No |-> NR_WP - 1 - x]
<1>2. dist \in [No -> Nat] /\ {} \in SUBSET No /\ 0 \in 0 .. NR_WP
  BY DEF No
<1>3. IsList(next, head, {}, dist, 0)
  BY DEF IsList, init_wp_pool
<1>4. IsList(next, free_, No \ {}, dist, NR_WP - 0)
  <2>1. /\ \A x \in No : x \in 0 .. NR_WP - 1 /\ dist[x] = NR_WP - 1 - x
        /\ free_ = 0 /\ 0 \in No
        /\ \A x \in No : x = NR_WP - 1 => next[x] = NULL
        /\ \A x \in No : x # NR_WP - 1 => x + 1 \in No /\ next[x] = x + 1
    BY DEF init_wp_pool, No
  <2>2. \A x, y \in No : dist[x] = dist[y] => x = y
    BY <2>1
  <2>3. ASSUME NEW x \in No, dist[x] # 0
        PROVE  next[x] \in No /\ dist[next[x]] = dist[x] - 1
    <3>1. x # NR_WP - 1 /\ x \in Int
      BY <2>1, <2>3
    <3>2. next[x] = x + 1 /\ x + 1 \in No
      BY <2>1, <3>1
    <3>3. dist[x] = NR_WP - 1 - x /\ dist[x + 1] = NR_WP - 1 - (x + 1)
      BY <3>2
    <3>. HIDE DEF dist
    <3>. QED
      BY <3>1, <3>2, <3>3
  <2>4. ASSUME NEW x \in No PROVE dist[x] < NR_WP /\ (dist[x] = 0 => next[x] = NULL)
    <3>1. x \in Nat /\ dist[x] = NR_WP - 1 - x /\ (x = NR_WP - 1 => next[x] = NULL)
      BY <2>1
    <3>. HIDE DEF dist
    <3>. QED
      BY <3>1
  <2>5. No \ {} = No /\ NR_WP - 0 = NR_WP /\ NR_WP # 0 /\ dist[0] = NR_WP - 1
    BY <2>1
  <2>. HIDE DEF dist
  <2>6. IsList(next, free_, No, dist, NR_WP)
    BY <2>1, <2>2, <2>3, <2>4, <2>5 DEF IsList
  <2>. QED
    BY <2>5, <2>6
<1>5. Lists({}, dist, 0)
  BY <1>3, <1>4 DEF Lists
<1>. QED
  BY <1>1, <1>2, <1>5, ListsMean DEF PoolInv, Located
-----------------------------------------------------------------------------
(***************************************************************************)
(* The operations.                                                         *)
(***************************************************************************)

\* A watchpoint is put in front of a list.
LEMMA Pushed ==
  ASSUME NEW links \in [No -> Link], NEW first, NEW S \in SUBSET No, NEW dist \in [No -> Nat],
         NEW m \in Nat, IsList(links, first, S, dist, m), NEW x \in No \ S
  PROVE  IsList([links EXCEPT ![x] = first], x, S \cup {x}, [dist EXCEPT ![x] = m], m + 1)
<1>. DEFINE l == [links EXCEPT ![x] = first]
            d == [dist EXCEPT ![x] = m]
<1>1. l[x] = first /\ d[x] = m
  OBVIOUS
<1>2. \A y \in S : l[y] = links[y] /\ d[y] = dist[y] /\ d[y] \in Nat
  OBVIOUS
<1>. HIDE DEF l, d
<1>. QED
  BY <1>1, <1>2 DEF IsList, l, d

\* The first watchpoint of a list is taken off it.
LEMMA Popped ==
  ASSUME NEW links \in [No -> Link], NEW first \in No, NEW S \in SUBSET No,
         NEW dist \in [No -> Nat], NEW m \in Nat, IsList(links, first, S, dist, m)
  PROVE  /\ m - 1 \in Nat /\ first \in S
         /\ IsList(links, links[first], S \ {first}, dist, m - 1)
<1>1. m # 0 /\ first \in S /\ dist[first] = m - 1
  BY DEF IsList, No, NULL
<1>2. \A y \in S \ {first} : dist[y] < m - 1
  BY <1>1 DEF IsList
<1>. QED
  BY <1>1, <1>2 DEF IsList

\* A list that another one's changes leave alone.
LEMMA Framed ==
  ASSUME NEW links, NEW links2, NEW first, NEW S, NEW dist, NEW dist2, NEW m,
         IsList(links, first, S, dist, m),
         \A y \in S : links2[y] = links[y] /\ dist2[y] = dist[y]
  PROVE  IsList(links2, first, S, dist2, m)
<1>1. m # 0 => first \in S
  BY DEF IsList
<1>. QED
  BY <1>1 DEF IsList

\* The links as the program changes them, for both lists at once: x leaves the
\* front of one list for the front of another.
LEMMA Moved ==
  ASSUME NEW links \in [No -> Link], NEW S \in SUBSET No, NEW dist \in [No -> Nat],
         NEW m \in Nat, NEW k \in Nat, NEW x \in No, NEW first,
         IsList(links, x, No \ S, dist, k), IsList(links, first, S, dist, m)
  PROVE  /\ x \in No \ S /\ k - 1 \in Nat
         /\ IsList([links EXCEPT ![x] = first], x, S \cup {x}, [dist EXCEPT ![x] = m], m + 1)
         /\ IsList([links EXCEPT ![x] = first], links[x], (No \ S) \ {x},
                   [dist EXCEPT ![x] = m], k - 1)
<1>1. /\ k - 1 \in Nat /\ x \in No \ S
      /\ IsList(links, links[x], (No \ S) \ {x}, dist, k - 1)
  BY Popped
<1>2. IsList([links EXCEPT ![x] = first], x, S \cup {x}, [dist EXCEPT ![x] = m], m + 1)
  BY <1>1, Pushed
<1>. DEFINE l == [links EXCEPT ![x] = first]
            d == [dist EXCEPT ![x] = m]
<1>3. \A y \in (No \ S) \ {x} : l[y] = links[y] /\ d[y] = dist[y]
  OBVIOUS
<1>. HIDE DEF l, d
<1>4. IsList(l, links[x], (No \ S) \ {x}, d, k - 1)
  BY <1>1, <1>3, Framed
<1>. QED
  BY <1>1, <1>2, <1>4 DEF l, d

\* A watchpoint moves from the front of the free ones to the front of those set.
LEMMA NewStep ==
  ASSUME PoolInv, NEW now \in [Exprs -> Vals], NEW e \in Exprs, new_wp(e, now)
  PROVE  /\ PoolInv'
         /\ free_ \in No \ OnList(head)
         /\ OnList(head)' = OnList(head) \cup {free_}
<1>1. PICK S \in SUBSET No, dist \in [No -> Nat], m \in 0 .. NR_WP : Lists(S, dist, m)
  BY DEF PoolInv
<1>2. NR_WP \in Nat /\ m \in Nat /\ NR_WP - m \in Nat /\ PoolTypeOK
  BY PoolAssumption DEF PoolInv
<1>3. OnList(head) = S
  BY <1>1, <1>2, ListsMean DEF Located
<1>4. /\ next' = [next EXCEPT ![free_] = head] /\ head' = free_ /\ free_' = next[free_]
      /\ str' = [str EXCEPT ![free_] = e] /\ val' = [val EXCEPT ![free_] = now[e]]
      /\ next \in [No -> Link] /\ str \in [No -> Exprs \cup {NoExpr}] /\ head \in Link
      /\ free_ \in No
  BY <1>2 DEF new_wp, PoolTypeOK, Exhausted, Link
<1>5. PoolTypeOK'
  <2>1. now[e] \in Vals /\ next[free_] \in Link
    BY <1>4
  <2>. QED
    BY <1>2, <1>4, <2>1 DEF PoolTypeOK, Link
<1>. PICK T : T = S \cup {free_}
  OBVIOUS
<1>. PICK d : d = [dist EXCEPT ![free_] = m]
  OBVIOUS
<1>6. /\ free_ \in No \ S /\ NR_WP - m - 1 \in Nat
      /\ IsList(next', head', T, d, m + 1)
      /\ IsList(next', free_', (No \ S) \ {free_}, d, NR_WP - m - 1)
  BY <1>1, <1>2, <1>4, Moved, ZenonT(60) DEF Lists
<1>7. T \in SUBSET No /\ d \in [No -> Nat] /\ m + 1 \in 0 .. NR_WP
      /\ No \ T = (No \ S) \ {free_} /\ NR_WP - (m + 1) = NR_WP - m - 1
  BY <1>2, <1>6
<1>8. \A x \in T : str'[x] \in Exprs
  BY <1>1, <1>4 DEF Lists
<1>9. Lists(T, d, m + 1)'
  BY <1>6, <1>7, <1>8 DEF Lists
<1>10. OnList(head)' = T
  BY <1>5, <1>7, <1>9, ListsMeanNext
<1>. QED
  BY <1>3, <1>5, <1>6, <1>7, <1>9, <1>10 DEF PoolInv

\* The lists do not change.
LEMMA LinksStay ==
  ASSUME PoolInv, UNCHANGED <<str, next, head, free_>>, val' \in [No -> Vals]
  PROVE  PoolInv' /\ OnList(head)' = OnList(head)
<1>1. PoolTypeOK'
  BY DEF PoolInv, PoolTypeOK
<1>2. PICK S \in SUBSET No, dist \in [No -> Nat], m \in 0 .. NR_WP : Lists(S, dist, m)
  BY DEF PoolInv
<1>3. Lists(S, dist, m)'
  BY <1>2 DEF Lists
<1>4. OnList(head) = S /\ OnList(head)' = S
  BY <1>1, <1>2, <1>3, ListsMean, ListsMeanNext DEF PoolInv, Located
<1>. QED
  BY <1>1, <1>3, <1>4 DEF PoolInv

\* A watchpoint behind another one is taken out: the ones in front of it are
\* one step nearer to the end.
Nearer(S, dist, x) == [y \in No |-> IF y \in S /\ dist[y] > dist[x] THEN dist[y] - 1 ELSE dist[y]]

LEMMA Unlinked ==
  ASSUME NEW links \in [No -> Link], NEW first, NEW S \in SUBSET No, NEW dist \in [No -> Nat],
         NEW m \in Nat, IsList(links, first, S, dist, m),
         NEW prev \in S, NEW x \in No, links[prev] = x
  PROVE  /\ x \in S /\ m - 1 \in Nat
         /\ Nearer(S, dist, x) \in [No -> Nat]
         /\ IsList([links EXCEPT ![prev] = links[x]], first, S \ {x}, Nearer(S, dist, x), m - 1)
<1>1. x \in S /\ dist[x] = dist[prev] - 1 /\ dist[prev] < m /\ dist[prev] # 0
  BY DEF IsList, No, NULL
<1>. DEFINE l == [links EXCEPT ![prev] = links[x]]
<1>. PICK d : d = Nearer(S, dist, x)
  OBVIOUS
<1>2. /\ d \in [No -> Nat]
      /\ \A y \in S : d[y] = IF dist[y] > dist[x] THEN dist[y] - 1 ELSE dist[y]
  BY <1>1 DEF Nearer
<1>3. \A y \in S : l[y] = IF y = prev THEN links[x] ELSE links[y]
  BY <1>1
<1>4. \A y \in S : dist[y] \in Nat
  OBVIOUS
<1>. HIDE DEF l
<1>5. \A y \in S \ {x} : d[y] < m - 1
  BY <1>1, <1>2, <1>4 DEF IsList
<1>6. ASSUME NEW y \in S \ {x}
      PROVE  /\ d[y] = 0 => l[y] = NULL
             /\ d[y] # 0 => l[y] \in S \ {x} /\ d[l[y]] = d[y] - 1
  <2>1. CASE y = prev
    <3>1. d[y] = dist[x] /\ l[y] = links[x]
      BY <1>1, <1>2, <1>3, <1>4, <2>1
    <3>2. dist[x] = 0 => links[x] = NULL
      BY <1>1 DEF IsList
    <3>3. dist[x] # 0 => links[x] \in S /\ dist[links[x]] = dist[x] - 1
      BY <1>1 DEF IsList
    <3>4. dist[x] # 0 => links[x] \in S \ {x} /\ d[links[x]] = dist[x] - 1
      BY <1>1, <1>2, <1>4, <3>3
    <3>. QED
      BY <3>1, <3>2, <3>4
  <2>2. CASE y # prev
    <3>1. l[y] = links[y] /\ dist[y] # dist[x] /\ dist[y] # dist[x] + 1
      BY <1>1, <1>3, <1>4, <2>2 DEF IsList
    <3>2. dist[y] = 0 => links[y] = NULL
      BY DEF IsList
    <3>3. dist[y] # 0 => links[y] \in S /\ dist[links[y]] = dist[y] - 1
      BY DEF IsList
    <3>4. CASE dist[y] > dist[x]
      <4>1. d[y] = dist[y] - 1 /\ dist[y] > dist[x] + 1 /\ links[y] \in S /\ links[y] # x
        BY <1>1, <1>2, <1>4, <3>1, <3>3, <3>4
      <4>2. d[links[y]] = dist[y] - 2
        BY <1>1, <1>2, <1>4, <3>3, <4>1
      <4>. QED
        BY <1>1, <1>4, <3>1, <4>1, <4>2
    <3>5. CASE dist[y] < dist[x]
      <4>1. d[y] = dist[y]
        BY <1>1, <1>2, <1>4, <3>5
      <4>2. dist[y] # 0 => links[y] # x /\ d[links[y]] = dist[y] - 1
        BY <1>1, <1>2, <1>4, <3>3, <3>5
      <4>. QED
        BY <3>1, <3>2, <3>3, <4>1, <4>2
    <3>. QED
      BY <1>1, <1>4, <3>1, <3>4, <3>5
  <2>. QED
    BY <2>1, <2>2
<1>7. \A y, z \in S \ {x} : d[y] = d[z] => y = z
  <2>1. \A y \in S \ {x} : dist[y] # dist[x]
    BY <1>1 DEF IsList
  <2>. QED
    BY <1>1, <1>2, <1>4, <2>1 DEF IsList
<1>8. /\ m - 1 = 0 => first = NULL
      /\ m - 1 # 0 => first \in S \ {x} /\ d[first] = m - 1 - 1
  <2>1. m # 0 /\ first \in S /\ dist[first] = m - 1
    BY <1>1, <1>4 DEF IsList
  <2>2. dist[prev] <= dist[first] /\ dist[first] > dist[x]
    BY <1>1, <1>4, <2>1
  <2>. QED
    BY <1>1, <1>2, <1>4, <2>1, <2>2
<1>9. m - 1 \in Nat
  BY <1>1, <1>4
<1>. QED
  BY <1>1, <1>2, <1>5, <1>6, <1>7, <1>8, <1>9 DEF IsList, l

\* A watchpoint that is set moves to the front of the free ones, from wherever
\* it stands in its list.
LEMMA FreeStep ==
  ASSUME PoolInv, NEW no \in No, free_wp(no)
  PROVE  PoolInv' /\ OnList(head)' = OnList(head) \ {no} /\ UNCHANGED <<str, val>>
<1>1. PICK S \in SUBSET No, dist \in [No -> Nat], m \in 0 .. NR_WP : Lists(S, dist, m)
  BY DEF PoolInv
<1>2. NR_WP \in Nat /\ m \in Nat /\ NR_WP - m \in Nat /\ PoolTypeOK
  BY PoolAssumption DEF PoolInv
<1>3. OnList(head) = S
  BY <1>1, <1>2, ListsMean DEF Located
<1>4. next \in [No -> Link] /\ head \in Link /\ free_ \in Link /\ next[no] \in Link
  BY <1>2 DEF PoolTypeOK
<1>5. ASSUME no \in S, PoolTypeOK', UNCHANGED <<str, val>>, NEW d \in [No -> Nat], m - 1 \in Nat,
             IsList(next', head', S \ {no}, d, m - 1),
             IsList(next', free_', (No \ S) \cup {no}, d, NR_WP - m + 1)
      PROVE  PoolInv' /\ OnList(head)' = OnList(head) \ {no}
  <2>1. /\ S \ {no} \in SUBSET No /\ m - 1 \in 0 .. NR_WP
        /\ No \ (S \ {no}) = (No \ S) \cup {no} /\ NR_WP - (m - 1) = NR_WP - m + 1
    BY <1>2, <1>5
  <2>2. \A x \in S \ {no} : str'[x] \in Exprs
    BY <1>1, <1>5 DEF Lists
  <2>3. Lists(S \ {no}, d, m - 1)'
    BY <1>5, <2>1, <2>2 DEF Lists
  <2>4. OnList(head)' = S \ {no}
    BY <1>5, <2>1, <2>3, ListsMeanNext
  <2>. QED
    BY <1>3, <1>5, <2>1, <2>3, <2>4 DEF PoolInv
<1>6. CASE free_head(no)
  <2>1. /\ head = no /\ head' = next[no] /\ next' = [next EXCEPT ![no] = free_]
        /\ free_' = no /\ UNCHANGED <<str, val>>
    BY <1>6 DEF free_head
  <2>2. PoolTypeOK'
    BY <1>2, <1>4, <2>1 DEF PoolTypeOK, Link
  <2>. PICK d : d = [dist EXCEPT ![no] = NR_WP - m]
    OBVIOUS
  <2>. PICK F \in SUBSET No : F = No \ S
    OBVIOUS
  <2>3. /\ No \ F = S
        /\ IsList(next, no, No \ F, dist, m) /\ IsList(next, free_, F, dist, NR_WP - m)
    BY <1>1, <2>1 DEF Lists
  <2>4. /\ no \in S /\ m - 1 \in Nat
        /\ IsList(next', no, F \cup {no}, d, NR_WP - m + 1)
        /\ IsList(next', next[no], (No \ F) \ {no}, d, m - 1)
    BY <1>2, <1>4, <2>1, <2>3, Moved
  <2>5. d \in [No -> Nat]
    BY <1>2
  <2>. QED
    BY <1>5, <2>1, <2>2, <2>3, <2>4, <2>5
<1>7. CASE free_behind(no)
  <2>1. PICK prev \in S :
          /\ next[prev] = no
          /\ next' = [next EXCEPT ![prev] = next[no], ![no] = free_]
          /\ free_' = no /\ UNCHANGED <<str, val, head>>
    BY <1>3, <1>7 DEF free_behind
  <2>. PICK l : l = [next EXCEPT ![prev] = next[no]]
    OBVIOUS
  <2>. PICK d0 : d0 = Nearer(S, dist, no)
    OBVIOUS
  <2>2. /\ no \in S /\ m - 1 \in Nat /\ d0 \in [No -> Nat]
        /\ IsList(l, head, S \ {no}, d0, m - 1)
    BY <1>1, <1>2, <1>4, <2>1, Unlinked DEF Lists
  <2>3. l \in [No -> Link] /\ next' = [l EXCEPT ![no] = free_]
    BY <1>4, <2>1
  <2>4. \A y \in No \ S : l[y] = next[y] /\ d0[y] = dist[y]
    BY <1>4 DEF Nearer
  <2>5. IsList(l, free_, No \ S, d0, NR_WP - m)
    <3>1. IsList(next, free_, No \ S, dist, NR_WP - m)
      BY <1>1 DEF Lists
    <3>. QED
      BY ONLY <2>4, <3>1, Framed
  <2>. PICK d : d = [d0 EXCEPT ![no] = NR_WP - m]
    OBVIOUS
  <2>6. d \in [No -> Nat] /\ No \ S \in SUBSET No /\ no \in No \ (No \ S)
    BY <1>2, <2>2
  <2>7. IsList(next', no, (No \ S) \cup {no}, d, NR_WP - m + 1)
    BY <1>2, <2>2, <2>3, <2>5, <2>6, Pushed
  <2>8. \A y \in S \ {no} : next'[y] = l[y] /\ d[y] = d0[y]
    BY <2>2, <2>3
  <2>9. IsList(next', head, S \ {no}, d, m - 1)
    BY ONLY <2>2, <2>8, Framed
  <2>10. PoolTypeOK'
    BY <1>2, <1>4, <2>1, <2>3 DEF PoolTypeOK, Link
  <2>. QED
    BY <1>5, <2>1, <2>2, <2>6, <2>7, <2>9, <2>10
<1>8. CASE free_unset(no)
  <2>1. UNCHANGED <<str, next, head, free_>> /\ val' \in [No -> Vals] /\ UNCHANGED val /\ no \notin S
    BY <1>2, <1>3, <1>8 DEF free_unset, poolVars, PoolTypeOK
  <2>. QED
    BY <1>3, <2>1, LinksStay
<1>9. UNCHANGED <<str, val>>
  BY DEF free_wp, free_head, free_behind, free_unset, poolVars
<1>. QED
  BY <1>6, <1>7, <1>8, <1>9 DEF free_wp

\* The text of a watchpoint that cannot be evaluated: only the value of one
\* that is free is reset.
LEMMA InvalidStep ==
  ASSUME PoolInv, new_wp_invalid
  PROVE  /\ PoolInv' /\ OnList(head)' = OnList(head)
         /\ \A no \in OnList(head) : val'[no] = val[no] /\ str'[no] = str[no]
<1>1. PICK S \in SUBSET No, dist \in [No -> Nat], m \in 0 .. NR_WP : Lists(S, dist, m)
  BY DEF PoolInv
<1>2. OnList(head) = S
  BY <1>1, ListsMean DEF Located, PoolInv
<1>3. free_ \in No \ S
  BY <1>1 DEF Lists, IsList, new_wp_invalid, Exhausted
<1>4. val' \in [No -> Vals]
  BY PoolAssumption DEF PoolInv, PoolTypeOK, new_wp_invalid
<1>5. UNCHANGED <<str, next, head, free_>> /\ \A no \in S : val'[no] = val[no]
  BY <1>3 DEF PoolInv, PoolTypeOK, new_wp_invalid
<1>. QED
  BY <1>2, <1>4, <1>5, LinksStay

\* Every watchpoint that is set holds the present value of its expression.
LEMMA CheckStep ==
  ASSUME PoolInv, NEW now \in [Exprs -> Vals], check_watchpoints(now)
  PROVE  /\ PoolInv' /\ OnList(head)' = OnList(head) /\ UNCHANGED str
         /\ \A no \in OnList(head) : str[no] \in Exprs /\ val'[no] = now[str[no]]
<1>1. PICK S \in SUBSET No, dist \in [No -> Nat], m \in 0 .. NR_WP : Lists(S, dist, m)
  BY DEF PoolInv
<1>2. OnList(head) = S
  BY <1>1, ListsMean DEF Located, PoolInv
<1>3. \A no \in S : str[no] \in Exprs /\ no \in No
  BY <1>1 DEF Lists
<1>4. /\ val \in [No -> Vals] /\ UNCHANGED <<str, next, head, free_>>
      /\ val' = [no \in No |-> IF no \in S /\ now[str[no]] # val[no] THEN now[str[no]] ELSE val[no]]
  BY <1>2 DEF PoolInv, PoolTypeOK, check_watchpoints, Changed
<1>5. val' \in [No -> Vals]
  BY <1>3, <1>4
<1>6. \A no \in S : val'[no] = now[str[no]]
  BY <1>3, <1>4
<1>. QED
  BY <1>2, <1>3, <1>4, <1>5, <1>6, LinksStay
-----------------------------------------------------------------------------
(***************************************************************************)
(* What the pool is to its user.                                           *)
(***************************************************************************)

\* Every operation keeps the lists, and is a step of the set of watchpoints or
\* changes nothing that the user sees.
LEMMA PoolStep ==
  ASSUME PoolInv, [Next]_poolVars
  PROVE  PoolInv' /\ [Set!Next]_(Set!vars)
<1>. DEFINE Seen == OnList(head)
<1>. PICK S : S = OnList(head)
  OBVIOUS
<1>1. \A no \in S : str[no] \in Exprs /\ no \in No
  <2>1. PICK T \in SUBSET No, dist \in [No -> Nat], m \in 0 .. NR_WP : Lists(T, dist, m)
    BY DEF PoolInv
  <2>2. S = T
    BY <2>1, ListsMean DEF Located, PoolInv
  <2>. QED
    BY <2>1, <2>2 DEF Lists
<1>2. CASE UNCHANGED poolVars
  <2>1. PoolInv' /\ OnList(head)' = OnList(head)
    BY <1>2, LinksStay DEF poolVars, PoolInv, PoolTypeOK
  <2>. QED
    BY <1>2, <2>1 DEF Set!vars, poolVars
<1>3. ASSUME NEW now \in [Exprs -> Vals], NEW e \in Exprs, new_wp(e, now)
      PROVE  PoolInv' /\ Set!Next
  <2>. PICK f : f = free_
    OBVIOUS
  <2>1. PoolInv' /\ f \in No \ S /\ OnList(head)' = S \cup {f}
    BY <1>3, NewStep
  <2>2. /\ str' = [str EXCEPT ![f] = e] /\ val' = [val EXCEPT ![f] = now[e]]
        /\ str \in [No -> Exprs \cup {NoExpr}] /\ val \in [No -> Vals] /\ now[e] \in Vals
    BY <1>3 DEF new_wp, PoolInv, PoolTypeOK
  <2>3. [no \in S \cup {f} |-> str'[no]]
          = [x \in S \cup {f} |-> IF x = f THEN e ELSE [no \in S |-> str[no]][x]]
    BY <1>1, <2>1, <2>2
  <2>4. [no \in S \cup {f} |-> val'[no]]
          = [x \in S \cup {f} |-> IF x = f THEN now[e] ELSE [no \in S |-> val[no]][x]]
    BY <1>1, <2>1, <2>2
  <2>5. Set!Add(f, e, now[e])
    BY <2>1, <2>3, <2>4 DEF Set!Add, No
  <2>. QED
    BY <2>1, <2>2, <2>5 DEF Set!Next, No
<1>4. CASE new_wp_invalid
  <2>1. PoolInv' /\ OnList(head)' = S /\ \A no \in S : val'[no] = val[no] /\ str'[no] = str[no]
    BY <1>4, InvalidStep
  <2>. QED
    BY <2>1 DEF Set!vars
<1>5. ASSUME NEW no \in No, free_wp(no)
      PROVE  PoolInv' /\ [Set!Next]_(Set!vars)
  <2>1. PoolInv' /\ OnList(head)' = S \ {no} /\ UNCHANGED <<str, val>>
    BY <1>5, FreeStep
  <2>2. CASE no \in S
    BY <2>1, <2>2 DEF Set!Next, Set!Delete
  <2>3. CASE no \notin S
    <3>1. OnList(head)' = OnList(head)
      BY <2>1, <2>3
    <3>. QED
      BY <2>1, <3>1 DEF Set!vars
  <2>. QED
    BY <2>2, <2>3
<1>6. ASSUME NEW now \in [Exprs -> Vals], check_watchpoints(now)
      PROVE  PoolInv' /\ Set!Next
  <2>1. /\ PoolInv' /\ OnList(head)' = S /\ UNCHANGED str
        /\ \A no \in S : val'[no] = now[str[no]]
    BY <1>6, CheckStep
  <2>2. Set!Look(now)
    BY <1>1, <2>1 DEF Set!Look
  <2>. QED
    BY <2>1, <2>2 DEF Set!Next
<1>. QED
  BY <1>2, <1>3, <1>4, <1>5, <1>6 DEF Next

\* After any commands, and whatever the expressions come to, every watchpoint
\* is on one of the two lists and both end.
THEOREM PoolInvariant == Spec => []PoolInv
<1>. QED
  BY PoolInit, PoolStep, PTL DEF Spec

THEOREM PoolPartition == Spec => []Partition
<1>1. PoolInv => Partition
  BY ListsMean DEF PoolInv, Located
<1>. QED
  BY <1>1, PoolInvariant, PTL

\* The pool implements the set of watchpoints that the user sees.
THEOREM PoolIsSet == Spec => ImplementsSet
<1>1. init_wp_pool => Set!Init
  BY PoolInit DEF Set!Init
<1>2. PoolInv /\ [Next]_poolVars => [Set!Next]_(Set!vars)
  BY PoolStep
<1>. QED
  BY <1>1, <1>2, PoolInvariant, PTL DEF Spec, ImplementsSet, Set!Spec
-----------------------------------------------------------------------------
(***************************************************************************)
(* The simulator.                                                          *)
(***************************************************************************)
\* Nothing has ended, and the two machines agree.
RunsOn ==
  /\ LastKind \notin Ending
  /\ ~is_skip_ref
  /\ ~invalid_call.enable
  /\ CONFIG_DIFFTEST => ref = cpu

ReportedEnd ==
  /\ npc_state.halt_pc = inst_finish_call.pc
  /\ cpu.pc = Succ(npc_state.halt_pc)
  /\ \/ npc_state.state = "END" /\ LastKind = "ebreak" /\ npc_state.halt_ret = cpu.a0
     \/ npc_state.state = "ABORT" /\ LastKind \in {"invalid", "wrong"}

\* Between the clock cycle of an instruction and the rest of the loop's body:
\* the handlers have run, the reference is one instruction behind.
JustRetired ==
  /\ inst_finish_call.pc = cpu.pc
  /\ inst_finish_call.dnpc = Succ(cpu.pc)
  /\ inst_finish_call.device_op = (LastKind = "device")
  /\ CONFIG_DIFFTEST => ref.pc = cpu.pc /\ cpu.a0 \in Result(LastKind, ref.a0)
  /\ IF LastKind \in {"ebreak", "invalid"}
     THEN /\ npc_state.state = IF LastKind = "ebreak" THEN "END" ELSE "ABORT"
          /\ npc_state.halt_pc = cpu.pc
          /\ LastKind = "ebreak" => npc_state.halt_ret = cpu.a0
          /\ CONFIG_DIFFTEST => is_skip_ref
     ELSE /\ npc_state.state \in {"RUNNING", "QUIT"}
          /\ ~is_skip_ref
          /\ ~invalid_call.enable

\* The flag of invalid_call stays up behind an unknown instruction, and a
\* window that is closed leaves the loop one instruction later: both are
\* harmless because of where the program may be then.
Stopped == at \in {"return", "prompt"} \/ (at = "exit" /\ is_batch_mode)

EndInv ==
  /\ ~ebreak_call.enable
  /\ at = "clock" => RunsOn /\ npc_state.state \in {"RUNNING", "QUIT"}
  /\ at = "retired" => JustRetired
  /\ at = "poll" => RunsOn /\ npc_state.state = "RUNNING"
  /\ Stopped => IF npc_state.state \in Ended THEN ReportedEnd ELSE RunsOn

\* The loop is entered for some instructions.
InstructionsLeft == at \in {"clock", "retired", "poll"} => n # 0

\* The program counters stay in the program, and the two machines in shape.
LEMMA SuccInProgram ==
  ASSUME NEW pc \in Pc
  PROVE  Succ(pc) \in Pc
  BY SimulatorAssumption DEF Succ, Pc

LEMMA KindOfSetup ==
  ASSUME SimTypeOK
  PROVE  /\ setup \in Setup
         /\ \A pc \in Pc : prog[pc] \in Kind
         /\ CONFIG_DIFFTEST \in BOOLEAN /\ CONFIG_DEVICE \in BOOLEAN
         /\ CONFIG_WATCHPOINT \in BOOLEAN
<1>1. setup \in Setup
  BY SimulatorAssumption DEF SimTypeOK
<1>. QED
  BY <1>1 DEF Setup, prog, CONFIG_DIFFTEST, CONFIG_DEVICE, CONFIG_WATCHPOINT

LEMMA ResultIsBit ==
  ASSUME NEW kind, NEW a0 \in {0, 1}
  PROVE  Result(kind, a0) \subseteq {0, 1} /\ RefResult(kind, a0) \in {0, 1}
  BY DEF Result, RefResult

\* A cycle of the clock, with or without an instruction.
LEMMA ClockKeepsTypes ==
  ASSUME SimTypeOK, ClockEmpty \/ ClockRetire
  PROVE  SimTypeOK'
<1>. USE DEF SimTypeOK, Machine
<1>1. cpu.pc \in Pc /\ cpu.a0 \in {0, 1}
  OBVIOUS
<1>2. CASE ClockEmpty
  <2>1. npc_state' \in [state : RunState, halt_pc : Pc \cup {NoPc}, halt_ret : {0, 1, BadRet}]
    BY <1>2 DEF ClockEmpty, DpiHandlers, HandledState, RunState
  <2>2. is_skip_ref' \in BOOLEAN /\ ebreak_call' \in [enable : BOOLEAN, pc : Pc \cup {NoPc}]
    BY <1>2, KindOfSetup DEF ClockEmpty, DpiHandlers
  <2>. QED
    BY <1>2, <2>1, <2>2 DEF ClockEmpty, DpiHandlers, poolVars, PoolTypeOK
<1>3. CASE ClockRetire
  <2>. DEFINE kind == prog[cpu.pc]
              eb == Call(ebreak_call, kind = "ebreak", cpu.pc)
              iv == Call(invalid_call, kind = "invalid", cpu.pc)
  <2>1. PICK a0 \in Result(kind, cpu.a0) :
          /\ cpu' = [cpu EXCEPT !.a0 = a0]
          /\ inst_finish_call' = [enable |-> FALSE, pc |-> cpu.pc,
                                  dnpc |-> Succ(cpu.pc), device_op |-> kind = "device"]
          /\ DpiHandlers(eb, iv, a0)
    BY <1>3 DEF ClockRetire
  <2>2. a0 \in {0, 1} /\ Succ(cpu.pc) \in Pc
    BY <1>1, ResultIsBit, SuccInProgram
  <2>3. {eb, iv} \subseteq [enable : BOOLEAN, pc : Pc \cup {NoPc}]
    BY <1>1 DEF Call
  <2>. HIDE DEF kind, eb, iv
  <2>4. npc_state' \in [state : RunState, halt_pc : Pc \cup {NoPc}, halt_ret : {0, 1, BadRet}]
    BY <2>1, <2>2, <2>3 DEF DpiHandlers, HandledState, RunState
  <2>5. /\ is_skip_ref' \in BOOLEAN
        /\ {ebreak_call', invalid_call'} \subseteq [enable : BOOLEAN, pc : Pc \cup {NoPc}]
    BY <2>1, <2>3, KindOfSetup DEF DpiHandlers
  <2>6. /\ cpu' \in Machine
        /\ inst_finish_call' \in
             [enable : BOOLEAN, pc : Pc \cup {NoPc}, dnpc : Pc, device_op : BOOLEAN]
    BY <1>1, <2>1, <2>2
  <2>. QED
    BY <1>3, <2>4, <2>5, <2>6 DEF ClockRetire, Place, poolVars, PoolTypeOK
<1>. QED
  BY <1>2, <1>3

\* What the watchpoints are compared with.
LEMMA ValuesOfMachine ==
  ASSUME NEW now \in Machine
  PROVE  ValueOf(now) \in [Exprs -> Vals]
<1>1. now.pc \in Vals /\ now.a0 \in Vals
  BY SimulatorAssumption DEF Machine, Pc
<1>2. Exprs \subseteq {"a0", "pc"}
  BY SimulatorAssumption
<1>. QED
  BY <1>1, <1>2 DEF ValueOf

LEMMA PoolUntouched ==
  ASSUME PoolInv, UNCHANGED poolVars
  PROVE  PoolInv' /\ OnList(head)' = OnList(head)
  BY LinksStay DEF poolVars, PoolInv, PoolTypeOK

\* The commands that set and delete watchpoints keep the pool, and leave none
\* with an old value if there was none.
LEMMA PoolKept ==
  ASSUME SimTypeOK, PoolInv, cmd_w \/ cmd_d
  PROVE  /\ PoolInv'
         /\ Changed(ValueOf(cpu)) = {} => Changed(ValueOf(cpu))' = {}
         /\ setup.watched = {} => OnList(head)' \subseteq OnList(head)
<1>1. cpu' = cpu /\ ValueOf(cpu) \in [Exprs -> Vals]
  BY ValuesOfMachine DEF cmd_w, cmd_d, Idle, SimTypeOK
<1>. PICK now \in [Exprs -> Vals] : now = ValueOf(cpu)
  BY <1>1
<1>2. (ValueOf(cpu))' = now
  BY <1>1 DEF ValueOf
<1>. PICK S : S = OnList(head)
  OBVIOUS
<1>3. /\ Changed(ValueOf(cpu)) = {no \in S : now[str[no]] # val[no]}
      /\ Changed(ValueOf(cpu))' = {no \in OnList(head)' : now[str'[no]] # val'[no]}
  BY <1>2 DEF Changed
<1>4. CASE UNCHANGED poolVars
  <2>1. PoolInv' /\ OnList(head)' = S
    BY <1>4, LinksStay DEF poolVars, PoolInv, PoolTypeOK
  <2>. QED
    BY <1>3, <1>4, <2>1 DEF poolVars
<1>5. ASSUME NEW e \in setup.watched, new_wp(e, ValueOf(cpu))
      PROVE  PoolInv' /\ (Changed(ValueOf(cpu)) = {} => Changed(ValueOf(cpu))' = {})
  <2>1. e \in Exprs
    BY KindOfSetup DEF Setup
  <2>2. PoolInv' /\ free_ \in No \ S /\ OnList(head)' = S \cup {free_}
    BY <1>5, <2>1, NewStep
  <2>3. /\ str' = [str EXCEPT ![free_] = e] /\ val' = [val EXCEPT ![free_] = now[e]]
        /\ str \in [No -> Exprs \cup {NoExpr}] /\ val \in [No -> Vals]
    BY <1>5 DEF new_wp, PoolInv, PoolTypeOK
  <2>4. now[str'[free_]] = val'[free_]
    BY <2>2, <2>3
  <2>5. \A no \in S : str'[no] = str[no] /\ val'[no] = val[no]
    BY <2>2, <2>3
  <2>. QED
    BY <1>3, <2>2, <2>4, <2>5
<1>6. CASE new_wp_invalid
  <2>1. /\ PoolInv' /\ OnList(head)' = S
        /\ \A no \in S : val'[no] = val[no] /\ str'[no] = str[no]
    BY <1>6, InvalidStep
  <2>. QED
    BY <1>3, <2>1
<1>7. ASSUME NEW no \in No, free_wp(no)
      PROVE  /\ PoolInv' /\ OnList(head)' \subseteq S
             /\ Changed(ValueOf(cpu)) = {} => Changed(ValueOf(cpu))' = {}
  <2>1. PoolInv' /\ OnList(head)' = S \ {no} /\ UNCHANGED <<str, val>>
    BY <1>7, FreeStep
  <2>. QED
    BY <1>3, <2>1
<1>. QED
  BY <1>4, <1>5, <1>6, <1>7 DEF cmd_w, cmd_d

\* The comparison with the watchpoints.
LEMMA PoolChecked ==
  ASSUME PoolInv, NEW now \in Machine,
         IF CONFIG_WATCHPOINT THEN check_watchpoints(ValueOf(now)) ELSE UNCHANGED poolVars
  PROVE  /\ PoolInv' /\ OnList(head)' = OnList(head)
         /\ CONFIG_WATCHPOINT => \A no \in OnList(head)' : ValueOf(now)[str'[no]] = val'[no]
<1>. PICK v \in [Exprs -> Vals] : v = ValueOf(now)
  BY ValuesOfMachine
<1>1. CASE CONFIG_WATCHPOINT
  BY <1>1, CheckStep
<1>2. CASE ~CONFIG_WATCHPOINT
  BY <1>2, LinksStay DEF poolVars, PoolInv, PoolTypeOK
<1>. QED
  BY <1>1, <1>2

\* The next turn of the loop, for any number of instructions that is left.
LEMMA NextRoundKeepsTypes ==
  ASSUME n \in {Forever} \cup 0 .. MaxSi, n # 0, NextRound
  PROVE  /\ n' \in {Forever} \cup 0 .. MaxSi
         /\ at' = "return" \/ (at' = "clock" /\ n' # 0)
<1>1. MaxSi \in Nat
  BY SimulatorAssumption
<1>2. CASE n = Forever
  BY <1>2 DEF NextRound, Forever
<1>3. CASE n \in 0 .. MaxSi
  BY <1>1, <1>3 DEF NextRound, Forever
<1>. QED
  BY <1>2, <1>3

\* The rest of the loop's body.
LEMMA LoopKeepsTypes ==
  ASSUME SimTypeOK, PoolInv, InstructionsLeft, Retired \/ device_update \/ Return
  PROVE  SimTypeOK' /\ PoolInv' /\ InstructionsLeft'
<1>. USE DEF SimTypeOK, Machine
<1>1. CASE Retired
  <2>. DEFINE now == [cpu EXCEPT !.pc = inst_finish_call.dnpc]
  <2>1. now \in Machine
    OBVIOUS
  <2>2. RefAfter(now) \in Machine
    <3>1. Succ(ref.pc) \in Pc /\ RefResult(prog[ref.pc], ref.a0) \in {0, 1}
      BY SuccInProgram, ResultIsBit
    <3>. QED
      BY <2>1, <3>1 DEF RefAfter
  <2>3. StoppedState(now) \in
          [state : RunState, halt_pc : Pc \cup {NoPc}, halt_ret : {0, 1, BadRet}]
    BY DEF StoppedState, CheckedState, RunState
  <2>4. /\ n' \in {Forever} \cup 0 .. MaxSi
        /\ at' = "return" \/ (at' \in {"poll", "clock"} /\ n' # 0)
    <3>1. n # 0 /\ LoopEnd
      BY <1>1 DEF Retired, InstructionsLeft
    <3>. QED
      BY <3>1, NextRoundKeepsTypes DEF LoopEnd
  <2>5. cpu' = now /\ ref' = RefAfter(now) /\ npc_state' = StoppedState(now)
    BY <1>1 DEF Retired, Body
  <2>6. /\ IF CONFIG_WATCHPOINT THEN check_watchpoints(ValueOf(now)) ELSE UNCHANGED poolVars
        /\ is_skip_ref' = FALSE
    BY <1>1 DEF Retired, Body
  <2>. HIDE DEF now
  <2>7. InstructionsLeft' /\ at' \in Place
    BY <2>4 DEF InstructionsLeft, Place
  <2>8. PoolInv' /\ PoolTypeOK'
    BY <2>1, <2>6, PoolChecked DEF PoolInv
  <2>9. cpu' \in Machine /\ ref' \in Machine /\ is_skip_ref' \in BOOLEAN
    BY <2>1, <2>2, <2>5, <2>6
  <2>10. UNCHANGED <<setup, ebreak_call, invalid_call, inst_finish_call, is_batch_mode>>
    BY <1>1 DEF Retired
  <2>. QED
    BY <2>3, <2>4, <2>5, <2>7, <2>8, <2>9, <2>10
<1>2. CASE device_update
  <2>1. npc_state' \in [state : RunState, halt_pc : Pc \cup {NoPc}, halt_ret : {0, 1, BadRet}]
    BY <1>2 DEF device_update, RunState
  <2>2. n # 0 /\ NextRound
    BY <1>2 DEF device_update, InstructionsLeft
  <2>3. PoolInv'
    BY <1>2, PoolUntouched DEF device_update
  <2>. QED
    BY <1>2, <2>1, <2>2, <2>3, NextRoundKeepsTypes
       DEF device_update, Place, poolVars, PoolTypeOK, InstructionsLeft
<1>3. CASE Return
  <2>1. npc_state' \in [state : RunState, halt_pc : Pc \cup {NoPc}, halt_ret : {0, 1, BadRet}]
    BY <1>3 DEF Return, RunState
  <2>2. PoolInv'
    BY <1>3, PoolUntouched DEF Return
  <2>. QED
    BY <1>3, <2>1, <2>2 DEF Return, Place, poolVars, PoolTypeOK, InstructionsLeft
<1>. QED
  BY <1>1, <1>2, <1>3

LEMMA CommandKeepsTypes ==
  ASSUME SimTypeOK, PoolInv, InstructionsLeft, Command
  PROVE  SimTypeOK' /\ PoolInv' /\ InstructionsLeft'
<1>. USE DEF SimTypeOK, Machine
<1>1. ASSUME NEW count \in {Forever} \cup 0 .. MaxSi, cpu_exec(count)
      PROVE  SimTypeOK' /\ InstructionsLeft' /\ UNCHANGED poolVars
  <2>1. npc_state' \in [state : RunState, halt_pc : Pc \cup {NoPc}, halt_ret : {0, 1, BadRet}]
    BY <1>1 DEF cpu_exec, RunState
  <2>. QED
    BY <1>1, <2>1 DEF cpu_exec, Idle, Place, poolVars, PoolTypeOK, InstructionsLeft
<1>2. CASE cmd_q \/ EndOfInput
  <2>1. npc_state' \in [state : RunState, halt_pc : Pc \cup {NoPc}, halt_ret : {0, 1, BadRet}]
    BY <1>2 DEF cmd_q, EndOfInput, RunState
  <2>2. UNCHANGED poolVars
    BY <1>2 DEF cmd_q, EndOfInput
  <2>3. SimTypeOK' /\ InstructionsLeft'
    BY <1>2, <2>1 DEF cmd_q, EndOfInput, Idle, Place, poolVars, PoolTypeOK, InstructionsLeft
  <2>. QED
    BY <2>2, <2>3, PoolUntouched
<1>3. CASE cmd_w \/ cmd_d
  BY <1>3, PoolKept DEF cmd_w, cmd_d, Idle, Place, InstructionsLeft, PoolInv
<1>4. CASE cmd_c \/ cmd_si
  <2>1. PICK count \in {Forever} \cup 0 .. MaxSi : cpu_exec(count)
    BY <1>4 DEF cmd_c, cmd_si
  <2>. QED
    BY <1>1, <2>1, PoolUntouched
<1>. QED
  BY <1>2, <1>3, <1>4 DEF Command

\* The program, options, expressions and mode of a session never change.
LEMMA SetupStays ==
  ASSUME [SimNext]_vars
  PROVE  setup' = setup /\ is_batch_mode' = is_batch_mode
  BY DEF SimNext, Command, Simulate, cmd_c, cmd_si, cpu_exec, cmd_q, EndOfInput, cmd_w, cmd_d,
     Idle, ClockEmpty, ClockRetire, Retired, device_update, Return, vars

\* The pool is touched by its two commands and by the comparison only.
LEMMA PoolElsewhere ==
  ASSUME [SimNext]_vars, ~(cmd_w \/ cmd_d \/ Retired)
  PROVE  UNCHANGED poolVars
  BY DEF SimNext, Command, Simulate, cmd_c, cmd_si, cpu_exec, cmd_q, EndOfInput,
     ClockEmpty, ClockRetire, device_update, Return, vars

\* Types, the lists of the pool and the count of the loop, at every step.
TypeInv == SimTypeOK /\ PoolInv /\ InstructionsLeft

THEOREM TypesAndPool == SimSpec => []TypeInv
<1>1. Init => TypeInv
  <2>. SUFFICES ASSUME Init PROVE TypeInv
    OBVIOUS
  <2>1. PoolInv
    BY PoolInit DEF Init
  <2>2. 0 \in Pc /\ 0 \in 0 .. MaxSi
    BY SimulatorAssumption DEF Pc
  <2>3. SimTypeOK
    BY <2>1, <2>2 DEF Init, SimTypeOK, Machine, RunState, Place, PoolInv
  <2>. QED
    BY <2>1, <2>3 DEF Init, TypeInv, InstructionsLeft
<1>2. TypeInv /\ [SimNext]_vars => TypeInv'
  <2>. SUFFICES ASSUME SimTypeOK, PoolInv, InstructionsLeft, [SimNext]_vars
                PROVE  SimTypeOK' /\ PoolInv' /\ InstructionsLeft'
    BY DEF TypeInv
  <2>1. CASE Command
    BY <2>1, CommandKeepsTypes
  <2>2. CASE ClockEmpty \/ ClockRetire
    <3>1. UNCHANGED poolVars
      BY <2>2 DEF ClockEmpty, ClockRetire
    <3>. QED
      BY <2>2, <3>1, ClockKeepsTypes, PoolUntouched DEF InstructionsLeft, ClockEmpty, ClockRetire
  <2>3. CASE Retired \/ device_update \/ Return
    BY <2>3, LoopKeepsTypes
  <2>4. CASE UNCHANGED vars
    <3>1. UNCHANGED poolVars
      BY <2>4 DEF vars
    <3>. QED
      BY <2>4, <3>1, PoolUntouched
         DEF vars, simVars, poolVars, SimTypeOK, PoolTypeOK, InstructionsLeft
  <2>. QED
    BY <2>1, <2>2, <2>3, <2>4 DEF SimNext, Simulate
<1>. QED
  BY <1>1, <1>2, PTL DEF SimSpec

\* Every variable of the simulator keeps its type, the watchpoints included.
THEOREM SimTypeCorrect == SimSpec => []SimTypeOK
<1>1. TypeInv => SimTypeOK
  BY DEF TypeInv
<1>. QED
  BY <1>1, TypesAndPool, PTL

-----------------------------------------------------------------------------
(***************************************************************************)
(* The watchpoints.                                                        *)
(***************************************************************************)

\* Between two instructions every watchpoint that is set holds the value its
\* expression has.
WatchInv == CONFIG_WATCHPOINT /\ at # "retired" => Changed(ValueOf(cpu)) = {}

LEMMA WatchStep ==
  ASSUME TypeInv, WatchInv, [SimNext]_vars
  PROVE  WatchInv'
<1>1. CONFIG_WATCHPOINT' = CONFIG_WATCHPOINT
  BY SetupStays DEF CONFIG_WATCHPOINT
<1>. SUFFICES ASSUME CONFIG_WATCHPOINT, at' # "retired" PROVE Changed(ValueOf(cpu))' = {}
  BY <1>1 DEF WatchInv
<1>2. CASE cmd_w \/ cmd_d
  <2>1. at # "retired"
    BY <1>2 DEF cmd_w, cmd_d
  <2>. QED
    BY <1>2, <2>1, PoolKept DEF WatchInv, TypeInv
<1>3. CASE Retired
  <2>. PICK now : now = [cpu EXCEPT !.pc = inst_finish_call.dnpc]
    OBVIOUS
  <2>1. /\ cpu' = now /\ now \in Machine
        /\ IF CONFIG_WATCHPOINT THEN check_watchpoints(ValueOf(now)) ELSE UNCHANGED poolVars
    BY <1>3 DEF Retired, Body, TypeInv, SimTypeOK, Machine
  <2>2. \A no \in OnList(head)' : ValueOf(now)[str'[no]] = val'[no]
    BY <2>1, PoolChecked DEF TypeInv
  <2>3. ValueOf(cpu)' = ValueOf(now)
    BY <2>1 DEF ValueOf
  <2>. QED
    BY <2>2, <2>3 DEF Changed
<1>4. CASE ~(cmd_w \/ cmd_d \/ Retired)
  <2>1. UNCHANGED poolVars
    BY <1>4, PoolElsewhere
  <2>2. cpu' = cpu /\ at # "retired"
    BY <1>4 DEF SimNext, Command, Simulate, cmd_c, cmd_si, cpu_exec, cmd_q, EndOfInput, Idle,
       ClockEmpty, ClockRetire, device_update, Return, vars, simVars
  <2>3. Changed(ValueOf(cpu)) = {}
    BY <2>2 DEF WatchInv
  <2>. QED
    BY <2>1, <2>2, <2>3 DEF poolVars, Changed, ValueOf, OnList, LinkAfter
<1>. QED
  BY <1>2, <1>3, <1>4

\* A step that finds a watched expression changed ends the run.
LEMMA ChangeStops ==
  ASSUME TypeInv, WatchInv, [SimNext]_vars, WatchInv', CONFIG_WATCHPOINT
  PROVE  /\ at' \in {"clock", "poll"} => Changed(ValueOf(cpu))' = {}
         /\ at = "retired" /\ Changed(ValueOf(cpu')) # {} => at' \in {"return", "retired"}
<1>1. CONFIG_WATCHPOINT'
  BY SetupStays DEF CONFIG_WATCHPOINT
<1>2. ASSUME at = "retired", Changed(ValueOf(cpu')) # {}, ~UNCHANGED vars
      PROVE  at' = "return"
  <2>1. Retired
    BY <1>2 DEF SimNext, Command, Simulate, cmd_c, cmd_si, cpu_exec, cmd_q, EndOfInput, cmd_w,
       cmd_d, ClockEmpty, ClockRetire, device_update, Return
  <2>2. npc_state' = [CheckedState(cpu') EXCEPT !.state = "STOP"]
    BY <1>2, <2>1 DEF Retired, Body, StoppedState
  <2>3. DOMAIN CheckedState(cpu') = DOMAIN npc_state /\ "state" \in DOMAIN npc_state
    BY DEF CheckedState, TypeInv, SimTypeOK
  <2>4. npc_state'.state = "STOP"
    BY <2>2, <2>3
  <2>. QED
    BY <2>1, <2>4 DEF Retired, LoopEnd
<1>3. UNCHANGED vars => at' = at
  BY DEF vars, simVars
<1>. QED
  BY <1>1, <1>2, <1>3 DEF WatchInv

\* No change of a watched expression is passed over, for every program, pool,
\* set of watchpoints and sequence of commands.
THEOREM ChangesAreNotMissed == SimSpec => NoChangeMissed
<1>1. Init => WatchInv
  <2>. SUFFICES ASSUME Init PROVE Changed(ValueOf(cpu)) = {}
    BY DEF WatchInv
  <2>. QED
    BY PoolInit DEF Init, Changed
<1>2. TypeInv /\ WatchInv /\ [SimNext]_vars => WatchInv'
  BY WatchStep
<1>. DEFINE Stops == CONFIG_WATCHPOINT =>
       /\ at' \in {"clock", "poll"} => Changed(ValueOf(cpu))' = {}
       /\ at = "retired" /\ Changed(ValueOf(cpu')) # {} => at' = "return"
<1>3. TypeInv /\ WatchInv /\ WatchInv' /\ [SimNext]_vars => [Stops]_vars
  <2>. SUFFICES ASSUME TypeInv, WatchInv, WatchInv', [SimNext]_vars, ~UNCHANGED vars PROVE Stops
    OBVIOUS
  <2>1. at = "retired" => at' # "retired"
    BY DEF SimNext, Command, Simulate, cmd_c, cmd_si, cpu_exec, cmd_q, EndOfInput, cmd_w, cmd_d,
       ClockEmpty, ClockRetire, Retired, LoopEnd, NextRound, device_update, Return
  <2>. QED
    BY <2>1, ChangeStops
<1>. QED
  BY <1>1, <1>2, <1>3, TypesAndPool, PTL DEF SimSpec, NoChangeMissed

-----------------------------------------------------------------------------
(***************************************************************************)
(* The end of a program.                                                   *)
(***************************************************************************)

\* Nobody watches an expression; in batch mode nobody can.
Unwatched == CONFIG_WATCHPOINT => is_batch_mode \/ setup.watched = {}

\* Then no watchpoint is ever set, and the comparison stops nothing.
NoneSet == Unwatched /\ CONFIG_WATCHPOINT => OnList(head) = {}

LEMMA NoneSetStep ==
  ASSUME TypeInv, NoneSet, [SimNext]_vars
  PROVE  NoneSet'
<1>1. (Unwatched /\ CONFIG_WATCHPOINT)' <=> Unwatched /\ CONFIG_WATCHPOINT
  BY SetupStays DEF Unwatched, CONFIG_WATCHPOINT
<1>. SUFFICES ASSUME CONFIG_WATCHPOINT, is_batch_mode \/ setup.watched = {}, OnList(head) = {}
              PROVE  OnList(head)' = {}
  BY <1>1 DEF NoneSet, Unwatched
<1>2. CASE cmd_w \/ cmd_d
  <2>1. setup.watched = {}
    BY <1>2 DEF cmd_w, cmd_d
  <2>. QED
    BY <1>2, <2>1, PoolKept DEF TypeInv
<1>3. CASE Retired
  <2>. PICK now : now = [cpu EXCEPT !.pc = inst_finish_call.dnpc]
    OBVIOUS
  <2>1. /\ now \in Machine
        /\ IF CONFIG_WATCHPOINT THEN check_watchpoints(ValueOf(now)) ELSE UNCHANGED poolVars
    BY <1>3 DEF Retired, Body, TypeInv, SimTypeOK, Machine
  <2>. QED
    BY <2>1, PoolChecked DEF TypeInv
<1>4. CASE ~(cmd_w \/ cmd_d \/ Retired)
  BY <1>4, PoolElsewhere, PoolUntouched DEF TypeInv
<1>. QED
  BY <1>2, <1>3, <1>4

\* A cycle without an instruction changes nothing.
LEMMA EmptyKeepsEnd ==
  ASSUME SimTypeOK, EndInv, ClockEmpty
  PROVE  EndInv'
<1>1. RunsOn /\ npc_state.state \in {"RUNNING", "QUIT"} /\ ~ebreak_call.enable
  BY DEF EndInv, ClockEmpty
<1>2. npc_state' = npc_state /\ is_skip_ref' = FALSE /\ invalid_call' = invalid_call
  BY <1>1 DEF ClockEmpty, DpiHandlers, HandledState, RunsOn
<1>3. ebreak_call'.enable = FALSE
  BY DEF ClockEmpty, DpiHandlers, SimTypeOK
<1>4. at' = "clock" /\ UNCHANGED <<setup, cpu, ref, inst_finish_call>>
  BY DEF ClockEmpty
<1>5. RunsOn'
  BY <1>1, <1>2, <1>4 DEF RunsOn, LastKind, Ending, prog, CONFIG_DIFFTEST
<1>. QED
  BY <1>1, <1>2, <1>3, <1>4, <1>5 DEF EndInv, Stopped

\* An instruction that finishes: the handlers notice its end, the reference is
\* as the processor was before it.
LEMMA RetireKeepsEnd ==
  ASSUME SimTypeOK, EndInv, ClockRetire
  PROVE  EndInv'
<1>. DEFINE kind == prog[cpu.pc]
            eb == Call(ebreak_call, kind = "ebreak", cpu.pc)
            iv == Call(invalid_call, kind = "invalid", cpu.pc)
<1>1. RunsOn /\ npc_state.state \in {"RUNNING", "QUIT"} /\ ~ebreak_call.enable
  BY DEF EndInv, ClockRetire
<1>2. PICK a0 \in Result(kind, cpu.a0) :
        /\ cpu' = [cpu EXCEPT !.a0 = a0]
        /\ inst_finish_call' = [enable |-> FALSE, pc |-> cpu.pc,
                                dnpc |-> Succ(cpu.pc), device_op |-> kind = "device"]
        /\ DpiHandlers(eb, iv, a0)
  BY DEF ClockRetire
<1>3. /\ cpu.pc \in Pc /\ cpu.pc # NoPc
      /\ cpu' = [pc |-> cpu.pc, a0 |-> a0]
      /\ UNCHANGED <<setup, ref>> /\ at' = "retired"
  BY <1>2 DEF SimTypeOK, Machine, ClockRetire, Pc, NoPc
<1>4. /\ LastKind' = kind
      /\ inst_finish_call'.pc = cpu.pc
      /\ inst_finish_call'.dnpc = Succ(cpu.pc)
      /\ inst_finish_call'.device_op = (kind = "device")
  BY <1>2, <1>3 DEF LastKind, prog
<1>5. /\ eb.enable = (kind = "ebreak") /\ (kind = "ebreak" => eb.pc = cpu.pc)
      /\ iv.enable = (kind = "invalid") /\ (kind = "invalid" => iv.pc = cpu.pc)
      /\ eb \in [enable : BOOLEAN, pc : Pc \cup {NoPc}]
  BY <1>1, <1>3 DEF RunsOn, Call, SimTypeOK
<1>. HIDE DEF kind, eb, iv
<1>6. ebreak_call'.enable = FALSE /\ invalid_call' = iv
  BY <1>2, <1>5 DEF DpiHandlers
<1>7. is_skip_ref' = (CONFIG_DIFFTEST /\ kind \in {"ebreak", "invalid"})
  BY <1>1, <1>2, <1>5, KindOfSetup DEF DpiHandlers, RunsOn, SimTypeOK
<1>8. CASE kind = "ebreak"
  <2>1. npc_state' = [state |-> "END", halt_pc |-> cpu.pc, halt_ret |-> a0]
    BY <1>2, <1>5, <1>8 DEF DpiHandlers, HandledState
  <2>. QED
    BY <1>1, <1>2, <1>3, <1>4, <1>6, <1>7, <1>8, <2>1
       DEF EndInv, JustRetired, Stopped, RunsOn, CONFIG_DIFFTEST
<1>9. CASE kind = "invalid"
  <2>1. npc_state' = [state |-> "ABORT", halt_pc |-> cpu.pc, halt_ret |-> BadRet]
    BY <1>2, <1>5, <1>9 DEF DpiHandlers, HandledState
  <2>. QED
    BY <1>1, <1>2, <1>3, <1>4, <1>6, <1>7, <1>9, <2>1
       DEF EndInv, JustRetired, Stopped, RunsOn, CONFIG_DIFFTEST
<1>10. CASE kind \notin {"ebreak", "invalid"}
  <2>1. npc_state' = npc_state
    BY <1>2, <1>5, <1>10 DEF DpiHandlers, HandledState
  <2>. QED
    BY <1>1, <1>2, <1>3, <1>4, <1>5, <1>6, <1>7, <1>10, <2>1
       DEF EndInv, JustRetired, Stopped, RunsOn, CONFIG_DIFFTEST
<1>. QED
  BY <1>8, <1>9, <1>10

\* The comparison, when no watchpoint is looked at: an alarm for a wrong
\* instruction and for no other.
LEMMA ComparisonIsRight ==
  ASSUME SimTypeOK, JustRetired, LastKind \notin {"ebreak", "invalid"},
         NEW now, now = [cpu EXCEPT !.pc = inst_finish_call.dnpc]
  PROVE  /\ LastKind = "wrong" /\ CONFIG_DIFFTEST =>
              CheckedState(now) = [npc_state EXCEPT !.state = "ABORT", !.halt_pc = cpu.pc]
         /\ ~(LastKind = "wrong" /\ CONFIG_DIFFTEST) =>
              CheckedState(now) = npc_state /\ (CONFIG_DIFFTEST => RefAfter(now) = now)
<1>1. /\ cpu.pc \in Pc /\ cpu.pc # NoPc /\ LastKind = prog[cpu.pc]
      /\ now = [pc |-> Succ(cpu.pc), a0 |-> cpu.a0]
  BY DEF SimTypeOK, Machine, JustRetired, LastKind, Pc, NoPc
<1>2. Skips = (LastKind = "device")
  BY DEF JustRetired, Skips, SimTypeOK
<1>3. CASE ~CONFIG_DIFFTEST
  BY <1>3 DEF CheckedState
<1>4. CASE CONFIG_DIFFTEST
  <2>1. ref.pc = cpu.pc /\ ref.a0 \in {0, 1} /\ cpu.a0 \in Result(LastKind, ref.a0)
    BY <1>4 DEF JustRetired, SimTypeOK, Machine
  <2>2. CASE LastKind = "device"
    BY <1>1, <1>2, <1>4, <2>2 DEF RefAfter, CheckedState
  <2>3. CASE LastKind # "device"
    <3>1. RefAfter(now) = [pc |-> Succ(cpu.pc), a0 |-> RefResult(LastKind, ref.a0)]
      BY <1>1, <1>2, <1>4, <2>1, <2>3 DEF RefAfter
    <3>2. (RefResult(LastKind, ref.a0) = cpu.a0) <=> LastKind # "wrong"
      BY <2>1, <2>3 DEF Result, RefResult
    <3>3. (RefAfter(now) = now) <=> LastKind # "wrong"
      <4>1. RefAfter(now).a0 = RefResult(LastKind, ref.a0) /\ now.a0 = cpu.a0
        BY <1>1, <3>1
      <4>2. RefResult(LastKind, ref.a0) = cpu.a0 => RefAfter(now) = now
        BY <1>1, <3>1
      <4>. QED
        BY <3>2, <4>1, <4>2
    <3>. QED
      BY <1>4, <3>3 DEF CheckedState, JustRetired
  <2>. QED
    BY <2>2, <2>3
<1>. QED
  BY <1>3, <1>4

\* The rest of the loop's body stops the run at an end, and tells the truth.
LEMMA RetiredKeepsEnd ==
  ASSUME SimTypeOK, EndInv, CONFIG_WATCHPOINT => OnList(head) = {}, Retired
  PROVE  EndInv'
<1>. DEFINE now == [cpu EXCEPT !.pc = inst_finish_call.dnpc]
<1>1. JustRetired /\ ~ebreak_call.enable
  BY DEF EndInv, Retired
<1>2. /\ cpu' = now /\ ref' = RefAfter(now) /\ is_skip_ref' = FALSE
      /\ npc_state' = CheckedState(now)
      /\ UNCHANGED <<setup, ebreak_call, invalid_call, inst_finish_call, is_batch_mode>>
      /\ LoopEnd
  BY DEF Retired, Body, StoppedState, Changed
<1>3. /\ now.pc = Succ(cpu.pc) /\ now.a0 = cpu.a0 /\ inst_finish_call.pc = cpu.pc
      /\ LastKind' = LastKind /\ Ending' = Ending /\ CONFIG_DIFFTEST' = CONFIG_DIFFTEST
  BY <1>1, <1>2 DEF JustRetired, SimTypeOK, Machine, LastKind, Ending, prog, CONFIG_DIFFTEST
<1>4. ASSUME LastKind \in {"ebreak", "invalid"} PROVE npc_state' = npc_state /\ npc_state.state \in Ended
  <2>1. CONFIG_DIFFTEST => RefAfter(now) = now
    BY <1>1, <1>4 DEF JustRetired, RefAfter, Skips
  <2>. QED
    BY <1>1, <1>2, <1>4, <2>1 DEF JustRetired, CheckedState, Ended
<1>5. ASSUME LastKind \notin {"ebreak", "invalid"}
      PROVE  /\ LastKind = "wrong" /\ CONFIG_DIFFTEST =>
                  npc_state'.state = "ABORT" /\ npc_state'.halt_pc = cpu.pc
             /\ ~(LastKind = "wrong" /\ CONFIG_DIFFTEST) =>
                  npc_state' = npc_state /\ (CONFIG_DIFFTEST => ref' = cpu')
  BY <1>1, <1>2, <1>5, ComparisonIsRight DEF SimTypeOK
<1>. HIDE DEF now
<1>6. (npc_state'.state \in Ended) => ReportedEnd'
  <2>1. ASSUME LastKind \in {"ebreak", "invalid"} PROVE ReportedEnd'
    BY <1>1, <1>2, <1>3, <1>4, <2>1 DEF ReportedEnd, JustRetired
  <2>2. ASSUME LastKind \notin {"ebreak", "invalid"}, npc_state'.state \in Ended PROVE ReportedEnd'
    BY <1>1, <1>2, <1>3, <1>5, <2>2 DEF ReportedEnd, JustRetired, Ended
  <2>. QED
    BY <2>1, <2>2
<1>7. (npc_state'.state \notin Ended) =>
         RunsOn' /\ npc_state' = npc_state /\ npc_state.state \in {"RUNNING", "QUIT"}
  BY <1>1, <1>2, <1>3, <1>4, <1>5 DEF RunsOn, JustRetired, Ending, Ended
<1>8. /\ at' = "return" \/ (at' \in {"poll", "clock"} /\ npc_state'.state = "RUNNING")
      /\ ebreak_call' = ebreak_call
  BY <1>2 DEF LoopEnd, NextRound
<1>. QED
  BY <1>1, <1>6, <1>7, <1>8 DEF EndInv, Stopped, Ended

\* A window that is closed, and the end of cpu_exec.
LEMMA PollKeepsEnd ==
  ASSUME SimTypeOK, EndInv, device_update \/ Return
  PROVE  EndInv'
<1>1. /\ UNCHANGED <<setup, cpu, ref, ebreak_call, invalid_call, inst_finish_call,
                     is_skip_ref, is_batch_mode>>
      /\ LastKind' = LastKind /\ Ending' = Ending /\ CONFIG_DIFFTEST' = CONFIG_DIFFTEST
      /\ RunsOn => RunsOn'
  BY DEF device_update, Return, LastKind, Ending, prog, CONFIG_DIFFTEST, RunsOn
<1>2. CASE device_update
  <2>1. RunsOn /\ npc_state'.state \in {"RUNNING", "QUIT"} /\ at' \in {"return", "clock"}
    BY <1>2 DEF device_update, EndInv, NextRound, SimTypeOK
  <2>. QED
    BY <1>1, <2>1 DEF EndInv, Stopped, Ended
<1>3. CASE Return
  <2>1. CASE npc_state.state \in Ended
    <3>1. npc_state' = npc_state /\ ReportedEnd /\ at' \in {"exit", "prompt"}
      BY <1>3, <2>1 DEF Return, EndInv, Stopped, Ended
    <3>2. ReportedEnd'
      BY <1>1, <3>1 DEF ReportedEnd
    <3>. QED
      BY <1>1, <2>1, <3>1, <3>2 DEF EndInv, Stopped
  <2>2. CASE npc_state.state \notin Ended
    <3>1. npc_state'.state \notin Ended /\ RunsOn /\ at' \in {"exit", "prompt"}
      BY <1>3, <2>2 DEF Return, EndInv, Stopped, Ended, SimTypeOK
    <3>. QED
      BY <1>1, <3>1 DEF EndInv, Stopped
  <2>. QED
    BY <2>1, <2>2
<1>. QED
  BY <1>2, <1>3

\* A command runs a program that has not ended, or leaves what is known of its
\* end alone.
LEMMA CommandKeepsEnd ==
  ASSUME SimTypeOK, EndInv, Command
  PROVE  EndInv'
<1>1. at = "prompt" /\ UNCHANGED Idle
  BY DEF Command, cmd_c, cmd_si, cpu_exec, cmd_q, EndOfInput, cmd_w, cmd_d
<1>2. /\ UNCHANGED <<setup, cpu, ref, ebreak_call, invalid_call, inst_finish_call,
                     is_skip_ref, is_batch_mode>>
      /\ LastKind' = LastKind /\ Ending' = Ending /\ CONFIG_DIFFTEST' = CONFIG_DIFFTEST
      /\ RunsOn => RunsOn'
  BY <1>1 DEF Idle, LastKind, Ending, prog, CONFIG_DIFFTEST, RunsOn
<1>3. ASSUME NEW count, cpu_exec(count) PROVE EndInv'
  <2>1. /\ npc_state.state \notin Ended /\ npc_state'.state = "RUNNING"
        /\ at' \in {"return", "clock"}
    BY <1>3 DEF cpu_exec, SimTypeOK
  <2>2. RunsOn
    BY <1>1, <2>1 DEF EndInv, Stopped
  <2>. QED
    BY <1>2, <2>1, <2>2 DEF EndInv, Stopped, Ended
<1>4. CASE cmd_q \/ EndOfInput
  BY <1>2, <1>4 DEF cmd_q, EndOfInput, EndInv, Stopped
<1>5. CASE cmd_w \/ cmd_d
  <2>1. npc_state' = npc_state /\ at' \in {"prompt", "failed"}
    BY <1>5 DEF cmd_w, cmd_d
  <2>2. ReportedEnd => ReportedEnd'
    BY <1>2, <2>1 DEF ReportedEnd
  <2>. QED
    BY <1>1, <1>2, <2>1, <2>2 DEF EndInv, Stopped
<1>. QED
  BY <1>3, <1>4, <1>5 DEF Command, cmd_c, cmd_si

\* While nobody watches, the invariant, for every program.
THEOREM EndInvariant == SimSpec => [](Unwatched => EndInv)
<1>. DEFINE Inv == Unwatched => EndInv
<1>1. Init => NoneSet /\ Inv
  <2>. SUFFICES ASSUME Init PROVE NoneSet /\ EndInv
    OBVIOUS
  <2>1. RunsOn
    BY DEF Init, RunsOn, LastKind, Ending
  <2>2. OnList(head) = {}
    BY PoolInit DEF Init
  <2>. QED
    BY <2>1, <2>2 DEF Init, EndInv, Stopped, Ended, NoneSet
<1>2. TypeInv /\ NoneSet /\ [SimNext]_vars => NoneSet'
  BY NoneSetStep
<1>3. TypeInv /\ NoneSet /\ Inv /\ [SimNext]_vars => Inv'
  <2>. SUFFICES ASSUME TypeInv, NoneSet, Inv, [SimNext]_vars, Unwatched' PROVE EndInv'
    OBVIOUS
  <2>1. Unwatched
    BY SetupStays DEF Unwatched, CONFIG_WATCHPOINT
  <2>2. SimTypeOK /\ EndInv /\ (CONFIG_WATCHPOINT => OnList(head) = {})
    BY <2>1 DEF TypeInv, NoneSet
  <2>3. CASE SimNext
    BY <2>2, <2>3, EmptyKeepsEnd, RetireKeepsEnd, RetiredKeepsEnd, PollKeepsEnd, CommandKeepsEnd
       DEF SimNext, Simulate
  <2>4. CASE UNCHANGED vars
    BY <2>2, <2>4 DEF vars, simVars, EndInv, RunsOn, JustRetired, ReportedEnd, Stopped,
       LastKind, Ending, prog, CONFIG_DIFFTEST
  <2>. QED
    BY <2>3, <2>4
<1>. QED
  BY <1>1, <1>2, <1>3, TypesAndPool, PTL DEF SimSpec

\* Nothing runs behind the end of a program, whatever commands follow it.
THEOREM EndStaysTheEnd == SimSpec => [](Unwatched => EndsForGood)
<1>1. EndInv => EndsForGood
  BY DEF EndInv, RunsOn, EndsForGood
<1>. QED
  BY <1>1, EndInvariant, PTL

\* The end that is reported is the end there was: no false alarm is raised, and
\* the place and the value are those of the instruction.
THEOREM ReportIsTrue == SimSpec => [](Unwatched => ReportsTheEnd)
<1>1. EndInv => ReportsTheEnd
  BY DEF EndInv, ReportedEnd, ReportsTheEnd, Stopped, Ended
<1>. QED
  BY <1>1, EndInvariant, PTL

\* A batch run of a program that fails exits with a failure, also when its
\* window is closed at the same moment.
THEOREM FailureReachesExit == SimSpec => []FailureIsReported
<1>1. SimTypeOK /\ (Unwatched => EndInv) => FailureIsReported
  <2>. SUFFICES ASSUME SimTypeOK, Unwatched => EndInv, at = "exit", is_batch_mode, ~is_exit_status_bad
                PROVE  /\ LastKind \notin Ending \ {"ebreak"}
                       /\ LastKind = "ebreak" => cpu.a0 = 0
    BY DEF FailureIsReported
  <2>. EndInv
    BY DEF Unwatched
  <2>1. CASE npc_state.state \in Ended
    BY <2>1 DEF EndInv, Stopped, ReportedEnd, is_exit_status_bad, Ended, Ending
  <2>2. CASE npc_state.state \notin Ended
    BY <2>2 DEF EndInv, Stopped, RunsOn, Ending
  <2>. QED
    BY <2>1, <2>2
<1>. QED
  BY <1>1, EndInvariant, SimTypeCorrect, PTL
=============================================================================
