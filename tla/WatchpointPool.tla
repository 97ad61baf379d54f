--------------------------- MODULE WatchpointPool ---------------------------
(***************************************************************************)
(* verilator/src/sdb/watchpoint.cpp: NR_WP watchpoints on two singly       *)
(* linked lists, the ones set (head) and the ones free (free_), that share *)
(* the field next.  The name of a watchpoint, NO, is its place in wp_pool. *)
(*                                                                         *)
(* Expressions are opaque.  now \in [Exprs -> value] is what expr()        *)
(* returns for each of them in the present state of the processor.         *)
(***************************************************************************)
EXTENDS Integers

CONSTANTS
  NR_WP,     \* size of the pool
  Exprs,     \* texts that expr() can evaluate
  NoExpr,    \* the empty text of a watchpoint that was never set
  Vals       \* values of expressions

NULL == -1

ASSUME PoolAssumption ==
  /\ NR_WP \in Nat \ {0}
  /\ NoExpr \notin Exprs
  /\ 0 \in Vals

VARIABLES
  str, val, next,   \* the fields of wp_pool
  head, free_

poolVars == <<str, val, next, head, free_>>

No == 0 .. NR_WP - 1
Link == No \cup {NULL}

PoolTypeOK ==
  /\ str \in [No -> Exprs \cup {NoExpr}]
  /\ val \in [No -> Vals]
  /\ next \in [No -> Link]
  /\ head \in Link
  /\ free_ \in Link

\* Slip: the last link leads out of the pool.
init_wp_pool_unterminated ==
  /\ str = [i \in No |-> NoExpr]
  /\ val = [i \in No |-> 0]
  /\ next = [i \in No |-> i + 1]
  /\ head = NULL
  /\ free_ = 0

init_wp_pool ==
  /\ str = [i \in No |-> NoExpr]
  /\ val = [i \in No |-> 0]
  /\ next = [i \in No |-> IF i = NR_WP - 1 THEN NULL ELSE i + 1]
  /\ head = NULL
  /\ free_ = 0
-----------------------------------------------------------------------------
\* The links met from one on, and the watchpoints among them.
LinkAfter(first) ==
  LET at[k \in 0 .. NR_WP] ==
        IF k = 0 THEN first
        ELSE IF at[k - 1] = NULL THEN NULL ELSE next[at[k - 1]]
  IN at
OnList(first) == {LinkAfter(first)[k] : k \in 0 .. NR_WP} \ {NULL}

\* new_wp with a text that can be evaluated; without a free watchpoint its
\* assertion fails.
Exhausted == free_ = NULL

\* Slips: the list of free watchpoints is not advanced; the rest of the list
\* of those set is dropped.
new_wp_keep_free(e, now) ==
  /\ ~Exhausted
  /\ str' = [str EXCEPT ![free_] = e]
  /\ val' = [val EXCEPT ![free_] = now[e]]
  /\ next' = [next EXCEPT ![free_] = head]
  /\ head' = free_
  /\ UNCHANGED free_

new_wp(e, now) ==
  /\ ~Exhausted
  /\ str' = [str EXCEPT ![free_] = e]
  /\ val' = [val EXCEPT ![free_] = now[e]]
  /\ next' = [next EXCEPT ![free_] = head]
  /\ head' = free_
  /\ free_' = next[free_]

\* new_wp with any other text: it stays free, only its value is reset.
new_wp_invalid ==
  /\ ~Exhausted
  /\ val' = [val EXCEPT ![free_] = 0]
  /\ UNCHANGED <<str, next, head, free_>>

\* free_wp: at the head of the list, behind another one (which the loop looks
\* for), or not set at all.
free_head(no) ==
  /\ head = no
  /\ head' = next[no]
  /\ next' = [next EXCEPT ![no] = free_]
  /\ free_' = no
  /\ UNCHANGED <<str, val>>

\* Slip: the watchpoint in front is not linked to the one behind.
free_behind_unlinked(no) ==
  \E prev \in OnList(head) :
    /\ next[prev] = no
    /\ next' = [next EXCEPT ![no] = free_]
    /\ free_' = no
    /\ UNCHANGED <<str, val, head>>

free_behind(no) ==
  \E prev \in OnList(head) :
    /\ next[prev] = no
    /\ next' = [next EXCEPT ![prev] = next[no], ![no] = free_]
    /\ free_' = no
    /\ UNCHANGED <<str, val, head>>

free_unset(no) ==
  /\ no \notin OnList(head)
  /\ UNCHANGED poolVars

free_wp(no) == free_head(no) \/ free_behind(no) \/ free_unset(no)

\* check_watchpoints: the ones whose expression has another value, and the
\* call itself, which remembers the new values.
Changed(now) == {no \in OnList(head) : now[str[no]] # val[no]}

check_watchpoints(now) ==
  /\ val' = [no \in No |-> IF no \in Changed(now) THEN now[str[no]] ELSE val[no]]
  /\ UNCHANGED <<str, next, head, free_>>
-----------------------------------------------------------------------------
Next ==
  \E now \in [Exprs -> Vals] :
    \/ \E e \in Exprs : new_wp(e, now)
    \/ new_wp_invalid
    \/ \E no \in No : free_wp(no)
    \/ check_watchpoints(now)

Spec == init_wp_pool /\ [][Next]_poolVars
-----------------------------------------------------------------------------
(***************************************************************************)
(* Correctness.                                                            *)
(***************************************************************************)

\* The two lists end, have no watchpoint in common and miss none: after any
\* commands "w" and "d", whichever ends of the lists they meet.
Partition ==
  /\ \A first \in {head, free_} : LinkAfter(first)[NR_WP] = NULL
  /\ OnList(head) \cap OnList(free_) = {}
  /\ OnList(head) \cup OnList(free_) = No

Set == INSTANCE WatchpointSet WITH
  set <- OnList(head),
  expr_of <- [no \in OnList(head) |-> str[no]],
  val_of <- [no \in OnList(head) |-> val[no]]

\* What the user of the debugger sees: a set of watchpoints that "w" adds to
\* and "d" takes exactly the one named from, the others keeping expression
\* and value.
ImplementsSet == Set!Spec
=============================================================================
