----------------------------- MODULE LinkedList -----------------------------
(***************************************************************************)
(* The intrusive list of src/src/linked_list.rs: head and tail belong to   *)
(* the list, next and prev to the nodes, which live in the futures.        *)
(*                                                                         *)
(* Where no future lives, the pointers stand at None, as in a new node.    *)
(***************************************************************************)
EXTENDS Integers, Sequences

CONSTANTS
  Nodes,    \* the places in memory where nodes may live
  Null      \* Option::None

VARIABLES
  head, tail,    \* LinkedList::head, tail
  next, prev,    \* PointersInner::next, prev of each node
  len            \* LinkedList::len, of builds with debug assertions

Init ==
  /\ head = Null /\ tail = Null /\ len = 0
  /\ next = [n \in Nodes |-> Null]
  /\ prev = [n \in Nodes |-> Null]

PushBack(n) ==
  /\ next' = [m \in Nodes |-> IF m = tail THEN n ELSE IF m = n THEN Null ELSE next[m]]
  /\ prev' = [m \in Nodes |-> IF m = n THEN tail ELSE prev[m]]
  /\ head' = IF tail = Null THEN n ELSE head
  /\ tail' = n
  /\ len' = len + 1

-----------------------------------------------------------------------------
(* remove: the neighbours take over the pointers of n, or the list where   *)
(* there is none.                                                          *)

NextWithout(n) == [m \in Nodes |-> IF m = prev[n] THEN next[n] ELSE next[m]]

\* Fault: the node behind keeps its pointer to the node that is removed.
PrevStale(n) == prev

PrevWithout(n) == [m \in Nodes |-> IF m = next[n] THEN prev[n] ELSE prev[m]]

Ends(n) ==
  /\ tail' = IF next[n] = Null THEN prev[n] ELSE tail
  /\ head' = IF prev[n] = Null THEN next[n] ELSE head
  /\ len' = len - 1

\* A node that is removed and gone with its future.  Also a node whose pointers
\* nobody reads before push_back overwrites them.
RemoveFree(n) ==
  /\ next' = [NextWithout(n) EXCEPT ![n] = Null]
  /\ prev' = [PrevWithout(n) EXCEPT ![n] = Null]
  /\ Ends(n)

\* A node that is removed and lives on keeps the pointers it had.
Remove(n) ==
  /\ next' = NextWithout(n)
  /\ prev' = PrevWithout(n)
  /\ Ends(n)

\* A node that was removed before is gone.
Free(n) ==
  /\ next' = [next EXCEPT ![n] = Null]
  /\ prev' = [prev EXCEPT ![n] = Null]
  /\ UNCHANGED <<head, tail, len>>

-----------------------------------------------------------------------------
\* What the drop of the list asserts, in builds with debug assertions.
AssertedOnDrop == len = 0 /\ head = Null /\ tail = Null

\* The pointers link the nodes of s, in this order and in both directions: what
\* iter_mut walks is s, front_mut is its first node, is_empty tells whether there
\* is one, and len (an unsigned number) is right.
Links(s) ==
  LET at(i) == IF i \in 1..Len(s) THEN s[i] ELSE Null
  IN  /\ head = at(1) /\ tail = at(Len(s)) /\ len = Len(s)
      /\ \A i \in 1..Len(s) : next[s[i]] = at(i + 1) /\ prev[s[i]] = at(i - 1)
=============================================================================
