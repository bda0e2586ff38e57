-------------------------- MODULE LinkedListProofs --------------------------
(***************************************************************************)
(* What the operations of LinkedList do to the list that the pointers      *)
(* link, wherever in it a node stands.  The proofs about both variants of  *)
(* Notify instantiate this module.                                         *)
(***************************************************************************)
EXTENDS WaitListLemmas

CONSTANTS Nodes, Null
VARIABLES head, tail, next, prev, len

List == INSTANCE LinkedList

\* What stands at a place of the list s.
At(s, i) == IF i \in 1..Len(s) THEN s[i] ELSE Null

\* A list of live nodes.
ListOf(s) == s \in Seq(Nodes) /\ IsInjective(s) /\ Null \notin Nodes

\* Links, place by place.
LEMMA LinksAt ==
  ASSUME NEW s
  PROVE  List!Links(s) <=>
           /\ head = At(s, 1) /\ tail = At(s, Len(s)) /\ len = Len(s)
           /\ \A i \in 1..Len(s) : next[s[i]] = At(s, i + 1) /\ prev[s[i]] = At(s, i - 1)
BY DEF List!Links, At

\* A place of the list holds one node, and no other place does.
LEMMA PlaceOf ==
  ASSUME NEW s, ListOf(s)
  PROVE  /\ Len(s) \in Nat /\ DOMAIN s = 1..Len(s)
         /\ \A i \in 1..Len(s) : s[i] \in Nodes /\ s[i] # Null
         /\ \A i, j \in 1..Len(s) : s[i] = s[j] => i = j
         /\ \A n : n \in ToSet(s) <=> \E i \in 1..Len(s) : s[i] = n
<1>1. Len(s) \in Nat /\ DOMAIN s = 1..Len(s)
  BY LenProperties DEF ListOf
<1>2. \A i \in 1..Len(s) : s[i] \in Nodes
  BY ElementOfSeq DEF ListOf
<1> QED BY <1>1, <1>2 DEF IsInjective, ToSet, ListOf

\* The pointers of a linked node lead to linked nodes, and back; the ends of the
\* list are where there is none.
LEMMA Neighbours ==
  ASSUME NEW s, ListOf(s), List!Links(s)
  PROVE  /\ head = Null <=> s = << >>
         /\ tail = Null <=> s = << >>
         /\ head # Null => head \in ToSet(s)
         /\ tail # Null => tail \in ToSet(s)
         /\ \A n \in ToSet(s) :
              /\ next[n] # Null => next[n] \in ToSet(s) /\ prev[next[n]] = n
              /\ prev[n] # Null => prev[n] \in ToSet(s) /\ next[prev[n]] = n
              /\ next[n] = Null <=> n = tail
              /\ prev[n] = Null <=> n = head
<1>0. PICK L \in Nat : L = Len(s)
  BY PlaceOf
<1>1. /\ \A i \in 1..L : s[i] \in Nodes /\ s[i] # Null
      /\ \A i, j \in 1..L : s[i] = s[j] => i = j
      /\ \A n : n \in ToSet(s) <=> \E i \in 1..L : s[i] = n
      /\ s = << >> <=> L = 0
  BY <1>0, PlaceOf, EmptySeq DEF ListOf
<1>2. /\ head = At(s, 1) /\ tail = At(s, L)
      /\ \A i \in 1..L : next[s[i]] = At(s, i + 1) /\ prev[s[i]] = At(s, i - 1)
  BY <1>0, LinksAt
<1>3. \A i \in Int : At(s, i) = IF i \in 1..L THEN s[i] ELSE Null
  BY <1>0 DEF At
<1>4. /\ head = Null <=> s = << >>
      /\ tail = Null <=> s = << >>
      /\ head # Null => head \in ToSet(s)
      /\ tail # Null => tail \in ToSet(s)
  BY <1>1, <1>2, <1>3
<1>5. ASSUME NEW i \in 1..L
      PROVE  /\ next[s[i]] # Null => next[s[i]] \in ToSet(s) /\ prev[next[s[i]]] = s[i]
             /\ prev[s[i]] # Null => prev[s[i]] \in ToSet(s) /\ next[prev[s[i]]] = s[i]
             /\ next[s[i]] = Null <=> s[i] = tail
             /\ prev[s[i]] = Null <=> s[i] = head
  <2>1. next[s[i]] = At(s, i + 1) /\ prev[s[i]] = At(s, i - 1)
    BY <1>2
  <2>2. /\ i < L => next[s[i]] = s[i + 1] /\ prev[s[i + 1]] = s[i] /\ i + 1 \in 1..L
        /\ i = L => next[s[i]] = Null
    BY <1>2, <1>3, <2>1
  <2>3. /\ i > 1 => prev[s[i]] = s[i - 1] /\ next[s[i - 1]] = s[i] /\ i - 1 \in 1..L
        /\ i = 1 => prev[s[i]] = Null
    BY <1>2, <1>3, <2>1
  <2>4. (s[i] = tail <=> i = L) /\ (s[i] = head <=> i = 1)
    BY <1>1, <1>2, <1>3
  <2> QED BY <1>1, <2>2, <2>3, <2>4
<1> QED BY <1>1, <1>4, <1>5

\* The places of the nodes, as an order in which each pointer goes one place on.
LEMMA PlaceOrder ==
  ASSUME NEW s, ListOf(s), List!Links(s)
  PROVE  \E r \in [Nodes -> 0..Len(s)] :
           /\ \A n \in ToSet(s) : r[n] \in 1..Len(s)
           /\ \A n, m \in ToSet(s) : r[n] = r[m] => n = m
           /\ \A n \in ToSet(s) : IF next[n] = Null THEN r[n] = Len(s)
                                 ELSE r[next[n]] = r[n] + 1
           /\ head # Null => r[head] = 1
<1>0. PICK L \in Nat : L = Len(s)
  BY PlaceOf
<1>1. /\ \A i \in 1..L : s[i] \in Nodes /\ s[i] # Null
      /\ \A i, j \in 1..L : s[i] = s[j] => i = j
      /\ \A n : n \in ToSet(s) <=> \E i \in 1..L : s[i] = n
  BY <1>0, PlaceOf
<1>2. /\ head = At(s, 1)
      /\ \A i \in 1..L : next[s[i]] = At(s, i + 1)
  BY <1>0, LinksAt
<1>3. \A i \in Int : At(s, i) = IF i \in 1..L THEN s[i] ELSE Null
  BY <1>0 DEF At
<1> DEFINE place(n) == CHOOSE i \in 1..L : s[i] = n
           r == [n \in Nodes |-> IF n \in ToSet(s) THEN place(n) ELSE 0]
<1>4. \A i \in 1..L : place(s[i]) = i
  BY <1>1
<1>5. \A i \in 1..L : r[s[i]] = i
  BY <1>1, <1>4
<1>6. r \in [Nodes -> 0..L]
  <2>1. \A n \in ToSet(s) : place(n) \in 0..L
    BY <1>1, <1>4
  <2> HIDE DEF place
  <2> QED BY <2>1
<1> HIDE DEF r
<1>7. /\ \A n \in ToSet(s) : r[n] \in 1..L
      /\ \A n, m \in ToSet(s) : r[n] = r[m] => n = m
  BY <1>1, <1>5
<1>8. \A n \in ToSet(s) : IF next[n] = Null THEN r[n] = L ELSE r[next[n]] = r[n] + 1
  <2> SUFFICES ASSUME NEW i \in 1..L
               PROVE  IF next[s[i]] = Null THEN r[s[i]] = L ELSE r[next[s[i]]] = r[s[i]] + 1
    BY <1>1
  <2>1. next[s[i]] = At(s, i + 1)
    BY <1>2
  <2>2. CASE i = L
    BY <1>3, <1>5, <2>1, <2>2
  <2>3. CASE i < L
    <3>1. i + 1 \in 1..L /\ next[s[i]] = s[i + 1] /\ s[i + 1] # Null
      BY <1>1, <1>3, <2>1, <2>3
    <3> QED BY <1>5, <3>1
  <2> QED BY <2>2, <2>3
<1>9. head # Null => r[head] = 1
  BY <1>2, <1>3, <1>5
<1> QED BY <1>0, <1>6, <1>7, <1>8, <1>9

\* push_back of a node that is not linked links it last.
LEMMA PushBackLinks ==
  ASSUME NEW s, ListOf(s), List!Links(s),
         NEW n \in Nodes, n \notin ToSet(s), List!PushBack(n)
  PROVE  List!Links(Append(s, n))'
<1> DEFINE t == Append(s, n)
<1>0. PICK L \in Nat : L = Len(s)
  BY PlaceOf
<1>1. /\ \A i \in 1..L : s[i] \in Nodes /\ s[i] # Null /\ s[i] # n
      /\ \A i, j \in 1..L : s[i] = s[j] => i = j
  BY <1>0, PlaceOf
<1>2. /\ Len(t) = L + 1
      /\ \A i \in 1..L : t[i] = s[i]
      /\ t[L + 1] = n
  BY <1>0, AppendProperties DEF ListOf
<1> HIDE DEF t
<1>4. /\ head = At(s, 1) /\ tail = At(s, L) /\ len = L
      /\ \A i \in 1..L : next[s[i]] = At(s, i + 1) /\ prev[s[i]] = At(s, i - 1)
  BY <1>0, LinksAt
<1>5. \A i \in Int : At(t, i) = IF i = L + 1 THEN n ELSE At(s, i)
  BY <1>0, <1>1, <1>2 DEF At
<1>6. n # Null /\ (tail = Null <=> L = 0)
  BY <1>0, <1>1, <1>4 DEF At, ListOf
<1>7. head' = At(t, 1) /\ tail' = At(t, L + 1) /\ len' = L + 1
  BY <1>1, <1>4, <1>5, <1>6 DEF List!PushBack
<1>8. ASSUME NEW i \in 1..(L + 1)
      PROVE  next'[t[i]] = At(t, i + 1) /\ prev'[t[i]] = At(t, i - 1)
  <2>1. CASE i = L + 1
    <3>1. t[i] = n /\ n # tail
      BY <1>0, <1>1, <1>2, <1>4, <1>6, <2>1 DEF At
    <3>2. next'[n] = Null /\ prev'[n] = tail
      BY <3>1 DEF List!PushBack
    <3>3. At(t, i + 1) = Null /\ At(t, i - 1) = At(s, L)
      BY <1>0, <1>1, <1>5, <2>1 DEF At
    <3> QED BY <1>4, <3>1, <3>2, <3>3
  <2>2. CASE i = L
    <3>1. t[i] = tail /\ tail \in Nodes /\ tail # n /\ tail = s[L] /\ L \in 1..L
      BY <1>0, <1>1, <1>2, <1>4, <2>2 DEF At
    <3>2. next'[tail] = n /\ prev'[tail] = At(s, L - 1)
      BY <1>4, <3>1 DEF List!PushBack
    <3>3. At(t, i + 1) = n /\ At(t, i - 1) = At(s, L - 1)
      BY <1>1, <1>5, <2>2
    <3> QED BY <3>1, <3>2, <3>3
  <2>3. CASE i < L
    <3>1. /\ i \in 1..L /\ L \in 1..L /\ i # L
          /\ t[i] = s[i] /\ s[i] \in Nodes
          /\ s[i] # n /\ s[i] # tail
      BY <1>0, <1>1, <1>2, <1>4, <2>3 DEF At
    <3>2. next'[s[i]] = At(s, i + 1) /\ prev'[s[i]] = At(s, i - 1)
      BY <1>4, <3>1 DEF List!PushBack
    <3>3. At(t, i + 1) = At(s, i + 1) /\ At(t, i - 1) = At(s, i - 1)
      BY <1>1, <1>5, <2>3
    <3> QED BY <3>1, <3>2, <3>3
  <2> QED BY <1>1, <2>1, <2>2, <2>3
<1>9. (head = At(t, 1) /\ tail = At(t, Len(t)) /\ len = Len(t))'
  BY <1>2, <1>7
<1>10. List!Links(t)'
  BY <1>2, <1>7, <1>8 DEF List!Links, At
<1> QED BY <1>10 DEF t

\* remove of a linked node takes it out, wherever it stands, and also if it keeps
\* its own pointers.
LEMMA RemoveLinks ==
  ASSUME NEW s, ListOf(s), List!Links(s),
         NEW n \in ToSet(s), List!Remove(n) \/ List!RemoveFree(n)
  PROVE  List!Links(RemoveFirst(s, n))'
<1> DEFINE t == RemoveFirst(s, n)
<1>0. PICK L \in Nat : L = Len(s)
  BY PlaceOf
<1>1. /\ \A i \in 1..L : s[i] \in Nodes /\ s[i] # Null
      /\ \A i, j \in 1..L : s[i] = s[j] => i = j
  BY <1>0, PlaceOf
<1>2. PICK k \in 1..L :
           /\ s[k] = n
           /\ Len(t) = L - 1
           /\ \A i \in 1..(L - 1) : t[i] = IF i < k THEN s[i] ELSE s[i + 1]
  BY <1>0, RemoveFirstShape DEF ListOf
<1> HIDE DEF t
<1>3. /\ head = At(s, 1) /\ tail = At(s, L) /\ len = L
      /\ \A i \in 1..L : next[s[i]] = At(s, i + 1) /\ prev[s[i]] = At(s, i - 1)
  BY <1>0, LinksAt
<1>4. \A i \in Int : At(t, i) = IF i < k THEN At(s, i) ELSE At(s, i + 1)
  BY <1>0, <1>1, <1>2 DEF At
<1>5. /\ next[n] = At(s, k + 1) /\ prev[n] = At(s, k - 1)
      /\ next[n] = Null <=> k = L
      /\ prev[n] = Null <=> k = 1
  BY <1>0, <1>1, <1>2, <1>3 DEF At
<1>6. \A i \in 1..L : /\ s[i] = n <=> i = k
                      /\ s[i] = prev[n] <=> i = k - 1
                      /\ s[i] = next[n] <=> i = k + 1
  BY <1>0, <1>1, <1>2, <1>5 DEF At
<1>7. head' = At(t, 1) /\ tail' = At(t, L - 1) /\ len' = L - 1
  <2>1. List!Ends(n)
    BY DEF List!Remove, List!RemoveFree
  <2>2. head' = At(t, 1)
    BY <1>1, <1>3, <1>4, <1>5, <2>1 DEF List!Ends
  <2>3. tail' = At(t, L - 1)
    BY <1>1, <1>3, <1>4, <1>5, <2>1 DEF List!Ends
  <2> QED BY <1>3, <2>1, <2>2, <2>3 DEF List!Ends
<1>8. ASSUME NEW i \in 1..L, i # k
      PROVE  /\ next'[s[i]] = IF i = k - 1 THEN At(s, k + 1) ELSE At(s, i + 1)
             /\ prev'[s[i]] = IF i = k + 1 THEN At(s, k - 1) ELSE At(s, i - 1)
  <2>1. s[i] \in Nodes /\ s[i] # n
    BY <1>1, <1>6, <1>8
  <2>2. next'[s[i]] = List!NextWithout(n)[s[i]] /\ prev'[s[i]] = List!PrevWithout(n)[s[i]]
    BY <2>1 DEF List!Remove, List!RemoveFree, List!NextWithout, List!PrevWithout
  <2> QED BY <1>3, <1>5, <1>6, <1>8, <2>1, <2>2 DEF List!NextWithout, List!PrevWithout
<1>9. ASSUME NEW i \in 1..(L - 1)
      PROVE  next'[t[i]] = At(t, i + 1) /\ prev'[t[i]] = At(t, i - 1)
  <2>1. CASE i < k
    <3>1. i \in 1..L /\ i # k /\ t[i] = s[i]
      BY <1>1, <1>2, <2>1
    <3>2. /\ At(t, i + 1) = IF i = k - 1 THEN At(s, k + 1) ELSE At(s, i + 1)
          /\ At(t, i - 1) = At(s, i - 1)
      BY <1>1, <1>4, <2>1
    <3> QED BY <1>1, <1>8, <2>1, <3>1, <3>2
  <2>2. CASE i >= k
    <3>1. i + 1 \in 1..L /\ i + 1 # k /\ t[i] = s[i + 1]
      BY <1>1, <1>2, <2>2
    <3>2. /\ At(t, i + 1) = At(s, i + 1 + 1)
          /\ At(t, i - 1) = IF i = k THEN At(s, k - 1) ELSE At(s, i)
      BY <1>1, <1>4, <2>2
    <3>3. /\ next'[s[i + 1]] = At(s, i + 1 + 1)
          /\ prev'[s[i + 1]] = IF i = k THEN At(s, k - 1) ELSE At(s, i)
      BY <1>1, <1>8, <2>2, <3>1
    <3> QED BY <3>1, <3>2, <3>3
  <2> QED BY <1>1, <2>1, <2>2
<1>10. List!Links(t)'
  BY <1>2, <1>7, <1>9 DEF List!Links, At
<1> QED BY <1>10 DEF t

\* The end of a node that is not linked disturbs no list.
LEMMA FreeLinks ==
  ASSUME NEW s, ListOf(s), List!Links(s), NEW n \in Nodes, n \notin ToSet(s), List!Free(n),
         next \in [Nodes -> Nodes \union {Null}], prev \in [Nodes -> Nodes \union {Null}]
  PROVE  List!Links(s)'
<1>1. \A i \in 1..Len(s) : s[i] \in Nodes /\ s[i] # n
  BY PlaceOf
<1>2. \A i \in 1..Len(s) : next'[s[i]] = next[s[i]] /\ prev'[s[i]] = prev[s[i]]
  BY <1>1 DEF List!Free
<1> QED BY <1>2 DEF List!Links, List!Free
=============================================================================
