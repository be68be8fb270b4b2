---------------------------- MODULE Arena_memory ----------------------------
(***************************************************************************)
(* What the functions of the allocator do to its memory: the chain of free *)
(* blocks of an arena, the lists of arenas that have one, the sums of what *)
(* the host gave, the block sizes.  Whole says that memory is in order     *)
(* when the blocks B and the large blocks L are given out; taking a block, *)
(* giving it back, making an arena and dropping it keep it.                *)
(***************************************************************************)
EXTENDS Arena, FiniteSetTheorems, SequenceTheorems, TLAPS

Links == UNION {[0 .. n - 1 -> Int] : n \in Nat}
Arenas == [idx : BlockSizeIdx, n_blocks : Nat, n_used : Nat, first : Int, u : Links]

\* Arena ar, of which the blocks U are given out.
ArenaOK(ar, U) ==
  /\ ar.u \in [0 .. ar.n_blocks - 1 -> Int]
  /\ U \subseteq 0 .. ar.n_blocks - 1
  /\ ar.n_used = Cardinality(U)
  /\ ar.n_used <= ar.n_blocks
  /\ Chained(ar.first, ar.u, ar.n_blocks - ar.n_used, (0 .. ar.n_blocks - 1) \ U)
  /\ \A b \in U : ar.u[b] = b

-----------------------------------------------------------------------------
(* Chains of free blocks *)

\* Nothing is on an empty chain.
LEMMA ChainEmpty ==
  ASSUME NEW u, NEW free, free = {} PROVE Chained(FREE_NIL, u, 0, free)
<1> DEFINE c == [i \in 1 .. 0 |-> 0]
<1>1. c \in [1 .. 0 -> free]
  OBVIOUS
<1>2. FREE_NIL = Link(c, 0, 1)
  BY DEF Link
<1> HIDE DEF c
<1> QED BY <1>1, <1>2, Zenon DEF Chained

\* js_malloc_new_arena chains the blocks in order.
LEMMA ChainNew ==
  ASSUME NEW n \in Nat, n > 0
  PROVE  Chained(0, [b \in 0 .. n - 1 |-> IF b = n - 1 THEN FREE_NIL ELSE b + 1],
                 n, 0 .. n - 1)
<1> DEFINE c == [i \in 1 .. n |-> i - 1]
           u == [b \in 0 .. n - 1 |-> IF b = n - 1 THEN FREE_NIL ELSE b + 1]
<1>1. c \in [1 .. n -> 0 .. n - 1]
  OBVIOUS
<1>2. 0 = Link(c, n, 1)
  BY DEF Link
<1>3. \A i \in 1 .. n : u[c[i]] = Link(c, n, i + 1)
  BY DEF Link
<1>4. \A i, j \in 1 .. n : c[i] = c[j] => i = j
  OBVIOUS
<1>5. \A b \in 0 .. n - 1 : b + 1 \in 1 .. n /\ c[b + 1] = b
  OBVIOUS
<1>6. \A b \in 0 .. n - 1 : \E i \in 1 .. n : c[i] = b
  BY <1>5
<1> HIDE DEF c, u
<1>7. Chained(0, u, n, 0 .. n - 1)
  BY <1>1, <1>2, <1>3, <1>4, <1>6, Zenon DEF Chained
<1> QED BY <1>7 DEF u

\* The first block is taken off the chain; its header says which block it is.
LEMMA ChainPop ==
  ASSUME NEW n \in Nat, NEW u \in [0 .. n - 1 -> Int], NEW k \in Nat, k > 0,
         NEW free \in SUBSET (0 .. n - 1), NEW first, Chained(first, u, k, free)
  PROVE  /\ first \in free
         /\ Chained(u[first], [u EXCEPT ![first] = first], k - 1, free \ {first})
<1>1. PICK c \in [1 .. k -> free] :
        /\ first = Link(c, k, 1)
        /\ \A i \in 1 .. k : u[c[i]] = Link(c, k, i + 1)
        /\ \A i, j \in 1 .. k : c[i] = c[j] => i = j
        /\ \A x \in free : \E i \in 1 .. k : c[i] = x
  BY Zenon DEF Chained
<1>2. first = c[1] /\ first \in free
  BY <1>1 DEF Link
<1> DEFINE d == [i \in 1 .. k - 1 |-> c[i + 1]]
           v == [u EXCEPT ![first] = first]
           m == k - 1
<1>3. \A i \in 1 .. m : i + 1 \in 1 .. k /\ d[i] = c[i + 1] /\ c[i + 1] \in free
  OBVIOUS
<1>4. \A i \in 1 .. m : c[i + 1] # first
  <2>1. 1 \in 1 .. k /\ \A i \in 1 .. m : i + 1 \in 1 .. k /\ i + 1 # 1
    OBVIOUS
  <2> QED BY <1>1, <1>2, <2>1
<1>5. d \in [1 .. m -> free \ {first}]
  BY <1>3, <1>4
<1>6. \A x \in 0 .. n - 1 : x # first => v[x] = u[x]
  OBVIOUS
<1>7. u[first] = Link(d, m, 1)
  <2>1. u[first] = Link(c, k, 2)
    BY <1>1, <1>2
  <2> QED BY <2>1 DEF Link
<1>8. ASSUME NEW i \in 1 .. m PROVE v[d[i]] = Link(d, m, i + 1)
  <2>1. v[d[i]] = u[c[i + 1]]
    BY <1>3, <1>4, <1>6
  <2>2. u[c[i + 1]] = Link(c, k, i + 2)
    BY <1>1, <1>3
  <2>3. Link(c, k, i + 2) = Link(d, m, i + 1)
    BY DEF Link
  <2> QED BY <2>1, <2>2, <2>3
<1>9. \A i, j \in 1 .. m : d[i] = d[j] => i = j
  BY <1>1, <1>3
<1>10. ASSUME NEW x \in free \ {first} PROVE \E i \in 1 .. m : d[i] = x
  <2>1. PICK i \in 1 .. k : c[i] = x
    BY <1>1
  <2>2. i # 1
    BY <1>2, <2>1
  <2>3. i - 1 \in 1 .. m /\ (i - 1) + 1 = i
    BY <2>2
  <2>4. d[i - 1] = x
    BY <1>3, <2>1, <2>3
  <2> QED BY <2>3, <2>4, Zenon
<1>11. m \in Nat /\ k - 1 = m
  OBVIOUS
<1> HIDE DEF d, v, m
<1>12. Chained(u[first], v, m, free \ {first})
  BY <1>5, <1>7, <1>8, <1>9, <1>10, Zenon DEF Chained
<1> QED BY <1>2, <1>12 DEF v, m

\* A block is put in front of the chain.
LEMMA ChainPush ==
  ASSUME NEW n \in Nat, NEW u \in [0 .. n - 1 -> Int], NEW k \in Nat,
         NEW free \in SUBSET (0 .. n - 1), NEW first, Chained(first, u, k, free),
         NEW b \in (0 .. n - 1) \ free, first \in Int
  PROVE  Chained(b, [u EXCEPT ![b] = first], k + 1, free \cup {b})
<1>1. PICK c \in [1 .. k -> free] :
        /\ first = Link(c, k, 1)
        /\ \A i \in 1 .. k : u[c[i]] = Link(c, k, i + 1)
        /\ \A i, j \in 1 .. k : c[i] = c[j] => i = j
        /\ \A x \in free : \E i \in 1 .. k : c[i] = x
  BY Zenon DEF Chained
<1> DEFINE d == [i \in 1 .. k + 1 |-> IF i = 1 THEN b ELSE c[i - 1]]
           v == [u EXCEPT ![b] = first]
           m == k + 1
<1>2. d[1] = b /\ 1 \in 1 .. m
  OBVIOUS
<1>3. \A i \in 1 .. m : i # 1 => i - 1 \in 1 .. k /\ d[i] = c[i - 1] /\ c[i - 1] \in free
  OBVIOUS
<1>4. d \in [1 .. m -> free \cup {b}]
  BY <1>2, <1>3
<1>5. v[b] = first /\ \A x \in free : v[x] = u[x]
  OBVIOUS
<1>6. b = Link(d, m, 1)
  BY <1>2 DEF Link
<1>7. ASSUME NEW i \in 1 .. m PROVE v[d[i]] = Link(d, m, i + 1)
  <2>1. CASE i = 1
    <3>1. v[d[i]] = Link(c, k, 1)
      BY <1>1, <1>2, <1>5, <2>1
    <3>2. Link(c, k, 1) = Link(d, m, 2)
      BY DEF Link
    <3> QED BY <2>1, <3>1, <3>2
  <2>2. CASE i # 1
    <3>1. v[d[i]] = u[c[i - 1]]
      BY <1>3, <1>5, <2>2
    <3>2. u[c[i - 1]] = Link(c, k, i)
      BY <1>1, <1>3, <2>2
    <3>3. Link(c, k, i) = Link(d, m, i + 1)
      BY <2>2 DEF Link
    <3> QED BY <3>1, <3>2, <3>3
  <2> QED BY <2>1, <2>2
<1>8. ASSUME NEW i \in 1 .. m, NEW j \in 1 .. m, d[i] = d[j] PROVE i = j
  <2>1. CASE i = 1 \/ j = 1
    BY <1>2, <1>3, <1>8, <2>1
  <2>2. CASE i # 1 /\ j # 1
    <3>1. i - 1 \in 1 .. k /\ j - 1 \in 1 .. k /\ c[i - 1] = c[j - 1]
      BY <1>3, <1>8, <2>2
    <3>2. i - 1 = j - 1
      BY <1>1, <3>1
    <3> QED BY <3>2
  <2> QED BY <2>1, <2>2
<1>9. ASSUME NEW x \in free \cup {b} PROVE \E i \in 1 .. m : d[i] = x
  <2>1. CASE x = b
    BY <1>2, <2>1
  <2>2. CASE x \in free
    <3>1. PICK i \in 1 .. k : c[i] = x
      BY <1>1, <2>2
    <3>2. i + 1 \in 1 .. m /\ d[i + 1] = c[i]
      OBVIOUS
    <3> QED BY <3>1, <3>2
  <2> QED BY <2>1, <2>2
<1> HIDE DEF d, v, m
<1>10. Chained(b, v, m, free \cup {b})
  BY <1>4, <1>6, <1>7, <1>8, <1>9, Zenon DEF Chained
<1> QED BY <1>10 DEF v, m

-----------------------------------------------------------------------------
(* One arena *)

LEMMA BlocksFinite ==
  ASSUME NEW n \in Nat, NEW U \in SUBSET (0 .. n - 1)
  PROVE  IsFiniteSet(U) /\ Cardinality(U) \in Nat
<1>1. IsFiniteSet(0 .. n - 1)
  BY FS_Interval
<1> QED BY <1>1, FS_Subset, FS_CardinalityType, Zenon

LEMMA NoArenaOK == NoArena \in Arenas /\ ArenaOK(NoArena, {})
<1>1. /\ NoArena.u \in [0 .. 0 - 1 -> Int] /\ NoArena.n_blocks = 0 /\ NoArena.n_used = 0
      /\ NoArena.first = FREE_NIL
  BY DEF NoArena
<1>2. NoArena \in Arenas
  BY <1>1 DEF NoArena, Arenas, Links, BlockSizeIdx, FREE_NIL
<1>3. Cardinality({}) = 0
  BY FS_EmptySet
<1>4. (0 .. 0 - 1) \ {} = {}
  OBVIOUS
<1>5. Chained(FREE_NIL, NoArena.u, 0, (0 .. 0 - 1) \ {})
  BY <1>4, ChainEmpty
<1>6. 0 - 0 = 0
  OBVIOUS
<1>7. Chained(NoArena.first, NoArena.u, NoArena.n_blocks - NoArena.n_used,
              (0 .. NoArena.n_blocks - 1) \ {})
  BY <1>1, <1>5, <1>6, Zenon
<1> QED BY <1>1, <1>2, <1>3, <1>7 DEF ArenaOK

LEMMA NewOne ==
  ASSUME NEW idx \in BlockSizeIdx, NEW n \in Nat, n > 0, NEW ar,
         ar = [idx |-> idx, n_blocks |-> n, n_used |-> 0, first |-> 0,
               u |-> [b \in 0 .. n - 1 |-> IF b = n - 1 THEN FREE_NIL ELSE b + 1]]
  PROVE  ar \in Arenas /\ ArenaOK(ar, {}) /\ ar.idx = idx /\ ar.n_blocks = n /\ ar.n_used = 0
<1> DEFINE u == [b \in 0 .. n - 1 |-> IF b = n - 1 THEN FREE_NIL ELSE b + 1]
<1>1. u \in [0 .. n - 1 -> Int]
  BY DEF FREE_NIL
<1>2. Chained(0, u, n, 0 .. n - 1)
  BY ChainNew
<1> HIDE DEF u
<1>3. ar = [idx |-> idx, n_blocks |-> n, n_used |-> 0, first |-> 0, u |-> u]
  BY DEF u
<1>4. ar.u = u /\ ar.n_blocks = n /\ ar.n_used = 0 /\ ar.first = 0 /\ ar.idx = idx
  BY <1>3
<1>5. ar \in Arenas
  BY <1>1, <1>3 DEF Arenas, Links
<1>6. Cardinality({}) = 0
  BY FS_EmptySet
<1>7. (0 .. n - 1) \ {} = 0 .. n - 1 /\ n - 0 = n
  OBVIOUS
<1>8. Chained(ar.first, ar.u, ar.n_blocks - ar.n_used, (0 .. ar.n_blocks - 1) \ {})
  BY <1>2, <1>4, <1>7, Zenon
<1>9. ar.n_used <= ar.n_blocks /\ {} \subseteq 0 .. ar.n_blocks - 1
  BY <1>4
<1>10. ar.u \in [0 .. ar.n_blocks - 1 -> Int]
  BY <1>1, <1>4, Zenon
<1> QED BY <1>4, <1>5, <1>6, <1>8, <1>9, <1>10, Zenon DEF ArenaOK

\* What is known of the fields of an arena.
LEMMA Fields ==
  ASSUME NEW ar \in Arenas, NEW U, ArenaOK(ar, U)
  PROVE  /\ ar.n_blocks \in Nat /\ ar.n_used \in Nat /\ ar.first \in Int
         /\ ar.idx \in BlockSizeIdx
         /\ ar.u \in [0 .. ar.n_blocks - 1 -> Int]
         /\ ar.n_used <= ar.n_blocks
         /\ U \in SUBSET (0 .. ar.n_blocks - 1)
         /\ IsFiniteSet(U)
         /\ ar.n_used = Cardinality(U)
<1>1. ar.n_blocks \in Nat /\ ar.n_used \in Nat /\ ar.first \in Int /\ ar.idx \in BlockSizeIdx
  BY DEF Arenas
<1>2. U \in SUBSET (0 .. ar.n_blocks - 1)
  BY DEF ArenaOK
<1> QED BY <1>1, <1>2, BlocksFinite, Zenon DEF ArenaOK

\* A block that is taken was free, and is off the chain.
Taken1(ar) ==
  [ar EXCEPT !.first = ar.u[ar.first], !.u[ar.first] = ar.first, !.n_used = @ + 1]
TakenFrom(ar, ar2, U) ==
  /\ ar.first \in (0 .. ar.n_blocks - 1) \ U
  /\ ar2 \in Arenas
  /\ ArenaOK(ar2, U \cup {ar.first})
  /\ ar2.idx = ar.idx /\ ar2.n_blocks = ar.n_blocks /\ ar2.n_used = ar.n_used + 1
LEMMA TakeOne ==
  ASSUME NEW ar \in Arenas, NEW U, ArenaOK(ar, U), ar.n_used < ar.n_blocks
  PROVE  TakenFrom(ar, Taken1(ar), U)
<1> DEFINE ar2 == Taken1(ar)
           n == ar.n_blocks
           k == n - ar.n_used
           free == (0 .. n - 1) \ U
           b == ar.first
           v == [ar.u EXCEPT ![b] = b]
<1>1. n \in Nat /\ ar.n_used \in Nat /\ k \in Nat /\ k > 0 /\ ar.u \in [0 .. n - 1 -> Int]
      /\ IsFiniteSet(U) /\ U \subseteq 0 .. n - 1 /\ ar.n_used = Cardinality(U)
      /\ ar.first \in Int
  BY Fields
<1>2. Chained(b, ar.u, k, free) /\ \A x \in U : ar.u[x] = x
  BY DEF ArenaOK
<1>3. free \in SUBSET (0 .. n - 1)
  OBVIOUS
<1>0. ar.n_blocks = n
  OBVIOUS
<1> HIDE DEF n, k, free, b, v
<1>4. b \in free /\ Chained(ar.u[b], v, k - 1, free \ {b})
  BY <1>1, <1>2, <1>3, ChainPop, Zenon DEF v
<1>5. b \in 0 .. n - 1 /\ b \notin U
  BY <1>4 DEF free
<1>6. ar.u[b] \in Int /\ b \in Int /\ ar.n_used + 1 \in Nat
  BY <1>1, <1>5
<1>7. ar2 = [ar EXCEPT !.first = ar.u[b], !.u = v, !.n_used = ar.n_used + 1]
  BY DEF b, v, Arenas, Taken1
<1> HIDE DEF ar2
<1>9. v \in [0 .. n - 1 -> Int] /\ v[b] = b /\ \A x \in U : v[x] = ar.u[x]
  BY <1>1, <1>5, <1>6 DEF v
<1>8. /\ ar2 \in Arenas /\ ar2.first = ar.u[b] /\ ar2.n_used = ar.n_used + 1 /\ ar2.u = v
      /\ ar2.idx = ar.idx /\ ar2.n_blocks = n
  <2>1. v \in Links
    BY <1>1, <1>9 DEF Links
  <2>2. ar \in [idx : BlockSizeIdx, n_blocks : Nat, n_used : Nat, first : Int, u : Links]
    BY DEF Arenas
  <2> QED BY <1>0, <1>6, <1>7, <2>1, <2>2, Zenon DEF Arenas
<1>10. Cardinality(U \cup {b}) = ar.n_used + 1
  BY <1>1, <1>5, FS_AddElement, Zenon
<1>11. (0 .. n - 1) \ (U \cup {b}) = free \ {b}
  BY DEF free
<1>12. n - (ar.n_used + 1) = k - 1 /\ ar.n_used + 1 <= n
  BY <1>1 DEF k
<1>13. Chained(ar2.first, ar2.u, ar2.n_blocks - ar2.n_used, (0 .. n - 1) \ (U \cup {b}))
  BY <1>4, <1>8, <1>11, <1>12, Zenon
<1>14. U \cup {b} \subseteq 0 .. n - 1 /\ \A x \in U \cup {b} : v[x] = x
  BY <1>1, <1>2, <1>5, <1>9, Zenon
<1>15. ArenaOK(ar2, U \cup {b})
  BY <1>8, <1>9, <1>10, <1>12, <1>13, <1>14, Zenon DEF ArenaOK
<1> QED BY <1>5, <1>8, <1>15, Zenon DEF b, n, ar2, TakenFrom

\* A block that is put back is free and on the chain.
Put1(ar, b) == [ar EXCEPT !.u[ar.u[b]] = ar.first, !.first = ar.u[b], !.n_used = @ - 1]
PutBack(ar, ar2, U, b) ==
  /\ ar.n_used >= 1
  /\ ar2 \in Arenas
  /\ ArenaOK(ar2, U \ {b})
  /\ ar2.idx = ar.idx /\ ar2.n_blocks = ar.n_blocks /\ ar2.n_used = ar.n_used - 1
LEMMA PutOne ==
  ASSUME NEW ar \in Arenas, NEW U, ArenaOK(ar, U), NEW b \in U
  PROVE  PutBack(ar, Put1(ar, b), U, b)
<1> DEFINE ar2 == Put1(ar, b)
           n == ar.n_blocks
           k == n - ar.n_used
           free == (0 .. n - 1) \ U
           v == [ar.u EXCEPT ![b] = ar.first]
<1>1. n \in Nat /\ ar.n_used \in Nat /\ k \in Nat /\ ar.u \in [0 .. n - 1 -> Int]
      /\ IsFiniteSet(U) /\ U \subseteq 0 .. n - 1 /\ ar.n_used = Cardinality(U)
      /\ ar.first \in Int
  BY Fields
<1>2. Chained(ar.first, ar.u, k, free) /\ \A x \in U : ar.u[x] = x
  BY DEF ArenaOK
<1>3. free \in SUBSET (0 .. n - 1) /\ b \in (0 .. n - 1) \ free /\ b \in 0 .. n - 1
  BY <1>1
<1>4. ar.u[b] = b
  BY <1>2
<1>0. ar.n_blocks = n
  OBVIOUS
<1> HIDE DEF n, k, free, v
<1>5. Chained(b, v, k + 1, free \cup {b})
  BY <1>1, <1>2, <1>3, ChainPush DEF v
<1>6. Cardinality(U \ {b}) = ar.n_used - 1 /\ Cardinality(U \ {b}) \in Nat
  BY <1>1, FS_RemoveElement, FS_CardinalityType
<1>7. ar.n_used >= 1 /\ ar.n_used - 1 \in Nat /\ b \in Int
  BY <1>1, <1>3, <1>6
<1>8. ar2 = [ar EXCEPT !.first = b, !.u = v, !.n_used = ar.n_used - 1]
  BY <1>4, Zenon DEF v, Arenas, Put1
<1> HIDE DEF ar2
<1>10. v \in [0 .. n - 1 -> Int] /\ \A x \in U \ {b} : v[x] = ar.u[x]
  BY <1>1, <1>3 DEF v
<1>9. /\ ar2 \in Arenas /\ ar2.first = b /\ ar2.n_used = ar.n_used - 1 /\ ar2.u = v
      /\ ar2.idx = ar.idx /\ ar2.n_blocks = n
  <2>1. v \in Links
    BY <1>1, <1>10 DEF Links
  <2>2. ar \in [idx : BlockSizeIdx, n_blocks : Nat, n_used : Nat, first : Int, u : Links]
    BY DEF Arenas
  <2> QED BY <1>0, <1>7, <1>8, <2>1, <2>2, Zenon DEF Arenas
<1>11. (0 .. n - 1) \ (U \ {b}) = free \cup {b}
  BY <1>3 DEF free
<1>12. n - (ar.n_used - 1) = k + 1 /\ ar.n_used - 1 <= n
  BY <1>1 DEF k
<1>13. Chained(ar2.first, ar2.u, ar2.n_blocks - ar2.n_used, (0 .. n - 1) \ (U \ {b}))
  BY <1>5, <1>9, <1>11, <1>12, Zenon
<1>14. U \ {b} \subseteq 0 .. n - 1 /\ \A x \in U \ {b} : v[x] = x
  BY <1>1, <1>2, <1>10, Zenon
<1>15. ArenaOK(ar2, U \ {b})
  BY <1>6, <1>9, <1>10, <1>12, <1>13, <1>14, Zenon DEF ArenaOK
<1> QED BY <1>7, <1>9, <1>15, Zenon DEF n, ar2, PutBack

-----------------------------------------------------------------------------
(* The lists of arenas with a free block *)

\* The list s holds the members of S, each of them once.
Enumerates(s, S) ==
  /\ s \in Seq(Address)
  /\ \A k \in 1 .. Len(s) : s[k] \in S
  /\ \A k, l \in 1 .. Len(s) : s[k] = s[l] => k = l
  /\ \A x \in S : \E k \in 1 .. Len(s) : s[k] = x

LEMMA ListAdd ==
  ASSUME NEW s, NEW S, Enumerates(s, S), NEW a \in Address, a \notin S
  PROVE  Enumerates(<<a>> \o s, S \cup {a})
<1> DEFINE t == <<a>> \o s
<1>1. s \in Seq(Address) /\ Len(s) \in Nat
  BY DEF Enumerates
<1>2. t \in Seq(Address) /\ Len(t) = Len(s) + 1 /\ t[1] = a
      /\ \A k \in 1 .. Len(s) : t[k + 1] = s[k]
  BY <1>1
<1>3. \A k \in 1 .. Len(t) : k # 1 => k - 1 \in 1 .. Len(s) /\ t[k] = s[k - 1]
  <2> TAKE k \in 1 .. Len(t)
  <2> HAVE k # 1
  <2>1. k - 1 \in 1 .. Len(s) /\ (k - 1) + 1 = k
    BY <1>1, <1>2
  <2> QED BY <1>2, <2>1
<1>4. \A k \in 1 .. Len(s) : k + 1 \in 1 .. Len(t)
  BY <1>1, <1>2
<1>5. 1 \in 1 .. Len(t) /\ \A k \in 1 .. Len(t) : k \in Int
  BY <1>1, <1>2
<1> HIDE DEF t
<1>6. \A k \in 1 .. Len(t) : t[k] \in S \cup {a}
  BY <1>2, <1>3, Zenon DEF Enumerates
<1>7. ASSUME NEW k \in 1 .. Len(t), NEW l \in 1 .. Len(t), t[k] = t[l] PROVE k = l
  <2>1. CASE k = 1 \/ l = 1
    <3>1. \A i \in 1 .. Len(t) : i # 1 => t[i] # a
      <4>1. \A i \in 1 .. Len(s) : s[i] # a
        BY DEF Enumerates
      <4> QED BY <1>3, <4>1, Zenon
    <3> QED BY <1>2, <1>7, <2>1, <3>1, Zenon
  <2>2. CASE k # 1 /\ l # 1
    <3>1. k - 1 \in 1 .. Len(s) /\ l - 1 \in 1 .. Len(s) /\ s[k - 1] = s[l - 1]
      BY <1>3, <1>7, <2>2
    <3>2. k - 1 = l - 1
      BY <3>1, Zenon DEF Enumerates
    <3> QED BY <1>5, <3>2
  <2> QED BY <2>1, <2>2
<1>8. \A x \in S \cup {a} : \E k \in 1 .. Len(t) : t[k] = x
  <2>1. \E k \in 1 .. Len(t) : t[k] = a
    BY <1>2, <1>5
  <2>2. ASSUME NEW x \in S PROVE \E k \in 1 .. Len(t) : t[k] = x
    <3>1. PICK k \in 1 .. Len(s) : s[k] = x
      BY DEF Enumerates
    <3> QED BY <1>2, <1>4, <3>1
  <2> QED BY <2>1, <2>2
<1>9. Enumerates(t, S \cup {a})
  BY <1>2, <1>6, <1>7, <1>8 DEF Enumerates
<1> QED BY <1>9 DEF t

LEMMA ListDel ==
  ASSUME NEW s, NEW S, Enumerates(s, S), NEW a \in S
  PROVE  Enumerates(list_del(s, a), S \ {a})
<1> DEFINE j == CHOOSE k \in 1 .. Len(s) : s[k] = a
           t == SubSeq(s, 1, j - 1) \o SubSeq(s, j + 1, Len(s))
           n == Len(s)
<1>1. s \in Seq(Address) /\ n \in Nat
  BY DEF Enumerates
<1>2. j \in 1 .. n /\ s[j] = a
  BY DEF Enumerates
<1> HIDE DEF j
<1>3. t \in Seq(Address) /\ Len(t) = n - 1
      /\ \A k \in 1 .. n - 1 : t[k] = IF k < j THEN s[k] ELSE s[k + 1]
  <2> DEFINE x == SubSeq(s, 1, j - 1)
             y == SubSeq(s, j + 1, n)
  <2>1. x \in Seq(Address) /\ Len(x) = j - 1 /\ \A k \in 1 .. j - 1 : x[k] = s[k]
    BY <1>1, <1>2
  <2>2. y \in Seq(Address) /\ Len(y) = n - j /\ \A k \in 1 .. n - j : y[k] = s[j + k]
    BY <1>1, <1>2
  <2>3. t = x \o y
    OBVIOUS
  <2> HIDE DEF x, y, t, n
  <2>4. t \in Seq(Address) /\ Len(t) = n - 1
    <3>1. t \in Seq(Address) /\ Len(t) = Len(x) + Len(y)
      BY <2>1, <2>2, <2>3, ConcatProperties, Zenon
    <3>2. (j - 1) + (n - j) = n - 1
      BY <1>1, <1>2
    <3> QED BY <2>1, <2>2, <3>1, <3>2
  <2>5. ASSUME NEW k \in 1 .. n - 1 PROVE t[k] = IF k < j THEN s[k] ELSE s[k + 1]
    <3>1. CASE k < j
      <4>1. k \in 1 .. j - 1
        BY <1>2, <3>1
      <4>2. t[k] = x[k]
        BY <2>1, <2>2, <2>3, <4>1
      <4> QED BY <2>1, <3>1, <4>1, <4>2
    <3>2. CASE ~(k < j)
      <4>1. k - (j - 1) \in 1 .. n - j /\ j + (k - (j - 1)) = k + 1 /\ ~(k <= j - 1)
        BY <1>1, <1>2, <3>2
      <4>2. k \in 1 .. Len(x) + Len(y)
        BY <1>1, <1>2, <2>1, <2>2
      <4>3. t[k] = y[k - Len(x)]
        BY <2>1, <2>2, <2>3, <4>1, <4>2
      <4>4. t[k] = s[k + 1]
        BY <2>1, <2>2, <4>1, <4>3
      <4> QED BY <3>2, <4>4
    <3> QED BY <3>1, <3>2
  <2> QED BY <2>4, <2>5
<1> HIDE DEF t
<1> DEFINE At(k) == IF k < j THEN k ELSE k + 1
<1>4. ASSUME NEW k \in 1 .. n - 1
      PROVE  At(k) \in 1 .. n /\ At(k) # j /\ t[k] = s[At(k)]
  BY <1>1, <1>2, <1>3
<1>5. \A k, l \in 1 .. n - 1 : At(k) = At(l) => k = l
  BY <1>1, <1>2
<1>6. \A i \in 1 .. n : i # j => \E k \in 1 .. n - 1 : At(k) = i
  <2> TAKE i \in 1 .. n
  <2> HAVE i # j
  <2>1. CASE i < j
    <3>1. i \in 1 .. n - 1 /\ At(i) = i
      BY <1>1, <1>2, <2>1
    <3> QED BY <3>1
  <2>2. CASE i > j
    <3>1. i - 1 \in 1 .. n - 1 /\ At(i - 1) = i
      BY <1>1, <1>2, <2>2
    <3> QED BY <3>1
  <2> QED BY <1>2, <2>1, <2>2
<1>7. /\ \A k \in 1 .. n : s[k] \in S
      /\ \A k, l \in 1 .. n : s[k] = s[l] => k = l
      /\ \A x \in S : \E k \in 1 .. n : s[k] = x
  BY DEF Enumerates
<1> HIDE DEF At, n
<1>8. \A k \in 1 .. n - 1 : t[k] \in S \ {a}
  BY <1>2, <1>4, <1>7
<1>9. \A k, l \in 1 .. n - 1 : t[k] = t[l] => k = l
  BY <1>4, <1>5, <1>7
<1>10. \A x \in S \ {a} : \E k \in 1 .. n - 1 : t[k] = x
  BY <1>2, <1>4, <1>6, <1>7
<1>11. Enumerates(t, S \ {a})
  BY <1>3, <1>8, <1>9, <1>10 DEF Enumerates
<1> QED BY <1>11 DEF t, j, list_del

LEMMA ListFirst ==
  ASSUME NEW s, NEW S, Enumerates(s, S), s # <<>> PROVE s[1] \in S /\ s[1] \in Address
<1>1. s \in Seq(Address) /\ 1 \in 1 .. Len(s)
  BY DEF Enumerates
<1> QED BY <1>1 DEF Enumerates

-----------------------------------------------------------------------------
(* Sums over the addresses *)

Below == {p \in Nat \X Nat : p[1] < p[2]}

\* Induction over the natural numbers, for a set.
LEMMA Induction ==
  ASSUME NEW S \in SUBSET Nat, 0 \in S, \A k \in S : k + 1 \in S
  PROVE  S = Nat
<1> DEFINE T == Nat \ S
<1> SUFFICES ASSUME T # {} PROVE FALSE
  BY Zenon
<1>1. IsWellFoundedOn(Below, Nat)
  BY NatLessThanWellFounded DEF OpToRel, Below
<1>2. PICK x \in T : \A y \in T : <<y, x>> \notin Below
  <2>1. T \subseteq Nat
    OBVIOUS
  <2> HIDE DEF T
  <2> QED BY <1>1, <2>1, WFMin, Zenon
<1>3. x # 0 /\ x - 1 \in Nat /\ x - 1 < x
  BY <1>2
<1>4. <<x - 1, x>> \in Below
  BY <1>3 DEF Below
<1> QED BY <1>2, <1>3, <1>4

\* The smallest member of a set of natural numbers.
LEMMA MinIn == ASSUME NEW T \in SUBSET Nat, T # {} PROVE Min(T) \in T
<1>1. IsWellFoundedOn(Below, Nat)
  BY NatLessThanWellFounded DEF OpToRel, Below
<1>2. PICK x \in T : \A y \in T : <<y, x>> \notin Below
  BY <1>1, WFMin, Zenon
<1>3. \A a, b \in Nat : a < b => <<a, b>> \in Below
  BY DEF Below
<1>4. ASSUME NEW y \in T PROVE x <= y
  <2>1. x \in Nat /\ y \in Nat
    OBVIOUS
  <2>2. ~(y < x)
    BY <1>2, <1>3, <2>1, Zenon
  <2> QED BY <2>1, <2>2
<1> QED BY <1>4, Zenon DEF Min

Sums == [Address -> Nat]

\* g holds the sums of f over the first 0, 1, ... addresses.
SumsOf(g, f) == g = [n \in 0 .. MaxAddresses |-> IF n = 0 THEN 0 ELSE g[n - 1] + f[n]]

\* The same, as far as k.
SumsTo(g, f, k) ==
  /\ g \in [0 .. k -> Nat]
  /\ g[0] = 0
  /\ \A n \in 1 .. k : g[n] = g[n - 1] + f[n]

\* The recursive function of SumOver exists.
LEMMA SumsExist == ASSUME NEW f \in Sums PROVE \E g : SumsTo(g, f, MaxAddresses)
<1> DEFINE S == {k \in Nat : k <= MaxAddresses => \E g : SumsTo(g, f, k)}
<1>0. MaxAddresses \in Nat
  BY ArenaAssumption
<1>1. 0 \in S
  <2>1. SumsTo([i \in 0 .. 0 |-> 0], f, 0)
    BY DEF SumsTo
  <2> QED BY <2>1
<1>2. ASSUME NEW k \in S PROVE k + 1 \in S
  <2> SUFFICES ASSUME k + 1 <= MaxAddresses PROVE \E g : SumsTo(g, f, k + 1)
    OBVIOUS
  <2>1. PICK g : SumsTo(g, f, k)
    BY <1>0
  <2> DEFINE e == f[k + 1]
             h == [i \in 0 .. (k + 1) |-> IF i <= k THEN g[i] ELSE g[k] + e]
  <2>2. k \in Nat /\ e \in Nat
    BY <1>0 DEF Sums, Address
  <2>3. g \in [0 .. k -> Nat] /\ g[0] = 0 /\ \A i \in 1 .. k : g[i] = g[i - 1] + f[i]
    BY <2>1 DEF SumsTo
  <2> HIDE DEF e
  <2>4. h \in [0 .. (k + 1) -> Nat] /\ h[0] = 0
    BY <2>2, <2>3
  <2>5. ASSUME NEW i \in 1 .. (k + 1) PROVE h[i] = h[i - 1] + f[i]
    <3>1. CASE i <= k
      BY <2>2, <2>3, <3>1
    <3>2. CASE i = k + 1
      BY <2>2, <2>3, <3>2 DEF e
    <3> QED BY <2>2, <3>1, <3>2
  <2> QED BY <2>4, <2>5, Zenon DEF SumsTo
<1>3. S = Nat
  BY <1>1, <1>2, Induction, Zenon
<1> HIDE DEF S
<1>4. MaxAddresses \in S
  BY <1>0, <1>3
<1> QED BY <1>0, <1>4 DEF S

LEMMA SumIs ==
  ASSUME NEW f \in Sums
  PROVE  \E g : /\ g[0] = 0 /\ \A n \in 1 .. MaxAddresses : g[n] = g[n - 1] + f[n]
                /\ SumOver(f) = g[MaxAddresses]
<1> DEFINE c == CHOOSE g : SumsOf(g, f)
<1>0. MaxAddresses \in Nat
  BY ArenaAssumption
<1>1. PICK g : SumsTo(g, f, MaxAddresses)
  BY SumsExist
<1>2. SumsOf(g, f)
  BY <1>0, <1>1 DEF SumsTo, SumsOf
<1>3. SumsOf(c, f)
  BY <1>2
<1>4. SumOver(f) = c[MaxAddresses]
  BY DEF SumOver, SumsOf
<1> HIDE DEF c
<1>5. c[0] = 0 /\ \A n \in 1 .. MaxAddresses : c[n] = c[n - 1] + f[n]
  BY <1>0, <1>3 DEF SumsOf
<1> QED BY <1>4, <1>5

\* One entry changes, and the sum changes by as much.
LEMMA SumUpdate ==
  ASSUME NEW f \in Sums, NEW a \in Address, NEW v \in Nat
  PROVE  /\ SumOver(f) \in Nat
         /\ SumOver([f EXCEPT ![a] = v]) = SumOver(f) - f[a] + v
<1> DEFINE h == [f EXCEPT ![a] = v]
<1>0. MaxAddresses \in Nat /\ a \in 1 .. MaxAddresses /\ f[a] \in Nat
      /\ \A n \in 1 .. MaxAddresses : f[n] \in Nat
  BY ArenaAssumption DEF Address, Sums
<1>1. h \in Sums /\ h[a] = v /\ \A n \in 1 .. MaxAddresses : n # a => h[n] = f[n]
  BY DEF Address, Sums
<1> HIDE DEF h
<1>2. PICK g : /\ g[0] = 0 /\ \A n \in 1 .. MaxAddresses : g[n] = g[n - 1] + f[n]
               /\ SumOver(f) = g[MaxAddresses]
  BY SumIs
<1>3. PICK e : /\ e[0] = 0 /\ \A n \in 1 .. MaxAddresses : e[n] = e[n - 1] + h[n]
               /\ SumOver(h) = e[MaxAddresses]
  BY <1>1, SumIs
<1> DEFINE d(n) == IF n < a THEN 0 ELSE v - f[a]
           S == {n \in Nat : n <= MaxAddresses => g[n] \in Nat /\ e[n] = g[n] + d(n)}
<1>4. 0 \in S
  BY <1>0, <1>2, <1>3
<1>5. ASSUME NEW k \in S PROVE k + 1 \in S
  <2> SUFFICES ASSUME k + 1 <= MaxAddresses
               PROVE  g[k + 1] \in Nat /\ e[k + 1] = g[k + 1] + d(k + 1)
    OBVIOUS
  <2>1. k \in Nat /\ k + 1 \in 1 .. MaxAddresses /\ (k + 1) - 1 = k /\ k <= MaxAddresses
    BY <1>0
  <2>2. g[k] \in Nat /\ e[k] = g[k] + d(k)
    BY <2>1
  <2>3. g[k + 1] = g[k] + f[k + 1] /\ e[k + 1] = e[k] + h[k + 1]
    BY <1>2, <1>3, <2>1
  <2>4. f[k + 1] \in Nat
    BY <1>0, <2>1
  <2>5. CASE k + 1 = a
    BY <1>0, <1>1, <2>1, <2>2, <2>3, <2>4, <2>5
  <2>6. CASE k + 1 # a
    <3>1. h[k + 1] = f[k + 1] /\ d(k + 1) = d(k)
      BY <1>0, <1>1, <2>1, <2>6
    <3>2. d(k) \in Int
      BY <1>0
    <3> HIDE DEF d
    <3> QED BY <2>2, <2>3, <2>4, <3>1, <3>2
  <2> QED BY <2>5, <2>6
<1>6. S = Nat
  BY <1>4, <1>5, Induction, Zenon
<1>7. MaxAddresses \in S
  <2> HIDE DEF S
  <2> QED BY <1>0, <1>6
<1>8. g[MaxAddresses] \in Nat /\ e[MaxAddresses] = g[MaxAddresses] + (v - f[a])
  BY <1>0, <1>7
<1>9. SumOver(h) = SumOver(f) - f[a] + v
  BY <1>0, <1>2, <1>3, <1>8
<1> QED BY <1>2, <1>8, <1>9 DEF h

\* A sum of smaller entries is smaller.
LEMMA SumMono ==
  ASSUME NEW f \in Sums, NEW h \in Sums, \A a \in Address : f[a] <= h[a]
  PROVE  SumOver(f) <= SumOver(h)
<1>0. MaxAddresses \in Nat /\ \A n \in 1 .. MaxAddresses : f[n] \in Nat /\ h[n] \in Nat /\ f[n] <= h[n]
  BY ArenaAssumption DEF Address, Sums
<1>1. PICK g : /\ g[0] = 0 /\ \A n \in 1 .. MaxAddresses : g[n] = g[n - 1] + f[n]
               /\ SumOver(f) = g[MaxAddresses]
  BY SumIs
<1>2. PICK e : /\ e[0] = 0 /\ \A n \in 1 .. MaxAddresses : e[n] = e[n - 1] + h[n]
               /\ SumOver(h) = e[MaxAddresses]
  BY SumIs
<1> DEFINE S == {n \in Nat : n <= MaxAddresses => g[n] \in Nat /\ e[n] \in Nat /\ g[n] <= e[n]}
<1>3. 0 \in S
  BY <1>1, <1>2
<1>4. ASSUME NEW k \in S PROVE k + 1 \in S
  <2> SUFFICES ASSUME k + 1 <= MaxAddresses
               PROVE  g[k + 1] \in Nat /\ e[k + 1] \in Nat /\ g[k + 1] <= e[k + 1]
    OBVIOUS
  <2>1. k \in Nat /\ k + 1 \in 1 .. MaxAddresses /\ (k + 1) - 1 = k /\ k <= MaxAddresses
    BY <1>0
  <2>2. g[k] \in Nat /\ e[k] \in Nat /\ g[k] <= e[k]
    BY <2>1
  <2>3. g[k + 1] = g[k] + f[k + 1] /\ e[k + 1] = e[k] + h[k + 1]
    BY <1>1, <1>2, <2>1
  <2>4. f[k + 1] \in Nat /\ h[k + 1] \in Nat /\ f[k + 1] <= h[k + 1]
    BY <1>0, <2>1
  <2> QED BY <2>2, <2>3, <2>4
<1>5. S = Nat
  BY <1>3, <1>4, Induction, Zenon
<1>6. MaxAddresses \in S
  <2> HIDE DEF S
  <2> QED BY <1>0, <1>5
<1> QED BY <1>0, <1>1, <1>2, <1>6

-----------------------------------------------------------------------------
(* What the host has given *)

Given(H) == {a \in Address : H[a] # Nothing}

\* The bytes and blocks that are counted are those of the host, and the bytes
\* that were asked for (K) are within the limit.
Counted(H, K, size, count) ==
  /\ \A a \in Address : K[a] <= H[a]
  /\ size = SumOver(H) + Overhead * Cardinality(Given(H))
  /\ count = Cardinality(Given(H))
  /\ SumOver(K) <= program.limit

LEMMA GivenFinite ==
  ASSUME NEW H PROVE IsFiniteSet(Given(H)) /\ Cardinality(Given(H)) \in Nat
<1>1. IsFiniteSet(Address)
  BY ArenaAssumption, FS_Interval DEF Address
<1>2. Given(H) \subseteq Address
  BY DEF Given
<1> QED BY <1>1, <1>2, FS_Subset, FS_CardinalityType

\* No host block: nothing is counted.
LEMMA SumZero == SumOver([a \in Address |-> Nothing]) = 0
<1> DEFINE f == [a \in Address |-> Nothing]
<1>0. MaxAddresses \in Nat /\ f \in Sums /\ \A n \in 1 .. MaxAddresses : f[n] = 0
  BY ArenaAssumption DEF Address, Sums, Nothing
<1> HIDE DEF f
<1>1. PICK g : /\ g[0] = 0 /\ \A n \in 1 .. MaxAddresses : g[n] = g[n - 1] + f[n]
               /\ SumOver(f) = g[MaxAddresses]
  BY <1>0, SumIs
<1> DEFINE S == {n \in Nat : n <= MaxAddresses => g[n] = 0}
<1>2. 0 \in S
  BY <1>1
<1>3. ASSUME NEW k \in S PROVE k + 1 \in S
  <2> SUFFICES ASSUME k + 1 <= MaxAddresses PROVE g[k + 1] = 0
    OBVIOUS
  <2>1. k + 1 \in 1 .. MaxAddresses /\ (k + 1) - 1 = k /\ g[k] = 0
    BY <1>0
  <2> QED BY <1>0, <1>1, <2>1
<1>4. S = Nat
  BY <1>2, <1>3, Induction, Zenon
<1>5. MaxAddresses \in S
  <2> HIDE DEF S
  <2> QED BY <1>0, <1>4
<1> QED BY <1>0, <1>1, <1>5 DEF f

\* js_def_malloc counts what it asks for and what it gets.
LEMMA CountMalloc ==
  ASSUME NEW H \in Sums, NEW K \in Sums, NEW size \in Int, NEW count \in Int,
         Counted(H, K, size, count), NEW a \in Address, H[a] = Nothing,
         NEW w \in Nat, w > 0, NEW x \in Nat, size + w <= program.limit, program.limit \in Nat
  PROVE  Counted([H EXCEPT ![a] = w + x], [K EXCEPT ![a] = w], size + w + x + Overhead, count + 1)
<1> DEFINE H2 == [H EXCEPT ![a] = w + x]
           K2 == [K EXCEPT ![a] = w]
           c == Cardinality(Given(H))
<1>1. H[a] = 0 /\ K[a] = 0 /\ \A y \in Address : K[y] \in Nat /\ H[y] \in Nat
  BY DEF Counted, Nothing, Sums
<1>2. SumOver(H) \in Nat /\ SumOver(H2) = SumOver(H) - 0 + (w + x)
  BY <1>1, SumUpdate
<1>3. SumOver(K) \in Nat /\ SumOver(K2) = SumOver(K) - 0 + w
  BY <1>1, SumUpdate
<1>4. SumOver(K) <= SumOver(H)
  BY SumMono DEF Counted
<1>5. Given(H2) = Given(H) \cup {a} /\ a \notin Given(H)
  BY <1>1 DEF Given, Sums, Nothing
<1>6. c \in Nat /\ Cardinality(Given(H2)) = c + 1
  BY <1>5, GivenFinite, FS_AddElement, Zenon
<1>7. \A y \in Address : K2[y] <= H2[y]
  BY DEF Counted, Sums
<1>8. size = SumOver(H) + 8 * c /\ count = c
  BY DEF Counted, Overhead
<1> HIDE DEF H2, K2, c
<1>9. size + w + x + 8 = SumOver(H2) + 8 * (c + 1)
  BY <1>2, <1>6, <1>8
<1>10. SumOver(K2) <= program.limit
  BY <1>2, <1>3, <1>4, <1>6, <1>8
<1>11. Counted(H2, K2, size + w + x + Overhead, count + 1)
  BY <1>6, <1>7, <1>8, <1>9, <1>10 DEF Counted, Overhead
<1> QED BY <1>11 DEF H2, K2

\* js_def_free takes it off again.
LEMMA CountFree ==
  ASSUME NEW H \in Sums, NEW K \in Sums, NEW size \in Int, NEW count \in Int,
         Counted(H, K, size, count), NEW a \in Address, H[a] # Nothing, program.limit \in Nat
  PROVE  Counted([H EXCEPT ![a] = Nothing], [K EXCEPT ![a] = Nothing],
                 size - (H[a] + Overhead), count - 1)
<1> DEFINE H2 == [H EXCEPT ![a] = Nothing]
           K2 == [K EXCEPT ![a] = Nothing]
           c == Cardinality(Given(H))
<1>1. \A y \in Address : K[y] \in Nat /\ H[y] \in Nat
  BY DEF Sums
<1>2. SumOver(H) \in Nat /\ SumOver(H2) = SumOver(H) - H[a] + 0
  BY <1>1, SumUpdate, Zenon DEF Nothing
<1>3. SumOver(K) \in Nat /\ SumOver(K2) = SumOver(K) - K[a] + 0
  BY <1>1, SumUpdate, Zenon DEF Nothing
<1>4. Given(H2) = Given(H) \ {a} /\ a \in Given(H)
  BY <1>1 DEF Given, Sums
<1>5. c \in Nat /\ Cardinality(Given(H2)) = c - 1
  <2>1. c \in Nat /\ IsFiniteSet(Given(H))
    BY GivenFinite
  <2> HIDE DEF H2
  <2>2. Cardinality(Given(H) \ {a}) = Cardinality(Given(H)) - 1
    BY <1>4, <2>1, FS_RemoveElement, Zenon
  <2> QED BY <1>4, <2>1, <2>2
<1>6. \A y \in Address : K2[y] <= H2[y]
  BY DEF Counted, Sums, Nothing
<1>7. size = SumOver(H) + 8 * c /\ count = c /\ SumOver(K) <= program.limit
  BY DEF Counted, Overhead
<1> HIDE DEF H2, K2, c
<1>8. size - (H[a] + 8) = SumOver(H2) + 8 * (c - 1)
  BY <1>1, <1>2, <1>5, <1>7
<1>9. SumOver(K2) <= program.limit
  BY <1>1, <1>3, <1>7
<1>10. Counted(H2, K2, size - (H[a] + Overhead), count - 1)
  BY <1>5, <1>6, <1>7, <1>8, <1>9 DEF Counted, Overhead
<1> QED BY <1>10 DEF H2, K2

\* js_def_realloc counts the difference.
LEMMA CountRealloc ==
  ASSUME NEW H \in Sums, NEW K \in Sums, NEW size \in Int, NEW count \in Int,
         Counted(H, K, size, count), NEW a \in Address, H[a] # Nothing, program.limit \in Nat,
         NEW w \in Nat, w > 0, NEW x \in Nat, size + w - H[a] <= program.limit
  PROVE  Counted([H EXCEPT ![a] = w + x], [K EXCEPT ![a] = w], size + (w + x) - H[a], count)
<1> DEFINE H2 == [H EXCEPT ![a] = w + x]
           K2 == [K EXCEPT ![a] = w]
           H0 == [H EXCEPT ![a] = 0]
           K0 == [K EXCEPT ![a] = 0]
           c == Cardinality(Given(H))
<1>1. \A y \in Address : K[y] \in Nat /\ H[y] \in Nat
  BY DEF Sums
<1>2. /\ SumOver(H) \in Nat /\ SumOver(H2) = SumOver(H) - H[a] + (w + x)
      /\ SumOver(H0) = SumOver(H) - H[a] + 0
  <2>1. w + x \in Nat
    OBVIOUS
  <2>2. SumOver(H) \in Nat /\ SumOver(H2) = SumOver(H) - H[a] + (w + x)
    BY <2>1, SumUpdate, Zenon
  <2>3. SumOver(H0) = SumOver(H) - H[a] + 0
    BY SumUpdate
  <2> QED BY <2>2, <2>3
<1>3. /\ SumOver(K) \in Nat /\ SumOver(K2) = SumOver(K) - K[a] + w
      /\ SumOver(K0) = SumOver(K) - K[a] + 0
  BY <1>1, SumUpdate, Zenon
<1>4. SumOver(K0) <= SumOver(H0)
  <2>1. H0 \in Sums /\ K0 \in Sums /\ \A y \in Address : K0[y] <= H0[y]
    BY DEF Counted, Sums
  <2> QED BY <2>1, SumMono, Zenon
<1>5. Given(H2) = Given(H)
  BY <1>1 DEF Given, Sums, Nothing
<1>6. c \in Nat
  BY GivenFinite
<1>7. \A y \in Address : K2[y] <= H2[y]
  BY DEF Counted, Sums
<1>8. size = SumOver(H) + 8 * c /\ count = c
  BY DEF Counted, Overhead
<1> HIDE DEF H2, K2, H0, K0, c
<1>9. size + (w + x) - H[a] = SumOver(H2) + 8 * c
  BY <1>1, <1>2, <1>6, <1>8
<1>10. SumOver(K2) <= program.limit
  BY <1>1, <1>2, <1>3, <1>4, <1>6, <1>8
<1>11. Counted(H2, K2, size + (w + x) - H[a], count)
  BY <1>5, <1>7, <1>8, <1>9, <1>10 DEF Counted, Overhead, c
<1> QED BY <1>11 DEF H2, K2

-----------------------------------------------------------------------------
(* Arenas, lists and large blocks *)

\* The blocks B that are given out are blocks of the arenas A, as many as each
\* arena says; B holds pairs of an address and a block number.
Used(B, a) == {b \in Nat : <<a, b>> \in B}
Backed(A, B) ==
  /\ A \in [Address -> Arenas]
  /\ B \in SUBSET (Address \X Nat)
  /\ \A a \in Address : ArenaOK(A[a], Used(B, a))

\* The lists F offer the arenas with a free block.
Offered(A, i) == {a \in Address : A[a].idx = i /\ A[a].n_used < A[a].n_blocks}
Listed(F, A) ==
  /\ F \in [BlockSizeIdx -> Seq(Address)]
  /\ \A i \in BlockSizeIdx : Enumerates(F[i], Offered(A, i))

\* What the host has given is an arena or one of the large blocks L.
Held(H, A, L) ==
  /\ L \in SUBSET Address
  /\ \A a \in Address : H[a] # Nothing <=> A[a] # NoArena \/ a \in L
  /\ \A a \in L : A[a] = NoArena /\ H[a] >= BlockHeader

LEMMA UsedAdd ==
  ASSUME NEW B, NEW a \in Address, NEW b \in Nat
  PROVE  /\ Used(B \cup {<<a, b>>}, a) = Used(B, a) \cup {b}
         /\ \A x \in Address : x # a => Used(B \cup {<<a, b>>}, x) = Used(B, x)
  BY DEF Used

LEMMA UsedDel ==
  ASSUME NEW B, NEW a \in Address, NEW b \in Nat
  PROVE  /\ Used(B \ {<<a, b>>}, a) = Used(B, a) \ {b}
         /\ \A x \in Address : x # a => Used(B \ {<<a, b>>}, x) = Used(B, x)
  BY DEF Used

\* An arena changes and is offered as before.
LEMMA ListedStay ==
  ASSUME NEW A \in [Address -> Arenas], NEW F, Listed(F, A), NEW a \in Address,
         NEW ar \in Arenas,
         \A i \in BlockSizeIdx :
           (ar.idx = i /\ ar.n_used < ar.n_blocks) <=> (A[a].idx = i /\ A[a].n_used < A[a].n_blocks)
  PROVE  Listed(F, [A EXCEPT ![a] = ar])
<1> DEFINE A2 == [A EXCEPT ![a] = ar]
<1>1. A2[a] = ar /\ \A x \in Address : x # a => A2[x] = A[x]
  OBVIOUS
<1> HIDE DEF A2
<1>2. \A i \in BlockSizeIdx : Offered(A2, i) = Offered(A, i)
  BY <1>1, Zenon DEF Offered
<1>3. Listed(F, A2)
  BY <1>2, Zenon DEF Listed
<1> QED BY <1>3 DEF A2

\* An arena with a free block is added to the list of its size.
LEMMA ListedEnter ==
  ASSUME NEW A \in [Address -> Arenas], NEW F, Listed(F, A), NEW a \in Address,
         NEW ar \in Arenas, ~(A[a].n_used < A[a].n_blocks), ar.n_used < ar.n_blocks,
         NEW i \in BlockSizeIdx, ar.idx = i
  PROVE  Listed([F EXCEPT ![i] = <<a>> \o @], [A EXCEPT ![a] = ar])
<1> DEFINE A2 == [A EXCEPT ![a] = ar]
           F2 == [F EXCEPT ![i] = <<a>> \o @]
<1>1. A2[a] = ar /\ \A x \in Address : x # a => A2[x] = A[x]
  OBVIOUS
<1>2. F \in [BlockSizeIdx -> Seq(Address)]
  BY DEF Listed
<1>3. F2 \in [BlockSizeIdx -> Seq(Address)] /\ F2[i] = <<a>> \o F[i]
      /\ \A j \in BlockSizeIdx : j # i => F2[j] = F[j]
  BY <1>2
<1> HIDE DEF A2, F2
<1>4. Offered(A2, i) = Offered(A, i) \cup {a} /\ a \notin Offered(A, i)
  BY <1>1 DEF Offered
<1>5. \A j \in BlockSizeIdx : j # i => Offered(A2, j) = Offered(A, j)
  BY <1>1 DEF Offered
<1>6. Enumerates(F[i], Offered(A, i))
  BY DEF Listed
<1>7. Enumerates(<<a>> \o F[i], Offered(A, i) \cup {a})
  BY <1>4, <1>6, ListAdd
<1>8. Enumerates(F2[i], Offered(A2, i))
  BY <1>3, <1>4, <1>7, Zenon
<1>9. \A j \in BlockSizeIdx : Enumerates(F2[j], Offered(A2, j))
  BY <1>3, <1>5, <1>8, Zenon DEF Listed
<1>10. Listed(F2, A2)
  BY <1>3, <1>9 DEF Listed
<1> QED BY <1>10 DEF F2, A2

\* An arena without a free block leaves it.
LEMMA ListedLeave ==
  ASSUME NEW A \in [Address -> Arenas], NEW F, Listed(F, A), NEW a \in Address,
         NEW ar \in Arenas, A[a].n_used < A[a].n_blocks, ~(ar.n_used < ar.n_blocks),
         NEW i \in BlockSizeIdx, A[a].idx = i
  PROVE  Listed([F EXCEPT ![i] = list_del(@, a)], [A EXCEPT ![a] = ar])
<1> DEFINE A2 == [A EXCEPT ![a] = ar]
           F2 == [F EXCEPT ![i] = list_del(@, a)]
<1>1. A2[a] = ar /\ \A x \in Address : x # a => A2[x] = A[x]
  OBVIOUS
<1>2. F \in [BlockSizeIdx -> Seq(Address)]
  BY DEF Listed
<1>3. Enumerates(F[i], Offered(A, i)) /\ a \in Offered(A, i)
  BY DEF Listed, Offered
<1>4. Enumerates(list_del(F[i], a), Offered(A, i) \ {a})
  BY <1>3, ListDel
<1>5. list_del(F[i], a) \in Seq(Address)
  BY <1>4 DEF Enumerates
<1>6. F2 \in [BlockSizeIdx -> Seq(Address)] /\ F2[i] = list_del(F[i], a)
      /\ \A j \in BlockSizeIdx : j # i => F2[j] = F[j]
  BY <1>2, <1>5
<1> HIDE DEF A2, F2
<1>7. Offered(A2, i) = Offered(A, i) \ {a}
  BY <1>1 DEF Offered
<1>8. \A j \in BlockSizeIdx : j # i => Offered(A2, j) = Offered(A, j)
  BY <1>1 DEF Offered
<1>9. Enumerates(F2[i], Offered(A2, i))
  BY <1>4, <1>6, <1>7, Zenon
<1>10. \A j \in BlockSizeIdx : Enumerates(F2[j], Offered(A2, j))
  BY <1>6, <1>8, <1>9, Zenon DEF Listed
<1>11. Listed(F2, A2)
  BY <1>6, <1>10 DEF Listed
<1> QED BY <1>11 DEF F2, A2

-----------------------------------------------------------------------------
(* Block sizes *)

\* The table of block sizes in three parts, with steps of 8, 16 and 32 bytes.
LEMMA BlockTable ==
  /\ \A i \in 0 .. 14 : BlockSize(i) = 8 * i + 16
  /\ \A i \in 15 .. 22 : BlockSize(i) = 16 * i - 96
  /\ \A i \in 23 .. 30 : BlockSize(i) = 32 * i - 448
<1>1. /\ BlockSize(0) = 16 /\ BlockSize(1) = 24 /\ BlockSize(2) = 32 /\ BlockSize(3) = 40
      /\ BlockSize(4) = 48 /\ BlockSize(5) = 56 /\ BlockSize(6) = 64 /\ BlockSize(7) = 72
  BY DEF BlockSize, js_malloc_block_sizes
<1>2. /\ BlockSize(8) = 80 /\ BlockSize(9) = 88 /\ BlockSize(10) = 96 /\ BlockSize(11) = 104
      /\ BlockSize(12) = 112 /\ BlockSize(13) = 120 /\ BlockSize(14) = 128
  BY DEF BlockSize, js_malloc_block_sizes
<1>3. /\ BlockSize(15) = 144 /\ BlockSize(16) = 160 /\ BlockSize(17) = 176 /\ BlockSize(18) = 192
      /\ BlockSize(19) = 208 /\ BlockSize(20) = 224 /\ BlockSize(21) = 240 /\ BlockSize(22) = 256
  BY DEF BlockSize, js_malloc_block_sizes
<1>4. /\ BlockSize(23) = 288 /\ BlockSize(24) = 320 /\ BlockSize(25) = 352 /\ BlockSize(26) = 384
      /\ BlockSize(27) = 416 /\ BlockSize(28) = 448 /\ BlockSize(29) = 480 /\ BlockSize(30) = 512
  BY DEF BlockSize, js_malloc_block_sizes
<1>5. \A i \in 0 .. 14 : BlockSize(i) = 8 * i + 16
  <2> TAKE i \in 0 .. 14
  <2>1. \/ i = 0 \/ i = 1 \/ i = 2 \/ i = 3 \/ i = 4 \/ i = 5 \/ i = 6 \/ i = 7
        \/ i = 8 \/ i = 9 \/ i = 10 \/ i = 11 \/ i = 12 \/ i = 13 \/ i = 14
    OBVIOUS
  <2> QED BY <1>1, <1>2, <2>1
<1>6. \A i \in 15 .. 22 : BlockSize(i) = 16 * i - 96
  <2> TAKE i \in 15 .. 22
  <2>1. \/ i = 15 \/ i = 16 \/ i = 17 \/ i = 18 \/ i = 19 \/ i = 20 \/ i = 21 \/ i = 22
    OBVIOUS
  <2> QED BY <1>3, <2>1
<1>7. \A i \in 23 .. 30 : BlockSize(i) = 32 * i - 448
  <2> TAKE i \in 23 .. 30
  <2>1. \/ i = 23 \/ i = 24 \/ i = 25 \/ i = 26 \/ i = 27 \/ i = 28 \/ i = 29 \/ i = 30
    OBVIOUS
  <2> QED BY <1>4, <2>1
<1> QED BY <1>5, <1>6, <1>7

LEMMA BlockSizes == \A i \in BlockSizeIdx : BlockSize(i) \in 16 .. 512
<1> TAKE i \in BlockSizeIdx
<1>1. i \in 0 .. 14 \/ i \in 15 .. 22 \/ i \in 23 .. 30
  BY DEF BlockSizeIdx
<1> QED BY <1>1, BlockTable

\* get_block_size_index finds the smallest block that is large enough, for every
\* size that is not too large for a block.
THEOREM SmallestFit ==
  ASSUME NEW size \in 1 .. MaxSmall
  PROVE  /\ get_block_size_index(size) \in BlockSizeIdx
         /\ size <= BlockSize(get_block_size_index(size))
         /\ \A i \in BlockSizeIdx : size <= BlockSize(i) => get_block_size_index(size) <= i
<1> DEFINE idx == get_block_size_index(size)
<1>0. size \in Nat /\ size >= 1 /\ size <= 512
  BY DEF MaxSmall
<1>1. CASE size <= 16
  <2>1. idx = 0
    BY <1>1 DEF get_block_size_index
  <2>2. BlockSize(0) = 16
    BY BlockTable
  <2> HIDE DEF idx
  <2>3. idx \in BlockSizeIdx /\ size <= BlockSize(idx) /\ \A i \in BlockSizeIdx : idx <= i
    BY <1>0, <1>1, <2>1, <2>2 DEF BlockSizeIdx
  <2> QED BY <2>3 DEF idx
<1>2. CASE size > 16 /\ size <= 128
  <2>1. idx = (size + 7) \div 8 - 2
    BY <1>0, <1>2 DEF get_block_size_index
  <2> HIDE DEF idx
  <2>2. idx \in 1 .. 14 /\ size <= 8 * idx + 16 /\ size > 8 * idx + 8
    BY <1>0, <1>2, <2>1
  <2>3. BlockSize(idx) = 8 * idx + 16
    BY <2>2, BlockTable
  <2>4. ASSUME NEW i \in BlockSizeIdx, i < idx PROVE BlockSize(i) < size
    <3>1. i \in 0 .. 14
      BY <2>2, <2>4 DEF BlockSizeIdx
    <3>2. BlockSize(i) = 8 * i + 16
      BY <3>1, BlockTable
    <3> QED BY <1>0, <2>2, <2>4, <3>1, <3>2
  <2>5. ASSUME NEW i \in BlockSizeIdx, size <= BlockSize(i) PROVE idx <= i
    <3>1. i \in Int /\ idx \in Int /\ BlockSize(i) \in Int
      <4>1. BlockSize(i) \in 16 .. 512
        BY BlockSizes, Zenon
      <4> QED BY <2>2, <4>1 DEF BlockSizeIdx
    <3>2. ~(BlockSize(i) < size)
      BY <1>0, <2>5, <3>1
    <3>3. ~(i < idx)
      BY <2>4, <3>2, Zenon
    <3> QED BY <3>1, <3>3
  <2>6. idx \in BlockSizeIdx /\ size <= BlockSize(idx)
    BY <2>2, <2>3 DEF BlockSizeIdx
  <2> QED BY <2>5, <2>6 DEF idx
<1>3. CASE size > 128 /\ size <= 256
  <2>1. idx = (size + 15) \div 16 + 6
    BY <1>0, <1>3 DEF get_block_size_index
  <2> HIDE DEF idx
  <2>2. idx \in 15 .. 22 /\ size <= 16 * idx - 96 /\ size > 16 * idx - 112
    BY <1>0, <1>3, <2>1
  <2>3. BlockSize(idx) = 16 * idx - 96
    BY <2>2, BlockTable
  <2>4. ASSUME NEW i \in BlockSizeIdx, i < idx PROVE BlockSize(i) < size
    <3>1. i \in 0 .. 14 \/ i \in 15 .. 22
      BY <2>2, <2>4 DEF BlockSizeIdx
    <3>2. CASE i \in 0 .. 14
      <4>1. BlockSize(i) = 8 * i + 16
        BY <3>2, BlockTable
      <4> QED BY <1>0, <1>3, <3>2, <4>1
    <3>3. CASE i \in 15 .. 22
      <4>1. BlockSize(i) = 16 * i - 96
        BY <3>3, BlockTable
      <4> QED BY <1>0, <2>2, <2>4, <3>3, <4>1
    <3> QED BY <3>1, <3>2, <3>3
  <2>5. ASSUME NEW i \in BlockSizeIdx, size <= BlockSize(i) PROVE idx <= i
    <3>1. i \in Int /\ idx \in Int /\ BlockSize(i) \in Int
      <4>1. BlockSize(i) \in 16 .. 512
        BY BlockSizes, Zenon
      <4> QED BY <2>2, <4>1 DEF BlockSizeIdx
    <3>2. ~(BlockSize(i) < size)
      BY <1>0, <2>5, <3>1
    <3>3. ~(i < idx)
      BY <2>4, <3>2, Zenon
    <3> QED BY <3>1, <3>3
  <2>6. idx \in BlockSizeIdx /\ size <= BlockSize(idx)
    BY <2>2, <2>3 DEF BlockSizeIdx
  <2> QED BY <2>5, <2>6 DEF idx
<1>4. CASE size > 256
  <2>1. idx = (size + 31) \div 32 + 14
    BY <1>0, <1>4 DEF get_block_size_index
  <2> HIDE DEF idx
  <2>2. idx \in 23 .. 30 /\ size <= 32 * idx - 448 /\ size > 32 * idx - 480
    BY <1>0, <1>4, <2>1
  <2>3. BlockSize(idx) = 32 * idx - 448
    BY <2>2, BlockTable
  <2>4. ASSUME NEW i \in BlockSizeIdx, i < idx PROVE BlockSize(i) < size
    <3>1. i \in 0 .. 14 \/ i \in 15 .. 22 \/ i \in 23 .. 30
      BY DEF BlockSizeIdx
    <3>2. CASE i \in 0 .. 14
      <4>1. BlockSize(i) = 8 * i + 16
        BY <3>2, BlockTable
      <4> QED BY <1>0, <1>4, <3>2, <4>1
    <3>3. CASE i \in 15 .. 22
      <4>1. BlockSize(i) = 16 * i - 96
        BY <3>3, BlockTable
      <4> QED BY <1>0, <1>4, <3>3, <4>1
    <3>4. CASE i \in 23 .. 30
      <4>1. BlockSize(i) = 32 * i - 448
        BY <3>4, BlockTable
      <4> QED BY <1>0, <2>2, <2>4, <3>4, <4>1
    <3> QED BY <3>1, <3>2, <3>3, <3>4
  <2>5. ASSUME NEW i \in BlockSizeIdx, size <= BlockSize(i) PROVE idx <= i
    <3>1. i \in Int /\ idx \in Int /\ BlockSize(i) \in Int
      <4>1. BlockSize(i) \in 16 .. 512
        BY BlockSizes, Zenon
      <4> QED BY <2>2, <4>1 DEF BlockSizeIdx
    <3>2. ~(BlockSize(i) < size)
      BY <1>0, <2>5, <3>1
    <3>3. ~(i < idx)
      BY <2>4, <3>2, Zenon
    <3> QED BY <3>1, <3>3
  <2>6. idx \in BlockSizeIdx /\ size <= BlockSize(idx)
    BY <2>2, <2>3 DEF BlockSizeIdx
  <2> QED BY <2>5, <2>6 DEF idx
<1> QED BY <1>0, <1>1, <1>2, <1>3, <1>4

-----------------------------------------------------------------------------
(* The memory, of which the blocks B and the large blocks L are given out *)

Memories == [arenas : [Address -> Arenas], free : [BlockSizeIdx -> Seq(Address)],
             host : Sums, size : Int, count : Int, asked : Sums]
Whole(M, B, L) ==
  /\ M \in Memories
  /\ Backed(M.arenas, B)
  /\ Listed(M.free, M.arenas)
  /\ Held(M.host, M.arenas, L)
  /\ Counted(M.host, M.asked, M.size, M.count)

\* No arena is kept without a block in use.
Busy(A) == \A a \in Address : A[a] # NoArena => A[a].n_used >= 1

LEMMA FreshIn ==
  ASSUME NEW M, Unused(M) # {} PROVE Fresh(M) \in Address /\ M.host[Fresh(M)] = Nothing
<1>1. Unused(M) \in SUBSET Nat
  BY DEF Unused, Address
<1>2. Fresh(M) \in Unused(M)
  BY <1>1, MinIn DEF Fresh
<1> QED BY <1>2 DEF Unused

\* N is M with another host block at a.
HostStep(N, M, a, v, k, size, count) ==
  /\ N \in Memories
  /\ N.arenas = M.arenas
  /\ N.free = M.free
  /\ N.host = [M.host EXCEPT ![a] = v]
  /\ N.asked = [M.asked EXCEPT ![a] = k]
  /\ N.size = size
  /\ N.count = count

LEMMA MallocFields ==
  ASSUME NEW M \in Memories, Unused(M) # {}, NEW w \in Nat, NEW x \in Nat
  PROVE  HostStep(js_def_malloc(M, w, x), M, Fresh(M), w + x, w,
                  M.size + w + x + Overhead, M.count + 1)
<1> DEFINE N == js_def_malloc(M, w, x)
           a == Fresh(M)
           h == [M.host EXCEPT ![a] = w + x]
           k == [M.asked EXCEPT ![a] = w]
<1>1. /\ M.host \in Sums /\ M.asked \in Sums /\ M.size \in Int /\ M.count \in Int
  BY DEF Memories
<1>2. h \in Sums /\ k \in Sums
  <2>1. \A f \in Sums, y \in Address, v \in Nat : [f EXCEPT ![y] = v] \in Sums
    BY DEF Sums
  <2>2. a \in Address /\ w + x \in Nat
    BY FreshIn
  <2> HIDE DEF a
  <2> QED BY <1>1, <2>1, <2>2
<1>3. N = [M EXCEPT !.host = h, !.asked = k, !.size = M.size + w + x + Overhead,
                    !.count = M.count + 1]
  BY DEF js_def_malloc, Memories
<1>4. M.size + w + x + Overhead \in Int /\ M.count + 1 \in Int
  BY <1>1 DEF Overhead
<1> HIDE DEF N, h, k
<1>5. /\ N \in Memories /\ N.arenas = M.arenas /\ N.free = M.free /\ N.host = h /\ N.asked = k
      /\ N.size = M.size + w + x + Overhead /\ N.count = M.count + 1
  BY <1>2, <1>3, <1>4, Zenon DEF Memories
<1> QED BY <1>5, Zenon DEF HostStep, N, h, k

LEMMA FreeFields ==
  ASSUME NEW M \in Memories, NEW a \in Address
  PROVE  HostStep(js_def_free(M, a), M, a, Nothing, Nothing,
                  M.size - (M.host[a] + Overhead), M.count - 1)
<1> DEFINE N == js_def_free(M, a)
           h == [M.host EXCEPT ![a] = Nothing]
           k == [M.asked EXCEPT ![a] = Nothing]
<1>1. /\ M.host \in Sums /\ M.asked \in Sums /\ M.size \in Int /\ M.count \in Int
  BY DEF Memories
<1>2. h \in Sums /\ k \in Sums
  BY <1>1 DEF Sums, Nothing
<1>3. N = [M EXCEPT !.host = h, !.asked = k, !.size = M.size - (M.host[a] + Overhead),
                    !.count = M.count - 1]
  BY DEF js_def_free, Memories
<1>4. M.size - (M.host[a] + Overhead) \in Int /\ M.count - 1 \in Int
  BY <1>1 DEF Overhead, Sums
<1> HIDE DEF N, h, k
<1>5. /\ N \in Memories /\ N.arenas = M.arenas /\ N.free = M.free /\ N.host = h /\ N.asked = k
      /\ N.size = M.size - (M.host[a] + Overhead) /\ N.count = M.count - 1
  BY <1>2, <1>3, <1>4, Zenon DEF Memories
<1> QED BY <1>5, Zenon DEF HostStep, N, h, k

LEMMA ReallocFields ==
  ASSUME NEW M \in Memories, NEW a \in Address, NEW w \in Nat, NEW x \in Nat
  PROVE  HostStep(js_def_realloc(M, a, w, x), M, a, w + x, w,
                  M.size + (w + x) - M.host[a], M.count)
<1> DEFINE N == js_def_realloc(M, a, w, x)
           h == [M.host EXCEPT ![a] = w + x]
           k == [M.asked EXCEPT ![a] = w]
<1>1. /\ M.host \in Sums /\ M.asked \in Sums /\ M.size \in Int /\ M.count \in Int
  BY DEF Memories
<1>2. h \in Sums /\ k \in Sums
  BY <1>1 DEF Sums
<1>3. N = [M EXCEPT !.host = h, !.asked = k, !.size = M.size + (w + x) - M.host[a]]
  BY DEF js_def_realloc, Memories
<1>4. M.size + (w + x) - M.host[a] \in Int
  BY <1>1 DEF Sums
<1> HIDE DEF N, h, k
<1>5. /\ N \in Memories /\ N.arenas = M.arenas /\ N.free = M.free /\ N.host = h /\ N.asked = k
      /\ N.size = M.size + (w + x) - M.host[a] /\ N.count = M.count
  BY <1>2, <1>3, <1>4, Zenon DEF Memories
<1> QED BY <1>5, Zenon DEF HostStep, N, h, k

\* A large block comes from the host.
LargeTaken(M, N, B, L, a, v) ==
  /\ Whole(N, B, L \cup {a})
  /\ a \in Address \ L /\ M.arenas[a] = NoArena
  /\ N.arenas = M.arenas
  /\ N.host[a] = v
  /\ \A y \in Address : y # a => N.host[y] = M.host[y]
LEMMA LargeMalloc ==
  ASSUME NEW M, NEW B, NEW L, Whole(M, B, L), Unused(M) # {}, program.limit \in Nat,
         NEW w \in Nat, w >= BlockHeader, NEW x \in Nat, M.size + w <= program.limit
  PROVE  LargeTaken(M, js_def_malloc(M, w, x), B, L, Fresh(M), w + x)
<1> DEFINE N == js_def_malloc(M, w, x)
           a == Fresh(M)
           H == [M.host EXCEPT ![a] = w + x]
<1>1. a \in Address /\ M.host[a] = Nothing
  BY FreshIn
<1>2. M \in Memories /\ M.host \in Sums /\ M.asked \in Sums /\ M.size \in Int /\ M.count \in Int
  BY DEF Whole, Memories
<1>3. /\ N \in Memories /\ N.arenas = M.arenas /\ N.free = M.free /\ N.host = H
      /\ N.asked = [M.asked EXCEPT ![a] = w]
      /\ N.size = M.size + w + x + Overhead /\ N.count = M.count + 1
  <2>1. HostStep(js_def_malloc(M, w, x), M, Fresh(M), w + x, w,
                 M.size + w + x + Overhead, M.count + 1)
    BY <1>2, MallocFields, Zenon
  <2> QED BY <2>1, Zenon DEF HostStep
<1>4. w > 0 /\ w + x \in Nat /\ w + x >= BlockHeader /\ w + x # Nothing
  BY DEF BlockHeader, Nothing
<1> HIDE DEF N, a
<1>5. Counted(N.host, N.asked, N.size, N.count)
  <2>1. Counted(M.host, M.asked, M.size, M.count)
    BY DEF Whole
  <2>2. Counted(H, [M.asked EXCEPT ![a] = w], M.size + w + x + Overhead, M.count + 1)
    BY <1>1, <1>2, <1>4, <2>1, CountMalloc, Zenon
  <2> HIDE DEF H
  <2> QED BY <1>3, <2>2, Zenon
<1>6. H[a] = w + x /\ \A y \in Address : y # a => H[y] = M.host[y]
  BY <1>1, <1>2 DEF Sums
<1> HIDE DEF H
<1>7. a \notin L /\ M.arenas[a] = NoArena
  BY <1>1, Zenon DEF Whole, Held
<1>8. Held(H, M.arenas, L \cup {a})
  <2>1. L \cup {a} \in SUBSET Address
    BY <1>1 DEF Whole, Held
  <2>2. \A y \in Address : H[y] # Nothing <=> M.arenas[y] # NoArena \/ y \in L \cup {a}
    BY <1>4, <1>6, Zenon DEF Whole, Held
  <2>3. \A y \in L \cup {a} : M.arenas[y] = NoArena /\ H[y] >= BlockHeader
    BY <1>1, <1>4, <1>6, <1>7, <2>1, Zenon DEF Whole, Held
  <2> QED BY <2>1, <2>2, <2>3 DEF Held
<1>9. Whole(N, B, L \cup {a})
  BY <1>3, <1>5, <1>8, Zenon DEF Whole
<1>10. H[a] = w + x /\ \A y \in Address : y # a => H[y] = M.host[y]
  BY <1>1, <1>2 DEF H, Sums
<1> QED BY <1>1, <1>3, <1>7, <1>9, <1>10, Zenon DEF N, a, LargeTaken

\* A large block goes back to the host.
LargeGone(M, N, B, L, a) ==
  /\ Whole(N, B, L \ {a})
  /\ N.arenas = M.arenas
  /\ \A y \in Address : y # a => N.host[y] = M.host[y]
LEMMA LargeFree ==
  ASSUME NEW M, NEW B, NEW L, Whole(M, B, L), program.limit \in Nat, NEW a \in L
  PROVE  LargeGone(M, js_def_free(M, a), B, L, a)
<1> DEFINE N == js_def_free(M, a)
           H == [M.host EXCEPT ![a] = Nothing]
<1>1. a \in Address /\ M.host[a] # Nothing /\ M.arenas[a] = NoArena
  BY DEF Whole, Held
<1>2. M \in Memories /\ M.host \in Sums /\ M.asked \in Sums /\ M.size \in Int /\ M.count \in Int
  BY DEF Whole, Memories
<1>3. /\ N \in Memories /\ N.arenas = M.arenas /\ N.free = M.free /\ N.host = H
      /\ N.asked = [M.asked EXCEPT ![a] = Nothing]
      /\ N.size = M.size - (M.host[a] + Overhead) /\ N.count = M.count - 1
  BY <1>1, <1>2, FreeFields, Zenon DEF HostStep
<1> HIDE DEF N
<1>4. Counted(N.host, N.asked, N.size, N.count)
  <2>1. Counted(M.host, M.asked, M.size, M.count)
    BY DEF Whole
  <2>2. Counted(H, [M.asked EXCEPT ![a] = Nothing], M.size - (M.host[a] + Overhead), M.count - 1)
    BY <1>1, <1>2, <2>1, CountFree, Zenon
  <2> HIDE DEF H
  <2> QED BY <1>3, <2>2, Zenon
<1>5. H[a] = Nothing /\ \A y \in Address : y # a => H[y] = M.host[y]
  BY <1>1, <1>2 DEF Sums
<1> HIDE DEF H
<1>6. Held(H, M.arenas, L \ {a})
  <2>1. L \ {a} \in SUBSET Address /\ L \in SUBSET Address
    BY DEF Whole, Held
  <2>2. \A y \in Address : H[y] # Nothing <=> M.arenas[y] # NoArena \/ y \in L \ {a}
    BY <1>1, <1>5, Zenon DEF Whole, Held
  <2>3. \A y \in L \ {a} : M.arenas[y] = NoArena /\ H[y] >= BlockHeader
    BY <1>5, <2>1, Zenon DEF Whole, Held
  <2> QED BY <2>1, <2>2, <2>3 DEF Held
<1>7. Whole(N, B, L \ {a})
  BY <1>3, <1>4, <1>6, Zenon DEF Whole
<1> QED BY <1>3, <1>5, <1>7, Zenon DEF N, LargeGone

\* A large block is resized in place.
LargeChanged(M, N, B, L, a, v) ==
  /\ Whole(N, B, L)
  /\ N.arenas = M.arenas
  /\ N.host[a] = v
  /\ \A y \in Address : y # a => N.host[y] = M.host[y]
LEMMA LargeRealloc ==
  ASSUME NEW M, NEW B, NEW L, Whole(M, B, L), program.limit \in Nat, NEW a \in L,
         NEW w \in Nat, w >= BlockHeader, NEW x \in Nat, M.size + w - M.host[a] <= program.limit
  PROVE  LargeChanged(M, js_def_realloc(M, a, w, x), B, L, a, w + x)
<1> DEFINE N == js_def_realloc(M, a, w, x)
           H == [M.host EXCEPT ![a] = w + x]
<1>1. a \in Address /\ M.host[a] # Nothing /\ M.arenas[a] = NoArena
  BY DEF Whole, Held
<1>2. M \in Memories /\ M.host \in Sums /\ M.asked \in Sums /\ M.size \in Int /\ M.count \in Int
  BY DEF Whole, Memories
<1>3. /\ N \in Memories /\ N.arenas = M.arenas /\ N.free = M.free /\ N.host = H
      /\ N.asked = [M.asked EXCEPT ![a] = w]
      /\ N.size = M.size + (w + x) - M.host[a] /\ N.count = M.count
  <2>1. HostStep(js_def_realloc(M, a, w, x), M, a, w + x, w,
                 M.size + (w + x) - M.host[a], M.count)
    BY <1>1, <1>2, ReallocFields, Zenon
  <2> QED BY <2>1, Zenon DEF HostStep
<1>4. w > 0 /\ w + x \in Nat /\ w + x >= BlockHeader /\ w + x # Nothing
  BY DEF BlockHeader, Nothing
<1> HIDE DEF N
<1>5. Counted(N.host, N.asked, N.size, N.count)
  <2>1. Counted(M.host, M.asked, M.size, M.count)
    BY DEF Whole
  <2>2. Counted(H, [M.asked EXCEPT ![a] = w], M.size + (w + x) - M.host[a], M.count)
    BY <1>1, <1>2, <1>4, <2>1, CountRealloc, Zenon
  <2> HIDE DEF H
  <2> QED BY <1>3, <2>2, Zenon
<1>6. H[a] = w + x /\ \A y \in Address : y # a => H[y] = M.host[y]
  BY <1>1, <1>2 DEF Sums
<1> HIDE DEF H
<1>7. Held(H, M.arenas, L)
  <2>1. L \in SUBSET Address
    BY DEF Whole, Held
  <2>2. \A y \in Address : H[y] # Nothing <=> M.arenas[y] # NoArena \/ y \in L
    BY <1>1, <1>4, <1>6, Zenon DEF Whole, Held
  <2>3. \A y \in L : M.arenas[y] = NoArena /\ H[y] >= BlockHeader
    BY <1>4, <1>6, <2>1, Zenon DEF Whole, Held
  <2> QED BY <2>1, <2>2, <2>3 DEF Held
<1>8. Whole(N, B, L)
  BY <1>3, <1>5, <1>7, Zenon DEF Whole
<1> QED BY <1>3, <1>6, <1>8, Zenon DEF N, LargeChanged

\* The first arena of a list gives a block that nobody has.
BlockTaken(M, N, B, L, a, b, i) ==
  /\ a \in Address /\ b \in Nat /\ <<a, b>> \notin B
  /\ Whole(N, B \cup {<<a, b>>}, L)
  /\ N.host = M.host
  /\ M.arenas[a].idx = i
  /\ N.arenas[a].n_used >= 1
  /\ \A y \in Address : y # a => N.arenas[y] = M.arenas[y]
  /\ \A y \in Address : N.arenas[y].idx = M.arenas[y].idx
LEMMA BlockMalloc ==
  ASSUME NEW M, NEW B, NEW L, Whole(M, B, L), NEW i \in BlockSizeIdx, M.free[i] # <<>>,
         NEW a, a = M.free[i][1]
  PROVE  BlockTaken(M, TakeBlock(M, a), B, L, a, M.arenas[a].first, i)
<1> DEFINE N == TakeBlock(M, a)
           ar == M.arenas[a]
           b == ar.first
           ar2 == Taken1(ar)
           A == [M.arenas EXCEPT ![a] = ar2]
           C == B \cup {<<a, b>>}
           U == Used(B, a)
           full == ar.n_used + 1 = ar.n_blocks
           F == IF full THEN [M.free EXCEPT ![i] = list_del(@, a)] ELSE M.free
<1>1. /\ M \in Memories /\ M.arenas \in [Address -> Arenas]
      /\ M.free \in [BlockSizeIdx -> Seq(Address)]
  BY Zenon DEF Whole, Memories
<1>2. a \in Offered(M.arenas, i) /\ a \in Address
  BY ListFirst, Zenon DEF Whole, Listed
<1>3. ar \in Arenas /\ ar.idx = i /\ ar.n_used < ar.n_blocks
  BY <1>1, <1>2, Zenon DEF Offered
<1>4. ArenaOK(ar, U) /\ B \in SUBSET (Address \X Nat)
  BY <1>2, Zenon DEF Whole, Backed
<1>5. ar.n_blocks \in Nat /\ ar.n_used \in Nat
  BY <1>3 DEF Arenas
<1> HIDE DEF ar, U
<1>6. /\ b \in (0 .. ar.n_blocks - 1) \ U /\ ar2 \in Arenas /\ ArenaOK(ar2, U \cup {b})
      /\ ar2.idx = ar.idx /\ ar2.n_blocks = ar.n_blocks /\ ar2.n_used = ar.n_used + 1
  <2>1. TakenFrom(ar, ar2, U)
    BY <1>3, <1>4, TakeOne
  <2> QED BY <2>1, Zenon DEF TakenFrom
<1>7. b \in Nat /\ b \notin U
  BY <1>5, <1>6
<1>8. <<a, b>> \notin B /\ C \in SUBSET (Address \X Nat)
  BY <1>2, <1>4, <1>7 DEF U, Used
<1>9. N = [M EXCEPT !.arenas = A, !.free = F]
  BY <1>1, <1>3, Zenon DEF TakeBlock, Memories, Taken1, ar
<1>10. Backed(A, C)
  <2>1. Used(C, a) = U \cup {b} /\ \A x \in Address : x # a => Used(C, x) = Used(B, x)
    BY <1>2, <1>7, UsedAdd DEF U
  <2>2. Backed(M.arenas, B)
    BY DEF Whole
  <2> HIDE DEF ar2, C, b
  <2>3. A \in [Address -> Arenas] /\ A[a] = ar2 /\ \A x \in Address : x # a => A[x] = M.arenas[x]
    BY <1>1, <1>2, <1>6
  <2> HIDE DEF A
  <2>4. ArenaOK(A[a], Used(C, a))
    BY <1>6, <2>1, <2>3, Zenon DEF b
  <2>5. \A x \in Address : ArenaOK(A[x], Used(C, x))
    BY <2>1, <2>2, <2>3, <2>4, Zenon DEF Backed
  <2> QED BY <1>8, <2>3, <2>5 DEF Backed
<1>11. Listed(F, A)
  <2>1. Listed(M.free, M.arenas) /\ M.arenas[a] = ar
    BY Zenon DEF Whole, ar
  <2> HIDE DEF ar2, b
  <2>2. CASE full
    <3>1. ~(ar2.n_used < ar2.n_blocks)
      BY <1>5, <1>6, <2>2
    <3> QED BY <1>1, <1>2, <1>3, <1>6, <2>1, <2>2, <3>1, ListedLeave, Zenon
  <2>3. CASE ~full
    <3>1. ar2.n_used < ar2.n_blocks
      BY <1>3, <1>5, <1>6, <2>3, SMTT(30)
    <3>2. Listed(M.free, A)
      BY <1>1, <1>2, <1>3, <1>6, <2>1, <3>1, ListedStay, Zenon
    <3> QED BY <2>3, <3>2
  <2> QED BY <2>2, <2>3
<1>12. A \in [Address -> Arenas] /\ F \in [BlockSizeIdx -> Seq(Address)]
  BY <1>10, <1>11, Zenon DEF Backed, Listed
<1>13. A[a] = ar2 /\ \A y \in Address : y # a => A[y] = M.arenas[y]
  BY <1>1, <1>2
<1> HIDE DEF A, F, ar2, N, b, C, full
<1>14. /\ N \in Memories /\ N.arenas = A /\ N.free = F /\ N.host = M.host /\ N.asked = M.asked
       /\ N.size = M.size /\ N.count = M.count
  BY <1>1, <1>9, <1>12, Zenon DEF Memories
<1>15. ar2 # NoArena /\ ar # NoArena /\ ar2.n_used >= 1
  BY <1>3, <1>5, <1>6 DEF NoArena
<1>16. Held(M.host, A, L)
  <2>1. Held(M.host, M.arenas, L) /\ M.arenas[a] = ar
    BY DEF Whole, ar
  <2>2. \A y \in Address : A[y] # NoArena <=> M.arenas[y] # NoArena
    BY <1>13, <1>15, <2>1, Zenon
  <2> QED BY <2>1, <2>2, Zenon DEF Held
<1>17. Whole(N, C, L)
  BY <1>10, <1>11, <1>14, <1>16, Zenon DEF Whole
<1>18. \A y \in Address : A[y].idx = M.arenas[y].idx
  BY <1>6, <1>13, Zenon DEF ar
<1> QED BY <1>2, <1>3, <1>7, <1>8, <1>13, <1>14, <1>15, <1>17, <1>18, Zenon DEF N, b, C, ar, BlockTaken

\* A new arena is all free, and the first of its list.
ArenaMade(M, N, B, L, a, i) ==
  /\ Whole(N, B, L)
  /\ N.free[i] # <<>> /\ N.free[i][1] = a
  /\ a \in Address \ L /\ M.arenas[a] = NoArena
  /\ \A y \in Address : y # a => N.arenas[y] = M.arenas[y] /\ N.host[y] = M.host[y]
LEMMA ArenaMalloc ==
  ASSUME NEW M, NEW B, NEW L, Whole(M, B, L), Unused(M) # {}, program.limit \in Nat,
         NEW i \in BlockSizeIdx, NumBlocks(i) \in Nat, NumBlocks(i) > 0, NEW x \in Nat,
         M.size + (ArenaHeader + NumBlocks(i) * BlockSize(i)) <= program.limit
  PROVE  ArenaMade(M, NewArena(M, i, x), B, L, Fresh(M), i)
<1> DEFINE n == NumBlocks(i)
           w == ArenaHeader + n * BlockSize(i)
           a == Fresh(M)
           ar == [idx |-> i, n_blocks |-> n, n_used |-> 0, first |-> 0,
                  u |-> [b \in 0 .. n - 1 |-> IF b = n - 1 THEN FREE_NIL ELSE b + 1]]
           K == js_def_malloc(M, w, x)
           N == NewArena(M, i, x)
           H == [M.host EXCEPT ![a] = w + x]
           A == [M.arenas EXCEPT ![a] = ar]
           F == [M.free EXCEPT ![i] = <<a>> \o @]
<1>1. a \in Address /\ M.host[a] = Nothing
  BY FreshIn, Zenon
<1>2. /\ M \in Memories /\ M.host \in Sums /\ M.asked \in Sums /\ M.size \in Int /\ M.count \in Int
      /\ M.arenas \in [Address -> Arenas] /\ M.free \in [BlockSizeIdx -> Seq(Address)]
  BY DEF Whole, Memories
<1>3. w \in Nat /\ w > 0 /\ w + x \in Nat /\ w + x # Nothing
  <2>1. BlockSize(i) \in 16 .. 512
    BY BlockSizes, Zenon
  <2>2. \A j, k \in Nat : j * k \in Nat
    OBVIOUS
  <2>3. n * BlockSize(i) \in Nat
    BY <2>1, <2>2, SMTT(30)
  <2> QED BY <2>3 DEF ArenaHeader, Nothing
<1>4. ar \in Arenas /\ ArenaOK(ar, {}) /\ ar.idx = i /\ ar.n_blocks = n /\ ar.n_used = 0
  BY NewOne
<1> HIDE DEF n, w, ar
<1>5. HostStep(K, M, a, w + x, w, M.size + w + x + Overhead, M.count + 1)
  BY <1>2, <1>3, MallocFields, Zenon
<1>6. /\ K \in Memories /\ K.arenas = M.arenas /\ K.free = M.free /\ K.host = H
      /\ K.asked = [M.asked EXCEPT ![a] = w]
      /\ K.size = M.size + w + x + Overhead /\ K.count = M.count + 1
  BY <1>5, Zenon DEF HostStep
<1>7. N = [K EXCEPT !.arenas[a] = ar, !.free[i] = <<a>> \o @]
  BY DEF NewArena, ar, n, w
<1> HIDE DEF K, a
<1>8. N = [K EXCEPT !.arenas = A, !.free = F]
  BY <1>6, <1>7, Zenon DEF Memories
<1>9. a \notin L /\ M.arenas[a] = NoArena
  BY <1>1, Zenon DEF Whole, Held
<1>10. /\ A \in [Address -> Arenas] /\ A[a] = ar
       /\ \A y \in Address : y # a => A[y] = M.arenas[y]
  BY <1>1, <1>2, <1>4
<1>11. /\ H \in Sums /\ H[a] = w + x
       /\ \A y \in Address : y # a => H[y] = M.host[y]
  BY <1>1, <1>2, <1>3, Zenon DEF Sums
<1>12. Listed(F, A)
  <2>1. Listed(M.free, M.arenas) /\ ~(M.arenas[a].n_used < M.arenas[a].n_blocks)
    BY <1>9 DEF Whole, NoArena
  <2>2. ar.n_used < ar.n_blocks
    BY <1>4 DEF n
  <2> QED BY <1>1, <1>2, <1>4, <2>1, <2>2, ListedEnter, Zenon
<1>13. F \in [BlockSizeIdx -> Seq(Address)] /\ F[i] # <<>> /\ F[i][1] = a
  <2>1. M.free[i] \in Seq(Address) /\ F[i] = <<a>> \o M.free[i]
    BY <1>2
  <2>2. <<a>> \o M.free[i] # <<>> /\ (<<a>> \o M.free[i])[1] = a
    BY <1>1, <2>1
  <2>3. F \in [BlockSizeIdx -> Seq(Address)]
    BY <1>12 DEF Listed
  <2> QED BY <2>1, <2>2, <2>3, Zenon
<1> HIDE DEF A, F, H, N
<1>14. /\ N \in Memories /\ N.arenas = A /\ N.free = F /\ N.host = H
       /\ N.asked = [M.asked EXCEPT ![a] = w]
       /\ N.size = M.size + w + x + Overhead /\ N.count = M.count + 1
  BY <1>6, <1>8, <1>10, <1>13, Zenon DEF Memories
<1>15. Counted(N.host, N.asked, N.size, N.count)
  <2>1. Counted(M.host, M.asked, M.size, M.count) /\ M.size + w <= program.limit
    BY DEF Whole, w, n
  <2>2. Counted([M.host EXCEPT ![a] = w + x], [M.asked EXCEPT ![a] = w],
                M.size + w + x + Overhead, M.count + 1)
    BY <1>1, <1>2, <1>3, <2>1, CountMalloc, Zenon
  <2> QED BY <1>14, <2>2, Zenon DEF H
<1>16. Backed(A, B)
  <2>1. Backed(M.arenas, B) /\ ArenaOK(M.arenas[a], Used(B, a))
    BY <1>1 DEF Whole, Backed
  <2>2. Used(B, a) = {}
    <3>1. Used(B, a) \subseteq 0 .. 0 - 1
      BY <1>9, <2>1 DEF ArenaOK, NoArena
    <3> QED BY <3>1, SMTT(30)
  <2>3. \A y \in Address : ArenaOK(A[y], Used(B, y))
    BY <1>4, <1>10, <2>1, <2>2, Zenon DEF Backed
  <2> QED BY <1>10, <2>1, <2>3 DEF Backed
<1>17. Held(H, A, L)
  <2>1. Held(M.host, M.arenas, L) /\ ar # NoArena
    BY <1>4 DEF Whole, NoArena, n
  <2>2. \A y \in Address : H[y] # Nothing <=> A[y] # NoArena \/ y \in L
    BY <1>3, <1>9, <1>10, <1>11, <2>1, Zenon DEF Held
  <2>3. \A y \in L : A[y] = NoArena /\ H[y] >= BlockHeader
    BY <1>9, <1>10, <1>11, <2>1, Zenon DEF Held
  <2> QED BY <2>1, <2>2, <2>3 DEF Held
<1>18. Whole(N, B, L)
  BY <1>12, <1>14, <1>15, <1>16, <1>17, Zenon DEF Whole
<1> QED BY <1>1, <1>9, <1>10, <1>11, <1>13, <1>14, <1>18, Zenon DEF N, a, ArenaMade

\* A block goes back to its chain.
Back(M, a, b) ==
  [M EXCEPT !.arenas[a] = Put1(M.arenas[a], b),
            !.free[M.arenas[a].idx] = IF M.arenas[a].n_used = M.arenas[a].n_blocks
                                      THEN <<a>> \o @ ELSE @]
GoneBack(M, N, C, L, a) ==
  /\ Whole(N, C, L)
  /\ N.host = M.host
  /\ a \in Address
  /\ M.arenas[a].n_used \in Nat
  /\ M.arenas[a].n_used >= 1
  /\ N.arenas[a].n_used = M.arenas[a].n_used - 1
  /\ N.arenas[a].n_used < N.arenas[a].n_blocks
  /\ \A y \in Address : y # a => N.arenas[y] = M.arenas[y]
  /\ \A y \in Address : N.arenas[y].idx = M.arenas[y].idx
LEMMA BlockBack ==
  ASSUME NEW M, NEW B, NEW L, Whole(M, B, L), NEW a, NEW b, <<a, b>> \in B
  PROVE  GoneBack(M, Back(M, a, b), B \ {<<a, b>>}, L, a)
<1> DEFINE N == Back(M, a, b)
           ar == M.arenas[a]
           i == ar.idx
           ar2 == Put1(ar, b)
           A == [M.arenas EXCEPT ![a] = ar2]
           C == B \ {<<a, b>>}
           U == Used(B, a)
           full == ar.n_used = ar.n_blocks
           F == IF full THEN [M.free EXCEPT ![i] = <<a>> \o @] ELSE M.free
<1>1. /\ M \in Memories /\ M.arenas \in [Address -> Arenas]
      /\ M.free \in [BlockSizeIdx -> Seq(Address)]
  BY Zenon DEF Whole, Memories
<1>2. B \in SUBSET (Address \X Nat) /\ a \in Address /\ b \in Nat /\ b \in U
  BY DEF Whole, Backed, Used
<1>3. ar \in Arenas /\ ArenaOK(ar, U)
  BY <1>1, <1>2 DEF Whole, Backed
<1>4. /\ i \in BlockSizeIdx /\ ar.n_blocks \in Nat /\ ar.n_used \in Nat
      /\ ar.n_used <= ar.n_blocks
  BY <1>3, Fields
<1> HIDE DEF ar, U, i
<1>5. /\ ar.n_used >= 1 /\ ar2 \in Arenas /\ ArenaOK(ar2, U \ {b})
      /\ ar2.idx = i /\ ar2.n_blocks = ar.n_blocks /\ ar2.n_used = ar.n_used - 1
  <2>1. PutBack(ar, ar2, U, b)
    BY <1>2, <1>3, PutOne
  <2> QED BY <2>1, Zenon DEF PutBack, i
<1>6. N = [M EXCEPT !.arenas = A, !.free = F]
  BY <1>1, <1>4, Zenon DEF Back, Memories, ar, i
<1> HIDE DEF ar2
<1>7. A \in [Address -> Arenas] /\ A[a] = ar2 /\ \A y \in Address : y # a => A[y] = M.arenas[y]
  BY <1>1, <1>2, <1>5
<1>8. Backed(A, C)
  <2>1. Used(C, a) = U \ {b} /\ \A x \in Address : x # a => Used(C, x) = Used(B, x)
    BY <1>2, UsedDel DEF U
  <2>2. Backed(M.arenas, B) /\ C \in SUBSET (Address \X Nat)
    BY <1>2 DEF Whole
  <2> HIDE DEF A, C
  <2>3. ArenaOK(A[a], Used(C, a))
    BY <1>5, <1>7, <2>1, Zenon
  <2>4. \A x \in Address : ArenaOK(A[x], Used(C, x))
    BY <1>7, <2>1, <2>2, <2>3, Zenon DEF Backed
  <2> QED BY <1>7, <2>2, <2>4 DEF Backed
<1>9. ar2.n_used < ar2.n_blocks
  BY <1>4, <1>5
<1>10. Listed(F, A)
  <2>1. Listed(M.free, M.arenas) /\ M.arenas[a] = ar /\ ar.idx = i
    BY Zenon DEF Whole, ar, i
  <2>2. CASE full
    <3>1. ~(ar.n_used < ar.n_blocks)
      BY <1>4, <2>2
    <3> QED BY <1>1, <1>2, <1>4, <1>5, <1>9, <2>1, <2>2, <3>1, ListedEnter, Zenon
  <2>3. CASE ~full
    <3>1. ar.n_used < ar.n_blocks
      BY <1>4, <2>3
    <3>2. Listed(M.free, A)
      BY <1>1, <1>2, <1>5, <1>9, <2>1, <3>1, ListedStay, Zenon
    <3> QED BY <2>3, <3>2
  <2> QED BY <2>2, <2>3
<1>11. F \in [BlockSizeIdx -> Seq(Address)]
  BY <1>10, Zenon DEF Listed
<1> HIDE DEF A, F, N, C, full
<1>12. /\ N \in Memories /\ N.arenas = A /\ N.free = F /\ N.host = M.host /\ N.asked = M.asked
       /\ N.size = M.size /\ N.count = M.count
  BY <1>1, <1>6, <1>7, <1>11, Zenon DEF Memories
<1>13. ar2 # NoArena /\ ar # NoArena
  BY <1>4, <1>5, <1>9 DEF NoArena
<1>14. Held(M.host, A, L)
  <2>1. Held(M.host, M.arenas, L) /\ M.arenas[a] = ar
    BY DEF Whole, ar
  <2>2. \A y \in Address : A[y] # NoArena <=> M.arenas[y] # NoArena
    BY <1>7, <1>13, <2>1, Zenon
  <2> QED BY <2>1, <2>2, Zenon DEF Held
<1>15. Whole(N, C, L)
  BY <1>8, <1>10, <1>12, <1>14, Zenon DEF Whole
<1>16. \A y \in Address : A[y].idx = M.arenas[y].idx
  BY <1>5, <1>7, Zenon DEF ar, i
<1> QED
  BY <1>2, <1>4, <1>5, <1>7, <1>9, <1>12, <1>15, <1>16, Zenon DEF N, C, ar, GoneBack
\* An arena with no block in use goes back to the host.
Emptied(M, a) ==
  js_def_free([M EXCEPT !.arenas[a] = NoArena,
                        !.free[M.arenas[a].idx] = list_del(@, a)], a)
ArenaGone(M, N, B, L, a) ==
  /\ Whole(N, B, L)
  /\ Used(B, a) = {}
  /\ a \notin L
  /\ N.arenas[a] = NoArena
  /\ \A y \in Address : y # a => N.arenas[y] = M.arenas[y] /\ N.host[y] = M.host[y]
LEMMA ArenaFree ==
  ASSUME NEW M, NEW B, NEW L, Whole(M, B, L), program.limit \in Nat, NEW a \in Address,
         M.arenas[a].n_used = 0, M.arenas[a].n_used < M.arenas[a].n_blocks
  PROVE  ArenaGone(M, Emptied(M, a), B, L, a)
<1> DEFINE ar == M.arenas[a]
           i == ar.idx
           A == [M.arenas EXCEPT ![a] = NoArena]
           F == [M.free EXCEPT ![i] = list_del(@, a)]
           K == [M EXCEPT !.arenas = A, !.free = F]
           N == Emptied(M, a)
           H == [M.host EXCEPT ![a] = Nothing]
<1>1. /\ M \in Memories /\ M.arenas \in [Address -> Arenas] /\ M.host \in Sums /\ M.asked \in Sums
      /\ M.free \in [BlockSizeIdx -> Seq(Address)] /\ M.size \in Int /\ M.count \in Int
  BY Zenon DEF Whole, Memories
<1>2. ar \in Arenas /\ ArenaOK(ar, Used(B, a)) /\ i \in BlockSizeIdx
  BY <1>1 DEF Whole, Backed, Arenas
<1>3. Used(B, a) = {}
  <2>1. /\ Used(B, a) \subseteq 0 .. ar.n_blocks - 1 /\ Cardinality(Used(B, a)) = 0
        /\ ar.n_blocks \in Nat
    BY <1>2 DEF ArenaOK, Arenas
  <2>2. IsFiniteSet(Used(B, a))
    BY <2>1, BlocksFinite, Zenon
  <2> QED BY <2>1, <2>2, FS_EmptySet, Zenon
<1>4. ar # NoArena /\ M.host[a] # Nothing /\ a \notin L
  <2>1. ar # NoArena
    BY DEF NoArena
  <2> QED BY <2>1, Zenon DEF Whole, Held
<1>5. NoArena \in Arenas /\ ArenaOK(NoArena, {}) /\ ~(NoArena.n_used < NoArena.n_blocks)
  BY NoArenaOK DEF NoArena
<1>6. A \in [Address -> Arenas] /\ A[a] = NoArena /\ \A y \in Address : y # a => A[y] = M.arenas[y]
  BY <1>1, <1>5, Zenon
<1>7. Listed(F, A)
  <2>1. Listed(M.free, M.arenas)
    BY DEF Whole
  <2> QED BY <1>1, <1>2, <1>5, <2>1, ListedLeave, Zenon
<1>8. F \in [BlockSizeIdx -> Seq(Address)]
  BY <1>7, Zenon DEF Listed
<1>9. N = js_def_free(K, a)
  BY <1>1 DEF Emptied, Memories
<1>10. /\ H \in Sums /\ H[a] = Nothing
       /\ \A y \in Address : y # a => H[y] = M.host[y]
  BY <1>1 DEF Sums, Nothing
<1> HIDE DEF A, F, N
<1>11. /\ K \in Memories /\ K.arenas = A /\ K.free = F /\ K.host = M.host /\ K.asked = M.asked
       /\ K.size = M.size /\ K.count = M.count
  BY <1>1, <1>6, <1>8, Zenon DEF Memories
<1> HIDE DEF K
<1>12. HostStep(N, K, a, Nothing, Nothing, K.size - (K.host[a] + Overhead), K.count - 1)
  BY <1>9, <1>11, FreeFields
<1>13. /\ N \in Memories /\ N.arenas = A /\ N.free = F /\ N.host = H
       /\ N.asked = [M.asked EXCEPT ![a] = Nothing]
       /\ N.size = M.size - (M.host[a] + Overhead) /\ N.count = M.count - 1
  BY <1>11, <1>12, Zenon DEF HostStep
<1>14. Counted(N.host, N.asked, N.size, N.count)
  <2>1. Counted(M.host, M.asked, M.size, M.count)
    BY Zenon DEF Whole
  <2>2. Counted([M.host EXCEPT ![a] = Nothing], [M.asked EXCEPT ![a] = Nothing],
                M.size - (M.host[a] + Overhead), M.count - 1)
    BY <1>1, <1>4, <2>1, CountFree, Zenon
  <2> QED BY <1>13, <2>2, Zenon DEF H
<1> HIDE DEF H
<1>15. Backed(A, B)
  <2>1. Backed(M.arenas, B)
    BY DEF Whole
  <2>2. \A y \in Address : ArenaOK(A[y], Used(B, y))
    BY <1>3, <1>5, <1>6, <2>1, Zenon DEF Backed
  <2> QED BY <1>6, <2>1, <2>2 DEF Backed
<1>16. Held(H, A, L)
  <2>1. Held(M.host, M.arenas, L)
    BY DEF Whole
  <2>2. \A y \in Address : H[y] # Nothing <=> A[y] # NoArena \/ y \in L
    BY <1>4, <1>6, <1>10, <2>1, Zenon DEF Held
  <2>3. \A y \in L : A[y] = NoArena /\ H[y] >= BlockHeader
    BY <1>4, <1>6, <1>10, <2>1, Zenon DEF Held
  <2> QED BY <2>1, <2>2, <2>3 DEF Held
<1>17. Whole(N, B, L)
  BY <1>7, <1>13, <1>14, <1>15, <1>16, Zenon DEF Whole
<1> QED BY <1>3, <1>4, <1>6, <1>10, <1>13, <1>17, Zenon DEF N, ArenaGone

\* What is still held is as it was: the blocks C and the large blocks K.
Kept(M, N, C, K) ==
  /\ \A y \in Address : Used(C, y) # {} => N.arenas[y].idx = M.arenas[y].idx
  /\ \A y \in K : N.host[y] = M.host[y]

\* Freeing a block.
Freed(M, N, B, L, a, b) ==
  /\ Whole(N, B \ {<<a, b>>}, L)
  /\ Kept(M, N, B \ {<<a, b>>}, L)
  /\ Busy(M.arenas) => Busy(N.arenas)
LEMMA BlockFree ==
  ASSUME NEW M, NEW B, NEW L, Whole(M, B, L), program.limit \in Nat,
         NEW a, NEW b, <<a, b>> \in B
  PROVE  Freed(M, FreeBlock(M, a, b), B, L, a, b)
<1> DEFINE N == FreeBlock(M, a, b)
           K == Back(M, a, b)
           C == B \ {<<a, b>>}
           n == M.arenas[a].n_used
<1>0. GoneBack(M, K, C, L, a)
  BY BlockBack
<1>1. /\ Whole(K, C, L)
      /\ K.host = M.host
      /\ a \in Address /\ n \in Nat /\ n >= 1
      /\ K.arenas[a].n_used = n - 1
      /\ K.arenas[a].n_used < K.arenas[a].n_blocks
      /\ \A y \in Address : y # a => K.arenas[y] = M.arenas[y]
      /\ \A y \in Address : K.arenas[y].idx = M.arenas[y].idx
  BY <1>0, Zenon DEF GoneBack
<1>2. N = IF n = 1 THEN js_def_free([K EXCEPT !.arenas[a] = NoArena,
                                        !.free[M.arenas[a].idx] = list_del(@, a)], a)
          ELSE K
  BY DEF FreeBlock, Back, Put1
<1>3. L \in SUBSET Address
  BY DEF Whole, Held
<1> HIDE DEF N, K, C
<1>4. CASE n = 1
  <2>1. N = Emptied(K, a)
    BY <1>1, <1>2, <1>4, Zenon DEF Emptied
  <2>2. K.arenas[a].n_used = 0
    BY <1>1, <1>4
  <2>3. /\ Whole(N, C, L) /\ Used(C, a) = {} /\ a \notin L /\ N.arenas[a] = NoArena
        /\ \A y \in Address : y # a => N.arenas[y] = K.arenas[y] /\ N.host[y] = K.host[y]
    <3>1. ArenaGone(K, N, C, L, a)
      BY <1>1, <2>1, <2>2, ArenaFree
    <3> QED BY <3>1, Zenon DEF ArenaGone
  <2>4. Kept(M, N, C, L)
    BY <1>1, <1>3, <2>3, Zenon DEF Kept
  <2>5. Busy(M.arenas) => Busy(N.arenas)
    BY <1>1, <2>3, Zenon DEF Busy
  <2> QED BY <2>3, <2>4, <2>5, Zenon DEF Freed, N, C
<1>5. CASE n # 1
  <2>1. N = K /\ K.arenas[a].n_used >= 1
    BY <1>1, <1>2, <1>5
  <2>2. Kept(M, N, C, L)
    BY <1>1, <2>1, Zenon DEF Kept
  <2>3. Busy(M.arenas) => Busy(N.arenas)
    BY <1>1, <2>1, Zenon DEF Busy
  <2> QED BY <1>1, <2>1, <2>2, <2>3, Zenon DEF Freed, N, C
<1> QED BY <1>4, <1>5
=============================================================================
