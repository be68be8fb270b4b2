---------------------------- MODULE Arena_proofs ----------------------------
(***************************************************************************)
(* The allocator gives a block to one owner at a time and counts every     *)
(* byte of the host, whatever the sizes, the limit and the order of the    *)
(* calls.                                                                  *)
(***************************************************************************)
EXTENDS Arena_memory

-----------------------------------------------------------------------------
(* Pointers *)

PointerSet == [kind : {"null", "zero", "large", "block"}, at : Nat, b : Nat, size : Nat]
BlockOf(p) == IF p.kind = "block" THEN {<<p.at, p.b>>} ELSE {}
LargeOf(p) == IF p.kind = "large" THEN {p.at} ELSE {}
IsPointer(p) == p \in PointerSet /\ (p.kind = "null" => p = NULL)

LEMMA NullFields ==
  /\ IsPointer(NULL) /\ NULL.kind = "null" /\ NULL.size = 0
  /\ BlockOf(NULL) = {} /\ LargeOf(NULL) = {} /\ \A M : UsableSize(M, NULL) = 0
  BY DEF IsPointer, PointerSet, NULL, Pointer, Nothing, BlockOf, LargeOf, UsableSize

\* Pointer p is new, for size bytes: M becomes N, and what was held stays.
Obtained(M, N, p, size, B, L) ==
  /\ Whole(N, B \cup BlockOf(p), L \cup LargeOf(p))
  /\ BlockOf(p) \cap B = {}
  /\ LargeOf(p) \cap L = {}
  /\ Kept(M, N, B, L)
  /\ Busy(M.arenas) => Busy(N.arenas)
  /\ IsPointer(p)
  /\ p.size = size
  /\ p.size <= UsableSize(N, p)

LEMMA Rounded ==
  ASSUME NEW size \in Nat
  PROVE  Total(size) \in Nat /\ size + BlockHeader <= Total(size)
  BY SMTT(30) DEF Total, BlockHeader

LEMMA SmallMalloc ==
  ASSUME NEW M, NEW B, NEW L, Whole(M, B, L), NEW size \in Nat, NEW i \in BlockSizeIdx,
         Total(size) <= BlockSize(i), M.free[i] # <<>>, NEW a, a = M.free[i][1],
         NEW O, Kept(O, M, B, L), \A y \in Address : y # a => M.arenas[y] = O.arenas[y]
  PROVE  Obtained(O, TakeBlock(M, a), Pointer("block", a, M.arenas[a].first, size), size, B, L)
<1> DEFINE N == TakeBlock(M, a)
           b == M.arenas[a].first
           p == Pointer("block", a, b, size)
<1>0. BlockTaken(M, N, B, L, a, b, i)
  BY BlockMalloc
<1>1. /\ a \in Address /\ b \in Nat /\ <<a, b>> \notin B
      /\ Whole(N, B \cup {<<a, b>>}, L)
      /\ N.host = M.host
      /\ M.arenas[a].idx = i
      /\ N.arenas[a].n_used >= 1
      /\ \A y \in Address : y # a => N.arenas[y] = M.arenas[y]
      /\ \A y \in Address : N.arenas[y].idx = M.arenas[y].idx
  BY <1>0, Zenon DEF BlockTaken
<1> HIDE DEF b
<1>2. /\ p \in PointerSet /\ p.kind = "block" /\ p.at = a /\ p.b = b /\ p.size = size
  BY <1>1, SMTT(30) DEF Address, Pointer, PointerSet
<1> HIDE DEF N, b, p
<1>3. BlockOf(p) = {<<a, b>>} /\ LargeOf(p) = {}
  BY <1>2 DEF BlockOf, LargeOf
<1>4. Whole(N, B \cup BlockOf(p), L \cup LargeOf(p))
  BY <1>1, <1>3, Zenon
<1>5. Kept(O, N, B, L)
  BY <1>1, Zenon DEF Kept
<1>6. Busy(O.arenas) => Busy(N.arenas)
  BY <1>1, Zenon DEF Busy
<1>7. p.size <= UsableSize(N, p)
  <2>1. UsableSize(N, p) = BlockSize(i) - BlockHeader
    BY <1>1, <1>2, Zenon DEF UsableSize
  <2>2. BlockSize(i) \in 16 .. 512
    BY BlockSizes, Zenon
  <2>3. Total(size) \in Nat /\ size + BlockHeader <= Total(size)
    BY Rounded
  <2>4. \A s, t, w \in Nat : s + 8 <= t /\ t <= w => s <= w - 8
    OBVIOUS
  <2>5. BlockSize(i) \in Nat
    <3>1. \A n \in 16 .. 512 : n \in Nat
      OBVIOUS
    <3> QED BY <2>2, <3>1, Zenon
  <2>6. size <= BlockSize(i) - BlockHeader
    BY <2>3, <2>4, <2>5, Zenon DEF BlockHeader
  <2> QED BY <1>2, <2>1, <2>6, Zenon
<1>8. IsPointer(p) /\ BlockOf(p) \cap B = {} /\ LargeOf(p) \cap L = {}
  BY <1>1, <1>2, <1>3 DEF IsPointer
<1>9. Obtained(O, N, p, size, B, L)
  BY <1>2, <1>4, <1>5, <1>6, <1>7, <1>8, Zenon DEF Obtained
<1> QED BY <1>9, Zenon DEF N, p, b

LEMMA BigMalloc ==
  ASSUME NEW M, NEW B, NEW L, Whole(M, B, L), Unused(M) # {}, program.limit \in Nat,
         NEW size \in Nat, NEW x \in Nat, M.size + (size + BlockHeader) <= program.limit
  PROVE  Obtained(M, js_def_malloc(M, size + BlockHeader, x),
                  Pointer("large", Fresh(M), 0, size), size, B, L)
<1> DEFINE w == size + BlockHeader
           N == js_def_malloc(M, w, x)
           a == Fresh(M)
           p == Pointer("large", a, 0, size)
<1>0. /\ w \in Nat /\ w >= BlockHeader /\ (w + x) - BlockHeader = size + x
      /\ M.size + w <= program.limit
  BY DEF BlockHeader
<1> HIDE DEF w
<1>1. /\ Whole(N, B, L \cup {a})
      /\ a \in Address \ L /\ M.arenas[a] = NoArena
      /\ N.arenas = M.arenas
      /\ N.host[a] = w + x
      /\ \A y \in Address : y # a => N.host[y] = M.host[y]
  <2>1. LargeTaken(M, N, B, L, a, w + x)
    BY <1>0, LargeMalloc, Zenon
  <2> QED BY <2>1, Zenon DEF LargeTaken
<1>2. /\ p \in PointerSet /\ p.kind = "large" /\ p.at = a /\ p.size = size
  BY <1>1, SMTT(30) DEF Address, Pointer, PointerSet
<1>3. L \in SUBSET Address
  BY Zenon DEF Whole, Held
<1>4. \A y \in L : N.host[y] = M.host[y]
  BY <1>1, <1>3
<1> HIDE DEF N, a, p
<1>5. BlockOf(p) = {} /\ LargeOf(p) = {a}
  BY <1>2 DEF BlockOf, LargeOf
<1>6. Whole(N, B \cup BlockOf(p), L \cup LargeOf(p))
  BY <1>1, <1>5
<1>7. Kept(M, N, B, L)
  BY <1>1, <1>4, Zenon DEF Kept
<1>8. p.size <= UsableSize(N, p)
  <2>0. UsableSize(N, p) = N.host[p.at] - BlockHeader
    BY <1>2 DEF UsableSize
  <2>1. UsableSize(N, p) = (w + x) - BlockHeader
    <3>1. N.host[p.at] = w + x
      BY <1>1, <1>2
    <3> QED BY <2>0, <3>1
  <2>2. size <= size + x
    OBVIOUS
  <2> QED BY <1>0, <1>2, <2>1, <2>2, Zenon
<1>9. IsPointer(p) /\ BlockOf(p) \cap B = {} /\ LargeOf(p) \cap L = {}
  BY <1>1, <1>2, <1>5 DEF IsPointer
<1>10. Obtained(M, N, p, size, B, L)
  BY <1>1, <1>2, <1>6, <1>7, <1>8, <1>9, Zenon DEF Obtained
<1> QED BY <1>10 DEF N, p, a, w
LEMMA RoomForOne ==
  ASSUME NEW size \in program.sizes, program \in Programs, Total(size) <= MaxSmall, size # 0
  PROVE  LET i == get_block_size_index(Total(size))
         IN  /\ i \in BlockSizeIdx /\ Total(size) <= BlockSize(i)
             /\ NumBlocks(i) \in Nat /\ NumBlocks(i) > 0
<1> DEFINE i == get_block_size_index(Total(size))
           w == BlockSize(i)
<1>1. size \in Nat /\ program.arena \in Nat /\ ArenaHeader + w <= program.arena
  BY ArenaAssumption
<1>2. Total(size) \in 1 .. MaxSmall
  BY <1>1, Rounded DEF BlockHeader, MaxSmall
<1>3. i \in BlockSizeIdx /\ Total(size) <= w
  BY <1>2, SmallestFit
<1>4. w \in 16 .. 512
  BY <1>3, BlockSizes, Zenon
<1>5. \A m \in Nat, k \in 16 .. 512 : k <= m => m \div k \in Nat /\ m \div k > 0
  OBVIOUS
<1> HIDE DEF i, w
<1>6. program.arena - ArenaHeader \in Nat /\ w <= program.arena - ArenaHeader
  BY <1>1, <1>4, SMTT(30) DEF ArenaHeader
<1>7. /\ (program.arena - ArenaHeader) \div w \in Nat
      /\ (program.arena - ArenaHeader) \div w > 0
  BY <1>4, <1>5, <1>6, Zenon
<1>8. NumBlocks(i) = (program.arena - ArenaHeader) \div w
  BY DEF NumBlocks, w
<1>9. NumBlocks(i) \in Nat /\ NumBlocks(i) > 0
  BY <1>7, <1>8, Zenon
<1> QED BY <1>3, <1>9, Zenon DEF i, w

\* __js_malloc returns NULL and changes nothing, or gives memory that nobody has.
Answered(M, r, size, B, L) ==
  IF r.p = NULL THEN r.m = M ELSE Obtained(M, r.m, r.p, size, B, L)
LEMMA MallocStep ==
  ASSUME NEW M, NEW B, NEW L, Whole(M, B, L), Unused(M) # {}, program \in Programs,
         NEW size \in program.sizes, NEW answer \in Answer
  PROVE  Answered(M, Malloc(M, size, answer), size, B, L)
<1> DEFINE r == Malloc(M, size, answer)
           i == get_block_size_index(Total(size))
           large == size + BlockHeader
           bytes == ArenaHeader + NumBlocks(i) * BlockSize(i)
           N == IF M.free[i] = <<>> THEN NewArena(M, i, answer) ELSE M
           a == N.free[i][1]
           small == Pointer("block", a, N.arenas[a].first, size)
<1>1. size \in Nat /\ program.limit \in Nat
  BY ArenaAssumption
<1>2. answer # Refused => answer \in Nat
  BY ArenaAssumption DEF Answer
<1>3. CASE size = 0
  <2>1. r.m = M /\ r.p = Pointer("zero", Nothing, 0, 0)
    BY <1>3, Zenon DEF Malloc
  <2>2. /\ r.p \in PointerSet /\ r.p.kind = "zero" /\ r.p.size = 0
    BY <2>1, SMTT(30) DEF Pointer, PointerSet, Nothing
  <2> HIDE DEF r
  <2>3. BlockOf(r.p) = {} /\ LargeOf(r.p) = {} /\ UsableSize(r.m, r.p) = 0 /\ IsPointer(r.p)
    BY <2>2 DEF BlockOf, LargeOf, UsableSize, IsPointer
  <2>4. Kept(M, r.m, B, L)
    BY <2>1, Zenon DEF Kept
  <2>5. B \cup BlockOf(r.p) = B /\ L \cup LargeOf(r.p) = L
    BY <2>3, Zenon
  <2>6. Whole(r.m, B \cup BlockOf(r.p), L \cup LargeOf(r.p))
    BY <2>1, <2>5, Zenon
  <2>7. BlockOf(r.p) \cap B = {} /\ LargeOf(r.p) \cap L = {} /\ r.p.size <= UsableSize(r.m, r.p)
    BY <2>2, <2>3
  <2>8. Obtained(M, r.m, r.p, size, B, L)
    BY <1>3, <2>1, <2>2, <2>3, <2>4, <2>6, <2>7, Zenon DEF Obtained
  <2>9. r.p # NULL
    BY <2>2, SMTT(30) DEF NULL, Pointer
  <2> QED BY <2>8, <2>9, Zenon DEF Answered, r
<1>4. CASE size # 0 /\ Total(size) > MaxSmall
  <2>1. CASE Granted(M, large, answer)
    <3>1. r.m = js_def_malloc(M, large, answer) /\ r.p = Pointer("large", Fresh(M), 0, size)
      BY <1>4, <2>1, Zenon DEF Malloc
    <3>2. answer \in Nat /\ M.size + large <= program.limit
      BY <1>2, <2>1 DEF Granted
    <3>3. Obtained(M, r.m, r.p, size, B, L)
      BY <1>1, <3>1, <3>2, BigMalloc, Zenon
    <3>4. r.p # NULL
      BY <3>1 DEF NULL, Pointer
    <3> QED BY <3>3, <3>4, Zenon DEF Answered
  <2>2. CASE ~Granted(M, large, answer)
    <3>1. r.m = M /\ r.p = NULL
      BY <1>4, <2>2, Zenon DEF Malloc
    <3> QED BY <3>1, Zenon DEF Answered
  <2> QED BY <2>1, <2>2
<1>5. CASE size # 0 /\ ~(Total(size) > MaxSmall)
  <2>0. Total(size) <= MaxSmall
    BY <1>1, <1>5, Rounded, SMTT(30) DEF MaxSmall
  <2>1. /\ i \in BlockSizeIdx /\ Total(size) <= BlockSize(i)
        /\ NumBlocks(i) \in Nat /\ NumBlocks(i) > 0
    BY <1>5, <2>0, RoomForOne
  <2>2. CASE M.free[i] # <<>> \/ Granted(M, bytes, answer)
    <3>1. r.m = TakeBlock(N, a) /\ r.p = small
      BY <1>5, <2>2, Zenon DEF Malloc
    <3>2. r.p # NULL
      <4>1. small.kind = "block"
        BY Zenon DEF Pointer
      <4> HIDE DEF r, small
      <4>2. r.p.kind = "block" /\ NULL.kind = "null"
        BY <3>1, <4>1, NullFields, Zenon
      <4> QED BY <4>2
    <3>3. Whole(N, B, L) /\ N.free[i] # <<>> /\ Kept(M, N, B, L)
          /\ \A y \in Address : y # a => N.arenas[y] = M.arenas[y]
      <4>1. CASE M.free[i] # <<>>
        <5>1. N = M
          BY <4>1, Zenon
        <5> QED BY <4>1, <5>1, Zenon DEF Kept
      <4>2. CASE M.free[i] = <<>>
        <5>1. answer \in Nat /\ M.size + bytes <= program.limit
          BY <1>2, <2>2, <4>2, Zenon DEF Granted
        <5>2. N = NewArena(M, i, answer)
          BY <4>2
        <5>3. ArenaMade(M, NewArena(M, i, answer), B, L, Fresh(M), i)
          BY <1>1, <2>1, <5>1, ArenaMalloc, Zenon
        <5>4. ArenaMade(M, N, B, L, Fresh(M), i)
          BY <5>2, <5>3, Zenon
        <5> HIDE DEF N
        <5>5. /\ Whole(N, B, L) /\ N.free[i] # <<>> /\ a = Fresh(M)
              /\ a \in Address \ L /\ M.arenas[a] = NoArena
              /\ \A y \in Address : y # a => N.arenas[y] = M.arenas[y] /\ N.host[y] = M.host[y]
          BY <5>4, Zenon DEF ArenaMade
        <5> HIDE DEF a
        <5>6. Used(B, a) = {}
          <6>1. ArenaOK(NoArena, Used(B, a))
            BY <5>5 DEF Whole, Backed
          <6>2. Used(B, a) \subseteq 0 .. 0 - 1
            BY <6>1, Zenon DEF ArenaOK, NoArena
          <6> QED BY <6>2, SMTT(30)
        <5>7. L \in SUBSET Address
          BY DEF Whole, Held
        <5>8. Kept(M, N, B, L)
          BY <5>5, <5>6, <5>7, Zenon DEF Kept
        <5> QED BY <5>5, <5>8, Zenon
      <4> QED BY <4>1, <4>2, Zenon
    <3> HIDE DEF N
    <3>4. Obtained(M, TakeBlock(N, a), small, size, B, L)
      BY <1>1, <2>1, <3>3, SmallMalloc, Zenon
    <3>5. Obtained(M, r.m, r.p, size, B, L)
      BY <3>1, <3>4, Zenon
    <3> QED BY <3>2, <3>5, Zenon DEF Answered
  <2>3. CASE ~(M.free[i] # <<>> \/ Granted(M, bytes, answer))
    <3>1. r.m = M /\ r.p = NULL
      BY <1>5, <2>3, Zenon DEF Malloc
    <3> QED BY <3>1, Zenon DEF Answered
  <2> QED BY <2>2, <2>3, Zenon
<1> QED BY <1>3, <1>4, <1>5, Zenon
-----------------------------------------------------------------------------
(* __js_free and __js_realloc *)

LEMMA KeptUsable ==
  ASSUME NEW M, NEW N, NEW C \in SUBSET (Address \X Nat), NEW K, Kept(M, N, C, K), NEW q,
         BlockOf(q) \subseteq C, LargeOf(q) \subseteq K
  PROVE  UsableSize(N, q) = UsableSize(M, q)
<1>1. CASE q.kind = "block"
  <2>1. <<q.at, q.b>> \in C
    BY <1>1 DEF BlockOf
  <2>2. q.at \in Address /\ Used(C, q.at) # {}
    BY <2>1 DEF Used
  <2>3. N.arenas[q.at].idx = M.arenas[q.at].idx
    BY <2>2, Zenon DEF Kept
  <2> QED BY <1>1, <2>3 DEF UsableSize
<1>2. CASE q.kind = "large"
  <2>1. q.at \in K
    BY <1>2 DEF LargeOf
  <2>2. N.host[q.at] = M.host[q.at]
    BY <2>1, Zenon DEF Kept
  <2> QED BY <1>2, <2>2 DEF UsableSize
<1> QED BY <1>1, <1>2, Zenon DEF UsableSize

LEMMA KeptTwice ==
  ASSUME NEW M, NEW N, NEW O, NEW B, NEW L, NEW C, NEW K, Kept(M, N, B, L), Kept(N, O, C, K),
         NEW D, NEW J, D \subseteq B, D \subseteq C, J \subseteq L, J \subseteq K
  PROVE  Kept(M, O, D, J)
<1>1. \A y \in Address : Used(D, y) \subseteq Used(B, y) /\ Used(D, y) \subseteq Used(C, y)
  BY DEF Used
<1>2. \A y \in Address : Used(D, y) # {} => Used(B, y) # {} /\ Used(C, y) # {}
  BY <1>1
<1>3. \A y \in Address : Used(D, y) # {} => O.arenas[y].idx = M.arenas[y].idx
  BY <1>2, Zenon DEF Kept
<1>4. \A y \in J : O.host[y] = M.host[y]
  BY Zenon DEF Kept
<1> QED BY <1>3, <1>4, Zenon DEF Kept

\* __js_free gives back what the pointer had, and nothing else.
Released(M, N, p, B, L) ==
  /\ Whole(N, B \ BlockOf(p), L \ LargeOf(p))
  /\ Kept(M, N, B \ BlockOf(p), L \ LargeOf(p))
  /\ Busy(M.arenas) => Busy(N.arenas)
LEMMA FreeStep ==
  ASSUME NEW M, NEW B, NEW L, Whole(M, B, L), program.limit \in Nat, NEW p,
         BlockOf(p) \subseteq B, LargeOf(p) \subseteq L
  PROVE  Released(M, Free(M, p), p, B, L)
<1> DEFINE N == Free(M, p)
<1>1. CASE p.kind = "block"
  <2>1. N = FreeBlock(M, p.at, p.b) /\ BlockOf(p) = {<<p.at, p.b>>} /\ LargeOf(p) = {}
    BY <1>1 DEF Free, BlockOf, LargeOf
  <2> HIDE DEF N
  <2>2. <<p.at, p.b>> \in B /\ L \ LargeOf(p) = L
    BY <2>1
  <2>3. Freed(M, N, B, L, p.at, p.b)
    BY <2>1, <2>2, BlockFree
  <2>4. Whole(N, B \ BlockOf(p), L) /\ Kept(M, N, B \ BlockOf(p), L)
        /\ (Busy(M.arenas) => Busy(N.arenas))
    BY <2>1, <2>3, Zenon DEF Freed
  <2> QED BY <2>2, <2>4 DEF Released, N
<1>2. CASE p.kind = "large"
  <2>1. N = js_def_free(M, p.at) /\ BlockOf(p) = {} /\ LargeOf(p) = {p.at}
    BY <1>2, Zenon DEF Free, BlockOf, LargeOf
  <2> HIDE DEF N
  <2>2. p.at \in L /\ B \ BlockOf(p) = B /\ L \in SUBSET Address
    BY <2>1 DEF Whole, Held
  <2>3. LargeGone(M, N, B, L, p.at)
    BY <2>1, <2>2, LargeFree, Zenon
  <2>4. Whole(N, B, L \ LargeOf(p)) /\ N.arenas = M.arenas
        /\ \A y \in Address : y # p.at => N.host[y] = M.host[y]
    BY <2>1, <2>3, Zenon DEF LargeGone
  <2>5. \A y \in L \ LargeOf(p) : N.host[y] = M.host[y]
    BY <2>1, <2>2, <2>4
  <2>6. Kept(M, N, B, L \ LargeOf(p))
    BY <2>4, <2>5, Zenon DEF Kept
  <2>7. Busy(M.arenas) => Busy(N.arenas)
    BY <2>4, Zenon
  <2> QED BY <2>2, <2>4, <2>6, <2>7 DEF Released, N
<1>3. CASE p.kind # "block" /\ p.kind # "large"
  <2>1. N = M /\ BlockOf(p) = {} /\ LargeOf(p) = {}
    BY <1>3 DEF Free, BlockOf, LargeOf
  <2> HIDE DEF N
  <2>2. B \ BlockOf(p) = B /\ L \ LargeOf(p) = L
    BY <2>1
  <2>3. Kept(M, N, B, L)
    BY <2>1, Zenon DEF Kept
  <2> QED BY <2>1, <2>2, <2>3 DEF Released, N
<1> QED BY <1>1, <1>2, <1>3

\* A pointer keeps its block with another size.
LEMMA Resized ==
  ASSUME NEW p, IsPointer(p), p # NULL, NEW size \in Nat
  PROVE  LET q == [p EXCEPT !.size = size]
         IN  /\ IsPointer(q) /\ q # NULL /\ q.size = size /\ BlockOf(q) = BlockOf(p)
             /\ LargeOf(q) = LargeOf(p) /\ \A M : UsableSize(M, q) = UsableSize(M, p)
<1> DEFINE q == [p EXCEPT !.size = size]
<1>1. p \in PointerSet /\ p.kind # "null"
  BY DEF IsPointer
<1>2. q \in PointerSet /\ q.kind = p.kind /\ q.at = p.at /\ q.b = p.b /\ q.size = size
  BY <1>1 DEF PointerSet
<1> HIDE DEF q
<1>3. IsPointer(q) /\ q # NULL
  BY <1>1, <1>2, NullFields DEF IsPointer
<1>4. BlockOf(q) = BlockOf(p) /\ LargeOf(q) = LargeOf(p)
  BY <1>2 DEF BlockOf, LargeOf
<1>5. \A M : UsableSize(M, q) = UsableSize(M, p)
  BY <1>2 DEF UsableSize
<1> QED BY <1>2, <1>3, <1>4, <1>5, Zenon DEF q
\* __js_realloc returns NULL and changes nothing, or moves the pointer.
LEMMA ReallocStep ==
  ASSUME NEW M, NEW B, NEW L, Whole(M, B, L), Unused(M) # {}, program \in Programs,
         NEW size \in program.sizes, NEW answer \in Answer,
         NEW p, IsPointer(p), p # NULL, BlockOf(p) \subseteq B, LargeOf(p) \subseteq L
  PROVE  Answered(M, Realloc(M, p, size, answer), size, B \ BlockOf(p), L \ LargeOf(p))
<1> DEFINE r == Realloc(M, p, size, answer)
           q == [p EXCEPT !.size = size]
           w == size + BlockHeader
           C == B \ BlockOf(p)
           K == L \ LargeOf(p)
<1>1. size \in Nat /\ program.limit \in Nat
  BY ArenaAssumption, Zenon
<1>2. answer # Refused => answer \in Nat
  BY ArenaAssumption DEF Answer
<1>3. /\ IsPointer(q) /\ q # NULL /\ q.size = size /\ BlockOf(q) = BlockOf(p)
      /\ LargeOf(q) = LargeOf(p) /\ \A N : UsableSize(N, q) = UsableSize(N, p)
  BY <1>1, Resized
<1>4. C \cup BlockOf(q) = B /\ K \cup LargeOf(q) = L /\ BlockOf(q) \cap C = {}
      /\ LargeOf(q) \cap K = {}
  BY <1>3, Zenon
<1>5. L \in SUBSET Address /\ B \in SUBSET (Address \X Nat)
  BY DEF Whole, Held, Backed
<1>6. CASE p.kind = "large"
  <2>1. CASE Regranted(M, p.at, w, answer)
    <3>1. r.m = js_def_realloc(M, p.at, w, answer) /\ r.p = q
      BY <1>6, <2>1, Zenon DEF Realloc
    <3> HIDE DEF r, q, C, K
    <3>2. /\ answer \in Nat /\ M.size + w - M.host[p.at] <= program.limit
          /\ w \in Nat /\ w >= BlockHeader /\ size <= (w + answer) - BlockHeader
      BY <1>1, <1>2, <2>1, SMTT(30) DEF Regranted, BlockHeader
    <3> HIDE DEF w
    <3>3. LargeOf(p) = {p.at} /\ p.at \in L
      BY <1>6, Zenon DEF LargeOf
    <3>4. LargeChanged(M, js_def_realloc(M, p.at, w, answer), B, L, p.at, w + answer)
      BY <1>1, <3>2, <3>3, LargeRealloc
    <3>5. LargeChanged(M, r.m, B, L, p.at, w + answer)
      BY <3>1, <3>4, Zenon
    <3>6. /\ Whole(r.m, B, L) /\ r.m.arenas = M.arenas /\ r.m.host[p.at] = w + answer
          /\ \A y \in Address : y # p.at => r.m.host[y] = M.host[y]
      BY <3>5, Zenon DEF LargeChanged
    <3>7. \A y \in K : r.m.host[y] = M.host[y]
      BY <1>5, <3>3, <3>6 DEF K
    <3>8. Kept(M, r.m, C, K)
      BY <3>6, <3>7, Zenon DEF Kept
    <3>9. UsableSize(r.m, p) = (w + answer) - BlockHeader
      <4>1. UsableSize(r.m, p) = r.m.host[p.at] - BlockHeader
        BY <1>6 DEF UsableSize
      <4> QED BY <3>6, <4>1, Zenon
    <3>10. r.p.size = size /\ r.p.size <= UsableSize(r.m, r.p)
      BY <1>3, <3>1, <3>2, <3>9, Zenon
    <3>11. Whole(r.m, C \cup BlockOf(r.p), K \cup LargeOf(r.p))
      BY <1>4, <3>1, <3>6, Zenon
    <3>12. Busy(M.arenas) => Busy(r.m.arenas)
      BY <3>6, Zenon
    <3>13. Obtained(M, r.m, r.p, size, C, K)
      BY <1>3, <1>4, <3>1, <3>8, <3>10, <3>11, <3>12, Zenon DEF Obtained
    <3>14. r.p # NULL
      BY <1>3, <3>1, Zenon
    <3> QED BY <3>13, <3>14, Zenon DEF Answered, r, C, K
  <2>2. CASE ~Regranted(M, p.at, w, answer)
    <3>1. r.m = M /\ r.p = NULL
      BY <1>6, <2>2, Zenon DEF Realloc
    <3> QED BY <3>1, Zenon DEF Answered
  <2> QED BY <2>1, <2>2, Zenon
<1>7. CASE p.kind = "zero"
  <2>1. r = Malloc(M, size, answer)
    BY <1>7 DEF Realloc
  <2>2. BlockOf(p) = {} /\ LargeOf(p) = {}
    BY <1>7 DEF BlockOf, LargeOf
  <2>3. C = B /\ K = L
    BY <2>2, Zenon
  <2>4. Answered(M, r, size, B, L)
    BY <2>1, MallocStep, Zenon
  <2> QED BY <2>3, <2>4
<1>8. CASE p.kind = "block"
  <2>0. LargeOf(p) = {} /\ K = L /\ BlockOf(p) = {<<p.at, p.b>>}
    BY <1>8 DEF BlockOf, LargeOf
  <2>1. CASE Total(size) <= BlockSize(M.arenas[p.at].idx)
    <3>1. r.m = M /\ r.p = q
      BY <1>8, <2>1 DEF Realloc
    <3> HIDE DEF r, q, C, K
    <3>2. Kept(M, r.m, C, K)
      BY <3>1, Zenon DEF Kept
    <3>3. size <= UsableSize(M, p)
      <4>1. UsableSize(M, p) = BlockSize(M.arenas[p.at].idx) - BlockHeader
        BY <1>8 DEF UsableSize
      <4>2. p.at \in Address
        BY <1>5, <2>0, SMTT(30)
      <4>3. M.arenas[p.at].idx \in BlockSizeIdx
        BY <4>2 DEF Whole, Memories, Arenas
      <4>4. BlockSize(M.arenas[p.at].idx) \in 16 .. 512
        BY <4>3, BlockSizes, Zenon
      <4>5. \A s, t \in Nat, n \in 16 .. 512 : s + 8 <= t /\ t <= n => s <= n - 8
        OBVIOUS
      <4>6. Total(size) \in Nat /\ size + BlockHeader <= Total(size)
        BY <1>1, Rounded
      <4>7. size <= BlockSize(M.arenas[p.at].idx) - BlockHeader
        BY <1>1, <2>1, <4>4, <4>5, <4>6, Zenon DEF BlockHeader
      <4> QED BY <4>1, <4>7, Zenon
    <3>4. r.p.size = size /\ r.p.size <= UsableSize(r.m, r.p)
      BY <1>3, <3>1, <3>3, Zenon
    <3>5. Whole(r.m, C \cup BlockOf(r.p), K \cup LargeOf(r.p))
      BY <1>4, <3>1, Zenon
    <3>6. Obtained(M, r.m, r.p, size, C, K)
      BY <1>3, <1>4, <3>1, <3>2, <3>4, <3>5, Zenon DEF Obtained
    <3>7. r.p # NULL
      BY <1>3, <3>1, Zenon
    <3> QED BY <3>6, <3>7, Zenon DEF Answered, r, C, K
  <2>2. CASE ~(Total(size) <= BlockSize(M.arenas[p.at].idx))
    <3> DEFINE new == Malloc(M, size, answer)
               N == new.m
               x == new.p
    <3>1. r.m = (IF x = NULL THEN M ELSE Free(N, p)) /\ r.p = x
      BY <1>8, <2>2, Zenon DEF Realloc
    <3>2. Answered(M, new, size, B, L)
      BY MallocStep
    <3> HIDE DEF r, new
    <3>3. CASE x = NULL
      <4>1. r.m = M /\ r.p = NULL
        BY <3>1, <3>3
      <4> QED BY <4>1, Zenon DEF Answered, r
    <3>4. CASE x # NULL
      <4>1. Obtained(M, N, x, size, B, L)
        BY <3>2, <3>4, Zenon DEF Answered
      <4>2. r.m = Free(N, p) /\ r.p = x
        BY <3>1, <3>4, Zenon
      <4> DEFINE B2 == B \cup BlockOf(x)
                 L2 == L \cup LargeOf(x)
                 D == B2 \ BlockOf(p)
                 J == L2 \ LargeOf(p)
      <4> HIDE DEF N, x
      <4>3. /\ Whole(N, B2, L2) /\ BlockOf(x) \cap B = {} /\ LargeOf(x) \cap L = {}
            /\ Kept(M, N, B, L) /\ (Busy(M.arenas) => Busy(N.arenas)) /\ IsPointer(x)
            /\ x.size = size /\ x.size <= UsableSize(N, x)
        BY <4>1, Zenon DEF Obtained
      <4>4. BlockOf(p) \subseteq B2 /\ LargeOf(p) \subseteq L2
        BY Zenon
      <4>5. Released(N, Free(N, p), p, B2, L2)
        BY <1>1, <4>3, <4>4, FreeStep
      <4>6. /\ Whole(r.m, D, J) /\ Kept(N, r.m, D, J) /\ (Busy(N.arenas) => Busy(r.m.arenas))
        BY <4>2, <4>5, Zenon DEF Released
      <4>7. D = C \cup BlockOf(x) /\ J = K \cup LargeOf(x) /\ BlockOf(x) \cap C = {}
            /\ LargeOf(x) \cap K = {}
        BY <2>0, <4>3, Zenon
      <4>8. Kept(M, r.m, C, K)
        <5>1. C \subseteq B /\ C \subseteq D /\ K \subseteq L /\ K \subseteq J
          BY <2>0
        <5> HIDE DEF C, D, K, J
        <5> QED BY <4>3, <4>6, <5>1, KeptTwice, SMTT(30)
      <4>9. UsableSize(r.m, x) = UsableSize(N, x)
        <5>1. BlockOf(x) \subseteq D /\ LargeOf(x) \subseteq J
          BY <4>7
        <5>2. D \in SUBSET (Address \X Nat)
          BY <4>6, Zenon DEF Whole, Backed
        <5> HIDE DEF D, J
        <5> QED BY <4>6, <5>1, <5>2, KeptUsable, SMTT(30)
      <4> HIDE DEF C, K, D, J
      <4>10. r.p.size = size /\ r.p.size <= UsableSize(r.m, r.p)
        BY <4>2, <4>3, <4>9, Zenon
      <4>11. Whole(r.m, C \cup BlockOf(r.p), K \cup LargeOf(r.p))
        BY <4>2, <4>6, <4>7, Zenon
      <4>12. BlockOf(r.p) \cap C = {} /\ LargeOf(r.p) \cap K = {} /\ IsPointer(r.p) /\ r.p # NULL
        BY <3>4, <4>2, <4>3, <4>7, Zenon
      <4>13. Obtained(M, r.m, r.p, size, C, K)
        BY <4>3, <4>6, <4>8, <4>10, <4>11, <4>12, Zenon DEF Obtained
      <4> QED BY <4>12, <4>13, Zenon DEF Answered, r, C, K
    <3> QED BY <3>3, <3>4
  <2> QED BY <2>1, <2>2
<1>9. p.kind \in {"zero", "large", "block"}
  BY Zenon DEF IsPointer, PointerSet
<1> QED BY <1>6, <1>7, <1>8, <1>9, Zenon
-----------------------------------------------------------------------------
(* The inductive invariant *)

\* The pointers P hold what they hold alone.
HeldBlocks(P) == UNION {BlockOf(P[s]) : s \in Slot}
HeldLarges(P) == UNION {LargeOf(P[s]) : s \in Slot}
Owners(P) ==
  /\ P \in [Slot -> PointerSet]
  /\ \A s \in Slot : IsPointer(P[s])
  /\ \A s, r \in Slot : s # r => /\ BlockOf(P[s]) \cap BlockOf(P[r]) = {}
                                 /\ LargeOf(P[s]) \cap LargeOf(P[r]) = {}
Sized(M, P) == \A s \in Slot : P[s].size <= UsableSize(M, P[s])

\* Memory M is made up of what the pointers P hold, and what is free.
Good(M, P) ==
  /\ Owners(P)
  /\ Whole(M, HeldBlocks(P), HeldLarges(P))
  /\ Busy(M.arenas)
  /\ Sized(M, P)

IInv == program \in Programs /\ Good(Memory, pointers) /\ spoiled = FALSE

\* A pointer makes place for another.
LEMMA Exchange ==
  ASSUME NEW M, NEW N, NEW P, Good(M, P), NEW s \in Slot, NEW q, NEW size,
         Obtained(M, N, q, size, HeldBlocks(P) \ BlockOf(P[s]), HeldLarges(P) \ LargeOf(P[s]))
  PROVE  Good(N, [P EXCEPT ![s] = q])
<1> DEFINE B == HeldBlocks(P) \ BlockOf(P[s])
           L == HeldLarges(P) \ LargeOf(P[s])
           Q == [P EXCEPT ![s] = q]
<1>1. /\ Whole(N, B \cup BlockOf(q), L \cup LargeOf(q))
      /\ BlockOf(q) \cap B = {} /\ LargeOf(q) \cap L = {}
      /\ Kept(M, N, B, L) /\ (Busy(M.arenas) => Busy(N.arenas))
      /\ IsPointer(q) /\ q.size <= UsableSize(N, q)
  BY Zenon DEF Obtained
<1>2. /\ P \in [Slot -> PointerSet] /\ \A t \in Slot : IsPointer(P[t])
      /\ \A t, r \in Slot : t # r => /\ BlockOf(P[t]) \cap BlockOf(P[r]) = {}
                                     /\ LargeOf(P[t]) \cap LargeOf(P[r]) = {}
  BY DEF Good, Owners
<1>3. q \in PointerSet
  BY <1>1, Zenon DEF IsPointer
<1>4. Q \in [Slot -> PointerSet] /\ Q[s] = q /\ \A t \in Slot : t # s => Q[t] = P[t]
  BY <1>2, <1>3
<1>5. \A t \in Slot : t # s => BlockOf(P[t]) \subseteq B /\ LargeOf(P[t]) \subseteq L
  BY <1>2 DEF HeldBlocks, HeldLarges
<1>6. HeldBlocks(Q) = B \cup BlockOf(q)
  <2> HIDE DEF Q
  <2>1. \A z : z \in B => \E t \in Slot : t # s /\ z \in BlockOf(P[t])
    BY DEF HeldBlocks
  <2>2. \A z : z \in B => \E t \in Slot : z \in BlockOf(Q[t])
    BY <1>4, <2>1, Zenon
  <2>3. \A z : (\E t \in Slot : z \in BlockOf(Q[t])) => z \in B \/ z \in BlockOf(q)
    BY <1>4, <1>5
  <2>4. \A z : z \in HeldBlocks(Q) <=> \E t \in Slot : z \in BlockOf(Q[t])
    BY DEF HeldBlocks
  <2>5. \A z : z \in BlockOf(q) => \E t \in Slot : z \in BlockOf(Q[t])
    BY <1>4, Zenon
  <2> HIDE DEF B
  <2> QED BY <2>2, <2>3, <2>4, <2>5
<1>7. HeldLarges(Q) = L \cup LargeOf(q)
  <2> HIDE DEF Q
  <2>1. \A z : z \in L => \E t \in Slot : t # s /\ z \in LargeOf(P[t])
    BY DEF HeldLarges
  <2>2. \A z : z \in L => \E t \in Slot : z \in LargeOf(Q[t])
    BY <1>4, <2>1, Zenon
  <2>3. \A z : (\E t \in Slot : z \in LargeOf(Q[t])) => z \in L \/ z \in LargeOf(q)
    BY <1>4, <1>5
  <2>4. \A z : z \in HeldLarges(Q) <=> \E t \in Slot : z \in LargeOf(Q[t])
    BY DEF HeldLarges
  <2>5. \A z : z \in LargeOf(q) => \E t \in Slot : z \in LargeOf(Q[t])
    BY <1>4, Zenon
  <2> HIDE DEF L
  <2> QED BY <2>2, <2>3, <2>4, <2>5
<1> HIDE DEF Q, B, L
<1>8. \A t \in Slot : IsPointer(Q[t])
  BY <1>1, <1>2, <1>4, Zenon
<1>9. \A t \in Slot : t # s => /\ BlockOf(P[t]) \cap BlockOf(q) = {}
                               /\ LargeOf(P[t]) \cap LargeOf(q) = {}
  BY <1>1, <1>5, Zenon
<1>10. \A t, r \in Slot : t # r => /\ BlockOf(Q[t]) \cap BlockOf(Q[r]) = {}
                                   /\ LargeOf(Q[t]) \cap LargeOf(Q[r]) = {}
  <2> TAKE t, r \in Slot
  <2>1. CASE t # s /\ r # s
    BY <1>2, <1>4, <2>1, Zenon
  <2>2. CASE t = s
    BY <1>4, <1>9, <2>2
  <2>3. CASE r = s
    BY <1>4, <1>9, <2>3
  <2> QED BY <2>1, <2>2, <2>3, Zenon
<1>11. Owners(Q)
  BY <1>4, <1>8, <1>10, Zenon DEF Owners
<1>12. Sized(N, Q)
  <2>1. B \in SUBSET (Address \X Nat)
    BY <1>1, Zenon DEF Whole, Backed
  <2>2. \A t \in Slot : t # s => UsableSize(N, P[t]) = UsableSize(M, P[t])
    <3> TAKE t \in Slot
    <3> HAVE t # s
    <3>1. BlockOf(P[t]) \subseteq B /\ LargeOf(P[t]) \subseteq L
      BY <1>5
    <3> QED BY <1>1, <2>1, <3>1, KeptUsable, SMTT(30)
  <2>3. \A t \in Slot : P[t].size <= UsableSize(M, P[t])
    BY DEF Good, Sized
  <2>4. \A t \in Slot : Q[t].size <= UsableSize(N, Q[t])
    BY <1>1, <1>4, <2>2, <2>3, Zenon
  <2> QED BY <2>4, Zenon DEF Sized
<1>13. Busy(N.arenas)
  BY <1>1, Zenon DEF Good
<1>14. Whole(N, HeldBlocks(Q), HeldLarges(Q))
  BY <1>1, <1>6, <1>7, Zenon
<1>15. Good(N, Q)
  BY <1>11, <1>12, <1>13, <1>14, Zenon DEF Good
<1> QED BY <1>15, Zenon DEF Q

\* What a pointer holds is held.
LEMMA HoldsOwn ==
  ASSUME NEW M, NEW P, Good(M, P), NEW s \in Slot
  PROVE  /\ IsPointer(P[s])
         /\ BlockOf(P[s]) \subseteq HeldBlocks(P) /\ LargeOf(P[s]) \subseteq HeldLarges(P)
         /\ P[s].size <= UsableSize(M, P[s])
  BY Zenon DEF Good, Owners, HeldBlocks, HeldLarges, Sized

\* The memory is what the allocator says it becomes.
LEMMA MemoryNext ==
  ASSUME NEW N \in Memories, Becomes(N) PROVE Memory' = N
<1>1. Memory' = [arenas |-> N.arenas, free |-> N.free, host |-> N.host, size |-> N.size,
                 count |-> N.count, asked |-> N.asked]
  BY DEF Memory, Becomes
<1> QED BY <1>1 DEF Memories

LEMMA Empty == Init => IInv
<1> SUFFICES ASSUME Init PROVE IInv
  OBVIOUS
<1>1. /\ program \in Programs /\ spoiled = FALSE
      /\ arenas = [a \in Address |-> NoArena]
      /\ free_arenas = [i \in BlockSizeIdx |-> <<>>]
      /\ host = [a \in Address |-> Nothing]
      /\ malloc_size = 0 /\ malloc_count = 0
      /\ pointers = [s \in Slot |-> NULL]
      /\ asked = [a \in Address |-> Nothing]
  BY DEF Init
<1>2. program.limit \in Nat
  BY <1>1, ArenaAssumption
<1>3. /\ pointers \in [Slot -> PointerSet] /\ \A s \in Slot : pointers[s] = NULL
  BY <1>1, NullFields DEF IsPointer
<1>4. \A s \in Slot : /\ IsPointer(pointers[s]) /\ BlockOf(pointers[s]) = {}
                      /\ LargeOf(pointers[s]) = {}
  BY <1>3, NullFields, Zenon
<1>5. Owners(pointers)
  BY <1>3, <1>4 DEF Owners
<1>6. HeldBlocks(pointers) = {} /\ HeldLarges(pointers) = {}
  BY <1>4 DEF HeldBlocks, HeldLarges
<1>7. Sized(Memory, pointers)
  <2>1. \A s \in Slot : pointers[s].size = 0 /\ UsableSize(Memory, pointers[s]) = 0
    BY <1>3, NullFields, Zenon
  <2> QED BY <2>1 DEF Sized
<1>8. /\ Memory.arenas = arenas /\ Memory.free = free_arenas /\ Memory.host = host
      /\ Memory.size = malloc_size /\ Memory.count = malloc_count /\ Memory.asked = asked
  BY DEF Memory
<1>9. NoArena \in Arenas /\ ArenaOK(NoArena, {})
  BY NoArenaOK
<1>10. arenas \in [Address -> Arenas] /\ \A a \in Address : arenas[a] = NoArena
  BY <1>1, <1>9
<1>11. host \in Sums /\ asked \in Sums /\ \A a \in Address : host[a] = Nothing
  BY <1>1, Zenon DEF Sums, Nothing
<1>12. Memory \in Memories
  BY <1>1, <1>10, <1>11 DEF Memory, Memories
<1>13. Backed(arenas, {})
  <2>1. \A a \in Address : Used({}, a) = {}
    BY DEF Used
  <2>2. \A a \in Address : ArenaOK(arenas[a], Used({}, a))
    BY <1>9, <1>10, <2>1, Zenon
  <2> QED BY <1>10, <2>2 DEF Backed
<1>14. Listed(free_arenas, arenas)
  <2>1. \A i \in BlockSizeIdx : Offered(arenas, i) = {}
    BY <1>10 DEF Offered, NoArena
  <2>2. Enumerates(<<>>, {})
    BY DEF Enumerates
  <2>3. \A i \in BlockSizeIdx : Enumerates(free_arenas[i], Offered(arenas, i))
    BY <1>1, <2>1, <2>2
  <2>4. free_arenas \in [BlockSizeIdx -> Seq(Address)]
    BY <1>1
  <2> QED BY <2>3, <2>4 DEF Listed
<1>15. Held(host, arenas, {})
  BY <1>10, <1>11 DEF Held
<1>16. Counted(host, asked, 0, 0)
  <2>1. SumOver(host) = 0 /\ SumOver(asked) = 0
    BY <1>1, SumZero, Zenon
  <2>2. Given(host) = {}
    BY <1>11 DEF Given
  <2>3. Cardinality(Given(host)) = 0
    BY <2>2, FS_EmptySet
  <2>4. \A a \in Address : asked[a] <= host[a]
    BY <1>1 DEF Nothing
  <2>5. SumOver(asked) <= program.limit
    BY <1>2, <2>1
  <2>6. 0 = SumOver(host) + Overhead * Cardinality(Given(host))
    BY <2>1, <2>3 DEF Overhead
  <2> QED BY <2>3, <2>4, <2>5, <2>6, Zenon DEF Counted
<1>17. Whole(Memory, {}, {})
  BY <1>1, <1>8, <1>12, <1>13, <1>14, <1>15, <1>16, Zenon DEF Whole
<1>18. Busy(Memory.arenas)
  BY <1>8, <1>10, Zenon DEF Busy
<1>19. Good(Memory, pointers)
  BY <1>5, <1>6, <1>7, <1>17, <1>18, Zenon DEF Good
<1> QED BY <1>1, <1>19 DEF IInv
LEMMA RoomLeft == Room => Unused(Memory) # {}
  BY FS_EmptySet DEF Room

\* What there is room for keeps the invariant.
LEMMA GoodMemory ==
  ASSUME IInv PROVE /\ program \in Programs /\ program.limit \in Nat /\ spoiled = FALSE
                    /\ Good(Memory, pointers)
                    /\ Whole(Memory, HeldBlocks(pointers), HeldLarges(pointers))
                    /\ pointers \in [Slot -> PointerSet]
  BY ArenaAssumption, Zenon DEF IInv, Good, Owners

LEMMA GoodNext ==
  ASSUME program' = program, Good(Memory', pointers') PROVE Good(Memory, pointers)'
  BY Zenon DEF Good, Whole, Counted

LEMMA AllocateStep ==
  ASSUME IInv, NEW s \in Slot, NEW size \in program.sizes, NEW answer \in Answer,
         Allocate(s, size, answer)
  PROVE  IInv'
<1> DEFINE r == Malloc(Memory, size, answer)
           B == HeldBlocks(pointers)
           L == HeldLarges(pointers)
<1>1. /\ Room /\ pointers[s] = NULL /\ Becomes(r.m)
      /\ pointers' = [pointers EXCEPT ![s] = r.p] /\ program' = program /\ spoiled' = spoiled
  BY DEF Allocate
<1>2. /\ program \in Programs /\ program.limit \in Nat /\ spoiled = FALSE
      /\ Good(Memory, pointers) /\ Whole(Memory, B, L) /\ pointers \in [Slot -> PointerSet]
  BY GoodMemory, Zenon
<1>3. Answered(Memory, r, size, B, L)
  BY <1>1, <1>2, RoomLeft, MallocStep, Zenon
<1> HIDE DEF r
<1>4. CASE r.p = NULL
  <2>1. r.m = Memory
    BY <1>3, <1>4, Zenon DEF Answered
  <2>2. Memory \in Memories
    BY <1>2 DEF Whole
  <2>3. Memory' = Memory
    BY <1>1, <2>1, <2>2, MemoryNext, Zenon
  <2>4. pointers' = pointers
    BY <1>1, <1>2, <1>4
  <2>5. Good(Memory', pointers')
    BY <1>2, <2>3, <2>4, Zenon
  <2> QED BY <1>1, <1>2, <2>5, GoodNext, Zenon DEF IInv
<1>5. CASE r.p # NULL
  <2>1. Obtained(Memory, r.m, r.p, size, B, L)
    BY <1>3, <1>5, Zenon DEF Answered
  <2>2. B \ BlockOf(pointers[s]) = B /\ L \ LargeOf(pointers[s]) = L
    BY <1>1, NullFields
  <2>3. Obtained(Memory, r.m, r.p, size, B \ BlockOf(pointers[s]), L \ LargeOf(pointers[s]))
    BY <2>1, <2>2, Zenon
  <2>4. Good(r.m, [pointers EXCEPT ![s] = r.p])
    BY <1>2, <2>3, Exchange, Zenon
  <2>5. r.m \in Memories
    BY <2>4, Zenon DEF Good, Whole
  <2>6. Memory' = r.m
    BY <1>1, <2>5, MemoryNext
  <2>7. Good(Memory', pointers')
    BY <1>1, <2>4, <2>6, Zenon
  <2> QED BY <1>1, <1>2, <2>7, GoodNext, Zenon DEF IInv
<1> QED BY <1>4, <1>5, Zenon

LEMMA ReleaseStep ==
  ASSUME IInv, NEW s \in Slot, Release(s) PROVE IInv'
<1> DEFINE p == pointers[s]
           N == Free(Memory, p)
           B == HeldBlocks(pointers)
           L == HeldLarges(pointers)
<1>1. /\ Becomes(N) /\ pointers' = [pointers EXCEPT ![s] = NULL]
      /\ program' = program /\ spoiled' = spoiled
  BY DEF Release
<1>2. /\ program \in Programs /\ program.limit \in Nat /\ spoiled = FALSE
      /\ Good(Memory, pointers) /\ Whole(Memory, B, L)
  BY GoodMemory, Zenon
<1>3. BlockOf(p) \subseteq B /\ LargeOf(p) \subseteq L
  BY <1>2, HoldsOwn
<1>4. Released(Memory, N, p, B, L)
  BY <1>2, <1>3, FreeStep
<1> HIDE DEF N, p
<1>5. /\ Whole(N, B \ BlockOf(p), L \ LargeOf(p))
      /\ Kept(Memory, N, B \ BlockOf(p), L \ LargeOf(p))
      /\ Busy(Memory.arenas) => Busy(N.arenas)
  BY <1>4, Zenon DEF Released
<1>6. /\ IsPointer(NULL) /\ NULL.size = 0 /\ UsableSize(N, NULL) = 0
      /\ BlockOf(NULL) = {} /\ LargeOf(NULL) = {}
  BY NullFields, Zenon
<1>7. Whole(N, (B \ BlockOf(p)) \cup BlockOf(NULL), (L \ LargeOf(p)) \cup LargeOf(NULL))
  <2>1. /\ (B \ BlockOf(p)) \cup BlockOf(NULL) = B \ BlockOf(p)
        /\ (L \ LargeOf(p)) \cup LargeOf(NULL) = L \ LargeOf(p)
    BY <1>6
  <2> QED BY <1>5, <2>1, Zenon
<1>8. /\ BlockOf(NULL) \cap (B \ BlockOf(p)) = {} /\ LargeOf(NULL) \cap (L \ LargeOf(p)) = {}
      /\ NULL.size <= UsableSize(N, NULL)
  BY <1>6
<1>9. Obtained(Memory, N, NULL, 0, B \ BlockOf(p), L \ LargeOf(p))
  BY <1>5, <1>6, <1>7, <1>8, Zenon DEF Obtained
<1>10. Good(N, [pointers EXCEPT ![s] = NULL])
  BY <1>2, <1>9, Exchange DEF p
<1>11. N \in Memories
  BY <1>10 DEF Good, Whole
<1>12. Memory' = N
  BY <1>1, <1>11, MemoryNext
<1>13. Good(Memory', pointers')
  BY <1>1, <1>10, <1>12, Zenon
<1> QED BY <1>1, <1>2, <1>13, GoodNext DEF IInv

\* The bytes of a pointer's block.
LEMMA UsableNat ==
  ASSUME NEW M, NEW P, Good(M, P), NEW s \in Slot
  PROVE  UsableSize(M, P[s]) \in Nat
<1> DEFINE p == P[s]
           B == HeldBlocks(P)
           L == HeldLarges(P)
           size == UsableSize(M, p)
<1>1. Whole(M, B, L) /\ BlockOf(p) \subseteq B /\ LargeOf(p) \subseteq L
  BY HoldsOwn, Zenon DEF Good
<1>2. CASE p.kind = "block"
  <2>1. <<p.at, p.b>> \in B
    BY <1>1, <1>2 DEF BlockOf
  <2>2. p.at \in Address
    BY <1>1, <2>1, Zenon DEF Whole, Backed
  <2>3. M.arenas[p.at].idx \in BlockSizeIdx
    BY <1>1, <2>2 DEF Whole, Memories, Arenas
  <2>4. BlockSize(M.arenas[p.at].idx) \in 16 .. 512
    BY <2>3, BlockSizes, Zenon
  <2>5. \A n \in 16 .. 512 : n - BlockHeader \in Nat
    BY SMTT(30) DEF BlockHeader
  <2>6. size = BlockSize(M.arenas[p.at].idx) - BlockHeader
    BY <1>2 DEF UsableSize
  <2> QED BY <2>4, <2>5, <2>6, Zenon
<1>3. CASE p.kind = "large"
  <2>1. p.at \in L
    BY <1>1, <1>3, Zenon DEF LargeOf
  <2>2. p.at \in Address /\ M.host[p.at] >= BlockHeader
    BY <1>1, <2>1 DEF Whole, Held
  <2>3. M.host[p.at] \in Nat
    BY <1>1, <2>2 DEF Whole, Memories, Sums
  <2>4. \A n \in Nat : n >= BlockHeader => n - BlockHeader \in Nat
    BY SMTT(30) DEF BlockHeader
  <2>5. size = M.host[p.at] - BlockHeader
    BY <1>3 DEF UsableSize
  <2> QED BY <2>2, <2>3, <2>4, <2>5, Zenon
<1>4. CASE p.kind # "block" /\ p.kind # "large"
  BY <1>4 DEF UsableSize
<1> QED BY <1>2, <1>3, <1>4

LEMMA UseSlackStep ==
  ASSUME IInv, NEW s \in Slot, UseSlack(s) PROVE IInv'
<1> DEFINE p == pointers[s]
           size == UsableSize(Memory, p)
           q == [p EXCEPT !.size = size]
           B == HeldBlocks(pointers)
           L == HeldLarges(pointers)
<1>1. /\ p # NULL /\ pointers' = [pointers EXCEPT ![s].size = size]
      /\ program' = program /\ spoiled' = spoiled /\ Memory' = Memory
  BY DEF UseSlack, Memory
<1>2. /\ program \in Programs /\ spoiled = FALSE /\ pointers \in [Slot -> PointerSet]
      /\ Good(Memory, pointers) /\ Whole(Memory, B, L)
  BY GoodMemory
<1>3. IsPointer(p) /\ BlockOf(p) \subseteq B /\ LargeOf(p) \subseteq L
  BY <1>2, HoldsOwn
<1>4. size \in Nat
  BY <1>2, UsableNat
<1> HIDE DEF size
<1>5. pointers' = [pointers EXCEPT ![s] = q]
  BY <1>1, <1>2
<1>6. /\ IsPointer(q) /\ q.size = size /\ BlockOf(q) = BlockOf(p)
      /\ LargeOf(q) = LargeOf(p) /\ UsableSize(Memory, q) = size
  BY <1>1, <1>3, <1>4, Resized DEF size
<1> HIDE DEF q, p
<1>7. /\ (B \ BlockOf(p)) \cup BlockOf(q) = B /\ (L \ LargeOf(p)) \cup LargeOf(q) = L
      /\ BlockOf(q) \cap (B \ BlockOf(p)) = {} /\ LargeOf(q) \cap (L \ LargeOf(p)) = {}
  BY <1>3, <1>6
<1>8. Whole(Memory, (B \ BlockOf(p)) \cup BlockOf(q), (L \ LargeOf(p)) \cup LargeOf(q))
  BY <1>2, <1>7, Zenon
<1>9. Kept(Memory, Memory, B \ BlockOf(p), L \ LargeOf(p))
  BY Zenon DEF Kept
<1>10. q.size <= UsableSize(Memory, q)
  BY <1>4, <1>6
<1>11. Obtained(Memory, Memory, q, size, B \ BlockOf(p), L \ LargeOf(p))
  BY <1>6, <1>7, <1>8, <1>9, <1>10, Zenon DEF Obtained
<1>12. Good(Memory, [pointers EXCEPT ![s] = q])
  BY <1>2, <1>11, Exchange, Zenon DEF p
<1>13. Good(Memory', pointers')
  BY <1>1, <1>5, <1>12, Zenon
<1> QED BY <1>1, <1>2, <1>13, GoodNext DEF IInv
LEMMA ResizeStep ==
  ASSUME IInv, NEW s \in Slot, NEW size \in program.sizes, NEW answer \in Answer,
         Resize(s, size, answer)
  PROVE  IInv'
<1> DEFINE p == pointers[s]
           r == Realloc(Memory, p, size, answer)
           B == HeldBlocks(pointers)
           L == HeldLarges(pointers)
           n == Copied(p, size)
           moves == p.kind = "block" /\ Total(size) > UsableSize(Memory, p) + BlockHeader
           u == UsableSize(Memory, p)
           v == UsableSize(r.m, r.p)
<1>1. /\ Room /\ p # NULL /\ Becomes(r.m)
      /\ pointers' = [pointers EXCEPT ![s] = IF r.p = NULL THEN p ELSE r.p]
      /\ program' = program
      /\ spoiled' = (spoiled \/ /\ moves /\ r.p # NULL
                                /\ n < Lesser(p.size, size) \/ n > u \/ n > v)
  BY Zenon DEF Resize
<1>2. /\ program \in Programs /\ program.limit \in Nat /\ spoiled = FALSE
      /\ Good(Memory, pointers) /\ Whole(Memory, B, L) /\ pointers \in [Slot -> PointerSet]
  BY GoodMemory
<1>3. /\ IsPointer(p) /\ BlockOf(p) \subseteq B /\ LargeOf(p) \subseteq L /\ p.size <= u
  BY <1>2, HoldsOwn, Zenon
<1>4. Answered(Memory, r, size, B \ BlockOf(p), L \ LargeOf(p))
  BY <1>1, <1>2, <1>3, RoomLeft, ReallocStep, Zenon
<1>5. size \in Nat /\ p.size \in Nat /\ u \in Nat
  BY <1>2, <1>3, UsableNat, ArenaAssumption, Zenon DEF IsPointer, PointerSet
<1> HIDE DEF r
<1>6. CASE r.p = NULL
  <2>1. r.m = Memory
    BY <1>4, <1>6, Zenon DEF Answered
  <2>2. Memory \in Memories
    BY <1>2 DEF Whole
  <2>3. Memory' = Memory
    BY <1>1, <2>1, <2>2, MemoryNext
  <2>4. pointers' = pointers /\ spoiled' = FALSE
    BY <1>1, <1>2, <1>6, Zenon
  <2>5. Good(Memory', pointers')
    BY <1>2, <2>3, <2>4, Zenon
  <2> QED BY <1>1, <1>2, <2>4, <2>5, GoodNext, Zenon DEF IInv
<1>7. CASE r.p # NULL
  <2> DEFINE P == [pointers EXCEPT ![s] = r.p]
  <2>1. Obtained(Memory, r.m, r.p, size, B \ BlockOf(p), L \ LargeOf(p))
    BY <1>4, <1>7, Zenon DEF Answered
  <2>2. Good(r.m, P)
    BY <1>2, <2>1, Exchange, Zenon
  <2>3. r.m \in Memories
    BY <2>2, Zenon DEF Good, Whole
  <2>4. Memory' = r.m
    BY <1>1, <2>3, MemoryNext
  <2>5. pointers' = P /\ P[s] = r.p
    BY <1>1, <1>2, <1>7, Zenon
  <2>6. Good(Memory', pointers')
    BY <2>2, <2>4, <2>5, Zenon
  <2>7. size <= v /\ v \in Nat
    <3>1. r.p.size = size /\ r.p.size <= v
      BY <2>1, Zenon DEF Obtained
    <3>2. UsableSize(r.m, P[s]) \in Nat
      BY <2>2, UsableNat, Zenon
    <3> QED BY <2>5, <3>1, <3>2, Zenon
  <2>8. ASSUME moves PROVE ~(n < Lesser(p.size, size) \/ n > u \/ n > v)
    <3>1. n = IF size > u THEN u ELSE size
      <4>1. u = BlockSize(arenas[p.at].idx) - BlockHeader
        BY <2>8, Zenon DEF UsableSize, Memory
      <4> HIDE DEF u
      <4>2. Copied(p, size) = IF size > u THEN u ELSE size
        BY <4>1 DEF Copied
      <4> QED BY <4>2
    <3> HIDE DEF n, u, v
    <3>2. \A a, b, c, d \in Nat :
            a <= c /\ b <= d
              => LET k == IF b > c THEN c ELSE b
                 IN  ~(k < Lesser(a, b) \/ k > c \/ k > d)
      BY DEF Lesser
    <3> QED BY <1>3, <1>5, <2>7, <3>1, <3>2
  <2>9. spoiled' = FALSE
    BY <1>1, <1>2, <2>8, Zenon
  <2> QED BY <1>1, <1>2, <2>6, <2>9, GoodNext, Zenon DEF IInv
<1> QED BY <1>6, <1>7

\* Whatever the engine allocates, resizes and frees, in any order and whatever
\* the host's malloc answers, the memory is made up of what is held and what is
\* free: every pointer has its block alone, the chains and the lists are whole.
THEOREM MemoryWhole == Spec => []IInv
<1>1. Init => IInv
  BY Empty
<1>2. IInv /\ [Next]_vars => IInv'
  <2> SUFFICES ASSUME IInv, [Next]_vars PROVE IInv'
    OBVIOUS
  <2>1. CASE UNCHANGED vars
    <3>1. /\ program' = program /\ Memory' = Memory /\ pointers' = pointers
          /\ spoiled' = spoiled
      BY <2>1 DEF vars, Memory
    <3>2. Good(Memory', pointers')
      BY <3>1, GoodMemory, Zenon
    <3> QED BY <3>1, <3>2, GoodNext, Zenon DEF IInv
  <2>2. CASE Next
    <3>1. PICK s \in Slot :
            \/ \E size \in program.sizes, answer \in Answer :
                 Allocate(s, size, answer) \/ Resize(s, size, answer)
            \/ Release(s)
            \/ UseSlack(s)
      BY <2>2, Zenon DEF Next
    <3>2. ASSUME NEW size \in program.sizes, NEW answer \in Answer, Allocate(s, size, answer)
          PROVE  IInv'
      BY <3>2, AllocateStep
    <3>3. ASSUME NEW size \in program.sizes, NEW answer \in Answer, Resize(s, size, answer)
          PROVE  IInv'
      BY <3>3, ResizeStep
    <3>4. CASE Release(s)
      BY <3>4, ReleaseStep
    <3>5. CASE UseSlack(s)
      BY <3>5, UseSlackStep, Zenon
    <3> QED BY <3>1, <3>2, <3>3, <3>4, <3>5, Zenon
  <2> QED BY <2>1, <2>2
<1> QED BY <1>1, <1>2, PTL DEF Spec
-----------------------------------------------------------------------------
(* What the invariant says *)

\* The blocks of an arena that are held are those that pointers name.
LEMMA BlocksNamed ==
  ASSUME IInv, NEW a \in Address PROVE BlocksOf(a) = Used(HeldBlocks(pointers), a)
<1>1. \A s \in Slot : pointers[s].kind = "block" => pointers[s].b \in Nat
  BY GoodMemory DEF PointerSet
<1>2. \A b : b \in BlocksOf(a)
               <=> \E s \in Slot : /\ pointers[s].kind = "block"
                                   /\ pointers[s].at = a /\ pointers[s].b = b
  BY DEF BlocksOf, Taken
<1>3. \A b : <<a, b>> \in HeldBlocks(pointers)
               <=> \E s \in Slot : /\ pointers[s].kind = "block"
                                   /\ pointers[s].at = a /\ pointers[s].b = b
  <2>1. \A b, s : <<a, b>> \in BlockOf(pointers[s])
                    <=> /\ pointers[s].kind = "block"
                        /\ pointers[s].at = a /\ pointers[s].b = b
    BY DEF BlockOf
  <2>2. \A z : z \in HeldBlocks(pointers) <=> \E s \in Slot : z \in BlockOf(pointers[s])
    BY DEF HeldBlocks
  <2> QED BY <2>1, <2>2, Zenon
<1>4. \A b : b \in Used(HeldBlocks(pointers), a) <=> b \in Nat /\ <<a, b>> \in HeldBlocks(pointers)
  BY Zenon DEF Used
<1> QED BY <1>1, <1>2, <1>3, <1>4, Zenon

\* A pointer to a block points into an arena, one to a large block does not.
LEMMA PointsTo ==
  ASSUME IInv, NEW s \in Slot
  PROVE  /\ pointers[s].kind = "block"
              => /\ pointers[s].at \in Address /\ arenas[pointers[s].at] # NoArena
                 /\ host[pointers[s].at] # Nothing
         /\ pointers[s].kind = "large"
              => /\ pointers[s].at \in Address /\ arenas[pointers[s].at] = NoArena
                 /\ host[pointers[s].at] # Nothing
<1> DEFINE p == pointers[s]
           B == HeldBlocks(pointers)
           L == HeldLarges(pointers)
<1>1. Good(Memory, pointers) /\ Whole(Memory, B, L)
  BY GoodMemory, Zenon
<1>2. BlockOf(p) \subseteq B /\ LargeOf(p) \subseteq L
  BY <1>1, HoldsOwn
<1>3. /\ B \in SUBSET (Address \X Nat) /\ \A a \in Address : ArenaOK(arenas[a], Used(B, a))
      /\ Held(host, arenas, L)
  BY <1>1, Zenon DEF Whole, Backed, Memory
<1>4. ASSUME p.kind = "block"
      PROVE  p.at \in Address /\ arenas[p.at] # NoArena /\ host[p.at] # Nothing
  <2>1. <<p.at, p.b>> \in B
    BY <1>2, <1>4, Zenon DEF BlockOf
  <2>2. p.at \in Address /\ p.b \in Used(B, p.at)
    BY <1>3, <2>1, Zenon DEF Used
  <2>3. ArenaOK(arenas[p.at], Used(B, p.at))
    BY <1>3, <2>2, Zenon
  <2>4. arenas[p.at] # NoArena
    <3>1. ~ArenaOK(NoArena, Used(B, p.at))
      BY <2>2, Zenon DEF ArenaOK, NoArena
    <3> QED BY <2>3, <3>1
  <2> QED BY <1>3, <2>2, <2>4, Zenon DEF Held
<1>5. ASSUME p.kind = "large"
      PROVE  p.at \in Address /\ arenas[p.at] = NoArena /\ host[p.at] # Nothing
  <2>1. p.at \in L
    BY <1>2, <1>5 DEF LargeOf
  <2>2. p.at \in Address
    BY <1>3, <2>1, Zenon DEF Held
  <2> QED BY <1>3, <2>1, <2>2, Zenon DEF Held
<1> QED BY <1>4, <1>5

LEMMA OwnedNow == IInv => BlocksOwned
<1> SUFFICES ASSUME IInv PROVE BlocksOwned
  BY Zenon
<1> DEFINE B == HeldBlocks(pointers)
           L == HeldLarges(pointers)
<1>1. /\ Good(Memory, pointers) /\ spoiled = FALSE /\ Whole(Memory, B, L)
  BY GoodMemory
<1>2. /\ arenas \in [Address -> Arenas]
      /\ \A a \in Address : ArenaOK(arenas[a], Used(B, a))
      /\ Listed(free_arenas, arenas)
  BY <1>1, Zenon DEF Whole, Backed, Memory
<1>3. \A s, r \in Slot :
        s # r => /\ BlockOf(pointers[s]) \cap BlockOf(pointers[r]) = {}
                 /\ LargeOf(pointers[s]) \cap LargeOf(pointers[r]) = {}
  BY <1>1, Zenon DEF Good, Owners
<1>4. \A s, r \in Taken :
        s # r => \/ pointers[s].at # pointers[r].at
                 \/ pointers[s].b # pointers[r].b
  <2> SUFFICES ASSUME NEW s \in Taken, NEW r \in Taken, s # r
               PROVE  \/ pointers[s].at # pointers[r].at
                      \/ pointers[s].b # pointers[r].b
    BY Zenon
  <2>1. /\ s \in Slot /\ r \in Slot
        /\ pointers[s].kind \in {"block", "large"} /\ pointers[r].kind \in {"block", "large"}
    BY Zenon DEF Taken
  <2>2. CASE pointers[s].kind = "block" /\ pointers[r].kind = "block"
    BY <1>3, <2>1, <2>2, Zenon DEF BlockOf
  <2>3. CASE pointers[s].kind = "large" /\ pointers[r].kind = "large"
    BY <1>3, <2>1, <2>3 DEF LargeOf
  <2>4. CASE pointers[s].kind = "block" /\ pointers[r].kind = "large"
    BY <2>1, <2>4, PointsTo, Zenon
  <2>5. CASE pointers[s].kind = "large" /\ pointers[r].kind = "block"
    BY <2>1, <2>5, PointsTo
  <2> QED BY <2>1, <2>2, <2>3, <2>4, <2>5
<1>5. \A s \in Taken : /\ host[pointers[s].at] # Nothing
                       /\ pointers[s].size <= UsableSize(Memory, pointers[s])
  <2> TAKE s \in Taken
  <2>1. s \in Slot /\ pointers[s].kind \in {"block", "large"}
    BY Zenon DEF Taken
  <2>2. host[pointers[s].at] # Nothing
    BY <2>1, PointsTo, Zenon
  <2>3. pointers[s].size <= UsableSize(Memory, pointers[s])
    BY <1>1, <2>1, HoldsOwn
  <2> QED BY <2>2, <2>3
<1>6. \A a \in ArenasNow :
        /\ Chained(arenas[a].first, arenas[a].u, arenas[a].n_blocks - arenas[a].n_used,
                   (0 .. arenas[a].n_blocks - 1) \ BlocksOf(a))
        /\ arenas[a].n_used = Cardinality(BlocksOf(a))
        /\ Cardinality({k \in 1 .. Len(free_arenas[arenas[a].idx]) :
                          free_arenas[arenas[a].idx][k] = a})
             = IF arenas[a].n_used < arenas[a].n_blocks THEN 1 ELSE 0
  <2> TAKE a \in ArenasNow
  <2> DEFINE ar == arenas[a]
             list == free_arenas[ar.idx]
             K == {k \in 1 .. Len(list) : list[k] = a}
  <2>1. a \in Address /\ ar.idx \in BlockSizeIdx /\ BlocksOf(a) = Used(B, a)
    BY <1>2, BlocksNamed DEF ArenasNow, Arenas
  <2>2. ArenaOK(ar, Used(B, a))
    BY <1>2, <2>1, Zenon
  <2>3. /\ Chained(ar.first, ar.u, ar.n_blocks - ar.n_used, (0 .. ar.n_blocks - 1) \ BlocksOf(a))
        /\ ar.n_used = Cardinality(BlocksOf(a))
    BY <2>1, <2>2, Zenon DEF ArenaOK
  <2>4. Enumerates(list, Offered(arenas, ar.idx))
    BY <1>2, <2>1, Zenon DEF Listed
  <2> HIDE DEF list
  <2>5. CASE ar.n_used < ar.n_blocks
    <3>1. a \in Offered(arenas, ar.idx)
      BY <2>1, <2>5 DEF Offered
    <3>2. PICK k \in 1 .. Len(list) : list[k] = a
      BY <2>4, <3>1, Zenon DEF Enumerates
    <3>3. \A l \in 1 .. Len(list) : list[l] = a => l = k
      BY <2>4, <3>2, Zenon DEF Enumerates
    <3>4. K = {k}
      BY <3>2, <3>3
    <3>5. Cardinality(K) = 1
      BY <3>4, FS_Singleton, Zenon
    <3> QED BY <2>3, <2>5, <3>5, Zenon DEF list
  <2>6. CASE ~(ar.n_used < ar.n_blocks)
    <3>1. a \notin Offered(arenas, ar.idx)
      BY <2>6 DEF Offered
    <3>2. \A k \in 1 .. Len(list) : list[k] # a
      BY <2>4, <3>1 DEF Enumerates
    <3>3. K = {}
      BY <3>2
    <3>4. Cardinality(K) = 0
      BY <3>3, FS_EmptySet, Zenon
    <3> QED BY <2>3, <2>6, <3>4 DEF list
  <2> QED BY <2>5, <2>6, Zenon
<1>7. \A i \in BlockSizeIdx :
        \A k \in 1 .. Len(free_arenas[i]) : free_arenas[i][k] \in ArenasNow
  <2> TAKE i \in BlockSizeIdx
  <2> TAKE k \in 1 .. Len(free_arenas[i])
  <2>1. Enumerates(free_arenas[i], Offered(arenas, i))
    BY <1>2, Zenon DEF Listed
  <2>2. free_arenas[i][k] \in Offered(arenas, i)
    BY <2>1, Zenon DEF Enumerates
  <2> QED BY <2>2 DEF Offered, ArenasNow, NoArena
<1> QED BY <1>1, <1>4, <1>5, <1>6, <1>7, Zenon DEF BlocksOwned

LEMMA AccountedNow == IInv => MemoryAccounted
<1> SUFFICES ASSUME IInv PROVE MemoryAccounted
  OBVIOUS
<1> DEFINE B == HeldBlocks(pointers)
           L == HeldLarges(pointers)
           at == {pointers[s].at : s \in Taken}
<1>1. Good(Memory, pointers) /\ Whole(Memory, B, L)
  BY GoodMemory
<1>2. /\ arenas \in [Address -> Arenas]
      /\ \A a \in Address : ArenaOK(arenas[a], Used(B, a))
      /\ Held(host, arenas, L) /\ Counted(host, asked, malloc_size, malloc_count)
      /\ Busy(arenas)
  BY <1>1, Zenon DEF Whole, Backed, Memory, Good
<1>3. at \subseteq Given(host)
  <2>1. \A s \in Taken : pointers[s].at \in Given(host)
    <3> TAKE s \in Taken
    <3>1. s \in Slot /\ pointers[s].kind \in {"block", "large"}
      BY DEF Taken
    <3> QED BY <3>1, PointsTo, Zenon DEF Given
  <2> QED BY <2>1
<1>4. Given(host) \subseteq at
  <2> SUFFICES ASSUME NEW a \in Given(host) PROVE a \in at
    BY Zenon
  <2>1. a \in Address /\ (arenas[a] # NoArena \/ a \in L)
    BY <1>2, Zenon DEF Given, Held
  <2>2. CASE a \in L
    <3>1. PICK s \in Slot : a \in LargeOf(pointers[s])
      BY <2>2 DEF HeldLarges
    <3>2. pointers[s].kind = "large" /\ pointers[s].at = a
      BY <3>1 DEF LargeOf
    <3> QED BY <3>2 DEF Taken
  <2>3. CASE arenas[a] # NoArena
    <3>1. arenas[a].n_used >= 1 /\ arenas[a].n_used = Cardinality(Used(B, a))
      BY <1>2, <2>1, <2>3, Zenon DEF Busy, ArenaOK
    <3>2. Used(B, a) # {}
      BY <3>1, FS_EmptySet
    <3>3. PICK b : b \in BlocksOf(a)
      BY <2>1, <3>2, BlocksNamed, Zenon
    <3>4. PICK s \in Taken : pointers[s].kind = "block" /\ pointers[s].at = a
      BY <3>3 DEF BlocksOf
    <3> QED BY <3>4
  <2> QED BY <2>1, <2>2, <2>3
<1>5. Given(host) = at
  BY <1>3, <1>4
<1>6. /\ malloc_size = SumOver(host) + Overhead * Cardinality(Given(host))
      /\ malloc_count = Cardinality(Given(host))
      /\ SumOver(asked) <= program.limit
  BY <1>2, Zenon DEF Counted
<1> QED BY <1>5, <1>6, Zenon DEF MemoryAccounted, Given

\* Memory that js_malloc_rt or js_realloc_rt gives out is given out once, the
\* free blocks of an arena are those on its chain, and an arena is offered
\* exactly while it has one, for any sizes, arena size and limit.
THEOREM MemoryGivenOnce == Spec => []BlocksOwned
<1>1. Spec => []IInv
  BY MemoryWhole
<1> QED BY <1>1, OwnedNow, PTL

\* What malloc_state counts is what the host has given, within the limit of
\* JS_SetMemoryLimit, and all of it is held by somebody, so all of it comes back.
THEOREM NothingLost == Spec => []MemoryAccounted
<1>1. Spec => []IInv
  BY MemoryWhole
<1> QED BY <1>1, AccountedNow, PTL
=============================================================================
