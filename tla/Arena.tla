------------------------------- MODULE Arena -------------------------------
(***************************************************************************)
(* The allocator of the engine (JS malloc in qjs/lib/_qjs_quickjs.c):      *)
(* small blocks are cut from arenas, one block size to an arena, large     *)
(* ones come from the host's malloc, and the bytes that the host has given *)
(* are counted against the limit of JS_SetMemoryLimit.                     *)
(*                                                                         *)
(* The engine keeps pointers and allocates, resizes and frees in any       *)
(* order; the host's malloc may refuse, and gives blocks that may be a     *)
(* little larger than asked for.  Memory is the bytes of a block only as   *)
(* far as their number goes.  arena_list, which holds all arenas and is    *)
(* only read to print them, is left out.                                   *)
(***************************************************************************)
EXTENDS Integers, Sequences, FiniteSetsExt

CONSTANTS Programs,     \* bound: the sizes that are asked for, JS_MALLOC_ARENA_SIZE
                        \*   and the limit, see Init
          Slacks,       \* bound: how much larger a host's block may be
          MaxPointers,  \* bound: pointers that the engine keeps
          MaxAddresses  \* bound: blocks of the host

VARIABLES program,      \* the member of Programs
          arenas,       \* JSMallocArena by address, or NoArena
          free_arenas,  \* free_arena_list of each block size
          host,         \* malloc_usable_size of the host's blocks, or Nothing
          malloc_size, malloc_count,  \* malloc_state
          pointers,     \* the pointers that the engine keeps, or NULL
          asked,        \* history: the size that each host block was asked for
          spoiled       \* history: a resized block lost bytes, or the copy went
                        \*   over the end of a block

vars == <<program, arenas, free_arenas, host, malloc_size, malloc_count,
          pointers, asked, spoiled>>

Address == 1 .. MaxAddresses
Slot == 1 .. MaxPointers
Nothing == 0
FREE_NIL == -1
NoArena == [idx |-> 0, n_blocks |-> 0, n_used |-> 0, first |-> FREE_NIL,
            u |-> [b \in {} |-> FREE_NIL]]

\* The header of an arena, a block and a large block; MALLOC_OVERHEAD.
ArenaHeader == 48
BlockHeader == 8
Overhead == 8

-----------------------------------------------------------------------------
(* Block sizes *)

js_malloc_block_sizes ==
  <<16, 24, 32, 40, 48, 56, 64, 72, 80, 88, 96, 104, 112, 120, 128, 144, 160,
    176, 192, 208, 224, 240, 256, 288, 320, 352, 384, 416, 448, 480, 512>>
BlockSize(idx) == js_malloc_block_sizes[idx + 1]
BlockSizeIdx == 0 .. 30
MaxSmall == 512

get_block_size_index(size) ==
  IF size <= 16 THEN 0
  ELSE IF size <= 128 THEN (size + 7) \div 8 - 2
  ELSE IF size <= 256 THEN (size + 15) \div 16 + 6
  ELSE IF size <= 512 THEN (size + 31) \div 32 + 14
  ELSE 31

\* A size rounded up to JS_MALLOC_ALIGN, with the header.
Total(size) == 8 * ((size + 7) \div 8) + BlockHeader

\* An arena has room for a block of every size that is asked for.
ASSUME ArenaAssumption ==
  /\ MaxPointers \in Nat
  /\ MaxAddresses \in Nat
  /\ Slacks \subseteq Nat
  /\ \A p \in Programs :
       /\ p.sizes \subseteq Nat
       /\ p.arena \in Nat
       /\ p.limit \in Nat
       /\ \A size \in p.sizes :
            Total(size) <= MaxSmall
              => ArenaHeader + BlockSize(get_block_size_index(Total(size))) <= p.arena

\* A pointer: NULL, the zero size block, a large block, or block number b of an
\* arena.  size is what the caller may use.
Pointer(kind, at, b, size) == [kind |-> kind, at |-> at, b |-> b, size |-> size]
NULL == Pointer("null", Nothing, 0, 0)

\* What the allocator works on, as one record.
Memory == [arenas |-> arenas, free |-> free_arenas, host |-> host,
           size |-> malloc_size, count |-> malloc_count, asked |-> asked]
Becomes(M) ==
  /\ arenas' = M.arenas
  /\ free_arenas' = M.free
  /\ host' = M.host
  /\ malloc_size' = M.size
  /\ malloc_count' = M.count
  /\ asked' = M.asked

Init ==
  /\ program \in Programs
  /\ arenas = [a \in Address |-> NoArena]
  /\ free_arenas = [i \in BlockSizeIdx |-> <<>>]
  /\ host = [a \in Address |-> Nothing]
  /\ malloc_size = 0
  /\ malloc_count = 0
  /\ pointers = [s \in Slot |-> NULL]
  /\ asked = [a \in Address |-> Nothing]
  /\ spoiled = FALSE

-----------------------------------------------------------------------------
(* The host's malloc, behind js_def_malloc *)

\* The host's malloc and realloc return NULL, or a block with some slack.
Refused == -1
Answer == Slacks \cup {Refused}
Unused(M) == {a \in Address : M.host[a] = Nothing}
Fresh(M) == Min(Unused(M))

\* A mutant of Granted: the size of the new block is not counted.
GrantedAsIs(M, size, answer) == answer # Refused /\ M.size <= program.limit

\* Is a block of this size to be had?
Granted(M, size, answer) == answer # Refused /\ M.size + size <= program.limit

js_def_malloc(M, size, answer) ==
  LET a == Fresh(M)
  IN  [M EXCEPT !.host[a] = size + answer, !.asked[a] = size,
                !.size = @ + size + answer + Overhead, !.count = @ + 1]

js_def_free(M, a) ==
  [M EXCEPT !.host[a] = Nothing, !.asked[a] = Nothing,
            !.size = @ - (M.host[a] + Overhead), !.count = @ - 1]

\* Can block a be resized?
Regranted(M, a, size, answer) ==
  answer # Refused /\ M.size + size - M.host[a] <= program.limit

js_def_realloc(M, a, size, answer) ==
  [M EXCEPT !.host[a] = size + answer, !.asked[a] = size,
            !.size = @ + (size + answer) - M.host[a]]

-----------------------------------------------------------------------------
(* __js_malloc, __js_free and __js_realloc *)

\* js_malloc_new_arena: the blocks are chained in order.
NumBlocks(idx) == (program.arena - ArenaHeader) \div BlockSize(idx)
NewArena(M, idx, answer) ==
  LET n == NumBlocks(idx)
      ar == [idx |-> idx, n_blocks |-> n, n_used |-> 0, first |-> 0,
             u |-> [b \in 0 .. n - 1 |-> IF b = n - 1 THEN FREE_NIL ELSE b + 1]]
      a == Fresh(M)
      N == js_def_malloc(M, ArenaHeader + n * BlockSize(idx), answer)
  IN  [N EXCEPT !.arenas[a] = ar, !.free[idx] = <<a>> \o @]

list_del(s, x) ==
  LET k == CHOOSE i \in 1 .. Len(s) : s[i] = x
  IN  SubSeq(s, 1, k - 1) \o SubSeq(s, k + 1, Len(s))

\* A block is taken off the chain of arena a.  Its header says which block it
\* is, in the field that had linked it to the next (u).
TakeBlock(M, a) ==
  LET ar == M.arenas[a]
      b == ar.first
  IN  [M EXCEPT !.arenas[a] = [ar EXCEPT !.first = ar.u[b], !.u[b] = b,
                                         !.n_used = @ + 1],
                !.free[ar.idx] = IF ar.n_used + 1 = ar.n_blocks
                                 THEN list_del(@, a) ELSE @]

\* __js_malloc: what is left, and the pointer.
Malloc(M, size, answer) ==
  LET idx == get_block_size_index(Total(size))
      large == size + BlockHeader
      bytes == ArenaHeader + NumBlocks(idx) * BlockSize(idx)
      N == IF M.free[idx] = <<>> THEN NewArena(M, idx, answer) ELSE M
      a == N.free[idx][1]
  IN  IF size = 0
      THEN [m |-> M, p |-> Pointer("zero", Nothing, 0, 0)]
      ELSE IF Total(size) > MaxSmall
      THEN IF Granted(M, large, answer)
           THEN [m |-> js_def_malloc(M, large, answer),
                 p |-> Pointer("large", Fresh(M), 0, size)]
           ELSE [m |-> M, p |-> NULL]
      ELSE IF M.free[idx] # <<>> \/ Granted(M, bytes, answer)
      THEN [m |-> TakeBlock(N, a),
            p |-> Pointer("block", a, N.arenas[a].first, size)]
      ELSE [m |-> M, p |-> NULL]

\* A mutant of FreeBlock: an arena that was full does not become available.
FreeBlockUnlisted(M, a, b) ==
  LET ar == M.arenas[a]
      i == ar.u[b]
      N == [M EXCEPT !.arenas[a] = [ar EXCEPT !.u[i] = ar.first, !.first = i,
                                              !.n_used = @ - 1]]
  IN  IF ar.n_used = 1
      THEN js_def_free([N EXCEPT !.arenas[a] = NoArena,
                                 !.free[ar.idx] = list_del(@, a)], a)
      ELSE N

\* Block b of arena a goes back to its chain; an empty arena goes back to the
\* host.
FreeBlock(M, a, b) ==
  LET ar == M.arenas[a]
      i == ar.u[b]
      N == [M EXCEPT !.arenas[a] = [ar EXCEPT !.u[i] = ar.first, !.first = i,
                                              !.n_used = @ - 1],
                     !.free[ar.idx] = IF ar.n_used = ar.n_blocks
                                      THEN <<a>> \o @ ELSE @]
  IN  IF ar.n_used = 1
      THEN js_def_free([N EXCEPT !.arenas[a] = NoArena,
                                 !.free[ar.idx] = list_del(@, a)], a)
      ELSE N

\* __js_free.
Free(M, p) ==
  IF p.kind = "block" THEN FreeBlock(M, p.at, p.b)
  ELSE IF p.kind = "large" THEN js_def_free(M, p.at)
  ELSE M

\* __js_malloc_usable_size.
UsableSize(M, p) ==
  IF p.kind = "block" THEN BlockSize(M.arenas[p.at].idx) - BlockHeader
  ELSE IF p.kind = "large" THEN M.host[p.at] - BlockHeader
  ELSE 0

\* The bytes that __js_realloc copies.
Copied(p, size) ==
  LET old_size == BlockSize(arenas[p.at].idx) - BlockHeader
  IN  IF size > old_size THEN old_size ELSE size

\* __js_realloc of a pointer that is not NULL to a size that is not zero.
Realloc(M, p, size, answer) ==
  IF p.kind = "large"
  THEN IF Regranted(M, p.at, size + BlockHeader, answer)
       THEN [m |-> js_def_realloc(M, p.at, size + BlockHeader, answer),
             p |-> [p EXCEPT !.size = size]]
       ELSE [m |-> M, p |-> NULL]
  ELSE IF p.kind = "zero"
  THEN Malloc(M, size, answer)
  ELSE IF Total(size) <= BlockSize(M.arenas[p.at].idx)
  THEN [m |-> M, p |-> [p EXCEPT !.size = size]]
  ELSE LET new == Malloc(M, size, answer)
       IN  [m |-> IF new.p = NULL THEN M ELSE Free(new.m, p), p |-> new.p]

-----------------------------------------------------------------------------
(* What the engine does *)

Lesser(m, n) == IF m < n THEN m ELSE n
Room == Cardinality(Unused(Memory)) > 0

\* js_malloc_rt; NULL leaves everything as it was.
Allocate(s, size, answer) ==
  LET new == Malloc(Memory, size, answer)
  IN  /\ Room
      /\ pointers[s] = NULL
      /\ \A r \in 1 .. s - 1 : pointers[r] # NULL
      /\ Becomes(new.m)
      /\ pointers' = [pointers EXCEPT ![s] = new.p]
      /\ UNCHANGED <<program, spoiled>>

\* js_free_rt, and js_realloc_rt to zero.
Release(s) ==
  /\ pointers[s] # NULL
  /\ Becomes(Free(Memory, pointers[s]))
  /\ pointers' = [pointers EXCEPT ![s] = NULL]
  /\ UNCHANGED <<program, spoiled>>

\* js_realloc_rt; when it returns NULL the old pointer is still good.
Resize(s, size, answer) ==
  LET p == pointers[s]
      new == Realloc(Memory, p, size, answer)
      moves == p.kind = "block" /\ Total(size) > UsableSize(Memory, p) + BlockHeader
      n == Copied(p, size)
  IN  /\ Room
      /\ p # NULL
      /\ size # 0
      /\ Becomes(new.m)
      /\ pointers' = [pointers EXCEPT ![s] = IF new.p = NULL THEN p ELSE new.p]
      /\ spoiled' = (spoiled \/ /\ moves
                                /\ new.p # NULL
                                /\ \/ n < Lesser(p.size, size)
                                   \/ n > UsableSize(Memory, p)
                                   \/ n > UsableSize(new.m, new.p))
      /\ UNCHANGED program

\* js_realloc2: the caller uses what js_malloc_usable_size says.
UseSlack(s) ==
  /\ pointers[s] # NULL
  /\ pointers' = [pointers EXCEPT ![s].size = UsableSize(Memory, pointers[s])]
  /\ UNCHANGED <<program, arenas, free_arenas, host, malloc_size, malloc_count,
                 asked, spoiled>>

Next ==
  \E s \in Slot :
    \/ \E size \in program.sizes, answer \in Answer :
         Allocate(s, size, answer) \/ Resize(s, size, answer)
    \/ Release(s)
    \/ UseSlack(s)

Spec == Init /\ [][Next]_vars

-----------------------------------------------------------------------------
(* Properties *)

Taken == {s \in Slot : pointers[s].kind \in {"block", "large"}}
BlocksOf(a) ==
  {pointers[s].b : s \in {s \in Taken : pointers[s].kind = "block" /\ pointers[s].at = a}}
ArenasNow == {a \in Address : arenas[a] # NoArena}

\* Entry i of a chain of k blocks, or the end of the chain.
Link(c, k, i) == IF i > k THEN FREE_NIL ELSE c[i]

\* The k blocks that are free are on the chain that starts at first, each of
\* them once.
Chained(first, u, k, free) ==
  \E c \in [1 .. k -> free] :
    /\ first = Link(c, k, 1)
    /\ \A i \in 1 .. k : u[c[i]] = Link(c, k, i + 1)
    /\ \A i, j \in 1 .. k : c[i] = c[j] => i = j
    /\ \A b \in free : \E i \in 1 .. k : c[i] = b

\* Memory that is given out is given out once: two pointers never share a block,
\* a pointer has the bytes that its owner may use, the free blocks of an arena
\* are exactly those on its chain, and an arena is offered for allocation
\* exactly while it has one.  Resizing keeps the bytes and stays inside.
BlocksOwned ==
  /\ \A s, r \in Taken :
       s # r => \/ pointers[s].at # pointers[r].at
                \/ pointers[s].b # pointers[r].b
  /\ \A s \in Taken : host[pointers[s].at] # Nothing
                      /\ pointers[s].size <= UsableSize(Memory, pointers[s])
  /\ \A a \in ArenasNow :
       LET ar == arenas[a]
           list == free_arenas[ar.idx]
       IN  /\ Chained(ar.first, ar.u, ar.n_blocks - ar.n_used,
                      (0 .. ar.n_blocks - 1) \ BlocksOf(a))
           /\ ar.n_used = Cardinality(BlocksOf(a))
           /\ Cardinality({k \in 1 .. Len(list) : list[k] = a})
                = IF ar.n_used < ar.n_blocks THEN 1 ELSE 0
  /\ \A i \in BlockSizeIdx :
       \A k \in 1 .. Len(free_arenas[i]) : free_arenas[i][k] \in ArenasNow
  /\ ~spoiled

\* The sum of f over all addresses; a block that is not there counts nothing.
SumOver(f) ==
  LET sum[n \in 0 .. MaxAddresses] == IF n = 0 THEN 0 ELSE sum[n - 1] + f[n]
  IN  sum[MaxAddresses]

\* The bytes asked of the host never pass the limit of JS_SetMemoryLimit; what
\* the engine counts is what the host has given, all of it is an arena that is
\* in use or a large block that somebody holds, so all of it comes back.
MemoryAccounted ==
  LET given == {a \in Address : host[a] # Nothing}
  IN  /\ malloc_size = SumOver(host) + Overhead * Cardinality(given)
      /\ malloc_count = Cardinality(given)
      /\ SumOver(asked) <= program.limit
      /\ given = {pointers[s].at : s \in Taken}
=============================================================================
