---------------------------- MODULE HandleTable ----------------------------
(***************************************************************************)
(* The table of QuickJS runtimes behind the integer handles that OCaml     *)
(* holds (qjs/lib/qjs_stubs.c).  A handle packs a slot index and that      *)
(* slot's generation into one C int; every primitive looks its handle up   *)
(* with table_get, which compares generations to refuse a handle whose     *)
(* runtime is gone.                                                        *)
(*                                                                         *)
(* Runtimes are numbered in the order mlqjs_create is called.  The C       *)
(* program never forgets the numbers OCaml was given, so handle keeps them *)
(* all: OCaml may use any of them at any time.                             *)
(***************************************************************************)
EXTENDS Integers

CONSTANTS TableCap,    \* MLQJS_TABLE_CAP
          HalfGen,     \* half of the generations a handle has room for (2^15)
          MaxCreates   \* bound: how often mlqjs_create is called

GenMod == 2 * HalfGen      \* 1 << MLQJS_GEN_SHIFT
IntMod == GenMod * GenMod  \* an int holds a generation and an index (2^32)

ASSUME TableAssumption ==
  /\ HalfGen \in Nat \ {0, 1}
  /\ TableCap \in 1 .. GenMod
  /\ MaxCreates \in Nat

TableIndex == 0 .. TableCap - 1
Runtime == 1 .. MaxCreates
NULL == 0

VARIABLES g_table,        \* the runtime in each slot
          g_generation,   \* the slot's generation counter
          gen,            \* q->gen of each runtime
          handle,         \* what mlqjs_create returned; 0 is "handle table full"
          creates         \* how many calls of mlqjs_create there were

tableVars == <<g_table, g_generation, gen, handle, creates>>

TableInit ==
  /\ g_table = [i \in TableIndex |-> NULL]
  /\ g_generation = [i \in TableIndex |-> 0]
  /\ gen = [q \in Runtime |-> 0]
  /\ handle = [q \in Runtime |-> 0]
  /\ creates = 0

-----------------------------------------------------------------------------
(* Handles as C ints *)

\* The int a two's complement machine stores for the unsigned value x.
Signed(x) == IF x < HalfGen * GenMod THEN x ELSE x - IntMod

\* (g + 1) & 0xffff, skipping 0
Bump(g) == IF (g + 1) % GenMod = 0 THEN 1 ELSE (g + 1) % GenMod

\* (g << MLQJS_GEN_SHIFT) | i
Pack(g, i) == Signed(g * GenMod + i)

\* h & MLQJS_INDEX_MASK
IndexOf(h) == h % GenMod

\* A mutant of GenOf: a logical shift, which drops the sign.
GenOfLogical(h) == (h % IntMod) \div GenMod

\* h >> MLQJS_GEN_SHIFT, an arithmetic shift: it keeps the sign
GenOf(h) == h \div GenMod

\* A mutant of table_get: only the index of the handle is looked at.
table_get_any(h) ==
  LET i == IndexOf(h) IN
  IF i \in TableIndex THEN g_table[i] ELSE NULL

table_get(h) ==
  LET i == IndexOf(h) IN
  IF i \in TableIndex /\ g_table[i] # NULL /\ gen[g_table[i]] = GenOf(h)
  THEN g_table[i]
  ELSE NULL

-----------------------------------------------------------------------------
(* Operations *)

\* A mutant of CreateAt: the runtime is not told its generation.
CreateAtUntagged(i) ==
  LET q == creates + 1
      g == Bump(g_generation[i])
  IN  /\ g_table[i] = NULL
      /\ \A j \in TableIndex : j < i => g_table[j] # NULL
      /\ g_table' = [g_table EXCEPT ![i] = q]
      /\ g_generation' = [g_generation EXCEPT ![i] = g]
      /\ handle' = [handle EXCEPT ![q] = Pack(g, i)]
      /\ UNCHANGED gen

\* table_alloc fills the first free slot.
CreateAt(i) ==
  LET q == creates + 1
      g == Bump(g_generation[i])
  IN  /\ g_table[i] = NULL
      /\ \A j \in TableIndex : j < i => g_table[j] # NULL
      /\ g_table' = [g_table EXCEPT ![i] = q]
      /\ g_generation' = [g_generation EXCEPT ![i] = g]
      /\ gen' = [gen EXCEPT ![q] = g]
      /\ handle' = [handle EXCEPT ![q] = Pack(g, i)]

\* mlqjs_create frees the runtime again and fails.
CreateFull ==
  /\ \A i \in TableIndex : g_table[i] # NULL
  /\ UNCHANGED <<g_table, g_generation, gen, handle>>

Create ==
  /\ creates < MaxCreates
  /\ creates' = creates + 1
  /\ (\E i \in TableIndex : CreateAt(i)) \/ CreateFull

\* mlqjs_destroy(handle[q]): nothing happens when table_get refuses.
DestroyRuntime(q) ==
  /\ q <= creates
  /\ g_table' = IF table_get(handle[q]) = NULL
                THEN g_table
                ELSE [g_table EXCEPT ![IndexOf(handle[q])] = NULL]
  /\ UNCHANGED <<g_generation, gen, handle, creates>>

TableNext == Create \/ \E q \in Runtime : DestroyRuntime(q)

TableSpec == TableInit /\ [][TableNext]_tableVars

-----------------------------------------------------------------------------
(* Properties *)

\* Generations fit in the field of a handle that is meant for them, and a handle
\* is a value of a C int.
TableTypeOK ==
  /\ g_table \in [TableIndex -> 0 .. creates]
  /\ g_generation \in [TableIndex -> 0 .. GenMod - 1]
  /\ gen \in [Runtime -> 0 .. GenMod - 1]
  /\ handle \in [Runtime -> -(HalfGen * GenMod) .. HalfGen * GenMod - 1]
  /\ creates \in 0 .. MaxCreates

\* However long OCaml keeps a handle, and whatever was created and destroyed
\* in its slot since, looking it up finds the runtime it was issued for or
\* nothing ("Generation counters reject stale use-after-free from OCaml",
\* qjs_stubs.c:8-10).
OnlyItsOwn == \A q \in 1 .. creates : table_get(handle[q]) \in {q, NULL}

\* As long as a slot's generation has not reached the sign bit of the int,
\* the runtime in it can be reached, and so destroyed, with its handle.
ReachableBelowSignBit ==
  \A i \in TableIndex :
    g_table[i] # NULL /\ g_generation[i] < HalfGen =>
      table_get(handle[g_table[i]]) = g_table[i]

\* The generation counter never passes the sign bit: the runtime that gets
\* generation HalfGen is refused by table_get (h >> 16 is negative, q->gen is
\* not), so mlqjs_destroy never empties its slot again and table_alloc never
\* comes back to it.  This is why no stale handle can ever match a generation
\* that wrapped around.
NeverWraps ==
  \A i \in TableIndex :
    /\ g_generation[i] <= HalfGen
    /\ g_generation[i] = HalfGen => g_table[i] # NULL

\* What OCaml relies on after every mlqjs_create: a runtime that is in the
\* table is found with the handle it was given.
EveryRuntimeReachable ==
  \A i \in TableIndex : g_table[i] # NULL => table_get(handle[g_table[i]]) = g_table[i]
=============================================================================
