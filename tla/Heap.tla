-------------------------------- MODULE Heap --------------------------------
(***************************************************************************)
(* Reference counting and cycle collection in the engine                   *)
(* (qjs/lib/_qjs_quickjs.c): objects that refer to one another through     *)
(* their properties, weak maps that refer to their keys weakly, and the    *)
(* collector that frees the cycles which reference counting leaves behind. *)
(*                                                                         *)
(* The program holds some objects on its stack, creates objects, stores    *)
(* them into one another and into weak maps, and lets them go, in any      *)
(* order; the collector may start before any allocation (js_trigger_gc).   *)
(* It runs object by object, in the order of the engine's lists, because   *)
(* it changes the lists that it walks.                                     *)
(***************************************************************************)
EXTENDS Integers, Sequences, FiniteSets, SequencesExt

CONSTANTS Objects,  \* bound: the places for objects
          Sizes,    \* bound: properties of an object, and weak maps at one time
          Nil       \* no object

VARIABLES size,    \* the member of Sizes for this program
          mem,     \* "free", "live", or "zombie": the fields are gone and only
                   \*   the structure is kept (free_mark)
          prop,    \* the properties of each object
          weak,    \* is the object a WeakMap
          entry,   \* its record, as <<key, value>>, or <<>>
          rc,      \* js_rc(p)->ref_count
          mark,    \* js_rc(p)->mark
          weakrc,  \* p->weakref_count
          root,    \* the objects that the program holds on its stack
          gc_list, tmp_list, zero_list,
                   \* rt->gc_obj_list, tmp_obj_list, gc_zero_ref_count_list
          op,      \* the C function that is running, or "idle"
          then,    \* what follows when free_zero_refcount returns
          cursor,  \* the element that a walk over a list has reached
          maps,    \* the weak maps left to visit
          aborted  \* an assertion of the code has failed

heapVars == <<mem, prop, weak, entry, rc, mark, weakrc, gc_list, tmp_list, zero_list>>
vars == <<size, heapVars, root, op, then, cursor, maps, aborted>>

\* What the operations on the heap work on, as one record.  The header of a
\* structure that was given back to the allocator is cleared.
Heap == [mem |-> mem, rc |-> rc, mark |-> mark, weakrc |-> weakrc, entry |-> entry,
         gc |-> gc_list, tmp |-> tmp_list, zero |-> zero_list, failed |-> aborted]
Becomes(H) ==
  /\ mem' = H.mem
  /\ rc' = [o \in Objects |-> IF H.mem[o] = "free" THEN 0 ELSE H.rc[o]]
  /\ mark' = [o \in Objects |-> IF H.mem[o] = "free" THEN 0 ELSE H.mark[o]]
  /\ weakrc' = H.weakrc
  /\ entry' = H.entry
  /\ gc_list' = H.gc
  /\ tmp_list' = H.tmp
  /\ zero_list' = H.zero
  /\ aborted' = H.failed

\* assert(): the process ends when the condition does not hold.
Asserts(H, P) == [H EXCEPT !.failed = @ \/ ~P]

Without(s, o) == SelectSeq(s, LAMBDA x : x # o)
Unlinked(H, o) == [H EXCEPT !.gc = Without(@, o), !.tmp = Without(@, o),
                            !.zero = Without(@, o)]

Held(s) == SelectSeq(s, LAMBDA x : x # Nil)

\* What an object refers to: its properties, and for a weak map the value of its
\* record.
Values(r) == IF r = <<>> THEN <<>> ELSE <<r[2]>>
Children(o) == Held(prop[o]) \o Values(entry[o])

\* A mutant of MarkChildren: js_map_mark passes over the values of a weak map.
MarkProperties(o) == Held(prop[o])

\* mark_children, with js_map_mark.
MarkChildren(o) == Held(prop[o]) \o Values(entry[o])

NoProps == [s \in 1 .. size.slots |-> Nil]

Init ==
  /\ size \in Sizes
  /\ mem = [o \in Objects |-> "free"]
  /\ prop = [o \in Objects |-> NoProps]
  /\ weak = [o \in Objects |-> FALSE]
  /\ entry = [o \in Objects |-> <<>>]
  /\ rc = [o \in Objects |-> 0]
  /\ mark = [o \in Objects |-> 0]
  /\ weakrc = [o \in Objects |-> 0]
  /\ root = {}
  /\ gc_list = <<>>
  /\ tmp_list = <<>>
  /\ zero_list = <<>>
  /\ op = "idle"
  /\ then = "idle"
  /\ cursor = Nil
  /\ maps = <<>>
  /\ aborted = FALSE

-----------------------------------------------------------------------------
(* Freeing *)

\* JS_DupValue.
Dup(H, o) == [H EXCEPT !.rc[o] = @ + 1]

\* JS_FreeValueRT and __JS_FreeValueRT, while objects are only queued: an object
\* whose count reaches zero is put in front of gc_zero_ref_count_list.
Release(H, o) ==
  LET G == [H EXCEPT !.rc[o] = @ - 1]
  IN  IF G.rc[o] > 0
      THEN G
      ELSE [Unlinked(G, o) EXCEPT !.zero = <<o>> \o @, !.mark[o] = 1]

\* In phase JS_GC_PHASE_REMOVE_CYCLES only the count changes.
ReleaseInCycle(H, o) == [H EXCEPT !.rc[o] = @ - 1]

\* js_weakref_free.
ReleaseWeak(H, o) ==
  LET G == [Asserts(H, H.weakrc[o] >= 1) EXCEPT !.weakrc[o] = @ - 1]
  IN  IF G.weakrc[o] = 0 /\ G.rc[o] = 0 /\ G.mark[o] = 0
      THEN [G EXCEPT !.mem[o] = "free"]
      ELSE G
ReleaseKey(H, o) == IF H.entry[o] = <<>> THEN H ELSE ReleaseWeak(H, H.entry[o][1])

\* free_object: the properties, then the finalizer of a weak map
\* (js_map_finalizer), then the structure.
FreeObject(H, o) ==
  LET P == ReleaseKey(FoldLeft(Release, H, Held(prop[o])), o)
      G == Unlinked(FoldLeft(Release, P, Values(entry[o])), o)
      F == [G EXCEPT !.entry[o] = <<>>]
  IN  IF F.weakrc[o] = 0
      THEN [F EXCEPT !.mem[o] = "free"]
      ELSE [F EXCEPT !.mem[o] = "zombie", !.mark[o] = 0]

\* The same in phase JS_GC_PHASE_REMOVE_CYCLES.
FreeInCycle(H, o) ==
  LET P == ReleaseKey(FoldLeft(ReleaseInCycle, H, Held(prop[o])), o)
      G == Unlinked(FoldLeft(ReleaseInCycle, P, Values(entry[o])), o)
      F == [G EXCEPT !.entry[o] = <<>>]
  IN  IF F.rc[o] = 0 /\ F.weakrc[o] = 0
      THEN [F EXCEPT !.mem[o] = "free"]
      ELSE [F EXCEPT !.mem[o] = "zombie", !.zero = Append(@, o)]

\* free_zero_refcount: one turn of its loop, and its return.
FreeZero ==
  LET o == zero_list[1]
  IN  /\ op = "free_zero"
      /\ zero_list # <<>>
      /\ Becomes(FreeObject(Asserts(Heap, rc[o] = 0), o))
      /\ prop' = [prop EXCEPT ![o] = NoProps]
      /\ weak' = [weak EXCEPT ![o] = FALSE]
      /\ UNCHANGED <<size, root, op, then, cursor, maps>>
FreeZeroReturn ==
  /\ op = "free_zero"
  /\ zero_list = <<>>
  /\ op' = then
  /\ cursor' = IF then = "decref" /\ gc_list # <<>> THEN gc_list[1] ELSE Nil
  /\ UNCHANGED <<size, heapVars, root, then, maps, aborted>>

\* A value is released by the program: free_zero_refcount runs if it was the
\* last reference.
AfterRelease(H) ==
  /\ Becomes(H)
  /\ op' = IF H.zero = <<>> THEN "idle" ELSE "free_zero"
  /\ then' = "idle"

-----------------------------------------------------------------------------
(* The program *)

\* JS_NewObject, and the constructor of a WeakMap; add_gc_object.
New(o, isWeak) ==
  /\ op = "idle"
  /\ mem[o] = "free"
  /\ isWeak => Cardinality({x \in Objects : mem[x] = "live" /\ weak[x]}) < size.maps
  /\ Becomes([Heap EXCEPT !.mem[o] = "live", !.rc[o] = 1, !.mark[o] = 0,
                          !.gc = Append(@, o)])
  /\ weak' = [weak EXCEPT ![o] = isWeak]
  /\ root' = root \cup {o}
  /\ UNCHANGED <<size, prop, op, then, cursor, maps>>

\* A property is read: the program holds its value.
Load(o, s) ==
  /\ op = "idle"
  /\ o \in root
  /\ prop[o][s] \notin root \cup {Nil}
  /\ root' = root \cup {prop[o][s]}
  /\ Becomes(Dup(Heap, prop[o][s]))
  /\ UNCHANGED <<size, prop, weak, op, then, cursor, maps>>

\* The program lets go of an object.
Drop(o) ==
  /\ op = "idle"
  /\ o \in root
  /\ root' = root \ {o}
  /\ AfterRelease(Release(Heap, o))
  /\ UNCHANGED <<size, prop, weak, cursor, maps>>

\* set_value: the new value is stored before the old one is released.
Store(o, s, v) ==
  LET old == prop[o][s]
      H == IF v = Nil THEN Heap ELSE Dup(Heap, v)
  IN  /\ op = "idle"
      /\ o \in root
      /\ v \in root \cup {Nil}
      /\ v # old
      /\ prop' = [prop EXCEPT ![o][s] = v]
      /\ AfterRelease(IF old = Nil THEN H ELSE Release(H, old))
      /\ UNCHANGED <<size, weak, root, cursor, maps>>

\* js_map_set with a new key: map_add_record, js_weakref_new.
WeakSet(o, k, v) ==
  /\ op = "idle"
  /\ {o, k, v} \subseteq root
  /\ weak[o]
  /\ entry[o] = <<>>
  /\ Becomes([Dup(Heap, v) EXCEPT !.weakrc[k] = @ + 1, !.entry[o] = <<k, v>>])
  /\ UNCHANGED <<size, prop, weak, root, op, then, cursor, maps>>

\* js_map_set with a key that has a record: the old value is released first.
WeakReplace(o, v) ==
  /\ op = "idle"
  /\ {o, v} \subseteq root
  /\ entry[o] # <<>>
  /\ entry[o][1] \in root
  /\ entry[o][2] # v
  /\ AfterRelease([Dup(Release(Heap, entry[o][2]), v) EXCEPT !.entry[o][2] = v])
  /\ UNCHANGED <<size, prop, weak, root, cursor, maps>>

\* js_map_get.
WeakGet(o) ==
  /\ op = "idle"
  /\ o \in root
  /\ entry[o] # <<>>
  /\ entry[o][1] \in root
  /\ entry[o][2] \notin root
  /\ root' = root \cup {entry[o][2]}
  /\ Becomes(Dup(Heap, entry[o][2]))
  /\ UNCHANGED <<size, prop, weak, op, then, cursor, maps>>

\* map_delete_record_internal.
DeleteRecord(H, o) ==
  [Release(ReleaseKey(H, o), H.entry[o][2]) EXCEPT !.entry[o] = <<>>]

\* WeakMap.delete: map_delete_record.
WeakDelete(o) ==
  /\ op = "idle"
  /\ o \in root
  /\ entry[o] # <<>>
  /\ entry[o][1] \in root
  /\ AfterRelease(DeleteRecord(Heap, o))
  /\ UNCHANGED <<size, prop, weak, root, cursor, maps>>

-----------------------------------------------------------------------------
(* The collector *)

\* JS_RunGC: gc_remove_weak_objects walks over rt->weakref_list.
RunGC ==
  /\ op = "idle"
  /\ op' = "weak"
  /\ maps' = SelectSeq(gc_list, LAMBDA o : weak[o])
  /\ UNCHANGED <<size, heapVars, root, then, cursor, aborted>>

\* map_delete_weakrefs: records whose key has died are deleted.
RemoveWeak ==
  LET o == maps[1]
  IN  /\ op = "weak"
      /\ maps # <<>>
      /\ Becomes(IF entry[o] # <<>> /\ rc[entry[o][1]] = 0
                 THEN DeleteRecord(Heap, o) ELSE Heap)
      /\ maps' = Tail(maps)
      /\ UNCHANGED <<size, prop, weak, root, op, then, cursor>>
RemoveWeakReturn ==
  /\ op = "weak"
  /\ maps = <<>>
  /\ op' = "free_zero"
  /\ then' = "decref"
  /\ UNCHANGED <<size, heapVars, root, cursor, maps, aborted>>

\* The element after o in a list; Nil at the end.
After(s, o) ==
  LET i == CHOOSE i \in 1 .. Len(s) : s[i] = o
  IN  IF i < Len(s) THEN s[i + 1] ELSE Nil
Has(s, o) == \E i \in 1 .. Len(s) : s[i] = o
First(s) == IF s = <<>> THEN Nil ELSE s[1]

\* A mutant of DecrefChild: the mark is not looked at.
DecrefAnyChild(H, o) ==
  LET G == [Asserts(H, H.rc[o] > 0) EXCEPT !.rc[o] = @ - 1]
  IN  IF G.rc[o] = 0
      THEN [Unlinked(G, o) EXCEPT !.tmp = Append(@, o)]
      ELSE G

\* gc_decref_child.
DecrefChild(H, o) ==
  LET G == [Asserts(H, H.rc[o] > 0) EXCEPT !.rc[o] = @ - 1]
  IN  IF G.rc[o] = 0 /\ G.mark[o] = 1
      THEN [Unlinked(G, o) EXCEPT !.tmp = Append(@, o)]
      ELSE G

\* One turn of the loop of gc_decref.  The next element is looked up before the
\* body runs (list_for_each_safe), so the body must not move it: the walk would
\* go on in tmp_obj_list, which the model counts as a failure.
Decref ==
  LET o == cursor
      next == After(gc_list, o)
      H == FoldLeft(DecrefChild, Asserts(Heap, mark[o] = 0), MarkChildren(o))
      G == [H EXCEPT !.mark[o] = 1]
  IN  /\ op = "decref"
      /\ o # Nil
      /\ Becomes(Asserts(IF G.rc[o] = 0
                         THEN [Unlinked(G, o) EXCEPT !.tmp = Append(@, o)] ELSE G,
                         next # Nil => Has(G.gc, next)))
      /\ cursor' = next
      /\ UNCHANGED <<size, prop, weak, root, op, then, maps>>
DecrefReturn ==
  /\ op = "decref"
  /\ cursor = Nil
  /\ op' = "scan"
  /\ cursor' = First(gc_list)
  /\ UNCHANGED <<size, heapVars, root, then, maps, aborted>>

\* gc_scan_incref_child: the object is kept after all.
IncrefChild(H, o) ==
  LET G == [H EXCEPT !.rc[o] = @ + 1]
  IN  IF G.rc[o] = 1
      THEN [Unlinked(G, o) EXCEPT !.gc = Append(@, o), !.mark[o] = 0]
      ELSE G

\* A mutant of Scan: the next element is looked up before the body, as in
\* gc_decref.
ScanSafe ==
  LET o == cursor
      H == Asserts([Heap EXCEPT !.mark[o] = 0], rc[o] > 0)
  IN  /\ op = "scan"
      /\ o # Nil
      /\ Becomes(FoldLeft(IncrefChild, H, MarkChildren(o)))
      /\ cursor' = After(gc_list, o)
      /\ UNCHANGED <<size, prop, weak, root, op, then, maps>>

\* The first loop of gc_scan.  The next element is looked up after the body, so
\* that the objects which the body puts at the end of the list are visited.
Scan ==
  LET o == cursor
      H == Asserts([Heap EXCEPT !.mark[o] = 0], rc[o] > 0)
      G == FoldLeft(IncrefChild, H, MarkChildren(o))
  IN  /\ op = "scan"
      /\ o # Nil
      /\ Becomes(G)
      /\ cursor' = After(G.gc, o)
      /\ UNCHANGED <<size, prop, weak, root, op, then, maps>>
ScanReturn ==
  /\ op = "scan"
  /\ cursor = Nil
  /\ op' = "restore"
  /\ cursor' = First(tmp_list)
  /\ UNCHANGED <<size, heapVars, root, then, maps, aborted>>

\* The second loop: the counts of the objects to be freed are restored.
Restore ==
  /\ op = "restore"
  /\ cursor # Nil
  /\ Becomes(FoldLeft(Dup, Heap, MarkChildren(cursor)))
  /\ cursor' = After(tmp_list, cursor)
  /\ UNCHANGED <<size, prop, weak, root, op, then, maps>>
RestoreReturn ==
  /\ op = "restore"
  /\ cursor = Nil
  /\ op' = "cycles"
  /\ UNCHANGED <<size, heapVars, root, then, cursor, maps, aborted>>

\* gc_free_cycles: the head of tmp_obj_list is freed until the list is empty.
FreeCycle ==
  LET o == tmp_list[1]
  IN  /\ op = "cycles"
      /\ tmp_list # <<>>
      /\ Becomes(FreeInCycle(Heap, o))
      /\ prop' = [prop EXCEPT ![o] = NoProps]
      /\ weak' = [weak EXCEPT ![o] = FALSE]
      /\ UNCHANGED <<size, root, op, then, cursor, maps>>

\* Its second loop: the structures that are not weakly referred to are freed.
FreeStructures ==
  LET kept == {o \in ToSet(zero_list) : weakrc[o] # 0}
  IN  /\ op = "cycles"
      /\ tmp_list = <<>>
      /\ mem' = [o \in Objects |-> IF Has(zero_list, o) /\ o \notin kept
                                   THEN "free" ELSE mem[o]]
      /\ mark' = [o \in Objects |-> IF Has(zero_list, o) THEN 0 ELSE mark[o]]
      /\ rc' = [o \in Objects |-> IF mem'[o] = "free" THEN 0 ELSE rc[o]]
      /\ zero_list' = <<>>
      /\ op' = "collected"
      /\ UNCHANGED <<size, prop, weak, entry, weakrc, gc_list, tmp_list, root, then,
                     cursor, maps, aborted>>
Collected ==
  /\ op = "collected"
  /\ op' = "idle"
  /\ UNCHANGED <<size, heapVars, root, then, cursor, maps, aborted>>

Next ==
  /\ ~aborted
  /\ \/ \E o \in Objects, isWeak \in BOOLEAN : New(o, isWeak)
     \/ \E o \in Objects, s \in 1 .. size.slots : Load(o, s)
     \/ \E o \in Objects : Drop(o) \/ WeakGet(o) \/ WeakDelete(o)
     \/ \E o \in Objects, s \in 1 .. size.slots, v \in Objects \cup {Nil} : Store(o, s, v)
     \/ \E o, k, v \in Objects : WeakSet(o, k, v)
     \/ \E o, v \in Objects : WeakReplace(o, v)
     \/ FreeZero \/ FreeZeroReturn
     \/ RunGC \/ RemoveWeak \/ RemoveWeakReturn
     \/ Decref \/ DecrefReturn \/ Scan \/ ScanReturn \/ Restore \/ RestoreReturn
     \/ FreeCycle \/ FreeStructures \/ Collected

Spec == Init /\ [][Next]_vars

-----------------------------------------------------------------------------
(* Properties *)

Live == {o \in Objects : mem[o] = "live"}

\* The objects that the program can reach: all that is in every set that has
\* its roots and the children of its members.
Reachable ==
  {o \in Objects : \A S \in SUBSET Objects :
     root \subseteq S /\ (\A x \in S : ToSet(Children(x)) \subseteq S) => o \in S}

\* Nothing that the program can reach is freed, and no structure is freed that
\* an object or a record of a weak map still points to.
NothingFreedEarly ==
  /\ Reachable \subseteq Live
  /\ \A o \in Live : \A c \in ToSet(Children(o)) : mem[c] # "free"
  /\ \A o \in Live : entry[o] # <<>> => mem[entry[o][1]] # "free"

\* Between two calls every count is the number of references there are, the
\* marks are reset, and the lists hold exactly the live objects.  A structure
\* is kept if and only if a record refers to it.
References(o) ==
  Cardinality({<<x, i>> \in Live \X (1 .. size.slots + 1) :
                 i <= Len(Children(x)) /\ Children(x)[i] = o})
    + (IF o \in root THEN 1 ELSE 0)
WeakReferences(o) ==
  Cardinality({x \in Live : entry[x] # <<>> /\ entry[x][1] = o})
CountsExact ==
  /\ ~aborted
  /\ op = "idle" =>
       /\ \A o \in Live : rc[o] = References(o) /\ rc[o] > 0
       /\ \A o \in Objects : mem[o] # "free" =>
            mark[o] = 0 /\ weakrc[o] = WeakReferences(o)
       /\ \A o \in Objects : mem[o] = "zombie" => rc[o] = 0 /\ weakrc[o] > 0
       /\ ToSet(gc_list) = Live /\ Len(gc_list) = Cardinality(Live)
       /\ tmp_list = <<>> /\ zero_list = <<>>

\* When the collector returns, every object that is left can be reached.  So the
\* assertion of JS_FreeRuntime that no object is left holds when the program
\* holds none.
GarbageCollected == op = "collected" => Live \subseteq Reachable
=============================================================================
