----------------------------- MODULE HostQueue -----------------------------
(***************************************************************************)
(* The bounded ring of host requests inside one QuickJS runtime            *)
(* (qjs/lib/qjs_host_queue.c).  A host callback mallocs the argument       *)
(* buffer and pushes it; the drain takes requests and owns the buffers it  *)
(* was given; destroying the runtime frees what is still in the ring.      *)
(*                                                                         *)
(* The heap is part of the model, because the ring moves ownership of      *)
(* malloc'd buffers around: every buffer is a token that is allocated once *)
(* and freed at most once.                                                 *)
(***************************************************************************)
EXTENDS Integers, Sequences

CONSTANTS Cap,        \* MLQJS_QUEUE_CAP
          Payloads,   \* the buffers the callbacks can malloc, each once
          NoPayload   \* NULL

ASSUME CapAssumption == Cap \in Nat \ {0}
ASSUME PayloadAssumption == NoPayload \notin Payloads

VARIABLES slots,      \* q->slots
          head,       \* q->head, the next slot to drain
          tail,       \* q->tail, the next slot to fill
          count,      \* q->count
          next_id,    \* q->next_id
          alive,      \* the queue's runtime has not been destroyed
          heap,       \* the malloc state of every buffer
          held,       \* the buffers the drain owns
          ret         \* what the last operation returned

ringVars == <<slots, head, tail, count, next_id, alive>>
vars == <<slots, head, tail, count, next_id, alive, heap, held, ret>>

Index == 0 .. Cap - 1

Empty == [id |-> 0, payload |-> NoPayload]

\* mlqjs_host_queue_init
Init ==
  /\ slots = [i \in Index |-> Empty]
  /\ head = 0
  /\ tail = 0
  /\ count = 0
  /\ next_id = 1
  /\ alive = TRUE
  /\ heap = [p \in Payloads |-> "unused"]
  /\ held = {}
  /\ ret = Empty

\* A mutant of PushFull: the overload path reports the id it would have used.
PushFullNumbered(p) ==
  /\ count >= Cap
  /\ heap' = [heap EXCEPT ![p] = "freed"]
  /\ ret' = [id |-> next_id, payload |-> NoPayload]
  /\ UNCHANGED <<ringVars, held>>

\* The ring is full: push owns the buffer it was given, so it frees it.
PushFull(p) ==
  /\ count >= Cap
  /\ heap' = [heap EXCEPT ![p] = "freed"]
  /\ ret' = Empty
  /\ UNCHANGED <<ringVars, held>>

PushRoom(p) ==
  /\ count < Cap
  /\ slots' = [slots EXCEPT ![tail] = [id |-> next_id, payload |-> p]]
  /\ next_id' = next_id + 1
  /\ tail' = (tail + 1) % Cap
  /\ count' = count + 1
  /\ heap' = [heap EXCEPT ![p] = "allocated"]
  /\ ret' = [id |-> next_id, payload |-> NoPayload]
  /\ UNCHANGED <<head, alive, held>>

\* A callback mallocs p and calls mlqjs_host_queue_push.
Push(p) ==
  /\ alive = TRUE
  /\ heap[p] = "unused"
  /\ PushFull(p) \/ PushRoom(p)

TakeEmpty ==
  /\ alive = TRUE
  /\ count = 0
  /\ ret' = Empty
  /\ UNCHANGED <<ringVars, heap, held>>

\* A mutant of Take: the slot keeps the pointer it handed over.
TakeKeepsPointer ==
  /\ alive = TRUE
  /\ count > 0
  /\ ret' = slots[head]
  /\ held' = held \cup {slots[head].payload}
  /\ head' = (head + 1) % Cap
  /\ count' = count - 1
  /\ UNCHANGED <<slots, tail, next_id, alive, heap>>

\* mlqjs_host_queue_take hands the buffer over and forgets it.
Take ==
  /\ alive = TRUE
  /\ count > 0
  /\ ret' = slots[head]
  /\ held' = held \cup {slots[head].payload}
  /\ slots' = [slots EXCEPT ![head] = Empty]
  /\ head' = (head + 1) % Cap
  /\ count' = count - 1
  /\ UNCHANGED <<tail, next_id, alive, heap>>

\* mlqjs_take_requests copies a taken buffer into an OCaml string and frees it.
FreeTaken(p) ==
  /\ p \in held
  /\ heap' = [heap EXCEPT ![p] = "freed"]
  /\ held' = held \ {p}
  /\ UNCHANGED <<ringVars, ret>>

\* The buffers free() releases when it is called on every slot.
Stored == {slots[i].payload : i \in Index} \ {NoPayload}

Destroy ==
  /\ alive = TRUE
  /\ heap' = [p \in Payloads |-> IF p \in Stored THEN "freed" ELSE heap[p]]
  /\ slots' = [i \in Index |-> Empty]
  /\ head' = 0
  /\ tail' = 0
  /\ count' = 0
  /\ next_id' = 0
  /\ alive' = FALSE
  /\ ret' = Empty
  /\ UNCHANGED held

Next ==
  \/ \E p \in Payloads : Push(p) \/ FreeTaken(p)
  \/ TakeEmpty
  \/ Take
  \/ Destroy

Spec == Init /\ [][Next]_vars

-----------------------------------------------------------------------------
(* Properties *)

Request == [id : Nat, payload : Payloads \cup {NoPayload}]

\* The shape of the ring: the indices stay inside the array however often
\* they wrap, and count never passes MLQJS_QUEUE_CAP.
TypeOK ==
  /\ slots \in [Index -> Request]
  /\ head \in Index
  /\ tail \in Index
  /\ count \in 0 .. Cap
  /\ next_id \in Nat
  /\ alive \in BOOLEAN
  /\ heap \in [Payloads -> {"unused", "allocated", "freed"}]
  /\ held \subseteq Payloads
  /\ ret \in Request

\* Every malloc'd buffer has exactly one owner: one slot of the ring, or the
\* drain.  A buffer that was freed is referenced from nowhere, so neither
\* the drain's free nor mlqjs_host_queue_destroy frees it twice, and a buffer
\* that is still allocated can be reached by someone who will free it.
OneOwner ==
  /\ \A i, j \in Index :
       slots[i].payload = slots[j].payload => i = j \/ slots[i].payload = NoPayload
  /\ \A p \in Payloads : heap[p] = "allocated" <=> p \in held \cup Stored
  /\ held \cap Stored = {}

\* The requests in the order the drain will see them.
Queue == [k \in 1 .. count |-> slots[(head + k - 1) % Cap]]

\* The ring implements the bounded FIFO: requests come out once each, in the
\* order they went in, with consecutive ids; a push is refused with id 0
\* exactly when Cap requests are outstanding (qjs_host_queue.h:35-43).
Fifo == INSTANCE BoundedFifo
          WITH queue <- Queue,
               issued <- IF alive THEN next_id - 1 ELSE 0,
               open <- alive

FifoSpec == Fifo!Spec
=============================================================================
