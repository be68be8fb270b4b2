--------------------------- MODULE Bridge_proofs ---------------------------
(***************************************************************************)
(* The two tables between OCaml and C.                                     *)
(*                                                                         *)
(* HostQueue: the ring is correct for every capacity and every set of      *)
(* buffers: its indices stay in range, every buffer has one owner, and it  *)
(* implements the bounded FIFO.                                            *)
(*                                                                         *)
(* HandleTable: a handle never reaches a runtime other than its own, for   *)
(* every table size, every width of the generation and any number of       *)
(* creates.                                                                *)
(***************************************************************************)
EXTENDS HostQueue, HandleTable, SequenceTheorems, TLAPS

-----------------------------------------------------------------------------
(* HostQueue *)

\* The slots that hold a request: count of them, from head on, wrapping.
Occupied(i) == IF head + count <= Cap
               THEN head <= i /\ i < head + count
               ELSE head <= i \/ i < head + count - Cap

\* What OneOwner and the refinement need besides the types: the three
\* indices agree, and exactly the occupied slots hold a buffer.
RingInv ==
  /\ tail = IF head + count < Cap THEN head + count ELSE head + count - Cap
  /\ \A i \in Index : slots[i].payload # NoPayload <=> Occupied(i)
  /\ alive => next_id # 0
  /\ ~alive => count = 0

IInv == TypeOK /\ RingInv /\ OneOwner

-----------------------------------------------------------------------------
(* Index arithmetic *)

\* Adding to an index modulo the capacity, as far as one turn of the ring.
LEMMA WrapOnce ==
  ASSUME NEW a \in Index, NEW b \in 0 .. Cap
  PROVE  (a + b) % Cap = IF a + b < Cap THEN a + b ELSE a + b - Cap
  BY CapAssumption DEF Index

\* The successor of an index is an index.
LEMMA NextIndex ==
  ASSUME NEW a \in Index
  PROVE  /\ (a + 1) % Cap \in Index
         /\ (a + 1) % Cap = IF a + 1 < Cap THEN a + 1 ELSE 0
<1>1. (a + 1) % Cap = IF a + 1 < Cap THEN a + 1 ELSE a + 1 - Cap
  BY WrapOnce, CapAssumption
<1>2. a \in Int /\ Cap \in Int /\ 0 <= a /\ a < Cap
  BY CapAssumption DEF Index
<1>3. (a + 1) % Cap = IF a + 1 < Cap THEN a + 1 ELSE 0
  <2> DEFINE m == (a + 1) % Cap
  <2> HIDE DEF m
  <2>1. m = IF a + 1 < Cap THEN a + 1 ELSE a + 1 - Cap
    BY <1>1 DEF m
  <2>2. m = IF a + 1 < Cap THEN a + 1 ELSE 0
    BY <2>1, <1>2
  <2> QED BY <2>2 DEF m
<1> QED BY <1>2, <1>3 DEF Index

-----------------------------------------------------------------------------
(* Types *)

\* mlqjs_host_queue_init makes a typed ring.
LEMMA TypeInit == Init => TypeOK
  BY CapAssumption DEF Init, TypeOK, Index, Empty, Request

\* Every step keeps the types, given that an occupied slot holds a buffer.
LEMMA TypeStep == IInv /\ [Next]_vars => TypeOK'
<1> SUFFICES ASSUME IInv, [Next]_vars PROVE TypeOK'
  OBVIOUS
<1> USE CapAssumption DEF TypeOK, IInv
<1>1. ASSUME NEW p \in Payloads, Push(p) PROVE TypeOK'
  <2>1. CASE PushFull(p)
    BY <1>1, <2>1 DEF PushFull, ringVars, Empty, Request
  <2>2. CASE PushRoom(p)
    <3>1. tail' \in Index
      BY <2>2, NextIndex DEF PushRoom
    <3> QED BY <1>1, <2>2, <3>1 DEF PushRoom, Request
  <2> QED BY <1>1, <2>1, <2>2 DEF Push
<1>2. ASSUME NEW p \in Payloads, FreeTaken(p) PROVE TypeOK'
  BY <1>2 DEF FreeTaken, ringVars
<1>3. CASE TakeEmpty
  BY <1>3 DEF TakeEmpty, ringVars, Empty, Request
<1>4. CASE Take
  <2>1. head' \in Index
    BY <1>4, NextIndex DEF Take
  <2>2. slots[head].payload \in Payloads
    BY <1>4 DEF Take, RingInv, Occupied, Request, Index
  <2> QED BY <1>4, <2>1, <2>2 DEF Take, Empty, Request
<1>5. CASE Destroy
  <2>1. heap' \in [Payloads -> {"unused", "allocated", "freed"}]
    BY <1>5 DEF Destroy
  <2>2. alive' \in BOOLEAN
    BY <1>5 DEF Destroy
  <2>3. slots' \in [Index -> Request] /\ ret' \in Request
    BY <1>5 DEF Destroy, Empty, Request
  <2>4. head' \in Index /\ tail' \in Index /\ count' \in 0 .. Cap /\ next_id' \in Nat
    BY <1>5 DEF Destroy, Index
  <2> QED BY <1>5, <2>1, <2>2, <2>3, <2>4 DEF Destroy
<1>6. CASE UNCHANGED vars
  BY <1>6 DEF vars
<1> QED
  BY <1>1, <1>2, <1>3, <1>4, <1>5, <1>6 DEF Next

-----------------------------------------------------------------------------
(* The indices agree, and exactly the occupied slots hold a buffer *)

\* Every operation keeps tail count places past head, and the free slots empty.
LEMMA RingStep == IInv /\ [Next]_vars => RingInv'
<1> SUFFICES ASSUME IInv, [Next]_vars PROVE RingInv'
  OBVIOUS
<1> USE CapAssumption, PayloadAssumption DEF IInv
<1>1. ASSUME NEW p \in Payloads, Push(p) PROVE RingInv'
  <2>1. CASE PushFull(p)
    BY <1>1, <2>1 DEF PushFull, ringVars, RingInv, Occupied
  <2>2. CASE PushRoom(p)
    <3>1. tail' = IF tail + 1 < Cap THEN tail + 1 ELSE 0
      BY <2>2, NextIndex DEF PushRoom, TypeOK
    <3>2. \A i \in Index : slots'[i].payload # NoPayload <=> Occupied(i)'
      BY <2>2 DEF PushRoom, TypeOK, RingInv, Occupied, Index, Request
    <3>3. tail' = IF head' + count' < Cap THEN head' + count' ELSE head' + count' - Cap
      BY <2>2, <3>1 DEF PushRoom, TypeOK, RingInv, Index
    <3> QED BY <1>1, <2>2, <3>2, <3>3 DEF Push, PushRoom, TypeOK, RingInv
  <2> QED BY <1>1, <2>1, <2>2 DEF Push
<1>2. ASSUME NEW p \in Payloads, FreeTaken(p) PROVE RingInv'
  BY <1>2 DEF FreeTaken, ringVars, RingInv, Occupied
<1>3. CASE TakeEmpty
  BY <1>3 DEF TakeEmpty, ringVars, RingInv, Occupied
<1>4. CASE Take
  <2>1. head' = IF head + 1 < Cap THEN head + 1 ELSE 0
    BY <1>4, NextIndex DEF Take, TypeOK
  <2>a. /\ count > 0
        /\ slots' = [slots EXCEPT ![head] = Empty]
        /\ count' = count - 1
        /\ tail' = tail
    BY <1>4 DEF Take
  <2>2. \A i \in Index : slots'[i].payload # NoPayload <=> Occupied(i)'
    BY <2>a, <2>1 DEF TypeOK, RingInv, Occupied, Index, Request, Empty
  <2>3. tail' = IF head' + count' < Cap THEN head' + count' ELSE head' + count' - Cap
    BY <2>a, <2>1 DEF TypeOK, RingInv, Index
  <2> QED BY <1>4, <2>2, <2>3 DEF Take, RingInv
<1>5. CASE Destroy
  BY <1>5 DEF Destroy, RingInv, Occupied, Index, Empty
<1>6. CASE UNCHANGED vars
  BY <1>6 DEF vars, RingInv, Occupied
<1> QED
  BY <1>1, <1>2, <1>3, <1>4, <1>5, <1>6 DEF Next

-----------------------------------------------------------------------------
(* Ownership of the buffers *)

\* Every operation keeps exactly one owner for each buffer.
LEMMA OwnerStep == IInv /\ [Next]_vars => OneOwner'
<1> SUFFICES ASSUME IInv, [Next]_vars PROVE OneOwner'
  OBVIOUS
<1> USE CapAssumption, PayloadAssumption DEF IInv
<1>1. ASSUME NEW p \in Payloads, Push(p), PushFull(p) PROVE OneOwner'
  BY <1>1 DEF Push, PushFull, ringVars, OneOwner, Stored, TypeOK
<1>2. ASSUME NEW p \in Payloads, Push(p), PushRoom(p) PROVE OneOwner'
  <2>1. slots[tail].payload = NoPayload
    BY <1>2 DEF PushRoom, RingInv, Occupied, TypeOK, Index
  <2>2. /\ slots' = [slots EXCEPT ![tail] = [id |-> next_id, payload |-> p]]
        /\ heap' = [heap EXCEPT ![p] = "allocated"]
        /\ held' = held
        /\ heap[p] = "unused"
    BY <1>2 DEF Push, PushRoom
  <2>3. Stored' = Stored \cup {p}
    BY <2>1, <2>2 DEF Stored, TypeOK, Request
  <2>4. p \notin held /\ p \notin Stored
    BY <2>2 DEF OneOwner
  <2> QED BY <2>1, <2>2, <2>3, <2>4 DEF OneOwner, Stored, TypeOK, Request
<1>3. ASSUME NEW p \in Payloads, FreeTaken(p) PROVE OneOwner'
  BY <1>3 DEF FreeTaken, ringVars, OneOwner, Stored, TypeOK
<1>4. CASE TakeEmpty
  BY <1>4 DEF TakeEmpty, ringVars, OneOwner, Stored
<1>5. CASE Take
  <2>1. slots[head].payload # NoPayload
    BY <1>5 DEF Take, RingInv, Occupied, TypeOK, Index
  <2>2. /\ slots' = [slots EXCEPT ![head] = Empty]
        /\ held' = held \cup {slots[head].payload}
        /\ heap' = heap
    BY <1>5 DEF Take
  <2>3. Stored' = Stored \ {slots[head].payload}
    BY <2>1, <2>2 DEF Stored, TypeOK, Request, Empty, OneOwner
  <2>4. slots[head].payload \in Stored
    BY <2>1 DEF Stored, TypeOK
  <2> QED BY <2>1, <2>2, <2>3, <2>4 DEF OneOwner, TypeOK, Request, Empty
<1>6. CASE Destroy
  <2>1. Stored' = {}
    BY <1>6 DEF Destroy, Stored, Empty
  <2>2. heap' = [p \in Payloads |-> IF p \in Stored THEN "freed" ELSE heap[p]]
    BY <1>6 DEF Destroy
  <2>3. \A i, j \in Index : slots'[i].payload = NoPayload
    BY <1>6 DEF Destroy, Empty
  <2> QED BY <1>6, <2>1, <2>2, <2>3 DEF Destroy, OneOwner
<1>7. CASE UNCHANGED vars
  BY <1>7 DEF vars, OneOwner, Stored
<1> QED
  BY <1>1, <1>2, <1>3, <1>4, <1>5, <1>6, <1>7 DEF Next, Push

-----------------------------------------------------------------------------
(* The inductive invariant *)

\* The inductive invariant: types, tail as count places past head, and one
\* owner for each buffer, preserved by push, take, the drain and destroy.
THEOREM Inductive == Spec => []IInv
<1>1. Init => IInv
  BY CapAssumption, TypeInit
     DEF Init, IInv, RingInv, Occupied, OneOwner, Stored, Empty, Index
<1>2. IInv /\ [Next]_vars => IInv'
  BY TypeStep, RingStep, OwnerStep DEF IInv
<1> QED BY <1>1, <1>2, PTL DEF Spec

\* The indices of the ring stay inside the array and count inside 0..Cap,
\* whatever the capacity and however often head and tail wrap.
THEOREM TypeCorrect == Spec => []TypeOK
<1>1. IInv => TypeOK
  BY DEF IInv
<1> QED BY <1>1, Inductive, PTL

\* No buffer is leaked, shared or freed twice by push, take, the drain or
\* mlqjs_host_queue_destroy.
THEOREM Ownership == Spec => []OneOwner
<1>1. IInv => OneOwner
  BY DEF IInv
<1> QED BY <1>1, Inductive, PTL

-----------------------------------------------------------------------------
(* The ring implements the bounded FIFO *)

\* The k-th oldest request is k - 1 slots after head.
At(k) == IF head + k - 1 < Cap THEN head + k - 1 ELSE head + k - 1 - Cap

QueueAt == /\ Queue = [k \in 1 .. count |-> slots[At(k)]]
           /\ \A k \in 1 .. count : At(k) \in Index

\* The modulus in Queue wraps at most once.
LEMMA QueueShape == TypeOK => QueueAt
<1> SUFFICES ASSUME TypeOK PROVE QueueAt
  OBVIOUS
<1> USE CapAssumption DEF TypeOK
<1>1. ASSUME NEW k \in 1 .. count PROVE (head + k - 1) % Cap = At(k) /\ At(k) \in Index
  <2>1. k - 1 \in 0 .. Cap /\ head + k - 1 = head + (k - 1)
    BY DEF Index
  <2>2. (head + (k - 1)) % Cap = IF head + (k - 1) < Cap THEN head + (k - 1)
                                 ELSE head + (k - 1) - Cap
    BY <2>1, WrapOnce
  <2>3. At(k) \in Index
    BY DEF At, Index
  <2> QED BY <2>1, <2>2, <2>3 DEF At
<1> QED BY <1>1 DEF Queue, QueueAt

QueueTyped == Queue \in Seq(Request) /\ Len(Queue) = count

\* Queue is a sequence of count requests.
LEMMA QueueType == TypeOK => QueueTyped
<1> SUFFICES ASSUME TypeOK PROVE QueueTyped
  OBVIOUS
<1>1. QueueAt
  BY QueueShape
<1>2. \A k \in 1 .. count : slots[At(k)] \in Request
  BY <1>1 DEF TypeOK, QueueAt
<1>3. count \in Nat
  BY CapAssumption DEF TypeOK
<1> QED BY <1>1, <1>2, <1>3 DEF QueueAt, QueueTyped

\* A push appends to the abstract queue.
LEMMA PushAppends ==
  ASSUME IInv, IInv', NEW p \in Payloads, PushRoom(p)
  PROVE  Queue' = Append(Queue, [id |-> next_id, payload |-> p])
<1> DEFINE r == [id |-> next_id, payload |-> p]
<1>1. QueueAt /\ QueueAt'
  BY QueueShape, PTL DEF IInv
<1>2. /\ count' = count + 1
      /\ head' = head
      /\ slots' = [slots EXCEPT ![tail] = r]
  BY DEF PushRoom
<1>3. count \in Nat /\ head \in Int /\ Cap \in Int /\ tail \in Index
  BY CapAssumption DEF IInv, TypeOK, Index
<1>4. slots'[At(count + 1)] = r
  BY <1>2, <1>3, CapAssumption DEF At, IInv, RingInv, TypeOK, Index
<1>0. count < Cap
  BY DEF PushRoom
<1>5. ASSUME NEW k \in 1 .. count PROVE At(k) # tail
  BY <1>0, <1>3, CapAssumption DEF At, IInv, RingInv, TypeOK, Index
<1>6. \A k \in 1 .. count : slots'[At(k)] = slots[At(k)]
  BY <1>1, <1>2, <1>5 DEF IInv, TypeOK, QueueAt
<1>7. Queue' = [k \in 1 .. count + 1 |-> slots'[At(k)]]
  BY <1>1, <1>2 DEF QueueAt, At
<1>8. QueueTyped /\ QueueTyped'
  BY QueueType, PTL DEF IInv
<1>9. r \in Request
  BY DEF IInv, TypeOK, Request
<1> HIDE DEF r
<1>10. /\ Append(Queue, r) \in Seq(Request)
       /\ Len(Append(Queue, r)) = count + 1
       /\ \A k \in 1 .. count : Append(Queue, r)[k] = Queue[k]
       /\ Append(Queue, r)[count + 1] = r
  BY <1>8, <1>9 DEF QueueTyped
<1>11. ASSUME NEW k \in 1 .. count + 1 PROVE Queue'[k] = Append(Queue, r)[k]
  <2>1. Queue'[k] = slots'[At(k)]
    BY <1>7
  <2>2. CASE k = count + 1
    BY <1>4, <1>10, <2>1, <2>2
  <2>3. CASE k \in 1 .. count
    <3>1. Queue[k] = slots[At(k)]
      BY <1>1, <2>3 DEF QueueAt
    <3>2. Append(Queue, r)[k] = Queue[k]
      BY <1>10, <2>3
    <3>3. slots'[At(k)] = slots[At(k)]
      BY <1>6, <2>3
    <3> QED BY <2>1, <3>1, <3>2, <3>3
  <2>4. k = count + 1 \/ k \in 1 .. count
    BY <1>3
  <2> QED BY <2>2, <2>3, <2>4
<1>12. Queue' = Append(Queue, r)
  BY <1>2, <1>8, <1>10, <1>11, SeqEqual DEF QueueTyped
<1> QED BY <1>12 DEF r

\* A take removes the oldest request of the abstract queue.
LEMMA TakeRemoves ==
  ASSUME IInv, IInv', Take
  PROVE  Queue # <<>> /\ ret' = Head(Queue) /\ Queue' = Tail(Queue)
<1>1. QueueAt /\ QueueAt'
  BY QueueShape, PTL DEF IInv
<1>2. /\ count > 0
      /\ count' = count - 1
      /\ slots' = [slots EXCEPT ![head] = Empty]
      /\ ret' = slots[head]
  BY DEF Take
<1>3. head' = IF head + 1 < Cap THEN head + 1 ELSE 0
  BY NextIndex DEF Take, IInv, TypeOK
<1>4. count \in Nat /\ head \in Int /\ Cap \in Int /\ head \in Index
  BY CapAssumption DEF IInv, TypeOK, Index
<1>5. QueueTyped /\ QueueTyped'
  BY QueueType, PTL DEF IInv
<1>6. Queue[1] = slots[head]
  BY <1>1, <1>2, <1>4, CapAssumption DEF QueueAt, At, Index
<1>7. \A k \in 1 .. count - 1 : At(k)' = At(k + 1) /\ At(k + 1) # head
  BY <1>2, <1>3, <1>4, CapAssumption DEF At, IInv, TypeOK, Index
<1>8. \A k \in 1 .. count - 1 : slots'[At(k)'] = slots[At(k + 1)]
  BY <1>1, <1>2, <1>4, <1>7 DEF IInv, TypeOK, QueueAt
<1>9. Queue' = [k \in 1 .. count - 1 |-> Queue[k + 1]]
  BY <1>1, <1>2, <1>4, <1>8 DEF QueueAt
<1>10. Queue # <<>>
  BY <1>2, <1>5 DEF QueueTyped
<1>11. /\ Tail(Queue) \in Seq(Request)
       /\ Len(Tail(Queue)) = count - 1
       /\ \A k \in 1 .. count - 1 : Tail(Queue)[k] = Queue[k + 1]
  BY <1>5, <1>10, HeadTailProperties DEF QueueTyped
<1>12. Queue' = Tail(Queue)
  BY <1>2, <1>5, <1>9, <1>11, SeqEqual DEF QueueTyped
<1>13. Head(Queue) = Queue[1]
  BY <1>5, <1>10 DEF QueueTyped
<1> QED BY <1>2, <1>6, <1>10, <1>12, <1>13

\* Every behaviour of the ring is a behaviour of the bounded FIFO.
THEOREM RingImplementsFifo == Spec => FifoSpec
<1>1. Init => Fifo!Init
  BY DEF Init, Fifo!Init, Queue, Empty, Fifo!Nothing
<1>2. IInv /\ IInv' /\ [Next]_vars => [Fifo!Next]_(Fifo!fifoVars)
  <2> SUFFICES ASSUME IInv, IInv', [Next]_vars PROVE [Fifo!Next]_(Fifo!fifoVars)
    OBVIOUS
  <2>0. Queue \in Seq(Request) /\ Len(Queue) = count
    BY QueueType DEF IInv, QueueTyped
  <2>1. ASSUME NEW p \in Payloads, Push(p), PushFull(p) PROVE Fifo!Overload
    <3>1. Queue' = Queue
      BY <2>1 DEF PushFull, ringVars, Queue
    <3>2. count = Cap
      BY <2>1, CapAssumption DEF PushFull, IInv, TypeOK
    <3>3. alive = TRUE /\ alive' = alive /\ next_id' = next_id
      BY <2>1 DEF Push, PushFull, ringVars
    <3>4. ret' = Fifo!Nothing
      BY <2>1 DEF PushFull, Empty, Fifo!Nothing
    <3> QED BY <2>0, <3>1, <3>2, <3>3, <3>4 DEF Fifo!Overload
  <2>2. ASSUME NEW p \in Payloads, Push(p), PushRoom(p) PROVE Fifo!Push(p)
    <3>1. Queue' = Append(Queue, [id |-> next_id, payload |-> p])
      BY <2>2, PushAppends
    <3>2. alive = TRUE /\ alive' = alive /\ next_id' = next_id + 1 /\ count < Cap
      BY <2>2 DEF Push, PushRoom
    <3>3. next_id \in Nat
      BY DEF IInv, TypeOK
    <3>4. ret' = [id |-> next_id, payload |-> NoPayload]
      BY <2>2 DEF PushRoom
    <3> QED BY <2>0, <3>1, <3>2, <3>3, <3>4 DEF Fifo!Push
  <2>3. ASSUME NEW p \in Payloads, FreeTaken(p) PROVE UNCHANGED Fifo!fifoVars
    BY <2>3 DEF FreeTaken, ringVars, Fifo!fifoVars, Queue
  <2>4. CASE TakeEmpty
    <3>1. Queue' = Queue
      BY <2>4 DEF TakeEmpty, ringVars, Queue
    <3>2. Queue = <<>>
      BY <2>0, <2>4 DEF TakeEmpty
    <3>3. Fifo!TakeNothing
      BY <2>4, <3>1, <3>2 DEF TakeEmpty, ringVars, Empty, Fifo!TakeNothing, Fifo!Nothing
    <3> QED BY <3>3 DEF Fifo!Next
  <2>5. CASE Take
    <3>1. Queue # <<>> /\ ret' = Head(Queue) /\ Queue' = Tail(Queue)
      BY <2>5, TakeRemoves
    <3>2. alive = TRUE /\ alive' = alive /\ next_id' = next_id
      BY <2>5 DEF Take
    <3>3. Fifo!Take
      BY <3>1, <3>2 DEF Fifo!Take
    <3> QED BY <3>3 DEF Fifo!Next
  <2>6. CASE Destroy
    <3>1. Queue' = <<>>
      BY <2>6 DEF Destroy, Queue
    <3>2. Fifo!Close
      BY <2>6, <3>1 DEF Destroy, Empty, Fifo!Close, Fifo!Nothing
    <3> QED BY <3>2 DEF Fifo!Next
  <2>7. CASE UNCHANGED vars
    BY <2>7 DEF vars, Fifo!fifoVars, Queue
  <2> QED
    BY <2>1, <2>2, <2>3, <2>4, <2>5, <2>6, <2>7 DEF Next, Push, Fifo!Next
<1> QED BY <1>1, <1>2, Inductive, PTL DEF Spec, FifoSpec, Fifo!Spec

-----------------------------------------------------------------------------
(* HandleTable *)

\* The runtime in a slot carries the slot's generation, and its handle packs
\* the two.
Tagged ==
  \A i \in TableIndex :
    g_table[i] # NULL =>
      /\ g_generation[i] >= 1
      /\ gen[g_table[i]] = g_generation[i]
      /\ handle[g_table[i]] = Pack(g_generation[i], i)

\* q was put into slot i, and nothing with its generation came after it.
IssuedAt(q, i) ==
  /\ gen[q] >= 1
  /\ gen[q] <= g_generation[i]
  /\ gen[q] = g_generation[i] => g_table[i] \in {q, NULL}
  /\ handle[q] = Pack(gen[q], i)

Issued == \A q \in Runtime :
            handle[q] = 0 \/ (q <= creates /\ \E i \in TableIndex : IssuedAt(q, i))

TableInv == TableTypeOK /\ NeverWraps /\ Tagged /\ Issued

-----------------------------------------------------------------------------
(* Handles *)

\* Packing two digits in base m and taking them apart again.
LEMMA DivMod ==
  ASSUME NEW m \in Nat \ {0}, NEW g \in Int, NEW i \in 0 .. m - 1
  PROVE  (g * m + i) % m = i /\ (g * m + i) \div m = g
  BY SMTT(60)

\* A smaller generation gives a smaller packed value, whatever the index.
LEMMA Below ==
  ASSUME NEW m \in Nat \ {0}, NEW h \in Nat, NEW g \in Nat, g < h, NEW i \in 0 .. m - 1
  PROVE  g * m + i < h * m /\ g * m + i >= 0 /\ g * m + i \in Int
<1>1. g + 1 <= h
  OBVIOUS
<1>2. (g + 1) * m <= h * m
  BY <1>1
<1>3. (g + 1) * m = g * m + m
  OBVIOUS
<1> QED BY <1>2, <1>3

\* What the proofs use of the sizes: an index fits below a generation.
LEMMA Constants == /\ GenMod \in Nat \ {0} /\ HalfGen \in Nat \ {0}
                   /\ HalfGen < GenMod /\ TableIndex \subseteq 0 .. GenMod - 1
                   /\ GenMod = 2 * HalfGen
  BY TableAssumption DEF GenMod, TableIndex

\* Below the sign bit a handle can be taken apart again.
LEMMA PackPositive ==
  ASSUME NEW g \in 0 .. HalfGen - 1, NEW i \in TableIndex
  PROVE  /\ IndexOf(Pack(g, i)) = i
         /\ GenOf(Pack(g, i)) = g
         /\ Pack(g, i) \in -(HalfGen * GenMod) .. HalfGen * GenMod - 1
<1>1. i \in 0 .. GenMod - 1 /\ g \in Nat /\ g < HalfGen
  BY Constants
<1>2. g * GenMod + i < HalfGen * GenMod /\ g * GenMod + i >= 0 /\ g * GenMod + i \in Int
  BY <1>1, Constants, Below
<1>3. Pack(g, i) = g * GenMod + i
  BY <1>2 DEF Pack, Signed
<1>4. HalfGen * GenMod \in Nat
  BY Constants
<1>5. (g * GenMod + i) % GenMod = i /\ (g * GenMod + i) \div GenMod = g
  BY <1>1, Constants, DivMod
<1>6. IndexOf(Pack(g, i)) = i /\ GenOf(Pack(g, i)) = g
  BY <1>3, <1>5 DEF IndexOf, GenOf
<1>7. Pack(g, i) \in -(HalfGen * GenMod) .. HalfGen * GenMod - 1
  <2> DEFINE x == g * GenMod + i
             y == HalfGen * GenMod
  <2> HIDE DEF x, y
  <2>1. x \in Int /\ 0 <= x /\ x < y /\ y \in Nat
    BY <1>2, <1>4 DEF x, y
  <2>2. x \in -y .. y - 1
    BY <2>1
  <2> QED BY <1>3, <2>2 DEF x, y
<1> QED BY <1>6, <1>7

\* At the sign bit the generation comes out negative.
LEMMA PackNegative ==
  ASSUME NEW i \in TableIndex
  PROVE  /\ IndexOf(Pack(HalfGen, i)) = i
         /\ GenOf(Pack(HalfGen, i)) = -HalfGen
         /\ Pack(HalfGen, i) \in -(HalfGen * GenMod) .. HalfGen * GenMod - 1
<1>1. i \in 0 .. GenMod - 1 /\ i \in Int /\ -HalfGen \in Int
  BY Constants
<1>2. HalfGen * GenMod \in Nat
  BY Constants
<1>3. Pack(HalfGen, i) = (HalfGen * GenMod + i) - IntMod
  <2> DEFINE x == HalfGen * GenMod + i
  <2>1. ~(x < HalfGen * GenMod)
    BY <1>1, <1>2
  <2>2. Pack(HalfGen, i) = Signed(x)
    BY DEF Pack
  <2> HIDE DEF x
  <2>3. Signed(x) = x - IntMod
    BY <2>1 DEF Signed
  <2>4. x = HalfGen * GenMod + i
    BY DEF x
  <2> QED BY <2>2, <2>3, <2>4, Zenon
<1>4. IntMod = HalfGen * GenMod + HalfGen * GenMod
  BY Constants DEF IntMod
<1>5. (-HalfGen) * GenMod = -(HalfGen * GenMod)
  BY Constants
<1>6. Pack(HalfGen, i) = (-HalfGen) * GenMod + i
  BY <1>1, <1>2, <1>3, <1>4, <1>5
<1>7. i < HalfGen * GenMod
  BY <1>1, Constants
<1>8. ((-HalfGen) * GenMod + i) % GenMod = i /\ ((-HalfGen) * GenMod + i) \div GenMod = -HalfGen
  BY <1>1, Constants, DivMod
<1>9. IndexOf(Pack(HalfGen, i)) = i /\ GenOf(Pack(HalfGen, i)) = -HalfGen
  BY <1>6, <1>8 DEF IndexOf, GenOf
<1>10. Pack(HalfGen, i) \in -(HalfGen * GenMod) .. HalfGen * GenMod - 1
  <2> DEFINE x == Pack(HalfGen, i)
             y == HalfGen * GenMod
  <2> HIDE DEF x, y
  <2>1. x = -y + i /\ 0 <= i /\ i < y /\ y \in Nat /\ i \in Int
    BY <1>1, <1>2, <1>5, <1>6, <1>7 DEF x, y
  <2>2. x \in -y .. y - 1
    BY <2>1
  <2> QED BY <2>2 DEF x, y
<1> QED BY <1>9, <1>10

\* The failure handle 0 names slot 0 and generation 0, which no runtime has.
LEMMA ZeroHandle == IndexOf(0) = 0 /\ GenOf(0) = 0 /\ 0 \in TableIndex
  BY TableAssumption, Constants DEF IndexOf, GenOf, TableIndex

\* Below the sign bit table_alloc's increment neither wraps nor skips.
LEMMA BumpBelow ==
  ASSUME NEW g \in 0 .. HalfGen - 1
  PROVE  Bump(g) = g + 1
<1>1. g + 1 \in 0 .. GenMod - 1 /\ g + 1 # 0
  BY Constants
<1>2. (0 * GenMod + (g + 1)) % GenMod = g + 1
  BY <1>1, Constants, DivMod
<1>3. 0 * GenMod + (g + 1) = g + 1
  BY <1>1, Constants
<1> QED BY <1>1, <1>2, <1>3 DEF Bump

-----------------------------------------------------------------------------
(* Looking handles up *)

\* table_get finds the runtime of the handle if that is still in its slot and
\* its generation is below the sign bit.
LEMMA Lookup ==
  ASSUME TableInv, NEW q \in 1 .. creates
  PROVE  /\ table_get(handle[q]) \in {q, NULL}
         /\ table_get(handle[q]) # NULL =>
              \E i \in TableIndex : /\ IndexOf(handle[q]) = i
                               /\ g_table[i] = q
                               /\ g_generation[i] < HalfGen
<1> USE DEF TableInv
<1>0. q \in Runtime
  BY TableAssumption DEF TableTypeOK, Runtime
<1>1. CASE handle[q] = 0
  <2>1. g_table[0] # NULL => gen[g_table[0]] >= 1 /\ gen[g_table[0]] \in Int
    BY ZeroHandle DEF Tagged, TableTypeOK
  <2>2. table_get(handle[q]) = NULL
    BY <1>1, <2>1, ZeroHandle DEF table_get
  <2> QED BY <2>2
<1>2. ASSUME NEW i \in TableIndex, IssuedAt(q, i)
      PROVE  /\ table_get(handle[q]) \in {q, NULL}
             /\ table_get(handle[q]) # NULL =>
                  IndexOf(handle[q]) = i /\ g_table[i] = q /\ g_generation[i] < HalfGen
  <2>1. /\ g_generation[i] \in Int /\ g_generation[i] <= HalfGen
        /\ gen[q] \in Int /\ 1 <= gen[q] /\ gen[q] <= HalfGen
    BY <1>0, <1>2, Constants DEF TableTypeOK, NeverWraps, IssuedAt
  <2>2. CASE gen[q] < HalfGen
    <3>0. gen[q] \in 0 .. HalfGen - 1 /\ handle[q] = Pack(gen[q], i)
      BY <1>2, <2>1, <2>2, Constants DEF IssuedAt
    <3>1. IndexOf(handle[q]) = i /\ GenOf(handle[q]) = gen[q]
      BY <3>0, PackPositive
    <3>2. g_table[i] # NULL /\ gen[g_table[i]] = gen[q] =>
            g_table[i] = q /\ g_generation[i] = gen[q]
      BY <1>2 DEF Tagged, IssuedAt
    <3> QED BY <2>2, <3>1, <3>2 DEF table_get
  <2>3. CASE gen[q] = HalfGen
    <3>1. IndexOf(handle[q]) = i /\ GenOf(handle[q]) = -HalfGen
      BY <1>2, <2>3, PackNegative DEF IssuedAt
    <3>2. g_table[i] # NULL => gen[g_table[i]] # -HalfGen
      BY <2>1, Constants DEF Tagged
    <3> QED BY <3>1, <3>2 DEF table_get
  <2> QED BY <2>1, <2>2, <2>3, Constants
<1> QED BY <1>0, <1>1, <1>2 DEF Issued

-----------------------------------------------------------------------------
(* The invariant is inductive *)

\* The empty table satisfies the invariant.
LEMMA InvInit == TableInit => TableInv
<1>1. HalfGen * GenMod \in Nat \ {0}
  BY Constants
<1> QED BY <1>1, TableAssumption, Constants
        DEF TableInit, TableInv, TableTypeOK, NeverWraps, Tagged, Issued, NULL, Runtime

\* The slot that table_alloc finds has not reached the sign bit.
LEMMA CreateStep ==
  ASSUME TableInv, creates < MaxCreates, creates' = creates + 1,
         NEW i \in TableIndex, CreateAt(i)
  PROVE  TableInv'
<1> DEFINE q == creates + 1
           g == g_generation[i] + 1
<1>1. /\ g_generation[i] \in 0 .. HalfGen - 1
      /\ g_table[i] = NULL
  BY TableAssumption, Constants DEF TableInv, TableTypeOK, NeverWraps, CreateAt
<1>2. Bump(g_generation[i]) = g
  BY <1>1, BumpBelow
<1>3. /\ g_table' = [g_table EXCEPT ![i] = q]
      /\ g_generation' = [g_generation EXCEPT ![i] = g]
      /\ gen' = [gen EXCEPT ![q] = g]
      /\ handle' = [handle EXCEPT ![q] = Pack(g, i)]
  BY <1>2 DEF CreateAt
<1>4. /\ q \in Runtime /\ q \in Int /\ q > 0
      /\ g \in 1 .. HalfGen /\ g \in 0 .. GenMod - 1
      /\ creates' = q /\ creates \in Nat
  BY <1>1, TableAssumption, Constants DEF TableInv, TableTypeOK, Runtime
<1>5. Pack(g, i) \in -(HalfGen * GenMod) .. HalfGen * GenMod - 1
  <2>1. CASE g = HalfGen
    BY <2>1, PackNegative
  <2>2. CASE g \in 0 .. HalfGen - 1
    BY <2>2, PackPositive
  <2>3. g = HalfGen \/ g \in 0 .. HalfGen - 1
    BY <1>4, Constants
  <2> QED BY <2>1, <2>2, <2>3
<1> HIDE DEF q, g
<1>6. TableTypeOK'
  <2>1. g_table' \in [TableIndex -> 0 .. creates']
    BY <1>3, <1>4 DEF TableInv, TableTypeOK, q
  <2>2. handle' \in [Runtime -> -(HalfGen * GenMod) .. HalfGen * GenMod - 1]
    BY <1>3, <1>4, <1>5 DEF TableInv, TableTypeOK
  <2>3. /\ g_generation' \in [TableIndex -> 0 .. GenMod - 1]
        /\ gen' \in [Runtime -> 0 .. GenMod - 1]
    BY <1>3, <1>4 DEF TableInv, TableTypeOK
  <2>4. creates' \in 0 .. MaxCreates
    BY <1>4, TableAssumption DEF Runtime
  <2> QED BY <2>1, <2>2, <2>3, <2>4 DEF TableTypeOK
<1>7. NeverWraps'
  BY <1>3, <1>4, Constants DEF TableInv, TableTypeOK, NeverWraps, NULL
<1>8. Tagged'
  <2> SUFFICES ASSUME NEW j \in TableIndex, g_table'[j] # NULL
               PROVE  /\ g_generation'[j] >= 1
                      /\ gen'[g_table'[j]] = g_generation'[j]
                      /\ handle'[g_table'[j]] = Pack(g_generation'[j], j)
    BY DEF Tagged, Pack, Signed
  <2>1. CASE j = i
    BY <1>3, <1>4, <2>1 DEF TableInv, TableTypeOK
  <2>2. CASE j # i
    <3>1. g_table'[j] = g_table[j] /\ g_generation'[j] = g_generation[j]
      BY <1>3, <2>2 DEF TableInv, TableTypeOK
    <3>2. g_table[j] # q /\ g_table[j] \in Runtime
      <4>1. g_table[j] \in 0 .. creates /\ g_table[j] # 0 /\ creates \in 0 .. MaxCreates
        BY <3>1 DEF TableInv, TableTypeOK, NULL
      <4> QED BY <4>1, TableAssumption DEF q, Runtime
    <3>3. gen'[g_table[j]] = gen[g_table[j]] /\ handle'[g_table[j]] = handle[g_table[j]]
      BY <1>3, <3>2 DEF TableInv, TableTypeOK
    <3> QED BY <3>1, <3>3 DEF TableInv, Tagged
  <2> QED BY <2>1, <2>2
<1>9. Issued'
  <2> SUFFICES ASSUME NEW p \in Runtime
               PROVE  handle'[p] = 0 \/ (p <= creates' /\ \E j \in TableIndex : IssuedAt(p, j)')
    BY DEF Issued
  <2>1. CASE p = q
    <3>1. /\ gen'[p] = g /\ handle'[p] = Pack(g, i)
          /\ g_generation'[i] = g /\ g_table'[i] = p
      BY <1>3, <1>4, <2>1 DEF TableInv, TableTypeOK
    <3>2. IssuedAt(p, i)'
      BY <1>4, <3>1 DEF IssuedAt, Pack, Signed
    <3> QED BY <1>4, <2>1, <3>2
  <2>2. CASE p # q
    <3>1. p <= creates => p <= creates'
      BY <1>4 DEF q, Runtime
    <3>2. gen'[p] = gen[p] /\ handle'[p] = handle[p]
      BY <1>3, <2>2 DEF TableInv, TableTypeOK
    <3>3. ASSUME NEW j \in TableIndex, IssuedAt(p, j) PROVE IssuedAt(p, j)'
      <4>1. CASE j = i
        <5>1. gen[p] \in Int /\ gen[p] <= g_generation[i]
          BY <3>3, <4>1 DEF TableInv, TableTypeOK, IssuedAt
        <5>2. gen'[p] < g_generation'[i] /\ g_generation'[i] = g
          BY <1>1, <1>3, <3>2, <5>1 DEF g, TableInv, TableTypeOK
        <5> QED BY <1>4, <3>2, <3>3, <4>1, <5>1, <5>2 DEF IssuedAt, Pack, Signed
      <4>2. CASE j # i
        <5>1. g_table'[j] = g_table[j] /\ g_generation'[j] = g_generation[j]
          BY <1>3, <4>2 DEF TableInv, TableTypeOK
        <5> QED BY <3>2, <3>3, <5>1 DEF IssuedAt, Pack, Signed
      <4> QED BY <4>1, <4>2
    <3> QED BY <3>1, <3>2, <3>3 DEF TableInv, Issued
  <2> QED BY <2>1, <2>2
<1> QED BY <1>6, <1>7, <1>8, <1>9 DEF TableInv

\* Only the runtime of the handle itself is taken out of the table.
LEMMA DestroyStep ==
  ASSUME TableInv, NEW q \in Runtime, DestroyRuntime(q)
  PROVE  TableInv'
<1>1. CASE table_get(handle[q]) = NULL
  <2>1. UNCHANGED tableVars
    BY <1>1 DEF DestroyRuntime, tableVars
  <2> QED BY <2>1 DEF tableVars, TableInv, TableTypeOK, NeverWraps, Tagged, Issued, IssuedAt, Pack, Signed
<1>2. CASE table_get(handle[q]) # NULL
  <2>1. q \in 1 .. creates
    BY TableAssumption DEF DestroyRuntime, Runtime, TableInv, TableTypeOK
  <2>2. PICK i \in TableIndex : /\ IndexOf(handle[q]) = i
                           /\ g_table[i] = q
                           /\ g_generation[i] < HalfGen
    BY <1>2, <2>1, Lookup
  <2>3. /\ g_table' = [g_table EXCEPT ![i] = NULL]
        /\ UNCHANGED <<g_generation, gen, handle, creates>>
    BY <1>2, <2>2 DEF DestroyRuntime
  <2>4. TableTypeOK'
    BY <2>3 DEF TableInv, TableTypeOK, NULL
  <2>5. NeverWraps'
    BY <2>2, <2>3, Constants DEF TableInv, TableTypeOK, NeverWraps
  <2>6. Tagged'
    BY <2>3 DEF TableInv, TableTypeOK, Tagged, Pack, Signed
  <2>7. ASSUME NEW p \in Runtime, NEW j \in TableIndex, IssuedAt(p, j)
        PROVE  IssuedAt(p, j)'
    BY <2>3, <2>7 DEF TableInv, TableTypeOK, IssuedAt, Pack, Signed
  <2>8. Issued'
    BY <2>3, <2>7 DEF TableInv, Issued
  <2> QED BY <2>4, <2>5, <2>6, <2>8 DEF TableInv
<1> QED BY <1>1, <1>2

\* mlqjs_create, failed or not, and mlqjs_destroy keep the invariant.
LEMMA InvStep == TableInv /\ [TableNext]_tableVars => TableInv'
<1> SUFFICES ASSUME TableInv, [TableNext]_tableVars PROVE TableInv'
  OBVIOUS
<1>1. ASSUME Create, NEW i \in TableIndex, CreateAt(i) PROVE TableInv'
  BY <1>1, CreateStep DEF Create
<1>2. CASE Create /\ CreateFull
  <2>1. /\ UNCHANGED <<g_table, g_generation, gen, handle>>
        /\ creates' = creates + 1 /\ creates \in Nat /\ creates < MaxCreates
    BY <1>2, TableAssumption DEF Create, CreateFull, TableInv, TableTypeOK
  <2>2. TableTypeOK'
    BY <2>1, TableAssumption DEF TableInv, TableTypeOK
  <2>3. NeverWraps' /\ Tagged'
    BY <2>1 DEF TableInv, NeverWraps, Tagged, Pack, Signed
  <2>4. ASSUME NEW p \in Runtime, NEW j \in TableIndex, IssuedAt(p, j)
        PROVE  IssuedAt(p, j)'
    BY <2>1, <2>4 DEF IssuedAt, Pack, Signed
  <2>5. \A p \in Runtime : p <= creates => p <= creates'
    BY <2>1 DEF Runtime
  <2> QED BY <2>5, <2>1, <2>2, <2>3, <2>4 DEF TableInv, Issued
<1>3. ASSUME NEW q \in Runtime, DestroyRuntime(q) PROVE TableInv'
  BY <1>3, DestroyStep
<1>4. CASE UNCHANGED tableVars
  BY <1>4 DEF tableVars, TableInv, TableTypeOK, NeverWraps, Tagged, Issued, IssuedAt, Pack, Signed
<1> QED BY <1>1, <1>2, <1>3, <1>4 DEF TableNext, Create

-----------------------------------------------------------------------------
(* Theorems *)

\* The inductive invariant: a slot's generation is the one its runtime was
\* created with, and every handle that table_alloc issued is the packing of
\* a slot and a generation that slot has reached.
THEOREM TableInductive == TableSpec => []TableInv
  BY InvInit, InvStep, PTL DEF TableSpec

\* The table's types hold in every reachable state, handles within an int.
THEOREM TableTypeCorrect == TableSpec => []TableTypeOK
<1>1. TableInv => TableTypeOK
  BY DEF TableInv
<1> QED BY <1>1, TableInductive, PTL

\* A handle reaches its own runtime or none, however old it is.
THEOREM StaleHandlesRejected == TableSpec => []OnlyItsOwn
<1>1. TableInv => OnlyItsOwn
  BY Lookup DEF OnlyItsOwn
<1> QED BY <1>1, TableInductive, PTL

\* No slot's generation goes beyond the sign bit.
THEOREM GenerationsNeverWrap == TableSpec => []NeverWraps
<1>1. TableInv => NeverWraps
  BY DEF TableInv
<1> QED BY <1>1, TableInductive, PTL

\* Below the sign bit every runtime in the table answers to its handle.
THEOREM LiveHandlesWork == TableSpec => []ReachableBelowSignBit
<1>1. TableInv => ReachableBelowSignBit
  <2> SUFFICES ASSUME TableInv, NEW i \in TableIndex, g_table[i] # NULL, g_generation[i] < HalfGen
               PROVE  table_get(handle[g_table[i]]) = g_table[i]
    BY DEF ReachableBelowSignBit
  <2>1. /\ g_generation[i] \in 0 .. HalfGen - 1
        /\ gen[g_table[i]] = g_generation[i]
        /\ handle[g_table[i]] = Pack(g_generation[i], i)
    BY Constants DEF TableInv, TableTypeOK, Tagged
  <2>2. IndexOf(handle[g_table[i]]) = i /\ GenOf(handle[g_table[i]]) = g_generation[i]
    BY <2>1, PackPositive
  <2> QED BY <2>1, <2>2 DEF table_get
<1> QED BY <1>1, TableInductive, PTL
=============================================================================
