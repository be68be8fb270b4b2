--------------------------- MODULE Worker_proofs ---------------------------
(***************************************************************************)
(* The worker answers the requests of a function in order and keeps the    *)
(* promise table in step with them, for every number of invocations, every *)
(* capacity and budget, and whatever the JavaScript code does.             *)
(***************************************************************************)
EXTENDS Worker, FiniteSetTheorems, SequenceTheorems, TLAPS

Steps == {"idle", "setup", "eval", "pump1", "take", "dispatch", "pump2",
          "check", "destroy", "down"}

Table == [Slot -> {Free} \cup [owner : 1 .. MaxInv, id : Ids]]

\* TypeOK without the bounds that follow from the budget.
Shape ==
  /\ pc \in Steps
  /\ eng \in 0 .. MaxInv
  /\ live \subseteq 1 .. eng
  /\ g_promises \in Table
  /\ queue \in Seq(Nat) /\ batch \in Seq(Nat) /\ dispatched \in Seq(Nat)
  /\ next_id \in Nat /\ jobs \in Nat /\ fuel \in Nat
  /\ handler \in {"running", "absent", "returned", "threw"}
  /\ quota \in 0 .. MaxJobs
  /\ turns \in 0 .. MaxTurns
  /\ completion \in {"none", "fulfilled", "rejected", "timeout"}
  /\ outcome \in [1 .. MaxInv -> {"none", "fulfilled", "rejected", "timeout",
                                  "raised", "error", "aborted"}]
  /\ crossed \subseteq 1 .. MaxInv

Flags == orphan \in BOOLEAN /\ job \in BOOLEAN /\ interrupted \in BOOLEAN

\* Where JavaScript can be running, where a batch can be under way, and where
\* drive has turns left.
Control ==
  /\ job => pc \in {"eval", "pump1", "pump2"}
  /\ Running /\ pc # "dispatch" => batch = <<>>
  /\ Running /\ pc # "destroy" => turns >= 1

\* DispatchInOrder, one sequence at a time: the requests are numbered through.
Numbered ==
  /\ next_id = Len(dispatched) + Len(batch) + Len(queue) + 1
  /\ \A k \in 1 .. Len(dispatched) : dispatched[k] = k
  /\ \A k \in 1 .. Len(batch) : batch[k] = Len(dispatched) + k
  /\ \A k \in 1 .. Len(queue) : queue[k] = Len(dispatched) + Len(batch) + k

Extra == IF pc \in {"setup", "eval"} THEN 0 ELSE 1

\* What a function does is paid for: one unit of fuel for each request and for
\* each job, besides the job of the call itself.
Budget ==
  /\ next_id + fuel <= Fuel + 1
  /\ jobs + Len(queue) + Len(batch) + fuel <= Fuel + Extra
  /\ Len(queue) <= QueueCap
  /\ Len(batch) <= QueueCap

\* The engines that are left are the one that runs and those of invocations
\* that raised; each outcome is written once.
Engines ==
  /\ Cardinality(live) <= TableCap
  /\ Running => eng \in live /\ outcome[eng] = "none"
  /\ \A e \in live : e # eng \/ pc = "idle" => outcome[e] = "raised"
  /\ \A e \in 1 .. MaxInv : e > eng => outcome[e] = "none"
  /\ crossed # {} => \E e \in 1 .. eng : outcome[e] = "raised"

\* A slot belongs to an engine that is left.
Owned == \A s \in InUse : g_promises[s].owner \in live

\* The slots are those of the requests from the oldest that is not dispatched
\* to the newest.
Matched ==
  Running /\ live = {eng} =>
    /\ \A s, t \in InUse : g_promises[s].id = g_promises[t].id => s = t
    /\ \A s \in InUse : Len(dispatched) < g_promises[s].id /\ g_promises[s].id < next_id
    /\ ~orphan => \A i \in Len(dispatched) + 1 .. next_id - 1 :
                    \E s \in InUse : g_promises[s].id = i

IInv == Shape /\ Flags /\ Control /\ Numbered /\ Budget /\ Engines /\ Owned /\ Matched

-----------------------------------------------------------------------------
(* The first free slot *)

Below == {p \in Nat \X Nat : p[1] < p[2]}

\* A set of natural numbers that is not empty has a least member.
LEMMA Least ==
  ASSUME NEW T \in SUBSET Nat, T # {}
  PROVE  Min(T) \in T /\ \A y \in T : Min(T) <= y
<1>1. IsWellFoundedOn(Below, Nat)
  BY NatLessThanWellFounded DEF OpToRel, Below
<1>2. PICK x \in T : \A y \in T : <<y, x>> \notin Below
  BY <1>1, WFMin, Zenon
<1>3. \A a, b \in Nat : a < b => <<a, b>> \in Below
  BY DEF Below
<1>4. ASSUME NEW y \in T PROVE x <= y
  <2>1. x \in Nat /\ y \in Nat
    OBVIOUS
  <2>2. ~(y < x)
    BY <1>2, <1>3, <2>1, Zenon
  <2> QED BY <2>1, <2>2
<1> QED BY <1>4, Zenon DEF Min

\* promise_insert: the first free slot takes the promise, the others stay.
Inserted(m, i) ==
  /\ m \in Slot \ InUse
  /\ InUse' = InUse \cup {m}
  /\ g_promises'[m].owner = eng
  /\ g_promises'[m].id = i
  /\ \A s \in InUse : g_promises'[s] = g_promises[s]

LEMMA Insert ==
  ASSUME Shape, eng \in live, NEW i \in Nat, InUse # Slot,
         g_promises' = [g_promises EXCEPT ![Min(Slot \ InUse)] = [owner |-> eng, id |-> i]]
  PROVE  \E m \in Slot : Inserted(m, i)
<1> DEFINE m == Min(Slot \ InUse)
           r == [owner |-> eng, id |-> i]
<1>1. m \in Slot \ InUse
  <2>1. Slot \ InUse \in SUBSET Nat /\ Slot \ InUse # {}
    BY WorkerAssumption DEF InUse, Slot
  <2> QED BY <2>1, Least
<1>2. r # Free /\ r.owner = eng /\ r.id = i
  BY DEF Shape, Free
<1> HIDE DEF m, r
<1>3. g_promises' = [g_promises EXCEPT ![m] = r] /\ DOMAIN g_promises = Slot
  BY DEF m, r, Shape, Table
<1>4. g_promises'[m] = r /\ \A s \in Slot : s # m => g_promises'[s] = g_promises[s]
  BY <1>1, <1>3
<1>5. InUse' = InUse \cup {m}
  BY <1>1, <1>2, <1>4 DEF InUse
<1>6. \A s \in InUse : s \in Slot /\ s # m
  BY <1>1 DEF InUse
<1> QED BY <1>1, <1>2, <1>4, <1>5, <1>6 DEF Inserted

\* mlqjs_resolve: one slot with the id becomes free, the others stay.
Settled(m, i) ==
  /\ m \in InUse
  /\ g_promises[m].id = i
  /\ InUse' = InUse \ {m}
  /\ \A s \in InUse \ {m} : g_promises'[s] = g_promises[s]

LEMMA Settle ==
  ASSUME Shape, NEW i \in Nat, promise_find(i) # {},
         g_promises' = [g_promises EXCEPT ![Min(promise_find(i))] = Free]
  PROVE  Settled(Min(promise_find(i)), i)
<1> DEFINE m == Min(promise_find(i))
<1>1. m \in promise_find(i)
  <2>1. promise_find(i) \in SUBSET Nat
    BY WorkerAssumption DEF promise_find, InUse, Slot
  <2> QED BY <2>1, Least
<1> HIDE DEF m
<1>2. m \in InUse /\ m \in Slot /\ g_promises[m].id = i
  BY <1>1 DEF promise_find, InUse
<1>3. g_promises' = [g_promises EXCEPT ![m] = Free] /\ DOMAIN g_promises = Slot
  BY DEF m, Shape, Table
<1>4. g_promises'[m] = Free /\ \A s \in Slot : s # m => g_promises'[s] = g_promises[s]
  BY <1>2, <1>3
<1>5. InUse' = InUse \ {m}
  BY <1>2, <1>4 DEF InUse
<1>6. \A s \in InUse : s \in Slot
  BY DEF InUse
<1>7. Settled(m, i)
  BY <1>2, <1>4, <1>5, <1>6 DEF Settled
<1> QED BY <1>7 DEF m

-----------------------------------------------------------------------------
(* Types *)

\* A fresh worker is typed, and the budget of its engine is whole.
LEMMA InitShape == Init => Shape
  BY WorkerAssumption DEF Init, Shape, Table, Steps

\* A host call keeps the types of what it changes.
LEMMA HostCallShape ==
  ASSUME Shape, Control, Numbered, Budget, Engines, HostCall
  PROVE  g_promises' \in Table /\ queue' \in Seq(Nat) /\ next_id' \in Nat /\ fuel' \in Nat
<1>1. eng \in 1 .. MaxInv
  BY WorkerAssumption DEF HostCall, Control, Engines, Running, Shape
<1>2. g_promises \in Table /\ queue \in Seq(Nat) /\ next_id \in Nat /\ fuel \in Nat
  BY DEF Shape, Table
<1>3. fuel' \in Nat
  BY <1>2 DEF HostCall
<1>4. CASE Len(queue) = QueueCap
  <2>1. g_promises' = g_promises /\ queue' = queue /\ next_id' = next_id
    BY <1>4 DEF HostCall
  <2> QED BY <1>2, <1>3, <2>1
<1>5. CASE Len(queue) # QueueCap
  <2>1. promise_insert(next_id) /\ queue' = Append(queue, next_id) /\ next_id' = next_id + 1
    BY <1>5 DEF HostCall
  <2>2. [owner |-> eng, id |-> next_id] \in [owner : 1 .. MaxInv, id : Ids]
    <3>1. next_id >= 1 /\ next_id + fuel <= Fuel + 1 /\ fuel > 0
      BY DEF Numbered, Budget, HostCall, Shape
    <3>2. next_id \in Ids
      BY <1>2, <3>1, WorkerAssumption DEF Ids
    <3> QED BY <1>1, <3>2
  <2>3. g_promises' \in Table
    BY <1>2, <2>1, <2>2, Zenon DEF promise_insert, Table
  <2>4. queue' \in Seq(Nat) /\ next_id' \in Nat
    BY <1>2, <2>1
  <2> QED BY <1>3, <2>3, <2>4, SMTT(30)
<1> QED BY <1>4, <1>5

\* So does the dispatch of a request.
LEMMA DispatchShape ==
  ASSUME Shape, Engines, Dispatch
  PROVE  /\ g_promises' \in Table /\ jobs' \in Nat /\ crossed' \subseteq 1 .. MaxInv
         /\ batch' \in Seq(Nat) /\ dispatched' \in Seq(Nat) /\ Head(batch) \in Nat
<1>1. eng \in 1 .. MaxInv
  BY WorkerAssumption DEF Dispatch, Engines, Running, Shape
<1>2. g_promises \in Table /\ jobs \in Nat /\ crossed \subseteq 1 .. MaxInv
      /\ batch \in Seq(Nat) /\ dispatched \in Seq(Nat)
  BY DEF Shape, Table
<1>3. Head(batch) \in Nat /\ Tail(batch) \in Seq(Nat)
  BY <1>2, HeadTailProperties DEF Dispatch
<1>4. Resolve(Head(batch)) /\ dispatched' = Append(dispatched, Head(batch)) /\ batch' = Tail(batch)
  BY DEF Dispatch
<1>5. batch' \in Seq(Nat) /\ dispatched' \in Seq(Nat)
  BY <1>2, <1>3, <1>4
<1>6. CASE promise_find(Head(batch)) = {}
  <2>1. g_promises' = g_promises /\ jobs' = jobs /\ crossed' = crossed
    BY <1>4, <1>6 DEF Resolve
  <2> QED BY <1>2, <1>3, <1>5, <2>1
<1>7. CASE promise_find(Head(batch)) # {}
  <2> DEFINE m == Min(promise_find(Head(batch)))
  <2>1. /\ g_promises' = [g_promises EXCEPT ![m] = Free]
        /\ jobs' = jobs \/ jobs' = jobs + 1
        /\ crossed' = crossed \/ crossed' = crossed \cup {eng}
    BY <1>4, <1>7 DEF Resolve
  <2> HIDE DEF m
  <2>2. g_promises' \in Table
    BY <1>2, <2>1, ZenonT(30) DEF Table
  <2>3. jobs' \in Nat
    <3>1. jobs \in Nat /\ (jobs' = jobs \/ jobs' = jobs + 1)
      BY <1>2, <2>1
    <3> QED BY <3>1
  <2>4. crossed' \subseteq 1 .. MaxInv
    BY <1>1, <1>2, <2>1, Zenon
  <2> QED BY <1>3, <1>5, <2>2, <2>3, <2>4, SMTT(30)
<1> QED BY <1>6, <1>7

\* Every step keeps the types, given that JavaScript runs in an engine that is
\* left and that drive has a turn to take off.
LEMMA ShapeStep == Shape /\ Control /\ Numbered /\ Budget /\ Engines /\ [Next]_vars => Shape'
<1> SUFFICES ASSUME Shape, Control, Numbered, Budget, Engines, [Next]_vars PROVE Shape'
  OBVIOUS
<1> USE WorkerAssumption DEF Shape, Steps
<1>1. CASE Create
  BY <1>1 DEF Create, Fresh
<1>2. CASE CreateFull
  BY <1>2 DEF CreateFull, jsVars, driveVars
<1>3. CASE SetupRaises
  BY <1>3, Zenon DEF SetupRaises, Raise, jsVars, driveVars
<1>4. CASE Evaluate
  BY <1>4 DEF Evaluate, jsVars, driveVars
<1>5. CASE Evaluated
  BY <1>5 DEF Evaluated, driveVars
<1>6. CASE HostCall
  BY <1>6, HostCallShape, SMTT(30) DEF HostCall, jobFrame, driveVars
<1>7. CASE Schedule
  BY <1>7 DEF Schedule, jobFrame, driveVars
<1>8. CASE HandlerEnds
  BY <1>8 DEF HandlerEnds, jobFrame, driveVars
<1>9. CASE Interrupt
  BY <1>9 DEF Interrupt, jobFrame, driveVars
<1>10. CASE PumpJob
  BY <1>10 DEF PumpJob
<1>11. CASE JobEnds
  BY <1>11 DEF JobEnds, jsVars, driveVars
<1>12. CASE PumpEnds
  BY <1>12 DEF PumpEnds, jsVars
<1>13. CASE TakeRequests
  BY <1>13 DEF TakeRequests
<1>14. CASE Dispatch
  BY <1>14, DispatchShape DEF Dispatch
<1>15. CASE DispatchRaises
  BY <1>15, Zenon DEF DispatchRaises, Raise, jsVars, driveVars
<1>16. CASE DispatchEnds
  BY <1>16 DEF DispatchEnds, jsVars, driveVars
<1>17. CASE Completed
  BY <1>17 DEF Completed, Stringified, jsVars
<1>18. CASE NotCompleted
  BY <1>18 DEF NotCompleted, Control, Running, jsVars
<1>19. CASE Destroy
  BY <1>19, ZenonT(30) DEF Destroy, jsVars, driveVars
<1>20. CASE Restart
  BY <1>20 DEF Restart, Fresh, Table
<1>21. CASE UNCHANGED vars
  BY <1>21 DEF vars, jsVars, driveVars
<1> QED
  BY <1>1, <1>2, <1>3, <1>4, <1>5, <1>6, <1>7, <1>8, <1>9, <1>10, <1>11, <1>12, <1>13,
     <1>14, <1>15, <1>16, <1>17, <1>18, <1>19, <1>20, <1>21 DEF Next, Step

\* The Boolean variables are Boolean.
LEMMA FlagsStep == Flags /\ [Next]_vars => Flags'
<1> SUFFICES ASSUME Flags, [Next]_vars PROVE Flags'
  OBVIOUS
<1> USE DEF Flags
<1>1. CASE Create \/ Restart
  BY <1>1, Zenon DEF Create, Restart, Fresh
<1>2. CASE CreateFull \/ SetupRaises \/ Destroy \/ DispatchRaises \/ DispatchEnds
  BY <1>2 DEF CreateFull, SetupRaises, Destroy, DispatchRaises, DispatchEnds, jsVars
<1>3. CASE Evaluate \/ Evaluated \/ PumpJob \/ JobEnds \/ PumpEnds
  BY <1>3, Zenon DEF Evaluate, Evaluated, PumpJob, JobEnds, PumpEnds, jsVars
<1>4. CASE HostCall \/ Schedule \/ HandlerEnds \/ Interrupt
  BY <1>4, Zenon DEF HostCall, promise_insert, Schedule, HandlerEnds, Interrupt, jobFrame
<1>5. CASE TakeRequests \/ Dispatch \/ Completed \/ NotCompleted
  BY <1>5 DEF TakeRequests, Dispatch, Completed, NotCompleted, jsVars
<1>6. CASE UNCHANGED vars
  BY <1>6 DEF vars, jsVars
<1> QED
  BY <1>1, <1>2, <1>3, <1>4, <1>5, <1>6 DEF Next, Step

-----------------------------------------------------------------------------
(* Control *)

\* JavaScript runs only inside eval and pump, a batch is worked off before the
\* second pump, and drive ends when its last turn is taken.
LEMMA ControlStep == Shape /\ Control /\ [Next]_vars => Control'
<1> SUFFICES ASSUME Shape, Control, [Next]_vars PROVE Control'
  OBVIOUS
<1>0. turns \in 0 .. MaxTurns /\ MaxTurns >= 1 /\ MaxTurns \in Nat
  BY WorkerAssumption DEF Shape
<1> USE DEF Control, Running
<1>1. CASE Create \/ Restart
  BY <1>0, <1>1 DEF Create, Restart, Fresh
<1>2. CASE CreateFull \/ SetupRaises \/ Destroy \/ DispatchRaises
  BY <1>2 DEF CreateFull, SetupRaises, Destroy, DispatchRaises, Raise, driveVars
<1>3. CASE Evaluate \/ Evaluated \/ PumpJob \/ JobEnds \/ PumpEnds
  BY <1>3 DEF Evaluate, Evaluated, PumpJob, JobEnds, PumpEnds, driveVars
<1>4. CASE HostCall \/ Schedule \/ HandlerEnds \/ Interrupt
  BY <1>4 DEF HostCall, Schedule, HandlerEnds, Interrupt, jobFrame, driveVars
<1>5. CASE TakeRequests \/ Dispatch \/ DispatchEnds \/ Completed
  BY <1>5 DEF TakeRequests, Dispatch, DispatchEnds, Completed, driveVars
<1>6. CASE NotCompleted
  BY <1>0, <1>6 DEF NotCompleted
<1>7. CASE UNCHANGED vars
  BY <1>7 DEF vars, driveVars
<1> QED
  BY <1>1, <1>2, <1>3, <1>4, <1>5, <1>6, <1>7, SMTT(30) DEF Next, Step

-----------------------------------------------------------------------------
(* The requests are numbered through *)

\* A step that leaves the sequences and the counter leaves the numbering.
LEMMA NumberedFrame ==
  Numbered /\ UNCHANGED <<next_id, dispatched, batch, queue>> => Numbered'
  BY DEF Numbered

\* A call takes the next number.
LEMMA NumberedCall ==
  ASSUME Shape, Numbered, HostCall PROVE Numbered'
<1>1. dispatched' = dispatched /\ batch' = batch
  BY DEF HostCall, jobFrame, driveVars
<1>2. CASE Len(queue) = QueueCap
  BY <1>1, <1>2, NumberedFrame DEF HostCall
<1>3. CASE Len(queue) # QueueCap
  <2> DEFINE d == Len(dispatched)
             b == Len(batch)
             q == Len(queue)
  <2>1. queue \in Seq(Nat) /\ d \in Nat /\ b \in Nat /\ q \in Nat
    BY DEF Shape
  <2>2. next_id = d + b + q + 1 /\ \A k \in 1 .. q : queue[k] = d + b + k
    BY DEF Numbered
  <2>3. queue' = Append(queue, next_id) /\ next_id' = next_id + 1
    BY <1>3 DEF HostCall
  <2>4. Len(queue') = q + 1 /\ queue'[q + 1] = next_id
        /\ \A k \in 1 .. q : queue'[k] = queue[k]
    <3>1. next_id \in Nat
      BY DEF Shape
    <3> QED BY <2>1, <2>3, <3>1
  <2> HIDE DEF d, b, q
  <2>5. \A k \in 1 .. q + 1 : queue'[k] = d + b + k
    BY <2>1, <2>2, <2>4
  <2>6. next_id' = d + b + (q + 1) + 1
    BY <2>1, <2>2, <2>3
  <2> QED BY <1>1, <2>4, <2>5, <2>6, SMTT(30) DEF Numbered, d, b, q
<1> QED BY <1>2, <1>3

\* The drain moves the ring into the batch that was empty.
LEMMA NumberedTake ==
  ASSUME Shape, Control, Numbered, TakeRequests PROVE Numbered'
<1>1. batch = <<>>
  BY DEF TakeRequests, Control, Running
<1>2. batch' = queue /\ queue' = <<>> /\ dispatched' = dispatched /\ next_id' = next_id
  BY DEF TakeRequests
<1>3. Len(batch) = 0 /\ Len(queue') = 0 /\ Len(queue) \in Nat /\ Len(dispatched) \in Nat
  BY <1>1, <1>2 DEF Shape
<1>4. next_id = Len(dispatched) + Len(queue) + 1
      /\ \A k \in 1 .. Len(queue) : queue[k] = Len(dispatched) + k
  BY <1>3 DEF Numbered
<1> QED BY <1>2, <1>3, <1>4 DEF Numbered

\* A dispatch moves the head of the batch to the end of the history.
LEMMA NumberedDispatch ==
  ASSUME Shape, Numbered, Dispatch
  PROVE  /\ Numbered'
         /\ Head(batch) = Len(dispatched) + 1
         /\ Len(dispatched') = Len(dispatched) + 1
         /\ Len(batch') = Len(batch) - 1
<1> DEFINE d == Len(dispatched)
           b == Len(batch)
           q == Len(queue)
<1>1. queue \in Seq(Nat) /\ batch \in Seq(Nat) /\ dispatched \in Seq(Nat) /\ batch # <<>>
      /\ d \in Nat /\ b \in Nat /\ q \in Nat
  BY DEF Shape, Dispatch
<1>2. b >= 1
  BY <1>1
<1>3. Head(batch) = batch[1] /\ batch[1] \in Nat
  BY <1>1, <1>2
<1>4. next_id = d + b + q + 1
      /\ (\A k \in 1 .. d : dispatched[k] = k)
      /\ (\A k \in 1 .. b : batch[k] = d + k)
      /\ (\A k \in 1 .. q : queue[k] = d + b + k)
  BY DEF Numbered
<1>5. Head(batch) = d + 1
  BY <1>1, <1>2, <1>3, <1>4, SMTT(30)
<1>6. dispatched' = Append(dispatched, Head(batch)) /\ batch' = Tail(batch)
      /\ queue' = queue /\ next_id' = next_id
  BY DEF Dispatch
<1>7. Len(dispatched') = d + 1 /\ dispatched'[d + 1] = Head(batch)
      /\ \A k \in 1 .. d : dispatched'[k] = dispatched[k]
  BY <1>1, <1>3, <1>6
<1>8. Len(batch') = b - 1 /\ \A k \in 1 .. b - 1 : batch'[k] = batch[k + 1]
  BY <1>1, <1>6, HeadTailProperties
<1> HIDE DEF d, b, q
<1>9. \A k \in 1 .. d + 1 : dispatched'[k] = k
  <2>1. \A k \in 1 .. d + 1 : k \in 1 .. d \/ k = d + 1
    BY <1>1
  <2> QED BY <1>4, <1>5, <1>7, <2>1
<1>10. \A k \in 1 .. b - 1 : batch'[k] = d + 1 + k
  BY <1>1, <1>4, <1>8
<1>11. \A k \in 1 .. q : queue'[k] = d + 1 + (b - 1) + k
  BY <1>1, <1>4, <1>6, SMTT(30)
<1>12. next_id' = d + 1 + (b - 1) + q + 1
  BY <1>1, <1>4, <1>6, SMTT(30)
<1> QED BY <1>5, <1>6, <1>7, <1>8, <1>9, <1>10, <1>11, <1>12, Zenon DEF Numbered, d, b, q

\* Every step keeps the numbering.
LEMMA NumberedStep == Shape /\ Control /\ Numbered /\ [Next]_vars => Numbered'
<1> SUFFICES ASSUME Shape, Control, Numbered, [Next]_vars PROVE Numbered'
  OBVIOUS
<1>1. CASE Create \/ Restart
  BY <1>1, SMTT(30) DEF Create, Restart, Fresh, Numbered
<1>2. CASE CreateFull \/ SetupRaises \/ Destroy \/ DispatchRaises \/ DispatchEnds
  BY <1>2, NumberedFrame, SMTT(30)
  DEF CreateFull, SetupRaises, Destroy, DispatchRaises, DispatchEnds, jsVars, driveVars
<1>3. CASE Evaluate \/ Evaluated \/ PumpJob \/ JobEnds \/ PumpEnds
  BY <1>3, NumberedFrame, SMTT(30)
  DEF Evaluate, Evaluated, PumpJob, JobEnds, PumpEnds, jsVars, driveVars
<1>4. CASE Schedule \/ HandlerEnds \/ Interrupt
  BY <1>4, NumberedFrame, SMTT(30) DEF Schedule, HandlerEnds, Interrupt, jobFrame, driveVars
<1>5. CASE Completed \/ NotCompleted \/ UNCHANGED vars
  BY <1>5, NumberedFrame DEF Completed, NotCompleted, vars, jsVars, driveVars
<1>6. CASE HostCall
  BY <1>6, NumberedCall
<1>7. CASE TakeRequests
  BY <1>7, NumberedTake
<1>8. CASE Dispatch
  BY <1>8, NumberedDispatch
<1> QED
  BY <1>1, <1>2, <1>3, <1>4, <1>5, <1>6, <1>7, <1>8 DEF Next, Step

-----------------------------------------------------------------------------
(* What a function does is paid for *)

\* The extra job is that of the call, which eval leaves behind.
LEMMA Extras ==
  /\ Extra \in {0, 1}
  /\ pc \notin {"setup", "eval"} => Extra = 1
  /\ pc \in {"setup", "eval"} => Extra = 0
  BY DEF Extra

\* A step that leaves the queues and the fuel, adds no job and does not go back
\* to eval keeps the budget.
LEMMA BudgetFrame ==
  ASSUME Shape, Budget, UNCHANGED <<next_id, batch, queue, fuel>>, jobs' \in Nat, jobs' <= jobs,
         pc' \in {"setup", "eval"} => pc \in {"setup", "eval"}
  PROVE  Budget'
<1>1. Extra <= Extra' /\ Extra \in Nat /\ Extra' \in Nat
  BY DEF Extra
<1>2. jobs \in Nat /\ fuel \in Nat /\ Len(queue) \in Nat /\ Len(batch) \in Nat /\ Fuel \in Nat
  BY WorkerAssumption DEF Shape
<1>3. jobs + Len(queue) + Len(batch) + fuel <= Fuel + Extra
  BY DEF Budget
<1>4. \A a, b, c, d, e, k, x, y \in Nat :
        a + b + c + d <= e + x /\ x <= y /\ k <= a => k + b + c + d <= e + y
  OBVIOUS
<1>5. jobs' + Len(queue) + Len(batch) + fuel <= Fuel + Extra'
  BY <1>1, <1>2, <1>3, <1>4, Zenon
<1> QED BY <1>5 DEF Budget

\* A call is paid for by one unit.
LEMMA BudgetCall ==
  ASSUME Shape, Budget, HostCall PROVE Budget'
<1>1. /\ jobs \in Nat /\ fuel \in Nat /\ fuel' = fuel - 1 /\ fuel > 0 /\ Fuel \in Nat
      /\ Len(queue) \in Nat /\ Len(batch) \in Nat /\ next_id \in Nat /\ QueueCap \in Nat
  BY WorkerAssumption DEF Shape, HostCall
<1>2. Extra' = Extra /\ Extra \in Nat /\ batch' = batch /\ jobs' = jobs
  BY DEF HostCall, jobFrame, driveVars, Extra
<1>3. Len(queue') <= Len(queue) + 1 /\ Len(queue') <= QueueCap /\ Len(queue') \in Nat
      /\ next_id' <= next_id + 1 /\ next_id' \in Nat
  <2>1. CASE Len(queue) = QueueCap
    BY <1>1, <2>1 DEF HostCall
  <2>2. CASE Len(queue) # QueueCap
    <3>1. queue' = Append(queue, next_id) /\ next_id' = next_id + 1
      BY <2>2 DEF HostCall
    <3>2. Len(queue') = Len(queue) + 1
      BY <3>1 DEF Shape
    <3>3. Len(queue) <= QueueCap
      BY DEF Budget
    <3> QED BY <1>1, <2>2, <3>1, <3>2, <3>3, SMTT(30)
  <2> QED BY <2>1, <2>2
<1>4. /\ next_id + fuel <= Fuel + 1 /\ Len(batch) <= QueueCap
      /\ jobs + Len(queue) + Len(batch) + fuel <= Fuel + Extra
  BY DEF Budget
<1>5. next_id' + fuel' <= Fuel + 1
  <2>1. \A n, m, f, g \in Int : m <= n + 1 /\ n + f <= g => m + (f - 1) <= g
    OBVIOUS
  <2>2. next_id \in Int /\ next_id' \in Int /\ fuel \in Int /\ Fuel + 1 \in Int
    BY <1>1, <1>3
  <2>3. next_id' <= next_id + 1 /\ next_id + fuel <= Fuel + 1
    BY <1>3, <1>4, Zenon
  <2>4. next_id' + (fuel - 1) <= Fuel + 1
    BY <2>1, <2>2, <2>3, Zenon
  <2>5. fuel' = fuel - 1
    BY <1>1, Zenon
  <2> QED BY <2>4, <2>5, Zenon
<1>6. jobs' + Len(queue') + Len(batch') + fuel' <= Fuel + Extra'
  BY <1>1, <1>2, <1>3, <1>4, SMTT(30)
<1> QED BY <1>2, <1>3, <1>4, <1>5, <1>6 DEF Budget

\* So is a job that the code schedules; the job of the call is the extra one.
LEMMA BudgetJob ==
  ASSUME Shape, Budget, Schedule \/ Evaluated PROVE Budget'
<1>1. /\ jobs \in Nat /\ fuel \in Nat /\ Fuel \in Nat /\ next_id \in Nat
      /\ Len(queue) \in Nat /\ Len(batch) \in Nat
  BY WorkerAssumption DEF Shape
<1>2. /\ next_id + fuel <= Fuel + 1
      /\ jobs + Len(queue) + Len(batch) + fuel <= Fuel + Extra
      /\ Len(queue) <= QueueCap /\ Len(batch) <= QueueCap
  BY DEF Budget
<1>3. queue' = queue /\ batch' = batch /\ next_id' = next_id
  BY DEF Schedule, Evaluated, jobFrame, driveVars
<1>4. CASE Schedule
  <2>1. fuel' = fuel - 1 /\ jobs' = jobs + 1 /\ Extra' = Extra /\ Extra \in Nat
    BY <1>4 DEF Schedule, jobFrame, Extra
  <2>2. next_id' + fuel' <= Fuel + 1
    BY <1>1, <1>2, <1>3, <2>1, SMTT(30)
  <2>3. jobs' + Len(queue') + Len(batch') + fuel' <= Fuel + Extra'
    BY <1>1, <1>2, <1>3, <2>1
  <2> QED BY <1>2, <1>3, <2>2, <2>3, SMTT(30) DEF Budget
<1>5. CASE Evaluated
  <2>1. fuel' = fuel /\ (jobs' = jobs + 1 \/ jobs' = jobs) /\ Extra' = 1 /\ Extra = 0
    BY <1>5 DEF Evaluated, Extra
  <2>2. jobs' + Len(queue') + Len(batch') + fuel' <= Fuel + Extra'
    BY <1>1, <1>2, <1>3, <2>1, SMTT(30)
  <2> QED BY <1>2, <1>3, <2>1, <2>2, SMTT(30) DEF Budget
<1> QED BY <1>4, <1>5

\* Taking the batch moves requests; answering one trades it for at most one job.
LEMMA BudgetBatch ==
  ASSUME Shape, Control, Numbered, Budget, TakeRequests \/ Dispatch PROVE Budget'
<1>1. /\ jobs \in Nat /\ fuel \in Nat /\ Fuel \in Nat /\ next_id \in Nat
      /\ Len(queue) \in Nat /\ Len(batch) \in Nat /\ QueueCap \in Nat
  BY WorkerAssumption DEF Shape
<1>2. /\ next_id + fuel <= Fuel + 1
      /\ jobs + Len(queue) + Len(batch) + fuel <= Fuel + Extra
      /\ Len(queue) <= QueueCap /\ Len(batch) <= QueueCap
  BY DEF Budget
<1>3. next_id' = next_id /\ fuel' = fuel
  BY DEF TakeRequests, Dispatch
<1>4. CASE TakeRequests
  <2>1. batch = <<>> /\ batch' = queue /\ queue' = <<>> /\ jobs' = jobs
    BY <1>4 DEF TakeRequests, Control, Running
  <2>2. Len(batch) = 0 /\ Len(queue') = 0 /\ Len(batch') = Len(queue)
    BY <2>1
  <2>3. Extra' = Extra /\ Extra \in Nat
    BY <1>4 DEF TakeRequests, Extra
  <2>4. jobs' + Len(queue') + Len(batch') + fuel' <= Fuel + Extra'
    BY <1>1, <1>2, <1>3, <2>1, <2>2, <2>3, SMTT(30)
  <2> QED BY <1>1, <1>2, <1>3, <2>2, <2>4 DEF Budget
<1>5. CASE Dispatch
  <2>1. queue' = queue /\ Len(batch') = Len(batch) - 1 /\ Extra' = Extra /\ Extra \in Nat
    BY <1>5, NumberedDispatch, SMTT(30) DEF Dispatch, Extra
  <2>2. jobs' = jobs \/ jobs' = jobs + 1
    BY <1>5 DEF Dispatch, Resolve
  <2>3. jobs' + Len(queue') + Len(batch') + fuel' <= Fuel + Extra'
    BY <1>1, <1>2, <1>3, <2>1, <2>2
  <2>4. Len(batch') <= QueueCap
    BY <1>1, <1>2, <2>1, SMTT(30)
  <2> QED BY <1>2, <1>3, <2>1, <2>3, <2>4 DEF Budget
<1> QED BY <1>4, <1>5

\* Every step keeps the budget.
LEMMA BudgetStep == Shape /\ Control /\ Numbered /\ Budget /\ [Next]_vars => Budget'
<1> SUFFICES ASSUME Shape, Control, Numbered, Budget, [Next]_vars PROVE Budget'
  OBVIOUS
<1>0. jobs \in Nat /\ jobs <= jobs
  BY DEF Shape
<1>1. CASE Create \/ Restart
  BY <1>1, WorkerAssumption, SMTT(30) DEF Create, Restart, Fresh, Budget, Extra
<1>2. CASE CreateFull \/ SetupRaises \/ Destroy \/ DispatchRaises \/ DispatchEnds
  BY <1>0, <1>2, BudgetFrame, SMTT(30)
  DEF CreateFull, SetupRaises, Destroy, DispatchRaises, DispatchEnds, Raise, jsVars, driveVars
<1>3. CASE Evaluate \/ JobEnds \/ PumpEnds
  BY <1>0, <1>3, BudgetFrame DEF Evaluate, JobEnds, PumpEnds, jsVars, driveVars
<1>4. CASE PumpJob
  <2>1. jobs' \in Nat /\ jobs' <= jobs
    BY <1>0, <1>4, SMTT(30) DEF PumpJob
  <2> QED BY <1>4, <2>1, BudgetFrame DEF PumpJob
<1>5. CASE HandlerEnds \/ Interrupt
  BY <1>0, <1>5, BudgetFrame, SMTT(30) DEF HandlerEnds, Interrupt, jobFrame, driveVars
<1>6. CASE Completed \/ NotCompleted \/ UNCHANGED vars
  BY <1>0, <1>6, BudgetFrame DEF Completed, NotCompleted, vars, jsVars, driveVars
<1>7. CASE HostCall
  BY <1>7, BudgetCall
<1>8. CASE Schedule \/ Evaluated
  BY <1>8, BudgetJob
<1>9. CASE TakeRequests \/ Dispatch
  BY <1>9, BudgetBatch
<1> QED
  BY <1>1, <1>2, <1>3, <1>4, <1>5, <1>6, <1>7, <1>8, <1>9 DEF Next, Step

-----------------------------------------------------------------------------
(* The engines that are left *)

\* The engines that are left are finitely many.
LEMMA LiveFinite == Shape => IsFiniteSet(live) /\ Cardinality(live) \in Nat
<1> SUFFICES ASSUME Shape PROVE IsFiniteSet(live)
  BY FS_CardinalityType
<1>1. IsFiniteSet(1 .. eng)
  BY FS_Interval DEF Shape
<1> QED BY <1>1, FS_Subset, Zenon DEF Shape

\* A step that leaves the engines and their outcomes keeps Engines.
LEMMA EnginesFrame ==
  ASSUME Engines, UNCHANGED <<eng, live, outcome, crossed>>, Running, Running'
  PROVE  Engines'
  BY DEF Engines, Running

\* run_one starts: its engine is new, and the table has room for it.
LEMMA EnginesCreate ==
  ASSUME Shape, Engines, Create PROVE Engines'
<1> USE WorkerAssumption DEF Shape
<1>1. /\ pc = "idle" /\ eng < MaxInv /\ pc' = "setup" /\ eng' = eng + 1
      /\ live' = live \cup {eng + 1} /\ outcome' = outcome /\ crossed' = crossed
      /\ Cardinality(live) < TableCap
  BY DEF Create
<1>2. Cardinality(live') <= TableCap
  <2>1. Cardinality(live') = IF eng + 1 \in live THEN Cardinality(live) ELSE Cardinality(live) + 1
    BY <1>1, LiveFinite, FS_AddElement, ZenonT(30)
  <2> QED BY <1>1, <2>1, LiveFinite, SMTT(30)
<1>3. eng' \in live' /\ outcome'[eng'] = "none"
  BY <1>1 DEF Engines
<1>4. \A e \in live' : e # eng' => outcome'[e] = "raised"
  BY <1>1 DEF Engines
<1>5. \A e \in 1 .. MaxInv : e > eng' => outcome'[e] = "none"
  BY <1>1 DEF Engines
<1>6. crossed' # {} => \E e \in 1 .. eng' : outcome'[e] = "raised"
  <2>1. 1 .. eng \subseteq 1 .. eng'
    BY <1>1
  <2> QED BY <1>1, <2>1 DEF Engines
<1> QED BY <1>1, <1>2, <1>3, <1>4, <1>5, <1>6, SMTT(30) DEF Engines, Running

\* run_one ends with one outcome: the engine is left only when it raises.
LEMMA EnginesEnd ==
  ASSUME Shape, Engines, Running, eng' = eng, crossed' = crossed,
         NEW o, outcome' = [outcome EXCEPT ![eng] = o],
         \/ live' = live /\ o = "raised" /\ pc' = "idle"
         \/ live' = live /\ pc' = "down"
         \/ live' = live \ {eng} /\ pc' = "idle"
  PROVE  Engines'
<1>1. eng \in 1 .. MaxInv /\ outcome[eng] = "none" /\ DOMAIN outcome = 1 .. MaxInv
      /\ live \subseteq 1 .. MaxInv /\ 1 .. eng \subseteq 1 .. MaxInv
  BY WorkerAssumption DEF Shape, Engines
<1>2. outcome'[eng] = o /\ \A e \in 1 .. MaxInv : e # eng => outcome'[e] = outcome[e]
  BY <1>1
<1>3. Cardinality(live') <= TableCap
  <2>1. CASE live' = live
    BY <2>1 DEF Engines
  <2>2. CASE live' = live \ {eng}
    <3>1. Cardinality(live') = Cardinality(live) - 1
      BY <2>2, LiveFinite, FS_RemoveElement, SMTT(30) DEF Engines
    <3> QED BY <3>1, LiveFinite, WorkerAssumption, SMTT(30) DEF Engines
  <2> QED BY <2>1, <2>2
<1>4. \A e \in live' : e # eng' \/ pc' = "idle" => outcome'[e] = "raised"
  BY <1>1, <1>2, ZenonT(30) DEF Engines
<1>5. \A e \in 1 .. MaxInv : e > eng' => outcome'[e] = "none"
  BY <1>1, <1>2 DEF Engines
<1>6. crossed' # {} => \E e \in 1 .. eng' : outcome'[e] = "raised"
  BY <1>1, <1>2 DEF Engines
<1> QED BY <1>3, <1>4, <1>5, <1>6, SMTT(30) DEF Engines, Running

\* A promise of another engine is that of an engine that raised.
LEMMA EnginesDispatch ==
  ASSUME Shape, Engines, Owned, Dispatch PROVE Engines'
<1>1. UNCHANGED <<pc, eng, live, outcome>> /\ Running
  BY DEF Dispatch, Running
<1>2. CASE crossed' = crossed
  BY <1>1, <1>2, EnginesFrame, SMTT(30) DEF Running
<1>3. CASE crossed' # crossed
  <2> DEFINE i == Head(batch)
             m == Min(promise_find(i))
  <2>1. /\ promise_find(i) # {}
        /\ g_promises' = [g_promises EXCEPT ![m] = Free]
        /\ g_promises[m].owner # eng
    BY <1>3 DEF Dispatch, Resolve
  <2>2. i \in Nat
    BY DispatchShape
  <2>3. m \in InUse
    BY <2>1, <2>2, Settle, Zenon DEF Settled
  <2> HIDE DEF m
  <2>4. g_promises[m].owner \in live /\ outcome[g_promises[m].owner] = "raised"
    BY <2>1, <2>3 DEF Owned, Engines
  <2>5. \E e \in 1 .. eng : outcome[e] = "raised"
    BY <2>4, ZenonT(30) DEF Shape
  <2> QED BY <1>1, <2>5 DEF Engines, Running
<1> QED BY <1>2, <1>3

\* Every step keeps the engines in order.
LEMMA EnginesStep ==
  Shape /\ Control /\ Engines /\ Owned /\ [Next]_vars => Engines'
<1> SUFFICES ASSUME Shape, Control, Engines, Owned, [Next]_vars PROVE Engines'
  OBVIOUS
<1>1. CASE Create
  BY <1>1, EnginesCreate
<1>2. CASE CreateFull
  <2>1. /\ pc = "idle" /\ eng < MaxInv /\ pc' = pc /\ eng' = eng + 1 /\ eng \in Nat
        /\ live' = live /\ outcome' = [outcome EXCEPT ![eng + 1] = "error"]
        /\ crossed' = crossed /\ live \subseteq 1 .. eng /\ DOMAIN outcome = 1 .. MaxInv
        /\ MaxInv \in Nat
    BY <1>2, WorkerAssumption DEF CreateFull, Shape
  <2>2. \A e \in 1 .. MaxInv : e # eng + 1 => outcome'[e] = outcome[e]
    BY <2>1
  <2>3. \A e \in 1 .. eng : e \in 1 .. MaxInv /\ e # eng + 1 /\ e \in 1 .. eng'
    BY <2>1
  <2>4. \A e \in live : outcome'[e] = "raised"
    BY <2>1, <2>2, <2>3, SMTT(30) DEF Engines
  <2>5. \A e \in 1 .. MaxInv : e > eng' => outcome'[e] = "none"
    <3>1. \A e \in 1 .. MaxInv : e > eng' => e > eng /\ e # eng + 1
      BY <2>1
    <3> QED BY <2>2, <3>1 DEF Engines
  <2>6. crossed' # {} => \E e \in 1 .. eng' : outcome'[e] = "raised"
    BY <2>1, <2>2, <2>3, SMTT(30) DEF Engines
  <2> QED BY <2>1, <2>4, <2>5, <2>6 DEF Engines, Running
<1>3. CASE SetupRaises \/ DispatchRaises
  <2>1. /\ Running /\ eng' = eng /\ crossed' = crossed /\ live' = live /\ pc' = "idle"
        /\ outcome' = [outcome EXCEPT ![eng] = "raised"]
    BY <1>3 DEF SetupRaises, DispatchRaises, Raise, Running
  <2> QED BY <2>1, EnginesEnd, ZenonT(30)
<1>4. CASE Destroy
  <2>1. /\ Running /\ eng' = eng /\ crossed' = crossed
        /\ \/ /\ live' = live /\ pc' = "down"
              /\ outcome' = [outcome EXCEPT ![eng] = "aborted"]
           \/ /\ live' = live \ {eng} /\ pc' = "idle"
              /\ outcome' = [outcome EXCEPT ![eng] = completion]
    BY <1>4 DEF Destroy, Running
  <2> QED BY <2>1, EnginesEnd
<1>5. CASE Restart
  <2>1. /\ pc' = "idle" /\ live' = {} /\ UNCHANGED <<eng, outcome, crossed>>
    BY <1>5, SMTT(30) DEF Restart
  <2> QED BY <2>1, FS_EmptySet, WorkerAssumption, SMTT(30) DEF Engines, Running
<1>6. CASE Evaluate \/ Evaluated \/ PumpJob \/ JobEnds \/ PumpEnds
  BY <1>6, EnginesFrame DEF Evaluate, Evaluated, PumpJob, JobEnds, PumpEnds, Running
<1>7. CASE HostCall \/ Schedule \/ HandlerEnds \/ Interrupt
  <2>1. Running /\ UNCHANGED <<pc, eng, live, outcome, crossed>>
    BY <1>7 DEF HostCall, Schedule, HandlerEnds, Interrupt, jobFrame, Control, Running
  <2> QED BY <2>1, EnginesFrame, SMTT(30) DEF Running
<1>8. CASE TakeRequests \/ DispatchEnds \/ Completed \/ NotCompleted
  BY <1>8, EnginesFrame DEF TakeRequests, DispatchEnds, Completed, NotCompleted, Running
<1>9. CASE Dispatch
  BY <1>9, EnginesDispatch, SMTT(30)
<1>10. CASE UNCHANGED vars
  BY <1>10 DEF vars, Engines, Running
<1> QED
  BY <1>1, <1>2, <1>3, <1>4, <1>5, <1>6, <1>7, <1>8, <1>9, <1>10 DEF Next, Step

-----------------------------------------------------------------------------
(* The slots and their owners *)

\* While JavaScript runs, its engine is one of those that are left.
LEMMA JobEngine == Control /\ Engines /\ job => eng \in live /\ Running
  BY DEF Control, Engines, Running

\* What a host call does to the slots.
LEMMA HostCallSlots ==
  ASSUME Shape, Control, Engines, HostCall
  PROVE  \/ UNCHANGED <<g_promises, next_id, orphan>>
         \/ UNCHANGED g_promises /\ next_id' = next_id + 1 /\ orphan'
         \/ next_id' = next_id + 1 /\ orphan' = orphan /\ \E m \in Slot : Inserted(m, next_id)
<1>1. eng \in live /\ next_id \in Nat
  BY JobEngine DEF HostCall, Shape
<1>2. CASE Len(queue) = QueueCap
  BY <1>2 DEF HostCall
<1>3. CASE Len(queue) # QueueCap
  <2>1. promise_insert(next_id) /\ next_id' = next_id + 1
    BY <1>3 DEF HostCall
  <2>2. CASE InUse = Slot
    BY <2>1, <2>2 DEF promise_insert
  <2>3. CASE InUse # Slot
    <3>1. /\ orphan' = orphan
          /\ g_promises' = [g_promises EXCEPT ![Min(Slot \ InUse)] =
                             [owner |-> eng, id |-> next_id]]
      BY <2>1, <2>3 DEF promise_insert
    <3> QED BY <1>1, <2>1, <2>3, <3>1, Insert, Zenon
  <2> QED BY <2>2, <2>3
<1> QED BY <1>2, <1>3

\* What a dispatch does to them.
LEMMA DispatchSlots ==
  ASSUME Shape, Engines, Dispatch
  PROVE  \/ UNCHANGED g_promises /\ \A s \in InUse : g_promises[s].id # Head(batch)
         \/ \E m \in InUse : Settled(m, Head(batch))
<1>1. Head(batch) \in Nat /\ Resolve(Head(batch))
  BY DispatchShape DEF Dispatch
<1>2. CASE promise_find(Head(batch)) = {}
  BY <1>1, <1>2, SMTT(30) DEF Resolve, promise_find
<1>3. CASE promise_find(Head(batch)) # {}
  <2>1. g_promises' = [g_promises EXCEPT ![Min(promise_find(Head(batch)))] = Free]
    BY <1>1, <1>3 DEF Resolve
  <2>2. Settled(Min(promise_find(Head(batch))), Head(batch))
    BY <1>1, <1>3, <2>1, Settle, ZenonT(30)
  <2> QED BY <2>2 DEF Settled
<1> QED BY <1>2, <1>3

\* Every step keeps the owners of the slots among the engines that are left.
LEMMA OwnedStep == Shape /\ Control /\ Engines /\ Owned /\ [Next]_vars => Owned'
<1> SUFFICES ASSUME Shape, Control, Engines, Owned, [Next]_vars PROVE Owned'
  OBVIOUS
<1>0. ASSUME UNCHANGED g_promises, live \subseteq live' PROVE Owned'
  BY <1>0 DEF Owned, InUse
<1>1. CASE Create \/ CreateFull \/ SetupRaises \/ DispatchRaises \/ DispatchEnds
  BY <1>0, <1>1, SMTT(30) DEF Create, CreateFull, SetupRaises, DispatchRaises, DispatchEnds
<1>2. CASE Evaluate \/ Evaluated \/ PumpJob \/ JobEnds \/ PumpEnds
  BY <1>0, <1>2, SMTT(30) DEF Evaluate, Evaluated, PumpJob, JobEnds, PumpEnds
<1>3. CASE Schedule \/ HandlerEnds \/ Interrupt
  BY <1>0, <1>3, SMTT(30) DEF Schedule, HandlerEnds, Interrupt, jobFrame
<1>4. CASE TakeRequests \/ Completed \/ NotCompleted \/ UNCHANGED vars
  BY <1>0, <1>4 DEF TakeRequests, Completed, NotCompleted, vars
<1>5. CASE HostCall
  <2>1. eng \in live /\ live' = live
    BY <1>5, JobEngine DEF HostCall, jobFrame
  <2>2. CASE UNCHANGED g_promises
    BY <1>0, <2>1, <2>2, SMTT(30)
  <2>3. CASE \E m \in Slot : Inserted(m, next_id)
    <3>1. PICK m \in Slot : Inserted(m, next_id)
      BY <2>3
    <3> QED BY <2>1, <3>1 DEF Inserted, Owned
  <2> QED BY <1>5, <2>2, <2>3, HostCallSlots, SMTT(30)
<1>6. CASE Dispatch
  <2>1. live' = live
    BY <1>6 DEF Dispatch
  <2>2. CASE UNCHANGED g_promises
    BY <1>0, <2>1, <2>2, SMTT(30)
  <2>3. CASE \E m \in InUse : Settled(m, Head(batch))
    <3>1. PICK m \in InUse : Settled(m, Head(batch))
      BY <2>3
    <3> QED BY <2>1, <3>1 DEF Settled, Owned
  <2> QED BY <1>6, <2>2, <2>3, DispatchSlots, SMTT(30)
<1>7. CASE Destroy
  <2>1. g_promises' = g_promises
    BY <1>7 DEF Destroy
  <2>2. CASE Retained
    BY <1>0, <1>7, <2>1, <2>2, SMTT(30) DEF Destroy
  <2>3. CASE ~Retained
    <3>1. live' = live \ {eng} /\ \A s \in InUse : g_promises[s].owner # eng
      BY <1>7, <2>3 DEF Destroy, Retained, SlotsOf
    <3> QED BY <2>1, <3>1 DEF Owned, InUse
  <2> QED BY <2>2, <2>3
<1>8. CASE Restart
  BY <1>8 DEF Restart, Owned, InUse
<1> QED
  BY <1>1, <1>2, <1>3, <1>4, <1>5, <1>6, <1>7, <1>8 DEF Next, Step

-----------------------------------------------------------------------------
(* The slots and the requests *)

\* A step of an invocation that leaves slots and requests keeps them matched.
LEMMA MatchedFrame ==
  ASSUME Matched, Running' => Running,
         UNCHANGED <<eng, live, g_promises, dispatched, next_id, orphan>>
  PROVE  Matched'
  BY DEF Matched, InUse

\* When an engine is the only one that is left, it starts with an empty table.
LEMMA MatchedCreate ==
  ASSUME Shape, Owned, Create PROVE Matched'
<1> SUFFICES ASSUME live' = {eng'} PROVE Matched'
  BY DEF Matched
<1>1. eng' = eng + 1 /\ live' = live \cup {eng + 1} /\ g_promises' = g_promises
      /\ dispatched' = <<>> /\ next_id' = 1
  BY DEF Create, Fresh
<1>2. live = {}
  BY <1>1 DEF Shape
<1>3. InUse' = {}
  BY <1>1, <1>2 DEF Owned, InUse
<1>4. Len(dispatched') + 1 .. next_id' - 1 = {}
  BY <1>1
<1> QED BY <1>3, <1>4, SMTT(30) DEF Matched

\* A call adds the newest request, with its slot unless the promise is lost.
LEMMA MatchedCall ==
  ASSUME Shape, Control, Engines, Numbered, Matched, HostCall PROVE Matched'
<1> SUFFICES ASSUME live' = {eng'} PROVE Matched'
  BY DEF Matched
<1> DEFINE d == Len(dispatched)
<1>1. UNCHANGED <<pc, eng, live, dispatched>> /\ Running
  BY JobEngine DEF HostCall, jobFrame, driveVars
<1>2. /\ \A s, t \in InUse : g_promises[s].id = g_promises[t].id => s = t
      /\ \A s \in InUse : d < g_promises[s].id /\ g_promises[s].id < next_id
      /\ ~orphan => \A i \in d + 1 .. next_id - 1 : \E s \in InUse : g_promises[s].id = i
  BY <1>1 DEF Matched
<1>3. next_id \in Nat /\ d \in Nat /\ \A s \in InUse : g_promises[s].id \in Nat
  BY WorkerAssumption DEF Shape, Table, Ids, InUse
<1>4. CASE UNCHANGED <<g_promises, next_id, orphan>>
  BY <1>1, <1>4, MatchedFrame, SMTT(30) DEF Running
<1>5. CASE UNCHANGED g_promises /\ next_id' = next_id + 1 /\ orphan'
  <2>1. InUse' = InUse
    BY <1>5 DEF InUse
  <2>2. \A s \in InUse : g_promises[s].id < next_id + 1
    BY <1>2, <1>3, SMTT(30)
  <2> QED BY <1>1, <1>2, <1>5, <2>1, <2>2 DEF Matched
<1>6. CASE next_id' = next_id + 1 /\ orphan' = orphan /\ \E m \in Slot : Inserted(m, next_id)
  <2>1. PICK m \in Slot : Inserted(m, next_id)
    BY <1>6
  <2>2. m \notin InUse /\ InUse' = InUse \cup {m} /\ g_promises'[m].id = next_id
        /\ \A s \in InUse : g_promises'[s].id = g_promises[s].id
    BY <2>1 DEF Inserted
  <2>3. d < next_id
    BY <1>3 DEF Numbered, Shape
  <2>4. \A s, t \in InUse' : g_promises'[s].id = g_promises'[t].id => s = t
    BY <1>2, <1>3, <2>2, SMTT(30)
  <2>5. \A s \in InUse' : d < g_promises'[s].id /\ g_promises'[s].id < next_id'
    BY <1>2, <1>3, <1>6, <2>2, <2>3
  <2>6. ~orphan' => \A i \in d + 1 .. next_id' - 1 : \E s \in InUse' : g_promises'[s].id = i
    <3>1. \A i \in d + 1 .. next_id' - 1 : i \in d + 1 .. next_id - 1 \/ i = next_id
      BY <1>3, <1>6
    <3> QED BY <1>2, <1>6, <2>2, <3>1, SMTT(30)
  <2> QED BY <1>1, <2>4, <2>5, <2>6 DEF Matched
<1> QED BY <1>4, <1>5, <1>6, HostCallSlots, SMTT(30)

\* A dispatch takes the oldest request, and its slot when it has one.
LEMMA MatchedDispatch ==
  ASSUME Shape, Engines, Numbered, Matched, Dispatch PROVE Matched'
<1> SUFFICES ASSUME live' = {eng'} PROVE Matched'
  BY DEF Matched
<1> DEFINE d == Len(dispatched)
<1>1. UNCHANGED <<pc, eng, live, next_id, orphan>> /\ Running
  BY DEF Dispatch, Running
<1>2. /\ \A s, t \in InUse : g_promises[s].id = g_promises[t].id => s = t
      /\ \A s \in InUse : d < g_promises[s].id /\ g_promises[s].id < next_id
      /\ ~orphan => \A i \in d + 1 .. next_id - 1 : \E s \in InUse : g_promises[s].id = i
  BY <1>1 DEF Matched
<1>3. next_id \in Nat /\ d \in Nat /\ \A s \in InUse : g_promises[s].id \in Nat
  BY WorkerAssumption DEF Shape, Table, Ids, InUse
<1>4. Len(dispatched') = d + 1 /\ Head(batch) = d + 1
  BY NumberedDispatch
<1>5. \A i \in (d + 1) + 1 .. next_id - 1 : i \in d + 1 .. next_id - 1 /\ i # d + 1
  BY <1>3, SMTT(30)
<1>6. CASE UNCHANGED g_promises /\ \A s \in InUse : g_promises[s].id # Head(batch)
  <2>1. InUse' = InUse
    BY <1>6 DEF InUse
  <2>2. \A s \in InUse : d + 1 < g_promises[s].id
    BY <1>2, <1>3, <1>4, <1>6, SMTT(30)
  <2> QED BY <1>1, <1>2, <1>4, <1>5, <1>6, <2>1, <2>2, SMTT(30) DEF Matched
<1>7. CASE \E m \in InUse : Settled(m, Head(batch))
  <2>1. PICK m \in InUse : Settled(m, Head(batch))
    BY <1>7
  <2>2. g_promises[m].id = d + 1 /\ InUse' = InUse \ {m}
        /\ \A s \in InUse \ {m} : g_promises'[s].id = g_promises[s].id
    BY <1>4, <2>1, SMTT(30) DEF Settled
  <2>3. \A s \in InUse \ {m} : g_promises[s].id # d + 1
    BY <1>2, <2>2, SMTT(30)
  <2>4. \A s \in InUse' : d + 1 < g_promises'[s].id /\ g_promises'[s].id < next_id
    BY <1>2, <1>3, <2>2, <2>3, SMTT(30)
  <2>5. ~orphan => \A i \in (d + 1) + 1 .. next_id - 1 : \E s \in InUse' : g_promises'[s].id = i
    BY <1>2, <1>5, <2>2, SMTT(30)
  <2>6. \A s, t \in InUse' : g_promises'[s].id = g_promises'[t].id => s = t
    BY <1>2, <2>2
  <2> QED BY <1>1, <1>4, <2>4, <2>5, <2>6 DEF Matched
<1> QED BY <1>6, <1>7, DispatchSlots

\* Every step keeps slots and requests matched.
LEMMA MatchedStep == IInv /\ [Next]_vars => Matched'
<1> SUFFICES ASSUME IInv, [Next]_vars PROVE Matched'
  OBVIOUS
<1>0. Shape /\ Control /\ Engines /\ Numbered /\ Owned /\ Matched
  BY DEF IInv
<1>1. CASE CreateFull \/ SetupRaises \/ DispatchRaises \/ Destroy \/ Restart
  BY <1>1, SMTT(30)
  DEF CreateFull, SetupRaises, DispatchRaises, Raise, Destroy, Restart, Matched, Running
<1>2. CASE Evaluate \/ Evaluated \/ PumpJob \/ JobEnds \/ PumpEnds
  <2>1. UNCHANGED <<eng, live, g_promises, dispatched, next_id, orphan>>
    BY <1>2 DEF Evaluate, Evaluated, PumpJob, JobEnds, PumpEnds, jsVars, driveVars
  <2>2. Running
    BY <1>2 DEF Evaluate, Evaluated, PumpJob, JobEnds, PumpEnds, Running
  <2> QED BY <1>0, <2>1, <2>2, MatchedFrame
<1>3. CASE Schedule \/ HandlerEnds \/ Interrupt
  <2>1. UNCHANGED <<pc, eng, live, g_promises, dispatched, next_id, orphan>>
    BY <1>3 DEF Schedule, HandlerEnds, Interrupt, jobFrame, driveVars
  <2>2. Running' => Running
    BY <2>1 DEF Running
  <2> QED BY <1>0, <2>1, <2>2, MatchedFrame
<1>4. CASE TakeRequests \/ Completed \/ NotCompleted \/ DispatchEnds \/ UNCHANGED vars
  <2>1. UNCHANGED <<eng, live, g_promises, dispatched, next_id, orphan>>
    BY <1>4 DEF TakeRequests, Completed, NotCompleted, DispatchEnds, vars, jsVars, driveVars
  <2>2. Running' => Running
    BY <1>4 DEF TakeRequests, Completed, NotCompleted, DispatchEnds, vars, Running
  <2> QED BY <1>0, <2>1, <2>2, MatchedFrame
<1>5. CASE Create
  BY <1>0, <1>5, MatchedCreate
<1>6. CASE HostCall
  BY <1>0, <1>6, MatchedCall
<1>7. CASE Dispatch
  BY <1>0, <1>7, MatchedDispatch, SMTT(30)
<1> QED
  BY <1>1, <1>2, <1>3, <1>4, <1>5, <1>6, <1>7, SMTT(30) DEF Next, Step

-----------------------------------------------------------------------------
(* The inductive invariant *)

LEMMA InitIInv == Init => IInv
<1> SUFFICES ASSUME Init PROVE IInv
  OBVIOUS
<1>1. Shape
  BY InitShape
<1>2. Flags /\ Control
  BY WorkerAssumption, ZenonT(30) DEF Init, Flags, Control, Running
<1>3. InUse = {} /\ ~Running /\ live = {} /\ crossed = {} /\ eng = 0
  BY DEF Init, InUse, Running
<1>4. Numbered
  BY DEF Init, Numbered
<1>5. Budget
  BY WorkerAssumption DEF Init, Budget, Extra
<1>6. Engines
  BY <1>3, FS_EmptySet, WorkerAssumption, SMTT(30) DEF Engines, Init
<1>7. Owned /\ Matched
  BY <1>3 DEF Owned, Matched
<1> QED BY <1>1, <1>2, <1>4, <1>5, <1>6, <1>7, SMTT(30) DEF IInv

\* IInv holds in every state of a worker, with any capacities and budgets.
THEOREM Inductive == Spec => []IInv
<1>1. IInv /\ [Next]_vars => IInv'
  BY ShapeStep, FlagsStep, ControlStep, NumberedStep, BudgetStep, EnginesStep, OwnedStep,
     MatchedStep, SMTT(30) DEF IInv
<1> QED BY InitIInv, <1>1, PTL DEF Spec

-----------------------------------------------------------------------------
(* What follows from it *)

NumberedFrom(s, o) == s \in Seq(Nat) /\ \A k \in 1 .. Len(s) : s[k] = o + k

\* Two sequences that are numbered through are so one after the other.
LEMMA ConcatNumbered ==
  ASSUME NEW s, NEW t, NEW o \in Nat, NumberedFrom(s, o), NumberedFrom(t, o + Len(s))
  PROVE  NumberedFrom(s \o t, o) /\ Len(s \o t) = Len(s) + Len(t)
<1> DEFINE m == Len(s)
           n == Len(t)
           u == s \o t
<1>1. m \in Nat /\ n \in Nat /\ s \in Seq(Nat) /\ t \in Seq(Nat)
  BY SMTT(30) DEF NumberedFrom
<1>2. u \in Seq(Nat) /\ Len(u) = m + n
      /\ \A k \in 1 .. m + n : u[k] = IF k <= m THEN s[k] ELSE t[k - m]
  BY <1>1, ConcatProperties
<1>3. (\A k \in 1 .. m : s[k] = o + k) /\ (\A k \in 1 .. n : t[k] = o + m + k)
  BY DEF NumberedFrom
<1> HIDE DEF m, n, u
<1>4. ASSUME NEW k \in 1 .. m + n PROVE u[k] = o + k
  <2>1. CASE k <= m
    <3>1. k \in 1 .. m
      BY <1>1, <2>1
    <3>2. s[k] = o + k
      BY <1>3, <3>1, Zenon
    <3> QED BY <1>2, <2>1, <3>2, Zenon
  <2>2. CASE ~(k <= m)
    <3>1. k - m \in 1 .. n /\ o + m + (k - m) = o + k
      BY <1>1, <2>2, SMTT(30)
    <3>2. t[k - m] = o + k
      BY <1>3, <3>1, Zenon
    <3> QED BY <1>2, <2>2, <3>2, Zenon
  <2> QED BY <2>1, <2>2
<1> QED BY <1>2, <1>4 DEF m, n, u, NumberedFrom

\* The three sequences one after the other are the numbers the ring issued.
LEMMA InOrder ==
  ASSUME Shape, Numbered
  PROVE  dispatched \o batch \o queue = [k \in 1 .. next_id - 1 |-> k]
<1> DEFINE db == dispatched \o batch
           all == db \o queue
<1>1. Len(dispatched) \in Nat /\ Len(batch) \in Nat /\ Len(queue) \in Nat
  BY DEF Shape
<1>2. NumberedFrom(dispatched, 0) /\ NumberedFrom(batch, 0 + Len(dispatched))
  BY <1>1 DEF Shape, Numbered, NumberedFrom
<1>3. NumberedFrom(db, 0) /\ Len(db) = Len(dispatched) + Len(batch)
  BY <1>2, ConcatNumbered, SMTT(30)
<1> HIDE DEF db
<1>4. NumberedFrom(queue, 0 + Len(db))
  BY <1>1, <1>3, SMTT(30) DEF Shape, Numbered, NumberedFrom
<1>5. NumberedFrom(all, 0) /\ Len(all) = Len(db) + Len(queue)
  BY <1>3, <1>4, ConcatNumbered, SMTT(30)
<1>6. Len(all) = next_id - 1
  BY <1>1, <1>3, <1>5, SMTT(30) DEF Numbered
<1> HIDE DEF all
<1>7. all \in Seq(Nat) /\ \A k \in 1 .. Len(all) : all[k] = k
  BY <1>5 DEF NumberedFrom
<1>8. all = [k \in 1 .. Len(all) |-> k]
  BY <1>7
<1> QED BY <1>6, <1>8 DEF all, db

\* drive hands the requests of a function to the broker in the order of the
\* calls, each once, and forgets none: DispatchInOrder, for every capacity of the
\* ring and every number of turns.
THEOREM RequestsInOrder == Spec => []DispatchInOrder
<1>1. IInv => DispatchInOrder
  BY InOrder DEF IInv, DispatchInOrder
<1> QED BY Inductive, <1>1, PTL

\* An engine settles a promise of another only after an invocation raised out of
\* run_one: CrossedOnlyAfterRaise.
THEOREM CrossingNeedsRaise == Spec => []CrossedOnlyAfterRaise
<1>1. IInv => CrossedOnlyAfterRaise
  BY SMTT(30) DEF IInv, Engines, CrossedOnlyAfterRaise
<1> QED BY Inductive, <1>1, PTL

\* An invocation that run_one finished leaves no promise in the table:
\* NothingLeftBehind.
THEOREM FinishedLeavesNothing == Spec => []NothingLeftBehind
<1>1. IInv => NothingLeftBehind
  BY DEF IInv, Engines, Owned, NothingLeftBehind
<1> QED BY Inductive, <1>1, PTL

\* What is still to be answered: the requests after the last that was dispatched.
LEMMA Waiting ==
  ASSUME Shape, Numbered
  PROVE  Range(batch \o queue) = Len(dispatched) + 1 .. next_id - 1
<1> DEFINE d == Len(dispatched)
           n == Len(batch) + Len(queue)
           bq == batch \o queue
<1>1. d \in Nat /\ Len(batch) \in Nat /\ Len(queue) \in Nat /\ n \in Nat
  BY DEF Shape
<1>2. NumberedFrom(batch, d) /\ NumberedFrom(queue, d + Len(batch))
  BY DEF Shape, Numbered, NumberedFrom
<1>3. NumberedFrom(bq, d) /\ Len(bq) = n
  BY <1>1, <1>2, ConcatNumbered, SMTT(30)
<1>4. next_id - 1 = d + n
  BY <1>1 DEF Numbered
<1> HIDE DEF d, n, bq
<1>5. Range(bq) = {d + k : k \in 1 .. n}
  <2>1. DOMAIN bq = 1 .. n /\ \A k \in 1 .. n : bq[k] = d + k
    BY <1>3 DEF NumberedFrom
  <2> QED BY <2>1, Zenon DEF Range
<1>6. \A i \in d + 1 .. d + n : i - d \in 1 .. n /\ i = d + (i - d)
  BY <1>1
<1>7. \A k \in 1 .. n : d + k \in d + 1 .. d + n
  BY <1>1
<1>8. Range(bq) = d + 1 .. d + n
  BY <1>5, <1>6, <1>7, SMTT(30)
<1> QED BY <1>4, <1>8 DEF bq, d

\* Slots with different ids are as many as their ids.
LEMMA SlotsCounted ==
  ASSUME Shape, \A s, t \in InUse : g_promises[s].id = g_promises[t].id => s = t
  PROVE  Cardinality(InUse) = Cardinality({g_promises[s].id : s \in InUse})
<1> DEFINE ids == {g_promises[s].id : s \in InUse}
           f == [s \in InUse |-> g_promises[s].id]
<1>1. IsFiniteSet(InUse)
  <2>1. IsFiniteSet(Slot)
    BY FS_Interval, WorkerAssumption DEF Slot
  <2> QED BY <2>1, FS_Subset DEF InUse
<1>2. f \in Surjection(InUse, ids)
  BY DEF Surjection
<1>3. f \in Injection(InUse, ids)
  BY DEF Injection, IsInjective
<1> HIDE DEF f, ids
<1>4. Cardinality(ids) = Cardinality(InUse)
  BY <1>1, <1>2, <1>3, FS_Surjection
<1> QED BY <1>4 DEF ids

\* In a process that has leaked no engine the promise table holds one slot for
\* each request that is still to be answered, but for the promises lost to a full
\* table: SlotPerRequest, for every size of the table.
THEOREM OneSlotPerRequest == Spec => []SlotPerRequest
<1>1. IInv => SlotPerRequest
  <2> SUFFICES ASSUME IInv, Running, live = {eng} PROVE SlotPerRequest
    BY DEF SlotPerRequest
  <2> DEFINE ids == {g_promises[s].id : s \in InUse}
             waiting == Range(batch \o queue)
             range == Len(dispatched) + 1 .. next_id - 1
  <2>1. waiting = range
    BY Waiting DEF IInv
  <2>2. InUse = SlotsOf(eng)
    BY DEF IInv, Owned, SlotsOf
  <2>3. /\ \A s, t \in InUse : g_promises[s].id = g_promises[t].id => s = t
        /\ \A s \in InUse : Len(dispatched) < g_promises[s].id /\ g_promises[s].id < next_id
        /\ ~orphan => \A i \in range : \E s \in InUse : g_promises[s].id = i
    BY DEF IInv, Matched
  <2>4. Cardinality(InUse) = Cardinality(ids)
    BY <2>3, SlotsCounted, SMTT(30) DEF IInv
  <2>5. next_id \in Nat /\ Len(dispatched) \in Nat /\ \A s \in InUse : g_promises[s].id \in Nat
    BY WorkerAssumption DEF IInv, Shape, Table, Ids, InUse
  <2>6. ids \subseteq range
    BY <2>3, <2>5
  <2>7. ~orphan => ids = range
    BY <2>3, <2>6
  <2> HIDE DEF ids, waiting, range
  <2>8. ids \subseteq waiting /\ (~orphan => ids = waiting)
    BY <2>1, <2>6, <2>7, SMTT(30)
  <2> QED BY <2>2, <2>4, <2>8, SMTT(30) DEF SlotPerRequest, ids, waiting
<1> QED BY Inductive, <1>1, PTL

\* The counters, rings and tables of the worker stay within their capacities:
\* TypeOK, for every size and budget.
THEOREM TypeCorrect == Spec => []TypeOK
<1>1. IInv => TypeOK
  <2> SUFFICES ASSUME IInv PROVE TypeOK
    OBVIOUS
  <2> DEFINE d == Len(dispatched)
             b == Len(batch)
             q == Len(queue)
  <2>1. Shape /\ Flags /\ Numbered /\ Budget /\ Engines
    BY DEF IInv
  <2>2. /\ next_id = d + b + q + 1
        /\ \A k \in 1 .. d : dispatched[k] = k
        /\ \A k \in 1 .. b : batch[k] = d + k
        /\ \A k \in 1 .. q : queue[k] = d + b + k
        /\ next_id + fuel <= Fuel + 1
        /\ jobs + q + b + fuel <= Fuel + Extra /\ q <= QueueCap /\ b <= QueueCap
    BY <2>1 DEF Numbered, Budget
  <2>3. /\ d \in Nat /\ b \in Nat /\ q \in Nat /\ jobs \in Nat /\ fuel \in Nat /\ Fuel \in Nat
        /\ QueueCap \in Nat /\ next_id \in Nat
        /\ dispatched \in [1 .. d -> Nat] /\ batch \in [1 .. b -> Nat] /\ queue \in [1 .. q -> Nat]
    BY <2>1, WorkerAssumption DEF Shape
  <2> HIDE DEF d, b, q
  <2>4. next_id \in 1 .. Fuel + 1 /\ fuel \in 0 .. Fuel
    BY <2>2, <2>3
  <2>5. jobs \in 0 .. 2 * Fuel + 1
    BY <2>2, <2>3, Extras
  <2>6. dispatched \in [1 .. d -> Ids] /\ d \in 0 .. Fuel
    BY <2>2, <2>3 DEF Ids
  <2>7. batch \in [1 .. b -> Ids] /\ b \in 0 .. QueueCap
    BY <2>2, <2>3 DEF Ids
  <2>8. queue \in [1 .. q -> Ids] /\ q \in 0 .. QueueCap
    BY <2>2, <2>3, SMTT(30) DEF Ids
  <2>9. queue \in Seq(Ids) /\ batch \in Seq(Ids) /\ dispatched \in Seq(Ids)
        /\ Len(queue) <= QueueCap /\ Len(batch) <= QueueCap /\ Len(dispatched) <= Fuel
    <3>1. d = Len(dispatched) /\ b = Len(batch) /\ q = Len(queue)
      BY DEF d, b, q
    <3> QED BY <2>6, <2>7, <2>8, <3>1, WorkerAssumption
  <2>10. {orphan, job, interrupted} \subseteq BOOLEAN
    BY <2>1 DEF Flags
  <2>11. Cardinality(live) <= TableCap
    BY <2>1 DEF Engines
  <2> QED BY <2>1, <2>4, <2>5, <2>9, <2>10, <2>11, SMTT(30) DEF Shape, Steps, Table, TypeOK
<1> QED BY Inductive, <1>1, PTL
=============================================================================
