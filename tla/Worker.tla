------------------------------- MODULE Worker -------------------------------
(***************************************************************************)
(* One worker process running invocations one after the other:             *)
(* Worker_pool.run_one creates an engine, evaluates the function and calls *)
(* Runtime_host.drive, which alternates between pumping QuickJS jobs and   *)
(* answering the host requests that the function's code has queued; the    *)
(* promise bridge of qjs_stubs.c connects the two.                         *)
(*                                                                         *)
(* The request ring is used as the bounded FIFO that HostQueue implements. *)
(* The JavaScript program is left open: while a job runs, the code may     *)
(* call host.rpc (or host.later), schedule another job, return from the    *)
(* handler or throw out of it, and stop.  Every promise is taken to have a *)
(* reaction, so settling it makes a job.                                   *)
(***************************************************************************)
EXTENDS Integers, Sequences, FiniteSetsExt

CONSTANTS MaxInv,       \* bound: how many invocations are started
          TableCap,     \* MLQJS_TABLE_CAP
          QueueCap,     \* MLQJS_QUEUE_CAP
          MaxPromises,  \* MLQJS_MAX_PROMISES
          MaxJobs,      \* max_jobs of one pump
          MaxTurns,     \* max_turns of drive
          Fuel          \* bound: host calls and jobs one function makes

ASSUME WorkerAssumption ==
  /\ MaxInv \in Nat /\ Fuel \in Nat
  /\ TableCap \in Nat /\ QueueCap \in Nat /\ MaxPromises \in Nat
  /\ MaxJobs \in Nat /\ MaxTurns \in Nat \ {0}

VARIABLES pc,           \* where run_one is
          eng,          \* the current engine: the number of the invocation
          live,         \* the engines whose runtime has not been freed
          g_promises,   \* the promise table, shared by all engines
          queue,        \* ids in the engine's request ring
          next_id,      \* q->requests.next_id
          orphan,       \* the engine lost a promise it can no longer free
          job,          \* JavaScript is running
          jobs,         \* jobs pending in the engine
          fuel,         \* what is left of Fuel
          handler,      \* "running", "absent", or how the handler ended
          interrupted,  \* the deadline or the CPU budget is used up
          quota,        \* jobs the current pump may still run
          turns,        \* drive's max_turns argument
          batch,        \* requests taken and not yet dispatched
          dispatched,   \* history: ids dispatched for this engine, in order
          completion,   \* what drive returned
          outcome,      \* history: how each invocation ended
          crossed       \* history: the engines that settled a foreign promise

jsVars == <<queue, next_id, orphan, jobs, fuel, handler, interrupted>>
driveVars == <<quota, turns, batch, dispatched, completion>>
vars == <<pc, eng, live, g_promises, jsVars, job, driveVars, outcome, crossed>>

Slot == 1 .. MaxPromises
Free == [owner |-> 0, id |-> 0]
InUse == {s \in Slot : g_promises[s] # Free}
SlotsOf(e) == {s \in InUse : g_promises[s].owner = e}

Init ==
  /\ pc = "idle"
  /\ eng = 0
  /\ live = {}
  /\ g_promises = [s \in Slot |-> Free]
  /\ outcome = [i \in 1 .. MaxInv |-> "none"]
  /\ crossed = {}
  /\ queue = <<>>
  /\ next_id = 1
  /\ orphan = FALSE
  /\ job = FALSE
  /\ jobs = 0
  /\ fuel = Fuel
  /\ handler = "running"
  /\ interrupted = FALSE
  /\ quota = MaxJobs
  /\ turns = MaxTurns
  /\ batch = <<>>
  /\ dispatched = <<>>
  /\ completion = "none"

-----------------------------------------------------------------------------
(* run_one up to the dispatch loop *)

\* The state of a fresh engine and of a fresh call of drive.
Fresh ==
  /\ queue' = <<>>
  /\ next_id' = 1
  /\ orphan' = FALSE
  /\ job' = FALSE
  /\ jobs' = 0
  /\ fuel' = Fuel
  /\ handler' = "running"
  /\ interrupted' = FALSE
  /\ quota' = MaxJobs
  /\ turns' = MaxTurns
  /\ batch' = <<>>
  /\ dispatched' = <<>>
  /\ completion' = "none"

\* Qjs_engine.create and install_host: the state of a fresh runtime.
Create ==
  /\ pc = "idle"
  /\ eng < MaxInv
  /\ Cardinality(live) < TableCap
  /\ pc' = "setup"
  /\ eng' = eng + 1
  /\ live' = live \cup {eng + 1}
  /\ Fresh
  /\ UNCHANGED <<g_promises, outcome, crossed>>

\* "handle table full": run_one returns the error, nothing was created.
CreateFull ==
  /\ pc = "idle"
  /\ eng < MaxInv
  /\ Cardinality(live) = TableCap
  /\ eng' = eng + 1
  /\ outcome' = [outcome EXCEPT ![eng + 1] = "error"]
  /\ UNCHANGED <<pc, live, g_promises, jsVars, job, driveVars, crossed>>

\* An OCaml exception leaves run_one: the engine is not destroyed.
Raise ==
  /\ pc' = "idle"
  /\ outcome' = [outcome EXCEPT ![eng] = "raised"]

\* set_module or eval_module fails: too many modules, a path that is too
\* long, an entrypoint that the bundle does not have.
SetupRaises ==
  /\ pc = "setup"
  /\ Raise
  /\ UNCHANGED <<eng, live, g_promises, jsVars, job, driveVars, crossed>>

\* eval_module and eval run the module and the call of the handler.
Evaluate ==
  /\ pc = "setup"
  /\ pc' = "eval"
  /\ job' = TRUE
  /\ UNCHANGED <<eng, live, g_promises, jsVars, driveVars, outcome, crossed>>

\* The call leaves the job of its first await, unless its source did not
\* parse (the event is pasted into it) or was interrupted, and there is no
\* handler: run_one ignores the result of eval.
Evaluated ==
  /\ pc = "eval"
  /\ pc' = "pump1"
  /\ job' = FALSE
  /\ \/ jobs' = jobs + 1 /\ UNCHANGED handler
     \/ handler' = "absent" /\ UNCHANGED jobs
  /\ UNCHANGED <<eng, live, g_promises, queue, next_id, orphan, fuel,
                 interrupted, driveVars, outcome, crossed>>

-----------------------------------------------------------------------------
(* What the JavaScript code does while a job runs *)

jobFrame == <<pc, eng, live, job, driveVars, outcome, crossed>>

\* The first free slot takes the promise's resolving functions; without one
\* they are freed, and the promise itself is not.
promise_insert(id) ==
  IF InUse = Slot
  THEN orphan' = TRUE /\ UNCHANGED g_promises
  ELSE /\ g_promises' = [g_promises EXCEPT ![Min(Slot \ InUse)] =
                           [owner |-> eng, id |-> id]]
       /\ UNCHANGED orphan

\* mlqjs_host_rpc: the request is pushed first; when the promise table is
\* full after that, the request stays queued and the promise is lost.
HostCall ==
  /\ job
  /\ fuel > 0
  /\ fuel' = fuel - 1
  /\ IF Len(queue) = QueueCap
     THEN UNCHANGED <<queue, next_id, orphan, g_promises>>
     ELSE /\ queue' = Append(queue, next_id)
          /\ next_id' = next_id + 1
          /\ promise_insert(next_id)
  /\ UNCHANGED <<jobFrame, jobs, handler, interrupted>>

\* A resolved promise gets a reaction: one more job.
Schedule ==
  /\ job
  /\ fuel > 0
  /\ fuel' = fuel - 1
  /\ jobs' = jobs + 1
  /\ UNCHANGED <<jobFrame, g_promises, queue, next_id, orphan, handler, interrupted>>

\* The wrapper of call_src sets __result or __error, and __done either way.
HandlerEnds ==
  /\ job
  /\ pc # "eval"
  /\ handler = "running"
  /\ handler' \in {"returned", "threw"}
  /\ UNCHANGED <<jobFrame, g_promises, queue, next_id, orphan, jobs, fuel, interrupted>>

\* mlqjs_interrupt says stop; from now on any evaluation may be cut short.
Interrupt ==
  /\ job
  /\ ~interrupted
  /\ interrupted' = TRUE
  /\ UNCHANGED <<jobFrame, g_promises, queue, next_id, orphan, jobs, fuel, handler>>

-----------------------------------------------------------------------------
(* Runtime_host.drive *)

\* mlqjs_pump runs the next job.
PumpJob ==
  /\ pc \in {"pump1", "pump2"}
  /\ ~job
  /\ jobs > 0
  /\ quota > 0
  /\ job' = TRUE
  /\ jobs' = jobs - 1
  /\ quota' = quota - 1
  /\ UNCHANGED <<pc, eng, live, g_promises, queue, next_id, orphan, fuel, handler,
                 interrupted, turns, batch, dispatched, completion, outcome, crossed>>

\* The job ran to its end, threw, or was interrupted: mlqjs_pump goes on.
JobEnds ==
  /\ pc \in {"pump1", "pump2"}
  /\ job
  /\ job' = FALSE
  /\ UNCHANGED <<pc, eng, live, g_promises, jsVars, driveVars, outcome, crossed>>

\* pump returns; drive ignores what it says.
PumpEnds ==
  /\ pc \in {"pump1", "pump2"}
  /\ ~job
  /\ jobs = 0 \/ quota = 0
  /\ pc' = IF pc = "pump1" THEN "take" ELSE "check"
  /\ quota' = MaxJobs
  /\ UNCHANGED <<eng, live, g_promises, jsVars, job, turns, batch, dispatched,
                 completion, outcome, crossed>>

\* A mutant of TakeRequests: the drain hands the requests over newest first.
TakeReversed ==
  /\ pc = "take"
  /\ pc' = "dispatch"
  /\ batch' = [i \in 1 .. Len(queue) |-> queue[Len(queue) + 1 - i]]
  /\ queue' = <<>>
  /\ UNCHANGED <<eng, live, g_promises, next_id, orphan, job, jobs, fuel, handler,
                 interrupted, quota, turns, dispatched, completion, outcome, crossed>>

\* Qjs_engine.take_host_requests drains the ring.
TakeRequests ==
  /\ pc = "take"
  /\ pc' = "dispatch"
  /\ batch' = queue
  /\ queue' = <<>>
  /\ UNCHANGED <<eng, live, g_promises, next_id, orphan, job, jobs, fuel, handler,
                 interrupted, quota, turns, dispatched, completion, outcome, crossed>>

\* The slots that carry the id, whichever engine they are of.
promise_find(id) == {s \in InUse : g_promises[s].id = id}

\* A mutant of Resolve: the slot is settled and not given back.
ResolveKeepsSlot(id) ==
  IF promise_find(id) = {}
  THEN UNCHANGED <<g_promises, jobs, crossed>>
  ELSE /\ jobs' = jobs + 1
       /\ UNCHANGED <<g_promises, crossed>>

\* mlqjs_resolve takes the first slot with the id, and ignores an id without
\* one.  Settling the promise of another engine runs that engine's reaction or
\* leaves it: calling into a foreign runtime is not defined.
Resolve(id) ==
  IF promise_find(id) = {}
  THEN UNCHANGED <<g_promises, jobs, crossed>>
  ELSE LET s == Min(promise_find(id)) IN
       /\ g_promises' = [g_promises EXCEPT ![s] = Free]
       /\ IF g_promises[s].owner = eng
          THEN jobs' = jobs + 1 /\ UNCHANGED crossed
          ELSE jobs' \in {jobs, jobs + 1} /\ crossed' = crossed \cup {eng}

\* Capability_broker.dispatch returns Ok or Error; drive resolves the promise
\* in both cases.
Dispatch ==
  /\ pc = "dispatch"
  /\ batch # <<>>
  /\ Resolve(Head(batch))
  /\ dispatched' = Append(dispatched, Head(batch))
  /\ batch' = Tail(batch)
  /\ UNCHANGED <<pc, eng, live, queue, next_id, orphan, job, fuel, handler,
                 interrupted, quota, turns, completion, outcome>>

\* The broker cannot read the arguments (Yojson.Json_error), or a host
\* function refuses them (Invalid_argument).
DispatchRaises ==
  /\ pc = "dispatch"
  /\ batch # <<>>
  /\ Raise
  /\ UNCHANGED <<eng, live, g_promises, jsVars, job, driveVars, crossed>>

DispatchEnds ==
  /\ pc = "dispatch"
  /\ batch = <<>>
  /\ pc' = "pump2"
  /\ UNCHANGED <<eng, live, g_promises, jsVars, job, driveVars, outcome, crossed>>

\* What mlqjs_eval_int can make of __done: an interrupt can stop it.
SaysDone == handler \in {"returned", "threw"}
SaysNotDone == handler \in {"running", "absent"} \/ interrupted

\* What mlqjs_eval_string can make of __result: JSON.stringify can throw.
Stringified == {"fulfilled", "rejected"}

Completed ==
  /\ pc = "check"
  /\ SaysDone
  /\ pc' = "destroy"
  /\ completion' \in Stringified
  /\ UNCHANGED <<eng, live, g_promises, jsVars, job, quota, turns, batch,
                 dispatched, outcome, crossed>>

\* A mutant of NotCompleted: the recursive call keeps max_turns.
NotCompletedForever ==
  /\ pc = "check"
  /\ SaysNotDone
  /\ pc' = "pump1"
  /\ UNCHANGED <<eng, live, g_promises, jsVars, job, driveVars, outcome, crossed>>

\* drive calls itself, and gives up when max_turns is 0.
NotCompleted ==
  /\ pc = "check"
  /\ SaysNotDone
  /\ turns' = turns - 1
  /\ IF turns = 1
     THEN pc' = "destroy" /\ completion' = "timeout"
     ELSE pc' = "pump1" /\ UNCHANGED completion
  /\ UNCHANGED <<eng, live, g_promises, jsVars, job, quota, batch, dispatched,
                 outcome, crossed>>

-----------------------------------------------------------------------------
(* The end of run_one *)

\* JavaScript values of the engine that C code still holds.
Retained == SlotsOf(eng) # {} \/ orphan

\* A mutant of Destroy: the runtime is freed without looking for leaks.
DestroyUnchecked ==
  /\ pc = "destroy"
  /\ pc' = "idle"
  /\ live' = live \ {eng}
  /\ outcome' = [outcome EXCEPT ![eng] = completion]
  /\ UNCHANGED <<eng, g_promises, jsVars, job, driveVars, crossed>>

\* mlqjs_destroy: JS_FreeRuntime asserts that no object is left, and the
\* resolving functions in the promise table are objects of the runtime.
Destroy ==
  /\ pc = "destroy"
  /\ IF Retained
     THEN /\ pc' = "down"
          /\ outcome' = [outcome EXCEPT ![eng] = "aborted"]
          /\ UNCHANGED live
     ELSE /\ pc' = "idle"
          /\ outcome' = [outcome EXCEPT ![eng] = completion]
          /\ live' = live \ {eng}
  /\ UNCHANGED <<eng, g_promises, jsVars, job, driveVars, crossed>>

\* The aborted process is started again.
Restart ==
  /\ pc = "down"
  /\ pc' = "idle"
  /\ live' = {}
  /\ g_promises' = [s \in Slot |-> Free]
  /\ Fresh
  /\ UNCHANGED <<eng, outcome, crossed>>

\* run_one once the engine exists
Step ==
  \/ SetupRaises \/ Evaluate \/ Evaluated
  \/ HostCall \/ Schedule \/ HandlerEnds \/ Interrupt
  \/ PumpJob \/ JobEnds \/ PumpEnds
  \/ TakeRequests \/ Dispatch \/ DispatchRaises \/ DispatchEnds
  \/ Completed \/ NotCompleted \/ Destroy

Next == Create \/ CreateFull \/ Step \/ Restart

\* run_one is ordinary sequential code: once started, it takes its next step.
Spec == Init /\ [][Next]_vars /\ WF_vars(Step)

-----------------------------------------------------------------------------
(* Properties *)

Ids == 1 .. Fuel
Running == pc \notin {"idle", "down"}

\* The counters of the worker stay in range: the table of runtimes, the ring
\* and the promise table within their capacities, the budgets of pump and of
\* drive above zero.
TypeOK ==
  /\ pc \in {"idle", "setup", "eval", "pump1", "take", "dispatch", "pump2",
             "check", "destroy", "down"}
  /\ eng \in 0 .. MaxInv
  /\ live \subseteq 1 .. eng
  /\ Cardinality(live) <= TableCap
  /\ g_promises \in [Slot -> {Free} \cup [owner : 1 .. MaxInv, id : Ids]]
  /\ {queue, batch, dispatched} \subseteq Seq(Ids)
  /\ Len(queue) <= QueueCap /\ Len(batch) <= QueueCap /\ Len(dispatched) <= Fuel
  /\ next_id \in 1 .. Fuel + 1
  /\ {orphan, job, interrupted} \subseteq BOOLEAN
  /\ jobs \in 0 .. 2 * Fuel + 1
  /\ fuel \in 0 .. Fuel
  /\ handler \in {"running", "absent", "returned", "threw"}
  /\ quota \in 0 .. MaxJobs
  /\ turns \in 0 .. MaxTurns
  /\ completion \in {"none", "fulfilled", "rejected", "timeout"}
  /\ outcome \in [1 .. MaxInv -> {"none", "fulfilled", "rejected", "timeout",
                                  "raised", "error", "aborted"}]
  /\ crossed \subseteq 1 .. MaxInv

\* The ids the ring issued, the batches that were taken and the requests that
\* were dispatched fit together: every request the function made is queued,
\* taken or dispatched, exactly once and in the order of the calls.
DispatchInOrder ==
  Running => dispatched \o batch \o queue = [k \in 1 .. next_id - 1 |-> k]

\* In a process that has leaked no engine, the promise table holds exactly
\* the promises of the requests that are still to be answered, one slot each
\* ("request id = promise-table slot", qjs_host_queue.h:18), except those lost
\* when the table was full.
SlotPerRequest ==
  Running /\ live = {eng} =>
    LET ids == {g_promises[s].id : s \in InUse}
        waiting == Range(batch \o queue)
    IN  /\ InUse = SlotsOf(eng)
        /\ Cardinality(InUse) = Cardinality(ids)
        /\ ids \subseteq waiting
        /\ ~orphan => ids = waiting

\* An engine answers another engine's request only after an invocation of
\* the same process left run_one with an exception, which is the only way an
\* engine stays behind.
CrossedOnlyAfterRaise ==
  /\ crossed # {} => \E e \in 1 .. eng : outcome[e] = "raised"
  /\ \A e \in live \ {eng} : outcome[e] = "raised"

\* Between two invocations the table holds slots of leaked engines only: an
\* invocation that run_one finished has left nothing behind.
NothingLeftBehind == pc = "idle" => \A s \in InUse : outcome[g_promises[s].owner] = "raised"

\* Whatever the function does, drive returns: the invocation ends.
InvocationEnds == \A e \in 1 .. MaxInv : (eng = e) ~> (outcome[e] # "none")

\* "On runtime destruction: pending_host_requests = 0 ... retained_JSValues =
\* 0" (implementation guide, 3316-3319): at the end of run_one the engine's
\* requests have been answered and C holds none of its values.
CleanDestroy == pc = "destroy" => ~Retained

\* "It fails when: JavaScript throws or rejects" (implementation guide, 441-445).
ThrowFails == completion = "fulfilled" => handler = "returned"
=============================================================================
