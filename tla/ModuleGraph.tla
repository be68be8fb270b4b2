---------------------------- MODULE ModuleGraph ----------------------------
(***************************************************************************)
(* Linking and evaluation of ECMAScript modules in the engine              *)
(* (qjs/lib/_qjs_quickjs.c): the modules of a bundle import one another,   *)
(* in cycles too, and may await at top level.  The worker evaluates the    *)
(* entry module; import() evaluates others later, each in a job of its own *)
(* while bodies of the first are still waiting.                            *)
(*                                                                         *)
(* The recursive C functions are followed call by call: `frames' holds, for *)
(* each call that has not returned, its module and how far its loop is.    *)
(* A body is an async function: it runs to its end or, in a module with    *)
(* top-level await, to its first await, and then settles in a job.  All    *)
(* modules are loaded before the first one is linked (js_resolve_module).  *)
(***************************************************************************)
EXTENDS Integers, Sequences

CONSTANTS Modules,    \* the modules that the loader finds: integers
          Bundles,    \* bound: the bundles to consider, see Init
          MaxImports  \* bound: how many times a module is imported

VARIABLES req,       \* req_module_entries of each module
          tla,       \* the modules with has_tla
          flawed,    \* the modules that import or export a missing name
          entries,   \* the modules named by the worker or by an import()
          status, dfs_index, dfs_ancestor, pending, async, stamp, cycle_root,
          exception, parents,
                     \* the fields of JSModuleDef; async_parent_modules is
                     \*   parents, eval_has_exception is exception
          promise,   \* m->promise: "none" or the state of the promise
          op,        \* the C function that is running, or "idle"
          target,    \* the module it was called for
          frames,    \* its recursive calls
          tarjan,    \* the modules linked from stack_top, the top last
          index,     \* the index that is passed along
          clock,     \* rt->module_async_evaluation_next_timestamp
          exec_list, \* ExecModuleList
          imports,   \* imports started
          body,      \* history: what became of each module's body
          starts,    \* history: how many times it was started
          aborted    \* an assertion of the code has failed

graphVars == <<req, tla, flawed, entries>>
moduleVars == <<status, dfs_index, dfs_ancestor, pending, async, stamp,
                cycle_root, exception, parents>>
callVars == <<op, target, frames, tarjan, index, exec_list>>
vars == <<graphVars, moduleVars, promise, callVars, clock, imports, body,
          starts, aborted>>

NoModule == 0
Done == {"evaluating_async", "evaluated"}
Lesser(a, b) == IF a < b THEN a ELSE b
Members(s) == {s[i] : i \in 1 .. Len(s)}
Set(f, S, v) == [x \in DOMAIN f |-> IF x \in S THEN v ELSE f[x]]

Frame == frames[Len(frames)]
Popped == SubSeq(frames, 1, Len(frames) - 1)
Call(m) == [m |-> m, i |-> 1]
Advanced == [frames EXCEPT ![Len(frames)].i = @ + 1]

Init ==
  /\ \E b \in Bundles : /\ req = b.req
                        /\ tla = b.tla
                        /\ flawed = b.flawed
                        /\ entries = b.entries
  /\ status = [m \in Modules |-> "unlinked"]
  /\ dfs_index = [m \in Modules |-> 0]
  /\ dfs_ancestor = [m \in Modules |-> 0]
  /\ pending = [m \in Modules |-> 0]
  /\ async = [m \in Modules |-> FALSE]
  /\ stamp = [m \in Modules |-> 0]
  /\ cycle_root = [m \in Modules |-> NoModule]
  /\ exception = [m \in Modules |-> FALSE]
  /\ parents = [m \in Modules |-> <<>>]
  /\ promise = [m \in Modules |-> "none"]
  /\ op = "idle"
  /\ target = NoModule
  /\ frames = <<>>
  /\ tarjan = <<>>
  /\ index = 0
  /\ clock = 0
  /\ exec_list = {}
  /\ imports = 0
  /\ body = [m \in Modules |-> "new"]
  /\ starts = [m \in Modules |-> 0]
  /\ aborted = FALSE

\* assert(): the process ends when the condition does not hold.
Asserts(P) == aborted' = (aborted \/ ~P)

\* The body of m is called, and is then in state b.
Starts(m, b) ==
  /\ body' = [body EXCEPT ![m] = b]
  /\ starts' = [starts EXCEPT ![m] = @ + 1]

-----------------------------------------------------------------------------
(* Linking *)

\* The call of js_inner_module_linking and js_inner_module_evaluation for a
\* module that is visited for the first time.
Visit(m, visited, at) ==
  /\ status' = [status EXCEPT ![m] = visited]
  /\ dfs_index' = [dfs_index EXCEPT ![m] = at]
  /\ dfs_ancestor' = [dfs_ancestor EXCEPT ![m] = at]
  /\ index' = at + 1
  /\ tarjan' = Append(tarjan, m)
  /\ frames' = Append(frames, Call(m))

\* The modules above m on the stack, and m: a strongly connected component.
Component(m) == {tarjan[i] : i \in {i \in 1 .. Len(tarjan) :
                                      \E j \in 1 .. i : tarjan[j] = m}}
IsRoot(m) == dfs_index[m] = dfs_ancestor[m]
Below(m) == IF IsRoot(m)
            THEN SelectSeq(tarjan, LAMBDA x : x \notin Component(m))
            ELSE tarjan

\* A mutant of Import: import() does its work at once, not in a job.
ImportAtOnce(m) ==
  /\ imports < MaxImports
  /\ imports' = imports + 1
  /\ target' = m
  /\ Asserts(status[m] \in {"unlinked", "linked"} \cup Done)
  /\ IF status[m] = "unlinked"
     THEN /\ op' = "link"
          /\ Visit(m, "linking", 0)
     ELSE /\ op' = "evaluate"
          /\ UNCHANGED <<status, dfs_index, dfs_ancestor, frames, index, tarjan>>
  /\ UNCHANGED <<graphVars, pending, async, stamp, cycle_root, exception, parents,
                 promise, exec_list, clock, body, starts>>

\* JS_LoadModuleInternal and JS_EvalFunctionInternal: js_link_module(m).
Import(m) ==
  /\ op = "idle"
  /\ imports < MaxImports
  /\ imports' = imports + 1
  /\ target' = m
  /\ Asserts(status[m] \in {"unlinked", "linked"} \cup Done)
  /\ IF status[m] = "unlinked"
     THEN /\ op' = "link"
          /\ Visit(m, "linking", 0)
     ELSE /\ op' = "evaluate"
          /\ UNCHANGED <<status, dfs_index, dfs_ancestor, frames, index, tarjan>>
  /\ UNCHANGED <<graphVars, pending, async, stamp, cycle_root, exception, parents,
                 promise, exec_list, clock, body, starts>>

\* The loop of js_inner_module_linking calls itself for the next import ...
LinkVisit ==
  LET m == Frame.m
      c == req[m][Frame.i]
  IN  /\ op = "link"
      /\ Frame.i <= Len(req[m])
      /\ status[c] = "unlinked"
      /\ Visit(c, "linking", index)
      /\ UNCHANGED <<graphVars, pending, async, stamp, cycle_root, exception,
                     parents, promise, op, target, exec_list, clock, imports,
                     body, starts, aborted>>

\* ... and goes on when the call has returned.
LinkNext ==
  LET m == Frame.m
      c == req[m][Frame.i]
  IN  /\ op = "link"
      /\ Frame.i <= Len(req[m])
      /\ status[c] # "unlinked"
      /\ Asserts(status[c] \in {"linking", "linked"} \cup Done)
      /\ dfs_ancestor' =
           IF status[c] = "linking"
           THEN [dfs_ancestor EXCEPT ![m] = Lesser(@, dfs_ancestor[c])]
           ELSE dfs_ancestor
      /\ frames' = Advanced
      /\ UNCHANGED <<graphVars, status, dfs_index, pending, async, stamp,
                     cycle_root, exception, parents, promise, op, target, tarjan,
                     index, exec_list, clock, imports, body, starts>>

\* The names that m imports and exports are found, and the end of the call.
LinkReturn ==
  LET m == Frame.m
  IN  /\ op = "link"
      /\ Frame.i > Len(req[m])
      /\ m \notin flawed
      /\ Asserts(dfs_ancestor[m] <= dfs_index[m]
                  /\ (Len(frames) = 1 => Below(m) = <<>>))
      /\ status' = IF IsRoot(m) THEN Set(status, Component(m), "linked") ELSE status
      /\ tarjan' = Below(m)
      /\ frames' = Popped
      /\ op' = IF Len(frames) = 1 THEN "evaluate" ELSE "link"
      /\ UNCHANGED <<graphVars, dfs_index, dfs_ancestor, pending, async, stamp,
                     cycle_root, exception, parents, promise, target, index,
                     exec_list, clock, imports, body, starts>>

\* A name is missing: every call returns -1, and js_link_module undoes.
LinkFail ==
  LET m == Frame.m
  IN  /\ op = "link"
      /\ Frame.i > Len(req[m])
      /\ m \in flawed
      /\ Asserts(\A x \in Members(tarjan) : status[x] = "linking")
      /\ status' = Set(status, Members(tarjan), "unlinked")
      /\ tarjan' = <<>>
      /\ frames' = <<>>
      /\ op' = "idle"
      /\ UNCHANGED <<graphVars, dfs_index, dfs_ancestor, pending, async, stamp,
                     cycle_root, exception, parents, promise, target, index,
                     exec_list, clock, imports, body, starts>>

-----------------------------------------------------------------------------
(* Evaluation *)

\* A mutant of EvaluationRoot: a module of a cycle gets a promise of its own.
EvaluationOwn(m) == m

\* The promise of an evaluation is created on the root of the cycle.
EvaluationRoot(m) == IF status[m] \in Done THEN cycle_root[m] ELSE m

\* js_evaluate_module up to its first recursive call: the promise of the cycle
\* that the module belongs to is there, can be settled at once, or is created
\* for a first evaluation.
Evaluate ==
  LET m == EvaluationRoot(target)
  IN  /\ op = "evaluate"
      /\ Asserts(/\ status[target] \in {"linked"} \cup Done
                 /\ promise[m] = "none" /\ status[m] \in Done =>
                      (exception[m] \/ ~async[m] => status[m] = "evaluated"))
      /\ target' = m
      /\ \/ /\ promise[m] # "none"
            /\ op' = "idle"
            /\ UNCHANGED <<promise, status, dfs_index, dfs_ancestor, index, tarjan,
                           frames, pending>>
         \/ /\ promise[m] = "none"
            /\ status[m] \in Done
            /\ promise' = [promise EXCEPT ![m] = IF exception[m] THEN "rejected"
                                                 ELSE IF async[m] THEN "pending"
                                                 ELSE "fulfilled"]
            /\ op' = "idle"
            /\ UNCHANGED <<status, dfs_index, dfs_ancestor, index, tarjan, frames,
                           pending>>
         \/ /\ promise[m] = "none"
            /\ status[m] \notin Done
            /\ promise' = [promise EXCEPT ![m] = "pending"]
            /\ op' = "eval"
            /\ Visit(m, "evaluating", 0)
            /\ pending' = [pending EXCEPT ![m] = 0]
      /\ UNCHANGED <<graphVars, async, stamp, cycle_root, exception, parents,
                     exec_list, clock, imports, body, starts>>

\* The loop of js_inner_module_evaluation calls itself for the next import.
EvalVisit ==
  LET m == Frame.m
      c == req[m][Frame.i]
  IN  /\ op = "eval"
      /\ Frame.i <= Len(req[m])
      /\ status[c] \notin {"evaluating"} \cup Done
      /\ Asserts(status[c] = "linked")
      /\ Visit(c, "evaluating", index)
      /\ pending' = [pending EXCEPT ![c] = 0]
      /\ UNCHANGED <<graphVars, async, stamp, cycle_root, exception, parents,
                     promise, op, target, exec_list, clock, imports, body, starts>>

\* A mutant of Returned: the module is looked at, not the root of its cycle.
ReturnedItself(c) == c

\* What the caller looks at when the call has returned.
Returned(c) == IF status[c] = "evaluating" THEN c ELSE cycle_root[c]

\* The call has returned the index: m waits for what is asynchronous.
EvalNext ==
  LET m == Frame.m
      c == req[m][Frame.i]
      r == Returned(c)
  IN  /\ op = "eval"
      /\ Frame.i <= Len(req[m])
      /\ status[c] \in {"evaluating"} \cup Done
      /\ ~exception[c]
      /\ ~exception[r]
      /\ Asserts(status[c] = "evaluating" \/ status[r] \in Done)
      /\ dfs_ancestor' =
           IF status[c] = "evaluating"
           THEN [dfs_ancestor EXCEPT ![m] = Lesser(@, dfs_ancestor[c])]
           ELSE dfs_ancestor
      /\ IF async[r]
         THEN /\ pending' = [pending EXCEPT ![m] = @ + 1]
              /\ parents' = [parents EXCEPT ![r] = Append(@, m)]
         ELSE UNCHANGED <<pending, parents>>
      /\ frames' = Advanced
      /\ UNCHANGED <<graphVars, status, dfs_index, async, stamp, cycle_root,
                     exception, promise, op, target, tarjan, index, exec_list,
                     clock, imports, body, starts>>

\* Every call returns -1: the tail of js_evaluate_module for a failure.
Unwind ==
  /\ Asserts(/\ \A x \in Members(tarjan) : status[x] = "evaluating"
             /\ target \in Members(tarjan))
  /\ status' = Set(status, Members(tarjan), "evaluated")
  /\ exception' = Set(exception, Members(tarjan), TRUE)
  /\ cycle_root' = Set(cycle_root, Members(tarjan), target)
  /\ promise' = [promise EXCEPT ![target] = "rejected"]
  /\ tarjan' = <<>>
  /\ frames' = <<>>
  /\ op' = "idle"
  /\ UNCHANGED <<graphVars, dfs_index, dfs_ancestor, pending, async, stamp,
                 parents, target, index, exec_list, clock, imports>>

\* An import had failed, it or the root of its cycle.
EvalFailed ==
  LET m == Frame.m
      c == req[m][Frame.i]
  IN  /\ op = "eval"
      /\ Frame.i <= Len(req[m])
      /\ status[c] \in {"evaluating"} \cup Done
      /\ exception[c] \/ exception[Returned(c)]
      /\ Unwind
      /\ UNCHANGED <<body, starts>>

\* js_execute_sync_module: the body throws.
EvalThrows ==
  LET m == Frame.m
  IN  /\ op = "eval"
      /\ Frame.i > Len(req[m])
      /\ pending[m] = 0
      /\ m \notin tla
      /\ Starts(m, "failed")
      /\ Unwind

\* The end of js_inner_module_evaluation: m waits for its imports, starts to
\* run, or has run; the last module of a cycle closes the cycle.
EvalReturn ==
  LET m == Frame.m
      waits == pending[m] > 0
      nowAsync == [async EXCEPT ![m] = @ \/ waits \/ m \in tla]
      cycle == IF IsRoot(m) THEN Component(m) ELSE {}
      last == Len(frames) = 1
  IN  /\ op = "eval"
      /\ Frame.i > Len(req[m])
      /\ Asserts(/\ waits \/ m \in tla => ~async[m]
                 /\ dfs_ancestor[m] <= dfs_index[m]
                 /\ last => Below(m) = <<>> /\ ~exception[m])
      /\ async' = nowAsync
      /\ IF nowAsync[m]
         THEN /\ stamp' = [stamp EXCEPT ![m] = clock]
              /\ clock' = clock + 1
         ELSE UNCHANGED <<stamp, clock>>
      /\ IF waits THEN UNCHANGED <<body, starts>>
         ELSE Starts(m, IF m \in tla THEN "running" ELSE "done")
      /\ status' = [x \in Modules |->
                      IF x \notin cycle THEN status[x]
                      ELSE IF nowAsync[x] THEN "evaluating_async"
                      ELSE "evaluated"]
      /\ cycle_root' = Set(cycle_root, cycle, m)
      /\ tarjan' = Below(m)
      /\ frames' = Popped
      /\ op' = IF last THEN "idle" ELSE "eval"
      /\ promise' = IF last /\ ~nowAsync[m]
                    THEN [promise EXCEPT ![m] = "fulfilled"]
                    ELSE promise
      /\ UNCHANGED <<graphVars, dfs_index, dfs_ancestor, pending, exception,
                     parents, target, index, exec_list, imports>>

-----------------------------------------------------------------------------
(* The body of a module with top-level await settles *)

\* js_set_module_evaluated.
SetEvaluated(m) ==
  /\ status' = [status EXCEPT ![m] = "evaluated"]
  /\ async' = [async EXCEPT ![m] = FALSE]
  /\ promise' = IF promise[m] = "none" THEN promise
                ELSE [promise EXCEPT ![m] = "fulfilled"]

\* js_async_module_execution_fulfilled up to gather_available_ancestors.
BodyFulfilled(m) ==
  /\ op = "idle"
  /\ body[m] = "running"
  /\ body' = [body EXCEPT ![m] = "done"]
  /\ IF status[m] = "evaluated"
     THEN /\ Asserts(exception[m])
          /\ UNCHANGED <<status, async, promise, op, frames>>
     ELSE /\ Asserts(/\ status[m] = "evaluating_async" /\ ~exception[m] /\ async[m]
                     /\ promise[m] # "none" => cycle_root[m] = m)
          /\ SetEvaluated(m)
          /\ op' = "gather"
          /\ frames' = <<Call(m)>>
  /\ UNCHANGED <<graphVars, dfs_index, dfs_ancestor, pending, stamp, cycle_root,
                 exception, parents, target, tarjan, index, exec_list, clock,
                 imports, starts>>

\* A mutant of GatherNext: the loop does not go on to the parents of a module
\* that can run at once.
GatherShallow ==
  LET m == Frame.m
      p == parents[m][Frame.i]
      counts == p \notin exec_list /\ ~exception[cycle_root[p]]
      ready == counts /\ pending[p] = 1
  IN  /\ op = "gather"
      /\ Frame.i <= Len(parents[m])
      /\ Asserts(counts => /\ status[p] = "evaluating_async" /\ ~exception[p]
                           /\ async[p] /\ pending[p] > 0)
      /\ pending' = IF counts THEN [pending EXCEPT ![p] = @ - 1] ELSE pending
      /\ exec_list' = IF ready THEN exec_list \cup {p} ELSE exec_list
      /\ frames' = Advanced
      /\ UNCHANGED <<graphVars, status, dfs_index, dfs_ancestor, async, stamp,
                     cycle_root, exception, parents, promise, op, target, tarjan,
                     index, clock, imports, body, starts>>

\* One turn of the loop of gather_available_ancestors.
GatherNext ==
  LET m == Frame.m
      p == parents[m][Frame.i]
      counts == p \notin exec_list /\ ~exception[cycle_root[p]]
      ready == counts /\ pending[p] = 1
  IN  /\ op = "gather"
      /\ Frame.i <= Len(parents[m])
      /\ Asserts(counts => /\ status[p] = "evaluating_async" /\ ~exception[p]
                           /\ async[p] /\ pending[p] > 0)
      /\ pending' = IF counts THEN [pending EXCEPT ![p] = @ - 1] ELSE pending
      /\ exec_list' = IF ready THEN exec_list \cup {p} ELSE exec_list
      /\ frames' = IF ready /\ p \notin tla THEN Append(Advanced, Call(p))
                   ELSE Advanced
      /\ UNCHANGED <<graphVars, status, dfs_index, dfs_ancestor, async, stamp,
                     cycle_root, exception, parents, promise, op, target, tarjan,
                     index, clock, imports, body, starts>>

\* What is left to do when a call of the list's loop is over.
Rest(list) == IF list = {} THEN "idle" ELSE "run"

GatherReturn ==
  /\ op = "gather"
  /\ Frame.i > Len(parents[Frame.m])
  /\ frames' = Popped
  /\ op' = IF Len(frames) = 1 THEN Rest(exec_list) ELSE op
  /\ UNCHANGED <<graphVars, moduleVars, promise, target, tarjan, index, exec_list,
                 clock, imports, body, starts, aborted>>

\* The list is sorted by async_evaluation_timestamp: its first module.
IsFirst(x) == x \in exec_list /\ \A y \in exec_list : stamp[x] <= stamp[y]

\* js_async_module_execution_fulfilled: the module failed meanwhile, is started
\* (js_execute_async_module), or runs to its end (js_execute_sync_module).
Run(x) ==
  /\ op = "run"
  /\ IsFirst(x)
  /\ exec_list' = exec_list \ {x}
  /\ op' = Rest(exec_list \ {x})
  /\ \/ /\ status[x] = "evaluated"
        /\ Asserts(exception[x])
        /\ UNCHANGED <<status, async, promise, body, starts>>
     \/ /\ status[x] # "evaluated"
        /\ x \in tla
        /\ Starts(x, "running")
        /\ UNCHANGED <<status, async, promise, aborted>>
     \/ /\ status[x] # "evaluated"
        /\ x \notin tla
        /\ Starts(x, "done")
        /\ Asserts(promise[x] # "none" => cycle_root[x] = x)
        /\ SetEvaluated(x)
  /\ UNCHANGED <<graphVars, dfs_index, dfs_ancestor, pending, stamp, cycle_root,
                 exception, parents, target, frames, tarjan, index, clock,
                 imports>>

-----------------------------------------------------------------------------
(* A body fails *)

\* js_async_module_execution_rejected for a module that has not failed yet, up
\* to the loop over its parents.
Reject(m) ==
  /\ Asserts(/\ status[m] = "evaluating_async" /\ ~exception[m] /\ async[m]
             /\ promise[m] # "none" => cycle_root[m] = m)
  /\ exception' = [exception EXCEPT ![m] = TRUE]
  /\ status' = [status EXCEPT ![m] = "evaluated"]
  /\ async' = [async EXCEPT ![m] = FALSE]
  /\ promise' = IF promise[m] = "none" THEN promise
                ELSE [promise EXCEPT ![m] = "rejected"]
AlreadyFailed(m) ==
  /\ Asserts(exception[m])
  /\ UNCHANGED <<exception, status, async, promise>>

\* The body's promise is rejected: called as its reaction.
BodyRejected(m) ==
  /\ op = "idle"
  /\ body[m] = "running"
  /\ body' = [body EXCEPT ![m] = "failed"]
  /\ IF status[m] = "evaluated"
     THEN AlreadyFailed(m) /\ UNCHANGED <<op, frames>>
     ELSE Reject(m) /\ op' = "reject" /\ frames' = <<Call(m)>>
  /\ UNCHANGED <<graphVars, dfs_index, dfs_ancestor, pending, stamp, cycle_root,
                 parents, target, tarjan, index, exec_list, clock, imports,
                 starts>>

\* A body that runs from the list throws.
RunThrows(x) ==
  /\ op = "run"
  /\ IsFirst(x)
  /\ status[x] # "evaluated"
  /\ x \notin tla
  /\ Starts(x, "failed")
  /\ exec_list' = exec_list \ {x}
  /\ Reject(x)
  /\ op' = "reject"
  /\ frames' = <<Call(x)>>
  /\ UNCHANGED <<graphVars, dfs_index, dfs_ancestor, pending, stamp, cycle_root,
                 parents, target, tarjan, index, clock, imports>>

\* One turn of the loop over the parents.
RejectNext ==
  LET m == Frame.m
      p == parents[m][Frame.i]
  IN  /\ op = "reject"
      /\ Frame.i <= Len(parents[m])
      /\ IF status[p] = "evaluated"
         THEN AlreadyFailed(p) /\ frames' = Advanced
         ELSE Reject(p) /\ frames' = Append(Advanced, Call(p))
      /\ UNCHANGED <<graphVars, dfs_index, dfs_ancestor, pending, stamp, cycle_root,
                     parents, op, target, tarjan, index, exec_list, clock, imports,
                     body, starts>>

RejectReturn ==
  /\ op = "reject"
  /\ Frame.i > Len(parents[Frame.m])
  /\ frames' = Popped
  /\ op' = IF Len(frames) = 1 THEN Rest(exec_list) ELSE op
  /\ UNCHANGED <<graphVars, moduleVars, promise, target, tarjan, index, exec_list,
                 clock, imports, body, starts, aborted>>

-----------------------------------------------------------------------------

\* The steps of a C function that has been called.
Step ==
  \/ LinkVisit \/ LinkNext \/ LinkReturn \/ LinkFail
  \/ Evaluate \/ EvalVisit \/ EvalNext \/ EvalFailed \/ EvalThrows \/ EvalReturn
  \/ GatherNext \/ GatherReturn
  \/ \E x \in Modules : Run(x) \/ RunThrows(x)
  \/ RejectNext \/ RejectReturn

BodySettles == \E m \in Modules : BodyFulfilled(m) \/ BodyRejected(m)

Next == ~aborted /\ (Step \/ BodySettles \/ \E m \in entries : Import(m))

\* A call that was made goes on, and what a body awaits is settled.
Fairness == WF_vars(~aborted /\ Step) /\ WF_vars(~aborted /\ BodySettles)

Spec == Init /\ [][Next]_vars /\ Fairness

-----------------------------------------------------------------------------
(* Properties *)

\* What a module imports, directly or not, and itself: all that is in every set
\* around it that imports nothing from outside.
Closed(S) == \A m \in S : Members(req[m]) \subseteq S
Reached(m) ==
  {x \in Modules : \A S \in SUBSET Modules : m \in S /\ Closed(S) => x \in S}

\* No assertion of the linking and evaluation code ever fails.
AssertionsHold == ~aborted

\* A module's body is run at most once, however often and along whatever paths
\* it is imported, and only when each module that it imports has run to its end
\* without an exception, and all that this one imports too, unless the two are
\* on a cycle.
DependenciesFirst ==
  \A m \in Modules :
    /\ starts[m] <= 1
    /\ starts[m] = 1 =>
         \A d \in Members(req[m]) :
           m \notin Reached(d) => \A x \in Reached(d) : body[x] = "done"

\* The promise of an evaluation says what happened: when it is fulfilled, all
\* that the module imports has run to its end, and when it is rejected the body
\* of one of these modules has failed.
PromiseHonest ==
  \A m \in Modules :
    /\ promise[m] = "fulfilled" => \A x \in Reached(m) : body[x] = "done"
    /\ promise[m] = "rejected" => \E x \in Reached(m) : body[x] = "failed"

\* The promise of an evaluation is settled, once the bodies that wait at their
\* top level are.
ImportSettles ==
  \A m \in Modules : promise[m] = "pending" ~> promise[m] # "pending"
=============================================================================
