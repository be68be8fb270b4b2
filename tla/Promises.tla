----------------------------- MODULE Promises -----------------------------
(***************************************************************************)
(* Promises, the job queue and async functions of the JavaScript engine    *)
(* (qjs/lib/_qjs_quickjs.c), as the code of one function uses them.        *)
(*                                                                         *)
(* JavaScript code is left open: whatever is on top of `stack' may create  *)
(* promises, settle the ones whose resolving functions it holds, register  *)
(* reactions, call async functions, await, return and throw, in any order. *)
(* The host (qjs_stubs.c) starts scripts, runs one job at a time when no   *)
(* code is running, and settles the promises that it holds.                *)
(*                                                                         *)
(* Values are abstracted to what the resolving functions tell apart.  The  *)
(* getter of a `then' property, which is also the program's code, either   *)
(* returns or throws and does nothing else.  The flag that the host's      *)
(* rejection tracker sets (is_handled, q->terminal) is left out.           *)
(***************************************************************************)
EXTENDS Naturals, Sequences, FiniteSets

CONSTANTS Programs,     \* bound: what a program uses, how many promises it makes
          MaxPromises,  \* bound: promises created by any of them
          MaxPairs,     \* bound: pairs of resolving functions
          MaxAsync,     \* bound: calls of async functions
          MaxAwaits,    \* bound: awaits in one of them
          MaxGroups,    \* bound: calls of Promise.all and the like
          MaxScripts,   \* bound: scripts evaluated
          MaxDepth      \* bound: nesting of running code

VARIABLES program,   \* the member of Programs that runs
          promises,  \* JSPromiseData of the promises, in order of creation
          pairs,     \* pairs of resolving functions, with their shared
                     \*   already_resolved and who holds them
          asyncs,    \* JSAsyncFunctionState of the calls of async functions
          groups,    \* calls of Promise.all, allSettled, any and race
          jobs,      \* rt->job_list
          stack,     \* the code that is running, the innermost last
          scripts,   \* scripts evaluated
          fired      \* history: reaction jobs run for each promise

vars == <<program, promises, pairs, asyncs, groups, jobs, stack,
          scripts, fired>>

PromiseId == 1 .. MaxPromises
Holder == {"script", "engine", "host"}

\* A value: something without a callable then, an object whose then is the
\* program's own function, one whose then getter throws, or a promise.
Value == [kind : {"plain", "thenable", "broken"}, of : {0}]
           \cup [kind : {"promise"}, of : PromiseId]
Plain == [kind |-> "plain", of |-> 0]
PromiseValue(p) == [kind |-> "promise", of |-> p]

\* The functions a reaction may call: none, the program's, the two resolving
\* functions of a pair, the two that resume an async function, and the element
\* function of a Promise.all.
Handler == [fn : {"none", "user", "resolve", "reject", "resume", "element"},
            of : Nat]
Fn(f, i) == [fn |-> f, of |-> i]
NoFn == Fn("none", 0)
UserFn == Fn("user", 0)

\* What the operations below work on, as one record.
Engine == [promises |-> promises, pairs |-> pairs, jobs |-> jobs,
           fired |-> fired]
Becomes(E) ==
  /\ promises' = E.promises
  /\ pairs' = E.pairs
  /\ jobs' = E.jobs
  /\ fired' = E.fired

-----------------------------------------------------------------------------
(* Settling *)

\* js_create_resolving_functions.
CreateResolving(E, p, holder) ==
  [E EXCEPT !.pairs =
     Append(@, [promise |-> p, called |-> FALSE, held |-> holder])]

\* js_promise_constructor and js_new_promise_capability.
NewPromise(E, holder) ==
  LET blank == [state |-> "pending", result |-> Plain, reactions |-> <<>>,
                thens |-> 0]
  IN  CreateResolving([E EXCEPT !.promises = Append(@, blank)],
                      Len(E.promises) + 1, holder)

\* The job for a reaction of promise p: args[0 .. 4] of promise_reaction_job.
ReactionJob(p, re, reject, value) ==
  [job |-> "reaction", of |-> p, nth |-> re.nth, cap |-> re.cap,
   handler |-> IF reject THEN re.onRejected ELSE re.onFulfilled,
   reject |-> reject, arg |-> value]

\* The job of js_promise_resolve_thenable_job.
ThenableJob(p, value) ==
  [job |-> "thenable", of |-> p, nth |-> 0, cap |-> 0, handler |-> NoFn,
   reject |-> FALSE, arg |-> value]

\* fulfill_or_reject_promise.
FulfillOrReject(E, p, reject, value) ==
  IF E.promises[p].state # "pending"
  THEN E
  ELSE LET res == E.promises[p].reactions
       IN  [E EXCEPT
             !.promises[p] =
               [@ EXCEPT !.state = IF reject THEN "rejected" ELSE "fulfilled",
                         !.result = value,
                         !.reactions = <<>>],
             !.jobs = @ \o [i \in 1 .. Len(res) |->
                              ReactionJob(p, res[i], reject, value)]]

\* A mutant of CallResolving: already_resolved is only set when the promise is
\* settled, not when it is resolved to a thenable.
CallResolvingLate(E, q, reject, value) ==
  LET p == E.pairs[q].promise
      F == [E EXCEPT !.pairs[q].called = TRUE]
  IN  IF E.pairs[q].called
      THEN E
      ELSE IF reject \/ value.kind = "plain"
      THEN FulfillOrReject(F, p, reject, value)
      ELSE IF value = PromiseValue(p) \/ value.kind = "broken"
      THEN FulfillOrReject(F, p, TRUE, Plain)
      ELSE [E EXCEPT !.jobs = Append(@, ThenableJob(p, value))]

\* js_promise_resolve_function_call, of either function of pair q.
CallResolving(E, q, reject, value) ==
  LET p == E.pairs[q].promise
      F == [E EXCEPT !.pairs[q].called = TRUE]
  IN  IF E.pairs[q].called
      THEN E
      ELSE IF reject \/ value.kind = "plain"
      THEN FulfillOrReject(F, p, reject, value)
      ELSE IF value = PromiseValue(p) \/ value.kind = "broken"
      THEN FulfillOrReject(F, p, TRUE, Plain)
      ELSE [F EXCEPT !.jobs = Append(@, ThenableJob(p, value))]

-----------------------------------------------------------------------------
(* Reactions *)

\* A mutant of PerformThen: the reaction is kept with the promise, settled or
\* not.
PerformThenKept(E, p, onFulfilled, onRejected, cap) ==
  [E EXCEPT !.promises[p].thens = @ + 1,
            !.promises[p].reactions =
              Append(@, [nth |-> E.promises[p].thens + 1,
                         onFulfilled |-> onFulfilled,
                         onRejected |-> onRejected, cap |-> cap])]

\* perform_promise_then; cap is the pair of the derived promise, or 0.
PerformThen(E, p, onFulfilled, onRejected, cap) ==
  LET s == E.promises[p]
      re == [nth |-> s.thens + 1, onFulfilled |-> onFulfilled,
             onRejected |-> onRejected, cap |-> cap]
      F == [E EXCEPT !.promises[p].thens = @ + 1]
  IN  IF s.state = "pending"
      THEN [F EXCEPT !.promises[p].reactions = Append(@, re)]
      ELSE [F EXCEPT !.jobs =
              Append(@, ReactionJob(p, re, s.state = "rejected", s.result))]

\* js_promise_then: the derived promise is held by the reaction alone.
Then(E, p, onFulfilled, onRejected) ==
  LET F == NewPromise(E, "engine")
  IN  PerformThen(F, p, onFulfilled, onRejected, Len(F.pairs))

\* js_promise_resolve: a promise stands for itself.
Resolved(E, value) ==
  IF value.kind = "promise"
  THEN E
  ELSE LET F == NewPromise(E, "engine")
       IN  CallResolving(F, Len(F.pairs), FALSE, value)
ResolvedTo(E, value) ==
  IF value.kind = "promise" THEN value.of ELSE Len(E.promises) + 1

-----------------------------------------------------------------------------
(* Running code *)

Frame == [run : {"script", "handler", "then", "async", "group"}, of : Nat]
Running == stack # <<>>
Top == stack[Len(stack)]
Popped == SubSeq(stack, 1, Len(stack) - 1)
Pushed(f, i) == Append(stack, [run |-> f, of |-> i])

Uses(op) == op \in program.uses

\* Bound: a thenable job creates a promise and two pairs when it runs.
Room(E) ==
  LET queued == Cardinality({i \in 1 .. Len(E.jobs) : E.jobs[i].job = "thenable"})
  IN  /\ Len(E.promises) + queued <= program.promises
      /\ Len(E.pairs) + 2 * queued <= MaxPairs

\* The values the program passes on.
Values ==
  {Plain}
    \cup (IF Uses("chain")
          THEN {PromiseValue(p) : p \in 1 .. Len(promises)} ELSE {})
    \cup (IF Uses("thenable")
          THEN [kind : {"thenable", "broken"}, of : {0}] ELSE {})

ASSUME ProgramsAssumption ==
  \A pr \in Programs : pr.promises \in Nat /\ pr.promises <= MaxPromises

Init ==
  /\ program \in Programs
  /\ promises = <<>>
  /\ pairs = <<>>
  /\ asyncs = <<>>
  /\ groups = <<>>
  /\ jobs = <<>>
  /\ stack = <<>>
  /\ scripts = 0
  /\ fired = [p \in PromiseId |-> 0]

\* new Promise(executor) and Promise.withResolvers.  The executor's body is
\* what the code does next; an exception in it is a call of the reject function.
New ==
  /\ Running
  /\ Uses("new")
  /\ Becomes(NewPromise(Engine, "script"))
  /\ Room(Engine')
  /\ UNCHANGED <<program, asyncs, groups, stack, scripts>>

\* host.rpc and host.later: JS_NewPromiseCapability, both functions kept in
\* the promise table.
HostCall ==
  /\ Running
  /\ Uses("host")
  /\ Becomes(NewPromise(Engine, "host"))
  /\ Room(Engine')
  /\ UNCHANGED <<program, asyncs, groups, stack, scripts>>

\* The program calls a resolving function that it was given.
Settle(q, reject, value) ==
  /\ Running
  /\ pairs[q].held = "script"
  /\ Becomes(CallResolving(Engine, q, reject, value))
  /\ Room(Engine')
  /\ UNCHANGED <<program, asyncs, groups, stack, scripts>>

\* promise.then, catch and finally.
CallThen(p, onFulfilled, onRejected) ==
  /\ Running
  /\ Uses("then")
  /\ Becomes(Then(Engine, p, onFulfilled, onRejected))
  /\ Room(Engine')
  /\ UNCHANGED <<program, asyncs, groups, stack, scripts>>

\* js_async_function_call up to the first instruction of the body.
CallAsync ==
  /\ Running
  /\ Uses("async")
  /\ Len(asyncs) < MaxAsync
  /\ Len(stack) < MaxDepth
  /\ Becomes(NewPromise(Engine, "engine"))
  /\ Room(Engine')
  /\ asyncs' = Append(asyncs, [cap |-> Len(pairs) + 1, state |-> "running",
                               awaits |-> 0])
  /\ stack' = Pushed("async", Len(asyncs) + 1)
  /\ UNCHANGED <<program, groups, scripts>>

\* A mutant of Await: only the fulfilment of what is awaited resumes the
\* function.
AwaitFulfilled(value) ==
  LET a == Top.of
  IN  /\ Running
      /\ Top.run = "async"
      /\ asyncs[a].awaits < MaxAwaits
      /\ Becomes(PerformThen(Resolved(Engine, value), ResolvedTo(Engine, value),
                             Fn("resume", a), UserFn, 0))
      /\ Room(Engine')
      /\ asyncs' = [asyncs EXCEPT ![a].state = "awaiting", ![a].awaits = @ + 1]
      /\ stack' = Popped
      /\ UNCHANGED <<program, groups, scripts>>

\* js_async_function_resume when the body stopped at an await.
Await(value) ==
  LET a == Top.of
      resume == Fn("resume", a)
  IN  /\ Running
      /\ Top.run = "async"
      /\ asyncs[a].awaits < MaxAwaits
      /\ Becomes(PerformThen(Resolved(Engine, value), ResolvedTo(Engine, value),
                             resume, resume, 0))
      /\ Room(Engine')
      /\ asyncs' = [asyncs EXCEPT ![a].state = "awaiting", ![a].awaits = @ + 1]
      /\ stack' = Popped
      /\ UNCHANGED <<program, groups, scripts>>

\* A mutant of GroupStart: remainingElementsCount starts at zero.
GroupStartAtZero(kind) ==
  /\ Running
  /\ Uses(kind)
  /\ Len(groups) < MaxGroups
  /\ Len(stack) < MaxDepth
  /\ Becomes(NewPromise(Engine, "engine"))
  /\ Room(Engine')
  /\ groups' = Append(groups, [kind |-> kind, cap |-> Len(pairs) + 1,
                               remaining |-> 0])
  /\ stack' = Pushed("group", Len(groups) + 1)
  /\ UNCHANGED <<program, asyncs, scripts>>

\* js_promise_all (all, allSettled, any) and js_promise_race up to the loop.
GroupStart(kind) ==
  /\ Running
  /\ Uses(kind)
  /\ Len(groups) < MaxGroups
  /\ Len(stack) < MaxDepth
  /\ Becomes(NewPromise(Engine, "engine"))
  /\ Room(Engine')
  /\ groups' = Append(groups, [kind |-> kind, cap |-> Len(pairs) + 1,
                               remaining |-> 1])
  /\ stack' = Pushed("group", Len(groups) + 1)
  /\ UNCHANGED <<program, asyncs, scripts>>

\* One turn of the loop: the item's promise gets the reactions of its kind.
GroupItem(value) ==
  LET g == Top.of
      resolve == Fn("resolve", groups[g].cap)
      reject == Fn("reject", groups[g].cap)
      element == Fn("element", g)
      onFulfilled == IF groups[g].kind \in {"all", "allSettled"}
                     THEN element ELSE resolve
      onRejected == IF groups[g].kind \in {"allSettled", "any"}
                    THEN element ELSE reject
  IN  /\ Running
      /\ Top.run = "group"
      /\ Becomes(Then(Resolved(Engine, value), ResolvedTo(Engine, value),
                      onFulfilled, onRejected))
      /\ Room(Engine')
      /\ groups' = [groups EXCEPT ![g].remaining = @ + 1]
      /\ UNCHANGED <<program, asyncs, stack, scripts>>

\* remainingElementsCount_add(-1), and what follows when it is zero.  The
\* guard alreadyCalled of an element function is only met by a then that is
\* not the engine's own.  race keeps no count.
OneLess(g) == [groups EXCEPT ![g].remaining = @ - 1]
AfterLess(E, g) ==
  IF groups[g].remaining = 1 /\ groups[g].kind # "race"
  THEN CallResolving(E, groups[g].cap, groups[g].kind = "any", Plain)
  ELSE E

\* The loop of js_promise_all has seen its last item.
GroupDone ==
  /\ Running
  /\ Top.run = "group"
  /\ groups' = OneLess(Top.of)
  /\ Becomes(AfterLess(Engine, Top.of))
  /\ stack' = Popped
  /\ UNCHANGED <<program, asyncs, scripts>>

\* The running code returns value or, if reject, throws: the tails of
\* promise_reaction_job, js_promise_resolve_thenable_job,
\* js_async_function_resume and, for an exception of the iterator,
\* js_promise_all.
Leave(reject, value) ==
  LET of == Top.of
  IN  /\ Running
      /\ \/ /\ Top.run = "script"
            /\ Becomes(Engine)
            /\ UNCHANGED asyncs
         \/ /\ Top.run = "handler"
            /\ Becomes(CallResolving(Engine, of, reject, value))
            /\ UNCHANGED asyncs
         \/ /\ Top.run = "then"
            /\ Becomes(IF reject THEN CallResolving(Engine, of, TRUE, value)
                       ELSE Engine)
            /\ UNCHANGED asyncs
         \/ /\ Top.run = "async"
            /\ Becomes(CallResolving(Engine, asyncs[of].cap, reject, value))
            /\ asyncs' = [asyncs EXCEPT ![of].state = "completed"]
         \/ /\ Top.run = "group"
            /\ reject
            /\ Becomes(CallResolving(Engine, groups[of].cap, TRUE, value))
            /\ UNCHANGED asyncs
      /\ Room(Engine')
      /\ stack' = Popped
      /\ UNCHANGED <<program, groups, scripts>>

-----------------------------------------------------------------------------
(* The host *)

\* JS_Eval of a script, or a call of the function's handler.
EvalScript ==
  /\ ~Running
  /\ scripts < MaxScripts
  /\ scripts' = scripts + 1
  /\ stack' = Pushed("script", 0)
  /\ Becomes(Engine)
  /\ UNCHANGED <<program, asyncs, groups>>

\* mlqjs_resolve: the result is JSON, or was not and rejects; the slot of the
\* promise table is emptied, so each promise is settled once.
HostSettle(q, reject) ==
  /\ ~Running
  /\ pairs[q].held = "host"
  /\ ~pairs[q].called
  /\ Becomes(CallResolving(Engine, q, reject, Plain))
  /\ UNCHANGED <<program, asyncs, groups, stack, scripts>>

\* JS_ExecutePendingJob takes the job at the head of the list.
Taken == [Engine EXCEPT !.jobs = Tail(@)]
TakenReaction == [Taken EXCEPT !.fired[Head(jobs).of] = @ + 1]

\* promise_reaction_job with a handler that the engine implements.
RunNative ==
  LET j == Head(jobs)
  IN  /\ ~Running
      /\ jobs # <<>>
      /\ j.job = "reaction"
      /\ \/ /\ j.handler.fn = "none"
            /\ Becomes(CallResolving(TakenReaction, j.cap, j.reject, j.arg))
            /\ UNCHANGED groups
         \/ /\ j.handler.fn \in {"resolve", "reject"}
            /\ Becomes(CallResolving(
                 CallResolving(TakenReaction, j.handler.of, j.handler.fn = "reject",
                               j.arg),
                 j.cap, FALSE, Plain))
            /\ UNCHANGED groups
         \/ /\ j.handler.fn = "element"
            /\ groups' = OneLess(j.handler.of)
            /\ Becomes(CallResolving(AfterLess(TakenReaction, j.handler.of),
                                     j.cap, FALSE, Plain))
      /\ UNCHANGED <<program, asyncs, stack, scripts>>

\* promise_reaction_job with a function of the program, or with one that
\* resumes an async function (js_async_function_resolve_call).
RunUser ==
  LET j == Head(jobs)
  IN  /\ ~Running
      /\ jobs # <<>>
      /\ j.job = "reaction"
      /\ \/ /\ j.handler.fn = "user"
            /\ stack' = Pushed("handler", j.cap)
            /\ UNCHANGED asyncs
         \/ /\ j.handler.fn = "resume"
            /\ stack' = Pushed("async", j.handler.of)
            /\ asyncs' = [asyncs EXCEPT ![j.handler.of].state = "running"]
      /\ Becomes(TakenReaction)
      /\ UNCHANGED <<program, groups, scripts>>

\* js_promise_resolve_thenable_job: a second pair for the same promise, and a
\* call of then, which is the engine's for a promise.
RunThenable ==
  LET j == Head(jobs)
      q == Len(pairs) + 1
  IN  /\ ~Running
      /\ jobs # <<>>
      /\ j.job = "thenable"
      /\ \/ /\ j.arg.kind = "promise"
            /\ Becomes(Then(CreateResolving(Taken, j.of, "engine"), j.arg.of,
                            Fn("resolve", q), Fn("reject", q)))
            /\ UNCHANGED stack
         \/ /\ j.arg.kind = "thenable"
            /\ Becomes(CreateResolving(Taken, j.of, "script"))
            /\ stack' = Pushed("then", q)
      /\ UNCHANGED <<program, asyncs, groups, scripts>>

RunJob == RunNative \/ RunUser \/ RunThenable

Next ==
  \/ New
  \/ HostCall
  \/ \E q \in 1 .. Len(pairs), reject \in BOOLEAN, value \in Values :
       Settle(q, reject, value)
  \/ \E p \in 1 .. Len(promises), f, r \in {NoFn, UserFn} : CallThen(p, f, r)
  \/ CallAsync
  \/ \E value \in Values : Await(value)
  \/ \E kind \in {"all", "allSettled", "any", "race"} : GroupStart(kind)
  \/ \E value \in Values : GroupItem(value)
  \/ GroupDone
  \/ \E reject \in BOOLEAN, value \in Values : Leave(reject, value)
  \/ EvalScript
  \/ \E q \in 1 .. Len(pairs), reject \in BOOLEAN : HostSettle(q, reject)
  \/ RunJob

\* The program's code ends, and the host keeps pumping while jobs are left.
Fairness ==
  /\ WF_vars(RunJob)
  /\ WF_vars(\E reject \in BOOLEAN : Leave(reject, Plain))

Spec == Init /\ [][Next]_vars /\ Fairness

-----------------------------------------------------------------------------
(* Properties *)

PromisesOf(E) == 1 .. Len(E.promises)
PairsOf(E) == 1 .. Len(E.pairs)
JobsOf(E) == 1 .. Len(E.jobs)

\* What can still settle promise p: a pair of resolving functions that was not
\* called yet, or a queued thenable job, which will create such a pair.
Settlers(E, p) ==
  {<<"pair", q>> : q \in {q \in PairsOf(E) :
                            E.pairs[q].promise = p /\ ~E.pairs[q].called}}
    \cup {<<"job", i>> : i \in {i \in JobsOf(E) :
                            E.jobs[i].job = "thenable" /\ E.jobs[i].of = p}}

\* A promise that is pending can be settled in exactly one way, and one that is
\* settled in none: the early return "should never happen" of
\* fulfill_or_reject_promise is never taken, no result is ever replaced, and no
\* promise is left that nothing can settle.
OneSettlerIn(E) ==
  \A p \in PromisesOf(E) :
    IF E.promises[p].state = "pending"
    THEN \E s \in Settlers(E, p) : Settlers(E, p) = {s}
    ELSE Settlers(E, p) = {}
OneSettler == OneSettlerIn(Engine)

\* No reaction is lost, run twice or run out of order: of the reactions
\* registered on a promise the first fired[p] have run, and the others wait, in
\* order, with the promise while it is pending and in the job queue after that.
ReactionJobs(E, p) ==
  {i \in JobsOf(E) : E.jobs[i].job = "reaction" /\ E.jobs[i].of = p}
WaitingInPromise(E, p) ==
  LET s == E.promises[p]
  IN  /\ E.fired[p] = 0
      /\ ReactionJobs(E, p) = {}
      /\ Len(s.reactions) = s.thens
      /\ \A k \in 1 .. s.thens : s.reactions[k].nth = k
WaitingInQueue(E, p) ==
  LET s == E.promises[p]
  IN  /\ s.reactions = <<>>
      /\ {E.jobs[i].nth : i \in ReactionJobs(E, p)} = E.fired[p] + 1 .. s.thens
      /\ \A i, j \in ReactionJobs(E, p) :
           i < j => E.jobs[i].nth < E.jobs[j].nth
ReactionsInOrderIn(E) ==
  \A p \in PromisesOf(E) :
    IF E.promises[p].state = "pending"
    THEN WaitingInPromise(E, p)
    ELSE WaitingInQueue(E, p)
ReactionsInOrder == ReactionsInOrderIn(Engine)

\* The reactions, registered or queued, that would call one of the functions in
\* fns.
Calling(fns) ==
  (UNION {{<<"reaction", p, k>> :
             k \in {k \in 1 .. Len(promises[p].reactions) :
                      \/ promises[p].reactions[k].onFulfilled \in fns
                      \/ promises[p].reactions[k].onRejected \in fns}} :
            p \in PromisesOf(Engine)})
    \cup {<<"job", i, 0>> : i \in {i \in JobsOf(Engine) : jobs[i].handler \in fns}}
Activations(run, i) ==
  {d \in 1 .. Len(stack) : stack[d] = [run |-> run, of |-> i]}

\* An async function that waits is resumed by exactly one reaction, registered
\* or queued; one that runs is on the stack once and resumed by none; one that
\* has completed has settled its promise and is never resumed, as
\* async_func_resume asserts.
ResumedOnce ==
  \A a \in 1 .. Len(asyncs) :
    LET s == asyncs[a].state
    IN  /\ Cardinality(Calling({Fn("resume", a)})) = IF s = "awaiting" THEN 1 ELSE 0
        /\ Cardinality(Activations("async", a)) = IF s = "running" THEN 1 ELSE 0
        /\ s = "completed" <=> pairs[asyncs[a].cap].called

\* Promise.all, allSettled and any count what they wait for exactly: until the
\* promise they returned is settled, remainingElementsCount is the number of
\* their reactions that have not run, plus one while the loop runs, and it is
\* not zero.  So the promise is not left pending when the last item is settled.
GroupsCounted ==
  \A g \in 1 .. Len(groups) :
    LET q == groups[g].cap
    IN  groups[g].kind # "race" /\ ~pairs[q].called =>
          /\ groups[g].remaining > 0
          /\ groups[g].remaining
               = Cardinality(Activations("group", g))
                   + Cardinality(Calling({Fn("element", g), Fn("resolve", q),
                                          Fn("reject", q)}))

\* Once a promise is settled, which it then stays, its reactions all run, as
\* long as the host keeps pumping and the code that it runs ends.
Settled(p) == p \in PromisesOf(Engine) /\ promises[p].state # "pending"
ReactionsRun ==
  \A p \in PromiseId : []<>(Settled(p) => fired[p] = promises[p].thens)
=============================================================================
