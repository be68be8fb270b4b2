------------------------------- MODULE Invoke -------------------------------
(***************************************************************************)
(* The invocation routes of the control plane: handle_invoke of            *)
(* control/mirage_lambda_control.ml with Admission, Scheduler and the      *)
(* table of results.  Once the body has been read a handler never yields   *)
(* to Lwt, so a request is one step; its parts are one operator per        *)
(* function of the code.                                                   *)
(*                                                                         *)
(* What Worker_pool.run_one does is module Worker; here it returns a       *)
(* result, returns an error, raises, or takes the process down.            *)
(***************************************************************************)
EXTENDS Integers, Sequences, FiniteSets

CONSTANTS Tenants,
          Sizes,            \* lengths of request bodies
          MaxConcurrent,    \* the fields of default_quota
          MaxQueued,
          MaxQueuedBytes,
          MaxReqs           \* bound: how many requests are handled

ASSUME QuotaAssumption ==
  /\ Sizes \subseteq Nat
  /\ MaxConcurrent \in Nat
  /\ MaxQueued \in Nat
  /\ MaxQueuedBytes \in Nat
  /\ MaxReqs \in Nat

VARIABLES concurrent,      \* the tables of Admission.t, 0 where absent
          queued,
          queued_bytes,
          pending,         \* Scheduler's queue
          invocations,     \* results by invocation id: the request of each
          reqs,            \* how many requests have been handled
          reply,           \* the last response
          raised,          \* history, this process: sync exceptions by tenant
          stuck,           \* history, this process: requests that were admitted
                           \*   and then neither run nor enqueued, by tenant
          told             \* history, this process: the id in each 200 response

admission == <<concurrent, queued, queued_bytes>>
history == <<raised, stuck, told>>
vars == <<admission, pending, invocations, reqs, reply, history>>

Request == 1 .. MaxReqs
Qualifiers == {"alias", "digest"}
NoReply == [req |-> 0, qualifier |-> "alias", status |-> 0]
Zero == [t \in Tenants |-> 0]
NoResult == [i \in {} |-> 0]

\* make_state
Init ==
  /\ concurrent = Zero
  /\ queued = Zero
  /\ queued_bytes = Zero
  /\ pending = <<>>
  /\ invocations = NoResult
  /\ reqs = 0
  /\ reply = NoReply
  /\ raised = Zero
  /\ stuck = Zero
  /\ told = NoResult

-----------------------------------------------------------------------------
(* Admission *)

\* A mutant of Admissible: one request more than max_queued is let in.
AdmissibleOneMore(t, b) ==
  /\ queued[t] <= MaxQueued
  /\ queued_bytes[t] + b <= MaxQueuedBytes

\* The checks of admit.  The deadline is always 5000 ms ahead, so it is
\* never impossible.
Admissible(t, b) ==
  /\ queued[t] < MaxQueued
  /\ queued_bytes[t] + b <= MaxQueuedBytes

AddQueued(t) == queued' = [queued EXCEPT ![t] = @ + 1]
AddBytes(t, b) == queued_bytes' = [queued_bytes EXCEPT ![t] = @ + b]

Acceptable(t) == concurrent[t] < MaxConcurrent

\* A mutant of Dequeued: accept_for_execution forgets to dequeue.
DequeuedNever(n) == n

\* accept_for_execution takes one from queued, which is what admit added, and
\* never below 0.  (It leaves queued_bytes alone.)
Dequeued(n) == IF n > 0 THEN n - 1 ELSE n

\* A mutant of Released: release does nothing.
ReleasedNever(n) == n

Released(n) == IF n > 0 THEN n - 1 ELSE n

-----------------------------------------------------------------------------
(* handle_invoke *)

\* A mutant of NextId: the queue is counted instead of the results.
NextIdFromQueue == Len(pending) + 1

\* The id is made from the number of results before the request is run.
NextId == Cardinality(DOMAIN invocations) + 1

Respond(qual, status) ==
  /\ reqs < MaxReqs
  /\ reqs' = reqs + 1
  /\ reply' = [req |-> reqs + 1, qualifier |-> qual, status |-> status]

\* 429 before anything changed
NotAdmitted(t, b, qual) ==
  /\ ~Admissible(t, b)
  /\ Respond(qual, 429)
  /\ UNCHANGED <<admission, pending, invocations, history>>

\* Ids.Qualifier.of_string_exn takes slugs of at most 63 characters; a digest
\* has 64, and the exception leaves the handler after the request was admitted.
EnqueueRaises(t, b) ==
  /\ Admissible(t, b)
  /\ AddQueued(t)
  /\ AddBytes(t, b)
  /\ stuck' = [stuck EXCEPT ![t] = @ + 1]
  /\ Respond("digest", 500)
  /\ UNCHANGED <<concurrent, pending, invocations, raised, told>>

Enqueue(t, b) ==
  /\ Admissible(t, b)
  /\ AddQueued(t)
  /\ AddBytes(t, b)
  /\ pending' = Append(pending, [id |-> NextId, tenant |-> t, req |-> reqs + 1])
  /\ Respond("alias", 202)
  /\ UNCHANGED <<concurrent, invocations, raised, stuck, told>>

\* accept_for_execution refuses what admit has counted.
NotAccepted(t, b, qual) ==
  /\ Admissible(t, b)
  /\ ~Acceptable(t)
  /\ AddQueued(t)
  /\ AddBytes(t, b)
  /\ stuck' = [stuck EXCEPT ![t] = @ + 1]
  /\ Respond(qual, 429)
  /\ UNCHANGED <<concurrent, pending, invocations, raised, told>>

\* admit and accept_for_execution have both gone through.
Execute(t, b) ==
  /\ Admissible(t, b)
  /\ Acceptable(t)
  /\ queued' = [queued EXCEPT ![t] = Dequeued(@ + 1)]
  /\ AddBytes(t, b)
  /\ UNCHANGED <<pending, stuck>>

\* run_one returns Ok: the result is stored under the id.
RunOk(t, b) ==
  /\ Execute(t, b)
  /\ concurrent' = [concurrent EXCEPT ![t] = Released(@ + 1)]
  /\ invocations' = [i \in DOMAIN invocations \cup {NextId} |->
                       IF i = NextId THEN reqs + 1 ELSE invocations[i]]
  /\ told' = [k \in DOMAIN told \cup {reqs + 1} |->
                IF k = reqs + 1 THEN NextId ELSE told[k]]
  /\ Respond("alias", 200)
  /\ UNCHANGED raised

\* run_one returns Error: 404, whatever the error was.
RunError(t, b) ==
  /\ Execute(t, b)
  /\ concurrent' = [concurrent EXCEPT ![t] = Released(@ + 1)]
  /\ Respond("alias", 404)
  /\ UNCHANGED <<invocations, raised, told>>

\* run_one raises, or already the conversion of a digest to a qualifier:
\* release is skipped.
RunRaises(t, b, qual) ==
  /\ Execute(t, b)
  /\ concurrent' = [concurrent EXCEPT ![t] = @ + 1]
  /\ raised' = [raised EXCEPT ![t] = @ + 1]
  /\ Respond(qual, 500)
  /\ UNCHANGED <<invocations, told>>

\* run_one takes the process down (Worker's Destroy): after the restart
\* everything above starts empty, and nobody was answered.
RunAborts(t, b) ==
  /\ Admissible(t, b)
  /\ Acceptable(t)
  /\ concurrent' = Zero
  /\ queued' = Zero
  /\ queued_bytes' = Zero
  /\ pending' = <<>>
  /\ invocations' = NoResult
  /\ raised' = Zero
  /\ stuck' = Zero
  /\ told' = NoResult
  /\ Respond("alias", 0)

Next ==
  \E t \in Tenants, b \in Sizes :
    \/ \E qual \in Qualifiers :
         NotAdmitted(t, b, qual) \/ NotAccepted(t, b, qual) \/ RunRaises(t, b, qual)
    \/ EnqueueRaises(t, b)
    \/ Enqueue(t, b)
    \/ RunOk(t, b)
    \/ RunError(t, b)
    \/ RunAborts(t, b)

Spec == Init /\ [][Next]_vars

-----------------------------------------------------------------------------
(* Properties *)

PendingOf(t) == {i \in DOMAIN pending : pending[i].tenant = t}

\* The counters of Admission are never negative, whatever is taken off them.
TypeOK ==
  /\ concurrent \in [Tenants -> Nat]
  /\ queued \in [Tenants -> Nat]
  /\ queued_bytes \in [Tenants -> Nat]
  /\ pending \in Seq([id : Nat, tenant : Tenants, req : Request])
  /\ invocations \in [DOMAIN invocations -> Request]
  /\ reqs \in 0 .. MaxReqs
  /\ reply \in [req : 0 .. MaxReqs, qualifier : Qualifiers,
                status : {0, 200, 202, 404, 429, 500}]
  /\ raised \in [Tenants -> Nat]
  /\ stuck \in [Tenants -> Nat]
  /\ told \in [DOMAIN told -> Nat]

\* Execution slots: between two requests a tenant occupies as many slots as
\* it had exceptions since the process started.  So nothing else leaks a
\* slot, a slot that leaked never comes back, and a tenant whose functions
\* do not raise is never refused for concurrency.
SlotsAccounted == \A t \in Tenants : concurrent[t] = raised[t]

\* The queue counter: a tenant's queued count is what the scheduler holds for
\* it plus the requests that failed between admit and execution.
QueueAccounted ==
  \A t \in Tenants : queued[t] = Cardinality(PendingOf(t)) + stuck[t]

\* No sequence of requests takes a tenant beyond its quota, the entries in
\* the scheduler and the leaked slots included.
WithinQuota ==
  \A t \in Tenants :
    /\ concurrent[t] <= MaxConcurrent
    /\ queued[t] <= MaxQueued
    /\ queued_bytes[t] <= MaxQueuedBytes

\* The id that a synchronous caller was given finds the result of that caller's
\* request.
ToldKept ==
  \A k \in DOMAIN told :
    told[k] \in DOMAIN invocations /\ invocations[told[k]] = k

\* The id that an asynchronous caller was given finds no result that was there
\* before.
ToldFresh ==
  \A i \in DOMAIN pending :
    pending[i].id \in DOMAIN invocations =>
      invocations[pending[i].id] > pending[i].req

\* Ids are made from the size of the table of results, which asynchronous
\* requests do not enter.  Still Hashtbl.replace never replaces: the id of a
\* synchronous caller keeps its result whatever ran since, and the id of an
\* asynchronous caller, although others may be told the same one, never leads
\* to a result older than the request.
ResultsKept == ToldKept /\ ToldFresh

\* "qualifier is a revision digest or alias" (implementation guide, 827; also
\* registry.mli:17): a digest is served like an alias.
DigestServed == reply.qualifier = "digest" => reply.status # 500
=============================================================================
