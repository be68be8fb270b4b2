--------------------------- MODULE Control_proofs ---------------------------
(***************************************************************************)
(* The control plane.                                                      *)
(*                                                                         *)
(* Invoke: the accounts of the admission controller and the table of       *)
(* results, for any tenants, body sizes, quotas and number of requests.    *)
(*                                                                         *)
(* Deployment: what a deployment leaves in the store, in the registry and  *)
(* in the checkpoint, for any functions and bundles and any number of      *)
(* failures, crashes and restarts.                                         *)
(***************************************************************************)
EXTENDS Invoke, Deployment, FiniteSetTheorems, TLAPS

-----------------------------------------------------------------------------
(* Invoke *)

\* The ids given out are 1, 2, 3 ... without a gap: the size of the table is
\* the last of them.
Numbered == \E n \in Nat : DOMAIN invocations = 1 .. n

\* Only requests that have been handled were told an id.
ToldHandled == DOMAIN told \subseteq 1 .. reqs

\* The requests in the scheduler have been handled.
PendingHandled == \A i \in DOMAIN pending : pending[i].req <= reqs

IInv ==
  /\ TypeOK
  /\ SlotsAccounted
  /\ WithinQuota
  /\ QueueAccounted
  /\ Numbered
  /\ ToldHandled
  /\ ToldKept
  /\ PendingHandled
  /\ ToldFresh

-----------------------------------------------------------------------------
(* What one request does, by the way it ends *)

Refused == \E t \in Tenants, b \in Sizes, qual \in Qualifiers : NotAdmitted(t, b, qual)

\* Counted by admit and then dropped.
Dropped ==
  \E t \in Tenants, b \in Sizes :
    EnqueueRaises(t, b) \/ \E qual \in Qualifiers : NotAccepted(t, b, qual)

Enqueued == \E t \in Tenants, b \in Sizes : Enqueue(t, b)

Ran == \E t \in Tenants, b \in Sizes : RunOk(t, b)

Failed == \E t \in Tenants, b \in Sizes : RunError(t, b)

Raised == \E t \in Tenants, b \in Sizes, qual \in Qualifiers : RunRaises(t, b, qual)

Aborted == \E t \in Tenants, b \in Sizes : RunAborts(t, b)

\* Every step of handle_invoke ends in one of these ways.
LEMMA Cases ==
  Next => Refused \/ Dropped \/ Enqueued \/ Ran \/ Failed \/ Raised \/ Aborted
  BY DEF Next, Refused, Dropped, Enqueued, Ran, Failed, Raised, Aborted

\* The id of the next result is one more than the last one.
LEMMA NextIdIs ==
  ASSUME NEW n \in Nat, DOMAIN invocations = 1 .. n
  PROVE  NextId = n + 1
<1>1. Cardinality(1 .. n) = n
  BY FS_Interval
<1> QED BY <1>1 DEF NextId

-----------------------------------------------------------------------------
(* Types *)

\* A response is typed and counted.
LEMMA RespondTyped ==
  ASSUME TypeOK, NEW qual \in Qualifiers, NEW s \in {0, 200, 202, 404, 429, 500},
         Respond(qual, s)
  PROVE  /\ reqs + 1 \in Request /\ reqs' = reqs + 1 /\ reqs' \in 0 .. MaxReqs
         /\ reply' \in [req : 0 .. MaxReqs, qualifier : Qualifiers,
                        status : {0, 200, 202, 404, 429, 500}]
<1>1. reqs \in 0 .. MaxReqs /\ reqs < MaxReqs /\ MaxReqs \in Nat
  BY QuotaAssumption DEF TypeOK, Respond
<1>2. reqs + 1 \in 0 .. MaxReqs /\ reqs + 1 \in Request
  BY <1>1 DEF Request
<1> QED BY <1>2 DEF Respond

\* make_state satisfies the invariant.
LEMMA InvInit == Init => IInv
<1> SUFFICES ASSUME Init PROVE IInv
  OBVIOUS
<1>1. TypeOK
  <2>1. reqs \in 0 .. MaxReqs /\ reply \in [req : 0 .. MaxReqs, qualifier : Qualifiers,
                                           status : {0, 200, 202, 404, 429, 500}]
    BY QuotaAssumption DEF Init, NoReply, Qualifiers
  <2>2. invocations \in [DOMAIN invocations -> Request] /\ told \in [DOMAIN told -> Nat]
    BY DEF Init, NoResult
  <2> QED BY <2>1, <2>2 DEF Init, TypeOK, Zero
<1>2. SlotsAccounted /\ WithinQuota
  BY QuotaAssumption DEF Init, SlotsAccounted, WithinQuota, Zero
<1>3. QueueAccounted
  <2>1. \A t \in Tenants : PendingOf(t) = {}
    BY DEF Init, PendingOf
  <2> QED BY <2>1, FS_EmptySet DEF Init, QueueAccounted, Zero
<1>4. DOMAIN invocations = 1 .. 0 /\ DOMAIN told = {} /\ DOMAIN pending = {}
  BY DEF Init, NoResult
<1>5. Numbered /\ ToldHandled /\ ToldKept /\ PendingHandled /\ ToldFresh
  BY <1>4 DEF Numbered, ToldHandled, ToldKept, PendingHandled, ToldFresh
<1> QED BY <1>1, <1>2, <1>3, <1>5 DEF IInv

-----------------------------------------------------------------------------
(* Counters *)

Counts ==
  /\ concurrent \in [Tenants -> Nat]
  /\ queued \in [Tenants -> Nat]
  /\ queued_bytes \in [Tenants -> Nat]
  /\ raised \in [Tenants -> Nat]
  /\ stuck \in [Tenants -> Nat]
  /\ SlotsAccounted
  /\ WithinQuota

\* admit counts a request only where the quota has room for it, and
\* accept_for_execution and release are each other's inverse: the counters
\* stay natural numbers, within the quota, and a slot is lost only by raising.
LEMMA CountsStep ==
  ASSUME IInv, Next
  PROVE  Counts'
<1> USE QuotaAssumption
<1>0. Counts
  BY DEF IInv, TypeOK, Counts
<1>1. CASE Refused
  BY <1>0, <1>1 DEF Refused, NotAdmitted, admission, history, Counts, SlotsAccounted, WithinQuota
<1>2. CASE Dropped
  <2> PICK t \in Tenants, b \in Sizes :
        /\ Admissible(t, b) /\ AddQueued(t) /\ AddBytes(t, b)
        /\ stuck' = [stuck EXCEPT ![t] = @ + 1]
        /\ UNCHANGED <<concurrent, raised>>
    BY <1>2 DEF Dropped, EnqueueRaises, NotAccepted
  <2>1. b \in Nat
    OBVIOUS
  <2> QED BY <1>0, <2>1 DEF Admissible, AddQueued, AddBytes, Counts, SlotsAccounted, WithinQuota
<1>3. CASE Enqueued
  <2> PICK t \in Tenants, b \in Sizes :
        /\ Admissible(t, b) /\ AddQueued(t) /\ AddBytes(t, b)
        /\ UNCHANGED <<concurrent, raised, stuck>>
    BY <1>3 DEF Enqueued, Enqueue
  <2>1. b \in Nat
    OBVIOUS
  <2> QED BY <1>0, <2>1 DEF Admissible, AddQueued, AddBytes, Counts, SlotsAccounted, WithinQuota
<1>4. CASE Ran \/ Failed
  <2> PICK t \in Tenants, b \in Sizes :
        /\ Execute(t, b)
        /\ concurrent' = [concurrent EXCEPT ![t] = Released(@ + 1)]
        /\ UNCHANGED raised
    BY <1>4 DEF Ran, Failed, RunOk, RunError
  <2>1. b \in Nat
    OBVIOUS
  <2>2. concurrent' = concurrent /\ queued' = queued
    BY <1>0 DEF Execute, Released, Dequeued, Counts
  <2> QED BY <1>0, <2>1, <2>2 DEF Execute, Admissible, AddBytes, Counts, SlotsAccounted, WithinQuota
<1>5. CASE Raised
  <2> PICK t \in Tenants, b \in Sizes :
        /\ Execute(t, b)
        /\ concurrent' = [concurrent EXCEPT ![t] = @ + 1]
        /\ raised' = [raised EXCEPT ![t] = @ + 1]
    BY <1>5 DEF Raised, RunRaises
  <2>1. b \in Nat
    OBVIOUS
  <2>2. queued' = queued
    BY <1>0 DEF Execute, Dequeued, Counts
  <2> QED BY <1>0, <2>1, <2>2
          DEF Execute, Admissible, Acceptable, AddBytes, Counts, SlotsAccounted, WithinQuota
<1>6. CASE Aborted
  BY <1>6 DEF Aborted, RunAborts, Zero, Counts, SlotsAccounted, WithinQuota
<1> QED BY <1>1, <1>2, <1>3, <1>4, <1>5, <1>6, Cases

-----------------------------------------------------------------------------
(* The scheduler's queue *)

Entry == [id : Nat, tenant : Tenants, req : Request]

\* The queue counter follows the queue: one more for the entry that
\* Scheduler.enqueue appends, one more for a request that is dropped.
LEMMA QueueStep ==
  ASSUME IInv, Next
  PROVE  pending' \in Seq(Entry) /\ QueueAccounted'
<1>0. /\ pending \in Seq(Entry) /\ queued \in [Tenants -> Nat] /\ stuck \in [Tenants -> Nat]
      /\ QueueAccounted
  BY DEF IInv, TypeOK, Entry
<1>1. \A t \in Tenants : IsFiniteSet(PendingOf(t)) /\ Cardinality(PendingOf(t)) \in Nat
  <2> SUFFICES ASSUME NEW t \in Tenants
               PROVE  IsFiniteSet(PendingOf(t)) /\ Cardinality(PendingOf(t)) \in Nat
    OBVIOUS
  <2>1. DOMAIN pending = 1 .. Len(pending) /\ Len(pending) \in Nat
    BY <1>0
  <2>2. IsFiniteSet(1 .. Len(pending))
    BY <2>1, FS_Interval
  <2>3. PendingOf(t) \subseteq 1 .. Len(pending)
    BY <2>1 DEF PendingOf
  <2> QED BY <2>2, <2>3, FS_Subset, FS_CardinalityType
<1>2. ASSUME UNCHANGED pending
      PROVE  \A t \in Tenants : PendingOf(t)' = PendingOf(t)
  BY <1>2 DEF PendingOf
<1>3. CASE Refused
  BY <1>0, <1>2, <1>3 DEF Refused, NotAdmitted, admission, history, QueueAccounted
<1>4. CASE Dropped
  <2> PICK t \in Tenants :
        /\ AddQueued(t)
        /\ stuck' = [stuck EXCEPT ![t] = @ + 1]
        /\ UNCHANGED pending
    BY <1>4 DEF Dropped, EnqueueRaises, NotAccepted
  <2> QED BY <1>0, <1>1, <1>2 DEF AddQueued, QueueAccounted
<1>5. CASE Enqueued
  <2> PICK t \in Tenants, b \in Sizes : Enqueue(t, b)
    BY <1>5 DEF Enqueued
  <2>1. [id |-> NextId, tenant |-> t, req |-> reqs + 1] \in Entry
    <3>1. reqs + 1 \in Request
      BY RespondTyped DEF IInv, Enqueue, Qualifiers
    <3>2. NextId \in Nat
      BY NextIdIs DEF IInv, Numbered
    <3> QED BY <3>1, <3>2 DEF Entry
  <2> DEFINE e == [id |-> NextId, tenant |-> t, req |-> reqs + 1]
  <2>2. e \in Entry /\ e.tenant = t /\ pending' = Append(pending, e)
    BY <2>1 DEF Enqueue
  <2> HIDE DEF e
  <2>3. /\ pending' \in Seq(Entry) /\ DOMAIN pending' = DOMAIN pending \cup {Len(pending) + 1}
        /\ Len(pending) + 1 \notin DOMAIN pending
        /\ \A i \in DOMAIN pending : pending'[i] = pending[i]
        /\ pending'[Len(pending) + 1] = e
    BY <1>0, <2>2
  <2>4. PendingOf(t)' = PendingOf(t) \cup {Len(pending) + 1} /\ Len(pending) + 1 \notin PendingOf(t)
    BY <2>2, <2>3, Zenon DEF PendingOf
  <2>5. Cardinality(PendingOf(t)') = Cardinality(PendingOf(t)) + 1
    BY <1>1, <2>4, FS_AddElement
  <2>6. \A u \in Tenants \ {t} : PendingOf(u)' = PendingOf(u)
    BY <2>2, <2>3, Zenon DEF PendingOf
  <2>7. queued' = [queued EXCEPT ![t] = @ + 1] /\ stuck' = stuck
    BY DEF Enqueue, AddQueued
  <2>8. ASSUME NEW u \in Tenants
        PROVE  queued'[u] = Cardinality(PendingOf(u)') + stuck'[u]
    <3>1. CASE u = t
      BY <1>0, <1>1, <2>5, <2>7, <3>1 DEF QueueAccounted
    <3>2. CASE u # t
      BY <1>0, <2>6, <2>7, <3>2 DEF QueueAccounted
    <3> QED BY <3>1, <3>2
  <2> QED BY <2>3, <2>8 DEF QueueAccounted
<1>6. CASE Ran \/ Failed \/ Raised
  <2> PICK t \in Tenants, b \in Sizes : Execute(t, b)
    BY <1>6 DEF Ran, Failed, Raised, RunOk, RunError, RunRaises
  <2>1. queued' = queued
    BY <1>0 DEF Execute, Dequeued
  <2> QED BY <1>0, <1>2, <2>1 DEF Execute, QueueAccounted
<1>7. CASE Aborted
  <2>1. pending' = <<>> /\ queued' = Zero /\ stuck' = Zero
    BY <1>7 DEF Aborted, RunAborts
  <2>2. \A t \in Tenants : PendingOf(t)' = {}
    BY <2>1 DEF PendingOf
  <2> QED BY <2>1, <2>2, FS_EmptySet DEF Zero, QueueAccounted
<1> QED BY <1>3, <1>4, <1>5, <1>6, <1>7, Cases

-----------------------------------------------------------------------------
(* The table of results *)

Results ==
  /\ invocations \in [DOMAIN invocations -> Request]
  /\ told \in [DOMAIN told -> Nat]
  /\ Numbered
  /\ ToldHandled
  /\ ToldKept

\* Whatever happens, the request is counted and answered.
LEMMA ReplyStep ==
  ASSUME IInv, Next
  PROVE  /\ reqs + 1 \in Request /\ reqs' = reqs + 1 /\ reqs' \in 0 .. MaxReqs
         /\ reply' \in [req : 0 .. MaxReqs, qualifier : Qualifiers,
                        status : {0, 200, 202, 404, 429, 500}]
<1>1. \E qual \in Qualifiers, st \in {0, 200, 202, 404, 429, 500} : Respond(qual, st)
  BY DEF Next, NotAdmitted, NotAccepted, RunRaises, EnqueueRaises, Enqueue, RunOk, RunError,
         RunAborts, Qualifiers
<1> QED BY <1>1, RespondTyped DEF IInv

\* A new result goes under an id that no earlier one has, so what callers were
\* told before stays true.
LEMMA ResultsStep ==
  ASSUME IInv, Next
  PROVE  Results'
<1>0. Results /\ reqs \in Nat
  BY QuotaAssumption DEF IInv, TypeOK, Results
<1>1. reqs' = reqs + 1 /\ reqs + 1 \in Request
  BY ReplyStep
<1>2. CASE UNCHANGED <<invocations, told>>
  BY <1>0, <1>1, <1>2 DEF Results, Numbered, ToldHandled, ToldKept
<1>3. CASE Ran
  <2>1. PICK n \in Nat : DOMAIN invocations = 1 .. n
    BY <1>0 DEF Results, Numbered
  <2>2. NextId = n + 1
    BY <2>1, NextIdIs
  <2>3. /\ invocations' = [i \in DOMAIN invocations \cup {n + 1} |->
                             IF i = n + 1 THEN reqs + 1 ELSE invocations[i]]
        /\ told' = [k \in DOMAIN told \cup {reqs + 1} |->
                      IF k = reqs + 1 THEN n + 1 ELSE told[k]]
    BY <1>3, <2>2 DEF Ran, RunOk
  <2>4. DOMAIN invocations' = 1 .. n + 1 /\ DOMAIN told' = DOMAIN told \cup {reqs + 1}
    BY <2>1, <2>3
  <2>5. Numbered' /\ ToldHandled'
    BY <1>0, <1>1, <2>4 DEF Numbered, ToldHandled, Results
  <2>6. invocations' \in [DOMAIN invocations' -> Request] /\ told' \in [DOMAIN told' -> Nat]
    BY <1>0, <1>1, <2>1, <2>3 DEF Results
  <2>7. ASSUME NEW k \in DOMAIN told'
        PROVE  told'[k] \in DOMAIN invocations' /\ invocations'[told'[k]] = k
    <3>1. CASE k = reqs + 1
      BY <2>1, <2>3, <2>4, <3>1
    <3>2. CASE k \in DOMAIN told
      <4>1. k # reqs + 1
        BY <1>0, <3>2 DEF Results, ToldHandled
      <4>2. told'[k] = told[k] /\ told[k] \in 1 .. n /\ invocations[told[k]] = k
        BY <1>0, <2>1, <2>3, <3>2, <4>1 DEF Results, ToldKept
      <4> QED BY <2>1, <2>3, <2>4, <4>2
    <3> QED BY <2>4, <3>1, <3>2
  <2> QED BY <2>5, <2>6, <2>7 DEF Results, ToldKept
<1>4. CASE Aborted
  <2>1. invocations' = NoResult /\ told' = NoResult
    BY <1>4 DEF Aborted, RunAborts
  <2>2. DOMAIN invocations' = 1 .. 0 /\ DOMAIN told' = {}
    BY <2>1 DEF NoResult
  <2> QED BY <2>1, <2>2 DEF Results, Numbered, ToldHandled, ToldKept, NoResult
<1>5. Refused \/ Dropped \/ Enqueued \/ Failed \/ Raised => UNCHANGED <<invocations, told>>
  <2>1. Refused => UNCHANGED <<invocations, told>>
    BY DEF Refused, NotAdmitted, history
  <2>2. Dropped => UNCHANGED <<invocations, told>>
    BY DEF Dropped, NotAccepted, EnqueueRaises
  <2>3. Enqueued \/ Failed \/ Raised => UNCHANGED <<invocations, told>>
    BY DEF Enqueued, Failed, Raised, Enqueue, RunError, RunRaises
  <2> QED BY <2>1, <2>2, <2>3
<1> QED BY <1>2, <1>3, <1>4, <1>5, Cases

\* An entry of the scheduler has an id that finds no older result: its id is
\* free when it is enqueued, and a result that is stored under it later is that
\* of a later request.
LEMMA FreshStep ==
  ASSUME IInv, Next
  PROVE  PendingHandled' /\ ToldFresh'
<1>0. /\ pending \in Seq(Entry) /\ reqs \in Nat
      /\ Numbered /\ PendingHandled /\ ToldFresh
  BY QuotaAssumption DEF IInv, TypeOK, Entry
<1>1. reqs' = reqs + 1
  BY ReplyStep
<1>2. \A i \in DOMAIN pending : pending[i].req \in Nat /\ pending[i].id \in Nat
  <2>1. \A i \in DOMAIN pending : pending[i] \in Entry
    BY <1>0
  <2>2. \A x \in Entry : x.req \in Nat /\ x.id \in Nat
    BY DEF Entry, Request
  <2> QED BY <2>1, <2>2
<1>3. PICK n \in Nat : DOMAIN invocations = 1 .. n
  BY <1>0 DEF Numbered
<1>4. NextId = n + 1
  BY <1>3, NextIdIs
<1>5. CASE UNCHANGED <<pending, invocations>>
  BY <1>0, <1>1, <1>2, <1>5 DEF PendingHandled, ToldFresh
<1>6. CASE Enqueued
  <2>1. PICK t \in Tenants :
          pending' = Append(pending, [id |-> n + 1, tenant |-> t, req |-> reqs + 1])
    BY <1>4, <1>6 DEF Enqueued, Enqueue
  <2>2. /\ DOMAIN pending' = DOMAIN pending \cup {Len(pending) + 1}
        /\ \A i \in DOMAIN pending : pending'[i] = pending[i]
        /\ pending'[Len(pending) + 1].req = reqs + 1
        /\ pending'[Len(pending) + 1].id = n + 1
    BY <1>0, <2>1
  <2>3. invocations' = invocations
    BY <1>6 DEF Enqueued, Enqueue
  <2>4. PendingHandled'
    BY <1>0, <1>1, <1>2, <2>2 DEF PendingHandled
  <2>5. ToldFresh'
    BY <1>0, <1>3, <2>2, <2>3 DEF ToldFresh
  <2> QED BY <2>4, <2>5
<1>7. CASE Ran
  <2>1. /\ invocations' = [i \in DOMAIN invocations \cup {n + 1} |->
                             IF i = n + 1 THEN reqs + 1 ELSE invocations[i]]
        /\ pending' = pending
    BY <1>4, <1>7 DEF Ran, RunOk, Execute
  <2>2. PendingHandled'
    BY <1>0, <1>1, <1>2, <2>1 DEF PendingHandled
  <2>3. ASSUME NEW i \in DOMAIN pending, pending[i].id \in DOMAIN invocations'
        PROVE  invocations'[pending[i].id] > pending[i].req
    <3>1. CASE pending[i].id = n + 1
      BY <1>0, <1>2, <2>1, <3>1 DEF PendingHandled
    <3>2. CASE pending[i].id # n + 1
      BY <1>0, <2>1, <2>3, <3>2 DEF ToldFresh
    <3> QED BY <3>1, <3>2
  <2> QED BY <2>1, <2>2, <2>3 DEF ToldFresh
<1>8. CASE Aborted
  <2>1. DOMAIN pending' = {}
    BY <1>8 DEF Aborted, RunAborts
  <2> QED BY <2>1 DEF PendingHandled, ToldFresh
<1>9. Refused \/ Dropped \/ Failed \/ Raised => UNCHANGED <<pending, invocations>>
  BY DEF Refused, NotAdmitted, Dropped, NotAccepted, EnqueueRaises, Failed, Raised, RunError,
         RunRaises, Execute
<1> QED BY <1>5, <1>6, <1>7, <1>8, <1>9, Cases

-----------------------------------------------------------------------------
(* Theorems *)

\* Every request keeps the invariant.
LEMMA InvStep == IInv /\ [Next]_vars => IInv'
<1>1. IInv /\ Next => IInv'
  <2> SUFFICES ASSUME IInv, Next PROVE IInv'
    OBVIOUS
  <2>1. Counts'
    BY CountsStep
  <2>2. Results'
    BY ResultsStep
  <2>3. reqs' \in 0 .. MaxReqs /\ reply' \in [req : 0 .. MaxReqs, qualifier : Qualifiers,
                                             status : {0, 200, 202, 404, 429, 500}]
    BY ReplyStep
  <2>4. pending' \in Seq(Entry) /\ QueueAccounted'
    BY QueueStep
  <2>5. TypeOK'
    BY <2>1, <2>2, <2>3, <2>4 DEF TypeOK, Counts, Results, Entry
  <2>6. PendingHandled' /\ ToldFresh'
    BY FreshStep
  <2> QED BY <2>1, <2>2, <2>4, <2>5, <2>6 DEF IInv, Counts, Results
<1>2. IInv /\ UNCHANGED vars => IInv'
  <2> SUFFICES ASSUME IInv, UNCHANGED vars PROVE IInv'
    OBVIOUS
  <2>1. TypeOK' /\ SlotsAccounted' /\ WithinQuota'
    BY DEF vars, admission, history, IInv, TypeOK, SlotsAccounted, WithinQuota
  <2>2. QueueAccounted'
    BY DEF vars, admission, history, IInv, QueueAccounted, PendingOf
  <2>3. Numbered' /\ ToldHandled' /\ ToldKept'
    BY DEF vars, admission, history, IInv, Numbered, ToldHandled, ToldKept
  <2>4. PendingHandled' /\ ToldFresh'
    BY DEF vars, admission, history, IInv, PendingHandled, ToldFresh
  <2> QED BY <2>1, <2>2, <2>3, <2>4 DEF IInv
<1> QED BY <1>1, <1>2

\* The inductive invariant: the accounts of Admission, and ids without a gap.
THEOREM Inductive == Spec => []IInv
  BY InvInit, InvStep, PTL DEF Spec

\* The types hold in every reachable state; no counter goes below zero.
THEOREM TypeCorrect == Spec => []TypeOK
<1>1. IInv => TypeOK
  BY DEF IInv
<1> QED BY <1>1, Inductive, PTL

\* Execution slots are lost by exceptions of run_one and by nothing else.
THEOREM SlotsLostOnlyByRaising == Spec => []SlotsAccounted
<1>1. IInv => SlotsAccounted
  BY DEF IInv
<1> QED BY <1>1, Inductive, PTL

\* The queue counter is the scheduler's queue and the requests that were
\* dropped between admit and execution.
THEOREM QueueCounterExact == Spec => []QueueAccounted
<1>1. IInv => QueueAccounted
  BY DEF IInv
<1> QED BY <1>1, Inductive, PTL

\* Admission.admit and accept_for_execution enforce every quota.
THEOREM QuotaEnforced == Spec => []WithinQuota
<1>1. IInv => WithinQuota
  BY DEF IInv
<1> QED BY <1>1, Inductive, PTL

\* Hashtbl.replace never replaces the result of another caller, and the id of an
\* entry of the scheduler finds no result older than the entry.
THEOREM ResultsNeverReplaced == Spec => []ResultsKept
<1>1. IInv => ResultsKept
  BY DEF IInv, ResultsKept
<1> QED BY <1>1, Inductive, PTL

-----------------------------------------------------------------------------
(* Deployment *)

Requests == [kind : {"deploy", "alias"}, fn : Functions, digest : Digests]

\* The process runs and has a request while the handler is not idle, and only
\* a deployment stores and publishes.
Serving ==
  /\ pc # "idle" => up /\ op \in Requests
  /\ pc \in {"put", "write", "publish"} => op.kind = "deploy"

\* A bundle is in the store before publish_revision is called, ...
StoredFirst == pc = "publish" => store[op.digest] # "absent"

\* ... in the registry before it is saved, ...
SavedLater ==
  pc \in {"save", "saving"} /\ op.kind = "deploy" => RevisionKey \in revisions

\* ... and in the registry as long as the process that answered 201 runs.
AckedHeld == acked \subseteq revisions

StoreInv ==
  /\ DeploymentTypeOK
  /\ Serving
  /\ StoredFirst
  /\ SavedLater
  /\ AckedHeld
  /\ PublishedHasObject
  /\ AckedInCheckpoint
  /\ ServedWhole

-----------------------------------------------------------------------------
(* make_state establishes it *)

\* The empty registry and the first checkpoint satisfy the invariant.
LEMMA StoreInvInit == DeploymentInit => StoreInv
<1> SUFFICES ASSUME DeploymentInit PROVE StoreInv
  OBVIOUS
<1>1. DeploymentTypeOK
  BY DEF DeploymentInit, DeploymentTypeOK, NoOp, Absent, NoAlias
<1> QED
  BY <1>1 DEF DeploymentInit, StoreInv, Serving, StoredFirst, SavedLater, AckedHeld,
              PublishedHasObject, AckedInCheckpoint, ServedWhole, Absent

-----------------------------------------------------------------------------
(* One lemma for each group of steps *)

\* Accepting a deployment changes only where the handler is.
LEMMA DeployStep ==
  ASSUME StoreInv, NEW f \in Functions, NEW d \in Digests, Deploy(f, d)
  PROVE  StoreInv'
<1>1. op' \in Requests /\ op'.kind = "deploy" /\ pc' = "put"
  BY DEF Deploy, Requests
<1> QED
  BY <1>1 DEF StoreInv, DeploymentTypeOK, Deploy, Serving, StoredFirst, SavedLater, AckedHeld,
              PublishedHasObject, AckedInCheckpoint, ServedWhole, memory, Requests

\* put_if_absent creates an object, never the opposite.
LEMMA PutStep ==
  ASSUME StoreInv, Put \/ PutWritten
  PROVE  StoreInv'
<1>1. up /\ op \in Requests /\ op.kind = "deploy" /\ op.digest \in Digests /\ op' = op
  BY DEF StoreInv, Serving, Put, PutWritten, Requests
<1>2. /\ store' \in [Digests -> {"absent", "partial", "whole"}]
      /\ \A d \in Digests : store[d] # "absent" => store'[d] # "absent"
      /\ pc' \in {"write", "publish"}
      /\ pc' = "publish" => store'[op.digest] # "absent"
  BY <1>1 DEF StoreInv, DeploymentTypeOK, Put, PutWritten
<1>3. /\ UNCHANGED <<up, revisions, aliases, disk, acked, fresh, served>>
  BY DEF Put, PutWritten, memory
<1>4. PublishedHasObject'
  BY <1>2, <1>3 DEF StoreInv, DeploymentTypeOK, PublishedHasObject
<1> QED
  BY <1>1, <1>2, <1>3, <1>4
  DEF StoreInv, DeploymentTypeOK, Serving, StoredFirst, SavedLater, AckedHeld,
      AckedInCheckpoint, ServedWhole

\* publish_revision adds a pointer to an object that is there.
LEMMA PublishStep ==
  ASSUME StoreInv, Publish
  PROVE  StoreInv'
<1>1. /\ up /\ op \in Requests /\ op.digest \in Digests /\ op.fn \in Functions
      /\ RevisionKey \in Functions \X Digests /\ RevisionKey[2] = op.digest
  BY DEF StoreInv, Serving, Publish, Requests, RevisionKey
<1>2. /\ UNCHANGED <<up, store, aliases, disk, acked, fresh, served>>
      /\ revisions \subseteq revisions'
      /\ revisions' \subseteq revisions \cup {RevisionKey}
  BY DEF Publish
<1>3. PublishedHasObject'
  BY <1>1, <1>2 DEF StoreInv, StoredFirst, PublishedHasObject, Publish
<1>4. CASE RevisionKey \in revisions
  BY <1>1, <1>2, <1>3, <1>4
  DEF StoreInv, DeploymentTypeOK, Serving, StoredFirst, SavedLater, AckedHeld,
      AckedInCheckpoint, ServedWhole, Publish, Finish, NoOp
<1>5. CASE RevisionKey \notin revisions
  <2>1. pc' = "save" /\ op' = op /\ RevisionKey' = RevisionKey /\ RevisionKey \in revisions'
    BY <1>5 DEF Publish, RevisionKey
  <2> QED
    BY <1>1, <1>2, <1>3, <2>1
    DEF StoreInv, DeploymentTypeOK, Serving, StoredFirst, SavedLater, AckedHeld,
        AckedInCheckpoint, ServedWhole
<1> QED BY <1>4, <1>5

\* Moving an alias touches no revision.
LEMMA MoveAliasStep ==
  ASSUME StoreInv, NEW f \in Functions, NEW d \in Digests, MoveAlias(f, d)
  PROVE  StoreInv'
<1>1. op' \in Requests /\ op'.kind = "alias" /\ pc' = "save"
  BY DEF MoveAlias, Requests
<1>2. aliases' \in [Functions -> Digests \cup {None}]
  BY DEF MoveAlias, move_alias, StoreInv, DeploymentTypeOK
<1> QED
  BY <1>1, <1>2
  DEF StoreInv, DeploymentTypeOK, MoveAlias, Serving, StoredFirst, SavedLater, AckedHeld,
      PublishedHasObject, AckedInCheckpoint, ServedWhole, Requests

\* The checkpoint is first torn, and then all of the registry.
LEMMA SaveStep ==
  ASSUME StoreInv, SaveOpened \/ Saved
  PROVE  StoreInv'
<1>1. /\ op \in Requests
      /\ op.kind = "deploy" => RevisionKey \in revisions
  BY DEF StoreInv, Serving, SavedLater, SaveOpened, Saved
<1>2. CASE SaveOpened
  <2>1. RevisionKey' = RevisionKey
    BY <1>2 DEF SaveOpened, RevisionKey
  <2>2. disk' \in [kind : {"absent", "torn", "saved"},
                   revisions : SUBSET (Functions \X Digests),
                   aliases : [Functions -> Digests \cup {None}]]
    BY <1>2 DEF SaveOpened, Torn, NoAlias
  <2> QED
    BY <1>1, <1>2, <2>1, <2>2
    DEF StoreInv, DeploymentTypeOK, SaveOpened, Serving, StoredFirst, SavedLater, AckedHeld,
        PublishedHasObject, AckedInCheckpoint, ServedWhole, Torn, memory
<1>3. CASE Saved
  <2>1. /\ acked' \subseteq revisions
        /\ disk'.revisions = revisions /\ disk'.kind = "saved"
        /\ UNCHANGED <<up, store, revisions, aliases, fresh, served>>
        /\ pc' = "idle" /\ op' = NoOp
    BY <1>1, <1>3 DEF Saved, Snapshot, Finish, StoreInv, AckedHeld, memory
  <2>2. disk' \in [kind : {"absent", "torn", "saved"},
                   revisions : SUBSET (Functions \X Digests),
                   aliases : [Functions -> Digests \cup {None}]]
    BY <1>3 DEF Saved, Snapshot, StoreInv, DeploymentTypeOK
  <2>3. DeploymentTypeOK'
    BY <2>1, <2>2 DEF StoreInv, DeploymentTypeOK
  <2> QED
    BY <2>1, <2>3
    DEF StoreInv, Serving, StoredFirst, SavedLater, AckedHeld,
        PublishedHasObject, AckedInCheckpoint, ServedWhole
<1> QED BY <1>2, <1>3

\* What Artifact_store.get returns is whole.
LEMMA FetchStep ==
  ASSUME StoreInv, NEW f \in Functions, Fetch(f)
  PROVE  StoreInv'
<1>1. served' \in {"error", "whole"}
  BY DEF Fetch, Verified
<1>2. UNCHANGED <<up, pc, op, store, revisions, aliases, disk, acked>> /\ fresh' = FALSE
  BY DEF Fetch, memory
<1>3. DeploymentTypeOK'
  BY <1>1, <1>2 DEF StoreInv, DeploymentTypeOK
<1>4. (Serving /\ StoredFirst /\ SavedLater)' /\ ServedWhole'
  BY <1>1, <1>2 DEF StoreInv, Serving, StoredFirst, SavedLater, ServedWhole, RevisionKey
<1>5. (AckedHeld /\ PublishedHasObject /\ AckedInCheckpoint)'
  BY <1>2 DEF StoreInv, AckedHeld, PublishedHasObject, AckedInCheckpoint
<1> QED BY <1>3, <1>4, <1>5 DEF StoreInv

\* An exception or a crash leaves files and registry as they are.
LEMMA EndStep ==
  ASSUME StoreInv, (\E at \in {"put", "write", "save", "saving"} : Fails(at)) \/ Crash
  PROVE  StoreInv'
<1>1. /\ UNCHANGED <<store, revisions, aliases, disk, acked, fresh, served>>
      /\ pc' = "idle" /\ op' = NoOp /\ up' \in BOOLEAN
  BY DEF Fails, Crash, Finish, memory, StoreInv, DeploymentTypeOK
<1> QED
  BY <1>1
  DEF StoreInv, DeploymentTypeOK, Serving, StoredFirst, SavedLater, AckedHeld,
      PublishedHasObject, AckedInCheckpoint, ServedWhole

\* A new process has an empty registry and has answered nobody.
LEMMA RestartStep ==
  ASSUME StoreInv, Restart
  PROVE  StoreInv'
<1>1. DeploymentTypeOK'
  BY DEF StoreInv, DeploymentTypeOK, Restart, NoAlias
<1> QED
  BY <1>1
  DEF StoreInv, Restart, Serving, StoredFirst, SavedLater, AckedHeld,
      PublishedHasObject, AckedInCheckpoint, ServedWhole

-----------------------------------------------------------------------------
(* Theorems *)

\* Every step of a handler, of run_one and of the process keeps the invariant.
LEMMA StoreInvStep == StoreInv /\ [DeploymentNext]_deploymentVars => StoreInv'
<1> SUFFICES ASSUME StoreInv, [DeploymentNext]_deploymentVars PROVE StoreInv'
  OBVIOUS
<1>1. CASE UNCHANGED deploymentVars
  BY <1>1
  DEF deploymentVars, memory, StoreInv, DeploymentTypeOK, Serving, StoredFirst, SavedLater, AckedHeld,
      PublishedHasObject, AckedInCheckpoint, ServedWhole, RevisionKey
<1>2. CASE \E f \in Functions : Fetch(f)
  BY <1>2, FetchStep
<1>3. CASE \E f \in Functions : \E d \in Digests : Deploy(f, d) \/ MoveAlias(f, d)
  BY <1>3, DeployStep, MoveAliasStep
<1>4. CASE Put \/ PutWritten
  BY <1>4, PutStep
<1>5. CASE Publish
  BY <1>5, PublishStep
<1>6. CASE SaveOpened \/ Saved
  BY <1>6, SaveStep
<1>7. CASE Fails("put") \/ Fails("write") \/ Fails("save") \/ Fails("saving") \/ Crash
  BY <1>7, EndStep
<1>8. CASE Restart
  BY <1>8, RestartStep
<1> QED
  BY <1>1, <1>2, <1>3, <1>4, <1>5, <1>6, <1>7, <1>8 DEF DeploymentNext

\* The inductive invariant: stored, then published, then saved, then answered.
THEOREM StoreInductive == DeploymentSpec => []StoreInv
  BY StoreInvInit, StoreInvStep, PTL DEF DeploymentSpec

\* The types hold in every reachable state.
THEOREM StoreTypeCorrect == DeploymentSpec => []DeploymentTypeOK
<1>1. StoreInv => DeploymentTypeOK
  BY DEF StoreInv
<1> QED BY <1>1, StoreInductive, PTL

\* publish_revision never makes a pointer to an object that is not there.
THEOREM NoDanglingRevision == DeploymentSpec => []PublishedHasObject
<1>1. StoreInv => PublishedHasObject
  BY DEF StoreInv
<1> QED BY <1>1, StoreInductive, PTL

\* A 201 answer is in every checkpoint its process completes from then on.
THEOREM AckedIsSaved == DeploymentSpec => []AckedInCheckpoint
<1>1. StoreInv => AckedInCheckpoint
  BY DEF StoreInv
<1> QED BY <1>1, StoreInductive, PTL

\* run_one never gets part of a bundle from Artifact_store.get.
THEOREM NothingPartialServed == DeploymentSpec => []ServedWhole
<1>1. StoreInv => ServedWhole
  BY DEF StoreInv
<1> QED BY <1>1, StoreInductive, PTL

\* No step overwrites or removes an object that is whole.
THEOREM StoreNeverOverwrites == DeploymentSpec => ObjectsImmutable
<1> DEFINE Kept == \A d \in Digests : store[d] = "whole" => store'[d] = "whole"
<1>1. StoreInv /\ [DeploymentNext]_deploymentVars => [Kept]_deploymentVars
  <2> SUFFICES ASSUME StoreInv, DeploymentNext PROVE Kept
    OBVIOUS
  <2>1. CASE Put \/ PutWritten
    <3>1. op.digest \in Digests
      BY <2>1 DEF Put, PutWritten, StoreInv, Serving, Requests
    <3> QED BY <2>1, <3>1 DEF Put, PutWritten, StoreInv, DeploymentTypeOK
  <2>2. CASE ~(Put \/ PutWritten)
    <3>1. UNCHANGED store
      BY <2>2 DEF DeploymentNext, Fetch, Deploy, MoveAlias, Publish, SaveOpened, Saved, Fails,
                  Crash, Restart
    <3> QED BY <3>1
  <2> QED BY <2>1, <2>2
<1> QED BY <1>1, StoreInductive, PTL DEF DeploymentSpec, ObjectsImmutable
=============================================================================
