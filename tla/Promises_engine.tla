-------------------------- MODULE Promises_engine ---------------------------
(***************************************************************************)
(* What makes OneSettler inductive, for the proof in Promises_proofs: the  *)
(* types, what it means that every reference is to something that exists   *)
(* (Linked), and the first-order form of OneSettler (Single). Each call    *)
(* into the engine keeps them: taking a job from the queue, registering a  *)
(* reaction, making a promise, calling one of its resolving functions.     *)
(***************************************************************************)
EXTENDS Promises, Integers, TLAPS

-----------------------------------------------------------------------------
(* Types *)

ValueT == [kind : {"plain", "thenable", "broken", "promise"}, of : Nat]
ReactionT == [nth : Nat, onFulfilled : Handler, onRejected : Handler, cap : Nat]
PromiseT == [state : {"pending", "fulfilled", "rejected"}, result : ValueT,
             reactions : Seq(ReactionT), thens : Nat]
PairT == [promise : Nat, called : BOOLEAN, held : Holder]
JobT == [job : {"reaction", "thenable"}, of : Nat, nth : Nat, cap : Nat,
         handler : Handler, reject : BOOLEAN, arg : ValueT]
EngineT == [promises : Seq(PromiseT), pairs : Seq(PairT), jobs : Seq(JobT),
            fired : [PromiseId -> Nat]]

\* What refers to a promise, a pair, an async function or a group refers to one
\* that exists: there are np, nq, na and ng of them.
ValueOK(np, v) == v.kind = "promise" => v.of \in 1 .. np
HandlerOK(nq, na, ng, h, cap) ==
  /\ h.fn \in {"resolve", "reject"} => h.of \in 1 .. nq
  /\ h.fn = "resume" => h.of \in 1 .. na
  /\ h.fn = "element" => h.of \in 1 .. ng
  /\ h.fn # "resume" => cap \in 1 .. nq
ReactionOK(nq, na, ng, re) ==
  HandlerOK(nq, na, ng, re.onFulfilled, re.cap) /\ HandlerOK(nq, na, ng, re.onRejected, re.cap)
PromiseOK(np, nq, na, ng, s) ==
  /\ ValueOK(np, s.result)
  /\ \A k \in 1 .. Len(s.reactions) : ReactionOK(nq, na, ng, s.reactions[k])
JobOK(np, nq, na, ng, j) ==
  /\ ValueOK(np, j.arg)
  /\ j.of \in 1 .. np
  /\ j.job = "reaction" => HandlerOK(nq, na, ng, j.handler, j.cap)
  /\ j.job = "thenable" => j.arg.kind \in {"promise", "thenable"}

PairsLinked(E) == \A q \in PairsOf(E) : E.pairs[q].promise \in PromisesOf(E)
PromisesLinked(E, na, ng) ==
  \A p \in PromisesOf(E) : PromiseOK(Len(E.promises), Len(E.pairs), na, ng, E.promises[p])
JobsLinked(E, na, ng) ==
  \A i \in JobsOf(E) : JobOK(Len(E.promises), Len(E.pairs), na, ng, E.jobs[i])
Linked(E, na, ng) == PairsLinked(E) /\ PromisesLinked(E, na, ng) /\ JobsLinked(E, na, ng)

\* OneSettlerIn, one clause for each way that it could fail: a pair that was not
\* called yet or a thenable job stands for a pending promise, no two of them for
\* the same one, and each pending promise has one.
Live(E, q) == q \in PairsOf(E) /\ ~E.pairs[q].called
Thenable(E, i) == i \in JobsOf(E) /\ E.jobs[i].job = "thenable"
Pending(E, p) == E.promises[p].state = "pending"
LivePending(E) == \A q \in PairsOf(E) : Live(E, q) => Pending(E, E.pairs[q].promise)
QueuedPending(E) == \A i \in JobsOf(E) : Thenable(E, i) => Pending(E, E.jobs[i].of)
PairsApart(E) ==
  \A q, r \in PairsOf(E) :
    Live(E, q) /\ Live(E, r) /\ q # r => E.pairs[q].promise # E.pairs[r].promise
JobsApart(E) ==
  \A i, j \in JobsOf(E) :
    Thenable(E, i) /\ Thenable(E, j) /\ i # j => E.jobs[i].of # E.jobs[j].of
BothApart(E) ==
  \A q \in PairsOf(E), i \in JobsOf(E) :
    Live(E, q) /\ Thenable(E, i) => E.pairs[q].promise # E.jobs[i].of
Provided(E) ==
  \A p \in PromisesOf(E) : Pending(E, p) =>
    \/ \E q \in PairsOf(E) : Live(E, q) /\ E.pairs[q].promise = p
    \/ \E i \in JobsOf(E) : Thenable(E, i) /\ E.jobs[i].of = p
Single(E) == /\ LivePending(E) /\ QueuedPending(E)
             /\ PairsApart(E) /\ JobsApart(E) /\ BothApart(E) /\ Provided(E)

Good(E, na, ng) == E \in EngineT /\ Linked(E, na, ng) /\ Single(E)

-----------------------------------------------------------------------------
(* What follows from them *)

\* Pairs and jobs are for promises that exist.
LEMMA Refers ==
  ASSUME NEW E, NEW na, NEW ng, Linked(E, na, ng)
  PROVE  /\ \A q \in PairsOf(E) : E.pairs[q].promise \in PromisesOf(E)
         /\ \A i \in JobsOf(E) : E.jobs[i].of \in PromisesOf(E)
  BY DEF Linked, PairsLinked, JobsLinked, JobOK, PromisesOf

\* What the type of the engine says of its sequences.
LEMMA Lengths ==
  ASSUME NEW E \in EngineT
  PROVE  /\ Len(E.promises) \in Nat /\ Len(E.pairs) \in Nat /\ Len(E.jobs) \in Nat
         /\ \A p \in PromisesOf(E) : E.promises[p] \in PromiseT
         /\ \A q \in PairsOf(E) : E.pairs[q] \in PairT
         /\ \A i \in JobsOf(E) : E.jobs[i] \in JobT
  BY DEF EngineT, PromisesOf, PairsOf, JobsOf

\* References stay good when there is more to refer to.
LEMMA MoreOK ==
  ASSUME NEW np \in Nat, NEW nq \in Nat, NEW na \in Nat, NEW ng \in Nat,
         NEW mp \in Nat, NEW mq \in Nat, NEW ma \in Nat, NEW mg \in Nat,
         np <= mp, nq <= mq, na <= ma, ng <= mg
  PROVE  /\ \A v : ValueOK(np, v) => ValueOK(mp, v)
         /\ \A h, cap : HandlerOK(nq, na, ng, h, cap) => HandlerOK(mq, ma, mg, h, cap)
         /\ \A re : ReactionOK(nq, na, ng, re) => ReactionOK(mq, ma, mg, re)
         /\ \A s : PromiseOK(np, nq, na, ng, s) => PromiseOK(mp, mq, ma, mg, s)
         /\ \A j : JobOK(np, nq, na, ng, j) => JobOK(mp, mq, ma, mg, j)
<1>1. \A v : ValueOK(np, v) => ValueOK(mp, v)
  BY DEF ValueOK
<1>2. \A h, cap : HandlerOK(nq, na, ng, h, cap) => HandlerOK(mq, ma, mg, h, cap)
  BY DEF HandlerOK
<1>3. \A re : ReactionOK(nq, na, ng, re) => ReactionOK(mq, ma, mg, re)
  BY <1>2 DEF ReactionOK
<1>4. \A s : PromiseOK(np, nq, na, ng, s) => PromiseOK(mp, mq, ma, mg, s)
  BY <1>1, <1>3 DEF PromiseOK
<1>5. \A j : JobOK(np, nq, na, ng, j) => JobOK(mp, mq, ma, mg, j)
  <2>1. \A x : x \in 1 .. np => x \in 1 .. mp
    OBVIOUS
  <2> QED BY <1>1, <1>2, <2>1, ZenonT(30) DEF JobOK
<1> QED BY <1>1, <1>2, <1>3, <1>4, <1>5

\* More async functions or groups change nothing.
LEMMA MoreGood ==
  ASSUME NEW na \in Nat, NEW ng \in Nat, NEW ma \in Nat, NEW mg \in Nat,
         na <= ma, ng <= mg, NEW E, Good(E, na, ng)
  PROVE  Good(E, ma, mg)
<1> DEFINE np == Len(E.promises)
           nq == Len(E.pairs)
<1> E \in EngineT /\ Linked(E, na, ng) /\ Single(E)
  BY DEF Good
<1>2. np \in Nat /\ nq \in Nat
  BY Lengths
<1>3. np = Len(E.promises) /\ nq = Len(E.pairs)
  OBVIOUS
<1> HIDE DEF np, nq
<1>4. np <= np /\ nq <= nq
  BY <1>2
<1>5. /\ \A s : PromiseOK(np, nq, na, ng, s) => PromiseOK(np, nq, ma, mg, s)
      /\ \A j : JobOK(np, nq, na, ng, j) => JobOK(np, nq, ma, mg, j)
  BY <1>2, <1>4, MoreOK, ZenonT(30)
<1> QED BY <1>3, <1>5 DEF Good, Linked, PromisesLinked, JobsLinked

\* Single is OneSettlerIn without the set of settlers.
LEMMA SingleSettles ==
  ASSUME NEW E, Single(E)
  PROVE  OneSettlerIn(E)
<1> SUFFICES ASSUME NEW p \in PromisesOf(E)
             PROVE  IF E.promises[p].state = "pending"
                    THEN \E s \in Settlers(E, p) : Settlers(E, p) = {s}
                    ELSE Settlers(E, p) = {}
  BY DEF OneSettlerIn
<1>1. CASE ~Pending(E, p)
  BY <1>1 DEF Single, LivePending, QueuedPending, Settlers, Live, Thenable, Pending
<1>2. ASSUME Pending(E, p), NEW q \in PairsOf(E), Live(E, q), E.pairs[q].promise = p
      PROVE  <<"pair", q>> \in Settlers(E, p) /\ Settlers(E, p) = {<<"pair", q>>}
  BY <1>2 DEF Single, PairsApart, BothApart, Settlers, Live, Thenable
<1>3. ASSUME Pending(E, p), NEW i \in JobsOf(E), Thenable(E, i), E.jobs[i].of = p
      PROVE  <<"job", i>> \in Settlers(E, p) /\ Settlers(E, p) = {<<"job", i>>}
  BY <1>3 DEF Single, JobsApart, BothApart, Settlers, Live, Thenable
<1> QED BY <1>1, <1>2, <1>3, ZenonT(30) DEF Single, Provided, Pending

-----------------------------------------------------------------------------
(* A job is taken from the queue *)

\* The state that an operation leaves has a name: an equation in the hypotheses
\* would have every proof below it work on the whole expression.
Is(G, E) == G = E

\* The job at the head of the queue is taken, and fired counts it or not.
Dequeued(E, fd) == [E EXCEPT !.jobs = Tail(@), !.fired = fd]

\* The jobs that wait move one place forward.
LEMMA DequeuedEffect ==
  ASSUME NEW E \in EngineT, E.jobs # <<>>, NEW fd \in [PromiseId -> Nat],
         NEW G, G = Dequeued(E, fd)
  PROVE  /\ G \in EngineT
         /\ G.promises = E.promises /\ G.pairs = E.pairs
         /\ G.jobs = Tail(E.jobs) /\ G.fired = fd
         /\ 1 \in JobsOf(E)
         /\ \A i \in JobsOf(G) : i + 1 \in JobsOf(E) /\ i + 1 # 1 /\ G.jobs[i] = E.jobs[i + 1]
         /\ \A i \in JobsOf(E) \ {1} : i - 1 \in JobsOf(G) /\ (i - 1) + 1 = i
<1>1. E.jobs \in Seq(JobT) /\ Len(E.jobs) \in Nat /\ Len(E.jobs) # 0
  BY DEF EngineT
<1>2. /\ G.promises = E.promises /\ G.pairs = E.pairs /\ G.fired = fd
      /\ G.jobs = Tail(E.jobs)
      /\ G = [promises |-> G.promises, pairs |-> G.pairs, jobs |-> G.jobs, fired |-> G.fired]
  BY ZenonT(30) DEF EngineT, Dequeued
<1>3. /\ G.jobs \in Seq(JobT) /\ Len(G.jobs) = Len(E.jobs) - 1
      /\ \A i \in 1 .. Len(G.jobs) : G.jobs[i] = E.jobs[i + 1]
  BY <1>1, <1>2
<1>4. G \in EngineT
  BY <1>2, <1>3, ZenonT(30) DEF EngineT
<1>5. \A i \in JobsOf(G) : i + 1 \in JobsOf(E) /\ i + 1 # 1 /\ G.jobs[i] = E.jobs[i + 1]
  BY <1>1, <1>3 DEF JobsOf
<1>6. 1 \in JobsOf(E) /\ \A i \in JobsOf(E) \ {1} : i - 1 \in JobsOf(G) /\ (i - 1) + 1 = i
  BY <1>1, <1>3 DEF JobsOf
<1> QED BY <1>2, <1>4, <1>5, <1>6, ZenonT(30)

Created(E, p, G) ==
  /\ G \in EngineT
  /\ G.promises = E.promises /\ G.jobs = E.jobs
  /\ Len(G.pairs) = Len(E.pairs) + 1
  /\ PairsOf(G) = PairsOf(E) \cup {Len(E.pairs) + 1} /\ Len(E.pairs) + 1 \notin PairsOf(E)
  /\ \A q \in PairsOf(E) : G.pairs[q] = E.pairs[q]
  /\ G.pairs[Len(E.pairs) + 1].promise = p /\ ~G.pairs[Len(E.pairs) + 1].called

\* js_create_resolving_functions adds a pair that was not called.
LEMMA CreateEffect ==
  ASSUME NEW E \in EngineT, NEW p \in Nat, NEW holder \in Holder,
         NEW G, G = CreateResolving(E, p, holder)
  PROVE  Created(E, p, G)
<1> DEFINE r == [promise |-> p, called |-> FALSE, held |-> holder]
<1>1. E.pairs \in Seq(PairT) /\ Len(E.pairs) \in Nat
  BY DEF EngineT
<1>2. r \in PairT /\ r.promise = p /\ ~r.called
  BY DEF PairT
<1>3. G = [E EXCEPT !.pairs = Append(@, r)]
  BY DEF CreateResolving
<1> HIDE DEF r
<1>4. /\ G.pairs = Append(E.pairs, r)
      /\ G.promises = E.promises /\ G.jobs = E.jobs /\ G.fired = E.fired
      /\ G = [promises |-> G.promises, pairs |-> G.pairs, jobs |-> G.jobs, fired |-> G.fired]
  BY <1>3, ZenonT(30) DEF EngineT
<1>5. /\ G.pairs \in Seq(PairT) /\ Len(G.pairs) = Len(E.pairs) + 1
      /\ G.pairs[Len(E.pairs) + 1] = r
      /\ \A q \in PairsOf(E) : G.pairs[q] = E.pairs[q]
  BY <1>1, <1>2, <1>4 DEF PairsOf
<1>6. G \in EngineT
  BY <1>4, <1>5, ZenonT(30) DEF EngineT
<1>7. PairsOf(G) = PairsOf(E) \cup {Len(E.pairs) + 1} /\ Len(E.pairs) + 1 \notin PairsOf(E)
  <2>1. \A n \in Nat : 1 .. n + 1 = (1 .. n) \cup {n + 1} /\ n + 1 \notin 1 .. n
    OBVIOUS
  <2> QED BY <1>1, <1>5, <2>1, ZenonT(30) DEF PairsOf
<1> QED BY <1>2, <1>4, <1>5, <1>6, <1>7, ZenonT(30) DEF Created

\* js_promise_resolve_thenable_job: the new pair takes the place of the job.
LEMMA AdoptGood ==
  ASSUME NEW na \in Nat, NEW ng \in Nat, NEW E, Good(E, na, ng), E.jobs # <<>>,
         E.jobs[1].job = "thenable", NEW fd \in [PromiseId -> Nat], NEW holder \in Holder,
         NEW G, Is(G, CreateResolving(Dequeued(E, fd), E.jobs[1].of, holder))
  PROVE  /\ Good(G, na, ng)
         /\ Len(G.promises) = Len(E.promises)
         /\ Len(G.pairs) = Len(E.pairs) + 1
<1> DEFINE F == Dequeued(E, fd)
           p == E.jobs[1].of
           n == Len(E.pairs) + 1
           np == Len(E.promises)
           nq == Len(E.pairs)
<1> E \in EngineT /\ Linked(E, na, ng) /\ Single(E)
  BY DEF Good
<1>2. /\ F \in EngineT
      /\ F.promises = E.promises /\ F.pairs = E.pairs
      /\ 1 \in JobsOf(E)
      /\ \A i \in JobsOf(F) : i + 1 \in JobsOf(E) /\ i + 1 # 1 /\ F.jobs[i] = E.jobs[i + 1]
      /\ \A i \in JobsOf(E) \ {1} : i - 1 \in JobsOf(F) /\ (i - 1) + 1 = i
  BY DequeuedEffect
<1>3. G = CreateResolving(F, p, holder)
  BY DEF Is
<1> HIDE DEF F
<1>4. Thenable(E, 1) /\ p \in PromisesOf(E) /\ p \in Nat /\ Pending(E, p)
  BY <1>2 DEF Linked, JobsLinked, QueuedPending, JobOK, Single, Thenable, PromisesOf
<1>5. E.jobs[1].of = p
  OBVIOUS
<1> HIDE DEF p
<1>6. /\ G \in EngineT
      /\ G.promises = F.promises /\ G.jobs = F.jobs
      /\ Len(G.pairs) = Len(F.pairs) + 1
      /\ PairsOf(G) = PairsOf(F) \cup {Len(F.pairs) + 1} /\ Len(F.pairs) + 1 \notin PairsOf(F)
      /\ \A q \in PairsOf(F) : G.pairs[q] = F.pairs[q]
      /\ G.pairs[Len(F.pairs) + 1].promise = p /\ ~G.pairs[Len(F.pairs) + 1].called
  <2>1. F \in EngineT /\ p \in Nat
    BY <1>2, <1>4
  <2>2. Created(F, p, G)
    BY <1>3, <2>1, CreateEffect
  <2> QED BY <2>2 DEF Created
<1>7. /\ PairsOf(G) = PairsOf(E) \cup {n} /\ n \notin PairsOf(E)
      /\ \A q \in PairsOf(E) : G.pairs[q] = E.pairs[q]
      /\ G.pairs[n].promise = p /\ ~G.pairs[n].called
  BY <1>2, <1>6 DEF PairsOf
<1>8. G.promises = E.promises /\ PromisesOf(G) = PromisesOf(E)
  BY <1>2, <1>6 DEF PromisesOf
<1>9. /\ JobsOf(G) = JobsOf(F)
      /\ \A i \in JobsOf(G) : i + 1 \in JobsOf(E) /\ i + 1 # 1 /\ G.jobs[i] = E.jobs[i + 1]
      /\ \A i \in JobsOf(E) \ {1} : i - 1 \in JobsOf(G) /\ (i - 1) + 1 = i
  BY <1>2, <1>6, ZenonT(30) DEF JobsOf
<1>10. Len(G.promises) = np /\ Len(G.pairs) = nq + 1
  BY <1>2, <1>6
<1> HIDE DEF n
<1>11. Linked(G, na, ng)
  <2>1. PairsLinked(G)
    BY <1>4, <1>7, <1>8 DEF Linked, PairsLinked
  <2>2. np \in Nat /\ nq \in Nat
    BY Lengths
  <2>3. np = Len(E.promises) /\ nq = Len(E.pairs)
    OBVIOUS
  <2> HIDE DEF np, nq
  <2>4. np <= np /\ nq <= nq + 1 /\ nq + 1 \in Nat /\ na <= na /\ ng <= ng
    BY <2>2
  <2>5. /\ \A s : PromiseOK(np, nq, na, ng, s) => PromiseOK(np, nq + 1, na, ng, s)
        /\ \A j : JobOK(np, nq, na, ng, j) => JobOK(np, nq + 1, na, ng, j)
    BY <2>2, <2>4, MoreOK, ZenonT(30)
  <2>6. \A x \in PromisesOf(G) : PromiseOK(np, nq + 1, na, ng, G.promises[x])
    BY <1>8, <2>3, <2>5 DEF Linked, PromisesLinked
  <2>7. \A i \in JobsOf(G) : JobOK(np, nq + 1, na, ng, G.jobs[i])
    BY <1>9, <2>3, <2>5 DEF Linked, JobsLinked
  <2> QED BY <1>10, <2>1, <2>6, <2>7 DEF Linked, PromisesLinked, JobsLinked
<1>12. Single(G)
  <2>1. /\ \A x \in PairsOf(E) : Live(G, x) <=> Live(E, x)
        /\ Live(G, n)
    BY <1>7 DEF Live
  <2>2. \A x : Pending(G, x) <=> Pending(E, x)
    BY <1>8 DEF Pending
  <2>3. \A i \in JobsOf(G) : Thenable(G, i) <=> Thenable(E, i + 1)
    BY <1>9 DEF Thenable
  <2>4. \A i \in JobsOf(G) : Thenable(G, i) => Pending(G, G.jobs[i].of) /\ G.jobs[i].of # p
    BY <1>2, <1>4, <1>5, <1>9, <2>2, <2>3 DEF Single, QueuedPending, JobsApart
  <2>5. JobsApart(G)
    <3>1. \A i, k \in JobsOf(G) : i # k => i + 1 # k + 1
      BY DEF JobsOf
    <3>2. JobsApart(E)
      BY DEF Single
    <3> QED BY <1>9, <2>3, <3>1, <3>2 DEF JobsApart
  <2>6. \A q \in PairsOf(E) : Live(E, q) => E.pairs[q].promise # p
    BY <1>2, <1>4, <1>5 DEF Single, BothApart
  <2>7. BothApart(G)
    <3>1. BothApart(E)
      BY DEF Single
    <3> QED BY <1>7, <1>9, <2>1, <2>3, <2>4, <3>1 DEF BothApart
  <2>8. PairsApart(G)
    <3>1. PairsApart(E)
      BY DEF Single
    <3> QED BY <1>7, <2>1, <2>6, <3>1 DEF PairsApart
  <2>9. LivePending(G)
    BY <1>4, <1>7, <2>1, <2>2, ZenonT(30) DEF Single, LivePending
  <2>10. ASSUME NEW y \in PromisesOf(G), Pending(G, y)
         PROVE  \/ \E x \in PairsOf(G) : Live(G, x) /\ G.pairs[x].promise = y
                \/ \E i \in JobsOf(G) : Thenable(G, i) /\ G.jobs[i].of = y
    <3>1. Pending(E, y) /\ y \in PromisesOf(E)
      BY <1>8, <2>2, <2>10
    <3>2. CASE \E x \in PairsOf(E) : Live(E, x) /\ E.pairs[x].promise = y
      BY <1>7, <2>1, <3>2
    <3>3. CASE \E i \in JobsOf(E) : Thenable(E, i) /\ E.jobs[i].of = y
      <4>1. PICK i \in JobsOf(E) : Thenable(E, i) /\ E.jobs[i].of = y
        BY <3>3
      <4>2. CASE i = 1
        BY <1>5, <1>7, <2>1, <4>1, <4>2
      <4>3. CASE i # 1
        <5>1. i - 1 \in JobsOf(G) /\ (i - 1) + 1 = i
          BY <1>9, <4>3
        <5> QED BY <1>9, <2>3, <4>1, <5>1
      <4> QED BY <4>2, <4>3
    <3> QED BY <3>1, <3>2, <3>3 DEF Single, Provided
  <2> QED BY <2>4, <2>5, <2>7, <2>8, <2>9, <2>10 DEF Single, QueuedPending, Provided
<1> QED BY <1>6, <1>10, <1>11, <1>12 DEF Good

\* A reaction job that is taken settles nothing by being taken.
LEMMA DequeuedGood ==
  ASSUME NEW na \in Nat, NEW ng \in Nat, NEW E, Good(E, na, ng), E.jobs # <<>>,
         E.jobs[1].job = "reaction", NEW fd \in [PromiseId -> Nat], NEW G, Is(G, Dequeued(E, fd))
  PROVE  /\ Good(G, na, ng)
         /\ Len(G.promises) = Len(E.promises)
         /\ Len(G.pairs) = Len(E.pairs)
<1> E \in EngineT /\ Linked(E, na, ng) /\ Single(E)
  BY DEF Good
<1>2. /\ G \in EngineT
      /\ G.promises = E.promises /\ G.pairs = E.pairs
      /\ 1 \in JobsOf(E)
      /\ \A i \in JobsOf(G) : i + 1 \in JobsOf(E) /\ i + 1 # 1 /\ G.jobs[i] = E.jobs[i + 1]
      /\ \A i \in JobsOf(E) \ {1} : i - 1 \in JobsOf(G) /\ (i - 1) + 1 = i
  BY DequeuedEffect DEF Is
<1>3. PairsOf(G) = PairsOf(E) /\ PromisesOf(G) = PromisesOf(E)
  BY <1>2 DEF PairsOf, PromisesOf
<1>4. Linked(G, na, ng)
  BY <1>2, <1>3, ZenonT(30) DEF Linked, PairsLinked, PromisesLinked, JobsLinked
<1>5. Single(G)
  <2>1. /\ \A x \in PairsOf(E) : Live(G, x) <=> Live(E, x)
        /\ \A x : Pending(G, x) <=> Pending(E, x)
    BY <1>2, <1>3 DEF Live, Pending
  <2>2. \A i \in JobsOf(G) : Thenable(G, i) <=> Thenable(E, i + 1)
    BY <1>2 DEF Thenable
  <2>3. ~Thenable(E, 1)
    BY DEF Thenable
  <2>4. QueuedPending(G)
    BY <1>2, <2>1, <2>2 DEF Single, QueuedPending
  <2>5. JobsApart(G)
    <3>1. \A i, k \in JobsOf(G) : i # k => i + 1 # k + 1
      BY DEF JobsOf
    <3>2. JobsApart(E)
      BY Zenon DEF Single
    <3> QED BY <1>2, <2>2, <3>1, <3>2 DEF JobsApart
  <2>6. BothApart(G)
    BY <1>2, <1>3, <2>1, <2>2 DEF Single, BothApart
  <2>7. ASSUME NEW p \in PromisesOf(G), Pending(G, p)
        PROVE  \/ \E x \in PairsOf(G) : Live(G, x) /\ G.pairs[x].promise = p
               \/ \E i \in JobsOf(G) : Thenable(G, i) /\ G.jobs[i].of = p
    <3>1. Pending(E, p) /\ p \in PromisesOf(E)
      BY <1>3, <2>1, <2>7
    <3>2. CASE \E x \in PairsOf(E) : Live(E, x) /\ E.pairs[x].promise = p
      BY <1>2, <1>3, <2>1, <3>2
    <3>3. CASE \E i \in JobsOf(E) : Thenable(E, i) /\ E.jobs[i].of = p
      <4>1. PICK i \in JobsOf(E) : Thenable(E, i) /\ E.jobs[i].of = p
        BY <3>3
      <4>2. i - 1 \in JobsOf(G) /\ (i - 1) + 1 = i
        BY <1>2, <2>3, <4>1, ZenonT(30)
      <4> QED BY <1>2, <2>2, <4>1, <4>2
    <3> QED BY <3>1, <3>2, <3>3, Zenon DEF Single, Provided
  <2>8. PairsApart(G)
    BY <1>2, <1>3, <2>1 DEF Single, PairsApart
  <2>9. LivePending(G)
    BY <1>2, <1>3, <2>1 DEF Single, LivePending
  <2> QED BY <2>4, <2>5, <2>6, <2>7, <2>8, <2>9 DEF Single, QueuedPending, Provided
<1> QED BY <1>2, <1>4, <1>5 DEF Good

-----------------------------------------------------------------------------
(* A reaction is registered *)

\* A step that neither settles a promise nor changes who can settle it.
LEMMA SameSingle ==
  ASSUME NEW E, NEW G, Single(E),
         PairsOf(G) = PairsOf(E), PromisesOf(G) = PromisesOf(E), JobsOf(E) \subseteq JobsOf(G),
         \A x \in PairsOf(E) : /\ E.pairs[x].promise \in PromisesOf(E)
                               /\ G.pairs[x].promise = E.pairs[x].promise
                               /\ Live(G, x) <=> Live(E, x),
         \A x \in PromisesOf(E) : Pending(G, x) <=> Pending(E, x),
         \A i \in JobsOf(E) : /\ E.jobs[i].of \in PromisesOf(E)
                              /\ G.jobs[i].of = E.jobs[i].of
                              /\ Thenable(G, i) <=> Thenable(E, i),
         \A i \in JobsOf(G) \ JobsOf(E) : ~Thenable(G, i)
  PROVE  Single(G)
<1>1. LivePending(G)
  BY DEF Single, LivePending
<1>2. QueuedPending(G)
  BY Zenon DEF Single, QueuedPending
<1>3. PairsApart(G)
  BY DEF Single, PairsApart
<1>4. JobsApart(G)
  BY DEF Single, JobsApart
<1>5. BothApart(G)
  BY DEF Single, BothApart
<1>6. Provided(G)
  BY DEF Single, Provided
<1> QED BY <1>1, <1>2, <1>3, <1>4, <1>5, <1>6 DEF Single

\* A reaction is registered: kept with a pending promise, queued otherwise.
Registered(E, p, re, G) ==
  /\ G \in EngineT
  /\ Len(G.promises) = Len(E.promises)
  /\ G.pairs = E.pairs
  /\ G.fired = E.fired
  /\ \A x \in PromisesOf(E) \ {p} : G.promises[x] = E.promises[x]
  /\ G.promises[p].state = E.promises[p].state
  /\ G.promises[p].result = E.promises[p].result
  /\ G.promises[p].thens = E.promises[p].thens + 1
  /\ E.promises[p].state = "pending" =>
       /\ G.promises[p].reactions = Append(E.promises[p].reactions, re)
       /\ G.jobs = E.jobs
  /\ E.promises[p].state # "pending" =>
       /\ G.promises[p].reactions = E.promises[p].reactions
       /\ G.jobs = Append(E.jobs, ReactionJob(p, re, E.promises[p].state = "rejected",
                                              E.promises[p].result))
Reaction(E, p, f, r, cap) ==
  [nth |-> E.promises[p].thens + 1, onFulfilled |-> f, onRejected |-> r, cap |-> cap]

\* What perform_promise_then changes.
LEMMA PerformEffect ==
  ASSUME NEW E \in EngineT, NEW p \in PromisesOf(E), NEW f \in Handler, NEW r \in Handler,
         NEW cap \in Nat
  PROVE  /\ Registered(E, p, Reaction(E, p, f, r, cap), PerformThen(E, p, f, r, cap))
         /\ Reaction(E, p, f, r, cap) \in ReactionT
<1> DEFINE G == PerformThen(E, p, f, r, cap)
           re == Reaction(E, p, f, r, cap)
           s == E.promises[p]
           t == [s EXCEPT !.thens = @ + 1]
           more == Append(s.reactions, re)
           u == [s EXCEPT !.thens = @ + 1, !.reactions = more]
           j == ReactionJob(p, re, s.state = "rejected", s.result)
<1>1. /\ E.promises \in Seq(PromiseT) /\ E.pairs \in Seq(PairT) /\ E.jobs \in Seq(JobT)
      /\ E.fired \in [PromiseId -> Nat]
      /\ p \in 1 .. Len(E.promises) /\ p \in Nat
  BY DEF EngineT, PromisesOf
<1>2. s \in PromiseT
  BY <1>1
<1>3. re \in ReactionT
  BY <1>2 DEF ReactionT, PromiseT, Reaction
<1>4. more \in Seq(ReactionT)
  BY <1>2, <1>3 DEF PromiseT
<1> HIDE DEF s, more, re, G
<1>5. /\ t.state = s.state /\ t.result = s.result /\ t.thens = s.thens + 1
      /\ t.reactions = s.reactions
      /\ u.state = s.state /\ u.result = s.result /\ u.thens = s.thens + 1
      /\ u.reactions = more
  BY <1>2, <1>4 DEF PromiseT
<1>6. t \in PromiseT /\ u \in PromiseT
  <2>1. s.thens \in Nat /\ s.thens + 1 \in Nat
    BY <1>2 DEF PromiseT
  <2>2. t \in PromiseT
    BY <1>2, <2>1 DEF PromiseT
  <2>3. u \in PromiseT
    BY <1>2, <1>4, <2>1, ZenonT(30) DEF PromiseT
  <2> QED BY <2>2, <2>3
<1>7. j \in JobT
  BY <1>1, <1>2, <1>3 DEF ReactionJob, JobT, ReactionT, PromiseT
<1>8. ASSUME s.state = "pending" PROVE Registered(E, p, re, G)
  <2>1. G = [E EXCEPT !.promises = [@ EXCEPT ![p] = u]]
    BY <1>1, <1>2, <1>8, ZenonT(30) DEF PerformThen, EngineT, PromiseT, Reaction, s, more, re, G
  <2> HIDE DEF u
  <2>2. /\ G.promises = [E.promises EXCEPT ![p] = u] /\ G.pairs = E.pairs
        /\ G.jobs = E.jobs /\ G.fired = E.fired
        /\ G = [promises |-> G.promises, pairs |-> G.pairs, jobs |-> G.jobs, fired |-> G.fired]
    BY <2>1, ZenonT(30) DEF EngineT
  <2>3. G.promises \in Seq(PromiseT)
    BY <1>1, <1>6, <2>2
  <2>4. G \in EngineT
    BY <1>1, <2>2, <2>3, ZenonT(30) DEF EngineT
  <2> QED BY <1>1, <1>5, <1>8, <2>2, <2>4 DEF Registered, PromisesOf, s, more
<1>9. ASSUME s.state # "pending" PROVE Registered(E, p, re, G)
  <2>1. G = [E EXCEPT !.promises = [@ EXCEPT ![p] = t], !.jobs = Append(@, j)]
    BY <1>1, <1>2, <1>9 DEF PerformThen, EngineT, PromiseT, Reaction, s, re, G
  <2> HIDE DEF t, j
  <2>2. /\ G.promises = [E.promises EXCEPT ![p] = t] /\ G.pairs = E.pairs
        /\ G.jobs = Append(E.jobs, j) /\ G.fired = E.fired
        /\ G = [promises |-> G.promises, pairs |-> G.pairs, jobs |-> G.jobs, fired |-> G.fired]
    BY <2>1, ZenonT(30) DEF EngineT
  <2>3. G.promises \in Seq(PromiseT) /\ G.jobs \in Seq(JobT)
    BY <1>1, <1>6, <1>7, <2>2
  <2>4. G \in EngineT
    BY <1>1, <2>2, <2>3, ZenonT(30) DEF EngineT
  <2> QED BY <1>1, <1>5, <1>9, <2>2, <2>4 DEF Registered, PromisesOf, j, s
<1> QED BY <1>3, <1>8, <1>9 DEF s, re, G

\* perform_promise_then.
LEMMA PerformGood ==
  ASSUME NEW na \in Nat, NEW ng \in Nat, NEW E, Good(E, na, ng), NEW p \in PromisesOf(E),
         NEW f \in Handler, NEW r \in Handler, NEW cap \in Nat,
         HandlerOK(Len(E.pairs), na, ng, f, cap), HandlerOK(Len(E.pairs), na, ng, r, cap),
         NEW G, Is(G, PerformThen(E, p, f, r, cap))
  PROVE  /\ Good(G, na, ng)
         /\ Len(G.promises) = Len(E.promises)
         /\ Len(G.pairs) = Len(E.pairs)
<1> DEFINE re == Reaction(E, p, f, r, cap)
           s == E.promises[p]
           j == ReactionJob(p, re, s.state = "rejected", s.result)
           np == Len(E.promises)
           nq == Len(E.pairs)
           n == Len(E.jobs) + 1
<1> E \in EngineT /\ Linked(E, na, ng) /\ Single(E)
  BY DEF Good
<1>2. Registered(E, p, re, G) /\ re \in ReactionT
  BY PerformEffect DEF Is
<1>3. ReactionOK(nq, na, ng, re)
  BY ZenonT(30) DEF ReactionOK, Reaction
<1> HIDE DEF re
<1>4. /\ G \in EngineT
      /\ Len(G.promises) = Len(E.promises) /\ PromisesOf(G) = PromisesOf(E)
      /\ G.pairs = E.pairs /\ PairsOf(G) = PairsOf(E)
      /\ \A x \in PromisesOf(E) \ {p} : G.promises[x] = E.promises[x]
      /\ G.promises[p].state = s.state
      /\ G.promises[p].result = s.result
  BY <1>2, ZenonT(30) DEF Registered, PromisesOf, PairsOf
<1>5. s \in PromiseT /\ PromiseOK(np, nq, na, ng, s) /\ s.reactions \in Seq(ReactionT)
  BY Lengths, ZenonT(30) DEF Linked, PromisesLinked, PromiseT
<1>d. /\ s.state = "pending" => /\ G.promises[p].reactions = Append(s.reactions, re)
                                /\ G.jobs = E.jobs
      /\ s.state # "pending" => /\ G.promises[p].reactions = s.reactions
                                /\ G.jobs = Append(E.jobs, j)
  BY <1>2, ZenonT(30) DEF Registered
<1>r. /\ \A x \in PairsOf(E) : E.pairs[x].promise \in PromisesOf(E)
      /\ \A i \in JobsOf(E) : E.jobs[i].of \in PromisesOf(E)
  BY Refers
<1>p. \A x \in PromisesOf(E) : Pending(G, x) <=> Pending(E, x)
  BY <1>4, ZenonT(30) DEF Pending
<1> HIDE DEF s
<1>l. \A x \in PairsOf(E) : /\ E.pairs[x].promise \in PromisesOf(E)
                            /\ G.pairs[x].promise = E.pairs[x].promise
                            /\ Live(G, x) <=> Live(E, x)
  BY <1>4, <1>r DEF Live
<1>q. PairsLinked(G)
  BY <1>4, <1>r, ZenonT(30) DEF PairsLinked
<1>o. PromiseOK(np, nq, na, ng, G.promises[p]) => PromisesLinked(G, na, ng)
  BY <1>4 DEF Linked, PromisesLinked
<1>s. PromisesOf(G) = PromisesOf(E) /\ PairsOf(G) = PairsOf(E)
  BY <1>4
<1>6. CASE s.state = "pending"
  <2>1. G.promises[p].reactions = Append(s.reactions, re) /\ G.jobs = E.jobs
    BY <1>6, <1>d, ZenonT(30)
  <2>2. \A k \in 1 .. Len(Append(s.reactions, re)) :
          ReactionOK(nq, na, ng, Append(s.reactions, re)[k])
    <3>1. \A k \in 1 .. Len(s.reactions) : ReactionOK(nq, na, ng, s.reactions[k])
      BY <1>5 DEF PromiseOK
    <3>2. /\ Len(Append(s.reactions, re)) = Len(s.reactions) + 1 /\ Len(s.reactions) \in Nat
          /\ \A k \in 1 .. Len(s.reactions) : Append(s.reactions, re)[k] = s.reactions[k]
          /\ Append(s.reactions, re)[Len(s.reactions) + 1] = re
      BY <1>2, <1>5
    <3> SUFFICES ASSUME NEW k \in 1 .. Len(s.reactions) + 1
                 PROVE  ReactionOK(nq, na, ng, Append(s.reactions, re)[k])
      BY <3>2, ZenonT(30)
    <3>3. k \in 1 .. Len(s.reactions) \/ k = Len(s.reactions) + 1
      BY <3>2
    <3> QED BY <1>3, <3>1, <3>2, <3>3, ZenonT(30)
  <2>3. PromiseOK(np, nq, na, ng, G.promises[p])
    BY <1>4, <1>5, <2>1, <2>2, ZenonT(30) DEF PromiseOK
  <2>4. /\ JobsOf(E) \subseteq JobsOf(G) /\ JobsOf(G) \ JobsOf(E) = {}
        /\ \A i \in JobsOf(E) : /\ E.jobs[i].of \in PromisesOf(E)
                                /\ G.jobs[i].of = E.jobs[i].of
                                /\ Thenable(G, i) <=> Thenable(E, i)
    BY <1>r, <2>1, ZenonT(30) DEF JobsOf, Thenable
  <2>5. JobsLinked(G, na, ng)
    BY <1>4, <2>1 DEF Linked, JobsLinked, JobsOf
  <2>6. Linked(G, na, ng)
    BY <1>o, <1>q, <2>3, <2>5 DEF Linked
  <2>7. Single(G)
    BY <1>s, <1>p, <1>l, <2>4, SameSingle, ZenonT(30)
  <2> QED BY <1>4, <2>6, <2>7 DEF Good
<1>7. CASE s.state # "pending"
  <2>1. G.promises[p].reactions = s.reactions /\ G.jobs = Append(E.jobs, j)
    BY <1>7, <1>d, ZenonT(30)
  <2>2. j \in JobT /\ j.job = "reaction" /\ JobOK(np, nq, na, ng, j)
    <3>1. /\ p \in Nat /\ p \in 1 .. np /\ s.result \in ValueT /\ ValueOK(np, s.result)
          /\ re.nth \in Nat /\ re.cap \in Nat
          /\ re.onFulfilled \in Handler /\ re.onRejected \in Handler
      BY <1>2, <1>5, <1>7 DEF PromisesOf, PromiseT, PromiseOK, ReactionT
    <3> QED BY <1>3, <3>1, ZenonT(30) DEF ReactionJob, JobT, JobOK, ReactionOK
  <2> HIDE DEF j
  <2>3. /\ JobsOf(G) = JobsOf(E) \cup {n} /\ n \notin JobsOf(E)
        /\ \A i \in JobsOf(E) : G.jobs[i] = E.jobs[i]
        /\ G.jobs[n] = j
    <3>1. E.jobs \in Seq(JobT) /\ Len(E.jobs) \in Nat
      BY DEF EngineT
    <3>2. \A m \in Nat : 1 .. m + 1 = (1 .. m) \cup {m + 1} /\ m + 1 \notin 1 .. m
      OBVIOUS
    <3>3. /\ Len(G.jobs) = Len(E.jobs) + 1 /\ G.jobs[n] = j
          /\ \A i \in JobsOf(E) : G.jobs[i] = E.jobs[i]
      BY <2>1, <2>2, <3>1 DEF JobsOf
    <3> QED BY <3>1, <3>2, <3>3, ZenonT(30) DEF JobsOf
  <2> HIDE DEF n
  <2>4. PromiseOK(np, nq, na, ng, G.promises[p])
    BY <1>4, <1>5, <2>1, ZenonT(30) DEF PromiseOK
  <2>5. JobsLinked(G, na, ng)
    BY <1>4, <2>2, <2>3, ZenonT(30) DEF Linked, JobsLinked
  <2>6. Linked(G, na, ng)
    BY <1>o, <1>q, <2>4, <2>5 DEF Linked
  <2>7. /\ JobsOf(E) \subseteq JobsOf(G)
        /\ \A i \in JobsOf(E) : /\ E.jobs[i].of \in PromisesOf(E)
                                /\ G.jobs[i].of = E.jobs[i].of
                                /\ Thenable(G, i) <=> Thenable(E, i)
        /\ \A i \in JobsOf(G) \ JobsOf(E) : ~Thenable(G, i)
    BY <1>r, <2>2, <2>3 DEF Thenable
  <2>8. Single(G)
    BY <1>s, <1>p, <1>l, <2>7, SameSingle, ZenonT(30)
  <2> QED BY <1>4, <2>6, <2>8 DEF Good
<1> QED BY <1>6, <1>7

-----------------------------------------------------------------------------
(* A resolving function is called *)

\* The flag already_resolved of pair q is set.
Flagged(E, q) == [E EXCEPT !.pairs[q].called = TRUE]

\* Only the flag of pair q changes.
LEMMA FlaggedEffect ==
  ASSUME NEW E \in EngineT, NEW q \in PairsOf(E), NEW F, F = Flagged(E, q)
  PROVE  /\ F \in EngineT
         /\ F.promises = E.promises /\ F.jobs = E.jobs /\ F.fired = E.fired
         /\ Len(F.pairs) = Len(E.pairs) /\ PairsOf(F) = PairsOf(E)
         /\ \A x \in PairsOf(E) : /\ F.pairs[x].promise = E.pairs[x].promise
                                  /\ F.pairs[x].called <=> x = q \/ E.pairs[x].called
<1> DEFINE s == E.pairs[q]
           t == [s EXCEPT !.called = TRUE]
<1>1. E.pairs \in Seq(PairT) /\ q \in 1 .. Len(E.pairs)
  BY DEF EngineT, PairsOf
<1>2. s \in PairT
  BY <1>1
<1>3. F = [E EXCEPT !.pairs = [@ EXCEPT ![q] = t]]
  BY <1>1 DEF Flagged, EngineT
<1> HIDE DEF s
<1>4. t \in PairT /\ t.promise = s.promise /\ t.called = TRUE
  BY <1>2, ZenonT(30) DEF PairT
<1> HIDE DEF t
<1>5. /\ F.pairs = [E.pairs EXCEPT ![q] = t]
      /\ F.promises = E.promises /\ F.jobs = E.jobs /\ F.fired = E.fired
      /\ F = [promises |-> F.promises, pairs |-> F.pairs, jobs |-> F.jobs, fired |-> F.fired]
  BY <1>3, ZenonT(30) DEF EngineT
<1>6. F.pairs \in Seq(PairT) /\ Len(F.pairs) = Len(E.pairs)
  BY <1>1, <1>4, <1>5
<1>7. F \in EngineT
  BY <1>5, <1>6, ZenonT(30) DEF EngineT
<1>8. ASSUME NEW x \in PairsOf(E)
      PROVE  /\ F.pairs[x].promise = E.pairs[x].promise
             /\ F.pairs[x].called <=> x = q \/ E.pairs[x].called
  <2>1. x \in 1 .. Len(E.pairs)
    BY DEF PairsOf
  <2>2. CASE x = q
    BY <1>1, <1>4, <1>5, <2>1, <2>2 DEF s
  <2>3. CASE x # q
    BY <1>1, <1>5, <2>1, <2>3
  <2> QED BY <2>2, <2>3
<1> QED BY <1>5, <1>6, <1>7, <1>8 DEF PairsOf

\* Jobs are added behind the ones that wait.
LEMMA Added ==
  ASSUME NEW S, NEW a \in Seq(S), NEW b \in Seq(S)
  PROVE  /\ a \o b \in Seq(S) /\ Len(a \o b) = Len(a) + Len(b)
         /\ \A i \in 1 .. Len(a) : (a \o b)[i] = a[i]
         /\ \A i \in 1 .. Len(b) : (a \o b)[Len(a) + i] = b[i]
  OBVIOUS

\* A pending promise is settled: its reactions become jobs, in their order.
SettledTo(E, p, reject, value, G) ==
  LET res == E.promises[p].reactions
  IN  /\ G \in EngineT
      /\ Len(G.promises) = Len(E.promises)
      /\ G.pairs = E.pairs
      /\ G.fired = E.fired
      /\ \A x \in PromisesOf(E) \ {p} : G.promises[x] = E.promises[x]
      /\ G.promises[p].state # "pending"
      /\ G.promises[p].result = value
      /\ G.promises[p].reactions = <<>>
      /\ G.promises[p].thens = E.promises[p].thens
      /\ res \in Seq(ReactionT)
      /\ Len(G.jobs) = Len(E.jobs) + Len(res)
      /\ \A i \in JobsOf(E) : G.jobs[i] = E.jobs[i]
      /\ \A i \in 1 .. Len(res) :
           G.jobs[Len(E.jobs) + i] = ReactionJob(p, res[i], reject, value)

\* What fulfill_or_reject_promise changes.
LEMMA FulfillEffect ==
  ASSUME NEW E \in EngineT, NEW p \in PromisesOf(E), NEW reject \in BOOLEAN,
         NEW value \in ValueT, E.promises[p].state = "pending"
  PROVE  SettledTo(E, p, reject, value, FulfillOrReject(E, p, reject, value))
<1> DEFINE G == FulfillOrReject(E, p, reject, value)
           res == E.promises[p].reactions
           st == IF reject THEN "rejected" ELSE "fulfilled"
           s == E.promises[p]
           none == <<>>
           t == [s EXCEPT !.state = st, !.result = value, !.reactions = none]
           js == [i \in 1 .. Len(res) |-> ReactionJob(p, res[i], reject, value)]
<1>1. /\ E.promises \in Seq(PromiseT) /\ E.pairs \in Seq(PairT) /\ E.jobs \in Seq(JobT)
      /\ E.fired \in [PromiseId -> Nat]
      /\ p \in 1 .. Len(E.promises) /\ p \in Nat
  BY DEF EngineT, PromisesOf
<1>2. s \in PromiseT
  BY <1>1
<1>3. res \in Seq(ReactionT)
  BY <1>2 DEF PromiseT
<1>4. st \in {"fulfilled", "rejected"} /\ none \in Seq(ReactionT)
  OBVIOUS
<1> HIDE DEF st, s, none
<1>5. /\ t.state = st /\ t.result = value /\ t.reactions = none /\ t.thens = s.thens
  BY <1>2, <1>4 DEF PromiseT
<1>6. t \in PromiseT
  BY <1>2, <1>4, ZenonT(30) DEF PromiseT
<1>7. \A i \in 1 .. Len(res) : ReactionJob(p, res[i], reject, value) \in JobT
  <2> SUFFICES ASSUME NEW i \in 1 .. Len(res)
               PROVE  ReactionJob(p, res[i], reject, value) \in JobT
    OBVIOUS
  <2>1. res[i] \in ReactionT
    BY <1>3
  <2> QED BY <1>1, <2>1, SMTT(30) DEF ReactionJob, JobT, ReactionT
<1>8. js \in Seq(JobT) /\ Len(js) = Len(res)
  BY <1>3, <1>7
<1>9. G = [E EXCEPT !.promises[p] = t, !.jobs = @ \o js]
  BY <1>1 DEF FulfillOrReject, EngineT, st, s, none
<1> HIDE DEF js, t, res, G
<1>10. /\ G.promises = [E.promises EXCEPT ![p] = t] /\ G.pairs = E.pairs
       /\ G.jobs = E.jobs \o js /\ G.fired = E.fired
       /\ G = [promises |-> G.promises, pairs |-> G.pairs, jobs |-> G.jobs, fired |-> G.fired]
  BY <1>1, <1>9, ZenonT(30) DEF EngineT
<1>11. G.promises \in Seq(PromiseT) /\ G.jobs \in Seq(JobT)
  BY <1>1, <1>6, <1>8, <1>10
<1>12. G \in EngineT
  BY <1>1, <1>10, <1>11, ZenonT(30) DEF EngineT
<1>13. /\ Len(G.promises) = Len(E.promises)
       /\ \A x \in PromisesOf(E) \ {p} : G.promises[x] = E.promises[x]
       /\ G.promises[p] = t
  BY <1>1, <1>10 DEF PromisesOf
<1>14. /\ Len(G.jobs) = Len(E.jobs) + Len(res)
       /\ \A i \in JobsOf(E) : G.jobs[i] = E.jobs[i]
       /\ \A i \in 1 .. Len(res) : G.jobs[Len(E.jobs) + i] = js[i]
  <2>1. E.jobs \in Seq(JobT) /\ js \in Seq(JobT)
    BY <1>1, <1>8
  <2>2. /\ Len(E.jobs \o js) = Len(E.jobs) + Len(js)
        /\ \A i \in 1 .. Len(E.jobs) : (E.jobs \o js)[i] = E.jobs[i]
        /\ \A i \in 1 .. Len(js) : (E.jobs \o js)[Len(E.jobs) + i] = js[i]
    BY <2>1, SMT
  <2> QED BY <1>8, <1>10, <2>2, ZenonT(30) DEF JobsOf
<1>15. \A i \in 1 .. Len(res) : js[i] = ReactionJob(p, res[i], reject, value)
  BY DEF js
<1>16. /\ t.state # "pending" /\ t.result = value /\ t.reactions = <<>>
       /\ t.thens = E.promises[p].thens
  BY <1>4, <1>5, Zenon DEF s, none
<1> QED BY <1>3, <1>10, <1>12, <1>13, <1>14, <1>15, <1>16, ZenonT(30) DEF SettledTo, res, G

\* One of the two functions of a pair that was not called settles its promise.
LEMMA SettleGood ==
  ASSUME NEW na \in Nat, NEW ng \in Nat, NEW E, Good(E, na, ng), NEW q \in PairsOf(E),
         ~E.pairs[q].called, NEW reject \in BOOLEAN, NEW value \in ValueT,
         ValueOK(Len(E.promises), value),
         NEW G, Is(G, FulfillOrReject(Flagged(E, q), E.pairs[q].promise, reject, value))
  PROVE  /\ Good(G, na, ng)
         /\ Len(G.promises) = Len(E.promises)
         /\ Len(G.pairs) = Len(E.pairs)
<1> DEFINE F == Flagged(E, q)
           p == E.pairs[q].promise
           res == E.promises[p].reactions
           np == Len(E.promises)
           nq == Len(E.pairs)
<1> E \in EngineT /\ Linked(E, na, ng) /\ Single(E)
  BY DEF Good
<1>2. /\ F \in EngineT
      /\ F.promises = E.promises /\ F.jobs = E.jobs /\ F.fired = E.fired
      /\ Len(F.pairs) = Len(E.pairs) /\ PairsOf(F) = PairsOf(E)
      /\ \A x \in PairsOf(E) : /\ F.pairs[x].promise = E.pairs[x].promise
                               /\ F.pairs[x].called <=> x = q \/ E.pairs[x].called
  BY FlaggedEffect
<1>3. G = FulfillOrReject(F, p, reject, value)
  BY DEF Is
<1>4. p \in PromisesOf(E) /\ Live(E, q) /\ Pending(E, p)
  BY Zenon DEF Linked, PairsLinked, LivePending, Single, Live
<1> HIDE DEF F, p
<1>5. p \in PromisesOf(F) /\ F.promises[p].state = "pending" /\ res = F.promises[p].reactions
  BY <1>2, <1>4, Zenon DEF PromisesOf, Pending
<1> HIDE DEF res
<1>6. /\ G \in EngineT
      /\ Len(G.promises) = Len(F.promises)
      /\ G.pairs = F.pairs
      /\ \A x \in PromisesOf(F) \ {p} : G.promises[x] = F.promises[x]
      /\ G.promises[p].state # "pending"
      /\ G.promises[p].result = value
      /\ G.promises[p].reactions = <<>>
      /\ res \in Seq(ReactionT)
      /\ Len(G.jobs) = Len(F.jobs) + Len(res)
      /\ \A i \in JobsOf(F) : G.jobs[i] = F.jobs[i]
      /\ \A i \in 1 .. Len(res) :
           G.jobs[Len(F.jobs) + i] = ReactionJob(p, res[i], reject, value)
  <2>1. SettledTo(F, p, reject, value, G)
    BY <1>2, <1>3, <1>5, FulfillEffect, Zenon
  <2> QED BY <1>5, <2>1, Zenon DEF SettledTo
<1>61. Len(E.jobs) \in Nat /\ Len(res) \in Nat
  BY <1>6, Lengths
<1>7. /\ PromisesOf(G) = PromisesOf(E) /\ PairsOf(G) = PairsOf(E)
      /\ JobsOf(E) \subseteq JobsOf(G) /\ JobsOf(F) = JobsOf(E)
      /\ \A x \in PromisesOf(E) \ {p} : G.promises[x] = E.promises[x]
      /\ \A i \in JobsOf(E) : G.jobs[i] = E.jobs[i]
  <2>1. PromisesOf(G) = PromisesOf(E) /\ PairsOf(G) = PairsOf(E) /\ JobsOf(F) = JobsOf(E)
        /\ PromisesOf(F) = PromisesOf(E)
    BY <1>2, <1>6, Zenon DEF PromisesOf, PairsOf, JobsOf
  <2>2. JobsOf(E) \subseteq JobsOf(G)
    <3>1. \A m, k \in Nat : 1 .. m \subseteq 1 .. (m + k)
      OBVIOUS
    <3>2. Len(G.jobs) = Len(E.jobs) + Len(res)
      BY <1>2, <1>6, Zenon
    <3> QED BY <1>61, <3>1, <3>2, Zenon DEF JobsOf
  <2>3. \A x \in PromisesOf(E) \ {p} : G.promises[x] = E.promises[x]
    BY <1>2, <1>6, <2>1, Zenon
  <2>4. \A i \in JobsOf(E) : G.jobs[i] = E.jobs[i]
    BY <1>2, <1>6, <2>1, Zenon
  <2> QED BY <2>1, <2>2, <2>3, <2>4, Zenon
<1>8. ASSUME NEW i \in JobsOf(G) \ JobsOf(E)
      PROVE  \E k \in 1 .. Len(res) : G.jobs[i] = ReactionJob(p, res[k], reject, value)
  <2>1. \A m, l \in Nat : \A x \in (1 .. (m + l)) \ (1 .. m) : \E k \in 1 .. l : x = m + k
    <3> SUFFICES ASSUME NEW m \in Nat, NEW l \in Nat, NEW x \in (1 .. (m + l)) \ (1 .. m)
                 PROVE  \E k \in 1 .. l : x = m + k
      OBVIOUS
    <3>1. x - m \in 1 .. l /\ x = m + (x - m)
      OBVIOUS
    <3> QED BY <3>1
  <2>2. Len(G.jobs) = Len(E.jobs) + Len(res)
    BY <1>2, <1>6, Zenon
  <2>21. i \in (1 .. (Len(E.jobs) + Len(res))) \ (1 .. Len(E.jobs))
    BY <2>2, Zenon DEF JobsOf
  <2>3. PICK k \in 1 .. Len(res) : i = Len(E.jobs) + k
    BY <1>61, <2>1, <2>21, Zenon
  <2>4. G.jobs[Len(E.jobs) + k] = ReactionJob(p, res[k], reject, value)
    BY <1>2, <1>6, Zenon
  <2> QED BY <2>3, <2>4, Zenon
<1>9. Linked(G, na, ng)
  <2>1. PairsLinked(G)
    <3>1. \A x \in PairsOf(E) : E.pairs[x].promise \in PromisesOf(E)
      BY DEF Linked, PairsLinked
    <3>2. \A x \in PairsOf(E) : G.pairs[x].promise = E.pairs[x].promise
      BY <1>2, <1>6, Zenon
    <3> QED BY <1>7, <3>1, <3>2, Zenon DEF PairsLinked
  <2>2. PromiseOK(np, nq, na, ng, G.promises[p])
    BY <1>6 DEF PromiseOK
  <2>3. \A x \in PromisesOf(G) : PromiseOK(np, nq, na, ng, G.promises[x])
    BY <1>7, <2>2, Zenon DEF Linked, PromisesLinked
  <2>4. \A k \in 1 .. Len(res) : ReactionOK(nq, na, ng, res[k])
    BY <1>4 DEF Linked, PromisesLinked, PromiseOK, res
  <2>5. \A i \in JobsOf(G) \ JobsOf(E) : JobOK(np, nq, na, ng, G.jobs[i])
    <3> SUFFICES ASSUME NEW i \in JobsOf(G) \ JobsOf(E)
                 PROVE  JobOK(np, nq, na, ng, G.jobs[i])
      OBVIOUS
    <3>1. PICK k \in 1 .. Len(res) : G.jobs[i] = ReactionJob(p, res[k], reject, value)
      BY <1>8
    <3>2. ReactionOK(nq, na, ng, res[k])
      BY <2>4, Zenon
    <3>3. /\ G.jobs[i].arg = value /\ G.jobs[i].of = p /\ G.jobs[i].job = "reaction"
          /\ G.jobs[i].cap = res[k].cap
          /\ G.jobs[i].handler = IF reject THEN res[k].onRejected ELSE res[k].onFulfilled
      BY <3>1 DEF ReactionJob
    <3>4. p \in 1 .. np /\ ValueOK(np, value)
      BY <1>4 DEF PromisesOf
    <3>5. HandlerOK(nq, na, ng, G.jobs[i].handler, G.jobs[i].cap)
      BY <3>2, <3>3, Zenon DEF ReactionOK
    <3> QED BY <3>3, <3>4, <3>5, Zenon DEF JobOK
  <2>6. \A i \in JobsOf(G) : JobOK(np, nq, na, ng, G.jobs[i])
    BY <1>7, <2>5 DEF Linked, JobsLinked
  <2> QED BY <1>2, <1>6, <2>1, <2>3, <2>6, Zenon DEF Linked, PromisesLinked, JobsLinked
<1>10. Single(G)
  <2>1. \A x \in PairsOf(G) : /\ Live(G, x) <=> Live(E, x) /\ x # q
                              /\ G.pairs[x].promise = E.pairs[x].promise
    BY <1>2, <1>6, <1>7, ZenonT(30) DEF Live
  <2>2. \A i \in JobsOf(G) : Thenable(G, i) => Thenable(E, i) /\ i \in JobsOf(E)
    <3> SUFFICES ASSUME NEW i \in JobsOf(G), Thenable(G, i) PROVE i \in JobsOf(E) /\ Thenable(E, i)
      BY Zenon
    <3>1. i \in JobsOf(E)
      <4> SUFFICES ASSUME i \notin JobsOf(E) PROVE FALSE
        OBVIOUS
      <4>1. PICK k \in 1 .. Len(res) : G.jobs[i] = ReactionJob(p, res[k], reject, value)
        BY <1>8, Zenon
      <4> QED BY <4>1 DEF ReactionJob, Thenable
    <3> QED BY <1>7, <3>1 DEF Thenable
  <2>3. \A i \in JobsOf(E) : Thenable(E, i) => Thenable(G, i)
    BY <1>7, Zenon DEF Thenable
  <2>4. \A x \in PromisesOf(E) : Pending(G, x) <=> Pending(E, x) /\ x # p
    BY <1>6, <1>7, Zenon DEF Pending
  <2>5. /\ \A x \in PairsOf(E) : E.pairs[x].promise \in PromisesOf(E)
        /\ \A i \in JobsOf(E) : E.jobs[i].of \in PromisesOf(E)
    BY Refers
  <2>6. E.pairs[q].promise = p
    BY ZenonT(30) DEF p
  <2>7. LivePending(G)
    BY <1>4, <1>7, <2>1, <2>4, <2>5, <2>6, ZenonT(30) DEF Single, LivePending, PairsApart
  <2>8. QueuedPending(G)
    BY <1>4, <1>7, <2>2, <2>4, <2>5, <2>6, Zenon DEF Single, QueuedPending, BothApart
  <2>9. PairsApart(G)
    BY <1>7, <2>1 DEF Single, PairsApart
  <2>10. JobsApart(G)
    BY <1>7, <2>2, ZenonT(30) DEF Single, JobsApart
  <2>11. BothApart(G)
    BY <1>7, <2>1, <2>2, ZenonT(30) DEF Single, BothApart
  <2>12. Provided(G)
    <3> SUFFICES ASSUME NEW y \in PromisesOf(E), Pending(E, y), y # p
                 PROVE  \/ \E x \in PairsOf(G) : Live(G, x) /\ G.pairs[x].promise = y
                        \/ \E i \in JobsOf(G) : Thenable(G, i) /\ G.jobs[i].of = y
      BY <1>7, <2>4, Zenon DEF Provided
    <3>1. \/ \E x \in PairsOf(E) : Live(E, x) /\ E.pairs[x].promise = y
          \/ \E i \in JobsOf(E) : Thenable(E, i) /\ E.jobs[i].of = y
      BY Zenon DEF Single, Provided
    <3>2. CASE \E x \in PairsOf(E) : Live(E, x) /\ E.pairs[x].promise = y
      BY <1>7, <2>1, <2>6, <3>2, Zenon
    <3>3. CASE \E i \in JobsOf(E) : Thenable(E, i) /\ E.jobs[i].of = y
      <4>1. PICK i \in JobsOf(E) : Thenable(E, i) /\ E.jobs[i].of = y
        BY <3>3, Zenon
      <4>2. i \in JobsOf(G) /\ Thenable(G, i) /\ G.jobs[i].of = y
        BY <1>7, <2>3, <4>1, Zenon
      <4> QED BY <4>2, Zenon
    <3> QED BY <3>1, <3>2, <3>3, Zenon
  <2> QED BY <2>7, <2>8, <2>9, <2>10, <2>11, <2>12 DEF Single
<1> QED BY <1>2, <1>6, <1>9, <1>10 DEF Good

\* A job is added at the end of the queue.
Queued(E, j) == [E EXCEPT !.jobs = Append(@, j)]

\* The jobs that wait stay where they are.
QueuedTo(E, j, G) ==
  /\ G \in EngineT
  /\ G.promises = E.promises /\ G.pairs = E.pairs
  /\ JobsOf(G) = JobsOf(E) \cup {Len(E.jobs) + 1} /\ Len(E.jobs) + 1 \notin JobsOf(E)
  /\ \A i \in JobsOf(E) : G.jobs[i] = E.jobs[i]
  /\ G.jobs[Len(E.jobs) + 1] = j

LEMMA QueuedEffect ==
  ASSUME NEW E \in EngineT, NEW j \in JobT, NEW G, G = Queued(E, j)
  PROVE  QueuedTo(E, j, G)
<1>1. E.jobs \in Seq(JobT)
  BY DEF EngineT
<1>2. /\ G.promises = E.promises /\ G.pairs = E.pairs /\ G.fired = E.fired
      /\ G.jobs = Append(E.jobs, j)
      /\ G = [promises |-> G.promises, pairs |-> G.pairs, jobs |-> G.jobs, fired |-> G.fired]
  BY ZenonT(30) DEF EngineT, Queued
<1>3. G.jobs \in Seq(JobT) /\ Len(G.jobs) = Len(E.jobs) + 1 /\ Len(E.jobs) \in Nat
  BY <1>1, <1>2
<1>4. G \in EngineT
  BY <1>2, <1>3, ZenonT(30) DEF EngineT
<1>5. /\ JobsOf(G) = JobsOf(E) \cup {Len(E.jobs) + 1} /\ Len(E.jobs) + 1 \notin JobsOf(E)
  <2>1. \A n \in Nat : 1 .. n + 1 = (1 .. n) \cup {n + 1} /\ n + 1 \notin 1 .. n
    OBVIOUS
  <2> QED BY <1>3, <2>1, ZenonT(30) DEF JobsOf
<1>6. /\ \A i \in JobsOf(E) : G.jobs[i] = E.jobs[i]
      /\ G.jobs[Len(E.jobs) + 1] = j
  BY <1>1, <1>2 DEF JobsOf
<1> QED BY <1>2, <1>4, <1>5, <1>6, Zenon DEF QueuedTo

\* A pair that was not called resolves its promise to a thenable: the job takes
\* the place of the pair.
LEMMA DeferGood ==
  ASSUME NEW na \in Nat, NEW ng \in Nat, NEW E, Good(E, na, ng), NEW q \in PairsOf(E),
         ~E.pairs[q].called, NEW value \in ValueT, ValueOK(Len(E.promises), value),
         value.kind \in {"promise", "thenable"},
         NEW G, Is(G, Queued(Flagged(E, q), ThenableJob(E.pairs[q].promise, value)))
  PROVE  /\ Good(G, na, ng)
         /\ Len(G.promises) = Len(E.promises)
         /\ Len(G.pairs) = Len(E.pairs)
<1> DEFINE F == Flagged(E, q)
           p == E.pairs[q].promise
           j == ThenableJob(p, value)
           n == Len(E.jobs) + 1
           np == Len(E.promises)
           nq == Len(E.pairs)
<1> E \in EngineT /\ Linked(E, na, ng) /\ Single(E)
  BY DEF Good
<1>2. /\ F \in EngineT
      /\ F.promises = E.promises /\ F.jobs = E.jobs
      /\ Len(F.pairs) = Len(E.pairs) /\ PairsOf(F) = PairsOf(E)
      /\ \A x \in PairsOf(E) : /\ F.pairs[x].promise = E.pairs[x].promise
                               /\ F.pairs[x].called <=> x = q \/ E.pairs[x].called
  BY FlaggedEffect
<1>3. G = Queued(F, j)
  BY DEF Is
<1>4. p \in PromisesOf(E) /\ Live(E, q) /\ Pending(E, p)
  BY Zenon DEF Linked, PairsLinked, LivePending, Single, Live
<1> HIDE DEF F, p
<1>5. /\ j \in JobT /\ j.job = "thenable" /\ j.of = p /\ j.arg = value
  BY <1>4 DEF ThenableJob, JobT, NoFn, Fn, Handler, PromisesOf
<1> HIDE DEF j
<1>6. /\ G \in EngineT
      /\ G.promises = F.promises /\ G.pairs = F.pairs
      /\ JobsOf(G) = JobsOf(F) \cup {Len(F.jobs) + 1} /\ Len(F.jobs) + 1 \notin JobsOf(F)
      /\ \A i \in JobsOf(F) : G.jobs[i] = F.jobs[i]
      /\ G.jobs[Len(F.jobs) + 1] = j
  <2>1. F \in EngineT /\ j \in JobT
    BY <1>2, <1>5, Zenon
  <2>2. QueuedTo(F, j, G)
    BY <1>3, <2>1, QueuedEffect, Zenon
  <2> QED BY <2>2, Zenon DEF QueuedTo
<1>p. PromisesOf(G) = PromisesOf(E) /\ G.promises = E.promises
  BY <1>2, <1>6, Zenon DEF PromisesOf
<1>q. /\ PairsOf(G) = PairsOf(E)
      /\ \A x \in PairsOf(E) : /\ G.pairs[x].promise = E.pairs[x].promise
                               /\ G.pairs[x].called <=> x = q \/ E.pairs[x].called
  BY <1>2, <1>6, Zenon DEF PairsOf
<1>7. /\ G.jobs[n] = j
      /\ JobsOf(G) = JobsOf(E) \cup {n} /\ n \notin JobsOf(E)
      /\ \A i \in JobsOf(E) : G.jobs[i] = E.jobs[i]
  BY <1>2, <1>6, ZenonT(30) DEF JobsOf
<1> HIDE DEF n
<1>8. /\ \A x \in PairsOf(E) : E.pairs[x].promise \in PromisesOf(E)
      /\ \A i \in JobsOf(E) : E.jobs[i].of \in PromisesOf(E)
  BY Refers, ZenonT(30)
<1>9. Linked(G, na, ng)
  <2>1. PairsLinked(G)
    BY <1>p, <1>q, <1>8 DEF PairsLinked
  <2>2. JobOK(np, nq, na, ng, j)
    BY <1>4, <1>5, Zenon DEF JobOK, PromisesOf
  <2>3. \A i \in JobsOf(G) : JobOK(np, nq, na, ng, G.jobs[i])
    BY <1>7, <2>2 DEF Linked, JobsLinked
  <2> QED BY <1>2, <1>6, <1>p, <2>1, <2>3, Zenon DEF Linked, PromisesLinked, JobsLinked
<1>10. Single(G)
  <2>1. \A x \in PairsOf(E) : Live(G, x) <=> Live(E, x) /\ x # q
    BY <1>q, Zenon DEF Live
  <2>2. /\ \A i \in JobsOf(E) : Thenable(G, i) <=> Thenable(E, i)
        /\ Thenable(G, n)
    BY <1>5, <1>7 DEF Thenable
  <2>3. \A x : Pending(G, x) <=> Pending(E, x)
    BY <1>p, Zenon DEF Pending
  <2>4. E.pairs[q].promise = p
    BY DEF p
  <2>5. LivePending(G)
    BY <1>q, <2>1, <2>3, ZenonT(30) DEF Single, LivePending
  <2>6. QueuedPending(G)
    BY <1>4, <1>5, <1>7, <2>2, <2>3, Zenon DEF Single, QueuedPending
  <2>7. PairsApart(G)
    BY <1>q, <2>1 DEF Single, PairsApart
  <2>old. \A i \in JobsOf(E) : Thenable(E, i) => E.jobs[i].of # p
    BY <1>4, <2>4, Zenon DEF Single, BothApart
  <2>new. \A x \in PairsOf(E) : Live(G, x) => E.pairs[x].promise # p
    BY <1>4, <2>1, <2>4, ZenonT(30) DEF Single, PairsApart
  <2>8. JobsApart(G)
    <3>1. JobsApart(E)
      BY ZenonT(30) DEF Single
    <3> QED BY <1>5, <1>7, <2>2, <2>old, <3>1, Zenon DEF JobsApart
  <2>9. BothApart(G)
    <3>1. BothApart(E)
      BY ZenonT(30) DEF Single
    <3> SUFFICES ASSUME NEW x \in PairsOf(E), NEW i \in JobsOf(G), Live(G, x), Thenable(G, i)
                 PROVE  E.pairs[x].promise # G.jobs[i].of
      BY <1>q, Zenon DEF BothApart
    <3>2. CASE i \in JobsOf(E)
      BY <1>7, <2>1, <2>2, <3>1, <3>2, Zenon DEF BothApart
    <3>3. CASE i = n
      BY <1>5, <1>7, <2>new, <3>3, Zenon
    <3> QED BY <1>7, <3>2, <3>3, Zenon
  <2>10. Provided(G)
    <3> SUFFICES ASSUME NEW y \in PromisesOf(E), Pending(E, y)
                 PROVE  \/ \E x \in PairsOf(G) : Live(G, x) /\ G.pairs[x].promise = y
                        \/ \E i \in JobsOf(G) : Thenable(G, i) /\ G.jobs[i].of = y
      BY <1>p, <2>3, ZenonT(30) DEF Provided
    <3>1. \/ \E x \in PairsOf(E) : Live(E, x) /\ E.pairs[x].promise = y
          \/ \E i \in JobsOf(E) : Thenable(E, i) /\ E.jobs[i].of = y
      BY ZenonT(30) DEF Single, Provided
    <3>2. CASE y = p
      BY <1>5, <1>7, <2>2, <3>2, ZenonT(30)
    <3>3. CASE y # p
      BY <1>7, <1>q, <2>1, <2>2, <2>4, <3>1, <3>3, ZenonT(30)
    <3> QED BY <3>2, <3>3, ZenonT(30)
  <2> QED BY <2>5, <2>6, <2>7, <2>8, <2>9, <2>10 DEF Single
<1> QED BY <1>2, <1>6, <1>p, <1>9, <1>10, Zenon DEF Good

-----------------------------------------------------------------------------
(* A promise is made *)

\* A new promise is pending and has a pair of resolving functions.
LEMMA NewPromiseEffect ==
  ASSUME NEW E \in EngineT, NEW holder \in Holder, NEW G, G = NewPromise(E, holder)
  PROVE  /\ G \in EngineT
         /\ Len(G.promises) = Len(E.promises) + 1
         /\ Len(G.pairs) = Len(E.pairs) + 1
         /\ G.jobs = E.jobs
         /\ \A p \in PromisesOf(E) : G.promises[p] = E.promises[p]
         /\ \A q \in PairsOf(E) : G.pairs[q] = E.pairs[q]
         /\ G.promises[Len(E.promises) + 1]
              = [state |-> "pending", result |-> Plain, reactions |-> <<>>, thens |-> 0]
         /\ G.pairs[Len(E.pairs) + 1]
              = [promise |-> Len(E.promises) + 1, called |-> FALSE, held |-> holder]
<1> DEFINE s == [state |-> "pending", result |-> Plain, reactions |-> <<>>, thens |-> 0]
           r == [promise |-> Len(E.promises) + 1, called |-> FALSE, held |-> holder]
<1>1. E.promises \in Seq(PromiseT) /\ E.pairs \in Seq(PairT)
  BY DEF EngineT
<1>2. s \in PromiseT /\ r \in PairT
  BY <1>1 DEF PromiseT, PairT, Plain, ValueT
<1>3. G = [E EXCEPT !.promises = Append(@, s), !.pairs = Append(@, r)]
  BY DEF NewPromise, CreateResolving, EngineT
<1> HIDE DEF s, r
<1>4. /\ G.promises = Append(E.promises, s) /\ G.pairs = Append(E.pairs, r)
      /\ G.jobs = E.jobs /\ G.fired = E.fired
      /\ G = [promises |-> G.promises, pairs |-> G.pairs, jobs |-> G.jobs, fired |-> G.fired]
  BY <1>3, ZenonT(30) DEF EngineT
<1>5. G.promises \in Seq(PromiseT) /\ G.pairs \in Seq(PairT)
  BY <1>1, <1>2, <1>4
<1>6. G \in EngineT
  BY <1>4, <1>5, ZenonT(30) DEF EngineT
<1> QED BY <1>1, <1>2, <1>4, <1>6 DEF PromisesOf, PairsOf, s, r

\* A new promise comes with the pair that settles it.
LEMMA NewGood ==
  ASSUME NEW na \in Nat, NEW ng \in Nat, NEW E, Good(E, na, ng), NEW holder \in Holder,
         NEW G, Is(G, NewPromise(E, holder))
  PROVE  /\ Good(G, na, ng)
         /\ Len(G.promises) = Len(E.promises) + 1
         /\ Len(G.pairs) = Len(E.pairs) + 1
<1> DEFINE np == Len(E.promises)
           nq == Len(E.pairs)
           s == [state |-> "pending", result |-> Plain, reactions |-> <<>>, thens |-> 0]
           r == [promise |-> Len(E.promises) + 1, called |-> FALSE, held |-> holder]
<1> E \in EngineT /\ Linked(E, na, ng) /\ Single(E)
  BY DEF Good
<1>2. np \in Nat /\ nq \in Nat
  BY Lengths, ZenonT(30)
<1>3. /\ G \in EngineT
      /\ Len(G.promises) = np + 1 /\ Len(G.pairs) = nq + 1 /\ G.jobs = E.jobs
      /\ \A p \in PromisesOf(E) : G.promises[p] = E.promises[p]
      /\ \A q \in PairsOf(E) : G.pairs[q] = E.pairs[q]
      /\ G.promises[np + 1] = s /\ G.pairs[nq + 1] = r
  BY NewPromiseEffect DEF Is
<1>4. /\ PromisesOf(G) = PromisesOf(E) \cup {np + 1} /\ np + 1 \notin PromisesOf(E)
      /\ PairsOf(G) = PairsOf(E) \cup {nq + 1} /\ nq + 1 \notin PairsOf(E)
      /\ JobsOf(G) = JobsOf(E)
  <2>1. \A n \in Nat : 1 .. n + 1 = (1 .. n) \cup {n + 1} /\ n + 1 \notin 1 .. n
    OBVIOUS
  <2> QED BY <1>2, <1>3, <2>1, ZenonT(30) DEF PromisesOf, PairsOf, JobsOf
<1>5. /\ s.state = "pending" /\ s.result.kind = "plain" /\ Len(s.reactions) = 0
      /\ r.promise = np + 1 /\ r.called = FALSE
  BY DEF Plain
<1> HIDE DEF s, r
<1>np. np = Len(E.promises) /\ nq = Len(E.pairs)
  BY ZenonT(30)
<1> HIDE DEF np, nq
<1>6. Linked(G, na, ng)
  <2>1. PairsLinked(G)
    BY <1>3, <1>4, <1>5 DEF Linked, PairsLinked
  <2>2. PromiseOK(np + 1, nq + 1, na, ng, s)
    BY <1>5 DEF PromiseOK, ValueOK
  <2>3. /\ \A p \in PromisesOf(E) : PromiseOK(np + 1, nq + 1, na, ng, E.promises[p])
        /\ \A i \in JobsOf(E) : JobOK(np + 1, nq + 1, na, ng, E.jobs[i])
    <3>1. np <= np + 1 /\ nq <= nq + 1 /\ np + 1 \in Nat /\ nq + 1 \in Nat /\ na <= na /\ ng <= ng
      BY <1>2
    <3>2. /\ \A t : PromiseOK(np, nq, na, ng, t) => PromiseOK(np + 1, nq + 1, na, ng, t)
          /\ \A j : JobOK(np, nq, na, ng, j) => JobOK(np + 1, nq + 1, na, ng, j)
      BY <1>2, <3>1, MoreOK, ZenonT(30)
    <3> QED BY <1>np, <3>2 DEF Linked, PromisesLinked, JobsLinked
  <2> QED BY <1>3, <1>4, <2>1, <2>2, <2>3, ZenonT(30) DEF Linked, PromisesLinked, JobsLinked
<1>7. Single(G)
  <2>1. /\ \A q \in PairsOf(E) : Live(G, q) <=> Live(E, q)
        /\ Live(G, nq + 1) /\ Pending(G, np + 1)
        /\ \A i \in JobsOf(E) : Thenable(G, i) <=> Thenable(E, i)
        /\ \A p \in PromisesOf(E) : Pending(G, p) <=> Pending(E, p)
    BY <1>3, <1>4, <1>5, ZenonT(30) DEF Live, Thenable, Pending
  <2>2. /\ \A q \in PairsOf(E) : E.pairs[q].promise \in PromisesOf(E)
        /\ \A i \in JobsOf(E) : E.jobs[i].of \in PromisesOf(E)
    BY Refers
  <2>p. G.pairs[nq + 1].promise = np + 1 /\ \A q \in PairsOf(E) : G.pairs[q] = E.pairs[q]
    BY <1>3, <1>5
  <2>j. JobsOf(G) = JobsOf(E) /\ G.jobs = E.jobs
    BY <1>3, <1>4, ZenonT(30)
  <2>3. LivePending(G)
    BY <1>4, <2>p, <2>1, <2>2, ZenonT(30) DEF Single, LivePending
  <2>4. QueuedPending(G)
    BY <2>j, <2>1, <2>2, ZenonT(30) DEF Single, QueuedPending
  <2>5. PairsApart(G)
    <3>1. \A x, y \in PairsOf(E) :
            Live(G, x) /\ Live(G, y) /\ x # y => G.pairs[x].promise # G.pairs[y].promise
      BY <2>p, <2>1, Zenon DEF Single, PairsApart
    <3>2. \A x \in PairsOf(E) : G.pairs[x].promise # G.pairs[nq + 1].promise
      BY <1>4, <2>p, <2>2, Zenon
    <3> QED BY <1>4, <3>1, <3>2, Zenon DEF PairsApart
  <2>6. JobsApart(G)
    BY <2>j, <2>1, ZenonT(30) DEF Single, JobsApart
  <2>7. BothApart(G)
    <3>1. \A x \in PairsOf(E), i \in JobsOf(E) :
            Live(G, x) /\ Thenable(G, i) => G.pairs[x].promise # G.jobs[i].of
      BY <2>p, <2>j, <2>1, Zenon DEF Single, BothApart
    <3>2. \A i \in JobsOf(E) : G.jobs[i].of # G.pairs[nq + 1].promise
      BY <1>4, <2>p, <2>j, <2>2, Zenon
    <3> QED BY <1>4, <2>j, <3>1, <3>2, Zenon DEF BothApart
  <2>8. Provided(G)
    <3> SUFFICES ASSUME NEW x \in PromisesOf(G), Pending(G, x)
                 PROVE  \/ \E q \in PairsOf(G) : Live(G, q) /\ G.pairs[q].promise = x
                        \/ \E i \in JobsOf(G) : Thenable(G, i) /\ G.jobs[i].of = x
      BY ZenonT(30) DEF Provided
    <3>1. CASE x = np + 1
      BY <1>4, <2>p, <2>1, <3>1, ZenonT(30)
    <3>2. CASE x \in PromisesOf(E)
      BY <1>4, <2>p, <2>j, <2>1, <3>2, ZenonT(30) DEF Single, Provided
    <3> QED BY <1>4, <3>1, <3>2, ZenonT(30)
  <2> QED BY <2>3, <2>4, <2>5, <2>6, <2>7, <2>8 DEF Single
<1> QED BY <1>np, <1>3, <1>6, <1>7 DEF Good

-----------------------------------------------------------------------------
(* js_promise_resolve_function_call, js_promise_then and js_promise_resolve *)

\* js_promise_resolve_function_call.
LEMMA CallGood ==
  ASSUME NEW na \in Nat, NEW ng \in Nat, NEW E, Good(E, na, ng), NEW q \in PairsOf(E),
         NEW reject \in BOOLEAN, NEW value \in ValueT, ValueOK(Len(E.promises), value),
         NEW G, G = CallResolving(E, q, reject, value)
  PROVE  /\ Good(G, na, ng)
         /\ Len(G.promises) = Len(E.promises)
         /\ Len(G.pairs) = Len(E.pairs)
<1> DEFINE p == E.pairs[q].promise
<1>1. CASE E.pairs[q].called
  BY <1>1 DEF CallResolving
<1>2. ASSUME ~E.pairs[q].called, reject \/ value.kind = "plain"
      PROVE  G = FulfillOrReject(Flagged(E, q), p, reject, value)
  BY <1>2, ZenonT(30) DEF CallResolving, Flagged
<1>3. ASSUME ~E.pairs[q].called, ~(reject \/ value.kind = "plain"),
             value = PromiseValue(p) \/ value.kind = "broken"
      PROVE  G = FulfillOrReject(Flagged(E, q), p, TRUE, Plain)
  BY <1>3, ZenonT(30) DEF CallResolving, Flagged
<1>4. ASSUME ~E.pairs[q].called, ~(reject \/ value.kind = "plain"),
             ~(value = PromiseValue(p) \/ value.kind = "broken")
      PROVE  /\ G = Queued(Flagged(E, q), ThenableJob(p, value))
             /\ value.kind \in {"promise", "thenable"}
  BY <1>4 DEF CallResolving, Flagged, Queued, ValueT
<1>5. Plain \in ValueT /\ ValueOK(Len(E.promises), Plain)
  BY DEF Plain, ValueT, ValueOK
<1>6. ASSUME ~E.pairs[q].called, reject \/ value.kind = "plain"
      PROVE  Good(G, na, ng) /\ Len(G.promises) = Len(E.promises) /\ Len(G.pairs) = Len(E.pairs)
  BY <1>2, <1>6, SettleGood DEF Is
<1>7. ASSUME ~E.pairs[q].called, ~(reject \/ value.kind = "plain"),
             value = PromiseValue(p) \/ value.kind = "broken"
      PROVE  Good(G, na, ng) /\ Len(G.promises) = Len(E.promises) /\ Len(G.pairs) = Len(E.pairs)
  <2>1. PICK yes \in BOOLEAN : yes = TRUE
    BY ZenonT(30)
  <2>2. G = FulfillOrReject(Flagged(E, q), p, yes, Plain)
    BY <1>3, <1>7, <2>1, ZenonT(30)
  <2> QED BY <1>5, <1>7, <2>2, SettleGood DEF Is
<1>8. ASSUME ~E.pairs[q].called, ~(reject \/ value.kind = "plain"),
             ~(value = PromiseValue(p) \/ value.kind = "broken")
      PROVE  Good(G, na, ng) /\ Len(G.promises) = Len(E.promises) /\ Len(G.pairs) = Len(E.pairs)
  <2>1. /\ G = Queued(Flagged(E, q), ThenableJob(p, value))
        /\ value.kind \in {"promise", "thenable"}
    BY <1>4, <1>8
  <2> QED BY <1>8, <2>1, DeferGood DEF Is
<1> QED BY <1>1, <1>6, <1>7, <1>8

\* js_promise_then: the functions may be those of any pair that exists.
FunctionOK(nq, na, ng, h) ==
  /\ h \in Handler
  /\ h.fn \in {"resolve", "reject"} => h.of \in 1 .. nq
  /\ h.fn # "resume"
  /\ h.fn = "element" => h.of \in 1 .. ng

\* js_promise_then makes a promise and registers a reaction with it.
LEMMA ThenGood ==
  ASSUME NEW na \in Nat, NEW ng \in Nat, NEW E, Good(E, na, ng), NEW p \in PromisesOf(E),
         NEW f, NEW r, FunctionOK(Len(E.pairs), na, ng, f), FunctionOK(Len(E.pairs), na, ng, r),
         NEW G, G = Then(E, p, f, r)
  PROVE  /\ Good(G, na, ng)
         /\ Len(G.promises) = Len(E.promises) + 1
         /\ Len(G.pairs) = Len(E.pairs) + 1
<1> DEFINE F == NewPromise(E, "engine")
<1>1. "engine" \in Holder
  BY DEF Holder
<1>2. /\ Good(F, na, ng)
      /\ Len(F.promises) = Len(E.promises) + 1
      /\ Len(F.pairs) = Len(E.pairs) + 1
  BY <1>1, NewGood DEF Is
<1>3. G = PerformThen(F, p, f, r, Len(F.pairs))
  BY DEF Then
<1> HIDE DEF F
<1>4. Len(E.promises) \in Nat /\ Len(E.pairs) \in Nat
  BY Lengths DEF Good
<1>5. p \in PromisesOf(F) /\ Len(F.pairs) \in Nat /\ f \in Handler /\ r \in Handler
  BY <1>2, <1>4 DEF PromisesOf, FunctionOK
<1>6. /\ HandlerOK(Len(F.pairs), na, ng, f, Len(F.pairs))
      /\ HandlerOK(Len(F.pairs), na, ng, r, Len(F.pairs))
  BY <1>2, <1>4 DEF HandlerOK, FunctionOK
<1>7. /\ Good(G, na, ng)
      /\ Len(G.promises) = Len(F.promises)
      /\ Len(G.pairs) = Len(F.pairs)
  BY <1>2, <1>3, <1>5, <1>6, PerformGood DEF Is
<1> QED BY <1>2, <1>7

\* js_promise_resolve.
LEMMA ResolvedGood ==
  ASSUME NEW na \in Nat, NEW ng \in Nat, NEW E, Good(E, na, ng),
         NEW value \in ValueT, ValueOK(Len(E.promises), value),
         NEW G, G = Resolved(E, value)
  PROVE  /\ Good(G, na, ng)
         /\ ResolvedTo(E, value) \in PromisesOf(G)
         /\ Len(G.promises) \in Nat /\ Len(G.promises) >= Len(E.promises)
         /\ Len(G.pairs) \in Nat /\ Len(G.pairs) >= Len(E.pairs)
<1>1. Len(E.promises) \in Nat /\ Len(E.pairs) \in Nat
  BY Lengths DEF Good
<1>2. CASE value.kind = "promise"
  <2>1. G = E /\ ResolvedTo(E, value) = value.of
    BY <1>2 DEF Resolved, ResolvedTo
  <2> QED BY <1>1, <1>2, <2>1 DEF ValueOK, PromisesOf
<1>3. CASE value.kind # "promise"
  <2> DEFINE F == NewPromise(E, "engine")
  <2>1. "engine" \in Holder
    BY DEF Holder
  <2>2. /\ Good(F, na, ng)
        /\ Len(F.promises) = Len(E.promises) + 1
        /\ Len(F.pairs) = Len(E.pairs) + 1
    BY <2>1, NewGood DEF Is
  <2>3. PICK no \in BOOLEAN : no = FALSE
    BY ZenonT(30)
  <2>4. G = CallResolving(F, Len(F.pairs), no, value)
    BY <1>3, <2>3, ZenonT(30) DEF Resolved
  <2>5. ResolvedTo(E, value) = Len(E.promises) + 1
    BY <1>3 DEF ResolvedTo
  <2> HIDE DEF F
  <2>6. Len(F.pairs) \in PairsOf(F) /\ ValueOK(Len(F.promises), value)
    BY <1>1, <1>3, <2>2 DEF PairsOf, ValueOK
  <2>7. /\ Good(G, na, ng)
        /\ Len(G.promises) = Len(F.promises)
        /\ Len(G.pairs) = Len(F.pairs)
    BY <2>2, <2>4, <2>6, CallGood
  <2> QED BY <1>1, <2>2, <2>5, <2>7 DEF PromisesOf
<1> QED BY <1>2, <1>3
=============================================================================
