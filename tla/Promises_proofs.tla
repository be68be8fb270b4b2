-------------------------- MODULE Promises_proofs --------------------------
(***************************************************************************)
(* A pending promise has exactly one way to be settled and a settled one   *)
(* has none, for any programs and bounds.                                  *)
(*                                                                         *)
(* OneSettler alone is not inductive: a reaction, a job, an async function *)
(* or a frame of the stack could name a pair or a promise that does not    *)
(* exist.  Good adds that every reference is to something that exists, for *)
(* the engine's own record, and Around the same for what surrounds it.     *)
(* Promises_engine shows that each operation of the engine keeps Good, so  *)
(* that an action only has to name the operations it is made of.           *)
(***************************************************************************)
EXTENDS Promises_engine

-----------------------------------------------------------------------------
(* The inductive invariant *)

AsyncT == [cap : Nat, state : {"running", "awaiting", "completed"}, awaits : Nat]
GroupT == [kind : {"all", "allSettled", "any", "race"}, cap : Nat, remaining : Int]
FrameOK(nq, na, ng, f) ==
  /\ f.run \in {"handler", "then"} => f.of \in 1 .. nq
  /\ f.run = "async" => f.of \in 1 .. na
  /\ f.run = "group" => f.of \in 1 .. ng

\* What the async functions ac, the groups gs and the running code st refer to
\* exists; nq is the number of pairs.
Around(nq, ac, gs, st) ==
  /\ ac \in Seq(AsyncT) /\ \A a \in 1 .. Len(ac) : ac[a].cap \in 1 .. nq
  /\ gs \in Seq(GroupT) /\ \A g \in 1 .. Len(gs) : gs[g].cap \in 1 .. nq
  /\ st \in Seq(Frame)
  /\ \A d \in 1 .. Len(st) : FrameOK(nq, Len(ac), Len(gs), st[d])

IInv ==
  /\ Good(Engine, Len(asyncs), Len(groups))
  /\ Around(Len(pairs), asyncs, groups, stack)

\* What is around the engine stays good when there are more pairs.
LEMMA MoreAround ==
  ASSUME NEW nq \in Nat, NEW mq \in Nat, nq <= mq, NEW ac, NEW gs, NEW st,
         Around(nq, ac, gs, st)
  PROVE  Around(mq, ac, gs, st)
<1>1. \A x : x \in 1 .. nq => x \in 1 .. mq
  OBVIOUS
<1> QED BY <1>1, ZenonT(30) DEF Around, FrameOK

\* Code that returns leaves its caller on top, and was itself good.
LEMMA PoppedAround ==
  ASSUME NEW nq, NEW ac, NEW gs, NEW st, Around(nq, ac, gs, st), st # <<>>
  PROVE  Around(nq, ac, gs, SubSeq(st, 1, Len(st) - 1)) /\ st[Len(st)] \in Frame
         /\ FrameOK(nq, Len(ac), Len(gs), st[Len(st)])
<1> DEFINE po == SubSeq(st, 1, Len(st) - 1)
<1>1. st \in Seq(Frame) /\ Len(st) \in Nat /\ Len(st) # 0
  BY DEF Around
<1>2. /\ po \in Seq(Frame) /\ Len(po) = Len(st) - 1
      /\ \A d \in 1 .. Len(po) : po[d] = st[d] /\ d \in 1 .. Len(st)
  <2>1. Len(po) = Len(st) - 1 /\ \A d \in 1 .. Len(st) - 1 : po[d] = st[d]
    <3>1. PICK n \in Nat : n = Len(st) - 1
      BY <1>1
    <3>2. Len(SubSeq(st, 1, n)) = n /\ \A d \in 1 .. n : SubSeq(st, 1, n)[d] = st[d]
      BY <1>1, <3>1
    <3> QED BY <3>1, <3>2
  <2>2. po \in Seq(Frame)
    BY <1>1
  <2>3. \A d \in 1 .. Len(st) - 1 : d \in 1 .. Len(st)
    BY <1>1
  <2> QED BY <2>1, <2>2, <2>3
<1>3. Len(st) \in 1 .. Len(st) /\ st[Len(st)] \in Frame
  BY <1>1
<1> HIDE DEF po
<1>4. \A d \in 1 .. Len(po) : FrameOK(nq, Len(ac), Len(gs), po[d])
  BY <1>2 DEF Around
<1> QED BY <1>2, <1>3, <1>4 DEF Around, po

\* Code that is called goes on top of the stack.
LEMMA PushedAround ==
  ASSUME NEW nq, NEW ac, NEW gs, NEW st, Around(nq, ac, gs, st),
         NEW f \in Frame, FrameOK(nq, Len(ac), Len(gs), f)
  PROVE  Around(nq, ac, gs, Append(st, f))
<1> DEFINE pu == Append(st, f)
<1>1. st \in Seq(Frame) /\ Len(st) \in Nat
  BY DEF Around
<1>2. /\ pu \in Seq(Frame)
      /\ \A d \in 1 .. Len(pu) : pu[d] = f \/ (d \in 1 .. Len(st) /\ pu[d] = st[d])
  BY <1>1
<1> HIDE DEF pu
<1>3. \A d \in 1 .. Len(pu) : FrameOK(nq, Len(ac), Len(gs), pu[d])
  BY <1>2 DEF Around
<1> QED BY <1>2, <1>3 DEF Around, pu

\* Async functions and groups may be added or change, as long as the pair that
\* each of them is to settle exists.
LEMMA ChangedAround ==
  ASSUME NEW nq \in Nat, NEW ac, NEW gs, NEW st, Around(nq, ac, gs, st),
         NEW ac2 \in Seq(AsyncT), NEW gs2 \in Seq(GroupT),
         Len(ac) <= Len(ac2), Len(gs) <= Len(gs2),
         \A a \in 1 .. Len(ac2) : ac2[a].cap \in 1 .. nq,
         \A g \in 1 .. Len(gs2) : gs2[g].cap \in 1 .. nq
  PROVE  Around(nq, ac2, gs2, st)
<1>0. ac \in Seq(AsyncT) /\ gs \in Seq(GroupT)
  BY DEF Around
<1>1. Len(ac) \in Nat /\ Len(gs) \in Nat /\ Len(ac2) \in Nat /\ Len(gs2) \in Nat
  BY <1>0
<1>2. /\ \A x : x \in 1 .. Len(ac) => x \in 1 .. Len(ac2)
      /\ \A x : x \in 1 .. Len(gs) => x \in 1 .. Len(gs2)
  BY <1>1
<1>3. \A d \in 1 .. Len(st) : FrameOK(nq, Len(ac2), Len(gs2), st[d])
  BY <1>2, ZenonT(30) DEF Around, FrameOK
<1> QED BY <1>3, ZenonT(30) DEF Around

\* The record Engine holds the variables.
LEMMA EngineFields ==
  /\ Engine.promises = promises /\ Engine.pairs = pairs
  /\ Engine.jobs = jobs /\ Engine.fired = fired
  BY DEF Engine

\* A step that makes the engine G, with what is around it good.
LEMMA StepGood ==
  ASSUME NEW G, Becomes(G), Good(G, Len(asyncs'), Len(groups')),
         Around(Len(G.pairs), asyncs', groups', stack')
  PROVE  IInv'
<1>1. G \in EngineT
  BY DEF Good
<1>2. G = [promises |-> G.promises, pairs |-> G.pairs, jobs |-> G.jobs, fired |-> G.fired]
  BY <1>1 DEF EngineT
<1>3. Engine' = G /\ pairs' = G.pairs
  BY <1>2 DEF Becomes, Engine
<1> QED BY <1>3 DEF IInv

\* A value that the script can pass refers to a promise that exists.
LEMMA ValuesOK ==
  ASSUME IInv, NEW value \in Values
  PROVE  value \in ValueT /\ ValueOK(Len(Engine.promises), value)
<1>1. Engine.promises = promises
  BY EngineFields
<1>2. Len(promises) \in Nat
  BY <1>1, Lengths DEF IInv, Good
<1>3. \/ value = Plain
      \/ \E p \in 1 .. Len(promises) : value = PromiseValue(p)
      \/ value \in [kind : {"thenable", "broken"}, of : {0}]
  BY DEF Values
<1>4. CASE value = Plain
  BY <1>4 DEF Plain, ValueT, ValueOK
<1>5. CASE \E p \in 1 .. Len(promises) : value = PromiseValue(p)
  BY <1>1, <1>2, <1>5 DEF PromiseValue, ValueT, ValueOK
<1>6. CASE value \in [kind : {"thenable", "broken"}, of : {0}]
  BY <1>6 DEF ValueT, ValueOK
<1> QED BY <1>3, <1>4, <1>5, <1>6

\* What a step starts from.
LEMMA Start ==
  ASSUME IInv
  PROVE  /\ Len(asyncs) \in Nat /\ Len(groups) \in Nat /\ Len(pairs) \in Nat
         /\ Len(promises) \in Nat
         /\ Good(Engine, Len(asyncs), Len(groups))
         /\ Around(Len(pairs), asyncs, groups, stack)
         /\ PairsOf(Engine) = 1 .. Len(pairs) /\ PromisesOf(Engine) = 1 .. Len(promises)
         /\ \A h \in {"script", "engine", "host"} : h \in Holder
         /\ Plain \in ValueT /\ ValueOK(Len(Engine.promises), Plain)
<1>1. Good(Engine, Len(asyncs), Len(groups)) /\ Around(Len(pairs), asyncs, groups, stack)
  BY DEF IInv
<1>2. asyncs \in Seq(AsyncT) /\ groups \in Seq(GroupT)
  BY <1>1 DEF Around
<1>3. Len(asyncs) \in Nat /\ Len(groups) \in Nat
  BY <1>2
<1>4. Len(pairs) \in Nat /\ Len(promises) \in Nat
  BY <1>1, EngineFields, Lengths DEF Good
<1>5. PairsOf(Engine) = 1 .. Len(pairs) /\ PromisesOf(Engine) = 1 .. Len(promises)
  BY EngineFields DEF PairsOf, PromisesOf
<1>6. Plain \in ValueT /\ ValueOK(Len(Engine.promises), Plain)
  BY DEF Plain, ValueT, ValueOK
<1> QED BY <1>1, <1>3, <1>4, <1>5, <1>6 DEF Holder

\* A step after which there are at least as many pairs as before.
LEMMA StepOn ==
  ASSUME IInv, NEW G, Becomes(G), Good(G, Len(asyncs'), Len(groups')),
         Len(pairs) <= Len(G.pairs), Around(Len(pairs), asyncs', groups', stack')
  PROVE  IInv'
<1>1. Len(pairs) \in Nat /\ Len(G.pairs) \in Nat
  BY Start, Lengths DEF Good
<1>2. Around(Len(G.pairs), asyncs', groups', stack')
  BY <1>1, MoreAround
<1> QED BY <1>2, StepGood

\* A step that makes a promise: New, HostCall.
LEMMA NewStep ==
  ASSUME IInv, NEW holder \in Holder, Becomes(NewPromise(Engine, holder)),
         UNCHANGED <<asyncs, groups, stack>>
  PROVE  IInv'
<1> DEFINE G == NewPromise(Engine, holder)
<1>1. /\ Good(G, Len(asyncs), Len(groups))
      /\ Len(G.pairs) = Len(Engine.pairs) + 1
  BY Start, NewGood DEF Is
<1> HIDE DEF G
<1>2. Len(pairs) <= Len(G.pairs)
  BY <1>1, Start, EngineFields
<1> QED BY <1>1, <1>2, Start, StepOn DEF G

\* A call of a resolving function of pair q; what is around it may change.
LEMMA CallStep ==
  ASSUME IInv, NEW q \in 1 .. Len(pairs), NEW reject \in BOOLEAN, NEW value \in ValueT,
         ValueOK(Len(Engine.promises), value), Becomes(CallResolving(Engine, q, reject, value)),
         Len(asyncs') = Len(asyncs), Len(groups') = Len(groups),
         Around(Len(pairs), asyncs', groups', stack')
  PROVE  IInv'
<1> DEFINE G == CallResolving(Engine, q, reject, value)
<1>1. /\ Good(G, Len(asyncs), Len(groups))
      /\ Len(G.pairs) = Len(Engine.pairs)
  <2>1. /\ q \in PairsOf(Engine) /\ Len(asyncs) \in Nat /\ Len(groups) \in Nat
        /\ Good(Engine, Len(asyncs), Len(groups))
    BY Start
  <2> QED BY <2>1, CallGood
<1> HIDE DEF G
<1>2. Len(pairs) <= Len(G.pairs)
  BY <1>1, Start, EngineFields
<1>3. Good(G, Len(asyncs'), Len(groups')) /\ Becomes(G)
  BY <1>1 DEF G
<1> QED BY <1>2, <1>3, StepOn

\* The script calls then (js_promise_then).
LEMMA CallThenStep ==
  ASSUME IInv, NEW p \in 1 .. Len(promises), NEW f \in {NoFn, UserFn}, NEW r \in {NoFn, UserFn},
         CallThen(p, f, r)
  PROVE  IInv'
<1> DEFINE G == Then(Engine, p, f, r)
<1>1. Becomes(G) /\ UNCHANGED <<asyncs, groups, stack>>
  BY DEF CallThen
<1>2. /\ FunctionOK(Len(Engine.pairs), Len(asyncs), Len(groups), f)
      /\ FunctionOK(Len(Engine.pairs), Len(asyncs), Len(groups), r)
  BY DEF FunctionOK, NoFn, UserFn, Fn, Handler
<1>3. /\ p \in PromisesOf(Engine) /\ Len(asyncs) \in Nat /\ Len(groups) \in Nat
      /\ Good(Engine, Len(asyncs), Len(groups))
  BY Start
<1>4. /\ Good(G, Len(asyncs), Len(groups))
      /\ Len(G.pairs) = Len(Engine.pairs) + 1
  BY <1>2, <1>3, ThenGood
<1> HIDE DEF G
<1>5. Len(pairs) <= Len(G.pairs)
  BY <1>4, Start, EngineFields
<1> QED BY <1>1, <1>4, <1>5, Start, StepOn

\* The script calls an async function.
LEMMA CallAsyncStep ==
  ASSUME IInv, CallAsync
  PROVE  IInv'
<1> DEFINE G == NewPromise(Engine, "engine")
           na == Len(asyncs)
           nq == Len(pairs)
           s == [cap |-> nq + 1, state |-> "running", awaits |-> 0]
           fr == [run |-> "async", of |-> na + 1]
<1>1. /\ Becomes(G) /\ UNCHANGED groups
      /\ asyncs' = Append(asyncs, s) /\ stack' = Append(stack, fr)
  BY DEF CallAsync, Pushed
<1>2. /\ na \in Nat /\ nq \in Nat /\ Len(groups) \in Nat
      /\ Good(Engine, na, Len(groups)) /\ Around(nq, asyncs, groups, stack)
      /\ "engine" \in Holder
  BY Start
<1>3. /\ Good(G, na, Len(groups))
      /\ Len(G.pairs) = Len(Engine.pairs) + 1
  BY <1>2, NewGood DEF Is
<1>4. Len(G.pairs) = nq + 1
  BY <1>3, EngineFields
<1>5. s \in AsyncT /\ s.cap = nq + 1 /\ fr \in Frame /\ fr.run = "async" /\ fr.of = na + 1
  BY <1>2 DEF AsyncT, Frame
<1> HIDE DEF G, s, fr
<1>6. Around(nq + 1, asyncs, groups, stack)
  BY <1>2, MoreAround
<1>7. asyncs \in Seq(AsyncT) /\ groups \in Seq(GroupT)
  BY <1>2 DEF Around
<1>8. /\ asyncs' \in Seq(AsyncT) /\ Len(asyncs') = na + 1
      /\ \A a \in 1 .. na : asyncs'[a] = asyncs[a]
      /\ asyncs'[na + 1] = s
  BY <1>1, <1>5, <1>7
<1>9. \A a \in 1 .. Len(asyncs') : asyncs'[a].cap \in 1 .. nq + 1
  <2>1. \A a \in 1 .. na : asyncs[a].cap \in 1 .. nq + 1
    BY <1>6 DEF Around
  <2>2. \A a \in 1 .. na + 1 : a \in 1 .. na \/ a = na + 1
    BY <1>2
  <2> QED BY <1>2, <1>5, <1>8, <2>1, <2>2
<1>10. \A g \in 1 .. Len(groups) : groups[g].cap \in 1 .. nq + 1
  BY <1>6 DEF Around
<1>11. Around(nq + 1, asyncs', groups, stack)
  <2>1. na <= Len(asyncs') /\ Len(groups) <= Len(groups) /\ nq + 1 \in Nat
    BY <1>2, <1>8
  <2> QED BY <1>6, <1>7, <1>8, <1>9, <1>10, <2>1, ChangedAround, ZenonT(30)
<1>12. FrameOK(nq + 1, Len(asyncs'), Len(groups), fr)
  BY <1>2, <1>5, <1>8 DEF FrameOK
<1>13. Around(nq + 1, asyncs', groups, stack')
  BY <1>1, <1>5, <1>11, <1>12, PushedAround, ZenonT(30)
<1>14. Good(G, Len(asyncs'), Len(groups'))
  <2>1. na + 1 \in Nat /\ na <= na + 1 /\ Len(groups) <= Len(groups)
    BY <1>2
  <2>2. Good(G, na + 1, Len(groups))
    BY <1>2, <1>3, <2>1, MoreGood
  <2> QED BY <1>1, <1>8, <2>2
<1> QED BY <1>1, <1>4, <1>13, <1>14, StepGood

\* The script calls Promise.all, allSettled, any or race.
LEMMA GroupStartStep ==
  ASSUME IInv, NEW kind \in {"all", "allSettled", "any", "race"}, GroupStart(kind)
  PROVE  IInv'
<1> DEFINE G == NewPromise(Engine, "engine")
           ng == Len(groups)
           nq == Len(pairs)
           s == [kind |-> kind, cap |-> nq + 1, remaining |-> 1]
           fr == [run |-> "group", of |-> ng + 1]
<1>1. /\ Becomes(G) /\ UNCHANGED asyncs
      /\ groups' = Append(groups, s) /\ stack' = Append(stack, fr)
  BY DEF GroupStart, Pushed
<1>2. /\ ng \in Nat /\ nq \in Nat /\ Len(asyncs) \in Nat
      /\ Good(Engine, Len(asyncs), ng) /\ Around(nq, asyncs, groups, stack)
      /\ "engine" \in Holder
  BY Start
<1>3. /\ Good(G, Len(asyncs), ng)
      /\ Len(G.pairs) = Len(Engine.pairs) + 1
  BY <1>2, NewGood DEF Is
<1>4. Len(G.pairs) = nq + 1
  BY <1>3, EngineFields
<1>5. s \in GroupT /\ s.cap = nq + 1 /\ fr \in Frame /\ fr.run = "group" /\ fr.of = ng + 1
  BY <1>2 DEF GroupT, Frame
<1> HIDE DEF G, s, fr
<1>6. Around(nq + 1, asyncs, groups, stack)
  BY <1>2, MoreAround
<1>7. asyncs \in Seq(AsyncT) /\ groups \in Seq(GroupT)
  BY <1>2 DEF Around
<1>8. /\ groups' \in Seq(GroupT) /\ Len(groups') = ng + 1
      /\ \A a \in 1 .. ng : groups'[a] = groups[a]
      /\ groups'[ng + 1] = s
  BY <1>1, <1>5, <1>7
<1>9. \A a \in 1 .. Len(groups') : groups'[a].cap \in 1 .. nq + 1
  <2>1. \A a \in 1 .. ng : groups[a].cap \in 1 .. nq + 1
    BY <1>6 DEF Around
  <2>2. \A a \in 1 .. ng + 1 : a \in 1 .. ng \/ a = ng + 1
    BY <1>2
  <2> QED BY <1>2, <1>5, <1>8, <2>1, <2>2
<1>10. \A a \in 1 .. Len(asyncs) : asyncs[a].cap \in 1 .. nq + 1
  BY <1>6 DEF Around
<1>11. Around(nq + 1, asyncs, groups', stack)
  <2>1. ng <= Len(groups') /\ Len(asyncs) <= Len(asyncs) /\ nq + 1 \in Nat
    BY <1>2, <1>8
  <2> QED BY <1>6, <1>7, <1>8, <1>9, <1>10, <2>1, ChangedAround, ZenonT(30)
<1>12. FrameOK(nq + 1, Len(asyncs), Len(groups'), fr)
  BY <1>2, <1>5, <1>8 DEF FrameOK
<1>13. Around(nq + 1, asyncs, groups', stack')
  BY <1>1, <1>5, <1>11, <1>12, PushedAround, ZenonT(30)
<1>14. Good(G, Len(asyncs'), Len(groups'))
  <2>1. ng + 1 \in Nat /\ ng <= ng + 1 /\ Len(asyncs) <= Len(asyncs)
    BY <1>2
  <2>2. Good(G, Len(asyncs), ng + 1)
    BY <1>2, <1>3, <2>1, MoreGood
  <2> QED BY <1>1, <1>8, <2>2
<1> QED BY <1>1, <1>4, <1>13, <1>14, StepGood

\* The state of an async function or the count of a group changes, nothing else
\* of it.
LEMMA AsyncChanged ==
  ASSUME NEW nq \in Nat, NEW ac, NEW gs, NEW st, Around(nq, ac, gs, st),
         NEW a \in 1 .. Len(ac), NEW t \in AsyncT, t.cap = ac[a].cap
  PROVE  Around(nq, [ac EXCEPT ![a] = t], gs, st) /\ Len([ac EXCEPT ![a] = t]) = Len(ac)
<1> DEFINE ac2 == [ac EXCEPT ![a] = t]
<1>1. ac \in Seq(AsyncT) /\ gs \in Seq(GroupT)
  BY DEF Around
<1>2. ac2 \in Seq(AsyncT) /\ Len(ac2) = Len(ac) /\ Len(ac) \in Nat /\ Len(gs) \in Nat
      /\ \A x \in 1 .. Len(ac) : ac2[x].cap = ac[x].cap
  BY <1>1
<1> HIDE DEF ac2
<1>3. /\ \A x \in 1 .. Len(ac2) : ac2[x].cap \in 1 .. nq
      /\ \A g \in 1 .. Len(gs) : gs[g].cap \in 1 .. nq
  BY <1>2 DEF Around
<1>4. Len(ac) <= Len(ac2) /\ Len(gs) <= Len(gs)
  BY <1>2
<1>5. Around(nq, ac2, gs, st)
  BY <1>1, <1>2, <1>3, <1>4, ChangedAround, ZenonT(30)
<1> QED BY <1>2, <1>5 DEF ac2

\* A group keeps the pair that it is to settle.
LEMMA GroupChanged ==
  ASSUME NEW nq \in Nat, NEW ac, NEW gs, NEW st, Around(nq, ac, gs, st),
         NEW g \in 1 .. Len(gs), NEW t \in GroupT, t.cap = gs[g].cap
  PROVE  Around(nq, ac, [gs EXCEPT ![g] = t], st) /\ Len([gs EXCEPT ![g] = t]) = Len(gs)
<1> DEFINE gs2 == [gs EXCEPT ![g] = t]
<1>1. ac \in Seq(AsyncT) /\ gs \in Seq(GroupT)
  BY DEF Around
<1>2. gs2 \in Seq(GroupT) /\ Len(gs2) = Len(gs) /\ Len(ac) \in Nat /\ Len(gs) \in Nat
      /\ \A x \in 1 .. Len(gs) : gs2[x].cap = gs[x].cap
  BY <1>1
<1> HIDE DEF gs2
<1>3. /\ \A x \in 1 .. Len(gs2) : gs2[x].cap \in 1 .. nq
      /\ \A a \in 1 .. Len(ac) : ac[a].cap \in 1 .. nq
  BY <1>2 DEF Around
<1>4. Len(gs) <= Len(gs2) /\ Len(ac) <= Len(ac)
  BY <1>2
<1>5. Around(nq, ac, gs2, st)
  BY <1>1, <1>2, <1>3, <1>4, ChangedAround, ZenonT(30)
<1> QED BY <1>2, <1>5 DEF gs2

\* The innermost code, and what is around the engine once it has ended.
LEMMA TopOK ==
  ASSUME IInv, Running
  PROVE  /\ Around(Len(pairs), asyncs, groups, Popped)
         /\ Top.run \in {"handler", "then"} => Top.of \in 1 .. Len(pairs)
         /\ Top.run = "async" => Top.of \in 1 .. Len(asyncs)
         /\ Top.run = "group" => Top.of \in 1 .. Len(groups)
<1>1. Around(Len(pairs), asyncs, groups, stack) /\ stack # <<>>
  BY Start DEF Running
<1>2. /\ Around(Len(pairs), asyncs, groups, SubSeq(stack, 1, Len(stack) - 1))
      /\ FrameOK(Len(pairs), Len(asyncs), Len(groups), stack[Len(stack)])
  BY <1>1, PoppedAround
<1> QED BY <1>2 DEF Popped, Top, FrameOK

\* An async function awaits a value.
LEMMA AwaitStep ==
  ASSUME IInv, NEW value \in Values, Await(value)
  PROVE  IInv'
<1> DEFINE a == Top.of
           h == Fn("resume", a)
           F == Resolved(Engine, value)
           p == ResolvedTo(Engine, value)
           G == PerformThen(F, p, h, h, 0)
           s == asyncs[a]
           t == [s EXCEPT !.state = "awaiting", !.awaits = @ + 1]
<1>1. /\ Running /\ Top.run = "async" /\ Becomes(G) /\ UNCHANGED groups
      /\ asyncs' = [asyncs EXCEPT ![a].state = "awaiting", ![a].awaits = @ + 1]
      /\ stack' = Popped
  BY DEF Await
<1>2. a \in 1 .. Len(asyncs) /\ Around(Len(pairs), asyncs, groups, Popped)
  BY <1>1, TopOK
<1>3. /\ Len(asyncs) \in Nat /\ Len(groups) \in Nat /\ Len(pairs) \in Nat
      /\ Good(Engine, Len(asyncs), Len(groups))
  BY Start
<1>4. value \in ValueT /\ ValueOK(Len(Engine.promises), value)
  BY ValuesOK
<1>5. /\ Good(F, Len(asyncs), Len(groups)) /\ p \in PromisesOf(F)
      /\ Len(F.pairs) \in Nat /\ Len(F.pairs) >= Len(Engine.pairs)
  BY <1>3, <1>4, ResolvedGood
<1> HIDE DEF a, F, p
<1>6. /\ h \in Handler /\ 0 \in Nat
      /\ HandlerOK(Len(F.pairs), Len(asyncs), Len(groups), h, 0)
  BY <1>2, <1>3 DEF Fn, Handler, HandlerOK
<1> HIDE DEF h
<1>7. /\ Good(G, Len(asyncs), Len(groups))
      /\ Len(G.pairs) = Len(F.pairs)
  BY <1>3, <1>5, <1>6, PerformGood DEF Is
<1> HIDE DEF G
<1>8. asyncs \in Seq(AsyncT)
  BY <1>2 DEF Around
<1>9. s \in AsyncT
  BY <1>2, <1>8
<1>10. asyncs' = [asyncs EXCEPT ![a] = t]
  BY <1>1, <1>2, <1>8, ZenonT(30) DEF AsyncT
<1>11. t \in AsyncT /\ t.cap = s.cap
  <2> HIDE DEF s
  <2>1. s.awaits + 1 \in Nat
    BY <1>9 DEF AsyncT
  <2>2. t \in AsyncT
    BY <1>9, <2>1, ZenonT(30) DEF AsyncT
  <2>3. t.cap = s.cap
    BY <1>9 DEF AsyncT
  <2> QED BY <2>2, <2>3
<1> HIDE DEF t
<1>12. Around(Len(pairs), asyncs', groups, Popped) /\ Len(asyncs') = Len(asyncs)
  <2>1. t \in AsyncT /\ t.cap = asyncs[a].cap
    BY <1>11
  <2> HIDE DEF s
  <2>2. /\ Around(Len(pairs), [asyncs EXCEPT ![a] = t], groups, Popped)
        /\ Len([asyncs EXCEPT ![a] = t]) = Len(asyncs)
    BY <1>2, <1>3, <2>1, AsyncChanged
  <2> QED BY <1>10, <2>2
<1>13. Len(pairs) <= Len(G.pairs)
  BY <1>3, <1>5, <1>7, EngineFields
<1> QED BY <1>1, <1>7, <1>12, <1>13, StepOn, ZenonT(30)

\* A group whose counter changes is still good.
LEMMA GroupOK ==
  ASSUME IInv, NEW g \in 1 .. Len(groups), NEW m \in Int, NEW st,
         Around(Len(pairs), asyncs, groups, st)
  PROVE  /\ groups[g] \in GroupT /\ groups[g].cap \in 1 .. Len(pairs)
         /\ Around(Len(pairs), asyncs, [groups EXCEPT ![g].remaining = m], st)
         /\ Len([groups EXCEPT ![g].remaining = m]) = Len(groups)
<1> DEFINE s == groups[g]
           t == [s EXCEPT !.remaining = m]
<1>1. groups \in Seq(GroupT) /\ groups[g].cap \in 1 .. Len(pairs)
  BY DEF Around
<1>2. s \in GroupT
  BY <1>1
<1>3. [groups EXCEPT ![g].remaining = m] = [groups EXCEPT ![g] = t]
  OBVIOUS
<1>4. t \in GroupT /\ t.cap = s.cap
  <2> HIDE DEF s
  <2> QED BY <1>2 DEF GroupT
<1> HIDE DEF t
<1>5. /\ Around(Len(pairs), asyncs, [groups EXCEPT ![g] = t], st)
      /\ Len([groups EXCEPT ![g] = t]) = Len(groups)
  BY <1>4, Start, GroupChanged
<1> QED BY <1>1, <1>2, <1>3, <1>5

\* The loop of a group takes one item.
LEMMA GroupItemStep ==
  ASSUME IInv, NEW value \in Values, GroupItem(value)
  PROVE  IInv'
<1> DEFINE g == Top.of
           resolve == Fn("resolve", groups[g].cap)
           reject == Fn("reject", groups[g].cap)
           element == Fn("element", g)
           f == IF groups[g].kind \in {"all", "allSettled"} THEN element ELSE resolve
           r == IF groups[g].kind \in {"allSettled", "any"} THEN element ELSE reject
           F == Resolved(Engine, value)
           p == ResolvedTo(Engine, value)
           G == Then(F, p, f, r)
           m == groups[g].remaining + 1
<1>1. /\ Running /\ Top.run = "group" /\ Becomes(G) /\ UNCHANGED <<asyncs, stack>>
      /\ groups' = [groups EXCEPT ![g].remaining = m]
  BY DEF GroupItem
<1>2. g \in 1 .. Len(groups)
  BY <1>1, TopOK
<1>3. /\ Len(asyncs) \in Nat /\ Len(groups) \in Nat /\ Len(pairs) \in Nat
      /\ Good(Engine, Len(asyncs), Len(groups))
      /\ Around(Len(pairs), asyncs, groups, stack)
  BY Start
<1>4. value \in ValueT /\ ValueOK(Len(Engine.promises), value)
  BY ValuesOK
<1>5. /\ Good(F, Len(asyncs), Len(groups)) /\ p \in PromisesOf(F)
      /\ Len(F.pairs) \in Nat /\ Len(F.pairs) >= Len(Engine.pairs)
  BY <1>3, <1>4, ResolvedGood
<1>6. Len(F.pairs) >= Len(pairs)
  BY <1>5, EngineFields
<1> HIDE DEF g, F, p
<1>7. groups[g] \in GroupT /\ groups[g].cap \in 1 .. Len(pairs)
  BY <1>2, <1>3 DEF Around
<1>8. m \in Int
  BY <1>7 DEF GroupT
<1> HIDE DEF m
<1>9. /\ FunctionOK(Len(F.pairs), Len(asyncs), Len(groups), f)
      /\ FunctionOK(Len(F.pairs), Len(asyncs), Len(groups), r)
  <2>1. /\ FunctionOK(Len(F.pairs), Len(asyncs), Len(groups), resolve)
        /\ FunctionOK(Len(F.pairs), Len(asyncs), Len(groups), reject)
    BY <1>3, <1>5, <1>6, <1>7 DEF FunctionOK, Fn, Handler
  <2>2. FunctionOK(Len(F.pairs), Len(asyncs), Len(groups), element)
    BY <1>2, <1>3 DEF FunctionOK, Fn, Handler
  <2> HIDE DEF resolve, reject, element
  <2> QED BY <2>1, <2>2
<1> HIDE DEF f, r
<1>10. /\ Good(G, Len(asyncs), Len(groups))
       /\ Len(G.pairs) = Len(F.pairs) + 1
  BY <1>3, <1>5, <1>9, ThenGood
<1> HIDE DEF G
<1>11. Around(Len(pairs), asyncs, groups', stack) /\ Len(groups') = Len(groups)
  BY <1>1, <1>2, <1>3, <1>8, GroupOK, ZenonT(30)
<1>12. Len(pairs) <= Len(G.pairs)
  BY <1>3, <1>5, <1>6, <1>10
<1> QED BY <1>1, <1>10, <1>11, <1>12, StepOn, ZenonT(30)

\* The last element settles the promise of the group.
LEMMA AfterLessGood ==
  ASSUME IInv, NEW E, Good(E, Len(asyncs), Len(groups)), Len(E.pairs) = Len(pairs),
         NEW g \in 1 .. Len(groups), NEW G, G = AfterLess(E, g)
  PROVE  Good(G, Len(asyncs), Len(groups)) /\ Len(G.pairs) = Len(pairs)
<1>1. groups[g].cap \in PairsOf(E)
  BY Start DEF Around, PairsOf
<1>2. Plain \in ValueT /\ ValueOK(Len(E.promises), Plain)
  BY DEF Plain, ValueT, ValueOK
<1>3. CASE groups[g].remaining = 1 /\ groups[g].kind # "race"
  <2>1. PICK b \in BOOLEAN : b = (groups[g].kind = "any")
    BY ZenonT(30)
  <2>2. G = CallResolving(E, groups[g].cap, b, Plain)
    BY <1>3, <2>1, ZenonT(30) DEF AfterLess
  <2>3. Len(asyncs) \in Nat /\ Len(groups) \in Nat
    BY Start
  <2> QED BY <1>1, <1>2, <2>2, <2>3, CallGood
<1>4. CASE ~(groups[g].remaining = 1 /\ groups[g].kind # "race")
  BY <1>4 DEF AfterLess
<1> QED BY <1>3, <1>4

\* The loop of a group ends.
LEMMA GroupDoneStep ==
  ASSUME IInv, GroupDone
  PROVE  IInv'
<1> DEFINE g == Top.of
           G == AfterLess(Engine, g)
           m == groups[g].remaining - 1
<1>1. /\ Running /\ Top.run = "group" /\ Becomes(G) /\ UNCHANGED asyncs
      /\ groups' = [groups EXCEPT ![g].remaining = m] /\ stack' = Popped
  BY DEF GroupDone, OneLess
<1>2. g \in 1 .. Len(groups) /\ Around(Len(pairs), asyncs, groups, Popped)
  BY <1>1, TopOK
<1> HIDE DEF g
<1>3. /\ Good(Engine, Len(asyncs), Len(groups)) /\ Len(pairs) \in Nat
      /\ Len(Engine.pairs) = Len(pairs)
  BY Start, EngineFields
<1>4. groups[g] \in GroupT
  BY <1>2 DEF Around
<1>5. m \in Int
  BY <1>4 DEF GroupT
<1> HIDE DEF m
<1>6. Around(Len(pairs), asyncs, groups', Popped) /\ Len(groups') = Len(groups)
  BY <1>1, <1>2, <1>5, GroupOK, ZenonT(30)
<1>7. Good(G, Len(asyncs), Len(groups)) /\ Len(G.pairs) = Len(pairs)
  BY <1>2, <1>3, AfterLessGood
<1> HIDE DEF G
<1>8. Len(pairs) <= Len(G.pairs)
  BY <1>3, <1>7
<1> QED BY <1>1, <1>6, <1>7, <1>8, StepOn, ZenonT(30)

\* Running code returns or throws.
LEMMA LeaveStep ==
  ASSUME IInv, NEW reject \in BOOLEAN, NEW value \in Values, Leave(reject, value)
  PROVE  IInv'
<1> DEFINE of == Top.of
<1>1. Running /\ stack' = Popped /\ UNCHANGED groups
  BY DEF Leave
<1>2. /\ Around(Len(pairs), asyncs, groups, Popped)
      /\ Top.run \in {"handler", "then"} => of \in 1 .. Len(pairs)
      /\ Top.run = "async" => of \in 1 .. Len(asyncs)
      /\ Top.run = "group" => of \in 1 .. Len(groups)
  BY <1>1, TopOK
<1>3. value \in ValueT /\ ValueOK(Len(Engine.promises), value)
  BY ValuesOK
<1>4. PICK yes \in BOOLEAN : yes = TRUE
  BY ZenonT(30)
<1>5. \/ Becomes(Engine) /\ UNCHANGED asyncs
      \/ /\ Top.run \in {"handler", "then"} /\ UNCHANGED asyncs
         /\ \/ Becomes(CallResolving(Engine, of, reject, value))
            \/ Becomes(CallResolving(Engine, of, yes, value))
      \/ /\ Top.run = "async"
         /\ Becomes(CallResolving(Engine, asyncs[of].cap, reject, value))
         /\ asyncs' = [asyncs EXCEPT ![of].state = "completed"]
      \/ /\ Top.run = "group" /\ UNCHANGED asyncs
         /\ Becomes(CallResolving(Engine, groups[of].cap, yes, value))
  BY <1>4, ZenonT(30) DEF Leave
<1> HIDE DEF of
<1>6. CASE Becomes(Engine) /\ UNCHANGED asyncs
  <2>1. Good(Engine, Len(asyncs'), Len(groups')) /\ Len(pairs) <= Len(Engine.pairs)
    BY <1>1, <1>6, Start, EngineFields
  <2> QED BY <1>1, <1>2, <1>6, <2>1, StepOn
<1>7. ASSUME Top.run \in {"handler", "then"}, UNCHANGED asyncs, NEW b \in BOOLEAN,
             Becomes(CallResolving(Engine, of, b, value))
      PROVE  IInv'
  BY <1>1, <1>2, <1>3, <1>7, CallStep
<1>8. ASSUME Top.run = "group", UNCHANGED asyncs,
             Becomes(CallResolving(Engine, groups[of].cap, yes, value))
      PROVE  IInv'
  <2>1. groups[of].cap \in 1 .. Len(pairs)
    BY <1>2, <1>8 DEF Around
  <2> QED BY <1>1, <1>2, <1>3, <1>8, <2>1, CallStep
<1>9. ASSUME Top.run = "async",
             Becomes(CallResolving(Engine, asyncs[of].cap, reject, value)),
             asyncs' = [asyncs EXCEPT ![of].state = "completed"]
      PROVE  IInv'
  <2> DEFINE s == asyncs[of]
             t == [s EXCEPT !.state = "completed"]
  <2>1. asyncs \in Seq(AsyncT) /\ of \in 1 .. Len(asyncs) /\ asyncs[of].cap \in 1 .. Len(pairs)
    BY <1>2, <1>9 DEF Around
  <2>2. s \in AsyncT
    BY <2>1
  <2>3. asyncs' = [asyncs EXCEPT ![of] = t]
    BY <1>9, <2>1
  <2>4. t \in AsyncT /\ t.cap = asyncs[of].cap
    <3> SUFFICES t \in AsyncT /\ t.cap = s.cap
      OBVIOUS
    <3> HIDE DEF s
    <3> QED BY <2>2 DEF AsyncT
  <2> HIDE DEF t
  <2>5. Len(pairs) \in Nat
    BY Start
  <2>6. /\ Around(Len(pairs), [asyncs EXCEPT ![of] = t], groups, Popped)
        /\ Len([asyncs EXCEPT ![of] = t]) = Len(asyncs)
    BY <1>2, <2>1, <2>4, <2>5, AsyncChanged
  <2>7. Around(Len(pairs), asyncs', groups', stack') /\ Len(asyncs') = Len(asyncs)
        /\ Len(groups') = Len(groups)
    BY <1>1, <2>3, <2>6
  <2> QED BY <1>3, <1>9, <2>1, <2>7, CallStep, ZenonT(30)
<1> QED BY <1>5, <1>6, <1>7, <1>8, <1>9

\* The host evaluates the script.
LEMMA EvalScriptStep ==
  ASSUME IInv, EvalScript
  PROVE  IInv'
<1> DEFINE fr == [run |-> "script", of |-> 0]
<1>1. Becomes(Engine) /\ stack' = Append(stack, fr) /\ UNCHANGED <<asyncs, groups>>
  BY DEF EvalScript, Pushed
<1>2. fr \in Frame /\ FrameOK(Len(pairs), Len(asyncs), Len(groups), fr)
  BY DEF Frame, FrameOK
<1> HIDE DEF fr
<1>3. Around(Len(pairs), asyncs, groups, stack')
  BY <1>1, <1>2, Start, PushedAround
<1>4. Good(Engine, Len(asyncs'), Len(groups')) /\ Len(pairs) <= Len(Engine.pairs)
  BY <1>1, Start, EngineFields
<1> QED BY <1>1, <1>3, <1>4, StepOn

\* The head of the queue, and the engine once it is taken.
LEMMA HeadOK ==
  ASSUME IInv, jobs # <<>>, NEW j, j = Head(jobs)
  PROVE  /\ j \in JobT /\ j = Engine.jobs[1] /\ Engine.jobs # <<>>
         /\ JobOK(Len(promises), Len(pairs), Len(asyncs), Len(groups), j)
         /\ \E fd \in [PromiseId -> Nat] : TakenReaction = Dequeued(Engine, fd)
         /\ \E fd \in [PromiseId -> Nat] : Taken = Dequeued(Engine, fd)
<1>1. Engine \in EngineT /\ Linked(Engine, Len(asyncs), Len(groups))
  BY Start DEF Good
<1>2. jobs \in Seq(JobT) /\ fired \in [PromiseId -> Nat]
  BY <1>1, EngineFields DEF EngineT
<1>3. j \in JobT /\ j = jobs[1] /\ 1 \in 1 .. Len(jobs)
  BY <1>2
<1>4. JobOK(Len(promises), Len(pairs), Len(asyncs), Len(groups), jobs[1])
  BY <1>1, <1>3, EngineFields DEF Linked, JobsLinked, JobsOf
<1>5. Taken = Dequeued(Engine, fired)
  <2> DEFINE R == [promises |-> promises, pairs |-> pairs, jobs |-> Tail(jobs), fired |-> fired]
  <2>1. Taken = R
    BY DEF Taken, Engine
  <2> DEFINE D == Dequeued(Engine, fired)
  <2>2. /\ D \in EngineT
        /\ D.promises = Engine.promises /\ D.pairs = Engine.pairs
        /\ D.jobs = Tail(Engine.jobs) /\ D.fired = fired
    <3>1. Engine \in EngineT /\ Engine.jobs # <<>> /\ fired \in [PromiseId -> Nat]
      BY <1>1, <1>2, EngineFields
    <3> QED BY <3>1, DequeuedEffect
  <2> HIDE DEF D
  <2>3. D = R
    BY <2>2, EngineFields DEF EngineT
  <2> QED BY <2>1, <2>3 DEF D
<1>6. TakenReaction = Dequeued(Engine, [fired EXCEPT ![Head(jobs).of] = @ + 1])
  BY DEF TakenReaction, Taken, Dequeued, Engine
<1>7. [fired EXCEPT ![Head(jobs).of] = @ + 1] \in [PromiseId -> Nat]
  <2> DEFINE x == Head(jobs).of
  <2> HIDE DEF x
  <2>1. ASSUME NEW y \in PromiseId PROVE [fired EXCEPT ![x] = @ + 1][y] \in Nat
    <3>1. fired[y] \in Nat /\ fired[y] + 1 \in Nat
      BY <1>2
    <3>2. CASE x = y
      BY <1>2, <3>1, <3>2
    <3>3. CASE x # y
      BY <1>2, <3>1, <3>3
    <3> QED BY <3>2, <3>3
  <2>2. [fired EXCEPT ![x] = @ + 1] \in [PromiseId -> Nat]
    BY <1>2, <2>1, ZenonT(30)
  <2> QED BY <2>2 DEF x
<1> QED BY <1>2, <1>3, <1>4, <1>5, <1>6, <1>7, EngineFields, ZenonT(30)

\* JS_ExecutePendingJob runs a job whose handler is native code.
LEMMA RunNativeStep ==
  ASSUME IInv, RunNative
  PROVE  IInv'
<1> DEFINE j == Head(jobs)
           E == TakenReaction
<1>1. jobs # <<>> /\ j.job = "reaction" /\ UNCHANGED <<asyncs, stack>>
  BY DEF RunNative
<1>2. PICK no \in BOOLEAN : no = FALSE
  BY ZenonT(30)
<1>3. \/ /\ j.handler.fn = "none" /\ UNCHANGED groups
         /\ Becomes(CallResolving(E, j.cap, j.reject, j.arg))
      \/ /\ j.handler.fn \in {"resolve", "reject"} /\ UNCHANGED groups
         /\ Becomes(CallResolving(
              CallResolving(E, j.handler.of, j.handler.fn = "reject", j.arg),
              j.cap, no, Plain))
      \/ /\ j.handler.fn = "element"
         /\ groups' = [groups EXCEPT ![j.handler.of].remaining = @ - 1]
         /\ Becomes(CallResolving(AfterLess(E, j.handler.of), j.cap, no, Plain))
  BY <1>2, ZenonT(30) DEF RunNative, OneLess
<1>4. /\ j \in JobT /\ j = Engine.jobs[1] /\ Engine.jobs # <<>>
      /\ JobOK(Len(promises), Len(pairs), Len(asyncs), Len(groups), j)
      /\ \E fd \in [PromiseId -> Nat] : E = Dequeued(Engine, fd)
  BY <1>1, HeadOK
<1> HIDE DEF j, E
<1>5. PICK fd \in [PromiseId -> Nat] : E = Dequeued(Engine, fd)
  BY <1>4
<1>6. /\ Len(asyncs) \in Nat /\ Len(groups) \in Nat /\ Len(pairs) \in Nat
      /\ Good(Engine, Len(asyncs), Len(groups))
      /\ Around(Len(pairs), asyncs, groups, stack)
  BY Start
<1>7. /\ Good(E, Len(asyncs), Len(groups))
      /\ Len(E.promises) = Len(Engine.promises)
      /\ Len(E.pairs) = Len(Engine.pairs)
  BY <1>1, <1>4, <1>5, <1>6, DequeuedGood DEF Is
<1>8. Len(E.promises) = Len(promises) /\ Len(E.pairs) = Len(pairs)
  BY <1>7, EngineFields
<1>9. j.reject \in BOOLEAN /\ j.arg \in ValueT /\ j.handler \in Handler
  BY <1>4 DEF JobT
<1>10. /\ ValueOK(Len(E.promises), j.arg)
       /\ HandlerOK(Len(pairs), Len(asyncs), Len(groups), j.handler, j.cap)
  BY <1>1, <1>4, <1>8 DEF JobOK
<1>11. \A F : Plain \in ValueT /\ ValueOK(Len(F.promises), Plain)
  BY DEF Plain, ValueT, ValueOK
<1>12. CASE /\ j.handler.fn = "none" /\ UNCHANGED groups
            /\ Becomes(CallResolving(E, j.cap, j.reject, j.arg))
  <2> DEFINE G == CallResolving(E, j.cap, j.reject, j.arg)
  <2>1. j.cap \in PairsOf(E)
    BY <1>8, <1>10, <1>12 DEF HandlerOK, PairsOf
  <2>2. Good(G, Len(asyncs), Len(groups)) /\ Len(G.pairs) = Len(E.pairs)
    BY <1>6, <1>7, <1>9, <1>10, <2>1, CallGood
  <2> HIDE DEF G
  <2>3. Len(pairs) <= Len(G.pairs)
    BY <1>6, <1>8, <2>2
  <2> QED BY <1>1, <1>6, <1>12, <2>2, <2>3, StepOn DEF G
<1>13. CASE /\ j.handler.fn \in {"resolve", "reject"} /\ UNCHANGED groups
            /\ Becomes(CallResolving(
                 CallResolving(E, j.handler.of, j.handler.fn = "reject", j.arg),
                 j.cap, no, Plain))
  <2>1. PICK b \in BOOLEAN : b = (j.handler.fn = "reject")
    BY ZenonT(30)
  <2> DEFINE F == CallResolving(E, j.handler.of, b, j.arg)
             G == CallResolving(F, j.cap, no, Plain)
  <2>2. Becomes(G)
    BY <1>13, <2>1, ZenonT(30)
  <2>3. j.handler.of \in PairsOf(E) /\ j.cap \in PairsOf(E)
    BY <1>8, <1>10, <1>13 DEF HandlerOK, PairsOf
  <2>4. Good(F, Len(asyncs), Len(groups)) /\ Len(F.pairs) = Len(E.pairs)
    BY <1>6, <1>7, <1>9, <1>10, <2>3, CallGood
  <2> HIDE DEF F
  <2>5. j.cap \in PairsOf(F)
    BY <2>3, <2>4 DEF PairsOf
  <2>6. Good(G, Len(asyncs), Len(groups)) /\ Len(G.pairs) = Len(F.pairs)
    BY <1>6, <1>11, <2>4, <2>5, CallGood
  <2> HIDE DEF G
  <2>7. Len(pairs) <= Len(G.pairs)
    BY <1>6, <1>8, <2>4, <2>6
  <2> QED BY <1>1, <1>6, <1>13, <2>2, <2>6, <2>7, StepOn
<1>14. CASE /\ j.handler.fn = "element"
            /\ groups' = [groups EXCEPT ![j.handler.of].remaining = @ - 1]
            /\ Becomes(CallResolving(AfterLess(E, j.handler.of), j.cap, no, Plain))
  <2> DEFINE g == j.handler.of
             m == groups[g].remaining - 1
             F == AfterLess(E, g)
             G == CallResolving(F, j.cap, no, Plain)
  <2>1. Becomes(G) /\ groups' = [groups EXCEPT ![g].remaining = m]
    BY <1>14
  <2>2. g \in 1 .. Len(groups) /\ j.cap \in 1 .. Len(pairs)
    BY <1>10, <1>14 DEF HandlerOK
  <2> HIDE DEF g
  <2>3. groups[g] \in GroupT
    BY <1>6, <2>2 DEF Around
  <2>4. m \in Int
    BY <2>3 DEF GroupT
  <2> HIDE DEF m
  <2>5. Around(Len(pairs), asyncs, groups', stack) /\ Len(groups') = Len(groups)
    BY <1>6, <2>1, <2>2, <2>4, GroupOK, ZenonT(30)
  <2>6. Good(F, Len(asyncs), Len(groups)) /\ Len(F.pairs) = Len(pairs)
    BY <1>7, <1>8, <2>2, AfterLessGood
  <2> HIDE DEF F
  <2>7. j.cap \in PairsOf(F)
    BY <2>2, <2>6 DEF PairsOf
  <2>8. Good(G, Len(asyncs), Len(groups)) /\ Len(G.pairs) = Len(F.pairs)
    BY <1>6, <1>11, <2>6, <2>7, CallGood
  <2> HIDE DEF G
  <2>9. Len(pairs) <= Len(G.pairs)
    BY <1>6, <2>6, <2>8
  <2> QED BY <1>1, <2>1, <2>5, <2>8, <2>9, StepOn, ZenonT(30)
<1> QED BY <1>3, <1>12, <1>13, <1>14

\* JS_ExecutePendingJob runs a job whose handler is a function of the script.
LEMMA RunUserStep ==
  ASSUME IInv, RunUser
  PROVE  IInv'
<1> DEFINE j == Head(jobs)
           E == TakenReaction
           h == [run |-> "handler", of |-> j.cap]
           b == [run |-> "async", of |-> j.handler.of]
           s == asyncs[j.handler.of]
           t == [s EXCEPT !.state = "running"]
<1>1. /\ jobs # <<>> /\ j.job = "reaction" /\ UNCHANGED groups /\ Becomes(E)
      /\ \/ j.handler.fn = "user" /\ stack' = Append(stack, h) /\ UNCHANGED asyncs
         \/ /\ j.handler.fn = "resume" /\ stack' = Append(stack, b)
            /\ asyncs' = [asyncs EXCEPT ![j.handler.of].state = "running"]
  BY DEF RunUser, Pushed
<1>2. /\ j \in JobT /\ j = Engine.jobs[1] /\ Engine.jobs # <<>>
      /\ JobOK(Len(promises), Len(pairs), Len(asyncs), Len(groups), j)
      /\ \E fd \in [PromiseId -> Nat] : E = Dequeued(Engine, fd)
  BY <1>1, HeadOK
<1> HIDE DEF j, E
<1>3. PICK fd \in [PromiseId -> Nat] : E = Dequeued(Engine, fd)
  BY <1>2
<1>4. /\ Len(asyncs) \in Nat /\ Len(groups) \in Nat /\ Len(pairs) \in Nat
      /\ Good(Engine, Len(asyncs), Len(groups))
      /\ Around(Len(pairs), asyncs, groups, stack)
  BY Start
<1>5. /\ Good(E, Len(asyncs), Len(groups))
      /\ Len(E.pairs) = Len(Engine.pairs)
  <2>1. Engine.jobs[1].job = "reaction" /\ Engine.jobs # <<>>
    BY <1>1, <1>2
  <2> QED BY <1>3, <1>4, <2>1, DequeuedGood DEF Is
<1>6. Len(pairs) <= Len(E.pairs)
  BY <1>4, <1>5, EngineFields
<1>7. HandlerOK(Len(pairs), Len(asyncs), Len(groups), j.handler, j.cap)
  BY <1>1, <1>2 DEF JobOK
<1>8. ASSUME j.handler.fn = "user", stack' = Append(stack, h), UNCHANGED asyncs
      PROVE  IInv'
  <2>1. j.cap \in 1 .. Len(pairs)
    BY <1>7, <1>8 DEF HandlerOK
  <2>2. h \in Frame /\ FrameOK(Len(pairs), Len(asyncs), Len(groups), h)
    BY <1>4, <2>1 DEF Frame, FrameOK
  <2> HIDE DEF h
  <2>3. Around(Len(pairs), asyncs, groups, stack')
    BY <1>4, <1>8, <2>2, PushedAround
  <2> QED BY <1>1, <1>5, <1>6, <1>8, <2>3, StepOn
<1>9. ASSUME j.handler.fn = "resume", stack' = Append(stack, b),
             asyncs' = [asyncs EXCEPT ![j.handler.of].state = "running"]
      PROVE  IInv'
  <2> DEFINE a == j.handler.of
  <2>1. asyncs \in Seq(AsyncT) /\ a \in 1 .. Len(asyncs)
    BY <1>4, <1>7, <1>9 DEF Around, HandlerOK
  <2>2. s \in AsyncT
    BY <2>1
  <2>3. asyncs' = [asyncs EXCEPT ![a] = t]
    BY <1>9, <2>1
  <2>4. t \in AsyncT /\ t.cap = asyncs[a].cap
    <3> SUFFICES t \in AsyncT /\ t.cap = s.cap
      OBVIOUS
    <3> HIDE DEF s
    <3> QED BY <2>2 DEF AsyncT
  <2>5. b \in Frame /\ FrameOK(Len(pairs), Len(asyncs), Len(groups), b)
    BY <1>4, <2>1 DEF Frame, FrameOK
  <2> HIDE DEF t, a, b
  <2>6. Around(Len(pairs), asyncs, groups, stack')
    BY <1>4, <1>9, <2>5, PushedAround
  <2>7. /\ Around(Len(pairs), [asyncs EXCEPT ![a] = t], groups, stack')
        /\ Len([asyncs EXCEPT ![a] = t]) = Len(asyncs)
    BY <1>4, <2>1, <2>4, <2>6, AsyncChanged
  <2>8. /\ Around(Len(pairs), asyncs', groups', stack')
        /\ Len(asyncs') = Len(asyncs) /\ Len(groups') = Len(groups)
    BY <1>1, <2>3, <2>7
  <2>9. Good(E, Len(asyncs'), Len(groups'))
    BY <1>5, <2>8
  <2> QED BY <1>1, <1>6, <2>8, <2>9, StepOn
<1> QED BY <1>1, <1>8, <1>9

\* JS_ExecutePendingJob runs js_promise_resolve_thenable_job.
LEMMA RunThenableStep ==
  ASSUME IInv, RunThenable
  PROVE  IInv'
<1> DEFINE j == Head(jobs)
           n == Len(pairs)
           q == n + 1
           fr == [run |-> "then", of |-> q]
           f == Fn("resolve", q)
           r == Fn("reject", q)
<1>1. /\ jobs # <<>> /\ j.job = "thenable" /\ UNCHANGED <<asyncs, groups>>
      /\ \/ /\ j.arg.kind = "promise" /\ UNCHANGED stack
            /\ Becomes(Then(CreateResolving(Taken, j.of, "engine"), j.arg.of, f, r))
         \/ /\ j.arg.kind = "thenable" /\ stack' = Append(stack, fr)
            /\ Becomes(CreateResolving(Taken, j.of, "script"))
  BY Zenon DEF RunThenable, Pushed
<1>2. /\ j \in JobT /\ j = Engine.jobs[1] /\ Engine.jobs # <<>>
      /\ JobOK(Len(promises), n, Len(asyncs), Len(groups), j)
      /\ \E fd \in [PromiseId -> Nat] : Taken = Dequeued(Engine, fd)
  BY <1>1, HeadOK
<1> HIDE DEF j
<1>3. PICK fd \in [PromiseId -> Nat] : Taken = Dequeued(Engine, fd)
  BY <1>2
<1>4. /\ Len(asyncs) \in Nat /\ Len(groups) \in Nat /\ n \in Nat
      /\ Good(Engine, Len(asyncs), Len(groups))
      /\ Around(n, asyncs, groups, stack)
      /\ "engine" \in Holder /\ "script" \in Holder
  BY Start
<1>5. ASSUME NEW holder \in Holder, NEW F, F = CreateResolving(Taken, j.of, holder)
      PROVE  /\ Good(F, Len(asyncs), Len(groups))
             /\ Len(F.promises) = Len(promises) /\ Len(F.pairs) = q
  <2>1. F = CreateResolving(Dequeued(Engine, fd), Engine.jobs[1].of, holder)
    BY <1>2, <1>3, <1>5, Zenon
  <2>2. /\ Good(F, Len(asyncs), Len(groups))
        /\ Len(F.promises) = Len(Engine.promises)
        /\ Len(F.pairs) = Len(Engine.pairs) + 1
    BY <1>1, <1>2, <1>4, <2>1, AdoptGood DEF Is
  <2> QED BY <2>2, EngineFields
<1>6. CASE /\ j.arg.kind = "promise" /\ UNCHANGED stack
           /\ Becomes(Then(CreateResolving(Taken, j.of, "engine"), j.arg.of, f, r))
  <2> DEFINE F == CreateResolving(Taken, j.of, "engine")
             G == Then(F, j.arg.of, f, r)
  <2>1. /\ Good(F, Len(asyncs), Len(groups))
        /\ Len(F.promises) = Len(promises) /\ Len(F.pairs) = q
    BY <1>4, <1>5
  <2>2. Becomes(G)
    BY <1>6
  <2> HIDE DEF F
  <2>3. j.arg.of \in PromisesOf(F)
    BY <1>2, <1>6, <2>1 DEF JobOK, ValueOK, PromisesOf
  <2>4. /\ FunctionOK(Len(F.pairs), Len(asyncs), Len(groups), f)
        /\ FunctionOK(Len(F.pairs), Len(asyncs), Len(groups), r)
    BY <1>4, <2>1 DEF FunctionOK, Fn, Handler
  <2> HIDE DEF f, r
  <2>5. Good(G, Len(asyncs), Len(groups)) /\ Len(G.pairs) = Len(F.pairs) + 1
    BY <1>4, <2>1, <2>3, <2>4, ThenGood
  <2> HIDE DEF G
  <2>6. n <= Len(G.pairs)
    BY <1>4, <2>1, <2>5
  <2> QED BY <1>1, <1>4, <1>6, <2>2, <2>5, <2>6, StepOn
<1>7. CASE /\ j.arg.kind = "thenable" /\ stack' = Append(stack, fr)
           /\ Becomes(CreateResolving(Taken, j.of, "script"))
  <2> DEFINE F == CreateResolving(Taken, j.of, "script")
  <2>1. /\ Good(F, Len(asyncs), Len(groups)) /\ Len(F.pairs) = q
    BY <1>4, <1>5
  <2>2. Becomes(F)
    BY <1>7
  <2> HIDE DEF F
  <2>3. q \in Nat /\ n <= q /\ q \in 1 .. q
    BY <1>4
  <2>4. Around(q, asyncs, groups, stack)
    BY <1>4, <2>3, MoreAround
  <2>5. fr \in Frame /\ FrameOK(q, Len(asyncs), Len(groups), fr)
    BY <2>3 DEF Frame, FrameOK
  <2> HIDE DEF fr
  <2>6. Around(q, asyncs, groups, stack')
    BY <1>7, <2>4, <2>5, PushedAround
  <2>7. Around(Len(F.pairs), asyncs', groups', stack') /\ Good(F, Len(asyncs'), Len(groups'))
    BY <1>1, <2>1, <2>6
  <2> QED BY <2>2, <2>7, StepGood
<1> QED BY <1>1, <1>6, <1>7

-----------------------------------------------------------------------------
(* The theorem *)

\* The engine starts without promises.
LEMMA InitIInv ==
  ASSUME Init
  PROVE  IInv
<1>1. /\ promises = <<>> /\ pairs = <<>> /\ jobs = <<>> /\ fired = [p \in PromiseId |-> 0]
      /\ asyncs = <<>> /\ groups = <<>> /\ stack = <<>>
  BY DEF Init
<1>2. Engine \in EngineT
  BY <1>1 DEF Engine, EngineT
<1>3. PromisesOf(Engine) = {} /\ PairsOf(Engine) = {} /\ JobsOf(Engine) = {}
  BY <1>1, EngineFields DEF PromisesOf, PairsOf, JobsOf
<1>4. Linked(Engine, Len(asyncs), Len(groups))
  BY <1>3, ZenonT(30) DEF Linked, PairsLinked, PromisesLinked, JobsLinked
<1>6. Single(Engine)
  BY <1>3, ZenonT(30)
  DEF Single, LivePending, QueuedPending, PairsApart, JobsApart, BothApart, Provided
<1>5. Around(Len(pairs), asyncs, groups, stack)
  BY <1>1 DEF Around
<1> QED BY <1>2, <1>4, <1>5, <1>6, ZenonT(30) DEF IInv, Good

\* Every action keeps the invariant.
LEMMA NextIInv ==
  ASSUME IInv, [Next]_vars
  PROVE  IInv'
<1>1. CASE New
  BY <1>1, Start, NewStep DEF New
<1>2. CASE HostCall
  BY <1>2, Start, NewStep DEF HostCall
<1>3. ASSUME NEW q \in 1 .. Len(pairs), NEW reject \in BOOLEAN, NEW value \in Values,
             Settle(q, reject, value)
      PROVE  IInv'
  BY <1>3, Start, ValuesOK, CallStep DEF Settle
<1>4. ASSUME NEW p \in 1 .. Len(promises), NEW f \in {NoFn, UserFn}, NEW r \in {NoFn, UserFn},
             CallThen(p, f, r)
      PROVE  IInv'
  BY <1>4, CallThenStep
<1>5. CASE CallAsync
  BY <1>5, CallAsyncStep
<1>6. ASSUME NEW value \in Values, Await(value) PROVE IInv'
  BY <1>6, AwaitStep
<1>7. ASSUME NEW kind \in {"all", "allSettled", "any", "race"}, GroupStart(kind) PROVE IInv'
  BY <1>7, GroupStartStep
<1>8. ASSUME NEW value \in Values, GroupItem(value) PROVE IInv'
  BY <1>8, GroupItemStep
<1>9. CASE GroupDone
  BY <1>9, GroupDoneStep
<1>10. ASSUME NEW reject \in BOOLEAN, NEW value \in Values, Leave(reject, value) PROVE IInv'
  BY <1>10, LeaveStep
<1>11. CASE EvalScript
  BY <1>11, EvalScriptStep
<1>12. ASSUME NEW q \in 1 .. Len(pairs), NEW reject \in BOOLEAN, HostSettle(q, reject)
       PROVE  IInv'
  BY <1>12, Start, CallStep DEF HostSettle
<1>13. CASE RunJob
  BY <1>13, RunNativeStep, RunUserStep, RunThenableStep DEF RunJob
<1>14. CASE UNCHANGED vars
  <2>1. /\ Engine' = Engine /\ asyncs' = asyncs /\ groups' = groups /\ stack' = stack
        /\ pairs' = pairs
    BY <1>14 DEF vars, Engine
  <2> QED BY <2>1 DEF IInv
<1> QED
  BY <1>1, <1>2, <1>3, <1>4, <1>5, <1>6, <1>7, <1>8, <1>9, <1>10, <1>11, <1>12, <1>13, <1>14
     DEF Next

\* Whatever JavaScript code runs, and in whatever order its callbacks do, a
\* promise that is pending can be settled in exactly one way and a settled one in
\* none: fulfill_or_reject_promise is only ever reached for a pending promise, no
\* result is replaced and no pending promise is left without its settler.
THEOREM PromiseSettledOnce == Spec => []OneSettler
<1>1. Init => IInv
  BY InitIInv
<1>2. IInv /\ [Next]_vars => IInv'
  BY NextIInv
<1>3. IInv => OneSettler
  BY SingleSettles DEF IInv, Good, OneSettler
<1> QED BY <1>1, <1>2, <1>3, PTL DEF Spec

=============================================================================
