--------------------------- MODULE Package_proofs ---------------------------
(***************************************************************************)
(* Proofs about Package for buffers, bundles, manifests and declarations   *)
(* of any number and size.                                                 *)
(***************************************************************************)
EXTENDS Package, NaturalsInduction, WellFoundedInduction, FiniteSetTheorems,
        SequenceTheorems, TLAPS

\* What is in the engine is the beginning of what was parsed.
Copied ==
  /\ Len(modules) <= Len(acc)
  /\ \A i \in 1..Len(modules) : modules[i] = acc[i]

\* Nothing is copied, compiled or resolved before the bundle is accepted.
Phases ==
  /\ pc \in Steps \cup Results => modules = <<>>
  /\ policy = {} \/ \E d \in Declarations : policy = compile(d)

\* While a content is read its path is known and its module still counted.
HasPath == pc = "content" => path \in Paths /\ n > 0

\* The inductive invariant.
IInv ==
  /\ TypeOK
  /\ ReadsInBounds
  /\ OneModulePerPath
  /\ HasPath
  /\ Phases
  /\ Copied
  /\ LoadedWhole

-----------------------------------------------------------------------------
(* What the steps of the parser have in common *)

(***************************************************************************)
(* What is read at an offset of a buffer is a natural number.              *)
(***************************************************************************)
LEMMA FieldNat ==
  ASSUME BundleTypeOK, NEW o, NEW any \in SUBSET Nat
  PROVE  Field(o, any) \subseteq Nat
BY Zenon DEF Field, BundleTypeOK

\* A step of the parser: what may change, and what may not.
ParseStep ==
  /\ buffer' = buffer
  /\ pc' \in Steps \cup Results
  /\ off' \in Nat /\ off' <= len
  /\ hlen' \in Nat /\ mlen' \in Nat /\ n' \in Nat
  /\ path' \in Paths \cup {0}
  /\ doc' \in Docs \cup {<<>>}
  /\ \/ acc' = acc
     \/ \E size \in Nat : /\ InOrder(path)
                          /\ path \in Paths
                          /\ acc' = Append(acc, [path |-> path, size |-> size])

(***************************************************************************)
(* Every step of Bundle.parse reads inside the buffer and adds a module    *)
(* only if its path comes after the last one.                              *)
(***************************************************************************)
LEMMA ParseSteps ==
  BundleTypeOK /\ ReadsInBounds /\ HasPath /\ pc \in Steps \cup Results /\ Parse
    => ParseStep /\ pc \in Steps /\ HasPath'
<1> SUFFICES ASSUME BundleTypeOK, ReadsInBounds, HasPath, pc \in Steps \cup Results, Parse
             PROVE  ParseStep /\ pc \in Steps /\ HasPath'
  OBVIOUS
<1> USE BundleAssumption DEF BundleTypeOK, ReadsInBounds, HasPath, ParseStep,
      Steps, Results, Fits
<1>a. Words \in SUBSET Nat /\ PathWords \in SUBSET Nat /\ Paths \subseteq Nat
  BY DEF Paths
<1>0. ASSUME NEW r \in Results, Return(r), pc \in Steps
      PROVE  ParseStep /\ HasPath'
  BY <1>0 DEF Return, buffer
<1>1. CASE TooShort
  BY <1>0, <1>1 DEF TooShort
<1>2. CASE BadMagic
  BY <1>0, <1>2 DEF BadMagic
<1>3. CASE ReadLengths
  BY <1>3, <1>a, FieldNat, Zenon DEF ReadLengths, buffer
<1>4. CASE ReadHeader
  BY <1>4 DEF ReadHeader, Skip, buffer
<1>5. CASE ReadManifest
  BY <1>5 DEF ReadManifest, Skip, buffer
<1>6. CASE BadHeader
  BY <1>0, <1>6 DEF BadHeader
<1>7. CASE ParseManifest
  <2>1. /\ pc = "json" /\ doc' \in Docs
        /\ pc' \in {"raised", "module", "rejected"}
        /\ UNCHANGED <<buffer, off, hlen, mlen, n, path, acc>>
    BY <1>7 DEF ParseManifest
  <2> QED
    BY <2>1 DEF buffer
<1>8. CASE ReadPath
  <2>1. PICK k \in Field(off, PathWords) :
          /\ k \in 1..MaxPath
          /\ Fits(off + 2 + k)
          /\ path' \in Paths
          /\ off' = off + 2 + k
    BY <1>8 DEF ReadPath
  <2>2. pc = "module" /\ n > 0 /\ pc' = "content" /\ UNCHANGED <<buffer, hlen, mlen, n, acc, doc>>
    BY <1>8 DEF ReadPath, More
  <2>3. off' \in Nat /\ off <= off' /\ off' <= len
    BY <2>1 DEF MaxPath
  <2> QED
    BY <2>1, <2>2, <2>3 DEF buffer
<1>9. CASE BadPath
  BY <1>0, <1>9 DEF BadPath
<1>10. CASE ShortPath
  BY <1>0, <1>10, Zenon DEF ShortPath
<1>11. CASE ReadContent
  <2>1. PICK size \in Field(off, Words) :
          /\ Fits(off + 4 + 32 + size)
          /\ InOrder(path)
          /\ acc' = Append(acc, [path |-> path, size |-> size])
          /\ off' = off + 4 + 32 + size
    BY <1>11 DEF ReadContent
  <2>2. size \in Nat
    BY <1>a, FieldNat, <2>1, Zenon
  <2>3. pc = "content" /\ path \in Paths /\ n > 0 /\ n' = n - 1 /\ pc' = "module"
        /\ UNCHANGED <<buffer, hlen, mlen, path, doc>>
    BY <1>11 DEF ReadContent
  <2> QED
    BY <2>1, <2>2, <2>3 DEF buffer
<1>12. CASE BadContent
  BY <1>0, <1>12 DEF BadContent
<1>13. CASE Accept
  BY <1>13 DEF Accept, AtEnd, buffer
<1>14. CASE BadFooter
  BY <1>0, <1>14 DEF BadFooter
<1> QED
  BY <1>1, <1>2, <1>3, <1>4, <1>5, <1>6, <1>7, <1>8, <1>9, <1>10, <1>11, <1>12,
     <1>13, <1>14, Zenon DEF Parse

-----------------------------------------------------------------------------

(***************************************************************************)
(* Adding a module in order keeps every earlier path below every later     *)
(* one, although only neighbours are compared.                             *)
(***************************************************************************)
LEMMA OrderKept ==
  ASSUME acc \in Seq(Entry), PathBytes \in Seq(Nat), OneModulePerPath,
         NEW size \in Nat, path \in Paths, InOrder(path),
         acc' = Append(acc, [path |-> path, size |-> size])
  PROVE  acc' \in Seq(Entry) /\ OneModulePerPath'
<1> DEFINE m == [path |-> path, size |-> size]
<1>1. m \in Entry /\ m.path = path
  BY DEF Entry
<1> HIDE DEF m
<1>2. acc' = Append(acc, m)
  BY DEF m
<1>3. /\ acc' \in Seq(Entry)
      /\ Len(acc') = Len(acc) + 1
      /\ \A i \in 1..Len(acc) : acc'[i] = acc[i]
      /\ acc'[Len(acc) + 1] = m
  BY <1>1, <1>2
<1>4. \A i \in 1..Len(acc) : acc[i].path \in Nat
  <2>1. Paths \subseteq Nat
    BY DEF Paths
  <2>2. \A i \in 1..Len(acc) : acc[i] \in Entry
    OBVIOUS
  <2> QED
    BY <2>1, <2>2, Zenon DEF Entry
<1>5. ASSUME NEW i \in 1..Len(acc) PROVE acc[i].path < path
  <2>1. Len(acc) \in 1..Len(acc) /\ acc # <<>>
    BY <1>5
  <2>2. acc[Len(acc)].path < path
    BY <2>1 DEF InOrder
  <2>3. i = Len(acc) \/ acc[i].path < acc[Len(acc)].path
    BY <2>1 DEF OneModulePerPath
  <2>4. path \in Nat /\ acc[i].path \in Nat /\ acc[Len(acc)].path \in Nat
    BY <1>4, <2>1 DEF Paths
  <2> QED
    BY <2>2, <2>3, <2>4
<1>6. ASSUME NEW i \in 1..(Len(acc) + 1), NEW j \in 1..(Len(acc) + 1), i < j
      PROVE  acc'[i].path < acc'[j].path
  <2>1. i \in 1..Len(acc) /\ acc'[i] = acc[i]
    BY <1>3, <1>6
  <2>2. CASE j = Len(acc) + 1
    BY <1>1, <1>3, <1>5, <2>1, <2>2
  <2>3. CASE j \in 1..Len(acc)
    BY <1>3, <1>6, <2>1, <2>3 DEF OneModulePerPath
  <2> QED
    BY <2>2, <2>3
<1> QED
  BY <1>3, <1>6 DEF OneModulePerPath

(***************************************************************************)
(* A fresh parse satisfies the invariant.                                  *)
(***************************************************************************)
LEMMA InitIInv == PackageInit => IInv
<1> SUFFICES ASSUME PackageInit PROVE IInv
  OBVIOUS
<1> USE DEF PackageInit, Init
<1>1. input \in Seq(Entry) /\ written \in BOOLEAN /\ len \in Nat
  <2>1. CASE input = <<>> /\ written = FALSE /\ len \in Foreign
    <3>1. Foreign \subseteq Nat
      BY BundleAssumption
    <3>2. <<>> \in Seq(Entry)
      OBVIOUS
    <3> QED
      BY <2>1, <3>1, <3>2, Zenon
  <2>2. CASE \E mods \in Inputs :
               input = mods /\ written = TRUE /\ len = Write(mods).len
    <3>1. PICK mods \in Inputs :
            input = mods /\ written = TRUE /\ len = Write(mods).len
      BY <2>2 DEF PackageInit
    <3>2. mods \in Seq(Entry) /\ Write(mods).len \in Nat
      BY BundleAssumption
    <3> QED
      BY <3>1, <3>2
  <2> QED
    BY <2>1, <2>2, Zenon
<1>2. \A o \in DOMAIN fields : o \in 0..len /\ fields[o] \in Nat
  <2>1. CASE fields = <<>>
    BY <2>1
  <2>2. CASE \E mods \in Inputs : len = Write(mods).len /\ fields = Write(mods).fields
    BY <2>2, BundleAssumption
  <2> QED
    BY <2>1, <2>2
<1>3. BundleTypeOK
  BY <1>1, <1>2 DEF BundleTypeOK
<1>4. modules = <<>> /\ acc = <<>> /\ policy = {} /\ entry = 0 /\ at = 0
      /\ pc = "start" /\ off = 0
  OBVIOUS
<1>5. TypeOK
  BY <1>3, <1>4, PackageAssumption DEF TypeOK, Steps
<1> QED
  BY <1>1, <1>4, <1>5 DEF IInv, ReadsInBounds, OneModulePerPath, HasPath, Phases,
     Copied, LoadedWhole

(***************************************************************************)
(* Every step of the parser, of the loading of the modules and of the      *)
(* resolution of imports keeps the invariant.                              *)
(***************************************************************************)
LEMMA NextIInv == IInv /\ [Next]_vars => IInv'
<1> SUFFICES ASSUME IInv, [Next]_vars PROVE IInv'
  OBVIOUS
<1> USE BundleAssumption, PackageAssumption
<1>0. /\ TypeOK /\ BundleTypeOK /\ ReadsInBounds /\ OneModulePerPath /\ HasPath
      /\ Phases /\ Copied /\ LoadedWhole
  BY DEF IInv, TypeOK
<1>k. ASSUME UNCHANGED <<buffer, off, hlen, mlen, n, path, acc, doc>>
      PROVE  BundleTypeOK' /\ ReadsInBounds' /\ OneModulePerPath'
  BY <1>0, <1>k DEF BundleTypeOK, ReadsInBounds, OneModulePerPath, buffer
<1>1. CASE Parse /\ UNCHANGED pvars
  <2>1. pc \in Steps \cup Results
    BY <1>1 DEF Parse, TooShort, BadMagic, ReadLengths, ReadHeader, ReadManifest,
         Skip, BadHeader, ParseManifest, ReadPath, BadPath, ShortPath, ReadContent,
         BadContent, Accept, BadFooter, Steps
  <2>2. ParseStep /\ HasPath'
    BY <1>0, <1>1, <2>1, ParseSteps
  <2>3. acc' \in Seq(Entry) /\ OneModulePerPath'
    <3>1. CASE acc' = acc
      BY <1>0, <3>1 DEF BundleTypeOK, OneModulePerPath
    <3>2. CASE \E size \in Nat :
                 /\ InOrder(path) /\ path \in Paths
                 /\ acc' = Append(acc, [path |-> path, size |-> size])
      BY <1>0, <3>2, OrderKept, Zenon DEF BundleTypeOK
    <3> QED
      BY <2>2, <3>1, <3>2 DEF ParseStep
  <2>4. BundleTypeOK' /\ ReadsInBounds'
    BY <1>0, <2>2, <2>3 DEF ParseStep, BundleTypeOK, ReadsInBounds, buffer
  <2>5. modules = <<>> /\ modules' = <<>>
    BY <1>0, <1>1, <2>1 DEF Phases, pvars
  <2>6. pc' \in Steps \cup Results
    BY <2>2 DEF ParseStep
  <2>7. TypeOK'
    BY <1>0, <1>1, <2>4, <2>5, <2>6 DEF TypeOK, pvars
  <2>8. Phases' /\ Copied' /\ LoadedWhole'
    BY <1>0, <1>1, <2>3, <2>5, <2>6 DEF Phases, Copied, LoadedWhole, pvars, Steps, Results
  <2> QED
    BY <2>2, <2>3, <2>4, <2>7, <2>8 DEF IInv
<1>2. CASE Compile
  <2>1. /\ pc = "accepted" /\ pc' = "load" /\ entry' \in Paths
        /\ UNCHANGED <<buffer, off, hlen, mlen, n, path, acc, doc, modules, at>>
        /\ \E d \in Declarations : policy' = compile(d)
    BY <1>2 DEF Compile
  <2>2. TypeOK'
    BY <1>0, <1>k, <2>1 DEF TypeOK
  <2>3. HasPath' /\ Phases' /\ Copied' /\ LoadedWhole'
    BY <1>0, <2>1 DEF HasPath, Phases, Copied, LoadedWhole, Steps, Results
  <2> QED
    BY <1>k, <2>1, <2>2, <2>3 DEF IInv
<1>3. CASE SetModule
  <2> DEFINE m == acc[Len(modules) + 1]
  <2>1. /\ pc = "load" /\ Len(modules) < Len(acc) /\ Len(modules) < EngineModules
        /\ modules' = Append(modules, m)
        /\ UNCHANGED <<bvars, policy, entry, at>>
    BY <1>3 DEF SetModule, Loading, Room
  <2>2. acc \in Seq(Entry) /\ modules \in Seq(Entry) /\ m \in Entry
    BY <1>0, <2>1 DEF TypeOK, BundleTypeOK
  <2>3. pc' = pc /\ UNCHANGED <<buffer, off, hlen, mlen, n, path, acc, doc>>
    BY <2>1 DEF bvars
  <2>4. modules' \in Seq(Entry) /\ Len(modules') = Len(modules) + 1
        /\ modules'[Len(modules) + 1] = m
        /\ \A i \in 1..Len(modules) : modules'[i] = modules[i]
    BY <2>1, <2>2
  <2>5. TypeOK'
    BY <1>0, <1>k, <2>1, <2>2, <2>3, <2>4 DEF TypeOK
  <2>6. Copied'
    BY <1>0, <2>1, <2>2, <2>3, <2>4 DEF Copied
  <2>7. HasPath' /\ Phases' /\ LoadedWhole'
    BY <1>0, <2>1, <2>3 DEF HasPath, Phases, LoadedWhole, Steps, Results
  <2> QED
    BY <1>k, <2>3, <2>5, <2>6, <2>7 DEF IInv
<1>4. CASE SetModuleFails
  <2>1. /\ pc = "load" /\ Len(modules) < Len(acc) /\ pc' = "unloadable"
        /\ \/ ~(Len(modules) < EngineModules)
           \/ PathBytes[acc[Len(modules) + 1].path] >= EnginePath
        /\ UNCHANGED <<buffer, off, hlen, mlen, n, path, acc, doc, pvars>>
    BY <1>4 DEF SetModuleFails, Loading, Room
  <2>2. TypeOK'
    BY <1>0, <1>k, <2>1 DEF TypeOK, pvars
  <2>3. LoadedWhole'
    <3>1. acc \in Seq(Entry) /\ modules \in Seq(Entry)
      BY <1>0 DEF TypeOK, BundleTypeOK
    <3> QED
      BY <1>0, <2>1, <3>1 DEF LoadedWhole
  <2>4. HasPath' /\ Phases' /\ Copied'
    BY <1>0, <2>1 DEF HasPath, Phases, Copied, pvars, Steps, Results
  <2> QED
    BY <1>k, <2>1, <2>2, <2>3, <2>4 DEF IInv
<1>5. CASE EvalModule
  <2>1. /\ pc = "load" /\ ~(Len(modules) < Len(acc))
        /\ \/ Loaded(entry) /\ pc' = "loaded" /\ at' = entry
           \/ ~Loaded(entry) /\ pc' = "unloadable" /\ at' = at
        /\ UNCHANGED <<buffer, off, hlen, mlen, n, path, acc, doc, policy, entry, modules>>
    BY <1>5 DEF EvalModule, Loading
  <2>2. TypeOK'
    BY <1>0, <1>k, <2>1 DEF TypeOK
  <2>3. modules = acc
    <3>1. acc \in Seq(Entry) /\ modules \in Seq(Entry)
      BY <1>0 DEF TypeOK, BundleTypeOK
    <3>2. Len(modules) = Len(acc) /\ \A i \in 1..Len(acc) : modules[i] = acc[i]
      BY <1>0, <2>1, <3>1 DEF Copied
    <3> QED
      BY <3>1, <3>2
  <2>4. LoadedWhole'
    BY <2>1, <2>3 DEF LoadedWhole, Loaded
  <2>5. HasPath' /\ Phases' /\ Copied'
    BY <1>0, <2>1 DEF HasPath, Phases, Copied, Steps, Results
  <2> QED
    BY <1>k, <2>1, <2>2, <2>4, <2>5 DEF IInv
<1>6. ASSUME NEW import \in Imports, Resolve(import) PROVE IInv'
  <2>1. /\ pc = "loaded" /\ UNCHANGED <<bvars, policy, entry, modules>>
        /\ \E i \in DOMAIN acc : at' = acc[i].path
    BY <1>6 DEF Resolve
  <2>2. at' \in Paths
    <3>1. \A i \in DOMAIN acc : acc[i] \in Entry
      BY <1>0 DEF TypeOK, BundleTypeOK
    <3> QED
      BY <2>1, <3>1 DEF Entry
  <2>3. pc' = pc /\ UNCHANGED <<buffer, off, hlen, mlen, n, path, acc, doc>>
    BY <2>1 DEF bvars
  <2>4. TypeOK'
    BY <1>0, <1>k, <2>1, <2>2, <2>3 DEF TypeOK
  <2>5. HasPath' /\ Phases' /\ Copied' /\ LoadedWhole'
    BY <1>0, <2>1, <2>3 DEF HasPath, Phases, Copied, LoadedWhole, Loaded, Steps, Results
  <2> QED
    BY <1>k, <2>3, <2>4, <2>5 DEF IInv
<1>7. CASE UNCHANGED vars
  <2>1. pc' = pc /\ UNCHANGED <<buffer, off, hlen, mlen, n, path, acc, doc, policy, entry, modules, at>>
    BY <1>7 DEF vars, bvars, pvars
  <2>2. TypeOK'
    BY <1>0, <1>k, <2>1 DEF TypeOK
  <2>3. HasPath' /\ Phases' /\ Copied' /\ LoadedWhole'
    BY <1>0, <2>1 DEF HasPath, Phases, Copied, LoadedWhole, Loaded
  <2> QED
    BY <1>k, <2>1, <2>2, <2>3 DEF IInv
<1> QED
  BY <1>1, <1>2, <1>3, <1>4, <1>5, <1>6, <1>7 DEF Next

(***************************************************************************)
(* The invariant holds in every reachable state.                           *)
(***************************************************************************)
THEOREM Inductive == Spec => []IInv
  BY InitIInv, NextIInv, PTL DEF Spec

(***************************************************************************)
(* The parser's and the loader's state has its types; the module map of    *)
(* the engine is never written past its end.                               *)
(***************************************************************************)
THEOREM TypeCorrect == Spec => []TypeOK
  BY Inductive, PTL DEF IInv

(***************************************************************************)
(* Bundle.parse reads no byte past the end of its buffer, for buffers of   *)
(* any length and whatever lengths they hold.                              *)
(***************************************************************************)
THEOREM ParserStaysInside == Spec => []ReadsInBounds
  BY Inductive, PTL DEF IInv

(***************************************************************************)
(* Comparing neighbours is enough: the paths of a parsed bundle, of any    *)
(* number of modules, are distinct.                                        *)
(***************************************************************************)
THEOREM PathsDistinct == Spec => []OneModulePerPath
  BY Inductive, PTL DEF IInv

(***************************************************************************)
(* A function that runs is loaded whole, and one that does not load has    *)
(* more or longer modules than the engine takes or no entrypoint.          *)
(***************************************************************************)
THEOREM LoadsWhole == Spec => []LoadedWhole
  BY Inductive, PTL DEF IInv

-----------------------------------------------------------------------------

(***************************************************************************)
(* For operations a manifest can declare, op_equal is equality.            *)
(***************************************************************************)
LEMMA CompiledOperations ==
  ASSUME NEW d, NEW g \in compile(d)
  PROVE  /\ g = Grant(g.binding, g.operation)
         /\ g.operation.kind # "secret"
<1>1. \/ \E k \in d.kv : \E o \in op_access(k) : g = Grant(k.binding, o)
      \/ \E h \in d.http : g = Grant(h.binding, [kind |-> "http", policy |-> h.policy])
      \/ \E c \in d.clock : g = Grant("clock", [kind |-> "clock", clock |-> c])
      \/ \E r \in d.random : g = Grant("crypto", [kind |-> "random", source |-> r])
      \/ g = Grant("log", [kind |-> "log", stream |-> "default"])
      \/ \E i \in d.invoke : g = Grant(i.binding, [kind |-> "invoke", target |-> i.target])
  BY Zenon DEF compile
<1>2. PICK b, o : g = Grant(b, o) /\ o.kind # "secret"
  <2>1. ASSUME NEW k, NEW o \in op_access(k) PROVE o.kind # "secret"
    BY DEF op_access, KvGet, KvPut, KvDelete
  <2>2. CASE \E k \in d.kv : \E o \in op_access(k) : g = Grant(k.binding, o)
    BY <2>1, <2>2
  <2>3. CASE \E h \in d.http : g = Grant(h.binding, [kind |-> "http", policy |-> h.policy])
    BY <2>3
  <2>4. CASE \E c \in d.clock : g = Grant("clock", [kind |-> "clock", clock |-> c])
    BY <2>4
  <2>5. CASE \E r \in d.random : g = Grant("crypto", [kind |-> "random", source |-> r])
    BY <2>5
  <2>6. CASE g = Grant("log", [kind |-> "log", stream |-> "default"])
    BY <2>6
  <2>7. CASE \E i \in d.invoke : g = Grant(i.binding, [kind |-> "invoke", target |-> i.target])
    BY <2>7
  <2> QED
    BY <1>1, <2>2, <2>3, <2>4, <2>5, <2>6, <2>7, Zenon
<1> QED
  BY <1>2 DEF Grant

(***************************************************************************)
(* Intersecting a compiled policy with another is the meet of the two, for *)
(* any declarations.                                                       *)
(***************************************************************************)
THEOREM IntersectionExact == Spec => []IntersectionIsMeet
<1>1. Phases => IntersectionIsMeet
  <2> SUFFICES ASSUME Phases, NEW d \in Declarations
               PROVE  intersection(policy, compile(d)) = policy \cap compile(d)
    BY DEF IntersectionIsMeet
  <2>1. ASSUME NEW g \in policy
        PROVE  /\ g = Grant(g.binding, g.operation)
               /\ g.operation.kind # "secret"
    BY <2>1, CompiledOperations DEF Phases
  <2>2. ASSUME NEW g \in policy
        PROVE  grants(compile(d), g.binding, g.operation) <=> g \in compile(d)
    <3>1. ASSUME NEW h \in compile(d)
          PROVE  (h.binding = g.binding /\ op_equal(h.operation, g.operation)) <=> h = g
      <4>1. h = Grant(h.binding, h.operation) /\ h.operation.kind # "secret"
        BY CompiledOperations
      <4>2. g = Grant(g.binding, g.operation) /\ g.operation.kind # "secret"
        BY <2>1
      <4> QED
        BY <4>1, <4>2 DEF op_equal, Grant
    <3> QED
      BY <3>1 DEF grants
  <2> QED
    BY <2>2 DEF intersection
<1> QED
  BY <1>1, Inductive, PTL DEF IInv

-----------------------------------------------------------------------------
(* The manifest says the same to every reader *)

\* A bundle whose modules are read has a manifest that was parsed.
ManifestRead ==
  pc \in {"module", "content", "accepted"} => doc \in Docs /\ parse(Document(doc))

(***************************************************************************)
(* In an object without duplicates List.assoc_opt finds every member.      *)
(***************************************************************************)
LEMMA FieldFound ==
  ASSUME NEW object \in Seq([name : STRING, value : STRING]),
         check_no_duplicates(object), NEW i \in DOMAIN object
  PROVE  field(object, object[i].name) = object[i].value
<1> DEFINE nm == object[i].name
           First(k) == object[k].name = nm /\ \A j \in 1..(k - 1) : object[j].name # nm
<1>1. i \in 1..Len(object) /\ \A j \in 1..(i - 1) : j \in DOMAIN object /\ j # i
  OBVIOUS
<1>2. First(i)
  BY <1>1 DEF check_no_duplicates
<1>3. \A k \in DOMAIN object : First(k) => k = i
  BY DEF check_no_duplicates
<1>4. (CHOOSE k \in DOMAIN object : First(k)) = i
  <2> HIDE DEF First
  <2> QED BY <1>2, <1>3
<1> QED BY <1>4, Zenon DEF field

(***************************************************************************)
(* A manifest that Manifest.parse takes has no duplicates in any object.   *)
(***************************************************************************)
LEMMA ParsedStrict ==
  ASSUME NEW x \in Docs, parse(Document(x)), NEW object \in Objects(Document(x))
  PROVE  check_no_duplicates(object)
<1> DEFINE d == Document(x)
<1>1. "kv" \notin Names(d.capabilities) => d.kv = {}
  BY DocumentAssumption
<1>2. "http" \notin Names(d.capabilities) => d.http = {}
  BY DocumentAssumption
<1>3. parse(d) /\ object \in Objects(d)
  OBVIOUS
<1> HIDE DEF d
<1>4. CASE object \in d.kv
  BY <1>1, <1>3, <1>4, Zenon DEF parse, parse_kv, Strict
<1>5. CASE object \in d.http
  BY <1>2, <1>3, <1>5, Zenon DEF parse, parse_http
<1>6. CASE object \in {d.manifest, d.input, d.output, d.limits, d.capabilities, d.retry}
  BY <1>3, <1>6, Zenon DEF parse, parse_io, parse_limits, parse_capabilities, parse_retry, Strict
<1> QED BY <1>3, <1>4, <1>5, <1>6 DEF Objects

(***************************************************************************)
(* Only ParseManifest goes on to the modules, and only with a manifest     *)
(* that was parsed.                                                        *)
(***************************************************************************)
LEMMA ManifestStep == IInv /\ ManifestRead /\ [Next]_vars => ManifestRead'
<1> SUFFICES ASSUME IInv, ManifestRead, [Next]_vars PROVE ManifestRead'
  OBVIOUS
<1> USE DEF ManifestRead
<1>1. CASE UNCHANGED vars \/ SetModule \/ \E import \in Imports : Resolve(import)
  BY <1>1 DEF vars, bvars, SetModule, Resolve
<1>2. CASE Compile \/ SetModuleFails \/ EvalModule
  BY <1>2 DEF Compile, SetModuleFails, EvalModule
<1>3. CASE TooShort \/ BadMagic \/ BadHeader \/ BadPath \/ ShortPath \/ BadContent \/ BadFooter
  BY <1>3 DEF TooShort, BadMagic, BadHeader, BadPath, ShortPath, BadContent, BadFooter, Return
<1>4. CASE ReadLengths
  BY <1>4 DEF ReadLengths
<1>5. CASE ReadHeader \/ ReadManifest
  BY <1>5 DEF ReadHeader, ReadManifest, Skip
<1>6. CASE ParseManifest
  BY <1>6 DEF ParseManifest
<1>7. CASE ReadPath \/ ReadContent \/ Accept
  BY <1>7 DEF ReadPath, ReadContent, Accept
<1> QED
  BY <1>1, <1>2, <1>3, <1>4, <1>5, <1>6, <1>7 DEF Next, Parse

(***************************************************************************)
(* No object of an accepted manifest binds a field twice, so that all its  *)
(* readers see the same values: ReadersAgree, for any manifest.            *)
(***************************************************************************)
THEOREM ManifestsUnambiguous == Spec => []ReadersAgree
<1>1. PackageInit => ManifestRead
  BY DEF PackageInit, Init, ManifestRead
<1>2. ManifestRead => ReadersAgree
  <2> SUFFICES ASSUME ManifestRead, pc = "accepted",
                      NEW object \in Objects(Document(doc)), NEW i \in DOMAIN object
               PROVE  field(object, object[i].name) = object[i].value
    BY DEF ReadersAgree
  <2>1. doc \in Docs /\ parse(Document(doc))
    BY DEF ManifestRead
  <2>2. object \in Seq([name : STRING, value : STRING])
    BY <2>1, DocumentAssumption
  <2> QED BY <2>1, <2>2, ParsedStrict, FieldFound
<1> QED BY Inductive, ManifestStep, <1>1, <1>2, PTL DEF Spec

-----------------------------------------------------------------------------
(* An accepted buffer is tiled by its parts *)

Before == {p \in Nat \X Nat : p[1] < p[2]}

(***************************************************************************)
(* Induction over the natural numbers, for a set.                          *)
(***************************************************************************)
LEMMA Induction ==
  ASSUME NEW S \in SUBSET Nat, 0 \in S, \A k \in S : k + 1 \in S
  PROVE  S = Nat
<1> DEFINE T == Nat \ S
<1> SUFFICES ASSUME T # {} PROVE FALSE
  BY Zenon
<1>1. IsWellFoundedOn(Before, Nat)
  BY NatLessThanWellFounded DEF OpToRel, Before
<1>2. PICK x \in T : \A y \in T : <<y, x>> \notin Before
  <2>1. T \subseteq Nat
    OBVIOUS
  <2> HIDE DEF T
  <2> QED BY <1>1, <2>1, WFMin, Zenon
<1>3. x # 0 /\ x - 1 \in Nat /\ x - 1 < x
  BY <1>2
<1>4. <<x - 1, x>> \in Before
  BY <1>3 DEF Before
<1> QED BY <1>2, <1>3, <1>4

\* g holds the bytes of the first 0, 1, ... and k entries of s.
AddsTo(g, s, k) ==
  /\ g \in [0..k -> Nat]
  /\ g[0] = 0
  /\ \A i \in 1..k : g[i] = g[i - 1] + EntryBytes(s[i])

Adds(g, s) == g = [i \in 0..Len(s) |-> IF i = 0 THEN 0 ELSE g[i - 1] + EntryBytes(s[i])]
Bytes(s) == SumOf(EntryBytes, s)

LEMMA EntryNat == ASSUME NEW m \in Entry PROVE EntryBytes(m) \in Nat
<1>1. m.path \in DOMAIN PathBytes /\ m.size \in Nat
  BY DEF Entry, Paths
<1>2. PathBytes[m.path] \in Nat
  BY <1>1, BundleAssumption
<1> QED BY <1>1, <1>2 DEF EntryBytes

(***************************************************************************)
(* The recursive function of SumOf exists.                                 *)
(***************************************************************************)
LEMMA SumExists == ASSUME NEW s \in Seq(Entry) PROVE \E g : AddsTo(g, s, Len(s))
<1> DEFINE S == {k \in Nat : k <= Len(s) => \E g : AddsTo(g, s, k)}
<1>1. 0 \in S
  <2>1. AddsTo([i \in 0..0 |-> 0], s, 0)
    BY DEF AddsTo
  <2> QED BY <2>1
<1>2. ASSUME NEW k \in S PROVE k + 1 \in S
  <2> SUFFICES ASSUME k + 1 <= Len(s) PROVE \E g : AddsTo(g, s, k + 1)
    OBVIOUS
  <2>1. PICK g : AddsTo(g, s, k)
    OBVIOUS
  <2> DEFINE e == EntryBytes(s[k + 1])
             h == [i \in 0..(k + 1) |-> IF i <= k THEN g[i] ELSE g[k] + e]
  <2>2. k \in Nat /\ e \in Nat
    BY EntryNat
  <2>3. g \in [0..k -> Nat] /\ g[0] = 0 /\ \A i \in 1..k : g[i] = g[i - 1] + EntryBytes(s[i])
    BY <2>1 DEF AddsTo
  <2> HIDE DEF e
  <2>4. h \in [0..(k + 1) -> Nat] /\ h[0] = 0
    BY <2>2, <2>3
  <2>5. ASSUME NEW i \in 1..(k + 1) PROVE h[i] = h[i - 1] + EntryBytes(s[i])
    <3>1. CASE i <= k
      BY <2>2, <2>3, <3>1
    <3>2. CASE i = k + 1
      BY <2>2, <2>3, <3>2 DEF e
    <3> QED BY <2>2, <3>1, <3>2
  <2> QED BY <2>4, <2>5, Zenon DEF AddsTo
<1>3. S = Nat
  BY <1>1, <1>2, Induction, Zenon
<1>4. Len(s) \in Nat /\ Len(s) <= Len(s)
  OBVIOUS
<1> HIDE DEF S
<1>5. Len(s) \in S
  BY <1>3, <1>4
<1> QED BY <1>4, <1>5 DEF S

LEMMA BytesAdds ==
  ASSUME NEW s \in Seq(Entry)
  PROVE  \E g : AddsTo(g, s, Len(s)) /\ Bytes(s) = g[Len(s)]
<1> DEFINE c == CHOOSE g : Adds(g, s)
<1>1. PICK g : AddsTo(g, s, Len(s))
  BY SumExists
<1>2. Adds(g, s)
  BY <1>1 DEF AddsTo, Adds
<1>3. Adds(c, s)
  BY <1>2
<1>4. Bytes(s) = c[Len(s)]
  BY DEF Bytes, SumOf, Adds
<1> HIDE DEF c
<1>5. DOMAIN c = 0..Len(s) /\ c[0] = 0 /\ \A i \in 1..Len(s) : c[i] = c[i - 1] + EntryBytes(s[i])
  BY <1>3 DEF Adds
<1> DEFINE S == {k \in Nat : k <= Len(s) => c[k] \in Nat}
<1>6. 0 \in S
  BY <1>5
<1>7. ASSUME NEW k \in S PROVE k + 1 \in S
  <2> SUFFICES ASSUME k + 1 <= Len(s) PROVE c[k + 1] \in Nat
    OBVIOUS
  <2>1. c[k] \in Nat /\ k + 1 \in 1..Len(s) /\ EntryBytes(s[k + 1]) \in Nat
    BY EntryNat
  <2>2. c[k + 1] = c[k] + EntryBytes(s[k + 1])
    BY <1>5, <2>1
  <2> QED BY <2>1, <2>2
<1>8. S = Nat
  BY <1>6, <1>7, Induction, Zenon
<1>9. \A k \in 0..Len(s) : c[k] \in Nat
  BY <1>8
<1>10. c = [k \in 0..Len(s) |-> c[k]]
  BY <1>3 DEF Adds
<1>11. AddsTo(c, s, Len(s))
  BY <1>5, <1>9, <1>10, Zenon DEF AddsTo
<1> QED BY <1>4, <1>11

(***************************************************************************)
(* No modules have no bytes, and one more module adds its entry.           *)
(***************************************************************************)
LEMMA BytesEmpty == Bytes(<<>>) = 0
<1>1. <<>> \in Seq(Entry) /\ Len(<<>>) = 0
  OBVIOUS
<1>2. PICK g : AddsTo(g, <<>>, 0) /\ Bytes(<<>>) = g[0]
  BY <1>1, BytesAdds, Zenon
<1> QED BY <1>2 DEF AddsTo

LEMMA BytesAppend ==
  ASSUME NEW s \in Seq(Entry), NEW m \in Entry
  PROVE  Bytes(Append(s, m)) = Bytes(s) + EntryBytes(m) /\ Bytes(s) \in Nat
<1> DEFINE l == Len(s)
           t == Append(s, m)
<1>1. t \in Seq(Entry) /\ Len(t) = l + 1 /\ t[l + 1] = m /\ l \in Nat
      /\ \A i \in 1..l : t[i] = s[i]
  OBVIOUS
<1>2. PICK g : AddsTo(g, s, l) /\ Bytes(s) = g[l]
  BY BytesAdds
<1>3. PICK h : AddsTo(h, t, l + 1) /\ Bytes(t) = h[l + 1]
  BY <1>1, BytesAdds, Zenon
<1> HIDE DEF t, l
<1> DEFINE S == {k \in Nat : k <= l => h[k] = g[k]}
<1>4. 0 \in S
  BY <1>2, <1>3 DEF AddsTo
<1>5. ASSUME NEW k \in S PROVE k + 1 \in S
  <2> SUFFICES ASSUME k + 1 <= l PROVE h[k + 1] = g[k + 1]
    OBVIOUS
  <2>1. k + 1 \in 1..l /\ k + 1 \in 1..(l + 1) /\ (k + 1) - 1 = k /\ h[k] = g[k]
    BY <1>1
  <2>2. g[k + 1] = g[k] + EntryBytes(s[k + 1])
    BY <1>2, <2>1 DEF AddsTo
  <2>3. h[k + 1] = h[k] + EntryBytes(t[k + 1])
    BY <1>3, <2>1 DEF AddsTo
  <2> QED BY <1>1, <2>1, <2>2, <2>3
<1>6. S = Nat
  BY <1>4, <1>5, Induction, Zenon
<1>7. h[l] = g[l] /\ g[l] \in Nat
  BY <1>1, <1>2, <1>6 DEF AddsTo
<1>8. h[l + 1] = h[l] + EntryBytes(m)
  <2>1. l + 1 \in 1..(l + 1) /\ (l + 1) - 1 = l
    BY <1>1
  <2> QED BY <1>1, <1>3, <2>1 DEF AddsTo
<1> QED BY <1>2, <1>3, <1>7, <1>8 DEF t

\* Where the parser is in the buffer, from what it has read.
Front16 == 16 + hlen + mlen
Position ==
  /\ pc = "header" => off = 16
  /\ pc = "manifest" => off = 16 + hlen
  /\ pc = "json" => off = Front16
  /\ pc = "module" => off = Front16 + Bytes(acc)
  /\ pc = "content" => off = Front16 + Bytes(acc) + 2 + PathBytes[path]
Tiled ==
  /\ pc \in {"start", "header", "manifest", "json"} => acc = <<>>
  /\ Position
  /\ pc = "accepted" => len = Front16 + Bytes(acc) + 32

(***************************************************************************)
(* The path that is read has the length that was read before it.           *)
(***************************************************************************)
LEMMA PathReadLength ==
  ASSUME NEW k, NEW p \in PathRead(k) \cap Paths
  PROVE  PathBytes[p] = k
<1>1. 0 \notin Paths
  BY BundleAssumption DEF Paths
<1>2. PathRead(k) \subseteq {q \in Paths : PathBytes[q] = k} \cup {0}
  BY DEF PathRead
<1> QED BY <1>1, <1>2

(***************************************************************************)
(* Every step of the parser moves over exactly what it has read.           *)
(***************************************************************************)
LEMMA TiledStep == IInv /\ Tiled /\ [Next]_vars => Tiled'
<1> SUFFICES ASSUME IInv, Tiled, [Next]_vars PROVE Tiled'
  OBVIOUS
<1>0. /\ off \in Nat /\ hlen \in Nat /\ mlen \in Nat /\ acc \in Seq(Entry) /\ n \in Nat
      /\ (pc = "content" => path \in Paths) /\ BundleTypeOK
  BY Zenon DEF IInv, TypeOK, BundleTypeOK, HasPath
<1>1. CASE UNCHANGED vars \/ SetModule \/ \E import \in Imports : Resolve(import)
  BY <1>1 DEF vars, bvars, buffer, SetModule, Resolve, Tiled, Position, Front16
<1>2. CASE Compile \/ SetModuleFails \/ EvalModule
  BY <1>2, Zenon DEF Compile, SetModuleFails, EvalModule, Tiled, Position
<1>3. CASE TooShort \/ BadMagic \/ BadHeader \/ BadPath \/ ShortPath \/ BadContent \/ BadFooter
  BY <1>3 DEF TooShort, BadMagic, BadHeader, BadPath, ShortPath, BadContent, BadFooter, Return,
     Tiled, Position
<1>4. CASE ReadLengths
  BY <1>4 DEF ReadLengths, Tiled, Position
<1>5. CASE ReadHeader \/ ReadManifest
  <2>1. acc' = acc /\ acc = <<>> /\ hlen' = hlen /\ mlen' = mlen
    BY <1>5 DEF ReadHeader, ReadManifest, Skip, Tiled
  <2>2. \/ pc' = "rejected"
        \/ pc' = "manifest" /\ off' = 16 + hlen
        \/ pc' = "json" /\ off' = 16 + hlen + mlen
    BY <1>5 DEF ReadHeader, ReadManifest, Skip, Tiled, Position
  <2> QED BY <2>1, <2>2 DEF Tiled, Position, Front16
<1>6. CASE ParseManifest
  <2>1. /\ pc' \in {"raised", "module", "rejected"} /\ acc = <<>> /\ acc' = acc
        /\ off = Front16 /\ off' = off /\ hlen' = hlen /\ mlen' = mlen
    BY <1>6 DEF ParseManifest, Tiled, Position
  <2>2. Bytes(acc') = 0
    BY <2>1, BytesEmpty
  <2>3. off' = Front16' + Bytes(acc')
    BY <1>0, <2>1, <2>2 DEF Front16
  <2> QED BY <2>1, <2>3 DEF Tiled, Position
<1>7. CASE ReadPath
  <2>1. PICK k \in Field(off, PathWords) : path' \in PathRead(k) \cap Paths /\ off' = off + 2 + k
    BY <1>7 DEF ReadPath
  <2>2. /\ pc = "module" /\ pc' = "content" /\ acc' = acc /\ hlen' = hlen /\ mlen' = mlen
        /\ off = Front16 + Bytes(acc)
    BY <1>7 DEF ReadPath, Tiled, Position
  <2>3. off' = Front16' + Bytes(acc') + 2 + PathBytes[path']
    BY <2>1, <2>2, PathReadLength DEF Front16
  <2> QED BY <2>2, <2>3 DEF Tiled, Position
<1>8. CASE ReadContent
  <2>1. PICK size \in Field(off, Words) :
          /\ acc' = Append(acc, [path |-> path, size |-> size])
          /\ off' = off + 4 + 32 + size
    BY <1>8 DEF ReadContent
  <2>2. /\ pc = "content" /\ pc' = "module" /\ hlen' = hlen /\ mlen' = mlen
        /\ off = Front16 + Bytes(acc) + 2 + PathBytes[path]
    BY <1>8 DEF ReadContent, Tiled, Position
  <2>3. size \in Nat
    BY <1>0, <2>1, FieldNat, BundleAssumption
  <2> DEFINE m == [path |-> path, size |-> size]
  <2>4. m \in Entry /\ EntryBytes(m) = 2 + PathBytes[path] + 4 + 32 + size
        /\ PathBytes[path] \in Nat /\ EntryBytes(m) \in Nat
    <3>1. m \in Entry
      BY <1>0, <2>2, <2>3 DEF Entry
    <3>2. PathBytes[path] \in Nat
      BY <1>0, <2>2, BundleAssumption DEF Paths
    <3> QED BY <3>1, <3>2, EntryNat DEF EntryBytes
  <2> HIDE DEF m
  <2>5. Bytes(acc') = Bytes(acc) + EntryBytes(m) /\ Bytes(acc) \in Nat
    BY <1>0, <2>1, <2>4, BytesAppend DEF m
  <2>6. Front16' = Front16 /\ Front16 \in Nat
    BY <1>0, <2>2 DEF Front16
  <2>7. off' = Front16' + Bytes(acc')
    <3>1. \A f, b, p, z \in Nat :
            (f + b + 2 + p) + 4 + 32 + z = f + (b + (2 + p + 4 + 32 + z))
      OBVIOUS
    <3>2. off' = (Front16 + Bytes(acc) + 2 + PathBytes[path]) + 4 + 32 + size
      BY <2>1, <2>2
    <3>3. Front16' + Bytes(acc')
            = Front16 + (Bytes(acc) + (2 + PathBytes[path] + 4 + 32 + size))
      BY <2>4, <2>5, <2>6
    <3>4. (Front16 + Bytes(acc) + 2 + PathBytes[path]) + 4 + 32 + size
            = Front16 + (Bytes(acc) + (2 + PathBytes[path] + 4 + 32 + size))
      BY <2>3, <2>4, <2>5, <2>6, <3>1
    <3> QED BY <3>2, <3>3, <3>4
  <2> QED BY <2>2, <2>7 DEF Tiled, Position
<1>9. CASE Accept
  <2>1. /\ pc = "module" /\ pc' = "accepted" /\ acc' = acc /\ hlen' = hlen /\ mlen' = mlen
        /\ len' = len /\ off + 32 = len /\ off = Front16 + Bytes(acc)
    BY <1>9 DEF Accept, AtEnd, buffer, Tiled, Position
  <2> QED BY <2>1 DEF Tiled, Position, Front16
<1> QED
  BY <1>1, <1>2, <1>3, <1>4, <1>5, <1>6, <1>7, <1>8, <1>9 DEF Next, Parse

(***************************************************************************)
(* An accepted buffer is nothing but the parts that the parser returns:    *)
(* AcceptedTiles, for any number of modules of any size.                   *)
(***************************************************************************)
THEOREM NothingBetweenParts == Spec => []AcceptedTiles
<1>1. PackageInit => Tiled
  BY DEF PackageInit, Init, Tiled, Position
<1>2. Tiled => AcceptedTiles
  BY DEF Tiled, AcceptedTiles, Bytes, Front16
<1> QED BY Inductive, TiledStep, <1>1, <1>2, PTL DEF Spec

-----------------------------------------------------------------------------
(* The resolution of an import *)

Segs == Seq(STRING \cup {"js"})
Named(seg) == seg \notin {Here, Up}

LEMMA SegsApart == Here # Up
<1>1. Len(Here) = 2 /\ Len(Up) = 3
  BY DEF Here, Up
<1> QED BY <1>1

\* The places P of an import up to k, one segment further.
Upto(P, k) == {i \in 1..k : i \in P}
Grows(P, k) ==
  /\ Cardinality(Upto(P, k)) \in Nat
  /\ Cardinality(Upto(P, k + 1))
       = Cardinality(Upto(P, k)) + (IF k + 1 \in P THEN 1 ELSE 0)
LEMMA OneMore ==
  ASSUME NEW deep \in Nat, NEW P \in SUBSET (1..deep), NEW k \in 0..(deep - 1)
  PROVE  Grows(P, k)
<1> DEFINE A == Upto(P, k)
           B == Upto(P, k + 1)
<1>1. IsFiniteSet(1..k) /\ A \subseteq 1..k
  BY FS_Interval DEF Upto
<1>2. IsFiniteSet(A) /\ Cardinality(A) \in Nat
  BY <1>1, FS_Subset, FS_CardinalityType
<1>3. CASE k + 1 \in P
  <2>1. B = A \cup {k + 1} /\ k + 1 \notin A
    BY <1>3 DEF Upto
  <2>2. Cardinality(B) = Cardinality(A) + 1
    BY <1>2, <2>1, FS_AddElement
  <2> QED BY <1>2, <1>3, <2>2 DEF Grows
<1>4. CASE k + 1 \notin P
  <2>1. B = A
    BY <1>4 DEF Upto
  <2> QED BY <1>2, <1>4, <2>1 DEF Grows
<1> QED BY <1>3, <1>4

\* How deep one segment goes.
LEMMA DepthStep ==
  ASSUME NEW dir \in Seq(Segs), NEW import \in Seq(Segs), NEW k \in 0..(Len(import) - 1)
  PROVE  /\ Depth(dir, import, k) \in Int
         /\ Depth(dir, import, k + 1) = Depth(dir, import, k)
              + (IF Named(import[k + 1]) THEN 1 ELSE IF import[k + 1] = Up THEN -1 ELSE 0)
<1> DEFINE deep == Len(import)
           P == {i \in 1..deep : import[i] \notin {Here, Up}}
           Q == {i \in 1..deep : import[i] = Up}
           p == Cardinality(Upto(P, k))
           q == Cardinality(Upto(Q, k))
<1>1. deep \in Nat /\ k \in Nat /\ k + 1 \in 1..deep /\ Len(dir) \in Nat
  OBVIOUS
<1>2. \A j \in 0..deep : {i \in 1..j : import[i] \notin {Here, Up}} = Upto(P, j)
  BY <1>1 DEF Upto
<1>3. \A j \in 0..deep : {i \in 1..j : import[i] = Up} = Upto(Q, j)
  BY <1>1 DEF Upto
<1>4. /\ Deeper(import, k) = p /\ Higher(import, k) = q
      /\ Deeper(import, k + 1) = Cardinality(Upto(P, k + 1))
      /\ Higher(import, k + 1) = Cardinality(Upto(Q, k + 1))
  <2>1. k \in 0..deep /\ k + 1 \in 0..deep
    BY <1>1
  <2> QED BY <1>2, <1>3, <2>1, Zenon DEF Deeper, Higher
<1>7. /\ k + 1 \in P <=> Named(import[k + 1])
      /\ k + 1 \in Q <=> import[k + 1] = Up
      /\ import[k + 1] = Up => ~Named(import[k + 1])
  BY <1>1 DEF Named
<1>0. P \in SUBSET (1..deep) /\ Q \in SUBSET (1..deep) /\ k \in 0..(deep - 1)
  OBVIOUS
<1> HIDE DEF P, Q, deep
<1>5. p \in Nat /\ Deeper(import, k + 1) = p + (IF k + 1 \in P THEN 1 ELSE 0)
  <2>1. Grows(P, k)
    BY <1>0, <1>1, OneMore
  <2> QED BY <1>4, <2>1, Zenon DEF Grows
<1>6. q \in Nat /\ Higher(import, k + 1) = q + (IF k + 1 \in Q THEN 1 ELSE 0)
  <2>1. Grows(Q, k)
    BY <1>0, <1>1, OneMore
  <2> QED BY <1>4, <2>1, Zenon DEF Grows
<1> HIDE DEF p, q
<1>8. /\ Depth(dir, import, k) = Len(dir) + p - q
      /\ Depth(dir, import, k + 1)
           = Len(dir) + (p + (IF k + 1 \in P THEN 1 ELSE 0)) - (q + (IF k + 1 \in Q THEN 1 ELSE 0))
  BY <1>4, <1>5, <1>6, Zenon DEF Depth
<1>9. \A l, a, b \in Nat :
        /\ l + a - b \in Int
        /\ l + (a + 1) - (b + 0) = (l + a - b) + 1
        /\ l + (a + 0) - (b + 1) = (l + a - b) + (-1)
        /\ l + (a + 0) - (b + 0) = (l + a - b) + 0
  OBVIOUS
<1>10. CASE Named(import[k + 1])
  <2>1. Depth(dir, import, k + 1) = Len(dir) + (p + 1) - (q + 0)
    BY <1>7, <1>8, <1>10
  <2> QED BY <1>1, <1>5, <1>6, <1>8, <1>9, <1>10, <2>1
<1>11. CASE import[k + 1] = Up
  <2>1. Depth(dir, import, k + 1) = Len(dir) + (p + 0) - (q + 1)
    BY <1>7, <1>8, <1>11
  <2> QED BY <1>1, <1>5, <1>6, <1>7, <1>8, <1>9, <1>11, <2>1
<1>12. CASE ~Named(import[k + 1]) /\ import[k + 1] # Up
  <2>1. Depth(dir, import, k + 1) = Len(dir) + (p + 0) - (q + 0)
    BY <1>7, <1>8, <1>12
  <2> QED BY <1>1, <1>5, <1>6, <1>8, <1>9, <1>12, <2>1
<1> QED BY <1>10, <1>11, <1>12
\* Where the segments that stand at depth i were put, up to k.
Put(dir, import, k, i) == {j \in 1..k : Named(import[j]) /\ Depth(dir, import, j) = i}
Standing(dir, import, k, i) ==
  IF Put(dir, import, k, i) = {} THEN dir[i] ELSE import[Max(Put(dir, import, k, i))]

LEMMA MaxIs ==
  ASSUME NEW m \in Nat, NEW T \in SUBSET (1..m), m \in T PROVE Max(T) = m
<1>1. \A y \in T : m >= y
  OBVIOUS
<1>2. \E x \in T : \A y \in T : x >= y
  BY <1>1
<1>3. Max(T) \in T /\ \A y \in T : Max(T) >= y
  BY <1>2, Zenon DEF Max
<1>4. Max(T) \in 1..m /\ Max(T) >= m
  BY <1>3, Zenon
<1> QED BY <1>4

\* A segment with a name is put one deeper, and covers what stood there.
LEMMA PutStep ==
  ASSUME NEW dir, NEW import, NEW k \in Nat
  PROVE  /\ \A i : ~Named(import[k + 1]) \/ i # Depth(dir, import, k + 1)
                     => Standing(dir, import, k + 1, i) = Standing(dir, import, k, i)
         /\ Named(import[k + 1])
              => Standing(dir, import, k + 1, Depth(dir, import, k + 1)) = import[k + 1]
<1> DEFINE D == Depth(dir, import, k + 1)
<1>1. ASSUME NEW i, ~Named(import[k + 1]) \/ i # D
      PROVE  Standing(dir, import, k + 1, i) = Standing(dir, import, k, i)
  <2>1. Put(dir, import, k + 1, i) = Put(dir, import, k, i)
    <3>1. \A j : j \in 1..(k + 1) <=> j \in 1..k \/ j = k + 1
      OBVIOUS
    <3> QED BY <1>1, <3>1, Zenon DEF Put
  <2> QED BY <2>1, Zenon DEF Standing
<1>2. ASSUME Named(import[k + 1]) PROVE Standing(dir, import, k + 1, D) = import[k + 1]
  <2> DEFINE T == Put(dir, import, k + 1, D)
  <2>1. T \in SUBSET (1..(k + 1)) /\ k + 1 \in T /\ k + 1 \in Nat
    BY <1>2 DEF Put
  <2> HIDE DEF T
  <2>2. Max(T) = k + 1
    BY <2>1, MaxIs
  <2> QED BY <2>1, <2>2, Zenon DEF Standing, T
<1> QED BY <1>1, <1>2, Zenon

Walks(g, dir, import, k) ==
  /\ g[0] = [ok |-> TRUE, segs |-> dir]
  /\ \A i \in 1..k : g[i] = turn(g[i - 1], import[i])

(***************************************************************************)
(* The recursive function of walk exists.                                  *)
(***************************************************************************)
LEMMA WalkExists ==
  ASSUME NEW dir, NEW import \in Seq(Segs)
  PROVE  \E g : Walks(g, dir, import, Len(import)) /\ walk(dir, import) = g[Len(import)]
<1> DEFINE deep == Len(import)
           S == {k \in Nat : \E g : Walks(g, dir, import, k)}
<1>0. deep \in Nat
  OBVIOUS
<1>1. 0 \in S
  <2>1. Walks([i \in 0..0 |-> [ok |-> TRUE, segs |-> dir]], dir, import, 0)
    BY DEF Walks
  <2> QED BY <2>1
<1>2. ASSUME NEW k \in S PROVE k + 1 \in S
  <2>1. PICK g : Walks(g, dir, import, k)
    OBVIOUS
  <2> DEFINE e == turn(g[k], import[k + 1])
             h == [i \in 0..(k + 1) |-> IF i <= k THEN g[i] ELSE e]
  <2>2. k \in Nat
    OBVIOUS
  <2>3. g[0] = [ok |-> TRUE, segs |-> dir] /\ \A i \in 1..k : g[i] = turn(g[i - 1], import[i])
    BY <2>1 DEF Walks
  <2> HIDE DEF e
  <2>4. /\ h[k + 1] = e /\ \A i \in 0..k : h[i] = g[i]
    BY <2>2
  <2> HIDE DEF h
  <2>5. ASSUME NEW i \in 1..(k + 1) PROVE h[i] = turn(h[i - 1], import[i])
    <3>1. CASE i <= k
      <4>1. i \in 1..k /\ i \in 0..k /\ i - 1 \in 0..k
        BY <2>2, <3>1
      <4> QED BY <2>3, <2>4, <4>1, Zenon
    <3>2. CASE i = k + 1
      <4>1. i - 1 = k /\ k \in 0..k
        BY <2>2, <3>2
      <4> QED BY <2>4, <3>2, <4>1, Zenon DEF e
    <3> QED BY <2>2, <3>1, <3>2
  <2>6. h[0] = [ok |-> TRUE, segs |-> dir]
    <3>1. 0 \in 0..k
      BY <2>2
    <3> QED BY <2>3, <2>4, <3>1, Zenon
  <2>7. Walks(h, dir, import, k + 1)
    BY <2>5, <2>6, Zenon DEF Walks
  <2> QED BY <2>2, <2>7
<1>3. S = Nat
  BY <1>1, <1>2, Induction, Zenon
<1> HIDE DEF deep
<1>4. PICK g : Walks(g, dir, import, deep)
  BY <1>0, <1>3, Zenon
<1> DEFINE G(f) == [i \in 0..deep |-> IF i = 0 THEN [ok |-> TRUE, segs |-> dir]
                                   ELSE turn(f[i - 1], import[i])]
           a == [i \in 0..deep |-> g[i]]
           w == CHOOSE f : f = G(f)
<1>5. g[0] = [ok |-> TRUE, segs |-> dir] /\ \A i \in 1..deep : g[i] = turn(g[i - 1], import[i])
  BY <1>4, Zenon DEF Walks
<1>6. \A i \in 0..deep : a[i] = IF i = 0 THEN [ok |-> TRUE, segs |-> dir]
                             ELSE turn(a[i - 1], import[i])
  <2> SUFFICES ASSUME NEW i \in 0..deep
               PROVE  a[i] = IF i = 0 THEN [ok |-> TRUE, segs |-> dir]
                             ELSE turn(a[i - 1], import[i])
    BY Zenon
  <2>1. CASE i = 0
    <3>1. a[i] = g[0]
      BY <2>1
    <3> HIDE DEF a
    <3> QED BY <1>5, <2>1, <3>1
  <2>2. CASE i # 0
    <3>1. i \in 1..deep /\ a[i] = g[i] /\ a[i - 1] = g[i - 1]
      BY <1>0, <2>2
    <3> HIDE DEF a
    <3> QED BY <1>5, <2>2, <3>1
  <2> QED BY <2>1, <2>2
<1>7. a = G(a)
  BY <1>6, Zenon
<1> HIDE DEF a
<1>8. w = G(w)
  BY <1>7, Zenon
<1>9. walk(dir, import) = w[deep]
  BY DEF walk, deep
<1>10. Walks(w, dir, import, deep)
  <2> DEFINE v == w
  <2>1. w[0] = [ok |-> TRUE, segs |-> dir]
    <3>1. G(w)[0] = [ok |-> TRUE, segs |-> dir]
      BY <1>0
    <3> QED BY <1>8, <3>1, Zenon
  <2>2. \A i \in 1..deep : w[i] = turn(w[i - 1], import[i])
    <3>1. \A i \in 1..deep : G(w)[i] = turn(w[i - 1], import[i])
      BY <1>0
    <3> QED BY <1>8, <3>1, Zenon
  <2> HIDE DEF w
  <2> QED BY <2>1, <2>2, Zenon DEF Walks
<1> QED BY <1>9, <1>10, Zenon DEF deep
\* The path walked so far is what stands at each depth, until it climbs out.
Fell(dir, import, k) == \E j \in 1..k : Depth(dir, import, j) < 0
StandsAt(r, dir, import, k) ==
  /\ r = [ok |-> TRUE, segs |-> r.segs]
  /\ r.segs \in Seq(Segs)
  /\ Len(r.segs) = Depth(dir, import, k)
  /\ \A i \in 1..Len(r.segs) : r.segs[i] = Standing(dir, import, k, i)
WalkedTo(r, dir, import, k) ==
  IF Fell(dir, import, k) THEN ~r.ok ELSE StandsAt(r, dir, import, k)

LEMMA StartsAt ==
  ASSUME NEW dir \in Seq(Segs), NEW import
  PROVE  StandsAt([ok |-> TRUE, segs |-> dir], dir, import, 0) /\ ~Fell(dir, import, 0)
<1>1. Deeper(import, 0) = 0 /\ Higher(import, 0) = 0
  <2>1. \A T : T \subseteq 1..0 => Cardinality(T) = 0
    <3>1. \A T : T \subseteq 1..0 => T = {}
      OBVIOUS
    <3> QED BY <3>1, FS_EmptySet, Zenon
  <2> QED BY <2>1 DEF Deeper, Higher
<1>2. Depth(dir, import, 0) = Len(dir)
  BY <1>1 DEF Depth
<1>3. \A i : Put(dir, import, 0, i) = {}
  BY DEF Put
<1>4. \A i : Standing(dir, import, 0, i) = dir[i]
  BY <1>3, Zenon DEF Standing
<1> QED BY <1>2, <1>4 DEF StandsAt, Fell

LEMMA OtherSegs ==
  \A b, s, t : [[ok |-> b, segs |-> s] EXCEPT !.segs = t] = [ok |-> b, segs |-> t]
  OBVIOUS

LEMMA TurnStep ==
  ASSUME NEW dir \in Seq(Segs), NEW import \in Seq(Segs), NEW k \in 0..(Len(import) - 1),
         NEW r, StandsAt(r, dir, import, k)
  PROVE  IF Depth(dir, import, k + 1) < 0 THEN ~turn(r, import[k + 1]).ok
         ELSE StandsAt(turn(r, import[k + 1]), dir, import, k + 1)
<1> DEFINE seg == import[k + 1]
           s == r.segs
           q == turn(r, seg)
           d == Depth(dir, import, k)
           e == Depth(dir, import, k + 1)
<1>1. /\ r = [ok |-> TRUE, segs |-> s] /\ s \in Seq(Segs) /\ Len(s) = d
      /\ \A i \in 1..Len(s) : s[i] = Standing(dir, import, k, i)
  BY DEF StandsAt
<1>2. k \in Nat /\ seg \in Segs /\ d \in Nat /\ r.ok = TRUE
  BY <1>1
<1>3. e = d + (IF Named(seg) THEN 1 ELSE IF seg = Up THEN -1 ELSE 0)
  BY DepthStep
<1>4. \A i : ~Named(seg) \/ i # e => Standing(dir, import, k + 1, i) = Standing(dir, import, k, i)
  BY <1>2, PutStep
<1>5. Named(seg) => Standing(dir, import, k + 1, e) = seg
  BY <1>2, PutStep
<1>6. CASE seg = Here
  <2>1. ~Named(seg) /\ seg # Up
    BY <1>6, SegsApart DEF Named
  <2>2. e = d
    BY <1>2, <1>3, <2>1
  <2>3. q = r
    BY <1>2, <1>6, <2>1 DEF turn
  <2> HIDE DEF seg, e, d, q
  <2>4. StandsAt(q, dir, import, k + 1)
    BY <1>1, <1>4, <2>1, <2>2, <2>3, Zenon DEF StandsAt, e
  <2>5. ~(e < 0)
    BY <1>2, <2>2
  <2> QED BY <2>4, <2>5 DEF e, q, seg
<1>7. CASE seg = Up
  <2>1. ~Named(seg) /\ seg # Here
    BY <1>7, SegsApart DEF Named
  <2>2. e = d - 1
    BY <1>2, <1>3, <1>7, <2>1
  <2>3. CASE s = <<>>
    <3>1. d = 0
      BY <1>1, <2>3
    <3>2. q = [r EXCEPT !.ok = FALSE]
      BY <1>2, <1>7, <2>1, <2>3 DEF turn
    <3>3. ~q.ok
      <4>1. [r EXCEPT !.ok = FALSE].ok = FALSE
        BY <1>1
      <4> QED BY <3>2, <4>1
    <3>4. e < 0
      BY <2>2, <3>1
    <3> QED BY <3>3, <3>4
  <2>4. CASE s # <<>>
    <3>1. d >= 1 /\ Len(s) >= 1
      BY <1>1, <1>2, <2>4
    <3>2. q = [r EXCEPT !.segs = base_dir(@)]
      BY <1>2, <1>7, <2>1, <2>4 DEF turn
    <3>3. q = [ok |-> TRUE, segs |-> base_dir(s)]
      <4> HIDE DEF q, s
      <4>1. q = [r EXCEPT !.segs = base_dir(s)]
        BY <3>2 DEF s
      <4>2. [[ok |-> TRUE, segs |-> s] EXCEPT !.segs = base_dir(s)]
              = [ok |-> TRUE, segs |-> base_dir(s)]
        BY OtherSegs, Zenon
      <4> QED BY <1>1, <4>1, <4>2, Zenon
    <3>4. /\ base_dir(s) \in Seq(Segs) /\ Len(base_dir(s)) = Len(s) - 1
          /\ \A i \in 1..(Len(s) - 1) : base_dir(s)[i] = s[i]
      BY <1>1, <3>1 DEF base_dir
    <3>5. ~(e < 0) /\ Len(base_dir(s)) = e
      BY <1>1, <1>2, <2>2, <3>1, <3>4
    <3>6. \A i \in 1..Len(base_dir(s)) : base_dir(s)[i] = Standing(dir, import, k + 1, i)
      <4>1. \A i \in 1..Len(base_dir(s)) : i \in 1..Len(s) /\ i \in 1..(Len(s) - 1)
        BY <1>1, <3>4
      <4> QED BY <1>1, <1>4, <2>1, <3>4, <4>1, Zenon
    <3> HIDE DEF q, e
    <3>7. q.segs = base_dir(s)
      BY <3>3
    <3>8. StandsAt(q, dir, import, k + 1)
      BY <3>3, <3>4, <3>5, <3>6, <3>7, Zenon DEF StandsAt, e
    <3> QED BY <3>5, <3>8 DEF q, e
  <2> QED BY <2>3, <2>4, Zenon
<1>8. CASE seg # Here /\ seg # Up
  <2>1. Named(seg)
    BY <1>8 DEF Named
  <2>2. e = d + 1
    BY <1>2, <1>3, <2>1
  <2>3. q = [r EXCEPT !.segs = Append(@, seg)]
    BY <1>2, <1>8 DEF turn
  <2>4. q = [ok |-> TRUE, segs |-> Append(s, seg)]
    <3> HIDE DEF q, s
    <3>1. q = [r EXCEPT !.segs = Append(s, seg)]
      BY <2>3 DEF s
    <3>2. [[ok |-> TRUE, segs |-> s] EXCEPT !.segs = Append(s, seg)]
            = [ok |-> TRUE, segs |-> Append(s, seg)]
      BY OtherSegs, Zenon
    <3> QED BY <1>1, <3>1, <3>2, Zenon
  <2>5. /\ Append(s, seg) \in Seq(Segs) /\ Len(Append(s, seg)) = Len(s) + 1
        /\ \A i \in 1..Len(s) : Append(s, seg)[i] = s[i]
        /\ Append(s, seg)[Len(s) + 1] = seg
    BY <1>1, <1>2
  <2>6. ~(e < 0) /\ Len(Append(s, seg)) = e
    BY <1>1, <1>2, <2>2, <2>5
  <2>7. \A i \in 1..Len(Append(s, seg)) : Append(s, seg)[i] = Standing(dir, import, k + 1, i)
    <3> SUFFICES ASSUME NEW i \in 1..Len(Append(s, seg))
                 PROVE  Append(s, seg)[i] = Standing(dir, import, k + 1, i)
      OBVIOUS
    <3> HIDE DEF e, seg
    <3>1. CASE i = Len(s) + 1
      <4>1. i = e
        BY <1>1, <2>2, <3>1
      <4> QED BY <1>5, <2>1, <2>5, <3>1, <4>1, Zenon
    <3>2. CASE i # Len(s) + 1
      <4>1. i \in 1..Len(s) /\ i # e
        BY <1>1, <1>2, <2>2, <2>5, <3>2
      <4> QED BY <1>1, <1>4, <2>5, <4>1, Zenon
    <3> QED BY <3>1, <3>2
  <2> HIDE DEF q, e
  <2>8. q.segs = Append(s, seg)
    BY <2>4
  <2>9. StandsAt(q, dir, import, k + 1)
    BY <2>4, <2>5, <2>6, <2>7, <2>8, Zenon DEF StandsAt, e
  <2> QED BY <2>6, <2>9 DEF q, e
<1> QED BY <1>6, <1>7, <1>8
\* Walking an import is counting how deep its segments stand.
LEMMA WalkCounts ==
  ASSUME NEW dir \in Seq(Segs), NEW import \in Seq(Segs)
  PROVE  WalkedTo(walk(dir, import), dir, import, Len(import))
<1> DEFINE deep == Len(import)
<1>1. PICK g : Walks(g, dir, import, deep) /\ walk(dir, import) = g[deep]
  BY WalkExists, Zenon
<1>2. g[0] = [ok |-> TRUE, segs |-> dir] /\ \A i \in 1..deep : g[i] = turn(g[i - 1], import[i])
  BY <1>1 DEF Walks
<1> DEFINE S == {k \in Nat : k <= deep => WalkedTo(g[k], dir, import, k)}
<1>3. 0 \in S
  <2>1. StandsAt(g[0], dir, import, 0) /\ ~Fell(dir, import, 0)
    BY <1>2, StartsAt
  <2>2. WalkedTo(g[0], dir, import, 0)
    BY <2>1, Zenon DEF WalkedTo
  <2> QED BY <2>2, Zenon
<1>4. ASSUME NEW k \in S PROVE k + 1 \in S
  <2> SUFFICES ASSUME k + 1 <= deep PROVE WalkedTo(g[k + 1], dir, import, k + 1)
    OBVIOUS
  <2>1. /\ k \in Nat /\ k \in 0..(deep - 1) /\ k + 1 \in 1..deep /\ (k + 1) - 1 = k
        /\ WalkedTo(g[k], dir, import, k)
    OBVIOUS
  <2>2. g[k + 1] = turn(g[k], import[k + 1])
    BY <1>2, <2>1, Zenon
  <2>3. Fell(dir, import, k + 1) <=> Fell(dir, import, k) \/ Depth(dir, import, k + 1) < 0
    <3>1. \A j : j \in 1..(k + 1) <=> j \in 1..k \/ j = k + 1
      BY <2>1
    <3> QED BY <3>1, Zenon DEF Fell
  <2>4. CASE Fell(dir, import, k)
    <3>1. ~g[k].ok
      BY <2>1, <2>4, Zenon DEF WalkedTo
    <3>2. turn(g[k], import[k + 1]) = g[k]
      BY <3>1 DEF turn
    <3>3. ~g[k + 1].ok
      BY <2>2, <3>1, <3>2
    <3> QED BY <2>3, <2>4, <3>3, Zenon DEF WalkedTo
  <2>5. CASE ~Fell(dir, import, k)
    <3>1. StandsAt(g[k], dir, import, k)
      BY <2>1, <2>5, Zenon DEF WalkedTo
    <3>2. IF Depth(dir, import, k + 1) < 0 THEN ~turn(g[k], import[k + 1]).ok
          ELSE StandsAt(turn(g[k], import[k + 1]), dir, import, k + 1)
      BY <2>1, <3>1, TurnStep
    <3> QED BY <2>2, <2>3, <2>5, <3>2, Zenon DEF WalkedTo
  <2> QED BY <2>4, <2>5
<1>5. S = Nat
  BY <1>3, <1>4, Induction, Zenon
<1>6. deep \in Nat /\ deep <= deep
  OBVIOUS
<1> HIDE DEF deep
<1>7. WalkedTo(g[deep], dir, import, deep)
  BY <1>5, <1>6
<1> QED BY <1>1, <1>7, Zenon DEF deep

\* What the walk gives is the resolution by counting.
LEMMA WalkResolves ==
  ASSUME NEW dir \in Seq(Segs), NEW import \in Seq(Segs)
  PROVE  LET w == walk(dir, import)
             meant == Resolution(dir, import)
         IN  /\ meant \in Seq(Segs)
             /\ (~w.ok \/ w.segs = <<>>) <=> meant = Rejected
             /\ w.ok => w.segs = meant
<1> DEFINE deep == Len(import)
           w == walk(dir, import)
           meant == Resolution(dir, import)
<1>1. WalkedTo(w, dir, import, deep) /\ DOMAIN import = 1..deep /\ deep \in Nat
  <2>1. WalkedTo(w, dir, import, deep)
    BY WalkCounts, Zenon
  <2>2. DOMAIN import = 1..deep /\ deep \in Nat
    OBVIOUS
  <2> QED BY <2>1, <2>2, Zenon
<1> HIDE DEF w
<1>2. CASE Fell(dir, import, deep)
  <2>1. ~w.ok
    BY <1>1, <1>2, Zenon DEF WalkedTo
  <2>2. meant = Rejected
    <3>1. \E k \in DOMAIN import : Depth(dir, import, k) < 0
      BY <1>1, <1>2, Zenon DEF Fell
    <3> QED BY <3>1, Zenon DEF Resolution
  <2>3. Rejected \in Seq(Segs)
    BY DEF Rejected
  <2> QED BY <2>1, <2>2, <2>3 DEF w
<1>3. CASE ~Fell(dir, import, deep)
  <2> DEFINE s == w.segs
  <2>1. StandsAt(w, dir, import, deep)
    BY <1>1, <1>3, Zenon DEF WalkedTo
  <2>2. /\ w = [ok |-> TRUE, segs |-> s] /\ s \in Seq(Segs)
        /\ Len(s) = Depth(dir, import, deep)
        /\ \A i \in 1..Len(s) : s[i] = Standing(dir, import, deep, i)
    BY <2>1 DEF StandsAt
  <2>3. w.ok = TRUE
    BY <2>2
  <2> HIDE DEF s
  <2>4. \A i : Standing(dir, import, deep, i) = Segment(dir, import, i)
    <3>1. \A i : Put(dir, import, deep, i)
               = {k \in DOMAIN import : import[k] \notin {Here, Up} /\ Depth(dir, import, k) = i}
      BY <1>1, Zenon DEF Put, Named
    <3> QED BY <3>1, Zenon DEF Standing, Segment
  <2>5. meant = [i \in 1..Depth(dir, import, deep) |-> Segment(dir, import, i)]
    BY <1>1, <1>3, Zenon DEF Resolution, Fell
  <2>6. meant = [i \in 1..Len(s) |-> s[i]]
    BY <2>2, <2>4, <2>5
  <2>7. meant = s
    BY <2>2, <2>6
  <2>8. meant = Rejected <=> s = <<>>
    BY <2>7 DEF Rejected
  <2> HIDE DEF meant
  <2>9. meant \in Seq(Segs)
    BY <2>2, <2>7
  <2> QED BY <2>3, <2>7, <2>8, <2>9 DEF s, w, meant
<1> QED BY <1>2, <1>3, Zenon

\* What of_string lets through is below the root and has no "." or "..".
LEMMA Canonical ==
  ASSUME NEW s \in Seq(Segs), of_string(s) # Rejected
  PROVE  /\ of_string(s)[1] # Nothing
         /\ Range(of_string(s)) \cap {Here, Up} = {}
<1>1. /\ of_string(s) = s /\ s # <<Nothing>> /\ ~(Len(s) > 1 /\ s[1] = Nothing)
      /\ \A i \in DOMAIN s : s[i] \notin {Here, Up}
  BY DEF of_string
<1>2. s # <<>>
  BY <1>1 DEF Rejected
<1>3. s[1] # Nothing
  <2>1. CASE Len(s) = 1
    <3>1. s = <<s[1]>>
      BY <2>1
    <3> QED BY <1>1, <3>1
  <2>2. CASE Len(s) > 1
    BY <1>1, <2>2
  <2> QED BY <1>2, <2>1, <2>2
<1>4. Range(s) \cap {Here, Up} = {}
  BY <1>1 DEF Range
<1> QED BY <1>1, <1>3, <1>4

LEMMA ExtensionSegs ==
  ASSUME NEW s \in Seq(Segs), s # <<>> PROVE WithExtension(s) \in Seq(Segs)
<1>1. base_dir(s) \in Seq(Segs) /\ s[Len(s)] \in Segs
  BY DEF base_dir
<1>2. Append(s[Len(s)], "js") \in Segs
  <2>1. \A S : \A q \in Seq(S), x \in S : Append(q, x) \in Seq(S)
    OBVIOUS
  <2> QED BY <1>1, <2>1, Zenon DEF Segs
<1>3. Append(base_dir(s), Append(s[Len(s)], "js")) \in Seq(Segs)
  BY <1>1, <1>2
<1> QED BY <1>3 DEF WithExtension

LEMMA ImportInside ==
  ASSUME NEW base \in Seq(Segs), NEW import \in Seq(Segs)
  PROVE  LET found == normalize(base, import)
             meant == Resolution(base_dir(base), import)
         IN  /\ is_relative(import) =>
                  found = IF meant = Rejected THEN Rejected
                          ELSE of_string(WithExtension(meant))
             /\ found # Rejected => /\ found[1] # Nothing
                                    /\ Range(found) \cap {Here, Up} = {}
<1> DEFINE found == normalize(base, import)
           dir == base_dir(base)
           meant == Resolution(dir, import)
           w == walk(dir, import)
<1>1. dir \in Seq(Segs)
  BY DEF base_dir
<1>2. /\ meant \in Seq(Segs)
      /\ (~w.ok \/ w.segs = <<>>) <=> meant = Rejected
      /\ w.ok => w.segs = meant
  BY <1>1, WalkResolves, Zenon
<1>3. is_relative(import) => ~is_cap(import)
  <2>1. Here[1] = "" /\ Up[1] = ""
    BY DEF Here, Up
  <2> QED BY <2>1, Zenon DEF is_relative, is_cap, CapNames
<1>4. found = IF is_cap(import) THEN of_string(import)
              ELSE IF ~is_relative(import) THEN Rejected
              ELSE IF ~w.ok \/ w.segs = <<>> THEN Rejected
              ELSE of_string(WithExtension(w.segs))
  BY Zenon DEF normalize
<1> HIDE DEF found, w, meant, dir
<1>5. ~is_cap(import) /\ is_relative(import) =>
        found = IF meant = Rejected THEN Rejected ELSE of_string(WithExtension(meant))
  <2>1. CASE meant = Rejected
    BY <1>2, <1>4, <2>1
  <2>2. CASE meant # Rejected
    <3>1. w.ok /\ w.segs # <<>> /\ w.segs = meant
      BY <1>2, <2>2
    <3> QED BY <1>4, <2>2, <3>1
  <2> QED BY <2>1, <2>2, Zenon
<1>6. ASSUME found # Rejected PROVE found[1] # Nothing /\ Range(found) \cap {Here, Up} = {}
  <2>1. CASE is_cap(import)
    <3>1. found = of_string(import)
      BY <1>4, <2>1
    <3> QED BY <1>6, <3>1, Canonical
  <2>2. CASE ~is_cap(import)
    <3>1. is_relative(import)
      BY <1>4, <1>6, <2>2
    <3>2. meant # Rejected /\ found = of_string(WithExtension(meant))
      BY <1>5, <1>6, <2>2, <3>1
    <3>3. WithExtension(meant) \in Seq(Segs)
      BY <1>2, <3>2, ExtensionSegs DEF Rejected
    <3> QED BY <1>6, <3>2, <3>3, Canonical
  <2> QED BY <2>1, <2>2
<1> QED BY <1>3, <1>5, <1>6 DEF found, meant, dir

(***************************************************************************)
(* Module_path.normalize, walking the segments with a stack, gives what    *)
(* counting their depth gives, for bundles, paths and imports of any       *)
(* length: an import that climbs above the root is rejected, and the rest  *)
(* name a path inside the bundle with no "." or ".." left in it.           *)
(***************************************************************************)
THEOREM NoImportEscapes == Spec => []ImportsStayInside
<1>1. Spec => []TypeOK
  BY TypeCorrect
<1>2. TypeOK => ImportsStayInside
  <2> SUFFICES ASSUME TypeOK, at # 0, NEW import \in Imports
               PROVE  LET found == normalize(PathSegs[at], import)
                          meant == Resolution(base_dir(PathSegs[at]), import)
                      IN  /\ is_relative(import) =>
                               found = IF meant = Rejected THEN Rejected
                                       ELSE of_string(WithExtension(meant))
                          /\ found # Rejected => /\ found[1] # Nothing
                                                 /\ Range(found) \cap {Here, Up} = {}
    BY DEF ImportsStayInside
  <2>1. at \in Paths
    BY DEF TypeOK
  <2>2. PathSegs[at] \in Seq(Segs) /\ import \in Seq(Segs)
    BY <2>1, PathAssumption DEF Segs
  <2> QED BY <2>2, ImportInside
<1> QED BY <1>1, <1>2, PTL
=============================================================================
