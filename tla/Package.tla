------------------------------ MODULE Package -------------------------------
(***************************************************************************)
(* From the bytes of a bundle to a loaded function: Bundle.parse, then     *)
(* what Worker_pool.run_one does with the result before any JavaScript     *)
(* runs (compile the capabilities, copy the modules into the module map of *)
(* the engine, evaluate the entrypoint), and the module loader resolving   *)
(* imports from one module to the next.                                    *)
(***************************************************************************)
EXTENDS Bundle, Capability, ModulePath

CONSTANTS PathSegs,        \* the segments of every path of PathBytes
          Imports,         \* what an import statement may name
          Declarations,    \* the capabilities a manifest may declare
          EngineModules,   \* MLQJS_MAX_MODULES
          EnginePath       \* MLQJS_MAX_PATH_LEN

ASSUME PackageAssumption == EngineModules \in Nat /\ EnginePath \in Nat
ASSUME PathAssumption ==
  /\ PathSegs \in [Paths -> Seq(Seq(STRING))]
  /\ Imports \subseteq Seq(Seq(STRING))

VARIABLES policy,          \* the compiled policy
          entry,           \* the entrypoint of the manifest
          modules,         \* the module map of the engine
          at               \* the module whose imports are resolved

pvars == <<policy, entry, modules, at>>
vars == <<bvars, pvars>>

PackageInit ==
  /\ Init
  /\ policy = {}
  /\ entry = 0
  /\ modules = <<>>
  /\ at = 0

\* The manifest of the bundle names any module path, in the bundle or not.
Compile ==
  /\ pc = "accepted"
  /\ \E d \in Declarations : policy' = compile(d)
  /\ entry' \in Paths
  /\ pc' = "load"
  /\ UNCHANGED <<buffer, off, hlen, mlen, n, path, acc, doc, modules, at>>

\* Bug: the last module is not copied.
LoadingButLast == pc = "load" /\ Len(modules) + 1 < Len(acc)

\* List.iter over the modules of the bundle.
Loading == pc = "load" /\ Len(modules) < Len(acc)

\* mlqjs_set_module: module_count < MLQJS_MAX_MODULES.
Room == Len(modules) < EngineModules

SetModule ==
  /\ Loading
  /\ LET m == acc[Len(modules) + 1]
     IN  /\ Room
         /\ PathBytes[m.path] < EnginePath
         /\ modules' = Append(modules, m)
  /\ UNCHANGED <<bvars, policy, entry, at>>

\* caml_failwith: run_one is left, without destroying the engine.
SetModuleFails ==
  /\ Loading
  /\ LET m == acc[Len(modules) + 1]
     IN  ~Room \/ PathBytes[m.path] >= EnginePath
  /\ pc' = "unloadable"
  /\ UNCHANGED <<buffer, off, hlen, mlen, n, path, acc, doc, pvars>>

Loaded(p) == \E i \in DOMAIN modules : modules[i].path = p

\* mlqjs_eval_module finds the entrypoint in the module map, or fails.
EvalModule ==
  /\ pc = "load"
  /\ ~Loading
  /\ IF Loaded(entry) THEN pc' = "loaded" /\ at' = entry
                      ELSE pc' = "unloadable" /\ at' = at
  /\ UNCHANGED <<buffer, off, hlen, mlen, n, path, acc, doc, policy, entry, modules>>

\* resolve: the import names a module of the bundle.
Resolve(import) ==
  /\ pc = "loaded"
  /\ \E i \in DOMAIN acc :
       /\ PathSegs[acc[i].path] = normalize(PathSegs[at], import)
       /\ at' = acc[i].path
  /\ UNCHANGED <<bvars, policy, entry, modules>>

Next ==
  \/ Parse /\ UNCHANGED pvars
  \/ Compile
  \/ SetModule
  \/ SetModuleFails
  \/ EvalModule
  \/ \E import \in Imports : Resolve(import)

Spec == PackageInit /\ [][Next]_vars

-----------------------------------------------------------------------------

(***************************************************************************)
(* The types of the parser's and the worker's state; no count goes below   *)
(* zero and the module map of the engine keeps to its size.                *)
(***************************************************************************)
TypeOK ==
  /\ BundleTypeOK
  /\ pc \in Steps \cup Results \cup {"load", "loaded", "unloadable"}
  /\ policy \subseteq UNION {compile(d) : d \in Declarations}
  /\ entry \in Paths \cup {0} /\ at \in Paths \cup {0}
  /\ modules \in Seq(Entry) /\ Len(modules) <= EngineModules

(***************************************************************************)
(* A function whose entrypoint runs has all the modules of its bundle in   *)
(* the engine; and one that cannot be loaded although its deployment was   *)
(* accepted has more modules or a longer path than the engine has room     *)
(* for (its limits are below those of the parser), or an entrypoint that   *)
(* is not in the bundle (nothing checks that it is).                       *)
(***************************************************************************)
LoadedWhole ==
  /\ pc = "loaded" => modules = acc /\ Loaded(entry)
  /\ pc = "unloadable" =>
       \/ Len(acc) > EngineModules
       \/ \E i \in DOMAIN acc : PathBytes[acc[i].path] >= EnginePath
       \/ \A i \in DOMAIN acc : acc[i].path # entry

(***************************************************************************)
(* Intersecting the policy of a function with any other compiled policy    *)
(* leaves exactly the grants that both have: it never grants more than     *)
(* either (capability.ml), and takes nothing away that both allow.         *)
(***************************************************************************)
IntersectionIsMeet ==
  \A d \in Declarations :
    intersection(policy, compile(d)) = policy \cap compile(d)

-----------------------------------------------------------------------------
(* Resolution of a relative import by counting, without a stack. *)

Deeper(import, k) == Cardinality({i \in 1..k : import[i] \notin {Here, Up}})
Higher(import, k) == Cardinality({i \in 1..k : import[i] = Up})
Depth(dir, import, k) == Len(dir) + Deeper(import, k) - Higher(import, k)

\* The segment that ends up in place i: the last one that was put there.
Segment(dir, import, i) ==
  LET put == {k \in DOMAIN import : import[k] \notin {Here, Up}
                                      /\ Depth(dir, import, k) = i}
  IN  IF put = {} THEN dir[i] ELSE import[Max(put)]

Resolution(dir, import) ==
  IF \E k \in DOMAIN import : Depth(dir, import, k) < 0 THEN Rejected
  ELSE [i \in 1..Depth(dir, import, Len(import)) |-> Segment(dir, import, i)]

(***************************************************************************)
(* Imports stay inside the bundle: a relative import from any module of it *)
(* either climbs above the root at some point and is rejected, or is the   *)
(* path found by counting how deep each of its segments stands; and what   *)
(* it gives is never an absolute path or one that still has "." or "..".   *)
(***************************************************************************)
ImportsStayInside ==
  at # 0 =>
    \A import \in Imports :
      LET found == normalize(PathSegs[at], import)
          meant == Resolution(base_dir(PathSegs[at]), import)
      IN  /\ is_relative(import) =>
               found = IF meant = Rejected THEN Rejected
                       ELSE of_string(WithExtension(meant))
          /\ found # Rejected => /\ found[1] # Nothing
                                 /\ Range(found) \cap {Here, Up} = {}
=============================================================================
