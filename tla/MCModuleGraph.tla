--------------------------- MODULE MCModuleGraph ---------------------------
(***************************************************************************)
(* Model checking ModuleGraph: every way in which three modules can import *)
(* one another, with any of them awaiting at top level, and a few bundles  *)
(* of four modules in which a module waits for two others.                 *)
(***************************************************************************)
EXTENDS ModuleGraph, SequencesExt

MCModules == 1 .. 4

Packed(deps, awaits, flaws, named) ==
  [req |-> [m \in MCModules |-> SetToSortSeq(deps[m], <)],
   tla |-> awaits, flawed |-> flaws, entries |-> named]

Three ==
  {Packed(deps, awaits, flaws, 1 .. 3) :
     deps \in {g \in [MCModules -> SUBSET (1 .. 3)] :
                    g[4] = {} /\ \A m \in MCModules : m \notin g[m]},
     awaits \in SUBSET (1 .. 3),
     flaws \in {{}, {3}}}

\* A diamond, a diamond that leads back to its top, one whose sides form a
\* cycle, two cycles in a row, a cycle of four with a chord, and modules that
\* import themselves.
Four ==
  {Packed(deps, awaits, {}, {1, 2}) :
     deps \in {<<{2, 3}, {4}, {4}, {}>>, <<{2, 3}, {4}, {4}, {1}>>,
                  <<{2, 3}, {3, 4}, {2, 4}, {}>>, <<{2, 3}, {1}, {4}, {3}>>,
                  <<{2, 4}, {3}, {4}, {1}>>, <<{1, 2}, {2, 3}, {}, {}>>},
     awaits \in SUBSET MCModules}

MCBundles == Three \cup Four
=============================================================================
