----------------------------- MODULE ModulePath -----------------------------
(***************************************************************************)
(* Ids.Module_path and the module loader (qjs/lib/qjs_module_loader.ml):   *)
(* which strings are module paths, and how an import is resolved against   *)
(* the module it stands in.                                                *)
(*                                                                         *)
(* A path is the sequence of its segments (between "/") and a segment the  *)
(* sequence of its parts (between "."): "lib/a.js" is                      *)
(* << <<"lib">>, <<"a", "js">> >>, "." is <<"", "">>, ".." is              *)
(* <<"", "", "">> and the empty segment is <<"">>.                         *)
(***************************************************************************)
EXTENDS Sequences, Integers

Nothing == <<"">>
Here == <<"", "">>
Up == <<"", "", "">>
Rejected == <<>>                    \* the Error of a result

\* The path starts with "cap:" (that part is "cap:" and what follows it).
CapNames == {"cap:runtime"}
is_cap(path) == path[1][1] \in CapNames

EndsIn(path, extensions) ==
  LET file == path[Len(path)] IN Len(file) > 1 /\ file[Len(file)] \in extensions

\* Module_path.of_string; every character of a part is allowed here.
of_string(path) ==
  IF /\ path # <<Nothing>>
     /\ ~ (Len(path) > 1 /\ path[1] = Nothing)
     /\ \A i \in DOMAIN path : path[i] \notin {Here, Up}
     /\ is_cap(path) \/ EndsIn(path, {"js", "mjs"})
    THEN path ELSE Rejected

is_relative(import) == Len(import) > 1 /\ import[1] \in {Here, Up}

\* A path without its last segment.
base_dir(path) == SubSeq(path, 1, Len(path) - 1)

\* Bug: ".." at the root of the bundle is ignored.
turn_clamped(acc, seg) ==
  CASE seg = Here -> acc
    [] seg = Up /\ acc.segs = <<>> -> acc
    [] seg = Up /\ acc.segs # <<>> -> [acc EXCEPT !.segs = base_dir(@)]
    [] OTHER -> [acc EXCEPT !.segs = Append(@, seg)]

\* What one segment of an import does to the path walked so far.
turn(acc, seg) ==
  CASE ~acc.ok \/ seg = Here -> acc
    [] acc.ok /\ seg = Up /\ acc.segs = <<>> -> [acc EXCEPT !.ok = FALSE]
    [] acc.ok /\ seg = Up /\ acc.segs # <<>> -> [acc EXCEPT !.segs = base_dir(@)]
    [] OTHER -> [acc EXCEPT !.segs = Append(@, seg)]

\* Follow the segments of an import from a directory.
walk(dir, import) ==
  LET acc[i \in 0..Len(import)] ==
        IF i = 0 THEN [ok |-> TRUE, segs |-> dir] ELSE turn(acc[i - 1], import[i])
  IN  acc[Len(import)]

\* path ^ ".js" unless it ends so already (".mjs" does not).
WithExtension(path) ==
  IF EndsIn(path, {"js"}) THEN path ELSE Append(base_dir(path), Append(path[Len(path)], "js"))

normalize(base, import) ==
  IF is_cap(import) THEN of_string(import)
  ELSE IF ~is_relative(import) THEN Rejected
  ELSE LET w == walk(base_dir(base), import)
       IN  IF ~w.ok \/ w.segs = <<>> THEN Rejected
           ELSE of_string(WithExtension(w.segs))
=============================================================================
