----------------------------- MODULE MCPackage ------------------------------
(***************************************************************************)
(* Bundles of up to three modules (the caps of the parser are 3 modules, 3 *)
(* bytes each and 4 in all, those of the engine 2 modules), packed by the  *)
(* tool from up to three sources or found in buffers of chosen lengths, at *)
(* which a bundle ends exactly, one byte early or one byte late.  The      *)
(* manifests are one without a fault and those with one fault in one       *)
(* member.                                                                 *)
(***************************************************************************)
EXTENDS Package, SequencesExt

\* ".js", "a.js", "b.mjs", "lib//a.js", "lib/a.js", "lib/x/c.js" and a path
\* of 600 bytes that the engine has no room for, in the order of compare.
MCPaths == <<
  [bytes |-> 3, segs |-> << <<"", "js">> >>],
  [bytes |-> 4, segs |-> << <<"a", "js">> >>],
  [bytes |-> 5, segs |-> << <<"b", "mjs">> >>],
  [bytes |-> 9, segs |-> << <<"lib">>, <<"">>, <<"a", "js">> >>],
  [bytes |-> 8, segs |-> << <<"lib">>, <<"a", "js">> >>],
  [bytes |-> 10, segs |-> << <<"lib">>, <<"x">>, <<"c", "js">> >>],
  [bytes |-> 600, segs |-> << <<"lib">>, <<"z", "js">> >>] >>

MCPathBytes == [p \in DOMAIN MCPaths |-> MCPaths[p].bytes]
MCPathSegs == [p \in DOMAIN MCPaths |-> MCPaths[p].segs]

\* Sources are packed under their base names.
Sources(sizes) == [path : {1, 2, 3}, size : sizes]
MCInputs == (UNION {[1..k -> Sources({0, 3, 4})] : k \in 0..2}) \cup [1..3 -> Sources({0})]

MCForeign == {15, 47, 48, 49, 90, 91, 94, 95, 134, 138, 686, 728}
MCWords == {0, 1, 4}
MCPathWords == {0, 3, 4, 5, 8, 9, 10, 600, 1025}

\* Relative imports of up to four segments, and others.
Segs == {Here, Up, Nothing, <<"lib">>, <<"x">>, <<"a">>, <<"c", "js">>}
MCImports ==
  {<<first>> \o rest : first \in {Here, Up}, rest \in UNION {[1..k -> Segs] : k \in 0..3}}
    \cup {<<s>> : s \in Segs}
    \cup {<<Here, <<"b", "mjs">> >>, << <<"cap:runtime">> >>, << <<"cap:runtime">>, Up>>}

\* The members of an object without a fault, in the order of the guide.
Clean == [
  manifest |-> <<"schemaVersion", "name", "entrypoint", "export", "runtime",
                 "input", "output", "limits", "capabilities", "retry">>,
  input |-> <<"format", "maxBytes">>,
  output |-> <<"format", "maxBytes">>,
  limits |-> <<"jsHeapBytes", "nativeOverheadBytes", "stackBytes", "timeoutMs",
               "cpuMs", "maxHostCalls", "maxPendingPromises", "maxLogBytes",
               "maxOutboundBytes", "maxRedirects", "maxChildInvocations">>,
  capabilities |-> <<"kv", "http", "clock", "random", "logs", "invoke">>,
  kv |-> <<"binding", "store", "access", "prefix">>,
  http |-> <<"binding", "schemes", "hosts", "ports", "methods", "maxResponseBytes">>,
  retry |-> <<"mode">>]

\* A member left out, unknown, bound again, or with a value that is not good
\* (of the functions to invoke: one with a digit first).
Values == {"bad", "mixed", "short"}
Faults == {"missing", "unknown", "repeated"} \cup Values

NoFault == <<"none", 1, "none">>
MCDocs == {NoFault, <<"capabilities", 6, "digit">>}
            \cup {<<o, k, f>> \in (DOMAIN Clean) \X (1..3) \X Faults :
                    /\ k <= Len(Clean[o])
                    /\ f = "mixed" => o = "http"
                    /\ f = "short" <=> Clean[o][k] = "entrypoint"
                    /\ k = 3 => o = "manifest"}

Assoc(d, o) ==
  LET names == Clean[o]
      good == [i \in DOMAIN names |-> [name |-> names[i], value |-> "good"]]
      k == d[2]
  IN  CASE d[1] # o -> good
        [] d[3] = "missing" -> RemoveAt(good, k)
        [] d[3] = "unknown" -> [good EXCEPT ![k].name = "unknown"]
        [] d[3] = "repeated" -> Append(good, [name |-> names[k], value |-> "bad"])
        [] OTHER -> [good EXCEPT ![k].value = d[3]]

\* The objects of a capability, if the manifest names it.
Under(d, capability) ==
  IF capability \in Names(Assoc(d, "capabilities")) THEN {Assoc(d, capability)} ELSE {}

MCDocument(d) ==
  [manifest |-> Assoc(d, "manifest"), input |-> Assoc(d, "input"),
   output |-> Assoc(d, "output"), limits |-> Assoc(d, "limits"),
   capabilities |-> Assoc(d, "capabilities"), kv |-> Under(d, "kv"),
   http |-> Under(d, "http"), retry |-> Assoc(d, "retry")]

Kv(access, prefix) ==
  [binding |-> "images", store |-> "media", access |-> access, prefix |-> prefix]
Http(host) == [binding |-> "api", policy |-> host]

Declare(kv, clock) ==
  [kv |-> kv, http |-> {Http("a"), Http("b")}, clock |-> clock,
   random |-> {"cryptographic"}, logs |-> TRUE,
   invoke |-> {[binding |-> "resize", target |-> "resize@live"]}]

MCDeclarations ==
  {Declare({}, {"monotonic"}),
   Declare({Kv("read", "in"), Kv("write", "out")}, {"wall"}),
   Declare({Kv("read-write", "in")}, {}),
   Declare({Kv("read-write", "out")}, {"wall"})}
=============================================================================
