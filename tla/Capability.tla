----------------------------- MODULE Capability -----------------------------
(***************************************************************************)
(* common/capability.ml: compiling the capability declarations of a        *)
(* manifest into a policy, asking a policy whether it grants an operation, *)
(* and intersecting two policies.                                          *)
(*                                                                         *)
(* The list of grants of a policy is kept as a set: it is sorted for       *)
(* determinism and only ever searched.  The limits of a grant are left     *)
(* out, compile always gives Operation_limits.none.                        *)
(***************************************************************************)

Grant(binding, operation) == [binding |-> binding, operation |-> operation]

KvGet(k) == [kind |-> "kv_get", store |-> k.store, prefix |-> k.prefix]
KvPut(k) == [kind |-> "kv_put", store |-> k.store, prefix |-> k.prefix]
KvDelete(k) == [kind |-> "kv_delete", store |-> k.store, prefix |-> k.prefix]

\* What the access of a kv declaration stands for.
op_access(k) ==
  (IF k.access \in {"read", "read-write"} THEN {KvGet(k)} ELSE {})
    \cup (IF k.access \in {"write", "read-write"}
            THEN {KvPut(k), KvDelete(k)} ELSE {})

compile(d) ==
  (UNION {{Grant(k.binding, o) : o \in op_access(k)} : k \in d.kv})
    \cup {Grant(h.binding, [kind |-> "http", policy |-> h.policy]) : h \in d.http}
    \cup {Grant("clock", [kind |-> "clock", clock |-> c]) : c \in d.clock}
    \cup {Grant("crypto", [kind |-> "random", source |-> r]) : r \in d.random}
    \cup (IF d.logs
            THEN {Grant("log", [kind |-> "log", stream |-> "default"])} ELSE {})
    \cup {Grant(i.binding, [kind |-> "invoke", target |-> i.target]) : i \in d.invoke}

\* Bug: the prefix of a key space is not compared.
op_equal_any_prefix(x, y) ==
  /\ x.kind = y.kind
  /\ IF x.kind \in {"kv_get", "kv_put", "kv_delete"}
       THEN x.store = y.store ELSE x = y

\* All fields are compared, but for a secret only its key and not what may
\* be done with it (a manifest cannot declare one).
op_equal(x, y) ==
  /\ x.kind = y.kind
  /\ IF x.kind = "secret" THEN x.key_id = y.key_id ELSE x = y

grants(p, binding, operation) ==
  \E g \in p : g.binding = binding /\ op_equal(g.operation, operation)

intersection(a, b) == {g \in a : grants(b, g.binding, g.operation)}
=============================================================================
