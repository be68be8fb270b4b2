------------------------------ MODULE Manifest ------------------------------
(***************************************************************************)
(* common/manifest.ml: the strict parser of a function's manifest.         *)
(*                                                                         *)
(* A document gives each JSON object of the manifest as the sequence of    *)
(* its members in the order they are written, so that a field can be there *)
(* twice.  The value of a field is reduced to what its reader says of it:  *)
(* "good", "bad", "mixed" (an array some of whose entries are not of the   *)
(* right kind), "short" (a module path of three bytes that is not ".js",   *)
(* on which Module_path.of_string raises Invalid_argument) or "digit" (the *)
(* name of a function to invoke begins with a digit, which is allowed, and *)
(* Binding_name.of_string_exn raises Failure on the binding made from it). *)
(***************************************************************************)
EXTENDS Sequences, Naturals

Names(assoc) == {assoc[i].name : i \in DOMAIN assoc}

check_no_duplicates(assoc) ==
  \A i, j \in DOMAIN assoc : assoc[i].name = assoc[j].name => i = j

check_known(assoc, known) == Names(assoc) \subseteq known

\* List.assoc_opt returns the first member of that name.
field(assoc, name) ==
  LET first == CHOOSE i \in DOMAIN assoc :
                 /\ assoc[i].name = name
                 /\ \A j \in 1..(i - 1) : assoc[j].name # name
  IN  assoc[first].value

Has(assoc, name, values) == name \in Names(assoc) /\ field(assoc, name) \in values

\* An object with these fields, all of them needed.
Strict(assoc, fields) ==
  /\ check_no_duplicates(assoc)
  /\ check_known(assoc, fields)
  /\ \A f \in fields : Has(assoc, f, {"good"})

parse_io(assoc) == Strict(assoc, {"format", "maxBytes"})

Limits == {"jsHeapBytes", "nativeOverheadBytes", "stackBytes", "timeoutMs",
           "cpuMs", "maxHostCalls", "maxPendingPromises", "maxLogBytes",
           "maxOutboundBytes", "maxRedirects", "maxChildInvocations"}

\* Bug: a limit given twice is not noticed.
parse_limits_lax(assoc) ==
  /\ check_known(assoc, Limits)
  /\ \A f \in Limits : Has(assoc, f, {"good"})

parse_limits(assoc) == Strict(assoc, Limits)

parse_kv(assoc) == Strict(assoc, {"binding", "store", "access", "prefix"})

HttpLists == {"schemes", "hosts", "ports", "methods"}

\* Entries that are no scheme, host, port or method are dropped; a list of
\* schemes, hosts or methods of which nothing is left is "bad".
parse_http(assoc) ==
  /\ check_no_duplicates(assoc)
  /\ check_known(assoc, HttpLists \cup {"binding", "maxResponseBytes"})
  /\ \A f \in {"binding", "maxResponseBytes"} : Has(assoc, f, {"good"})
  /\ \A f \in HttpLists : Has(assoc, f, {"good", "mixed"})

Capabilities == {"kv", "http", "clock", "random", "logs", "invoke"}

\* Every capability may be absent.
parse_capabilities(assoc) ==
  /\ check_no_duplicates(assoc)
  /\ check_known(assoc, Capabilities)
  /\ \A f \in Names(assoc) : field(assoc, f) = "good"

parse_retry(assoc) == Strict(assoc, {"mode"})

Members == {"schemaVersion", "name", "entrypoint", "export", "runtime",
            "input", "output", "limits", "capabilities", "retry"}

\* The entrypoint is looked at after the version and the name; the functions
\* to invoke before any verdict on the other capabilities.
raises(doc) ==
  /\ check_no_duplicates(doc.manifest)
  /\ check_known(doc.manifest, Members)
  /\ \/ /\ \A f \in {"schemaVersion", "name"} : Has(doc.manifest, f, {"good"})
        /\ Has(doc.manifest, "entrypoint", {"short"})
     \/ /\ \A f \in Members \ {"retry"} : Has(doc.manifest, f, {"good"})
        /\ parse_io(doc.input) /\ parse_io(doc.output) /\ parse_limits(doc.limits)
        /\ check_no_duplicates(doc.capabilities)
        /\ check_known(doc.capabilities, Capabilities)
        /\ Has(doc.capabilities, "invoke", {"digit"})

parse(doc) ==
  /\ Strict(doc.manifest, Members)
  /\ parse_io(doc.input)
  /\ parse_io(doc.output)
  /\ parse_limits(doc.limits)
  /\ parse_capabilities(doc.capabilities)
  /\ "kv" \in Names(doc.capabilities) => \A k \in doc.kv : parse_kv(k)
  /\ "http" \in Names(doc.capabilities) => \A h \in doc.http : parse_http(h)
  /\ parse_retry(doc.retry)

\* All the objects of a document.
Objects(doc) ==
  {doc.manifest, doc.input, doc.output, doc.limits, doc.capabilities, doc.retry}
    \cup doc.kv \cup doc.http
=============================================================================
