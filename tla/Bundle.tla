------------------------------- MODULE Bundle -------------------------------
(***************************************************************************)
(* The MLB1 bundle: common/bundle.ml, with the command line tool that      *)
(* writes bundles and the server that parses whatever it is sent.          *)
(*                                                                         *)
(* A buffer is its length and the fields known to be in it, by offset.  A  *)
(* bundle written by the tool has all its fields; of a buffer from         *)
(* elsewhere nothing is known, and what the parser reads in it is chosen   *)
(* when it is read (no byte is read twice but to be hashed).  The offsets  *)
(* are those of the code, in bytes.                                        *)
(***************************************************************************)
EXTENDS Manifest, Integers, FiniteSetsExt, TLC

CONSTANTS PathBytes,      \* the module paths in their order: their lengths
          MaxModules,     \* max_module_count
          MaxModuleBytes, \* max_module_bytes
          MaxTotalBytes,  \* max_total_bytes
          HeaderBytes,    \* the header the tool writes: its length
          ManifestBytes,  \* the manifest the tool writes: its length
          Inputs,         \* the lists of source files given to the tool
          Foreign,        \* lengths of the other buffers
          Words,          \* what a 32-bit field of another buffer may hold
          PathWords,      \* what a 16-bit field of another buffer may hold
          Docs,           \* names of the manifests
          Document(_)     \* the manifest of that name

MaxPath == 1024
Paths == DOMAIN PathBytes
Entry == [path : Paths, size : Nat]

VARIABLES input,    \* the modules the tool packed, in the order given
          written,  \* the buffer is the one the tool wrote
          len,      \* the length of the buffer
          fields,   \* what is known to be in the buffer
          pc,       \* where the parser is
          off,      \* off: the bytes before it have been read
          hlen,     \* header_length
          mlen,     \* manifest_length
          n,        \* the modules still to be read
          path,     \* the path of the module being read
          acc,      \* the modules read
          doc       \* the manifest read

buffer == <<input, written, len, fields>>
bvars == <<buffer, pc, off, hlen, mlen, n, path, acc, doc>>

-----------------------------------------------------------------------------
(* The writer *)

be16(k) == k % 65536
EntryBytes(m) == 2 + PathBytes[m.path] + 4 + 32 + m.size

\* The sum of a measure over a list of modules.
SumOf(measure(_), mods) ==
  LET sum[i \in 0..Len(mods)] ==
        IF i = 0 THEN 0 ELSE sum[i - 1] + measure(mods[i])
  IN  sum[Len(mods)]

SizeOf(m) == m.size

\* Bug: the modules are written as they come.
AsGiven(mods) == mods

Sorted(mods) == SortSeq(mods, LAMBDA a, b : a.path < b.path)

Good == 1           \* a digest that matches
Digest == {Good, 0}

\* write: the end of the first i modules, the fields of each, and the footer.
Write(mods) ==
  LET list == Sorted(mods)
      end(i) == 16 + HeaderBytes + ManifestBytes + SumOf(EntryBytes, SubSeq(list, 1, i))
      module(i) == LET at == end(i - 1)
                       k == PathBytes[list[i].path]
                   IN  (at :> be16(k)) @@ (at + 2 :> list[i].path)
                         @@ (at + 2 + k :> list[i].size) @@ (at + 6 + k :> Good)
      all[i \in 0..Len(list)] ==
        IF i = 0 THEN (4 :> HeaderBytes) @@ (8 :> ManifestBytes) @@ (12 :> Len(list))
                 ELSE all[i - 1] @@ module(i)
      footer == end(Len(list))
  IN  [len |-> footer + 32, fields |-> all[Len(list)] @@ (footer :> Good)]

\* The sizes are natural numbers, and so is all that the tool writes.
ASSUME BundleAssumption ==
  /\ PathBytes \in Seq(Nat)
  /\ Inputs \subseteq Seq(Entry)
  /\ Foreign \subseteq Nat /\ Words \subseteq Nat /\ PathWords \subseteq Nat
  /\ MaxModules \in Nat /\ MaxModuleBytes \in Nat /\ MaxTotalBytes \in Nat
  /\ \A mods \in Inputs :
       LET b == Write(mods)
       IN  /\ b.len \in Nat
           /\ \A at \in DOMAIN b.fields : at \in 0..b.len /\ b.fields[at] \in Nat

\* A manifest is made of JSON objects, and has a kv or an http object only in
\* the capability of that name.
ASSUME DocumentAssumption ==
  \A x \in Docs :
    LET d == Document(x)
    IN  /\ \A object \in Objects(d) : object \in Seq([name : STRING, value : STRING])
        /\ "kv" \notin Names(d.capabilities) => d.kv = {}
        /\ "http" \notin Names(d.capabilities) => d.http = {}

Init ==
  /\ \/ \E mods \in Inputs :
          LET b == Write(mods)
          IN  /\ input = mods
              /\ written = TRUE
              /\ len = b.len
              /\ fields = b.fields
     \/ /\ input = <<>>
        /\ written = FALSE
        /\ len \in Foreign
        /\ fields = <<>>
  /\ pc = "start"
  /\ off = 0
  /\ hlen = 0 /\ mlen = 0
  /\ n = 0
  /\ path = 0
  /\ acc = <<>>
  /\ doc = <<>>

-----------------------------------------------------------------------------
(* The parser *)

\* Bug: a length may reach one byte past the end.
FitsLoosely(end) == end <= len + 1

\* The checks of read_u32 and read_u16 and of every String.sub.
Fits(end) == end <= len

\* What is found at an offset.
Field(at, any) == IF at \in DOMAIN fields THEN {fields[at]} ELSE any

Return(result) ==
  /\ pc' = result
  /\ UNCHANGED <<buffer, off, hlen, mlen, n, path, acc, doc>>

TooShort == pc = "start" /\ ~Fits(16) /\ Return("rejected")

BadMagic == pc = "start" /\ Fits(16) /\ ~written /\ Return("rejected")

ReadLengths ==
  /\ pc = "start"
  /\ Fits(16)
  /\ \E h \in Field(4, Words), m \in Field(8, Words), k \in Field(12, Words) :
       /\ hlen' = h
       /\ mlen' = m
       /\ n' = k
       /\ pc' = IF k > MaxModules THEN "rejected" ELSE "header"
  /\ off' = 16
  /\ UNCHANGED <<buffer, path, acc, doc>>

Skip(from, size, to) ==
  /\ pc = from
  /\ IF Fits(off + size) THEN pc' = to /\ off' = off + size
                         ELSE pc' = "rejected" /\ off' = off
  /\ UNCHANGED <<buffer, hlen, mlen, n, path, acc, doc>>

ReadHeader == Skip("header", hlen, "manifest")
ReadManifest == Skip("manifest", mlen, "json")

\* The header is not JSON, or Canonical_json does not take the header or the
\* manifest (for an integer beyond 64 bits).
BadHeader == pc = "json" /\ ~written /\ Return("rejected")

\* The tool writes a manifest only after Manifest.parse_string took it.
ParseManifest ==
  /\ pc = "json"
  /\ \E d \in {x \in Docs : written => parse(Document(x))} :
       /\ doc' = d
       /\ pc' = CASE raises(Document(d)) -> "raised"
                  [] parse(Document(d)) -> "module"
                  [] OTHER -> "rejected"
  /\ UNCHANGED <<buffer, off, hlen, mlen, n, path, acc>>

More == n > 0

\* The path of k bytes that is read after its length, the one that was written
\* there if it has that length; 0 is no module path.
PathRead(k) ==
  LET any == {p \in Paths : PathBytes[p] = k} \cup {0}
      known == any \cap Field(off + 2, any)
  IN  IF known = {} THEN any ELSE known

ReadPath ==
  /\ pc = "module" /\ More
  /\ Fits(off + 2)
  /\ \E k \in Field(off, PathWords) :
       /\ k \in 1..MaxPath
       /\ Fits(off + 2 + k)
       /\ path' \in PathRead(k) \cap Paths
       /\ off' = off + 2 + k
  /\ pc' = "content"
  /\ UNCHANGED <<buffer, hlen, mlen, n, acc, doc>>

BadPath ==
  /\ pc = "module" /\ More
  /\ \/ ~Fits(off + 2)
     \/ \E k \in Field(off, PathWords) :
          k \notin 1..MaxPath \/ ~Fits(off + 2 + k) \/ 0 \in PathRead(k)
  /\ Return("rejected")

\* Module_path.of_string raises on three bytes that are not ".js".
ShortPath ==
  /\ pc = "module" /\ More
  /\ Fits(off + 2 + 3)
  /\ 3 \in Field(off, PathWords) /\ 0 \in PathRead(3)
  /\ Return("raised")

\* Bug: a path may come twice.
InOrderOrSame(p) == acc # <<>> => acc[Len(acc)].path <= p

InOrder(p) == acc # <<>> => acc[Len(acc)].path < p

\* Length, digest and content of a module.
ReadContent ==
  /\ pc = "content"
  /\ Fits(off + 4 + 32)
  /\ \E size \in Field(off, Words) :
       /\ size <= MaxModuleBytes
       /\ Fits(off + 4 + 32 + size)
       /\ Good \in Field(off + 4, Digest)
       /\ InOrder(path)
       /\ acc' = Append(acc, [path |-> path, size |-> size])
       /\ off' = off + 4 + 32 + size
  /\ n' = n - 1
  /\ pc' = "module"
  /\ UNCHANGED <<buffer, hlen, mlen, path, doc>>

BadContent ==
  /\ pc = "content"
  /\ \/ ~Fits(off + 4 + 32)
     \/ ~InOrder(path)
     \/ Field(off + 4, Digest) # {Good}
     \/ \E size \in Field(off, Words) :
          size > MaxModuleBytes \/ ~Fits(off + 4 + 32 + size)
  /\ Return("rejected")

Total == SumOf(SizeOf, acc)

\* Bug: bytes may follow the footer.
AtEndOrBefore == Fits(off + 32)

AtEnd == off + 32 = len

Accept ==
  /\ pc = "module" /\ ~More
  /\ Total <= MaxTotalBytes
  /\ AtEnd
  /\ Good \in Field(off, Digest)
  /\ pc' = "accepted"
  /\ off' = off + 32
  /\ UNCHANGED <<buffer, hlen, mlen, n, path, acc, doc>>

BadFooter ==
  /\ pc = "module" /\ ~More
  /\ Total > MaxTotalBytes \/ ~AtEnd \/ Field(off, Digest) # {Good}
  /\ Return("rejected")

Parse ==
  \/ TooShort \/ BadMagic \/ ReadLengths \/ ReadHeader \/ ReadManifest
  \/ BadHeader \/ ParseManifest
  \/ ReadPath \/ BadPath \/ ShortPath \/ ReadContent \/ BadContent
  \/ Accept \/ BadFooter

-----------------------------------------------------------------------------

Results == {"accepted", "rejected", "raised"}
Steps == {"start", "header", "manifest", "json", "module", "content"}

BundleTypeOK ==
  /\ input \in Seq(Entry) /\ written \in BOOLEAN /\ len \in Nat
  /\ \A at \in DOMAIN fields : at \in 0..len /\ fields[at] \in Nat
  /\ off \in Nat /\ hlen \in Nat /\ mlen \in Nat /\ n \in Nat
  /\ path \in Paths \cup {0}
  /\ acc \in Seq(Entry)
  /\ doc \in Docs \cup {<<>>}

(***************************************************************************)
(* No byte past the end of the buffer is read, whatever the lengths in it  *)
(* say: every String.sub and every integer of Bundle.parse lies inside.    *)
(***************************************************************************)
ReadsInBounds == off <= len

(***************************************************************************)
(* An accepted buffer is nothing but the parts the parser returns, side by *)
(* side: prefix, header, manifest, modules and footer account for all of   *)
(* its bytes, so that two different buffers are two different bundles.     *)
(***************************************************************************)
AcceptedTiles ==
  pc = "accepted" =>
    len = 16 + hlen + mlen + SumOf(EntryBytes, acc) + 32

(***************************************************************************)
(* A path names one module of an accepted bundle (the parser compares only *)
(* neighbours): the module map of the engine, and the loader, which take   *)
(* the first that matches, have nothing to choose.                         *)
(***************************************************************************)
OneModulePerPath ==
  \A i, j \in DOMAIN acc : i < j => acc[i].path < acc[j].path

\* What the parser's caps and its wish for distinct paths leave of the inputs.
Packable ==
  /\ Len(input) <= MaxModules
  /\ \A i \in DOMAIN input : /\ input[i].size <= MaxModuleBytes
                             /\ PathBytes[input[i].path] <= MaxPath
  /\ SumOf(SizeOf, input) <= MaxTotalBytes
  /\ \A i, j \in DOMAIN input : input[i].path = input[j].path => i = j

(***************************************************************************)
(* What the tool writes, the server reads: a written bundle is rejected    *)
(* only for a cap or for two sources of one name, never raises, and parses *)
(* to the modules that went in (test/fuzz/fuzz_common.ml: a written bundle *)
(* must parse back to the same module set).                                *)
(***************************************************************************)
WrittenRoundTrips ==
  written =>
    /\ pc # "raised"
    /\ pc = "rejected" => ~Packable
    /\ pc = "accepted" => Packable /\ Range(acc) = Range(input)

(***************************************************************************)
(* The manifest of an accepted bundle says the same to every reader: in    *)
(* none of its objects is a field bound twice, to be read as its first     *)
(* value here (List.assoc_opt) and as its last by whoever reads the        *)
(* manifest JSON kept in the registry.                                     *)
(***************************************************************************)
ReadersAgree ==
  pc = "accepted" =>
    \A object \in Objects(Document(doc)) : \A i \in DOMAIN object :
      field(object, object[i].name) = object[i].value
=============================================================================
