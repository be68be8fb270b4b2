----------------------------- MODULE Deployment -----------------------------
(***************************************************************************)
(* Deploying a function: handle_deploy and handle_move_alias of the        *)
(* control plane, over Registry (in memory, saved to a checkpoint file)    *)
(* and Artifact_store (a directory of objects named by their digest).      *)
(*                                                                         *)
(* A handler runs without yielding to another one, but the process can be  *)
(* killed between any two of its effects on the file system, and each of   *)
(* them can fail with an exception (a full disk, a missing directory),     *)
(* which ends the handler where it stands.                                 *)
(***************************************************************************)
EXTENDS Integers

CONSTANTS Functions,   \* (tenant, function) pairs
          Digests,     \* bundles, each named by its digest
          None         \* no digest

VARIABLES up,          \* the process runs
          pc,          \* where the handler is
          op,          \* the request it serves
          store,       \* Artifact_store: "absent", "partial" or "whole"
          revisions,   \* Registry.revisions: <<function, digest>>
          aliases,     \* Registry.aliases: one alias of each function
          disk,        \* the checkpoint file
          acked,       \* history, this process: deployments answered with 201
          fresh,       \* nothing was asked of the process since it started
          served       \* what the last Artifact_store.get returned

memory == <<revisions, aliases>>
deploymentVars == <<up, pc, op, store, memory, disk, acked, fresh, served>>

NoOp == [kind |-> "none", fn |-> None, digest |-> None]
NoAlias == [f \in Functions |-> None]
Absent == [kind |-> "absent", revisions |-> {}, aliases |-> NoAlias]
Torn == [kind |-> "torn", revisions |-> {}, aliases |-> NoAlias]

\* make_state: the registry starts empty, the files are as they were left.
DeploymentInit ==
  /\ up = TRUE
  /\ pc = "idle"
  /\ op = NoOp
  /\ store = [d \in Digests |-> "absent"]
  /\ revisions = {}
  /\ aliases = NoAlias
  /\ disk = Absent
  /\ acked = {}
  /\ fresh = TRUE
  /\ served = "nothing"

Finish == pc' = "idle" /\ op' = NoOp

\* A Sys_error or Unix_error leaves the handler (500).
Fails(at) ==
  /\ pc = at
  /\ Finish
  /\ UNCHANGED <<up, store, memory, disk, acked, fresh, served>>

-----------------------------------------------------------------------------
(* handle_deploy: put_if_absent *)

\* A mutant of Deploy: the object is not stored first.
DeployUnstored(f, d) ==
  /\ up
  /\ pc = "idle"
  /\ pc' = "publish"
  /\ op' = [kind |-> "deploy", fn |-> f, digest |-> d]
  /\ fresh' = FALSE
  /\ UNCHANGED <<up, store, memory, disk, acked, served>>

Deploy(f, d) ==
  /\ up
  /\ pc = "idle"
  /\ pc' = "put"
  /\ op' = [kind |-> "deploy", fn |-> f, digest |-> d]
  /\ fresh' = FALSE
  /\ UNCHANGED <<up, store, memory, disk, acked, served>>

\* A mutant of Put: an object that is already there is written again.
PutAlways ==
  /\ pc = "put"
  /\ store' = [store EXCEPT ![op.digest] = "partial"]
  /\ pc' = "write"
  /\ UNCHANGED <<up, op, memory, disk, acked, fresh, served>>

\* `Already_present, or open_out_bin makes an empty file.
Put ==
  /\ pc = "put"
  /\ IF store[op.digest] # "absent"
     THEN pc' = "publish" /\ UNCHANGED store
     ELSE pc' = "write" /\ store' = [store EXCEPT ![op.digest] = "partial"]
  /\ UNCHANGED <<up, op, memory, disk, acked, fresh, served>>

\* output_string and close_out: `Created
PutWritten ==
  /\ pc = "write"
  /\ pc' = "publish"
  /\ store' = [store EXCEPT ![op.digest] = "whole"]
  /\ UNCHANGED <<up, op, memory, disk, acked, fresh, served>>

-----------------------------------------------------------------------------
(* Registry *)

\* key
RevisionKey == <<op.fn, op.digest>>

\* publish_revision: 409, or added in memory and then saved.
Publish ==
  /\ pc = "publish"
  /\ IF RevisionKey \in revisions
     THEN Finish /\ UNCHANGED revisions
     ELSE /\ revisions' = revisions \cup {RevisionKey}
          /\ pc' = "save"
          /\ UNCHANGED op
  /\ UNCHANGED <<up, store, aliases, disk, acked, fresh, served>>

\* Any digest will do, published or not; the route gives no precondition.
move_alias(f, d) == aliases' = [aliases EXCEPT ![f] = d]

MoveAlias(f, d) ==
  /\ up
  /\ pc = "idle"
  /\ move_alias(f, d)
  /\ pc' = "save"
  /\ op' = [kind |-> "alias", fn |-> f, digest |-> d]
  /\ fresh' = FALSE
  /\ UNCHANGED <<up, store, revisions, disk, acked, served>>

\* checkpoint_save: open_out truncates the file ...
SaveOpened ==
  /\ pc = "save"
  /\ pc' = "saving"
  /\ disk' = Torn
  /\ UNCHANGED <<up, op, store, memory, acked, fresh, served>>

\* A mutant of Snapshot: the revision that is being published is left out.
SnapshotBefore ==
  [kind |-> "saved", revisions |-> revisions \ {RevisionKey}, aliases |-> aliases]

Snapshot == [kind |-> "saved", revisions |-> revisions, aliases |-> aliases]

\* ... and output_string and close_out fill it; the handler answers 201 or 200.
Saved ==
  /\ pc = "saving"
  /\ disk' = Snapshot
  /\ acked' = IF op.kind = "deploy" THEN acked \cup {RevisionKey} ELSE acked
  /\ Finish
  /\ UNCHANGED <<up, store, memory, fresh, served>>

\* checkpoint_load, which nothing calls: what it makes of the file.  A torn
\* file does not parse, and the exception is not Sys_error.
checkpoint_load(file) ==
  IF file.kind = "saved"
  THEN [result |-> "ok", revisions |-> file.revisions, aliases |-> file.aliases]
  ELSE [result |-> IF file.kind = "torn" THEN "raises" ELSE "error",
        revisions |-> {}, aliases |-> NoAlias]

-----------------------------------------------------------------------------
(* run_one: resolve the alias and fetch the bundle *)

\* A mutant of Verified: the digest is not computed again on read.
VerifiedNever(content) == TRUE

\* The digest of what was read is the digest that was asked for.
Verified(content) == content = "whole"

\* The revision the alias points to; a digest never gets this far (Invoke).
resolve(f) == aliases[f]

Fetch(f) ==
  /\ up
  /\ pc = "idle"
  /\ resolve(f) # None
  /\ fresh' = FALSE
  /\ served' = LET content == store[resolve(f)] IN
               IF content # "absent" /\ Verified(content) THEN content ELSE "error"
  /\ UNCHANGED <<up, pc, op, store, memory, disk, acked>>

-----------------------------------------------------------------------------
(* The process *)

Crash ==
  /\ up
  /\ up' = FALSE
  /\ Finish
  /\ UNCHANGED <<store, memory, disk, acked, fresh, served>>

\* make_state again
Restart ==
  /\ ~up
  /\ up' = TRUE
  /\ revisions' = {}
  /\ aliases' = NoAlias
  /\ acked' = {}
  /\ fresh' = TRUE
  /\ served' = "nothing"
  /\ UNCHANGED <<pc, op, store, disk>>

DeploymentNext ==
  \/ \E f \in Functions :
       \/ Fetch(f)
       \/ \E d \in Digests : Deploy(f, d) \/ MoveAlias(f, d)
  \/ Put \/ PutWritten \/ Publish \/ SaveOpened \/ Saved
  \/ Fails("put") \/ Fails("write") \/ Fails("save") \/ Fails("saving")
  \/ Crash \/ Restart

DeploymentSpec == DeploymentInit /\ [][DeploymentNext]_deploymentVars

-----------------------------------------------------------------------------
(* Properties *)

\* The registry, its checkpoint and the store hold functions and digests of the
\* deployments; a key of Registry.revisions is a function with a digest.
DeploymentTypeOK ==
  /\ up \in BOOLEAN
  /\ pc \in {"idle", "put", "write", "publish", "save", "saving"}
  /\ op \in {NoOp} \cup [kind : {"deploy", "alias"}, fn : Functions, digest : Digests]
  /\ store \in [Digests -> {"absent", "partial", "whole"}]
  /\ revisions \subseteq Functions \X Digests
  /\ aliases \in [Functions -> Digests \cup {None}]
  /\ disk \in [kind : {"absent", "torn", "saved"},
               revisions : SUBSET (Functions \X Digests),
               aliases : [Functions -> Digests \cup {None}]]
  /\ acked \subseteq Functions \X Digests
  /\ fresh \in BOOLEAN
  /\ served \in {"nothing", "error", "partial", "whole"}

\* "put_if_absent is the only write path; the store never overwrites an
\* existing object" (artifact_store.ml:4-5): once an object is whole, no
\* deployment, retry, failure or crash ever makes it anything else.
ObjectsImmutable ==
  [][\A d \in Digests : store[d] = "whole" => store'[d] = "whole"]_deploymentVars

\* A revision that can be resolved has an object in the store: the object is
\* created before the registry points to it.
PublishedHasObject == \A r \in revisions : store[r[2]] # "absent"

\* A deployment that was answered with 201 is in the checkpoint, and every
\* checkpoint that this process completes later still has it.
AckedInCheckpoint == disk.kind = "saved" => acked \subseteq disk.revisions

\* What run_one is given is the bundle that was deployed under the digest, or
\* an error: never the part of it that a failed or killed deployment left.
ServedWhole == served # "partial"

\* "Content-addressed bundles are written before registry pointers refer to
\* them." (implementation guide, 642)
BundleWritten == \A r \in revisions : store[r[2]] = "whole"

\* "9. Restart process and recover registry/checkpoint." (implementation
\* guide, 3483): a process that has just started has what the checkpoint holds.
RegistryRecovered ==
  LET saved == checkpoint_load(disk) IN
  up /\ fresh => saved.revisions = revisions /\ saved.aliases = aliases
=============================================================================
