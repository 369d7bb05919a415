-------------------------- MODULE TritonPluginStore --------------------------
(***************************************************************************)
(* The plugin on S3, with a client per set of names, implements the        *)
(* abstract deployment stores: a model is deployed when Triton serves it,  *)
(* as the artifact its metadata names.  As long as no call is abandoned    *)
(* and the server not restarted that is DeploymentStore, else              *)
(* UnreliableStore.                                                        *)
(***************************************************************************)
EXTENDS TritonPlugin

IsChange(r) == r.kind \in {"create", "update", "delete"}

\* Where the change of c takes effect: the answer of the load for a create, the
\* metadata of an update, the unload of a delete.
Done(c) ==
  \/ op[c].kind = "update" /\ pc[c] \in {"load", "await"}
  \/ op[c].kind = "delete" /\ pc[c] \in {"scan", "purge"}

Phase(c) ==
  IF ~IsChange(op[c]) THEN "returned"
  ELSE IF pc[c] # "idle" THEN IF Done(c) THEN "done" ELSE "waiting"
  ELSE IF res[c] = "ok" THEN "returned" ELSE "failed"

NoChange == [kind |-> "none", name |-> None, uri |-> None]

Deployment == [n \in Names |-> IF state[n] = "READY" THEN repo[n][MetaFile] ELSE None]
Change     == [c \in Clients |-> IF IsChange(op[c]) THEN op[c] ELSE NoChange]
Progress   == [c \in Clients |-> Phase(c)]

Store == INSTANCE DeploymentStore WITH
  NoUri <- None, deployed <- Deployment, request <- Change, phase <- Progress

\* Each change of the deployments is one step of a call that may make it, and a
\* call that reports success has made its change.
ImplementsStore == Store!StoreSpec

(***************************************************************************)
(* With failures and restarts.                                             *)
(***************************************************************************)
\* The check of c has seen the name as it must be: a create, that it is not READY; an
\* update at its second look, and a delete, that it is.
Checked(c) ==
  LET seen == op[c].name \in index[c] \/ found[c] # None IN
  \/ pc[c] \in {"download", "copy", "meta", "load", "await", "unload"}
  \/ pc[c] = "list" /\ op[c].kind = "create" /\ ~seen
  \/ pc[c] = "list" /\ op[c].kind = "delete" /\ seen
  \/ pc[c] = "relist" /\ seen

\* The change of c is made: its metadata is that of a READY model, or its unload was
\* accepted.
Made(c) ==
  \/ pc[c] \in {"load", "await"} /\ state[op[c].name] = "READY"
  \/ pc[c] \in {"scan", "purge"}

Standing(c) ==
  IF ~IsChange(op[c]) THEN "returned"
  ELSE IF pc[c] = "idle" THEN IF res[c] = "ok" THEN "returned" ELSE "failed"
  ELSE IF Made(c) THEN "done" ELSE IF Checked(c) THEN "granted" ELSE "waiting"

\* A load of n that nobody waits for may make it READY, with the metadata of the call
\* that gave up; a call that has written its own metadata makes it its own.
Abandoned(n) ==
  /\ state[n] # "READY"
  /\ \E l \in loads : l.name = n /\ l.caller = None
  /\ ~\E c \in Clients : pc[c] = "load" /\ op[c].name = n

Late      == [n \in Names |-> IF Abandoned(n) THEN repo[n][MetaFile] ELSE None]
Standings == [c \in Clients |-> Standing(c)]

Unreliable == INSTANCE UnreliableStore WITH
  NoUri <- None, deployed <- Deployment, request <- Change, phase <- Standings, late <- Late,
  MayAbandon <- MayFail, MayLose <- MayRestart

\* Whatever calls are abandoned and however often the server is restarted, what is
\* deployed changes only as a call asked that saw the name as it must be, or is lost as
\* a whole; a call reports success only while its change stands (deployments.py, all
\* methods).
ImplementsUnreliableStore == Unreliable!UnreliableSpec
==============================================================================
