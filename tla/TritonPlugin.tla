---------------------------- MODULE TritonPlugin ----------------------------
(***************************************************************************)
(* The deployment client of the mlflow-triton plugin: class TritonPlugin   *)
(* of deploy/mlflow-triton-plugin/mlflow_triton/deployments.py.  A call is *)
(* a sequence of requests to three stores that know nothing of each other: *)
(* the artifact store, the model repository (local directory or S3) and    *)
(* the Triton server.  Each step below is one such request, so that calls  *)
(* of several clients interleave and a call may end between any two steps. *)
(***************************************************************************)
EXTENDS TritonServer

CONSTANTS
  ClientNames,   \* the names each client deploys, updates and deletes
  MayFail,       \* TRUE: a call may raise, time out or be killed at any step
  MayRestart,    \* TRUE: the Triton server may be restarted at any moment
  ListLimit      \* keys that one listing of S3 returns at most (1000)

ASSUME PluginAssumption ==
  /\ ClientNames \in [Clients -> SUBSET Names]
  /\ MayFail \in BOOLEAN /\ MayRestart \in BOOLEAN
  /\ ListLimit \in Nat \ {0}

\* No two clients manage the same name.
DisjointOwners ==
  \A c, d \in Clients : c # d => ClientNames[c] \cap ClientNames[d] = {}

VARIABLES
  pc,      \* where the call of each client is
  op,      \* the call it makes, or made last
  res,     \* how that call ended
  index,   \* READY names of the index whose metadata is still to be read
  found,   \* the artifact that the metadata of the model of the call names, or
           \* whose datatypes a predict was told
  todo     \* repository entries still to copy or remove, as <<name, key>>

clientVars == <<pc, op, res, index, found, todo>>
vars == <<repo, state, served, loads, pc, op, res, index, found, todo>>

Locations == {"idle", "index", "list", "reindex", "relist", "download", "clear",
              "copy", "meta", "flush", "load", "await", "unload", "scan", "purge",
              "describe", "infer"}
Kinds == {"create", "update", "delete", "get", "list", "predict"}
Ops   == [kind : Kinds, name : Names \cup {None}, uri : Uris \cup {None}]

PluginTypeOK ==
  /\ pc \in [Clients -> Locations]
  /\ op \in [Clients -> Ops]
  /\ res \in [Clients -> {"none", "ok", "error"}]
  /\ index \in [Clients -> SUBSET Names]
  /\ found \in [Clients -> Contents]
  /\ todo \in [Clients -> SUBSET (Names \X Keys)]

\* A call has the arguments of its kind, and only the steps of its kind.
ArgsOK ==
  \A c \in Clients :
    /\ op[c].kind \in {"create", "update"} => op[c].uri \in Uris
    /\ op[c].kind # "list" => op[c].name \in Names
    /\ pc[c] \in {"reindex", "relist", "download", "clear", "copy", "meta", "flush",
                  "load", "await"} => op[c].kind \in {"create", "update"}
    /\ pc[c] \in {"unload", "scan", "purge"} => op[c].kind = "delete"
    /\ pc[c] \in {"describe", "infer"} => op[c].kind = "predict"

\* Every variable has a value of its type.
TypeOK == RepoTypeOK /\ ServerTypeOK /\ PluginTypeOK /\ ArgsOK

Init ==
  /\ RepoInit
  /\ ServerInit
  /\ pc    = [c \in Clients |-> "idle"]
  /\ op    = [c \in Clients |-> [kind |-> "list", name |-> None, uri |-> None]]
  /\ res   = [c \in Clients |-> "none"]
  /\ index = [c \in Clients |-> {}]
  /\ found = [c \in Clients |-> None]
  /\ todo  = [c \in Clients |-> {}]

(***************************************************************************)
(* Steps every call is made of.                                            *)
(***************************************************************************)
Goto(c, l) == pc' = [pc EXCEPT ![c] = l]

Entries(n, K) == {n} \X K

\* The call of c ends with result r.  What get_deployment and predict found is what
\* they return, or what their answer rests on; the others drop it.
Return(c, r) ==
  /\ Goto(c, "idle")
  /\ res'   = [res EXCEPT ![c] = r]
  /\ index' = [index EXCEPT ![c] = {}]
  /\ found' = [found EXCEPT ![c] = IF op[c].kind \in {"get", "predict"} THEN @ ELSE None]
  /\ todo'  = [todo EXCEPT ![c] = {}]
  /\ UNCHANGED op

\* The calls a client can make.
Requests(c) ==
  [kind : {"create", "update"}, name : ClientNames[c], uri : Uris]
    \cup [kind : {"delete"}, name : ClientNames[c], uri : {None}]
    \cup [kind : {"get", "predict"}, name : Names, uri : {None}]
    \cup [kind : {"list"}, name : {None}, uri : {None}]

\* Every method but predict starts with list_deployments; predict asks for the
\* datatypes of a DataFrame's columns, other named inputs bring their own.
FirstSteps(kind) == IF kind = "predict" THEN {"describe", "infer"} ELSE {"index"}

\* A call begins.
Invoke(c) ==
  /\ pc[c] = "idle"
  /\ \E r \in Requests(c) : /\ op' = [op EXCEPT ![c] = r]
                            /\ \E l \in FirstSteps(r.kind) : Goto(c, l)
  /\ res'   = [res EXCEPT ![c] = "none"]
  /\ found' = [found EXCEPT ![c] = None]
  /\ UNCHANGED <<repo, serverVars, index, todo>>

\* A create or update with a flavor that is not supported; a predict whose input is
\* an array without a name.
RejectArguments(c) ==
  /\ pc[c] = "idle"
  /\ \E r \in Requests(c) : /\ r.kind \in {"create", "update", "predict"}
                            /\ op' = [op EXCEPT ![c] = r]
  /\ res'   = [res EXCEPT ![c] = "error"]
  /\ found' = [found EXCEPT ![c] = None]
  /\ UNCHANGED <<repo, serverVars, pc, index, todo>>

(***************************************************************************)
(* list_deployments: the index first, then the metadata of each READY      *)
(* model, one at a time.                                                   *)
(***************************************************************************)
ReadIndex(c) ==
  /\ pc[c] \in {"index", "reindex"}
  /\ Goto(c, IF pc[c] = "index" THEN "list" ELSE "relist")
  /\ index' = [index EXCEPT ![c] = ReadyNames]
  /\ found' = [found EXCEPT ![c] = None]
  /\ UNCHANGED <<repo, serverVars, op, res, todo>>

Listing(c) == pc[c] \in {"list", "relist"}

\* The metadata of n parses, or a local model has none and is passed over.
MetaReads(n) ==
  \/ repo[n][MetaFile] \in Uris
  \/ Backend = "local" /\ repo[n][MetaFile] = None

\* Faulty variant: the entry of the name asked for is not picked out.
ReadMetaAnyName(c) ==
  /\ Listing(c)
  /\ \E n \in index[c] :
       /\ MetaReads(n)
       /\ index' = [index EXCEPT ![c] = @ \ {n}]
       /\ found' = [found EXCEPT ![c] = repo[n][MetaFile]]
  /\ UNCHANGED <<repo, serverVars, pc, op, res, todo>>

ReadMeta(c) ==
  /\ Listing(c)
  /\ \E n \in index[c] :
       /\ MetaReads(n)
       /\ index' = [index EXCEPT ![c] = @ \ {n}]
       /\ found' = [found EXCEPT ![c] =
                      IF n = op[c].name THEN repo[n][MetaFile] ELSE @]
  /\ UNCHANGED <<repo, serverVars, pc, op, res, todo>>

\* An object that is not there (S3) or a file that does not parse ends the call.
MetaRaises(c) ==
  /\ Listing(c)
  /\ \E n \in index[c] : ~MetaReads(n)
  /\ Return(c, "error")
  /\ UNCHANGED <<repo, serverVars>>

Listed(c) == Listing(c) /\ index[c] = {}
Exists(c) == found[c] # None

ListReturns(c) ==
  /\ Listed(c)
  /\ op[c].kind = "list"
  /\ Return(c, "ok")
  /\ UNCHANGED <<repo, serverVars>>

GetReturns(c) ==
  /\ Listed(c)
  /\ op[c].kind = "get"
  /\ Return(c, IF Exists(c) THEN "ok" ELSE "error")
  /\ UNCHANGED <<repo, serverVars>>

(***************************************************************************)
(* What the check of existence decides.                                    *)
(***************************************************************************)
\* A call goes on at location l; what it found is not used any more.
Proceed(c, l) ==
  /\ Goto(c, l)
  /\ found' = [found EXCEPT ![c] = None]
  /\ UNCHANGED <<op, res, index, todo>>

\* Faulty variant: an existing deployment is not refused.
CheckCreateUnchecked(c) ==
  /\ Listed(c)
  /\ op[c].kind = "create"
  /\ Proceed(c, "download")
  /\ UNCHANGED <<repo, serverVars>>

\* create_deployment goes on only when the name is not deployed.
CheckCreate(c) ==
  /\ Listed(c)
  /\ op[c].kind = "create"
  /\ IF Exists(c) THEN Return(c, "error") ELSE Proceed(c, "download")
  /\ UNCHANGED <<repo, serverVars>>

\* Faulty variant: a delete checks twice, as an update does.
CheckDeleteTwice(c) ==
  /\ Listed(c)
  /\ op[c].kind = "delete"
  /\ IF Exists(c) THEN Proceed(c, IF pc[c] = "list" THEN "reindex" ELSE "unload")
                  ELSE Return(c, "error")
  /\ UNCHANGED <<repo, serverVars>>

CheckDelete(c) ==
  /\ Listed(c)
  /\ op[c].kind = "delete"
  /\ IF Exists(c) THEN Proceed(c, "unload") ELSE Return(c, "error")
  /\ UNCHANGED <<repo, serverVars>>

\* Faulty variant: the second look at the deployments starts a third, and so on.
CheckUpdateAgain(c) ==
  /\ Listed(c)
  /\ op[c].kind = "update"
  /\ IF Exists(c) THEN Proceed(c, "reindex") ELSE Return(c, "error")
  /\ UNCHANGED <<repo, serverVars>>

\* update_deployment lists twice: in _model_exists and in get_deployment.
CheckUpdate(c) ==
  /\ Listed(c)
  /\ op[c].kind = "update"
  /\ IF Exists(c)
     THEN Proceed(c, IF pc[c] = "list" THEN "reindex" ELSE "download")
     ELSE Return(c, "error")
  /\ UNCHANGED <<repo, serverVars>>

(***************************************************************************)
(* The shared part of create_deployment and update_deployment: copy the    *)
(* artifact, write the metadata, ask Triton to load.                       *)
(***************************************************************************)
Put(n, k, v) == repo' = [repo EXCEPT ![n][k] = v]

\* Faulty variant: a local directory is copied over, never removed first.
StageMerges(c) ==
  /\ pc[c] = "download"
  /\ Goto(c, "copy")
  /\ todo' = [todo EXCEPT ![c] = Entries(op[c].name, CopySlots(op[c].uri))]
  /\ IF Backend = "local" /\ NeedsConfig(op[c].uri)
     THEN Put(op[c].name, ConfigFile, op[c].uri)
     ELSE UNCHANGED repo
  /\ UNCHANGED <<serverVars, op, res, index, found>>

\* Faulty variant: the minimal configuration is written when there is none in the
\* repository, not when there is none in the artifact.
StageKeepsConfig(c) ==
  LET n == op[c].name
      u == op[c].uri
      clearing == Backend = "local" /\ Flavor[u] = "triton" /\ DirExists(n)
  IN
  /\ pc[c] = "download"
  /\ Goto(c, IF clearing THEN "clear" ELSE "copy")
  /\ todo' = [todo EXCEPT ![c] =
                Entries(n, IF clearing THEN Present(n) ELSE CopySlots(u))]
  /\ IF Backend = "local" /\ NeedsConfig(u) /\ repo[n][ConfigFile] = None
     THEN Put(n, ConfigFile, u)
     ELSE UNCHANGED repo
  /\ UNCHANGED <<serverVars, op, res, index, found>>

\* _get_copy_paths and the start of _copy_files_to_triton_repo.  A local
\* directory that is there is removed before a triton artifact is copied over it.
\* The minimal configuration of an onnx artifact is written with open(), which
\* reaches the repository only when that is local.
Stage(c) ==
  LET n == op[c].name
      u == op[c].uri
      clearing == Backend = "local" /\ Flavor[u] = "triton" /\ DirExists(n)
  IN
  /\ pc[c] = "download"
  /\ Goto(c, IF clearing THEN "clear" ELSE "copy")
  /\ todo' = [todo EXCEPT ![c] =
                Entries(n, IF clearing THEN Present(n) ELSE CopySlots(u))]
  /\ IF Backend = "local" /\ NeedsConfig(u) THEN Put(n, ConfigFile, u)
                                            ELSE UNCHANGED repo
  /\ UNCHANGED <<serverVars, op, res, index, found>>

\* shutil.rmtree of the model directory; an entry that is already gone raises.
ClearEntry(c) ==
  /\ pc[c] = "clear"
  /\ \E e \in todo[c] :
       IF repo[e[1]][e[2]] = None
       THEN Return(c, "error") /\ UNCHANGED repo
       ELSE /\ Put(e[1], e[2], None)
            /\ todo' = [todo EXCEPT ![c] = @ \ {e}]
            /\ UNCHANGED <<pc, op, res, index, found>>
  /\ UNCHANGED serverVars

\* The directory is gone and copytree makes it anew; either raises when another
\* client has put something there meanwhile.
EndClear(c) ==
  /\ pc[c] = "clear"
  /\ todo[c] = {}
  /\ IF DirExists(op[c].name)
     THEN Return(c, "error")
     ELSE /\ Goto(c, "copy")
          /\ todo' = [todo EXCEPT ![c] = Entries(op[c].name, CopySlots(op[c].uri))]
          /\ UNCHANGED <<op, res, index, found>>
  /\ UNCHANGED <<repo, serverVars>>

\* One file or version directory of the artifact is copied or uploaded.
CopyEntry(c) ==
  /\ pc[c] = "copy"
  /\ \E e \in todo[c] :
       /\ \A d \in todo[c] : ~CopiedBefore(op[c].uri, d[2], e[2]) \/ d = e
       /\ Put(e[1], e[2], op[c].uri)
       /\ todo' = [todo EXCEPT ![c] = @ \ {e}]
  /\ UNCHANGED <<serverVars, pc, op, res, index, found>>

\* Faulty variant: the metadata is not written.
EndCopyNoMeta(c) ==
  /\ pc[c] = "copy"
  /\ todo[c] = {}
  /\ Goto(c, "load")
  /\ UNCHANGED <<repo, serverVars, op, res, index, found, todo>>

\* A local repository is given a version directory 1 if it has none.
EndCopy(c) ==
  LET n == op[c].name IN
  /\ pc[c] = "copy"
  /\ todo[c] = {}
  /\ Goto(c, "meta")
  /\ IF Backend = "local" /\ repo[n][FirstVersion] = None
     THEN Put(n, FirstVersion, EmptyDir)
     ELSE UNCHANGED repo
  /\ UNCHANGED <<serverVars, op, res, index, found, todo>>

\* _generate_mlflow_meta_file: put_object is atomic; open(.., "w") truncates first.
WriteMeta(c) ==
  LET n == op[c].name IN
  /\ pc[c] = "meta"
  /\ IF Backend = "s3"
     THEN Goto(c, "load") /\ Put(n, MetaFile, op[c].uri)
     ELSE Goto(c, "flush") /\ Put(n, MetaFile, Torn)
  /\ UNCHANGED <<serverVars, op, res, index, found, todo>>

\* The local file gets its text when it is closed, unless it was removed.
FlushMeta(c) ==
  LET n == op[c].name IN
  /\ pc[c] = "flush"
  /\ Goto(c, "load")
  /\ Put(n, MetaFile, IF repo[n][MetaFile] = None THEN None ELSE op[c].uri)
  /\ UNCHANGED <<serverVars, op, res, index, found, todo>>

\* Faulty variant: the answer of the load is not waited for.
CallLoadForgotten(c) ==
  /\ pc[c] = "load"
  /\ AcceptLoad(op[c].name, None)
  /\ Return(c, "ok")
  /\ UNCHANGED repo

CallLoad(c) ==
  /\ pc[c] = "load"
  /\ AcceptLoad(op[c].name, c)
  /\ Goto(c, "await")
  /\ UNCHANGED <<repo, op, res, index, found, todo>>

\* A load ends, and with it the call that waits for it, if one still does.
Answer(l, r) == IF l.caller = None THEN UNCHANGED clientVars ELSE Return(l.caller, r)

\* Faulty variant: the exception of a failed load is swallowed.
LoadEndsOk(l) ==
  /\ LoadSucceeds(l) \/ LoadFails(l)
  /\ Answer(l, "ok")
  /\ UNCHANGED repo

LoadEnds(l) ==
  /\ \/ LoadSucceeds(l) /\ Answer(l, "ok")
     \/ LoadFails(l) /\ Answer(l, "error")
  /\ UNCHANGED repo

\* The server is gone, and with it the load this call waits for.
ConnectionLost(c) ==
  /\ pc[c] = "await"
  /\ \A l \in loads : l.caller # c
  /\ Return(c, "error")
  /\ UNCHANGED <<repo, serverVars>>

(***************************************************************************)
(* predict: the server answers for a READY model only.                     *)
(***************************************************************************)
\* get_model_metadata; then the columns and the conversion to the datatypes, which
\* may raise.
Describe(c) ==
  /\ pc[c] = "describe"
  /\ \/ /\ state[op[c].name] = "READY"
        /\ Goto(c, "infer")
        /\ found' = [found EXCEPT ![c] = served[op[c].name]]
        /\ UNCHANGED <<op, res, index, todo>>
     \/ Return(c, "error")
  /\ UNCHANGED <<repo, serverVars>>

\* infer; the model may refuse the inputs.
Infer(c) ==
  /\ pc[c] = "infer"
  /\ \/ state[op[c].name] = "READY" /\ Return(c, "ok")
     \/ Return(c, "error")
  /\ UNCHANGED <<repo, serverVars>>

(***************************************************************************)
(* The rest of delete_deployment.                                          *)
(***************************************************************************)
\* Faulty variant: the files go, the model stays loaded.
CallUnloadForgotten(c) ==
  /\ pc[c] = "unload"
  /\ Goto(c, "scan")
  /\ UNCHANGED <<repo, serverVars, op, res, index, found, todo>>

CallUnload(c) ==
  /\ pc[c] = "unload"
  /\ AcceptUnload(op[c].name)
  /\ Goto(c, "scan")
  /\ UNCHANGED <<repo, op, res, index, found, todo>>

\* Faulty variants: all keys of the repository; only the version directories.
DoomedAll(n)      == UNION {Entries(m, Present(m)) : m \in Names}
DoomedVersions(n) == Entries(n, Versions \cap Present(n))

\* What _delete_deployment_files finds: on S3 every key that starts with the
\* name, locally the top-level files that match model*.
Doomed(n) ==
  IF Backend = "s3" THEN UNION {Entries(m, Present(m)) : m \in Covered[n]}
                    ELSE Entries(n, GlobModel \cap Present(n))

\* S3 lists keys in order of their characters: digits, then config.pbtxt, then
\* mlflow-meta.json.
ListedBefore(d, e) ==
  d[1] = e[1] /\ d[2] \in Versions \cup {ConfigFile} /\ e[2] = MetaFile

\* What a listing of the entries D returns: on S3 the first ListLimit, and the plugin
\* does not ask for the rest.
Page(D) ==
  IF Backend = "local" \/ Cardinality(D) <= ListLimit THEN {D}
  ELSE {E \in SUBSET D :
          /\ Cardinality(E) = ListLimit
          /\ \A d \in D, e \in E : ListedBefore(d, e) => d \in E}

Scan(c) ==
  LET n == op[c].name IN
  /\ pc[c] = "scan"
  /\ IF \/ Backend = "s3" /\ Doomed(n) = {}
        \/ Backend = "local" /\ ~DirExists(n)
     THEN Return(c, "error")
     ELSE /\ Goto(c, "purge")
          /\ \E E \in Page(Doomed(n)) : todo' = [todo EXCEPT ![c] = E]
          /\ UNCHANGED <<op, res, index, found>>
  /\ UNCHANGED <<repo, serverVars>>

\* The keys go in the order of the listing.  Only a local remove raises when the
\* entry is already gone.
PurgeEntry(c) ==
  /\ pc[c] = "purge"
  /\ \E e \in todo[c] :
       /\ \A d \in todo[c] : ~ListedBefore(d, e)
       /\ IF Backend = "local" /\ repo[e[1]][e[2]] = None
          THEN Return(c, "error") /\ UNCHANGED repo
          ELSE /\ Put(e[1], e[2], None)
               /\ todo' = [todo EXCEPT ![c] = @ \ {e}]
               /\ UNCHANGED <<pc, op, res, index, found>>
  /\ UNCHANGED serverVars

\* _delete_mlflow_meta: the local file goes.  On S3 the key it is given is the
\* whole s3:// path, which names no object.
EndPurge(c) ==
  /\ pc[c] = "purge"
  /\ todo[c] = {}
  /\ IF Backend = "local" THEN Put(op[c].name, MetaFile, None) ELSE UNCHANGED repo
  /\ Return(c, "ok")
  /\ UNCHANGED serverVars

(***************************************************************************)
(* A call may end at any step: an exception of a library, a timeout of the *)
(* HTTP client (the server goes on with the request), a killed process.    *)
(***************************************************************************)
Fail(c) ==
  /\ MayFail
  /\ pc[c] # "idle"
  /\ Return(c, "error")
  /\ loads' = {IF l.caller = c THEN [l EXCEPT !.caller = None] ELSE l : l \in loads}
  /\ UNCHANGED <<repo, state, served>>

\* What a client does on its own once a call is under way.
ClientStep(c) ==
  \/ ReadIndex(c) \/ ReadMeta(c) \/ MetaRaises(c)
  \/ ListReturns(c) \/ GetReturns(c)
  \/ CheckCreate(c) \/ CheckDelete(c) \/ CheckUpdate(c)
  \/ Stage(c) \/ ClearEntry(c) \/ EndClear(c) \/ CopyEntry(c) \/ EndCopy(c)
  \/ WriteMeta(c) \/ FlushMeta(c) \/ CallLoad(c) \/ ConnectionLost(c)
  \/ Describe(c) \/ Infer(c)
  \/ CallUnload(c) \/ Scan(c) \/ PurgeEntry(c) \/ EndPurge(c)

ReadStep(n)   == ServerReads(n) /\ UNCHANGED <<repo, clientVars>>
UnloadStep(n) == FinishUnload(n) /\ UNCHANGED <<repo, clientVars>>
EndStep(n)    == \E l \in loads : l.name = n /\ LoadEnds(l)
RestartStep   == MayRestart /\ Restart /\ UNCHANGED <<repo, clientVars>>

Next ==
  \/ \E c \in Clients : Invoke(c) \/ RejectArguments(c) \/ ClientStep(c) \/ Fail(c)
  \/ \E n \in Names : ReadStep(n) \/ EndStep(n) \/ UnloadStep(n)
  \/ RestartStep

Spec == Init /\ [][Next]_vars

\* A running call goes on, and the server gets every load and unload done.
Fairness ==
  /\ \A c \in Clients : WF_vars(ClientStep(c))
  /\ \A n \in Names : WF_vars(EndStep(n)) /\ WF_vars(UnloadStep(n))

FairSpec == Spec /\ Fairness

(***************************************************************************)
(* Properties.                                                             *)
(***************************************************************************)
\* Every method but predict reads the metadata of all READY models first: no READY
\* model may be such that reading it raises, else no call can succeed any more.
Listable == \A n \in ReadyNames : MetaReads(n)

\* list_deployments lists what there is: it does not raise.
ListNeverRaises ==
  \A c \in Clients : op[c].kind = "list" => res[c] # "error"

Succeeded(c, K) == pc[c] = "idle" /\ res[c] = "ok" /\ op[c].kind \in K

\* After a create or update that reported success, until the client's next call,
\* Triton serves the artifact that was asked for and the metadata names it.  Only a
\* restart of the server takes the model away, and leaves the metadata.
OkServesRequested ==
  \A c \in Clients : Succeeded(c, {"create", "update"}) =>
    LET n == op[c].name IN
    /\ IF state[n] = "READY" THEN served[n] = op[c].uri ELSE MayRestart
    /\ repo[n][MetaFile] = op[c].uri

\* After a successful create or update of a triton artifact in a local repository the
\* directory of the model holds that artifact with its metadata and nothing of what
\* was there before, left by whatever calls, and Triton serves it (or was restarted).
RepositoryIsArtifact ==
  \A c \in Clients :
    Succeeded(c, {"create", "update"}) /\ Flavor[op[c].uri] = "triton" =>
      LET n == op[c].name IN
      /\ repo[n] = Image(op[c].uri)
      /\ IF state[n] = "READY" THEN served[n] = op[c].uri ELSE MayRestart

\* After a successful create or update of an onnx artifact the repository holds its
\* configuration: the artifact's own, or the minimal one that the plugin writes for it,
\* and never one that an earlier artifact left there.
MinimalConfigProvided ==
  \A c \in Clients :
    Succeeded(c, {"create", "update"}) /\ Flavor[op[c].uri] = "onnx"
      => repo[op[c].name][ConfigFile] = op[c].uri

\* After a successful delete the model is gone from the server's READY models and
\* nothing of it is left in the repository.
DeleteRemovesModel ==
  \A c \in Clients : Succeeded(c, {"delete"}) =>
    /\ state[op[c].name] # "READY"
    /\ Present(op[c].name) = {}

\* A client that asks for the details of a model it manages itself is told the
\* artifact in the metadata of a model that is READY.
GetReportsDeployed ==
  \A c \in Clients :
    Succeeded(c, {"get"}) /\ op[c].name \in ClientNames[c] =>
      /\ state[op[c].name] = "READY"
      /\ found[c] = repo[op[c].name][MetaFile]

\* The datatypes a client was told for a model it manages itself are those of the
\* artifact that answered its predict: no load of its own is still under way.
PredictUsesServedTypes ==
  \A c \in Clients :
    Succeeded(c, {"predict"}) /\ op[c].name \in ClientNames[c] =>
      found[c] \in {None, served[op[c].name]}

\* A step changes the directory of a model only in a call about that model.
NoForeignEdit ==
  [][\A n \in Names : repo'[n] # repo[n] =>
       \E c \in Clients : op[c].name = n /\ pc[c] # "idle"]_vars

\* A create does not touch the files of a model that Triton serves.
CreateSparesLiveModel ==
  [][\A c \in Clients : LET n == op[c].name IN
       op[c].kind = "create" /\ pc[c] # "idle" /\ state[n] = "READY"
         => repo'[n] = repo[n]]_vars

\* The ways through the methods, one after the other: each goes from left to right.
Route == <<"describe", "infer", "index", "list", "reindex", "relist", "unload", "scan",
           "purge", "download", "clear", "copy", "meta", "flush", "load", "await", "idle">>

\* l comes before m on the way.
Before(l, m) == \E i, j \in DOMAIN Route : i < j /\ Route[i] = l /\ Route[j] = m

\* A request of a call's own brings it to a later place, or at its place leaves fewer names
\* to look at or fewer entries to move: no method looks or tries again without end.
\* Nobody else sends it back.
CallsMoveOn ==
  [][\A c \in Clients : pc[c] # "idle" =>
       \/ Before(pc[c], pc'[c])
       \/ /\ pc'[c] = pc[c] /\ index'[c] \subseteq index[c] /\ todo'[c] \subseteq todo[c]
          /\ ClientStep(c) => index'[c] # index[c] \/ todo'[c] # todo[c]]_vars

\* Every call returns.
EveryCallReturns ==
  \A c \in Clients : pc[c] # "idle" ~> pc[c] = "idle"
=============================================================================
