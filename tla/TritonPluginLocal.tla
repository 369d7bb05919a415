------------------------- MODULE TritonPluginLocal -------------------------
(***************************************************************************)
(* Theorems about a local repository: what a create or update that reports *)
(* success leaves in the directory of the model.  Clients manage names of  *)
(* their own; calls may end anywhere, the server may be restarted, and the *)
(* directory may hold anything before.                                     *)
(***************************************************************************)
EXTENDS TritonPluginAnswers

LocalOwners == Backend = "local" /\ DisjointOwners

Deploys(c) == op[c].kind \in {"create", "update"}
Deployed(c) == Succeeded(c, {"create", "update"})

\* An onnx artifact: its configuration, or the one made for it, is there or still to be
\* copied.
ConfigHolds(c) ==
  Deploys(c) /\ Flavor[op[c].uri] = "onnx" =>
    LET n == op[c].name IN
    /\ pc[c] # "clear"
    /\ pc[c] = "copy" => <<n, ConfigFile>> \in todo[c] \/ repo[n][ConfigFile] = op[c].uri
    /\ pc[c] \in {"meta", "flush", "load", "await"} \/ Deployed(c)
         => repo[n][ConfigFile] = op[c].uri

\* A triton artifact: the directory holds what has been copied of it and nothing else,
\* and then its whole image; the load reads that.
ArtifactHolds(c) ==
  Deploys(c) /\ Flavor[op[c].uri] = "triton" =>
    LET n == op[c].name
        u == op[c].uri
    IN
    /\ pc[c] = "copy" =>
         /\ todo[c] \subseteq {n} \X CopySlots(u)
         /\ \A k \in Keys : repo[n][k] =
              IF k \in CopySlots(u) /\ <<n, k>> \notin todo[c] THEN u ELSE None
    /\ pc[c] \in {"meta", "flush"} => \A k \in Keys \ {MetaFile} : repo[n][k] = Image(u)[k]
    /\ pc[c] = "flush" => repo[n][MetaFile] = Torn
    /\ pc[c] \in {"load", "await"} \/ Deployed(c) => repo[n] = Image(u)
    /\ pc[c] = "await" => \A l \in loads : l.name = n => l.model \in {None, u, EmptyDir}
    /\ Deployed(c) => /\ n \notin LoadingNames
                      /\ IF state[n] = "READY" THEN served[n] = u ELSE MayRestart

LocalInv ==
  /\ TodoInv /\ CallerInv /\ Owned
  /\ \A c \in Clients : ConfigHolds(c) /\ ArtifactHolds(c)

\* The steps of others leave the model of a create or update as it is.
LEMMA OthersLeaveOwn ==
  ASSUME DisjointOwners, LocalInv, NEW c \in Clients, NEW d \in Clients \ {c},
         Invoke(c) \/ RejectArguments(c) \/ ClientStep(c) \/ Fail(c),
         op[d].kind \in {"create", "update"}
  PROVE  LET n == op[d].name IN
         /\ repo'[n] = repo[n] /\ state'[n] = state[n]
         /\ n \in LoadingNames' => n \in LoadingNames
         /\ \A l \in loads' : l.name = n => \E k \in loads : k.name = n /\ k.model = l.model
<1> DEFINE n == op[d].name
<1>1. n \in Names /\ ServerTypeOK /\ ArgsOK /\ TypeOK /\ PluginTypeOK
  BY DEF LocalInv, CallerInv, TypeOK, ArgsOK
<1>2. op[c].kind \in {"create", "update", "delete"} => op[c].name # n
  BY <1>1, OwnWork DEF LocalInv, Owned
<1>3. repo'[n] = repo[n]
  BY <1>1, <1>2, EditKinds DEF LocalInv
<1>4. state'[n] = state[n]
  BY <1>1, <1>2, ServerRests DEF CallUnload, AcceptUnload, ServerTypeOK, ArgsOK
<1>5. \A l \in loads' : l.name = n => \E k \in loads : k.name = n /\ k.model = l.model
  <2>1. CASE CallLoad(c)
    <3>1. PICK l : l = [name |-> op[c].name, model |-> None, caller |-> c]
      OBVIOUS
    <3>2. loads' = loads \cup {l} /\ l.name = op[c].name /\ op[c].name # n
      BY <1>1, <1>2, <2>1, <3>1 DEF CallLoad, AcceptLoad, ArgsOK
    <3> QED
      BY <3>2
  <2>2. CASE Fail(c)
    <3> DEFINE Dropped(k) == IF k.caller = c THEN [k EXCEPT !.caller = None] ELSE k
    <3>1. loads' = {Dropped(k) : k \in loads}
      BY <2>2 DEF Fail
    <3>2. \A k \in loads : Dropped(k).name = k.name /\ Dropped(k).model = k.model
      BY <1>1 DEF ServerTypeOK, Loads
    <3> HIDE DEF Dropped
    <3> QED
      BY <3>1, <3>2
  <2> QED
    BY <2>1, <2>2, ServerRests
<1>6. n \in LoadingNames' => n \in LoadingNames
  BY <1>5 DEF LoadingNames
<1> QED
  BY <1>3, <1>4, <1>5, <1>6

LEMMA LocalOthers ==
  ASSUME LocalOwners, LocalInv, NEW c \in Clients, NEW d \in Clients \ {c},
         Invoke(c) \/ RejectArguments(c) \/ ClientStep(c) \/ Fail(c)
  PROVE  ConfigHolds(d)' /\ ArtifactHolds(d)'
<1>1. /\ pc'[d] = pc[d] /\ op'[d] = op[d] /\ res'[d] = res[d] /\ todo'[d] = todo[d]
      /\ served' = served
  BY OthersRest, ServerRests DEF LocalInv, CallerInv
<1>2. CASE Deploys(d)
  <2> DEFINE n == op[d].name
  <2>1. /\ repo'[n] = repo[n] /\ state'[n] = state[n]
        /\ n \in LoadingNames' => n \in LoadingNames
        /\ \A l \in loads' : l.name = n => \E k \in loads : k.name = n /\ k.model = l.model
    BY <1>2, OthersLeaveOwn DEF LocalOwners, Deploys
  <2>2. ConfigHolds(d)'
    BY <1>1, <2>1 DEF LocalInv, ConfigHolds, Deploys, Deployed, Succeeded
  <2>3. ArtifactHolds(d)'
    BY <1>1, <2>1 DEF LocalInv, ArtifactHolds, Deploys, Deployed, Succeeded
  <2> QED
    BY <2>2, <2>3
<1> QED
  BY <1>1, <1>2 DEF ConfigHolds, ArtifactHolds, Deploys

\* The copies of a create or update itself.
LEMMA LocalCopies ==
  ASSUME LocalOwners, LocalInv, NEW c \in Clients,
         Stage(c) \/ ClearEntry(c) \/ EndClear(c) \/ CopyEntry(c) \/ EndCopy(c)
  PROVE  ConfigHolds(c)' /\ ArtifactHolds(c)'
<1>1. PluginTypeOK /\ RepoTypeOK /\ ArgsOK /\ TodoInv
  BY DEF LocalInv, CallerInv, TypeOK
<1> DEFINE n == op[c].name
           u == op[c].uri
<1>2. /\ op' = op /\ op[c].kind \in {"create", "update"} /\ n \in Names /\ u \in Uris
      /\ pc[c] \in {"download", "clear", "copy"}
  BY <1>1 DEF Stage, ClearEntry, EndClear, CopyEntry, EndCopy, Return, ArgsOK
<1>3. /\ CopySlots(u) \subseteq Keys /\ ConfigFile \in Keys /\ FirstVersion \in Keys
      /\ MetaFile \in Keys /\ MetaFile \notin CopySlots(u)
      /\ MetaFile # ConfigFile /\ MetaFile # FirstVersion /\ u # None /\ EmptyDir # None
  BY <1>2, KeyFacts, ValueFacts DEF EmptyDir, None
<1>4. Flavor[u] \in {"triton", "onnx"}
  BY <1>2, ArtifactAssumption
<1>5. CASE Stage(c)
  <2>1. CASE Flavor[u] = "onnx"
    <3>1. pc'[c] = "copy" /\ todo'[c] = Entries(n, CopySlots(u))
      BY <1>1, <1>5, <2>1 DEF Stage, Goto, PluginTypeOK
    <3>2. CASE NeedsConfig(u)
      <4>1. repo'[n][ConfigFile] = u
        BY <1>1, <1>2, <1>3, <1>5, <3>2 DEF Stage, LocalOwners, Put, RepoTypeOK
      <4> QED
        BY <1>2, <1>3, <2>1, <3>1, <4>1 DEF ConfigHolds, ArtifactHolds, Deployed, Succeeded
    <3>3. CASE ~NeedsConfig(u)
      <4>1. ConfigFile \in CopySlots(u)
        BY <2>1, <3>3, EntryAssumption DEF NeedsConfig, CopySlots
      <4> QED
        BY <1>2, <2>1, <3>1, <4>1 DEF ConfigHolds, ArtifactHolds, Deployed, Succeeded, Entries
    <3> QED
      BY <3>2, <3>3
  <2>2. CASE Flavor[u] = "triton" /\ DirExists(n)
    <3>1. pc'[c] = "clear"
      BY <1>1, <1>5, <2>2 DEF Stage, LocalOwners, Goto, PluginTypeOK
    <3> QED
      BY <1>2, <2>2, <3>1 DEF ConfigHolds, ArtifactHolds, Deployed, Succeeded
  <2>3. CASE Flavor[u] = "triton" /\ ~DirExists(n)
    <3>1. pc'[c] = "copy" /\ todo'[c] = Entries(n, CopySlots(u)) /\ repo' = repo
      BY <1>1, <1>5, <2>3 DEF Stage, Goto, NeedsConfig, PluginTypeOK
    <3>2. \A k \in Keys : repo[n][k] = None
      BY <2>3 DEF DirExists, Present
    <3> QED
      BY <1>2, <2>3, <3>1, <3>2 DEF ConfigHolds, ArtifactHolds, Deployed, Succeeded, Entries
  <2> QED
    BY <1>4, <2>1, <2>2, <2>3
<1>6. CASE ClearEntry(c)
  <2>1. pc[c] = "clear" /\ Flavor[u] = "triton"
    BY <1>2, <1>4, <1>6 DEF ClearEntry, LocalInv, ConfigHolds, Deploys
  <2>2. pc'[c] = "clear" \/ (pc'[c] = "idle" /\ res'[c] = "error")
    BY <1>1, <1>6, <2>1 DEF ClearEntry, Return, Goto, PluginTypeOK
  <2> QED
    BY <1>2, <2>1, <2>2 DEF ConfigHolds, ArtifactHolds, Deployed, Succeeded
<1>7. CASE EndClear(c)
  <2>1. pc[c] = "clear" /\ Flavor[u] = "triton" /\ repo' = repo
    BY <1>2, <1>4, <1>7 DEF EndClear, LocalInv, ConfigHolds, Deploys
  <2>2. \/ pc'[c] = "idle" /\ res'[c] = "error"
        \/ pc'[c] = "copy" /\ todo'[c] = Entries(n, CopySlots(u)) /\ ~DirExists(n)
    BY <1>1, <1>7, <2>1 DEF EndClear, Return, Goto, PluginTypeOK
  <2>3. ~DirExists(n) => \A k \in Keys : repo[n][k] = None
    BY DEF DirExists, Present
  <2> QED
    BY <1>2, <2>1, <2>2, <2>3 DEF ConfigHolds, ArtifactHolds, Deployed, Succeeded, Entries
<1>8. CASE CopyEntry(c)
  <2>1. PICK e \in todo[c] : /\ repo' = [repo EXCEPT ![e[1]][e[2]] = u]
                            /\ todo' = [todo EXCEPT ![c] = @ \ {e}]
    BY <1>8 DEF CopyEntry, Put
  <2>2. pc' = pc /\ pc[c] = "copy" /\ todo'[c] = todo[c] \ {e}
    BY <1>1, <1>8, <2>1 DEF CopyEntry, PluginTypeOK
  <2>3. e = <<n, e[2]>> /\ e[2] \in Keys
    BY <1>1, <2>2 DEF TodoInv, OwnTodo
  <2>4. \A k \in Keys : repo'[n][k] = IF k = e[2] THEN u ELSE repo[n][k]
    BY <1>1, <1>2, <2>1, <2>3 DEF RepoTypeOK
  <2>5. \A k : <<n, k>> \in todo'[c] <=> <<n, k>> \in todo[c] /\ k # e[2]
    BY <2>2, <2>3
  <2>6. CASE Flavor[u] = "onnx"
    <3>1. <<n, ConfigFile>> \in todo'[c] \/ repo'[n][ConfigFile] = u
      BY <1>2, <1>3, <2>2, <2>4, <2>5, <2>6 DEF LocalInv, ConfigHolds, Deploys
    <3> QED
      BY <1>2, <2>2, <2>6, <3>1 DEF ConfigHolds, ArtifactHolds, Deployed, Succeeded
  <2>7. CASE Flavor[u] = "triton"
    <3>1. /\ todo[c] \subseteq {n} \X CopySlots(u)
          /\ \A k \in Keys : repo[n][k] =
               IF k \in CopySlots(u) /\ <<n, k>> \notin todo[c] THEN u ELSE None
      BY <1>2, <2>2, <2>7 DEF LocalInv, ArtifactHolds, Deploys
    <3>2. e[2] \in CopySlots(u)
      BY <2>3, <3>1
    <3>3. \A k \in Keys : repo'[n][k] =
            IF k \in CopySlots(u) /\ <<n, k>> \notin todo'[c] THEN u ELSE None
      BY <2>4, <2>5, <3>1, <3>2
    <3> QED
      BY <1>2, <2>2, <2>7, <3>1, <3>3 DEF ConfigHolds, ArtifactHolds, Deployed, Succeeded
  <2> QED
    BY <1>4, <2>6, <2>7
<1>9. CASE EndCopy(c)
  <2>1. pc[c] = "copy" /\ todo[c] = {} /\ pc'[c] = "meta"
    BY <1>1, <1>9 DEF EndCopy, Goto, PluginTypeOK
  <2>2. \A k \in Keys : repo'[n][k] =
          IF k = FirstVersion /\ repo[n][k] = None THEN EmptyDir ELSE repo[n][k]
    BY <1>1, <1>2, <1>3, <1>9 DEF EndCopy, LocalOwners, Put, RepoTypeOK
  <2>3. CASE Flavor[u] = "onnx"
    <3>1. repo'[n][ConfigFile] = u
      BY <1>2, <1>3, <2>1, <2>2, <2>3 DEF LocalInv, ConfigHolds, Deploys
    <3> QED
      BY <1>2, <2>1, <2>3, <3>1 DEF ConfigHolds, ArtifactHolds, Deployed, Succeeded
  <2>4. CASE Flavor[u] = "triton"
    <3>1. \A k \in Keys : repo[n][k] = IF k \in CopySlots(u) THEN u ELSE None
      BY <1>2, <2>1, <2>4 DEF LocalInv, ArtifactHolds, Deploys
    <3>2. \A k \in Keys \ {MetaFile} : repo'[n][k] = Image(u)[k]
      BY <1>3, <2>2, <2>4, <3>1 DEF Image, NeedsConfig, LocalOwners
    <3> QED
      BY <1>2, <2>1, <2>4, <3>2 DEF ConfigHolds, ArtifactHolds, Deployed, Succeeded
  <2> QED
    BY <1>4, <2>3, <2>4
<1> QED
  BY <1>5, <1>6, <1>7, <1>8, <1>9

\* The metadata, the request to load, and every other step of the client.
LEMMA LocalOwn ==
  ASSUME LocalOwners, LocalInv, NEW c \in Clients,
         Invoke(c) \/ RejectArguments(c) \/ ClientStep(c) \/ Fail(c)
  PROVE  ConfigHolds(c)' /\ ArtifactHolds(c)'
<1>1. PluginTypeOK /\ RepoTypeOK /\ ArgsOK
  BY DEF LocalInv, CallerInv, TypeOK
<1> DEFINE n == op[c].name
           u == op[c].uri
<1>2. CASE WriteMeta(c)
  <2>1. /\ op' = op /\ pc[c] = "meta" /\ pc'[c] = "flush" /\ Deploys(c) /\ n \in Names
        /\ repo' = [repo EXCEPT ![n][MetaFile] = Torn]
    BY <1>1, <1>2, BackendAssumption DEF WriteMeta, LocalOwners, Goto, Put, PluginTypeOK, ArgsOK,
       Deploys
  <2>2. \A k \in Keys : repo'[n][k] = IF k = MetaFile THEN Torn ELSE repo[n][k]
    BY <1>1, <2>1 DEF RepoTypeOK
  <2>3. ConfigHolds(c)'
    BY <2>1, <2>2, KeyFacts DEF LocalInv, ConfigHolds, Deploys, Deployed, Succeeded
  <2>4. ArtifactHolds(c)'
    BY <2>1, <2>2, KeyFacts DEF LocalInv, ArtifactHolds, Deploys, Deployed, Succeeded
  <2> QED
    BY <2>3, <2>4
<1>3. CASE FlushMeta(c)
  <2>1. /\ op' = op /\ pc[c] = "flush" /\ pc'[c] = "load" /\ Deploys(c) /\ n \in Names
        /\ u \in Uris
        /\ repo' = [repo EXCEPT ![n][MetaFile] = IF @ = None THEN None ELSE u]
    BY <1>1, <1>3 DEF FlushMeta, Goto, Put, PluginTypeOK, RepoTypeOK, ArgsOK, Deploys
  <2>2. \A k \in Keys : repo'[n][k] = IF k # MetaFile THEN repo[n][k]
                                      ELSE IF repo[n][k] = None THEN None ELSE u
    BY <1>1, <2>1 DEF RepoTypeOK
  <2>3. ConfigHolds(c)'
    BY <2>1, <2>2, KeyFacts DEF LocalInv, ConfigHolds, Deploys, Deployed, Succeeded
  <2>4. CASE Flavor[u] = "triton"
    <3>1. /\ \A k \in Keys \ {MetaFile} : repo[n][k] = Image(u)[k]
          /\ repo[n][MetaFile] = Torn /\ Torn # None
      BY <2>1, <2>4 DEF LocalInv, ArtifactHolds, Deploys, Torn, None
    <3>2. Image(u)[MetaFile] = u
      BY KeyFacts DEF Image
    <3>3. \A k \in Keys : repo'[n][k] = Image(u)[k]
      BY <2>2, <3>1, <3>2, KeyFacts
    <3>4. repo[n] \in [Keys -> Contents]
      BY <1>1, <2>1 DEF RepoTypeOK
    <3>5. repo'[n] = [repo[n] EXCEPT ![MetaFile] = IF @ = None THEN None ELSE u]
      BY <1>1, <2>1 DEF RepoTypeOK
    <3>6. repo'[n] = Image(u)
      <4> DEFINE f == repo[n]
                 g == repo'[n]
      <4>1. g = [k \in Keys |-> g[k]]
        BY <3>4, <3>5
      <4>2. Image(u) = [k \in Keys |-> Image(u)[k]]
        BY DEF Image
      <4>3. [k \in Keys |-> g[k]] = [k \in Keys |-> Image(u)[k]]
        BY <3>3
      <4> QED
        BY <4>1, <4>2, <4>3
    <3> QED
      BY <2>1, <2>3, <3>6 DEF ArtifactHolds, Deployed, Succeeded
  <2>5. CASE Flavor[u] # "triton"
    BY <2>1, <2>3, <2>5 DEF ArtifactHolds
  <2> QED
    BY <2>3, <2>4, <2>5
<1>4. CASE CallLoad(c)
  <2>1. PICK l : l = [name |-> n, model |-> None, caller |-> c]
    OBVIOUS
  <2>2. /\ op' = op /\ repo' = repo /\ pc[c] = "load" /\ pc'[c] = "await" /\ Deploys(c)
        /\ loads' = loads \cup {l} /\ l.model = None /\ n \notin LoadingNames
    BY <1>1, <1>4, <2>1 DEF CallLoad, AcceptLoad, Goto, PluginTypeOK, ArgsOK, Deploys
  <2>3. \A m \in loads' : m.name = n => m.model = None
    BY <2>2 DEF LoadingNames
  <2>4. ConfigHolds(c)'
    BY <2>2 DEF LocalInv, ConfigHolds, Deploys, Deployed, Succeeded
  <2>5. ArtifactHolds(c)'
    BY <2>2, <2>3 DEF LocalInv, ArtifactHolds, Deploys, Deployed, Succeeded
  <2> QED
    BY <2>4, <2>5
<1>5. CASE Stage(c) \/ ClearEntry(c) \/ EndClear(c) \/ CopyEntry(c) \/ EndCopy(c)
  BY <1>5, LocalCopies
<1>6. CASE ~(\/ WriteMeta(c) \/ FlushMeta(c) \/ CallLoad(c) \/ Stage(c) \/ ClearEntry(c)
             \/ EndClear(c) \/ CopyEntry(c) \/ EndCopy(c))
  <2>1. \/ op'[c].kind \notin {"create", "update"}
        \/ /\ pc'[c] \notin {"clear", "copy", "meta", "flush", "load", "await"}
           /\ pc'[c] # "idle" \/ res'[c] # "ok"
    BY <1>1, <1>6 DEF Invoke, RejectArguments, ClientStep, Fail, ReadIndex, ReadMeta,
       MetaRaises, ListReturns, GetReturns, CheckCreate, CheckDelete, CheckUpdate,
       FirstSteps, ConnectionLost, Describe, Infer, CallUnload, Scan, PurgeEntry, EndPurge,
       Listing, Listed, Goto, Return, Proceed, PluginTypeOK, ArgsOK
  <2> QED
    BY <2>1 DEF ConfigHolds, ArtifactHolds, Deploys, Deployed, Succeeded
<1> QED
  BY <1>2, <1>3, <1>4, <1>5, <1>6

\* What a load reads of the image of an artifact.
LEMMA ImageVersions ==
  ASSUME NEW n \in Names, NEW u \in Uris, Flavor[u] = "triton", repo[n] = Image(u),
         NEW m \in NewestContent(n)
  PROVE  m \in {u, EmptyDir}
<1>1. PICK v \in Versions : repo[n][v] # None /\ m = repo[n][v]
  BY DEF NewestContent, Present
<1>2. v \in Keys /\ v # ConfigFile /\ v # MetaFile
  BY EntryAssumption DEF Keys, Slots
<1> QED
  BY <1>1, <1>2 DEF Image

\* The server's steps, and its restart.
LEMMA LocalServer ==
  ASSUME LocalOwners, LocalInv, NEW x \in Names, ReadStep(x) \/ EndStep(x) \/ UnloadStep(x),
         NEW d \in Clients
  PROVE  ConfigHolds(d)' /\ ArtifactHolds(d)'
<1>1. ServerTypeOK /\ ArgsOK /\ PluginTypeOK /\ CallerInv
  BY DEF LocalInv, CallerInv, TypeOK
<1> DEFINE n == op[d].name
           u == op[d].uri
<1>2. CASE ReadStep(x)
  <2>1. PICK l \in loads, m \in NewestContent(x) :
          l.name = x /\ loads' = (loads \ {l}) \cup {[l EXCEPT !.model = m]}
    BY <1>2 DEF ReadStep, ServerReads
  <2>2. PICK k : k = [l EXCEPT !.model = m]
    OBVIOUS
  <2>3. k.name = x /\ k.model = m /\ loads' = (loads \ {l}) \cup {k}
    BY <1>1, <2>1, <2>2 DEF ServerTypeOK, Loads
  <2>4. UNCHANGED <<repo, state, served, clientVars>>
    BY <1>2 DEF ReadStep, ServerReads
  <2>5. LoadingNames' = LoadingNames
    BY <2>1, <2>3 DEF LoadingNames
  <2>6. ConfigHolds(d)'
    BY <2>4 DEF LocalInv, ConfigHolds, Deploys, Deployed, Succeeded, clientVars
  <2>7. CASE Deploys(d) /\ Flavor[u] = "triton"
    <3>1. n \in Names /\ u \in Uris
      BY <1>1, <2>7 DEF ArgsOK, Deploys
    <3>2. pc[d] = "await" => repo[n] = Image(u)
      BY <2>7 DEF LocalInv, ArtifactHolds
    <3>3. pc[d] = "await" /\ x = n => m \in {u, EmptyDir}
      BY <2>7, <3>1, <3>2, ImageVersions
    <3>4. pc[d] = "await" => \A j \in loads' : j.name = n => j.model \in {None, u, EmptyDir}
      BY <2>3, <2>7, <3>3 DEF LocalInv, ArtifactHolds
    <3> QED
      BY <2>4, <2>5, <2>6, <2>7, <3>4 DEF LocalInv, ArtifactHolds, Deploys, Deployed, Succeeded,
         clientVars
  <2> QED
    BY <2>4, <2>6, <2>7 DEF ArtifactHolds, Deploys, clientVars
<1>3. CASE UnloadStep(x)
  <2>1. /\ UNCHANGED <<repo, loads, clientVars>> /\ LoadingNames' = LoadingNames
        /\ state[x] = "UNLOADING"
        /\ state' = [state EXCEPT ![x] = "UNAVAILABLE"]
        /\ served' = [served EXCEPT ![x] = None]
    BY <1>3 DEF UnloadStep, FinishUnload, LoadingNames
  <2>2. Deploys(d) => n \in Names
    BY <1>1 DEF ArgsOK, Deploys
  <2>3. \A y \in Names : \/ state'[y] = state[y] /\ served'[y] = served[y]
                         \/ state[y] # "READY" /\ state'[y] # "READY"
    BY <1>1, <2>1 DEF ServerTypeOK
  <2>4. ConfigHolds(d)'
    BY <2>1 DEF LocalInv, ConfigHolds, Deploys, Deployed, Succeeded, clientVars
  <2>5. ArtifactHolds(d)'
    BY <2>1, <2>2, <2>3 DEF LocalInv, ArtifactHolds, Deploys, Deployed, Succeeded, clientVars
  <2> QED
    BY <2>4, <2>5
<1>4. CASE EndStep(x)
  <2>1. PICK l \in loads : LoadEnds(l)
    BY <1>4 DEF EndStep
  <2>2. loads' = loads \ {l} /\ UNCHANGED <<repo, op>>
    BY <1>1, <2>1, AnswerEnds
  <2>3. CASE d = l.caller
    <3>1. pc[d] = "await" /\ pc'[d] = "idle" /\ l.name = n /\ Deploys(d)
      BY <1>1, <2>1, <2>3, AnswerEnds, ValueFacts DEF CallerInv, Callers, Deploys
    <3>2. ConfigHolds(d)'
      BY <2>2, <3>1 DEF LocalInv, ConfigHolds, Deploys
    <3>3. n \in Names /\ n \notin LoadingNames'
      BY <1>1, <2>2, <3>1 DEF LoadingNames, CallerInv, OneLoad, ArgsOK, Deploys
    <3>4. CASE Flavor[u] = "triton"
      <4>1. repo'[n] = Image(u) /\ l.model \in {None, u, EmptyDir}
        BY <2>2, <3>1, <3>4 DEF LocalInv, ArtifactHolds
      <4>2. CASE LoadSucceeds(l)
        <5>1. l.model \in Uris \cup {Foreign} /\ Foreign # None /\ Foreign # EmptyDir
          BY <4>2 DEF LoadSucceeds, Foreign, None, EmptyDir
        <5>2. l.model = u
          BY <4>1, <5>1, ValueFacts
        <5>3. state'[n] = "READY" /\ served'[n] = u
          BY <1>1, <3>1, <3>3, <4>2, <5>2 DEF LoadSucceeds, ServerTypeOK
        <5> QED
          BY <2>2, <3>1, <3>2, <3>3, <4>1, <5>3 DEF ArtifactHolds, Deployed, Succeeded
      <4>3. CASE ~LoadSucceeds(l)
        <5>1. Return(d, "error")
          BY <1>1, <2>1, <2>3, <4>3, ValueFacts DEF LoadEnds, Answer
        <5>2. res'[d] = "error"
          BY <1>1, <5>1 DEF Return, PluginTypeOK
        <5> QED
          BY <3>1, <3>2, <5>2 DEF ArtifactHolds, Deployed, Succeeded
      <4> QED
        BY <4>2, <4>3
    <3> QED
      BY <2>2, <3>2, <3>4 DEF ArtifactHolds
  <2>4. CASE d # l.caller
    <3>1. pc'[d] = pc[d] /\ res'[d] = res[d] /\ todo'[d] = todo[d]
      BY <1>1, <2>1, <2>4, AnswerEnds
    <3>2. LoadingNames' \subseteq LoadingNames /\ l.name \in LoadingNames
      BY <2>2 DEF LoadingNames
    <3>3. Deploys(d) /\ l.name # n => state'[n] = state[n] /\ served'[n] = served[n]
      BY <1>1, <2>1, <2>2 DEF LoadEnds, LoadSucceeds, LoadFails, ServerTypeOK, ArgsOK, Deploys
    <3>4. ConfigHolds(d)'
      BY <2>2, <3>1 DEF LocalInv, ConfigHolds, Deploys, Deployed, Succeeded
    <3>5. ArtifactHolds(d)'
      BY <2>2, <3>1, <3>2, <3>3 DEF LocalInv, ArtifactHolds, Deploys, Deployed, Succeeded
    <3> QED
      BY <3>4, <3>5
  <2> QED
    BY <2>3, <2>4
<1> QED
  BY <1>2, <1>3, <1>4

LEMMA InitLocalInv == Init => LocalInv
<1>1. Init => OwnTodo /\ Owned
  BY DEF Init, OwnTodo, Owned
<1>2. Init => \A c \in Clients : ConfigHolds(c) /\ ArtifactHolds(c)
  BY DEF Init, ConfigHolds, ArtifactHolds, Deploys
<1> QED
  BY <1>1, <1>2, InitTypeOK, InitCallerInv DEF LocalInv, TodoInv

LEMMA NextLocalInv == LocalOwners /\ LocalInv /\ [Next]_vars => LocalInv'
<1> SUFFICES ASSUME LocalOwners, LocalInv, [Next]_vars PROVE LocalInv'
  OBVIOUS
<1>1. TodoInv' /\ CallerInv' /\ Owned'
  BY NextTodoInv, NextCallerInv, NextOwned DEF LocalInv, LocalOwners, NamesApart, CallerInv
<1>2. CASE UNCHANGED vars
  <2>1. \A c \in Clients : ConfigHolds(c)'
    BY <1>2 DEF vars, LocalInv, ConfigHolds, Deploys, Deployed, Succeeded
  <2>2. \A c \in Clients : ArtifactHolds(c)'
    BY <1>2 DEF vars, LocalInv, ArtifactHolds, Deploys, Deployed, Succeeded, LoadingNames
  <2> QED
    BY <1>1, <2>1, <2>2 DEF LocalInv
<1>3. ASSUME NEW c \in Clients, Invoke(c) \/ RejectArguments(c) \/ ClientStep(c) \/ Fail(c)
      PROVE  LocalInv'
  BY <1>1, <1>3, LocalOwn, LocalOthers DEF LocalInv
<1>4. ASSUME NEW x \in Names, ReadStep(x) \/ EndStep(x) \/ UnloadStep(x) PROVE LocalInv'
  BY <1>1, <1>4, LocalServer DEF LocalInv
<1>5. CASE RestartStep
  <2>1. UNCHANGED <<repo, clientVars>> /\ loads' = {} /\ MayRestart
        /\ \A y \in Names : state'[y] = "UNAVAILABLE"
    BY <1>5 DEF RestartStep, Restart
  <2>2. \A d \in Clients : Deploys(d) => op[d].name \in Names
    BY DEF LocalInv, CallerInv, TypeOK, ArgsOK, Deploys
  <2>3. \A c \in Clients : ConfigHolds(c)'
    BY <2>1 DEF LocalInv, ConfigHolds, Deploys, Deployed, Succeeded, clientVars
  <2>4. \A c \in Clients : ArtifactHolds(c)'
    BY <2>1, <2>2 DEF LocalInv, ArtifactHolds, Deploys, Deployed, Succeeded, LoadingNames,
       clientVars
  <2> QED
    BY <1>1, <2>3, <2>4 DEF LocalInv
<1> QED
  BY <1>2, <1>3, <1>4, <1>5 DEF Next

\* In a local repository whose names have one client each, whatever failed before and
\* whatever the directory held, a create or update of an onnx artifact that returned
\* well left its configuration: the artifact's own or the minimal one that _get_copy_paths
\* writes for it, never one of an earlier artifact.
THEOREM ConfigProvided == LocalOwners => (Spec => []MinimalConfigProvided)
<1> SUFFICES ASSUME LocalOwners PROVE Spec => []MinimalConfigProvided
  OBVIOUS
<1>1. LocalInv => MinimalConfigProvided
  BY DEF LocalInv, ConfigHolds, MinimalConfigProvided, Deploys, Deployed, Succeeded
<1> QED
  BY <1>1, InitLocalInv, NextLocalInv, PTL DEF Spec

\* Under the same assumptions a create or update of a triton artifact that returned well
\* left its directory as the artifact with the metadata and nothing else, and the server,
\* unless it was restarted, serves it: _copy_files_to_triton_repo starts from an empty
\* directory whatever earlier calls left behind.
THEOREM DirectoryIsArtifact == LocalOwners => (Spec => []RepositoryIsArtifact)
<1> SUFFICES ASSUME LocalOwners PROVE Spec => []RepositoryIsArtifact
  OBVIOUS
<1>1. LocalInv => RepositoryIsArtifact
  BY DEF LocalInv, ArtifactHolds, RepositoryIsArtifact, Deploys, Deployed, Succeeded
<1> QED
  BY <1>1, InitLocalInv, NextLocalInv, PTL DEF Spec
=============================================================================
