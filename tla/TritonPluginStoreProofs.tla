----------------------- MODULE TritonPluginStoreProofs -----------------------
(***************************************************************************)
(* The theorems that the plugin implements the deployment stores, on S3    *)
(* with one client for each name: DeploymentStore when no call is          *)
(* abandoned and the server not restarted, UnreliableStore in any case.    *)
(***************************************************************************)
EXTENDS TritonPluginAnswers, TritonPluginStore

Steady == Ownership /\ ~MayFail /\ ~MayRestart

Works(c) == op[c].kind \in {"create", "update", "delete"}

\* An update or delete that found its deployment works on a READY model; a create
\* whose load is asked for has its artifact in the metadata and is not served yet.
ChangeHolds(c) ==
  LET n == op[c].name IN
  /\ op[c].kind \in {"update", "delete"} =>
       /\ Listing(c) /\ (n \in index[c] \/ found[c] # None) => state[n] = "READY"
       /\ pc[c] \in {"download", "copy", "meta", "load", "await", "unload"}
            => state[n] = "READY"
  /\ op[c].kind = "create" =>
       /\ pc[c] \in {"load", "await"} => repo[n][MetaFile] = op[c].uri
       /\ pc[c] = "await" => state[n] # "READY"
  /\ op[c].kind = "delete" => op[c].uri = None

StoreInv == CreateInv /\ \A c \in Clients : ChangeHolds(c)

LEMMA InvTypes ==
  ASSUME StoreInv
  PROVE  TypeOK /\ PluginTypeOK /\ ArgsOK /\ ServerTypeOK /\ RepoTypeOK /\ ListInv /\ CallerInv
BY DEF StoreInv, CreateInv, ListInv, TypeOK

\* A step of a client leaves the models that others work on, and those it does not
\* work on itself, as they are.
LEMMA OtherModels ==
  ASSUME Ownership, ListInv, NEW c \in Clients, NEW x \in Names,
         Invoke(c) \/ RejectArguments(c) \/ ClientStep(c) \/ Fail(c),
         ~Works(c) \/ op[c].name # x
  PROVE  repo'[x] = repo[x] /\ (state'[x] = "READY" <=> state[x] = "READY")
<1>1. repo'[x] = repo[x]
  BY WorkKinds DEF Works
<1>2. state[x] = "READY" => state'[x] = "READY"
  BY UnloadsOwn DEF ListInv, Works
<1>3. state'[x] = "READY" => state[x] = "READY"
  BY ServerRests DEF CallUnload, AcceptUnload, ListInv, TypeOK, ServerTypeOK
<1> QED
  BY <1>1, <1>2, <1>3

LEMMA ChangeClient ==
  ASSUME Ownership, StoreInv, NEW c \in Clients,
         Invoke(c) \/ RejectArguments(c) \/ ClientStep(c) \/ Fail(c)
  PROVE  \A d \in Clients : ChangeHolds(d)'
<1>1. TypeOK /\ PluginTypeOK /\ ArgsOK /\ ServerTypeOK /\ RepoTypeOK /\ ListInv
  BY InvTypes
<1>2. ASSUME NEW d \in Clients \ {c} PROVE ChangeHolds(d)'
  <2>1. /\ pc'[d] = pc[d] /\ op'[d] = op[d] /\ res'[d] = res[d]
        /\ found'[d] = found[d] /\ index'[d] = index[d]
    BY <1>1, OthersRest
  <2>2. CASE Works(d)
    <3>1. op[d].name \in Names /\ (~Works(c) \/ op[c].name # op[d].name)
      BY <1>1, <2>2, OneAtWork DEF Works, ArgsOK
    <3>2. /\ repo'[op[d].name] = repo[op[d].name]
          /\ state'[op[d].name] = "READY" <=> state[op[d].name] = "READY"
      BY <1>1, <3>1, OtherModels
    <3> QED
      BY <2>1, <3>2 DEF StoreInv, ChangeHolds, Listing
  <2>3. CASE ~Works(d)
    BY <2>1, <2>3 DEF Works, ChangeHolds
  <2> QED
    BY <2>2, <2>3
<1>3. ChangeHolds(c)'
  <2> DEFINE n == op[c].name
  <2>1. CASE Invoke(c) \/ RejectArguments(c)
    <3>1. PICK r \in Requests(c) : op' = [op EXCEPT ![c] = r]
      BY <2>1 DEF Invoke, RejectArguments
    <3>2. op'[c] = r /\ (r.kind = "delete" => r.uri = None)
      BY <1>1, <3>1 DEF Requests, PluginTypeOK
    <3>3. pc'[c] \in {"idle", "index", "describe", "infer"}
      BY <1>1, <2>1 DEF Invoke, RejectArguments, FirstSteps, Goto, PluginTypeOK
    <3> QED
      BY <3>2, <3>3 DEF ChangeHolds, Listing
  <2>2. CASE ReadIndex(c)
    <3>1. Works(c) => n \in Names
      BY <1>1 DEF ArgsOK, Works
    <3>2. /\ op' = op /\ state' = state /\ pc'[c] \in {"list", "relist"}
          /\ index'[c] = ReadyNames /\ found'[c] = None
      BY <1>1, <2>2 DEF ReadIndex, Goto, PluginTypeOK, serverVars
    <3> QED
      BY <3>1, <3>2 DEF StoreInv, ChangeHolds, ReadyNames
  <2>3. CASE ReadMeta(c)
    <3>1. PICK x \in index[c] : /\ index' = [index EXCEPT ![c] = @ \ {x}]
                               /\ found' = [found EXCEPT ![c] =
                                     IF x = n THEN repo[x][MetaFile] ELSE @]
      BY <2>3 DEF ReadMeta
    <3>2. UNCHANGED <<repo, state, pc, op, res>> /\ Listing(c)
      BY <2>3 DEF ReadMeta, serverVars
    <3>3. index'[c] = index[c] \ {x} /\ found'[c] = IF x = n THEN repo[x][MetaFile] ELSE found[c]
      BY <1>1, <3>1 DEF PluginTypeOK
    <3> QED
      BY <3>1, <3>2, <3>3 DEF StoreInv, ChangeHolds, Listing
  <2>4. CASE CheckDelete(c) \/ CheckUpdate(c)
    <3>1. UNCHANGED <<repo, state, op>> /\ Listing(c) /\ op[c].kind \in {"update", "delete"}
      BY <2>4 DEF CheckDelete, CheckUpdate, Listed, Return, Proceed, serverVars
    <3>2. \/ pc'[c] = "idle"
          \/ found[c] # None /\ pc'[c] \in {"unload", "reindex", "download"}
      BY <1>1, <2>4 DEF CheckDelete, CheckUpdate, Return, Proceed, Goto, Exists, PluginTypeOK
    <3> QED
      BY <3>1, <3>2 DEF StoreInv, ChangeHolds, Listing
  <2>5. CASE Stage(c) \/ CopyEntry(c) \/ EndCopy(c)
    <3>1. UNCHANGED <<state, op>> /\ pc[c] \in {"download", "copy"} /\ pc'[c] \in {"copy", "meta"}
      BY <1>1, <2>5 DEF Stage, CopyEntry, EndCopy, Ownership, Goto, PluginTypeOK, serverVars
    <3> QED
      BY <3>1 DEF StoreInv, ChangeHolds, Listing
  <2>6. CASE WriteMeta(c)
    <3>1. UNCHANGED <<state, op>> /\ pc[c] = "meta" /\ pc'[c] = "load"
          /\ repo' = [repo EXCEPT ![n][MetaFile] = op[c].uri]
      BY <1>1, <2>6 DEF WriteMeta, Ownership, Goto, Put, PluginTypeOK, serverVars
    <3>2. n \in Names /\ MetaFile \in Keys
      BY <1>1, <3>1, KeyFacts DEF ArgsOK
    <3>3. repo'[n][MetaFile] = op[c].uri
      BY <1>1, <3>1, <3>2 DEF RepoTypeOK
    <3> QED
      BY <3>1, <3>3 DEF StoreInv, ChangeHolds, Listing
  <2>7. CASE CallLoad(c)
    <3>1. UNCHANGED <<state, op, repo>> /\ pc[c] = "load" /\ pc'[c] = "await"
      BY <1>1, <2>7 DEF CallLoad, AcceptLoad, Goto, PluginTypeOK
    <3> QED
      BY <3>1 DEF StoreInv, CreateInv, CreateHolds, ChangeHolds, Listing
  <2>8. CASE ~(\/ Invoke(c) \/ RejectArguments(c) \/ ReadIndex(c) \/ ReadMeta(c)
               \/ CheckDelete(c) \/ CheckUpdate(c) \/ Stage(c) \/ CopyEntry(c)
               \/ EndCopy(c) \/ WriteMeta(c) \/ CallLoad(c))
    <3>1. pc[c] \notin {"clear", "flush"}
      BY <1>1 DEF ListInv, OwnEntries
    <3>2. /\ op' = op /\ ~Listing(c)'
          /\ \/ pc'[c] \notin {"download", "copy", "meta", "load", "await", "unload"}
             \/ op[c].kind = "create" /\ pc'[c] = "download"
      BY <1>1, <2>8, <3>1 DEF ClientStep, Fail, MetaRaises, ListReturns, GetReturns,
         CheckCreate, ClearEntry, EndClear, FlushMeta, ConnectionLost, Describe, Infer,
         CallUnload, Scan, PurgeEntry, EndPurge, Listing, Listed, Goto, Return, Proceed,
         PluginTypeOK, ArgsOK
    <3> QED
      BY <3>2 DEF StoreInv, ChangeHolds
  <2> QED
    BY <2>1, <2>2, <2>3, <2>4, <2>5, <2>6, <2>7, <2>8
<1> QED
  BY <1>2, <1>3

\* The load that ends: its client waits for it, and nobody else works on its model.
LEMMA LoadCaller ==
  ASSUME Ownership, StoreInv, NEW l \in loads, LoadEnds(l)
  PROVE  /\ l.caller \in Clients /\ op[l.caller].name = l.name /\ l.name \in Names
         /\ op[l.caller].kind \in {"create", "update"}
         /\ pc[l.caller] = "await" /\ pc'[l.caller] = "idle"
         /\ UNCHANGED <<repo, op>>
         /\ \A d \in Clients \ {l.caller} :
              /\ Works(d) => op[d].name # l.name
              /\ pc'[d] = pc[d] /\ res'[d] = res[d]
              /\ found'[d] = found[d] /\ index'[d] = index[d]
         /\ \A y \in Names : y # l.name => state'[y] = state[y]
<1>1. CallerInv /\ ListInv /\ ServerTypeOK /\ l.caller # None
  BY InvTypes DEF StoreInv, CreateInv, Attended
<1>2. /\ l.caller \in Clients /\ op[l.caller].name = l.name
      /\ op[l.caller].kind \in {"create", "update"}
      /\ pc[l.caller] = "await" /\ pc'[l.caller] = "idle" /\ UNCHANGED <<repo, op>>
  BY <1>1, AnswerEnds DEF CallerInv, Callers
<1>3. l.name \in Names
  BY <1>1 DEF ServerTypeOK, Loads
<1>4. \A d \in Clients \ {l.caller} :
        /\ Works(d) => op[d].name # l.name
        /\ pc'[d] = pc[d] /\ res'[d] = res[d] /\ found'[d] = found[d] /\ index'[d] = index[d]
  BY <1>1, <1>2, AnswerEnds, OneAtWork DEF Works
<1>5. \A y \in Names : y # l.name => state'[y] = state[y]
  BY <1>1 DEF LoadEnds, LoadSucceeds, LoadFails, ServerTypeOK
<1> QED
  BY <1>2, <1>3, <1>4, <1>5

LEMMA ChangeServer ==
  ASSUME Ownership, StoreInv, NEW x \in Names, ReadStep(x) \/ EndStep(x) \/ UnloadStep(x)
  PROVE  \A d \in Clients : ChangeHolds(d)'
<1>1. ServerTypeOK /\ ArgsOK
  BY InvTypes
<1>2. CASE ReadStep(x)
  BY <1>2 DEF ReadStep, ServerReads, clientVars, StoreInv, ChangeHolds, Listing
<1>3. CASE UnloadStep(x)
  <2>1. \A y \in Names : state'[y] = "READY" <=> state[y] = "READY"
    BY <1>1, <1>3 DEF UnloadStep, FinishUnload, ServerTypeOK
  <2>2. \A d \in Clients : Works(d) => op[d].name \in Names
    BY <1>1 DEF ArgsOK, Works
  <2> QED
    BY <1>3, <2>1, <2>2 DEF UnloadStep, clientVars, StoreInv, ChangeHolds, Listing, Works
<1>4. CASE EndStep(x)
  <2>1. PICK l \in loads : LoadEnds(l)
    BY <1>4 DEF EndStep
  <2>2. ChangeHolds(l.caller)'
    BY <2>1, LoadCaller DEF ChangeHolds, Listing
  <2>3. ASSUME NEW d \in Clients \ {l.caller} PROVE ChangeHolds(d)'
    <3>1. CASE Works(d)
      <4>1. state'[op[d].name] = state[op[d].name]
        BY <1>1, <2>1, <3>1, LoadCaller DEF ArgsOK, Works
      <4> QED
        BY <2>1, <4>1, LoadCaller DEF StoreInv, ChangeHolds, Listing
    <3>2. CASE ~Works(d)
      BY <2>1, <3>2, LoadCaller DEF ChangeHolds, Works
    <3> QED
      BY <3>1, <3>2
  <2> QED
    BY <2>2, <2>3
<1> QED
  BY <1>2, <1>3, <1>4

LEMMA NextStoreInv == Steady /\ StoreInv /\ [Next]_vars => StoreInv'
<1> SUFFICES ASSUME Steady, StoreInv, [Next]_vars PROVE StoreInv'
  OBVIOUS
<1>1. CreateInv'
  BY NextCreateInv DEF Steady, StoreInv
<1>2. CASE UNCHANGED vars
  BY <1>1, <1>2 DEF vars, StoreInv, ChangeHolds, Listing
<1> QED
  BY <1>1, <1>2, ChangeClient, ChangeServer DEF Next, RestartStep, Steady, StoreInv

(***************************************************************************)
(* Each step of the client maps to a step of the store, or to none.        *)
(***************************************************************************)
LEMMA DeploymentRests ==
  ASSUME \A x \in Names :
           /\ state'[x] = "READY" <=> state[x] = "READY"
           /\ state[x] = "READY" => repo'[x][MetaFile] = repo[x][MetaFile]
  PROVE  Deployment' = Deployment
BY DEF Deployment

\* A step of c changes at most the request and the phase of c.
LEMMA ClientFrame ==
  ASSUME StoreInv, NEW c \in Clients,
         Invoke(c) \/ RejectArguments(c) \/ ClientStep(c) \/ Fail(c)
  PROVE  /\ Change' = [Change EXCEPT ![c] = Change'[c]]
         /\ Progress' = [Progress EXCEPT ![c] = Phase(c)']
<1>1. \A d \in Clients \ {c} : pc'[d] = pc[d] /\ op'[d] = op[d] /\ res'[d] = res[d]
  BY InvTypes, OthersRest
<1>2. \A d \in Clients \ {c} : Phase(d)' = Phase(d)
  BY <1>1 DEF Phase, Done
<1> QED
  BY <1>1, <1>2 DEF Change, Progress

\* What is deployed changes where a change is said to take effect, and nowhere else.
LEMMA QuietModel ==
  ASSUME Ownership, StoreInv, NEW c \in Clients,
         Invoke(c) \/ RejectArguments(c) \/ ClientStep(c) \/ Fail(c),
         ~CallUnload(c), ~(WriteMeta(c) /\ op[c].kind = "update")
  PROVE  Deployment' = Deployment
<1>1. PluginTypeOK /\ ArgsOK /\ RepoTypeOK /\ ListInv
  BY InvTypes
<1>2. state' = state
  BY ServerRests
<1> DEFINE n == op[c].name
<1>3. ASSUME Works(c), state[n] = "READY" PROVE repo'[n][MetaFile] = repo[n][MetaFile]
  <2>1. pc[c] \notin {"clear", "flush", "purge"}
    BY <1>1, <1>3 DEF ListInv, OwnEntries, PurgeIsLate
  <2>2. CASE CopyEntry(c)
    <3>1. PICK e \in todo[c] : Put(e[1], e[2], op[c].uri)
      BY <2>2 DEF CopyEntry
    <3>2. e[1] \in Names /\ e[2] # MetaFile
      BY <1>1, <2>2, KeyFacts DEF CopyEntry, ListInv, OwnEntries, PluginTypeOK
    <3> QED
      BY <1>1, <3>1, <3>2, KeyFacts DEF Put, RepoTypeOK
  <2>3. CASE WriteMeta(c)
    BY <1>1, <1>3, <2>3 DEF WriteMeta, ArgsOK, StoreInv, CreateInv, CreateHolds
  <2>4. CASE ~CopyEntry(c) /\ ~WriteMeta(c)
    BY <2>1, <2>4 DEF Ownership, Invoke, RejectArguments, ClientStep, Fail, ReadIndex, ReadMeta,
       MetaRaises, ListReturns, GetReturns, CheckCreate, CheckDelete, CheckUpdate, Stage,
       ClearEntry, EndClear, EndCopy, FlushMeta, CallLoad, ConnectionLost, Describe, Infer,
       Scan, PurgeEntry, EndPurge
  <2> QED
    BY <2>2, <2>3, <2>4
<1>4. \A x \in Names : ~Works(c) \/ n # x => repo'[x] = repo[x]
  BY <1>1, OtherModels
<1> QED
  BY <1>2, <1>3, <1>4, DeploymentRests

\* A call begins, or is refused.
LEMMA BeginMaps ==
  ASSUME Ownership, StoreInv, NEW c \in Clients, Invoke(c) \/ RejectArguments(c)
  PROVE  Store!Ask(c) \/ Store!Refuse(c)
<1>1. PluginTypeOK /\ pc[c] = "idle"
  BY InvTypes DEF Invoke, RejectArguments
<1>2. Deployment' = Deployment
  BY QuietModel DEF Invoke, RejectArguments, CallUnload, WriteMeta
<1>3. PICK r \in Requests(c) : op' = [op EXCEPT ![c] = r]
  BY DEF Invoke, RejectArguments
<1>4. op'[c] = r
  BY <1>1, <1>3 DEF PluginTypeOK
<1>5. Progress[c] \in {"returned", "failed"}
  BY <1>1 DEF Progress, Phase
<1>6. IsChange(r) => r \in Store!Changes
  BY PluginAssumption DEF IsChange, Requests, Store!Changes
<1>7. Change'[c] = IF IsChange(r) THEN r ELSE NoChange
  BY <1>4 DEF Change
<1>8. ~IsChange(NoChange) /\ Store!Idle = NoChange
  BY DEF IsChange, NoChange, Store!Idle
<1>9. CASE Invoke(c)
  <2>1. pc'[c] \in {"index", "describe", "infer"}
    BY <1>1, <1>9 DEF Invoke, FirstSteps, Goto, PluginTypeOK
  <2>2. Phase(c)' = IF IsChange(r) THEN "waiting" ELSE "returned"
    BY <1>4, <2>1 DEF Phase, Done
  <2> QED
    BY <1>2, <1>5, <1>6, <1>7, <1>8, <2>2, ClientFrame DEF Store!Ask
<1>10. CASE RejectArguments(c)
  <2>1. pc'[c] = "idle" /\ res'[c] = "error"
    BY <1>1, <1>10 DEF RejectArguments, PluginTypeOK
  <2>2. Phase(c)' = IF IsChange(r) THEN "failed" ELSE "returned"
    BY <1>4, <2>1 DEF Phase
  <2>3. CASE IsChange(r)
    BY <1>2, <1>5, <1>6, <1>7, <2>2, <2>3, ClientFrame DEF Store!Refuse
  <2>4. CASE ~IsChange(r)
    BY <1>2, <1>5, <1>7, <1>8, <2>2, <2>4, ClientFrame DEF Store!Ask
  <2> QED
    BY <2>3, <2>4
<1> QED
  BY <1>9, <1>10

\* A change takes effect: the metadata of an update, the unload of a delete.
LEMMA EffectMaps ==
  ASSUME Ownership, StoreInv, NEW c \in Clients,
         CallUnload(c) \/ (WriteMeta(c) /\ op[c].kind = "update")
  PROVE  Store!Apply(c)
<1> DEFINE n == op[c].name
<1>1. /\ PluginTypeOK /\ ArgsOK /\ ServerTypeOK /\ RepoTypeOK /\ ListInv
      /\ ClientStep(c)
  BY InvTypes DEF ClientStep
<1>2. n \in Names /\ Works(c) /\ IsChange(op[c]) /\ op[c].kind # "create"
  BY <1>1 DEF CallUnload, ArgsOK, Works, IsChange
<1>3. state[n] = "READY" /\ repo[n][MetaFile] \in Uris
  BY <1>1, <1>2 DEF CallUnload, WriteMeta, ArgsOK, StoreInv, ChangeHolds, ListInv, MetaKept, HasMeta
<1>4. op' = op /\ pc[c] \in {"unload", "meta"}
  BY DEF CallUnload, WriteMeta
<1>5. Progress[c] = "waiting" /\ Phase(c)' = "done"
  BY <1>1, <1>2, <1>4 DEF Progress, Phase, Done, CallUnload, WriteMeta, Ownership, Goto,
     PluginTypeOK, ArgsOK
<1>6. Change[c] = op[c] /\ Change' = Change
  BY <1>2, <1>4 DEF Change
<1>7. Deployment[n] # None
  BY <1>2, <1>3, ValueFacts DEF Deployment
<1>8. \A x \in Names \ {n} :
        repo'[x] = repo[x] /\ (state'[x] = "READY" <=> state[x] = "READY")
  BY <1>1, OtherModels
<1>9. Deployment'[n] = op[c].uri
  <2>1. CASE CallUnload(c)
    <3>1. op[c].uri = None
      BY <1>1, <2>1 DEF CallUnload, ArgsOK, StoreInv, ChangeHolds
    <3>2. state'[n] # "READY"
      BY <1>1, <1>2, <2>1 DEF CallUnload, AcceptUnload, ServerTypeOK
    <3> QED
      BY <1>2, <3>1, <3>2 DEF Deployment
  <2>2. CASE WriteMeta(c)
    <3>1. state' = state /\ repo' = [repo EXCEPT ![n][MetaFile] = op[c].uri]
      BY <2>2 DEF WriteMeta, Ownership, Put, serverVars
    <3>2. repo'[n][MetaFile] = op[c].uri
      BY <1>1, <1>2, <3>1, KeyFacts DEF RepoTypeOK
    <3> QED
      BY <1>2, <1>3, <3>1, <3>2 DEF Deployment
  <2> QED
    BY <2>1, <2>2
<1>10. Deployment' = [Deployment EXCEPT ![n] = op[c].uri]
  BY <1>8, <1>9 DEF Deployment
<1>11. Progress' = [Progress EXCEPT ![c] = "done"]
  BY <1>1, <1>5, ClientFrame
<1> QED
  BY <1>2, <1>5, <1>6, <1>7, <1>10, <1>11 DEF Store!Apply, Store!Applicable

\* Every other step of a client is inside its call or ends it.
LEMMA InnerMaps ==
  ASSUME Steady, StoreInv, NEW c \in Clients, ClientStep(c),
         ~CallUnload(c), ~(WriteMeta(c) /\ op[c].kind = "update")
  PROVE  Store!ReturnOk(c) \/ Store!ReturnError(c) \/ UNCHANGED Store!storeVars
<1>1. PluginTypeOK /\ ArgsOK /\ ListInv /\ Ownership
  BY InvTypes DEF Steady
<1>2. Deployment' = Deployment
  BY <1>1, QuietModel
<1>3. op' = op /\ pc[c] # "idle"
  BY DEF ClientStep, ReadIndex, ReadMeta, MetaRaises, ListReturns, GetReturns, CheckCreate,
     CheckDelete, CheckUpdate, Stage, ClearEntry, EndClear, CopyEntry, EndCopy, WriteMeta,
     FlushMeta, CallLoad, ConnectionLost, Describe, Infer, Scan, PurgeEntry, EndPurge,
     Listing, Listed, Return, Proceed
<1>4. Change' = Change
  BY <1>3 DEF Change
<1>5. Progress' = [Progress EXCEPT ![c] = Phase(c)']
  BY ClientFrame
<1>6. Progress[c] = Phase(c)
  BY DEF Progress
<1>7. CASE ~IsChange(op[c])
  <2>1. Phase(c) = "returned" /\ Phase(c)' = "returned"
    BY <1>3, <1>7 DEF Phase
  <2>2. Progress' = Progress
    BY <1>5, <1>6, <2>1 DEF Progress
  <2> QED
    BY <1>2, <1>4, <2>2 DEF Store!storeVars
<1>8. CASE IsChange(op[c])
  <2>1. \/ pc'[c] = "idle" /\ res'[c] = "error"
        \/ pc[c] = "purge" /\ pc'[c] = "idle" /\ res'[c] = "ok"
        \/ pc'[c] # "idle" /\ (Done(c)' <=> Done(c))
    <3>1. pc[c] \notin {"clear", "flush"}
      BY <1>1 DEF ListInv, OwnEntries
    <3> QED
      BY <1>1, <1>3, <1>8, <3>1 DEF ClientStep, ReadIndex, ReadMeta, MetaRaises, ListReturns,
         GetReturns, CheckCreate, CheckDelete, CheckUpdate, Stage, ClearEntry, EndClear,
         CopyEntry, EndCopy, WriteMeta, FlushMeta, CallLoad, ConnectionLost, Describe, Infer,
         Scan, PurgeEntry, EndPurge, Listing, Listed, Goto, Return, Proceed, PluginTypeOK,
         ArgsOK, IsChange, Done, Steady, Ownership
  <2>2. Phase(c) \in {"waiting", "done"} /\ IsChange(op'[c])
    BY <1>3, <1>8 DEF Phase
  <2>3. CASE pc'[c] = "idle" /\ res'[c] = "error"
    <3>1. Phase(c)' = "failed"
      BY <2>2, <2>3 DEF Phase
    <3> QED
      BY <1>2, <1>4, <1>5, <1>6, <2>2, <3>1 DEF Store!ReturnError
  <2>4. CASE pc[c] = "purge" /\ pc'[c] = "idle" /\ res'[c] = "ok"
    <3>1. Phase(c)' = "returned" /\ Phase(c) = "done"
      BY <1>1, <1>8, <2>2, <2>4 DEF Phase, Done, ArgsOK
    <3> QED
      BY <1>2, <1>4, <1>5, <1>6, <3>1 DEF Store!ReturnOk
  <2>5. CASE pc'[c] # "idle" /\ (Done(c)' <=> Done(c))
    <3>1. Phase(c)' = Phase(c)
      BY <1>3, <1>8, <2>2, <2>5 DEF Phase
    <3>2. Progress' = Progress
      BY <1>5, <1>6, <3>1 DEF Progress
    <3> QED
      BY <1>2, <1>4, <3>2 DEF Store!storeVars
  <2> QED
    BY <2>1, <2>3, <2>4, <2>5
<1> QED
  BY <1>7, <1>8

\* The answer of a load makes the change of a create, and ends that of an update.
LEMMA ServerMaps ==
  ASSUME Steady, StoreInv, NEW x \in Names, ReadStep(x) \/ EndStep(x) \/ UnloadStep(x)
  PROVE  Store!StoreNext \/ UNCHANGED Store!storeVars
<1>1. PluginTypeOK /\ ServerTypeOK /\ ArgsOK /\ ListInv /\ Ownership
  BY InvTypes DEF Steady
<1>2. CASE ReadStep(x) \/ UnloadStep(x)
  <2>1. UNCHANGED <<repo, op, pc, res>>
    BY <1>2 DEF ReadStep, UnloadStep, clientVars
  <2>2. \A y \in Names : state'[y] = "READY" <=> state[y] = "READY"
    BY <1>1, <1>2 DEF ReadStep, ServerReads, UnloadStep, FinishUnload, ServerTypeOK
  <2>3. Deployment' = Deployment
    BY <2>1, <2>2, DeploymentRests
  <2>4. Change' = Change /\ Progress' = Progress
    BY <2>1 DEF Change, Progress, Phase, Done
  <2> QED
    BY <2>3, <2>4 DEF Store!storeVars
<1>3. CASE EndStep(x)
  <2>1. PICK l \in loads : LoadEnds(l)
    BY <1>3 DEF EndStep
  <2>2. PICK c \in Clients : c = l.caller
    BY <1>1, <2>1, LoadCaller
  <2> DEFINE n == op[c].name
  <2>3. /\ n = l.name /\ n \in Names /\ op[c].kind \in {"create", "update"}
        /\ pc[c] = "await" /\ pc'[c] = "idle" /\ UNCHANGED <<repo, op>>
    BY <1>1, <2>1, <2>2, LoadCaller
  <2>4. IsChange(op[c]) /\ Change[c] = op[c] /\ Change' = Change
    BY <2>3 DEF IsChange, Change
  <2>5. \A d \in Clients \ {c} : Phase(d)' = Phase(d)
    <3>1. \A d \in Clients \ {c} : pc'[d] = pc[d] /\ res'[d] = res[d] /\ op'[d] = op[d]
      BY <1>1, <2>1, <2>2, LoadCaller
    <3> QED
      BY <3>1 DEF Phase, Done
  <2>6. Progress' = [Progress EXCEPT ![c] = Phase(c)']
    BY <2>5 DEF Progress
  <2>7. Progress[c] = IF op[c].kind = "update" THEN "done" ELSE "waiting"
    BY <2>3, <2>4 DEF Progress, Phase, Done
  <2>8. CASE LoadFails(l) /\ Answer(l, "error")
    <3>1. res'[c] = "error" /\ state' = state
      BY <1>1, <2>2, <2>8, ValueFacts DEF Answer, LoadFails, Return, PluginTypeOK
    <3>2. Deployment' = Deployment
      BY <2>3, <3>1 DEF Deployment
    <3>3. Phase(c)' = "failed"
      BY <2>3, <2>4, <3>1 DEF Phase
    <3>4. Store!ReturnError(c)
      BY <2>4, <2>6, <2>7, <3>2, <3>3 DEF Store!ReturnError
    <3> QED
      BY <3>4 DEF Store!StoreNext
  <2>9. CASE LoadSucceeds(l) /\ Answer(l, "ok")
    <3>1. res'[c] = "ok" /\ state' = [state EXCEPT ![n] = "READY"]
      BY <1>1, <2>2, <2>3, <2>9, ValueFacts DEF Answer, LoadSucceeds, Return, PluginTypeOK
    <3>2. state'[n] = "READY" /\ \A y \in Names \ {n} : state'[y] = state[y]
      BY <1>1, <2>3, <3>1 DEF ServerTypeOK
    <3>3. Phase(c)' = "returned"
      BY <2>3, <2>4, <3>1 DEF Phase
    <3>4. CASE op[c].kind = "update"
      <4>1. state[n] = "READY"
        BY <2>3, <3>4 DEF StoreInv, ChangeHolds
      <4>2. Deployment' = Deployment
        BY <2>3, <3>2, <4>1 DEF Deployment
      <4>3. Store!ReturnOk(c)
        BY <2>4, <2>6, <2>7, <3>3, <3>4, <4>2 DEF Store!ReturnOk
      <4> QED
        BY <4>3 DEF Store!StoreNext
    <3>5. CASE op[c].kind = "create"
      <4>1. state[n] # "READY" /\ repo[n][MetaFile] = op[c].uri
        BY <2>3, <3>5 DEF StoreInv, ChangeHolds
      <4>2. Deployment[n] = None
        BY <2>3, <4>1 DEF Deployment
      <4>3. Deployment' = [Deployment EXCEPT ![n] = op[c].uri]
        BY <2>3, <3>2, <4>1 DEF Deployment
      <4>4. Store!Apply(c)
        BY <2>4, <2>6, <2>7, <3>3, <3>5, <4>2, <4>3 DEF Store!Apply, Store!Applicable
      <4> QED
        BY <4>4 DEF Store!StoreNext
    <3> QED
      BY <2>3, <3>4, <3>5
  <2> QED
    BY <2>1, <2>8, <2>9 DEF LoadEnds
<1> QED
  BY <1>2, <1>3

\* With one client for each name, none of which begins another, on S3, while no call is
\* abandoned and the server not restarted, the client keeps the promise of the deployment
\* store: a create, update or delete changes what is deployed at one instant of its
\* call, on a name in the right state, or not at all, and one that returns ok has
\* done so, although its checks, its files, its metadata and the server are four
\* things read and written one after the other (deployments.py, all methods).
THEOREM StoreImplemented == Steady => (Spec => ImplementsStore)
<1> SUFFICES ASSUME Steady PROVE Spec => ImplementsStore
  OBVIOUS
<1>1. Init => StoreInv /\ Store!StoreInit
  <2> SUFFICES ASSUME Init PROVE StoreInv /\ Store!StoreInit
    OBVIOUS
  <2>1. /\ \A c \in Clients : pc[c] = "idle" /\ op[c] = [kind |-> "list", name |-> None, uri |-> None]
        /\ loads = {} /\ \A n \in Names : state[n] = "UNAVAILABLE"
    BY DEF Init, ServerInit, Steady, Ownership
  <2>2. CreateInv
    BY <2>1, InitListInv, InitCallerInv DEF Steady, CreateInv, Attended, CreateHolds
  <2>3. \A c \in Clients : ChangeHolds(c)
    BY <2>1 DEF ChangeHolds
  <2>4. Store!StoreInit
    BY <2>1 DEF Store!StoreInit, Store!Idle, Deployment, Change, Progress, Phase, IsChange, NoChange
  <2> QED
    BY <2>2, <2>3, <2>4 DEF StoreInv
<1>2. StoreInv /\ [Next]_vars => StoreInv'
  BY NextStoreInv
<1>3. StoreInv /\ [Next]_vars => [Store!StoreNext]_Store!storeVars
  <2> SUFFICES ASSUME StoreInv, [Next]_vars
               PROVE  Store!StoreNext \/ UNCHANGED Store!storeVars
    OBVIOUS
  <2>1. CASE UNCHANGED vars
    BY <2>1 DEF vars, Store!storeVars, Deployment, Change, Progress, Phase, Done
  <2>2. ASSUME NEW c \in Clients, Invoke(c) \/ RejectArguments(c) PROVE Store!StoreNext
    BY <2>2, BeginMaps DEF Steady, Store!StoreNext
  <2>3. ASSUME NEW c \in Clients, ClientStep(c)
        PROVE  Store!StoreNext \/ UNCHANGED Store!storeVars
    BY <2>3, EffectMaps, InnerMaps DEF Steady, Store!StoreNext
  <2> QED
    BY <2>1, <2>2, <2>3, ServerMaps DEF Next, Fail, RestartStep, Steady
<1> QED
  BY <1>1, <1>2, <1>3, PTL DEF Spec, ImplementsStore, Store!StoreSpec

(***************************************************************************)
(* With failures and restarts: the unreliable store.                       *)
(***************************************************************************)
\* A load of x that nobody waits for.
Orphan(x) == \E l \in loads : l.name = x /\ l.caller = None

\* A create or update that asks for a load has its artifact in the metadata, and waits
\* for no other load than its own; only an update looks a second time.
NamedHolds(c) ==
  /\ pc[c] = "await" => ~Orphan(op[c].name)
  /\ pc[c] \in {"load", "await"} => repo[op[c].name][MetaFile] = op[c].uri
  /\ pc[c] \in {"reindex", "relist"} => op[c].kind = "update"
  /\ op[c].kind = "delete" => op[c].uri = None

LateInv == ListInv /\ CallerInv /\ \A c \in Clients : NamedHolds(c)

LEMMA LateTypes ==
  ASSUME LateInv
  PROVE  TypeOK /\ PluginTypeOK /\ ArgsOK /\ ServerTypeOK /\ RepoTypeOK /\ ListInv /\ CallerInv
BY DEF LateInv, ListInv, TypeOK

\* A step of a client concerns the orphans of its own model only.
LEMMA OthersOrphans ==
  ASSUME LateInv, NEW c \in Clients, NEW x \in Names,
         Invoke(c) \/ RejectArguments(c) \/ ClientStep(c) \/ Fail(c),
         ~Works(c) \/ op[c].name # x
  PROVE  Orphan(x)' <=> Orphan(x)
<1>1. ArgsOK /\ ServerTypeOK /\ CallerInv
  BY LateTypes
<1>2. CASE CallLoad(c)
  <2>1. PICK l : l = [name |-> op[c].name, model |-> None, caller |-> c]
    OBVIOUS
  <2>2. loads' = loads \cup {l} /\ l.name = op[c].name /\ Works(c)
    BY <1>1, <1>2, <2>1 DEF CallLoad, AcceptLoad, ArgsOK, Works
  <2> QED
    BY <2>2 DEF Orphan
<1>3. CASE Fail(c)
  <2>1. \A l \in loads : l.caller = c => l.name # x
    BY <1>1, ValueFacts DEF CallerInv, Callers, ArgsOK, Works
  <2>2. loads' = {IF l.caller = c THEN [l EXCEPT !.caller = None] ELSE l : l \in loads}
    BY <1>3 DEF Fail
  <2>3. \A l \in loads : [l EXCEPT !.caller = None].name = l.name
    BY <1>1 DEF ServerTypeOK, Loads
  <2>4. ASSUME NEW l \in loads', l.name = x PROVE l \in loads
    <3>1. PICK m \in loads : l = IF m.caller = c THEN [m EXCEPT !.caller = None] ELSE m
      BY <2>2
    <3>2. l.name = m.name
      BY <2>3, <3>1
    <3> QED
      BY <2>1, <2>4, <3>1, <3>2
  <2>5. ASSUME NEW l \in loads, l.name = x PROVE l \in loads'
    BY <2>1, <2>2, <2>5
  <2> QED
    BY <2>4, <2>5 DEF Orphan
<1>4. CASE ~CallLoad(c) /\ ~Fail(c)
  BY <1>4, ServerRests DEF Orphan
<1> QED
  BY <1>2, <1>3, <1>4

LEMMA NamedClient ==
  ASSUME Ownership, LateInv, NEW c \in Clients,
         Invoke(c) \/ RejectArguments(c) \/ ClientStep(c) \/ Fail(c)
  PROVE  \A d \in Clients : NamedHolds(d)'
<1>1. TypeOK /\ PluginTypeOK /\ ArgsOK /\ RepoTypeOK /\ ListInv
  BY LateTypes
<1>2. ASSUME NEW d \in Clients \ {c} PROVE NamedHolds(d)'
  <2>1. pc'[d] = pc[d] /\ op'[d] = op[d]
    BY <1>1, OthersRest
  <2>2. ASSUME pc[d] \in {"load", "await"} PROVE repo'[op[d].name] = repo[op[d].name]
    <3>1. Works(d) /\ op[d].name \in Names
      BY <1>1, <2>2 DEF ArgsOK, Works
    <3>2. ~Works(c) \/ op[c].name # op[d].name
      BY <1>1, <3>1, OneAtWork DEF Works
    <3> QED
      BY <1>1, <3>1, <3>2, OtherModels
  <2>3. ASSUME pc[d] = "await" PROVE Orphan(op[d].name)' <=> Orphan(op[d].name)
    <3>1. Works(d) /\ op[d].name \in Names
      BY <1>1, <2>3 DEF ArgsOK, Works
    <3>2. ~Works(c) \/ op[c].name # op[d].name
      BY <1>1, <3>1, OneAtWork DEF Works
    <3>3. \A x \in Names : ~Works(c) \/ op[c].name # x => (Orphan(x)' <=> Orphan(x))
      BY OthersOrphans
    <3> QED
      BY <2>1, <3>1, <3>2, <3>3 DEF Orphan
  <2> QED
    BY <2>1, <2>2, <2>3 DEF LateInv, NamedHolds
<1>3. NamedHolds(c)'
  <2> DEFINE n == op[c].name
  <2>1. CASE Invoke(c) \/ RejectArguments(c)
    <3>1. PICK r \in Requests(c) : op' = [op EXCEPT ![c] = r]
      BY <2>1 DEF Invoke, RejectArguments
    <3>2. op'[c] = r /\ (r.kind = "delete" => r.uri = None)
      BY <1>1, <3>1 DEF Requests, PluginTypeOK
    <3>3. pc'[c] \in {"idle", "index", "describe", "infer"}
      BY <1>1, <2>1 DEF Invoke, RejectArguments, FirstSteps, Goto, PluginTypeOK
    <3> QED
      BY <3>2, <3>3 DEF NamedHolds
  <2>2. CASE WriteMeta(c)
    <3>1. op' = op /\ pc[c] = "meta" /\ pc'[c] = "load"
          /\ repo' = [repo EXCEPT ![n][MetaFile] = op[c].uri]
      BY <1>1, <2>2 DEF WriteMeta, Ownership, Goto, Put, PluginTypeOK, serverVars
    <3>2. n \in Names /\ MetaFile \in Keys
      BY <1>1, <3>1, KeyFacts DEF ArgsOK
    <3>3. repo'[n][MetaFile] = op[c].uri
      BY <1>1, <3>1, <3>2 DEF RepoTypeOK
    <3> QED
      BY <3>1, <3>3 DEF LateInv, NamedHolds
  <2>3. CASE CallLoad(c)
    <3>1. UNCHANGED <<op, repo>> /\ pc[c] = "load" /\ pc'[c] = "await"
      BY <1>1, <2>3 DEF CallLoad, Goto, PluginTypeOK
    <3>2. PICK l : l = [name |-> n, model |-> None, caller |-> c]
      OBVIOUS
    <3>3. n \notin LoadingNames /\ loads' = loads \cup {l} /\ l.caller # None
      BY <2>3, <3>2, ValueFacts DEF CallLoad, AcceptLoad
    <3>4. ~Orphan(n)'
      BY <3>1, <3>3 DEF Orphan, LoadingNames
    <3> QED
      BY <3>1, <3>4 DEF LateInv, NamedHolds
  <2>4. CASE ReadIndex(c) \/ CheckUpdate(c)
    <3>1. /\ op' = op /\ pc'[c] \notin {"load", "await"}
          /\ pc'[c] \in {"reindex", "relist"} => pc[c] = "reindex" \/ op[c].kind = "update"
      BY <1>1, <2>4 DEF ReadIndex, CheckUpdate, Return, Proceed, Goto, PluginTypeOK
    <3> QED
      BY <3>1 DEF LateInv, NamedHolds
  <2>5. CASE ReadMeta(c)
    BY <2>5 DEF ReadMeta, Listing, serverVars, LateInv, NamedHolds
  <2>6. CASE ~(\/ Invoke(c) \/ RejectArguments(c) \/ WriteMeta(c) \/ CallLoad(c)
               \/ ReadIndex(c) \/ CheckUpdate(c) \/ ReadMeta(c))
    <3>1. pc[c] \notin {"clear", "flush"}
      BY <1>1 DEF ListInv, OwnEntries
    <3>2. op' = op /\ pc'[c] \notin {"load", "await", "reindex", "relist"}
      BY <1>1, <2>6, <3>1 DEF ClientStep, Fail, MetaRaises, ListReturns, GetReturns,
         CheckCreate, CheckDelete, Stage, ClearEntry, EndClear, CopyEntry, EndCopy, FlushMeta,
         ConnectionLost, Describe, Infer, CallUnload, Scan, PurgeEntry, EndPurge, Listing,
         Listed, Goto, Return, Proceed, Ownership, PluginTypeOK, ArgsOK
    <3> QED
      BY <3>2 DEF LateInv, NamedHolds
  <2> QED
    BY <2>1, <2>2, <2>3, <2>4, <2>5, <2>6
<1> QED
  BY <1>2, <1>3

LEMMA NextLateInv == Ownership /\ LateInv /\ [Next]_vars => LateInv'
<1> SUFFICES ASSUME Ownership, LateInv, [Next]_vars PROVE LateInv'
  OBVIOUS
<1>1. ListInv' /\ CallerInv'
  BY NextListInv, NextCallerInv DEF LateInv
<1>2. CASE UNCHANGED vars \/ RestartStep
  BY <1>1, <1>2 DEF vars, RestartStep, Restart, clientVars, LateInv, NamedHolds, Orphan
<1>3. ASSUME NEW x \in Names, ReadStep(x) \/ EndStep(x) \/ UnloadStep(x)
      PROVE  \A d \in Clients : NamedHolds(d)'
  <2>1. /\ UNCHANGED <<repo, op>> /\ \A d \in Clients : pc'[d] = pc[d] \/ pc'[d] = "idle"
        /\ \A y \in Names : Orphan(y)' => Orphan(y)
    <3>1. CASE ReadStep(x)
      <4>1. PICK l \in loads, m \in NewestContent(x) :
              loads' = (loads \ {l}) \cup {[l EXCEPT !.model = m]}
        BY <3>1 DEF ReadStep, ServerReads
      <4>2. [l EXCEPT !.model = m].name = l.name /\ [l EXCEPT !.model = m].caller = l.caller
        BY LateTypes DEF ServerTypeOK, Loads
      <4> QED
        BY <3>1, <4>1, <4>2 DEF ReadStep, clientVars, Orphan
    <3>2. CASE UnloadStep(x)
      BY <3>2 DEF UnloadStep, FinishUnload, clientVars, Orphan
    <3>3. ASSUME NEW l \in loads, LoadEnds(l)
          PROVE  /\ UNCHANGED <<repo, op>> /\ \A d \in Clients : pc'[d] = pc[d] \/ pc'[d] = "idle"
                 /\ \A y \in Names : Orphan(y)' => Orphan(y)
      BY <3>3, AnswerEnds, ValueFacts DEF LateInv, Orphan
    <3> QED
      BY <1>3, <3>1, <3>2, <3>3 DEF EndStep
  <2>2. \A d \in Clients : pc[d] = "await" => op[d].name \in Names
    BY LateTypes DEF ArgsOK
  <2> QED
    BY <2>1, <2>2 DEF LateInv, NamedHolds, Orphan
<1> QED
  BY <1>1, <1>2, <1>3, NamedClient DEF Next, LateInv

\* A call asks for its load after it wrote the metadata.
LEMMA LoadFollows ==
  ASSUME Ownership, LateInv, NEW c \in Clients,
         Invoke(c) \/ RejectArguments(c) \/ ClientStep(c) \/ Fail(c), pc'[c] = "load"
  PROVE  WriteMeta(c)
<1>1. PluginTypeOK /\ pc[c] \notin {"clear", "flush"}
  BY LateTypes DEF ListInv, OwnEntries
<1> QED
  BY <1>1 DEF Invoke, RejectArguments, FirstSteps, ClientStep, Fail, ReadIndex, ReadMeta,
     MetaRaises, ListReturns, GetReturns, CheckCreate, CheckDelete, CheckUpdate, Stage,
     ClearEntry, EndClear, CopyEntry, EndCopy, FlushMeta, CallLoad, ConnectionLost, Describe,
     Infer, CallUnload, Scan, PurgeEntry, EndPurge, Listing, Listed, Goto, Return, Proceed,
     Ownership, PluginTypeOK

\* A step of c changes at most the request and the standing of c, and of the model
\* it works on.
LEMMA LateFrame ==
  ASSUME Ownership, LateInv, NEW c \in Clients,
         Invoke(c) \/ RejectArguments(c) \/ ClientStep(c) \/ Fail(c)
  PROVE  /\ Change' = [Change EXCEPT ![c] = Change'[c]]
         /\ Standings' = [Standings EXCEPT ![c] = Standing(c)']
         /\ \A x \in Names : ~Works(c) \/ op[c].name # x =>
              Deployment'[x] = Deployment[x] /\ Late'[x] = Late[x]
<1>1. TypeOK /\ ArgsOK /\ PluginTypeOK /\ ListInv
  BY LateTypes
<1>2. \A d \in Clients \ {c} :
        /\ pc'[d] = pc[d] /\ op'[d] = op[d] /\ res'[d] = res[d]
        /\ found'[d] = found[d] /\ index'[d] = index[d]
  BY <1>1, OthersRest
<1>3. ASSUME NEW d \in Clients \ {c} PROVE Standing(d)' = Standing(d)
  <2>1. ASSUME pc[d] \in {"load", "await"}
        PROVE  state'[op[d].name] = "READY" <=> state[op[d].name] = "READY"
    <3>1. Works(d) /\ op[d].name \in Names
      BY <1>1, <2>1 DEF ArgsOK, Works
    <3>2. ~Works(c) \/ op[c].name # op[d].name
      BY <1>1, <3>1, OneAtWork DEF Works
    <3> QED
      BY <1>1, <3>1, <3>2, OtherModels
  <2>2. Made(d)' <=> Made(d)
    BY <1>2, <2>1 DEF Made
  <2>3. Checked(d)' <=> Checked(d)
    BY <1>2 DEF Checked
  <2> QED
    BY <1>2, <2>2, <2>3 DEF Standing
<1>4. ASSUME NEW x \in Names, ~Works(c) \/ op[c].name # x
      PROVE  Deployment'[x] = Deployment[x] /\ Late'[x] = Late[x]
  <2>1. repo'[x] = repo[x] /\ (state'[x] = "READY" <=> state[x] = "READY")
    BY <1>1, <1>4, OtherModels
  <2>2. Orphan(x)' <=> Orphan(x)
    BY <1>4, OthersOrphans
  <2>3. (\E d \in Clients : pc'[d] = "load" /\ op'[d].name = x)
          <=> \E d \in Clients : pc[d] = "load" /\ op[d].name = x
    <3>1. ~(pc[c] = "load" /\ op[c].name = x)
      BY <1>1, <1>4 DEF ArgsOK, Works
    <3>2. ASSUME pc'[c] = "load" PROVE op'[c].name # x
      <4>1. WriteMeta(c)
        BY <3>2, LoadFollows
      <4> QED
        BY <1>1, <1>4, <4>1 DEF WriteMeta, ArgsOK, Works
    <3> QED
      BY <1>2, <3>1, <3>2
  <2>4. Abandoned(x)' <=> Abandoned(x)
    BY <2>1, <2>2, <2>3 DEF Abandoned, Orphan
  <2> QED
    BY <2>1, <2>4 DEF Deployment, Late
<1> QED
  BY <1>2, <1>3, <1>4 DEF Change, Standings

\* Only metadata, a load or an unload change what is deployed or may be yet: when the files
\* of a model go, it is not served and nobody loads it.
LEMMA LateRests ==
  ASSUME Ownership, LateInv, NEW c \in Clients, ClientStep(c),
         ~WriteMeta(c), ~CallLoad(c), ~CallUnload(c)
  PROVE  UNCHANGED <<Deployment, Late, Change, op, state>>
<1> DEFINE n == op[c].name
<1>1. PluginTypeOK /\ ArgsOK /\ RepoTypeOK /\ ListInv /\ pc[c] \notin {"clear", "flush"}
  BY LateTypes DEF ListInv, OwnEntries
<1>2. UNCHANGED <<op, state, loads>> /\ pc[c] # "load"
  BY <1>1 DEF ClientStep, ReadIndex, ReadMeta, MetaRaises, ListReturns, GetReturns, CheckCreate,
     CheckDelete, CheckUpdate, Stage, ClearEntry, EndClear, CopyEntry, EndCopy,
     FlushMeta, ConnectionLost, Describe, Infer, Scan, PurgeEntry, EndPurge,
     Listing, Listed, Return, Proceed, serverVars
<1>3. pc'[c] # "load"
  BY LoadFollows
<1>4. ASSUME Works(c), n \in Names
      PROVE  Deployment'[n] = Deployment[n] /\ Late'[n] = Late[n]
  <2>1. (\E d \in Clients : pc'[d] = "load" /\ op'[d].name = n)
          <=> \E d \in Clients : pc[d] = "load" /\ op[d].name = n
    <3>1. \A d \in Clients \ {c} : pc'[d] = pc[d]
      BY LateTypes, OthersRest
    <3> QED
      BY <1>2, <1>3, <3>1
  <2>2. Abandoned(n)' <=> Abandoned(n)
    BY <1>2, <2>1 DEF Abandoned
  <2>3. CASE PurgeEntry(c)
    <3>1. state[n] # "READY" /\ n \notin LoadingNames
      BY <1>1, <2>3 DEF PurgeEntry, ListInv, PurgeIsLate
    <3>2. ~Abandoned(n)
      BY <3>1 DEF Abandoned, LoadingNames
    <3> QED
      BY <1>2, <1>4, <2>2, <3>1, <3>2 DEF Deployment, Late
  <2>4. CASE ~PurgeEntry(c)
    <3>1. repo'[n][MetaFile] = repo[n][MetaFile]
      <4>1. CASE CopyEntry(c)
        <5>1. PICK e \in todo[c] : Put(e[1], e[2], op[c].uri)
          BY <4>1 DEF CopyEntry
        <5>2. e[1] \in Names /\ e[2] # MetaFile
          BY <1>1, <4>1, KeyFacts DEF CopyEntry, ListInv, OwnEntries, PluginTypeOK
        <5> QED
          BY <1>1, <1>4, <5>1, <5>2, KeyFacts DEF Put, RepoTypeOK
      <4>2. CASE ~CopyEntry(c)
        BY <1>1, <2>4, <4>2 DEF Ownership, ClientStep, ReadIndex, ReadMeta,
           MetaRaises, ListReturns, GetReturns, CheckCreate, CheckDelete, CheckUpdate, Stage,
           ClearEntry, EndClear, EndCopy, FlushMeta, ConnectionLost, Describe, Infer,
           Scan, EndPurge
      <4> QED
        BY <4>1, <4>2
    <3> QED
      BY <1>2, <1>4, <2>2, <3>1 DEF Deployment, Late
  <2> QED
    BY <2>3, <2>4
<1>5. \A x \in Names : Deployment'[x] = Deployment[x] /\ Late'[x] = Late[x]
  BY <1>4, LateFrame
<1> QED
  BY <1>2, <1>5 DEF Deployment, Late, Change

\* Of a call that does not change what is deployed nothing is seen.
LEMMA OtherCalls ==
  ASSUME Ownership, LateInv, NEW c \in Clients, ClientStep(c) \/ Fail(c), ~Works(c)
  PROVE  UNCHANGED Unreliable!unreliableVars
<1>1. PluginTypeOK /\ ArgsOK
  BY LateTypes
<1>2. op' = op
  BY DEF ClientStep, Fail, ReadIndex, ReadMeta, MetaRaises, ListReturns, GetReturns, CheckCreate,
     CheckDelete, CheckUpdate, Stage, ClearEntry, EndClear, CopyEntry, EndCopy, WriteMeta,
     FlushMeta, CallLoad, ConnectionLost, Describe, Infer, CallUnload, Scan, PurgeEntry, EndPurge,
     Return, Proceed
<1>3. Standing(c)' = Standing(c)
  BY <1>2 DEF Standing, IsChange, Works
<1>4. Standings' = Standings /\ Change' = Change
  BY <1>2, <1>3, LateFrame DEF Standings, Change
<1>5. Deployment' = Deployment /\ Late' = Late
  <2>1. \A x \in Names : Deployment'[x] = Deployment[x] /\ Late'[x] = Late[x]
    BY LateFrame
  <2> QED
    BY <2>1 DEF Deployment, Late
<1> QED
  BY <1>4, <1>5 DEF Unreliable!unreliableVars

LEMMA BeginLate ==
  ASSUME Ownership, LateInv, NEW c \in Clients, Invoke(c) \/ RejectArguments(c)
  PROVE  (Unreliable!Ask(c) \/ Unreliable!Refuse(c)) /\ Late' = Late
<1>1. PluginTypeOK /\ pc[c] = "idle" /\ UNCHANGED <<repo, state, loads>>
  BY LateTypes DEF Invoke, RejectArguments, serverVars
<1>2. pc'[c] # "load"
  BY LoadFollows, <1>1 DEF WriteMeta
<1>3. \A x \in Names : Abandoned(x)' <=> Abandoned(x)
  <2>1. \A d \in Clients \ {c} : pc'[d] = pc[d] /\ op'[d] = op[d]
    BY LateTypes, OthersRest
  <2> QED
    BY <1>1, <1>2, <2>1 DEF Abandoned
<1>4. Deployment' = Deployment /\ Late' = Late
  BY <1>1, <1>3 DEF Deployment, Late
<1>5. PICK r \in Requests(c) : op' = [op EXCEPT ![c] = r]
  BY DEF Invoke, RejectArguments
<1>6. op'[c] = r
  BY <1>1, <1>5 DEF PluginTypeOK
<1>7. Standings[c] \in {"returned", "failed"}
  BY <1>1 DEF Standings, Standing
<1>8. IsChange(r) => r \in Unreliable!Changes
  BY PluginAssumption DEF IsChange, Requests, Unreliable!Changes
<1>9. Change'[c] = IF IsChange(r) THEN r ELSE NoChange
  BY <1>6 DEF Change
<1>10. ~IsChange(NoChange) /\ Unreliable!Idle = NoChange
  BY DEF IsChange, NoChange, Unreliable!Idle
<1>11. CASE Invoke(c)
  <2>1. pc'[c] \in {"index", "describe", "infer"}
    BY <1>1, <1>11 DEF Invoke, FirstSteps, Goto, PluginTypeOK
  <2>2. Standing(c)' = IF IsChange(r) THEN "waiting" ELSE "returned"
    BY <1>6, <2>1 DEF Standing, Made, Checked
  <2> QED
    BY <1>4, <1>7, <1>8, <1>9, <1>10, <2>2, LateFrame DEF Unreliable!Ask
<1>12. CASE RejectArguments(c)
  <2>1. pc'[c] = "idle" /\ res'[c] = "error"
    BY <1>1, <1>12 DEF RejectArguments, PluginTypeOK
  <2>2. Standing(c)' = IF IsChange(r) THEN "failed" ELSE "returned"
    BY <1>6, <2>1 DEF Standing
  <2>3. CASE IsChange(r)
    BY <1>4, <1>7, <1>8, <1>9, <2>2, <2>3, LateFrame DEF Unreliable!Refuse
  <2>4. CASE ~IsChange(r)
    BY <1>4, <1>7, <1>9, <1>10, <2>2, <2>4, LateFrame DEF Unreliable!Ask
  <2> QED
    BY <2>3, <2>4
<1> QED
  BY <1>11, <1>12

\* The metadata that a call reads of a READY model names an artifact.
LEMMA LookFinds ==
  ASSUME Ownership, LateInv, NEW c \in Clients, ReadMeta(c)
  PROVE  (op[c].name \in index'[c] \/ found'[c] # None)
           <=> (op[c].name \in index[c] \/ found[c] # None)
<1>1. PluginTypeOK
  BY LateTypes
<1>2. PICK x \in index[c] :
        /\ MetaReads(x)
        /\ index' = [index EXCEPT ![c] = @ \ {x}]
        /\ found' = [found EXCEPT ![c] = IF x = op[c].name THEN repo[x][MetaFile] ELSE @]
  BY DEF ReadMeta
<1>3. index'[c] = index[c] \ {x}
      /\ found'[c] = IF x = op[c].name THEN repo[x][MetaFile] ELSE found[c]
  BY <1>1, <1>2 DEF PluginTypeOK
<1>4. repo[x][MetaFile] # None
  BY <1>2, ValueFacts DEF MetaReads, Ownership
<1> QED
  BY <1>2, <1>3, <1>4

\* The change of a call is granted when it reads the index.
LEMMA LooksLate ==
  ASSUME Ownership, LateInv, NEW c \in Clients, Works(c), ReadIndex(c) \/ ReadMeta(c)
  PROVE  Unreliable!Grant(c) \/ UNCHANGED Unreliable!unreliableVars
<1> DEFINE n == op[c].name
<1>1. PluginTypeOK /\ ArgsOK /\ ClientStep(c) /\ n \in Names /\ IsChange(op[c])
  BY LateTypes DEF ClientStep, ArgsOK, Works, IsChange
<1>2. UNCHANGED <<Deployment, Late, Change, op, state>>
  BY <1>1, LateRests DEF ReadIndex, ReadMeta, Listing, WriteMeta, CallLoad, CallUnload
<1>3. Standings' = [Standings EXCEPT ![c] = Standing(c)'] /\ Standings[c] = Standing(c)
  BY <1>1, LateFrame DEF Standings
<1>4. CASE ReadMeta(c)
  <2>1. pc' = pc
    BY <1>4 DEF ReadMeta
  <2>2. Made(c)' = Made(c) /\ Checked(c)' = Checked(c)
    BY <1>2, <1>4, <2>1, LookFinds DEF Made, Checked
  <2>3. Standing(c)' = Standing(c)
    BY <1>2, <1>4, <2>1, <2>2 DEF ReadMeta, Standing
  <2> QED
    BY <1>2, <1>3, <2>3 DEF Standings, Unreliable!unreliableVars
<1>5. CASE ReadIndex(c)
  <2>1. /\ pc[c] \in {"index", "reindex"}
        /\ pc'[c] = IF pc[c] = "index" THEN "list" ELSE "relist"
        /\ index'[c] = ReadyNames /\ found'[c] = None
    BY <1>1, <1>5 DEF ReadIndex, Goto, PluginTypeOK
  <2>2. Standing(c) = "waiting"
    BY <1>1, <2>1 DEF Standing, Made, Checked
  <2>3. Standing(c)' = IF Checked(c)' THEN "granted" ELSE "waiting"
    BY <1>1, <1>2, <2>1 DEF Standing, Made
  <2>4. (n \in index'[c] \/ found'[c] # None) <=> state[n] = "READY"
    BY <1>1, <2>1 DEF ReadyNames
  <2>5. pc[c] = "reindex" => op[c].kind = "update"
    BY DEF LateInv, NamedHolds
  <2>6. ASSUME Checked(c)' PROVE op[c].kind = "create" <=> state[n] # "READY"
    BY <1>2, <2>1, <2>4, <2>5, <2>6 DEF Checked
  <2>7. Deployment[n] = None <=> state[n] # "READY"
    BY <1>1, LateTypes, ValueFacts DEF Deployment, ListInv, MetaKept, HasMeta
  <2>8. Change[c] = op[c]
    BY <1>1 DEF Change
  <2>9. CASE Checked(c)'
    BY <1>2, <1>3, <2>2, <2>3, <2>6, <2>7, <2>8, <2>9 DEF Unreliable!Grant, Unreliable!Applicable
  <2>10. CASE ~Checked(c)'
    BY <1>2, <1>3, <2>2, <2>3, <2>10 DEF Standings, Unreliable!unreliableVars
  <2> QED
    BY <2>9, <2>10
<1> QED
  BY <1>4, <1>5

\* A call that ends badly gives up its change.
LEMMA EndsLate ==
  ASSUME Ownership, LateInv, NEW c \in Clients, Works(c), pc[c] # "idle",
         pc'[c] = "idle", res'[c] = "error", op' = op
  PROVE  Standing(c) \in {"waiting", "granted", "done"} /\ Standing(c)' = "failed"
BY DEF Works, Standing, IsChange

\* The other steps of a change stay where they are or end it.
LEMMA RestLate ==
  ASSUME Ownership, LateInv, NEW c \in Clients, Works(c), ClientStep(c),
         ~ReadIndex(c), ~ReadMeta(c), ~WriteMeta(c), ~CallLoad(c), ~CallUnload(c)
  PROVE  Unreliable!Confirm(c) \/ Unreliable!GiveUp(c) \/ UNCHANGED Unreliable!unreliableVars
<1> DEFINE n == op[c].name
<1>1. /\ PluginTypeOK /\ ArgsOK /\ ListInv /\ n \in Names /\ IsChange(op[c])
      /\ pc[c] \notin {"clear", "flush"}
  BY LateTypes DEF ListInv, OwnEntries, ArgsOK, Works, IsChange
<1>2. UNCHANGED <<Deployment, Late, Change, op, state>>
  BY LateRests
<1>3. Standings' = [Standings EXCEPT ![c] = Standing(c)'] /\ Standings[c] = Standing(c)
  BY LateFrame DEF Standings
<1>4. Change[c] = op[c]
  BY <1>1 DEF Change
<1>5. pc[c] # "idle"
  BY DEF ClientStep, MetaRaises, ListReturns, GetReturns, CheckCreate,
     CheckDelete, CheckUpdate, Stage, ClearEntry, EndClear, CopyEntry, EndCopy,
     FlushMeta, ConnectionLost, Describe, Infer, Scan, PurgeEntry, EndPurge, Listing, Listed
<1>6. \/ pc'[c] = "idle" /\ res'[c] = "error"
      \/ pc[c] = "purge" /\ pc'[c] = "idle" /\ res'[c] = "ok"
      \/ pc'[c] # "idle" /\ Standing(c)' = Standing(c)
  <2>1. CASE CheckCreate(c) \/ CheckDelete(c) \/ CheckUpdate(c)
    <3>1. index[c] = {} /\ pc[c] \in {"list", "relist"}
      BY <2>1 DEF CheckCreate, CheckDelete, CheckUpdate, Listed, Listing
    <3>2. pc[c] = "relist" => op[c].kind = "update"
      BY DEF LateInv, NamedHolds
    <3>3. CASE pc'[c] = "idle"
      BY <1>1, <2>1, <3>3 DEF CheckCreate, CheckDelete, CheckUpdate, Return, Proceed, Goto, PluginTypeOK
    <3>4. CASE pc'[c] # "idle"
      <4>1. /\ op[c].kind = "create" => found[c] = None /\ pc'[c] = "download"
            /\ op[c].kind = "delete" => found[c] # None /\ pc'[c] = "unload"
            /\ op[c].kind = "update" =>
                 found[c] # None /\ pc'[c] = IF pc[c] = "list" THEN "reindex" ELSE "download"
        BY <1>1, <2>1, <3>4 DEF CheckCreate, CheckDelete, CheckUpdate, Return, Proceed, Goto,
           Exists, PluginTypeOK
      <4>2. Standing(c) = IF op[c].kind = "update" /\ pc[c] = "list" THEN "waiting" ELSE "granted"
        BY <1>1, <1>5, <3>1, <3>2, <4>1 DEF Standing, Made, Checked, IsChange
      <4>3. Standing(c)' = IF op[c].kind = "update" /\ pc[c] = "list" THEN "waiting" ELSE "granted"
        BY <1>1, <1>2, <3>1, <3>2, <4>1 DEF Standing, Made, Checked, IsChange
      <4> QED
        BY <3>4, <4>2, <4>3
    <3> QED
      BY <3>3, <3>4
  <2>2. CASE Stage(c) \/ CopyEntry(c) \/ EndCopy(c)
    <3>1. pc[c] \in {"download", "copy"} /\ pc'[c] \in {"copy", "meta"}
      BY <1>1, <2>2 DEF Stage, CopyEntry, EndCopy, Goto, Ownership, PluginTypeOK
    <3> QED
      BY <1>1, <1>2, <3>1 DEF Standing, Made, Checked
  <2>3. CASE ~(CheckCreate(c) \/ CheckDelete(c) \/ CheckUpdate(c)
               \/ Stage(c) \/ CopyEntry(c) \/ EndCopy(c))
    <3>1. \/ pc'[c] = "idle" /\ res'[c] = "error"
          \/ pc[c] = "purge" /\ pc'[c] = "idle" /\ res'[c] = "ok"
          \/ pc[c] \in {"scan", "purge"} /\ pc'[c] = "purge"
      <4>1. CASE MetaRaises(c) \/ ConnectionLost(c)
        BY <1>1, <4>1 DEF MetaRaises, ConnectionLost, Return, Goto, PluginTypeOK
      <4>2. CASE Scan(c)
        BY <1>1, <4>2 DEF Scan, Return, Goto, PluginTypeOK
      <4>3. CASE PurgeEntry(c) \/ EndPurge(c)
        BY <1>1, <4>3 DEF PurgeEntry, EndPurge, Return, Goto, Ownership, PluginTypeOK
      <4>4. ~(\/ ListReturns(c) \/ GetReturns(c) \/ ClearEntry(c) \/ EndClear(c)
              \/ FlushMeta(c) \/ Describe(c) \/ Infer(c))
        BY <1>1 DEF ListReturns, GetReturns, ClearEntry, EndClear, FlushMeta, Describe, Infer,
           ArgsOK, Works
      <4> QED
        BY <2>3, <4>1, <4>2, <4>3, <4>4 DEF ClientStep
    <3> QED
      BY <1>1, <1>2, <3>1 DEF Standing, Made
  <2> QED
    BY <2>1, <2>2, <2>3
<1>7. CASE pc'[c] = "idle" /\ res'[c] = "error"
  BY <1>2, <1>3, <1>5, <1>7, EndsLate DEF Unreliable!GiveUp
<1>8. CASE pc[c] = "purge" /\ pc'[c] = "idle" /\ res'[c] = "ok"
  <2>1. op[c].kind = "delete" /\ op[c].uri = None /\ state[n] # "READY"
    BY <1>1, <1>8 DEF ArgsOK, ListInv, PurgeIsLate, LateInv, NamedHolds
  <2>2. Deployment[n] = op[c].uri
    BY <1>1, <2>1 DEF Deployment
  <2>3. Standing(c) = "done" /\ Standing(c)' = "returned"
    BY <1>1, <1>2, <1>8 DEF Standing, Made
  <2> QED
    BY <1>2, <1>3, <1>4, <2>2, <2>3 DEF Unreliable!Confirm, Unreliable!ReturnOk
<1>9. CASE pc'[c] # "idle" /\ Standing(c)' = Standing(c)
  BY <1>2, <1>3, <1>9 DEF Standings, Unreliable!unreliableVars
<1> QED
  BY <1>6, <1>7, <1>8, <1>9

\* The metadata makes the change of a model that is READY; of another it takes the
\* place of what was abandoned.
LEMMA MetaLate ==
  ASSUME Ownership, LateInv, NEW c \in Clients, WriteMeta(c)
  PROVE  Unreliable!Make(c) \/ Unreliable!Forget(op[c].name)
<1> DEFINE n == op[c].name
<1>1. /\ PluginTypeOK /\ ArgsOK /\ RepoTypeOK /\ ClientStep(c)
      /\ n \in Names /\ IsChange(op[c]) /\ Works(c) /\ op[c].kind # "delete"
  BY LateTypes DEF ClientStep, WriteMeta, ArgsOK, Works, IsChange
<1>2. /\ UNCHANGED <<op, state, loads>> /\ pc[c] = "meta" /\ pc'[c] = "load"
      /\ repo' = [repo EXCEPT ![n][MetaFile] = op[c].uri]
  BY <1>1 DEF WriteMeta, Ownership, Goto, Put, PluginTypeOK, serverVars
<1>3. repo'[n][MetaFile] = op[c].uri
  BY <1>1, <1>2, KeyFacts DEF RepoTypeOK
<1>4. /\ Change' = Change /\ Change[c] = op[c]
      /\ Standings' = [Standings EXCEPT ![c] = Standing(c)']
      /\ \A x \in Names \ {n} : Deployment'[x] = Deployment[x] /\ Late'[x] = Late[x]
  BY <1>1, <1>2, LateFrame DEF Change
<1>5. Standings[c] = "granted" /\ Standing(c)' = IF state[n] = "READY" THEN "done" ELSE "granted"
  BY <1>1, <1>2 DEF Standings, Standing, Made, Checked
<1>6. Late'[n] = None
  BY <1>1, <1>2 DEF Late, Abandoned
<1>7. Late' = [Late EXCEPT ![n] = None]
  BY <1>4, <1>6 DEF Late
<1>8. CASE state[n] = "READY"
  <2>1. Late[n] = None
    BY <1>1, <1>8 DEF Late, Abandoned
  <2>2. Late' = Late
    BY <1>7, <2>1 DEF Late
  <2>3. Deployment'[n] = op[c].uri
    BY <1>1, <1>2, <1>3, <1>8 DEF Deployment
  <2>4. Deployment' = [Deployment EXCEPT ![n] = op[c].uri]
    BY <1>4, <2>3 DEF Deployment
  <2> QED
    BY <1>4, <1>5, <1>8, <2>2, <2>4 DEF Unreliable!Make
<1>9. CASE state[n] # "READY"
  <2>1. Deployment'[n] = Deployment[n]
    BY <1>1, <1>2, <1>9 DEF Deployment
  <2>2. Deployment' = Deployment
    BY <1>4, <2>1 DEF Deployment
  <2>3. Standings' = Standings
    BY <1>4, <1>5, <1>9 DEF Standings
  <2> QED
    BY <1>4, <1>7, <2>2, <2>3 DEF Unreliable!Forget
<1> QED
  BY <1>8, <1>9

\* The request for a load waits until no other load of the model is under way.
LEMMA LoadLate ==
  ASSUME Ownership, LateInv, NEW c \in Clients, CallLoad(c)
  PROVE  UNCHANGED Unreliable!unreliableVars
<1> DEFINE n == op[c].name
           new == [name |-> n, model |-> None, caller |-> c]
<1>1. /\ PluginTypeOK /\ ArgsOK /\ ClientStep(c)
      /\ n \in Names /\ IsChange(op[c]) /\ Works(c)
  BY LateTypes DEF ClientStep, CallLoad, ArgsOK, Works, IsChange
<1>2. /\ UNCHANGED <<op, state, repo>> /\ pc[c] = "load" /\ pc'[c] = "await"
      /\ n \notin LoadingNames /\ loads' = loads \cup {new}
  BY <1>1 DEF CallLoad, AcceptLoad, Goto, PluginTypeOK
<1>3. new.caller # None
  BY ValueFacts
<1> HIDE DEF new
<1>4. /\ Change' = Change
      /\ Standings' = [Standings EXCEPT ![c] = Standing(c)']
      /\ \A x \in Names \ {n} : Deployment'[x] = Deployment[x] /\ Late'[x] = Late[x]
  BY <1>1, <1>2, LateFrame DEF Change
<1>5. Standing(c)' = Standing(c)
  BY <1>1, <1>2 DEF Standing, Made, Checked
<1>6. Late[n] = None
  BY <1>1, <1>2 DEF Late, Abandoned
<1>7. Late'[n] = None
  <2>1. ~\E l \in loads' : l.name = n /\ l.caller = None
    BY <1>2, <1>3 DEF LoadingNames
  <2> QED
    BY <1>1, <2>1 DEF Late, Abandoned
<1>8. Deployment'[n] = Deployment[n]
  BY <1>1, <1>2 DEF Deployment
<1>9. Deployment' = Deployment
  BY <1>4, <1>8 DEF Deployment
<1>10. Late' = Late
  BY <1>4, <1>6, <1>7 DEF Late
<1>11. Standings' = Standings
  BY <1>4, <1>5 DEF Standings
<1> QED
  BY <1>4, <1>9, <1>10, <1>11 DEF Unreliable!unreliableVars

\* The unload makes the change of a delete, also when a restart came before it.
LEMMA UnloadLate ==
  ASSUME Ownership, LateInv, NEW c \in Clients, CallUnload(c)
  PROVE  Unreliable!Make(c)
<1> DEFINE n == op[c].name
<1>1. /\ PluginTypeOK /\ ArgsOK /\ ServerTypeOK /\ ClientStep(c)
      /\ n \in Names /\ IsChange(op[c]) /\ Works(c) /\ op[c].kind = "delete"
  BY LateTypes DEF ClientStep, CallUnload, ArgsOK, Works, IsChange
<1>2. /\ UNCHANGED <<op, loads>> /\ pc[c] = "unload" /\ pc'[c] = "scan"
      /\ n \notin LoadingNames /\ state'[n] # "READY"
  BY <1>1 DEF CallUnload, AcceptUnload, Goto, PluginTypeOK, ServerTypeOK
<1>3. op[c].uri = None
  BY <1>1 DEF LateInv, NamedHolds
<1>4. /\ Change' = Change /\ Change[c] = op[c]
      /\ Standings' = [Standings EXCEPT ![c] = Standing(c)']
      /\ \A x \in Names \ {n} : Deployment'[x] = Deployment[x] /\ Late'[x] = Late[x]
  BY <1>1, <1>2, LateFrame DEF Change
<1>5. Standings[c] = "granted" /\ Standing(c)' = "done"
  BY <1>1, <1>2 DEF Standings, Standing, Made, Checked
<1>6. Late[n] = None /\ Late'[n] = None
  BY <1>1, <1>2 DEF Late, Abandoned, LoadingNames
<1>7. Deployment'[n] = None
  BY <1>1, <1>2 DEF Deployment
<1>8. Late' = Late
  BY <1>4, <1>6 DEF Late
<1>9. Deployment' = [Deployment EXCEPT ![n] = None]
  BY <1>4, <1>7 DEF Deployment
<1> QED
  BY <1>3, <1>4, <1>5, <1>8, <1>9 DEF Unreliable!Make

\* An abandoned call leaves at most its own artifact to be deployed later.
LEMMA FailLate ==
  ASSUME Ownership, LateInv, NEW c \in Clients, Works(c), Fail(c)
  PROVE  Unreliable!GiveUp(c)
<1> DEFINE n == op[c].name
<1>1. /\ PluginTypeOK /\ ArgsOK /\ n \in Names /\ IsChange(op[c]) /\ MayFail
      /\ CallerInv /\ ServerTypeOK
  BY LateTypes DEF Fail, ArgsOK, Works, IsChange
<1>2. /\ UNCHANGED <<op, state, repo>> /\ pc[c] # "idle" /\ pc'[c] = "idle" /\ res'[c] = "error"
      /\ loads' = {IF l.caller = c THEN [l EXCEPT !.caller = None] ELSE l : l \in loads}
  BY <1>1 DEF Fail, Return, Goto, PluginTypeOK
<1>3. /\ Change' = Change /\ Change[c] = op[c] /\ Standings[c] = Standing(c)
      /\ Standings' = [Standings EXCEPT ![c] = Standing(c)']
      /\ \A x \in Names \ {n} : Deployment'[x] = Deployment[x] /\ Late'[x] = Late[x]
  BY <1>1, <1>2, LateFrame DEF Change, Standings
<1>4. Standing(c) \in {"waiting", "granted", "done"} /\ Standing(c)' = "failed"
  BY <1>2, EndsLate
<1>5. Deployment'[n] = Deployment[n]
  BY <1>1, <1>2 DEF Deployment
<1>6. Deployment' = Deployment
  BY <1>3, <1>5 DEF Deployment
<1>7. CASE pc[c] \in {"load", "await"}
  <2>1. repo[n][MetaFile] = op[c].uri /\ op[c].kind # "delete"
    BY <1>1, <1>7 DEF LateInv, NamedHolds, ArgsOK
  <2>2. CASE Abandoned(n)'
    <3>1. state[n] # "READY"
      BY <1>2, <2>2 DEF Abandoned
    <3>2. Standing(c) = "granted"
      BY <1>1, <1>7, <3>1 DEF Standing, Made, Checked
    <3>3. Late'[n] = op[c].uri
      BY <1>1, <1>2, <2>1, <2>2 DEF Late
    <3>4. Late' = [Late EXCEPT ![n] = op[c].uri]
      BY <1>3, <3>3 DEF Late
    <3> QED
      BY <1>1, <1>3, <1>4, <1>6, <2>1, <3>2, <3>4 DEF Unreliable!GiveUp
  <2>3. CASE ~Abandoned(n)'
    <3>1. ~Abandoned(n)
      <4>1. ASSUME Abandoned(n) PROVE FALSE
        <5>1. pc[c] = "await"
          BY <1>7, <4>1 DEF Abandoned
        <5>2. PICK l \in loads : l.name = n /\ l.caller = None
          BY <4>1 DEF Abandoned
        <5>3. l \in loads'
          BY <1>2, <5>2, ValueFacts
        <5>4. \A d \in Clients : pc'[d] = "load" => pc[d] = "load"
          BY <1>2, LateTypes, OthersRest
        <5> QED
          BY <1>2, <2>3, <4>1, <5>2, <5>3, <5>4 DEF Abandoned
      <4> QED
        BY <4>1
    <3>2. Late'[n] = Late[n]
      BY <1>1, <1>2, <2>3, <3>1 DEF Late
    <3>3. Late' = Late
      BY <1>3, <3>2 DEF Late
    <3> QED
      BY <1>3, <1>4, <1>6, <3>3 DEF Unreliable!GiveUp
  <2> QED
    BY <2>2, <2>3
<1>8. CASE pc[c] \notin {"load", "await"}
  <2>1. \A l \in loads : l.caller # c
    BY <1>1, <1>8, ValueFacts DEF CallerInv, Callers
  <2>2. loads' = loads
    BY <1>2, <2>1
  <2>3. \A x \in Names : (\E d \in Clients : pc'[d] = "load" /\ op'[d].name = x)
                         <=> \E d \in Clients : pc[d] = "load" /\ op[d].name = x
    BY <1>2, <1>8, LateTypes, OthersRest
  <2>4. \A x \in Names : Abandoned(x)' <=> Abandoned(x)
    BY <1>2, <2>2, <2>3 DEF Abandoned
  <2>5. Late' = Late
    BY <1>2, <2>4 DEF Late
  <2> QED
    BY <1>3, <1>4, <1>6, <2>5 DEF Unreliable!GiveUp
<1> QED
  BY <1>7, <1>8

\* The end of a load concerns its own model, and the calls that are about to load it.
LEMMA EndFrame ==
  ASSUME LateInv, NEW l \in loads, LoadEnds(l)
  PROVE  /\ UNCHANGED <<repo, op>> /\ Change' = Change /\ l.name \in Names
         /\ \A y \in Names : y # l.name => Deployment'[y] = Deployment[y] /\ Late'[y] = Late[y]
         /\ Late'[l.name] = None
         /\ \A d \in Clients :
              /\ d # l.caller
              /\ \/ op[d].name # l.name \/ pc[d] \notin {"load", "await"}
                 \/ state'[l.name] = "READY" <=> state[l.name] = "READY"
              => Standing(d)' = Standing(d)
<1>1. CallerInv /\ ServerTypeOK /\ ArgsOK
  BY LateTypes
<1>2. /\ loads' = loads \ {l} /\ UNCHANGED <<repo, op>>
      /\ \A d \in Clients : d # l.caller =>
           /\ pc'[d] = pc[d] /\ res'[d] = res[d] /\ found'[d] = found[d] /\ index'[d] = index[d]
      /\ \A d \in Clients : pc'[d] = "load" <=> pc[d] = "load"
  BY <1>1, AnswerEnds, ValueFacts
<1>3. /\ l.name \in Names
      /\ \A y \in Names : y # l.name => (state'[y] = "READY" <=> state[y] = "READY")
  BY <1>1 DEF LoadEnds, LoadSucceeds, LoadFails, ServerTypeOK, Loads
<1>4. \A m \in loads' : m.name # l.name
  BY <1>1, <1>2 DEF CallerInv, OneLoad
<1>5. \A y \in Names : y # l.name => (Abandoned(y)' <=> Abandoned(y))
  BY <1>2, <1>3 DEF Abandoned
<1>6. ~Abandoned(l.name)'
  BY <1>4 DEF Abandoned
<1>7. ASSUME NEW d \in Clients, d # l.caller,
             \/ op[d].name # l.name \/ pc[d] \notin {"load", "await"}
             \/ state'[l.name] = "READY" <=> state[l.name] = "READY"
      PROVE  Standing(d)' = Standing(d)
  <2>1. pc[d] \in {"load", "await"} => op[d].name \in Names
    BY <1>1 DEF ArgsOK
  <2>2. Made(d)' <=> Made(d)
    BY <1>2, <1>3, <1>7, <2>1 DEF Made
  <2>3. Checked(d)' <=> Checked(d)
    BY <1>2, <1>7 DEF Checked
  <2> QED
    BY <1>2, <1>7, <2>2, <2>3 DEF Standing
<1> QED
  BY <1>2, <1>3, <1>5, <1>6, <1>7 DEF Deployment, Late, Change

\* The answer of a load makes the change of the call that waits for it, confirms or ends it.
LEMMA AnswerLate ==
  ASSUME Ownership, LateInv, NEW l \in loads, LoadEnds(l), l.caller # None
  PROVE  Unreliable!Make(l.caller) \/ Unreliable!Confirm(l.caller) \/ Unreliable!GiveUp(l.caller)
<1> DEFINE n == l.name
<1>1. PICK c \in Clients : c = l.caller
  BY LateTypes, AnswerEnds
<1>2. /\ PluginTypeOK /\ ServerTypeOK /\ ArgsOK /\ CallerInv /\ ListInv
  BY LateTypes
<1>3. /\ pc[c] = "await" /\ pc'[c] = "idle" /\ op[c].name = n /\ UNCHANGED <<repo, op>>
      /\ n \in Names /\ Late'[n] = None
      /\ Change' = Change
  BY <1>1, <1>2, AnswerEnds, EndFrame DEF CallerInv, Callers
<1>4. /\ op[c].kind \in {"create", "update"} /\ IsChange(op[c]) /\ Works(c)
      /\ Change[c] = op[c] /\ repo[n][MetaFile] = op[c].uri
  BY <1>2, <1>3 DEF ArgsOK, IsChange, Works, Change, LateInv, NamedHolds
<1>5. Late' = Late
  <2>1. ~Orphan(n)
    BY <1>3 DEF LateInv, NamedHolds
  <2>2. Late[n] = None
    BY <1>3, <2>1 DEF Late, Abandoned, Orphan
  <2>3. \A y \in Names : Late'[y] = Late[y]
    BY <1>3, <2>2, EndFrame
  <2> QED
    BY <2>3 DEF Late
<1>6. Standings' = [Standings EXCEPT ![c] = Standing(c)']
  <2>1. ASSUME NEW d \in Clients \ {c} PROVE Standing(d)' = Standing(d)
    <3>1. op[d].name # n \/ pc[d] \notin {"load", "await"}
      BY <1>2, <1>3, <1>4, OneAtWork DEF ArgsOK
    <3> QED
      BY <1>1, <3>1, EndFrame
  <2> QED
    BY <2>1 DEF Standings
<1>7. Standings[c] = IF state[n] = "READY" THEN "done" ELSE "granted"
  BY <1>3, <1>4 DEF Standings, Standing, Made, Checked
<1>8. CASE LoadFails(l) /\ Answer(l, "error")
  <2>1. res'[c] = "error" /\ state' = state
    BY <1>1, <1>2, <1>8, ValueFacts DEF Answer, LoadFails, Return, PluginTypeOK
  <2>2. Standing(c)' = "failed"
    BY <1>3, <1>4, <2>1, EndsLate
  <2>3. Deployment' = Deployment
    BY <1>3, <2>1 DEF Deployment
  <2>4. Unreliable!GiveUp(c)
    BY <1>3, <1>5, <1>6, <1>7, <2>2, <2>3 DEF Unreliable!GiveUp
  <2> QED
    BY <1>1, <2>4
<1>9. CASE LoadSucceeds(l) /\ Answer(l, "ok")
  <2>1. res'[c] = "ok" /\ state' = [state EXCEPT ![n] = "READY"]
    BY <1>1, <1>2, <1>9, ValueFacts DEF Answer, LoadSucceeds, Return, PluginTypeOK
  <2>2. Standing(c)' = "returned"
    BY <1>3, <1>4, <2>1 DEF Standing
  <2>3. Deployment'[n] = op[c].uri
    BY <1>2, <1>3, <1>4, <2>1 DEF Deployment, ServerTypeOK
  <2>4. Deployment' = [Deployment EXCEPT ![n] = op[c].uri]
    BY <2>3, EndFrame DEF Deployment
  <2>5. CASE state[n] = "READY"
    <3>1. Deployment[n] = op[c].uri
      BY <1>3, <1>4, <2>5 DEF Deployment
    <3>2. Deployment' = Deployment
      BY <2>4, <3>1 DEF Deployment
    <3>3. Unreliable!Confirm(c)
      BY <1>3, <1>4, <1>5, <1>6, <1>7, <2>2, <2>5, <3>1, <3>2
         DEF Unreliable!Confirm, Unreliable!ReturnOk
    <3> QED
      BY <1>1, <3>3
  <2>6. CASE state[n] # "READY"
    <3>1. Unreliable!Make(c)
      BY <1>3, <1>4, <1>5, <1>6, <1>7, <2>2, <2>4, <2>6 DEF Unreliable!Make
    <3> QED
      BY <1>1, <3>1
  <2> QED
    BY <2>5, <2>6
<1> QED
  BY <1>8, <1>9 DEF LoadEnds

\* A load that nobody waits for makes what was abandoned, or the change of the call that
\* has written its metadata meanwhile, or nothing.
LEMMA OrphanLate ==
  ASSUME Ownership, LateInv, NEW l \in loads, LoadEnds(l), l.caller = None
  PROVE  Unreliable!UnreliableNext \/ UNCHANGED Unreliable!unreliableVars
<1> DEFINE n == l.name
<1>1. /\ ServerTypeOK /\ ArgsOK /\ ListInv /\ n \in LoadingNames /\ Orphan(n)
  BY LateTypes DEF LoadingNames, Orphan
<1>2. /\ UNCHANGED <<repo, op>> /\ Change' = Change /\ n \in Names /\ Late'[n] = None
      /\ \A y \in Names : y # n => Deployment'[y] = Deployment[y] /\ Late'[y] = Late[y]
  BY EndFrame
<1>3. \A d \in Clients : d # l.caller
  BY <1>1, ValueFacts
<1>4. Late' = [Late EXCEPT ![n] = None]
  <2>1. \A y \in Names : Late'[y] = IF y = n THEN None ELSE Late[y]
    BY <1>2
  <2> QED
    BY <1>2, <2>1 DEF Late
<1>5. CASE state'[n] = "READY" <=> state[n] = "READY"
  <2>1. Standings' = Standings
    BY <1>3, <1>5, EndFrame DEF Standings
  <2>2. Deployment'[n] = Deployment[n]
    BY <1>2, <1>5 DEF Deployment
  <2>3. Deployment' = Deployment
    BY <1>2, <2>2 DEF Deployment
  <2>4. Unreliable!Forget(n)
    BY <1>2, <1>4, <2>1, <2>3 DEF Unreliable!Forget
  <2> QED
    BY <1>2, <2>4 DEF Unreliable!UnreliableNext
<1>6. CASE ~(state'[n] = "READY" <=> state[n] = "READY")
  <2>1. state[n] # "READY" /\ state'[n] = "READY"
    BY <1>1, <1>2, <1>6 DEF LoadEnds, LoadSucceeds, LoadFails, ServerTypeOK
  <2>2. Deployment[n] = None /\ Deployment'[n] = repo[n][MetaFile]
    BY <1>2, <2>1 DEF Deployment
  <2>3. Deployment' = [Deployment EXCEPT ![n] = repo[n][MetaFile]]
    BY <1>2, <2>2 DEF Deployment
  <2>4. \A d \in Clients : op[d].name = n => pc[d] # "await"
    BY <1>1 DEF LateInv, NamedHolds
  <2>5. CASE \E d \in Clients : pc[d] = "load" /\ op[d].name = n
    <3>1. PICK c \in Clients : pc[c] = "load" /\ op[c].name = n
      BY <2>5
    <3>2. /\ IsChange(op[c]) /\ op[c].kind \in {"create", "update"} /\ Change[c] = op[c]
          /\ repo[n][MetaFile] = op[c].uri
      BY <1>1, <3>1 DEF ArgsOK, IsChange, Change, LateInv, NamedHolds
    <3>3. Late[n] = None
      BY <1>2, <3>1 DEF Late, Abandoned
    <3>4. Late' = Late
      BY <1>4, <3>3 DEF Late
    <3>5. ASSUME NEW d \in Clients \ {c} PROVE Standing(d)' = Standing(d)
      <4>1. op[d].name # n \/ pc[d] \notin {"load", "await"}
        BY <1>1, <3>1, <3>2, OneAtWork DEF ArgsOK
      <4> QED
        BY <1>3, <4>1, EndFrame
    <3>6. pc'[c] = "load"
      BY <1>3, <3>1, AnswerEnds DEF LateInv
    <3>7. Standings[c] = "granted" /\ Standing(c)' = "done"
      BY <1>2, <2>1, <3>1, <3>2, <3>6 DEF Standings, Standing, Made, Checked
    <3>8. Standings' = [Standings EXCEPT ![c] = "done"]
      BY <3>5, <3>7 DEF Standings
    <3>9. Unreliable!Make(c)
      BY <1>2, <2>3, <3>1, <3>2, <3>4, <3>7, <3>8 DEF Unreliable!Make
    <3> QED
      BY <3>9 DEF Unreliable!UnreliableNext
  <2>6. CASE ~\E d \in Clients : pc[d] = "load" /\ op[d].name = n
    <3>1. Standings' = Standings
      <4>1. \A d \in Clients : op[d].name # n \/ pc[d] \notin {"load", "await"}
        BY <2>4, <2>6
      <4> QED
        BY <1>3, <4>1, EndFrame DEF Standings
    <3>2. Late[n] = repo[n][MetaFile]
      BY <1>1, <1>2, <2>1, <2>6 DEF Late, Abandoned, Orphan
    <3>3. repo[n][MetaFile] # None
      BY <1>1, <1>2, ValueFacts DEF ListInv, MetaKept, HasMeta
    <3>4. Unreliable!MakeLate(n)
      BY <1>2, <1>4, <2>2, <2>3, <3>1, <3>2, <3>3 DEF Unreliable!MakeLate
    <3> QED
      BY <1>2, <3>4 DEF Unreliable!UnreliableNext
  <2> QED
    BY <2>5, <2>6
<1> QED
  BY <1>5, <1>6

LEMMA ServerLate ==
  ASSUME Ownership, LateInv, NEW x \in Names, ReadStep(x) \/ EndStep(x) \/ UnloadStep(x)
  PROVE  Unreliable!UnreliableNext \/ UNCHANGED Unreliable!unreliableVars
<1>1. CASE EndStep(x)
  <2>1. PICK l \in loads : LoadEnds(l)
    BY <1>1 DEF EndStep
  <2>2. l.caller # None => l.caller \in Clients
    BY <2>1, LateTypes, AnswerEnds
  <2> QED
    BY <2>1, <2>2, AnswerLate, OrphanLate DEF Unreliable!UnreliableNext
<1>2. CASE ReadStep(x) \/ UnloadStep(x)
  <2>1. UNCHANGED <<repo, pc, op, res, found, index>>
    BY <1>2 DEF ReadStep, UnloadStep, clientVars
  <2>2. \A y \in Names : /\ state'[y] = "READY" <=> state[y] = "READY"
                         /\ Orphan(y)' <=> Orphan(y)
    <3>1. CASE ReadStep(x)
      <4>1. PICK l \in loads, m \in NewestContent(x) :
              state' = state /\ loads' = (loads \ {l}) \cup {[l EXCEPT !.model = m]}
        BY <3>1 DEF ReadStep, ServerReads
      <4>2. [l EXCEPT !.model = m].name = l.name /\ [l EXCEPT !.model = m].caller = l.caller
        BY LateTypes DEF ServerTypeOK, Loads
      <4> QED
        BY <4>1, <4>2 DEF Orphan
    <3>2. CASE UnloadStep(x)
      BY <3>2, LateTypes DEF UnloadStep, FinishUnload, ServerTypeOK, Orphan
    <3> QED
      BY <1>2, <3>1, <3>2
  <2>3. \A d \in Clients : pc[d] \in {"load", "await"} => op[d].name \in Names
    BY LateTypes DEF ArgsOK
  <2>4. Deployment' = Deployment
    BY <2>1, <2>2 DEF Deployment
  <2>5. \A y \in Names : Abandoned(y)' <=> Abandoned(y)
    BY <2>1, <2>2 DEF Abandoned, Orphan
  <2>6. Late' = Late
    BY <2>1, <2>5 DEF Late
  <2>7. \A d \in Clients : (Made(d)' <=> Made(d)) /\ (Checked(d)' <=> Checked(d))
    BY <2>1, <2>2, <2>3 DEF Made, Checked
  <2>8. Standings' = Standings /\ Change' = Change
    BY <2>1, <2>7 DEF Standings, Standing, Change
  <2> QED
    BY <2>4, <2>6, <2>8 DEF Unreliable!unreliableVars
<1> QED
  BY <1>1, <1>2

\* A restart loses all deployments, and the loads nobody waits for.
LEMMA RestartLate ==
  ASSUME LateInv, RestartStep
  PROVE  Unreliable!Lose
<1>1. /\ MayRestart /\ UNCHANGED <<repo, pc, op, res, found, index>>
      /\ state' = [n \in Names |-> "UNAVAILABLE"] /\ loads' = {}
  BY DEF RestartStep, Restart, clientVars
<1>2. Deployment' = [n \in Names |-> None] /\ Change' = Change
  BY <1>1 DEF Deployment, Change
<1>3. Late' = [n \in Names |-> None]
  <2>1. \A n \in Names : ~Abandoned(n)'
    BY <1>1 DEF Abandoned
  <2> QED
    BY <2>1 DEF Late
<1>4. ASSUME NEW d \in Clients
      PROVE  Standing(d)' = IF Standings[d] = "done" /\ Change[d].kind # "delete"
                            THEN "granted" ELSE Standings[d]
  <2>1. /\ pc[d] \in {"scan", "purge"} => op[d].kind = "delete"
        /\ pc[d] \in {"load", "await"} => op[d].kind # "delete" /\ op[d].name \in Names
    BY LateTypes DEF ArgsOK
  <2>2. Checked(d)' <=> Checked(d)
    BY <1>1 DEF Checked
  <2>3. Made(d)' <=> pc[d] \in {"scan", "purge"}
    BY <1>1, <2>1 DEF Made
  <2>4. pc[d] \in {"load", "await"} => Checked(d)
    BY DEF Checked
  <2>5. CASE ~IsChange(op[d]) \/ pc[d] = "idle"
    BY <1>1, <2>5 DEF Standings, Standing
  <2>6. CASE IsChange(op[d]) /\ pc[d] # "idle"
    BY <1>1, <2>1, <2>2, <2>3, <2>4, <2>6 DEF Standings, Standing, Made, Change
  <2> QED
    BY <2>5, <2>6
<1>5. Standings' = [c \in Clients |->
        IF Standings[c] = "done" /\ Change[c].kind # "delete" THEN "granted" ELSE Standings[c]]
  BY <1>4 DEF Standings
<1> QED
  BY <1>1, <1>2, <1>3, <1>5 DEF Unreliable!Lose

\* With one client for each name, none of which begins another, on S3, whatever calls are
\* abandoned and however often the server is restarted: a create, update or delete is made
\* only after it saw its name as it must be, at most the last abandoned change of a name is
\* made later, when nothing is deployed under it, a restart loses all, and a call that
\* returns ok does so while its change stands (deployments.py, all methods).
THEOREM UnreliableImplemented == Ownership => (Spec => ImplementsUnreliableStore)
<1> SUFFICES ASSUME Ownership PROVE Spec => ImplementsUnreliableStore
  OBVIOUS
<1>1. Init => LateInv /\ Unreliable!UnreliableInit
  <2> SUFFICES ASSUME Init PROVE LateInv /\ Unreliable!UnreliableInit
    OBVIOUS
  <2>1. /\ \A c \in Clients : pc[c] = "idle" /\ op[c] = [kind |-> "list", name |-> None, uri |-> None]
        /\ loads = {} /\ \A n \in Names : state[n] = "UNAVAILABLE"
    BY DEF Init, ServerInit, Ownership
  <2>2. \A c \in Clients : NamedHolds(c)
    BY <2>1 DEF NamedHolds
  <2>3. Unreliable!StoreInit
    BY <2>1 DEF Unreliable!StoreInit, Unreliable!Idle, Deployment, Change, Standings, Standing,
       IsChange, NoChange
  <2>4. Late = [n \in Names |-> None]
    BY <2>1 DEF Late, Abandoned
  <2> QED
    BY <2>2, <2>3, <2>4, InitListInv, InitCallerInv DEF LateInv, Unreliable!UnreliableInit
<1>2. LateInv /\ [Next]_vars => LateInv'
  BY NextLateInv
<1>3. LateInv /\ [Next]_vars => [Unreliable!UnreliableNext]_(Unreliable!unreliableVars)
  <2> SUFFICES ASSUME LateInv, [Next]_vars
               PROVE  Unreliable!UnreliableNext \/ UNCHANGED Unreliable!unreliableVars
    OBVIOUS
  <2>1. CASE UNCHANGED vars
    BY <2>1 DEF vars, Unreliable!unreliableVars, Deployment, Change, Standings, Standing, Made,
       Checked, IsChange, Late, Abandoned
  <2>2. ASSUME NEW c \in Clients, Invoke(c) \/ RejectArguments(c)
        PROVE  Unreliable!UnreliableNext
    BY <2>2, BeginLate DEF Unreliable!UnreliableNext
  <2>3. ASSUME NEW c \in Clients, ClientStep(c), Works(c)
        PROVE  Unreliable!UnreliableNext \/ UNCHANGED Unreliable!unreliableVars
    <3>1. op[c].name \in Names
      BY <2>3, LateTypes DEF ArgsOK, Works
    <3>2. CASE ReadIndex(c) \/ ReadMeta(c)
      BY <2>3, <3>2, LooksLate DEF Unreliable!UnreliableNext
    <3>3. CASE WriteMeta(c)
      BY <3>1, <3>3, MetaLate DEF Unreliable!UnreliableNext
    <3>4. CASE CallLoad(c)
      BY <3>4, LoadLate
    <3>5. CASE CallUnload(c)
      BY <3>5, UnloadLate DEF Unreliable!UnreliableNext
    <3>6. CASE ~(ReadIndex(c) \/ ReadMeta(c) \/ WriteMeta(c) \/ CallLoad(c) \/ CallUnload(c))
      BY <2>3, <3>6, RestLate DEF Unreliable!UnreliableNext
    <3> QED
      BY <3>2, <3>3, <3>4, <3>5, <3>6
  <2>4. ASSUME NEW c \in Clients, Fail(c), Works(c)
        PROVE  Unreliable!UnreliableNext
    BY <2>4, FailLate DEF Unreliable!UnreliableNext
  <2>5. RestartStep => Unreliable!UnreliableNext
    BY RestartLate DEF Unreliable!UnreliableNext
  <2> QED
    BY <2>1, <2>2, <2>3, <2>4, <2>5, OtherCalls, ServerLate DEF Next
<1> QED
  BY <1>1, <1>2, <1>3, PTL DEF Spec, ImplementsUnreliableStore, Unreliable!UnreliableSpec
==============================================================================
