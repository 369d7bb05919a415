------------------------- MODULE TritonPluginProofs -------------------------
(***************************************************************************)
(* Theorems about TritonPlugin: types, that calls move on and edit their   *)
(* own model only, and that on S3 the metadata of each READY model can be  *)
(* read whatever fails, given clients with names of their own none of      *)
(* which begins another.                                                   *)
(***************************************************************************)
EXTENDS TritonPlugin, TLAPS

USE DEF None, EmptyDir, Torn, Foreign

\* The entries the actions write are entries of a model.
LEMMA KeyFacts ==
  /\ MetaFile \in Keys /\ ConfigFile \in Keys /\ FirstVersion \in Keys
  /\ MetaFile # ConfigFile /\ MetaFile # FirstVersion
  /\ MetaFile \notin Slots
  /\ GlobModel \subseteq Slots
  /\ \A u \in Uris : CopySlots(u) \subseteq Slots
  /\ Slots \subseteq Keys
BY EntryAssumption, ArtifactAssumption DEF Keys, Slots, CopySlots

LEMMA ValueFacts ==
  /\ None \in Contents /\ EmptyDir \in Contents /\ Torn \in Contents
  /\ Foreign \in Contents /\ Uris \subseteq Contents
  /\ None \notin Uris /\ Torn \notin Uris /\ EmptyDir \notin Uris /\ Foreign \notin Uris
  /\ None \notin Names /\ None \notin Clients
BY ValueAssumption, ClientAssumption DEF Contents

\* A return keeps the types and the arguments.
LEMMA ReturnType ==
  ASSUME PluginTypeOK, ArgsOK, NEW c \in Clients, NEW r \in {"ok", "error"}, Return(c, r)
  PROVE  PluginTypeOK' /\ ArgsOK'
BY ValueFacts DEF PluginTypeOK, ArgsOK, Return, Goto, Locations

\* So does going on to another step.
LEMMA PutType ==
  ASSUME RepoTypeOK, NEW x \in Names, NEW k \in Keys, NEW v \in Contents, Put(x, k, v)
  PROVE  RepoTypeOK'
BY DEF RepoTypeOK, Put

LEMMA InitTypeOK == Init => TypeOK
<1> SUFFICES ASSUME Init PROVE TypeOK
  OBVIOUS
<1>1. RepoTypeOK
  BY ValueFacts DEF Init, RepoInit, RepoTypeOK
<1>2. ServerTypeOK
  BY ValueFacts DEF Init, ServerInit, ServerTypeOK, States
<1>3. PluginTypeOK
  BY ValueFacts DEF Init, PluginTypeOK, Locations, Ops, Kinds
<1>4. ArgsOK
  BY DEF Init, ArgsOK
<1> QED
  BY <1>1, <1>2, <1>3, <1>4 DEF TypeOK

\* A step that leaves the repository and the server alone keeps their types.
LEMMA FrameType ==
  /\ RepoTypeOK /\ UNCHANGED repo => RepoTypeOK'
  /\ ServerTypeOK /\ UNCHANGED serverVars => ServerTypeOK'
  /\ PluginTypeOK /\ ArgsOK /\ UNCHANGED clientVars => PluginTypeOK' /\ ArgsOK'
BY DEF RepoTypeOK, ServerTypeOK, PluginTypeOK, ArgsOK, serverVars, clientVars

\* What a client does on its own keeps the types.
LEMMA ClientTypeOK ==
  ASSUME TypeOK, NEW c \in Clients,
         Invoke(c) \/ RejectArguments(c) \/ ClientStep(c) \/ Fail(c)
  PROVE  TypeOK'
<1> USE DEF TypeOK
<1> DEFINE Rest == RepoTypeOK' /\ ServerTypeOK'
           Mine == PluginTypeOK' /\ ArgsOK'
<1>1. CASE Invoke(c)
  <2>1. Rest
    BY <1>1, FrameType DEF Invoke
  <2>2. PICK r \in Requests(c) : /\ op' = [op EXCEPT ![c] = r]
                               /\ \E l \in FirstSteps(r.kind) : Goto(c, l)
    BY <1>1 DEF Invoke
  <2>3. r \in Ops /\ (r.kind # "list" => r.name \in Names)
                 /\ (r.kind \in {"create", "update"} => r.uri \in Uris)
    BY PluginAssumption DEF Requests, Ops, Kinds
  <2>4. Mine
    BY <1>1, <2>2, <2>3, ValueFacts
    DEF Invoke, FirstSteps, Goto, PluginTypeOK, ArgsOK, Locations
  <2> QED
    BY <2>1, <2>4
<1>2. CASE RejectArguments(c)
  <2>1. Rest
    BY <1>2, FrameType DEF RejectArguments
  <2>2. PICK r \in Requests(c) : op' = [op EXCEPT ![c] = r]
    BY <1>2 DEF RejectArguments
  <2>3. r \in Ops /\ (r.kind # "list" => r.name \in Names)
                 /\ (r.kind \in {"create", "update"} => r.uri \in Uris)
    BY PluginAssumption DEF Requests, Ops, Kinds
  <2>4. Mine
    BY <1>2, <2>2, <2>3, ValueFacts DEF RejectArguments, PluginTypeOK, ArgsOK, Locations
  <2> QED
    BY <2>1, <2>4
<1>3. CASE ReadIndex(c)
  BY <1>3, FrameType, ValueFacts
  DEF ReadIndex, Goto, PluginTypeOK, ArgsOK, Locations, ReadyNames
<1>4. CASE ReadMeta(c)
  <2>1. PICK x \in index[c] : /\ MetaReads(x)
                             /\ index' = [index EXCEPT ![c] = @ \ {x}]
                             /\ found' = [found EXCEPT ![c] =
                                   IF x = op[c].name THEN repo[x][MetaFile] ELSE @]
    BY <1>4 DEF ReadMeta
  <2>2. repo[x][MetaFile] \in Contents
    BY <2>1, ValueFacts DEF MetaReads
  <2>3. Mine
    BY <1>4, <2>1, <2>2 DEF ReadMeta, PluginTypeOK, ArgsOK
  <2> QED
    BY <1>4, <2>3, FrameType DEF ReadMeta
<1>5. CASE MetaRaises(c)
  BY <1>5, FrameType, ReturnType DEF MetaRaises
<1>6. CASE ListReturns(c)
  BY <1>6, FrameType, ReturnType DEF ListReturns
<1>7. CASE GetReturns(c)
  BY <1>7, FrameType, ReturnType DEF GetReturns
<1>8. CASE CheckCreate(c)
  BY <1>8, FrameType, ReturnType, ValueFacts
  DEF CheckCreate, Proceed, Goto, PluginTypeOK, ArgsOK, Locations
<1>9. CASE CheckDelete(c)
  BY <1>9, FrameType, ReturnType, ValueFacts
  DEF CheckDelete, Proceed, Goto, PluginTypeOK, ArgsOK, Locations
<1>10. CASE CheckUpdate(c)
  BY <1>10, FrameType, ReturnType, ValueFacts
  DEF CheckUpdate, Proceed, Goto, PluginTypeOK, ArgsOK, Locations
<1>11. CASE Stage(c)
  <2>1. op[c].name \in Names /\ op[c].uri \in Uris
    BY <1>11 DEF Stage, ArgsOK
  <2>2. RepoTypeOK'
    BY <1>11, <2>1, KeyFacts, ValueFacts, PutType, FrameType DEF Stage
  <2>3. todo' \in [Clients -> SUBSET (Names \X Keys)]
    BY <1>11, <2>1, KeyFacts DEF Stage, Entries, Present, PluginTypeOK
  <2>4. Mine
    BY <1>11, <2>3 DEF Stage, Goto, PluginTypeOK, ArgsOK, Locations
  <2> QED
    BY <1>11, <2>2, <2>4, FrameType DEF Stage
<1>12. CASE ClearEntry(c)
  BY <1>12, ValueFacts, PutType, FrameType, ReturnType
  DEF ClearEntry, PluginTypeOK, ArgsOK
<1>13. CASE EndClear(c)
  <2>1. op[c].name \in Names /\ op[c].uri \in Uris
    BY <1>13 DEF EndClear, ArgsOK
  <2>2. Entries(op[c].name, CopySlots(op[c].uri)) \in SUBSET (Names \X Keys)
    BY <2>1, KeyFacts DEF Entries
  <2>3. Mine
    BY <1>13, <2>2, ReturnType DEF EndClear, Goto, PluginTypeOK, ArgsOK, Locations
  <2> QED
    BY <1>13, <2>3, FrameType DEF EndClear
<1>14. CASE CopyEntry(c)
  <2>1. op[c].uri \in Uris
    BY <1>14 DEF CopyEntry, ArgsOK
  <2>2. RepoTypeOK'
    BY <1>14, <2>1, ValueFacts, PutType DEF CopyEntry, PluginTypeOK
  <2>3. Mine
    BY <1>14 DEF CopyEntry, PluginTypeOK, ArgsOK
  <2> QED
    BY <1>14, <2>2, <2>3, FrameType DEF CopyEntry
<1>15. CASE EndCopy(c)
  <2>1. op[c].name \in Names
    BY <1>15 DEF EndCopy, ArgsOK
  <2>2. RepoTypeOK'
    BY <1>15, <2>1, KeyFacts, ValueFacts, PutType, FrameType DEF EndCopy
  <2>3. Mine
    BY <1>15 DEF EndCopy, Goto, PluginTypeOK, ArgsOK, Locations
  <2> QED
    BY <1>15, <2>2, <2>3, FrameType DEF EndCopy
<1>16. CASE WriteMeta(c)
  <2>1. op[c].name \in Names /\ op[c].uri \in Uris
    BY <1>16 DEF WriteMeta, ArgsOK
  <2>2. RepoTypeOK'
    BY <1>16, <2>1, KeyFacts, ValueFacts, PutType DEF WriteMeta
  <2>3. Mine
    BY <1>16 DEF WriteMeta, Goto, PluginTypeOK, ArgsOK, Locations
  <2> QED
    BY <1>16, <2>2, <2>3, FrameType DEF WriteMeta
<1>17. CASE FlushMeta(c)
  <2>1. op[c].name \in Names /\ op[c].uri \in Uris
    BY <1>17 DEF FlushMeta, ArgsOK
  <2>2. RepoTypeOK'
    BY <1>17, <2>1, KeyFacts, ValueFacts, PutType DEF FlushMeta
  <2>3. Mine
    BY <1>17 DEF FlushMeta, Goto, PluginTypeOK, ArgsOK, Locations
  <2> QED
    BY <1>17, <2>2, <2>3, FrameType DEF FlushMeta
<1>18. CASE CallLoad(c)
  <2>1. op[c].name \in Names
    BY <1>18 DEF CallLoad, ArgsOK
  <2>2. ServerTypeOK'
    BY <1>18, <2>1, ValueFacts DEF CallLoad, AcceptLoad, ServerTypeOK, Loads
  <2>3. Mine
    BY <1>18 DEF CallLoad, Goto, PluginTypeOK, ArgsOK, Locations
  <2> QED
    BY <1>18, <2>2, <2>3, FrameType DEF CallLoad
<1>19. CASE CallUnload(c)
  <2>1. ServerTypeOK'
    BY <1>19 DEF CallUnload, AcceptUnload, ServerTypeOK, States
  <2>2. Mine
    BY <1>19 DEF CallUnload, Goto, PluginTypeOK, ArgsOK, Locations
  <2> QED
    BY <1>19, <2>1, <2>2, FrameType DEF CallUnload
<1>20. CASE Scan(c)
  <2>1. op[c].name \in Names
    BY <1>20 DEF Scan, ArgsOK
  <2>2. \A E \in Page(Doomed(op[c].name)) : E \in SUBSET (Names \X Keys)
    BY <2>1, NameAssumption DEF Page, Doomed, Entries, Present
  <2>3. Mine
    BY <1>20, <2>2, ReturnType DEF Scan, Goto, PluginTypeOK, ArgsOK, Locations
  <2> QED
    BY <1>20, <2>3, FrameType DEF Scan
<1>21. CASE PurgeEntry(c)
  BY <1>21, ValueFacts, PutType, FrameType, ReturnType
  DEF PurgeEntry, PluginTypeOK, ArgsOK
<1>22. CASE EndPurge(c)
  <2>1. op[c].name \in Names
    BY <1>22 DEF EndPurge, ArgsOK
  <2>2. RepoTypeOK'
    BY <1>22, <2>1, KeyFacts, ValueFacts, PutType, FrameType DEF EndPurge
  <2> QED
    BY <1>22, <2>2, FrameType, ReturnType DEF EndPurge
<1>23. CASE Fail(c)
  <2>1. ServerTypeOK'
    BY <1>23, ValueFacts DEF Fail, ServerTypeOK, Loads
  <2> QED
    BY <1>23, <2>1, FrameType, ReturnType DEF Fail
<1>24. CASE ConnectionLost(c)
  BY <1>24, FrameType, ReturnType DEF ConnectionLost
<1>25. CASE Describe(c)
  <2>1. served[op[c].name] \in Contents
    BY <1>25 DEF Describe, ArgsOK, ServerTypeOK
  <2>2. Mine
    BY <1>25, <2>1, ReturnType DEF Describe, Goto, PluginTypeOK, ArgsOK, Locations
  <2> QED
    BY <1>25, <2>2, FrameType DEF Describe
<1>26. CASE Infer(c)
  BY <1>26, FrameType, ReturnType DEF Infer
<1> QED
  BY <1>1, <1>2, <1>3, <1>4, <1>5, <1>6, <1>7, <1>8, <1>9, <1>10, <1>11, <1>12,
     <1>13, <1>14, <1>15, <1>16, <1>17, <1>18, <1>19, <1>20, <1>21, <1>22, <1>23,
     <1>24, <1>25, <1>26
  DEF ClientStep

\* So does what the server does on its own.
LEMMA ServerStepTypeOK ==
  ASSUME TypeOK, NEW x \in Names, ReadStep(x) \/ EndStep(x) \/ UnloadStep(x)
  PROVE  TypeOK'
<1> USE DEF TypeOK
<1>1. CASE ReadStep(x)
  <2>1. NewestContent(x) \subseteq Contents
    BY DEF NewestContent, Present, Keys, RepoTypeOK
  <2>2. ServerTypeOK'
    BY <1>1, <2>1 DEF ReadStep, ServerReads, ServerTypeOK, Loads
  <2> QED
    BY <1>1, <2>2, FrameType DEF ReadStep
<1>2. CASE EndStep(x)
  <2>1. PICK l \in loads : LoadEnds(l)
    BY <1>2 DEF EndStep
  <2>2. l \in Loads
    BY DEF ServerTypeOK
  <2>3. ServerTypeOK'
    BY <2>1, <2>2, ValueFacts
    DEF LoadEnds, LoadSucceeds, LoadFails, ServerTypeOK, States, Loads
  <2>4. PluginTypeOK' /\ ArgsOK'
    <3>1. PICK r \in {"ok", "error"} : Answer(l, r)
      BY <2>1 DEF LoadEnds
    <3> QED
      BY <2>2, <3>1, FrameType, ReturnType DEF Answer, Loads
  <2> QED
    BY <2>1, <2>3, <2>4, FrameType DEF LoadEnds
<1>3. CASE UnloadStep(x)
  <2>1. ServerTypeOK'
    BY <1>3, ValueFacts DEF UnloadStep, FinishUnload, ServerTypeOK, States
  <2> QED
    BY <1>3, <2>1, FrameType DEF UnloadStep
<1> QED
  BY <1>1, <1>2, <1>3

\* And a restart of the server.
LEMMA RestartTypeOK == TypeOK /\ RestartStep => TypeOK'
<1> SUFFICES ASSUME TypeOK, RestartStep PROVE TypeOK'
  OBVIOUS
<1>1. ServerTypeOK'
  BY ValueFacts DEF RestartStep, Restart, ServerTypeOK, States
<1> QED
  BY <1>1, FrameType DEF RestartStep, TypeOK

LEMMA NextTypeOK == TypeOK /\ [Next]_vars => TypeOK'
<1> SUFFICES ASSUME TypeOK, [Next]_vars PROVE TypeOK'
  OBVIOUS
<1>1. CASE UNCHANGED vars
  BY <1>1, FrameType DEF vars, TypeOK, serverVars, clientVars
<1>2. CASE Next
  BY <1>2, ClientTypeOK, ServerStepTypeOK, RestartTypeOK DEF Next
<1> QED
  BY <1>1, <1>2

\* In every reachable state every variable has a value of its type, whatever the
\* names, artifacts, clients and failures (the stores the plugin works on).
THEOREM TypeCorrect == Spec => []TypeOK
BY InitTypeOK, NextTypeOK, PTL DEF Spec

(***************************************************************************)
(* Calls move on.                                                          *)
(***************************************************************************)
\* The places of a call one after the other, and the ways between them.
LEMMA Ways ==
  /\ \A l \in Locations \ {"idle"} : Before(l, "idle")
  /\ Before("index", "list") /\ Before("reindex", "relist") /\ Before("list", "reindex")
  /\ \A l \in {"list", "relist"} : Before(l, "download") /\ Before(l, "unload")
  /\ Before("download", "clear") /\ Before("download", "copy") /\ Before("clear", "copy")
  /\ Before("copy", "meta") /\ Before("meta", "flush") /\ Before("meta", "load")
  /\ Before("flush", "load") /\ Before("load", "await")
  /\ Before("unload", "scan") /\ Before("scan", "purge") /\ Before("describe", "infer")
<1>1. ASSUME NEW i \in 1..17, NEW j \in 1..17, i < j PROVE Before(Route[i], Route[j])
  <2>1. DOMAIN Route = 1..17
    BY DEF Route
  <2> QED
    BY <1>1, <2>1 DEF Before
<1>2. /\ Route[1] = "describe" /\ Route[2] = "infer" /\ Route[3] = "index" /\ Route[4] = "list"
      /\ Route[5] = "reindex" /\ Route[6] = "relist" /\ Route[7] = "unload" /\ Route[8] = "scan"
      /\ Route[9] = "purge" /\ Route[10] = "download" /\ Route[11] = "clear"
      /\ Route[12] = "copy" /\ Route[13] = "meta" /\ Route[14] = "flush" /\ Route[15] = "load"
      /\ Route[16] = "await" /\ Route[17] = "idle"
  BY DEF Route
<1>3. \A l \in Locations \ {"idle"} : Before(l, "idle")
  <2>1. \A i \in 1..16 : Before(Route[i], "idle")
    BY <1>1, <1>2
  <2>2. ASSUME NEW l \in Locations \ {"idle"} PROVE \E i \in 1..16 : l = Route[i]
    BY <1>2 DEF Locations
  <2> QED
    BY <2>1, <2>2
<1>4. /\ Before(Route[3], Route[4]) /\ Before(Route[5], Route[6]) /\ Before(Route[4], Route[5])
      /\ Before(Route[4], Route[10]) /\ Before(Route[6], Route[10])
      /\ Before(Route[4], Route[7]) /\ Before(Route[6], Route[7])
      /\ Before(Route[10], Route[11]) /\ Before(Route[10], Route[12])
      /\ Before(Route[11], Route[12]) /\ Before(Route[12], Route[13])
      /\ Before(Route[13], Route[14]) /\ Before(Route[13], Route[15])
      /\ Before(Route[14], Route[15]) /\ Before(Route[15], Route[16])
      /\ Before(Route[7], Route[8]) /\ Before(Route[8], Route[9]) /\ Before(Route[1], Route[2])
  BY <1>1
<1> QED
  BY <1>2, <1>3, <1>4

\* The call of c is nearer to its end than before.
Nearer(c) ==
  \/ Before(pc[c], pc'[c])
  \/ /\ pc'[c] = pc[c] /\ index'[c] \subseteq index[c] /\ todo'[c] \subseteq todo[c]
     /\ index'[c] # index[c] \/ todo'[c] # todo[c]

\* Every request brings a call nearer to its end.
LEMMA RequestsMoveOn ==
  ASSUME PluginTypeOK, NEW c \in Clients, ClientStep(c)
  PROVE  Nearer(c)
<1>1. pc[c] \in Locations
  BY DEF PluginTypeOK
<1>2. ASSUME NEW l, Goto(c, l) PROVE pc'[c] = l
  BY <1>2 DEF Goto, PluginTypeOK
<1>3. ASSUME NEW r, Return(c, r), pc[c] # "idle" PROVE Nearer(c)
  BY <1>1, <1>2, <1>3, Ways DEF Return, Nearer
<1>4. ASSUME NEW l, Proceed(c, l) PROVE pc'[c] = l
  BY <1>2, <1>4 DEF Proceed
<1>5. ASSUME NEW e, e \in todo[c], todo' = [todo EXCEPT ![c] = @ \ {e}], UNCHANGED <<pc, index>>
      PROVE  Nearer(c)
  <2>1. todo'[c] = todo[c] \ {e}
    BY <1>5 DEF PluginTypeOK
  <2> QED
    BY <1>5, <2>1 DEF Nearer
<1>6. CASE ReadIndex(c)
  BY <1>2, <1>6, Ways DEF ReadIndex, Nearer
<1>7. CASE ReadMeta(c)
  <2>1. PICK x \in index[c] : index' = [index EXCEPT ![c] = @ \ {x}]
    BY <1>7 DEF ReadMeta
  <2>2. index'[c] = index[c] \ {x}
    BY <2>1 DEF PluginTypeOK
  <2> QED
    BY <1>7, <2>1, <2>2 DEF ReadMeta, Nearer
<1>8. CASE MetaRaises(c) \/ ListReturns(c) \/ GetReturns(c) \/ ConnectionLost(c) \/ EndPurge(c)
  BY <1>3, <1>8
  DEF MetaRaises, ListReturns, GetReturns, ConnectionLost, EndPurge, Listed, Listing
<1>9. CASE CheckCreate(c) \/ CheckDelete(c) \/ CheckUpdate(c)
  <2>1. pc[c] \in {"list", "relist"}
    BY <1>9 DEF CheckCreate, CheckDelete, CheckUpdate, Listed, Listing
  <2>2. \/ Return(c, "error") \/ Proceed(c, "download") \/ Proceed(c, "unload")
        \/ pc[c] = "list" /\ Proceed(c, "reindex")
    BY <1>9 DEF CheckCreate, CheckDelete, CheckUpdate
  <2> QED
    BY <1>3, <1>4, <2>1, <2>2, Ways DEF Nearer
<1>10. CASE Stage(c) \/ EndCopy(c) \/ WriteMeta(c) \/ FlushMeta(c) \/ CallLoad(c) \/ CallUnload(c)
  BY <1>2, <1>10, Ways
  DEF Stage, EndCopy, WriteMeta, FlushMeta, CallLoad, CallUnload, Nearer
<1>11. CASE EndClear(c) \/ Scan(c) \/ Describe(c) \/ Infer(c)
  <2>1. \/ pc[c] # "idle" /\ \E r : Return(c, r)
        \/ pc[c] = "clear" /\ Goto(c, "copy")
        \/ pc[c] = "scan" /\ Goto(c, "purge")
        \/ pc[c] = "describe" /\ Goto(c, "infer")
    BY <1>11 DEF EndClear, Scan, Describe, Infer
  <2> QED
    BY <1>2, <1>3, <2>1, Ways DEF Nearer
<1>12. CASE ClearEntry(c) \/ CopyEntry(c) \/ PurgeEntry(c)
  <2>1. \/ pc[c] # "idle" /\ Return(c, "error")
        \/ \E e \in todo[c] : todo' = [todo EXCEPT ![c] = @ \ {e}] /\ UNCHANGED <<pc, index>>
    BY <1>12 DEF ClearEntry, CopyEntry, PurgeEntry
  <2> QED
    BY <1>3, <1>5, <2>1
<1> QED
  BY <1>6, <1>7, <1>8, <1>9, <1>10, <1>11, <1>12 DEF ClientStep

\* And the step of another does not take it back.
LEMMA OthersLetMoveOn ==
  ASSUME TypeOK, NEW c \in Clients, pc[c] # "idle", ~ClientStep(c), [Next]_vars
  PROVE  \/ Before(pc[c], pc'[c])
         \/ pc'[c] = pc[c] /\ index'[c] = index[c] /\ todo'[c] = todo[c]
<1>1. PluginTypeOK /\ pc[c] \in Locations \ {"idle"}
  BY DEF TypeOK, PluginTypeOK
<1>2. ASSUME NEW d \in Clients, Invoke(d) \/ RejectArguments(d) \/ ClientStep(d) \/ Fail(d)
      PROVE  \/ Before(pc[c], pc'[c])
             \/ pc'[c] = pc[c] /\ index'[c] = index[c] /\ todo'[c] = todo[c]
  <2>1. CASE d = c
    <3>1. Fail(c)
      BY <1>1, <1>2, <2>1 DEF Invoke, RejectArguments
    <3> QED
      BY <1>1, <3>1, Ways DEF Fail, Return, Goto, PluginTypeOK
  <2>2. CASE d # c
    BY <1>1, <1>2, <2>2
    DEF Invoke, RejectArguments, ClientStep, Fail, ReadIndex, ReadMeta, MetaRaises,
        ListReturns, GetReturns, CheckCreate, CheckDelete, CheckUpdate, Stage, ClearEntry,
        EndClear, CopyEntry, EndCopy, WriteMeta, FlushMeta, CallLoad, ConnectionLost,
        Describe, Infer, CallUnload, Scan, PurgeEntry, EndPurge, Goto, Return, Proceed,
        PluginTypeOK
  <2> QED
    BY <2>1, <2>2
<1>3. ASSUME NEW x \in Names, ReadStep(x) \/ EndStep(x) \/ UnloadStep(x)
      PROVE  \/ Before(pc[c], pc'[c])
             \/ pc'[c] = pc[c] /\ index'[c] = index[c] /\ todo'[c] = todo[c]
  <2>1. CASE ReadStep(x) \/ UnloadStep(x)
    BY <2>1 DEF ReadStep, UnloadStep, clientVars
  <2>2. CASE EndStep(x)
    <3>1. PICK l \in loads, r \in {"ok", "error"} : Answer(l, r)
      BY <2>2 DEF EndStep, LoadEnds
    <3>2. \/ UNCHANGED clientVars
          \/ pc' = [pc EXCEPT ![l.caller] = "idle"] /\ index' = [index EXCEPT ![l.caller] = {}]
             /\ todo' = [todo EXCEPT ![l.caller] = {}]
      BY <3>1 DEF Answer, Return, Goto
    <3>3. CASE UNCHANGED clientVars
      BY <3>3 DEF clientVars
    <3>4. CASE ~UNCHANGED clientVars /\ l.caller = c
      <4>1. pc'[c] = "idle"
        BY <1>1, <3>2, <3>4 DEF PluginTypeOK
      <4> QED
        BY <1>1, <4>1, Ways
    <3>5. CASE ~UNCHANGED clientVars /\ l.caller # c
      BY <1>1, <3>2, <3>5 DEF PluginTypeOK
    <3> QED
      BY <3>3, <3>4, <3>5
  <2> QED
    BY <1>3, <2>1, <2>2
<1>4. CASE RestartStep \/ UNCHANGED vars
  BY <1>4 DEF RestartStep, clientVars, vars
<1> QED
  BY <1>2, <1>3, <1>4 DEF Next

\* Whatever fails, and whatever others do: a call never goes back, and each of its requests
\* brings it nearer to its end.  No method can repeat its work for ever; EveryCallReturns
\* adds that the requests are answered.
THEOREM CallsProgress == Spec => CallsMoveOn
<1> DEFINE MovesOn ==
      \A c \in Clients : pc[c] # "idle" =>
        \/ Before(pc[c], pc'[c])
        \/ /\ pc'[c] = pc[c] /\ index'[c] \subseteq index[c] /\ todo'[c] \subseteq todo[c]
           /\ ClientStep(c) => index'[c] # index[c] \/ todo'[c] # todo[c]
<1>1. TypeOK /\ [Next]_vars => MovesOn
  <2> SUFFICES ASSUME TypeOK, [Next]_vars, NEW c \in Clients, pc[c] # "idle"
               PROVE  \/ Before(pc[c], pc'[c])
                      \/ /\ pc'[c] = pc[c] /\ index'[c] \subseteq index[c]
                         /\ todo'[c] \subseteq todo[c]
                         /\ ClientStep(c) => index'[c] # index[c] \/ todo'[c] # todo[c]
    OBVIOUS
  <2>1. CASE ClientStep(c)
    BY <2>1, RequestsMoveOn DEF Nearer, TypeOK
  <2>2. CASE ~ClientStep(c)
    BY <2>2, OthersLetMoveOn
  <2> QED
    BY <2>1, <2>2
<1>2. TypeOK /\ [Next]_vars => [MovesOn]_vars
  BY <1>1
<1> QED
  BY <1>2, InitTypeOK, NextTypeOK, PTL DEF Spec, CallsMoveOn

(***************************************************************************)
(* Calls edit the directory of their own model only.                       *)
(***************************************************************************)
\* Deleting by prefix is harmless: there are no prefixes, or none begins a name.
NamesApart == Backend = "local" \/ PrefixFree

\* What a call still has to copy or to remove is in the directory of its model.
OwnTodo ==
  \A c \in Clients :
    pc[c] \in {"clear", "copy", "purge"} => todo[c] \subseteq {op[c].name} \X Keys

TodoInv == TypeOK /\ OwnTodo

\* What a delete removes is in the directory of its model.
LEMMA DoomedOwn ==
  ASSUME NamesApart, NEW x \in Names
  PROVE  Doomed(x) \subseteq {x} \X Keys
<1>1. CASE Backend = "local"
  BY <1>1, BackendAssumption DEF Doomed, Entries, Present
<1>2. CASE Backend = "s3"
  <2>1. Covered[x] = {x}
    BY <1>2 DEF NamesApart, PrefixFree
  <2>2. Doomed(x) = Entries(x, Present(x))
    BY <1>2, <2>1 DEF Doomed
  <2> QED
    BY <2>2 DEF Entries, Present
<1> QED
  BY <1>1, <1>2, BackendAssumption

LEMMA OwnTodoClient ==
  ASSUME NamesApart, TodoInv, NEW c \in Clients,
         Invoke(c) \/ RejectArguments(c) \/ ClientStep(c) \/ Fail(c)
  PROVE  OwnTodo'
<1>1. PluginTypeOK
  BY DEF TodoInv, TypeOK
<1>2. \A d \in Clients \ {c} : pc'[d] = pc[d] /\ op'[d] = op[d] /\ todo'[d] = todo[d]
  BY <1>1 DEF Invoke, RejectArguments, ClientStep, Fail, ReadIndex, ReadMeta, MetaRaises,
     ListReturns, GetReturns, CheckCreate, CheckDelete, CheckUpdate, Stage, ClearEntry,
     EndClear, CopyEntry, EndCopy, WriteMeta, FlushMeta, CallLoad, ConnectionLost, Describe, Infer, CallUnload, Scan,
     PurgeEntry, EndPurge, Goto, Return, Proceed, PluginTypeOK
<1>3. SUFFICES pc'[c] \in {"clear", "copy", "purge"}
                 => todo'[c] \subseteq {op'[c].name} \X Keys
  BY <1>2 DEF TodoInv, OwnTodo
<1>4. CASE Stage(c)
  <2>1. op' = op /\ op[c].name \in Names /\ op[c].uri \in Uris
    BY <1>4 DEF Stage, TodoInv, TypeOK, ArgsOK
  <2>2. \/ todo' = [todo EXCEPT ![c] = Entries(op[c].name, Present(op[c].name))]
        \/ todo' = [todo EXCEPT ![c] = Entries(op[c].name, CopySlots(op[c].uri))]
    BY <1>4 DEF Stage
  <2>3. Present(op[c].name) \subseteq Keys /\ CopySlots(op[c].uri) \subseteq Keys
    BY <2>1, KeyFacts DEF Present
  <2> QED
    BY <1>1, <2>1, <2>2, <2>3 DEF Entries, PluginTypeOK
<1>5. CASE EndClear(c)
  <2>1. op' = op /\ op[c].uri \in Uris
    BY <1>5 DEF EndClear, Return, TodoInv, TypeOK, ArgsOK
  <2>2. \/ pc'[c] = "idle"
        \/ todo' = [todo EXCEPT ![c] = Entries(op[c].name, CopySlots(op[c].uri))]
    BY <1>1, <1>5 DEF EndClear, Return, Goto, PluginTypeOK
  <2> QED
    BY <1>1, <2>1, <2>2, KeyFacts DEF Entries, PluginTypeOK
<1>6. CASE Scan(c)
  <2>1. op' = op /\ op[c].name \in Names
    BY <1>6 DEF Scan, Return, TodoInv, TypeOK, ArgsOK
  <2>2. \/ pc'[c] = "idle"
        \/ \E E \in Page(Doomed(op[c].name)) : todo' = [todo EXCEPT ![c] = E]
    BY <1>1, <1>6 DEF Scan, Return, Goto, PluginTypeOK
  <2>3. \A E \in Page(Doomed(op[c].name)) : E \subseteq {op[c].name} \X Keys
    BY <2>1, DoomedOwn DEF Page
  <2> QED
    BY <1>1, <2>1, <2>2, <2>3 DEF PluginTypeOK
<1>7. CASE ClearEntry(c) \/ CopyEntry(c) \/ PurgeEntry(c)
  <2>1. \/ pc'[c] = "idle"
        \/ op' = op /\ pc' = pc /\ todo'[c] \subseteq todo[c]
    BY <1>1, <1>7 DEF ClearEntry, CopyEntry, PurgeEntry, Return, Goto, PluginTypeOK
  <2> QED
    BY <2>1 DEF TodoInv, OwnTodo
<1>8. CASE ~(\/ Stage(c) \/ EndClear(c) \/ Scan(c) \/ ClearEntry(c) \/ CopyEntry(c)
             \/ PurgeEntry(c))
  <2>1. pc'[c] \notin {"clear", "copy", "purge"}
    BY <1>1, <1>8 DEF Invoke, RejectArguments, ClientStep, Fail, ReadIndex, ReadMeta,
       MetaRaises, ListReturns, GetReturns, CheckCreate, CheckDelete, CheckUpdate,
       FirstSteps, Listing, Listed, EndCopy, WriteMeta, FlushMeta, CallLoad, ConnectionLost, Describe, Infer, CallUnload, EndPurge,
       Goto, Return, Proceed, PluginTypeOK
  <2> QED
    BY <2>1
<1> QED
  BY <1>4, <1>5, <1>6, <1>7, <1>8

LEMMA OwnTodoServer ==
  ASSUME TodoInv, NEW x \in Names, ReadStep(x) \/ EndStep(x) \/ UnloadStep(x)
  PROVE  OwnTodo' /\ UNCHANGED repo
<1>1. PluginTypeOK /\ op' = op /\ UNCHANGED repo
  BY DEF TodoInv, TypeOK, ReadStep, EndStep, LoadEnds, Answer, Return, UnloadStep,
     clientVars
<1>2. \A d \in Clients : \/ pc'[d] = pc[d] /\ todo'[d] = todo[d]
                        \/ pc'[d] = "idle"
  BY <1>1 DEF ReadStep, EndStep, LoadEnds, Answer, Return, Goto, UnloadStep,
     clientVars, PluginTypeOK
<1> QED
  BY <1>1, <1>2 DEF TodoInv, OwnTodo

LEMMA NextTodoInv == NamesApart /\ TodoInv /\ [Next]_vars => TodoInv'
<1> SUFFICES ASSUME NamesApart, TodoInv, [Next]_vars PROVE TodoInv'
  OBVIOUS
<1>1. TypeOK'
  BY NextTypeOK DEF TodoInv
<1>2. OwnTodo'
  <2>1. CASE UNCHANGED vars
    BY <2>1 DEF vars, TodoInv, OwnTodo
  <2>2. CASE Next
    <3>1. CASE RestartStep
      BY <3>1 DEF RestartStep, clientVars, TodoInv, OwnTodo
    <3> QED
      BY <2>2, <3>1, OwnTodoClient, OwnTodoServer DEF Next
  <2> QED
    BY <2>1, <2>2
<1> QED
  BY <1>1, <1>2 DEF TodoInv

\* A step of c that changes a directory does so in a call about that model.
LEMMA ClientEdits ==
  ASSUME TodoInv, NEW c \in Clients, NEW x \in Names,
         Invoke(c) \/ RejectArguments(c) \/ ClientStep(c) \/ Fail(c),
         repo'[x] # repo[x]
  PROVE  op[c].name = x /\ pc[c] # "idle"
<1>1. RepoTypeOK
  BY DEF TodoInv, TypeOK
<1>2. \/ /\ pc[c] \in {"clear", "copy", "purge"}
         /\ \E e \in todo[c] : \E v : Put(e[1], e[2], v)
      \/ /\ pc[c] # "idle"
         /\ \E k, v : Put(op[c].name, k, v)
  BY DEF Invoke, RejectArguments, ClientStep, Fail, ReadIndex, ReadMeta, MetaRaises,
     ListReturns, GetReturns, CheckCreate, CheckDelete, CheckUpdate, Stage, ClearEntry,
     EndClear, CopyEntry, EndCopy, WriteMeta, FlushMeta, CallLoad, ConnectionLost, Describe, Infer, CallUnload, Scan,
     PurgeEntry, EndPurge, Listing, Listed
<1>3. ASSUME NEW y, NEW k, NEW v, Put(y, k, v) PROVE y = x
  BY <1>1, <1>3 DEF Put, RepoTypeOK
<1>4. ASSUME pc[c] \in {"clear", "copy", "purge"}, NEW e \in todo[c] PROVE e[1] = op[c].name
  BY <1>4 DEF TodoInv, OwnTodo
<1> QED
  BY <1>2, <1>3, <1>4

\* However calls of any clients interleave, fail or are abandoned, a directory changes
\* only in a call about its own model, provided no name begins another, or the
\* repository is local.
THEOREM OwnEdits == NamesApart => (Spec => NoForeignEdit)
<1> SUFFICES ASSUME NamesApart PROVE Spec => NoForeignEdit
  OBVIOUS
<1> DEFINE Own == \A n \in Names : repo'[n] # repo[n] =>
                    \E c \in Clients : op[c].name = n /\ pc[c] # "idle"
<1>1. Init => TodoInv
  <2>1. Init => OwnTodo
    BY DEF Init, OwnTodo
  <2> QED
    BY <2>1, InitTypeOK DEF TodoInv
<1>2. TodoInv /\ [Next]_vars => TodoInv'
  BY NextTodoInv
<1>3. TodoInv /\ [Next]_vars => [Own]_vars
  <2> SUFFICES ASSUME TodoInv, Next PROVE Own
    OBVIOUS
  <2> SUFFICES ASSUME NEW n \in Names, repo'[n] # repo[n]
               PROVE  \E c \in Clients : op[c].name = n /\ pc[c] # "idle"
    OBVIOUS
  <2>1. PICK c \in Clients : Invoke(c) \/ RejectArguments(c) \/ ClientStep(c) \/ Fail(c)
    BY OwnTodoServer DEF Next, RestartStep
  <2> QED
    BY <2>1, ClientEdits
<1> QED
  BY <1>1, <1>2, <1>3, PTL DEF Spec, NoForeignEdit

(***************************************************************************)
(* On S3 the metadata of every READY model is there to be read.            *)
(***************************************************************************)
\* Each name is deployed by one client, on S3, and none begins another.
Ownership ==
  /\ Backend = "s3"
  /\ PrefixFree
  /\ DisjointOwners
  /\ Unmanaged = {}

HasMeta(x) == repo[x][MetaFile] \in Uris

\* A model has metadata while it is served, while it is being loaded (also for a
\* call that gave up waiting), and from the moment its client wrote it.
MetaKept ==
  /\ \A x \in Names : state[x] = "READY" \/ x \in LoadingNames => HasMeta(x)
  /\ \A c \in Clients : pc[c] = "load" => HasMeta(op[c].name)

\* Files are removed of a model that is not served and will not be.
PurgeIsLate ==
  \A c \in Clients : pc[c] \in {"scan", "purge"} =>
    state[op[c].name] # "READY" /\ op[c].name \notin LoadingNames

\* A call changes only entries of its own model, and copies no metadata.
OwnEntries ==
  \A c \in Clients :
    /\ op[c].kind \in {"create", "update", "delete"} => op[c].name \in ClientNames[c]
    /\ pc[c] \notin {"clear", "flush"}
    /\ pc[c] = "copy" => todo[c] \subseteq {op[c].name} \X Slots
    /\ pc[c] = "purge" => todo[c] \subseteq {op[c].name} \X Keys

ListInv == TypeOK /\ MetaKept /\ PurgeIsLate /\ OwnEntries

\* The invariant is stronger than what readers need.
LEMMA ListInvListable == ListInv => Listable
BY DEF ListInv, MetaKept, HasMeta, Listable, MetaReads, ReadyNames

LEMMA InitListInv == Ownership /\ Init => ListInv
<1> SUFFICES ASSUME Ownership, Init PROVE ListInv
  OBVIOUS
<1>1. TypeOK
  BY InitTypeOK
<1>2. \A x \in Names : state[x] = "UNAVAILABLE" /\ x \notin LoadingNames
  BY DEF Init, ServerInit, Ownership, LoadingNames
<1>3. \A c \in Clients : pc[c] = "idle" /\ op[c].kind = "list"
  BY DEF Init
<1> QED
  BY <1>1, <1>2, <1>3 DEF ListInv, MetaKept, PurgeIsLate, OwnEntries

\* A step that touches neither metadata nor the server, and goes to no step that
\* needs them, keeps what is known of the metadata.
LEMMA QuietStep ==
  ASSUME ListInv, TypeOK', NEW c \in Clients,
         \A x \in Names : repo'[x][MetaFile] = repo[x][MetaFile],
         UNCHANGED <<state, loads>>,
         \A d \in Clients \ {c} : pc'[d] = pc[d] /\ op'[d] = op[d],
         pc'[c] \notin {"load", "scan", "purge"}
  PROVE  MetaKept' /\ PurgeIsLate'
<1>1. \A x \in Names : HasMeta(x)' <=> HasMeta(x)
  BY DEF HasMeta
<1>2. LoadingNames' = LoadingNames
  BY DEF LoadingNames
<1>3. \A d \in Clients : pc'[d] = "load" => op'[d].name \in Names /\ d # c
  BY DEF TypeOK, ArgsOK
<1>4. MetaKept'
  BY <1>1, <1>2, <1>3 DEF ListInv, MetaKept
<1>5. PurgeIsLate'
  BY <1>2 DEF ListInv, PurgeIsLate
<1> QED
  BY <1>4, <1>5

\* The steps of a client that change neither metadata nor the server.
LEMMA QuietClientStep ==
  ASSUME Ownership, ListInv, TypeOK', NEW c \in Clients,
         \/ Invoke(c) \/ RejectArguments(c) \/ ReadIndex(c) \/ ReadMeta(c) \/ MetaRaises(c)
         \/ ListReturns(c) \/ GetReturns(c) \/ CheckCreate(c) \/ CheckDelete(c)
         \/ CheckUpdate(c) \/ Stage(c) \/ CopyEntry(c) \/ EndCopy(c) \/ EndPurge(c)
         \/ ConnectionLost(c) \/ Describe(c) \/ Infer(c)
  PROVE  MetaKept' /\ PurgeIsLate'
<1>1. PluginTypeOK /\ RepoTypeOK
  BY DEF ListInv, TypeOK
<1>2. \A x \in Names : repo'[x][MetaFile] = repo[x][MetaFile]
  <2>1. CASE CopyEntry(c)
    <3>1. PICK e \in todo[c] : Put(e[1], e[2], op[c].uri)
      BY <2>1 DEF CopyEntry
    <3>2. e[1] \in Names /\ e[2] # MetaFile
      BY <2>1, <1>1, KeyFacts DEF CopyEntry, ListInv, OwnEntries, PluginTypeOK
    <3> QED
      BY <3>1, <3>2, <1>1, KeyFacts DEF Put, RepoTypeOK
  <2>2. CASE ~CopyEntry(c)
    BY <2>2 DEF Ownership, Invoke, RejectArguments, ReadIndex, ReadMeta, MetaRaises,
       ListReturns, GetReturns, CheckCreate, CheckDelete, CheckUpdate, Stage,
       EndCopy, EndPurge, ConnectionLost, Describe, Infer
  <2> QED
    BY <2>1, <2>2
<1>3. UNCHANGED <<state, loads>>
  BY DEF Invoke, RejectArguments, ReadIndex, ReadMeta, MetaRaises,
     ListReturns, GetReturns, CheckCreate, CheckDelete, CheckUpdate, Stage,
     CopyEntry, EndCopy, EndPurge, ConnectionLost, Describe, Infer, serverVars
<1>4. \A d \in Clients \ {c} : pc'[d] = pc[d] /\ op'[d] = op[d]
  BY <1>1 DEF Invoke, RejectArguments, ReadIndex, ReadMeta, MetaRaises,
     ListReturns, GetReturns, CheckCreate, CheckDelete, CheckUpdate, Stage,
     CopyEntry, EndCopy, EndPurge, ConnectionLost, Describe, Infer, FirstSteps, Goto, Return, Proceed, PluginTypeOK
<1>5. pc'[c] \notin {"load", "scan", "purge"}
  BY <1>1 DEF Invoke, RejectArguments, ReadIndex, ReadMeta, MetaRaises, Listing, Listed,
     ListReturns, GetReturns, CheckCreate, CheckDelete, CheckUpdate, Stage,
     CopyEntry, EndCopy, EndPurge, ConnectionLost, Describe, Infer, FirstSteps, Goto, Return, Proceed, PluginTypeOK
<1> QED
  BY <1>2, <1>3, <1>4, <1>5, QuietStep

\* A client that is at work on a name is the only one.
LEMMA OneAtWork ==
  ASSUME Ownership, ListInv, NEW c \in Clients, NEW d \in Clients,
         op[c].kind \in {"create", "update", "delete"},
         op[d].kind \in {"create", "update", "delete"},
         op[c].name = op[d].name
  PROVE  c = d
BY PluginAssumption DEF Ownership, DisjointOwners, ListInv, OwnEntries

\* The other steps of a client.
LEMMA WriteMetaKeeps ==
  ASSUME Ownership, ListInv, NEW c \in Clients, WriteMeta(c)
  PROVE  MetaKept' /\ PurgeIsLate'
<1>1. /\ RepoTypeOK /\ PluginTypeOK /\ op[c].name \in Names /\ op[c].uri \in Uris
      /\ pc[c] = "meta"
  BY DEF ListInv, TypeOK, ArgsOK, WriteMeta
<1>2. /\ repo' = [repo EXCEPT ![op[c].name][MetaFile] = op[c].uri]
      /\ pc' = [pc EXCEPT ![c] = "load"]
      /\ UNCHANGED <<state, loads, op>>
  BY DEF WriteMeta, Ownership, Goto, Put, serverVars
<1>3. \A x \in Names : HasMeta(x) => HasMeta(x)'
  BY <1>1, <1>2, KeyFacts DEF HasMeta, RepoTypeOK
<1>4. repo'[op[c].name][MetaFile] \in Uris
  BY <1>1, <1>2, KeyFacts DEF HasMeta, RepoTypeOK
<1>5. \A d \in Clients : pc[d] = "load" => op[d].name \in Names
  BY DEF ListInv, TypeOK, ArgsOK
<1>6. MetaKept'
  <2>1. LoadingNames' = LoadingNames
    BY <1>2 DEF LoadingNames
  <2>2. ASSUME NEW d \in Clients, pc'[d] = "load" PROVE repo'[op[d].name][MetaFile] \in Uris
    BY <1>1, <1>2, <1>3, <1>4, <1>5, <2>2 DEF ListInv, MetaKept, HasMeta, PluginTypeOK
  <2>3. ASSUME NEW d \in Clients, pc'[d] = "load" PROVE HasMeta(op[d].name)'
    BY <1>2, <2>2, <2>3 DEF HasMeta
  <2> QED
    BY <1>2, <1>3, <2>1, <2>3 DEF ListInv, MetaKept, HasMeta
<1>7. PurgeIsLate'
  BY <1>1, <1>2 DEF ListInv, PurgeIsLate, PluginTypeOK, LoadingNames
<1> QED
  BY <1>6, <1>7

LEMMA CallLoadKeeps ==
  ASSUME Ownership, ListInv, NEW c \in Clients, CallLoad(c)
  PROVE  MetaKept' /\ PurgeIsLate'
<1>1. /\ PluginTypeOK /\ op[c].name \in Names /\ pc[c] = "load"
      /\ op[c].kind \in {"create", "update"}
  BY DEF ListInv, TypeOK, ArgsOK, CallLoad
<1>2. /\ UNCHANGED <<repo, state, op>>
      /\ pc' = [pc EXCEPT ![c] = "await"]
  BY DEF CallLoad, AcceptLoad, Goto
<1>3. LoadingNames' = LoadingNames \cup {op[c].name}
  <2> DEFINE new == [name |-> op[c].name, model |-> None, caller |-> c]
  <2>1. loads' = loads \cup {new} /\ new.name = op[c].name
    BY DEF CallLoad, AcceptLoad
  <2> HIDE DEF new
  <2> QED
    BY <2>1 DEF LoadingNames
<1>4. MetaKept'
  BY <1>1, <1>2, <1>3 DEF ListInv, MetaKept, HasMeta, PluginTypeOK
<1>5. ASSUME NEW d \in Clients, pc'[d] \in {"scan", "purge"}
      PROVE  op[d].name # op[c].name /\ pc[d] \in {"scan", "purge"}
  <2>1. d # c /\ pc[d] \in {"scan", "purge"}
    BY <1>1, <1>2, <1>5 DEF PluginTypeOK
  <2>2. op[d].kind = "delete"
    BY <2>1 DEF ListInv, TypeOK, ArgsOK
  <2> QED
    BY <1>1, <2>1, <2>2, OneAtWork
<1>6. PurgeIsLate'
  BY <1>2, <1>3, <1>5 DEF ListInv, PurgeIsLate
<1> QED
  BY <1>4, <1>6

LEMMA CallUnloadKeeps ==
  ASSUME Ownership, ListInv, NEW c \in Clients, CallUnload(c)
  PROVE  MetaKept' /\ PurgeIsLate'
<1>1. /\ PluginTypeOK /\ ServerTypeOK /\ op[c].name \in Names /\ pc[c] = "unload"
  BY DEF ListInv, TypeOK, ArgsOK, CallUnload
<1>2. /\ UNCHANGED <<repo, loads, op>>
      /\ pc' = [pc EXCEPT ![c] = "scan"]
      /\ op[c].name \notin LoadingNames
      /\ state' = [state EXCEPT ![op[c].name] = IF @ = "READY" THEN "UNLOADING" ELSE @]
  BY DEF CallUnload, AcceptUnload, Goto
<1>3. LoadingNames' = LoadingNames
  BY <1>2 DEF LoadingNames
<1>4. \A x \in Names : state'[x] = "READY" => state[x] = "READY" /\ x # op[c].name
  BY <1>1, <1>2 DEF ServerTypeOK
<1>5. MetaKept'
  BY <1>1, <1>2, <1>3, <1>4 DEF ListInv, MetaKept, HasMeta, PluginTypeOK
<1>6. \A d \in Clients : pc[d] \in {"scan", "purge"} => op[d].name \in Names
  BY DEF ListInv, TypeOK, ArgsOK
<1>7. PurgeIsLate'
  BY <1>1, <1>2, <1>3, <1>4, <1>6 DEF ListInv, PurgeIsLate, PluginTypeOK
<1> QED
  BY <1>5, <1>7

LEMMA ScanKeeps ==
  ASSUME Ownership, ListInv, NEW c \in Clients, Scan(c)
  PROVE  MetaKept' /\ PurgeIsLate'
<1>1. PluginTypeOK /\ pc[c] = "scan"
  BY DEF ListInv, TypeOK, Scan
<1>2. UNCHANGED <<repo, state, loads, op>>
  BY DEF Scan, serverVars, Return
<1>3. pc' = [pc EXCEPT ![c] = "idle"] \/ pc' = [pc EXCEPT ![c] = "purge"]
  BY DEF Scan, Return, Goto
<1>4. MetaKept'
  BY <1>1, <1>2, <1>3 DEF ListInv, MetaKept, HasMeta, PluginTypeOK, LoadingNames
<1>5. PurgeIsLate'
  BY <1>1, <1>2, <1>3 DEF ListInv, PurgeIsLate, PluginTypeOK, LoadingNames
<1> QED
  BY <1>4, <1>5

\* The metadata that a delete removes is of a model nobody serves, loads or is
\* about to load.
LEMMA PurgeEntryKeeps ==
  ASSUME Ownership, ListInv, NEW c \in Clients, PurgeEntry(c)
  PROVE  MetaKept' /\ PurgeIsLate'
<1>1. /\ PluginTypeOK /\ RepoTypeOK /\ op[c].name \in Names
      /\ pc[c] = "purge" /\ op[c].kind = "delete"
  BY DEF ListInv, TypeOK, ArgsOK, PurgeEntry
<1>2. PICK e \in todo[c] : Put(e[1], e[2], None)
  BY DEF PurgeEntry, Ownership
<1>3. UNCHANGED <<state, loads, op, pc>>
  BY DEF PurgeEntry, Ownership, serverVars
<1>4. e[1] = op[c].name /\ e[2] \in Keys
  BY <1>1, <1>2 DEF ListInv, OwnEntries
<1>5. \A x \in Names \ {op[c].name} : HasMeta(x) => HasMeta(x)'
  BY <1>1, <1>2, <1>4 DEF HasMeta, Put, RepoTypeOK
<1>6. state[op[c].name] # "READY" /\ op[c].name \notin LoadingNames
  BY <1>1 DEF ListInv, PurgeIsLate
<1>7. ASSUME NEW d \in Clients, pc[d] = "load"
      PROVE  op[d].name \in Names \ {op[c].name}
  <2>1. op[d].kind \in {"create", "update"} /\ op[d].name \in Names /\ d # c
    BY <1>1, <1>7 DEF ListInv, TypeOK, ArgsOK
  <2> QED
    BY <1>1, <2>1, OneAtWork
<1>8. LoadingNames' = LoadingNames
  BY <1>3 DEF LoadingNames
<1>9. MetaKept'
  <2>1. ASSUME NEW d \in Clients, pc[d] = "load" PROVE repo'[op[d].name][MetaFile] \in Uris
    BY <1>5, <1>7, <2>1 DEF ListInv, MetaKept, HasMeta
  <2>2. ASSUME NEW d \in Clients, pc'[d] = "load" PROVE HasMeta(op[d].name)'
    BY <1>3, <2>1, <2>2 DEF HasMeta
  <2>3. \A x \in Names : state'[x] = "READY" \/ x \in LoadingNames' => HasMeta(x)'
    BY <1>3, <1>5, <1>6, <1>8 DEF ListInv, MetaKept
  <2> QED
    BY <2>2, <2>3 DEF MetaKept, HasMeta
<1>10. PurgeIsLate'
  BY <1>3, <1>8 DEF ListInv, PurgeIsLate
<1> QED
  BY <1>9, <1>10

LEMMA FailKeeps ==
  ASSUME ListInv, NEW c \in Clients, Fail(c)
  PROVE  MetaKept' /\ PurgeIsLate'
<1>1. PluginTypeOK /\ ServerTypeOK
  BY DEF ListInv, TypeOK
<1>2. UNCHANGED <<repo, state, op>> /\ pc' = [pc EXCEPT ![c] = "idle"]
  BY DEF Fail, Return, Goto
<1>3. LoadingNames' = LoadingNames
  <2>1. \A l \in loads : [l EXCEPT !.caller = None].name = l.name
    BY <1>1 DEF ServerTypeOK, Loads
  <2> QED
    BY <2>1 DEF Fail, LoadingNames
<1>4. MetaKept'
  BY <1>1, <1>2, <1>3 DEF ListInv, MetaKept, HasMeta, PluginTypeOK
<1>5. PurgeIsLate'
  BY <1>1, <1>2, <1>3 DEF ListInv, PurgeIsLate, PluginTypeOK
<1> QED
  BY <1>4, <1>5

\* The steps of the server: what becomes READY was being loaded.
LEMMA ServerKeeps ==
  ASSUME ListInv, NEW x \in Names, ReadStep(x) \/ EndStep(x) \/ UnloadStep(x)
  PROVE  MetaKept' /\ PurgeIsLate'
<1>1. PluginTypeOK /\ ServerTypeOK
  BY DEF ListInv, TypeOK
<1>2. repo' = repo /\ op' = op
  BY DEF ReadStep, EndStep, LoadEnds, Answer, Return, UnloadStep, clientVars
<1>3. LoadingNames' \subseteq LoadingNames
  <2>1. CASE ReadStep(x)
    <3>1. PICK l \in loads, v \in NewestContent(x) :
            loads' = (loads \ {l}) \cup {[l EXCEPT !.model = v]}
      BY <2>1 DEF ReadStep, ServerReads
    <3>2. [l EXCEPT !.model = v].name = l.name
      BY <1>1 DEF ServerTypeOK, Loads
    <3> QED
      BY <3>1, <3>2 DEF LoadingNames
  <2>2. CASE EndStep(x)
    BY <2>2 DEF EndStep, LoadEnds, LoadSucceeds, LoadFails, LoadingNames
  <2>3. CASE UnloadStep(x)
    BY <2>3 DEF UnloadStep, FinishUnload, LoadingNames
  <2> QED
    BY <2>1, <2>2, <2>3
<1>4. \A y \in Names : state'[y] = "READY" => state[y] = "READY" \/ y \in LoadingNames
  BY <1>1 DEF ReadStep, ServerReads, EndStep, LoadEnds, LoadSucceeds, LoadFails,
     UnloadStep, FinishUnload, LoadingNames, ServerTypeOK
<1>5. \A d \in Clients : pc'[d] = pc[d] \/ pc'[d] = "idle"
  BY <1>1 DEF ReadStep, EndStep, LoadEnds, Answer, Return, Goto, UnloadStep,
     clientVars, PluginTypeOK
<1>6. MetaKept'
  BY <1>2, <1>3, <1>4, <1>5 DEF ListInv, MetaKept, HasMeta
<1>7. \A d \in Clients : pc[d] \in {"scan", "purge"} => op[d].name \in Names
  BY DEF ListInv, TypeOK, ArgsOK
<1>8. PurgeIsLate'
  BY <1>2, <1>3, <1>4, <1>5, <1>7 DEF ListInv, PurgeIsLate
<1> QED
  BY <1>6, <1>8

\* A call keeps to its own entries.  Only Stage and Scan give it entries, and
\* without names that begin others what Scan finds is of the one name.
LEMMA OwnEntriesClient ==
  ASSUME Ownership, ListInv, TypeOK', NEW c \in Clients,
         Invoke(c) \/ RejectArguments(c) \/ ClientStep(c) \/ Fail(c)
  PROVE  OwnEntries'
<1>1. PluginTypeOK /\ ArgsOK
  BY DEF ListInv, TypeOK
<1> DEFINE Own(d, o, l, t) ==
      /\ o.kind \in {"create", "update", "delete"} => o.name \in ClientNames[d]
      /\ l \notin {"clear", "flush"}
      /\ l = "copy" => t \subseteq {o.name} \X Slots
      /\ l = "purge" => t \subseteq {o.name} \X Keys
<1>2. \A d \in Clients : Own(d, op[d], pc[d], todo[d])
  BY DEF ListInv, OwnEntries
<1>3. SUFFICES /\ Own(c, op'[c], pc'[c], todo'[c])
               /\ \A d \in Clients \ {c} : Own(d, op'[d], pc'[d], todo'[d])
  BY DEF OwnEntries
<1>4. \A d \in Clients \ {c} : op'[d] = op[d] /\ pc'[d] = pc[d] /\ todo'[d] = todo[d]
  BY <1>1 DEF Invoke, RejectArguments, ClientStep, Fail, ReadIndex, ReadMeta, MetaRaises,
     ListReturns, GetReturns, CheckCreate, CheckDelete, CheckUpdate, Stage, ClearEntry,
     EndClear, CopyEntry, EndCopy, WriteMeta, FlushMeta, CallLoad, ConnectionLost, Describe, Infer, CallUnload, Scan,
     PurgeEntry, EndPurge, Goto, Return, Proceed, PluginTypeOK
<1>5. CASE Invoke(c) \/ RejectArguments(c)
  <2>1. PICK r \in Requests(c) : op' = [op EXCEPT ![c] = r]
    BY <1>5 DEF Invoke, RejectArguments
  <2>2. r.kind \in {"create", "update", "delete"} => r.name \in ClientNames[c]
    BY DEF Requests
  <2>3. op'[c] = r /\ pc'[c] \in {"index", "describe", "infer", "idle"}
    BY <1>1, <1>5, <2>1 DEF Invoke, RejectArguments, FirstSteps, Goto, PluginTypeOK
  <2> QED
    BY <1>2, <1>4, <2>2, <2>3
<1>6. CASE Stage(c)
  <2>1. op[c].uri \in Uris /\ op' = op /\ pc'[c] = "copy"
    BY <1>1, <1>6 DEF Stage, Ownership, Goto, PluginTypeOK, ArgsOK
  <2>2. todo'[c] = Entries(op[c].name, CopySlots(op[c].uri))
    BY <1>1, <1>6 DEF Stage, Ownership, PluginTypeOK
  <2>3. todo'[c] \subseteq {op[c].name} \X Slots
    BY <2>1, <2>2, KeyFacts DEF Entries
  <2> QED
    BY <1>2, <1>4, <2>1, <2>3
<1>7. CASE Scan(c)
  <2>1. op[c].name \in Names /\ op' = op
    BY <1>1, <1>7 DEF Scan, ArgsOK, Return
  <2>2. Doomed(op[c].name) \subseteq {op[c].name} \X Keys
    BY <2>1 DEF Ownership, PrefixFree, Doomed, Entries, Present
  <2>3. \/ Return(c, "error")
        \/ /\ Goto(c, "purge")
           /\ \E E \in Page(Doomed(op[c].name)) : todo' = [todo EXCEPT ![c] = E]
    BY <1>7 DEF Scan
  <2>4. \/ pc'[c] = "idle"
        \/ pc'[c] = "purge" /\ todo'[c] \subseteq {op[c].name} \X Keys
    BY <1>1, <2>2, <2>3 DEF Page, Return, Goto, PluginTypeOK
  <2> QED
    BY <1>2, <1>4, <2>1, <2>4
<1>8. CASE CopyEntry(c) \/ PurgeEntry(c)
  <2>1. op' = op /\ pc' = pc /\ todo'[c] \subseteq todo[c]
    BY <1>1, <1>8 DEF CopyEntry, PurgeEntry, Ownership, PluginTypeOK
  <2> QED
    BY <1>2, <1>4, <2>1
<1>9. CASE ~(\/ Invoke(c) \/ RejectArguments(c) \/ Stage(c) \/ Scan(c)
             \/ CopyEntry(c) \/ PurgeEntry(c))
  <2>1. op' = op /\ pc'[c] \notin {"clear", "flush", "copy", "purge"}
    BY <1>1, <1>2, <1>9 DEF ClientStep, Fail, ReadIndex, ReadMeta, MetaRaises,
       ListReturns, GetReturns, CheckCreate, CheckDelete, CheckUpdate, Listing, Listed,
       ClearEntry, EndClear, EndCopy, WriteMeta, FlushMeta, CallLoad, ConnectionLost, Describe, Infer, CallUnload,
       EndPurge, Ownership, Goto, Return, Proceed, PluginTypeOK
  <2> QED
    BY <1>2, <1>4, <2>1
<1> QED
  BY <1>5, <1>6, <1>7, <1>8, <1>9

LEMMA OwnEntriesServer ==
  ASSUME ListInv, NEW x \in Names, ReadStep(x) \/ EndStep(x) \/ UnloadStep(x)
  PROVE  OwnEntries'
<1>1. PluginTypeOK /\ op' = op
  BY DEF ListInv, TypeOK, ReadStep, EndStep, LoadEnds, Answer, Return, UnloadStep, clientVars
<1>2. \A d \in Clients : \/ pc'[d] = pc[d] /\ todo'[d] = todo[d]
                        \/ pc'[d] = "idle"
  BY <1>1 DEF ReadStep, EndStep, LoadEnds, Answer, Return, Goto, UnloadStep,
     clientVars, PluginTypeOK
<1> QED
  BY <1>1, <1>2 DEF ListInv, OwnEntries

\* After a restart nothing is READY and nothing is being loaded.
LEMMA RestartKeeps == ListInv /\ RestartStep => ListInv'
<1> SUFFICES ASSUME ListInv, RestartStep PROVE ListInv'
  OBVIOUS
<1>1. /\ UNCHANGED <<repo, clientVars>> /\ LoadingNames' = {}
      /\ \A x \in Names : state'[x] # "READY"
  BY DEF RestartStep, Restart, LoadingNames
<1>2. MetaKept' /\ PurgeIsLate' /\ OwnEntries'
  <2>1. \A d \in Clients : pc[d] \in {"scan", "purge"} => op[d].name \in Names
    BY DEF ListInv, TypeOK, ArgsOK
  <2> QED
    BY <1>1, <2>1 DEF ListInv, MetaKept, HasMeta, PurgeIsLate, OwnEntries, clientVars
<1> QED
  BY <1>2, RestartTypeOK DEF ListInv

LEMMA NextListInv == Ownership /\ ListInv /\ [Next]_vars => ListInv'
<1> SUFFICES ASSUME Ownership, ListInv, [Next]_vars PROVE ListInv'
  OBVIOUS
<1>1. TypeOK'
  BY NextTypeOK DEF ListInv
<1>2. CASE UNCHANGED vars
  BY <1>1, <1>2 DEF vars, ListInv, MetaKept, HasMeta, PurgeIsLate, OwnEntries, LoadingNames
<1>3. ASSUME NEW c \in Clients, Invoke(c) \/ RejectArguments(c) \/ ClientStep(c) \/ Fail(c)
      PROVE  ListInv'
  <2>1. pc[c] \notin {"clear", "flush"}
    BY DEF ListInv, OwnEntries
  <2>2. MetaKept' /\ PurgeIsLate'
    BY <1>1, <1>3, <2>1, QuietClientStep, WriteMetaKeeps, CallLoadKeeps, CallUnloadKeeps,
       ScanKeeps, PurgeEntryKeeps, FailKeeps
    DEF ClientStep, ClearEntry, EndClear, FlushMeta
  <2> QED
    BY <1>1, <1>3, <2>2, OwnEntriesClient DEF ListInv
<1>4. ASSUME NEW x \in Names, ReadStep(x) \/ EndStep(x) \/ UnloadStep(x)
      PROVE  ListInv'
  BY <1>1, <1>4, ServerKeeps, OwnEntriesServer DEF ListInv
<1> QED
  BY <1>2, <1>3, <1>4, RestartKeeps DEF Next

\* On S3, when every name has one client and none begins another, no call, whether
\* it succeeds, fails half way or is abandoned while the server works on, leaves
\* Triton serving a model whose metadata list_deployments could not read.
THEOREM AlwaysListable == Ownership => (Spec => []Listable)
<1> SUFFICES ASSUME Ownership PROVE Spec => []Listable
  OBVIOUS
<1>1. Init => ListInv
  BY InitListInv
<1>2. ListInv /\ [Next]_vars => ListInv'
  BY NextListInv
<1>3. ListInv => Listable
  BY ListInvListable
<1> QED
  BY <1>1, <1>2, <1>3, PTL DEF Spec
=============================================================================
