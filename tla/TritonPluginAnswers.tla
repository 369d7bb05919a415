------------------------ MODULE TritonPluginAnswers ------------------------
(***************************************************************************)
(* Theorems about what calls of TritonPlugin answer: a delete leaves       *)
(* nothing, get_deployment tells what is deployed, predict converts to the *)
(* datatypes of the model that infers.  All rest on clients that manage    *)
(* names of their own and on who may wait for a load.                      *)
(***************************************************************************)
EXTENDS TritonPluginProofs

(***************************************************************************)
(* Loads and the calls that wait for them.                                 *)
(***************************************************************************)
Callers ==
  \A l \in loads : l.caller # None =>
    pc[l.caller] = "await" /\ op[l.caller].name = l.name

OneLoad == \A l, m \in loads : l.name = m.name => l = m

CallerInv == TypeOK /\ Callers /\ OneLoad

\* A step of one client leaves the calls of the others as they are.
LEMMA OthersRest ==
  ASSUME TypeOK, NEW c \in Clients,
         Invoke(c) \/ RejectArguments(c) \/ ClientStep(c) \/ Fail(c)
  PROVE  \A d \in Clients \ {c} :
           /\ pc'[d] = pc[d] /\ op'[d] = op[d] /\ res'[d] = res[d]
           /\ todo'[d] = todo[d] /\ found'[d] = found[d] /\ index'[d] = index[d]
<1>1. PluginTypeOK
  BY DEF TypeOK
<1> QED
  BY <1>1 DEF Invoke, RejectArguments, ClientStep, Fail, ReadIndex, ReadMeta, MetaRaises,
     ListReturns, GetReturns, CheckCreate, CheckDelete, CheckUpdate, Stage, ClearEntry,
     EndClear, CopyEntry, EndCopy, WriteMeta, FlushMeta, CallLoad, ConnectionLost, Describe,
     Infer, CallUnload, Scan, PurgeEntry, EndPurge, Goto, Return, Proceed, PluginTypeOK

\* Only CallLoad and Fail touch the loads, only CallUnload the state of a model.
LEMMA ServerRests ==
  ASSUME NEW c \in Clients, Invoke(c) \/ RejectArguments(c) \/ ClientStep(c) \/ Fail(c)
  PROVE  /\ served' = served
         /\ CallUnload(c) \/ state' = state
         /\ CallLoad(c) \/ Fail(c) \/ loads' = loads
BY DEF Invoke, RejectArguments, ClientStep, Fail, ReadIndex, ReadMeta, MetaRaises,
   ListReturns, GetReturns, CheckCreate, CheckDelete, CheckUpdate, Stage, ClearEntry,
   EndClear, CopyEntry, EndCopy, WriteMeta, FlushMeta, CallLoad, ConnectionLost, Describe,
   Infer, CallUnload, Scan, PurgeEntry, EndPurge, AcceptLoad, AcceptUnload, serverVars

\* A client waits with one load of its own, or with none.
LEMMA CallerClient ==
  ASSUME CallerInv, NEW c \in Clients,
         Invoke(c) \/ RejectArguments(c) \/ ClientStep(c) \/ Fail(c)
  PROVE  Callers' /\ OneLoad'
<1>1. /\ PluginTypeOK /\ ServerTypeOK /\ None \notin Clients
      /\ \A l \in loads : l.caller \in Clients \cup {None}
  BY ValueFacts DEF CallerInv, TypeOK, ServerTypeOK, Loads
<1>2. \A d \in Clients \ {c} : pc'[d] = pc[d] /\ op'[d] = op[d]
  BY OthersRest DEF CallerInv
<1>3. CASE CallLoad(c)
  <2> DEFINE new == [name |-> op[c].name, model |-> None, caller |-> c]
  <2>1. loads' = loads \cup {new} /\ op[c].name \notin LoadingNames
    BY <1>3 DEF CallLoad, AcceptLoad
  <2>2. new.name = op[c].name /\ new.caller = c
    OBVIOUS
  <2>3. pc[c] = "load" /\ pc'[c] = "await" /\ op' = op
    BY <1>1, <1>3 DEF CallLoad, Goto, PluginTypeOK
  <2> HIDE DEF new
  <2>4. \A l \in loads : l.name # op[c].name /\ l.caller # c
    BY <1>1, <2>1, <2>3 DEF LoadingNames, CallerInv, Callers
  <2>5. Callers'
    BY <1>1, <1>2, <2>1, <2>2, <2>3, <2>4 DEF CallerInv, Callers
  <2>6. OneLoad'
    BY <2>1, <2>2, <2>4 DEF CallerInv, OneLoad
  <2> QED
    BY <2>5, <2>6
<1>4. CASE Fail(c)
  <2> DEFINE Dropped(l) == IF l.caller = c THEN [l EXCEPT !.caller = None] ELSE l
  <2>1. loads' = {Dropped(l) : l \in loads}
    BY <1>4 DEF Fail
  <2>2. \A l \in loads : /\ Dropped(l).name = l.name
                         /\ Dropped(l).caller # None => Dropped(l) = l /\ l.caller # c
    BY <1>1 DEF ServerTypeOK, Loads
  <2> HIDE DEF Dropped
  <2>3. Callers'
    BY <1>1, <1>2, <2>1, <2>2 DEF CallerInv, Callers
  <2>4. OneLoad'
    BY <2>1, <2>2 DEF CallerInv, OneLoad
  <2> QED
    BY <2>3, <2>4
<1>5. CASE ~CallLoad(c) /\ ~Fail(c)
  <2>1. loads' = loads
    BY <1>5, ServerRests
  <2>2. pc[c] # "await" \/ \A l \in loads : l.caller # c
    BY <1>5 DEF Invoke, RejectArguments, ClientStep, ReadIndex, ReadMeta, MetaRaises,
       Listing, Listed, ListReturns, GetReturns, CheckCreate, CheckDelete, CheckUpdate,
       Stage, ClearEntry, EndClear, CopyEntry, EndCopy, WriteMeta, FlushMeta,
       ConnectionLost, Describe, Infer, CallUnload, Scan, PurgeEntry, EndPurge
  <2>3. \A l \in loads : l.caller # c
    BY <1>1, <2>2 DEF CallerInv, Callers
  <2> QED
    BY <1>1, <1>2, <2>1, <2>3 DEF CallerInv, Callers, OneLoad
<1> QED
  BY <1>3, <1>4, <1>5

\* A load that is answered ends the call that waits for it, a create or update, and
\* no other.
LEMMA AnswerEnds ==
  ASSUME CallerInv, NEW l \in loads, LoadEnds(l)
  PROVE  /\ loads' = loads \ {l}
         /\ UNCHANGED <<repo, op>>
         /\ \A d \in Clients : d # l.caller =>
              /\ pc'[d] = pc[d] /\ res'[d] = res[d] /\ todo'[d] = todo[d]
              /\ found'[d] = found[d] /\ index'[d] = index[d]
         /\ l.caller # None =>
              /\ l.caller \in Clients /\ pc[l.caller] = "await" /\ pc'[l.caller] = "idle"
              /\ op[l.caller].kind \in {"create", "update"}
<1>1. PluginTypeOK /\ ArgsOK /\ l.caller \in Clients \cup {None}
  BY DEF CallerInv, TypeOK, ServerTypeOK, Loads
<1>2. loads' = loads \ {l} /\ UNCHANGED <<repo, op>>
  BY DEF LoadEnds, LoadSucceeds, LoadFails, Answer, Return, clientVars
<1>3. PICK r \in {"ok", "error"} : Answer(l, r)
  BY DEF LoadEnds
<1>4. \A d \in Clients : d # l.caller =>
        /\ pc'[d] = pc[d] /\ res'[d] = res[d] /\ todo'[d] = todo[d]
        /\ found'[d] = found[d] /\ index'[d] = index[d]
  BY <1>1, <1>3 DEF Answer, Return, Goto, clientVars, PluginTypeOK
<1>5. ASSUME l.caller # None
      PROVE  /\ l.caller \in Clients /\ pc[l.caller] = "await" /\ pc'[l.caller] = "idle"
             /\ op[l.caller].kind \in {"create", "update"}
  BY <1>1, <1>3, <1>5 DEF CallerInv, Callers, Answer, Return, Goto, PluginTypeOK, ArgsOK
<1> QED
  BY <1>2, <1>4, <1>5

LEMMA CallerServer ==
  ASSUME CallerInv, NEW x \in Names, ReadStep(x) \/ EndStep(x) \/ UnloadStep(x)
  PROVE  Callers' /\ OneLoad'
<1>1. ServerTypeOK /\ \A l \in loads : l.caller \in Clients \cup {None}
  BY DEF CallerInv, TypeOK, ServerTypeOK, Loads
<1>2. CASE ReadStep(x)
  <2>1. PICK l \in loads, m \in NewestContent(x) :
          loads' = (loads \ {l}) \cup {[l EXCEPT !.model = m]}
    BY <1>2 DEF ReadStep, ServerReads
  <2>2. PICK k : k = [l EXCEPT !.model = m]
    OBVIOUS
  <2>3. k.name = l.name /\ k.caller = l.caller
    BY <1>1, <2>2 DEF ServerTypeOK, Loads
  <2>4. loads' = (loads \ {l}) \cup {k} /\ pc' = pc /\ op' = op
    BY <1>2, <2>1, <2>2 DEF ReadStep, clientVars
  <2>5. Callers'
    BY <2>3, <2>4 DEF CallerInv, Callers
  <2>6. OneLoad'
    BY <2>3, <2>4 DEF CallerInv, OneLoad
  <2> QED
    BY <2>5, <2>6
<1>3. CASE EndStep(x)
  <2>1. PICK l \in loads : LoadEnds(l)
    BY <1>3 DEF EndStep
  <2>2. \A m \in loads \ {l} : m.caller # None => m.caller # l.caller
    BY DEF CallerInv, Callers, OneLoad
  <2> QED
    BY <1>1, <2>1, <2>2, AnswerEnds DEF CallerInv, Callers, OneLoad
<1>4. CASE UnloadStep(x)
  BY <1>4 DEF UnloadStep, FinishUnload, clientVars, CallerInv, Callers, OneLoad
<1> QED
  BY <1>2, <1>3, <1>4

LEMMA InitCallerInv == Init => CallerInv
<1>1. Init => loads = {}
  BY DEF Init, ServerInit
<1> QED
  BY <1>1, InitTypeOK DEF CallerInv, Callers, OneLoad

LEMMA NextCallerInv == CallerInv /\ [Next]_vars => CallerInv'
<1> SUFFICES ASSUME CallerInv, [Next]_vars PROVE CallerInv'
  OBVIOUS
<1>1. TypeOK'
  BY NextTypeOK DEF CallerInv
<1>2. Callers' /\ OneLoad'
  <2>1. CASE UNCHANGED vars
    BY <2>1 DEF vars, CallerInv, Callers, OneLoad
  <2>2. CASE RestartStep
    BY <2>2 DEF RestartStep, Restart, Callers, OneLoad
  <2> QED
    BY <2>1, <2>2, CallerClient, CallerServer DEF Next
<1> QED
  BY <1>1, <1>2 DEF CallerInv

(***************************************************************************)
(* After a delete nothing of the model is left, on S3.                     *)
(***************************************************************************)
\* No model has more entries than a listing returns.
WholeListings == \A n \in Names : \A K \in SUBSET Keys : Cardinality(Entries(n, K)) <= ListLimit

\* What a delete has not removed yet it is going to remove.
WholePurge(c) ==
  pc[c] = "purge" =>
    \A k \in Keys : repo[op[c].name][k] # None => <<op[c].name, k>> \in todo[c]
PurgeIsWhole == \A c \in Clients : WholePurge(c)

Gone(n) == Present(n) = {} /\ state[n] # "READY" /\ n \notin LoadingNames

LeftNothing(c) == Succeeded(c, {"delete"}) => Gone(op[c].name)
DeletedIsGone  == \A c \in Clients : LeftNothing(c)

DeleteInv == ListInv /\ CallerInv /\ PurgeIsWhole /\ DeletedIsGone

\* Only calls that own a name edit its directory or have it loaded.
LEMMA WorkKinds ==
  ASSUME ListInv, NEW c \in Clients, NEW x \in Names,
         Invoke(c) \/ RejectArguments(c) \/ ClientStep(c) \/ Fail(c),
         repo'[x] # repo[x] \/ (x \in LoadingNames' /\ x \notin LoadingNames)
  PROVE  op[c].name = x /\ pc[c] # "idle" /\ op[c].kind \in {"create", "update", "delete"}
<1>1. TypeOK /\ ArgsOK
  BY DEF ListInv, TypeOK
<1>2. CASE repo'[x] # repo[x]
  <2>1. TodoInv
    <3>1. Slots \subseteq Keys
      BY KeyFacts
    <3> QED
      BY <3>1 DEF ListInv, OwnEntries, TodoInv, OwnTodo
  <2>2. op[c].name = x /\ pc[c] # "idle"
    BY <1>2, <2>1, ClientEdits
  <2>3. pc[c] \in {"download", "clear", "copy", "meta", "flush", "purge"}
    BY <1>2 DEF Invoke, RejectArguments, ClientStep, Fail, ReadIndex, ReadMeta, MetaRaises,
       ListReturns, GetReturns, CheckCreate, CheckDelete, CheckUpdate, Stage, ClearEntry,
       EndClear, CopyEntry, EndCopy, WriteMeta, FlushMeta, CallLoad, ConnectionLost,
       Describe, Infer, CallUnload, Scan, PurgeEntry, EndPurge
  <2> QED
    BY <1>1, <2>2, <2>3 DEF ArgsOK
<1>3. CASE x \in LoadingNames' /\ x \notin LoadingNames
  <2>1. CASE CallLoad(c)
    <3>1. PICK l : l = [name |-> op[c].name, model |-> None, caller |-> c]
      OBVIOUS
    <3>2. loads' = loads \cup {l} /\ l.name = op[c].name /\ pc[c] = "load"
      BY <2>1, <3>1 DEF CallLoad, AcceptLoad
    <3> QED
      BY <1>1, <1>3, <3>2 DEF LoadingNames, ArgsOK
  <2>2. CASE Fail(c)
    <3>1. \A l \in loads : [l EXCEPT !.caller = None].name = l.name
      BY <1>1 DEF TypeOK, ServerTypeOK, Loads
    <3> QED
      BY <1>3, <2>2, <3>1 DEF Fail, LoadingNames
  <2>3. CASE ~CallLoad(c) /\ ~Fail(c)
    BY <1>3, <2>3, ServerRests DEF LoadingNames
  <2> QED
    BY <2>1, <2>2, <2>3
<1> QED
  BY <1>2, <1>3

\* So a step of another client leaves the model a client works on alone.
LEMMA OthersLeaveModel ==
  ASSUME Ownership, ListInv, NEW c \in Clients, NEW d \in Clients \ {c},
         op[d].kind \in {"create", "update", "delete"},
         Invoke(c) \/ RejectArguments(c) \/ ClientStep(c) \/ Fail(c)
  PROVE  LET n == op[d].name IN
         /\ repo'[n] = repo[n] /\ state'[n] = state[n]
         /\ n \in LoadingNames' => n \in LoadingNames
         /\ \A l \in loads' : l.name = n => \E k \in loads : k.name = n /\ k.model = l.model
<1> DEFINE n == op[d].name
<1>1. n \in Names /\ ServerTypeOK /\ ArgsOK
  BY DEF ListInv, TypeOK, ArgsOK
<1>2. ~(op[c].name = n /\ op[c].kind \in {"create", "update", "delete"})
  BY OneAtWork
<1>3. state'[n] = state[n]
  BY <1>1, <1>2, ServerRests DEF CallUnload, AcceptUnload, ServerTypeOK, ArgsOK
<1>4. \A l \in loads' : l.name = n => \E k \in loads : k.name = n /\ k.model = l.model
  <2>1. CASE CallLoad(c)
    <3>1. PICK l : l = [name |-> op[c].name, model |-> None, caller |-> c]
      OBVIOUS
    <3>2. loads' = loads \cup {l} /\ l.name = op[c].name /\ op[c].name # n
      BY <1>1, <1>2, <2>1, <3>1 DEF CallLoad, AcceptLoad, ArgsOK
    <3> QED
      BY <3>2
  <2>2. CASE Fail(c)
    <3> DEFINE Dropped(k) == IF k.caller = c THEN [k EXCEPT !.caller = None] ELSE k
    <3>1. loads' = {Dropped(k) : k \in loads}
      BY <2>2 DEF Fail
    <3>2. \A k \in loads : Dropped(k).name = k.name /\ Dropped(k).model = k.model
      BY <1>1 DEF ServerTypeOK, Loads
    <3> HIDE DEF Dropped
    <3> QED
      BY <3>1, <3>2
  <2> QED
    BY <2>1, <2>2, ServerRests
<1> QED
  BY <1>1, <1>2, <1>3, <1>4, WorkKinds

\* The steps of a delete itself.
LEMMA DeleteClient ==
  ASSUME Ownership, WholeListings, DeleteInv, NEW c \in Clients,
         Invoke(c) \/ RejectArguments(c) \/ ClientStep(c) \/ Fail(c)
  PROVE  PurgeIsWhole' /\ DeletedIsGone'
<1>1. PluginTypeOK /\ ArgsOK /\ RepoTypeOK /\ ListInv /\ TypeOK
  BY DEF DeleteInv, ListInv, TypeOK
<1>2. ASSUME NEW d \in Clients \ {c}
      PROVE  WholePurge(d)' /\ LeftNothing(d)'
  <2>1. /\ pc'[d] = pc[d] /\ op'[d] = op[d] /\ res'[d] = res[d] /\ todo'[d] = todo[d]
    BY <1>1, <1>2, OthersRest
  <2>2. pc[d] = "purge" \/ Succeeded(d, {"delete"}) => op[d].kind = "delete"
    BY <1>1 DEF Succeeded, ArgsOK
  <2>3. CASE op[d].kind = "delete"
    <3> DEFINE n == op[d].name
    <3>1. /\ repo'[n] = repo[n] /\ n = op'[d].name
          /\ state'[n] = state[n] /\ (n \in LoadingNames' => n \in LoadingNames)
      BY <1>1, <2>1, <2>3, OthersLeaveModel
    <3>2. WholePurge(d)'
      BY <2>1, <3>1 DEF DeleteInv, PurgeIsWhole, WholePurge
    <3>3. LeftNothing(d)'
      BY <2>1, <3>1 DEF DeleteInv, DeletedIsGone, LeftNothing, Gone, Present, Succeeded
    <3> QED
      BY <3>2, <3>3
  <2> QED
    BY <2>1, <2>2, <2>3 DEF Succeeded, WholePurge, LeftNothing
<1> SUFFICES WholePurge(c)' /\ LeftNothing(c)'
  BY <1>2 DEF PurgeIsWhole, DeletedIsGone
<1>3. CASE Scan(c)
  <2> DEFINE n == op[c].name
  <2>1. op' = op /\ repo' = repo /\ n \in Names
    BY <1>1, <1>3 DEF Scan, Return, ArgsOK
  <2>2. \/ pc'[c] = "idle" /\ res'[c] = "error"
        \/ pc'[c] = "purge" /\ \E E \in Page(Doomed(n)) : todo'[c] = E
    BY <1>1, <1>3 DEF Scan, Return, Goto, PluginTypeOK
  <2>3. Page(Doomed(n)) = {Entries(n, Present(n))}
    <3>1. Doomed(n) = Entries(n, Present(n))
      BY <2>1 DEF Doomed, Ownership, PrefixFree
    <3>2. Cardinality(Doomed(n)) <= ListLimit
      BY <2>1, <3>1 DEF WholeListings, Present
    <3> QED
      BY <3>1, <3>2 DEF Page
  <2>4. \A k \in Keys : repo[n][k] # None => <<n, k>> \in Entries(n, Present(n))
    BY DEF Entries, Present
  <2> QED
    BY <2>1, <2>2, <2>3, <2>4 DEF Succeeded, WholePurge, LeftNothing
<1>4. CASE PurgeEntry(c)
  <2> DEFINE n == op[c].name
  <2>1. PICK e \in todo[c] :
          /\ repo' = [repo EXCEPT ![e[1]][e[2]] = None]
          /\ todo' = [todo EXCEPT ![c] = @ \ {e}]
    BY <1>4 DEF PurgeEntry, Ownership, Put
  <2>2. op' = op /\ pc' = pc /\ pc[c] = "purge" /\ n \in Names /\ todo[c] \subseteq {n} \X Keys
    BY <1>1, <1>4 DEF PurgeEntry, Ownership, ListInv, OwnEntries, ArgsOK
  <2>3. e = <<n, e[2]>> /\ e[2] \in Keys
    BY <2>1, <2>2
  <2>4. repo'[n][e[2]] = None /\ \A k \in Keys \ {e[2]} : repo'[n][k] = repo[n][k]
    BY <1>1, <2>1, <2>2, <2>3 DEF RepoTypeOK
  <2>5. \A k \in Keys : repo'[n][k] # None => <<n, k>> \in todo[c] \ {e}
    BY <2>2, <2>3, <2>4 DEF DeleteInv, PurgeIsWhole, WholePurge
  <2>6. todo'[c] = todo[c] \ {e}
    BY <1>1, <2>1 DEF PluginTypeOK
  <2> QED
    BY <2>2, <2>5, <2>6 DEF Succeeded, WholePurge, LeftNothing
<1>5. CASE EndPurge(c)
  <2> DEFINE n == op[c].name
  <2>1. /\ repo' = repo /\ op' = op /\ UNCHANGED serverVars
        /\ pc[c] = "purge" /\ pc'[c] = "idle" /\ todo[c] = {}
    BY <1>1, <1>5 DEF EndPurge, Ownership, Return, Goto, PluginTypeOK
  <2>2. Gone(n)
    BY <1>1, <2>1 DEF DeleteInv, PurgeIsWhole, WholePurge, ListInv, PurgeIsLate, Gone, Present
  <2>3. Gone(n)'
    BY <2>1, <2>2 DEF Gone, Present, serverVars, LoadingNames
  <2> QED
    BY <2>1, <2>3 DEF WholePurge, LeftNothing
<1>6. CASE ~Scan(c) /\ ~PurgeEntry(c) /\ ~EndPurge(c)
  <2>1. pc'[c] # "purge"
    BY <1>1, <1>6 DEF Invoke, RejectArguments, ClientStep, Fail, ReadIndex, ReadMeta,
       MetaRaises, Listing, Listed, ListReturns, GetReturns, CheckCreate, CheckDelete,
       CheckUpdate, FirstSteps, Stage, ClearEntry, EndClear, CopyEntry, EndCopy, WriteMeta,
       FlushMeta, CallLoad, ConnectionLost, Describe, Infer, CallUnload, Goto, Return,
       Proceed, PluginTypeOK
  <2>2. res'[c] # "ok" \/ pc'[c] # "idle" \/ op'[c].kind # "delete"
    BY <1>1, <1>6 DEF Invoke, RejectArguments, ClientStep, Fail, ReadIndex, ReadMeta,
       MetaRaises, Listing, Listed, ListReturns, GetReturns, CheckCreate, CheckDelete,
       CheckUpdate, FirstSteps, Stage, ClearEntry, EndClear, CopyEntry, EndCopy, WriteMeta,
       FlushMeta, CallLoad, ConnectionLost, Describe, Infer, CallUnload, Goto, Return,
       Proceed, PluginTypeOK, ArgsOK
  <2> QED
    BY <2>1, <2>2 DEF Succeeded, WholePurge, LeftNothing
<1> QED
  BY <1>3, <1>4, <1>5, <1>6

\* What the server does on its own brings no deleted model back.
LEMMA DeleteServer ==
  ASSUME DeleteInv, NEW x \in Names, ReadStep(x) \/ EndStep(x) \/ UnloadStep(x)
  PROVE  PurgeIsWhole' /\ DeletedIsGone'
<1>1. PluginTypeOK /\ ServerTypeOK /\ ArgsOK
  BY DEF DeleteInv, ListInv, TypeOK
<1>2. repo' = repo /\ op' = op /\ LoadingNames' \subseteq LoadingNames
  <2>1. CASE ReadStep(x)
    <3>1. PICK l \in loads, v \in NewestContent(x) :
            loads' = (loads \ {l}) \cup {[l EXCEPT !.model = v]}
      BY <2>1 DEF ReadStep, ServerReads
    <3>2. [l EXCEPT !.model = v].name = l.name
      BY <1>1 DEF ServerTypeOK, Loads
    <3> QED
      BY <2>1, <3>1, <3>2 DEF LoadingNames, ReadStep, clientVars
  <2>2. CASE EndStep(x)
    BY <2>2, AnswerEnds DEF EndStep, LoadingNames, DeleteInv
  <2>3. CASE UnloadStep(x)
    BY <2>3 DEF UnloadStep, FinishUnload, LoadingNames, clientVars
  <2> QED
    BY <2>1, <2>2, <2>3
<1>3. \A y \in Names : state'[y] = "READY" => state[y] = "READY" \/ y \in LoadingNames
  BY <1>1 DEF ReadStep, ServerReads, EndStep, LoadEnds, LoadSucceeds, LoadFails,
     UnloadStep, FinishUnload, LoadingNames, ServerTypeOK
<1>4. \A d \in Clients :
        \/ pc'[d] = pc[d] /\ res'[d] = res[d] /\ todo'[d] = todo[d]
        \/ pc'[d] = "idle" /\ op[d].kind # "delete"
  <2>1. CASE EndStep(x)
    <3>1. PICK l \in loads : LoadEnds(l)
      BY <2>1 DEF EndStep
    <3>2. \A d \in Clients : d # l.caller =>
            pc'[d] = pc[d] /\ res'[d] = res[d] /\ todo'[d] = todo[d]
      BY <3>1, AnswerEnds DEF DeleteInv
    <3>3. ASSUME NEW d \in Clients, d = l.caller
          PROVE  pc'[d] = "idle" /\ op[d].kind # "delete"
      BY <3>1, <3>3, AnswerEnds, ValueFacts DEF DeleteInv
    <3> QED
      BY <3>2, <3>3
  <2>2. CASE ReadStep(x) \/ UnloadStep(x)
    BY <2>2 DEF ReadStep, UnloadStep, clientVars
  <2> QED
    BY <2>1, <2>2
<1>5. PurgeIsWhole'
  BY <1>2, <1>4 DEF DeleteInv, PurgeIsWhole, WholePurge
<1>6. DeletedIsGone'
  <2>1. \A d \in Clients : op[d].kind = "delete" => op[d].name \in Names
    BY <1>1 DEF ArgsOK
  <2> QED
    BY <1>2, <1>3, <1>4, <2>1 DEF DeleteInv, DeletedIsGone, LeftNothing, Gone, Present, Succeeded
<1> QED
  BY <1>5, <1>6

LEMMA NextDeleteInv ==
  Ownership /\ WholeListings /\ DeleteInv /\ [Next]_vars => DeleteInv'
<1> SUFFICES ASSUME Ownership, WholeListings, DeleteInv, [Next]_vars PROVE DeleteInv'
  OBVIOUS
<1>1. ListInv' /\ CallerInv'
  BY NextListInv, NextCallerInv DEF DeleteInv
<1>2. CASE UNCHANGED vars
  BY <1>1, <1>2 DEF vars, DeleteInv, PurgeIsWhole, WholePurge, DeletedIsGone,
     LeftNothing, Gone, Present, Succeeded,
     LoadingNames
<1>3. CASE RestartStep
  <2>1. /\ UNCHANGED <<repo, clientVars>> /\ LoadingNames' = {}
        /\ \A x \in Names : state'[x] # "READY"
    BY <1>3 DEF RestartStep, Restart, LoadingNames
  <2>2. \A d \in Clients : op[d].kind = "delete" => op[d].name \in Names
    BY DEF DeleteInv, ListInv, TypeOK, ArgsOK
  <2> QED
    BY <1>1, <2>1, <2>2 DEF DeleteInv, PurgeIsWhole, WholePurge, DeletedIsGone,
     LeftNothing, Gone, Present, Succeeded,
       clientVars
<1> QED
  BY <1>1, <1>2, <1>3, DeleteClient, DeleteServer DEF Next, DeleteInv

\* On S3, when every name has one client, none begins another and no model has more
\* files than a listing returns, a delete that reports success has removed all of the
\* model, and it stays away, whatever other calls do or did before, failed half way or
\* abandoned ones included (delete_deployment).
THEOREM DeleteLeavesNothing == Ownership /\ WholeListings => (Spec => []DeleteRemovesModel)
<1> SUFFICES ASSUME Ownership, WholeListings PROVE Spec => []DeleteRemovesModel
  OBVIOUS
<1>1. Init => DeleteInv
  <2>1. Init => PurgeIsWhole /\ DeletedIsGone
    BY DEF Init, PurgeIsWhole, WholePurge, DeletedIsGone, LeftNothing, Succeeded
  <2> QED
    BY <2>1, InitListInv, InitCallerInv DEF DeleteInv
<1>2. DeleteInv /\ [Next]_vars => DeleteInv'
  BY NextDeleteInv
<1>3. DeleteInv => DeleteRemovesModel
  BY DEF DeleteInv, DeletedIsGone, LeftNothing, Gone, DeleteRemovesModel
<1> QED
  BY <1>1, <1>2, <1>3, PTL DEF Spec

(***************************************************************************)
(* What readers of their own models are told.                              *)
(***************************************************************************)
\* Clients create, update and delete only what they manage.
Owned ==
  \A c \in Clients :
    op[c].kind \in {"create", "update", "delete"} => op[c].name \in ClientNames[c]

\* Without restarts the model of a get_deployment stays READY and its metadata as read.
GetHolds(c) ==
  op[c].kind = "get" /\ op[c].name \in ClientNames[c] =>
    LET n == op[c].name IN
    /\ Listing(c) /\ n \in index[c] => state[n] = "READY"
    /\ (Listing(c) \/ Succeeded(c, {"get"})) /\ found[c] # None =>
         state[n] = "READY" /\ found[c] = repo[n][MetaFile]
    /\ Succeeded(c, {"get"}) => found[c] # None

\* While no call is abandoned either, no load runs that the client of a predict
\* does not wait for, so the model described is the model that infers.
PredictHolds(c) ==
  op[c].kind = "predict" /\ op[c].name \in ClientNames[c] =>
    LET n == op[c].name IN
    (pc[c] = "infer" \/ Succeeded(c, {"predict"})) /\ found[c] # None =>
      state[n] = "READY" /\ served[n] = found[c]

\* Every load has its caller.
Attended == \A l \in loads : l.caller # None

GetInv == TodoInv /\ CallerInv /\ Owned /\ \A c \in Clients : GetHolds(c)

PredictInv == CallerInv /\ Owned /\ Attended /\ \A c \in Clients : PredictHolds(c)

LEMMA NextOwned == TypeOK /\ Owned /\ [Next]_vars => Owned'
<1> SUFFICES ASSUME TypeOK, Owned, [Next]_vars PROVE Owned'
  OBVIOUS
<1>1. PluginTypeOK
  BY DEF TypeOK
<1>2. ASSUME NEW c \in Clients, Invoke(c) \/ RejectArguments(c) PROVE Owned'
  <2>1. PICK r \in Requests(c) : op' = [op EXCEPT ![c] = r]
    BY <1>2 DEF Invoke, RejectArguments
  <2>2. r.kind \in {"create", "update", "delete"} => r.name \in ClientNames[c]
    BY DEF Requests
  <2> QED
    BY <1>1, <2>1, <2>2 DEF Owned, PluginTypeOK
<1>3. ASSUME NEW c \in Clients, ClientStep(c) \/ Fail(c) PROVE op' = op
  BY <1>3 DEF ClientStep, Fail, ReadIndex, ReadMeta, MetaRaises,
     ListReturns, GetReturns, CheckCreate, CheckDelete, CheckUpdate, Stage, ClearEntry,
     EndClear, CopyEntry, EndCopy, WriteMeta, FlushMeta, CallLoad, ConnectionLost, Describe,
     Infer, CallUnload, Scan, PurgeEntry, EndPurge, Return, Proceed
<1>4. ASSUME \/ UNCHANGED vars \/ RestartStep
             \/ \E x \in Names : ReadStep(x) \/ EndStep(x) \/ UnloadStep(x)
      PROVE  op' = op
  BY <1>4 DEF vars, RestartStep, ReadStep, EndStep, LoadEnds, Answer, Return, UnloadStep,
     clientVars
<1> QED
  BY <1>2, <1>3, <1>4 DEF Owned, Next

\* A model of c is edited or unloaded in calls of c only.
LEMMA OwnWork ==
  ASSUME DisjointOwners, TypeOK, Owned, NEW c \in Clients, NEW d \in Clients \ {c},
         op[d].name \in ClientNames[d],
         op[c].kind \in {"create", "update", "delete"}
  PROVE  op[c].name # op[d].name
BY PluginAssumption DEF DisjointOwners, Owned

\* A client step that takes READY away is the unload of that model.
LEMMA UnloadsOwn ==
  ASSUME TypeOK, NEW c \in Clients, NEW x \in Names, state[x] = "READY",
         Invoke(c) \/ RejectArguments(c) \/ ClientStep(c) \/ Fail(c),
         state'[x] # "READY"
  PROVE  op[c].name = x /\ op[c].kind = "delete" /\ pc[c] = "unload"
BY ServerRests DEF CallUnload, AcceptUnload, TypeOK, ServerTypeOK, ArgsOK

\* An edit is part of a call that creates, updates or deletes.
LEMMA EditKinds ==
  ASSUME TodoInv, NEW c \in Clients, NEW x \in Names,
         Invoke(c) \/ RejectArguments(c) \/ ClientStep(c) \/ Fail(c),
         repo'[x] # repo[x]
  PROVE  op[c].name = x /\ op[c].kind \in {"create", "update", "delete"}
<1>1. op[c].name = x
  BY ClientEdits
<1>2. pc[c] \in {"download", "clear", "copy", "meta", "flush", "purge"}
  BY DEF Invoke, RejectArguments, ClientStep, Fail, ReadIndex, ReadMeta, MetaRaises,
     ListReturns, GetReturns, CheckCreate, CheckDelete, CheckUpdate, Stage, ClearEntry,
     EndClear, CopyEntry, EndCopy, WriteMeta, FlushMeta, CallLoad, ConnectionLost,
     Describe, Infer, CallUnload, Scan, PurgeEntry, EndPurge
<1> QED
  BY <1>1, <1>2 DEF TodoInv, TypeOK, ArgsOK

LEMMA GetClient ==
  ASSUME NamesApart, DisjointOwners, GetInv, TypeOK', NEW c \in Clients,
         Invoke(c) \/ RejectArguments(c) \/ ClientStep(c) \/ Fail(c)
  PROVE  \A d \in Clients : GetHolds(d)'
<1>1. TypeOK /\ PluginTypeOK /\ ArgsOK /\ ServerTypeOK
  BY DEF GetInv, CallerInv, TypeOK
<1>2. ASSUME NEW d \in Clients \ {c} PROVE GetHolds(d)'
  <2>1. /\ pc'[d] = pc[d] /\ op'[d] = op[d] /\ res'[d] = res[d]
        /\ found'[d] = found[d] /\ index'[d] = index[d]
    BY <1>1, OthersRest
  <2>2. CASE op[d].kind = "get" /\ op[d].name \in ClientNames[d]
    <3> DEFINE n == op[d].name
    <3>1. n \in Names
      BY <1>1, <2>2 DEF ArgsOK
    <3>2. op[c].kind \in {"create", "update", "delete"} => op[c].name # n
      BY <1>1, <2>2, OwnWork DEF GetInv
    <3>3. repo'[n] = repo[n]
      BY <3>1, <3>2, EditKinds DEF GetInv
    <3>4. state[n] = "READY" => state'[n] = "READY"
      BY <1>1, <3>1, <3>2, UnloadsOwn
    <3> QED
      BY <2>1, <3>3, <3>4 DEF GetInv, GetHolds, Listing, Succeeded
  <2> QED
    BY <2>1, <2>2 DEF GetHolds
<1>3. GetHolds(c)'
  <2> SUFFICES ASSUME op'[c].kind = "get" PROVE GetHolds(c)'
    BY DEF GetHolds
  <2>1. CASE ReadIndex(c)
    BY <1>1, <2>1 DEF ReadIndex, ReadyNames, Goto, GetHolds, Listing, Succeeded,
       PluginTypeOK, serverVars
  <2>2. CASE ReadMeta(c)
    <3>1. PICK x \in index[c] : /\ index' = [index EXCEPT ![c] = @ \ {x}]
                               /\ found' = [found EXCEPT ![c] =
                                     IF x = op[c].name THEN repo[x][MetaFile] ELSE @]
      BY <2>2 DEF ReadMeta
    <3>2. UNCHANGED <<repo, state, pc, op, res>> /\ Listing(c)
      BY <2>2 DEF ReadMeta, serverVars
    <3>3. index'[c] = index[c] \ {x}
          /\ found'[c] = IF x = op[c].name THEN repo[x][MetaFile] ELSE found[c]
      BY <1>1, <3>1 DEF PluginTypeOK
    <3> QED
      BY <3>1, <3>2, <3>3 DEF GetInv, GetHolds, Listing, Succeeded
  <2>3. CASE GetReturns(c)
    BY <1>1, <2>3 DEF GetReturns, Listed, Exists, Return, Goto, GetInv, GetHolds, Listing,
       Succeeded, PluginTypeOK, serverVars
  <2>4. CASE ~ReadIndex(c) /\ ~ReadMeta(c) /\ ~GetReturns(c)
    <3>1. ~Listing(c)' /\ (pc'[c] # "idle" \/ res'[c] # "ok")
      BY <1>1, <2>4 DEF Invoke, RejectArguments, ClientStep, Fail, MetaRaises,
         ListReturns, CheckCreate, CheckDelete, CheckUpdate, FirstSteps, Stage, ClearEntry,
         EndClear, CopyEntry, EndCopy, WriteMeta, FlushMeta, CallLoad, ConnectionLost,
         Describe, Infer, CallUnload, Scan, PurgeEntry, EndPurge, Listing, Listed, Goto,
         Return, Proceed, PluginTypeOK, ArgsOK
    <3> QED
      BY <3>1 DEF GetHolds, Succeeded
  <2> QED
    BY <2>1, <2>2, <2>3, <2>4
<1> QED
  BY <1>2, <1>3

\* The server takes READY away only from a model that is unloading.
LEMMA GetServer ==
  ASSUME GetInv, NEW x \in Names, ReadStep(x) \/ EndStep(x) \/ UnloadStep(x)
  PROVE  \A d \in Clients : GetHolds(d)'
<1>1. ServerTypeOK /\ CallerInv /\ ArgsOK
  BY DEF GetInv, CallerInv, TypeOK
<1>2. UNCHANGED <<repo, op>>
  BY AnswerEnds DEF GetInv, ReadStep, EndStep, UnloadStep, clientVars
<1>3. \A y \in Names : state[y] = "READY" => state'[y] = "READY"
  BY <1>1 DEF ReadStep, ServerReads, EndStep, LoadEnds, LoadSucceeds, LoadFails,
     UnloadStep, FinishUnload, ServerTypeOK
<1>4. \A d \in Clients : op[d].kind = "get" =>
        /\ pc'[d] = pc[d] /\ res'[d] = res[d] /\ found'[d] = found[d] /\ index'[d] = index[d]
  <2>1. CASE EndStep(x)
    <3>1. PICK l \in loads : LoadEnds(l)
      BY <2>1 DEF EndStep
    <3>2. \A d \in Clients : op[d].kind = "get" => d # l.caller
      BY <1>1, <3>1, AnswerEnds, ValueFacts
    <3> QED
      BY <1>1, <3>1, <3>2, AnswerEnds
  <2>2. CASE ReadStep(x) \/ UnloadStep(x)
    BY <2>2 DEF ReadStep, UnloadStep, clientVars
  <2> QED
    BY <2>1, <2>2
<1>5. \A d \in Clients : op[d].kind = "get" => op[d].name \in Names
  BY <1>1 DEF ArgsOK
<1> QED
  BY <1>2, <1>3, <1>4, <1>5 DEF GetInv, GetHolds, Listing, Succeeded

\* When every name has one client and none begins another (or the repository is local),
\* a client that asks for a model it manages is told what the model's metadata names, and
\* the model is READY, whatever others do and whatever failed before (get_deployment
\* and the listing it reads name by name).  The server is not restarted meanwhile.
THEOREM GetIsTrue ==
  NamesApart /\ DisjointOwners /\ ~MayRestart => (Spec => []GetReportsDeployed)
<1> SUFFICES ASSUME NamesApart, DisjointOwners, ~MayRestart PROVE Spec => []GetReportsDeployed
  OBVIOUS
<1>1. Init => GetInv
  <2>1. Init => OwnTodo /\ Owned /\ \A c \in Clients : GetHolds(c)
    BY DEF Init, OwnTodo, Owned, GetHolds
  <2> QED
    BY <2>1, InitTypeOK, InitCallerInv DEF GetInv, TodoInv
<1>2. GetInv /\ [Next]_vars => GetInv'
  <2> SUFFICES ASSUME GetInv, [Next]_vars PROVE GetInv'
    OBVIOUS
  <2>1. TodoInv' /\ CallerInv' /\ Owned' /\ TypeOK'
    BY NextTodoInv, NextCallerInv, NextOwned DEF GetInv, CallerInv
  <2>2. CASE UNCHANGED vars
    BY <2>1, <2>2 DEF vars, GetInv, GetHolds, Listing, Succeeded
  <2> QED
    BY <2>1, <2>2, GetClient, GetServer DEF Next, RestartStep, GetInv
<1>3. GetInv => GetReportsDeployed
  BY DEF GetInv, GetHolds, GetReportsDeployed, Succeeded
<1> QED
  BY <1>1, <1>2, <1>3, PTL DEF Spec

\* Loads of a model are started in calls of its client only, and waited for.
LEMMA NextAttended ==
  ASSUME ~MayFail, CallerInv, Attended, [Next]_vars
  PROVE  Attended'
<1>1. ServerTypeOK /\ None \notin Clients
  BY ValueFacts DEF CallerInv, TypeOK
<1>2. ASSUME NEW c \in Clients, CallLoad(c) PROVE Attended'
  <2>1. PICK l : l = [name |-> op[c].name, model |-> None, caller |-> c]
    OBVIOUS
  <2>2. loads' = loads \cup {l} /\ l.caller = c
    BY <1>2, <2>1 DEF CallLoad, AcceptLoad
  <2> QED
    BY <1>1, <2>2 DEF Attended
<1>3. ASSUME NEW c \in Clients, Invoke(c) \/ RejectArguments(c) \/ ClientStep(c), ~CallLoad(c)
      PROVE  Attended'
  BY <1>3, ServerRests DEF Fail, Attended
<1>4. ASSUME NEW x \in Names, ReadStep(x) PROVE Attended'
  <2>1. PICK l \in loads, m \in NewestContent(x) :
          loads' = (loads \ {l}) \cup {[l EXCEPT !.model = m]}
    BY <1>4 DEF ReadStep, ServerReads
  <2>2. [l EXCEPT !.model = m].caller = l.caller
    BY <1>1 DEF ServerTypeOK, Loads
  <2> QED
    BY <2>1, <2>2 DEF Attended
<1>5. ASSUME NEW x \in Names, EndStep(x) \/ UnloadStep(x) PROVE Attended'
  BY <1>5, AnswerEnds DEF EndStep, UnloadStep, FinishUnload, Attended
<1> QED
  BY <1>2, <1>3, <1>4, <1>5 DEF Next, Fail, RestartStep, Restart, Attended, vars

LEMMA PredictClient ==
  ASSUME DisjointOwners, PredictInv, TypeOK', NEW c \in Clients,
         Invoke(c) \/ RejectArguments(c) \/ ClientStep(c) \/ Fail(c)
  PROVE  \A d \in Clients : PredictHolds(d)'
<1>1. TypeOK /\ PluginTypeOK /\ ArgsOK /\ served' = served
  BY ServerRests DEF PredictInv, CallerInv, TypeOK
<1>2. ASSUME NEW d \in Clients \ {c} PROVE PredictHolds(d)'
  <2>1. /\ pc'[d] = pc[d] /\ op'[d] = op[d] /\ res'[d] = res[d] /\ found'[d] = found[d]
    BY <1>1, OthersRest
  <2>2. CASE op[d].kind = "predict" /\ op[d].name \in ClientNames[d]
    <3> DEFINE n == op[d].name
    <3>1. n \in Names
      BY <1>1, <2>2 DEF ArgsOK
    <3>2. op[c].kind \in {"create", "update", "delete"} => op[c].name # n
      BY <1>1, <2>2, OwnWork DEF PredictInv
    <3>3. state[n] = "READY" => state'[n] = "READY"
      BY <1>1, <3>1, <3>2, UnloadsOwn
    <3> QED
      BY <1>1, <2>1, <3>3 DEF PredictInv, PredictHolds, Succeeded
  <2> QED
    BY <2>1, <2>2 DEF PredictHolds
<1>3. PredictHolds(c)'
  <2> SUFFICES ASSUME op'[c].kind = "predict" PROVE PredictHolds(c)'
    BY DEF PredictHolds
  <2>1. CASE Invoke(c)
    BY <1>1, <2>1 DEF Invoke, PredictHolds, PluginTypeOK
  <2>2. CASE Describe(c)
    BY <1>1, <2>2 DEF Describe, Goto, Return, PredictHolds, Succeeded, PluginTypeOK, serverVars
  <2>3. CASE Infer(c)
    BY <1>1, <2>3 DEF Infer, Goto, Return, PredictInv, PredictHolds, Succeeded, PluginTypeOK,
       serverVars
  <2>4. CASE ~Invoke(c) /\ ~Describe(c) /\ ~Infer(c)
    <3>1. pc'[c] # "infer" /\ (pc'[c] # "idle" \/ res'[c] # "ok")
      BY <1>1, <2>4 DEF RejectArguments, ClientStep, Fail, ReadIndex, ReadMeta, MetaRaises,
         ListReturns, GetReturns, CheckCreate, CheckDelete, CheckUpdate, Stage, ClearEntry,
         EndClear, CopyEntry, EndCopy, WriteMeta, FlushMeta, CallLoad, ConnectionLost,
         CallUnload, Scan, PurgeEntry, EndPurge, Listing, Listed, Goto, Return, Proceed,
         PluginTypeOK, ArgsOK
    <3> QED
      BY <3>1 DEF PredictHolds, Succeeded
  <2> QED
    BY <2>1, <2>2, <2>3, <2>4
<1> QED
  BY <1>2, <1>3

\* A load that ends changes the model of the client that waits for it, which then
\* makes no predict.
LEMMA PredictServer ==
  ASSUME DisjointOwners, PredictInv, NEW x \in Names, ReadStep(x) \/ EndStep(x) \/ UnloadStep(x)
  PROVE  \A d \in Clients : PredictHolds(d)'
<1>1. ServerTypeOK /\ CallerInv /\ ArgsOK /\ TypeOK
  BY DEF PredictInv, CallerInv, TypeOK
<1>2. CASE ReadStep(x)
  BY <1>2 DEF ReadStep, ServerReads, clientVars, PredictInv, PredictHolds, Succeeded
<1>3. CASE UnloadStep(x)
  <2>1. \A y \in Names : state[y] = "READY" => state'[y] = "READY" /\ served'[y] = served[y]
    BY <1>1, <1>3 DEF UnloadStep, FinishUnload, ServerTypeOK
  <2>2. \A d \in Clients : op[d].kind = "predict" => op[d].name \in Names
    BY <1>1 DEF ArgsOK
  <2> QED
    BY <1>3, <2>1, <2>2 DEF UnloadStep, clientVars, PredictInv, PredictHolds, Succeeded
<1>4. CASE EndStep(x)
  <2>1. PICK l \in loads : LoadEnds(l)
    BY <1>4 DEF EndStep
  <2>2. l.caller \in Clients /\ op[l.caller].name = l.name
        /\ op[l.caller].kind \in {"create", "update"} /\ op' = op
    BY <1>1, <2>1, AnswerEnds DEF PredictInv, CallerInv, Callers, Attended
  <2>3. ASSUME NEW d \in Clients, op[d].kind = "predict", op[d].name \in ClientNames[d]
        PROVE  PredictHolds(d)'
    <3> DEFINE n == op[d].name
    <3>1. d # l.caller
      BY <2>2, <2>3
    <3>2. l.name # n /\ n \in Names
      BY <1>1, <2>2, <2>3, <3>1, OwnWork DEF PredictInv, ArgsOK
    <3>3. state'[n] = state[n] /\ served'[n] = served[n]
      BY <1>1, <2>1, <3>2 DEF LoadEnds, LoadSucceeds, LoadFails, ServerTypeOK
    <3>4. pc'[d] = pc[d] /\ res'[d] = res[d] /\ found'[d] = found[d]
      BY <1>1, <2>1, <3>1, AnswerEnds
    <3> QED
      BY <2>2, <3>3, <3>4 DEF PredictInv, PredictHolds, Succeeded
  <2> QED
    BY <2>2, <2>3 DEF PredictHolds
<1> QED
  BY <1>2, <1>3, <1>4

\* When every name has one client, no call is abandoned and the server is not restarted,
\* the datatypes a predict converted its inputs to are those of the artifact that
\* answered, and it stays the one served until the client's next call (predict).
THEOREM PredictIsTyped ==
  DisjointOwners /\ ~MayFail /\ ~MayRestart => (Spec => []PredictUsesServedTypes)
<1> SUFFICES ASSUME DisjointOwners, ~MayFail, ~MayRestart
             PROVE  Spec => []PredictUsesServedTypes
  OBVIOUS
<1>1. Init => PredictInv
  <2>1. Init => Owned /\ Attended /\ \A c \in Clients : PredictHolds(c)
    BY DEF Init, ServerInit, Owned, Attended, PredictHolds
  <2> QED
    BY <2>1, InitCallerInv DEF PredictInv
<1>2. PredictInv /\ [Next]_vars => PredictInv'
  <2> SUFFICES ASSUME PredictInv, [Next]_vars PROVE PredictInv'
    OBVIOUS
  <2>1. CallerInv' /\ Owned' /\ Attended' /\ TypeOK'
    BY NextCallerInv, NextOwned, NextAttended DEF PredictInv, CallerInv
  <2>2. CASE UNCHANGED vars
    BY <2>1, <2>2 DEF vars, PredictInv, PredictHolds, Succeeded
  <2> QED
    BY <2>1, <2>2, PredictClient, PredictServer DEF Next, RestartStep, PredictInv
<1>3. PredictInv => PredictUsesServedTypes
  BY DEF PredictInv, PredictHolds, PredictUsesServedTypes, Succeeded
<1> QED
  BY <1>1, <1>2, <1>3, PTL DEF Spec

(***************************************************************************)
(* A create spares the model that is served.                               *)
(***************************************************************************)
\* A create that found no deployment works on a model that is not READY.
CreateHolds(c) ==
  op[c].kind = "create" =>
    /\ Listing(c) /\ op[c].name \notin index[c] /\ found[c] = None
         => state[op[c].name] # "READY"
    /\ pc[c] \in {"download", "copy", "meta", "load"} => state[op[c].name] # "READY"

CreateInv == ListInv /\ CallerInv /\ Attended /\ \A c \in Clients : CreateHolds(c)

LEMMA CreateClient ==
  ASSUME Ownership, CreateInv, NEW c \in Clients,
         Invoke(c) \/ RejectArguments(c) \/ ClientStep(c) \/ Fail(c)
  PROVE  \A d \in Clients : CreateHolds(d)'
<1>1. TypeOK /\ PluginTypeOK /\ ArgsOK /\ ServerTypeOK
  BY DEF CreateInv, ListInv, TypeOK
<1>2. \A x \in Names : state[x] # "READY" => state'[x] # "READY"
  BY <1>1, ServerRests DEF CallUnload, AcceptUnload, ServerTypeOK
<1>3. ASSUME NEW d \in Clients \ {c} PROVE CreateHolds(d)'
  <2>1. pc'[d] = pc[d] /\ op'[d] = op[d] /\ found'[d] = found[d] /\ index'[d] = index[d]
    BY <1>1, OthersRest
  <2>2. op[d].kind = "create" => op[d].name \in Names
    BY <1>1 DEF ArgsOK
  <2> QED
    BY <1>2, <2>1, <2>2 DEF CreateInv, CreateHolds, Listing
<1>4. CreateHolds(c)'
  <2> SUFFICES ASSUME op'[c].kind = "create" PROVE CreateHolds(c)'
    BY DEF CreateHolds
  <2> DEFINE n == op[c].name
  <2>1. CASE ReadIndex(c)
    <3>1. op'[c].name \in Names
      BY <1>1, <2>1 DEF ReadIndex, ArgsOK
    <3> QED
      BY <1>1, <2>1, <3>1 DEF ReadIndex, ReadyNames, Goto, CreateHolds, Listing, PluginTypeOK,
         serverVars
  <2>2. CASE ReadMeta(c)
    <3>1. PICK x \in index[c] : /\ MetaReads(x)
                               /\ index' = [index EXCEPT ![c] = @ \ {x}]
                               /\ found' = [found EXCEPT ![c] =
                                     IF x = n THEN repo[x][MetaFile] ELSE @]
      BY <2>2 DEF ReadMeta
    <3>2. UNCHANGED <<repo, state, pc, op>> /\ Listing(c)
      BY <2>2 DEF ReadMeta, serverVars
    <3>3. index'[c] = index[c] \ {x} /\ found'[c] = IF x = n THEN repo[x][MetaFile] ELSE found[c]
      BY <1>1, <3>1 DEF PluginTypeOK
    <3>4. repo[x][MetaFile] # None
      BY <3>1, ValueFacts DEF MetaReads, Ownership
    <3> QED
      BY <3>2, <3>3, <3>4 DEF CreateInv, CreateHolds, Listing
  <2>3. CASE CheckCreate(c)
    <3>1. UNCHANGED <<state, op>> /\ Listing(c) /\ n \notin index[c]
      BY <2>3 DEF CheckCreate, Listed, Return, Proceed, serverVars
    <3>2. \/ pc'[c] = "idle"
          \/ pc'[c] = "download" /\ found[c] = None
      BY <1>1, <2>3 DEF CheckCreate, Return, Proceed, Goto, Exists, PluginTypeOK
    <3> QED
      BY <3>1, <3>2 DEF CreateInv, CreateHolds, Listing
  <2>4. CASE Stage(c) \/ CopyEntry(c) \/ EndCopy(c) \/ WriteMeta(c)
    <3>1. UNCHANGED <<state, op>> /\ pc[c] \in {"download", "copy", "meta"} /\ ~Listing(c)'
      BY <1>1, <2>4 DEF Stage, CopyEntry, EndCopy, WriteMeta, Ownership, Listing, Goto,
         PluginTypeOK, serverVars
    <3> QED
      BY <3>1 DEF CreateInv, CreateHolds
  <2>5. CASE ~(\/ ReadIndex(c) \/ ReadMeta(c) \/ CheckCreate(c)
               \/ Stage(c) \/ CopyEntry(c) \/ EndCopy(c) \/ WriteMeta(c))
    <3>1. pc[c] \notin {"clear", "flush"}
      BY DEF CreateInv, ListInv, OwnEntries
    <3>2. ~Listing(c)' /\ pc'[c] \notin {"download", "copy", "meta", "load"}
      BY <1>1, <2>5, <3>1 DEF Invoke, RejectArguments, ClientStep, Fail, MetaRaises,
         ListReturns, GetReturns, CheckDelete, CheckUpdate, FirstSteps, ClearEntry, EndClear,
         FlushMeta, CallLoad, ConnectionLost, Describe, Infer, CallUnload, Scan, PurgeEntry,
         EndPurge, Listing, Listed, Goto, Return, Proceed, PluginTypeOK, ArgsOK
    <3> QED
      BY <3>2 DEF CreateHolds
  <2> QED
    BY <2>1, <2>2, <2>3, <2>4, <2>5
<1> QED
  BY <1>3, <1>4

\* A load that ends is of a model whose client waits for it, not one at work on it.
LEMMA CreateServer ==
  ASSUME Ownership, CreateInv, NEW x \in Names, ReadStep(x) \/ EndStep(x) \/ UnloadStep(x)
  PROVE  \A d \in Clients : CreateHolds(d)'
<1>1. CallerInv /\ ServerTypeOK /\ ArgsOK /\ ListInv
  BY DEF CreateInv, ListInv, TypeOK
<1>2. \A d \in Clients : op[d].kind = "create" => op[d].name \in Names
  BY <1>1 DEF ArgsOK
<1>3. CASE ReadStep(x)
  BY <1>3 DEF ReadStep, ServerReads, clientVars, CreateInv, CreateHolds, Listing
<1>4. CASE UnloadStep(x)
  <2>1. \A y \in Names : state'[y] = "READY" => state[y] = "READY"
    BY <1>1, <1>4 DEF UnloadStep, FinishUnload, ServerTypeOK
  <2> QED
    BY <1>2, <1>4, <2>1 DEF UnloadStep, clientVars, CreateInv, CreateHolds, Listing
<1>5. CASE EndStep(x)
  <2>1. PICK l \in loads : LoadEnds(l)
    BY <1>5 DEF EndStep
  <2>2. /\ l.caller \in Clients /\ op[l.caller].name = l.name /\ op' = op
        /\ op[l.caller].kind \in {"create", "update"} /\ pc'[l.caller] = "idle"
    BY <1>1, <2>1, AnswerEnds DEF CreateInv, CallerInv, Callers, Attended
  <2>3. CreateHolds(l.caller)'
    BY <2>2 DEF CreateHolds, Listing
  <2>4. ASSUME NEW d \in Clients, d # l.caller, op[d].kind = "create" PROVE CreateHolds(d)'
    <3>1. op[d].name # l.name
      BY <1>1, <2>2, <2>4, OneAtWork
    <3>2. state'[op[d].name] = state[op[d].name]
      BY <1>1, <1>2, <2>1, <2>4, <3>1 DEF LoadEnds, LoadSucceeds, LoadFails, ServerTypeOK
    <3>3. pc'[d] = pc[d] /\ found'[d] = found[d] /\ index'[d] = index[d]
      BY <1>1, <2>1, <2>4, AnswerEnds
    <3> QED
      BY <2>2, <3>2, <3>3 DEF CreateInv, CreateHolds, Listing
  <2> QED
    BY <2>2, <2>3, <2>4 DEF CreateHolds
<1> QED
  BY <1>3, <1>4, <1>5

LEMMA NextCreateInv ==
  Ownership /\ ~MayFail /\ CreateInv /\ [Next]_vars => CreateInv'
<1> SUFFICES ASSUME Ownership, ~MayFail, CreateInv, [Next]_vars PROVE CreateInv'
  OBVIOUS
<1>1. ListInv' /\ CallerInv' /\ Attended'
  BY NextListInv, NextCallerInv, NextAttended DEF CreateInv
<1>2. CASE UNCHANGED vars
  BY <1>1, <1>2 DEF vars, CreateInv, CreateHolds, Listing
<1>3. CASE RestartStep
  <2>1. \A d \in Clients : op[d].kind = "create" => op[d].name \in Names
    BY DEF CreateInv, ListInv, TypeOK, ArgsOK
  <2> QED
    BY <1>1, <1>3, <2>1 DEF RestartStep, Restart, clientVars, CreateInv, CreateHolds, Listing
<1> QED
  BY <1>1, <1>2, <1>3, CreateClient, CreateServer DEF Next, CreateInv

\* On S3, with one client for each name, none of which begins another, and no call that
\* is abandoned, a create that passed the test of _model_exists never writes to a model
\* that Triton serves, although the test looks at an index that is already old.
THEOREM CreateSpares == Ownership /\ ~MayFail => (Spec => CreateSparesLiveModel)
<1> SUFFICES ASSUME Ownership, ~MayFail PROVE Spec => CreateSparesLiveModel
  OBVIOUS
<1> DEFINE Spared == \A c \in Clients : LET n == op[c].name IN
       op[c].kind = "create" /\ pc[c] # "idle" /\ state[n] = "READY" => repo'[n] = repo[n]
<1>1. Init => CreateInv
  <2>1. Init => Attended /\ \A c \in Clients : CreateHolds(c)
    BY DEF Init, ServerInit, Attended, CreateHolds
  <2> QED
    BY <2>1, InitListInv, InitCallerInv DEF CreateInv
<1>2. CreateInv /\ [Next]_vars => CreateInv'
  BY NextCreateInv
<1>3. CreateInv /\ [Next]_vars => [Spared]_vars
  <2> SUFFICES ASSUME CreateInv, Next, NEW d \in Clients, op[d].kind = "create",
                      pc[d] # "idle", state[op[d].name] = "READY"
               PROVE  repo'[op[d].name] = repo[op[d].name]
    OBVIOUS
  <2> DEFINE n == op[d].name
  <2>1. n \in Names /\ ListInv /\ CallerInv
    BY DEF CreateInv, ListInv, TypeOK, ArgsOK
  <2>2. ASSUME NEW c \in Clients, Invoke(c) \/ RejectArguments(c) \/ ClientStep(c) \/ Fail(c)
        PROVE  repo'[n] = repo[n]
    <3>1. CASE c = d
      <4>1. pc[d] \notin {"download", "copy", "meta", "clear", "flush", "purge"}
        BY <2>1 DEF CreateInv, CreateHolds, ListInv, OwnEntries, TypeOK, ArgsOK
      <4> QED
        BY <2>2, <3>1, <4>1 DEF Invoke, RejectArguments, ClientStep, Fail, ReadIndex,
           ReadMeta, MetaRaises, ListReturns, GetReturns, CheckCreate, CheckDelete,
           CheckUpdate, Stage, ClearEntry, EndClear, CopyEntry, EndCopy, WriteMeta,
           FlushMeta, CallLoad, ConnectionLost, Describe, Infer, CallUnload, Scan,
           PurgeEntry, EndPurge
    <3>2. CASE c # d
      BY <2>1, <2>2, <3>2, WorkKinds, OneAtWork
    <3> QED
      BY <3>1, <3>2
  <2>3. ASSUME NEW x \in Names, ReadStep(x) \/ EndStep(x) \/ UnloadStep(x)
        PROVE  repo' = repo
    BY <2>1, <2>3, AnswerEnds DEF EndStep, ReadStep, UnloadStep
  <2> QED
    BY <2>2, <2>3 DEF Next, RestartStep
<1> QED
  BY <1>1, <1>2, <1>3, PTL DEF Spec, CreateSparesLiveModel

(***************************************************************************)
(* A deployment that reports success serves what was asked for.            *)
(***************************************************************************)
\* All artifacts bring the same version directories.
UniformVersions ==
  \A u, w \in Uris : CopySlots(u) \cap Versions = CopySlots(w) \cap Versions

\* No other version directory is ever in the repository.
KnownVersions ==
  \A n \in Names, v \in Versions, u \in Uris : repo[n][v] # None => v \in CopySlots(u)

\* What has been copied stays copied; the load reads it; then nothing else loads.
ServeHolds(c) ==
  op[c].kind \in {"create", "update"} =>
    LET n == op[c].name
        u == op[c].uri
    IN
    /\ pc[c] = "copy" =>
         /\ todo[c] \subseteq {n} \X CopySlots(u)
         /\ \A k \in CopySlots(u) : <<n, k>> \in todo[c] \/ repo[n][k] = u
    /\ pc[c] \in {"meta", "load", "await"} => \A k \in CopySlots(u) : repo[n][k] = u
    /\ pc[c] \in {"load", "await"} => repo[n][MetaFile] = u
    /\ pc[c] = "await" => \A l \in loads : l.name = n => l.model \in {None, u}
    /\ Succeeded(c, {"create", "update"}) =>
         /\ n \notin LoadingNames /\ repo[n][MetaFile] = u
         /\ IF state[n] = "READY" THEN served[n] = u ELSE MayRestart

ServeInv == ListInv /\ CallerInv /\ KnownVersions /\ \A c \in Clients : ServeHolds(c)

LEMMA KnownVersionsKept ==
  ASSUME Ownership, UniformVersions, ServeInv, NEW c \in Clients,
         Invoke(c) \/ RejectArguments(c) \/ ClientStep(c) \/ Fail(c)
  PROVE  KnownVersions'
<1>1. RepoTypeOK /\ ArgsOK /\ ListInv
  BY DEF ServeInv, ListInv, TypeOK
<1>2. Versions \subseteq Keys /\ MetaFile \notin Versions /\ MetaFile \in Keys
  BY KeyFacts DEF Slots
<1>3. CASE CopyEntry(c)
  <2>1. PICK e \in todo[c] : repo' = [repo EXCEPT ![e[1]][e[2]] = op[c].uri]
    BY <1>3 DEF CopyEntry, Put
  <2>2. op[c].uri \in Uris /\ e[2] \in CopySlots(op[c].uri)
    BY <1>1, <1>3, <2>1 DEF CopyEntry, ArgsOK, ServeInv, ServeHolds
  <2>3. \A v \in Versions, u \in Uris : v = e[2] => v \in CopySlots(u)
    BY <2>2 DEF UniformVersions
  <2>4. \A n \in Names, v \in Versions : repo'[n][v] = repo[n][v] \/ v = e[2]
    BY <1>1, <1>2, <2>1 DEF RepoTypeOK
  <2> QED
    BY <2>3, <2>4 DEF ServeInv, KnownVersions
<1>4. CASE WriteMeta(c)
  <2>1. repo' = [repo EXCEPT ![op[c].name][MetaFile] = op[c].uri]
    BY <1>4 DEF WriteMeta, Ownership, Put
  <2> QED
    BY <1>1, <1>2, <2>1 DEF ServeInv, KnownVersions, RepoTypeOK
<1>5. CASE PurgeEntry(c)
  <2>1. PICK e \in todo[c] : repo' = [repo EXCEPT ![e[1]][e[2]] = None]
    BY <1>5 DEF PurgeEntry, Ownership, Put
  <2>2. \A n \in Names, v \in Versions : repo'[n][v] = repo[n][v] \/ repo'[n][v] = None
    BY <1>1, <1>2, <2>1 DEF RepoTypeOK
  <2> QED
    BY <2>2 DEF ServeInv, KnownVersions
<1>6. CASE ~CopyEntry(c) /\ ~WriteMeta(c) /\ ~PurgeEntry(c)
  <2>1. pc[c] \notin {"clear", "flush"}
    BY <1>1 DEF ListInv, OwnEntries
  <2>2. repo' = repo
    BY <1>6, <2>1 DEF Invoke, RejectArguments, ClientStep, Fail, ReadIndex, ReadMeta,
       MetaRaises, ListReturns, GetReturns, CheckCreate, CheckDelete, CheckUpdate, Stage,
       ClearEntry, EndClear, EndCopy, FlushMeta, CallLoad, ConnectionLost, Describe, Infer,
       CallUnload, Scan, EndPurge, Ownership
  <2> QED
    BY <2>2 DEF ServeInv, KnownVersions
<1> QED
  BY <1>3, <1>4, <1>5, <1>6

\* The steps of a create or update itself.
LEMMA ServeOwn ==
  ASSUME Ownership, ServeInv, NEW c \in Clients,
         Invoke(c) \/ RejectArguments(c) \/ ClientStep(c) \/ Fail(c)
  PROVE  ServeHolds(c)'
<1>1. PluginTypeOK /\ RepoTypeOK /\ ServerTypeOK /\ ArgsOK /\ ListInv
  BY DEF ServeInv, ListInv, TypeOK
<1> DEFINE n == op[c].name
           u == op[c].uri
<1>2. CASE Stage(c)
  <2>1. op' = op /\ pc'[c] = "copy" /\ todo'[c] = Entries(n, CopySlots(u))
    BY <1>1, <1>2 DEF Stage, Ownership, Goto, PluginTypeOK
  <2> QED
    BY <2>1 DEF ServeHolds, Succeeded, Entries
<1>3. CASE CopyEntry(c)
  <2>1. PICK e \in todo[c] : /\ repo' = [repo EXCEPT ![e[1]][e[2]] = u]
                            /\ todo' = [todo EXCEPT ![c] = @ \ {e}]
    BY <1>3 DEF CopyEntry, Put
  <2>2. /\ op' = op /\ pc' = pc /\ pc[c] = "copy" /\ op[c].kind \in {"create", "update"}
        /\ n \in Names /\ u \in Uris /\ todo'[c] = todo[c] \ {e}
    BY <1>1, <1>3, <2>1 DEF CopyEntry, ArgsOK, PluginTypeOK
  <2>3. /\ todo[c] \subseteq {n} \X CopySlots(u)
        /\ \A k \in CopySlots(u) : <<n, k>> \in todo[c] \/ repo[n][k] = u
    BY <2>2 DEF ServeInv, ServeHolds
  <2>4. CopySlots(u) \subseteq Keys /\ e = <<n, e[2]>>
    BY <2>2, <2>3, KeyFacts
  <2>5. \A k \in CopySlots(u) : repo'[n][k] = IF k = e[2] THEN u ELSE repo[n][k]
    BY <1>1, <2>1, <2>2, <2>4 DEF RepoTypeOK
  <2>6. \A k \in CopySlots(u) : <<n, k>> \in todo'[c] \/ repo'[n][k] = u
    BY <2>2, <2>3, <2>4, <2>5
  <2> QED
    BY <2>2, <2>3, <2>6 DEF ServeHolds, Succeeded
<1>4. CASE EndCopy(c)
  <2>1. /\ op' = op /\ repo' = repo /\ pc[c] = "copy" /\ todo[c] = {} /\ pc'[c] = "meta"
        /\ op[c].kind \in {"create", "update"}
    BY <1>1, <1>4 DEF EndCopy, Ownership, Goto, PluginTypeOK, ArgsOK
  <2> QED
    BY <2>1 DEF ServeInv, ServeHolds, Succeeded
<1>5. CASE WriteMeta(c)
  <2>1. /\ op' = op /\ pc[c] = "meta" /\ pc'[c] = "load" /\ op[c].kind \in {"create", "update"}
        /\ n \in Names /\ u \in Uris /\ repo' = [repo EXCEPT ![n][MetaFile] = u]
    BY <1>1, <1>5 DEF WriteMeta, Ownership, Goto, Put, PluginTypeOK, ArgsOK
  <2>2. CopySlots(u) \subseteq Keys /\ MetaFile \notin CopySlots(u) /\ MetaFile \in Keys
    BY <2>1, KeyFacts
  <2>3. repo'[n][MetaFile] = u /\ \A k \in CopySlots(u) : repo'[n][k] = repo[n][k]
    BY <1>1, <2>1, <2>2 DEF RepoTypeOK
  <2> QED
    BY <2>1, <2>3 DEF ServeInv, ServeHolds, Succeeded
<1>6. CASE CallLoad(c)
  <2>1. PICK l : l = [name |-> n, model |-> None, caller |-> c]
    OBVIOUS
  <2>2. /\ op' = op /\ repo' = repo /\ pc[c] = "load" /\ pc'[c] = "await"
        /\ op[c].kind \in {"create", "update"}
        /\ loads' = loads \cup {l} /\ l.model = None /\ n \notin LoadingNames
    BY <1>1, <1>6, <2>1 DEF CallLoad, AcceptLoad, Goto, PluginTypeOK, ArgsOK
  <2>3. \A m \in loads' : m.name = n => m.model = None
    BY <2>2 DEF LoadingNames
  <2> QED
    BY <2>2, <2>3 DEF ServeInv, ServeHolds, Succeeded
<1>7. CASE ~(Stage(c) \/ CopyEntry(c) \/ EndCopy(c) \/ WriteMeta(c) \/ CallLoad(c))
  <2>1. pc[c] \notin {"clear", "flush"}
    BY <1>1 DEF ListInv, OwnEntries
  <2>2. \/ op'[c].kind \notin {"create", "update"}
        \/ /\ pc'[c] \notin {"copy", "meta", "load", "await"}
           /\ pc'[c] # "idle" \/ res'[c] # "ok"
    BY <1>1, <1>7, <2>1 DEF Invoke, RejectArguments, ClientStep, Fail, ReadIndex, ReadMeta,
       MetaRaises, ListReturns, GetReturns, CheckCreate, CheckDelete, CheckUpdate,
       FirstSteps, ClearEntry, EndClear, FlushMeta, ConnectionLost, Describe, Infer,
       CallUnload, Scan, PurgeEntry, EndPurge, Listing, Listed, Goto, Return, Proceed,
       PluginTypeOK, ArgsOK
  <2> QED
    BY <2>2 DEF ServeHolds, Succeeded
<1> QED
  BY <1>2, <1>3, <1>4, <1>5, <1>6, <1>7

\* The steps of the others.
LEMMA ServeOthers ==
  ASSUME Ownership, ServeInv, NEW c \in Clients, NEW d \in Clients \ {c},
         Invoke(c) \/ RejectArguments(c) \/ ClientStep(c) \/ Fail(c)
  PROVE  ServeHolds(d)'
<1>1. TypeOK /\ ListInv
  BY DEF ServeInv, ListInv
<1>2. /\ pc'[d] = pc[d] /\ op'[d] = op[d] /\ res'[d] = res[d] /\ todo'[d] = todo[d]
      /\ served' = served
  BY <1>1, OthersRest, ServerRests
<1>3. CASE op[d].kind \in {"create", "update"}
  <2> DEFINE n == op[d].name
  <2>1. /\ repo'[n] = repo[n] /\ state'[n] = state[n]
        /\ n \in LoadingNames' => n \in LoadingNames
        /\ \A l \in loads' : l.name = n => \E k \in loads : k.name = n /\ k.model = l.model
    BY <1>1, <1>3, OthersLeaveModel
  <2> QED
    BY <1>2, <2>1 DEF ServeInv, ServeHolds, Succeeded
<1> QED
  BY <1>2, <1>3 DEF ServeHolds

\* The server reads the version that was copied, and answers the call that waits.
LEMMA ServeServer ==
  ASSUME Ownership, ServeInv, NEW x \in Names, ReadStep(x) \/ EndStep(x) \/ UnloadStep(x),
         NEW d \in Clients
  PROVE  ServeHolds(d)'
<1>1. ServerTypeOK /\ ArgsOK /\ ListInv /\ CallerInv
  BY DEF ServeInv, ListInv, TypeOK
<1> DEFINE n == op[d].name
           u == op[d].uri
<1>2. CASE ReadStep(x)
  <2>1. PICK l \in loads, m \in NewestContent(x) :
          l.name = x /\ loads' = (loads \ {l}) \cup {[l EXCEPT !.model = m]}
    BY <1>2 DEF ReadStep, ServerReads
  <2>2. PICK k : k = [l EXCEPT !.model = m]
    OBVIOUS
  <2>3. k.name = x /\ k.model = m /\ loads' = (loads \ {l}) \cup {k}
    BY <1>1, <2>1, <2>2 DEF ServerTypeOK, Loads
  <2>4. UNCHANGED <<repo, state, served, clientVars>>
    BY <1>2 DEF ReadStep, ServerReads
  <2>5. LoadingNames' = LoadingNames
    BY <2>1, <2>3 DEF LoadingNames
  <2>6. op[d].kind \in {"create", "update"} /\ pc[d] = "await" /\ x = n => m = u
    <3> SUFFICES ASSUME op[d].kind \in {"create", "update"}, pc[d] = "await", x = n
                 PROVE  m = u
      OBVIOUS
    <3>1. PICK v \in Versions : repo[n][v] # None /\ m = repo[n][v]
      BY <2>1 DEF NewestContent, Present
    <3>2. v \in CopySlots(u)
      BY <1>1, <3>1 DEF ServeInv, KnownVersions, ArgsOK
    <3> QED
      BY <3>1, <3>2 DEF ServeInv, ServeHolds
  <2>7. op[d].kind \in {"create", "update"} /\ pc[d] = "await"
          => \A j \in loads' : j.name = n => j.model \in {None, u}
    BY <2>3, <2>6 DEF ServeInv, ServeHolds
  <2> QED
    BY <2>4, <2>5, <2>7 DEF ServeInv, ServeHolds, Succeeded, clientVars
<1>3. CASE UnloadStep(x)
  <2>1. /\ UNCHANGED <<repo, loads, clientVars>> /\ LoadingNames' = LoadingNames
        /\ state[x] = "UNLOADING"
        /\ state' = [state EXCEPT ![x] = "UNAVAILABLE"]
        /\ served' = [served EXCEPT ![x] = None]
    BY <1>3 DEF UnloadStep, FinishUnload, LoadingNames
  <2>2. op[d].kind \in {"create", "update"} => n \in Names
    BY <1>1 DEF ArgsOK
  <2>3. \A y \in Names : \/ state'[y] = state[y] /\ served'[y] = served[y]
                         \/ state[y] # "READY" /\ state'[y] # "READY"
    BY <1>1, <2>1 DEF ServerTypeOK
  <2> QED
    BY <2>1, <2>2, <2>3 DEF ServeInv, ServeHolds, Succeeded, clientVars
<1>4. CASE EndStep(x)
  <2> SUFFICES ASSUME op[d].kind \in {"create", "update"} PROVE ServeHolds(d)'
    BY <1>1, <1>4, AnswerEnds DEF EndStep, ServeHolds
  <2>1. PICK l \in loads : LoadEnds(l)
    BY <1>4 DEF EndStep
  <2>2. loads' = loads \ {l} /\ UNCHANGED <<repo, op>> /\ n \in Names
    BY <1>1, <2>1, AnswerEnds DEF ArgsOK
  <2>3. CASE d = l.caller
    <3>1. pc[d] = "await" /\ pc'[d] = "idle" /\ l.name = n
      BY <1>1, <2>1, <2>3, AnswerEnds, ValueFacts DEF CallerInv, Callers
    <3>2. n \notin LoadingNames' /\ repo'[n][MetaFile] = u /\ l.model \in {None, u}
      BY <1>1, <2>2, <3>1 DEF LoadingNames, CallerInv, OneLoad, ServeInv, ServeHolds
    <3>3. CASE LoadSucceeds(l)
      <4>1. l.model \in Uris \cup {Foreign} /\ Foreign # None
        BY <3>3 DEF LoadSucceeds, Foreign, None
      <4>2. l.model # None
        BY <4>1, ValueFacts
      <4>3. l.model = u
        BY <3>2, <4>2
      <4>4. state'[n] = "READY" /\ served'[n] = u
        BY <1>1, <2>2, <3>1, <3>3, <4>3 DEF LoadSucceeds, ServerTypeOK
      <4> QED
        BY <2>2, <3>1, <3>2, <4>4 DEF ServeHolds, Succeeded
    <3>4. CASE ~LoadSucceeds(l)
      <4>1. Return(d, "error")
        BY <1>1, <2>1, <2>3, <3>4, ValueFacts DEF LoadEnds, Answer
      <4>2. res'[d] = "error"
        BY <4>1 DEF Return, ListInv, TypeOK, PluginTypeOK, ServeInv
      <4> QED
        BY <3>1, <4>2 DEF ServeHolds, Succeeded
    <3> QED
      BY <3>3, <3>4
  <2>4. CASE d # l.caller
    <3>1. pc'[d] = pc[d] /\ res'[d] = res[d] /\ todo'[d] = todo[d]
      BY <1>1, <2>1, <2>4, AnswerEnds
    <3>2. LoadingNames' \subseteq LoadingNames /\ l.name \in LoadingNames
      BY <2>2 DEF LoadingNames
    <3>3. l.name # n => state'[n] = state[n] /\ served'[n] = served[n]
      BY <1>1, <2>1, <2>2 DEF LoadEnds, LoadSucceeds, LoadFails, ServerTypeOK
    <3> QED
      BY <2>2, <3>1, <3>2, <3>3 DEF ServeInv, ServeHolds, Succeeded
  <2> QED
    BY <2>3, <2>4
<1> QED
  BY <1>2, <1>3, <1>4

LEMMA NextServeInv ==
  Ownership /\ UniformVersions /\ ServeInv /\ [Next]_vars => ServeInv'
<1> SUFFICES ASSUME Ownership, UniformVersions, ServeInv, [Next]_vars PROVE ServeInv'
  OBVIOUS
<1>1. ListInv' /\ CallerInv'
  BY NextListInv, NextCallerInv DEF ServeInv
<1>2. CASE UNCHANGED vars
  BY <1>1, <1>2 DEF vars, ServeInv, KnownVersions, ServeHolds, Succeeded, LoadingNames
<1>3. ASSUME NEW c \in Clients, Invoke(c) \/ RejectArguments(c) \/ ClientStep(c) \/ Fail(c)
      PROVE  ServeInv'
  BY <1>1, <1>3, KnownVersionsKept, ServeOwn, ServeOthers DEF ServeInv
<1>4. ASSUME NEW x \in Names, ReadStep(x) \/ EndStep(x) \/ UnloadStep(x) PROVE ServeInv'
  <2>1. repo' = repo
    BY <1>4, AnswerEnds DEF ReadStep, EndStep, UnloadStep, ServeInv
  <2>2. KnownVersions'
    BY <2>1 DEF ServeInv, KnownVersions
  <2>3. \A d \in Clients : ServeHolds(d)'
    BY <1>4, ServeServer
  <2> QED
    BY <1>1, <2>2, <2>3 DEF ServeInv
<1>5. CASE RestartStep
  <2>1. UNCHANGED <<repo, clientVars>> /\ loads' = {} /\ MayRestart
        /\ \A y \in Names : state'[y] = "UNAVAILABLE"
    BY <1>5 DEF RestartStep, Restart
  <2>2. \A d \in Clients : op[d].kind \in {"create", "update"} => op[d].name \in Names
    BY DEF ServeInv, ListInv, TypeOK, ArgsOK
  <2>3. KnownVersions'
    BY <2>1 DEF ServeInv, KnownVersions
  <2>4. \A d \in Clients : ServeHolds(d)'
    BY <2>1, <2>2 DEF ServeInv, ServeHolds, Succeeded, LoadingNames, clientVars
  <2> QED
    BY <1>1, <2>3, <2>4 DEF ServeInv
<1> QED
  BY <1>2, <1>3, <1>4, <1>5 DEF Next

\* On S3, with one client for each name, none of which begins another, and artifacts that
\* bring the same version directories, a create or update that returned well left the
\* artifact it was given served and named by the metadata, whatever was abandoned
\* before: a load read the repository between the end of its copies and its answer, and
\* none that started earlier can end after it.  A restart takes the model away.
THEOREM ServesRequested == Ownership /\ UniformVersions => (Spec => []OkServesRequested)
<1> SUFFICES ASSUME Ownership, UniformVersions PROVE Spec => []OkServesRequested
  OBVIOUS
<1>1. Init => ServeInv
  <2>1. Init => KnownVersions
    BY KeyFacts DEF Init, RepoInit, KnownVersions, Ownership, Slots, Keys
  <2>2. Init => \A c \in Clients : ServeHolds(c)
    BY DEF Init, ServeHolds
  <2> QED
    BY <2>1, <2>2, InitListInv, InitCallerInv DEF ServeInv
<1>2. ServeInv /\ [Next]_vars => ServeInv'
  BY NextServeInv
<1>3. ServeInv => OkServesRequested
  BY DEF ServeInv, ServeHolds, OkServesRequested, Succeeded
<1> QED
  BY <1>1, <1>2, <1>3, PTL DEF Spec
=============================================================================
