--------------------------- MODULE DeploymentStore ---------------------------
(***************************************************************************)
(* What the deployment client promises to those who deploy with it: a map  *)
(* from names to the artifacts deployed under them.  A create works on a   *)
(* name that is not deployed, an update or a delete on one that is; each   *)
(* takes effect at one instant between its call and its return, or not at  *)
(* all, and one that returns ok has taken effect.                          *)
(***************************************************************************)
CONSTANTS Names, Uris, Clients, NoUri

VARIABLES
  deployed,   \* deployed[n]: the artifact deployed under n, or NoUri
  request,    \* the change each client asks for, or asked for last
  phase       \* whether that is waiting, done, or returned

storeVars == <<deployed, request, phase>>

Changes == [kind : {"create", "update"}, name : Names, uri : Uris]
             \cup [kind : {"delete"}, name : Names, uri : {NoUri}]

Idle == [kind |-> "none", name |-> NoUri, uri |-> NoUri]

StoreInit ==
  /\ deployed = [n \in Names |-> NoUri]
  /\ request  = [c \in Clients |-> Idle]
  /\ phase    = [c \in Clients |-> "returned"]

\* A client asks for a change; r is Idle when it asks for none.
Ask(c) ==
  /\ phase[c] \in {"returned", "failed"}
  /\ \E r \in Changes \cup {Idle} :
       /\ request' = [request EXCEPT ![c] = r]
       /\ phase' = [phase EXCEPT ![c] = IF r = Idle THEN "returned" ELSE "waiting"]
  /\ UNCHANGED deployed

\* The change may be made: the name is in the state the kind of change asks for.
Applicable(r) == (r.kind = "create") <=> (deployed[r.name] = NoUri)

\* The change is made; the call returns at once or later.
Apply(c) ==
  /\ phase[c] = "waiting"
  /\ Applicable(request[c])
  /\ deployed' = [deployed EXCEPT ![request[c].name] = request[c].uri]
  /\ phase' \in {[phase EXCEPT ![c] = "done"], [phase EXCEPT ![c] = "returned"]}
  /\ UNCHANGED request

\* A change that was made returns ok.
ReturnOk(c) ==
  /\ phase[c] = "done"
  /\ phase' = [phase EXCEPT ![c] = "returned"]
  /\ UNCHANGED <<deployed, request>>

\* A call reports an error, whether or not its change was made.
ReturnError(c) ==
  /\ phase[c] \in {"waiting", "done"}
  /\ phase' = [phase EXCEPT ![c] = "failed"]
  /\ UNCHANGED <<deployed, request>>

\* A call that is refused before it begins.
Refuse(c) ==
  /\ phase[c] \in {"returned", "failed"}
  /\ \E r \in Changes : request' = [request EXCEPT ![c] = r]
  /\ phase' = [phase EXCEPT ![c] = "failed"]
  /\ UNCHANGED deployed

StoreNext ==
  \E c \in Clients : Ask(c) \/ Apply(c) \/ ReturnOk(c) \/ ReturnError(c) \/ Refuse(c)

StoreSpec == StoreInit /\ [][StoreNext]_storeVars
==============================================================================
