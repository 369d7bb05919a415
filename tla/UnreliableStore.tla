--------------------------- MODULE UnreliableStore ---------------------------
(***************************************************************************)
(* What is left of the promise of DeploymentStore when calls are abandoned *)
(* and the server loses its models.  A change is granted at an instant at  *)
(* which the name is as its kind asks, and made later; one whose call gave *)
(* up may still be made, until the next call makes its own.  Whatever      *)
(* happens, only changes that were granted are made, each on the name it   *)
(* was granted for, and a call returns ok only while its change stands.    *)
(***************************************************************************)
EXTENDS DeploymentStore

CONSTANTS
  MayAbandon,   \* TRUE: a call may give up and its change be made afterwards
  MayLose       \* TRUE: all deployments may be lost

VARIABLE late   \* late[n]: the artifact an abandoned change may still deploy, or NoUri

unreliableVars == <<deployed, request, phase, late>>

UnreliableInit == StoreInit /\ late = [n \in Names |-> NoUri]

\* The change of c finds its name as it must be.
Grant(c) ==
  /\ phase[c] = "waiting"
  /\ Applicable(request[c])
  /\ phase' = [phase EXCEPT ![c] = "granted"]
  /\ UNCHANGED <<deployed, request, late>>

\* It is made, whatever became of the name meanwhile; the call returns at once or later.
Make(c) ==
  /\ phase[c] = "granted"
  /\ deployed' = [deployed EXCEPT ![request[c].name] = request[c].uri]
  /\ phase' \in {[phase EXCEPT ![c] = "done"], [phase EXCEPT ![c] = "returned"]}
  /\ UNCHANGED <<request, late>>

\* A call returns ok: its change was made and nothing else has come after it.
Confirm(c) ==
  /\ ReturnOk(c)
  /\ deployed[request[c].name] = request[c].uri
  /\ UNCHANGED late

\* A call reports an error; if it was granted a deployment, that may still come.
GiveUp(c) ==
  /\ phase[c] \in {"waiting", "granted", "done"}
  /\ phase' = [phase EXCEPT ![c] = "failed"]
  /\ \/ UNCHANGED late
     \/ /\ MayAbandon /\ phase[c] = "granted" /\ request[c].kind # "delete"
        /\ late' = [late EXCEPT ![request[c].name] = request[c].uri]
  /\ UNCHANGED <<deployed, request>>

\* An abandoned change is made after all, on a name under which nothing is deployed.
MakeLate(n) ==
  /\ late[n] # NoUri /\ deployed[n] = NoUri
  /\ deployed' = [deployed EXCEPT ![n] = late[n]]
  /\ late' = [late EXCEPT ![n] = NoUri]
  /\ UNCHANGED <<request, phase>>

\* Or it never will be: it failed, or a later change takes its place.
Forget(n) ==
  /\ late' = [late EXCEPT ![n] = NoUri]
  /\ UNCHANGED <<deployed, request, phase>>

\* All deployments are lost, and what was abandoned with them.  A create or update under
\* way has to be made again.
Lose ==
  /\ MayLose
  /\ deployed' = [n \in Names |-> NoUri]
  /\ late' = [n \in Names |-> NoUri]
  /\ phase' = [c \in Clients |->
                 IF phase[c] = "done" /\ request[c].kind # "delete" THEN "granted" ELSE phase[c]]
  /\ UNCHANGED request

UnreliableNext ==
  \/ \E c \in Clients : \/ (Ask(c) \/ Refuse(c)) /\ UNCHANGED late
                        \/ Grant(c) \/ Make(c) \/ Confirm(c) \/ GiveUp(c)
  \/ \E n \in Names : MakeLate(n) \/ Forget(n)
  \/ Lose

UnreliableSpec == UnreliableInit /\ [][UnreliableNext]_unreliableVars
==============================================================================
