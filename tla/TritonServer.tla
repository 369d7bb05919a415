---------------------------- MODULE TritonServer ----------------------------
(***************************************************************************)
(* The Triton server in EXPLICIT model control mode, as far as the plugin  *)
(* uses it: the repository index, load and unload requests.  The server is *)
(* not in this repository; docs/user_guide/model_management.md and the     *)
(* plugin's use of it are what is modelled.  Control requests for one      *)
(* model are taken one at a time; a load reads the repository at some      *)
(* moment between its arrival and its answer, may fail for any reason, and *)
(* a failed reload leaves the loaded model as it was.  Unloading is        *)
(* asynchronous: the request returns while the model is UNLOADING.  A      *)
(* server that is restarted has no model loaded.                           *)
(***************************************************************************)
EXTENDS ModelRepository

CONSTANT Clients      \* the plugin instances talking to this server
ASSUME ClientAssumption == None \notin Clients

VARIABLES
  state,    \* state[n]: the state the repository index reports
  served,   \* served[n]: the artifact whose model answers requests for n
  loads     \* loads under way: what was read (or None) and who waits for it

serverVars == <<state, served, loads>>

States == {"UNAVAILABLE", "READY", "UNLOADING"}
Loads  == [name : Names, model : Contents, caller : Clients \cup {None}]

ServerTypeOK ==
  /\ state \in [Names -> States]
  /\ served \in [Names -> Contents]
  /\ loads \in SUBSET Loads

ServerInit ==
  /\ state  = [n \in Names |-> IF n \in Unmanaged THEN "READY" ELSE "UNAVAILABLE"]
  /\ served = [n \in Names |-> IF n \in Unmanaged THEN Foreign ELSE None]
  /\ loads  = {}

ReadyNames   == {n \in Names : state[n] = "READY"}
LoadingNames == {l.name : l \in loads}

\* A load request for n arrives; no other control request for n is under way.
AcceptLoad(n, c) ==
  /\ n \notin LoadingNames
  /\ loads' = loads \cup {[name |-> n, model |-> None, caller |-> c]}
  /\ UNCHANGED <<state, served>>

\* The server reads the version directory it will load.
ServerReads(n) ==
  \E l \in loads, m \in NewestContent(n) :
    /\ l.name = n /\ l.model = None
    /\ loads' = (loads \ {l}) \cup {[l EXCEPT !.model = m]}
    /\ UNCHANGED <<state, served>>

\* The load l ends well: the model read is the one served from now on.
LoadSucceeds(l) ==
  /\ l.model \in Uris \cup {Foreign}
  /\ loads'  = loads \ {l}
  /\ state'  = [state EXCEPT ![l.name] = "READY"]
  /\ served' = [served EXCEPT ![l.name] = l.model]

\* The load l ends badly: whatever was loaded before stays.
LoadFails(l) ==
  /\ loads' = loads \ {l}
  /\ UNCHANGED <<state, served>>

\* An unload request for n is accepted and answered at once.
AcceptUnload(n) ==
  /\ n \notin LoadingNames
  /\ state' = [state EXCEPT ![n] = IF @ = "READY" THEN "UNLOADING" ELSE @]
  /\ UNCHANGED <<served, loads>>

\* The last request in flight is done and the model is gone.
FinishUnload(n) ==
  /\ state[n] = "UNLOADING"
  /\ state'  = [state EXCEPT ![n] = "UNAVAILABLE"]
  /\ served' = [served EXCEPT ![n] = None]
  /\ UNCHANGED loads

\* The server dies and comes back: nothing is loaded, no load is under way.
Restart ==
  /\ state'  = [n \in Names |-> "UNAVAILABLE"]
  /\ served' = [n \in Names |-> None]
  /\ loads'  = {}
=============================================================================
