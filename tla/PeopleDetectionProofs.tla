------------------------ MODULE PeopleDetectionProofs ------------------------
(***************************************************************************)
(* Theorems about PeopleDetection for any number of threads: exclusive     *)
(* output of live responses, and buffers that live while they are used.    *)
(***************************************************************************)
EXTENDS PeopleDetection, TLAPS

\* Where each thread is says what the server has done for it.
ThreadInv(t) ==
  /\ thread[t] \in {"unborn", "prepare", "submit"} =>
       work[t] = "none" /\ answer[t] = "none" /\ memory[t] = "none"
  /\ thread[t] = "wait" => work[t] # "none"
  /\ work[t] = "answered" => answer[t] # "none"
  /\ work[t] \in {"queued", "running", "built", "failed"} =>
       thread[t] = "wait" /\ answer[t] = "none"
  /\ work[t] \in {"queued", "running"} => memory[t] = "none"
  /\ thread[t] \in {"check", "lock", "output", "drop"} => answer[t] # "none"
  /\ thread[t] \in {"lock", "output", "drop"} => answer[t] = "ok"
  /\ answer[t] # "none" /\ thread[t] \notin {"delete", "end"} => response[t] = "live"
  /\ thread[t] \in {"delete", "end"} => memory[t] \in {"none", "refused"}
  /\ memory[t] \notin {"none", "refused"} => memory[t] = ReleaseUndoes(kind[t])
  /\ thread[t] \in {"output", "drop"} <=> owner = t
  /\ thread[t] \in {"delete", "end"} => response[t] = "deleted"
  /\ thread[t] \in {"submit", "wait", "check", "lock", "output", "drop", "delete"} =>
       input[t] \notin {"none", "refused"}
  /\ thread[t] = "end" => request[t] = "deleted" /\ input[t] \in {"none", "refused"}

\* Where the main thread is says which threads run and what it has set up for them.
MainInv ==
  /\ main \in {"image", "spawn", "join", "free"} => allocator = "live"
  /\ main \in {"ready", "allocate", "image", "spawn", "join", "free", "stats", "unload"}
       => model = "loaded"
  /\ main \notin {"spawn", "join", "free", "stats", "unload", "return"} =>
       \A t \in Threads : thread[t] = "unborn"
  /\ main = "join" => \A t \in Threads : thread[t] # "unborn"
  /\ main \in {"free", "stats", "unload", "return"} =>
       \A t \in Threads : thread[t] = "end"
  /\ main \in {"stats", "unload", "return"} => allocator = "deleted"
  /\ main = "return" => model = "unloaded"

Inv == TypeOK /\ MainInv /\ \A t \in Threads : ThreadInv(t)

LEMMA InvSafe ==
  ASSUME Inv
  PROVE  /\ AllocatorOutlivesUse /\ InputOutlivesUse /\ OutputIsExclusive
         /\ NothingLeaks /\ WaitsHaveAnEnd
<1>1. AllocatorOutlivesUse
  BY DEF Inv, TypeOK, MainTypeOK, ThreadTypeOK, MainInv, ThreadInv, AllocatorOutlivesUse, MainSteps, ThreadSteps
<1>2. OutputIsExclusive
  BY DEF Inv, ThreadInv, OutputIsExclusive
<1>3. NothingLeaks
  BY DEF Inv, MainInv, ThreadInv, NothingLeaks
<1>4. WaitsHaveAnEnd
  BY DEF Inv, TypeOK, ThreadTypeOK, MainInv, ThreadInv, WaitsHaveAnEnd
<1>5. InputOutlivesUse
  BY DEF Inv, ThreadInv, InputOutlivesUse
<1> QED
  BY <1>1, <1>2, <1>3, <1>4, <1>5

LEMMA InitInv == Init => Inv
BY DetectionAssumption
DEF Init, Inv, TypeOK, MainTypeOK, ThreadTypeOK, MainInv, ThreadInv, MainSteps, ThreadSteps, MemoryTypes, Buffers, Nobody

\* Whatever type is asked for, the buffer is there.
LEMMA InputThere ==
  ASSUME NEW type
  PROVE  AllocCall(type) \in Buffers \ {"none", "refused"}
BY DEF AllocCall, Buffers

\* The types ResponseAlloc reports are the types ResponseRelease can free.
LEMMA AllocFits ==
  ASSUME MainTypeOK, NEW p \in MemoryTypes
  PROVE  /\ ActualType(p) \in MemoryTypes
         /\ AllocCall(ActualType(p)) \in {"malloc", "cudaHostAlloc", "cudaMalloc"}
         /\ ReleaseUndoes(ActualType(p)) = AllocCall(ActualType(p))
BY DetectionAssumption DEF MainTypeOK, ActualType, AllocCall, ReleaseUndoes, MemoryTypes

\* What ResponseRelease was given it freed, or CUDA refused.
LEMMA ReleaseFits ==
  ASSUME Inv, NEW t \in Threads
  PROVE  Released(t) \subseteq {"none", "refused"}
BY DEF Inv, ThreadInv, Released

\* The main thread: it sets up before it spawns, and tears down after it joined.
LEMMA MainKeeps ==
  ASSUME Inv, MainStep \/ MainFails
  PROVE  Inv'
<1> USE DEF Inv
<1> DEFINE Others == UNCHANGED <<thread, objects, owner, serverVars>>
<1>1. ASSUME NEW s \in {"exit 0", "exit 1"}, Exit(s)
      PROVE  Inv'
  BY <1>1 DEF Exit, TypeOK, MainTypeOK, ThreadTypeOK, MainInv, ThreadInv, serverVars, objects
<1>2. ASSUME Others, MainTypeOK', MainInv' PROVE Inv'
  BY <1>2 DEF TypeOK, ThreadTypeOK, ThreadInv, serverVars, objects
<1>3. CASE Spawn
  <2>1. UNCHANGED <<owner, request, input, response, held, work, answer, memory, kind>>
    BY <1>3 DEF Spawn, serverVars, objects
  <2>2. MainTypeOK'
    <3>1. /\ main' \in {"spawn", "join"} /\ polls' = 0
          /\ UNCHANGED <<option, status, model, allocator>>
      BY <1>3 DEF Spawn, GoOn
    <3> QED
      BY <3>1 DEF TypeOK, MainTypeOK, MainSteps
  <2>3. ThreadTypeOK'
    <3>1. thread' \in [Threads -> ThreadSteps]
      BY <1>3 DEF Spawn, TypeOK, ThreadTypeOK, ThreadSteps
    <3> QED
      BY <2>1, <3>1 DEF TypeOK, ThreadTypeOK
  <2>4. MainInv'
    BY <1>3 DEF Spawn, At, GoOn, TypeOK, MainTypeOK, MainInv, MainSteps
  <2>5. ASSUME NEW t \in Threads PROVE ThreadInv(t)'
    BY <1>3, <2>1 DEF Spawn, At, GoOn, TypeOK, ThreadTypeOK, ThreadInv
  <2> QED
    BY <2>2, <2>3, <2>4, <2>5 DEF TypeOK
<1>4. CASE PollHealth \/ PollReady
  <2>1. PICK l \in {"health", "ready"} :
          /\ l = "health" => Poll(l, HealthPolls, "load")
          /\ l = "ready" => Poll(l, ReadyPolls, "allocate")
    BY <1>4 DEF PollHealth, PollReady
  <2> DEFINE limit == IF l = "health" THEN HealthPolls ELSE ReadyPolls
             next  == IF l = "health" THEN "load" ELSE "allocate"
  <2>2. \/ Exit("exit 1")
        \/ At(l) /\ GoOn(next) /\ ThreadsSame /\ UNCHANGED <<model, allocator>>
        \/ /\ At(l) /\ ~(polls + 1 >= limit) /\ polls' = polls + 1
           /\ ThreadsSame /\ UNCHANGED <<option, status, main, model, allocator>>
    BY <2>1 DEF Poll
  <2>3. CASE Exit("exit 1")
    BY <1>1, <2>3
  <2>4. CASE At(l) /\ GoOn(next) /\ ThreadsSame /\ UNCHANGED <<model, allocator>>
    <3>1. MainTypeOK' /\ MainInv'
      BY <2>4 DEF At, GoOn, TypeOK, MainTypeOK, MainInv, MainSteps, ThreadsSame
    <3> QED
      BY <1>2, <2>4, <3>1 DEF ThreadsSame
  <2>5. CASE /\ At(l) /\ ~(polls + 1 >= limit) /\ polls' = polls + 1
             /\ ThreadsSame /\ UNCHANGED <<option, status, main, model, allocator>>
    <3>1. polls' \in Nat /\ polls' < limit
      <4>1. limit \in Nat /\ polls \in Nat
        BY DetectionAssumption DEF TypeOK, MainTypeOK
      <4> HIDE DEF limit
      <4> QED
        BY <2>5, <4>1
    <3>2. MainTypeOK' /\ MainInv'
      BY <2>5, <3>1 DEF At, TypeOK, MainTypeOK, MainInv, ThreadsSame
    <3> QED
      BY <1>2, <2>5, <3>2 DEF ThreadsSame
  <2> QED
    BY <2>2, <2>3, <2>4, <2>5
<1>5. ASSUME \/ CheckArguments \/ StartServer \/ LoadModel \/ NewAllocator \/ LoadImage
             \/ JoinAll \/ DeleteAllocator \/ PrintModelStats \/ UnloadModel
             \/ Return \/ MainFails
      PROVE  Inv'
  <2>1. CASE Exit("exit 0") \/ Exit("exit 1")
    BY <1>1, <2>1
  <2>2. CASE ~(Exit("exit 0") \/ Exit("exit 1"))
    <3>1. Others
      BY <1>5, <2>2 DEF CheckArguments, StartServer, LoadModel, NewAllocator, LoadImage,
         JoinAll, DeleteAllocator, PrintModelStats, UnloadModel, Return, MainFails, ThreadsSame
    <3>2. MainTypeOK'
      <4>1. PICK l \in MainSteps : GoOn(l)
        BY <1>5, <2>2 DEF CheckArguments, StartServer, LoadModel, NewAllocator, LoadImage,
           JoinAll, DeleteAllocator, PrintModelStats, UnloadModel, Return, MainFails, MainSteps
      <4>2. model' \in {model, "loaded", "unloaded"} /\ allocator' \in {allocator, "live", "deleted"}
        BY <1>5, <2>2 DEF CheckArguments, StartServer, LoadModel, NewAllocator, LoadImage,
           JoinAll, DeleteAllocator, PrintModelStats, UnloadModel, Return, MainFails
      <4>3. 0 < HealthPolls /\ 0 < ReadyPolls
        BY DetectionAssumption
      <4> QED
        BY <4>1, <4>2, <4>3 DEF GoOn, TypeOK, MainTypeOK
    <3>3. MainInv'
      BY <1>5, <2>2, <3>1
      DEF CheckArguments, StartServer, LoadModel, NewAllocator, LoadImage, JoinAll,
         DeleteAllocator, PrintModelStats, UnloadModel, Return, MainFails, At, GoOn, MainInv
    <3> QED
      BY <1>2, <3>1, <3>2, <3>3
  <2> QED
    BY <2>1, <2>2
<1> QED
  BY <1>3, <1>4, <1>5 DEF MainStep

\* The inference threads: each changes only its own state and the mutex.
LEMMA ThreadKeeps ==
  ASSUME Inv, NEW t \in Threads, ThreadStep(t) \/ ThreadFails(t)
  PROVE  Inv'
<1> USE DEF Inv
<1>1. CASE Exit("exit 1")
  BY <1>1 DEF Exit, TypeOK, MainTypeOK, ThreadTypeOK, MainInv, ThreadInv, serverVars, objects
<1>2. CASE ~Exit("exit 1")
  <2>1. UNCHANGED mainVars
    BY <1>2 DEF ThreadStep, ThreadFails, Prepare, InferAsync, GetFuture, CheckResponse,
       Lock, Output, DropResponse, DeleteRequest, Step
  <2>2. ThreadTypeOK'
    <3> USE DEF TypeOK, ThreadTypeOK, ThreadSteps, Step, serverVars, objects
    <3>1. CASE Prepare(t)
      BY <3>1, InputThere DEF Prepare
    <3>2. CASE InferAsync(t)
      BY <3>2 DEF InferAsync
    <3>3. CASE GetFuture(t) \/ CheckResponse(t) \/ Output(t)
      BY <1>2, <3>3 DEF GetFuture, CheckResponse, Output
    <3>4. CASE Lock(t)
      BY <3>4 DEF Lock
    <3>5. CASE DropResponse(t)
      <4>1. PICK m \in {"none", "refused"} : memory' = [memory EXCEPT ![t] = m]
        BY <3>5, ReleaseFits DEF DropResponse
      <4>2. kind' \in [Threads -> MemoryTypes] /\ memory' \in [Threads -> Buffers]
        BY <3>5, <4>1 DEF DropResponse, MemoryTypes, Buffers
      <4> QED
        BY <3>5, <4>2 DEF DropResponse
    <3>6. CASE DeleteRequest(t)
      BY <3>6 DEF DeleteRequest, InputFreed, Buffers
    <3> QED
      BY <1>2, <3>1, <3>2, <3>3, <3>4, <3>5, <3>6 DEF ThreadStep, ThreadFails
  <2>3. MainTypeOK'
    BY <2>1 DEF TypeOK, MainTypeOK, mainVars
  <2>4. MainInv'
    <3>1. thread[t] \notin {"unborn", "end"}
      BY <1>2 DEF ThreadStep, ThreadFails, Prepare, InferAsync, GetFuture, CheckResponse,
         Lock, Output, DropResponse, DeleteRequest, In
    <3>2. ASSUME NEW u \in Threads PROVE thread'[u] = "unborn" => thread[u] = "unborn"
      BY <1>2 DEF ThreadStep, ThreadFails, Prepare, InferAsync, GetFuture, CheckResponse,
         Lock, Output, DropResponse, DeleteRequest, Step, TypeOK, ThreadTypeOK
    <3> QED
      BY <2>1, <3>1, <3>2 DEF MainInv, mainVars
  <2>5. ASSUME NEW u \in Threads \ {t} PROVE ThreadInv(u)'
    <3>1. /\ thread'[u] = thread[u] /\ work'[u] = work[u] /\ answer'[u] = answer[u]
          /\ memory'[u] = memory[u] /\ kind'[u] = kind[u] /\ response'[u] = response[u]
          /\ request'[u] = request[u] /\ input'[u] = input[u]
      BY <1>2 DEF ThreadStep, ThreadFails, Prepare, InferAsync, GetFuture,
         CheckResponse, Lock, Output, DropResponse, DeleteRequest, Step, TypeOK,
         ThreadTypeOK, serverVars, objects
    <3>2. owner = u <=> owner' = u
      <4>1. thread[t] = "drop" => owner = t
        BY DEF ThreadInv
      <4>2. \/ UNCHANGED owner
            \/ owner = Nobody /\ owner' = t
            \/ thread[t] = "drop" /\ owner' = Nobody
        BY <1>2 DEF ThreadStep, ThreadFails, Prepare, InferAsync, GetFuture, CheckResponse,
           Lock, Output, DropResponse, DeleteRequest, In
      <4> QED
        BY <4>1, <4>2, DetectionAssumption
    <3> QED
      BY <3>1, <3>2 DEF ThreadInv, ReleaseUndoes
  <2>6. ThreadInv(t)'
    <3>0. CASE Prepare(t)
      <4>1. input'[t] \notin {"none", "refused"}
        BY <3>0, InputThere DEF Prepare, TypeOK, ThreadTypeOK
      <4> QED
        BY <3>0, <4>1 DEF Prepare, Step, In, TypeOK, ThreadTypeOK, ThreadInv, serverVars
    <3>1. CASE InferAsync(t)
      BY <3>1 DEF InferAsync, Step, In, TypeOK, ThreadTypeOK, ThreadInv, serverVars, objects
    <3>2. CASE GetFuture(t) \/ Lock(t) \/ Output(t)
      BY <3>2 DEF GetFuture, Lock, Output, Step, In, TypeOK, ThreadTypeOK, ThreadInv,
         serverVars, objects, ReleaseUndoes
    <3>3. CASE CheckResponse(t)
      <4>1. /\ thread[t] = "check" /\ thread' = [thread EXCEPT ![t] = "lock"]
            /\ UNCHANGED <<objects, owner, serverVars>>
            /\ answer[t] # "error"
        BY <1>2, <3>3 DEF CheckResponse, Step, In
      <4>2. answer[t] = "ok" /\ work[t] \notin {"queued", "running", "built", "failed"}
        BY <4>1 DEF TypeOK, ThreadTypeOK, ThreadInv
      <4> QED
        BY <4>1, <4>2 DEF TypeOK, ThreadTypeOK, ThreadInv, serverVars, objects, ReleaseUndoes
    <3>4. CASE DropResponse(t)
      <4>1. PICK m \in {"none", "refused"} : memory' = [memory EXCEPT ![t] = m]
        BY <3>4, ReleaseFits DEF DropResponse
      <4> QED
        BY <3>4, <4>1, DetectionAssumption DEF DropResponse, Step, In, TypeOK, ThreadTypeOK, ThreadInv
    <3>5. CASE DeleteRequest(t)
      BY <3>5 DEF DeleteRequest, InputFreed, Step, In, TypeOK, ThreadTypeOK, ThreadInv, serverVars, objects
    <3> QED
      BY <1>2, <3>0, <3>1, <3>2, <3>3, <3>4, <3>5 DEF ThreadStep, ThreadFails
  <2> QED
    BY <2>2, <2>3, <2>4, <2>5, <2>6 DEF TypeOK
<1> QED
  BY <1>1, <1>2

\* The server: it answers each request once, with a buffer the release can free.
LEMMA ServerKeeps ==
  ASSUME Inv, NEW t \in Threads, ServerStep(t)
  PROVE  Inv'
<1> USE DEF Inv
<1>1. UNCHANGED <<mainVars, thread, request, input, owner>>
  BY DEF ServerStep, Execute, ResponseAlloc, InferResponseComplete, InferRequestComplete,
     ServerSame
<1>2. MainInv' /\ MainTypeOK'
  BY <1>1 DEF MainInv, TypeOK, MainTypeOK, mainVars
<1>3. \/ \E p \in MemoryTypes :
           /\ kind' = [kind EXCEPT ![t] = ActualType(p)]
           /\ memory' = [memory EXCEPT ![t] = AllocCall(ActualType(p))]
      \/ UNCHANGED <<kind, memory>>
  BY DEF ServerStep, Execute, ResponseAlloc, InferResponseComplete, InferRequestComplete
<1>4. ThreadTypeOK'
  <2> USE DEF TypeOK, ThreadTypeOK
  <2>1. kind' \in [Threads -> MemoryTypes]
        /\ memory' \in [Threads -> Buffers]
    BY <1>3, AllocFits DEF Buffers
  <2>2. CASE Execute(t)
    BY <1>1, <2>2 DEF Execute
  <2>3. CASE ResponseAlloc(t)
    BY <1>1, <2>1, <2>3 DEF ResponseAlloc
  <2>4. CASE InferResponseComplete(t)
    BY <1>1, <2>4 DEF InferResponseComplete
  <2>5. CASE InferRequestComplete(t)
    BY <1>1, <2>5 DEF InferRequestComplete
  <2> QED
    BY <2>2, <2>3, <2>4, <2>5 DEF ServerStep
<1>5. ASSUME NEW u \in Threads \ {t} PROVE ThreadInv(u)'
  <2>1. /\ work'[u] = work[u] /\ answer'[u] = answer[u] /\ response'[u] = response[u]
        /\ memory'[u] = memory[u] /\ kind'[u] = kind[u]
    BY <1>3 DEF ServerStep, Execute, ResponseAlloc, InferResponseComplete,
       InferRequestComplete, TypeOK, ThreadTypeOK
  <2> QED
    BY <1>1, <2>1 DEF ThreadInv, ReleaseUndoes
<1>6. CASE ResponseAlloc(t)
  <2>1. memory'[t] \notin {"none", "refused"} => memory'[t] = ReleaseUndoes(kind'[t])
    BY <1>3, AllocFits DEF TypeOK, ThreadTypeOK, ThreadInv
  <2>2. work'[t] \in {"built", "failed"} /\ UNCHANGED <<held, answer, response>>
    BY <1>6 DEF ResponseAlloc, TypeOK, ThreadTypeOK
  <2>3. thread[t] = "wait" /\ answer[t] = "none"
    BY <1>6 DEF ResponseAlloc, ThreadInv
  <2>4. ThreadInv(t)'
    BY <1>1, <2>1, <2>2, <2>3 DEF ThreadInv, ReleaseUndoes
  <2> QED
    BY <1>2, <1>4, <1>5, <2>4 DEF TypeOK
<1>7. CASE Execute(t) \/ InferResponseComplete(t) \/ InferRequestComplete(t)
  <2>1. ThreadInv(t)'
    BY <1>1, <1>7 DEF Execute, InferResponseComplete, InferRequestComplete, TypeOK,
       ThreadTypeOK, ThreadInv, ReleaseUndoes
  <2> QED
    BY <1>2, <1>4, <1>5, <2>1 DEF TypeOK
<1> QED
  BY <1>6, <1>7 DEF ServerStep

LEMMA NextInv == Inv /\ [Next]_vars => Inv'
<1> SUFFICES ASSUME Inv, [Next]_vars PROVE Inv'
  OBVIOUS
<1>1. CASE UNCHANGED vars
  <2>1. TypeOK' /\ MainInv'
    BY <1>1 DEF vars, Inv, TypeOK, MainTypeOK, ThreadTypeOK, MainInv
  <2>2. ASSUME NEW t \in Threads PROVE ThreadInv(t)'
    BY <1>1, <2>2 DEF vars, Inv, ThreadInv, ReleaseUndoes
  <2> QED
    BY <2>1, <2>2 DEF Inv
<1>2. CASE Next
  BY <1>2, MainKeeps, ThreadKeeps, ServerKeeps DEF Next
<1> QED
  BY <1>1, <1>2

\* However many threads infer, in whatever order they and the server run, the output
\* of a response is written by one thread at a time, while the response is live.
THEOREM ExclusiveOutput == Spec => []OutputIsExclusive
BY InitInv, NextInv, InvSafe, PTL DEF Spec

\* The allocator and the model are there for every request the server works on and
\* every buffer it was given: the main thread tears down only after it joined.
THEOREM AllocatorSafe == Spec => []AllocatorOutlivesUse
BY InitInv, NextInv, InvSafe, PTL DEF Spec

\* However the threads run, the vector or the copy a request's input is in is there until
\* the server has read it: the thread leaves the function after completed.get().
THEOREM InputSafe == Spec => []InputOutlivesUse
BY InitInv, NextInv, InvSafe, PTL DEF Spec

\* A run that ends well has deleted what it made, and freed each buffer by the call
\* that fits the one that allocated it, whichever types the server asked for.
THEOREM LeakFree == Spec => []NothingLeaks
BY InitInv, NextInv, InvSafe, PTL DEF Spec

\* For any number of threads: no wait of the process is for something nobody will do, neither
\* thread.join nor completed.get nor the mutex.  That it then ends is Terminates.
THEOREM NoEndlessWait == Spec => []WaitsHaveAnEnd
BY InitInv, NextInv, InvSafe, PTL DEF Spec

\* Every variable keeps its type, and neither wait of CreateAndRunTritonserverInstance
\* polls beyond its limit, whatever the server answers.
THEOREM TypeCorrect == Spec => []TypeOK
<1>1. Inv => TypeOK
  BY DEF Inv
<1> QED
  BY <1>1, InitInv, NextInv, PTL DEF Spec
==============================================================================
