--------------------------- MODULE PeopleDetection ---------------------------
(***************************************************************************)
(* docs/examples/jetson/concurrency_and_dynamic_batching/people_detection.cc *)
(* a process that runs a Triton server in itself, loads a model, infers    *)
(* from several threads at once, and shuts down.  The main thread, the     *)
(* inference threads and the server's own threads, which call back into    *)
(* this code (ResponseAlloc, ResponseRelease, InferResponseComplete,       *)
(* InferRequestComplete), interleave.  FAIL and FAIL_IF_ERR (common.h) end *)
(* the whole process; nothing happens after that.                          *)
(***************************************************************************)
EXTENDS Naturals, FiniteSets

CONSTANTS
  Threads,       \* the inference threads
  HealthPolls,   \* polls of the server's health before giving up (10)
  ReadyPolls,    \* polls of the model's readiness before giving up (5)
  GpuBuild       \* TRITON_ENABLE_GPU

MemoryTypes == {"cpu", "pinned", "gpu"}

Nobody == "nobody"

ASSUME DetectionAssumption ==
  /\ HealthPolls \in Nat \ {0} /\ ReadyPolls \in Nat \ {0}
  /\ GpuBuild \in BOOLEAN
  /\ Nobody \notin Threads

VARIABLES
  option,     \* the memory type of option -m, or none when it is not given
  status,     \* whether the process runs, or how it ended
  main,       \* where the main thread is
  polls,      \* wait_seconds of the loop it is in
  model,      \* whether the server has the model loaded
  allocator,  \* the response allocator
  thread,     \* thread[t]: where inference thread t is
  request,    \* request[t]: the inference request object
  input,      \* input[t]: the call that allocated the buffer the request's input is in,
              \* none when there is none, refused when CUDA would not free it
  held,       \* held[t]: the server holds that request
  work,       \* work[t]: how far the server is with it
  answer,     \* answer[t]: what the future of the thread gives
  response,   \* response[t]: the response object
  memory,     \* memory[t]: the call that allocated the result buffer, none when it is
              \* freed, or refused when CUDA would not free it
  kind,       \* kind[t]: the memory type the server was told it has, cpu when there is no buffer
  owner       \* who holds the mutex, or nobody

mainVars   == <<option, status, main, polls, model, allocator>>
serverVars == <<held, work, answer, memory, kind>>
objects    == <<request, input, response>>
vars == <<option, status, main, polls, model, allocator, thread, request, input, held,
          work, answer, response, memory, kind, owner>>

MainSteps == {"arguments", "start", "health", "load", "ready", "allocate", "image",
              "spawn", "join", "free", "stats", "unload", "return"}
ThreadSteps == {"unborn", "prepare", "submit", "wait", "check", "lock", "output",
                "drop", "delete", "end"}

Buffers == {"none", "malloc", "cudaHostAlloc", "cudaMalloc", "refused"}

MainTypeOK ==
  /\ option \in MemoryTypes \cup {"none"}
  /\ status \in {"running", "exit 0", "exit 1"}
  /\ main \in MainSteps
  /\ polls \in Nat
  /\ main = "health" => polls < HealthPolls
  /\ main = "ready" => polls < ReadyPolls
  /\ model \in {"unloaded", "loaded"}
  /\ allocator \in {"none", "live", "deleted"}

ThreadTypeOK ==
  /\ thread \in [Threads -> ThreadSteps]
  /\ request \in [Threads -> {"none", "live", "deleted"}]
  /\ held \in [Threads -> BOOLEAN]
  /\ work \in [Threads -> {"none", "queued", "running", "built", "failed", "answered"}]
  /\ answer \in [Threads -> {"none", "ok", "error"}]
  /\ response \in [Threads -> {"none", "live", "deleted"}]
  /\ input \in [Threads -> Buffers]
  /\ memory \in [Threads -> Buffers]
  /\ kind \in [Threads -> MemoryTypes]
  /\ owner \in Threads \cup {Nobody}

\* Every variable has a value of its type; no loop polls longer than it may.
TypeOK == MainTypeOK /\ ThreadTypeOK

Init ==
  /\ option \in MemoryTypes \cup {"none"}
  /\ status = "running" /\ main = "arguments" /\ polls = 0
  /\ model = "unloaded" /\ allocator = "none" /\ owner = Nobody
  /\ thread   = [t \in Threads |-> "unborn"]
  /\ request  = [t \in Threads |-> "none"]
  /\ input    = [t \in Threads |-> "none"]
  /\ held     = [t \in Threads |-> FALSE]
  /\ work     = [t \in Threads |-> "none"]
  /\ answer   = [t \in Threads |-> "none"]
  /\ response = [t \in Threads |-> "none"]
  /\ memory   = [t \in Threads |-> "none"]
  /\ kind     = [t \in Threads |-> "cpu"]

(***************************************************************************)
(* The main thread: main and CreateAndRunTritonserverInstance.             *)
(***************************************************************************)
At(l) == status = "running" /\ main = l

Exit(s) ==
  /\ status' = s
  /\ UNCHANGED <<option, main, polls, model, allocator, thread, objects, owner, serverVars>>

\* The main thread goes on to step l, and changes nothing else but what x names.
GoOn(l) == main' = l /\ polls' = 0 /\ UNCHANGED <<option, status>>

ThreadsSame == UNCHANGED <<thread, objects, owner, serverVars>>

\* The options: -m without GPU support may only ask for system memory.
CheckArguments ==
  /\ At("arguments")
  /\ IF ~GpuBuild /\ option \notin {"none", "cpu"}
     THEN Exit("exit 1")
     ELSE GoOn("start") /\ ThreadsSame /\ UNCHANGED <<model, allocator>>

\* SetServerOptions, ServerNew, ServerOptionsDelete.
StartServer ==
  /\ At("start")
  /\ GoOn("health") /\ ThreadsSame /\ UNCHANGED <<model, allocator>>

\* Faulty variant: one poll too many.
PollOnceMore(l, limit, next) ==
  /\ At(l)
  /\ \E up \in BOOLEAN :
       IF up THEN GoOn(next) /\ ThreadsSame /\ UNCHANGED <<model, allocator>>
       ELSE IF polls + 1 > limit THEN Exit("exit 1")
       ELSE /\ polls' = polls + 1
            /\ ThreadsSame
            /\ UNCHANGED <<option, status, main, model, allocator>>

\* CheckServerLiveAndReady and AwaitModelReady look, and look again a second later.
Poll(l, limit, next) ==
  /\ At(l)
  /\ \E up \in BOOLEAN :
       IF up THEN GoOn(next) /\ ThreadsSame /\ UNCHANGED <<model, allocator>>
       ELSE IF polls + 1 >= limit THEN Exit("exit 1")
       ELSE /\ polls' = polls + 1
            /\ ThreadsSame
            /\ UNCHANGED <<option, status, main, model, allocator>>

PollHealth == Poll("health", HealthPolls, "load")
PollReady  == Poll("ready", ReadyPolls, "allocate")

LoadModel ==
  /\ At("load")
  /\ model' = "loaded"
  /\ GoOn("ready") /\ ThreadsSame /\ UNCHANGED allocator

NewAllocator ==
  /\ At("allocate")
  /\ allocator' = "live"
  /\ GoOn("image") /\ ThreadsSame /\ UNCHANGED model

\* LoadInputImageFromFile: a picture that cannot be opened ends the process with 0.
LoadImage ==
  /\ At("image")
  /\ \/ GoOn("spawn") /\ ThreadsSame /\ UNCHANGED <<model, allocator>>
     \/ Exit("exit 0")

\* The next thread is started; which one is next makes no difference.
Spawn ==
  /\ At("spawn")
  /\ IF \A t \in Threads : thread[t] # "unborn"
     THEN GoOn("join") /\ UNCHANGED thread
     ELSE /\ \E t \in Threads : /\ thread[t] = "unborn"
                                /\ thread' = [thread EXCEPT ![t] = "prepare"]
          /\ GoOn("spawn")
  /\ UNCHANGED <<model, allocator, objects, owner, serverVars>>

\* Faulty variant: one thread is enough.
JoinOne ==
  /\ At("join")
  /\ \E t \in Threads : thread[t] = "end"
  /\ GoOn("free") /\ ThreadsSame /\ UNCHANGED <<model, allocator>>

\* The threads are joined one after the other.
JoinAll ==
  /\ At("join")
  /\ \A t \in Threads : thread[t] = "end"
  /\ GoOn("free") /\ ThreadsSame /\ UNCHANGED <<model, allocator>>

DeleteAllocator ==
  /\ At("free")
  /\ allocator' = "deleted"
  /\ GoOn("stats") /\ ThreadsSame /\ UNCHANGED model

PrintModelStats ==
  /\ At("stats")
  /\ GoOn("unload") /\ ThreadsSame /\ UNCHANGED <<model, allocator>>

UnloadModel ==
  /\ At("unload")
  /\ model' = "unloaded"
  /\ GoOn("return") /\ ThreadsSame /\ UNCHANGED allocator

Return == At("return") /\ Exit("exit 0")

\* The arguments are not usable, or an API call of the main thread reports an error:
\* Usage and FAIL_IF_ERR.
MainFails ==
  /\ status = "running"
  /\ main \notin {"image", "spawn", "join", "return"}
  /\ Exit("exit 1")

(***************************************************************************)
(* An inference thread: RunInferenceAndValidate.                           *)
(***************************************************************************)
In(t, l) == status = "running" /\ thread[t] = l

Step(t, l) == thread' = [thread EXCEPT ![t] = l] /\ UNCHANGED mainVars

\* The call that allocates a buffer of a type, for an input or an output.
AllocCall(type) ==
  CASE GpuBuild /\ type = "pinned" -> "cudaHostAlloc"
    [] GpuBuild /\ type = "gpu"    -> "cudaMalloc"
    [] OTHER -> "malloc"

\* Faulty variant: the copy of the input ends with the block that makes it.
PrepareScoped(t) ==
  /\ In(t, "prepare")
  /\ request' = [request EXCEPT ![t] = "live"]
  /\ input' = [input EXCEPT ![t] = IF option \in {"pinned", "gpu"} THEN "none" ELSE "malloc"]
  /\ Step(t, "submit")
  /\ UNCHANGED <<response, owner, serverVars>>

\* InferenceRequestNew with its id, callbacks, inputs and outputs, and the input data:
\* in the vector, or in a copy of the memory type that -m asks for.
Prepare(t) ==
  /\ In(t, "prepare")
  /\ request' = [request EXCEPT ![t] = "live"]
  /\ input' = [input EXCEPT ![t] = AllocCall(option)]
  /\ Step(t, "submit")
  /\ UNCHANGED <<response, owner, serverVars>>

\* ServerInferAsync: the server takes the request.
InferAsync(t) ==
  /\ In(t, "submit")
  /\ held' = [held EXCEPT ![t] = TRUE]
  /\ work' = [work EXCEPT ![t] = "queued"]
  /\ Step(t, "wait")
  /\ UNCHANGED <<objects, owner, answer, memory, kind>>

\* completed.get() returns when the promise has its value.
GetFuture(t) ==
  /\ In(t, "wait")
  /\ answer[t] # "none"
  /\ Step(t, "check")
  /\ UNCHANGED <<objects, owner, serverVars>>

\* FAIL_IF_ERR of the status of the response.
CheckResponse(t) ==
  /\ In(t, "check")
  /\ IF answer[t] = "error"
     THEN Exit("exit 1")
     ELSE Step(t, "lock") /\ UNCHANGED <<objects, owner, serverVars>>

\* Faulty variant: no lock is taken.
LockNot(t) ==
  /\ In(t, "lock")
  /\ Step(t, "output")
  /\ UNCHANGED <<objects, owner, serverVars>>

Lock(t) ==
  /\ In(t, "lock")
  /\ owner = Nobody
  /\ owner' = t
  /\ Step(t, "output")
  /\ UNCHANGED <<objects, serverVars>>

\* DetectionInferenceOutput: standard output, the overlay, the shapes that point
\* into the response.
Output(t) ==
  /\ In(t, "output")
  /\ Step(t, "drop")
  /\ UNCHANGED <<objects, owner, serverVars>>

\* Faulty variant: pinned memory is freed like memory of the device.
ReleaseUndoesMixed(m) ==
  CASE m = "cpu" -> "malloc"
    [] m # "cpu" /\ GpuBuild -> "cudaMalloc"
    [] OTHER -> "none"

\* ResponseRelease: the call that frees memory of type m undoes this one.
ReleaseUndoes(m) ==
  CASE m = "cpu" -> "malloc"
    [] m = "pinned" /\ GpuBuild -> "cudaHostAlloc"
    [] m = "gpu" /\ GpuBuild -> "cudaMalloc"
    [] OTHER -> "none"

\* What ResponseRelease leaves of the buffer of t: an error of CUDA is only printed.
Released(t) ==
  CASE memory[t] # ReleaseUndoes(kind[t]) -> {memory[t]}
    [] memory[t] \in {"cudaHostAlloc", "cudaMalloc"} -> {"none", "refused"}
    [] OTHER -> {"none"}

\* InferenceResponseDelete releases the buffer, and what the server knew of it goes with
\* the response; the lock goes with its scope.
DropResponse(t) ==
  /\ In(t, "drop")
  /\ response' = [response EXCEPT ![t] = "deleted"]
  /\ \E m \in Released(t) : memory' = [memory EXCEPT ![t] = m]
  /\ kind' = [kind EXCEPT ![t] = "cpu"]
  /\ owner' = Nobody
  /\ Step(t, "delete")
  /\ UNCHANGED <<request, input, held, work, answer>>

\* What the end of the function leaves of the input: a vector goes; cuda_data_deleter asks
\* CUDA for the type of the memory, and when that or the call that frees it fails this is
\* only printed.
InputFreed(t) == IF input[t] = "malloc" THEN {"none"} ELSE {"none", "refused"}

\* InferenceRequestDelete, and the end of the function.
DeleteRequest(t) ==
  /\ In(t, "delete")
  /\ request' = [request EXCEPT ![t] = "deleted"]
  /\ \E left \in InputFreed(t) : input' = [input EXCEPT ![t] = left]
  /\ Step(t, "end")
  /\ UNCHANGED <<response, owner, serverVars>>

\* An API call of an inference thread reports an error.
ThreadFails(t) ==
  /\ status = "running"
  /\ thread[t] \in {"prepare", "submit", "output", "drop", "delete"}
  /\ Exit("exit 1")

(***************************************************************************)
(* The server's threads, and the callbacks they make.                      *)
(***************************************************************************)
ServerSame == UNCHANGED <<mainVars, thread, request, input, owner>>

\* The scheduler takes the request and the model reads the input.
Execute(t) ==
  /\ status = "running"
  /\ work[t] = "queued"
  /\ work' = [work EXCEPT ![t] = "running"]
  /\ ServerSame /\ UNCHANGED <<held, answer, response, memory, kind>>

\* ResponseAlloc: the memory type asked for; system memory without GPU support.
ActualType(preferred) ==
  LET type == IF option # "none" THEN option ELSE preferred
  IN  IF GpuBuild THEN type ELSE "cpu"

\* ResponseAlloc for an output of t; an empty output gets no buffer.  Two outputs are
\* asked for: their buffers live and die together, and one stands for both.
ResponseAlloc(t) ==
  /\ status = "running"
  /\ work[t] = "running"
  /\ \/ /\ \E preferred \in MemoryTypes :
             /\ kind' = [kind EXCEPT ![t] = ActualType(preferred)]
             /\ memory' = [memory EXCEPT ![t] = AllocCall(ActualType(preferred))]
        /\ work' = [work EXCEPT ![t] = "built"]
     \/ /\ work' \in {[work EXCEPT ![t] = "built"],      \* byte_size is 0
                      [work EXCEPT ![t] = "failed"]}     \* the model or CUDA fails
        /\ UNCHANGED <<kind, memory>>
  /\ ServerSame /\ UNCHANGED <<held, answer, response>>

\* Faulty variant: the promise of a response with an error is left alone.
InferResponseCompleteOk(t) ==
  /\ status = "running"
  /\ work[t] \in {"built", "failed"}
  /\ work' = [work EXCEPT ![t] = "answered"]
  /\ answer' = [answer EXCEPT ![t] = IF work[t] = "built" THEN "ok" ELSE "none"]
  /\ response' = [response EXCEPT ![t] = "live"]
  /\ ServerSame /\ UNCHANGED <<held, memory, kind>>

\* InferResponseComplete: the promise gets the response, also one with an error.  A call
\* without a response, which only decoupled models make, would leave everything as it is.
InferResponseComplete(t) ==
  /\ status = "running"
  /\ work[t] \in {"built", "failed"}
  /\ work' = [work EXCEPT ![t] = "answered"]
  /\ answer' = [answer EXCEPT ![t] = IF work[t] = "built" THEN "ok" ELSE "error"]
  /\ response' = [response EXCEPT ![t] = "live"]
  /\ ServerSame /\ UNCHANGED <<held, memory, kind>>

\* InferRequestComplete does nothing: the server gives the request back, before or
\* after it answers, and nobody takes notice.
InferRequestComplete(t) ==
  /\ status = "running"
  /\ held[t]
  /\ work[t] \in {"built", "failed", "answered"}
  /\ held' = [held EXCEPT ![t] = FALSE]
  /\ ServerSame /\ UNCHANGED <<work, answer, response, memory, kind>>

MainStep ==
  \/ CheckArguments \/ StartServer \/ PollHealth \/ LoadModel \/ PollReady
  \/ NewAllocator \/ LoadImage \/ Spawn \/ JoinAll \/ DeleteAllocator
  \/ PrintModelStats \/ UnloadModel \/ Return

ThreadStep(t) ==
  \/ Prepare(t) \/ InferAsync(t) \/ GetFuture(t) \/ CheckResponse(t) \/ Lock(t)
  \/ Output(t) \/ DropResponse(t) \/ DeleteRequest(t)

ServerStep(t) ==
  Execute(t) \/ ResponseAlloc(t) \/ InferResponseComplete(t) \/ InferRequestComplete(t)

Next ==
  \/ MainStep \/ MainFails
  \/ \E t \in Threads : ThreadStep(t) \/ ThreadFails(t) \/ ServerStep(t)

Spec == Init /\ [][Next]_vars

\* Every thread that can run runs, the server's too.
Fairness ==
  /\ WF_vars(MainStep)
  /\ \A t \in Threads : WF_vars(ThreadStep(t)) /\ WF_vars(ServerStep(t))

FairSpec == Spec /\ Fairness

(***************************************************************************)
(* Properties.                                                             *)
(***************************************************************************)
\* While a buffer of a response exists or may still be asked for, the allocator whose
\* callbacks allocate and release it exists, and the model is loaded.
AllocatorOutlivesUse ==
  \A t \in Threads :
    memory[t] \notin {"none", "refused"} \/ work[t] \in {"queued", "running", "built", "failed"}
      => allocator = "live" /\ model = "loaded"

\* While the server has yet to read the input of a request, the thread keeps the buffer
\* it is in.
InputOutlivesUse ==
  \A t \in Threads : work[t] \in {"queued", "running"} => input[t] \notin {"none", "refused"}

\* The output of two responses is never written at the same time, and the one that
\* is written is of a response that was answered well and is not deleted yet.
OutputIsExclusive ==
  \A t, u \in Threads : thread[t] \in {"output", "drop"} =>
    /\ response[t] = "live" /\ answer[t] = "ok"
    /\ thread[u] \in {"output", "drop"} => t = u

\* When the whole run succeeded nothing it allocated is left: every response and
\* request is deleted, every buffer of an input or output freed by the call that fits
\* its allocation, unless CUDA refused that.
NothingLeaks ==
  status = "exit 0" /\ main = "return" =>
    /\ allocator = "deleted" /\ model = "unloaded"
    /\ \A t \in Threads :
         request[t] = "deleted" /\ response[t] = "deleted"
         /\ {input[t], memory[t]} \subseteq {"none", "refused"}

\* A request is deleted only after the server gave it back with the release callback.
RequestGivenBack == \A t \in Threads : request[t] = "deleted" => ~held[t]

\* Whoever waits waits for somebody who can move: the main thread joins threads that were
\* started, a thread whose promise has no value has a request the server works on, and
\* the mutex is held by a thread that is about to leave its scope.
WaitsHaveAnEnd ==
  /\ main = "join" => \A t \in Threads : thread[t] # "unborn"
  /\ \A t \in Threads : thread[t] = "wait" /\ answer[t] = "none" =>
       work[t] \in {"queued", "running", "built", "failed"}
  /\ \A t \in Threads : owner = t => thread[t] \in {"output", "drop"}

\* The process ends.
Terminates == <>(status # "running")
==============================================================================
