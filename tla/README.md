# TLA+ models of the Triton deployment client, its tools and the in-process inference example

The repository holds documentation of the Triton Inference Server, deployment
files for several clouds, an MLflow plugin that deploys models to a running
Triton, and a C++ example that runs a Triton server inside its own process. The
code with state, concurrency and failures of its own is in four places, and these
modules model them:

* `deploy/mlflow-triton-plugin/mlflow_triton`: the class `TritonPlugin` and its
  configuration (below *the plugin*),
* `deploy/mlflow-triton-plugin/scripts`: publishing a model (below *the scripts*),
* `docs/examples/jetson/concurrency_and_dynamic_batching`: `people_detection.cc`
  (below *the example*),
* `docs/conf.py`: the search index of the documentation.

All paths in this file are relative to `src/`; `deployments.py` and `config.py` are
those in `deploy/mlflow-triton-plugin/mlflow_triton`.

## 1. Inventory

| component | state it keeps | operations | hard behaviour | what makes it correct |
|---|---|---|---|---|
| `TritonPlugin` (`deployments.py`) | none of its own: the model repository (directory or S3 prefix), one `mlflow-meta.json` per model in it, the server's index | create, update, delete, list, get, predict | several calls on other stores per operation without any atomicity; several clients; calls that raise or time out half way; asynchronous unload; a server that is restarted | the deployments stay listable; a call that reports success did what it says; clients do not disturb each other |
| plugin configuration (`config.py`) | endpoint, bucket, prefix | read environment, `clean_path`, `parse_path` | slicing and a loop with a flag; a regular expression and a fallback | what was meant is what is used, however it was typed |
| triton MLflow flavor, publish script (`scripts/`) | the MLflow run and its artifact | save, log and register a model | paths typed by users | the artifact holds the model directory under its own name |
| Triton server (external) | index state and loaded model per name, loads under way | index, load, unload | loads take long, may fail, read the repository at any time meanwhile | as documented in `docs/user_guide/model_management.md` |
| people detection (`people_detection.cc`, `common.h`) | server, allocator, per thread request, response and buffer, one mutex | start, poll, load, infer from N threads, print, tear down | server threads call back; object lifetimes across threads; `FAIL` ends the process anywhere | nothing used after it is deleted, output one at a time, no leak, it ends |
| letterbox and box recovery (same file, 315-596) | image buffers | resize, normalise, recover boxes | integer and float arithmetic at the borders | boxes fall inside the image |
| documentation build (`docs/conf.py`) | the search index, kept between builds | the replaced `IndexBuilder.feed`; configuration | an index that is pruned and fed again in part; words that fall out of both maps | the index is that of the sources |
| Helm charts | declarative Kubernetes objects | probes, autoscaling | start-up time against liveness probes | n/a |
| load generator (`locustfile_bert.py`) | none | load shape | none | n/a |
| shell scripts, example models, text | none | downloads, builds | pure I/O | n/a |

Interactions. The scripts make an MLflow artifact of a directory. The plugin makes
calls on MLflow (download an artifact), on the repository (boto3 or `shutil`) and on
Triton (HTTP). Triton reads the repository on its own while it loads. Nothing tells
any of them what the others did, which is why the properties below relate them. In
the example the threads and the server share objects by pointer: the server calls
`ResponseAlloc`, `InferResponseComplete`, `InferRequestComplete` from its own threads,
and the release of a response calls `ResponseRelease` from ours. Sphinx calls `feed`
for each document it writes.

The hazards are listed one by one, at their lines, in `PROJECT.json`.

## 2. Modules

```
ModelRepository        directories of the model repository, artifacts
  TritonServer         (external) index, loads, unloads, restart
    TritonPlugin       the calls of the clients, fairness, properties
      TritonPluginStore    refinement of DeploymentStore and UnreliableStore
        MCTritonPlugin     instances for TLC
      TritonPluginProofs   theorems about the repository
        TritonPluginAnswers  theorems about what calls answer
          TritonPluginLocal  theorems about a local repository
          TritonPluginStoreProofs  theorems that TritonPluginStore refines both stores
DeploymentStore        abstract: a map from names to artifacts
  UnreliableStore      abstract: the same when calls are abandoned and deployments lost
S3Path                 config.py as functions on sequences of tokens
  S3PathProofs         lemmas about them, for paths of any length
  PublishToS3          a model's way from a directory to the objects in a bucket
    MCPublishToS3, PublishToS3Proofs (with S3PathProofs)
PeopleDetection        main thread, inference threads, server threads
  MCPeopleDetection, PeopleDetectionProofs
SearchIndex            feed of conf.py under incremental builds
  MCSearchIndex, SearchIndexProofs
```

### ModelRepository

`repo[n][k]` is the content of entry `k` in the directory of model `n`. The
content is the artifact (URI) it was copied from, or `None`, an empty version
directory, a metadata file that is truncated and not yet written (`Torn`), or
something the plugin did not write. A version directory with its files is one
entry. A directory that is empty is not told from one that is absent.
`CopySlots` is what `_get_copy_paths` copies: for a triton artifact the tree; for
an onnx artifact the model file, into version 1, and the top-level text files.
`NeedsConfig` is the case in which the minimal `config.pbtxt` is written; its
content is represented by the URI of the artifact. `Covered[n]` gives the names
that start with the characters of `n`: that is what the prefix
`join(prefix, name)` of `list_objects` finds.

### TritonServer

What the plugin uses of the server in EXPLICIT mode. A load is accepted
(`AcceptLoad`), reads the newest version at some moment (`ServerReads`), and ends
well or badly; a failed reload keeps the loaded model. An unload is answered at
once and finished later (`FinishUnload`). Control requests for one model are
taken one at a time. `Restart` leaves no model loaded and no load under way; the
client that waited for one finds its connection gone (`ConnectionLost`).

### TritonPlugin

A call is a location `pc[c]` and the values its Python frame keeps: the request
`op`, the result `res`, the rest of the index it reads (`index`), what it found
for its name (`found`), the entries still to copy or remove (`todo`). One action
is one request to a store:

| actions | code |
|---|---|
| `Invoke`, `RejectArguments` | the call, `_validate_flavor` (512-514) and the array without a name that `predict` refuses (243-244) |
| `ReadIndex`, `ReadMeta`, `MetaRaises`, `ListReturns` | `list_deployments`, 183-220 |
| `GetReturns`, `CheckCreate`, `CheckDelete`, `CheckUpdate` | what `_model_exists` and `get_deployment` decide, 100-167, 222-235, 516-522; an update lists twice |
| `Stage`, `ClearEntry`, `EndClear`, `CopyEntry`, `EndCopy` | `_get_copy_paths`, `_walk`, `_copy_files_to_triton_repo`, 332-451 |
| `WriteMeta`, `FlushMeta` | `_generate_mlflow_meta_file`, 284-307; on S3 atomic, locally truncate then write |
| `CallLoad`, `LoadEnds`, `ConnectionLost` | `load_model` and its answer, 114-119, 176-181 |
| `Describe`, `Infer` | `predict`, 237-282: the datatypes of the model, for a DataFrame, and the inference |
| `CallUnload`, `Scan`, `PurgeEntry`, `EndPurge` | `delete_deployment`, `_delete_deployment_files`, `_delete_mlflow_meta`, 136-143, 453-500 |
| `Fail` | any of these requests raises, times out, or the process is killed; a load it was waiting for goes on in the server |

`Fail` stands for every exception the stores can make, failed downloads and
artifacts of the wrong flavor included, and for the death of the client: both
leave the stores as they are. On S3 `_delete_mlflow_meta` passes the whole
`s3://` path as key, which names no object, so the action leaves the repository
alone; the metadata goes because it is among the keys of the prefix. Two local
clients that copy into the same directory at the same moment are approximated:
the exceptions `copytree` and `rmtree` can make are the error branches of
`ClearEntry` and `EndClear`. `Page` is what one `list_objects` returns: the first
`ListLimit` keys (1000 on S3), in the order of the keys.

### DeploymentStore, UnreliableStore and TritonPluginStore

`DeploymentStore` states what users are promised: a map from names to artifacts;
a create applies to a free name, an update or delete to a taken one; each takes
effect at one instant between its call and its return, or not at all; one that
returns ok took effect. `TritonPluginStore` gives the mapping: a name is deployed
when Triton has it READY, as the artifact its metadata names. A create takes
effect with the answer of its load, an update with its metadata, a delete with
the unload. `ImplementsStore` is that specification, checked as a property of
the run `S3Owners`.

`UnreliableStore` states what is left of the promise when calls are abandoned and the server
is restarted. A change is granted (`Grant`) at an instant at which its name is as its kind
asks, and made later (`Make`), then perhaps on a name that has changed: the load of an abandoned
create may have ended in between. A call that gives up after its grant (`GiveUp`) leaves at most
its own artifact to be deployed later, `late[n]`; that happens only on a name under which
nothing is deployed (`MakeLate`), or never, because a later call has written its own metadata or
the load failed (`Forget`). A restart empties the map and what was late (`Lose`). A call returns ok
only while the map holds what it asked for (`Confirm`). The mapping: granted is a call that has read
an index in which its name is as it must be (`Checked`: the second index for an update); the change is
made once the metadata of the call is that of a READY model, or the unload was accepted
(`Made`); `Late` is the metadata of a model that is not READY while a load of it is under way that
nobody waits for, unless a call has written its metadata over it (`Abandoned`).
`ImplementsUnreliableStore` is checked as a property of the run `S3Single`.

### S3Path and PublishToS3

A path is a sequence of tokens: slashes, scheme names, words. `S3Path` has
`clean_path` and `parse_path` as functions on them, in the order of the code: `s3://`
first, then `https://` before `http://`, anywhere in the path; the slice `TruePath`, which
keeps one trailing slash; the loop `Collapse`; the expression `MatchesRegex` and the
fallback when it does not match. Its loops are recursive functions over the path.

`PublishToS3` follows one model: `Configure` (the constructor of `Config`) for any way
to type one of a set of addresses, `StartRun`, `SaveModel`, `Register` (the scripts) for any
of a set of spellings of the model directory, `CopyFiles`, `UploadFile`, `PutMeta` and
`Delete` with the keys `deployments.py` computes: `OnnxKey` (413-420) and `RelPath`
(422-426), `MetaKey` (297), `DeletePrefix` (468). Nothing interleaves and nothing fails
here except what the spelling causes; that is `TritonPlugin`'s part, which in turn
takes it for granted that the keys of one model are the ones its delete asks for. An
onnx artifact is logged by MLflow itself, outside this repository.

### PeopleDetection

The main thread steps through `main` and `CreateAndRunTritonserverInstance`
(`CheckArguments` ... `Return`), each inference thread through
`RunInferenceAndValidate` (`Prepare` ... `DeleteRequest`), and for each request the
server takes it (`Execute`), calls `ResponseAlloc`, `InferResponseComplete` and
`InferRequestComplete`; the last comes before or after the response, as the
server's documentation allows. `FAIL_IF_ERR` is `MainFails` and `ThreadFails`: it
ends the process, with everything in it. `option` is the memory type of `-m`, any of the
three or none. `input` tells which call allocated the buffer a request's input is in: the vector of
`RunInferenceAndValidate`, or the CUDA buffer that `-m` asks for, which `cuda_data_deleter`
frees at the end of that function (`InputFreed`); the request itself keeps a pointer only. `memory`
and `kind` tell which call allocated the buffer of an output and which type the server was told it
has, so that a release that does not fit shows as a leak; that CUDA may refuse to free a
buffer, which the code only prints, is the value `refused`. A response callback without a
response is made for decoupled models only; the code ignores it, so it is no step. Two outputs are asked for and one buffer
stands for both: they are allocated and released together. What a picture holds, and
the arithmetic on it, is left out.

### SearchIndex

`conf.py` replaces `IndexBuilder.feed` of Sphinx. `Feed` is that function; a document is
its set of title words and its set of text words, the stemmer, the filter and the length
of a word are constants. The rest of Sphinx, which is external, is what it takes for `feed`
to meet a used index: authors write and remove documents (`Write`, `Remove`), a build
reads the sources, loads the index of the last build, prunes it to the documents it will
not write (`StartBuild`: all that changed are written, others may be), feeds the rest in any
order and stores the index (`FinishBuild`). A build that is interrupted stores nothing and
is not modelled. The first two lists of words are merged in `_mapping` and `_titles`;
`_filenames`, written together with `_titles`, is left out.

## 3. What the runs show

| run | instance | result |
|---|---|---|
| `S3Single` | one client, two names, two artifacts, one with a configuration and one without, S3, any call may fail anywhere, the server may be restarted, the larger artifact makes as many keys as one listing returns | every READY model has readable metadata (`Listable`); after a success Triton serves the artifact asked for, unless it was restarted, and the metadata names it (`OkServesRequested`); a delete leaves nothing (`DeleteRemovesModel`); the client implements the unreliable store (`ImplementsUnreliableStore`) |
| `S3Owners` | two clients, a name each, two artifacts, no restart | after a success Triton serves the artifact asked for and the metadata names it, whatever the other client does (`OkServesRequested`); nobody edits a directory in a call about another model (`NoForeignEdit`); `get_deployment` tells an owner what its READY model's metadata says (`GetReportsDeployed`); `predict` converts to the datatypes of the artifact that answers (`PredictUsesServedTypes`); a create does not touch the files of a model being served (`CreateSparesLiveModel`); the clients implement the store (`ImplementsStore`) |
| `Local` | one client, three artifacts (two triton with no entry in common, one onnx without configuration), a model deployed by other means, any call may fail anywhere, the server may be restarted, fair | a triton artifact replaces the directory as a whole and is served (`RepositoryIsArtifact`); an onnx model always ends with its own configuration or the one made for it, also over an artifact that left another (`MinimalConfigProvided`); a step of a call brings it nearer to its return and never back (`CallsMoveOn`); every call returns (`EveryCallReturns`) |
| `Detection` | three threads, GPU support, each memory type of `-m` and none, fair | `AllocatorOutlivesUse`, `OutputIsExclusive`; the server finds the input it has yet to read (`InputOutlivesUse`); memory of each of the three types, of inputs and outputs, is freed by the call that fits (`NothingLeaks`); whoever waits for a thread, an answer or the mutex waits for somebody who can move (`WaitsHaveAnEnd`); the process ends (`Terminates`) |
| `PublishToS3` | thirteen addresses, one of them empty, each with up to two slashes in front and three between its words, and up to two at the end when it has no endpoint; ten spellings of the model directory; both flavors | endpoint, bucket and directory are those that were meant (`AddressKept`); exactly the files of the model are where Triton looks (`DeployedWhereServed`); a delete finds them all (`DeleteEmpties`); a directory that ends in a name is published (`NamedDirectoriesPublish`) |
| `SearchIndex` | two documents, three contents with words on each side of every test in `feed` | the index of every build is that of the sources (`IndexFollowsSources`); no word is lost to the stemmer (`StemmerRemovesNothing`); no short key is the stem of a word only (`ShortKeysAreWords`) |

Six runs show that the code does not do what the repository says of it:

| run | what happens |
|---|---|
| `DocPrefixDelete` | deleting `bert` on S3 also deletes the files of `bert_large`: the prefix has no slash at its end |
| `DocStaleVersion` | update on S3 uploads over what is there; a version the new artifact lacks stays, and is what Triton loads |
| `DocListUnmanaged` | on S3 one READY model without metadata makes every listing raise, and with it every other call |
| `DocMinimalConfig` | the minimal configuration of an onnx model is written with `open()` and never reaches S3 |
| `DocRequestOwnership` | a thread deletes its request when the response came, which may be before the server gave the request back |
| `DocTrailingSlash` | `s3://host:9000/bucket/` is bucket `host:9000` on AWS: one trailing slash survives the cleaning, the expression for endpoints does not match, and the fallback applies |

Further behaviour that the same modules show when the constants are chosen for it,
and that the properties therefore are not checked for:

* `CreateSparesLiveModel` with `MayFail = TRUE`: a create whose load outlives its
  client's timeout becomes READY while the next create, which saw nothing, writes;
  with a local `Unmanaged` model: a READY model without metadata does not count as
  deployed and is overwritten.
* `PredictUsesServedTypes` with `MayFail = TRUE`: an abandoned load of a client's own
  ends between the two requests of its `predict`. So may the load of another client, when
  clients share a name.
* `DeleteRemovesModel` locally: only top-level files that match `model*` and the
  metadata are removed (`deployments.py:490`); versions and configuration stay. On S3
  with `ListLimit` below the number of keys: the rest of the keys stays, the metadata
  among them, and the name is not deployed any more. In `S3Single` a model has at most `ListLimit` keys.
* `OkServesRequested` locally from a triton artifact with version 2 to an onnx one:
  only version 1 is replaced.
* `Listable` locally with `MayFail = TRUE`: a process that dies between truncating
  and writing `mlflow-meta.json` leaves a file that does not parse.
* `ListNeverRaises` with two clients: the listing of one races the delete of the
  other, because the index is read before the metadata. `GetReportsDeployed` is about the
  answers that are given; a call that raises gives none.
* Files are deleted while the model is UNLOADING, which
  `docs/user_guide/model_management.md:194-196` tells users not to do.
* After an update whose load failed, `get_deployment` reports the new artifact
  while the old one is served.
* An address that has an endpoint and no bucket, `s3://host:9000`, is accepted as bucket
  `host:9000`; the addresses of the runs all have one.

### Bounds

Two names, two or three artifacts, one or two versions, one or two clients. A step
concerns one name, one entry and one artifact; two names are what it takes for one
to disturb another, and two artifacts to tell old from new. Nothing is counted, so
these runs have no bound on the number of calls: the state spaces are complete. In
the example the polls are counted, with the program's own limits 10 and 5 and all of
them reached. Three threads give every way in which two can contend while a third
is elsewhere. `CHECK_DEADLOCK FALSE` stands in the runs of the example only, where the
process stops when it has exited. In `PublishToS3` the words are few, and the numbers of
slashes bounded by 2 and 3: the code tells none, one and several apart. These numbers are the constants
`FrontSlashes`, `InnerSlashes` and `EndSlashes`; the theorems are about any sets of them. Hosts, buckets and
segments are classes of the regular expression; the segment `v2.Old` is no legal bucket.
In `SearchIndex` two documents are what it takes for one to be kept while another is
fed, and builds are unbounded.

### Fairness

`TritonPlugin!Fairness`: a call that is under way goes on (it is one sequential
Python thread without locks), and the server ends every load and unload it accepted
(the HTTP API answers or fails). Nothing says that clients make calls, that failures
happen or that the server is restarted. `PeopleDetection!Fairness`: the operating system
runs every thread that can run, the server's included. The polls need no fairness: they
are bounded.

## 4. What is proved

By TLAPS, for every value of the constants that the modules' assumptions admit.
The assumptions are named and evaluated by TLC in the runs. `Ownership` is: S3, no name
begins another, no two clients manage one name, no READY model from elsewhere. Each of
the four is needed: `DocListUnmanaged`, `DocPrefixDelete` and the list above show what
happens without.

`TritonPluginProofs`:

* `TypeCorrect`: `Spec => []TypeOK`. Any backend, clients, names, artifacts, failures.
* `AlwaysListable`: `Ownership => (Spec => []Listable)`. `Listable` is not
  inductive: that a READY model has metadata depends on when the files are removed.
  `ListInv` adds that a model which is READY or about to become so has metadata
  (`MetaKept`), that files are removed only when the model is no longer READY and is
  not being loaded (`PurgeIsLate`), and that what a call still has to copy or remove
  is in its own directory (`OwnEntries`). One lemma per group of actions.
* `OwnEdits`: `NamesApart => (Spec => NoForeignEdit)`, where `NamesApart` says that the
  repository is local or no name begins another. Here clients may share names, and any
  failure may happen. The invariant is `OwnTodo`: what a call still has to copy or
  remove is in its own directory.

`TritonPluginAnswers`, all resting on `CallerInv` (a load somebody waits for belongs to
that client's call, and a model has at most one load):

* `ServesRequested`: `Ownership /\ UniformVersions => (Spec => []OkServesRequested)`, whatever
  fails and restarts. `UniformVersions` (all artifacts bring the same version directories)
  is what `DocStaleVersion` lacks. `ServeInv` follows a create or update: what has been
  copied stays copied (`OthersLeaveModel`), the load read a version of the artifact
  or has not read yet, and after the answer no load of the model is left.
* `DeleteLeavesNothing`: `Ownership /\ WholeListings => (Spec => []DeleteRemovesModel)`.
  `WholeListings` says that a model has at most `ListLimit` keys. `DeleteInv`: what is still
  in the directory is still in `todo`.
* `GetIsTrue`: `NamesApart /\ DisjointOwners /\ ~MayRestart => (Spec => []GetReportsDeployed)`.
* `PredictIsTyped`: `DisjointOwners /\ ~MayFail /\ ~MayRestart => (Spec =>
  []PredictUsesServedTypes)`: every load has a client that waits for it (`Attended`), and a
  client that waits makes no predict.
* `CreateSpares`: `Ownership /\ ~MayFail => (Spec => CreateSparesLiveModel)`, from the same
  fact and from what the create has and has not yet seen of the index (`CreateHolds`).

`TritonPluginStoreProofs`:

* `StoreImplemented`: `Ownership /\ ~MayFail /\ ~MayRestart => (Spec => ImplementsStore)`.
  `StoreInv` adds to the invariant of `CreateSpares` that an update or delete which found its
  deployment works on a READY model, and that the metadata is the artifact's when
  a create waits for its load (`ChangeHolds`). Then a call's first step is an `Ask` or
  `Refuse`; the metadata of an update, the unload of a delete and the answer of a create's
  load are `Apply`; every other step ends the call or is a stutter. Without the last two
  assumptions it is false: the load of an abandoned create may end when no call is
  under way, and a restart takes all deployments at once. What holds then is the next theorem.
* `UnreliableImplemented`: `Ownership => (Spec => ImplementsUnreliableStore)`, whatever fails and
  restarts. `LateInv` adds to `ListInv` and `CallerInv` that a call which asks for its load has its
  artifact in the metadata and waits for no other load than its own, and that only an update looks
  twice (`NamedHolds`). `LateFrame` and `EndFrame` say what a step of a client and the end of a
  load leave alone; then there is a lemma for each way to step: `LooksLate` (the index is read, a `Grant`),
  `MetaLate` and `UnloadLate` (a `Make`, or a `Forget` when the model is not READY),
  `AnswerLate` and `OrphanLate` (the answer of a load with and without a call that waits),
  `FailLate` (a `GiveUp`), `RestartLate` (`Lose`). That the store need not say which abandoned
  changes there are, only the last of each name, rests on `OneLoad`: a model has one load at a time.

`TritonPluginLocal`, for a local repository whose clients manage names of their own
(`LocalOwners`), whatever was in the directories before, whatever fails and restarts:

* `ConfigProvided`: `MinimalConfigProvided`. `ConfigHolds`: from the copies of an onnx
  artifact on, its configuration, or the one made for it, is in the directory or still to
  be copied.
* `DirectoryIsArtifact`: `RepositoryIsArtifact`. `ArtifactHolds`: while a triton artifact
  is copied, the directory, emptied before, holds exactly what has been copied;
  with the metadata that is `Image`; the load reads one of its versions.

`PeopleDetectionProofs`: `TypeCorrect`, `ExclusiveOutput`, `AllocatorSafe`, `InputSafe`, `LeakFree`,
`NoEndlessWait`, for any number of threads and any build (the run has GPU support; builds without it,
where unsupported types are replaced by system memory, are covered by the proofs). The invariant is a part about the main thread (`MainInv`: from the
deletion of the allocator on, every thread is at its end) and a part per thread
(`ThreadInv`: which response, buffers and work go with each place in the thread, and
that a thread in its critical section is the owner of the mutex).

`SearchIndexProofs`: `IndexCorrect`, `NothingRemoved`, `ShortKeysCorrect`, for any documents,
words, stemmer and filter, of which only this is assumed: lower case is idempotent and stop
words are in lower case. `IndexInv` says what the two maps hold in the middle of a build, for the
documents that are fed: the title map exactly the title's keys, the other exactly the
text's keys that the title lacks.

`PublishToS3Proofs`, on the lemmas of `S3PathProofs`, for any addresses, numbers of slashes, model
directories, files and name:

* `AddressTheorem`: `SlashesOnlyOnAws => (Spec => []AddressKept)`. `SlashesOnlyOnAws` says that
  an address with an endpoint of its own is typed without a slash at its end;
  `DocTrailingSlash` shows what happens to one that is not. The argument follows the code: what
  comes after the schemes has none in it (`SchemeOf`, `PathOf`), the slice goes from the first
  word to the slash after the last (`TruePathOf`), the loop leaves the words with one slash
  between each two (`CollapseSpelled`, with `KeepsAgree`: what the loop keeps of a path does not
  depend on what follows), and the expression and its fallback take the same words for host, bucket
  and directory (`ParseHost`, `ParseAws`). `AddressInv` says this of `config`, in
  terms of the words.
* `ServedTheorem`: `SlashesOnlyOnAws => (Spec => []DeployedWhereServed)`. That
  the ways of computing a key agree (`UploadsAreKeys`) needs no such hypothesis; where the
  keys are does. `KeysInv` relates what is still to upload and what is in the bucket to the files
  of the model.
* `DeleteTheorem`: `Spec => []DeleteEmpties`, from `KeysInv`: a delete finds what was uploaded even when
  the address was misunderstood, since both use what the address was taken for.
* `NamedTheorem`: `Spec => []NamedDirectoriesPublish`: after its last word, slashes alone leave the
  parts of a path as they are (`BaseNameOf`).

They rest on three assumptions. `WordAssumption`: hosts have a colon and segments none, so no word is
both, and none is a slash or a scheme. `AddressAssumption`: only an address with a host has a
scheme, it has a bucket, and between two words is at least one slash. `FileAssumption`: names of
files are relative paths and not empty, and none of an onnx model is called `MLmodel`.

The functions of these modules are recursive. `Recursion` shows that a function with such an
equation exists, and `InductionNat` is induction for sets of numbers, from the least element that
`LeastNat` finds in every set of them; so what the loops compute is proved for paths of any
length without a theorem that takes an operator.

Two theorems are the safe part of the liveness properties, which are beyond what this prover does
and are only checked by TLC, as `EveryCallReturns` and `Terminates`:

* `CallsProgress` (`TritonPluginProofs`): `Spec => CallsMoveOn`, without any hypothesis. The methods are
  ways from left to right through `Route`; a request of a call's own takes it further right, or at
  its place takes a name from those it looks at or an entry from those it moves. Requests of others and
  of the server leave it alone or end it. As names and entries are finite, no call
  makes steps without end; that it makes one whenever it can is its fairness.
* `NoEndlessWait` (`PeopleDetectionProofs`): `Spec => []WaitsHaveAnEnd`, from `MainInv` and `ThreadInv`.

Definitions called *faulty variant* in the modules are what a plausible mistake in
the code would make of the definition after them; TLC finds the property that
guards against it violated when one takes the other's place.

## 5. Not modelled, and why

* Arithmetic of pictures in `people_detection.cc` (315-596) and the GPU copy at line 556:
  floating point and the contents of buffers.
* The rest of `conf.py`: options, and substitutions of version numbers in texts, which keep
  no state; interrupted builds of Sphinx.
* The load generator: both branches of its `tick` return the same number of users, and the
  ramp is locust's.
* Helm charts: declarative; what they do is Kubernetes', which is not in the repository.
* Shell scripts, build files, example models and texts.
* In the plugin: contents of files, two local clients in one directory (see above), the
  missing environment variable (`config.py:41` raises `AttributeError` on `None` before the
  message at `deployments.py:83` can be given), `run_local`, which raises always, and
  `_validate_config_args`, which nothing calls.

The two refinements are about S3 with one client for each name. Clients that share names keep no
store: their checks race, and two creates of one name may both succeed. In a local repository a failed
call can leave metadata that does not parse (see `Listable` above), and the map would have to say what is
deployed then.
