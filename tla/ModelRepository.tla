-------------------------- MODULE ModelRepository --------------------------
(***************************************************************************)
(* The Triton model repository as the mlflow-triton plugin sees it         *)
(* (deploy/mlflow-triton-plugin/mlflow_triton/deployments.py): one         *)
(* directory (or S3 key prefix) per model name, holding files of a model   *)
(* at the top level, numbered version directories, and the metadata file   *)
(* the plugin adds.  The content of an entry is abstracted to the artifact *)
(* (model URI) it was copied from; a version directory is one entry.       *)
(***************************************************************************)
EXTENDS Naturals, FiniteSets

CONSTANTS
  Backend,        \* "s3" when TRITON_MODEL_REPO is an S3 URI, else "local"
  Names,          \* model names
  Uris,           \* MLflow model URIs, each naming one artifact
  TopFiles,       \* top-level file names an artifact may hold
  Versions,       \* version directory names
  VersionNumber,  \* the number of each version directory
  Flavor,         \* the flavor each artifact is deployed with
  Files,          \* the entries each artifact holds
  GlobModel,      \* the top-level files whose name matches "model*"
  Covered,        \* Covered[n]: the names that start with the characters of n
  Unmanaged       \* models Triton serves that the plugin did not deploy

None     == "none"       \* no such entry, no such value
EmptyDir == "emptydir"   \* a version directory with nothing in it
Torn     == "torn"       \* a metadata file opened for writing, not yet written
Foreign  == "foreign"    \* content the plugin did not write

MetaFile     == "mlflow-meta.json"
ConfigFile   == "config.pbtxt"
FirstVersion == "1"

Slots    == TopFiles \cup Versions
Keys     == Slots \cup {MetaFile}
Contents == Uris \cup {None, EmptyDir, Torn, Foreign}

ASSUME BackendAssumption == Backend \in {"local", "s3"}
ASSUME EntryAssumption ==
  /\ ConfigFile \in TopFiles
  /\ FirstVersion \in Versions
  /\ TopFiles \cap Versions = {}
  /\ MetaFile \notin Slots
  /\ GlobModel \subseteq TopFiles
  /\ VersionNumber \in [Versions -> Nat]
ASSUME ValueAssumption ==
  /\ Uris \cap {None, EmptyDir, Torn, Foreign} = {}
  /\ None \notin Names
ASSUME ArtifactAssumption ==
  /\ Flavor \in [Uris -> {"triton", "onnx"}]
  /\ Files \in [Uris -> SUBSET Slots]
  /\ \A u \in Uris : Flavor[u] = "onnx" => Files[u] \cap Versions = {}
ASSUME NameAssumption ==
  /\ Covered \in [Names -> SUBSET Names]
  /\ \A n \in Names : n \in Covered[n]
  /\ Unmanaged \subseteq Names

\* No model name is a proper prefix of another.
PrefixFree == \A n \in Names : Covered[n] = {n}

VARIABLE repo     \* repo[n][k]: the content of entry k of model n

RepoTypeOK == repo \in [Names -> [Keys -> Contents]]

RepoInit ==
  repo = [n \in Names |-> [k \in Keys |->
            IF n \in Unmanaged /\ k \in {ConfigFile, FirstVersion}
            THEN Foreign ELSE None]]

Present(n)   == {k \in Keys : repo[n][k] # None}
DirExists(n) == Present(n) # {}

\* The entries of artifact u that are copied: a triton artifact as it stands; of
\* an onnx one the model file, into version 1, and the top-level text files.
CopySlots(u) ==
  IF Flavor[u] = "onnx" THEN {FirstVersion} \cup (Files[u] \cap TopFiles)
                        ELSE Files[u]

\* An onnx artifact without a config.pbtxt is given a minimal one.
NeedsConfig(u) == Flavor[u] = "onnx" /\ ConfigFile \notin Files[u]

\* Entry j is copied before entry k: the model file of an onnx artifact comes
\* first; os.walk lists the files of a directory before its subdirectories;
\* copytree takes entries in any order.
CopiedBefore(u, j, k) ==
  IF Flavor[u] = "onnx" THEN j = FirstVersion
                        ELSE Backend = "s3" /\ j \in TopFiles /\ k \in Versions

\* What the directory of a model deployed from u holds when nothing else is in it.
Image(u) ==
  [k \in Keys |->
     CASE k \in CopySlots(u) \cup {MetaFile} -> u
       [] k = ConfigFile /\ NeedsConfig(u) /\ Backend = "local" -> u
       [] k = FirstVersion /\ FirstVersion \notin CopySlots(u)
            /\ Backend = "local" -> EmptyDir
       [] OTHER -> None]

\* What Triton's default version policy (the latest one) picks in the directory of n.
NewestContent(n) ==
  {repo[n][v] : v \in {w \in Versions \cap Present(n) :
     \A x \in Versions \cap Present(n) : VersionNumber[x] <= VersionNumber[w]}}
=============================================================================
