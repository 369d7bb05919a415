---------------------------- MODULE PublishToS3 ----------------------------
(***************************************************************************)
(* The way of a model from a directory to the objects of an S3 repository: *)
(* scripts/publish_model_to_mlflow.py and scripts/triton_flavor.py make an *)
(* MLflow artifact of the directory, the plugin configured by config.py    *)
(* computes a key for each file (deployments.py) and uploads it, and       *)
(* deletes what it finds under the name.  Here it is the names that        *)
(* matter: every path is typed by somebody in one of many spellings.       *)
(* Interleavings and failures of the plugin are in TritonPlugin.           *)
(***************************************************************************)
EXTENDS S3Path

CONSTANTS
  Addresses,     \* repositories: [scheme, host, words], the bucket is the first word
  FrontSlashes,  \* how many slashes may be typed too many before an address,
  InnerSlashes,  \* how many between two words of it,
  EndSlashes,    \* how many after each address
  ModelPaths,    \* values of --model_directory
  TritonFiles,   \* the files in the model directory, relative to it
  OnnxFiles,     \* the files of an onnx artifact
  Name           \* the name the model is deployed under

VARIABLES
  stage,      \* how far the model has come
  address,    \* the repository meant by TRITON_MODEL_REPO, empty before it is read
  config,     \* what Config made of it
  flavor,     \* the flavor of the artifact
  directory,  \* the model directory as it was typed
  artifact,   \* the files of the artifact
  todo,       \* uploads not yet made: the files and their keys
  objects     \* the keys in the bucket

vars == <<stage, address, config, flavor, directory, artifact, todo, objects>>

Model   == <<"model.onnx">>
Meta    == <<"mlflow-meta.json">>
MLmodel == <<"MLmodel">>

\* An address with an endpoint has a bucket; only one with an endpoint has a scheme.
ASSUME AddressAssumption ==
  /\ FrontSlashes \subseteq Nat /\ InnerSlashes \subseteq Nat \ {0}
  /\ \A a \in Addresses :
       /\ a.scheme \in {<<>>, Http, Https} /\ a.words \in Seq(Segments)
       /\ \/ a.host = <<>> /\ a.scheme = <<>>
          \/ /\ \E h \in Hosts : a.host = <<h>>
             /\ a.words # <<>> /\ a.words[1] \in Buckets
       /\ EndSlashes[a] \subseteq Nat

\* Names of files are relative; MLmodel is the file MLflow adds to an artifact.
ASSUME FileAssumption ==
  /\ \A f \in TritonFiles \cup OnnxFiles : f \in Seq(STRING) /\ f # <<>> /\ f[1] # Slash
  /\ MLmodel \notin OnnxFiles
  /\ \A p \in ModelPaths : p \in Seq(STRING) /\ \A i \in 1..Len(p) : p[i] # ""
  /\ Name \in STRING \ {Slash}

Init ==
  /\ stage = "start" /\ address = <<>> /\ config = [endpoint |-> Aws, bucket |-> "", prefix |-> <<>>]
  /\ flavor = "triton" /\ directory = <<>>
  /\ artifact = {} /\ todo = {} /\ objects = {}

\* n slashes in a row.
Slashes(n) == [i \in 1..n |-> Slash]

\* The words with n slashes between each two.
Spelled(words, n) ==
  LET path[k \in 0..Len(words)] ==
        IF k <= 1 THEN SubSeq(words, 1, k) ELSE path[k - 1] \o Slashes(n) \o <<words[k]>>
  IN path[Len(words)]

\* An address as it may be typed: extra slashes in front, between and at the end.
Typed(a, front, between, end) ==
  S3 \o a.scheme \o Slashes(front) \o Spelled(a.host \o a.words, between) \o Slashes(end)

\* Config.__init__ for a value that starts with s3://.
Configure ==
  /\ stage = "start"
  /\ \E a \in Addresses, front \in FrontSlashes, between \in InnerSlashes : \E end \in EndSlashes[a] :
       LET p == Typed(a, front, between, end) IN
       /\ address' = a
       /\ IF NoBucket(p)
          THEN stage' = "invalid" /\ UNCHANGED config
          ELSE stage' = "configured" /\ config' = parse_path(p)
  /\ UNCHANGED <<flavor, directory, artifact, todo, objects>>

(***************************************************************************)
(* Publishing.                                                             *)
(***************************************************************************)
\* os.path.normpath, as the sequence of its parts.
NormPath(p) ==
  LET parts[i \in 0..Len(p)] ==
        IF i = 0 THEN <<>>
        ELSE LET before == parts[i - 1] IN
             CASE p[i] \in {Slash, "."} -> before
               [] p[i] = ".." /\ before # <<>> /\ Last(before) # ".." -> Front(before)
               [] p[i] = ".." /\ before = <<>> /\ p[1] = Slash -> before
               [] OTHER -> Append(before, p[i])
  IN parts[Len(p)]

\* Faulty variant: os.path.basename of the path as it was typed.
BaseNameTyped(p) == IF Last(p) = Slash THEN "" ELSE Last(p)

\* os.path.basename of it.
BaseName(p) ==
  IF NormPath(p) # <<>> THEN Last(NormPath(p)) ELSE IF p[1] = Slash THEN "" ELSE "."

\* publish_to_mlflow starts a run; an onnx artifact is logged by MLflow itself.
StartRun ==
  /\ stage = "configured"
  /\ \/ /\ \E p \in ModelPaths : directory' = p
        /\ stage' = "running" /\ flavor' = "triton" /\ UNCHANGED artifact
     \/ /\ stage' = "registered" /\ flavor' = "onnx"
        /\ artifact' = OnnxFiles \cup {MLmodel}
        /\ UNCHANGED directory
  /\ UNCHANGED <<address, config, todo, objects>>

\* save_model: the directory is copied under its own name into the new directory of the
\* artifact.  copytree refuses a target that exists: the artifact's directory itself
\* or its parent.
SaveModel ==
  LET base == BaseName(directory) IN
  /\ stage = "running"
  /\ IF base \in {"", ".", ".."}
     THEN stage' = "failed" /\ UNCHANGED artifact
     ELSE /\ stage' = "saved"
          /\ artifact' = {<<base>> \o <<Slash>> \o f : f \in TritonFiles} \cup {MLmodel}
  /\ UNCHANGED <<address, config, flavor, directory, todo, objects>>

\* The rest of Model.log: the artifact is logged to the run and a version registered.
Register ==
  /\ stage = "saved"
  /\ stage' = "registered"
  /\ UNCHANGED <<address, config, flavor, directory, artifact, todo, objects>>

(***************************************************************************)
(* Deploying: the keys that deployments.py computes.                       *)
(***************************************************************************)
DeploymentDir == Join(CleanRepo(config), <<Name>>)

\* A path in the repository as path in the bucket: .replace(repo, "").strip("/").
WithinRepo(p) ==
  LET rest == SubSeq(p, Len(CleanRepo(config)) + 1, Len(p))
  IN SubSeq(rest, SelectInSeq(rest, IsWord), SelectLastInSeq(rest, IsWord))

OnnxKey(to, file) == Join(Join(config.prefix, WithinRepo(to)), file)

\* Faulty variant: the path within the artifact, not within the model directory.
RelPathWhole(f) == f

\* os.path.relpath of a file in the model directory of the artifact.
RelPath(f) == SubSeq(f, 3, Len(f))

\* The directory that iterdir finds; MLmodel is a file.
InDirectory == {f \in artifact : Len(f) > 1}

\* A file of an onnx artifact goes to version 1 or to the top; MLmodel is left out.
Uploads ==
  IF flavor = "triton"
  THEN {Join(Join(config.prefix, <<Name>>), RelPath(f)) : f \in InDirectory}
  ELSE {IF f = Model THEN OnnxKey(Join(DeploymentDir, <<"1">>), f) ELSE OnnxKey(DeploymentDir, f)
          : f \in artifact \ {MLmodel}}

CopyFiles ==
  /\ stage = "registered"
  /\ stage' = "upload"
  /\ todo' = Uploads
  /\ UNCHANGED <<address, config, flavor, directory, artifact, objects>>

UploadFile ==
  /\ stage = "upload"
  /\ \E k \in todo : todo' = todo \ {k} /\ objects' = objects \cup {k}
  /\ UNCHANGED <<stage, address, config, flavor, directory, artifact>>

MetaKey == Join(Join(config.prefix, <<Name>>), Meta)

PutMeta ==
  /\ stage = "upload" /\ todo = {}
  /\ stage' = "deployed"
  /\ objects' = objects \cup {MetaKey}
  /\ UNCHANGED <<address, config, flavor, directory, artifact, todo>>

\* Faulty variant: the prefix is the path of the deployment.
DeletePrefixPath == DeploymentDir

\* What list_objects is asked for.
DeletePrefix == Join(config.prefix, <<Name>>)

Delete ==
  /\ stage = "deployed"
  /\ stage' = "deleted"
  /\ objects' = {k \in objects : ~IsPrefix(DeletePrefix, k)}
  /\ UNCHANGED <<address, config, flavor, directory, artifact, todo>>

\* The end of one model's way.
Done == stage \in {"invalid", "failed", "deleted"} /\ UNCHANGED vars

Next == \/ Configure \/ StartRun \/ SaveModel \/ Register
        \/ CopyFiles \/ UploadFile \/ PutMeta \/ Delete \/ Done

Spec == Init /\ [][Next]_vars

(***************************************************************************)
(* Properties.                                                             *)
(***************************************************************************)
\* Where a file of the model belongs: under the address and the name of the model,
\* whatever way the address was typed.
Place(file) == Spelled(Tail(address.words) \o <<Name>>, 1) \o <<Slash>> \o file

\* However many slashes were typed, the plugin talks to the endpoint and the bucket that
\* were meant and gives the model the directory that was meant; only an address without
\* any word is refused (Config, parse_path and clean_path).
AddressKept ==
  /\ stage = "invalid" => address.host \o address.words = <<>>
  /\ stage \notin {"start", "invalid"} =>
       /\ config.bucket = address.words[1]
       /\ config.endpoint = IF address.host = <<>> THEN Aws
                            ELSE (IF address.scheme = Https THEN Https ELSE Http) \o address.host
       /\ Join(config.prefix, <<Name>>) = Spelled(Tail(address.words) \o <<Name>>, 1)

\* The four ways of computing a key agree (the two of _copy_files_to_triton_repo and
\* that of _generate_mlflow_meta_file with the layout Triton reads): once the
\* deployment returns, the bucket holds exactly the files of the model directory under
\* the model's name, or the model as version 1 with the rest beside it, and the metadata.
DeployedWhereServed ==
  stage = "deployed" =>
    objects = {Place(Meta)} \cup
      IF flavor = "triton" THEN {Place(f) : f \in TritonFiles}
      ELSE {Place(IF f = Model THEN <<"1", Slash>> \o f ELSE f) : f \in OnnxFiles}

\* _delete_deployment_files asks for the keys under the very prefix the uploads used: it
\* leaves nothing of the model, whatever way the address was typed.
DeleteEmpties == stage = "deleted" => objects = {}

\* A model directory whose last word is a name is published however it was typed, with
\* slashes at the end or dots in the middle (normpath before basename in save_model):
\* only "." and ".." at the end make the copy fail.
NamedDirectoriesPublish ==
  stage = "failed" =>
    LET last == SelectLastInSeq(directory, IsWord)
    IN last = 0 \/ directory[last] \in {".", ".."}
=============================================================================
