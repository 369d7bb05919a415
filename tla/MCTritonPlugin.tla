--------------------------- MODULE MCTritonPlugin ---------------------------
(* Small instances of TritonPlugin, and of the abstract stores it            *)
(* implements, for TLC.                                                      *)
EXTENDS TritonPluginStore, TLC

CONSTANTS
  uriA, uriB, uriC,      \* artifacts
  modelA, modelB,        \* model names
  clientA, clientB       \* clients

\* Top-level files an artifact may hold: a configuration, a file named model*.
ConfigOnly    == {"config.pbtxt"}
WithModelFile == {"config.pbtxt", "model_labels.txt"}
MCVersionNumber == [v \in Versions |-> IF v = "1" THEN 1 ELSE 2]

AllTriton   == [u \in Uris |-> "triton"]
LastIsOnnx  == [u \in Uris |-> IF u = uriC THEN "onnx" ELSE "triton"]

\* All artifacts have the same entries.
SameEntries == [u \in Uris |-> {"config.pbtxt", "1"}]
\* All artifacts have a version, the first a configuration as well.
OneConfigured == [u \in Uris |-> IF u = uriA THEN {"config.pbtxt", "1"} ELSE {"1"}]
\* The first artifact has a second version, the other has only the first.
FewerVersions == uriA :> {"config.pbtxt", "1", "2"} @@ uriB :> {"config.pbtxt", "1"}
\* The first artifact has all top-level files and only version 2, the second only
\* version 1, the third, an onnx model, brings no configuration.
Different == uriA :> TopFiles \cup {"2"} @@ uriB :> {"1"} @@ uriC :> {}
\* The first artifact is a whole triton model, the other an onnx model alone.
NoConfig == uriA :> {"config.pbtxt", "1"} @@ uriC :> {}

\* No name starts with another; or the second name starts with the first.
Unrelated == modelA :> {modelA} @@ modelB :> {modelB}
Related   == modelA :> {modelA, modelB} @@ modelB :> {modelB}

\* Who manages which name: one client both, one client one, two clients one each.
OneOwner  == clientA :> {modelA, modelB}
OneModel  == clientA :> {modelA}
TwoOwners == clientA :> {modelA} @@ clientB :> {modelB}
=============================================================================
