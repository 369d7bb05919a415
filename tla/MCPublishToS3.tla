--------------------------- MODULE MCPublishToS3 ---------------------------
(* A small instance of PublishToS3 for TLC. *)
EXTENDS PublishToS3

Address(scheme, host, words) == [scheme |-> scheme, host |-> host, words |-> words]

\* On AWS: bucket, bucket with one and with two directories, nothing at all.  With an
\* endpoint of its own: each scheme, with and without directories.
MCAddresses ==
  {Address(<<>>, <<>>, w) :
     w \in {<<>>, <<"bucket">>, <<"bucket", "models">>, <<"bucket", "models", "v2.Old">>}} \cup
  {Address(s, <<"host:9000">>, w) :
     s \in {<<>>, Http, Https},
     w \in {<<"bucket">>, <<"bucket", "models">>, <<"bucket", "models", "v2.Old">>}}

\* Slashes at the end only where there is no endpoint; anywhere.
EndsOnAws    == [a \in MCAddresses |-> IF a.host = <<>> THEN 0..2 ELSE {0}]
EndsAnywhere == [a \in MCAddresses |-> 0..2]

MCHosts    == {"host:9000"}
MCBuckets  == {"bucket", "models"}
MCSegments == MCBuckets \cup {"v2.Old"}

\* model, model//, ./model/, /data/./model, ../model, data/../model/, ., .., model/.., /
MCModelPaths ==
  {<<"model">>, <<"model", Slash, Slash>>, <<".", Slash, "model", Slash>>,
   <<Slash, "data", Slash, ".", Slash, "model">>, <<"..", Slash, "model">>,
   <<"data", Slash, "..", Slash, "model", Slash>>, <<".">>, <<"..">>,
   <<"model", Slash, "..">>, <<Slash>>}

MCTritonFiles == {<<"config.pbtxt">>, <<"1", Slash, "model.graphdef">>}
MCOnnxFiles   == {<<"model.onnx">>, <<"config.pbtxt">>, <<"labels.txt">>}
=============================================================================
