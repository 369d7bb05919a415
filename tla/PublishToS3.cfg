\* Every spelling of an address, every spelling of a model directory.
SPECIFICATION Spec
CONSTANTS
  Hosts <- MCHosts
  Buckets <- MCBuckets
  Segments <- MCSegments
  Addresses <- MCAddresses
  FrontSlashes = {0, 1, 2}
  InnerSlashes = {1, 2, 3}
  EndSlashes <- EndsOnAws
  ModelPaths <- MCModelPaths
  TritonFiles <- MCTritonFiles
  OnnxFiles <- MCOnnxFiles
  Name = "model_1"
INVARIANTS AddressKept DeployedWhereServed DeleteEmpties NamedDirectoriesPublish
