\* Slashes typed after an address with an endpoint.
SPECIFICATION Spec
CONSTANTS
  Hosts <- MCHosts
  Buckets <- MCBuckets
  Segments <- MCSegments
  Addresses <- MCAddresses
  FrontSlashes = {0, 1, 2}
  InnerSlashes = {1, 2, 3}
  EndSlashes <- EndsAnywhere
  ModelPaths <- MCModelPaths
  TritonFiles <- MCTritonFiles
  OnnxFiles <- MCOnnxFiles
  Name = "model_1"
INVARIANT AddressKept
