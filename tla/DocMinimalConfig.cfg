\* An onnx artifact without a configuration deployed on S3.
SPECIFICATION Spec
CONSTANTS
  uriA = uriA
  uriB = uriB
  uriC = uriC
  modelA = modelA
  modelB = modelB
  clientA = clientA
  clientB = clientB
  Backend = "s3"
  Names = {modelA, modelB}
  Uris = {uriA, uriC}
  TopFiles <- ConfigOnly
  Versions = {"1"}
  VersionNumber <- MCVersionNumber
  Flavor <- LastIsOnnx
  Files <- NoConfig
  GlobModel = {}
  Covered <- Unrelated
  Unmanaged = {}
  Clients = {clientA}
  ClientNames <- OneModel
  MayFail = FALSE
  MayRestart = FALSE
  ListLimit = 1000
INVARIANT MinimalConfigProvided
