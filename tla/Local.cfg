\* One client, triton artifacts and an onnx one in a local repository, a model it did not deploy;
\* calls may fail at any step, the server may be restarted.
SPECIFICATION FairSpec
CONSTANTS
  uriA = uriA
  uriB = uriB
  uriC = uriC
  modelA = modelA
  modelB = modelB
  clientA = clientA
  clientB = clientB
  Backend = "local"
  Names = {modelA, modelB}
  Uris = {uriA, uriB, uriC}
  TopFiles <- WithModelFile
  Versions = {"1", "2"}
  VersionNumber <- MCVersionNumber
  Flavor <- LastIsOnnx
  Files <- Different
  GlobModel = {"model_labels.txt"}
  Covered <- Related
  Unmanaged = {modelB}
  Clients = {clientA}
  ClientNames <- OneModel
  MayFail = TRUE
  MayRestart = TRUE
  ListLimit = 1000
INVARIANTS RepositoryIsArtifact MinimalConfigProvided
PROPERTIES CallsMoveOn EveryCallReturns
