\* Two clients with a model each on S3.
SPECIFICATION Spec
CONSTANTS
  uriA = uriA
  uriB = uriB
  uriC = uriC
  modelA = modelA
  modelB = modelB
  clientA = clientA
  clientB = clientB
  Backend = "s3"
  Names = {modelA, modelB}
  Uris = {uriA, uriB}
  TopFiles <- ConfigOnly
  Versions = {"1"}
  VersionNumber <- MCVersionNumber
  Flavor <- AllTriton
  Files <- SameEntries
  GlobModel = {}
  Covered <- Unrelated
  Unmanaged = {}
  Clients = {clientA, clientB}
  ClientNames <- TwoOwners
  MayFail = FALSE
  MayRestart = FALSE
  ListLimit = 1000
INVARIANTS OkServesRequested GetReportsDeployed PredictUsesServedTypes
PROPERTIES NoForeignEdit CreateSparesLiveModel ImplementsStore
