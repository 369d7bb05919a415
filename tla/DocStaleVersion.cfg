\* Updating on S3 to an artifact with fewer versions.
SPECIFICATION Spec
CONSTANTS
  uriA = uriA
  uriB = uriB
  uriC = uriC
  modelA = modelA
  modelB = modelB
  clientA = clientA
  clientB = clientB
  Backend = "s3"
  Names = {modelA, modelB}
  Uris = {uriA, uriB}
  TopFiles <- ConfigOnly
  Versions = {"1", "2"}
  VersionNumber <- MCVersionNumber
  Flavor <- AllTriton
  Files <- FewerVersions
  GlobModel = {}
  Covered <- Unrelated
  Unmanaged = {}
  Clients = {clientA}
  ClientNames <- OneModel
  MayFail = FALSE
  MayRestart = FALSE
  ListLimit = 1000
INVARIANT OkServesRequested
