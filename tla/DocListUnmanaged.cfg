\* Listing on S3 when a READY model has no metadata.
SPECIFICATION Spec
CONSTANTS
  uriA = uriA
  uriB = uriB
  uriC = uriC
  modelA = modelA
  modelB = modelB
  clientA = clientA
  clientB = clientB
  Backend = "s3"
  Names = {modelA, modelB}
  Uris = {uriA, uriB}
  TopFiles <- ConfigOnly
  Versions = {"1"}
  VersionNumber <- MCVersionNumber
  Flavor <- AllTriton
  Files <- SameEntries
  GlobModel = {}
  Covered <- Unrelated
  Unmanaged = {modelB}
  Clients = {clientA}
  ClientNames <- OneModel
  MayFail = FALSE
  MayRestart = FALSE
  ListLimit = 1000
INVARIANT ListNeverRaises
