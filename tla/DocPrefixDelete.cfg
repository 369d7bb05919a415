\* Deleting on S3 a model whose name begins the name of another.
SPECIFICATION Spec
CONSTANTS
  uriA = uriA
  uriB = uriB
  uriC = uriC
  modelA = modelA
  modelB = modelB
  clientA = clientA
  clientB = clientB
  Backend = "s3"
  Names = {modelA, modelB}
  Uris = {uriA, uriB}
  TopFiles <- ConfigOnly
  Versions = {"1"}
  VersionNumber <- MCVersionNumber
  Flavor <- AllTriton
  Files <- SameEntries
  GlobModel = {}
  Covered <- Related
  Unmanaged = {}
  Clients = {clientA}
  ClientNames <- OneOwner
  MayFail = FALSE
  MayRestart = FALSE
  ListLimit = 1000
PROPERTY NoForeignEdit
