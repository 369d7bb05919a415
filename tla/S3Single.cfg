\* One client with two models on S3; calls may fail at any step, the server may be restarted;
\* one artifact has a configuration, the other not, and no model more keys than a listing returns.
SPECIFICATION Spec
CONSTANTS
  uriA = uriA
  uriB = uriB
  uriC = uriC
  modelA = modelA
  modelB = modelB
  clientA = clientA
  clientB = clientB
  Backend = "s3"
  Names = {modelA, modelB}
  Uris = {uriA, uriB}
  TopFiles <- ConfigOnly
  Versions = {"1"}
  VersionNumber <- MCVersionNumber
  Flavor <- AllTriton
  Files <- OneConfigured
  GlobModel = {}
  Covered <- Unrelated
  Unmanaged = {}
  Clients = {clientA}
  ClientNames <- OneOwner
  MayFail = TRUE
  MayRestart = TRUE
  ListLimit = 3
INVARIANTS TypeOK Listable OkServesRequested DeleteRemovesModel
PROPERTY ImplementsUnreliableStore
