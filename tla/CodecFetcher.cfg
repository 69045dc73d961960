CONSTANTS
  Manifest <- MCManifest
  Builtin <- MCBuiltin
  HaveEae = TRUE
  Unloadable = {"ac3e"}
  Foreign = {}
  Files <- MCFiles
  EaeFiles <- MCEaeFiles
  Binary = Binary
  Data = Data
  Loaders = {l1, l2}
  UpdateFetcher = UpdateFetcher
  Ids = {i1}
  Eae = Eae
  None = None
SPECIFICATION Spec
INVARIANTS
  FetchersAreSound
  ChoiceIsSound
PROPERTIES
  KeepsOrder
  KeepsItsPromise
