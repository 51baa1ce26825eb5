CONSTANTS
  Dirs <- MCDirs
  BuiltIn = {"clock"}
  IdOf <- MCIdOf
  MaxApps = 2
  Catalogs <- MCCatalogs
  FetchDir = "desk"
  LockTimesOut = FALSE
  None = None
SPECIFICATION FairSpec
INVARIANTS
  TypeOK
  TilesFresh
PROPERTIES
  DeletesChosen
  UpdateConfirmed
  InstallListed
