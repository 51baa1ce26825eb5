CONSTANTS
  Apps = {"weather", "desk", "clock"}
  Topics = {"cpu"}
  MaxSources = 2
  DeskSources = 0
  Pages = 2
  TaskIds = {t1}
  TaskOutlastsClose = FALSE
  Layout <- MCLayout
  Urls <- MCUrls
  Keys <- MCKeys
  FieldOf <- MCFieldOf
  Config = "name"
  Versions = {"v1", "v2"}
  PagesOf <- MCPagesOf
  Every = 1
  None = None
  Failed = Failed
SPECIFICATION Spec
INVARIANTS
  TypeOK
  SlicesOwned
  CachesOwned
  TaskAccounted
  AppWhileWriting
  ConfigWins
  PageRestored
