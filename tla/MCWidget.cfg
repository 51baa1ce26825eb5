CONSTANTS
  Apps = {"weather"}
  Topics = {}
  MaxSources = 2
  DeskSources = 1
  Pages = 1
  TaskIds = {t1}
  TaskOutlastsClose = TRUE
  Layout <- MCLayout
  Urls <- MCUrls
  Keys <- MCKeys
  FieldOf <- MCFieldOf
  Config = "name"
  Versions = {"v1"}
  PagesOf <- MCPagesOf
  Every = 2
  None = None
  Failed = Failed
SPECIFICATION FairSpec
INVARIANTS
  ClosedIsClean
PROPERTIES
  AllServed
