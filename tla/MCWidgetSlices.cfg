CONSTANTS
  Apps = {"weather", "desk"}
  Topics = {}
  MaxSources = 1
  DeskSources = 1
  Pages = 1
  TaskIds = {t1, t2}
  TaskOutlastsClose = TRUE
  Layout <- MCLayout
  Urls <- MCUrls
  Keys <- MCKeys
  FieldOf <- MCFieldOf
  Config = "name"
  Versions = {"v1"}
  PagesOf <- MCPagesOf
  Every = 1
  None = None
  Failed = Failed
SPECIFICATION Spec
INVARIANT SlicesOwned
