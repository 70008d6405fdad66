SPECIFICATION FairSpec
CONSTANTS
  h1 = h1
  h2 = h2
  NoHash = NoHash
  NoReply = NoReply
  NoTemplate = NoTemplate
  Hash <- Fork
  HeightOf <- ForkHeightOf
  Configs <- AllConfigs
  HeightCheckSecs = 1
  TemplateTimeoutSecs = 1
  TemplateRefreshSecs = 2
  MaxTemplateFailures = 1
  MaxFaults = 2
  MaxVersion = 3
INVARIANTS TypeOK TemplateCoversTip TemplateAgeBounded GiveUpBounds StopsInTime
PROPERTIES SourceSpec Converges ShutdownStops
