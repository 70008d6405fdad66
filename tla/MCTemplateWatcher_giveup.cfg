SPECIFICATION Spec
CONSTANTS
  h1 = h1
  h2 = h2
  NoHash = NoHash
  NoReply = NoReply
  NoTemplate = NoTemplate
  Hash <- Fork
  HeightOf <- ForkHeightOf
  Configs <- BaseNodeOnly
  HeightCheckSecs = 1
  TemplateTimeoutSecs = 1
  TemplateRefreshSecs = 2
  MaxTemplateFailures = 1
  MaxFaults = 4
  MaxVersion = 3
INVARIANT TemplateFailuresExit
