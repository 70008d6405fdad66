SPECIFICATION FairSpec
CONSTANTS
  d1 = d1
  c1 = c1
  c2 = c2
  Devices <- MCDevices
  Clients <- MCClients
  Rates <- MCRates
  Window = 2
  ShortWindow = 1
  MaxKept = 5
  Capacity = 2
  RequestCapacity = 1
  SamplesPerSecond = 2
  MaxTime = 5
INVARIANTS TypeOK AveragesExact WindowIsKept
PROPERTY EveryRequestEnds
