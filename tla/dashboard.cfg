CONSTANTS
  Server = {1, 2}
  PortOf <- MCPortOf
  ValidPort <- MCValidPort
  MaxEvents = 2
  OfflineAfter = 2
  MaxInFlight = 1
SPECIFICATION DashboardSpec
INVARIANTS
  DashboardInvariant
  SummaryIsBacked
PROPERTIES
  SummaryConverges
  GhostsVanish
