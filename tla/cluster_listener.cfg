CONSTANTS
  Server = {1, 2, 3}
  PortOf <- MCPortOf
  ValidPort <- MCValidPort
  MaxEvents = 2
SPECIFICATION ListenerSpec
INVARIANTS
  ListenerInvariant
  ReportIsConsistent
  RolesAreListed
  ListingIsCurrent
CHECK_DEADLOCK FALSE
