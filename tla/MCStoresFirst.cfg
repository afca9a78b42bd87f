CONSTANTS
  Services <- MCServices
  Sent <- MCSent
  Legacy <- MCLegacy
  Drivers <- AllDrivers
  PageSize = 2
SPECIFICATION StoreSpec
CHECK_DEADLOCK FALSE
INVARIANTS
  FirstEventListed
