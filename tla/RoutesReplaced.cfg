\* One side replaces its route twice, with every kind of interruption.
SPECIFICATION FairSpec
CONSTANTS
  Endpoints = {a, b}
  Rotating = {a}
  Packets = 2
  MaxRoutes = 3
  MaxExtras = 2
INVARIANTS AdvertisedIsServed TornDownAfterRevocation ReportedRoutesAreTornDown
PROPERTIES ReplacementEnds
CHECK_DEADLOCK FALSE
