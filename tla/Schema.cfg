SPECIFICATION Spec
CONSTANTS
  Process = {p1, p2, p3}
  Latest = 5
  Binaries = {3, 5}
  Rerunnable <- MCRerunnable
INVARIANTS
  AdvertisedUnlessOvertaken
  RefusedOnlyIfOvertaken
PROPERTY
  ImplementsMigrations
CHECK_DEADLOCK FALSE
