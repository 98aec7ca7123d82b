CONSTANTS
  ApiKey = {k}
  Anonymous = anon
  Everyone = all
  KeyCapacity = 2
  AnonymousCapacity = 1
  GlobalCapacity = 3
  Window = 2
  Stale = 2
  MaxTime = 5
SPECIFICATION LimiterSpec
INVARIANTS RateKept Recovers
PROPERTIES ImplementsThrottle
