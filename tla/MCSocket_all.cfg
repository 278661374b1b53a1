\* Every socket the repository makes, with its reader.
CONSTANTS
  Readers = {"server", "client", "describe", "discover"}
  MaxQueue = 3
  MaxResults = 3
SPECIFICATION Spec
INVARIANT TypeOK
PROPERTIES LookupReturns WorkerEndsUnlessStuck
CHECK_DEADLOCK FALSE
