\* Four telegrams and a confirmation, clients that fail at any time, three restarts.
CONSTANTS
  Telegrams = {"a", "b", "c", "d", "con"}
  Origin <- MCOrigin
  Relayed <- MCRelayed
  MaxRestarts = 3
SPECIFICATION Spec
INVARIANTS TypeOK NoConnectionLeft RelayedOnce
PROPERTY Progress
CHECK_DEADLOCK FALSE
