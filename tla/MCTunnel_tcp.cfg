\* Heartbeats over TCP, with calls and messages of the gateway.
CONSTANTS
  c1 = c1  c2 = c2  ch1 = ch1  ch2 = ch2  t1 = t1
  Calls = {c1}
  Channels = {ch1, ch2}
  Telegrams = {t1}
  SeqSpace = 3
  UseTCP = TRUE
  Faults <- AllFaults
  MaxConns = 3
  MaxAcks = 0
  MaxBeats = 2
  MaxBeatRes = 1
  MaxPushers = 1
  MaxDelivered = 1
  MaxNet = 0
SPECIFICATION OpenSpec
PROPERTY HeartbeatOfThisConnection
CHECK_DEADLOCK FALSE
