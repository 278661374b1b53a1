\* Close while the client reconnects, no frame lost, no timer early.
CONSTANTS
  c1 = c1  c2 = c2  ch1 = ch1  ch2 = ch2  ch3 = ch3
  Calls = {c1}
  Channels = {ch1, ch2}
  Telegrams = {1}
  SeqSpace = 3
  UseTCP = FALSE
  Faults <- NoFaults
  MaxConns = 2
  MaxAcks = 1
  MaxBeats = 0
  MaxBeatRes = 0
  MaxPushers = 1
  MaxDelivered = 1
  MaxNet = 2
  ReuseChannels = FALSE
  MaxDrops = 1
SPECIFICATION SystemSpec
INVARIANT CloseDisconnects
CHECK_DEADLOCK FALSE
