\* Telegrams from the gateway, repeated and lost, over two connections.
CONSTANTS
  c1 = c1  c2 = c2  ch1 = ch1  ch2 = ch2  ch3 = ch3
  Calls = {}
  Channels = {ch1, ch2}
  Telegrams = {1, 2, 3}
  SeqSpace = 3
  UseTCP = FALSE
  Faults <- Lossy
  MaxConns = 2
  MaxAcks = 0
  MaxBeats = 0
  MaxBeatRes = 0
  MaxPushers = 2
  MaxDelivered = 3
  MaxNet = 2
  ReuseChannels = FALSE
  MaxDrops = 1
SPECIFICATION SystemSpec
INVARIANT SystemTypeOK
PROPERTY Delivers
CHECK_DEADLOCK FALSE
