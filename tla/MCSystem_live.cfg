\* A gateway that has forgotten the connection.
CONSTANTS
  c1 = c1  c2 = c2  ch1 = ch1  ch2 = ch2  ch3 = ch3
  Calls = {}
  Channels = {ch1, ch2}
  Telegrams = {}
  SeqSpace = 2
  UseTCP = FALSE
  Faults <- Patient
  MaxConns = 2
  MaxAcks = 0
  MaxBeats = 2
  MaxBeatRes = 2
  MaxPushers = 0
  MaxDelivered = 0
  MaxNet = 2
  ReuseChannels = FALSE
  MaxDrops = 1
SPECIFICATION SystemLiveSpec
PROPERTY LostConnectionNoticed
CHECK_DEADLOCK FALSE
