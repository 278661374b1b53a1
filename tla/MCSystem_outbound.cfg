\* Two calls, frames lost and repeated, timeouts, a reconnect to a new channel.
CONSTANTS
  c1 = c1  c2 = c2  ch1 = ch1  ch2 = ch2  ch3 = ch3
  Calls = {c1, c2}
  Channels = {ch1, ch2}
  Telegrams = {}
  SeqSpace = 3
  UseTCP = FALSE
  Faults <- Impatient
  MaxConns = 2
  MaxAcks = 2
  MaxBeats = 0
  MaxBeatRes = 0
  MaxPushers = 0
  MaxDelivered = 0
  MaxNet = 2
  ReuseChannels = FALSE
  MaxDrops = 1
SPECIFICATION SystemSpec
SYMMETRY Symmetry
INVARIANT ConfirmedUndisturbed
PROPERTY Delivers
CHECK_DEADLOCK FALSE
