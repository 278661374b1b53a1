\* Two calls of Send, acknowledgements and reconnects, no heartbeats.
CONSTANTS
  c1 = c1  c2 = c2  ch1 = ch1  ch2 = ch2  t1 = t1
  Calls = {c1, c2}
  Channels = {ch1, ch2}
  Telegrams = {}
  SeqSpace = 2
  UseTCP = FALSE
  Faults <- AllFaults
  MaxConns = 3
  MaxAcks = 2
  MaxBeats = 0
  MaxBeatRes = 0
  MaxPushers = 0
  MaxDelivered = 0
  MaxNet = 0
SPECIFICATION OpenSpec
SYMMETRY Symmetry
INVARIANTS TypeOK SeqMuHeld AwaitsOwnNumber AwaitsOnThisConnection
CHECK_DEADLOCK FALSE
