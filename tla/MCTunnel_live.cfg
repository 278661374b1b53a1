\* Termination of Send, Close and every goroutine, with reconnects that need seqMu.
CONSTANTS
  c1 = c1  c2 = c2  ch1 = ch1  ch2 = ch2  t1 = t1
  Calls = {c1, c2}
  Channels = {ch1}
  Telegrams = {}
  SeqSpace = 2
  UseTCP = FALSE
  Faults <- Patient
  MaxConns = 2
  MaxAcks = 1
  MaxBeats = 1
  MaxBeatRes = 1
  MaxPushers = 0
  MaxDelivered = 0
  MaxNet = 0
SPECIFICATION LiveSpec
PROPERTIES SendReturns CloseReturns GoroutinesEnd
CHECK_DEADLOCK FALSE
