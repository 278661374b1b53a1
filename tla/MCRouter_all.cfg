\* Three messages and two reports of a loss; a send fails only on the closed socket.
CONSTANTS
  m1 = m1  m2 = m2  m3 = m3  t1 = t1
  Messages = {m1, m2, m3}
  Telegrams = {t1}
  RetainCount = 2
  SendMayFail = FALSE
  MaxLost = 2
  MaxCount = 3
  MaxTelegrams = 1
SPECIFICATION LiveSpec
INVARIANTS TypeOK NoCopies InOrderOfLastSend NothingSkipped
PROPERTIES FlowControl ServerGoesOn EverythingSent
CHECK_DEADLOCK FALSE
