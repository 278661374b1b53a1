\* Every program, over a tunnel that may end and a store that may fail.
CONSTANTS
  Inbound = {"response", "read", "device"}
  Frame <- MCFrame
  Programs = {"serve", "listen", "read", "send"}
  Groups <- MCGroups
  Requests = {1}
  Questions <- MCQuestions
  Target <- Lamp
  Polls = 2
  MayFail = {"send", "store"}
SPECIFICATION Spec
INVARIANTS TypeOK AnswerIsNew TimeoutIsSilence
PROPERTIES EventsRecorded RequestsReturn CommandReturns
CHECK_DEADLOCK FALSE
