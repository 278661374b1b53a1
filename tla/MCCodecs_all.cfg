\* Every service, message, datapoint type and address notation; small catalogs.
CONSTANTS
  NaN = NaN
  Services <- MCServices
  PeerPackets <- MCPeerPackets
  Values <- MCValues
  Payloads <- MCPayloads
  Texts <- MCTexts
  GroupTexts <- MCGroupTexts
  GroupAddrs <- MCAddrs
  PhysicalTexts <- MCGroupTexts
  PhysicalAddrs <- MCAddrs
  Documents <- MCDocuments
  Changes = {0, 4, 6, 128, 255}
SPECIFICATION Spec
INVARIANTS PacketsArrive CutIsNoTelegram AcceptedIsForwardable ValuesArrive
  TextsArrive AddressesArrive CatalogSurvives
CHECK_DEADLOCK FALSE
