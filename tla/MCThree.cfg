SPECIFICATION FairSpec
CONSTANTS
  n_devs = 3
  TIME_NEVER = 99
  sim_length = 5
  UINT32_MAX = 50
  P2G4_RXV2_MAX_ADDRESSES = 2
  MaxImmRssi = 1
  Requests <- ThreeRequests
  AbortReplies <- ThreeAborts
  HeaderReplies <- ThreeHeaders
INVARIANTS
  MaxTxNbrIsHighest
  RxFoundReadsItsTx
PROPERTIES
  TxDoneOnTime
  SearchTriesFirstFit
  SimulationEnds
  KeepsProtocol
