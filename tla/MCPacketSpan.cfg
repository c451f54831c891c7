SPECIFICATION Spec
CONSTANTS
  n_devs = 2
  TIME_NEVER = 99
  sim_length = 6
  UINT32_MAX = 50
  P2G4_RXV2_MAX_ADDRESSES = 2
  MaxImmRssi = 0
  Requests <- InsideRequests
  AbortReplies <- ThreeAborts
  HeaderReplies <- ThreeHeaders
PROPERTIES
  PacketSpansAsAsked
