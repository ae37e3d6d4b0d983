SPECIFICATION Spec
CONSTANTS
  Sessions = {1, 2, 3}
  Setups <- SmallSetups
  MAX_ADDR_TO_SEND = 2
  GET_RANDOM = 3
  ANNOUNCE_THRESHOLD = 1
  ANNOUNCE_QUEUE = 1
  ANNOUNCE_TO = 2
  MAX_ADDRS = 1
  MAX_LISTENS = 2
CHECK_DEADLOCK FALSE
INVARIANTS MessagesHoldTogether PortionsMakeNoDifference PlainIsRecognised EntriesMatchSessions PeersAreContent AddressesPassedOn
