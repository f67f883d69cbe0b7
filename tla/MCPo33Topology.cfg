SPECIFICATION TopologySpec
CONSTANTS
  PreambleBytes = 16
  RangeBytes = 1
  BlockBytes = 4
  MaxPayload = 3
  PacketsPerBlock = 2
  Packets <- MCPackets
  MaxPackets = 8
  Requests = {0, 2, 3, 5}
INVARIANTS SpansInOrder RecordsAreExact GrantedPlansAreUnambiguous PlansAgree
CHECK_DEADLOCK FALSE
