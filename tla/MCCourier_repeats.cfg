CONSTANTS
  p1 = p1  p2 = p2  c1 = c1  c2 = c2
  Packet = {p1}
  Couriers = {c1}
  PacketOrder <- MCPacketOrder
  NoPacket = NoPacket
  LeaseSeconds = 2
  RetryDelay = 3
  MaxStall = 1
  MaxObserved = 2
  MaxClock = 5
SPECIFICATION Spec
PROPERTIES
  VerifiedDeliverySuppressesRepeats
