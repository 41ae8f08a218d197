CONSTANTS
  p1 = p1  p2 = p2  c1 = c1  c2 = c2
  Packet = {p1}
  Couriers = {c1, c2}
  PacketOrder <- MCPacketOrder
  NoPacket = NoPacket
  LeaseSeconds = 2
  RetryDelay = 3
  MaxStall = 1
  MaxObserved = 2
  MaxClock = 7
SPECIFICATION Spec
SYMMETRY CourierPerms
INVARIANTS
  SentMeansDelivered
  RepeatIsDelayed
PROPERTIES
  VerifiedIsSettled
