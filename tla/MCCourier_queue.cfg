CONSTANTS
  p1 = p1  p2 = p2  c1 = c1  c2 = c2
  Packet = {p1, p2}
  Couriers = {c1, c2}
  PacketOrder <- MCPacketOrder
  NoPacket = NoPacket
  LeaseSeconds = 1
  RetryDelay = 2
  MaxStall = 0
  MaxObserved = 1
  MaxClock = 3
SPECIFICATION Spec
SYMMETRY CourierPerms
INVARIANTS
  TypeOK
  OldestFirst
