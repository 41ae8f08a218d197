---- MODULE MCCourier ----
EXTENDS Courier, TLC
CONSTANTS p1, p2, c1, c2
CourierPerms == Permutations(Couriers)
MCPacketOrder == [p \in Packet |-> IF p = p1 THEN 1 ELSE 2]
====
