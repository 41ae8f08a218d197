---- MODULE MCWakeLedger ----
EXTENDS WakeLedger, TLC
CONSTANTS i1, i2, r1, r2, t1, t2
RouterPerms == Permutations(Router)
TickerPerms == Permutations(Ticker)
\* i1 is critical, i2 a warning that sorts first by name.
MCSeverity == [i \in Incident |-> IF i = i1 THEN 0 ELSE 1]
MCIdOrder == [i \in Incident |-> IF i = i1 THEN 2 ELSE 1]
====
