---------------------------- MODULE MCCronInstall ----------------------------
(* Two attempts, which only their nonces tell apart. *)
EXTENDS CronInstall, TLC

Alike == Permutations(Attempt)

=============================================================================
