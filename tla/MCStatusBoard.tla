---------------------------- MODULE MCStatusBoard ----------------------------
(* A chain of three phases; the key of the final one comes first. *)
EXTENDS StatusBoard, TLC
CONSTANTS announce, build, check

MCKeyOrder == <<announce, build, check>>
MCDeps == announce :> {check} @@ build :> {} @@ check :> {build}

=============================================================================
