----------------------------- MODULE MCBootstrap -----------------------------
(* Two roots and a phase that depends on both. *)
EXTENDS Bootstrap
CONSTANTS build, docs, release

MCPlan == <<build, docs, release>>
MCDeps == [p \in Phase |-> IF p = release THEN {build, docs} ELSE {}]

=============================================================================
