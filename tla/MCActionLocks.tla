---------------------------- MODULE MCActionLocks ----------------------------
(* Two consoles, two operators who may revoke each other, and the token of    *)
(* the environment; one task to force.                                        *)
EXTENDS ActionLocks, TLC

CONSTANTS s1, s2, ann, bob, env, t1

=============================================================================
