----------------------------- MODULE MCPresence -----------------------------
(* Two tabs, or two operators: each tab may be either's.                      *)
EXTENDS Presence, TLC

CONSTANTS s1, s2, ann, bob, acme, gc

Interchangeable == Permutations({s1, s2}) \cup Permutations({ann, bob})

=============================================================================
