----------------------------- MODULE MCMovement -----------------------------
(* A lobby between two suites, cut out of the default town: the door of the   *)
(* left suite has its tile in the lobby, that of the right one in the suite.  *)
EXTENDS Movement, TLC

CONSTANTS a1, a2, s1, s2, suite_1, suite_3, lobby

MCStartupOf == a1 :> s1 @@ a2 :> s2
MCBounds == suite_1 :> <<0, 0, 2, 2>> @@ lobby :> <<2, 0, 2, 2>> @@ suite_3 :> <<4, 0, 2, 2>>
MCDoors == {[a |-> suite_1, b |-> lobby, tile |-> <<2, 0>>],
            [a |-> suite_3, b |-> lobby, tile |-> <<4, 0>>]}
MCHome == suite_1 :> <<0, 1>> @@ suite_3 :> <<5, 1>>
MCTargets == {<<0, 1>>, <<2, 0>>, <<3, 1>>, <<4, 0>>, <<5, 1>>}

\* TownLayout::default_town: its rooms and doors.
DefaultBounds ==
  [suite_1 |-> <<0, 0, 7, 6>>, suite_2 |-> <<0, 6, 7, 6>>, suite_3 |-> <<33, 0, 7, 6>>,
   suite_4 |-> <<33, 6, 7, 6>>, lobby |-> <<7, 4, 26, 4>>, cafe |-> <<7, 0, 26, 4>>,
   library |-> <<7, 8, 26, 4>>]
DefaultDoors ==
  {[a |-> "suite_1", b |-> "lobby", tile |-> <<7, 4>>],
   [a |-> "suite_2", b |-> "lobby", tile |-> <<7, 7>>],
   [a |-> "suite_3", b |-> "lobby", tile |-> <<33, 4>>],
   [a |-> "suite_4", b |-> "lobby", tile |-> <<33, 7>>],
   [a |-> "lobby", b |-> "cafe", tile |-> <<20, 4>>],
   [a |-> "lobby", b |-> "library", tile |-> <<20, 8>>]}

\* The default town is one the model is about.
ASSUME DefaultTownFits ==
  LET suites == {"suite_1", "suite_2", "suite_3", "suite_4"}
  IN  TownFits(DOMAIN DefaultBounds, suites, DefaultBounds, DefaultDoors)

=============================================================================
