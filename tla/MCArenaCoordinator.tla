------------------------- MODULE MCArenaCoordinator -------------------------
(* TLC instances of ArenaCoordinator.                                      *)
EXTENDS ArenaCoordinator

CONSTANTS f1, f2, home, away

DefaultThresholds == [move |-> 4, gate |-> 55]

Entry(a, f, d) ==
  [ strategy |-> a, key |-> <<f, home>>, direction |-> d, from |-> 1, to |-> 2,
    uuid |-> <<0, 2>> ]

(* The two sides of one move. *)
BothSides ==
  {Entry("follow_sharp", f1, "With"), Entry("fade_sharp", f1, "Against")}
=============================================================================
