--------------------------- MODULE MCDecisionRound ---------------------------
(* TLC instances of DecisionRound.                                         *)
EXTENDS DecisionRound

Quote(o, d) == [outcome |-> o, decimal |-> d]

Market == <<Quote("home", 24), Quote("draw", 33), Quote("away", 30)>>

(* A second quote of an outcome, and a price the ingest drops. *)
Doubled == <<Quote("home", 24), Quote("home", 11), Quote("draw", 33), Quote("away", 30)>>
Suspended == <<Quote("home", 24), Quote("draw", 10), Quote("away", 30)>>

Block(stream, words, keys, seq, fixture, quotes) ==
  [stream |-> stream, words |-> words, keys |-> keys, seq |-> seq,
   fixture |-> fixture, quotes |-> quotes, score |-> stream = "scores"]

SomeBlocks ==
  { Block("odds", {}, "numbers", 1, 1, Doubled),
    Block("odds", {}, "names", 0, 0, Suspended),
    Block("scores", {"goal", "final"}, "numerals", 1, 1, <<>>),
    Block("scores", {}, "numerals", 2, 1, <<>>),
    Block("scores", {"red_card"}, "names", 2, 1, <<>>),
    Block("scores", {"final"}, "numbers", 2, 1, <<>>) }

SomeSnapshots == {<<>>, Market}
SomeMoves == {Suspended}

(* The neutral inputs' distribution; one far from it; a certainty. *)
SomeDistributions ==
  { [home |-> 52, draw |-> 11, away |-> 37],
    [home |-> 44, draw |-> 21, away |-> 35],
    [home |-> 100, draw |-> 0, away |-> 0] }
=============================================================================
