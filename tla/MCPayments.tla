----------------------------- MODULE MCPayments -----------------------------
(* Instances of Payments for TLC. *)
EXTENDS Payments, TLC

CONSTANTS r1, r2, p1, p2, v1, v2, f1, f2

MarketRow(f, period, ts, names, prices) ==
  [fixture |-> f, period |-> period, ts |-> ts,
   quotes |-> [i \in 1..3 |-> [name |-> names[i], price |-> prices[i]]]]

Score(f, home1, goals) == [fixture |-> f, participant1IsHome |-> home1, goals |-> goals]

Parts == <<"part1", "draw", "part2">>

(* The home odds shorten, are sent again, and drift; another market, fixture
   and a quote that pays nothing are in between.  The home side turns a match. *)
Turned ==
  << [odds |-> << MarketRow(f1, "none", 1, Parts, <<2000000, 3400000, 900>>),
                  MarketRow(f1, "et", 2, Parts, <<1000000, 3400000, 2750000>>),
                  MarketRow(f1, "ft", 3, <<"1", "x", "other">>, <<1800, 3400, 5000>>) >>,
      scores |-> << Score(f1, TRUE, <<0, 1>>), Score(f1, TRUE, << >>) >>],
     [odds |-> << MarketRow(f1, "ft", 5, Parts, <<1800000, 3400000, 2750000>>),
                  MarketRow(f2, "ft", 5, Parts, <<1500000, 3400000, 2750000>>),
                  MarketRow(f1, "ft", 6, Parts, <<2000000, 3450000, 2750000>>) >>,
      scores |-> << Score(f1, TRUE, <<2, 1>>), Score(f2, TRUE, <<0, 3>>) >>] >>

(* The rows arrive out of order and the second participant is at home. *)
Swapped ==
  << [odds |-> << MarketRow(f1, "none", 7, Parts, <<1500000, 3000000, 2600000>>) >>,
      scores |-> << Score(f1, FALSE, <<1, 1>>) >>],
     [odds |-> << MarketRow(f1, "none", 4, Parts, <<1500000, 3000000, 2000000>>) >>,
      scores |-> << Score(f1, FALSE, <<1, 2>>), Score(f1, TRUE, << >>) >>] >>

(* Nothing is sharp, and a history without a score. *)
Flat ==
  << [odds |-> << MarketRow(f1, "none", 1, Parts, <<2000000, 3000000, 2600000>>),
                  MarketRow(f1, "none", 2, Parts, <<2020000, 3010000, 2600000>>) >>,
      scores |-> << Score(f1, TRUE, <<0, 0>>) >>] >>

Unscored == << [odds |-> Turned[1].odds, scores |-> << >>] >>

(* While a round or a replay has the ledger, the steps that do not touch it wait:
   they commute with the holder's statements, and no property relates rows and
   intents. *)
HolderFirst ==
  lock \in {"round", "backtest"} => <<lock, rows, round, staged>>' # <<lock, rows, round, staged>>

VerifiersAlike == Permutations({v1, v2})

SomeHistories == {Turned, Swapped, Flat, Unscored}
=============================================================================
