----------------------------- MODULE ArenaBoard -----------------------------
(***************************************************************************)
(* What the processes of the agent-vs-agent arena share: the TxLINE feed   *)
(* they poll, which is external, and the position logs on disk.            *)
(*                                                                         *)
(* A position is written once and its UUID names it; here the recorder's   *)
(* life and step at the time stand for the UUID.  from and to say which    *)
(* odds it was taken on, as indices into the feed's history: the code      *)
(* keeps only the odds themselves, the properties compare the indices.     *)
(***************************************************************************)
EXTENDS Integers, FiniteSets, Sequences

CONSTANTS
  Fixtures,      \* fixture ids
  Names,         \* the selections of a fixture's market
  Winners,       \* what a result may name as the winner
  PartOf,        \* pairs: a selection's name contained in a winner's
  Odds,          \* the odds the feed shows, in any fixed unit
  NoResult,      \* Option::None where a result is expected
  Thresholds,    \* odds_move_threshold_pct and confidence_gate, both in %
  MaxMoves,      \* bound: odds a selection shows while it is live
  MaxFaults      \* bound: failed requests and writes, expiries, crashes

Strategies == {"follow_sharp", "fade_sharp"}
Directions == {"With", "Against"}
Keys == Fixtures \X Names

ASSUME BoardAssumption ==
  /\ NoResult \notin Winners
  /\ PartOf \subseteq Names \X Winners
  /\ Odds # {} /\ Odds \subseteq Nat \ {0}
  /\ Thresholds \in [move : Nat, gate : 0..95]
  /\ MaxMoves \in Nat \ {0}
  /\ MaxFaults \in Nat

VARIABLES
  odds,       \* per selection: the odds shown so far, the last one current
  finished,   \* the fixtures listed as finished
  winner,     \* per fixture: the winner its detail page shows, or NoResult
  book,       \* the positions in the recorders' logs
  faults

feedVars == <<odds, finished, winner>>
boardVars == <<feedVars, book, faults>>

Positions ==
  [ strategy : Strategies, key : Keys, direction : Directions,
    from : 1..MaxMoves, to : 1..MaxMoves, uuid : Nat \X Nat ]

BoardInit ==
  /\ \E o \in [Keys -> Odds] : odds = [k \in Keys |-> <<o[k]>>]
  /\ finished = {}
  /\ winner = [f \in Fixtures |-> NoResult]
  /\ book = {}
  /\ faults = 0

Fault == faults < MaxFaults /\ faults' = faults + 1

Last(s) == s[Len(s)]

OddsMove(k) ==
  /\ k[1] \notin finished
  /\ Len(odds[k]) < MaxMoves
  /\ \E o \in Odds \ {Last(odds[k])} : odds' = [odds EXCEPT ![k] = Append(@, o)]
  /\ UNCHANGED <<finished, winner, book, faults>>

Finish(f) ==
  /\ f \notin finished
  /\ finished' = finished \cup {f}
  /\ UNCHANGED <<odds, winner, book, faults>>

(* The detail page may show the result later than the list shows the end. *)
PostResult(f) ==
  /\ f \in finished /\ winner[f] = NoResult
  /\ \E n \in Winners : winner' = [winner EXCEPT ![f] = n]
  /\ UNCHANGED <<odds, finished, book, faults>>

FeedStep ==
  \/ \E k \in Keys : OddsMove(k)
  \/ \E f \in Fixtures : Finish(f) \/ PostResult(f)

BoardTypeOK ==
  /\ odds \in [Keys -> Seq(Odds)]
  /\ \A k \in Keys : Len(odds[k]) \in 1..MaxMoves
  /\ finished \subseteq Fixtures
  /\ winner \in [Fixtures -> Winners \cup {NoResult}]
  /\ book \subseteq Positions
  /\ faults \in 0..MaxFaults
=============================================================================
