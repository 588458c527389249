------------------------------ MODULE WagerMath ------------------------------
(***************************************************************************)
(* The arithmetic of a wager: the Authority's ruling, the pundit's nudge   *)
(* and the guard's checks of the figures, with probabilities in hundredths *)
(* and decimal odds in tenths.  Fractions are pairs, so nothing rounds.    *)
(*                                                                         *)
(*   prob     model_prob                                                   *)
(*   implied  the odds market_implied inverts, 0 when it is 0              *)
(*   edge     the probability the edge was computed from, 0 when it is 0   *)
(*   fair     the probability fair_odds inverts, 0 when it is 0            *)
(*   stake    a fraction of num / den                                      *)
(*   ref      the attestation, as in WagerRules                            *)
(***************************************************************************)
EXTENDS Integers

Nothing == [num |-> 0, den |-> 1]

Positive(x) == x.num > 0
AtMost(x, y) == x.num * y.den <= y.num * x.den

MinEdge == 2

(* p - 1/o > MinEdge, both sides times 100 o *)
HasEdge(p, o) == (p - MinEdge) * o > 1000

(* kelly_fraction: (b p - q) / b with b = o - 1, for p in (0, 1), o > 1 *)
Kelly(p, o) == [num |-> p * o - 1000, den |-> 100 * (o - 10)]

(* A quarter of the Kelly fraction of a bankroll equal to the cap, and     *)
(* never more than the cap.                                                *)
Stake(p, o, cap) ==
  LET sized == [num |-> Kelly(p, o).num * cap, den |-> 4 * Kelly(p, o).den] IN
  IF AtMost(sized, [num |-> cap, den |-> 1]) THEN sized ELSE [num |-> cap, den |-> 1]

NoBet(w) == [w EXCEPT !.status = "NoBet", !.stake = Nothing]

(* authority::adjudicate: every figure but the probability is computed     *)
(* from it and from the market's odds.                                     *)
Adjudicate(w, o, cap) ==
  LET unpriced == [w EXCEPT !.implied = o, !.edge = 0]
      priced   == [w EXCEPT !.implied = o, !.edge = w.prob, !.fair = w.prob]
  IN
  IF o <= 10 THEN NoBet([w EXCEPT !.implied = 0, !.edge = 0])
  ELSE IF w.prob \notin 1..99 THEN NoBet(unpriced)
  ELSE IF ~HasEdge(w.prob, o) \/ ~Positive(Stake(w.prob, o, cap)) THEN NoBet(priced)
  ELSE [priced EXCEPT !.stake = Stake(w.prob, o, cap),
                      !.status = IF w.ref = "none" THEN "Debated" ELSE "ProofPassed"]

Proposed(p, ref) ==
  [prob |-> p, implied |-> 0, edge |-> 0, fair |-> 0, stake |-> Nothing,
   ref |-> ref, status |-> "Proposed"]

-----------------------------------------------------------------------------
(* The pundit's reaction. *)

Nudge(stance) ==
  CASE stance = "endorse" -> 3
    [] stance \in {"challenge", "no_bet"} -> -3
    [] OTHER -> 0

Clamp(lo, x, hi) == IF x < lo THEN lo ELSE IF x > hi THEN hi ELSE x

Nudged(w, stance) == [w EXCEPT !.prob = Clamp(1, w.prob + Nudge(stance), 99)]

(* Slip: the nudge is added to the figures already there, without a second *)
(* ruling.                                                                 *)
ReactInPlace(w, stance, cap) ==
  IF stance = "no_bet" THEN NoBet(w) ELSE Nudged(w, stance)

(* Slip: the override sets the status and forgets the stake. *)
ReactKeepsStake(w, stance, cap) ==
  LET updated == Adjudicate(Nudged(w, stance), w.implied, cap) IN
  IF stance = "no_bet" THEN [updated EXCEPT !.status = "NoBet"] ELSE updated

React(w, stance, cap) ==
  LET updated == Adjudicate(Nudged(w, stance), w.implied, cap) IN
  IF stance = "no_bet" THEN NoBet(updated) ELSE updated

-----------------------------------------------------------------------------
(* proof_guard::run_checks *)

ConsistencyTol == 2

Near(x, y) == x - y <= ConsistencyTol /\ y - x <= ConsistencyTol

Checks(w) ==
  [ probability |-> w.prob \in 1..99,
    edge  |-> w.implied > 10 /\ Near(w.edge, w.prob),
    fair  |-> w.prob > 0 => w.fair \in 1..99 /\ Near(w.fair, w.prob),
    stake |-> w.stake.num >= 0,
    proof |-> w.ref = "wellShaped" ]

FiguresHold(w) ==
  Checks(w).probability /\ Checks(w).edge /\ Checks(w).fair /\ Checks(w).stake
=============================================================================
