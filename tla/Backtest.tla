------------------------------ MODULE Backtest ------------------------------
(***************************************************************************)
(* The replay of a fixture's odds: the hourly windows of the provider are  *)
(* parsed into 1X2 ticks, every sharp move between two ticks of an outcome *)
(* yields a position that follows and one that fades it, and both are      *)
(* settled by the last score the windows hold.                             *)
(*                                                                         *)
(* A history is the sequence of the windows as the provider answered; a    *)
(* window has market rows and score actions.  Odds and prices are in       *)
(* thousandths.  The narration, which changes no figure, is left out.      *)
(***************************************************************************)
EXTENDS Integers, Sequences, FiniteSets

CONSTANTS TriggerPct    \* config.odds_move_trigger_pct

ASSUME TriggerAssumption == TriggerPct \in Nat

OutcomeOf(name) ==
  CASE name \in {"part1", "home", "1"} -> "home"
    [] name \in {"draw", "x"}          -> "draw"
    [] name \in {"part2", "away", "2"} -> "away"
    [] OTHER                           -> "unknown"

(* A price of 100 or more is in milli-odds. *)
Decimal(price) == IF price >= 100000 THEN price \div 1000 ELSE price

(* parse_market_rows: the full-time match-winner market of one fixture; a
   quote of another name, or of odds that pay nothing, is passed over. *)
IsMatchWinner(row, f) ==
  row.fixture = f /\ row.period \in {"none", "ft"} /\ Len(row.quotes) = 3

(* The places - window, row, quote - at which f's market is quoted, in the first
   ten rows of a window (no history of an instance has more) ... *)
Places(history, f) ==
  {x \in (DOMAIN history) \X (1..10) \X (1..3) :
     /\ x[2] \in DOMAIN history[x[1]].odds
     /\ IsMatchWinner(history[x[1]].odds[x[2]], f)}

TickAt(history, x) ==
  LET row == history[x[1]].odds[x[2]]
  IN  [place |-> x, ts |-> row.ts, outcome |-> OutcomeOf(row.quotes[x[3]].name),
       odds |-> Decimal(row.quotes[x[3]].price)]

(* ... and the ticks there. *)
Ticks(history, f) ==
  {t \in {TickAt(history, x) : x \in Places(history, f)} :
     t.outcome # "unknown" /\ t.odds > 1000}

Lower(a, b) ==
  \/ a[1] < b[1]
  \/ a[1] = b[1] /\ a[2] < b[2]
  \/ a[1] = b[1] /\ a[2] = b[2] /\ a[3] < b[3]

(* The order of the stable sort by time. *)
Before(a, b) == a.ts < b.ts \/ (a.ts = b.ts /\ Lower(a.place, b.place))

(* last_seen: every tick of an outcome, sharp or not, is the next one's. *)
Earlier(ticks, t) == {u \in ticks : u.outcome = t.outcome /\ Before(u, t)}
Previous(ticks, t) ==
  CHOOSE u \in Earlier(ticks, t) : \A v \in Earlier(ticks, t) : v = u \/ Before(v, u)

(* compute_sharp_movement *)
IsSharp(previous, current) ==
  /\ current # previous
  /\ LET change == IF current > previous THEN current - previous ELSE previous - current
     IN  change * 100 >= TriggerPct * previous

Signals(ticks) ==
  {t \in ticks : Earlier(ticks, t) # {} /\ IsSharp(Previous(ticks, t).odds, t.odds)}

(* fetch_ticks_and_final_score keeps the last score of the last window that
   has one, whether or not the match is over. *)
Scored(history, f) ==
  { x \in (DOMAIN history) \X (1..10) :
      /\ x[2] \in DOMAIN history[x[1]].scores
      /\ history[x[1]].scores[x[2]].fixture = f
      /\ history[x[1]].scores[x[2]].goals # << >> }

HasScore(history, f) == Scored(history, f) # {}

LatestScore(history, f) ==
  LET last == CHOOSE x \in Scored(history, f) : \A y \in Scored(history, f) :
                y = x \/ y[1] < x[1] \/ (y[1] = x[1] /\ y[2] < x[2])
      action == history[last[1]].scores[last[2]]
  IN  IF action.participant1IsHome THEN action.goals ELSE <<action.goals[2], action.goals[1]>>

Winner(score) ==
  CASE score[1] > score[2] -> "home"
    [] score[1] < score[2] -> "away"
    [] OTHER               -> "draw"

(* Slip: fading a drift is against the outcome as well. *)
DirectionAgainst(strategy, shortened) ==
  IF shortened /\ strategy = "follow_sharp" THEN "With" ELSE "Against"

(* Shortening odds are money on the outcome. *)
DirectionOf(strategy, shortened) ==
  IF (strategy = "follow_sharp") <=> shortened THEN "With" ELSE "Against"

Strategies == {"follow_sharp", "fade_sharp"}

(* settle_position *)
SettlePosition(strategy, t, shortened, winner) ==
  LET direction == DirectionOf(strategy, shortened)
      won == (direction = "With") <=> (t.outcome = winner)
  IN  [place |-> t.place, strategy |-> strategy, selection |-> t.outcome,
       direction |-> direction, odds |-> t.odds, won |-> won,
       pnl |-> IF won THEN t.odds - 1000 ELSE -1000]

(* replay_fixture *)
ReplayFixture(history, f) ==
  LET ticks  == Ticks(history, f)
      winner == Winner(LatestScore(history, f))
  IN  { SettlePosition(strategy, t, t.odds < Previous(ticks, t).odds, winner) :
          strategy \in Strategies, t \in Signals(ticks) }

(* AgentLeaderboardEntry::from_positions, as far as the replay's tally goes. *)
Taken(positions, strategy) == Cardinality({p \in positions : p.strategy = strategy})
PositionsWon(positions, strategy) ==
  Cardinality({p \in positions : p.strategy = strategy /\ p.won})
=============================================================================
