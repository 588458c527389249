--------------------------- MODULE ArenaRecorders ---------------------------
(***************************************************************************)
(* The two recorders of the arena, match-intelligence (follow_sharp) and   *)
(* contrarian (fade_sharp): separate processes that each poll the feed on  *)
(* their own schedule, compare a selection's odds with those of their last *)
(* poll and append a position to their log when the move is sharp.         *)
(*                                                                         *)
(* A position line is taken to be written whole; is_retryable holds of no  *)
(* error these calls return, so any of them ends the process.  A snapshot  *)
(* of the feed may leave a selection out and is taken to quote none twice: *)
(* the code would take two rows of one selection for a move between polls, *)
(* on every poll again.                                                    *)
(***************************************************************************)
EXTENDS ArenaBoard

CONSTANTS
  MaxToolCalls,   \* BudgetGuard.max_tool_calls
  MaxSteps        \* StepCounter.max_steps

ASSUME RecorderAssumption ==
  MaxToolCalls \in Nat /\ MaxSteps \in Nat /\ IsFiniteSet(Fixtures)

VARIABLES
  rpc,     \* per recorder: "idle", "list", "odds" or "stopped"
  todo,    \* per recorder: fixtures of this step whose odds are to be fetched
  prev,    \* per recorder: prev_odds, as an index into odds; 0 is None
  calls,   \* per recorder: BudgetGuard.tool_calls
  steps,   \* per recorder: StepCounter.steps
  life     \* per recorder: restarts so far

recorderVars == <<rpc, todo, prev, calls, steps, life>>

NothingSeen == [k \in Keys |-> 0]

RecorderInit ==
  /\ rpc = [a \in Strategies |-> "idle"]
  /\ todo = [a \in Strategies |-> {}]
  /\ prev = [a \in Strategies |-> NothingSeen]
  /\ calls = [a \in Strategies |-> 0]
  /\ steps = [a \in Strategies |-> 0]
  /\ life = [a \in Strategies |-> 0]

(* move_pct >= threshold, and confidence = min(move_pct / 20, 0.95) passes *)
(* the gate.                                                               *)
Sharp(was, now) ==
  LET points == 100 * (IF now > was THEN now - was ELSE was - now)
  IN points >= Thresholds.move * was /\ 5 * points >= Thresholds.gate * was

(* Slip: both recorders follow. *)
DirectionFollowed(a, was, now) == IF now < was THEN "With" ELSE "Against"

(* The follower backs a selection whose odds shortened; the fader inverts. *)
Direction(a, was, now) ==
  IF (now < was) = (a = "follow_sharp") THEN "With" ELSE "Against"

(* What a selection's odds, as now fetched, make the recorder append. *)
NewPositions(a, k) ==
  LET now == Len(odds[k])
      was == prev[a][k]
  IN IF was # 0 /\ Sharp(odds[k][was], odds[k][now])
     THEN { [ strategy |-> a, key |-> k, from |-> was, to |-> now,
              direction |-> Direction(a, odds[k][was], odds[k][now]),
              uuid |-> <<life[a], steps[a]>> ] }
     ELSE {}

(* Slip: no safety check. *)
BeginStepUnchecked(a) ==
  /\ rpc[a] = "idle"
  /\ steps[a] < MaxSteps
  /\ rpc' = [rpc EXCEPT ![a] = "list"]
  /\ steps' = [steps EXCEPT ![a] = @ + 1]
  /\ calls' = [calls EXCEPT ![a] = @ + 1]
  /\ UNCHANGED <<todo, prev, life, boardVars>>

(* Safety check and step cap passed: the fetch of the list is counted. *)
BeginStep(a) ==
  /\ rpc[a] = "idle"
  /\ calls[a] < MaxToolCalls
  /\ steps[a] < MaxSteps
  /\ rpc' = [rpc EXCEPT ![a] = "list"]
  /\ steps' = [steps EXCEPT ![a] = @ + 1]
  /\ calls' = [calls EXCEPT ![a] = @ + 1]
  /\ UNCHANGED <<todo, prev, life, boardVars>>

FetchFixtures(a) ==
  /\ rpc[a] = "list"
  /\ todo' = [todo EXCEPT ![a] = Fixtures \ finished]
  /\ rpc' = [rpc EXCEPT ![a] = IF finished = Fixtures THEN "idle" ELSE "odds"]
  /\ UNCHANGED <<prev, calls, steps, life, boardVars>>

SelectionsOf(f) == {f} \X Names

NextAfter(a, f) == IF todo[a] = {f} THEN "idle" ELSE "odds"

(* One fixture's odds fetched, those quoted compared and remembered. *)
FetchOdds(a, f) ==
  /\ rpc[a] = "odds" /\ f \in todo[a]
  /\ calls' = [calls EXCEPT ![a] = @ + 1]
  /\ \E quoted \in SUBSET SelectionsOf(f) :
       /\ book' = book \cup UNION {NewPositions(a, k) : k \in quoted}
       /\ prev' = [prev EXCEPT ![a] = [k \in Keys |->
                     IF k \in quoted THEN Len(odds[k]) ELSE @[k]]]
  /\ todo' = [todo EXCEPT ![a] = @ \ {f}]
  /\ rpc' = [rpc EXCEPT ![a] = NextAfter(a, f)]
  /\ UNCHANGED <<steps, life, feedVars, faults>>

(* A request fails, or an append does after those before it succeeded. *)
RecorderFails(a) ==
  /\ rpc[a] \in {"list", "odds"}
  /\ Fault
  /\ rpc' = [rpc EXCEPT ![a] = "stopped"]
  /\ \/ rpc[a] = "list" /\ UNCHANGED <<calls, book>>
     \/ \E f \in todo[a] : \E done \in SUBSET SelectionsOf(f) :
          /\ calls' = [calls EXCEPT ![a] = @ + 1]
          /\ book' = book \cup UNION {NewPositions(a, k) : k \in done}
  /\ UNCHANGED <<todo, prev, steps, life, feedVars>>

(* The budget is spent, or its hour over; or the step cap is reached. *)
RecorderStops(a) ==
  /\ rpc[a] = "idle"
  /\ \/ (calls[a] >= MaxToolCalls \/ steps[a] >= MaxSteps) /\ UNCHANGED faults
     \/ Fault
  /\ rpc' = [rpc EXCEPT ![a] = "stopped"]
  /\ UNCHANGED <<todo, prev, calls, steps, life, feedVars, book>>

(* Slip: the odds of the previous life are still there, as if saved. *)
RecorderRestartsWithOdds(a) ==
  /\ Fault
  /\ rpc' = [rpc EXCEPT ![a] = "idle"]
  /\ todo' = [todo EXCEPT ![a] = {}]
  /\ calls' = [calls EXCEPT ![a] = 0]
  /\ steps' = [steps EXCEPT ![a] = 0]
  /\ life' = [life EXCEPT ![a] = @ + 1]
  /\ UNCHANGED <<prev, feedVars, book>>

(* Killed anywhere, or stopped, and started again: only the log remains. *)
RecorderRestarts(a) ==
  /\ Fault
  /\ rpc' = [rpc EXCEPT ![a] = "idle"]
  /\ todo' = [todo EXCEPT ![a] = {}]
  /\ prev' = [prev EXCEPT ![a] = NothingSeen]
  /\ calls' = [calls EXCEPT ![a] = 0]
  /\ steps' = [steps EXCEPT ![a] = 0]
  /\ life' = [life EXCEPT ![a] = @ + 1]
  /\ UNCHANGED <<feedVars, book>>

RecorderStep(a) ==
  \/ BeginStep(a) \/ FetchFixtures(a) \/ (\E f \in todo[a] : FetchOdds(a, f))
  \/ RecorderFails(a) \/ RecorderStops(a) \/ RecorderRestarts(a)

allRecorderVars == <<recorderVars, boardVars>>

RecorderNext ==
  \/ \E a \in Strategies : RecorderStep(a)
  \/ FeedStep /\ UNCHANGED recorderVars

RecordersStart == BoardInit /\ RecorderInit

RecorderSpec == RecordersStart /\ [][RecorderNext]_allRecorderVars
-----------------------------------------------------------------------------
(* Every variable holds a value of its type; a recorder that has read a    *)
(* selection's odds has read odds the feed has shown.                      *)
RecorderTypeOK ==
  /\ BoardTypeOK
  /\ rpc \in [Strategies -> {"idle", "list", "odds", "stopped"}]
  /\ todo \in [Strategies -> SUBSET Fixtures]
  /\ prev \in [Strategies -> [Keys -> Nat]]
  /\ \A a \in Strategies, k \in Keys : prev[a][k] <= Len(odds[k])
  /\ calls \in [Strategies -> Nat]
  /\ steps \in [Strategies -> 0..MaxSteps]
  /\ life \in [Strategies -> Nat]

(* No recorder takes two positions on the same move of a selection, across *)
(* steps, failures and restarts: the moves of its positions do not overlap *)
(* ("prevents double-recording if we crash and restart mid-step").         *)
MovesRecordedOnce ==
  \A p, q \in book :
    p.strategy = q.strategy /\ p.key = q.key /\ p # q =>
      p.to <= q.from \/ q.to <= p.from

(* The budget is checked once per step, so a recorder may exceed it, but   *)
(* by no more than the requests of one step.                               *)
OvershootBounded ==
  \A a \in Strategies : calls[a] <= MaxToolCalls + Cardinality(Fixtures)
=============================================================================
