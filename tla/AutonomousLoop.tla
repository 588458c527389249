--------------------------- MODULE AutonomousLoop ---------------------------
(***************************************************************************)
(* The autonomous live-trigger loop of the desktop: it polls the fixtures  *)
(* around their kickoff one after the other, compares each 1X2 price with  *)
(* the one of the last poll, and on a sharp move runs an intelligence      *)
(* round inline, at most one per fixture and hour.  Its memory is two maps *)
(* of the process; the user may switch it off and on at any time.          *)
(*                                                                         *)
(* What a round does is AgentRound; here it is under way or it is not.     *)
(***************************************************************************)
EXTENDS Integers, Sequences, FiniteSets, FiniteSetsExt

CONSTANTS
  Fixtures, Outcomes,
  Prices,                \* decimal odds a market shows, in hundredths
  TriggerPct,            \* config.odds_move_trigger_pct
  RetriggerInterval,     \* MIN_RETRIGGER_INTERVAL, in ticks of the clock
  MaxShown, MaxTime, MaxFaults   \* bounds of the instances

ASSUME LoopAssumption ==
  /\ Prices \subseteq Nat \ {0}
  /\ {TriggerPct, RetriggerInterval, MaxShown, MaxTime, MaxFaults} \subseteq Nat

VARIABLES
  market,         \* external: the prices each outcome has shown, oldest first
  time,           \* Instant::now, in ticks
  enabled,        \* DesktopState.autonomous_enabled
  lpc,            \* where the loop stands
  todo,           \* fixtures of the window not polled yet
  lastSeen,       \* autonomous_last_seen, as indices into market; 0 is absent
  lastTriggered,  \* autonomous_last_triggered; Never is absent
  turned,         \* history: outcomes that in this life were quoted at an older
                  \* price than the one remembered
  rounds,         \* the rounds triggered, in order
  life,           \* starts of the desktop
  faults          \* requests and rounds that failed, and restarts

vars == <<market, time, enabled, lpc, todo, lastSeen, lastTriggered, turned, rounds, life, faults>>

Quotes == Fixtures \X Outcomes
Never == -1

Fails == faults < MaxFaults /\ faults' = faults + 1

Init ==
  /\ market = [q \in Quotes |-> <<>>]
  /\ time = 0 /\ life = 1 /\ faults = 0
  /\ enabled \in BOOLEAN
  /\ lpc = "sleep" /\ todo = {}
  /\ lastSeen = [q \in Quotes |-> 0]
  /\ lastTriggered = [f \in Fixtures |-> Never]
  /\ turned = {} /\ rounds = <<>>

-----------------------------------------------------------------------------
(* The loop. *)

(* The sleep is over; a disabled loop sleeps again. *)
Wake ==
  /\ lpc = "sleep" /\ enabled
  /\ lpc' = "window"
  /\ UNCHANGED <<market, time, enabled, todo, lastSeen, lastTriggered, turned, rounds, life, faults>>

(* fetch_live_window_fixtures, and the cycle it fails with. *)
FetchWindow(live) ==
  /\ lpc = "window"
  /\ todo' = live /\ lpc' = "poll"
  /\ UNCHANGED <<market, time, enabled, lastSeen, lastTriggered, turned, rounds, life, faults>>

FetchWindowFails ==
  /\ lpc = "window" /\ Fails
  /\ lpc' = "sleep"
  /\ UNCHANGED <<market, time, enabled, todo, lastSeen, lastTriggered, turned, rounds, life>>

EndCycle ==
  /\ lpc = "poll" /\ todo = {}
  /\ lpc' = "sleep"
  /\ UNCHANGED <<market, time, enabled, todo, lastSeen, lastTriggered, turned, rounds, life, faults>>

(* A snapshot names, per outcome, the rows it carries, if any: it may lack *)
(* the newest, which a snapshot before it had.                             *)
Snapshots(f) ==
  { s \in [Outcomes -> SUBSET (1..MaxShown)] :
      \A o \in Outcomes : s[o] \subseteq 1..Len(market[<<f, o>>]) }

(* Slip: the first row of the snapshot is taken. *)
FirstPerOutcome(s, o) == Min(s[o])

(* latest_per_outcome *)
LatestPerOutcome(s, o) == Max(s[o])

Quoted(s) == {o \in Outcomes : s[o] # {}}

(* The move of an outcome since the last poll reaches the trigger. *)
IsSharp(f, s, o) ==
  /\ lastSeen[<<f, o>>] # 0
  /\ LET previous == market[<<f, o>>][lastSeen[<<f, o>>]]
         current  == market[<<f, o>>][LatestPerOutcome(s, o)]
         change   == IF current > previous THEN current - previous ELSE previous - current
     IN  change * 100 >= TriggerPct * previous

Triggers(f, s) == {o \in Quoted(s) : IsSharp(f, s, o)}

(* Slip: only what did not trigger becomes the new baseline. *)
BaselineQuiet(f, s) ==
  [ q \in Quotes |-> IF q[1] = f /\ q[2] \in Quoted(s) \ Triggers(f, s)
                        THEN LatestPerOutcome(s, q[2]) ELSE lastSeen[q] ]

(* Every quoted outcome becomes the new baseline, compared with nothing. *)
Baseline(f, s) ==
  [ q \in Quotes |-> IF q[1] = f /\ q[2] \in Quoted(s)
                        THEN LatestPerOutcome(s, q[2]) ELSE lastSeen[q] ]

(* It does so before the rate limit is looked at. *)
Remember(f, s) ==
  /\ lastSeen' = Baseline(f, s)
  /\ turned' = turned \cup {q \in Quotes : Baseline(f, s)[q] < lastSeen[q]}

Cooling(f) ==
  lastTriggered[f] # Never /\ time - lastTriggered[f] < RetriggerInterval

(* poll_fixture without a round: nothing quoted, nothing sharp, or too     *)
(* soon.                                                                   *)
PollQuietly(f, s) ==
  /\ lpc = "poll" /\ f \in todo
  /\ todo' = todo \ {f}
  /\ Triggers(f, s) = {} \/ Cooling(f)
  /\ Remember(f, s)
  /\ UNCHANGED <<market, time, enabled, lpc, lastTriggered, rounds, life, faults>>

(* Slip: the fixture is stamped with the start of the process. *)
StampZero(f) == lastTriggered' = [lastTriggered EXCEPT ![f] = 0]

(* The stamp comes before the round: a round that fails uses up the hour.  *)
Stamp(f) == lastTriggered' = [lastTriggered EXCEPT ![f] = time]

Round(f, s, o) ==
  [ life |-> life, fixture |-> f, outcome |-> o, at |-> time,
    from |-> lastSeen[<<f, o>>], to |-> LatestPerOutcome(s, o), turned |-> <<f, o>> \in turned ]

(* poll_fixture with a round, which the loop awaits; of several sharp      *)
(* outcomes the map's order picks one.                                     *)
TriggerRound(f, s) ==
  /\ lpc = "poll" /\ f \in todo
  /\ todo' = todo \ {f}
  /\ ~Cooling(f)
  /\ \E o \in Triggers(f, s) : rounds' = Append(rounds, Round(f, s, o))
  /\ Remember(f, s)
  /\ Stamp(f)
  /\ lpc' = "round"
  /\ UNCHANGED <<market, time, enabled, life, faults>>

(* One fixture's failure is logged and the next is polled. *)
PollFails(f) ==
  /\ lpc = "poll" /\ f \in todo /\ Fails
  /\ todo' = todo \ {f}
  /\ UNCHANGED <<market, time, enabled, lpc, lastSeen, lastTriggered, turned, rounds, life>>

(* The round returns, if it does: nothing limits how long it takes. *)
RoundReturns ==
  /\ lpc = "round"
  /\ lpc' = "poll"
  /\ UNCHANGED <<market, time, enabled, todo, lastSeen, lastTriggered, turned, rounds, life, faults>>

(* set_autonomous_loop_enabled: a cycle under way is not interrupted. *)
SetEnabled ==
  /\ enabled' = ~enabled
  /\ UNCHANGED <<market, time, lpc, todo, lastSeen, lastTriggered, turned, rounds, life, faults>>

(* The desktop is closed and started again: both maps start empty. *)
Restart ==
  /\ Fails /\ life' = life + 1
  /\ lpc' = "sleep" /\ todo' = {}
  /\ enabled' \in BOOLEAN
  /\ lastSeen' = [q \in Quotes |-> 0]
  /\ lastTriggered' = [f \in Fixtures |-> Never]
  /\ turned' = {}
  /\ UNCHANGED <<market, time, rounds>>

-----------------------------------------------------------------------------
(* External: the market shows a price, time passes. *)

Show(q, p) ==
  /\ Len(market[q]) < MaxShown
  /\ \A n \in {Len(market[q])} \ {0} : market[q][n] # p
  /\ market' = [market EXCEPT ![q] = Append(@, p)]
  /\ UNCHANGED <<time, enabled, lpc, todo, lastSeen, lastTriggered, turned, rounds, life, faults>>

TimePasses ==
  /\ time < MaxTime /\ time' = time + 1
  /\ UNCHANGED <<market, enabled, lpc, todo, lastSeen, lastTriggered, turned, rounds, life, faults>>

CycleStep ==
  \/ Wake \/ EndCycle
  \/ \E live \in SUBSET Fixtures : FetchWindow(live)
  \/ \E f \in Fixtures : \E s \in Snapshots(f) : PollQuietly(f, s) \/ TriggerRound(f, s)

LoopStep == CycleStep \/ RoundReturns

LoopNext ==
  \/ LoopStep
  \/ FetchWindowFails \/ Restart \/ SetEnabled \/ TimePasses
  \/ \E f \in Fixtures : PollFails(f)
  \/ \E q \in Quotes, p \in Prices : Show(q, p)

LoopSpec == Init /\ [][LoopNext]_vars

(* The loop's sleeps and requests end (the desktop's client gives up after *)
(* 10 seconds, lib.rs); a round need not.  The provider lists a fixture in *)
(* its window, and quotes every open market at its newest, again and       *)
(* again, if not in every snapshot.                                        *)
FullyQuoted(f) ==
  \E s \in Snapshots(f) :
    /\ \A o \in Outcomes : Len(market[<<f, o>>]) \in s[o] \/ market[<<f, o>>] = <<>>
    /\ PollQuietly(f, s) \/ TriggerRound(f, s)

LoopFairness ==
  /\ WF_vars(CycleStep)
  /\ SF_vars(FetchWindow(Fixtures))
  /\ \A f \in Fixtures : SF_vars(FullyQuoted(f))

LoopFairSpec == LoopSpec /\ LoopFairness

-----------------------------------------------------------------------------
(* Properties. *)

Rounds ==
  [ life : Nat, fixture : Fixtures, outcome : Outcomes, at : Nat, from : Nat, to : Nat,
    turned : BOOLEAN ]

(* Every variable has its type; fixtures are in hand only during a cycle,  *)
(* and no odds are remembered that the market has not shown.               *)
TypeOK ==
  /\ market \in [Quotes -> Seq(Prices)]
  /\ lastSeen \in [Quotes -> Nat] /\ \A q \in Quotes : lastSeen[q] <= Len(market[q])
  /\ time \in 0..MaxTime /\ faults \in 0..MaxFaults /\ life \in 1..(MaxFaults + 1)
  /\ enabled \in BOOLEAN
  /\ lpc \in {"sleep", "window", "poll", "round"}
  /\ todo \subseteq Fixtures /\ (todo # {} => lpc \in {"poll", "round"})
  /\ lastTriggered \in [Fixtures -> {Never} \cup 0..time]
  /\ turned \subseteq Quotes /\ rounds \in Seq(Rounds)

(* "One autonomously-triggered round per fixture per hour", of one process,*)
(* whether the rounds succeeded or not and however the loop was switched.  *)
OneRoundPerHour ==
  \A i, j \in DOMAIN rounds :
    /\ i < j /\ rounds[i].life = rounds[j].life /\ rounds[i].fixture = rounds[j].fixture
    => rounds[j].at - rounds[i].at >= RetriggerInterval

(* No movement sets off two rounds: the next round on an outcome is about  *)
(* what happened after the odds of the one before, however many polls the  *)
(* rate limit swallowed in between, unless a snapshot went back to an      *)
(* older price, from which the same movement is measured again.            *)
MovesTriggerOnce ==
  \A i, j \in DOMAIN rounds :
    /\ i < j /\ rounds[i].life = rounds[j].life
    /\ rounds[i].fixture = rounds[j].fixture /\ rounds[i].outcome = rounds[j].outcome
    => rounds[i].to <= rounds[j].from \/ rounds[j].turned

(* A loop that stays switched on looks at the newest price of every        *)
(* outcome again and again, whatever the rounds of other fixtures do and   *)
(* whatever fails in between, unless a round never returns.                *)
NoFixtureStarves ==
  <>[]enabled =>
    \/ <>[](lpc = "round")
    \/ \A q \in Quotes : []<>(lastSeen[q] = Len(market[q]))
=============================================================================
