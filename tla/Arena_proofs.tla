---------------------------- MODULE Arena_proofs ----------------------------
(***************************************************************************)
(* The safety of the arena - its recorders, its coordinator and the two    *)
(* together - proved for every feed, every budget and any number of        *)
(* failures and restarts.                                                  *)
(***************************************************************************)
EXTENDS Arena, FiniteSetTheorems, TLAPS

-----------------------------------------------------------------------------
(* The recorders' inductive invariant                                      *)

(* What a recorder that still runs remembers of a selection is at least as *)
(* recent as the last odds it recorded a position on, or nothing (it has   *)
(* been restarted).                                                        *)
MemoryCoversLog ==
  \A p \in book :
    \/ prev[p.strategy][p.key] >= p.to
    \/ prev[p.strategy][p.key] = 0
    \/ rpc[p.strategy] = "stopped"

(* Positions are on odds the feed has shown. *)
BookedMovesShown == \A p \in book : p.to <= Len(odds[p.key])

(* The requests a step still has to make, against the budget. *)
BudgetInv ==
  \A a \in Strategies :
    /\ rpc[a] \in {"idle", "list"} => todo[a] = {}
    /\ rpc[a] = "list" => calls[a] <= MaxToolCalls
    /\ rpc[a] # "stopped" =>
         calls[a] + Cardinality(todo[a]) <= MaxToolCalls + Cardinality(Fixtures)
    /\ calls[a] <= MaxToolCalls + Cardinality(Fixtures)

RInv ==
  /\ RecorderTypeOK
  /\ MemoryCoversLog
  /\ BookedMovesShown
  /\ MovesRecordedOnce
  /\ BudgetInv

-----------------------------------------------------------------------------
(* Recording                                                               *)

(* A recorder's new position starts at what it remembers and ends at what  *)
(* the feed shows.                                                         *)
LEMMA NewPosition ==
  ASSUME RecorderTypeOK, NEW a \in Strategies, NEW k \in Keys,
         NEW p \in NewPositions(a, k)
  PROVE  /\ p \in Positions
         /\ p.strategy = a /\ p.key = k
         /\ p.from = prev[a][k] /\ p.from # 0 /\ p.to = Len(odds[k])
<1>1. prev[a][k] \in Nat /\ prev[a][k] <= Len(odds[k]) /\ Len(odds[k]) \in 1..MaxMoves
  BY DEF RecorderTypeOK, BoardTypeOK
<1>2. life[a] \in Nat /\ steps[a] \in Nat
  BY RecorderAssumption DEF RecorderTypeOK
<1>3. MaxMoves \in Nat
  BY BoardAssumption
<1>4. prev[a][k] # 0
  BY DEF NewPositions
<1>5. p = [ strategy |-> a, key |-> k, from |-> prev[a][k], to |-> Len(odds[k]),
            direction |-> Direction(a, odds[k][prev[a][k]], odds[k][Len(odds[k])]),
            uuid |-> <<life[a], steps[a]>> ]
  BY <1>4 DEF NewPositions
<1>6. p.direction \in Directions
  BY <1>5 DEF Direction, Directions
<1>7. prev[a][k] \in 1..MaxMoves
  BY <1>1, <1>3, <1>4
<1> QED BY <1>1, <1>2, <1>4, <1>5, <1>6, <1>7 DEF Positions

(* Positions appended by a running recorder, at most one per selection,    *)
(* keep every move recorded once.                                          *)
LEMMA Booked ==
  ASSUME RInv, NEW a \in Strategies, NEW K \in SUBSET Keys,
         rpc[a] # "stopped",
         book' = book \cup UNION {NewPositions(a, k) : k \in K},
         odds' = odds
  PROVE  book' \subseteq Positions /\ MovesRecordedOnce' /\ BookedMovesShown'
<1> DEFINE New == UNION {NewPositions(a, k) : k \in K}
<1>1. \A p \in New :
        /\ p \in Positions /\ p.strategy = a /\ p.key \in K
        /\ p \in NewPositions(a, p.key)
        /\ p.from = prev[a][p.key] /\ p.from # 0 /\ p.to = Len(odds[p.key])
  <2> SUFFICES ASSUME NEW p \in New
               PROVE  /\ p \in Positions /\ p.strategy = a /\ p.key \in K
                      /\ p \in NewPositions(a, p.key)
                      /\ p.from = prev[a][p.key] /\ p.from # 0
                      /\ p.to = Len(odds[p.key])
    OBVIOUS
  <2>1. PICK k \in K : p \in NewPositions(a, k)
    OBVIOUS
  <2> QED BY <2>1, NewPosition DEF RInv
<1>2. book \subseteq Positions
  BY DEF RInv, RecorderTypeOK, BoardTypeOK
<1>3. BookedMovesShown'
  <2>1. \A k \in Keys : Len(odds[k]) \in Int
    BY DEF RInv, RecorderTypeOK, BoardTypeOK
  <2> QED BY <1>1, <2>1 DEF RInv, BookedMovesShown
<1>4. MovesRecordedOnce'
  <2> SUFFICES ASSUME NEW p \in book', NEW q \in book',
                      p.strategy = q.strategy, p.key = q.key, p # q
               PROVE  p.to <= q.from \/ q.to <= p.from
    BY DEF MovesRecordedOnce
  <2>1. ASSUME NEW x \in book, NEW y \in New, x.strategy = y.strategy, x.key = y.key
        PROVE  x.to <= y.from
    <3>1. x.strategy = a /\ prev[a][x.key] # 0
      BY <1>1, <2>1
    <3>2. prev[a][x.key] >= x.to
      BY <2>1, <3>1 DEF RInv, MemoryCoversLog
    <3>3. x \in Positions
      BY <1>2
    <3>4. x.to \in Int /\ x.key \in Keys
      BY <3>3 DEF Positions
    <3>5. prev[a][x.key] \in Int
      BY <3>4 DEF RInv, RecorderTypeOK
    <3> QED BY <1>1, <2>1, <3>2, <3>4, <3>5
  <2>2. CASE p \in book /\ q \in book
    BY <2>2 DEF RInv, MovesRecordedOnce
  <2>3. CASE p \in book /\ q \in New
    BY <2>1, <2>3
  <2>4. CASE p \in New /\ q \in book
    BY <2>1, <2>4
  <2>5. CASE p \in New /\ q \in New
    <3>1. p \in NewPositions(a, p.key) /\ q \in NewPositions(a, p.key)
      BY <1>1, <2>5
    <3>2. p = q
      BY <3>1 DEF NewPositions
    <3> QED BY <3>2
  <2> QED BY <2>2, <2>3, <2>4, <2>5
<1> QED BY <1>1, <1>2, <1>3, <1>4

-----------------------------------------------------------------------------
(* Initial states and steps                                                *)

(* Nothing is recorded, remembered or spent at the start. *)
LEMMA RecordersStartSafe == RecordersStart => RInv
<1> SUFFICES ASSUME BoardInit, RecorderInit PROVE RInv
  BY DEF RecordersStart
<1>1. Cardinality({}) = 0
  BY FS_EmptySet
<1>2. Cardinality(Fixtures) \in Nat /\ MaxToolCalls \in Nat /\ MaxSteps \in Nat
  BY RecorderAssumption, FS_CardinalityType
<1>3. BoardTypeOK
  <2>1. PICK o \in [Keys -> Odds] : odds = [k \in Keys |-> <<o[k]>>]
    BY DEF BoardInit
  <2>2. \A k \in Keys : <<o[k]>> \in Seq(Odds) /\ Len(<<o[k]>>) = 1
    OBVIOUS
  <2>3. odds \in [Keys -> Seq(Odds)] /\ \A k \in Keys : Len(odds[k]) = 1
    BY <2>1, <2>2
  <2> QED BY <2>3, BoardAssumption DEF BoardInit, BoardTypeOK
<1>4. RecorderTypeOK
  <2>1. \A k \in Keys : Len(odds[k]) \in Nat
    BY <1>3 DEF BoardTypeOK
  <2> QED BY <1>2, <1>3, <2>1 DEF RecorderInit, RecorderTypeOK, NothingSeen
<1>5. BudgetInv
  BY <1>1, <1>2 DEF RecorderInit, BudgetInv
<1>6. MemoryCoversLog /\ BookedMovesShown /\ MovesRecordedOnce
  BY DEF BoardInit, MemoryCoversLog, BookedMovesShown, MovesRecordedOnce
<1> QED BY <1>4, <1>5, <1>6 DEF RInv

(* A step that appends nothing and forgets nothing. *)
LEMMA NothingBooked ==
  ASSUME RInv, book' = book, odds' = odds, prev' = prev,
         \A a \in Strategies : rpc[a] = "stopped" => rpc'[a] = "stopped"
  PROVE  MemoryCoversLog' /\ BookedMovesShown' /\ MovesRecordedOnce'
<1>1. \A p \in book : p.strategy \in Strategies
  BY DEF RInv, RecorderTypeOK, BoardTypeOK, Positions
<1> QED BY <1>1 DEF RInv, MemoryCoversLog, BookedMovesShown, MovesRecordedOnce

(* A step begins within the budget. *)
LEMMA BeginStepInv ==
  ASSUME RInv, NEW a \in Strategies, BeginStep(a) PROVE RInv'
<1>1. RecorderTypeOK'
  BY RecorderAssumption
  DEF RInv, BeginStep, RecorderTypeOK, BoardTypeOK, boardVars, feedVars
<1>2. BudgetInv'
  <2>1. todo[a] = {} /\ Cardinality({}) = 0
    BY FS_EmptySet DEF RInv, BudgetInv, BeginStep
  <2>2. Cardinality(Fixtures) \in Nat /\ MaxToolCalls \in Nat
    BY RecorderAssumption, FS_CardinalityType
  <2>3. calls[a] + 1 <= MaxToolCalls
    BY <2>2 DEF RInv, RecorderTypeOK, BeginStep
  <2>4. \A b \in Strategies :
          /\ b # a => rpc'[b] = rpc[b] /\ calls'[b] = calls[b]
          /\ todo'[b] = todo[b]
    BY DEF RInv, RecorderTypeOK, BeginStep
  <2>5. rpc'[a] = "list" /\ calls'[a] = calls[a] + 1 /\ calls'[a] \in Nat
    BY DEF RInv, RecorderTypeOK, BeginStep
  <2> QED BY <2>1, <2>2, <2>3, <2>4, <2>5 DEF RInv, BudgetInv
<1>3. MemoryCoversLog' /\ BookedMovesShown' /\ MovesRecordedOnce'
  BY NothingBooked DEF BeginStep, boardVars, feedVars, RInv, RecorderTypeOK
<1> QED BY <1>1, <1>2, <1>3 DEF RInv

(* A step asks for each live fixture at most once. *)
LEMMA FetchFixturesInv ==
  ASSUME RInv, NEW a \in Strategies, FetchFixtures(a) PROVE RInv'
<1>1. RecorderTypeOK'
  BY DEF RInv, FetchFixtures, RecorderTypeOK, BoardTypeOK, boardVars, feedVars
<1>2. BudgetInv'
  <2>1. Cardinality(Fixtures) \in Nat /\ MaxToolCalls \in Nat
    BY RecorderAssumption, FS_CardinalityType
  <2>2. /\ Cardinality(Fixtures \ finished) \in Nat
        /\ Cardinality(Fixtures \ finished) <= Cardinality(Fixtures)
    BY RecorderAssumption, FS_Subset, FS_CardinalityType
  <2>3. \A b \in Strategies :
          /\ b # a => rpc'[b] = rpc[b] /\ todo'[b] = todo[b]
          /\ calls'[b] = calls[b]
    BY DEF RInv, RecorderTypeOK, FetchFixtures
  <2>4. /\ todo'[a] = Fixtures \ finished
        /\ rpc'[a] \in {"idle", "odds"}
        /\ rpc'[a] = "idle" => todo'[a] = {}
    BY DEF RInv, RecorderTypeOK, FetchFixtures
  <2>5. calls[a] <= MaxToolCalls /\ calls[a] \in Nat
    BY DEF RInv, BudgetInv, FetchFixtures, RecorderTypeOK
  <2>6. /\ calls[a] + Cardinality(todo'[a]) <= MaxToolCalls + Cardinality(Fixtures)
        /\ calls[a] <= MaxToolCalls + Cardinality(Fixtures)
    BY <2>1, <2>2, <2>4, <2>5
  <2> QED BY <2>3, <2>4, <2>6 DEF RInv, BudgetInv
<1>3. MemoryCoversLog' /\ BookedMovesShown' /\ MovesRecordedOnce'
  BY NothingBooked DEF FetchFixtures, boardVars, feedVars, RInv, RecorderTypeOK
<1> QED BY <1>1, <1>2, <1>3 DEF RInv

(* The moves just recorded are remembered before the next request. *)
LEMMA FetchOddsInv ==
  ASSUME RInv, NEW a \in Strategies, NEW f \in todo[a], FetchOdds(a, f)
  PROVE  RInv'
<1>1. f \in Fixtures /\ todo[a] \in SUBSET Fixtures
  BY DEF RInv, RecorderTypeOK
<1>0. PICK quoted \in SUBSET SelectionsOf(f) :
        /\ book' = book \cup UNION {NewPositions(a, k) : k \in quoted}
        /\ prev' = [prev EXCEPT ![a] = [k \in Keys |->
                      IF k \in quoted THEN Len(odds[k]) ELSE @[k]]]
  BY Zenon DEF FetchOdds
<1>2. book' \subseteq Positions /\ MovesRecordedOnce' /\ BookedMovesShown'
  <2>1. quoted \in SUBSET Keys
    BY <1>1 DEF SelectionsOf, Keys
  <2> QED BY <1>0, <2>1, Booked DEF FetchOdds, feedVars
<1>3. /\ \A k \in Keys : prev'[a][k] = IF k \in quoted THEN Len(odds[k]) ELSE prev[a][k]
      /\ \A b \in Strategies : b # a => prev'[b] = prev[b]
  BY <1>0 DEF RInv, RecorderTypeOK
<1>4. RecorderTypeOK'
  <2>1. BoardTypeOK'
    BY <1>2 DEF FetchOdds, feedVars, RInv, RecorderTypeOK, BoardTypeOK
  <2>2. \A k \in Keys : Len(odds[k]) \in Nat
    BY DEF RInv, RecorderTypeOK, BoardTypeOK
  <2>3. prev' \in [Strategies -> [Keys -> Nat]]
    BY <1>0, <2>2 DEF RInv, RecorderTypeOK
  <2>4. \A b \in Strategies, k \in Keys : prev'[b][k] <= Len(odds'[k])
    BY <1>3, <2>2 DEF FetchOdds, feedVars, RInv, RecorderTypeOK
  <2>5. /\ rpc' \in [Strategies -> {"idle", "list", "odds", "stopped"}]
        /\ todo' \in [Strategies -> SUBSET Fixtures]
        /\ calls' \in [Strategies -> Nat]
        /\ steps' = steps /\ life' = life
    BY DEF FetchOdds, NextAfter, RInv, RecorderTypeOK
  <2> QED BY <2>1, <2>3, <2>4, <2>5 DEF RInv, RecorderTypeOK
<1>5. MemoryCoversLog'
  <2> SUFFICES ASSUME NEW p \in book'
               PROVE  \/ prev'[p.strategy][p.key] >= p.to
                      \/ prev'[p.strategy][p.key] = 0
                      \/ rpc'[p.strategy] = "stopped"
    BY DEF MemoryCoversLog
  <2>1. p \in Positions
    BY <1>2
  <2>2. p.strategy \in Strategies /\ p.key \in Keys /\ p.to \in Int
    BY <2>1 DEF Positions
  <2>3. CASE p.strategy = a /\ p.key \in quoted
    <3>1. p.to <= Len(odds[p.key])
      BY <1>2 DEF BookedMovesShown, FetchOdds, feedVars
    <3>2. Len(odds[p.key]) \in Int
      BY <2>2 DEF RInv, RecorderTypeOK, BoardTypeOK
    <3> QED BY <1>3, <2>2, <2>3, <3>1, <3>2
  <2>4. CASE ~(p.strategy = a /\ p.key \in quoted)
    <3>1. p \in book
      <4>1. ASSUME NEW k \in quoted, p \in NewPositions(a, k)
            PROVE  FALSE
        <5>1. k \in Keys
          BY <1>1 DEF SelectionsOf, Keys
        <5>2. p.strategy = a /\ p.key = k
          BY <4>1, <5>1, NewPosition DEF RInv
        <5> QED BY <2>4, <5>1, <5>2
      <4> QED BY <1>0, <4>1
    <3>2. prev'[p.strategy][p.key] = prev[p.strategy][p.key]
      BY <1>3, <2>2, <2>4
    <3>3. rpc[p.strategy] = "stopped" => rpc'[p.strategy] = "stopped"
      BY <2>2 DEF FetchOdds, RInv, RecorderTypeOK
    <3> QED BY <3>1, <3>2, <3>3 DEF RInv, MemoryCoversLog
  <2> QED BY <2>3, <2>4
<1>6. BudgetInv'
  <2>1. Cardinality(Fixtures) \in Nat /\ MaxToolCalls \in Nat
    BY RecorderAssumption, FS_CardinalityType
  <2>2. IsFiniteSet(todo[a])
    BY <1>1, RecorderAssumption, FS_Subset
  <2>3. /\ Cardinality(todo[a]) \in Nat
        /\ Cardinality(todo[a] \ {f}) = Cardinality(todo[a]) - 1
        /\ Cardinality(todo[a] \ {f}) \in Nat
    BY <2>2, FS_CardinalityType, FS_RemoveElement
  <2>4. \A b \in Strategies :
          b # a => rpc'[b] = rpc[b] /\ todo'[b] = todo[b] /\ calls'[b] = calls[b]
    BY DEF RInv, RecorderTypeOK, FetchOdds
  <2>5. /\ todo'[a] = todo[a] \ {f} /\ calls'[a] = calls[a] + 1
        /\ rpc'[a] \in {"idle", "odds"}
        /\ rpc'[a] = "idle" => todo'[a] = {}
    BY DEF RInv, RecorderTypeOK, FetchOdds, NextAfter
  <2>6. /\ calls[a] + Cardinality(todo[a]) <= MaxToolCalls + Cardinality(Fixtures)
        /\ calls[a] \in Nat
    BY DEF RInv, BudgetInv, FetchOdds, RecorderTypeOK
  <2>7. /\ calls'[a] + Cardinality(todo'[a]) <= MaxToolCalls + Cardinality(Fixtures)
        /\ calls'[a] <= MaxToolCalls + Cardinality(Fixtures)
    BY <2>1, <2>3, <2>5, <2>6
  <2> QED BY <2>4, <2>5, <2>7 DEF RInv, BudgetInv
<1> QED BY <1>2, <1>4, <1>5, <1>6 DEF RInv

(* A failure may leave moves recorded and not remembered, and ends the     *)
(* process.                                                                *)
LEMMA RecorderFailsInv ==
  ASSUME RInv, NEW a \in Strategies, RecorderFails(a) PROVE RInv'
<1>1. todo[a] \in SUBSET Fixtures
  BY DEF RInv, RecorderTypeOK
<1>2. /\ rpc' = [rpc EXCEPT ![a] = "stopped"]
      /\ odds' = odds /\ prev' = prev /\ todo' = todo /\ steps' = steps
      /\ life' = life /\ finished' = finished /\ winner' = winner
      /\ faults' \in 0..MaxFaults
  BY BoardAssumption
  DEF RecorderFails, Fault, feedVars, RInv, RecorderTypeOK, BoardTypeOK
<1>3. CASE rpc[a] = "list" /\ calls' = calls /\ book' = book
  <2>1. MemoryCoversLog' /\ BookedMovesShown' /\ MovesRecordedOnce'
    BY <1>2, <1>3, NothingBooked DEF RInv, RecorderTypeOK
  <2>2. RecorderTypeOK'
    BY <1>2, <1>3 DEF RInv, RecorderTypeOK, BoardTypeOK
  <2>3. BudgetInv'
    BY <1>2, <1>3 DEF RInv, BudgetInv, RecorderTypeOK
  <2> QED BY <2>1, <2>2, <2>3 DEF RInv
<1>4. ASSUME NEW f \in todo[a], NEW done \in SUBSET SelectionsOf(f),
             calls' = [calls EXCEPT ![a] = @ + 1],
             book' = book \cup UNION {NewPositions(a, k) : k \in done}
      PROVE  RInv'
  <2>1. done \in SUBSET Keys
    BY <1>1 DEF SelectionsOf, Keys
  <2>2. rpc[a] # "stopped"
    BY DEF RecorderFails
  <2>3. book' \subseteq Positions /\ MovesRecordedOnce' /\ BookedMovesShown'
    BY <1>2, <1>4, <2>1, <2>2, Booked
  <2>4. RecorderTypeOK'
    BY <1>2, <1>4, <2>3 DEF RInv, RecorderTypeOK, BoardTypeOK
  <2>5. MemoryCoversLog'
    <3> SUFFICES ASSUME NEW p \in book', p.strategy # a
                 PROVE  \/ prev[p.strategy][p.key] >= p.to
                        \/ prev[p.strategy][p.key] = 0
                        \/ rpc[p.strategy] = "stopped"
      <4>1. rpc'[a] = "stopped" /\ \A b : b # a => rpc'[b] = rpc[b]
        BY <1>2 DEF RInv, RecorderTypeOK
      <4> QED BY <1>2, <4>1 DEF MemoryCoversLog
    <3>1. p \in book
      <4>1. ASSUME NEW k \in done, p \in NewPositions(a, k) PROVE FALSE
        BY <2>1, <4>1, NewPosition DEF RInv
      <4> QED BY <1>4, <4>1
    <3> QED BY <3>1 DEF RInv, MemoryCoversLog
  <2>6. BudgetInv'
    <3>1. Cardinality(Fixtures) \in Nat /\ MaxToolCalls \in Nat
      BY RecorderAssumption, FS_CardinalityType
    <3>2. IsFiniteSet(todo[a])
      BY <1>1, RecorderAssumption, FS_Subset
    <3>3. Cardinality(todo[a]) \in Nat /\ Cardinality(todo[a]) # 0
      BY <3>2, FS_CardinalityType, FS_EmptySet
    <3>4. calls[a] + Cardinality(todo[a]) <= MaxToolCalls + Cardinality(Fixtures)
      BY <2>2 DEF RInv, BudgetInv
    <3>5. calls[a] \in Nat /\ calls'[a] = calls[a] + 1 /\ rpc'[a] = "stopped"
      BY <1>2, <1>4 DEF RInv, RecorderTypeOK
    <3>6. calls'[a] <= MaxToolCalls + Cardinality(Fixtures)
      BY <3>1, <3>3, <3>4, <3>5
    <3>7. \A b \in Strategies : b # a => rpc'[b] = rpc[b] /\ calls'[b] = calls[b]
      BY <1>2, <1>4 DEF RInv, RecorderTypeOK
    <3> QED BY <1>2, <3>5, <3>6, <3>7 DEF RInv, BudgetInv
  <2> QED BY <2>3, <2>4, <2>5, <2>6 DEF RInv
<1> QED BY <1>3, <1>4 DEF RecorderFails

(* A recorder that stops records nothing. *)
LEMMA RecorderStopsInv ==
  ASSUME RInv, NEW a \in Strategies, RecorderStops(a) PROVE RInv'
<1>1. /\ rpc' = [rpc EXCEPT ![a] = "stopped"]
      /\ UNCHANGED <<todo, prev, calls, steps, life, odds, finished, winner, book>>
      /\ faults' \in 0..MaxFaults
  BY BoardAssumption
  DEF RecorderStops, Fault, feedVars, RInv, RecorderTypeOK, BoardTypeOK
<1>2. RecorderTypeOK'
  BY <1>1 DEF RInv, RecorderTypeOK, BoardTypeOK
<1>3. BudgetInv'
  BY <1>1 DEF RInv, BudgetInv, RecorderTypeOK
<1>4. MemoryCoversLog' /\ BookedMovesShown' /\ MovesRecordedOnce'
  BY <1>1, NothingBooked DEF RInv, RecorderTypeOK
<1> QED BY <1>2, <1>3, <1>4 DEF RInv

(* A restart forgets the odds, and with them every move half seen. *)
LEMMA RecorderRestartsInv ==
  ASSUME RInv, NEW a \in Strategies, RecorderRestarts(a) PROVE RInv'
<1>1. /\ rpc' = [rpc EXCEPT ![a] = "idle"]
      /\ todo' = [todo EXCEPT ![a] = {}]
      /\ prev' = [prev EXCEPT ![a] = NothingSeen]
      /\ calls' = [calls EXCEPT ![a] = 0]
      /\ steps' = [steps EXCEPT ![a] = 0]
      /\ life' = [life EXCEPT ![a] = @ + 1]
      /\ UNCHANGED <<odds, finished, winner, book>>
      /\ faults' \in 0..MaxFaults
  BY BoardAssumption
  DEF RecorderRestarts, Fault, feedVars, RInv, RecorderTypeOK, BoardTypeOK
<1>2. RecorderTypeOK'
  <2>1. BoardTypeOK'
    BY <1>1 DEF RInv, RecorderTypeOK, BoardTypeOK
  <2>2. \A k \in Keys : NothingSeen[k] = 0 /\ Len(odds[k]) \in Nat
    BY DEF NothingSeen, RInv, RecorderTypeOK, BoardTypeOK
  <2>3. NothingSeen \in [Keys -> Nat]
    BY DEF NothingSeen
  <2>4. prev' \in [Strategies -> [Keys -> Nat]]
    BY <1>1, <2>3 DEF RInv, RecorderTypeOK
  <2>5. \A b \in Strategies, k \in Keys : prev'[b][k] <= Len(odds'[k])
    BY <1>1, <2>2 DEF RInv, RecorderTypeOK
  <2>6. /\ rpc' \in [Strategies -> {"idle", "list", "odds", "stopped"}]
        /\ todo' \in [Strategies -> SUBSET Fixtures]
        /\ calls' \in [Strategies -> Nat]
        /\ steps' \in [Strategies -> 0..MaxSteps]
        /\ life' \in [Strategies -> Nat]
    BY <1>1, RecorderAssumption DEF RInv, RecorderTypeOK
  <2> QED BY <2>1, <2>4, <2>5, <2>6 DEF RecorderTypeOK
<1>3. BudgetInv'
  <2>1. Cardinality({}) = 0 /\ Cardinality(Fixtures) \in Nat /\ MaxToolCalls \in Nat
    BY RecorderAssumption, FS_EmptySet, FS_CardinalityType
  <2>2. rpc'[a] = "idle" /\ todo'[a] = {} /\ calls'[a] = 0
    BY <1>1 DEF RInv, RecorderTypeOK
  <2>3. \A b \in Strategies :
          b # a => rpc'[b] = rpc[b] /\ todo'[b] = todo[b] /\ calls'[b] = calls[b]
    BY <1>1 DEF RInv, RecorderTypeOK
  <2>4. /\ calls'[a] + Cardinality(todo'[a]) <= MaxToolCalls + Cardinality(Fixtures)
        /\ calls'[a] <= MaxToolCalls + Cardinality(Fixtures)
    BY <2>1, <2>2
  <2> QED BY <2>2, <2>3, <2>4 DEF RInv, BudgetInv
<1>4. MemoryCoversLog'
  <2> SUFFICES ASSUME NEW p \in book
               PROVE  \/ prev'[p.strategy][p.key] >= p.to
                      \/ prev'[p.strategy][p.key] = 0
                      \/ rpc'[p.strategy] = "stopped"
    BY <1>1 DEF MemoryCoversLog
  <2>1. p.strategy \in Strategies /\ p.key \in Keys
    BY DEF RInv, RecorderTypeOK, BoardTypeOK, Positions
  <2>2. CASE p.strategy = a
    BY <1>1, <2>1, <2>2 DEF NothingSeen, RInv, RecorderTypeOK
  <2>3. CASE p.strategy # a
    BY <1>1, <2>1, <2>3 DEF RInv, RecorderTypeOK, MemoryCoversLog
  <2> QED BY <2>2, <2>3
<1>5. BookedMovesShown' /\ MovesRecordedOnce'
  BY <1>1 DEF RInv, BookedMovesShown, MovesRecordedOnce
<1> QED BY <1>2, <1>3, <1>4, <1>5 DEF RInv

(* The feed only adds odds to those recorded on. *)
LEMMA FeedStepInv ==
  ASSUME RInv, FeedStep, UNCHANGED recorderVars PROVE RInv'
<1>1. book' = book /\ faults' = faults
  BY DEF FeedStep, OddsMove, Finish, PostResult
<1>2. /\ rpc' = rpc /\ todo' = todo /\ prev' = prev
      /\ calls' = calls /\ steps' = steps /\ life' = life
  BY DEF recorderVars
<1>3. /\ BoardTypeOK'
      /\ \A k \in Keys : Len(odds[k]) \in Nat /\ Len(odds'[k]) >= Len(odds[k])
  <2>1. CASE \E k \in Keys : OddsMove(k)
    <3>1. PICK k \in Keys : OddsMove(k)
      BY <2>1
    <3>2. PICK o \in Odds : odds' = [odds EXCEPT ![k] = Append(@, o)]
      BY <3>1 DEF OddsMove
    <3>3. odds[k] \in Seq(Odds) /\ Len(odds[k]) < MaxMoves
      BY <3>1 DEF OddsMove, RInv, RecorderTypeOK, BoardTypeOK
    <3>4. /\ Append(odds[k], o) \in Seq(Odds)
          /\ Len(Append(odds[k], o)) = Len(odds[k]) + 1
          /\ Len(odds[k]) \in Nat
      BY <3>3
    <3>5. \A j \in Keys : odds'[j] = IF j = k THEN Append(odds[k], o) ELSE odds[j]
      BY <3>2 DEF RInv, RecorderTypeOK, BoardTypeOK
    <3>6. \A j \in Keys : Len(odds[j]) \in 1..MaxMoves
      BY DEF RInv, RecorderTypeOK, BoardTypeOK
    <3>7. \A j \in Keys : Len(odds'[j]) \in 1..MaxMoves /\ Len(odds'[j]) >= Len(odds[j])
      <4>1. MaxMoves \in Nat
        BY BoardAssumption
      <4>2. Len(odds[k]) + 1 \in 1..MaxMoves
        BY <3>3, <3>4, <4>1
      <4>3. \A j \in Keys :
              Len(odds'[j]) = IF j = k THEN Len(odds[k]) + 1 ELSE Len(odds[j])
        BY <3>4, <3>5
      <4> QED BY <3>4, <3>6, <4>1, <4>2, <4>3
    <3>8. odds' \in [Keys -> Seq(Odds)]
      BY <3>2, <3>4 DEF RInv, RecorderTypeOK, BoardTypeOK
    <3>9. finished' = finished /\ winner' = winner
      BY <3>1 DEF OddsMove
    <3> QED BY <1>1, <3>6, <3>7, <3>8, <3>9 DEF RInv, RecorderTypeOK, BoardTypeOK
  <2>2. CASE \E f \in Fixtures : Finish(f) \/ PostResult(f)
    BY <1>1, <2>2
    DEF Finish, PostResult, RInv, RecorderTypeOK, BoardTypeOK
  <2> QED BY <2>1, <2>2 DEF FeedStep
<1>4. RecorderTypeOK'
  BY <1>2, <1>3 DEF RInv, RecorderTypeOK, BoardTypeOK
<1>5. BookedMovesShown'
  <2> SUFFICES ASSUME NEW p \in book PROVE p.to <= Len(odds'[p.key])
    BY <1>1 DEF BookedMovesShown
  <2>1. p.key \in Keys /\ p.to \in Int
    BY DEF RInv, RecorderTypeOK, BoardTypeOK, Positions
  <2>2. p.to <= Len(odds[p.key])
    BY DEF RInv, BookedMovesShown
  <2>3. Len(odds'[p.key]) \in Int
    BY <1>3, <2>1 DEF BoardTypeOK
  <2> QED BY <1>3, <2>1, <2>2, <2>3
<1>6. MemoryCoversLog' /\ MovesRecordedOnce' /\ BudgetInv'
  BY <1>1, <1>2 DEF RInv, MemoryCoversLog, MovesRecordedOnce, BudgetInv
<1> QED BY <1>4, <1>5, <1>6 DEF RInv

(* Every step of a recorder or the feed keeps the invariant. *)
LEMMA RecorderStepKeeps == RInv /\ [RecorderNext]_allRecorderVars => RInv'
<1> SUFFICES ASSUME RInv, [RecorderNext]_allRecorderVars PROVE RInv'
  OBVIOUS
<1>1. ASSUME NEW a \in Strategies, RecorderStep(a) PROVE RInv'
  BY <1>1, BeginStepInv, FetchFixturesInv, FetchOddsInv, RecorderFailsInv,
     RecorderStopsInv, RecorderRestartsInv
  DEF RecorderStep
<1>2. CASE FeedStep /\ UNCHANGED recorderVars
  BY <1>2, FeedStepInv
<1>3. CASE UNCHANGED allRecorderVars
  BY <1>3
  DEF allRecorderVars, recorderVars, boardVars, feedVars, RInv, RecorderTypeOK,
      BoardTypeOK, BudgetInv, MemoryCoversLog, BookedMovesShown, MovesRecordedOnce
<1> QED BY <1>1, <1>2, <1>3 DEF RecorderNext

-----------------------------------------------------------------------------
(* The coordinator's inductive invariant                                   *)

ResultsInv == \A f \in results : winner[f] # NoResult

(* A settlement says what the result, which is never withdrawn, makes of   *)
(* its position.                                                           *)
SettledInv ==
  \A i \in 1..Len(settlements) :
    /\ settlements[i].position \in book
    /\ winner[settlements[i].position.key[1]] # NoResult
    /\ settlements[i].won = Won(settlements[i].position)

CountInv ==
  /\ IsFiniteSet(settled)
  /\ \A i \in Life : settlements[i].position \in settled
  /\ ScoreMatchesLog

(* While the scoreboard is published, the fields stored already are right. *)
StatusInv ==
  /\ StatusFollowsScore
  /\ cpc = "publish" => \A x \in Fields \ unstored : status[x] = Current(x)

CInv ==
  /\ CoordinatorTypeOK
  /\ ResultsInv
  /\ SettledInv
  /\ CountInv
  /\ StatusInv

-----------------------------------------------------------------------------
(* Facts about the scoreboard                                              *)

(* The published copy has the scoreboard's fields, all of them counts.     *)
LEMMA CurrentType ==
  ASSUME CoordinatorTypeOK, IsFiniteSet(settled), NEW x \in Fields
  PROVE  Current(x) \in Nat
<1>1. x # "settled" => x \in Counters
  BY DEF Fields
<1> QED BY <1>1, FS_CardinalityType DEF Current, CoordinatorTypeOK

(* Nothing on the scoreboard, and nothing it stands on, has changed.       *)
LEMMA LogUntouched ==
  ASSUME CInv, CoordinatorTypeOK', UNCHANGED <<scoreVars, lifeStart>>,
         book \subseteq book',
         \A f \in Fixtures : winner[f] # NoResult => winner'[f] = winner[f]
  PROVE  SettledInv' /\ CountInv'
<1> USE DEF scoreVars
<1>1. SettledInv'
  <2> SUFFICES ASSUME NEW i \in 1..Len(settlements)
               PROVE  /\ settlements[i].position \in book'
                      /\ winner'[settlements[i].position.key[1]] # NoResult
                      /\ settlements[i].won = Won(settlements[i].position)'
    BY DEF SettledInv
  <2>1. /\ settlements[i].position \in book
        /\ winner[settlements[i].position.key[1]] # NoResult
        /\ settlements[i].won = Won(settlements[i].position)
    BY DEF CInv, SettledInv
  <2>2. settlements[i].position.key[1] \in Fixtures
    BY <2>1 DEF CInv, CoordinatorTypeOK, BoardTypeOK, Positions, Keys
  <2> QED BY <2>1, <2>2 DEF Won, SelectionWon
<1>2. CountInv'
  BY DEF CInv, CountInv, Life, ScoreMatchesLog
<1> QED BY <1>1, <1>2

(* Neither the scoreboard nor its copies have changed.                     *)
LEMMA StatusUntouched ==
  ASSUME CInv, UNCHANGED <<settled, score, status, reply>>,
         cpc' \in {"idle", "list", "details"} => cpc \in {"idle", "list", "details"},
         cpc' = "publish" => unstored' = Fields \/ (cpc = "publish" /\ unstored' = unstored)
  PROVE  StatusInv'
<1>1. \A x \in Fields : Current(x)' = Current(x)
  BY DEF Current
<1> QED BY <1>1 DEF CInv, StatusInv, StatusFollowsScore

(* The feed starts with one price per selection and no position on them. *)
LEMMA BoardStarts == BoardInit => BoardTypeOK
<1> SUFFICES ASSUME BoardInit PROVE BoardTypeOK
  OBVIOUS
<1>1. PICK o \in [Keys -> Odds] : odds = [k \in Keys |-> <<o[k]>>]
  BY DEF BoardInit
<1>2. \A k \in Keys : <<o[k]>> \in Seq(Odds) /\ Len(<<o[k]>>) = 1
  OBVIOUS
<1>3. odds \in [Keys -> Seq(Odds)] /\ \A k \in Keys : Len(odds[k]) = 1
  BY <1>1, <1>2
<1> QED BY <1>3, BoardAssumption DEF BoardInit, BoardTypeOK

(* Nothing is settled, scored or published when the coordinator starts.    *)
LEMMA CoordinatorStarts == BoardInit /\ CoordinatorInit => CInv
<1> SUFFICES ASSUME BoardInit, CoordinatorInit PROVE CInv
  OBVIOUS
<1> USE DEF CoordinatorInit
<1>1. CoordinatorTypeOK
  BY BoardStarts, CoordinatorAssumption
  DEF CoordinatorTypeOK, Zero, NotRead, Unread, Fields, Counters
<1>2. Len(settlements) = 0 /\ Life = {}
  BY DEF Life
<1>3. ResultsInv /\ SettledInv
  BY <1>2 DEF ResultsInv, SettledInv
<1>4. CountInv
  <2>1. \A c \in Counters : {i \in Life : CountedAs(settlements[i]) = c} = {}
    BY <1>2
  <2>2. \A c \in Counters : score[c] = 0
    BY DEF Zero
  <2> QED BY <1>2, <2>1, <2>2, FS_EmptySet DEF CountInv, ScoreMatchesLog
<1>5. StatusInv
  <2>1. \A x \in Fields : status[x] = 0 /\ reply[x] = -1 /\ Current(x) = 0
    BY FS_EmptySet DEF Zero, NotRead, Unread, Fields, Counters, Current
  <2> QED BY <2>1 DEF StatusInv, StatusFollowsScore
<1> QED BY <1>1, <1>3, <1>4, <1>5 DEF CInv

-----------------------------------------------------------------------------
(* The steps of the poll loop                                              *)

(* Whatever only moves the loop on. *)
LEMMA LoopMoves ==
  ASSUME CInv,
         \/ BeginPoll \/ ListFinished \/ (\E f \in asking : FetchDetail(f))
         \/ LoadPositions \/ StepDone \/ CoordinatorFails \/ CoordinatorStops
  PROVE  CInv'
<1> USE DEF scoreVars, statusVars, budgetVars, boardVars, feedVars, loopVars
<1>1. UNCHANGED <<scoreVars, lifeStart, winner, book, status, reply>>
  BY DEF BeginPoll, ListFinished, FetchDetail, LoadPositions, StepDone,
         CoordinatorFails, CoordinatorStops
<1>2. odds' = odds /\ finished' = finished /\ faults' \in 0..MaxFaults
  BY BoardAssumption
  DEF BeginPoll, ListFinished, FetchDetail, LoadPositions, StepDone,
      CoordinatorFails, CoordinatorStops, Fault, CInv, CoordinatorTypeOK, BoardTypeOK
<1>3. BoardTypeOK'
  BY <1>1, <1>2 DEF CInv, CoordinatorTypeOK, BoardTypeOK
<1>4. /\ cpc' \in {"idle", "list", "details", "settle", "publish", "stopped"}
      /\ asking' \subseteq Fixtures /\ results' \subseteq Fixtures
      /\ loaded' \subseteq book /\ unstored' \subseteq Fields
  BY DEF BeginPoll, ListFinished, FetchDetail, LoadPositions, StepDone,
         CoordinatorFails, CoordinatorStops, CInv, CoordinatorTypeOK, BoardTypeOK
<1>5. ccalls' \in 0..CoordinatorCalls /\ csteps' \in 0..CoordinatorSteps
  BY CoordinatorAssumption
  DEF BeginPoll, ListFinished, FetchDetail, LoadPositions, StepDone,
      CoordinatorFails, CoordinatorStops, CInv, CoordinatorTypeOK
<1>6. CoordinatorTypeOK'
  BY <1>1, <1>3, <1>4, <1>5 DEF CInv, CoordinatorTypeOK
<1>7. ResultsInv'
  BY <1>1
  DEF BeginPoll, ListFinished, FetchDetail, LoadPositions, StepDone,
      CoordinatorFails, CoordinatorStops, CInv, ResultsInv
<1>8. SettledInv' /\ CountInv'
  BY <1>1, <1>6, LogUntouched
<1>9. StatusInv'
  <2>1. cpc' \in {"idle", "list", "details"} => cpc \in {"idle", "list", "details"}
    BY DEF BeginPoll, ListFinished, FetchDetail, LoadPositions, StepDone,
           CoordinatorFails, CoordinatorStops
  <2>2. cpc' = "publish" => unstored' = Fields
    BY DEF BeginPoll, ListFinished, FetchDetail, LoadPositions, StepDone,
           CoordinatorFails, CoordinatorStops
  <2> QED BY <1>1, <2>1, <2>2, StatusUntouched
<1> QED BY <1>6, <1>7, <1>8, <1>9 DEF CInv

(* An append lengthens the log by the record appended. *)
LEMMA Appended ==
  ASSUME NEW S, NEW s \in Seq(S), NEW e \in S
  PROVE  /\ Append(s, e) \in Seq(S)
         /\ Len(s) \in Nat /\ Len(Append(s, e)) = Len(s) + 1
         /\ Append(s, e)[Len(s) + 1] = e
         /\ \A i \in 1..Len(s) : Append(s, e)[i] = s[i]
OBVIOUS

(* A settlement is recorded, remembered and scored in one.                 *)
LEMMA SettleKeeps ==
  ASSUME CInv, NEW p \in loaded, SettlePosition(p)
  PROVE  CInv'
<1> USE DEF SettlePosition, statusVars, budgetVars, boardVars, feedVars, loopVars
<1> DEFINE e == [position |-> p, won |-> Won(p)]
           n == Len(settlements)
           R == [position : Positions, won : BOOLEAN]
<1>1. /\ p \in book /\ p \in Positions /\ p \notin settled
      /\ winner[p.key[1]] # NoResult
  BY DEF Eligible, CInv, CoordinatorTypeOK, BoardTypeOK, ResultsInv
<1>2. e \in R /\ settlements \in Seq(R) /\ settlements' = Append(settlements, e)
  BY <1>1 DEF Won, CInv, CoordinatorTypeOK
<1>3. /\ settlements' \in Seq(R)
      /\ n \in Nat /\ Len(settlements') = n + 1
      /\ settlements'[n + 1] = e
      /\ \A i \in 1..n : settlements'[i] = settlements[i]
  BY <1>2, Appended
<1>4. lifeStart \in 0..n /\ lifeStart' = lifeStart
  BY DEF CInv, CoordinatorTypeOK
<1>5. Life = (lifeStart + 1)..n /\ Life' = (lifeStart + 1)..(n + 1)
  BY <1>3, <1>4 DEF Life
<1>6. Life' = Life \cup {n + 1} /\ n + 1 \notin Life /\ Life \subseteq 1..n
  BY <1>3, <1>4, <1>5
<1>7. CounterOf(p) \in Counters /\ CountedAs(e) = CounterOf(p)
  BY DEF CounterOf, Counters, CountedAs
<1>8. score' = [score EXCEPT ![CounterOf(p)] = score[CounterOf(p)] + 1]
      /\ score \in [Counters -> Nat] /\ score' \in [Counters -> Nat]
  BY <1>7 DEF CInv, CoordinatorTypeOK
<1>9. CoordinatorTypeOK'
  <2>1. lifeStart' \in 0..Len(settlements')
    BY <1>3, <1>4
  <2>2. BoardTypeOK'
    BY DEF CInv, CoordinatorTypeOK, BoardTypeOK
  <2>3. settled' \subseteq book'
    BY <1>1 DEF CInv, CoordinatorTypeOK
  <2> HIDE DEF e, n
  <2> QED BY <1>3, <1>8, <2>1, <2>2, <2>3 DEF CInv, CoordinatorTypeOK
<1>10. ResultsInv'
  BY DEF CInv, ResultsInv
<1>11. SettledInv'
  <2> SUFFICES ASSUME NEW i \in 1..Len(settlements')
               PROVE  /\ settlements'[i].position \in book
                      /\ winner[settlements'[i].position.key[1]] # NoResult
                      /\ settlements'[i].won = Won(settlements'[i].position)
    BY DEF SettledInv, Won, SelectionWon
  <2>1. CASE i \in 1..n
    BY <1>3, <2>1 DEF CInv, SettledInv
  <2>2. CASE i = n + 1
    BY <1>1, <1>3, <2>2
  <2> QED BY <1>3, <2>1, <2>2
<1>12. IsFiniteSet(settled') /\ Cardinality(settled') = Cardinality(settled) + 1
       /\ Cardinality(settled) \in Nat
  BY <1>1, FS_AddElement, FS_CardinalityType DEF CInv, CountInv
<1>13. \A i \in Life' : settlements'[i].position \in settled'
  <2> SUFFICES ASSUME NEW i \in Life' PROVE settlements'[i].position \in settled'
    OBVIOUS
  <2>1. CASE i \in Life
    BY <1>3, <1>6, <2>1 DEF CInv, CountInv
  <2>2. CASE i = n + 1
    BY <1>3, <2>2
  <2> QED BY <1>6, <2>1, <2>2
<1>14. ASSUME NEW c \in Counters
       PROVE  score'[c] = Cardinality({i \in Life' : CountedAs(settlements'[i]) = c})
  <2> DEFINE S == {i \in Life : CountedAs(settlements[i]) = c}
             T == {i \in Life' : CountedAs(settlements'[i]) = c}
  <2>1. IsFiniteSet(S)
    <3>1. IsFiniteSet(1..n)
      BY <1>3, FS_Interval
    <3>2. S \subseteq 1..n
      BY <1>6
    <3> QED BY <3>1, <3>2, FS_Subset
  <2>2. T = IF c = CounterOf(p) THEN S \cup {n + 1} ELSE S
    <3>1. \A i \in Life : settlements'[i] = settlements[i]
      BY <1>3, <1>6
    <3>2. CountedAs(settlements'[n + 1]) = CounterOf(p)
      BY <1>3, <1>7
    <3> HIDE DEF e
    <3> QED BY <1>6, <3>1, <3>2
  <2>3. n + 1 \notin S
    BY <1>6
  <2>4. score[c] = Cardinality(S) /\ Cardinality(S) \in Nat
    BY <2>1, FS_CardinalityType DEF CInv, CountInv, ScoreMatchesLog
  <2>5. Cardinality(S \cup {n + 1}) = Cardinality(S) + 1
    BY <2>1, <2>3, FS_AddElement
  <2>6. score'[c] = IF c = CounterOf(p) THEN score[c] + 1 ELSE score[c]
    BY <1>7, <1>8
  <2> HIDE DEF S, T, e, n
  <2>7. score'[c] = Cardinality(T)
    BY <2>2, <2>4, <2>5, <2>6
  <2> QED BY <2>7 DEF T
<1>15. ASSUME NEW i \in Life', NEW j \in Life',
              settlements'[i].position = settlements'[j].position
       PROVE  i = j
  <2>1. ASSUME NEW k \in Life PROVE settlements'[k].position # p
    BY <1>1, <1>3, <1>6, <2>1 DEF CInv, CountInv
  <2>2. settlements'[n + 1].position = p
    BY <1>3
  <2>3. CASE i \in Life /\ j \in Life
    BY <1>3, <1>6, <1>15, <2>3 DEF CInv, CountInv, ScoreMatchesLog
  <2>4. CASE ~(i \in Life /\ j \in Life)
    BY <1>6, <1>15, <2>1, <2>2, <2>4
  <2> QED BY <2>3, <2>4
<1>16. CountInv'
  BY <1>12, <1>13, <1>14, <1>15 DEF CountInv, ScoreMatchesLog
<1>17. StatusInv'
  <2>1. ASSUME NEW x \in Fields
        PROVE  Current(x)' >= Current(x) /\ Current(x) \in Nat /\ Current(x)' \in Nat
    <3>1. x # "settled" => x \in Counters
      BY DEF Fields
    <3> QED BY <1>7, <1>8, <1>12, <3>1 DEF Current
  <2>2. status \in [Fields -> Nat] /\ reply \in [Fields -> Nat \cup {-1}]
    BY DEF CInv, CoordinatorTypeOK, Unread
  <2>3. \A x \in Fields : reply[x] <= status[x] /\ status[x] <= Current(x)
    BY DEF CInv, StatusInv, StatusFollowsScore
  <2>4. \A x \in Fields : status[x] <= Current(x)'
    BY <2>1, <2>2, <2>3
  <2> QED BY <2>3, <2>4 DEF StatusInv, StatusFollowsScore
<1> QED BY <1>9, <1>10, <1>11, <1>16, <1>17 DEF CInv

(* A published field is as the scoreboard has it; the last one publishes   *)
(* the rest.                                                               *)
LEMMA StoreKeeps ==
  ASSUME CInv, NEW x \in unstored, StoreField(x)
  PROVE  CInv'
<1> USE DEF StoreField, scoreVars, budgetVars, boardVars, feedVars
<1>1. x \in Fields /\ IsFiniteSet(settled) /\ status \in [Fields -> Nat]
  BY DEF CInv, CountInv, CoordinatorTypeOK
<1>2. \A y \in Fields : Current(y) \in Nat /\ Current(y)' = Current(y)
  BY <1>1, CurrentType DEF CInv, Current
<1>3. \A y \in Fields : status'[y] = IF y = x THEN Current(x) ELSE status[y]
  BY <1>1
<1>4. CoordinatorTypeOK'
  BY <1>1, <1>2 DEF CInv, CoordinatorTypeOK, BoardTypeOK
<1>5. ResultsInv'
  BY DEF CInv, ResultsInv
<1>6. SettledInv' /\ CountInv'
  BY <1>4, LogUntouched
<1>7. reply \in [Fields -> Nat \cup {-1}]
      /\ \A y \in Fields : reply[y] <= status[y] /\ status[y] <= Current(y)
  BY DEF CInv, CoordinatorTypeOK, Unread, StatusInv, StatusFollowsScore
<1>8. \A y \in Fields : reply'[y] <= status'[y] /\ status'[y] <= Current(y)'
  BY <1>1, <1>2, <1>3, <1>7
<1>9. \A y \in Fields \ unstored' : status'[y] = Current(y)'
  BY <1>2, <1>3 DEF CInv, StatusInv
<1>10. cpc' \in {"idle", "list", "details"} => unstored' = {}
  OBVIOUS
<1>11. StatusInv'
  BY <1>8, <1>9, <1>10 DEF StatusInv, StatusFollowsScore
<1> QED BY <1>4, <1>5, <1>6, <1>11 DEF CInv

(* A restart begins a new life, with a scoreboard of zeros and no record.  *)
LEMMA RestartKeeps ==
  ASSUME CInv, CoordinatorRestarts
  PROVE  CInv'
<1> USE DEF CoordinatorRestarts, feedVars
<1>1. faults' \in 0..MaxFaults
  BY BoardAssumption DEF Fault, CInv, CoordinatorTypeOK, BoardTypeOK
<1>2. Len(settlements) \in Nat
  BY DEF CInv, CoordinatorTypeOK
<1>3. CoordinatorTypeOK'
  BY <1>1, <1>2, CoordinatorAssumption
  DEF CInv, CoordinatorTypeOK, BoardTypeOK, Zero, NotRead, Unread
<1>4. Life' = {}
  BY <1>2 DEF Life
<1>5. ResultsInv' /\ SettledInv'
  BY DEF CInv, ResultsInv, SettledInv, Won, SelectionWon
<1>6. CountInv'
  <2>1. \A c \in Counters : {i \in Life' : CountedAs(settlements'[i]) = c} = {}
    BY <1>4
  <2>2. \A c \in Counters : score'[c] = 0
    BY DEF Zero
  <2> QED BY <1>4, <2>1, <2>2, FS_EmptySet DEF CountInv, ScoreMatchesLog
<1>7. StatusInv'
  <2>1. \A x \in Fields : status'[x] = 0 /\ reply'[x] = -1 /\ Current(x)' = 0
    BY FS_EmptySet DEF Zero, NotRead, Unread, Fields, Counters, Current
  <2> QED BY <2>1 DEF StatusInv, StatusFollowsScore
<1> QED BY <1>3, <1>5, <1>6, <1>7 DEF CInv

(* The mention handler copies one field, or forgets its copy.              *)
LEMMA MentionKeeps ==
  ASSUME CInv, (\E x \in Fields : LoadField(x)) \/ NextMention
  PROVE  CInv'
<1> USE DEF LoadField, NextMention, loopVars, scoreVars, budgetVars, boardVars, feedVars
<1>1. UNCHANGED <<loopVars, scoreVars, status, unstored, budgetVars, lifeStart, boardVars>>
  OBVIOUS
<1>2. status \in [Fields -> Nat] /\ reply \in [Fields -> Nat \cup {-1}]
  BY DEF CInv, CoordinatorTypeOK, Unread
<1>3. /\ reply' \in [Fields -> Nat \cup {-1}]
      /\ \A y \in Fields : reply'[y] \in {reply[y], status[y], -1}
  BY <1>2 DEF NotRead, Unread
<1>4. CoordinatorTypeOK'
  BY <1>1, <1>3 DEF CInv, CoordinatorTypeOK, BoardTypeOK, Unread
<1>5. ResultsInv'
  BY <1>1 DEF CInv, ResultsInv
<1>6. SettledInv' /\ CountInv'
  BY <1>1, <1>4, LogUntouched
<1>7. \A y \in Fields : Current(y)' = Current(y)
  BY <1>1 DEF Current
<1>8. \A y \in Fields : reply[y] <= status[y] /\ status[y] <= Current(y)
  BY DEF CInv, StatusInv, StatusFollowsScore
<1>9. \A y \in Fields : reply'[y] <= status[y]
  BY <1>2, <1>3, <1>8
<1>10. StatusInv'
  BY <1>1, <1>7, <1>8, <1>9 DEF CInv, StatusInv, StatusFollowsScore
<1> QED BY <1>4, <1>5, <1>6, <1>10 DEF CInv

(* Whatever the coordinator does keeps its invariant.                      *)
LEMMA CoordinatorKeeps ==
  ASSUME CInv, CoordinatorStep
  PROVE  CInv'
BY LoopMoves, SettleKeeps, StoreKeeps, RestartKeeps, MentionKeeps
DEF CoordinatorStep, PollStep

(* The coordinator's environment: positions appear, results are posted and *)
(* stay.                                                                   *)
LEMMA OthersKeep ==
  ASSUME CInv, UNCHANGED coordinatorVars, BoardTypeOK', book \subseteq book',
         \A f \in Fixtures : winner[f] # NoResult => winner'[f] = winner[f]
  PROVE  CInv'
<1> USE DEF coordinatorVars, loopVars, scoreVars, statusVars, budgetVars
<1>1. CoordinatorTypeOK'
  BY DEF CInv, CoordinatorTypeOK
<1>2. ResultsInv'
  BY DEF CInv, ResultsInv, CoordinatorTypeOK
<1>3. SettledInv' /\ CountInv'
  BY <1>1, LogUntouched
<1>4. StatusInv'
  BY StatusUntouched
<1> QED BY <1>1, <1>2, <1>3, <1>4 DEF CInv

(* The feed appends prices and posts each result once.                     *)
LEMMA FeedGrows ==
  ASSUME BoardTypeOK, FeedStep
  PROVE  /\ BoardTypeOK' /\ book' = book
         /\ \A f \in Fixtures : winner[f] # NoResult => winner'[f] = winner[f]
         /\ \A k \in Keys : /\ Len(odds[k]) \in Nat /\ Len(odds'[k]) \in Nat
                            /\ Len(odds'[k]) >= Len(odds[k])
                            /\ \A i \in 1..Len(odds[k]) : odds'[k][i] = odds[k][i]
<1>1. CASE \E k \in Keys : OddsMove(k)
  <2>1. PICK k \in Keys : OddsMove(k)
    BY <1>1
  <2>2. PICK o \in Odds : odds' = [odds EXCEPT ![k] = Append(odds[k], o)]
    BY <2>1 DEF OddsMove
  <2>3. odds[k] \in Seq(Odds) /\ Len(odds[k]) < MaxMoves /\ MaxMoves \in Nat
    BY <2>1, BoardAssumption DEF OddsMove, BoardTypeOK
  <2>4. /\ Append(odds[k], o) \in Seq(Odds)
        /\ Len(odds[k]) \in Nat
        /\ Len(Append(odds[k], o)) = Len(odds[k]) + 1
        /\ \A i \in 1..Len(odds[k]) : Append(odds[k], o)[i] = odds[k][i]
    BY <2>3, Appended
  <2>5. \A j \in Keys : odds'[j] = IF j = k THEN Append(odds[k], o) ELSE odds[j]
    BY <2>2 DEF BoardTypeOK
  <2>6. odds' \in [Keys -> Seq(Odds)]
    BY <2>2, <2>4 DEF BoardTypeOK
  <2>7. \A j \in Keys : Len(odds[j]) \in 1..MaxMoves /\ Len(odds[j]) \in Nat
    BY <2>3 DEF BoardTypeOK
  <2>8. Len(odds[k]) + 1 \in 1..MaxMoves
    BY <2>3, <2>4
  <2>9. \A j \in Keys :
          /\ Len(odds'[j]) = IF j = k THEN Len(odds[k]) + 1 ELSE Len(odds[j])
          /\ \A i \in 1..Len(odds[j]) : odds'[j][i] = odds[j][i]
    BY <2>4, <2>5
  <2>10. \A j \in Keys : Len(odds'[j]) \in 1..MaxMoves /\ Len(odds'[j]) \in Nat
                         /\ Len(odds'[j]) >= Len(odds[j])
    BY <2>4, <2>7, <2>8, <2>9
  <2>11. UNCHANGED <<finished, winner, book, faults>>
    BY <2>1 DEF OddsMove
  <2> QED BY <2>6, <2>7, <2>9, <2>10, <2>11 DEF BoardTypeOK
<1>2. CASE \E f \in Fixtures : Finish(f) \/ PostResult(f)
  <2>1. odds' = odds /\ book' = book /\ faults' = faults
    BY <1>2 DEF Finish, PostResult
  <2>2. finished' \subseteq Fixtures
    BY <1>2 DEF Finish, PostResult, BoardTypeOK
  <2>3. winner' \in [Fixtures -> Winners \cup {NoResult}]
        /\ \A f \in Fixtures : winner[f] # NoResult => winner'[f] = winner[f]
    BY <1>2 DEF Finish, PostResult, BoardTypeOK
  <2>4. \A k \in Keys : Len(odds[k]) \in 1..MaxMoves /\ MaxMoves \in Nat
    BY BoardAssumption DEF BoardTypeOK
  <2> QED BY <2>1, <2>2, <2>3, <2>4 DEF BoardTypeOK
<1> QED BY <1>1, <1>2 DEF FeedStep

(* Every step of the coordinator's own specification keeps its invariant.  *)
LEMMA CoordinatorStepKeeps == CInv /\ [CoordinatorNext]_allCoordinatorVars => CInv'
<1> SUFFICES ASSUME CInv, [CoordinatorNext]_allCoordinatorVars PROVE CInv'
  OBVIOUS
<1>1. BoardTypeOK
  BY DEF CInv, CoordinatorTypeOK
<1>2. ASSUME NEW p \in Entries, PositionAppears(p) PROVE CInv'
  <2>1. BoardTypeOK' /\ winner' = winner /\ book \subseteq book'
    BY <1>1, <1>2, CoordinatorAssumption DEF PositionAppears, feedVars, BoardTypeOK
  <2> QED BY <1>2, <2>1, OthersKeep DEF PositionAppears
<1>3. CASE FeedStep /\ UNCHANGED coordinatorVars
  BY <1>1, <1>3, FeedGrows, OthersKeep
<1>4. CASE UNCHANGED allCoordinatorVars
  <2>1. BoardTypeOK' /\ winner' = winner /\ book \subseteq book'
    BY <1>1, <1>4 DEF allCoordinatorVars, boardVars, feedVars, BoardTypeOK
  <2> QED BY <1>4, <2>1, OthersKeep DEF allCoordinatorVars
<1> QED BY <1>2, <1>3, <1>4, CoordinatorKeeps DEF CoordinatorNext

-----------------------------------------------------------------------------
(* The recorders and the coordinator together                              *)

(* A position says which way its recorder took the move it is on.          *)
DirectionInv ==
  \A p \in book :
    /\ p.from \in 1..Len(odds[p.key]) /\ p.to \in 1..Len(odds[p.key])
    /\ p.direction = Direction(p.strategy, odds[p.key][p.from], odds[p.key][p.to])

ArenaInv == RInv /\ CInv /\ DirectionInv

(* A recorder's step posts no result, moves no odds and unwrites nothing.  *)
LEMMA RecorderAppends ==
  ASSUME ArenaInv, NEW a \in Strategies, RecorderStep(a)
  PROVE  /\ UNCHANGED feedVars
         /\ \E K \in SUBSET Keys :
              book' = book \cup UNION {NewPositions(a, k) : k \in K}
<1> USE DEF feedVars, boardVars
<1>1. UNCHANGED feedVars
  BY DEF RecorderStep, BeginStep, FetchFixtures, FetchOdds, RecorderFails,
         RecorderStops, RecorderRestarts
<1>2. \A f \in todo[a] : SelectionsOf(f) \subseteq Keys
  BY DEF SelectionsOf, Keys, ArenaInv, RInv, RecorderTypeOK
<1>3. \/ book' = book
      \/ \E f \in todo[a] : \E done \in SUBSET SelectionsOf(f) :
           book' = book \cup UNION {NewPositions(a, k) : k \in done}
  BY DEF RecorderStep, BeginStep, FetchFixtures, FetchOdds, RecorderFails,
         RecorderStops, RecorderRestarts
<1>4. CASE book' = book
  <2>1. UNION {NewPositions(a, k) : k \in {}} = {}
    OBVIOUS
  <2>2. book' = book \cup UNION {NewPositions(a, k) : k \in {}}
    BY <1>4, <2>1
  <2> QED BY <1>1, <2>2
<1>5. CASE \E f \in todo[a] : \E done \in SUBSET SelectionsOf(f) :
             book' = book \cup UNION {NewPositions(a, k) : k \in done}
  BY <1>1, <1>2, <1>5
<1> QED BY <1>3, <1>4, <1>5

(* What a recorder appends follows its strategy on the move. *)
LEMMA NewDirection ==
  ASSUME RecorderTypeOK, NEW a \in Strategies, NEW k \in Keys,
         NEW p \in NewPositions(a, k)
  PROVE  /\ p.from \in 1..Len(odds[p.key]) /\ p.to \in 1..Len(odds[p.key])
         /\ p.direction = Direction(p.strategy, odds[p.key][p.from], odds[p.key][p.to])
<1>1. /\ p.strategy = a /\ p.key = k
      /\ p.from = prev[a][k] /\ p.from # 0 /\ p.to = Len(odds[k])
  BY NewPosition
<1>2. p.direction = Direction(a, odds[k][prev[a][k]], odds[k][Len(odds[k])])
  BY <1>1 DEF NewPositions
<1>3. prev[a][k] \in Nat /\ prev[a][k] <= Len(odds[k]) /\ Len(odds[k]) \in 1..MaxMoves
  BY DEF RecorderTypeOK, BoardTypeOK
<1> QED BY <1>1, <1>2, <1>3

(* The recorders go on, and the coordinator has more to settle.            *)
LEMMA RecorderKeepsArena ==
  ASSUME ArenaInv, NEW a \in Strategies, RecorderStep(a), UNCHANGED coordinatorVars
  PROVE  ArenaInv'
<1>1. RInv'
  BY RecorderStepKeeps DEF ArenaInv, RecorderNext
<1>2. PICK K \in SUBSET Keys : book' = book \cup UNION {NewPositions(a, k) : k \in K}
  BY RecorderAppends
<1>3. odds' = odds /\ winner' = winner
  BY RecorderAppends DEF feedVars
<1>4. CInv'
  BY <1>1, <1>2, <1>3, OthersKeep DEF ArenaInv, RInv, RecorderTypeOK
<1>5. DirectionInv'
  <2> SUFFICES ASSUME NEW p \in book'
               PROVE  /\ p.from \in 1..Len(odds[p.key]) /\ p.to \in 1..Len(odds[p.key])
                      /\ p.direction =
                           Direction(p.strategy, odds[p.key][p.from], odds[p.key][p.to])
    BY <1>3 DEF DirectionInv
  <2>1. CASE p \in book
    BY <2>1 DEF ArenaInv, DirectionInv
  <2>2. CASE p \notin book
    <3>1. PICK k \in K : p \in NewPositions(a, k)
      BY <1>2, <2>2
    <3> QED BY <3>1, NewDirection DEF ArenaInv, RInv
  <2> QED BY <2>1, <2>2
<1> QED BY <1>1, <1>4, <1>5 DEF ArenaInv

(* The coordinator goes on, and the recorders notice nothing of it.        *)
LEMMA CoordinatorKeepsArena ==
  ASSUME ArenaInv, CoordinatorStep, UNCHANGED recorderVars
  PROVE  ArenaInv'
<1>1. CInv'
  BY CoordinatorKeeps DEF ArenaInv
<1>2. UNCHANGED <<feedVars, book>>
  BY DEF CoordinatorStep, PollStep, BeginPoll, ListFinished, FetchDetail, LoadPositions,
         SettlePosition, StepDone, StoreField, CoordinatorFails, CoordinatorStops,
         CoordinatorRestarts, LoadField, NextMention, boardVars, feedVars
<1>3. BoardTypeOK'
  BY <1>1 DEF CInv, CoordinatorTypeOK
<1>4. RInv'
  BY <1>2, <1>3
  DEF ArenaInv, RInv, RecorderTypeOK, MemoryCoversLog, BookedMovesShown,
      MovesRecordedOnce, BudgetInv, recorderVars, feedVars
<1>5. DirectionInv'
  BY <1>2 DEF ArenaInv, DirectionInv, feedVars
<1> QED BY <1>1, <1>4, <1>5 DEF ArenaInv

(* The feed goes on, and unsays nothing. *)
LEMMA FeedKeepsArena ==
  ASSUME ArenaInv, FeedStep, UNCHANGED <<recorderVars, coordinatorVars>>
  PROVE  ArenaInv'
<1>1. BoardTypeOK
  BY DEF ArenaInv, CInv, CoordinatorTypeOK
<1>2. RInv'
  BY FeedStepInv DEF ArenaInv
<1>3. CInv'
  BY <1>1, FeedGrows, OthersKeep DEF ArenaInv
<1>4. DirectionInv'
  <2> SUFFICES ASSUME NEW p \in book
               PROVE  /\ p.from \in 1..Len(odds'[p.key]) /\ p.to \in 1..Len(odds'[p.key])
                      /\ p.direction =
                           Direction(p.strategy, odds'[p.key][p.from], odds'[p.key][p.to])
    BY <1>1, FeedGrows DEF DirectionInv
  <2>1. p.key \in Keys
    BY <1>1 DEF BoardTypeOK, Positions
  <2>2. /\ p.from \in 1..Len(odds[p.key]) /\ p.to \in 1..Len(odds[p.key])
        /\ p.direction = Direction(p.strategy, odds[p.key][p.from], odds[p.key][p.to])
    BY DEF ArenaInv, DirectionInv
  <2>3. /\ Len(odds[p.key]) \in Nat /\ Len(odds'[p.key]) \in Nat
        /\ Len(odds'[p.key]) >= Len(odds[p.key])
        /\ \A i \in 1..Len(odds[p.key]) : odds'[p.key][i] = odds[p.key][i]
    BY <1>1, <2>1, FeedGrows
  <2>4. p.from \in 1..Len(odds'[p.key]) /\ p.to \in 1..Len(odds'[p.key])
    BY <2>2, <2>3
  <2>5. odds'[p.key][p.from] = odds[p.key][p.from] /\ odds'[p.key][p.to] = odds[p.key][p.to]
    BY <2>2, <2>3
  <2> QED BY <2>2, <2>4, <2>5
<1> QED BY <1>2, <1>3, <1>4 DEF ArenaInv

(* Every step of the arena keeps its invariant. *)
LEMMA ArenaStepKeeps == ArenaInv /\ [Next]_arenaVars => ArenaInv'
<1> SUFFICES ASSUME ArenaInv, [Next]_arenaVars PROVE ArenaInv'
  OBVIOUS
<1>1. CASE UNCHANGED arenaVars
  <2>1. RInv'
    BY <1>1, RecorderStepKeeps DEF arenaVars, allRecorderVars, ArenaInv
  <2>2. CInv'
    BY <1>1, CoordinatorStepKeeps DEF arenaVars, allCoordinatorVars, ArenaInv
  <2>3. DirectionInv'
    BY <1>1 DEF arenaVars, boardVars, feedVars, ArenaInv, DirectionInv
  <2> QED BY <2>1, <2>2, <2>3 DEF ArenaInv
<1> QED BY <1>1, RecorderKeepsArena, CoordinatorKeepsArena, FeedKeepsArena DEF Next

(* The arena starts with nothing recorded. *)
LEMMA ArenaStarts == Init => ArenaInv
<1>1. Init => RInv /\ CInv
  BY RecordersStartSafe, CoordinatorStarts DEF Init, RecordersStart
<1>2. Init => DirectionInv
  BY DEF Init, BoardInit, DirectionInv
<1> QED BY <1>1, <1>2 DEF ArenaInv

-----------------------------------------------------------------------------
(* The theorems                                                            *)

(* The invariant holds in every reachable state. *)
LEMMA RecorderInvariant == RecorderSpec => []RInv
BY RecordersStartSafe, RecorderStepKeeps, PTL DEF RecorderSpec

(* The recorders' variables keep their types, for every feed and budget.   *)
THEOREM RecorderTypes == RecorderSpec => []RecorderTypeOK
<1>1. RInv => RecorderTypeOK
  BY DEF RInv
<1> QED BY <1>1, RecorderInvariant, PTL

(* No move is recorded twice, whatever fails and however often a recorder  *)
(* is restarted.                                                           *)
THEOREM NoMoveTwice == RecorderSpec => []MovesRecordedOnce
<1>1. RInv => MovesRecordedOnce
  BY DEF RInv
<1> QED BY <1>1, RecorderInvariant, PTL

(* A recorder exceeds its budget by at most one request per fixture.       *)
THEOREM OvershootIsBounded == RecorderSpec => []OvershootBounded
<1>1. RInv => OvershootBounded
  BY DEF RInv, BudgetInv, OvershootBounded
<1> QED BY <1>1, RecorderInvariant, PTL

(* The coordinator's invariant holds whatever positions appear.            *)
LEMMA CoordinatorInvariant == CoordinatorSpec => []CInv
BY CoordinatorStarts, CoordinatorStepKeeps, PTL DEF CoordinatorSpec, CoordinatorStart

(* The arena's invariant holds in every reachable state.                   *)
LEMMA ArenaInvariant == Spec => []ArenaInv
BY ArenaStarts, ArenaStepKeeps, PTL DEF Spec

(* The coordinator's variables keep their types. *)
THEOREM CoordinatorTypes == CoordinatorSpec => []CoordinatorTypeOK
<1>1. CInv => CoordinatorTypeOK
  BY DEF CInv
<1> QED BY <1>1, CoordinatorInvariant, PTL

(* The scoreboard is this life's part of the settlement log, counted, and  *)
(* no position is in it twice.                                             *)
THEOREM ScoreIsTheLog == CoordinatorSpec => []ScoreMatchesLog
<1>1. CInv => ScoreMatchesLog
  BY DEF CInv, CountInv
<1> QED BY <1>1, CoordinatorInvariant, PTL

(* No status told or published runs ahead of the scoreboard, and between   *)
(* steps the published one is the scoreboard.                              *)
THEOREM StatusIsBehind == CoordinatorSpec => []StatusFollowsScore
<1>1. CInv => StatusFollowsScore
  BY DEF CInv, StatusInv
<1> QED BY <1>1, CoordinatorInvariant, PTL

(* Of two positions that follow and fade the same move, exactly one wins:  *)
(* both are settled by the one result, which stays, in opposite directions. *)
THEOREM OneOfTwoWins == Spec => []OneSideWins
<1>1. ArenaInv => OneSideWins
  <2> SUFFICES ASSUME ArenaInv,
                      NEW i \in 1..Len(settlements), NEW j \in 1..Len(settlements),
                      settlements[i].position.strategy # settlements[j].position.strategy,
                      settlements[i].position.key = settlements[j].position.key,
                      settlements[i].position.from = settlements[j].position.from,
                      settlements[i].position.to = settlements[j].position.to
               PROVE  settlements[i].won # settlements[j].won
    BY DEF OneSideWins
  <2> DEFINE p == settlements[i].position
             q == settlements[j].position
  <2>1. p \in book /\ q \in book /\ p \in Positions /\ q \in Positions
    BY DEF ArenaInv, CInv, SettledInv, CoordinatorTypeOK, BoardTypeOK
  <2>2. settlements[i].won = Won(p) /\ settlements[j].won = Won(q)
    BY DEF ArenaInv, CInv, SettledInv
  <2>3. /\ p.direction = Direction(p.strategy, odds[p.key][p.from], odds[p.key][p.to])
        /\ q.direction = Direction(q.strategy, odds[p.key][p.from], odds[p.key][p.to])
    BY <2>1 DEF ArenaInv, DirectionInv
  <2>4. p.strategy \in Strategies /\ q.strategy \in Strategies /\ p.strategy # q.strategy
    BY <2>1 DEF Positions
  <2>5. p.direction # q.direction
        /\ p.direction \in {"With", "Against"} /\ q.direction \in {"With", "Against"}
    BY <2>3, <2>4 DEF Direction, Strategies
  <2>6. SelectionWon(p) = SelectionWon(q) /\ SelectionWon(p) \in BOOLEAN
    BY DEF SelectionWon
  <2> HIDE DEF p, q
  <2> QED BY <2>2, <2>5, <2>6 DEF Won
<1> QED BY <1>1, ArenaInvariant, PTL

(* Only recorded positions are settled, on results there are, and the same *)
(* way each time.                                                          *)
THEOREM SettledSoundly == Spec => []SettlementsAreSound
<1>1. ArenaInv => SettlementsAreSound
  BY DEF ArenaInv, CInv, SettledInv, SettlementsAreSound
<1> QED BY <1>1, ArenaInvariant, PTL

(* Sharing feed and logs with a coordinator, the recorders still record no *)
(* move twice and keep within a step's requests of their budget.           *)
THEOREM RecordersStaySound == Spec => [](MovesRecordedOnce /\ OvershootBounded)
<1>1. ArenaInv => MovesRecordedOnce /\ OvershootBounded
  BY DEF ArenaInv, RInv, BudgetInv, OvershootBounded
<1> QED BY <1>1, ArenaInvariant, PTL

(* Sharing its logs with recorders that fail and restart, the coordinator  *)
(* still keeps the scoreboard equal to the log of its life, and no status  *)
(* runs ahead of the scoreboard.                                           *)
THEOREM CoordinatorStaysSound == Spec => [](ScoreMatchesLog /\ StatusFollowsScore)
<1>1. ArenaInv => ScoreMatchesLog /\ StatusFollowsScore
  BY DEF ArenaInv, CInv, CountInv, StatusInv
<1> QED BY <1>1, ArenaInvariant, PTL

-----------------------------------------------------------------------------
(* The contest the arena implements                                        *)

(* What a recorder appends is later than all it had appended on that       *)
(* selection, and on one selection it appends at most one position.        *)
LEMMA NewIsLater ==
  ASSUME RInv, NEW a \in Strategies, rpc[a] # "stopped",
         NEW k \in Keys, NEW p \in NewPositions(a, k)
  PROVE  /\ \A q \in book : q.strategy = a /\ q.key = k => q.to <= p.from
         /\ \A j \in Keys : \A q \in NewPositions(a, j) :
              q.strategy = a /\ (q.key = k => q = p)
<1>1. p.key = k /\ p.from = prev[a][k] /\ p.from # 0
  BY NewPosition DEF RInv
<1>2. ASSUME NEW q \in book, q.strategy = a, q.key = k
      PROVE  q.to <= p.from
  BY <1>1, <1>2 DEF RInv, MemoryCoversLog
<1>3. ASSUME NEW j \in Keys, NEW q \in NewPositions(a, j)
      PROVE  q.strategy = a /\ (q.key = k => q = p)
  <2>1. q.strategy = a /\ q.key = j
    BY <1>3, NewPosition DEF RInv
  <2>2. ASSUME j = k PROVE q = p
    BY <1>3, <2>2 DEF NewPositions
  <2> QED BY <2>1, <2>2
<1> QED BY <1>2, <1>3

(* A recorder takes positions, or nothing. *)
LEMMA RecorderMaps ==
  ASSUME ArenaInv, ArenaInv', NEW a \in Strategies, RecorderStep(a),
         UNCHANGED coordinatorVars
  PROVE  [Book!Next]_(Book!bookVars)
<1>1. PICK K \in SUBSET Keys : book' = book \cup UNION {NewPositions(a, k) : k \in K}
  BY RecorderAppends
<1>2. UNCHANGED <<winner, Verdicts>>
  BY RecorderAppends DEF feedVars, Verdicts, coordinatorVars, scoreVars
<1>3. CASE rpc[a] = "stopped"
  <2>1. book' = book
    BY <1>3 DEF RecorderStep, BeginStep, FetchFixtures, FetchOdds, RecorderFails,
                RecorderStops, RecorderRestarts, boardVars
  <2> QED BY <1>2, <2>1 DEF Book!bookVars
<1>4. CASE rpc[a] # "stopped"
  <2>1. ASSUME NEW p \in book' \ book, NEW q \in book',
               p.strategy = q.strategy, p.key = q.key, p # q
        PROVE  q \in book /\ q.to <= p.from
    <3>1. PICK k \in K : p \in NewPositions(a, k)
      BY <1>1, <2>1
    <3>2. k \in Keys /\ p.strategy = a /\ p.key = k
      BY <3>1, NewPosition DEF ArenaInv, RInv
    <3>3. q \in book
      <4> SUFFICES ASSUME q \notin book PROVE FALSE
        OBVIOUS
      <4>1. PICK j \in K : q \in NewPositions(a, j)
        BY <1>1, <2>1
      <4>2. j \in Keys /\ q.key = k
        BY <2>1, <3>2, <4>1
      <4>3. q = p
        BY <1>4, <3>1, <3>2, <4>1, <4>2, NewIsLater DEF ArenaInv
      <4> QED BY <2>1, <4>3
    <3>4. q.strategy = a /\ q.key = k
      BY <2>1, <3>2
    <3>5. q.to <= p.from
      BY <1>4, <3>1, <3>2, <3>3, <3>4, NewIsLater DEF ArenaInv
    <3> QED BY <3>3, <3>5
  <2>2. ASSUME NEW p \in book' \ book, NEW q \in book', p.strategy # q.strategy
        PROVE  q \in book
    <3>1. PICK k \in K : p \in NewPositions(a, k)
      BY <1>1, <2>2
    <3>2. p.strategy = a
      BY <3>1, NewPosition DEF ArenaInv, RInv
    <3>3. \A j \in K : q \notin NewPositions(a, j)
      BY <2>2, <3>2, NewPosition DEF ArenaInv, RInv
    <3> QED BY <1>1, <2>2, <3>3
  <2>3. ASSUME NEW p \in book' \ book, NEW q \in book', p.strategy # q.strategy,
               Book!SameMove(p, q)
        PROVE  p.direction # q.direction
    <3>1. book' \subseteq Positions /\ DirectionInv'
      BY DEF ArenaInv, RInv, RecorderTypeOK, BoardTypeOK
    <3>2. p.strategy \in Strategies /\ q.strategy \in Strategies
      BY <3>1 DEF Positions
    <3>3. /\ p.direction = Direction(p.strategy, odds'[p.key][p.from], odds'[p.key][p.to])
          /\ q.direction = Direction(q.strategy, odds'[p.key][p.from], odds'[p.key][p.to])
      BY <2>3, <3>1 DEF DirectionInv, Book!SameMove
    <3> QED BY <2>3, <3>2, <3>3 DEF Direction, Strategies
  <2>4. Book!Take
    BY <1>1, <1>2, <2>1, <2>2, <2>3 DEF Book!Take
  <2> QED BY <2>4 DEF Book!Next
<1> QED BY <1>3, <1>4

(* The coordinator rules on a position, or nothing is seen of its step. *)
LEMMA CoordinatorMaps ==
  ASSUME ArenaInv, CoordinatorStep
  PROVE  [Book!Next]_(Book!bookVars)
<1>1. UNCHANGED <<winner, book>>
  BY DEF CoordinatorStep, PollStep, BeginPoll, ListFinished, FetchDetail, LoadPositions,
         SettlePosition, StepDone, StoreField, CoordinatorFails, CoordinatorStops,
         CoordinatorRestarts, LoadField, NextMention, boardVars, feedVars
<1>2. CASE settlements' = settlements
  BY <1>1, <1>2 DEF Book!bookVars, Verdicts
<1>3. CASE \E p \in loaded : SettlePosition(p)
  <2>1. PICK p \in loaded : SettlePosition(p)
    BY <1>3
  <2> DEFINE e == [position |-> p, won |-> Won(p)]
  <2>2. p \in book /\ p.key[1] \in results /\ winner[p.key[1]] # NoResult
    BY <2>1 DEF SettlePosition, Eligible, ArenaInv, CInv, CoordinatorTypeOK, ResultsInv
  <2>3. settlements' = Append(settlements, e)
    BY <2>1 DEF SettlePosition
  <2>4. settlements \in Seq([position : Positions, won : BOOLEAN])
    BY DEF ArenaInv, CInv, CoordinatorTypeOK
  <2>5. Verdicts' = Verdicts \cup {e}
    <3> HIDE DEF e
    <3>1. /\ Len(settlements) \in Nat /\ Len(settlements') = Len(settlements) + 1
          /\ settlements'[Len(settlements')] = e
          /\ \A i \in 1..Len(settlements) : settlements'[i] = settlements[i]
      BY <2>3, <2>4
    <3>2. Verdicts' \subseteq Verdicts \cup {e}
      <4> SUFFICES ASSUME NEW i \in 1..Len(settlements')
                   PROVE  settlements'[i] \in Verdicts \cup {e}
        BY DEF Verdicts
      <4>1. i = Len(settlements') \/ i \in 1..Len(settlements)
        BY <3>1
      <4> QED BY <3>1, <4>1 DEF Verdicts
    <3>3. Verdicts \cup {e} \subseteq Verdicts'
      <4>1. Len(settlements') \in 1..Len(settlements')
        BY <3>1
      <4>2. \A i \in 1..Len(settlements) : i \in 1..Len(settlements')
        BY <3>1
      <4> QED BY <3>1, <4>1, <4>2 DEF Verdicts
    <3> QED BY <3>2, <3>3
  <2>6. Won(p) = (p.direction = "With" <=> Book!Backed(p))
    <3>1. SelectionWon(p) = Book!Backed(p) /\ Book!Backed(p) \in BOOLEAN
      BY DEF SelectionWon, Book!Backed
    <3> QED BY <3>1 DEF Won
  <2>7. Book!Rule(p)
    BY <1>1, <2>2, <2>5, <2>6 DEF Book!Rule
  <2> QED BY <2>2, <2>7 DEF Book!Next
<1>4. settlements' = settlements \/ \E p \in loaded : SettlePosition(p)
  BY DEF CoordinatorStep, PollStep, BeginPoll, ListFinished, FetchDetail, LoadPositions,
         StepDone, StoreField, CoordinatorFails, CoordinatorStops,
         CoordinatorRestarts, LoadField, NextMention, scoreVars
<1> QED BY <1>2, <1>3, <1>4

(* The feed posts a result, or nothing that the contest is about. *)
LEMMA FeedMaps ==
  ASSUME FeedStep, UNCHANGED coordinatorVars
  PROVE  [Book!Next]_(Book!bookVars)
<1>1. UNCHANGED <<book, Verdicts>>
  BY DEF FeedStep, OddsMove, Finish, PostResult, Verdicts, coordinatorVars, scoreVars
<1>2. CASE \E f \in Fixtures : PostResult(f)
  <2>1. PICK f \in Fixtures : PostResult(f)
    BY <1>2
  <2>2. Book!PostResult(f)
    BY <1>1, <2>1 DEF PostResult, Book!PostResult
  <2> QED BY <2>2 DEF Book!Next
<1>3. CASE winner' = winner
  BY <1>1, <1>3 DEF Book!bookVars
<1> QED BY <1>2, <1>3 DEF FeedStep, OddsMove, Finish

(* The arena, with its polls, failures and restarts, implements the contest *)
(* BettingBook states without them: positions are taken in the order of the *)
(* moves, ruled on only after the result is posted, and by that result      *)
(* (agents/*/src/main.rs: step; arena-coordinator: settle_position).        *)
THEOREM ArenaImplementsBook == Spec => ImplementsBettingBook
<1>1. Init => Book!Init
  BY DEF Init, BoardInit, CoordinatorInit, Verdicts, Book!Init
<1>2. ASSUME ArenaInv, ArenaInv', [Next]_arenaVars
      PROVE  [Book!Next]_(Book!bookVars)
  <2>1. CASE UNCHANGED arenaVars
    BY <2>1 DEF arenaVars, boardVars, feedVars, coordinatorVars, scoreVars,
                Book!bookVars, Verdicts
  <2> QED BY <1>2, <2>1, RecorderMaps, CoordinatorMaps, FeedMaps DEF Next
<1> QED BY <1>1, <1>2, ArenaInvariant, PTL
        DEF Spec, ImplementsBettingBook, Book!Spec

-----------------------------------------------------------------------------
(* What a poll has begun                                                   *)

Due(p) == p \in book /\ winner[p.key[1]] # NoResult

(* The poll under way will meet the position and its result.               *)
OnItsWay(p) ==
  /\ Due(p)
  /\ \/ cpc = "list"
     \/ cpc = "details" /\ p.key[1] \in asking \cup results
     \/ cpc = "settle" /\ p.key[1] \in results /\ p \in loaded

(* A poll that nothing fails in settles every position that was due when   *)
(* it began, and every one that fell due before it asked for the list,     *)
(* although positions are appended and results posted all the time; what   *)
(* is due stays due, and what is in the settlement log stays there.        *)
PollsFollowThrough ==
  [][\A p \in Positions :
       /\ Due(p) => Due(p)'
       /\ Due(p) /\ BeginPoll => OnItsWay(p)'
       /\ OnItsWay(p) /\ faults' = faults => OnItsWay(p)' \/ InSettlementLog(p)'
       /\ InSettlementLog(p) => InSettlementLog(p)']_arenaVars

(* Results are of fixtures listed as finished, and what this life          *)
(* remembers as settled is in the log.                                     *)
FollowInv ==
  /\ \A f \in Fixtures : winner[f] # NoResult => f \in finished
  /\ \A p \in settled : InSettlementLog(p)

(* The stages of a poll, and what is left to do in the one under way.      *)
Stage ==
  CASE cpc = "list" -> 4 [] cpc = "details" -> 3 [] cpc = "settle" -> 2
    [] cpc = "publish" -> 1 [] OTHER -> 0

Pending ==
  CASE cpc = "details" -> asking [] cpc = "settle" -> Eligible
    [] cpc = "publish" -> unstored [] OTHER -> {}

(* Every step of the poll loop spends one of the life's steps, ends a      *)
(* stage, or takes something off what is left of the stage, which is       *)
(* finite; no position that appears meanwhile, no result, no mention adds  *)
(* to it.  So a life that nothing fails in comes to its end.               *)
PollsRunDown ==
  [][ /\ IsFiniteSet(Pending) /\ Stage \in Nat /\ csteps' <= CoordinatorSteps
      /\ PollStep =>
           \/ csteps' = csteps + 1
           \/ csteps' = csteps /\ Stage' < Stage
           \/ csteps' = csteps /\ Stage' = Stage /\ Pending' \subseteq Pending /\ Pending' # Pending
      /\ ~PollStep /\ faults' = faults =>
           csteps' = csteps /\ Stage' = Stage /\ Pending' = Pending ]_allCoordinatorVars

FiniteInv == IsFiniteSet(finished) /\ IsFiniteSet(book) /\ IsFiniteSet(asking) /\ IsFiniteSet(loaded)

(* Nothing leaves the settlement log, and a step of the coordinator that   *)
(* adds to it adds a position of the poll's.                               *)
LEMMA LogGrows ==
  ASSUME CoordinatorTypeOK, CoordinatorStep
  PROVE  /\ \A p : InSettlementLog(p) => InSettlementLog(p)'
         /\ \A p \in loaded : SettlePosition(p) => InSettlementLog(p)'
<1>1. settlements \in Seq([position : Positions, won : BOOLEAN])
  BY DEF CoordinatorTypeOK
<1>2. CASE settlements' = settlements
  <2>1. \A p \in loaded : ~SettlePosition(p)
    BY <1>1, <1>2 DEF SettlePosition
  <2> QED BY <1>2, <2>1 DEF InSettlementLog
<1>3. CASE \E p \in loaded : SettlePosition(p)
  <2>1. ASSUME NEW p \in loaded, SettlePosition(p)
        PROVE  InSettlementLog(p)' /\ \A q : InSettlementLog(q) => InSettlementLog(q)'
    <3> DEFINE e == [position |-> p, won |-> Won(p)]
    <3>1. settlements' = Append(settlements, e) /\ e.position = p
      BY <2>1 DEF SettlePosition
    <3> HIDE DEF e
    <3>2. /\ Len(settlements) \in Nat /\ Len(settlements') = Len(settlements) + 1
          /\ settlements'[Len(settlements) + 1] = e
          /\ \A i \in 1..Len(settlements) : settlements'[i] = settlements[i]
      BY <1>1, <3>1
    <3>3. \A i \in 1..Len(settlements) : i \in 1..Len(settlements')
      BY <3>2
    <3>4. Len(settlements) + 1 \in 1..Len(settlements')
      BY <3>2
    <3> QED BY <3>1, <3>2, <3>3, <3>4 DEF InSettlementLog
  <2> QED BY <1>3, <2>1
<1>4. settlements' = settlements \/ \E p \in loaded : SettlePosition(p)
  BY DEF CoordinatorStep, PollStep, BeginPoll, ListFinished, FetchDetail, LoadPositions,
         StepDone, StoreField, CoordinatorFails, CoordinatorStops,
         CoordinatorRestarts, LoadField, NextMention, scoreVars
<1> QED BY <1>2, <1>3, <1>4

(* A poll lists, asks, reads and settles: what is on its way stays so      *)
(* until it is in the log.                                                 *)
LEMMA CoordinatorFollows ==
  ASSUME CInv, FollowInv, CoordinatorStep
  PROVE  /\ FollowInv' /\ UNCHANGED <<book, winner>>
         /\ \A p \in Positions :
              /\ Due(p) /\ BeginPoll => OnItsWay(p)'
              /\ OnItsWay(p) /\ faults' = faults => OnItsWay(p)' \/ InSettlementLog(p)'
<1>1. UNCHANGED <<winner, book, finished>>
  BY DEF CoordinatorStep, PollStep, BeginPoll, ListFinished, FetchDetail, LoadPositions,
         SettlePosition, StepDone, StoreField, CoordinatorFails, CoordinatorStops,
         CoordinatorRestarts, LoadField, NextMention, boardVars, feedVars
<1>2. CoordinatorTypeOK
  BY DEF CInv
<1>3. FollowInv'
  <2>1. ASSUME NEW p \in settled' PROVE p \in settled \/ (p \in loaded /\ SettlePosition(p))
    BY <2>1 DEF CoordinatorStep, PollStep, BeginPoll, ListFinished, FetchDetail, LoadPositions,
         SettlePosition, StepDone, StoreField, CoordinatorFails, CoordinatorStops,
         CoordinatorRestarts, LoadField, NextMention, scoreVars
  <2> QED BY <1>1, <1>2, <2>1, LogGrows DEF FollowInv
<1>4. ASSUME NEW p \in Positions, Due(p), BeginPoll
      PROVE  OnItsWay(p)'
  BY <1>1, <1>4 DEF BeginPoll, OnItsWay, Due
<1>5. ASSUME NEW p \in Positions, OnItsWay(p), faults' = faults
      PROVE  OnItsWay(p)' \/ InSettlementLog(p)'
  <2> DEFINE f == p.key[1]
  <2>1. p \in book /\ winner[f] # NoResult /\ f \in Fixtures /\ Due(p)'
    BY <1>1, <1>5 DEF OnItsWay, Due, Positions, Keys
  <2>2. f \in finished
    BY <2>1 DEF FollowInv
  <2>3. cpc \in {"list", "details", "settle"}
    BY <1>5 DEF OnItsWay
  <2>4. ~Fault
    BY <1>2, <1>5 DEF Fault, CoordinatorTypeOK, BoardTypeOK
  <2> HIDE DEF f
  <2>5. CASE ListFinished
    <3>1. cpc' = "details" /\ asking' = finished
      BY <2>5 DEF ListFinished
    <3> QED BY <2>1, <2>2, <3>1 DEF OnItsWay, f
  <2>6. CASE \E g \in asking : FetchDetail(g)
    <3>1. PICK g \in asking : FetchDetail(g)
      BY <2>6
    <3>2. /\ cpc = "details" /\ cpc' = "details" /\ asking' = asking \ {g}
          /\ results' = results \cup ({g} \cap {h \in Fixtures : winner[h] # NoResult})
      BY <2>4, <3>1 DEF FetchDetail
    <3>3. f \in asking \cup results
      BY <1>5, <3>2 DEF OnItsWay, f
    <3>4. f \in asking' \cup results'
      BY <2>1, <3>2, <3>3
    <3> QED BY <2>1, <3>2, <3>4 DEF OnItsWay, f
  <2>7. CASE LoadPositions
    <3>1. /\ cpc = "details" /\ asking = {} /\ results' = results
          /\ cpc' = "settle" /\ loaded' = book
      BY <2>7 DEF LoadPositions
    <3>2. f \in results'
      BY <1>5, <3>1 DEF OnItsWay, f
    <3> QED BY <2>1, <3>1, <3>2 DEF OnItsWay, f
  <2>8. CASE \E q \in loaded : SettlePosition(q)
    <3>1. cpc = "settle" /\ cpc' = cpc /\ results' = results /\ loaded' = loaded
      BY <2>8 DEF SettlePosition, loopVars
    <3> QED BY <1>5, <2>1, <3>1 DEF OnItsWay
  <2>9. CASE StepDone
    <3>1. cpc = "settle" /\ Eligible = {}
      BY <2>9 DEF StepDone
    <3>2. f \in results /\ p \in loaded
      BY <1>5, <3>1 DEF OnItsWay, f
    <3>3. p \in settled
      BY <3>1, <3>2 DEF Eligible, f
    <3>4. InSettlementLog(p)
      BY <3>3 DEF FollowInv
    <3> QED BY <1>2, <3>4, LogGrows
  <2>10. CASE UNCHANGED loopVars
    BY <1>5, <2>1, <2>10 DEF loopVars, OnItsWay
  <2>11. \/ ListFinished \/ (\E g \in asking : FetchDetail(g)) \/ LoadPositions
         \/ (\E q \in loaded : SettlePosition(q)) \/ StepDone \/ UNCHANGED loopVars
    BY <2>3, <2>4 DEF CoordinatorStep, PollStep, BeginPoll, StoreField, CoordinatorFails,
      CoordinatorStops, CoordinatorRestarts, LoadField, NextMention, loopVars
  <2> QED BY <2>5, <2>6, <2>7, <2>8, <2>9, <2>10, <2>11
<1> QED BY <1>1, <1>3, <1>4, <1>5

(* Others append positions and post results, and withdraw neither.         *)
LEMMA OthersFollow ==
  ASSUME FollowInv, UNCHANGED coordinatorVars, book \subseteq book',
         finished \subseteq finished',
         \A f \in Fixtures : winner[f] # NoResult => winner'[f] = winner[f],
         \A f \in Fixtures : winner'[f] # NoResult => winner[f] # NoResult \/ f \in finished
  PROVE  /\ FollowInv'
         /\ \A p \in Positions :
              /\ Due(p) => Due(p)'
              /\ OnItsWay(p) => OnItsWay(p)'
              /\ InSettlementLog(p) => InSettlementLog(p)'
<1> USE DEF coordinatorVars, loopVars, scoreVars
<1>1. \A p : InSettlementLog(p) <=> InSettlementLog(p)'
  BY DEF InSettlementLog
<1>2. FollowInv'
  BY <1>1 DEF FollowInv
<1>3. \A p \in Positions : p.key[1] \in Fixtures
  BY DEF Positions, Keys
<1>4. \A p \in Positions : Due(p) => Due(p)'
  BY <1>3 DEF Due
<1>5. \A p \in Positions : OnItsWay(p) => OnItsWay(p)'
  BY <1>4 DEF OnItsWay
<1> QED BY <1>1, <1>2, <1>4, <1>5

(* Results are posted on fixtures that are listed as finished.             *)
LEMMA FeedLists ==
  ASSUME FeedStep
  PROVE  /\ finished \subseteq finished'
         /\ \A f \in Fixtures : winner'[f] # NoResult => winner[f] # NoResult \/ f \in finished
<1>1. CASE \E f \in Fixtures : PostResult(f)
  <2>1. PICK f \in Fixtures : PostResult(f)
    BY <1>1
  <2>2. \A g \in Fixtures : g # f => winner'[g] = winner[g]
    BY <2>1 DEF PostResult
  <2> QED BY <2>1, <2>2 DEF PostResult
<1>2. CASE winner' = winner /\ finished \subseteq finished'
  BY <1>2
<1> QED BY <1>1, <1>2 DEF FeedStep, OddsMove, Finish

(* A poll that does not fail settles what was due when it began            *)
(* (arena-coordinator/src/main.rs: coordinator_step): with PollsRunDown,   *)
(* what EventuallySettled says without its fairness.                       *)
THEOREM DueIsSettled == Spec => PollsFollowThrough
<1>1. Init => FollowInv
  BY DEF Init, BoardInit, CoordinatorInit, FollowInv
<1>2. ASSUME ArenaInv, FollowInv, [Next]_arenaVars
      PROVE  /\ FollowInv'
             /\ \A p \in Positions :
                  /\ Due(p) => Due(p)'
                  /\ Due(p) /\ BeginPoll => OnItsWay(p)'
                  /\ OnItsWay(p) /\ faults' = faults => OnItsWay(p)' \/ InSettlementLog(p)'
                  /\ InSettlementLog(p) => InSettlementLog(p)'
  <2>1. CInv /\ CoordinatorTypeOK /\ BoardTypeOK
    BY <1>2 DEF ArenaInv, CInv, CoordinatorTypeOK
  <2>2. CASE CoordinatorStep
    <3>1. \A p : InSettlementLog(p) => InSettlementLog(p)'
      BY <2>1, <2>2, LogGrows
    <3>2. \A p : Due(p) => Due(p)'
      BY <1>2, <2>1, <2>2, CoordinatorFollows DEF Due
    <3> QED BY <1>2, <2>1, <2>2, <3>1, <3>2, CoordinatorFollows
  <2>3. ASSUME UNCHANGED coordinatorVars, book \subseteq book', finished \subseteq finished',
               \A f \in Fixtures : winner[f] # NoResult => winner'[f] = winner[f],
               \A f \in Fixtures : winner'[f] # NoResult => winner[f] # NoResult \/ f \in finished
        PROVE  /\ FollowInv'
               /\ \A p \in Positions :
                    /\ Due(p) => Due(p)'
                    /\ Due(p) /\ BeginPoll => OnItsWay(p)'
                    /\ OnItsWay(p) /\ faults' = faults => OnItsWay(p)' \/ InSettlementLog(p)'
                    /\ InSettlementLog(p) => InSettlementLog(p)'
    <3>1. ~BeginPoll
      BY <2>3 DEF BeginPoll, coordinatorVars, loopVars
    <3> QED BY <1>2, <2>3, <3>1, OthersFollow
  <2>4. CASE FeedStep /\ UNCHANGED coordinatorVars
    BY <2>1, <2>3, <2>4, FeedGrows, FeedLists
  <2>5. CASE (\E a \in Strategies : RecorderStep(a)) /\ UNCHANGED coordinatorVars
    <3>1. UNCHANGED feedVars /\ book \subseteq book'
      BY <1>2, <2>5, RecorderAppends
    <3> QED BY <2>3, <2>5, <3>1 DEF feedVars
  <2>6. CASE UNCHANGED arenaVars
    BY <2>3, <2>6 DEF arenaVars, boardVars, feedVars
  <2> QED BY <1>2, <2>2, <2>4, <2>5, <2>6 DEF Next
<1>3. ArenaInv /\ FollowInv /\ [Next]_arenaVars => FollowInv'
  BY <1>2
<1>4. ArenaInv /\ FollowInv /\ [Next]_arenaVars =>
        [\A p \in Positions :
           /\ Due(p) => Due(p)'
           /\ Due(p) /\ BeginPoll => OnItsWay(p)'
           /\ OnItsWay(p) /\ faults' = faults => OnItsWay(p)' \/ InSettlementLog(p)'
           /\ InSettlementLog(p) => InSettlementLog(p)']_arenaVars
  BY <1>2
<1> QED BY <1>1, <1>3, <1>4, ArenaInvariant, PTL DEF Spec, PollsFollowThrough

(* The coordinator alone, whose environment appends one position at a time, *)
(* has finite sets to work off.                                            *)
LEMMA StaysFinite == FiniteInv /\ [CoordinatorNext]_allCoordinatorVars => FiniteInv'
<1> SUFFICES ASSUME FiniteInv, [CoordinatorNext]_allCoordinatorVars PROVE FiniteInv'
  OBVIOUS
<1>1. finished' = finished \/ \E f \in Fixtures : finished' = finished \cup {f}
  BY DEF CoordinatorNext, CoordinatorStep, PollStep, BeginPoll, ListFinished, FetchDetail,
    LoadPositions, SettlePosition, StepDone, StoreField, CoordinatorFails, CoordinatorStops,
    CoordinatorRestarts, LoadField, NextMention, PositionAppears, FeedStep, OddsMove, Finish,
    PostResult, boardVars, feedVars, allCoordinatorVars
<1>2. book' = book \/ \E p \in Entries : book' = book \cup {p}
  BY DEF CoordinatorNext, CoordinatorStep, PollStep, BeginPoll, ListFinished, FetchDetail,
    LoadPositions, SettlePosition, StepDone, StoreField, CoordinatorFails, CoordinatorStops,
    CoordinatorRestarts, LoadField, NextMention, PositionAppears, FeedStep, OddsMove, Finish,
    PostResult, boardVars, allCoordinatorVars
<1>3. \/ asking' = asking \/ asking' = finished \/ asking' = {}
      \/ \E f \in asking : asking' = asking \ {f}
  BY DEF CoordinatorNext, CoordinatorStep, PollStep, BeginPoll, ListFinished, FetchDetail,
    LoadPositions, SettlePosition, StepDone, StoreField, CoordinatorFails, CoordinatorStops,
    CoordinatorRestarts, LoadField, NextMention, PositionAppears, coordinatorVars, loopVars,
    allCoordinatorVars
<1>4. loaded' = loaded \/ loaded' = book \/ loaded' = {}
  BY DEF CoordinatorNext, CoordinatorStep, PollStep, BeginPoll, ListFinished, FetchDetail,
    LoadPositions, SettlePosition, StepDone, StoreField, CoordinatorFails, CoordinatorStops,
    CoordinatorRestarts, LoadField, NextMention, PositionAppears, coordinatorVars, loopVars,
    allCoordinatorVars
<1>5. IsFiniteSet(finished') /\ IsFiniteSet(book')
  BY <1>1, <1>2, FS_AddElement DEF FiniteInv
<1>6. IsFiniteSet(asking')
  BY <1>3, FS_EmptySet, FS_RemoveElement DEF FiniteInv
<1>7. IsFiniteSet(loaded')
  BY <1>4, FS_EmptySet DEF FiniteInv
<1> QED BY <1>5, <1>6, <1>7 DEF FiniteInv

LEMMA StageType == Stage \in Nat
BY DEF Stage

LEMMA PendingFinite ==
  ASSUME FiniteInv, CoordinatorTypeOK
  PROVE  IsFiniteSet(Pending)
<1>1. IsFiniteSet(Fields)
  <2>1. Fields = (((({} \cup {"follow_wins"}) \cup {"follow_losses"}) \cup {"fade_wins"})
                  \cup {"fade_losses"}) \cup {"settled"}
    BY DEF Fields, Counters
  <2>2. \A S, x : IsFiniteSet(S) => IsFiniteSet(S \cup {x})
    BY FS_AddElement
  <2>3. IsFiniteSet({})
    BY FS_EmptySet
  <2> QED BY <2>1, <2>2, <2>3
<1>2. IsFiniteSet(unstored)
  BY <1>1, FS_Subset DEF CoordinatorTypeOK
<1>3. IsFiniteSet(Eligible)
  <2>1. Eligible \subseteq loaded
    BY DEF Eligible
  <2> QED BY <2>1, FS_Subset DEF FiniteInv
<1>4. IsFiniteSet(asking) /\ IsFiniteSet({})
  BY FS_EmptySet DEF FiniteInv
<1> QED BY <1>2, <1>3, <1>4 DEF Pending

(* A step of the poll loop spends a step, ends a stage, or works something *)
(* off.                                                                    *)
LEMMA PollStepLowers ==
  ASSUME CoordinatorTypeOK, PollStep
  PROVE  \/ csteps' = csteps + 1
         \/ csteps' = csteps /\ Stage' < Stage
         \/ csteps' = csteps /\ Stage' = Stage /\ Pending' \subseteq Pending /\ Pending' # Pending
<1>1. CASE BeginPoll
  BY <1>1 DEF BeginPoll
<1>2. CASE ListFinished
  BY <1>2 DEF ListFinished, budgetVars, Stage
<1>3. CASE \E f \in asking : FetchDetail(f)
  <2>1. PICK f \in asking : FetchDetail(f)
    BY <1>3
  <2>2. csteps' = csteps /\ cpc = "details" /\ cpc' = "details" /\ asking' = asking \ {f}
    BY <2>1 DEF FetchDetail, budgetVars
  <2>3. Pending = asking /\ Pending' = asking'
    BY <2>2 DEF Pending
  <2>4. Stage' = Stage
    BY <2>2 DEF Stage
  <2> QED BY <2>2, <2>3, <2>4
<1>4. CASE LoadPositions
  BY <1>4 DEF LoadPositions, budgetVars, Stage
<1>5. CASE \E p \in loaded : SettlePosition(p)
  <2>1. PICK p \in loaded : SettlePosition(p)
    BY <1>5
  <2>2. /\ csteps' = csteps /\ cpc = "settle" /\ cpc' = "settle" /\ p \in Eligible
        /\ settled' = settled \cup {p} /\ loaded' = loaded /\ results' = results
    BY <2>1 DEF SettlePosition, budgetVars, loopVars
  <2>3. Pending = Eligible /\ Pending' = Eligible'
    BY <2>2 DEF Pending
  <2>4. Eligible' = Eligible \ {p}
    BY <2>2 DEF Eligible
  <2>5. Stage' = Stage
    BY <2>2 DEF Stage
  <2> QED BY <2>2, <2>3, <2>4, <2>5
<1>6. CASE StepDone
  BY <1>6 DEF StepDone, budgetVars, Stage
<1>7. CASE \E x \in unstored : StoreField(x)
  <2>1. PICK x \in unstored : StoreField(x)
    BY <1>7
  <2>2. /\ csteps' = csteps /\ cpc = "publish" /\ unstored' = unstored \ {x}
        /\ cpc' \in {"idle", "publish"}
    BY <2>1 DEF StoreField, budgetVars
  <2>3. CASE cpc' = "idle"
    BY <2>2, <2>3 DEF Stage
  <2>4. CASE cpc' = "publish"
    <3>1. Pending = unstored /\ Pending' = unstored'
      BY <2>2, <2>4 DEF Pending
    <3>2. Stage' = Stage
      BY <2>2, <2>4 DEF Stage
    <3> QED BY <2>2, <3>1, <3>2
  <2> QED BY <2>2, <2>3, <2>4
<1> QED BY <1>1, <1>2, <1>3, <1>4, <1>5, <1>6, <1>7 DEF PollStep

(* Whatever else happens without a failure leaves what is to be done.      *)
LEMMA OthersAddNothing ==
  ASSUME CoordinatorTypeOK, [CoordinatorNext]_allCoordinatorVars, ~PollStep, faults' = faults
  PROVE  csteps' = csteps /\ Stage' = Stage /\ Pending' = Pending
<1>1. ~Fault
  BY DEF Fault, CoordinatorTypeOK, BoardTypeOK
<1>2. CASE CoordinatorStops
  <2>1. csteps' = csteps /\ cpc = "idle" /\ cpc' = "stopped"
    BY <1>2 DEF CoordinatorStops, budgetVars
  <2> QED BY <2>1 DEF Stage, Pending
<1>3. CASE UNCHANGED <<cpc, asking, results, loaded, settled, unstored, csteps>>
  <2>1. Eligible' = Eligible
    BY <1>3 DEF Eligible
  <2> QED BY <1>3, <2>1 DEF Stage, Pending
<1>4. CoordinatorStops \/ UNCHANGED <<cpc, asking, results, loaded, settled, unstored, csteps>>
  BY <1>1 DEF CoordinatorNext, CoordinatorStep, CoordinatorFails, CoordinatorRestarts, LoadField,
    NextMention, PositionAppears, coordinatorVars, loopVars, scoreVars, statusVars, budgetVars,
    allCoordinatorVars
<1> QED BY <1>2, <1>3, <1>4

(* No life of the coordinator is for ever busy with one poll, or polls for *)
(* ever: what the fairness of EventuallySettled has to run down is finite. *)
THEOREM LivesRunDown == CoordinatorSpec => PollsRunDown
<1>1. CoordinatorStart => FiniteInv
  BY FS_EmptySet DEF CoordinatorStart, BoardInit, CoordinatorInit, FiniteInv
<1>2. ASSUME CInv, CInv', FiniteInv, [CoordinatorNext]_allCoordinatorVars
      PROVE  /\ IsFiniteSet(Pending) /\ Stage \in Nat /\ csteps' <= CoordinatorSteps
             /\ PollStep =>
                  \/ csteps' = csteps + 1
                  \/ csteps' = csteps /\ Stage' < Stage
                  \/ /\ csteps' = csteps /\ Stage' = Stage
                     /\ Pending' \subseteq Pending /\ Pending' # Pending
             /\ ~PollStep /\ faults' = faults =>
                  csteps' = csteps /\ Stage' = Stage /\ Pending' = Pending
  <2>1. CoordinatorTypeOK /\ CoordinatorTypeOK'
    BY <1>2 DEF CInv
  <2>2. csteps' <= CoordinatorSteps
    BY <2>1 DEF CoordinatorTypeOK
  <2> QED BY <1>2, <2>1, <2>2, StageType, PendingFinite, PollStepLowers, OthersAddNothing
<1>3. CInv /\ CInv' /\ FiniteInv /\ [CoordinatorNext]_allCoordinatorVars =>
        [ /\ IsFiniteSet(Pending) /\ Stage \in Nat /\ csteps' <= CoordinatorSteps
          /\ PollStep =>
               \/ csteps' = csteps + 1
               \/ csteps' = csteps /\ Stage' < Stage
               \/ csteps' = csteps /\ Stage' = Stage /\ Pending' \subseteq Pending /\ Pending' # Pending
          /\ ~PollStep /\ faults' = faults =>
               csteps' = csteps /\ Stage' = Stage /\ Pending' = Pending ]_allCoordinatorVars
  BY <1>2
<1> QED BY <1>1, <1>3, StaysFinite, CoordinatorInvariant, PTL
        DEF CoordinatorSpec, PollsRunDown
=============================================================================
