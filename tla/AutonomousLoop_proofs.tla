------------------------ MODULE AutonomousLoop_proofs ------------------------
(***************************************************************************)
(* What the rate limit and the remembered odds of the live-trigger loop    *)
(* guarantee, for every set of fixtures, every interval and trigger, and   *)
(* any number of failures and restarts.                                    *)
(***************************************************************************)
EXTENDS AutonomousLoop, FiniteSetTheorems, WellFoundedInduction, TLAPS

(* A fixture that triggered a round in this life is stamped with its time  *)
(* or a later one; what the rounds were triggered by is remembered, but    *)
(* where a snapshot went back in time.                                     *)
Current(i) ==
  \/ rounds[i].to <= lastSeen[<<rounds[i].fixture, rounds[i].outcome>>]
  \/ <<rounds[i].fixture, rounds[i].outcome>> \in turned

Stamped ==
  \A i \in DOMAIN rounds :
    /\ rounds[i].life <= life
    /\ rounds[i].life = life =>
         /\ lastTriggered[rounds[i].fixture] # Never
         /\ rounds[i].at <= lastTriggered[rounds[i].fixture]
         /\ Current(i)

IInv == TypeOK /\ life <= faults + 1 /\ Stamped /\ OneRoundPerHour /\ MovesTriggerOnce

-----------------------------------------------------------------------------
(* No round has been started at the start. *)
LEMMA Starts == Init => IInv
  BY LoopAssumption DEF Init, IInv, TypeOK, Stamped, OneRoundPerHour, MovesTriggerOnce, Never

(* A set of numbers up to n has a greatest. *)
LEMMA BoundedMax ==
  ASSUME NEW n \in Nat, NEW S \in SUBSET (1..n), S # {}
  PROVE  \E x \in S : \A y \in S : x >= y
<1> DEFINE T == {n - x : x \in S}
           R == {ss \in Nat \X Nat : ss[1] < ss[2]}
<1>1. OpToRel(<,Nat) = R
  BY DEF OpToRel
<1>2. IsWellFoundedOn(R, Nat)
  BY <1>1, NatLessThanWellFounded
<1>3. \A x \in S : x \in Nat /\ n - x \in Nat
  OBVIOUS
<1>4. T \subseteq Nat /\ T # {}
  BY <1>3
<1> HIDE DEF R, T
<1>5. PICK t \in T : \A y \in T : <<y, t>> \notin R
  BY <1>2, <1>4, WFMin
<1>6. t \in Nat /\ \A y \in T : y \in Nat /\ ~(y < t)
  BY <1>4, <1>5 DEF R
<1>7. PICK x \in S : t = n - x
  BY DEF T
<1>8. ASSUME NEW y \in S PROVE x >= y
  <2>1. n - y \in T
    BY DEF T
  <2> QED BY <1>3, <1>6, <1>7, <2>1
<1> QED BY <1>8

(* The newest row of a snapshot is a price the market has shown. *)
LEMMA NewestIsShown ==
  ASSUME TypeOK, NEW f \in Fixtures, NEW s \in Snapshots(f), NEW o \in Outcomes, s[o] # {}
  PROVE  LatestPerOutcome(s, o) \in 1..Len(market[<<f, o>>])
<1>1. Len(market[<<f, o>>]) \in Nat /\ s[o] \in SUBSET (1..Len(market[<<f, o>>]))
  BY DEF TypeOK, Snapshots, Quotes
<1>2. \E x \in s[o] : \A y \in s[o] : x >= y
  BY <1>1, BoundedMax
<1>3. LatestPerOutcome(s, o) \in s[o]
  BY <1>2 DEF LatestPerOutcome, Max
<1> QED BY <1>1, <1>3

(* What a poll remembers, the market has shown; and what it goes back      *)
(* behind is on record.                                                    *)
LEMMA RememberIsShown ==
  ASSUME TypeOK, NEW f \in Fixtures, NEW s \in Snapshots(f), Remember(f, s)
  PROVE  /\ lastSeen' \in [Quotes -> Nat] /\ turned' \subseteq Quotes /\ turned \subseteq turned'
         /\ \A q \in Quotes : /\ lastSeen'[q] <= Len(market[q])
                              /\ lastSeen[q] <= lastSeen'[q] \/ q \in turned'
<1>1. lastSeen' = Baseline(f, s) /\ turned' = turned \cup {q \in Quotes : lastSeen'[q] < lastSeen[q]}
  BY DEF Remember
<1>2. ASSUME NEW q \in Quotes
      PROVE  Baseline(f, s)[q] \in Nat /\ Baseline(f, s)[q] <= Len(market[q])
  <2>1. CASE q[1] = f /\ q[2] \in Quoted(s)
    <3>1. q = <<f, q[2]>> /\ q[2] \in Outcomes /\ s[q[2]] # {}
      BY <2>1 DEF Quotes, Quoted
    <3>2. Baseline(f, s)[q] = LatestPerOutcome(s, q[2])
      BY <2>1 DEF Baseline
    <3>3. Baseline(f, s)[q] \in 1..Len(market[q]) /\ Len(market[q]) \in Nat
      BY <3>1, <3>2, NewestIsShown DEF TypeOK
    <3> QED BY <3>3
  <2>2. CASE ~(q[1] = f /\ q[2] \in Quoted(s))
    BY <2>2 DEF Baseline, TypeOK
  <2> QED BY <2>1, <2>2
<1>3. lastSeen' \in [Quotes -> Nat]
  BY <1>1, <1>2 DEF Baseline
<1>4. \A q \in Quotes : lastSeen[q] \in Nat /\ lastSeen'[q] \in Nat
  BY <1>3 DEF TypeOK
<1> QED BY <1>1, <1>2, <1>3, <1>4 DEF TypeOK

(* A round of this life stays current across a poll. *)
LEMMA StaysCurrent ==
  ASSUME TypeOK, NEW f \in Fixtures, NEW s \in Snapshots(f), Remember(f, s),
         NEW r \in Rounds,
         r.to <= lastSeen[<<r.fixture, r.outcome>>] \/ <<r.fixture, r.outcome>> \in turned
  PROVE  r.to <= lastSeen'[<<r.fixture, r.outcome>>] \/ <<r.fixture, r.outcome>> \in turned'
<1>1. <<r.fixture, r.outcome>> \in Quotes /\ r.to \in Nat
  BY DEF Rounds, Quotes
<1> DEFINE q == <<r.fixture, r.outcome>>
<1>2. /\ lastSeen'[q] \in Nat /\ turned \subseteq turned' /\ lastSeen[q] \in Nat
      /\ lastSeen[q] <= lastSeen'[q] \/ q \in turned'
  BY <1>1, RememberIsShown DEF TypeOK
<1> HIDE DEF q
<1>3. r.to <= lastSeen[q] \/ q \in turned
  BY DEF q
<1>4. r.to <= lastSeen'[q] \/ q \in turned'
  BY <1>1, <1>2, <1>3
<1> QED BY <1>4 DEF q

(* A poll that triggers nothing remembers the odds it saw, no more. *)
LEMMA QuietKeeps ==
  ASSUME IInv, NEW f \in Fixtures, NEW s \in Snapshots(f), PollQuietly(f, s)
  PROVE  IInv'
<1>1. Remember(f, s)
  BY DEF PollQuietly
<1>2. /\ lastSeen' \in [Quotes -> Nat] /\ turned' \subseteq Quotes
      /\ \A q \in Quotes : lastSeen'[q] <= Len(market[q])
  BY <1>1, RememberIsShown DEF IInv
<1>3. /\ lpc = "poll" /\ todo' = todo \ {f}
      /\ UNCHANGED <<market, time, enabled, lpc, lastTriggered, rounds, life, faults>>
  BY DEF PollQuietly
<1>4. TypeOK'
  BY <1>2, <1>3 DEF IInv, TypeOK
<1>5. Stamped'
  <2> SUFFICES ASSUME NEW i \in DOMAIN rounds, rounds[i].life = life
               PROVE  Current(i)'
    BY <1>3 DEF IInv, Stamped
  <2>1. rounds[i] \in Rounds /\ Current(i)
    BY DEF IInv, TypeOK, Stamped
  <2> QED BY <1>1, <1>3, <2>1, StaysCurrent DEF IInv, Current
<1>6. (OneRoundPerHour /\ MovesTriggerOnce)' /\ (life <= faults + 1)'
  BY <1>3 DEF IInv, OneRoundPerHour, MovesTriggerOnce
<1> QED BY <1>4, <1>5, <1>6 DEF IInv

(* The round a poll triggers. *)
LEMMA RoundIsTyped ==
  ASSUME IInv, NEW f \in Fixtures, NEW s \in Snapshots(f), NEW o \in Triggers(f, s),
         Remember(f, s)
  PROVE  LET r == Round(f, s, o)
         IN  /\ r \in Rounds /\ r.life = life /\ r.fixture = f /\ r.outcome = o /\ r.at = time
             /\ r.from = lastSeen[<<f, o>>] /\ r.to = lastSeen'[<<f, o>>]
             /\ r.turned = (<<f, o>> \in turned) /\ o \in Outcomes
<1>1. o \in Outcomes /\ s[o] # {} /\ <<f, o>> \in Quotes /\ o \in Quoted(s)
  BY DEF Triggers, Quoted, Quotes
<1>2. LatestPerOutcome(s, o) \in Nat
  <2>1. LatestPerOutcome(s, o) \in 1..Len(market[<<f, o>>]) /\ Len(market[<<f, o>>]) \in Nat
    BY <1>1, NewestIsShown DEF IInv, TypeOK
  <2> QED BY <2>1
<1>3. LatestPerOutcome(s, o) = lastSeen'[<<f, o>>]
  BY <1>1 DEF Remember, Baseline
<1>4. life \in Nat /\ time \in Nat /\ lastSeen[<<f, o>>] \in Nat
  BY <1>1, LoopAssumption DEF IInv, TypeOK
<1>5. Round(f, s, o) \in Rounds
  BY <1>1, <1>2, <1>4 DEF Round, Rounds
<1> QED BY <1>1, <1>3, <1>5 DEF Round

(* A poll that triggers consumes a move and stamps the hour. *)
LEMMA TriggerKeeps ==
  ASSUME IInv, NEW f \in Fixtures, NEW s \in Snapshots(f), TriggerRound(f, s)
  PROVE  IInv'
<1>1. PICK o \in Triggers(f, s) : rounds' = Append(rounds, Round(f, s, o))
  BY DEF TriggerRound
<1> DEFINE r == Round(f, s, o)
<1>0. Remember(f, s)
  BY DEF TriggerRound
<1>2. /\ lastSeen' \in [Quotes -> Nat] /\ turned' \subseteq Quotes
      /\ \A q \in Quotes : lastSeen'[q] <= Len(market[q])
  BY <1>0, RememberIsShown DEF IInv
<1>3. /\ lpc = "poll" /\ lpc' = "round" /\ todo' = todo \ {f} /\ ~Cooling(f)
      /\ lastTriggered' = [lastTriggered EXCEPT ![f] = time]
      /\ UNCHANGED <<market, time, enabled, life, faults>>
  BY DEF TriggerRound, Stamp
<1>4. /\ r \in Rounds /\ r.life = life /\ r.fixture = f /\ r.outcome = o /\ r.at = time
      /\ r.from = lastSeen[<<f, o>>] /\ r.to = lastSeen'[<<f, o>>]
      /\ r.turned = (<<f, o>> \in turned) /\ o \in Outcomes
  BY <1>0, RoundIsTyped
<1>7. r \in Rounds /\ rounds \in Seq(Rounds) /\ rounds' = Append(rounds, r)
  BY <1>1, <1>4 DEF IInv, TypeOK
<1> HIDE DEF r
<1>8. /\ rounds' \in Seq(Rounds) /\ Len(rounds') = Len(rounds) + 1
      /\ Len(rounds) \in Nat /\ rounds'[Len(rounds) + 1] = r
      /\ \A i \in DOMAIN rounds : rounds'[i] = rounds[i]
      /\ DOMAIN rounds = 1..Len(rounds) /\ DOMAIN rounds' = 1..(Len(rounds) + 1)
  BY <1>7
<1>9. TypeOK'
  BY <1>2, <1>3, <1>8, LoopAssumption DEF IInv, TypeOK
<1>10. Stamped'
  <2> SUFFICES ASSUME NEW i \in DOMAIN rounds'
               PROVE  /\ rounds'[i].life <= life
                      /\ rounds'[i].life = life =>
                           /\ lastTriggered'[rounds'[i].fixture] # Never
                           /\ rounds'[i].at <= lastTriggered'[rounds'[i].fixture]
                           /\ Current(i)'
    BY <1>3 DEF Stamped
  <2>1. CASE i = Len(rounds) + 1
    <3>1. rounds'[i] = r /\ lastTriggered'[f] = time
      BY <1>3, <1>8, <2>1 DEF IInv, TypeOK
    <3>2. <<f, o>> \in Quotes /\ time \in Nat /\ life \in Nat
      BY <1>4, LoopAssumption DEF Quotes, IInv, TypeOK
    <3>3. lastSeen'[<<f, o>>] \in Nat
      BY <1>2, <3>2
    <3>4. Current(i)'
      BY <1>4, <3>1, <3>3 DEF Current
    <3> QED BY <1>4, <3>1, <3>2, <3>4 DEF Never
  <2>2. CASE i \in DOMAIN rounds
    <3>1. rounds'[i] = rounds[i] /\ rounds[i] \in Rounds
      BY <1>7, <1>8, <2>2
    <3>2. rounds[i].at \in Nat /\ rounds[i].fixture \in Fixtures
      BY <3>1 DEF Rounds
    <3>3. ASSUME rounds[i].life = life
          PROVE  Current(i)'
      <4>1. Current(i)
        BY <2>2, <3>3 DEF IInv, Stamped
      <4> QED BY <1>0, <3>1, <4>1, StaysCurrent DEF IInv, Current
    <3>4. ASSUME rounds[i].life = life
          PROVE  /\ lastTriggered'[rounds[i].fixture] # Never
                 /\ rounds[i].at <= lastTriggered'[rounds[i].fixture]
      <4>1. /\ lastTriggered[rounds[i].fixture] # Never
            /\ rounds[i].at <= lastTriggered[rounds[i].fixture]
            /\ lastTriggered[rounds[i].fixture] \in {Never} \cup 0..time
        BY <2>2, <3>2, <3>4 DEF IInv, Stamped, TypeOK
      <4>2. lastTriggered'[rounds[i].fixture] \in {lastTriggered[rounds[i].fixture], time}
        BY <1>3, <3>2 DEF IInv, TypeOK
      <4>3. time \in Nat /\ rounds[i].at <= time
        <5>1. time \in Nat
          BY LoopAssumption DEF IInv, TypeOK
        <5>2. lastTriggered[rounds[i].fixture] \in 0..time
          BY <4>1
        <5> QED BY <3>2, <4>1, <5>1, <5>2
      <4> QED BY <4>1, <4>2, <4>3, <3>2 DEF Never
    <3> QED BY <2>2, <3>1, <3>3, <3>4 DEF IInv, Stamped
  <2> QED BY <2>1, <2>2, <1>8
<1>11. ASSUME NEW i \in DOMAIN rounds, rounds[i].life = life, rounds[i].fixture = f
       PROVE  time - rounds[i].at >= RetriggerInterval
  <2>0. rounds[i] \in Rounds
    BY <1>7
  <2>1. /\ rounds[i].at \in Nat /\ lastTriggered[f] # Never
        /\ rounds[i].at <= lastTriggered[f]
    BY <1>11, <2>0 DEF IInv, Stamped, Rounds
  <2>3. lastTriggered[f] \in 0..time
    BY <2>1 DEF IInv, TypeOK
  <2>2. time - lastTriggered[f] >= RetriggerInterval
    BY <1>3, <2>1, <2>3, LoopAssumption DEF Cooling, IInv, TypeOK
  <2> QED BY <2>1, <2>2, <2>3, LoopAssumption DEF IInv, TypeOK
<1>12. OneRoundPerHour'
  <2> SUFFICES ASSUME NEW i \in DOMAIN rounds', NEW j \in DOMAIN rounds', i < j,
                      rounds'[i].life = rounds'[j].life,
                      rounds'[i].fixture = rounds'[j].fixture
               PROVE  rounds'[j].at - rounds'[i].at >= RetriggerInterval
    BY DEF OneRoundPerHour
  <2>1. i \in DOMAIN rounds /\ rounds'[i] = rounds[i]
    BY <1>8
  <2>2. CASE j \in DOMAIN rounds
    BY <1>8, <2>1, <2>2 DEF IInv, OneRoundPerHour
  <2>3. CASE j = Len(rounds) + 1
    BY <1>4, <1>8, <1>11, <2>1, <2>3
  <2> QED BY <1>8, <2>2, <2>3
<1>13. MovesTriggerOnce'
  <2> SUFFICES ASSUME NEW i \in DOMAIN rounds', NEW j \in DOMAIN rounds', i < j,
                      rounds'[i].life = rounds'[j].life,
                      rounds'[i].fixture = rounds'[j].fixture,
                      rounds'[i].outcome = rounds'[j].outcome
               PROVE  rounds'[i].to <= rounds'[j].from \/ rounds'[j].turned
    BY DEF MovesTriggerOnce
  <2>1. i \in DOMAIN rounds /\ rounds'[i] = rounds[i]
    BY <1>8
  <2>2. CASE j \in DOMAIN rounds
    BY <1>8, <2>1, <2>2 DEF IInv, MovesTriggerOnce
  <2>3. CASE j = Len(rounds) + 1
    <3>1. rounds'[j] = r
      BY <1>8, <2>3
    <3>2. rounds[i].life = life /\ rounds[i].fixture = f /\ rounds[i].outcome = o
      BY <1>4, <2>1, <3>1
    <3>3. Current(i)
      BY <2>1, <3>2 DEF IInv, Stamped
    <3>4. rounds[i].to <= lastSeen[<<f, o>>] \/ <<f, o>> \in turned
      BY <3>2, <3>3, Zenon DEF Current
    <3> QED BY <1>4, <2>1, <3>1, <3>4
  <2> QED BY <1>8, <2>2, <2>3
<1> QED BY <1>3, <1>9, <1>10, <1>12, <1>13 DEF IInv

(* The desktop starts again: no round is of the new life yet.              *)
LEMMA RestartKeeps ==
  ASSUME IInv, Restart
  PROVE  IInv'
<1>1. /\ faults < MaxFaults /\ faults' = faults + 1 /\ life' = life + 1
      /\ lpc' = "sleep" /\ todo' = {} /\ enabled' \in BOOLEAN
      /\ lastSeen' = [q \in Quotes |-> 0]
      /\ lastTriggered' = [f \in Fixtures |-> Never] /\ turned' = {}
      /\ UNCHANGED <<market, time, rounds>>
  BY DEF Restart, Fails
<1>2. TypeOK' /\ (life <= faults + 1)'
  BY <1>1, LoopAssumption DEF IInv, TypeOK
<1>3. Stamped'
  <2>1. ASSUME NEW i \in DOMAIN rounds
        PROVE  rounds[i].life <= life' /\ rounds[i].life # life'
    <3>1. rounds[i].life \in Nat /\ rounds[i].life <= life /\ life \in Nat
      <4>1. rounds[i] \in Rounds /\ life \in Nat
        BY LoopAssumption DEF IInv, TypeOK
      <4> QED BY <4>1 DEF IInv, Stamped, Rounds
    <3> QED BY <1>1, <3>1
  <2> QED BY <1>1, <2>1 DEF Stamped
<1>4. (OneRoundPerHour /\ MovesTriggerOnce)'
  BY <1>1 DEF IInv, OneRoundPerHour, MovesTriggerOnce
<1> QED BY <1>2, <1>3, <1>4 DEF IInv

(* A bound stays one when it grows. *)
LEMMA StaysBelow ==
  ASSUME NEW n \in Int, NEW low \in Int, NEW high \in Int, n <= low + 1, high >= low
  PROVE  n <= high + 1
  OBVIOUS

(* A step that leaves the memory, the rounds and the life alone.           *)
LEMMA OthersKeep ==
  ASSUME IInv, TypeOK', UNCHANGED <<lastSeen, lastTriggered, turned, rounds, life>>, faults' >= faults
  PROVE  IInv'
<1>1. Stamped' /\ OneRoundPerHour' /\ MovesTriggerOnce'
  BY DEF IInv, Stamped, Current, OneRoundPerHour, MovesTriggerOnce
<1>2. (life <= faults + 1)'
  <2>1. life' = life /\ life \in 1..(MaxFaults + 1) /\ faults \in 0..MaxFaults
    BY DEF IInv, TypeOK
  <2>2. faults' \in 0..MaxFaults /\ MaxFaults \in Nat
    BY LoopAssumption DEF TypeOK
  <2>3. life <= faults + 1
    BY DEF IInv
  <2>4. life \in Int /\ faults \in Int /\ faults' \in Int /\ faults' >= faults
    BY <2>1, <2>2
  <2>5. life <= faults' + 1
    BY <2>3, <2>4, StaysBelow
  <2> QED BY <2>1, <2>5
<1> QED BY <1>1, <1>2 DEF IInv

(* A step that moves the loop or the switch, or fails.                     *)
LEMMA MovesKeep ==
  ASSUME IInv, UNCHANGED <<market, time, lastSeen, lastTriggered, turned, rounds, life>>,
         faults' = faults \/ Fails,
         enabled' \in BOOLEAN, lpc' \in {"sleep", "window", "poll", "round"},
         todo' \subseteq Fixtures, todo' # {} => lpc' \in {"poll", "round"}
  PROVE  IInv'
<1>1. faults' \in 0..MaxFaults /\ faults' >= faults
  BY LoopAssumption DEF Fails, IInv, TypeOK
<1>2. TypeOK'
  BY <1>1 DEF IInv, TypeOK
<1> QED BY <1>1, <1>2, OthersKeep

(* Every step keeps the invariant. *)
LEMMA StepKeeps == IInv /\ [LoopNext]_vars => IInv'
<1> SUFFICES ASSUME IInv, [LoopNext]_vars PROVE IInv'
  OBVIOUS
<1> USE LoopAssumption
<1>0. /\ enabled \in BOOLEAN /\ lpc \in {"sleep", "window", "poll", "round"}
      /\ todo \subseteq Fixtures /\ (todo # {} => lpc \in {"poll", "round"})
  BY DEF IInv, TypeOK
<1>1. CASE Wake \/ EndCycle \/ RoundReturns
  <2>1. CASE Wake
    BY <1>0, <2>1, MovesKeep DEF Wake
  <2>2. CASE EndCycle
    BY <1>0, <2>2, MovesKeep DEF EndCycle
  <2>3. CASE RoundReturns
    BY <1>0, <2>3, MovesKeep DEF RoundReturns
  <2> QED BY <1>1, <2>1, <2>2, <2>3
<1>2. ASSUME NEW live \in SUBSET Fixtures, FetchWindow(live)
      PROVE  IInv'
  BY <1>0, <1>2, MovesKeep DEF FetchWindow
<1>3. ASSUME NEW f \in Fixtures, NEW s \in Snapshots(f), PollQuietly(f, s) \/ TriggerRound(f, s)
      PROVE  IInv'
  BY <1>3, QuietKeeps, TriggerKeeps
<1>4. CASE FetchWindowFails
  BY <1>0, <1>4, MovesKeep DEF FetchWindowFails
<1>5. ASSUME NEW f \in Fixtures, PollFails(f)
      PROVE  IInv'
  BY <1>0, <1>5, MovesKeep DEF PollFails
<1>6. CASE SetEnabled
  BY <1>0, <1>6, MovesKeep DEF SetEnabled
<1>7. CASE TimePasses
  <2>1. time \in 0..MaxTime /\ time' \in 0..MaxTime /\ time <= time' /\ faults' = faults
    BY <1>7 DEF TimePasses, IInv, TypeOK
  <2>2. {Never} \cup 0..time \subseteq {Never} \cup 0..time'
    BY <2>1
  <2>3. lastTriggered' \in [Fixtures -> {Never} \cup 0..time']
    BY <1>7, <2>2 DEF TimePasses, IInv, TypeOK
  <2>4. TypeOK'
    BY <1>7, <2>1, <2>3 DEF TimePasses, IInv, TypeOK
  <2>5. faults' >= faults /\ UNCHANGED <<lastSeen, lastTriggered, turned, rounds, life>>
    BY <1>7 DEF TimePasses, IInv, TypeOK
  <2> QED BY <2>4, <2>5, OthersKeep
<1>8. ASSUME NEW q \in Quotes, NEW p \in Prices, Show(q, p)
      PROVE  IInv'
  <2>1. /\ market' = [market EXCEPT ![q] = Append(market[q], p)]
        /\ UNCHANGED <<time, enabled, lpc, todo, lastSeen, lastTriggered, turned, rounds, life, faults>>
    BY <1>8 DEF Show
  <2>2. Append(market[q], p) \in Seq(Prices) /\ Len(Append(market[q], p)) = Len(market[q]) + 1
    BY DEF IInv, TypeOK
  <2>3. market' \in [Quotes -> Seq(Prices)]
    BY <2>1, <2>2 DEF IInv, TypeOK
  <2>4. ASSUME NEW x \in Quotes
        PROVE  Len(market[x]) <= Len(market'[x]) /\ Len(market[x]) \in Nat /\ Len(market'[x]) \in Nat
    <3>1. market[x] \in Seq(Prices) /\ market'[x] \in Seq(Prices)
      BY <2>3 DEF IInv, TypeOK
    <3>2. CASE x = q
      BY <2>1, <2>2, <3>1, <3>2 DEF IInv, TypeOK
    <3>3. CASE x # q
      BY <2>1, <3>1, <3>3 DEF IInv, TypeOK
    <3> QED BY <3>2, <3>3
  <2>5. TypeOK'
    BY <2>1, <2>3, <2>4 DEF IInv, TypeOK
  <2>6. faults' >= faults
    BY <2>1 DEF IInv, TypeOK
  <2> QED BY <2>1, <2>5, <2>6, OthersKeep
<1>9. CASE UNCHANGED vars
  BY <1>0, <1>9, MovesKeep DEF vars
<1> QED BY <1>1, <1>2, <1>3, <1>4, <1>5, <1>6, <1>7, <1>8, <1>9, RestartKeeps
        DEF LoopNext, LoopStep, CycleStep

(* The invariant holds of every reachable state. *)
LEMMA Invariance == LoopSpec => []IInv
BY Starts, StepKeeps, PTL DEF LoopSpec

-----------------------------------------------------------------------------
(* The loop's variables keep their types, and it remembers no odds that    *)
(* the market has not shown.                                               *)
THEOREM LoopTypes == LoopSpec => []TypeOK
<1>1. IInv => TypeOK
  BY DEF IInv
<1> QED BY <1>1, Invariance, PTL

(* At most one round per fixture and interval in one life of the desktop,  *)
(* whether rounds succeed, fail or outlast it (autonomous.rs: the stamp of *)
(* poll_fixture before the round).                                         *)
THEOREM HourIsKept == LoopSpec => []OneRoundPerHour
<1>1. IInv => OneRoundPerHour
  BY DEF IInv
<1> QED BY <1>1, Invariance, PTL

(* No movement sets off two rounds, whatever the rate limit swallows and   *)
(* whichever polls fail (autonomous.rs: last_seen is updated first).       *)
THEOREM NoMoveTriggersTwice == LoopSpec => []MovesTriggerOnce
<1>1. IInv => MovesTriggerOnce
  BY DEF IInv
<1> QED BY <1>1, Invariance, PTL

-----------------------------------------------------------------------------
(* No move is lost                                                         *)

(* Between the i-th and the j-th price an outcome showed lies a sharp move. *)
SharpBetween(q, i, j) ==
  LET previous == market[q][i]
      current  == market[q][j]
      change   == IF current > previous THEN current - previous ELSE previous - current
  IN  change * 100 >= TriggerPct * previous

(* A stamp is the time of a round of this life. *)
StampsAreRounds ==
  \A f \in Fixtures :
    lastTriggered[f] # Never =>
      \E i \in DOMAIN rounds :
        /\ rounds[i].life = life /\ rounds[i].fixture = f
        /\ rounds[i].at = lastTriggered[f]

(* The remembered price of an outcome moves in polls of its own fixture    *)
(* only; and it moves across a sharp move only if a round of the fixture   *)
(* is triggered now or was less than the interval ago.  The other side of  *)
(* OneRoundPerHour: the rate limit is the only thing that swallows a move. *)
SharpMovesAreAnswered ==
  [][\A q \in Quotes :
       life' = life /\ lastSeen'[q] # lastSeen[q] =>
         /\ q[1] \in todo \ todo'
         /\ lastSeen[q] # 0 /\ SharpBetween(q, lastSeen[q], lastSeen'[q]) =>
              \E i \in DOMAIN rounds' :
                /\ rounds'[i].life = life /\ rounds'[i].fixture = q[1]
                /\ rounds'[i].at = time \/ time - rounds'[i].at < RetriggerInterval]_vars

(* What is left of a cycle. *)
Stage ==
  CASE lpc = "window" -> 2 [] lpc \in {"poll", "round"} -> 1 [] OTHER -> 0

(* Each step of a cycle ends a stage of it or takes fixtures off the       *)
(* window, each of which is polled once, or returns from the one round     *)
(* under way; the market, the clock and the switch add nothing.            *)
CyclesRunDown ==
  [][ /\ IsFiniteSet(todo) /\ Stage \in Nat
      /\ LoopStep /\ ~Wake =>
           \/ Stage' < Stage
           \/ Stage' = Stage /\ todo' \subseteq todo /\ todo' # todo
           \/ Stage' = Stage /\ todo' = todo /\ lpc = "round" /\ lpc' = "poll"
      /\ ~LoopStep /\ faults' = faults => UNCHANGED <<lpc, todo>> ]_vars

(* A round stamps its fixture and is appended to the rounds. *)
LEMMA RoundIsStamped ==
  ASSUME IInv, NEW f \in Fixtures, NEW s \in Snapshots(f), TriggerRound(f, s)
  PROVE  /\ \A i \in DOMAIN rounds : i \in DOMAIN rounds' /\ rounds'[i] = rounds[i]
         /\ Len(rounds) + 1 \in DOMAIN rounds'
         /\ rounds'[Len(rounds) + 1].life = life
         /\ rounds'[Len(rounds) + 1].fixture = f
         /\ rounds'[Len(rounds) + 1].at = time
         /\ lastTriggered' = [lastTriggered EXCEPT ![f] = time]
<1>2. PICK o \in Triggers(f, s) : rounds' = Append(rounds, Round(f, s, o))
  BY DEF TriggerRound
<1> DEFINE r == Round(f, s, o)
<1>3. r.life = life /\ r.fixture = f /\ r.at = time
  BY DEF Round
<1>4. rounds' = Append(rounds, r) /\ rounds \in Seq(Rounds)
  BY <1>2 DEF IInv, TypeOK
<1> HIDE DEF r
<1>5. /\ Len(rounds) \in Nat /\ Len(rounds') = Len(rounds) + 1
      /\ rounds'[Len(rounds) + 1] = r
      /\ \A i \in 1..Len(rounds) : rounds'[i] = rounds[i]
      /\ DOMAIN rounds = 1..Len(rounds) /\ DOMAIN rounds' = 1..(Len(rounds) + 1)
  BY <1>4
<1>6. lastTriggered' = [lastTriggered EXCEPT ![f] = time]
  BY DEF TriggerRound, Stamp
<1>7. \A i \in 1..Len(rounds) : i \in 1..(Len(rounds) + 1)
  BY <1>5
<1>8. Len(rounds) + 1 \in 1..(Len(rounds) + 1)
  BY <1>5
<1> QED BY <1>3, <1>5, <1>6, <1>7, <1>8

(* Only a round writes a stamp, and only a restart erases one. *)
LEMMA StampsStay ==
  ASSUME IInv, StampsAreRounds, [LoopNext]_vars
  PROVE  StampsAreRounds'
<1>1. ASSUME NEW f \in Fixtures, NEW s \in Snapshots(f), TriggerRound(f, s)
      PROVE  StampsAreRounds'
  <2> SUFFICES ASSUME NEW g \in Fixtures, lastTriggered'[g] # Never
               PROVE  \E i \in DOMAIN rounds' :
                        /\ rounds'[i].life = life /\ rounds'[i].fixture = g
                        /\ rounds'[i].at = lastTriggered'[g]
    BY <1>1 DEF StampsAreRounds, TriggerRound
  <2>1. lastTriggered'[f] = time /\ \A h \in Fixtures : h # f => lastTriggered'[h] = lastTriggered[h]
    BY <1>1, RoundIsStamped DEF IInv, TypeOK
  <2>2. CASE g = f
    BY <1>1, <2>1, <2>2, RoundIsStamped
  <2>3. CASE g # f
    <3>1. PICK i \in DOMAIN rounds :
            rounds[i].life = life /\ rounds[i].fixture = g /\ rounds[i].at = lastTriggered[g]
      BY <2>1, <2>3 DEF StampsAreRounds
    <3>2. i \in DOMAIN rounds' /\ rounds'[i] = rounds[i]
      BY <1>1, RoundIsStamped
    <3> QED BY <2>1, <2>3, <3>1, <3>2
  <2> QED BY <2>2, <2>3
<1>2. CASE Restart
  BY <1>2 DEF Restart, StampsAreRounds
<1>3. CASE UNCHANGED <<lastTriggered, rounds, life>>
  BY <1>3 DEF StampsAreRounds
<1>4. \/ \E f \in Fixtures : \E s \in Snapshots(f) : TriggerRound(f, s)
      \/ Restart
      \/ UNCHANGED <<lastTriggered, rounds, life>>
  BY DEF LoopNext, LoopStep, CycleStep, Wake, EndCycle, RoundReturns, FetchWindow, PollQuietly,
    FetchWindowFails, SetEnabled, TimePasses, PollFails, Show, vars
<1> QED BY <1>1, <1>2, <1>3, <1>4

(* A poll's new baselines are of the polled fixture, and a sharp move to   *)
(* one of them is a trigger.                                               *)
LEMMA PollLooks ==
  ASSUME IInv, NEW f \in Fixtures, NEW s \in Snapshots(f), Remember(f, s),
         NEW q \in Quotes, lastSeen'[q] # lastSeen[q]
  PROVE  /\ q[1] = f
         /\ lastSeen[q] # 0 /\ SharpBetween(q, lastSeen[q], lastSeen'[q]) => Triggers(f, s) # {}
<1>1. q[1] = f /\ q[2] \in Quoted(s) /\ lastSeen'[q] = LatestPerOutcome(s, q[2])
  BY DEF Remember, Baseline
<1>2. q = <<f, q[2]>>
  BY <1>1 DEF Quotes
<1>3. ASSUME lastSeen[q] # 0, SharpBetween(q, lastSeen[q], lastSeen'[q])
      PROVE  q[2] \in Triggers(f, s)
  <2>1. IsSharp(f, s, q[2])
    BY <1>1, <1>2, <1>3, Zenon DEF IsSharp, SharpBetween
  <2> QED BY <1>1, <2>1 DEF Triggers
<1> QED BY <1>1, <1>3

(* Of what the loop sees, only the rate limit keeps a sharp move from a    *)
(* round, and then a round there was (autonomous.rs: poll_fixture).        *)
THEOREM SharpMovesTrigger == LoopSpec => SharpMovesAreAnswered
<1>1. Init => StampsAreRounds
  BY DEF Init, StampsAreRounds
<1>2. ASSUME IInv, StampsAreRounds, [LoopNext]_vars, NEW q \in Quotes,
             life' = life, lastSeen'[q] # lastSeen[q]
      PROVE  /\ q[1] \in todo \ todo'
             /\ lastSeen[q] # 0 /\ SharpBetween(q, lastSeen[q], lastSeen'[q]) =>
                  \E i \in DOMAIN rounds' :
                    /\ rounds'[i].life = life /\ rounds'[i].fixture = q[1]
                    /\ rounds'[i].at = time \/ time - rounds'[i].at < RetriggerInterval
  <2>1. life \in Nat
    BY <1>2, LoopAssumption DEF IInv, TypeOK
  <2>2. \E f \in Fixtures : \E s \in Snapshots(f) : PollQuietly(f, s) \/ TriggerRound(f, s)
    BY <1>2, <2>1 DEF LoopNext, LoopStep, CycleStep, Wake, EndCycle, RoundReturns, FetchWindow,
      FetchWindowFails, Restart, SetEnabled, TimePasses, PollFails, Show, vars
  <2>a. PICK f \in Fixtures : \E s \in Snapshots(f) : PollQuietly(f, s) \/ TriggerRound(f, s)
    BY <2>2
  <2>3. PICK s \in Snapshots(f) : PollQuietly(f, s) \/ TriggerRound(f, s)
    BY <2>a
  <2>4. f \in todo /\ f \notin todo'
    BY <2>3 DEF PollQuietly, TriggerRound
  <2>5. CASE PollQuietly(f, s)
    <3>1. (Triggers(f, s) = {} \/ Cooling(f)) /\ Remember(f, s)
      BY <2>5 DEF PollQuietly
    <3>2. /\ q[1] = f
          /\ lastSeen[q] # 0 /\ SharpBetween(q, lastSeen[q], lastSeen'[q]) => Triggers(f, s) # {}
      BY <1>2, <2>4, <3>1, PollLooks
    <3>3. ASSUME Cooling(f)
          PROVE  \E i \in DOMAIN rounds' :
                   /\ rounds'[i].life = life /\ rounds'[i].fixture = f
                   /\ time - rounds'[i].at < RetriggerInterval
      <4>1. lastTriggered[f] # Never /\ time - lastTriggered[f] < RetriggerInterval
        BY <3>3 DEF Cooling
      <4>2. PICK i \in DOMAIN rounds :
              rounds[i].life = life /\ rounds[i].fixture = f /\ rounds[i].at = lastTriggered[f]
        BY <1>2, <4>1 DEF StampsAreRounds
      <4>3. rounds' = rounds
        BY <2>5 DEF PollQuietly
      <4> QED BY <4>1, <4>2, <4>3
    <3> QED BY <2>4, <3>1, <3>2, <3>3
  <2>6. CASE TriggerRound(f, s)
    <3>1. Remember(f, s)
      BY <2>6 DEF TriggerRound
    <3>2. q[1] = f
      BY <1>2, <2>4, <3>1, PollLooks
    <3>3. \E i \in DOMAIN rounds' :
            rounds'[i].life = life /\ rounds'[i].fixture = f /\ rounds'[i].at = time
      BY <1>2, <2>6, RoundIsStamped
    <3> QED BY <2>4, <3>2, <3>3
  <2> QED BY <2>3, <2>5, <2>6
<1>3. IInv /\ StampsAreRounds /\ [LoopNext]_vars =>
        [\A q \in Quotes :
           life' = life /\ lastSeen'[q] # lastSeen[q] =>
             /\ q[1] \in todo \ todo'
             /\ lastSeen[q] # 0 /\ SharpBetween(q, lastSeen[q], lastSeen'[q]) =>
                  \E i \in DOMAIN rounds' :
                    /\ rounds'[i].life = life /\ rounds'[i].fixture = q[1]
                    /\ rounds'[i].at = time \/ time - rounds'[i].at < RetriggerInterval]_vars
  BY <1>2
<1> QED BY <1>1, <1>3, StampsStay, Invariance, PTL DEF LoopSpec, SharpMovesAreAnswered

(* A cycle over a window of finitely many fixtures polls each of them once *)
(* and ends: the part of NoFixtureStarves that needs no fairness.          *)
THEOREM CyclesEnd == ASSUME IsFiniteSet(Fixtures) PROVE LoopSpec => CyclesRunDown
<1>1. ASSUME IInv
      PROVE  IsFiniteSet(todo) /\ Stage \in Nat
  <2>1. IsFiniteSet(todo)
    BY <1>1, FS_Subset DEF IInv, TypeOK
  <2> QED BY <2>1 DEF Stage
<1>2. ASSUME LoopStep, ~Wake
      PROVE  \/ Stage' < Stage
             \/ Stage' = Stage /\ todo' \subseteq todo /\ todo' # todo
             \/ Stage' = Stage /\ todo' = todo /\ lpc = "round" /\ lpc' = "poll"
  <2>1. CASE EndCycle
    BY <2>1 DEF EndCycle, Stage
  <2>2. CASE RoundReturns
    BY <2>2 DEF RoundReturns, Stage
  <2>3. CASE \E live \in SUBSET Fixtures : FetchWindow(live)
    BY <2>3 DEF FetchWindow, Stage
  <2>4. CASE \E f \in Fixtures : \E s \in Snapshots(f) : PollQuietly(f, s) \/ TriggerRound(f, s)
    <3>a. PICK f \in Fixtures : \E s \in Snapshots(f) : PollQuietly(f, s) \/ TriggerRound(f, s)
      BY <2>4
    <3>1. PICK s \in Snapshots(f) : PollQuietly(f, s) \/ TriggerRound(f, s)
      BY <3>a
    <3>2. f \in todo /\ todo' = todo \ {f} /\ lpc = "poll" /\ lpc' \in {"poll", "round"}
      BY <3>1 DEF PollQuietly, TriggerRound
    <3>3. Stage' = Stage
      BY <3>2 DEF Stage
    <3> QED BY <3>2, <3>3
  <2> QED BY <1>2, <2>1, <2>2, <2>3, <2>4 DEF LoopStep, CycleStep
<1>3. ASSUME IInv, [LoopNext]_vars, ~LoopStep, faults' = faults
      PROVE  UNCHANGED <<lpc, todo>>
  <2>1. ~Fails
    BY <1>3, LoopAssumption DEF Fails, IInv, TypeOK
  <2> QED BY <1>3, <2>1 DEF LoopNext, FetchWindowFails, Restart, SetEnabled, TimePasses, PollFails,
        Show, vars
<1>4. IInv /\ [LoopNext]_vars =>
        [ /\ IsFiniteSet(todo) /\ Stage \in Nat
          /\ LoopStep /\ ~Wake =>
               \/ Stage' < Stage
               \/ Stage' = Stage /\ todo' \subseteq todo /\ todo' # todo
               \/ Stage' = Stage /\ todo' = todo /\ lpc = "round" /\ lpc' = "poll"
          /\ ~LoopStep /\ faults' = faults => UNCHANGED <<lpc, todo>> ]_vars
  BY <1>1, <1>2, <1>3
<1> QED BY <1>4, Invariance, PTL DEF LoopSpec, CyclesRunDown
=============================================================================
