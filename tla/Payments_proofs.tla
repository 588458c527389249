-------------------------- MODULE Payments_proofs ---------------------------
(***************************************************************************)
(* What the ledger and the payments promise together, for every number of  *)
(* rounds, replays, intents, verifications, failures and crashes.          *)
(***************************************************************************)
EXTENDS Payments, FiniteSetTheorems, SequenceTheorems, TLAPS

-----------------------------------------------------------------------------
(* The pairs of a replay                                                   *)

(* What a set of positions must be for the two strategies' tallies to add  *)
(* up: every one has its opposite at its place, one of the two won.        *)
Paired(listed) ==
  /\ \A p \in listed : \E q \in listed :
       /\ q.place = p.place /\ q.strategy # p.strategy
       /\ q.direction # p.direction /\ q.won # p.won
  /\ PositionsWon(listed, "follow_sharp") + PositionsWon(listed, "fade_sharp")
       = Taken(listed, "follow_sharp")

(* A finite history raises finitely many signals. *)
LEMMA TicksAreFinite ==
  ASSUME NEW history, IsFiniteSet(DOMAIN history), NEW f
  PROVE  IsFiniteSet(Signals(Ticks(history, f)))
<1>1. IsFiniteSet(1..10) /\ IsFiniteSet(1..3)
  <2>1. \A a, b \in Int : IsFiniteSet(a..b)
    BY FS_Interval
  <2>2. 1 \in Int /\ 3 \in Int /\ 10 \in Int
    OBVIOUS
  <2> QED BY <2>1, <2>2, Zenon
<1> DEFINE Grid == (DOMAIN history) \X (1..10) \X (1..3)
<1>2. IsFiniteSet(Grid)
  <2>1. IsFiniteSet((DOMAIN history) \X (1..10))
    BY <1>1, FS_Product
  <2>2. IsFiniteSet(((DOMAIN history) \X (1..10)) \X (1..3))
    BY <1>1, <2>1, FS_Product
  <2> DEFINE g == [x \in ((DOMAIN history) \X (1..10)) \X (1..3) |->
                     <<x[1][1], x[1][2], x[2]>>]
  <2>3. g \in Surjection(((DOMAIN history) \X (1..10)) \X (1..3), Grid)
    <3>1. \A y \in Grid : /\ <<<<y[1], y[2]>>, y[3]>> \in DOMAIN g
                          /\ g[<<<<y[1], y[2]>>, y[3]>>] = y
      OBVIOUS
    <3> QED BY <3>1 DEF Surjection
  <2> QED BY <2>2, <2>3, FS_Surjection
<1>3. IsFiniteSet(Places(history, f))
  BY <1>2, FS_Subset DEF Places
<1> DEFINE All == {TickAt(history, x) : x \in Places(history, f)}
           h == [x \in Places(history, f) |-> TickAt(history, x)]
<1>4. h \in Surjection(Places(history, f), All)
  BY DEF Surjection
<1>5. IsFiniteSet(All)
  BY <1>3, <1>4, FS_Surjection
<1>6. Signals(Ticks(history, f)) \subseteq All
  BY DEF Signals, Ticks
<1> QED BY <1>5, <1>6, FS_Subset

(* A place in the history is one tick. *)
LEMMA PlaceIsTick ==
  ASSUME NEW history, NEW f,
         NEW t \in Ticks(history, f), NEW u \in Ticks(history, f), t.place = u.place
  PROVE  t = u
<1>1. PICK x \in Places(history, f) : t = TickAt(history, x)
  BY DEF Ticks
<1>2. PICK y \in Places(history, f) : u = TickAt(history, y)
  BY DEF Ticks
<1>3. t.place = x /\ u.place = y
  BY <1>1, <1>2 DEF TickAt
<1> QED BY <1>1, <1>2, <1>3

(* A replay takes, on every signal, two opposite positions of which one    *)
(* wins (services/backtest.rs: replay_fixture, settle_position).           *)
LEMMA ReplaysArePaired ==
  ASSUME NEW history, IsFiniteSet(DOMAIN history), NEW f
  PROVE  Paired(ReplayFixture(history, f))
<1> DEFINE ticks == Ticks(history, f)
           S == Signals(ticks)
           winner == Winner(LatestScore(history, f))
           Short(t) == t.odds < Previous(ticks, t).odds
           Pos(s, t) == SettlePosition(s, t, Short(t), winner)
           P == ReplayFixture(history, f)
           W == {t \in S : Pos("follow_sharp", t).won}
<1>1. P = {Pos(s, t) : s \in Strategies, t \in S}
  BY DEF ReplayFixture
<1>2. \A s \in Strategies, t \in S :
        /\ Pos(s, t).place = t.place /\ Pos(s, t).strategy = s
        /\ Pos(s, t).direction = DirectionOf(s, Short(t))
        /\ Pos(s, t).won = ((DirectionOf(s, Short(t)) = "With") <=> (t.outcome = winner))
  BY DEF SettlePosition
<1>3. \A t \in S :
        /\ Pos("follow_sharp", t).direction # Pos("fade_sharp", t).direction
        /\ Pos("follow_sharp", t).won <=> ~Pos("fade_sharp", t).won
        /\ Pos("follow_sharp", t).won \in BOOLEAN /\ Pos("fade_sharp", t).won \in BOOLEAN
  <2> SUFFICES ASSUME NEW t \in S
               PROVE  /\ Pos("follow_sharp", t).direction # Pos("fade_sharp", t).direction
                      /\ Pos("follow_sharp", t).won <=> ~Pos("fade_sharp", t).won
                      /\ Pos("follow_sharp", t).won \in BOOLEAN
                      /\ Pos("fade_sharp", t).won \in BOOLEAN
    OBVIOUS
  <2> DEFINE follow == DirectionOf("follow_sharp", Short(t))
             fade == DirectionOf("fade_sharp", Short(t))
  <2>1. follow # fade /\ ((follow = "With") <=> ~(fade = "With"))
    BY DEF DirectionOf
  <2>2. /\ Pos("follow_sharp", t).direction = follow
        /\ Pos("fade_sharp", t).direction = fade
        /\ Pos("follow_sharp", t).won = ((follow = "With") <=> (t.outcome = winner))
        /\ Pos("fade_sharp", t).won = ((fade = "With") <=> (t.outcome = winner))
    BY <1>2 DEF Strategies
  <2> HIDE DEF Pos, follow, fade, winner
  <2> QED BY <2>1, <2>2
<1>4. IsFiniteSet(S) /\ IsFiniteSet(W) /\ W \subseteq S
  BY TicksAreFinite, FS_Subset
<1>5. \A t, u \in S : t.place = u.place => t = u
  BY PlaceIsTick DEF Signals
<1> HIDE DEF ticks, S, winner, Short, Pos, P
<1>6. ASSUME NEW p \in P
      PROVE  \E q \in P : /\ q.place = p.place /\ q.strategy # p.strategy
                          /\ q.direction # p.direction /\ q.won # p.won
  <2>1. PICK s \in Strategies, t \in S : p = Pos(s, t)
    BY <1>1, <1>6
  <2>2. CASE s = "follow_sharp"
    <3>1. Pos("fade_sharp", t) \in P
      BY <1>1 DEF Strategies
    <3> QED BY <1>2, <1>3, <2>1, <2>2, <3>1 DEF Strategies
  <2>3. CASE s = "fade_sharp"
    <3>1. Pos("follow_sharp", t) \in P
      BY <1>1 DEF Strategies
    <3> QED BY <1>2, <1>3, <2>1, <2>3, <3>1 DEF Strategies
  <2> QED BY <2>1, <2>2, <2>3 DEF Strategies
(* The positions of one strategy on a set of signals are as many.          *)
<1>7. ASSUME NEW s \in Strategies, NEW V \in SUBSET S
      PROVE  Cardinality({Pos(s, t) : t \in V}) = Cardinality(V)
  <2> DEFINE T == {Pos(s, t) : t \in V}
             g == [t \in V |-> Pos(s, t)]
  <2>1. g \in [V -> T]
    OBVIOUS
  <2>2. \A t, u \in V : g[t] = g[u] => t = u
    BY <1>2, <1>5
  <2>3. \A q \in T : \E t \in V : g[t] = q
    OBVIOUS
  <2>4. g \in Bijection(V, T)
    BY <2>1, <2>2, <2>3 DEF Bijection, Injection, Surjection, IsInjective
  <2>5. IsFiniteSet(V)
    BY <1>4, FS_Subset
  <2> QED BY <2>4, <2>5, FS_Bijection DEF ExistsBijection
<1>8. {p \in P : p.strategy = "follow_sharp"} = {Pos("follow_sharp", t) : t \in S}
  BY <1>1, <1>2 DEF Strategies
<1>9. {p \in P : p.strategy = "follow_sharp" /\ p.won} = {Pos("follow_sharp", t) : t \in W}
  BY <1>1, <1>2 DEF Strategies
<1>10. {p \in P : p.strategy = "fade_sharp" /\ p.won} = {Pos("fade_sharp", t) : t \in S \ W}
  BY <1>1, <1>2, <1>3 DEF Strategies
<1>11. /\ Taken(P, "follow_sharp") = Cardinality(S)
       /\ PositionsWon(P, "follow_sharp") = Cardinality(W)
       /\ PositionsWon(P, "fade_sharp") = Cardinality(S \ W)
  BY <1>4, <1>7, <1>8, <1>9, <1>10 DEF Taken, PositionsWon, Strategies
<1>12. Cardinality(S \ W) = Cardinality(S) - Cardinality(W)
  <2>1. S \cap W = W
    BY <1>4
  <2> QED BY <1>4, <2>1, FS_Difference
<1>13. Cardinality(S) \in Nat /\ Cardinality(W) \in Nat
  BY <1>4, FS_CardinalityType
<1> QED BY <1>6, <1>11, <1>12, <1>13 DEF Paired, P

-----------------------------------------------------------------------------
(* Rounds and their rows                                                   *)

Places5 == {"idle", "working", "persisting", "artifacts", "returned", "failed", "lost"}
Parts == {"observation", "receipt", "llm", "decision", "transcript"}

(* One round at most is at its rows, and it holds the ledger meanwhile.    *)
Exclusive ==
  /\ \A r \in Rounds : round[r].at = "persisting" => lock = "round"
  /\ \A r, q \in Rounds :
       round[r].at = "persisting" /\ round[q].at = "persisting" => r = q

(* The rows a round has passed are in the ledger.                          *)
RoundInv(r) ==
  /\ round[r].at \in {"idle", "working"} => round[r].next = 1
  /\ round[r].at = "persisting" =>
       /\ round[r].next \in DOMAIN RowsOf(r)
       /\ \A i \in 1..(round[r].next - 1) : <<r, RowsOf(r)[i]>> \in rows
  /\ round[r].at \in {"artifacts", "returned"} =>
       \A i \in DOMAIN RowsOf(r) : <<r, RowsOf(r)[i]>> \in rows
  /\ round[r].decided => <<r, "signal">> \in rows \/ <<r, "signal lost">> \in rows

(* Parts of a run follow it, a decision its signal.                        *)
RowsFollow ==
  \A r \in Rounds :
    /\ \A part \in Parts : <<r, part>> \in rows => <<r, "run">> \in rows
    /\ <<r, "decision">> \in rows =>
         <<r, "signal">> \in rows \/ <<r, "signal lost">> \in rows

RoundsInv ==
  /\ lock \in {"free", "round", "verify", "backtest"}
  /\ rows \subseteq Rounds \X Tables
  /\ round \in [Rounds -> [at : Places5, decided : BOOLEAN, next : 1..6]]
  /\ Exclusive
  /\ \A r \in Rounds : RoundInv(r)
  /\ RowsFollow

(* The rows of a round, by place: its run first, its decision last. *)
LEMMA RowNames ==
  ASSUME NEW r
  PROVE  /\ DOMAIN RowsOf(r) = 1..Len(RowsOf(r))
         /\ Len(RowsOf(r)) = IF round[r].decided THEN 5 ELSE 4
         /\ RowsOf(r)[1] = "run"
         /\ \A i \in 2..4 : RowsOf(r)[i] \in {"observation", "receipt", "llm"}
         /\ round[r].decided => RowsOf(r)[5] = "decision"
<1>1. CASE round[r].decided
  BY <1>1 DEF RowsOf
<1>2. CASE ~round[r].decided
  BY <1>2 DEF RowsOf
<1> QED BY <1>1, <1>2

(* A round that does not move keeps its account when rows are added. *)
LEMMA OtherRoundsKeep ==
  ASSUME NEW q \in Rounds, RoundInv(q), round'[q] = round[q], rows \subseteq rows'
  PROVE  RoundInv(q)'
BY DEF RoundInv, RowsOf

(* Beginning a round, or taking the lock to persist it, stores no row. *)
LEMMA BeginKeeps ==
  ASSUME RoundsInv, NEW r \in Rounds, BeginRound(r) \/ PersistRun(r)
  PROVE  RoundsInv'
<1>1. /\ round \in [Rounds -> [at : Places5, decided : BOOLEAN, next : 1..6]]
      /\ round[r].at \in {"idle", "working"} /\ round[r].next = 1 /\ rows' = rows
  BY DEF RoundsInv, RoundInv, BeginRound, PersistRun
<1>2. PICK a \in {"working", "persisting"} : round' = [round EXCEPT ![r].at = a]
  BY DEF BeginRound, PersistRun
<1>3. /\ round' \in [Rounds -> [at : Places5, decided : BOOLEAN, next : 1..6]]
      /\ round'[r].at = a /\ round'[r].next = 1
      /\ round'[r].decided = round[r].decided
      /\ \A q \in Rounds : q # r => round'[q] = round[q]
  BY <1>1, <1>2 DEF Places5
<1>4. lock' \in {"free", "round", "verify", "backtest"} /\ Exclusive'
  BY <1>1, <1>2, <1>3 DEF RoundsInv, Exclusive, BeginRound, PersistRun
<1>5. RoundInv(r)'
  <2>1. 1 \in (DOMAIN RowsOf(r))'
    BY <1>3 DEF RowsOf
  <2>2. round'[r].decided => <<r, "signal">> \in rows' \/ <<r, "signal lost">> \in rows'
    BY <1>1, <1>3 DEF RoundsInv, RoundInv
  <2>3. \A i \in 1..(round'[r].next - 1) : FALSE
    BY <1>3
  <2> QED BY <1>3, <2>1, <2>2, <2>3 DEF RoundInv
<1>6. \A q \in Rounds : RoundInv(q)'
  BY <1>1, <1>3, <1>5, OtherRoundsKeep DEF RoundsInv
<1> QED BY <1>1, <1>3, <1>4, <1>6 DEF RoundsInv, RowsFollow

(* A signal is stored as soon as it is found. *)
LEMMA SignalKeeps ==
  ASSUME RoundsInv, NEW r \in Rounds, FindSignal(r)
  PROVE  RoundsInv'
<1>1. /\ round \in [Rounds -> [at : Places5, decided : BOOLEAN, next : 1..6]]
      /\ round[r].at = "working" /\ round[r].next = 1
      /\ round' = [round EXCEPT ![r].decided = TRUE] /\ lock' = lock
  BY DEF RoundsInv, RoundInv, FindSignal
<1>2. /\ round' \in [Rounds -> [at : Places5, decided : BOOLEAN, next : 1..6]]
      /\ round'[r].at = "working" /\ round'[r].next = 1
      /\ \A q \in Rounds : round'[q].at = round[q].at /\ (q # r => round'[q] = round[q])
  BY <1>1
<1>3. PICK name \in {"signal", "signal lost"} : rows' = rows \cup {<<r, name>>}
  BY DEF FindSignal
<1>4. RoundInv(r)'
  BY <1>2, <1>3 DEF RoundInv
<1>5. \A q \in Rounds : RoundInv(q)'
  BY <1>2, <1>3, <1>4, OtherRoundsKeep DEF RoundsInv
<1>6. rows' \subseteq Rounds \X Tables
  <2>1. name \in Tables
    BY DEF Tables
  <2>2. <<r, name>> \in Rounds \X Tables
    BY <2>1
  <2> QED BY <1>3, <2>2 DEF RoundsInv
<1>7. RowsFollow'
  BY <1>3 DEF RoundsInv, RowsFollow, Parts
<1>8. Exclusive'
  <2>1. \A q \in Rounds : round'[q].at = round[q].at
    BY <1>2
  <2>2. Exclusive /\ lock' = lock
    BY <1>1 DEF RoundsInv
  <2> QED BY <2>1, <2>2, Zenon DEF Exclusive
<1> QED BY <1>1, <1>2, <1>5, <1>6, <1>7, <1>8 DEF RoundsInv

(* Rows are inserted one by one, in their order. *)
LEMMA InsertKeeps ==
  ASSUME RoundsInv, NEW r \in Rounds, InsertRow(r)
  PROVE  RoundsInv'
<1> DEFINE n == round[r].next
           name == RowsOf(r)[n]
<1>1. /\ round \in [Rounds -> [at : Places5, decided : BOOLEAN, next : 1..6]]
      /\ round[r].at = "persisting" /\ n \in DOMAIN RowsOf(r)
      /\ \A i \in 1..(n - 1) : <<r, RowsOf(r)[i]>> \in rows
      /\ rows' = rows \cup {<<r, name>>}
      /\ lock = "round"
  BY DEF RoundsInv, RoundInv, Exclusive, InsertRow
<1>2. n \in 1..Len(RowsOf(r)) /\ Len(RowsOf(r)) \in {4, 5} /\ n \in 1..5
  BY <1>1, RowNames
<1>2a. n = 1 \/ n \in 2..4 \/ (n = 5 /\ round[r].decided)
  <2>1. Len(RowsOf(r)) = IF round[r].decided THEN 5 ELSE 4
    BY RowNames
  <2> HIDE DEF n
  <2> QED BY <1>2, <2>1
<1>3. /\ round' \in [Rounds -> [at : Places5, decided : BOOLEAN, next : 1..6]]
      /\ round'[r].at = (IF n = Len(RowsOf(r)) THEN "artifacts" ELSE "persisting")
      /\ round'[r].next = n + 1 /\ round'[r].decided = round[r].decided
      /\ \A q \in Rounds : q # r => round'[q] = round[q]
  <2> DEFINE a == IF n = Len(RowsOf(r)) THEN "artifacts" ELSE "persisting"
  <2>1. round' = [round EXCEPT ![r].next = n + 1, ![r].at = a]
    BY <1>1 DEF InsertRow
  <2>2. a \in Places5 /\ n + 1 \in 1..6
    BY <1>2 DEF Places5
  <2> HIDE DEF a, n
  <2>3. /\ round' \in [Rounds -> [at : Places5, decided : BOOLEAN, next : 1..6]]
        /\ round'[r].at = a /\ round'[r].next = n + 1
        /\ round'[r].decided = round[r].decided
        /\ \A q \in Rounds : q # r => round'[q] = round[q]
    BY <1>1, <2>1, <2>2
  <2> QED BY <2>3 DEF a, n
<1>4. RowsOf(r)' = RowsOf(r)
  BY <1>3 DEF RowsOf
<1>5. \A i \in 1..n : <<r, RowsOf(r)[i]>> \in rows'
  <2> SUFFICES ASSUME NEW i \in 1..n PROVE <<r, RowsOf(r)[i]>> \in rows'
    OBVIOUS
  <2>1. i \in 1..(n - 1) \/ i = n
    BY <1>2
  <2> QED BY <1>1, <2>1
<1>6. RoundInv(r)'
  <2>1. round'[r].at = "persisting" => (n + 1) \in DOMAIN RowsOf(r)
    BY <1>2, <1>3, RowNames
  <2>2. round'[r].at = "artifacts" => DOMAIN RowsOf(r) = 1..n
    BY <1>2, <1>3, RowNames
  <2>3. round'[r].decided => <<r, "signal">> \in rows' \/ <<r, "signal lost">> \in rows'
    BY <1>1, <1>3 DEF RoundsInv, RoundInv
  <2>4. (n + 1) - 1 = n
    BY <1>2
  <2> QED BY <1>3, <1>4, <1>5, <2>1, <2>2, <2>3, <2>4 DEF RoundInv
<1>7. \A q \in Rounds : RoundInv(q)'
  BY <1>1, <1>3, <1>6, OtherRoundsKeep DEF RoundsInv
<1>8. name \in Tables /\ rows' \subseteq Rounds \X Tables
  <2>1. name \in {"run", "observation", "receipt", "llm", "decision"}
    BY <1>2a, RowNames
  <2>2. name \in Tables
    BY <2>1 DEF Tables
  <2> HIDE DEF name
  <2> QED BY <1>1, <2>2 DEF RoundsInv
<1>9. RowsFollow'
  <2>1. <<r, "run">> \in rows'
    BY <1>2, <1>5, RowNames
  <2>2. name = "decision" => round[r].decided
    BY <1>2a, RowNames
  <2>3. name = "decision" => <<r, "signal">> \in rows \/ <<r, "signal lost">> \in rows
    BY <2>2 DEF RoundsInv, RoundInv
  <2> QED BY <1>1, <2>1, <2>3 DEF RoundsInv, RowsFollow
<1>10. lock' \in {"free", "round", "verify", "backtest"} /\ Exclusive'
  <2>1. \A q \in Rounds : round'[q].at = "persisting" => q = r
    BY <1>1, <1>3 DEF RoundsInv, Exclusive
  <2>2. lock' = IF n = Len(RowsOf(r)) THEN "free" ELSE lock
    BY DEF InsertRow
  <2> QED BY <1>1, <1>3, <2>1, <2>2 DEF Exclusive
<1> QED BY <1>3, <1>7, <1>8, <1>9, <1>10 DEF RoundsInv

(* A row that cannot be inserted ends the round where it stands. *)
LEMMA FailKeeps ==
  ASSUME RoundsInv, NEW r \in Rounds, InsertRowFails(r)
  PROVE  RoundsInv'
<1>1. /\ round \in [Rounds -> [at : Places5, decided : BOOLEAN, next : 1..6]]
      /\ round[r].at = "persisting" /\ rows' = rows /\ lock' = "free"
  BY DEF RoundsInv, InsertRowFails
<1>2. /\ round' \in [Rounds -> [at : Places5, decided : BOOLEAN, next : 1..6]]
      /\ round'[r].at = "failed" /\ round'[r].decided = round[r].decided
      /\ \A q \in Rounds : q # r => round'[q] = round[q]
  BY <1>1 DEF InsertRowFails, Places5
<1>3. RoundInv(r)'
  BY <1>1, <1>2 DEF RoundsInv, RoundInv
<1>4. \A q \in Rounds : RoundInv(q)'
  BY <1>1, <1>2, <1>3, OtherRoundsKeep DEF RoundsInv
<1>5. Exclusive'
  <2>1. \A q \in Rounds : round'[q].at # "persisting"
    BY <1>1, <1>2 DEF RoundsInv, Exclusive
  <2> QED BY <2>1 DEF Exclusive
<1> QED BY <1>1, <1>2, <1>4, <1>5 DEF RoundsInv, RowsFollow

(* The artefacts follow the rows. *)
LEMMA ArtifactsKeep ==
  ASSUME RoundsInv, NEW r \in Rounds, PersistArtifacts(r)
  PROVE  RoundsInv'
<1>1. /\ round \in [Rounds -> [at : Places5, decided : BOOLEAN, next : 1..6]]
      /\ round[r].at = "artifacts" /\ lock' = lock
      /\ round' = [round EXCEPT ![r].at = "returned"]
  BY DEF RoundsInv, PersistArtifacts
<1>2. /\ round' \in [Rounds -> [at : Places5, decided : BOOLEAN, next : 1..6]]
      /\ round'[r].at = "returned" /\ round'[r].decided = round[r].decided
      /\ \A q \in Rounds : q # r => round'[q] = round[q]
  BY <1>1 DEF Places5
<1>3. rows' = rows \/ rows' = rows \cup {<<r, "transcript">>}
  BY DEF PersistArtifacts
<1>4. RowsOf(r)' = RowsOf(r)
  BY <1>2 DEF RowsOf
<1>5. RoundInv(r)'
  BY <1>1, <1>2, <1>3, <1>4 DEF RoundsInv, RoundInv
<1>6. \A q \in Rounds : RoundInv(q)'
  BY <1>1, <1>2, <1>3, <1>5, OtherRoundsKeep DEF RoundsInv
<1>7. <<r, "run">> \in rows
  <2>1. 1 \in DOMAIN RowsOf(r) /\ RowsOf(r)[1] = "run"
    BY RowNames
  <2> QED BY <1>1, <2>1 DEF RoundsInv, RoundInv
<1>8. RowsFollow' /\ rows' \subseteq Rounds \X Tables
  <2>1. "transcript" \in Tables
    BY DEF Tables
  <2>2. rows' \subseteq Rounds \X Tables
    BY <1>3, <2>1 DEF RoundsInv
  <2>3. RowsFollow'
    <3>1. \A q \in Rounds, name \in Tables :
            name # "transcript" => (<<q, name>> \in rows' <=> <<q, name>> \in rows)
      BY <1>3
    <3>2. \A q \in Rounds : <<q, "transcript">> \in rows' =>
            <<q, "transcript">> \in rows \/ q = r
      BY <1>3
    <3>3. Parts \subseteq Tables /\ {"run", "decision", "signal", "signal lost"} \subseteq Tables
      BY DEF Parts, Tables
    <3> QED BY <1>3, <1>7, <3>1, <3>2, <3>3 DEF RoundsInv, RowsFollow
  <2> QED BY <2>2, <2>3
<1>9. Exclusive'
  BY <1>1, <1>2 DEF RoundsInv, Exclusive
<1> QED BY <1>1, <1>2, <1>6, <1>8, <1>9 DEF RoundsInv

(* Nothing happens to the rounds while another holds the ledger.           *)
LEMMA LockKeepsRounds ==
  ASSUME RoundsInv, UNCHANGED <<rows, round>>,
         lock # "round" \/ lock' = lock,
         lock' \in {"free", "round", "verify", "backtest"}
  PROVE  RoundsInv'
<1>1. \A r \in Rounds : RoundInv(r)'
  BY OtherRoundsKeep DEF RoundsInv
<1> QED BY <1>1 DEF RoundsInv, Exclusive, RowsFollow

(* A crash leaves a prefix of the rows of each round. *)
LEMMA CrashKeepsRounds == ASSUME RoundsInv, LedgerCrash PROVE RoundsInv'
<1>1. /\ round \in [Rounds -> [at : Places5, decided : BOOLEAN, next : 1..6]]
      /\ rows' = rows /\ lock' = "free"
  BY DEF RoundsInv, LedgerCrash
<1>2. /\ round' \in [Rounds -> [at : Places5, decided : BOOLEAN, next : 1..6]]
      /\ \A r \in Rounds :
           \/ round'[r] = round[r] /\ round[r].at # "persisting"
           \/ round'[r].at = "lost" /\ round'[r].decided = round[r].decided
  BY <1>1 DEF LedgerCrash, Places5
<1>3. \A r \in Rounds : RoundInv(r)'
  <2> SUFFICES ASSUME NEW r \in Rounds PROVE RoundInv(r)'
    OBVIOUS
  <2>1. CASE round'[r] = round[r]
    BY <1>1, <2>1, OtherRoundsKeep DEF RoundsInv
  <2>2. CASE round'[r].at = "lost" /\ round'[r].decided = round[r].decided
    BY <1>1, <2>2 DEF RoundsInv, RoundInv
  <2> QED BY <1>2, <2>1, <2>2
<1>4. Exclusive'
  BY <1>2 DEF Exclusive
<1> QED BY <1>1, <1>2, <1>3, <1>4 DEF RoundsInv, RowsFollow

(* No round has stored anything at the start. *)
LEMMA RoundsStart == LedgerInit => RoundsInv
BY DEF LedgerInit, RoundsInv, Exclusive, RoundInv, RowsFollow, Places5, Tables

(* A cut-off round leaves no part without its run, and a returned run has  *)
(* all of its rows.                                                        *)
LEMMA RoundsInvHolds == RoundsInv => RunsHoldTogether
<1> SUFFICES ASSUME RoundsInv PROVE RunsHoldTogether
  OBVIOUS
<1>1. ASSUME NEW x \in rows
      PROVE  /\ x[2] \in Parts => <<x[1], "run">> \in rows
             /\ x[2] = "decision" => <<x[1], "signal">> \in rows \/ <<x[1], "signal lost">> \in rows
  <2>1. x[1] \in Rounds /\ x = <<x[1], x[2]>>
    BY DEF RoundsInv
  <2> QED BY <2>1 DEF RoundsInv, RowsFollow
<1>2. ASSUME NEW r \in Rounds, round[r].at = "returned", NEW i \in DOMAIN RowsOf(r)
      PROVE  <<r, RowsOf(r)[i]>> \in rows
  BY <1>2 DEF RoundsInv, RoundInv
<1> QED BY <1>1, <1>2 DEF RunsHoldTogether, Parts

-----------------------------------------------------------------------------
(* Replays and their rows                                                  *)

Replayed ==
  [fixture : Fixtures,
   positions : {ReplayFixture(history, f) : history \in Histories, f \in Fixtures}]

Of(table, f) == {row \in table : row[2] = f}
Full(n) == {<<n, replays[n].fixture, p>> : p \in replays[n].positions}

RowOK(row) ==
  /\ row[1] \in DOMAIN replays /\ row[2] \in Fixtures
  /\ row[3] \in replays[row[1]].positions

(* A fixture's rows are one whole replay, or none; the open transaction    *)
(* sees the other fixtures' rows and some of the new replay's.             *)
Whole(f) ==
  \/ Of(backtest, f) = {}
  \/ \E n \in DOMAIN replays : replays[n].fixture = f /\ Of(backtest, f) = Full(n)

BacktestInv ==
  /\ replays \in Seq(Replayed) /\ Len(replays) <= Replays
  /\ due \subseteq DOMAIN replays /\ writing \in due \cup {0}
  /\ \A row \in backtest : RowOK(row)
  /\ \A row \in staged : RowOK(row)
  /\ \A f \in Fixtures : Whole(f)
  /\ staged # {} => lock = "backtest"
  /\ lock = "backtest" =>
       /\ writing \in due
       /\ Of(staged, Open.fixture) \subseteq Full(writing)
       /\ \A g \in Fixtures : g # Open.fixture => Of(staged, g) = Of(backtest, g)

(* No replay is stored, staged or holds the lock at the start. *)
LEMMA BacktestStarts == LedgerInit => BacktestInv
BY LedgerAssumption DEF LedgerInit, BacktestInv, Whole, Of

(* Nothing happens to the table while another holds the ledger.            *)
LEMMA LockKeepsBacktest ==
  ASSUME BacktestInv, UNCHANGED replayVars,
         lock' = lock \/ (lock # "backtest" /\ lock' # "backtest")
  PROVE  BacktestInv'
BY DEF BacktestInv, Whole, Of, Full, Open, RowOK, replayVars

(* A replay that has been computed waits for the ledger. *)
LEMMA ComputeReplayKeeps ==
  ASSUME BacktestInv, NEW f \in Fixtures, NEW history \in Histories,
         ComputeReplay(f, history)
  PROVE  BacktestInv'
<1> DEFINE record == [fixture |-> f, positions |-> ReplayFixture(history, f)]
           n == Len(replays) + 1
<1>1. replays \in Seq(Replayed) /\ record \in Replayed /\ replays' = Append(replays, record)
  BY DEF BacktestInv, Replayed, ComputeReplay
<1>2. /\ replays' \in Seq(Replayed) /\ Len(replays') = n /\ n \in DOMAIN replays'
      /\ \A i \in DOMAIN replays : i \in DOMAIN replays' /\ replays'[i] = replays[i]
  <2> HIDE DEF record
  <2> QED BY <1>1
<1>3. Len(replays') <= Replays
  <2>1. Len(replays) \in Nat /\ Len(replays) < Replays /\ Replays \in Nat
    BY <1>1, LedgerAssumption DEF ComputeReplay
  <2> QED BY <1>2, <2>1
<1>4. UNCHANGED <<backtest, staged, writing, lock>> /\ due' = due \cup {n}
  BY DEF ComputeReplay
<1>5. due' \subseteq DOMAIN replays' /\ writing' \in due' \cup {0}
  BY <1>2, <1>4 DEF BacktestInv
<1>6. /\ \A row \in backtest' : RowOK(row)'
      /\ \A row \in staged' : RowOK(row)'
  BY <1>2, <1>4 DEF BacktestInv, RowOK
<1>7. \A g \in Fixtures : Whole(g)'
  <2> SUFFICES ASSUME NEW g \in Fixtures, Of(backtest, g) # {} PROVE Whole(g)'
    BY <1>4 DEF Whole, Of
  <2>1. PICK i \in DOMAIN replays : replays[i].fixture = g /\ Of(backtest, g) = Full(i)
    BY DEF BacktestInv, Whole
  <2>2. Full(i)' = Full(i) /\ Of(backtest, g)' = Of(backtest, g)
    BY <1>2, <1>4 DEF Full, Of
  <2> QED BY <1>2, <2>1, <2>2 DEF Whole
<1>8. ASSUME lock = "backtest"
      PROVE  /\ writing' \in due' /\ Of(staged, Open.fixture)' \subseteq Full(writing)'
             /\ \A g \in Fixtures : g # Open'.fixture => Of(staged, g)' = Of(backtest, g)'
  <2>1. writing \in DOMAIN replays /\ writing \in due
    BY <1>8 DEF BacktestInv
  <2>2. Open' = Open /\ Full(writing)' = Full(writing)
    BY <1>2, <1>4, <2>1 DEF Open, Full
  <2>3. Of(staged, Open.fixture)' = Of(staged, Open.fixture)
    BY <1>4, <2>2 DEF Of
  <2>4. ASSUME NEW g \in Fixtures, g # Open'.fixture
        PROVE  Of(staged, g)' = Of(backtest, g)'
    <3>1. Of(staged, g) = Of(backtest, g)
      BY <1>8, <2>2, <2>4 DEF BacktestInv
    <3> QED BY <1>4, <3>1 DEF Of
  <2>5. Of(staged, Open.fixture) \subseteq Full(writing)
    BY <1>8 DEF BacktestInv
  <2> QED BY <1>4, <2>1, <2>2, <2>3, <2>4, <2>5
<1>9. staged' # {} => lock' = "backtest"
  BY <1>4 DEF BacktestInv
<1> QED BY <1>2, <1>3, <1>4, <1>5, <1>6, <1>7, <1>8, <1>9 DEF BacktestInv

(* A replay that begins takes the lock and stages the other fixtures'      *)
(* rows.                                                                   *)
LEMMA BeginReplayKeeps ==
  ASSUME BacktestInv, NEW n \in due, ReplaceBegins(n)
  PROVE  BacktestInv'
<1>1. /\ UNCHANGED <<backtest, replays, due>> /\ lock' = "backtest" /\ writing' = n
      /\ staged' = {row \in backtest : row[2] # replays[n].fixture}
      /\ n \in DOMAIN replays
  BY DEF ReplaceBegins, BacktestInv
<1>2. Open'.fixture = replays[n].fixture
  BY <1>1 DEF Open
<1>3. /\ Of(staged, Open.fixture)' = {}
      /\ \A g \in Fixtures : g # Open'.fixture => Of(staged, g)' = Of(backtest, g)'
  BY <1>1, <1>2 DEF Of
<1>4. /\ \A row \in backtest' : RowOK(row)'
      /\ \A row \in staged' : RowOK(row)'
  BY <1>1 DEF BacktestInv, RowOK
<1>5. \A g \in Fixtures : Whole(g)'
  BY <1>1 DEF BacktestInv, Whole, Of, Full
<1> QED BY <1>1, <1>3, <1>4, <1>5 DEF BacktestInv

(* A trade of the replay is staged, and not stored yet. *)
LEMMA InsertReplayKeeps == ASSUME BacktestInv, ReplaceInserts PROVE BacktestInv'
<1> DEFINE n == writing
<1>1. /\ lock = "backtest" /\ lock' = lock /\ backtest' = backtest
      /\ UNCHANGED <<replays, due, writing>> /\ n \in DOMAIN replays
      /\ replays[n] \in Replayed
  BY DEF BacktestInv, ReplaceInserts
<1>2. PICK p \in replays[n].positions :
        staged' = staged \cup {<<n, replays[n].fixture, p>>}
  BY DEF ReplaceInserts, Missing, Row, Open
<1>3. RowOK(<<n, replays[n].fixture, p>>)
  BY <1>1 DEF RowOK, Replayed
<1>4. \A row \in staged' : RowOK(row)'
  BY <1>1, <1>2, <1>3 DEF BacktestInv, RowOK
<1>5. Of(staged, Open.fixture)' \subseteq Full(n)'
  <2>1. <<n, replays[n].fixture, p>> \in Full(n)
    BY DEF Full
  <2>2. Of(staged, Open.fixture)' \subseteq Of(staged, Open.fixture) \cup {<<n, replays[n].fixture, p>>}
    BY <1>1, <1>2 DEF Of, Open
  <2>3. Full(n)' = Full(n)
    BY <1>1 DEF Full
  <2> QED BY <1>1, <2>1, <2>2, <2>3 DEF BacktestInv
<1>6. \A g \in Fixtures : g # Open'.fixture => Of(staged, g)' = Of(backtest, g)'
  <2> SUFFICES ASSUME NEW g \in Fixtures, g # Open.fixture
               PROVE  Of(staged, g)' = Of(backtest, g)'
    BY <1>1 DEF Open
  <2>1. Of(staged, g) = Of(backtest, g)
    BY <1>1 DEF BacktestInv
  <2>2. Of(staged, g)' = Of(staged, g)
    BY <1>2 DEF Of, Open
  <2> QED BY <1>1, <2>1, <2>2 DEF Of
<1>7. \A row \in backtest' : RowOK(row)'
  BY <1>1 DEF BacktestInv, RowOK
<1>8. \A f \in Fixtures : Whole(f)'
  BY <1>1 DEF BacktestInv, Whole, Of, Full
<1> QED BY <1>1, <1>4, <1>5, <1>6, <1>7, <1>8 DEF BacktestInv

(* A commit replaces all that was stored of the fixture by what was        *)
(* staged.                                                                 *)
LEMMA CommitReplayKeeps == ASSUME BacktestInv, ReplaceCommits PROVE BacktestInv'
<1>0. PICK n \in due : n = writing
  BY DEF BacktestInv, ReplaceCommits
<1>1. /\ lock = "backtest" /\ lock' = "free" /\ backtest' = staged /\ staged' = {}
      /\ replays' = replays /\ n \in DOMAIN replays
      /\ due' \subseteq due /\ writing' = 0
  BY <1>0 DEF BacktestInv, ReplaceCommits, ReplaceEnds
<1>2. Full(n) \subseteq Of(staged, Open.fixture)
  BY <1>0 DEF ReplaceCommits, Missing, Row, Full, Of, Open
<1>3. Of(staged, Open.fixture) = Full(n)
  BY <1>0, <1>1, <1>2 DEF BacktestInv
<1>4. ASSUME NEW f \in Fixtures PROVE Whole(f)'
  <2>1. CASE f = Open.fixture
    <3>1. Of(backtest, f)' = Full(n)' /\ replays'[n].fixture = f
      BY <1>0, <1>1, <1>3, <2>1 DEF Of, Full, Open
    <3> QED BY <1>1, <3>1 DEF Whole
  <2>2. CASE f # Open.fixture
    <3>1. Of(backtest, f)' = Of(backtest, f)
      BY <1>1, <2>2 DEF BacktestInv, Of
    <3> QED BY <1>1, <3>1 DEF BacktestInv, Whole, Full
  <2> QED BY <2>1, <2>2
<1>5. \A row \in backtest' : RowOK(row)'
  BY <1>1 DEF BacktestInv, RowOK
<1> QED BY <1>1, <1>4, <1>5 DEF BacktestInv

(* A rollback forgets what was staged and nothing else. *)
LEMMA RollbackKeeps ==
  ASSUME BacktestInv, staged' = {}, lock' = "free", UNCHANGED <<backtest, replays>>,
         due' \subseteq due, writing' = 0
  PROVE  BacktestInv'
BY DEF BacktestInv, Whole, Of, Full, RowOK

(* The rows of a fixture are one replay, whole, and its pairs split.       *)
LEMMA BacktestInvHolds == BacktestInv => ReplaysDoNotMix /\ PairsSplit
<1> SUFFICES ASSUME BacktestInv PROVE ReplaysDoNotMix /\ PairsSplit
  OBVIOUS
<1>1. \A f \in Fixtures : ListBacktestSettlements(f) = Of(backtest, f)
  BY DEF ListBacktestSettlements, Of
<1>2. ReplaysDoNotMix
  <2> SUFFICES ASSUME NEW f \in Fixtures, ListBacktestSettlements(f) # {}
               PROVE  \E n \in DOMAIN replays :
                        /\ replays[n].fixture = f
                        /\ ListBacktestSettlements(f) = {<<n, f, p>> : p \in replays[n].positions}
    BY DEF ReplaysDoNotMix
  <2>1. PICK n \in DOMAIN replays : replays[n].fixture = f /\ Of(backtest, f) = Full(n)
    BY <1>1 DEF BacktestInv, Whole
  <2> QED BY <1>1, <2>1 DEF Full
<1>3. ASSUME NEW f \in Fixtures
      PROVE  Paired({row[3] : row \in ListBacktestSettlements(f)})
  <2> DEFINE listed == {row[3] : row \in ListBacktestSettlements(f)}
  <2>1. CASE ListBacktestSettlements(f) = {}
    <3>1. listed = {}
      BY <2>1
    <3>2. /\ Taken(listed, "follow_sharp") = 0
          /\ PositionsWon(listed, "follow_sharp") = 0
          /\ PositionsWon(listed, "fade_sharp") = 0
      <4>1. \A s : /\ {p \in listed : p.strategy = s} = {}
                  /\ {p \in listed : p.strategy = s /\ p.won} = {}
        BY <3>1
      <4>2. Cardinality({}) = 0
        BY FS_EmptySet
      <4> HIDE DEF listed
      <4> QED BY <4>1, <4>2 DEF Taken, PositionsWon
    <3>3. \A p \in listed : FALSE
      BY <3>1
    <3> HIDE DEF listed
    <3>4. Paired(listed)
      BY <3>2, <3>3 DEF Paired
    <3> QED BY <3>4 DEF listed
  <2>2. CASE ListBacktestSettlements(f) # {}
    <3>1. PICK n \in DOMAIN replays : Of(backtest, f) = Full(n)
      <4>1. Of(backtest, f) # {} /\ Whole(f)
        BY <1>1, <1>3, <2>2 DEF BacktestInv
      <4> QED BY <4>1 DEF Whole
    <3>2. listed = replays[n].positions
      <4>1. ListBacktestSettlements(f) = Full(n)
        BY <1>1, <1>3, <3>1
      <4>2. \A row \in Full(n) : row[3] \in replays[n].positions
        BY DEF Full
      <4>3. \A p \in replays[n].positions :
              /\ <<n, replays[n].fixture, p>> \in Full(n)
              /\ <<n, replays[n].fixture, p>>[3] = p
        BY DEF Full
      <4>4. \A p \in listed : p \in replays[n].positions
        BY <4>1, <4>2
      <4>5. \A p \in replays[n].positions : p \in listed
        BY <4>1, <4>3
      <4> QED BY <4>4, <4>5
    <3>3. replays[n] \in Replayed
      BY DEF BacktestInv
    <3>4. PICK history \in Histories, g \in Fixtures : listed = ReplayFixture(history, g)
      BY <3>2, <3>3 DEF Replayed
    <3> HIDE DEF listed
    <3>5. Paired(listed)
      BY <3>4, ReplaysArePaired, LedgerAssumption
    <3> QED BY <3>5 DEF listed
  <2> QED BY <2>1, <2>2
<1>4. PairsSplit
  BY <1>3 DEF PairsSplit, Paired
<1> QED BY <1>2, <1>4

-----------------------------------------------------------------------------
(* The ledger                                                              *)

LedgerInv == RoundsInv /\ BacktestInv /\ faults \in 0..MaxFaults

(* The ledger's invariant holds at the start. *)
LEMMA LedgerStarts == LedgerInit => LedgerInv
BY RoundsStart, BacktestStarts, LedgerAssumption DEF LedgerInv, LedgerInit

(* Every step of the ledger keeps its invariant. *)
LEMMA LedgerStepKeeps == ASSUME LedgerInv, LedgerStep PROVE LedgerInv'
<1>1. faults' \in 0..MaxFaults
  <2>1. ASSUME faults' = faults \/ Fault PROVE faults' \in 0..MaxFaults
    BY <2>1, LedgerAssumption DEF LedgerInv, Fault
  <2>2. ASSUME NEW r \in Rounds,
               \/ BeginRound(r) \/ FindSignal(r) \/ PersistRun(r)
               \/ InsertRow(r) \/ InsertRowFails(r) \/ PersistArtifacts(r)
        PROVE  faults' = faults \/ Fault
    BY <2>2, Zenon DEF BeginRound, FindSignal, PersistRun, InsertRow, InsertRowFails,
                       PersistArtifacts
  <2>3. ASSUME \/ \E f \in Fixtures, history \in Histories : ComputeReplay(f, history)
               \/ \E n \in due : ReplaceBegins(n)
               \/ ReplaceInserts \/ ReplaceCommits \/ ReplaceFails
        PROVE  faults' = faults \/ Fault
    BY <2>3, Zenon DEF ComputeReplay, ReplaceBegins, ReplaceInserts, ReplaceCommits, ReplaceFails
  <2> QED BY <2>1, <2>2, <2>3 DEF LedgerStep
<1>2. ASSUME NEW r \in Rounds,
             \/ BeginRound(r) \/ FindSignal(r) \/ PersistRun(r)
             \/ InsertRow(r) \/ InsertRowFails(r) \/ PersistArtifacts(r)
      PROVE  RoundsInv' /\ BacktestInv'
  <2>1. RoundsInv'
    BY <1>2, BeginKeeps, SignalKeeps, InsertKeeps, FailKeeps, ArtifactsKeep DEF LedgerInv
  <2>2. UNCHANGED replayVars
    BY <1>2 DEF BeginRound, FindSignal, PersistRun, InsertRow, InsertRowFails,
                PersistArtifacts
  <2>3. lock' = lock \/ (lock # "backtest" /\ lock' # "backtest")
    BY <1>2 DEF BeginRound, FindSignal, PersistRun, InsertRow, InsertRowFails,
                PersistArtifacts, LedgerInv, RoundsInv, Exclusive
  <2> QED BY <2>1, <2>2, <2>3, LockKeepsBacktest DEF LedgerInv
<1>3. ASSUME \/ \E f \in Fixtures, history \in Histories : ComputeReplay(f, history)
             \/ \E n \in due : ReplaceBegins(n)
             \/ ReplaceInserts \/ ReplaceCommits \/ ReplaceFails
      PROVE  RoundsInv' /\ BacktestInv'
  <2>1. CASE \E f \in Fixtures, history \in Histories : ComputeReplay(f, history)
    <3>1. BacktestInv'
      BY <2>1, ComputeReplayKeeps DEF LedgerInv
    <3>2. UNCHANGED <<rows, round, lock>>
      BY <2>1 DEF ComputeReplay
    <3> QED BY <3>1, <3>2, LockKeepsRounds DEF LedgerInv, RoundsInv
  <2>2. CASE (\E n \in due : ReplaceBegins(n)) \/ ReplaceInserts \/ ReplaceCommits \/ ReplaceFails
    <3>1. BacktestInv'
      BY <2>2, BeginReplayKeeps, InsertReplayKeeps, CommitReplayKeeps, RollbackKeeps
         DEF LedgerInv, ReplaceFails, ReplaceEnds
    <3>2. /\ UNCHANGED <<rows, round>> /\ lock # "round"
          /\ lock' \in {"free", "round", "verify", "backtest"}
      BY <2>2 DEF ReplaceBegins, ReplaceInserts, ReplaceCommits, ReplaceFails, ReplaceEnds
    <3> QED BY <3>1, <3>2, LockKeepsRounds DEF LedgerInv
  <2> QED BY <1>3, <2>1, <2>2
<1> QED BY <1>1, <1>2, <1>3 DEF LedgerStep, LedgerInv

(* A crash keeps the ledger's invariant. *)
LEMMA LedgerCrashKeeps == ASSUME LedgerInv, LedgerCrash PROVE LedgerInv'
BY CrashKeepsRounds, RollbackKeeps DEF LedgerInv, LedgerCrash

(* Another holder of the connection leaves the ledger's tables alone.      *)
LEMMA OthersKeepLedger ==
  ASSUME LedgerInv, UNCHANGED <<rows, round, replayVars>>,
         lock' = lock \/ {lock, lock'} \subseteq {"free", "verify"},
         faults' = faults \/ Fault
  PROVE  LedgerInv'
<1>1. faults' \in 0..MaxFaults
  BY LedgerAssumption DEF LedgerInv, Fault
<1>2. RoundsInv'
  BY LockKeepsRounds DEF LedgerInv, RoundsInv
<1>3. BacktestInv'
  BY LockKeepsBacktest DEF LedgerInv
<1> QED BY <1>1, <1>2, <1>3 DEF LedgerInv

(* The ledger's invariant contains its types. *)
LEMMA LedgerTypes == LedgerInv => LedgerTypeOK
BY DEF LedgerInv, RoundsInv, BacktestInv, RowOK, LedgerTypeOK, Places5

-----------------------------------------------------------------------------
(* The intents, next to the ledger                                         *)

(* A stored confirmation has a transaction behind it; a creation that has  *)
(* not begun has stored nothing, one past its first step has.              *)
IntentInv ==
  /\ intent \in [Refs -> {"none", "pending", "confirmed"}]
  /\ create \in [Refs -> {"none", "stored", "watched", "ended"}]
  /\ chain \in [Refs -> {"none", "succeeded", "failed"}]
  /\ \A ref \in Refs :
       /\ create[ref] = "none" => intent[ref] = "none"
       /\ create[ref] \in {"stored", "watched"} => intent[ref] # "none"
       /\ intent[ref] = "confirmed" => chain[ref] # "none"

(* A verification is about an intent that is stored; past the RPC's answer *)
(* there is a transaction, and before its event the confirmation.  One at  *)
(* most is between the two, and holds the ledger.                          *)
VerifyInv ==
  /\ verify \in [Verifiers -> [at : {"idle", "asking", "confirmed", "emit"}, ref : Refs]]
  /\ \A v \in Verifiers :
       /\ verify[v].at # "idle" => intent[verify[v].ref] # "none"
       /\ verify[v].at \in {"confirmed", "emit"} => chain[verify[v].ref] # "none"
       /\ verify[v].at = "emit" => intent[verify[v].ref] = "confirmed" /\ lock = "verify"
  /\ \A v, w \in Verifiers :
       verify[v].at = "emit" /\ verify[w].at = "emit" => v = w

AnnouncedInv ==
  /\ announced \subseteq Refs \X {"pending", "confirmed"}
  /\ \A ref \in Refs :
       /\ <<ref, "pending">> \in announced => intent[ref] # "none"
       /\ <<ref, "confirmed">> \in announced => intent[ref] = "confirmed"

(* What the running sidecar was told is in its channel or with it.         *)
WatchInv ==
  /\ sidecar \in {"running", "exited"}
  /\ channel \in Seq(Refs) /\ watching \subseteq Refs /\ fresh \subseteq Refs
  /\ sidecar = "running" =>
       \A ref \in Refs : ref \in fresh \/ create[ref] = "watched" =>
         ref \in watching \/ \E i \in DOMAIN channel : channel[i] = ref

PayInv == IntentInv /\ VerifyInv /\ AnnouncedInv /\ WatchInv

IInv == LedgerInv /\ PayInv /\ crashes \in 0..MaxCrashes

-----------------------------------------------------------------------------
(* No intent is stored, announced or watched at the start. *)
LEMMA Starts == PaymentsInit => IInv
<1> SUFFICES ASSUME PaymentsInit PROVE IInv
  OBVIOUS
<1>1. LedgerInv
  BY LedgerStarts DEF PaymentsInit
<1>2. IntentInv /\ AnnouncedInv /\ WatchInv /\ crashes \in 0..MaxCrashes
  BY PaymentsAssumption DEF PaymentsInit, IntentInv, AnnouncedInv, WatchInv
<1>3. VerifyInv
  <2>1. \A v \in Verifiers : verify[v].at = "idle" /\ verify[v].ref \in Refs
    BY PaymentsAssumption DEF PaymentsInit, Asleep
  <2>2. verify \in [Verifiers -> [at : {"idle", "asking", "confirmed", "emit"}, ref : Refs]]
    BY PaymentsAssumption DEF PaymentsInit, Asleep
  <2> QED BY <2>1, <2>2 DEF VerifyInv
<1> QED BY <1>1, <1>2, <1>3 DEF IInv, PayInv

(* Steps of the ledger alone free it only when they hold it.               *)
LEMMA LedgerStepKeepsPay ==
  ASSUME LedgerInv, PayInv, LedgerStep, UNCHANGED payVars
  PROVE  PayInv'
<1>1. lock' = lock \/ lock # "verify"
  BY DEF LedgerStep, BeginRound, FindSignal, PersistRun, InsertRow, InsertRowFails,
         PersistArtifacts, ComputeReplay, ReplaceBegins, ReplaceInserts, ReplaceCommits,
         ReplaceFails, ReplaceEnds,
         LedgerInv, RoundsInv, Exclusive
<1> QED BY <1>1 DEF payVars, PayInv, IntentInv, VerifyInv, AnnouncedInv, WatchInv

(* An intent is stored before anything else is done with it. *)
LEMMA StoreKeeps == ASSUME PayInv, NEW ref \in Refs, StoreIntent(ref) PROVE PayInv'
<1>1. IntentInv' /\ \A x \in Refs : intent[x] # "none" => intent'[x] = intent[x]
  BY DEF StoreIntent, PayInv, IntentInv
<1>2. VerifyInv'
  BY <1>1 DEF StoreIntent, PayInv, IntentInv, VerifyInv
<1>3. AnnouncedInv'
  BY <1>1 DEF StoreIntent, PayInv, AnnouncedInv
<1>4. WatchInv'
  BY DEF StoreIntent, PayInv, IntentInv, WatchInv, sideVars
<1> QED BY <1>1, <1>2, <1>3, <1>4 DEF PayInv

(* A reference is watched only for an intent that is stored. *)
LEMMA WatchKeeps == ASSUME PayInv, NEW ref \in Refs, WatchReference(ref) PROVE PayInv'
<1>1. IntentInv' /\ \A x \in Refs : create'[x] = (IF x = ref THEN "watched" ELSE create[x])
  BY DEF WatchReference, PayInv, IntentInv
<1>2. VerifyInv' /\ AnnouncedInv'
  BY DEF WatchReference, PayInv, VerifyInv, AnnouncedInv, ledgerVars
<1>3. WatchInv'
  <2>1. CASE sidecar = "running"
    <3>1. channel' = Append(channel, ref) /\ channel \in Seq(Refs)
      BY <2>1 DEF WatchReference, PayInv, WatchInv
    <3>2. /\ channel' \in Seq(Refs)
          /\ \A i \in DOMAIN channel : i \in DOMAIN channel' /\ channel'[i] = channel[i]
          /\ \E i \in DOMAIN channel' : channel'[i] = ref
      BY <3>1
    <3> QED BY <1>1, <2>1, <3>2 DEF WatchReference, PayInv, WatchInv
  <2>2. CASE sidecar # "running"
    BY <2>2 DEF WatchReference, PayInv, WatchInv
  <2> QED BY <2>1, <2>2
<1> QED BY <1>1, <1>2, <1>3 DEF PayInv

(* An intent that is announced is stored, and handed to a running sidecar. *)
LEMMA AnnounceKeeps == ASSUME PayInv, NEW ref \in Refs, AnnounceIntent(ref) PROVE PayInv'
<1>1. IntentInv' /\ \A x \in Refs : create'[x] = (IF x = ref THEN "ended" ELSE create[x])
  BY DEF AnnounceIntent, PayInv, IntentInv
<1>2. VerifyInv'
  BY DEF AnnounceIntent, PayInv, VerifyInv, ledgerVars
<1>3. AnnouncedInv'
  BY DEF AnnounceIntent, PayInv, IntentInv, AnnouncedInv
<1>4. WatchInv'
  BY <1>1 DEF AnnounceIntent, PayInv, WatchInv, sideVars
<1> QED BY <1>1, <1>2, <1>3, <1>4 DEF PayInv

(* A transaction that lands changes nothing the desk holds. *)
LEMMA LandKeeps == ASSUME PayInv, NEW ref \in Refs, Land(ref) PROVE PayInv'
<1>1. IntentInv' /\ \A x \in Refs : chain[x] # "none" => chain'[x] # "none"
  BY DEF Land, PayInv, IntentInv
<1>2. VerifyInv'
  BY <1>1 DEF Land, PayInv, VerifyInv, ledgerVars
<1>3. AnnouncedInv' /\ WatchInv'
  BY DEF Land, PayInv, AnnouncedInv, WatchInv, sideVars
<1> QED BY <1>1, <1>2, <1>3 DEF PayInv

(* A verification's own step, the lock and the stored intents apart.       *)
LEMMA VerifierKeeps ==
  ASSUME PayInv, NEW v \in Verifiers,
         NEW r \in [at : {"idle", "asking", "confirmed"}, ref : Refs],
         verify' = [verify EXCEPT ![v] = r],
         r.at # "idle" => intent[r.ref] # "none",
         r.at = "confirmed" => chain[r.ref] # "none",
         UNCHANGED <<intent, create, chain, announced, sideVars, fresh>>,
         lock' = lock
  PROVE  PayInv'
<1>1. VerifyInv'
  BY DEF PayInv, VerifyInv
<1>2. IntentInv' /\ AnnouncedInv' /\ WatchInv'
  BY DEF PayInv, IntentInv, AnnouncedInv, WatchInv, sideVars
<1> QED BY <1>1, <1>2 DEF PayInv

(* A verifier reads an intent that is stored. *)
LEMMA ReadKeeps ==
  ASSUME PayInv, NEW v \in Verifiers, NEW ref \in Refs, ReadIntent(v, ref)
  PROVE  PayInv'
<1> DEFINE r == [at |-> "asking", ref |-> ref]
<1>1. /\ verify' = [verify EXCEPT ![v] = r] /\ intent[ref] # "none" /\ lock' = lock
      /\ UNCHANGED <<intent, create, chain, announced, sideVars, fresh>>
  BY DEF ReadIntent, ledgerVars
<1> QED BY <1>1, VerifierKeeps

(* The RPC's answer is of the intent the verifier read. *)
LEMMA AnswerKeeps ==
  ASSUME PayInv, NEW v \in Verifiers, RpcAnswers(v) \/ RpcFails(v)
  PROVE  PayInv'
<1>1. /\ verify \in [Verifiers -> [at : {"idle", "asking", "confirmed", "emit"}, ref : Refs]]
      /\ verify[v].at # "idle" => intent[verify[v].ref] # "none"
  BY DEF PayInv, VerifyInv
<1>2. PICK a \in {"idle", "confirmed"} :
        /\ verify' = [verify EXCEPT ![v].at = a]
        /\ a = "confirmed" => chain[verify[v].ref] # "none"
  BY DEF RpcAnswers, RpcFails
<1> DEFINE r == [at |-> a, ref |-> verify[v].ref]
<1>3. verify' = [verify EXCEPT ![v] = r]
  <2>1. verify[v] \in [at : {"idle", "asking", "confirmed", "emit"}, ref : Refs]
    BY <1>1
  <2>2. [verify[v] EXCEPT !.at = a] = r
    BY <2>1
  <2>3. verify' = [verify EXCEPT ![v] = [verify[v] EXCEPT !.at = a]]
    BY <1>1, <1>2
  <2> QED BY <2>2, <2>3
<1>4. /\ lock' = lock /\ verify[v].at # "idle"
      /\ UNCHANGED <<intent, create, chain, announced, sideVars, fresh>>
  BY DEF RpcAnswers, RpcFails, ledgerVars
<1>5. r \in [at : {"idle", "asking", "confirmed"}, ref : Refs]
  BY <1>1
<1> QED BY <1>1, <1>2, <1>3, <1>4, <1>5, VerifierKeeps

(* A confirmation is stored for a reference some transaction mentions. *)
LEMMA ConfirmKeeps ==
  ASSUME PayInv, NEW v \in Verifiers, StoreConfirmed(v)
  PROVE  PayInv'
<1> DEFINE ref == verify[v].ref
<1>1. /\ verify \in [Verifiers -> [at : {"idle", "asking", "confirmed", "emit"}, ref : Refs]]
      /\ verify[v].at = "confirmed" /\ lock = "free" /\ lock' = "verify"
      /\ ref \in Refs /\ chain[ref] # "none" /\ chain' = chain /\ create' = create
      /\ intent[ref] # "none"
  BY DEF PayInv, VerifyInv, StoreConfirmed
<1>2. /\ \A x \in Refs : intent'[x] = (IF x = ref THEN "confirmed" ELSE intent[x])
      /\ IntentInv'
  BY <1>1 DEF PayInv, IntentInv, StoreConfirmed
<1>3. /\ verify' \in [Verifiers -> [at : {"idle", "asking", "confirmed", "emit"}, ref : Refs]]
      /\ verify'[v].at = "emit" /\ verify'[v].ref = ref
      /\ \A w \in Verifiers : w # v => verify'[w] = verify[w]
  BY <1>1 DEF StoreConfirmed
<1>4. \A w \in Verifiers : verify[w].at # "emit"
  BY <1>1 DEF PayInv, VerifyInv
<1>5. VerifyInv'
  BY <1>1, <1>2, <1>3, <1>4 DEF PayInv, VerifyInv
<1>6. AnnouncedInv'
  BY <1>2 DEF PayInv, AnnouncedInv, StoreConfirmed
<1>7. WatchInv'
  BY DEF PayInv, WatchInv, StoreConfirmed, sideVars
<1> QED BY <1>2, <1>5, <1>6, <1>7 DEF PayInv

(* What is announced as confirmed was stored as confirmed. *)
LEMMA EmitKeeps == ASSUME PayInv, NEW v \in Verifiers, EmitStatus(v) PROVE PayInv'
<1> DEFINE ref == verify[v].ref
<1>1. /\ verify \in [Verifiers -> [at : {"idle", "asking", "confirmed", "emit"}, ref : Refs]]
      /\ verify[v].at = "emit" /\ ref \in Refs /\ intent[ref] = "confirmed"
      /\ announced' = announced \cup {<<ref, "confirmed">>}
      /\ UNCHANGED <<intent, create, chain>>
  BY DEF PayInv, VerifyInv, EmitStatus
<1>2. /\ verify' \in [Verifiers -> [at : {"idle", "asking", "confirmed", "emit"}, ref : Refs]]
      /\ verify'[v].at = "idle"
      /\ \A w \in Verifiers : w # v => verify'[w] = verify[w]
  BY <1>1 DEF EmitStatus, Asleep
<1>3. VerifyInv'
  BY <1>1, <1>2 DEF PayInv, VerifyInv
<1>4. AnnouncedInv'
  BY <1>1 DEF PayInv, AnnouncedInv
<1>5. IntentInv' /\ WatchInv'
  BY <1>1 DEF PayInv, IntentInv, WatchInv, EmitStatus, sideVars
<1> QED BY <1>3, <1>4, <1>5 DEF PayInv

(* The sidecar is given watches, and forgets them when it exits. *)
LEMMA SidecarKeeps == ASSUME PayInv, WriteWatch \/ SidecarExits PROVE PayInv'
<1>1. IntentInv' /\ VerifyInv' /\ AnnouncedInv'
  BY DEF WriteWatch, SidecarExits, PayInv, IntentInv, VerifyInv, AnnouncedInv, ledgerVars
<1>2. WatchInv'
  <2>1. CASE SidecarExits
    BY <2>1 DEF SidecarExits, PayInv, WatchInv
  <2>2. CASE WriteWatch
    <3>1. /\ channel \in Seq(Refs) /\ channel # << >> /\ channel' = Tail(channel)
          /\ watching' = watching \cup {channel[1]}
      BY <2>2 DEF WriteWatch, PayInv, WatchInv
    <3>2. channel' \in Seq(Refs) /\ channel[1] \in Refs
      BY <3>1
    <3>3. ASSUME NEW i \in DOMAIN channel
          PROVE  i = 1 \/ \E j \in DOMAIN channel' : channel'[j] = channel[i]
      <4>1. CASE i # 1
        <5>1. i - 1 \in DOMAIN channel' /\ channel'[i - 1] = channel[i]
          BY <3>1, <3>3, <4>1
        <5> QED BY <5>1
      <4> QED BY <4>1
    <3>4. ASSUME NEW ref \in Refs, ref \in watching \/ \E i \in DOMAIN channel : channel[i] = ref
          PROVE  ref \in watching' \/ \E j \in DOMAIN channel' : channel'[j] = ref
      BY <3>1, <3>3, <3>4
    <3>5. UNCHANGED <<sidecar, fresh, create>>
      BY <2>2 DEF WriteWatch
    <3> QED BY <3>1, <3>2, <3>4, <3>5 DEF PayInv, WatchInv
  <2> QED BY <2>1, <2>2
<1> QED BY <1>1, <1>2 DEF PayInv

(* A crash keeps what was stored, and no verifier is left at work. *)
LEMMA CrashKeepsPay == ASSUME PayInv, Crash PROVE PayInv'
<1>1. IntentInv' /\ AnnouncedInv'
  BY DEF Crash, PayInv, IntentInv, AnnouncedInv
<1>2. VerifyInv'
  BY DEF Crash, PayInv, VerifyInv, Asleep
<1>3. WatchInv'
  <2>1. \A ref \in Refs : create'[ref] # "watched"
    BY DEF Crash, PayInv, IntentInv
  <2>2. << >> \in Seq(Refs)
    OBVIOUS
  <2> QED BY <2>1, <2>2 DEF Crash, WatchInv
<1> QED BY <1>1, <1>2, <1>3 DEF PayInv

(* Every step keeps the invariant. *)
LEMMA StepKeeps == IInv /\ [PaymentsNext]_vars => IInv'
<1> SUFFICES ASSUME IInv, [PaymentsNext]_vars PROVE IInv'
  OBVIOUS
<1> USE DEF IInv
<1>1. CASE LedgerStep /\ UNCHANGED <<payVars, crashes>>
  BY <1>1, LedgerStepKeeps, LedgerStepKeepsPay
<1>2. ASSUME NEW ref \in Refs,
             \/ StoreIntent(ref) \/ WatchReference(ref) \/ AnnounceIntent(ref) \/ Land(ref)
             \/ \E v \in Verifiers : ReadIntent(v, ref)
      PROVE  IInv'
  <2>1. PayInv'
    BY <1>2, StoreKeeps, WatchKeeps, AnnounceKeeps, LandKeeps, ReadKeeps
  <2>2. /\ UNCHANGED <<rows, round, replayVars, lock, crashes>>
        /\ faults' = faults \/ Fault
    BY <1>2, Zenon DEF StoreIntent, WatchReference, AnnounceIntent, Land, ReadIntent, ledgerVars
  <2> QED BY <2>1, <2>2, OthersKeepLedger
<1>3. ASSUME NEW v \in Verifiers,
             RpcAnswers(v) \/ RpcFails(v) \/ StoreConfirmed(v) \/ EmitStatus(v)
      PROVE  IInv'
  <2>1. PayInv'
    BY <1>3, AnswerKeeps, ConfirmKeeps, EmitKeeps
  <2>2. /\ UNCHANGED <<rows, round, replayVars, crashes>>
        /\ faults' = faults \/ Fault
    BY <1>3, Zenon DEF RpcAnswers, RpcFails, StoreConfirmed, EmitStatus, ledgerVars
  <2>3. lock' = lock \/ {lock, lock'} \subseteq {"free", "verify"}
    BY <1>3 DEF RpcAnswers, RpcFails, StoreConfirmed, EmitStatus, ledgerVars, PayInv, VerifyInv
  <2> QED BY <2>1, <2>2, <2>3, OthersKeepLedger
<1>4. CASE WriteWatch \/ SidecarExits
  <2>1. /\ UNCHANGED <<rows, round, replayVars, lock, crashes>>
        /\ faults' = faults \/ Fault
    BY <1>4, Zenon DEF WriteWatch, SidecarExits, ledgerVars
  <2> QED BY <1>4, <2>1, SidecarKeeps, OthersKeepLedger
<1>5. CASE Crash
  <2>1. crashes' \in 0..MaxCrashes
    BY <1>5, PaymentsAssumption DEF Crash
  <2> QED BY <1>5, <2>1, CrashKeepsPay, LedgerCrashKeeps DEF Crash
<1>6. CASE UNCHANGED vars
  <2>1. UNCHANGED payVars /\ UNCHANGED <<rows, round, replayVars, lock, crashes, faults>>
    BY <1>6 DEF vars, payVars, replayVars
  <2>2. PayInv'
    BY <2>1 DEF payVars, PayInv, IntentInv, VerifyInv, AnnouncedInv, WatchInv
  <2> QED BY <2>1, <2>2, OthersKeepLedger
<1> QED BY <1>1, <1>2, <1>3, <1>4, <1>5, <1>6 DEF PaymentsNext

(* The invariant holds of every reachable state. *)
LEMMA Invariance == Spec => []IInv
BY Starts, StepKeeps, PTL DEF Spec

-----------------------------------------------------------------------------
(* The variables of the ledger and of the payments keep their types.       *)
THEOREM PaymentsTypes == Spec => []TypeOK
<1>1. IInv => TypeOK
  BY LedgerTypes DEF IInv, PayInv, IntentInv, VerifyInv, AnnouncedInv, WatchInv, TypeOK
<1> QED BY <1>1, Invariance, PTL

(* Wherever a round is cut off, no part of a run precedes it and a returned *)
(* run is complete (persistence.rs: persist_run; mod.rs:542).               *)
THEOREM RunsAreWhole == Spec => []RunsHoldTogether
<1>1. IInv => RunsHoldTogether
  BY RoundsInvHolds DEF IInv, LedgerInv
<1> QED BY <1>1, Invariance, PTL

(* The rows of a fixture are one whole replay, never two mixed, whatever    *)
(* fails inside the transaction (store.rs: replace_backtest_settlements).   *)
THEOREM ReplaysStayApart == Spec => []ReplaysDoNotMix
<1>1. IInv => ReplaysDoNotMix
  BY BacktestInvHolds DEF IInv, LedgerInv
<1> QED BY <1>1, Invariance, PTL

(* Whatever history the provider sends, of the two positions on a signal    *)
(* exactly one wins (backtest.rs: replay_fixture, settle_position).         *)
THEOREM EveryPairSplits == Spec => []PairsSplit
<1>1. IInv => PairsSplit
  BY BacktestInvHolds DEF IInv, LedgerInv
<1> QED BY <1>1, Invariance, PTL

(* What the webview was told of a payment is stored and has its             *)
(* transaction, for any number of concurrent verifications and crashes      *)
(* (commands/payments.rs).                                                  *)
THEOREM AnnouncementsAreStored == Spec => []AnnouncedIsStored
<1>1. IInv => AnnouncedIsStored
  <2> SUFFICES ASSUME IInv, NEW a \in announced
               PROVE  /\ intent[a[1]] # "none"
                      /\ a[2] = "confirmed" => intent[a[1]] = "confirmed" /\ chain[a[1]] # "none"
    BY DEF AnnouncedIsStored
  <2>1. PICK ref \in Refs, status \in {"pending", "confirmed"} : a = <<ref, status>>
    BY DEF IInv, PayInv, AnnouncedInv
  <2>2. a[1] = ref /\ a[2] = status
    BY <2>1
  <2>3. <<ref, status>> \in announced
    BY <2>1
  <2>4. intent[ref] # "none"
    BY <2>1, <2>3 DEF IInv, PayInv, AnnouncedInv, IntentInv
  <2>5. ASSUME status = "confirmed"
        PROVE  intent[ref] = "confirmed" /\ chain[ref] # "none"
    BY <2>3, <2>5 DEF IInv, PayInv, AnnouncedInv, IntentInv
  <2> QED BY <2>2, <2>4, <2>5
<1> QED BY <1>1, Invariance, PTL

(* As long as the sidecar runs, no intent shown to the user is forgotten    *)
(* (yellowstone.rs: watch, run_sidecar).                                    *)
THEOREM ShownIsWatched == Spec => []ShownIntentsAreWatched
<1>1. IInv => ShownIntentsAreWatched
  BY DEF IInv, PayInv, WatchInv, ShownIntentsAreWatched
<1> QED BY <1>1, Invariance, PTL

-----------------------------------------------------------------------------
(* The promise the ledger keeps                                            *)

(* Nobody pays an intent that was not shown, and none is shown before its  *)
(* creation has come to its end: an intent that is still being created is  *)
(* pending, whatever verifications are under way.                          *)
ShownInv ==
  \A ref \in Refs :
    /\ create[ref] \in {"stored", "watched"} => intent[ref] = "pending"
    /\ <<ref, "pending">> \in announced => create[ref] = "ended"
    /\ chain[ref] # "none" => <<ref, "pending">> \in announced

(* Of an unfinished creation there is no transaction yet. *)
LEMMA UnfinishedIsUnpaid ==
  ASSUME ShownInv, NEW ref \in Refs, create[ref] # "ended"
  PROVE  chain[ref] = "none"
BY DEF ShownInv

(* Creating an intent, and showing it at the end, keeps the order. *)
LEMMA CreationKeepsShown ==
  ASSUME PayInv, ShownInv, NEW ref \in Refs,
         StoreIntent(ref) \/ WatchReference(ref) \/ AnnounceIntent(ref) \/ Land(ref)
  PROVE  ShownInv'
<1> SUFFICES ASSUME NEW q \in Refs
             PROVE  /\ create'[q] \in {"stored", "watched"} => intent'[q] = "pending"
                    /\ <<q, "pending">> \in announced' => create'[q] = "ended"
                    /\ chain'[q] # "none" => <<q, "pending">> \in announced'
  BY DEF ShownInv
<1>1. /\ intent \in [Refs -> {"none", "pending", "confirmed"}]
      /\ create \in [Refs -> {"none", "stored", "watched", "ended"}]
      /\ chain \in [Refs -> {"none", "succeeded", "failed"}]
  BY DEF PayInv, IntentInv
<1>2. /\ create[q] \in {"stored", "watched"} => intent[q] = "pending"
      /\ <<q, "pending">> \in announced => create[q] = "ended"
      /\ chain[q] # "none" => <<q, "pending">> \in announced
  BY DEF ShownInv
<1>3. CASE StoreIntent(ref)
  <2>1. announced' = announced /\ chain' = chain /\ create[ref] = "none"
    BY <1>3 DEF StoreIntent
  <2>2. CASE q = ref
    <3>1. create'[q] \in {"stored", "ended"} /\ (create'[q] = "stored" => intent'[q] = "pending")
      BY <1>1, <1>3, <2>2 DEF StoreIntent
    <3> QED BY <1>2, <2>1, <2>2, <3>1
  <2>3. CASE q # ref
    <3>1. create'[q] = create[q] /\ intent'[q] = intent[q]
      BY <1>1, <1>3, <2>3 DEF StoreIntent
    <3> QED BY <1>2, <2>1, <3>1
  <2> QED BY <2>2, <2>3
<1>4. CASE WatchReference(ref)
  <2>1. /\ create' = [create EXCEPT ![ref] = "watched"] /\ create[ref] = "stored"
        /\ UNCHANGED <<intent, announced, chain>>
    BY <1>4 DEF WatchReference
  <2> QED BY <1>1, <1>2, <2>1
<1>5. CASE AnnounceIntent(ref)
  <2>1. /\ create' = [create EXCEPT ![ref] = "ended"]
        /\ announced' = announced \cup {<<ref, "pending">>}
        /\ UNCHANGED <<intent, chain>>
    BY <1>5 DEF AnnounceIntent
  <2>2. <<q, "pending">> \in announced' => <<q, "pending">> \in announced \/ q = ref
    BY <2>1
  <2> QED BY <1>1, <1>2, <2>1, <2>2
<1>6. CASE Land(ref)
  <2>1. /\ <<ref, "pending">> \in announced
        /\ \A p \in Refs : p # ref => chain'[p] = chain[p]
        /\ UNCHANGED <<intent, create, announced>>
    BY <1>1, <1>6 DEF Land
  <2> QED BY <1>2, <2>1
<1> QED BY <1>3, <1>4, <1>5, <1>6

(* A verification confirms an intent that has been shown. *)
LEMMA VerificationKeepsShown ==
  ASSUME PayInv, ShownInv, NEW v \in Verifiers,
         \/ \E ref \in Refs : ReadIntent(v, ref)
         \/ RpcAnswers(v) \/ RpcFails(v) \/ StoreConfirmed(v) \/ EmitStatus(v)
  PROVE  ShownInv'
<1>1. create' = create /\ chain' = chain
  BY DEF ReadIntent, RpcAnswers, RpcFails, StoreConfirmed, EmitStatus
<1>2. CASE StoreConfirmed(v)
  <2> DEFINE paid == verify[v].ref
  <2>1. /\ announced' = announced /\ intent' = [intent EXCEPT ![paid] = "confirmed"]
        /\ verify[v].at = "confirmed"
    BY <1>2 DEF StoreConfirmed
  <2>2. paid \in Refs /\ chain[paid] # "none"
    BY <2>1 DEF PayInv, VerifyInv
  <2>3. create[paid] = "ended"
    BY <2>2, UnfinishedIsUnpaid
  <2>4. \A q \in Refs : q # paid => intent'[q] = intent[q]
    BY <2>1 DEF PayInv, IntentInv
  <2> QED BY <1>1, <2>1, <2>3, <2>4 DEF ShownInv
<1>3. CASE EmitStatus(v)
  <2>1. intent' = intent /\ announced' = announced \cup {<<verify[v].ref, "confirmed">>}
    BY <1>3 DEF EmitStatus
  <2>2. \A q \in Refs : <<q, "pending">> \in announced' <=> <<q, "pending">> \in announced
    BY <2>1
  <2> QED BY <1>1, <2>1, <2>2 DEF ShownInv
<1>4. CASE (\E ref \in Refs : ReadIntent(v, ref)) \/ RpcAnswers(v) \/ RpcFails(v)
  <2>1. intent' = intent /\ announced' = announced
    BY <1>4 DEF ReadIntent, RpcAnswers, RpcFails
  <2> QED BY <1>1, <2>1 DEF ShownInv
<1> QED BY <1>2, <1>3, <1>4

(* A crash ends the creations it meets; what was shown had ended already.  *)
LEMMA CrashKeepsShown ==
  ASSUME PayInv, ShownInv, Crash
  PROVE  ShownInv'
<1>1. UNCHANGED <<intent, chain, announced>>
  BY DEF Crash
<1>2. \A q \in Refs : create'[q] = IF create[q] = "none" THEN "none" ELSE "ended"
  BY DEF Crash
<1> QED BY <1>1, <1>2 DEF ShownInv

(* The promise speaks of these variables; a step that leaves them as they  *)
(* are leaves it.                                                          *)
LEMMA OthersLeavePromise ==
  ASSUME UNCHANGED <<replays, due, backtest, intent, announced, chain>>
  PROVE  [Promise!Next]_<<Promise!tableVars, Promise!intentVars>>
BY DEF Promise!tableVars, Promise!intentVars

(* Replays that fail, or that a crash cuts off, are forgotten. *)
LEMMA LostAreForgotten ==
  ASSUME due' \subseteq due, UNCHANGED <<replays, backtest, intent, announced, chain>>
  PROVE  [Promise!Next]_<<Promise!tableVars, Promise!intentVars>>
<1>1. Promise!Forget
  BY DEF Promise!Forget, Promise!intentVars
<1> QED BY <1>1 DEF Promise!Next

(* When a replay commits, its rows are all there and the fixture's earlier *)
(* ones are gone.                                                          *)
LEMMA CommitInstalls ==
  ASSUME BacktestInv, ReplaceCommits
  PROVE  LET n == writing
             f == replays[n].fixture
         IN  /\ n \in due /\ due' = due \ {n} /\ replays' = replays
             /\ backtest' = {row \in backtest : row[2] # f}
                              \cup {<<n, f, p>> : p \in replays[n].positions}
<1> DEFINE n == writing
           f == replays[n].fixture
           kept == {row \in backtest : row[2] # f}
<1>1. /\ lock = "backtest" /\ backtest' = staged /\ replays' = replays
      /\ n \in due /\ due' = due \ {n} /\ n \in DOMAIN replays /\ Open = replays[n]
  BY DEF BacktestInv, ReplaceCommits, ReplaceEnds, Open
<1>2. Of(staged, f) = Full(n)
  <2>1. Of(staged, f) \subseteq Full(n)
    BY <1>1 DEF BacktestInv
  <2>2. Full(n) \subseteq Of(staged, f)
    BY <1>1 DEF ReplaceCommits, Missing, Row, Full, Of
  <2> QED BY <2>1, <2>2
<1>3. \A g \in Fixtures : g # f => Of(staged, g) = Of(backtest, g)
  BY <1>1 DEF BacktestInv
<1>4. \A row \in staged \cup backtest : row[2] \in Fixtures
  BY DEF BacktestInv, RowOK
<1>5. staged = kept \cup Full(n)
  <2>1. ASSUME NEW row, row[2] = f PROVE row \in staged <=> row \in kept \cup Full(n)
    BY <1>2, <2>1 DEF Of
  <2>2. ASSUME NEW row \in staged, row[2] # f PROVE row \in kept
    BY <1>3, <1>4, <2>2 DEF Of
  <2>3. ASSUME NEW row \in kept \cup Full(n), row[2] # f PROVE row \in staged
    <3>1. row \in backtest
      BY <1>2, <2>3 DEF Of
    <3> QED BY <1>3, <1>4, <2>3, <3>1 DEF Of
  <2> QED BY <2>1, <2>2, <2>3
<1>6. Full(n) = {<<n, f, p>> : p \in replays[n].positions}
  BY DEF Full
<1> QED BY <1>1, <1>5, <1>6

(* A step of the ledger replays, installs or forgets a replay, or is not   *)
(* seen.                                                                   *)
LEMMA LedgerMaps ==
  ASSUME BacktestInv, LedgerStep, UNCHANGED <<intent, announced, chain>>
  PROVE  [Promise!Next]_<<Promise!tableVars, Promise!intentVars>>
<1>1. CASE \E f \in Fixtures, history \in Histories : ComputeReplay(f, history)
  <2>1. PICK f \in Fixtures, history \in Histories : ComputeReplay(f, history)
    BY <1>1
  <2> DEFINE o == [fixture |-> f, positions |-> ReplayFixture(history, f)]
  <2>2. o \in Outcomes
    BY <2>1 DEF Outcomes, ComputeReplay
  <2>3. /\ replays' = Append(replays, o) /\ backtest' = backtest
        /\ due' = due \cup {Len(replays) + 1}
    BY <2>1 DEF ComputeReplay
  <2> HIDE DEF o
  <2>4. Promise!Replay
    BY <2>2, <2>3 DEF Promise!Replay, Promise!intentVars
  <2> QED BY <2>4 DEF Promise!Next
<1>2. CASE ReplaceCommits
  <2>1. writing \in due /\ Promise!Install(writing)
    BY <1>2, CommitInstalls DEF Promise!Install, Promise!intentVars
  <2> QED BY <2>1 DEF Promise!Next
<1>3. CASE ReplaceFails
  <2>1. UNCHANGED <<replays, backtest>> /\ due' \subseteq due
    BY <1>3 DEF ReplaceFails, ReplaceEnds
  <2> QED BY <2>1, LostAreForgotten
<1>4. CASE (\E n \in due : ReplaceBegins(n)) \/ ReplaceInserts
  <2>1. UNCHANGED <<replays, due, backtest>>
    BY <1>4 DEF ReplaceBegins, ReplaceInserts
  <2> QED BY <2>1, OthersLeavePromise
<1>5. ASSUME NEW r \in Rounds,
             \/ BeginRound(r) \/ FindSignal(r) \/ PersistRun(r)
             \/ InsertRow(r) \/ InsertRowFails(r) \/ PersistArtifacts(r)
      PROVE  UNCHANGED <<replays, due, backtest>>
  <2>1. UNCHANGED replayVars
    BY <1>5, Zenon DEF BeginRound, FindSignal, PersistRun, InsertRow, InsertRowFails,
                       PersistArtifacts
  <2> QED BY <2>1 DEF replayVars
<1>6. CASE UNCHANGED <<replays, due, backtest>>
  BY <1>6, OthersLeavePromise
<1> QED BY <1>1, <1>2, <1>3, <1>4, <1>5, <1>6 DEF LedgerStep

(* An intent is created and shown once, and paid by whom it was shown to. *)
LEMMA CreationMaps ==
  ASSUME PayInv, ShownInv, NEW ref \in Refs,
         StoreIntent(ref) \/ WatchReference(ref) \/ AnnounceIntent(ref) \/ Land(ref)
  PROVE  [Promise!Next]_<<Promise!tableVars, Promise!intentVars>>
<1>1. UNCHANGED <<replays, due, backtest>>
  BY DEF StoreIntent, WatchReference, AnnounceIntent, Land, ledgerVars, replayVars
<1>2. CASE StoreIntent(ref)
  <2>1. UNCHANGED <<announced, chain>> /\ create[ref] = "none"
    BY <1>2 DEF StoreIntent
  <2>2. intent[ref] = "none"
    BY <2>1 DEF PayInv, IntentInv
  <2>3. intent' = [intent EXCEPT ![ref] = "pending"] \/ intent' = intent
    BY <1>2 DEF StoreIntent
  <2>4. ASSUME intent' = [intent EXCEPT ![ref] = "pending"] PROVE Promise!Create(ref)
    BY <1>1, <2>1, <2>2, <2>4 DEF Promise!Create, Promise!tableVars
  <2> QED BY <1>1, <2>1, <2>3, <2>4, OthersLeavePromise DEF Promise!Next
<1>3. CASE WatchReference(ref)
  <2>1. UNCHANGED <<intent, announced, chain>>
    BY <1>3 DEF WatchReference
  <2> QED BY <1>1, <2>1, OthersLeavePromise
<1>4. CASE AnnounceIntent(ref)
  <2>1. /\ announced' = announced \cup {<<ref, "pending">>} /\ create[ref] = "watched"
        /\ UNCHANGED <<intent, chain>>
    BY <1>4 DEF AnnounceIntent
  <2>2. intent[ref] = "pending"
    BY <2>1 DEF ShownInv
  <2>3. Promise!Tell(ref)
    BY <1>1, <2>1, <2>2 DEF Promise!Tell, Promise!tableVars
  <2> QED BY <2>3 DEF Promise!Next
<1>5. CASE Land(ref)
  <2>1. Promise!Land(ref)
    BY <1>1, <1>5 DEF Land, Promise!Land, Promise!tableVars
  <2> QED BY <2>1 DEF Promise!Next
<1> QED BY <1>2, <1>3, <1>4, <1>5

(* A verification confirms what has been paid, then tells so. *)
LEMMA VerificationMaps ==
  ASSUME PayInv, NEW v \in Verifiers,
         \/ \E ref \in Refs : ReadIntent(v, ref)
         \/ RpcAnswers(v) \/ RpcFails(v) \/ StoreConfirmed(v) \/ EmitStatus(v)
  PROVE  [Promise!Next]_<<Promise!tableVars, Promise!intentVars>>
<1> DEFINE ref == verify[v].ref
<1>1. UNCHANGED <<replays, due, backtest, chain>>
  BY DEF ReadIntent, RpcAnswers, RpcFails, StoreConfirmed, EmitStatus, ledgerVars, replayVars
<1>2. CASE (\E q \in Refs : ReadIntent(v, q)) \/ RpcAnswers(v) \/ RpcFails(v)
  <2>1. UNCHANGED <<intent, announced>>
    BY <1>2 DEF ReadIntent, RpcAnswers, RpcFails
  <2> QED BY <1>1, <2>1, OthersLeavePromise
<1>3. CASE StoreConfirmed(v)
  <2>1. /\ intent' = [intent EXCEPT ![ref] = "confirmed"] /\ announced' = announced
        /\ verify[v].at = "confirmed"
    BY <1>3 DEF StoreConfirmed
  <2>2. /\ ref \in Refs /\ chain[ref] # "none" /\ intent[ref] # "none"
        /\ intent \in [Refs -> {"none", "pending", "confirmed"}]
    BY <2>1 DEF PayInv, VerifyInv, IntentInv
  <2>3. CASE intent[ref] = "pending"
    <3>1. Promise!Confirm(ref)
      BY <1>1, <2>1, <2>2, <2>3 DEF Promise!Confirm, Promise!tableVars
    <3> QED BY <2>2, <3>1 DEF Promise!Next
  <2>4. CASE intent[ref] = "confirmed"
    <3>1. intent' = intent
      BY <2>1, <2>2, <2>4
    <3> QED BY <1>1, <2>1, <3>1, OthersLeavePromise
  <2> QED BY <2>2, <2>3, <2>4
<1>4. CASE EmitStatus(v)
  <2>1. /\ intent' = intent /\ announced' = announced \cup {<<ref, "confirmed">>}
        /\ verify[v].at = "emit"
    BY <1>4 DEF EmitStatus
  <2>2. ref \in Refs /\ intent[ref] = "confirmed"
    BY <2>1 DEF PayInv, VerifyInv
  <2>3. Promise!Tell(ref)
    BY <1>1, <2>1, <2>2 DEF Promise!Tell, Promise!tableVars
  <2> QED BY <2>2, <2>3 DEF Promise!Next
<1> QED BY <1>2, <1>3, <1>4

(* Every step of the payments keeps the order of an intent's life. *)
LEMMA StepKeepsShown == IInv /\ ShownInv /\ [PaymentsNext]_vars => ShownInv'
<1> SUFFICES ASSUME IInv, ShownInv, [PaymentsNext]_vars PROVE ShownInv'
  OBVIOUS
<1>1. CASE UNCHANGED <<intent, create, chain, announced>>
  BY <1>1 DEF ShownInv
<1>2. CASE \/ LedgerStep /\ UNCHANGED <<payVars, crashes>>
           \/ WriteWatch \/ SidecarExits \/ UNCHANGED vars
  <2>1. UNCHANGED <<intent, create, chain, announced>>
    BY <1>2 DEF payVars, WriteWatch, SidecarExits, vars
  <2> QED BY <1>1, <2>1
<1> QED BY <1>2, CreationKeepsShown, VerificationKeepsShown, CrashKeepsShown
        DEF PaymentsNext, IInv

(* Every step of the payments is one of the promise, or not seen by it.    *)
LEMMA StepsKeepPromise ==
  ASSUME IInv, ShownInv, [PaymentsNext]_vars
  PROVE  [Promise!Next]_<<Promise!tableVars, Promise!intentVars>>
<1>1. BacktestInv /\ PayInv
  BY DEF IInv, LedgerInv
<1>2. CASE LedgerStep /\ UNCHANGED <<payVars, crashes>>
  BY <1>1, <1>2, LedgerMaps DEF payVars
<1>3. CASE WriteWatch \/ SidecarExits \/ UNCHANGED vars
  <2>1. UNCHANGED <<replays, due, backtest, intent, announced, chain>>
    BY <1>3 DEF WriteWatch, SidecarExits, vars, ledgerVars, replayVars
  <2> QED BY <2>1, OthersLeavePromise
<1>4. CASE Crash
  <2>1. UNCHANGED <<replays, backtest, intent, announced, chain>> /\ due' \subseteq due
    BY <1>4 DEF Crash, LedgerCrash
  <2> QED BY <2>1, LostAreForgotten
<1> QED BY <1>1, <1>2, <1>3, <1>4, CreationMaps, VerificationMaps DEF PaymentsNext

(* An intent that has not begun to be created has not been shown. *)
LEMMA ShownStarts == PaymentsInit => ShownInv
BY DEF PaymentsInit, ShownInv

(* The desk's database keeps its promise to the webview: a fixture's rows   *)
(* are replaced in one instant by all of a replay's that had yet to be      *)
(* stored, an event tells what is stored when it is sent, and what is       *)
(* confirmed stays so, whatever locks, failures and crashes come between    *)
(* and whichever of two overlapping replays has the ledger first (store.rs, *)
(* commands/backtest.rs, commands/payments.rs).                             *)
THEOREM LedgerKeepsPromise == Spec => KeepsLedgerPromise
<1>1. PaymentsInit => Promise!Init
  BY DEF PaymentsInit, LedgerInit, Promise!Init
<1>2. IInv /\ ShownInv /\ [PaymentsNext]_vars
        => [Promise!Next]_<<Promise!tableVars, Promise!intentVars>>
  BY StepsKeepPromise
<1> QED BY <1>1, <1>2, ShownStarts, Invariance, StepKeepsShown, PTL
        DEF Spec, KeepsLedgerPromise, Promise!Spec

-----------------------------------------------------------------------------
(* What the promise is worth                                               *)

(* An intent is stored as confirmed only when its transaction is on the    *)
(* chain and the user had been shown it: one whose creation a crash cut    *)
(* off before its event (commands/payments.rs) is never confirmed.         *)
ConfirmedWasShown ==
  \A ref \in Refs : intent[ref] = "confirmed" =>
    chain[ref] # "none" /\ <<ref, "pending">> \in announced /\ create[ref] = "ended"

(* No intent is confirmed behind the user's back. *)
THEOREM ConfirmationsWereShown == Spec => []ConfirmedWasShown
<1>1. IInv /\ ShownInv => ConfirmedWasShown
  BY DEF IInv, PayInv, IntentInv, ShownInv, ConfirmedWasShown
<1> QED BY <1>1, ShownStarts, Invariance, StepKeepsShown, PTL DEF Spec

(* Rows that appear are of a replay that waited and waits no more; what     *)
(* begins to wait is new.                                                  *)
ReplaysServeOnce ==
  /\ \A row \in backtest' \ backtest : row[1] \in due \ due'
  /\ \A n \in due' \ due : n \notin DOMAIN replays

(* The life of an intent goes one way. *)
IntentsAdvance ==
  \A ref \in Refs :
    /\ intent[ref] # "none" => intent'[ref] # "none"
    /\ intent[ref] = "confirmed" => intent'[ref] = "confirmed"
    /\ chain[ref] # "none" => chain'[ref] = chain[ref]

(* No step takes back what the database or the webview has of a replay or  *)
(* of an intent, or brings back a replay that was overtaken, failed or cut *)
(* off (store.rs, commands/backtest.rs, commands/payments.rs): not the     *)
(* second of two verifications of an intent, not a failure inside a        *)
(* transaction, not a crash.                                               *)
NothingTakenBack ==
  [][ /\ \A n \in DOMAIN replays : n \in DOMAIN replays' /\ replays'[n] = replays[n]
      /\ ReplaysServeOnce
      /\ IntentsAdvance
      /\ announced \subseteq announced' ]_vars

(* A replay that is installed has waited until then. *)
LEMMA InstallServesOnce ==
  ASSUME NEW n \in due, Promise!Install(n)
  PROVE  ReplaysServeOnce
<1> DEFINE f == replays[n].fixture
<1>1. /\ due' = due \ {n}
      /\ backtest' = {row \in backtest : row[2] # f} \cup {<<n, f, p>> : p \in replays[n].positions}
  BY DEF Promise!Install
<1>2. ASSUME NEW row \in backtest' \ backtest PROVE row[1] = n
  BY <1>1, <1>2
<1> QED BY <1>1, <1>2 DEF ReplaysServeOnce

(* A step of the promise takes nothing back. *)
LEMMA PromiseAdvances ==
  ASSUME BacktestInv, PayInv, [Promise!Next]_<<Promise!tableVars, Promise!intentVars>>
  PROVE  /\ \A n \in DOMAIN replays : n \in DOMAIN replays' /\ replays'[n] = replays[n]
         /\ ReplaysServeOnce /\ IntentsAdvance /\ announced \subseteq announced'
<1>1. /\ replays \in Seq(Replayed)
      /\ intent \in [Refs -> {"none", "pending", "confirmed"}]
      /\ chain \in [Refs -> {"none", "succeeded", "failed"}]
  BY DEF BacktestInv, PayInv, IntentInv
<1>2. ASSUME UNCHANGED backtest, due' \subseteq due PROVE ReplaysServeOnce
  BY <1>2 DEF ReplaysServeOnce
<1>3. ASSUME UNCHANGED <<intent, chain>> PROVE IntentsAdvance
  BY <1>3 DEF IntentsAdvance
<1>4. CASE Promise!Replay
  <2>1. /\ \E o \in Outcomes : replays' = Append(replays, o)
        /\ due' = due \cup {Len(replays) + 1}
        /\ UNCHANGED <<backtest, intent, announced, chain>>
    BY <1>4 DEF Promise!Replay, Promise!intentVars
  <2>2. \A n \in DOMAIN replays : n \in DOMAIN replays' /\ replays'[n] = replays[n]
    BY <1>1, <2>1
  <2>3. Len(replays) + 1 \notin DOMAIN replays
    BY <1>1
  <2>4. ReplaysServeOnce
    BY <2>1, <2>3 DEF ReplaysServeOnce
  <2> QED BY <1>3, <2>1, <2>2, <2>4
<1>5. CASE \E n \in due : Promise!Install(n)
  <2>1. UNCHANGED <<replays, intent, announced, chain>>
    BY <1>5 DEF Promise!Install, Promise!intentVars
  <2> QED BY <1>3, <1>5, <2>1, InstallServesOnce
<1>6. CASE Promise!Forget \/ UNCHANGED <<Promise!tableVars, Promise!intentVars>>
  <2>1. UNCHANGED <<replays, backtest, intent, announced, chain>> /\ due' \subseteq due
    BY <1>6 DEF Promise!Forget, Promise!tableVars, Promise!intentVars
  <2> QED BY <1>2, <1>3, <2>1
<1>7. ASSUME NEW ref \in Refs,
             Promise!Create(ref) \/ Promise!Tell(ref) \/ Promise!Land(ref) \/ Promise!Confirm(ref)
      PROVE  /\ UNCHANGED <<replays, due, backtest>> /\ IntentsAdvance
             /\ announced \subseteq announced'
  <2>1. UNCHANGED <<replays, due, backtest>>
    BY <1>7 DEF Promise!Create, Promise!Tell, Promise!Land, Promise!Confirm, Promise!tableVars
  <2>2. announced \subseteq announced'
    BY <1>7 DEF Promise!Create, Promise!Tell, Promise!Land, Promise!Confirm
  <2>3. ASSUME NEW q \in Refs
        PROVE  /\ intent[q] # "none" => intent'[q] # "none"
               /\ intent[q] = "confirmed" => intent'[q] = "confirmed"
               /\ chain[q] # "none" => chain'[q] = chain[q]
    BY <1>1, <1>7 DEF Promise!Create, Promise!Tell, Promise!Land, Promise!Confirm
  <2> QED BY <2>1, <2>2, <2>3 DEF IntentsAdvance
<1>8. CASE \E ref \in Refs : \/ Promise!Create(ref) \/ Promise!Tell(ref)
                             \/ Promise!Land(ref) \/ Promise!Confirm(ref)
  BY <1>2, <1>7, <1>8
<1> QED BY <1>4, <1>5, <1>6, <1>8, Zenon DEF Promise!Next

(* Nothing is taken back, and no replay serves twice: what the promise     *)
(* says of an instant holds on.                                            *)
THEOREM LedgerOnlyAdvances == Spec => NothingTakenBack
<1>1. ASSUME IInv, ShownInv, [PaymentsNext]_vars
      PROVE  /\ \A n \in DOMAIN replays : n \in DOMAIN replays' /\ replays'[n] = replays[n]
             /\ ReplaysServeOnce /\ IntentsAdvance
             /\ announced \subseteq announced'
  <2>1. BacktestInv /\ PayInv
    BY <1>1 DEF IInv, LedgerInv
  <2> QED BY <1>1, <2>1, StepsKeepPromise, PromiseAdvances
<1>2. IInv /\ ShownInv /\ [PaymentsNext]_vars =>
        [ /\ \A n \in DOMAIN replays : n \in DOMAIN replays' /\ replays'[n] = replays[n]
          /\ ReplaysServeOnce
          /\ IntentsAdvance
          /\ announced \subseteq announced' ]_vars
  BY <1>1
<1> QED BY <1>2, ShownStarts, Invariance, StepKeepsShown, PTL DEF Spec, NothingTakenBack
=============================================================================
