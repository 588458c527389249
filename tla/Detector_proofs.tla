-------------------------- MODULE Detector_proofs ---------------------------
(***************************************************************************)
(* What the signal log promises, for every feed, every number of polls and *)
(* every number of failures, torn lines and restarts.                      *)
(***************************************************************************)
EXTENDS Detector, FiniteSetTheorems, TLAPS

-----------------------------------------------------------------------------
(* The inductive invariant                                                 *)

SameMove(a, b) ==
  a.id = b.id /\ a.key = b.key /\ a.from = b.from /\ a.to = b.to /\ a.blind = b.blind

(* Ids grow with the log, and lines of one id are versions of one signal,  *)
(* about a move the feed has shown.                                        *)
LinesInv ==
  /\ \A i \in 1..Len(log) :
       log[i].id <= Len(log) /\ log[i].to <= Len(shown[log[i].key[1]])
  /\ \A i, j \in 1..Len(log) : log[i].id = log[j].id => SameMove(log[i], log[j])

OnceInv ==
  \A i, j \in 1..Len(log) :
    log[i].id < log[j].id /\ log[i].key = log[j].key => ~log[i].readable \/ log[j].blind

OverlapInv ==
  \A i, j \in 1..Len(log) :
    log[i].id < log[j].id /\ log[i].key[1] = log[j].key[1] => log[i].to <= log[j].from

(* A signal in memory has a line, its key is remembered, and none was      *)
(* logged after it under its key.                                          *)
OpenInv ==
  \A s \in open :
    /\ s.key \in seen
    /\ \E i \in 1..Len(log) : SameMove(log[i], s)
    /\ \A j \in 1..Len(log) : log[j].id > s.id => log[j].key # s.key

(* A running detector that could read the log remembers at least what it   *)
(* can tell; and it has seen of a selection nothing, or what was logged of *)
(* it.                                                                     *)
MemoryInv ==
  dpc # "stopped" =>
    \A i \in 1..Len(log) :
      /\ log[i].readable => log[i].key \in seen \/ blind
      /\ prev[log[i].key[1]] = 0 \/ log[i].to <= prev[log[i].key[1]]

(* The prices in hand are no older than what is remembered or logged.      *)
RowsInv ==
  \A n \in rows.left :
    /\ Current(n) \in Selections
    /\ rows.at[n] \in 1..Len(shown[Current(n)])
    /\ prev[Current(n)] <= rows.at[n]
    /\ \A i \in 1..Len(log) :
         log[i].key[1] = Current(n) => log[i].to <= rows.at[n]

(* The agent is asked about a row that is not worked off, whose key is not *)
(* remembered and whose selection is.                                      *)
AskedInv ==
  rows.asked # <<>> =>
    LET n == rows.asked[1]
    IN  n \in rows.left /\ prev[Current(n)] # 0 /\ AskedKey(n) \notin seen

Torn == {i \in 1..Len(log) : ~log[i].readable}

(* A cut line will be lost together with the one that is glued to it.      *)
AtStake == IF ~cut THEN 0 ELSE IF log[Len(log)].readable THEN 2 ELSE 1

TornInv == Cardinality(Torn) + AtStake <= 2 * faults

DInv ==
  /\ TypeOK
  /\ LinesInv /\ OnceInv /\ OverlapInv
  /\ OpenInv /\ MemoryInv /\ RowsInv /\ AskedInv
  /\ TornInv

-----------------------------------------------------------------------------
(* What an append leaves                                                   *)

(* The log is longer by a line about s; the lines before it may have       *)
(* become unreadable, no more.                                             *)
Grown(s) ==
  /\ log' \in Seq(Lines) /\ Len(log') = Len(log) + 1
  /\ \A i \in 1..Len(log) :
       SameMove(log'[i], log[i]) /\ (log'[i].readable => log[i].readable)
  /\ SameMove(log'[Len(log) + 1], s)

(* A torn line keeps its other fields. *)
LEMMA TornType ==
  ASSUME NEW l \in Lines
  PROVE  /\ Unreadable(l) \in Lines /\ SameMove(Unreadable(l), l)
         /\ Unreadable(l).readable = FALSE
         /\ \A part \in Parts :
              /\ Partial(l, part) \in Lines /\ SameMove(Partial(l, part), l)
              /\ Partial(l, part).readable = (part = "all")
<1>1. DOMAIN l = {"id", "key", "from", "to", "blind", "correct", "readable", "text"}
  BY DEF Lines
<1>2. \A r, u \in BOOLEAN :
        /\ [l EXCEPT !.readable = r] \in Lines
        /\ [l EXCEPT !.readable = r, !.text = u] \in Lines
  BY DEF Lines
<1>3. \A part \in Parts : (part = "all") \in BOOLEAN /\ (part # "split") \in BOOLEAN
  OBVIOUS
<1>4. Unreadable(l) \in Lines /\ \A part \in Parts : Partial(l, part) \in Lines
  BY <1>2, <1>3, Zenon DEF Unreadable, Partial
<1>5. SameMove(Unreadable(l), l) /\ Unreadable(l).readable = FALSE
  BY <1>1 DEF Unreadable, SameMove
<1>6. ASSUME NEW part \in Parts
      PROVE  SameMove(Partial(l, part), l) /\ Partial(l, part).readable = (part = "all")
  BY <1>1 DEF Partial, SameMove
<1> QED BY <1>4, <1>5, <1>6

(* A line, and a part of one, say the same of the move. *)
LEMMA LineType ==
  ASSUME NEW s \in SignalType, NEW part \in Parts
  PROVE  LET l == Partial(LineOf(s), part)
         IN  /\ l \in Lines /\ SameMove(l, s) /\ l.readable = (part = "all")
             /\ Unreadable(l) \in Lines /\ SameMove(Unreadable(l), s)
             /\ Unreadable(l).readable = FALSE
<1> DEFINE l == Partial(LineOf(s), part)
<1>1. LineOf(s) \in Lines /\ SameMove(LineOf(s), s)
  BY DEF LineOf, Lines, SignalType, SameMove
<1>2. l \in Lines /\ SameMove(l, LineOf(s)) /\ l.readable = (part = "all")
  BY <1>1, TornType
<1> HIDE DEF l
<1>3. Unreadable(l) \in Lines /\ SameMove(Unreadable(l), l) /\ Unreadable(l).readable = FALSE
  BY <1>2, TornType
<1>4. SameMove(l, s) /\ SameMove(Unreadable(l), s)
  BY <1>1, <1>2, <1>3 DEF SameMove
<1> QED BY <1>2, <1>3, <1>4 DEF l

(* An append lengthens the log by the line appended. *)
LEMMA Appended ==
  ASSUME NEW L \in Seq(Lines), NEW e \in Lines
  PROVE  /\ Append(L, e) \in Seq(Lines)
         /\ Len(L) \in Nat /\ Len(Append(L, e)) = Len(L) + 1
         /\ Append(L, e)[Len(L) + 1] = e
         /\ \A i \in 1..Len(L) : Append(L, e)[i] = L[i]
OBVIOUS

(* The torn lines of a log are finitely many. *)
LEMMA TornIsFinite ==
  ASSUME TypeOK
  PROVE  IsFiniteSet(Torn) /\ Cardinality(Torn) \in Nat
<1>1. IsFiniteSet(1..Len(log))
  BY FS_Interval DEF TypeOK
<1> QED BY <1>1, FS_Subset, FS_CardinalityType DEF Torn

(* Bytes that follow a newline are a line of their own. *)
LEMMA WrittenAlone ==
  ASSUME TypeOK, ~cut, NEW s \in SignalType, NEW part \in Parts, log' = Written(s, part)
  PROVE  /\ Grown(s)
         /\ log'[Len(log')].readable = (part = "all")
         /\ Cardinality(Torn') = Cardinality(Torn) + (IF part = "all" THEN 0 ELSE 1)
<1> DEFINE e == Partial(LineOf(s), part)
           n == Len(log)
<1>1. log' = Append(log, e) /\ log \in Seq(Lines)
  BY DEF Written, TypeOK
<1>2. e \in Lines /\ SameMove(e, s) /\ e.readable = (part = "all")
  BY LineType
<1> HIDE DEF e
<1>3. /\ log' \in Seq(Lines) /\ n \in Nat /\ Len(log') = n + 1
      /\ log'[n + 1] = e /\ \A i \in 1..n : log'[i] = log[i]
  BY <1>1, <1>2, Appended
<1>4. Grown(s)
  BY <1>2, <1>3 DEF Grown, SameMove
<1>8. /\ \A i \in 1..n : log'[i].readable <=> log[i].readable
      /\ log'[n + 1].readable <=> part = "all"
      /\ 1..Len(log') = 1..n \cup {n + 1}
  <2>1. \A i \in 1..n : log'[i].readable <=> log[i].readable
    BY <1>3
  <2>2. log'[n + 1].readable <=> part = "all"
    BY <1>2, <1>3
  <2>3. 1..Len(log') = 1..n \cup {n + 1}
    <3> HIDE DEF n
    <3> QED BY <1>3
  <2> QED BY <2>1, <2>2, <2>3
<1>5. Torn' = IF part = "all" THEN Torn ELSE Torn \cup {n + 1}
  <2>1. Torn' = {i \in 1..n \cup {n + 1} : ~log'[i].readable}
    BY <1>8 DEF Torn
  <2>2. CASE part = "all"
    BY <1>8, <2>1, <2>2 DEF Torn
  <2>3. CASE part # "all"
    BY <1>8, <2>1, <2>3 DEF Torn
  <2> QED BY <2>2, <2>3
<1>6. n + 1 \notin Torn
  BY <1>3 DEF Torn
<1>7. Cardinality(Torn \cup {n + 1}) = Cardinality(Torn) + 1 /\ Cardinality(Torn) \in Nat
  BY <1>6, TornIsFinite, FS_AddElement
<1> QED BY <1>2, <1>3, <1>4, <1>5, <1>7

(* Bytes glued to a cut line tear both. *)
LEMMA WrittenGlued ==
  ASSUME TypeOK, cut, NEW s \in SignalType, NEW part \in Parts, log' = Written(s, part)
  PROVE  /\ Grown(s)
         /\ log'[Len(log')].readable = FALSE
         /\ Cardinality(Torn') = Cardinality(Torn) + (IF log[Len(log)].readable THEN 2 ELSE 1)
<1> DEFINE e == Unreadable(Partial(LineOf(s), part))
           n == Len(log)
           torn == Unreadable(log[n])
           L == [log EXCEPT ![n] = torn]
<1>1. log' = Append(L, e) /\ log \in Seq(Lines) /\ n \in Nat \ {0}
  BY DEF Written, TypeOK
<1>2. e \in Lines /\ SameMove(e, s) /\ e.readable = FALSE
  BY LineType
<1>3. log[n] \in Lines
  BY <1>1
<1>4. torn \in Lines /\ SameMove(torn, log[n]) /\ torn.readable = FALSE
  BY <1>3, TornType
<1>5. /\ L \in Seq(Lines) /\ Len(L) = n
      /\ \A i \in 1..n : L[i] = IF i = n THEN torn ELSE log[i]
  <2>1. log \in Seq(Lines) /\ n \in 1..Len(log) /\ n = Len(log)
    BY <1>1
  <2> HIDE DEF torn, n
  <2> QED BY <1>4, <2>1
<1> HIDE DEF e, L, torn
<1>6. /\ log' \in Seq(Lines) /\ Len(log') = n + 1
      /\ log'[n + 1] = e /\ \A i \in 1..n : log'[i] = L[i]
  BY <1>1, <1>2, <1>5, Appended
<1>7. \A i \in 1..n : SameMove(log'[i], log[i]) /\ (log'[i].readable => log[i].readable)
  BY <1>4, <1>5, <1>6 DEF SameMove
<1>8. Grown(s)
  BY <1>2, <1>6, <1>7 DEF Grown
<1>9. Torn' = (Torn \cup {n}) \cup {n + 1}
  <2>1. \A i \in 1..n : log'[i].readable <=> (i # n /\ log[i].readable)
    BY <1>4, <1>5, <1>6
  <2>2. ~log'[n + 1].readable
    BY <1>2, <1>6
  <2> QED BY <1>1, <1>6, <2>1, <2>2 DEF Torn
<1>10. n + 1 \notin Torn \cup {n} /\ (n \in Torn <=> ~log[n].readable)
  BY <1>1 DEF Torn
<1>11. /\ IsFiniteSet(Torn \cup {n})
       /\ Cardinality(Torn \cup {n}) = Cardinality(Torn) + (IF log[n].readable THEN 1 ELSE 0)
       /\ Cardinality(Torn) \in Nat
  <2>1. IsFiniteSet(Torn) /\ Cardinality(Torn) \in Nat
    BY TornIsFinite
  <2>2. CASE n \in Torn
    <3>1. Torn \cup {n} = Torn
      BY <2>2
    <3>2. ~log[n].readable
      BY <1>10, <2>2
    <3>3. IsFiniteSet(Torn \cup {n}) /\ Cardinality(Torn \cup {n}) = Cardinality(Torn)
      BY <2>1, <3>1, Zenon
    <3> QED BY <2>1, <3>2, <3>3
  <2>3. CASE n \notin Torn
    BY <1>10, <2>1, <2>3, FS_AddElement
  <2> QED BY <2>2, <2>3
<1>12. Cardinality(Torn') = Cardinality(Torn \cup {n}) + 1
  BY <1>9, <1>10, <1>11, FS_AddElement
<1> QED BY <1>2, <1>6, <1>8, <1>11, <1>12

(* Bytes that reach the log tear what was at stake; what they put at stake *)
(* themselves, by lacking a newline, is two lines at most.                 *)
LEMMA WrittenTears ==
  ASSUME TypeOK, NEW s \in SignalType, NEW part \in Parts, NEW c \in BOOLEAN,
         log' = Written(s, part), cut' = c, ~c => part = "all"
  PROVE  /\ Grown(s)
         /\ Cardinality(Torn') + AtStake' <= Cardinality(Torn) + AtStake + (IF c THEN 2 ELSE 0)
<1>1. Cardinality(Torn) \in Nat /\ cut \in BOOLEAN
  BY TornIsFinite DEF TypeOK
<1>2. CASE cut
  <2>1. /\ Grown(s) /\ log'[Len(log')].readable = FALSE
        /\ Cardinality(Torn') = Cardinality(Torn) + (IF log[Len(log)].readable THEN 2 ELSE 1)
    BY <1>2, WrittenGlued
  <2>2. AtStake' = IF c THEN 1 ELSE 0
    BY <2>1 DEF AtStake
  <2>3. AtStake = IF log[Len(log)].readable THEN 2 ELSE 1
    BY <1>2 DEF AtStake
  <2> QED BY <1>1, <2>1, <2>2, <2>3
<1>3. CASE ~cut
  <2>1. /\ Grown(s) /\ log'[Len(log')].readable = (part = "all")
        /\ Cardinality(Torn') = Cardinality(Torn) + (IF part = "all" THEN 0 ELSE 1)
    BY <1>3, WrittenAlone
  <2>2. AtStake' = IF c THEN (IF part = "all" THEN 2 ELSE 1) ELSE 0
    BY <2>1 DEF AtStake
  <2>3. AtStake = 0
    BY <1>3 DEF AtStake
  <2> QED BY <1>1, <2>1, <2>2, <2>3
<1> QED BY <1>1, <1>2, <1>3

(* An append keeps the torn lines within what the faults account for. *)
LEMMA AppendTears ==
  ASSUME TypeOK, TornInv, NEW s \in SignalType,
         \/ AppendSignal(s) /\ faults' = faults
         \/ AppendFails(s) /\ faults' = faults + 1
  PROVE  (Grown(s) \/ (AppendFails(s) /\ UNCHANGED <<log, cut>>)) /\ TornInv'
<1>0. /\ faults \in Nat /\ Cardinality(Torn) \in Nat
      /\ AtStake \in Nat /\ AtStake' \in Nat
  BY TornIsFinite DEF TypeOK, AtStake
<1>1. CASE AppendFails(s) /\ faults' = faults + 1 /\ UNCHANGED <<log, cut>>
  <2>1. Torn' = Torn /\ AtStake' = AtStake
    BY <1>1 DEF Torn, AtStake
  <2> QED BY <1>0, <1>1, <2>1 DEF TornInv
<1>2. ASSUME NEW part \in Parts, NEW c \in BOOLEAN,
             log' = Written(s, part), cut' = c, ~c => part = "all",
             faults' = faults + (IF c THEN 1 ELSE 0)
      PROVE  Grown(s) /\ TornInv'
  <2>1. /\ Grown(s)
        /\ Cardinality(Torn') + AtStake' <= Cardinality(Torn) + AtStake + (IF c THEN 2 ELSE 0)
    BY <1>2, WrittenTears
  <2>2. Cardinality(Torn) + AtStake <= 2 * faults
    BY DEF TornInv
  <2>3. IsFiniteSet(Torn')
    <3>1. IsFiniteSet(1..Len(log'))
      BY <2>1, FS_Interval DEF Grown
    <3> QED BY <3>1, FS_Subset DEF Torn
  <2>4. Cardinality(Torn') \in Nat
    BY <2>3, FS_CardinalityType
  <2>5. Cardinality(Torn') + AtStake' <= 2 * faults'
    BY <1>0, <1>2, <2>1, <2>2, <2>4
  <2> QED BY <2>1, <2>5 DEF TornInv
<1>3. CASE AppendSignal(s) /\ faults' = faults
  <2>1. log' = Written(s, "all") /\ cut' = FALSE /\ faults' = faults + 0 /\ "all" \in Parts
    BY <1>0, <1>3 DEF AppendSignal, Parts
  <2> QED BY <1>2, <2>1
<1>4. CASE AppendFails(s) /\ faults' = faults + 1 /\ ~UNCHANGED <<log, cut>>
  <2>1. PICK part \in Parts : log' = Written(s, part) /\ cut' = TRUE
    BY <1>4 DEF AppendFails
  <2> QED BY <1>2, <1>4, <2>1
<1> QED BY <1>1, <1>3, <1>4
-----------------------------------------------------------------------------
(* Steps that leave the log alone                                          *)

(* What a line of the log is made of. *)
LEMMA LineFields ==
  ASSUME TypeOK, NEW i \in 1..Len(log)
  PROVE  /\ log[i].key[1] \in Selections /\ log[i].key \in Selections \X Nat
         /\ log[i].id \in Nat /\ log[i].from \in Nat /\ log[i].to \in Nat
<1>1. log[i] \in Lines
  BY DEF TypeOK
<1>2. log[i].key \in Selections \X Nat
  BY <1>1 DEF Lines
<1>3. \A k \in Selections \X Nat : k[1] \in Selections
  OBVIOUS
<1> QED BY <1>1, <1>2, <1>3 DEF Lines

(* What is said of the log and the faults stays when only prices are       *)
(* added and faults counted.                                               *)
LEMMA QuietLog ==
  ASSUME DInv, UNCHANGED <<log, cut>>, faults' \in {faults, faults + 1},
         \A t \in Selections : Len(shown'[t]) \in Nat /\ Len(shown[t]) <= Len(shown'[t])
  PROVE  LinesInv' /\ OnceInv' /\ OverlapInv' /\ TornInv'
<1>1. \A i \in 1..Len(log) : log[i] \in Lines
  BY DEF DInv, TypeOK
<1>2. LinesInv'
  <2>1. ASSUME NEW i \in 1..Len(log) PROVE log[i].to <= Len(shown'[log[i].key[1]])
    <3>1. log[i].key[1] \in Selections /\ log[i].to \in Nat
      BY <1>1 DEF Lines
    <3>2. log[i].to <= Len(shown[log[i].key[1]])
      BY DEF DInv, LinesInv
    <3>3. Len(shown[log[i].key[1]]) \in Nat
      BY <3>1 DEF DInv, TypeOK
    <3> QED BY <3>1, <3>2, <3>3
  <2> QED BY <2>1 DEF DInv, LinesInv
<1>3. OnceInv' /\ OverlapInv'
  BY DEF DInv, OnceInv, OverlapInv
<1>4. TornInv'
  <2>1. Torn' = Torn /\ AtStake' = AtStake
    BY DEF Torn, AtStake
  <2>2. Cardinality(Torn) \in Nat /\ AtStake \in Nat /\ faults \in Nat
    BY TornIsFinite DEF DInv, TypeOK, AtStake
  <2> QED BY <2>1, <2>2 DEF DInv, TornInv
<1> QED BY <1>2, <1>3, <1>4

(* The selection in hand, and what working it off leaves. *)
LEMMA InHand ==
  ASSUME DInv, NEW n \in rows.left
  PROVE  /\ dpc = "odds" /\ n \in Names
         /\ Current(n) \in Selections
         /\ rows.at[n] \in 1..Len(shown[Current(n)]) /\ rows.at[n] \in Nat \ {0}
         /\ Len(shown[Current(n)]) \in Nat /\ rows.at[n] <= Len(shown[Current(n)])
         /\ prev[Current(n)] \in Nat /\ prev[Current(n)] <= rows.at[n]
         /\ \A i \in 1..Len(log) : log[i].key[1] = Current(n) => log[i].to <= rows.at[n]
         /\ \A k \in rows.left : k # n => Current(k) # Current(n)
         /\ WorkedOff(n) \in Snapshots /\ WorkedOff(n).asked = <<>>
         /\ WorkedOff(n).of = rows.of /\ WorkedOff(n).at = rows.at
         /\ WorkedOff(n).left = rows.left \ {n}
<1>1. rows \in Snapshots /\ dpc = "odds"
  BY DEF DInv, TypeOK, Idle
<1>2. n \in Names
  BY <1>1 DEF Snapshots
<1>3. /\ Current(n) \in Selections
      /\ rows.at[n] \in 1..Len(shown[Current(n)])
      /\ prev[Current(n)] <= rows.at[n]
      /\ \A i \in 1..Len(log) : log[i].key[1] = Current(n) => log[i].to <= rows.at[n]
  BY DEF DInv, RowsInv
<1>4. prev[Current(n)] \in Nat /\ Len(shown[Current(n)]) \in Nat
  BY <1>3 DEF DInv, TypeOK
<1>5. \A k \in rows.left : k # n => Current(k) # Current(n)
  BY DEF Current
<1>6. /\ WorkedOff(n) \in Snapshots /\ WorkedOff(n).asked = <<>>
      /\ WorkedOff(n).of = rows.of /\ WorkedOff(n).at = rows.at
      /\ WorkedOff(n).left = rows.left \ {n}
  BY <1>1 DEF Snapshots, WorkedOff
<1> QED BY <1>1, <1>2, <1>3, <1>4, <1>5, <1>6

(* A selection that is passed over or dismissed is remembered at its       *)
(* present price, or was there already.                                    *)
LEMMA MovesOn ==
  ASSUME DInv, NEW n \in rows.left,
         prev' = prev \/ prev' = [prev EXCEPT ![Current(n)] = rows.at[n]],
         rows' = WorkedOff(n),
         UNCHANGED <<shown, bucket, dpc, todo, unchecked, seen, open, blind, log, cut, faults>>
  PROVE  DInv'
<1>1. /\ dpc = "odds" /\ n \in Names
      /\ Current(n) \in Selections
      /\ rows.at[n] \in 1..Len(shown[Current(n)])
      /\ prev[Current(n)] \in Nat /\ prev[Current(n)] <= rows.at[n]
      /\ \A i \in 1..Len(log) : log[i].key[1] = Current(n) => log[i].to <= rows.at[n]
      /\ \A k \in rows.left : k # n => Current(k) # Current(n)
      /\ rows' \in Snapshots /\ rows'.of = rows.of /\ rows'.at = rows.at
      /\ rows'.left = rows.left \ {n} /\ rows'.asked = <<>>
  BY InHand
<1>2. /\ prev \in [Selections -> Nat]
      /\ \A t \in Selections : prev[t] <= Len(shown[t]) /\ Len(shown[t]) \in Nat
  BY DEF DInv, TypeOK
<1>3. /\ prev' \in [Selections -> Nat]
      /\ \A t \in Selections :
           prev'[t] = prev[t] \/ (t = Current(n) /\ prev'[t] = rows.at[n])
  BY <1>1, <1>2
<1>4. LinesInv' /\ OnceInv' /\ OverlapInv' /\ TornInv'
  BY <1>2, QuietLog
<1>5. TypeOK'
  <2>1. \A t \in Selections : prev'[t] <= Len(shown[t])
    BY <1>1, <1>2, <1>3
  <2> QED BY <1>1, <1>3, <2>1 DEF DInv, TypeOK
<1>6. OpenInv'
  BY DEF DInv, OpenInv
<1>7. MemoryInv'
  <2>1. ASSUME NEW i \in 1..Len(log)
        PROVE  /\ log[i].readable => log[i].key \in seen \/ blind
               /\ prev'[log[i].key[1]] = 0 \/ log[i].to <= prev'[log[i].key[1]]
    <3>1. log[i].key[1] \in Selections
      BY LineFields DEF DInv
    <3>2. /\ log[i].readable => log[i].key \in seen \/ blind
          /\ prev[log[i].key[1]] = 0 \/ log[i].to <= prev[log[i].key[1]]
      BY <1>1 DEF DInv, MemoryInv
    <3> QED BY <1>1, <1>3, <3>1, <3>2
  <2> QED BY <2>1 DEF MemoryInv
<1>8. RowsInv'
  <2>1. ASSUME NEW k \in rows'.left PROVE Current(k)' = Current(k) /\ k \in rows.left
               /\ Current(k) # Current(n)
    BY <1>1, <2>1 DEF Current
  <2>2. \A k \in rows'.left : prev'[Current(k)] = prev[Current(k)]
    BY <1>3, <2>1 DEF DInv, RowsInv
  <2> QED BY <1>1, <2>1, <2>2 DEF DInv, RowsInv
<1>9. AskedInv'
  BY <1>1 DEF AskedInv
<1> QED BY <1>4, <1>5, <1>6, <1>7, <1>8, <1>9 DEF DInv
-----------------------------------------------------------------------------
(* A new signal                                                            *)

(* A signal is raised about a move since what was remembered, under a key  *)
(* that is not remembered.                                                 *)
LEMMA Raised ==
  ASSUME DInv, NEW n \in rows.left, Asked(n), NEW m, Sharp(m)
  PROVE  LET s == Current(n)  sig == Signal(n, m) IN
         /\ sig \in SignalType
         /\ sig.id = Len(log) + 1 /\ sig.key \notin seen /\ sig.key = AskedKey(n) /\ sig.key[1] = s
         /\ sig.from = prev[s] /\ sig.to = rows.at[n] /\ sig.blind = blind
         /\ prev[s] # 0
<1> DEFINE s == Current(n)
           sig == Signal(n, m)
<1>1. /\ s \in Selections /\ rows.at[n] \in Nat \ {0} /\ prev[s] \in Nat
      /\ prev[s] # 0 /\ AskedKey(n) \notin seen
  BY InHand DEF Asked, DInv, AskedInv
<1>2. Len(log) \in Nat /\ blind \in BOOLEAN /\ rows.asked[2] \in Nat
  <2>1. rows \in Snapshots
    BY DEF Asked, DInv, TypeOK, Idle
  <2>2. rows.asked \in Names \X Nat
    BY <2>1 DEF Snapshots, Asked
  <2> QED BY <2>2 DEF DInv, TypeOK
<1>4. m.direction \in {"shortening", "drifting"}
  BY DEF Sharp
<1>3. AskedKey(n) \in Selections \X Nat /\ AskedKey(n)[1] = s
  <2> HIDE DEF s
  <2>1. AskedKey(n) = <<s, rows.asked[2]>>
    BY DEF AskedKey, s
  <2> QED BY <1>1, <1>2, <2>1
<1>6. sig = [ id |-> Len(log) + 1, key |-> AskedKey(n), from |-> prev[s], to |-> rows.at[n],
              blind |-> blind, direction |-> m.direction, correct |-> FALSE ]
  BY DEF Signal
<1> HIDE DEF s, sig
<1>5. sig \in SignalType
  BY <1>1, <1>2, <1>3, <1>4, <1>6 DEF SignalType
<1>7. /\ sig.id = Len(log) + 1 /\ sig.key = AskedKey(n) /\ sig.blind = blind
      /\ sig.from = prev[s] /\ sig.to = rows.at[n]
  BY <1>6
<1> QED BY <1>1, <1>3, <1>5, <1>7 DEF s, sig

(* The line of a new signal is the last word on its selection so far.      *)
LEMMA NewLine ==
  ASSUME DInv, NEW n \in rows.left, Asked(n), NEW m, Sharp(m),
         Grown(Signal(n, m)), shown' = shown
  PROVE  /\ LinesInv' /\ OnceInv' /\ OverlapInv'
         /\ \A i \in 1..Len(log') :
              \/ i \in 1..Len(log) /\ SameMove(log'[i], log[i])
                 /\ (log'[i].readable => log[i].readable)
              \/ i = Len(log) + 1 /\ log'[i].id = i /\ log'[i].key = AskedKey(n)
                 /\ log'[i].key[1] = Current(n) /\ log'[i].to = rows.at[n]
<1> DEFINE s == Current(n)
           sig == Signal(n, m)
           N == Len(log)
<1>1. /\ sig.id = N + 1 /\ sig.key \notin seen /\ sig.key = AskedKey(n) /\ sig.key[1] = s
      /\ sig.from = prev[s] /\ sig.to = rows.at[n] /\ prev[s] # 0 /\ sig.blind = blind
  BY Raised
<1>2. /\ dpc # "stopped" /\ rows.at[n] \in Nat /\ rows.at[n] <= Len(shown[s])
      /\ N \in Nat
  <2>1. N \in Nat
    BY DEF DInv, TypeOK
  <2>2. /\ dpc = "odds" /\ rows.at[n] \in Nat /\ rows.at[n] <= Len(shown[s])
    BY InHand
  <2> QED BY <2>1, <2>2
<1>3. /\ Len(log') = N + 1
      /\ \A i \in 1..N : SameMove(log'[i], log[i]) /\ (log'[i].readable => log[i].readable)
      /\ SameMove(log'[N + 1], sig)
  BY DEF Grown
<1>4. \A i \in 1..N :
        /\ log[i].id \in Nat /\ log[i].id <= N
        /\ log[i].to <= Len(shown[log[i].key[1]])
        /\ log[i].readable => log[i].key \in seen \/ blind
        /\ prev[log[i].key[1]] = 0 \/ log[i].to <= prev[log[i].key[1]]
  <2>1. \A i \in 1..N : log[i].id \in Nat
    BY LineFields DEF DInv
  <2>2. \A i \in 1..N : log[i].id <= N /\ log[i].to <= Len(shown[log[i].key[1]])
    BY DEF DInv, LinesInv
  <2>3. \A i \in 1..N :
          /\ log[i].readable => log[i].key \in seen \/ blind
          /\ prev[log[i].key[1]] = 0 \/ log[i].to <= prev[log[i].key[1]]
    BY <1>2 DEF DInv, MemoryInv
  <2> QED BY <2>1, <2>2, <2>3
<1> HIDE DEF s, sig, N
<1>5. \A i \in 1..(N + 1) : i \in 1..N \/ i = N + 1
  BY <1>2
<1>6. \A i \in 1..N :
        /\ log'[i].id = log[i].id /\ log'[i].key = log[i].key
        /\ log'[i].from = log[i].from /\ log'[i].to = log[i].to
        /\ log'[i].blind = log[i].blind
        /\ (log'[i].readable => log[i].readable)
        /\ log'[i].id <= N /\ log'[i].id # N + 1 /\ ~(N + 1 < log'[i].id)
  BY <1>2, <1>3, <1>4 DEF SameMove
<1>7. /\ log'[N + 1].id = N + 1 /\ log'[N + 1].key = AskedKey(n) /\ log'[N + 1].key \notin seen
      /\ log'[N + 1].key[1] = s
      /\ log'[N + 1].from = prev[s] /\ log'[N + 1].to = rows.at[n]
      /\ log'[N + 1].blind = blind
  BY <1>1, <1>3 DEF SameMove
<1>8. LinesInv'
  <2>1. ASSUME NEW i \in 1..(N + 1)
        PROVE  log'[i].id <= N + 1 /\ log'[i].to <= Len(shown[log'[i].key[1]])
    BY <1>2, <1>4, <1>5, <1>6, <1>7
  <2>2. ASSUME NEW i \in 1..(N + 1), NEW j \in 1..(N + 1), log'[i].id = log'[j].id
        PROVE  SameMove(log'[i], log'[j])
    <3>1. CASE i \in 1..N /\ j \in 1..N
      BY <1>6, <2>2, <3>1 DEF DInv, LinesInv, SameMove, N
    <3>2. CASE i = N + 1 /\ j = N + 1
      BY <3>2 DEF SameMove
    <3> QED BY <1>5, <1>6, <1>7, <2>2, <3>1, <3>2
  <2> QED BY <1>3, <2>1, <2>2 DEF LinesInv
<1>9. OnceInv'
  <2>1. ASSUME NEW i \in 1..(N + 1), NEW j \in 1..(N + 1),
               log'[i].id < log'[j].id, log'[i].key = log'[j].key
        PROVE  ~log'[i].readable \/ log'[j].blind
    <3>1. i \in 1..N
      BY <1>2, <1>5, <1>6, <1>7, <2>1
    <3>2. CASE j \in 1..N
      BY <1>6, <2>1, <3>1, <3>2 DEF DInv, OnceInv, N
    <3>3. CASE j = N + 1
      BY <1>4, <1>6, <1>7, <2>1, <3>1, <3>3
    <3> QED BY <1>5, <3>2, <3>3
  <2> QED BY <1>3, <2>1 DEF OnceInv
<1>10. OverlapInv'
  <2>1. ASSUME NEW i \in 1..(N + 1), NEW j \in 1..(N + 1),
               log'[i].id < log'[j].id, log'[i].key[1] = log'[j].key[1]
        PROVE  log'[i].to <= log'[j].from
    <3>1. i \in 1..N
      BY <1>2, <1>5, <1>6, <1>7, <2>1
    <3>2. CASE j \in 1..N
      BY <1>6, <2>1, <3>1, <3>2 DEF DInv, OverlapInv, N
    <3>3. CASE j = N + 1
      BY <1>1, <1>4, <1>6, <1>7, <2>1, <3>1, <3>3
    <3> QED BY <1>5, <3>2, <3>3
  <2> QED BY <1>3, <2>1 DEF OverlapInv
<1> QED BY <1>3, <1>5, <1>7, <1>8, <1>9, <1>10 DEF s, sig, N

(* No key in memory is written again, so what was said of the signals in   *)
(* memory holds of the longer log.                                         *)
LEMMA OpenStays ==
  ASSUME DInv, NEW n \in rows.left, Asked(n), NEW m, Sharp(m),
         Grown(Signal(n, m)), shown' = shown, NEW t \in open
  PROVE  /\ t.key \in seen
         /\ \E i \in 1..Len(log') : SameMove(log'[i], t)
         /\ \A j \in 1..Len(log') : log'[j].id > t.id => log'[j].key # t.key
<1>1. \A i \in 1..Len(log') :
        \/ i \in 1..Len(log) /\ SameMove(log'[i], log[i])
        \/ log'[i].key = AskedKey(n)
  BY NewLine
<1>2. AskedKey(n) \notin seen
  BY DEF Asked, DInv, AskedInv
<1>3. /\ t.key \in seen
      /\ \E i \in 1..Len(log) : SameMove(log[i], t)
      /\ \A j \in 1..Len(log) : log[j].id > t.id => log[j].key # t.key
  BY DEF DInv, OpenInv
<1>4. \E i \in 1..Len(log') : SameMove(log'[i], t)
  <2>1. PICK i \in 1..Len(log) : SameMove(log[i], t)
    BY <1>3
  <2>2. Len(log) \in Nat /\ Len(log') = Len(log) + 1 /\ SameMove(log'[i], log[i])
    BY DEF DInv, TypeOK, Grown
  <2> QED BY <2>1, <2>2 DEF SameMove
<1>5. ASSUME NEW j \in 1..Len(log'), log'[j].id > t.id PROVE log'[j].key # t.key
  BY <1>1, <1>2, <1>3, <1>5 DEF SameMove
<1> QED BY <1>3, <1>4, <1>5
(* The log of a step that appends a line about sig is well typed. *)
LEMMA GrownType ==
  ASSUME TypeOK, NEW sig \in SignalType, Grown(sig)
  PROVE  log' \in Seq(Lines) /\ log' # <<>>
<1>1. log' \in Seq(Lines) /\ Len(log') = Len(log) + 1 /\ Len(log) \in Nat
  BY DEF TypeOK, Grown
<1> QED BY <1>1

(* A signal is logged and remembered. *)
LEMMA LogSignalStep ==
  ASSUME DInv, NEW n \in rows.left, NEW script \in Scripts, LogSignal(n, script)
  PROVE  DInv'
<1>1. PICK m \in AssessMovement(script) :
        Sharp(m) /\ AppendSignal(Signal(n, m)) /\ open' = open \cup {Signal(n, m)}
  BY DEF LogSignal
<1> DEFINE s == Current(n)
           sig == Signal(n, m)
<1>2. /\ Asked(n) /\ Sharp(m) /\ AppendSignal(sig)
      /\ prev' = [prev EXCEPT ![s] = rows.at[n]] /\ seen' = seen \cup {AskedKey(n)}
      /\ open' = open \cup {sig} /\ rows' = WorkedOff(n)
      /\ UNCHANGED <<shown, bucket, dpc, todo, unchecked, blind, faults>>
  BY <1>1 DEF LogSignal, RememberSignal
<1>3. /\ sig \in SignalType /\ sig.id = Len(log) + 1 /\ sig.key = AskedKey(n)
      /\ sig.to = rows.at[n]
  BY <1>2, Raised
<1>4. Grown(sig) /\ TornInv' /\ cut' = FALSE
  <2>1. Grown(sig) \/ UNCHANGED <<log, cut>>
    BY <1>2, <1>3, AppendTears DEF DInv
  <2>2. TornInv' /\ cut' = FALSE
    BY <1>2, <1>3, AppendTears DEF DInv, AppendSignal
  <2>3. log' = Written(sig, "all") /\ "all" \in Parts
    BY <1>2 DEF AppendSignal, Parts
  <2>4. Grown(sig)
    BY <1>3, <2>3, WrittenAlone, WrittenGlued DEF DInv
  <2> QED BY <2>2, <2>4
<1>5. /\ LinesInv' /\ OnceInv' /\ OverlapInv'
      /\ \A i \in 1..Len(log') :
           \/ i \in 1..Len(log) /\ SameMove(log'[i], log[i])
              /\ (log'[i].readable => log[i].readable)
           \/ i = Len(log) + 1 /\ log'[i].id = i /\ log'[i].key = AskedKey(n)
              /\ log'[i].key[1] = s /\ log'[i].to = rows.at[n]
  BY <1>2, <1>4, NewLine
<1>6. /\ dpc = "odds" /\ s \in Selections /\ rows.at[n] \in Nat \ {0}
      /\ Len(shown[s]) \in Nat /\ rows.at[n] <= Len(shown[s])
      /\ \A i \in 1..Len(log) : log[i].key[1] = s => log[i].to <= rows.at[n]
      /\ \A k \in rows.left : k # n => Current(k) # s
      /\ rows' \in Snapshots /\ rows'.of = rows.of /\ rows'.at = rows.at
      /\ rows'.left = rows.left \ {n} /\ rows'.asked = <<>>
  BY <1>2, InHand
<1>7. log' \in Seq(Lines) /\ Len(log') = Len(log) + 1 /\ Len(log) \in Nat
  BY <1>4 DEF Grown, DInv, TypeOK
<1> HIDE DEF s, sig
<1>8. /\ prev' \in [Selections -> Nat] /\ prev'[s] = rows.at[n]
      /\ \A t \in Selections : t # s => prev'[t] = prev[t]
  BY <1>2, <1>6 DEF DInv, TypeOK
<1>9. TypeOK'
  <2>1. \A t \in Selections : prev'[t] <= Len(shown[t])
    BY <1>6, <1>8 DEF DInv, TypeOK
  <2>2. seen' \subseteq Selections \X Nat /\ open' \subseteq SignalType
    <3>1. sig.key \in Selections \X Nat
      BY <1>3 DEF SignalType
    <3> QED BY <1>2, <1>3, <3>1 DEF DInv, TypeOK
  <2> QED BY <1>2, <1>4, <1>6, <1>7, <1>8, <2>1, <2>2 DEF DInv, TypeOK
<1>10. OpenInv'
  <2>1. ASSUME NEW t \in open
        PROVE  /\ t.key \in seen'
               /\ \E i \in 1..Len(log') : SameMove(log'[i], t)
               /\ \A j \in 1..Len(log') : log'[j].id > t.id => log'[j].key # t.key
    BY <1>2, <1>4, OpenStays DEF s, sig
  <2>2. /\ sig.key \in seen'
        /\ \E i \in 1..Len(log') : SameMove(log'[i], sig)
        /\ \A j \in 1..Len(log') : log'[j].id > sig.id => log'[j].key # sig.key
    <3>1. sig.key \in seen'
      BY <1>2, <1>3
    <3>2. SameMove(log'[Len(log) + 1], sig) /\ Len(log) + 1 \in 1..Len(log')
      BY <1>4, <1>7 DEF Grown
    <3>3. ASSUME NEW j \in 1..Len(log') PROVE ~(log'[j].id > sig.id)
      <4>1. log'[j].id <= Len(log')
        BY <1>5 DEF LinesInv
      <4>2. log'[j] \in Lines
        BY <1>7
      <4>3. log'[j].id \in Nat
        BY <4>2 DEF Lines
      <4> QED BY <1>3, <1>7, <4>1, <4>3
    <3> QED BY <3>1, <3>2, <3>3
  <2> QED BY <1>2, <2>1, <2>2 DEF OpenInv
<1>11. MemoryInv'
  <2>1. ASSUME NEW i \in 1..Len(log'), i \in 1..Len(log), SameMove(log'[i], log[i]),
               log'[i].readable => log[i].readable
        PROVE  /\ log'[i].readable => log'[i].key \in seen' \/ blind'
               /\ prev'[log'[i].key[1]] = 0 \/ log'[i].to <= prev'[log'[i].key[1]]
    <3>1. log[i].key[1] \in Selections
      BY <2>1, LineFields DEF DInv
    <3>2. /\ log[i].readable => log[i].key \in seen \/ blind
          /\ prev[log[i].key[1]] = 0 \/ log[i].to <= prev[log[i].key[1]]
      BY <1>6, <2>1 DEF DInv, MemoryInv
    <3>3. log'[i].key = log[i].key /\ log'[i].to = log[i].to
      BY <2>1 DEF SameMove
    <3>4. prev'[log[i].key[1]] = 0 \/ log[i].to <= prev'[log[i].key[1]]
      BY <1>6, <1>8, <2>1, <3>1, <3>2
    <3> QED BY <1>2, <2>1, <3>2, <3>3, <3>4
  <2>2. ASSUME NEW i \in 1..Len(log'), log'[i].key = AskedKey(n),
               log'[i].key[1] = s, log'[i].to = rows.at[n]
        PROVE  /\ log'[i].readable => log'[i].key \in seen' \/ blind'
               /\ prev'[log'[i].key[1]] = 0 \/ log'[i].to <= prev'[log'[i].key[1]]
    BY <1>2, <1>6, <1>8, <2>2
  <2> QED BY <1>5, <2>1, <2>2 DEF MemoryInv
<1>12. RowsInv'
  <2>1. ASSUME NEW k \in rows'.left
        PROVE  /\ Current(k)' = Current(k) /\ k \in rows.left /\ Current(k) # s
               /\ Current(k) \in Selections
               /\ rows.at[k] \in 1..Len(shown[Current(k)])
               /\ prev[Current(k)] <= rows.at[k]
               /\ \A i \in 1..Len(log) : log[i].key[1] = Current(k) => log[i].to <= rows.at[k]
    <3>1. k \in rows.left /\ Current(k)' = Current(k) /\ Current(k) # s
      BY <1>6, <2>1 DEF Current
    <3> QED BY <3>1 DEF DInv, RowsInv
  <2>2. ASSUME NEW k \in rows'.left
        PROVE  \A i \in 1..Len(log') : log'[i].key[1] = Current(k) => log'[i].to <= rows.at[k]
    BY <1>5, <2>1, <2>2 DEF SameMove
  <2>3. \A k \in rows'.left : prev'[Current(k)] = prev[Current(k)]
    BY <1>8, <2>1
  <2> QED BY <1>2, <1>6, <2>1, <2>2, <2>3 DEF RowsInv
<1>13. AskedInv'
  BY <1>6 DEF AskedInv
<1> QED BY <1>4, <1>5, <1>9, <1>10, <1>11, <1>12, <1>13 DEF DInv
(* A stopped process has only its log. *)
LEMMA Stopping ==
  ASSUME DInv, Stop, UNCHANGED <<shown, bucket, memory, log, cut>>,
         faults' \in 0..MaxFaults, faults' \in {faults, faults + 1}
  PROVE  DInv'
<1>1. LinesInv' /\ OnceInv' /\ OverlapInv' /\ TornInv'
  BY QuietLog DEF DInv, TypeOK
<1>2. dpc' = "stopped" /\ todo' = {} /\ rows' = Idle /\ Idle.left = {} /\ Idle.asked = <<>>
  BY DEF Stop, Idle
<1>3. TypeOK'
  BY <1>2 DEF DInv, TypeOK, memory
<1>4. OpenInv' /\ MemoryInv' /\ RowsInv' /\ AskedInv'
  BY <1>2 DEF DInv, OpenInv, MemoryInv, RowsInv, AskedInv, memory
<1> QED BY <1>1, <1>3, <1>4 DEF DInv

(* A signal that could not be logged, or was in part, is not remembered;   *)
(* the process that raised it is gone.                                     *)
LEMMA LogFailsStep ==
  ASSUME DInv, NEW n \in rows.left, NEW script \in Scripts, LogFails(n, script)
  PROVE  DInv'
<1>1. /\ Asked(n) /\ faults < MaxFaults /\ faults' = faults + 1 /\ Stop
      /\ UNCHANGED <<shown, bucket, memory>>
  BY DEF LogFails, Fails
<1>2. PICK m \in AssessMovement(script) :
        Sharp(m) /\ AppendFails(Signal(n, m))
  BY DEF LogFails
<1> DEFINE sig == Signal(n, m)
<1>3. sig \in SignalType
  BY <1>1, <1>2, Raised
<1>4. faults' \in 0..MaxFaults
  BY <1>1, DetectorAssumption DEF DInv, TypeOK
<1>5. (Grown(sig) \/ (AppendFails(sig) /\ UNCHANGED <<log, cut>>)) /\ TornInv'
  <2> HIDE DEF sig
  <2>1. AppendFails(sig)
    BY <1>2 DEF sig
  <2> QED BY <1>1, <1>3, <2>1, AppendTears DEF DInv
<1>6. CASE UNCHANGED <<log, cut>>
  BY <1>1, <1>4, <1>6, Stopping
<1>7. CASE Grown(sig) /\ ~UNCHANGED <<log, cut>>
  <2>1. LinesInv' /\ OnceInv' /\ OverlapInv'
    BY <1>1, <1>2, <1>7, NewLine
  <2>2. cut' = TRUE /\ log' \in Seq(Lines) /\ log' # <<>>
    <3> HIDE DEF sig
    <3>1. AppendFails(sig)
      BY <1>2 DEF sig
    <3>2. cut' = TRUE
      BY <1>7, <3>1 DEF AppendFails
    <3> QED BY <1>3, <1>7, <3>2, GrownType DEF DInv
  <2>3. dpc' = "stopped" /\ todo' = {} /\ rows' = Idle /\ Idle.left = {} /\ Idle.asked = <<>>
    BY <1>1 DEF Stop, Idle
  <2>4. TypeOK'
    BY <1>1, <1>4, <2>2, <2>3 DEF DInv, TypeOK, memory
  <2>5. OpenInv'
    <3>1. \A t \in open :
            /\ t.key \in seen
            /\ \E i \in 1..Len(log') : SameMove(log'[i], t)
            /\ \A j \in 1..Len(log') : log'[j].id > t.id => log'[j].key # t.key
      BY <1>1, <1>2, <1>7, OpenStays
    <3>2. open' = open /\ seen' = seen
      BY <1>1 DEF memory
    <3> QED BY <3>1, <3>2 DEF OpenInv
  <2>6. MemoryInv' /\ RowsInv' /\ AskedInv'
    BY <2>3 DEF MemoryInv, RowsInv, AskedInv
  <2> QED BY <1>5, <2>1, <2>4, <2>5, <2>6 DEF DInv
<1> QED BY <1>5, <1>6, <1>7

-----------------------------------------------------------------------------
(* A verdict that flips                                                    *)

(* What is appended is another version of a line that is there, so the     *)
(* moves the log speaks of stay the same.                                  *)
LEMMA NewVersion ==
  ASSUME DInv, NEW s \in open, NEW t \in SignalType, SameMove(t, s),
         Grown(t), shown' = shown
  PROVE  /\ LinesInv' /\ OnceInv' /\ OverlapInv'
         /\ \A i \in 1..Len(log') : \E k \in 1..Len(log) :
              SameMove(log'[i], log[k]) /\ (i \in 1..Len(log) => k = i)
         /\ \A i \in 1..Len(log) : log'[i].readable => log[i].readable
         /\ Len(log') = Len(log) + 1 /\ Len(log) \in Nat
         /\ \A i \in 1..Len(log) : i \in 1..Len(log') /\ SameMove(log'[i], log[i])
         /\ log'[Len(log) + 1].key \in seen
<1> DEFINE N == Len(log)
<1>1. /\ Len(log') = N + 1 /\ N \in Nat
      /\ \A i \in 1..N : SameMove(log'[i], log[i]) /\ (log'[i].readable => log[i].readable)
      /\ SameMove(log'[N + 1], t)
  <2>1. N \in Nat
    BY DEF DInv, TypeOK
  <2> QED BY <2>1 DEF Grown
<1>2. PICK p \in 1..N : SameMove(log[p], s)
  BY DEF DInv, OpenInv
<1>3. /\ s.key \in seen
      /\ \A j \in 1..N : log[j].id > s.id => log[j].key # s.key
  BY DEF DInv, OpenInv
<1>4. SameMove(log'[N + 1], log[p]) /\ log'[N + 1].key = s.key /\ log[p].id = s.id
      /\ log[p].key = s.key
  BY <1>1, <1>2 DEF SameMove
<1>5. \A i \in 1..N : log[i].id \in Nat /\ log[i].id <= N
                        /\ log[i].to <= Len(shown[log[i].key[1]])
  <2>1. \A i \in 1..N : log[i].id \in Nat
    BY LineFields DEF DInv
  <2> QED BY <2>1 DEF DInv, LinesInv
<1>6. \A i \in 1..(N + 1) : i \in 1..N \/ i = N + 1
  BY <1>1
<1>7. ASSUME NEW i \in 1..(N + 1)
      PROVE  \E k \in 1..N : SameMove(log'[i], log[k]) /\ (i \in 1..N => k = i)
  <2>1. CASE i \in 1..N
    BY <1>1, <2>1
  <2>2. CASE i = N + 1
    BY <1>1, <1>4, <2>2
  <2> QED BY <1>6, <2>1, <2>2
<1>8. LinesInv'
  <2>1. ASSUME NEW i \in 1..(N + 1)
        PROVE  log'[i].id <= N + 1 /\ log'[i].to <= Len(shown[log'[i].key[1]])
    <3>1. PICK k \in 1..N : SameMove(log'[i], log[k])
      BY <1>7
    <3> QED BY <1>1, <1>5, <3>1 DEF SameMove
  <2>2. ASSUME NEW i \in 1..(N + 1), NEW j \in 1..(N + 1), log'[i].id = log'[j].id
        PROVE  SameMove(log'[i], log'[j])
    <3>1. PICK k \in 1..N : SameMove(log'[i], log[k])
      BY <1>7
    <3>2. PICK l \in 1..N : SameMove(log'[j], log[l])
      BY <1>7
    <3>3. log[k].id = log[l].id
      BY <2>2, <3>1, <3>2 DEF SameMove
    <3>4. SameMove(log[k], log[l])
      BY <3>3 DEF DInv, LinesInv
    <3> QED BY <3>1, <3>2, <3>4 DEF SameMove
  <2> QED BY <1>1, <2>1, <2>2 DEF LinesInv
<1>9. OnceInv'
  <2>1. ASSUME NEW i \in 1..(N + 1), NEW j \in 1..(N + 1),
               log'[i].id < log'[j].id, log'[i].key = log'[j].key
        PROVE  ~log'[i].readable \/ log'[j].blind
    <3>1. PICK k \in 1..N : SameMove(log'[i], log[k]) /\ (i \in 1..N => k = i)
      BY <1>7
    <3>2. PICK l \in 1..N : SameMove(log'[j], log[l])
      BY <1>7
    <3>3. log[k].id < log[l].id /\ log[k].key = log[l].key
      BY <2>1, <3>1, <3>2 DEF SameMove
    <3>4. CASE i \in 1..N
      <4>1. ~log[i].readable \/ log[l].blind
        BY <3>1, <3>3, <3>4 DEF DInv, OnceInv
      <4> QED BY <1>1, <3>2, <3>4, <4>1 DEF SameMove
    <3>5. CASE i = N + 1
      <4>1. log[k].id = s.id /\ log[k].key = s.key
        BY <1>4, <3>1, <3>5 DEF SameMove
      <4>2. log[l].id > s.id /\ log[l].key = s.key
        BY <1>5, <3>3, <4>1
      <4> QED BY <1>3, <4>2
    <3> QED BY <1>6, <3>4, <3>5
  <2> QED BY <1>1, <2>1 DEF OnceInv
<1>10. OverlapInv'
  <2>1. ASSUME NEW i \in 1..(N + 1), NEW j \in 1..(N + 1),
               log'[i].id < log'[j].id, log'[i].key[1] = log'[j].key[1]
        PROVE  log'[i].to <= log'[j].from
    <3>1. PICK k \in 1..N : SameMove(log'[i], log[k])
      BY <1>7
    <3>2. PICK l \in 1..N : SameMove(log'[j], log[l])
      BY <1>7
    <3>3. log[k].id < log[l].id /\ log[k].key[1] = log[l].key[1]
      BY <2>1, <3>1, <3>2 DEF SameMove
    <3>4. log[k].to <= log[l].from
      BY <3>3 DEF DInv, OverlapInv
    <3> QED BY <3>1, <3>2, <3>4 DEF SameMove
  <2> QED BY <1>1, <2>1 DEF OverlapInv
<1> QED BY <1>1, <1>3, <1>4, <1>7, <1>8, <1>9, <1>10
(* The flipped signal is the signal with another verdict. *)
LEMMA FlippedType ==
  ASSUME NEW s \in SignalType
  PROVE  Flipped(s) \in SignalType /\ SameMove(Flipped(s), s)
BY DEF Flipped, SignalType, SameMove

(* A signal of the poll is compared with the price and, if its verdict has *)
(* changed, appended once more.                                            *)
LEMMA TrackStep ==
  ASSUME DInv, NEW s \in open, Track(s)
  PROVE  DInv'
<1>1. /\ dpc = "tracking" /\ rows.left = {}
      /\ UNCHANGED <<shown, bucket, dpc, todo, rows, prev, seen, blind>>
  BY DEF Track, DInv, TypeOK
<1>2. Flipped(s) \in SignalType /\ SameMove(Flipped(s), s)
  BY FlippedType DEF DInv, TypeOK
<1>3. CASE UNCHANGED <<open, log, cut, faults>>
  <2>1. LinesInv' /\ OnceInv' /\ OverlapInv' /\ TornInv'
    BY <1>1, <1>3, QuietLog DEF DInv, TypeOK
  <2>2. TypeOK'
    BY <1>1, <1>3 DEF DInv, TypeOK
  <2>3. OpenInv' /\ MemoryInv' /\ RowsInv' /\ AskedInv'
    BY <1>1, <1>3 DEF DInv, OpenInv, MemoryInv, RowsInv, AskedInv
  <2> QED BY <2>1, <2>2, <2>3 DEF DInv
<1>4. CASE /\ open' = (open \ {s}) \cup {Flipped(s)}
           /\ \/ AppendSignal(Flipped(s)) /\ UNCHANGED faults
              \/ Fails /\ AppendFails(Flipped(s))
  <2>1. /\ \/ AppendSignal(Flipped(s)) /\ faults' = faults
           \/ AppendFails(Flipped(s)) /\ faults' = faults + 1
        /\ faults' \in 0..MaxFaults /\ faults' \in {faults, faults + 1}
    BY <1>4, DetectorAssumption DEF Fails, DInv, TypeOK
  <2>2. (Grown(Flipped(s)) \/ (AppendFails(Flipped(s)) /\ UNCHANGED <<log, cut>>)) /\ TornInv'
    BY <1>2, <2>1, AppendTears DEF DInv
  <2>3. open' \subseteq SignalType /\ s.key \in seen
    BY <1>2, <1>4 DEF DInv, TypeOK, OpenInv
  <2>4. CASE UNCHANGED <<log, cut>>
    <3>1. LinesInv' /\ OnceInv' /\ OverlapInv' /\ TornInv'
      BY <1>1, <2>1, <2>4, QuietLog DEF DInv, TypeOK
    <3>2. TypeOK'
      BY <1>1, <2>1, <2>3, <2>4 DEF DInv, TypeOK
    <3>3. OpenInv'
      BY <1>1, <1>2, <1>4, <2>4 DEF DInv, OpenInv, SameMove
    <3>4. MemoryInv' /\ RowsInv' /\ AskedInv'
      BY <1>1, <2>4 DEF DInv, MemoryInv, RowsInv, AskedInv
    <3> QED BY <3>1, <3>2, <3>3, <3>4 DEF DInv
  <2>5. CASE Grown(Flipped(s)) /\ ~UNCHANGED <<log, cut>>
    <3>1. /\ LinesInv' /\ OnceInv' /\ OverlapInv'
          /\ \A i \in 1..Len(log') : \E k \in 1..Len(log) :
               SameMove(log'[i], log[k]) /\ (i \in 1..Len(log) => k = i)
          /\ \A i \in 1..Len(log) : log'[i].readable => log[i].readable
          /\ \A i \in 1..Len(log) : i \in 1..Len(log') /\ SameMove(log'[i], log[i])
          /\ Len(log') = Len(log) + 1 /\ Len(log) \in Nat
          /\ log'[Len(log) + 1].key \in seen
      BY <1>1, <1>2, <2>5, NewVersion
    <3>2. log' \in Seq(Lines) /\ log' # <<>>
      BY <1>2, <2>5, GrownType DEF DInv
    <3>3. cut' \in BOOLEAN
      BY <2>1 DEF AppendSignal, AppendFails, DInv, TypeOK
    <3>4. TypeOK'
      BY <1>1, <2>1, <2>3, <3>2, <3>3 DEF DInv, TypeOK
    <3>5. ASSUME NEW t \in open
          PROVE  /\ t.key \in seen
                 /\ \E i \in 1..Len(log') : SameMove(log'[i], t)
                 /\ \A j \in 1..Len(log') : log'[j].id > t.id => log'[j].key # t.key
      <4>1. /\ t.key \in seen
            /\ \E i \in 1..Len(log) : SameMove(log[i], t)
            /\ \A j \in 1..Len(log) : log[j].id > t.id => log[j].key # t.key
        BY DEF DInv, OpenInv
      <4>2. \E i \in 1..Len(log') : SameMove(log'[i], t)
        BY <3>1, <4>1 DEF SameMove
      <4>3. ASSUME NEW j \in 1..Len(log'), log'[j].id > t.id PROVE log'[j].key # t.key
        BY <3>1, <4>1, <4>3 DEF SameMove
      <4> QED BY <4>1, <4>2, <4>3
    <3>6. OpenInv'
      BY <1>1, <1>2, <1>4, <3>5 DEF OpenInv, SameMove
    <3>7. MemoryInv'
      <4>1. ASSUME NEW i \in 1..Len(log')
            PROVE  /\ log'[i].readable => log'[i].key \in seen \/ blind
                   /\ prev[log'[i].key[1]] = 0 \/ log'[i].to <= prev[log'[i].key[1]]
        <5>1. PICK k \in 1..Len(log) :
                SameMove(log'[i], log[k]) /\ (i \in 1..Len(log) => k = i)
          BY <3>1
        <5>2. /\ log[k].readable => log[k].key \in seen \/ blind
              /\ prev[log[k].key[1]] = 0 \/ log[k].to <= prev[log[k].key[1]]
          BY <1>1 DEF DInv, MemoryInv
        <5>3. log'[i].readable => log'[i].key \in seen \/ blind
          <6>1. CASE i \in 1..Len(log)
            BY <3>1, <5>1, <5>2, <6>1 DEF SameMove
          <6>2. CASE i = Len(log) + 1
            BY <3>1, <6>2
          <6> QED BY <3>1, <6>1, <6>2
        <5> QED BY <5>1, <5>2, <5>3 DEF SameMove
      <4> QED BY <1>1, <4>1 DEF MemoryInv
    <3>8. RowsInv' /\ AskedInv'
      BY <1>1 DEF DInv, RowsInv, AskedInv
    <3> QED BY <2>2, <3>1, <3>4, <3>6, <3>7, <3>8 DEF DInv
  <2> QED BY <2>2, <2>4, <2>5
<1> QED BY <1>3, <1>4 DEF Track

-----------------------------------------------------------------------------
(* The other steps                                                         *)

(* The odds of a fixture are the newest that were shown. *)
LEMMA FetchOddsStep ==
  ASSUME DInv, NEW f \in Fixtures, NEW quoted \in SUBSET Names, FetchOdds(f, quoted)
  PROVE  DInv'
<1>1. /\ dpc = "odds" /\ todo' = todo \ {f}
      /\ rows'.of = <<f>> /\ rows'.at = Quoted(f, quoted) /\ rows'.asked = <<>>
      /\ rows'.left = {n \in Names : Quoted(f, quoted)[n] # 0}
      /\ UNCHANGED <<shown, bucket, dpc, unchecked, memory, log, cut, faults>>
  BY DEF FetchOdds
<1>2. LinesInv' /\ OnceInv' /\ OverlapInv' /\ TornInv'
  BY <1>1, QuietLog DEF DInv, TypeOK
<1>3. \A n \in Names : <<f, n>> \in Selections
  BY DEF Selections
<1>4. \A t \in Selections : /\ Len(shown[t]) \in Nat /\ prev[t] <= Len(shown[t])
  BY DEF DInv, TypeOK
<1>9. \A n \in Names : Quoted(f, quoted)[n] = IF n \in quoted THEN Len(shown[<<f, n>>]) ELSE 0
  BY DEF Quoted
<1>5. rows' \in Snapshots
  <2>1. Quoted(f, quoted) \in [Names -> Nat]
    BY <1>3, <1>4 DEF Quoted
  <2> DEFINE q == Quoted(f, quoted)
  <2>2. rows' = [of |-> <<f>>, at |-> q, left |-> {n \in Names : q[n] # 0}, asked |-> <<>>]
    BY DEF FetchOdds
  <2>3. {n \in Names : q[n] # 0} \in SUBSET Names
    OBVIOUS
  <2> HIDE DEF q
  <2>4. q \in [Names -> Nat]
    BY <2>1 DEF q
  <2> QED BY <2>2, <2>3, <2>4 DEF Snapshots
<1>6. TypeOK'
  BY <1>1, <1>5 DEF DInv, TypeOK, memory
<1>7. OpenInv' /\ MemoryInv'
  BY <1>1 DEF DInv, OpenInv, MemoryInv, memory
<1>8. RowsInv'
  <2>1. ASSUME NEW n \in rows'.left
        PROVE  /\ Current(n)' = <<f, n>> /\ <<f, n>> \in Selections
               /\ rows'.at[n] = Len(shown[<<f, n>>])
               /\ Len(shown[<<f, n>>]) # 0
    BY <1>1, <1>3, <1>9, <2>1 DEF Current
  <2>2. ASSUME NEW n \in rows'.left
        PROVE  /\ rows'.at[n] \in 1..Len(shown[<<f, n>>])
               /\ prev[<<f, n>>] <= rows'.at[n]
    BY <1>4, <2>1, <2>2
  <2>3. ASSUME NEW n \in rows'.left
        PROVE  \A i \in 1..Len(log) : log[i].key[1] = <<f, n>> => log[i].to <= rows'.at[n]
    BY <2>1, <2>3 DEF DInv, LinesInv
  <2> QED BY <1>1, <2>1, <2>2, <2>3 DEF RowsInv, memory
<1>10. AskedInv'
  BY <1>1 DEF AskedInv
<1> QED BY <1>2, <1>6, <1>7, <1>8, <1>10 DEF DInv

(* The agent is asked about a row in hand, under a key it has not seen. *)
LEMMA AskStep ==
  ASSUME DInv, NEW n \in rows.left, Ask(n)
  PROVE  DInv'
<1>1. /\ dpc = "odds" /\ prev[Current(n)] # 0 /\ Key(Current(n)) \notin seen
      /\ rows' = [rows EXCEPT !.asked = <<n, bucket>>]
      /\ UNCHANGED <<shown, bucket, dpc, todo, unchecked, memory, log, cut, faults>>
  BY DEF Ask
<1>2. rows \in Snapshots /\ n \in Names /\ bucket \in Nat
  BY InHand DEF DInv, TypeOK, Idle
<1>3. <<n, bucket>> \in {<<>>} \cup (Names \X Nat)
  BY <1>2
<1>4. rows' \in Snapshots
  <2>1. \A a \in {<<>>} \cup (Names \X Nat) : [rows EXCEPT !.asked = a] \in Snapshots
    BY <1>2 DEF Snapshots
  <2> QED BY <1>1, <1>3, <2>1, Zenon
<1>5. /\ rows'.of = rows.of /\ rows'.at = rows.at /\ rows'.left = rows.left
      /\ rows'.asked = <<n, bucket>>
  BY <1>1, <1>2 DEF Snapshots
<1>6. LinesInv' /\ OnceInv' /\ OverlapInv' /\ TornInv'
  BY <1>1, QuietLog DEF DInv, TypeOK
<1>7. TypeOK'
  BY <1>1, <1>4, <1>5 DEF DInv, TypeOK, memory
<1>8. OpenInv' /\ MemoryInv'
  BY <1>1 DEF DInv, OpenInv, MemoryInv, memory
<1>9. \A k : Current(k)' = Current(k)
  BY <1>5 DEF Current
<1>10. RowsInv'
  BY <1>1, <1>5, <1>9 DEF DInv, RowsInv, memory
<1>11. AskedInv'
  <2>1. <<n, bucket>>[1] = n /\ <<n, bucket>>[2] = bucket
    OBVIOUS
  <2>2. rows'.asked[1] = n /\ AskedKey(n)' = Key(Current(n))
    BY <1>5, <1>9, <2>1 DEF AskedKey, Key
  <2> QED BY <1>1, <1>5, <1>9, <2>2 DEF AskedInv, memory
<1> QED BY <1>6, <1>7, <1>8, <1>10, <1>11 DEF DInv

(* What the log lets a restarted detector know is in its memory. *)
LEMMA RestartStep ==
  ASSUME DInv, Restart
  PROVE  DInv'
<1>1. /\ dpc = "stopped" /\ dpc' = "sleep" /\ open' = {}
      /\ prev' = [t \in Selections |-> 0] /\ rows.left = {}
      /\ (seen' = LoadSeen /\ blind' = ~Legible) \/ (seen' = {} /\ blind' = TRUE)
      /\ UNCHANGED <<shown, bucket, todo, rows, unchecked, log, cut>>
      /\ faults' \in {faults, faults + 1} /\ faults' \in 0..MaxFaults
  BY DetectorAssumption DEF Restart, Fails, DInv, TypeOK
<1>2. LinesInv' /\ OnceInv' /\ OverlapInv' /\ TornInv'
  BY <1>1, QuietLog DEF DInv, TypeOK
<1>3. \A i \in 1..Len(log) : log[i].key \in Selections \X Nat /\ log[i].key[1] \in Selections
  BY LineFields DEF DInv
<1>4. DOMAIN log = 1..Len(log)
  BY DEF DInv, TypeOK
<1>5. seen' \subseteq Selections \X Nat
  BY <1>1, <1>3, <1>4 DEF LoadSeen
<1>9. blind' \in BOOLEAN
  BY <1>1
<1>6. TypeOK'
  <2>1. \A t \in Selections : Len(shown[t]) \in Nat
    BY DEF DInv, TypeOK
  <2> QED BY <1>1, <1>5, <1>9, <2>1 DEF DInv, TypeOK
<1>7. MemoryInv'
  <2>1. \A i \in 1..Len(log) : log[i].readable => log[i].key \in seen' \/ blind'
    BY <1>1, <1>4 DEF LoadSeen
  <2> QED BY <1>1, <1>3, <2>1 DEF MemoryInv
<1>8. OpenInv' /\ RowsInv' /\ AskedInv'
  BY <1>1 DEF DInv, AskedInv, OpenInv, RowsInv
<1> QED BY <1>2, <1>6, <1>7, <1>8 DEF DInv

(* A price that is shown is newer than all that is remembered. *)
LEMMA ShowStep ==
  ASSUME DInv, NEW t \in Selections, NEW p \in Prices, Show(t, p)
  PROVE  DInv'
<1>1. /\ shown' = [shown EXCEPT ![t] = Append(@, p)]
      /\ UNCHANGED <<bucket, dpc, todo, rows, memory, unchecked, log, cut, faults>>
  BY DEF Show
<1>2. shown \in [Selections -> Seq(Prices)]
  BY DEF DInv, TypeOK
<1>3. shown' \in [Selections -> Seq(Prices)]
  BY <1>1, <1>2
<1>4. \A u \in Selections : /\ Len(shown[u]) \in Nat /\ Len(shown'[u]) \in Nat
                            /\ Len(shown[u]) <= Len(shown'[u])
  BY <1>1, <1>2
<1>5. LinesInv' /\ OnceInv' /\ OverlapInv' /\ TornInv'
  BY <1>1, <1>4, QuietLog
<1>6. TypeOK'
  <2>1. \A u \in Selections : prev[u] <= Len(shown'[u])
    BY <1>4 DEF DInv, TypeOK
  <2> QED BY <1>1, <1>3, <2>1 DEF DInv, TypeOK, memory
<1>7. OpenInv' /\ MemoryInv'
  BY <1>1 DEF DInv, OpenInv, MemoryInv, memory
<1>8. RowsInv'
  <2>1. ASSUME NEW n \in rows.left
        PROVE  /\ Current(n) \in Selections
               /\ rows.at[n] \in 1..Len(shown[Current(n)])
               /\ prev[Current(n)] <= rows.at[n]
               /\ \A i \in 1..Len(log) : log[i].key[1] = Current(n) => log[i].to <= rows.at[n]
    BY DEF DInv, RowsInv
  <2>2. ASSUME NEW n \in rows.left PROVE rows.at[n] \in 1..Len(shown'[Current(n)])
    BY <1>4, <2>1
  <2>3. \A n \in rows.left : Current(n)' = Current(n)
    BY <1>1 DEF Current
  <2> QED BY <1>1, <2>1, <2>2, <2>3 DEF RowsInv, memory
<1>9. AskedInv'
  BY <1>1 DEF DInv, AskedInv, AskedKey, Current, memory
<1> QED BY <1>5, <1>6, <1>7, <1>8, <1>9 DEF DInv

(* Steps that do not touch what is remembered, shown or logged, and have   *)
(* no snapshot in hand afterwards that they did not have before.           *)
LEMMA QuietStep ==
  ASSUME DInv, UNCHANGED <<shown, memory, log, cut, faults>>,
         bucket' \in 0..MaxBuckets, dpc # "stopped" \/ dpc' = dpc,
         dpc' \in {"sleep", "fixtures", "odds", "tracking", "stopped"},
         todo' \subseteq Fixtures, todo' # {} => dpc' = "odds",
         rows' = Idle \/ (rows' = rows /\ (rows.left = {} \/ dpc' = "odds"))
  PROVE  DInv'
<1>1. LinesInv' /\ OnceInv' /\ OverlapInv' /\ TornInv'
  BY QuietLog DEF DInv, TypeOK
<1>2. Idle.left = {} /\ Idle.asked = <<>>
  BY DEF Idle
<1>3. TypeOK'
  BY <1>2 DEF DInv, TypeOK, memory
<1>4. OpenInv' /\ MemoryInv'
  BY DEF DInv, OpenInv, MemoryInv, memory
<1>5. RowsInv'
  <2>1. CASE rows' = Idle
    BY <1>2, <2>1 DEF RowsInv
  <2>2. CASE rows' = rows
    <3>1. \A n \in rows.left : Current(n)' = Current(n)
      BY <2>2 DEF Current
    <3> QED BY <2>2, <3>1 DEF DInv, RowsInv, memory
  <2> QED BY <2>1, <2>2
<1>6. AskedInv'
  BY <1>2 DEF DInv, AskedInv, AskedKey, Current, memory
<1> QED BY <1>1, <1>3, <1>4, <1>5, <1>6 DEF DInv
-----------------------------------------------------------------------------
(* The theorems                                                            *)

(* Nothing is remembered and nothing logged at the start. *)
LEMMA DInvInit == Init => DInv
<1> SUFFICES ASSUME Init PROVE DInv
  OBVIOUS
<1>1. /\ shown = [s \in Selections |-> <<>>] /\ prev = [s \in Selections |-> 0]
      /\ bucket = 0 /\ faults = 0 /\ dpc = "sleep" /\ todo = {} /\ rows = Idle
      /\ seen = {} /\ open = {} /\ blind = FALSE /\ log = <<>> /\ cut = FALSE
      /\ Idle.left = {} /\ Idle.asked = <<>>
  BY DEF Init, Idle
<1>2. TypeOK
  <2>1. shown \in [Selections -> Seq(Prices)] /\ prev \in [Selections -> Nat]
    BY <1>1
  <2>2. \A s \in Selections : prev[s] <= Len(shown[s])
    BY <1>1
  <2>3. 0 \in 0..MaxBuckets /\ 0 \in 0..MaxFaults
    BY DetectorAssumption
  <2>4. log \in Seq(Lines)
    BY <1>1
  <2> QED BY <1>1, <2>1, <2>2, <2>3, <2>4 DEF TypeOK
<1>3. 1..Len(log) = {}
  BY <1>1
<1>4. LinesInv /\ OnceInv /\ OverlapInv /\ OpenInv /\ MemoryInv /\ RowsInv /\ AskedInv
  BY <1>1, <1>3 DEF LinesInv, OnceInv, OverlapInv, OpenInv, MemoryInv, RowsInv, AskedInv
<1>5. TornInv
  <2>1. Torn = {}
    BY <1>3 DEF Torn
  <2> QED BY <1>1, <2>1, FS_EmptySet DEF TornInv, AtStake
<1> QED BY <1>2, <1>4, <1>5 DEF DInv

(* Every step keeps the invariant. *)
LEMMA DInvNext == DInv /\ [DetectorNext]_vars => DInv'
<1> SUFFICES ASSUME DInv, [DetectorNext]_vars PROVE DInv'
  OBVIOUS
<1>1. TypeOK
  BY DEF DInv
<1>2. CASE BeginStep \/ EndStep
  BY <1>1, <1>2, QuietStep DEF BeginStep, EndStep, TypeOK
<1>3. CASE BeginTracking
  BY <1>1, <1>3, QuietStep DEF BeginTracking, TypeOK
<1>4. ASSUME NEW live \in SUBSET Fixtures, FetchFixtures(live) PROVE DInv'
  <2>1. rows.left = {}
    BY <1>1, <1>4 DEF FetchFixtures, TypeOK
  <2> QED BY <1>1, <1>4, <2>1, QuietStep DEF FetchFixtures, TypeOK
<1>5. ASSUME NEW f \in Fixtures, NEW quoted \in SUBSET Names, FetchOdds(f, quoted) PROVE DInv'
  BY <1>5, FetchOddsStep
<1>6. ASSUME NEW n \in Names, PassOver(n) PROVE DInv'
  <2>1. /\ n \in rows.left /\ rows' = WorkedOff(n)
        /\ prev' = prev \/ prev' = [prev EXCEPT ![Current(n)] = rows.at[n]]
        /\ UNCHANGED <<shown, bucket, dpc, todo, unchecked, seen, open, blind, log, cut, faults>>
    BY <1>6 DEF PassOver
  <2> QED BY <2>1, MovesOn
<1>7. ASSUME NEW n \in Names, NEW script \in Scripts, Dismiss(n, script) PROVE DInv'
  <2>1. /\ n \in rows.left /\ rows' = WorkedOff(n)
        /\ prev' = [prev EXCEPT ![Current(n)] = rows.at[n]]
        /\ UNCHANGED <<shown, bucket, dpc, todo, unchecked, seen, open, blind, log, cut, faults>>
    BY <1>7 DEF Dismiss, Asked
  <2> QED BY <2>1, MovesOn
<1>8. ASSUME NEW n \in Names, NEW script \in Scripts, LogSignal(n, script) PROVE DInv'
  <2>1. n \in rows.left
    BY <1>8 DEF LogSignal, Asked
  <2> QED BY <1>8, <2>1, LogSignalStep
<1>9. ASSUME NEW s \in open, Track(s) PROVE DInv'
  BY <1>9, TrackStep
<1>10. CASE Stopped \/ FetchFails
  <2>1. /\ Stop /\ UNCHANGED <<shown, bucket, memory, log, cut>>
        /\ faults < MaxFaults /\ faults' = faults + 1
    BY <1>10 DEF Stopped, FetchFails, Fails
  <2>2. faults' \in 0..MaxFaults
    BY <1>1, <2>1, DetectorAssumption DEF TypeOK
  <2> QED BY <2>1, <2>2, Stopping
<1>11. CASE Restart
  BY <1>11, RestartStep
<1>12. ASSUME NEW n \in Names, NEW script \in Scripts, LogFails(n, script) PROVE DInv'
  <2>1. n \in rows.left
    BY <1>12 DEF LogFails, Asked
  <2> QED BY <1>12, <2>1, LogFailsStep
<1>13. ASSUME NEW s \in Selections, NEW p \in Prices, Show(s, p) PROVE DInv'
  BY <1>13, ShowStep
<1>14. CASE ClockTicks
  <2>1. bucket' \in 0..MaxBuckets
    BY <1>1, <1>14, DetectorAssumption DEF ClockTicks, TypeOK
  <2>2. rows.left = {} \/ dpc = "odds"
    BY <1>1 DEF TypeOK
  <2> QED BY <1>1, <1>14, <2>1, <2>2, QuietStep DEF ClockTicks, TypeOK
<1>15. CASE UNCHANGED vars
  <2>1. rows.left = {} \/ dpc = "odds"
    BY <1>1 DEF TypeOK
  <2> QED BY <1>1, <1>15, <2>1, QuietStep DEF vars, memory, TypeOK
<1>16. ASSUME NEW n \in Names, Ask(n) PROVE DInv'
  <2>1. n \in rows.left
    BY <1>16 DEF Ask
  <2> QED BY <1>16, <2>1, AskStep
<1> QED BY <1>2, <1>3, <1>4, <1>5, <1>6, <1>7, <1>8, <1>9, <1>10, <1>11, <1>12, <1>13,
           <1>14, <1>15, <1>16, Zenon DEF DetectorNext, Poll, BoundedStep, Answer

(* The detector's variables keep their types, and what it remembers of a   *)
(* selection is a price the selection has shown.                           *)
THEOREM DetectorTypes == DetectorSpec => []TypeOK
<1>1. DInv => TypeOK
  BY DEF DInv
<1> QED BY <1>1, DInvInit, DInvNext, PTL DEF DetectorSpec

(* A detector that could read the log when it began logs no signal whose   *)
(* key a readable line holds, and no more lines are torn than the          *)
(* interrupted appends account for, however often the detector fails and   *)
(* is started again.                                                       *)
THEOREM LoggedOnce == DetectorSpec => []LoggedOnceUnlessTorn
<1>1. DInv => LoggedOnceUnlessTorn
  <2> SUFFICES ASSUME DInv PROVE LoggedOnceUnlessTorn
    OBVIOUS
  <2>1. DOMAIN log = 1..Len(log)
    BY DEF DInv, TypeOK
  <2>2. \A i, j \in DOMAIN log :
          log[i].id < log[j].id /\ log[i].key = log[j].key => ~log[i].readable \/ log[j].blind
    BY <2>1 DEF DInv, OnceInv
  <2>3. Cardinality({i \in DOMAIN log : ~log[i].readable}) <= 2 * faults
    <3>1. Cardinality(Torn) \in Nat /\ AtStake \in Nat /\ faults \in Nat
      BY TornIsFinite DEF DInv, TypeOK, AtStake
    <3>2. {i \in DOMAIN log : ~log[i].readable} = Torn
      BY <2>1 DEF Torn
    <3>3. Cardinality(Torn) <= 2 * faults
      BY <3>1 DEF DInv, TornInv
    <3> QED BY <3>2, <3>3, Zenon
  <2> QED BY <2>2, <2>3 DEF LoggedOnceUnlessTorn
<1> QED BY <1>1, DInvInit, DInvNext, PTL DEF DetectorSpec

(* The moves logged of a selection follow one another, across the flips of *)
(* a verdict, failed appends and restarts.                                 *)
THEOREM MovesFollow == DetectorSpec => []MovesDoNotOverlap
<1>1. DInv => MovesDoNotOverlap
  <2> SUFFICES ASSUME DInv PROVE MovesDoNotOverlap
    OBVIOUS
  <2>1. DOMAIN log = 1..Len(log)
    BY DEF DInv, TypeOK
  <2> QED BY <2>1 DEF DInv, OverlapInv, MovesDoNotOverlap
<1> QED BY <1>1, DInvInit, DInvNext, PTL DEF DetectorSpec

-----------------------------------------------------------------------------
(* A poll looks at everything and ends                                     *)

(* The price of a row that has been worked off is the one remembered:      *)
(* whether it was passed over, dismissed or logged, the next move of its   *)
(* selection is measured from it.                                          *)
RowsCompared ==
  rows # Idle =>
    \A n \in Names \ rows.left :
      rows.at[n] # 0 =>
        /\ prev[Current(n)] # 0
        /\ shown[Current(n)][prev[Current(n)]] = shown[Current(n)][rows.at[n]]

(* Rows are of prices the feed has shown; a stopped process has none.      *)
RowsShown ==
  /\ dpc = "stopped" => rows = Idle
  /\ rows # Idle => \A n \in Names : rows.at[n] <= Len(shown[Current(n)])

(* A process that runs never goes back behind a price it remembers.        *)
NeverLooksBack ==
  [][\A s \in Selections : dpc # "stopped" => prev[s] <= prev'[s]]_vars

(* The stages of a poll. *)
Stage ==
  CASE dpc = "fixtures" -> 3 [] dpc = "odds" -> 2 [] dpc = "tracking" -> 1 [] OTHER -> 0

Shrinks(S, T) == T \subseteq S /\ T # S

(* The agent is asked once about a row. *)
JustAsked == rows.asked = <<>> /\ rows'.asked # <<>>

(* Each step of a poll ends a stage of it, asks the agent about a row, or  *)
(* works off a fixture, a row or an open signal, of which there are finitely many; prices shown and   *)
(* time passing add none.                                                  *)
PollsRunDown ==
  [][ /\ IsFiniteSet(todo) /\ IsFiniteSet(rows.left) /\ IsFiniteSet(unchecked) /\ Stage \in Nat
      /\ Poll /\ ~BeginStep =>
           \/ Stage' < Stage
           \/ Stage' = Stage /\ Shrinks(todo, todo')
           \/ Stage' = Stage /\ todo' = todo /\ Shrinks(rows.left, rows'.left)
           \/ Stage' = Stage /\ todo' = todo /\ rows'.left = rows.left /\ JustAsked
           \/ Stage' = Stage /\ todo' = todo /\ rows' = rows /\ Shrinks(unchecked, unchecked')
      /\ ~Poll /\ faults' = faults => Stage' = Stage /\ UNCHANGED <<todo, rows, unchecked>> ]_vars

OpenFinite == IsFiniteSet(open) /\ IsFiniteSet(unchecked)

(* A row is worked off by remembering its price, or one that equals it.    *)
LEMMA RowWorkedOff ==
  ASSUME DInv, RowsCompared, RowsShown, NEW n \in rows.left,
         \/ prev' = [prev EXCEPT ![Current(n)] = rows.at[n]]
         \/ /\ prev' = prev /\ prev[Current(n)] # 0
            /\ shown[Current(n)][prev[Current(n)]] = shown[Current(n)][rows.at[n]],
         rows' = WorkedOff(n), UNCHANGED <<shown, dpc>>
  PROVE  /\ RowsCompared' /\ RowsShown'
         /\ \A s \in Selections : prev[s] <= prev'[s]
<1>1. /\ dpc = "odds" /\ n \in Names /\ Current(n) \in Selections
      /\ rows.at[n] \in Nat \ {0} /\ prev[Current(n)] \in Nat /\ prev[Current(n)] <= rows.at[n]
      /\ rows'.of = rows.of /\ rows'.at = rows.at /\ rows'.left = rows.left \ {n}
  BY InHand
<1>2. rows # Idle
  BY DEF Idle
<1>3. prev \in [Selections -> Nat]
  BY DEF DInv, TypeOK
<1>4. \A k \in Names : Current(k)' = Current(k)
  BY <1>1 DEF Current
<1>5. /\ prev'[Current(n)] # 0
      /\ shown[Current(n)][prev'[Current(n)]] = shown[Current(n)][rows.at[n]]
  BY <1>1, <1>3
<1>6. \A s \in Selections : s # Current(n) => prev'[s] = prev[s]
  BY <1>3
<1>7. ASSUME NEW k \in Names, k \notin rows.left, rows.at[k] # 0
      PROVE  /\ prev'[Current(k)] # 0
             /\ shown[Current(k)][prev'[Current(k)]] = shown[Current(k)][rows.at[k]]
  <2>1. /\ prev[Current(k)] # 0
        /\ shown[Current(k)][prev[Current(k)]] = shown[Current(k)][rows.at[k]]
    BY <1>2, <1>7 DEF RowsCompared
  <2>2. prev'[Current(k)] = prev[Current(k)]
    <3>1. k # n
      BY <1>7
    <3>2. Current(k) # Current(n)
      BY <3>1 DEF Current
    <3>3. Current(k) \in Selections
      BY <1>1 DEF Current, Selections
    <3> QED BY <1>6, <3>2, <3>3
  <2> QED BY <2>1, <2>2
<1>8. RowsCompared'
  BY <1>1, <1>4, <1>5, <1>7 DEF RowsCompared
<1>9. RowsShown'
  BY <1>1, <1>2, <1>4 DEF RowsShown
<1>10. \A s \in Selections : prev[s] <= prev'[s]
  BY <1>1, <1>3, <1>6
<1> QED BY <1>8, <1>9, <1>10

(* A step that leaves rows and memory alone. *)
LEMMA RowsLeftAlone ==
  ASSUME DInv, RowsCompared, RowsShown, UNCHANGED prev, rows' \in {rows, Idle},
         dpc' = "stopped" => rows' = Idle,
         \A s \in Selections : /\ Len(shown'[s]) \in Nat /\ Len(shown[s]) <= Len(shown'[s])
                               /\ \A i \in 1..Len(shown[s]) : shown'[s][i] = shown[s][i]
  PROVE  /\ RowsCompared' /\ RowsShown'
         /\ \A s \in Selections : prev[s] <= prev'[s]
<1>1. \A s \in Selections : prev[s] \in Nat /\ prev[s] <= Len(shown[s]) /\ Len(shown[s]) \in Nat
  BY DEF DInv, TypeOK
<1>2. CASE rows' = Idle
  BY <1>1, <1>2 DEF RowsCompared, RowsShown
<1>3. CASE rows' = rows /\ rows # Idle
  <2>1. rows \in Snapshots
    BY <1>3 DEF DInv, TypeOK
  <2>2. \A n \in Names : Current(n) \in Selections /\ rows.at[n] \in Nat /\ Current(n)' = Current(n)
    BY <1>3, <2>1 DEF Snapshots, Current, Selections
  <2>3. \A n \in Names : rows.at[n] <= Len(shown[Current(n)])
    BY <1>3 DEF RowsShown
  <2>4. ASSUME NEW n \in Names \ rows.left, rows.at[n] # 0
        PROVE  /\ prev[Current(n)] # 0
               /\ shown'[Current(n)][prev[Current(n)]] = shown'[Current(n)][rows.at[n]]
    <3>1. /\ prev[Current(n)] # 0
          /\ shown[Current(n)][prev[Current(n)]] = shown[Current(n)][rows.at[n]]
      BY <1>3, <2>4 DEF RowsCompared
    <3>2. prev[Current(n)] \in 1..Len(shown[Current(n)]) /\ rows.at[n] \in 1..Len(shown[Current(n)])
      BY <1>1, <2>2, <2>3, <2>4, <3>1
    <3> QED BY <2>2, <3>1, <3>2
  <2>5. RowsCompared'
    BY <1>3, <2>2, <2>4 DEF RowsCompared
  <2>6. ASSUME NEW n \in Names
        PROVE  rows.at[n] <= Len(shown'[Current(n)])
    <3>1. Len(shown[Current(n)]) <= Len(shown'[Current(n)]) /\ Len(shown'[Current(n)]) \in Nat
      BY <2>2
    <3> QED BY <1>1, <2>2, <2>3, <3>1
  <2>7. RowsShown'
    BY <1>3, <2>2, <2>6 DEF RowsShown
  <2> QED BY <1>1, <2>5, <2>7
<1> QED BY <1>2, <1>3

(* Every step of the detector works off rows or leaves them be. *)
LEMMA RowsFollow ==
  ASSUME DInv, RowsCompared, RowsShown, [DetectorNext]_vars
  PROVE  /\ RowsCompared' /\ RowsShown'
         /\ \A s \in Selections : dpc # "stopped" => prev[s] <= prev'[s]
<1>1. \A s \in Selections : Len(shown[s]) \in Nat
  BY DEF DInv, TypeOK
<1>2. ASSUME NEW n \in Names, PassOver(n)
      PROVE  RowsCompared' /\ RowsShown' /\ \A s \in Selections : prev[s] <= prev'[s]
  <2>1. /\ n \in rows.left /\ rows' = WorkedOff(n)
        /\ UNCHANGED <<shown, dpc>>
        /\ \/ prev' = [prev EXCEPT ![Current(n)] = rows.at[n]]
           \/ prev' = prev /\ prev[Current(n)] # 0 /\ ~Moved(Current(n), rows.at[n])
    BY <1>2 DEF PassOver
  <2> QED BY <2>1, RowWorkedOff DEF Moved
<1>3. ASSUME NEW n \in Names, NEW script \in Scripts, Dismiss(n, script) \/ LogSignal(n, script)
      PROVE  RowsCompared' /\ RowsShown' /\ \A s \in Selections : prev[s] <= prev'[s]
  <2>1. /\ n \in rows.left /\ rows' = WorkedOff(n)
        /\ UNCHANGED <<shown, dpc>>
        /\ prev' = [prev EXCEPT ![Current(n)] = rows.at[n]]
    BY <1>3 DEF Dismiss, LogSignal, Asked, RememberSignal
  <2> QED BY <2>1, RowWorkedOff
<1>4. ASSUME NEW f \in Fixtures, NEW quoted \in SUBSET Names, FetchOdds(f, quoted)
      PROVE  RowsCompared' /\ RowsShown' /\ \A s \in Selections : prev[s] <= prev'[s]
  <2>1. /\ dpc' = "odds" /\ UNCHANGED <<shown, prev>>
        /\ rows'.of = <<f>> /\ rows'.at = Quoted(f, quoted)
        /\ rows'.left = {n \in Names : Quoted(f, quoted)[n] # 0}
    BY <1>4 DEF FetchOdds, memory
  <2>2. \A n \in Names : Current(n)' = <<f, n>> /\ <<f, n>> \in Selections
    BY <2>1 DEF Current, Selections
  <2>3. \A n \in Names : n \notin rows'.left => rows'.at[n] = 0
    BY <2>1
  <2>4. RowsCompared'
    BY <2>3 DEF RowsCompared
  <2>5. \A n \in Names : rows'.at[n] <= Len(shown[<<f, n>>])
    BY <1>1, <2>1, <2>2 DEF Quoted
  <2>6. RowsShown'
    BY <2>1, <2>2, <2>5 DEF RowsShown
  <2>7. \A s \in Selections : prev[s] <= prev'[s]
    BY <2>1 DEF DInv, TypeOK
  <2> QED BY <2>4, <2>6, <2>7
<1>5. CASE Restart
  <2>1. dpc = "stopped" /\ dpc' = "sleep" /\ rows' = rows
    BY <1>5 DEF Restart
  <2>2. rows' = Idle
    BY <2>1 DEF RowsShown
  <2> QED BY <2>1, <2>2 DEF RowsCompared, RowsShown
<1>6. ASSUME NEW t \in Selections, NEW p \in Prices, Show(t, p)
      PROVE  RowsCompared' /\ RowsShown' /\ \A s \in Selections : prev[s] <= prev'[s]
  <2>1. shown' = [shown EXCEPT ![t] = Append(shown[t], p)] /\ UNCHANGED <<dpc, rows, prev>>
    BY <1>6 DEF Show, memory
  <2>2. shown[t] \in Seq(Prices) /\ shown \in [Selections -> Seq(Prices)]
    BY DEF DInv, TypeOK
  <2>3. /\ Len(Append(shown[t], p)) = Len(shown[t]) + 1 /\ Len(shown[t]) \in Nat
        /\ \A i \in 1..Len(shown[t]) : Append(shown[t], p)[i] = shown[t][i]
    BY <2>2
  <2>4. \A s \in Selections : shown'[s] = IF s = t THEN Append(shown[t], p) ELSE shown[s]
    BY <2>1, <2>2
  <2>5. ASSUME NEW s \in Selections
        PROVE  /\ Len(shown'[s]) \in Nat /\ Len(shown[s]) <= Len(shown'[s])
               /\ \A i \in 1..Len(shown[s]) : shown'[s][i] = shown[s][i]
    <3>1. CASE s = t
      <4>1. shown'[s] = Append(shown[t], p)
        BY <2>4, <3>1
      <4>2. Len(shown'[s]) = Len(shown[t]) + 1 /\ Len(shown[t]) \in Nat
        BY <2>3, <4>1
      <4> QED BY <2>3, <3>1, <4>1, <4>2
    <3>2. CASE s # t
      BY <1>1, <2>4, <3>2
    <3> QED BY <3>1, <3>2
  <2> QED BY <2>1, <2>5, RowsLeftAlone DEF RowsShown
<1>7. CASE /\ UNCHANGED <<shown, prev>>
           /\ \/ rows' = rows /\ (dpc' = "stopped" => dpc = "stopped")
              \/ rows' = Idle
  <2>1. dpc' = "stopped" => rows' = Idle
    BY <1>7 DEF RowsShown
  <2>2. \A s \in Selections : /\ Len(shown'[s]) \in Nat /\ Len(shown[s]) <= Len(shown'[s])
                              /\ \A i \in 1..Len(shown[s]) : shown'[s][i] = shown[s][i]
    BY <1>1, <1>7
  <2> QED BY <1>7, <2>1, <2>2, RowsLeftAlone
<1>8. \/ \E n \in Names : PassOver(n)
      \/ \E n \in Names, script \in Scripts : Dismiss(n, script) \/ LogSignal(n, script)
      \/ \E f \in Fixtures, quoted \in SUBSET Names : FetchOdds(f, quoted)
      \/ \E n \in Names : Ask(n)
      \/ Restart
      \/ \E t \in Selections, p \in Prices : Show(t, p)
      \/ /\ UNCHANGED <<shown, prev>>
         /\ \/ rows' = rows /\ (dpc' = "stopped" => dpc = "stopped")
            \/ rows' = Idle
  <2>1. CASE Poll
    <3>1. CASE BeginStep \/ BeginTracking \/ EndStep
      BY <3>1 DEF BeginStep, BeginTracking, EndStep, memory
    <3>2. CASE \E live \in SUBSET Fixtures : FetchFixtures(live)
      BY <3>2 DEF FetchFixtures, memory
    <3>3. CASE \E s \in open : Track(s)
      BY <3>3 DEF Track
    <3> QED BY <2>1, <3>1, <3>2, <3>3, Zenon DEF Poll, BoundedStep, Answer
  <2>2. CASE Stopped \/ FetchFails \/ ClockTicks \/ UNCHANGED vars
    BY <2>2 DEF Stopped, FetchFails, ClockTicks, Stop, memory, vars
  <2>3. CASE \E n \in Names, script \in Scripts : LogFails(n, script)
    BY <2>3 DEF LogFails, Stop, memory
  <2> QED BY <2>1, <2>2, <2>3 DEF DetectorNext
<1>9. ASSUME NEW n \in Names, Ask(n)
      PROVE  RowsCompared' /\ RowsShown' /\ \A s \in Selections : prev[s] <= prev'[s]
  <2>1. /\ dpc = "odds" /\ n \in rows.left /\ rows' = [rows EXCEPT !.asked = <<n, bucket>>]
        /\ UNCHANGED <<shown, dpc, prev>>
    BY <1>9 DEF Ask, memory
  <2>2. rows \in Snapshots
    BY <2>1 DEF DInv, TypeOK, Idle
  <2>3. rows'.of = rows.of /\ rows'.at = rows.at /\ rows'.left = rows.left /\ rows # Idle
    BY <2>1, <2>2 DEF Snapshots, Idle
  <2>4. \A k : Current(k)' = Current(k)
    BY <2>3 DEF Current
  <2>5. RowsCompared' /\ RowsShown'
    BY <2>1, <2>3, <2>4 DEF RowsCompared, RowsShown
  <2>6. \A s \in Selections : prev[s] <= prev'[s]
    BY <2>1 DEF DInv, TypeOK
  <2> QED BY <2>5, <2>6
<1> QED BY <1>2, <1>3, <1>4, <1>5, <1>6, <1>7, <1>8, <1>9

(* However a movement was judged, and logged or not, a running detector    *)
(* measures the next one from the newest price it has read, and never from *)
(* an older one (sharp-movement-detector/src/main.rs: agent_step): with    *)
(* PollsRunDown, what CatchesUp says without its fairness.                 *)
THEOREM RowsAreCompared == DetectorSpec => []RowsCompared /\ NeverLooksBack
<1>1. Init => RowsCompared /\ RowsShown
  BY DEF Init, RowsCompared, RowsShown
<1>2. DInv /\ RowsCompared /\ RowsShown /\ [DetectorNext]_vars => RowsCompared' /\ RowsShown'
  BY RowsFollow
<1>3. DInv /\ RowsCompared /\ RowsShown /\ [DetectorNext]_vars =>
        [\A s \in Selections : dpc # "stopped" => prev[s] <= prev'[s]]_vars
  BY RowsFollow
<1> QED BY <1>1, <1>2, <1>3, DInvInit, DInvNext, PTL DEF DetectorSpec, NeverLooksBack

(* A detector holds finitely many open signals. *)
LEMMA OpenStaysFinite == OpenFinite /\ [DetectorNext]_vars => OpenFinite'
<1> SUFFICES ASSUME OpenFinite, [DetectorNext]_vars PROVE OpenFinite'
  OBVIOUS
<1>1. \/ open' = open \/ open' = {}
      \/ \E x : open' = open \cup {x}
      \/ \E s \in open : open' = (open \ {s}) \cup {Flipped(s)}
  BY DEF DetectorNext, Poll, BoundedStep, Answer, Ask, BeginStep, BeginTracking, EndStep, FetchFixtures, FetchOdds, PassOver,
    Dismiss, LogSignal, Track, Stopped, FetchFails, LogFails, Restart, Show, ClockTicks, memory, vars
<1>2. \/ unchecked' = unchecked \/ unchecked' = {} \/ unchecked' = {s.id : s \in open}
      \/ \E s \in open : unchecked' = unchecked \ {s.id}
  BY DEF DetectorNext, Poll, BoundedStep, Answer, Ask, BeginStep, BeginTracking, EndStep, FetchFixtures, FetchOdds, PassOver,
    Dismiss, LogSignal, Track, Stopped, FetchFails, LogFails, Restart, Show, ClockTicks, Stop, vars
<1> DEFINE Ids == {s.id : s \in open}
<1>3. /\ \A S, x : IsFiniteSet(S) => IsFiniteSet(S \cup {x}) /\ IsFiniteSet(S \ {x})
      /\ IsFiniteSet({}) /\ IsFiniteSet(open) /\ IsFiniteSet(unchecked)
  BY FS_EmptySet, FS_AddElement, FS_RemoveElement DEF OpenFinite
<1>4. IsFiniteSet(Ids)
  <2> DEFINE idOf == [s \in open |-> s.id]
  <2>1. idOf \in Surjection(open, Ids)
    BY DEF Surjection
  <2> HIDE DEF idOf, Ids
  <2> QED BY <1>3, <2>1, FS_Surjection
<1>5. unchecked' \in {unchecked, {}, Ids} \/ \E x : unchecked' = unchecked \ {x}
  BY <1>2
<1> HIDE DEF Ids
<1>6. IsFiniteSet(open')
  <2>1. CASE \E s \in open : open' = (open \ {s}) \cup {Flipped(s)}
    <3>1. PICK s \in open : open' = (open \ {s}) \cup {Flipped(s)}
      BY <2>1
    <3>2. IsFiniteSet(open \ {s})
      BY <1>3
    <3> QED BY <1>3, <3>1, <3>2
  <2>2. CASE \E x : open' = open \cup {x}
    BY <1>3, <2>2
  <2> QED BY <1>1, <1>3, <2>1, <2>2
<1>7. IsFiniteSet(unchecked')
  <2>1. CASE \E x : unchecked' = unchecked \ {x}
    <3>1. PICK x : unchecked' = unchecked \ {x}
      BY <2>1
    <3>2. IsFiniteSet(unchecked \ {x})
      BY <1>3
    <3> QED BY <3>1, <3>2
  <2>2. CASE unchecked' \in {unchecked, {}, Ids}
    BY <1>3, <1>4, <2>2
  <2> QED BY <1>5, <2>1, <2>2
<1> QED BY <1>6, <1>7 DEF OpenFinite

(* A step of a poll ends a stage or works something off. *)
LEMMA PollStepLowers ==
  ASSUME DInv, Poll, ~BeginStep
  PROVE  \/ Stage' < Stage
         \/ Stage' = Stage /\ Shrinks(todo, todo')
         \/ Stage' = Stage /\ todo' = todo /\ Shrinks(rows.left, rows'.left)
         \/ Stage' = Stage /\ todo' = todo /\ rows'.left = rows.left /\ JustAsked
         \/ Stage' = Stage /\ todo' = todo /\ rows' = rows /\ Shrinks(unchecked, unchecked')
<1>1. CASE BeginTracking
  BY <1>1 DEF BeginTracking, Stage
<1>2. CASE EndStep
  BY <1>2 DEF EndStep, Stage
<1>3. CASE \E live \in SUBSET Fixtures : FetchFixtures(live)
  BY <1>3 DEF FetchFixtures, Stage
<1>4. CASE \E f \in Fixtures, quoted \in SUBSET Names : FetchOdds(f, quoted)
  BY <1>4 DEF FetchOdds, Stage, Shrinks
<1>5. CASE \E n \in Names : n \in rows.left /\ rows' = WorkedOff(n)
                            /\ UNCHANGED <<dpc, todo>>
  <2>1. PICK n \in Names : n \in rows.left /\ rows' = WorkedOff(n)
                           /\ UNCHANGED <<dpc, todo>>
    BY <1>5
  <2>2. rows'.left = rows.left \ {n}
    BY <2>1, InHand
  <2> QED BY <2>1, <2>2 DEF Stage, Shrinks
<1>6. CASE \E s \in open : Track(s)
  BY <1>6 DEF Track, Stage, Shrinks
<1>7. ASSUME NEW n \in Names,
             PassOver(n) \/ \E script \in Scripts : Dismiss(n, script) \/ LogSignal(n, script)
      PROVE  n \in rows.left /\ rows' = WorkedOff(n) /\ UNCHANGED <<dpc, todo>>
  BY <1>7 DEF PassOver, Dismiss, LogSignal, Asked
<1>8. ASSUME NEW n \in Names, Ask(n)
      PROVE  Stage' = Stage /\ todo' = todo /\ rows'.left = rows.left /\ JustAsked
  <2>1. /\ dpc = "odds" /\ n \in rows.left /\ rows' = [rows EXCEPT !.asked = <<n, bucket>>]
        /\ rows.asked = <<>> /\ UNCHANGED <<dpc, todo>>
    BY <1>8 DEF Ask
  <2>2. rows \in Snapshots
    BY <2>1 DEF DInv, TypeOK, Idle
  <2>3. rows'.left = rows.left /\ rows'.asked = <<n, bucket>>
    BY <2>1, <2>2 DEF Snapshots
  <2>4. rows'.asked # <<>>
    BY <2>3
  <2> QED BY <2>1, <2>3, <2>4 DEF Stage, JustAsked
<1>9. \/ BeginTracking \/ EndStep
      \/ \E live \in SUBSET Fixtures : FetchFixtures(live)
      \/ \E f \in Fixtures, quoted \in SUBSET Names : FetchOdds(f, quoted)
      \/ \E n \in Names : Ask(n)
      \/ \E n \in Names :
           PassOver(n) \/ \E script \in Scripts : Dismiss(n, script) \/ LogSignal(n, script)
      \/ \E s \in open : Track(s)
  BY Zenon DEF Poll, BoundedStep, Answer
<1> QED BY <1>1, <1>2, <1>3, <1>4, <1>5, <1>6, <1>7, <1>8, <1>9

(* No poll goes on for ever, however many prices move and signals are open. *)
THEOREM PollsEnd ==
  ASSUME IsFiniteSet(Fixtures), IsFiniteSet(Names)
  PROVE  DetectorSpec => PollsRunDown
<1>1. Init => OpenFinite
  BY FS_EmptySet DEF Init, OpenFinite
<1>2. ASSUME DInv, OpenFinite
      PROVE  IsFiniteSet(todo) /\ IsFiniteSet(rows.left) /\ IsFiniteSet(unchecked) /\ Stage \in Nat
  <2>1. IsFiniteSet(todo)
    BY <1>2, FS_Subset DEF DInv, TypeOK
  <2>2. rows.left \subseteq Names
    BY <1>2 DEF DInv, TypeOK, Idle, Snapshots
  <2>3. IsFiniteSet(rows.left)
    BY <2>2, FS_Subset
  <2> QED BY <1>2, <2>1, <2>3 DEF OpenFinite, Stage
<1>3. ASSUME DInv, [DetectorNext]_vars, ~Poll, faults' = faults
      PROVE  Stage' = Stage /\ UNCHANGED <<todo, rows, unchecked>>
  <2>1. ~Fails
    BY <1>3, DetectorAssumption DEF Fails, DInv, TypeOK
  <2>2. CASE Restart
    BY <2>2 DEF Restart, Stage
  <2>3. CASE UNCHANGED <<dpc, todo, rows, unchecked>>
    BY <2>3 DEF Stage
  <2> QED BY <1>3, <2>1, <2>2, <2>3 DEF DetectorNext, Stopped, FetchFails, LogFails, Show, ClockTicks,
        vars
<1>4. DInv /\ OpenFinite /\ [DetectorNext]_vars =>
        [ /\ IsFiniteSet(todo) /\ IsFiniteSet(rows.left) /\ IsFiniteSet(unchecked) /\ Stage \in Nat
          /\ Poll /\ ~BeginStep =>
               \/ Stage' < Stage
               \/ Stage' = Stage /\ Shrinks(todo, todo')
               \/ Stage' = Stage /\ todo' = todo /\ Shrinks(rows.left, rows'.left)
               \/ Stage' = Stage /\ todo' = todo /\ rows'.left = rows.left /\ JustAsked
               \/ Stage' = Stage /\ todo' = todo /\ rows' = rows /\ Shrinks(unchecked, unchecked')
          /\ ~Poll /\ faults' = faults => Stage' = Stage /\ UNCHANGED <<todo, rows, unchecked>> ]_vars
  BY <1>2, <1>3, PollStepLowers
<1> QED BY <1>1, <1>4, OpenStaysFinite, DInvInit, DInvNext, PTL DEF DetectorSpec, PollsRunDown
=============================================================================
