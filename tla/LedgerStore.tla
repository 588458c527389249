---------------------------- MODULE LedgerStore -----------------------------
(***************************************************************************)
(* The SQLite ledger of the desktop: one connection behind a mutex, each   *)
(* statement durable when it returns, the replacement of a fixture's       *)
(* backtest rows alone in a transaction.  Rounds write their rows here one *)
(* statement after the other, and their transcript files after those.      *)
(*                                                                         *)
(* A row is its run and its table; queries, which only read, and the JSON  *)
(* of the columns are left out.                                            *)
(***************************************************************************)
EXTENDS Backtest

CONSTANTS
  Rounds,     \* rounds that may be under way at once
  Fixtures,   \* fixtures that are replayed
  Replays,    \* replays computed in a behaviour
  Histories,  \* what the provider may answer to a replay
  MaxFaults   \* statements that fail

ASSUME LedgerAssumption ==
  /\ {Replays, MaxFaults} \subseteq Nat
  /\ \A history \in Histories : IsFiniteSet(DOMAIN history)

VARIABLES
  lock,      \* who holds the ledger over several statements, or "free"
  rows,      \* <<run, table>>
  round,     \* per round: its place, whether it has a decision, its next row
  backtest,  \* backtest_settlements: <<replay, fixture, position>>
  staged,    \* the table as the open transaction sees it
  replays,   \* the replays computed: their fixture and positions
  due,       \* those of them whose command has yet to store its rows
  writing,   \* the one whose transaction is open, or 0
  faults

replayVars == <<backtest, staged, replays, due, writing>>
ledgerVars == <<lock, rows, round, replayVars, faults>>

LedgerInit ==
  /\ lock = "free"
  /\ rows = {}
  /\ round = [r \in Rounds |-> [at |-> "idle", decided |-> FALSE, next |-> 1]]
  /\ backtest = {} /\ staged = {}
  /\ replays = << >> /\ due = {} /\ writing = 0
  /\ faults = 0

Fault == faults < MaxFaults /\ faults' = faults + 1

-----------------------------------------------------------------------------
(* A round.  Its signal is written when it is found, its other rows at its end:
   a decision is made of a signal and of nothing else. *)

RowsOf(r) ==
  IF round[r].decided THEN <<"run", "observation", "receipt", "llm", "decision">>
                      ELSE <<"run", "observation", "receipt", "llm">>

BeginRound(r) ==
  /\ round[r].at = "idle"
  /\ round' = [round EXCEPT ![r].at = "working"]
  /\ UNCHANGED <<lock, rows, replayVars, faults>>

(* A failure of this insert is ignored. *)
FindSignal(r) ==
  /\ round[r].at = "working" /\ ~round[r].decided /\ lock = "free"
  /\ round' = [round EXCEPT ![r].decided = TRUE]
  /\ \/ rows' = rows \cup {<<r, "signal">>} /\ UNCHANGED faults
     \/ rows' = rows \cup {<<r, "signal lost">>} /\ Fault
  /\ UNCHANGED <<lock, replayVars>>

PersistRun(r) ==
  /\ round[r].at = "working" /\ lock = "free"
  /\ lock' = "round"
  /\ round' = [round EXCEPT ![r].at = "persisting"]
  /\ UNCHANGED <<rows, replayVars, faults>>

InsertRow(r) ==
  LET last == round[r].next = Len(RowsOf(r)) IN
  /\ round[r].at = "persisting"
  /\ rows' = rows \cup {<<r, RowsOf(r)[round[r].next]>>}
  /\ round' = [round EXCEPT ![r].next = @ + 1,
                            ![r].at = IF last THEN "artifacts" ELSE @]
  /\ lock' = IF last THEN "free" ELSE lock
  /\ UNCHANGED <<replayVars, faults>>

(* Slip: the error is dropped and the next row written. *)
InsertRowPassesOver(r) ==
  LET last == round[r].next = Len(RowsOf(r)) IN
  /\ round[r].at = "persisting"
  /\ Fault
  /\ round' = [round EXCEPT ![r].next = @ + 1,
                            ![r].at = IF last THEN "artifacts" ELSE @]
  /\ lock' = IF last THEN "free" ELSE lock
  /\ UNCHANGED <<rows, replayVars>>

(* The error ends the round; the rows before it stay. *)
InsertRowFails(r) ==
  /\ round[r].at = "persisting"
  /\ Fault
  /\ round' = [round EXCEPT ![r].at = "failed"]
  /\ lock' = "free"
  /\ UNCHANGED <<rows, replayVars>>

(* The transcript files; a failure of theirs is ignored, and the run returned. *)
PersistArtifacts(r) ==
  /\ round[r].at = "artifacts"
  /\ \/ rows' = rows \cup {<<r, "transcript">>} /\ UNCHANGED faults
     \/ UNCHANGED rows /\ Fault
  /\ round' = [round EXCEPT ![r].at = "returned"]
  /\ UNCHANGED <<lock, replayVars>>

-----------------------------------------------------------------------------
(* run_backtest.  The replay is computed without the ledger, over many requests
   to the provider; its rows then replace those of the fixture in one
   transaction.  Of two commands whose replays are computed either may have the
   ledger first.  A request that fails, or a history without a score, ends the
   command before it has changed anything. *)

ComputeReplay(f, history) ==
  /\ Len(replays) < Replays
  /\ HasScore(history, f)
  /\ replays' = Append(replays, [fixture |-> f, positions |-> ReplayFixture(history, f)])
  /\ due' = due \cup {Len(replays) + 1}
  /\ UNCHANGED <<lock, rows, round, backtest, staged, writing, faults>>

Open == replays[writing]
Row(p) == <<writing, Open.fixture, p>>
Missing == {p \in Open.positions : Row(p) \notin staged}

(* Slip: the rows of the last replay are left. *)
ReplaceAppends(n) ==
  /\ lock = "free" /\ n \in due
  /\ lock' = "backtest" /\ writing' = n
  /\ staged' = backtest
  /\ UNCHANGED <<rows, round, backtest, replays, due, faults>>

ReplaceBegins(n) ==
  /\ lock = "free" /\ n \in due
  /\ lock' = "backtest" /\ writing' = n
  /\ staged' = {row \in backtest : row[2] # replays[n].fixture}
  /\ UNCHANGED <<rows, round, backtest, replays, due, faults>>

ReplaceInserts ==
  /\ lock = "backtest" /\ Missing # {}
  /\ staged' = staged \cup {Row(CHOOSE p \in Missing : TRUE)}
  /\ UNCHANGED <<lock, rows, round, backtest, replays, due, writing, faults>>

ReplaceEnds == lock' = "free" /\ staged' = {} /\ due' = due \ {writing} /\ writing' = 0

ReplaceCommits ==
  /\ lock = "backtest" /\ Missing = {}
  /\ backtest' = staged
  /\ ReplaceEnds
  /\ UNCHANGED <<rows, round, replays, faults>>

(* The transaction is dropped, which rolls it back. *)
ReplaceFails ==
  /\ lock = "backtest"
  /\ Fault
  /\ ReplaceEnds
  /\ UNCHANGED <<rows, round, backtest, replays>>

(* list_backtest_settlements of one fixture, which the leaderboard reads. *)
ListBacktestSettlements(f) == {row \in backtest : row[2] = f}

LedgerStep ==
  \/ \E r \in Rounds :
       \/ BeginRound(r) \/ FindSignal(r) \/ PersistRun(r)
       \/ InsertRow(r) \/ InsertRowFails(r) \/ PersistArtifacts(r)
  \/ \E f \in Fixtures, history \in Histories : ComputeReplay(f, history)
  \/ \E n \in due : ReplaceBegins(n)
  \/ ReplaceInserts \/ ReplaceCommits \/ ReplaceFails

(* The process ends: rounds and replays under way are gone, an open transaction
   is rolled back when the database is next opened. *)
LedgerCrash ==
  /\ lock' = "free"
  /\ round' = [r \in Rounds |->
                 IF round[r].at \in {"idle", "returned"} THEN round[r]
                 ELSE [round[r] EXCEPT !.at = "lost"]]
  /\ staged' = {} /\ due' = {} /\ writing' = 0
  /\ UNCHANGED <<rows, backtest, replays, faults>>

-----------------------------------------------------------------------------
Tables == {"run", "observation", "receipt", "llm", "decision", "signal",
           "signal lost", "transcript"}

LedgerTypeOK ==
  /\ lock \in {"free", "round", "verify", "backtest"}
  /\ rows \subseteq Rounds \X Tables
  /\ round \in [Rounds ->
       [at : {"idle", "working", "persisting", "artifacts", "returned", "failed", "lost"},
        decided : BOOLEAN, next : 1..6]]
  /\ \A row \in backtest \cup staged :
       /\ row[1] \in DOMAIN replays /\ row[2] \in Fixtures
       /\ row[3] \in replays[row[1]].positions
  /\ Len(replays) <= Replays /\ (staged # {} => lock = "backtest")
  /\ due \subseteq DOMAIN replays /\ writing \in due \cup {0}
  /\ faults \in 0..MaxFaults

(* Wherever a round is cut off, a row or a transcript of a run is there only
   when the run is, and a decision only when its signal was written first or
   its insert failed; and a round that returned its run has every row of it in
   the ledger, whatever the other writers of the connection did meanwhile. *)
RunsHoldTogether ==
  /\ \A x \in rows :
       /\ x[2] \in {"observation", "receipt", "llm", "decision", "transcript"}
            => <<x[1], "run">> \in rows
       /\ x[2] = "decision" => {<<x[1], "signal">>, <<x[1], "signal lost">>} \cap rows # {}
  /\ \A r \in Rounds : round[r].at = "returned" =>
       \A i \in DOMAIN RowsOf(r) : <<r, RowsOf(r)[i]>> \in rows

(* "A partial write never leaves stale + fresh rows mixed": the rows of a
   fixture are the positions of one replay, all of them. *)
ReplaysDoNotMix ==
  \A f \in Fixtures : ListBacktestSettlements(f) # {} =>
    \E n \in DOMAIN replays :
      /\ replays[n].fixture = f
      /\ ListBacktestSettlements(f) = {<<n, f, p>> : p \in replays[n].positions}

(* "Exactly one side of each With/Against pair should win": of the listed
   positions every one has its opposite on the same tick, and one of the two
   won, so that the tallies of the two strategies add up. *)
PairsSplit ==
  \A f \in Fixtures :
    LET listed == {row[3] : row \in ListBacktestSettlements(f)} IN
    /\ \A p \in listed : \E q \in listed :
         /\ q.place = p.place /\ q.strategy # p.strategy
         /\ q.direction # p.direction /\ q.won # p.won
    /\ PositionsWon(listed, "follow_sharp") + PositionsWon(listed, "fade_sharp")
         = Taken(listed, "follow_sharp")
=============================================================================
