------------------------------- MODULE Signals -------------------------------
(***************************************************************************)
(* From a TxLINE message to a decision, as operators: how the ingest reads *)
(* an SSE block, what features and which signal the desk derives from an   *)
(* event, and the policy that turns the signal into an action.  Scores are *)
(* in hundredths, decimal odds in tenths, absence of a number is 0.        *)
(***************************************************************************)
EXTENDS Integers, Sequences, FiniteSets, SequencesExt, FiniteSetsExt

Kinds == {"Fixture", "OddsUpdate", "OddsMove", "ScoreUpdate", "Goal", "RedCard",
          "FinalWhistle", "ProofReceived"}

SimulationStatuses == {"NotStarted", "Passed", "Failed", "Unavailable"}

Receipts ==
  [fixture : Nat, seq : Nat, keys : SUBSET {"name", "number"},
   proof : BOOLEAN, root : BOOLEAN, hash : BOOLEAN,
   status : SimulationStatuses, verified : BOOLEAN]

NoReceipt ==
  [fixture |-> 0, seq |-> 0, keys |-> {}, proof |-> FALSE, root |-> FALSE,
   hash |-> FALSE, status |-> "NotStarted", verified |-> FALSE]

Outcomes == {"home", "draw", "away"}

-----------------------------------------------------------------------------
(* Reading a block (ingest.rs).  A block has the stream it came on, the    *)
(* words its title and action contain, the JSON type of its stat keys, and *)
(* the numbers it carries.                                                 *)

Quotes == [outcome : Outcomes, decimal : Nat]

BlockType ==
  [stream : {"odds", "scores"}, words : SUBSET {"goal", "red_card", "final"},
   keys : {"names", "numbers", "numerals"}, seq : Nat, fixture : Nat,
   quotes : Seq(Quotes), score : BOOLEAN]

EventKind(b) ==
  IF "goal" \in b.words THEN "Goal"
  ELSE IF "red_card" \in b.words THEN "RedCard"
  ELSE IF "final" \in b.words THEN "FinalWhistle"
  ELSE IF b.stream = "odds" THEN "OddsUpdate" ELSE "ScoreUpdate"

(* Only keys that are JSON strings are taken; a default name stands in for *)
(* an array of numbers.                                                    *)
StatKeys(b) == IF b.keys = "numerals" THEN {"number"} ELSE {"name"}

(* A quote without a price above 1.0 is dropped, the others keep their     *)
(* order; a block none of whose quotes is left has no odds.                *)
ParseOdds(b) ==
  LET priced == {i \in DOMAIN b.quotes : b.stream = "odds" /\ b.quotes[i].decimal > 10}
  IN  [i \in priced |-> b.quotes[i]]

ParseBlock(b) ==
  [ kind    |-> EventKind(b),
    fixture |-> b.fixture,
    seq     |-> b.seq,
    keys    |-> StatKeys(b),
    rawKeys |-> b.keys \in {"numbers", "numerals"},
    odds    |-> ParseOdds(b),
    score   |-> b.stream = "scores" /\ b.score,
    proof   |-> NoReceipt,
    shown   |-> FALSE ]      \* shown: carries a receipt

(* fixtures.ts loadFixtureEvent: a fixture the user picked, with the odds  *)
(* and the score of its snapshots if there are any.                        *)
SnapshotEvent(f, odds, score) ==
  [ kind |-> IF odds = <<>> THEN "Fixture" ELSE "OddsUpdate",
    fixture |-> f, seq |-> 0, keys |-> {"name"}, rawKeys |-> FALSE,
    odds |-> odds, score |-> score, proof |-> NoReceipt, shown |-> FALSE ]

(* autonomous.rs: the event the live-trigger loop builds from a sharp move *)
MoveEvent(f, odds) ==
  [SnapshotEvent(f, odds, FALSE) EXCEPT !.kind = "OddsMove"]

(* runtime/events.rs proof_event *)
ProofEvent(r) ==
  [ kind |-> "ProofReceived", fixture |-> r.fixture, seq |-> r.seq,
    keys |-> r.keys, rawKeys |-> FALSE, odds |-> <<>>, score |-> FALSE,
    proof |-> r, shown |-> TRUE ]

-----------------------------------------------------------------------------
(* Features, signal, policy. *)

Severity(kind) ==
  CASE kind = "Goal" -> 80
    [] kind = "RedCard" -> 78
    [] kind = "FinalWhistle" -> 72
    [] kind \in {"OddsMove", "OddsUpdate"} -> 64
    [] kind = "ProofReceived" -> 70
    [] OTHER -> 35

Twenty(condition) == IF condition THEN 20 ELSE 0

DeriveFeatures(e) ==
  [ severity |-> Severity(e.kind),
    actionability |-> Twenty(e.odds # <<>>) + Twenty(e.score) + Twenty(e.proof.proof)
                      + Twenty(e.proof.root) + Twenty(e.proof.status = "Passed") ]

(* The signal a kind raises; other kinds raise none. *)
SignalOf ==
  [ OddsMove |-> "SharpOddsMove", OddsUpdate |-> "SharpOddsMove",
    Goal |-> "ScoreEvent", ScoreUpdate |-> "ScoreEvent",
    RedCard |-> "RedCardReprice",
    FinalWhistle |-> "ProofReady", ProofReceived |-> "ProofReady" ]

SeverityBand(score) ==
  CASE score >= 85 -> "Critical"
    [] score >= 70 /\ score < 85 -> "High"
    [] score >= 55 /\ score < 70 -> "Medium"
    [] OTHER -> "Low"

BuildSignal(e, features) ==
  [ type       |-> SignalOf[e.kind],
    severity   |-> SeverityBand(features.severity),
    confidence |-> Max({features.severity, features.actionability}) ]

RequestedAction(track, type) ==
  CASE track = "settlement" /\ type = "ProofReady" -> "TriggerResolution"
    [] track = "settlement" /\ type # "ProofReady" -> "FetchProof"
    [] track = "trading" /\ type = "SharpOddsMove" -> "SimulatePosition"
    [] track = "fan" /\ type \in {"ScoreEvent", "RedCardReprice"} -> "Notify"
    [] OTHER -> "Watch"

SeverityBonus(band) == CASE band = "Critical" -> 5 [] band = "High" -> 3 [] OTHER -> 0

(* agent_core::policy::choose_action: the gate decides between a           *)
(* resolution and fetching the proof; the other two checks block.          *)
ChooseAction(e, track, signal, features, gate) ==
  LET requested == RequestedAction(track, signal.type) IN
  [ action |-> IF requested = "TriggerResolution" /\ ~gate
               THEN "FetchProof" ELSE requested,
    confidence |-> Min({100, signal.confidence + features.actionability
                             + SeverityBonus(signal.severity)}),
    status |-> IF e.fixture > 0 /\ signal.confidence >= 55 THEN "Pending" ELSE "Blocked" ]

(* decision.rs apply_decision_to_run and proof::verdict_from_gate *)
RunVerdict(track, gate) ==
  IF gate /\ track = "settlement" THEN "Pass" ELSE "NeedsReview"
=============================================================================
