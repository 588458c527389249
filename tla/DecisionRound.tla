---------------------------- MODULE DecisionRound ----------------------------
(***************************************************************************)
(* What a round decides, before and beside its delegations (AgentRound):   *)
(* the desk takes an event, has the receipt of its proof validated by a    *)
(* sidecar process against the txoracle program, closes the proof gate,    *)
(* lets two models argue a wager under the Authority, and derives the      *)
(* signal, the decision and the verdict of the run.  The receipt is        *)
(* published as an event of its own, which the webview holds like any      *)
(* other and may send back as the trigger of a later round.                *)
(*                                                                         *)
(* The steps wait for TxLINE, for the sidecar and for the model provider;  *)
(* each may fail, the sidecar may answer and not exit, and the provider    *)
(* may never answer.                                                       *)
(***************************************************************************)
EXTENDS Signals, WagerMath, TLC

Rules == INSTANCE WagerRules

CONSTANTS
  Blocks,          \* TxLINE blocks the ingest has handed to the webview
  Snapshots,       \* odds of the fixture snapshots the webview has fetched
  Moves,           \* odds of the sharp moves the autonomous loop has seen
  Distributions,   \* results of compute_model_probability, per outcome
  Caps,            \* values of max_devnet_spend_sol
  ProposeTurns, ReactTurns,   \* turns the two model loops may take
  MaxRounds, MaxFaults        \* bounds of the instances

ASSUME DecisionAssumption ==
  /\ {ProposeTurns, ReactTurns} \subseteq Nat \ {0}
  /\ {MaxRounds, MaxFaults} \subseteq Nat /\ Caps \subseteq Nat
  /\ \A d \in Distributions : d \in [Outcomes -> 0..100]
  /\ Blocks \subseteq BlockType /\ Snapshots \cup Moves \subseteq Seq(Quotes)

VARIABLES
  idl, credentials, cap,   \* the configuration of the process
  pc,        \* where the round stands
  event,     \* context.event, and run.trigger
  track,     \* context.track
  receipt,   \* proof_receipt
  answer,    \* the sidecar's response, until it is merged
  gate,      \* proof_gate.pass
  turns,     \* completions the running model loop has requested
  computed,  \* the last result of compute_model_probability, or <<>>
  first,     \* the Authority's first ruling, or <<>>
  ruling,    \* the ruling that stands, or <<>>
  decision,  \* maybe_decision, or <<>>
  verdict,   \* run.verdict, or "none"
  feed,      \* proof events published
  proved,    \* external: fixtures and sequences the program accepted
  rounds, faults   \* rounds begun and steps that failed

config == <<idl, credentials, cap>>
debate == <<turns, computed, first, ruling>>
outcome == <<decision, verdict>>
vars == <<config, pc, event, track, receipt, answer, gate, debate, outcome,
          feed, proved, rounds, faults>>

Tracks == {"settlement", "trading", "fan"}

Fails == faults < MaxFaults /\ faults' = faults + 1

(* What the desk has made known to the callers of a round. *)
KnownEvents ==
  {ParseBlock(b) : b \in Blocks}
    \cup {SnapshotEvent(1, odds, s) : odds \in Snapshots, s \in BOOLEAN}
    \cup {MoveEvent(1, odds) : odds \in Moves}
    \cup feed

Init ==
  /\ idl \in BOOLEAN /\ credentials \in BOOLEAN /\ cap \in Caps
  /\ pc = "idle" /\ event = SnapshotEvent(1, <<>>, FALSE) /\ track = "settlement"
  /\ receipt = NoReceipt /\ answer = NoReceipt /\ gate = FALSE
  /\ turns = 0 /\ computed = <<>> /\ first = <<>> /\ ruling = <<>>
  /\ decision = <<>> /\ verdict = "none"
  /\ feed = {} /\ proved = {} /\ rounds = 0 /\ faults = 0

-----------------------------------------------------------------------------
(* The receipt and its validation. *)

(* proof::receipt_for_run: an attached receipt is taken as it is; a fresh  *)
(* one carries the keys of the event.                                      *)
ReceiptFor(e) ==
  IF e.shown THEN e.proof
  ELSE [NoReceipt EXCEPT !.fixture = e.fixture, !.seq = e.seq, !.keys = e.keys]

Begin(e, t) ==
  /\ pc = "idle" /\ rounds < MaxRounds
  /\ e \in KnownEvents
  /\ pc' = "load" /\ event' = e /\ track' = t /\ receipt' = ReceiptFor(e)
  /\ turns' = 0 /\ computed' = <<>> /\ first' = <<>> /\ ruling' = <<>>
  /\ decision' = <<>> /\ verdict' = "none" /\ gate' = FALSE
  /\ rounds' = rounds + 1
  /\ UNCHANGED <<config, answer, feed, proved, faults>>

NumericKeys(e) == "number" \in e.keys \/ e.rawKeys

(* Validation starts when the IDL is there, the event has a sequence and   *)
(* numeric keys, and the credentials are configured; otherwise the receipt *)
(* goes to the gate as it is.  An attached receipt whose raw value is      *)
(* itself a payload to validate would save the request; no event has one:  *)
(* the raw values of receipt_for_run name their source at the top, and a  *)
(* payload is at most within their txlineProof (has_validation_shape).     *)
Load ==
  /\ pc = "load"
  /\ pc' = IF idl /\ event.seq # 0 /\ NumericKeys(event) /\ credentials
           THEN "fetch" ELSE "gate"
  /\ UNCHANGED <<config, event, track, receipt, answer, gate, debate, outcome,
                 feed, proved, rounds, faults>>

(* api::authenticated_get: one refresh of the guest token, one retry. *)
ProofArrives ==
  /\ pc \in {"fetch", "retry"}
  /\ pc' = "sidecar"
  /\ receipt' = [receipt EXCEPT !.seq = event.seq, !.keys = {"number"}, !.proof = TRUE]
  /\ UNCHANGED <<config, event, track, answer, gate, debate, outcome, feed,
                 proved, rounds, faults>>

TokenExpired ==
  /\ pc = "fetch" /\ Fails
  /\ pc' = "refresh"
  /\ UNCHANGED <<config, event, track, receipt, answer, gate, debate, outcome,
                 feed, proved, rounds>>

(* A refresh whose body has no token is an AppError::Config, which counts  *)
(* as credentials missing: the receipt stays as it is.                     *)
TokenRefreshed ==
  /\ pc = "refresh"
  /\ \/ pc' = "retry" /\ UNCHANGED faults
     \/ pc' = "gate" /\ Fails
  /\ UNCHANGED <<config, event, track, receipt, answer, gate, debate, outcome,
                 feed, proved, rounds>>

FetchFails ==
  /\ pc \in {"fetch", "refresh", "retry"} /\ Fails
  /\ pc' = "gate"
  /\ receipt' = [receipt EXCEPT !.status = "Unavailable"]
  /\ UNCHANGED <<config, event, track, answer, gate, debate, outcome, feed,
                 proved, rounds>>

(* External: what the bridge prints.  The program accepts or rejects the   *)
(* proof; or the bridge could not simulate, and names no root.             *)
SidecarResponses ==
  { [NoReceipt EXCEPT !.status = "Passed", !.verified = TRUE, !.proof = TRUE,
                      !.root = TRUE, !.hash = TRUE],
    [NoReceipt EXCEPT !.status = "Failed", !.proof = TRUE, !.root = TRUE, !.hash = TRUE],
    [NoReceipt EXCEPT !.status = "Failed", !.proof = TRUE],
    [NoReceipt EXCEPT !.status = "NotStarted", !.proof = TRUE] }

SidecarAnswers ==
  /\ pc = "sidecar"
  /\ answer' \in SidecarResponses
  /\ proved' = IF answer'.status = "Passed"
               THEN proved \cup {<<event.fixture, event.seq>>} ELSE proved
  /\ pc' = "exiting"
  /\ UNCHANGED <<config, event, track, receipt, gate, debate, outcome, feed,
                 rounds, faults>>

(* Slip: nothing limits the wait for the line. *)
SidecarGone ==
  /\ pc = "sidecar" /\ Fails
  /\ pc' = "gate"
  /\ receipt' = [receipt EXCEPT !.status = "Unavailable", !.verified = FALSE]
  /\ UNCHANGED <<config, event, track, answer, gate, debate, outcome, feed,
                 proved, rounds>>

(* Not found, not spawned, gone without a line, or silent for 45 seconds. *)
SidecarFails ==
  /\ pc = "sidecar"
  /\ pc' = "gate"
  /\ receipt' = [receipt EXCEPT !.status = "Unavailable", !.verified = FALSE]
  /\ UNCHANGED <<config, event, track, answer, gate, debate, outcome, feed,
                 proved, rounds, faults>>

(* merge_sidecar_response, once the process has exited. *)
Merge(r, a) ==
  [r EXCEPT !.status = a.status, !.proof = a.proof, !.root = a.root, !.hash = a.hash,
            !.verified = a.verified /\ a.proof /\ a.root /\ a.status = "Passed"]

SidecarExits ==
  /\ pc = "exiting"
  /\ receipt' = Merge(receipt, answer)
  /\ answer' = NoReceipt
  /\ pc' = "gate"
  /\ UNCHANGED <<config, event, track, gate, debate, outcome, feed, proved,
                 rounds, faults>>

(* Slip: a root that was observed is enough. *)
GateOnRoot(e, r) == r.fixture = e.fixture /\ r.keys # {} /\ r.proof /\ r.root

(* proof::gate_receipt *)
GateReceipt(e, r) ==
  /\ r.fixture = e.fixture /\ r.keys # {}
  /\ r.proof /\ r.root
  /\ r.status = "Passed"

(* The gate closes on the receipt, which joins the event and is published. *)
CloseGate ==
  /\ pc = "gate"
  /\ gate' = GateReceipt(event, receipt)
  /\ event' = [event EXCEPT !.proof = receipt, !.shown = TRUE]
  /\ feed' = feed \cup {ProofEvent(receipt)}
  /\ pc' = "propose"
  /\ UNCHANGED <<config, track, receipt, answer, debate, outcome, proved, rounds,
                 faults>>

-----------------------------------------------------------------------------
(* The debate.  A turn of a model calls some of its tools; a turn that     *)
(* calls none ends the loop without a result, one that calls the final     *)
(* tool ends it with its arguments, once all its calls are executed.       *)

(* extract_odds: the first quote of each outcome. *)
OddsOf(e) ==
  [o \in Outcomes |->
     IF \E i \in DOMAIN e.odds : e.odds[i].outcome = o
     THEN e.odds[Min({i \in DOMAIN e.odds : e.odds[i].outcome = o})].decimal ELSE 0]

Complete(e) == \A o \in Outcomes : OddsOf(e)[o] # 0

Ref == IF ~gate THEN "none" ELSE IF receipt.hash THEN "wellShaped" ELSE "malformed"

(* No complete market, no provider, an error, a turn without a call, or an *)
(* assessment that finds no value or cannot be read.  The same for the     *)
(* pundit, who does not react to a ruling that bets nothing.               *)
DebateEnds ==
  /\ pc \in {"propose", "react"}
  /\ pc' = "decide" /\ turns' = 0
  /\ UNCHANGED <<config, event, track, receipt, answer, gate, computed, first,
                 ruling, outcome, feed, proved, rounds, faults>>

(* Slip: the loop has no cap. *)
ProposerComputesOn ==
  /\ pc = "propose" /\ Complete(event)
  /\ turns' = turns
  /\ computed' \in {computed} \cup Distributions
  /\ UNCHANGED <<config, pc, event, track, receipt, answer, gate, first, ruling,
                 outcome, feed, proved, rounds, faults>>

(* A turn of tool calls that is not the last. *)
ProposerComputes ==
  /\ pc = "propose" /\ Complete(event)
  /\ turns' = turns + 1
  /\ computed' \in {computed} \cup Distributions
  /\ pc' = IF turns' = ProposeTurns THEN "decide" ELSE "propose"
  /\ UNCHANGED <<config, event, track, receipt, answer, gate, first, ruling,
                 outcome, feed, proved, rounds, faults>>

(* The proposer names an outcome, and has computed a distribution by then. *)
ProposerSubmits(o) ==
  /\ pc = "propose" /\ Complete(event)
  /\ computed' \in ({computed} \cup Distributions) \ {<<>>}
  /\ first' = Adjudicate(Proposed(computed'[o], Ref), OddsOf(event)[o], cap)
  /\ ruling' = first'
  /\ pc' = "react" /\ turns' = 0
  /\ UNCHANGED <<config, event, track, receipt, answer, gate, outcome, feed,
                 proved, rounds, faults>>

(* A turn that calls only tools the pundit does not have. *)
PunditStalls ==
  /\ pc = "react" /\ first.status # "NoBet"
  /\ turns' = turns + 1
  /\ pc' = IF turns' = ReactTurns THEN "decide" ELSE "react"
  /\ UNCHANGED <<config, event, track, receipt, answer, gate, computed, first,
                 ruling, outcome, feed, proved, rounds, faults>>

PunditRules(stance) ==
  /\ pc = "react" /\ first.status # "NoBet"
  /\ ruling' = React(first, stance, cap)
  /\ pc' = "decide" /\ turns' = 0
  /\ UNCHANGED <<config, event, track, receipt, answer, gate, computed, first,
                 outcome, feed, proved, rounds, faults>>

-----------------------------------------------------------------------------
(* The decision, from the features derived again with the receipt on the   *)
(* event.                                                                  *)

Decide ==
  LET features == DeriveFeatures(event)
      signal   == BuildSignal(event, features)
  IN
  /\ pc = "decide"
  /\ pc' = "idle"
  /\ IF event.kind \in DOMAIN SignalOf
     THEN /\ decision' = ChooseAction(event, track, signal, features, gate)
          /\ verdict' = RunVerdict(track, gate)
     ELSE verdict' = "NeedsReview" /\ UNCHANGED decision
  /\ UNCHANGED <<config, event, track, receipt, answer, gate, debate, feed,
                 proved, rounds, faults>>

Next ==
  \/ \E e \in KnownEvents, t \in Tracks : Begin(e, t)
  \/ Load \/ ProofArrives \/ TokenExpired \/ TokenRefreshed \/ FetchFails
  \/ SidecarAnswers \/ SidecarFails \/ SidecarExits \/ CloseGate
  \/ DebateEnds \/ ProposerComputes \/ \E o \in Outcomes : ProposerSubmits(o)
  \/ PunditStalls \/ \E s \in {"endorse", "challenge", "no_bet", "other"} : PunditRules(s)
  \/ Decide

Spec == Init /\ [][Next]_vars

(* The desk's own steps happen; requests to TxLINE end within the client's *)
(* ten seconds, and the sidecar's line is waited for 45.  Nothing makes    *)
(* the sidecar exit after its line, or a turn of the provider end.         *)
DeskStep == Load \/ CloseGate \/ Decide
FetchStep == ProofArrives \/ TokenExpired \/ TokenRefreshed \/ FetchFails
DebateStep ==
  \/ DebateEnds \/ ProposerComputes \/ \E o \in Outcomes : ProposerSubmits(o)
  \/ PunditStalls \/ \E s \in {"endorse", "challenge", "no_bet", "other"} : PunditRules(s)

DecisionFairSpec ==
  Spec /\ WF_vars(DeskStep) /\ WF_vars(FetchStep) /\ WF_vars(SidecarFails)

-----------------------------------------------------------------------------
(* Properties. *)

Wagers ==
  [prob : 0..100, implied : Nat, edge : 0..100, fair : 0..100,
   stake : [num : Nat, den : Nat \ {0}], ref : {"none", "wellShaped", "malformed"},
   status : {"Proposed", "NoBet", "Debated", "ProofPassed"}]

(* Odds are quotes in some order; an event has a receipt of its own.       *)
EventTypeOK(e) ==
  /\ e.kind \in Kinds /\ e.fixture \in Nat /\ e.seq \in Nat
  /\ e.keys \subseteq {"name", "number"} /\ e.proof \in Receipts
  /\ DOMAIN e.odds \subseteq Nat /\ \A i \in DOMAIN e.odds : e.odds[i] \in Quotes

(* Every variable has its type; the turns are within the loops' caps.      *)
TypeOK ==
  /\ idl \in BOOLEAN /\ credentials \in BOOLEAN /\ cap \in Caps
  /\ pc \in {"idle", "load", "fetch", "refresh", "retry", "sidecar", "exiting", "gate",
             "propose", "react", "decide"}
  /\ EventTypeOK(event) /\ \A e \in feed : EventTypeOK(e)
  /\ track \in Tracks /\ receipt \in Receipts /\ answer \in Receipts
  /\ gate \in BOOLEAN
  /\ turns \in 0..ProposeTurns \cup 0..ReactTurns
  /\ computed \in Distributions \cup {<<>>}
  /\ first \in Wagers \cup {<<>>} /\ ruling \in Wagers \cup {<<>>}
  /\ verdict \in {"none", "Pass", "NeedsReview"}
  /\ rounds \in 0..MaxRounds /\ faults \in 0..MaxFaults

(* No fake pass (the policy of validation.rs): whatever receipts are       *)
(* attached, republished and validated again, and whatever fails on the    *)
(* way, a gate passes, a run's verdict passes, a resolution is triggered   *)
(* and a receipt is published as verified only for a fixture and sequence  *)
(* the txoracle program has accepted.                                      *)
NoFakePass ==
  LET accepted(r) == <<r.fixture, r.seq>> \in proved IN
  /\ gate => accepted(receipt) /\ receipt.fixture = event.fixture
  /\ verdict = "Pass" => gate
  /\ decision # <<>> /\ decision.action = "TriggerResolution" => verdict = "Pass"
  /\ \A e \in feed : e.proof.verified \/ e.proof.status = "Passed" => accepted(e.proof)

(* The wager that leaves the debate is one the rules of the delegations    *)
(* know (WagerRules): the Authority's first ruling on a fresh wager, or    *)
(* what a pundit may make of it.                                           *)
DebateFollowsRules ==
  LET shape(w) == [id |-> rounds, status |-> w.status, proofRef |-> w.ref,
                   staked |-> Positive(w.stake)] IN
  ruling # <<>> =>
    /\ \E b \in BOOLEAN : shape(first) = Rules!Adjudicate(rounds, Ref, b)
    /\ shape(ruling) \in Rules!PunditRulings(shape(first))

(* A staked wager satisfies each of the proof guard's checks of its        *)
(* figures, so that the guard can fail it on its reference only, and its   *)
(* stake is within the cap.                                                *)
StakesAreSound ==
  ruling # <<>> /\ Positive(ruling.stake) =>
    FiguresHold(ruling) /\ AtMost(ruling.stake, [num |-> cap, den |-> 1])

(* Every round reaches its verdict, whatever TxLINE, the sidecar and the   *)
(* models answer, unless there comes one that waits for ever: for a        *)
(* sidecar to exit, or for a turn of a model.  A debate whose turns end    *)
(* does not go on.                                                         *)
RoundIsDecided ==
  \/ pc # "idle" ~> pc = "idle" /\ verdict # "none"
  \/ <>[](pc = "exiting")
  \/ <>[](pc \in {"propose", "react"}) /\ <>[][~DebateStep]_vars
=============================================================================
