----------------------------- MODULE WagerRules -----------------------------
(***************************************************************************)
(* The rules every party applies to a wager, as operators on a wager       *)
(* reduced to what the parties' decisions depend on:                       *)
(*                                                                         *)
(*   id        the wager id: one fresh UUID per round, so it is the round  *)
(*   status    the WagerStatus values this code constructs                 *)
(*   proofRef  the attestation: absent, a well-shaped reference, or a      *)
(*             reference proof-guard's shape check refuses                 *)
(*   staked    the Authority found an edge above min_edge and a stake > 0  *)
(*                                                                         *)
(* An Authority ruling stakes a wager only with a positive edge, so        *)
(* "staked" stands for both figures wherever the code tests both.          *)
(***************************************************************************)

Statuses == {"Debated", "NoBet", "ProofPassed", "ProofFailed"}

ProofRefs == {"none", "wellShaped", "malformed"}

Wagers(Ids) ==
  [id : Ids, status : Statuses, proofRef : ProofRefs, staked : BOOLEAN]

(* The same bet: the two wagers may differ in their status only. *)
SameBet(v, w) ==
  v.id = w.id /\ v.proofRef = w.proofRef /\ v.staked = w.staked

(***************************************************************************)
(* authority::adjudicate.  hasValue is the outcome of the numeric tests:   *)
(* valid odds, model_prob in (0, 1), edge > min_edge, Kelly stake > 0.     *)
(***************************************************************************)
Adjudicate(id, ref, hasValue) ==
  [ id       |-> id,
    proofRef |-> ref,
    staked   |-> hasValue,
    status   |-> IF ~hasValue THEN "NoBet"
                 ELSE IF ref = "none" THEN "Debated" ELSE "ProofPassed" ]

Withdraw(w) == [w EXCEPT !.status = "NoBet", !.staked = FALSE]

(***************************************************************************)
(* pundit_agent::react_to_wager, run inside the desk: no reaction to a     *)
(* NoBet ruling; otherwise no verdict (the ruling stands), a nudge that is *)
(* adjudicated again, or the "no_bet" override.                            *)
(***************************************************************************)
PunditRulings(w) ==
  IF w.status = "NoBet"
  THEN {w}
  ELSE {w, Withdraw(w)} \cup {Adjudicate(w.id, w.proofRef, b) : b \in BOOLEAN}

(***************************************************************************)
(* agent_core::proof_guard::verify.  A wager that bets nothing passes      *)
(* through unchanged.  Of the five checks only the one on the reference    *)
(* can fail here: a staked wager comes from Adjudicate, which derived its  *)
(* edge, odds and stake from the same probabilities.                       *)
(***************************************************************************)
ProofGuardVerify(w) ==
  IF w.status = "NoBet" \/ ~w.staked
  THEN w
  ELSE [w EXCEPT !.status = IF w.proofRef = "wellShaped"
                            THEN "ProofPassed" ELSE "ProofFailed"]

(* Slip: a delegation that fails leaves the wager as the Authority ruled. *)
FailOpen(w) == w

(* wager_proof_delegation::fail_closed *)
FailClosed(w) == [w EXCEPT !.status = "ProofFailed"]

(* settlement-agent: SettlementSpecialist::handle and simulate_settlement *)
SettlementVerdict(w) ==
  IF w.proofRef # "none" /\ w.status # "NoBet" /\ w.staked
  THEN "settled" ELSE "rejected"

(* fan-pundit-agent: the stances its verdict may carry for this wager, any *)
(* other word of the model's included, and the wager it echoes back        *)
PunditStances(w) ==
  IF w.status = "NoBet" THEN {"endorse"}
  ELSE {"endorse", "challenge", "no_bet", "other"}

PunditEcho(w, stance) == IF stance = "no_bet" THEN Withdraw(w) ELSE w
=============================================================================
