------------------------------ MODULE WagerGate ------------------------------
(***************************************************************************)
(* What the desk promises about a wager, without sessions, messages or     *)
(* processes: a wager is proposed once per round; the guard may attest a   *)
(* proposed wager; a round's gate then closes, once, either on what the    *)
(* guard attested of that wager or on a veto; settlement rules on what the *)
(* gate closed on, vetoed or not, if a reference is attached; and a round  *)
(* reports "settled" only when settlement ruled so on its own wager.       *)
(* That a vetoed wager may be ruled "settled" is what the code does.       *)
(***************************************************************************)
EXTENDS WagerRules

CONSTANTS Rounds, NoWager

VARIABLES
  proposed,   \* per round: the wager proposed, or NoWager
  attested,   \* the guard's verdicts
  gate,       \* per round: what its gate closed on, or NoWager
  rulings,    \* settlement's verdicts, by wager id
  result      \* per round: "open", then "settled" or "not_settled"

gateVars == <<proposed, attested, gate, rulings, result>>

Init ==
  /\ proposed = [r \in Rounds |-> NoWager]
  /\ attested = {}
  /\ gate = [r \in Rounds |-> NoWager]
  /\ rulings = {}
  /\ result = [r \in Rounds |-> "open"]

Propose(r) ==
  /\ proposed[r] = NoWager /\ gate[r] = NoWager
  /\ \E w \in Wagers({r}) : proposed' = [proposed EXCEPT ![r] = w]
  /\ UNCHANGED <<attested, gate, rulings, result>>

Attest(r) ==
  /\ proposed[r] # NoWager
  /\ attested' = attested \cup {ProofGuardVerify(proposed[r])}
  /\ UNCHANGED <<proposed, gate, rulings, result>>

(* The gate closes on an attestation of this round's wager ... *)
Vouch(r) ==
  /\ gate[r] = NoWager
  /\ \E w \in attested : w.id = r /\ gate' = [gate EXCEPT ![r] = w]
  /\ UNCHANGED <<proposed, attested, rulings, result>>

(* ... or on a veto, without one. *)
Veto(r) ==
  /\ proposed[r] # NoWager /\ gate[r] = NoWager
  /\ gate' = [gate EXCEPT ![r] = FailClosed(proposed[r])]
  /\ UNCHANGED <<proposed, attested, rulings, result>>

(* Neither the desk nor settlement-agent looks for a pass of the gate. *)
Rule(r) ==
  /\ gate[r] # NoWager
  /\ gate[r].proofRef # "none"
  /\ rulings' = rulings \cup {[id |-> r, status |-> SettlementVerdict(gate[r])]}
  /\ UNCHANGED <<proposed, attested, gate, result>>

Report(r) ==
  /\ result[r] = "open"
  /\ \/ /\ [id |-> r, status |-> "settled"] \in rulings
        /\ result' = [result EXCEPT ![r] = "settled"]
     \/ result' = [result EXCEPT ![r] = "not_settled"]
  /\ UNCHANGED <<proposed, attested, gate, rulings>>

Next ==
  \E r \in Rounds :
    Propose(r) \/ Attest(r) \/ Vouch(r) \/ Veto(r) \/ Rule(r) \/ Report(r)

Spec == Init /\ [][Next]_gateVars
=============================================================================
