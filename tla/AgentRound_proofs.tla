-------------------------- MODULE AgentRound_proofs --------------------------
(***************************************************************************)
(* AgentRound's safety, proved for every number of rounds, sessions,       *)
(* mentions and failures.                                                  *)
(***************************************************************************)
EXTENDS AgentRound, FiniteSetTheorems, TLAPS

-----------------------------------------------------------------------------
(* The inductive invariant                                                 *)

Early == {"idle", "ensuring", "proposing"}
Proving == {"proof_send", "proof_wait"}
HandingOff == {"handoff_send", "handoff_wait"}

(* What a round's position says of what it holds. *)
PcInv ==
  \A r \in Rounds :
    /\ pc[r] \in {"idle", "ensuring"} => live[r] = NoSession
    /\ pc[r] \in Early => wager[r] = NoWager
    /\ pc[r] \in Early \cup Proving => verified[r] = NoWager
    /\ pc[r] \in Proving => wager[r] # NoWager
    /\ pc[r] \in HandingOff /\ NeedsWager(r) => verified[r] # NoWager
    /\ pc[r] \notin {"publish", "done"} => outcome[r].status = "none"

(* A wager as the Authority leaves it: its own round's, and unstaked only  *)
(* as a no-bet.                                                            *)
Ruled(r, w) == w.id = r /\ (w.staked \/ w.status = "NoBet")

WagerInv ==
  \A r \in Rounds :
    /\ wager[r] # NoWager => Ruled(r, wager[r])
    /\ verified[r] # NoWager =>
         /\ wager[r] # NoWager
         /\ SameBet(verified[r], wager[r])

(* A message as its sender made it, from what its round held then and,     *)
(* since neither wager is ever replaced, holds now.                        *)
RequestOk(m) ==
  /\ m.agent = "proof_guard" =>
       wager[m.thread] # NoWager /\ m.wager = wager[m.thread]
  /\ m.agent \in {"settlement", "fan_pundit"} =>
       verified[m.thread] # NoWager /\ m.wager = verified[m.thread]

VerdictOk(m) ==
  /\ m.agent = "proof_guard" =>
       /\ wager[m.thread] # NoWager
       /\ m.wager = ProofGuardVerify(wager[m.thread])
       /\ m.status = "checked"
  /\ m.agent = "settlement" =>
       /\ verified[m.thread] # NoWager
       /\ m.wager = verified[m.thread]
       /\ m.status = SettlementVerdict(verified[m.thread])
  /\ m.agent = "trading" => m.status \in {"simulated", "declined"}
  /\ m.agent = "fan_pundit" => m.status \in Stances

LogInv ==
  \A m \in log :
    /\ m.session = live[m.thread]
    /\ m.kind = "request" => RequestOk(m)
    /\ m.kind = "verdict" => VerdictOk(m)

IInv ==
  /\ TypeOK
  /\ PcInv
  /\ WagerInv
  /\ LogInv
  /\ FailClosedGate
  /\ SettlementIsBacked

-----------------------------------------------------------------------------
(* The rules on wagers                                                     *)

(* The Authority's ruling is on the round's own wager, and unstaked only   *)
(* as a no-bet.                                                            *)
LEMMA AdjudicateRuled ==
  ASSUME NEW r \in Rounds, NEW ref \in ProofRefs, NEW b \in BOOLEAN
  PROVE  Adjudicate(r, ref, b) \in Wagers(Rounds) /\ Ruled(r, Adjudicate(r, ref, b))
<1>1. CASE b = FALSE
  BY <1>1 DEF Adjudicate, Wagers, ProofRefs, Statuses, Ruled
<1>2. CASE b = TRUE
  BY <1>2 DEF Adjudicate, Wagers, ProofRefs, Statuses, Ruled
<1> QED BY <1>1, <1>2

(* Whatever the pundit makes of a ruled wager, it stays a ruling on it. *)
LEMMA PunditRuled ==
  ASSUME NEW r \in Rounds, NEW w \in Wagers(Rounds), Ruled(r, w),
         NEW v \in PunditRulings(w)
  PROVE  v \in Wagers(Rounds) /\ Ruled(r, v)
<1>1. Withdraw(w) \in Wagers(Rounds) /\ Ruled(r, Withdraw(w))
  BY DEF Withdraw, Wagers, Statuses, Ruled
<1>2. \A b \in BOOLEAN : /\ Adjudicate(w.id, w.proofRef, b) \in Wagers(Rounds)
                         /\ Ruled(r, Adjudicate(w.id, w.proofRef, b))
  BY AdjudicateRuled DEF Wagers, Ruled
<1> QED BY <1>1, <1>2 DEF PunditRulings

(* Failing closed vetoes the bet and changes nothing else of it. *)
LEMMA FailClosedType ==
  ASSUME NEW w \in Wagers(Rounds)
  PROVE  /\ FailClosed(w) \in Wagers(Rounds)
         /\ FailClosed(w).status = "ProofFailed"
         /\ SameBet(FailClosed(w), w)
BY DEF FailClosed, SameBet, Wagers, Statuses

(* proof-guard changes nothing but the status, and lets a ruled wager pass *)
(* for ProofPassed only with a well-shaped reference.                      *)
LEMMA GuardVerdict ==
  ASSUME NEW r \in Rounds, NEW w \in Wagers(Rounds), Ruled(r, w)
  PROVE  /\ ProofGuardVerify(w) \in Wagers(Rounds)
         /\ ProofGuardVerify(w).id = r
         /\ SameBet(ProofGuardVerify(w), w)
         /\ ProofGuardVerify(w).status = "ProofPassed" =>
              ProofGuardVerify(w).proofRef = "wellShaped"
BY DEF ProofGuardVerify, SameBet, Wagers, Statuses, ProofRefs, Ruled

(* The pundit echoes a wager. *)
LEMMA EchoType ==
  ASSUME NEW w \in Wagers(Rounds), NEW st
  PROVE  PunditEcho(w, st) \in Wagers(Rounds)
BY DEF PunditEcho, Withdraw, Wagers, Statuses

(* settlement-agent settles staked and attested bets only. *)
LEMMA SettledMeans ==
  ASSUME NEW w \in Wagers(Rounds), SettlementVerdict(w) = "settled"
  PROVE  w.staked /\ w.proofRef # "none" /\ w.status # "NoBet"
BY DEF SettlementVerdict, Wagers

(* A mention is a message with the fields it was given. *)
LEMMA MentionType ==
  ASSUME NEW a \in Agents, NEW k \in {"request", "chatter"}, NEW s \in Sessions,
         NEW r \in Rounds, NEW w \in Wagers(Rounds) \cup {NoWager}
  PROVE  /\ Mention(a, k, s, r, w) \in Messages
         /\ Mention(a, k, s, r, w).agent = a
         /\ Mention(a, k, s, r, w).kind = k
         /\ Mention(a, k, s, r, w).session = s
         /\ Mention(a, k, s, r, w).thread = r
         /\ Mention(a, k, s, r, w).wager = w
BY DEF Mention, Messages

(* A specialist's answer stays in the thread and session it was asked in.  *)
LEMMA VerdictShape ==
  ASSUME NEW m \in Messages, NEW v \in Verdicts(m),
         m.agent # "trading" => m.wager \in Wagers(Rounds),
         NEW r \in Rounds, m.agent = "proof_guard" => Ruled(r, m.wager)
  PROVE  /\ v \in Messages
         /\ v.kind = "verdict" /\ v.agent = m.agent
         /\ v.session = m.session /\ v.thread = m.thread
         /\ m.agent = "proof_guard" =>
              v.wager = ProofGuardVerify(m.wager) /\ v.status = "checked"
         /\ m.agent = "settlement" =>
              v.wager = m.wager /\ v.status = SettlementVerdict(m.wager)
         /\ m.agent = "trading" => v.status \in {"simulated", "declined"}
         /\ m.agent = "fan_pundit" => v.status \in Stances
<1>1. CASE m.agent = "proof_guard"
  <2>1. ProofGuardVerify(m.wager) \in Wagers(Rounds)
    BY <1>1, GuardVerdict
  <2>2. v = VerdictOn(m, ProofGuardVerify(m.wager), "checked")
    BY <1>1 DEF Verdicts, ProofGuardAnswers
  <2> QED BY <1>1, <2>1, <2>2 DEF VerdictOn, Messages, VerdictStatuses
<1>2. CASE m.agent = "settlement"
  <2>1. v = VerdictOn(m, m.wager, SettlementVerdict(m.wager))
    BY <1>2 DEF Verdicts, SettlementAnswers
  <2>2. SettlementVerdict(m.wager) \in VerdictStatuses
    BY DEF SettlementVerdict, VerdictStatuses
  <2> QED BY <1>2, <2>1, <2>2 DEF VerdictOn, Messages
<1>3. CASE m.agent = "trading"
  <2>1. PICK st \in {"simulated", "declined"} : v = VerdictOn(m, NoWager, st)
    BY <1>3 DEF Verdicts, TradingAnswers
  <2>2. st \in VerdictStatuses
    BY DEF VerdictStatuses
  <2> QED BY <1>3, <2>1, <2>2 DEF VerdictOn, Messages
<1>4. CASE m.agent = "fan_pundit"
  <2>1. PICK st \in PunditStances(m.wager) : v = VerdictOn(m, PunditEcho(m.wager, st), st)
    BY <1>4 DEF Verdicts, PunditAnswers
  <2>2. st \in Stances
    BY DEF PunditStances, Stances
  <2>3. PunditEcho(m.wager, st) \in Wagers(Rounds)
    BY <1>4, EchoType
  <2> QED BY <1>4, <2>1, <2>2, <2>3 DEF VerdictOn, Messages, VerdictStatuses
<1> QED BY <1>1, <1>2, <1>3, <1>4 DEF Messages, Agents

-----------------------------------------------------------------------------
(* The invariant holds initially and is kept                               *)

(* Nothing has been posted, proposed or reported when the desk starts. *)
LEMMA InitInv == Init => IInv
<1> SUFFICES ASSUME Init PROVE IInv
  OBVIOUS
<1>1. TypeOK
  BY SessionAssumption, ParameterAssumption
  DEF Init, TypeOK, Pcs, OutcomeStatuses, Messages
<1>2. PcInv
  BY DEF Init, PcInv, Early, Proving, HandingOff
<1>3. WagerInv /\ LogInv /\ FailClosedGate /\ SettlementIsBacked
  BY DEF Init, WagerInv, LogInv, FailClosedGate, SettlementIsBacked
<1> QED BY <1>1, <1>2, <1>3 DEF IInv

(* A step that posts nothing and settles nothing about a wager. *)
LEMMA QuietStep ==
  ASSUME IInv, TypeOK', PcInv',
         UNCHANGED <<live, wager, verified, outcome, log>>
  PROVE  IInv'
<1>1. WagerInv'
  BY DEF IInv, WagerInv, Ruled, SameBet
<1>2. LogInv'
  BY DEF IInv, LogInv, RequestOk, VerdictOk
<1>3. FailClosedGate' /\ SettlementIsBacked'
  BY DEF IInv, FailClosedGate, SettlementIsBacked, VerdictsFor
<1> QED BY <1>1, <1>2, <1>3 DEF IInv

(* A round's own delegation joins the log. *)
LEMMA PostRequest ==
  ASSUME IInv, NEW r \in Rounds, NEW m \in Messages,
         m.kind = "request", m.thread = r, m.session = live[r], RequestOk(m),
         log' = log \cup {m}, live' = live,
         wager' = wager, verified' = verified
  PROVE  LogInv'
BY DEF IInv, LogInv, RequestOk, VerdictOk

(* A round asks proof-guard about its own proposal, in its own thread      *)
(* and session.                                                            *)
LEMMA ProofRequestOk ==
  ASSUME IInv, NEW r \in Rounds, pc[r] = "proof_send", live[r] \in up
  PROVE  /\ ProofRequest(r) \in Messages
         /\ ProofRequest(r).kind = "request"
         /\ ProofRequest(r).agent = "proof_guard"
         /\ ProofRequest(r).thread = r
         /\ ProofRequest(r).session = live[r]
         /\ RequestOk(ProofRequest(r))
<1>1. wager[r] # NoWager /\ wager[r] \in Wagers(Rounds) /\ live[r] \in Sessions
  BY DEF IInv, TypeOK, PcInv, Proving
<1> QED BY <1>1, MentionType DEF ProofRequest, Agents, RequestOk

(* A round delegates its verified wager, in its own thread and session. *)
LEMMA HandoffRequestOk ==
  ASSUME IInv, NEW r \in Rounds, pc[r] = "handoff_send", live[r] \in up
  PROVE  /\ HandoffRequest(r) \in Messages
         /\ HandoffRequest(r).kind = "request"
         /\ HandoffRequest(r).agent = Specialist(track[r])
         /\ HandoffRequest(r).thread = r
         /\ HandoffRequest(r).session = live[r]
         /\ RequestOk(HandoffRequest(r))
<1>1. live[r] \in Sessions /\ track[r] \in Tracks
  BY ParameterAssumption DEF IInv, TypeOK
<1>2. NeedsWager(r) => verified[r] # NoWager /\ verified[r] \in Wagers(Rounds)
  BY DEF IInv, TypeOK, PcInv, HandingOff
<1>3. Specialist(track[r]) \in Agents \ {"proof_guard"}
  BY <1>1 DEF Specialist, Tracks, Agents
<1>4. Specialist(track[r]) \in {"settlement", "fan_pundit"} => NeedsWager(r)
  BY <1>1 DEF Specialist, Tracks, NeedsWager
<1> QED BY <1>1, <1>2, <1>3, <1>4, MentionType DEF HandoffRequest, RequestOk

(* Starting a round touches its place and its copy of the session id       *)
(* only.                                                                   *)
LEMMA BeginRoundInv ==
  ASSUME IInv, NEW r \in Rounds, BeginRound(r)
  PROVE  IInv'
<1> USE DEF BeginRound, At, Goto, roundVars, serverVars, config, agentVars,
            deskVars
<1>1. TypeOK'
  BY ParameterAssumption DEF IInv, TypeOK, Pcs
<1>2. PcInv'
  BY DEF IInv, PcInv, TypeOK, Early, Proving, HandingOff, NeedsWager
<1> QED BY <1>1, <1>2, QuietStep

(* A round without a session goes on; what it clears, no message refers    *)
(* to.                                                                     *)
LEMMA EnsureFailedInv ==
  ASSUME IInv, NEW r \in Rounds, EnsureFailed(r)
  PROVE  IInv'
<1> USE DEF EnsureFailed, At, Goto, roundVars, serverVars, config, agentVars,
            deskVars, SessionRefused, Fresh, NoFault, Fault
<1>1. TypeOK'
  BY ParameterAssumption DEF IInv, TypeOK, Pcs
<1>2. PcInv'
  BY DEF IInv, PcInv, TypeOK, Early, Proving, HandingOff, NeedsWager
<1> QED BY <1>1, <1>2, QuietStep

(* A round gets its session before it has posted anything. *)
LEMMA EnsureOkInv ==
  ASSUME IInv, NEW r \in Rounds, EnsureOk(r)
  PROVE  IInv'
<1> USE DEF IInv, EnsureOk, At, Goto, roundVars, serverVars, config, agentVars,
            SessionOpened
<1>1. TypeOK'
  BY SessionAssumption DEF TypeOK, Pcs, Fresh
<1>2. PcInv'
  BY DEF PcInv, TypeOK, Early, Proving, HandingOff, NeedsWager
<1>3. WagerInv'
  BY DEF WagerInv, Ruled, SameBet
<1>4. LogInv'
  BY SessionAssumption DEF LogInv, RequestOk, VerdictOk, PcInv, TypeOK, Messages
<1>5. FailClosedGate' /\ SettlementIsBacked'
  BY DEF FailClosedGate, SettlementIsBacked, VerdictsFor, PcInv, TypeOK, Early, Proving
<1> QED BY <1>1, <1>2, <1>3, <1>4, <1>5

(* Nothing is in a round's thread before the round has a session. *)
LEMMA LazyEnsureOkInv ==
  ASSUME IInv, NEW r \in Rounds, LazyEnsureOk(r)
  PROVE  IInv'
<1> USE DEF IInv, LazyEnsureOk, NeedsSession, roundVars, serverVars, config,
            agentVars, SessionOpened
<1>1. TypeOK'
  BY SessionAssumption DEF TypeOK, Pcs, Fresh
<1>2. PcInv'
  BY DEF PcInv, TypeOK, Early, Proving, HandingOff, NeedsWager
<1>3. WagerInv'
  BY DEF WagerInv, Ruled, SameBet
<1>4. \A m \in log : m.thread # r
  BY SessionAssumption DEF LogInv, TypeOK, Messages
<1>5. LogInv'
  BY <1>4 DEF LogInv, RequestOk, VerdictOk, TypeOK, Messages
<1>6. FailClosedGate' /\ SettlementIsBacked'
  BY <1>4 DEF FailClosedGate, SettlementIsBacked, VerdictsFor, TypeOK
<1> QED BY <1>1, <1>2, <1>3, <1>5, <1>6

(* A round without a ruling has no wager to verify. *)
LEMMA NoRulingInv ==
  ASSUME IInv, NEW r \in Rounds, NoRuling(r)
  PROVE  IInv'
<1> USE DEF NoRuling, At, Goto, roundVars, serverVars, config, agentVars,
            deskVars
<1>1. TypeOK'
  BY ParameterAssumption DEF IInv, TypeOK, Pcs
<1>2. PcInv'
  BY DEF IInv, PcInv, TypeOK, Early, Proving, HandingOff, NeedsWager
<1> QED BY <1>1, <1>2, QuietStep

(* A round proposes before it has asked anybody. *)
LEMMA ProposeInv ==
  ASSUME IInv, NEW r \in Rounds, Propose(r)
  PROVE  IInv'
<1> USE DEF IInv, Propose, At, Goto, serverVars, config, agentVars
<1>1. PICK w \in Wagers(Rounds) :
        Ruled(r, w) /\ wager' = [wager EXCEPT ![r] = w]
  <2>1. PICK p \in Proposals(r) : \E w \in PunditRulings(p) :
          wager' = [wager EXCEPT ![r] = w]
    OBVIOUS
  <2>2. p \in Wagers(Rounds) /\ Ruled(r, p)
    BY <2>1, AdjudicateRuled, ParameterAssumption DEF Proposals
  <2> QED BY <2>1, <2>2, PunditRuled
<1>2. wager[r] = NoWager /\ verified[r] = NoWager /\ w # NoWager
  BY WagerAssumption DEF PcInv, Early
<1>3. TypeOK'
  BY <1>1 DEF TypeOK, Pcs
<1>4. PcInv'
  BY <1>1, <1>2 DEF PcInv, TypeOK, Early, Proving, HandingOff, NeedsWager
<1>5. WagerInv'
  BY <1>1, <1>2 DEF WagerInv, Ruled, SameBet, TypeOK
<1>6. LogInv'
  BY <1>1, <1>2 DEF LogInv, RequestOk, VerdictOk, TypeOK
<1>7. FailClosedGate' /\ SettlementIsBacked'
  BY DEF FailClosedGate, SettlementIsBacked, VerdictsFor
<1> QED BY <1>3, <1>4, <1>5, <1>6, <1>7

(* The gate closes on what is, or is not, attested of the round's wager;   *)
(* nothing in the log depended on the round's verified wager before.       *)
LEMMA CloseProofStep ==
  ASSUME IInv, NEW r \in Rounds, NEW w \in Wagers(Rounds),
         pc[r] \in Proving, CloseProof(r, w), TypeOK',
         SameBet(w, wager[r]),
         \/ log' = log
         \/ log' = log \cup {ProofRequest(r)} /\ pc[r] = "proof_send" /\ live[r] \in up,
         w.status = "ProofPassed" =>
           /\ w.proofRef = "wellShaped"
           /\ \E m \in VerdictsFor(r, "proof_guard") :
                m.session = live[r] /\ m.wager = w
  PROVE  IInv'
<1> USE DEF IInv, CloseProof, Goto, roundVars, serverVars, config, agentVars
<1>1. w # NoWager /\ wager[r] # NoWager /\ verified[r] = NoWager
      /\ outcome[r].status = "none"
  BY WagerAssumption DEF PcInv, Proving
<1>2. PcInv'
  BY <1>1 DEF PcInv, TypeOK, Early, Proving, HandingOff, NeedsWager
<1>3. WagerInv'
  BY <1>1 DEF WagerInv, Ruled, SameBet, TypeOK
<1>4. LogInv'
  <2>1. /\ LogInv /\ log \subseteq Messages
        /\ verified \in [Rounds -> Wagers(Rounds) \cup {NoWager}]
        /\ verified' = [verified EXCEPT ![r] = w]
        /\ live' = live /\ wager' = wager
    BY DEF TypeOK
  <2>2. ASSUME NEW q \in log', q \notin log
        PROVE  /\ q.kind = "request" /\ q.session = live[q.thread]
               /\ q.agent = "proof_guard" /\ RequestOk(q)
    BY <2>2, ProofRequestOk
  <2>3. ASSUME NEW q \in log', q \notin log
        PROVE  q.kind = "request" /\ q.session = live'[q.thread] /\ RequestOk(q)'
    BY <2>1, <2>2, <2>3 DEF RequestOk
  <2>4. SUFFICES ASSUME NEW q \in log'
                 PROVE  /\ q.session = live'[q.thread]
                        /\ q.kind = "request" => RequestOk(q)'
                        /\ q.kind = "verdict" => VerdictOk(q)'
    BY DEF LogInv
  <2>5. CASE q \in log
    BY <1>1, <2>1, <2>5 DEF LogInv, RequestOk, VerdictOk
  <2>6. CASE q \notin log
    BY <2>3, <2>6
  <2> QED BY <2>5, <2>6
<1>5. log \subseteq log'
  OBVIOUS
<1>6. FailClosedGate'
  BY <1>1, <1>5 DEF FailClosedGate, VerdictsFor, TypeOK
<1>7. SettlementIsBacked'
  BY <1>1, <1>5 DEF SettlementIsBacked, VerdictsFor, TypeOK
<1> QED BY <1>2, <1>3, <1>4, <1>6, <1>7

(* Every failure to hear from proof-guard closes the gate on a veto. *)
LEMMA VetoStep ==
  ASSUME IInv, NEW r \in Rounds, pc[r] \in Proving,
         CloseProof(r, FailClosed(wager[r])), TypeOK',
         \/ log' = log
         \/ log' = log \cup {ProofRequest(r)} /\ pc[r] = "proof_send" /\ live[r] \in up
  PROVE  IInv'
<1>1. wager[r] \in Wagers(Rounds)
  BY DEF IInv, PcInv, TypeOK
<1> QED BY <1>1, FailClosedType, CloseProofStep

(* A round before its gate has a wager, to fail closed on. *)
LEMMA ProofClosedType ==
  ASSUME IInv, NEW r \in Rounds, pc[r] \in Proving
  PROVE  wager[r] \in Wagers(Rounds) /\ FailClosed(wager[r]) \in Wagers(Rounds)
BY FailClosedType DEF IInv, PcInv, TypeOK

(* With no session to ask in, the gate fails closed. *)
LEMMA ProofUnavailableInv ==
  ASSUME IInv, NEW r \in Rounds, ProofUnavailable(r)
  PROVE  IInv'
<1> USE DEF ProofUnavailable, At, Proving
<1>1. TypeOK'
  BY ParameterAssumption, ProofClosedType
  DEF IInv, TypeOK, Pcs, CloseProof, Goto, SessionRefused, Fresh, Fault, NoFault,
      serverVars, config, agentVars
<1> QED BY <1>1, VetoStep

(* The delegation to proof-guard is posted. *)
LEMMA SendProofInv ==
  ASSUME IInv, NEW r \in Rounds, SendProof(r)
  PROVE  IInv'
<1> USE DEF IInv, SendProof, At, Goto, roundVars, serverVars, config,
            agentVars, Post
<1>1. TypeOK'
  BY ProofRequestOk DEF TypeOK, Pcs
<1>2. PcInv'
  BY DEF PcInv, TypeOK, Early, Proving, HandingOff, NeedsWager
<1>3. WagerInv'
  BY DEF WagerInv, Ruled, SameBet
<1>4. LogInv'
  BY ProofRequestOk, PostRequest
<1>5. FailClosedGate' /\ SettlementIsBacked'
  BY DEF FailClosedGate, SettlementIsBacked, VerdictsFor
<1> QED BY <1>1, <1>2, <1>3, <1>4, <1>5

(* The delegation fails, posted or not: the gate fails closed. *)
LEMMA SendProofFailedInv ==
  ASSUME IInv, NEW r \in Rounds, SendProofFailed(r)
  PROVE  IInv'
<1> USE DEF SendProofFailed, At, Post, Proving
<1>1. TypeOK'
  BY ParameterAssumption, ProofClosedType, ProofRequestOk
  DEF IInv, TypeOK, Pcs, CloseProof, Goto, Fault, NoFault, serverVars, config, agentVars
<1> QED BY <1>1, VetoStep

(* The accepted verdict has the round's id, so it answers the round's      *)
(* own request: LogInv leads from the id to the thread.                    *)
LEMMA AcceptProofVerdictInv ==
  ASSUME IInv, NEW r \in Rounds, AcceptProofVerdict(r)
  PROVE  IInv'
<1> USE DEF AcceptProofVerdict, At
<1>1. PICK m \in Replies(r, "proof_guard") : CloseProof(r, m.wager)
  OBVIOUS
<1>2. /\ m \in log /\ m \in Messages /\ m.kind = "verdict"
      /\ m.agent = "proof_guard" /\ m.session = live[r] /\ m.wager.id = r
  BY DEF Replies, IInv, TypeOK
<1>3. m.thread \in Rounds /\ VerdictOk(m)
  BY <1>2 DEF IInv, LogInv, Messages
<1>4. /\ wager[m.thread] \in Wagers(Rounds)
      /\ Ruled(m.thread, wager[m.thread])
      /\ m.wager = ProofGuardVerify(wager[m.thread])
  BY <1>2, <1>3 DEF VerdictOk, IInv, TypeOK, WagerInv
<1>5. m.thread = r
  BY <1>2, <1>3, <1>4, GuardVerdict
<1>6. m \in VerdictsFor(r, "proof_guard")
  BY <1>2, <1>5 DEF VerdictsFor
<1>7. /\ m.wager \in Wagers(Rounds)
      /\ SameBet(m.wager, wager[r])
      /\ m.wager.status = "ProofPassed" => m.wager.proofRef = "wellShaped"
  BY <1>3, <1>4, <1>5, GuardVerdict
<1>8. TypeOK'
  BY <1>1, <1>7
  DEF IInv, TypeOK, Pcs, CloseProof, Goto, serverVars, config, agentVars
<1>9. pc[r] \in Proving /\ log' = log
  BY DEF Proving
<1> HIDE DEF AcceptProofVerdict
<1> QED BY <1>1, <1>2, <1>6, <1>7, <1>8, <1>9, CloseProofStep

(* No verdict in time: the gate fails closed. *)
LEMMA ProofTimeoutInv ==
  ASSUME IInv, NEW r \in Rounds, ProofTimeout(r)
  PROVE  IInv'
<1> USE DEF ProofTimeout, At, Proving
<1>1. TypeOK'
  BY ParameterAssumption, ProofClosedType
  DEF IInv, TypeOK, Pcs, CloseProof, Goto, Fault, NoFault, serverVars, config, agentVars
<1> QED BY <1>1, VetoStep

(* A round without a signal goes to its transcript. *)
LEMMA NoSignalInv ==
  ASSUME IInv, NEW r \in Rounds, NoSignal(r)
  PROVE  IInv'
<1> USE DEF NoSignal, At, Goto, roundVars, serverVars, config, agentVars,
            deskVars
<1>1. TypeOK'
  BY ParameterAssumption DEF IInv, TypeOK, Pcs
<1>2. PcInv'
  BY DEF IInv, PcInv, TypeOK, Early, Proving, HandingOff, NeedsWager
<1> QED BY <1>1, <1>2, QuietStep

(* The round's outcome is set, once, when it moves on to publish. *)
LEMMA OutcomeStep ==
  ASSUME IInv, NEW r \in Rounds, NEW st \in OutcomeStatuses, NEW th \in Rounds,
         outcome' = [outcome EXCEPT ![r] = [status |-> st, thread |-> th]],
         UNCHANGED <<live, wager, verified>>,
         TypeOK', PcInv', LogInv', log \subseteq log',
         st = "settled" =>
           /\ verified[r].staked
           /\ verified[r].proofRef # "none"
           /\ verified[r].status # "NoBet"
           /\ \E m \in VerdictsFor(r, "settlement") :
                m.status = "settled" /\ m.wager = verified[r]
  PROVE  IInv'
<1>1. WagerInv'
  BY DEF IInv, WagerInv, Ruled, SameBet
<1>2. FailClosedGate'
  BY DEF IInv, FailClosedGate, VerdictsFor
<1>3. SettlementIsBacked'
  BY DEF IInv, SettlementIsBacked, VerdictsFor, TypeOK
<1> QED BY <1>1, <1>2, <1>3 DEF IInv

(* A reported outcome has its type. *)
LEMMA OutcomeType ==
  ASSUME IInv, NEW r \in Rounds, NEW st \in OutcomeStatuses, NEW th \in Rounds
  PROVE  [outcome EXCEPT ![r] = [status |-> st, thread |-> th]]
           \in [Rounds -> [status : OutcomeStatuses, thread : Rounds]]
BY DEF IInv, TypeOK

(* Every status a specialist or the desk reports is one the type lists. *)
LEMMA OutcomesKnown ==
  /\ {"none", "skipped", "unreachable"} \subseteq OutcomeStatuses
  /\ {"settled", "rejected", "simulated", "declined"} \subseteq OutcomeStatuses
  /\ Stances \subseteq OutcomeStatuses
BY DEF OutcomeStatuses, VerdictStatuses, Stances

(* The end of a handoff respects what is set at each place. *)
LEMMA CloseHandoffPc ==
  ASSUME IInv, NEW r \in Rounds, NEW st, NEW th,
         pc[r] \in HandingOff, CloseHandoff(r, st, th)
  PROVE  PcInv'
BY DEF IInv, CloseHandoff, Goto, config, PcInv, TypeOK, Early, Proving, HandingOff,
       NeedsWager

(* The decision sends the round to a handoff, or reports a refusal. *)
LEMMA DecideInv ==
  ASSUME IInv, NEW r \in Rounds, Decide(r)
  PROVE  IInv'
<1> USE DEF Decide, At, Goto, serverVars, config, agentVars
<1>1. HandoffRefusal(r) \in {"none", "skipped", "unreachable"}
      /\ HandoffRefusal(r) # "settled"
  BY DEF HandoffRefusal
<1>2. TypeOK'
  <2>1. outcome' \in [Rounds -> [status : OutcomeStatuses, thread : Rounds]]
    BY <1>1, OutcomeType, OutcomesKnown DEF IInv, TypeOK
  <2> QED BY <2>1 DEF IInv, TypeOK, Pcs
<1>3. HandoffRefusal(r) = "none" /\ NeedsWager(r) => verified[r] # NoWager
  BY DEF HandoffRefusal
<1>4. PcInv'
  BY <1>1, <1>3
  DEF IInv, PcInv, TypeOK, Early, Proving, HandingOff, NeedsWager
<1>5. CASE HandoffRefusal(r) = "none"
  BY <1>2, <1>4, <1>5, QuietStep
<1>6. CASE HandoffRefusal(r) # "none"
  <2>1. LogInv'
    BY DEF IInv, LogInv, RequestOk, VerdictOk
  <2> QED BY <1>1, <1>2, <1>4, <1>6, <2>1, OutcomesKnown, OutcomeStep
<1> QED BY <1>5, <1>6

(* With no session to delegate in, the handoff ends unreachable. *)
LEMMA HandoffUnavailableInv ==
  ASSUME IInv, NEW r \in Rounds, HandoffUnavailable(r)
  PROVE  IInv'
<1> USE DEF HandoffUnavailable, At, CloseHandoff, Goto, serverVars, config,
            agentVars
<1>1. TypeOK'
  <2>1. outcome' \in [Rounds -> [status : OutcomeStatuses, thread : Rounds]]
    BY OutcomeType, OutcomesKnown
  <2> QED BY <2>1, ParameterAssumption
      DEF IInv, TypeOK, Pcs, SessionRefused, Fresh, Fault, NoFault
<1>2. PcInv'
  BY DEF IInv, PcInv, TypeOK, Early, Proving, HandingOff, NeedsWager
<1>3. LogInv'
  BY DEF IInv, LogInv, RequestOk, VerdictOk
<1> QED BY <1>1, <1>2, <1>3, OutcomeStep, OutcomesKnown

(* The delegation to the specialist is posted. *)
LEMMA SendHandoffInv ==
  ASSUME IInv, NEW r \in Rounds, SendHandoff(r)
  PROVE  IInv'
<1> USE DEF IInv, SendHandoff, At, Goto, roundVars, serverVars, config,
            agentVars, Post
<1>1. TypeOK'
  BY HandoffRequestOk DEF TypeOK, Pcs
<1>2. PcInv'
  BY DEF PcInv, TypeOK, Early, Proving, HandingOff, NeedsWager
<1>3. WagerInv'
  BY DEF WagerInv, Ruled, SameBet
<1>4. LogInv'
  BY HandoffRequestOk, PostRequest
<1>5. FailClosedGate' /\ SettlementIsBacked'
  BY DEF FailClosedGate, SettlementIsBacked, VerdictsFor
<1> QED BY <1>1, <1>2, <1>3, <1>4, <1>5

(* The delegation fails, posted or not: no settlement is claimed. *)
LEMMA SendHandoffFailedInv ==
  ASSUME IInv, NEW r \in Rounds, SendHandoffFailed(r)
  PROVE  IInv'
<1> USE DEF SendHandoffFailed, At, CloseHandoff, Goto, serverVars, config,
            agentVars, Post
<1>1. TypeOK'
  <2>1. outcome' \in [Rounds -> [status : OutcomeStatuses, thread : Rounds]]
    BY OutcomeType, OutcomesKnown
  <2> QED BY <2>1, ParameterAssumption, HandoffRequestOk
      DEF IInv, TypeOK, Pcs, Fault, NoFault
<1>2. PcInv'
  BY DEF IInv, PcInv, TypeOK, Early, Proving, HandingOff, NeedsWager
<1>3. LogInv'
  <2>1. CASE log' = log
    BY <2>1 DEF IInv, LogInv, RequestOk, VerdictOk
  <2>2. CASE log' # log
    BY <2>2, HandoffRequestOk, PostRequest
  <2> QED BY <2>1, <2>2
<1>4. log \subseteq log'
  OBVIOUS
<1> QED BY <1>1, <1>2, <1>3, <1>4, OutcomeStep, OutcomesKnown

(* What a verdict may say depends on who gave it; only settlement-agent    *)
(* says "settled", and then of the round's own verified wager.             *)
LEMMA AcceptHandoffInv ==
  ASSUME IInv, NEW r \in Rounds, AcceptHandoff(r)
  PROVE  IInv'
<1> USE DEF AcceptHandoff, At
<1>1. PICK m \in Replies(r, Specialist(track[r])) :
        CloseHandoff(r, m.status, m.thread)
  OBVIOUS
<1>2. /\ m \in log /\ m \in Messages /\ m.kind = "verdict"
      /\ m.agent = Specialist(track[r]) /\ m.thread \in Rounds /\ VerdictOk(m)
      /\ m.agent = "trading" \/ m.wager.id = r
  BY DEF Replies, IInv, TypeOK, LogInv, Messages
<1>3. m.agent \in {"settlement", "trading", "fan_pundit"}
  BY <1>2, ParameterAssumption DEF IInv, TypeOK, Tracks, Specialist
<1>4. m.agent = "settlement" =>
        /\ m.thread = r
        /\ m.wager = verified[r]
        /\ verified[r] \in Wagers(Rounds)
        /\ m.status = SettlementVerdict(verified[r])
  <2>1. SUFFICES ASSUME m.agent = "settlement"
                 PROVE  /\ m.thread = r
                        /\ m.wager = verified[r]
                        /\ verified[r] \in Wagers(Rounds)
                        /\ m.status = SettlementVerdict(verified[r])
    OBVIOUS
  <2>2. /\ verified[m.thread] # NoWager /\ m.wager = verified[m.thread]
        /\ m.status = SettlementVerdict(verified[m.thread])
        /\ m.wager.id = r
    BY <1>2, <2>1 DEF VerdictOk
  <2>3. verified[m.thread].id = m.thread
    BY <1>2, <2>2 DEF IInv, WagerInv, Ruled, SameBet
  <2> QED BY <1>2, <2>2, <2>3 DEF IInv, TypeOK
<1>5. m.status \in OutcomeStatuses
  BY <1>2, <1>3, <1>4, OutcomesKnown DEF VerdictOk, SettlementVerdict
<1>6. m.status = "settled" => m.agent = "settlement"
  BY <1>2, <1>3 DEF VerdictOk, Stances
<1>7. m.status = "settled" =>
        /\ verified[r].staked
        /\ verified[r].proofRef # "none"
        /\ verified[r].status # "NoBet"
        /\ \E v \in VerdictsFor(r, "settlement") :
             v.status = "settled" /\ v.wager = verified[r]
  BY <1>2, <1>4, <1>6, SettledMeans DEF VerdictsFor
<1>8. TypeOK'
  BY <1>1, <1>2, <1>5, OutcomeType
  DEF IInv, TypeOK, Pcs, CloseHandoff, Goto, serverVars, config, agentVars
<1>9. PcInv'
  BY <1>1, CloseHandoffPc DEF HandingOff
<1>10. LogInv'
  BY <1>1 DEF IInv, CloseHandoff, LogInv, RequestOk, VerdictOk
<1> QED
  BY <1>1, <1>2, <1>5, <1>7, <1>8, <1>9, <1>10, OutcomeStep DEF CloseHandoff

(* No verdict in time: no settlement is claimed. *)
LEMMA HandoffTimeoutInv ==
  ASSUME IInv, NEW r \in Rounds, HandoffTimeout(r)
  PROVE  IInv'
<1> USE DEF HandoffTimeout, At, CloseHandoff, Goto, serverVars, config,
            agentVars
<1>1. TypeOK'
  <2>1. outcome' \in [Rounds -> [status : OutcomeStatuses, thread : Rounds]]
    BY OutcomeType, OutcomesKnown
  <2> QED BY <2>1, ParameterAssumption
      DEF IInv, TypeOK, Pcs, Fault, NoFault
<1>2. PcInv'
  BY DEF IInv, PcInv, TypeOK, Early, Proving, HandingOff, NeedsWager
<1>3. LogInv'
  BY DEF IInv, LogInv, RequestOk, VerdictOk
<1> QED BY <1>1, <1>2, <1>3, OutcomeStep, OutcomesKnown

(* A transcript that reaches nobody ends the round. *)
LEMMA PublishUnavailableInv ==
  ASSUME IInv, NEW r \in Rounds, PublishUnavailable(r)
  PROVE  IInv'
<1> USE DEF PublishUnavailable, At, Goto, roundVars, serverVars, config,
            agentVars, deskVars, SessionRefused, Fresh, Fault, NoFault
<1>1. TypeOK'
  BY ParameterAssumption DEF IInv, TypeOK, Pcs
<1>2. PcInv'
  BY DEF IInv, PcInv, TypeOK, Early, Proving, HandingOff, NeedsWager
<1> QED BY <1>1, <1>2, QuietStep

(* The transcript posted so far: mentions in the round's own thread. *)
LEMMA TranscriptIsChatter ==
  ASSUME NEW r \in Rounds, NEW M \in MentionedSoFar(r)
  PROVE  \A m \in M : m.kind = "chatter" /\ m.thread = r /\ m.session = live[r]
BY DEF MentionedSoFar, Mentioned, ProofMentions, Chatter, Mention

(* They are messages. *)
LEMMA TranscriptType ==
  ASSUME IInv, NEW r \in Rounds, NEW M \in MentionedSoFar(r),
         M = {} \/ live[r] \in Sessions
  PROVE  M \subseteq Messages
<1>1. /\ wager[r] \in Wagers(Rounds) \cup {NoWager}
      /\ track[r] \in Tracks
  BY ParameterAssumption DEF IInv, TypeOK
<1>2. Specialist(track[r]) \in Agents /\ "proof_guard" \in Agents
  BY <1>1 DEF Tracks, Specialist, Agents
<1>3. CASE live[r] \in Sessions
  <2>1. ASSUME NEW a \in Agents, NEW w \in Wagers(Rounds) \cup {NoWager}
        PROVE  Chatter(r, a, w) \in Messages
    BY <1>3, MentionType DEF Chatter
  <2>2. ProofMentions(r) \subseteq Messages
    BY <1>1, <1>2, <2>1 DEF ProofMentions
  <2>3. Mentioned(r) \subseteq Messages
    BY <1>2, <2>1, <2>2 DEF Mentioned
  <2>4. Chatter(r, "proof_guard", NoWager) \in Messages
    BY <1>2, <2>1
  <2> QED BY <2>2, <2>3, <2>4 DEF MentionedSoFar
<1> QED BY <1>3

(* What publishing posts. *)
LEMMA TranscriptPosted ==
  ASSUME NEW r \in Rounds, Publish(r)
  PROVE  \E M \in MentionedSoFar(r) :
           /\ log' = log \cup M /\ unseen' = unseen \cup M
           /\ M = {} \/ live[r] \in up
<1>1. {} \in MentionedSoFar(r) /\ Mentioned(r) \in MentionedSoFar(r)
  BY DEF MentionedSoFar
<1>2. CASE live[r] \in up /\ Post(Mentioned(r))
  BY <1>1, <1>2 DEF Post
<1>3. CASE UNCHANGED <<log, unseen>>
  <2>1. log' = log \cup {} /\ unseen' = unseen \cup {}
    BY <1>3
  <2> QED BY <1>1, <2>1
<1>4. CASE live[r] \in up /\ \E M \in MentionedSoFar(r) : Post(M)
  BY <1>4 DEF Post
<1> QED BY <1>2, <1>3, <1>4 DEF Publish

(* The transcript is neither a delegation nor a verdict. *)
LEMMA PublishInv ==
  ASSUME IInv, NEW r \in Rounds, Publish(r)
  PROVE  IInv'
<1> USE DEF Publish, At, Goto, roundVars, serverVars, config, agentVars, Post
<1>1. PICK M \in MentionedSoFar(r) :
        /\ log' = log \cup M /\ unseen' = unseen \cup M
        /\ M = {} \/ live[r] \in Sessions
  <2>1. live[r] \in up => live[r] \in Sessions
    BY DEF IInv, TypeOK
  <2> QED BY <2>1, TranscriptPosted
<1>2. \A q \in log' \ log : /\ q \in Messages /\ q.kind = "chatter"
                          /\ q.thread = r /\ q.session = live[r]
  <2>1. \A q \in M : q.kind = "chatter" /\ q.thread = r /\ q.session = live[r]
    BY TranscriptIsChatter
  <2>2. M \subseteq Messages
    BY <1>1, TranscriptType
  <2> QED BY <1>1, <2>1, <2>2
<1>3. log \subseteq log' /\ unseen' \subseteq log'
  BY <1>1 DEF IInv, TypeOK
<1>4. TypeOK'
  BY <1>2, <1>3, ParameterAssumption DEF IInv, TypeOK, Pcs, Fault, NoFault
<1>5. PcInv'
  BY DEF IInv, PcInv, TypeOK, Early, Proving, HandingOff, NeedsWager
<1>6. WagerInv'
  BY DEF IInv, WagerInv, Ruled, SameBet
<1>7. LogInv'
  BY <1>2 DEF IInv, LogInv, RequestOk, VerdictOk
<1>8. FailClosedGate' /\ SettlementIsBacked'
  BY <1>3 DEF IInv, FailClosedGate, SettlementIsBacked, VerdictsFor
<1> QED BY <1>4, <1>5, <1>6, <1>7, <1>8 DEF IInv

(* A specialist takes a mention; nothing is said. *)
LEMMA ReceiveInv ==
  ASSUME IInv, NEW s \in Sessions, NEW a \in Agents, Receive(s, a)
  PROVE  IInv'
<1> USE DEF Receive, At, Goto, roundVars, serverVars, config, agentVars,
            deskVars, Waiting, Queue, Handling, Tick, Fault, NoFault
<1>1. TypeOK'
  BY ParameterAssumption DEF IInv, TypeOK, Pcs
<1>2. PcInv'
  BY DEF IInv, PcInv, TypeOK, Early, Proving, HandingOff, NeedsWager
<1> QED BY <1>1, <1>2, QuietStep

(* A specialist consumes the mention beyond its cap and exits. *)
LEMMA StopAtCapInv ==
  ASSUME IInv, NEW s \in Sessions, NEW a \in Agents, StopAtCap(s, a)
  PROVE  IInv'
<1> USE DEF StopAtCap, At, Goto, roundVars, serverVars, config, agentVars,
            deskVars, Waiting, Queue, Handling, Tick, Fault, NoFault
<1>1. TypeOK'
  BY ParameterAssumption DEF IInv, TypeOK, Pcs
<1>2. PcInv'
  BY DEF IInv, PcInv, TypeOK, Early, Proving, HandingOff, NeedsWager
<1> QED BY <1>1, <1>2, QuietStep

(* A mention is dropped; nothing is said. *)
LEMMA LoseMentionInv ==
  ASSUME IInv, NEW s \in Sessions, NEW a \in Agents, LoseMention(s, a)
  PROVE  IInv'
<1> USE DEF LoseMention, At, Goto, roundVars, serverVars, config, agentVars,
            deskVars, Waiting, Queue, Handling, Tick, Fault, NoFault
<1>1. TypeOK'
  BY ParameterAssumption DEF IInv, TypeOK, Pcs
<1>2. PcInv'
  BY DEF IInv, PcInv, TypeOK, Early, Proving, HandingOff, NeedsWager
<1> QED BY <1>1, <1>2, QuietStep

(* A handled mention's reply is lost; nothing is said. *)
LEMMA ReplyLostInv ==
  ASSUME IInv, NEW s \in Sessions, NEW a \in Agents, ReplyLost(s, a)
  PROVE  IInv'
<1> USE DEF ReplyLost, At, Goto, roundVars, serverVars, config, agentVars,
            deskVars, Waiting, Queue, Handling, Tick, Fault, NoFault
<1>1. TypeOK'
  BY ParameterAssumption DEF IInv, TypeOK, Pcs
<1>2. PcInv'
  BY DEF IInv, PcInv, TypeOK, Early, Proving, HandingOff, NeedsWager
<1> QED BY <1>1, <1>2, QuietStep

(* A specialist answers what it was asked, and only that. *)
LEMMA ReplyInv ==
  ASSUME IInv, NEW s \in Sessions, NEW a \in Agents, Reply(s, a)
  PROVE  IInv'
<1> USE DEF Reply, Handling, deskVars, roundVars, serverVars, config
<1>1. PICK m \in busy :
        /\ busy' = busy \ {m}
        /\ IF m.kind = "request"
           THEN \E v \in Verdicts(m) : log' = log \cup {v}
           ELSE log' = log
  OBVIOUS
<1>2. CASE m.kind # "request"
  <2>1. TypeOK' /\ PcInv'
    BY <1>1, <1>2 DEF IInv, TypeOK, PcInv, Early, Proving, HandingOff, NeedsWager
  <2> QED BY <1>1, <1>2, <2>1, QuietStep
<1>3. CASE m.kind = "request"
  <2>1. PICK v \in Verdicts(m) : log' = log \cup {v}
    BY <1>1, <1>3
  <2>2. /\ m \in Messages /\ m.thread \in Rounds
        /\ m.session = live[m.thread] /\ RequestOk(m)
    BY <1>3 DEF IInv, TypeOK, LogInv, Messages
  <2>3. /\ m.agent # "trading" => m.wager \in Wagers(Rounds)
        /\ m.agent = "proof_guard" => Ruled(m.thread, m.wager)
    BY <2>2 DEF RequestOk, IInv, TypeOK, WagerInv, Messages, Agents
  <2>4. /\ v \in Messages /\ v.kind = "verdict" /\ v.agent = m.agent
        /\ v.session = live[v.thread] /\ v.thread = m.thread
    BY <2>2, <2>3, VerdictShape
  <2>5. VerdictOk(v)
    BY <2>2, <2>3, VerdictShape DEF RequestOk, VerdictOk
  <2>6. TypeOK' /\ PcInv'
    BY <1>1, <2>1, <2>4
    DEF IInv, TypeOK, PcInv, Early, Proving, HandingOff, NeedsWager
  <2>7. WagerInv'
    BY DEF IInv, WagerInv, Ruled, SameBet
  <2>8. LogInv'
    BY <2>1, <2>4, <2>5 DEF IInv, LogInv, RequestOk, VerdictOk
  <2>9. FailClosedGate' /\ SettlementIsBacked'
    BY <2>1 DEF IInv, FailClosedGate, SettlementIsBacked, VerdictsFor
  <2> QED BY <2>6, <2>7, <2>8, <2>9 DEF IInv
<1> QED BY <1>2, <1>3

(* A session dies; what was posted in it has been posted. *)
LEMMA SessionLostInv ==
  ASSUME IInv, NEW s \in Sessions, SessionLost(s)
  PROVE  IInv'
<1> USE DEF SessionLost, At, Goto, roundVars, serverVars, config, agentVars,
            deskVars, Fault, NoFault
<1>1. TypeOK'
  BY ParameterAssumption DEF IInv, TypeOK, Pcs
<1>2. PcInv'
  BY DEF IInv, PcInv, TypeOK, Early, Proving, HandingOff, NeedsWager
<1> QED BY <1>1, <1>2, QuietStep

(* Every step of the system keeps the invariant. *)
LEMMA StepInv == IInv /\ [Next]_vars => IInv'
<1> SUFFICES ASSUME IInv, [Next]_vars PROVE IInv'
  OBVIOUS
<1>1. ASSUME NEW r \in Rounds, BeginRound(r) PROVE IInv'
  BY <1>1, BeginRoundInv
<1>2. ASSUME NEW r \in Rounds, RoundStep(r) PROVE IInv'
  BY <1>2, EnsureOkInv, EnsureFailedInv, LazyEnsureOkInv, NoRulingInv,
     ProposeInv, ProofUnavailableInv, SendProofInv, SendProofFailedInv,
     AcceptProofVerdictInv, ProofTimeoutInv, NoSignalInv, DecideInv,
     HandoffUnavailableInv, SendHandoffInv, SendHandoffFailedInv,
     AcceptHandoffInv, HandoffTimeoutInv, PublishUnavailableInv, PublishInv
  DEF RoundStep, BoundedStep
<1>3. ASSUME NEW s \in Sessions, NEW a \in Agents, AgentStep(s, a) PROVE IInv'
  BY <1>3, ReceiveInv, StopAtCapInv, ReplyInv DEF AgentStep
<1>4. ASSUME NEW s \in Sessions, NEW a \in Agents, AgentFailure(s, a) PROVE IInv'
  BY <1>4, LoseMentionInv, ReplyLostInv DEF AgentFailure
<1>5. ASSUME NEW s \in Sessions, SessionLost(s) PROVE IInv'
  BY <1>5, SessionLostInv
<1>6. CASE UNCHANGED vars
  <2>1. TypeOK' /\ PcInv'
    BY <1>6 DEF vars, roundVars, serverVars, config, agentVars, IInv, TypeOK, PcInv,
                NeedsWager
  <2> QED BY <1>6, <2>1, QuietStep DEF vars, roundVars
<1> QED BY <1>1, <1>2, <1>3, <1>4, <1>5, <1>6 DEF Next, Quiescent

-----------------------------------------------------------------------------
(* Who asked, and who has answered                                         *)

Asked(p) == p \notin Early \cup {"proof_send"}
HandedOff(p) == p \in {"handoff_wait", "publish", "done"}

(* A round delegates once to proof-guard and once to its specialist, each  *)
(* at its place, and to settlement-agent only what has a reference.        *)
AskInv ==
  /\ \A m \in log : m.kind = "request" =>
       /\ m.agent = "proof_guard" => Asked(pc[m.thread])
       /\ m.agent # "proof_guard" => HandedOff(pc[m.thread])
       /\ m.agent = "settlement" => m.wager.proofRef # "none"
  /\ \A m, n \in log :
       /\ m.kind = "request" /\ n.kind = "request"
       /\ m.agent = n.agent /\ m.thread = n.thread
       => m = n
  /\ \A r \in Rounds :
       pc[r] \in HandingOff /\ track[r] = "settlement" =>
         verified[r].proofRef # "none"

(* A verdict has used its request up: it is neither queued nor running, so *)
(* there is no second verdict.                                             *)
Answers(v, m) ==
  /\ m.kind = "request" /\ m.agent = v.agent
  /\ m.thread = v.thread /\ m.session = v.session

AnswerInv ==
  /\ \A m \in unseen : m.kind = "request" => m \notin busy
  /\ \A v \in log : v.kind = "verdict" =>
       /\ \E m \in log : Answers(v, m) /\ m \notin unseen /\ m \notin busy
       /\ \A w \in VerdictsFor(v.thread, v.agent) : w = v

TraceInv == IInv /\ AskInv /\ AnswerInv

(* Nothing has been asked when the desk starts. *)
LEMMA InitTrace == Init => TraceInv
<1>1. Init => AskInv /\ AnswerInv
  BY DEF Init, AskInv, AnswerInv, HandingOff
<1> QED BY <1>1, InitInv DEF TraceInv

(* A round moves on, and may post its transcript. *)
LEMMA RoundMoves ==
  ASSUME TraceInv, NEW r \in Rounds, NEW q, NEW M,
         pc' = [pc EXCEPT ![r] = q], UNCHANGED <<track, busy>>,
         log' = log \cup M, unseen' = unseen \cup M,
         \A m \in M : m.kind = "chatter",
         \A s \in Rounds \ {r} : verified'[s] = verified[s],
         Asked(pc[r]) => Asked(q),
         HandedOff(pc[r]) => HandedOff(q),
         q \in HandingOff /\ track[r] = "settlement" =>
           verified'[r].proofRef # "none"
  PROVE  AskInv' /\ AnswerInv'
<1>0. pc \in [Rounds -> Pcs] /\ log \subseteq Messages /\ busy \subseteq log
  BY DEF TraceInv, IInv, TypeOK
<1>1. \A m \in log' : m.kind # "chatter" => m \in log
  OBVIOUS
<1>2. \A m \in log : m.thread \in Rounds
  BY <1>0 DEF Messages
<1>3. \A s \in Rounds : pc'[s] = IF s = r THEN q ELSE pc[s]
  BY <1>0
<1>4. ASSUME NEW m \in log', m.kind = "request"
      PROVE  /\ m.agent = "proof_guard" => Asked(pc'[m.thread])
             /\ m.agent # "proof_guard" => HandedOff(pc'[m.thread])
             /\ m.agent = "settlement" => m.wager.proofRef # "none"
  BY <1>1, <1>2, <1>3, <1>4 DEF TraceInv, AskInv
<1>5. ASSUME NEW m \in log', NEW n \in log', m.kind = "request", n.kind = "request",
             m.agent = n.agent, m.thread = n.thread
      PROVE  m = n
  BY <1>1, <1>5 DEF TraceInv, AskInv
<1>6. ASSUME NEW s \in Rounds, pc'[s] \in HandingOff, track[s] = "settlement"
      PROVE  verified'[s].proofRef # "none"
  BY <1>3, <1>6 DEF TraceInv, AskInv
<1>7. AskInv'
  BY <1>4, <1>5, <1>6 DEF AskInv, Asked, HandedOff
<1>8. ASSUME NEW m \in unseen', m.kind = "request" PROVE m \notin busy'
  BY <1>8 DEF TraceInv, AnswerInv
<1>9. ASSUME NEW v \in log', v.kind = "verdict"
      PROVE  /\ \E m \in log' : Answers(v, m) /\ m \notin unseen' /\ m \notin busy'
             /\ \A w \in VerdictsFor(v.thread, v.agent)' : w = v
  <2>1. v \in log
    BY <1>1, <1>9
  <2>2. PICK m \in log : Answers(v, m) /\ m \notin unseen /\ m \notin busy
    BY <1>9, <2>1 DEF TraceInv, AnswerInv
  <2>3. m \in log' /\ m \notin unseen' /\ m \notin busy'
    BY <2>2 DEF Answers
  <2>4. VerdictsFor(v.thread, v.agent)' = VerdictsFor(v.thread, v.agent)
    BY <1>1 DEF VerdictsFor
  <2> QED BY <1>9, <2>1, <2>2, <2>3, <2>4 DEF TraceInv, AnswerInv
<1>10. AnswerInv'
  BY <1>8, <1>9 DEF AnswerInv, Answers
<1> QED BY <1>7, <1>10

(* A round moves on in silence. *)
LEMMA RoundIsSilent ==
  ASSUME TraceInv, NEW r \in Rounds, NEW q,
         pc' = [pc EXCEPT ![r] = q], UNCHANGED <<track, busy, log, unseen>>,
         \A s \in Rounds \ {r} : verified'[s] = verified[s],
         Asked(pc[r]) => Asked(q),
         HandedOff(pc[r]) => HandedOff(q),
         q \in HandingOff /\ track[r] = "settlement" =>
           verified'[r].proofRef # "none"
  PROVE  AskInv' /\ AnswerInv'
<1>1. PICK M : M = {}
  OBVIOUS
<1>2. log' = log \cup M /\ unseen' = unseen \cup M /\ \A m \in M : m.kind = "chatter"
  BY <1>1
<1> QED BY <1>2, RoundMoves

(* A round delegates at the place where it has not delegated yet. *)
LEMMA RoundAsks ==
  ASSUME TraceInv, NEW r \in Rounds, NEW q, NEW x \in Messages,
         pc' = [pc EXCEPT ![r] = q], UNCHANGED <<track, busy>>,
         log' = log \cup {x}, unseen' = unseen \cup {x},
         x.kind = "request", x.thread = r,
         \A s \in Rounds \ {r} : verified'[s] = verified[s],
         Asked(pc[r]) => Asked(q),
         HandedOff(pc[r]) => HandedOff(q),
         x.agent = "proof_guard" => ~Asked(pc[r]) /\ Asked(q),
         x.agent # "proof_guard" => ~HandedOff(pc[r]) /\ HandedOff(q),
         x.agent = "settlement" => x.wager.proofRef # "none",
         q \in HandingOff /\ track[r] = "settlement" =>
           verified'[r].proofRef # "none"
  PROVE  AskInv' /\ AnswerInv'
<1>0. pc \in [Rounds -> Pcs] /\ log \subseteq Messages /\ busy \subseteq log
      /\ unseen \subseteq log
  BY DEF TraceInv, IInv, TypeOK
<1>1. \A m \in log : m.kind = "request" /\ m.thread = r => m.agent # x.agent
  BY DEF TraceInv, AskInv
<1>2. \A m \in log : m.thread \in Rounds
  BY <1>0 DEF Messages
<1>3. \A s \in Rounds : pc'[s] = IF s = r THEN q ELSE pc[s]
  BY <1>0
<1>4. ASSUME NEW m \in log', m.kind = "request"
      PROVE  /\ m.agent = "proof_guard" => Asked(pc'[m.thread])
             /\ m.agent # "proof_guard" => HandedOff(pc'[m.thread])
             /\ m.agent = "settlement" => m.wager.proofRef # "none"
  <2>1. CASE m = x
    BY <1>3, <2>1
  <2>2. CASE m \in log
    BY <1>2, <1>3, <1>4, <2>2 DEF TraceInv, AskInv
  <2> QED BY <2>1, <2>2
<1>5. ASSUME NEW m \in log', NEW n \in log', m.kind = "request", n.kind = "request",
             m.agent = n.agent, m.thread = n.thread
      PROVE  m = n
  <2>1. CASE m \in log /\ n \in log
    BY <1>5, <2>1 DEF TraceInv, AskInv
  <2>2. CASE m = x \/ n = x
    BY <1>1, <1>5, <2>2
  <2> QED BY <2>1, <2>2
<1>6. ASSUME NEW s \in Rounds, pc'[s] \in HandingOff, track[s] = "settlement"
      PROVE  verified'[s].proofRef # "none"
  BY <1>3, <1>6 DEF TraceInv, AskInv
<1>7. AskInv'
  BY <1>4, <1>5, <1>6 DEF AskInv, Asked, HandedOff
<1>8. x \notin log /\ x \notin busy
  BY <1>0, <1>1
<1>9. ASSUME NEW m \in unseen', m.kind = "request" PROVE m \notin busy'
  BY <1>8, <1>9 DEF TraceInv, AnswerInv
<1>10. ASSUME NEW v \in log', v.kind = "verdict"
      PROVE  /\ \E m \in log' : Answers(v, m) /\ m \notin unseen' /\ m \notin busy'
             /\ \A w \in VerdictsFor(v.thread, v.agent)' : w = v
  <2>1. v \in log
    BY <1>10
  <2>2. PICK m \in log : Answers(v, m) /\ m \notin unseen /\ m \notin busy
    BY <1>10, <2>1 DEF TraceInv, AnswerInv
  <2>3. m \in log' /\ m \notin unseen' /\ m \notin busy'
    BY <1>8, <2>2
  <2>4. VerdictsFor(v.thread, v.agent)' = VerdictsFor(v.thread, v.agent)
    BY DEF VerdictsFor
  <2> QED BY <1>10, <2>1, <2>2, <2>3, <2>4 DEF TraceInv, AnswerInv
<1>11. AnswerInv'
  BY <1>9, <1>10 DEF AnswerInv, Answers
<1> QED BY <1>7, <1>11

(* Mentions are taken, dropped or used up without an answer. *)
LEMMA MentionsMove ==
  ASSUME TraceInv, UNCHANGED <<pc, track, verified, log>>,
         unseen' \subseteq unseen,
         busy' \subseteq busy \cup unseen,
         \A m \in unseen' : m.kind = "request" => m \notin busy'
  PROVE  AskInv' /\ AnswerInv'
<1>1. AskInv'
  BY DEF TraceInv, AskInv
<1>2. ASSUME NEW v \in log, v.kind = "verdict"
      PROVE  /\ \E m \in log : Answers(v, m) /\ m \notin unseen' /\ m \notin busy'
             /\ \A w \in VerdictsFor(v.thread, v.agent)' : w = v
  <2>1. PICK m \in log : Answers(v, m) /\ m \notin unseen /\ m \notin busy
    BY <1>2 DEF TraceInv, AnswerInv
  <2>2. m \notin unseen' /\ m \notin busy'
    BY <2>1
  <2>3. VerdictsFor(v.thread, v.agent)' = VerdictsFor(v.thread, v.agent)
    BY DEF VerdictsFor
  <2> QED BY <1>2, <2>1, <2>2, <2>3 DEF TraceInv, AnswerInv
<1>3. AnswerInv'
  BY <1>2 DEF AnswerInv, Answers
<1> QED BY <1>1, <1>3

(* What a specialist says when it answers. *)
LEMMA ReplySays ==
  ASSUME IInv, NEW m \in log, m.kind = "request", NEW v \in Verdicts(m)
  PROVE  /\ v \in Messages /\ v.kind = "verdict" /\ v.agent = m.agent
         /\ v.session = m.session /\ v.thread = m.thread /\ m.thread \in Rounds
         /\ VerdictOk(v)
<1>1. /\ m \in Messages /\ m.thread \in Rounds /\ RequestOk(m)
  BY DEF IInv, TypeOK, LogInv, Messages
<1>2. /\ m.agent # "trading" => m.wager \in Wagers(Rounds)
      /\ m.agent = "proof_guard" => Ruled(m.thread, m.wager)
  BY <1>1 DEF RequestOk, IInv, TypeOK, WagerInv, Messages, Agents
<1>3. VerdictOk(v)
  BY <1>1, <1>2, VerdictShape DEF RequestOk, VerdictOk
<1> QED BY <1>1, <1>2, <1>3, VerdictShape

(* The answer to a running request is the first in its thread, and uses    *)
(* the request up.                                                         *)
LEMMA ReplyTrace ==
  ASSUME TraceInv, NEW s \in Sessions, NEW a \in Agents, Reply(s, a)
  PROVE  AskInv' /\ AnswerInv'
<1> USE DEF Reply, Handling, deskVars, roundVars, serverVars, config
<1>0. unseen \subseteq log /\ busy \subseteq log
  BY DEF TraceInv, IInv, TypeOK
<1>1. PICK m \in busy :
        /\ busy' = busy \ {m}
        /\ IF m.kind = "request"
           THEN \E v \in Verdicts(m) : log' = log \cup {v}
           ELSE log' = log
  OBVIOUS
<1>2. CASE m.kind # "request"
  <2>1. \A n \in unseen' : n.kind = "request" => n \notin busy'
    BY <1>1 DEF TraceInv, AnswerInv
  <2> QED BY <1>1, <1>2, <2>1, MentionsMove
<1>3. CASE m.kind = "request"
  <2>1. PICK v \in Verdicts(m) : log' = log \cup {v}
    BY <1>1, <1>3
  <2>2. /\ v.kind = "verdict" /\ v.agent = m.agent
        /\ v.session = m.session /\ v.thread = m.thread
    BY <1>0, <1>3, ReplySays DEF TraceInv
  <2>3. AskInv'
    BY <2>1, <2>2 DEF TraceInv, AskInv
  <2>4. m \in log /\ m \notin unseen' /\ m \notin busy'
    BY <1>0, <1>1, <1>3 DEF TraceInv, AnswerInv
  <2>5. ASSUME NEW n \in log, n.kind = "request", n.agent = m.agent,
               n.thread = m.thread
        PROVE  n = m
    BY <1>0, <1>3, <2>5 DEF TraceInv, AskInv
  <2>6. ASSUME NEW w \in log, w.kind = "verdict", w.agent = m.agent,
               w.thread = m.thread
        PROVE  FALSE
    <3>1. PICK n \in log : Answers(w, n) /\ n \notin unseen /\ n \notin busy
      BY <2>6 DEF TraceInv, AnswerInv
    <3> QED BY <2>5, <2>6, <3>1 DEF Answers
  <2>7. ASSUME NEW w \in log', w.kind = "verdict"
        PROVE  /\ \E n \in log' : Answers(w, n) /\ n \notin unseen' /\ n \notin busy'
               /\ \A u \in VerdictsFor(w.thread, w.agent)' : u = w
    <3>1. CASE w = v
      <4>1. Answers(v, m)
        BY <1>3, <2>2 DEF Answers
      <4>2. \A u \in VerdictsFor(v.thread, v.agent)' : u = v
        BY <2>1, <2>2, <2>6 DEF VerdictsFor
      <4> QED BY <2>1, <2>4, <3>1, <4>1, <4>2
    <3>2. CASE w # v
      <4>1. w \in log
        BY <2>1, <2>7, <3>2
      <4>2. PICK n \in log : Answers(w, n) /\ n \notin unseen /\ n \notin busy
        BY <2>7, <4>1 DEF TraceInv, AnswerInv
      <4>3. n \in log' /\ n \notin unseen' /\ n \notin busy'
        BY <1>1, <2>1, <4>2
      <4>4. w.agent # m.agent \/ w.thread # m.thread
        BY <2>6, <2>7, <4>1
      <4>5. VerdictsFor(w.thread, w.agent)' = VerdictsFor(w.thread, w.agent)
        BY <2>1, <2>2, <4>4 DEF VerdictsFor
      <4> QED BY <2>7, <4>1, <4>2, <4>3, <4>5 DEF TraceInv, AnswerInv
    <3> QED BY <3>1, <3>2
  <2>8. ASSUME NEW n \in unseen', n.kind = "request" PROVE n \notin busy'
    BY <1>1, <2>8 DEF TraceInv, AnswerInv
  <2>9. AnswerInv'
    BY <2>7, <2>8 DEF AnswerInv, Answers
  <2> QED BY <2>3, <2>9
<1> QED BY <1>2, <1>3

(* The specialists and the server take, drop and answer mentions. *)
LEMMA MentionTrace ==
  ASSUME TraceInv, NEW s \in Sessions,
         \/ \E a \in Agents : AgentStep(s, a) \/ AgentFailure(s, a)
         \/ SessionLost(s)
  PROVE  AskInv' /\ AnswerInv'
<1> USE DEF deskVars, roundVars, serverVars, config, agentVars, Queue, Handling,
            TraceInv, AnswerInv
<1>1. ASSUME NEW a \in Agents, Receive(s, a) PROVE AskInv' /\ AnswerInv'
  <2>1. PICK m \in unseen : unseen' = unseen \ {m} /\ busy' = busy \cup {m}
    BY <1>1 DEF Receive
  <2> QED BY <1>1, <2>1, MentionsMove DEF Receive
<1>2. ASSUME NEW a \in Agents, StopAtCap(s, a) PROVE AskInv' /\ AnswerInv'
  BY <1>2, MentionsMove DEF StopAtCap
<1>3. ASSUME NEW a \in Agents, LoseMention(s, a) PROVE AskInv' /\ AnswerInv'
  BY <1>3, MentionsMove DEF LoseMention
<1>4. ASSUME NEW a \in Agents, ReplyLost(s, a) PROVE AskInv' /\ AnswerInv'
  BY <1>4, MentionsMove DEF ReplyLost
<1>5. ASSUME SessionLost(s) PROVE AskInv' /\ AnswerInv'
  BY <1>5, MentionsMove DEF SessionLost
<1> QED BY <1>1, <1>2, <1>3, <1>4, <1>5, ReplyTrace DEF AgentStep, AgentFailure

(* A round on its way to its decision. *)
LEMMA EarlyTrace ==
  ASSUME TraceInv, NEW r \in Rounds,
         \/ BeginRound(r) \/ EnsureOk(r) \/ EnsureFailed(r) \/ LazyEnsureOk(r)
         \/ NoRuling(r) \/ Propose(r)
  PROVE  AskInv' /\ AnswerInv'
<1> USE DEF roundVars, serverVars, config, agentVars, At, Goto, Asked, HandedOff,
            Early, HandingOff
<1>1. pc \in [Rounds -> Pcs]
  BY DEF TraceInv, IInv, TypeOK
<1>2. UNCHANGED <<track, busy, verified, log, unseen>>
  BY DEF BeginRound, EnsureOk, EnsureFailed, LazyEnsureOk, NoRuling, Propose
<1>3. CASE LazyEnsureOk(r)
  <2>1. pc' = [pc EXCEPT ![r] = pc[r]]
    BY <1>1, <1>3 DEF LazyEnsureOk
  <2>2. pc[r] \in HandingOff /\ track[r] = "settlement" => verified'[r].proofRef # "none"
    BY <1>2 DEF TraceInv, AskInv
  <2> QED BY <1>2, <2>1, <2>2, RoundIsSilent
<1>4. CASE ~LazyEnsureOk(r)
  <2>1. PICK q \in {"ensuring", "proposing", "decide", "proof_send"} :
          pc' = [pc EXCEPT ![r] = q] /\ pc[r] \in {"idle", "ensuring", "proposing"}
    BY <1>4 DEF BeginRound, EnsureOk, EnsureFailed, NoRuling, Propose
  <2> QED BY <1>2, <2>1, RoundIsSilent
<1> QED BY <1>3, <1>4

(* A round at the proof gate. *)
LEMMA ProofTrace ==
  ASSUME TraceInv, NEW r \in Rounds,
         \/ ProofUnavailable(r) \/ SendProof(r) \/ SendProofFailed(r)
         \/ AcceptProofVerdict(r) \/ ProofTimeout(r)
  PROVE  AskInv' /\ AnswerInv'
<1> USE DEF roundVars, serverVars, config, agentVars, At, Goto, Asked, HandedOff,
            Early, HandingOff, Post, CloseProof
<1>1. verified \in [Rounds -> Wagers(Rounds) \cup {NoWager}] /\ pc \in [Rounds -> Pcs]
  BY DEF TraceInv, IInv, TypeOK
<1>2. UNCHANGED <<track, busy>> /\ \A s \in Rounds \ {r} : verified'[s] = verified[s]
  BY <1>1 DEF ProofUnavailable, SendProof, SendProofFailed, AcceptProofVerdict, ProofTimeout
<1>3. PICK q \in {"proof_wait", "decide"} :
        pc' = [pc EXCEPT ![r] = q] /\ (pc[r] = "proof_send" \/ (pc[r] = "proof_wait" /\ log' = log))
  <2>1. /\ SendProof(r) => pc' = [pc EXCEPT ![r] = "proof_wait"]
        /\ ~SendProof(r) => pc' = [pc EXCEPT ![r] = "decide"]
    BY DEF ProofUnavailable, SendProof, SendProofFailed, AcceptProofVerdict, ProofTimeout
  <2>2. /\ ProofUnavailable(r) \/ SendProof(r) \/ SendProofFailed(r) => pc[r] = "proof_send"
        /\ AcceptProofVerdict(r) \/ ProofTimeout(r) => pc[r] = "proof_wait"
    BY DEF ProofUnavailable, SendProof, SendProofFailed, AcceptProofVerdict, ProofTimeout
  <2>3. AcceptProofVerdict(r) \/ ProofTimeout(r) => log' = log
    BY DEF AcceptProofVerdict, ProofTimeout
  <2>4. pc[r] = "proof_send" \/ (pc[r] = "proof_wait" /\ log' = log)
    BY <2>2, <2>3
  <2>5. \E q \in {"proof_wait", "decide"} : pc' = [pc EXCEPT ![r] = q]
    BY <2>1
  <2> QED BY <2>4, <2>5
<1>4. \/ log' = log /\ unseen' = unseen
      \/ /\ pc[r] = "proof_send" /\ live[r] \in up
         /\ log' = log \cup {ProofRequest(r)} /\ unseen' = unseen \cup {ProofRequest(r)}
  BY DEF ProofUnavailable, SendProof, SendProofFailed, AcceptProofVerdict, ProofTimeout
<1>5. CASE log' = log /\ unseen' = unseen
  BY <1>2, <1>3, <1>5, RoundIsSilent
<1>6. CASE /\ pc[r] = "proof_send" /\ live[r] \in up
           /\ log' = log \cup {ProofRequest(r)} /\ unseen' = unseen \cup {ProofRequest(r)}
  <2>1. /\ ProofRequest(r) \in Messages
        /\ ProofRequest(r).kind = "request"
        /\ ProofRequest(r).agent = "proof_guard"
        /\ ProofRequest(r).thread = r
    BY <1>6, ProofRequestOk DEF TraceInv
  <2> QED BY <1>2, <1>3, <1>6, <2>1, RoundAsks
<1> QED BY <1>4, <1>5, <1>6

(* The refusal of a settlement without a reference comes before the send. *)
LEMMA DecideTrace ==
  ASSUME TraceInv, NEW r \in Rounds, NoSignal(r) \/ Decide(r)
  PROVE  AskInv' /\ AnswerInv'
<1> USE DEF roundVars, serverVars, config, agentVars, At, Goto, Asked, HandedOff,
            Early, HandingOff
<1>1. UNCHANGED <<track, busy, verified, log, unseen>>
  BY DEF NoSignal, Decide
<1>2. PICK q \in {"handoff_send", "publish"} :
        /\ pc' = [pc EXCEPT ![r] = q] /\ pc[r] = "decide"
        /\ q = "handoff_send" => HandoffRefusal(r) = "none"
  BY DEF NoSignal, Decide
<1>3. HandoffRefusal(r) = "none" /\ track[r] = "settlement" => verified[r].proofRef # "none"
  BY DEF HandoffRefusal
<1> QED BY <1>1, <1>2, <1>3, RoundIsSilent

(* A round handing off. *)
LEMMA HandoffTrace ==
  ASSUME TraceInv, NEW r \in Rounds,
         \/ HandoffUnavailable(r) \/ SendHandoff(r) \/ SendHandoffFailed(r)
         \/ AcceptHandoff(r) \/ HandoffTimeout(r)
  PROVE  AskInv' /\ AnswerInv'
<1> USE DEF roundVars, serverVars, config, agentVars, At, Goto, Asked, HandedOff,
            Early, HandingOff, Post, CloseHandoff
<1>1. UNCHANGED <<track, busy, verified>>
  BY DEF HandoffUnavailable, SendHandoff, SendHandoffFailed, AcceptHandoff, HandoffTimeout
<1>2. PICK q \in {"handoff_wait", "publish"} :
        /\ pc' = [pc EXCEPT ![r] = q] /\ pc[r] \in {"handoff_send", "handoff_wait"}
  BY DEF HandoffUnavailable, SendHandoff, SendHandoffFailed, AcceptHandoff, HandoffTimeout
<1>3. \/ log' = log /\ unseen' = unseen
      \/ /\ pc[r] = "handoff_send" /\ live[r] \in up
         /\ log' = log \cup {HandoffRequest(r)} /\ unseen' = unseen \cup {HandoffRequest(r)}
  BY DEF HandoffUnavailable, SendHandoff, SendHandoffFailed, AcceptHandoff, HandoffTimeout
<1>4. track[r] = "settlement" => verified[r].proofRef # "none"
  BY <1>2 DEF TraceInv, AskInv
<1>5. CASE log' = log /\ unseen' = unseen
  BY <1>1, <1>2, <1>4, <1>5, RoundIsSilent
<1>6. CASE /\ pc[r] = "handoff_send" /\ live[r] \in up
           /\ log' = log \cup {HandoffRequest(r)} /\ unseen' = unseen \cup {HandoffRequest(r)}
  <2>1. /\ HandoffRequest(r) \in Messages
        /\ HandoffRequest(r).kind = "request"
        /\ HandoffRequest(r).agent = Specialist(track[r])
        /\ HandoffRequest(r).thread = r
        /\ RequestOk(HandoffRequest(r))
    BY <1>6, HandoffRequestOk DEF TraceInv
  <2>2. /\ Specialist(track[r]) # "proof_guard"
        /\ Specialist(track[r]) = "settlement" => track[r] = "settlement"
    BY ParameterAssumption DEF TraceInv, IInv, TypeOK, Specialist, Tracks
  <2>3. HandoffRequest(r).agent = "settlement" => HandoffRequest(r).wager.proofRef # "none"
    BY <1>4, <2>1, <2>2 DEF RequestOk
  <2> QED BY <1>1, <1>2, <1>4, <1>6, <2>1, <2>2, <2>3, RoundAsks
<1> QED BY <1>3, <1>5, <1>6

(* The transcript delegates nothing. *)
LEMMA PublishTrace ==
  ASSUME TraceInv, NEW r \in Rounds, PublishUnavailable(r) \/ Publish(r)
  PROVE  AskInv' /\ AnswerInv'
<1> USE DEF roundVars, serverVars, config, agentVars, At, Goto, Asked, HandedOff,
            Early, HandingOff, Post
<1>1. PICK M :
        /\ M = {} \/ M \in MentionedSoFar(r)
        /\ log' = log \cup M /\ unseen' = unseen \cup M
  <2>1. CASE PublishUnavailable(r)
    <3>1. log' = log \cup {} /\ unseen' = unseen \cup {}
      BY <2>1 DEF PublishUnavailable
    <3> QED BY <3>1
  <2>2. CASE Publish(r)
    BY <2>2, TranscriptPosted
  <2> QED BY <2>1, <2>2
<1>2. \A m \in M : m.kind = "chatter"
  BY <1>1, TranscriptIsChatter
<1>3. /\ pc' = [pc EXCEPT ![r] = "done"] /\ pc[r] = "publish"
      /\ UNCHANGED <<track, busy, verified>>
  BY DEF Publish, PublishUnavailable
<1> QED BY <1>1, <1>2, <1>3, RoundMoves

(* Every step of the system keeps the trace invariant. *)
LEMMA StepTrace == TraceInv /\ [Next]_vars => TraceInv'
<1> SUFFICES ASSUME TraceInv, [Next]_vars PROVE TraceInv'
  OBVIOUS
<1>1. IInv'
  BY StepInv DEF TraceInv
<1>2. ASSUME NEW r \in Rounds, BeginRound(r) \/ RoundStep(r) PROVE AskInv' /\ AnswerInv'
  BY <1>2, EarlyTrace, ProofTrace, DecideTrace, HandoffTrace, PublishTrace
  DEF RoundStep, BoundedStep
<1>3. CASE UNCHANGED vars
  <2>1. UNCHANGED <<pc, track, verified, log, unseen, busy>>
    BY <1>3 DEF vars, roundVars, serverVars, config, agentVars
  <2>2. \A m \in unseen' : m.kind = "request" => m \notin busy'
    BY <2>1 DEF TraceInv, AnswerInv
  <2>3. unseen' \subseteq unseen /\ busy' \subseteq busy \cup unseen
    BY <2>1
  <2> QED BY <1>1, <2>1, <2>2, <2>3, MentionsMove DEF TraceInv
<1> QED BY <1>1, <1>2, <1>3, MentionTrace DEF Next, Quiescent, TraceInv

-----------------------------------------------------------------------------
(* Each step is a step of the wager's promised life, or none of it         *)

(* The promise's rules on wagers are the desk's. *)
LEMMA SameRules ==
  /\ \A r : Gate!Wagers({r}) = Wagers({r})
  /\ \A w : Gate!FailClosed(w) = FailClosed(w)
  /\ \A w : Gate!ProofGuardVerify(w) = ProofGuardVerify(w)
  /\ \A w : Gate!SettlementVerdict(w) = SettlementVerdict(w)
BY DEF Gate!Wagers, Wagers, Gate!Statuses, Statuses, Gate!ProofRefs, ProofRefs,
       Gate!FailClosed, FailClosed, Gate!ProofGuardVerify, ProofGuardVerify,
       Gate!SettlementVerdict, SettlementVerdict

NoVerdict(M) == \A m \in M : m.kind # "verdict"

(* What is posted is no ruling unless it is a verdict. *)
LEMMA PostingRulesNothing ==
  ASSUME NEW M, log' = log \cup M, NoVerdict(M)
  PROVE  Attestations' = Attestations /\ Settlements' = Settlements
<1>1. \A a : {v \in log' : v.kind = "verdict" /\ v.agent = a}
               = {v \in log : v.kind = "verdict" /\ v.agent = a}
  BY DEF NoVerdict
<1> QED BY <1>1 DEF Attestations, Settlements

(* A log that stays as it is rules as it did. *)
LEMMA SameLogSameRulings ==
  ASSUME log' = log
  PROVE  Attestations' = Attestations /\ Settlements' = Settlements
BY Zenon DEF Attestations, Settlements

(* The rounds' wagers, verdicts and outcomes are all the promise sees. *)
LEMMA UnseenByGate ==
  ASSUME UNCHANGED <<wager, verified, outcome>>,
         Attestations' = Attestations, Settlements' = Settlements
  PROVE  UNCHANGED Gate!gateVars
BY DEF Gate!gateVars, Result

(* A round's proposal is the promise's. *)
LEMMA ProposeMaps ==
  ASSUME IInv, NEW r \in Rounds, Propose(r)
  PROVE  Gate!Propose(r)
<1> USE DEF Propose, At, Goto, serverVars, config, agentVars
<1>1. wager[r] = NoWager /\ verified[r] = NoWager
  BY DEF IInv, PcInv, Early
<1>2. \E w \in Wagers({r}) : wager' = [wager EXCEPT ![r] = w]
  <2>1. PICK p \in Proposals(r) : \E w \in PunditRulings(p) :
          wager' = [wager EXCEPT ![r] = w]
    OBVIOUS
  <2>2. p \in Wagers(Rounds) /\ Ruled(r, p)
    BY <2>1, AdjudicateRuled, ParameterAssumption DEF Proposals
  <2>3. PICK w \in PunditRulings(p) : wager' = [wager EXCEPT ![r] = w]
    BY <2>1
  <2>4. w \in Wagers(Rounds) /\ w.id = r
    BY <2>2, <2>3, PunditRuled DEF Ruled
  <2>5. w \in Wagers({r})
    BY <2>4 DEF Wagers
  <2> QED BY <2>3, <2>5
<1>3. Attestations' = Attestations /\ Settlements' = Settlements
  <2>1. log' = log
    OBVIOUS
  <2> QED BY <2>1, SameLogSameRulings
<1>4. UNCHANGED [q \in Rounds |-> Result(q)]
  BY DEF Result
<1>5. Gate!Wagers({r}) = Wagers({r}) /\ UNCHANGED verified
  BY SameRules
<1> QED BY <1>1, <1>2, <1>3, <1>4, <1>5, Zenon DEF Gate!Propose

(* Failing closed is the veto. *)
LEMMA VetoMaps ==
  ASSUME IInv, NEW r \in Rounds, pc[r] \in Proving,
         CloseProof(r, FailClosed(wager[r])),
         Attestations' = Attestations, Settlements' = Settlements
  PROVE  Gate!Veto(r)
<1>1. wager[r] # NoWager /\ verified[r] = NoWager
  BY DEF IInv, PcInv
<1>2. UNCHANGED [q \in Rounds |-> Result(q)]
  BY DEF CloseProof, Result
<1> QED BY <1>1, <1>2, SameRules DEF Gate!Veto, CloseProof

(* A round at the proof gate vetoes, takes what was attested, or waits. *)
LEMMA ProofMaps ==
  ASSUME IInv, NEW r \in Rounds,
         \/ ProofUnavailable(r) \/ SendProof(r) \/ SendProofFailed(r)
         \/ AcceptProofVerdict(r) \/ ProofTimeout(r)
  PROVE  Gate!Veto(r) \/ Gate!Vouch(r) \/ UNCHANGED Gate!gateVars
<1>1. PICK M \in {{}, {ProofRequest(r)}} : log' = log \cup M
  <2>1. \/ log' = log
        \/ log' = log \cup {ProofRequest(r)}
    BY DEF ProofUnavailable, SendProof, SendProofFailed, AcceptProofVerdict,
           ProofTimeout, Post
  <2>2. CASE log' = log
    <3>1. PICK M : M = {}
      OBVIOUS
    <3>2. log' = log \cup M
      BY <2>2, <3>1
    <3> QED BY <3>1, <3>2
  <2> QED BY <2>1, <2>2
<1>2. NoVerdict(M)
  BY <1>1 DEF NoVerdict, ProofRequest, Mention
<1>3. Attestations' = Attestations /\ Settlements' = Settlements
  BY <1>1, <1>2, PostingRulesNothing
<1>4. CASE SendProof(r)
  BY <1>3, <1>4, UnseenByGate DEF SendProof, roundVars
<1>5. CASE ProofUnavailable(r) \/ SendProofFailed(r) \/ ProofTimeout(r)
  <2>1. pc[r] \in Proving /\ CloseProof(r, FailClosed(wager[r]))
    BY <1>5 DEF ProofUnavailable, SendProofFailed, ProofTimeout, At, Proving
  <2> QED BY <1>3, <2>1, VetoMaps
<1>6. CASE AcceptProofVerdict(r)
  <2>1. PICK m \in Replies(r, "proof_guard") : CloseProof(r, m.wager)
    BY <1>6 DEF AcceptProofVerdict
  <2>2. m.wager \in Attestations /\ m.wager.id = r
    BY <2>1 DEF Replies, Attestations
  <2>3. verified[r] = NoWager
    BY <1>6 DEF AcceptProofVerdict, At, IInv, PcInv, Proving
  <2>4. UNCHANGED <<wager, [q \in Rounds |-> Result(q)]>>
    BY <2>1 DEF CloseProof, Result
  <2> QED BY <1>3, <2>1, <2>2, <2>3, <2>4 DEF Gate!Vouch, CloseProof
<1> QED BY <1>4, <1>5, <1>6

(* An outcome is a report, settled only on a ruling. *)
LEMMA ReportMaps ==
  ASSUME IInv, NEW r \in Rounds, NEW st, NEW th,
         pc[r] \in {"decide"} \cup HandingOff,
         outcome' = [outcome EXCEPT ![r] = [status |-> st, thread |-> th]],
         UNCHANGED <<wager, verified>>,
         st # "none",
         st = "settled" => [id |-> r, status |-> "settled"] \in Settlements,
         Attestations' = Attestations, Settlements' = Settlements
  PROVE  Gate!Report(r)
<1>1. outcome[r].status = "none" /\ outcome \in [Rounds -> [status : OutcomeStatuses, thread : Rounds]]
  BY DEF IInv, PcInv, TypeOK, HandingOff
<1>2. outcome'[r].status = st /\ \A q \in Rounds \ {r} : outcome'[q] = outcome[q]
  BY <1>1
<1>3. Result(r) = "open"
  BY <1>1 DEF Result
<1>4. \A q \in Rounds \ {r} : Result(q)' = Result(q)
  BY <1>2 DEF Result
<1>5. Result(r)' = IF st = "settled" THEN "settled" ELSE "not_settled"
  BY <1>2 DEF Result
<1>6. [q \in Rounds |-> Result(q)]' = [[q \in Rounds |-> Result(q)] EXCEPT ![r] = Result(r)']
  BY <1>4
<1>7. [q \in Rounds |-> Result(q)][r] = "open"
  BY <1>3
<1> QED BY <1>5, <1>6, <1>7 DEF Gate!Report

(* Whether refused, timed out or answered, a handoff ends in a report. *)
LEMMA HandoffMaps ==
  ASSUME IInv, IInv', NEW r \in Rounds,
         \/ Decide(r) \/ HandoffUnavailable(r) \/ SendHandoff(r)
         \/ SendHandoffFailed(r) \/ AcceptHandoff(r) \/ HandoffTimeout(r)
  PROVE  Gate!Report(r) \/ UNCHANGED Gate!gateVars
<1>1. PICK M \in {{}, {HandoffRequest(r)}} : log' = log \cup M
  <2>1. \/ log' = log
        \/ log' = log \cup {HandoffRequest(r)}
    BY DEF Decide, HandoffUnavailable, SendHandoff, SendHandoffFailed, AcceptHandoff,
           HandoffTimeout, Post
  <2>2. CASE log' = log
    <3>1. PICK M : M = {}
      OBVIOUS
    <3>2. log' = log \cup M
      BY <2>2, <3>1
    <3> QED BY <3>1, <3>2
  <2> QED BY <2>1, <2>2
<1>2. NoVerdict(M)
  BY <1>1 DEF NoVerdict, HandoffRequest, Mention
<1>3. Attestations' = Attestations /\ Settlements' = Settlements
  BY <1>1, <1>2, PostingRulesNothing
<1>4. CASE SendHandoff(r)
  BY <1>3, <1>4, UnseenByGate DEF SendHandoff, roundVars
<1>5. CASE Decide(r)
  <2>1. CASE HandoffRefusal(r) = "none"
    BY <1>3, <1>5, <2>1, UnseenByGate DEF Decide
  <2>2. CASE HandoffRefusal(r) # "none"
    <3>1. HandoffRefusal(r) # "settled"
      BY DEF HandoffRefusal
    <3> QED BY <1>3, <1>5, <2>2, <3>1, ReportMaps DEF Decide, At
  <2> QED BY <2>1, <2>2
<1>6. CASE HandoffUnavailable(r) \/ SendHandoffFailed(r) \/ HandoffTimeout(r)
  <2>1. CloseHandoff(r, "unreachable", r) /\ pc[r] \in HandingOff
    BY <1>6 DEF HandoffUnavailable, SendHandoffFailed, HandoffTimeout, At, HandingOff
  <2> QED BY <1>3, <2>1, ReportMaps DEF CloseHandoff
<1>7. CASE AcceptHandoff(r)
  <2>1. PICK m \in Replies(r, Specialist(track[r])) : CloseHandoff(r, m.status, m.thread)
    BY <1>7 DEF AcceptHandoff
  <2>2. /\ m.kind = "verdict" /\ VerdictOk(m)
        /\ m.agent \in {"settlement", "trading", "fan_pundit"}
    BY <2>1, ParameterAssumption
    DEF Replies, IInv, LogInv, TypeOK, Tracks, Specialist
  <2>3. m.status # "none"
    BY <2>2 DEF VerdictOk, SettlementVerdict, Stances
  <2>4. outcome'[r].status = m.status
    BY <2>1 DEF CloseHandoff, IInv, TypeOK
  <2>5. ASSUME m.status = "settled"
        PROVE  [id |-> r, status |-> "settled"] \in Settlements'
    <3>1. PICK v \in VerdictsFor(r, "settlement")' :
            v.status = "settled" /\ v.wager = verified'[r]
      BY <2>4, <2>5 DEF IInv, SettlementIsBacked
    <3>2. v \in log' /\ v.kind = "verdict" /\ v.agent = "settlement" /\ v.thread = r
      BY <3>1 DEF VerdictsFor
    <3>3. verified'[r] # NoWager
      BY <3>2 DEF IInv, LogInv, VerdictOk
    <3>4. v.wager.id = r
      BY <3>1, <3>3 DEF IInv, WagerInv, SameBet, Ruled
    <3> QED BY <3>1, <3>2, <3>4 DEF Settlements
  <2>6. pc[r] \in HandingOff
    BY <1>7 DEF AcceptHandoff, At, HandingOff
  <2> QED BY <1>3, <2>1, <2>3, <2>5, <2>6, ReportMaps DEF CloseHandoff
<1> QED BY <1>4, <1>5, <1>6, <1>7

(* proof-guard's answer attests, settlement-agent's rules. *)
LEMMA ReplyMaps ==
  ASSUME TraceInv, NEW s \in Sessions, NEW a \in Agents, Reply(s, a)
  PROVE  \/ \E r \in Rounds : Gate!Attest(r) \/ Gate!Rule(r)
         \/ UNCHANGED Gate!gateVars
<1> USE DEF Reply, Handling, deskVars, roundVars, serverVars, config
<1>0. UNCHANGED <<wager, verified, outcome, [q \in Rounds |-> Result(q)]>>
  BY DEF Result
<1>1. PICK m \in busy :
        IF m.kind = "request"
        THEN \E v \in Verdicts(m) : log' = log \cup {v}
        ELSE log' = log
  OBVIOUS
<1>2. CASE m.kind # "request"
  <2>1. Attestations' = Attestations /\ Settlements' = Settlements
    BY <1>1, <1>2 DEF Attestations, Settlements
  <2> QED BY <1>0, <2>1, UnseenByGate
<1>3. CASE m.kind = "request"
  <2>1. PICK v \in Verdicts(m) : log' = log \cup {v}
    BY <1>1, <1>3
  <2>2. m \in log
    BY DEF TraceInv, IInv, TypeOK
  <2>3. /\ v.kind = "verdict" /\ v.agent = m.agent
        /\ v.thread = m.thread /\ m.thread \in Rounds /\ VerdictOk(v)
    BY <1>3, <2>1, <2>2, ReplySays DEF TraceInv
  <2>4. \A b : {w \in log' : w.kind = "verdict" /\ w.agent = b}
                 = {w \in log : w.kind = "verdict" /\ w.agent = b}
                     \cup (IF b = v.agent THEN {v} ELSE {})
    BY <2>1, <2>3
  <2>5. CASE v.agent = "proof_guard"
    <3>1. Attestations' = Attestations \cup {v.wager} /\ Settlements' = Settlements
      BY <2>4, <2>5 DEF Attestations, Settlements
    <3>2. wager[m.thread] # NoWager /\ v.wager = ProofGuardVerify(wager[m.thread])
      BY <2>3, <2>5 DEF VerdictOk
    <3> QED BY <1>0, <2>3, <3>1, <3>2, SameRules DEF Gate!Attest
  <2>6. CASE v.agent = "settlement"
    <3>1. /\ Attestations' = Attestations
          /\ Settlements' = Settlements \cup {[id |-> v.wager.id, status |-> v.status]}
      BY <2>4, <2>6 DEF Attestations, Settlements
    <3>2. /\ verified[m.thread] # NoWager /\ v.wager = verified[m.thread]
          /\ v.status = SettlementVerdict(verified[m.thread])
      BY <2>3, <2>6 DEF VerdictOk
    <3>3. v.wager.id = m.thread
      BY <2>3, <3>2 DEF TraceInv, IInv, WagerInv, SameBet, Ruled
    <3>4. verified[m.thread].proofRef # "none"
      BY <1>3, <2>2, <2>3, <2>6 DEF TraceInv, AskInv, IInv, LogInv, RequestOk
    <3> QED BY <1>0, <2>3, <3>1, <3>2, <3>3, <3>4, SameRules DEF Gate!Rule
  <2>7. CASE v.agent \notin {"proof_guard", "settlement"}
    <3>1. Attestations' = Attestations /\ Settlements' = Settlements
      BY <2>4, <2>7 DEF Attestations, Settlements
    <3> QED BY <1>0, <3>1, UnseenByGate
  <2> QED BY <2>5, <2>6, <2>7
<1> QED BY <1>2, <1>3

(* The transcript is no verdict. *)
LEMMA PublishMaps ==
  ASSUME NEW r \in Rounds, PublishUnavailable(r) \/ Publish(r)
  PROVE  UNCHANGED Gate!gateVars
<1>1. \A m \in log' : m \in log \/ m.kind # "verdict"
  <2>1. CASE PublishUnavailable(r)
    BY <2>1 DEF PublishUnavailable
  <2>2. CASE Publish(r)
    <3>1. PICK M \in MentionedSoFar(r) : log' = log \cup M
      BY <2>2, TranscriptPosted
    <3> QED BY <3>1, TranscriptIsChatter
  <2> QED BY <2>1, <2>2
<1>2. log \subseteq log'
  BY DEF PublishUnavailable, Publish, Post
<1>3. \A b : {w \in log' : w.kind = "verdict" /\ w.agent = b}
               = {w \in log : w.kind = "verdict" /\ w.agent = b}
  BY <1>1, <1>2
<1>4. Attestations' = Attestations /\ Settlements' = Settlements
  BY <1>3 DEF Attestations, Settlements
<1> QED BY <1>4, UnseenByGate DEF PublishUnavailable, Publish, roundVars

(* Every step is one of the promise's, or none. *)
LEMMA StepMaps ==
  ASSUME TraceInv, IInv', [Next]_vars
  PROVE  [Gate!Next]_(Gate!gateVars)
<1> USE DEF roundVars, deskVars, TraceInv
<1>1. ASSUME NEW r \in Rounds, BeginRound(r) \/ RoundStep(r)
      PROVE  [Gate!Next]_(Gate!gateVars)
  <2>1. CASE \/ BeginRound(r) \/ EnsureOk(r) \/ EnsureFailed(r) \/ LazyEnsureOk(r)
             \/ NoRuling(r) \/ NoSignal(r)
    <3>1. UNCHANGED <<wager, verified, outcome, log>>
      BY <2>1 DEF BeginRound, EnsureOk, EnsureFailed, LazyEnsureOk, NoRuling, NoSignal
    <3>2. Attestations' = Attestations /\ Settlements' = Settlements
      BY <3>1 DEF Attestations, Settlements
    <3> QED BY <3>1, <3>2, UnseenByGate
  <2>2. CASE Propose(r)
    BY <2>2, ProposeMaps DEF Gate!Next
  <2>3. CASE \/ ProofUnavailable(r) \/ SendProof(r) \/ SendProofFailed(r)
             \/ AcceptProofVerdict(r) \/ ProofTimeout(r)
    BY <2>3, ProofMaps DEF Gate!Next
  <2>4. CASE \/ Decide(r) \/ HandoffUnavailable(r) \/ SendHandoff(r)
             \/ SendHandoffFailed(r) \/ AcceptHandoff(r) \/ HandoffTimeout(r)
    BY <2>4, HandoffMaps DEF Gate!Next
  <2>5. CASE PublishUnavailable(r) \/ Publish(r)
    BY <2>5, PublishMaps
  <2> QED BY <1>1, <2>1, <2>2, <2>3, <2>4, <2>5 DEF RoundStep, BoundedStep
<1>2. ASSUME NEW s \in Sessions, NEW a \in Agents,
             AgentStep(s, a) \/ AgentFailure(s, a)
      PROVE  [Gate!Next]_(Gate!gateVars)
  <2>1. CASE Reply(s, a)
    BY <2>1, ReplyMaps DEF Gate!Next
  <2>2. CASE Receive(s, a) \/ StopAtCap(s, a) \/ LoseMention(s, a) \/ ReplyLost(s, a)
    <3>1. UNCHANGED <<wager, verified, outcome, log>>
      BY <2>2 DEF Receive, StopAtCap, LoseMention, ReplyLost
    <3>2. Attestations' = Attestations /\ Settlements' = Settlements
      BY <3>1 DEF Attestations, Settlements
    <3> QED BY <3>1, <3>2, UnseenByGate
  <2> QED BY <1>2, <2>1, <2>2 DEF AgentStep, AgentFailure
<1>3. ASSUME NEW s \in Sessions, SessionLost(s)
      PROVE  [Gate!Next]_(Gate!gateVars)
  <2>1. UNCHANGED <<wager, verified, outcome, log>>
    BY <1>3 DEF SessionLost
  <2>2. Attestations' = Attestations /\ Settlements' = Settlements
    BY <2>1 DEF Attestations, Settlements
  <2> QED BY <2>1, <2>2, UnseenByGate
<1>4. CASE UNCHANGED vars
  <2>1. UNCHANGED <<wager, verified, outcome, log>>
    BY <1>4 DEF vars
  <2>2. Attestations' = Attestations /\ Settlements' = Settlements
    BY <2>1 DEF Attestations, Settlements
  <2> QED BY <2>1, <2>2, UnseenByGate
<1> QED BY <1>1, <1>2, <1>3, <1>4 DEF Next, Quiescent

-----------------------------------------------------------------------------
(* The theorems                                                            *)

(* The invariant holds in every reachable state. *)
LEMMA Invariant == Spec => []IInv
BY InitInv, StepInv, PTL DEF Spec

(* Every variable keeps its type, for any number of rounds, sessions and   *)
(* failures.                                                               *)
THEOREM TypeCorrect == Spec => []TypeOK
<1>1. IInv => TypeOK
  BY DEF IInv
<1> QED BY <1>1, Invariant, PTL

(* The gate fails closed: ProofPassed is proof-guard's word on this wager. *)
THEOREM GateFailsClosed == Spec => []FailClosedGate
<1>1. IInv => FailClosedGate
  BY DEF IInv
<1> QED BY <1>1, Invariant, PTL

(* A round acts on its own wager, however many share its session.          *)
THEOREM VerifiedIsOwnThm == Spec => []VerifiedIsOwn
<1>1. IInv => VerifiedIsOwn
  BY DEF IInv, WagerInv, VerifiedIsOwn
<1> QED BY <1>1, Invariant, PTL

(* A settled outcome has a settlement verdict on a staked wager behind it. *)
THEOREM SettlementBacked == Spec => []SettlementIsBacked
<1>1. IInv => SettlementIsBacked
  BY DEF IInv
<1> QED BY <1>1, Invariant, PTL

(* Specialists are delegated the verified wager only.                      *)
THEOREM HandoffVerified == Spec => []HandoffUsesVerifiedWager
<1>1. IInv => HandoffUsesVerifiedWager
  BY DEF IInv, LogInv, RequestOk, HandoffUsesVerifiedWager
<1> QED BY <1>1, Invariant, PTL

(* A round's messages are in the one session it polls.                     *)
THEOREM RoundKeepsSession == Spec => []OneSessionPerRound
<1>1. IInv => OneSessionPerRound
  BY DEF IInv, LogInv, OneSessionPerRound
<1> QED BY <1>1, Invariant, PTL

(* The trace invariant holds in every reachable state. *)
LEMMA TraceInvariant == Spec => []TraceInv
BY InitTrace, StepTrace, PTL DEF Spec

(* Every verdict answers a delegation made to that agent in that thread    *)
(* and session, and is the only one, whatever is lost on the way.          *)
THEOREM VerdictsAnswered == Spec => []VerdictsAnswerRequests
<1>1. TraceInv => VerdictsAnswerRequests
  BY DEF TraceInv, AnswerInv, Answers, VerdictsAnswerRequests
<1> QED BY <1>1, TraceInvariant, PTL

(* The rounds implement the promise on their wagers (WagerGate), for any   *)
(* number of rounds, sessions, agents and failures.                        *)
THEOREM GateImplemented == Spec => ImplementsWagerGate
<1>1. Init => Gate!Init
  BY DEF Init, Gate!Init, Attestations, Settlements, Result
<1>2. TraceInv /\ TraceInv' /\ [Next]_vars => [Gate!Next]_(Gate!gateVars)
  BY StepMaps DEF TraceInv
<1> QED BY <1>1, <1>2, TraceInvariant, PTL DEF Spec, ImplementsWagerGate, Gate!Spec

-----------------------------------------------------------------------------
(* A round comes to its end                                                *)

(* How many steps the round has ahead of it at most: two for each place it *)
(* has yet to pass, or one for a place where it stays to open a session.   *)
Places(p) ==
  CASE p = "idle"         -> 9  [] p = "ensuring"     -> 8
    [] p = "proposing"    -> 7  [] p = "proof_send"   -> 6
    [] p = "proof_wait"   -> 5  [] p = "decide"       -> 4
    [] p = "handoff_send" -> 3  [] p = "handoff_wait" -> 2
    [] p = "publish"      -> 1  [] p = "done"         -> 0

Ahead(r) == 2 * Places(pc[r]) + (IF live[r] = NoSession THEN 1 ELSE 0)

(* Each step a round takes, whatever fails in it, leaves it fewer steps    *)
(* ahead, nobody else's gives it more, and the session it has is the one   *)
(* it keeps: no send, poll or session of a round is ever tried again, and  *)
(* nineteen steps are the most it takes.                                   *)
RoundsAdvance ==
  [][\A r \in Rounds :
       /\ Ahead(r)' \in 0..19 /\ Ahead(r)' <= Ahead(r)
       /\ BeginRound(r) \/ RoundStep(r) => Ahead(r)' < Ahead(r)
       /\ live[r] # NoSession => live'[r] = live[r]]_vars

(* The places passed, as numbers. *)
LEMMA PlacesAre ==
  /\ Places("idle") = 9 /\ Places("ensuring") = 8 /\ Places("proposing") = 7
  /\ Places("proof_send") = 6 /\ Places("proof_wait") = 5 /\ Places("decide") = 4
  /\ Places("handoff_send") = 3 /\ Places("handoff_wait") = 2
  /\ Places("publish") = 1 /\ Places("done") = 0
BY DEF Places

(* Every place has its number. *)
LEMMA PlacesNumbered ==
  ASSUME NEW p \in Pcs
  PROVE  Places(p) \in 0..9
<1> USE PlacesAre
<1> QED BY DEF Pcs

(* A round moves to a later place or, where it stands, gets its session,   *)
(* which it did not have.                                                  *)
Moves(r) ==
  \/ /\ pc' = [pc EXCEPT ![r] = pc'[r]] /\ Places(pc'[r]) < Places(pc[r])
     /\ pc'[r] \in Pcs
     /\ \/ live' = live
        \/ live[r] = NoSession /\ live' = [live EXCEPT ![r] = live'[r]]
  \/ /\ pc' = pc /\ live[r] = NoSession
     /\ live' = [live EXCEPT ![r] = live'[r]] /\ live'[r] # NoSession

(* The steps that leave the session alone move the round on. *)
LEMMA StepGoesOn ==
  ASSUME IInv, NEW r \in Rounds,
         \/ BeginRound(r) \/ EnsureFailed(r) \/ NoRuling(r) \/ Propose(r)
         \/ ProofUnavailable(r) \/ SendProof(r) \/ SendProofFailed(r)
         \/ AcceptProofVerdict(r) \/ ProofTimeout(r)
         \/ NoSignal(r) \/ Decide(r)
         \/ HandoffUnavailable(r) \/ SendHandoff(r) \/ SendHandoffFailed(r)
         \/ AcceptHandoff(r) \/ HandoffTimeout(r)
         \/ PublishUnavailable(r) \/ Publish(r)
  PROVE  Moves(r)
<1>1. pc \in [Rounds -> Pcs]
  BY DEF IInv, TypeOK
<1>2. live' = live
  BY Zenon DEF BeginRound, EnsureFailed, NoRuling, Propose, ProofUnavailable, SendProof,
         SendProofFailed, AcceptProofVerdict, ProofTimeout, CloseProof, NoSignal, Decide,
         HandoffUnavailable, SendHandoff, SendHandoffFailed, AcceptHandoff, HandoffTimeout,
         CloseHandoff, PublishUnavailable, Publish
<1>3. \E p, q \in Pcs : pc[r] = p /\ pc' = [pc EXCEPT ![r] = q] /\ Places(q) < Places(p)
  <2> USE PlacesAre DEF At, Goto, Pcs
  <2>1. CASE BeginRound(r) \/ EnsureFailed(r) \/ NoRuling(r) \/ Propose(r)
    BY <2>1 DEF BeginRound, EnsureFailed, NoRuling, Propose
  <2>2. CASE \/ ProofUnavailable(r) \/ SendProof(r) \/ SendProofFailed(r)
             \/ AcceptProofVerdict(r) \/ ProofTimeout(r)
    <3>1. /\ pc[r] = "proof_send" \/ pc[r] = "proof_wait"
          /\ \/ pc' = [pc EXCEPT ![r] = "decide"]
             \/ pc[r] = "proof_send" /\ pc' = [pc EXCEPT ![r] = "proof_wait"]
      BY <2>2, Zenon DEF ProofUnavailable, SendProof, SendProofFailed, AcceptProofVerdict,
         ProofTimeout, CloseProof
    <3> QED BY <3>1
  <2>3. CASE NoSignal(r) \/ Decide(r)
    <3>1. /\ pc[r] = "decide"
          /\ pc' = [pc EXCEPT ![r] = "publish"] \/ pc' = [pc EXCEPT ![r] = "handoff_send"]
      BY <2>3, Zenon DEF NoSignal, Decide
    <3> QED BY <3>1
  <2>4. CASE \/ HandoffUnavailable(r) \/ SendHandoff(r) \/ SendHandoffFailed(r)
             \/ AcceptHandoff(r) \/ HandoffTimeout(r)
    <3>1. /\ pc[r] = "handoff_send" \/ pc[r] = "handoff_wait"
          /\ \/ pc' = [pc EXCEPT ![r] = "publish"]
             \/ pc[r] = "handoff_send" /\ pc' = [pc EXCEPT ![r] = "handoff_wait"]
      BY <2>4, Zenon DEF HandoffUnavailable, SendHandoff, SendHandoffFailed, AcceptHandoff,
         HandoffTimeout, CloseHandoff
    <3> QED BY <3>1
  <2>5. CASE PublishUnavailable(r) \/ Publish(r)
    BY <2>5 DEF PublishUnavailable, Publish
  <2> QED BY <2>1, <2>2, <2>3, <2>4, <2>5
<1>4. PICK p \in Pcs, q \in Pcs :
        pc[r] = p /\ pc' = [pc EXCEPT ![r] = q] /\ Places(q) < Places(p)
  BY <1>3
<1>5. pc'[r] = q
  BY <1>1, <1>4
<1> QED BY <1>2, <1>4, <1>5 DEF Moves

(* A session opened is one of the sessions. *)
LEMMA OpensSession ==
  ASSUME IInv, NEW r \in Rounds, EnsureOk(r) \/ LazyEnsureOk(r)
  PROVE  Moves(r)
<1>1. pc \in [Rounds -> Pcs] /\ live \in [Rounds -> Sessions \cup {NoSession}]
  BY DEF IInv, TypeOK
<1>2. live[r] = NoSession
  BY DEF IInv, PcInv, EnsureOk, LazyEnsureOk, NeedsSession, At
<1>3. PICK s \in Sessions : live' = [live EXCEPT ![r] = s]
  BY DEF EnsureOk, LazyEnsureOk
<1>4. live'[r] = s /\ s # NoSession
  BY <1>1, <1>3, SessionAssumption
<1>5. CASE EnsureOk(r)
  <2>1. pc[r] = "ensuring" /\ pc' = [pc EXCEPT ![r] = "proposing"]
    BY <1>5 DEF EnsureOk, At, Goto
  <2>2. pc'[r] = "proposing" /\ "proposing" \in Pcs
    BY <1>1, <2>1 DEF Pcs
  <2>3. Places(pc'[r]) < Places(pc[r])
    BY <2>1, <2>2, PlacesAre
  <2> QED BY <1>2, <1>3, <1>4, <2>1, <2>2, <2>3 DEF Moves
<1>6. CASE LazyEnsureOk(r)
  <2>1. pc' = pc
    BY <1>6 DEF LazyEnsureOk
  <2> QED BY <1>2, <1>3, <1>4, <2>1 DEF Moves
<1> QED BY <1>5, <1>6

(* Where the round stands and whether it has a session, in numbers. *)
LEMMA AheadIs ==
  ASSUME TypeOK, NEW r \in Rounds
  PROVE  /\ Places(pc[r]) \in 0..9 /\ Ahead(r) \in 0..19
         /\ live[r] = NoSession => Ahead(r) = 2 * Places(pc[r]) + 1
         /\ live[r] # NoSession => Ahead(r) = 2 * Places(pc[r])
<1>1. Places(pc[r]) \in 0..9
  BY PlacesNumbered DEF TypeOK
<1> QED BY <1>1 DEF Ahead

(* A move of a round leaves it fewer steps, and the others theirs.         *)
LEMMA MovesAdvance ==
  ASSUME TypeOK, TypeOK', NEW r \in Rounds, Moves(r)
  PROVE  /\ Ahead(r)' < Ahead(r)
         /\ live[r] # NoSession => live'[r] = live[r]
         /\ \A q \in Rounds \ {r} : live'[q] = live[q] /\ Ahead(q)' = Ahead(q)
<1>0. pc \in [Rounds -> Pcs] /\ live \in [Rounds -> Sessions \cup {NoSession}]
  BY DEF TypeOK
<1>1. \A q \in Rounds \ {r} : live'[q] = live[q] /\ pc'[q] = pc[q]
  <2>1. /\ pc' = [pc EXCEPT ![r] = pc'[r]] \/ pc' = pc
        /\ live' = [live EXCEPT ![r] = live'[r]] \/ live' = live
    BY Zenon DEF Moves
  <2> QED BY <1>0, <2>1
<1>2. \A q \in Rounds \ {r} : live'[q] = live[q] /\ Ahead(q)' = Ahead(q)
  BY <1>1 DEF Ahead
<1>3. live[r] # NoSession => live'[r] = live[r]
  BY DEF Moves
<1>4. \/ Places(pc'[r]) < Places(pc[r])
      \/ pc' = pc /\ live[r] = NoSession /\ live'[r] # NoSession
  BY Zenon DEF Moves
<1>5. /\ Places(pc[r]) \in 0..9
      /\ live[r] = NoSession => Ahead(r) = 2 * Places(pc[r]) + 1
      /\ live[r] # NoSession => Ahead(r) = 2 * Places(pc[r])
  BY AheadIs
<1>6. /\ Places(pc'[r]) \in 0..9
      /\ live'[r] = NoSession => Ahead(r)' = 2 * Places(pc'[r]) + 1
      /\ live'[r] # NoSession => Ahead(r)' = 2 * Places(pc'[r])
  <2>1. Places(pc'[r]) \in 0..9
    BY PlacesNumbered DEF TypeOK
  <2> QED BY <2>1 DEF Ahead
<1>7. Ahead(r)' < Ahead(r)
  <2>1. CASE Places(pc'[r]) < Places(pc[r])
    <3>1. live'[r] = NoSession => live[r] = NoSession
      BY <1>3
    <3> QED BY <1>5, <1>6, <2>1, <3>1
  <2>2. CASE pc' = pc /\ live[r] = NoSession /\ live'[r] # NoSession
    BY <1>5, <1>6, <2>2
  <2> QED BY <1>4, <2>1, <2>2
<1> QED BY <1>2, <1>3, <1>7

(* The agents' and the server's steps do not move a round. *)
LEMMA OthersLeaveRounds ==
  ASSUME \/ \E s \in Sessions, a \in Agents : AgentStep(s, a) \/ AgentFailure(s, a)
         \/ \E s \in Sessions : SessionLost(s)
         \/ UNCHANGED vars
  PROVE  UNCHANGED <<pc, live>>
BY DEF AgentStep, AgentFailure, Receive, StopAtCap, Reply, LoseMention, ReplyLost, SessionLost,
       deskVars, vars

(* Every round, whatever fails, has a bounded number of steps ahead of it, *)
(* which each of its steps reduces: RoundEnds without its fairness.        *)
THEOREM RoundsOnlyAdvance == Spec => RoundsAdvance
<1>1. ASSUME IInv, IInv', [Next]_vars, NEW r \in Rounds
      PROVE  /\ Ahead(r)' \in 0..19 /\ Ahead(r)' <= Ahead(r)
             /\ BeginRound(r) \/ RoundStep(r) => Ahead(r)' < Ahead(r)
             /\ live[r] # NoSession => live'[r] = live[r]
  <2>1. TypeOK /\ TypeOK'
    BY <1>1 DEF IInv
  <2>2. Ahead(r) \in 0..19
    BY <2>1, AheadIs
  <2>3. ASSUME NEW q \in Rounds, BeginRound(q) \/ RoundStep(q)
        PROVE  Moves(q)
    BY <1>1, <2>3, StepGoesOn, OpensSession, Zenon DEF RoundStep, BoundedStep
  <2>4. BeginRound(r) \/ RoundStep(r) => Ahead(r)' < Ahead(r)
    BY <2>1, <2>3, MovesAdvance
  <2>5. Ahead(r)' \in 0..19
    <3>1. Places(pc'[r]) \in 0..9
      BY <2>1, PlacesNumbered DEF TypeOK
    <3> QED BY <3>1 DEF Ahead
  <2>6. /\ Ahead(r)' <= Ahead(r)
        /\ live[r] # NoSession => live'[r] = live[r]
    <3>1. ASSUME NEW q \in Rounds, Moves(q)
          PROVE  /\ Ahead(r)' <= Ahead(r)
                 /\ live[r] # NoSession => live'[r] = live[r]
      <4>1. CASE q = r
        BY <2>1, <2>2, <2>5, <3>1, <4>1, MovesAdvance
      <4>2. CASE q # r
        BY <2>1, <2>2, <3>1, <4>2, MovesAdvance
      <4> QED BY <4>1, <4>2
    <3>2. CASE UNCHANGED <<pc, live>>
      BY <2>2, <3>2 DEF Ahead
    <3>3. \/ \E q \in Rounds : BeginRound(q) \/ RoundStep(q)
          \/ \E s \in Sessions, a \in Agents : AgentStep(s, a) \/ AgentFailure(s, a)
          \/ \E s \in Sessions : SessionLost(s)
          \/ UNCHANGED vars
      BY <1>1, Zenon DEF Next, Quiescent
    <3> QED BY <2>3, <3>1, <3>2, <3>3, OthersLeaveRounds
  <2> QED BY <2>4, <2>5, <2>6
<1>2. IInv /\ IInv' /\ [Next]_vars =>
        [\A r \in Rounds :
           /\ Ahead(r)' \in 0..19 /\ Ahead(r)' <= Ahead(r)
           /\ BeginRound(r) \/ RoundStep(r) => Ahead(r)' < Ahead(r)
           /\ live[r] # NoSession => live'[r] = live[r]]_vars
  BY <1>1
<1> QED BY <1>2, Invariant, PTL DEF Spec, RoundsAdvance

-----------------------------------------------------------------------------
(* A stale session id goes                                                 *)

(* The ids coral-server was ever asked for or told of. *)
Known == created \cup ({ConfiguredSession} \ {NoSession})

KnownSessions ==
  /\ up \subseteq Known
  /\ persisted \in Known \cup {NoSession}
  /\ \A r \in Rounds :
       override[r] \in Known \cup {NoSession} /\ live[r] \in Known \cup {NoSession}

(* A session that is gone stays gone, and its id is never persisted anew;  *)
(* a round that took it for its own can only fail to obtain it, and then   *)
(* no id is persisted (mod.rs, console.rs: ensure_session_with_override).  *)
StaleIdsGo ==
  [][\A s \in Known : s \notin up =>
       /\ s \in Known' /\ s \notin up'
       /\ persisted # s => persisted' # s
       /\ \A r \in Rounds :
            pc[r] = "ensuring" /\ override[r] = s =>
              \/ pc'[r] = "ensuring" /\ override'[r] = s
              \/ pc'[r] = "proposing" /\ persisted' = NoSession]_vars

(* What a step may do to the sessions: make an unknown one, lose one, and  *)
(* hand on only those that are up or that it has read.                     *)
ServerMoves ==
  /\ Known \subseteq Known'
  /\ \A x \in up' : x \in up \/ x \in Known' \ Known
  /\ persisted' = persisted \/ persisted' = NoSession \/ persisted' \in up'

IdsMove ==
  \A r \in Rounds :
    /\ override'[r] = override[r] \/ override'[r] = persisted
    /\ live'[r] = live[r] \/ live'[r] \in up'

(* A session opened is the one wanted, which is up, or a new one. *)
LEMMA OpenedIs ==
  ASSUME NEW o \in Sessions \cup {NoSession}, NEW s \in Sessions, SessionOpened(o, s)
  PROVE  /\ s \in up'
         /\ o # NoSession => o = s /\ s \in up
         /\ Known \subseteq Known'
         /\ \A x \in up' : x \in up \/ x \in Known' \ Known
<1>1. CASE Wanted(o) # NoSession /\ s = Wanted(o) /\ s \in up /\ UNCHANGED serverVars
  BY <1>1 DEF Wanted, serverVars, Known
<1>2. CASE Wanted(o) = NoSession /\ s \in Fresh /\ created' = created \cup {s} /\ up' = up \cup {s}
  <2>1. o = NoSession
    BY <1>2 DEF Wanted
  <2>2. s \notin created /\ s # ConfiguredSession
    BY <1>2 DEF Fresh
  <2> QED BY <1>2, <2>1, <2>2 DEF Known
<1> QED BY <1>1, <1>2 DEF SessionOpened

(* A failed attempt leaves the sessions alone, or a new one behind. *)
LEMMA RefusedLeaves ==
  ASSUME NEW o, SessionRefused(o)
  PROVE  /\ Known \subseteq Known'
         /\ \A x \in up' : x \in up \/ x \in Known' \ Known
<1>1. CASE UNCHANGED serverVars
  BY <1>1 DEF serverVars, Known
<1>2. CASE \E s \in Fresh : created' = created \cup {s} /\ up' = up \cup {s}
  <2>1. PICK s \in Fresh : created' = created \cup {s} /\ up' = up \cup {s}
    BY <1>2
  <2>2. s \notin created /\ s # ConfiguredSession
    BY DEF Fresh
  <2> QED BY <2>1, <2>2 DEF Known
<1> QED BY <1>1, <1>2, Zenon DEF SessionRefused

(* The steps that touch the sessions. *)
LEMMA OpeningMoves ==
  ASSUME TypeOK, NEW r \in Rounds,
         \/ EnsureOk(r) \/ EnsureFailed(r) \/ LazyEnsureOk(r)
         \/ ProofUnavailable(r) \/ HandoffUnavailable(r) \/ PublishUnavailable(r)
  PROVE  /\ ServerMoves /\ IdsMove /\ override' = override
         /\ EnsureOk(r) => override[r] = NoSession \/ override[r] \in up
         /\ EnsureFailed(r) => persisted' = NoSession
<1>0. override[r] \in Sessions \cup {NoSession}
      /\ live \in [Rounds -> Sessions \cup {NoSession}]
  BY DEF TypeOK
<1>1. CASE EnsureOk(r)
  <2>1. PICK s \in Sessions : SessionOpened(override[r], s) /\ persisted' = s
                              /\ live' = [live EXCEPT ![r] = s]
    BY <1>1, Zenon DEF EnsureOk
  <2>2. /\ s \in up'
        /\ override[r] # NoSession => override[r] = s /\ s \in up
        /\ Known \subseteq Known' /\ \A x \in up' : x \in up \/ x \in Known' \ Known
    BY <1>0, <2>1, OpenedIs
  <2>3. override' = override
    BY <1>1, Zenon DEF EnsureOk
  <2>4. persisted' = s
    BY <2>1, Zenon
  <2>5. ServerMoves
    BY <2>2, <2>4 DEF ServerMoves
  <2>6. ASSUME NEW q \in Rounds
        PROVE  live'[q] = live[q] \/ live'[q] = s
    <3>1. live' = [live EXCEPT ![r] = s]
      BY <2>1, Zenon
    <3> QED BY <1>0, <3>1
  <2>7. IdsMove
    BY <2>2, <2>3, <2>6 DEF IdsMove
  <2>8. EnsureFailed(r) => persisted' = NoSession
    BY DEF EnsureFailed
  <2>9. override[r] = NoSession \/ override[r] \in up
    BY <2>2
  <2> QED BY <2>3, <2>5, <2>7, <2>8, <2>9
<1>2. CASE LazyEnsureOk(r)
  <2>1. PICK s \in Sessions : SessionOpened(NoSession, s) /\ live' = [live EXCEPT ![r] = s]
    BY <1>2, Zenon DEF LazyEnsureOk
  <2>2. /\ s \in up'
        /\ Known \subseteq Known' /\ \A x \in up' : x \in up \/ x \in Known' \ Known
    BY <2>1, OpenedIs
  <2>3. UNCHANGED <<persisted, override>>
    BY <1>2, Zenon DEF LazyEnsureOk
  <2>4. ServerMoves
    BY <2>2, <2>3 DEF ServerMoves
  <2>5. ASSUME NEW q \in Rounds
        PROVE  live'[q] = live[q] \/ live'[q] = s
    <3>1. live' = [live EXCEPT ![r] = s]
      BY <2>1, Zenon
    <3> QED BY <1>0, <3>1
  <2>6. IdsMove
    BY <2>2, <2>3, <2>5 DEF IdsMove
  <2>7. pc[r] # "ensuring"
    BY <1>2 DEF LazyEnsureOk, NeedsSession
  <2> QED BY <2>3, <2>4, <2>6, <2>7 DEF EnsureOk, EnsureFailed, At
<1>3. CASE \/ EnsureFailed(r)
           \/ ProofUnavailable(r) \/ HandoffUnavailable(r) \/ PublishUnavailable(r)
  <2>1. /\ UNCHANGED serverVars \/ SessionRefused(NoSession) \/ SessionRefused(override[r])
        /\ UNCHANGED <<override, live>>
        /\ persisted' = persisted \/ persisted' = NoSession
    BY <1>3, Zenon DEF EnsureFailed, ProofUnavailable, HandoffUnavailable, PublishUnavailable,
       CloseProof, CloseHandoff
  <2>2. /\ Known \subseteq Known' /\ \A x \in up' : x \in up \/ x \in Known' \ Known
    BY <2>1, RefusedLeaves DEF serverVars, Known
  <2>3. ServerMoves /\ IdsMove
    BY <2>1, <2>2 DEF ServerMoves, IdsMove
  <2>4. EnsureFailed(r) => persisted' = NoSession
    BY DEF EnsureFailed
  <2>5. CASE EnsureOk(r)
    BY <1>1, <2>5
  <2> QED BY <2>1, <2>3, <2>4, <2>5
<1> QED BY <1>1, <1>2, <1>3

(* Every other step leaves them alone, but for a session that is lost. *)
LEMMA OthersMove ==
  ASSUME TypeOK,
         \/ \E r \in Rounds :
              \/ BeginRound(r) \/ NoRuling(r) \/ Propose(r)
              \/ SendProof(r) \/ SendProofFailed(r) \/ AcceptProofVerdict(r) \/ ProofTimeout(r)
              \/ NoSignal(r) \/ Decide(r) \/ SendHandoff(r) \/ SendHandoffFailed(r)
              \/ AcceptHandoff(r) \/ HandoffTimeout(r) \/ Publish(r)
         \/ \E s \in Sessions, a \in Agents : AgentStep(s, a) \/ AgentFailure(s, a)
         \/ \E s \in Sessions : SessionLost(s)
         \/ UNCHANGED vars
  PROVE  /\ ServerMoves /\ IdsMove
         /\ \A r \in Rounds : override'[r] = override[r] \/ BeginRound(r)
<1>1. /\ UNCHANGED <<created, persisted, live>>
      /\ up' = up \/ \E s \in Sessions : up' = up \ {s}
      /\ override' = override \/ \E r \in Rounds : BeginRound(r)
  BY Zenon DEF BeginRound, NoRuling, Propose, SendProof, SendProofFailed, AcceptProofVerdict,
     ProofTimeout, CloseProof, NoSignal, Decide, SendHandoff, SendHandoffFailed, AcceptHandoff,
     HandoffTimeout, CloseHandoff, Publish, AgentStep, AgentFailure, Receive, StopAtCap, Reply,
     LoseMention, ReplyLost, SessionLost, serverVars, deskVars, vars
<1>2. ServerMoves
  BY <1>1 DEF ServerMoves, Known
<1>3. ASSUME NEW r \in Rounds, BeginRound(r), NEW q \in Rounds
      PROVE  /\ override'[q] = override[q] \/ override'[q] = persisted
             /\ q # r => override'[q] = override[q]
  BY <1>3 DEF BeginRound, TypeOK
<1> QED BY <1>1, <1>2, <1>3 DEF IdsMove

(* Which of the two a step is. *)
LEMMA StepsSplit ==
  ASSUME TypeOK, [Next]_vars
  PROVE  /\ ServerMoves /\ IdsMove
         /\ \A r \in Rounds : override'[r] = override[r] \/ BeginRound(r)
<1>1. CASE \E r \in Rounds :
             \/ EnsureOk(r) \/ EnsureFailed(r) \/ LazyEnsureOk(r)
             \/ ProofUnavailable(r) \/ HandoffUnavailable(r) \/ PublishUnavailable(r)
  BY <1>1, OpeningMoves
<1>2. CASE \/ \E r \in Rounds :
                \/ BeginRound(r) \/ NoRuling(r) \/ Propose(r)
                \/ SendProof(r) \/ SendProofFailed(r) \/ AcceptProofVerdict(r) \/ ProofTimeout(r)
                \/ NoSignal(r) \/ Decide(r) \/ SendHandoff(r) \/ SendHandoffFailed(r)
                \/ AcceptHandoff(r) \/ HandoffTimeout(r) \/ Publish(r)
           \/ \E s \in Sessions, a \in Agents : AgentStep(s, a) \/ AgentFailure(s, a)
           \/ \E s \in Sessions : SessionLost(s)
           \/ UNCHANGED vars
  BY <1>2, OthersMove
<1> QED BY <1>1, <1>2, Zenon DEF Next, RoundStep, BoundedStep, Quiescent

(* A round that ensures its session can only obtain it or fail to. *)
LEMMA EnsuringStep ==
  ASSUME IInv, NEW r \in Rounds, pc[r] = "ensuring", [Next]_vars, pc'[r] # "ensuring"
  PROVE  EnsureOk(r) \/ EnsureFailed(r)
<1>1. ASSUME NEW q \in Rounds, BeginRound(q) \/ RoundStep(q)
      PROVE  q = r
  <2>1. Moves(q)
    BY <1>1, StepGoesOn, OpensSession, Zenon DEF RoundStep, BoundedStep
  <2> QED BY <2>1 DEF Moves, IInv, TypeOK
<1>2. ~UNCHANGED pc
  OBVIOUS
<1>3. BeginRound(r) \/ RoundStep(r)
  <2>1. \/ \E q \in Rounds : BeginRound(q) \/ RoundStep(q)
        \/ \E s \in Sessions, a \in Agents : AgentStep(s, a) \/ AgentFailure(s, a)
        \/ \E s \in Sessions : SessionLost(s)
        \/ UNCHANGED vars
    BY Zenon DEF Next, Quiescent
  <2> QED BY <1>1, <1>2, <2>1, OthersLeaveRounds
<1>4. pc[r] \notin {"idle", "proposing", "proof_send", "proof_wait", "decide", "handoff_send",
                   "handoff_wait", "publish"}
  OBVIOUS
<1> QED BY <1>3, <1>4 DEF RoundStep, BoundedStep, BeginRound, LazyEnsureOk, NeedsSession,
      NoRuling, Propose,
      ProofUnavailable, SendProof, SendProofFailed, AcceptProofVerdict, ProofTimeout, NoSignal,
      Decide, HandoffUnavailable, SendHandoff, SendHandoffFailed, AcceptHandoff, HandoffTimeout,
      PublishUnavailable, Publish, At

(* The id of a session that is gone goes too, and for good, whatever other *)
(* rounds do meanwhile: with RoundsOnlyAdvance, StaleSessionHeals without  *)
(* its fairness.                                                           *)
THEOREM StaleIdsAreDropped == Spec => []KnownSessions /\ StaleIdsGo
<1>1. Init => KnownSessions
  BY DEF Init, KnownSessions, Known
<1>2. IInv /\ KnownSessions /\ [Next]_vars => KnownSessions'
  <2> SUFFICES ASSUME IInv, KnownSessions, [Next]_vars PROVE KnownSessions'
    OBVIOUS
  <2>1. ServerMoves /\ IdsMove
    BY StepsSplit DEF IInv
  <2>2. up' \subseteq Known'
    BY <2>1 DEF ServerMoves, KnownSessions
  <2>3. persisted' \in Known' \cup {NoSession}
    BY <2>1, <2>2 DEF ServerMoves, KnownSessions
  <2>4. ASSUME NEW r \in Rounds
        PROVE  override'[r] \in Known' \cup {NoSession} /\ live'[r] \in Known' \cup {NoSession}
    BY <2>1, <2>2 DEF ServerMoves, IdsMove, KnownSessions
  <2> QED BY <2>2, <2>3, <2>4 DEF KnownSessions
<1>3. ASSUME IInv, KnownSessions, [Next]_vars, NEW s \in Known, s \notin up
      PROVE  /\ s \in Known' /\ s \notin up'
             /\ persisted # s => persisted' # s
             /\ \A r \in Rounds :
                  pc[r] = "ensuring" /\ override[r] = s =>
                    \/ pc'[r] = "ensuring" /\ override'[r] = s
                    \/ pc'[r] = "proposing" /\ persisted' = NoSession
  <2>1. /\ ServerMoves /\ IdsMove /\ TypeOK
        /\ \A r \in Rounds : override'[r] = override[r] \/ BeginRound(r)
    BY <1>3, StepsSplit DEF IInv
  <2>2. s \in Known' /\ s \notin up'
    BY <1>3, <2>1 DEF ServerMoves
  <2>3. s # NoSession
    BY <1>3, <2>1, SessionAssumption DEF Known, TypeOK
  <2>4. persisted # s => persisted' # s
    BY <2>1, <2>2, <2>3 DEF ServerMoves
  <2>5. ASSUME NEW r \in Rounds, pc[r] = "ensuring", override[r] = s
        PROVE  \/ pc'[r] = "ensuring" /\ override'[r] = s
               \/ pc'[r] = "proposing" /\ persisted' = NoSession
    <3>1. override'[r] = s
      BY <2>1, <2>5 DEF BeginRound, At
    <3>2. CASE pc'[r] # "ensuring"
      <4>1. EnsureOk(r) \/ EnsureFailed(r)
        BY <1>3, <2>5, <3>2, EnsuringStep
      <4>2. EnsureFailed(r)
        BY <1>3, <2>1, <2>3, <2>5, <4>1, OpeningMoves
      <4> QED BY <2>1, <4>2 DEF EnsureFailed, Goto, TypeOK
    <3> QED BY <3>1, <3>2
  <2> QED BY <2>2, <2>4, <2>5
<1>4. IInv /\ KnownSessions /\ [Next]_vars =>
        [\A s \in Known : s \notin up =>
           /\ s \in Known' /\ s \notin up'
           /\ persisted # s => persisted' # s
           /\ \A r \in Rounds :
                pc[r] = "ensuring" /\ override[r] = s =>
                  \/ pc'[r] = "ensuring" /\ override'[r] = s
                  \/ pc'[r] = "proposing" /\ persisted' = NoSession]_vars
  BY <1>3
<1> QED BY <1>1, <1>2, <1>4, Invariant, PTL DEF Spec, StaleIdsGo

-----------------------------------------------------------------------------
(* No delegation is mislaid                                                *)

Answered(m) == VerdictsFor(m.thread, m.agent) # {}
Spent(m) == steps[m.session][m.agent] > MaxSteps

(* A delegation posted is queued, and leaves the queue and the hands of    *)
(* its specialist only by being answered, by being the one that finds the  *)
(* cap spent, or by a failure; an answer is never taken back, and a        *)
(* process that exited at its cap is not replaced (coral_client: run).     *)
DelegationsAreKept ==
  [][\A m \in log' :
       m.kind = "request" =>
         /\ m \notin log => m \in unseen'
         /\ m \in unseen \cup busy =>
              m \in unseen' \cup busy' \/ Answered(m)' \/ Spent(m)' \/ faults' > faults
         /\ Answered(m) => Answered(m)'
         /\ Spent(m) => Spent(m)']_vars

(* A specialist has one mention in hand at a time. *)
OneInHand ==
  \A m, n \in busy : m.session = n.session /\ m.agent = n.agent => m = n

(* Whatever a specialist does shortens a queue, or empties its hands. *)
QueuesDrain ==
  [][\A s \in Sessions, a \in Agents :
       AgentStep(s, a) =>
         \/ unseen' \subseteq unseen /\ unseen' # unseen
         \/ unseen' = unseen /\ busy' \subseteq busy /\ busy' # busy]_vars

(* What becomes of one delegation in a step. *)
Kept(m) ==
  /\ m \notin log => m \in unseen'
  /\ m \in unseen \cup busy =>
       m \in unseen' \cup busy' \/ Answered(m)' \/ Spent(m)' \/ faults' > faults
  /\ Answered(m) => Answered(m)'
  /\ Spent(m) => Spent(m)'

(* The rounds only add mentions. *)
LEMMA RoundsPost ==
  ASSUME NEW r \in Rounds, BeginRound(r) \/ RoundStep(r)
  PROVE  /\ UNCHANGED <<busy, steps>>
         /\ \E M : log' = log \cup M /\ unseen' = unseen \cup M
<1>1. UNCHANGED <<busy, steps>>
  BY Zenon DEF RoundStep, BoundedStep, BeginRound, EnsureOk, EnsureFailed, LazyEnsureOk,
      NoRuling, Propose,
     ProofUnavailable, SendProof, SendProofFailed, AcceptProofVerdict, ProofTimeout, CloseProof,
     NoSignal, Decide, HandoffUnavailable, SendHandoff, SendHandoffFailed, AcceptHandoff,
     HandoffTimeout, CloseHandoff, PublishUnavailable, Publish, agentVars
<1>2. UNCHANGED <<log, unseen>> \/ \E M : log' = log \cup M /\ unseen' = unseen \cup M
  <2>1. CASE SendProof(r) \/ SendProofFailed(r)
    BY <2>1, Zenon DEF SendProof, SendProofFailed, Post
  <2>2. CASE SendHandoff(r) \/ SendHandoffFailed(r)
    BY <2>2, Zenon DEF SendHandoff, SendHandoffFailed, Post
  <2>3. CASE Publish(r)
    BY <2>3, Zenon DEF Publish, Post
  <2>4. CASE \/ BeginRound(r) \/ EnsureOk(r) \/ EnsureFailed(r) \/ LazyEnsureOk(r)
             \/ NoRuling(r) \/ Propose(r) \/ ProofUnavailable(r)
             \/ AcceptProofVerdict(r) \/ ProofTimeout(r) \/ NoSignal(r) \/ Decide(r)
             \/ HandoffUnavailable(r) \/ AcceptHandoff(r) \/ HandoffTimeout(r)
             \/ PublishUnavailable(r)
    BY <2>4, Zenon DEF BeginRound, EnsureOk, EnsureFailed, LazyEnsureOk, NoRuling, Propose,
       ProofUnavailable, AcceptProofVerdict, ProofTimeout, NoSignal, Decide, HandoffUnavailable,
       AcceptHandoff, HandoffTimeout, PublishUnavailable
  <2> QED BY <2>1, <2>2, <2>3, <2>4, Zenon DEF RoundStep, BoundedStep
<1>3. CASE UNCHANGED <<log, unseen>>
  <2>1. log' = log \cup {} /\ unseen' = unseen \cup {}
    BY <1>3
  <2> QED BY <1>1, <2>1
<1> QED BY <1>1, <1>2, <1>3

(* So they keep every delegation. *)
LEMMA PostingKeeps ==
  ASSUME NEW m \in log', NEW M,
         log' = log \cup M, unseen' = unseen \cup M, UNCHANGED <<busy, steps>>
  PROVE  Kept(m)
<1>1. Answered(m) => Answered(m)'
  BY DEF Answered, VerdictsFor
<1> QED BY <1>1 DEF Kept, Spent

(* A process only counts up. *)
LEMMA CountsUp ==
  ASSUME TypeOK, NEW s \in Sessions, NEW a \in Agents, Tick(s, a),
         NEW t \in Sessions, NEW b \in Agents
  PROVE  /\ steps[t][b] \in Nat /\ steps'[t][b] >= steps[t][b]
         /\ steps'[s][a] = steps[s][a] + 1
<1>1. steps \in [Sessions -> [Agents -> 0..(MaxSteps + 1)]] /\ MaxSteps \in Nat
  BY ParameterAssumption DEF TypeOK
<1>2. steps' = [steps EXCEPT ![s] = [steps[s] EXCEPT ![a] = steps[s][a] + 1]]
  BY DEF Tick
<1>3. steps[t] \in [Agents -> 0..(MaxSteps + 1)] /\ steps[s] \in [Agents -> 0..(MaxSteps + 1)]
  BY <1>1
<1>4. steps'[t] = IF t = s THEN [steps[s] EXCEPT ![a] = steps[s][a] + 1] ELSE steps[t]
  BY <1>1, <1>2
<1>5. steps'[s][a] = steps[s][a] + 1
  BY <1>1, <1>2, <1>3
<1>6. steps'[t][b] = steps[t][b] \/ (t = s /\ b = a)
  <2>1. CASE t # s
    BY <1>4, <2>1
  <2>2. CASE t = s /\ b # a
    <3>1. steps'[t] = [steps[s] EXCEPT ![a] = steps[s][a] + 1]
      BY <1>4, <2>2
    <3>2. steps'[t][b] = steps[s][b]
      BY <1>3, <2>2, <3>1
    <3> QED BY <2>2, <3>2
  <2> QED BY <2>1, <2>2
<1>7. steps[t][b] \in Nat
  BY <1>1, <1>3
<1> QED BY <1>5, <1>6, <1>7

(* A specialist takes a mention, answers it, or stops at it. *)
LEMMA AgentsKeep ==
  ASSUME IInv, TypeOK', NEW s \in Sessions, NEW a \in Agents, AgentStep(s, a),
         NEW m \in log', m.kind = "request"
  PROVE  Kept(m)
<1>0. m.session \in Sessions /\ m.agent \in Agents
  BY DEF TypeOK, Messages
<1>1. TypeOK /\ MaxSteps \in Nat
  BY ParameterAssumption DEF IInv
<1>2. CASE Receive(s, a)
  <2>1. PICK n \in Queue(s, a) : unseen' = unseen \ {n} /\ busy' = busy \cup {n}
    BY <1>2 DEF Receive
  <2>2. log' = log /\ Tick(s, a)
    BY <1>2 DEF Receive
  <2>3. Spent(m) => Spent(m)'
    <3> DEFINE now == steps[m.session][m.agent]
               next == steps'[m.session][m.agent]
    <3>1. now \in Nat /\ next >= now
      BY <1>0, <1>1, <2>2, CountsUp
    <3>2. next \in Nat
      BY <1>0, <1>1 DEF TypeOK
    <3> HIDE DEF now, next
    <3>3. now > MaxSteps => next > MaxSteps
      BY <1>1, <3>1, <3>2
    <3> QED BY <3>3 DEF Spent, now, next
  <2>4. Answered(m)' = Answered(m)
    BY <2>2 DEF Answered, VerdictsFor
  <2>5. m \in unseen \cup busy => m \in unseen' \cup busy'
    BY <2>1
  <2> QED BY <2>2, <2>3, <2>4, <2>5 DEF Kept
<1>3. CASE StopAtCap(s, a)
  <2>1. PICK n \in Queue(s, a) : unseen' = unseen \ {n}
    BY <1>3 DEF StopAtCap
  <2>2. log' = log /\ busy' = busy /\ Tick(s, a) /\ steps[s][a] = MaxSteps
    BY <1>3 DEF StopAtCap
  <2>3. Spent(m) => Spent(m)'
    <3> DEFINE now == steps[m.session][m.agent]
               next == steps'[m.session][m.agent]
    <3>1. now \in Nat /\ next >= now
      BY <1>0, <1>1, <2>2, CountsUp
    <3>2. next \in Nat
      BY <1>0, <1>1 DEF TypeOK
    <3> HIDE DEF now, next
    <3>3. now > MaxSteps => next > MaxSteps
      BY <1>1, <3>1, <3>2
    <3> QED BY <3>3 DEF Spent, now, next
  <2>4. Answered(m)' = Answered(m)
    BY <2>2 DEF Answered, VerdictsFor
  <2>5. m = n => Spent(m)'
    <3>1. n.session = s /\ n.agent = a
      BY DEF Queue
    <3>2. steps'[s][a] = steps[s][a] + 1
      BY <1>1, <2>2, CountsUp
    <3> QED BY <1>1, <2>2, <3>1, <3>2 DEF Spent
  <2>6. m # n /\ m \in unseen \cup busy => m \in unseen' \cup busy'
    BY <2>1, <2>2
  <2> QED BY <2>2, <2>3, <2>4, <2>5, <2>6 DEF Kept
<1>4. CASE Reply(s, a)
  <2>1. PICK n \in Handling(s, a) :
          /\ busy' = busy \ {n}
          /\ IF n.kind = "request"
             THEN \E v \in Verdicts(n) : log' = log \cup {v}
             ELSE UNCHANGED log
    BY <1>4, Zenon DEF Reply
  <2>2. unseen' = unseen /\ steps' = steps /\ n \in busy /\ n \in log
    BY <1>1, <1>4, <2>1 DEF Reply, Handling, TypeOK
  <2>3. CASE n.kind # "request"
    <3>1. log' = log
      BY <2>1, <2>3
    <3>2. Answered(m)' = Answered(m)
      BY <3>1 DEF Answered, VerdictsFor
    <3>3. m # n
      BY <2>3
    <3> QED BY <2>1, <2>2, <3>1, <3>2, <3>3 DEF Kept, Spent
  <2>4. CASE n.kind = "request"
    <3>1. PICK v \in Verdicts(n) : log' = log \cup {v}
      BY <2>1, <2>4
    <3>2. v.kind = "verdict" /\ v.agent = n.agent /\ v.thread = n.thread
      BY <2>2, <2>4, ReplySays
    <3>3. m \in log
      BY <3>1, <3>2
    <3>4. m = n => Answered(m)'
      BY <3>1, <3>2 DEF Answered, VerdictsFor
    <3>5. Answered(m) => Answered(m)'
      BY <3>1 DEF Answered, VerdictsFor
    <3>6. m # n /\ m \in unseen \cup busy => m \in unseen' \cup busy'
      BY <2>1, <2>2
    <3> QED BY <2>2, <3>3, <3>4, <3>5, <3>6 DEF Kept, Spent
  <2> QED BY <2>3, <2>4
<1> QED BY <1>2, <1>3, <1>4 DEF AgentStep

(* What is lost is lost to a failure. *)
LEMMA FailuresCount ==
  ASSUME TypeOK, NEW m \in log', UNCHANGED <<log, steps>>, Fault
  PROVE  Kept(m)
<1>1. faults' > faults
  BY DEF Fault, TypeOK
<1>2. Answered(m)' = Answered(m) /\ Spent(m)' = Spent(m)
  BY DEF Answered, VerdictsFor, Spent
<1> QED BY <1>1, <1>2 DEF Kept

(* What any step makes of one delegation. *)
LEMMA StepKeeps ==
  ASSUME IInv, TypeOK', [Next]_vars, NEW m \in log', m.kind = "request"
  PROVE  Kept(m)
<1>1. TypeOK
  BY DEF IInv
<1>2. CASE \E r \in Rounds : BeginRound(r) \/ RoundStep(r)
  BY <1>2, RoundsPost, PostingKeeps
<1>3. CASE \E s \in Sessions, a \in Agents : AgentStep(s, a)
  BY <1>3, AgentsKeep
<1>4. CASE \E s \in Sessions, a \in Agents : AgentFailure(s, a)
  <2>1. UNCHANGED <<log, steps>> /\ Fault
    BY <1>4 DEF AgentFailure, LoseMention, ReplyLost, agentVars
  <2> QED BY <1>1, <2>1, FailuresCount
<1>5. CASE \E s \in Sessions : SessionLost(s)
  <2>1. UNCHANGED <<log, steps>> /\ Fault
    BY <1>5 DEF SessionLost
  <2> QED BY <1>1, <2>1, FailuresCount
<1>6. CASE UNCHANGED vars
  BY <1>6 DEF vars, agentVars, Kept, Answered, VerdictsFor, Spent
<1> QED BY <1>2, <1>3, <1>4, <1>5, <1>6, Zenon DEF Next, Quiescent


(* Every delegation is on its way, or answered, or stopped at the cap, or  *)
(* met a failure, and the specialists work their queues off one mention at *)
(* a time.                                                                 *)
THEOREM NoDelegationMislaid ==
  Spec => []OneInHand /\ DelegationsAreKept /\ QueuesDrain
<1>1. Init => OneInHand
  BY DEF Init, OneInHand
<1>2. ASSUME OneInHand, [Next]_vars
      PROVE  OneInHand'
  <2>1. CASE \E s \in Sessions, a \in Agents : Receive(s, a)
    <3>1. PICK s \in Sessions, a \in Agents : Receive(s, a)
      BY <2>1
    <3>2. PICK m \in Queue(s, a) : busy' = busy \cup {m}
      BY <3>1 DEF Receive
    <3>3. m.session = s /\ m.agent = a /\ \A n \in busy : n.session # s \/ n.agent # a
      BY <3>1 DEF Queue, Receive, Waiting, Handling
    <3> QED BY <1>2, <3>2, <3>3 DEF OneInHand
  <2>2. CASE busy' \subseteq busy
    BY <1>2, <2>2 DEF OneInHand
  <2>3. CASE \E s \in Sessions, a \in Agents :
               StopAtCap(s, a) \/ Reply(s, a) \/ AgentFailure(s, a)
    BY <2>2, <2>3 DEF StopAtCap, Reply, AgentFailure, LoseMention, ReplyLost, agentVars
  <2>4. CASE \E s \in Sessions : SessionLost(s)
    BY <2>2, <2>4 DEF SessionLost
  <2>5. CASE UNCHANGED vars
    BY <2>2, <2>5 DEF vars, agentVars
  <2>6. CASE \E r \in Rounds : BeginRound(r) \/ RoundStep(r)
    BY <2>2, <2>6, RoundsPost
  <2> QED BY <1>2, <2>1, <2>3, <2>4, <2>5, <2>6, Zenon DEF Next, AgentStep, Quiescent
<1>3. ASSUME IInv, TypeOK', [Next]_vars, NEW m \in log', m.kind = "request"
      PROVE  Kept(m)
  BY <1>3, StepKeeps
<1>4. ASSUME NEW s \in Sessions, NEW a \in Agents, AgentStep(s, a)
      PROVE  \/ unseen' \subseteq unseen /\ unseen' # unseen
             \/ unseen' = unseen /\ busy' \subseteq busy /\ busy' # busy
  <2>1. CASE Receive(s, a) \/ StopAtCap(s, a)
    BY <2>1 DEF Receive, StopAtCap, Queue
  <2>2. CASE Reply(s, a)
    BY <2>2, Zenon DEF Reply, Handling
  <2> QED BY <1>4, <2>1, <2>2 DEF AgentStep
<1>5. IInv /\ IInv' /\ [Next]_vars =>
        [\A m \in log' :
           m.kind = "request" =>
             /\ m \notin log => m \in unseen'
             /\ m \in unseen \cup busy =>
                  m \in unseen' \cup busy' \/ Answered(m)' \/ Spent(m)' \/ faults' > faults
             /\ Answered(m) => Answered(m)'
             /\ Spent(m) => Spent(m)']_vars
  BY <1>3 DEF IInv, Kept
<1>6. [Next]_vars =>
        [\A s \in Sessions, a \in Agents :
           AgentStep(s, a) =>
             \/ unseen' \subseteq unseen /\ unseen' # unseen
             \/ unseen' = unseen /\ busy' \subseteq busy /\ busy' # busy]_vars
  BY <1>4
<1>7. OneInHand /\ [Next]_vars => OneInHand'
  BY <1>2
<1> QED BY <1>1, <1>5, <1>6, <1>7, Invariant, PTL DEF Spec, DelegationsAreKept, QueuesDrain

-----------------------------------------------------------------------------
(* What a round reports of its delegation                                  *)

DeskOutcomes == {"none", "skipped", "unreachable"}

(* A specialist's status is reported only if that specialist, in the       *)
(* round's session, gave it, on the delegation of the round the outcome    *)
(* names.                                                                  *)
AnsweredSo(r) ==
  \E v \in log :
    /\ v.kind = "verdict" /\ v.agent = Specialist(track[r]) /\ v.session = live[r]
    /\ v.thread = outcome[r].thread /\ v.status = outcome[r].status

OutcomeIsAnswered ==
  \A r \in Rounds : outcome[r].status \notin DeskOutcomes => AnsweredSo(r)

(* Off the trading track that round is the round itself, whoever shares    *)
(* its session: the wager id in the match is enough.                       *)
OutcomeIsOwn == \A r \in Rounds : track[r] # "trading" => outcome[r].thread = r

(* What trading_delegation presumes: no two trading rounds in one session. *)
TradesAlone ==
  \A r, q \in Rounds :
    /\ track[r] = "trading" /\ track[q] = "trading"
    /\ live[r] = live[q] /\ live[r] # NoSession
    => r = q

(* A delegation names the specialist of its round's track, and a verdict   *)
(* but a trade's the wager of its round.                                   *)
AddressInv ==
  \A m \in log :
    /\ m.kind = "request" /\ m.agent # "proof_guard" =>
         m.agent = Specialist(track[m.thread])
    /\ m.kind = "verdict" /\ m.agent \notin {"proof_guard", "trading"} =>
         m.agent = Specialist(track[m.thread]) /\ m.wager.id = m.thread
    /\ m.kind = "verdict" /\ m.agent = "trading" =>
         m.agent = Specialist(track[m.thread])

(* A specialist of a track is no proof guard, and its track's alone. *)
LEMMA SpecialistsDiffer ==
  /\ \A t \in Tracks : Specialist(t) \in {"settlement", "trading", "fan_pundit"}
  /\ \A t \in Tracks : Specialist(t) = "trading" <=> t = "trading"
BY DEF Tracks, Specialist

(* What a round adds to the log. *)
LEMMA RoundsSay ==
  ASSUME NEW r \in Rounds, BeginRound(r) \/ RoundStep(r)
  PROVE  /\ log \subseteq log' /\ track' = track
         /\ \A m \in log' \ log :
              \/ m.kind = "chatter"
              \/ m = ProofRequest(r) \/ m = HandoffRequest(r)
<1> DEFINE Posted(M) ==
      /\ log \subseteq log' /\ track' = track /\ log' \subseteq log \cup M
<1>1. CASE SendProof(r) \/ SendProofFailed(r)
  <2>1. Posted({ProofRequest(r)})
    BY <1>1 DEF SendProof, SendProofFailed, Post, config, CloseProof
  <2> QED BY <2>1
<1>2. CASE SendHandoff(r) \/ SendHandoffFailed(r)
  <2>1. Posted({HandoffRequest(r)})
    BY <1>2 DEF SendHandoff, SendHandoffFailed, Post, config, CloseHandoff
  <2> QED BY <2>1
<1>3. CASE Publish(r)
  <2>1. PICK M \in MentionedSoFar(r) : log' = log \cup M
    BY <1>3, TranscriptPosted
  <2>2. Posted(M)
    BY <1>3, <2>1 DEF Publish, config
  <2> QED BY <2>2, TranscriptIsChatter
<1>4. CASE \/ BeginRound(r) \/ EnsureOk(r) \/ EnsureFailed(r) \/ LazyEnsureOk(r)
           \/ NoRuling(r) \/ Propose(r) \/ ProofUnavailable(r)
           \/ AcceptProofVerdict(r) \/ ProofTimeout(r) \/ NoSignal(r) \/ Decide(r)
           \/ HandoffUnavailable(r) \/ AcceptHandoff(r) \/ HandoffTimeout(r)
           \/ PublishUnavailable(r)
  <2>1. log' = log /\ config' = config
    BY <1>4, Zenon DEF BeginRound, EnsureOk, EnsureFailed, LazyEnsureOk, NoRuling, Propose,
       ProofUnavailable, AcceptProofVerdict, ProofTimeout, CloseProof, NoSignal, Decide,
       HandoffUnavailable, AcceptHandoff, HandoffTimeout, CloseHandoff, PublishUnavailable
  <2> QED BY <2>1 DEF config
<1> QED BY <1>1, <1>2, <1>3, <1>4, Zenon DEF RoundStep, BoundedStep

(* What a step adds to the log. *)
LEMMA WhatIsPosted ==
  ASSUME IInv, [Next]_vars
  PROVE  /\ log \subseteq log' /\ track' = track
         /\ \A m \in log' \ log :
              \/ m.kind = "chatter"
              \/ \E r \in Rounds : m = ProofRequest(r) \/ m = HandoffRequest(r)
              \/ \E q \in log : q.kind = "request" /\ m \in Verdicts(q)
<1>1. CASE \E r \in Rounds : BeginRound(r) \/ RoundStep(r)
  BY <1>1, RoundsSay
<1>2. CASE \E s \in Sessions, a \in Agents : Reply(s, a)
  <2>1. PICK s \in Sessions, a \in Agents : Reply(s, a)
    BY <1>2
  <2>2. PICK q \in Handling(s, a) :
          IF q.kind = "request"
          THEN \E v \in Verdicts(q) : log' = log \cup {v}
          ELSE UNCHANGED log
    BY <2>1 DEF Reply
  <2>3. q \in log /\ track' = track
    BY <2>1, <2>2 DEF IInv, TypeOK, Handling, Reply, deskVars, config
  <2> QED BY <2>2, <2>3
<1>3. CASE \/ \E s \in Sessions, a \in Agents :
                Receive(s, a) \/ StopAtCap(s, a) \/ AgentFailure(s, a)
           \/ \E s \in Sessions : SessionLost(s)
           \/ UNCHANGED vars
  <2>1. log' = log /\ track' = track
    BY <1>3 DEF Receive, StopAtCap, AgentFailure, LoseMention, ReplyLost, SessionLost,
       vars, deskVars, config
  <2> QED BY <2>1
<1> QED BY <1>1, <1>2, <1>3, Zenon DEF Next, AgentStep, Quiescent

(* What a delegation asks for is what comes back, in the same thread. *)
LEMMA AddressesHold ==
  ASSUME IInv, AddressInv, [Next]_vars
  PROVE  AddressInv'
<1>0. /\ log \subseteq Messages /\ log \subseteq log' /\ track' = track
      /\ track \in [Rounds -> TrackChoices]
  BY WhatIsPosted DEF IInv, TypeOK
<1> DEFINE Addressed(m) ==
      /\ m.kind = "request" /\ m.agent # "proof_guard" =>
           m.agent = Specialist(track[m.thread])
      /\ m.kind = "verdict" /\ m.agent \notin {"proof_guard", "trading"} =>
           m.agent = Specialist(track[m.thread]) /\ m.wager.id = m.thread
      /\ m.kind = "verdict" /\ m.agent = "trading" =>
           m.agent = Specialist(track[m.thread])
<1>1. ASSUME NEW m \in log' PROVE Addressed(m)
  <2>1. CASE m \in log
    BY <2>1 DEF AddressInv
  <2>2. CASE m.kind = "chatter"
    BY <2>2
  <2>3. ASSUME NEW r \in Rounds, m = ProofRequest(r) \/ m = HandoffRequest(r)
        PROVE  Addressed(m)
    BY <2>3 DEF ProofRequest, HandoffRequest, Mention
  <2>4. ASSUME NEW q \in log, q.kind = "request", m \in Verdicts(q)
        PROVE  Addressed(m)
    <3>1. /\ m.kind = "verdict" /\ m.agent = q.agent /\ m.thread = q.thread
          /\ q.thread \in Rounds /\ q \in Messages
      BY <1>0, <2>4, ReplySays
    <3>2. m.agent # "proof_guard" => m.agent = Specialist(track[m.thread])
      BY <2>4, <3>1 DEF AddressInv
    <3>3. ASSUME m.agent \in {"settlement", "fan_pundit"} PROVE m.wager.id = m.thread
      <4>1. verified[q.thread] # NoWager /\ q.wager = verified[q.thread]
        BY <2>4, <3>1, <3>3 DEF IInv, LogInv, RequestOk
      <4>2. q.wager.id = q.thread /\ q.wager \in Wagers(Rounds)
        BY <3>1, <4>1 DEF IInv, TypeOK, WagerInv, Ruled, SameBet
      <4>3. CASE m.agent = "settlement"
        BY <2>4, <3>1, <4>2, <4>3 DEF Verdicts, SettlementAnswers, VerdictOn, Messages
      <4>4. CASE m.agent = "fan_pundit"
        <5>1. PICK st \in PunditStances(q.wager) : m = VerdictOn(q, PunditEcho(q.wager, st), st)
          BY <2>4, <3>1, <4>4 DEF Verdicts, PunditAnswers
        <5>2. PunditEcho(q.wager, st).id = q.wager.id
          BY <4>2 DEF PunditEcho, Withdraw, Wagers
        <5> QED BY <3>1, <4>2, <5>1, <5>2 DEF VerdictOn, Messages
      <4> QED BY <3>3, <4>3, <4>4
    <3>4. m.agent \in Agents
      BY <3>1 DEF Messages
    <3> QED BY <3>1, <3>2, <3>3, <3>4 DEF Agents
  <2> QED BY <2>1, <2>2, <2>3, <2>4, WhatIsPosted
<1> QED BY <1>0, <1>1 DEF AddressInv

(* A round that has a session keeps it. *)
LEMMA SessionStays ==
  ASSUME IInv, [Next]_vars, NEW r \in Rounds, live[r] # NoSession
  PROVE  live'[r] = live[r]
<1>1. TypeOK /\ TypeOK'
  BY StepInv DEF IInv
<1>2. ASSUME NEW q \in Rounds, BeginRound(q) \/ RoundStep(q) PROVE Moves(q)
  BY <1>2, StepGoesOn, OpensSession, Zenon DEF RoundStep, BoundedStep
<1>3. ASSUME NEW q \in Rounds, Moves(q) PROVE live'[r] = live[r]
  BY <1>1, <1>3, MovesAdvance
<1>4. \/ \E q \in Rounds : BeginRound(q) \/ RoundStep(q)
      \/ \E s \in Sessions, a \in Agents : AgentStep(s, a) \/ AgentFailure(s, a)
      \/ \E s \in Sessions : SessionLost(s)
      \/ UNCHANGED vars
  BY Zenon DEF Next, Quiescent
<1> QED BY <1>2, <1>3, <1>4, OthersLeaveRounds

(* What a step lets a round report. *)
LEMMA WhatIsReported ==
  ASSUME IInv, [Next]_vars, NEW r \in Rounds
  PROVE  \/ outcome'[r] = outcome[r]
         \/ outcome'[r].thread = r /\ outcome'[r].status \in DeskOutcomes
         \/ \E m \in Replies(r, Specialist(track[r])) :
              outcome'[r] = [status |-> m.status, thread |-> m.thread]
<1>0. outcome \in [Rounds -> [status : OutcomeStatuses, thread : Rounds]]
  BY DEF IInv, TypeOK
<1>1. CASE \E q \in Rounds : BeginRound(q) \/ RoundStep(q)
  <2>1. PICK q \in Rounds : BeginRound(q) \/ RoundStep(q)
    BY <1>1
  <2>2. ASSUME NEW x, outcome' = [outcome EXCEPT ![q] = x]
        PROVE  outcome'[r] = IF r = q THEN x ELSE outcome[r]
    BY <1>0, <2>2
  <2>3. CASE Decide(q)
    <3>1. \/ outcome' = outcome
          \/ outcome' = [outcome EXCEPT ![q] = [status |-> HandoffRefusal(q), thread |-> q]]
      BY <2>3, Zenon DEF Decide
    <3>2. HandoffRefusal(q) \in DeskOutcomes
      BY DEF HandoffRefusal, DeskOutcomes
    <3>3. \/ outcome'[r] = outcome[r]
          \/ r = q /\ outcome'[r] = [status |-> HandoffRefusal(q), thread |-> q]
      BY <2>2, <3>1
    <3> QED BY <3>2, <3>3
  <2>4. CASE \/ HandoffUnavailable(q) \/ SendHandoffFailed(q) \/ HandoffTimeout(q)
    <3>1. outcome' = [outcome EXCEPT ![q] = [status |-> "unreachable", thread |-> q]]
      BY <2>4, Zenon DEF HandoffUnavailable, SendHandoffFailed, HandoffTimeout, CloseHandoff
    <3> QED BY <2>2, <3>1 DEF DeskOutcomes
  <2>5. CASE AcceptHandoff(q)
    <3>1. PICK m \in Replies(q, Specialist(track[q])) :
            outcome' = [outcome EXCEPT ![q] = [status |-> m.status, thread |-> m.thread]]
      BY <2>5 DEF AcceptHandoff, CloseHandoff
    <3>2. \/ outcome'[r] = outcome[r]
          \/ r = q /\ outcome'[r] = [status |-> m.status, thread |-> m.thread]
      BY <2>2, <3>1
    <3> QED BY <3>2, Zenon
  <2>6. CASE \/ BeginRound(q) \/ EnsureOk(q) \/ EnsureFailed(q) \/ LazyEnsureOk(q)
             \/ NoRuling(q) \/ Propose(q) \/ ProofUnavailable(q) \/ SendProof(q)
             \/ SendProofFailed(q) \/ AcceptProofVerdict(q) \/ ProofTimeout(q)
             \/ NoSignal(q) \/ SendHandoff(q) \/ PublishUnavailable(q) \/ Publish(q)
    <3>1. outcome' = outcome
      BY <2>6, Zenon DEF BeginRound, EnsureOk, EnsureFailed, LazyEnsureOk, NoRuling, Propose,
         ProofUnavailable, SendProof, SendProofFailed, AcceptProofVerdict, ProofTimeout,
         CloseProof, NoSignal, SendHandoff, PublishUnavailable, Publish, roundVars
    <3> QED BY <3>1
  <2> QED BY <2>1, <2>3, <2>4, <2>5, <2>6, Zenon DEF RoundStep, BoundedStep
<1>2. CASE \/ \E s \in Sessions, a \in Agents : AgentStep(s, a) \/ AgentFailure(s, a)
           \/ \E s \in Sessions : SessionLost(s)
           \/ UNCHANGED vars
  <2>1. outcome' = outcome
    BY <1>2 DEF AgentStep, Receive, StopAtCap, Reply, AgentFailure, LoseMention, ReplyLost,
       SessionLost, vars, deskVars, roundVars
  <2> QED BY <2>1
<1> QED BY <1>1, <1>2, Zenon DEF Next, Quiescent

(* The three parts together are kept. *)
LEMMA ReportsHold ==
  ASSUME IInv, AddressInv, OutcomeIsAnswered, OutcomeIsOwn, [Next]_vars
  PROVE  OutcomeIsAnswered' /\ OutcomeIsOwn'
<1>0. /\ log \subseteq Messages /\ log \subseteq log' /\ track' = track
      /\ \A r \in Rounds : track[r] \in Tracks
  BY WhatIsPosted, ParameterAssumption DEF IInv, TypeOK
<1>1. ASSUME NEW r \in Rounds, NEW m \in log, m.session = live[r]
      PROVE  m.session = live'[r]
  <2>1. live[r] # NoSession
    BY <1>0, <1>1, SessionAssumption DEF Messages
  <2> QED BY <1>1, <2>1, SessionStays
<1>2. ASSUME NEW r \in Rounds, outcome'[r].status \notin DeskOutcomes
      PROVE  AnsweredSo(r)'
  <2>1. ASSUME NEW v \in log,
               v.kind = "verdict", v.agent = Specialist(track[r]), v.session = live[r],
               v.thread = outcome'[r].thread, v.status = outcome'[r].status
        PROVE  AnsweredSo(r)'
    <3>1. v \in log' /\ v.session = live'[r]
      BY <1>0, <1>1, <2>1
    <3> QED BY <1>0, <2>1, <3>1 DEF AnsweredSo
  <2>2. CASE outcome'[r] = outcome[r]
    <3>1. AnsweredSo(r)
      BY <1>2, <2>2 DEF OutcomeIsAnswered
    <3> QED BY <2>1, <2>2, <3>1 DEF AnsweredSo
  <2>3. ASSUME NEW m \in Replies(r, Specialist(track[r])),
               outcome'[r] = [status |-> m.status, thread |-> m.thread]
        PROVE  AnsweredSo(r)'
    <3>1. /\ outcome'[r].status = m.status /\ outcome'[r].thread = m.thread
          /\ m \in log /\ m.kind = "verdict" /\ m.agent = Specialist(track[r])
          /\ m.session = live[r]
      BY <2>3 DEF Replies
    <3> QED BY <2>1, <3>1
  <2> QED BY <1>2, <2>2, <2>3, WhatIsReported
<1>3. ASSUME NEW r \in Rounds, track[r] # "trading" PROVE outcome'[r].thread = r
  <2>1. ASSUME NEW m \in Replies(r, Specialist(track[r])),
               outcome'[r] = [status |-> m.status, thread |-> m.thread]
        PROVE  outcome'[r].thread = r
    <3>1. m.agent \in {"settlement", "fan_pundit"}
      BY <1>0, <1>3, SpecialistsDiffer DEF Replies
    <3>2. m.wager.id = r /\ m.wager.id = m.thread
      BY <3>1 DEF Replies, AddressInv
    <3> QED BY <2>1, <3>2
  <2> QED BY <1>3, <2>1, WhatIsReported DEF OutcomeIsOwn
<1> QED BY <1>0, <1>2, <1>3 DEF OutcomeIsAnswered, OutcomeIsOwn

(* What a round reports of its delegation was answered by its track's      *)
(* specialist in its session; off the trading track it was the round's own *)
(* delegation; and a trade verdict is the round's own exactly where        *)
(* trading_delegation.rs:83 expects it, with one trading round a session.  *)
(* The run TradeVerdict shows that the condition cannot be dropped.        *)
THEOREM ReportsAreAnswered ==
  Spec => [](/\ OutcomeIsAnswered /\ OutcomeIsOwn
             /\ TradesAlone => TradeVerdictIsOwn)
<1> DEFINE RInv == IInv /\ AddressInv /\ OutcomeIsAnswered /\ OutcomeIsOwn
<1>1. Init => RInv
  <2>1. Init => AddressInv /\ OutcomeIsAnswered /\ OutcomeIsOwn
    BY DEF Init, AddressInv, OutcomeIsAnswered, OutcomeIsOwn, DeskOutcomes
  <2> QED BY <2>1, InitInv
<1>2. RInv /\ [Next]_vars => RInv'
  BY StepInv, AddressesHold, ReportsHold
<1>3. ASSUME RInv, TradesAlone PROVE TradeVerdictIsOwn
  <2>1. ASSUME NEW r \in Rounds, outcome[r].status \in {"simulated", "declined"}
        PROVE  outcome[r].thread = r
    <3>0. /\ track[r] \in Tracks /\ outcome[r].thread \in Rounds /\ log \subseteq Messages
          /\ \A q \in Rounds : track[q] \in Tracks
      BY <1>3, ParameterAssumption DEF IInv, TypeOK
    <3>1. PICK v \in log :
            /\ v.kind = "verdict" /\ v.agent = Specialist(track[r]) /\ v.session = live[r]
            /\ v.thread = outcome[r].thread
      BY <1>3, <2>1 DEF OutcomeIsAnswered, AnsweredSo, DeskOutcomes
    <3>2. CASE track[r] # "trading"
      BY <1>3, <3>2 DEF OutcomeIsOwn
    <3>3. CASE track[r] = "trading"
      <4>1. v \in log /\ v.kind = "verdict" /\ v.agent = "trading"
            /\ v.thread = outcome[r].thread
        BY <3>0, <3>1, <3>3, SpecialistsDiffer
      <4>2. track[v.thread] = "trading"
        BY <1>3, <3>0, <4>1, SpecialistsDiffer DEF AddressInv
      <4>3. v.session = live[v.thread] /\ v.session \in Sessions
        BY <1>3, <3>0, <4>1 DEF IInv, LogInv, Messages
      <4>4. live[r] = live[v.thread] /\ live[r] # NoSession
        BY <3>1, <4>3, SessionAssumption
      <4> QED BY <1>3, <3>0, <3>3, <4>1, <4>2, <4>4 DEF TradesAlone
    <3> QED BY <3>2, <3>3
  <2> QED BY <2>1 DEF TradeVerdictIsOwn
<1>4. RInv => /\ OutcomeIsAnswered /\ OutcomeIsOwn
              /\ TradesAlone => TradeVerdictIsOwn
  BY <1>3
<1> QED BY <1>1, <1>2, <1>4, PTL DEF Spec

-----------------------------------------------------------------------------
(* Sessions are made sparingly                                             *)

(* The rounds that have a session. *)
Opened == {r \in Rounds : live[r] # NoSession}

(* The desk has coral-server create one session for each round that has    *)
(* one, at most, and one more for each failure: a session is never made    *)
(* and forgotten while everything works, and SessionsSuffice, the          *)
(* assumption of the instances, leaves no round without an id.             *)
SessionsAreFew ==
  IsFiniteSet(created) /\ Cardinality(created) <= Cardinality(Opened) + faults

(* A session is created for a round that then has it, or by a failure. *)
LEMMA CreatedFor ==
  ASSUME IInv, [Next]_vars
  PROVE  /\ faults' = faults \/ faults' = faults + 1
         /\ \/ created' = created
            \/ \E s \in Sessions :
                 /\ created' = created \cup {s}
                 /\ \/ faults' = faults + 1
                    \/ \E r \in Rounds : live[r] = NoSession /\ live'[r] # NoSession
<1> DEFINE Made == \E s \in Sessions : created' = created \cup {s}
<1>1. ASSUME NEW o, SessionRefused(o)
      PROVE  \/ created' = created /\ (faults' = faults \/ faults' = faults + 1)
             \/ Made /\ faults' = faults + 1
  <2>1. CASE \E s \in Fresh : created' = created \cup {s} /\ up' = up \cup {s}
             /\ Fault
    BY <2>1 DEF Fresh, Fault
  <2> QED BY <1>1, <2>1 DEF SessionRefused, serverVars, Fault, NoFault
<1>2. ASSUME NEW r \in Rounds, EnsureOk(r) \/ LazyEnsureOk(r)
      PROVE  /\ faults' = faults
             /\ created' = created \/ Made
             /\ live[r] = NoSession /\ live'[r] # NoSession
  <2>1. PICK s \in Sessions, o \in {NoSession, override[r]} :
          SessionOpened(o, s) /\ live' = [live EXCEPT ![r] = s]
    BY <1>2 DEF EnsureOk, LazyEnsureOk
  <2>2. live[r] = NoSession /\ faults' = faults
    BY <1>2 DEF IInv, PcInv, EnsureOk, LazyEnsureOk, NeedsSession, At
  <2>3. live'[r] = s /\ s # NoSession
    BY <2>1, SessionAssumption DEF IInv, TypeOK
  <2>4. created' = created \/ Made
    BY <2>1 DEF SessionOpened, serverVars
  <2> QED BY <2>2, <2>3, <2>4
<1>3. ASSUME NEW r \in Rounds,
             \/ EnsureFailed(r) \/ ProofUnavailable(r) \/ HandoffUnavailable(r)
             \/ PublishUnavailable(r)
      PROVE  \/ \E o : SessionRefused(o)
             \/ created' = created /\ faults' = faults
  BY <1>3, Zenon DEF EnsureFailed, ProofUnavailable, HandoffUnavailable, PublishUnavailable,
     serverVars, NoFault
<1>4. CASE \/ \E r \in Rounds :
                \/ BeginRound(r) \/ NoRuling(r) \/ Propose(r)
                \/ SendProof(r) \/ SendProofFailed(r) \/ AcceptProofVerdict(r) \/ ProofTimeout(r)
                \/ NoSignal(r) \/ Decide(r) \/ SendHandoff(r) \/ SendHandoffFailed(r)
                \/ AcceptHandoff(r) \/ HandoffTimeout(r) \/ Publish(r)
           \/ \E s \in Sessions, a \in Agents : AgentStep(s, a) \/ AgentFailure(s, a)
           \/ \E s \in Sessions : SessionLost(s)
           \/ UNCHANGED vars
  <2>1. created' = created /\ (faults' = faults \/ faults' = faults + 1)
    BY <1>4, Zenon DEF BeginRound, NoRuling, Propose, SendProof, SendProofFailed,
       AcceptProofVerdict, ProofTimeout, CloseProof, NoSignal, Decide, SendHandoff,
       SendHandoffFailed, AcceptHandoff, HandoffTimeout, CloseHandoff, Publish, AgentStep,
       AgentFailure, Receive, StopAtCap, Reply, LoseMention, ReplyLost, SessionLost,
       serverVars, deskVars, vars, Fault, NoFault
  <2> QED BY <2>1
<1>5. CASE \E r \in Rounds : EnsureOk(r) \/ LazyEnsureOk(r)
  BY <1>2, <1>5
<1>6. CASE \E r \in Rounds :
           \/ EnsureFailed(r) \/ ProofUnavailable(r) \/ HandoffUnavailable(r)
           \/ PublishUnavailable(r)
  BY <1>1, <1>3, <1>6
<1> QED BY <1>4, <1>5, <1>6, Zenon DEF Next, RoundStep, BoundedStep, Quiescent

(* At most one session per round and per failure. *)
THEOREM SessionsAreBounded ==
  ASSUME IsFiniteSet(Rounds)
  PROVE  Spec => []SessionsAreFew
<1>1. Init => SessionsAreFew
  <2>1. ASSUME Init PROVE created = {} /\ Opened = {} /\ faults = 0
    BY <2>1 DEF Init, Opened
  <2> QED BY <2>1, FS_EmptySet DEF SessionsAreFew
<1>2. ASSUME IInv, IInv', SessionsAreFew, [Next]_vars
      PROVE  SessionsAreFew'
  <2>0. faults \in Nat /\ faults' \in Nat
    BY <1>2, ParameterAssumption DEF IInv, TypeOK
  <2>1. /\ Opened \subseteq Opened' /\ IsFiniteSet(Opened')
        /\ IsFiniteSet(Opened) /\ Cardinality(Opened) \in Nat
        /\ Cardinality(Opened') \in Nat /\ Cardinality(Opened) <= Cardinality(Opened')
    <3>1. Opened \subseteq Rounds /\ Opened' \subseteq Rounds
      BY DEF Opened
    <3>2. Opened \subseteq Opened'
      BY <1>2, SessionStays DEF Opened
    <3> QED BY <3>1, <3>2, FS_Subset, FS_CardinalityType
  <2>2. IsFiniteSet(created) /\ Cardinality(created) \in Nat
    BY <1>2, FS_CardinalityType DEF SessionsAreFew
  <2>3. faults' >= faults
    BY <1>2, <2>0, CreatedFor
  <2>4. CASE created' = created
    BY <1>2, <2>0, <2>1, <2>2, <2>3, <2>4 DEF SessionsAreFew
  <2>5. ASSUME NEW s \in Sessions, created' = created \cup {s}
        PROVE  /\ IsFiniteSet(created') /\ Cardinality(created') \in Nat
               /\ Cardinality(created') <= Cardinality(created) + 1
    <3>1. /\ IsFiniteSet(created \cup {s})
          /\ Cardinality(created \cup {s}) =
               IF s \in created THEN Cardinality(created) ELSE Cardinality(created) + 1
      BY <2>2, FS_AddElement
    <3> QED BY <2>2, <2>5, <3>1
  <2>6. ASSUME NEW s \in Sessions, created' = created \cup {s}, faults' = faults + 1
        PROVE  SessionsAreFew'
    BY <1>2, <2>0, <2>1, <2>2, <2>5, <2>6 DEF SessionsAreFew
  <2>7. ASSUME NEW s \in Sessions, created' = created \cup {s},
               NEW r \in Rounds, live[r] = NoSession, live'[r] # NoSession
        PROVE  SessionsAreFew'
    <3>1. Opened \cup {r} \subseteq Opened' /\ r \notin Opened
      BY <2>1, <2>7 DEF Opened
    <3>2. Cardinality(Opened \cup {r}) = Cardinality(Opened) + 1
      <4>1. IsFiniteSet(Opened)
        BY <2>1
      <4>2. Cardinality(Opened \cup {r}) =
              IF r \in Opened THEN Cardinality(Opened) ELSE Cardinality(Opened) + 1
        BY <4>1, FS_AddElement
      <4> QED BY <3>1, <4>2
    <3>3. Cardinality(Opened) + 1 <= Cardinality(Opened')
      <4>1. IsFiniteSet(Opened')
        BY <2>1
      <4>2. Cardinality(Opened \cup {r}) <= Cardinality(Opened')
        BY <3>1, <4>1, FS_Subset
      <4> QED BY <3>2, <4>2
    <3>4. /\ IsFiniteSet(created') /\ Cardinality(created') \in Nat
          /\ Cardinality(created') <= Cardinality(created) + 1
      BY <2>5, <2>7
    <3>5. Cardinality(created) <= Cardinality(Opened) + faults
      BY <1>2 DEF SessionsAreFew
    <3>6. Cardinality(Opened) \in Nat /\ Cardinality(Opened') \in Nat
      BY <2>1
    <3> QED BY <2>0, <2>2, <2>3, <3>3, <3>4, <3>5, <3>6 DEF SessionsAreFew
  <2> QED BY <1>2, <2>4, <2>6, <2>7, CreatedFor
<1> QED BY <1>1, <1>2, Invariant, PTL DEF Spec

(* Until the first failure a delegation is in its queue, in its            *)
(* specialist's hands, answered, or behind the cap.                        *)
OnItsWay ==
  faults = 0 =>
    \A m \in log :
      m.kind = "request" => m \in unseen \cup busy \/ Answered(m) \/ Spent(m)

(* So once the specialists are at rest it has been answered. *)
LEMMA AtRestAnswered ==
  ASSUME IInv, OnItsWay
  PROVE  DelegationAnswered
<1> SUFFICES ASSUME faults = 0, AgentsAtRest, NEW r \in Rounds, NEW a \in Agents,
                    NEW m \in log, m.kind = "request", m.agent = a, m.thread = r
             PROVE  VerdictsFor(r, a) # {} \/ Exited(r, a)
  BY DEF DelegationAnswered, Requested
<1>1. m.session = live[r] /\ live[r] \in Sessions /\ live[r] # NoSession
  BY SessionAssumption DEF IInv, TypeOK, LogInv, Messages
<1>2. CASE Answered(m)
  BY <1>2 DEF Answered
<1>3. CASE Spent(m)
  BY <1>1, <1>3 DEF Spent, Exited
<1>4. CASE m \in unseen \cup busy
  <2>1. CASE live[r] \notin up
    BY <1>1, <2>1 DEF Exited
  <2>2. CASE live[r] \in up
    <3>1. /\ Handling(live[r], a) = {}
          /\ Queue(live[r], a) = {} \/ steps[live[r]][a] > MaxSteps
      BY <2>2 DEF AgentsAtRest
    <3>2. m \notin busy
      BY <1>1, <3>1 DEF Handling
    <3>3. Queue(live[r], a) # {}
      BY <1>1, <1>4, <3>2 DEF Queue
    <3> QED BY <1>1, <3>1, <3>3 DEF Exited
  <2> QED BY <2>1, <2>2
<1> QED BY <1>2, <1>3, <1>4 DEF OnItsWay

(* For any number of rounds, agents and mentions, nothing is passed over   *)
(* behind others: no specialist comes to rest on an unanswered delegation  *)
(* unless it is behind the cap or something failed.                        *)
THEOREM DelegationsAnswered == Spec => []DelegationAnswered
<1>1. Init => OnItsWay
  BY DEF Init, OnItsWay
<1>2. ASSUME IInv, IInv', OnItsWay, [Next]_vars PROVE OnItsWay'
  <2> SUFFICES ASSUME faults' = 0, NEW m \in log', m.kind = "request"
               PROVE  m \in unseen' \cup busy' \/ Answered(m)' \/ Spent(m)'
    BY DEF OnItsWay
  <2>1. TypeOK'
    BY <1>2 DEF IInv
  <2>2. Kept(m)
    BY <1>2, <2>1, StepKeeps
  <2>3. faults = 0 /\ ~(faults' > faults)
    <3>1. faults \in Nat /\ faults' \in Nat
      BY <1>2, ParameterAssumption DEF IInv, TypeOK
    <3>2. faults' = faults \/ faults' = faults + 1
      BY <1>2, CreatedFor
    <3> QED BY <3>1, <3>2
  <2>4. CASE m \notin log
    BY <2>2, <2>4 DEF Kept
  <2>5. CASE m \in log
    <3>1. m \in unseen \cup busy \/ Answered(m) \/ Spent(m)
      BY <1>2, <2>3, <2>5 DEF OnItsWay
    <3> QED BY <2>2, <2>3, <3>1 DEF Kept
  <2> QED BY <2>4, <2>5
<1>3. IInv /\ OnItsWay => DelegationAnswered
  BY AtRestAnswered
<1> QED BY <1>1, <1>2, <1>3, Invariant, PTL DEF Spec

-----------------------------------------------------------------------------
(* A specialist stops at its cap                                           *)

(* What a specialist process has answered. *)
Given(s, a) == {v \in log : v.kind = "verdict" /\ v.session = s /\ v.agent = a}

InHand(s, a) == IF Handling(s, a) = {} THEN 0 ELSE 1

(* coral_client::run: MAX_STEPS bounds what a specialist answers in its    *)
(* life, the answer it is working on included, however many rounds share   *)
(* the session and however they overlap: the count is never ahead of what  *)
(* was taken and no answer escapes it.                                     *)
CapIsKept ==
  \A s \in Sessions, a \in Agents :
    /\ IsFiniteSet(Given(s, a))
    /\ Cardinality(Given(s, a)) + InHand(s, a) <= MaxSteps
    /\ Cardinality(Given(s, a)) + InHand(s, a) <= steps[s][a]

(* The count of one specialist that answers nothing in a step. *)
LEMMA CountsOn ==
  ASSUME TypeOK, TypeOK', CapIsKept, NEW s \in Sessions, NEW a \in Agents,
         Given(s, a)' = Given(s, a), steps'[s][a] >= steps[s][a],
         \/ Handling(s, a)' = {} \/ Handling(s, a) # {}
         \/ steps'[s][a] = steps[s][a] + 1 /\ steps[s][a] < MaxSteps
  PROVE  /\ IsFiniteSet(Given(s, a)')
         /\ Cardinality(Given(s, a)') + InHand(s, a)' <= MaxSteps
         /\ Cardinality(Given(s, a)') + InHand(s, a)' <= steps'[s][a]
<1>1. /\ steps[s][a] \in Nat /\ steps'[s][a] \in Nat /\ MaxSteps \in Nat
  BY ParameterAssumption DEF TypeOK
<1>2. /\ IsFiniteSet(Given(s, a)) /\ Cardinality(Given(s, a)) \in Nat
      /\ Cardinality(Given(s, a)) + InHand(s, a) <= MaxSteps
      /\ Cardinality(Given(s, a)) + InHand(s, a) <= steps[s][a]
  BY FS_CardinalityType DEF CapIsKept
<1>3. /\ InHand(s, a) \in 0..1 /\ InHand(s, a)' \in 0..1
      /\ Handling(s, a) # {} => InHand(s, a) = 1
      /\ Handling(s, a)' = {} => InHand(s, a)' = 0
  BY DEF InHand
<1> QED BY <1>1, <1>2, <1>3

(* What is answered was in hand. *)
LEMMA CapHolds ==
  ASSUME IInv, IInv', OneInHand, CapIsKept, [Next]_vars,
         NEW s \in Sessions, NEW a \in Agents
  PROVE  /\ IsFiniteSet(Given(s, a)')
         /\ Cardinality(Given(s, a)') + InHand(s, a)' <= MaxSteps
         /\ Cardinality(Given(s, a)') + InHand(s, a)' <= steps'[s][a]
<1>0. TypeOK /\ TypeOK' /\ MaxSteps \in Nat /\ steps[s][a] \in Nat
  BY ParameterAssumption DEF IInv, TypeOK
<1>1. CASE \E r \in Rounds : BeginRound(r) \/ RoundStep(r)
  <2>1. PICK r \in Rounds : BeginRound(r) \/ RoundStep(r)
    BY <1>1
  <2>2. busy' = busy /\ steps' = steps
    BY <2>1, RoundsPost
  <2>3. \A m \in log' \ log : m.kind # "verdict"
    BY <2>1, RoundsSay DEF ProofRequest, HandoffRequest, Mention
  <2>4. Given(s, a)' = Given(s, a)
    BY <2>1, <2>3, RoundsSay DEF Given
  <2>5. Handling(s, a)' = Handling(s, a)
    BY <2>2 DEF Handling
  <2> QED BY <1>0, <2>2, <2>4, <2>5, CountsOn
<1>2. CASE \E t \in Sessions, b \in Agents : Receive(t, b) \/ StopAtCap(t, b)
  <2>1. PICK t \in Sessions, b \in Agents : Receive(t, b) \/ StopAtCap(t, b)
    BY <1>2
  <2>2. log' = log /\ Tick(t, b)
    BY <2>1 DEF Receive, StopAtCap
  <2>3. Given(s, a)' = Given(s, a)
    BY <2>2 DEF Given
  <2>4. steps'[s][a] >= steps[s][a] /\ steps'[t][b] = steps[t][b] + 1
    BY <1>0, <2>2, CountsUp
  <2>5. CASE StopAtCap(t, b)
    <3>1. Handling(s, a)' = Handling(s, a)
      BY <2>5 DEF StopAtCap, Handling
    <3> QED BY <1>0, <2>3, <2>4, <3>1, CountsOn
  <2>6. CASE Receive(t, b)
    <3>1. PICK m : m.session = t /\ m.agent = b /\ busy' = busy \cup {m}
      BY <2>6 DEF Receive, Queue
    <3>2. CASE s = t /\ a = b
      <4>1. steps[s][a] < MaxSteps
        BY <2>6, <3>2 DEF Receive
      <4> QED BY <1>0, <2>3, <2>4, <3>2, <4>1, CountsOn
    <3>3. CASE ~(s = t /\ a = b)
      <4>1. Handling(s, a)' = Handling(s, a)
        BY <3>1, <3>3 DEF Handling
      <4> QED BY <1>0, <2>3, <2>4, <4>1, CountsOn
    <3> QED BY <3>2, <3>3
  <2> QED BY <2>1, <2>5, <2>6
<1>3. CASE \E t \in Sessions, b \in Agents : Reply(t, b)
  <2>1. PICK t \in Sessions, b \in Agents : Reply(t, b)
    BY <1>3
  <2>2. PICK m \in Handling(t, b) :
          /\ busy' = busy \ {m}
          /\ IF m.kind = "request"
             THEN \E v \in Verdicts(m) : log' = log \cup {v}
             ELSE UNCHANGED log
    BY <2>1, Zenon DEF Reply
  <2>3. m \in busy /\ m \in log /\ m.session = t /\ m.agent = b /\ steps' = steps
    BY <1>0, <2>1, <2>2 DEF TypeOK, Handling, Reply
  <2>4. \A v : v \in log' \ log =>
          v.session = t /\ v.agent = b /\ log' = log \cup {v}
    <3>1. CASE m.kind = "request"
      <4>1. PICK v \in Verdicts(m) : log' = log \cup {v}
        BY <2>2, <3>1
      <4>2. v.session = t /\ v.agent = b
        BY <2>3, <3>1, ReplySays
      <4> QED BY <4>1, <4>2
    <3>2. CASE m.kind # "request"
      BY <2>2, <3>2
    <3> QED BY <3>1, <3>2
  <2>5. log \subseteq log'
    BY <2>2
  <2>6. CASE Given(s, a)' = Given(s, a)
    <3>1. Handling(s, a)' = {} \/ Handling(s, a) # {}
      BY <2>2 DEF Handling
    <3> QED BY <1>0, <2>3, <2>6, <3>1, CountsOn
  <2>7. CASE Given(s, a)' # Given(s, a)
    <3>1. PICK v \in log' : v \notin log /\ v.session = s /\ v.agent = a
      BY <2>5, <2>7 DEF Given
    <3>2. s = t /\ a = b /\ log' = log \cup {v}
      BY <2>4, <3>1
    <3>3. Given(s, a)' \subseteq Given(s, a) \cup {v}
      BY <3>2 DEF Given
    <3>4. Handling(s, a) # {} /\ Handling(s, a)' = {}
      BY <2>2, <2>3, <3>2 DEF Handling, OneInHand
    <3>5. InHand(s, a) = 1 /\ InHand(s, a)' = 0
      BY <3>4 DEF InHand
    <3>6. IsFiniteSet(Given(s, a)) /\ Cardinality(Given(s, a)) \in Nat
      BY FS_CardinalityType DEF CapIsKept
    <3>7. /\ IsFiniteSet(Given(s, a) \cup {v})
          /\ Cardinality(Given(s, a) \cup {v}) =
               IF v \in Given(s, a) THEN Cardinality(Given(s, a))
               ELSE Cardinality(Given(s, a)) + 1
      BY <3>6, FS_AddElement
    <3>8. /\ IsFiniteSet(Given(s, a)')
          /\ Cardinality(Given(s, a)') <= Cardinality(Given(s, a) \cup {v})
      BY <3>3, <3>7, FS_Subset
    <3>9. Cardinality(Given(s, a)') \in Nat
      BY <3>8, FS_CardinalityType
    <3>10. /\ Cardinality(Given(s, a)) + 1 <= MaxSteps
           /\ Cardinality(Given(s, a)) + 1 <= steps[s][a]
      BY <3>5 DEF CapIsKept
    <3> QED BY <1>0, <2>3, <3>5, <3>6, <3>7, <3>8, <3>9, <3>10
  <2> QED BY <2>6, <2>7
<1>4. CASE \/ \E t \in Sessions, b \in Agents : AgentFailure(t, b)
           \/ \E t \in Sessions : SessionLost(t)
           \/ UNCHANGED vars
  <2>1. UNCHANGED <<log, steps>> /\ busy' \subseteq busy
    BY <1>4 DEF AgentFailure, LoseMention, ReplyLost, SessionLost, vars, agentVars
  <2>2. Given(s, a)' = Given(s, a)
    BY <2>1 DEF Given
  <2>3. Handling(s, a)' \subseteq Handling(s, a)
    BY <2>1 DEF Handling
  <2> QED BY <1>0, <2>1, <2>2, <2>3, CountsOn
<1> QED BY <1>1, <1>2, <1>3, <1>4, Zenon DEF Next, AgentStep, Quiescent

(* No specialist answers more than its cap. *)
THEOREM CapsAreKept == Spec => []CapIsKept
<1>1. Init => CapIsKept
  <2>1. ASSUME Init, NEW s \in Sessions, NEW a \in Agents
        PROVE  Given(s, a) = {} /\ InHand(s, a) = 0 /\ steps[s][a] = 0
    BY <2>1 DEF Init, Given, InHand, Handling
  <2> QED BY <2>1, FS_EmptySet, ParameterAssumption DEF CapIsKept
<1>2. IInv /\ IInv' /\ OneInHand /\ CapIsKept /\ [Next]_vars => CapIsKept'
  BY CapHolds DEF CapIsKept
<1>3. Spec => []OneInHand
  BY NoDelegationMislaid, PTL
<1> QED BY <1>1, <1>2, <1>3, Invariant, PTL DEF Spec
=============================================================================
