----------------------------- MODULE AgentRound -----------------------------
(***************************************************************************)
(* The desk's agent rounds and the CoralOS specialists they delegate to.   *)
(*                                                                         *)
(* A round (run_match_intelligence_round) runs inside the desktop process; *)
(* rounds started by the autonomous loop and by the user run concurrently. *)
(* It obtains a CoralOS session and a thread of its own, proposes a wager, *)
(* asks proof-guard-agent to verify it, hands its decision to the          *)
(* specialist of its track and publishes its transcript.  Each specialist  *)
(* is a process of the session: it takes one mention at a time and replies *)
(* into the thread the mention came from.  coral-server is external: it    *)
(* keeps, per session, the messages posted and the mentions an agent has   *)
(* not been given yet.                                                     *)
(*                                                                         *)
(* The round's messages are a set.  No send is ever retried, so an agent,  *)
(* a kind and a thread name one message; the order in which a session's    *)
(* threads are listed back is coral-server's own, so a reader that takes   *)
(* "the first match" takes any match.  A thread belongs to one round and   *)
(* is named by it.                                                         *)
(***************************************************************************)
EXTENDS WagerRules, Integers, FiniteSets

CONSTANTS
  Rounds,             \* the rounds started while the desk runs
  Sessions,           \* the session ids coral-server can hand out
  NoSession,          \* Option::None where a session id is expected
  NoWager,            \* Option::None where a wager is expected
  ConfiguredSession,  \* config.coralos_session_id, or NoSession
  ConsoleChoices,     \* the values config.coralos_console_enabled may have
  TrackChoices,       \* the tracks rounds are started on
  GateRefs,           \* what the proof gate may attach: ProofRefs, or fewer
  MaxSteps,           \* MAX_STEPS of a specialist process
  MaxFaults           \* bound: failures of the network, server or processes

Tracks == {"settlement", "trading", "fan"}

ASSUME SessionAssumption ==
  /\ NoSession \notin Sessions
  /\ ConfiguredSession \in Sessions \cup {NoSession}

ASSUME WagerAssumption == NoWager \notin Wagers(Rounds)

ASSUME ParameterAssumption ==
  /\ ConsoleChoices \subseteq BOOLEAN
  /\ TrackChoices \subseteq Tracks
  /\ GateRefs \subseteq ProofRefs
  /\ MaxSteps \in Nat
  /\ MaxFaults \in Nat

VARIABLES
  consoleEnabled,  \* config.coralos_console_enabled, fixed at the start
  pc,          \* where each round stands
  track,       \* the track each round was started on
  persisted,   \* DesktopState.coralos_session_id
  override,    \* per round: the persisted id it read before its first await
  live,        \* per round: the session of its LiveSession, or NoSession
  wager,       \* per round: the wager it sends to proof-guard
  verified,    \* per round: verified_wager
  outcome,     \* per round: status of the handoff, and the thread it answers
  created,     \* the sessions this desk made coral-server create
  up,          \* the sessions alive on coral-server
  log,         \* every message posted
  unseen,      \* the mentions coral-server has yet to hand to their agent
  busy,        \* the mentions whose handler is running
  steps,       \* per session and specialist: mentions counted
  faults       \* failures so far

config == <<consoleEnabled, track>>
roundVars == <<wager, verified, outcome>>
serverVars == <<created, up>>
agentVars == <<busy, steps>>
vars == <<config, pc, persisted, override, live, roundVars, serverVars,
          log, unseen, agentVars, faults>>

-----------------------------------------------------------------------------
(* Messages and the agents that exchange them                              *)

Agents == {"proof_guard", "settlement", "trading", "fan_pundit"}

Specialist(t) == CASE t = "settlement" -> "settlement"
                   [] t = "trading"    -> "trading"
                   [] t = "fan"        -> "fan_pundit"

Stances == {"endorse", "challenge", "no_bet", "other"}

VerdictStatuses ==
  {"checked", "settled", "rejected", "simulated", "declined"} \cup Stances

Messages ==
  [ agent   : Agents,            \* the specialist addressed or replying
    kind    : {"request", "verdict", "chatter"},
    session : Sessions,
    thread  : Rounds,
    wager   : Wagers(Rounds) \cup {NoWager},
    status  : VerdictStatuses \cup {"none"} ]

Mention(a, k, s, r, w) ==
  [agent |-> a, kind |-> k, session |-> s, thread |-> r, wager |-> w,
   status |-> "none"]

VerdictOn(m, w, st) == [m EXCEPT !.kind = "verdict", !.wager = w, !.status = st]

(* What each specialist's handle() may answer to a delegation. *)
ProofGuardAnswers(m) == {VerdictOn(m, ProofGuardVerify(m.wager), "checked")}

SettlementAnswers(m) == {VerdictOn(m, m.wager, SettlementVerdict(m.wager))}

TradingAnswers(m) ==  \* the verdict echoes no id: its wager field is empty
  {VerdictOn(m, NoWager, st) : st \in {"simulated", "declined"}}

PunditAnswers(m) ==
  {VerdictOn(m, PunditEcho(m.wager, st), st) : st \in PunditStances(m.wager)}

Verdicts(m) == CASE m.agent = "proof_guard" -> ProofGuardAnswers(m)
                 [] m.agent = "settlement"  -> SettlementAnswers(m)
                 [] m.agent = "trading"     -> TradingAnswers(m)
                 [] m.agent = "fan_pundit"  -> PunditAnswers(m)

(* Slip: the sender is not compared. *)
RepliesFromAnyone(r, a) ==
  { m \in log : /\ m.kind = "verdict"
                /\ m.session = live[r]
                /\ a = "trading" \/ m.wager.id = r }

(* Slip: an empty `contains`, as the trade delegation has. *)
RepliesToAnyone(r, a) ==
  {m \in log : m.agent = a /\ m.kind = "verdict" /\ m.session = live[r]}

(* thread_reader::poll_once: matches anywhere in the round's session, by   *)
(* sender, verb and wager id; a trade verdict has no id to match.          *)
Replies(r, a) ==
  { m \in log : /\ m.agent = a
                /\ m.kind = "verdict"
                /\ m.session = live[r]
                /\ a = "trading" \/ m.wager.id = r }

-----------------------------------------------------------------------------
Init ==
  /\ consoleEnabled \in ConsoleChoices
  /\ pc = [r \in Rounds |-> "idle"]
  /\ track \in [Rounds -> TrackChoices]
  /\ persisted = NoSession
  /\ override = [r \in Rounds |-> NoSession]
  /\ live = [r \in Rounds |-> NoSession]
  /\ wager = [r \in Rounds |-> NoWager]
  /\ verified = [r \in Rounds |-> NoWager]
  /\ outcome = [r \in Rounds |-> [status |-> "none", thread |-> r]]
  /\ created = {}
  /\ up = {ConfiguredSession} \ {NoSession}
  /\ log = {}
  /\ unseen = {}
  /\ busy = {}
  /\ steps = [s \in Sessions |-> [a \in Agents |-> 0]]
  /\ faults = 0

Fault == faults < MaxFaults /\ faults' = faults + 1
NoFault == faults' = faults

At(r, here) == pc[r] = here
Goto(r, there) == pc' = [pc EXCEPT ![r] = there]

(* puppet send: the message joins the thread and its mention is queued *)
Post(M) == log' = log \cup M /\ unseen' = unseen \cup M

-----------------------------------------------------------------------------
(* Obtaining a session                                                     *)

Fresh == Sessions \ (created \cup {ConfiguredSession})

(* ensure_session_with_override: the override, else the configured session,*)
(* else a new one; then a thread in it.                                    *)
Wanted(o) == IF o # NoSession THEN o ELSE ConfiguredSession

SessionOpened(o, s) ==
  \/ /\ Wanted(o) # NoSession
     /\ s = Wanted(o) /\ s \in up
     /\ UNCHANGED serverVars
  \/ /\ Wanted(o) = NoSession
     /\ s \in Fresh
     /\ created' = created \cup {s}
     /\ up' = up \cup {s}

(* It fails when the session wanted is gone, or on a network fault, which  *)
(* may strike after coral-server has created the session.                  *)
SessionRefused(o) ==
  \/ /\ Wanted(o) # NoSession /\ Wanted(o) \notin up
     /\ NoFault
     /\ UNCHANGED serverVars
  \/ /\ Fault
     /\ UNCHANGED serverVars
  \/ /\ Wanted(o) = NoSession
     /\ Fault
     /\ \E s \in Fresh : created' = created \cup {s} /\ up' = up \cup {s}

(* The round copies the persisted id out of its mutex, then awaits. *)
BeginRound(r) ==
  /\ At(r, "idle")
  /\ IF consoleEnabled
     THEN Goto(r, "ensuring") /\ override' = [override EXCEPT ![r] = persisted]
     ELSE Goto(r, "proposing") /\ UNCHANGED override
  /\ UNCHANGED <<config, persisted, live, roundVars, serverVars, log, unseen,
                 agentVars, faults>>

EnsureOk(r) ==
  /\ At(r, "ensuring")
  /\ \E s \in Sessions :
       /\ SessionOpened(override[r], s)
       /\ persisted' = s
       /\ live' = [live EXCEPT ![r] = s]
  /\ Goto(r, "proposing")
  /\ UNCHANGED <<config, override, roundVars, log, unseen, agentVars, faults>>

(* Slip: the id that failed is kept for the next round. *)
EnsureFailedKeepsId(r) ==
  /\ At(r, "ensuring")
  /\ SessionRefused(override[r])
  /\ Goto(r, "proposing")
  /\ UNCHANGED <<config, persisted, override, live, roundVars, log, unseen,
                 agentVars>>

EnsureFailed(r) ==
  /\ At(r, "ensuring")
  /\ SessionRefused(override[r])
  /\ persisted' = NoSession
  /\ Goto(r, "proposing")
  /\ UNCHANGED <<config, override, live, roundVars, log, unseen, agentVars>>

(* Slip: a delegation does not reuse the session the round has. *)
NeedsSessionAnew(r) ==
  consoleEnabled /\ pc[r] \in {"proof_send", "handoff_send", "publish"}

(* A delegation, or the final publish, of a round without a session opens  *)
(* one itself.  This one does not look at the persisted id nor store it.   *)
NeedsSession(r) ==
  consoleEnabled /\ live[r] = NoSession
  /\ pc[r] \in {"proof_send", "handoff_send", "publish"}

LazyEnsureOk(r) ==
  /\ NeedsSession(r)
  /\ \E s \in Sessions :
       SessionOpened(NoSession, s) /\ live' = [live EXCEPT ![r] = s]
  /\ UNCHANGED <<config, pc, persisted, override, roundVars, log, unseen,
                 agentVars, faults>>

-----------------------------------------------------------------------------
(* The wager debate                                                        *)

(* No ruling: the event has no complete market or the debate made none. *)
NoRuling(r) ==
  /\ At(r, "proposing")
  /\ Goto(r, "decide")
  /\ UNCHANGED <<config, persisted, override, live, roundVars, serverVars, log,
                 unseen, agentVars, faults>>

(* wager_agent: the model's estimate, adjudicated, with the proof gate's   *)
(* reference attached or none.                                             *)
Proposals(r) ==
  {Adjudicate(r, ref, hasValue) : ref \in GateRefs, hasValue \in BOOLEAN}

(* The in-process pundit may have the proposal adjudicated again. *)
Propose(r) ==
  /\ At(r, "proposing")
  /\ \E p \in Proposals(r) : \E w \in PunditRulings(p) :
       wager' = [wager EXCEPT ![r] = w]
  /\ Goto(r, "proof_send")
  /\ UNCHANGED <<config, persisted, override, live, verified, outcome,
                 serverVars, log, unseen, agentVars, faults>>

-----------------------------------------------------------------------------
(* wager_proof_delegation::delegate                                        *)

CloseProof(r, w) ==
  /\ verified' = [verified EXCEPT ![r] = w]
  /\ Goto(r, "decide")
  /\ UNCHANGED <<config, persisted, override, live, wager, outcome, agentVars>>

ProofRequest(r) == Mention("proof_guard", "request", live[r], r, wager[r])

ProofUnavailable(r) ==
  /\ At(r, "proof_send")
  /\ \/ ~consoleEnabled /\ NoFault /\ UNCHANGED serverVars
     \/ NeedsSession(r) /\ SessionRefused(NoSession)
  /\ CloseProof(r, FailClosed(wager[r]))
  /\ UNCHANGED <<log, unseen>>

SendProof(r) ==
  /\ At(r, "proof_send")
  /\ live[r] \in up
  /\ Post({ProofRequest(r)})
  /\ Goto(r, "proof_wait")
  /\ UNCHANGED <<config, persisted, override, live, roundVars, serverVars,
                 agentVars, faults>>

(* The session is gone, or the POST fails - maybe after it took effect. *)
SendProofFailed(r) ==
  /\ At(r, "proof_send")
  /\ live[r] # NoSession
  /\ \/ live[r] \notin up /\ NoFault /\ UNCHANGED <<log, unseen>>
     \/ Fault /\ UNCHANGED <<log, unseen>>
     \/ Fault /\ live[r] \in up /\ Post({ProofRequest(r)})
  /\ CloseProof(r, FailClosed(wager[r]))
  /\ UNCHANGED serverVars

AcceptProofVerdict(r) ==
  /\ At(r, "proof_wait")
  /\ live[r] \in up
  /\ \E m \in Replies(r, "proof_guard") : CloseProof(r, m.wager)
  /\ UNCHANGED <<serverVars, log, unseen, faults>>

(* Slip: the wager is kept as the Authority ruled it. *)
ProofTimeoutOpen(r) ==
  /\ At(r, "proof_wait")
  /\ \/ live[r] \notin up /\ NoFault
     \/ Replies(r, "proof_guard") = {} /\ NoFault
     \/ Fault
  /\ CloseProof(r, wager[r])
  /\ UNCHANGED <<serverVars, log, unseen>>

(* 30 s without a match; the last poll found none, or failed itself. *)
ProofTimeout(r) ==
  /\ At(r, "proof_wait")
  /\ \/ live[r] \notin up /\ NoFault
     \/ Replies(r, "proof_guard") = {} /\ NoFault
     \/ Fault
  /\ CloseProof(r, FailClosed(wager[r]))
  /\ UNCHANGED <<serverVars, log, unseen>>

-----------------------------------------------------------------------------
(* The decision and the handoff to the track's specialist                  *)

(* build_signal found no actionable move: nothing is handed off. *)
NoSignal(r) ==
  /\ At(r, "decide")
  /\ Goto(r, "publish")
  /\ UNCHANGED <<config, persisted, override, live, roundVars, serverVars, log,
                 unseen, agentVars, faults>>

NeedsWager(r) == track[r] # "trading"

(* What the handoff ends with when nothing is sent, "none" if it is sent. *)
HandoffRefusal(r) ==
  IF NeedsWager(r) /\ verified[r] = NoWager THEN "skipped"
  ELSE IF \/ ~consoleEnabled
          \/ track[r] = "settlement" /\ verified[r].proofRef = "none"
       THEN "unreachable"
       ELSE "none"

(* A signal is handed off whatever the policy decided, blocked included. *)
Decide(r) ==
  /\ At(r, "decide")
  /\ IF HandoffRefusal(r) = "none"
     THEN Goto(r, "handoff_send") /\ UNCHANGED outcome
     ELSE /\ outcome' = [outcome EXCEPT ![r] =
                           [status |-> HandoffRefusal(r), thread |-> r]]
          /\ Goto(r, "publish")
  /\ UNCHANGED <<config, persisted, override, live, wager, verified, serverVars,
                 log, unseen, agentVars, faults>>

CloseHandoff(r, st, th) ==
  /\ outcome' = [outcome EXCEPT ![r] = [status |-> st, thread |-> th]]
  /\ Goto(r, "publish")
  /\ UNCHANGED <<config, persisted, override, live, wager, verified, agentVars>>

(* Slip: the raw proposal is handed off. *)
HandoffRequestRaw(r) ==
  Mention(Specialist(track[r]), "request", live[r], r,
          IF NeedsWager(r) THEN wager[r] ELSE NoWager)

HandoffRequest(r) ==
  Mention(Specialist(track[r]), "request", live[r], r,
          IF NeedsWager(r) THEN verified[r] ELSE NoWager)

HandoffUnavailable(r) ==
  /\ At(r, "handoff_send")
  /\ NeedsSession(r)
  /\ SessionRefused(NoSession)
  /\ CloseHandoff(r, "unreachable", r)
  /\ UNCHANGED <<log, unseen>>

SendHandoff(r) ==
  /\ At(r, "handoff_send")
  /\ live[r] \in up
  /\ Post({HandoffRequest(r)})
  /\ Goto(r, "handoff_wait")
  /\ UNCHANGED <<config, persisted, override, live, roundVars, serverVars,
                 agentVars, faults>>

SendHandoffFailed(r) ==
  /\ At(r, "handoff_send")
  /\ live[r] # NoSession
  /\ \/ live[r] \notin up /\ NoFault /\ UNCHANGED <<log, unseen>>
     \/ Fault /\ UNCHANGED <<log, unseen>>
     \/ Fault /\ live[r] \in up /\ Post({HandoffRequest(r)})
  /\ CloseHandoff(r, "unreachable", r)
  /\ UNCHANGED serverVars

AcceptHandoff(r) ==
  /\ At(r, "handoff_wait")
  /\ live[r] \in up
  /\ \E m \in Replies(r, Specialist(track[r])) :
       CloseHandoff(r, m.status, m.thread)
  /\ UNCHANGED <<serverVars, log, unseen, faults>>

(* Slip: the delegation is sent again, without a limit. *)
HandoffTimeoutResend(r) ==
  /\ At(r, "handoff_wait")
  /\ \/ live[r] \notin up /\ NoFault
     \/ Replies(r, Specialist(track[r])) = {} /\ NoFault
     \/ Fault
  /\ Goto(r, "handoff_send")
  /\ UNCHANGED <<config, persisted, override, live, roundVars, serverVars, log,
                 unseen, agentVars>>

HandoffTimeout(r) ==
  /\ At(r, "handoff_wait")
  /\ \/ live[r] \notin up /\ NoFault
     \/ Replies(r, Specialist(track[r])) = {} /\ NoFault
     \/ Fault
  /\ CloseHandoff(r, "unreachable", r)
  /\ UNCHANGED <<serverVars, log, unseen>>

-----------------------------------------------------------------------------
(* console::publish_run: the transcript, posted message by message until   *)
(* one fails.  Its mentions, in order: proof-guard when the round asked    *)
(* for the proof, again when it delegated its wager, and the specialist    *)
(* when it handed off.                                                     *)

Chatter(r, a, w) == Mention(a, "chatter", live[r], r, w)

ProofMentions(r) == {Chatter(r, "proof_guard", w) : w \in {NoWager, wager[r]}}

Mentioned(r) ==
  ProofMentions(r)
    \cup {Chatter(r, a, NoWager) :
             a \in IF outcome[r].status = "none" THEN {} ELSE {Specialist(track[r])}}

(* What is posted when one message fails, maybe after it took effect. *)
MentionedSoFar(r) ==
  {{}, {Chatter(r, "proof_guard", NoWager)}, ProofMentions(r), Mentioned(r)}

PublishUnavailable(r) ==
  /\ At(r, "publish")
  /\ \/ ~consoleEnabled /\ NoFault /\ UNCHANGED serverVars
     \/ NeedsSession(r) /\ SessionRefused(NoSession)
  /\ Goto(r, "done")
  /\ UNCHANGED <<config, persisted, override, live, roundVars, log, unseen,
                 agentVars>>

Publish(r) ==
  /\ At(r, "publish")
  /\ live[r] # NoSession
  /\ \/ live[r] \in up /\ NoFault /\ Post(Mentioned(r))
     \/ live[r] \notin up /\ NoFault /\ UNCHANGED <<log, unseen>>
     \/ Fault /\ UNCHANGED <<log, unseen>>
     \/ Fault /\ live[r] \in up /\ \E M \in MentionedSoFar(r) : Post(M)
  /\ Goto(r, "done")
  /\ UNCHANGED <<config, persisted, override, live, roundVars, serverVars,
                 agentVars>>

-----------------------------------------------------------------------------
(* A specialist process: coral_client::run                                 *)

Queue(s, a) == {m \in unseen : m.session = s /\ m.agent = a}
Handling(s, a) == {m \in busy : m.session = s /\ m.agent = a}
Tick(s, a) == steps' = [steps EXCEPT ![s][a] = @ + 1]
Waiting(s, a) == s \in up /\ Handling(s, a) = {} /\ steps[s][a] <= MaxSteps

deskVars == <<config, pc, persisted, override, live, roundVars, serverVars>>

Receive(s, a) ==
  /\ Waiting(s, a)
  /\ steps[s][a] < MaxSteps
  /\ \E m \in Queue(s, a) : unseen' = unseen \ {m} /\ busy' = busy \cup {m}
  /\ Tick(s, a)
  /\ UNCHANGED <<deskVars, log, faults>>

(* The mention that passes the cap is consumed and the process exits. *)
StopAtCap(s, a) ==
  /\ Waiting(s, a)
  /\ steps[s][a] = MaxSteps
  /\ \E m \in Queue(s, a) : unseen' = unseen \ {m}
  /\ Tick(s, a)
  /\ UNCHANGED <<deskVars, log, busy, faults>>

(* Slip: mentions are dropped while every part works. *)
LoseMentionAtWill(s, a) ==
  /\ Waiting(s, a)
  /\ \E m \in Queue(s, a) : unseen' = unseen \ {m}
  /\ UNCHANGED <<deskVars, log, agentVars, faults>>

(* A mention without a thread id is dropped before it is counted; one that *)
(* shares its delivery with another is never looked at.                    *)
LoseMention(s, a) ==
  /\ Waiting(s, a)
  /\ \E m \in Queue(s, a) : unseen' = unseen \ {m}
  /\ Fault
  /\ UNCHANGED <<deskVars, log, agentVars>>

(* Slip: the mention is not consumed by answering it. *)
ReplyAgain(s, a) ==
  /\ s \in up
  /\ \E m \in Handling(s, a) :
       IF m.kind = "request"
       THEN \E v \in Verdicts(m) : log' = log \cup {v}
       ELSE UNCHANGED log
  /\ UNCHANGED <<deskVars, unseen, agentVars, faults>>

(* A delegation is answered; any other mention gets an empty message. *)
Reply(s, a) ==
  /\ s \in up
  /\ \E m \in Handling(s, a) :
       /\ busy' = busy \ {m}
       /\ IF m.kind = "request"
          THEN \E v \in Verdicts(m) : log' = log \cup {v}
          ELSE UNCHANGED log
  /\ UNCHANGED <<deskVars, unseen, steps, faults>>

(* send_message failed: the error is logged and the reply is dropped. *)
ReplyLost(s, a) ==
  /\ s \in up
  /\ \E m \in Handling(s, a) : busy' = busy \ {m}
  /\ Fault
  /\ UNCHANGED <<deskVars, log, unseen, steps>>

(* coral-server restarts or winds the session down: its containers die. *)
SessionLost(s) ==
  /\ s \in up
  /\ Fault
  /\ up' = up \ {s}
  /\ unseen' = {m \in unseen : m.session # s}
  /\ busy' = {m \in busy : m.session # s}
  /\ UNCHANGED <<config, pc, persisted, override, live, roundVars, created, log,
                 steps>>

-----------------------------------------------------------------------------
(* The steps that end whatever the others do: within the timeout of the    *)
(* HTTP client or the deadline of a poll.                                  *)
BoundedStep(r) ==
  \/ EnsureOk(r) \/ EnsureFailed(r) \/ LazyEnsureOk(r)
  \/ ProofUnavailable(r) \/ SendProof(r) \/ SendProofFailed(r)
  \/ AcceptProofVerdict(r) \/ ProofTimeout(r)
  \/ NoSignal(r) \/ Decide(r)
  \/ HandoffUnavailable(r) \/ SendHandoff(r) \/ SendHandoffFailed(r)
  \/ AcceptHandoff(r) \/ HandoffTimeout(r)
  \/ PublishUnavailable(r) \/ Publish(r)

(* The steps before a ruling await the validation sidecar's exit and the   *)
(* turns of two models, and nothing limits these.                          *)
RoundStep(r) == NoRuling(r) \/ Propose(r) \/ BoundedStep(r)

AgentStep(s, a) == Receive(s, a) \/ StopAtCap(s, a) \/ Reply(s, a)

AgentFailure(s, a) == LoseMention(s, a) \/ ReplyLost(s, a)

(* Every round done and every mention handled: the desk is at rest. *)
Quiescent ==
  /\ \A r \in Rounds : pc[r] = "done"
  /\ UNCHANGED vars

Next ==
  \/ \E r \in Rounds : BeginRound(r) \/ RoundStep(r)
  \/ \E s \in Sessions, a \in Agents : AgentStep(s, a) \/ AgentFailure(s, a)
  \/ \E s \in Sessions : SessionLost(s)
  \/ Quiescent

Spec == Init /\ [][Next]_vars

(* Only what the code bounds is fair: no mention need be delivered, and no *)
(* agent's handler need return.                                            *)
RoundFairness == \A r \in Rounds : WF_vars(BoundedStep(r))

DeskFairSpec == Spec /\ RoundFairness
-----------------------------------------------------------------------------
(* What must be true of every state                                        *)

OutcomeStatuses ==
  {"none", "skipped", "unreachable"} \cup (VerdictStatuses \ {"checked"})

Pcs == {"idle", "ensuring", "proposing", "proof_send", "proof_wait", "decide",
        "handoff_send", "handoff_wait", "publish", "done"}

(* Every variable holds a value of its type; queued and running mentions   *)
(* are posted messages that expect a reader.                               *)
TypeOK ==
  /\ consoleEnabled \in BOOLEAN
  /\ pc \in [Rounds -> Pcs]
  /\ track \in [Rounds -> TrackChoices]
  /\ persisted \in Sessions \cup {NoSession}
  /\ override \in [Rounds -> Sessions \cup {NoSession}]
  /\ live \in [Rounds -> Sessions \cup {NoSession}]
  /\ wager \in [Rounds -> Wagers(Rounds) \cup {NoWager}]
  /\ verified \in [Rounds -> Wagers(Rounds) \cup {NoWager}]
  /\ outcome \in [Rounds -> [status : OutcomeStatuses, thread : Rounds]]
  /\ created \subseteq Sessions
  /\ up \subseteq Sessions
  /\ log \subseteq Messages
  /\ unseen \subseteq log
  /\ busy \subseteq log
  /\ steps \in [Sessions -> [Agents -> 0..(MaxSteps + 1)]]
  /\ faults \in 0..MaxFaults

VerdictsFor(r, a) ==
  {m \in log : m.kind = "verdict" /\ m.agent = a /\ m.thread = r}

(* The gate fails closed: the desk never takes a wager for ProofPassed     *)
(* unless proof-guard said so, in this round's thread and session, of      *)
(* exactly this wager - not on a timeout, a lost reply, a disabled console *)
(* or the Authority's own ruling - and then its reference is well shaped.  *)
FailClosedGate ==
  \A r \in Rounds :
    verified[r] # NoWager /\ verified[r].status = "ProofPassed" =>
      /\ verified[r].proofRef = "wellShaped"
      /\ \E m \in VerdictsFor(r, "proof_guard") :
            m.session = live[r] /\ m.wager = verified[r]

(* The wager a round acts on is the one it proposed, never that of another *)
(* round sharing the session: only its status may have changed.            *)
VerifiedIsOwn ==
  \A r \in Rounds :
    verified[r] # NoWager =>
      /\ wager[r] # NoWager
      /\ SameBet(verified[r], wager[r])

(* "settled" is reported only when settlement-agent settled this round's   *)
(* own wager, and that wager was staked, attested and not a no-bet.        *)
SettlementIsBacked ==
  \A r \in Rounds :
    outcome[r].status = "settled" =>
      /\ verified[r].staked
      /\ verified[r].proofRef # "none"
      /\ verified[r].status # "NoBet"
      /\ \E m \in VerdictsFor(r, "settlement") :
            m.status = "settled" /\ m.wager = verified[r]

(* A specialist that is delegated a wager is sent the verified one, never  *)
(* the raw proposal.                                                       *)
HandoffUsesVerifiedWager ==
  \A m \in log :
    m.kind = "request" /\ m.agent \in {"settlement", "fan_pundit"} =>
      m.wager = verified[m.thread] /\ m.wager # NoWager

(* No specialist speaks unasked, nor twice: a verdict answers a delegation *)
(* to that agent in that thread and session, and is the only one.          *)
VerdictsAnswerRequests ==
  \A v \in log : v.kind = "verdict" =>
    /\ \E m \in log : /\ m.kind = "request" /\ m.agent = v.agent
                      /\ m.thread = v.thread /\ m.session = v.session
    /\ \A w \in VerdictsFor(v.thread, v.agent) : w = v

(* All of a round - delegations, verdicts, transcript - is in one session, *)
(* the one it polls: session creation is shared by the whole round.        *)
OneSessionPerRound == \A m \in log : m.session = live[m.thread]

Requested(r, a) ==
  \E m \in log : m.kind = "request" /\ m.agent = a /\ m.thread = r

Exited(r, a) ==
  live[r] # NoSession /\ (live[r] \notin up \/ steps[live[r]][a] > MaxSteps)

(* The processes that have not stopped at their cap are through with all   *)
(* their mentions.                                                         *)
AgentsAtRest ==
  \A s \in up, a \in Agents :
    Handling(s, a) = {} /\ (Queue(s, a) = {} \/ steps[s][a] > MaxSteps)

(* As long as nothing is lost, every delegation is answered by the time    *)
(* the specialists are at rest, unless the process has exited at its cap:  *)
(* none is passed over behind the mentions of other rounds and transcripts.*)
DelegationAnswered ==
  faults = 0 /\ AgentsAtRest =>
    \A r \in Rounds, a \in Agents :
      Requested(r, a) => VerdictsFor(r, a) # {} \/ Exited(r, a)

-----------------------------------------------------------------------------
(* What must eventually happen                                             *)

(* Whatever fails and whoever keeps silent, a round that has begun comes   *)
(* to its end or waits for its ruling for ever: neither coral-server nor a *)
(* specialist can hold it.                                                 *)
RoundEnds ==
  \A r \in Rounds :
    pc[r] # "idle" ~> pc[r] = "done" \/ [](pc[r] = "proposing")

(* A stale persisted session id does not survive the round that meets it.  *)
StaleSessionHeals ==
  \A r \in Rounds, s \in Sessions :
    (pc[r] = "ensuring" /\ override[r] = s /\ s \notin up) ~> (persisted # s)

-----------------------------------------------------------------------------
(* The rounds, with sessions, lost messages and processes, implement the   *)
(* promise WagerGate states without them.                                  *)

Attestations ==
  {m.wager : m \in {v \in log : v.kind = "verdict" /\ v.agent = "proof_guard"}}

Settlements ==
  { [id |-> m.wager.id, status |-> m.status] :
      m \in {v \in log : v.kind = "verdict" /\ v.agent = "settlement"} }

Result(r) == CASE outcome[r].status = "none"    -> "open"
               [] outcome[r].status = "settled" -> "settled"
               [] OTHER                         -> "not_settled"

Gate == INSTANCE WagerGate WITH
          proposed <- wager,
          attested <- Attestations,
          gate     <- verified,
          rulings  <- Settlements,
          result   <- [r \in Rounds |-> Result(r)]

(* Every step of the rounds, the agents and the server is a step of the    *)
(* wager's promised life or leaves it as it was: refinement of WagerGate.  *)
ImplementsWagerGate == Gate!Spec

-----------------------------------------------------------------------------
(* What a comment of the code says and the code does not do                *)

(* trading_delegation: "Only one delegation is ever in flight per round,   *)
(* so matching on the verb alone (empty `contains`) is sufficient".        *)
TradeVerdictIsOwn ==
  \A r \in Rounds :
    outcome[r].status \in {"simulated", "declined"} => outcome[r].thread = r

(* settlement-agent: "The orchestrator sends `SETTLE_REQUESTED` once the   *)
(* proof gate has passed"; of a wager whose proof failed, wager.rs says it *)
(* "is vetoed".  What is settled has passed.                               *)
SettlesWhatPassed ==
  \A r \in Rounds :
    outcome[r].status = "settled" => verified[r].status = "ProofPassed"
=============================================================================
