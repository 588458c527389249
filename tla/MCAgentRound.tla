---------------------------- MODULE MCAgentRound ----------------------------
(* TLC instances of AgentRound.                                            *)
EXTENDS AgentRound, TLC

CONSTANTS r1, r2, s1, s2, s3, s4

(* Rounds and session ids are interchangeable; only for runs without       *)
(* temporal properties and without a configured session.                   *)
Symmetry == Permutations(Rounds) \cup Permutations(Sessions)

(* A transcript mention is answered with nothing, and nobody waits for it:  *)
(* it is taken before anything else happens once its agent is free, those   *)
(* of proof-guard first, and done with at once; none gets lost but with its *)
(* session.  Delegations taken before it are taken before it is posted.     *)
ChatterAtOnce ==
  LET taken   == {m \in busy : m.kind = "chatter"}
      waiting == {m \in unseen : m.kind = "chatter" /\ Waiting(m.session, m.agent)}
      first   == {m \in waiting : m.agent = "proof_guard" \/
                                  \A n \in waiting : n.agent # "proof_guard"}
  IN  IF taken # {} THEN busy' = busy \ taken
      ELSE waiting # {} => ~(first \subseteq unseen') /\ (steps' # steps \/ up' # up)

(* Once the rounds are done and every delegation is answered or lost, only  *)
(* transcript mentions are left, and handling them changes nothing a round  *)
(* or a reader of the log sees.                                             *)
NotOver ==
  (\A r \in Rounds : pc[r] = "done")
    => \E m \in unseen \cup busy : m.kind = "request"

(* The other round opens its session and waits for its ruling for ever: it  *)
(* leaves out no fair step.                                                 *)
OtherStaysQuiet ==
  pc[r2] \in {"idle", "ensuring", "proposing"} /\ track[r2] = "settlement"

(* Every session a round may open, or a failed attempt may leave behind,   *)
(* is there to be handed out: runs never stop for want of a session id.    *)
ASSUME SessionsSuffice ==
  ConfiguredSession # NoSession
    \/ Cardinality(Sessions) >= Cardinality(Rounds) + MaxFaults
=============================================================================
