---------------------------- MODULE BettingBook -----------------------------
(***************************************************************************)
(* What the arena promises about its contest, without polls, requests,     *)
(* budgets or restarts.  Positions are taken in batches, each batch by one *)
(* side on moves later than all it had taken before; whoever takes the     *)
(* other side of a move takes the other direction.  A recorder does not    *)
(* look whether the match is still on when it writes a position, so one    *)
(* may be taken after its fixture has its result.  A fixture gets one      *)
(* result.  A position already taken may be ruled on once its fixture has  *)
(* its result, by that result, as often as the coordinator forgets.        *)
(***************************************************************************)
EXTENDS Integers

CONSTANTS
  Fixtures, Winners, NoResult,
  PartOf        \* pairs: a selection's name contained in a winner's

VARIABLES
  taken,        \* positions taken
  result,       \* per fixture: its winner, or NoResult
  verdicts      \* [position, won]

bookVars == <<taken, result, verdicts>>

Init ==
  /\ taken = {}
  /\ result = [f \in Fixtures |-> NoResult]
  /\ verdicts = {}

SameMove(p, q) == p.key = q.key /\ p.from = q.from /\ p.to = q.to

Take ==
  /\ taken \subseteq taken'
  /\ \A p \in taken' \ taken, q \in taken' :
       /\ p.strategy = q.strategy /\ p.key = q.key /\ p # q =>
            q \in taken /\ q.to <= p.from
       /\ p.strategy # q.strategy =>
            q \in taken /\ (SameMove(p, q) => p.direction # q.direction)
  /\ UNCHANGED <<result, verdicts>>

PostResult(f) ==
  /\ result[f] = NoResult
  /\ \E n \in Winners : result' = [result EXCEPT ![f] = n]
  /\ UNCHANGED <<taken, verdicts>>

Backed(p) ==
  result[p.key[1]] = p.key[2] \/ <<p.key[2], result[p.key[1]]>> \in PartOf

Rule(p) ==
  /\ result[p.key[1]] # NoResult
  /\ verdicts' = verdicts \cup
       {[position |-> p, won |-> (p.direction = "With" <=> Backed(p))]}
  /\ UNCHANGED <<taken, result>>

Next ==
  \/ Take
  \/ \E f \in Fixtures : PostResult(f)
  \/ \E p \in taken : Rule(p)

Spec == Init /\ [][Next]_bookVars
=============================================================================
