-------------------------- MODULE ArenaCoordinator --------------------------
(***************************************************************************)
(* arena-coordinator: the process that settles the arena's positions.      *)
(* A step of its poll loop lists the finished fixtures, asks for each one's *)
(* detail, reads both position logs, settles every position not yet in     *)
(* memory as settled whose fixture has a result, and publishes the         *)
(* scoreboard.  A second task of the process answers status mentions from  *)
(* the published copy, five atomics stored and loaded one by one with      *)
(* Relaxed ordering, so in any order.                                      *)
(*                                                                         *)
(* The loop over the positions never awaits, so nothing tells apart the    *)
(* orders in which it takes them, except an append that fails part-way.    *)
(***************************************************************************)
EXTENDS ArenaBoard

CONSTANTS
  CoordinatorCalls,   \* BudgetGuard.max_tool_calls
  CoordinatorSteps,   \* StepCounter.max_steps
  Hybrid,             \* coral-server spawned the process: it takes mentions
  Entries             \* positions the recorders may append while it runs

ASSUME CoordinatorAssumption ==
  /\ CoordinatorCalls \in Nat /\ CoordinatorSteps \in Nat
  /\ Hybrid \in BOOLEAN
  /\ Entries \subseteq Positions

VARIABLES
  cpc,          \* "idle", "list", "details", "settle", "publish", "stopped"
  asking,       \* fixtures whose detail is still to be fetched
  results,      \* the fixtures whose fetched detail had a result
  loaded,       \* all_positions
  settled,      \* the positions settled, as this life remembers
  score,        \* ArenaScore
  status,       \* ArenaStatusShared
  unstored,     \* fields publish_status has yet to store
  reply,        \* fields the mention handler has loaded; Unread otherwise
  ccalls,       \* BudgetGuard.tool_calls
  csteps,       \* StepCounter.steps
  settlements,  \* the settlement log on disk
  lifeStart     \* where in it the present life began

loopVars == <<cpc, asking, results, loaded>>
scoreVars == <<settled, score, settlements>>
statusVars == <<status, unstored, reply>>
budgetVars == <<ccalls, csteps>>
coordinatorVars ==
  <<loopVars, scoreVars, statusVars, budgetVars, lifeStart>>

Counters == {"follow_wins", "follow_losses", "fade_wins", "fade_losses"}
Fields == Counters \cup {"settled"}

Unread == -1
Zero(S) == [x \in S |-> 0]
NotRead == [x \in Fields |-> Unread]

CoordinatorInit ==
  /\ cpc = "idle"
  /\ asking = {} /\ results = {} /\ loaded = {}
  /\ settled = {} /\ score = Zero(Counters)
  /\ status = Zero(Fields) /\ unstored = {} /\ reply = NotRead
  /\ ccalls = 0 /\ csteps = 0
  /\ settlements = <<>> /\ lifeStart = 0

-----------------------------------------------------------------------------
(* One step of the poll loop                                               *)

(* Safety check and step cap passed; the step counts one tool call.        *)
BeginPoll ==
  /\ cpc = "idle"
  /\ ccalls < CoordinatorCalls
  /\ csteps < CoordinatorSteps
  /\ csteps' = csteps + 1
  /\ ccalls' = ccalls + 1
  /\ cpc' = "list"
  /\ UNCHANGED <<asking, results, loaded, scoreVars, statusVars, lifeStart,
                 boardVars>>

(* The list of finished fixtures, each to be asked for its detail.         *)
ListFinished ==
  /\ cpc = "list"
  /\ asking' = finished
  /\ results' = {}
  /\ cpc' = "details"
  /\ UNCHANGED <<loaded, scoreVars, statusVars, budgetVars, lifeStart, boardVars>>

(* Slip: a finished fixture is taken to have its result. *)
FetchDetailAny(f) ==
  /\ cpc = "details" /\ f \in asking
  /\ asking' = asking \ {f}
  /\ results' = results \cup {f}
  /\ UNCHANGED <<cpc, loaded, scoreVars, statusVars, budgetVars, lifeStart,
                 boardVars>>

(* A detail without a result counts as fetched; one that fails to arrive   *)
(* or to parse is passed over.                                             *)
FetchDetail(f) ==
  /\ cpc = "details" /\ f \in asking
  /\ asking' = asking \ {f}
  /\ \/ results' = results \cup ({f} \cap {g \in Fixtures : winner[g] # NoResult})
        /\ UNCHANGED faults
     \/ Fault /\ UNCHANGED results
  /\ UNCHANGED <<cpc, loaded, scoreVars, statusVars, budgetVars, lifeStart,
                 feedVars, book>>

(* All details in, the logs are read.  With no detail at all the code      *)
(* returns first, having nothing to settle either.                         *)
LoadPositions ==
  /\ cpc = "details" /\ asking = {}
  /\ loaded' = book
  /\ cpc' = "settle"
  /\ UNCHANGED <<asking, results, scoreVars, statusVars, budgetVars, lifeStart,
                 boardVars>>

Eligible == {p \in loaded \ settled : p.key[1] \in results}

SelectionWon(p) ==
  winner[p.key[1]] = p.key[2] \/ <<p.key[2], winner[p.key[1]]>> \in PartOf

Won(p) == (p.direction = "With") = SelectionWon(p)

CounterOf(p) ==
  IF p.strategy = "follow_sharp"
  THEN IF Won(p) THEN "follow_wins" ELSE "follow_losses"
  ELSE IF Won(p) THEN "fade_wins" ELSE "fade_losses"

(* Slip: nothing remembers that the position is settled. *)
SettlePositionForgetful(p) ==
  /\ cpc = "settle" /\ p \in Eligible
  /\ settlements' = Append(settlements, [position |-> p, won |-> Won(p)])
  /\ loaded' = loaded \ {p}
  /\ score' = [score EXCEPT ![CounterOf(p)] = @ + 1]
  /\ UNCHANGED <<cpc, asking, results, settled, statusVars, budgetVars,
                 lifeStart, boardVars>>

(* One record appended, remembered and scored.                             *)
SettlePosition(p) ==
  /\ cpc = "settle" /\ p \in Eligible
  /\ settlements' = Append(settlements, [position |-> p, won |-> Won(p)])
  /\ settled' = settled \cup {p}
  /\ score' = [score EXCEPT ![CounterOf(p)] = @ + 1]
  /\ UNCHANGED <<loopVars, statusVars, budgetVars, lifeStart, boardVars>>

(* Slip: the step ends with positions left to settle. *)
StepDoneEarly ==
  /\ cpc = "settle"
  /\ cpc' = "publish"
  /\ unstored' = Fields
  /\ UNCHANGED <<asking, results, loaded, scoreVars, status, reply, budgetVars,
                 lifeStart, boardVars>>

(* Every loaded position that can be is settled: the step returns Ok.      *)
StepDone ==
  /\ cpc = "settle" /\ Eligible = {}
  /\ cpc' = "publish"
  /\ unstored' = Fields
  /\ UNCHANGED <<asking, results, loaded, scoreVars, status, reply, budgetVars,
                 lifeStart, boardVars>>

Current(x) == IF x = "settled" THEN Cardinality(settled) ELSE score[x]

(* Slip: the positions seen are published as settled. *)
StoreFieldLoaded(x) ==
  /\ cpc = "publish" /\ x \in unstored
  /\ status' = [status EXCEPT ![x] =
                  IF x = "settled" THEN Cardinality(loaded) ELSE score[x]]
  /\ unstored' = unstored \ {x}
  /\ cpc' = IF unstored = {x} THEN "idle" ELSE "publish"
  /\ UNCHANGED <<asking, results, loaded, scoreVars, reply, budgetVars,
                 lifeStart, boardVars>>

(* publish_status stores the scoreboard's fields one at a time.            *)
StoreField(x) ==
  /\ cpc = "publish" /\ x \in unstored
  /\ status' = [status EXCEPT ![x] = Current(x)]
  /\ unstored' = unstored \ {x}
  /\ cpc' = IF unstored = {x} THEN "idle" ELSE "publish"
  /\ UNCHANGED <<asking, results, loaded, scoreVars, reply, budgetVars,
                 lifeStart, boardVars>>

(* The list request or an append fails: no error is retryable.             *)
CoordinatorFails ==
  /\ cpc = "list" \/ (cpc = "settle" /\ Eligible # {})
  /\ Fault
  /\ cpc' = "stopped"
  /\ UNCHANGED <<asking, results, loaded, scoreVars, statusVars, budgetVars,
                 lifeStart, feedVars, book>>

(* Budget spent, its hour over, or the step cap reached.                   *)
CoordinatorStops ==
  /\ cpc = "idle"
  /\ \/ /\ ccalls >= CoordinatorCalls \/ csteps >= CoordinatorSteps
        /\ UNCHANGED faults
     \/ Fault
  /\ cpc' = "stopped"
  /\ UNCHANGED <<asking, results, loaded, scoreVars, statusVars, budgetVars,
                 lifeStart, feedVars, book>>

(* Killed anywhere, or stopped, and started again: the logs remain.        *)
CoordinatorRestarts ==
  /\ Fault
  /\ cpc' = "idle"
  /\ asking' = {} /\ results' = {} /\ loaded' = {}
  /\ settled' = {} /\ score' = Zero(Counters)
  /\ status' = Zero(Fields) /\ unstored' = {} /\ reply' = NotRead
  /\ ccalls' = 0 /\ csteps' = 0
  /\ lifeStart' = Len(settlements)
  /\ UNCHANGED <<settlements, feedVars, book>>

-----------------------------------------------------------------------------
(* The status mentions                                                     *)

LoadField(x) ==
  /\ Hybrid /\ cpc # "stopped"
  /\ reply[x] = Unread
  /\ reply' = [reply EXCEPT ![x] = status[x]]
  /\ UNCHANGED <<loopVars, scoreVars, status, unstored, budgetVars, lifeStart,
                 boardVars>>

Answered == \A x \in Fields : reply[x] # Unread

(* The reply is sent and another mention comes.                            *)
NextMention ==
  /\ Answered
  /\ reply' = NotRead
  /\ UNCHANGED <<loopVars, scoreVars, status, unstored, budgetVars, lifeStart,
                 boardVars>>

-----------------------------------------------------------------------------
PollStep ==
  \/ BeginPoll \/ ListFinished \/ (\E f \in asking : FetchDetail(f))
  \/ LoadPositions \/ (\E p \in loaded : SettlePosition(p)) \/ StepDone
  \/ (\E x \in unstored : StoreField(x))

CoordinatorStep ==
  \/ PollStep \/ CoordinatorFails \/ CoordinatorStops \/ CoordinatorRestarts
  \/ (\E x \in Fields : LoadField(x)) \/ NextMention

(* A recorder appends a position to its log. *)
PositionAppears(p) ==
  /\ p \notin book
  /\ book' = book \cup {p}
  /\ UNCHANGED <<feedVars, faults, coordinatorVars>>

allCoordinatorVars == <<coordinatorVars, boardVars>>

CoordinatorNext ==
  \/ CoordinatorStep
  \/ \E p \in Entries : PositionAppears(p)
  \/ FeedStep /\ UNCHANGED coordinatorVars

CoordinatorStart == BoardInit /\ CoordinatorInit

CoordinatorSpec == CoordinatorStart /\ [][CoordinatorNext]_allCoordinatorVars

(* The loop's only waits are requests with a timeout and a sleep.          *)
CoordinatorFairSpec == CoordinatorSpec /\ WF_allCoordinatorVars(PollStep)
-----------------------------------------------------------------------------
Life == (lifeStart + 1) .. Len(settlements)

(* Every variable holds a value of its type.                               *)
CoordinatorTypeOK ==
  /\ BoardTypeOK
  /\ cpc \in {"idle", "list", "details", "settle", "publish", "stopped"}
  /\ asking \subseteq Fixtures /\ results \subseteq Fixtures
  /\ loaded \subseteq book /\ settled \subseteq book
  /\ score \in [Counters -> Nat]
  /\ status \in [Fields -> Nat]
  /\ unstored \subseteq Fields
  /\ reply \in [Fields -> Nat \cup {Unread}]
  /\ ccalls \in 0..CoordinatorCalls
  /\ csteps \in 0..CoordinatorSteps
  /\ settlements \in Seq([position : Positions, won : BOOLEAN])
  /\ lifeStart \in 0..Len(settlements)

CountedAs(e) == IF e.position.strategy = "follow_sharp"
                THEN IF e.won THEN "follow_wins" ELSE "follow_losses"
                ELSE IF e.won THEN "fade_wins" ELSE "fade_losses"

(* The scoreboard is the settlement log of this life, counted: nothing is  *)
(* scored without a record, recorded without a score, or settled twice,    *)
(* wherever a step failed part-way.                                        *)
ScoreMatchesLog ==
  /\ \A c \in Counters :
       score[c] = Cardinality({i \in Life : CountedAs(settlements[i]) = c})
  /\ \A i, j \in Life :
       settlements[i].position = settlements[j].position => i = j

(* No status a mention is told ever runs ahead of the scoreboard, in any   *)
(* of its fields, however stores and loads interleave, and between steps   *)
(* the published status is the scoreboard: a settlement is visible on the  *)
(* bus before the next step begins.                                        *)
StatusFollowsScore ==
  \A x \in Fields :
    /\ reply[x] <= status[x] /\ status[x] <= Current(x)
    /\ cpc \in {"idle", "list", "details"} => status[x] = Current(x)

InSettlementLog(p) == \E i \in 1..Len(settlements) : settlements[i].position = p

(* A recorded position whose fixture has a result is settled unless        *)
(* something fails first, if the coordinator runs and has a step of its    *)
(* budget left to begin (the one under way may have read the log already)  *)
(* - after a failure or a restart as much as before it.                    *)
EventuallySettled ==
  \A p \in Entries, n \in 0..MaxFaults :
    ( /\ p \in book /\ winner[p.key[1]] # NoResult /\ faults = n
      /\ cpc # "stopped"
      /\ ccalls < CoordinatorCalls /\ csteps < CoordinatorSteps )
    ~> (InSettlementLog(p) \/ faults # n)
=============================================================================
