------------------------------- MODULE Arena -------------------------------
(***************************************************************************)
(* The whole arena: the two recorders and the coordinator, processes of    *)
(* their own that meet only in the feed they poll and in the position logs *)
(* the recorders append to while the coordinator may be reading them.      *)
(***************************************************************************)
EXTENDS ArenaRecorders, ArenaCoordinator

arenaVars == <<recorderVars, coordinatorVars, boardVars>>

Init == BoardInit /\ RecorderInit /\ CoordinatorInit

Next ==
  \/ (\E a \in Strategies : RecorderStep(a)) /\ UNCHANGED coordinatorVars
  \/ CoordinatorStep /\ UNCHANGED recorderVars
  \/ FeedStep /\ UNCHANGED <<recorderVars, coordinatorVars>>

Spec == Init /\ [][Next]_arenaVars
-----------------------------------------------------------------------------
(* The contest is fair: of two positions that follow and fade the same     *)
(* move, exactly one is ever settled as won, however often either of them  *)
(* is settled and whatever fails or restarts meanwhile.                    *)
OneSideWins ==
  \A i, j \in 1..Len(settlements) :
    LET p == settlements[i].position
        q == settlements[j].position
    IN (/\ p.strategy # q.strategy /\ p.key = q.key
        /\ p.from = q.from /\ p.to = q.to)
       => settlements[i].won # settlements[j].won

(* Nothing is settled that a recorder did not append, nor on a fixture     *)
(* without a result, and a position settled again (after a restart) gets   *)
(* the result it had.                                                      *)
SettlementsAreSound ==
  \A i, j \in 1..Len(settlements) :
    /\ settlements[i].position \in book
    /\ winner[settlements[i].position.key[1]] # NoResult
    /\ settlements[i].position = settlements[j].position =>
         settlements[i].won = settlements[j].won
-----------------------------------------------------------------------------
(* The arena implements the contest that BettingBook promises.             *)

Verdicts == {settlements[i] : i \in 1..Len(settlements)}

Book == INSTANCE BettingBook WITH
          taken    <- book,
          result   <- winner,
          verdicts <- Verdicts

(* Every step of a recorder, of the coordinator, of the feed and every     *)
(* failure takes positions on moves later than the ones before, or rules   *)
(* on a position already taken by the result already posted, or leaves     *)
(* both logs as they were: nothing is ruled early or revised, and no move  *)
(* is taken twice.  A position may still be taken after the match's end.   *)
ImplementsBettingBook == Book!Spec
=============================================================================
