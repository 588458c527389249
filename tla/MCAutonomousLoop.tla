-------------------------- MODULE MCAutonomousLoop --------------------------
(* TLC instances of AutonomousLoop.                                        *)
EXTENDS AutonomousLoop

CONSTANTS f1, f2, home

(* The market of the second fixture opens and stays as it is; what may     *)
(* keep the loop from it is the rounds of the first.                       *)
QuietSecond == \A q \in Quotes : q[1] = f2 => market[q] \in {<<>>, <<200>>}
=============================================================================
