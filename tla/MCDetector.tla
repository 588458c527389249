------------------------------ MODULE MCDetector ------------------------------
(* TLC instances of Detector.                                              *)
EXTENDS Detector

CONSTANTS f1, f2, home, away

Movement(sharp, direction) ==
  [tool |-> "movement", sharp |-> sharp, direction |-> direction]
Submit == [tool |-> "submit"]
Other == [tool |-> "fetch"]
Error == [tool |-> "error"]

Short == Movement(TRUE, "shortening")
Drift == Movement(TRUE, "drifting")
Dull == Movement(FALSE, "stable")

(* Replies in which the verdict comes late, is revised, is lost to a       *)
(* failure or to the round limit, or never comes.                          *)
DefaultScripts ==
  { <<<<Short>>, <<Submit>>>>,
    <<<<Other>>, <<Dull, Drift, Submit>>>>,
    <<<<Short>>, <<Dull, Submit>>>>,
    <<<<Other>>, <<Other>>, <<Short>>>>,
    <<<<Short>>, <<Error>>>>,
    <<<<Submit>>>>, <<<<>>>> }
=============================================================================
