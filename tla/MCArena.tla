------------------------------- MODULE MCArena -------------------------------
(* TLC instances of Arena.                                                 *)
EXTENDS Arena

CONSTANTS f1, home, away

(* Steps that read and write nothing the other processes do are taken       *)
(* first: nothing tells the other orders apart, a kill at rest being no     *)
(* different from one a step later.  They are the settling and publishing   *)
(* of what has been loaded, the stores in one order since with Hybrid =     *)
(* FALSE nobody reads them, and the start of a step.                        *)
OwnStepsFirst ==
  LET resting == {a \in Strategies : rpc[a] = "idle"}
  IN  IF cpc \in {"idle", "settle", "publish"}
      THEN /\ coordinatorVars' # coordinatorVars
           /\ cpc = "publish" /\ cpc' = "publish" =>
                unstored' = unstored \ {CHOOSE first \in unstored : TRUE}
      ELSE resting # {} => \E a \in resting : rpc'[a] # "idle"

DefaultThresholds == [move |-> 4, gate |-> 55]
=============================================================================
