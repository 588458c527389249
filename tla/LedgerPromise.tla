--------------------------- MODULE LedgerPromise ----------------------------
(***************************************************************************)
(* What the desk's database promises the webview, without locks, staged    *)
(* rows, RPC answers or crashes.  The rows of a fixture are replaced in    *)
(* one instant, by all the positions of a replay that was made and not yet *)
(* stored: of two that overlap, the one stored last, be it the older.  An  *)
(* intent is created once and confirmed only when the chain has its        *)
(* transaction, which nobody sends before having been shown the intent;    *)
(* and what is told of an intent is what is stored of it then.             *)
(***************************************************************************)
EXTENDS Integers, Sequences

CONSTANTS
  Outcomes,   \* what a replay may come to: [fixture, positions]
  Refs        \* references of the intents

VARIABLES
  replayed,   \* the replays in the order they were made
  due,        \* those that may still be stored
  table,      \* <<replay, fixture, position>>
  status,     \* per reference: "none", "pending", then "confirmed"
  told,       \* <<reference, status>>
  landed      \* per reference: "none", or the outcome of its transaction

tableVars == <<replayed, due, table>>
intentVars == <<status, told, landed>>

Init ==
  /\ replayed = << >> /\ due = {} /\ table = {}
  /\ status = [ref \in Refs |-> "none"]
  /\ told = {}
  /\ landed = [ref \in Refs |-> "none"]

Replay ==
  /\ \E o \in Outcomes : replayed' = Append(replayed, o)
  /\ due' = due \cup {Len(replayed) + 1}
  /\ UNCHANGED <<table, intentVars>>

(* A replay takes the place of what is there of its fixture, and does so once. *)
Install(n) ==
  LET f == replayed[n].fixture IN
  /\ n \in due /\ due' = due \ {n}
  /\ table' = {row \in table : row[2] # f} \cup {<<n, f, p>> : p \in replayed[n].positions}
  /\ UNCHANGED <<replayed, intentVars>>

(* Replays that fail, or are under way when the process ends, are forgotten. *)
Forget ==
  /\ due' \subseteq due
  /\ UNCHANGED <<replayed, table, intentVars>>

Create(ref) ==
  /\ status[ref] = "none"
  /\ status' = [status EXCEPT ![ref] = "pending"]
  /\ UNCHANGED <<tableVars, told, landed>>

Tell(ref) ==
  /\ status[ref] # "none"
  /\ told' = told \cup {<<ref, status[ref]>>}
  /\ UNCHANGED <<tableVars, status, landed>>

Land(ref) ==
  /\ <<ref, "pending">> \in told /\ landed[ref] = "none"
  /\ \E o \in {"succeeded", "failed"} : landed' = [landed EXCEPT ![ref] = o]
  /\ UNCHANGED <<tableVars, status, told>>

(* Confirming again what is confirmed changes nothing. *)
Confirm(ref) ==
  /\ status[ref] = "pending" /\ landed[ref] # "none"
  /\ status' = [status EXCEPT ![ref] = "confirmed"]
  /\ UNCHANGED <<tableVars, told, landed>>

Next ==
  \/ Replay \/ Forget \/ \E n \in due : Install(n)
  \/ \E ref \in Refs : Create(ref) \/ Tell(ref) \/ Land(ref) \/ Confirm(ref)

Spec == Init /\ [][Next]_<<tableVars, intentVars>>
=============================================================================
