------------------------------ MODULE Payments ------------------------------
(***************************************************************************)
(* Solana Pay intents: created for a run, stored, watched through the      *)
(* Yellowstone sidecar and announced; verified by asking the chain for a   *)
(* signature that carries the intent's reference.  Between the read of an  *)
(* intent and its update a verification awaits the RPC and holds no lock.  *)
(*                                                                         *)
(* The sidecar is handed its watches through an unbounded channel; when it *)
(* exits, the channel closes and nothing opens another.                    *)
(***************************************************************************)
EXTENDS LedgerStore

CONSTANTS
  Refs,       \* references of the intents created
  Verifiers,  \* calls of verify_solana_pay_intent that may be under way
  MaxCrashes

ASSUME PaymentsAssumption == MaxCrashes \in Nat /\ Refs # {}

VARIABLES
  intent,     \* per reference: the stored status, or "none"
  create,     \* per reference: where its creation is
  verify,     \* per verifier: [at, ref]
  chain,      \* per reference: "none", or the outcome of the transaction with it
  announced,  \* pay://intent and pay://status events: <<reference, status>>
  sidecar,    \* "running" or "exited"
  channel,    \* watches sent and not yet written to the sidecar
  watching,   \* references the running sidecar watches
  fresh,      \* references announced since the last start
  crashes

payVars == <<intent, create, verify, chain, announced, sidecar, channel,
             watching, fresh>>
vars == <<lock, rows, round, replayVars, due, writing, faults, intent,
          create, verify, chain, announced, sidecar, channel, watching, fresh, crashes>>

Asleep(ref) == [at |-> "idle", ref |-> ref]

PaymentsInit ==
  /\ LedgerInit
  /\ intent = [ref \in Refs |-> "none"]
  /\ create = [ref \in Refs |-> "none"]
  /\ verify \in [Verifiers -> {Asleep(CHOOSE ref \in Refs : TRUE)}]
  /\ chain = [ref \in Refs |-> "none"]
  /\ announced = {} /\ fresh = {}
  /\ sidecar \in {"running", "exited"}
  /\ channel = << >> /\ watching = {}
  /\ crashes = 0

sideVars == <<sidecar, channel, watching>>

-----------------------------------------------------------------------------
(* create_solana_pay_intent: stored, then watched, then announced. *)

StoreIntent(ref) ==
  /\ create[ref] = "none" /\ lock = "free"
  /\ \/ /\ intent' = [intent EXCEPT ![ref] = "pending"]
        /\ create' = [create EXCEPT ![ref] = "stored"]
        /\ UNCHANGED faults
     \/ /\ create' = [create EXCEPT ![ref] = "ended"] /\ Fault
        /\ UNCHANGED intent
  /\ UNCHANGED <<lock, rows, round, replayVars, verify, chain,
                 announced, sideVars, fresh, crashes>>

(* Sending on the channel of a sidecar that has exited does nothing. *)
WatchReference(ref) ==
  /\ create[ref] = "stored"
  /\ create' = [create EXCEPT ![ref] = "watched"]
  /\ channel' = IF sidecar = "running" THEN Append(channel, ref) ELSE channel
  /\ UNCHANGED <<ledgerVars, intent, verify, chain, announced, sidecar,
                 watching, fresh, crashes>>

(* Slip: the intent is announced as soon as it is stored. *)
AnnounceAtOnce(ref) ==
  /\ create[ref] = "stored"
  /\ create' = [create EXCEPT ![ref] = "ended"]
  /\ announced' = announced \cup {<<ref, "pending">>}
  /\ fresh' = fresh \cup {ref}
  /\ UNCHANGED <<ledgerVars, intent, verify, chain, sideVars, crashes>>

AnnounceIntent(ref) ==
  /\ create[ref] = "watched"
  /\ create' = [create EXCEPT ![ref] = "ended"]
  /\ announced' = announced \cup {<<ref, "pending">>}
  /\ fresh' = fresh \cup {ref}
  /\ UNCHANGED <<ledgerVars, intent, verify, chain, sideVars, crashes>>

-----------------------------------------------------------------------------
(* verify_solana_pay_intent *)

ReadIntent(v, ref) ==
  /\ verify[v].at = "idle" /\ lock = "free"
  /\ intent[ref] = "pending"
  /\ verify' = [verify EXCEPT ![v] = [at |-> "asking", ref |-> ref]]
  /\ UNCHANGED <<ledgerVars, intent, create, chain, announced, sideVars, fresh, crashes>>

(* getSignaturesForAddress lists failed transactions too; an RPC error and an
   empty answer leave the intent as it is. *)
RpcAnswers(v) ==
  /\ verify[v].at = "asking"
  /\ verify' = [verify EXCEPT ![v].at =
                  IF chain[verify[v].ref] # "none" THEN "confirmed" ELSE "idle"]
  /\ UNCHANGED <<ledgerVars, intent, create, chain, announced, sideVars, fresh, crashes>>

(* Slip: the intent is written back as it was read. *)
RpcFailsAndStores(v) ==
  /\ verify[v].at = "asking" /\ lock = "free"
  /\ Fault
  /\ verify' = [verify EXCEPT ![v].at = "idle"]
  /\ intent' = [intent EXCEPT ![verify[v].ref] = "pending"]
  /\ UNCHANGED <<lock, rows, round, replayVars, create,
                 chain, announced, sideVars, fresh, crashes>>

(* The RPC fails, or the update that follows it does. *)
RpcFails(v) ==
  /\ verify[v].at = "asking" \/ (verify[v].at = "confirmed" /\ lock = "free")
  /\ Fault
  /\ verify' = [verify EXCEPT ![v].at = "idle"]
  /\ UNCHANGED <<lock, rows, round, replayVars, intent, create,
                 chain, announced, sideVars, fresh, crashes>>

(* The guard lives until the status has been emitted. *)
StoreConfirmed(v) ==
  /\ verify[v].at = "confirmed" /\ lock = "free"
  /\ intent' = [intent EXCEPT ![verify[v].ref] = "confirmed"]
  /\ verify' = [verify EXCEPT ![v].at = "emit"]
  /\ lock' = "verify"
  /\ UNCHANGED <<rows, round, replayVars, faults, create, chain,
                 announced, sideVars, fresh, crashes>>

EmitStatus(v) ==
  /\ verify[v].at = "emit"
  /\ announced' = announced \cup {<<verify[v].ref, "confirmed">>}
  /\ verify' = [verify EXCEPT ![v] = Asleep(verify[v].ref)]
  /\ lock' = "free"
  /\ UNCHANGED <<rows, round, replayVars, faults, intent, create,
                 chain, sideVars, fresh, crashes>>

-----------------------------------------------------------------------------
(* The user's wallet sends the transfer of an intent it was shown. *)
Land(ref) ==
  /\ <<ref, "pending">> \in announced /\ chain[ref] = "none"
  /\ \E o \in {"succeeded", "failed"} : chain' = [chain EXCEPT ![ref] = o]
  /\ UNCHANGED <<ledgerVars, intent, create, verify, announced, sideVars, fresh, crashes>>

(* The writer task hands a watch to the sidecar's stdin. *)
WriteWatch ==
  /\ sidecar = "running" /\ channel # << >>
  /\ watching' = watching \cup {channel[1]}
  /\ channel' = Tail(channel)
  /\ UNCHANGED <<ledgerVars, intent, create, verify, chain, announced, sidecar, fresh, crashes>>

(* Its stdout ends: the writer is aborted, and the receiver dropped with it. *)
SidecarExits ==
  /\ sidecar = "running"
  /\ Fault
  /\ sidecar' = "exited" /\ channel' = << >> /\ watching' = {}
  /\ UNCHANGED <<lock, rows, round, replayVars, intent, create,
                 verify, chain, announced, fresh, crashes>>

(* The desktop ends and starts again: the sidecar is spawned anew and watches
   the txoracle program, no reference. *)
Crash ==
  /\ crashes < MaxCrashes /\ crashes' = crashes + 1
  /\ LedgerCrash
  /\ create' = [ref \in Refs |-> IF create[ref] = "none" THEN "none" ELSE "ended"]
  /\ verify' = [v \in Verifiers |-> Asleep(verify[v].ref)]
  /\ sidecar' \in {"running", "exited"}
  /\ channel' = << >> /\ watching' = {} /\ fresh' = {}
  /\ UNCHANGED <<intent, chain, announced>>

PaymentsNext ==
  \/ LedgerStep /\ UNCHANGED <<payVars, crashes>>
  \/ \E ref \in Refs :
       \/ StoreIntent(ref) \/ WatchReference(ref) \/ AnnounceIntent(ref) \/ Land(ref)
       \/ \E v \in Verifiers : ReadIntent(v, ref)
  \/ \E v \in Verifiers :
       RpcAnswers(v) \/ RpcFails(v) \/ StoreConfirmed(v) \/ EmitStatus(v)
  \/ WriteWatch \/ SidecarExits \/ Crash

Spec == PaymentsInit /\ [][PaymentsNext]_vars

-----------------------------------------------------------------------------
TypeOK ==
  /\ LedgerTypeOK
  /\ intent \in [Refs -> {"none", "pending", "confirmed"}]
  /\ create \in [Refs -> {"none", "stored", "watched", "ended"}]
  /\ verify \in [Verifiers -> [at : {"idle", "asking", "confirmed", "emit"}, ref : Refs]]
  /\ chain \in [Refs -> {"none", "succeeded", "failed"}]
  /\ announced \subseteq Refs \X {"pending", "confirmed"}
  /\ sidecar \in {"running", "exited"}
  /\ channel \in Seq(Refs)
  /\ watching \cup fresh \subseteq Refs
  /\ crashes \in 0..MaxCrashes

(* What the webview was told survives: an announced intent is stored, an
   announced confirmation is stored and has its transaction on the chain, across
   crashes between the store and the event; a verification that read the intent
   before another confirmed it does not undo that. *)
AnnouncedIsStored ==
  \A a \in announced :
    /\ intent[a[1]] # "none"
    /\ a[2] = "confirmed" => intent[a[1]] = "confirmed" /\ chain[a[1]] # "none"

(* "Register a live watch so a confirming transaction is observed as soon as it
   lands": as long as the sidecar runs, every intent shown to the user since the
   start is watched or on its way there. *)
ShownIntentsAreWatched ==
  sidecar = "running" =>
    \A ref \in fresh : ref \in watching \/ \E i \in DOMAIN channel : channel[i] = ref

-----------------------------------------------------------------------------
(* The ledger, with its lock and its crashes, keeps the promise LedgerPromise
   makes without them. *)

Outcomes ==
  UNION {{[fixture |-> f, positions |-> ReplayFixture(history, f)] :
            history \in {h \in Histories : HasScore(h, f)}} : f \in Fixtures}

Promise == INSTANCE LedgerPromise WITH
             replayed <- replays,
             due      <- due,
             table    <- backtest,
             status   <- intent,
             told     <- announced,
             landed   <- chain

(* Every step of the rounds, the replays, the verifications, the sidecar and a
   crash is one step of the promise, or leaves what it speaks of as it was:
   a replay's rows appear together and once, whichever of two overlapping
   replays has the ledger first; an event tells what is stored when it is sent;
   and neither a crash nor a second verification undoes a confirmation. *)
KeepsLedgerPromise == Promise!Spec
=============================================================================
