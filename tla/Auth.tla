-------------------------------- MODULE Auth --------------------------------
(***************************************************************************)
(* The auth commands: a challenge is issued to a key and stored under its  *)
(* nonce, a signed one is consumed and leads to a profile.  Between the    *)
(* two mutexes request_auth holds neither, so other commands, and a crash, *)
(* come in between.                                                        *)
(***************************************************************************)
EXTENDS UserStore, FiniteSets

CONSTANTS
  MaxPending,   \* MAX_PENDING_CHALLENGES
  MaxNonces,    \* challenges issued in a behaviour
  MaxCommands,  \* commands on the store in a behaviour
  MaxCrashes

ASSUME AuthAssumption ==
  MaxPending \in Nat \ {0} /\ {MaxNonces, MaxCommands, MaxCrashes} \subseteq Nat

VARIABLES
  pending,   \* pending_challenges: <<nonce, key>>
  issued,    \* challenges issued
  calls,     \* request_auth calls with a verified signature: <<nonce, key>>
  used,      \* nonces whose signature was verified, with how often
  commands,
  crashes

authVars == <<pending, issued, calls, used>>
vars == <<kvs, todo, holds, restored, pending, issued, calls, used, commands, crashes>>

Nonces == 1..MaxNonces

AuthInit ==
  /\ StoreInit
  /\ pending = {} /\ issued = 0 /\ calls = {}
  /\ used = [n \in Nonces |-> 0]
  /\ commands = 0 /\ crashes = 0

(* At the cap arbitrary challenges make room, whoever is signing them. *)
Evicted ==
  IF Cardinality(pending) < MaxPending THEN {pending}
  ELSE {p \in SUBSET pending : Cardinality(p) = MaxPending - 1}

IssueAuthChallenge(k) ==
  /\ restored /\ issued < MaxNonces
  /\ \E p \in Evicted : pending' = p \cup {<<issued + 1, k>>}
  /\ issued' = issued + 1
  /\ UNCHANGED <<calls, used, storeVars, commands, crashes>>

(* Slip: the nonce is read and not removed. *)
ReadNonce(c) ==
  /\ \/ /\ calls' = calls \cup {c}
        /\ used' = [used EXCEPT ![c[1]] = @ + 1]
     \/ UNCHANGED <<calls, used>>
  /\ UNCHANGED <<pending, issued, storeVars, commands, crashes>>

(* The nonce goes whatever comes of it: another key or a signature that does
   not verify leave nothing. *)
ConsumeNonce(c) ==
  /\ pending' = pending \ {c}
  /\ \/ /\ calls' = calls \cup {c}
        /\ used' = [used EXCEPT ![c[1]] = @ + 1]
     \/ UNCHANGED <<calls, used>>
  /\ UNCHANGED <<issued, storeVars, commands, crashes>>

Command == commands < MaxCommands /\ commands' = commands + 1

(* With a name the profile is saved; a call with a blank name or an unknown
   cluster, and one that only looks a profile up, end without a write. *)
FinishAuth(c) ==
  /\ \/ /\ Command
        /\ \E n \in Names : SaveProfile(c[2], n)
     \/ ~holds /\ UNCHANGED <<storeVars, commands>>
  /\ calls' = calls \ {c}
  /\ UNCHANGED <<pending, issued, used, crashes>>

StoreCommand ==
  /\ \E k \in Keys : DeleteProfile(k) \/ SaveSession(k) \/ \E n \in Names : SaveProfile(k, n)
  /\ Command
  /\ UNCHANGED <<authVars, crashes>>

SignOut == ClearSession /\ Command /\ UNCHANGED <<authVars, crashes>>

StoreStep == (GetSavedSession \/ Write \/ Flush) /\ UNCHANGED <<authVars, commands, crashes>>

Crash ==
  /\ crashes < MaxCrashes /\ crashes' = crashes + 1
  /\ Restart
  /\ pending' = {} /\ calls' = {}
  /\ UNCHANGED <<issued, used, commands>>

AuthNext ==
  \/ \E k \in Keys : IssueAuthChallenge(k)
  \/ \E c \in pending : ConsumeNonce(c)
  \/ \E c \in calls : FinishAuth(c)
  \/ StoreCommand \/ SignOut \/ StoreStep \/ Crash

Spec == AuthInit /\ [][AuthNext]_vars

-----------------------------------------------------------------------------
TypeOK ==
  /\ StoreTypeOK
  /\ pending \subseteq Nonces \X Keys /\ calls \subseteq Nonces \X Keys
  /\ issued \in 0..MaxNonces /\ used \in [Nonces -> Nat]
  /\ commands \in 0..MaxCommands /\ crashes \in 0..MaxCrashes

(* "Entries are consumed on first use so replay attacks are impossible": a nonce
   is good for one verified signature, over every interleaving of two calls that
   carry it, over evictions and over restarts; and what waits for a signature
   never outgrows the cap. *)
NonceUsedOnce ==
  /\ \A n \in Nonces : used[n] <= 1
  /\ \A c \in pending : used[c[1]] = 0
  /\ Cardinality(pending) <= MaxPending
=============================================================================
