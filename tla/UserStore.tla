----------------------------- MODULE UserStore ------------------------------
(***************************************************************************)
(* The sled store of user profiles and of the remembered wallet, behind    *)
(* the mutex every command takes.  A command checks, writes key by key and *)
(* flushes; sled writes its log back in order in the background, so a      *)
(* crash keeps some prefix of the writes since the last flush.             *)
(*                                                                         *)
(* Keys are base58 public keys, never the reserved session key; sled's own *)
(* errors and values that do not parse are left out.                       *)
(***************************************************************************)
EXTENDS Integers, Sequences

CONSTANTS Keys, Names, None, Session

ASSUME UserStoreAssumption ==
  None \notin Keys \cup Names /\ Session \notin Keys

VARIABLES
  kvs,       \* states of the tree since the last flush, the current one last
  todo,      \* writes left of the command that holds the mutex; then it flushes
  holds,     \* a command holds the mutex with writes to flush
  restored   \* the webview has asked for the saved session since the launch

storeVars == <<kvs, todo, holds, restored>>

NoProfiles == [x \in Keys \cup {Session} |-> None]

StoreInit ==
  /\ kvs = <<NoProfiles>>
  /\ todo = << >>
  /\ holds = FALSE
  /\ restored = FALSE

kv == kvs[Len(kvs)]       \* what a command reads
durable == kvs[1]         \* what is certain to survive a crash

(* A command that writes: the webview sends none before the restore of the
   launch has answered. *)
Runs(writes) ==
  /\ ~holds /\ restored
  /\ todo' = writes
  /\ holds' = TRUE
  /\ UNCHANGED <<kvs, restored>>

SaveProfile(k, n) == Runs(<< <<k, n>> >>)

(* Slip: the session stays. *)
DeleteProfileOnly(k) == Runs(<< <<k, None>> >>)

DeleteProfile(k) ==
  Runs(IF kv[Session] = k THEN << <<k, None>>, <<Session, None>> >>
                          ELSE << <<k, None>> >>)

(* A key without a profile is refused. *)
SaveSession(k) == kv[k] # None /\ Runs(<< <<Session, k>> >>)

ClearSession == Runs(<< <<Session, None>> >>)

(* Slip: a session without a profile is ignored. *)
GetSavedSessionOnly ==
  /\ ~holds
  /\ restored' = TRUE
  /\ UNCHANGED <<kvs, todo, holds>>

(* The restore of a launch; a session whose key has no profile is forgotten. *)
GetSavedSession ==
  /\ ~holds
  /\ restored' = TRUE
  /\ IF kv[Session] # None /\ kv[kv[Session]] = None
     THEN todo' = << <<Session, None>> >> /\ holds' = TRUE
     ELSE UNCHANGED <<todo, holds>>
  /\ UNCHANGED kvs

Write ==
  /\ todo # << >>
  /\ kvs' = Append(kvs, [kv EXCEPT ![todo[1][1]] = todo[1][2]])
  /\ todo' = Tail(todo)
  /\ UNCHANGED <<holds, restored>>

Flush ==
  /\ holds /\ todo = << >>
  /\ kvs' = <<kv>>
  /\ holds' = FALSE
  /\ UNCHANGED <<todo, restored>>

(* The process ends and starts again on what its log kept. *)
Restart ==
  /\ \E i \in DOMAIN kvs : kvs' = <<kvs[i]>>
  /\ todo' = << >> /\ holds' = FALSE /\ restored' = FALSE

(* What a tree may hold: a profile, or none, per key, and one session. *)
Stores ==
  {d \in [Keys \cup {Session} -> Keys \cup Names \cup {None}] :
     /\ d[Session] \in Keys \cup {None}
     /\ \A k \in Keys : d[k] \in Names \cup {None}}

StoreTypeOK ==
  /\ kvs \in Seq(Stores) /\ kvs # << >>
  /\ todo \in Seq((Keys \cup {Session}) \X (Keys \cup Names \cup {None}))
  /\ holds \in BOOLEAN /\ restored \in BOOLEAN

(* "Flush synchronously so data survives an immediate crash": when no command
   is under way, nothing that was answered can still be lost, and a session that
   points at a deleted profile, which a crash inside the deletion leaves, is gone
   once the next launch has looked for one. *)
AnsweredIsSafe ==
  ~holds =>
    /\ Len(kvs) = 1
    /\ restored => (kv[Session] # None => kv[kv[Session]] # None)

-----------------------------------------------------------------------------
(* The promise, kept at the durable state: a session without a profile is no
   remembered wallet. *)
Wallet == INSTANCE RememberedWallet WITH
  profile <- [k \in Keys |-> durable[k]],
  remembered <- IF durable[Session] # None /\ durable[durable[Session]] # None
                THEN durable[Session] ELSE None

(* Every command, and every crash inside one, is one step of the promise. *)
ImplementsRememberedWallet == Wallet!WalletSpec
=============================================================================
