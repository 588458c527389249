-------------------------- MODULE RememberedWallet --------------------------
(***************************************************************************)
(* What the desktop promises of its local users: a wallet has at most one  *)
(* profile, at most one wallet is remembered for the next launch and only  *)
(* while it has a profile; deleting a profile forgets its wallet in the    *)
(* same instant, and registering again does not bring it back.             *)
(***************************************************************************)
CONSTANTS Keys, Names, None

VARIABLES profile,     \* per key: a name, or None
          remembered   \* the key to restore at launch, or None

walletVars == <<profile, remembered>>

WalletInit ==
  /\ profile = [k \in Keys |-> None]
  /\ remembered = None

Register(k, n) ==
  /\ profile' = [profile EXCEPT ![k] = n]
  /\ UNCHANGED remembered

Delete(k) ==
  /\ profile' = [profile EXCEPT ![k] = None]
  /\ remembered' = IF remembered = k THEN None ELSE remembered

Remember(k) ==
  /\ profile[k] # None
  /\ remembered' = k
  /\ UNCHANGED profile

Forget ==
  /\ remembered' = None
  /\ UNCHANGED profile

WalletNext ==
  \/ \E k \in Keys : Delete(k) \/ Remember(k) \/ \E n \in Names : Register(k, n)
  \/ Forget

WalletSpec == WalletInit /\ [][WalletNext]_walletVars
=============================================================================
