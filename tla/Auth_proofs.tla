---------------------------- MODULE Auth_proofs -----------------------------
(***************************************************************************)
(* Challenges serve once and the remembered wallet is what                 *)
(* RememberedWallet promises, for every number of keys, names, challenges, *)
(* commands and crashes.                                                   *)
(***************************************************************************)
EXTENDS Auth, FiniteSetTheorems, SequenceTheorems, TLAPS

-----------------------------------------------------------------------------
(* Challenges                                                              *)

(* A pending challenge has been issued and not been used, and no other is  *)
(* pending under its nonce.                                                *)
ChallengeInv ==
  /\ issued \in 0..MaxNonces
  /\ pending \subseteq (1..issued) \X Keys
  /\ calls \subseteq (1..issued) \X Keys
  /\ used \in [Nonces -> {0, 1}]
  /\ \A n \in Nonces : n > issued => used[n] = 0
  /\ \A c \in pending : used[c[1]] = 0
  /\ \A c, d \in pending : c[1] = d[1] => c = d
  /\ IsFiniteSet(pending)
  /\ Cardinality(pending) <= MaxPending

(* No challenge is pending and none was answered at the start. *)
LEMMA ChallengeInit == AuthInit => ChallengeInv
BY AuthAssumption, FS_EmptySet DEF AuthInit, ChallengeInv, Nonces

(* What the cap leaves is part of what was pending, with room for one.     *)
LEMMA EvictedMakesRoom ==
  ASSUME ChallengeInv, NEW p \in Evicted
  PROVE  p \subseteq pending /\ IsFiniteSet(p) /\ Cardinality(p) + 1 <= MaxPending
<1>1. p \subseteq pending
  BY DEF Evicted
<1>2. IsFiniteSet(p)
  BY <1>1, FS_Subset DEF ChallengeInv
<1>3. Cardinality(p) \in Nat /\ Cardinality(pending) \in Nat /\ MaxPending \in Nat
  BY <1>2, FS_CardinalityType, AuthAssumption DEF ChallengeInv
<1>4. Cardinality(p) + 1 <= MaxPending
  <2>1. CASE Cardinality(pending) < MaxPending
    BY <2>1, <1>3 DEF Evicted
  <2>2. CASE ~(Cardinality(pending) < MaxPending)
    BY <2>2, <1>3 DEF Evicted
  <2> QED BY <2>1, <2>2
<1> QED BY <1>1, <1>2, <1>4

(* A new nonce is fresh, so no answer is recorded for it. *)
LEMMA IssueKeeps ==
  ASSUME ChallengeInv, NEW k \in Keys, IssueAuthChallenge(k)
  PROVE  ChallengeInv'
<1>1. PICK p \in Evicted : pending' = p \cup {<<issued + 1, k>>}
  BY DEF IssueAuthChallenge
<1>2. p \subseteq pending /\ IsFiniteSet(p) /\ Cardinality(p) + 1 <= MaxPending
  BY EvictedMakesRoom
<1>3. issued' = issued + 1 /\ issued \in Nat /\ issued < MaxNonces /\ MaxNonces \in Nat
  BY AuthAssumption DEF IssueAuthChallenge, ChallengeInv
<1>4. <<issued + 1, k>> \notin p
  BY <1>2, <1>3 DEF ChallengeInv
<1>5. IsFiniteSet(pending') /\ Cardinality(pending') <= MaxPending
  BY <1>1, <1>2, <1>4, FS_AddElement
<1>6. calls' = calls /\ used' = used
  BY DEF IssueAuthChallenge
<1>7. pending' \subseteq (1..issued') \X Keys /\ calls' \subseteq (1..issued') \X Keys
  BY <1>1, <1>2, <1>3, <1>6 DEF ChallengeInv
<1>8. \A c \in pending' : used'[c[1]] = 0
  BY <1>1, <1>2, <1>3, <1>6 DEF ChallengeInv, Nonces
<1>9. \A c, d \in pending' : c[1] = d[1] => c = d
  BY <1>1, <1>2, <1>3 DEF ChallengeInv
<1>10. /\ issued' \in 0..MaxNonces /\ used' \in [Nonces -> {0, 1}]
       /\ \A n \in Nonces : n > issued' => used'[n] = 0
  BY <1>3, <1>6 DEF ChallengeInv, Nonces
<1> QED BY <1>5, <1>7, <1>8, <1>9, <1>10 DEF ChallengeInv

(* A nonce leaves the pool when it is answered, so it is answered once. *)
LEMMA ConsumeKeeps ==
  ASSUME ChallengeInv, NEW c \in pending, ConsumeNonce(c)
  PROVE  ChallengeInv'
<1>1. pending' = pending \ {c} /\ issued' = issued
  BY DEF ConsumeNonce
<1>2. IsFiniteSet(pending') /\ Cardinality(pending') <= MaxPending
  <2>1. /\ IsFiniteSet(pending') /\ Cardinality(pending') = Cardinality(pending) - 1
        /\ Cardinality(pending) \in Nat
    BY <1>1, FS_RemoveElement, FS_CardinalityType DEF ChallengeInv
  <2> QED BY <2>1, AuthAssumption DEF ChallengeInv
<1>3. c \in (1..issued) \X Keys /\ c[1] \in Nonces /\ used[c[1]] = 0
  BY AuthAssumption DEF ChallengeInv, Nonces
<1>4. calls' \subseteq (1..issued') \X Keys
  BY <1>1, <1>3 DEF ConsumeNonce, ChallengeInv
<1>5. used' \in [Nonces -> {0, 1}] /\ \A n \in Nonces : n # c[1] => used'[n] = used[n]
  BY <1>3 DEF ConsumeNonce, ChallengeInv
<1>6. \A n \in Nonces : n > issued' => used'[n] = 0
  BY <1>1, <1>3, <1>5 DEF ChallengeInv, Nonces
<1>7. \A d \in pending' : used'[d[1]] = 0
  <2> SUFFICES ASSUME NEW d \in pending' PROVE used'[d[1]] = 0
    OBVIOUS
  <2>1. d \in pending /\ d # c /\ d[1] # c[1]
    BY <1>1 DEF ChallengeInv
  <2>2. d[1] \in Nonces /\ used[d[1]] = 0
    BY <2>1, AuthAssumption DEF ChallengeInv, Nonces
  <2> QED BY <2>1, <2>2, <1>5
<1> QED BY <1>1, <1>2, <1>4, <1>5, <1>6, <1>7 DEF ChallengeInv

(* Every step keeps what is known of the challenges. *)
LEMMA ChallengeStep == ChallengeInv /\ [AuthNext]_vars => ChallengeInv'
<1> SUFFICES ASSUME ChallengeInv, [AuthNext]_vars PROVE ChallengeInv'
  OBVIOUS
<1>1. CASE \E k \in Keys : IssueAuthChallenge(k)
  BY <1>1, IssueKeeps
<1>2. CASE \E c \in pending : ConsumeNonce(c)
  BY <1>2, ConsumeKeeps
<1>3. ASSUME NEW c \in calls, FinishAuth(c) PROVE ChallengeInv'
  BY <1>3 DEF FinishAuth, ChallengeInv
<1>4. CASE StoreCommand \/ SignOut \/ StoreStep \/ UNCHANGED vars
  BY <1>4 DEF StoreCommand, SignOut, StoreStep, vars, authVars, ChallengeInv
<1>5. CASE Crash
  BY <1>5, FS_EmptySet, AuthAssumption DEF Crash, ChallengeInv
<1> QED BY <1>1, <1>2, <1>3, <1>4, <1>5 DEF AuthNext

(* A nonce is good for one verified signature, however calls, evictions    *)
(* and restarts interleave, and the cap on pending challenges holds        *)
(* (commands/auth.rs: request_auth, issue_auth_challenge).                 *)
THEOREM NoncesServeOnce == Spec => []NonceUsedOnce
<1>1. ChallengeInv => NonceUsedOnce
  BY DEF ChallengeInv, NonceUsedOnce
<1> QED BY <1>1, ChallengeInit, ChallengeStep, PTL DEF Spec

-----------------------------------------------------------------------------
(* The store                                                               *)

Put(d, w) == [d EXCEPT ![w[1]] = w[2]]

(* No session points at a key without a profile.                           *)
Clean(d) == d[Session] # None => d[d[Session]] # None

(* Commands of one write on the tree d: a profile is saved or deleted, a   *)
(* session saved or cleared.                                               *)
Single(d) ==
  {w \in (Keys \cup {Session}) \X (Keys \cup Names \cup {None}) :
     \/ w[1] \in Keys /\ w[2] \in Names /\ Clean(d)
     \/ w[1] \in Keys /\ w[2] = None /\ d[Session] # w[1] /\ Clean(d)
     \/ w[1] = Session /\ w[2] \in Keys /\ d[w[2]] # None
     \/ w[1] = Session /\ w[2] = None}

(* The deletion of the remembered wallet's profile, after none, one and    *)
(* both of its writes.                                                     *)
DeletesRemembered(d) ==
  \E k \in Keys :
    LET gone == Put(d, <<k, None>>)
        cleared == Put(gone, <<Session, None>>)
    IN /\ d[Session] = k
       /\ \/ kvs = <<d>> /\ todo = << <<k, None>>, <<Session, None>> >>
          \/ kvs = <<d, gone>> /\ todo = << <<Session, None>> >>
          \/ kvs = <<d, gone, cleared>> /\ todo = << >>

WritesOnce(d) ==
  \E w \in Single(d) :
    \/ kvs = <<d>> /\ todo = <<w>>
    \/ kvs = <<d, Put(d, w)>> /\ todo = << >>

(* What the tree, and what is left to write of the one command under way,  *)
(* look like between any two steps.                                        *)
StoreInv ==
  /\ holds \in BOOLEAN /\ restored \in BOOLEAN
  /\ \E d \in Stores :
       \/ ~holds /\ kvs = <<d>> /\ todo = << >> /\ (restored => Clean(d))
       \/ holds /\ restored /\ (WritesOnce(d) \/ DeletesRemembered(d))

(* The store starts empty, with one tree. *)
LEMMA StoreStarts == AuthInit => StoreInv
<1> SUFFICES ASSUME AuthInit PROVE StoreInv
  OBVIOUS
<1>1. NoProfiles \in Stores
  BY DEF NoProfiles, Stores
<1> QED BY <1>1 DEF AuthInit, StoreInit, StoreInv

(* Puts keep the tree's shape, and a command's last leaves it clean.       *)
LEMMA PutKeepsStores ==
  ASSUME NEW d \in Stores
  PROVE  /\ \A w \in Single(d) : Put(d, w) \in Stores /\ Clean(Put(d, w))
         /\ \A k \in Keys : /\ Put(d, <<k, None>>) \in Stores
                           /\ Put(d, <<Session, None>>) \in Stores
                           /\ Clean(Put(d, <<Session, None>>))
<1>1. /\ d \in [Keys \cup {Session} -> Keys \cup Names \cup {None}]
      /\ d[Session] \in Keys \cup {None}
      /\ \A k \in Keys : d[k] \in Names \cup {None}
  BY DEF Stores
<1>2. Session \notin Keys /\ None \notin Keys /\ None \notin Names
  BY UserStoreAssumption
<1>3. ASSUME NEW w \in Single(d) PROVE Put(d, w) \in Stores /\ Clean(Put(d, w))
  <2>1. CASE w[1] \in Keys /\ w[2] \in Names /\ Clean(d)
    BY <2>1, <1>1, <1>2 DEF Put, Stores, Clean
  <2>2. CASE w[1] \in Keys /\ w[2] = None /\ d[Session] # w[1] /\ Clean(d)
    BY <2>2, <1>1, <1>2 DEF Put, Stores, Clean
  <2>3. CASE w[1] = Session /\ w[2] \in Keys /\ d[w[2]] # None
    BY <2>3, <1>1, <1>2 DEF Put, Stores, Clean
  <2>4. CASE w[1] = Session /\ w[2] = None
    BY <2>4, <1>1, <1>2 DEF Put, Stores, Clean
  <2> QED BY <2>1, <2>2, <2>3, <2>4 DEF Single
<1>4. ASSUME NEW k \in Keys
      PROVE  /\ Put(d, <<k, None>>) \in Stores
             /\ Put(d, <<Session, None>>) \in Stores
             /\ Clean(Put(d, <<Session, None>>))
  BY <1>1, <1>2 DEF Put, Stores, Clean
<1> QED BY <1>3, <1>4

(* A command begins with its writes ahead of it.                           *)
LEMMA CommandBegins ==
  ASSUME StoreInv, NEW w, w \in Single(kv), ~holds,
         kvs' = kvs, todo' = <<w>>, holds' = TRUE, restored' = TRUE
  PROVE  StoreInv'
<1>1. PICK d \in Stores : kvs = <<d>>
  BY DEF StoreInv
<1>2. kv = d
  BY <1>1 DEF kv
<1> QED BY <1>1, <1>2 DEF StoreInv, WritesOnce

(* The store commands stage writes that are each a step of the wallet. *)
LEMMA StoreCommandsKeep ==
  ASSUME StoreInv,
         \/ \E k \in Keys : \/ DeleteProfile(k) \/ SaveSession(k)
                            \/ \E n \in Names : SaveProfile(k, n)
         \/ ClearSession
         \/ GetSavedSession
  PROVE  StoreInv'
<1>1. PICK d \in Stores : /\ kvs = <<d>> /\ todo = << >> /\ ~holds
                          /\ restored => Clean(d)
  BY DEF StoreInv, DeleteProfile, SaveSession, SaveProfile, ClearSession,
         GetSavedSession, Runs
<1>2. kv = d
  BY <1>1 DEF kv
<1>3. ASSUME NEW k \in Keys, DeleteProfile(k) PROVE StoreInv'
  <2>1. CASE kv[Session] = k
    <3>1. /\ kvs' = <<d>> /\ holds' = TRUE /\ restored' = TRUE
          /\ todo' = << <<k, None>>, <<Session, None>> >> /\ d[Session] = k
      BY <1>1, <1>2, <1>3, <2>1 DEF DeleteProfile, Runs, StoreInv
    <3> QED BY <3>1 DEF StoreInv, DeletesRemembered
  <2>2. CASE kv[Session] # k
    <3>1. <<k, None>> \in Single(kv)
      BY <1>1, <1>2, <1>3, <2>2 DEF Single, DeleteProfile, Runs
    <3>2. todo' = << <<k, None>> >>
      BY <1>3, <2>2 DEF DeleteProfile, Runs
    <3> QED BY <1>3, <3>1, <3>2, CommandBegins DEF DeleteProfile, Runs, StoreInv
  <2> QED BY <2>1, <2>2
<1>4. ASSUME NEW k \in Keys, SaveSession(k) PROVE StoreInv'
  <2>1. <<Session, k>> \in Single(kv)
    BY <1>1, <1>2, <1>4 DEF Single, SaveSession
  <2> QED BY <1>4, <2>1, CommandBegins DEF SaveSession, Runs, StoreInv
<1>5. ASSUME NEW k \in Keys, NEW n \in Names, SaveProfile(k, n) PROVE StoreInv'
  <2>1. <<k, n>> \in Single(kv)
    BY <1>1, <1>2, <1>5 DEF Single, SaveProfile, Runs
  <2> QED BY <1>5, <2>1, CommandBegins DEF SaveProfile, Runs, StoreInv
<1>6. <<Session, None>> \in Single(kv)
  BY DEF Single
<1>7. CASE ClearSession
  BY <1>6, <1>7, CommandBegins DEF ClearSession, Runs, StoreInv
<1>8. CASE GetSavedSession
  <2>1. CASE kv[Session] # None /\ kv[kv[Session]] = None
    BY <1>6, <1>8, <2>1, CommandBegins DEF GetSavedSession
  <2>2. CASE ~(kv[Session] # None /\ kv[kv[Session]] = None)
    BY <1>1, <1>2, <1>8, <2>2 DEF GetSavedSession, StoreInv, Clean
  <2> QED BY <2>1, <2>2
<1> QED BY <1>3, <1>4, <1>5, <1>7, <1>8

(* Queues of at most three writes, computed. *)
LEMMA ShortTuples ==
  ASSUME NEW a, NEW b, NEW c
  PROVE  /\ Append(<<a>>, b) = <<a, b>> /\ Append(<<a, b>>, c) = <<a, b, c>>
         /\ Tail(<<a>>) = << >> /\ Tail(<<a, b>>) = <<b>>
         /\ Len(<<a>>) = 1 /\ Len(<<a, b>>) = 2 /\ <<a, b>>[2] = b
<1>1. Append(<<a>>, b) = <<a, b>>
  <2>1. <<a>> \in Seq({a, b}) /\ <<a, b>> \in Seq({a, b})
    OBVIOUS
  <2>2. Append(<<a>>, b) \in Seq({a, b})
    BY <2>1
  <2>3. /\ Len(Append(<<a>>, b)) = 2
        /\ \A i \in 1..2 : Append(<<a>>, b)[i] = <<a, b>>[i]
    BY <2>1
  <2> QED BY <2>1, <2>2, <2>3, SeqEqual
<1>2. Append(<<a, b>>, c) = <<a, b, c>>
  <2>1. <<a, b>> \in Seq({a, b, c}) /\ <<a, b, c>> \in Seq({a, b, c})
    OBVIOUS
  <2>2. Append(<<a, b>>, c) \in Seq({a, b, c})
    BY <2>1
  <2>3. /\ Len(Append(<<a, b>>, c)) = 3
        /\ \A i \in 1..3 : Append(<<a, b>>, c)[i] = <<a, b, c>>[i]
    BY <2>1
  <2> QED BY <2>1, <2>2, <2>3, SeqEqual
<1>3. Tail(<<a>>) = << >>
  <2>1. <<a>> \in Seq({a}) /\ <<a>> # << >> /\ Len(<<a>>) = 1
    OBVIOUS
  <2>2. Tail(<<a>>) \in Seq({a}) /\ Len(Tail(<<a>>)) = 0
    BY <2>1
  <2> QED BY <2>2, EmptySeq
<1>4. Tail(<<a, b>>) = <<b>>
  OBVIOUS
<1> QED BY <1>1, <1>2, <1>3, <1>4

(* A staged write reaches the tree in the order it was staged. *)
LEMMA WriteKeeps == ASSUME StoreInv, Write PROVE StoreInv'
<1>1. PICK d \in Stores : /\ holds /\ restored
                          /\ WritesOnce(d) \/ DeletesRemembered(d)
  BY DEF StoreInv, Write
<1>2. holds' /\ restored' /\ todo # << >> /\ todo' = Tail(todo)
      /\ kvs' = Append(kvs, Put(kv, todo[1]))
  BY <1>1 DEF Write, Put
<1>3. CASE WritesOnce(d)
  <2>1. PICK w \in Single(d) : kvs = <<d>> /\ todo = <<w>>
    BY <1>2, <1>3 DEF WritesOnce
  <2>2. kvs' = <<d, Put(d, w)>> /\ todo' = << >>
    BY <1>2, <2>1, ShortTuples DEF kv
  <2> QED BY <1>2, <2>2 DEF StoreInv, WritesOnce
<1>4. CASE DeletesRemembered(d)
  <2>1. PICK k \in Keys :
          /\ d[Session] = k
          /\ \/ kvs = <<d>> /\ todo = << <<k, None>>, <<Session, None>> >>
             \/ kvs = <<d, Put(d, <<k, None>>)>> /\ todo = << <<Session, None>> >>
    BY <1>2, <1>4 DEF DeletesRemembered
  <2>2. CASE kvs = <<d>> /\ todo = << <<k, None>>, <<Session, None>> >>
    <3>1. kvs' = <<d, Put(d, <<k, None>>)>> /\ todo' = << <<Session, None>> >>
      BY <1>2, <2>2, ShortTuples DEF kv
    <3> QED BY <1>2, <2>1, <3>1 DEF StoreInv, DeletesRemembered
  <2>3. CASE kvs = <<d, Put(d, <<k, None>>)>> /\ todo = << <<Session, None>> >>
    <3>1. /\ kvs' = <<d, Put(d, <<k, None>>),
                      Put(Put(d, <<k, None>>), <<Session, None>>)>>
          /\ todo' = << >>
      <4> DEFINE gone == Put(d, <<k, None>>)
      <4>1. kvs = <<d, gone>>
        BY <2>3
      <4>2. kv = gone /\ todo[1] = <<Session, None>>
        BY <2>3, <4>1, ShortTuples DEF kv
      <4>3. kvs' = Append(<<d, gone>>, Put(gone, <<Session, None>>))
        BY <1>2, <4>1, <4>2
      <4>4. todo' = Tail(<< <<Session, None>> >>)
        BY <1>2, <2>3
      <4> HIDE DEF gone
      <4>5. Append(<<d, gone>>, Put(gone, <<Session, None>>))
              = <<d, gone, Put(gone, <<Session, None>>)>>
        BY ShortTuples
      <4>6. todo' = << >>
        BY <4>4, ShortTuples
      <4> QED BY <4>3, <4>5, <4>6 DEF gone
    <3> QED BY <1>2, <2>1, <3>1 DEF StoreInv, DeletesRemembered
  <2> QED BY <2>1, <2>2, <2>3
<1> QED BY <1>1, <1>3, <1>4

(* A flush drops trees that are older than the durable one. *)
LEMMA FlushKeeps == ASSUME StoreInv, Flush PROVE StoreInv'
<1>1. PICK d \in Stores : /\ holds /\ restored
                          /\ WritesOnce(d) \/ DeletesRemembered(d)
  BY DEF StoreInv, Flush
<1>2. todo = << >> /\ kvs' = <<kv>> /\ ~holds' /\ restored' /\ todo' = << >>
      /\ holds' \in BOOLEAN /\ restored' \in BOOLEAN
  BY <1>1 DEF Flush, StoreInv
<1>3. kv \in Stores /\ Clean(kv)
  <2>1. CASE WritesOnce(d)
    <3>1. PICK w \in Single(d) : kvs = <<d, Put(d, w)>>
      BY <1>2, <2>1 DEF WritesOnce
    <3> QED BY <3>1, PutKeepsStores DEF kv
  <2>2. CASE DeletesRemembered(d)
    <3>1. PICK k \in Keys :
            kvs = <<d, Put(d, <<k, None>>), Put(Put(d, <<k, None>>), <<Session, None>>)>>
      BY <1>2, <2>2 DEF DeletesRemembered
    <3>2. Put(d, <<k, None>>) \in Stores
      BY PutKeepsStores
    <3>3. kv = Put(Put(d, <<k, None>>), <<Session, None>>)
      BY <3>1 DEF kv
    <3> QED BY <3>2, <3>3, PutKeepsStores
  <2> QED BY <1>1, <2>1, <2>2
<1> QED BY <1>2, <1>3 DEF StoreInv

(* Every state of the tree that a crash can restore is a tree.             *)
LEMMA TreesAreStores == StoreInv => \A i \in DOMAIN kvs : kvs[i] \in Stores
<1> SUFFICES ASSUME StoreInv, NEW i \in DOMAIN kvs PROVE kvs[i] \in Stores
  OBVIOUS
<1>1. PICK d \in Stores :
        \/ kvs = <<d>>
        \/ WritesOnce(d)
        \/ DeletesRemembered(d)
  BY DEF StoreInv
<1>2. CASE kvs = <<d>>
  BY <1>2
<1>3. CASE WritesOnce(d)
  BY <1>3, PutKeepsStores DEF WritesOnce
<1>4. CASE DeletesRemembered(d)
  <2>1. PICK k \in Keys :
          \/ kvs = <<d>>
          \/ kvs = <<d, Put(d, <<k, None>>)>>
          \/ kvs = <<d, Put(d, <<k, None>>), Put(Put(d, <<k, None>>), <<Session, None>>)>>
    BY <1>4 DEF DeletesRemembered
  <2>2. Put(d, <<k, None>>) \in Stores
    BY PutKeepsStores
  <2>3. Put(Put(d, <<k, None>>), <<Session, None>>) \in Stores
    BY <2>2, PutKeepsStores
  <2> QED BY <2>1, <2>2, <2>3
<1> QED BY <1>1, <1>2, <1>3, <1>4

(* A restart reads back one of the trees that can be on disk. *)
LEMMA RestartKeeps == ASSUME StoreInv, Restart PROVE StoreInv'
BY TreesAreStores DEF Restart, StoreInv

(* Every step keeps what is known of the store. *)
LEMMA StoreStepKeeps == StoreInv /\ ChallengeInv /\ [AuthNext]_vars => StoreInv'
<1> SUFFICES ASSUME StoreInv, ChallengeInv, [AuthNext]_vars PROVE StoreInv'
  OBVIOUS
<1>1. ASSUME UNCHANGED storeVars PROVE StoreInv'
  BY <1>1 DEF storeVars, StoreInv, WritesOnce, DeletesRemembered
<1>2. CASE \E k \in Keys : IssueAuthChallenge(k)
  BY <1>1, <1>2 DEF IssueAuthChallenge
<1>3. CASE \E c \in pending : ConsumeNonce(c)
  BY <1>1, <1>3 DEF ConsumeNonce
<1>4. ASSUME NEW c \in calls, FinishAuth(c) PROVE StoreInv'
  <2>1. c[2] \in Keys
    BY DEF ChallengeInv
  <2> QED BY <1>1, <1>4, <2>1, StoreCommandsKeep DEF FinishAuth
<1>5. CASE StoreCommand
  BY <1>5, StoreCommandsKeep DEF StoreCommand
<1>6. CASE SignOut
  BY <1>6, StoreCommandsKeep DEF SignOut
<1>7. CASE StoreStep
  BY <1>7, StoreCommandsKeep, WriteKeeps, FlushKeeps DEF StoreStep
<1>8. CASE Crash
  BY <1>8, RestartKeeps DEF Crash
<1>9. CASE UNCHANGED vars
  BY <1>1, <1>9 DEF vars, storeVars
<1> QED BY <1>2, <1>3, <1>4, <1>5, <1>6, <1>7, <1>8, <1>9 DEF AuthNext

Counters == commands \in 0..MaxCommands /\ crashes \in 0..MaxCrashes

(* The bounded counters stay within their bounds. *)
LEMMA CountersStep == Counters /\ [AuthNext]_vars => Counters'
BY AuthAssumption
   DEF Counters, AuthNext, IssueAuthChallenge, ConsumeNonce, FinishAuth, StoreCommand,
       SignOut, StoreStep, Crash, Command, vars

IInv == ChallengeInv /\ StoreInv /\ Counters

(* The inductive invariant holds of every reachable state. *)
LEMMA Invariance == Spec => []IInv
<1>1. AuthInit => IInv
  BY ChallengeInit, StoreStarts, AuthAssumption DEF IInv, AuthInit, Counters
<1>2. IInv /\ [AuthNext]_vars => IInv'
  BY ChallengeStep, StoreStepKeeps, CountersStep DEF IInv
<1> QED BY <1>1, <1>2, PTL DEF Spec

(* The invariant contains the types. *)
LEMMA TypesFollow == IInv => TypeOK
<1> SUFFICES ASSUME IInv PROVE TypeOK
  OBVIOUS
<1>1. PICK d \in Stores :
        \/ ~holds /\ kvs = <<d>> /\ todo = << >>
        \/ WritesOnce(d)
        \/ DeletesRemembered(d)
  BY DEF IInv, StoreInv
<1>2. kvs \in Seq(Stores) /\ kvs # << >>
  <2>1. PICK e, f : kvs = <<d>> \/ kvs = <<d, e>> \/ kvs = <<d, e, f>>
    BY <1>1 DEF WritesOnce, DeletesRemembered
  <2>2. \A i \in DOMAIN kvs : kvs[i] \in Stores
    BY TreesAreStores DEF IInv
  <2>3. CASE kvs = <<d>>
    BY <2>3
  <2>4. CASE kvs = <<d, e>>
    <3>1. e \in Stores
      BY <2>2, <2>4
    <3> QED BY <2>4, <3>1
  <2>5. CASE kvs = <<d, e, f>>
    <3>1. e \in Stores /\ f \in Stores
      BY <2>2, <2>5
    <3> QED BY <2>5, <3>1
  <2> QED BY <2>1, <2>3, <2>4, <2>5
<1> DEFINE Ws == (Keys \cup {Session}) \X (Keys \cup Names \cup {None})
<1>3. todo \in Seq(Ws)
  <2>1. CASE todo = << >>
    BY <2>1
  <2>2. CASE \E w \in Ws : todo = <<w>>
    BY <2>2
  <2>3. CASE \E v \in Ws, w \in Ws : todo = <<v, w>>
    BY <2>3
  <2>4. Single(d) \subseteq Ws
    BY DEF Single
  <2>5. \A k \in Keys : <<k, None>> \in Ws /\ <<Session, None>> \in Ws
    OBVIOUS
  <2> HIDE DEF Ws
  <2> QED BY <1>1, <2>1, <2>2, <2>3, <2>4, <2>5 DEF WritesOnce, DeletesRemembered
<1>4. /\ issued \in 0..MaxNonces /\ used \in [Nonces -> Nat]
      /\ pending \subseteq Nonces \X Keys /\ calls \subseteq Nonces \X Keys
  BY AuthAssumption DEF IInv, ChallengeInv, Nonces
<1> QED BY <1>2, <1>3, <1>4 DEF TypeOK, StoreTypeOK, IInv, StoreInv, Counters

(* The variables of both modules keep their types.                         *)
THEOREM AuthTypes == Spec => []TypeOK
BY TypesFollow, Invariance, PTL

(* Between commands nothing that was answered can be lost, and once a      *)
(* launch has restored its session none points at a deleted profile        *)
(* (user_store.rs: save_profile, delete_profile; get_saved_session).       *)
THEOREM AnswersAreSafe == Spec => []AnsweredIsSafe
<1>1. IInv => AnsweredIsSafe
  <2> SUFFICES ASSUME StoreInv, ~holds PROVE AnsweredIsSafe
    BY DEF IInv, AnsweredIsSafe
  <2>1. PICK d \in Stores : kvs = <<d>> /\ (restored => Clean(d))
    BY DEF StoreInv
  <2>2. Len(kvs) = 1 /\ kv = d
    BY <2>1 DEF kv
  <2> QED BY <2>1, <2>2 DEF AnsweredIsSafe, Clean
<1> QED BY <1>1, Invariance, PTL

-----------------------------------------------------------------------------
(* The promise                                                             *)

ProfileOf(d) == [k \in Keys |-> d[k]]

RememberedIn(d) ==
  IF d[Session] # None /\ d[d[Session]] # None THEN d[Session] ELSE None

(* From the tree d the promise reaches e in one step, or stays.            *)
Follows(d, e) ==
  \/ ProfileOf(e) = ProfileOf(d) /\ RememberedIn(e) = RememberedIn(d)
  \/ \E k \in Keys :
       \/ \E n \in Names : /\ ProfileOf(e) = [ProfileOf(d) EXCEPT ![k] = n]
                          /\ RememberedIn(e) = RememberedIn(d)
       \/ /\ ProfileOf(e) = [ProfileOf(d) EXCEPT ![k] = None]
          /\ RememberedIn(e) = IF RememberedIn(d) = k THEN None ELSE RememberedIn(d)
       \/ /\ ProfileOf(d)[k] # None
          /\ RememberedIn(e) = k /\ ProfileOf(e) = ProfileOf(d)
  \/ RememberedIn(e) = None /\ ProfileOf(e) = ProfileOf(d)

(* A command that writes one key is one step of the wallet, or none. *)
LEMMA SingleFollows ==
  ASSUME NEW d \in Stores, NEW w \in Single(d)
  PROVE  Follows(d, Put(d, w))
<1>1. /\ d \in [Keys \cup {Session} -> Keys \cup Names \cup {None}]
      /\ d[Session] \in Keys \cup {None}
      /\ \A k \in Keys : d[k] \in Names \cup {None}
  BY DEF Stores
<1>2. Session \notin Keys /\ None \notin Keys /\ None \notin Names
  BY UserStoreAssumption
<1>3. CASE w[1] \in Keys /\ w[2] \in Names /\ Clean(d)
  <2>1. ProfileOf(Put(d, w)) = [ProfileOf(d) EXCEPT ![w[1]] = w[2]]
    BY <1>1, <1>3 DEF ProfileOf, Put
  <2>2. RememberedIn(Put(d, w)) = RememberedIn(d)
    BY <1>1, <1>2, <1>3 DEF RememberedIn, Put, Clean
  <2> QED BY <1>3, <2>1, <2>2 DEF Follows
<1>4. CASE w[1] \in Keys /\ w[2] = None /\ d[Session] # w[1]
  <2>1. ProfileOf(Put(d, w)) = [ProfileOf(d) EXCEPT ![w[1]] = None]
    BY <1>1, <1>4 DEF ProfileOf, Put
  <2>2. RememberedIn(Put(d, w)) = RememberedIn(d) /\ RememberedIn(d) # w[1]
    BY <1>1, <1>2, <1>4 DEF RememberedIn, Put
  <2> QED BY <1>4, <2>1, <2>2 DEF Follows
<1>5. CASE w[1] = Session
  <2>1. ProfileOf(Put(d, w)) = ProfileOf(d)
    BY <1>1, <1>2, <1>5 DEF ProfileOf, Put
  <2>2. CASE w[2] \in Keys /\ d[w[2]] # None
    <3>1. RememberedIn(Put(d, w)) = w[2] /\ ProfileOf(d)[w[2]] # None
      BY <1>1, <1>2, <1>5, <2>2 DEF RememberedIn, ProfileOf, Put
    <3> QED BY <2>1, <2>2, <3>1 DEF Follows
  <2>3. CASE w[2] = None
    <3>1. RememberedIn(Put(d, w)) = None
      BY <1>1, <1>5, <2>3 DEF RememberedIn, Put
    <3> QED BY <2>1, <3>1 DEF Follows
  <2> QED BY <1>2, <1>5, <2>2, <2>3 DEF Single
<1> QED BY <1>3, <1>4, <1>5 DEF Single

(* Both halves of deleting the saved profile are steps of the wallet. *)
LEMMA DeletionFollows ==
  ASSUME NEW d \in Stores, NEW k \in Keys, d[Session] = k
  PROVE  /\ Follows(d, Put(d, <<k, None>>))
         /\ Follows(d, Put(Put(d, <<k, None>>), <<Session, None>>))
<1> DEFINE gone == Put(d, <<k, None>>)
           cleared == Put(gone, <<Session, None>>)
<1>1. /\ d \in [Keys \cup {Session} -> Keys \cup Names \cup {None}]
      /\ Session \notin Keys
  BY UserStoreAssumption DEF Stores
<1>2. /\ ProfileOf(gone) = [ProfileOf(d) EXCEPT ![k] = None]
      /\ ProfileOf(cleared) = ProfileOf(gone)
  BY <1>1 DEF ProfileOf, Put
<1>3. RememberedIn(gone) = None /\ RememberedIn(cleared) = None
  BY <1>1 DEF RememberedIn, Put
<1>4. RememberedIn(d) \in {k, None}
  BY DEF RememberedIn
<1> QED BY <1>2, <1>3, <1>4 DEF Follows

(* Whatever prefix of a command's writes lasts, the promise follows.       *)
LEMMA WhateverLastsFollows ==
  ASSUME StoreInv, NEW i \in DOMAIN kvs
  PROVE  Follows(kvs[1], kvs[i])
<1>1. PICK d \in Stores :
        \/ kvs = <<d>>
        \/ \E w \in Single(d) : kvs = <<d>> \/ kvs = <<d, Put(d, w)>>
        \/ DeletesRemembered(d)
  BY DEF StoreInv, WritesOnce
<1>2. Follows(d, d)
  BY DEF Follows
<1>3. CASE kvs = <<d>>
  BY <1>2, <1>3
<1>4. CASE \E w \in Single(d) : kvs = <<d, Put(d, w)>>
  <2>1. PICK w \in Single(d) : kvs = <<d, Put(d, w)>>
    BY <1>4
  <2>2. kvs[1] = d /\ kvs[i] \in {d, Put(d, w)}
    BY <2>1
  <2> QED BY <1>2, <2>2, SingleFollows
<1>5. CASE DeletesRemembered(d)
  <2>1. PICK k \in Keys :
          /\ d[Session] = k
          /\ \/ kvs = <<d>>
             \/ kvs = <<d, Put(d, <<k, None>>)>>
             \/ kvs = <<d, Put(d, <<k, None>>), Put(Put(d, <<k, None>>), <<Session, None>>)>>
    BY <1>5 DEF DeletesRemembered
  <2>2. /\ kvs[1] = d
        /\ kvs[i] \in {d, Put(d, <<k, None>>), Put(Put(d, <<k, None>>), <<Session, None>>)}
    BY <2>1
  <2> QED BY <1>2, <2>1, <2>2, DeletionFollows
<1> QED BY <1>1, <1>3, <1>4, <1>5

(* There is always a durable tree and a latest one. *)
LEMMA TreesRemain ==
  StoreInv => kvs # << >> /\ 1 \in DOMAIN kvs /\ Len(kvs) \in DOMAIN kvs
<1> SUFFICES ASSUME StoreInv PROVE kvs # << >> /\ 1 \in DOMAIN kvs /\ Len(kvs) \in DOMAIN kvs
  OBVIOUS
<1>1. PICK d, e, f : kvs = <<d>> \/ kvs = <<d, e>> \/ kvs = <<d, e, f>>
  BY DEF StoreInv, WritesOnce, DeletesRemembered
<1> QED BY <1>1

(* Two stores that follow one another are a step of the abstract wallet. *)
LEMMA FollowsIsAStep ==
  ASSUME Follows(kvs[1], kvs'[1])
  PROVE  [Wallet!WalletNext]_(Wallet!walletVars)
BY DEF Follows, ProfileOf, RememberedIn, durable, Wallet!WalletNext, Wallet!Register,
       Wallet!Delete, Wallet!Remember, Wallet!Forget, Wallet!walletVars

(* Each command, and each crash inside one, is one step of RememberedWallet *)
(* on what is durable (user_store.rs, commands/auth.rs).                    *)
THEOREM RemembersAsPromised == Spec => ImplementsRememberedWallet
<1>1. AuthInit => Wallet!WalletInit
  BY UserStoreAssumption DEF AuthInit, StoreInit, NoProfiles, durable, Wallet!WalletInit
<1>2. ASSUME IInv, [AuthNext]_vars
      PROVE  [Wallet!WalletNext]_(Wallet!walletVars)
  <2>1. kvs # << >> /\ 1 \in DOMAIN kvs /\ Len(kvs) \in DOMAIN kvs
    BY <1>2, TreesRemain DEF IInv
  <2>2. \/ kvs' = kvs \/ \E i \in DOMAIN kvs : kvs' = <<kvs[i]>> \/ kvs'[1] = kvs[1]
    <3>1. ASSUME Write PROVE kvs'[1] = kvs[1]
      BY <2>1, <3>1 DEF Write
    <3>2. ASSUME Flush PROVE \E i \in DOMAIN kvs : kvs' = <<kvs[i]>>
      BY <2>1, <3>2 DEF Flush, kv
    <3> QED BY <1>2, <2>1, <3>1, <3>2
         DEF AuthNext, IssueAuthChallenge, ConsumeNonce, FinishAuth, StoreCommand,
             SignOut, StoreStep, Crash, Restart, DeleteProfile, SaveSession,
             SaveProfile, ClearSession, GetSavedSession, Runs, storeVars, vars
  <2>3. \E i \in DOMAIN kvs : kvs'[1] = kvs[i]
    BY <2>1, <2>2
  <2>4. Follows(kvs[1], kvs'[1])
    BY <1>2, <2>3, WhateverLastsFollows DEF IInv
  <2> QED BY <2>4, FollowsIsAStep
<1> QED BY <1>1, <1>2, Invariance, PTL DEF Spec, ImplementsRememberedWallet, Wallet!WalletSpec
=============================================================================
