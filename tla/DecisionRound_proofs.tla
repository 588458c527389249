------------------------ MODULE DecisionRound_proofs ------------------------
(***************************************************************************)
(* No fake pass, a lawful debate and a stake sized by its own figures, for *)
(* every set of blocks, snapshots, distributions and caps, and any number  *)
(* of rounds, turns and failures.                                          *)
(***************************************************************************)
EXTENDS DecisionRound, WellFoundedInduction, TLAPS

IsReceipt(r) ==
  r = [fixture |-> r.fixture, seq |-> r.seq, keys |-> r.keys, proof |-> r.proof,
       root |-> r.root, hash |-> r.hash, status |-> r.status, verified |-> r.verified]

IsEvent(e) ==
  e = [kind |-> e.kind, fixture |-> e.fixture, seq |-> e.seq, keys |-> e.keys,
       rawKeys |-> e.rawKeys, odds |-> e.odds, score |-> e.score, proof |-> e.proof,
       shown |-> e.shown]

(* A receipt that says so was accepted by the program.                     *)
Honest(r) == r.verified \/ r.status = "Passed" => <<r.fixture, r.seq>> \in proved

Opening == {"load", "fetch", "refresh", "retry", "sidecar", "exiting", "gate"}
Arguing == {"propose", "react", "decide"}

(* A published event carries an honest receipt of its own fixture and      *)
(* sequence, so that as a trigger it says nothing of another.              *)
FeedInv ==
  \A e \in feed : /\ IsEvent(e) /\ IsReceipt(e.proof) /\ e.shown
                  /\ e.proof.fixture = e.fixture /\ e.proof.seq = e.seq
                  /\ Honest(e.proof)

(* The receipt in hand is of the event's fixture and sequence, also before *)
(* the proof of that sequence has arrived; what the sidecar passed, the    *)
(* program has accepted; the gate and the outcome are of this round.       *)
RoundInv ==
  /\ pc \in {"idle"} \cup Opening \cup Arguing
  /\ IsEvent(event) /\ IsReceipt(receipt) /\ Honest(receipt)
  /\ pc # "idle" => receipt.fixture = event.fixture /\ receipt.seq = event.seq
  /\ pc # "idle" => verdict = "none" /\ decision = <<>>
  /\ pc \in Opening => gate = FALSE
  /\ pc = "exiting" /\ answer.status = "Passed" => <<event.fixture, event.seq>> \in proved

IInv == FeedInv /\ RoundInv /\ NoFakePass

-----------------------------------------------------------------------------
(* At the start no event is known and no receipt is in hand. *)
LEMMA Starts == Init => IInv
<1> SUFFICES ASSUME Init PROVE IInv
  OBVIOUS
<1>1. FeedInv /\ NoFakePass
  BY DEF Init, FeedInv, NoFakePass
<1>2. IsEvent(event) /\ IsReceipt(receipt)
  BY DEF Init, IsEvent, IsReceipt, SnapshotEvent, NoReceipt
<1>3. receipt.verified = FALSE /\ receipt.status = "NotStarted"
  BY DEF Init, NoReceipt
<1>4. Honest(receipt)
  BY <1>3 DEF Honest
<1>5. pc = "idle"
  BY DEF Init
<1> QED BY <1>1, <1>2, <1>4, <1>5 DEF IInv, RoundInv, Opening

(* An event the desk can be given is a sound one, published if it carries  *)
(* a receipt.                                                              *)
LEMMA EventsKnown ==
  ASSUME FeedInv, NEW e \in KnownEvents
  PROVE  /\ IsEvent(e)
         /\ e.shown => e \in feed
<1>1. CASE e \in feed
  BY <1>1 DEF FeedInv
<1>2. ASSUME NEW b \in Blocks, e = ParseBlock(b)
      PROVE  IsEvent(e) /\ ~e.shown
  BY <1>2 DEF ParseBlock, IsEvent
<1>3. ASSUME NEW odds \in Snapshots, NEW s \in BOOLEAN, e = SnapshotEvent(1, odds, s)
      PROVE  IsEvent(e) /\ ~e.shown
  BY <1>3 DEF SnapshotEvent, IsEvent
<1>4. ASSUME NEW odds \in Moves, e = MoveEvent(1, odds)
      PROVE  IsEvent(e) /\ ~e.shown
  BY <1>4 DEF MoveEvent, SnapshotEvent, IsEvent
<1> QED BY <1>1, <1>2, <1>3, <1>4 DEF KnownEvents

(* A round begins with the receipt its own event carries, or none. *)
LEMMA BeginKeeps ==
  ASSUME IInv, NEW e, NEW t, Begin(e, t)
  PROVE  IInv'
<1>1. /\ e \in KnownEvents /\ pc' = "load" /\ event' = e /\ receipt' = ReceiptFor(e)
      /\ decision' = <<>> /\ verdict' = "none" /\ gate' = FALSE /\ feed' = feed /\ proved' = proved
  BY DEF Begin
<1>2. FeedInv' /\ FeedInv
  BY <1>1 DEF IInv, FeedInv, Honest
<1>3. IsEvent(e) /\ (e.shown => e \in feed)
  BY <1>1, <1>2, EventsKnown
<1>4. /\ IsReceipt(ReceiptFor(e)) /\ Honest(ReceiptFor(e))
      /\ ReceiptFor(e).fixture = e.fixture /\ ReceiptFor(e).seq = e.seq
  <2>1. CASE e.shown
    BY <2>1, <1>2, <1>3 DEF ReceiptFor, FeedInv
  <2>2. CASE ~e.shown
    <3>1. ReceiptFor(e) = [NoReceipt EXCEPT !.fixture = e.fixture, !.seq = e.seq, !.keys = e.keys]
      BY <2>2 DEF ReceiptFor
    <3>2. /\ IsReceipt(ReceiptFor(e)) /\ ReceiptFor(e).fixture = e.fixture
          /\ ReceiptFor(e).seq = e.seq
          /\ ReceiptFor(e).verified = FALSE /\ ReceiptFor(e).status = "NotStarted"
      BY <3>1 DEF NoReceipt, IsReceipt
    <3> QED BY <3>2 DEF Honest
  <2> QED BY <2>1, <2>2
<1>5. RoundInv'
  BY <1>1, <1>3, <1>4 DEF RoundInv, Opening, Honest
<1>6. NoFakePass'
  BY <1>1 DEF IInv, NoFakePass
<1> QED BY <1>2, <1>5, <1>6 DEF IInv

(* A step of the validation: the receipt may change, the rest that the     *)
(* invariant is about does not.                                            *)
LEMMA ValidationKeeps ==
  ASSUME IInv, pc \in Opening, pc' \in Opening, pc' # "exiting",
         UNCHANGED <<event, gate, outcome, feed, proved>>,
         IsReceipt(receipt'), receipt'.fixture = receipt.fixture, receipt'.seq = receipt.seq,
         Honest(receipt')
  PROVE  IInv'
<1>1. FeedInv'
  BY DEF IInv, FeedInv, Honest
<1>2. pc # "idle" /\ pc' # "idle"
  BY DEF Opening
<1>3. RoundInv'
  BY <1>2 DEF IInv, RoundInv, Honest, outcome
<1>4. NoFakePass'
  BY <1>2 DEF IInv, NoFakePass, RoundInv, outcome
<1> QED BY <1>1, <1>3, <1>4 DEF IInv

(* Fetching leaves a receipt of the event's own fixture and sequence. *)
LEMMA FetchKeeps ==
  ASSUME IInv,
         \/ Load \/ ProofArrives \/ TokenExpired \/ TokenRefreshed \/ FetchFails \/ SidecarFails
         \/ SidecarExits
  PROVE  IInv'
<1>1. /\ IsReceipt(receipt) /\ Honest(receipt)
      /\ pc # "idle" => receipt.fixture = event.fixture /\ receipt.seq = event.seq
      /\ pc = "exiting" /\ answer.status = "Passed" => <<event.fixture, event.seq>> \in proved
  BY DEF IInv, RoundInv
<1>2. /\ pc \in Opening /\ pc' \in Opening /\ pc' # "exiting" /\ pc # "idle"
      /\ UNCHANGED <<event, gate, outcome, feed, proved>>
  BY DEF Load, ProofArrives, TokenExpired, TokenRefreshed, FetchFails, SidecarFails, SidecarExits,
         Opening
<1>3. CASE receipt' = receipt
  BY <1>1, <1>2, <1>3, ValidationKeeps DEF Honest
<1>4. CASE ProofArrives
  <2>1. receipt' = [receipt EXCEPT !.seq = event.seq, !.keys = {"number"}, !.proof = TRUE]
    BY <1>4 DEF ProofArrives
  <2>2. /\ IsReceipt(receipt') /\ receipt'.fixture = receipt.fixture /\ receipt'.seq = receipt.seq
        /\ receipt'.status = receipt.status /\ receipt'.verified = receipt.verified
    BY <1>1, <1>2, <2>1 DEF IsReceipt
  <2> QED BY <1>1, <1>2, <2>2, ValidationKeeps DEF Honest
<1>5. CASE FetchFails
  <2>1. receipt' = [receipt EXCEPT !.status = "Unavailable"]
    BY <1>5 DEF FetchFails
  <2>2. /\ IsReceipt(receipt') /\ receipt'.fixture = receipt.fixture /\ receipt'.seq = receipt.seq
        /\ receipt'.status = "Unavailable" /\ receipt'.verified = receipt.verified
    BY <1>1, <2>1 DEF IsReceipt
  <2> QED BY <1>1, <1>2, <2>2, ValidationKeeps DEF Honest
<1>6. CASE SidecarFails
  <2>1. receipt' = [receipt EXCEPT !.status = "Unavailable", !.verified = FALSE]
    BY <1>6 DEF SidecarFails
  <2>2. /\ IsReceipt(receipt') /\ receipt'.fixture = receipt.fixture /\ receipt'.seq = receipt.seq
        /\ receipt'.status = "Unavailable" /\ receipt'.verified = FALSE
    BY <1>1, <2>1 DEF IsReceipt
  <2> QED BY <1>1, <1>2, <2>2, ValidationKeeps DEF Honest
<1>7. CASE SidecarExits
  <2>1. receipt' = Merge(receipt, answer) /\ pc = "exiting"
    BY <1>7 DEF SidecarExits
  <2>2. /\ IsReceipt(receipt') /\ receipt'.fixture = receipt.fixture /\ receipt'.seq = receipt.seq
        /\ receipt'.status = answer.status
        /\ receipt'.verified => answer.status = "Passed"
    BY <1>1, <2>1 DEF IsReceipt, Merge
  <2>3. Honest(receipt')
    BY <1>1, <1>2, <2>1, <2>2 DEF Honest
  <2> QED BY <1>2, <2>2, <2>3, ValidationKeeps DEF Honest
<1>8. CASE Load \/ TokenExpired \/ TokenRefreshed
  BY <1>3, <1>8 DEF Load, TokenExpired, TokenRefreshed
<1> QED BY <1>4, <1>5, <1>6, <1>7, <1>8

(* What the sidecar proves is of the event it was asked about. *)
LEMMA AnswerKeeps ==
  ASSUME IInv, SidecarAnswers
  PROVE  IInv'
<1>1. /\ pc = "sidecar" /\ pc' = "exiting"
      /\ proved \subseteq proved'
      /\ answer'.status = "Passed" => <<event.fixture, event.seq>> \in proved'
      /\ UNCHANGED <<event, receipt, gate, outcome, feed>>
  BY DEF SidecarAnswers
<1>2. \A r : Honest(r) => (r.verified \/ r.status = "Passed" => <<r.fixture, r.seq>> \in proved')
  BY <1>1 DEF Honest
<1>3. FeedInv'
  BY <1>1, <1>2 DEF IInv, FeedInv, Honest
<1>4. RoundInv'
  BY <1>1, <1>2 DEF IInv, RoundInv, Honest, Opening, outcome
<1>5. NoFakePass'
  <2>1. ~gate /\ verdict = "none" /\ decision = <<>>
    BY <1>1 DEF IInv, RoundInv, Opening
  <2>2. ~gate' /\ verdict' = "none" /\ decision' = <<>>
    BY <1>1, <2>1 DEF outcome
  <2>3. \A e \in feed' : e.proof.verified \/ e.proof.status = "Passed" =>
          <<e.proof.fixture, e.proof.seq>> \in proved'
    BY <1>1, <1>2 DEF IInv, FeedInv
  <2> QED BY <2>2, <2>3 DEF NoFakePass
<1> QED BY <1>3, <1>4, <1>5 DEF IInv

(* What the gate publishes carries the receipt it looked at. *)
LEMMA GateKeeps ==
  ASSUME IInv, CloseGate
  PROVE  IInv'
<1>1. /\ pc = "gate" /\ pc' = "propose" /\ gate' = GateReceipt(event, receipt)
      /\ event' = [event EXCEPT !.proof = receipt, !.shown = TRUE]
      /\ feed' = feed \cup {ProofEvent(receipt)}
      /\ UNCHANGED <<receipt, outcome, proved>>
  BY DEF CloseGate
<1>2. /\ IsEvent(event) /\ IsReceipt(receipt) /\ Honest(receipt)
      /\ receipt.fixture = event.fixture /\ receipt.seq = event.seq
      /\ verdict = "none" /\ decision = <<>>
  BY <1>1 DEF IInv, RoundInv
<1>3. IsEvent(event') /\ event'.fixture = event.fixture /\ event'.seq = event.seq
  BY <1>1, <1>2 DEF IsEvent
<1>4. gate' => receipt.status = "Passed" /\ <<receipt.fixture, receipt.seq>> \in proved
  BY <1>1, <1>2 DEF GateReceipt, Honest
<1>5. FeedInv'
  <2>1. ASSUME NEW e \in feed
        PROVE  /\ IsEvent(e) /\ IsReceipt(e.proof) /\ e.shown
               /\ e.proof.fixture = e.fixture /\ e.proof.seq = e.seq /\ Honest(e.proof)'
    BY <1>1 DEF IInv, FeedInv, Honest
  <2> DEFINE e == ProofEvent(receipt)
  <2>2. /\ IsEvent(e) /\ e.proof = receipt /\ e.shown = TRUE
        /\ e.fixture = receipt.fixture /\ e.seq = receipt.seq
    BY DEF ProofEvent, IsEvent
  <2>3. Honest(receipt)'
    BY <1>1, <1>2 DEF Honest
  <2>4. IsReceipt(receipt)
    BY <1>2
  <2> HIDE DEF e
  <2>5. feed' = feed \cup {e}
    BY <1>1 DEF e
  <2> QED BY <1>1, <2>1, <2>2, <2>3, <2>4, <2>5 DEF FeedInv, Honest
<1>6. RoundInv'
  BY <1>1, <1>2, <1>3 DEF RoundInv, Opening, Arguing, Honest, outcome
<1>7. NoFakePass'
  <2>1. gate' => <<receipt'.fixture, receipt'.seq>> \in proved' /\ receipt'.fixture = event'.fixture
    BY <1>1, <1>2, <1>3, <1>4
  <2>2. verdict' = "none" /\ decision' = <<>>
    BY <1>1, <1>2 DEF outcome
  <2>3. \A e \in feed' : e.proof.verified \/ e.proof.status = "Passed" =>
          <<e.proof.fixture, e.proof.seq>> \in proved'
    BY <1>5 DEF FeedInv, Honest
  <2> QED BY <2>1, <2>2, <2>3 DEF NoFakePass
<1> QED BY <1>5, <1>6, <1>7 DEF IInv

(* The debate does not touch what the invariant is about.                  *)
LEMMA DebateKeeps ==
  ASSUME IInv, DebateStep
  PROVE  IInv'
<1>1. /\ pc \in Arguing /\ pc' \in Arguing
      /\ UNCHANGED <<event, receipt, gate, outcome, feed, proved>>
  BY DEF DebateStep, DebateEnds, ProposerComputes, ProposerSubmits, PunditStalls, PunditRules, Arguing
<1>2. pc # "idle" /\ pc' # "idle" /\ pc' \notin Opening
  BY <1>1 DEF Arguing, Opening
<1>3. FeedInv'
  BY <1>1 DEF IInv, FeedInv, Honest
<1>4. RoundInv'
  BY <1>1, <1>2 DEF IInv, RoundInv, Honest, outcome, Opening
<1>5. NoFakePass'
  BY <1>1 DEF IInv, NoFakePass, outcome
<1> QED BY <1>3, <1>4, <1>5 DEF IInv

(* A resolution is requested on the settlement track only, and let through *)
(* by the gate, which then is what the verdict says.                       *)
LEMMA DecideKeeps ==
  ASSUME IInv, Decide
  PROVE  IInv'
<1>1. /\ pc = "decide" /\ pc' = "idle"
      /\ UNCHANGED <<event, receipt, gate, feed, proved>>
  BY DEF Decide
<1>2. decision = <<>>
  BY <1>1 DEF IInv, RoundInv
<1>3. \A type : RequestedAction(track, type) = "TriggerResolution" => track = "settlement"
  BY DEF RequestedAction
<1>4. /\ verdict' = "Pass" => gate
      /\ decision' # <<>> /\ decision'.action = "TriggerResolution" => verdict' = "Pass"
  <2> DEFINE features == DeriveFeatures(event)
             signal   == BuildSignal(event, features)
  <2>1. CASE event.kind \in DOMAIN SignalOf
    <3>1. /\ decision' = ChooseAction(event, track, signal, features, gate)
          /\ verdict' = RunVerdict(track, gate)
      BY <2>1 DEF Decide
    <3> HIDE DEF features, signal
    <3>2. decision'.action = IF RequestedAction(track, signal.type) = "TriggerResolution" /\ ~gate
                             THEN "FetchProof" ELSE RequestedAction(track, signal.type)
      BY <3>1 DEF ChooseAction
    <3>3. decision'.action = "TriggerResolution" => gate /\ track = "settlement"
      BY <1>3, <3>2
    <3> QED BY <3>1, <3>3 DEF RunVerdict
  <2>2. CASE event.kind \notin DOMAIN SignalOf
    BY <1>2, <2>2 DEF Decide
  <2> QED BY <2>1, <2>2
<1>5. FeedInv'
  BY <1>1 DEF IInv, FeedInv, Honest
<1>6. RoundInv'
  BY <1>1 DEF IInv, RoundInv, Honest, Opening
<1>7. NoFakePass'
  BY <1>1, <1>4 DEF IInv, NoFakePass
<1> QED BY <1>5, <1>6, <1>7 DEF IInv

(* Every step keeps the invariant. *)
LEMMA StepKeeps == IInv /\ [Next]_vars => IInv'
<1> SUFFICES ASSUME IInv, [Next]_vars PROVE IInv'
  OBVIOUS
<1>1. CASE UNCHANGED vars
  <2>1. UNCHANGED <<pc, event, receipt, answer, gate, outcome, feed, proved>>
    BY <1>1 DEF vars
  <2> QED BY <2>1 DEF IInv, FeedInv, RoundInv, NoFakePass, Honest, outcome
<1>2. CASE \E e \in KnownEvents, t \in Tracks : Begin(e, t)
  BY <1>2, BeginKeeps
<1> QED BY <1>1, <1>2, FetchKeeps, AnswerKeeps, GateKeeps, DebateKeeps, DecideKeeps, Zenon
        DEF Next, DebateStep

-----------------------------------------------------------------------------
(* The arithmetic of a wager. *)

(* The figures of a ruling on w at odds o that bets nothing, or a stake    *)
(* that the guard's checks let pass.                                       *)
Sound(r, c) == Positive(r.stake) => FiguresHold(r) /\ AtMost(r.stake, [num |-> c, den |-> 1])

Stakes == [num : Nat, den : Nat \ {0}]
References == {"none", "wellShaped", "malformed"}
Conditions == {"Proposed", "NoBet", "Debated", "ProofPassed"}

(* The fields of a wager have their types. *)
LEMMA WagerFields ==
  ASSUME NEW w \in Wagers
  PROVE  /\ w.prob \in 0..100 /\ w.implied \in Nat /\ w.edge \in 0..100 /\ w.fair \in 0..100
         /\ w.stake \in Stakes /\ w.ref \in References /\ w.status \in Conditions
BY DEF Wagers, Stakes, References, Conditions

(* What the Authority writes into a wager.                                 *)
Appraised(w, o, e) == [w EXCEPT !.implied = o, !.edge = e]
PricedAt(w, o, p) == [w EXCEPT !.implied = o, !.edge = p, !.fair = p]
Staked(w, s, c) == [w EXCEPT !.stake = s, !.status = c]

(* Appraising a wager changes its numbers, not its proof reference. *)
LEMMA Appraises ==
  ASSUME NEW w \in Wagers, NEW o \in Nat, NEW e \in 0..100
  PROVE  Appraised(w, o, e) \in Wagers /\ Appraised(w, o, e).ref = w.ref
BY Zenon DEF Wagers, Appraised

(* v is the wager w with its figures from odds o and probability p. *)
Priced(v, w, o, p) ==
  /\ v \in Wagers
  /\ v.prob = w.prob /\ v.implied = o /\ v.edge = p /\ v.fair = p /\ v.ref = w.ref

(* Pricing a wager leaves its probability and its proof reference. *)
LEMMA Prices ==
  ASSUME NEW w \in Wagers, NEW o \in Nat, NEW p \in 0..100
  PROVE  Priced(PricedAt(w, o, p), w, o, p)
BY Zenon DEF Wagers, PricedAt, Priced

(* Staking a wager leaves all but its stake and its status. *)
LEMMA TakesStake ==
  ASSUME NEW w \in Wagers, NEW s \in Stakes, NEW c \in Conditions
  PROVE  LET v == Staked(w, s, c) IN
         /\ v \in Wagers
         /\ v.prob = w.prob /\ v.implied = w.implied /\ v.edge = w.edge /\ v.fair = w.fair
         /\ v.stake = s /\ v.ref = w.ref /\ v.status = c
BY Zenon DEF Wagers, Stakes, Conditions, Staked

(* A wager without a bet is sound under any cap. *)
LEMMA BetsNothing ==
  ASSUME NEW w \in Wagers, NEW c
  PROVE  /\ NoBet(w) \in Wagers /\ NoBet(w).ref = w.ref /\ Sound(NoBet(w), c)
         /\ ~Positive(NoBet(w).stake) /\ NoBet(w).status = "NoBet"
<1>1. NoBet(w) = Staked(w, Nothing, "NoBet")
  BY Zenon DEF NoBet, Staked
<1>2. Nothing \in Stakes /\ ~Positive(Nothing)
  BY DEF Nothing, Positive, Stakes
<1>3. "NoBet" \in Conditions
  BY DEF Conditions
<1>4. /\ NoBet(w) \in Wagers /\ NoBet(w).ref = w.ref
      /\ NoBet(w).stake = Nothing /\ NoBet(w).status = "NoBet"
  BY <1>1, <1>2, <1>3, TakesStake
<1> QED BY <1>2, <1>4 DEF Sound

(* A positive Kelly stake is a fraction, and at most the cap. *)
LEMMA StakeSize ==
  ASSUME NEW p \in 1..99, NEW o \in Nat, o > 10, NEW c \in Nat, Positive(Stake(p, o, c))
  PROVE  /\ Stake(p, o, c) \in [num : Nat, den : Nat \ {0}]
         /\ AtMost(Stake(p, o, c), [num |-> c, den |-> 1])
<1> DEFINE n == (p * o - 1000) * c
           d == 4 * (100 * (o - 10))
           cap1 == [num |-> c, den |-> 1]
<1>1. Stake(p, o, c) = IF AtMost([num |-> n, den |-> d], cap1) THEN [num |-> n, den |-> d] ELSE cap1
  BY DEF Stake, Kelly
<1>2. n \in Int /\ d \in Nat \ {0}
  <2>1. p * o \in Int
    OBVIOUS
  <2>2. (p * o - 1000) * c \in Int
    BY <2>1
  <2> QED BY <2>2
<1>3. AtMost(cap1, cap1)
  BY DEF AtMost
<1> HIDE DEF n, d
<1>4. CASE AtMost([num |-> n, den |-> d], cap1)
  <2>1. Stake(p, o, c) = [num |-> n, den |-> d]
    BY <1>1, <1>4
  <2>2. n > 0
    BY <2>1 DEF Positive
  <2> QED BY <1>2, <1>4, <2>1, <2>2
<1>5. CASE ~AtMost([num |-> n, den |-> d], cap1)
  BY <1>1, <1>3, <1>5
<1> QED BY <1>4, <1>5

(* The status that the stake and the reference of a ruling give it.        *)
Ruled(r, ref) ==
  r.status = IF ~Positive(r.stake) THEN "NoBet"
             ELSE IF ref = "none" THEN "Debated" ELSE "ProofPassed"

(* The Authority's ruling is a sound wager with the reference it was given. *)
LEMMA AuthorityRules ==
  ASSUME NEW w \in Wagers, NEW o \in Nat, NEW c \in Nat
  PROVE  LET r == Adjudicate(w, o, c) IN
         r \in Wagers /\ Sound(r, c) /\ r.ref = w.ref /\ Ruled(r, w.ref)
<1> DEFINE r == Adjudicate(w, o, c)
           odd == Appraised(w, 0, 0)
           unpriced == Appraised(w, o, 0)
           priced == PricedAt(w, o, w.prob)
           stake == Stake(w.prob, o, c)
           condition == IF w.ref = "none" THEN "Debated" ELSE "ProofPassed"
<1> HIDE DEF priced, unpriced, odd, r, stake, condition
<1>1. w.prob \in 0..100 /\ 0 \in 0..100 /\ 0 \in Nat
  BY WagerFields
<1>2. unpriced \in Wagers /\ unpriced.ref = w.ref
  BY <1>1, Appraises DEF unpriced
<1>3. odd \in Wagers /\ odd.ref = w.ref
  BY <1>1, Appraises DEF odd
<1>4. /\ priced \in Wagers /\ priced.prob = w.prob /\ priced.implied = o
      /\ priced.edge = w.prob /\ priced.fair = w.prob /\ priced.ref = w.ref
  <2>1. Priced(PricedAt(w, o, w.prob), w, o, w.prob)
    BY <1>1, Prices
  <2> QED BY <2>1 DEF priced, Priced
<1>5. \/ o <= 10 /\ r = NoBet(odd)
      \/ r = NoBet(unpriced)
      \/ r = NoBet(priced)
      \/ /\ o > 10 /\ w.prob \in 1..99 /\ Positive(stake)
         /\ r = Staked(priced, stake, condition)
  <2>1. priced.ref = w.ref
    BY <1>4
  <2>2. ~(o <= 10) => o > 10
    OBVIOUS
  <2> QED BY <2>1, <2>2, Zenon DEF Adjudicate, Appraised, PricedAt, Staked,
                                   priced, unpriced, odd, r, stake, condition
<1>6. ASSUME NEW x \in Wagers, x.ref = w.ref, r = NoBet(x)
      PROVE  r \in Wagers /\ Sound(r, c) /\ r.ref = w.ref /\ Ruled(r, w.ref)
  BY <1>6, BetsNothing DEF Ruled
<1>7. CASE /\ o > 10 /\ w.prob \in 1..99 /\ Positive(stake)
           /\ r = Staked(priced, stake, condition)
  <2>1. stake \in Stakes /\ AtMost(stake, [num |-> c, den |-> 1]) /\ Positive(stake)
    BY <1>7, StakeSize DEF Stakes, stake
  <2>2. condition \in Conditions
    BY DEF Conditions, condition
  <2>4. /\ r \in Wagers
        /\ r.prob = w.prob /\ r.implied = o /\ r.edge = w.prob /\ r.fair = w.prob
        /\ r.stake = stake /\ r.ref = w.ref /\ r.status = condition
    BY <1>4, <1>7, <2>1, <2>2, TakesStake
  <2>5. stake.num \in Nat
    BY <2>1 DEF Stakes
  <2>6. FiguresHold(r)
    <3>1. /\ Checks(r).probability = (r.prob \in 1..99)
          /\ Checks(r).edge = (r.implied > 10 /\ Near(r.edge, r.prob))
          /\ Checks(r).fair = (r.prob > 0 => r.fair \in 1..99 /\ Near(r.fair, r.prob))
          /\ Checks(r).stake = (r.stake.num >= 0)
      BY Zenon DEF Checks
    <3>2. /\ r.prob \in 1..99
          /\ r.implied > 10 /\ Near(r.edge, r.prob)
          /\ r.fair \in 1..99 /\ Near(r.fair, r.prob)
          /\ r.stake.num >= 0
      BY <1>7, <2>4, <2>5 DEF Near, ConsistencyTol
    <3> QED BY <3>1, <3>2, Zenon DEF FiguresHold
  <2> QED BY <2>1, <2>4, <2>6 DEF Sound, Ruled, condition, r
<1> QED BY <1>2, <1>3, <1>4, <1>5, <1>6, <1>7 DEF r

(* A clamped probability is a probability, of neither an impossible nor a  *)
(* certain outcome.                                                        *)
LEMMA Clamps == ASSUME NEW x \in Int PROVE Clamp(1, x, 99) \in 0..100
<1>1. CASE x < 1
  BY <1>1 DEF Clamp
<1>2. CASE x > 99
  BY <1>2 DEF Clamp
<1>3. CASE ~(x < 1) /\ ~(x > 99)
  BY <1>3 DEF Clamp
<1> QED BY <1>1, <1>2, <1>3

(* The same of the ruling after the pundit, who may withdraw the bet.      *)
LEMMA PunditReacts ==
  ASSUME NEW w \in Wagers, NEW stance, NEW c \in Nat
  PROVE  LET r == React(w, stance, c) IN
         r \in Wagers /\ Sound(r, c) /\ r.ref = w.ref /\ Ruled(r, w.ref)
<1> DEFINE p == Clamp(1, w.prob + Nudge(stance), 99)
           v == Nudged(w, stance)
           u == Adjudicate(v, w.implied, c)
<1>1. p \in 0..100
  <2>1. w.prob \in 0..100
    BY WagerFields
  <2>2. Nudge(stance) \in Int
    BY DEF Nudge
  <2>3. w.prob + Nudge(stance) \in Int
    BY <2>1, <2>2
  <2> QED BY <2>3, Clamps
<1>2. v = [w EXCEPT !.prob = p]
  BY DEF Nudged
<1> HIDE DEF p, v
<1>3. v \in Wagers /\ v.ref = w.ref
  BY <1>1, <1>2, Zenon DEF Wagers
<1>4. w.implied \in Nat
  BY WagerFields
<1>5. u \in Wagers /\ Sound(u, c) /\ u.ref = w.ref /\ Ruled(u, w.ref)
  BY <1>3, <1>4, AuthorityRules
<1> HIDE DEF u
<1>6. React(w, stance, c) = IF stance = "no_bet" THEN NoBet(u) ELSE u
  BY Zenon DEF React, u, v
<1> QED BY <1>5, <1>6, BetsNothing DEF Ruled
-----------------------------------------------------------------------------
(* Types. *)

(* The fields of a receipt have their types. *)
LEMMA ReceiptFields ==
  ASSUME NEW r \in Receipts
  PROVE  /\ r.fixture \in Nat /\ r.seq \in Nat /\ r.keys \subseteq {"name", "number"}
         /\ r.status \in SimulationStatuses
         /\ r.proof \in BOOLEAN /\ r.root \in BOOLEAN /\ r.hash \in BOOLEAN /\ r.verified \in BOOLEAN
BY DEF Receipts

(* The empty receipt is a receipt. *)
LEMMA NoReceiptTyped == NoReceipt \in Receipts
BY DEF NoReceipt, Receipts, SimulationStatuses

(* What a step writes into a receipt.                                      *)
Opened(r, f, s, k) == [r EXCEPT !.fixture = f, !.seq = s, !.keys = k]
Arrived(r, s, k, p) == [r EXCEPT !.seq = s, !.keys = k, !.proof = p]
Marked(r, s) == [r EXCEPT !.status = s]
Failed(r, s, v) == [r EXCEPT !.status = s, !.verified = v]
Answered(r, s, p, o, h, v) ==
  [r EXCEPT !.status = s, !.proof = p, !.root = o, !.hash = h, !.verified = v]

(* What the proof fetch writes into a receipt leaves a receipt. *)
LEMMA ReceiptsTyped ==
  ASSUME NEW r \in Receipts
  PROVE  /\ \A f \in Nat, n \in Nat, k \in SUBSET {"name", "number"} : Opened(r, f, n, k) \in Receipts
         /\ \A n \in Nat, k \in SUBSET {"name", "number"}, p \in BOOLEAN : Arrived(r, n, k, p) \in Receipts
         /\ \A s \in SimulationStatuses : Marked(r, s) \in Receipts
         /\ \A s \in SimulationStatuses, v \in BOOLEAN : Failed(r, s, v) \in Receipts
<1>1. \A f \in Nat, n \in Nat, k \in SUBSET {"name", "number"} : Opened(r, f, n, k) \in Receipts
  BY Zenon DEF Receipts, Opened
<1>2. \A n \in Nat, k \in SUBSET {"name", "number"}, p \in BOOLEAN : Arrived(r, n, k, p) \in Receipts
  BY Zenon DEF Receipts, Arrived
<1>3. \A s \in SimulationStatuses : Marked(r, s) \in Receipts
  BY Zenon DEF Receipts, Marked
<1>4. \A s \in SimulationStatuses, v \in BOOLEAN : Failed(r, s, v) \in Receipts
  BY Zenon DEF Receipts, Failed
<1> QED BY <1>1, <1>2, <1>3, <1>4

(* What the sidecar's answer writes into a receipt leaves a receipt. *)
LEMMA AnsweredTyped ==
  ASSUME NEW r \in Receipts, NEW s \in SimulationStatuses, NEW p \in BOOLEAN, NEW o \in BOOLEAN,
         NEW h \in BOOLEAN, NEW v \in BOOLEAN
  PROVE  Answered(r, s, p, o, h, v) \in Receipts
BY Zenon DEF Receipts, Answered

(* What the proof service answers is a receipt. *)
LEMMA ResponsesTyped ==
  ASSUME NEW a \in SidecarResponses
  PROVE  a \in Receipts
<1>1. {"Passed", "Failed", "NotStarted"} \subseteq SimulationStatuses
  BY DEF SimulationStatuses
<1> DEFINE passed == [NoReceipt EXCEPT !.status = "Passed", !.verified = TRUE, !.proof = TRUE,
                                       !.root = TRUE, !.hash = TRUE]
           rejected == [NoReceipt EXCEPT !.status = "Failed", !.proof = TRUE, !.root = TRUE,
                                         !.hash = TRUE]
           rootless == [NoReceipt EXCEPT !.status = "Failed", !.proof = TRUE]
           idle == [NoReceipt EXCEPT !.status = "NotStarted", !.proof = TRUE]
<1>2. a \in {passed, rejected, rootless, idle}
  BY DEF SidecarResponses
<1>3. passed \in Receipts
  BY DEF NoReceipt, Receipts, SimulationStatuses
<1>4. rejected \in Receipts
  BY DEF NoReceipt, Receipts, SimulationStatuses
<1>5. rootless \in Receipts
  BY DEF NoReceipt, Receipts, SimulationStatuses
<1>6. idle \in Receipts
  BY DEF NoReceipt, Receipts, SimulationStatuses
<1> HIDE DEF passed, rejected, rootless, idle
<1> QED BY <1>2, <1>3, <1>4, <1>5, <1>6

(* The events of the ingest, the snapshots and the loop have their types.  *)
LEMMA NewEventsTyped ==
  /\ \A b \in Blocks : EventTypeOK(ParseBlock(b))
  /\ \A odds \in Snapshots \cup Moves, s \in BOOLEAN : EventTypeOK(SnapshotEvent(1, odds, s))
  /\ \A odds \in Moves : EventTypeOK(MoveEvent(1, odds))
<1>1. ASSUME NEW b \in Blocks
      PROVE  EventTypeOK(ParseBlock(b))
  <2> DEFINE e == ParseBlock(b)
  <2>1. b \in BlockType
    BY DecisionAssumption
  <2>2. /\ b.seq \in Nat /\ b.fixture \in Nat /\ b.quotes \in Seq(Quotes)
    BY <2>1 DEF BlockType
  <2>3. /\ e.kind = EventKind(b) /\ e.fixture = b.fixture /\ e.seq = b.seq
        /\ e.keys = StatKeys(b) /\ e.odds = ParseOdds(b) /\ e.proof = NoReceipt
    BY DEF ParseBlock
  <2>4. EventKind(b) \in Kinds
    BY DEF EventKind, Kinds
  <2>5. StatKeys(b) \subseteq {"name", "number"}
    BY DEF StatKeys
  <2>6. /\ DOMAIN ParseOdds(b) \subseteq Nat
        /\ \A i \in DOMAIN ParseOdds(b) : ParseOdds(b)[i] \in Quotes
    <3>1. /\ DOMAIN b.quotes \subseteq Nat
          /\ \A i \in DOMAIN b.quotes : b.quotes[i] \in Quotes
      BY <2>2
    <3> QED BY <3>1 DEF ParseOdds
  <2> HIDE DEF e
  <2> QED BY <2>2, <2>3, <2>4, <2>5, <2>6, NoReceiptTyped DEF EventTypeOK, e
<1>2. ASSUME NEW odds \in Snapshots \cup Moves, NEW s \in BOOLEAN
      PROVE  /\ EventTypeOK(SnapshotEvent(1, odds, s))
             /\ EventTypeOK(MoveEvent(1, odds))
  <2>1. odds \in Seq(Quotes)
    BY DecisionAssumption
  <2>2. DOMAIN odds \subseteq Nat /\ \A i \in DOMAIN odds : odds[i] \in Quotes
    BY <2>1
  <2>3. /\ SnapshotEvent(1, odds, s).kind \in {"Fixture", "OddsUpdate"}
        /\ SnapshotEvent(1, odds, s).fixture = 1 /\ SnapshotEvent(1, odds, s).seq = 0
        /\ SnapshotEvent(1, odds, s).keys = {"name"} /\ SnapshotEvent(1, odds, s).odds = odds
        /\ SnapshotEvent(1, odds, s).proof = NoReceipt
    BY DEF SnapshotEvent
  <2>4. EventTypeOK(SnapshotEvent(1, odds, s))
    BY <2>2, <2>3, NoReceiptTyped DEF EventTypeOK, Kinds
  <2>5. /\ MoveEvent(1, odds).kind = "OddsMove"
        /\ MoveEvent(1, odds).fixture = 1 /\ MoveEvent(1, odds).seq = 0
        /\ MoveEvent(1, odds).keys = {"name"} /\ MoveEvent(1, odds).odds = odds
        /\ MoveEvent(1, odds).proof = NoReceipt
    BY DEF MoveEvent, SnapshotEvent
  <2>6. EventTypeOK(MoveEvent(1, odds))
    BY <2>2, <2>5, NoReceiptTyped DEF EventTypeOK, Kinds
  <2> QED BY <2>4, <2>6
<1> QED BY <1>1, <1>2

(* A set of naturals that is not empty has a least member. *)
LEMMA LeastExists ==
  ASSUME NEW S, S \subseteq Nat, S # {}
  PROVE  Min(S) \in S
<1> DEFINE R == OpToRel(<, Nat)
<1>1. PICK m \in S : \A k \in S : <<k, m>> \notin R
  <2>1. IsWellFoundedOn(R, Nat)
    BY NatLessThanWellFounded
  <2> HIDE DEF R
  <2> QED BY <2>1, WFMin, Zenon
<1>2. ASSUME NEW k \in S
      PROVE  m <= k
  <2>1. k \in Nat /\ m \in Nat /\ <<k, m>> \notin R
    BY <1>1
  <2>2. ~(k < m)
    BY <2>1, Zenon DEF OpToRel
  <2> HIDE DEF R
  <2> QED BY <2>1, <2>2
<1>3. \E x \in S : \A y \in S : x =< y
  BY <1>2
<1> QED BY <1>3 DEF Min

(* The first quote of an outcome exists if any does, so its odds are a     *)
(* number.                                                                 *)
LEMMA OddsTyped ==
  ASSUME NEW e, EventTypeOK(e), NEW o \in Outcomes
  PROVE  OddsOf(e)[o] \in Nat
<1> DEFINE S == {i \in DOMAIN e.odds : e.odds[i].outcome = o}
<1>1. OddsOf(e)[o] = IF S # {} THEN e.odds[Min(S)].decimal ELSE 0
  BY DEF OddsOf
<1>2. S \subseteq Nat
  BY DEF EventTypeOK
<1>3. ASSUME S # {}
      PROVE  Min(S) \in S
  BY <1>2, <1>3, LeastExists
<1>4. \A i \in DOMAIN e.odds : e.odds[i].decimal \in Nat
  BY DEF EventTypeOK, Quotes
<1>5. CASE S # {}
  <2>1. Min(S) \in DOMAIN e.odds
    BY <1>3, <1>5
  <2>2. OddsOf(e)[o] = e.odds[Min(S)].decimal
    BY <1>1, <1>5
  <2> HIDE DEF S
  <2> QED BY <1>4, <2>1, <2>2
<1>6. CASE S = {}
  <2>1. OddsOf(e)[o] = 0
    BY <1>1, <1>6
  <2> QED BY <2>1
<1> QED BY <1>5, <1>6

(* A proposal is a wager with the reference it was made under. *)
LEMMA ProposedTyped ==
  ASSUME NEW p \in 0..100, NEW ref \in References
  PROVE  Proposed(p, ref) \in Wagers /\ Proposed(p, ref).ref = ref
<1>1. Nothing \in Stakes
  BY DEF Nothing, Stakes
<1> QED BY <1>1 DEF Proposed, Wagers, Stakes, References

-----------------------------------------------------------------------------
(* The invariant of the debate, with the types it rests on.                *)

(* A ruling of this round: it has the round's reference, and what it       *)
(* stakes is sound.                                                        *)
IsRuling(w) == w \in Wagers /\ w.ref = Ref /\ Ruled(w, Ref) /\ Sound(w, cap)

(* The ruling that stands is the first one, or what a pundit made of a     *)
(* first one that bet.                                                     *)
Standing ==
  /\ IsRuling(first) /\ IsRuling(ruling)
  /\ ruling = first \/ first.status # "NoBet"

RulingInv ==
  /\ pc \in Opening \cup {"propose"} => ruling = <<>>
  /\ pc = "react" => Standing /\ ruling = first
  /\ ruling # <<>> => Standing

(* A model that may still take a turn has one left.                        *)
TurnsInv ==
  /\ pc \in Opening => turns = 0
  /\ pc = "propose" => turns < ProposeTurns
  /\ pc = "react" => turns < ReactTurns

DInv == TypeOK /\ TurnsInv /\ RulingInv

(* The assumptions on the constants, spelled out. *)
LEMMA Parameters ==
  /\ ProposeTurns \in Nat \ {0} /\ ReactTurns \in Nat \ {0}
  /\ MaxRounds \in Nat /\ MaxFaults \in Nat /\ Caps \subseteq Nat
BY DecisionAssumption

(* The proof reference of the round is one of the references. *)
LEMMA RefTyped == Ref \in References
BY DEF Ref, References

(* No wager is on the table at the start. *)
LEMMA DebateStarts == Init => DInv
<1> SUFFICES ASSUME Init PROVE DInv
  OBVIOUS
<1>1. EventTypeOK(event)
  <2>1. /\ event.kind = "Fixture" /\ event.fixture = 1 /\ event.seq = 0 /\ event.keys = {"name"}
        /\ event.proof = NoReceipt /\ event.odds = <<>>
    BY DEF Init, SnapshotEvent
  <2> QED BY <2>1, NoReceiptTyped DEF EventTypeOK, Kinds
<1>2. TypeOK
  <2>1. /\ idl \in BOOLEAN /\ credentials \in BOOLEAN /\ cap \in Caps /\ pc = "idle"
        /\ track \in Tracks /\ receipt \in Receipts /\ answer \in Receipts /\ gate \in BOOLEAN
        /\ feed = {} /\ verdict = "none"
    BY NoReceiptTyped DEF Init, Tracks
  <2>2. /\ computed \in Distributions \cup {<<>>}
        /\ first \in Wagers \cup {<<>>} /\ ruling \in Wagers \cup {<<>>}
    BY DEF Init
  <2>3. /\ turns \in 0..ProposeTurns \cup 0..ReactTurns
        /\ rounds \in 0..MaxRounds /\ faults \in 0..MaxFaults
    BY Parameters DEF Init
  <2> QED BY <1>1, <2>1, <2>2, <2>3 DEF TypeOK
<1>3. pc = "idle" /\ ruling = <<>>
  BY DEF Init
<1> QED BY <1>2, <1>3 DEF DInv, TurnsInv, RulingInv, Opening

(* A round begins with an empty table. *)
LEMMA BeginDebate ==
  ASSUME DInv, NEW e \in KnownEvents, NEW t \in Tracks, Begin(e, t)
  PROVE  DInv'
<1>1. /\ pc' = "load" /\ event' = e /\ track' = t /\ receipt' = ReceiptFor(e)
      /\ turns' = 0 /\ computed' = <<>> /\ first' = <<>> /\ ruling' = <<>>
      /\ verdict' = "none" /\ gate' = FALSE /\ rounds < MaxRounds /\ rounds' = rounds + 1
      /\ idl' = idl /\ credentials' = credentials /\ cap' = cap
      /\ answer' = answer /\ feed' = feed /\ faults' = faults
  BY DEF Begin, config
<1>2. EventTypeOK(e)
  BY NewEventsTyped DEF KnownEvents, DInv, TypeOK
<1>3. ReceiptFor(e) \in Receipts
  <2>1. ReceiptFor(e) = IF e.shown THEN e.proof ELSE Opened(NoReceipt, e.fixture, e.seq, e.keys)
    BY DEF ReceiptFor, Opened
  <2>2. e.proof \in Receipts /\ e.fixture \in Nat /\ e.seq \in Nat /\ e.keys \in SUBSET {"name", "number"}
    BY <1>2 DEF EventTypeOK
  <2>3. TRUE \in BOOLEAN /\ "Passed" \in SimulationStatuses
    BY DEF SimulationStatuses
  <2>4. Opened(NoReceipt, e.fixture, e.seq, e.keys) \in Receipts
    BY <2>2, <2>3, NoReceiptTyped, ReceiptsTyped
  <2> QED BY <2>1, <2>2, <2>4
<1>4. rounds' \in 0..MaxRounds
  BY <1>1, Parameters DEF DInv, TypeOK
<1>5. TypeOK'
  <2>1. /\ idl' \in BOOLEAN /\ credentials' \in BOOLEAN /\ cap' \in Caps /\ pc' = "load"
        /\ answer' \in Receipts /\ faults' \in 0..MaxFaults
        /\ \A x \in feed' : EventTypeOK(x)
    BY <1>1 DEF DInv, TypeOK
  <2>2. EventTypeOK(event)' /\ \A x \in feed' : EventTypeOK(x)'
    BY <1>1, <1>2, <2>1 DEF EventTypeOK
  <2>3. receipt' \in Receipts /\ gate' \in BOOLEAN /\ verdict' = "none" /\ track' \in Tracks
    BY <1>1, <1>3
  <2>4. /\ computed' \in Distributions \cup {<<>>}
        /\ first' \in Wagers \cup {<<>>} /\ ruling' \in Wagers \cup {<<>>}
    BY <1>1
  <2>5. turns' \in 0..ProposeTurns \cup 0..ReactTurns
    BY <1>1, Parameters
  <2> QED BY <1>4, <2>1, <2>2, <2>3, <2>4, <2>5 DEF TypeOK
<1> QED BY <1>1, <1>5, Parameters DEF DInv, TurnsInv, RulingInv, Opening

(* A step before the debate that keeps the types of what it changes.       *)
LEMMA OpeningKeeps ==
  ASSUME DInv, pc \in Opening, pc' \in Opening \cup {"propose"},
         EventTypeOK(event'), \A e \in feed' : EventTypeOK(e),
         receipt' \in Receipts, answer' \in Receipts, gate' \in BOOLEAN, faults' \in 0..MaxFaults,
         UNCHANGED <<config, track, debate, outcome, rounds>>
  PROVE  DInv'
<1>1. UNCHANGED <<idl, credentials, cap, track, turns, computed, first, ruling, verdict, rounds>>
  BY DEF config, debate, outcome
<1>2. pc' \in {"load", "fetch", "refresh", "retry", "sidecar", "exiting", "gate", "propose"}
  BY DEF Opening
<1>3. TypeOK'
  BY <1>1, <1>2 DEF DInv, TypeOK, EventTypeOK
<1>4. turns = 0 /\ ruling = <<>>
  BY DEF DInv, TurnsInv, RulingInv
<1>5. TurnsInv'
  BY <1>1, <1>2, <1>4, Parameters DEF TurnsInv
<1>6. RulingInv'
  BY <1>1, <1>2, <1>4 DEF RulingInv
<1> QED BY <1>3, <1>5, <1>6 DEF DInv

(* Fetching the proof does not touch the table. *)
LEMMA FetchDebate ==
  ASSUME DInv,
         \/ Load \/ ProofArrives \/ TokenExpired \/ TokenRefreshed \/ FetchFails \/ SidecarAnswers
         \/ SidecarFails \/ SidecarExits
  PROVE  DInv'
<1>1. /\ receipt \in Receipts /\ answer \in Receipts /\ gate \in BOOLEAN
      /\ EventTypeOK(event) /\ (\A e \in feed : EventTypeOK(e)) /\ faults \in 0..MaxFaults
  BY DEF DInv, TypeOK
<1>2. /\ pc \in Opening /\ pc' \in Opening
      /\ UNCHANGED <<config, track, event, gate, feed, debate, outcome, rounds>>
  BY DEF Load, ProofArrives, TokenExpired, TokenRefreshed, FetchFails, SidecarAnswers, SidecarFails,
         SidecarExits, Opening
<1>3. faults' \in 0..MaxFaults
  <2>1. faults' = faults \/ Fails
    BY DEF Load, ProofArrives, TokenExpired, TokenRefreshed, FetchFails, SidecarAnswers,
           SidecarFails, SidecarExits
  <2> QED BY <1>1, <2>1, Parameters DEF Fails
<1>4. {TRUE, FALSE} \subseteq BOOLEAN /\ SimulationStatuses = {"NotStarted", "Passed", "Failed", "Unavailable"}
  BY DEF SimulationStatuses
<1>5. /\ event.seq \in Nat /\ {"number"} \in SUBSET {"name", "number"}
  BY <1>1 DEF EventTypeOK
<1>6. answer' \in Receipts
  <2>1. answer' = answer \/ answer' = NoReceipt \/ answer' \in SidecarResponses
    BY DEF Load, ProofArrives, TokenExpired, TokenRefreshed, FetchFails, SidecarAnswers, SidecarFails,
           SidecarExits
  <2> QED BY <1>1, <2>1, NoReceiptTyped, ResponsesTyped
<1>7. receipt' \in Receipts
  <2>1. CASE receipt' = receipt
    BY <1>1, <2>1
  <2>2. CASE ProofArrives
    <3>1. receipt' = Arrived(receipt, event.seq, {"number"}, TRUE)
      BY <2>2 DEF ProofArrives, Arrived
    <3> QED BY <1>1, <1>4, <1>5, <3>1, ReceiptsTyped
  <2>3. CASE FetchFails
    <3>1. receipt' = Marked(receipt, "Unavailable")
      BY <2>3 DEF FetchFails, Marked
    <3> QED BY <1>1, <1>4, <1>5, <3>1, ReceiptsTyped
  <2>4. CASE SidecarFails
    <3>1. receipt' = Failed(receipt, "Unavailable", FALSE)
      BY <2>4 DEF SidecarFails, Failed
    <3> QED BY <1>1, <1>4, <1>5, <3>1, ReceiptsTyped
  <2>5. CASE SidecarExits
    <3> DEFINE v == answer.verified /\ answer.proof /\ answer.root /\ answer.status = "Passed"
    <3>1. receipt' = Answered(receipt, answer.status, answer.proof, answer.root, answer.hash, v)
      BY <2>5 DEF SidecarExits, Merge, Answered
    <3>2. v \in BOOLEAN
      OBVIOUS
    <3> HIDE DEF v
    <3>3. /\ answer.status \in SimulationStatuses /\ answer.proof \in BOOLEAN
          /\ answer.root \in BOOLEAN /\ answer.hash \in BOOLEAN
      BY <1>1, ReceiptFields
    <3> QED BY <1>1, <3>1, <3>2, <3>3, AnsweredTyped
  <2>6. CASE Load \/ TokenExpired \/ TokenRefreshed \/ SidecarAnswers
    BY <2>1, <2>6 DEF Load, TokenExpired, TokenRefreshed, SidecarAnswers
  <2> QED BY <2>2, <2>3, <2>4, <2>5, <2>6
<1>8. EventTypeOK(event') /\ \A e \in feed' : EventTypeOK(e)
  BY <1>1, <1>2
<1>9. gate' \in BOOLEAN
  BY <1>1, <1>2
<1> QED BY <1>2, <1>3, <1>6, <1>7, <1>8, <1>9, OpeningKeeps

(* The gate decides whether there is a debate, and under which reference. *)
LEMMA GateDebate ==
  ASSUME DInv, IsEvent(event), CloseGate
  PROVE  DInv'
<1>1. /\ pc = "gate" /\ pc' = "propose" /\ gate' = GateReceipt(event, receipt)
      /\ event' = [event EXCEPT !.proof = receipt, !.shown = TRUE]
      /\ feed' = feed \cup {ProofEvent(receipt)}
      /\ UNCHANGED <<config, track, receipt, answer, debate, outcome, rounds, faults>>
  BY DEF CloseGate
<1>2. /\ receipt \in Receipts /\ answer \in Receipts
      /\ EventTypeOK(event) /\ (\A e \in feed : EventTypeOK(e)) /\ faults \in 0..MaxFaults
  BY DEF DInv, TypeOK
<1>3. EventTypeOK(event')
  <2>1. /\ event'.kind = event.kind /\ event'.fixture = event.fixture /\ event'.seq = event.seq
        /\ event'.keys = event.keys /\ event'.odds = event.odds /\ event'.proof = receipt
    BY <1>1 DEF IsEvent
  <2> QED BY <1>2, <2>1 DEF EventTypeOK
<1>4. EventTypeOK(ProofEvent(receipt))
  <2> DEFINE e == ProofEvent(receipt)
  <2>1. /\ e.kind = "ProofReceived" /\ e.fixture = receipt.fixture /\ e.seq = receipt.seq
        /\ e.keys = receipt.keys /\ e.odds = <<>> /\ e.proof = receipt
    BY DEF ProofEvent
  <2>2. receipt.fixture \in Nat /\ receipt.seq \in Nat /\ receipt.keys \subseteq {"name", "number"}
    BY <1>2, ReceiptFields
  <2> HIDE DEF e
  <2>3. EventTypeOK(e)
    BY <1>2, <2>1, <2>2 DEF EventTypeOK, Kinds
  <2> QED BY <2>3 DEF e
<1>5. gate' \in BOOLEAN
  BY <1>1 DEF GateReceipt
<1>6. \A e \in feed' : EventTypeOK(e)
  BY <1>1, <1>2, <1>4
<1>7. pc \in Opening
  BY <1>1 DEF Opening
<1>8. /\ receipt' \in Receipts /\ answer' \in Receipts /\ faults' \in 0..MaxFaults
      /\ pc' \in Opening \cup {"propose"}
  BY <1>1, <1>2
<1> QED BY <1>1, <1>3, <1>5, <1>6, <1>7, <1>8, OpeningKeeps

(* A step of the debate: the wagers are typed, the turn counted.           *)
LEMMA ArguingKeeps ==
  ASSUME DInv, pc' \in Arguing, computed' \in Distributions \cup {<<>>},
         first' \in Wagers \cup {<<>>}, ruling' \in Wagers \cup {<<>>},
         turns' \in 0..ProposeTurns \cup 0..ReactTurns,
         UNCHANGED <<config, event, track, receipt, answer, gate, outcome, feed, rounds, faults>>
  PROVE  TypeOK'
<1>1. UNCHANGED <<idl, credentials, cap, verdict>>
  BY DEF config, outcome
<1> QED BY <1>1 DEF DInv, TypeOK, EventTypeOK, Arguing

(* Every turn of the debate is lawful and leaves a sound wager. *)
LEMMA DebateDebate ==
  ASSUME DInv, DebateStep
  PROVE  DInv'
<1>0. /\ EventTypeOK(event) /\ cap \in Nat /\ computed \in Distributions \cup {<<>>}
      /\ first \in Wagers \cup {<<>>} /\ ruling \in Wagers \cup {<<>>}
      /\ turns \in 0..ProposeTurns \cup 0..ReactTurns
  BY Parameters DEF DInv, TypeOK
<1>1. /\ pc \in {"propose", "react"} /\ pc' \in Arguing
      /\ UNCHANGED <<config, event, track, receipt, answer, gate, outcome, feed, rounds, faults>>
  BY DEF DebateStep, DebateEnds, ProposerComputes, ProposerSubmits, PunditStalls, PunditRules, Arguing
<1>2. Ref' = Ref /\ cap' = cap
  BY <1>1 DEF Ref, config
<1>3. \A w : IsRuling(w)' <=> IsRuling(w)
  BY <1>2 DEF IsRuling
<1>4. pc' \notin Opening
  BY <1>1 DEF Arguing, Opening
<1>5. /\ pc = "propose" => ruling = <<>> /\ turns < ProposeTurns
      /\ pc = "react" => Standing /\ ruling = first /\ turns < ReactTurns
      /\ ruling # <<>> => Standing
  BY DEF DInv, RulingInv, TurnsInv
<1>6. CASE DebateEnds
  <2>1. pc' = "decide" /\ turns' = 0 /\ UNCHANGED <<computed, first, ruling>>
    BY <1>6 DEF DebateEnds
  <2>2. TypeOK'
    BY <1>0, <1>1, <2>1, ArguingKeeps, Parameters
  <2>3. ruling' # <<>> => Standing'
    BY <1>3, <1>5, <2>1 DEF Standing, IsRuling
  <2> QED BY <1>4, <2>1, <2>2, <2>3 DEF DInv, TurnsInv, RulingInv
<1>7. CASE ProposerComputes
  <2>1. /\ pc = "propose" /\ turns' = turns + 1 /\ computed' \in {computed} \cup Distributions
        /\ pc' = IF turns' = ProposeTurns THEN "decide" ELSE "propose"
        /\ UNCHANGED <<first, ruling>>
    BY <1>7 DEF ProposerComputes
  <2>2. turns' \in 0..ProposeTurns /\ (pc' = "propose" => turns' < ProposeTurns)
    BY <1>0, <1>5, <2>1, Parameters
  <2>3. TypeOK'
    BY <1>0, <1>1, <2>1, <2>2, ArguingKeeps
  <2>4. ruling' = <<>> /\ pc' # "react"
    BY <1>5, <2>1
  <2> QED BY <1>4, <2>2, <2>3, <2>4 DEF DInv, TurnsInv, RulingInv
<1>8. ASSUME NEW o \in Outcomes, ProposerSubmits(o)
      PROVE  DInv'
  <2>1. /\ computed' \in ({computed} \cup Distributions) \ {<<>>}
        /\ first' = Adjudicate(Proposed(computed'[o], Ref), OddsOf(event)[o], cap)
        /\ ruling' = first' /\ pc' = "react" /\ turns' = 0
    BY <1>8 DEF ProposerSubmits
  <2>2. computed' \in Distributions /\ computed'[o] \in 0..100
    BY <1>0, <2>1, DecisionAssumption
  <2>3. /\ Proposed(computed'[o], Ref) \in Wagers
        /\ Proposed(computed'[o], Ref).ref = Ref
    BY <2>2, RefTyped, ProposedTyped
  <2>4. OddsOf(event)[o] \in Nat
    BY <1>0, OddsTyped
  <2>5. IsRuling(first')
    BY <1>0, <2>1, <2>3, <2>4, AuthorityRules DEF IsRuling
  <2>6. TypeOK'
    BY <1>1, <2>1, <2>2, <2>5, ArguingKeeps, Parameters DEF IsRuling
  <2>7. IsRuling(first)' /\ IsRuling(ruling)'
    BY <1>2, <2>1, <2>5 DEF IsRuling
  <2> QED BY <1>4, <2>1, <2>6, <2>7, Parameters DEF DInv, TurnsInv, RulingInv, Standing
<1>9. CASE PunditStalls
  <2>1. /\ pc = "react" /\ turns' = turns + 1
        /\ pc' = IF turns' = ReactTurns THEN "decide" ELSE "react"
        /\ UNCHANGED <<computed, first, ruling>>
    BY <1>9 DEF PunditStalls
  <2>2. turns' \in 0..ReactTurns /\ (pc' = "react" => turns' < ReactTurns)
    BY <1>0, <1>5, <2>1, Parameters
  <2>3. TypeOK'
    BY <1>0, <1>1, <2>1, <2>2, ArguingKeeps
  <2>4. Standing' /\ ruling' = first'
    BY <1>2, <1>5, <2>1 DEF Standing, IsRuling
  <2> QED BY <1>4, <2>1, <2>2, <2>3, <2>4 DEF DInv, TurnsInv, RulingInv
<1>10. ASSUME NEW s \in {"endorse", "challenge", "no_bet", "other"}, PunditRules(s)
       PROVE  DInv'
  <2>1. /\ pc = "react" /\ first.status # "NoBet" /\ ruling' = React(first, s, cap)
        /\ pc' = "decide" /\ turns' = 0 /\ UNCHANGED <<computed, first>>
    BY <1>10 DEF PunditRules
  <2>2. IsRuling(first)
    BY <1>5, <2>1 DEF Standing
  <2>3. IsRuling(ruling')
    BY <1>0, <2>1, <2>2, PunditReacts DEF IsRuling
  <2>4. TypeOK'
    BY <1>0, <1>1, <2>1, <2>3, ArguingKeeps, Parameters DEF IsRuling
  <2>5. Standing'
    BY <1>2, <2>1, <2>2, <2>3 DEF Standing, IsRuling
  <2> QED BY <1>4, <2>1, <2>4, <2>5 DEF DInv, TurnsInv, RulingInv
<1> QED BY <1>6, <1>7, <1>8, <1>9, <1>10 DEF DebateStep

(* A decision leaves the table as the debate left it. *)
LEMMA DecideDebate ==
  ASSUME DInv, Decide
  PROVE  DInv'
<1>1. /\ pc = "decide" /\ pc' = "idle"
      /\ UNCHANGED <<config, event, track, receipt, answer, gate, debate, feed, rounds, faults>>
  BY DEF Decide
<1>2. verdict' \in {"Pass", "NeedsReview"}
  BY DEF Decide, RunVerdict
<1>3. UNCHANGED <<idl, credentials, cap, turns, computed, first, ruling>>
  BY <1>1 DEF config, debate
<1>4. TypeOK'
  BY <1>1, <1>2, <1>3 DEF DInv, TypeOK, EventTypeOK
<1>5. Ref' = Ref
  BY <1>1 DEF Ref
<1>6. ruling' # <<>> => Standing'
  BY <1>3, <1>5 DEF DInv, RulingInv, Standing, IsRuling
<1> QED BY <1>1, <1>4, <1>6 DEF DInv, TurnsInv, RulingInv, Opening

(* Every step keeps the debate's invariant. *)
LEMMA StepDebate == IInv /\ DInv /\ [Next]_vars => DInv'
<1> SUFFICES ASSUME IInv, DInv, [Next]_vars PROVE DInv'
  OBVIOUS
<1>1. CASE UNCHANGED vars
  <2>1. UNCHANGED <<idl, credentials, cap, pc, event, track, receipt, answer, gate, turns, computed,
                    first, ruling, verdict, feed, rounds, faults>>
    BY <1>1 DEF vars, config, debate, outcome
  <2>2. TypeOK'
    BY <2>1 DEF DInv, TypeOK, EventTypeOK
  <2>3. Ref' = Ref
    BY <2>1 DEF Ref
  <2>4. RulingInv'
    BY <2>1, <2>3 DEF DInv, RulingInv, Standing, IsRuling
  <2> QED BY <2>1, <2>2, <2>4 DEF DInv, TurnsInv
<1>2. CASE \E e \in KnownEvents, t \in Tracks : Begin(e, t)
  BY <1>2, BeginDebate
<1>3. CASE CloseGate
  BY <1>3, GateDebate DEF IInv, RoundInv
<1> QED BY <1>1, <1>2, <1>3, FetchDebate, DebateDebate, DecideDebate, Zenon DEF Next, DebateStep

(* The debate's invariant holds of every reachable state. *)
LEMMA DebateInvariant == Spec => []DInv
<1>1. Spec => []IInv
  BY Starts, StepKeeps, PTL DEF Spec
<1> QED BY <1>1, DebateStarts, StepDebate, PTL DEF Spec

-----------------------------------------------------------------------------
(* The desk's variables hold values of their types, the turns of its model *)
(* loops within their caps (mod.rs, llm_round.rs).                         *)
THEOREM DecisionTypes == Spec => []TypeOK
<1>1. DInv => TypeOK
  BY DEF DInv
<1> QED BY <1>1, DebateInvariant, PTL

(* The wager that leaves the debate (wager_agent.rs, pundit_agent.rs) is   *)
(* one the rules of the delegations know.                                  *)
THEOREM DebateIsLawful == Spec => []DebateFollowsRules
<1>1. ASSUME DInv
      PROVE  DebateFollowsRules
  <2> SUFFICES ASSUME ruling # <<>> PROVE DebateFollowsRules
    BY DEF DebateFollowsRules
  <2> DEFINE shape(w) == [id |-> rounds, status |-> w.status, proofRef |-> w.ref,
                          staked |-> Positive(w.stake)]
             b == Positive(first.stake)
             c == Positive(ruling.stake)
  <2>1. Standing
    BY <1>1 DEF DInv, RulingInv
  <2>2. /\ first.ref = Ref /\ Ruled(first, Ref) /\ ruling.ref = Ref /\ Ruled(ruling, Ref)
        /\ ruling = first \/ first.status # "NoBet"
    BY <2>1 DEF Standing, IsRuling
  <2>3. b \in BOOLEAN /\ c \in BOOLEAN
    BY DEF Positive
  <2>4. shape(first) = Rules!Adjudicate(rounds, Ref, b)
    BY <2>2 DEF Rules!Adjudicate, Ruled
  <2>5. shape(ruling) = Rules!Adjudicate(rounds, Ref, c)
    BY <2>2 DEF Rules!Adjudicate, Ruled
  <2>6. shape(first).id = rounds /\ shape(first).proofRef = Ref /\ shape(first).status = first.status
    BY <2>2
  <2>7. shape(ruling) \in Rules!PunditRulings(shape(first))
    <3>1. CASE ruling = first
      BY <3>1 DEF Rules!PunditRulings
    <3>2. CASE first.status # "NoBet"
      <4> HIDE DEF shape, c
      <4> QED BY <2>3, <2>5, <2>6, <3>2 DEF Rules!PunditRulings
    <3> QED BY <2>2, <3>1, <3>2
  <2> QED BY <2>3, <2>4, <2>7 DEF DebateFollowsRules
<1> QED BY <1>1, DebateInvariant, PTL

(* A stake that leaves the debate passes the guard's checks of its figures *)
(* (proof_guard.rs) and is within the cap of authority.rs.                 *)
THEOREM StakesHold == Spec => []StakesAreSound
<1>1. ASSUME DInv
      PROVE  StakesAreSound
  BY <1>1 DEF DInv, RulingInv, Standing, IsRuling, Sound, StakesAreSound
<1> QED BY <1>1, DebateInvariant, PTL

-----------------------------------------------------------------------------
(* A gate, a verdict, a resolution and a published receipt pass only for a *)
(* fixture and sequence the program accepted (validation.rs, mod.rs and    *)
(* policy.rs), whatever is attached to an event and whatever fails.        *)
THEOREM PassesAreEarned == Spec => []NoFakePass
<1>1. Spec => []IInv
  BY Starts, StepKeeps, PTL DEF Spec
<1>2. IInv => NoFakePass
  BY DEF IInv
<1> QED BY <1>1, <1>2, PTL

-----------------------------------------------------------------------------
(* What the delegations (AgentRound) may make of the wager of a round.     *)

(* The wager as the specialists see it. *)
Bet(w) == [id |-> rounds, status |-> w.status, proofRef |-> w.ref, staked |-> Positive(w.stake)]

(* Whatever becomes of its status on the way, the wager of a round is      *)
(* settled (settlement-agent) only if the program accepted the round's own *)
(* fixture and sequence, and passed by the guard (proof_guard.rs) only if  *)
(* besides its transaction hash is known and its stake is sound.           *)
OnlyAcceptedSettles ==
  ruling # <<>> =>
    \A v \in Rules!Wagers({rounds}) :
      Rules!SameBet(v, Bet(ruling)) =>
        /\ Rules!SettlementVerdict(v) = "settled" =>
             gate /\ receipt.fixture = event.fixture /\ <<receipt.fixture, receipt.seq>> \in proved
        /\ v.staked /\ v.status # "NoBet" /\ Rules!ProofGuardVerify(v).status = "ProofPassed" =>
             gate /\ receipt.hash /\ FiguresHold(ruling) /\ AtMost(ruling.stake, [num |-> cap, den |-> 1])

(* Together with VerifiedIsOwn and SettlementIsBacked of AgentRound: no    *)
(* bet is reported settled whose proof the program has not accepted.       *)
THEOREM SettlesOnlyAccepted == Spec => []OnlyAcceptedSettles
<1>1. ASSUME IInv, DInv
      PROVE  OnlyAcceptedSettles
  <2> SUFFICES ASSUME ruling # <<>>, NEW v \in Rules!Wagers({rounds}),
                      Rules!SameBet(v, Bet(ruling))
               PROVE  /\ Rules!SettlementVerdict(v) = "settled" =>
                           gate /\ receipt.fixture = event.fixture
                                /\ <<receipt.fixture, receipt.seq>> \in proved
                      /\ v.staked /\ v.status # "NoBet"
                           /\ Rules!ProofGuardVerify(v).status = "ProofPassed" =>
                           gate /\ receipt.hash /\ FiguresHold(ruling)
                                /\ AtMost(ruling.stake, [num |-> cap, den |-> 1])
    BY DEF OnlyAcceptedSettles
  <2>1. v.proofRef = ruling.ref /\ (v.staked <=> Positive(ruling.stake))
    BY Zenon DEF Rules!SameBet, Bet
  <2>2. ruling.ref = Ref /\ Sound(ruling, cap)
    BY <1>1 DEF DInv, RulingInv, Standing, IsRuling
  <2>3. gate => receipt.fixture = event.fixture /\ <<receipt.fixture, receipt.seq>> \in proved
    BY <1>1 DEF IInv, NoFakePass
  <2>4. (Ref # "none" => gate) /\ (Ref = "wellShaped" => gate /\ receipt.hash)
    BY DEF Ref
  <2>5. Rules!SettlementVerdict(v) = "settled" => v.proofRef # "none"
    BY DEF Rules!SettlementVerdict
  <2>6. ASSUME v.staked, v.status # "NoBet", v.proofRef # "wellShaped"
        PROVE  Rules!ProofGuardVerify(v).status = "ProofFailed"
    BY <2>6 DEF Rules!ProofGuardVerify, Rules!Wagers
  <2>7. Positive(ruling.stake) =>
          FiguresHold(ruling) /\ AtMost(ruling.stake, [num |-> cap, den |-> 1])
    BY <2>2, Zenon DEF Sound
  <2> QED BY <2>1, <2>2, <2>3, <2>4, <2>5, <2>6, <2>7
<1>2. Spec => []IInv
  BY Starts, StepKeeps, PTL DEF Spec
<1> QED BY <1>1, <1>2, DebateInvariant, PTL

-----------------------------------------------------------------------------
(* A round winds down.                                                     *)

(* How much of it is left at most: the steps to its end, the debate with   *)
(* every turn the models may take.                                         *)
Debating == ProposeTurns + ReactTurns

Left ==
  CASE pc = "idle"    -> 0
    [] pc = "decide"  -> 1
    [] pc = "react"   -> 1 + ReactTurns - turns
    [] pc = "propose" -> 1 + Debating - turns
    [] pc = "gate"    -> 2 + Debating
    [] pc = "exiting" -> 3 + Debating
    [] pc = "sidecar" -> 4 + Debating
    [] pc = "retry"   -> 5 + Debating
    [] pc = "refresh" -> 6 + Debating
    [] pc = "fetch"   -> 7 + Debating
    [] pc = "load"    -> 8 + Debating

(* Every step of a round that has begun, whatever TxLINE, the sidecar and  *)
(* the models answer, leaves less of it, and the last one gives it its     *)
(* verdict: no retry, refresh or turn of a model (llm_round.rs) starts     *)
(* anything over.  This is RoundIsDecided without its fairness.            *)
RoundsWindDown ==
  [][pc # "idle" => /\ Left' \in Nat /\ Left' < Left
                    /\ pc' = "idle" => verdict' # "none"]_vars

(* The values of Left. *)
LEMMA LeftIs ==
  /\ pc = "idle" => Left = 0
  /\ pc = "decide" => Left = 1
  /\ pc = "react" => Left = 1 + ReactTurns - turns
  /\ pc = "propose" => Left = 1 + Debating - turns
  /\ pc = "gate" => Left = 2 + Debating
  /\ pc = "exiting" => Left = 3 + Debating
  /\ pc = "sidecar" => Left = 4 + Debating
  /\ pc = "retry" => Left = 5 + Debating
  /\ pc = "refresh" => Left = 6 + Debating
  /\ pc = "fetch" => Left = 7 + Debating
  /\ pc = "load" => Left = 8 + Debating
BY DEF Left

(* The same of the next state. *)
LEMMA LeftIsNext ==
  /\ pc' = "idle" => Left' = 0
  /\ pc' = "decide" => Left' = 1
  /\ pc' = "react" => Left' = 1 + ReactTurns - turns'
  /\ pc' = "propose" => Left' = 1 + Debating - turns'
  /\ pc' = "gate" => Left' = 2 + Debating
  /\ pc' = "exiting" => Left' = 3 + Debating
  /\ pc' = "sidecar" => Left' = 4 + Debating
  /\ pc' = "retry" => Left' = 5 + Debating
  /\ pc' = "refresh" => Left' = 6 + Debating
  /\ pc' = "fetch" => Left' = 7 + Debating
  /\ pc' = "load" => Left' = 8 + Debating
BY DEF Left

(* The steps up to the debate each leave less. *)
LEMMA OpeningWinds ==
  ASSUME DInv,
         \/ Load \/ ProofArrives \/ TokenExpired \/ TokenRefreshed \/ FetchFails
         \/ SidecarAnswers \/ SidecarFails \/ SidecarExits \/ CloseGate
  PROVE  Left' \in Nat /\ Left' < Left /\ pc' # "idle"
<1>1. Debating \in Nat /\ turns = 0
  <2>1. pc \in Opening
    BY DEF Load, ProofArrives, TokenExpired, TokenRefreshed, FetchFails, SidecarAnswers,
           SidecarFails, SidecarExits, CloseGate, Opening
  <2> QED BY <2>1, Parameters DEF DInv, TurnsInv, Debating
<1>2. CASE CloseGate
  <2>1. pc = "gate" /\ pc' = "propose" /\ turns' = turns
    BY <1>2 DEF CloseGate, debate
  <2>2. Left = 2 + Debating /\ Left' = 1 + Debating - turns'
    BY <2>1, LeftIs, LeftIsNext
  <2> QED BY <1>1, <2>1, <2>2
<1>3. CASE \/ Load \/ ProofArrives \/ TokenExpired \/ TokenRefreshed \/ FetchFails
           \/ SidecarAnswers \/ SidecarFails \/ SidecarExits
  <2>1. \/ pc = "load" /\ pc' \in {"fetch", "gate"}
        \/ pc = "fetch" /\ pc' \in {"sidecar", "refresh", "gate"}
        \/ pc = "refresh" /\ pc' \in {"retry", "gate"}
        \/ pc = "retry" /\ pc' \in {"sidecar", "gate"}
        \/ pc = "sidecar" /\ pc' \in {"exiting", "gate"}
        \/ pc = "exiting" /\ pc' = "gate"
    BY <1>3 DEF Load, ProofArrives, TokenExpired, TokenRefreshed, FetchFails, SidecarAnswers,
                SidecarFails, SidecarExits
  <2> QED BY <1>1, <2>1, LeftIs, LeftIsNext
<1> QED BY <1>2, <1>3

(* A turn of the debate leaves a turn less, or ends it. *)
LEMMA DebateWinds ==
  ASSUME DInv, DebateStep
  PROVE  Left' \in Nat /\ Left' < Left /\ pc' # "idle"
<1>1. /\ ProposeTurns \in Nat \ {0} /\ ReactTurns \in Nat \ {0} /\ turns \in Nat
      /\ pc = "propose" => turns < ProposeTurns
      /\ pc = "react" => turns < ReactTurns
  BY Parameters DEF DInv, TypeOK, TurnsInv
<1>2. \/ pc = "propose" /\ pc' = "propose" /\ turns' = turns + 1 /\ turns' # ProposeTurns
      \/ pc = "propose" /\ pc' = "react" /\ turns' = 0
      \/ pc = "react" /\ pc' = "react" /\ turns' = turns + 1 /\ turns' # ReactTurns
      \/ pc \in {"propose", "react"} /\ pc' = "decide"
  BY DEF DebateStep, DebateEnds, ProposerComputes, ProposerSubmits, PunditStalls, PunditRules
<1>3. CASE pc = "propose" /\ pc' = "propose" /\ turns' = turns + 1 /\ turns' # ProposeTurns
  BY <1>1, <1>3, LeftIs, LeftIsNext DEF Debating
<1>4. CASE pc = "propose" /\ pc' = "react" /\ turns' = 0
  BY <1>1, <1>4, LeftIs, LeftIsNext DEF Debating
<1>5. CASE pc = "react" /\ pc' = "react" /\ turns' = turns + 1 /\ turns' # ReactTurns
  BY <1>1, <1>5, LeftIs, LeftIsNext
<1>6. CASE pc \in {"propose", "react"} /\ pc' = "decide"
  BY <1>1, <1>6, LeftIs, LeftIsNext DEF Debating
<1> QED BY <1>2, <1>3, <1>4, <1>5, <1>6

(* A round that has begun has a number of steps left that each of its own  *)
(* reduces, down to its verdict.                                           *)
THEOREM RoundsRunDown == Spec => RoundsWindDown
<1>1. ASSUME DInv, Next, pc # "idle"
      PROVE  Left' \in Nat /\ Left' < Left /\ (pc' = "idle" => verdict' # "none")
  <2>1. CASE \E e \in KnownEvents, t \in Tracks : Begin(e, t)
    BY <1>1, <2>1 DEF Begin
  <2>2. CASE Decide
    <3>1. pc = "decide" /\ pc' = "idle" /\ verdict' \in {"Pass", "NeedsReview"}
      BY <2>2 DEF Decide, RunVerdict
    <3>2. Left = 1 /\ Left' = 0
      BY <3>1, LeftIs, LeftIsNext
    <3> QED BY <3>1, <3>2
  <2> QED BY <1>1, <2>1, <2>2, OpeningWinds, DebateWinds, Zenon DEF Next, DebateStep
<1>2. DInv /\ [Next]_vars =>
        [pc # "idle" => /\ Left' \in Nat /\ Left' < Left
                        /\ pc' = "idle" => verdict' # "none"]_vars
  BY <1>1
<1> QED BY <1>2, DebateInvariant, PTL DEF Spec, RoundsWindDown

-----------------------------------------------------------------------------
(* What a stake is worth.                                                  *)

(* A quarter of the Kelly fraction of the cap. *)
Quarter(p, o, c) == [num |-> Kelly(p, o).num * c, den |-> 4 * Kelly(p, o).den]

(* What is staked has an edge at its own figures and is that quarter of    *)
(* the fraction they give: never the cap, whatever the clamp is for.       *)
Sized(r, c) ==
  Positive(r.stake) =>
    HasEdge(r.prob, r.implied) /\ r.stake = Quarter(r.prob, r.implied, c)

(* With a cap above zero no edge goes without a stake: none is rounded off. *)
Taken(r, c) ==
  r.implied > 10 /\ r.prob \in 1..99 /\ HasEdge(r.prob, r.implied) /\ c > 0
    => Positive(r.stake)

(* The figures of the ruling that stands belong together (authority.rs,    *)
(* pundit_agent.rs): it is sized by its own probability, nudged or not;    *)
(* the pundit has moved that by three points at most and left the odds     *)
(* alone; and the Authority bet wherever there was an edge.                *)
StakesFollowFigures ==
  /\ first # <<>> => Sized(first, cap) /\ Taken(first, cap)
  /\ ruling # <<>> =>
       /\ first # <<>> /\ Sized(ruling, cap)
       /\ ruling.implied = first.implied /\ ruling.prob - first.prob \in -3..3

(* Products keep an order, and have a sign. *)
LEMMA Products ==
  ASSUME NEW k \in Int, NEW m \in Int, NEW c \in Nat
  PROVE  /\ k <= m => k * c <= c * m
         /\ k > 0 /\ c > 0 => k * c > 0
<1>1. ASSUME k <= m PROVE k * c <= c * m
  <2>1. (m - k) * c >= 0
    BY <1>1
  <2>2. (m - k) * c = c * m - k * c
    OBVIOUS
  <2> QED BY <2>1, <2>2
<1> QED BY <1>1

(* The clamp of authority.rs cannot bite, and an edge is never too small.  *)
LEMMA StakeIsAQuarter ==
  ASSUME NEW p \in 1..99, NEW o \in Nat, o > 10, NEW c \in Nat
  PROVE  /\ Stake(p, o, c) = Quarter(p, o, c)
         /\ HasEdge(p, o) /\ c > 0 => Positive(Stake(p, o, c))
<1> DEFINE x == p * o
           k == x - 1000
           m == 4 * (100 * (o - 10))
<1>1. x \in Int /\ x <= 99 * o
  <2>1. (99 - p) * o >= 0
    OBVIOUS
  <2>2. (99 - p) * o = 99 * o - p * o
    OBVIOUS
  <2> QED BY <2>1, <2>2
<1>2. /\ Kelly(p, o).num = k /\ 4 * Kelly(p, o).den = m
      /\ k \in Int /\ m \in Int
  BY <1>1 DEF Kelly
<1>3. k <= m
  <2> HIDE DEF x
  <2> QED BY <1>1
<1> HIDE DEF k, m
<1>4. k * c <= c * m
  BY <1>2, <1>3, Products
<1>5. AtMost([num |-> k * c, den |-> m], [num |-> c, den |-> 1])
  BY <1>2, <1>4 DEF AtMost
<1>6. Stake(p, o, c) = [num |-> k * c, den |-> m]
  BY <1>2, <1>5, Zenon DEF Stake
<1>7. HasEdge(p, o) => k > 0
  <2>1. (p - 2) * o = x - 2 * o
    BY DEF x
  <2> HIDE DEF x
  <2> QED BY <1>1, <2>1 DEF HasEdge, MinEdge, k
<1>8. k > 0 /\ c > 0 => k * c > 0
  BY <1>2, Products
<1> QED BY <1>2, <1>6, <1>7, <1>8 DEF Quarter, Positive

(* The Authority stakes what the figures it writes down are worth. *)
LEMMA AuthoritySizes ==
  ASSUME NEW w \in Wagers, NEW o \in Nat, NEW c \in Nat
  PROVE  LET r == Adjudicate(w, o, c) IN
         /\ Sized(r, c) /\ Taken(r, c) /\ r.prob = w.prob
         /\ r.implied = o \/ (o <= 10 /\ r.implied = 0)
<1> DEFINE r == Adjudicate(w, o, c)
           odd == Appraised(w, 0, 0)
           unpriced == Appraised(w, o, 0)
           priced == PricedAt(w, o, w.prob)
           stake == Stake(w.prob, o, c)
           condition == IF w.ref = "none" THEN "Debated" ELSE "ProofPassed"
<1> HIDE DEF priced, unpriced, odd, r, stake, condition
<1>1. w.prob \in 0..100 /\ 0 \in 0..100 /\ 0 \in Nat
  BY WagerFields
<1>2. /\ unpriced \in Wagers /\ unpriced.prob = w.prob /\ unpriced.implied = o
      /\ odd \in Wagers /\ odd.prob = w.prob /\ odd.implied = 0
      /\ priced \in Wagers /\ priced.prob = w.prob /\ priced.implied = o
  BY <1>1, Zenon DEF Wagers, Appraised, PricedAt, unpriced, odd, priced
<1>3. priced.ref = w.ref
  BY <1>1, Zenon DEF Wagers, PricedAt, priced
<1>4. \/ o <= 10 /\ r = NoBet(odd)
      \/ w.prob \notin 1..99 /\ r = NoBet(unpriced)
      \/ /\ o > 10 /\ w.prob \in 1..99
         /\ ~HasEdge(w.prob, o) \/ ~Positive(stake)
         /\ r = NoBet(priced)
      \/ /\ o > 10 /\ w.prob \in 1..99 /\ HasEdge(w.prob, o) /\ Positive(stake)
         /\ r = Staked(priced, stake, condition)
  <2>1. ~(o <= 10) => o > 10
    OBVIOUS
  <2> QED BY <1>3, <2>1, Zenon DEF Adjudicate, Appraised, PricedAt, Staked,
                                   priced, unpriced, odd, r, stake, condition
<1>5. ASSUME NEW x \in Wagers, r = NoBet(x)
      PROVE  r.prob = x.prob /\ r.implied = x.implied /\ ~Positive(r.stake)
  BY <1>5 DEF NoBet, Wagers, Positive, Nothing
<1>6. CASE o <= 10 /\ r = NoBet(odd)
  <2>1. r.prob = w.prob /\ r.implied = 0 /\ ~Positive(r.stake)
    BY <1>2, <1>5, <1>6
  <2> QED BY <1>6, <2>1 DEF Sized, Taken, r
<1>7. CASE w.prob \notin 1..99 /\ r = NoBet(unpriced)
  <2>1. r.prob = w.prob /\ r.implied = o /\ ~Positive(r.stake)
    BY <1>2, <1>5, <1>7
  <2> QED BY <1>7, <2>1 DEF Sized, Taken, r
<1>8. CASE /\ o > 10 /\ w.prob \in 1..99
           /\ ~HasEdge(w.prob, o) \/ ~Positive(stake)
           /\ r = NoBet(priced)
  <2>1. r.prob = w.prob /\ r.implied = o /\ ~Positive(r.stake)
    BY <1>2, <1>5, <1>8
  <2>2. HasEdge(w.prob, o) /\ c > 0 => Positive(stake)
    BY <1>8, StakeIsAQuarter DEF stake
  <2>3. Sized(r, c)
    BY <2>1 DEF Sized
  <2>4. Taken(r, c)
    BY <1>8, <2>1, <2>2, Zenon DEF Taken
  <2> QED BY <2>1, <2>3, <2>4 DEF r
<1>9. CASE /\ o > 10 /\ w.prob \in 1..99 /\ HasEdge(w.prob, o) /\ Positive(stake)
           /\ r = Staked(priced, stake, condition)
  <2>1. stake = Quarter(w.prob, o, c)
    BY <1>9, StakeIsAQuarter DEF stake
  <2>2. r.prob = w.prob /\ r.implied = o /\ r.stake = stake
    BY <1>2, <1>9 DEF Staked, Wagers
  <2>3. Sized(r, c)
    BY <1>9, <2>1, <2>2, Zenon DEF Sized
  <2>4. Taken(r, c)
    BY <1>9, <2>2, Zenon DEF Taken
  <2> QED BY <2>2, <2>3, <2>4 DEF r
<1> QED BY <1>4, <1>6, <1>7, <1>8, <1>9

(* A clamped nudge moves a probability by three points at most. *)
LEMMA NudgesAreSmall ==
  ASSUME NEW q \in 1..99, NEW n \in -3..3
  PROVE  Clamp(1, q + n, 99) \in 0..100 /\ Clamp(1, q + n, 99) - q \in -3..3
<1>1. CASE q + n < 1
  BY <1>1 DEF Clamp
<1>2. CASE q + n > 99
  BY <1>2 DEF Clamp
<1>3. CASE ~(q + n < 1) /\ ~(q + n > 99)
  BY <1>3 DEF Clamp
<1> QED BY <1>1, <1>2, <1>3

(* What the nudge writes into a wager.                                     *)
Renewed(w, p) == [w EXCEPT !.prob = p]

(* A wager with another probability is a wager. *)
LEMMA Renews ==
  ASSUME NEW w \in Wagers, NEW p \in 0..100
  PROVE  Renewed(w, p) \in Wagers /\ Renewed(w, p).prob = p
BY Zenon DEF Wagers, Renewed

(* The pundit's ruling on a bet keeps its odds, moves its probability by   *)
(* three points at most and is sized anew; withdrawn, it stakes nothing.   *)
LEMMA PunditSizes ==
  ASSUME NEW w \in Wagers, NEW stance, NEW c \in Nat, w.implied > 10, w.prob \in 1..99
  PROVE  LET r == React(w, stance, c) IN
         /\ Sized(r, c) /\ r.implied = w.implied /\ r.prob - w.prob \in -3..3
<1> DEFINE p == Clamp(1, w.prob + Nudge(stance), 99)
           v == Nudged(w, stance)
           u == Adjudicate(v, w.implied, c)
           r == React(w, stance, c)
<1>1. p \in 0..100 /\ p - w.prob \in -3..3
  <2>1. Nudge(stance) \in -3..3
    BY DEF Nudge
  <2> QED BY <2>1, NudgesAreSmall
<1>2. v = Renewed(w, p)
  BY DEF Nudged, Renewed
<1> HIDE DEF p, v
<1>3. v \in Wagers /\ v.prob = p
  BY <1>1, <1>2, Renews
<1>4. w.implied \in Nat /\ ~(w.implied <= 10)
  BY WagerFields
<1>5. u \in Wagers
  BY <1>3, <1>4, AuthorityRules
<1>6. Sized(u, c) /\ u.prob = p /\ u.implied = w.implied
  BY <1>3, <1>4, AuthoritySizes
<1> HIDE DEF u
<1>7. r = NoBet(u) \/ r = u
  BY Zenon DEF React, u, v
<1>8. CASE r = NoBet(u)
  <2>1. NoBet(u).prob = u.prob /\ NoBet(u).implied = u.implied
    BY <1>5, Zenon DEF NoBet, Wagers
  <2>2. Sized(r, c)
    BY <1>5, <1>8, BetsNothing, Zenon DEF Sized
  <2> HIDE DEF r
  <2>3. r.prob = p /\ r.implied = w.implied
    BY <1>6, <1>8, <2>1
  <2> QED BY <1>1, <2>2, <2>3 DEF r
<1>9. CASE r = u
  <2> HIDE DEF r
  <2> QED BY <1>1, <1>6, <1>9 DEF r
<1> QED BY <1>7, <1>8, <1>9

(* A step that rules on nothing changes no figure. *)
LEMMA FiguresStand ==
  ASSUME StakesFollowFigures, UNCHANGED <<cap, first, ruling>>
  PROVE  StakesFollowFigures'
BY DEF StakesFollowFigures, Sized, Taken

(* Every step keeps the figures together. *)
LEMMA FiguresKept == DInv /\ StakesFollowFigures /\ [Next]_vars => StakesFollowFigures'
<1> SUFFICES ASSUME DInv, StakesFollowFigures, [Next]_vars PROVE StakesFollowFigures'
  OBVIOUS
<1>1. CASE UNCHANGED vars
  BY <1>1, FiguresStand DEF vars, config, debate
<1>2. CASE \E e \in KnownEvents, t \in Tracks : Begin(e, t)
  <2>1. first' = <<>> /\ ruling' = <<>>
    BY <1>2 DEF Begin
  <2> QED BY <2>1 DEF StakesFollowFigures
<1>3. CASE \/ Load \/ ProofArrives \/ TokenExpired \/ TokenRefreshed \/ FetchFails
           \/ SidecarAnswers \/ SidecarFails \/ SidecarExits \/ CloseGate
  <2>1. UNCHANGED <<config, debate>>
    BY <1>3 DEF Load, ProofArrives, TokenExpired, TokenRefreshed, FetchFails, SidecarAnswers,
                SidecarFails, SidecarExits, CloseGate
  <2> QED BY <2>1, FiguresStand DEF config, debate
<1>4. CASE DebateEnds \/ ProposerComputes \/ PunditStalls \/ Decide
  <2>1. UNCHANGED <<config, first, ruling>>
    BY <1>4 DEF DebateEnds, ProposerComputes, PunditStalls, Decide, debate
  <2> QED BY <2>1, FiguresStand DEF config
<1>5. cap \in Nat
  BY Parameters DEF DInv, TypeOK
<1>6. ASSUME NEW o \in Outcomes, ProposerSubmits(o)
      PROVE  StakesFollowFigures'
  <2> DEFINE w == Proposed(computed'[o], Ref)
  <2>1. /\ computed' \in ({computed} \cup Distributions) \ {<<>>} /\ cap' = cap
        /\ first' = Adjudicate(w, OddsOf(event)[o], cap) /\ ruling' = first'
    BY <1>6 DEF ProposerSubmits, config
  <2>2. computed' \in Distributions /\ EventTypeOK(event)
    BY <2>1 DEF DInv, TypeOK
  <2>3. computed'[o] \in 0..100
    BY <2>2, DecisionAssumption
  <2>4. w \in Wagers /\ OddsOf(event)[o] \in Nat
    BY <2>2, <2>3, RefTyped, ProposedTyped, OddsTyped
  <2> HIDE DEF w
  <2>5. Sized(first', cap) /\ Taken(first', cap) /\ first'.prob = w.prob
    BY <1>5, <2>1, <2>4, AuthoritySizes
  <2>6. first'.prob - first'.prob \in -3..3
    BY <2>4, <2>5, WagerFields
  <2>7. Sized(first', cap') /\ Taken(first', cap')
    BY <2>1, <2>5
  <2> QED BY <2>1, <2>6, <2>7, <1>6 DEF StakesFollowFigures, ProposerSubmits
<1>7. ASSUME NEW s \in {"endorse", "challenge", "no_bet", "other"}, PunditRules(s)
      PROVE  StakesFollowFigures'
  <2>1. /\ pc = "react" /\ first.status # "NoBet" /\ ruling' = React(first, s, cap)
        /\ first' = first /\ cap' = cap
    BY <1>7 DEF PunditRules, config
  <2>2. IsRuling(first) /\ ruling = first
    BY <2>1 DEF DInv, RulingInv, Standing
  <2>3. first # <<>>
    <3>1. first \in Wagers /\ "prob" \in DOMAIN first
      BY <2>2 DEF IsRuling, Wagers
    <3> QED BY <3>1
  <2>4. first.implied > 10 /\ first.prob \in 1..99
    <3>1. Positive(first.stake)
      BY <2>1, <2>2, Zenon DEF IsRuling, Ruled
    <3>2. FiguresHold(first)
      BY <2>2, <3>1, Zenon DEF IsRuling, Sound
    <3>3. Checks(first).probability = (first.prob \in 1..99)
          /\ Checks(first).edge = (first.implied > 10 /\ Near(first.edge, first.prob))
      BY Zenon DEF Checks
    <3> QED BY <3>2, <3>3, Zenon DEF FiguresHold
  <2>5. /\ Sized(ruling', cap) /\ ruling'.implied = first.implied
        /\ ruling'.prob - first.prob \in -3..3
    BY <1>5, <2>1, <2>2, <2>4, PunditSizes DEF IsRuling
  <2>6. Sized(first, cap) /\ Taken(first, cap)
    BY <2>3 DEF StakesFollowFigures
  <2>7. /\ Sized(ruling', cap') /\ Sized(first', cap') /\ Taken(first', cap') /\ first' # <<>>
        /\ ruling'.implied = first'.implied /\ ruling'.prob - first'.prob \in -3..3
    BY <2>1, <2>3, <2>5, <2>6
  <2> QED BY <2>7 DEF StakesFollowFigures
<1> QED BY <1>1, <1>2, <1>3, <1>4, <1>6, <1>7, Zenon DEF Next

(* No round of the desk stakes its cap, or finds an edge and stakes        *)
(* nothing (authority.rs): the clamp and the kelly-rounded-to-zero exit of *)
(* adjudicate are never taken under a cap above zero.                      *)
THEOREM StakesAreQuarters == Spec => []StakesFollowFigures
<1>1. Init => StakesFollowFigures
  BY DEF Init, StakesFollowFigures
<1> QED BY <1>1, FiguresKept, DebateInvariant, PTL DEF Spec

-----------------------------------------------------------------------------
(* Features that no event of the desk reaches.                             *)

(* The strongest band and the bonus it earns (decision.rs, policy.rs) are  *)
(* for a score that no kind of event has: the highest is a goal's 80.      *)
LEMMA NothingIsCritical ==
  ASSUME NEW e
  PROVE  /\ SeverityBand(DeriveFeatures(e).severity) # "Critical"
         /\ SeverityBonus(SeverityBand(DeriveFeatures(e).severity)) \in {0, 3}
<1> DEFINE x == Severity(e.kind)
<1>1. x \in {80, 78, 72, 64, 70, 35}
  BY DEF Severity
<1>2. DeriveFeatures(e).severity = x
  BY DEF DeriveFeatures
<1> HIDE DEF x
<1>3. SeverityBand(x) \in {"High", "Medium", "Low"}
  BY <1>1 DEF SeverityBand
<1>4. SeverityBonus(SeverityBand(x)) \in {0, 3}
  BY <1>3 DEF SeverityBonus
<1> QED BY <1>2, <1>3, <1>4
=============================================================================
