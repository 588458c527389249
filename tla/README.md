# Formal models of the TxODDS agent desk

TLA+ modules, TLC configurations and TLAPS proofs for the Rust part of this
repository: a Tauri desktop process that turns sharp odds movements into
wagers, the CoralOS specialists it delegates to, and the background agents of
the arena. Every definition of a module is translated from the source lines
that `PROJECT.json` maps it to; paths below are relative to `src/`.

    tlc -workers 2 -config OneRound.cfg MCAgentRound.tla   # check one run
    tlapm AgentRound_proofs.tla                            # check the proofs

## 1. Inventory of the system

| Part | Source | State it keeps | Operations |
|---|---|---|---|
| Agent round | `native/src/services/agent/runtime/` | `DesktopState.coralos_session_id`; per call: the `LiveSession`, the wager, the verified wager, the handoff's outcome | `run_match_intelligence_round`: obtain a session, debate, prove, decide, hand off, publish, persist |
| Decision round | `agent/runtime/{mod,signal,decision,events}.rs`, `services/proof/`, `agent-core/src/{features,policy}.rs` | per call: event, receipt, debate, signal, decision, verdict; the proof events published | derive the signal, fetch and validate a receipt, argue a wager, decide |
| Wager rules | `agent/authority.rs`, `agent/wager_agent.rs`, `agent/pundit_agent.rs`, `crates/agent-core/src/proof_guard.rs` | none | `adjudicate`, `propose_wager`, `react_to_wager`, `run_checks`/`verify` |
| CoralOS console | `native/src/services/coralos/` | sessions and threads on coral-server | `ensure_session_with_override`, `send_live_message`, `publish_run`, `wait_for_message` |
| Specialists | `crates/coral-client`, `crates/agents/{proof-guard,settlement,fan-pundit}-agent`, `crates/agents/trading-specialist` | step counter; the mention in hand | wait for a mention, handle, reply |
| Autonomous loop | `services/autonomous.rs` | last odds and last trigger per fixture, in memory | poll every fixture, run a round inline on a sharp move, at most one per hour and fixture |
| Arena | `crates/agents/{match-intelligence,contrarian,arena-coordinator}`, `agent-core/src/{arena,safety}.rs` | position logs on disk; seen/settled keys and budget in memory; a status snapshot in atomics | record a position, settle completed fixtures, score, publish the status |
| Sharp-movement detector | `crates/agents/sharp-movement-detector` | signal log on disk, seen keys, previous odds, open signals | poll, have an agent assess what moved, append once per 5-minute bucket, fill in later odds |
| TxLINE ingest | `services/txline/ingest.rs`, `commands/txline.rs` | the one background task; per stream its last SSE id; the replay files | start, stop, connect, reconnect, parse, record, emit |
| Authentication | `commands/auth.rs`, `services/user_store.rs` | pending challenges (at most 64); profiles and the one remembered session in sled | issue, redeem, register, delete, remember, restore, sign out |
| Payments | `commands/payments.rs`, `services/solana_pay.rs` | payment intents in the ledger; watches of the sidecar | create, watch, verify, list |
| Ledger | `services/ledger/store.rs`, `agent/runtime/persistence.rs` | SQLite tables | upserts, inserts, one replacing transaction |
| Backtest | `services/backtest.rs` | rows in the ledger | parse windows of odds, find the sharp moves, settle a follow and a fade of each |
| Chain clients | `services/chain/{rpc,yellowstone}.rs` | the sidecar process and its channel | RPC, observe a settlement, follow the sidecar's lines |
| Venice tools and prompts | `crates/rig-venice` | none | a tool-calling loop with a cap; the tools |
| Webview | `ui/` | presentation | invoke the commands |

### How the parts interact

* The **autonomous loop** and the **user's command** call the same
  `run_match_intelligence_round` in the same process, concurrently. They share
  the persisted session id, hence one CoralOS session with a thread per round.
* A **round** talks to a specialist only through coral-server: it posts a
  message that mentions the agent and polls the session's transcript every
  500 ms, up to 30 s, for a message with the right sender, verb and wager id.
* A **specialist** is a process of the session. It holds one mention at a time,
  and exits when it has counted `max_steps` of them.
* The **recorders** append to files the **coordinator** reads; nothing else
  connects them. The **status** that the desktop shows is a set of atomics.
* The **ingest task** writes events to the replay files, then emits them to the
  webview, which may send one back as the trigger of a round. The round
  **publishes** the receipt it validated as an event of the same kind.
* **Rounds**, **replays** and **payments** write to one ledger, behind one
  mutex. A replay replaces its rows in a transaction; a round's rows are
  statements of their own.
* Of a **payment** the webview sees the event, the ledger holds the status, the
  sidecar watches the chain, and a verification asks it.

### What is hard here, and what must be true

`PROJECT.json` lists every hazard at its line. In outline:

* *Interleaving.* Two rounds read the persisted session id before their first
  await and write it after; each must still stay in one session
  (`OneSessionPerRound`) and never take the other's verdict for its own
  (`VerifiedIsOwn`, `SettlementIsBacked`). A task is aborted and another stored
  in its slot in two steps, and two calls may be in between (`SingleFeed`, which
  does not hold: section 6). Two replays are computed without the lock under which
  they are stored, so the older may come last (`LedgerPromise`). Two verifications read `Pending`,
  await the chain and both store (`KeepsLedgerPromise`).
* *Timeouts and late answers.* A gate closed on a timeout stays closed though
  the verdict arrives a moment later (`FailClosedGate`, `ImplementsWagerGate`).
  A sidecar may answer and not exit, and a model may not answer at all: nothing
  bounds these waits, and what may eventually happen is stated beside them
  (`RoundEnds`, `RoundIsDecided`, `CatchesUp`, `NoFixtureStarves`).
* *Half-done requests.* A POST that reports failure may have taken effect
  (`VerdictsAnswerRequests`, `FailClosedGate`).
* *Order of writing and telling.* When an event is on the screen its lines are on
  disk or have failed to get there (`EmittedWasRecorded`), the place in the stream advances before the block
  is handled (`ResumesWithoutGaps`), an intent is stored before it is announced
  (`KeepsLedgerPromise`), a command's answer is durable (`AnsweredIsSafe`).
* *Crashes.* The session, its queue and its agents disappear between any two
  steps (`RoundEnds`, `StaleSessionHeals`); a process dies between two writes of
  a command (`ImplementsRememberedWallet`), between two rows of a run
  (`RunsHoldTogether`), in the middle of a line or of a character
  (`LoggedOnceUnlessTorn`).
* *What a process remembers and what its log does.* A recorder's last odds and
  the coordinator's settled set die with the process, the logs do not: no move
  may be recorded twice (`MovesRecordedOnce`), and whatever is settled again
  must get the result it had (`ImplementsBettingBook`). The detector reads its
  keys back but not its odds (`MovesDoNotOverlap`). The autonomous loop
  forgets both when it restarts (`OneRoundPerHour`, `MovesTriggerOnce`).
* *A veto that is not asked for.* Settlement is delegated whatever the gate said
  (`SettlesWhatPassed`, which does not hold: section 6).
* *Limits.* The mention beyond a specialist's cap is consumed and never
  answered (`DelegationAnswered` names that exception). A recorder checks its
  budget once per step and spends it once per request (`OvershootBounded`). A
  full table of challenges evicts one that a wallet may be signing
  (`NonceUsedOnce`).
* *Two processes, one feed.* The recorders poll at times of their own, so what
  one sees as a move the other may see split or reversed; on a move both see,
  exactly one must win (`OneSideWins`). In a replay they cannot differ, and
  every pair splits (`PairsSplit`).
* *A scoreboard in five atomics.* It is stored and loaded field by field without
  a lock (`StatusFollowsScore`).
* *Trust that travels.* A receipt passes from TxLINE over the webview into a
  round, and from a round back: nothing may pass that the program did not
  accept (`NoFakePass`).
* *Two models under one rule.* Whatever the models call and in whatever order,
  what stands obeys the Authority (`DebateFollowsRules`, `StakesAreSound`).
* *Partial results.* A detail that fails, or shows no result yet, is passed
  over; its positions must be settled later (`EventuallySettled`). So with
  a fixture's odds (`CatchesUp`, `NoFixtureStarves`).

## 2. The modules

| Module | What it is |
|---|---|
| `WagerRules` | The decisions each party takes on a wager, as operators. |
| `WagerGate` | Abstract specification: what the desk promises about a wager, with no sessions, messages or processes. |
| `AgentRound` | The rounds, coral-server as they use it, and the four specialists; its properties, and the refinement to `WagerGate`. |
| `Signals`, `WagerMath` | Pure operators: from a TxLINE block to a decision; the arithmetic of a wager. |
| `DecisionRound` | What a round decides: receipt and validation, debate, signal, decision, verdict. |
| `ArenaBoard` | What the arena's processes share: the feed (external) and the position logs. |
| `ArenaRecorders` | match-intelligence and contrarian: polling, comparing, recording, budget, restarts. |
| `ArenaCoordinator` | arena-coordinator: the poll loop, settlement, scoreboard, status mentions, restarts. |
| `BettingBook` | Abstract specification: what the arena promises of its contest, with no polls, requests or restarts. |
| `Arena` | All three processes and the feed together, what must hold across them, and the refinement to `BettingBook`. |
| `Detector` | sharp-movement-detector: polling, assessment, the log, open signals, restarts. |
| `AutonomousLoop` | The live-trigger loop. |
| `Feed` | The ingest task, its commands and its two streams. |
| `RememberedWallet` | Abstract specification: what the desk promises of profiles and the remembered wallet. |
| `UserStore`, `Auth` | The sled store; the commands on it and the challenges, and the refinement to `RememberedWallet`. |
| `Backtest` | Pure operators: the replay of a fixture. |
| `LedgerPromise` | Abstract specification: what the desk's database promises the webview, with no locks, staged rows or crashes. |
| `LedgerStore`, `Payments` | The ledger with rounds and replays writing to it; payments on top, sharing its lock and its faults, and the refinement to `LedgerPromise`. |
| `MCAgentRound`, `MCArenaCoordinator`, `MCArena`, `MCFeed`, `MCAuth`, `MCPayments`, `MCDetector`, `MCAutonomousLoop`, `MCDecisionRound` | The instances TLC checks. |
| `AgentRound_proofs`, `Arena_proofs`, `Auth_proofs`, `Payments_proofs`, `AutonomousLoop_proofs`, `Feed_proofs`, `DecisionRound_proofs`, `Detector_proofs` | Theorems, for every value of the constants. |

Operators commented "Slip:" are plausible mistakes in the operator that follows.
No specification uses them; putting one in the place of its operator shows that
a property notices (`PROJECT.json`, "mutants").

### WagerRules, WagerMath, Signals

In `WagerRules` a wager is reduced to what decisions depend on: its id (one
fresh UUID per round, so the round names it), its status, its `proof_ref`
(absent, of the shape `is_valid_proof_ref` accepts, or of another shape), and
whether it is *staked*. `Adjudicate` returns a stake only with an edge above
`min_edge`, so the two figures that settlement and proof-guard test separately
are one Boolean. `PunditRulings` is `react_to_wager`, which may leave the
ruling, withdraw the bet or have it adjudicated again; `ProofGuardVerify`,
`SettlementVerdict`, `PunditStances` and `PunditEcho` are the specialists'
handlers; `FailClosed` is the function of that name.

`WagerMath` does the same decisions with their figures: implied probability,
edge, the capped quarter-Kelly stake, the pundit's nudge and the guard's
checks. Probabilities are in hundredths, odds in tenths, and a fraction is a pair
compared by cross-multiplication, so nothing rounds and floating-point error is left
out. `DebateFollowsRules` says that `WagerRules` is a sound abstraction of it.

`Signals` reads a TxLINE block as the ingest does (which kind of event, which
quotes survive, which keys of the payload are numbers), derives features and the
signal with its severity, and applies the policy. Scores are in hundredths.

### AgentRound

| Variable | Code |
|---|---|
| `consoleEnabled`, `track` | `config.coralos_console_enabled`; the track of each round: chosen at the start, then fixed |
| `pc` | the await at which a call of `run_match_intelligence_round` stands |
| `persisted`, `override` | `DesktopState.coralos_session_id`, and the copy a round made of it before its first await |
| `live` | the session of the round's `LiveSession` (`None` is `NoSession`) |
| `wager`, `verified` | the proposal sent to proof-guard; `verified_wager` |
| `outcome` | the handoff's `status`, and (for `TradeVerdictIsOwn` only) the thread of the message it was read from |
| `created`, `up`, `log`, `unseen` | coral-server: sessions made, sessions alive, messages, mentions not yet delivered |
| `busy`, `steps` | a specialist's mention in hand and its `StepCounter` |
| `faults` | failures so far (bound `MaxFaults`) |

Each action is one stretch of code between two awaits with all the changes it
makes. `SessionOpened`/`SessionRefused` are the two outcomes of
`ensure_session_with_override`, including a session created whose thread was
not. `BeginRound`, `EnsureOk`, `EnsureFailed` are `mod.rs:45-115`;
`LazyEnsureOk` is the session a delegation opens for itself when the round has
none. `SendProofFailed` and `SendHandoffFailed` cover a request that failed
before and one that failed after it took effect. `Replies` is `poll_once`: it
looks in the whole session, not in the round's thread. `Receive`, `StopAtCap`,
`Reply`, `ReplyLost`, `LoseMention` are the loop of `coral_client::run`. A round's
transcript mentions proof-guard twice, where it asks for the proof and where it
delegates the wager (`ProofMentions`), and its track's specialist once, and each of
these mentions counts against the cap of the agent it reaches.

coral-server is not in the repository: `Post`, `Fresh`, `Queue` and
`SessionLost` are modelled from how the code uses it and marked external.

The messages are a set. This is exact and not an approximation of a sequence
here: no send is retried, so agent, kind and thread name one message, and the
reader's "first match" over threads listed in the server's order is any match.

`WagerGate` says that a wager is proposed once per round, that the guard attests
what was proposed, that the gate closes once, on an attestation of this round's
wager or on a veto, that settlement rules only on what a gate closed on, with a
reference, and that "settled" is reported only on such a ruling. It does not say
that the gate passed: a vetoed wager is ruled on too, and may be settled.
`AgentRound` maps `proposed` to `wager`, `gate` to `verified`, `attested` and
`rulings` to the verdicts in `log`, and `result` to `outcome`.
`ImplementsWagerGate` is `Gate!Spec` as a property of `AgentRound`.

### DecisionRound

| Variable | Code |
|---|---|
| `idl`, `credentials`, `cap` | the configuration: is there an IDL, are there TxLINE credentials, the stake cap; fixed at the start |
| `pc`, `event`, `track` | where the round stands; `context.event`, `context.track` |
| `receipt`, `answer` | `proof_receipt`; the sidecar's response until it is merged |
| `gate` | `proof_gate.pass` |
| `turns`, `computed` | completions the running tool loop has requested; what its tool last returned |
| `first`, `ruling` | the Authority's ruling, and the one that stands after the pundit |
| `decision`, `verdict` | `maybe_decision`, `run.verdict` |
| `feed` | proof events published by the round, which a later round may be given |
| `proved` | external: fixtures and sequences the txoracle program has accepted |

`Begin` takes any event the desk can be sent: a block the ingest has parsed, a
fixture snapshot of the webview, a sharp move of the autonomous loop, a published
proof. `Load` to `SidecarExits` are the receipt's way: fetched with
one refresh of the token, attached when the fetch fails, validated by the
sidecar, merged when it exits. The direct path of `validation.rs:139-152`, which
takes an attached receipt's raw value for the payload to validate, is not a step:
no event has such a value, since what `receipt_for_run` stores as `raw` names its
source at the top and has a payload at most inside its `txlineProof`, where
`has_validation_shape` does not look. `DebateEnds`, `ProposerComputes`,
`ProposerSubmits`, `PunditStalls`, `PunditRules` let either model call its tools in
any order until its turns are spent. `Decide` derives signal, policy, decision and
verdict and publishes.

### The arena: ArenaBoard, ArenaRecorders, ArenaCoordinator, Arena

| Variable | Code |
|---|---|
| `odds`, `finished`, `winner` | the feed: the odds each selection has shown, the fixtures listed as finished, the winner a detail page names (external) |
| `book` | the lines of the two position logs |
| `rpc`, `todo` | where a recorder's `agent_step` stands; the live fixtures it has yet to ask odds for |
| `prev` | `prev_odds`; an index into `odds`, so that a property can tell a move from another between the same prices |
| `calls`, `steps`; `ccalls`, `csteps` | `BudgetGuard.tool_calls`, `StepCounter.steps` of each process |
| `life` | restarts of a recorder; with `steps` it stands for a position's UUID |
| `cpc`, `asking`, `results`, `loaded` | where `coordinator_step` stands; details to fetch; fixtures with a result; `all_positions` |
| `settled`, `score`, `settlements` | the settled set and `ArenaScore` in memory; the settlement log on disk |
| `status`, `unstored`, `reply` | `ArenaStatusShared`; the fields `publish_status` has yet to store; the fields a mention has loaded |
| `lifeStart` | where in `settlements` the present process began (for `ScoreMatchesLog`) |

A recorder's step is `BeginStep` (safety check, cap), `FetchFixtures`,
then one `FetchOdds` per live fixture: the code awaits between them, and the
feed and the other processes move on meanwhile. `FetchOdds` is everything the
code does between two awaits: compare, append, remember. A snapshot may leave
selections out; that it quotes none twice is an assumption about the feed, which
is not in the repository: the code would take two rows of one selection for a
move, on every poll. `RecorderFails` may
leave any part of one fixture's appends done; `RecorderRestarts` keeps the logs
only. `Sharp` combines the threshold and the confidence gate in integers.

`SettlePosition` is one turn of the coordinator's loop. `StoreField` and
`LoadField` take the fields in any order: all five are `Ordering::Relaxed`.
`PositionAppears` stands for a recorder when the coordinator is checked alone;
`Arena` puts the recorders in its place.

`BettingBook` knows positions taken, one result per fixture, and verdicts. A
batch of positions is on moves later than all its side had taken, whoever
takes the other side of a move takes the other direction, and a verdict is on
a position taken and by the posted result. A position may be taken after its
fixture has its result: nobody looks. `Arena` maps `taken` to `book`,
`result` to `winner` and `verdicts` to the entries of `settlements`, in which a
restart only repeats what is there; `ImplementsBettingBook` is `Book!Spec`.

### Detector

| Variable | Code |
|---|---|
| `shown`, `bucket` | external: prices shown; the clock in periods of five minutes |
| `dpc`, `todo`, `rows` | where `detector_step` stands; fixtures to fetch; the snapshot being worked through, the row the agent is asked about and the period in which it was asked |
| `prev`, `seen`, `open` | `prev_odds`, `seen_idempotency`, `open_signals` |
| `unchecked` | the open signals `update_open_signals` has yet to look at |
| `log`, `cut` | the lines of the signal log; its last line lacks the newline |
| `blind` | for `LoggedOnceUnlessTorn`: this process could not read the log when it began |

A snapshot may leave selections out (`FetchOdds`). Of a row, `PassOver` makes nothing
(unchanged, new or already seen), or the agent is asked (`Ask`), under the key of the
period in which it is, and answers when it does: `Dismiss` (its verdict is not
sharp), `LogSignal` or `LogFails` (which leaves a whole line without its newline, a
part of one, or nothing). The agent is a *script*: the tool calls of
each of its turns, of which `RunToolLoop` takes as many as the cap of the loop
allows and `AssessMovement` the verdict that stood. A line appended to a torn
one is glued to it and neither can be read back. A part that ends inside a character
is not text, and `read_to_string` then refuses the file: `LoadSeen` is empty, as it is
when reading fails. `Track` is one open signal of
`update_open_signals`, which appends another line of the same id.

### AutonomousLoop

| Variable | Code |
|---|---|
| `market`, `time` | external: prices shown; `Instant::now` in ticks |
| `enabled` | `DesktopState.autonomous_enabled` |
| `lpc`, `todo` | where the loop stands; fixtures of the window not yet polled |
| `lastSeen`, `lastTriggered` | the two maps of those names |
| `rounds`, `life` | the rounds triggered, for the properties; starts of the process |
| `turned` | for `MovesTriggerOnce`: outcomes that a snapshot has put back to an older price |

`FetchWindow` lists any fixtures, `PollQuietly`, `TriggerRound` and `PollFails` are
the outcomes of one fixture's poll, and a round is under way from `TriggerRound`
to `RoundReturns`, while the market and the switch move on. A snapshot may quote an
outcome not at all, several times, of which the latest counts, or without its
newest row: `latest_per_outcome` compares the rows of one snapshot and nothing with
the last poll, so the baseline (`Baseline`) may go back.

### Feed

| Variable | Code |
|---|---|
| `slot`, `caller` | `DesktopState.txline_task`; a caller of `start_txline` between spawning and storing |
| `task` | an ingest task: unused, running, `dying` (aborted, not yet at an await), gone |
| `stream` | per task and stream: where it stands, `lastId`, blocks received and worked off, the file in hand, what it emitted |
| `pool` | lines handed to the blocking pool, which an abort does not recall |
| `disk`, `failed` | lines written; lines given up, for want of a directory or an open file or because the write failed |
| `shown` | the events emitted, and by which task |

A stream connects (`Connect`, `Accepted`, `Unauthorized` with one
`RefreshGuestJwt`), receives blocks in chunks, and works each off by `TakeBlock`,
`OpenReplay` and `LineWritten`, file by file, the last of which emits
(`EmitEvent`). `Disconnected` is any end of a connection. A block is an event with an
id, one without, or one that does not parse; an event whose `fixture_id` is 0
(`Fixtureless`) has no file but `default.jsonl`. Recording is best-effort
(`ingest.rs:573`): `DirectoryFails` and `OpenFails` go on without a file, and the
result of a write (`PoolWrites`, `PoolFails`) is dropped.

### UserStore and Auth

| Variable | Code |
|---|---|
| `kvs` | the trees a crash may leave: the states since the last flush, the present one last |
| `todo`, `holds` | the writes left of the command under way; it holds the store's mutex |
| `restored` | the webview has asked for the saved session since the launch |
| `pending`, `issued` | `pending_challenges`; challenges issued |
| `calls`, `used` | `request_auth` calls between the two mutexes; verified signatures per nonce |

`IssueAuthChallenge` evicts what `Evicted` allows when the table is full,
`ReadNonce` and `ConsumeNonce` are the two halves of a redemption, `FinishAuth`
stores the profile. `Write`, `Flush` and `Crash` are sled's. `RememberedWallet`
says that a wallet has at most one profile and that at most one wallet is
remembered, only while it has a profile; `durable`, the first of `kvs`, maps to it.

### Backtest, LedgerStore, Payments

| Variable | Code |
|---|---|
| `lock` | who holds the ledger over several statements |
| `rows`, `round` | rows as run and table; per round its place, whether it has a decision, the row it inserts next |
| `backtest`, `staged`, `replays` | the table of settlements; the table as the open transaction sees it; the replays computed |
| `due`, `writing` | the replays computed and not stored yet; the one whose transaction is open |
| `intent`, `create`, `verify` | the stored status of an intent; where its creation and its verifications stand |
| `chain` | external: the transaction with the reference, failed ones included |
| `announced`, `fresh` | the events emitted; those since the last start |
| `sidecar`, `channel`, `watching` | the Yellowstone process; watches not yet written to it; what it watches |

`Backtest` computes what `LedgerStore` stores: `Ticks` and `Signals` of a history
of windows, and the positions of `ReplayFixture`, in thousandths. A round inserts
its rows one statement at a time (`PersistRun`, `InsertRow`, `InsertRowFails`),
a replay in one transaction (`ReplaceBegins` to `ReplaceCommits`), which it opens
some time after it was computed (`ComputeReplay`), with others in between. An intent is
stored, then watched, then announced; a verification reads it, awaits the RPC,
stores and emits. A crash keeps `rows`, `backtest`, `intent` and `chain`.

`LedgerPromise` knows the replays in the order they were made, the table, and of
each intent its status, what was told of it and its transaction. The table of a
fixture is replaced in one instant, by a replay that was computed and had not been
stored before: of two that overlap the one stored last stays, be it the older. An
intent is confirmed only once its transaction has landed, which happens only after the
intent was shown; what is told is what is stored then. `Payments` maps these to
`replays`, `due`, `backtest`, `intent`, `announced` and `chain`, and
`KeepsLedgerPromise` is `Promise!Spec`.

## 3. The runs

| Run | Shows | Bounds |
|---|---|---|
| `OneRound` | the gate fails closed; no verdict unasked or twice; a round ends or waits for its ruling for ever; a session id the server lost is cleared | 1 round on any track, console on or off, any attestation, and a second one that stays before its ruling; one configured session; 1 failure, cap of 2 mentions |
| `TwoRounds` | two settlement rounds, in one session or two, never mix up wagers nor split over sessions, leave no delegation behind, and implement `WagerGate` | 2 rounds, 1 failure, cap of 2 mentions, 3 sessions |
| `Settle` | the scoreboard is its log, counted; the status follows and never leads; what can be settled is | both sides of a move, partial names, 1 failure or restart, 2 steps, 3 calls |
| `Contest` | no move recorded twice; the budget exceeded by one step's requests at most; of the two sides of a move exactly one wins; the arena implements `BettingBook` | 1 selection, 2 odds shown, 2 failures or restarts, budget 3, 3 recorder steps, 1 coordinator step per life |
| `Feed` | recorded, or given up, before emitted; no gap or repeat over reconnects; every event arrives | 1 task with both its streams: an event, one without an id or a fixture, junk and an event without a fixture; and one event; 2 faults |
| `Auth` | a nonce serves once and the table keeps its cap; what was answered is durable; the commands implement `RememberedWallet` | 2 keys, 2 names, cap 2, 3 challenges, 4 commands, 2 crashes |
| `Ledger` | no row of a run precedes it; replays never mix and their pairs split; what is shown is watched; ledger and payments implement `LedgerPromise` | 1 round, 1 intent under 2 verifications, a fixture replayed twice with any of 4 histories, 1 fault, 1 crash |
| `Detector` | a signal is logged again only if its line is torn or the log could not be read; signals are about different moves; the detector catches up, stops or waits for the model for ever | 1 selection showing up to 4 of 2 prices, 2 buckets, 7 scripts against a cap of 2 turns, 3 failures or restarts |
| `Autonomous` | one round per fixture and hour; no move triggers twice unless the feed went back; no fixture is starved by a round that ends | 2 fixtures, 1 outcome, 3 prices shown, interval and time of 2 ticks, 1 failure |
| `Decision` | nothing passes that the program did not accept; the debate obeys its rules; the figures are sound; every round is decided or waits for ever | 2 rounds one after the other; 6 blocks, 2 snapshots, a move and what the first round publishes; 3 distributions, cap 0 or 1, 6 and 3 turns, 2 failures |
| `TradeVerdict` | a divergence of section 6 (a violation is expected) | 2 trading rounds, no failure |
| `VetoedWager` | another (a violation is expected) | 2 settlement rounds, no failure |

### Why the bounds are enough

*Rounds* interact only through the session, the persisted id and a specialist's
queue, and every property compares a round with itself or with one other: two
rounds produce every pairing. Session ids suffice for every round plus every
failed creation (`SessionsSuffice`, an assumption TLC evaluates; that no more are ever
created is the theorem `SessionsAreBounded`), so no run stops for want of an id. One failure loses a session, halves a
request or drops a reply at any point; several at once are left to the theorems. A cap
of two makes `StopAtCap` happen while requests are pending: one round sends
proof-guard a delegation and two transcript mentions.

`TwoRounds` leaves out orders that none of its properties can tell apart. A
transcript mention is answered with nothing and nobody waits for it, so it is taken as
soon as its agent is free, and done with at once (`ChatterAtOnce`); whatever else is
ready then commutes with it, or could have come before the mention was posted. And a
history is not continued once all that is left of it is transcript mentions
(`NotOver`). In `OneRound` the second round only opens its session and then waits for
its ruling for ever (`OtherStaysQuiet`); the states beyond are cut off, which leaves
out no step that is fair, so that what is left has the liveness it would have.

In the *arena* a recorder keeps one price per selection and selections do not
touch one another, so one selection is enough. Two failures stop a recorder and
start it again, or restart it twice. The budget ends in the middle of a step.
`Contest` takes first what neither reads nor writes anything of another process
(`OwnStepsFirst`): the start of a step, the settling of positions that have been
loaded, and the storing of the status fields, in one order, since nobody reads them
in this instance. A kill may still come at any of these points; a recorder's, at rest,
is no different from one a step later. `Settle` has every order of them. The
coordinator of `Settle` has two steps: one that meets the positions part-way
and one after it; a restart gives it another life with the log of the first.

In the *detector* four prices make three moves, one of which can be undone and seen
again in the same bucket; a fault tears a line, another restarts the process, a
third tears the next one. With two selections the instance is too large; there
the theorems stand alone.

In the *feed* one task is enough: its properties are about each task by itself, and
tasks share nothing but the blocking pool and the faults. It may be stopped, and
aborted by a later start, at any point. The first stream puts what moves the last id
next to what does not, so that a resumption from either side of each occurs; the
second runs beside it in the same task and dies with it. What two tasks do to one
another is `SingleFeed` (section 6).

In *Auth* three challenges against a cap of two evict one, and the evicted one may be
the one being signed. Four commands register two wallets, remember one, and
delete it or sign out. A crash may lose any suffix of unflushed writes.

In the *ledger* two replays of a fixture are the least that could mix or overtake one
another; while a round or a replay holds the lock, steps that do not touch the
ledger wait (`HolderFirst`), since they commute with the holder's; the
histories hold a match that turns, rows out of order with the second
participant at home, one where nothing is sharp and one without a score. Two
verifications are the least that overlap.

In the *autonomous loop* the interval and the time are two ticks, so that a
trigger can be too soon by one tick and just late enough. The second fixture's market
opens and stays (`QuietSecond`): what could starve it is the first one's rounds.

In *Decision* the blocks include duplicate quotes, dropped prices, keys that are
numbers, numerals and names, and scores before and after the final whistle; six turns
let the proposer compute, change its mind and submit. The second round is the
one that can be given what the first has published.

The bounds are of TLC's instances only: the theorems hold for all values.

*Symmetry* (rounds, sessions; in `Ledger` the two verifications) is used only in
`TwoRounds`, `TradeVerdict`, `VetoedWager` and `Ledger`, without liveness properties and without a configured session; `ImplementsWagerGate` is a
safety property symmetric in the rounds. *Deadlock* is checked in the runs of
`AgentRound`: when all rounds are done `Quiescent` stutters, so any other stop
would be an error. It is not checked in the others: their processes stop when
a budget is spent, when they have failed, or when a bound of the instance is reached.

## 4. Fairness

Only steps that the code itself brings to an end are fair. Two waits are not of that
kind, wherever they occur: for a turn of a model (`rig-venice/src/lib.rs:146` builds a
client without a timeout, and `loop_runner.rs:76-82` awaits it), and for the
validation sidecar to exit (`child.wait()`, `validation.rs:438`). Where one of them
may hold a process the property says so, as an alternative beside what it promises.

*AgentRound.* `RoundFairness` is weak fairness of each round's `BoundedStep`: the
shared HTTP client has a timeout of ten seconds (`native/src/lib.rs:105`), a poll has a
deadline (`thread_reader.rs:45-65`), a round takes no lock across an await, and the
runtime polls ready tasks. What leads to the ruling (`NoRuling`, `Propose`) is not
fair, since it holds both waits of the paragraph above; `RoundEnds` says that a round
ends or stays there for ever. `BeginRound` is not fair either: nobody has to start a
round. Nothing is assumed of the specialists or of coral-server.

*Arena.* `EventuallySettled` assumes weak fairness of the coordinator's poll step:
its waits are a sleep and requests with a timeout of 15 s
(`arena-coordinator/src/main.rs:445-455`). Neither the feed nor a recorder
is fair, no restart is promised, and a failure releases the promise until
the position can be settled again.

*Detector.* Weak fairness of the process's own steps and of its requests to TxLINE,
whose client has a timeout of 15 seconds (`txline.rs:89`), but not of the agent's
answers. Strong fairness of a fixture list and a snapshot that are complete: a provider
that never again lists a fixture, or quotes a selection, is not the detector's fault. A
stopped detector need not be restarted. `CatchesUp` excepts an answer that never comes.

*AutonomousLoop.* Weak fairness of the cycle, without the round it awaits: a round
need not end (see above), and `NoFixtureStarves` excepts one that does not. Strong
fairness of a window that lists every fixture and of a poll of a fixture that quotes
every outcome at its newest. Nobody has to switch the loop on, and `NoFixtureStarves`
promises nothing while it is off.

*Feed.* Weak fairness of each stream's steps and of the blocking pool. The server is
part of a stream's steps: it is obliged to answer, and once the instance's faults
are spent also to publish on. Before that it may break off instead. The user need not
start or stop anything.

*DecisionRound.* Weak fairness of the desk's steps, of the requests to TxLINE (ten
seconds) and of `SidecarFails`, the 45 seconds' end. Neither the sidecar's exit nor a
model's turn is fair; `RoundIsDecided` excepts a round that stays in either for ever,
though not one whose turns end and which goes on all the same.

*Auth*, *Ledger* have no liveness property.

## 5. Proofs

Every theorem is for any values of the constants that satisfy the module's named
assumptions (types, and that "none" values are no members of the sets they
stand beside), any number of failures included. Together they prove every
safety property the passing runs check and all four refinements (`WagerGate`,
`BettingBook`, `RememberedWallet`, `LedgerPromise`). Theorems marked * have no run of their own: they say what the
liveness properties rest on, compose modules, or bound what an instance takes as given.

| Module | Theorems |
|---|---|
| `AgentRound_proofs` | `TypeCorrect`, `GateFailsClosed`, `VerifiedIsOwnThm`, `SettlementBacked`, `HandoffVerified`, `RoundKeepsSession`, `VerdictsAnswered`, `GateImplemented` (`Spec => ImplementsWagerGate`), `RoundsOnlyAdvance`*, `StaleIdsAreDropped`*, `NoDelegationMislaid`*, `DelegationsAnswered`, `ReportsAreAnswered`*, `SessionsAreBounded`*, `CapsAreKept`* |
| `Arena_proofs` | of the recorders: `RecorderTypes`, `NoMoveTwice`, `OvershootIsBounded`; of the coordinator: `CoordinatorTypes`, `ScoreIsTheLog`, `StatusIsBehind`, `LivesRunDown`*; of the whole arena: `OneOfTwoWins`, `SettledSoundly`*, `RecordersStaySound`, `CoordinatorStaysSound`, `ArenaImplementsBook` (`Spec => ImplementsBettingBook`), `DueIsSettled`* |
| `DecisionRound_proofs` | `DecisionTypes`, `PassesAreEarned`, `DebateIsLawful`, `StakesHold`, `SettlesOnlyAccepted`*, `RoundsRunDown`*, `StakesAreQuarters`* |
| `Detector_proofs` | `DetectorTypes`, `LoggedOnce`, `MovesFollow`, `RowsAreCompared`*, `PollsEnd`* |
| `AutonomousLoop_proofs` | `LoopTypes`, `HourIsKept`, `NoMoveTriggersTwice`, `SharpMovesTrigger`*, `CyclesEnd`* |
| `Feed_proofs` | `FeedTypes`, `RecordedFirst`, `ResumedInOrder`, `OwedEventsAreEmitted`*, `StreamsRunDry`* |
| `Auth_proofs` | `AuthTypes`, `NoncesServeOnce`, `AnswersAreSafe`, `RemembersAsPromised` (`Spec => ImplementsRememberedWallet`) |
| `Payments_proofs` | `PaymentsTypes`, `RunsAreWhole`, `ReplaysStayApart`, `EveryPairSplits`, `ShownIsWatched`, `AnnouncementsAreStored`*, `LedgerKeepsPromise` (`Spec => KeepsLedgerPromise`), `ConfirmationsWereShown`*, `LedgerOnlyAdvances`* |

Hardly one of these properties is inductive as it stands. The invariants they
follow from, and why each part is there:

*AgentRound.* `IInv` adds `PcInv` (which variables are set at each `pc`; without
it a step that fills in `verified` or `live` could overwrite the value messages
already in the log refer to), `WagerInv` (the proposal and the gate's result are
those of the round) and `LogInv` (a request carries the wager its sender then
had; a verdict is one of the agent's answers to a request of the same thread
and session; every message is in its round's session). `LogInv` carries the
argument: a round that accepts a verdict knows only the sender, the session
and the id, and `LogInv` gives it the request, so the thread.
For `VerdictsAnswered`, `TraceInv` adds that a delegation is sent once per agent
and thread, at its place in the round (`AskInv`), and that a verdict has used up the
mention it answers (`AnswerInv`). `GateImplemented` maps each action to a step of
`WagerGate` or a stutter under both. `StaleIdsAreDropped` rests on `KnownSessions`:
what a round has read or persisted is an id that was configured or created, and
coral-server gives no such id out again.
`DelegationsAnswered` follows from `NoDelegationMislaid`'s invariant: while nothing has
failed a delegation posted is in its queue, in its specialist's hands, answered, or its
specialist has spent its steps or gone, and at rest the first two are empty.
`ReportsAreAnswered` adds `AddressInv`, which `IInv` lacks: a delegation names the specialist of its
round's track, and a verdict, unless it is a trade's, the wager of that round. A
trade's verdict names no wager, so its round has to be alone in the session, which is
the theorem's condition. `SessionsAreBounded` and `CapsAreKept` count: sessions
created against rounds that have one, and a specialist's answers against its steps.

*Arena.* For the recorders `MemoryCoversLog`: a running recorder remembers nothing
of a selection, or odds at least as late as any position it has logged. This is
why a restart, which forgets, can only record later moves, and why a failure
half-way through a fixture must end the process. `BookedMovesShown` says that a
position was taken on odds the feed has shown, `BudgetInv` that calls made and calls
this step may still make are within the bound. For the coordinator `ResultsInv`
(results in hand are of finished fixtures), `SettledInv`, `CountInv` (the score
counts the log from `lifeStart` on) and `StatusInv` (a stored field was the score's,
and of this score if it is not in `unstored`). For the whole, `DirectionInv`: a
position's side is what its agent's strategy makes of the move.
`ArenaImplementsBook` needs all three: that a batch is on later moves is
`MemoryCoversLog`, that opposite sides differ is `DirectionInv`, and that a
ruling is by a posted result is `ResultsInv`. `SettledSoundly` says the same
of the log: a position settled again gets the result it had.

*DecisionRound.* For `NoFakePass`, `FeedInv` (a published event carries an honest
receipt of its own fixture and sequence) and `RoundInv` (the receipt in hand is
of the event in hand). The case to exclude is a receipt that is
republished and comes back under another event. For the debate, `TurnsInv` and `RulingInv`, with lemmas on
`WagerMath` that hold for all figures: `AuthorityRules` (what is staked has an
edge, a capped stake and consistent figures) and `PunditReacts` (a nudge is
adjudicated anew). `StakesAreQuarters` adds how large a stake is: at odds above 1.0
and a probability below one the Kelly fraction is below one too (`StakeIsAQuarter`), so
a quarter of the cap times it needs no clamp, and an edge makes it positive. Together with
`PunditSizes` every stake is what its own ruling's figures give. `SettlesOnlyAccepted` joins the decision to the settlement that
`AgentRound` models: take the wager of the ruling, with whatever status and
reference the round may give it; if settlement-agent rules it settled, the
program has accepted the round's own fixture and sequence.

*Detector.* `LinesInv` (ids grow; lines of one id are about one move), `OpenInv` (a
signal in memory has a line and its key is remembered), `MemoryInv` (a running
detector remembers what the log tells it), `RowsInv` (the prices in hand are no
older than those remembered), and `TornInv`: torn lines, and the one at stake, are
at most two per fault.

*AutonomousLoop.* `Stamped` (a round of this life is no later than the stamp of its
fixture, and the price it went to is remembered) beside the two properties. For
`SharpMovesTrigger`, the converse `StampsAreRounds`: a stamp is the time of a round of
that fixture in this life, so a move that meets the rate limit meets a round.

*Feed.* `StreamsInv` describes one stream: of which files the line of the block in
hand has been settled, on disk or as failed, that `lastId` is that of the newest block
with one, and that what was emitted precedes it, in order and without gaps. `PoolInv`
says which lines are still out. The three properties are about each task by itself and
hold for any number of them.

*Auth.* `ChallengeInv` (a pending nonce is unused and pending for one key) and
`StoreInv` (the trees in `kvs` differ by the writes of one command, in
order): every tree a crash can leave is the abstract state before the
command, or after it, since a session that points at no profile remembers nobody.

*Payments.* `LedgerInv` (`RoundsInv`: the rows of a run follow the run's own;
`BacktestInv`: the table holds, per fixture, nothing or one replay whole) and `PayInv`
(`IntentInv`, `VerifyInv`, `AnnouncedInv`, `WatchInv`: each of the places a
creation or a verification can be at, with what is then stored, sent or watched).
`EveryPairSplits` is about `Backtest` alone: a winner decides a follow and a
fade of one tick in opposite ways. `LedgerKeepsPromise` adds `ShownInv`: an
intent still being created is pending and not announced, and only an announced
one has a transaction. Without it a verification could confirm an intent between
the store and the announcement, which would then tell what is no longer stored.
The last two theorems draw out what the promise is worth: `ConfirmationsWereShown` is the
end of `ShownInv`, and `LedgerOnlyAdvances` is proved of any step of `LedgerPromise`
(`PromiseAdvances`), which the refinement then hands to the ledger: rows that appear
are of a replay that waited to be stored and waits no more, so none comes back once it
was overtaken, failed or cut off. Which of two that wait comes first, nothing says.

*Liveness, as far as it goes without fairness.* ENABLED and fairness are beyond the
prover, so the liveness properties themselves are only model-checked. What they
rest on is not: that what is owed stays owed until it is delivered, and that the
process which delivers it cannot keep busy for ever without doing so.

| Property | Kept until done | Each step brings the end closer |
|---|---|---|
| `RoundEnds` | | `RoundsOnlyAdvance`: at most nineteen steps, and a session once obtained is kept |
| `RoundIsDecided` | | `RoundsRunDown`: a measure over stages, fetches, debate turns and rulings; the last step leaves a verdict |
| `EveryEventArrives` | `OwedEventsAreEmitted` | `StreamsRunDry`: a measure over blocks, lines and one token refresh per connection |
| `EventuallySettled` | `DueIsSettled`: a position due when a poll begins is on its way until it is in the log or something fails | `LivesRunDown`: a step of the life's cap, then details, positions and fields, each a finite set |
| `NoFixtureStarves` | `SharpMovesTrigger`: a baseline crosses a sharp move only if a round of the fixture was triggered within the interval | `CyclesEnd`: each fixture of the window is polled once |
| `CatchesUp` | `RowsAreCompared`: a row worked off leaves its price remembered, however it was judged, and memory never goes back | `PollsEnd`: fixtures, rows and open signals, each a finite set |
| `StaleSessionHeals` | `StaleIdsAreDropped`: a session that is gone stays gone, its id is never persisted anew, and a round that took it can only fail to obtain it, after which no id is persisted | `RoundsOnlyAdvance` |

That a delegation posted is answered is no liveness property here but an invariant of
the specialists at rest, and proved (`DelegationsAnswered`); that they come to rest is
`NoDelegationMislaid`: each step of a specialist shortens a queue or empties its hands.
What remains to fairness is that a step which can be taken is taken. `CyclesEnd`
and `PollsEnd` assume that `Fixtures` (and `Names`) are finite, which a
reply of TxLINE is. Where a column is empty the right one alone suffices.

Only model-checked: the liveness properties as such (those of the table).
There is no induction over data: `Backtest` and `Signals` use sets and functions,
not recursion, and the proofs need no fact that would take one.

## 6. Where the code and its comments disagree

* `TradeVerdict` (a run): a trading round waits for any `TRADE_VERDICT` of the
  session; `trading_delegation.rs:83` says one is in flight per round and that the
  verb is enough. The session is shared by all rounds, so it is not. The theorem
  `ReportsAreAnswered` marks the extent: the property holds wherever no two trading
  rounds share a session, and the other two tracks, which match the wager's id, are
  not affected.

* `VetoedWager` (a run): `txodds-types/src/wager.rs:41` says of a `ProofFailed`
  wager that it "is vetoed", and `settlement-agent/src/main.rs:8` that settlement is
  requested "once the proof gate has passed". `mod.rs:654` delegates whatever came out
  of the gate, and the agent looks at the reference, the stake and the edge, not at the
  status: a vetoed wager is settled. So `WagerGate` does not promise that the gate passed.

The rest are visible in the models and have no run of their own:

* Agent: two first rounds that overlap create
  a session each, where `console.rs:61` speaks of one durable session.
* Decision: an attached receipt keeps `verified` when the fetch is unavailable, and
  `Passed` when its validation was never started, against the letter of
  `validation.rs:3-4`; only receipts the program once accepted for that fixture
  and sequence get there, so `NoFakePass` holds. `evaluation` is always `None`;
  `SignalSeverity::Critical` needs 0.85 where 0.80 is the most a score can be (lemma
  `NothingIsCritical`); "[clamped to cap]" and, with a positive cap, "kelly rounded to
  zero" cannot be reached (theorem `StakesAreQuarters`, which like the model is
  about exact fractions, not doubles). A token refresh that returns no token is reported as missing
  credentials (`api.rs:28-30`). Events from a fixture's snapshot or a poll have no
  sequence, so their receipts are never validated.
* Arena: `arena.rs:3-5` says the two agents take opposite positions on each
  signal, but each compares with its own last poll, so both can take one side.
  `arena-coordinator/src/main.rs:314` skips settled positions, but the set starts
  empty, so a restarted coordinator settles every position again (with the same
  result: theorem `SettledSoundly`). `main.rs:130` calls the status a snapshot, but a
  mention answered during a publication reports fields of two scoreboards.
  A step may exceed the budget `safety.rs:56` says is checked before each call; a
  position may be recorded on a fixture that finished under way, where `arena.rs:41`
  says it is written "before the match ends": the list of live fixtures is used after
  several requests, and `BettingBook` does not promise it.
* Detector: `main.rs:43` says "Crash-and-restart cannot double-log the same signal."
  It can, when the line is torn, and also when it is whole: `signal.rs:123` reads the
  log with `read_to_string`, so that one line cut inside a character, by then or
  before, or any read error leaves the restarted detector without a key.
  `LoggedOnceUnlessTorn` says that these are the only ways. `signal.rs:61` means by `correct_so_far` the next poll, but it is
  first marked in the poll that detected the move; the "transient error — retrying" of
  `main.rs:193` cannot be reached; an outcome is never made final.
* Feed: `commands/txline.rs:27` says "Only one TxLINE task should own event emission at
  a time." The slot is released between abort and store (lines 28-36, 46), so two calls
  of `start_txline` that overlap both find it empty, and the handle stored first is
  dropped by the second: its task runs on with nothing left to stop it. `SingleFeed`
  states the comment; with `Callers = {c1, c2}` and two tasks TLC finds this trace.
  Nothing in the source keeps a webview from calling twice. The shared
  client's ten-second timeout (`lib.rs:105`) also cuts the SSE streams, and
  `attempt` is never reset; the two streams share `default.jsonl` and can tear
  its lines; the status stays "connected" after a stop.
* Auth: `auth.rs:71` evicts the "oldest entries"; a hash map's order decides.
* Payments: a failed transaction confirms an intent too; `Failed` and `Expired`
  are never set. The status says "running" after the sidecar has exited, and
  watches are lost with it or with the process.
* Backtest: of two overlapping `run_backtest` calls for a fixture the older may be
  stored last (`commands/backtest.rs:29-31`), which no comment rules out.
  `backtest.rs:108` wants "a completed match", but any score of a match
  under way settles.
* Autonomous loop: both maps are in memory, so the hour and the baselines
  end with the process; `OneRoundPerHour` and `MovesTriggerOnce` are per life.

## 7. What is not modelled

*Webview.* React presentation; which commands it sends, and in which order, is
modelled where a command depends on it (`Auth`, `Feed`, `DecisionRound`).

*In part.* Of the ledger: the list queries, and the other inserts of a single row.
Of the chain clients: the observations shown on the screen. Of the
Venice tools: prompts, HTTP and the formatting of the other tools, whose results are
inputs of the models.

*In the modelled parts.* The text of messages and prompts; early returns on
poisoned locks; floating-point rounding and profit figures; the signature
scheme; the encoding of a payment's URL; contrarian's own status counters,
which follow the coordinator's pattern; a log line of the arena torn by a
crash (the detector's is modelled); the SSE statuses and the length of the back-off.
`DecisionRound` assumes that a proof TxLINE returns is about the fixture it was
asked for: neither the desk nor the sidecar compares the two. `Backtest` takes at most
the first ten rows of a window.

## 8. What could come next

1. `Feed` with a torn `default.jsonl`, and two tasks in one run.
2. `AutonomousLoop` composed with `AgentRound`: the user's round and the loop's in one
   session, started by the market instead of freely.
3. Liveness of two full rounds, where `OneRound` keeps one of them before its ruling,
   and two selections in `Detector`.
