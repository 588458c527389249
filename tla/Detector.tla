------------------------------ MODULE Detector ------------------------------
(***************************************************************************)
(* sharp-movement-detector: one process that polls the live odds, has a    *)
(* tool-calling agent look at every price that moved, and appends what is  *)
(* sharp to a JSONL log.  The log is the only state that outlives the      *)
(* process: a restarted one reads it back for the keys it must not log     *)
(* again.                                                                  *)
(***************************************************************************)
EXTENDS Integers, Sequences, FiniteSets, SequencesExt

CONSTANTS
  Fixtures, Names,      \* live fixtures, and the selections of each
  Prices,               \* prices a selection can show
  Scripts,              \* what the model may reply in one tool loop
  MaxToolRounds,        \* MAX_TOOL_ROUNDS
  MaxShown, MaxBuckets, MaxFaults   \* bounds of the instances

ASSUME DetectorAssumption ==
  /\ MaxToolRounds \in Nat /\ MaxShown \in Nat \ {0}
  /\ MaxBuckets \in Nat /\ MaxFaults \in Nat
  /\ Prices \subseteq Nat

VARIABLES
  shown,      \* external: the prices each selection has shown, oldest first
  bucket,     \* the clock, in periods of five minutes
  dpc,        \* where the process stands
  todo,       \* fixtures of this poll whose odds are not fetched yet
  rows,       \* [of, at, left, asked]: the snapshot being worked through, and
              \* the row the agent is being asked about, with its period
  prev,       \* prev_odds, as indices into shown; 0 is an absent entry
  seen,       \* seen_idempotency
  open,       \* open_signals
  blind,      \* history: this process could not read the log when it began
  unchecked,  \* ids update_open_signals has yet to look at
  log,        \* the lines of the signal log
  cut,        \* the last line lacks its newline
  faults      \* failures and restarts so far

vars ==
  <<shown, bucket, dpc, todo, rows, prev, seen, open, blind, unchecked, log, cut, faults>>
memory == <<prev, seen, open, blind>>

Selections == Fixtures \X Names
Idle == [of |-> <<>>, at |-> <<>>, left |-> {}, asked |-> <<>>]

-----------------------------------------------------------------------------
(* The tool loop.  A script is the sequence of the model's replies, each a *)
(* sequence of tool calls; [tool |-> "error"] is a failed request.         *)

(* run_tool_loop: replies are taken until one calls the final tool or      *)
(* calls nothing, or max_rounds are used up.                               *)
LoopLength(script) ==
  LET ends == { i \in DOMAIN script :
                  script[i] = <<>> \/ \E c \in Range(script[i]) : c.tool \in {"submit", "error"} }
      bound == IF Len(script) < MaxToolRounds THEN Len(script) ELSE MaxToolRounds
  IN  IF \E i \in ends : i <= bound THEN CHOOSE i \in ends : \A j \in ends : i <= j ELSE bound

RunToolLoop(script) == FlattenSeq(SubSeq(script, 1, LoopLength(script)))

(* assess_movement: the last compute_sharp_movement of the trace, whatever *)
(* the model says of it when it submits; {} when there is none or a        *)
(* request failed.                                                         *)
AssessMovement(script) ==
  LET calls == RunToolLoop(script)
      movements == {i \in DOMAIN calls : calls[i].tool = "movement"}
  IN  IF movements = {} \/ \E i \in DOMAIN calls : calls[i].tool = "error"
        THEN {}
        ELSE {calls[CHOOSE i \in movements : \A j \in movements : j <= i]}

(* OddsDirection::from_tool_str, and the gate before it. *)
Sharp(m) == m.sharp /\ m.direction \in {"shortening", "drifting"}

-----------------------------------------------------------------------------
(* The log.  A line is readable when serde can parse it by itself: a line  *)
(* written in part is not, nor are two records on one line.  A part that   *)
(* ends inside a character (names and narratives have such) is not text,   *)
(* whatever is appended to it.                                             *)

(* Of a record in the file: all but the newline, a part, a split character. *)
Parts == {"all", "some", "split"}

LineOf(s) ==
  [ id |-> s.id, key |-> s.key, from |-> s.from, to |-> s.to, blind |-> s.blind,
    correct |-> s.correct, readable |-> TRUE, text |-> TRUE ]

Partial(line, part) ==
  [line EXCEPT !.readable = (part = "all"), !.text = (part # "split")]

Unreadable(line) == [line EXCEPT !.readable = FALSE]

(* Bytes of a record reach the file, on the line of a record that lacks    *)
(* its newline or on one of their own.                                     *)
Written(s, part) ==
  IF cut
    THEN Append([log EXCEPT ![Len(log)] = Unreadable(@)], Unreadable(Partial(LineOf(s), part)))
    ELSE Append(log, Partial(LineOf(s), part))

(* append_signal: the line, then its newline. *)
AppendSignal(s) == log' = Written(s, "all") /\ cut' = FALSE

(* An append that fails, or during which the process is killed. *)
AppendFails(s) ==
  \/ UNCHANGED <<log, cut>>
  \/ \E part \in Parts : log' = Written(s, part) /\ cut' = TRUE

(* Slip: a restarted detector starts from nothing. *)
LoadNothing == {}

(* read_to_string takes the file as a whole or, for one byte that is not   *)
(* text, not at all. *)
Legible == \A i \in DOMAIN log : log[i].text

(* load_seen_idempotency: lines that do not parse are passed over, and a   *)
(* file that cannot be read is taken for an empty one.                     *)
LoadSeen ==
  IF Legible THEN {log[i].key : i \in {j \in DOMAIN log : log[j].readable}} ELSE {}

-----------------------------------------------------------------------------
(* One poll. *)

Init ==
  /\ shown = [s \in Selections |-> <<>>]
  /\ bucket = 0 /\ faults = 0
  /\ dpc = "sleep" /\ todo = {} /\ rows = Idle /\ unchecked = {}
  /\ prev = [s \in Selections |-> 0] /\ seen = {} /\ open = {} /\ blind = FALSE
  /\ log = <<>> /\ cut = FALSE

Stop == dpc' = "stopped" /\ todo' = {} /\ rows' = Idle /\ unchecked' = {}

Fails == faults < MaxFaults /\ faults' = faults + 1

(* The safety gate lets the step through. *)
BeginStep ==
  /\ dpc = "sleep"
  /\ dpc' = "fixtures"
  /\ UNCHANGED <<shown, bucket, todo, rows, unchecked, memory, log, cut, faults>>

(* The budget, the hour or the step cap is spent; or the process is killed *)
(* between two appends. *)
Stopped ==
  /\ dpc # "stopped" /\ Fails /\ Stop
  /\ UNCHANGED <<shown, bucket, memory, log, cut>>

(* fetch_live_fixtures: with nothing live the step ends without a look at  *)
(* the open signals. *)
FetchFixtures(live) ==
  /\ dpc = "fixtures"
  /\ todo' = live
  /\ dpc' = IF live = {} THEN "sleep" ELSE "odds"
  /\ UNCHANGED <<shown, bucket, rows, unchecked, memory, log, cut, faults>>

(* What a snapshot says of a fixture: of each selection it quotes, the     *)
(* newest price; it may leave out some, or all, that it quoted before.     *)
Quoted(f, quoted) == [n \in Names |-> IF n \in quoted THEN Len(shown[<<f, n>>]) ELSE 0]

(* fetch_odds for one fixture. *)
FetchOdds(f, quoted) ==
  /\ dpc = "odds" /\ rows.left = {} /\ f \in todo
  /\ todo' = todo \ {f}
  /\ rows' = [ of |-> <<f>>, at |-> Quoted(f, quoted),
               left |-> {n \in Names : Quoted(f, quoted)[n] # 0}, asked |-> <<>> ]
  /\ UNCHANGED <<shown, bucket, dpc, unchecked, memory, log, cut, faults>>

(* Neither is a Transient error, so main shuts the process down. *)
FetchFails ==
  /\ dpc \in {"fixtures", "odds"} /\ rows.left = {} /\ Fails /\ Stop
  /\ UNCHANGED <<shown, bucket, memory, log, cut>>

Current(n) == <<rows.of[1], n>>
Key(s) == <<s, bucket>>
Moved(s, i) == shown[s][i] # shown[s][prev[s]]

(* The row is done with. *)
WorkedOff(n) == [rows EXCEPT !.left = @ \ {n}, !.asked = <<>>]

(* A selection that shows nothing new to look at, or was logged in this    *)
(* period already.                                                         *)
PassOver(n) ==
  LET s == Current(n)  i == rows.at[n]
  IN  /\ dpc = "odds" /\ n \in rows.left /\ rows.asked = <<>>
      /\ \/ prev[s] = 0 /\ prev' = [prev EXCEPT ![s] = i]
         \/ prev[s] # 0 /\ ~Moved(s, i) /\ UNCHANGED prev
         \/ prev[s] # 0 /\ Moved(s, i) /\ Key(s) \in seen /\ prev' = [prev EXCEPT ![s] = i]
      /\ rows' = WorkedOff(n)
      /\ UNCHANGED <<shown, bucket, dpc, todo, unchecked, seen, open, blind, log, cut, faults>>

(* The price moved and nothing of the kind was logged: the agent is asked, *)
(* under the key of the period in which it is.                             *)
Ask(n) ==
  LET s == Current(n)
  IN  /\ dpc = "odds" /\ n \in rows.left /\ rows.asked = <<>>
      /\ prev[s] # 0 /\ Moved(s, rows.at[n]) /\ Key(s) \notin seen
      /\ rows' = [rows EXCEPT !.asked = <<n, bucket>>]
      /\ UNCHANGED <<shown, bucket, dpc, todo, unchecked, memory, log, cut, faults>>

(* The agent answers, whenever it does: assess_movement has no time limit. *)
Asked(n) == dpc = "odds" /\ n \in rows.left /\ rows.asked # <<>> /\ rows.asked[1] = n
AskedKey(n) == <<Current(n), rows.asked[2]>>

Signal(n, m) ==
  [ id |-> Len(log) + 1, key |-> AskedKey(n), from |-> prev[Current(n)], to |-> rows.at[n],
    blind |-> blind, direction |-> m.direction, correct |-> FALSE ]

(* Slip: the move that was logged stays to be seen again. *)
RememberKeyOnly(n) == seen' = seen \cup {AskedKey(n)} /\ UNCHANGED prev

(* What a logged signal leaves in memory, next to open_signals. *)
RememberSignal(n) ==
  /\ prev' = [prev EXCEPT ![Current(n)] = rows.at[n]]
  /\ seen' = seen \cup {AskedKey(n)}

(* Slip: what the agent dismissed is looked at again in the next poll. *)
DismissAndRetry(n, script) ==
  /\ Asked(n)
  /\ \A m \in AssessMovement(script) : ~Sharp(m)
  /\ rows' = WorkedOff(n)
  /\ UNCHANGED <<shown, bucket, dpc, todo, unchecked, memory, log, cut, faults>>

(* The agent fails, does not compute a movement, or computes a dull one. *)
Dismiss(n, script) ==
  /\ Asked(n)
  /\ \A m \in AssessMovement(script) : ~Sharp(m)
  /\ prev' = [prev EXCEPT ![Current(n)] = rows.at[n]]
  /\ rows' = WorkedOff(n)
  /\ UNCHANGED <<shown, bucket, dpc, todo, unchecked, seen, open, blind, log, cut, faults>>

LogSignal(n, script) ==
  /\ Asked(n)
  /\ \E m \in AssessMovement(script) :
       /\ Sharp(m)
       /\ AppendSignal(Signal(n, m))
       /\ open' = open \cup {Signal(n, m)}
  /\ RememberSignal(n)
  /\ rows' = WorkedOff(n)
  /\ UNCHANGED <<shown, bucket, dpc, todo, unchecked, blind, faults>>

(* The `?` on append_signal ends the step and the process. *)
LogFails(n, script) ==
  /\ Asked(n) /\ Fails /\ Stop
  /\ \E m \in AssessMovement(script) : Sharp(m) /\ AppendFails(Signal(n, m))
  /\ UNCHANGED <<shown, bucket, memory>>

-----------------------------------------------------------------------------
(* update_open_signals, one signal at a time. *)

BeginTracking ==
  /\ dpc = "odds" /\ todo = {} /\ rows.left = {}
  /\ dpc' = "tracking" /\ rows' = Idle
  /\ unchecked' = {s.id : s \in open}
  /\ UNCHANGED <<shown, bucket, todo, memory, log, cut, faults>>

StillMoving(s) ==
  LET now == shown[s.key[1]][prev[s.key[1]]]  then == shown[s.key[1]][s.to]
  IN  IF s.direction = "shortening" THEN now <= then ELSE now >= then

Flipped(s) == [s EXCEPT !.correct = ~@]

Track(s) ==
  /\ dpc = "tracking" /\ s \in open /\ s.id \in unchecked
  /\ unchecked' = unchecked \ {s.id}
  /\ \/ /\ StillMoving(s) = s.correct
        /\ UNCHANGED <<open, log, cut, faults>>
     \/ /\ StillMoving(s) # s.correct
        /\ open' = (open \ {s}) \cup {Flipped(s)}
        /\ \/ AppendSignal(Flipped(s)) /\ UNCHANGED faults
           \/ Fails /\ AppendFails(Flipped(s))
  /\ UNCHANGED <<shown, bucket, dpc, todo, rows, prev, seen, blind>>

EndStep ==
  /\ dpc = "tracking" /\ unchecked = {}
  /\ dpc' = "sleep"
  /\ UNCHANGED <<shown, bucket, todo, rows, unchecked, memory, log, cut, faults>>

(* main from the top: nothing but the log is left, if that can be read. *)
Restart ==
  /\ dpc = "stopped"
  /\ dpc' = "sleep"
  /\ prev' = [s \in Selections |-> 0] /\ open' = {}
  /\ \/ seen' = LoadSeen /\ blind' = ~Legible /\ UNCHANGED faults
     \/ seen' = {} /\ blind' = TRUE /\ Fails
  /\ UNCHANGED <<shown, bucket, todo, rows, unchecked, log, cut>>

-----------------------------------------------------------------------------
(* External: a price is shown, five minutes pass. *)

Show(s, p) ==
  /\ Len(shown[s]) < MaxShown
  /\ shown[s] # <<>> => Last(shown[s]) # p
  /\ shown' = [shown EXCEPT ![s] = Append(@, p)]
  /\ UNCHANGED <<bucket, dpc, todo, rows, memory, unchecked, log, cut, faults>>

ClockTicks ==
  /\ bucket < MaxBuckets /\ bucket' = bucket + 1
  /\ UNCHANGED <<shown, dpc, todo, rows, memory, unchecked, log, cut, faults>>

(* The steps of a poll that end by themselves, and the agent's answers,    *)
(* for which nothing sets a limit.                                         *)
BoundedStep ==
  \/ BeginStep \/ BeginTracking \/ EndStep
  \/ \E live \in SUBSET Fixtures : FetchFixtures(live)
  \/ \E f \in Fixtures, quoted \in SUBSET Names : FetchOdds(f, quoted)
  \/ \E n \in Names : PassOver(n) \/ Ask(n)
  \/ \E s \in open : Track(s)

Answer == \E n \in Names, script \in Scripts : Dismiss(n, script) \/ LogSignal(n, script)

Poll == BoundedStep \/ Answer

DetectorNext ==
  \/ Poll
  \/ Stopped \/ FetchFails \/ Restart
  \/ \E n \in Names, script \in Scripts : LogFails(n, script)
  \/ \E s \in Selections, p \in Prices : Show(s, p)
  \/ ClockTicks

DetectorSpec == Init /\ [][DetectorNext]_vars

(* The process sleeps, works and asks TxLINE, whose client gives up after  *)
(* 15 seconds (txline.rs): those steps are taken.  The client of the model *)
(* has no such limit, so an answer may be waited for for ever.  The        *)
(* provider keeps listing the fixtures that are live and keeps quoting     *)
(* their selections, if not in every snapshot.  Nobody has to restart a    *)
(* process that has stopped.                                               *)
DetectorFairness ==
  /\ WF_vars(BoundedStep)
  /\ SF_vars(FetchFixtures(Fixtures))
  /\ \A f \in Fixtures : SF_vars(FetchOdds(f, Names))

DetectorFairSpec == DetectorSpec /\ DetectorFairness

-----------------------------------------------------------------------------
(* Properties. *)

SignalType ==
  [ id : Nat \ {0}, key : Selections \X Nat, from : Nat \ {0}, to : Nat \ {0},
    blind : BOOLEAN, direction : {"shortening", "drifting"}, correct : BOOLEAN ]

Lines ==
  [ id : Nat \ {0}, key : Selections \X Nat, from : Nat \ {0}, to : Nat \ {0},
    blind : BOOLEAN, correct : BOOLEAN, readable : BOOLEAN, text : BOOLEAN ]

Snapshots ==
  [ of : {<<f>> : f \in Fixtures}, at : [Names -> Nat], left : SUBSET Names,
    asked : {<<>>} \cup (Names \X Nat) ]

(* Every variable has its type; work in hand belongs to the state of the   *)
(* poll it is done in, and nothing is remembered that was not shown.       *)
TypeOK ==
  /\ shown \in [Selections -> Seq(Prices)]
  /\ bucket \in 0..MaxBuckets /\ faults \in 0..MaxFaults
  /\ dpc \in {"sleep", "fixtures", "odds", "tracking", "stopped"}
  /\ todo \subseteq Fixtures /\ (todo # {} => dpc = "odds")
  /\ rows \in {Idle} \cup Snapshots /\ (rows.left # {} => dpc = "odds")
  /\ prev \in [Selections -> Nat] /\ \A s \in Selections : prev[s] <= Len(shown[s])
  /\ seen \subseteq Selections \X Nat /\ blind \in BOOLEAN
  /\ open \subseteq SignalType
  /\ log \in Seq(Lines)
  /\ cut \in BOOLEAN /\ (cut => log # <<>>)

(* A second signal under a key that the log already holds means that no    *)
(* line of the first can be read back, or that the detector which logged   *)
(* it had begun without the log, which it could not read.  At most one     *)
(* line per interrupted append, with the one it is glued to, is torn.      *)
LoggedOnceUnlessTorn ==
  /\ \A i, j \in DOMAIN log :
       log[i].id < log[j].id /\ log[i].key = log[j].key => ~log[i].readable \/ log[j].blind
  /\ Cardinality({i \in DOMAIN log : ~log[i].readable}) <= 2 * faults

(* Two signals of one selection are about two moves: the second begins     *)
(* where the first ended or later, across failed appends and restarts.     *)
MovesDoNotOverlap ==
  \A i, j \in DOMAIN log :
    log[i].id < log[j].id /\ log[i].key[1] = log[j].key[1] => log[i].to <= log[j].from

(* A price that was shown is compared with the one before it: however a    *)
(* movement was judged, and logged or not, the detector catches up with    *)
(* the feed, or has stopped, or waits for ever for an answer of the model. *)
CatchesUp ==
  \A s \in Selections :
    (shown[s] # <<>>) ~>
      \/ dpc = "stopped"
      \/ prev[s] # 0 /\ shown[s][prev[s]] = Last(shown[s])
      \/ [](rows.asked # <<>>)
=============================================================================
