-------------------------------- MODULE Feed --------------------------------
(***************************************************************************)
(* The TxLINE ingest of the desktop: the start and stop commands, the slot *)
(* that holds the one ingest task, the two SSE streams every task drives   *)
(* (odds and scores), and the replay files they append to before an event  *)
(* is emitted to the webview.                                              *)
(*                                                                         *)
(* A block of a stream is a number, its place in what the server           *)
(* publishes; Kind says what it holds and Fixtureless which of them name   *)
(* no fixture.  The statuses shown to the user and the length of the       *)
(* back-off are left out.                                                  *)
(***************************************************************************)
EXTENDS Integers, Sequences, FiniteSets

CONSTANTS
  Callers,     \* webview calls of start_txline that may be under way at once
  MaxTasks,    \* ingest tasks spawned in a behaviour
  MaxFaults,   \* refused, ended or broken connections, failed opens and writes
  Kind,        \* per stream, a sequence of "event", "anonymous" or "junk"
  Fixtureless  \* <<stream, block>> of the events whose fixture_id is 0

ASSUME FeedAssumption ==
  /\ MaxTasks \in Nat /\ MaxFaults \in Nat
  /\ DOMAIN Kind \subseteq {"odds", "scores"}
  /\ \A s \in DOMAIN Kind : Kind[s] \in Seq({"event", "anonymous", "junk"})

VARIABLES
  slot,      \* DesktopState.txline_task: a task, or NoTask
  caller,    \* per caller: [at, new], the new task between spawn and store
  task,      \* per task: "unused", "running", "dying" or "gone"
  stream,    \* per task and stream: its connection and its place in it
  pool,      \* lines handed to the blocking pool and not written yet
  disk,      \* lines written to the replay files
  failed,    \* lines given up: no directory, no open, or a write that failed
  shown,     \* what was emitted on txline://event, and by which task
  faults

slotVars == <<slot, caller, task>>
fileVars == <<pool, disk, failed>>
vars == <<slot, caller, task, stream, fileVars, shown, faults>>

Streams == DOMAIN Kind
Tasks == 1..MaxTasks
NoTask == 0

(* File 1 is default.jsonl, file 2 <fixture id>.jsonl, which an event without a
   fixture does not have. *)
LastFile(s, n) == IF <<s, n>> \in Fixtureless THEN 1 ELSE 2

(* One SSE connection: lastId survives reconnects (0 is None), got and done
   bound the blocks of the buffer, done being the one recorded; emitted is what
   the stream has emitted over all its connections. *)
Idle == [at |-> "connect", lastId |-> 0, got |-> 0, done |-> 0, file |-> 1, emitted |-> << >>]

FeedInit ==
  /\ slot = NoTask
  /\ caller = [c \in Callers |-> [at |-> "idle", new |-> NoTask]]
  /\ task = [t \in Tasks |-> "unused"]
  /\ stream = [x \in Tasks \X Streams |-> Idle]
  /\ pool = {} /\ disk = {} /\ failed = {} /\ shown = {}
  /\ faults = 0

-----------------------------------------------------------------------------
(* Commands.  abort() ends a task at its next await: a task that is not being
   polled is gone at once, one that is finishes that step first. *)

Dropped(t) == [x \in Tasks \X Streams |-> IF x[1] = t THEN Idle ELSE stream[x]]

Abort(t) ==
  IF t # NoTask /\ task[t] = "running"
  THEN \/ task' = [task EXCEPT ![t] = "dying"] /\ UNCHANGED stream
       \/ task' = [task EXCEPT ![t] = "gone"] /\ stream' = Dropped(t)
  ELSE UNCHANGED <<task, stream>>

StartTakes(c) ==
  /\ caller[c].at = "idle"
  /\ Abort(slot)
  /\ slot' = NoTask
  /\ caller' = [caller EXCEPT ![c].at = "spawn"]
  /\ UNCHANGED <<fileVars, shown, faults>>

(* Without credentials live_loop returns at once; the handle is stored all the
   same. *)
StartSpawns(c) ==
  /\ caller[c].at = "spawn"
  /\ \E t \in Tasks :
       /\ task[t] = "unused"
       /\ \A u \in 1..(t - 1) : task[u] # "unused"
       /\ task' \in {[task EXCEPT ![t] = d] : d \in {"running", "gone"}}
       /\ caller' = [caller EXCEPT ![c] = [at |-> "store", new |-> t]]
  /\ UNCHANGED <<slot, stream, fileVars, shown, faults>>

(* A handle already in the slot is dropped, which detaches its task. *)
StartStores(c) ==
  /\ caller[c].at = "store"
  /\ slot' = caller[c].new
  /\ caller' = [caller EXCEPT ![c] = [at |-> "idle", new |-> NoTask]]
  /\ UNCHANGED <<task, stream, fileVars, shown, faults>>

StopTxline ==
  /\ slot # NoTask
  /\ Abort(slot)
  /\ slot' = NoTask
  /\ UNCHANGED <<caller, fileVars, shown, faults>>

-----------------------------------------------------------------------------
(* A step of stream s of task t: it is polled, and a dying task is gone after
   the poll that abort() found it in. *)
Polled(t, s, st) ==
  /\ \/ task[t] = "running" /\ stream' = [stream EXCEPT ![<<t, s>>] = st] /\ UNCHANGED task
     \/ task[t] = "dying" /\ stream' = Dropped(t) /\ task' = [task EXCEPT ![t] = "gone"]
  /\ UNCHANGED <<slot, caller>>

Quiet == UNCHANGED <<fileVars, shown>>
Fault == faults < MaxFaults /\ faults' = faults + 1

Connect(t, s) ==
  /\ stream[<<t, s>>].at = "connect"
  /\ Polled(t, s, [stream[<<t, s>>] EXCEPT !.at = "asked"])
  /\ Quiet /\ UNCHANGED faults

(* Slip: the id is not sent. *)
ConnectedAfresh(st, s) ==
  {[st EXCEPT !.at = "reading", !.got = n, !.done = n] : n \in 0..Len(Kind[s])}

(* The server resumes after the id it is given; without one it starts where it
   likes.  It publishes its blocks, and the client receives them, in order. *)
Connected(st, s) ==
  {[st EXCEPT !.at = "reading", !.got = n, !.done = n] :
     n \in IF st.lastId # 0 THEN {st.lastId} ELSE 0..Len(Kind[s])}

(* The first request of a connection carries the configured JWT, the retry a
   refreshed one, which is not kept for the next connection. *)
Accepted(t, s) ==
  /\ stream[<<t, s>>].at \in {"asked", "retried"}
  /\ \E st \in Connected(stream[<<t, s>>], s) : Polled(t, s, st)
  /\ Quiet /\ UNCHANGED faults

Unauthorized(t, s) ==
  /\ stream[<<t, s>>].at = "asked"
  /\ Polled(t, s, [stream[<<t, s>>] EXCEPT !.at = "refresh"])
  /\ Quiet /\ UNCHANGED faults

RefreshGuestJwt(t, s) ==
  /\ stream[<<t, s>>].at = "refresh"
  /\ Polled(t, s, [stream[<<t, s>>] EXCEPT !.at = "retried"])
  /\ Quiet /\ UNCHANGED faults

(* Slip: the last id belongs to the connection. *)
DisconnectedForgetful(t, s) ==
  /\ \/ stream[<<t, s>>].at \in {"asked", "refresh", "retried"}
     \/ stream[<<t, s>>].at = "reading" /\ stream[<<t, s>>].done = stream[<<t, s>>].got
  /\ Fault
  /\ Polled(t, s, [stream[<<t, s>>] EXCEPT !.at = "connect", !.got = 0, !.done = 0, !.lastId = 0])
  /\ Quiet

(* A request, a refresh or a chunk that fails, and a stream that ends: the
   buffer goes with the connection, the last id stays, and the loop sleeps and
   connects again.  A chunk is only awaited once the buffer is worked off. *)
Disconnected(t, s) ==
  /\ \/ stream[<<t, s>>].at \in {"asked", "refresh", "retried"}
     \/ stream[<<t, s>>].at = "reading" /\ stream[<<t, s>>].done = stream[<<t, s>>].got
  /\ Fault
  /\ Polled(t, s, [stream[<<t, s>>] EXCEPT !.at = "connect", !.got = 0, !.done = 0])
  /\ Quiet

Chunk(t, s) ==
  /\ stream[<<t, s>>].at = "reading" /\ stream[<<t, s>>].done = stream[<<t, s>>].got
  /\ \E n \in (stream[<<t, s>>].got + 1)..Len(Kind[s]) :
       Polled(t, s, [stream[<<t, s>>] EXCEPT !.got = n])
  /\ Quiet /\ UNCHANGED faults

Parses(s, n) == Kind[s][n] # "junk"
LastId(st, s, n) == IF Kind[s][n] = "anonymous" THEN st.lastId ELSE n

(* The id is taken before the block is parsed; keep-alives and payloads that do
   not parse are dropped here. *)
TakeBlock(t, s) ==
  LET st == stream[<<t, s>>]
      n  == st.done + 1 IN
  /\ st.at = "reading" /\ st.done < st.got
  /\ Polled(t, s, [st EXCEPT !.done = n, !.lastId = LastId(st, s, n),
                             !.at = IF Parses(s, n) THEN "open" ELSE "reading"])
  /\ Quiet /\ UNCHANGED faults

-----------------------------------------------------------------------------
(* Recording.  Best-effort: an event is emitted whatever became of its lines.
   tokio's file hands a write to the blocking pool and reports it done; only the
   write of the newline waits for it, and nothing waits for the newline's own,
   which is left out. *)

LineIn(t, s, f) == [task |-> t, stream |-> s, block |-> stream[<<t, s>>].done, file |-> f]
Line(t, s) == LineIn(t, s, stream[<<t, s>>].file)

OpenReplay(t, s) ==
  /\ stream[<<t, s>>].at = "open"
  /\ Polled(t, s, [stream[<<t, s>>] EXCEPT !.at = "writing"])
  /\ pool' = pool \cup {Line(t, s)}
  /\ UNCHANGED <<disk, failed, shown, faults>>

EmitEvent(t, s) ==
  LET st == stream[<<t, s>>] IN
  /\ Polled(t, s, [st EXCEPT !.at = "reading", !.file = 1, !.emitted = Append(@, st.done)])
  /\ shown' = shown \cup {[task |-> t, stream |-> s, block |-> st.done]}

(* After a file comes the next one, and after the last the event is emitted. *)
NextFile(t, s) ==
  LET st == stream[<<t, s>>] IN
  IF st.file < LastFile(s, st.done)
  THEN Polled(t, s, [st EXCEPT !.at = "open", !.file = @ + 1]) /\ UNCHANGED shown
  ELSE EmitEvent(t, s)

DirectoryFails(t, s) ==
  /\ stream[<<t, s>>].at = "open" /\ stream[<<t, s>>].file = 1
  /\ Fault
  /\ EmitEvent(t, s)
  /\ failed' = failed \cup {LineIn(t, s, f) : f \in 1..2}
  /\ UNCHANGED <<pool, disk>>

OpenFails(t, s) ==
  /\ stream[<<t, s>>].at = "open"
  /\ Fault
  /\ NextFile(t, s)
  /\ failed' = failed \cup {Line(t, s)}
  /\ UNCHANGED <<pool, disk>>

(* Slip: the write is not waited for. *)
LineHandedOver(t, s) ==
  /\ stream[<<t, s>>].at = "writing"
  /\ NextFile(t, s)
  /\ UNCHANGED <<fileVars, faults>>

(* The write has ended, well or not: its result is dropped. *)
LineWritten(t, s) ==
  /\ stream[<<t, s>>].at = "writing"
  /\ Line(t, s) \notin pool
  /\ NextFile(t, s)
  /\ UNCHANGED <<fileVars, faults>>

(* The write ends, whether or not the task that asked for it still runs. *)
PoolWrites(w) ==
  /\ pool' = pool \ {w} /\ disk' = disk \cup {w}
  /\ UNCHANGED <<slotVars, stream, failed, shown, faults>>

PoolFails(w) ==
  /\ Fault
  /\ pool' = pool \ {w} /\ failed' = failed \cup {w}
  /\ UNCHANGED <<slotVars, stream, disk, shown>>

-----------------------------------------------------------------------------
StreamStep(t, s) ==
  \/ Connect(t, s) \/ Accepted(t, s) \/ Unauthorized(t, s) \/ RefreshGuestJwt(t, s)
  \/ Disconnected(t, s) \/ Chunk(t, s) \/ TakeBlock(t, s)
  \/ OpenReplay(t, s) \/ DirectoryFails(t, s) \/ OpenFails(t, s) \/ LineWritten(t, s)

FeedNext ==
  \/ \E c \in Callers : StartTakes(c) \/ StartSpawns(c) \/ StartStores(c)
  \/ StopTxline
  \/ \E t \in Tasks, s \in Streams : StreamStep(t, s)
  \/ \E w \in pool : PoolWrites(w) \/ PoolFails(w)

(* The runtime polls every stream that can go on and the blocking pool works
   its queue.  The server is part of a stream's steps: it is taken to answer a
   request and to publish on, or to break off, which it does MaxFaults times at
   most.  Nothing obliges the user to call. *)
Fairness ==
  /\ \A t \in Tasks, s \in Streams : WF_vars(StreamStep(t, s))
  /\ WF_vars(\E w \in pool : PoolWrites(w) \/ PoolFails(w))

Spec == FeedInit /\ [][FeedNext]_vars
FairSpec == Spec /\ Fairness

-----------------------------------------------------------------------------
TypeOK ==
  /\ slot \in Tasks \cup {NoTask}
  /\ caller \in [Callers -> [at : {"idle", "spawn", "store"}, new : Tasks \cup {NoTask}]]
  /\ task \in [Tasks -> {"unused", "running", "dying", "gone"}]
  /\ faults \in 0..MaxFaults
  /\ stream \in [Tasks \X Streams ->
       [at : {"connect", "asked", "refresh", "retried", "reading", "open", "writing"},
        lastId : Nat, got : Nat, done : Nat, file : 1..2, emitted : Seq(Nat)]]
  /\ shown \subseteq [task : Tasks, stream : Streams, block : Nat]
  /\ pool \cup disk \cup failed \subseteq
       [task : Tasks, stream : Streams, block : Nat, file : 1..2]

(* The blocks that are events with an id. *)
Events(s) == {n \in DOMAIN Kind[s] : Kind[s][n] = "event"}

(* "Only one TxLINE task should own event emission at a time": when every start
   has returned, no two tasks run.  Two overlapping starts break it: both find
   the slot empty, and the handle stored first is dropped by the second, its
   task running on with nothing left to stop it. *)
SingleFeed ==
  (\A c \in Callers : caller[c].at = "idle") =>
    \A t, u \in Tasks : task[t] = "running" /\ task[u] = "running" => t = u

(* "Replay writes happen before emission", as far as the recorder goes: when an
   event is on the screen its line is in every file it belongs to, or the attempt
   to put it there has failed; no write is still under way that a stop of the
   task, or of another, could overtake. *)
EmittedWasRecorded ==
  \A x \in shown : \A f \in 1..LastFile(x.stream, x.block) :
    [task |-> x.task, stream |-> x.stream, block |-> x.block, file |-> f] \in disk \cup failed

(* "Last SSE id survives reconnects so the server can resume without gaps":
   whatever connections a task loses, it emits the blocks with an id in their
   order, none of them twice, and between two of them every one in between. *)
ResumesWithoutGaps ==
  \A t \in Tasks, s \in Streams :
    LET e == stream[<<t, s>>].emitted IN
    \A i, j \in {k \in DOMAIN e : e[k] \in Events(s)} :
      i < j =>
        /\ e[i] < e[j]
        /\ \A n \in (e[i] + 1)..(e[j] - 1) :
             n \in Events(s) => \E k \in DOMAIN e : e[k] = n

(* Once a task has seen an id, a later event is emitted by it however often the
   connection breaks and the JWT expires, unless the task is stopped. *)
EveryEventArrives ==
  \A t \in Tasks, s \in Streams : \A n \in Events(s) :
    (/\ task[t] = "running"
     /\ 0 < stream[<<t, s>>].lastId /\ stream[<<t, s>>].lastId < n)
    ~> (task[t] # "running" \/ \E i \in DOMAIN stream[<<t, s>>].emitted : stream[<<t, s>>].emitted[i] = n)
=============================================================================
