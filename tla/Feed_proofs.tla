----------------------------- MODULE Feed_proofs -----------------------------
(***************************************************************************)
(* What an ingest task records, emits and resumes, for every sequence of   *)
(* blocks, every number of callers, tasks, streams and failures.           *)
(***************************************************************************)
EXTENDS Feed, TLAPS

Pending(st) == st.at \in {"open", "writing"}

StreamType(s) ==
  [at : {"connect", "asked", "refresh", "retried", "reading", "open", "writing"},
   lastId : 0..Len(Kind[s]), got : 0..Len(Kind[s]), done : 0..Len(Kind[s]), file : 1..2,
   emitted : Seq(1..Len(Kind[s]))]

(* A block is in hand while its files are written, and they are taken in   *)
(* their order.                                                            *)
FilesInOrder(st) ==
  /\ ~Pending(st) => st.file = 1
  /\ Pending(st) => st.done > 0

(* The last id is that of the newest block with one, up to the blocks      *)
(* without.                                                                *)
LastIdInv(st, s) ==
  /\ st.done <= st.got
  /\ (st.at = "reading" \/ Pending(st)) /\ st.lastId # 0 =>
       /\ st.lastId <= st.done
       /\ \A n \in (st.lastId + 1)..st.done : Kind[s][n] = "anonymous"
  /\ Pending(st) /\ Kind[s][st.done] = "event" => st.lastId = st.done

(* What was emitted precedes the last id, and all of it but the block in   *)
(* hand has been emitted since.                                            *)
EmittedInv(st, s) ==
  \A i \in DOMAIN st.emitted : Kind[s][st.emitted[i]] = "event" =>
    /\ st.emitted[i] <= st.lastId
    /\ Pending(st) => st.emitted[i] < st.done
    /\ \A n \in (st.emitted[i] + 1)..st.lastId : Kind[s][n] = "event" =>
         \/ \E k \in DOMAIN st.emitted : st.emitted[k] = n
         \/ Pending(st) /\ n = st.done
    /\ \A j \in DOMAIN st.emitted :
         i < j /\ Kind[s][st.emitted[j]] = "event" => st.emitted[i] < st.emitted[j]

StreamInv(st, s) ==
  st \in StreamType(s) /\ FilesInOrder(st) /\ LastIdInv(st, s) /\ EmittedInv(st, s)

(* The lines whose writing has ended, and those with the pool as well.     *)
Recorded == disk \cup failed
Handled == pool \cup Recorded

(* The lines are never forgotten: those of the pool end up recorded.       *)
LinesGrow == Handled \subseteq Handled' /\ Recorded \subseteq Recorded'

Lines == [task : Tasks, stream : Streams, block : Nat, file : 1..2]
ShownLines == [task : Tasks, stream : Streams, block : Nat]

LinesInv == pool \subseteq Lines /\ disk \subseteq Lines /\ failed \subseteq Lines
ShownInv == shown \subseteq ShownLines

(* The line of the block in hand in file f.                                *)
Put(t, s, st, f) == [task |-> t, stream |-> s, block |-> st.done, file |-> f]

(* A line that is waited for is with the pool or recorded, and that of the *)
(* first file is recorded while the second is written.                     *)
PoolInv ==
  \A t \in Tasks, s \in Streams :
    /\ stream[<<t, s>>].at = "writing" =>
         Put(t, s, stream[<<t, s>>], stream[<<t, s>>].file) \in Handled
    /\ stream[<<t, s>>].file = 2 => Put(t, s, stream[<<t, s>>], 1) \in Recorded

CommandInv ==
  /\ slot \in Tasks \cup {NoTask}
  /\ caller \in [Callers -> [at : {"idle", "spawn", "store"}, new : Tasks \cup {NoTask}]]
  /\ task \in [Tasks -> {"unused", "running", "dying", "gone"}]
  /\ faults \in 0..MaxFaults

StreamsInv ==
  /\ stream \in [Tasks \X Streams -> UNION {StreamType(s) : s \in Streams}]
  /\ \A t \in Tasks, s \in Streams : StreamInv(stream[<<t, s>>], s)

IInv == CommandInv /\ StreamsInv /\ LinesInv /\ ShownInv /\ PoolInv /\ EmittedWasRecorded

(* The updates of a stream, by what they set.                              *)
Asked(st, at) == [st EXCEPT !.at = at]
Connection(st, at, n) == [st EXCEPT !.at = at, !.got = n, !.done = n]
Holding(st, at, file) == [st EXCEPT !.at = at, !.file = file]
With(st, at, file, e) == [st EXCEPT !.at = at, !.file = file, !.emitted = e]

-----------------------------------------------------------------------------
(* One stream.                                                             *)

(* Every block of a stream is of one of the three kinds. *)
LEMMA KindType ==
  ASSUME NEW s \in Streams
  PROVE  /\ Len(Kind[s]) \in Nat
         /\ \A n \in 1..Len(Kind[s]) : Kind[s][n] \in {"event", "anonymous", "junk"}
BY FeedAssumption DEF Streams

(* A connection that has not been made has passed nothing over. *)
LEMMA IdleIsGood == ASSUME NEW s \in Streams PROVE StreamInv(Idle, s)
<1>1. Idle \in StreamType(s)
  BY KindType DEF Idle, StreamType
<1>2. FilesInOrder(Idle) /\ LastIdInv(Idle, s)
  BY DEF FilesInOrder, LastIdInv, Idle, Pending
<1>3. EmittedInv(Idle, s)
  BY DEF EmittedInv, Idle
<1> QED BY <1>1, <1>2, <1>3 DEF StreamInv

(* The connection is asked for, accepted or lost; nothing is in hand.      *)
LEMMA ConnectionKeeps ==
  ASSUME NEW s \in Streams, NEW st, StreamInv(st, s), ~Pending(st),
         NEW at \in {"connect", "asked", "refresh", "retried", "reading"},
         NEW n \in 0..Len(Kind[s]),
         (at = "reading" /\ st.lastId # 0) => n = st.lastId
  PROVE  StreamInv(Connection(st, at, n), s)
<1> DEFINE new == Connection(st, at, n)
<1>1. st \in StreamType(s) /\ Len(Kind[s]) \in Nat
  BY KindType DEF StreamInv
<1>2. /\ new.at = at /\ new.got = n /\ new.done = n /\ new.lastId = st.lastId
      /\ new.file = st.file /\ new.emitted = st.emitted
      /\ new \in StreamType(s)
  BY <1>1 DEF StreamType, Connection
<1> HIDE DEF new
<1>3. ~Pending(new)
  BY <1>2 DEF Pending
<1>4. FilesInOrder(new)
  BY <1>2, <1>3 DEF StreamInv, FilesInOrder
<1>5. LastIdInv(new, s)
  BY <1>1, <1>2, <1>3 DEF LastIdInv, StreamType
<1>6. EmittedInv(new, s)
  BY <1>2, <1>3 DEF StreamInv, EmittedInv
<1> QED BY <1>2, <1>4, <1>5, <1>6 DEF StreamInv, new

(* A request that is repeated or refreshed keeps the connection's account. *)
LEMMA AskedKeeps ==
  ASSUME NEW s \in Streams, NEW st, StreamInv(st, s),
         ~Pending(st), NEW at \in {"asked", "refresh", "retried"}
  PROVE  StreamInv(Asked(st, at), s)
<1> DEFINE new == Asked(st, at)
<1>1. st \in StreamType(s) /\ Len(Kind[s]) \in Nat
  BY KindType DEF StreamInv
<1>2. /\ new.at = at /\ new.got = st.got /\ new.done = st.done /\ new.lastId = st.lastId
      /\ new.file = st.file /\ new.emitted = st.emitted
      /\ new \in StreamType(s)
  BY <1>1 DEF StreamType, Asked
<1> HIDE DEF new
<1>3. ~Pending(new)
  BY <1>2 DEF Pending
<1>4. FilesInOrder(new) /\ LastIdInv(new, s)
  BY <1>2, <1>3 DEF StreamInv, FilesInOrder, LastIdInv
<1>5. EmittedInv(new, s)
  BY <1>2, <1>3 DEF StreamInv, EmittedInv
<1> QED BY <1>2, <1>4, <1>5 DEF StreamInv, new

(* A chunk lengthens what was received, not what was worked off. *)
LEMMA ChunkKeeps ==
  ASSUME NEW s \in Streams, NEW st, StreamInv(st, s), st.at = "reading",
         NEW n \in (st.got + 1)..Len(Kind[s])
  PROVE  StreamInv([st EXCEPT !.got = n], s)
<1> DEFINE new == [st EXCEPT !.got = n]
<1>1. st \in StreamType(s) /\ Len(Kind[s]) \in Nat
  BY KindType DEF StreamInv
<1>2. /\ new.at = st.at /\ new.got = n /\ new.done = st.done /\ new.lastId = st.lastId
      /\ new.file = st.file /\ new.emitted = st.emitted
      /\ new \in StreamType(s)
  BY <1>1 DEF StreamType
<1>3. st.done <= n
  BY <1>1 DEF StreamInv, LastIdInv, StreamType
<1> HIDE DEF new
<1>4. FilesInOrder(new) /\ LastIdInv(new, s)
  BY <1>2, <1>3 DEF StreamInv, FilesInOrder, LastIdInv, Pending
<1>5. EmittedInv(new, s)
  BY <1>2 DEF StreamInv, EmittedInv, Pending
<1> QED BY <1>2, <1>4, <1>5 DEF StreamInv, new

(* A block that is taken has its turn, and sets the id to resume from. *)
LEMMA TakeKeeps ==
  ASSUME NEW s \in Streams, NEW st, StreamInv(st, s), st.at = "reading", st.done < st.got
  PROVE  StreamInv([st EXCEPT !.done = st.done + 1, !.lastId = LastId(st, s, st.done + 1),
                      !.at = IF Parses(s, st.done + 1) THEN "open" ELSE "reading"], s)
<1> DEFINE n == st.done + 1
           at == IF Parses(s, n) THEN "open" ELSE "reading"
           id == LastId(st, s, n)
           new == [st EXCEPT !.done = n, !.lastId = id, !.at = at]
<1>1. st \in StreamType(s) /\ Len(Kind[s]) \in Nat
  BY KindType DEF StreamInv
<1>2. /\ n \in 1..Len(Kind[s]) /\ n <= st.got /\ Kind[s][n] \in {"event", "anonymous", "junk"}
      /\ st.lastId \in Nat
  BY <1>1, KindType DEF StreamType
<1>3. /\ id = IF Kind[s][n] = "anonymous" THEN st.lastId ELSE n
      /\ at = IF Kind[s][n] = "junk" THEN "reading" ELSE "open"
  BY <1>2 DEF LastId, Parses
<1> HIDE DEF n, at, id
<1>4. id \in 0..Len(Kind[s]) /\ at \in {"open", "reading"}
  BY <1>1, <1>2, <1>3 DEF StreamType
<1>5. /\ new.at = at /\ new.got = st.got /\ new.done = n /\ new.lastId = id
      /\ new.file = st.file /\ new.emitted = st.emitted
      /\ new \in StreamType(s)
  <2>1. n \in 0..Len(Kind[s])
    BY <1>1, <1>2
  <2> QED BY <1>1, <1>4, <2>1 DEF StreamType
<1> HIDE DEF new
<1>6. Pending(new) <=> Kind[s][n] # "junk"
  BY <1>2, <1>3, <1>5 DEF Pending
<1>7. FilesInOrder(new)
  BY <1>2, <1>5 DEF StreamInv, FilesInOrder, Pending
<1>8. LastIdInv(new, s)
  <2>1. /\ st.lastId # 0 => st.lastId <= st.done
                            /\ \A m \in (st.lastId + 1)..st.done : Kind[s][m] = "anonymous"
    BY DEF StreamInv, LastIdInv
  <2>2. CASE Kind[s][n] = "anonymous"
    <3>1. id = st.lastId
      BY <2>2, <1>3
    <3>2. ASSUME st.lastId # 0
          PROVE  id <= n /\ \A m \in (id + 1)..n : Kind[s][m] = "anonymous"
      BY <2>1, <2>2, <3>1, <3>2, <1>1, <1>2 DEF n, StreamType
    <3> QED BY <3>1, <3>2, <2>2, <1>2, <1>5 DEF LastIdInv
  <2>3. CASE Kind[s][n] # "anonymous"
    <3>1. id = n /\ n \in Nat
      BY <2>3, <1>2, <1>3
    <3>2. \A m \in (n + 1)..n : FALSE
      BY <3>1
    <3> QED BY <3>1, <3>2, <1>2, <1>5 DEF LastIdInv
  <2> QED BY <2>2, <2>3
<1>9. EmittedInv(new, s)
  <2> SUFFICES ASSUME NEW i \in DOMAIN st.emitted, Kind[s][st.emitted[i]] = "event"
               PROVE  /\ st.emitted[i] <= id
                      /\ Pending(new) => st.emitted[i] < n
                      /\ \A m \in (st.emitted[i] + 1)..id : Kind[s][m] = "event" =>
                           \/ \E k \in DOMAIN st.emitted : st.emitted[k] = m
                           \/ Pending(new) /\ m = n
                      /\ \A j \in DOMAIN st.emitted :
                           i < j /\ Kind[s][st.emitted[j]] = "event" => st.emitted[i] < st.emitted[j]
    BY <1>5 DEF EmittedInv
  <2>1. st.emitted[i] \in Nat /\ st.emitted[i] > 0
    BY <1>1 DEF StreamType
  <2>2. ~Pending(st)
    BY DEF Pending
  <2>3. /\ st.emitted[i] <= st.lastId
        /\ \A m \in (st.emitted[i] + 1)..st.lastId : Kind[s][m] = "event" =>
             \E k \in DOMAIN st.emitted : st.emitted[k] = m
        /\ \A j \in DOMAIN st.emitted :
             i < j /\ Kind[s][st.emitted[j]] = "event" => st.emitted[i] < st.emitted[j]
    BY <2>2 DEF StreamInv, EmittedInv
  <2>4. /\ st.lastId # 0 /\ st.lastId <= st.done /\ st.done \in Nat
        /\ \A m \in (st.lastId + 1)..st.done : Kind[s][m] = "anonymous"
    BY <2>1, <2>3, <1>1, <1>2 DEF StreamInv, LastIdInv, StreamType
  <2>5. st.emitted[i] < n /\ id >= st.lastId /\ id \in Nat
    BY <2>1, <2>3, <2>4, <1>2, <1>3 DEF n
  <2>6. ASSUME NEW m \in (st.emitted[i] + 1)..id, Kind[s][m] = "event"
        PROVE  \/ \E k \in DOMAIN st.emitted : st.emitted[k] = m
               \/ Pending(new) /\ m = n
    <3>1. CASE m <= st.lastId
      BY <3>1, <2>1, <2>3, <2>6, <1>2
    <3>2. CASE m > st.lastId
      <4>1. id = n /\ Kind[s][n] # "anonymous"
        BY <3>2, <2>1, <2>6, <1>2, <1>3
      <4>2. m = n \/ m \in (st.lastId + 1)..st.done
        BY <4>1, <3>2, <2>1, <2>4, <2>6, <1>2 DEF n
      <4>3. m = n
        BY <4>2, <2>4, <2>6
      <4> QED BY <4>3, <2>6, <1>6
    <3> QED BY <3>1, <3>2, <2>1, <2>5, <1>2
  <2> QED BY <2>1, <2>3, <2>5, <2>6, <1>2
<1> QED BY <1>5, <1>7, <1>8, <1>9 DEF StreamInv, n, at, id, new

(* Between the two files: the same block stays in hand.                    *)
LEMMA FilesKeep ==
  ASSUME NEW s \in Streams, NEW st, StreamInv(st, s), Pending(st),
         NEW at \in {"open", "writing"}, NEW file \in 1..2
  PROVE  StreamInv(Holding(st, at, file), s)
<1> DEFINE new == Holding(st, at, file)
<1>1. st \in StreamType(s)
  BY DEF StreamInv
<1>2. /\ new.at = at /\ new.got = st.got /\ new.done = st.done /\ new.lastId = st.lastId
      /\ new.file = file /\ new.emitted = st.emitted
      /\ new \in StreamType(s)
  BY <1>1 DEF StreamType, Holding
<1> HIDE DEF new
<1>3. Pending(new)
  BY <1>2 DEF Pending
<1>4. FilesInOrder(new) /\ LastIdInv(new, s)
  BY <1>2, <1>3 DEF StreamInv, FilesInOrder, LastIdInv
<1>5. EmittedInv(new, s)
  BY <1>2, <1>3 DEF StreamInv, EmittedInv
<1> QED BY <1>2, <1>4, <1>5 DEF StreamInv, new

(* Moving a connection on leaves a connection. *)
LEMMA WithTypes ==
  ASSUME NEW s \in Streams, NEW st \in StreamType(s), NEW at \in {"open", "reading", "writing"},
         NEW file \in 1..2, NEW e \in Seq(1..Len(Kind[s]))
  PROVE  With(st, at, file, e) \in StreamType(s)
BY DEF StreamType, With

(* The block in hand is emitted.                                           *)
LEMMA EmitKeeps ==
  ASSUME NEW s \in Streams, NEW st, StreamInv(st, s), Pending(st)
  PROVE  StreamInv([st EXCEPT !.at = "reading", !.file = 1,
                              !.emitted = Append(st.emitted, st.done)], s)
<1> DEFINE e == Append(st.emitted, st.done)
           new == [st EXCEPT !.at = "reading", !.file = 1, !.emitted = e]
           len == Len(st.emitted)
<1>1. /\ st \in StreamType(s) /\ Len(Kind[s]) \in Nat
      /\ st.done \in 1..Len(Kind[s])
  BY KindType DEF StreamInv, StreamType, FilesInOrder
<1>2. /\ e \in Seq(1..Len(Kind[s])) /\ len \in Nat
      /\ DOMAIN st.emitted = 1..len /\ DOMAIN e = 1..(len + 1) /\ e[len + 1] = st.done
      /\ \A i \in 1..len : e[i] = st.emitted[i] /\ st.emitted[i] \in Nat
  BY <1>1 DEF StreamType
<1> HIDE DEF e, len
<1>3. /\ new.at = "reading" /\ new.got = st.got /\ new.done = st.done /\ new.lastId = st.lastId
      /\ new.file = 1 /\ new.emitted = e
      /\ new \in StreamType(s)
  <2>1. /\ e \in Seq(1..Len(Kind[s])) /\ 1 \in 1..2
        /\ st \in StreamType(s)
    BY <1>1, <1>2
  <2>2. With(st, "reading", 1, e) \in StreamType(s)
    BY <2>1, WithTypes
  <2>3. new = With(st, "reading", 1, e)
    BY DEF With
  <2>4. new \in StreamType(s)
    BY <2>2, <2>3
  <2> QED BY <2>1, <2>4 DEF StreamType
<1> HIDE DEF new
<1>4. ~Pending(new)
  BY <1>3 DEF Pending
<1>5. FilesInOrder(new) /\ LastIdInv(new, s)
  BY <1>3, <1>4 DEF StreamInv, FilesInOrder, LastIdInv
<1>6. EmittedInv(new, s)
  <2> SUFFICES ASSUME NEW i \in 1..(len + 1), Kind[s][e[i]] = "event"
               PROVE  /\ e[i] <= st.lastId
                      /\ \A n \in (e[i] + 1)..st.lastId : Kind[s][n] = "event" =>
                           \E k \in 1..(len + 1) : e[k] = n
                      /\ \A j \in 1..(len + 1) :
                           i < j /\ Kind[s][e[j]] = "event" => e[i] < e[j]
    <3>1. new.emitted = e /\ new.lastId = st.lastId /\ DOMAIN e = 1..(len + 1)
      BY <1>2, <1>3
    <3> QED BY <1>4, <3>1, Zenon DEF EmittedInv
  <2>1. st.lastId \in Nat /\ st.done \in Nat
    BY <1>1 DEF StreamType
  <2>2. CASE i = len + 1
    <3>1. e[i] = st.lastId
      BY <2>2, <1>2 DEF StreamInv, LastIdInv
    <3> QED BY <3>1, <2>1, <2>2, <1>2
  <2>3. CASE i \in 1..len
    <3>1. /\ e[i] = st.emitted[i] /\ e[i] \in Nat /\ e[i] <= st.lastId /\ e[i] < st.done
          /\ \A n \in (e[i] + 1)..st.lastId : Kind[s][n] = "event" =>
               (\E k \in 1..len : st.emitted[k] = n) \/ n = st.done
          /\ \A j \in 1..len : i < j /\ Kind[s][st.emitted[j]] = "event" => e[i] < st.emitted[j]
      <4>1. /\ e[i] = st.emitted[i] /\ e[i] \in Nat /\ Kind[s][st.emitted[i]] = "event"
            /\ i \in DOMAIN st.emitted /\ DOMAIN st.emitted = 1..len
        BY <2>3, <1>2
      <4>2. /\ st.emitted[i] <= st.lastId /\ st.emitted[i] < st.done
            /\ \A n \in (st.emitted[i] + 1)..st.lastId : Kind[s][n] = "event" =>
                 (\E k \in DOMAIN st.emitted : st.emitted[k] = n) \/ (Pending(st) /\ n = st.done)
            /\ \A j \in DOMAIN st.emitted :
                 i < j /\ Kind[s][st.emitted[j]] = "event" => st.emitted[i] < st.emitted[j]
        BY <4>1, Zenon DEF StreamInv, EmittedInv
      <4> QED BY <4>1, <4>2, Zenon
    <3>2. ASSUME NEW n \in (e[i] + 1)..st.lastId, Kind[s][n] = "event"
          PROVE  \E k \in 1..(len + 1) : e[k] = n
      <4>1. CASE n = st.done
        BY <4>1, <1>2
      <4>2. CASE \E k \in 1..len : st.emitted[k] = n
        BY <4>2, <1>2
      <4> QED BY <3>1, <3>2, <4>1, <4>2
    <3>3. ASSUME NEW j \in 1..(len + 1), i < j, Kind[s][e[j]] = "event"
          PROVE  e[i] < e[j]
      <4>1. CASE j = len + 1
        BY <4>1, <3>1, <1>2
      <4>2. CASE j \in 1..len
        BY <4>2, <3>1, <3>3, <1>2
      <4> QED BY <4>1, <4>2, <1>2
    <3> QED BY <3>1, <3>2, <3>3
  <2> QED BY <2>2, <2>3, <1>2
<1> QED BY <1>3, <1>5, <1>6 DEF StreamInv, new, e

-----------------------------------------------------------------------------
(* All streams.                                                            *)

(* A task that is dropped leaves the other tasks' connections alone. *)
LEMMA DroppedKeeps ==
  ASSUME StreamsInv, PoolInv, LinesGrow, NEW t \in Tasks, stream' = Dropped(t)
  PROVE  StreamsInv' /\ PoolInv'
<1>1. ASSUME NEW u \in Tasks, NEW s \in Streams
      PROVE  stream'[<<u, s>>] = IF u = t THEN Idle ELSE stream[<<u, s>>]
  BY DEF Dropped
<1>2. \A u \in Tasks, s \in Streams : StreamInv(stream'[<<u, s>>], s)
  BY <1>1, IdleIsGood DEF StreamsInv
<1>3. stream' \in [Tasks \X Streams -> UNION {StreamType(s) : s \in Streams}]
  <2>1. \A x \in Tasks \X Streams :
          stream'[x] \in UNION {StreamType(s) : s \in Streams}
    BY <1>2 DEF StreamInv
  <2> QED BY <2>1 DEF Dropped
<1>4. PoolInv'
  <2>1. Idle.at # "writing" /\ Idle.file # 2
    BY DEF Idle
  <2> QED BY <1>1, <2>1 DEF PoolInv, LinesGrow, Put
<1> QED BY <1>2, <1>3, <1>4 DEF StreamsInv

(* One connection moving on leaves the others, and their lines.            *)
LEMMA AssignedKeeps ==
  ASSUME StreamsInv, PoolInv, LinesGrow, NEW t \in Tasks, NEW s \in Streams,
         NEW st, StreamInv(st, s), stream' = [stream EXCEPT ![<<t, s>>] = st],
         st.at = "writing" => Put(t, s, st, st.file) \in Handled',
         st.file = 2 => Put(t, s, st, 1) \in Recorded'
  PROVE  StreamsInv' /\ PoolInv'
<1>1. ASSUME NEW u \in Tasks, NEW v \in Streams
      PROVE  stream'[<<u, v>>] = IF u = t /\ v = s THEN st ELSE stream[<<u, v>>]
  BY DEF StreamsInv
<1>2. \A u \in Tasks, v \in Streams : StreamInv(stream'[<<u, v>>], v)
  BY <1>1 DEF StreamsInv
<1>3. stream' \in [Tasks \X Streams -> UNION {StreamType(v) : v \in Streams}]
  <2>1. st \in UNION {StreamType(v) : v \in Streams}
    BY DEF StreamInv
  <2> QED BY <2>1 DEF StreamsInv
<1>4. PoolInv'
  <2> SUFFICES ASSUME NEW u \in Tasks, NEW v \in Streams
               PROVE  /\ stream'[<<u, v>>].at = "writing" =>
                           Put(u, v, stream'[<<u, v>>], stream'[<<u, v>>].file) \in Handled'
                      /\ stream'[<<u, v>>].file = 2 => Put(u, v, stream'[<<u, v>>], 1) \in Recorded'
    BY DEF PoolInv, Put
  <2>1. CASE u = t /\ v = s
    <3>1. stream'[<<u, v>>] = st
      BY <1>1, <2>1
    <3> QED BY <2>1, <3>1
  <2>2. CASE ~(u = t /\ v = s)
    <3>1. stream'[<<u, v>>] = stream[<<u, v>>]
      BY <1>1, <2>2
    <3> QED BY <3>1 DEF PoolInv, LinesGrow
  <2> QED BY <2>1, <2>2
<1> QED BY <1>2, <1>3, <1>4 DEF StreamsInv

(* A step of a stream, of a task that goes on or of one that was aborted.  *)
LEMMA PolledKeeps ==
  ASSUME StreamsInv, PoolInv, LinesGrow, NEW t \in Tasks, NEW s \in Streams,
         NEW st, StreamInv(st, s), Polled(t, s, st),
         st.at = "writing" => Put(t, s, st, st.file) \in Handled',
         st.file = 2 => Put(t, s, st, 1) \in Recorded'
  PROVE  StreamsInv' /\ PoolInv'
<1>1. CASE stream' = [stream EXCEPT ![<<t, s>>] = st]
  BY <1>1, AssignedKeeps
<1>2. CASE stream' = Dropped(t)
  BY <1>2, DroppedKeeps
<1> QED BY <1>1, <1>2 DEF Polled

(* A connection with no block in hand has no lines to account for.         *)
LEMMA ConnectedKeeps ==
  ASSUME StreamsInv, PoolInv, LinesGrow, NEW t \in Tasks, NEW s \in Streams,
         NEW st, StreamInv(st, s), Polled(t, s, st), st.at # "writing", st.file = 1
  PROVE  StreamsInv' /\ PoolInv'
BY PolledKeeps

(* What is on the screen stays recorded.                                   *)
LEMMA ShownKeeps ==
  ASSUME ShownInv, EmittedWasRecorded, LinesGrow, shown' = shown
  PROVE  ShownInv' /\ EmittedWasRecorded'
BY DEF ShownInv, EmittedWasRecorded, LinesGrow, Recorded

(* Requests, answers and blocks keep each connection's account. *)
LEMMA ConnectionStepKeeps ==
  ASSUME IInv, NEW t \in Tasks, NEW s \in Streams,
         \/ Connect(t, s) \/ Accepted(t, s) \/ Unauthorized(t, s) \/ RefreshGuestJwt(t, s)
         \/ Disconnected(t, s) \/ Chunk(t, s) \/ TakeBlock(t, s)
  PROVE  StreamsInv' /\ PoolInv' /\ UNCHANGED <<pool, disk, failed, shown>>
<1> DEFINE st == stream[<<t, s>>]
<1>1. StreamInv(st, s) /\ st \in StreamType(s) /\ StreamsInv /\ PoolInv
  BY DEF IInv, StreamsInv, StreamInv
<1>2. UNCHANGED <<pool, disk, failed, shown>> /\ LinesGrow
  <2>1. UNCHANGED <<pool, disk, failed, shown>>
    BY DEF Connect, Accepted, Unauthorized, RefreshGuestJwt, Disconnected, Chunk, TakeBlock, Quiet,
       fileVars
  <2> QED BY <2>1 DEF LinesGrow, Handled, Recorded
<1>0. ~Pending(st) => st.file = 1
  BY <1>1 DEF StreamInv, FilesInOrder
<1> HIDE DEF st
<1>3. ASSUME NEW at \in {"asked", "refresh", "retried"}, ~Pending(st),
             Polled(t, s, Asked(st, at))
      PROVE  StreamsInv' /\ PoolInv'
  <2>1. StreamInv(Asked(st, at), s)
    BY <1>1, <1>3, AskedKeeps
  <2>2. Asked(st, at).at # "writing" /\ Asked(st, at).file = 1
    BY <1>0, <1>1, <1>3 DEF StreamType, Asked
  <2> QED BY <1>1, <1>2, <1>3, <2>1, <2>2, ConnectedKeeps
<1>4. ASSUME NEW at \in {"connect", "reading"}, NEW n \in 0..Len(Kind[s]), ~Pending(st),
             (at = "reading" /\ st.lastId # 0) => n = st.lastId,
             Polled(t, s, Connection(st, at, n))
      PROVE  StreamsInv' /\ PoolInv'
  <2>1. StreamInv(Connection(st, at, n), s)
    BY <1>1, <1>4, ConnectionKeeps
  <2>2. Connection(st, at, n).at # "writing" /\ Connection(st, at, n).file = 1
    BY <1>0, <1>1, <1>4 DEF StreamType, Connection
  <2> QED BY <1>1, <1>2, <1>4, <2>1, <2>2, ConnectedKeeps
<1>5. CASE Connect(t, s) \/ Unauthorized(t, s) \/ RefreshGuestJwt(t, s)
  <2>1. \/ Polled(t, s, Asked(st, "asked"))
        \/ Polled(t, s, Asked(st, "refresh"))
        \/ Polled(t, s, Asked(st, "retried"))
    BY <1>5 DEF Connect, Unauthorized, RefreshGuestJwt, Asked, st
  <2>2. ~Pending(st)
    BY <1>5 DEF Connect, Unauthorized, RefreshGuestJwt, Pending, st
  <2> QED BY <1>1, <1>2, <1>3, <2>1, <2>2
<1>6. CASE Accepted(t, s)
  <2>1. PICK n \in IF st.lastId # 0 THEN {st.lastId} ELSE 0..Len(Kind[s]) :
          Polled(t, s, Connection(st, "reading", n))
    BY <1>6 DEF Accepted, Connected, Connection, st
  <2>2. n \in 0..Len(Kind[s]) /\ (st.lastId # 0 => n = st.lastId)
    BY <1>1, <2>1 DEF StreamType
  <2>3. ~Pending(st)
    BY <1>6 DEF Pending, Accepted, st
  <2> QED BY <1>1, <1>2, <1>4, <2>1, <2>2, <2>3
<1>7. CASE Disconnected(t, s)
  <2>1. Polled(t, s, Connection(st, "connect", 0))
    BY <1>7 DEF Disconnected, Connection, st
  <2>2. 0 \in 0..Len(Kind[s])
    BY KindType
  <2>3. ~Pending(st)
    BY <1>7 DEF Disconnected, Pending, st
  <2> QED BY <1>1, <1>2, <1>4, <2>1, <2>2, <2>3
<1>8. CASE Chunk(t, s)
  <2>1. PICK n \in (st.got + 1)..Len(Kind[s]) : Polled(t, s, [st EXCEPT !.got = n])
    BY <1>8 DEF Chunk, st
  <2>2. st.at = "reading"
    BY <1>8 DEF Chunk, st
  <2>3. StreamInv([st EXCEPT !.got = n], s)
    BY <1>1, <2>2, ChunkKeeps
  <2>4. [st EXCEPT !.got = n].at # "writing" /\ [st EXCEPT !.got = n].file = 1
    BY <1>0, <1>1, <2>2 DEF StreamType, Pending
  <2> QED BY <1>1, <1>2, <2>1, <2>3, <2>4, ConnectedKeeps
<1>9. CASE TakeBlock(t, s)
  <2> DEFINE new == [st EXCEPT !.done = st.done + 1, !.lastId = LastId(st, s, st.done + 1),
                        !.at = IF Parses(s, st.done + 1) THEN "open" ELSE "reading"]
  <2>1. Polled(t, s, new) /\ st.at = "reading" /\ st.done < st.got
    BY <1>9 DEF TakeBlock, st
  <2>2. StreamInv(new, s)
    BY <1>1, <2>1, TakeKeeps
  <2>3. new.at # "writing" /\ new.file = 1
    BY <1>0, <1>1, <2>1 DEF StreamType, Pending
  <2> HIDE DEF new
  <2> QED BY <1>1, <1>2, <2>1, <2>2, <2>3, ConnectedKeeps
<1> QED BY <1>1, <1>2, <1>5, <1>6, <1>7, <1>8, <1>9

(* The event goes out once the lines of all its files are recorded.        *)
LEMMA EmitEventKeeps ==
  ASSUME IInv, LinesGrow, NEW t \in Tasks, NEW s \in Streams, Pending(stream[<<t, s>>]),
         EmitEvent(t, s),
         \A f \in 1..LastFile(s, stream[<<t, s>>].done) : Put(t, s, stream[<<t, s>>], f) \in Recorded'
  PROVE  StreamsInv' /\ PoolInv' /\ ShownInv' /\ EmittedWasRecorded'
<1> DEFINE st == stream[<<t, s>>]
           new == [st EXCEPT !.at = "reading", !.file = 1, !.emitted = Append(st.emitted, st.done)]
           x == [task |-> t, stream |-> s, block |-> st.done]
<1>1. StreamInv(st, s) /\ st \in StreamType(s) /\ StreamsInv /\ PoolInv
  BY DEF IInv, StreamsInv, StreamInv
<1>2. Polled(t, s, new) /\ shown' = shown \cup {x}
  BY DEF EmitEvent
<1>3. StreamInv(new, s)
  BY <1>1, EmitKeeps
<1>4. new.at # "writing" /\ new.file = 1
  BY <1>1 DEF StreamType
<1> HIDE DEF new
<1>5. StreamsInv' /\ PoolInv'
  BY <1>1, <1>2, <1>3, <1>4, ConnectedKeeps
<1>6. ShownInv'
  <2>1. st.done \in Nat
    BY <1>1, KindType DEF StreamType
  <2> QED BY <1>2, <2>1 DEF ShownInv, ShownLines, IInv
<1>7. EmittedWasRecorded'
  <2> SUFFICES ASSUME NEW y \in shown', NEW f \in 1..LastFile(y.stream, y.block)
               PROVE  [task |-> y.task, stream |-> y.stream, block |-> y.block, file |-> f] \in Recorded'
    BY DEF EmittedWasRecorded, Recorded
  <2>1. CASE y = x
    <3>1. y.task = t /\ y.stream = s /\ y.block = st.done
      BY <2>1
    <3> QED BY <3>1 DEF Put
  <2>2. CASE y \in shown
    BY <2>2 DEF IInv, EmittedWasRecorded, LinesGrow, Recorded
  <2> QED BY <1>2, <2>1, <2>2
<1> QED BY <1>5, <1>6, <1>7

(* One file is done with: the next is opened, or the event goes out.       *)
LEMMA NextFileKeeps ==
  ASSUME IInv, LinesGrow, NEW t \in Tasks, NEW s \in Streams, Pending(stream[<<t, s>>]),
         NextFile(t, s), Line(t, s) \in Recorded'
  PROVE  StreamsInv' /\ PoolInv' /\ ShownInv' /\ EmittedWasRecorded'
<1> DEFINE st == stream[<<t, s>>]
<1>1. /\ StreamInv(st, s) /\ st \in StreamType(s) /\ StreamsInv /\ PoolInv
      /\ ShownInv /\ EmittedWasRecorded
  BY DEF IInv, StreamsInv, StreamInv
<1>2. /\ st.file \in {1, 2} /\ LastFile(s, st.done) \in {1, 2}
      /\ Put(t, s, st, st.file) \in Recorded'
      /\ st.file = 2 => Put(t, s, st, 1) \in Recorded'
  BY <1>1 DEF StreamType, LastFile, Line, LineIn, Put, PoolInv, LinesGrow
<1>3. CASE st.file < LastFile(s, st.done)
  <2> DEFINE new == Holding(st, "open", 2)
  <2>0. st.file = 1
    BY <1>2, <1>3
  <2>1. shown' = shown /\ Polled(t, s, new)
    BY <1>3, <2>0 DEF NextFile, Holding
  <2>2. StreamInv(new, s)
    BY <1>1, FilesKeep
  <2>3. new.at # "writing" /\ new.done = st.done /\ new.file = 2
    BY <1>1 DEF StreamType, Holding
  <2> HIDE DEF new
  <2>4. Put(t, s, new, 1) \in Recorded'
    BY <1>2, <2>0, <2>3 DEF Put
  <2>5. StreamsInv' /\ PoolInv'
    BY <1>1, <2>1, <2>2, <2>3, <2>4, PolledKeeps
  <2> QED BY <1>1, <2>1, <2>5, ShownKeeps
<1>4. CASE ~(st.file < LastFile(s, st.done))
  <2>1. EmitEvent(t, s)
    BY <1>4 DEF NextFile
  <2>2. \A f \in 1..LastFile(s, st.done) : Put(t, s, st, f) \in Recorded'
    <3>1. \A f \in 1..LastFile(s, st.done) : f = st.file \/ (f = 1 /\ st.file = 2)
      BY <1>2, <1>4
    <3> QED BY <1>2, <3>1
  <2> QED BY <2>1, <2>2, EmitEventKeeps
<1> QED BY <1>3, <1>4

(* OpenReplay hands a line to the pool; a file that cannot be opened and a *)
(* line whose write has ended are done with.                               *)
LEMMA RecordingKeeps ==
  ASSUME IInv, NEW t \in Tasks, NEW s \in Streams,
         OpenReplay(t, s) \/ DirectoryFails(t, s) \/ OpenFails(t, s) \/ LineWritten(t, s)
  PROVE  StreamsInv' /\ PoolInv' /\ LinesInv' /\ ShownInv' /\ EmittedWasRecorded'
<1> DEFINE st == stream[<<t, s>>]
<1>1. /\ StreamInv(st, s) /\ st \in StreamType(s) /\ StreamsInv /\ PoolInv
      /\ LinesInv /\ ShownInv /\ EmittedWasRecorded
  BY DEF IInv, StreamsInv, StreamInv
<1>2. Pending(st) /\ st.file \in 1..2 /\ st.done \in Nat
  BY <1>1, KindType DEF OpenReplay, DirectoryFails, OpenFails, LineWritten, Pending, StreamType
<1>3. \A f \in 1..2 : LineIn(t, s, f) \in Lines /\ Put(t, s, st, f) = LineIn(t, s, f)
  BY <1>2 DEF LineIn, Lines, Put
<1>4. CASE OpenReplay(t, s)
  <2> DEFINE new == [st EXCEPT !.at = "writing"]
  <2>1. /\ Polled(t, s, new) /\ pool' = pool \cup {Line(t, s)}
        /\ disk' = disk /\ failed' = failed /\ shown' = shown
    BY <1>4 DEF OpenReplay
  <2>2. new = Holding(st, "writing", st.file)
    BY <1>1 DEF StreamType, Holding
  <2>3. StreamInv(new, s)
    BY <1>1, <1>2, <2>2, FilesKeep
  <2>4. new.done = st.done /\ new.file = st.file
    BY <1>1 DEF StreamType
  <2> HIDE DEF new
  <2>5. LinesGrow
    BY <2>1 DEF LinesGrow, Handled, Recorded
  <2>6. Put(t, s, new, new.file) \in Handled'
    BY <1>2, <1>3, <2>1, <2>4 DEF Handled, Line, Put
  <2>7. new.file = 2 => Put(t, s, new, 1) \in Recorded'
    BY <1>1, <2>1, <2>4 DEF PoolInv, Recorded, Put
  <2>8. StreamsInv' /\ PoolInv'
    BY <1>1, <2>1, <2>3, <2>5, <2>6, <2>7, PolledKeeps
  <2>9. LinesInv'
    BY <1>1, <1>2, <1>3, <2>1 DEF LinesInv, Line
  <2> QED BY <1>1, <2>1, <2>5, <2>8, <2>9, ShownKeeps
<1>5. CASE DirectoryFails(t, s)
  <2>1. /\ EmitEvent(t, s) /\ pool' = pool /\ disk' = disk
        /\ failed' = failed \cup {LineIn(t, s, f) : f \in 1..2}
    BY <1>5 DEF DirectoryFails
  <2>2. LinesGrow
    BY <2>1 DEF LinesGrow, Handled, Recorded
  <2>3. \A f \in 1..LastFile(s, st.done) : Put(t, s, st, f) \in Recorded'
    <3>1. \A f \in 1..LastFile(s, st.done) : f \in 1..2
      BY DEF LastFile
    <3> QED BY <1>3, <2>1, <3>1 DEF Recorded
  <2>4. LinesInv'
    BY <1>1, <1>3, <2>1 DEF LinesInv
  <2> QED BY <1>2, <2>1, <2>2, <2>3, <2>4, EmitEventKeeps
<1>6. CASE OpenFails(t, s)
  <2>1. /\ NextFile(t, s) /\ pool' = pool /\ disk' = disk
        /\ failed' = failed \cup {Line(t, s)}
    BY <1>6 DEF OpenFails
  <2>2. LinesGrow /\ Line(t, s) \in Recorded'
    BY <2>1 DEF LinesGrow, Handled, Recorded
  <2>3. LinesInv'
    BY <1>1, <1>2, <1>3, <2>1 DEF LinesInv, Line
  <2> QED BY <1>2, <2>1, <2>2, <2>3, NextFileKeeps
<1>7. CASE LineWritten(t, s)
  <2>1. /\ NextFile(t, s) /\ pool' = pool /\ disk' = disk /\ failed' = failed
        /\ st.at = "writing" /\ Line(t, s) \notin pool
    BY <1>7 DEF LineWritten, fileVars
  <2>2. LinesGrow /\ LinesInv'
    BY <1>1, <2>1 DEF LinesGrow, LinesInv, Handled, Recorded
  <2>3. Line(t, s) \in Recorded'
    BY <1>1, <1>2, <1>3, <2>1 DEF PoolInv, Handled, Recorded, Line
  <2> QED BY <1>2, <2>1, <2>2, <2>3, NextFileKeeps
<1> QED BY <1>4, <1>5, <1>6, <1>7

(* A write that ends in the pool, well or not, is recorded.                *)
LEMMA PoolKeeps ==
  ASSUME IInv, NEW w \in pool, PoolWrites(w) \/ PoolFails(w)
  PROVE  IInv'
<1>1. /\ pool' = pool \ {w}
      /\ \/ disk' = disk \cup {w} /\ failed' = failed
         \/ disk' = disk /\ failed' = failed \cup {w}
      /\ UNCHANGED <<slot, caller, task, stream, shown>>
      /\ faults' = faults \/ Fault
  BY DEF PoolWrites, PoolFails, slotVars
<1>2. LinesGrow
  BY <1>1 DEF LinesGrow, Handled, Recorded
<1>3. LinesInv'
  BY <1>1 DEF IInv, LinesInv
<1>4. StreamsInv'
  BY <1>1 DEF IInv, StreamsInv
<1>5. PoolInv'
  BY <1>1, <1>2 DEF IInv, PoolInv, LinesGrow, Put
<1>6. CommandInv'
  BY <1>1, FeedAssumption DEF Fault, IInv, CommandInv
<1>7. ShownInv' /\ EmittedWasRecorded'
  BY <1>1, <1>2, ShownKeeps DEF IInv
<1> QED BY <1>3, <1>4, <1>5, <1>6, <1>7 DEF IInv

-----------------------------------------------------------------------------
(* Commands.                                                               *)

(* Aborting the task in the slot leaves no other task running that did not *)
(* run before.                                                             *)
LEMMA AbortKeeps ==
  ASSUME IInv, Abort(slot), UNCHANGED <<fileVars, shown>>
  PROVE  /\ StreamsInv' /\ PoolInv'
         /\ task' \in [Tasks -> {"unused", "running", "dying", "gone"}]
<1>1. StreamsInv /\ PoolInv /\ CommandInv /\ LinesGrow
  BY DEF IInv, LinesGrow, Handled, Recorded, fileVars
<1>2. CASE slot # NoTask /\ task[slot] = "running"
  <2>1. slot \in Tasks
    BY <1>1, <1>2 DEF CommandInv
  <2>2. \/ task' = [task EXCEPT ![slot] = "dying"] /\ stream' = stream
        \/ task' = [task EXCEPT ![slot] = "gone"] /\ stream' = Dropped(slot)
    BY <1>2 DEF Abort
  <2>3. StreamsInv' /\ PoolInv'
    <3>1. CASE stream' = stream
      BY <1>1, <3>1 DEF StreamsInv, PoolInv, Put, LinesGrow
    <3>2. CASE stream' = Dropped(slot)
      BY <1>1, <2>1, <3>2, DroppedKeeps
    <3> QED BY <2>2, <3>1, <3>2
  <2> QED BY <1>1, <2>1, <2>2, <2>3 DEF CommandInv
<1>3. CASE ~(slot # NoTask /\ task[slot] = "running")
  <2>1. task' = task /\ stream' = stream
    BY <1>3 DEF Abort
  <2>2. StreamsInv' /\ PoolInv'
    BY <1>1, <2>1 DEF StreamsInv, PoolInv, Put, LinesGrow
  <2> QED BY <1>1, <2>1, <2>2 DEF CommandInv
<1> QED BY <1>2, <1>3

(* The two commands keep the account of tasks and slot, and leave the      *)
(* lines alone.                                                            *)
LEMMA CommandKeeps ==
  ASSUME IInv,
         \/ \E c \in Callers : StartTakes(c) \/ StartSpawns(c) \/ StartStores(c)
         \/ StopTxline
  PROVE  IInv'
<1>1. StreamsInv /\ PoolInv /\ CommandInv
  BY DEF IInv
<1>2. UNCHANGED <<fileVars, shown>> /\ LinesInv' /\ ShownInv' /\ EmittedWasRecorded'
  <2>1. UNCHANGED <<fileVars, shown>>
    BY DEF StartTakes, StartSpawns, StartStores, StopTxline
  <2> QED BY <2>1, ShownKeeps DEF fileVars, LinesGrow, Handled, Recorded, LinesInv, IInv
<1>3. ASSUME stream' = stream
      PROVE  StreamsInv' /\ PoolInv'
  BY <1>1, <1>2, <1>3 DEF StreamsInv, PoolInv, Put, Handled, Recorded, fileVars
<1>4. ASSUME NEW c \in Callers, StartTakes(c)
      PROVE  IInv'
  <2>1. StreamsInv' /\ PoolInv' /\ task' \in [Tasks -> {"unused", "running", "dying", "gone"}]
    BY <1>4, AbortKeeps DEF StartTakes
  <2>2. CommandInv'
    BY <1>1, <1>4, <2>1 DEF StartTakes, CommandInv
  <2> QED BY <1>2, <2>1, <2>2 DEF IInv
<1>5. ASSUME NEW c \in Callers, StartSpawns(c)
      PROVE  IInv'
  <2>1. UNCHANGED <<slot, stream, faults>>
    BY <1>5 DEF StartSpawns
  <2>2. PICK t \in Tasks, d \in {"running", "gone"} :
          /\ task' = [task EXCEPT ![t] = d]
          /\ caller' = [caller EXCEPT ![c] = [at |-> "store", new |-> t]]
    BY <1>5 DEF StartSpawns
  <2>3. CommandInv'
    BY <1>1, <2>1, <2>2 DEF CommandInv
  <2> QED BY <1>2, <1>3, <2>1, <2>3 DEF IInv
<1>6. ASSUME NEW c \in Callers, StartStores(c)
      PROVE  IInv'
  <2>1. UNCHANGED <<task, stream, faults>>
    BY <1>6 DEF StartStores
  <2>2. CommandInv'
    BY <1>1, <1>6 DEF CommandInv, StartStores
  <2> QED BY <1>2, <1>3, <2>1, <2>2 DEF IInv
<1>7. CASE StopTxline
  <2>1. StreamsInv' /\ PoolInv' /\ task' \in [Tasks -> {"unused", "running", "dying", "gone"}]
    BY <1>7, AbortKeeps DEF StopTxline
  <2>2. CommandInv'
    BY <1>1, <1>7, <2>1 DEF StopTxline, CommandInv
  <2> QED BY <1>2, <2>1, <2>2 DEF IInv
<1> QED BY <1>4, <1>5, <1>6, <1>7

(* A connection's step is its task's poll. *)
LEMMA StreamPolls ==
  ASSUME NEW t \in Tasks, NEW s \in Streams, StreamStep(t, s)
  PROVE  \E st : Polled(t, s, st)
BY Zenon DEF StreamStep, Connect, Accepted, Unauthorized, RefreshGuestJwt, Disconnected, Chunk,
   TakeBlock, OpenReplay, DirectoryFails, OpenFails, LineWritten, NextFile, EmitEvent

LEMMA StreamCommand ==
  ASSUME IInv, NEW t \in Tasks, NEW s \in Streams, StreamStep(t, s)
  PROVE  CommandInv'
<1>1. PICK st : Polled(t, s, st)
  BY StreamPolls
<1>2. faults' = faults \/ Fault
  BY DEF StreamStep, Connect, Accepted, Unauthorized, RefreshGuestJwt, Disconnected, Chunk,
     TakeBlock, OpenReplay, DirectoryFails, OpenFails, LineWritten
<1>3. faults' \in 0..MaxFaults
  BY <1>2, FeedAssumption DEF Fault, IInv, CommandInv
<1> QED BY <1>1, <1>3 DEF Polled, IInv, CommandInv

(* Every step of a connection keeps the invariant. *)
LEMMA StreamStepKeeps ==
  ASSUME IInv, NEW t \in Tasks, NEW s \in Streams, StreamStep(t, s)
  PROVE  IInv'
<1>1. CASE \/ Connect(t, s) \/ Accepted(t, s) \/ Unauthorized(t, s) \/ RefreshGuestJwt(t, s)
           \/ Disconnected(t, s) \/ Chunk(t, s) \/ TakeBlock(t, s)
  <2>1. StreamsInv' /\ PoolInv' /\ UNCHANGED <<pool, disk, failed, shown>>
    BY <1>1, ConnectionStepKeeps
  <2>2. LinesInv' /\ ShownInv' /\ EmittedWasRecorded'
    BY <2>1, ShownKeeps DEF IInv, LinesInv, LinesGrow, Handled, Recorded
  <2> QED BY <2>1, <2>2, StreamCommand DEF IInv
<1>2. CASE OpenReplay(t, s) \/ DirectoryFails(t, s) \/ OpenFails(t, s) \/ LineWritten(t, s)
  <2>1. StreamsInv' /\ PoolInv' /\ LinesInv' /\ ShownInv' /\ EmittedWasRecorded'
    BY <1>2, RecordingKeeps
  <2> QED BY <2>1, StreamCommand DEF IInv
<1> QED BY <1>1, <1>2, Zenon DEF StreamStep

-----------------------------------------------------------------------------
(* No task runs and nothing was recorded at the start. *)
LEMMA Starts == FeedInit => IInv
<1> SUFFICES ASSUME FeedInit PROVE IInv
  OBVIOUS
<1>1. CommandInv
  BY FeedAssumption DEF FeedInit, CommandInv
<1>2. \A t \in Tasks, s \in Streams : stream[<<t, s>>] = Idle
  BY DEF FeedInit
<1>3. StreamsInv
  <2>1. \A t \in Tasks, s \in Streams : StreamInv(stream[<<t, s>>], s)
    BY <1>2, IdleIsGood
  <2>2. \A x \in Tasks \X Streams : Idle \in UNION {StreamType(s) : s \in Streams}
    BY IdleIsGood DEF StreamInv
  <2> QED BY <2>1, <2>2 DEF StreamsInv, FeedInit
<1>4. PoolInv /\ LinesInv /\ ShownInv /\ EmittedWasRecorded
  BY <1>2 DEF FeedInit, PoolInv, LinesInv, ShownInv, EmittedWasRecorded, Idle
<1> QED BY <1>1, <1>3, <1>4 DEF IInv

(* Every step keeps the invariant. *)
LEMMA StepKeeps == IInv /\ [FeedNext]_vars => IInv'
<1> SUFFICES ASSUME IInv, [FeedNext]_vars PROVE IInv'
  OBVIOUS
<1>1. CASE UNCHANGED vars
  <2>1. CommandInv' /\ StreamsInv' /\ LinesInv'
    BY <1>1 DEF vars, fileVars, IInv, CommandInv, StreamsInv, LinesInv
  <2>2. PoolInv' /\ ShownInv' /\ EmittedWasRecorded'
    BY <1>1 DEF vars, fileVars, IInv, PoolInv, Handled, Recorded, ShownInv, EmittedWasRecorded
  <2> QED BY <2>1, <2>2 DEF IInv
<1> QED BY <1>1, CommandKeeps, StreamStepKeeps, PoolKeeps DEF FeedNext

(* The invariant holds of every reachable state. *)
LEMMA Invariance == Spec => []IInv
BY Starts, StepKeeps, PTL DEF Spec

-----------------------------------------------------------------------------
(* The variables of the commands, the streams and the pool keep their      *)
(* types.                                                                  *)
THEOREM FeedTypes == Spec => []TypeOK
<1>1. IInv => TypeOK
  <2> SUFFICES ASSUME IInv PROVE TypeOK
    OBVIOUS
  <2> DEFINE T == [at : {"connect", "asked", "refresh", "retried", "reading", "open", "writing"},
                   lastId : Nat, got : Nat, done : Nat, file : 1..2,
                   emitted : Seq(Nat)]
  <2>1. ASSUME NEW s \in Streams, NEW st \in StreamType(s)
        PROVE  st \in T
    <3>1. /\ \A n \in 0..Len(Kind[s]) : n \in Nat
          /\ st.emitted \in Seq(Nat)
      BY <2>1, KindType DEF StreamType
    <3> QED BY <2>1, <3>1 DEF StreamType
  <2> HIDE DEF T
  <2>2. stream \in [Tasks \X Streams -> T]
    BY <2>1 DEF IInv, StreamsInv
  <2> QED BY <2>2 DEF IInv, CommandInv, LinesInv, ShownInv, Lines, ShownLines, TypeOK, T
<1> QED BY <1>1, Invariance, PTL

(* When an event is on the screen, the writing of its line has ended in    *)
(* every file it belongs to, well or not: no write of it is under way      *)
(* (ingest.rs: append_replay before emit_event).                           *)
THEOREM RecordedFirst == Spec => []EmittedWasRecorded
<1>1. IInv => EmittedWasRecorded
  BY DEF IInv
<1> QED BY <1>1, Invariance, PTL

(* The events among the blocks e of stream s are in their order, with      *)
(* every event between two of them.                                        *)
Gapless(e, s) ==
  \A i, j \in {k \in DOMAIN e : Kind[s][e[k]] = "event"} :
    i < j =>
      /\ e[i] < e[j]
      /\ \A n \in (e[i] + 1)..(e[j] - 1) :
           Kind[s][n] = "event" => \E k \in DOMAIN e : e[k] = n

(* What a stream has emitted is gapless: EmittedInv says so of each block  *)
(* and the newest id, hence of two blocks.                                 *)
LEMMA NoGap ==
  ASSUME NEW s \in Streams, NEW st \in StreamType(s), EmittedInv(st, s)
  PROVE  Gapless(st.emitted, s)
<1> DEFINE e == st.emitted
<1>1. ASSUME NEW i \in DOMAIN e, NEW j \in DOMAIN e, i < j,
             Kind[s][e[i]] = "event", Kind[s][e[j]] = "event"
      PROVE  /\ e[i] < e[j]
             /\ \A n \in (e[i] + 1)..(e[j] - 1) :
                  Kind[s][n] = "event" => \E k \in DOMAIN e : e[k] = n
  <2> DEFINE from == e[i]
             to == e[j]
  <2>1. from \in Nat /\ to \in Nat /\ st.lastId \in Nat /\ st.done \in Nat
    BY KindType DEF StreamType
  <2>2. from < to /\ to <= st.lastId /\ (Pending(st) => to < st.done)
    BY <1>1 DEF EmittedInv
  <2>3. \A n \in (from + 1)..st.lastId : Kind[s][n] = "event" =>
          (\E k \in DOMAIN e : e[k] = n) \/ (Pending(st) /\ n = st.done)
    BY <1>1 DEF EmittedInv
  <2>4. ASSUME NEW n \in (from + 1)..(to - 1), Kind[s][n] = "event"
        PROVE  \E k \in DOMAIN e : e[k] = n
    <3> HIDE DEF from, to
    <3>1. n \in (from + 1)..st.lastId /\ n < to
      BY <2>1, <2>2
    <3>2. (\E k \in DOMAIN e : e[k] = n) \/ (Pending(st) /\ n = st.done)
      BY <2>3, <2>4, <3>1
    <3>3. ~(Pending(st) /\ n = st.done)
      BY <2>1, <2>2, <3>1
    <3> QED BY <3>2, <3>3
  <2> QED BY <2>2, <2>4
<1> HIDE DEF e
<1>2. Gapless(e, s)
  BY <1>1, Zenon DEF Gapless
<1> QED BY <1>2 DEF e

(* Whatever connections are lost, a task emits the events of a stream in   *)
(* their order, without a gap and without a repeat (ingest.rs: last_id).   *)
THEOREM ResumedInOrder == Spec => []ResumesWithoutGaps
<1>1. ASSUME IInv, NEW t \in Tasks, NEW s \in Streams
      PROVE  Gapless(stream[<<t, s>>].emitted, s)
  <2>1. EmittedInv(stream[<<t, s>>], s) /\ stream[<<t, s>>] \in StreamType(s)
    BY <1>1 DEF IInv, StreamsInv, StreamInv
  <2> QED BY <2>1, NoGap
<1>2. ASSUME IInv
      PROVE  ResumesWithoutGaps
  <2> SUFFICES ASSUME NEW t \in Tasks, NEW s \in Streams,
                      NEW i \in {k \in DOMAIN stream[<<t, s>>].emitted :
                                   stream[<<t, s>>].emitted[k] \in Events(s)},
                      NEW j \in {k \in DOMAIN stream[<<t, s>>].emitted :
                                   stream[<<t, s>>].emitted[k] \in Events(s)},
                      i < j
               PROVE  /\ stream[<<t, s>>].emitted[i] < stream[<<t, s>>].emitted[j]
                      /\ \A n \in (stream[<<t, s>>].emitted[i] + 1)..(stream[<<t, s>>].emitted[j] - 1) :
                           n \in Events(s) => \E k \in DOMAIN stream[<<t, s>>].emitted :
                                                stream[<<t, s>>].emitted[k] = n
    BY DEF ResumesWithoutGaps
  <2> DEFINE e == stream[<<t, s>>].emitted
  <2>1. Gapless(e, s)
    BY <1>1, <1>2
  <2>2. \A n \in Events(s) : Kind[s][n] = "event"
    BY DEF Events
  <2> HIDE DEF e
  <2>3. i \in {k \in DOMAIN e : Kind[s][e[k]] = "event"} /\ j \in {k \in DOMAIN e : Kind[s][e[k]] = "event"}
    BY <2>2 DEF e
  <2>4. /\ e[i] < e[j]
        /\ \A n \in (e[i] + 1)..(e[j] - 1) :
             Kind[s][n] = "event" => \E k \in DOMAIN e : e[k] = n
    BY <2>1, <2>3 DEF Gapless
  <2> QED BY <2>2, <2>4 DEF e
<1> QED BY <1>2, Invariance, PTL

-----------------------------------------------------------------------------
(* Every event arrives, but for fairness (EveryEventArrives): an event a   *)
(* stream owes it owes until it is emitted; a stream that has worked off   *)
(* what there is owes none; and a connection that does not fail only has   *)
(* so many steps to take.                                                  *)

(* The events beyond the last id, and the one in hand. *)
Owes(st, s, n) ==
  /\ Kind[s][n] = "event"
  /\ st.lastId < n \/ (Pending(st) /\ n = st.done)

Emitted(st, n) == \E k \in DOMAIN st.emitted : st.emitted[k] = n

(* Whatever is lost, refreshed or written late, a stream that knows where  *)
(* to resume forgets no event it owes before it is emitted, and nothing it *)
(* has emitted - as long as its task is there.                             *)
OwedUntilEmitted ==
  [][\A t \in Tasks, s \in Streams :
       LET st == stream[<<t, s>>]
           new == stream'[<<t, s>>] IN
       task'[t] # "gone" =>
         /\ st.lastId # 0 => st.lastId <= new.lastId
         /\ \A n \in DOMAIN Kind[s] :
              /\ st.lastId # 0 /\ Owes(st, s, n) => Owes(new, s, n) \/ Emitted(new, n)
              /\ Emitted(st, n) => Emitted(new, n)]_vars

(* A stream that has passed all its blocks owes none of them. *)
OwesNothingAtEnd ==
  \A t \in Tasks, s \in Streams :
    LET st == stream[<<t, s>>] IN
    st.at = "reading" /\ st.done = Len(Kind[s]) /\ st.lastId # 0 =>
      \A n \in DOMAIN Kind[s] : ~Owes(st, s, n)

(* The steps left to a connection that does not fail: those of its opening,*)
(* one for a chunk and five for a block that is received and not passed,   *)
(* and those of the files of the block in hand.                            *)
Filing(st) ==
  IF ~Pending(st) THEN 0
  ELSE 2 * (3 - st.file) - (IF st.at = "writing" THEN 1 ELSE 0)

Rest(st, s) == 5 * (Len(Kind[s]) - st.done) + (Len(Kind[s]) - st.got)

ToGo(st, s) ==
  CASE st.at = "connect" -> 6 * Len(Kind[s]) + 4
    [] st.at = "asked"   -> 6 * Len(Kind[s]) + 3
    [] st.at = "refresh" -> 6 * Len(Kind[s]) + 2
    [] st.at = "retried" -> 6 * Len(Kind[s]) + 1
    [] OTHER -> Rest(st, s) + Filing(st)

(* A step of a stream of a running task is a failure or leaves less to do: *)
(* a JWT is refreshed once per connection, and nothing is read, written or *)
(* asked for again without a failure (ingest.rs).                          *)
StreamsDrain ==
  [][\A t \in Tasks, s \in Streams :
       task[t] = "running" /\ StreamStep(t, s) =>
         \/ faults' = faults + 1
         \/ /\ ToGo(stream'[<<t, s>>], s) \in Nat
            /\ ToGo(stream'[<<t, s>>], s) < ToGo(stream[<<t, s>>], s)]_vars

(* The ways a stream can go on. *)
Opens(st, new) ==
  /\ \/ st.at = "connect" /\ new.at = "asked"
     \/ st.at = "asked" /\ new.at = "refresh"
     \/ st.at = "refresh" /\ new.at = "retried"
  /\ new.lastId = st.lastId /\ new.emitted = st.emitted

Resumes(st, new) ==
  /\ st.at \in {"asked", "retried"} /\ new.at = "reading" /\ new.got = new.done
  /\ new.lastId = st.lastId /\ new.emitted = st.emitted

Breaks(st, new) ==
  /\ ~Pending(st) /\ new.at = "connect"
  /\ new.lastId = st.lastId /\ new.emitted = st.emitted

Receives(st, new) ==
  /\ st.at = "reading" /\ new.at = "reading" /\ new.done = st.done /\ new.got > st.got
  /\ new.lastId = st.lastId /\ new.emitted = st.emitted

Takes(st, new, s) ==
  /\ st.at = "reading" /\ new.done = st.done + 1 /\ new.got = st.got
  /\ new.lastId = (IF Kind[s][new.done] = "anonymous" THEN st.lastId ELSE new.done)
  /\ new.at = (IF Kind[s][new.done] = "junk" THEN "reading" ELSE "open")
  /\ new.emitted = st.emitted

FilesOn(st, new) ==
  /\ \/ st.at = "open" /\ new.at = "writing" /\ new.file = st.file
     \/ Pending(st) /\ new.at = "open" /\ st.file = 1 /\ new.file = 2
  /\ new.done = st.done /\ new.got = st.got
  /\ new.lastId = st.lastId /\ new.emitted = st.emitted

Emits(st, new) ==
  /\ Pending(st) /\ new.at = "reading" /\ new.done = st.done /\ new.got = st.got
  /\ new.lastId = st.lastId /\ new.emitted = Append(st.emitted, st.done)

GoesOn(st, new, s) ==
  \/ Opens(st, new) \/ Resumes(st, new) \/ Breaks(st, new) \/ Receives(st, new)
  \/ Takes(st, new, s) \/ FilesOn(st, new) \/ Emits(st, new)

(* A stream of a running task that is polled goes on, and breaks only with *)
(* a failure.                                                              *)
LEMMA StreamGoesOn ==
  ASSUME IInv, NEW t \in Tasks, NEW s \in Streams, StreamStep(t, s), task[t] = "running"
  PROVE  LET st == stream[<<t, s>>]
             new == stream'[<<t, s>>] IN
         GoesOn(st, new, s) /\ (Breaks(st, new) => faults' = faults + 1)
<1> DEFINE st == stream[<<t, s>>]
           new == stream'[<<t, s>>]
<1>1. /\ st \in StreamType(s) /\ <<t, s>> \in Tasks \X Streams /\ DOMAIN stream = Tasks \X Streams
      /\ st.at = "reading" => st.done \in Nat
      /\ \A n \in 1..Len(Kind[s]) : Kind[s][n] \in {"event", "anonymous", "junk"}
  BY KindType DEF IInv, StreamsInv, StreamInv, StreamType
<1>2. ASSUME NEW u, Polled(t, s, u)
      PROVE  new = u
  BY <1>1, <1>2 DEF Polled
<1>3. CASE Connect(t, s) \/ Unauthorized(t, s) \/ RefreshGuestJwt(t, s)
  <2>1. \/ st.at = "connect" /\ new = Asked(st, "asked")
        \/ st.at = "asked" /\ new = Asked(st, "refresh")
        \/ st.at = "refresh" /\ new = Asked(st, "retried")
    BY <1>2, <1>3 DEF Connect, Unauthorized, RefreshGuestJwt, Asked
  <2> HIDE DEF st, new
  <2>2. Opens(st, new) /\ ~Breaks(st, new)
    BY <1>1, <2>1 DEF Opens, Breaks, Asked, StreamType
  <2> QED BY <2>2 DEF GoesOn, st, new
<1>4. CASE Accepted(t, s)
  <2>1. PICK n \in IF st.lastId # 0 THEN {st.lastId} ELSE 0..Len(Kind[s]) :
          st.at \in {"asked", "retried"} /\ Polled(t, s, Connection(st, "reading", n))
    BY <1>4 DEF Accepted, Connected, Connection
  <2>3. new = Connection(st, "reading", n)
    BY <1>2, <2>1
  <2> HIDE DEF st, new
  <2>2. Resumes(st, new) /\ ~Breaks(st, new)
    BY <1>1, <2>1, <2>3 DEF Resumes, Breaks, Connection, StreamType
  <2> QED BY <2>2 DEF GoesOn, st, new
<1>5. CASE Disconnected(t, s)
  <2>1. st.at \in {"asked", "refresh", "retried", "reading"} /\ new = Connection(st, "connect", 0)
    BY <1>2, <1>5 DEF Disconnected, Connection
  <2>2. faults' = faults + 1
    BY <1>5 DEF Disconnected, Fault
  <2> HIDE DEF st, new
  <2>3. Breaks(st, new)
    BY <1>1, <2>1 DEF Breaks, Pending, Connection, StreamType
  <2> QED BY <2>2, <2>3 DEF GoesOn, st, new
<1>6. CASE Chunk(t, s)
  <2>1. PICK n \in (st.got + 1)..Len(Kind[s]) : st.at = "reading" /\ new = [st EXCEPT !.got = n]
    BY <1>2, <1>6 DEF Chunk
  <2> HIDE DEF st, new
  <2>2. Receives(st, new) /\ ~Breaks(st, new)
    BY <1>1, <2>1, KindType DEF Receives, Breaks, StreamType
  <2> QED BY <2>2 DEF GoesOn, st, new
<1>7. CASE TakeBlock(t, s)
  <2> DEFINE n == st.done + 1
             id == LastId(st, s, n)
             at == IF Parses(s, n) THEN "open" ELSE "reading"
  <2>1. st.at = "reading" /\ new = [st EXCEPT !.done = n, !.lastId = id, !.at = at]
    BY <1>2, <1>7 DEF TakeBlock
  <2>2. /\ id = (IF Kind[s][n] = "anonymous" THEN st.lastId ELSE n)
        /\ at = (IF Kind[s][n] = "junk" THEN "reading" ELSE "open")
    BY DEF LastId, Parses
  <2> HIDE DEF st, new, id, at, n
  <2>3. /\ new.done = n /\ new.lastId = id /\ new.at = at
        /\ new.got = st.got /\ new.emitted = st.emitted
    BY <1>1, <2>1 DEF StreamType
  <2>4. at \in {"open", "reading"}
    BY <2>2
  <2>5. Takes(st, new, s) /\ ~Breaks(st, new)
    BY <2>1, <2>2, <2>3, <2>4 DEF Takes, Breaks, n
  <2> QED BY <2>5 DEF GoesOn, st, new
<1>8. CASE OpenReplay(t, s)
  <2>1. st.at = "open" /\ new = Asked(st, "writing")
    BY <1>2, <1>8 DEF OpenReplay, Asked
  <2> HIDE DEF st, new
  <2>2. FilesOn(st, new) /\ ~Breaks(st, new)
    BY <1>1, <2>1 DEF FilesOn, Breaks, Asked, StreamType
  <2> QED BY <2>2 DEF GoesOn, st, new
<1>9. CASE OpenFails(t, s) \/ LineWritten(t, s) \/ DirectoryFails(t, s)
  <2>1. Pending(st) /\ (NextFile(t, s) \/ EmitEvent(t, s))
    BY <1>9 DEF OpenFails, LineWritten, DirectoryFails, Pending
  <2>2. st.file \in {1, 2} /\ LastFile(s, st.done) \in {1, 2}
    BY <1>1 DEF StreamType, LastFile
  <2>3. \/ EmitEvent(t, s)
        \/ st.file = 1 /\ Polled(t, s, Holding(st, "open", 2))
    <3>1. CASE st.file < LastFile(s, st.done)
      <4>1. st.file = 1
        BY <2>2, <3>1
      <4> QED BY <2>1, <3>1, <4>1 DEF NextFile, Holding
    <3>2. CASE ~(st.file < LastFile(s, st.done))
      BY <2>1, <3>2 DEF NextFile
    <3> QED BY <3>1, <3>2
  <2>4. CASE st.file = 1 /\ Polled(t, s, Holding(st, "open", 2))
    <3>1. new = Holding(st, "open", 2)
      BY <1>2, <2>4
    <3> HIDE DEF st, new
    <3>2. FilesOn(st, new) /\ ~Breaks(st, new)
      BY <1>1, <2>1, <2>4, <3>1 DEF FilesOn, Breaks, Holding, StreamType
    <3> QED BY <3>2 DEF GoesOn, st, new
  <2>5. CASE EmitEvent(t, s)
    <3>1. new = With(st, "reading", 1, Append(st.emitted, st.done))
      BY <1>2, <2>5 DEF EmitEvent, With
    <3> HIDE DEF st, new
    <3>2. Emits(st, new) /\ ~Breaks(st, new)
      BY <1>1, <2>1, <3>1 DEF Emits, Breaks, With, StreamType
    <3> QED BY <3>2 DEF GoesOn, st, new
  <2> QED BY <2>3, <2>4, <2>5
<1> QED BY <1>3, <1>4, <1>5, <1>6, <1>7, <1>8, <1>9 DEF StreamStep

(* The fields of a stream's state, as numbers. *)
LEMMA StreamFields ==
  ASSUME NEW s \in Streams, NEW st, StreamInv(st, s)
  PROVE  /\ Len(Kind[s]) \in Nat /\ DOMAIN Kind[s] = 1..Len(Kind[s])
         /\ st.lastId \in 0..Len(Kind[s]) /\ st.done \in 0..st.got /\ st.got \in 0..Len(Kind[s])
         /\ st.file \in {1, 2} /\ st.emitted \in Seq(1..Len(Kind[s]))
         /\ st.at \in {"connect", "asked", "refresh", "retried", "reading", "open", "writing"}
BY FeedAssumption DEF StreamInv, StreamType, LastIdInv, Streams

(* What has been emitted stays emitted when one more block is.             *)
LEMMA EmitsMore ==
  ASSUME NEW S, NEW st, NEW new, st.emitted \in Seq(S), st.done \in S,
         new.emitted = Append(st.emitted, st.done)
  PROVE  (\A n : Emitted(st, n) => Emitted(new, n)) /\ Emitted(new, st.done)
<1> DEFINE e == st.emitted
           f == new.emitted
<1>1. /\ Len(e) \in Nat /\ DOMAIN e = 1..Len(e) /\ DOMAIN f = 1..(Len(e) + 1)
      /\ \A k \in 1..Len(e) : f[k] = e[k]
      /\ f[Len(e) + 1] = st.done
  OBVIOUS
<1> HIDE DEF e, f
<1>2. \A k \in 1..Len(e) : k \in 1..(Len(e) + 1)
  BY <1>1
<1>3. Len(e) + 1 \in 1..(Len(e) + 1)
  BY <1>1
<1>4. \A n : (\E k \in DOMAIN e : e[k] = n) => \E k \in DOMAIN f : f[k] = n
  BY <1>1, <1>2
<1>5. \E k \in DOMAIN f : f[k] = st.done
  BY <1>1, <1>3
<1> QED BY <1>4, <1>5, Zenon DEF Emitted, e, f

(* A step of a stream forgets no event it owes. *)
LEMMA GoingOnOwes ==
  ASSUME NEW s \in Streams, NEW st, NEW new, StreamInv(st, s), StreamInv(new, s),
         GoesOn(st, new, s), NEW n \in DOMAIN Kind[s]
  PROVE  /\ st.lastId # 0 => st.lastId <= new.lastId
         /\ st.lastId # 0 /\ Owes(st, s, n) => Owes(new, s, n) \/ Emitted(new, n)
         /\ Emitted(st, n) => Emitted(new, n)
<1>1. /\ n \in Nat /\ st.lastId \in Nat /\ st.done \in Nat /\ st.got \in Nat
      /\ new.lastId \in Nat /\ new.done \in Nat
  BY StreamFields
<1>2. CASE /\ new.lastId = st.lastId /\ new.emitted = st.emitted
           /\ Pending(st) => Pending(new) /\ new.done = st.done
  BY <1>1, <1>2 DEF Owes, Emitted
<1>3. CASE Takes(st, new, s)
  <2>1. ~Pending(st) /\ (Pending(new) <=> Kind[s][new.done] # "junk")
    BY <1>3 DEF Takes, Pending
  <2>2. st.lastId # 0 => st.lastId <= st.done
    BY <1>3 DEF StreamInv, LastIdInv, Takes
  <2>3. /\ new.done = st.done + 1 /\ new.emitted = st.emitted
        /\ Kind[s][new.done] = "anonymous" => new.lastId = st.lastId
        /\ Kind[s][new.done] # "anonymous" => new.lastId = new.done
    BY <1>3 DEF Takes
  <2>4. st.lastId # 0 => st.lastId <= new.lastId
    BY <1>1, <2>2, <2>3
  <2>5. ASSUME st.lastId # 0, Owes(st, s, n)
        PROVE  Owes(new, s, n)
    <3>1. Kind[s][n] = "event" /\ st.lastId < n
      BY <2>1, <2>5 DEF Owes
    <3>2. CASE new.lastId < n
      BY <3>1, <3>2 DEF Owes
    <3>3. CASE ~(new.lastId < n)
      <4>1. Kind[s][new.done] # "anonymous" /\ new.lastId = new.done
        BY <1>1, <2>3, <3>1, <3>3
      <4>2. n = new.done \/ n \in (st.lastId + 1)..st.done
        BY <1>1, <2>3, <3>1, <3>3, <4>1
      <4>3. \A m \in (st.lastId + 1)..st.done : Kind[s][m] = "anonymous"
        BY <1>3, <2>5 DEF StreamInv, LastIdInv, Takes
      <4>4. n = new.done
        BY <3>1, <4>2, <4>3
      <4> QED BY <2>1, <3>1, <4>4 DEF Owes
    <3> QED BY <3>2, <3>3
  <2> QED BY <2>3, <2>4, <2>5 DEF Emitted
<1>4. CASE Emits(st, new)
  <2>1. /\ new.lastId = st.lastId /\ st.emitted \in Seq(1..Len(Kind[s]))
        /\ new.emitted = Append(st.emitted, st.done)
    BY <1>4, StreamFields DEF Emits
  <2>2. st.done \in 1..Len(Kind[s])
    BY <1>4, StreamFields DEF Emits, StreamInv, FilesInOrder
  <2>3. /\ Emitted(st, n) => Emitted(new, n)
        /\ n = st.done => Emitted(new, n)
    BY <2>1, <2>2, EmitsMore
  <2> QED BY <1>1, <2>1, <2>3 DEF Owes
<1>5. CASE Opens(st, new) \/ Resumes(st, new) \/ Breaks(st, new) \/ Receives(st, new)
  BY <1>2, <1>5 DEF Opens, Resumes, Breaks, Receives, Pending
<1>6. CASE FilesOn(st, new)
  <2>1. Pending(new)
    BY <1>6 DEF FilesOn, Pending
  <2> QED BY <1>2, <1>6, <2>1 DEF FilesOn
<1> QED BY <1>3, <1>4, <1>5, <1>6 DEF GoesOn

(* What is left of the blocks, as a number. *)
LEMMA RestIs ==
  ASSUME NEW s \in Streams, NEW st, StreamInv(st, s)
  PROVE  Rest(st, s) \in 0..6 * Len(Kind[s])
<1>1. Len(Kind[s]) \in Nat /\ st.done \in 0..st.got /\ st.got \in 0..Len(Kind[s])
  BY StreamFields
<1> QED BY <1>1 DEF Rest

(* The steps left, place by place. *)
LEMMA ToGoIs ==
  ASSUME NEW s \in Streams, NEW st, StreamInv(st, s)
  PROVE  /\ st.at = "connect" => ToGo(st, s) = 6 * Len(Kind[s]) + 4
         /\ st.at = "asked" => ToGo(st, s) = 6 * Len(Kind[s]) + 3
         /\ st.at = "refresh" => ToGo(st, s) = 6 * Len(Kind[s]) + 2
         /\ st.at = "retried" => ToGo(st, s) = 6 * Len(Kind[s]) + 1
         /\ st.at = "reading" => ToGo(st, s) = Rest(st, s)
         /\ st.at = "open" /\ st.file = 1 => ToGo(st, s) = Rest(st, s) + 4
         /\ st.at = "writing" /\ st.file = 1 => ToGo(st, s) = Rest(st, s) + 3
         /\ st.at = "open" /\ st.file = 2 => ToGo(st, s) = Rest(st, s) + 2
         /\ st.at = "writing" /\ st.file = 2 => ToGo(st, s) = Rest(st, s) + 1
<1>1. Rest(st, s) \in Int
  BY RestIs, StreamFields
<1>2. /\ st.at = "reading" => Filing(st) = 0
      /\ st.at = "open" /\ st.file = 1 => Filing(st) = 4
      /\ st.at = "writing" /\ st.file = 1 => Filing(st) = 3
      /\ st.at = "open" /\ st.file = 2 => Filing(st) = 2
      /\ st.at = "writing" /\ st.file = 2 => Filing(st) = 1
  BY DEF Filing, Pending
<1>3. ASSUME st.at = "connect" PROVE ToGo(st, s) = 6 * Len(Kind[s]) + 4
  BY <1>3 DEF ToGo
<1>4. ASSUME st.at = "asked" PROVE ToGo(st, s) = 6 * Len(Kind[s]) + 3
  BY <1>4 DEF ToGo
<1>5. ASSUME st.at = "refresh" PROVE ToGo(st, s) = 6 * Len(Kind[s]) + 2
  BY <1>5 DEF ToGo
<1>6. ASSUME st.at = "retried" PROVE ToGo(st, s) = 6 * Len(Kind[s]) + 1
  BY <1>6 DEF ToGo
<1>7. ASSUME st.at \in {"reading", "open", "writing"}
      PROVE  ToGo(st, s) = Rest(st, s) + Filing(st)
  BY <1>7 DEF ToGo
<1>8. /\ st.at = "reading" => ToGo(st, s) = Rest(st, s)
      /\ st.at = "open" /\ st.file = 1 => ToGo(st, s) = Rest(st, s) + 4
      /\ st.at = "writing" /\ st.file = 1 => ToGo(st, s) = Rest(st, s) + 3
      /\ st.at = "open" /\ st.file = 2 => ToGo(st, s) = Rest(st, s) + 2
      /\ st.at = "writing" /\ st.file = 2 => ToGo(st, s) = Rest(st, s) + 1
  BY <1>1, <1>2, <1>7
<1> QED BY <1>3, <1>4, <1>5, <1>6, <1>8, Zenon

(* A step of a stream that does not break leaves less to do. *)
LEMMA GoingOnDrains ==
  ASSUME NEW s \in Streams, NEW st, NEW new, StreamInv(st, s), StreamInv(new, s),
         GoesOn(st, new, s), ~Breaks(st, new)
  PROVE  ToGo(new, s) \in Nat /\ ToGo(new, s) < ToGo(st, s)
<1>1. /\ Len(Kind[s]) \in Nat /\ st.done \in Nat /\ st.got \in Nat /\ st.file \in {1, 2}
      /\ new.done \in Nat /\ new.got \in Nat /\ new.file \in {1, 2}
  BY StreamFields
<1>2. Rest(st, s) \in 0..6 * Len(Kind[s]) /\ Rest(new, s) \in 0..6 * Len(Kind[s])
  BY RestIs
<1>3. CASE Opens(st, new)
  <2>1. \/ st.at = "connect" /\ new.at = "asked"
        \/ st.at = "asked" /\ new.at = "refresh"
        \/ st.at = "refresh" /\ new.at = "retried"
    BY <1>3 DEF Opens
  <2> QED BY <1>1, <2>1, ToGoIs
<1>4. CASE Resumes(st, new)
  <2>1. st.at \in {"asked", "retried"} /\ new.at = "reading"
    BY <1>4 DEF Resumes
  <2> QED BY <1>1, <1>2, <2>1, ToGoIs
<1>5. CASE Receives(st, new)
  <2>1. st.at = "reading" /\ new.at = "reading"
    BY <1>5 DEF Receives
  <2>2. Rest(new, s) < Rest(st, s)
    BY <1>1, <1>5 DEF Receives, Rest
  <2> QED BY <1>2, <2>1, <2>2, ToGoIs
<1>6. CASE Takes(st, new, s)
  <2>1. st.at = "reading" /\ new.at \in {"open", "reading"}
    BY <1>6 DEF Takes
  <2>2. Rest(new, s) + 5 = Rest(st, s)
    <3>1. new.done = st.done + 1 /\ new.got = st.got
      BY <1>6 DEF Takes
    <3>2. PICK l \in Nat, d \in Nat, g \in Nat : l = Len(Kind[s]) /\ d = st.done /\ g = st.got
      BY <1>1
    <3>3. Rest(st, s) = 5 * (l - d) + (l - g)
      BY <3>2, Zenon DEF Rest
    <3>4. Rest(new, s) = 5 * (l - (d + 1)) + (l - g)
      BY <3>1, <3>2, Zenon DEF Rest
    <3>5. 5 * (l - (d + 1)) + (l - g) + 5 = 5 * (l - d) + (l - g)
      OBVIOUS
    <3> QED BY <3>3, <3>4, <3>5
  <2> QED BY <1>1, <1>2, <2>1, <2>2, ToGoIs
<1>7. CASE FilesOn(st, new)
  <2>1. Rest(new, s) = Rest(st, s)
    BY <1>7 DEF FilesOn, Rest
  <2>2. \/ st.at = "open" /\ new.at = "writing" /\ new.file = st.file
        \/ st.at \in {"open", "writing"} /\ new.at = "open" /\ st.file = 1 /\ new.file = 2
    BY <1>7 DEF FilesOn, Pending
  <2> QED BY <1>1, <1>2, <2>1, <2>2, ToGoIs
<1>8. CASE Emits(st, new)
  <2>1. Rest(new, s) = Rest(st, s) /\ new.at = "reading" /\ st.at \in {"open", "writing"}
    BY <1>8 DEF Emits, Pending, Rest
  <2> QED BY <1>1, <1>2, <2>1, ToGoIs
<1> QED BY <1>3, <1>4, <1>5, <1>6, <1>7, <1>8 DEF GoesOn

(* A stream that is not polled, and whose task is not dropped, stays where *)
(* it is.                                                                  *)
LEMMA StreamStays ==
  ASSUME IInv, [FeedNext]_vars, NEW t \in Tasks, NEW s \in Streams, task'[t] # "gone",
         ~(task[t] = "running" /\ StreamStep(t, s))
  PROVE  LET st == stream[<<t, s>>]
             new == stream'[<<t, s>>] IN
         new.at = st.at /\ new.done = st.done /\ new.lastId = st.lastId /\ new.emitted = st.emitted
<1> DEFINE st == stream[<<t, s>>]
           new == stream'[<<t, s>>]
<1>1. /\ stream \in [Tasks \X Streams -> UNION {StreamType(v) : v \in Streams}]
      /\ task \in [Tasks -> {"unused", "running", "dying", "gone"}] /\ st \in StreamType(s)
  BY DEF IInv, StreamsInv, CommandInv, StreamInv
<1>2. CASE UNCHANGED vars
  BY <1>2 DEF vars
<1>3. CASE Abort(slot)
  BY <1>1, <1>3 DEF Abort, Dropped
<1>4. ASSUME NEW c \in Callers, StartSpawns(c) \/ StartStores(c)
      PROVE  stream' = stream
  BY <1>4 DEF StartSpawns, StartStores
<1>5. ASSUME NEW u \in Tasks, NEW v \in Streams, StreamStep(u, v)
      PROVE  new = st
  <2>1. PICK x : Polled(u, v, x)
    BY <1>5, StreamPolls
  <2>2. CASE task[u] = "running" /\ stream' = [stream EXCEPT ![<<u, v>>] = x]
    <3>1. <<u, v>> # <<t, s>>
      BY <1>5, <2>2
    <3> QED BY <1>1, <2>2, <3>1
  <2>3. CASE stream' = Dropped(u) /\ task' = [task EXCEPT ![u] = "gone"]
    <3>1. u # t
      BY <1>1, <2>3
    <3> QED BY <2>3, <3>1 DEF Dropped
  <2> QED BY <2>1, <2>2, <2>3 DEF Polled
<1>6. ASSUME NEW w \in pool, PoolWrites(w) \/ PoolFails(w)
      PROVE  new = st
  BY <1>6 DEF PoolWrites, PoolFails
<1>8. ASSUME FeedNext
      PROVE  new.at = st.at /\ new.done = st.done /\ new.lastId = st.lastId /\ new.emitted = st.emitted
  <2>1. CASE \/ \E c \in Callers : StartTakes(c)
             \/ StopTxline
    BY <1>3, <2>1 DEF StartTakes, StopTxline
  <2>2. CASE \E c \in Callers : StartSpawns(c) \/ StartStores(c)
    BY <1>4, <2>2
  <2>3. CASE \E u \in Tasks, v \in Streams : StreamStep(u, v)
    BY <1>5, <2>3
  <2>4. CASE \E w \in pool : PoolWrites(w) \/ PoolFails(w)
    BY <1>6, <2>4
  <2> QED BY <1>8, <2>1, <2>2, <2>3, <2>4, Zenon DEF FeedNext
<1> QED BY <1>2, <1>8

(* An event a stream owes it owes until it is emitted, and at the end of   *)
(* its blocks it owes none.                                                *)
THEOREM OwedEventsAreEmitted == Spec => []OwesNothingAtEnd /\ OwedUntilEmitted
<1>1. ASSUME IInv
      PROVE  OwesNothingAtEnd
  <2> SUFFICES ASSUME NEW t \in Tasks, NEW s \in Streams,
                      stream[<<t, s>>].at = "reading", stream[<<t, s>>].done = Len(Kind[s]),
                      stream[<<t, s>>].lastId # 0, NEW n \in DOMAIN Kind[s],
                      Owes(stream[<<t, s>>], s, n)
               PROVE  FALSE
    BY DEF OwesNothingAtEnd
  <2> DEFINE st == stream[<<t, s>>]
  <2>1. StreamInv(st, s)
    BY <1>1 DEF IInv, StreamsInv
  <2> HIDE DEF st
  <2>2. st.at = "reading" /\ st.done = Len(Kind[s]) /\ st.lastId # 0 /\ Owes(st, s, n)
    BY DEF st
  <2>3. n \in 1..Len(Kind[s]) /\ st.lastId \in Nat /\ Len(Kind[s]) \in Nat
    BY <2>1, StreamFields
  <2>4. Kind[s][n] = "event" /\ st.lastId < n
    BY <2>2 DEF Owes, Pending
  <2>5. \A m \in (st.lastId + 1)..Len(Kind[s]) : Kind[s][m] = "anonymous"
    BY <2>1, <2>2 DEF StreamInv, LastIdInv
  <2>6. n \in (st.lastId + 1)..Len(Kind[s])
    BY <2>3, <2>4
  <2> QED BY <2>4, <2>5, <2>6
<1>2. ASSUME IInv, IInv', [FeedNext]_vars, NEW t \in Tasks, NEW s \in Streams, task'[t] # "gone"
      PROVE  LET st == stream[<<t, s>>]
                 new == stream'[<<t, s>>] IN
             /\ st.lastId # 0 => st.lastId <= new.lastId
             /\ \A n \in DOMAIN Kind[s] :
                  /\ st.lastId # 0 /\ Owes(st, s, n) => Owes(new, s, n) \/ Emitted(new, n)
                  /\ Emitted(st, n) => Emitted(new, n)
  <2> DEFINE st == stream[<<t, s>>]
             new == stream'[<<t, s>>]
  <2>1. StreamInv(st, s) /\ StreamInv(new, s)
    BY <1>2 DEF IInv, StreamsInv
  <2>2. st.lastId \in Nat
    BY <2>1, StreamFields
  <2>3. CASE task[t] = "running" /\ StreamStep(t, s)
    <3>1. GoesOn(st, new, s)
      BY <1>2, <2>3, StreamGoesOn
    <3>2. st.lastId # 0 => st.lastId <= new.lastId
      <4>1. CASE Takes(st, new, s)
        <5>1. st.lastId # 0 => st.lastId <= st.done
          BY <2>1, <4>1 DEF StreamInv, LastIdInv, Takes
        <5>2. st.done \in Nat
          BY <2>1, StreamFields
        <5> HIDE DEF st, new
        <5> QED BY <2>2, <4>1, <5>1, <5>2 DEF Takes
      <4>2. CASE new.lastId = st.lastId
        BY <2>2, <4>2
      <4> QED BY <3>1, <4>1, <4>2, Zenon DEF GoesOn, Opens, Resumes, Breaks, Receives, FilesOn, Emits
    <3> HIDE DEF st, new
    <3> QED BY <2>1, <3>1, <3>2, GoingOnOwes DEF st, new
  <2>4. CASE ~(task[t] = "running" /\ StreamStep(t, s))
    <3>1. new.at = st.at /\ new.done = st.done /\ new.lastId = st.lastId /\ new.emitted = st.emitted
      BY <1>2, <2>4, StreamStays
    <3>2. \A n : (Owes(st, s, n) <=> Owes(new, s, n)) /\ (Emitted(st, n) <=> Emitted(new, n))
      BY <3>1, Zenon DEF Owes, Emitted, Pending
    <3>3. st.lastId <= new.lastId
      BY <2>2, <3>1
    <3> HIDE DEF st, new
    <3> QED BY <3>2, <3>3 DEF st, new
  <2> QED BY <2>3, <2>4
<1>3. IInv /\ IInv' /\ [FeedNext]_vars =>
        [\A t \in Tasks, s \in Streams :
           LET st == stream[<<t, s>>]
               new == stream'[<<t, s>>] IN
           task'[t] # "gone" =>
             /\ st.lastId # 0 => st.lastId <= new.lastId
             /\ \A n \in DOMAIN Kind[s] :
                  /\ st.lastId # 0 /\ Owes(st, s, n) => Owes(new, s, n) \/ Emitted(new, n)
                  /\ Emitted(st, n) => Emitted(new, n)]_vars
  BY <1>2
<1> QED BY <1>1, <1>3, Invariance, PTL DEF Spec, OwedUntilEmitted

(* A connection that does not fail has a bounded number of steps to take.  *)
THEOREM StreamsRunDry == Spec => StreamsDrain
<1>1. ASSUME IInv, IInv', NEW t \in Tasks, NEW s \in Streams, task[t] = "running", StreamStep(t, s)
      PROVE  \/ faults' = faults + 1
             \/ /\ ToGo(stream'[<<t, s>>], s) \in Nat
                /\ ToGo(stream'[<<t, s>>], s) < ToGo(stream[<<t, s>>], s)
  <2> DEFINE st == stream[<<t, s>>]
             new == stream'[<<t, s>>]
  <2>1. StreamInv(st, s) /\ StreamInv(new, s)
    BY <1>1 DEF IInv, StreamsInv
  <2>2. GoesOn(st, new, s) /\ (Breaks(st, new) => faults' = faults + 1)
    BY <1>1, StreamGoesOn
  <2> HIDE DEF st, new
  <2>3. ~Breaks(st, new) => ToGo(new, s) \in Nat /\ ToGo(new, s) < ToGo(st, s)
    BY <2>1, <2>2, GoingOnDrains
  <2> QED BY <2>2, <2>3 DEF st, new
<1>2. IInv /\ IInv' /\ [FeedNext]_vars =>
        [\A t \in Tasks, s \in Streams :
           task[t] = "running" /\ StreamStep(t, s) =>
             \/ faults' = faults + 1
             \/ /\ ToGo(stream'[<<t, s>>], s) \in Nat
                /\ ToGo(stream'[<<t, s>>], s) < ToGo(stream[<<t, s>>], s)]_vars
  BY <1>1
<1> QED BY <1>2, Invariance, PTL DEF Spec, StreamsDrain
=============================================================================
