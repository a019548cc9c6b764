-------------------------- MODULE LogStreamProofs --------------------------
(***************************************************************************)
(* The proof that LogMessage implements LogStream: what is observed of     *)
(* the log files, the sinks and num_messages_ is one stream of messages.   *)
(***************************************************************************)
EXTENDS LogMessageProofs

Shows(stream, m) == Stream!Shows(stream, m)

\* The log files that show message m.
FilesOf(m) == {f \in Severities : Shows(logfile[f], m)}

Unseen(m) == FilesOf(m) = {} /\ \A s \in Sinks : ~Shows(received[s], m)

(***************************************************************************)
(* Messages have numbers of their own, and so have the threads, because    *)
(* no two of them use the same buffer before the shared one is in use.     *)
(***************************************************************************)
IdsDiffer ==
  /\ \A b \in Buffers : data[b].id <= started
  /\ \A b, c \in Buffers : b # c /\ data[b].id # 0 => data[b].id # data[c].id
  /\ \A t \in Threads : pc[t] # "idle" => msg(t).id # 0

OwnBuffers ==
  /\ \A t \in Threads : data_[t] = Shared => data[Shared].id # 0
  /\ \A t \in Threads : data_[t] = Exclusive => ~fatal_msg_exclusive
  /\ \A t, u \in Threads : data_[t] = Exclusive /\ data_[u] = Exclusive => t = u

\* Only messages that have been constructed are seen.
SeenStarted ==
  /\ \A s \in Severities : \A i \in 1 .. Len(logfile[s]) : logfile[s][i] <= started
  /\ \A s \in Sinks : \A i \in 1 .. Len(received[s]) : received[s][i] <= started

\* How far the message of thread t has come.
Stage(t) ==
  /\ pc[t] = "lock" => Unseen(msg(t).id)
  /\ pc[t] \in {"flush", "destroy"} /\ ~has_been_flushed_[data_[t]] => Unseen(msg(t).id)
  /\ pc[t] = "send" => FilesOf(msg(t).id) = {}
  /\ pc[t] = "log" => FilesOf(msg(t).id) = IF logtostderr THEN {} ELSE todo[t] .. msg(t).severity_
  /\ pc[t] = "log" => todo[t] <= IF logtostderr THEN 0 ELSE msg(t).severity_ + 1
  /\ pc[t] \in {"sending", "fatal", "count", "store"} =>
       FilesOf(msg(t).id) \in {{}, 0 .. msg(t).severity_}

StreamInv ==
  /\ IdsDiffer
  /\ OwnBuffers
  /\ SeenStarted
  /\ ~Over => \A t \in Threads : Stage(t)

-----------------------------------------------------------------------------
LEMMA ShowsAppend ==
  ASSUME NEW p \in Seq(Nat), NEW n \in Nat, NEW m
  PROVE  Shows(Append(p, n), m) <=> Shows(p, m) \/ n = m
<1>1. /\ Len(Append(p, n)) = Len(p) + 1 /\ Append(p, n)[Len(p) + 1] = n
      /\ \A i \in 1 .. Len(p) : Append(p, n)[i] = p[i]
  OBVIOUS
<1>2. 1 .. Len(p) + 1 = 1 .. Len(p) \cup {Len(p) + 1}
  OBVIOUS
<1> QED
  BY <1>1, <1>2 DEF Shows, Stream!Shows

\* A step of one thread leaves the others, and the number of messages, alone.
LEMMA StepFrame ==
  ASSUME TypeOK, NEW t \in Threads, Step(t)
  PROVE  /\ pc[t] # "idle"
         /\ \A u \in Threads \ {t} : pc'[u] = pc[u] /\ todo'[u] = todo[u]
         /\ UNCHANGED <<started, fatal_msg_exclusive>>
<1> USE DEF locals, counts, globals, Goto, TypeOK
<1>1. CASE FlushSkip(t) \/ FlushEnter(t) \/ LockLogMutex(t) \/ SendMethodThrows(t)
           \/ FlushReturn(t) \/ Destroy(t) \/ FailExit(t) \/ FailThrow(t)
  BY <1>1 DEF FlushSkip, FlushEnter, LockLogMutex, SendMethodThrows, FlushReturn, Destroy,
              FailExit, FailThrow
<1>2. CASE SendMethod(t) \/ LogToLogfile(t)
  BY <1>2 DEF SendMethod, LogToLogfile
<1>3. CASE LogToSink(t) \/ LogToSinkThrows(t)
  BY <1>3 DEF LogToSink, LogToSinkThrows
<1>4. CASE LogToSinksBegin(t) \/ LogToSinksEnd(t)
  BY <1>4 DEF LogToSinksBegin, LogToSinksEnd, LockSinks, UnlockSinks
<1>5. CASE FatalUnlock(t) \/ CountLoad(t) \/ CountStore(t) \/ UnlockLogMutex(t)
  BY <1>5 DEF FatalUnlock, CountLoad, CountStore, UnlockLogMutex
<1>6. ASSUME NEW call \in {"wait", "fatalwait"}, NEW inside \in Waiting, NEW return,
             WaitForSinks(t, call, inside, return)
      PROVE  /\ pc[t] # "idle"
             /\ \A u \in Threads \ {t} : pc'[u] = pc[u] /\ todo'[u] = todo[u]
             /\ UNCHANGED <<started, fatal_msg_exclusive>>
  BY <1>6 DEF WaitForSinks, WaitBegin, WaitTillSent, WaitEnd, LockSinks, UnlockSinks, Waiting
<1> QED
  BY <1>1, <1>2, <1>3, <1>4, <1>5, <1>6 DEF Step, Waiting

\* What a step of a thread does to the outputs: nothing, or it adds its message to one.
Appends(t) ==
  \/ UNCHANGED <<logfile, received>>
  \/ /\ UNCHANGED received
     /\ \E s \in Severities : logfile' = [logfile EXCEPT ![s] = Append(@, msg(t).id)]
  \/ /\ UNCHANGED logfile
     /\ \E s \in Sinks : received' = [received EXCEPT ![s] = Append(@, msg(t).id)]

LEMMA StepAppends ==
  ASSUME TypeOK, SinkIndexInBounds, NEW t \in Threads, Step(t)
  PROVE  Appends(t)
<1> USE DEF Appends, outputs
<1>m. msg(t) \in LogMessageData
  BY MsgType
<1>1. CASE SendMethod(t)
  BY <1>1, <1>m DEF SendMethod, HasTarget, Deliver, LogMessageData
<1>2. CASE LogToLogfile(t)
  <2>1. logfile' = [logfile EXCEPT ![todo[t] - 1] = Append(@, msg(t).id)] /\ UNCHANGED received
    BY <1>2 DEF LogToLogfile
  <2>2. CASE todo[t] - 1 \in Severities
    BY <2>1, <2>2
  <2>3. CASE todo[t] - 1 \notin Severities
    BY <2>1, <2>3 DEF TypeOK
  <2> QED
    BY <2>2, <2>3
<1>3. CASE LogToSink(t)
  <2>1. sinks_[todo[t]] \in Sinks
    BY <1>3, SinkAt DEF LogToSink, Goto, Sending
  <2> QED
    BY <1>3, <2>1 DEF LogToSink, Deliver
<1>4. CASE \/ FlushSkip(t) \/ FlushEnter(t) \/ LockLogMutex(t) \/ SendMethodThrows(t)
           \/ LogToSinksBegin(t) \/ LogToSinkThrows(t) \/ LogToSinksEnd(t)
           \/ FatalUnlock(t) \/ CountLoad(t) \/ CountStore(t) \/ UnlockLogMutex(t)
           \/ FlushReturn(t) \/ Destroy(t) \/ FailExit(t) \/ FailThrow(t)
  BY <1>4 DEF FlushSkip, FlushEnter, LockLogMutex, SendMethodThrows, LogToSinksBegin,
     LogToSinkThrows, LogToSinksEnd, FatalUnlock, CountLoad, CountStore, UnlockLogMutex,
     FlushReturn, Destroy, FailExit, FailThrow, LockSinks, UnlockSinks
<1>5. ASSUME NEW call, NEW inside, NEW return, WaitForSinks(t, call, inside, return)
      PROVE  Appends(t)
  BY <1>5 DEF WaitForSinks, WaitBegin, WaitTillSent, WaitEnd, LockSinks, UnlockSinks
<1> QED
  BY <1>1, <1>2, <1>3, <1>4, <1>5 DEF Step

\* What is shown afterwards was shown before, or is the message of that thread.
LEMMA AppendsShows ==
  ASSUME TypeOK, NEW t \in Threads, Appends(t), NEW m
  PROVE  /\ \A s \in Severities : Shows(logfile'[s], m) => Shows(logfile[s], m) \/ m = msg(t).id
         /\ \A s \in Severities : Shows(logfile[s], m) => Shows(logfile'[s], m)
         /\ \A s \in Sinks : Shows(received'[s], m) => Shows(received[s], m) \/ m = msg(t).id
         /\ \A s \in Sinks : Shows(received[s], m) => Shows(received'[s], m)
<1>m. msg(t).id \in Nat
  BY MsgType DEF LogMessageData
<1>1. CASE UNCHANGED <<logfile, received>>
  BY <1>1
<1>2. ASSUME UNCHANGED received, NEW k \in Severities,
             logfile' = [logfile EXCEPT ![k] = Append(@, msg(t).id)]
      PROVE  /\ \A s \in Severities : Shows(logfile'[s], m) => Shows(logfile[s], m) \/ m = msg(t).id
             /\ \A s \in Severities : Shows(logfile[s], m) => Shows(logfile'[s], m)
  <2>1. Shows(logfile'[k], m) <=> Shows(logfile[k], m) \/ msg(t).id = m
    BY <1>m, <1>2, ShowsAppend DEF TypeOK
  <2>2. \A s \in Severities \ {k} : logfile'[s] = logfile[s]
    BY <1>2 DEF TypeOK
  <2> QED
    BY <2>1, <2>2
<1>3. ASSUME UNCHANGED logfile, NEW k \in Sinks,
             received' = [received EXCEPT ![k] = Append(@, msg(t).id)]
      PROVE  /\ \A s \in Sinks : Shows(received'[s], m) => Shows(received[s], m) \/ m = msg(t).id
             /\ \A s \in Sinks : Shows(received[s], m) => Shows(received'[s], m)
  <2>1. Shows(received'[k], m) <=> Shows(received[k], m) \/ msg(t).id = m
    BY <1>m, <1>3, ShowsAppend DEF TypeOK
  <2>2. \A s \in Sinks \ {k} : received'[s] = received[s]
    BY <1>3 DEF TypeOK
  <2> QED
    BY <2>1, <2>2
<1> QED
  BY <1>1, <1>2, <1>3 DEF Appends

-----------------------------------------------------------------------------
(***************************************************************************)
(* The parts of the invariant that hold whether or not the promise is over. *)
(***************************************************************************)
LEMMA StepIds ==
  ASSUME TypeOK, IdsDiffer, OwnBuffers, NEW t \in Threads, Step(t)
  PROVE  IdsDiffer' /\ OwnBuffers'
<1>f. /\ pc[t] # "idle"
      /\ \A u \in Threads \ {t} : pc'[u] = pc[u]
      /\ UNCHANGED <<started, fatal_msg_exclusive>>
  BY StepFrame
<1>m. \A u \in Threads \ {t} : msg(u)' = msg(u) /\ data_'[u] = data_[u]
  BY MsgKept
<1>1. CASE ~Destroy(t)
  <2>1. UNCHANGED <<data, data_>>
    BY <1>1, MsgKept
  <2> QED
    BY <1>f, <2>1 DEF IdsDiffer, OwnBuffers, msg
<1>2. CASE Destroy(t)
  <2>1. /\ data' = [data EXCEPT ![t] = NoData] /\ data_' = [data_ EXCEPT ![t] = t]
        /\ pc'[t] = "idle"
    BY <1>2 DEF Destroy, Goto, TypeOK
  <2>2. t \in Buffers /\ Shared \in Buffers /\ t # Shared /\ t # Exclusive
    BY ThreadsAssumption DEF Buffers
  <2>3. \A b \in Buffers : data'[b].id = IF b = t THEN 0 ELSE data[b].id
    BY <2>1, <2>2 DEF NoData, TypeOK
  <2>4. \A u \in Threads : data_'[u] = IF u = t THEN t ELSE data_[u]
    BY <2>1 DEF TypeOK
  <2>5. IdsDiffer'
    <3>1. started \in Nat
      BY DEF TypeOK
    <3> QED
      BY <1>f, <1>m, <2>1, <2>3, <3>1 DEF IdsDiffer
  <2>6. OwnBuffers'
    BY <1>f, <2>2, <2>3, <2>4 DEF OwnBuffers
  <2> QED
    BY <2>5, <2>6
<1> QED
  BY <1>1, <1>2

\* What constructing a message does to the buffers.
LEMMA ConstructBuffers ==
  ASSUME TypeOK, OwnBuffers, NEW t \in Threads, NEW st \in Statement, Construct(t, st),
         NEW b, b = BufferFor(t, st)
  PROVE  /\ b \in Buffers
         /\ \A c \in Buffers : data'[c].id = IF c = b THEN started + 1 ELSE data[c].id
         /\ \A c \in Buffers \ {b} : /\ data'[c] = data[c]
                                     /\ has_been_flushed_'[c] = has_been_flushed_[c]
         /\ \A u \in Threads : data_'[u] = IF u = t THEN b ELSE data_[u]
         /\ started' = started + 1
         /\ b # Shared => \A u \in Threads \ {t} : data_[u] # b
         /\ pc[t] = "idle" /\ pc'[t] = "flush"
         /\ \A u \in Threads \ {t} : pc'[u] = pc[u]
<1> DEFINE d == [severity_ |-> st.severity_, send_method_ |-> st.send_method_,
                 sink_ |-> st.sink_, out |-> st.out,
                 first_fatal_ |-> b = Exclusive, id |-> started + 1]
<1>1. b = t \/ (b = Exclusive /\ fatal_msg_exclusive) \/ b = Shared
  BY DEF BufferFor
<1>2. /\ data' = [data EXCEPT ![b] = d] /\ data_' = [data_ EXCEPT ![t] = b]
      /\ has_been_flushed_' = [has_been_flushed_ EXCEPT ![b] = FALSE]
      /\ started' = started + 1
  BY DEF Construct
<1>3. b \in Buffers /\ d.id = started + 1
  BY <1>1 DEF Buffers
<1>4. b # Shared => \A u \in Threads \ {t} : data_[u] # b
  BY <1>1, ThreadsAssumption DEF OwnBuffers, TypeOK
<1>5. pc[t] = "idle" /\ pc' = [pc EXCEPT ![t] = "flush"]
  BY DEF Construct, Goto
<1> HIDE DEF d
<1> QED
  BY <1>2, <1>3, <1>4, <1>5 DEF TypeOK

LEMMA ConstructIds ==
  ASSUME TypeOK, IdsDiffer, OwnBuffers, NEW t \in Threads, NEW st \in Statement,
         Construct(t, st)
  PROVE  IdsDiffer' /\ OwnBuffers'
<1> DEFINE b == BufferFor(t, st)
<1>b. /\ b \in Buffers
      /\ \A c \in Buffers : data'[c].id = IF c = b THEN started + 1 ELSE data[c].id
      /\ \A u \in Threads : data_'[u] = IF u = t THEN b ELSE data_[u]
      /\ started' = started + 1
      /\ b # Shared => \A u \in Threads \ {t} : data_[u] # b
      /\ pc'[t] = "flush"
      /\ \A u \in Threads \ {t} : pc'[u] = pc[u]
  BY ConstructBuffers
<1>x. /\ b = Exclusive => UsesFatalBuffer(st)
      /\ b = Exclusive => fatal_msg_exclusive
      /\ fatal_msg_exclusive' = (fatal_msg_exclusive /\ ~UsesFatalBuffer(st))
  BY ThreadsAssumption DEF Construct, BufferFor
<1> HIDE DEF b
<1>n. started \in Nat /\ \A c \in Buffers : data[c].id \in Nat
  BY DEF TypeOK, LogMessageData
<1>s. Shared \in Buffers /\ Shared # Exclusive /\ \A u \in Threads : data_[u] \in Buffers
  BY ThreadsAssumption DEF Buffers, TypeOK
<1>1. IdsDiffer'
  <2>1. \A c \in Buffers : data'[c].id <= started'
    BY <1>b, <1>n DEF IdsDiffer
  <2>2. ASSUME NEW c \in Buffers, NEW e \in Buffers, c # e, data'[c].id # 0
        PROVE  data'[c].id # data'[e].id
    BY <2>2, <1>b, <1>n DEF IdsDiffer
  <2>3. ASSUME NEW u \in Threads, pc'[u] # "idle"
        PROVE  msg(u)'.id # 0
    <3>1. CASE u = t
      BY <3>1, <1>b, <1>n DEF msg
    <3>2. CASE u # t
      BY <3>2, <2>3, <1>b, <1>n, <1>s DEF msg, IdsDiffer
    <3> QED
      BY <3>1, <3>2
  <2> QED
    BY <2>1, <2>2, <2>3 DEF IdsDiffer, msg
<1>2. OwnBuffers'
  <2>1. \A u \in Threads : data_'[u] = Shared => data'[Shared].id # 0
    BY <1>b, <1>n, <1>s DEF OwnBuffers
  <2>2. \A u \in Threads : data_'[u] = Exclusive => ~fatal_msg_exclusive'
    BY <1>b, <1>x DEF OwnBuffers
  <2>3. \A u, v \in Threads : data_'[u] = Exclusive /\ data_'[v] = Exclusive => u = v
    BY <1>b, <1>x, <1>s DEF OwnBuffers
  <2> QED
    BY <2>1, <2>2, <2>3 DEF OwnBuffers
<1> QED
  BY <1>1, <1>2

\* A message that has not been constructed has not been seen.
LEMMA StepSeen ==
  ASSUME TypeOK, SinkIndexInBounds, IdsDiffer, SeenStarted, NEW t \in Threads, Step(t)
  PROVE  SeenStarted'
<1>a. Appends(t) /\ UNCHANGED started
  BY StepAppends, StepFrame
<1>m. msg(t).id \in Nat /\ msg(t).id <= started /\ started \in Nat
  BY MsgType DEF LogMessageData, IdsDiffer, msg, TypeOK
<1>1. CASE UNCHANGED <<logfile, received>>
  BY <1>1, <1>a DEF SeenStarted
<1>2. ASSUME UNCHANGED received, NEW k \in Severities,
             logfile' = [logfile EXCEPT ![k] = Append(@, msg(t).id)]
      PROVE  SeenStarted'
  <2>1. logfile'[k] = Append(logfile[k], msg(t).id) /\ logfile[k] \in Seq(Nat)
    BY <1>2 DEF TypeOK
  <2>2. \A i \in 1 .. Len(logfile'[k]) : logfile'[k][i] <= started
    BY <1>m, <2>1 DEF SeenStarted
  <2>3. \A s \in Severities \ {k} : logfile'[s] = logfile[s]
    BY <1>2 DEF TypeOK
  <2> QED
    BY <1>2, <1>a, <2>2, <2>3 DEF SeenStarted
<1>3. ASSUME UNCHANGED logfile, NEW k \in Sinks,
             received' = [received EXCEPT ![k] = Append(@, msg(t).id)]
      PROVE  SeenStarted'
  <2>1. received'[k] = Append(received[k], msg(t).id) /\ received[k] \in Seq(Nat)
    BY <1>3 DEF TypeOK
  <2>2. \A i \in 1 .. Len(received'[k]) : received'[k][i] <= started
    BY <1>m, <2>1 DEF SeenStarted
  <2>3. \A s \in Sinks \ {k} : received'[s] = received[s]
    BY <1>3 DEF TypeOK
  <2> QED
    BY <1>3, <1>a, <2>2, <2>3 DEF SeenStarted
<1> QED
  BY <1>1, <1>2, <1>3, <1>a DEF Appends

LEMMA NewUnseen ==
  ASSUME TypeOK, SeenStarted
  PROVE  Unseen(started + 1)
<1>1. \A s \in Severities : ~Shows(logfile[s], started + 1)
  BY DEF SeenStarted, Shows, Stream!Shows, TypeOK
<1>2. \A s \in Sinks : ~Shows(received[s], started + 1)
  BY DEF SeenStarted, Shows, Stream!Shows, TypeOK
<1> QED
  BY <1>1, <1>2 DEF Unseen, FilesOf

-----------------------------------------------------------------------------
(***************************************************************************)
(* The stages of a message, as long as the promise is not over.            *)
(***************************************************************************)
LEMMA BuffersApart ==
  ASSUME TypeOK, OwnBuffers, data[Shared].id = 0, NEW t \in Threads, NEW u \in Threads \ {t}
  PROVE  data_[u] # data_[t] /\ data_[u] # t /\ data_[t] # Shared
<1>1. \A v \in Threads : data_[v] \in {v, Exclusive}
  BY DEF TypeOK, OwnBuffers
<1> QED
  BY <1>1, ThreadsAssumption DEF OwnBuffers

LEMMA MessagesDiffer ==
  ASSUME TypeOK, IdsDiffer, OwnBuffers, data[Shared].id = 0,
         NEW t \in Threads, NEW u \in Threads \ {t}, pc[u] # "idle"
  PROVE  msg(u).id # msg(t).id
  BY BuffersApart DEF IdsDiffer, msg, TypeOK

LEMMA FlushedKept ==
  ASSUME TypeOK, NEW t \in Threads, Step(t), NEW b \in Buffers, b # t, b # data_[t]
  PROVE  has_been_flushed_'[b] = has_been_flushed_[b]
<1> USE DEF buffers
<1>1. CASE FlushReturn(t) \/ Destroy(t)
  BY <1>1 DEF FlushReturn, Destroy, TypeOK
<1>2. CASE ~(FlushReturn(t) \/ Destroy(t))
  <2>1. UNCHANGED has_been_flushed_
    BY <1>2 DEF Step, FlushSkip, FlushEnter, LockLogMutex, SendMethod, SendMethodThrows,
       LogToLogfile, LogToSinksBegin, LogToSink, LogToSinkThrows, LogToSinksEnd, FatalUnlock,
       WaitForSinks, WaitBegin, WaitTillSent, WaitEnd, CountLoad, CountStore, UnlockLogMutex,
       FailExit, FailThrow, LockSinks, UnlockSinks
  <2> QED
    BY <2>1
<1> QED
  BY <1>1, <1>2

\* A message is seen as before if a thread with another message takes the step.
LEMMA SeenKept ==
  ASSUME TypeOK, NEW t \in Threads, Appends(t), NEW m, m # msg(t).id
  PROVE  /\ {f \in Severities : Shows(logfile'[f], m)} = FilesOf(m)
         /\ \A s \in Sinks : Shows(received'[s], m) <=> Shows(received[s], m)
<1>1. \A s \in Severities : Shows(logfile'[s], m) <=> Shows(logfile[s], m)
  BY AppendsShows
<1>2. \A s \in Sinks : Shows(received'[s], m) <=> Shows(received[s], m)
  BY AppendsShows
<1> QED
  BY <1>1, <1>2 DEF FilesOf

LEMMA StepOthers ==
  ASSUME TypeOK, SinkIndexInBounds, IdsDiffer, OwnBuffers, ~Over,
         NEW t \in Threads, Step(t), NEW u \in Threads \ {t}, Stage(u)
  PROVE  Stage(u)'
<1>1. /\ pc'[u] = pc[u] /\ todo'[u] = todo[u]
      /\ msg(u)' = msg(u) /\ data_'[u] = data_[u]
  BY StepFrame, MsgKept
<1>2. has_been_flushed_'[data_'[u]] = has_been_flushed_[data_[u]]
  BY <1>1, BuffersApart, FlushedKept DEF TypeOK, Over
<1>3. CASE pc[u] = "idle"
  BY <1>1, <1>3 DEF Stage
<1>4. CASE pc[u] # "idle"
  <2>1. msg(u).id # msg(t).id /\ Appends(t)
    BY <1>4, MessagesDiffer, StepAppends DEF Over
  <2>2. /\ {f \in Severities : Shows(logfile'[f], msg(u).id)} = FilesOf(msg(u).id)
        /\ \A s \in Sinks : Shows(received'[s], msg(u).id) <=> Shows(received[s], msg(u).id)
    BY <2>1, SeenKept
  <2>3. FilesOf(msg(u).id)' = FilesOf(msg(u).id)
    BY <1>1, <2>2 DEF FilesOf
  <2>4. Unseen(msg(u).id) => Unseen(msg(u).id)'
    BY <1>1, <2>2, <2>3 DEF Unseen
  <2> QED
    BY <1>1, <1>2, <2>3, <2>4 DEF Stage
<1> QED
  BY <1>3, <1>4

\* A step that shows nothing, and neither moves the loop nor changes the message.
LEMMA Quiet ==
  ASSUME NEW t \in Threads, UNCHANGED <<logfile, received, data, data_>>
  PROVE  /\ FilesOf(msg(t).id)' = FilesOf(msg(t).id)
         /\ Unseen(msg(t).id)' <=> Unseen(msg(t).id)
         /\ msg(t)' = msg(t)
  BY DEF FilesOf, Unseen, msg

LEMMA StepOwn ==
  ASSUME TypeOK, SinkIndexInBounds, MutexInv, ~Over, NEW t \in Threads, Step(t), Stage(t), ~Over'
  PROVE  Stage(t)'
<1> USE DEF locals, buffers, outputs
<1>m. /\ msg(t) \in LogMessageData /\ msg(t).severity_ \in Nat
      /\ data_[t] \in Buffers /\ todo[t] \in Nat
  <2>1. msg(t) \in LogMessageData
    BY MsgType
  <2>2. msg(t).severity_ \in Nat
    BY <2>1, StatementsAssumption DEF LogMessageData, Severities, GLOG_FATAL
  <2> QED
    BY <2>1, <2>2 DEF TypeOK
<1>q. ASSUME UNCHANGED <<logfile, received, data, data_>>
      PROVE  /\ FilesOf(msg(t).id)' = FilesOf(msg(t).id)
             /\ Unseen(msg(t).id)' <=> Unseen(msg(t).id)
             /\ msg(t)' = msg(t)
  BY <1>q, Quiet
<1>1. CASE FlushSkip(t) \/ FailThrow(t)
  BY <1>1, <1>q DEF FlushSkip, FailThrow, Goto, TypeOK, Stage
<1>2. CASE FlushEnter(t)
  BY <1>2, <1>q DEF FlushEnter, Suppressed, Goto, TypeOK, Stage
<1>3. CASE LockLogMutex(t)
  BY <1>3, <1>q DEF LockLogMutex, Goto, TypeOK, Stage, Unseen
<1>4. CASE SendMethod(t)
  <2>1. UNCHANGED <<logfile, data, data_>> /\ pc[t] = "send"
        /\ pc'[t] = (IF SkipsLog(t) THEN "count" ELSE "log")
        /\ todo'[t] = IF logtostderr \/ SkipsLog(t) THEN 0 ELSE msg(t).severity_ + 1
    BY <1>4 DEF SendMethod, Goto, TypeOK
  <2>2. FilesOf(msg(t).id)' = FilesOf(msg(t).id) /\ msg(t)' = msg(t)
    BY <2>1 DEF FilesOf, msg
  <2>3. FilesOf(msg(t).id) = {}
    BY <2>1 DEF Stage
  <2>4. \A n \in Nat : n + 1 .. n = {}
    OBVIOUS
  <2> QED
    BY <1>m, <2>1, <2>2, <2>3, <2>4 DEF Stage
<1>5. CASE SendMethodThrows(t)
  BY <1>5, <1>q DEF SendMethodThrows, Goto, TypeOK, Stage
<1>6. CASE LogToLogfile(t)
  <2> DEFINE m == msg(t).id
             k == todo[t] - 1
  <2>1. /\ pc[t] = "log" /\ pc'[t] = "log" /\ todo[t] > 0 /\ todo'[t] = k
        /\ logfile' = [logfile EXCEPT ![k] = Append(@, m)]
        /\ UNCHANGED <<data, data_>>
    BY <1>6 DEF LogToLogfile, Goto, TypeOK
  <2>2. /\ FilesOf(m) = todo[t] .. msg(t).severity_ /\ ~logtostderr
        /\ todo[t] <= msg(t).severity_ + 1
    BY <1>m, <2>1 DEF Stage
  <2>3. k \in Severities /\ msg(t).severity_ \in Severities /\ m \in Nat
    BY <1>m, <2>1, <2>2, StatementsAssumption DEF Severities, GLOG_FATAL, LogMessageData
  <2>4. msg(t)' = msg(t)
    BY <2>1 DEF msg
  <2>5. Shows(logfile'[k], m)
    BY <2>1, <2>3, ShowsAppend DEF TypeOK
  <2>6. \A f \in Severities \ {k} : logfile'[f] = logfile[f]
    BY <2>1 DEF TypeOK
  <2>7. {f \in Severities : Shows(logfile'[f], m)} = FilesOf(m) \cup {k}
    BY <2>3, <2>5, <2>6 DEF FilesOf
  <2>8. FilesOf(m)' = FilesOf(m) \cup {k}
    BY <2>4, <2>7 DEF FilesOf
  <2>9. k .. msg(t).severity_ = (todo[t] .. msg(t).severity_) \cup {k}
    BY <1>m, <2>1, <2>2
  <2> QED
    BY <1>m, <2>1, <2>2, <2>4, <2>8, <2>9 DEF Stage
<1>7. CASE LogToSinksBegin(t)
  <2>1. pc[t] = "log" /\ pc'[t] = "sending" /\ todo[t] = 0
        /\ UNCHANGED <<logfile, received, data, data_>>
    BY <1>7 DEF LogToSinksBegin, LockSinks, Goto, TypeOK
  <2> QED
    BY <2>1, <1>q DEF Stage
<1>8. CASE LogToSink(t)
  <2>1. pc[t] = "sending" /\ pc'[t] = "sending" /\ UNCHANGED <<logfile, data, data_>>
    BY <1>8 DEF LogToSink, Goto, TypeOK
  <2>2. FilesOf(msg(t).id)' = FilesOf(msg(t).id) /\ msg(t)' = msg(t)
    BY <2>1 DEF FilesOf, msg
  <2> QED
    BY <2>1, <2>2 DEF Stage
<1>9. CASE LogToSinkThrows(t) \/ LogToSinksEnd(t)
  BY <1>9, <1>q DEF LogToSinkThrows, LogToSinksEnd, UnlockSinks, Goto, TypeOK, Stage
<1>10. CASE FatalUnlock(t)
  BY <1>10 DEF FatalUnlock, Over
<1>11. CASE WaitForSinks(t, "fatalwait", "fatalwaiting", "count")
  <2>1. pc[t] \in {"fatalwait", "fatalwaiting"}
    BY <1>11 DEF WaitForSinks, WaitBegin, WaitTillSent, WaitEnd, LockSinks, UnlockSinks, Goto
  <2> QED
    BY <2>1 DEF MutexInv, FatalWaiters, Over
<1>12. CASE CountLoad(t) \/ CountStore(t)
  BY <1>12, <1>q DEF CountLoad, CountStore, Goto, TypeOK, Stage
<1>13. CASE UnlockLogMutex(t) \/ FailExit(t) \/ Destroy(t)
  BY <1>13 DEF UnlockLogMutex, FailExit, Destroy, Goto, TypeOK, Stage
<1>14. CASE WaitForSinks(t, "wait", "waiting", "flushed")
  BY <1>14 DEF WaitForSinks, WaitBegin, WaitTillSent, WaitEnd, LockSinks, UnlockSinks, Goto,
               TypeOK, Stage
<1>15. CASE FlushReturn(t)
  BY <1>15, <1>m DEF FlushReturn, Goto, TypeOK, Stage
<1> QED
  BY <1>1, <1>2, <1>3, <1>4, <1>5, <1>6, <1>7, <1>8, <1>9, <1>10, <1>11, <1>12, <1>13, <1>14,
     <1>15 DEF Step

LEMMA ConstructStages ==
  ASSUME TypeOK, IdsDiffer, OwnBuffers, SeenStarted, NEW t \in Threads, NEW st \in Statement,
         Construct(t, st), ~Over, \A u \in Threads : Stage(u), ~Over'
  PROVE  \A u \in Threads : Stage(u)'
<1> DEFINE b == BufferFor(t, st)
<1>b. /\ b \in Buffers
      /\ \A c \in Buffers : data'[c].id = IF c = b THEN started + 1 ELSE data[c].id
      /\ \A c \in Buffers \ {b} : /\ data'[c] = data[c]
                                  /\ has_been_flushed_'[c] = has_been_flushed_[c]
      /\ \A u \in Threads : data_'[u] = IF u = t THEN b ELSE data_[u]
      /\ b # Shared => \A u \in Threads \ {t} : data_[u] # b
      /\ pc'[t] = "flush"
      /\ \A u \in Threads \ {t} : pc'[u] = pc[u]
  BY ConstructBuffers
<1>u. UNCHANGED <<logfile, received, todo>>
  BY DEF Construct
<1> HIDE DEF b
<1>s. b # Shared
  BY <1>b DEF Over, TypeOK
<1>1. Stage(t)'
  <2>1. msg(t)'.id = started + 1
    BY <1>b DEF msg
  <2>2. Unseen(msg(t).id)'
    BY <1>u, <2>1, NewUnseen DEF Unseen, FilesOf
  <2> QED
    BY <1>b, <2>2 DEF Stage
<1>2. ASSUME NEW u \in Threads \ {t}
      PROVE  Stage(u)'
  <2>1. /\ data_[u] \in Buffers \ {b} /\ data_'[u] = data_[u] /\ pc'[u] = pc[u]
        /\ has_been_flushed_'[data_'[u]] = has_been_flushed_[data_[u]]
        /\ msg(u)' = msg(u)
    BY <1>b, <1>s DEF TypeOK, msg
  <2>2. FilesOf(msg(u).id)' = FilesOf(msg(u).id) /\ (Unseen(msg(u).id)' <=> Unseen(msg(u).id))
    BY <1>u, <2>1 DEF FilesOf, Unseen
  <2> QED
    BY <1>u, <2>1, <2>2 DEF Stage
<1> QED
  BY <1>1, <1>2

-----------------------------------------------------------------------------
(***************************************************************************)
(* Each step is a step of the stream, or none.                             *)
(***************************************************************************)
LEMMA CurrentOf ==
  ASSUME TypeOK, MutexInv, ~Over, NEW t \in Threads, pc[t] \in Logging
  PROVE  log_mutex = t /\ Current = IF pc[t] = "unlock" THEN 0 ELSE msg(t).id
  BY DEF MutexInv, LogMutexHeld, Over, Current

LEMMA CurrentKept ==
  ASSUME TypeOK, UNCHANGED log_mutex, NEW t \in Threads,
         \A u \in Threads \ {t} : pc'[u] = pc[u] /\ msg(u)' = msg(u),
         log_mutex = t => pc[t] # "unlock" /\ pc'[t] # "unlock" /\ msg(t)' = msg(t)
  PROVE  Current' = Current
<1>1. CASE log_mutex = t
  BY <1>1 DEF Current, msg
<1>2. CASE log_mutex # t
  BY <1>2 DEF Current, msg
<1> QED
  BY <1>1, <1>2

\* The promise, once over, stays so.
LEMMA OverStays == TypeOK /\ Over /\ [Next]_vars => Over'
<1> SUFFICES ASSUME TypeOK, Over, [Next]_vars PROVE Over'
  OBVIOUS
<1> USE DEF locals, buffers, globals, outputs, counts, ghosts
<1>s. Shared \in Buffers /\ Shared \notin Threads
  BY ThreadsAssumption DEF Buffers
<1>1. ASSUME NEW t \in Threads, Step(t)
      PROVE  Over'
  <2>1. fatalUnlocked => fatalUnlocked'
    BY <1>1 DEF Step, FlushSkip, FlushEnter, LockLogMutex, SendMethod, SendMethodThrows,
       LogToLogfile, LogToSinksBegin, LogToSink, LogToSinkThrows, LogToSinksEnd, FatalUnlock,
       WaitForSinks, WaitBegin, WaitTillSent, WaitEnd, CountLoad, CountStore, UnlockLogMutex,
       FlushReturn, Destroy, FailExit, FailThrow, LockSinks, UnlockSinks
  <2>2. data'[Shared] = data[Shared]
    <3>1. CASE Destroy(t)
      BY <1>s, <3>1 DEF Destroy, TypeOK
    <3>2. CASE ~Destroy(t)
      BY <1>1, <3>2, MsgKept
    <3> QED
      BY <3>1, <3>2
  <2> QED
    BY <2>1, <2>2 DEF Over
<1>2. ASSUME NEW t \in Threads, NEW st \in Statement, Construct(t, st)
      PROVE  Over'
  <2> DEFINE b == BufferFor(t, st)
             d == [severity_ |-> st.severity_, send_method_ |-> st.send_method_,
                   sink_ |-> st.sink_, out |-> st.out,
                   first_fatal_ |-> b = Exclusive, id |-> started + 1]
  <2>1. data' = [data EXCEPT ![b] = d] /\ d.id = started + 1 /\ UNCHANGED fatalUnlocked
    BY <1>2 DEF Construct
  <2> HIDE DEF b, d
  <2>2. data'[Shared].id \in {data[Shared].id, started + 1}
    BY <1>s, <2>1 DEF TypeOK
  <2>3. started + 1 # 0
    BY DEF TypeOK
  <2> QED
    BY <2>1, <2>2, <2>3 DEF Over
<1>3. CASE UNCHANGED <<data, fatalUnlocked>>
  BY <1>3 DEF Over
<1> QED
  BY <1>1, <1>2, <1>3, SinksAssumption, StatementsAssumption
  DEF Next, Terminated, LogStatement, HelperRun, AddLogSink, RemoveLogSink,
      SetExitOnDFatal, vars

LEMMA StepStream ==
  ASSUME TypeOK, SinkIndexInBounds, MutexInv, CountInv, IdsDiffer, ~Over,
         NEW t \in Threads, Step(t), Stage(t), ~Over'
  PROVE  [Stream!Next]_Stream!vars
<1> USE DEF locals, buffers, outputs
<1>m. msg(t) \in LogMessageData /\ msg(t).id # 0 /\ msg(t).severity_ \in Severities
  <2>1. msg(t) \in LogMessageData /\ pc[t] # "idle"
    BY MsgType, StepFrame
  <2> QED
    BY <2>1 DEF LogMessageData, IdsDiffer
<1>f. \A u \in Threads \ {t} : pc'[u] = pc[u] /\ msg(u)' = msg(u)
  BY StepFrame, MsgKept
<1>o. Over' = Over
  BY DEF Over
<1>q. ASSUME UNCHANGED <<log_mutex, logfile, received, num_messages_>>,
             pc[t] # "unlock", pc'[t] # "unlock",
             pc[t] \in Logging => UNCHANGED <<data, data_>>
      PROVE  UNCHANGED Stream!vars
  <2>1. log_mutex = t => msg(t)' = msg(t)
    BY <1>q DEF MutexInv, LogMutexHeld, Over, msg
  <2>2. Current' = Current
    BY <1>q, <1>f, <2>1, CurrentKept
  <2> QED
    BY <1>q, <2>2 DEF Stream!vars, Over
<1>1. CASE FlushSkip(t) \/ FlushEnter(t) \/ SendMethodThrows(t) \/ FlushReturn(t)
           \/ FailExit(t) \/ FailThrow(t) \/ Destroy(t) \/ LogToSinkThrows(t) \/ CountLoad(t)
  BY <1>1, <1>q DEF FlushSkip, FlushEnter, SendMethodThrows, FlushReturn, FailExit, FailThrow,
                    Destroy, LogToSinkThrows, CountLoad, Goto, TypeOK, Logging, globals
<1>2. CASE LogToSinksBegin(t) \/ LogToSinksEnd(t)
  BY <1>2, <1>q DEF LogToSinksBegin, LogToSinksEnd, LockSinks, UnlockSinks, Goto, TypeOK
<1>3. ASSUME NEW call \in {"wait", "fatalwait"}, NEW inside \in Waiting,
             NEW return \in {"count", "flushed"}, WaitForSinks(t, call, inside, return)
      PROVE  UNCHANGED Stream!vars
  <2>1. /\ UNCHANGED <<log_mutex, logfile, received, num_messages_, data, data_>>
        /\ pc'[t] \in {inside, return}
        /\ pc[t] \in {call, inside}
    BY <1>3 DEF WaitForSinks, WaitBegin, WaitTillSent, WaitEnd, LockSinks, UnlockSinks, Goto,
                TypeOK
  <2> QED
    BY <1>3, <2>1, <1>q DEF Waiting
<1>4. CASE LockLogMutex(t)
  <2>1. /\ pc[t] = "lock" /\ pc'[t] = "send" /\ log_mutex = NoThread /\ log_mutex' = t
        /\ UNCHANGED <<logfile, received, num_messages_, data, data_>>
    BY <1>4 DEF LockLogMutex, Goto, TypeOK
  <2>2. Current = 0 /\ Current' = msg(t).id
    BY <2>1, ThreadsAssumption DEF Current, msg
  <2>3. Unseen(msg(t).id)
    BY <2>1 DEF Stage
  <2>4. /\ \A s \in Severities : ~Stream!Shows(logfile[s], msg(t).id)
        /\ \A s \in Sinks : ~Stream!Shows(received[s], msg(t).id)
    BY <2>3 DEF Unseen, FilesOf, Shows
  <2>5. Stream!Begin
    BY <1>m, <1>o, <2>1, <2>2, <2>4 DEF Stream!Begin
  <2> QED
    BY <2>5 DEF Stream!Next
<1>5. CASE SendMethod(t)
  <2>1. /\ pc[t] = "send" /\ pc'[t] \in {"count", "log"}
        /\ UNCHANGED <<log_mutex, logfile, num_messages_, data, data_>>
    BY <1>5 DEF SendMethod, Goto, TypeOK
  <2>2. log_mutex = t /\ Current = msg(t).id
    BY <2>1, CurrentOf DEF Logging
  <2>3. Current' = Current
    BY <1>f, <2>1, CurrentKept DEF msg
  <2>4. CASE HasTarget(t)
    <3>1. /\ msg(t).sink_ \in Sinks
          /\ received' = [received EXCEPT ![msg(t).sink_] = Append(@, Current)]
      BY <1>5, <1>m, <2>2, <2>4 DEF SendMethod, HasTarget, Deliver, LogMessageData
    <3>2. Stream!Send(msg(t).sink_)
      BY <1>m, <1>o, <2>1, <2>2, <2>3, <3>1 DEF Stream!Send
    <3> QED
      BY <3>1, <3>2 DEF Stream!Next
  <2>5. CASE ~HasTarget(t)
    BY <1>5, <1>o, <2>1, <2>3, <2>5 DEF SendMethod, Stream!vars
  <2> QED
    BY <2>4, <2>5
<1>6. CASE LogToLogfile(t)
  <2> DEFINE k == todo[t] - 1
  <2>1. /\ pc[t] = "log" /\ pc'[t] = "log" /\ todo[t] > 0
        /\ logfile' = [logfile EXCEPT ![k] = Append(@, msg(t).id)]
        /\ UNCHANGED <<log_mutex, received, num_messages_, data, data_>>
    BY <1>6 DEF LogToLogfile, Goto, TypeOK
  <2>2. log_mutex = t /\ Current = msg(t).id
    BY <2>1, CurrentOf DEF Logging
  <2>3. Current' = Current
    BY <1>f, <2>1, CurrentKept DEF msg
  <2>4. /\ todo[t] \in Nat /\ msg(t).severity_ \in Nat /\ msg(t).severity_ <= GLOG_FATAL
        /\ GLOG_FATAL \in Nat
    BY <1>m, StatementsAssumption DEF Severities, GLOG_FATAL, TypeOK
  <2>5. /\ FilesOf(msg(t).id) = todo[t] .. msg(t).severity_
        /\ todo[t] <= msg(t).severity_ + 1
    BY <2>1, <2>4 DEF Stage
  <2>6. k \in Severities /\ k \notin FilesOf(msg(t).id)
    BY <2>1, <2>4, <2>5 DEF Severities
  <2>7. ~Stream!Shows(logfile[k], Current)
    BY <2>2, <2>6 DEF FilesOf, Shows
  <2>8. Stream!Write(k)
    BY <1>m, <1>o, <2>1, <2>2, <2>3, <2>7 DEF Stream!Write
  <2> QED
    BY <2>6, <2>8 DEF Stream!Next
<1>7. CASE LogToSink(t)
  <2>1. /\ pc[t] = "sending" /\ pc'[t] = "sending" /\ todo[t] > 0
        /\ UNCHANGED <<log_mutex, logfile, num_messages_, data, data_>>
    BY <1>7 DEF LogToSink, Goto, TypeOK
  <2>2. log_mutex = t /\ Current = msg(t).id
    BY <2>1, CurrentOf DEF Logging
  <2>3. Current' = Current
    BY <1>f, <2>1, CurrentKept DEF msg
  <2>4. /\ sinks_[todo[t]] \in Sinks
        /\ received' = [received EXCEPT ![sinks_[todo[t]]] = Append(@, Current)]
    BY <1>7, <2>1, <2>2, SinkAt DEF LogToSink, Deliver, Sending
  <2>5. Stream!Send(sinks_[todo[t]])
    BY <1>m, <1>o, <2>1, <2>2, <2>3, <2>4 DEF Stream!Send
  <2> QED
    BY <2>4, <2>5 DEF Stream!Next
<1>8. CASE CountStore(t)
  <2> DEFINE s == msg(t).severity_
  <2>1. /\ pc[t] = "store" /\ pc'[t] = "unlock"
        /\ num_messages_' = [num_messages_ EXCEPT ![s] = loaded[t] + 1]
        /\ UNCHANGED <<log_mutex, logfile, received, data, data_>>
    BY <1>8 DEF CountStore, Goto, TypeOK
  <2>2. log_mutex = t /\ Current = msg(t).id
    BY <2>1, CurrentOf DEF Logging
  <2>3. Current' = 0
    BY <2>1, <2>2 DEF Current
  <2>4. loaded[t] = num_messages_[s]
    BY <2>1 DEF CountInv, Over
  <2>5. num_messages_' = [num_messages_ EXCEPT ![s] = @ + 1]
    BY <2>1, <2>4
  <2>6. {f \in Severities : Stream!Shows(logfile[f], Current)} \in {{}, 0 .. s}
    BY <2>1, <2>2 DEF Stage, FilesOf, Shows
  <2>7. Stream!Count(s)
    BY <1>m, <1>o, <2>1, <2>2, <2>3, <2>5, <2>6 DEF Stream!Count
  <2> QED
    BY <1>m, <2>7 DEF Stream!Next
<1>9. CASE UnlockLogMutex(t)
  <2>1. /\ pc[t] = "unlock" /\ Unlock(t)
        /\ UNCHANGED <<logfile, received, num_messages_>>
    BY <1>9 DEF UnlockLogMutex, Goto
  <2>2. log_mutex = t /\ Current = 0
    BY <2>1, CurrentOf DEF Logging
  <2>3. log_mutex' = NoThread
    BY <2>1, <2>2 DEF Unlock
  <2>4. Current' = 0
    BY <2>3, ThreadsAssumption DEF Current
  <2> QED
    BY <1>o, <2>1, <2>2, <2>4 DEF Stream!vars
<1>10. CASE FatalUnlock(t)
  BY <1>10 DEF FatalUnlock, Over
<1> QED
  BY <1>1, <1>2, <1>3, <1>4, <1>5, <1>6, <1>7, <1>8, <1>9, <1>10 DEF Step, Waiting

LEMMA ConstructStream ==
  ASSUME TypeOK, OwnBuffers, MutexInv, ~Over, NEW t \in Threads, NEW st \in Statement,
         Construct(t, st), ~Over'
  PROVE  UNCHANGED Stream!vars
<1> DEFINE b == BufferFor(t, st)
<1>b. /\ \A c \in Buffers : data'[c].id = IF c = b THEN started + 1 ELSE data[c].id
      /\ \A u \in Threads : data_'[u] = IF u = t THEN b ELSE data_[u]
      /\ b # Shared => \A u \in Threads \ {t} : data_[u] # b
      /\ pc[t] = "idle"
      /\ \A u \in Threads \ {t} : pc'[u] = pc[u]
      /\ b \in Buffers
  BY ConstructBuffers
<1>u. UNCHANGED <<log_mutex, logfile, received, num_messages_>>
  BY DEF Construct
<1> HIDE DEF b
<1>s. b # Shared
  BY <1>b DEF Over, TypeOK
<1>1. log_mutex # t
  BY <1>b DEF MutexInv, LogMutexHeld, Over, Logging
<1>2. \A u \in Threads \ {t} : msg(u)'.id = msg(u).id
  BY <1>b, <1>s DEF msg, TypeOK
<1>3. Current' = Current
  BY <1>b, <1>u, <1>1, <1>2 DEF Current, msg
<1>4. Over' = Over
  BY DEF Over
<1> QED
  BY <1>u, <1>3, <1>4 DEF Stream!vars

-----------------------------------------------------------------------------
LEMMA StreamInvInit == Init => StreamInv /\ Stream!Init
<1> SUFFICES ASSUME Init PROVE StreamInv /\ Stream!Init
  OBVIOUS
<1>1. Shared \in Buffers /\ Shared \notin Threads /\ Exclusive \notin Threads
  BY ThreadsAssumption DEF Buffers
<1>2. \A b \in Buffers : data[b].id = 0
  BY DEF Init, NoData
<1>3. IdsDiffer /\ OwnBuffers /\ SeenStarted
  BY <1>1, <1>2 DEF Init, IdsDiffer, OwnBuffers, SeenStarted
<1>4. \A t \in Threads : Stage(t)
  BY DEF Init, Stage
<1>5. Current = 0
  BY ThreadsAssumption DEF Init, Current
<1>6. Over = FALSE
  BY <1>1, <1>2 DEF Init, Over
<1> QED
  BY <1>3, <1>4, <1>5, <1>6 DEF StreamInv, Init, Stream!Init

LEMMA StreamInvNext ==
  Inv /\ StreamInv /\ [Next]_vars => StreamInv' /\ [Stream!Next]_Stream!vars
<1> SUFFICES ASSUME Inv, StreamInv, [Next]_vars
             PROVE  StreamInv' /\ [Stream!Next]_Stream!vars
  OBVIOUS
<1> USE DEF Inv, StreamInv, locals, buffers, globals, outputs, counts, ghosts
<1>o. Over' => Stream!Next
  BY DEF Stream!Next, Stream!GiveUp
<1>k. Over => Over'
  BY OverStays
<1>1. ASSUME NEW t \in Threads, Step(t)
      PROVE  StreamInv' /\ [Stream!Next]_Stream!vars
  <2>1. IdsDiffer' /\ OwnBuffers' /\ SeenStarted'
    BY <1>1, StepIds, StepSeen
  <2>2. CASE Over'
    BY <1>o, <2>1, <2>2
  <2>3. CASE ~Over'
    <3>1. ~Over
      BY <1>k, <2>3
    <3>2. \A u \in Threads : Stage(u)'
      BY <1>1, <2>3, <3>1, StepOwn, StepOthers
    <3>3. [Stream!Next]_Stream!vars
      BY <1>1, <2>3, <3>1, StepStream
    <3> QED
      BY <2>1, <3>2, <3>3
  <2> QED
    BY <2>2, <2>3
<1>2. ASSUME NEW t \in Threads, NEW st \in Statement, Construct(t, st)
      PROVE  StreamInv' /\ [Stream!Next]_Stream!vars
  <2>1. IdsDiffer' /\ OwnBuffers'
    BY <1>2, ConstructIds
  <2>2. SeenStarted'
    <3>1. UNCHANGED <<logfile, received>> /\ started' = started + 1
      BY <1>2 DEF Construct
    <3>2. \A n \in Nat : n <= started => n <= started + 1
      BY DEF TypeOK
    <3>3. \A s \in Severities : \A i \in 1 .. Len(logfile[s]) : logfile[s][i] <= started + 1
      <4> TAKE s \in Severities
      <4>1. logfile[s] \in Seq(Nat)
        BY DEF TypeOK
      <4> QED
        BY <3>2, <4>1 DEF SeenStarted
    <3>4. \A s \in Sinks : \A i \in 1 .. Len(received[s]) : received[s][i] <= started + 1
      <4> TAKE s \in Sinks
      <4>1. received[s] \in Seq(Nat)
        BY DEF TypeOK
      <4> QED
        BY <3>2, <4>1 DEF SeenStarted
    <3> QED
      BY <3>1, <3>3, <3>4 DEF SeenStarted
  <2>3. CASE Over'
    BY <1>o, <2>1, <2>2, <2>3
  <2>4. CASE ~Over'
    <3>1. ~Over
      BY <1>k, <2>4
    <3>2. \A u \in Threads : Stage(u)'
      BY <1>2, <2>4, <3>1, ConstructStages
    <3>3. UNCHANGED Stream!vars
      BY <1>2, <2>4, <3>1, ConstructStream
    <3> QED
      BY <2>1, <2>2, <3>2, <3>3
  <2> QED
    BY <2>3, <2>4
<1>3. CASE UNCHANGED <<pc, data_, todo, data, has_been_flushed_, log_mutex, fatal_msg_exclusive,
                       started, logfile, received, num_messages_, fatalUnlocked>>
  <2>1. IdsDiffer' /\ OwnBuffers' /\ SeenStarted'
    BY <1>3 DEF IdsDiffer, OwnBuffers, SeenStarted, msg
  <2>2. Over' = Over /\ Current' = Current
    BY <1>3 DEF Over, Current, msg
  <2>3. ~Over' => \A t \in Threads : Stage(t)'
    BY <1>3, <2>2 DEF Stage, FilesOf, Unseen, msg
  <2>4. UNCHANGED Stream!vars
    BY <1>3, <2>2 DEF Stream!vars
  <2> QED
    BY <2>1, <2>3, <2>4
<1> QED
  BY <1>1, <1>2, <1>3, SinksAssumption, StatementsAssumption
  DEF Next, Terminated, LogStatement, HelperRun, AddLogSink, RemoveLogSink,
      SetExitOnDFatal, vars

\* The log files of all severities, the sinks and the counts show the messages of
\* all threads as one stream, whatever the threads, sinks, exceptions and severities.
THEOREM LogIsOneStream == Spec => OutputsAgree
<1>1. Init => Inv /\ StreamInv /\ Stream!Init
  BY InvInit, StreamInvInit
<1>2. (Inv /\ StreamInv) /\ [Next]_vars => (Inv /\ StreamInv)' /\ [Stream!Next]_Stream!vars
  BY InvNext, StreamInvNext
<1> QED
  BY <1>1, <1>2, PTL DEF Spec, OutputsAgree, Stream!Spec

-----------------------------------------------------------------------------
(***************************************************************************)
(* What becomes of one message of LogMessage: it is written to each log    *)
(* file at most once, however often Flush runs on it, and no send() of a   *)
(* sink is left without its WaitTillSent.                                  *)
(***************************************************************************)

(***************************************************************************)
(* Once in each file.                                                      *)
(***************************************************************************)

\* Will Flush write the message of thread t, unless it suppresses it?
Pending(t) ==
  \/ pc[t] \in {"lock", "send"}
  \/ pc[t] \in {"flush", "destroy"} /\ ~has_been_flushed_[data_[t]]

\* A pending message is in no file, one in the loop of LogToAllLogfiles in none of
\* those to come.
Unwritten(t) ==
  /\ Pending(t) => FilesOf(msg(t).id) = {}
  /\ pc[t] = "log" => \A f \in FilesOf(msg(t).id) : f >= todo[t]

Distinct(p) == \A i, j \in 1 .. Len(p) : p[i] = p[j] => i = j

OnceInv ==
  data[Shared].id = 0 =>
    /\ \A t \in Threads : Unwritten(t)
    /\ \A s \in Severities : Distinct(logfile[s])

LEMMA AppendDistinct ==
  ASSUME NEW p \in Seq(Nat), NEW n \in Nat, Distinct(p), ~Shows(p, n)
  PROVE  Distinct(Append(p, n))
<1>1. /\ Len(Append(p, n)) = Len(p) + 1 /\ Append(p, n)[Len(p) + 1] = n
      /\ \A i \in 1 .. Len(p) : Append(p, n)[i] = p[i]
  OBVIOUS
<1>2. \A i \in 1 .. Len(p) : p[i] # n
  BY DEF Shows, Stream!Shows
<1>3. \A i \in 1 .. Len(p) + 1 : i \in 1 .. Len(p) \/ i = Len(p) + 1
  OBVIOUS
<1> QED
  BY <1>1, <1>2, <1>3 DEF Distinct

\* Once the second FATAL message has been constructed, the shared buffer stays in use.
LEMMA SharedStays ==
  ASSUME TypeOK, [Next]_vars, data'[Shared].id = 0
  PROVE  data[Shared].id = 0
<1> USE DEF locals, buffers, globals, outputs, counts, ghosts
<1>s. Shared \in Buffers /\ Shared \notin Threads
  BY ThreadsAssumption DEF Buffers
<1>1. ASSUME NEW t \in Threads, Step(t)
      PROVE  data'[Shared] = data[Shared]
  <2>1. CASE Destroy(t)
    BY <1>s, <2>1 DEF Destroy, TypeOK
  <2>2. CASE ~Destroy(t)
    BY <1>1, <2>2, MsgKept
  <2> QED
    BY <2>1, <2>2
<1>2. ASSUME NEW t \in Threads, NEW st \in Statement, Construct(t, st)
      PROVE  data[Shared].id = 0
  <2> DEFINE b == BufferFor(t, st)
             d == [severity_ |-> st.severity_, send_method_ |-> st.send_method_,
                   sink_ |-> st.sink_, out |-> st.out,
                   first_fatal_ |-> b = Exclusive, id |-> started + 1]
  <2>1. data' = [data EXCEPT ![b] = d] /\ d.id = started + 1
    BY <1>2 DEF Construct
  <2> HIDE DEF b, d
  <2>2. data'[Shared].id \in {data[Shared].id, started + 1}
    BY <1>s, <2>1 DEF TypeOK
  <2>3. started + 1 # 0
    BY DEF TypeOK
  <2> QED
    BY <2>2, <2>3
<1> QED
  BY <1>1, <1>2, SinksAssumption, StatementsAssumption
  DEF Next, Terminated, LogStatement, HelperRun, AddLogSink, RemoveLogSink,
      SetExitOnDFatal, vars

\* The steps of the other threads.
LEMMA OthersUnwritten ==
  ASSUME TypeOK, SinkIndexInBounds, IdsDiffer, OwnBuffers, data[Shared].id = 0,
         NEW t \in Threads, Step(t), NEW u \in Threads \ {t}, Unwritten(u)
  PROVE  Unwritten(u)'
<1>1. /\ pc'[u] = pc[u] /\ todo'[u] = todo[u]
      /\ msg(u)' = msg(u) /\ data_'[u] = data_[u]
  BY StepFrame, MsgKept
<1>2. has_been_flushed_'[data_'[u]] = has_been_flushed_[data_[u]]
  BY <1>1, BuffersApart, FlushedKept DEF TypeOK
<1>3. CASE pc[u] = "idle"
  BY <1>1, <1>3 DEF Unwritten, Pending
<1>4. CASE pc[u] # "idle"
  <2>1. msg(u).id # msg(t).id /\ Appends(t)
    BY <1>4, MessagesDiffer, StepAppends
  <2>2. {f \in Severities : Shows(logfile'[f], msg(u).id)} = FilesOf(msg(u).id)
    BY <2>1, SeenKept
  <2>3. FilesOf(msg(u).id)' = FilesOf(msg(u).id)
    BY <1>1, <2>2 DEF FilesOf
  <2> QED
    BY <1>1, <1>2, <2>3 DEF Unwritten, Pending
<1> QED
  BY <1>3, <1>4

\* A step that writes to no file keeps the set of files.
LEMMA FilesStay ==
  ASSUME NEW t \in Threads, UNCHANGED <<logfile, data, data_>>
  PROVE  FilesOf(msg(t).id)' = FilesOf(msg(t).id) /\ msg(t)' = msg(t)
  BY DEF FilesOf, msg

\* The steps of the message itself.
LEMMA OwnUnwritten ==
  ASSUME TypeOK, SinkIndexInBounds, NEW t \in Threads, Step(t), Unwritten(t)
  PROVE  Unwritten(t)'
<1> USE DEF locals, buffers, outputs
<1>m. msg(t).id \in Nat /\ data_[t] \in Buffers /\ todo[t] \in Nat
  BY MsgType DEF LogMessageData, TypeOK
<1>q. ASSUME UNCHANGED <<logfile, data, data_>>
      PROVE  FilesOf(msg(t).id)' = FilesOf(msg(t).id) /\ msg(t)' = msg(t)
  BY <1>q, FilesStay
<1>1. CASE FlushSkip(t) \/ FailThrow(t)
  BY <1>1, <1>q DEF FlushSkip, FailThrow, Goto, TypeOK, Unwritten, Pending
<1>2. CASE FlushEnter(t)
  BY <1>2, <1>q DEF FlushEnter, Suppressed, Goto, TypeOK, Unwritten, Pending
<1>3. CASE LockLogMutex(t)
  BY <1>3, <1>q DEF LockLogMutex, Goto, TypeOK, Unwritten, Pending
<1>4. CASE SendMethod(t)
  <2>1. UNCHANGED <<logfile, data, data_>> /\ pc[t] = "send" /\ pc'[t] \in {"count", "log"}
    BY <1>4 DEF SendMethod, Goto, TypeOK
  <2>2. FilesOf(msg(t).id)' = {}
    BY <1>q, <2>1 DEF Unwritten, Pending
  <2> QED
    BY <2>1, <2>2 DEF Unwritten
<1>5. CASE LogToLogfile(t)
  <2> DEFINE m == msg(t).id
             k == todo[t] - 1
  <2>1. /\ pc[t] = "log" /\ pc'[t] = "log" /\ todo[t] > 0 /\ todo'[t] = k
        /\ logfile' = [logfile EXCEPT ![k] = Append(@, m)]
        /\ UNCHANGED <<data, data_>>
    BY <1>5 DEF LogToLogfile, Goto, TypeOK
  <2>2. msg(t)' = msg(t)
    BY <2>1 DEF msg
  <2>3. \A f \in Severities \ {k} : logfile'[f] = logfile[f]
    BY <2>1 DEF TypeOK
  <2>4. \A f \in FilesOf(m)' : f \in FilesOf(m) \/ f = k
    BY <2>2, <2>3 DEF FilesOf
  <2>5. \A f \in FilesOf(m)' : f >= k
    BY <1>m, <2>1, <2>4 DEF Unwritten, FilesOf, Severities, GLOG_FATAL
  <2> QED
    BY <2>1, <2>2, <2>5 DEF Unwritten, Pending
<1>6. CASE FlushReturn(t)
  BY <1>6, <1>m DEF FlushReturn, Goto, TypeOK, Unwritten, Pending
<1>7. ASSUME pc'[t] \notin {"lock", "send", "flush", "destroy", "log"}
      PROVE  Unwritten(t)'
  BY <1>7 DEF Unwritten, Pending
<1>8. CASE SendMethodThrows(t) \/ LogToSink(t) \/ LogToSinkThrows(t) \/ FatalUnlock(t)
           \/ CountLoad(t) \/ CountStore(t) \/ UnlockLogMutex(t) \/ Destroy(t) \/ FailExit(t)
  BY <1>7, <1>8 DEF SendMethodThrows, LogToSink, LogToSinkThrows, FatalUnlock, CountLoad,
     CountStore, UnlockLogMutex, Destroy, FailExit, Goto, TypeOK
<1>9. CASE LogToSinksBegin(t) \/ LogToSinksEnd(t)
  BY <1>7, <1>9 DEF LogToSinksBegin, LogToSinksEnd, LockSinks, UnlockSinks, Goto, TypeOK
<1>10. CASE WaitForSinks(t, "fatalwait", "fatalwaiting", "count")
  BY <1>7, <1>10 DEF WaitForSinks, WaitBegin, WaitTillSent, WaitEnd, LockSinks, UnlockSinks,
     Goto, TypeOK
<1>11. CASE WaitForSinks(t, "wait", "waiting", "flushed")
  BY <1>7, <1>11 DEF WaitForSinks, WaitBegin, WaitTillSent, WaitEnd, LockSinks, UnlockSinks,
     Goto, TypeOK
<1> QED
  BY <1>1, <1>2, <1>3, <1>4, <1>5, <1>6, <1>8, <1>9, <1>10, <1>11 DEF Step

\* A file gets a message that it does not have.
LEMMA StepDistinct ==
  ASSUME TypeOK, NEW t \in Threads, Step(t), Unwritten(t),
         \A s \in Severities : Distinct(logfile[s])
  PROVE  \A s \in Severities : Distinct(logfile'[s])
<1> USE DEF outputs
<1>1. CASE LogToLogfile(t)
  <2> DEFINE m == msg(t).id
             k == todo[t] - 1
  <2>1. /\ pc[t] = "log" /\ todo[t] > 0 /\ todo[t] \in Nat /\ m \in Nat
        /\ logfile' = [logfile EXCEPT ![k] = Append(@, m)]
    BY <1>1, MsgType DEF LogToLogfile, Goto, TypeOK, LogMessageData
  <2>2. \A s \in Severities \ {k} : logfile'[s] = logfile[s]
    BY <2>1 DEF TypeOK
  <2>3. ASSUME k \in Severities
        PROVE  Distinct(logfile'[k])
    <3>1. ~Shows(logfile[k], m)
      BY <2>1, <2>3 DEF Unwritten, FilesOf
    <3>2. logfile'[k] = Append(logfile[k], m) /\ logfile[k] \in Seq(Nat)
      BY <2>1, <2>3 DEF TypeOK
    <3> QED
      BY <2>1, <2>3, <3>1, <3>2, AppendDistinct
  <2> QED
    BY <2>2, <2>3
<1>2. CASE ~LogToLogfile(t)
  <2>1. UNCHANGED logfile
    BY <1>2 DEF Step, FlushSkip, FlushEnter, LockLogMutex, SendMethod, SendMethodThrows,
       LogToSinksBegin, LogToSink, LogToSinkThrows, LogToSinksEnd, FatalUnlock,
       WaitForSinks, WaitBegin, WaitTillSent, WaitEnd, CountLoad, CountStore, UnlockLogMutex,
       FlushReturn, Destroy, FailExit, FailThrow, LockSinks, UnlockSinks
  <2> QED
    BY <2>1
<1> QED
  BY <1>1, <1>2

\* A new message is in no file; its buffer is no other message's.
LEMMA ConstructUnwritten ==
  ASSUME TypeOK, IdsDiffer, OwnBuffers, SeenStarted, NEW t \in Threads, NEW st \in Statement,
         Construct(t, st), \A u \in Threads : Unwritten(u), data'[Shared].id = 0
  PROVE  \A u \in Threads : Unwritten(u)'
<1>0. PICK b : b = BufferFor(t, st)
  OBVIOUS
<1>b. /\ b \in Buffers
      /\ \A c \in Buffers : data'[c].id = IF c = b THEN started + 1 ELSE data[c].id
      /\ \A c \in Buffers \ {b} : /\ data'[c] = data[c]
                                  /\ has_been_flushed_'[c] = has_been_flushed_[c]
      /\ \A u \in Threads : data_'[u] = IF u = t THEN b ELSE data_[u]
      /\ b # Shared => \A u \in Threads \ {t} : data_[u] # b
      /\ pc'[t] = "flush"
      /\ \A u \in Threads \ {t} : pc'[u] = pc[u]
  BY <1>0, ConstructBuffers
<1>u. UNCHANGED <<logfile, received, todo>>
  BY DEF Construct
<1>s. b # Shared
  BY <1>b DEF TypeOK
<1>1. Unwritten(t)'
  <2>1. msg(t)'.id = started + 1
    BY <1>b DEF msg
  <2>2. FilesOf(msg(t).id)' = {}
    BY <1>u, <2>1, NewUnseen DEF Unseen, FilesOf
  <2> QED
    BY <1>b, <2>2 DEF Unwritten
<1>2. ASSUME NEW u \in Threads \ {t}
      PROVE  Unwritten(u)'
  <2>1. /\ data_[u] \in Buffers \ {b} /\ data_'[u] = data_[u] /\ pc'[u] = pc[u]
        /\ has_been_flushed_'[data_'[u]] = has_been_flushed_[data_[u]]
        /\ msg(u)' = msg(u)
    BY <1>b, <1>s DEF TypeOK, msg
  <2>2. FilesOf(msg(u).id)' = FilesOf(msg(u).id)
    BY <1>u, <2>1 DEF FilesOf
  <2> QED
    BY <1>u, <2>1, <2>2 DEF Unwritten, Pending
<1> QED
  BY <1>1, <1>2

LEMMA OnceInit == Init => OnceInv
<1> SUFFICES ASSUME Init PROVE OnceInv
  OBVIOUS
<1>1. \A t \in Threads : Unwritten(t)
  BY DEF Init, Unwritten, Pending
<1>2. \A s \in Severities : Distinct(logfile[s])
  BY DEF Init, Distinct
<1> QED
  BY <1>1, <1>2 DEF OnceInv

LEMMA OnceNext == Inv /\ StreamInv /\ OnceInv /\ [Next]_vars => OnceInv'
<1> SUFFICES ASSUME Inv, StreamInv, OnceInv, [Next]_vars, data'[Shared].id = 0
             PROVE  /\ \A t \in Threads : Unwritten(t)'
                    /\ \A s \in Severities : Distinct(logfile'[s])
  BY DEF OnceInv
<1> USE DEF locals, buffers, globals, outputs, counts, ghosts
<1>0. TypeOK /\ SinkIndexInBounds /\ IdsDiffer /\ OwnBuffers /\ SeenStarted
  BY DEF Inv, StreamInv
<1>s. /\ data[Shared].id = 0
      /\ \A t \in Threads : Unwritten(t)
      /\ \A s \in Severities : Distinct(logfile[s])
  BY <1>0, SharedStays DEF OnceInv
<1>1. ASSUME NEW t \in Threads, Step(t)
      PROVE  /\ \A u \in Threads : Unwritten(u)'
             /\ \A s \in Severities : Distinct(logfile'[s])
  <2>1. \A u \in Threads \ {t} : Unwritten(u)'
    BY <1>0, <1>s, <1>1, OthersUnwritten
  <2>2. Unwritten(t)'
    BY <1>0, <1>s, <1>1, OwnUnwritten
  <2>3. \A s \in Severities : Distinct(logfile'[s])
    BY <1>0, <1>s, <1>1, StepDistinct
  <2> QED
    BY <2>1, <2>2, <2>3
<1>2. ASSUME NEW t \in Threads, NEW st \in Statement, Construct(t, st)
      PROVE  /\ \A u \in Threads : Unwritten(u)'
             /\ \A s \in Severities : Distinct(logfile'[s])
  <2>1. \A u \in Threads : Unwritten(u)'
    BY <1>0, <1>s, <1>2, ConstructUnwritten
  <2>2. UNCHANGED logfile
    BY <1>2 DEF Construct
  <2> QED
    BY <1>s, <2>1, <2>2
<1>3. CASE UNCHANGED <<pc, todo, data, data_, has_been_flushed_, logfile>>
  BY <1>s, <1>3 DEF Unwritten, Pending, FilesOf, msg
<1> QED
  BY <1>1, <1>2, <1>3, SinksAssumption, StatementsAssumption
  DEF Next, Terminated, LogStatement, HelperRun, AddLogSink, RemoveLogSink,
      SetExitOnDFatal, vars

-----------------------------------------------------------------------------
(***************************************************************************)
(* WaitTillSent after every send().                                        *)
(***************************************************************************)

\* The sinks the loop of WaitForSinks has before it, when it stands at n.
Listed(n) == {sinks_[i] : i \in 1 .. n}

Target(t) == IF HasTarget(t) THEN {msg(t).sink_} ELSE {}

\* Whom thread t still has to wait for, at each point.
Awaiting(t) ==
  /\ pc[t] = "idle" => exited \/ owed[t] \subseteq dropped[t]
  /\ data_[t] # Shared =>
       /\ pc[t] \in {"flush", "flushed", "destroy"} => owed[t] \subseteq dropped[t]
       /\ pc[t] \in {"lock", "fatalwait", "wait"} \cup Logging =>
            owed[t] \subseteq dropped[t] \cup Target(t) \cup Listed(Len(sinks_))
       /\ pc[t] \in Waiting => owed[t] \subseteq dropped[t] \cup Target(t) \cup Listed(todo[t])

\* An increasing enumeration misses no element: whoever is not removed stays.
LEMMA IncreasingOnto ==
  ASSUME NEW l \in Nat, NEW K \in SUBSET (1 .. l), NEW f \in Increasing(K), NEW i \in K
  PROVE  \E j \in DOMAIN f : f[j] = i
<1> DEFINE n == Cardinality(K)
<1>1. IsFiniteSet(K) /\ n \in Nat
  <2>1. IsFiniteSet(1 .. l)
    BY FS_Interval
  <2>2. IsFiniteSet(K)
    BY <2>1, FS_Subset
  <2> QED
    BY <2>2, FS_CardinalityType
<1>2. f \in [1 .. n -> K] /\ \A j, k \in 1 .. n : j < k => f[j] < f[k]
  BY DEF Increasing
<1>3. K \subseteq Int
  OBVIOUS
<1> HIDE DEF n
<1>4. \A j, k \in 1 .. n : j # k => f[j] # f[k]
  <2>1. SUFFICES ASSUME NEW j \in 1 .. n, NEW k \in 1 .. n, j # k PROVE f[j] # f[k]
    OBVIOUS
  <2>2. f[j] \in Int /\ f[k] \in Int
    BY <1>2, <1>3
  <2>3. j < k \/ k < j
    BY <1>1, <2>1
  <2> QED
    BY <1>2, <2>2, <2>3
<1>5. f \in Injection(1 .. n, K)
  BY <1>2, <1>4 DEF Injection, IsInjective
<1>6. IsFiniteSet(1 .. n) /\ Cardinality(1 .. n) = n
  BY <1>1, FS_Interval
<1>7. f \in Surjection(1 .. n, K)
  BY <1>1, <1>5, <1>6, FS_Injection DEF n
<1>8. \E j \in 1 .. n : f[j] = i
  BY <1>7 DEF Surjection
<1> QED
  BY <1>2, <1>8

\* What a step of a thread does to sinks_, and to what the others owe.
LEMMA StepOwed ==
  ASSUME TypeOK, NEW t \in Threads, Step(t)
  PROVE  /\ UNCHANGED sinks_
         /\ \A u \in Threads \ {t} : owed'[u] = owed[u] /\ dropped'[u] = dropped[u]
         /\ ~Destroy(t) => dropped'[t] = dropped[t]
<1> USE DEF ghosts, TypeOK
<1>1. CASE SendMethod(t) \/ LogToSink(t)
  BY <1>1 DEF SendMethod, LogToSink, Deliver
<1>2. CASE Destroy(t)
  BY <1>2 DEF Destroy
<1>3. CASE \/ FlushSkip(t) \/ FlushEnter(t) \/ LockLogMutex(t) \/ SendMethodThrows(t)
           \/ LogToLogfile(t) \/ LogToSinksBegin(t) \/ LogToSinkThrows(t) \/ LogToSinksEnd(t)
           \/ FatalUnlock(t) \/ CountLoad(t) \/ CountStore(t) \/ UnlockLogMutex(t)
           \/ FlushReturn(t) \/ FailExit(t) \/ FailThrow(t)
  BY <1>3 DEF FlushSkip, FlushEnter, LockLogMutex, SendMethodThrows, LogToLogfile,
     LogToSinksBegin, LogToSinkThrows, LogToSinksEnd, FatalUnlock, CountLoad, CountStore,
     UnlockLogMutex, FlushReturn, FailExit, FailThrow, LockSinks, UnlockSinks
<1>4. ASSUME NEW call, NEW inside, NEW return, WaitForSinks(t, call, inside, return)
      PROVE  /\ UNCHANGED sinks_
             /\ \A u \in Threads \ {t} : owed'[u] = owed[u] /\ dropped'[u] = dropped[u]
             /\ dropped'[t] = dropped[t]
  BY <1>4 DEF WaitForSinks, WaitBegin, WaitTillSent, WaitEnd, LockSinks, UnlockSinks
<1> QED
  BY <1>1, <1>2, <1>3, <1>4 DEF Step

\* The steps of the other threads.
LEMMA OthersAwaiting ==
  ASSUME TypeOK, NEW t \in Threads, Step(t), ~exited, NEW u \in Threads \ {t}, Awaiting(u)
  PROVE  Awaiting(u)'
<1>1. /\ pc'[u] = pc[u] /\ todo'[u] = todo[u]
      /\ msg(u)' = msg(u) /\ data_'[u] = data_[u]
  BY StepFrame, MsgKept
<1>2. UNCHANGED sinks_ /\ owed'[u] = owed[u] /\ dropped'[u] = dropped[u]
  BY StepOwed
<1>3. Target(u)' = Target(u)
  BY <1>1 DEF Target, HasTarget
<1>4. Listed(Len(sinks_))' = Listed(Len(sinks_)) /\ Listed(todo[u])' = Listed(todo[u])
  BY <1>1, <1>2 DEF Listed
<1> QED
  BY <1>1, <1>2, <1>3, <1>4 DEF Awaiting

\* The steps of the thread itself.
LEMMA OwnAwaiting ==
  ASSUME TypeOK, SinkIndexInBounds, NEW t \in Threads, Step(t), ~exited, Awaiting(t)
  PROVE  Awaiting(t)'
<1> USE DEF locals, buffers, outputs, ghosts
<1>i. pc[t] # "idle" /\ UNCHANGED sinks_ /\ todo[t] \in Nat /\ sinks_ \in Seq(Sinks)
  BY StepFrame, StepOwed DEF TypeOK
<1>d. CASE Destroy(t)
  <2>1. pc'[t] = "idle" /\ owed'[t] = {} /\ dropped'[t] = {}
    BY <1>d DEF Destroy, Goto, TypeOK
  <2> QED
    BY <2>1 DEF Awaiting, Waiting, Logging
<1>x. CASE FailExit(t)
  <2>1. pc'[t] = "idle" /\ exited'
    BY <1>x DEF FailExit, Goto, TypeOK
  <2> QED
    BY <2>1 DEF Awaiting, Waiting, Logging
<1>s. CASE data_[t] = Shared /\ ~Destroy(t) /\ ~FailExit(t)
  <2>1. data_'[t] = Shared
    BY <1>s, MsgKept
  <2>2. pc'[t] # "idle"
    BY <1>s DEF Step, FlushSkip, FlushEnter, LockLogMutex, SendMethod, SendMethodThrows,
       LogToLogfile, LogToSinksBegin, LogToSink, LogToSinkThrows, LogToSinksEnd, FatalUnlock,
       WaitForSinks, WaitBegin, WaitTillSent, WaitEnd, CountLoad, CountStore, UnlockLogMutex,
       FlushReturn, FailThrow, LockSinks, UnlockSinks, Goto, TypeOK
  <2> QED
    BY <2>1, <2>2 DEF Awaiting
<1>n. ASSUME data_[t] # Shared, ~Destroy(t), ~FailExit(t)
      PROVE  Awaiting(t)'
  <2>k. data_'[t] # Shared /\ Target(t)' = Target(t) /\ UNCHANGED <<data, data_>>
    BY <1>n, MsgKept DEF Target, HasTarget, msg
  <2>l. Listed(Len(sinks_))' = Listed(Len(sinks_)) /\ Listed(todo[t])' = Listed(todo'[t])
    BY <1>i DEF Listed
  <2>p. dropped'[t] = dropped[t]
    BY <1>n, StepOwed
  \* It owes what it owed, and has not begun to wait.
  <2>q. ASSUME owed'[t] = owed[t],
               \/ /\ pc[t] \in {"flush", "flushed", "destroy"}
                  /\ pc'[t] \in {"flush", "flushed", "destroy", "lock"}
               \/ /\ pc[t] \in {"lock", "fatalwait", "wait"} \cup Logging
                  /\ pc'[t] \in {"fatalwait", "wait"} \cup Logging
        PROVE  Awaiting(t)'
    BY <1>n, <2>k, <2>l, <2>p, <2>q DEF Awaiting, Waiting, Logging
  <2>1. CASE \/ FlushSkip(t) \/ FlushEnter(t) \/ FlushReturn(t) \/ FailThrow(t)
             \/ LockLogMutex(t) \/ SendMethodThrows(t) \/ LogToLogfile(t) \/ LogToSinkThrows(t)
             \/ FatalUnlock(t) \/ CountLoad(t) \/ CountStore(t) \/ UnlockLogMutex(t)
    BY <2>1, <2>q DEF FlushSkip, FlushEnter, FlushReturn, FailThrow, LockLogMutex,
       SendMethodThrows, LogToLogfile, LogToSinkThrows, FatalUnlock, CountLoad, CountStore,
       UnlockLogMutex, Goto, TypeOK, Logging
  <2>2. CASE LogToSinksBegin(t) \/ LogToSinksEnd(t)
    BY <2>2, <2>q DEF LogToSinksBegin, LogToSinksEnd, LockSinks, UnlockSinks, Goto, TypeOK,
       Logging
  <2>3. CASE SendMethod(t)
    <3>1. pc[t] = "send" /\ pc'[t] \in {"count", "log"} /\ owed'[t] \subseteq owed[t] \cup Target(t)
      BY <2>3 DEF SendMethod, Goto, TypeOK, Deliver, Target
    <3> QED
      BY <1>n, <2>k, <2>l, <2>p, <3>1 DEF Awaiting, Waiting, Logging
  <2>4. CASE LogToSink(t)
    <3>1. /\ pc[t] = "sending" /\ pc'[t] = "sending" /\ todo[t] > 0
          /\ owed'[t] = owed[t] \cup {sinks_[todo[t]]}
      BY <2>4 DEF LogToSink, Goto, TypeOK, Deliver
    <3>2. sinks_[todo[t]] \in Listed(Len(sinks_))
      BY <1>i, <3>1 DEF SinkIndexInBounds, Sending, Listed
    <3> QED
      BY <1>n, <2>k, <2>l, <2>p, <3>1, <3>2 DEF Awaiting, Waiting, Logging
  \* WaitForSinks, from either of its two calls.
  <2>w. ASSUME NEW call \in {"fatalwait", "wait"}, NEW inside \in Waiting,
               NEW return \in {"count", "flushed"},
               WaitForSinks(t, call, inside, return)
        PROVE  Awaiting(t)'
    <3>1. CASE WaitBegin(t, call, inside)
      <4>1. /\ pc[t] = call /\ pc'[t] = inside /\ todo'[t] = Len(sinks_)
            /\ owed'[t] = owed[t]
        BY <3>1 DEF WaitBegin, LockSinks, Goto, TypeOK
      <4> QED
        BY <1>n, <2>k, <2>l, <2>p, <2>w, <4>1 DEF Awaiting, Waiting, Logging
    <3>2. CASE WaitTillSent(t, inside)
      <4>1. /\ pc[t] = inside /\ pc'[t] = inside /\ todo[t] > 0 /\ todo'[t] = todo[t] - 1
            /\ owed'[t] = owed[t] \ {sinks_[todo[t]]}
        BY <3>2 DEF WaitTillSent, Goto, TypeOK
      <4>2. Listed(todo[t]) \subseteq Listed(todo'[t]) \cup {sinks_[todo[t]]}
        BY <1>i, <4>1 DEF Listed
      <4> QED
        BY <1>n, <2>k, <2>l, <2>p, <2>w, <4>1, <4>2 DEF Awaiting, Waiting, Logging
    <3>3. CASE WaitEnd(t, inside, return)
      <4>1. /\ pc[t] = inside /\ pc'[t] = return /\ todo[t] = 0
            /\ owed'[t] = owed[t] \ Target(t)
        BY <3>3 DEF WaitEnd, UnlockSinks, Goto, TypeOK, Target
      <4>2. Listed(todo[t]) = {}
        BY <4>1 DEF Listed
      <4>3. owed'[t] \subseteq dropped[t]
        BY <1>n, <4>1, <4>2 DEF Awaiting
      <4> QED
        BY <1>n, <2>k, <2>l, <2>p, <2>w, <4>1, <4>3 DEF Awaiting, Waiting, Logging
    <3> QED
      BY <2>w, <3>1, <3>2, <3>3 DEF WaitForSinks
  <2>5. CASE WaitForSinks(t, "fatalwait", "fatalwaiting", "count")
    BY <2>5, <2>w DEF Waiting
  <2>6. CASE WaitForSinks(t, "wait", "waiting", "flushed")
    BY <2>6, <2>w DEF Waiting
  <2> QED
    BY <1>n, <2>1, <2>2, <2>3, <2>4, <2>5, <2>6 DEF Step
<1> QED
  BY <1>d, <1>x, <1>s, <1>n

LEMMA ConstructAwaiting ==
  ASSUME TypeOK, OwnBuffers, NEW t \in Threads, NEW st \in Statement, Construct(t, st), ~exited,
         \A u \in Threads : Awaiting(u)
  PROVE  \A u \in Threads : Awaiting(u)'
<1>0. PICK b : b = BufferFor(t, st)
  OBVIOUS
<1>b. /\ \A c \in Buffers \ {b} : data'[c] = data[c]
      /\ \A u \in Threads : data_'[u] = IF u = t THEN b ELSE data_[u]
      /\ b # Shared => \A u \in Threads \ {t} : data_[u] # b
      /\ pc[t] = "idle" /\ pc'[t] = "flush"
      /\ \A u \in Threads \ {t} : pc'[u] = pc[u]
  BY <1>0, ConstructBuffers
<1>u. UNCHANGED <<todo, sinks_, owed, dropped, exited>>
  BY DEF Construct, ghosts
<1>1. Awaiting(t)'
  <2>1. owed[t] \subseteq dropped[t]
    BY <1>b DEF Awaiting
  <2> QED
    BY <1>b, <1>u, <2>1 DEF Awaiting, Waiting, Logging
<1>2. ASSUME NEW u \in Threads \ {t}
      PROVE  Awaiting(u)'
  <2>1. pc'[u] = pc[u] /\ data_'[u] = data_[u] /\ Awaiting(u)
    BY <1>b
  <2>2. CASE data_[u] = Shared
    BY <1>u, <2>1, <2>2 DEF Awaiting
  <2>3. CASE data_[u] # Shared
    <3>1. data_[u] \in Buffers \ {b}
      BY <1>b, <2>3 DEF TypeOK
    <3>2. msg(u)' = msg(u)
      BY <1>b, <2>1, <3>1 DEF msg
    <3>3. Target(u)' = Target(u)
      BY <3>2 DEF Target, HasTarget
    <3>4. Listed(Len(sinks_))' = Listed(Len(sinks_)) /\ Listed(todo[u])' = Listed(todo[u])
      BY <1>u DEF Listed
    <3> QED
      BY <1>u, <2>1, <3>3, <3>4 DEF Awaiting
  <2> QED
    BY <2>2, <2>3
<1> QED
  BY <1>1, <1>2

\* AddLogSink and RemoveLogSink wait until no thread is inside the loop.
LEMMA VectorAwaiting ==
  ASSUME TypeOK, SinkIndexInBounds, NEW s \in Sinks, AddLogSink(s) \/ RemoveLogSink(s),
         NEW u \in Threads, Awaiting(u)
  PROVE  Awaiting(u)'
<1> USE DEF locals, buffers, globals, ghosts
<1>1. pc[u] \notin Waiting
  BY DEF SinkIndexInBounds, AddLogSink, RemoveLogSink, CanWrite
<1>2. UNCHANGED <<pc, data, data_, owed, exited>> /\ Target(u)' = Target(u)
  BY DEF AddLogSink, RemoveLogSink, Target, HasTarget, msg
<1>3. sinks_ \in Seq(Sinks) /\ owed[u] \subseteq Sinks
  BY DEF TypeOK
<1>4. /\ dropped[u] \subseteq dropped'[u]
      /\ owed[u] \cap Listed(Len(sinks_)) \subseteq dropped'[u] \cup Listed(Len(sinks_))'
  <2>1. CASE AddLogSink(s)
    <3>1. UNCHANGED dropped /\ sinks_' = Append(sinks_, s)
      BY <2>1 DEF AddLogSink
    <3>2. Len(sinks_') = Len(sinks_) + 1 /\ \A i \in 1 .. Len(sinks_) : sinks_'[i] = sinks_[i]
      BY <1>3, <3>1
    <3>3. Listed(Len(sinks_)) \subseteq Listed(Len(sinks_))'
      BY <1>3, <3>2 DEF Listed
    <3> QED
      BY <3>1, <3>3
  <2>2. CASE RemoveLogSink(s)
    <3>1. dropped'[u] = dropped[u] \cup (owed[u] \cap {s})
      BY <2>2 DEF RemoveLogSink
    <3>2. PICK f \in Increasing({i \in 1 .. Len(sinks_) : sinks_[i] # s}) :
            sinks_' = [i \in DOMAIN f |-> sinks_[f[i]]]
      BY <2>2 DEF RemoveLogSink
    <3>3. sinks_' \in Seq(Sinks)
      BY <1>3, <3>2, RemoveType
    <3>4. DOMAIN sinks_' = DOMAIN f /\ DOMAIN sinks_' = 1 .. Len(sinks_')
      BY <3>2, <3>3
    <3>5. ASSUME NEW i \in 1 .. Len(sinks_), sinks_[i] # s
          PROVE  sinks_[i] \in Listed(Len(sinks_))'
      <4>1. PICK K : K = {k \in 1 .. Len(sinks_) : sinks_[k] # s}
        OBVIOUS
      <4>2. /\ K \in SUBSET (1 .. Len(sinks_)) /\ Len(sinks_) \in Nat
            /\ i \in K /\ f \in Increasing(K)
        BY <1>3, <3>2, <3>5, <4>1
      <4>3. PICK j \in DOMAIN f : f[j] = i
        BY <4>2, IncreasingOnto
      <4>4. sinks_'[j] = sinks_[i] /\ j \in 1 .. Len(sinks_')
        BY <3>2, <3>4, <4>3
      <4> QED
        BY <4>4 DEF Listed
    <3>6. \A x \in Listed(Len(sinks_)) : x = s \/ x \in Listed(Len(sinks_))'
      BY <3>5 DEF Listed
    <3> QED
      BY <3>1, <3>6
  <2> QED
    BY <2>1, <2>2
<1> QED
  BY <1>1, <1>2, <1>4 DEF Awaiting

AwaitInv == \A t \in Threads : Awaiting(t)

LEMMA AwaitInit == Init => AwaitInv
  BY DEF Init, AwaitInv, Awaiting, Waiting, Logging

LEMMA AwaitNext == Inv /\ StreamInv /\ AwaitInv /\ [Next]_vars => AwaitInv'
<1> SUFFICES ASSUME Inv, StreamInv, AwaitInv, [Next]_vars PROVE AwaitInv'
  OBVIOUS
<1> USE DEF locals, buffers, globals, outputs, counts, ghosts
<1>0. TypeOK /\ SinkIndexInBounds /\ OwnBuffers
  BY DEF Inv, StreamInv
<1>1. ASSUME NEW t \in Threads, Step(t), ~exited
      PROVE  AwaitInv'
  <2>1. \A u \in Threads \ {t} : Awaiting(u)'
    BY <1>0, <1>1, OthersAwaiting DEF AwaitInv
  <2>2. Awaiting(t)'
    BY <1>0, <1>1, OwnAwaiting DEF AwaitInv
  <2> QED
    BY <2>1, <2>2 DEF AwaitInv
<1>2. ASSUME NEW t \in Threads, NEW st \in Statement, Construct(t, st), ~exited
      PROVE  AwaitInv'
  BY <1>0, <1>2, ConstructAwaiting DEF AwaitInv
<1>3. ASSUME NEW s \in Sinks, AddLogSink(s) \/ RemoveLogSink(s)
      PROVE  AwaitInv'
  BY <1>0, <1>3, VectorAwaiting DEF AwaitInv
<1>4. CASE UNCHANGED <<pc, todo, data, data_, owed, dropped, sinks_, exited>>
  BY <1>4 DEF AwaitInv, Awaiting, Target, HasTarget, Listed, msg
<1> QED
  BY <1>1, <1>2, <1>3, <1>4, SinksAssumption, StatementsAssumption
  DEF Next, Terminated, LogStatement, HelperRun, SetExitOnDFatal, vars

-----------------------------------------------------------------------------
LEMMA DeliveryInvariance == Spec => [](OnceInv /\ AwaitInv)
<1>1. Init => Inv /\ StreamInv /\ OnceInv /\ AwaitInv
  BY InvInit, StreamInvInit, OnceInit, AwaitInit
<1>2. (Inv /\ StreamInv /\ OnceInv /\ AwaitInv) /\ [Next]_vars
      => (Inv /\ StreamInv /\ OnceInv /\ AwaitInv)'
  BY InvNext, StreamInvNext, OnceNext, AwaitNext
<1> QED
  BY <1>1, <1>2, PTL DEF Spec

\* No log file shows a message twice, although Flush may run on it several times, by
\* explicit calls, the destructors and the unwinding after Fail, for any threads,
\* sinks and statements, until the buffer that FATAL messages share is in use.
THEOREM FilesShowOnce == Spec => []LoggedOnce
<1>1. OnceInv => LoggedOnce
  BY DEF OnceInv, LoggedOnce, Distinct
<1> QED
  BY <1>1, DeliveryInvariance, PTL

\* A message is destroyed only after WaitTillSent has returned for each sink it was
\* sent to, whatever other threads add to and remove from sinks_ meanwhile; only
\* sinks that have been removed in between are left out.
THEOREM EverySendAwaited == Spec => []SendsAwaited
<1>1. AwaitInv => SendsAwaited
  BY DEF AwaitInv, Awaiting, SendsAwaited
<1> QED
  BY <1>1, DeliveryInvariance, PTL
=============================================================================
