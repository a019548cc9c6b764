----------------------------- MODULE LogMessage -----------------------------
(***************************************************************************)
(* The life of a log statement in a multi-threaded program: LogMessage     *)
(* (Init, Flush, the send methods, the destructors), the two mutexes it    *)
(* takes (log_mutex and LogDestination::sink_mutex_), the log sinks and    *)
(* their helper threads, and the FATAL path (src/logging.cc).              *)
(*                                                                         *)
(* A thread runs one log statement at a time; pc[t] is the point it has    *)
(* reached.  A step ends where another thread may interfere: at a lock, at *)
(* an unlock, at a call of user code (a sink), between two log files, and  *)
(* between the load and the store of ++num_messages_.                      *)
(***************************************************************************)
EXTENDS Integers, Sequences, FiniteSets

CONSTANTS
  Threads,          \* the threads of the program, sink helpers included
  NoThread,         \* "nobody holds the mutex"
  Wedged,           \* a mutex an extra unlock has made unusable
  Exclusive,        \* the buffer fatal_msg_data_exclusive
  Shared,           \* the buffer fatal_msg_data_shared
  Sinks,            \* LogSink objects
  NoSink,           \* nullptr
  NUM_SEVERITIES,   \* severities are 0 .. NUM_SEVERITIES - 1, the last is FATAL
  Statements,       \* the log statements the program contains
  HelperStatement,  \* the LOG() a sink's helper thread executes
  Clients,          \* Clients[s]: the threads whose messages sink s hands over
  Helper,           \* Helper[s]: the thread that empties the queue of sink s
  RWLock,           \* does the build have reader-writer locks (base/mutex.h)?
  DoubleUnlock,     \* what unlocking a mutex one does not hold may do
  SinksThrow,       \* may LogSink::send throw?
  FailureThrows,    \* may the installed failure function throw or return?
  ExitValues,       \* arguments of SetExitOnDFatal
  minloglevel,      \* FLAGS_minloglevel
  logtostderr,      \* FLAGS_logtostderr (or logtostdout, or not initialized)
  MaxMessages,      \* bound: log statements started by the program itself
  Registered,       \* sinks_ when the threads start
  DynamicSinks,     \* the sinks the program adds and removes
  MaxSinks          \* bound: length of LogDestination::sinks_

GLOG_FATAL == NUM_SEVERITIES - 1

Severities == 0 .. GLOG_FATAL

Buffers == Threads \cup {Exclusive, Shared}

Methods == {"SendToLog", "SendToSink", "SendToSinkAndLog", "SaveOrSendToLog",
            "WriteToStringAndLog", "SendToSyslogAndLog"}

\* A log statement: the class its macro instantiates, and what the constructor
\* is given.  out says that outvec (SaveOrSendToLog) is not null.
Statement == [cls : {"LogMessage", "LogMessageFatal"}, severity_ : Severities,
              send_method_ : Methods, sink_ : Sinks \cup {NoSink}, out : BOOLEAN]

\* LogMessageData: the fields Init and the constructor fill in.  id identifies
\* the message text and exists only in the model.
LogMessageData == [severity_ : Severities, send_method_ : Methods,
                   sink_ : Sinks \cup {NoSink}, out : BOOLEAN,
                   first_fatal_ : BOOLEAN, id : Nat]

\* A buffer no message has been constructed in.
NoData == [severity_ |-> 0, send_method_ |-> "SendToLog", sink_ |-> NoSink,
           out |-> FALSE, first_fatal_ |-> FALSE, id |-> 0]

ASSUME ThreadsAssumption ==
  /\ NoThread \notin Threads
  /\ Wedged \notin Threads \cup {NoThread}
  /\ Exclusive \notin Threads
  /\ Shared \notin Threads \cup {Exclusive}

ASSUME StatementsAssumption ==
  /\ NUM_SEVERITIES \in Nat \ {0}
  /\ NoSink \notin Sinks
  /\ Statements \subseteq Statement
  /\ HelperStatement \in Statement

ASSUME SinksAssumption ==
  /\ Clients \in [Sinks -> SUBSET Threads]
  /\ Helper \in [Sinks -> Threads \cup {NoThread}]
  /\ Registered \in Seq(Sinks)
  /\ DynamicSinks \subseteq Sinks

ASSUME OutcomesAssumption ==
  /\ DoubleUnlock \subseteq {"ignored", "released", "wedged", "fails"}
  /\ {RWLock, SinksThrow, FailureThrows, logtostderr} \subseteq BOOLEAN
  /\ ExitValues \subseteq BOOLEAN
  /\ {minloglevel, MaxMessages, MaxSinks} \subseteq Nat

VARIABLES
  pc,                  \* where each thread is
  cls,                 \* the dynamic class of its LogMessage object
  data_,               \* the buffer its LogMessage object points to
  todo,                \* the index of the loop it is in, counting down
  loaded,              \* the value of num_messages_ it has loaded
  data,                \* the contents of the buffers
  has_been_flushed_,   \* ... and their has_been_flushed_ field
  log_mutex,           \* the owner of log_mutex
  readers,             \* the threads inside a ReaderMutexLock of sink_mutex_
  sinks_,              \* LogDestination::sinks_
  exit_on_dfatal,
  fatal_msg_exclusive, \* is fatal_msg_data_exclusive still unused?
  num_messages_,
  crash_reason,        \* the message in the global crash_reason, 0 if none
  exited,              \* has the failure function ended the process?
  logfile,             \* per severity, the messages written to its log file
  received,            \* per sink, the messages send() was given
  queue,               \* per sink, the messages its helper has not taken yet
  started,             \* the number of messages constructed
  own,                 \* ... of these, by the program rather than by a helper
  \* What the properties remember of the past:
  counted,             \* per severity, how often ++num_messages_ has run
  owed,                \* per thread, sinks sent to and not waited for since
  dropped,             \* ... and those of them removed from sinks_ meanwhile
  fatalUnlocked        \* has SendToLog ever released log_mutex itself?

locals  == <<cls, data_, todo, loaded>>
buffers == <<data, has_been_flushed_>>
globals == <<exit_on_dfatal, fatal_msg_exclusive, crash_reason, exited>>
outputs == <<logfile, received, queue>>
counts  == <<started, own>>
ghosts  == <<counted, owed, dropped, fatalUnlocked>>

vars == <<pc, locals, buffers, log_mutex, readers, sinks_, globals,
          num_messages_, outputs, counts, ghosts>>

\* The code between MutexLock l(&log_mutex) in Flush and the unlock, early or not.
Logging == {"send", "log", "sending", "fatal", "count", "store", "unlock"}

\* Inside a ReaderMutexLock of sink_mutex_.
Sending == {"sending"}
Waiting == {"fatalwaiting", "waiting"}

Labels == Logging \cup Sending \cup Waiting
          \cup {"idle", "flush", "lock", "fatalwait", "wait", "flushed", "destroy"}

Init ==
  /\ pc = [t \in Threads |-> "idle"]
  /\ cls = [t \in Threads |-> "LogMessage"]
  /\ data_ = [t \in Threads |-> t]
  /\ todo = [t \in Threads |-> 0]
  /\ loaded = [t \in Threads |-> 0]
  /\ data = [b \in Buffers |-> NoData]
  /\ has_been_flushed_ = [b \in Buffers |-> FALSE]
  /\ log_mutex = NoThread
  /\ readers = {}
  /\ sinks_ = Registered
  /\ exit_on_dfatal = TRUE
  /\ fatal_msg_exclusive = TRUE
  /\ num_messages_ = [s \in Severities |-> 0]
  /\ crash_reason = 0
  /\ exited = FALSE
  /\ logfile = [s \in Severities |-> << >>]
  /\ received = [s \in Sinks |-> << >>]
  /\ queue = [s \in Sinks |-> 0]
  /\ started = 0
  /\ own = 0
  /\ counted = [s \in Severities |-> 0]
  /\ owed = [t \in Threads |-> {}]
  /\ dropped = [t \in Threads |-> {}]
  /\ fatalUnlocked = FALSE

-----------------------------------------------------------------------------
msg(t) == data[data_[t]]

Goto(t, from, to) == pc[t] = from /\ pc' = [pc EXCEPT ![t] = to]

\* LogMessage::Init and the constructors: choose the buffer and fill it in.
UsesFatalBuffer(st) == st.severity_ = GLOG_FATAL /\ exit_on_dfatal

BufferFor_NoHandover(t, st) == IF ~UsesFatalBuffer(st) THEN t ELSE Exclusive

BufferFor(t, st) ==
  IF ~UsesFatalBuffer(st) THEN t
  ELSE IF fatal_msg_exclusive THEN Exclusive ELSE Shared

Construct(t, st) ==
  LET b == BufferFor(t, st) IN
  /\ Goto(t, "idle", "flush")
  /\ cls' = [cls EXCEPT ![t] = st.cls]
  /\ data_' = [data_ EXCEPT ![t] = b]
  /\ data' = [data EXCEPT ![b] =
       [severity_ |-> st.severity_, send_method_ |-> st.send_method_,
        sink_ |-> st.sink_, out |-> st.out,
        first_fatal_ |-> b = Exclusive, id |-> started + 1]]
  /\ has_been_flushed_' = [has_been_flushed_ EXCEPT ![b] = FALSE]
  /\ fatal_msg_exclusive' = (fatal_msg_exclusive /\ ~UsesFatalBuffer(st))
  /\ started' = started + 1
  /\ UNCHANGED <<todo, loaded, log_mutex, readers, sinks_, exit_on_dfatal,
                 crash_reason, exited, num_messages_, logfile, received, ghosts>>

\* A thread of the program executes a log statement.
LogStatement(t, st) ==
  /\ t \notin {Helper[s] : s \in Sinks}
  /\ own < MaxMessages
  /\ own' = own + 1
  /\ Construct(t, st)
  /\ UNCHANGED queue

\* A sink's helper thread takes a message off the queue and logs about it.
HelperRun(s) ==
  /\ Helper[s] \in Threads
  /\ queue[s] > 0
  /\ queue' = [queue EXCEPT ![s] = @ - 1]
  /\ Construct(Helper[s], HelperStatement)
  /\ UNCHANGED own

-----------------------------------------------------------------------------
\* LogMessage::Flush.

Suppressed_AlwaysFlush(t) == msg(t).severity_ < minloglevel

Suppressed(t) == has_been_flushed_[data_[t]] \/ msg(t).severity_ < minloglevel

FlushSkip(t) ==
  /\ Suppressed(t)
  /\ Goto(t, "flush", "destroy")
  /\ UNCHANGED <<locals, buffers, log_mutex, readers, sinks_, globals,
                 num_messages_, outputs, counts, ghosts>>

FlushEnter(t) ==
  /\ ~Suppressed(t)
  /\ Goto(t, "flush", "lock")
  /\ UNCHANGED <<locals, buffers, log_mutex, readers, sinks_, globals,
                 num_messages_, outputs, counts, ghosts>>

LockLogMutex(t) ==
  /\ log_mutex = NoThread
  /\ log_mutex' = t
  /\ Goto(t, "lock", "send")
  /\ UNCHANGED <<locals, buffers, readers, sinks_, globals,
                 num_messages_, outputs, counts, ghosts>>

\* What a sink does with a message: keep it, and hand it to its helper thread
\* if the sink has one and serves this thread.
Deliver(t, s) ==
  /\ received' = [received EXCEPT ![s] = Append(@, msg(t).id)]
  /\ queue' = [queue EXCEPT ![s] =
       IF Helper[s] \in Threads /\ t \in Clients[s] THEN @ + 1 ELSE @]
  /\ owed' = [owed EXCEPT ![t] = @ \cup {s}]

HasTarget(t) == msg(t).send_method_ \in {"SendToSink", "SendToSinkAndLog"}
                /\ msg(t).sink_ # NoSink

\* SaveOrSendToLog with a vector, and SendToSink, do not go on to SendToLog.
SkipsLog(t) == \/ msg(t).send_method_ = "SendToSink"
               \/ msg(t).send_method_ = "SaveOrSendToLog" /\ msg(t).out

\* The part of the send method before SendToLog.
SendMethod(t) ==
  /\ Goto(t, "send", IF SkipsLog(t) THEN "count" ELSE "log")
  /\ todo' = [todo EXCEPT ![t] =
       IF logtostderr \/ SkipsLog(t) THEN 0 ELSE msg(t).severity_ + 1]
  /\ IF HasTarget(t) THEN Deliver(t, msg(t).sink_)
                     ELSE UNCHANGED <<received, queue, owed>>
  /\ UNCHANGED <<cls, data_, loaded, buffers, log_mutex, readers, sinks_, globals,
                 num_messages_, logfile, counts, counted, dropped, fatalUnlocked>>

\* The sink a message names throws out of send(): Flush catches.
SendMethodThrows(t) ==
  /\ SinksThrow
  /\ HasTarget(t)
  /\ Goto(t, "send", "count")
  /\ UNCHANGED <<locals, buffers, log_mutex, readers, sinks_, globals,
                 num_messages_, outputs, counts, ghosts>>

\* SendToLog: LogToAllLogfiles writes to the file of the message's severity,
\* then to each lower one.
LogToLogfile(t) ==
  /\ Goto(t, "log", "log")
  /\ todo[t] > 0
  /\ logfile' = [logfile EXCEPT ![todo[t] - 1] = Append(@, msg(t).id)]
  /\ todo' = [todo EXCEPT ![t] = @ - 1]
  /\ UNCHANGED <<cls, data_, loaded, buffers, log_mutex, readers, sinks_, globals,
                 num_messages_, received, queue, counts, ghosts>>

\* ReaderMutexLock l(&sink_mutex_): shared only where the build has rwlocks.
CanRead_Exclusive(t) == readers = {}

CanRead(t) == RWLock \/ readers = {}

LockSinks(t, from, to) ==
  /\ CanRead(t)
  /\ readers' = readers \cup {t}
  /\ Goto(t, from, to)
  /\ todo' = [todo EXCEPT ![t] = Len(sinks_)]
  /\ UNCHANGED <<cls, data_, loaded, buffers, log_mutex, sinks_, globals,
                 num_messages_, outputs, counts, ghosts>>

UnlockSinks(t, from, to) ==
  /\ todo[t] = 0
  /\ readers' = readers \ {t}
  /\ Goto(t, from, to)
  /\ UNCHANGED <<locals, buffers, log_mutex, sinks_, globals,
                 num_messages_, outputs, counts>>

\* LogDestination::LogToSinks.
LogToSinksBegin(t) == todo[t] = 0 /\ LockSinks(t, "log", "sending")

LogToSink(t) ==
  /\ Goto(t, "sending", "sending")
  /\ todo[t] > 0
  /\ Deliver(t, sinks_[todo[t]])
  /\ todo' = [todo EXCEPT ![t] = @ - 1]
  /\ UNCHANGED <<cls, data_, loaded, buffers, log_mutex, readers, sinks_, globals,
                 num_messages_, logfile, counts, counted, dropped, fatalUnlocked>>

\* send() throws: the reader lock is released on the way to Flush's catch.
LogToSinkThrows(t) ==
  /\ SinksThrow
  /\ todo[t] > 0
  /\ Goto(t, "sending", "count")
  /\ readers' = readers \ {t}
  /\ todo' = [todo EXCEPT ![t] = 0]
  /\ UNCHANGED <<cls, data_, loaded, buffers, log_mutex, sinks_, globals,
                 num_messages_, outputs, counts, ghosts>>

\* SendToLog after LogToSinks: is this a FATAL message that ends the program?
IsFatal(t) == msg(t).severity_ = GLOG_FATAL /\ exit_on_dfatal

LogToSinksEnd(t) ==
  /\ UnlockSinks(t, "sending", IF IsFatal(t) THEN "fatal" ELSE "count")
  /\ UNCHANGED ghosts

\* Mutex::Unlock.  Unlocking a mutex the caller does not hold is undefined: it
\* may have no effect, release the mutex under its owner, wedge it, or report
\* an error, at which base/mutex.h calls logging_fail.
Unlock(t) ==
  IF log_mutex = t THEN log_mutex' = NoThread /\ exited' = exited
  ELSE \E o \in DoubleUnlock :
         /\ log_mutex' = CASE o = "ignored"  -> log_mutex
                           [] o = "released" -> NoThread
                           [] o = "wedged"   -> Wedged
                           [] o = "fails"    -> log_mutex
         /\ exited' = (exited \/ o = "fails")

\* The end of SendToLog for a FATAL message: record the crash, flush the files
\* and release log_mutex although the caller's MutexLock will release it again.
FatalUnlock_NoUnlock(t) ==
  /\ Goto(t, "fatal", "fatalwait")
  /\ UNCHANGED <<locals, buffers, log_mutex, readers, sinks_, globals,
                 num_messages_, outputs, counts, ghosts>>

FatalUnlock(t) ==
  /\ Goto(t, "fatal", "fatalwait")
  /\ crash_reason' = IF msg(t).first_fatal_ THEN data[Exclusive].id ELSE crash_reason
  /\ Unlock(t)
  /\ fatalUnlocked' = TRUE
  /\ UNCHANGED <<locals, buffers, readers, sinks_, exit_on_dfatal,
                 fatal_msg_exclusive, num_messages_, outputs, counts,
                 counted, owed, dropped>>

\* ++num_messages_[severity], a load and a store.
CountLoad_AfterUnlock(t) ==
  /\ Goto(t, "count", "store")
  /\ Unlock(t)
  /\ loaded' = [loaded EXCEPT ![t] = num_messages_[msg(t).severity_]]
  /\ UNCHANGED <<cls, data_, todo, buffers, readers, sinks_, exit_on_dfatal,
                 fatal_msg_exclusive, crash_reason, num_messages_, outputs,
                 counts, ghosts>>

CountLoad(t) ==
  /\ Goto(t, "count", "store")
  /\ loaded' = [loaded EXCEPT ![t] = num_messages_[msg(t).severity_]]
  /\ UNCHANGED <<cls, data_, todo, buffers, log_mutex, readers, sinks_, globals,
                 num_messages_, outputs, counts, ghosts>>

CountStore(t) ==
  /\ Goto(t, "store", "unlock")
  /\ num_messages_' = [num_messages_ EXCEPT ![msg(t).severity_] = loaded[t] + 1]
  /\ counted' = [counted EXCEPT ![msg(t).severity_] = @ + 1]
  /\ loaded' = [loaded EXCEPT ![t] = 0]
  /\ UNCHANGED <<cls, data_, todo, buffers, log_mutex, readers, sinks_, globals,
                 outputs, counts, owed, dropped, fatalUnlocked>>

\* ~MutexLock at the end of the block in Flush.
UnlockLogMutex(t) ==
  /\ Goto(t, "unlock", "wait")
  /\ Unlock(t)
  /\ UNCHANGED <<locals, buffers, readers, sinks_, exit_on_dfatal,
                 fatal_msg_exclusive, crash_reason, num_messages_, outputs,
                 counts, ghosts>>

-----------------------------------------------------------------------------
\* LogDestination::WaitForSinks, called by SendToLog for a FATAL message and
\* by Flush for every message.

\* WaitTillSent of sink s returns to thread t.
Sent(t, s) == Helper[s] \in Threads /\ t \in Clients[s] => queue[s] = 0

WaitBegin(t, from, to) == LockSinks(t, from, to)

WaitTillSent(t, at) ==
  /\ Goto(t, at, at)
  /\ todo[t] > 0
  /\ Sent(t, sinks_[todo[t]])
  /\ owed' = [owed EXCEPT ![t] = @ \ {sinks_[todo[t]]}]
  /\ todo' = [todo EXCEPT ![t] = @ - 1]
  /\ UNCHANGED <<cls, data_, loaded, buffers, log_mutex, readers, sinks_, globals,
                 num_messages_, outputs, counts, counted, dropped, fatalUnlocked>>

WaitEnd_NoTarget(t, from, to) == UnlockSinks(t, from, to) /\ UNCHANGED ghosts

\* Last, the sink the message itself names.
WaitEnd(t, from, to) ==
  /\ UnlockSinks(t, from, to)
  /\ HasTarget(t) => Sent(t, msg(t).sink_)
  /\ owed' = [owed EXCEPT ![t] = IF HasTarget(t) THEN @ \ {msg(t).sink_} ELSE @]
  /\ UNCHANGED <<counted, dropped, fatalUnlocked>>

WaitForSinks(t, call, inside, return) ==
  \/ WaitBegin(t, call, inside)
  \/ WaitTillSent(t, inside)
  \/ WaitEnd(t, inside, return)

\* The end of Flush; a Flush the program called itself is followed by the
\* destructor's.
FlushReturn(t) ==
  /\ \E next \in {"destroy", "flush"} : Goto(t, "flushed", next)
  /\ has_been_flushed_' = [has_been_flushed_ EXCEPT ![data_[t]] = TRUE]
  /\ UNCHANGED <<locals, data, log_mutex, readers, sinks_, globals,
                 num_messages_, outputs, counts, ghosts>>

\* ~LogMessage returns; a buffer of the thread's own is destroyed.
Destroy(t) ==
  /\ cls[t] = "LogMessage"
  /\ Goto(t, "destroy", "idle")
  /\ data' = [data EXCEPT ![t] = NoData]
  /\ data_' = [data_ EXCEPT ![t] = t]
  /\ has_been_flushed_' = [has_been_flushed_ EXCEPT ![t] = FALSE]
  /\ owed' = [owed EXCEPT ![t] = {}]
  /\ dropped' = [dropped EXCEPT ![t] = {}]
  /\ UNCHANGED <<cls, todo, loaded, log_mutex, readers, sinks_, globals,
                 num_messages_, outputs, counts, counted, fatalUnlocked>>

\* ~LogMessageFatal calls Fail: the failure function ends the process ...
FailExit(t) ==
  /\ cls[t] = "LogMessageFatal"
  /\ Goto(t, "destroy", "idle")
  /\ exited' = TRUE
  /\ UNCHANGED <<locals, buffers, log_mutex, readers, sinks_, exit_on_dfatal,
                 fatal_msg_exclusive, crash_reason, num_messages_, outputs,
                 counts, ghosts>>

\* ... or Fail throws, and the base class destructor flushes once more.
FailThrow(t) ==
  /\ FailureThrows
  /\ cls[t] = "LogMessageFatal"
  /\ cls' = [cls EXCEPT ![t] = "LogMessage"]
  /\ Goto(t, "destroy", "flush")
  /\ UNCHANGED <<data_, todo, loaded, buffers, log_mutex, readers, sinks_, globals,
                 num_messages_, outputs, counts, ghosts>>

-----------------------------------------------------------------------------
\* The calls of the public interface that use the same state.  Each holds its
\* mutex from its first to its last access, so it is one step.

\* MutexLock l(&sink_mutex_): excludes readers in every build.
CanWrite_NoLock == TRUE

CanWrite == readers = {}

AddLogSink(s) ==
  /\ CanWrite
  /\ Len(sinks_) < MaxSinks
  /\ sinks_' = Append(sinks_, s)
  /\ UNCHANGED <<pc, locals, buffers, log_mutex, readers, globals,
                 num_messages_, outputs, counts, ghosts>>

\* erase(std::remove(...)): the other elements of sinks_, in their order.
Increasing(K) == {f \in [1 .. Cardinality(K) -> K] :
                    \A i, j \in 1 .. Cardinality(K) : i < j => f[i] < f[j]}

RemoveLogSink(s) ==
  /\ CanWrite
  /\ \E f \in Increasing({i \in 1 .. Len(sinks_) : sinks_[i] # s}) :
       sinks_' = [i \in DOMAIN f |-> sinks_[f[i]]]
  /\ dropped' = [t \in Threads |-> dropped[t] \cup (owed[t] \cap {s})]
  /\ UNCHANGED <<pc, locals, buffers, log_mutex, readers, globals,
                 num_messages_, outputs, counts, counted, owed, fatalUnlocked>>

SetExitOnDFatal(v) ==
  /\ log_mutex = NoThread
  /\ exit_on_dfatal' = v
  /\ UNCHANGED <<pc, locals, buffers, log_mutex, readers, sinks_,
                 fatal_msg_exclusive, crash_reason, exited, num_messages_,
                 outputs, counts, ghosts>>

-----------------------------------------------------------------------------
\* What a thread does once its log statement has begun.
Step(t) ==
  \/ FlushSkip(t) \/ FlushEnter(t) \/ LockLogMutex(t)
  \/ SendMethod(t) \/ SendMethodThrows(t)
  \/ LogToLogfile(t)
  \/ LogToSinksBegin(t) \/ LogToSink(t) \/ LogToSinkThrows(t) \/ LogToSinksEnd(t)
  \/ FatalUnlock(t) \/ WaitForSinks(t, "fatalwait", "fatalwaiting", "count")
  \/ CountLoad(t) \/ CountStore(t) \/ UnlockLogMutex(t)
  \/ WaitForSinks(t, "wait", "waiting", "flushed")
  \/ FlushReturn(t) \/ Destroy(t) \/ FailExit(t) \/ FailThrow(t)

\* The program has nothing left to do, or is gone.
Terminated ==
  /\ exited \/ (own = MaxMessages /\ \A t \in Threads : pc[t] = "idle")
  /\ UNCHANGED vars

Next ==
  \/ /\ ~exited
     /\ \/ \E t \in Threads : Step(t)
        \/ \E t \in Threads, st \in Statements : LogStatement(t, st)
        \/ \E s \in Sinks : HelperRun(s)
        \/ \E s \in DynamicSinks : AddLogSink(s) \/ RemoveLogSink(s)
        \/ \E v \in ExitValues : SetExitOnDFatal(v)
  \/ Terminated

Spec == Init /\ [][Next]_vars

\* Every thread that can take a step of its log statement eventually does, and
\* a helper with work eventually takes it: the scheduler runs every thread and
\* the bounded number of messages leaves no lock contended for ever.
Fairness ==
  /\ \A t \in Threads : WF_vars(~exited /\ Step(t))
  /\ \A s \in Sinks : WF_vars(~exited /\ HelperRun(s))

FairSpec == Spec /\ Fairness

-----------------------------------------------------------------------------
TypeOK ==
  /\ pc \in [Threads -> Labels]
  /\ cls \in [Threads -> {"LogMessage", "LogMessageFatal"}]
  /\ data_ \in [Threads -> Buffers]
  /\ \A t \in Threads : data_[t] \in {t, Exclusive, Shared}
  /\ todo \in [Threads -> Nat]
  /\ loaded \in [Threads -> Nat]
  /\ data \in [Buffers -> LogMessageData]
  /\ has_been_flushed_ \in [Buffers -> BOOLEAN]
  /\ log_mutex \in Threads \cup {NoThread, Wedged}
  /\ readers \subseteq Threads
  /\ sinks_ \in Seq(Sinks)
  /\ exit_on_dfatal \in BOOLEAN /\ fatal_msg_exclusive \in BOOLEAN
  /\ exited \in BOOLEAN /\ fatalUnlocked \in BOOLEAN
  /\ num_messages_ \in [Severities -> Nat]
  /\ crash_reason \in Nat
  /\ logfile \in [Severities -> Seq(Nat)]
  /\ received \in [Sinks -> Seq(Nat)]
  /\ queue \in [Sinks -> Nat]
  /\ started \in Nat
  /\ own \in Nat
  /\ counted \in [Severities -> Nat]
  /\ owed \in [Threads -> SUBSET Sinks]
  /\ dropped \in [Threads -> SUBSET Sinks]

\* log_mutex "allows only one thread to log at a time": until a FATAL message
\* has made SendToLog release it, the threads between Flush's lock and its
\* unlock, over all callbacks and exceptions, are exactly its owner.
LogMutexHeld ==
  ~fatalUnlocked => \A t \in Threads : pc[t] \in Logging <=> log_mutex = t

\* ... so no increment of num_messages_ is lost before the first FATAL message.
NumMessagesExact == ~fatalUnlocked => num_messages_ = counted

\* The message the owner of log_mutex is logging, until it is counted.
Current ==
  IF log_mutex \in Threads /\ pc[log_mutex] # "unlock" THEN msg(log_mutex).id ELSE 0

\* The promise ends with the first FATAL message whose logging is complete, and
\* with the second one, which shares its buffer with all that follow.
Over == fatalUnlocked \/ data[Shared].id # 0

Stream == INSTANCE LogStream WITH current <- Current, over <- Over

\* ... and the outputs show the messages of all threads one after the other, in
\* one order, each counted once, in all log files it belongs to or in none.
OutputsAgree == Stream!Spec

\* A message is written at most once to a log file, however often Flush runs
\* on it (explicit calls, the destructors, the unwinding after Fail), as long
\* as the buffer all FATAL messages but the first share is not in use.
LoggedOnce ==
  data[Shared].id = 0 =>
    \A s \in Severities : \A i, j \in 1 .. Len(logfile[s]) :
      logfile[s][i] = logfile[s][j] => i = j

\* The loops of LogToSinks and WaitForSinks, which index sinks_ from its end,
\* stay inside the vector although other threads add and remove sinks.
SinkIndexInBounds ==
  \A t \in Threads : pc[t] \in Sending \cup Waiting =>
    t \in readers /\ todo[t] <= Len(sinks_)

\* A thread that waits for a sink does not hold log_mutex, which the sink's
\* helper may need for its own LOG(): neither after Flush's block nor on the
\* FATAL path, whatever an unlock too many did to the mutex.
WaitersHoldNoLogMutex ==
  \A t \in Threads : pc[t] \in Waiting \cup {"fatalwait", "wait"} => log_mutex # t

\* When Flush is done, WaitTillSent has been called after every send() of the
\* message, for sinks not removed in the meantime.  (The shared FATAL buffer
\* is excluded: another message may have replaced the name of the sink.)
SendsAwaited ==
  \A t \in Threads :
    pc[t] \in {"flushed", "destroy"} /\ data_[t] # Shared => owed[t] \subseteq dropped[t]

\* "We want to preserve the data from the first call": the crash reason, once
\* recorded, never changes.
CrashReasonKept == [][crash_reason # 0 => crash_reason' = crash_reason]_vars

\* Every log statement comes to its end, unless the process ends first or the
\* second unlock of a FATAL message has made log_mutex unusable.  (Statements are
\* bounded in number: if each ends there is a moment when none is under way, and
\* at such a moment each has ended.)
LogReturns ==
  (\E t \in Threads : pc[t] # "idle")
    ~> (\A t \in Threads : pc[t] = "idle") \/ exited \/ log_mutex = Wedged

\* A LOG(FATAL) or CHECK, which makes a LogMessageFatal, ends the process, with
\* the same exception: a helper that never gets log_mutex again does not empty
\* the queue its sink waits for, and WaitForSinks does not return to call Fail.
FatalTerminates ==
  (\E t \in Threads : pc[t] = "flush" /\ cls[t] = "LogMessageFatal")
    ~> exited \/ log_mutex = Wedged
=============================================================================
