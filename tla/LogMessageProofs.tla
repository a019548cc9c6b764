-------------------------- MODULE LogMessageProofs --------------------------
(***************************************************************************)
(* Proofs about LogMessage for every set of threads and sinks, every       *)
(* choice of statements and every outcome of an unlock too many.           *)
(***************************************************************************)
EXTENDS LogMessage, FiniteSetTheorems, TLAPS

\* The initial state of a buffer is well typed.
LEMMA NoDataType == NoData \in LogMessageData
  BY StatementsAssumption DEF NoData, LogMessageData, Severities, GLOG_FATAL, Methods

\* What a step of Goto does to pc, the only way a step changes it.
LEMMA GotoType ==
  ASSUME NEW t \in Threads, NEW from, NEW to \in Labels,
         pc \in [Threads -> Labels], Goto(t, from, to)
  PROVE  pc' \in [Threads -> Labels]
  BY DEF Goto

\* The vector RemoveLogSink leaves behind holds sinks only.
LEMMA RemoveType ==
  ASSUME NEW s, NEW q \in Seq(Sinks),
         NEW f \in Increasing({i \in 1 .. Len(q) : q[i] # s})
  PROVE  [i \in DOMAIN f |-> q[f[i]]] \in Seq(Sinks)
<1> DEFINE K == {i \in 1 .. Len(q) : q[i] # s}
           n == Cardinality(K)
<1>1. IsFiniteSet(1 .. Len(q))
  BY FS_Interval
<1>2. n \in Nat
  BY <1>1, FS_Subset, FS_CardinalityType
<1>3. f \in [1 .. n -> K]
  BY DEF Increasing
<1>4. \A i \in 1 .. n : q[f[i]] \in Sinks
  BY <1>3
<1> QED
  BY <1>2, <1>3, <1>4

-----------------------------------------------------------------------------
\* The messages a step reads and writes are well typed.
LEMMA MsgType ==
  ASSUME TypeOK, NEW t \in Threads
  PROVE  msg(t) \in LogMessageData
  BY DEF TypeOK, msg

LEMMA InitType == Init => TypeOK
<1> SUFFICES ASSUME Init PROVE TypeOK
  OBVIOUS
<1>1. /\ pc \in [Threads -> Labels]
      /\ cls \in [Threads -> {"LogMessage", "LogMessageFatal"}]
      /\ data_ \in [Threads -> Buffers]
      /\ \A t \in Threads : data_[t] \in {t, Exclusive, Shared}
  BY DEF Init, Labels, Buffers
<1>2. /\ todo \in [Threads -> Nat]
      /\ loaded \in [Threads -> Nat]
      /\ queue \in [Sinks -> Nat]
      /\ num_messages_ \in [Severities -> Nat]
      /\ counted \in [Severities -> Nat]
      /\ crash_reason \in Nat /\ started \in Nat /\ own \in Nat
  BY DEF Init
<1>3. data \in [Buffers -> LogMessageData]
  BY NoDataType DEF Init
<1>4. /\ has_been_flushed_ \in [Buffers -> BOOLEAN]
      /\ exit_on_dfatal \in BOOLEAN /\ fatal_msg_exclusive \in BOOLEAN
      /\ exited \in BOOLEAN /\ fatalUnlocked \in BOOLEAN
  BY DEF Init
<1>5. /\ log_mutex \in Threads \cup {NoThread, Wedged}
      /\ readers \subseteq Threads
      /\ owed \in [Threads -> SUBSET Sinks]
      /\ dropped \in [Threads -> SUBSET Sinks]
  BY DEF Init
<1>6. /\ sinks_ \in Seq(Sinks)
      /\ logfile \in [Severities -> Seq(Nat)]
      /\ received \in [Sinks -> Seq(Nat)]
  BY SinksAssumption DEF Init
<1> QED
  BY <1>1, <1>2, <1>3, <1>4, <1>5, <1>6 DEF TypeOK

\* Constructing a message preserves the types.
LEMMA ConstructType ==
  ASSUME TypeOK, NEW t \in Threads, NEW st \in Statement, Construct(t, st),
         queue' \in [Sinks -> Nat], own' \in Nat
  PROVE  TypeOK'
<1> DEFINE b == BufferFor(t, st)
<1>1. b \in Buffers /\ b \in {t, Exclusive, Shared}
  BY DEF BufferFor, Buffers
<1>2. pc' \in [Threads -> Labels]
  BY GotoType DEF TypeOK, Construct, Labels
<1>3. /\ cls' \in [Threads -> {"LogMessage", "LogMessageFatal"}]
      /\ data_' \in [Threads -> Buffers]
      /\ \A u \in Threads : data_'[u] \in {u, Exclusive, Shared}
      /\ has_been_flushed_' \in [Buffers -> BOOLEAN]
  BY <1>1 DEF TypeOK, Construct, Statement
<1>4. data' \in [Buffers -> LogMessageData]
  <2> DEFINE d == [severity_ |-> st.severity_, send_method_ |-> st.send_method_,
                   sink_ |-> st.sink_, out |-> st.out,
                   first_fatal_ |-> b = Exclusive, id |-> started + 1]
  <2>1. d \in LogMessageData
    BY DEF TypeOK, Statement, LogMessageData
  <2>2. data' = [data EXCEPT ![b] = d]
    BY DEF Construct
  <2> HIDE DEF d, b
  <2> QED
    BY <2>1, <2>2, <1>1 DEF TypeOK
<1>5. fatal_msg_exclusive' \in BOOLEAN /\ started' \in Nat
  BY DEF TypeOK, Construct, UsesFatalBuffer
<1>6. UNCHANGED <<todo, loaded, log_mutex, readers, sinks_, exit_on_dfatal,
                  crash_reason, exited, num_messages_, logfile, received, ghosts>>
  BY DEF Construct
<1> HIDE DEF b
<1> QED
  BY <1>2, <1>3, <1>4, <1>5, <1>6 DEF TypeOK, ghosts

\* The sink vector is read inside its bounds wherever a step indexes it.
LEMMA SinkAt ==
  ASSUME TypeOK, SinkIndexInBounds, NEW t \in Threads, todo[t] > 0,
         pc[t] \in Sending \cup Waiting
  PROVE  sinks_[todo[t]] \in Sinks
  BY DEF TypeOK, SinkIndexInBounds

\* A delivery to a sink preserves the types of what it changes.
LEMMA DeliverType ==
  ASSUME TypeOK, NEW t \in Threads, NEW s \in Sinks, Deliver(t, s)
  PROVE  /\ received' \in [Sinks -> Seq(Nat)]
         /\ queue' \in [Sinks -> Nat]
         /\ owed' \in [Threads -> SUBSET Sinks]
<1>1. msg(t).id \in Nat
  BY MsgType DEF LogMessageData
<1> QED
  BY <1>1 DEF Deliver, TypeOK

\* Unlocking, even by a thread that does not hold the mutex, never makes a
\* thread its owner.
LEMMA UnlockOwner ==
  ASSUME TypeOK, NEW t \in Threads, Unlock(t)
  PROVE  /\ log_mutex' \in Threads \cup {NoThread, Wedged}
         /\ log_mutex' # t
         /\ \A u \in Threads : log_mutex' = u => log_mutex = u
         /\ exited' \in BOOLEAN
<1>1. CASE log_mutex = t
  BY <1>1, ThreadsAssumption DEF Unlock, TypeOK
<1>2. CASE log_mutex # t
  <2>1. PICK o \in DoubleUnlock :
               /\ log_mutex' = CASE o = "ignored"  -> log_mutex
                                 [] o = "released" -> NoThread
                                 [] o = "wedged"   -> Wedged
                                 [] o = "fails"    -> log_mutex
               /\ exited' = (exited \/ o = "fails")
    BY <1>2 DEF Unlock
  <2>2. o \in {"ignored", "released", "wedged", "fails"}
    BY OutcomesAssumption
  <2>3. log_mutex' \in {log_mutex, NoThread, Wedged}
    BY <2>1, <2>2
  <2>4. exited' \in BOOLEAN
    BY <2>1
  <2> QED
    BY <1>2, <2>3, <2>4, ThreadsAssumption DEF TypeOK
<1> QED
  BY <1>1, <1>2

\* Every step of a log statement moves its thread from one label to another.
LEMMA StepLabel ==
  ASSUME NEW t \in Threads, pc \in [Threads -> Labels], Step(t)
  PROVE  pc' \in [Threads -> Labels]
<1> USE DEF Labels, Logging, Sending, Waiting
<1>1. CASE FlushSkip(t) \/ FlushEnter(t) \/ LockLogMutex(t)
  BY <1>1, GotoType DEF FlushSkip, FlushEnter, LockLogMutex
<1>2. CASE SendMethod(t)
  <2>1. (IF SkipsLog(t) THEN "count" ELSE "log") \in Labels
    OBVIOUS
  <2> QED
    BY <1>2, <2>1, GotoType DEF SendMethod
<1>3. CASE SendMethodThrows(t) \/ LogToLogfile(t) \/ LogToSink(t) \/ LogToSinkThrows(t)
  BY <1>3, GotoType DEF SendMethodThrows, LogToLogfile, LogToSink, LogToSinkThrows
<1>4. CASE LogToSinksBegin(t)
  BY <1>4, GotoType DEF LogToSinksBegin, LockSinks
<1>5. CASE LogToSinksEnd(t)
  <2>1. (IF IsFatal(t) THEN "fatal" ELSE "count") \in Labels
    OBVIOUS
  <2> QED
    BY <1>5, <2>1, GotoType DEF LogToSinksEnd, UnlockSinks
<1>6. ASSUME NEW call, NEW inside \in Labels, NEW return \in Labels,
             WaitForSinks(t, call, inside, return)
      PROVE  pc' \in [Threads -> Labels]
  BY <1>6, GotoType DEF WaitForSinks, WaitBegin, WaitTillSent, WaitEnd, LockSinks, UnlockSinks
<1>7. CASE FatalUnlock(t) \/ CountLoad(t) \/ CountStore(t) \/ UnlockLogMutex(t)
  BY <1>7, GotoType DEF FatalUnlock, CountLoad, CountStore, UnlockLogMutex
<1>8. CASE FlushReturn(t) \/ Destroy(t) \/ FailExit(t) \/ FailThrow(t)
  BY <1>8, GotoType DEF FlushReturn, Destroy, FailExit, FailThrow
<1> QED
  BY <1>1, <1>2, <1>3, <1>4, <1>5, <1>6, <1>7, <1>8 DEF Step

-----------------------------------------------------------------------------
\* Types are preserved by every step of a log statement.  The bounds of the
\* sink loops are needed for the steps that call a sink.
LEMMA StepType ==
  ASSUME TypeOK, SinkIndexInBounds, NEW t \in Threads, Step(t)
  PROVE  TypeOK'
<1> USE DEF locals, buffers, globals, outputs, counts, ghosts
<1>m. msg(t) \in LogMessageData
  BY MsgType
<1>pc. pc' \in [Threads -> Labels]
  BY StepLabel DEF TypeOK
<1>1. CASE FlushSkip(t) \/ FlushEnter(t)
  BY <1>1, <1>pc DEF TypeOK, FlushSkip, FlushEnter
<1>2. CASE LockLogMutex(t)
  BY <1>2, <1>pc DEF TypeOK, LockLogMutex
<1>3. CASE SendMethod(t)
  <2>1. todo' \in [Threads -> Nat]
    <3> DEFINE n == IF logtostderr \/ SkipsLog(t) THEN 0 ELSE msg(t).severity_ + 1
    <3>1. msg(t).severity_ \in Nat
      BY <1>m, StatementsAssumption DEF LogMessageData, Severities, GLOG_FATAL
    <3>2. n \in Nat
      BY <3>1
    <3>3. todo' = [todo EXCEPT ![t] = n]
      BY <1>3 DEF SendMethod
    <3> HIDE DEF n
    <3> QED
      BY <3>2, <3>3 DEF TypeOK
  <2>2. CASE HasTarget(t)
    <3>1. msg(t).sink_ \in Sinks
      BY <2>2, <1>m DEF HasTarget, LogMessageData
    <3>2. Deliver(t, msg(t).sink_)
      BY <1>3, <2>2 DEF SendMethod
    <3>3. /\ received' \in [Sinks -> Seq(Nat)]
          /\ queue' \in [Sinks -> Nat]
          /\ owed' \in [Threads -> SUBSET Sinks]
      BY <3>1, <3>2, DeliverType
    <3> QED
      BY <1>3, <1>pc, <2>1, <3>3 DEF TypeOK, SendMethod
  <2>3. CASE ~HasTarget(t)
    BY <1>3, <1>pc, <2>1, <2>3 DEF TypeOK, SendMethod
  <2> QED
    BY <2>2, <2>3
<1>4. CASE SendMethodThrows(t)
  BY <1>4, <1>pc DEF TypeOK, SendMethodThrows
<1>5. CASE LogToLogfile(t)
  <2>1. todo' \in [Threads -> Nat]
    BY <1>5 DEF TypeOK, LogToLogfile
  <2>2. msg(t).id \in Nat
    BY <1>m DEF LogMessageData
  <2>3. logfile' \in [Severities -> Seq(Nat)]
    <3>1. logfile' = [logfile EXCEPT ![todo[t] - 1] = Append(@, msg(t).id)]
      BY <1>5 DEF LogToLogfile
    <3>2. \A s \in Severities : logfile'[s] \in Seq(Nat)
      BY <2>2, <3>1 DEF TypeOK
    <3> QED
      BY <3>1, <3>2 DEF TypeOK
  <2> QED
    BY <1>5, <1>pc, <2>1, <2>3 DEF TypeOK, LogToLogfile
<1>6. ASSUME NEW from, NEW to, LockSinks(t, from, to)
      PROVE  TypeOK'
  <2>1. todo' \in [Threads -> Nat]
    BY <1>6 DEF TypeOK, LockSinks
  <2> QED
    BY <1>6, <1>pc, <2>1 DEF TypeOK, LockSinks
<1>7. CASE LogToSink(t)
  <2>1. sinks_[todo[t]] \in Sinks
    BY <1>7, SinkAt DEF LogToSink, Goto, Sending
  <2>2. /\ received' \in [Sinks -> Seq(Nat)]
        /\ queue' \in [Sinks -> Nat]
        /\ owed' \in [Threads -> SUBSET Sinks]
    BY <1>7, <2>1, DeliverType DEF LogToSink
  <2>3. todo' \in [Threads -> Nat]
    BY <1>7 DEF TypeOK, LogToSink
  <2> QED
    BY <1>7, <1>pc, <2>2, <2>3 DEF TypeOK, LogToSink
<1>8. CASE LogToSinkThrows(t)
  <2>1. todo' \in [Threads -> Nat]
    BY <1>8 DEF TypeOK, LogToSinkThrows
  <2> QED
    BY <1>8, <1>pc, <2>1 DEF TypeOK, LogToSinkThrows
<1>9. CASE LogToSinksEnd(t)
  BY <1>9, <1>pc DEF TypeOK, LogToSinksEnd, UnlockSinks
<1>10. CASE FatalUnlock(t)
  <2>1. crash_reason' \in Nat
    BY <1>10 DEF TypeOK, FatalUnlock, LogMessageData, Buffers
  <2>2. log_mutex' \in Threads \cup {NoThread, Wedged} /\ exited' \in BOOLEAN
    BY <1>10, UnlockOwner DEF FatalUnlock
  <2> QED
    BY <1>10, <1>pc, <2>1, <2>2 DEF TypeOK, FatalUnlock
<1>11. ASSUME NEW at \in Waiting, WaitTillSent(t, at)
       PROVE  TypeOK'
  <2>1. owed' \in [Threads -> SUBSET Sinks]
    BY <1>11 DEF TypeOK, WaitTillSent
  <2>2. todo' \in [Threads -> Nat]
    BY <1>11 DEF TypeOK, WaitTillSent
  <2> QED
    BY <1>11, <1>pc, <2>1, <2>2 DEF TypeOK, WaitTillSent
<1>12. ASSUME NEW from, NEW to, WaitEnd(t, from, to)
       PROVE  TypeOK'
  <2>1. owed' \in [Threads -> SUBSET Sinks]
    BY <1>12 DEF TypeOK, WaitEnd
  <2> QED
    BY <1>12, <1>pc, <2>1 DEF TypeOK, WaitEnd, UnlockSinks
<1>13. CASE CountLoad(t) \/ CountStore(t)
  <2>1. msg(t).severity_ \in Severities
    BY <1>m DEF LogMessageData
  <2>2. CASE CountLoad(t)
    BY <2>1, <2>2, <1>pc DEF TypeOK, CountLoad
  <2>3. CASE CountStore(t)
    <3>1. /\ num_messages_' \in [Severities -> Nat]
          /\ counted' \in [Severities -> Nat]
          /\ loaded' \in [Threads -> Nat]
      BY <2>1, <2>3 DEF TypeOK, CountStore
    <3> QED
      BY <2>3, <3>1, <1>pc DEF TypeOK, CountStore
  <2> QED
    BY <1>13, <2>2, <2>3
<1>14. CASE UnlockLogMutex(t)
  <2>1. log_mutex' \in Threads \cup {NoThread, Wedged} /\ exited' \in BOOLEAN
    BY <1>14, UnlockOwner DEF UnlockLogMutex
  <2> QED
    BY <1>14, <1>pc, <2>1 DEF TypeOK, UnlockLogMutex
<1>15. CASE FlushReturn(t)
  <2>1. has_been_flushed_' \in [Buffers -> BOOLEAN]
    BY <1>15 DEF TypeOK, FlushReturn
  <2> QED
    BY <1>15, <1>pc, <2>1 DEF TypeOK, FlushReturn
<1>16. CASE Destroy(t)
  <2>1. data' \in [Buffers -> LogMessageData]
    BY <1>16, NoDataType DEF TypeOK, Destroy
  <2>2. has_been_flushed_' \in [Buffers -> BOOLEAN]
    BY <1>16 DEF TypeOK, Destroy
  <2>3. /\ data_' \in [Threads -> Buffers]
        /\ \A u \in Threads : data_'[u] \in {u, Exclusive, Shared}
    BY <1>16 DEF TypeOK, Destroy, Buffers
  <2>4. owed' \in [Threads -> SUBSET Sinks] /\ dropped' \in [Threads -> SUBSET Sinks]
    BY <1>16 DEF TypeOK, Destroy
  <2> QED
    BY <1>16, <1>pc, <2>1, <2>2, <2>3, <2>4 DEF TypeOK, Destroy
<1>17. CASE FailExit(t)
  BY <1>17, <1>pc DEF TypeOK, FailExit
<1>18. CASE FailThrow(t)
  BY <1>18, <1>pc DEF TypeOK, FailThrow
<1> QED
  BY <1>1, <1>2, <1>3, <1>4, <1>5, <1>6, <1>7, <1>8, <1>9, <1>10, <1>11, <1>12, <1>13,
     <1>14, <1>15, <1>16, <1>17, <1>18
  DEF Step, WaitForSinks, WaitBegin, LogToSinksBegin, Waiting

\* Types are preserved by every step.
LEMMA NextType ==
  ASSUME TypeOK, SinkIndexInBounds, [Next]_vars
  PROVE  TypeOK'
<1> USE DEF locals, buffers, globals, outputs, counts, ghosts
<1>1. ASSUME NEW t \in Threads, Step(t)
      PROVE  TypeOK'
  BY <1>1, StepType
<1>2. ASSUME NEW t \in Threads, NEW st \in Statements, LogStatement(t, st)
      PROVE  TypeOK'
  <2>1. st \in Statement
    BY StatementsAssumption
  <2>2. queue' \in [Sinks -> Nat] /\ own' \in Nat
    BY <1>2 DEF LogStatement, TypeOK
  <2> QED
    BY <1>2, <2>1, <2>2, ConstructType DEF LogStatement
<1>3. ASSUME NEW s \in Sinks, HelperRun(s)
      PROVE  TypeOK'
  <2>1. queue' \in [Sinks -> Nat] /\ own' \in Nat
    BY <1>3 DEF HelperRun, TypeOK
  <2> QED
    BY <1>3, <2>1, ConstructType, StatementsAssumption DEF HelperRun
<1>4. ASSUME NEW s \in Sinks, AddLogSink(s)
      PROVE  TypeOK'
  BY <1>4 DEF AddLogSink, TypeOK
<1>5. ASSUME NEW s \in Sinks, RemoveLogSink(s)
      PROVE  TypeOK'
  <2>1. sinks_' \in Seq(Sinks)
    <3>1. sinks_ \in Seq(Sinks)
      BY DEF TypeOK
    <3>2. PICK f \in Increasing({i \in 1 .. Len(sinks_) : sinks_[i] # s}) :
                 sinks_' = [i \in DOMAIN f |-> sinks_[f[i]]]
      BY <1>5 DEF RemoveLogSink
    <3> QED
      BY <3>1, <3>2, RemoveType
  <2>2. dropped' \in [Threads -> SUBSET Sinks]
    BY <1>5 DEF RemoveLogSink, TypeOK
  <2> QED
    BY <1>5, <2>1, <2>2 DEF RemoveLogSink, TypeOK
<1>6. ASSUME NEW v \in ExitValues, SetExitOnDFatal(v)
      PROVE  TypeOK'
  BY <1>6, OutcomesAssumption DEF SetExitOnDFatal, TypeOK
<1>7. CASE UNCHANGED vars
  BY <1>7 DEF vars, TypeOK
<1> QED
  BY <1>1, <1>2, <1>3, <1>4, <1>5, <1>6, <1>7, SinksAssumption DEF Next, Terminated

-----------------------------------------------------------------------------
\* The loops over sinks_ stay in bounds: only the steps of t itself change
\* whether t reads, and sinks_ does not change while anybody does.
LEMMA NextIndex ==
  ASSUME TypeOK, SinkIndexInBounds, [Next]_vars
  PROVE  SinkIndexInBounds'
<1> USE DEF locals, buffers, globals, outputs, counts, ghosts, Sending, Waiting
<1>1. ASSUME NEW t \in Threads, Step(t)
      PROVE  SinkIndexInBounds'
  <2>0. SUFFICES /\ \A u \in Threads \ {t} : /\ pc'[u] = pc[u] /\ todo'[u] = todo[u]
                                             /\ u \in readers => u \in readers'
                 /\ sinks_' = sinks_
                 /\ pc'[t] \in Sending \cup Waiting =>
                      t \in readers' /\ todo'[t] <= Len(sinks_)
    BY DEF SinkIndexInBounds, TypeOK
  <2>1. CASE FlushSkip(t) \/ FlushEnter(t) \/ LockLogMutex(t)
    BY <2>1 DEF FlushSkip, FlushEnter, LockLogMutex, Goto, TypeOK
  <2>2. CASE SendMethod(t)
    BY <2>2 DEF SendMethod, Goto, TypeOK
  <2>3. CASE SendMethodThrows(t) \/ LogToLogfile(t) \/ LogToSinkThrows(t)
    BY <2>3 DEF SendMethodThrows, LogToLogfile, LogToSinkThrows, Goto, TypeOK
  <2>4. ASSUME NEW from, NEW to, LockSinks(t, from, to)
        PROVE  <2>0!1
    BY <2>4 DEF LockSinks, Goto, TypeOK
  <2>5. CASE LogToSink(t)
    BY <2>5 DEF LogToSink, Goto, TypeOK, SinkIndexInBounds
  <2>6. CASE LogToSinksEnd(t)
    BY <2>6 DEF LogToSinksEnd, UnlockSinks, Goto, TypeOK
  <2>7. CASE FatalUnlock(t) \/ CountLoad(t) \/ CountStore(t) \/ UnlockLogMutex(t)
    BY <2>7 DEF FatalUnlock, CountLoad, CountStore, UnlockLogMutex, Goto, TypeOK
  <2>8. ASSUME NEW at \in Waiting, WaitTillSent(t, at)
        PROVE  <2>0!1
    BY <2>8 DEF WaitTillSent, Goto, TypeOK, SinkIndexInBounds
  <2>9. ASSUME NEW from, NEW to \in {"count", "flushed"}, WaitEnd(t, from, to)
        PROVE  <2>0!1
    BY <2>9 DEF WaitEnd, UnlockSinks, Goto, TypeOK
  <2>10. CASE FlushReturn(t) \/ Destroy(t) \/ FailExit(t) \/ FailThrow(t)
    BY <2>10 DEF FlushReturn, Destroy, FailExit, FailThrow, Goto, TypeOK
  <2> QED
    BY <1>1, <2>1, <2>2, <2>3, <2>4, <2>5, <2>6, <2>7, <2>8, <2>9, <2>10
    DEF Step, WaitForSinks, WaitBegin, LogToSinksBegin
<1>2. ASSUME NEW t \in Threads, NEW st, Construct(t, st)
      PROVE  SinkIndexInBounds'
  BY <1>2 DEF Construct, Goto, TypeOK, SinkIndexInBounds
<1>3. CASE readers = {} /\ UNCHANGED <<pc, readers>>
  BY <1>3 DEF SinkIndexInBounds
<1>4. CASE UNCHANGED <<pc, todo, readers, sinks_>>
  BY <1>4 DEF SinkIndexInBounds
<1> QED
  BY <1>1, <1>2, <1>3, <1>4, SinksAssumption
  DEF Next, Terminated, LogStatement, HelperRun, AddLogSink, RemoveLogSink, CanWrite,
      SetExitOnDFatal, vars

-----------------------------------------------------------------------------
(***************************************************************************)
(* log_mutex.  LogMutexHeld is not inductive as it stands: a thread returns *)
(* from WaitForSinks on the FATAL path into the code after the lock without *)
(* holding it, so the invariant has to say that this happens only after     *)
(* fatalUnlocked.  OwnerLogs holds on every path.                           *)
(***************************************************************************)
OwnerLogs == \A t \in Threads : log_mutex = t => pc[t] \in Logging

FatalWaiters ==
  \A t \in Threads : pc[t] \in {"fatalwait", "fatalwaiting"} => fatalUnlocked

MutexInv == OwnerLogs /\ FatalWaiters /\ LogMutexHeld

\* Nothing but the FATAL path sets fatalUnlocked, and nothing resets it.
LEMMA NextMutex ==
  ASSUME TypeOK, MutexInv, [Next]_vars
  PROVE  MutexInv'
<1> USE DEF locals, buffers, globals, outputs, counts, ghosts
<1>1. ASSUME NEW t \in Threads, Step(t)
      PROVE  MutexInv'
  <2> DEFINE Frame == \A u \in Threads \ {t} : pc'[u] = pc[u]
             Moves(from, to) == pc[t] = from /\ pc'[t] = to
  <2>a. ASSUME Frame, UNCHANGED <<log_mutex, fatalUnlocked>>,
               pc[t] \in Logging <=> pc'[t] \in Logging,
               pc'[t] \in {"fatalwait", "fatalwaiting"} => fatalUnlocked
        PROVE  MutexInv'
    BY <2>a DEF MutexInv, OwnerLogs, FatalWaiters, LogMutexHeld, TypeOK
  <2>1. CASE FlushSkip(t) \/ FlushEnter(t) \/ FlushReturn(t) \/ Destroy(t) \/ FailExit(t)
             \/ FailThrow(t)
    BY <2>1, <2>a DEF FlushSkip, FlushEnter, FlushReturn, Destroy, FailExit, FailThrow,
                      Goto, TypeOK, Logging
  <2>2. CASE LockLogMutex(t)
    BY <2>2, ThreadsAssumption DEF LockLogMutex, Goto, TypeOK, Logging,
       MutexInv, OwnerLogs, FatalWaiters, LogMutexHeld
  <2>3. CASE SendMethod(t)
    BY <2>3, <2>a DEF SendMethod, Goto, TypeOK, Logging
  <2>4. CASE SendMethodThrows(t) \/ LogToLogfile(t) \/ LogToSink(t) \/ LogToSinkThrows(t)
             \/ CountLoad(t) \/ CountStore(t)
    BY <2>4, <2>a DEF SendMethodThrows, LogToLogfile, LogToSink, LogToSinkThrows, CountLoad,
                      CountStore, Goto, TypeOK, Logging
  <2>5. CASE LogToSinksBegin(t) \/ LogToSinksEnd(t)
    BY <2>5, <2>a DEF LogToSinksBegin, LogToSinksEnd, LockSinks, UnlockSinks, Goto, TypeOK,
                      Logging
  <2>6. CASE FatalUnlock(t)
    <3>1. fatalUnlocked' /\ Frame /\ pc'[t] = "fatalwait"
      BY <2>6 DEF FatalUnlock, Goto, TypeOK
    <3>2. log_mutex' # t /\ \A u \in Threads : log_mutex' = u => log_mutex = u
      BY <2>6, UnlockOwner DEF FatalUnlock
    <3> QED
      BY <3>1, <3>2 DEF MutexInv, OwnerLogs, FatalWaiters, LogMutexHeld
  <2>7. CASE UnlockLogMutex(t)
    <3>1. Frame /\ Moves("unlock", "wait") /\ UNCHANGED fatalUnlocked
      BY <2>7 DEF UnlockLogMutex, Goto, TypeOK
    <3>2. log_mutex' # t /\ \A u \in Threads : log_mutex' = u => log_mutex = u
      BY <2>7, UnlockOwner DEF UnlockLogMutex
    <3>3. ~fatalUnlocked => log_mutex = t /\ log_mutex' = NoThread
      BY <2>7, <3>1 DEF UnlockLogMutex, Unlock, MutexInv, LogMutexHeld, Logging
    <3>4. OwnerLogs' /\ FatalWaiters'
      BY <3>1, <3>2 DEF MutexInv, OwnerLogs, FatalWaiters
    <3>5. LogMutexHeld'
      BY <3>1, <3>3, ThreadsAssumption DEF MutexInv, LogMutexHeld, Logging
    <3> QED
      BY <3>4, <3>5 DEF MutexInv
  <2>8. CASE WaitForSinks(t, "fatalwait", "fatalwaiting", "count")
    <3>1. Frame /\ UNCHANGED <<log_mutex, fatalUnlocked>>
          /\ pc[t] \in {"fatalwait", "fatalwaiting"}
          /\ pc'[t] \in {"fatalwaiting", "count"}
      BY <2>8 DEF WaitForSinks, WaitBegin, WaitTillSent, WaitEnd, LockSinks, UnlockSinks,
                  Goto, TypeOK
    <3>2. fatalUnlocked /\ log_mutex # t
      BY <3>1 DEF MutexInv, FatalWaiters, OwnerLogs, Logging
    <3> QED
      BY <3>1, <3>2 DEF MutexInv, OwnerLogs, FatalWaiters, LogMutexHeld
  <2>9. CASE WaitForSinks(t, "wait", "waiting", "flushed")
    BY <2>9, <2>a DEF WaitForSinks, WaitBegin, WaitTillSent, WaitEnd, LockSinks, UnlockSinks,
                      Goto, TypeOK, Logging
  <2> QED
    BY <1>1, <2>1, <2>2, <2>3, <2>4, <2>5, <2>6, <2>7, <2>8, <2>9 DEF Step
<1>2. ASSUME NEW t \in Threads, NEW st, Construct(t, st)
      PROVE  MutexInv'
  BY <1>2 DEF Construct, Goto, TypeOK, Logging, MutexInv, OwnerLogs, FatalWaiters, LogMutexHeld
<1>3. CASE UNCHANGED <<pc, log_mutex, fatalUnlocked>>
  BY <1>3 DEF MutexInv, OwnerLogs, FatalWaiters, LogMutexHeld
<1> QED
  BY <1>1, <1>2, <1>3, SinksAssumption
  DEF Next, Terminated, LogStatement, HelperRun, AddLogSink, RemoveLogSink,
      SetExitOnDFatal, vars

-----------------------------------------------------------------------------
(***************************************************************************)
(* num_messages_.  Between the load and the store the thread must be alone, *)
(* and the severity it indexes with must not change although the message    *)
(* may sit in the buffer that FATAL messages share.                         *)
(***************************************************************************)
FatalBuffers ==
  \A t \in Threads : data_[t] # t => data[data_[t]].severity_ = GLOG_FATAL

CountInv ==
  ~fatalUnlocked =>
    /\ num_messages_ = counted
    /\ \A t \in Threads : pc[t] = "store" => loaded[t] = num_messages_[msg(t).severity_]

\* A step of one thread leaves the messages of the others alone.
LEMMA MsgKept ==
  ASSUME TypeOK, NEW t \in Threads, Step(t)
  PROVE  /\ \A u \in Threads \ {t} : msg(u)' = msg(u) /\ data_'[u] = data_[u]
         /\ ~Destroy(t) => UNCHANGED <<data, data_>>
<1> USE DEF locals, buffers
<1>1. CASE Destroy(t)
  BY <1>1, ThreadsAssumption DEF Destroy, TypeOK, msg, Buffers
<1>2. CASE ~Destroy(t)
  <2>1. UNCHANGED <<data, data_>>
    BY <1>2 DEF Step, FlushSkip, FlushEnter, LockLogMutex, SendMethod, SendMethodThrows,
       LogToLogfile, LogToSinksBegin, LogToSink, LogToSinkThrows, LogToSinksEnd, FatalUnlock,
       WaitForSinks, WaitBegin, WaitTillSent, WaitEnd, CountLoad, CountStore, UnlockLogMutex,
       FlushReturn, FailExit, FailThrow, LockSinks, UnlockSinks
  <2> QED
    BY <1>2, <2>1 DEF msg
<1> QED
  BY <1>1, <1>2

\* A new message in a buffer another thread uses has the same severity.
LEMMA ConstructKeepsSeverity ==
  ASSUME TypeOK, FatalBuffers, NEW t \in Threads, NEW st \in Statement, Construct(t, st)
  PROVE  /\ FatalBuffers'
         /\ \A u \in Threads \ {t} : msg(u)'.severity_ = msg(u).severity_
<1> DEFINE b == BufferFor(t, st)
           d == [severity_ |-> st.severity_, send_method_ |-> st.send_method_,
                 sink_ |-> st.sink_, out |-> st.out,
                 first_fatal_ |-> b = Exclusive, id |-> started + 1]
<1>1. b = t \/ (b \in {Exclusive, Shared} /\ st.severity_ = GLOG_FATAL)
  BY DEF BufferFor, UsesFatalBuffer
<1>2. data' = [data EXCEPT ![b] = d] /\ data_' = [data_ EXCEPT ![t] = b]
  BY DEF Construct
<1>3. b \in Buffers /\ d.severity_ = st.severity_
  BY <1>1 DEF Buffers
<1> HIDE DEF b, d
<1>4. \A u \in Threads \ {t} :
        /\ data_'[u] = data_[u]
        /\ data'[data_[u]].severity_ = data[data_[u]].severity_
  <2> TAKE u \in Threads \ {t}
  <2>1. data_'[u] = data_[u] /\ data_[u] \in Buffers
    BY <1>2 DEF TypeOK
  <2>2. CASE data_[u] # b
    BY <1>2, <2>1, <2>2 DEF TypeOK
  <2>3. CASE data_[u] = b
    <3>1. b # t
      BY <2>3, ThreadsAssumption DEF TypeOK
    <3>2. b # u
      BY <1>1, <3>1, ThreadsAssumption
    <3>3. data[b].severity_ = GLOG_FATAL /\ data'[b].severity_ = GLOG_FATAL
      BY <1>1, <1>2, <1>3, <2>3, <3>1, <3>2 DEF FatalBuffers, TypeOK
    <3> QED
      BY <2>1, <2>3, <3>3
  <2> QED
    BY <2>2, <2>3
<1>5. data_'[t] # t => data'[data_'[t]].severity_ = GLOG_FATAL
  BY <1>1, <1>2, <1>3 DEF TypeOK
<1>6. FatalBuffers'
  BY <1>4, <1>5 DEF FatalBuffers
<1> QED
  BY <1>4, <1>6 DEF msg

LEMMA NextCount ==
  ASSUME TypeOK, MutexInv, FatalBuffers, CountInv, [Next]_vars
  PROVE  FatalBuffers' /\ CountInv'
<1> USE DEF locals, buffers, globals, outputs, counts, ghosts
<1>1. ASSUME NEW t \in Threads, Step(t)
      PROVE  FatalBuffers' /\ CountInv'
  <2>1. FatalBuffers'
    <3>1. CASE Destroy(t)
      <4>1. \A u \in Threads \ {t} : msg(u)' = msg(u) /\ data_'[u] = data_[u]
        BY <1>1, MsgKept
      <4>2. data_'[t] = t
        BY <3>1 DEF Destroy, TypeOK
      <4> QED
        BY <4>1, <4>2 DEF FatalBuffers, msg
    <3>2. CASE ~Destroy(t)
      <4>1. UNCHANGED <<data, data_>>
        BY <1>1, <3>2, MsgKept
      <4> QED
        BY <4>1 DEF FatalBuffers
    <3> QED
      BY <3>1, <3>2
  <2>2. \A u \in Threads \ {t} : msg(u)' = msg(u)
    BY <1>1, MsgKept
  <2>a. ASSUME UNCHANGED <<num_messages_, counted, fatalUnlocked>>,
               \A u \in Threads \ {t} : pc'[u] = pc[u] /\ loaded'[u] = loaded[u],
               pc'[t] # "store"
        PROVE  CountInv'
    BY <2>2, <2>a DEF CountInv
  <2>3. CASE FlushSkip(t) \/ FlushEnter(t) \/ LockLogMutex(t) \/ SendMethodThrows(t)
             \/ LogToLogfile(t) \/ LogToSink(t) \/ LogToSinkThrows(t) \/ UnlockLogMutex(t)
    BY <2>1, <2>3, <2>a DEF FlushSkip, FlushEnter, LockLogMutex, SendMethodThrows, LogToLogfile,
                      LogToSink, LogToSinkThrows, UnlockLogMutex, Goto, TypeOK
  <2>4. CASE SendMethod(t)
    BY <2>1, <2>4, <2>a DEF SendMethod, Goto, TypeOK
  <2>5. CASE LogToSinksBegin(t) \/ LogToSinksEnd(t)
    BY <2>1, <2>5, <2>a DEF LogToSinksBegin, LogToSinksEnd, LockSinks, UnlockSinks, Goto, TypeOK
  <2>b. CASE FatalUnlock(t)
    BY <2>1, <2>b DEF FatalUnlock, CountInv
  <2>6. CASE FlushReturn(t) \/ Destroy(t) \/ FailExit(t) \/ FailThrow(t)
    BY <2>1, <2>6, <2>a DEF FlushReturn, Destroy, FailExit, FailThrow, Goto, TypeOK
  <2>7. ASSUME NEW call, NEW inside \in Waiting, NEW return \in {"count", "flushed"},
               WaitForSinks(t, call, inside, return)
        PROVE  CountInv'
    BY <2>7, <2>a DEF WaitForSinks, WaitBegin, WaitTillSent, WaitEnd, LockSinks, UnlockSinks,
                      Goto, TypeOK, Waiting
  <2>8. CASE CountLoad(t)
    <3>1. /\ UNCHANGED <<num_messages_, counted, fatalUnlocked, data, data_>>
          /\ \A u \in Threads \ {t} : pc'[u] = pc[u] /\ loaded'[u] = loaded[u]
          /\ loaded'[t] = num_messages_[msg(t).severity_]
      BY <2>8 DEF CountLoad, Goto, TypeOK
    <3> QED
      BY <2>1, <3>1 DEF CountInv, msg
  <2>9. CASE CountStore(t)
    <3>1. /\ UNCHANGED <<fatalUnlocked, data, data_>>
          /\ \A u \in Threads \ {t} : pc'[u] = pc[u] /\ loaded'[u] = loaded[u]
          /\ pc[t] = "store" /\ pc'[t] = "unlock"
      BY <2>9 DEF CountStore, Goto, TypeOK
    <3>2. ASSUME ~fatalUnlocked
          PROVE  /\ num_messages_' = counted'
                 /\ \A u \in Threads : pc'[u] # "store"
      <4>1. loaded[t] = num_messages_[msg(t).severity_] /\ num_messages_ = counted
        BY <3>1, <3>2 DEF CountInv
      <4>2. num_messages_' = counted'
        BY <2>9, <4>1 DEF CountStore
      <4>3. \A u \in Threads \ {t} : pc[u] # "store"
        BY <3>1, <3>2 DEF MutexInv, LogMutexHeld, Logging
      <4> QED
        BY <3>1, <4>2, <4>3
    <3> QED
      BY <2>1, <3>1, <3>2 DEF CountInv
  <2> QED
    BY <1>1, <2>1, <2>3, <2>4, <2>5, <2>6, <2>7, <2>8, <2>9, <2>b DEF Step, Waiting
<1>2. ASSUME NEW t \in Threads, NEW st \in Statement, Construct(t, st)
      PROVE  FatalBuffers' /\ CountInv'
  <2>1. FatalBuffers' /\ \A u \in Threads \ {t} : msg(u)'.severity_ = msg(u).severity_
    BY <1>2, ConstructKeepsSeverity
  <2>2. /\ UNCHANGED <<num_messages_, counted, fatalUnlocked, loaded>>
        /\ \A u \in Threads \ {t} : pc'[u] = pc[u]
        /\ pc'[t] = "flush"
    BY <1>2 DEF Construct, Goto, TypeOK
  <2> QED
    BY <2>1, <2>2 DEF CountInv
<1>3. CASE UNCHANGED <<pc, loaded, data, data_, num_messages_, counted, fatalUnlocked>>
  BY <1>3 DEF FatalBuffers, CountInv, msg
<1> QED
  BY <1>1, <1>2, <1>3, SinksAssumption, StatementsAssumption
  DEF Next, Terminated, LogStatement, HelperRun, AddLogSink, RemoveLogSink,
      SetExitOnDFatal, vars

-----------------------------------------------------------------------------
(***************************************************************************)
(* The crash reason.  The exclusive buffer is handed out once, so whichever *)
(* thread records it again records the same message.                        *)
(***************************************************************************)
CrashInv ==
  /\ crash_reason # 0 => ~fatal_msg_exclusive /\ crash_reason = data[Exclusive].id
  /\ \A b \in Buffers : data[b].first_fatal_ => ~fatal_msg_exclusive

LEMMA NextCrash ==
  ASSUME TypeOK, CrashInv, [Next]_vars
  PROVE  /\ CrashInv'
         /\ crash_reason # 0 => crash_reason' = crash_reason
<1> USE DEF locals, buffers, globals, outputs, counts, ghosts
<1>0. Exclusive \in Buffers
  BY DEF Buffers
<1>1. ASSUME NEW t \in Threads, Step(t), ~Destroy(t), ~FatalUnlock(t)
      PROVE  UNCHANGED <<data, crash_reason, fatal_msg_exclusive>>
  BY <1>1 DEF Step, FlushSkip, FlushEnter, LockLogMutex, SendMethod, SendMethodThrows,
     LogToLogfile, LogToSinksBegin, LogToSink, LogToSinkThrows, LogToSinksEnd,
     WaitForSinks, WaitBegin, WaitTillSent, WaitEnd, CountLoad, CountStore, UnlockLogMutex,
     FlushReturn, FailExit, FailThrow, LockSinks, UnlockSinks
<1>2. ASSUME NEW t \in Threads, Destroy(t)
      PROVE  CrashInv' /\ crash_reason' = crash_reason
  <2>1. /\ data' = [data EXCEPT ![t] = NoData] /\ NoData.first_fatal_ = FALSE
        /\ UNCHANGED <<crash_reason, fatal_msg_exclusive>>
    BY <1>2 DEF Destroy, NoData
  <2> QED
    BY <1>0, <2>1, ThreadsAssumption DEF CrashInv, TypeOK
<1>3. ASSUME NEW t \in Threads, FatalUnlock(t)
      PROVE  CrashInv' /\ (crash_reason # 0 => crash_reason' = crash_reason)
  <2>1. /\ UNCHANGED <<data, fatal_msg_exclusive>>
        /\ crash_reason' = IF msg(t).first_fatal_ THEN data[Exclusive].id ELSE crash_reason
    BY <1>3 DEF FatalUnlock
  <2>2. msg(t).first_fatal_ => ~fatal_msg_exclusive
    BY DEF CrashInv, msg, TypeOK
  <2> QED
    BY <2>1, <2>2 DEF CrashInv
<1>4. ASSUME NEW t \in Threads, NEW st, Construct(t, st)
      PROVE  CrashInv' /\ crash_reason' = crash_reason
  <2> DEFINE b == BufferFor(t, st)
             d == [severity_ |-> st.severity_, send_method_ |-> st.send_method_,
                   sink_ |-> st.sink_, out |-> st.out,
                   first_fatal_ |-> b = Exclusive, id |-> started + 1]
  <2>1. /\ data' = [data EXCEPT ![b] = d] /\ crash_reason' = crash_reason
        /\ fatal_msg_exclusive' = (fatal_msg_exclusive /\ ~UsesFatalBuffer(st))
        /\ d.first_fatal_ = (b = Exclusive)
    BY <1>4 DEF Construct
  <2>2. b = Exclusive => fatal_msg_exclusive /\ UsesFatalBuffer(st)
    BY ThreadsAssumption DEF BufferFor
  <2> HIDE DEF b, d
  <2>3. ASSUME NEW c \in Buffers, data'[c].first_fatal_
        PROVE  ~fatal_msg_exclusive'
    <3>1. CASE c = b
      BY <2>1, <2>2, <2>3, <3>1 DEF TypeOK
    <3>2. CASE c # b
      BY <2>1, <2>3, <3>2 DEF CrashInv, TypeOK
    <3> QED
      BY <3>1, <3>2
  <2>4. crash_reason # 0 => b # Exclusive
    BY <2>2 DEF CrashInv
  <2>5. crash_reason # 0 => ~fatal_msg_exclusive' /\ crash_reason = data'[Exclusive].id
    BY <1>0, <2>1, <2>4 DEF CrashInv, TypeOK
  <2> QED
    BY <2>1, <2>3, <2>5 DEF CrashInv
<1>5. CASE UNCHANGED <<data, crash_reason, fatal_msg_exclusive>>
  BY <1>5 DEF CrashInv
<1> QED
  BY <1>1, <1>2, <1>3, <1>4, <1>5, SinksAssumption
  DEF Next, Terminated, LogStatement, HelperRun, AddLogSink, RemoveLogSink,
      SetExitOnDFatal, vars

-----------------------------------------------------------------------------
\* The inductive invariant.
Inv == TypeOK /\ SinkIndexInBounds /\ MutexInv /\ FatalBuffers /\ CountInv /\ CrashInv

LEMMA InvInit == Init => Inv
<1> SUFFICES ASSUME Init PROVE Inv
  OBVIOUS
<1>1. TypeOK
  BY InitType
<1>2. SinkIndexInBounds
  BY DEF Init, SinkIndexInBounds, Sending, Waiting
<1>3. MutexInv
  BY ThreadsAssumption
  DEF Init, MutexInv, OwnerLogs, FatalWaiters, LogMutexHeld, Logging
<1>4. FatalBuffers /\ CountInv
  BY DEF Init, FatalBuffers, CountInv
<1>5. CrashInv
  BY DEF Init, CrashInv, NoData
<1> QED
  BY <1>1, <1>2, <1>3, <1>4, <1>5 DEF Inv

LEMMA InvNext == Inv /\ [Next]_vars => Inv'
  BY NextType, NextIndex, NextMutex, NextCount, NextCrash DEF Inv

LEMMA Invariance == Spec => []Inv
  BY InvInit, InvNext, PTL DEF Spec

\* The variables of the logging core keep their types.
THEOREM TypeCorrect == Spec => []TypeOK
<1>1. Inv => TypeOK
  BY DEF Inv
<1> QED
  BY <1>1, Invariance, PTL

\* LogToSinks and WaitForSinks never index sinks_ outside its bounds, whatever
\* AddLogSink and RemoveLogSink do at the same time.
THEOREM SinkLoopsInBounds == Spec => []SinkIndexInBounds
<1>1. Inv => SinkIndexInBounds
  BY DEF Inv
<1> QED
  BY <1>1, Invariance, PTL

\* Only the owner of log_mutex is between Flush's lock and its unlock, as long
\* as no FATAL message has come to the end of SendToLog.
THEOREM OneThreadLogs == Spec => []LogMutexHeld
<1>1. Inv => LogMutexHeld
  BY DEF Inv, MutexInv
<1> QED
  BY <1>1, Invariance, PTL

\* No thread waits for a sink with log_mutex in its hands, on any path.
THEOREM WaitersLetOthersLog == Spec => []WaitersHoldNoLogMutex
<1>1. Inv => WaitersHoldNoLogMutex
  BY DEF Inv, MutexInv, OwnerLogs, WaitersHoldNoLogMutex, Waiting, Logging
<1> QED
  BY <1>1, Invariance, PTL

\* num_messages_ counts every message until the first FATAL one.
THEOREM CountsAreExact == Spec => []NumMessagesExact
<1>1. Inv => NumMessagesExact
  BY DEF Inv, CountInv, NumMessagesExact
<1> QED
  BY <1>1, Invariance, PTL

\* The crash reason of the first FATAL message is never replaced.
THEOREM CrashReasonPreserved == Spec => CrashReasonKept
<1>1. Inv /\ [Next]_vars => [crash_reason # 0 => crash_reason' = crash_reason]_vars
  BY NextCrash DEF Inv
<1> QED
  BY <1>1, Invariance, PTL DEF Spec, CrashReasonKept
=============================================================================
