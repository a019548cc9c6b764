---------------------------- MODULE StderrProofs ----------------------------
(***************************************************************************)
(* Proofs about RawLog and Stderr for any threads, statements, setups and  *)
(* sizes: the crash reason, the failure function, the line of RAW_LOG,     *)
(* what truncations of stderr leave of the output, and what the stack      *)
(* traces show with each implementation of GetStackTrace.                  *)
(***************************************************************************)
EXTENDS Stderr, SequenceTheorems, FiniteSetTheorems, WellFoundedInduction, TLAPS

Macros == {"RAW_LOG", "LOG"}

\* What the steps below need to know of the types.
Shape ==
  /\ setup \in Setups
  /\ pc \in [Threads -> Labels]
  /\ statement \in [Threads -> Statement]
  /\ buffer = [t \in Threads |-> buffer[t]]
  /\ crash_reason = [m \in Macros |-> crash_reason[m]]
  /\ g_reason \in Macros \cup {"nullptr"}
  /\ {crashed, fatal_msg_exclusive} \subseteq BOOLEAN
  /\ executed \in Nat

\* Thread t is the one that records the reason of macro m.
Recording(t, m) ==
  pc[t] \in {"fill", "record", "publish", "restore"} /\ statement[t].macro = m

\* Has somebody been chosen to record it?
Chosen(m) == IF m = "RAW_LOG" THEN crashed ELSE ~fatal_msg_exclusive

\* One thread records the reason of a macro, and only a complete one is published.
ReasonInv ==
  /\ \A t \in Threads : pc[t] \in {"raw", "crash", "fill"} => statement[t].macro = "RAW_LOG"
  /\ \A t \in Threads : pc[t] \in {"record", "restore"} => statement[t].macro = "LOG"
  /\ \A m \in Macros : ~Chosen(m) => g_reason # m /\ \A t \in Threads : ~Recording(t, m)
  /\ \A t, u \in Threads, m \in Macros : Recording(t, m) /\ Recording(u, m) => t = u
  /\ \A t \in Threads : pc[t] \in {"fill", "record"} => g_reason # statement[t].macro
  /\ \A t \in Threads : pc[t] = "publish" => crash_reason[statement[t].macro].filled
  /\ g_reason # "nullptr" => crash_reason[g_reason].filled

\* The text of the first FATAL LogMessage ends in the line feed that Flush has put
\* there, until Flush takes it away.
TextInv ==
  /\ reason_text = [m \in Macros |-> reason_text[m]]
  /\ \A t \in Threads : pc[t] \in {"record", "publish", "restore"} /\ statement[t].macro = "LOG" =>
       reason_text["LOG"] # <<>> /\ reason_text["LOG"][Len(reason_text["LOG"])].kind = "newline"

Callable == {"logging_fail"} \cup Custom

\* DumpStackTraceAndExit is installed only where it has a function to call.
FailureInv ==
  /\ g_logging_fail_func \in Callable \cup {"DumpStackTraceAndExit"}
  /\ base_logging_fail_func \in Callable \cup {"nullptr"}
  /\ g_logging_fail_func = "DumpStackTraceAndExit" => base_logging_fail_func \in Callable
  /\ pc[Main] = "get" => g_logging_fail_func \in Callable
  /\ pc[Main] = "install" => base_logging_fail_func \in Callable
  /\ \A t \in Threads : pc[t] = "dump" => base_logging_fail_func \in Callable

\* The buffer of a thread that is about to write holds the line of its statement.
BufferInv ==
  \A t \in Threads : pc[t] = "raw" =>
    \E id \in Nat : buffer[t] = Line(statement[t], id).chars

IInv == Shape /\ ReasonInv /\ TextInv /\ FailureInv /\ BufferInv

----------------------------------------------------------------------------
(* The initial states *)

LEMMA SetupFacts ==
  ASSUME setup \in Setups
  PROVE  /\ setup \in Setup
         /\ \A st \in setup.Statements : st \in Statement
BY RawLogAssumption DEF Setup

LEMMA NoStatementType == NoStatement \in Statement
BY DEF NoStatement, Statement

LEMMA InitInv == Init => IInv
<1> SUFFICES ASSUME Init PROVE IInv
  OBVIOUS
<1> USE DEF Init, RawInit
<1>1. Shape
  BY NoStatementType DEF Shape, Labels, Macros
<1>2. ReasonInv
  BY DEF ReasonInv, Recording, Chosen, Macros
<1>3. FailureInv
  BY RawLogAssumption DEF FailureInv, Callable
<1>4. BufferInv
  BY DEF BufferInv
<1>5. TextInv
  BY DEF TextInv, Macros
<1> QED
  BY <1>1, <1>2, <1>3, <1>4, <1>5 DEF IInv

----------------------------------------------------------------------------
(* Shape is preserved by each step.                                            *)

\* Truncations leave everything alone that the invariant is about.
LEMMA TruncateKeeps ==
  ASSUME IInv, Truncate
  PROVE  IInv'
<1>1. UNCHANGED <<setup, thread, failure, reason, bounds>>
  BY DEF Truncate, Open, OpenFails, Fstat, FstatFails, LogTruncating, Pread, Pwrite,
         PwriteShort, CopyFails, Ftruncate, FtruncateFails, Aside, InFile
<1>2. Shape'
  BY <1>1 DEF IInv, Shape, thread, failure, reason, bounds
<1>3. ReasonInv'
  BY <1>1 DEF IInv, ReasonInv, Recording, Chosen, thread, failure, reason, bounds
<1>4. FailureInv'
  BY <1>1 DEF IInv, FailureInv, thread, failure, reason, bounds
<1>5. BufferInv'
  <2>1. UNCHANGED <<pc, buffer, statement>>
    BY <1>1 DEF thread
  <2> QED
    BY <2>1 DEF IInv, BufferInv, Line, Prefixed
<1>6. TextInv'
  BY <1>1 DEF IInv, TextInv, thread, reason
<1> QED
  BY <1>2, <1>3, <1>4, <1>5, <1>6 DEF IInv

LEMMA StepShape ==
  ASSUME Shape, RawNext
  PROVE  Shape'
<1> USE DEF reason, failure, bounds, thread, output, Goto
<1>l. {"idle", "raw", "crash", "fill", "record", "publish", "restore", "fail", "dump", "reset",
       "get", "install"} \subseteq Labels
  BY DEF Labels
<1>m. Main \in Threads
  BY RawLogAssumption
<1>1. ASSUME NEW t \in Threads, NEW st \in setup.Statements, RawLog(t, st) PROVE Shape'
  <2>1. st \in Statement
    BY SetupFacts DEF Shape
  <2> QED
    BY <1>1, <1>l, <2>1, SMTT(20) DEF RawLog, Shape
<1>2. ASSUME NEW t \in Threads, NEW st \in setup.Statements, LogFatal(t, st) PROVE Shape'
  <2>1. st \in Statement
    BY SetupFacts DEF Shape
  <2>2. pc' \in [Threads -> Labels]
    BY <1>2, <1>l DEF LogFatal, Flush, Shape
  <2>3. statement' \in [Threads -> Statement] /\ executed' \in Nat
    BY <1>2, <2>1 DEF LogFatal, Flush, Shape
  <2> QED
    BY <1>2, <2>2, <2>3 DEF LogFatal, Flush, Shape
<1>3. ASSUME NEW t \in Threads, CheckFails(t), executed' = executed, setup' = setup PROVE Shape'
  <2>1. [macro |-> "LOG", severity |-> GLOG_FATAL, prefix |-> 0, message |-> 0] \in Statement
    BY RawLogAssumption DEF Statement
  <2> QED
    BY <1>3, <1>l, <2>1 DEF CheckFails, Flush, Shape
<1>4. ASSUME NEW t \in Threads, Write(t) \/ WriteFatal(t) \/ Crash(t) PROVE Shape'
  <2>1. CASE Write(t)
    BY <1>l, <2>1, NoStatementType DEF Write, Shape
  <2>2. CASE WriteFatal(t)
    BY <1>l, <2>2 DEF WriteFatal, Shape
  <2>3. CASE Crash(t)
    BY <1>l, <2>3 DEF Crash, Shape
  <2> QED
    BY <1>4, <2>1, <2>2, <2>3
<1>5. ASSUME NEW t \in Threads, FillRaw(t) \/ RecordCrashReason(t) PROVE Shape'
  BY <1>5, <1>l DEF FillRaw, RecordCrashReason, Fill, Shape, Macros
<1>6. ASSUME NEW t \in Threads, SetCrashReason(t) \/ RestoreText(t) PROVE Shape'
  <2>1. statement[t].macro \in Macros
    BY DEF Shape, Statement, Macros
  <2>2. CASE SetCrashReason(t)
    BY <1>l, <2>1, <2>2 DEF SetCrashReason, Shape
  <2>3. CASE RestoreText(t)
    BY <1>l, <2>3 DEF RestoreText, Shape
  <2> QED
    BY <1>6, <2>2, <2>3
<1>7. ASSUME NEW t \in Threads, Fail(t) \/ DumpPC(t) \/ CallBase(t) PROVE Shape'
  BY <1>7, <1>l DEF Fail, DumpPC, CallBase, Throw, Exit, Shape
<1>8. CASE ResetFailureFunction \/ GetInstalledFailureFunction \/ InstallDump
  BY <1>8, <1>l, <1>m DEF ResetFailureFunction, GetInstalledFailureFunction, InstallDump, Shape
<1>9. CASE InitGoogleLogging
  BY <1>9, <1>l, <1>m, <1>3 DEF InitGoogleLogging, Called, CheckFails, Flush, Shape
<1>10. CASE ShutdownGoogleLogging
  BY <1>10, <1>m, <1>3 DEF ShutdownGoogleLogging, Called, CheckFails, Flush, Shape
<1>11. ASSUME NEW f, InstallFailureFunction(f) PROVE Shape'
  BY <1>11 DEF InstallFailureFunction, Called, Shape
<1> QED
  BY <1>1, <1>2, <1>4, <1>5, <1>6, <1>7, <1>8, <1>9, <1>10, <1>11 DEF RawNext, Step

----------------------------------------------------------------------------
(* The crash reason                                                            *)

\* A thread that goes on to a place where it records nothing, or stays outside.
LEMMA ReasonKept ==
  ASSUME Shape, ReasonInv, NEW t \in Threads,
         pc' \in [Threads -> Labels], \A u \in Threads \ {t} : pc'[u] = pc[u],
         pc'[t] \notin {"fill", "record", "publish", "restore"},
         \A u \in Threads \ {t} : statement'[u] = statement[u],
         pc'[t] \in {"raw", "crash"} => statement'[t].macro = "RAW_LOG",
         UNCHANGED <<crash_reason, g_reason>>,
         crashed => crashed', fatal_msg_exclusive' => fatal_msg_exclusive
  PROVE  ReasonInv'
<1>1. \A u \in Threads, m \in Macros : Recording(u, m)' => u # t /\ Recording(u, m)
  BY DEF Recording
<1>2. \A m \in Macros : Chosen(m) => Chosen(m)'
  BY DEF Chosen, Macros, Shape
<1> QED
  BY <1>1, <1>2 DEF ReasonInv

\* Thread t is chosen to record the reason of a macro.
LEMMA ChoiceKeeps ==
  ASSUME Shape, ReasonInv, NEW t \in Threads, NEW m \in Macros, ~Chosen(m), Chosen(m)',
         \A k \in Macros \ {m} : Chosen(k)' = Chosen(k),
         pc' \in [Threads -> Labels], \A u \in Threads \ {t} : pc'[u] = pc[u],
         pc'[t] = IF m = "RAW_LOG" THEN "fill" ELSE "record",
         \A u \in Threads \ {t} : statement'[u] = statement[u],
         statement'[t].macro = m,
         UNCHANGED <<crash_reason, g_reason>>
  PROVE  ReasonInv'
<1>1. \A u \in Threads, k \in Macros : Recording(u, k)' => (u = t /\ k = m) \/ (u # t /\ Recording(u, k))
  BY DEF Recording
<1>2. \A u \in Threads : ~Recording(u, m)
  BY DEF ReasonInv
<1>3. g_reason # m
  BY DEF ReasonInv
<1>4. \A u, v \in Threads, k \in Macros : Recording(u, k)' /\ Recording(v, k)' => u = v
  BY <1>1, <1>2 DEF ReasonInv
<1>5. \A k \in Macros : ~Chosen(k)' => g_reason # k /\ \A u \in Threads : ~Recording(u, k)'
  BY <1>1 DEF ReasonInv
<1> QED
  BY <1>3, <1>4, <1>5 DEF ReasonInv, Macros

LEMMA StepReason ==
  ASSUME Shape, ReasonInv, RawNext
  PROVE  ReasonInv'
<1>s. Shape'
  BY StepShape
<1>m. Main \in Threads
  BY RawLogAssumption
<1> USE DEF reason, failure, bounds, thread, output, Goto
<1>1. ASSUME NEW t \in Threads, NEW st, RawLog(t, st) PROVE ReasonInv'
  BY <1>1, <1>s, ReasonKept DEF RawLog, Shape
<1>2. ASSUME NEW t \in Threads,
             Write(t) \/ WriteFatal(t) \/ RestoreText(t) \/ Fail(t) \/ DumpPC(t) \/ CallBase(t)
      PROVE  ReasonInv'
  <2>1. /\ pc'[t] \in {"idle", "crash", "fail", "dump"}
        /\ pc'[t] = "crash" => pc[t] = "raw"
        /\ \A u \in Threads \ {t} : pc'[u] = pc[u] /\ statement'[u] = statement[u]
        /\ pc'[t] = "crash" => statement'[t] = statement[t]
        /\ UNCHANGED <<crash_reason, g_reason, crashed, fatal_msg_exclusive>>
    BY <1>2 DEF Write, WriteFatal, RestoreText, Fail, DumpPC, CallBase, Throw, Exit, Shape
  <2> QED
    BY <1>s, <2>1, ReasonKept DEF Shape, ReasonInv
<1>3. ASSUME NEW t \in Threads, Crash(t) PROVE ReasonInv'
  <2>1. CASE crashed
    BY <1>3, <1>s, <2>1, ReasonKept DEF Crash, Shape
  <2>2. CASE ~crashed
    <3>1. ~Chosen("RAW_LOG") /\ Chosen("RAW_LOG")' /\ Chosen("LOG")' = Chosen("LOG")
      BY <1>3, <2>2 DEF Crash, Chosen
    <3>2. statement[t].macro = "RAW_LOG"
      BY <1>3 DEF Crash, ReasonInv
    <3> QED
      BY <1>3, <1>s, <2>2, <3>1, <3>2, ChoiceKeeps DEF Crash, Shape, Macros
  <2> QED
    BY <2>1, <2>2
<1>4. ASSUME NEW t \in Threads, FillRaw(t) \/ RecordCrashReason(t) PROVE ReasonInv'
  <2> DEFINE m == statement[t].macro
  <2>1. /\ pc[t] \in {"fill", "record"} /\ m = IF pc[t] = "fill" THEN "RAW_LOG" ELSE "LOG"
        /\ pc' = [pc EXCEPT ![t] = "publish"]
        /\ UNCHANGED <<statement, g_reason, crashed, fatal_msg_exclusive>>
        /\ crash_reason'[m].filled
        /\ \A k \in Macros \ {m} : crash_reason'[k] = crash_reason[k]
    BY <1>4 DEF FillRaw, RecordCrashReason, Fill, ReasonInv, Shape, Macros
  <2>2. \A u \in Threads, k \in Macros : Recording(u, k)' <=> Recording(u, k)
    BY <2>1 DEF Recording, Shape
  <2>3. \A k \in Macros : Chosen(k)' = Chosen(k)
    BY <2>1 DEF Chosen
  <2>4. g_reason # m
    BY <2>1 DEF ReasonInv
  <2>5. \A u \in Threads : pc'[u] = IF u = t THEN "publish" ELSE pc[u]
    BY <2>1 DEF Shape
  <2>6. \A u \in Threads : statement[u].macro \in Macros
    BY DEF Shape, Statement, Macros
  <2> QED
    BY <2>1, <2>2, <2>3, <2>4, <2>5, <2>6 DEF ReasonInv, Shape
<1>5. ASSUME NEW t \in Threads, NEW st, LogFatal(t, st) \/ CheckFails(t) PROVE ReasonInv'
  <2>1. /\ statement'[t].macro = "LOG" /\ fatal_msg_exclusive' = FALSE
        /\ \A u \in Threads \ {t} : pc'[u] = pc[u] /\ statement'[u] = statement[u]
        /\ pc'[t] = IF fatal_msg_exclusive THEN "record" ELSE "fail"
        /\ UNCHANGED <<crash_reason, g_reason, crashed>>
    BY <1>5 DEF LogFatal, CheckFails, Flush, Shape
  <2>2. CASE fatal_msg_exclusive
    <3>1. ~Chosen("LOG") /\ Chosen("LOG")' /\ Chosen("RAW_LOG")' = Chosen("RAW_LOG")
      BY <2>1, <2>2 DEF Chosen
    <3> QED
      BY <1>s, <2>1, <2>2, <3>1, ChoiceKeeps DEF Shape, Macros
  <2>3. CASE ~fatal_msg_exclusive
    BY <1>s, <2>1, <2>3, ReasonKept DEF Shape
  <2> QED
    BY <2>2, <2>3
<1>6. ASSUME NEW t \in Threads, SetCrashReason(t) PROVE ReasonInv'
  <2> DEFINE m == statement[t].macro
  <2>1. /\ pc[t] = "publish"
        /\ pc' = [pc EXCEPT ![t] = IF m = "LOG" THEN "restore" ELSE "fail"]
        /\ g_reason' = IF g_reason = "nullptr" THEN m ELSE g_reason
        /\ UNCHANGED <<statement, crash_reason, crashed, fatal_msg_exclusive>>
    BY <1>6 DEF SetCrashReason
  <2>2. m \in Macros
    BY DEF Shape, Statement, Macros
  <2>3. \A u \in Threads, k \in Macros : Recording(u, k)' => Recording(u, k)
    BY <2>1 DEF Recording, Shape
  <2>4. Recording(t, m)
    BY <2>1 DEF Recording
  <2>5. \A k \in Macros : Chosen(k)' = Chosen(k)
    BY <2>1 DEF Chosen
  <2>6. \A u \in Threads \ {t} : pc[u] \in {"fill", "record"} => statement[u].macro # m
    BY <2>2, <2>4 DEF ReasonInv, Recording
  <2>7. \A u \in Threads :
          pc'[u] = IF u = t THEN (IF m = "LOG" THEN "restore" ELSE "fail") ELSE pc[u]
    BY <2>1 DEF Shape
  <2>8. Chosen(m) /\ crash_reason[m].filled
    BY <2>1, <2>2, <2>4 DEF ReasonInv
  <2>9. \A k \in Macros : ~Chosen(k)' => g_reason' # k /\ \A u \in Threads : ~Recording(u, k)'
    BY <2>1, <2>3, <2>5, <2>8 DEF ReasonInv
  <2>10. \A u \in Threads : pc'[u] \in {"fill", "record"} => g_reason' # statement[u].macro
    BY <2>1, <2>6, <2>7 DEF ReasonInv
  <2>11. g_reason' # "nullptr" => crash_reason[g_reason'].filled
    BY <2>1, <2>8 DEF ReasonInv
  <2> QED
    BY <2>1, <2>3, <2>7, <2>9, <2>10, <2>11 DEF ReasonInv
<1>7. CASE \/ ResetFailureFunction \/ GetInstalledFailureFunction \/ InstallDump
           \/ InitGoogleLogging /\ ~g_program_invocation_short_name
  BY <1>7, <1>s, <1>m, ReasonKept
     DEF ResetFailureFunction, GetInstalledFailureFunction, InstallDump, InitGoogleLogging, Shape
<1>8. ASSUME NEW f,
             \/ InstallFailureFunction(f)
             \/ ShutdownGoogleLogging /\ g_program_invocation_short_name
      PROVE  ReasonInv'
  <2>1. UNCHANGED <<pc, statement, crash_reason, g_reason, crashed, fatal_msg_exclusive>>
    BY <1>8 DEF InstallFailureFunction, ShutdownGoogleLogging
  <2> QED
    BY <2>1 DEF ReasonInv, Recording, Chosen
<1>9. CASE \/ InitGoogleLogging /\ g_program_invocation_short_name
           \/ ShutdownGoogleLogging /\ ~g_program_invocation_short_name
  BY <1>9, <1>m, <1>5 DEF InitGoogleLogging, ShutdownGoogleLogging
<1> QED
  BY <1>1, <1>2, <1>3, <1>4, <1>5, <1>6, <1>7, <1>8, <1>9 DEF RawNext, Step

----------------------------------------------------------------------------
(* The text of the exclusive buffer                                            *)

LEMMA TextType ==
  ASSUME NEW kind \in {"prefix", "message", "newline", "toolong"}, NEW id \in Nat, NEW n \in Int
  PROVE  /\ Text(kind, id, n) \in Seq(Char)
         /\ n >= 0 => Len(Text(kind, id, n)) = n
<1> DEFINE k == IF n < 0 THEN 0 ELSE n
<1>1. 1 .. n = 1 .. k /\ k \in Nat
  OBVIOUS
<1>2. \A i \in 1 .. k : [kind |-> kind, id |-> id, at |-> i] \in Char
  BY DEF Char
<1>3. Text(kind, id, n) = [i \in 1 .. k |-> [kind |-> kind, id |-> id, at |-> i]]
  BY <1>1 DEF Text
<1> HIDE DEF k
<1>4. Text(kind, id, n) \in Seq(Char) /\ Len(Text(kind, id, n)) = k
  BY <1>1, <1>2, <1>3
<1> QED
  BY <1>1, <1>3, <1>4 DEF k

\* A sequence that is the concatenation of a and b.
LEMMA Concatenated ==
  ASSUME NEW S, NEW a \in Seq(S), NEW b \in Seq(S)
  PROVE  a \o b \in Seq(S) /\ Len(a \o b) = Len(a) + Len(b)
OBVIOUS

LEMMA InFront ==
  ASSUME NEW S, NEW a \in Seq(S), NEW b \in Seq(S), NEW s, s = a \o b,
         NEW n, n = Len(a), NEW i \in 1 .. n
  PROVE  s[i] = a[i]
OBVIOUS

LEMMA Behind ==
  ASSUME NEW S, NEW a \in Seq(S), NEW b \in Seq(S), NEW s, s = a \o b,
         NEW n, n = Len(a), NEW i \in 1 .. Len(b)
  PROVE  s[n + i] = b[i]
OBVIOUS

\* A text to which a line feed has been added.
LEMMA LineFeedAtEnd ==
  ASSUME NEW id \in Nat, NEW n \in Int, NEW s,
         s = Text("message", id, n) \o Text("newline", id, 1)
  PROVE  s \in Seq(Char) /\ s # <<>> /\ s[Len(s)].kind = "newline"
<1> DEFINE a == Text("message", id, n)
           b == Text("newline", id, 1)
<1>1. a \in Seq(Char)
  BY TextType
<1>2. b \in Seq(Char)
  BY TextType
<1>l. Len(b) = 1
  <2>1. 1 \in Int /\ 1 >= 0
    OBVIOUS
  <2> QED
    BY <2>1, TextType
<1>3. b[1].kind = "newline"
  BY DEF Text
<1> HIDE DEF a, b
<1>4. PICK k \in Nat : k = Len(a)
  BY <1>1
<1>5. PICK i \in 1 .. Len(b) : i = 1
  BY <1>l
<1>6. PICK w : w = a \o b
  OBVIOUS
<1>7. w \in Seq(Char) /\ Len(w) = k + Len(b)
  BY <1>1, <1>2, <1>4, <1>6, Concatenated
<1>8. w[k + i] = b[i]
  BY <1>1, <1>2, <1>4, <1>5, <1>6, Behind
<1>9. w[Len(w)].kind = "newline" /\ w # <<>>
  BY <1>l, <1>3, <1>5, <1>7, <1>8
<1> QED
  BY <1>6, <1>7, <1>9 DEF a, b

\* Flush fills it once, before anybody can record it, and one thread takes its line
\* feed away.
LEMMA StepText ==
  ASSUME Shape, ReasonInv, TextInv, RawNext
  PROVE  TextInv'
<1>m. Main \in Threads
  BY RawLogAssumption
<1> USE DEF reason, failure, bounds, thread, output, Goto
<1> DEFINE Logging(t) == pc[t] \in {"record", "publish", "restore"} /\ statement[t].macro = "LOG"
           Ends(s) == s # <<>> /\ s[Len(s)].kind = "newline"
<1>1. ASSUME NEW t \in Threads,
             \A u \in Threads \ {t} : pc'[u] = pc[u] /\ statement'[u] = statement[u],
             Logging(t)' => Logging(t), UNCHANGED reason_text
      PROVE  TextInv'
  BY <1>1 DEF TextInv
<1>2. ASSUME NEW t \in Threads, NEW st,
             \/ RawLog(t, st) \/ Write(t) \/ WriteFatal(t) \/ Crash(t)
             \/ Fail(t) \/ DumpPC(t) \/ CallBase(t)
      PROVE  TextInv'
  <2>1. /\ \A u \in Threads \ {t} : pc'[u] = pc[u] /\ statement'[u] = statement[u]
        /\ pc'[t] \notin {"record", "publish", "restore"} /\ UNCHANGED reason_text
    BY <1>2 DEF RawLog, Write, WriteFatal, Crash, Fail, DumpPC, CallBase, Throw, Exit, Shape
  <2> QED
    BY <1>1, <2>1
<1>3. ASSUME NEW t \in Threads, RecordCrashReason(t) \/ SetCrashReason(t) PROVE TextInv'
  <2>1. /\ \A u \in Threads \ {t} : pc'[u] = pc[u] /\ statement'[u] = statement[u]
        /\ pc[t] \in {"record", "publish"} /\ UNCHANGED <<statement, reason_text>>
    BY <1>3 DEF RecordCrashReason, SetCrashReason, Shape
  <2> QED
    BY <1>1, <2>1
<1>4. ASSUME NEW t \in Threads, FillRaw(t) PROVE TextInv'
  <2>1. /\ pc[t] = "fill" /\ \A u \in Threads \ {t} : pc'[u] = pc[u]
        /\ UNCHANGED statement /\ reason_text' = [reason_text EXCEPT !["RAW_LOG"] = message[t]]
    BY <1>4 DEF FillRaw, Shape
  <2>2. statement[t].macro = "RAW_LOG"
    BY <2>1 DEF ReasonInv
  <2>3. reason_text'["LOG"] = reason_text["LOG"] /\ reason_text' = [k \in Macros |-> reason_text'[k]]
    BY <2>1 DEF TextInv, Macros
  <2> QED
    BY <2>1, <2>2, <2>3 DEF TextInv
<1>5. ASSUME NEW t \in Threads, RestoreText(t) PROVE TextInv'
  <2>1. /\ pc[t] = "restore" /\ pc'[t] = "fail" /\ \A u \in Threads \ {t} : pc'[u] = pc[u]
        /\ UNCHANGED statement
        /\ reason_text' = [reason_text EXCEPT !["LOG"] = reason_text'["LOG"]]
    BY <1>5 DEF RestoreText, Shape, TextInv, Macros
  <2>2. Recording(t, "LOG")
    BY <2>1 DEF Recording, ReasonInv
  <2>3. \A u \in Threads : ~Logging(u)'
    BY <2>1, <2>2 DEF Recording, ReasonInv, Macros
  <2>4. reason_text' = [k \in Macros |-> reason_text'[k]]
    BY <2>1 DEF TextInv, Macros
  <2> QED
    BY <2>3, <2>4 DEF TextInv
<1>6. ASSUME NEW t \in Threads, NEW st, Flush(t, st), st.macro = "LOG", st.message \in Int
      PROVE  TextInv'
  <2>1. \A u \in Threads \ {t} : pc'[u] = pc[u] /\ statement'[u] = statement[u]
    BY <1>6 DEF Flush, Shape
  <2>2. CASE ~fatal_msg_exclusive
    <3>1. pc'[t] = "fail" /\ UNCHANGED reason_text
      BY <1>6, <2>2 DEF Flush, Shape
    <3> QED
      BY <1>1, <2>1, <3>1
  <2>3. CASE fatal_msg_exclusive
    <3>1. PICK s : s = Text("message", executed + 1, st.message) \o Text("newline", executed + 1, 1)
      OBVIOUS
    <3>2. reason_text' = [reason_text EXCEPT !["LOG"] = s]
      BY <1>6, <2>3, <3>1 DEF Flush
    <3>3. Ends(s)
      <4>1. executed + 1 \in Nat
        BY DEF Shape
      <4> QED
        BY <1>6, <3>1, <4>1, LineFeedAtEnd
    <3>4. reason_text'["LOG"] = s /\ reason_text' = [k \in Macros |-> reason_text'[k]]
      BY <3>2 DEF TextInv, Macros
    <3> QED
      BY <3>3, <3>4 DEF TextInv
  <2> QED
    BY <2>2, <2>3
<1>7. CASE ResetFailureFunction \/ GetInstalledFailureFunction \/ InstallDump
  BY <1>1, <1>7, <1>m
     DEF ResetFailureFunction, GetInstalledFailureFunction, InstallDump, Shape
<1>8. CASE InitGoogleLogging \/ ShutdownGoogleLogging
  <2>1. CASE CheckFails(Main)
    BY <1>6, <1>m, <2>1 DEF CheckFails
  <2>2. CASE ~CheckFails(Main)
    <3>1. /\ \A u \in Threads \ {Main} : pc'[u] = pc[u]
          /\ pc'[Main] \in {"reset", "idle"} /\ UNCHANGED <<statement, reason_text>>
      BY <1>8, <1>m, <2>2 DEF InitGoogleLogging, ShutdownGoogleLogging, Shape
    <3> QED
      BY <1>1, <1>m, <3>1
  <2> QED
    BY <2>1, <2>2
<1>9. ASSUME NEW f, InstallFailureFunction(f) PROVE TextInv'
  BY <1>9 DEF InstallFailureFunction, TextInv
<1>10. ASSUME NEW t \in Threads, NEW st \in setup.Statements, LogFatal(t, st) PROVE TextInv'
  <2>1. st.message \in Int
    BY SetupFacts DEF Shape, Statement
  <2> QED
    BY <1>6, <1>10, <2>1 DEF LogFatal
<1> QED
  BY <1>2, <1>3, <1>4, <1>5, <1>7, <1>8, <1>9, <1>10 DEF RawNext, Step

----------------------------------------------------------------------------
(* The failure function                                                        *)

LEMMA StepFailure ==
  ASSUME Shape, FailureInv, RawNext
  PROVE  FailureInv'
<1>m. Main \in Threads /\ "DumpStackTraceAndExit" \notin Callable /\ "nullptr" \notin Callable
  BY RawLogAssumption DEF Callable
<1> USE DEF reason, failure, bounds, thread, output, Goto
<1>1. ASSUME NEW t \in Threads, pc' = [pc EXCEPT ![t] = pc'[t]],
             pc'[t] \notin {"get", "install"},
             pc'[t] = "dump" => pc[t] = "dump" \/ g_logging_fail_func = "DumpStackTraceAndExit",
             UNCHANGED <<g_logging_fail_func, base_logging_fail_func>>
      PROVE  FailureInv'
  <2>1. \A u \in Threads \ {t} : pc'[u] = pc[u]
    BY <1>1 DEF Shape
  <2> QED
    BY <1>1, <1>m, <2>1 DEF FailureInv
<1>2. ASSUME NEW t \in Threads, NEW st,
             \/ RawLog(t, st) \/ LogFatal(t, st) \/ CheckFails(t) \/ Write(t) \/ WriteFatal(t)
             \/ Crash(t) \/ FillRaw(t) \/ RecordCrashReason(t) \/ SetCrashReason(t)
             \/ RestoreText(t)
      PROVE  FailureInv'
  <2>1. /\ pc' = [pc EXCEPT ![t] = pc'[t]]
        /\ pc'[t] \in {"raw", "record", "fail", "idle", "crash", "fill", "publish", "restore"}
        /\ UNCHANGED <<g_logging_fail_func, base_logging_fail_func>>
    BY <1>2 DEF RawLog, LogFatal, CheckFails, Flush, Write, WriteFatal, Crash, FillRaw,
                RecordCrashReason, SetCrashReason, RestoreText, Shape
  <2> QED
    BY <1>1, <2>1
<1>3. ASSUME NEW t \in Threads, Fail(t) \/ DumpPC(t) \/ CallBase(t) PROVE FailureInv'
  <2>1. /\ pc' = [pc EXCEPT ![t] = pc'[t]] /\ pc'[t] \in {"idle", "dump"}
        /\ pc'[t] = "dump" => pc[t] = "dump" \/ g_logging_fail_func = "DumpStackTraceAndExit"
        /\ UNCHANGED <<g_logging_fail_func, base_logging_fail_func>>
    BY <1>3 DEF Fail, DumpPC, CallBase, Throw, Exit, Shape
  <2> QED
    BY <1>1, <2>1
<1>4. CASE ResetFailureFunction \/ GetInstalledFailureFunction \/ InstallDump
  <2>1. \A t \in Threads \ {Main} : pc'[t] = pc[t]
    BY <1>4 DEF ResetFailureFunction, GetInstalledFailureFunction, InstallDump, Shape
  <2>2. CASE ResetFailureFunction
    BY <1>m, <2>1, <2>2 DEF ResetFailureFunction, FailureInv, Shape, Callable
  <2>3. CASE GetInstalledFailureFunction
    BY <1>m, <2>1, <2>3 DEF GetInstalledFailureFunction, FailureInv, Shape
  <2>4. CASE InstallDump
    BY <1>m, <2>1, <2>4 DEF InstallDump, FailureInv, Shape
  <2> QED
    BY <1>4, <2>2, <2>3, <2>4
<1>5. CASE InitGoogleLogging \/ ShutdownGoogleLogging
  <2>1. CASE CheckFails(Main)
    BY <1>2, <1>m, <2>1
  <2>2. CASE ~CheckFails(Main)
    <3>1. /\ pc' = [pc EXCEPT ![Main] = pc'[Main]]
          /\ pc'[Main] \in {"reset", "idle"}
          /\ UNCHANGED <<g_logging_fail_func, base_logging_fail_func>>
      BY <1>5, <1>m, <2>2 DEF InitGoogleLogging, ShutdownGoogleLogging, Shape
    <3> QED
      BY <1>1, <1>m, <3>1
  <2> QED
    BY <2>1, <2>2
<1>6. ASSUME NEW f \in Callable, InstallFailureFunction(f) PROVE FailureInv'
  BY <1>m, <1>6 DEF InstallFailureFunction, FailureInv
<1> QED
  BY <1>2, <1>3, <1>4, <1>5, <1>6 DEF RawNext, Step, Callable

----------------------------------------------------------------------------
(* The buffer                                                                  *)

LEMMA StepBuffer ==
  ASSUME Shape, BufferInv, RawNext
  PROVE  BufferInv'
<1>m. Main \in Threads
  BY RawLogAssumption
<1> USE DEF reason, failure, bounds, thread, output, Goto
<1>1. ASSUME NEW t \in Threads, NEW st, RawLog(t, st) PROVE BufferInv'
  <2>1. /\ pc'[t] = "raw" /\ statement'[t] = st /\ buffer'[t] = Line(st, executed + 1).chars
        /\ \A u \in Threads \ {t} :
             pc'[u] = pc[u] /\ statement'[u] = statement[u] /\ buffer'[u] = buffer[u]
    BY <1>1 DEF RawLog, Shape
  <2>2. executed + 1 \in Nat
    BY DEF Shape
  <2> QED
    BY <2>1, <2>2 DEF BufferInv
<1>2. ASSUME NEW t \in Threads, pc'[t] # "raw",
             \A u \in Threads \ {t} :
               pc'[u] = pc[u] /\ statement'[u] = statement[u] /\ buffer'[u] = buffer[u]
      PROVE  BufferInv'
  BY <1>2 DEF BufferInv
<1>3. ASSUME NEW t \in Threads, NEW st,
             \/ LogFatal(t, st) \/ CheckFails(t) \/ Write(t) \/ WriteFatal(t) \/ Crash(t)
             \/ FillRaw(t) \/ RecordCrashReason(t) \/ SetCrashReason(t) \/ RestoreText(t)
             \/ Fail(t) \/ DumpPC(t) \/ CallBase(t)
      PROVE  BufferInv'
  <2>1. /\ pc'[t] # "raw"
        /\ \A u \in Threads \ {t} :
             pc'[u] = pc[u] /\ statement'[u] = statement[u] /\ buffer'[u] = buffer[u]
    BY <1>3 DEF LogFatal, CheckFails, Flush, Write, WriteFatal, Crash, FillRaw,
                RecordCrashReason, SetCrashReason, RestoreText, Fail, DumpPC, CallBase, Throw, Exit,
                Shape
  <2> QED
    BY <1>2, <2>1
<1>4. CASE ResetFailureFunction \/ GetInstalledFailureFunction \/ InstallDump
  BY <1>2, <1>4, <1>m DEF ResetFailureFunction, GetInstalledFailureFunction, InstallDump, Shape
<1>5. CASE InitGoogleLogging \/ ShutdownGoogleLogging
  <2>1. CASE CheckFails(Main)
    BY <1>3, <1>m, <2>1
  <2>2. CASE ~CheckFails(Main)
    BY <1>2, <1>5, <1>m, <2>2 DEF InitGoogleLogging, ShutdownGoogleLogging, Shape
  <2> QED
    BY <2>1, <2>2
<1>6. ASSUME NEW f, InstallFailureFunction(f) PROVE BufferInv'
  BY <1>6 DEF InstallFailureFunction, BufferInv
<1> QED
  BY <1>1, <1>3, <1>4, <1>5, <1>6 DEF RawNext, Step

----------------------------------------------------------------------------
LEMMA NextInv == IInv /\ [Next]_vars => IInv'
<1> SUFFICES ASSUME IInv, [Next]_vars PROVE IInv'
  OBVIOUS
<1>1. CASE RawNext
  BY <1>1, StepShape, StepReason, StepText, StepFailure, StepBuffer DEF IInv
<1>2. CASE Truncate
  BY <1>2, TruncateKeeps
<1>3. CASE UNCHANGED vars
  BY <1>3 DEF vars, rawVars, thread, failure, reason, bounds, IInv, Shape, ReasonInv, Recording,
              Chosen, TextInv, FailureInv, BufferInv
<1> QED
  BY <1>1, <1>2, <1>3 DEF Next

\* The invariant, from which the theorems follow.
LEMMA Invariant == Spec => []IInv
BY InitInv, NextInv, PTL DEF Spec

----------------------------------------------------------------------------
(* The theorems                                                                *)

\* What a step may do to the reason that has been published.
Stays ==
  /\ g_reason' = g_reason
  /\ crash_reason'[g_reason] = crash_reason[g_reason]
  /\ \/ reason_text'[g_reason] = reason_text[g_reason]
     \/ g_reason = "LOG" /\ LosesLineFeed(reason_text["LOG"], reason_text'["LOG"])

LEMMA ReasonStays ==
  ASSUME IInv, Next, g_reason # "nullptr"
  PROVE  Stays
<1> USE DEF reason, failure, bounds, thread, output, Goto
<1>0. ASSUME UNCHANGED <<g_reason, crash_reason, reason_text>> PROVE Stays
  BY <1>0 DEF Stays
<1>1. ASSUME NEW t \in Threads, FillRaw(t) \/ RecordCrashReason(t) PROVE Stays
  <2>1. /\ pc[t] \in {"fill", "record"}
        /\ statement[t].macro = IF pc[t] = "fill" THEN "RAW_LOG" ELSE "LOG"
    BY <1>1 DEF FillRaw, RecordCrashReason, IInv, ReasonInv
  <2>2. g_reason # statement[t].macro
    BY <2>1 DEF IInv, ReasonInv
  <2>3. g_reason' = g_reason /\ crash_reason'[g_reason] = crash_reason[g_reason]
    BY <1>1, <2>1, <2>2 DEF FillRaw, RecordCrashReason, Fill, IInv, Shape, Macros
  <2>4. reason_text'[g_reason] = reason_text[g_reason]
    BY <1>1, <2>1, <2>2 DEF FillRaw, RecordCrashReason, IInv, TextInv, Shape, Macros
  <2> QED
    BY <2>3, <2>4 DEF Stays
<1>2. ASSUME NEW t \in Threads, SetCrashReason(t) PROVE Stays
  BY <1>0, <1>2 DEF SetCrashReason
<1>3. ASSUME NEW t \in Threads, NEW st,
             \/ RawLog(t, st) \/ Write(t) \/ WriteFatal(t)
             \/ Crash(t) \/ Fail(t) \/ DumpPC(t) \/ CallBase(t)
      PROVE  Stays
  BY <1>0, <1>3 DEF RawLog, Write, WriteFatal, Crash, Fail, DumpPC, CallBase
<1>4. ASSUME NEW t \in Threads, NEW st, Flush(t, st), UNCHANGED <<g_reason, crash_reason>>
      PROVE  Stays
  <2>1. CASE fatal_msg_exclusive
    <3>1. g_reason # "LOG"
      BY <2>1 DEF IInv, ReasonInv, Chosen, Macros
    <3> QED
      BY <1>4, <2>1, <3>1 DEF Flush, Stays, IInv, TextInv, Shape, Macros
  <2>2. CASE ~fatal_msg_exclusive
    BY <1>0, <1>4, <2>2 DEF Flush
  <2> QED
    BY <2>1, <2>2
<1>5. ASSUME NEW t \in Threads, NEW st, LogFatal(t, st) \/ CheckFails(t) PROVE Stays
  BY <1>4, <1>5 DEF LogFatal, CheckFails
<1>6. ASSUME NEW t \in Threads, RestoreText(t) PROVE Stays
  <2>1. /\ reason_text["LOG"] # <<>>
        /\ reason_text["LOG"][Len(reason_text["LOG"])].kind = "newline"
    BY <1>6 DEF RestoreText, IInv, TextInv, ReasonInv
  <2>2. /\ reason_text'["LOG"] = SubSeq(reason_text["LOG"], 1, Len(reason_text["LOG"]) - 1)
        /\ reason_text'["RAW_LOG"] = reason_text["RAW_LOG"]
        /\ UNCHANGED <<g_reason, crash_reason>>
    BY <1>6 DEF RestoreText, IInv, TextInv, Macros
  <2>3. g_reason \in Macros
    BY DEF IInv, Shape
  <2> QED
    BY <2>1, <2>2, <2>3 DEF Stays, LosesLineFeed, Macros
<1>m. Main \in Threads
  BY RawLogAssumption
<1>7. ASSUME NEW f,
             \/ ResetFailureFunction \/ GetInstalledFailureFunction \/ InstallDump
             \/ InstallFailureFunction(f)
      PROVE  Stays
  BY <1>0, <1>7 DEF ResetFailureFunction, GetInstalledFailureFunction, InstallDump,
                    InstallFailureFunction
<1>8. CASE InitGoogleLogging \/ ShutdownGoogleLogging
  <2>1. CheckFails(Main) \/ UNCHANGED <<g_reason, crash_reason, reason_text>>
    BY <1>8 DEF InitGoogleLogging, ShutdownGoogleLogging
  <2> QED
    BY <1>0, <1>5, <1>m, <2>1
<1>9. CASE Truncate
  <2>1. UNCHANGED reason
    BY <1>9 DEF Truncate, Open, OpenFails, Fstat, FstatFails, LogTruncating, Pread, Pwrite,
                PwriteShort, CopyFails, Ftruncate, FtruncateFails, Aside, InFile
  <2> QED
    BY <1>0, <2>1
<1> QED
  BY <1>1, <1>2, <1>3, <1>5, <1>6, <1>7, <1>8, <1>9 DEF Next, RawNext, Step

\* The crash reason that g_reason publishes is complete and final, whichever of
\* RAW_LOG(FATAL) and LOG(FATAL) fail at once, in any number of threads, and all that
\* becomes of the text it points to, in a buffer that Flush writes to afterwards, is
\* that a line feed at its end goes.
THEOREM CrashReasonIsFinal == Spec => CrashReasonFinal
<1>1. IInv /\ [Next]_vars =>
        [g_reason # "nullptr" =>
           /\ crash_reason[g_reason].filled
           /\ g_reason' = g_reason
           /\ crash_reason'[g_reason] = crash_reason[g_reason]
           /\ \/ reason_text'[g_reason] = reason_text[g_reason]
              \/ /\ g_reason = "LOG"
                 /\ LosesLineFeed(reason_text["LOG"], reason_text'["LOG"])]_rawVars
  <2>1. CASE Next
    BY <2>1, ReasonStays DEF IInv, ReasonInv, Stays
  <2>2. CASE UNCHANGED vars
    BY <2>2 DEF vars
  <2> QED
    BY <2>1, <2>2
<1> QED
  BY <1>1, Invariant, PTL DEF Spec, CrashReasonFinal

\* When DumpStackTraceAndExit has dumped the stack, there is a function for it
\* to call, which is neither nullptr nor DumpStackTraceAndExit itself, however often
\* the library is initialized and shut down and whatever the program installs.
THEOREM DumpHasSuccessor ==
  Spec => [](\A t \in Threads : pc[t] = "dump" => base_logging_fail_func \in Callable)
<1>1. IInv => \A t \in Threads : pc[t] = "dump" => base_logging_fail_func \in Callable
  BY DEF IInv, FailureInv
<1> QED
  BY <1>1, Invariant, PTL

----------------------------------------------------------------------------
(* The line of RAW_LOG                                                         *)

LEMMA MinOfTwo ==
  ASSUME NEW a \in Int, NEW b \in Int
  PROVE  Min({a, b}) = IF a <= b THEN a ELSE b
<1>1. \E x \in {a, b} : \A y \in {a, b} : x =< y
  <2>1. CASE a <= b
    BY <2>1
  <2>2. CASE b <= a
    BY <2>2
  <2> QED
    BY <2>1, <2>2
<1>2. Min({a, b}) \in {a, b} /\ \A y \in {a, b} : Min({a, b}) =< y
  BY <1>1 DEF Min
<1> QED
  BY <1>2

\* *buf is at pos, *size is the room that is left, and unless there is none the text goes at
\* least to *buf.
Buffer(b) ==
  /\ b \in [chars : Seq(Char), pos : Nat, size : Nat, ok : BOOLEAN]
  /\ b.pos + b.size = kLogBufSize
  /\ Len(b.chars) < kLogBufSize
  /\ b.size > 0 => b.pos <= Len(b.chars)

LEMMA BufferSize == kLogBufSize \in Nat \ {0} /\ TooLong \in Nat
BY RawLogAssumption

LEMMA BufferFacts ==
  ASSUME NEW b, Buffer(b)
  PROVE  /\ b.chars \in Seq(Char) /\ b.pos \in Nat /\ b.size \in Nat
         /\ b.pos + b.size = kLogBufSize
         /\ Len(b.chars) \in Nat /\ Len(b.chars) < kLogBufSize
         /\ b.size > 0 => b.pos <= Len(b.chars)
BY DEF Buffer

LEMMA EmptyBuffer == Buffer(Empty)
<1>1. <<>> \in Seq(Char) /\ Len(<<>>) = 0
  OBVIOUS
<1> QED
  BY <1>1, BufferSize DEF Buffer, Empty

LEMMA FirstCharacters ==
  ASSUME NEW s \in Seq(Char), NEW n \in 0 .. Len(s)
  PROVE  /\ SubSeq(s, 1, n) \in Seq(Char) /\ Len(SubSeq(s, 1, n)) = n
         /\ \A i \in 1 .. n : SubSeq(s, 1, n)[i] = s[i]
<1>1. Len(s) \in Nat /\ \A i \in 1 .. n : s[i] \in Char
  BY ElementOfSeq
<1>2. /\ SubSeq(s, 1, n) \in Seq(Char)
      /\ Len(SubSeq(s, 1, n)) = IF 1 <= n THEN n - 1 + 1 ELSE 0
      /\ \A i \in 1 .. n - 1 + 1 : SubSeq(s, 1, n)[i] = s[1 + i - 1]
  BY <1>1, SubSeqProperties
<1> QED
  BY <1>1, <1>2

\* The beginning of one text, with that of another one behind it.
LEMMA Spliced ==
  ASSUME NEW s \in Seq(Char), NEW p \in 0 .. Len(s), NEW u \in Seq(Char), NEW k \in 0 .. Len(u)
  PROVE  /\ SubSeq(s, 1, p) \o SubSeq(u, 1, k) \in Seq(Char)
         /\ Len(SubSeq(s, 1, p) \o SubSeq(u, 1, k)) = p + k
         /\ \A i \in 1 .. p + k :
              (SubSeq(s, 1, p) \o SubSeq(u, 1, k))[i] = IF i <= p THEN s[i] ELSE u[i - p]
<1>1. Len(s) \in Nat /\ Len(u) \in Nat
  OBVIOUS
<1>2. PICK head : head = SubSeq(s, 1, p)
  OBVIOUS
<1>3. PICK tail : tail = SubSeq(u, 1, k)
  OBVIOUS
<1>4. head \in Seq(Char) /\ Len(head) = p /\ \A i \in 1 .. p : head[i] = s[i]
  BY <1>2, FirstCharacters
<1>5. tail \in Seq(Char) /\ Len(tail) = k /\ \A i \in 1 .. k : tail[i] = u[i]
  BY <1>3, FirstCharacters
<1>6. /\ head \o tail \in Seq(Char) /\ Len(head \o tail) = Len(head) + Len(tail)
      /\ \A i \in 1 .. Len(head) + Len(tail) :
           (head \o tail)[i] = IF i <= Len(head) THEN head[i] ELSE tail[i - Len(head)]
  BY <1>4, <1>5, ConcatProperties
<1>7. \A i \in 1 .. p + k : (head \o tail)[i] = IF i <= p THEN s[i] ELSE u[i - p]
  BY <1>1, <1>4, <1>5, <1>6
<1> QED
  BY <1>2, <1>3, <1>4, <1>5, <1>6, <1>7

\* What vsnprintf leaves in the buffer if there is room for something.
LEMMA PrintedText ==
  ASSUME NEW b, Buffer(b), b.size > 0, NEW text \in Seq(Char), NEW n \in Nat, Len(text) = n,
         NEW k, k = IF n < b.size THEN n ELSE b.size - 1
  PROVE  /\ Printed(b, text, n) \in Seq(Char)
         /\ Len(Printed(b, text, n)) = b.pos + k
         /\ \A i \in 1 .. b.pos + k :
              Printed(b, text, n)[i] = IF i <= b.pos THEN b.chars[i] ELSE text[i - b.pos]
<1>1. /\ b.size \in Nat /\ b.pos \in 0 .. Len(b.chars) /\ b.chars \in Seq(Char)
      /\ k \in 0 .. Len(text)
  BY BufferFacts
<1>2. PICK m \in Int : m = b.size - 1
  BY <1>1
<1>3. Min({n, m}) = IF n <= m THEN n ELSE m
  BY MinOfTwo
<1>4. Min({n, b.size - 1}) = k
  <2>1. k = IF n <= m THEN n ELSE m
    BY <1>1, <1>2
  <2> QED
    BY <1>2, <1>3, <2>1
<1>5. ~(n < 0 \/ b.size = 0)
  BY <1>1
<1>6. Printed(b, text, n) = SubSeq(b.chars, 1, b.pos) \o SubSeq(text, 1, k)
  BY <1>4, <1>5, Zenon DEF Printed
<1>7. PICK s \in Seq(Char), p \in Nat : s = b.chars /\ p = b.pos /\ p \in 0 .. Len(s)
  BY <1>1
<1>8. Printed(b, text, n) = SubSeq(s, 1, p) \o SubSeq(text, 1, k)
  BY <1>6, <1>7, Zenon
<1>9. /\ Printed(b, text, n) \in Seq(Char) /\ Len(Printed(b, text, n)) = p + k
      /\ \A i \in 1 .. p + k : Printed(b, text, n)[i] = IF i <= p THEN s[i] ELSE text[i - p]
  <2>1. k \in 0 .. Len(text)
    BY <1>1
  <2>2. /\ SubSeq(s, 1, p) \o SubSeq(text, 1, k) \in Seq(Char)
        /\ Len(SubSeq(s, 1, p) \o SubSeq(text, 1, k)) = p + k
        /\ \A i \in 1 .. p + k :
             (SubSeq(s, 1, p) \o SubSeq(text, 1, k))[i] = IF i <= p THEN s[i] ELSE text[i - p]
    <3>1. p \in 0 .. Len(s)
      BY <1>7
    <3> QED
      BY <2>1, <3>1, Spliced
  <2> QED
    BY <1>8, <2>2, Zenon
<1> QED
  BY <1>7, <1>9

\* ... and otherwise.
LEMMA NothingPrinted ==
  ASSUME NEW b, NEW text, NEW n, n < 0 \/ b.size = 0
  PROVE  Printed(b, text, n) = b.chars
BY DEF Printed

LEMMA DoRawLogFails ==
  ASSUME NEW b, Buffer(b), NEW text \in Seq(Char), NEW n \in Int, n < 0 \/ n > b.size,
         n >= 0 => Len(text) = n
  PROVE  LET r == DoRawLog(b, text, n)
         IN  Buffer(r) /\ ~r.ok /\ r.pos = b.pos /\ r.chars = Printed(b, text, n)
<1>1. DoRawLog(b, text, n) = [b EXCEPT !.chars = Printed(b, text, n), !.ok = FALSE]
  BY DEF DoRawLog
<1>2. b.size \in Nat /\ b.pos \in Nat /\ b.chars \in Seq(Char) /\ b.pos + b.size = kLogBufSize
  BY BufferFacts
<1>3. /\ Printed(b, text, n) \in Seq(Char) /\ Len(Printed(b, text, n)) < kLogBufSize
      /\ b.size > 0 => b.pos <= Len(Printed(b, text, n))
  <2>1. CASE n < 0 \/ b.size = 0
    BY <2>1, NothingPrinted, BufferFacts
  <2>2. CASE n >= 0 /\ b.size > 0
    <3>1. PICK k \in Nat : k = b.size - 1 /\ k = IF n < b.size THEN n ELSE b.size - 1
      BY <1>2, <2>2
    <3>2. Printed(b, text, n) \in Seq(Char) /\ Len(Printed(b, text, n)) = b.pos + k
      BY <2>2, <3>1, PrintedText
    <3> QED
      BY <1>2, <3>1, <3>2
  <2> QED
    BY <1>2, <2>1, <2>2
<1> QED
  BY <1>1, <1>2, <1>3 DEF Buffer

LEMMA DoRawLogSucceeds ==
  ASSUME NEW b, Buffer(b), NEW text \in Seq(Char), NEW n \in Nat, n <= b.size, Len(text) = n
  PROVE  LET r == DoRawLog(b, text, n)
         IN  Buffer(r) /\ r.ok /\ r.pos = b.pos + n /\ r.chars = Printed(b, text, n)
<1>1. b.size \in Nat /\ b.pos \in Nat /\ b.chars \in Seq(Char) /\ b.pos + b.size = kLogBufSize
  BY BufferFacts
<1>2. DoRawLog(b, text, n) =
        [chars |-> Printed(b, text, n), pos |-> b.pos + n, size |-> b.size - n, ok |-> TRUE]
  BY <1>1 DEF DoRawLog
<1>3. /\ Printed(b, text, n) \in Seq(Char) /\ Len(Printed(b, text, n)) < kLogBufSize
      /\ b.size > n => b.pos + n <= Len(Printed(b, text, n))
  <2>1. CASE b.size = 0
    BY <1>1, <2>1, NothingPrinted, BufferFacts
  <2>2. CASE b.size > 0
    <3>1. PICK k \in Nat : k = IF n < b.size THEN n ELSE b.size - 1
      BY <1>1, <2>2
    <3>2. Printed(b, text, n) \in Seq(Char) /\ Len(Printed(b, text, n)) = b.pos + k
      BY <2>2, <3>1, PrintedText
    <3> QED
      BY <1>1, <2>2, <3>1, <3>2
  <2> QED
    BY <1>1, <2>1, <2>2
<1> QED
  BY <1>1, <1>2, <1>3 DEF Buffer

\* The prefix alone.
LEMMA PrefixedFacts ==
  ASSUME NEW st \in Statement, NEW id \in Nat
  PROVE  LET r == Prefixed(st, id)
         IN  /\ Buffer(r)
             /\ st.prefix <= kLogBufSize =>
                  /\ r.pos = st.prefix
                  /\ \A i \in 1 .. Len(r.chars) : r.chars[i] = Text("prefix", id, st.prefix)[i]
             /\ st.prefix < kLogBufSize => Len(r.chars) = st.prefix
<1> DEFINE text == Text("prefix", id, st.prefix)
<1>1. st.prefix \in Nat /\ text \in Seq(Char) /\ Len(text) = st.prefix
  <2>1. st.prefix \in Nat
    BY DEF Statement
  <2>2. PICK n \in Nat : n = st.prefix
    BY <2>1
  <2>3. Text("prefix", id, n) \in Seq(Char) /\ Len(Text("prefix", id, n)) = n
    BY TextType
  <2> QED
    BY <2>2, <2>3
<1>2. Buffer(Empty) /\ Empty.pos = 0 /\ Empty.size = kLogBufSize /\ kLogBufSize \in Nat \ {0}
  BY EmptyBuffer, BufferSize DEF Empty
<1>3. PICK n \in Nat : n = st.prefix
  BY <1>1
<1>4. Prefixed(st, id) = DoRawLog(Empty, text, n)
  BY <1>3 DEF Prefixed
<1>5. CASE n > kLogBufSize
  BY <1>1, <1>2, <1>3, <1>4, <1>5, DoRawLogFails
<1>6. CASE n <= kLogBufSize
  <2>1. PICK k \in Nat : k = IF n < kLogBufSize THEN n ELSE kLogBufSize - 1
    BY <1>2
  <2> DEFINE r == Prefixed(st, id)
  <2> HIDE DEF text
  <2>2. Buffer(r) /\ r.pos = n /\ r.chars = Printed(Empty, text, n)
    BY <1>1, <1>2, <1>3, <1>4, <1>6, DoRawLogSucceeds
  <2>3. /\ Len(Printed(Empty, text, n)) = k
        /\ \A i \in 1 .. k : Printed(Empty, text, n)[i] = text[i]
    <3>1. /\ Len(Printed(Empty, text, n)) = Empty.pos + k
          /\ \A i \in 1 .. Empty.pos + k :
               Printed(Empty, text, n)[i] =
                 IF i <= Empty.pos THEN Empty.chars[i] ELSE text[i - Empty.pos]
      BY <1>1, <1>2, <1>3, <2>1, PrintedText, SMTT(20)
    <3> QED
      BY <1>2, <3>1
  <2> HIDE DEF r
  <2>4. Len(r.chars) = k /\ \A i \in 1 .. Len(r.chars) : r.chars[i] = text[i]
    BY <2>2, <2>3
  <2> QED
    BY <1>3, <2>1, <2>2, <2>4 DEF r, text
<1> QED
  BY <1>2, <1>5, <1>6

\* Each part is added to a buffer, whatever its length.
LEMMA DoRawLogBuffer ==
  ASSUME NEW b, Buffer(b), NEW text \in Seq(Char), NEW n \in Int, n >= 0 => Len(text) = n
  PROVE  /\ Buffer(DoRawLog(b, text, n))
         /\ DoRawLog(b, text, n).chars = Printed(b, text, n)
         /\ DoRawLog(b, text, n).ok <=> n >= 0 /\ n <= b.size
<1>1. b.size \in Nat
  BY BufferFacts
<1>2. CASE n < 0 \/ n > b.size
  BY <1>1, <1>2, DoRawLogFails
<1>3. CASE n >= 0 /\ n <= b.size
  BY <1>1, <1>3, DoRawLogSucceeds
<1> QED
  BY <1>1, <1>2, <1>3

\* The parts of a line.
LEMMA LineParts ==
  ASSUME NEW st \in Statement, NEW id \in Nat
  PROVE  LET r == Prefixed(st, id)
             m == DoRawLog(r, Text("message", id, st.message), st.message)
         IN  /\ Buffer(r) /\ Buffer(m) /\ Buffer(Line(st, id))
             /\ Line(st, id).chars =
                  IF m.ok THEN Printed(m, Text("newline", id, 1), 1)
                  ELSE Printed(m, Text("toolong", id, TooLong), TooLong)
<1> DEFINE r == Prefixed(st, id)
           text == Text("message", id, st.message)
           m == DoRawLog(r, text, st.message)
<1>1. Buffer(r)
  BY PrefixedFacts
<1>2. st.message \in Int /\ text \in Seq(Char) /\ (st.message >= 0 => Len(text) = st.message)
  <2>1. st.message \in Int
    BY DEF Statement
  <2>2. PICK n \in Int : n = st.message
    BY <2>1
  <2>3. /\ Text("message", id, n) \in Seq(Char)
        /\ n >= 0 => Len(Text("message", id, n)) = n
    BY TextType
  <2> QED
    BY <2>2, <2>3
<1> HIDE DEF r, text
<1>3. Buffer(m)
  BY <1>1, <1>2, DoRawLogBuffer
<1>4. /\ Text("newline", id, 1) \in Seq(Char) /\ Len(Text("newline", id, 1)) = 1
      /\ Text("toolong", id, TooLong) \in Seq(Char) /\ Len(Text("toolong", id, TooLong)) = TooLong
  <2>1. TooLong \in Int /\ TooLong >= 0 /\ 1 \in Int
    BY BufferSize
  <2>2. \A n \in Nat : Text("newline", id, n) \in Seq(Char) /\ Len(Text("newline", id, n)) = n
    BY TextType
  <2>3. Text("toolong", id, TooLong) \in Seq(Char) /\ Len(Text("toolong", id, TooLong)) = TooLong
    BY <2>1, TextType
  <2> QED
    BY <2>2, <2>3
<1>5. Line(st, id) = IF m.ok THEN DoRawLog(m, Text("newline", id, 1), 1)
                     ELSE DoRawLog(m, Text("toolong", id, TooLong), TooLong)
  BY DEF Line, r, text
<1> HIDE DEF m
<1>6. CASE m.ok
  <2>1. PICK u : u = Text("newline", id, 1)
    OBVIOUS
  <2>2. u \in Seq(Char) /\ Len(u) = 1
    BY <1>4, <2>1
  <2>3. PICK n \in Nat : n = 1
    OBVIOUS
  <2>4. Buffer(DoRawLog(m, u, n)) /\ DoRawLog(m, u, n).chars = Printed(m, u, n)
    <3>1. n \in Int /\ (n >= 0 => Len(u) = n)
      BY <2>2, <2>3
    <3>2. u \in Seq(Char)
      BY <2>2
    <3> QED
      BY <1>3, <3>1, <3>2, DoRawLogBuffer
  <2>5. Line(st, id) = DoRawLog(m, u, n)
    BY <1>5, <1>6, <2>1, <2>3
  <2> QED
    BY <1>1, <1>3, <1>6, <2>1, <2>3, <2>4, <2>5 DEF m, r, text
<1>7. CASE ~m.ok
  <2>1. /\ Buffer(Line(st, id))
        /\ Line(st, id).chars = Printed(m, Text("toolong", id, TooLong), TooLong)
    BY <1>3, <1>4, <1>5, <1>7, DoRawLogBuffer, BufferSize
  <2> QED
    BY <1>1, <1>3, <1>7, <2>1 DEF m, r, text
<1> QED
  BY <1>6, <1>7

\* A text of length n, of one kind and from one write.
IsText(s, kind, id, n) ==
  /\ s \in Seq(Char) /\ Len(s) = n
  /\ \A i \in 1 .. n : s[i].id = id /\ s[i].kind = kind

LEMMA SomeText ==
  ASSUME NEW kind \in {"prefix", "message", "newline", "toolong"}, NEW id \in Nat, NEW n \in Nat
  PROVE  IsText(Text(kind, id, n), kind, id, n)
<1>1. \A i \in 1 .. n : [kind |-> kind, id |-> id, at |-> i] \in Char
  BY DEF Char
<1>2. Text(kind, id, n) = [i \in 1 .. n |-> [kind |-> kind, id |-> id, at |-> i]]
  BY DEF Text
<1>3. Text(kind, id, n) \in Seq(Char) /\ Len(Text(kind, id, n)) = n
  BY <1>1, <1>2
<1>4. ASSUME NEW i \in 1 .. n
      PROVE  Text(kind, id, n)[i].id = id /\ Text(kind, id, n)[i].kind = kind
  <2>1. Text(kind, id, n)[i] = [kind |-> kind, id |-> id, at |-> i]
    BY <1>2
  <2>2. /\ [kind |-> kind, id |-> id, at |-> i].id = id
        /\ [kind |-> kind, id |-> id, at |-> i].kind = kind
    OBVIOUS
  <2> QED
    BY <2>1, <2>2, Zenon
<1> QED
  BY <1>3, <1>4, Zenon DEF IsText

\* A text added behind one that goes to *buf, if there is room for all of it.
LEMMA Appended ==
  ASSUME NEW b, Buffer(b), Len(b.chars) = b.pos, NEW text \in Seq(Char), NEW n \in Nat,
         Len(text) = n, b.pos + n < kLogBufSize
  PROVE  LET r == DoRawLog(b, text, n)
         IN  Buffer(r) /\ r.ok /\ r.pos = b.pos + n /\ Len(r.chars) = r.pos
             /\ r.chars = b.chars \o text
<1>1. /\ b.size \in Nat /\ b.pos \in Nat /\ b.chars \in Seq(Char)
      /\ b.pos + b.size = kLogBufSize /\ kLogBufSize \in Nat
  BY BufferFacts, BufferSize
<1>2. n < b.size /\ b.size > 0 /\ n <= b.size
  BY <1>1
<1>3. PICK c : c = Printed(b, text, n)
  OBVIOUS
<1>4. PICK r : r = DoRawLog(b, text, n)
  OBVIOUS
<1>5. Buffer(r) /\ r.ok /\ r.pos = b.pos + n /\ r.chars = c
  BY <1>2, <1>3, <1>4, DoRawLogSucceeds
<1>6. /\ c \in Seq(Char) /\ Len(c) = b.pos + n
      /\ \A i \in 1 .. b.pos + n : c[i] = IF i <= b.pos THEN b.chars[i] ELSE text[i - b.pos]
  <2>1. n = IF n < b.size THEN n ELSE b.size - 1
    BY <1>2
  <2> QED
    BY <1>2, <1>3, <2>1, PrintedText
<1>7. c = b.chars \o text
  <2>1. PICK s \in Seq(Char) : s = b.chars
    BY <1>1
  <2>2. /\ s \o text \in Seq(Char) /\ Len(s \o text) = Len(s) + Len(text)
        /\ \A i \in 1 .. Len(s) + Len(text) :
             (s \o text)[i] = IF i <= Len(s) THEN s[i] ELSE text[i - Len(s)]
    BY ConcatProperties
  <2>3. Len(c) = Len(s \o text) /\ \A i \in 1 .. Len(c) : c[i] = (s \o text)[i]
    BY <1>1, <1>6, <2>1, <2>2
  <2>4. c = s \o text
    BY <1>6, <2>2, <2>3, SeqEqual
  <2> QED
    BY <2>1, <2>4
<1> QED
  BY <1>4, <1>5, <1>6, <1>7

\* A line that fits into the buffer.
LEMMA LineFits ==
  ASSUME NEW st \in Statement, NEW id \in Nat,
         st.message >= 0, st.prefix + st.message + 1 < kLogBufSize
  PROVE  /\ Line(st, id).chars = Text("prefix", id, st.prefix) \o Text("message", id, st.message)
                                 \o Text("newline", id, 1)
         /\ Line(st, id).chars[1].id = id
<1>1. PICK p \in Nat : p = st.prefix
  BY DEF Statement
<1>2. PICK n \in Nat : n = st.message
  BY DEF Statement
<1>3. PICK one \in Nat : one = 1
  OBVIOUS
<1>4. PICK x : x = Text("prefix", id, p)
  OBVIOUS
<1>5. PICK y : y = Text("message", id, n)
  OBVIOUS
<1>6. PICK z : z = Text("newline", id, one)
  OBVIOUS
<1>7. x \in Seq(Char) /\ Len(x) = p /\ \A i \in 1 .. p : x[i].id = id
  <2>1. IsText(x, "prefix", id, p)
    BY <1>4, SomeText
  <2> QED
    BY <2>1 DEF IsText
<1>8. y \in Seq(Char) /\ Len(y) = n /\ \A i \in 1 .. n : y[i].id = id
  <2>1. IsText(y, "message", id, n)
    BY <1>5, SomeText
  <2> QED
    BY <2>1 DEF IsText
<1>9. z \in Seq(Char) /\ Len(z) = one /\ \A i \in 1 .. one : z[i].id = id
  <2>1. IsText(z, "newline", id, one)
    BY <1>6, SomeText
  <2> QED
    BY <2>1 DEF IsText
<1>10. p + n + one < kLogBufSize /\ kLogBufSize \in Nat /\ p < kLogBufSize
  BY <1>1, <1>2, <1>3, BufferSize
<1>11. Empty.pos = 0 /\ Empty.chars = <<>> /\ Buffer(Empty) /\ Len(Empty.chars) = 0
  BY EmptyBuffer DEF Empty
<1>12. PICK r : r = DoRawLog(Empty, x, p)
  OBVIOUS
<1>13. Buffer(r) /\ r.pos = p /\ Len(r.chars) = p /\ r.chars = x
  <2>1. /\ Buffer(r) /\ r.pos = Empty.pos + p /\ Len(r.chars) = r.pos
        /\ r.chars = Empty.chars \o x
    <3>1. Empty.pos + p < kLogBufSize /\ Len(Empty.chars) = Empty.pos
      BY <1>10, <1>11
    <3> QED
      BY <1>7, <1>11, <1>12, <3>1, Appended
  <2>2. <<>> \o x = x
    BY <1>7
  <2> QED
    BY <1>11, <2>1, <2>2
<1>14. PICK m : m = DoRawLog(r, y, n)
  OBVIOUS
<1>15. Buffer(m) /\ m.ok /\ m.pos = p + n /\ Len(m.chars) = m.pos /\ m.chars = x \o y
  <2>1. r.pos + n < kLogBufSize /\ Len(r.chars) = r.pos
    BY <1>3, <1>10, <1>13
  <2>2. Buffer(m) /\ m.ok /\ m.pos = r.pos + n /\ Len(m.chars) = m.pos /\ m.chars = r.chars \o y
    BY <1>8, <1>13, <1>14, <2>1, Appended
  <2> QED
    BY <1>13, <2>2
<1>16. PICK l : l = DoRawLog(m, z, one)
  OBVIOUS
<1>17. l.chars = (x \o y) \o z
  <2>1. m.pos + one < kLogBufSize
    BY <1>10, <1>15
  <2>2. l.chars = m.chars \o z
    BY <1>9, <1>15, <1>16, <2>1, Appended
  <2> QED
    BY <1>15, <2>2
<1>18. Line(st, id) = l
  <2>1. r = Prefixed(st, id)
    BY <1>1, <1>4, <1>12 DEF Prefixed
  <2>2. DoRawLog(Prefixed(st, id), Text("message", id, st.message), st.message) = m
    BY <1>2, <1>5, <1>14, <2>1
  <2>3. DoRawLog(m, Text("newline", id, 1), 1) = l
    BY <1>3, <1>6, <1>16
  <2> QED
    BY <1>15, <2>2, <2>3, Zenon DEF Line
<1>19. ((x \o y) \o z)[1].id = id
  <2>1. /\ x \o y \in Seq(Char) /\ Len(x \o y) = p + n
        /\ \A i \in 1 .. p + n : (x \o y)[i] = IF i <= p THEN x[i] ELSE y[i - p]
    BY <1>7, <1>8, ConcatProperties
  <2>2. \A i \in 1 .. p + n : (x \o y)[i].id = id
    <3>1. \A i \in 1 .. p + n : i <= p \/ i - p \in 1 .. n
      OBVIOUS
    <3>2. SUFFICES ASSUME NEW i \in 1 .. p + n PROVE (x \o y)[i].id = id
      OBVIOUS
    <3>3. CASE i <= p
      BY <1>7, <2>1, <3>3
    <3>4. CASE ~(i <= p)
      BY <1>8, <2>1, <3>1, <3>4
    <3> QED
      BY <3>3, <3>4
  <2>3. PICK u \in Seq(Char) : u = x \o y
    BY <2>1
  <2>4. /\ Len(u) = p + n
        /\ \A i \in 1 .. Len(u) + Len(z) :
             (u \o z)[i] = IF i <= Len(u) THEN u[i] ELSE z[i - Len(u)]
    <3>1. z \in Seq(Char)
      BY <1>9
    <3> QED
      BY <2>1, <2>3, <3>1, ConcatProperties
  <2>5. (u \o z)[one] = IF one <= p + n THEN u[one] ELSE z[one - (p + n)]
    <3>1. one \in 1 .. Len(u) + Len(z)
      BY <1>3, <1>9, <2>4
    <3> QED
      BY <2>4, <3>1
  <2>6. CASE one <= p + n
    <3>1. one \in 1 .. p + n
      BY <1>3, <2>6
    <3>2. u[one].id = id
      BY <2>2, <2>3, <3>1
    <3>3. (u \o z)[one] = u[one]
      BY <2>5, <2>6
    <3> QED
      BY <1>3, <2>3, <3>2, <3>3
  <2>7. CASE ~(one <= p + n)
    <3>1. one - (p + n) \in 1 .. one
      BY <1>3, <2>7
    <3> QED
      BY <1>3, <1>9, <2>3, <2>5, <2>7, <3>1
  <2> QED
    BY <2>6, <2>7
<1> QED
  BY <1>1, <1>2, <1>3, <1>4, <1>5, <1>6, <1>17, <1>18, <1>19

\* The first n characters, as far as there are so many, are of the prefix.
BeginsWithPrefix(s, n) == \A i \in 1 .. Len(s) : i <= n => s[i].kind = "prefix"

\* A line whose message is in error, or does not fit behind the prefix.
LEMMA LineReplaced ==
  ASSUME NEW st \in Statement, NEW id \in Nat, st.prefix <= kLogBufSize,
         st.message < 0 \/ st.prefix + st.message > kLogBufSize
  PROVE  \A i \in 1 .. Len(Line(st, id).chars) :
           Line(st, id).chars[i].kind \in {"prefix", "toolong"}
<1>1. PICK p \in Nat : p = st.prefix
  BY DEF Statement
<1>2. PICK n \in Int : n = st.message
  BY DEF Statement
<1>3. PICK x : x = Text("prefix", id, p)
  OBVIOUS
<1>4. PICK y : y = Text("message", id, n)
  OBVIOUS
<1>5. PICK z : z = Text("toolong", id, TooLong)
  OBVIOUS
<1>6. PICK r : r = Prefixed(st, id)
  OBVIOUS
<1>7. PICK m : m = DoRawLog(r, y, n)
  OBVIOUS
<1>8. p <= kLogBufSize /\ (n < 0 \/ p + n > kLogBufSize) /\ kLogBufSize \in Nat /\ TooLong \in Nat
  BY <1>1, <1>2, BufferSize
<1>9. Buffer(r) /\ r.pos = p /\ BeginsWithPrefix(r.chars, p)
  <2>1. /\ Buffer(r) /\ r.pos = p
        /\ \A i \in 1 .. Len(r.chars) : r.chars[i] = x[i]
    BY <1>1, <1>3, <1>6, <1>8, PrefixedFacts
  <2>2. IsText(x, "prefix", id, p)
    BY <1>3, SomeText
  <2>3. \A i \in 1 .. p : x[i].kind = "prefix"
    BY <2>2 DEF IsText
  <2>4. \A i \in 1 .. Len(r.chars) : i <= p => r.chars[i].kind = "prefix"
    BY <2>1, <2>3
  <2> QED
    BY <2>1, <2>4 DEF BeginsWithPrefix
<1>10. r.size \in Nat /\ r.size = kLogBufSize - p /\ r.chars \in Seq(Char)
  BY <1>8, <1>9, BufferFacts
<1>11. y \in Seq(Char) /\ (n >= 0 => Len(y) = n)
  <2>1. Text("message", id, n) \in Seq(Char)
    BY TextType
  <2>2. n >= 0 => Len(Text("message", id, n)) = n
    BY TextType
  <2> QED
    BY <1>4, <2>1, <2>2
<1>12. Buffer(m) /\ ~m.ok /\ m.pos = p /\ m.chars = Printed(r, y, n)
  <2>1. n < 0 \/ n > r.size
    BY <1>8, <1>10
  <2> QED
    BY <1>7, <1>9, <1>11, <2>1, DoRawLogFails
<1>13. BeginsWithPrefix(m.chars, p)
  <2>1. CASE n < 0 \/ r.size = 0
    BY <1>9, <1>12, <2>1, NothingPrinted
  <2>2. CASE n >= 0 /\ r.size > 0
    <3>1. PICK k : k = IF n < r.size THEN n ELSE r.size - 1
      OBVIOUS
    <3>2. PICK c : c = Printed(r, y, n)
      OBVIOUS
    <3>3. /\ Len(c) = r.pos + k
          /\ \A i \in 1 .. r.pos + k : c[i] = IF i <= r.pos THEN r.chars[i] ELSE y[i - r.pos]
      <4>1. n \in Nat /\ Len(y) = n /\ y \in Seq(Char) /\ Buffer(r) /\ r.size > 0
        BY <1>9, <1>11, <2>2
      <4>2. /\ Len(Printed(r, y, n)) = r.pos + k
            /\ \A i \in 1 .. r.pos + k :
                 Printed(r, y, n)[i] = IF i <= r.pos THEN r.chars[i] ELSE y[i - r.pos]
        BY <3>1, <4>1, PrintedText
      <4> QED
        BY <3>2, <4>2
    <3>4. p <= Len(r.chars) /\ Len(r.chars) \in Nat
      BY <1>9, <2>2, BufferFacts
    <3>5. \A i \in 1 .. Len(c) : i <= p => i \in 1 .. Len(r.chars) /\ c[i] = r.chars[i]
      <4>1. k \in Int
        BY <1>10, <3>1
      <4> QED
        BY <1>9, <3>3, <3>4, <4>1
    <3>6. BeginsWithPrefix(c, p)
      BY <1>9, <3>5 DEF BeginsWithPrefix
    <3> QED
      BY <1>12, <3>2, <3>6
  <2> QED
    BY <1>10, <2>1, <2>2
<1>14. PICK c : c = Line(st, id).chars
  OBVIOUS
<1>15. Buffer(Line(st, id)) /\ c = Printed(m, z, TooLong)
  BY <1>1, <1>2, <1>4, <1>5, <1>6, <1>7, <1>12, <1>14, LineParts
<1>16. m.size \in Nat /\ m.size = kLogBufSize - p /\ Len(m.chars) \in Nat /\ Len(m.chars) < kLogBufSize
  BY <1>8, <1>12, BufferFacts
<1>17. CASE m.size = 0
  <2>1. c = m.chars
    BY <1>15, <1>17, NothingPrinted
  <2>2. \A i \in 1 .. Len(m.chars) : m.chars[i].kind = "prefix"
    BY <1>8, <1>13, <1>16, <1>17 DEF BeginsWithPrefix
  <2> QED
    BY <1>14, <2>1, <2>2
<1>18. CASE m.size > 0
  <2>1. PICK k : k = IF TooLong < m.size THEN TooLong ELSE m.size - 1
    OBVIOUS
  <2>2. z \in Seq(Char) /\ Len(z) = TooLong /\ \A i \in 1 .. TooLong : z[i].kind = "toolong"
    <3>1. IsText(z, "toolong", id, TooLong)
      BY <1>5, <1>8, SomeText
    <3> QED
      BY <3>1 DEF IsText
  <2>3. /\ Len(c) = p + k
        /\ \A i \in 1 .. p + k : c[i] = IF i <= p THEN m.chars[i] ELSE z[i - p]
    <3>1. /\ Len(Printed(m, z, TooLong)) = m.pos + k
          /\ \A i \in 1 .. m.pos + k :
               Printed(m, z, TooLong)[i] = IF i <= m.pos THEN m.chars[i] ELSE z[i - m.pos]
      <4>1. TooLong \in Nat /\ z \in Seq(Char) /\ Len(z) = TooLong /\ Buffer(m)
        BY <1>8, <1>12, <2>2
      <4> QED
        BY <1>18, <2>1, <4>1, PrintedText
    <3> QED
      BY <1>12, <1>15, <3>1
  <2>4. k <= TooLong /\ p <= Len(m.chars)
    BY <1>8, <1>12, <1>16, <1>18, <2>1, BufferFacts
  <2>5. \A i \in 1 .. p : m.chars[i].kind = "prefix"
    BY <1>13, <1>16, <2>4 DEF BeginsWithPrefix
  <2>6. ASSUME NEW i \in 1 .. p + k
        PROVE  c[i].kind \in {"prefix", "toolong"}
    <3>1. CASE i <= p
      BY <2>3, <2>5, <3>1
    <3>2. CASE ~(i <= p)
      <4>1. i - p \in 1 .. TooLong
        BY <1>8, <2>1, <2>4, <3>2
      <4> QED
        BY <2>2, <2>3, <3>2, <4>1
    <3> QED
      BY <3>1, <3>2
  <2> QED
    BY <1>14, <2>3, <2>6
<1> QED
  BY <1>16, <1>17, <1>18

\* A thread writes a line that fits into the buffer, that is whole if there is room
\* for it, and that is replaced as a whole if there is not: RawLog__ for a prefix
\* and a message of any length, a message whose format is in error, and a buffer of
\* any size.
THEOREM RawLineIsWhole == Spec => []RawLineWhole
<1>1. ASSUME IInv, NEW t \in Threads, pc[t] = "raw"
      PROVE  LET st == statement[t]
                 Part(kind, n) == Text(kind, buffer[t][1].id, n)
             IN  /\ Len(buffer[t]) < kLogBufSize
                 /\ st.message >= 0 /\ st.prefix + st.message + 1 < kLogBufSize =>
                      buffer[t] = Part("prefix", st.prefix) \o Part("message", st.message)
                                  \o Part("newline", 1)
                 /\ st.prefix <= kLogBufSize
                    /\ (st.message < 0 \/ st.prefix + st.message > kLogBufSize) =>
                      \A i \in DOMAIN buffer[t] : buffer[t][i].kind \in {"prefix", "toolong"}
  <2>1. PICK st \in Statement : st = statement[t]
    BY <1>1 DEF IInv, Shape
  <2>2. PICK id \in Nat : buffer[t] = Line(st, id).chars
    BY <1>1, <2>1 DEF IInv, BufferInv
  <2>3. Buffer(Line(st, id))
    BY LineParts
  <2>4. buffer[t] \in Seq(Char) /\ Len(buffer[t]) < kLogBufSize
    BY <2>2, <2>3, BufferFacts
  <2>5. ASSUME st.message >= 0, st.prefix + st.message + 1 < kLogBufSize
        PROVE  /\ buffer[t] = Text("prefix", id, st.prefix) \o Text("message", id, st.message)
                              \o Text("newline", id, 1)
               /\ buffer[t][1].id = id
    BY <2>2, <2>5, LineFits, Zenon
  <2>6. ASSUME st.prefix <= kLogBufSize, st.message < 0 \/ st.prefix + st.message > kLogBufSize
        PROVE  \A i \in DOMAIN buffer[t] : buffer[t][i].kind \in {"prefix", "toolong"}
    <3>1. DOMAIN buffer[t] = 1 .. Len(buffer[t])
      BY <2>4
    <3>2. \A i \in 1 .. Len(buffer[t]) : buffer[t][i].kind \in {"prefix", "toolong"}
      BY <2>2, <2>6, LineReplaced, Zenon
    <3> QED
      BY <3>1, <3>2
  <2> QED
    BY <2>1, <2>4, <2>5, <2>6, Zenon
<1>2. IInv => RawLineWhole
  BY <1>1, Zenon DEF RawLineWhole
<1> QED
  BY <1>2, Invariant, PTL

----------------------------------------------------------------------------
(* What is left of the output after truncations                                *)

\* A set of naturals that is not empty has a least element: an induction over n looks
\* at the least n that violates its claim.
LEMMA LeastElement ==
  ASSUME NEW S \in SUBSET Nat, S # {}
  PROVE  \E m \in S : \A k \in S : m <= k
<1> DEFINE R == OpToRel(<, Nat)
<1>1. IsWellFoundedOn(R, Nat)
  BY NatLessThanWellFounded
<1>2. \A i, j \in Nat : <<i, j>> \in R <=> i < j
  BY DEF OpToRel
<1> HIDE DEF R
<1>3. PICK m \in S : \A k \in S : ~(<<k, m>> \in R)
  BY <1>1, WFMin
<1>4. ASSUME NEW k \in S PROVE m <= k
  <2>1. k \in Nat /\ m \in Nat
    OBVIOUS
  <2>2. ~(k < m)
    BY <2>1, <1>2, <1>3
  <2> QED
    BY <2>1, <2>2
<1> QED
  BY <1>4

\* One step of Without: what is left of the first i characters.
Remaining(s, C, r, i) ==
  IF i = 0 THEN <<>> ELSE IF s[i] \in C THEN r[i - 1] ELSE Append(r[i - 1], s[i])

IsRemaining(s, C, r, n) == r = [i \in 0 .. n |-> Remaining(s, C, r, i)]

LEMMA RemainingExists ==
  ASSUME NEW s, NEW C, NEW N \in Nat
  PROVE  \E r : IsRemaining(s, C, r, N)
<1> DEFINE Bad == {n \in Nat : ~\E r : IsRemaining(s, C, r, n)}
<1>1. \E r : IsRemaining(s, C, r, 0)
  <2> DEFINE r == [i \in 0 .. 0 |-> <<>>]
  <2>1. r = [i \in 0 .. 0 |-> Remaining(s, C, r, i)]
    BY DEF Remaining
  <2> QED
    BY <2>1 DEF IsRemaining
<1>2. ASSUME NEW n \in Nat, NEW r, IsRemaining(s, C, r, n)
      PROVE  \E q : IsRemaining(s, C, q, n + 1)
  <2> DEFINE q == [i \in 0 .. n + 1 |-> Remaining(s, C, r, i)]
  <2>1. ASSUME NEW i \in 0 .. n PROVE q[i] = r[i]
    <3>1. r[i] = Remaining(s, C, r, i)
      BY <1>2, Zenon DEF IsRemaining
    <3> QED
      BY <3>1
  <2>2. ASSUME NEW i \in 0 .. n + 1 PROVE Remaining(s, C, q, i) = Remaining(s, C, r, i)
    <3>1. CASE i = 0
      BY <3>1 DEF Remaining
    <3>2. CASE i # 0
      <4> HIDE DEF q
      <4>1. q[i - 1] = r[i - 1]
        <5>1. i - 1 \in 0 .. n
          BY <3>2
        <5> QED
          BY <5>1, <2>1
      <4> QED
        BY <4>1 DEF Remaining
    <3> QED
      BY <3>1, <3>2
  <2>3. q = [i \in 0 .. n + 1 |-> Remaining(s, C, q, i)]
    BY <2>2
  <2> QED
    BY <2>3 DEF IsRemaining
<1>3. Bad = {}
  <2> SUFFICES ASSUME Bad # {} PROVE FALSE
    OBVIOUS
  <2>1. PICK n \in Bad : \A k \in Bad : n <= k
    BY LeastElement
  <2>2. n \in Nat /\ n # 0
    BY <1>1
  <2>3. PICK k \in Nat : k = n - 1
    BY <2>2
  <2>4. k \notin Bad /\ k + 1 = n
    BY <2>1, <2>2, <2>3
  <2>5. PICK r : IsRemaining(s, C, r, k)
    BY <2>4
  <2>6. \E q : IsRemaining(s, C, q, n)
    BY <2>4, <2>5, <1>2
  <2> QED
    BY <2>6
<1> QED
  BY <1>3

LEMMA WithoutIsRemaining ==
  ASSUME NEW S, NEW s \in Seq(S), NEW C
  PROVE  \E r : /\ \A i \in 0 .. Len(s) : r[i] = Remaining(s, C, r, i)
                /\ Without(s, C) = r[Len(s)]
<1>1. PICK r : r = CHOOSE q : IsRemaining(s, C, q, Len(s))
  OBVIOUS
<1>2. IsRemaining(s, C, r, Len(s))
  <2>1. Len(s) \in Nat
    OBVIOUS
  <2> QED
    BY <2>1, <1>1, RemainingExists
<1>3. Without(s, C) = r[Len(s)]
  BY <1>1 DEF Without, IsRemaining, Remaining
<1>4. \A i \in 0 .. Len(s) : r[i] = Remaining(s, C, r, i)
  BY <1>2, Zenon DEF IsRemaining
<1> QED
  BY <1>3, <1>4

\* The places L of f hold, beside characters from C, the characters of w that are not
\* in D, in their order.
Holds(f, L, C, w, D) ==
  /\ \A i \in L : f[i] \in C \/ \E k \in DOMAIN w : f[i] = w[k] /\ w[k] \notin D
  /\ \A k \in DOMAIN w : w[k] \in D \/ \E i \in L : f[i] = w[k] /\ f[i] \notin C
  /\ \A i, j \in L, k, l \in DOMAIN w :
       i < j /\ f[i] = w[k] /\ f[j] = w[l] /\ w[k] \notin D /\ w[l] \notin D => k < l

\* ... which is to say that the same is left of both.
LEMMA HoldsTheSame ==
  ASSUME NEW S, NEW f \in Seq(S), NEW w \in Seq(S), NEW C, NEW D, IsInjective(w),
         Holds(f, DOMAIN f, C, w, D)
  PROVE  Without(f, C) = Without(w, D)
<1>1. PICK r : /\ \A i \in 0 .. Len(f) : r[i] = Remaining(f, C, r, i)
               /\ Without(f, C) = r[Len(f)]
  BY WithoutIsRemaining
<1>2. PICK q : /\ \A i \in 0 .. Len(w) : q[i] = Remaining(w, D, q, i)
               /\ Without(w, D) = q[Len(w)]
  BY WithoutIsRemaining
<1> DEFINE M == Len(f)
           N == Len(w)
           Same(m, n) ==
             /\ \A i \in 1 .. m : f[i] \in C \/ \E k \in 1 .. n : f[i] = w[k] /\ w[k] \notin D
             /\ \A k \in 1 .. n : w[k] \in D \/ \E i \in 1 .. m : f[i] = w[k] /\ f[i] \notin C
             /\ \A i, j \in 1 .. m, k, l \in 1 .. n :
                  i < j /\ f[i] = w[k] /\ f[j] = w[l] /\ w[k] \notin D /\ w[l] \notin D => k < l
           Bad == {b \in Nat : \E m \in 0 .. M, n \in 0 .. N :
                                 b = m + n /\ Same(m, n) /\ r[m] # q[n]}
<1>3. M \in Nat /\ N \in Nat /\ DOMAIN f = 1 .. M /\ DOMAIN w = 1 .. N
  OBVIOUS
<1>4. Same(M, N)
  BY <1>3, Zenon DEF Holds
<1>5. \A k, l \in 1 .. N : w[k] = w[l] => k = l
  BY <1>3 DEF IsInjective
<1>6. /\ \A i \in 0 .. M : r[i] = Remaining(f, C, r, i)
      /\ \A i \in 0 .. N : q[i] = Remaining(w, D, q, i)
  BY <1>1, <1>2
<1>7. ASSUME NEW m \in 0 .. M, NEW n \in 0 .. N, Same(m, n), r[m] # q[n],
             \A k \in Bad : m + n <= k
      PROVE  FALSE
  <2>1. ASSUME NEW a \in 0 .. m, NEW b \in 0 .. n, Same(a, b), a + b < m + n
        PROVE  r[a] = q[b]
    <3>1. a + b \in Nat /\ ~(m + n <= a + b) /\ a \in 0 .. M /\ b \in 0 .. N
      BY <1>3, <2>1
    <3>2. a + b \notin Bad
      BY <1>7, <3>1
    <3> HIDE DEF Same
    <3> QED
      BY <2>1, <3>1, <3>2
  <2>2. CASE m > 0 /\ f[m] \in C
    <3>1. Same(m - 1, n)
      <4>1. \A i \in 1 .. m : i = m \/ i \in 1 .. m - 1
        OBVIOUS
      <4>2. \A i \in 1 .. m - 1 : i \in 1 .. m
        OBVIOUS
      <4> QED
        BY <1>7, <2>2, <4>1, <4>2
    <3>2. r[m - 1] = q[n]
      <4> HIDE DEF Same
      <4> QED
        BY <2>1, <2>2, <3>1
    <3>3. r[m] = r[m - 1]
      BY <1>6, <2>2 DEF Remaining
    <3> QED
      BY <1>7, <3>2, <3>3
  <2>3. CASE n > 0 /\ w[n] \in D
    <3>1. Same(m, n - 1)
      BY <1>3, <1>7, <2>3, SMTT(20)
    <3>2. r[m] = q[n - 1]
      <4> HIDE DEF Same
      <4> QED
        BY <2>1, <2>3, <3>1, SMTT(20)
    <3>3. q[n] = q[n - 1]
      BY <1>6, <2>3 DEF Remaining
    <3> QED
      BY <1>7, <3>2, <3>3
  <2>4. CASE (m > 0 => f[m] \notin C) /\ (n > 0 => w[n] \notin D)
    <3>1. m = 0 <=> n = 0
      <4>1. m = 0 => n = 0
        <5>1. ASSUME m = 0, n # 0 PROVE FALSE
          <6>1. n \in 1 .. n /\ w[n] \notin D /\ 1 .. m = {}
            BY <2>4, <5>1
          <6> QED
            BY <1>7, <6>1
        <5> QED
          BY <5>1
      <4>2. n = 0 => m = 0
        <5>1. ASSUME n = 0, m # 0 PROVE FALSE
          <6>1. m \in 1 .. m /\ f[m] \notin C /\ 1 .. n = {}
            BY <2>4, <5>1
          <6> QED
            BY <1>7, <6>1
        <5> QED
          BY <5>1
      <4> QED
        BY <4>1, <4>2
    <3>2. CASE m = 0 /\ n = 0
      BY <1>6, <1>7, <3>2 DEF Remaining
    <3>3. CASE m > 0 /\ n > 0
      <4>1. m \in 1 .. m /\ n \in 1 .. n /\ f[m] \notin C /\ w[n] \notin D
        BY <2>4, <3>3
      <4>2. PICK k \in 1 .. n : f[m] = w[k] /\ w[k] \notin D
        BY <1>7, <4>1
      <4>3. PICK i \in 1 .. m : f[i] = w[n] /\ f[i] \notin C
        BY <1>7, <4>1
      <4>4. i = m
        <5>1. SUFFICES ASSUME i < m PROVE FALSE
          OBVIOUS
        <5>2. n < k
          BY <1>7, <4>1, <4>2, <4>3, <5>1
        <5> QED
          BY <4>2, <5>2
      <4>5. f[m] = w[n]
        BY <4>3, <4>4
      <4>6. Same(m - 1, n - 1)
        <5>1. ASSUME NEW j \in 1 .. m - 1
              PROVE  f[j] \in C \/ \E l \in 1 .. n - 1 : f[j] = w[l] /\ w[l] \notin D
          <6>1. SUFFICES ASSUME f[j] \notin C
                PROVE \E l \in 1 .. n - 1 : f[j] = w[l] /\ w[l] \notin D
            OBVIOUS
          <6>2. j \in 1 .. m /\ j < m
            OBVIOUS
          <6>3. PICK l \in 1 .. n : f[j] = w[l] /\ w[l] \notin D
            BY <1>7, <6>1, <6>2
          <6>4. l < n
            BY <1>7, <4>1, <4>5, <6>2, <6>3
          <6> QED
            BY <6>3, <6>4
        <5>2. ASSUME NEW l \in 1 .. n - 1
              PROVE  w[l] \in D \/ \E j \in 1 .. m - 1 : f[j] = w[l] /\ f[j] \notin C
          <6>1. SUFFICES ASSUME w[l] \notin D
                PROVE \E j \in 1 .. m - 1 : f[j] = w[l] /\ f[j] \notin C
            OBVIOUS
          <6>2. l \in 1 .. n /\ l # n
            OBVIOUS
          <6>3. PICK j \in 1 .. m : f[j] = w[l] /\ f[j] \notin C
            BY <1>7, <6>1, <6>2
          <6>4. j # m
            <7>1. SUFFICES ASSUME j = m PROVE FALSE
              OBVIOUS
            <7>2. w[l] = w[n] /\ l \in 1 .. N /\ n \in 1 .. N
              BY <1>3, <3>3, <4>5, <6>2, <6>3, <7>1
            <7> QED
              BY <1>5, <6>2, <7>2
          <6> QED
            BY <6>3, <6>4
        <5> QED
          BY <1>7, <5>1, <5>2
      <4>7. r[m - 1] = q[n - 1]
        <5> HIDE DEF Same
        <5> QED
          BY <2>1, <3>3, <4>6, SMTT(20)
      <4>8. r[m] = Append(r[m - 1], f[m]) /\ q[n] = Append(q[n - 1], w[n])
        <5>1. m # 0 /\ n # 0 /\ f[m] \notin C /\ w[n] \notin D
          BY <3>3, <4>1
        <5>2. r[m] = Remaining(f, C, r, m) /\ q[n] = Remaining(w, D, q, n)
          BY <1>6
        <5> QED
          BY <5>1, <5>2, Zenon DEF Remaining
      <4> QED
        BY <1>7, <4>5, <4>7, <4>8
    <3> QED
      BY <3>1, <3>2, <3>3
  <2> QED
    BY <2>2, <2>3, <2>4
<1>8. Bad = {}
  <2> SUFFICES ASSUME Bad # {} PROVE FALSE
    OBVIOUS
  <2> HIDE DEF Same
  <2>1. PICK b \in Bad : \A k \in Bad : b <= k
    BY LeastElement
  <2>2. PICK m \in 0 .. M, n \in 0 .. N : b = m + n /\ Same(m, n) /\ r[m] # q[n]
    BY <2>1
  <2> QED
    BY <1>7, <2>1, <2>2
<1>9. M + N \notin Bad /\ M + N \in Nat /\ M \in 0 .. M /\ N \in 0 .. N
  <2> HIDE DEF Bad
  <2> QED
    BY <1>3, <1>8
<1>10. r[M] = q[N]
  <2> HIDE DEF Same
  <2> QED
    BY <1>4, <1>9
<1> QED
  BY <1>1, <1>2, <1>10

LEMMA MaxOfTwo ==
  ASSUME NEW a \in Int, NEW b \in Int
  PROVE  Max({a, b}) = IF a >= b THEN a ELSE b
<1>1. \E x \in {a, b} : \A y \in {a, b} : x >= y
  <2>1. CASE a >= b
    BY <2>1
  <2>2. CASE b >= a
    BY <2>2
  <2> QED
    BY <2>1, <2>2
<1>2. Max({a, b}) \in {a, b} /\ \A y \in {a, b} : Max({a, b}) >= y
  BY <1>1 DEF Max
<1> QED
  BY <1>2

\* The file h is f, holes up to p, and then s.
Grown(S, f, p, s, h) ==
  /\ h \in Seq(S) /\ Len(h) = p + Len(s)
  /\ \A i \in 1 .. Len(f) : h[i] = f[i]
  /\ \A i \in Len(f) + 1 .. p : h[i] = Hole
  /\ \A i \in p + 1 .. p + Len(s) : h[i] = s[i - p]

\* A write behind the end of a file, or at it.
LEMMA WrittenBehind ==
  ASSUME NEW S, Hole \in S, NEW f \in Seq(S), NEW p \in Nat, p >= Len(f), NEW s \in Seq(S)
  PROVE  Grown(S, f, p, s, Overwritten(f, p, s))
<1>1. Len(f) \in Nat /\ Len(s) \in Nat /\ p + Len(s) \in Nat
  OBVIOUS
<1>2. Max({Len(f), p + Len(s)}) = p + Len(s)
  BY <1>1, MaxOfTwo
<1>3. PICK o : o = Overwritten(f, p, s)
  OBVIOUS
<1>4. o = [i \in 1 .. p + Len(s) |->
             IF i \in p + 1 .. p + Len(s) THEN s[i - p]
             ELSE IF i <= Len(f) THEN f[i] ELSE Hole]
  BY <1>2, <1>3 DEF Overwritten
<1>5. ASSUME NEW i \in 1 .. p + Len(s)
      PROVE  (IF i \in p + 1 .. p + Len(s) THEN s[i - p]
              ELSE IF i <= Len(f) THEN f[i] ELSE Hole) \in S
  <2>1. CASE i \in p + 1 .. p + Len(s)
    <3>1. i - p \in 1 .. Len(s)
      BY <1>1, <2>1
    <3> QED
      BY <2>1, <3>1
  <2>2. CASE i \notin p + 1 .. p + Len(s)
    BY <1>1, <2>2
  <2> QED
    BY <2>1, <2>2
<1>6. o \in Seq(S) /\ Len(o) = p + Len(s)
  BY <1>1, <1>4, <1>5
<1>7. /\ \A i \in 1 .. Len(f) : o[i] = f[i]
      /\ \A i \in Len(f) + 1 .. p : o[i] = Hole
      /\ \A i \in p + 1 .. p + Len(s) : o[i] = s[i - p]
  BY <1>1, <1>4
<1> QED
  BY <1>3, <1>6, <1>7 DEF Grown

\* The file h is f, but for s at p.
Patched(S, f, p, s, h) ==
  /\ h \in Seq(S) /\ Len(h) = Len(f)
  /\ \A i \in 1 .. Len(f) : h[i] = IF i \in p + 1 .. p + Len(s) THEN s[i - p] ELSE f[i]

\* A write inside the file.
LEMMA WrittenInside ==
  ASSUME NEW S, NEW f \in Seq(S), NEW p \in Nat, NEW s \in Seq(S), p + Len(s) <= Len(f)
  PROVE  Patched(S, f, p, s, Overwritten(f, p, s))
<1>1. Len(f) \in Nat /\ Len(s) \in Nat /\ p + Len(s) \in Nat
  OBVIOUS
<1>2. Max({Len(f), p + Len(s)}) = Len(f)
  BY <1>1, MaxOfTwo
<1>3. PICK o : o = Overwritten(f, p, s)
  OBVIOUS
<1>4. o = [i \in 1 .. Len(f) |->
             IF i \in p + 1 .. p + Len(s) THEN s[i - p]
             ELSE IF i <= Len(f) THEN f[i] ELSE Hole]
  BY <1>2, <1>3 DEF Overwritten
<1>5. ASSUME NEW i \in 1 .. Len(f)
      PROVE  /\ o[i] = IF i \in p + 1 .. p + Len(s) THEN s[i - p] ELSE f[i]
             /\ o[i] \in S
  <2>1. CASE i \in p + 1 .. p + Len(s)
    <3>1. i - p \in 1 .. Len(s)
      BY <1>1, <2>1
    <3> QED
      BY <1>4, <2>1, <3>1
  <2>2. CASE i \notin p + 1 .. p + Len(s)
    BY <1>1, <1>4, <2>2
  <2> QED
    BY <2>1, <2>2
<1>6. DOMAIN o = 1 .. Len(f)
  BY <1>4
<1>7. o = [i \in 1 .. Len(f) |-> o[i]]
  BY <1>4
<1>8. o \in Seq(S) /\ Len(o) = Len(f)
  BY <1>1, <1>5, <1>6, <1>7
<1> QED
  BY <1>3, <1>5, <1>8 DEF Patched

\* The places of a file that matter when s has been added to it at p, and to w.
LEMMA HoldsMore ==
  ASSUME NEW S, NEW f \in Seq(S), NEW s \in Seq(S), NEW w \in Seq(S), NEW g,
         NEW L \in SUBSET (1 .. Len(f)), NEW p \in Nat, p >= Len(f),
         NEW h \in Seq(S), Len(h) = p + Len(s),
         \A i \in 1 .. Len(f) : h[i] = f[i],
         \A i \in Len(f) + 1 .. p : h[i] = Hole,
         \A i \in p + 1 .. p + Len(s) : h[i] = s[i - p],
         Holds(f, L, {Hole}, w, g), g \subseteq Range(w) \cup {Hole},
         IsInjective(w \o s), Hole \notin Range(w \o s)
  PROVE  Holds(h, L \cup Len(f) + 1 .. Len(h), {Hole}, w \o s, g)
<1> DEFINE n == Len(w)
           X == Len(f) + 1 .. Len(h)
<1>1. Len(f) \in Nat /\ n \in Nat /\ Len(s) \in Nat /\ DOMAIN w = 1 .. n
  OBVIOUS
<1>2. PICK v \in Seq(S) : v = w \o s
  BY ConcatProperties
<1>3. /\ Len(v) = n + Len(s) /\ DOMAIN v = 1 .. n + Len(s)
      /\ \A k \in 1 .. n : v[k] = w[k]
      /\ \A k \in n + 1 .. n + Len(s) : v[k] = s[k - n]
  <2>1. /\ Len(v) = Len(w) + Len(s)
        /\ \A i \in 1 .. Len(w) + Len(s) : v[i] = IF i <= Len(w) THEN w[i] ELSE s[i - Len(w)]
    BY <1>2, ConcatProperties
  <2> QED
    BY <1>1, <1>2, <2>1
<1>4. \A k, l \in 1 .. n + Len(s) : v[k] = v[l] => k = l
  BY <1>2, <1>3 DEF IsInjective
<1>5. \A k \in 1 .. n + Len(s) : v[k] # Hole
  BY <1>2, <1>3 DEF Range
<1>6. /\ \A i \in L : f[i] = Hole \/ \E k \in 1 .. n : f[i] = w[k] /\ w[k] \notin g
      /\ \A k \in 1 .. n : w[k] \in g \/ \E i \in L : f[i] = w[k]
      /\ \A i, j \in L, k, l \in 1 .. n :
           i < j /\ f[i] = w[k] /\ f[j] = w[l] /\ w[k] \notin g /\ w[l] \notin g => k < l
  BY <1>1, Zenon DEF Holds
<1>7. ASSUME NEW k \in n + 1 .. n + Len(s)
      PROVE  v[k] \notin g
  <2>1. ASSUME v[k] \in g PROVE FALSE
    <3>1. k \in 1 .. n + Len(s)
      BY <1>1
    <3>2. v[k] \in Range(w)
      BY <1>5, <2>1, <3>1
    <3>3. PICK l \in 1 .. n : v[k] = w[l]
      BY <1>1, <3>2 DEF Range
    <3>4. v[l] = w[l] /\ l \in 1 .. n + Len(s) /\ l # k
      BY <1>1, <1>3
    <3> QED
      BY <1>4, <3>1, <3>3, <3>4
  <2> QED
    BY <2>1
\* A place holds a character of which the number is known.
<1>8. ASSUME NEW i \in L, NEW k \in 1 .. n + Len(s), h[i] = v[k]
      PROVE  k \in 1 .. n /\ f[i] = w[k] /\ w[k] \notin g
  <2>1. h[i] = f[i] /\ f[i] # Hole
    BY <1>1, <1>5, <1>8
  <2>2. PICK l \in 1 .. n : f[i] = w[l] /\ w[l] \notin g
    BY <1>6, <2>1
  <2>3. v[l] = w[l] /\ l \in 1 .. n + Len(s)
    BY <1>1, <1>3
  <2>4. l = k
    BY <1>4, <1>8, <2>1, <2>2, <2>3
  <2> QED
    BY <2>2, <2>4
<1>9. ASSUME NEW i \in X, NEW k \in 1 .. n + Len(s), h[i] = v[k]
      PROVE  k = n + i - p
  <2>1. i \in p + 1 .. p + Len(s)
    <3>1. h[i] # Hole
      BY <1>5, <1>9
    <3>2. i \notin Len(f) + 1 .. p
      BY <3>1
    <3> QED
      BY <1>1, <3>2
  <2>2. PICK l \in n + 1 .. n + Len(s) : l = n + i - p
    <3>1. n + i - p \in n + 1 .. n + Len(s)
      BY <1>1, <2>1
    <3> QED
      BY <3>1
  <2>3. l - n = i - p
    BY <1>1, <2>1, <2>2
  <2>4. v[l] = s[l - n] /\ h[i] = s[i - p]
    BY <1>3, <2>1
  <2>5. v[l] = v[k] /\ l \in 1 .. n + Len(s)
    BY <1>1, <1>9, <2>3, <2>4, SMTT(20)
  <2> QED
    BY <1>4, <2>2, <2>5
<1>10. ASSUME NEW i \in L \cup X
       PROVE  h[i] \in {Hole} \/ \E k \in DOMAIN v : h[i] = v[k] /\ v[k] \notin g
  <2>1. CASE i \in L
    <3>1. h[i] = f[i]
      BY <1>1, <2>1
    <3>2. SUFFICES ASSUME f[i] # Hole
          PROVE  \E k \in DOMAIN v : h[i] = v[k] /\ v[k] \notin g
      BY <3>1
    <3>3. PICK k \in 1 .. n : f[i] = w[k] /\ w[k] \notin g
      BY <1>6, <2>1, <3>2
    <3>4. k \in DOMAIN v /\ v[k] = w[k]
      BY <1>1, <1>3
    <3> QED
      BY <3>1, <3>3, <3>4
  <2>2. CASE i \in X /\ i <= p
    <3>1. i \in Len(f) + 1 .. p
      BY <1>1, <2>2
    <3> QED
      BY <3>1
  <2>3. CASE i \in X /\ i > p
    <3>1. i \in p + 1 .. p + Len(s)
      BY <1>1, <2>3
    <3>2. PICK k \in n + 1 .. n + Len(s) : k = n + i - p
      <4>1. n + i - p \in n + 1 .. n + Len(s)
        BY <1>1, <3>1
      <4> QED
        BY <4>1
    <3>3. k - n = i - p
      BY <1>1, <3>1, <3>2
    <3>4. h[i] = s[i - p] /\ v[k] = s[k - n]
      BY <1>3, <3>1
    <3>5. k \in DOMAIN v
      BY <1>1, <1>3
    <3> QED
      BY <1>7, <3>3, <3>4, <3>5
  <2> QED
    BY <1>1, <2>1, <2>2, <2>3
<1>11. ASSUME NEW k \in DOMAIN v
       PROVE  v[k] \in g \/ \E i \in L \cup X : h[i] = v[k] /\ h[i] \notin {Hole}
  <2>1. k \in 1 .. n + Len(s) /\ v[k] # Hole
    BY <1>3, <1>5
  <2>2. CASE k <= n
    <3>1. k \in 1 .. n /\ v[k] = w[k]
      BY <1>3, <2>1, <2>2
    <3>2. ASSUME v[k] \notin g PROVE \E i \in L \cup X : h[i] = v[k]
      <4>1. PICK i \in L : f[i] = w[k]
        BY <1>6, <3>1, <3>2
      <4>2. h[i] = f[i]
        BY <1>1
      <4> QED
        BY <3>1, <4>1, <4>2
    <3> QED
      BY <2>1, <3>2
  <2>3. CASE k > n
    <3>1. PICK i \in p + 1 .. p + Len(s) : i = k - n + p
      <4>1. k - n + p \in p + 1 .. p + Len(s)
        BY <1>1, <2>1, <2>3
      <4> QED
        BY <4>1
    <3>2. k - n = i - p /\ k \in n + 1 .. n + Len(s)
      BY <1>1, <2>1, <2>3, <3>1, SMTT(20)
    <3>3. h[i] = s[i - p] /\ v[k] = s[k - n]
      BY <1>3, <3>2
    <3>4. i \in X
      BY <1>1, <3>1
    <3> QED
      BY <2>1, <3>2, <3>3, <3>4
  <2> QED
    BY <1>1, <2>1, <2>2, <2>3
<1>12. ASSUME NEW i \in L \cup X, NEW j \in L \cup X, NEW k \in DOMAIN v, NEW l \in DOMAIN v,
              i < j, h[i] = v[k], h[j] = v[l]
       PROVE  k < l
  <2>1. k \in 1 .. n + Len(s) /\ l \in 1 .. n + Len(s)
    BY <1>3
  <2>2. CASE i \in L /\ j \in L
    <3>1. /\ k \in 1 .. n /\ f[i] = w[k] /\ w[k] \notin g
          /\ l \in 1 .. n /\ f[j] = w[l] /\ w[l] \notin g
      BY <1>8, <1>12, <2>1, <2>2
    <3> QED
      BY <1>6, <1>12, <2>2, <3>1
  <2>3. CASE i \in L /\ j \in X
    <3>1. k \in 1 .. n
      BY <1>8, <1>12, <2>1, <2>3
    <3>2. j > p /\ l = n + j - p
      <4>1. l = n + j - p
        BY <1>9, <1>12, <2>1, <2>3
      <4>2. j > p
        BY <1>1, <1>5, <1>12, <2>1, <2>3, SMTT(20)
      <4> QED
        BY <4>1, <4>2
    <3> QED
      BY <1>1, <2>3, <3>1, <3>2
  <2>4. CASE i \in X /\ j \in L
    BY <1>1, <1>12, <2>4
  <2>5. CASE i \in X /\ j \in X
    <3>1. k = n + i - p /\ l = n + j - p
      BY <1>9, <1>12, <2>1, <2>5
    <3> QED
      BY <1>1, <1>12, <2>5, <3>1
  <2> QED
    BY <2>2, <2>3, <2>4, <2>5
<1>13. Holds(h, L \cup X, {Hole}, v, g)
  BY <1>10, <1>11, <1>12, Zenon DEF Holds
<1> QED
  BY <1>2, <1>13

\* What is added to w only is given up.
LEMMA HoldsWithout ==
  ASSUME NEW S, NEW f \in Seq(S), NEW s \in Seq(S), NEW w \in Seq(S), NEW g,
         NEW L \in SUBSET (1 .. Len(f)), NEW h,
         \A i \in 1 .. Len(f) : h[i] = f[i],
         Holds(f, L, {Hole}, w, g), IsInjective(w \o s), Hole \notin Range(w \o s)
  PROVE  Holds(h, L, {Hole}, w \o s, g \cup (Range(w \o s) \ Range(w)))
<1> DEFINE n == Len(w)
<1>1. Len(f) \in Nat /\ n \in Nat /\ Len(s) \in Nat /\ DOMAIN w = 1 .. n
  OBVIOUS
<1>2. PICK v \in Seq(S) : v = w \o s
  BY ConcatProperties
<1>3. DOMAIN v = 1 .. n + Len(s) /\ \A k \in 1 .. n : v[k] = w[k]
  <2>1. /\ Len(v) = Len(w) + Len(s)
        /\ \A i \in 1 .. Len(w) + Len(s) : v[i] = IF i <= Len(w) THEN w[i] ELSE s[i - Len(w)]
    BY <1>2, ConcatProperties
  <2> QED
    BY <1>1, <1>2, <2>1
<1>4. \A k, l \in DOMAIN v : v[k] = v[l] => k = l
  BY <1>2 DEF IsInjective
<1>5. \A k \in DOMAIN v : v[k] # Hole
  BY <1>2 DEF Range
<1>6. /\ \A i \in L : f[i] = Hole \/ \E k \in 1 .. n : f[i] = w[k] /\ w[k] \notin g
      /\ \A k \in 1 .. n : w[k] \in g \/ \E i \in L : f[i] = w[k]
      /\ \A i, j \in L, k, l \in 1 .. n :
           i < j /\ f[i] = w[k] /\ f[j] = w[l] /\ w[k] \notin g /\ w[l] \notin g => k < l
  BY <1>1, Zenon DEF Holds
<1> DEFINE G == g \cup (Range(v) \ Range(w))
<1>7. \A k \in DOMAIN v : v[k] \notin G => k \in 1 .. n /\ w[k] \notin g
  <2>1. SUFFICES ASSUME NEW k \in DOMAIN v, v[k] \notin G PROVE k \in 1 .. n /\ w[k] \notin g
    OBVIOUS
  <2>2. v[k] \in Range(v)
    BY DEF Range
  <2>3. v[k] \in Range(w) /\ v[k] \notin g
    BY <2>1, <2>2
  <2>4. PICK l \in 1 .. n : v[k] = w[l]
    BY <1>1, <2>3 DEF Range
  <2>5. v[l] = w[l] /\ l \in DOMAIN v
    BY <1>1, <1>3
  <2>6. l = k
    BY <1>4, <2>4, <2>5
  <2> QED
    BY <2>3, <2>4, <2>6
<1>8. \A k \in 1 .. n : k \in DOMAIN v /\ v[k] = w[k] /\ (w[k] \in G <=> w[k] \in g)
  <2>1. \A k \in 1 .. n : w[k] \in Range(w)
    BY <1>1 DEF Range
  <2> QED
    BY <1>1, <1>3, <2>1
<1>9. \A i \in L : h[i] = f[i]
  OBVIOUS
<1> HIDE DEF G
<1>10. \A i \in L : h[i] \in {Hole} \/ \E k \in DOMAIN v : h[i] = v[k] /\ v[k] \notin G
  BY <1>6, <1>8, <1>9, SMTT(20)
<1>11. ASSUME NEW k \in DOMAIN v, v[k] \notin G
       PROVE  \E i \in L : h[i] = v[k] /\ h[i] \notin {Hole}
  <2>1. k \in 1 .. n /\ w[k] \notin g /\ v[k] = w[k] /\ v[k] # Hole
    BY <1>5, <1>7, <1>8, <1>11
  <2>2. PICK i \in L : f[i] = w[k]
    BY <1>6, <2>1
  <2>3. h[i] = v[k]
    BY <1>9, <2>1, <2>2
  <2> QED
    BY <2>1, <2>3
<1>12. \A i, j \in L, k, l \in DOMAIN v :
         i < j /\ h[i] = v[k] /\ h[j] = v[l] /\ v[k] \notin G /\ v[l] \notin G => k < l
  BY <1>6, <1>7, <1>8, <1>9
<1>13. Holds(h, L, {Hole}, v, G)
  BY <1>10, <1>11, <1>12, Zenon DEF Holds
<1> QED
  BY <1>2, <1>13 DEF G

\* The first c characters are given up.
LEMMA HoldsRest ==
  ASSUME NEW S, NEW f \in Seq(S), NEW w \in Seq(S), NEW g, NEW c \in 0 .. Len(f),
         Holds(f, 1 .. Len(f), {Hole}, w, g), Hole \notin Range(w)
  PROVE  Holds(f, {i \in DOMAIN f : i > c}, {Hole}, w, g \cup Range(SubSeq(f, 1, c)))
<1>1. PICK h : h = SubSeq(f, 1, c)
  OBVIOUS
<1>2. DOMAIN h = 1 .. c /\ \A i \in 1 .. c : h[i] = f[i]
  BY <1>1
<1>3. \A x : x \in Range(h) <=> \E i \in 1 .. c : f[i] = x
  BY <1>2 DEF Range
<1> DEFINE L == {i \in DOMAIN f : i > c}
           G == g \cup Range(h)
<1>4. Len(f) \in Nat /\ DOMAIN f = 1 .. Len(f)
  OBVIOUS
<1>5. /\ \A i \in 1 .. Len(f) : f[i] = Hole \/ \E k \in DOMAIN w : f[i] = w[k] /\ w[k] \notin g
      /\ \A k \in DOMAIN w : w[k] \in g \/ \E i \in 1 .. Len(f) : f[i] = w[k]
      /\ \A i, j \in 1 .. Len(f), k, l \in DOMAIN w :
           i < j /\ f[i] = w[k] /\ f[j] = w[l] /\ w[k] \notin g /\ w[l] \notin g => k < l
  BY Zenon DEF Holds
<1>6. \A k \in DOMAIN w : w[k] # Hole
  BY DEF Range
<1>7. ASSUME NEW i \in L PROVE f[i] \in {Hole} \/ \E k \in DOMAIN w : f[i] = w[k] /\ w[k] \notin G
  <2>1. SUFFICES ASSUME f[i] # Hole PROVE \E k \in DOMAIN w : f[i] = w[k] /\ w[k] \notin G
    OBVIOUS
  <2>2. i \in 1 .. Len(f) /\ i > c
    OBVIOUS
  <2>3. PICK k \in DOMAIN w : f[i] = w[k] /\ w[k] \notin g
    BY <1>5, <2>1, <2>2
  <2>4. ASSUME w[k] \in Range(h) PROVE FALSE
    <3>1. PICK j \in 1 .. c : f[j] = w[k]
      BY <1>3, <2>4
    <3>2. j \in 1 .. Len(f) /\ j < i
      BY <1>4, <2>2
    <3>3. k < k
      BY <1>5, <2>2, <2>3, <3>1, <3>2
    <3>4. k \in Nat
      OBVIOUS
    <3> QED
      BY <3>3, <3>4
  <2> QED
    BY <2>3, <2>4
<1>8. ASSUME NEW k \in DOMAIN w PROVE w[k] \in G \/ \E i \in L : f[i] = w[k] /\ f[i] \notin {Hole}
  <2>1. SUFFICES ASSUME w[k] \notin G PROVE \E i \in L : f[i] = w[k]
    BY <1>6
  <2>2. PICK i \in 1 .. Len(f) : f[i] = w[k]
    BY <1>5, <2>1
  <2>3. i > c
    BY <1>3, <2>1, <2>2
  <2> QED
    BY <1>4, <2>2, <2>3
<1>9. \A i, j \in L, k, l \in DOMAIN w :
        i < j /\ f[i] = w[k] /\ f[j] = w[l] /\ w[k] \notin G /\ w[l] \notin G => k < l
  BY <1>4, <1>5
<1>10. Holds(f, L, {Hole}, w, G)
  BY <1>7, <1>8, <1>9, Zenon DEF Holds
<1> QED
  BY <1>1, <1>10

\* The characters are at other places, in the same order.
LEMMA HoldsMoved ==
  ASSUME NEW f, NEW h, NEW w, NEW g, NEW L, NEW M, NEW from \in [M -> L],
         Holds(f, L, {Hole}, w, g),
         \A i \in M : h[i] = f[from[i]],
         \A i, j \in M : i < j => from[i] < from[j],
         \A i \in L : \E j \in M : from[j] = i
  PROVE  Holds(h, M, {Hole}, w, g)
<1>1. /\ \A i \in L : f[i] \in {Hole} \/ \E k \in DOMAIN w : f[i] = w[k] /\ w[k] \notin g
      /\ \A k \in DOMAIN w : w[k] \in g \/ \E i \in L : f[i] = w[k] /\ f[i] \notin {Hole}
      /\ \A i, j \in L, k, l \in DOMAIN w :
           i < j /\ f[i] = w[k] /\ f[j] = w[l] /\ w[k] \notin g /\ w[l] \notin g => k < l
  BY Zenon DEF Holds
<1>2. \A i \in M : from[i] \in L
  OBVIOUS
<1>3. \A i \in M : h[i] \in {Hole} \/ \E k \in DOMAIN w : h[i] = w[k] /\ w[k] \notin g
  BY <1>1, <1>2
<1>4. \A k \in DOMAIN w : w[k] \in g \/ \E i \in M : h[i] = w[k] /\ h[i] \notin {Hole}
  BY <1>1, <1>2
<1>5. \A i, j \in M, k, l \in DOMAIN w :
        i < j /\ h[i] = w[k] /\ h[j] = w[l] /\ w[k] \notin g /\ w[l] \notin g => k < l
  BY <1>1, <1>2
<1> QED
  BY <1>3, <1>4, <1>5, Zenon DEF Holds

\* The characters of one line: those kinds, that number, and no two are equal.
OneLine(s, kinds, id) ==
  /\ s \in Seq(Char) /\ IsInjective(s)
  /\ \A i \in DOMAIN s : s[i].kind \in kinds /\ s[i].id = id

LineKinds == {"prefix", "message", "newline", "toolong"}

LEMMA PrintedOnce ==
  ASSUME NEW b, Buffer(b), NEW kinds, NEW id \in Nat, OneLine(b.chars, kinds, id),
         NEW kind \in LineKinds \ kinds, NEW n \in Int
  PROVE  OneLine(Printed(b, Text(kind, id, n), n), kinds \cup {kind}, id)
<1>1. PICK y : y = Text(kind, id, n)
  OBVIOUS
<1>2. PICK c : c = Printed(b, y, n)
  OBVIOUS
<1>3. b.size \in Nat /\ b.pos \in Nat /\ b.chars \in Seq(Char) /\ (b.size > 0 => b.pos <= Len(b.chars))
  BY BufferFacts
<1>4. CASE n < 0 \/ b.size = 0
  <2>1. c = b.chars
    BY <1>2, <1>4, NothingPrinted
  <2> QED
    BY <1>1, <1>2, <2>1 DEF OneLine
<1>5. CASE n >= 0 /\ b.size > 0
  <2>1. PICK m \in Nat : m = n
    BY <1>5
  <2>2. y = [i \in 1 .. m |-> [kind |-> kind, id |-> id, at |-> i]]
    BY <1>1, <2>1 DEF Text
  <2>3. y \in Seq(Char) /\ Len(y) = m
    <3>1. \A i \in 1 .. m : [kind |-> kind, id |-> id, at |-> i] \in Char
      BY DEF Char, LineKinds
    <3> QED
      BY <2>2, <3>1
  <2>4. ASSUME NEW i \in 1 .. m PROVE y[i].kind = kind /\ y[i].id = id /\ y[i].at = i
    <3>1. y[i] = [kind |-> kind, id |-> id, at |-> i]
      BY <2>2
    <3> QED
      BY <3>1
  <2>5. PICK k \in 0 .. m : k = IF m < b.size THEN m ELSE b.size - 1
    <3>1. (IF m < b.size THEN m ELSE b.size - 1) \in 0 .. m
      BY <1>3, <1>5
    <3> QED
      BY <3>1
  <2>6. /\ c \in Seq(Char) /\ Len(c) = b.pos + k
        /\ \A i \in 1 .. b.pos + k : c[i] = IF i <= b.pos THEN b.chars[i] ELSE y[i - b.pos]
    <3>1. /\ Printed(b, y, m) \in Seq(Char) /\ Len(Printed(b, y, m)) = b.pos + k
          /\ \A i \in 1 .. b.pos + k :
               Printed(b, y, m)[i] = IF i <= b.pos THEN b.chars[i] ELSE y[i - b.pos]
      BY <1>5, <2>3, <2>5, PrintedText
    <3> QED
      BY <1>2, <2>1, <3>1
  <2>7. PICK p \in Nat : p = b.pos
    BY <1>3
  <2>8. PICK s \in Seq(Char) : s = b.chars
    BY <1>3
  <2>9. /\ p <= Len(s) /\ Len(s) \in Nat /\ DOMAIN c = 1 .. p + k
        /\ \A i \in 1 .. p : c[i] = s[i]
        /\ \A i \in p + 1 .. p + k : c[i] = y[i - p]
    <3>1. p <= Len(s) /\ Len(s) \in Nat /\ Len(c) = p + k /\ DOMAIN c = 1 .. p + k
      BY <1>3, <1>5, <2>6, <2>7, <2>8
    <3>2. \A i \in 1 .. p + k : c[i] = IF i <= p THEN s[i] ELSE y[i - p]
      BY <2>6, <2>7, <2>8
    <3> QED
      BY <3>1, <3>2, SMTT(20)
  <2>10. /\ \A i, j \in 1 .. Len(s) : s[i] = s[j] => i = j
         /\ \A i \in 1 .. Len(s) : s[i].kind \in kinds /\ s[i].id = id
    BY <2>8 DEF OneLine, IsInjective
  <2>11. ASSUME NEW i \in 1 .. p
         PROVE  c[i] = s[i] /\ i \in 1 .. Len(s) /\ c[i].kind \in kinds /\ c[i].id = id
    <3>1. c[i] = s[i] /\ i \in 1 .. Len(s)
      BY <2>9
    <3> QED
      BY <2>10, <3>1
  <2>12. ASSUME NEW i \in p + 1 .. p + k
         PROVE  c[i].kind = kind /\ c[i].id = id /\ c[i].at = i - p
    <3>1. c[i] = y[i - p]
      BY <2>9
    <3>2. i - p \in 1 .. m
      BY <2>5
    <3> QED
      BY <2>4, <3>1, <3>2
  <2>13. \A i \in 1 .. p + k : i \in 1 .. p \/ i \in p + 1 .. p + k
    OBVIOUS
  <2>14. ASSUME NEW i \in 1 .. p + k, NEW j \in 1 .. p + k, c[i] = c[j]
         PROVE  i = j
    <3>1. CASE i \in 1 .. p /\ j \in 1 .. p
      BY <2>10, <2>11, <2>14, <3>1
    <3>2. CASE i \in p + 1 .. p + k /\ j \in p + 1 .. p + k
      <4>1. i - p = j - p
        BY <2>12, <2>14, <3>2
      <4> QED
        BY <4>1
    <3>3. CASE i \in 1 .. p /\ j \in p + 1 .. p + k
      BY <2>11, <2>12, <2>14, <3>3
    <3>4. CASE i \in p + 1 .. p + k /\ j \in 1 .. p
      BY <2>11, <2>12, <2>14, <3>4
    <3> QED
      BY <2>13, <3>1, <3>2, <3>3, <3>4
  <2>15. \A i \in 1 .. p + k : c[i].kind \in kinds \cup {kind} /\ c[i].id = id
    BY <2>11, <2>12, <2>13
  <2>16. OneLine(c, kinds \cup {kind}, id)
    BY <2>6, <2>9, <2>14, <2>15 DEF OneLine, IsInjective
  <2> QED
    BY <1>1, <1>2, <2>16
<1> QED
  BY <1>3, <1>4, <1>5

\* No two characters of a line are equal.
LEMMA LineOnce ==
  ASSUME NEW st \in Statement, NEW id \in Nat
  PROVE  OneLine(Line(st, id).chars, LineKinds, id)
<1> DEFINE r == Prefixed(st, id)
           m == DoRawLog(r, Text("message", id, st.message), st.message)
<1>1. /\ Buffer(r) /\ Buffer(m)
      /\ Line(st, id).chars = IF m.ok THEN Printed(m, Text("newline", id, 1), 1)
                              ELSE Printed(m, Text("toolong", id, TooLong), TooLong)
  BY LineParts
<1>2. PICK p \in Int, n \in Int : p = st.prefix /\ n = st.message /\ p >= 0
  BY DEF Statement
<1>3. OneLine(Empty.chars, {}, id) /\ Buffer(Empty)
  <2>1. <<>> \in Seq(Char) /\ DOMAIN <<>> = {}
    OBVIOUS
  <2> QED
    BY <2>1, EmptyBuffer DEF Empty, OneLine, IsInjective
<1>4. OneLine(r.chars, {"prefix"}, id)
  <2>1. OneLine(Printed(Empty, Text("prefix", id, p), p), {} \cup {"prefix"}, id)
    BY <1>2, <1>3, PrintedOnce DEF LineKinds
  <2>2. PICK y : y = Text("prefix", id, p)
    OBVIOUS
  <2>3. y \in Seq(Char) /\ Len(y) = p
    BY <1>2, <2>2, TextType
  <2>4. DoRawLog(Empty, y, p).chars = Printed(Empty, y, p)
    BY <1>2, <1>3, <2>3, DoRawLogBuffer
  <2>5. r = DoRawLog(Empty, y, p)
    BY <1>2, <2>2 DEF Prefixed
  <2>6. {} \cup {"prefix"} = {"prefix"}
    OBVIOUS
  <2> QED
    BY <2>1, <2>2, <2>4, <2>5, <2>6
<1> HIDE DEF r
<1>5. OneLine(m.chars, {"prefix", "message"}, id)
  <2>1. OneLine(Printed(r, Text("message", id, n), n), {"prefix"} \cup {"message"}, id)
    BY <1>1, <1>2, <1>4, PrintedOnce DEF LineKinds
  <2>2. PICK y : y = Text("message", id, n)
    OBVIOUS
  <2>3. y \in Seq(Char) /\ (n >= 0 => Len(y) = n)
    BY <1>2, <2>2, TextType
  <2>4. DoRawLog(r, y, n).chars = Printed(r, y, n)
    BY <1>1, <1>2, <2>3, DoRawLogBuffer
  <2>5. m = DoRawLog(r, y, n)
    BY <1>2, <2>2
  <2>6. {"prefix"} \cup {"message"} = {"prefix", "message"}
    OBVIOUS
  <2> QED
    BY <2>1, <2>2, <2>4, <2>5, <2>6
<1> HIDE DEF m
<1>6. PICK one \in Int, t \in Int : one = 1 /\ t = TooLong
  BY BufferSize
<1>7. OneLine(Printed(m, Text("newline", id, one), one), {"prefix", "message"} \cup {"newline"}, id)
  BY <1>1, <1>5, PrintedOnce DEF LineKinds
<1>8. OneLine(Printed(m, Text("toolong", id, t), t), {"prefix", "message"} \cup {"toolong"}, id)
  BY <1>1, <1>5, PrintedOnce DEF LineKinds
<1>9. \/ Line(st, id).chars = Printed(m, Text("newline", id, one), one)
      \/ Line(st, id).chars = Printed(m, Text("toolong", id, t), t)
  BY <1>1, <1>6
<1>10. \A x, kinds : OneLine(x, kinds, id) /\ kinds \subseteq LineKinds
                       => OneLine(x, LineKinds, id)
  BY DEF OneLine
<1> QED
  BY <1>7, <1>8, <1>9, <1>10 DEF LineKinds

\* The number of a character is that of its line, or that of its write.
Numbered(c, lines, writes) ==
  \/ c.kind \in LineKinds /\ c.id \in 0 .. lines
  \/ c.kind \in {"trace", "truncating"} /\ c.id \in 0 .. writes

\* No two characters are equal that have been written or are about to be.
CharsDiffer ==
  /\ written \in Seq(Range(written)) /\ IsInjective(written)
  /\ \A c \in Range(written) : Numbered(c, executed, Len(written))
  /\ \A t \in Threads : pc[t] = "raw" =>
       /\ buffer[t] \in Seq(Char) /\ IsInjective(buffer[t])
       /\ \A c \in Range(buffer[t]) :
            c.kind \in LineKinds /\ c.id \in 0 .. executed /\ c \notin Range(written)
  /\ \A t, u \in Threads : pc[t] = "raw" /\ pc[u] = "raw" /\ t # u =>
       Range(buffer[t]) \cap Range(buffer[u]) = {}

\* A text that is unlike everything that has been written.
Fresh(s) ==
  /\ s \in Seq(Range(s)) /\ IsInjective(s)
  /\ \A c \in Range(s) : c # Hole /\ c \notin Range(written)

LEMMA Joined ==
  ASSUME NEW S, NEW a \in Seq(S), NEW b \in Seq(S),
         IsInjective(a), IsInjective(b), Range(a) \cap Range(b) = {}
  PROVE  /\ a \o b \in Seq(S) /\ IsInjective(a \o b) /\ Len(a \o b) = Len(a) + Len(b)
         /\ Range(a \o b) = Range(a) \cup Range(b)
<1>1. /\ a \o b \in Seq(S) /\ Len(a \o b) = Len(a) + Len(b)
      /\ \A i \in 1 .. Len(a) : (a \o b)[i] = a[i]
      /\ \A i \in Len(a) + 1 .. Len(a) + Len(b) : (a \o b)[i] = b[i - Len(a)]
      /\ Len(a) \in Nat /\ Len(b) \in Nat
  OBVIOUS
<1>2. PICK c \in Seq(S) : c = a \o b
  BY <1>1
<1>3. PICK m \in Nat, n \in Nat : m = Len(a) /\ n = Len(b)
  BY <1>1
<1>4. /\ DOMAIN c = 1 .. m + n /\ DOMAIN a = 1 .. m /\ DOMAIN b = 1 .. n
      /\ \A i \in 1 .. m : c[i] = a[i]
      /\ \A i \in m + 1 .. m + n : c[i] = b[i - m]
  BY <1>1, <1>2, <1>3
<1>5. \A x : x \in Range(a) <=> \E i \in 1 .. m : a[i] = x
  BY <1>4 DEF Range
<1>6. \A x : x \in Range(b) <=> \E i \in 1 .. n : b[i] = x
  BY <1>4 DEF Range
<1>7. \A x : x \in Range(c) <=> \E i \in 1 .. m + n : c[i] = x
  BY <1>4 DEF Range
<1>8. \A i \in 1 .. m + n : i \in 1 .. m \/ (i \in m + 1 .. m + n /\ i - m \in 1 .. n)
  OBVIOUS
<1>9. \A i \in 1 .. n : m + i \in m + 1 .. m + n /\ m + i \in 1 .. m + n /\ c[m + i] = b[i]
  <2>1. SUFFICES ASSUME NEW i \in 1 .. n
                 PROVE  m + i \in m + 1 .. m + n /\ m + i \in 1 .. m + n /\ c[m + i] = b[i]
    OBVIOUS
  <2>2. PICK j \in m + 1 .. m + n : j = m + i
    OBVIOUS
  <2>3. j - m = i
    BY <2>2
  <2> QED
    BY <1>4, <2>2, <2>3
<1>10. \A x : x \in Range(c) => x \in Range(a) \/ x \in Range(b)
  BY <1>4, <1>5, <1>6, <1>7, <1>8
<1>11. \A x : x \in Range(a) => x \in Range(c)
  BY <1>4, <1>5, <1>7
<1>12. \A x : x \in Range(b) => x \in Range(c)
  BY <1>6, <1>7, <1>9
<1>13. ASSUME NEW i \in 1 .. m + n, NEW j \in 1 .. m + n, c[i] = c[j]
       PROVE  i = j
  <2>1. CASE i \in 1 .. m /\ j \in 1 .. m
    BY <1>4, <1>13, <2>1 DEF IsInjective
  <2>2. CASE i \in m + 1 .. m + n /\ j \in m + 1 .. m + n
    <3>1. i - m \in 1 .. n /\ j - m \in 1 .. n /\ b[i - m] = b[j - m]
      BY <1>4, <1>8, <1>13, <2>2
    <3>2. i - m = j - m
      BY <1>4, <3>1 DEF IsInjective
    <3> QED
      BY <3>2
  <2>3. CASE i \in 1 .. m /\ j \in m + 1 .. m + n
    <3>1. c[i] \in Range(a) /\ c[j] \in Range(b)
      BY <1>4, <1>5, <1>6, <1>8, <2>3
    <3> QED
      BY <1>13, <3>1
  <2>4. CASE i \in m + 1 .. m + n /\ j \in 1 .. m
    <3>1. c[j] \in Range(a) /\ c[i] \in Range(b)
      BY <1>4, <1>5, <1>6, <1>8, <2>4
    <3> QED
      BY <1>13, <3>1
  <2> QED
    BY <1>8, <2>1, <2>2, <2>3, <2>4
<1>14. IsInjective(c)
  BY <1>4, <1>13 DEF IsInjective
<1> QED
  BY <1>1, <1>2, <1>10, <1>11, <1>12, <1>14

LEMMA OwnRange ==
  ASSUME NEW S, NEW s \in Seq(S)
  PROVE  s \in Seq(Range(s)) /\ Range(s) \in SUBSET S
<1>1. \A i \in 1 .. Len(s) : s[i] \in Range(s) /\ s[i] \in S
  BY DEF Range
<1>2. s = [i \in 1 .. Len(s) |-> s[i]] /\ Len(s) \in Nat /\ DOMAIN s = 1 .. Len(s)
  OBVIOUS
<1>3. s \in Seq(Range(s))
  BY <1>1, <1>2
<1>4. Range(s) \in SUBSET S
  BY <1>1, <1>2 DEF Range
<1> QED
  BY <1>3, <1>4

LEMMA HoleDiffers ==
  ASSUME NEW c, NEW lines, NEW writes, Numbered(c, lines, writes)
  PROVE  c # Hole
BY DEF Numbered, Hole, LineKinds

\* What a fresh text makes of the output.
LEMMA FreshJoined ==
  ASSUME CharsDiffer, NEW s, Fresh(s)
  PROVE  /\ written \o s \in Seq(Range(written \o s)) /\ IsInjective(written \o s)
         /\ Len(written \o s) = Len(written) + Len(s)
         /\ Range(written \o s) = Range(written) \cup Range(s)
         /\ Hole \notin Range(written \o s)
<1> DEFINE S == Range(written) \cup Range(s)
<1>1. written \in Seq(S) /\ s \in Seq(S)
  BY SeqMonotonic DEF CharsDiffer, Fresh
<1>2. Range(written) \cap Range(s) = {} /\ IsInjective(written) /\ IsInjective(s)
  BY DEF CharsDiffer, Fresh
<1> HIDE DEF S
<1>3. /\ written \o s \in Seq(S) /\ IsInjective(written \o s)
      /\ Len(written \o s) = Len(written) + Len(s)
      /\ Range(written \o s) = Range(written) \cup Range(s)
  BY <1>1, <1>2, Joined
<1>4. written \o s \in Seq(Range(written \o s))
  BY <1>3, OwnRange
<1>5. Hole \notin Range(written) /\ Hole \notin Range(s)
  BY HoleDiffers DEF CharsDiffer, Fresh
<1> QED
  BY <1>3, <1>4, <1>5

\* A thread whose buffer is as before has had it before.
BuffersKept == \A t \in Threads : pc'[t] = "raw" => pc[t] = "raw" /\ buffer'[t] = buffer[t]

LEMMA NothingWritten ==
  ASSUME CharsDiffer, BuffersKept, executed \in Nat, executed' \in Nat, executed' >= executed,
         written' = written
  PROVE  CharsDiffer'
<1>1. \A i \in 0 .. executed : i \in 0 .. executed'
  OBVIOUS
<1>2. \A c \in Range(written) : Numbered(c, executed', Len(written))
  BY <1>1 DEF CharsDiffer, Numbered
<1>3. \A t \in Threads : pc'[t] = "raw" =>
        /\ buffer'[t] \in Seq(Char) /\ IsInjective(buffer'[t])
        /\ \A c \in Range(buffer'[t]) :
             c.kind \in LineKinds /\ c.id \in 0 .. executed' /\ c \notin Range(written)
  BY <1>1 DEF CharsDiffer, BuffersKept
<1>4. \A t, u \in Threads : pc'[t] = "raw" /\ pc'[u] = "raw" /\ t # u =>
        Range(buffer'[t]) \cap Range(buffer'[u]) = {}
  BY DEF CharsDiffer, BuffersKept
<1> QED
  BY <1>2, <1>3, <1>4 DEF CharsDiffer

LEMMA TextWritten ==
  ASSUME CharsDiffer, BuffersKept, executed \in Nat, executed' = executed, NEW s, Fresh(s),
         written' = written \o s,
         \A c \in Range(s) : Numbered(c, executed, Len(written) + Len(s)),
         \A t \in Threads : pc'[t] = "raw" => Range(buffer[t]) \cap Range(s) = {}
  PROVE  CharsDiffer'
<1>1. PICK w : w = written \o s
  OBVIOUS
<1>2. /\ w \in Seq(Range(w)) /\ IsInjective(w) /\ Len(w) = Len(written) + Len(s)
      /\ Range(w) = Range(written) \cup Range(s)
  BY <1>1, FreshJoined
<1>3. Len(written) \in Nat /\ Len(s) \in Nat
  BY DEF CharsDiffer, Fresh
<1>4. \A i \in 0 .. Len(written) : i \in 0 .. Len(w)
  BY <1>2, <1>3
<1>5. \A c \in Range(written) : Numbered(c, executed, Len(w))
  BY <1>4 DEF CharsDiffer, Numbered
<1>6. \A c \in Range(w) : Numbered(c, executed, Len(w))
  BY <1>2, <1>5
<1>7. \A t \in Threads : pc'[t] = "raw" =>
        /\ buffer'[t] \in Seq(Char) /\ IsInjective(buffer'[t])
        /\ \A c \in Range(buffer'[t]) :
             c.kind \in LineKinds /\ c.id \in 0 .. executed /\ c \notin Range(w)
  BY <1>2 DEF CharsDiffer, BuffersKept
<1>8. \A t, u \in Threads : pc'[t] = "raw" /\ pc'[u] = "raw" /\ t # u =>
        Range(buffer'[t]) \cap Range(buffer'[u]) = {}
  BY DEF CharsDiffer, BuffersKept
<1>9. written' = w
  BY <1>1
<1> QED
  BY <1>2, <1>6, <1>7, <1>8, <1>9 DEF CharsDiffer

\* One character of a stack, or of the line of the truncation.
LEMMA FreshCharacter ==
  ASSUME CharsDiffer, NEW c, c.kind \in {"trace", "truncating"}, c.id = Len(written) + 1
  PROVE  /\ Fresh(<<c>>)
         /\ \A x \in Range(<<c>>) : Numbered(x, executed, Len(written) + Len(<<c>>))
         /\ \A t \in Threads : pc[t] = "raw" => Range(buffer[t]) \cap Range(<<c>>) = {}
<1>1. PICK s : s = <<c>>
  OBVIOUS
<1>2. DOMAIN s = {1} /\ s[1] = c /\ Len(s) = 1 /\ s \in Seq({c})
  BY <1>1
<1>3. Range(s) = {c}
  BY <1>2 DEF Range
<1>4. Len(written) \in Nat
  BY DEF CharsDiffer
<1>5. c.kind \notin LineKinds
  BY DEF LineKinds
<1>6. c \notin Range(written)
  <2>1. ~Numbered(c, executed, Len(written))
    BY <1>4, <1>5 DEF Numbered
  <2> QED
    BY <2>1 DEF CharsDiffer
<1>7. c # Hole
  BY DEF Hole
<1>8. Fresh(s)
  BY <1>2, <1>3, <1>6, <1>7 DEF Fresh, IsInjective
<1>9. Numbered(c, executed, Len(written) + Len(s))
  BY <1>2, <1>4 DEF Numbered
<1>10. \A t \in Threads : pc[t] = "raw" => c \notin Range(buffer[t])
  BY <1>5 DEF CharsDiffer
<1> QED
  BY <1>1, <1>3, <1>8, <1>9, <1>10

\* A thread writes something new, or nothing.
Adds == UNCHANGED output \/ \E s : Fresh(s) /\ Put(s)

LEMMA LineAdded ==
  ASSUME Shape, CharsDiffer, NEW t \in Threads, NEW st \in setup.Statements, RawLog(t, st)
  PROVE  CharsDiffer' /\ Adds
<1>1. st \in Statement /\ executed \in Nat
  BY SetupFacts DEF Shape
<1>2. PICK id \in Nat : id = executed + 1
  BY <1>1
<1>3. PICK s : s = Line(st, id).chars
  OBVIOUS
<1>4. OneLine(s, LineKinds, id)
  BY <1>1, <1>3, LineOnce
<1>5. /\ executed' = id /\ written' = written /\ UNCHANGED output
      /\ pc'[t] = "raw" /\ buffer'[t] = s
      /\ \A u \in Threads \ {t} : pc'[u] = pc[u] /\ buffer'[u] = buffer[u]
  BY <1>2, <1>3 DEF RawLog, Shape, Goto, output
<1>6. \A c \in Range(s) : c.kind \in LineKinds /\ c.id = id
  BY <1>4 DEF OneLine, Range
<1>7. \A i \in 0 .. executed : i \in 0 .. id /\ i # id
  BY <1>1, <1>2
<1>8. \A c \in Range(written) : Numbered(c, id, Len(written))
  BY <1>7 DEF CharsDiffer, Numbered
<1>9. ASSUME NEW c \in Range(s) PROVE c \notin Range(written)
  <2>1. ASSUME c \in Range(written) PROVE FALSE
    <3>1. Numbered(c, executed, Len(written))
      BY <2>1 DEF CharsDiffer
    <3>2. c.kind \in LineKinds /\ c.id = id
      BY <1>6
    <3>3. c.id \notin 0 .. executed
      BY <1>7, <3>2
    <3> QED
      BY <3>1, <3>2, <3>3 DEF Numbered, LineKinds
  <2> QED
    BY <2>1
<1>10. ASSUME NEW u \in Threads \ {t}, pc[u] = "raw" PROVE Range(buffer[u]) \cap Range(s) = {}
  BY <1>6, <1>7, <1>10 DEF CharsDiffer
<1>11. id \in 0 .. id
  BY <1>2
<1>12. ASSUME NEW u \in Threads, pc'[u] = "raw"
       PROVE  /\ buffer'[u] \in Seq(Char) /\ IsInjective(buffer'[u])
              /\ \A c \in Range(buffer'[u]) :
                   c.kind \in LineKinds /\ c.id \in 0 .. id /\ c \notin Range(written)
  <2>1. CASE u = t
    BY <1>4, <1>5, <1>6, <1>9, <1>11, <2>1 DEF OneLine
  <2>2. CASE u # t
    BY <1>5, <1>7, <1>12, <2>2 DEF CharsDiffer
  <2> QED
    BY <2>1, <2>2
<1>13. ASSUME NEW u \in Threads, NEW v \in Threads, pc'[u] = "raw", pc'[v] = "raw", u # v
       PROVE  Range(buffer'[u]) \cap Range(buffer'[v]) = {}
  <2>1. CASE u = t
    BY <1>5, <1>10, <1>13, <2>1
  <2>2. CASE v = t
    BY <1>5, <1>10, <1>13, <2>2
  <2>3. CASE u # t /\ v # t
    BY <1>5, <1>13, <2>3 DEF CharsDiffer
  <2> QED
    BY <2>1, <2>2, <2>3
<1> QED
  BY <1>5, <1>8, <1>12, <1>13 DEF CharsDiffer, Adds

LEMMA BufferAdded ==
  ASSUME Shape, CharsDiffer, NEW t \in Threads, Write(t) \/ WriteFatal(t)
  PROVE  CharsDiffer' /\ Adds
<1>1. PICK s : s = buffer[t]
  OBVIOUS
<1>2. /\ pc[t] = "raw" /\ pc'[t] # "raw" /\ Put(s) /\ executed' = executed
      /\ \A u \in Threads \ {t} : pc'[u] = pc[u] /\ buffer'[u] = buffer[u]
  BY <1>1 DEF Write, WriteFatal, Goto, Shape, bounds
<1>3. BuffersKept
  BY <1>2 DEF BuffersKept
<1>4. /\ s \in Seq(Char) /\ IsInjective(s)
      /\ \A c \in Range(s) : c.kind \in LineKinds /\ c.id \in 0 .. executed /\ c \notin Range(written)
  BY <1>1, <1>2 DEF CharsDiffer
<1>5. \A c \in Range(s) : Numbered(c, executed, Len(written) + Len(s))
  BY <1>4 DEF Numbered
<1>6. Fresh(s)
  <2>1. \A c \in Range(s) : c # Hole
    BY <1>5, HoleDiffers
  <2> QED
    BY <1>4, <2>1, OwnRange DEF Fresh
<1>7. \A u \in Threads : pc'[u] = "raw" => Range(buffer[u]) \cap Range(s) = {}
  BY <1>1, <1>2 DEF CharsDiffer
<1>8. written' = written \o s /\ executed \in Nat
  BY <1>2 DEF Put, Shape
<1>9. CharsDiffer'
  BY <1>2, <1>3, <1>5, <1>6, <1>7, <1>8, TextWritten
<1> QED
  BY <1>2, <1>6, <1>9 DEF Adds

LEMMA FrameAdded ==
  ASSUME Shape, CharsDiffer, NEW t \in Threads, DumpPC(t)
  PROVE  CharsDiffer' /\ Adds
<1>1. PICK c : c = [kind |-> "trace", id |-> Len(written) + 1, at |-> Head(trace[t])]
  OBVIOUS
<1>2. c.kind \in {"trace", "truncating"} /\ c.id = Len(written) + 1
  BY <1>1
<1>3. Put(<<c>>) /\ BuffersKept /\ executed' = executed /\ executed \in Nat
      /\ \A u \in Threads : pc'[u] = "raw" => pc[u] = "raw"
  BY <1>1 DEF DumpPC, Goto, Shape, BuffersKept, bounds
<1>4. PICK s : s = <<c>>
  OBVIOUS
<1>5. /\ Fresh(s) /\ \A x \in Range(s) : Numbered(x, executed, Len(written) + Len(s))
      /\ \A u \in Threads : pc[u] = "raw" => Range(buffer[u]) \cap Range(s) = {}
  BY <1>2, <1>4, FreshCharacter
<1>6. written' = written \o s
  BY <1>3, <1>4 DEF Put
<1>7. CharsDiffer'
  BY <1>3, <1>5, <1>6, TextWritten
<1> QED
  BY <1>3, <1>4, <1>5, <1>7 DEF Adds

\* Whatever a thread does.
LEMMA StepAdds ==
  ASSUME Shape, CharsDiffer, RawNext
  PROVE  CharsDiffer' /\ Adds /\ setup' = setup
<1>m. Main \in Threads
  BY RawLogAssumption
<1>e. executed \in Nat
  BY DEF Shape
<1>1. ASSUME UNCHANGED output, executed' \in {executed, executed + 1}, BuffersKept
      PROVE  CharsDiffer' /\ Adds
  BY <1>e, <1>1, NothingWritten DEF Adds, output
<1>2. ASSUME NEW t \in Threads,
             \/ CheckFails(t) \/ Crash(t) \/ FillRaw(t) \/ RecordCrashReason(t)
             \/ SetCrashReason(t) \/ RestoreText(t) \/ Fail(t) \/ CallBase(t)
             \/ \E st \in setup.Statements : LogFatal(t, st)
      PROVE  UNCHANGED output /\ executed' \in {executed, executed + 1} /\ BuffersKept /\ setup' = setup
  <2>1. UNCHANGED <<setup, output, buffer>>
    BY <1>2 DEF CheckFails, Crash, FillRaw, RecordCrashReason, SetCrashReason, RestoreText, Fail,
                CallBase, LogFatal
  <2>2. executed' \in {executed, executed + 1}
    BY <1>2 DEF CheckFails, Crash, FillRaw, RecordCrashReason, SetCrashReason, RestoreText, Fail,
                CallBase, LogFatal, bounds
  <2>3. \A u \in Threads : pc'[u] = "raw" => pc[u] = "raw"
    BY <1>2 DEF CheckFails, Crash, FillRaw, RecordCrashReason, SetCrashReason, RestoreText, Fail,
                CallBase, LogFatal, Flush, Goto, Throw, Exit, Shape
  <2> QED
    BY <2>1, <2>2, <2>3 DEF BuffersKept
<1>3. CASE ResetFailureFunction \/ GetInstalledFailureFunction \/ InstallDump
  <2>1. UNCHANGED <<setup, output, buffer, executed>>
    BY <1>3 DEF ResetFailureFunction, GetInstalledFailureFunction, InstallDump, bounds
  <2>2. \A u \in Threads : pc'[u] = "raw" => pc[u] = "raw"
    BY <1>3, <1>m DEF ResetFailureFunction, GetInstalledFailureFunction, InstallDump, Goto, Shape
  <2> QED
    BY <1>1, <2>1, <2>2 DEF BuffersKept
<1>4. CASE InitGoogleLogging \/ ShutdownGoogleLogging
  <2>1. CASE CheckFails(Main)
    BY <1>1, <1>2, <1>m, <2>1
  <2>2. CASE ~CheckFails(Main)
    <3>1. UNCHANGED <<setup, output, buffer, executed>>
      BY <1>4, <2>2 DEF InitGoogleLogging, ShutdownGoogleLogging, thread
    <3>2. \A u \in Threads : pc'[u] = "raw" => pc[u] = "raw"
      BY <1>4, <1>m, <2>2 DEF InitGoogleLogging, ShutdownGoogleLogging, thread, Goto, Shape
    <3> QED
      BY <1>1, <3>1, <3>2 DEF BuffersKept
  <2> QED
    BY <2>1, <2>2
<1>5. ASSUME NEW f, InstallFailureFunction(f) PROVE CharsDiffer' /\ Adds /\ setup' = setup
  <2>1. UNCHANGED <<setup, output, buffer, pc, executed>>
    BY <1>5 DEF InstallFailureFunction, thread
  <2> QED
    BY <1>1, <2>1 DEF BuffersKept
<1>6. ASSUME NEW t \in Threads, Step(t) PROVE CharsDiffer' /\ Adds /\ setup' = setup
  <2>1. CASE Write(t) \/ WriteFatal(t)
    BY <2>1, BufferAdded DEF Write, WriteFatal
  <2>2. CASE DumpPC(t)
    BY <2>2, FrameAdded DEF DumpPC
  <2> QED
    BY <1>1, <1>2, <1>3, <1>6, <2>1, <2>2 DEF Step
<1>7. ASSUME NEW t \in Threads, NEW st \in setup.Statements, RawLog(t, st) \/ LogFatal(t, st)
      PROVE  CharsDiffer' /\ Adds /\ setup' = setup
  <2>1. CASE RawLog(t, st)
    BY <2>1, LineAdded DEF RawLog
  <2>2. CASE LogFatal(t, st)
    BY <1>1, <1>2, <2>2
  <2> QED
    BY <1>7, <2>1, <2>2
<1> QED
  BY <1>4, <1>5, <1>6, <1>7 DEF RawNext

\* The line of TruncateLogFile itself.
LEMMA TruncatingAdded ==
  ASSUME Shape, CharsDiffer, LogTruncating
  PROVE  CharsDiffer' /\ Adds
<1>1. UNCHANGED <<pc, buffer, executed>> /\ executed \in Nat
  BY DEF LogTruncating, Aside, thread, bounds, Shape
<1>2. BuffersKept
  BY <1>1 DEF BuffersKept
<1>3. CASE UNCHANGED output
  BY <1>1, <1>2, <1>3, NothingWritten DEF Adds, output
<1>4. CASE Put(Text("truncating", Len(written) + 1, 1))
  <2>1. PICK s : s = Text("truncating", Len(written) + 1, 1)
    OBVIOUS
  <2>2. PICK c : c = [kind |-> "truncating", id |-> Len(written) + 1, at |-> 1]
    OBVIOUS
  <2>3. s = <<c>>
    BY <2>1, <2>2 DEF Text
  <2>4. c.kind \in {"trace", "truncating"} /\ c.id = Len(written) + 1
    BY <2>2
  <2>5. /\ Fresh(s) /\ \A x \in Range(s) : Numbered(x, executed, Len(written) + Len(s))
        /\ \A u \in Threads : pc[u] = "raw" => Range(buffer[u]) \cap Range(s) = {}
    BY <2>3, <2>4, FreshCharacter
  <2>6. Put(s) /\ written' = written \o s
    BY <1>4, <2>1 DEF Put
  <2>7. CharsDiffer'
    BY <1>1, <1>2, <2>5, <2>6, TextWritten DEF BuffersKept
  <2> QED
    BY <2>5, <2>6, <2>7 DEF Adds
<1> QED
  BY <1>3, <1>4 DEF LogTruncating

\* The places of the file that the truncation has not given up.
Live ==
  IF at \in {"idle", "fstat"} THEN DOMAIN file
  ELSE IF at = "log" THEN {i \in DOMAIN file : i > size - setup.keep}
  ELSE IF at = "truncate" THEN {i \in DOMAIN file : i <= write_offset}
  ELSE {i \in DOMAIN file : i <= write_offset \/ i > read_offset}

\* Where the truncation is in the file.
PlaceInv ==
  /\ at \in {"idle", "fstat", "log", "read", "write", "truncate"}
  /\ at = "log" => setup.keep < size /\ size <= Len(file)
  /\ at \in {"read", "write"} => write_offset <= read_offset /\ read_offset <= Len(file)
  /\ at = "truncate" => write_offset <= Len(file)
  /\ at = "write" =>
       /\ copybuf \in Seq(Range(copybuf)) /\ read_offset + Len(copybuf) <= Len(file)
       /\ \A i \in 1 .. Len(copybuf) : copybuf[i] = file[read_offset + i]

\* The file has what is not given up of the output; nothing is written before its end
\* but by the truncation.
FileInv ==
  /\ file \in Seq(Range(file))
  /\ {offset, size, read_offset, write_offset} \subseteq Nat
  /\ offset >= Len(file)
  /\ given_up \subseteq Range(written) \cup {Hole}
  /\ PlaceInv
  /\ Holds(file, Live, {Hole}, written, given_up)

LostInv == CharsDiffer /\ (~failed => FileInv)

\* The file and the output after a text has been added.
LEMMA FileGrows ==
  ASSUME CharsDiffer, FileInv, NEW s, Fresh(s), Put(s)
  PROVE  /\ file' \in Seq(Range(file')) /\ offset' \in Nat /\ offset' >= Len(file')
         /\ Len(file') >= Len(file) /\ \A i \in 1 .. Len(file) : file'[i] = file[i]
         /\ Range(written) \subseteq Range(written')
         /\ \A L \in SUBSET (1 .. Len(file)) : Holds(file, L, {Hole}, written, given_up) =>
              /\ Holds(file', L \cup Len(file) + 1 .. Len(file'), {Hole}, written', given_up)
              /\ Holds(file', L, {Hole}, written',
                       given_up \cup (Range(written') \ Range(written)))
<1>1. PICK p \in Nat : p = (IF setup.append THEN Len(file) ELSE offset) /\ p >= Len(file)
  BY DEF FileInv
<1>2. PICK h : h = file'
  OBVIOUS
<1>3. h = Overwritten(file, p, s) /\ offset' = p + Len(s) /\ written' = written \o s
  BY <1>1, <1>2 DEF Put
<1>S. PICK S : S = Range(file) \cup Range(written) \cup Range(s) \cup {Hole}
  OBVIOUS
<1>4. file \in Seq(S) /\ written \in Seq(S) /\ s \in Seq(S) /\ Hole \in S
  <2>1. file \in Seq(S)
    BY <1>S, SeqMonotonic DEF FileInv
  <2>2. written \in Seq(S)
    BY <1>S, SeqMonotonic DEF CharsDiffer
  <2>3. s \in Seq(S)
    BY <1>S, SeqMonotonic DEF Fresh
  <2> QED
    BY <1>S, <2>1, <2>2, <2>3
<1>5. /\ IsInjective(written \o s) /\ Hole \notin Range(written \o s)
      /\ Range(written \o s) = Range(written) \cup Range(s)
  BY FreshJoined
<1>6. /\ h \in Seq(S) /\ Len(h) = p + Len(s)
      /\ \A i \in 1 .. Len(file) : h[i] = file[i]
      /\ \A i \in Len(file) + 1 .. p : h[i] = Hole
      /\ \A i \in p + 1 .. p + Len(s) : h[i] = s[i - p]
  <2>1. PICK f \in Seq(S) : f = file
    BY <1>4
  <2>2. p >= Len(f)
    BY <1>1, <2>1
  <2>3. Grown(S, f, p, s, Overwritten(f, p, s))
    BY <1>4, <2>2, WrittenBehind
  <2> QED
    BY <1>3, <2>1, <2>3, Zenon DEF Grown
<1>7. Len(file) \in Nat /\ Len(s) \in Nat
  BY <1>4
<1>8. h \in Seq(Range(h)) /\ offset' \in Nat /\ offset' >= Len(h) /\ Len(h) >= Len(file)
  <2>1. h \in Seq(Range(h))
    BY <1>6, OwnRange
  <2>2. PICK n \in Nat, k \in Nat : n = Len(file) /\ k = Len(s)
    BY <1>7
  <2>3. Len(h) = p + k /\ offset' = p + k /\ p >= n
    BY <1>1, <1>3, <1>6, <2>2
  <2> QED
    BY <2>1, <2>2, <2>3
<1>9. ASSUME NEW L \in SUBSET (1 .. Len(file)), Holds(file, L, {Hole}, written, given_up)
      PROVE  /\ Holds(h, L \cup Len(file) + 1 .. Len(h), {Hole}, written \o s, given_up)
             /\ Holds(h, L, {Hole}, written \o s,
                      given_up \cup (Range(written \o s) \ Range(written)))
  <2>1. Holds(h, L \cup Len(file) + 1 .. Len(h), {Hole}, written \o s, given_up)
    <3>1. PICK f \in Seq(S), w \in Seq(S), x \in Seq(S), g \in {given_up} :
            f = file /\ w = written /\ x = s /\ g = given_up
      BY <1>4
    <3>2. /\ L \in SUBSET (1 .. Len(f)) /\ g \subseteq Range(w) \cup {Hole} /\ p >= Len(f)
          /\ Holds(f, L, {Hole}, w, g) /\ IsInjective(w \o x) /\ Hole \notin Range(w \o x)
      BY <1>1, <1>5, <1>9, <3>1 DEF FileInv
    <3>3. /\ h \in Seq(S) /\ Len(h) = p + Len(x)
          /\ \A i \in 1 .. Len(f) : h[i] = f[i]
          /\ \A i \in Len(f) + 1 .. p : h[i] = Hole
          /\ \A i \in p + 1 .. p + Len(x) : h[i] = x[i - p]
      BY <1>6, <3>1
    <3>4. Holds(h, L \cup Len(f) + 1 .. Len(h), {Hole}, w \o x, g)
      BY <3>2, <3>3, HoldsMore
    <3> QED
      BY <3>1, <3>4
  <2>2. Holds(h, L, {Hole}, written \o s, given_up \cup (Range(written \o s) \ Range(written)))
    BY <1>4, <1>5, <1>6, <1>9, HoldsWithout
  <2> QED
    BY <2>1, <2>2
<1> QED
  BY <1>2, <1>3, <1>5, <1>6, <1>8, <1>9

\* The length of the file and its places.
LEMMA FilePlaces ==
  ASSUME FileInv
  PROVE  Len(file) \in Nat /\ DOMAIN file = 1 .. Len(file) /\ Live \in SUBSET (1 .. Len(file))
<1>1. Len(file) \in Nat /\ DOMAIN file = 1 .. Len(file)
  BY DEF FileInv
<1> QED
  BY <1>1 DEF Live

\* A text is added, and the truncation stands still.
LEMMA BesideKeeps ==
  ASSUME Shape, CharsDiffer, FileInv, Adds, Beside, setup' = setup
  PROVE  FileInv'
<1>1. UNCHANGED <<at, size, copybuf, read_offset, write_offset>>
  BY DEF Beside, locals
<1>2. CASE UNCHANGED output
  <2>1. file' = file /\ offset' = offset /\ written' = written /\ given_up' = given_up
    BY <1>2 DEF output, Beside
  <2> QED
    BY <1>1, <2>1 DEF FileInv, PlaceInv, Live
<1>3. ASSUME NEW s, Fresh(s), Put(s) PROVE FileInv'
  <2>1. PICK h, w, g : h = file' /\ w = written' /\ g = given_up'
    OBVIOUS
  <2>2. /\ h \in Seq(Range(h)) /\ offset' \in Nat /\ offset' >= Len(h)
        /\ Len(h) >= Len(file) /\ \A i \in 1 .. Len(file) : h[i] = file[i]
        /\ Range(written) \subseteq Range(w)
        /\ Holds(h, Live \cup Len(file) + 1 .. Len(h), {Hole}, w, given_up)
        /\ Holds(h, Live, {Hole}, w, given_up \cup (Range(w) \ Range(written)))
    <3>1. Holds(file, Live, {Hole}, written, given_up) /\ Live \in SUBSET (1 .. Len(file))
      BY FilePlaces DEF FileInv
    <3> QED
      BY <1>3, <2>1, <3>1, FileGrows
  <2>3. g = IF at = "truncate" THEN given_up \cup (Range(w) \ Range(written)) ELSE given_up
    BY <2>1 DEF Beside
  <2>4. g \subseteq Range(w) \cup {Hole}
    BY <2>2, <2>3 DEF FileInv
  <2>5. Len(file) \in Nat /\ DOMAIN file = 1 .. Len(file) /\ Len(h) \in Nat /\ DOMAIN h = 1 .. Len(h)
    BY <2>2, FilePlaces
  <2>6. PlaceInv'
    <3>1. at = "write" =>
            /\ Len(copybuf) \in Nat /\ read_offset \in Nat
            /\ \A i \in 1 .. Len(copybuf) : read_offset + i \in 1 .. Len(file)
      BY <2>5 DEF FileInv, PlaceInv
    <3>2. at = "write" => \A i \in 1 .. Len(copybuf) : copybuf[i] = h[read_offset + i]
      BY <2>2, <3>1 DEF FileInv, PlaceInv
    <3>3. {size, read_offset, write_offset} \subseteq Nat
      BY DEF FileInv
    <3>4. /\ at = "log" => setup.keep < size /\ size <= Len(h)
          /\ at \in {"read", "write"} => write_offset <= read_offset /\ read_offset <= Len(h)
          /\ at = "truncate" => write_offset <= Len(h)
          /\ at = "write" =>
               copybuf \in Seq(Range(copybuf)) /\ read_offset + Len(copybuf) <= Len(h)
      BY <2>2, <2>5, <3>1, <3>3 DEF FileInv, PlaceInv
    <3> QED
      BY <1>1, <2>1, <3>2, <3>4 DEF FileInv, PlaceInv
  <2>7. Holds(h, Live', {Hole}, w, g)
    <3>1. CASE at = "truncate"
      <4>1. Live' = {i \in 1 .. Len(h) : i <= write_offset}
        BY <1>1, <2>1, <2>5, <3>1 DEF Live
      <4>2. Live = {i \in 1 .. Len(file) : i <= write_offset}
        BY <2>5, <3>1 DEF Live
      <4>3. write_offset \in Nat /\ write_offset <= Len(file)
        BY <3>1 DEF FileInv, PlaceInv
      <4>4. Live' = Live
        BY <2>2, <2>5, <4>1, <4>2, <4>3
      <4> QED
        BY <2>2, <2>3, <3>1, <4>4
    <3>2. CASE at # "truncate"
      <4>1. Live' = Live \cup Len(file) + 1 .. Len(h)
        <5>1. CASE at \in {"idle", "fstat"}
          <6>1. Live' = 1 .. Len(h) /\ Live = 1 .. Len(file)
            BY <1>1, <2>1, <2>5, <5>1 DEF Live
          <6> QED
            BY <2>2, <2>5, <6>1
        <5>2. CASE at = "log"
          <6>1. /\ Live' = {i \in 1 .. Len(h) : i > size - setup.keep}
                /\ Live = {i \in 1 .. Len(file) : i > size - setup.keep}
            BY <1>1, <2>1, <2>5, <5>2 DEF Live
          <6>2. size \in Nat /\ setup.keep \in Nat /\ size <= Len(file)
            BY <5>2, SetupFacts DEF FileInv, PlaceInv, Shape, Setup
          <6> QED
            BY <2>2, <2>5, <6>1, <6>2
        <5>3. CASE at \in {"read", "write"}
          <6>1. /\ Live' = {i \in 1 .. Len(h) : i <= write_offset \/ i > read_offset}
                /\ Live = {i \in 1 .. Len(file) : i <= write_offset \/ i > read_offset}
            BY <1>1, <2>1, <2>5, <5>3 DEF Live
          <6>2. /\ write_offset \in Nat /\ read_offset \in Nat
                /\ write_offset <= read_offset /\ read_offset <= Len(file)
            BY <5>3 DEF FileInv, PlaceInv
          <6> QED
            BY <2>2, <2>5, <6>1, <6>2
        <5> QED
          BY <3>2, <5>1, <5>2, <5>3 DEF FileInv, PlaceInv
      <4> QED
        BY <2>2, <2>3, <3>2, <4>1
    <3> QED
      BY <3>1, <3>2
  <2>8. {offset', size', read_offset', write_offset'} \subseteq Nat
    BY <1>1, <2>2 DEF FileInv
  <2> QED
    BY <2>1, <2>2, <2>4, <2>6, <2>7, <2>8 DEF FileInv
<1> QED
  BY <1>2, <1>3 DEF Adds

\* The steps of a truncation that leave the file and the output as they are.
LEMMA LookingKeeps ==
  ASSUME Shape, CharsDiffer, FileInv, ~failed', Open \/ Fstat \/ FstatFails \/ Pread
  PROVE  FileInv'
<1>1. UNCHANGED <<setup, file, offset, written>>
  BY DEF Open, Fstat, FstatFails, Pread, Aside, output
<1>2. Len(file) \in Nat /\ DOMAIN file = 1 .. Len(file) /\ Live \in SUBSET (1 .. Len(file))
  BY FilePlaces
<1>k. setup.keep \in Nat
  BY SetupFacts DEF Shape, Setup
<1>3. CASE Open \/ FstatFails
  <2>1. UNCHANGED <<size, copybuf, read_offset, write_offset, given_up>>
    BY <1>3 DEF Open, FstatFails, locals
  <2>2. at \in {"idle", "fstat"} /\ at' \in {"idle", "fstat"}
    BY <1>3 DEF Open, FstatFails, At
  <2>3. Live' = Live
    BY <1>1, <2>2 DEF Live
  <2>4. PlaceInv'
    BY <2>2 DEF PlaceInv
  <2> QED
    BY <1>1, <2>1, <2>3, <2>4 DEF FileInv
<1>4. CASE Fstat
  <2>1. size' = Len(file) /\ UNCHANGED <<copybuf, read_offset, write_offset>> /\ at = "fstat"
    BY <1>4 DEF Fstat
  <2>2. CASE Len(file) <= setup.limit \/ Len(file) <= setup.keep
    <3>1. at' = "idle" /\ given_up' = given_up
      BY <1>4, <2>2 DEF Fstat
    <3>2. Live' = Live /\ PlaceInv'
      BY <1>1, <2>1, <3>1 DEF Live, PlaceInv
    <3> QED
      BY <1>1, <1>2, <2>1, <3>1, <3>2 DEF FileInv
  <2>3. CASE ~(Len(file) <= setup.limit \/ Len(file) <= setup.keep)
    <3>1. /\ at' = "log"
          /\ given_up' = given_up \cup Range(SubSeq(file, 1, Len(file) - setup.keep))
      BY <1>4, <2>3 DEF Fstat
    <3>2. PICK c \in 0 .. Len(file) : c = Len(file) - setup.keep
      <4>1. Len(file) - setup.keep \in 0 .. Len(file)
        BY <1>2, <1>k, <2>3
      <4> QED
        BY <4>1
    <3>3. Live = 1 .. Len(file)
      BY <1>2, <2>1 DEF Live
    <3>4. Holds(file, 1 .. Len(file), {Hole}, written, given_up)
      BY <3>3 DEF FileInv
    <3>5. Hole \notin Range(written)
      BY HoleDiffers DEF CharsDiffer
    <3>6. Holds(file, {i \in DOMAIN file : i > c}, {Hole}, written,
                given_up \cup Range(SubSeq(file, 1, c)))
      <4>1. PICK S : S = Range(file) \cup Range(written)
        OBVIOUS
      <4>2. file \in Seq(S) /\ written \in Seq(S)
        BY <4>1, SeqMonotonic DEF FileInv, CharsDiffer
      <4>3. PICK f \in Seq(S), w \in Seq(S) : f = file /\ w = written
        BY <4>2
      <4>4. c \in 0 .. Len(f) /\ Holds(f, 1 .. Len(f), {Hole}, w, given_up) /\ Hole \notin Range(w)
        BY <3>4, <3>5, <4>3
      <4>5. Holds(f, {i \in DOMAIN f : i > c}, {Hole}, w, given_up \cup Range(SubSeq(f, 1, c)))
        BY <4>4, HoldsRest
      <4> QED
        BY <4>3, <4>5
    <3>7. Live' = {i \in DOMAIN file : i > c}
      BY <1>1, <2>1, <3>1, <3>2 DEF Live
    <3>8. given_up' \subseteq Range(written) \cup {Hole}
      <4>1. \A i \in 1 .. Len(file) : file[i] \in Range(written) \cup {Hole}
        BY <3>4 DEF Holds, Range
      <4>2. Range(SubSeq(file, 1, c)) \subseteq Range(written) \cup {Hole}
        <5>1. PICK h : h = SubSeq(file, 1, c)
          OBVIOUS
        <5>2. DOMAIN h = 1 .. c /\ \A i \in 1 .. c : h[i] = file[i] /\ i \in 1 .. Len(file)
          BY <1>2, <5>1
        <5> QED
          BY <4>1, <5>1, <5>2 DEF Range
      <4> QED
        BY <3>1, <3>2, <4>2 DEF FileInv
    <3>9. PlaceInv'
      BY <1>1, <1>2, <1>k, <2>1, <2>3, <3>1 DEF PlaceInv
    <3> QED
      BY <1>1, <1>2, <2>1, <3>1, <3>2, <3>6, <3>7, <3>8, <3>9 DEF FileInv
  <2> QED
    BY <2>2, <2>3
<1>5. CASE Pread
  <2>1. at = "read" /\ UNCHANGED <<size, read_offset, write_offset, given_up>>
    BY <1>5 DEF Pread
  <2>2. PICK r \in Nat, w \in Nat, k \in Nat \ {0} :
          r = read_offset /\ w = write_offset /\ k = kCopyBlockSize
    BY StderrAssumption DEF FileInv
  <2>3. w <= r /\ r <= Len(file)
    BY <2>1, <2>2 DEF FileInv, PlaceInv
  <2>4. PICK e \in Nat : /\ e = Min({Len(file), r + k})
                        /\ e = IF Len(file) <= r + k THEN Len(file) ELSE r + k
    <3>1. Len(file) \in Int /\ r + k \in Int /\ Len(file) \in Nat /\ r + k \in Nat
      BY <1>2
    <3>2. Min({Len(file), r + k}) = IF Len(file) <= r + k THEN Len(file) ELSE r + k
      BY <3>1, MinOfTwo
    <3> QED
      BY <3>1, <3>2
  <2>5. PICK b : b = copybuf' /\ b = SubSeq(file, r + 1, e)
    BY <1>5, <2>2, <2>4 DEF Pread
  <2>6. at' = IF b = <<>> THEN "truncate" ELSE "write"
    BY <1>5, <2>5 DEF Pread
  <2>7. file \in Seq(Range(file))
    BY DEF FileInv
  <2>8. PICK f \in Seq(Range(file)) : f = file
    BY <2>7
  <2>9. /\ b \in Seq(Range(file)) /\ Len(b) = e - r
        /\ \A i \in 1 .. e - r : b[i] = f[r + i]
    <3>1. r + 1 \in 1 .. Len(f) + 1 /\ e \in 0 .. Len(f) /\ r <= e /\ Len(f) \in Nat
      BY <1>2, <2>3, <2>4, <2>8
    <3>2. /\ b \in Seq(Range(file))
          /\ Len(b) = IF r + 1 <= e THEN e - (r + 1) + 1 ELSE 0
          /\ \A i \in 1 .. e - (r + 1) + 1 : b[i] = f[(r + 1) + i - 1]
      <4>1. \A i \in r + 1 .. e : f[i] \in Range(file)
        BY <2>8, <3>1 DEF Range
      <4> QED
        BY <2>5, <2>8, <3>1, <4>1, SubSeqProperties
    <3>3. e - (r + 1) + 1 = e - r /\ \A i \in 1 .. e - r : (r + 1) + i - 1 = r + i
      BY <3>1
    <3> QED
      BY <3>1, <3>2, <3>3
  <2>10. CASE b = <<>>
    <3>1. e = r /\ r = Len(file)
      <4>1. Len(b) = 0
        BY <2>10
      <4>2. e = r
        BY <2>9, <4>1
      <4>3. Len(file) \in Nat /\ r # r + k
        BY <1>2
      <4> QED
        BY <2>4, <4>2, <4>3
    <3>2. Live = {i \in DOMAIN file : i <= w}
      BY <1>2, <2>1, <2>2, <3>1 DEF Live
    <3>3. Live' = Live
      BY <1>1, <2>1, <2>2, <2>6, <2>10, <3>2 DEF Live
    <3>4. PlaceInv'
      BY <1>1, <2>1, <2>2, <2>3, <2>6, <2>10, <3>1 DEF PlaceInv
    <3> QED
      BY <1>1, <2>1, <3>3, <3>4 DEF FileInv
  <2>11. CASE b # <<>>
    <3>1. at' = "write" /\ Live' = Live
      BY <1>1, <2>1, <2>6, <2>11 DEF Live
    <3>2. b \in Seq(Range(b)) /\ r + Len(b) <= Len(file)
      BY <1>2, <2>3, <2>4, <2>9, OwnRange
    <3>3. \A i \in 1 .. Len(b) : b[i] = file[r + i]
      BY <2>8, <2>9
    <3>4. PlaceInv'
      BY <1>1, <2>1, <2>2, <2>3, <2>5, <3>1, <3>2, <3>3 DEF PlaceInv
    <3> QED
      BY <1>1, <2>1, <3>1, <3>4 DEF FileInv
  <2> QED
    BY <2>10, <2>11
<1> QED
  BY <1>3, <1>4, <1>5

LEMMA LoggingKeeps ==
  ASSUME Shape, CharsDiffer, FileInv, LogTruncating
  PROVE  FileInv'
<1>1. at = "log" /\ at' = "read" /\ read_offset' = size - setup.keep /\ write_offset' = 0
  BY DEF LogTruncating, At
<1>2. UNCHANGED <<setup, size, copybuf, given_up>>
  BY DEF LogTruncating, Aside
<1>3. setup.keep \in Nat /\ size \in Nat /\ setup.keep < size /\ size <= Len(file)
  BY <1>1, SetupFacts DEF Shape, Setup, FileInv, PlaceInv
<1>4. PICK r \in Nat : r = size - setup.keep /\ r <= Len(file)
  BY <1>3, FilePlaces
<1>5. Len(file) \in Nat /\ DOMAIN file = 1 .. Len(file) /\ Live \in SUBSET (1 .. Len(file))
  BY FilePlaces
<1>6. Live = {i \in 1 .. Len(file) : i > r}
  BY <1>1, <1>4, <1>5 DEF Live
<1>7. CASE UNCHANGED output
  <2>1. file' = file /\ written' = written /\ offset' = offset
    BY <1>7 DEF output
  <2>2. Live' = {i \in 1 .. Len(file) : i <= 0 \/ i > r}
    BY <1>1, <1>4, <1>5, <2>1 DEF Live
  <2>3. Live' = Live
    BY <1>6, <2>2
  <2>4. PlaceInv'
    BY <1>1, <1>4, <2>1 DEF PlaceInv
  <2> QED
    BY <1>1, <1>2, <1>4, <2>1, <2>3, <2>4 DEF FileInv
<1>8. ASSUME NEW s, Fresh(s), Put(s) PROVE FileInv'
  <2>1. PICK h, w : h = file' /\ w = written'
    OBVIOUS
  <2>2. /\ h \in Seq(Range(h)) /\ offset' \in Nat /\ offset' >= Len(h)
        /\ Len(h) >= Len(file) /\ Range(written) \subseteq Range(w)
        /\ Holds(h, Live \cup Len(file) + 1 .. Len(h), {Hole}, w, given_up)
    <3>1. Holds(file, Live, {Hole}, written, given_up) /\ Live \in SUBSET (1 .. Len(file))
      BY FilePlaces DEF FileInv
    <3> QED
      BY <1>8, <2>1, <3>1, FileGrows
  <2>3. Len(h) \in Nat /\ DOMAIN h = 1 .. Len(h)
    BY <2>2
  <2>4. Live' = {i \in 1 .. Len(h) : i <= 0 \/ i > r}
    BY <1>1, <1>4, <2>1, <2>3 DEF Live
  <2>5. Live' = Live \cup Len(file) + 1 .. Len(h)
    BY <1>4, <1>5, <1>6, <2>2, <2>3, <2>4
  <2>6. PlaceInv'
    BY <1>1, <1>4, <1>5, <2>1, <2>2, <2>3 DEF PlaceInv
  <2> QED
    BY <1>1, <1>2, <1>4, <2>1, <2>2, <2>5, <2>6 DEF FileInv
<1> QED
  BY <1>7, <1>8, TruncatingAdded DEF Adds

\* A block is copied: what was at read_offset is now at write_offset.
LEMMA CopyingKeeps ==
  ASSUME FileInv, Pwrite
  PROVE  FileInv'
<1>1. at = "write" /\ at' = "read" /\ UNCHANGED <<setup, offset, written, size, copybuf, given_up>>
  BY DEF Pwrite, At, InFile, Aside
<1>2. PICK r \in Nat, w \in Nat, f \in {file}, b \in {copybuf} :
        r = read_offset /\ w = write_offset /\ f = file /\ b = copybuf
  BY DEF FileInv
<1>3. f \in Seq(Range(f)) /\ b \in Seq(Range(b)) /\ w <= r /\ r + Len(b) <= Len(f)
      /\ \A i \in 1 .. Len(b) : b[i] = f[r + i]
  BY <1>1, <1>2 DEF FileInv, PlaceInv
<1>4. PICK n \in Nat, k \in Nat : n = Len(f) /\ k = Len(b) /\ r + k <= n /\ DOMAIN f = 1 .. n
  BY <1>3
<1>5. PICK h : h = file'
  OBVIOUS
<1>6. h = Overwritten(f, w, b) /\ write_offset' = w + k /\ read_offset' = r + k
  BY <1>2, <1>4, <1>5 DEF Pwrite
<1>7. h \in Seq(Range(h)) /\ Len(h) = n
      /\ \A i \in 1 .. n : h[i] = IF i \in w + 1 .. w + k THEN b[i - w] ELSE f[i]
  <2>1. PICK S : S = Range(f) \cup Range(b)
    OBVIOUS
  <2>2. f \in Seq(S) /\ b \in Seq(S)
    BY <1>3, <2>1, SeqMonotonic
  <2>3. Patched(S, f, w, b, h)
    <3>1. w + Len(b) <= Len(f)
      BY <1>3, <1>4
    <3> QED
      BY <1>6, <2>2, <3>1, WrittenInside
  <2>4. h \in Seq(S) /\ Len(h) = Len(f)
        /\ \A i \in 1 .. Len(f) : h[i] = IF i \in w + 1 .. w + Len(b) THEN b[i - w] ELSE f[i]
    BY <2>3 DEF Patched
  <2> QED
    BY <1>4, <2>4, OwnRange
<1>8. Live = {i \in 1 .. n : i <= w \/ i > r}
  BY <1>1, <1>2, <1>4 DEF Live
<1>9. Live' = {i \in 1 .. n : i <= w + k \/ i > r + k}
  <2>1. DOMAIN h = 1 .. n
    BY <1>7
  <2> QED
    BY <1>1, <1>5, <1>6, <2>1 DEF Live
<1>10. PICK L, M : L = Live /\ M = Live'
  OBVIOUS
<1>11. Holds(f, L, {Hole}, written, given_up)
  BY <1>2, <1>10 DEF FileInv
<1> DEFINE from == [i \in M |-> IF i \in w + 1 .. w + k THEN i - w + r ELSE i]
<1>12. ASSUME NEW i \in M
       PROVE  from[i] \in L /\ h[i] = f[from[i]]
  <2>1. i \in 1 .. n /\ (i <= w + k \/ i > r + k)
    BY <1>9, <1>10
  <2>2. CASE i \in w + 1 .. w + k
    <3>1. PICK j \in 1 .. k : j = i - w
      BY <2>2
    <3>2. from[i] = r + j
      BY <2>2, <3>1
    <3>3. r + j \in 1 .. n /\ r + j > r
      BY <1>4
    <3>4. h[i] = b[j] /\ b[j] = f[r + j]
      BY <1>3, <1>4, <1>7, <2>1, <2>2, <3>1
    <3> QED
      BY <1>8, <1>10, <3>2, <3>3, <3>4
  <2>3. CASE i \notin w + 1 .. w + k
    <3>1. from[i] = i /\ h[i] = f[i]
      BY <1>7, <2>1, <2>3
    <3>2. i <= w \/ i > r
      BY <2>1, <2>3
    <3> QED
      BY <1>8, <1>10, <2>1, <3>1, <3>2
  <2> QED
    BY <2>2, <2>3
<1>13. ASSUME NEW i \in M, NEW j \in M, i < j
       PROVE  from[i] < from[j]
  <2>1. /\ i \in 1 .. n /\ (i <= w + k \/ i > r + k)
        /\ j \in 1 .. n /\ (j <= w + k \/ j > r + k)
    BY <1>9, <1>10
  <2>2. /\ from[i] = IF i \in w + 1 .. w + k THEN i - w + r ELSE i
        /\ from[j] = IF j \in w + 1 .. w + k THEN j - w + r ELSE j
    OBVIOUS
  <2> HIDE DEF from
  <2> QED
    BY <1>3, <1>13, <2>1, <2>2
<1>14. ASSUME NEW i \in L
       PROVE  \E j \in M : from[j] = i
  <2>1. i \in 1 .. n /\ (i <= w \/ i > r)
    BY <1>8, <1>10
  <2>2. CASE i <= w
    <3>1. i \in M /\ i \notin w + 1 .. w + k
      BY <1>9, <1>10, <2>1, <2>2
    <3>2. from[i] = i
      BY <3>1
    <3> QED
      BY <3>1, <3>2
  <2>3. CASE i > r + k
    <3>1. i \in M /\ i \notin w + 1 .. w + k
      BY <1>3, <1>9, <1>10, <2>1, <2>3
    <3>2. from[i] = i
      BY <3>1
    <3> QED
      BY <3>1, <3>2
  <2>4. CASE i > r /\ i <= r + k
    <3>1. PICK j \in w + 1 .. w + k : j = i - r + w
      <4>1. i - r + w \in w + 1 .. w + k
        BY <2>1, <2>4
      <4> QED
        BY <4>1
    <3>2. j \in 1 .. n /\ j <= w + k
      BY <1>3, <1>4, <2>1, <2>4, <3>1
    <3>3. j \in M
      BY <1>9, <1>10, <3>2
    <3>4. from[j] = i
      <4>1. from[j] = j - w + r
        BY <3>3
      <4> HIDE DEF from
      <4> QED
        BY <2>1, <3>1, <4>1
    <3> QED
      BY <3>3, <3>4
  <2> QED
    BY <2>1, <2>2, <2>3, <2>4
<1>15. Holds(h, M, {Hole}, written, given_up)
  <2>1. from \in [M -> L]
    BY <1>12
  <2> HIDE DEF from
  <2> QED
    BY <1>11, <1>12, <1>13, <1>14, <2>1, HoldsMoved
<1>16. w + k <= r + k /\ r + k <= n /\ w + k \in Nat /\ r + k \in Nat
  BY <1>3, <1>4
<1>17. PlaceInv'
  BY <1>1, <1>5, <1>6, <1>7, <1>16 DEF PlaceInv
<1>18. offset' \in Nat /\ offset' >= Len(h) /\ size' \in Nat
  BY <1>1, <1>2, <1>4, <1>7 DEF FileInv
<1>19. given_up' \subseteq Range(written') \cup {Hole}
  BY <1>1 DEF FileInv
<1> QED
  BY <1>1, <1>5, <1>6, <1>7, <1>10, <1>15, <1>16, <1>17, <1>18, <1>19 DEF FileInv

\* The rest is cut off.
LEMMA CuttingKeeps ==
  ASSUME FileInv, Ftruncate
  PROVE  FileInv'
<1>1. at = "truncate" /\ at' = "idle"
      /\ UNCHANGED <<setup, offset, written, size, copybuf, read_offset, write_offset, given_up>>
  BY DEF Ftruncate, At, InFile, Aside, locals
<1>2. PICK w \in Nat, f \in {file} : w = write_offset /\ f = file /\ f \in Seq(Range(f))
  BY DEF FileInv
<1>3. PICK n \in Nat : n = Len(f) /\ DOMAIN f = 1 .. n /\ w <= n
  BY <1>1, <1>2 DEF FileInv, PlaceInv
<1>4. PICK h : h = file' /\ h = SubSeq(f, 1, w)
  BY <1>2 DEF Ftruncate
<1>5. h \in Seq(Range(h)) /\ Len(h) = w /\ DOMAIN h = 1 .. w /\ \A i \in 1 .. w : h[i] = f[i]
  <2>1. h \in Seq(Range(f)) /\ Len(h) = w /\ \A i \in 1 .. w : h[i] = f[i]
    BY <1>2, <1>3, <1>4
  <2> QED
    BY <2>1, OwnRange
<1>6. Live' = 1 .. w
  BY <1>1, <1>4, <1>5 DEF Live
<1>7. Live = 1 .. w
  BY <1>1, <1>2, <1>3 DEF Live
<1>8. Holds(f, 1 .. w, {Hole}, written, given_up)
  BY <1>2, <1>7 DEF FileInv
<1>9. Holds(h, 1 .. w, {Hole}, written, given_up)
  BY <1>5, <1>8 DEF Holds
<1>10. PlaceInv'
  BY <1>1 DEF PlaceInv
<1>11. offset' \in Nat /\ offset' >= Len(h)
  BY <1>1, <1>2, <1>3, <1>5 DEF FileInv
<1> QED
  BY <1>1, <1>4, <1>5, <1>6, <1>9, <1>10, <1>11 DEF FileInv

LEMMA LostInit == Init => LostInv
<1> SUFFICES ASSUME Init PROVE LostInv
  OBVIOUS
<1>1. file = <<>> /\ written = <<>> /\ given_up = {} /\ at = "idle" /\ offset = 0
      /\ size = 0 /\ read_offset = 0 /\ write_offset = 0
      /\ \A t \in Threads : pc[t] # "raw"
  BY DEF Init, RawInit
<1>2. <<>> \in Seq({}) /\ DOMAIN <<>> = {} /\ Len(<<>>) = 0
  OBVIOUS
<1>3. Range(<<>>) = {}
  BY DEF Range
<1>4. CharsDiffer
  BY <1>1, <1>2, <1>3 DEF CharsDiffer, IsInjective
<1>5. Holds(<<>>, {}, {Hole}, <<>>, {})
  BY <1>2 DEF Holds
<1>6. Live = {} /\ PlaceInv
  BY <1>1, <1>2 DEF Live, PlaceInv
<1>7. FileInv
  BY <1>1, <1>2, <1>3, <1>5, <1>6 DEF FileInv
<1> QED
  BY <1>4, <1>7 DEF LostInv

LEMMA LostNext == IInv /\ LostInv /\ [Next]_vars => LostInv'
<1> SUFFICES ASSUME IInv, LostInv, [Next]_vars PROVE LostInv'
  OBVIOUS
<1>1. Shape /\ CharsDiffer /\ executed \in Nat
  BY DEF IInv, Shape, LostInv
<1>2. CASE RawNext /\ Beside
  <2>1. CharsDiffer' /\ Adds /\ setup' = setup
    BY <1>1, <1>2, StepAdds
  <2>2. failed' = failed
    BY <1>2 DEF Beside
  <2>3. FileInv => FileInv'
    BY <1>1, <1>2, <2>1, BesideKeeps
  <2> QED
    BY <2>1, <2>2, <2>3 DEF LostInv
<1>3. CASE Truncate
  <2>1. CharsDiffer'
    <3>1. CASE LogTruncating
      BY <1>1, <3>1, TruncatingAdded
    <3>2. CASE ~LogTruncating
      <4>1. UNCHANGED <<pc, buffer, executed, written>>
        BY <1>3, <3>2 DEF Truncate, Open, OpenFails, Fstat, FstatFails, Pread, Pwrite, PwriteShort,
             CopyFails, Ftruncate, FtruncateFails, InFile, Aside, thread, bounds, output
      <4>2. BuffersKept
        BY <4>1 DEF BuffersKept
      <4> QED
        BY <1>1, <4>1, <4>2, NothingWritten
    <3> QED
      BY <3>1, <3>2
  <2>2. ASSUME ~failed' PROVE FileInv'
    <3>1. /\ ~failed
          /\ \/ Open \/ Fstat \/ FstatFails \/ Pread \/ LogTruncating \/ Pwrite \/ Ftruncate
      <4>1. ~OpenFails /\ ~PwriteShort /\ ~CopyFails /\ ~FtruncateFails
        BY <2>2 DEF OpenFails, PwriteShort, CopyFails, FtruncateFails
      <4>2. \/ Open \/ Fstat \/ FstatFails \/ Pread \/ LogTruncating \/ Pwrite \/ Ftruncate
        BY <1>3, <4>1 DEF Truncate
      <4>3. UNCHANGED failed
        BY <4>2 DEF Open, Fstat, FstatFails, Pread, LogTruncating, Pwrite, Ftruncate
      <4> QED
        BY <2>2, <4>2, <4>3
    <3>2. FileInv
      BY <3>1 DEF LostInv
    <3> QED
      BY <1>1, <2>2, <3>1, <3>2, LookingKeeps, LoggingKeeps, CopyingKeeps, CuttingKeeps
  <2> QED
    BY <2>1, <2>2 DEF LostInv
<1>4. CASE UNCHANGED vars
  <2>1. UNCHANGED <<pc, buffer, executed, written, file, offset, setup, at, size, copybuf,
                    read_offset, write_offset, failed, given_up>>
    BY <1>4 DEF vars, rawVars, thread, output, bounds, truncVars, locals
  <2>2. CharsDiffer'
    BY <1>1, <2>1, NothingWritten DEF BuffersKept
  <2>3. FileInv => FileInv'
    BY <2>1 DEF FileInv, PlaceInv, Live
  <2> QED
    BY <2>1, <2>2, <2>3 DEF LostInv
<1> QED
  BY <1>2, <1>3, <1>4 DEF Next

\* Truncations of stderr lose what lies before the last keep bytes, and what is
\* written after the last pread of a block, but nothing else, and keep the order:
\* for blocks and files of any size, any number of threads that write between any two
\* steps of the copying, at the end of the file or at an offset, and any number of
\* truncations, as long as no system call fails.
THEOREM OnlyLateDataIsLost == Spec => []LostOnlyLate
<1>1. Spec => []LostInv
  BY LostInit, LostNext, Invariant, PTL DEF Spec
<1>2. LostInv => LostOnlyLate
  <2> SUFFICES ASSUME LostInv, at = "idle", ~failed
               PROVE  Without(file, {Hole}) = Without(written, given_up)
    BY DEF LostOnlyLate
  <2>1. CharsDiffer /\ FileInv
    BY DEF LostInv
  <2>2. Holds(file, DOMAIN file, {Hole}, written, given_up)
    BY <2>1 DEF FileInv, Live
  <2>3. PICK S : S = Range(file) \cup Range(written)
    OBVIOUS
  <2>4. file \in Seq(S) /\ written \in Seq(S) /\ IsInjective(written)
    BY <2>1, <2>3, SeqMonotonic DEF FileInv, CharsDiffer
  <2> QED
    BY <2>2, <2>4, HoldsTheSame
<1> QED
  BY <1>1, <1>2, PTL

----------------------------------------------------------------------------
(* Stack traces.  A loop of GetStackTrace goes through states that are known:  *)
(* it skips calls, collects as many as fit, and stays where it stops.          *)

\* One iteration of the loop of an implementation that has one.
Iteration(implementation, ips, memory, max_depth, s) ==
  IF implementation = "unwind"
    THEN IF s.at > Len(ips) \/ (s.at > 1 /\ Len(s.result) = max_depth) THEN s
         ELSE [Visit(s, ips[s.at]) EXCEPT !.at = @ + 1]
  ELSE IF implementation = "libunwind"
    THEN IF s.at > Len(ips) \/ Len(s.result) >= max_depth THEN s
         ELSE [Visit(s, ips[s.at]) EXCEPT !.at = @ + 1]
  ELSE IF \/ s.at = nullptr \/ Len(s.result) >= max_depth
          \/ implementation = "x86" /\ memory[s.at].ret = nullptr
    THEN s
    ELSE [Visit(s, memory[s.at].ret) EXCEPT !.at = NextStackFrame(memory, s.at)]

\* The k-th state of the run r.
StateOf(implementation, ips, memory, max_depth, start, r, k) ==
  IF k = 0 THEN start
  ELSE CHOOSE s \in {Iteration(implementation, ips, memory, max_depth, x) : x \in {r[k - 1]}} : TRUE

IsRun(implementation, ips, memory, max_depth, start, r, n) ==
  r = [k \in 0 .. n |-> StateOf(implementation, ips, memory, max_depth, start, r, k)]

Run(implementation, ips, memory, max_depth, start, n) ==
  CHOOSE r : IsRun(implementation, ips, memory, max_depth, start, r, n)

\* A claim that holds of 0, and of each number up to n of whose predecessor it holds.
LEMMA UpTo ==
  ASSUME NEW n \in Nat, NEW C, 0 \in C, \A k \in 1 .. n : k - 1 \in C => k \in C
  PROVE  \A k \in 0 .. n : k \in C
<1> DEFINE Bad == {k \in 0 .. n : k \notin C}
<1> SUFFICES ASSUME Bad # {} PROVE FALSE
  OBVIOUS
<1>1. Bad \in SUBSET Nat
  OBVIOUS
<1>2. PICK m \in Bad : \A k \in Bad : m <= k
  BY <1>1, LeastElement
<1>3. m \in 1 .. n /\ m \notin C
  BY <1>2
<1>4. m - 1 \in 0 .. n /\ ~(m <= m - 1)
  BY <1>3
<1>5. m - 1 \in C
  BY <1>2, <1>4
<1> QED
  BY <1>3, <1>5

\* The run is the one whose states follow from each other.
LEMMA RunIs ==
  ASSUME NEW implementation, NEW ips, NEW memory, NEW max_depth, NEW start, NEW n \in Nat, NEW c,
         c[0] = start,
         \A k \in 1 .. n : c[k] = Iteration(implementation, ips, memory, max_depth, c[k - 1])
  PROVE  Run(implementation, ips, memory, max_depth, start, n)[n] = c[n]
<1> DEFINE Follows(x) == Iteration(implementation, ips, memory, max_depth, x)
           State(r, k) == StateOf(implementation, ips, memory, max_depth, start, r, k)
           Is(r) == IsRun(implementation, ips, memory, max_depth, start, r, n)
<1>1. \A r, k : State(r, k) = IF k = 0 THEN start ELSE Follows(r[k - 1])
  <2> TAKE r, k
  <2> DEFINE y == Follows(r[k - 1])
  <2>1. {Follows(x) : x \in {r[k - 1]}} = {y}
    OBVIOUS
  <2>2. (CHOOSE s \in {y} : TRUE) = y
    OBVIOUS
  <2>3. (CHOOSE s \in {Follows(x) : x \in {r[k - 1]}} : TRUE) = y
    BY <2>1, <2>2
  <2> QED
    BY <2>3, Zenon DEF StateOf
<1>2. \E q : Is(q)
  <2> DEFINE q == [k \in 0 .. n |-> c[k]]
  <2>1. \A k \in 0 .. n : State(q, k) = c[k]
    <3> TAKE k \in 0 .. n
    <3>1. CASE k = 0
      BY <3>1, <1>1
    <3>2. CASE k # 0
      <4>1. k \in 1 .. n /\ k - 1 \in 0 .. n
        BY <3>2
      <4>2. State(q, k) = Follows(q[k - 1])
        BY <3>2, <1>1
      <4>3. q[k - 1] = c[k - 1]
        BY <4>1
      <4> QED
        BY <4>1, <4>2, <4>3
    <3> QED
      BY <3>1, <3>2
  <2> HIDE DEF State
  <2>2. q = [k \in 0 .. n |-> State(q, k)]
    BY <2>1
  <2> HIDE DEF q
  <2> QED
    BY <2>2 DEF IsRun, State
<1>3. PICK r : r = CHOOSE q : Is(q)
  OBVIOUS
<1>4. Is(r)
  BY <1>2, <1>3
<1>5. \A k \in 0 .. n : r[k] = IF k = 0 THEN start ELSE Follows(r[k - 1])
  <2>1. r = [k \in 0 .. n |-> State(r, k)]
    BY <1>4, Zenon DEF IsRun
  <2> HIDE DEF State, Follows
  <2>2. \A k \in 0 .. n : r[k] = State(r, k)
    BY <2>1
  <2> QED
    BY <2>2, <1>1
<1> DEFINE Same == {k \in 0 .. n : r[k] = c[k]}
<1>6. 0 \in Same
  BY <1>5
<1>7. ASSUME NEW k \in 1 .. n, k - 1 \in Same PROVE k \in Same
  <2>1. r[k - 1] = c[k - 1]
    BY <1>7
  <2>2. k \in 0 .. n /\ k # 0
    OBVIOUS
  <2> HIDE DEF Follows
  <2>3. r[k] = Follows(r[k - 1])
    BY <2>2, <1>5
  <2>4. c[k] = Follows(c[k - 1])
    BY DEF Follows
  <2> QED
    BY <2>1, <2>2, <2>3, <2>4
<1>8. \A k \in 0 .. n : k \in Same
  <2> HIDE DEF Same
  <2> QED
    BY <1>6, <1>7, UpTo
<1>9. n \in 0 .. n
  OBVIOUS
<1> QED
  BY <1>3, <1>8, <1>9 DEF Run

LEMMA UnwindRuns ==
  ASSUME NEW ips, NEW max_depth, NEW skip_count
  PROVE  GetStackTrace_unwind(TRUE, ips, max_depth, skip_count) =
           Run("unwind", ips, <<>>, max_depth, Loop(1, skip_count + 1), Len(ips))[Len(ips)].result
<1> DEFINE Loops(x) == IF x.at > Len(ips) \/ (x.at > 1 /\ Len(x.result) = max_depth) THEN x
                      ELSE [Visit(x, ips[x.at]) EXCEPT !.at = @ + 1]
           Follows(x) == Iteration("unwind", ips, <<>>, max_depth, x)
           start == Loop(1, skip_count + 1)
           n == Len(ips)
<1>1. \A x : Follows(x) = Loops(x)
  BY DEF Iteration
<1>2. GetStackTrace_unwind(TRUE, ips, max_depth, skip_count) =
        (CHOOSE r : r = [k \in 0 .. n |-> IF k = 0 THEN start ELSE
                           CHOOSE s \in {Loops(x) : x \in {r[k - 1]}} : TRUE])[n].result
  BY DEF GetStackTrace_unwind, Iterate
<1>3. \A r : IsRun("unwind", ips, <<>>, max_depth, start, r, n) <=>
             r = [k \in 0 .. n |-> IF k = 0 THEN start ELSE
                    CHOOSE s \in {Follows(x) : x \in {r[k - 1]}} : TRUE]
  BY Zenon DEF IsRun, StateOf
<1> HIDE DEF Loops, Follows, start, n
<1>4. \A y : {Follows(x) : x \in {y}} = {Loops(x) : x \in {y}}
  BY <1>1
<1>5. \A r : [k \in 0 .. n |-> IF k = 0 THEN start ELSE
               CHOOSE s \in {Follows(x) : x \in {r[k - 1]}} : TRUE] =
             [k \in 0 .. n |-> IF k = 0 THEN start ELSE
               CHOOSE s \in {Loops(x) : x \in {r[k - 1]}} : TRUE]
  BY <1>4
<1>6. (CHOOSE r : IsRun("unwind", ips, <<>>, max_depth, start, r, n)) =
      (CHOOSE r : r = [k \in 0 .. n |-> IF k = 0 THEN start ELSE
                         CHOOSE s \in {Loops(x) : x \in {r[k - 1]}} : TRUE])
  BY <1>3, <1>5
<1> QED
  BY <1>2, <1>6, Zenon DEF Run, start, n

LEMMA LibunwindRuns ==
  ASSUME NEW ips, NEW max_depth, NEW skip_count
  PROVE  GetStackTrace_libunwind(ips, max_depth, skip_count) =
           Run("libunwind", ips, <<>>, max_depth,
               Loop(1, skip_count + 1), Len(ips))[Len(ips)].result
<1> DEFINE Loops(x) == IF x.at > Len(ips) \/ Len(x.result) >= max_depth THEN x
                      ELSE [Visit(x, ips[x.at]) EXCEPT !.at = @ + 1]
           Follows(x) == Iteration("libunwind", ips, <<>>, max_depth, x)
           start == Loop(1, skip_count + 1)
           n == Len(ips)
<1>1. \A x : Follows(x) = Loops(x)
  BY DEF Iteration
<1>2. GetStackTrace_libunwind(ips, max_depth, skip_count) =
        (CHOOSE r : r = [k \in 0 .. n |-> IF k = 0 THEN start ELSE
                           CHOOSE s \in {Loops(x) : x \in {r[k - 1]}} : TRUE])[n].result
  BY DEF GetStackTrace_libunwind, Iterate
<1>3. \A r : IsRun("libunwind", ips, <<>>, max_depth, start, r, n) <=>
             r = [k \in 0 .. n |-> IF k = 0 THEN start ELSE
                    CHOOSE s \in {Follows(x) : x \in {r[k - 1]}} : TRUE]
  BY Zenon DEF IsRun, StateOf
<1> HIDE DEF Loops, Follows, start, n
<1>4. \A y : {Follows(x) : x \in {y}} = {Loops(x) : x \in {y}}
  BY <1>1
<1>5. \A r : [k \in 0 .. n |-> IF k = 0 THEN start ELSE
               CHOOSE s \in {Follows(x) : x \in {r[k - 1]}} : TRUE] =
             [k \in 0 .. n |-> IF k = 0 THEN start ELSE
               CHOOSE s \in {Loops(x) : x \in {r[k - 1]}} : TRUE]
  BY <1>4
<1>6. (CHOOSE r : IsRun("libunwind", ips, <<>>, max_depth, start, r, n)) =
      (CHOOSE r : r = [k \in 0 .. n |-> IF k = 0 THEN start ELSE
                         CHOOSE s \in {Loops(x) : x \in {r[k - 1]}} : TRUE])
  BY <1>3, <1>5
<1> QED
  BY <1>2, <1>6, Zenon DEF Run, start, n

LEMMA FramePointersRun ==
  ASSUME NEW implementation \in {"x86", "powerpc"}, NEW memory, NEW max_depth, NEW skip_count,
         NEW top, top = IF implementation = "x86" THEN 0 ELSE 1
  PROVE  GetStackTrace_FramePointers(implementation, memory, max_depth, skip_count) =
           Run(implementation, <<>>, memory, max_depth, Loop(Addr(1), skip_count + top),
               Cardinality(DOMAIN memory))[Cardinality(DOMAIN memory)].result
<1> DEFINE Loops(x) == IF \/ x.at = nullptr \/ Len(x.result) >= max_depth
                          \/ implementation = "x86" /\ memory[x.at].ret = nullptr
                         THEN x
                         ELSE [Visit(x, memory[x.at].ret) EXCEPT
                                 !.at = NextStackFrame(memory, x.at)]
           Follows(x) == Iteration(implementation, <<>>, memory, max_depth, x)
           start == Loop(Addr(1), skip_count + top)
           n == Cardinality(DOMAIN memory)
<1>1. \A x : Follows(x) = Loops(x)
  BY DEF Iteration
<1>2. GetStackTrace_FramePointers(implementation, memory, max_depth, skip_count) =
        (CHOOSE r : r = [k \in 0 .. n |-> IF k = 0 THEN start ELSE
                           CHOOSE s \in {Loops(x) : x \in {r[k - 1]}} : TRUE])[n].result
  BY DEF GetStackTrace_FramePointers, Iterate
<1>3. \A r : IsRun(implementation, <<>>, memory, max_depth, start, r, n) <=>
             r = [k \in 0 .. n |-> IF k = 0 THEN start ELSE
                    CHOOSE s \in {Follows(x) : x \in {r[k - 1]}} : TRUE]
  BY Zenon DEF IsRun, StateOf
<1> HIDE DEF Loops, Follows, start, n
<1>4. \A y : {Follows(x) : x \in {y}} = {Loops(x) : x \in {y}}
  BY <1>1
<1>5. \A r : [k \in 0 .. n |-> IF k = 0 THEN start ELSE
               CHOOSE s \in {Follows(x) : x \in {r[k - 1]}} : TRUE] =
             [k \in 0 .. n |-> IF k = 0 THEN start ELSE
               CHOOSE s \in {Loops(x) : x \in {r[k - 1]}} : TRUE]
  BY <1>4
<1>6. (CHOOSE r : IsRun(implementation, <<>>, memory, max_depth, start, r, n)) =
      (CHOOSE r : r = [k \in 0 .. n |-> IF k = 0 THEN start ELSE
                         CHOOSE s \in {Loops(x) : x \in {r[k - 1]}} : TRUE])
  BY <1>3, <1>5
<1> QED
  BY <1>2, <1>6, Zenon DEF Run, start, n

\* What a loop has collected after j calls with the addresses A, K of which it skips.
Collected(A, K, j) == IF j <= K THEN <<>> ELSE [i \in 1 .. j - K |-> A[K + i]]

After(A, K, j, place) ==
  [result |-> Collected(A, K, j), skip_count |-> IF j < K THEN K - j ELSE 0, at |-> place]

\* The call with this address is visited, and the loop goes on to a place.
Moved(s, address, place) == [Visit(s, address) EXCEPT !.at = place]

LEMMA CollectedOne ==
  ASSUME NEW A, NEW K \in Nat, NEW j \in Nat, NEW place, NEW next
  PROVE  /\ Moved(After(A, K, j, place), A[j + 1], next) = After(A, K, j + 1, next)
         /\ Len(After(A, K, j, place).result) = IF j <= K THEN 0 ELSE j - K
         /\ After(A, K, j, place).at = place
<1> DEFINE S == {A[i] : i \in Nat}
           s == Collected(A, K, j)
<1>1. s \in Seq(S) /\ Len(s) = IF j <= K THEN 0 ELSE j - K
  <2>1. CASE j <= K
    BY <2>1 DEF Collected
  <2>2. CASE ~(j <= K)
    <3>1. PICK m \in Nat : m = j - K
      BY <2>2
    <3>2. s = [i \in 1 .. m |-> A[K + i]]
      BY <2>2, <3>1 DEF Collected
    <3>3. \A i \in 1 .. m : A[K + i] \in S
      OBVIOUS
    <3> HIDE DEF s, S
    <3> QED
      BY <2>2, <3>1, <3>2, <3>3
  <2> QED
    BY <2>1, <2>2
<1>2. CASE j < K
  <2>1. Collected(A, K, j + 1) = Collected(A, K, j)
    BY <1>2 DEF Collected
  <2>2. (IF j + 1 < K THEN K - (j + 1) ELSE 0) = (K - j) - 1 /\ K - j > 0
    BY <1>2
  <2>3. Len(Collected(A, K, j)) = IF j <= K THEN 0 ELSE j - K
    BY <1>1
  <2>4. After(A, K, j, place) =
          [result |-> Collected(A, K, j), skip_count |-> K - j, at |-> place]
    BY <1>2, Zenon DEF After
  <2>5. After(A, K, j + 1, next) =
          [result |-> Collected(A, K, j), skip_count |-> (K - j) - 1, at |-> next]
    BY <2>1, <2>2, Zenon DEF After
  <2>6. K - j \in Int
    OBVIOUS
  <2>7. Visit(After(A, K, j, place), A[j + 1]) =
          [result |-> Collected(A, K, j), skip_count |-> (K - j) - 1, at |-> place]
    BY <2>2, <2>4 DEF Visit
  <2>8. Moved(After(A, K, j, place), A[j + 1], next) = After(A, K, j + 1, next)
    <3>1. \A v, a, b : v = [result |-> a, skip_count |-> b, at |-> place] =>
                        [v EXCEPT !.at = next] = [result |-> a, skip_count |-> b, at |-> next]
      OBVIOUS
    <3> QED
      BY <2>5, <2>7, <3>1, Zenon DEF Moved
  <2>9. After(A, K, j, place).at = place /\ After(A, K, j, place).result = Collected(A, K, j)
    BY <2>4
  <2> QED
    BY <2>3, <2>8, <2>9
<1>3. CASE ~(j < K)
  <2>1. Collected(A, K, j + 1) = Append(Collected(A, K, j), A[j + 1])
    <3>1. PICK m \in Nat : m = j - K
      BY <1>3
    <3>2. Collected(A, K, j + 1) = [i \in 1 .. m + 1 |-> A[K + i]]
      BY <1>3, <3>1 DEF Collected
    <3>3. Len(s) = m /\ \A i \in 1 .. m : s[i] = A[K + i]
      BY <1>1, <1>3, <3>1 DEF Collected
    <3>4. K + (m + 1) = j + 1
      BY <3>1
    <3>5. A[j + 1] \in S
      OBVIOUS
    <3> HIDE DEF s, S
    <3>6. Append(s, A[j + 1]) = [i \in 1 .. m + 1 |-> IF i <= m THEN s[i] ELSE A[j + 1]]
      BY <1>1, <3>3, <3>5
    <3>7. \A i \in 1 .. m + 1 : A[K + i] = IF i <= m THEN s[i] ELSE A[j + 1]
      <4> TAKE i \in 1 .. m + 1
      <4>1. CASE i <= m
        BY <3>3, <4>1
      <4>2. CASE ~(i <= m)
        <5>1. i = m + 1
          BY <4>2
        <5> QED
          BY <3>4, <4>2, <5>1
      <4> QED
        BY <4>1, <4>2
    <3>8. [i \in 1 .. m + 1 |-> A[K + i]] = [i \in 1 .. m + 1 |-> IF i <= m THEN s[i] ELSE A[j + 1]]
      BY <3>7
    <3> QED
      BY <3>2, <3>6, <3>8 DEF s
  <2>2. (IF j < K THEN K - j ELSE 0) = 0 /\ (IF j + 1 < K THEN K - (j + 1) ELSE 0) = 0
    BY <1>3
  <2> HIDE DEF s
  <2>3. Len(Collected(A, K, j)) = IF j <= K THEN 0 ELSE j - K
    BY <1>1 DEF s
  <2>4. After(A, K, j, place) = [result |-> Collected(A, K, j), skip_count |-> 0, at |-> place]
    BY <2>2, Zenon DEF After
  <2>5. After(A, K, j + 1, next) =
          [result |-> Append(Collected(A, K, j), A[j + 1]), skip_count |-> 0, at |-> next]
    BY <2>1, <2>2, Zenon DEF After
  <2>6. Visit(After(A, K, j, place), A[j + 1]) =
          [result |-> Append(Collected(A, K, j), A[j + 1]), skip_count |-> 0, at |-> place]
    BY <2>4 DEF Visit
  <2>7. Moved(After(A, K, j, place), A[j + 1], next) = After(A, K, j + 1, next)
    <3>1. \A v, a, b : v = [result |-> a, skip_count |-> b, at |-> place] =>
                        [v EXCEPT !.at = next] = [result |-> a, skip_count |-> b, at |-> next]
      OBVIOUS
    <3> QED
      BY <2>5, <2>6, <3>1, Zenon DEF Moved
  <2>8. Len(After(A, K, j, place).result) = (IF j <= K THEN 0 ELSE j - K)
    BY <2>3, <2>4
  <2>9. After(A, K, j, place).at = place
    BY <2>4
  <2> QED
    BY <2>7, <2>8, <2>9
<1> QED
  BY <1>2, <1>3

\* A loop that visits V calls, and is at places[j] after j of them.
LEMMA LoopCollects ==
  ASSUME NEW implementation, NEW ips, NEW memory, NEW max_depth, NEW start, NEW n \in Nat,
         NEW A, NEW K \in Nat, NEW V \in 0 .. n, NEW places,
         start = After(A, K, 0, places[0]),
         \A j \in 0 .. V : Iteration(implementation, ips, memory, max_depth,
                                     After(A, K, j, places[j])) =
                           IF j < V THEN After(A, K, j + 1, places[j + 1])
                                    ELSE After(A, K, j, places[j])
  PROVE  Run(implementation, ips, memory, max_depth, start, n)[n].result =
           Collected(A, K, V)
<1> DEFINE Reached(j) == After(A, K, j, places[j])
           Follows(x) == Iteration(implementation, ips, memory, max_depth, x)
           c == [k \in 0 .. n |-> IF k < V THEN Reached(k) ELSE Reached(V)]
<1>1. \A k \in 0 .. n : c[k] = IF k < V THEN Reached(k) ELSE Reached(V)
  OBVIOUS
<1>3. c[0] = start
  OBVIOUS
<1>4. \A j \in 0 .. V : Follows(Reached(j)) = IF j < V THEN Reached(j + 1) ELSE Reached(j)
  OBVIOUS
<1> HIDE DEF c, Reached, Follows
<1>5. ASSUME NEW k \in 1 .. n PROVE c[k] = Follows(c[k - 1])
  <2>0. k - 1 \in 0 .. n /\ k \in 0 .. n /\ (k - 1) + 1 = k
    OBVIOUS
  <2>1. CASE k - 1 < V
    <3>1. k - 1 \in 0 .. V
      BY <2>0, <2>1
    <3>2. Follows(Reached(k - 1)) = Reached(k)
      BY <1>4, <2>0, <2>1, <3>1
    <3>3. c[k - 1] = Reached(k - 1)
      BY <1>1, <2>0, <2>1
    <3>4. c[k] = Reached(k)
      <4>1. k < V \/ k = V
        BY <2>1
      <4> QED
        BY <1>1, <2>0, <4>1
    <3> QED
      BY <3>2, <3>3, <3>4
  <2>2. CASE ~(k - 1 < V)
    <3>1. c[k - 1] = Reached(V) /\ c[k] = Reached(V)
      BY <1>1, <2>0, <2>2
    <3>2. Follows(Reached(V)) = Reached(V)
      BY <1>4
    <3> QED
      BY <3>1, <3>2
  <2> QED
    BY <2>1, <2>2
<1>6. Run(implementation, ips, memory, max_depth, start, n)[n] = c[n]
  <2>1. \A k \in 1 .. n : c[k] = Iteration(implementation, ips, memory, max_depth, c[k - 1])
    BY <1>5 DEF Follows
  <2>2. PICK d : d = c
    OBVIOUS
  <2>3. /\ d[0] = start
        /\ \A k \in 1 .. n : d[k] = Iteration(implementation, ips, memory, max_depth, d[k - 1])
    BY <1>3, <2>1, <2>2, Zenon
  <2>4. Run(implementation, ips, memory, max_depth, start, n)[n] = d[n]
    BY <2>3, RunIs
  <2> QED
    BY <2>2, <2>4
<1>7. c[n] = Reached(V)
  BY <1>1
<1> QED
  BY <1>6, <1>7 DEF Reached, After

\* A stack shows the calls ips behind the first ones and as far as the one numbered last, or
\* depth of them.
Shows(stack, ips, first, depth, last) ==
  \E m \in Nat : /\ m <= depth /\ first + m <= last
                 /\ first + m = last \/ m = depth
                 /\ stack = [i \in 1 .. m |-> ips[first + i]]

LEMMA CollectedShows ==
  ASSUME NEW S, NEW ips \in Seq(S), NEW A, NEW K \in Nat, NEW V \in Nat, NEW first \in Nat,
         NEW depth \in Nat, NEW last \in Nat,
         K <= V, V - K <= depth, first + (V - K) <= last,
         first + (V - K) = last \/ V - K = depth,
         \A i \in 1 .. V - K : A[K + i] = ips[first + i]
  PROVE  Shows(Collected(A, K, V), ips, first, depth, last)
<1>1. PICK m \in Nat : m = V - K
  OBVIOUS
<1>2. Collected(A, K, V) = [i \in 1 .. m |-> A[K + i]]
  BY <1>1 DEF Collected
<1>3. [i \in 1 .. m |-> A[K + i]] = [i \in 1 .. m |-> ips[first + i]]
  BY <1>1
<1>4. Collected(A, K, V) = [i \in 1 .. m |-> ips[first + i]]
  BY <1>2, <1>3
<1>5. m <= depth /\ first + m <= last /\ (first + m = last \/ m = depth)
  BY <1>1
<1> QED
  BY <1>4, <1>5 DEF Shows

\* The libraries that are asked for one call after the other.
LEMMA LibrariesShow ==
  ASSUME NEW S, NEW ips \in Seq(S), NEW depth \in Nat \ {0}, NEW skip_count \in Nat,
         skip_count + 1 <= Len(ips)
  PROVE  /\ Shows(GetStackTrace_unwind(TRUE, ips, depth, skip_count), ips, skip_count + 1, depth,
                  Len(ips))
         /\ Shows(GetStackTrace_libunwind(ips, depth, skip_count), ips, skip_count + 1, depth,
                  Len(ips))
<1>1. PICK K \in Nat \ {0} : K = skip_count + 1
  OBVIOUS
<1>2. PICK n \in Nat : n = Len(ips) /\ skip_count + 1 <= n
  <2>1. Len(ips) \in Nat
    OBVIOUS
  <2> QED
    BY <2>1
<1>3. PICK V \in 0 .. n : V = IF n <= K + depth THEN n ELSE K + depth
  OBVIOUS
<1>4. PICK places : places = [j \in Nat |-> j + 1]
  OBVIOUS
<1>5. Loop(1, skip_count + 1) = After(ips, K, 0, places[0])
  <2>1. Collected(ips, K, 0) = <<>>
    BY DEF Collected
  <2> QED
    BY <1>1, <1>4, <2>1 DEF Loop, After
<1>6. ASSUME NEW i \in {"unwind", "libunwind"}, NEW j \in 0 .. V
      PROVE  Iteration(i, ips, <<>>, depth, After(ips, K, j, places[j])) =
               IF j < V THEN After(ips, K, j + 1, places[j + 1]) ELSE After(ips, K, j, places[j])
  <2>1. PICK s : s = After(ips, K, j, places[j])
    OBVIOUS
  <2>2. /\ places[j] = j + 1 /\ places[j + 1] = (j + 1) + 1
        /\ j \in Nat /\ K \in Nat
    BY <1>4
  <2>3. /\ Moved(s, ips[j + 1], (j + 1) + 1) = After(ips, K, j + 1, places[j + 1])
        /\ Len(s.result) = IF j <= K THEN 0 ELSE j - K
        /\ s.at = j + 1
    <3>1. s = After(ips, K, j, j + 1)
      BY <2>1, <2>2
    <3>2. After(ips, K, j + 1, places[j + 1]) = After(ips, K, j + 1, (j + 1) + 1)
      BY <2>2
    <3> QED
      <4>1. Moved(s, ips[j + 1], (j + 1) + 1) = After(ips, K, j + 1, (j + 1) + 1)
        BY <2>2, <3>1, CollectedOne
      <4>2. Len(s.result) = (IF j <= K THEN 0 ELSE j - K)
        BY <2>2, <3>1, <4>1, CollectedOne
      <4>3. s.at = j + 1
        BY <3>1, Zenon DEF After
      <4> QED
        BY <3>2, <4>1, <4>2, <4>3
  <2>4. \A a : Visit(s, a).at = s.at
    BY <2>1 DEF Visit, After
  <2>5. [Visit(s, ips[s.at]) EXCEPT !.at = @ + 1] = After(ips, K, j + 1, places[j + 1])
    BY <2>3, <2>4 DEF Moved
  <2>6. CASE j < V
    <3>1. ~(s.at > n) /\ ~(Len(s.result) = depth) /\ ~(Len(s.result) >= depth)
      BY <1>3, <2>3, <2>6
    <3> QED
      BY <1>2, <2>1, <2>5, <2>6, <3>1 DEF Iteration
  <2>7. CASE ~(j < V)
    <3>1. j = V
      BY <2>7
    <3>2. s.at > n \/ (s.at > 1 /\ Len(s.result) = depth /\ Len(s.result) >= depth)
      BY <1>3, <2>3, <3>1
    <3> QED
      BY <1>2, <2>1, <2>7, <3>2 DEF Iteration
  <2> QED
    BY <2>6, <2>7
<1>7. ASSUME NEW i \in {"unwind", "libunwind"}
      PROVE  Run(i, ips, <<>>, depth, Loop(1, skip_count + 1), n)[n].result = Collected(ips, K, V)
  BY <1>5, <1>6, LoopCollects
<1>8. Shows(Collected(ips, K, V), ips, skip_count + 1, depth, n)
  <2>1. V \in Nat /\ K <= V /\ V - K <= depth /\ K + (V - K) <= n
        /\ (K + (V - K) = n \/ V - K = depth)
    <3>0. K <= n /\ depth \in Nat
      BY <1>1, <1>2
    <3>1. CASE n <= K + depth
      BY <1>3, <3>0, <3>1
    <3>2. CASE ~(n <= K + depth)
      BY <1>3, <3>0, <3>2
    <3> QED
      BY <3>1, <3>2
  <2>2. \A i \in 1 .. V - K : ips[K + i] = ips[K + i]
    OBVIOUS
  <2> QED
    BY <1>1, <1>2, <2>1, <2>2, CollectedShows
<1> QED
  BY <1>2, <1>7, <1>8, UnwindRuns, LibunwindRuns

\* Those that return all at once.
LEMMA ArraysShow ==
  ASSUME NEW S, NEW ips \in Seq(S), NEW depth \in Nat \ {0}, NEW skip_count \in Nat,
         skip_count + 1 <= Len(ips), skip_count + 1 + depth <= kStackLength
  PROVE  /\ Shows(GetStackTrace_generic(ips, depth, skip_count), ips, skip_count + 1, depth,
                  Len(ips))
         /\ Shows(GetStackTrace_windows(ips, depth, skip_count), ips, skip_count + 1, depth,
                  Len(ips))
<1>n. kStackLength \in Nat
  BY StackTraceAssumption
<1>1. PICK first \in Nat : first = skip_count + 1
  OBVIOUS
<1>2. PICK n \in Nat : n = Len(ips) /\ skip_count + 1 <= n
  <2>1. Len(ips) \in Nat
    OBVIOUS
  <2> QED
    BY <2>1
<1>d. depth \in Nat /\ depth > 0 /\ first <= n /\ first + depth <= kStackLength
  BY <1>1, <1>2, <1>n
<1>3. PICK m \in Nat : m = IF n <= first + depth THEN n - first ELSE depth
  <2>1. CASE n <= first + depth
    <3>1. n - first \in Nat
      BY <1>d
    <3> QED
      BY <2>1, <3>1
  <2>2. CASE ~(n <= first + depth)
    BY <1>d, <2>2
  <2> QED
    BY <2>1, <2>2
<1>4. m <= depth /\ first + m <= n /\ (first + m = n \/ m = depth)
  <2>1. CASE n <= first + depth
    BY <1>d, <1>3, <2>1
  <2>2. CASE ~(n <= first + depth)
    BY <1>d, <1>3, <2>2
  <2> QED
    BY <2>1, <2>2
<1>5. Shows([i \in 1 .. m |-> ips[first + i]], ips, skip_count + 1, depth, Len(ips))
  BY <1>1, <1>2, <1>4 DEF Shows
<1>6. GetStackTrace_generic(ips, depth, skip_count) = [i \in 1 .. m |-> ips[first + i]]
  <2>1. PICK count \in Nat : count = Min({n, kStackLength})
    BY <1>n, MinOfTwo
  <2>2. count = IF n <= kStackLength THEN n ELSE kStackLength
    BY <1>n, <2>1, MinOfTwo
  <2>3. Max({count - (skip_count + 1), 0}) = count - first
    BY <1>1, <1>2, <1>n, <2>2, MaxOfTwo
  <2>4. Min({count - first, depth}) = m
    <3>1. count - first \in Int
      OBVIOUS
    <3> QED
      BY <1>1, <1>2, <1>3, <1>n, <2>2, <3>1, MinOfTwo
  <2>5. \A i \in 1 .. m : i + skip_count + 1 = first + i
    BY <1>1
  <2>6. [i \in 1 .. m |-> ips[i + skip_count + 1]] = [i \in 1 .. m |-> ips[first + i]]
    BY <2>5
  <2>7. Min({Len(ips), kStackLength}) = count
    BY <1>2, <2>1
  <2> QED
    BY <2>3, <2>4, <2>6, <2>7 DEF GetStackTrace_generic
<1>7. GetStackTrace_windows(ips, depth, skip_count) = [i \in 1 .. m |-> ips[first + i]]
  <2>1. Min({depth, kStackLength}) = depth
    BY <1>n, MinOfTwo
  <2>2. Min({Len(ips), (skip_count + 2 + depth) - 1}) = first + m
    <3>1. (skip_count + 2 + depth) - 1 \in Int /\ Len(ips) \in Int
      OBVIOUS
    <3> QED
      <4>1. (skip_count + 2 + depth) - 1 = first + depth
        BY <1>1
      <4>2. Min({n, first + depth}) = IF n <= first + depth THEN n ELSE first + depth
        BY MinOfTwo
      <4>3. CASE n <= first + depth
        <5>1. m = n - first
          BY <1>3, <4>3
        <5>2. first + m = n
          BY <1>d, <5>1
        <5> QED
          BY <1>2, <4>1, <4>2, <4>3, <5>2
      <4>4. CASE ~(n <= first + depth)
        BY <1>2, <1>3, <1>d, <4>1, <4>2, <4>4
      <4> QED
        BY <4>3, <4>4
  <2>3. GetStackTrace_windows(ips, depth, skip_count) = SubSeq(ips, first + 1, first + m)
    <3>1. skip_count + 2 = first + 1
      BY <1>1
    <3>2. GetStackTrace_windows(ips, depth, skip_count) =
            SubSeq(ips, skip_count + 2,
                   Min({Len(ips), skip_count + 2 + Min({depth, kStackLength}) - 1}))
      BY DEF GetStackTrace_windows
    <3>3. Min({Len(ips), skip_count + 2 + Min({depth, kStackLength}) - 1}) = first + m
      <4>1. skip_count + 2 + Min({depth, kStackLength}) - 1 = (skip_count + 2 + depth) - 1
        BY <2>1
      <4> QED
        BY <2>2, <4>1, Zenon
    <3> QED
      BY <3>1, <3>2, <3>3, Zenon
  <2>4. SubSeq(ips, first + 1, first + m) = [i \in 1 .. m |-> ips[first + i]]
    <3>1. SubSeq(ips, first + 1, first + m) =
            [i \in 1 .. (1 + (first + m)) - (first + 1) |-> ips[i + (first + 1) - 1]]
      BY <1>1, <1>2, <1>4
    <3>2. (1 + (first + m)) - (first + 1) = m /\ \A i \in 1 .. m : i + (first + 1) - 1 = first + i
      OBVIOUS
    <3> QED
      BY <3>1, <3>2
  <2> QED
    BY <2>3, <2>4 DEF Moved
<1> QED
  BY <1>5, <1>6, <1>7

----------------------------------------------------------------------------
(* The implementations that follow the frame pointers                          *)

LEMMA AddrFacts ==
  ASSUME NEW k \in Nat
  PROVE  /\ Addr(k) \in Nat /\ Addr(k) \div WordSize = k /\ Addr(k) % WordSize = 0
         /\ k # 0 => Addr(k) # nullptr
         /\ Addr(k + 1) = Addr(k) + WordSize
         /\ \A j \in Nat : Addr(j) = Addr(k) => j = k
<1>1. WordSize \in Nat /\ WordSize # 0
  BY StackTraceAssumption
<1>2. (k * WordSize) \div WordSize = k
  BY <1>1
<1>3. (k * WordSize) % WordSize = 0
  BY <1>1
<1>4. \A j \in Nat : j * WordSize = k * WordSize => j = k
  BY <1>1
<1>5. (k + 1) * WordSize = k * WordSize + WordSize /\ k * WordSize \in Nat
  BY <1>1
<1>6. k # 0 => k * WordSize # 0
  BY <1>1
<1> QED
  BY <1>2, <1>3, <1>4, <1>5, <1>6 DEF Addr, nullptr

\* What the frame of a call has as its return address.
ReturnAddress(implementation, ips, k) ==
  IF implementation = "x86" THEN IF k = Len(ips) THEN nullptr ELSE ips[k + 1]
  ELSE IF k = 1 THEN Garbage ELSE ips[k]

LEMMA MemoryFacts ==
  ASSUME NEW implementation, NEW S, NEW ips \in Seq(S)
  PROVE  /\ DOMAIN Memory(implementation, ips) = {Addr(k) : k \in 1 .. Len(ips)}
         /\ \A k \in 1 .. Len(ips) :
              Memory(implementation, ips)[Addr(k)] =
                [next |-> IF k = Len(ips) THEN nullptr ELSE Addr(k + 1),
                 ret |-> ReturnAddress(implementation, ips, k)]
<1>1. PICK n \in Nat : n = Len(ips)
  OBVIOUS
<1>2. DOMAIN ips = 1 .. n
  BY <1>1
<1> DEFINE Frame(k) == [next |-> IF k = n THEN nullptr ELSE Addr(k + 1),
                        ret |-> ReturnAddress(implementation, ips, k)]
<1>3. Memory(implementation, ips) = [a \in {Addr(k) : k \in 1 .. n} |-> Frame(a \div WordSize)]
  BY <1>1, <1>2 DEF Memory, ReturnAddress
<1>4. ASSUME NEW k \in 1 .. n PROVE Addr(k) \div WordSize = k
  BY AddrFacts
<1> HIDE DEF Frame
<1>5. ASSUME NEW k \in 1 .. n PROVE Memory(implementation, ips)[Addr(k)] = Frame(k)
  <2>1. Addr(k) \in {Addr(i) : i \in 1 .. n}
    OBVIOUS
  <2> QED
    BY <1>3, <1>4, <2>1
<1> QED
  BY <1>1, <1>3, <1>5 DEF Frame

LEMMA FrameCount ==
  ASSUME NEW n \in Nat
  PROVE  Cardinality({Addr(k) : k \in 1 .. n}) = n
<1> DEFINE S == {Addr(k) : k \in 1 .. n}
           f == [k \in 1 .. n |-> Addr(k)]
<1>1. f \in [1 .. n -> S] /\ \A s \in S : \E k \in 1 .. n : f[k] = s
  OBVIOUS
<1>2. \A j, k \in 1 .. n : f[j] = f[k] => j = k
  BY AddrFacts
<1>3. f \in Bijection(1 .. n, S)
  BY <1>1, <1>2 DEF Bijection, Injection, Surjection, IsInjective
<1>4. IsFiniteSet(1 .. n) /\ Cardinality(1 .. n) = n
  BY FS_Interval
<1>5. Cardinality(S) = Cardinality(1 .. n)
  BY <1>3, <1>4, FS_Bijection DEF ExistsBijection
<1> QED
  BY <1>4, <1>5

\* A link that NextStackFrame does not follow from the frame at address a.
Caught(link, a) == link <= a \/ link - a > MaxFrame \/ link % WordSize # 0

\* The memory, where frame d is damaged unless d is 0; the frame where the walk ends.
Frames(implementation, ips, d, link) ==
  IF d = 0 THEN Memory(implementation, ips)
           ELSE Damaged(Memory(implementation, ips), Addr(d), link)

LastFrame(ips, d) == IF d = 0 THEN Len(ips) ELSE d

\* The last call that is found.  On x86 the frame where the walk ends has the return address
\* that belongs to the next one.
LastShown(implementation, ips, d) ==
  IF d = 0 THEN Len(ips) ELSE IF implementation = "x86" /\ d < Len(ips) THEN d + 1 ELSE d

\* The frames have their return addresses, and their links as far as the one numbered last.
Linked(memory, implementation, ips, last) ==
  /\ DOMAIN memory = {Addr(k) : k \in 1 .. Len(ips)}
  /\ \A k \in 1 .. Len(ips) : memory[Addr(k)].ret = ReturnAddress(implementation, ips, k)
  /\ \A k \in 1 .. last :
       NextStackFrame(memory, Addr(k)) = IF k < last THEN Addr(k + 1) ELSE nullptr

LEMMA FramesLinked ==
  ASSUME NEW implementation, NEW ips \in Seq(Nat \ {0}), NEW d \in 0 .. Len(ips),
         NEW link \in Nat, d # 0 => Caught(link, Addr(d))
  PROVE  Linked(Frames(implementation, ips, d, link), implementation, ips, LastFrame(ips, d))
<1>l. PICK last : last = IF d = 0 THEN Len(ips) ELSE d
  OBVIOUS
<1>r. PICK memory : memory = IF d = 0 THEN Memory(implementation, ips)
                             ELSE Damaged(Memory(implementation, ips), Addr(d), link)
  OBVIOUS
<1>w. WordSize \in Nat \ {0} /\ MaxFrame \in Nat /\ WordSize <= MaxFrame
  BY StackTraceAssumption
<1>1. PICK n \in Nat : n = Len(ips)
  OBVIOUS
<1>2. PICK m : m = Memory(implementation, ips)
  OBVIOUS
<1>3. /\ DOMAIN m = {Addr(k) : k \in 1 .. n}
      /\ \A k \in 1 .. n : m[Addr(k)] = [next |-> IF k = n THEN nullptr ELSE Addr(k + 1),
                                         ret |-> ReturnAddress(implementation, ips, k)]
  BY <1>1, <1>2, MemoryFacts
<1>4. DOMAIN memory = DOMAIN m
  BY <1>2, <1>r DEF Damaged
<1>5. \A k \in 1 .. n : Addr(k) \in DOMAIN m
  BY <1>3
<1>6. ASSUME NEW k \in 1 .. n
      PROVE  /\ memory[Addr(k)].ret = ReturnAddress(implementation, ips, k)
             /\ memory[Addr(k)].next =
                  IF k = d THEN link ELSE IF k = n THEN nullptr ELSE Addr(k + 1)
  <2>0. PICK f : f = m[Addr(k)]
    OBVIOUS
  <2>f. f = [next |-> IF k = n THEN nullptr ELSE Addr(k + 1),
             ret |-> ReturnAddress(implementation, ips, k)]
    BY <1>3, <2>0
  <2>g. /\ f.ret = ReturnAddress(implementation, ips, k)
        /\ f.next = IF k = n THEN nullptr ELSE Addr(k + 1)
    BY <2>f
  <2>1. CASE d = 0
    <3>1. k # d /\ memory = m
      BY <1>2, <1>r, <2>1
    <3> QED
      BY <2>0, <2>g, <3>1
  <2>2. CASE d # 0
    <3>1. d \in 1 .. n /\ d \in Nat /\ k \in Nat
      BY <1>1, <2>2
    <3>2. memory = [m EXCEPT ![Addr(d)].next = link]
      BY <1>2, <1>r, <2>2 DEF Damaged
    <3>3. CASE k = d
      <4>1. PICK a : a = Addr(d)
        OBVIOUS
      <4>2. a \in DOMAIN m
        BY <1>5, <3>1, <4>1
      <4>3. f = m[a]
        BY <2>0, <3>3, <4>1
      <4>4. f = [next |-> IF k = n THEN nullptr ELSE Addr(k + 1),
                 ret |-> ReturnAddress(implementation, ips, k)]
        BY <2>f
      <4>5. memory[a] = [f EXCEPT !.next = link]
        BY <3>2, <4>1, <4>2, <4>3
      <4>6. memory[a] = [next |-> link, ret |-> ReturnAddress(implementation, ips, k)]
        BY <4>4, <4>5
      <4> QED
        BY <3>3, <4>1, <4>6
    <3>4. CASE k # d
      <4>1. Addr(k) # Addr(d)
        BY <3>1, <3>4, AddrFacts
      <4>2. memory[Addr(k)] = m[Addr(k)]
        BY <1>5, <3>2, <4>1
      <4> QED
        BY <2>0, <2>g, <3>4, <4>2
    <3> QED
      BY <3>3, <3>4
  <2> QED
    BY <2>1, <2>2
<1>7. ASSUME NEW k \in 1 .. last
      PROVE  NextStackFrame(memory, Addr(k)) = IF k < last THEN Addr(k + 1) ELSE nullptr
  <2>1. k \in 1 .. n /\ k \in Nat /\ last \in Nat /\ d \in Nat
    BY <1>1, <1>l
  <2>2. PICK a \in Nat : a = Addr(k) /\ a % WordSize = 0 /\ Addr(k + 1) = a + WordSize
    BY <2>1, AddrFacts
  <2>3. PICK new : new = memory[a].next
    OBVIOUS
  <2>4. NextStackFrame(memory, a) = IF Caught(new, a) THEN nullptr ELSE new
    BY <2>3, Zenon DEF NextStackFrame, Caught
  <2>5. CASE k < last
    <3>1. k # d /\ k # n
      BY <1>1, <1>l, <2>5
    <3>2. new = a + WordSize
      BY <1>6, <2>1, <2>2, <2>3, <3>1
    <3>3. (a + WordSize) % WordSize = 0
      <4>1. k + 1 \in Nat
        BY <2>1
      <4> QED
        BY <2>2, <4>1, AddrFacts
    <3>4. ~Caught(new, a)
      BY <1>w, <3>2, <3>3 DEF Caught
    <3> QED
      BY <2>2, <2>4, <2>5, <3>2, <3>4
  <2>6. CASE ~(k < last)
    <3>1. k = last
      BY <2>1, <2>6
    <3>2. CASE d = 0
      <4>1. k = n /\ k # d
        BY <1>1, <1>l, <2>1, <3>1, <3>2
      <4>2. new = nullptr
        BY <1>6, <2>1, <2>2, <2>3, <4>1
      <4> QED
        BY <2>2, <2>4, <2>6, <4>2
    <3>3. CASE d # 0
      <4>1. k = d
        BY <1>l, <3>1, <3>3
      <4>2. new = link
        BY <1>6, <2>1, <2>2, <2>3, <4>1
      <4>3. Caught(new, a)
        BY <2>2, <3>3, <4>1, <4>2
      <4> QED
        BY <2>2, <2>4, <2>6, <4>3
    <3> QED
      BY <3>2, <3>3
  <2> QED
    BY <2>5, <2>6
<1>8. Linked(memory, implementation, ips, last)
  BY <1>1, <1>3, <1>4, <1>6, <1>7 DEF Linked
<1> QED
  BY <1>l, <1>r, <1>8, Zenon DEF Frames, LastFrame

LEMMA FramesShow ==
  ASSUME NEW implementation \in {"x86", "powerpc"}, NEW ips \in Seq(Nat \ {0}),
         NEW depth \in Nat \ {0}, NEW skip_count \in Nat, skip_count + 1 <= Len(ips),
         NEW d \in 0 .. Len(ips), NEW link \in Nat,
         d # 0 => skip_count + 2 <= d /\ Caught(link, Addr(d)),
         NEW memory, memory = Frames(implementation, ips, d, link)
  PROVE  Shows(GetStackTrace_FramePointers(implementation, memory, depth, skip_count), ips,
               skip_count + 1, depth, LastShown(implementation, ips, d))
<1>1. PICK n \in Nat : n = Len(ips) /\ skip_count + 1 <= n
  <2>1. Len(ips) \in Nat
    OBVIOUS
  <2> QED
    BY <2>1
<1>2. PICK last \in Nat : last = IF d = 0 THEN n ELSE d
  <2>1. d \in Nat
    BY <1>1
  <2> QED
    BY <2>1
<1>3. skip_count + 1 <= last /\ last <= n /\ (d # 0 => skip_count + 2 <= last)
  <2>1. CASE d = 0
    BY <1>1, <1>2, <2>1
  <2>2. CASE d # 0
    BY <1>1, <1>2, <2>2
  <2> QED
    BY <2>1, <2>2
<1>4. PICK top \in {0, 1} : top = IF implementation = "x86" THEN 0 ELSE 1
  OBVIOUS
<1>5. PICK K \in Nat : K = skip_count + top
  OBVIOUS
<1>6. PICK end \in Nat : end = IF implementation = "x86" THEN n - 1 ELSE n
  <2>1. n - 1 \in Nat
    BY <1>1
  <2> QED
    BY <2>1
<1>7. PICK stop \in Nat : stop = IF end <= last THEN end ELSE last
  BY <1>2, <1>6
<1>8. PICK V \in Nat : V = IF stop <= K + depth THEN stop ELSE K + depth
  BY <1>5, <1>7
<1>9. stop <= last /\ stop <= end /\ (stop = last \/ stop = end) /\ end <= n
  BY <1>2, <1>6, <1>7
<1>10. K <= stop
  <2>1. CASE implementation = "x86"
    BY <1>1, <1>3, <1>4, <1>5, <1>6, <1>7, <2>1
  <2>2. CASE implementation # "x86"
    BY <1>1, <1>3, <1>4, <1>5, <1>6, <1>7, <2>2
  <2> QED
    BY <2>1, <2>2
<1>11. V <= stop /\ V <= K + depth /\ K <= V /\ (V = stop \/ V = K + depth) /\ V \in 0 .. n
  BY <1>2, <1>3, <1>5, <1>7, <1>8, <1>9, <1>10
<1>12. /\ DOMAIN memory = {Addr(k) : k \in 1 .. n}
       /\ \A k \in 1 .. n : memory[Addr(k)].ret = ReturnAddress(implementation, ips, k)
       /\ \A k \in 1 .. last :
            NextStackFrame(memory, Addr(k)) = IF k < last THEN Addr(k + 1) ELSE nullptr
  <2>1. last = IF d = 0 THEN Len(ips) ELSE d
    BY <1>1, <1>2
  <2>2. d # 0 => Caught(link, Addr(d))
    OBVIOUS
  <2> QED
    <3>1. Linked(Frames(implementation, ips, d, link), implementation, ips, LastFrame(ips, d))
      BY <2>2, FramesLinked
    <3>2. Frames(implementation, ips, d, link) = memory /\ LastFrame(ips, d) = last
      BY <2>1, Zenon DEF Frames, LastFrame
    <3>3. Linked(memory, implementation, ips, last)
      BY <3>1, <3>2
    <3> QED
      BY <1>1, <3>3 DEF Linked
<1>13. PICK A : A = [k \in 1 .. n |-> ReturnAddress(implementation, ips, k)]
  OBVIOUS
<1>14. PICK places : places = [j \in Nat |-> IF j = last THEN nullptr ELSE Addr(j + 1)]
  OBVIOUS
<1>15. Loop(Addr(1), skip_count + top) = After(A, K, 0, places[0])
  <2>1. Collected(A, K, 0) = <<>>
    BY DEF Collected
  <2>2. places[0] = Addr(1)
    BY <1>3, <1>14
  <2> QED
    BY <1>5, <2>1, <2>2 DEF Loop, After
<1>16. ASSUME NEW k \in 1 .. n
       PROVE  /\ (implementation = "x86" /\ memory[Addr(k)].ret = nullptr) <=> k > end
              /\ memory[Addr(k)].ret = A[k]
  <2>1. memory[Addr(k)].ret = ReturnAddress(implementation, ips, k)
    BY <1>12
  <2>2. CASE implementation = "x86" /\ k # n
    <3>1. ReturnAddress(implementation, ips, k) = ips[k + 1]
      BY <1>1, <2>2 DEF ReturnAddress
    <3>2. ips[k + 1] \in Nat \ {0}
      BY <1>1, <2>2
    <3>3. ~(k > end)
      BY <1>6, <2>2
    <3> QED
      BY <1>13, <2>1, <3>1, <3>2, <3>3 DEF nullptr
  <2>3. CASE implementation = "x86" /\ k = n
    <3>1. ReturnAddress(implementation, ips, k) = nullptr
      BY <1>1, <2>3 DEF ReturnAddress
    <3>2. k > end
      BY <1>6, <2>3
    <3> QED
      BY <1>13, <2>1, <2>3, <3>1, <3>2
  <2>4. CASE implementation # "x86"
    BY <1>6, <1>13, <2>1, <2>4
  <2> QED
    BY <2>2, <2>3, <2>4
<1>17. ASSUME NEW j \in 0 .. V
       PROVE  Iteration(implementation, <<>>, memory, depth, After(A, K, j, places[j])) =
                IF j < V THEN After(A, K, j + 1, places[j + 1]) ELSE After(A, K, j, places[j])
  <2>1. PICK s : s = After(A, K, j, places[j])
    OBVIOUS
  <2>2. j \in Nat /\ j <= last
    BY <1>9, <1>11
  <2>3. Moved(s, A[j + 1], places[j + 1]) = After(A, K, j + 1, places[j + 1])
    BY <2>1, <2>2, CollectedOne
  <2>4. Len(s.result) = (IF j <= K THEN 0 ELSE j - K)
    BY <2>1, <2>2, <2>3, CollectedOne
  <2>5. s.at = places[j]
    BY <2>1, Zenon DEF After
  <2>6. implementation # "unwind" /\ implementation # "libunwind"
    OBVIOUS
  <2>7. Iteration(implementation, <<>>, memory, depth, s) =
          IF \/ s.at = nullptr \/ Len(s.result) >= depth
             \/ implementation = "x86" /\ memory[s.at].ret = nullptr
            THEN s
            ELSE Moved(s, memory[s.at].ret, NextStackFrame(memory, s.at))
    BY <2>6, Zenon DEF Iteration, Moved
  <2>8. CASE j < V
    <3>1. j + 1 \in 1 .. n /\ j + 1 \in 1 .. last /\ ~(j + 1 > end) /\ j # last
      BY <1>3, <1>9, <1>11, <2>2, <2>8
    <3>2. s.at = Addr(j + 1) /\ s.at # nullptr
      <4>1. places[j] = Addr(j + 1)
        BY <1>14, <2>2, <3>1
      <4>2. j + 1 \in Nat /\ j + 1 # 0
        BY <2>2
      <4>3. Addr(j + 1) # nullptr
        BY <4>2, AddrFacts
      <4> QED
        BY <2>5, <4>1, <4>3
    <3>3. ~(Len(s.result) >= depth)
      BY <1>5, <1>8, <1>11, <2>2, <2>4, <2>8
    <3>4. memory[s.at].ret = A[j + 1] /\ ~(implementation = "x86" /\ memory[s.at].ret = nullptr)
      BY <1>16, <3>1, <3>2
    <3>5. NextStackFrame(memory, s.at) = places[j + 1]
      <4>1. NextStackFrame(memory, s.at) = IF j + 1 < last THEN Addr((j + 1) + 1) ELSE nullptr
        BY <1>12, <3>1, <3>2
      <4>2. places[j + 1] = IF j + 1 = last THEN nullptr ELSE Addr((j + 1) + 1)
        <5>1. j + 1 \in Nat
          BY <2>2
        <5> QED
          BY <1>14, <5>1
      <4>3. j + 1 < last <=> j + 1 # last
        BY <2>2, <3>1
      <4> QED
        BY <4>1, <4>2, <4>3
    <3>6. Iteration(implementation, <<>>, memory, depth, s) =
            Moved(s, A[j + 1], places[j + 1])
      BY <2>7, <3>2, <3>3, <3>4, <3>5, Zenon
    <3> QED
      BY <2>1, <2>3, <2>8, <3>6
  <2>9. CASE ~(j < V)
    <3>1. j = V
      BY <1>11, <2>2, <2>9
    <3>2. CASE V = K + depth
      <4>1. Len(s.result) >= depth
        BY <2>4, <3>1, <3>2
      <4> QED
        BY <2>1, <2>7, <2>9, <4>1
    <3>3. CASE V = stop /\ stop = last
      <4>1. s.at = nullptr
        BY <1>14, <2>2, <2>5, <3>1, <3>3
      <4> QED
        BY <2>1, <2>7, <2>9, <4>1
    <3>4. CASE V = stop /\ stop = end /\ stop # last
      <4>1. j + 1 \in 1 .. n /\ j + 1 > end
        BY <1>3, <1>9, <2>2, <3>1, <3>4
      <4>2. s.at = Addr(j + 1)
        BY <1>14, <2>2, <2>5, <3>1, <3>4
      <4>3. implementation = "x86" /\ memory[s.at].ret = nullptr
        BY <1>16, <4>1, <4>2
      <4> QED
        BY <2>1, <2>7, <2>9, <4>3
    <3> QED
      BY <1>9, <1>11, <3>2, <3>3, <3>4
  <2> QED
    BY <2>8, <2>9
<1>18. Run(implementation, <<>>, memory, depth, Loop(Addr(1), skip_count + top), n)[n].result =
         Collected(A, K, V)
  <2>1. V \in 0 .. n
    BY <1>11
  <2>2. PICK start : start = Loop(Addr(1), skip_count + top)
    OBVIOUS
  <2>3. start = After(A, K, 0, places[0])
    BY <1>15, <2>2
  <2>4. Run(implementation, <<>>, memory, depth, start, n)[n].result = Collected(A, K, V)
    BY <1>17, <2>1, <2>3, LoopCollects
  <2> QED
    BY <2>2, <2>4
<1>19. Cardinality(DOMAIN memory) = n
  BY <1>12, FrameCount
<1>20. GetStackTrace_FramePointers(implementation, memory, depth, skip_count) = Collected(A, K, V)
  BY <1>4, <1>18, <1>19, FramePointersRun
<1>21. PICK first \in Nat : first = skip_count + 1
  OBVIOUS
<1>22. V \in Nat /\ K <= V /\ V - K <= depth
  BY <1>5, <1>11
<1>23. PICK shown \in Nat : /\ shown = LastShown(implementation, ips, d)
                            /\ shown = IF implementation = "x86" THEN stop + 1 ELSE stop
  <2>1. CASE implementation = "x86"
    <3>1. CASE d = 0
      BY <1>1, <1>2, <1>6, <1>7, <2>1, <3>1 DEF LastShown
    <3>2. CASE d # 0 /\ d < n
      BY <1>1, <1>2, <1>6, <1>7, <2>1, <3>2 DEF LastShown
    <3>3. CASE d # 0 /\ ~(d < n)
      <4>1. last = n /\ d = n
        BY <1>2, <1>3, <3>3
      <4>2. stop + 1 = n
        BY <1>3, <1>6, <1>7, <2>1, <4>1
      <4> QED
        BY <1>1, <2>1, <3>3, <4>1, <4>2 DEF LastShown
    <3> QED
      BY <3>1, <3>2, <3>3
  <2>2. CASE implementation # "x86"
    <3>1. stop = last
      BY <1>2, <1>3, <1>6, <1>7, <2>2
    <3>2. last = LastShown(implementation, ips, d)
      BY <1>1, <1>2, <2>2 DEF LastShown
    <3> QED
      BY <2>2, <3>1, <3>2
  <2> QED
    BY <2>1, <2>2
<1>s. first + (V - K) <= shown /\ (first + (V - K) = shown \/ V - K = depth)
  <2>1. CASE implementation = "x86"
    <3>1. K = skip_count
      BY <1>4, <1>5, <2>1
    <3> QED
      BY <1>11, <1>21, <1>23, <2>1, <3>1
  <2>2. CASE implementation # "x86"
    <3>1. K = first
      BY <1>4, <1>5, <1>21, <2>2
    <3> QED
      BY <1>11, <1>23, <2>2, <3>1
  <2> QED
    BY <2>1, <2>2
<1>24. ASSUME NEW i \in 1 .. V - K PROVE A[K + i] = ips[first + i]
  <2>1. K + i \in 1 .. n /\ K + i <= end
    BY <1>9, <1>11
  <2>2. A[K + i] = ReturnAddress(implementation, ips, K + i)
    BY <1>13, <2>1
  <2>3. CASE implementation = "x86"
    <3>1. K + i # n /\ (K + i) + 1 = first + i
      BY <1>1, <1>4, <1>5, <1>6, <1>21, <2>1, <2>3
    <3> QED
      BY <1>1, <2>2, <2>3, <3>1 DEF ReturnAddress
  <2>4. CASE implementation # "x86"
    <3>1. K + i # 1 /\ K + i = first + i
      BY <1>4, <1>5, <1>21, <2>4
    <3> QED
      BY <2>2, <2>4, <3>1 DEF ReturnAddress
  <2> QED
    BY <2>3, <2>4
<1>25. Shows(Collected(A, K, V), ips, first, depth, shown)
  BY <1>22, <1>23, <1>s, <1>24, CollectedShows
<1> QED
  BY <1>20, <1>21, <1>23, <1>25

----------------------------------------------------------------------------
(* The stacks of the crash reasons                                             *)

\* The calls that are active in GetStackTrace.
Active(calling) == <<in_GetStackTrace>> \o calling \o setup.callers

\* Is there no stack at all?
Missing == setup.implementation = "unwind" /\ ~setup.ready_to_run

LEMMA ReachableFacts ==
  ASSUME setup \in Setups, NEW k \in Nat, k = Len(setup.callers)
  PROVE  /\ Reachable \in Nat /\ Reachable <= k
         /\ setup.damaged = 0 => Reachable = k
         /\ setup.damaged # 0 =>
              /\ setup.implementation \in {"x86", "powerpc"}
              /\ Reachable = IF setup.implementation = "x86" /\ setup.damaged < k
                               THEN setup.damaged + 1 ELSE setup.damaged
<1>1. PICK d \in Nat : d = setup.damaged
  BY SetupFacts DEF Setup
<1>2. CASE d = 0
  BY <1>1, <1>2 DEF Reachable
<1>3. CASE d # 0
  <2>1. setup.implementation \in {"x86", "powerpc"} /\ d <= k
    BY <1>1, <1>3, DamageAssumption
  <2>2. Min({d + 1, k}) = IF d + 1 <= k THEN d + 1 ELSE k
    BY MinOfTwo
  <2>3. Reachable = IF setup.implementation = "x86" THEN Min({d + 1, k}) ELSE d
    BY <1>1, <1>3 DEF Reachable
  <2>4. Reachable = IF setup.implementation = "x86" /\ d < k THEN d + 1 ELSE d
    BY <2>1, <2>2, <2>3
  <2> QED
    BY <1>1, <1>3, <2>1, <2>4
<1> QED
  BY <1>2, <1>3

LEMMA StackShows ==
  ASSUME setup \in Setups, NEW calling \in Seq(Nat \ {0}), Len(calling) \in 1 .. 5,
         NEW skip_count \in 0 .. 4, skip_count <= Len(calling)
  PROVE  /\ Active(calling) \in Seq(Nat \ {0})
         /\ Len(Active(calling)) = 1 + Len(calling) + Len(setup.callers)
         /\ IF Missing THEN StackOf(calling, skip_count) = <<>>
            ELSE Shows(StackOf(calling, skip_count), Active(calling), skip_count + 1, kStackDepth,
                       1 + Len(calling) + Reachable)
<1>1. /\ setup.callers \in Seq(Nat \ {0}) /\ setup.damaged \in Nat /\ setup.link \in Nat
      /\ setup.implementation \in Implementations /\ setup.ready_to_run \in BOOLEAN
  BY SetupFacts DEF Setup
<1>2. PICK ips : ips = Active(calling)
  OBVIOUS
<1>3. ips \in Seq(Nat \ {0}) /\ Len(ips) = 1 + Len(calling) + Len(setup.callers)
  <2>1. <<in_GetStackTrace>> \in Seq(Nat \ {0}) /\ Len(<<in_GetStackTrace>>) = 1
    BY DEF in_GetStackTrace
  <2>2. <<in_GetStackTrace>> \o calling \in Seq(Nat \ {0})
        /\ Len(<<in_GetStackTrace>> \o calling) = 1 + Len(calling)
    BY <2>1
  <2> QED
    BY <1>1, <1>2, <2>2 DEF Active
<1>4. PICK c \in Nat : c = Len(calling)
  OBVIOUS
<1>5. PICK k \in Nat : k = Len(setup.callers)
  BY <1>1
<1>6. PICK d \in Nat : d = IF setup.damaged = 0 THEN 0 ELSE 1 + c + setup.damaged
  BY <1>1
<1>7. c \in 1 .. 5 /\ skip_count <= c /\ skip_count \in Nat /\ Len(ips) = 1 + c + k
  <2>1. Len(calling) \in 1 .. 5 /\ skip_count <= Len(calling)
    OBVIOUS
  <2>2. c \in 1 .. 5 /\ skip_count <= c
    BY <1>4, <2>1, Zenon
  <2>3. Len(ips) = 1 + c + k
    BY <1>3, <1>4, <1>5, Zenon
  <2> QED
    BY <2>2, <2>3
<1>8. /\ d \in 0 .. Len(ips) /\ (d = 0 <=> setup.damaged = 0)
      /\ d # 0 => skip_count + 2 <= d /\ Caught(setup.link, Addr(d))
  <2>1. CASE setup.damaged = 0
    BY <1>6, <1>7, <2>1
  <2>2. CASE setup.damaged # 0
    <3>1. d = 1 + c + setup.damaged
      BY <1>6, <2>2
    <3>2. setup.damaged <= k
      BY <1>5, <2>2, DamageAssumption
    <3>3. PICK f \in 2 .. 6 : f = 1 + c
      BY <1>7
    <3>4. Caught(setup.link, Addr(f + setup.damaged))
      BY <2>2, DamageAssumption DEF Caught
    <3>5. f + setup.damaged = d
      BY <3>1, <3>3
    <3> QED
      BY <1>1, <1>7, <2>2, <3>1, <3>2, <3>4, <3>5, SMTT(20)
  <2> QED
    BY <2>1, <2>2
<1>9. StackOf(calling, skip_count) =
        GetStackTrace(setup.implementation, setup.ready_to_run, ips,
                      Frames(setup.implementation, ips, d, setup.link), kStackDepth, skip_count)
  <2>1. CASE setup.damaged = 0
    BY <1>2, <1>8, <2>1 DEF StackOf, Active, Frames
  <2>2. CASE setup.damaged # 0
    <3>1. (Len(ips) - Len(setup.callers)) + setup.damaged = d
      BY <1>1, <1>5, <1>6, <1>7, <2>2
    <3> QED
      BY <1>2, <1>8, <2>2, <3>1 DEF StackOf, Active, Frames
  <2> QED
    BY <2>1, <2>2
<1>10. /\ kStackDepth \in Nat \ {0} /\ skip_count + 1 + kStackDepth <= kStackLength
       /\ skip_count + 1 <= Len(ips) /\ skip_count \in Nat
  <2>1. kStackLength \in Nat /\ kStackDepth \in Nat \ {0} /\ kStackDepth + 5 <= kStackLength
    BY RawLogAssumption, StackTraceAssumption
  <2> QED
    BY <1>7, <2>1
<1> DEFINE Stack == GetStackTrace(setup.implementation, setup.ready_to_run, ips,
                      Frames(setup.implementation, ips, d, setup.link), kStackDepth, skip_count)
           Whole(stack) == Shows(stack, ips, skip_count + 1, kStackDepth, Len(ips))
<1>r. PICK r \in Nat : r = Reachable
  BY <1>5, ReachableFacts
<1>11. 1 + Len(calling) + Reachable = LastShown(setup.implementation, ips, d)
  <2>1. CASE setup.damaged = 0
    <3>1. r = k /\ d = 0
      BY <1>5, <1>6, <1>r, <2>1, ReachableFacts
    <3> QED
      BY <1>4, <1>7, <1>r, <3>1 DEF LastShown
  <2>2. CASE setup.damaged # 0
    <3>1. PICK e \in Nat : e = setup.damaged
      BY <1>1
    <3>2. r = IF setup.implementation = "x86" /\ e < k THEN e + 1 ELSE e
      BY <1>5, <1>r, <2>2, <3>1, ReachableFacts
    <3>3. d = 1 + c + e /\ d # 0 /\ (d < Len(ips) <=> e < k)
      BY <1>6, <1>7, <2>2, <3>1
    <3>4. 1 + c + r = LastShown(setup.implementation, ips, d)
      BY <3>2, <3>3 DEF LastShown
    <3> QED
      BY <1>4, <1>r, <3>4
  <2> QED
    BY <2>1, <2>2
<1>w. setup.implementation \notin {"x86", "powerpc"} =>
        1 + Len(calling) + Reachable = Len(ips)
  BY <1>5, <1>6, <1>11, ReachableFacts DEF LastShown
<1>12. CASE setup.implementation \in {"x86", "powerpc"}
  <2>1. PICK memory : memory = Frames(setup.implementation, ips, d, setup.link)
    OBVIOUS
  <2>2. Stack = GetStackTrace_FramePointers(setup.implementation, memory, kStackDepth, skip_count)
    BY <1>12, <2>1 DEF GetStackTrace
  <2>3. Shows(GetStackTrace_FramePointers(setup.implementation, memory, kStackDepth, skip_count),
              ips, skip_count + 1, kStackDepth, LastShown(setup.implementation, ips, d))
    BY <1>1, <1>3, <1>8, <1>10, <1>12, <2>1, FramesShow
  <2>4. Shows(Stack, ips, skip_count + 1, kStackDepth, 1 + Len(calling) + Reachable)
    BY <1>11, <2>2, <2>3
  <2>5. ~Missing
    BY <1>12 DEF Missing
  <2> QED
    BY <1>2, <1>3, <1>9, <2>4, <2>5
<1>13. CASE setup.implementation \in {"unwind", "libunwind"}
  <2>1. CASE Missing
    <3>1. Stack = GetStackTrace_unwind(setup.ready_to_run, ips, kStackDepth, skip_count)
      BY <2>1 DEF GetStackTrace, Missing
    <3>2. GetStackTrace_unwind(setup.ready_to_run, ips, kStackDepth, skip_count) = <<>>
      BY <2>1 DEF GetStackTrace_unwind, Missing
    <3> QED
      BY <1>2, <1>3, <1>9, <2>1, <3>1, <3>2
  <2>2. CASE ~Missing
    <3>1. Stack \in {GetStackTrace_unwind(TRUE, ips, kStackDepth, skip_count),
                     GetStackTrace_libunwind(ips, kStackDepth, skip_count)}
      <4>1. CASE setup.implementation = "unwind"
        <5>1. setup.ready_to_run = TRUE
          BY <1>1, <2>2, <4>1 DEF Missing
        <5> QED
          BY <4>1, <5>1 DEF GetStackTrace
      <4>2. CASE setup.implementation = "libunwind"
        BY <4>2 DEF GetStackTrace
      <4> QED
        BY <1>13, <4>1, <4>2
    <3>2. Whole(GetStackTrace_unwind(TRUE, ips, kStackDepth, skip_count))
          /\ Whole(GetStackTrace_libunwind(ips, kStackDepth, skip_count))
      BY <1>3, <1>10, LibrariesShow
    <3> HIDE DEF Stack, Whole
    <3>3. Whole(Stack)
      BY <3>1, <3>2
    <3> QED
      BY <1>2, <1>3, <1>9, <1>13, <1>w, <2>2, <3>3 DEF Stack, Whole
  <2> QED
    BY <2>1, <2>2
<1>14. CASE setup.implementation \in {"generic", "windows"}
  <2>1. Stack \in {GetStackTrace_generic(ips, kStackDepth, skip_count),
                   GetStackTrace_windows(ips, kStackDepth, skip_count)}
    BY <1>14 DEF GetStackTrace
  <2>2. Whole(GetStackTrace_generic(ips, kStackDepth, skip_count))
        /\ Whole(GetStackTrace_windows(ips, kStackDepth, skip_count))
    BY <1>3, <1>10, ArraysShow
  <2>3. ~Missing
    BY <1>14 DEF Missing
  <2> HIDE DEF Stack, Whole
  <2>4. Whole(Stack)
    BY <2>1, <2>2
  <2> QED
    BY <1>2, <1>3, <1>9, <1>14, <1>w, <2>3, <2>4 DEF Stack, Whole
<1> QED
  BY <1>1, <1>12, <1>13, <1>14 DEF Implementations

\* The calls that lead to the two places where a crash reason is filled in, and how many of them
\* are not shown.
CallingOf(m) ==
  IF m = "RAW_LOG" THEN <<in_RawLog__>>
  ELSE <<in_RecordCrashReason, in_SendToLog, in_Flush, in_FlushAndFailAtEnd, in_LogMessageFatal>>

SkippedOf(m) == IF m = "RAW_LOG" THEN 1 ELSE 4

StackInv ==
  \A m \in Macros : crash_reason[m].filled =>
    crash_reason[m].stack = StackOf(CallingOf(m), SkippedOf(m))

LEMMA StackStays ==
  ASSUME IInv, StackInv, [Next]_vars
  PROVE  StackInv'
<1>s. Shape
  BY DEF IInv
<1>1. CASE setup' = setup /\ crash_reason' = crash_reason
  BY <1>1 DEF StackInv, StackOf
<1>2. ASSUME NEW t \in Threads, FillRaw(t) \/ RecordCrashReason(t)
      PROVE  StackInv'
  <2>1. PICK m \in Macros :
          /\ setup' = setup
          /\ crash_reason' = [crash_reason EXCEPT ![m] =
               [filled |-> TRUE, stack |-> StackOf(CallingOf(m), SkippedOf(m))]]
    <3>1. CASE FillRaw(t)
      BY <3>1 DEF FillRaw, Fill, CallingOf, SkippedOf, Macros
    <3>2. CASE RecordCrashReason(t)
      BY <3>2 DEF RecordCrashReason, Fill, CallingOf, SkippedOf, Macros
    <3> QED
      BY <1>2, <3>1, <3>2
  <2>2. \A k \in Macros : StackOf(CallingOf(k), SkippedOf(k))' = StackOf(CallingOf(k), SkippedOf(k))
    BY <2>1 DEF StackOf, CallingOf, SkippedOf
  <2>3. ASSUME NEW k \in Macros, crash_reason'[k].filled
        PROVE  crash_reason'[k].stack = StackOf(CallingOf(k), SkippedOf(k))
    <3>1. CASE k = m
      BY <1>s, <2>1, <3>1 DEF Shape
    <3>2. CASE k # m
      BY <1>s, <2>1, <2>3, <3>2 DEF Shape, StackInv
    <3> QED
      BY <3>1, <3>2
  <2> QED
    BY <2>2, <2>3 DEF StackInv
<1>3. CASE Truncate
  BY <1>1, <1>3 DEF Truncate, Open, OpenFails, Fstat, FstatFails, LogTruncating, Pread, Pwrite,
         PwriteShort, CopyFails, Ftruncate, FtruncateFails, Aside, InFile, reason
<1>4. CASE RawNext
  <2> USE DEF reason
  <2>1. ASSUME NEW t \in Threads, Step(t) PROVE StackInv'
    <3>1. CASE FillRaw(t) \/ RecordCrashReason(t)
      BY <1>2, <3>1
    <3>2. CASE Write(t) \/ WriteFatal(t) \/ Crash(t) \/ SetCrashReason(t) \/ RestoreText(t)
      BY <1>1, <3>2 DEF Write, WriteFatal, Crash, SetCrashReason, RestoreText
    <3>3. CASE Fail(t) \/ DumpPC(t) \/ CallBase(t)
      BY <1>1, <3>3 DEF Fail, DumpPC, CallBase
    <3>4. CASE ResetFailureFunction \/ GetInstalledFailureFunction \/ InstallDump
      BY <1>1, <3>4 DEF ResetFailureFunction, GetInstalledFailureFunction, InstallDump
    <3> QED
      BY <2>1, <3>1, <3>2, <3>3, <3>4 DEF Step
  <2>2. ASSUME NEW t, NEW st, RawLog(t, st) \/ LogFatal(t, st) PROVE StackInv'
    BY <1>1, <2>2 DEF RawLog, LogFatal
  <2>3. CASE InitGoogleLogging \/ ShutdownGoogleLogging
    BY <1>1, <2>3 DEF InitGoogleLogging, ShutdownGoogleLogging, CheckFails
  <2>4. ASSUME NEW f, InstallFailureFunction(f) PROVE StackInv'
    BY <1>1, <2>4 DEF InstallFailureFunction
  <2> QED
    BY <1>4, <2>1, <2>2, <2>3, <2>4 DEF RawNext
<1>5. CASE UNCHANGED vars
  BY <1>1, <1>5 DEF vars, rawVars, reason
<1> QED
  BY <1>3, <1>4, <1>5 DEF Next

LEMMA CallingType ==
  ASSUME NEW m \in Macros
  PROVE  /\ CallingOf(m) \in Seq(Nat \ {0}) /\ Len(CallingOf(m)) = (IF m = "RAW_LOG" THEN 1 ELSE 5)
         /\ SkippedOf(m) \in 0 .. 4 /\ SkippedOf(m) <= Len(CallingOf(m))
<1>1. CASE m = "RAW_LOG"
  BY <1>1 DEF CallingOf, SkippedOf, in_RawLog__
<1>2. CASE m = "LOG"
  BY <1>2 DEF CallingOf, SkippedOf, in_RecordCrashReason, in_SendToLog, in_Flush,
              in_FlushAndFailAtEnd, in_LogMessageFatal
<1> QED
  BY <1>1, <1>2 DEF Macros

\* What a filled crash reason shows.
LEMMA ReasonShows ==
  ASSUME setup \in Setups, NEW m \in Macros, NEW shown,
         shown = StackOf(CallingOf(m), SkippedOf(m)),
         NEW calling,
         calling = (IF m = "LOG" THEN <<in_LogMessageFatal>> ELSE <<>>) \o setup.callers
  PROVE  shown = IF Missing THEN <<>>
                 ELSE SubSeq(calling, 1,
                        Min({Len(calling) - Len(setup.callers) + Reachable, kStackDepth}))
<1>c. setup.callers \in Seq(Nat)
  BY SetupFacts DEF Setup
<1>k. kStackDepth \in Nat
  BY RawLogAssumption
<1>1. PICK ips : ips = Active(CallingOf(m))
  OBVIOUS
<1>2. PICK c \in Nat : c = Len(setup.callers)
  BY <1>c
<1>3. PICK first \in Nat : first = SkippedOf(m) + 1
  BY DEF SkippedOf
<1>4. /\ ips \in Seq(Nat \ {0})
      /\ Len(ips) = 1 + (IF m = "RAW_LOG" THEN 1 ELSE 5) + c
      /\ IF Missing THEN shown = <<>>
         ELSE Shows(shown, ips, first, kStackDepth,
                    1 + (IF m = "RAW_LOG" THEN 1 ELSE 5) + Reachable)
  <2>1. CallingOf(m) \in Seq(Nat \ {0}) /\ Len(CallingOf(m)) = (IF m = "RAW_LOG" THEN 1 ELSE 5)
        /\ SkippedOf(m) \in 0 .. 4 /\ SkippedOf(m) <= Len(CallingOf(m))
    BY CallingType
  <2>2. Len(CallingOf(m)) \in 1 .. 5
    BY <2>1
  <2> QED
    BY <1>1, <1>2, <1>3, <2>1, <2>2, StackShows
<1>5. PICK e \in Nat : e = IF m = "LOG" THEN 1 ELSE 0
  OBVIOUS
<1>6. calling \in Seq(Nat) /\ Len(calling) = e + c
  <2>1. CASE m = "LOG"
    <3>1. <<in_LogMessageFatal>> \in Seq(Nat) /\ Len(<<in_LogMessageFatal>>) = 1
      BY DEF in_LogMessageFatal
    <3>2. calling = <<in_LogMessageFatal>> \o setup.callers /\ e = 1
      BY <1>5, <2>1
    <3>3. /\ <<in_LogMessageFatal>> \o setup.callers \in Seq(Nat)
          /\ Len(<<in_LogMessageFatal>> \o setup.callers) =
               Len(<<in_LogMessageFatal>>) + Len(setup.callers)
      BY <1>c, <3>1, Concatenated, Zenon
    <3> QED
      BY <1>2, <3>1, <3>2, <3>3, Zenon
  <2>2. CASE m # "LOG"
    <3>1. <<>> \o setup.callers = setup.callers
      BY <1>c, ConcatEmptySeq
    <3>2. calling = setup.callers /\ e = 0
      BY <1>5, <2>2, <3>1
    <3>3. 0 + c = c
      OBVIOUS
    <3> QED
      BY <1>c, <1>2, <3>2, <3>3, Zenon
  <2> QED
    BY <2>1, <2>2
<1>7. Len(ips) = first + (e + c)
  BY <1>3, <1>4, <1>5 DEF SkippedOf, Macros
<1>8. ASSUME NEW i \in 1 .. e + c PROVE ips[first + i] = calling[i]
  <2>1. PICK b \in Seq(Nat) : b = setup.callers
    BY <1>c
  <2>2. CASE m = "RAW_LOG"
    <3>1. CallingOf(m) = <<in_RawLog__>> /\ first = 2 /\ e = 0
      BY <1>3, <1>5, <2>2 DEF CallingOf, SkippedOf
    <3>2. calling = b
      BY <1>c, <2>1, <2>2, ConcatEmptySeq
    <3>3. PICK a : a = <<in_GetStackTrace>> \o <<in_RawLog__>>
      OBVIOUS
    <3>4. a \in Seq(Nat) /\ first = Len(a)
      BY <3>1, <3>3 DEF in_GetStackTrace, in_RawLog__
    <3>5. ips = a \o b
      BY <1>1, <2>1, <3>1, <3>3 DEF Active
    <3>6. i \in 1 .. Len(b)
      BY <1>2, <2>1, <3>1
    <3>7. ips[first + i] = b[i]
      BY <3>4, <3>5, <3>6, Behind, SMTT(20)
    <3> QED
      BY <3>2, <3>7
  <2>3. CASE m = "LOG"
    <3>1. CallingOf(m) = <<in_RecordCrashReason, in_SendToLog, in_Flush, in_FlushAndFailAtEnd,
                           in_LogMessageFatal>>
          /\ first = 5 /\ e = 1
      BY <1>3, <1>5, <2>3 DEF CallingOf, SkippedOf
    <3>2. PICK a : a = <<in_GetStackTrace>> \o CallingOf(m)
      OBVIOUS
    <3>3. PICK six \in Nat : six = 6
      OBVIOUS
    <3>4. a \in Seq(Nat) /\ six = Len(a) /\ a[six] = in_LogMessageFatal
      BY <3>1, <3>2, <3>3 DEF in_GetStackTrace, in_RecordCrashReason, in_SendToLog, in_Flush,
                              in_FlushAndFailAtEnd, in_LogMessageFatal
    <3>5. ips = a \o b
      BY <1>1, <2>1, <3>2 DEF Active
    <3>6. PICK one \in Nat : one = 1
      OBVIOUS
    <3>7. PICK d : d = <<in_LogMessageFatal>>
      OBVIOUS
    <3>8. d \in Seq(Nat) /\ one = Len(d) /\ d[one] = in_LogMessageFatal
      BY <3>6, <3>7 DEF in_LogMessageFatal
    <3>9. PICK s : s = calling
      OBVIOUS
    <3>c. s = d \o b
      BY <2>1, <2>3, <3>7, <3>9
    <3>d. d \in Seq(Nat) /\ b \in Seq(Nat) /\ one = Len(d)
      BY <2>1, <3>8
    <3>10. CASE i = 1
      <4>1. six \in 1 .. six /\ one \in 1 .. one
        BY <3>3, <3>6
      <4>2. ips[six] = a[six]
        BY <3>4, <3>5, <4>1, InFront
      <4>3. s[one] = d[one]
        BY ONLY <3>c, <3>d, <4>1, InFront
      <4>4. first + i = six /\ i = one
        BY <3>1, <3>3, <3>6, <3>10
      <4> QED
        BY <3>4, <3>8, <3>9, <4>2, <4>3, <4>4
    <3>11. CASE i # 1
      <4>1. PICK j \in 1 .. c : i = one + j /\ first + i = six + j
        <5>1. i - 1 \in 1 .. c /\ i = 1 + (i - 1) /\ first + i = 6 + (i - 1)
          BY <3>1, <3>11
        <5> QED
          BY <3>3, <3>6, <5>1
      <4>2. j \in 1 .. Len(b)
        BY <1>2, <2>1
      <4>3. ips[six + j] = b[j]
        BY <3>4, <3>5, <4>2, Behind
      <4>4. s[one + j] = b[j]
        BY ONLY <3>c, <3>d, <4>2, Behind
      <4> QED
        BY <3>9, <4>1, <4>3, <4>4
    <3> QED
      BY <3>10, <3>11
  <2> QED
    BY <2>2, <2>3 DEF Macros
<1>r. PICK r \in Nat : r = Reachable /\ r <= c
  BY <1>2, ReachableFacts
<1>l. 1 + (IF m = "RAW_LOG" THEN 1 ELSE 5) + Reachable = first + (e + r)
  BY <1>3, <1>5, <1>r DEF SkippedOf, Macros
<1>f. Len(calling) - Len(setup.callers) + Reachable = e + r
  <2>1. PICK a : a = Len(calling)
    OBVIOUS
  <2>2. a = e + c
    BY <1>6, <2>1, Zenon
  <2>3. (a - c) + r = e + r
    BY <1>2, <1>5, <1>r, <2>2
  <2> QED
    BY <1>2, <1>r, <2>1, <2>3, Zenon
<1>9. CASE Missing
  BY <1>4, <1>9
<1>10. CASE ~Missing
  <2>1. PICK n \in Nat : /\ n <= kStackDepth /\ first + n <= first + (e + r)
                         /\ first + n = first + (e + r) \/ n = kStackDepth
                         /\ shown = [i \in 1 .. n |-> ips[first + i]]
    BY <1>4, <1>l, <1>10 DEF Shows
  <2>2. n = Min({e + r, kStackDepth}) /\ n <= e + c
    <3>1. Min({e + r, kStackDepth}) = IF e + r <= kStackDepth THEN e + r ELSE kStackDepth
      BY <1>k, MinOfTwo
    <3> QED
      BY <1>k, <1>r, <2>1, <3>1
  <2>3. SubSeq(calling, 1, n) = [i \in 1 .. n |-> calling[i]]
    <3>1. PICK s \in Seq(Nat) : s = calling
      BY <1>6
    <3>2. n <= Len(s)
      BY <1>6, <2>2, <3>1
    <3>3. SubSeq(s, 1, n) = [i \in 1 .. n |-> s[i]]
      BY <3>2
    <3> QED
      BY <3>1, <3>3
  <2>4. \A i \in 1 .. n : ips[first + i] = calling[i]
    <3>1. \A i \in 1 .. n : i \in 1 .. e + c
      BY <2>2
    <3> QED
      BY <1>8, <3>1
  <2>5. [i \in 1 .. n |-> ips[first + i]] = [i \in 1 .. n |-> calling[i]]
    BY <2>4
  <2>6. shown = SubSeq(calling, 1, n)
    BY <2>1, <2>3, <2>5
  <2> QED
    BY <1>f, <1>10, <2>2, <2>6
<1> QED
  BY <1>9, <1>10

\* The stack of a crash reason is exactly the calls from the one that contains the RAW_LOG, or
\* from the destructor of the LogMessage, to the outermost call, to the last one that there is
\* room for, or to the damaged frame (on x86 the call behind it): for every implementation of
\* GetStackTrace, every sequence of calls, and every damaged link that the tests of NextStackFrame
\* refuse.  Only _Unwind_Backtrace has none before static initialization.
THEOREM CallersAreShown == Spec => []CallersShown
<1>1. Init => StackInv
  BY DEF Init, RawInit, StackInv, NoReason, Macros
<1>2. IInv /\ StackInv => CallersShown
  <2> SUFFICES ASSUME IInv, StackInv, NEW m \in {"RAW_LOG", "LOG"}, crash_reason[m].filled,
                      NEW calling,
                      calling = (IF m = "LOG" THEN <<in_LogMessageFatal>> ELSE <<>>)
                                \o setup.callers
               PROVE  crash_reason[m].stack =
                        IF setup.implementation = "unwind" /\ ~setup.ready_to_run THEN <<>>
                        ELSE SubSeq(calling, 1,
                               Min({Len(calling) - Len(setup.callers) + Reachable, kStackDepth}))
    BY DEF CallersShown
  <2>1. setup \in Setups /\ m \in Macros
    BY DEF IInv, Shape, Macros
  <2>2. crash_reason[m].stack = StackOf(CallingOf(m), SkippedOf(m))
    BY <2>1 DEF StackInv
  <2>3. \A shown, all :
          /\ shown = StackOf(CallingOf(m), SkippedOf(m))
          /\ all = (IF m = "LOG" THEN <<in_LogMessageFatal>> ELSE <<>>) \o setup.callers
          => shown = IF Missing THEN <<>>
                     ELSE SubSeq(all, 1,
                            Min({Len(all) - Len(setup.callers) + Reachable, kStackDepth}))
    BY <2>1, ReasonShows
  <2> QED
    BY <2>2, <2>3 DEF Missing
<1> QED
  BY <1>1, <1>2, Invariant, StackStays, PTL DEF Spec

----------------------------------------------------------------------------
(* Types                                                                       *)

FileChar == Char \cup {Hole}

\* What the threads hold, ...
ThreadTypes ==
  /\ buffer \in [Threads -> Seq(Char)]
  /\ message \in [Threads -> Seq(Char)]
  /\ trace \in [Threads -> Seq(Nat)]

\* ... what is written, ...
OutputTypes ==
  /\ file \in Seq(FileChar)
  /\ offset \in Nat
  /\ written \in Seq(Char)

\* ... the flags and the crash reasons, ...
FlagTypes ==
  /\ g_program_invocation_short_name \in BOOLEAN
  /\ exited \in BOOLEAN
  /\ crash_reason \in [Macros -> CrashReason]
  /\ reason_text \in [Macros -> Seq(Char)]
  /\ calls \in Nat

\* ... and the truncation, which has more before it than it keeps, and writes inside the file.
TruncationTypes ==
  /\ at \in {"idle", "fstat", "log", "read", "write", "truncate"}
  /\ {size, read_offset, write_offset, truncations} \subseteq Nat
  /\ copybuf \in Seq(FileChar)
  /\ failed \in BOOLEAN
  /\ given_up \subseteq FileChar
  /\ at = "log" => setup.keep <= size
  /\ at \in {"read", "write", "truncate"} => write_offset <= Len(file)

TypeInv == ThreadTypes /\ OutputTypes /\ FlagTypes /\ TruncationTypes

LEMMA TypesHold ==
  ASSUME IInv, TypeInv
  PROVE  TypeOK
<1>1. /\ g_logging_fail_func \in FailureFunctions
      /\ base_logging_fail_func \in FailureFunctions \cup {"nullptr"}
  BY DEF IInv, FailureInv, Callable, FailureFunctions
<1>2. /\ {g_program_invocation_short_name, crashed, fatal_msg_exclusive, exited} \subseteq BOOLEAN
      /\ {executed, calls} \subseteq Nat
  BY DEF IInv, Shape, TypeInv, FlagTypes
<1>3. RawTypeOK
  BY <1>1, <1>2 DEF RawTypeOK, IInv, Shape, TypeInv, ThreadTypes, OutputTypes, FlagTypes, Macros,
                    FileChar
<1> QED
  BY <1>3 DEF TypeOK, TypeInv, TruncationTypes, FileChar

LEMMA OverwrittenType ==
  ASSUME NEW S, Hole \in S, NEW f \in Seq(S), NEW p \in Nat, NEW s \in Seq(S)
  PROVE  Overwritten(f, p, s) \in Seq(S)
<1>1. Len(f) \in Nat /\ Len(s) \in Nat /\ p + Len(s) \in Nat
  OBVIOUS
<1>2. PICK n \in Nat : n = Max({Len(f), p + Len(s)})
  BY <1>1, MaxOfTwo
<1>3. PICK o : o = Overwritten(f, p, s)
  OBVIOUS
<1>4. o = [i \in 1 .. n |-> IF i \in p + 1 .. p + Len(s) THEN s[i - p]
                            ELSE IF i <= Len(f) THEN f[i] ELSE Hole]
  BY <1>2, <1>3 DEF Overwritten
<1>5. ASSUME NEW i \in 1 .. n
      PROVE  (IF i \in p + 1 .. p + Len(s) THEN s[i - p]
              ELSE IF i <= Len(f) THEN f[i] ELSE Hole) \in S
  <2>1. CASE i \in p + 1 .. p + Len(s)
    <3>1. i - p \in 1 .. Len(s)
      BY <1>1, <2>1
    <3> QED
      BY <2>1, <3>1
  <2>2. CASE i \notin p + 1 .. p + Len(s)
    BY <1>1, <2>2
  <2> QED
    BY <2>1, <2>2
<1>6. o \in Seq(S)
  BY <1>4, <1>5
<1> QED
  BY <1>3, <1>6

LEMMA WiderSequence ==
  ASSUME NEW S, NEW T, S \subseteq T, NEW s \in Seq(S)
  PROVE  s \in Seq(T)
<1>1. s = [i \in 1 .. Len(s) |-> s[i]] /\ Len(s) \in Nat
  OBVIOUS
<1>2. \A i \in 1 .. Len(s) : s[i] \in T
  OBVIOUS
<1> QED
  BY <1>1, <1>2

\* A write keeps the types of the output.
LEMMA PutTypes ==
  ASSUME OutputTypes, NEW s \in Seq(Char), Put(s)
  PROVE  OutputTypes'
<1>1. PICK p \in Nat : /\ file' = Overwritten(file, p, s) /\ offset' = p + Len(s)
                       /\ written' = written \o s
  <2>1. Len(file) \in Nat /\ offset \in Nat
    BY DEF OutputTypes
  <2> QED
    BY <2>1 DEF Put
<1>2. s \in Seq(FileChar) /\ Hole \in FileChar
  BY WiderSequence DEF FileChar
<1>3. file' \in Seq(FileChar)
  BY <1>1, <1>2, OverwrittenType DEF OutputTypes
<1>4. offset' \in Nat
  BY <1>1
<1>5. written' \in Seq(Char)
  BY <1>1 DEF OutputTypes
<1> QED
  BY <1>3, <1>4, <1>5 DEF OutputTypes

\* ... and what is written, at any place, does not make the file shorter.
LEMMA PutGrows ==
  ASSUME OutputTypes, NEW s \in Seq(Char), Put(s)
  PROVE  Len(file) <= Len(file')
<1>1. Len(file) \in Nat /\ offset \in Nat /\ Len(s) \in Nat
  BY DEF OutputTypes
<1>2. PICK p \in Nat : file' = Overwritten(file, p, s)
  BY <1>1 DEF Put
<1>3. PICK n \in Nat : n = Max({Len(file), p + Len(s)}) /\ Len(file) <= n
  BY <1>1, MaxOfTwo
<1>4. Len(file') = n
  BY <1>2, <1>3 DEF Overwritten
<1> QED
  BY <1>3, <1>4

\* What GetStackTrace returns are addresses.
LEMMA StackType ==
  ASSUME setup \in Setups, NEW calling \in Seq(Nat \ {0}), Len(calling) \in 1 .. 5,
         NEW skip_count \in 0 .. 4, skip_count <= Len(calling)
  PROVE  StackOf(calling, skip_count) \in Seq(Nat)
<1>1. PICK ips : ips = Active(calling)
  OBVIOUS
<1>2. PICK first \in Nat : first = skip_count + 1
  OBVIOUS
<1>c. PICK c \in Nat : c = Len(setup.callers)
  BY SetupFacts DEF Setup
<1>r. PICK r \in Nat : r = Reachable /\ r <= c
  BY <1>c, ReachableFacts
<1>3. /\ ips \in Seq(Nat \ {0}) /\ Len(ips) = 1 + Len(calling) + c
      /\ IF Missing THEN StackOf(calling, skip_count) = <<>>
         ELSE Shows(StackOf(calling, skip_count), ips, first, kStackDepth, 1 + Len(calling) + r)
  BY <1>1, <1>2, <1>c, <1>r, StackShows
<1>4. CASE Missing
  BY <1>3, <1>4
<1>5. CASE ~Missing
  <2>1. PICK m \in Nat : /\ first + m <= 1 + Len(calling) + r
                         /\ StackOf(calling, skip_count) = [i \in 1 .. m |-> ips[first + i]]
    BY <1>3, <1>5 DEF Shows
  <2>2. \A i \in 1 .. m : first + i \in 1 .. Len(ips)
    BY <1>3, <1>r, <2>1
  <2>3. ASSUME NEW i \in 1 .. m PROVE ips[first + i] \in Nat
    <3>1. PICK j \in 1 .. Len(ips) : j = first + i
      BY <2>2
    <3>2. ips[j] \in Nat
      BY <1>3, <3>1
    <3> QED
      BY <3>1, <3>2
  <2> QED
    BY <2>1, <2>3
<1> QED
  BY <1>4, <1>5

LEMMA ReasonStackType ==
  ASSUME setup \in Setups, NEW m \in Macros
  PROVE  StackOf(CallingOf(m), SkippedOf(m)) \in Seq(Nat)
<1>1. CallingOf(m) \in Seq(Nat \ {0}) /\ Len(CallingOf(m)) = (IF m = "RAW_LOG" THEN 1 ELSE 5)
      /\ SkippedOf(m) \in 0 .. 4 /\ SkippedOf(m) <= Len(CallingOf(m))
  BY CallingType
<1>2. Len(CallingOf(m)) \in 1 .. 5
  BY <1>1
<1> QED
  BY <1>1, <1>2, StackType

\* The stack that Fail dumps.
LEMMA DumpType ==
  ASSUME setup \in Setups,
         NEW calling \in {<<in_RawLog__>>, <<in_FlushAndFailAtEnd, in_LogMessageFatal>>}
  PROVE  StackOf(<<in_DumpStackTrace, in_DumpStackTraceAndExit, in_Fail>> \o calling, 2)
         \in Seq(Nat)
<1>1. PICK s : s = <<in_DumpStackTrace, in_DumpStackTraceAndExit, in_Fail>> \o calling
  OBVIOUS
<1>2. s \in Seq(Nat \ {0}) /\ Len(s) \in 1 .. 5 /\ 2 <= Len(s)
  <2>1. PICK head : head = <<in_DumpStackTrace, in_DumpStackTraceAndExit, in_Fail>>
    OBVIOUS
  <2>2. head \in Seq(Nat \ {0}) /\ Len(head) = 3
    BY <2>1 DEF in_DumpStackTrace, in_DumpStackTraceAndExit, in_Fail
  <2>3. calling \in Seq(Nat \ {0}) /\ Len(calling) \in {1, 2}
    <3>1. CASE calling = <<in_RawLog__>>
      BY <3>1 DEF in_RawLog__
    <3>2. CASE calling = <<in_FlushAndFailAtEnd, in_LogMessageFatal>>
      BY <3>2 DEF in_FlushAndFailAtEnd, in_LogMessageFatal
    <3> QED
      BY <3>1, <3>2
  <2>4. s \in Seq(Nat \ {0}) /\ Len(s) = Len(head) + Len(calling)
    BY <1>1, <2>1, <2>2, <2>3, Concatenated, Zenon
  <2>5. Len(s) \in 1 .. 5 /\ 2 <= Len(s)
    <3>1. CASE Len(calling) = 1
      <4>1. Len(s) = 4
        BY <2>2, <2>4, <3>1
      <4> QED
        BY <4>1
    <3>2. CASE Len(calling) = 2
      <4>1. Len(s) = 5
        BY <2>2, <2>4, <3>2
      <4> QED
        BY <4>1
    <3> QED
      BY <2>3, <3>1, <3>2
  <2> QED
    BY <2>4, <2>5
<1>3. 2 \in 0 .. 4
  OBVIOUS
<1>4. StackOf(s, 2) \in Seq(Nat)
  BY <1>2, <1>3, StackType
<1> QED
  BY <1>1, <1>4

\* A step of a thread, and a call, keep the types.
LEMMA ThreadKeepsTypes ==
  ASSUME IInv, TypeInv, RawNext
  PROVE  ThreadTypes' /\ OutputTypes' /\ FlagTypes'
<1>s. Shape /\ ThreadTypes /\ OutputTypes /\ FlagTypes
  BY DEF IInv, TypeInv
<1>m. Main \in Threads
  BY RawLogAssumption
<1>e. <<>> \in Seq(Char)
  OBVIOUS
<1>o. ASSUME UNCHANGED output PROVE OutputTypes'
  BY <1>s, <1>o DEF output, OutputTypes
<1>t. ASSUME UNCHANGED <<buffer, message, trace>> PROVE ThreadTypes'
  BY <1>s, <1>t DEF ThreadTypes
<1>f. ASSUME UNCHANGED crash_reason, reason_text' \in [Macros -> Seq(Char)],
             g_program_invocation_short_name' \in BOOLEAN, exited' \in BOOLEAN, calls' \in Nat
      PROVE  FlagTypes'
  BY <1>s, <1>f DEF FlagTypes
<1>g. /\ g_program_invocation_short_name \in BOOLEAN /\ exited \in BOOLEAN /\ calls \in Nat
      /\ reason_text \in [Macros -> Seq(Char)]
  BY <1>s DEF FlagTypes
<1> USE DEF reason, failure, bounds
<1>1. ASSUME NEW t \in Threads, NEW st \in setup.Statements, RawLog(t, st)
      PROVE  ThreadTypes' /\ OutputTypes' /\ FlagTypes'
  <2>1. PICK id \in Nat : id = executed + 1
    BY <1>s DEF Shape
  <2>2. st \in Statement
    BY <1>s, SetupFacts DEF Shape
  <2>3. PICK b : b = Line(st, id)
    OBVIOUS
  <2>4. PICK p : p = Prefixed(st, id)
    OBVIOUS
  <2>5. Buffer(b) /\ Buffer(p)
    BY <2>2, <2>3, <2>4, LineParts
  <2>6. b.chars \in Seq(Char) /\ p.pos \in Nat
    BY <2>5, BufferFacts
  <2>7. SubSeq(b.chars, p.pos + 1, Len(b.chars)) \in Seq(Char)
    <3>1. PICK c \in Seq(Char) : c = b.chars
      BY <2>6
    <3>2. PICK q \in Nat : q = p.pos + 1
      BY <2>6
    <3>3. SubSeq(c, q, Len(c)) \in Seq(Char)
      <4>1. q \in 1 .. Len(c) + 1 \/ q > Len(c) + 1
        BY <2>6, <3>2
      <4>2. \A i \in q .. Len(c) : c[i] \in Char
        BY <2>6, <3>2
      <4> QED
        BY <2>6, <3>2, <4>2, SubSeqProperties
    <3> QED
      BY <3>1, <3>2, <3>3
  <2>8. /\ buffer' = [buffer EXCEPT ![t] = b.chars]
        /\ message' = [message EXCEPT ![t] = SubSeq(b.chars, p.pos + 1, Len(b.chars))]
        /\ trace' = trace
    BY <1>1, <2>1, <2>3, <2>4 DEF RawLog
  <2>9. ThreadTypes'
    BY <1>s, <2>6, <2>7, <2>8 DEF ThreadTypes
  <2> QED
    BY <1>1, <1>f, <1>g, <1>o, <2>9 DEF RawLog
<1>2. ASSUME NEW t \in Threads, WriteFatal(t) PROVE ThreadTypes' /\ OutputTypes' /\ FlagTypes'
  <2>1. OutputTypes'
    BY <1>2, <1>s, PutTypes DEF WriteFatal, ThreadTypes
  <2> QED
    BY <1>2, <1>f, <1>g, <1>t, <2>1 DEF WriteFatal
<1>3. ASSUME NEW t \in Threads, Write(t) PROVE ThreadTypes' /\ OutputTypes' /\ FlagTypes'
  <2>1. OutputTypes'
    BY <1>3, <1>s, PutTypes DEF Write, ThreadTypes
  <2>2. ThreadTypes'
    BY <1>3, <1>e, <1>s DEF Write, ThreadTypes
  <2> QED
    BY <1>3, <1>f, <1>g, <2>1, <2>2 DEF Write
<1>4. ASSUME NEW t \in Threads, Crash(t) \/ SetCrashReason(t)
      PROVE  ThreadTypes' /\ OutputTypes' /\ FlagTypes'
  BY <1>4, <1>f, <1>g, <1>o, <1>t DEF Crash, SetCrashReason
<1>r. ASSUME NEW t \in Threads, RestoreText(t) PROVE ThreadTypes' /\ OutputTypes' /\ FlagTypes'
  <2>1. PICK s \in Seq(Char) : s = reason_text["LOG"]
    BY <1>g DEF Macros
  <2>2. SubSeq(s, 1, Len(s) - 1) \in Seq(Char)
    <3>1. Len(s) \in Nat /\ Len(s) - 1 \in Int /\ 1 \in Int
      OBVIOUS
    <3>2. \A i \in 1 .. Len(s) - 1 : s[i] \in Char
      OBVIOUS
    <3> QED
      BY <3>1, <3>2, SubSeqProperties
  <2>3. reason_text' \in [Macros -> Seq(Char)]
    BY <1>g, <1>r, <2>1, <2>2 DEF RestoreText
  <2> QED
    BY <1>r, <1>f, <1>g, <1>o, <1>t, <2>3 DEF RestoreText
<1>x. ASSUME NEW t \in Threads, NEW st, Flush(t, st), st.message \in Int
      PROVE  reason_text' \in [Macros -> Seq(Char)]
  <2>1. PICK id \in Nat : id = executed + 1
    BY <1>s DEF Shape
  <2>2. Text("message", id, st.message) \o Text("newline", id, 1) \in Seq(Char)
    BY <1>x, LineFeedAtEnd
  <2> QED
    BY <1>g, <1>x, <2>1, <2>2 DEF Flush
<1>5. ASSUME NEW t \in Threads, NEW m \in Macros, NEW stack \in Seq(Nat),
             crash_reason' = [crash_reason EXCEPT ![m] = [filled |-> TRUE, stack |-> stack]],
             reason_text' \in [Macros -> Seq(Char)],
             UNCHANGED <<buffer, message, trace, output, g_program_invocation_short_name,
                         exited, calls>>
      PROVE  ThreadTypes' /\ OutputTypes' /\ FlagTypes'
  <2>1. [filled |-> TRUE, stack |-> stack] \in CrashReason
    BY DEF CrashReason
  <2>2. FlagTypes'
    BY <1>5, <1>s, <2>1 DEF FlagTypes
  <2> QED
    BY <1>5, <1>o, <1>t, <2>2
<1>6. ASSUME NEW t \in Threads, FillRaw(t) \/ RecordCrashReason(t)
      PROVE  ThreadTypes' /\ OutputTypes' /\ FlagTypes'
  <2>1. PICK m \in Macros :
          crash_reason' = [crash_reason EXCEPT ![m] =
            [filled |-> TRUE, stack |-> StackOf(CallingOf(m), SkippedOf(m))]]
    <3>1. CASE FillRaw(t)
      BY <3>1 DEF FillRaw, Fill, CallingOf, SkippedOf, Macros
    <3>2. CASE RecordCrashReason(t)
      BY <3>2 DEF RecordCrashReason, Fill, CallingOf, SkippedOf, Macros
    <3> QED
      BY <1>6, <3>1, <3>2
  <2>2. StackOf(CallingOf(m), SkippedOf(m)) \in Seq(Nat)
    BY <1>s, ReasonStackType DEF Shape
  <2>3. UNCHANGED <<buffer, message, trace, output, g_program_invocation_short_name, exited, calls>>
    BY <1>6 DEF FillRaw, RecordCrashReason
  <2>4. reason_text' \in [Macros -> Seq(Char)]
    BY <1>6, <1>g, <1>s DEF FillRaw, RecordCrashReason, ThreadTypes, Macros
  <2> QED
    BY <1>5, <2>1, <2>2, <2>3, <2>4
<1>7. ASSUME NEW t \in Threads, NEW st \in setup.Statements, LogFatal(t, st)
      PROVE  ThreadTypes' /\ OutputTypes' /\ FlagTypes'
  <2>1. st.message \in Int
    BY <1>s, SetupFacts DEF Shape, Statement
  <2>2. reason_text' \in [Macros -> Seq(Char)]
    BY <1>7, <1>x, <2>1 DEF LogFatal
  <2> QED
    BY <1>7, <1>f, <1>g, <1>o, <1>t, <2>2 DEF LogFatal
<1>8. ASSUME NEW t \in Threads, Fail(t) PROVE ThreadTypes' /\ OutputTypes' /\ FlagTypes'
  <2>1. UNCHANGED <<buffer, message, output, g_program_invocation_short_name, crash_reason,
                    reason_text, calls>>
    BY <1>8 DEF Fail
  <2>2. exited' \in BOOLEAN
    BY <1>8, <1>g DEF Fail, Exit, Throw
  <2>3. trace' \in [Threads -> Seq(Nat)]
    <3>1. CASE trace' = trace
      BY <1>s, <3>1 DEF ThreadTypes
    <3>2. CASE trace' # trace
      <4>1. PICK calling \in {<<in_RawLog__>>, <<in_FlushAndFailAtEnd, in_LogMessageFatal>>} :
              trace' = [trace EXCEPT ![t] =
                StackOf(<<in_DumpStackTrace, in_DumpStackTraceAndExit, in_Fail>> \o calling, 2)]
        <5>1. PICK calling : calling = IF statement[t].macro = "RAW_LOG" THEN <<in_RawLog__>>
                                       ELSE <<in_FlushAndFailAtEnd, in_LogMessageFatal>>
          OBVIOUS
        <5>2. trace' = [trace EXCEPT ![t] =
                StackOf(<<in_DumpStackTrace, in_DumpStackTraceAndExit, in_Fail>> \o calling, 2)]
          BY <1>8, <3>2, <5>1 DEF Fail, Exit, Throw
        <5> QED
          BY <5>1, <5>2
      <4>2. StackOf(<<in_DumpStackTrace, in_DumpStackTraceAndExit, in_Fail>> \o calling, 2)
            \in Seq(Nat)
        BY <1>s, DumpType DEF Shape
      <4> QED
        BY <1>s, <4>1, <4>2 DEF ThreadTypes
    <3> QED
      BY <3>1, <3>2
  <2>4. ThreadTypes'
    BY <1>s, <2>1, <2>3 DEF ThreadTypes
  <2> QED
    BY <1>f, <1>g, <1>o, <2>1, <2>2, <2>4
<1>9. ASSUME NEW t \in Threads, DumpPC(t) PROVE ThreadTypes' /\ OutputTypes' /\ FlagTypes'
  <2>1. PICK stack \in Seq(Nat) : stack = trace[t] /\ stack # <<>>
    BY <1>9, <1>s DEF DumpPC, ThreadTypes
  <2>2. Head(stack) \in Nat /\ Tail(stack) \in Seq(Nat)
    BY <2>1
  <2>3. PICK id \in Nat : id = Len(written) + 1
    BY <1>s DEF OutputTypes
  <2>4. PICK a \in Nat : a = Head(stack)
    BY <2>2
  <2>5. [kind |-> "trace", id |-> id, at |-> a] \in Char
    BY DEF Char
  <2>6. PICK c \in Char : c = [kind |-> "trace", id |-> id, at |-> a]
    BY <2>5
  <2>7. Put(<<c>>)
    BY <1>9, <2>1, <2>3, <2>4, <2>6 DEF DumpPC
  <2>8. <<c>> \in Seq(Char)
    OBVIOUS
  <2>9. OutputTypes'
    BY <1>s, <2>7, <2>8, PutTypes
  <2>10. trace' = [trace EXCEPT ![t] = Tail(stack)]
    BY <1>9, <2>1 DEF DumpPC
  <2>11. ThreadTypes'
    BY <1>9, <1>s, <2>2, <2>10 DEF DumpPC, ThreadTypes
  <2> QED
    BY <1>9, <1>f, <1>g, <2>9, <2>11 DEF DumpPC
<1>10. ASSUME NEW t \in Threads, CallBase(t) PROVE ThreadTypes' /\ OutputTypes' /\ FlagTypes'
  <2>1. UNCHANGED <<buffer, message, trace, output, g_program_invocation_short_name, crash_reason,
                    reason_text, calls>>
        /\ exited' \in BOOLEAN
    BY <1>10, <1>g DEF CallBase, Exit, Throw
  <2> QED
    BY <1>f, <1>g, <1>o, <1>t, <2>1
<1>11. CASE ResetFailureFunction \/ GetInstalledFailureFunction \/ InstallDump
  <2>1. UNCHANGED <<buffer, message, trace, output, g_program_invocation_short_name, crash_reason,
                    reason_text, exited, calls>>
    BY <1>11 DEF ResetFailureFunction, GetInstalledFailureFunction, InstallDump
  <2> QED
    BY <1>f, <1>g, <1>o, <1>t, <2>1
<1>12. ASSUME NEW t \in Threads, CheckFails(t), calls' \in Nat
       PROVE  ThreadTypes' /\ OutputTypes' /\ FlagTypes'
  <2>1. reason_text' \in [Macros -> Seq(Char)]
    BY <1>12, <1>x DEF CheckFails
  <2> QED
    BY <1>12, <1>f, <1>g, <1>o, <1>t, <2>1 DEF CheckFails
<1>13. ASSUME Called PROVE calls' \in Nat
  BY <1>13, <1>g DEF Called
<1>14. CASE InitGoogleLogging
  <2>1. CASE g_program_invocation_short_name
    BY <1>12, <1>13, <1>14, <1>m, <2>1 DEF InitGoogleLogging
  <2>2. CASE ~g_program_invocation_short_name
    <3>1. UNCHANGED <<buffer, message, trace, output, crash_reason, reason_text, exited>>
          /\ g_program_invocation_short_name' \in BOOLEAN /\ calls' \in Nat
      BY <1>13, <1>14, <2>2 DEF InitGoogleLogging
    <3> QED
      BY <1>f, <1>g, <1>o, <1>t, <3>1
  <2> QED
    BY <2>1, <2>2
<1>15. CASE ShutdownGoogleLogging
  <2>1. CASE ~g_program_invocation_short_name
    BY <1>12, <1>13, <1>15, <1>m, <2>1 DEF ShutdownGoogleLogging
  <2>2. CASE g_program_invocation_short_name
    <3>1. UNCHANGED <<buffer, message, trace, output, crash_reason, reason_text, exited>>
          /\ g_program_invocation_short_name' \in BOOLEAN /\ calls' \in Nat
      BY <1>13, <1>15, <2>2 DEF ShutdownGoogleLogging, thread
    <3> QED
      BY <1>f, <1>g, <1>o, <1>t, <3>1
  <2> QED
    BY <2>1, <2>2
<1>16. ASSUME NEW f, InstallFailureFunction(f) PROVE ThreadTypes' /\ OutputTypes' /\ FlagTypes'
  <2>1. UNCHANGED <<buffer, message, trace, output, crash_reason, reason_text, exited,
                    g_program_invocation_short_name>>
        /\ calls' \in Nat
    BY <1>13, <1>16 DEF InstallFailureFunction, thread
  <2> QED
    BY <1>f, <1>g, <1>o, <1>t, <2>1
<1>17. ASSUME NEW t \in Threads, Step(t) PROVE ThreadTypes' /\ OutputTypes' /\ FlagTypes'
  BY <1>2, <1>3, <1>4, <1>r, <1>6, <1>8, <1>9, <1>10, <1>11, <1>17 DEF Step
<1> QED
  BY <1>1, <1>7, <1>14, <1>15, <1>16, <1>17 DEF RawNext

LEMMA SetupKept ==
  ASSUME RawNext
  PROVE  setup' = setup
BY DEF RawNext, Step, RawLog, LogFatal, InitGoogleLogging, ShutdownGoogleLogging,
       InstallFailureFunction, Write, WriteFatal, Crash, FillRaw, RecordCrashReason, SetCrashReason,
       RestoreText, Fail, DumpPC, CallBase, ResetFailureFunction, GetInstalledFailureFunction, InstallDump,
       CheckFails

\* The threads do not make the file shorter.
LEMMA ThreadGrows ==
  ASSUME IInv, TypeInv, RawNext
  PROVE  Len(file) <= Len(file')
<1>s. ThreadTypes /\ OutputTypes
  BY DEF TypeInv
<1>1. Len(file) \in Nat
  BY <1>s DEF OutputTypes
<1>2. CASE UNCHANGED file
  BY <1>1, <1>2
<1>3. ASSUME NEW t \in Threads, Write(t) \/ WriteFatal(t) PROVE Len(file) <= Len(file')
  <2>1. buffer[t] \in Seq(Char) /\ Put(buffer[t])
    BY <1>3, <1>s DEF Write, WriteFatal, ThreadTypes
  <2> QED
    BY <1>s, <2>1, PutGrows
<1>4. ASSUME NEW t \in Threads, DumpPC(t) PROVE Len(file) <= Len(file')
  <2>1. PICK stack \in Seq(Nat) : stack = trace[t] /\ stack # <<>>
    BY <1>4, <1>s DEF DumpPC, ThreadTypes
  <2>2. PICK a \in Nat : a = Head(stack)
    BY <2>1
  <2>3. PICK id \in Nat : id = Len(written) + 1
    BY <1>s DEF OutputTypes
  <2>4. PICK c : c = [kind |-> "trace", id |-> id, at |-> a]
    OBVIOUS
  <2>5. c \in Char
    BY <2>4 DEF Char
  <2>6. <<c>> \in Seq(Char) /\ Put(<<c>>)
    BY <1>4, <2>1, <2>2, <2>3, <2>4, <2>5 DEF DumpPC
  <2> QED
    BY <1>s, <2>6, PutGrows
<1>5. RawNext => UNCHANGED file \/ \E t \in Threads : Write(t) \/ WriteFatal(t) \/ DumpPC(t)
  BY DEF RawNext, Step, RawLog, LogFatal, InitGoogleLogging, ShutdownGoogleLogging,
         InstallFailureFunction, Crash, FillRaw, RecordCrashReason, SetCrashReason, RestoreText,
         Fail, CallBase, ResetFailureFunction, GetInstalledFailureFunction, InstallDump,
         CheckFails, output
<1> QED
  BY <1>2, <1>3, <1>4, <1>5

\* A step of the truncation keeps the types.
LEMMA TruncationKeepsTypes ==
  ASSUME IInv, TypeInv, Truncate
  PROVE  TypeInv'
<1>s. Shape /\ ThreadTypes /\ OutputTypes /\ FlagTypes /\ TruncationTypes
  BY DEF IInv, TypeInv
<1>k. setup.keep \in Nat /\ setup.limit \in Nat
  BY <1>s, SetupFacts DEF Shape, Setup
<1>a. UNCHANGED <<setup, thread, failure, reason, exited, bounds>>
  BY DEF Truncate, Open, OpenFails, Fstat, FstatFails, LogTruncating, Pread, Pwrite,
         PwriteShort, CopyFails, Ftruncate, FtruncateFails, Aside, InFile
<1>1. ThreadTypes' /\ FlagTypes'
  BY <1>a, <1>s DEF ThreadTypes, FlagTypes, thread, failure, reason, bounds
<1>h. Hole \in FileChar /\ <<>> \in Seq(FileChar)
  BY DEF FileChar
<1>n. /\ size \in Nat /\ read_offset \in Nat /\ write_offset \in Nat /\ truncations \in Nat
      /\ file \in Seq(FileChar) /\ copybuf \in Seq(FileChar) /\ Len(file) \in Nat
      /\ Len(copybuf) \in Nat
  BY <1>s DEF TruncationTypes, OutputTypes
<1>o. ASSUME UNCHANGED <<offset, written>>, file' \in Seq(FileChar) PROVE OutputTypes'
  BY <1>o, <1>s DEF OutputTypes
<1>p. ASSUME NEW n \in Nat, n <= Len(file)
      PROVE  SubSeq(file, 1, n) \in Seq(FileChar) /\ Len(SubSeq(file, 1, n)) = n
  <2>1. \A i \in 1 .. n : file[i] \in FileChar
    BY <1>n, <1>p
  <2> QED
    BY <1>n, <1>p, <2>1, SubSeqProperties
<1>t. ASSUME setup' = setup, at' \in {"idle", "fstat", "read", "write", "truncate"},
             {size', read_offset', write_offset', truncations'} \subseteq Nat,
             copybuf' \in Seq(FileChar), failed' \in BOOLEAN, given_up' = given_up,
             at' \in {"read", "write", "truncate"} => write_offset' <= Len(file)'
      PROVE  TruncationTypes'
  BY <1>s, <1>t DEF TruncationTypes
<1>u. setup' = setup
  BY <1>a
<1>w. at \in {"read", "write", "truncate"} => write_offset <= Len(file)
  BY <1>s DEF TruncationTypes
<1>2. CASE Open \/ FstatFails \/ CopyFails \/ FtruncateFails
  <2>1. UNCHANGED <<output, locals, given_up>>
    BY <1>2 DEF Open, FstatFails, CopyFails, FtruncateFails
  <2>2. truncations' \in Nat
    BY <1>2, <1>n DEF Open, FstatFails, CopyFails, FtruncateFails
  <2>3. failed' \in BOOLEAN
    BY <1>2, <1>s DEF Open, FstatFails, CopyFails, FtruncateFails, TruncationTypes
  <2>4. at' \in {"idle", "fstat"} \/ (at' = "truncate" /\ at \in {"read", "write"})
    <3>1. CASE Open
      BY <3>1 DEF Open, At
    <3>2. CASE FstatFails
      BY <3>2 DEF FstatFails, At
    <3>3. CASE CopyFails
      BY <3>3 DEF CopyFails
    <3>4. CASE FtruncateFails
      BY <3>4 DEF FtruncateFails, At
    <3> QED
      BY <1>2, <3>1, <3>2, <3>3, <3>4
  <2>5. at' \in {"read", "write", "truncate"} => write_offset' <= Len(file)'
    BY <1>w, <2>1, <2>4 DEF output, locals
  <2>6. {size', read_offset', write_offset', truncations'} \subseteq Nat
        /\ copybuf' \in Seq(FileChar) /\ given_up' = given_up
    BY <1>n, <2>1, <2>2 DEF locals
  <2>7. TruncationTypes'
    BY <1>t, <1>u, <2>3, <2>4, <2>5, <2>6
  <2>8. OutputTypes'
    BY <1>n, <1>o, <2>1 DEF output
  <2> QED
    BY <1>1, <2>7, <2>8 DEF TypeInv
<1>3. CASE OpenFails
  <2>1. /\ UNCHANGED <<offset, written, locals, given_up>> /\ file' \in {file, <<>>}
        /\ truncations' = truncations + 1 /\ failed' = TRUE /\ at' = "idle"
    BY <1>3 DEF OpenFails, At, InFile
  <2>2. OutputTypes'
    BY <1>h, <1>n, <1>o, <2>1
  <2>3. TruncationTypes'
    BY <1>n, <1>t, <1>u, <2>1 DEF locals
  <2> QED
    BY <1>1, <2>2, <2>3 DEF TypeInv
<1>4. CASE Fstat
  <2>1. UNCHANGED <<output, copybuf, read_offset, write_offset, truncations, failed>>
        /\ size' = Len(file)
    BY <1>4 DEF Fstat
  <2>2. OutputTypes'
    BY <1>n, <1>o, <2>1 DEF output
  <2>3. CASE Len(file) <= setup.limit \/ Len(file) <= setup.keep
    <3>1. at' = "idle" /\ given_up' = given_up
      BY <1>4, <2>3 DEF Fstat
    <3>2. TruncationTypes'
      BY <1>n, <1>s, <1>t, <1>u, <2>1, <3>1 DEF TruncationTypes
    <3> QED
      BY <1>1, <2>2, <3>2 DEF TypeInv
  <2>4. CASE ~(Len(file) <= setup.limit \/ Len(file) <= setup.keep)
    <3>1. at' = "log"
          /\ given_up' = given_up \cup Range(SubSeq(file, 1, Len(file) - setup.keep))
      BY <1>4, <2>4 DEF Fstat
    <3>2. PICK n \in Nat : n = Len(file) - setup.keep
      BY <1>k, <1>n, <2>4
    <3>8. n <= Len(file)
      BY <1>k, <1>n, <3>2
    <3>3. PICK s \in Seq(FileChar) : s = SubSeq(file, 1, n)
      BY <1>p, <3>8
    <3>4. Range(s) \subseteq FileChar
      BY OwnRange
    <3>5. given_up' \subseteq FileChar
      BY <1>s, <3>1, <3>2, <3>3, <3>4 DEF TruncationTypes
    <3>6. setup'.keep <= size'
      BY <1>k, <1>n, <1>u, <2>1, <2>4
    <3>7. TruncationTypes'
      BY <1>n, <1>s, <2>1, <3>1, <3>5, <3>6 DEF TruncationTypes
    <3> QED
      BY <1>1, <2>2, <3>7 DEF TypeInv
  <2> QED
    BY <2>3, <2>4
<1>5. CASE LogTruncating
  <2>1. /\ read_offset' = size - setup.keep /\ write_offset' = 0 /\ at = "log" /\ at' = "read"
        /\ UNCHANGED <<size, copybuf, truncations, failed, given_up>>
    BY <1>5 DEF LogTruncating, At
  <2>2. read_offset' \in Nat
    BY <1>k, <1>n, <1>s, <2>1 DEF TruncationTypes
  <2>3. ASSUME OutputTypes' PROVE TruncationTypes'
    <3>1. Len(file)' \in Nat
      BY <2>3 DEF OutputTypes
    <3> QED
      BY <1>n, <1>s, <1>t, <1>u, <2>1, <2>2, <3>1 DEF TruncationTypes
  <2>4. CASE UNCHANGED output
    <3>1. OutputTypes'
      BY <1>n, <1>o, <2>4 DEF output
    <3> QED
      BY <1>1, <2>3, <3>1 DEF TypeInv
  <2>5. CASE Put(Text("truncating", Len(written) + 1, 1))
    <3>1. PICK id \in Nat : id = Len(written) + 1
      BY <1>s DEF OutputTypes
    <3>2. \A i \in 1 .. 1 : [kind |-> "truncating", id |-> id, at |-> i] \in Char
      BY DEF Char
    <3>3. Text("truncating", id, 1) \in Seq(Char)
      BY <3>2 DEF Text
    <3>4. OutputTypes'
      BY <1>s, <2>5, <3>1, <3>3, PutTypes
    <3> QED
      BY <1>1, <2>3, <3>4 DEF TypeInv
  <2> QED
    BY <1>5, <2>4, <2>5 DEF LogTruncating
<1>6. CASE Pread
  <2>1. /\ UNCHANGED <<output, size, read_offset, write_offset, truncations, failed, given_up>>
        /\ at' \in {"truncate", "write"} /\ at = "read"
        /\ copybuf' = SubSeq(file, read_offset + 1, Min({Len(file), read_offset + kCopyBlockSize}))
    BY <1>6 DEF Pread
  <2>2. PICK p \in Nat : p = read_offset + 1
    BY <1>n
  <2>3. PICK n \in Nat : n = Min({Len(file), read_offset + kCopyBlockSize}) /\ n <= Len(file)
    <3>1. read_offset + kCopyBlockSize \in Nat
      BY <1>n, StderrAssumption
    <3> QED
      BY <1>n, <3>1, MinOfTwo
  <2>4. \A i \in p .. n : file[i] \in FileChar
    <3>1. \A i \in p .. n : i \in 1 .. Len(file)
      BY <1>n, <2>2, <2>3
    <3> QED
      BY <1>n, <3>1
  <2>5. copybuf' \in Seq(FileChar)
    <3>1. p \in Int /\ n \in Int
      BY <2>2, <2>3
    <3>2. SubSeq(file, p, n) \in Seq(FileChar)
      BY <2>4, <3>1, SubSeqProperties
    <3>3. copybuf' = SubSeq(file, p, n)
      BY <2>1, <2>2, <2>3
    <3> QED
      BY <3>2, <3>3
  <2>6. OutputTypes'
    BY <1>n, <1>o, <2>1 DEF output
  <2>7. TruncationTypes'
    BY <1>n, <1>s, <1>t, <1>u, <1>w, <2>1, <2>5 DEF TruncationTypes, output
  <2> QED
    BY <1>1, <2>6, <2>7 DEF TypeInv
<1>7. CASE Pwrite \/ PwriteShort
  <2>1. PICK n \in 0 .. Len(copybuf) :
          /\ file' = Overwritten(file, write_offset, SubSeq(copybuf, 1, n))
          /\ write_offset' = write_offset + n
    <3>1. CASE Pwrite
      <4>1. SubSeq(copybuf, 1, Len(copybuf)) = copybuf
        BY <1>n
      <4>2. Len(copybuf) \in 0 .. Len(copybuf)
        BY <1>n
      <4> QED
        BY <3>1, <4>1, <4>2 DEF Pwrite
    <3>2. CASE PwriteShort
      <4>1. \A i \in 0 .. Len(copybuf) - 1 : i \in 0 .. Len(copybuf)
        BY <1>n
      <4> QED
        BY <3>2, <4>1 DEF PwriteShort
    <3> QED
      BY <1>7, <3>1, <3>2
  <2>2. /\ read_offset' = read_offset + Len(copybuf) /\ at' = "read"
        /\ UNCHANGED <<offset, written, size, copybuf, truncations, given_up>>
        /\ failed' \in BOOLEAN
    BY <1>7, <1>s DEF Pwrite, PwriteShort, At, InFile, TruncationTypes
  <2>3. SubSeq(copybuf, 1, n) \in Seq(FileChar)
    <3>1. n \in Nat /\ \A i \in 1 .. n : copybuf[i] \in FileChar
      BY <1>n
    <3> QED
      BY <1>n, <3>1, SubSeqProperties
  <2>4. PICK s \in Seq(FileChar) : s = SubSeq(copybuf, 1, n)
    BY <2>3
  <2>5. file' \in Seq(FileChar)
    BY <1>h, <1>n, <2>1, <2>4, OverwrittenType
  <2>6. OutputTypes'
    BY <1>o, <2>2, <2>5
  <2>7. n \in Nat /\ write_offset' \in Nat /\ read_offset' \in Nat
    BY <1>n, <2>1, <2>2
  <2>8. write_offset' <= Len(file)'
    <3>1. Len(s) = n
      BY <1>n, <2>4
    <3>2. PICK l \in Nat : l = write_offset + Len(s)
      BY <1>n, <2>7, <3>1
    <3>4. PICK m \in Nat : m = Max({Len(file), l}) /\ l <= m
      BY <1>n, <3>2, MaxOfTwo
    <3>3. Len(file)' = m
      BY <2>1, <2>4, <3>2, <3>4 DEF Overwritten
    <3> QED
      BY <2>1, <3>1, <3>2, <3>3, <3>4
  <2>9. TruncationTypes'
    BY <1>n, <1>t, <1>u, <2>2, <2>7, <2>8
  <2> QED
    BY <1>1, <2>6, <2>9 DEF TypeInv
<1>8. CASE Ftruncate
  <2>1. /\ file' = SubSeq(file, 1, write_offset) /\ at = "truncate" /\ at' = "idle"
        /\ UNCHANGED <<offset, written, locals, truncations, failed, given_up>>
    BY <1>8 DEF Ftruncate, At, InFile
  <2>2. OutputTypes'
    BY <1>n, <1>o, <1>p, <1>w, <2>1
  <2>3. TruncationTypes'
    BY <1>n, <1>s, <1>t, <1>u, <2>1 DEF TruncationTypes, locals
  <2> QED
    BY <1>1, <2>2, <2>3 DEF TypeInv
<1> QED
  BY <1>2, <1>3, <1>4, <1>5, <1>6, <1>7, <1>8 DEF Truncate

LEMMA TypesKept ==
  ASSUME IInv, TypeInv, [Next]_vars
  PROVE  TypeInv'
<1>1. CASE RawNext /\ Beside
  <2>1. ThreadTypes' /\ OutputTypes' /\ FlagTypes'
    BY <1>1, ThreadKeepsTypes
  <2>2. UNCHANGED <<at, locals, truncations, failed>>
    BY <1>1 DEF Beside
  <2>3. given_up' \subseteq FileChar
    <3>1. given_up' \subseteq given_up \cup Range(written')
      BY <1>1 DEF Beside
    <3>2. PICK s \in Seq(Char) : s = written'
      BY <2>1 DEF OutputTypes
    <3>3. Range(s) \subseteq Char
      BY OwnRange
    <3> QED
      BY <3>1, <3>2, <3>3 DEF TypeInv, TruncationTypes, FileChar
  <2>4. setup' = setup
    BY <1>1, SetupKept
  <2>5. at' \in {"read", "write", "truncate"} => write_offset' <= Len(file)'
    <3>1. Len(file) <= Len(file')
      BY <1>1, ThreadGrows
    <3>2. Len(file) \in Nat /\ Len(file') \in Nat /\ write_offset \in Nat
      BY <2>1 DEF TypeInv, OutputTypes, TruncationTypes
    <3>3. at \in {"read", "write", "truncate"} => write_offset <= Len(file)
      BY DEF TypeInv, TruncationTypes
    <3> QED
      BY <2>2, <3>1, <3>2, <3>3 DEF locals
  <2>6. TruncationTypes'
    BY <2>2, <2>3, <2>4, <2>5 DEF TypeInv, TruncationTypes, locals
  <2> QED
    BY <2>1, <2>6 DEF TypeInv
<1>2. CASE ~exited /\ Truncate
  BY <1>2, TruncationKeepsTypes
<1>3. CASE UNCHANGED vars
  BY <1>3 DEF vars, rawVars, truncVars, thread, output, failure, reason, bounds, locals, TypeInv,
              ThreadTypes, OutputTypes, FlagTypes, TruncationTypes
<1> QED
  BY <1>1, <1>2, <1>3 DEF Next

\* Every state of RAW_LOG, of its failures and of the truncations of stderr has the types that
\* are declared for it; in particular a stack trace consists of addresses, although a frame
\* may be damaged, and read_offset does not become negative.
THEOREM TypeCorrect == Spec => []TypeOK
<1>1. Init => TypeInv
  <2> SUFFICES ASSUME Init PROVE TypeInv
    OBVIOUS
  <2>1. <<>> \in Seq(Char) /\ <<>> \in Seq(Nat) /\ <<>> \in Seq(FileChar)
    OBVIOUS
  <2>2. NoReason \in CrashReason
    BY <2>1 DEF NoReason, CrashReason
  <2>3. setup.initialized \in BOOLEAN
    BY SetupFacts DEF Init, RawInit, Setup
  <2>4. ThreadTypes
    BY <2>1 DEF Init, RawInit, ThreadTypes
  <2>6. OutputTypes
    BY <2>1 DEF Init, RawInit, OutputTypes
  <2>7. TruncationTypes
    <3>1. at = "idle" /\ size = 0 /\ read_offset = 0 /\ write_offset = 0 /\ truncations = 0
          /\ copybuf = <<>> /\ failed = FALSE /\ given_up = {}
      BY DEF Init
    <3>2. {size, read_offset, write_offset, truncations} \subseteq Nat
      BY <3>1
    <3>3. copybuf \in Seq(FileChar) /\ given_up \subseteq FileChar /\ failed \in BOOLEAN
      BY <2>1, <3>1
    <3> QED
      BY <3>1, <3>2, <3>3 DEF TruncationTypes
  <2>5. FlagTypes
    <3>1. <<>> \in Seq(Char)
      OBVIOUS
    <3> QED
      BY <2>2, <2>3, <3>1 DEF Init, RawInit, FlagTypes, Macros
  <2> QED
    BY <2>4, <2>5, <2>6, <2>7 DEF TypeInv
<1> QED
  BY <1>1, Invariant, TypesHold, TypesKept, PTL DEF Spec
=============================================================================
