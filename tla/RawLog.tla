------------------------------- MODULE RawLog -------------------------------
(***************************************************************************)
(* RAW_LOG and what happens when it is FATAL (src/raw_logging.cc,          *)
(* src/utilities.cc): the line in a buffer of fixed size, the one write to *)
(* stderr, the crash reason, the failure function with its stack trace,    *)
(* and InitGoogleLogging and ShutdownGoogleLogging, which install the      *)
(* failure function.  LOG(FATAL) takes part as far as it records a crash   *)
(* reason and fails; its other steps are those of module LogMessage.       *)
(*                                                                         *)
(* pc[t] is the point thread t has reached.  A step ends at a write, at an *)
(* atomic operation, and after each assignment that other threads may see. *)
(***************************************************************************)
EXTENDS StackTrace

CONSTANTS
  Threads,
  Main,           \* the thread that calls InitGoogleLogging and ShutdownGoogleLogging
  Custom,         \* failure functions of the program
  kLogBufSize,    \* 3000
  TooLong,        \* length of "RAW_LOG ERROR: The Message was too long!\n"
  kStackDepth,    \* 32, the length of crash_reason.stack and of a dump
  GLOG_FATAL,
  Setups          \* what a run varies, see Setup

\* A statement: RAW_LOG or LOG, the length of the prefix that its file name and
\* line make, the length of its message, or -1 where the format is in error.
Statement == [macro : {"RAW_LOG", "LOG"}, severity : Nat, prefix : Nat, message : Int]

Setup == [implementation : Implementations,
          ready_to_run : BOOLEAN,     \* has the static initializer behind GetStackTrace run?
          callers : Seq(Nat \ {0}),   \* the calls that lead to a statement
          damaged : Nat,              \* the frame whose link is damaged, 0 for none
          link : Nat,                 \* ... and what it is then
          initialized : BOOLEAN,      \* is InitGoogleLogging called before the threads start?
          stderrthreshold : Nat,      \* with the flags that send everything to stderr
          Statements : SUBSET Statement,  \* the RAW_LOG and LOG(FATAL) statements
          MaxStatements : Nat,        \* bound: statements executed
          MaxCalls : Nat,             \* bound: calls of InitGoogleLogging,
                                      \* ShutdownGoogleLogging, InstallFailureFunction
          MaxTruncations : Nat,       \* bound: calls of TruncateStdoutStderr
          append : BOOLEAN,           \* is stderr a file opened with O_APPEND?
          limit : Nat,                \* MaxLogSize() << 20
          keep : Nat,                 \* 1 << 20
          logtostderr : BOOLEAN,      \* do LOG statements of the truncation go to stderr?
          failures : BOOLEAN]         \* may the system calls of the truncation fail?

ASSUME RawLogAssumption ==
  /\ kLogBufSize \in Nat \ {0}
  /\ kStackDepth \in Nat \ {0}
  /\ {TooLong, GLOG_FATAL} \subseteq Nat
  /\ kStackDepth + 5 <= kStackLength
  /\ Main \in Threads
  /\ Custom \cap {"logging_fail", "DumpStackTraceAndExit", "nullptr"} = {}
  /\ \A s \in Setups : s \in Setup

\* A damaged link is one of those that NextStackFrame refuses to follow, from
\* whichever frame the damaged one is below the two to six that the library adds.
\* (Nothing in the code can tell a link to a frame further up from an intact one;
\* what the other implementations find is up to the library they ask.)
ASSUME DamageAssumption ==
  \A s \in Setups : s.damaged # 0 =>
    /\ s.implementation \in {"x86", "powerpc"}
    /\ s.damaged <= Len(s.callers)
    /\ \A k \in 2 .. 6 : LET frame == Addr(k + s.damaged) IN
         \/ s.link <= frame
         \/ s.link - frame > MaxFrame
         \/ s.link % WordSize # 0

\* A character of the output: the kind of text it is from, the number of its
\* write, and its place in there.  Hole is a byte nobody has written.
Char == [kind : {"prefix", "message", "newline", "toolong", "trace", "truncating"},
         id : Nat, at : Nat]
Hole == [kind |-> "hole", id |-> 0, at |-> 0]

\* CrashReason, but for the pointer to the message, see reason_text.
CrashReason == [filled : BOOLEAN, stack : Seq(Nat)]

\* Failure functions: the library's own, DumpStackTraceAndExit, the program's.
FailureFunctions == {"logging_fail", "DumpStackTraceAndExit"} \cup Custom

VARIABLES
  setup,                   \* the element of Setups that holds, constant
  pc,                      \* where each thread is
  statement,               \* the statement it executes
  buffer,                  \* its local variable of that name
  message,                 \* ... and what in there is the message
  trace,                   \* the stack it has read, and has not yet dumped
  file,                    \* the file that is stderr
  offset,                  \* its offset, unless every write appends
  written,                 \* all that has ever been written to it
  g_program_invocation_short_name,  \* is it not empty?
  g_logging_fail_func,
  base_logging_fail_func,  \* "nullptr" at first
  crashed,
  crash_reason,            \* the static variables of this name, in raw_logging.cc
                           \* ("RAW_LOG") and in logging.cc ("LOG")
  reason_text,             \* what their messages point to: crash_buf ("RAW_LOG"), and
                           \* message_text_ of fatal_msg_data_exclusive ("LOG")
  g_reason,                \* which of them g_reason points to, or "nullptr"
  fatal_msg_exclusive,     \* has there been no FATAL LogMessage yet?
  exited,
  executed,                \* statements so far
  calls                    \* calls so far

thread == <<pc, statement, buffer, message, trace>>
output == <<file, offset, written>>
failure == <<g_program_invocation_short_name, g_logging_fail_func, base_logging_fail_func>>
reason == <<crashed, crash_reason, reason_text, g_reason, fatal_msg_exclusive>>
bounds == <<executed, calls>>

rawVars == <<setup, thread, output, failure, reason, exited, bounds>>

Labels == {"idle", "raw", "crash", "fill", "record", "publish", "restore", "fail", "dump",
           "reset", "get", "install"}

NoReason == [filled |-> FALSE, stack |-> <<>>]

NoStatement == [macro |-> "RAW_LOG", severity |-> 0, prefix |-> 0, message |-> 0]

RawInit ==
  /\ setup \in Setups
  /\ pc = [t \in Threads |-> "idle"]
  /\ statement = [t \in Threads |-> NoStatement]
  /\ buffer = [t \in Threads |-> <<>>]
  /\ message = [t \in Threads |-> <<>>]
  /\ trace = [t \in Threads |-> <<>>]
  /\ file = <<>>
  /\ offset = 0
  /\ written = <<>>
  /\ g_program_invocation_short_name = setup.initialized
  /\ g_logging_fail_func = IF setup.initialized THEN "DumpStackTraceAndExit" ELSE "logging_fail"
  /\ base_logging_fail_func = IF setup.initialized THEN "logging_fail" ELSE "nullptr"
  /\ crashed = FALSE
  /\ crash_reason = [m \in {"RAW_LOG", "LOG"} |-> NoReason]
  /\ reason_text = [m \in {"RAW_LOG", "LOG"} |-> <<>>]
  /\ g_reason = "nullptr"
  /\ fatal_msg_exclusive = TRUE
  /\ exited = FALSE
  /\ executed = 0
  /\ calls = 0

Goto(t, from, to) == pc[t] = from /\ pc' = [pc EXCEPT ![t] = to]

----------------------------------------------------------------------------
(* Writing to stderr *)

\* The bytes s written at position at of a file, which grows as necessary.
Overwritten(f, at, s) ==
  [i \in 1 .. Max({Len(f), at + Len(s)}) |->
    IF i \in at + 1 .. at + Len(s) THEN s[i - at]
    ELSE IF i <= Len(f) THEN f[i] ELSE Hole]

\* write(STDERR_FILENO, s, strlen(s)), which is atomic.
Put(s) ==
  LET at == IF setup.append THEN Len(file) ELSE offset IN
  /\ file' = Overwritten(file, at, s)
  /\ offset' = at + Len(s)
  /\ written' = written \o s

Text(kind, id, n) == [i \in 1 .. n |-> [kind |-> kind, id |-> id, at |-> i]]

----------------------------------------------------------------------------
(* RawLog__ *)

\* The buffer: its text up to the NUL, the place *buf points to, and *size.
Empty == [chars |-> <<>>, pos |-> 0, size |-> kLogBufSize, ok |-> TRUE]

\* vsnprintf(*buf, *size, ...) of a text with n characters; -1 is an error.
Printed(b, text, n) ==
  IF n < 0 \/ b.size = 0 THEN b.chars
  ELSE SubSeq(b.chars, 1, b.pos) \o SubSeq(text, 1, Min({n, b.size - 1}))

\* Mutant: *buf moves on after an overflow, too.
DoRawLog_MovesOn(b, text, n) ==
  IF n < 0 \/ n > b.size
    THEN [chars |-> Printed(b, text, n), pos |-> Len(Printed(b, text, n)),
          size |-> b.size - (Len(Printed(b, text, n)) - b.pos), ok |-> FALSE]
    ELSE [chars |-> Printed(b, text, n), pos |-> b.pos + n, size |-> b.size - n, ok |-> TRUE]

\* DoRawLog and VADoRawLog
DoRawLog(b, text, n) ==
  IF n < 0 \/ n > b.size
    THEN [b EXCEPT !.chars = Printed(b, text, n), !.ok = FALSE]
    ELSE [chars |-> Printed(b, text, n), pos |-> b.pos + n, size |-> b.size - n, ok |-> TRUE]

\* The buffer after the prefix, and when the line is complete.
Prefixed(st, id) == DoRawLog(Empty, Text("prefix", id, st.prefix), st.prefix)

Line(st, id) ==
  LET m == DoRawLog(Prefixed(st, id), Text("message", id, st.message), st.message)
  IN  IF m.ok THEN DoRawLog(m, Text("newline", id, 1), 1)
              ELSE DoRawLog(m, Text("toolong", id, TooLong), TooLong)

\* Flags and severity send the line to stderr; so does a program that has not
\* called InitGoogleLogging.
Suppressed(st) == st.severity < setup.stderrthreshold /\ g_program_invocation_short_name

\* RawLog__ up to the write.
RawLog(t, st) ==
  LET b == Line(st, executed + 1) IN
  /\ st.macro = "RAW_LOG"
  /\ ~Suppressed(st)
  /\ executed < setup.MaxStatements
  /\ executed' = executed + 1
  /\ Goto(t, "idle", "raw")
  /\ statement' = [statement EXCEPT ![t] = st]
  /\ buffer' = [buffer EXCEPT ![t] = b.chars]
  /\ message' = [message EXCEPT ![t] =
       SubSeq(b.chars, Prefixed(st, executed + 1).pos + 1, Len(b.chars))]
  /\ UNCHANGED <<setup, trace, output, failure, reason, exited, calls>>

\* safe_write, in a FATAL statement and in another one, which returns.
WriteFatal(t) ==
  /\ statement[t].severity = GLOG_FATAL
  /\ Goto(t, "raw", "crash")
  /\ Put(buffer[t])
  /\ UNCHANGED <<setup, statement, buffer, message, trace, failure, reason, exited, bounds>>

Write(t) ==
  /\ statement[t].severity # GLOG_FATAL
  /\ Goto(t, "raw", "idle")
  /\ Put(buffer[t])
  /\ statement' = [statement EXCEPT ![t] = NoStatement]
  /\ buffer' = [buffer EXCEPT ![t] = <<>>]
  /\ message' = [message EXCEPT ![t] = <<>>]
  /\ UNCHANGED <<setup, trace, failure, reason, exited, bounds>>

\* Mutant: whoever fails records its reason.
Crash_Always(t) ==
  /\ Goto(t, "crash", "fill")
  /\ crashed' = TRUE
  /\ UNCHANGED <<setup, statement, buffer, message, trace, output, failure, crash_reason,
                 reason_text, g_reason, fatal_msg_exclusive, exited, bounds>>

\* sync_val_compare_and_swap(&crashed, false, true)
Crash(t) ==
  /\ Goto(t, "crash", IF crashed THEN "fail" ELSE "fill")
  /\ crashed' = TRUE
  /\ UNCHANGED <<setup, statement, buffer, message, trace, output, failure, crash_reason,
                 reason_text, g_reason, fatal_msg_exclusive, exited, bounds>>

----------------------------------------------------------------------------
(* Stack traces.  The calls that are active below the statement, innermost     *)
(* first, have the addresses 1, 2, ...                                         *)

in_GetStackTrace == 1
in_RawLog__ == 2
in_RecordCrashReason == 3
in_SendToLog == 4
in_Flush == 5
in_FlushAndFailAtEnd == 6
in_LogMessageFatal == 7
in_Fail == 8
in_DumpStackTraceAndExit == 9
in_DumpStackTrace == 10

\* GetStackTrace(stack, kStackDepth, skip_count) called through calls.
StackOf(calling, skip_count) ==
  LET ips == <<in_GetStackTrace>> \o calling \o setup.callers
      memory == Memory(setup.implementation, ips)
      damaged == Len(ips) - Len(setup.callers) + setup.damaged
  IN  GetStackTrace(setup.implementation, setup.ready_to_run, ips,
        IF setup.damaged = 0 THEN memory ELSE Damaged(memory, Addr(damaged), setup.link),
        kStackDepth, skip_count)

Fill(m, calling, skip_count) ==
  crash_reason' = [crash_reason EXCEPT ![m] =
    [filled |-> TRUE, stack |-> StackOf(calling, skip_count)]]

\* RawLog__ copies its message and fills in its crash_reason ...
FillRaw(t) ==
  /\ Goto(t, "fill", "publish")
  /\ reason_text' = [reason_text EXCEPT !["RAW_LOG"] = message[t]]
  /\ Fill("RAW_LOG", <<in_RawLog__>>, 1)
  /\ UNCHANGED <<setup, statement, buffer, message, trace, output, failure,
                 crashed, g_reason, fatal_msg_exclusive, exited, bounds>>

\* A FATAL LogMessage: the constructor, and Flush up to RecordCrashReason.  The
\* text of the first one is in the exclusive buffer, with the line feed that
\* Flush puts behind it.
Flush(t, st) ==
  /\ Goto(t, "idle", IF fatal_msg_exclusive THEN "record" ELSE "fail")
  /\ fatal_msg_exclusive' = FALSE
  /\ reason_text' =
       IF fatal_msg_exclusive
         THEN [reason_text EXCEPT !["LOG"] =
                Text("message", executed + 1, st.message) \o Text("newline", executed + 1, 1)]
         ELSE reason_text
  /\ statement' = [statement EXCEPT ![t] = st]

LogFatal(t, st) ==
  /\ st.macro = "LOG"
  /\ executed < setup.MaxStatements
  /\ executed' = executed + 1
  /\ Flush(t, st)
  /\ UNCHANGED <<setup, buffer, message, trace, output, failure, crashed, crash_reason,
                 g_reason, exited, calls>>

\* ... and LogMessage::RecordCrashReason that of the first FATAL message, which
\* points to the text in the buffer.
RecordCrashReason(t) ==
  /\ Goto(t, "record", "publish")
  /\ Fill("LOG", <<in_RecordCrashReason, in_SendToLog, in_Flush, in_FlushAndFailAtEnd,
                   in_LogMessageFatal>>, 4)
  /\ UNCHANGED <<setup, statement, buffer, message, trace, output, failure, crashed,
                 reason_text, g_reason, fatal_msg_exclusive, exited, bounds>>

\* sync_val_compare_and_swap(&g_reason, 0, &crash_reason)
SetCrashReason(t) ==
  /\ Goto(t, "publish", IF statement[t].macro = "LOG" THEN "restore" ELSE "fail")
  /\ g_reason' = IF g_reason = "nullptr" THEN statement[t].macro ELSE g_reason
  /\ UNCHANGED <<setup, statement, buffer, message, trace, output, failure, crashed,
                 crash_reason, reason_text, fatal_msg_exclusive, exited, bounds>>

\* The end of Flush: the buffer is put back as it was before the line feed, with a
\* NUL in its place, since it is static and has held no other message.
RestoreText(t) ==
  /\ Goto(t, "restore", "fail")
  /\ reason_text' = [reason_text EXCEPT !["LOG"] = SubSeq(@, 1, Len(@) - 1)]
  /\ UNCHANGED <<setup, statement, buffer, message, trace, output, failure, crashed,
                 crash_reason, g_reason, fatal_msg_exclusive, exited, bounds>>

----------------------------------------------------------------------------
(* The end of a FATAL statement *)

\* The statement is left by an exception.
Throw(t, from) == Goto(t, from, "idle") /\ UNCHANGED <<exited, trace>>

Exit(t, from) == Goto(t, from, "idle") /\ exited' = TRUE /\ UNCHANGED trace

\* LogMessage::Fail calls the failure function.  The program's own end the
\* process, or return, whereupon Fail throws.
Fail(t) ==
  /\ \/ /\ g_logging_fail_func = "DumpStackTraceAndExit"
        /\ Goto(t, "fail", "dump")
        /\ trace' = [trace EXCEPT ![t] =
             StackOf(<<in_DumpStackTrace, in_DumpStackTraceAndExit, in_Fail>>
                     \o IF statement[t].macro = "RAW_LOG" THEN <<in_RawLog__>>
                        ELSE <<in_FlushAndFailAtEnd, in_LogMessageFatal>>, 2)]
        /\ UNCHANGED exited
     \/ g_logging_fail_func # "DumpStackTraceAndExit" /\ Exit(t, "fail")
     \/ g_logging_fail_func \in Custom /\ Throw(t, "fail")
  /\ UNCHANGED <<setup, statement, buffer, message, output, failure, reason, bounds>>

\* DumpStackTrace writes one line for each address.
DumpPC(t) ==
  /\ trace[t] # <<>>
  /\ Goto(t, "dump", "dump")
  /\ Put(<<[kind |-> "trace", id |-> Len(written) + 1, at |-> Head(trace[t])]>>)
  /\ trace' = [trace EXCEPT ![t] = Tail(@)]
  /\ UNCHANGED <<setup, statement, buffer, message, failure, reason, exited, bounds>>

\* The end of DumpStackTraceAndExit, base_logging_fail_func().  There is no step
\* if that is nullptr, or DumpStackTraceAndExit itself.
CallBase(t) ==
  /\ trace[t] = <<>>
  /\ \/ base_logging_fail_func \in {"logging_fail"} \cup Custom /\ Exit(t, "dump")
     \/ base_logging_fail_func \in Custom /\ Throw(t, "dump")
  /\ UNCHANGED <<setup, statement, buffer, message, output, failure, reason, bounds>>

----------------------------------------------------------------------------
(* InitGoogleLogging, ShutdownGoogleLogging, InstallFailureFunction *)

Called == calls < setup.MaxCalls /\ calls' = calls + 1

\* CHECK(...) << "You called ...": a FATAL message.
CheckFails(t) ==
  /\ Flush(t, [macro |-> "LOG", severity |-> GLOG_FATAL, prefix |-> 0, message |-> 0])
  /\ UNCHANGED <<setup, buffer, message, trace, output, failure, crashed, crash_reason,
                 g_reason, exited, executed>>

\* InitGoogleLoggingUtilities: the name of the program ...
InitGoogleLogging ==
  /\ Called
  /\ IF g_program_invocation_short_name THEN CheckFails(Main)
     ELSE /\ Goto(Main, "idle", "reset")
          /\ g_program_invocation_short_name' = TRUE
          /\ UNCHANGED <<setup, statement, buffer, message, trace, output, g_logging_fail_func,
                         base_logging_fail_func, reason, exited, executed>>

\* Mutant: the failure function is left as it is.
ResetFailureFunction_Not ==
  /\ Goto(Main, "reset", "get")
  /\ UNCHANGED <<setup, statement, buffer, message, trace, output, failure, reason, exited,
                 bounds>>

\* ... InstallFailureFunction(nullptr) ...
ResetFailureFunction ==
  /\ Goto(Main, "reset", "get")
  /\ g_logging_fail_func' = "logging_fail"
  /\ UNCHANGED <<setup, statement, buffer, message, trace, output, base_logging_fail_func,
                 g_program_invocation_short_name, reason, exited, bounds>>

\* ... what is then installed becomes base_logging_fail_func ...
GetInstalledFailureFunction ==
  /\ Goto(Main, "get", "install")
  /\ base_logging_fail_func' = g_logging_fail_func
  /\ UNCHANGED <<setup, statement, buffer, message, trace, output, g_logging_fail_func,
                 g_program_invocation_short_name, reason, exited, bounds>>

\* ... and DumpStackTraceAndExit takes its place.
InstallDump ==
  /\ Goto(Main, "install", "idle")
  /\ g_logging_fail_func' = "DumpStackTraceAndExit"
  /\ UNCHANGED <<setup, statement, buffer, message, trace, output, base_logging_fail_func,
                 g_program_invocation_short_name, reason, exited, bounds>>

\* ShutdownGoogleLoggingUtilities.  The failure functions stay.
ShutdownGoogleLogging ==
  /\ Called
  /\ IF ~g_program_invocation_short_name THEN CheckFails(Main)
     ELSE /\ pc[Main] = "idle"
          /\ g_program_invocation_short_name' = FALSE
          /\ UNCHANGED <<setup, thread, output, g_logging_fail_func,
                         base_logging_fail_func, reason, exited, executed>>

\* A thread installs a failure function of the program, or the default.
InstallFailureFunction(f) ==
  /\ Called
  /\ g_logging_fail_func' = f
  /\ UNCHANGED <<setup, thread, output, g_program_invocation_short_name,
                 base_logging_fail_func, reason, exited, executed>>

----------------------------------------------------------------------------
\* What a thread does once it has begun.
Step(t) ==
  \/ Write(t) \/ WriteFatal(t) \/ Crash(t) \/ FillRaw(t) \/ RecordCrashReason(t) \/ SetCrashReason(t)
  \/ RestoreText(t) \/ Fail(t) \/ DumpPC(t) \/ CallBase(t)
  \/ t = Main /\ (ResetFailureFunction \/ GetInstalledFailureFunction \/ InstallDump)

RawNext ==
  /\ ~exited
  /\ \/ \E t \in Threads : Step(t)
     \/ \E t \in Threads, st \in setup.Statements : RawLog(t, st) \/ LogFatal(t, st)
     \/ InitGoogleLogging \/ ShutdownGoogleLogging
     \/ \E f \in Custom \cup {"logging_fail"} : InstallFailureFunction(f)

----------------------------------------------------------------------------
(* Properties *)

\* Type correctness of the threads, the output and the crash reasons.
RawTypeOK ==
  /\ setup \in Setups
  /\ pc \in [Threads -> Labels]
  /\ statement \in [Threads -> Statement]
  /\ buffer \in [Threads -> Seq(Char)]
  /\ message \in [Threads -> Seq(Char)]
  /\ trace \in [Threads -> Seq(Nat)]
  /\ file \in Seq(Char \cup {Hole})
  /\ offset \in Nat
  /\ written \in Seq(Char)
  /\ {g_program_invocation_short_name, crashed, fatal_msg_exclusive, exited} \subseteq BOOLEAN
  /\ g_logging_fail_func \in FailureFunctions
  /\ base_logging_fail_func \in FailureFunctions \cup {"nullptr"}
  /\ crash_reason \in [{"RAW_LOG", "LOG"} -> CrashReason]
  /\ reason_text \in [{"RAW_LOG", "LOG"} -> Seq(Char)]
  /\ g_reason \in {"RAW_LOG", "LOG", "nullptr"}
  /\ {executed, calls} \subseteq Nat

\* The text r is the text s without the line feed at its end.
LosesLineFeed(s, r) ==
  s # <<>> /\ s[Len(s)].kind = "newline" /\ r = SubSeq(s, 1, Len(s) - 1)

\* "We want to preserve the data from the first call", whichever macro it came
\* from: what g_reason points to is complete, and neither the pointer nor the
\* record it points to changes any more, although several threads fail at once,
\* each with one of two static records.  The message, which is in a buffer that
\* LOG goes on to use, loses a line feed (once: then none is left), and nothing
\* else; that of RAW_LOG is a copy, and stays.
CrashReasonFinal ==
  [][g_reason # "nullptr" =>
       /\ crash_reason[g_reason].filled
       /\ g_reason' = g_reason
       /\ crash_reason'[g_reason] = crash_reason[g_reason]
       /\ \/ reason_text'[g_reason] = reason_text[g_reason]
          \/ g_reason = "LOG" /\ LosesLineFeed(reason_text["LOG"], reason_text'["LOG"])]_rawVars

\* The line RawLog__ writes fits into its buffer.  It is prefix, message and line
\* feed if these fit, and a message that does not fit behind its prefix is replaced
\* by a remark (raw_logging.h.in:59 says that it is chopped off).  A message that
\* has just as many characters as there is room for, or one more, is neither:
\* DoRawLog takes this for success, and the line ends without line feed.
RawLineWhole ==
  \A t \in Threads : pc[t] = "raw" =>
    LET st == statement[t]
        Part(kind, n) == Text(kind, buffer[t][1].id, n)
    IN  /\ Len(buffer[t]) < kLogBufSize
        /\ st.message >= 0 /\ st.prefix + st.message + 1 < kLogBufSize =>
             buffer[t] = Part("prefix", st.prefix) \o Part("message", st.message)
                         \o Part("newline", 1)
        /\ st.prefix <= kLogBufSize
           /\ (st.message < 0 \/ st.prefix + st.message > kLogBufSize) =>
             \A i \in DOMAIN buffer[t] : buffer[t][i].kind \in {"prefix", "toolong"}

\* How many of the callers can be found: all, or as far as the damaged frame.  On
\* x86 this one still has its return address, which belongs to the next call.
Reachable ==
  IF setup.damaged = 0 THEN Len(setup.callers)
  ELSE IF setup.implementation = "x86"
    THEN Min({setup.damaged + 1, Len(setup.callers)}) ELSE setup.damaged

\* The stack of a crash reason begins with the function that contains the
\* RAW_LOG, or with the destructor of the LogMessage, and goes on to the
\* outermost call, or just as far as there is room, or to the damaged frame,
\* whichever implementation of GetStackTrace the build has.  (There is none
\* with _Unwind_Backtrace before static initialization.)
CallersShown ==
  \A m \in {"RAW_LOG", "LOG"} : crash_reason[m].filled =>
    LET calling == (IF m = "LOG" THEN <<in_LogMessageFatal>> ELSE <<>>) \o setup.callers
        found == Len(calling) - Len(setup.callers) + Reachable
    IN  crash_reason[m].stack =
          IF setup.implementation = "unwind" /\ ~setup.ready_to_run THEN <<>>
          ELSE SubSeq(calling, 1, Min({found, kStackDepth}))

\* A thread that has failed, whatever failure functions the program installs
\* and however often it initializes the library, ends the process or leaves
\* the statement by an exception: the function behind DumpStackTraceAndExit is
\* never nullptr, nor itself.
FailureEnds == \A t \in Threads : pc[t] = "fail" ~> exited \/ pc[t] = "idle"
============================================================================
