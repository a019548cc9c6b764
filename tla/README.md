# A verification project for glog

TLA+ modules that model the concurrency and failure behaviour of glog (this
repository's fork of Google's C++ logging library), TLC configurations that check
them on small instances, and TLAPS proofs for instances of any size. Paths are
relative to the repository's root; line numbers refer to `src/logging.cc` unless
another file is named.

## 1. Inventory

| Part | State | Operations | Interacts with |
|---|---|---|---|
| **LogMessage** (`logging.cc` 424-471, 1750-2310, 2800-2830; macros in `glog/logging.h.in`) | per message a `LogMessageData` buffer (thread-local, or one of two static buffers for FATAL messages); `log_mutex`; `num_messages_`; `exit_on_dfatal`; `crash_reason` | constructor/`Init`, `Flush`, six send methods, destructors, `Fail` | calls log files and sinks under `log_mutex`, waits for sinks without it |
| **Sinks** (786-803, 979-1009) | `LogDestination::sinks_` under `sink_mutex_` | `AddLogSink`, `RemoveLogSink`, `LogToSinks`, `WaitForSinks` | user code (`send`, `WaitTillSent`) runs under both mutexes; it may throw, or own a thread that logs |
| **LogFileObject** (491-564, 1059-1562, 2998-3056) | per severity: `file_`, lengths, `rollover_attempt_`, `next_flush_time_`, `file_list_`, base name, extension; global `stop_writing` | `Write`, `Flush`, `SetBasename`, `SetExtension` | the file system, the clock, `fork`; called under `log_mutex` |
| **LogCleaner** (567-600, 1564-1748) | one global object with `next_cleanup_time_` | `Enable`, `Disable`, `Run` | called at the end of `Write`, unlinks files |
| **Mutex** (`base/mutex.h`) | a pthread mutex or rwlock, a critical section, or a counter | `Lock`, `Unlock`, `ReaderLock` | |
| **Conditional macros** (`glog/logging.h.in` 1087-1157) | atomic counters per site | `LOG_EVERY_N`, `LOG_FIRST_N`, ... | |
| **VLOG** (`vlog_is_on.cc`) | list of patterns, list of cached sites, `vmodule_lock` | `InitVLOG3__`, `SetVLOGLevel`, `SafeFNMatch_` | read without lock at every site |
| **Failure signal handler** (`signalhandler.cc`) | `g_entered_thread_id_pointer` | `FailureSignalHandler` | flushes the log files without any lock |
| **Raw logging** (`raw_logging.cc`) | a line buffer on the stack; `crashed`, `crash_reason` | `RawLog__`, `DoRawLog`, `VADoRawLog` | one `write` to stderr, `SetCrashReason`, `LogMessage::Fail` |
| **Initialization and shutdown** (`utilities.cc`, 2213-2220, 2880-2896) | `g_program_invocation_short_name`, `g_logging_fail_func`, `base_logging_fail_func`, `g_reason` | `InitGoogleLogging`, `ShutdownGoogleLogging`, `InstallFailureFunction`, `SetCrashReason`, `DumpStackTraceAndExit` | called by `Fail`; dumps the stack to stderr |
| **Stack traces** (`stacktrace_*-inl.h`) | none | `GetStackTrace`, one implementation per build | walks frame pointers, or asks a library |
| **TruncateLogFile**, **TruncateStdoutStderr** (2630-2724) | a file shared with writers | the calls themselves | copies the end of the file to its front while others write |
| **Symbolizer** (`symbolize.cc`) | none but two callbacks; a call keeps a line reader, a base address, the caller's buffer | `Symbolize` | reads `/proc/self/maps`, the process's memory and object files; called by the signal handler's dump |
| **Demangler** (`demangle.cc`) | `State`: cursors into the name and the output, append mode, nesting, levels | `Demangle` and one `Parse` function per rule of the grammar | called by `Symbolize`, also in a signal handler |
| Formatting, e-mail, flags, Windows port, STL logging | | | |

**What is hard.** User code runs inside the library's locks, and a FATAL message
leaves in the middle of them. A sink is sent to under one acquisition of
`sink_mutex_` and waited for under another one. The log files are a long-running
state machine whose counters are reset in some places and kept in others, which
must survive restarts, forks, full disks and changes of names, and which reads two
values nobody initializes. Failing is a protocol of its own: two macros record the
reason under two flags, and the function that dumps the stack calls whatever was
installed before it. The parser of the demangler keeps its state by hand over
alternatives that it gives up. `PROJECT.json` lists each such hazard with its line.

**What makes each part correct.** *LogMessage*: one thread logs at a time; every
message reaches its destinations once and in one order everywhere; counts are
exact; whoever waits for a sink lets others log; a FATAL message ends the process
and leaves its crash reason. *Sinks*: loops over `sinks_` stay in bounds; a send is
awaited. *Log files*: creating a file is retried in time; sizes, numbers of files
and unflushed bytes are bounded; open files are not removed; nothing is lost as long
as the file system works; processes share no files but those that were inherited. *VLOG*: a site is
controlled by the first pattern that matches. *Conditional macros*: LOG_FIRST_N logs
n times, LOG_EVERY_T not too often, LOG_EVERY_N regularly, although a statement is
several atomic steps. *Signal handler*: the first thread dumps, and the process ends.
*Symbolizer*: a call finds the symbol that contains the address, wherever reads and
buffers cut the data, stays within the caller's buffer, and ends. *Raw logging*: a line is
whole, or its message replaced by a remark; the first reason stays. *Initialization and
shutdown*: who fails ends the process, whatever was installed and in which order. *Stack
traces*: the frames shown are those of the caller, for each implementation and on a
damaged stack. *TruncateLogFile*: only what the comment gives up is lost. *Demangler*: a
text that is reported is whole, and what an alternative did is undone where a caller
goes on.

## 2. Modules

### LogMessage

One thread per element of `Threads`, one log statement at a time; `pc[t]` is the
point of `Flush` or of the destructor it has reached. A step ends where another
thread may interfere: at a lock or unlock, at a call of user code, between two log
files, and between load and store of `++num_messages_`. The actions follow
`LogMessage::Init` (`Construct`), `Flush` (`FlushEnter`, `LockLogMutex`,
`SendMethod`, `LogToLogfile`, `LogToSinksBegin`, `LogToSink`, `LogToSinksEnd`,
`FatalUnlock`, `CountLoad`, `CountStore`, `UnlockLogMutex`, `WaitForSinks`,
`FlushReturn`), the destructors (`Destroy`) and the failure function (`FailExit`,
`FailThrow`); `AddLogSink`, `RemoveLogSink` and `SetExitOnDFatal` may come from any
thread at any time.

- *Data.* A message is its serial number `id`. A log file is the sequence of the
  messages written to it (what happens in the file is LogFile's business), a sink the
  sequence it was given. The thread-local buffer and its fallback on the heap are one
  buffer per thread: a `LOG()` within an operand of a `LOG()` is not modelled.
- *Sinks* may throw (`SinksThrow`). A sink with a `Helper` behaves as
  `TestWaitingLogSink` of the unit test: `send` queues messages of its `Clients`,
  `WaitTillSent` waits until the helper thread, which logs itself, has taken them.
  `WaitTillSent` does not throw.
- *The second unlock.* For a FATAL message `SendToLog` unlocks `log_mutex`, and
  since `Fail()` is no longer called there (2158), `Flush` unlocks it again. What an
  unlock too many does is undefined; `DoubleUnlock` lists the outcomes: ignored (an
  error-checking mutex), released although another thread owns it, unusable ever
  after, or a call of `logging_fail` (the debug counter of `base/mutex.h`).
- *Locks.* `RWLock` says whether the build has reader-writer locks.

### LogStream

The abstract specification of the logging core: the log files, the sinks and
`num_messages_` show one stream of messages. A message is begun (`Begin`) when nobody has
seen it, is written to log files and sent to sinks (`Write`, `Send`), and is counted
(`Count`) before the next one begins, in all log files up to its severity or in none.
`LogMessage` implements it with the refinement mapping `current <- Current` (the message of
the thread that owns `log_mutex`) and `over <- Over`; the other variables are its own. The
promise ends (`GiveUp`) with the first FATAL message whose logging is complete, because
`SendToLog` then releases a mutex that `Flush` goes on to use, or with the second FATAL
message, whose buffer all later ones share. Up to there it covers callbacks, exceptions,
changes of the sinks and every kind of message.

### LogFile

Every operation of a `LogFileObject` runs under its `lock_` and is one step. `Write`
has five exits, each an action: `WriteSkipped` (no file, no attempt), `WriteNoFile`
(creation failed), `WriteStopped` (`stop_writing`), `WriteDiskFull` (ENOSPC) and
`WriteDone` (written; flush and cleaner if due). They share the stages `Rolled`,
`Reopened` and `Attempted`, operators on a pair of the object's fields and the disk
that return the set of possible results.

- *The file system*: `disk` maps names to length, modification time, lock holder and
  a count of openings. A name is the record of what the code concatenates: base name,
  extension, time stamp (a second, or a day or hour), pid, number. `stdio` is what
  an object's `FILE` buffers; it reaches the disk when flushed or closed, a full disk
  swallows it, a crash loses it. The C library may write earlier; the model is the
  worst case.
- *Uninitialized values*: `GarbageTimes` (`Filetime::time`, 1220, and the initial
  `tm_time_`) and `GarbageCounts` (`max_logfile_count`, 3013) are chosen freely.
- *Setups*: flags and bounds that a run varies are chosen in `Init` (`setup`), the others are
  constants. `MCLogFile` has `StampedSetup` (names with a time stamp, forks, opens that
  fail), `PlainSetup` (numbered files, any `max_logfile_count`), `RestartSetup` (restarts,
  changes of names, the cleaner, flushes), `ForkSetup` (two objects over forks) and
  `DaySetup`.
- *Processes*: `Restart` is a crash (an exit is a flush followed by it). `Fork`
  follows the child while the parent stays alive with its locks.
- *One clock*: `now` is the time of day, the cycle counter and the modification time.
- *Left out*: symbolic links, `posix_fadvise`, a log directory that cannot be read, the
  effect on the disk of an attempt in a directory that is given up for the next one.

`FatalFlush` (`Write(true, 0, "", 0)` in `SendToLog`, 2136) is enabled only in states that
a `Write` of a message leaves behind: stopped, skipped, buffered, or just flushed.

### VLog

Everything in `vlog_is_on.cc` but the first test of a site runs under `vmodule_lock`:
`InitVLOG3__` (with `VLOG2Initializer`) and `SetVLOGLevel` (`AddPattern`, `ChangeLevel`)
are one step each. `VLOG_IS_ON(t, site)` is the unlocked test that finds no level; between
it and `InitVLOG3__` other threads may initialize the same site or set levels.

- `infos` are the `VModuleInfo` objects, which are never deleted; `vmodule_list` and
  `level[site]` are pointers to them (indexes), `FLAGS_v` stands for `&FLAGS_v`.
- Patterns and module names are short sequences of characters. `SafeFNMatch_` is the
  code's algorithm, index by index; `Matches` says what a pattern means, and the
  properties use `Matches`. The two differ where a pattern ends in several stars
  (README.rst:527 says that `*` matches zero or more characters; by vlog_is_on.cc:79 `"ab**"`
  does not match `"ab"`) and where a name contains a star; `Plain` excludes both from what
  `PatternsControl` says of sites that FLAGS_v controls. The instance has such a pattern.
- `Unlinked` is the loop of `SetVLOGLevel` that takes the redirected sites out of
  `cached_site_list`, one after the other.
- *Left out*: the syntax of `--vmodule`, the module name's extraction from `__FILE__`,
  what `SetVLOGLevel` returns.

### Occasional

One statement `LOG_EVERY_N`, `LOG_IF_EVERY_N`, `LOG_FIRST_N` or `LOG_EVERY_T`
(`glog/logging.h.in` 1087-1157; `PLOG_EVERY_N`, `SYSLOG_EVERY_N` and the `VLOG` forms
expand to the same code), which `Threads` execute again and again. `site` is the macro with
its `n`, chosen at the beginning. Each read or write of a static atomic is a step, so that
`++LOG_OCCURRENCES_MOD_N > n`, `-= n` and `== 1` are three (`Increment`, `Subtract`,
`Test`), and `pc[t]` is the place in the expansion.

- Counters are unsigned and wrap around at `Modulus`, which stands for 2^32; `n` plus the
  number of threads is assumed to be below it (2^32 threads do not exist).
- What the properties speak of is kept in history variables: executions, messages, the
  executions in a row without a message and without another execution beside them (`gap`),
  the time of the last message of an execution that no other overlapped (`lastAlone`).
- *Left out*: the `LogMessage` itself, which is a step `LogMessage` here; memory orders
  (each counter is one variable, whose accesses are totally ordered in C++, too).

### SignalHandler

Threads receive failure signals while the handler is being installed and later.
`frames[t]` is the stack of calls of `FailureSignalHandler` in thread `t`; `Raise` (a fault
or `abort()` of the thread itself) and `Deliver` (a signal sent by another process, or by the
handler) push a frame or apply the default action. The handler's actions are `Enter`
(`sync_val_compare_and_swap`), `Compare` (`pthread_equal`), `DumpPart` (the parts of the
dump and the flush of the log files), `RestoreDefault` and `Kill` (the halves of
`InvokeDefaultSignalHandler`) and `Return`.

- *The kernel* is modelled as POSIX defines it for `sigaction` as called here (empty
  `sa_mask`, no `SA_NODEFER`): a signal is blocked in a thread while that thread handles
  it; a signal sent to the process goes to any thread that does not block it, or stays
  pending; a fault whose signal is blocked ends the process.
- *Faults in the handler* (`Faults`) happen in the dump and the flush.
- *Left out*: the text of the dump; `abort()` called within the handler; Windows; what
  `FlushLogFilesUnsafe` finds in a `Write` it interrupts.

### Symbolize

One call `Symbolize(pc, out, out_size)` on a system with ELF. `pc` is the step (the
variable's usual name); the address is `scene.pc0`, as in the code. `Start`, `OpenCallback`
or `OpenMaps`, `ReadLine`, `Pread`, `PreadFails`, `Refill` and `ExamineLine` find the object
file; `FileGetElfType`, `ReadHeader`, `GetSectionHeaderByType`, `ReadStrtab`, `FindSymbol`
and `ReadName` read its symbol tables, once for each table. A step ends at a system call.

- *A scene* is what the call may find: the mappings of the process, the object files, the
  callbacks, the size of the buffer, and whether system calls may fail. It is chosen in
  `Init`, from `Scenes`.
- *Bytes of `/proc/self/maps`* are their positions, so that the reader's buffer shows
  exactly which bytes it holds; a line is the record of what its text says. `pread` returns
  as many bytes as it likes. Malformed lines are those that do not fit into the buffer, and
  those without file name.
- *Strings*: a character is the string it comes from and its place in there. Section
  headers and symbols have two bytes each, so that a read may cut them.
- *ELF headers* in memory are a property of a mapping; object files agree with what is
  mapped. `bias` is the truth that `base_address` should be.
- *Assumed*: `out_size` is not 1 (the code reads `out[1]`), and
  `g_symbolize_callback` writes fewer bytes than the buffer has.
- *Left out*: the text of the lines and `GetHex`, EINTR, `GetSectionHeaderByName`, the
  `relocation` argument, the contents the callback writes.

### Demangle

Each `Parse` function of `demangle.cc` is an entry of `Grammar`, but for those that read
numbers, source names and prefixes, which are operators: an expression built from
what the function is made of (`&&`, `||`, `Optional`, the loops, tokens, copying the state
and restoring it, and the operations on the output). `Run` executes such an expression
on a `State`, which has the fields of the code's `State`. `Demangle(size)` is a call; the
program asks about one name with less and less room.

- *The buffer* `buf` is what has been written, by alternatives that were given up, too; it is
  shared by all copies of a `State`, and the cursors are offsets into it. `"$"` is NUL.
- *Texts* are strings, cut with the operators of sequences: the subject is a grammar.
- *Left out*: a null `out` pointer (`Symbolize` passes an array), the system function that
  does this on Windows.

### StackTrace, RawLog, Stderr

`StackTrace` has one operator for each implementation of `GetStackTrace`. Those that
follow frame pointers (x86, PowerPC) read a `Memory` of frames, one of which may be
`Damaged`: its link leads to itself, back, to an odd address or far away, which is what
`NextStackFrame` tests. `DamageAssumption` says that a damaged link fails one of these tests:
a link to a frame further up passes all of them, and nothing in the code can tell it
from an intact one. `StackTraceAssumption` has the sizes: frames of at least a word are
accepted, and (in `RawLogAssumption`) the 64 addresses that `backtrace` and
`CaptureStackBackTrace` are asked for suffice for the 32 of a crash reason and the 5
skipped, so that these builds show as many callers as the others. The others ask for the true list
of calls, as `_Unwind_Backtrace`, libunwind, `backtrace` and `CaptureStackBackTrace` return
it. With `_Unwind_Backtrace` there is no stack before the static initializer behind it has
run (`stacktrace_unwind-inl.h:88`); `ready_to_run` in the `setup` says whether it has.

`RawLog` is a FATAL or other `RAW_LOG`, and `LOG(FATAL)` as far as it records a crash
reason and fails. A step ends at a write to stderr, at an atomic operation and after
each assignment other threads may see: `RawLog` (the line), `Write` or `WriteFatal`, `Crash`
(the compare-and-swap of `crashed`), `FillRaw` or `RecordCrashReason`, `SetCrashReason`,
`RestoreText`, `Fail`, `DumpPC` (a line of the dump), `CallBase`; and the five steps of
`InitGoogleLogging`, with `ShutdownGoogleLogging` and `InstallFailureFunction`.

`Stderr` composes it with `TruncateStdoutStderr` on the file that is stderr, each system
call a step that may fail.

- *A character* is the kind of text it comes from, the number of its write and its place
  in it; lengths are those of the `setup`. `DoRawLog` and `VADoRawLog` are arithmetic on
  `*buf` and `*size`, as in the code. `written` remembers all that was written, `Hole` is a
  byte of a file nobody has written (a file without `O_APPEND`, cut and written to behind
  its end).
- *Crash reasons* are records that point to their message. `reason_text` is what is there:
  `crash_buf`, into which RAW_LOG copies it, or the exclusive buffer of the first FATAL
  `LogMessage`, in which `Flush` writes a line feed before it records the reason (1999), and
  takes it back after it is published (2022, `RestoreText`).
- *Stacks*: the calls below a statement have the numbers 1 to 10 (`in_RawLog__`, ...), so
  that a wrong `skip_count` shows.
- *One caller* (`Main`) initializes and shuts down the library, any thread installs
  failure functions; one thread truncates.
- *Left out*: the text of a line of the dump, the default action of SIGABRT that
  `DumpStackTraceAndExit` restores, the stages of `logging_fail`, a program that installs
  `DumpStackTraceAndExit` itself (it can get it from `GetInstalledFailureFunction`),
  recursion of `GetStackTrace` (`g_tl_entered`), a FATAL message that is flushed explicitly
  and then streamed to again, or that ends with a line feed of its own, which then stays.

The modules `MCLogMessage`, `MCLogFile`, `MCVLog`, `MCOccasional`, `MCSignalHandler`,
`MCSymbolize`, `MCDemangle` and `MCStderr` name the instances that the configurations use.

## 3. Model checking

Every `.cfg` is one run; `PROJECT.json` says what each shows. Names follow
`<module>_<run>.cfg`. Several questions share a run where one instance answers them
all; the properties of a run are independent of each other.

### LogMessage

| Run | Checks |
|---|---|
| `outputs` | `OutputsAgree`: `LogMessage` implements `LogStream` (the abstract specification is the property); `SinkIndexInBounds`, `SendsAwaited`: one sink registered, another one added, removed, added twice, both throwing, next to messages to a named sink, a string or a vector; `LoggedOnce`: no message reaches a log file twice, whoever flushes it (sinks may get one again: a sink registered twice, or named and registered); `CrashReasonKept`: the first crash reason stays. FATAL messages of both classes, every outcome of the second unlock, failure functions that return |
| `live` | `LogReturns`: every statement ends although the sink's helper logs; `FatalTerminates`: LOG(FATAL) ends the process; both unless the second unlock of a FATAL message has made `log_mutex` unusable. Every outcome of that unlock |

*The second unlock* is undefined in a build with pthread locks, so that both runs take every
outcome. With the outcome "unusable" whoever needs `log_mutex` next waits forever, and so
does a LOG(FATAL) that waits for a sink whose helper logs (section 5): `LogReturns` and
`FatalTerminates` except this state and no other. In the other outcomes they hold.
*Builds without reader-writer locks*, whose `ReaderLock` excludes other readers, have fewer
behaviours than `RWLock = TRUE`: what `outputs` shows for every behaviour holds for them.
`live` does not, section 5.
*Bounds.* Two threads (and a helper) and two messages next to those of the helper: each
race named in the hazards needs two actors, and each of them one message. Two severities
suffice where only "FATAL or not" matters, three where the loop over log files does.
`MaxSinks` 2 allows a sink registered twice.
*Symmetry* of threads is used in safety runs only.
*Deadlock* is not checked: a mutex made unusable, or a process that has ended, really stops
everybody; that nothing else does is what `LogReturns` says.
*Fairness.* `FairSpec` assumes weak fairness of each thread's steps: a thread that can
run is scheduled, and a mutex that stays free is taken. With a bounded number of
messages nobody can take a mutex forever from a waiting thread, so strong fairness
is not needed. Starting a statement is not fair.

### LogFile

| Run | Checks |
|---|---|
| `file` | `TypeOK`; `RetriedInTime`; `FilesKept`: pruning keeps as many files as it should; `FileSizeBounded`; `OpenFilesLinked`: open files are not removed; `UnflushedBounded`: what a buffer may hold back. Size policy and one object, in three setups: time stamps and forks, opens that may fail in either of two directories and both orders of garbage times; names without time stamp, numbered files and any `max_logfile_count`; processes that continue each other's files, change base name and extension at any time, prune, clean and flush |
| `file_fork` | `SharesOnlyInherited`: a process shares with another one only files it has inherited, an object with a file of its own never comes by such a file, and the object that `PidHasChanged` answers leaves it. Two objects, two forks, at any moment between their writes, rolls and failing opens |
| `file_day` | `LostOnlyInTrouble`, `WritingResumes`: two objects share `stop_writing`, two days with messages, two processes, a disk that fills and empties |

*Bounds.* An "MB" is two or three bytes, messages have one byte and headers none or
one, 32 attempts are three, 10^6 bytes are two or three: each limit is reached, and passed by one where the
code lets it. Two to four moments make several files in different seconds (or
days) and let a flush and the cleaner come due. Messages are shorter than an MB, as
`kMaxLogMessageLen` (30000) guarantees.
*Deadlock* is not checked: nothing in this module waits for anything, only the bound
on time and messages ends a behaviour. So that time suffices for the next flush,
messages stop `logbufsecs` before the last moment.
*Fairness.* `WritingResumes` assumes that time passes and that each object gets
messages again and again; only a message can clear `stop_writing` (1521).
`FlushLogFiles` is called at most until the clock's bound: a program that calls it more
often than every `logbufsecs` forever would postpone the resumption forever.

### VLog

| Run | Checks |
|---|---|
| `vlog` | `TypeOK` (the flag is parsed once, no pattern is listed twice); `CachedOnce`: `cached_site_list` is exactly the sites FLAGS_v controls, without repetition; `PatternsControl`: what controls a site fits its module, and FLAGS_v only where nothing fits |

*Bounds.* Three sites, two of them in one module, so that one pattern redirects several
sites and spares another; two threads, so that a site is initialized twice; a flag of one
pattern and two patterns that `SetVLOGLevel` adds, with `*` at either end, `?` and plain
ones, so that patterns match other patterns. Deadlock is checked; there is nothing to wait
for but `vmodule_lock`, hence no fairness.

### Occasional

| Run | Checks |
|---|---|
| `occasional` | `FirstNLogsN`: LOG_FIRST_N logs at most n messages and loses at most one per other thread; `TimedApart`: a message of LOG_EVERY_T that nobody overlapped is followed by a period without any; `KeepsLogging`: LOG_IF_EVERY_N never falls silent |
| `every_n` | a violation, see section 5 |

*Bounds.* Three threads: two that pass a test together and a third one behind them; n is 3,
so that a counter goes through a value that is neither first nor last, and 1, where
`1 % n` is 0. `Modulus` is 8 in `occasional`, enough for n and the threads, so that wrapping
around is possible; it is 64 in `every_n`, so that the silence after the wrap is longer than
2n executions. The clock makes four steps for a period of two. Threads are not symmetric in
the run with a liveness property; no symmetry is used. Deadlock is checked.
*Fairness.* `KeepsLogging` assumes that threads keep executing the statement (weak fairness
of each thread) and that its condition is true again and again (strong fairness of passing
the condition): the macro cannot log otherwise.

### SignalHandler

| Run | Checks |
|---|---|
| `signal` | `OneDump`: the output is one dump, not interleaved or repeated; `DumpedBeforeKilled`: nobody ends the process before the dump is complete, if the thread that dumps is not hit itself; `StuckOnlyByReentry`: all threads sleep only after a reentry; `CrashTerminates`: otherwise the process ends |

*Bounds.* Two threads, three signals and four of them raised or sent: a second thread in the
handler, a reentry by another signal, both at once, and a signal before the handler is
installed for it.
*Deadlock* is not checked: a process that has ended, and threads that all sleep in the
handler, stop; that they stop only there is what `StuckOnlyByReentry` and
`CrashTerminates` say.
*Fairness.* Weak fairness of the handler's steps (a thread that can run is scheduled) and of
the delivery of each signal some thread does not block. Nothing makes signals arrive.

### Symbolize

| Run | Checks |
|---|---|
| `symbolize` | `TypeOK` (the reader's indexes stay in its buffer); `LinesWhole`: lines come in order and whole; `Symbolized`: the result is the first symbol of the regular, then of the dynamic table that contains the address, where the object is *really* loaded, and fits, or file and offset, and without failures never anything else; `Ends` |

*Bounds.* The reader's buffer has five bytes and the lines have two, four, five or six: a
line that leaves room, fits, fills the buffer, is too long, in every combination of
four. Sections and symbols are read in twos, tables have up to five entries. The layouts
have an executable linked to its address or position-independent, libraries linked to
0 and to 4, mappings that are unreadable, without file, or of data. Output buffers of 0 to
9 bytes are smaller and larger than every name; an address has up to three digits
(`HexDigits`). Deadlock is checked; a call that has ended
stutters.
*Fairness.* Weak fairness of the calling thread. `Ends` excepts a file that is truncated
while it is read, see section 5.

### Demangle

| Run | Checks |
|---|---|
| `demangle` | `TypeOK`: writes stay in the caller's buffer; `NeverTruncated`: what is reported as demangled is the whole text, terminated, and it is refused only for lack of room; `WellFormedDemangled`: a well-formed name yields the text `demangle.h` promises; `ProgressOrRestore`: a `Parse` function advances, or fails and has changed nothing its callers rely on, but for the exceptions it names (section 5) |

*Bounds.* About 2700 names: well-formed ones, built together with the text promised for
them (scopes, templates, operators, constructors, destructors, local names, parameters
of all kinds of types, special names, clone suffixes), and every sequence of three of
twelve pieces of names, most of them malformed. Buffers of 100, 8, 6, 5, 3, 1 and 0 bytes
cut texts within names, within separators and before the NUL. `ProgressOrRestore`
runs each `Parse` function without further arguments (all but `ParseIdentifier`,
`ParseCharClass` and the tokens) on every name, from behind its `_Z`. Deadlock is not checked: the program asks for
each size once, and then it is done. There is no concurrency, hence no fairness.

### Stderr

| Run | Checks |
|---|---|
| `stderr` | `TypeOK`; `RawLineWhole`: a line that is written is prefix, message and line feed, or has the remark in the place of the message; `CallersShown`: the recorded stack begins with the code that failed and goes on as far as it can be followed; `CrashReasonFinal`: what `g_reason` points to is complete, and nothing changes any more but a line feed that LOG takes back; `FailureEnds`: who fails ends the process or leaves by an exception; `LostOnlyLate`: a truncation loses what the comment says, and nothing else |

*Bounds.* A line buffer of six bytes, with prefixes and messages of 0 to 7: shorter than
the buffer, as long, one longer, longer. Stacks of one or three callers and room for
three addresses, in each of the six implementations; five damaged links, in each of the
three frames; and RAW_LOG before static initialization. Two threads fail together, once each, and with up to three calls of
initialization, shutdown and `InstallFailureFunction` beside them. Files of up to six
characters in blocks of two, cut to the last two or three, so that a copy takes
several blocks, overlaps its source and meets writes between all its steps; twice without
`O_APPEND`, or with failures. These are setups of one run, each small.
*Deadlock* is not checked: an ended process, and the bounds, stop everything; that a
thread which has failed does not stop is what `FailureEnds` says.
*Fairness.* Weak fairness of each thread's steps: a thread that can run is scheduled.
Statements, calls of the library and truncations need not begin.

Each property of a passing run has a mutant, defined next to the original (a dropped
guard, an off-by-one, a missing reset, ...) that makes TLC refute it.

## 4. Proofs

`LogMessageProofs` proves, for any sets of threads, sinks and statements and any number
of messages, from the assumptions named in `LogMessage` (the special values differ from
the threads, the flags are Boolean, `Registered` is a sequence of sinks):

| Theorem | Statement |
|---|---|
| `TypeCorrect` | `Spec => []TypeOK` |
| `SinkLoopsInBounds` | the index loops over `sinks_` stay in bounds |
| `OneThreadLogs` | until a FATAL message has released it, `log_mutex` belongs to the one thread that logs |
| `WaitersLetOthersLog` | a thread that waits for a sink does not own `log_mutex` |
| `CountsAreExact` | no increment of `num_messages_` is lost before that |
| `CrashReasonPreserved` | a recorded crash reason is never replaced |

The inductive invariant `Inv` is the conjunction of `TypeOK`, `SinkIndexInBounds`,
`MutexInv`, `FatalBuffers`, `CountInv` and `CrashInv`. None of the properties is
inductive by itself:

- `SinkIndexInBounds` relates a thread's index to the length of `sinks_`, which changes
  only when nobody reads: it needs who is in `readers`.
- `MutexInv` connects program counters with the owner of `log_mutex`: it must know that
  a thread past `FatalUnlock` is not the owner, and that before the first `FatalUnlock`
  each unlock is by the owner.
- `CountInv` gives the loaded value of the thread between load and store.
- `CrashInv` needs `FatalBuffers`: the exclusive buffer has one user, ever, and only its
  message has `first_fatal_`.

The invariants of this module that no run lists (`TypeOK`, `LogMutexHeld`,
`NumMessagesExact`, `WaitersHoldNoLogMutex`) hold by these theorems.

`LogStreamProofs` proves the refinement under the same assumptions:

| Theorem | Statement |
|---|---|
| `LogIsOneStream` | `Spec => OutputsAgree`, which is `Stream!Spec`: every behaviour of `LogMessage` is one of `LogStream` |

Its invariant is `Inv` and `StreamInv`. `IdsDiffer` says that messages and threads have
numbers of their own, `OwnBuffers` that no two threads use one buffer before the shared one
is in use, `SeenStarted` that no output shows a message which has not been constructed.
`Stage(t)` is the heart: for each point of `Flush` it says which log files show the message
of thread `t` (none before the loop, those from the severity down to `todo[t]` in it, all or
none after it), as long as the promise is not over. `StepAppends` reduces the steps
of a thread to what they do to the outputs: nothing, or one message added to one of
them. `StepIds`, `StepSeen`, `StepOthers` and `StepOwn` preserve the four parts, and each
action of a thread maps to `Begin` (taking `log_mutex`), `Write`, `Send`, `Count`, or a
stutter; the steps that end the promise map to `GiveUp`. That a step of one thread
cannot disturb the `Stage` of another needs mutual exclusion (`MutexInv`) and `IdsDiffer`.

It also proves, under the same assumptions, what becomes of a single message:

| Theorem | Statement |
|---|---|
| `FilesShowOnce` | `Spec => []LoggedOnce`: no log file shows a message twice |
| `EverySendAwaited` | `Spec => []SendsAwaited`: no `send()` is left without its `WaitTillSent` |

`LoggedOnce` goes beyond the stream, which ends at the first `FatalUnlock`: it holds until
FATAL messages share a buffer. `Unwritten(t)` says why a second `Flush` is harmless: whoever
may still write is in no file, whoever is in the loop in none of those to come, and past
the loop only `has_been_flushed_` leads back. `Awaiting(t)` says whom a thread still has
to wait for: while it sends, the sinks in the vector and the one the message names; in
the loop of `WaitForSinks`, those before its index; then nobody. `RemoveLogSink` may take
sinks away between the two loops; that `std::remove` keeps all others is
`IncreasingOnto`, on enumerations of finite sets.

`LogFileProofs` proves, for any flags, sizes, objects and outcomes of the file system:

| Theorem | Statement |
|---|---|
| `RetriesInTime` | `Spec => []RetriedInTime`: `rollover_attempt_` never passes the value `!=` compares it with, and at most `kRolloverAttemptFrequency - 1` messages go by without an attempt |
| `BufferAccounted` | `Spec => []UnflushedBounded`: `bytes_since_flush_` never underestimates the buffer, and a crash costs fewer than `FlushBytes` bytes per object (or a header) |
| `TypeCorrect` | `Spec => []TypeOK` |
| `InheritsOnly` | `Spec => SharesOnlyInherited`: an object comes by no file that another process that is alive has open, and one that learns of a fork, or writes before any other has learned of it under the size policy, leaves such a file |
| `OpenFilesStay` | `Spec => []OpenFilesLinked`: pruning, the reuse of numbered names and the cleaner never remove an open file. *Given* `Separate` and `CleanerSpares` |
| `NoMessageIsDropped` | `Spec => []LostOnlyInTrouble`: a message to a log file is dropped only after the file system has refused something. *Given* `Separate` and `NamesNeverRecur` |
| `SizesStayBounded` | `Spec => []FileSizeBounded`: what the disk and the buffers hold of a file stays below the limit. *Given* the size policy, a longest message (`kMaxLogMessageLen`), `Separate` and `NoneContinued` |
| `OldFilesGo` | `Spec => []FilesKept`: pruning leaves at most `max_logfile_num` files per object on the disk. *Given* finitely many objects, the size policy, a header and a longest message that together take at most an MB, `Separate` and `Recognized` |

The first two go through one predicate on an object's fields, `Sound`, which every stage of
`Write` preserves: one lemma per stage (`RollIsSound`, `ReopenIsSound`, `AttemptIsSound`,
`CreateIsSound`, ...), one per exit or operation (`SkipKeepsInv`, `DoneKeepsInv`,
`FlushKeepsInv`, ...), one step per action. Neither theorem is inductive alone: that the
counter stays below the limit is what makes every `!=` comparison mean `<`, and the bytes
of a buffer are bounded only because a `Write` that does not flush has found the counter
below `FlushBytes` and a `Write` that skips puts nothing into the buffer.

The other six repeat this layout, each with its predicate on what a stage hands to the
next one. What a stage may result in is said once (`PruneCases`, `ReopenCases`, `CreateCases`,
`AttemptCases`, `ReadyCases`, `WriteCases`).

- `TypeCorrect` needs more than `TypeOK`: that the ids in `file_list_` are `Bounded`, because
  a new entry goes behind those with the same time (`TypeInv`). The numbered names need a *greatest* number in use, an induction over data.
- `InheritsOnly` has no hypotheses: it is about any number of objects and every policy.
  `PidHasChanged` answers *once per process*, to the first object that asks (or not at all
  under the day policy, which does not ask): the others go on writing to the parent's files
  (section 5), which the property allows, until they roll. What it forbids is coming by such a
  file again. Apart from types, `OwnInv` only says that the other processes alive are
  older ones. The argument is in the stages of `Write`: whatever one of them opens was not
  locked, or is new and has no holder (`OpenUnlocked`); pruning, reuse of numbered names
  and the cleaner only take files away (`UnlinkUnlocked`, `SuitableUnlocked`); and a roll leaves the
  object without file (`RollOwn`), so that `WriteOwn` ends with an own file or none.
- `OpenFilesStay` needs `LinkInv`: an object has open, and in its list, only files of its own
  base names, prunes only while it has none open, and has none open until it has looked
  for old files. `Separate` says that different objects use
  different base names (so that, in this model, a program that selects names while it runs has
  one object). `CleanerSpares` says when the cleaner, which looks at the time of the last
  write to a file, leaves open ones alone: the disk takes what is written, no
  message is empty, and a file that the flush of a FATAL message opens gets a header. An open
  file to which nothing has been written since a long time is *overdue*, and the cleaner runs
  only after a write of the same object, to the same file. All three setups of the runs
  satisfy the hypotheses.
- `NoMessageIsDropped` needs `NameInv`: until there is trouble, `stop_writing` is not set, an
  object without a file is about to make its first attempt (`Equipped`), and every file of
  the current process under one of the object's base names has a stamp not after `tm_time_`
  (`Stamped`). An object creates a file when the day has changed, that is, with a later
  stamp, or when it has created none; hence O_EXCL never refuses the name (`CreateFree`,
  `AttemptFree`), no attempt is missed, and the 31 messages without an attempt never come.
  A process that was restarted has a new pid in its names. `NamesNeverRecur` excludes what
  the code does not survive, a name used twice with one pid: two rolls by size in one second,
  names without a time stamp or changed back, the timestamp 0 of a FATAL flush, a local time
  that differs from UTC under `log_utc_time`, when the roll compares one and the name shows
  the other, and forks: under the day and hour policies nobody asks `PidHasChanged`, so that
  parent and child create the same name on the next day (the model, which follows only
  the child, would not show it). `file_day` satisfies the hypotheses.
- `SizesStayBounded` needs `SizeInv`. The code rolls by `file_length_`, which is not the
  length of the file: it is 0 when a file is continued, stays when a file is closed for a new
  name, and counts bytes a full disk has swallowed. `Fits` relates the two: the open file, with
  its buffer, has at least as much left of what it is `Allowed` as `file_length_` has left of
  `SizeLimit`, and a closed file is below what it is allowed. A roll, a rename or a crash thus
  leaves a file that is short enough, because `file_length_` is below `SizeLimit` whenever
  `Write` is not running (`RollSized`, `ReadySized`, `DoneSized`), and each time a file with a
  time stamp is continued it is allowed one `SizeLimit` more. A file without one is opened
  again only if it is short (`SuitableNameShort`), wherever numbers are free and whatever
  `max_logfile_count` was. Every file is one of some object, and by `Separate` of one only, so
  that one buffer at most adds to a file (`TotalOfNone`, `TotalOfOne`: the sum of a
  fold over no or one element). `NoneContinued` excludes what the code does not bound:
  a program without time stamps whose base name starts with `<program>.<SEVERITY>`
  continues its file at each start, without a look at its length. The runs satisfy
  the hypotheses in all three setups.
- `OldFilesGo` needs `KeepInv`, whose heart is `Listed`: every file of an object is in its
  `file_list_`, or of an earlier process if the object has not looked for old files yet.
  Then `Pruned` and `CheckHistoryFileNum`, which count *entries*, leave fewer than
  `max_logfile_num` *files* (`PruneComplete`, `HistoryComplete`), room for the one that
  `CreateLogfile` adds (`CreateListed`), and opening an old one adds none (`ReopenListed`).
  It rests on `SizeInv`: an entry has the name without number, so that a numbered file
  would never be unlinked, and a name that exists gets no number because its file has been
  opened once and is shorter than one limit (`UnnumberedName`); hence the hypothesis that a
  single message does not fill an MB (`kMaxLogMessageLen` is 30000). `Recognized` says where
  pruning works at all: with time stamps (without, a numbered file is one that is
  not listed), and, unless the program is never restarted, under base names that start with
  `<program>.<SEVERITY>`. The default names do not, so that files of earlier processes
  are never found, nor pruned (section 5). That the files of all objects are at most
  `max_logfile_num` times the objects is a surjection from a product (`KeptFollows`). The
  setups of `file` that limit the number of files satisfy the hypotheses.

`OccasionalProofs` proves, for any number of threads, any n and any width of the counters
(with n plus the number of threads below `Modulus`):

| Theorem | Statement |
|---|---|
| `TypeCorrect` | `Spec => []TypeOK`, with the counter of LOG_IF_EVERY_N below n |
| `FirstNIsLogged` | LOG_FIRST_N logs at most n messages (`FirstNBounded`) and loses at most as many of the first n as there are other threads (`FirstNComplete`) |
| `TimedMessagesApart` | after a lone message of LOG_EVERY_T the next is more than a period later |

The argument for LOG_FIRST_N counts threads: `CountedInv` bounds the counter together with
the threads that are about to increment it, so that it cannot wrap around; `BelowInv` says
that up to n the counter *is* the number of messages made or due; `AboveInv` that from
the moment it passes n the messages made or due are between n - (threads - 1) and n. The step
from one to the other is where up to threads - 1 messages are lost. `AloneInv` and
`SinceInv` carry LOG_EVERY_T: while nobody overlaps an execution, the time it stored is the
one it logs at, and no thread can load an older one afterwards.

`SignalHandlerProofs` proves, for any threads, signals and numbers of signals:

| Theorem | Statement |
|---|---|
| `TypeCorrect` | `Spec => []TypeOK` |
| `DumpsOnce` | `Spec => []OneDump` |
| `SleepsOnlyAfterReentry` | `Spec => []StuckOnlyByReentry` |
| `DumpsBeforeTheEnd` | `Spec => []DumpedBeforeKilled` |

`DumpInv` says that at most one call, in one frame of one thread, is in the dump, that the
output is what this call has written so far, and that nothing is written before the pointer is
set; `SleepInv` that whoever sleeps without having reentered has come second. Three
lemmas on stacks (`PushFacts`, `SetTopFacts`, `PopFacts`) reduce each step to its effect on
one frame, `DumpUnaffected` treats all steps but `Enter` and `DumpPart` at once.
`DumpedBeforeKilled` needs `KillInv`: until the dump is complete, or the thread that dumps is
hit itself, no frame of any thread has come to the steps that restore the default action,
raise the signal again and return, the handler is still the action of every signal it was
installed for, and the thread the pointer names is in the dump.

`SymbolizeProofs` proves, for any process, object files, sizes of the buffers and results
of the system calls, from `SymbolizeAssumption` (sizes are positive, names have a length)
and `ScenesAssumption` (the lines of `/proc/self/maps` follow each other, `out_size` is not
1, the callback stays in the buffer), the last theorem from `LayoutAssumption` as well:

| Theorem | Statement |
|---|---|
| `TypeCorrect` | `Spec => []TypeOK`: every index into the reader's buffer is inside |
| `ReadsWholeLines` | `Spec => []LinesWhole`: `ReadLine` returns the lines one after the other, each as a whole |
| `OutputStaysInBuffer` | `Spec => []OutputFits`: the string and its NUL are within `out_size` bytes |
| `FindsTheSymbol` | `Spec => []Symbolized`: unless something fails, the call finds the first symbol that contains the address, or the file and the offset, and nothing else; and never aborts |

The inductive invariant is `IInv`, the conjunction of two that hardly meet. `ReaderOK` says
what the reader's buffer holds: while the search goes on, what follows the last line in the
buffer is what follows it in the file, and `offset` is where this ends (`AfterLine`); during
a read, the buffer begins with the next line (`DuringRead`). `LinesWhole` alone is not
inductive, because it says nothing about the bytes after the line, which are the next one.
`FirstLineFeed` is the lemma that carries it: in a buffer that begins with line
`lines + 1`, the first line feed is this line's, because lines follow each other.
`CallOK` has the types of the rest and `OutInv`: the string ends before the buffer, and
`written` is 0 wherever an offset may still be appended with the whole `out_size`, since
`ReturnMissing` does this only without a callback. One lemma per way of ending a step
(`ReturnKeeps`, `SearchKeeps`, `OpenedKeeps`, `NotInTableKeeps`, ...), one per action.

`Symbolized` compares the end of the call with the object files, so that its invariant
`SymInv` says for every step what the search has excluded so far. `SearchInv`: none of the
lines examined contains the address, each fitted into the buffer, and `base_address` is
where the last ELF header among them is loaded. `FileFound`: the open file is the one of the
line with the address, and `base_address` is its `bias`. `TableSearched`: the section
headers up to `i` are not of this table, or the symbols up to `i` do not contain the
address; the dynamic table is searched only if the regular one has no answer that fits; the
name about to be read is that of the first symbol. A read that fails or is cut short
sets `trouble` or `truncated` and ends all of this (`Clean`, `CleanRead`), and so does an
odd number of bytes, the only way to the `SAFE_ASSERT`s (`EntriesRead`). The lines use the
reader's invariant: `ExaminesNext` (the line parsed is the next one) and `NothingMore` (if
the buffer is full, or the file at its end, without a line feed, no later line
counts). `AppendIsPrefix` carries the text for a file that does not open: pieces appended to a
buffer that may be full are a prefix of the whole text.

`LayoutAssumption` states what the code takes for granted of the operating system:
`/proc/self/maps` is in the order of the addresses, and the last ELF header of an executable
or a library that is mapped before the code with the address, or with it, belongs to the
object of this code; `bias` is then where this header is minus the virtual address of its
segment (`symbolize.cc:590-606`). Where another library is mapped between the header of an
object and its code, `base_address` is wrong. TLC checks the assumption on every scene
of `symbolize`, where object files mapped as data and gaps come in between.

`StderrProofs` proves, for any threads, statements, setups and sizes of the buffer, from
`RawLogAssumption` (sizes, and names of failure functions that differ), `StderrAssumption`,
`StackTraceAssumption` and `DamageAssumption`:

| Theorem | Statement |
|---|---|
| `CrashReasonIsFinal` | `Spec => CrashReasonFinal`: what `g_reason` points to is complete and final, and the message there loses no more than the line feed that LOG takes back |
| `RawLineIsWhole` | `Spec => []RawLineWhole`: the line of RAW_LOG is in its buffer, and whole or replaced |
| `OnlyLateDataIsLost` | `Spec => []LostOnlyLate`: a truncation loses what lies before the last keep bytes and what is written after the last pread, nothing else, and keeps the order of the rest |
| `CallersAreShown` | `Spec => []CallersShown`: the stack of a crash reason is exactly the calls from the code that failed to the outermost one, the last one there is room for, or the damaged frame, with each implementation of `GetStackTrace` (and empty before static initialization with `unwind`) |
| `TypeCorrect` | `Spec => []TypeOK`, also about `write_offset` and `read_offset`, the dumps and the crash reasons |
| `DumpHasSuccessor` | whoever has dumped its stack has a function to call that is neither nullptr nor `DumpStackTraceAndExit` |

`CrashReasonFinal` needs `ReasonInv`: for each macro, `crashed` or `fatal_msg_exclusive` lets
one thread through to record the reason (`Recording`), no pointer is published before it has
finished, and afterwards it writes only what `StepText` says: the thread that recorded the
reason of LOG takes the line feed back, once, and `LineFeedAtEnd` says that it is still there
as long as this is to come. `DumpHasSuccessor` needs `FailureInv`,
which follows `InitGoogleLogging` through its three assignments, between which a program
may install a function of its own. `RawLineWhole` is an induction on the steps only by
`BufferInv`, which says that the buffer is the `Line` of the statement; the rest is about
this function, that is, about the pointer, the size and the text after each `DoRawLog`
(`DoRawLogFails`, `DoRawLogSucceeds`), for a line that fits (`LineFits`) and for one whose
message does not (`LineReplaced`).

`OnlyLateDataIsLost` compares two sequences from which characters are taken out:
the file without its holes, the output without what is given up. `CharsDiffer` makes the
places of a character unique: no two characters are equal that are written, in a buffer
or a frame about to be written (`Text` numbers each write). `FileInv` says that while a
truncation copies, the file `Holds` what is to stay: a set of places of the file,
`Live`, shows the output without what is given up, each character once and in order.
Before the copying, `Live` is the whole file; while it goes on, the places before
`write_offset` and from `read_offset` on; after the last pread, those before `write_offset`; and
`PlaceInv` relates the two offsets to the size of the file. One lemma per group of steps: a
thread that writes (`FileGrows`, `BesideKeeps`), the system calls that look (`LookingKeeps`), the
log message (`LoggingKeeps`), the copied block (`CopyingKeeps`), the cut (`CuttingKeeps`).
`HoldsTheSame` concludes, by an induction over both sequences, that what is left is equal.

`CallersAreShown` is about functions: `StackInv` says that the stack of a crash reason that is
filled in is `StackOf` the calls that lead there, and `StackShows` that this `Shows` the calls from
the one behind the library's own to the last that can be reached, or that there is room for,
one lemma per family of implementations. For the loops, `LoopCollects` gives the
state after each iteration in closed form (it skips, it collects, it stays where it
stops); `FramesShow` adds the memory, in which `FramesLinked` decides for each frame whether
`NextStackFrame` goes on: it does at every intact frame but the outermost, and refuses the
damaged one. `LibrariesShow` and `ArraysShow` treat the builds that ask a library. `ReasonShows`
then takes the library's own frames away, by the two counts of skipped calls.

`TypeCorrect` needs two facts about a truncation that are not types: when the copying
begins, the file had more than `keep` bytes, or `read_offset` would be negative; and
`write_offset` is never behind the end of the file, or the cut would make bytes of which
nobody knows the value. The second depends on the threads, which do not make the file
shorter (`ThreadGrows`).

`VLogProofs` proves, for any threads, sites, names, levels and lists of patterns, from
`VLogAssumption`:

| Theorem | Statement |
|---|---|
| `TypeCorrect` | `Spec => []TypeOK`: the flag is parsed once, no pattern is listed twice |
| `CachesEachSiteOnce` | `Spec => []CachedOnce`: `cached_site_list` holds the sites that FLAGS_v controls, each once |
| `SafeFNMatch_IsCorrect` | what `SafeFNMatch_` accepts matches, and it accepts every `Plain` string that matches |
| `PatternsControlSites` | `Spec => []PatternsControl` |

`SafeFNMatch_` is proved against `Matches` by two inductions over the pattern: `MatcherSound`
builds the cuts that divide the string among the pattern's characters, `MatcherComplete`
takes them apart; the case that fails for `**` is the one `Plain` excludes. `PatternsControl` is
not inductive: `SetVLOGLevel` redirects only sites that are in `cached_site_list`, hence
`CachedOnce`, which in turn needs `Settled`: a site that FLAGS_v controls has been named, so
that it does not enter the list again, and no pattern in the list accepts it.

*Induction over data.* The induction theorems of the library take an operator as a
parameter, which the provers cannot instantiate. `LeastElement` (every non-empty set of
naturals has a least element, from `WFMin`) takes a set, and serves instead: the set of the
numbers that violate a claim has no least element. It is stated in each module that
uses it.

*Only model-checked*:

- the liveness properties (`LogReturns`, `FatalTerminates`, `WritingResumes`, `KeepsLogging`,
  `CrashTerminates`, `Ends`, `FailureEnds`), which the prover cannot treat;
- `Demangle`, whose parser is a set of recursive operators, which the prover does not accept.

## 5. Disagreements between code and documentation

One is a run that violates a property quoting the sentence; `PROJECT.json` has file and
line.

| Run | What happens |
|---|---|
| `every_n` | Two threads subtract n from the counter of LOG_EVERY_N where one should; it wraps around, and then the statement is silent for about 2^32 / (n - 1) executions, also when one thread executes it alone |

Others met while modelling, which the modules show when the sentence is stated as a
property:

- A thread that reenters the signal handler "kills ourself" (`signalhandler.cc:303`) with a
  signal it blocks and goes to sleep; if nobody else takes the signal, the process hangs.
  `StuckOnlyByReentry` and `CrashTerminates` except this.
- A FATAL message through class `LogMessage` (DFATAL, PLOG, LOG_TO_SINK, ...) does not end
  the program (`README.rst:241`, "terminates the program").
- Pruning goes by an uninitialized time (1220) and may remove the newest file instead of
  the "oldest ones".
- After a fork only the first log file that is written to changes to a file of its own
  (1325): `PidHasChanged` answers once per process, the others stay shared with the parent
  until they roll. `SharesOnlyInherited` allows this.
  The time-based policies do not ask it at all: then parent and child create a file of the
  same name when the day or hour changes, and the second attempt fails.
- With `stop_logging_if_full_disk` off, an object whose disk is full keeps a file open that
  grows old, and the cleaner may remove it. So it may, with a base name that was selected,
  a file that another process (or another object with this base name) has open and has not
  written to for `overdue_days` (1741); what is written to it later is lost.
- LOG_FIRST_N may log fewer than n messages (`AboveInv` says how many).
- LOG_EVERY_T may store a time older than the one another thread has stored, so that
  overlapping executions log more often than once in a period.
- The second unlock of `log_mutex` by a FATAL message (2016, after 2146) is one of a lock that
  nobody holds, or another thread: undefined for a pthread mutex or rwlock. If it makes the
  lock unusable, everybody who logs hangs from then on; if a sink's helper is among them,
  `WaitForSinks` (2017) does not return, and LOG(FATAL) does not "terminate the program"
  (`README.rst:241`). `LogReturns` and `FatalTerminates` except this.
- Two FATAL messages may lose an increment of `num_messages_` (460, "Under log_mutex"):
  `SendToLog` has released the mutex (2146). `NumMessagesExact` therefore ends there.
- A sink removed between `LogToSinks` and `WaitForSinks` gets `send` without
  `WaitTillSent` (`glog/logging.h.in:1665`). `SendsAwaited` excepts it.
- The second of two FATAL messages may end the process before the first has recorded its
  reason (2120).
- Without reader-writer locks (`base/mutex.h:236`) the waiting sink of the unit test
  deadlocks; this is the mutant of `LogReturns`.
- The time-based policies ignore `max_log_size` (248), `LogSize()` (515) of a reopened
  file is not its length, so that each restart adds up to `max_log_size` to a file that is
  continued, and files with default names are not found after a restart, so
  that `max_logfile_num` (252) is not kept.
- The flush of a FATAL message under the day policy changes to a file of 1970 (2136); if
  the program survives, the file of the day cannot be opened again.
- `max_logfile_count` (3013) is uninitialized unless the flag is 0 or out of range.
- A buffered message waits for the next one however long that takes (201, `logbufsecs`),
  and a flush does not look for overdue logs if some severity did recently (`README.rst:731`).
- A thread that initializes a VLOG site late may bind it to another pattern than an
  earlier one did (`vlog_is_on.cc:262`, "forever"), and sites that FLAGS_v controls are
  redirected by new patterns (`glog/vlog_is_on.h.in:95`, "will continue to control them").
- An object file that is truncated while its sections or symbols are read makes
  `Symbolize` loop forever, and a failing read of its symbols trips a `SAFE_ASSERT`
  (`symbolize.cc:193` and 275, "Otherwise, return false").
- An object file without the symbol is "still considered success" (`symbolize.cc:817`) only
  if an open callback has written its name: otherwise `out[1]` is always NUL.
- RAW_LOG does not "silently chop off really long message strings" (`raw_logging.h.in:59`): a
  message that does not fit is replaced by the remark "The Message was too long!"
  (`raw_logging.cc:157`), which is what `RawLineWhole` says.
- `DoRawLog` takes it for success if a text has just as many characters as there is room
  for, or one more (`raw_logging.cc:92`): the line then lacks its line feed, and its
  last character in the second case. A prefix longer than the buffer is dropped.
- `TruncateLogFile` cuts the file at `write_offset` also after a failing `pread` or `pwrite`,
  so that an error loses the rest of the file. A file without `O_APPEND` is
  written to behind its new end, with a hole before.
- The message of a crash reason is not preserved as it was published: LOG(FATAL) publishes a
  pointer into its buffer (2166, 2123), with the line feed `Flush` has put there, and then
  takes the line feed out of it (2022), maybe while a signal handler reads it.
  `CrashReasonFinal` allows this and nothing else.
- With `_Unwind_Backtrace`, a RAW_LOG(FATAL) in a static initializer may have an empty stack
  (`stacktrace_unwind-inl.h:88`).
- The stack in the crash reason of LOG(FATAL) begins with `~LogMessageFatal` (2170): the
  count of skipped frames is from before this fork had `__FlushAndFailAtEnd`.
- `InitGoogleLogging` replaces a failure function that was installed before it by its own
  (the first thing it does is to install the default).
- `GetStackTrace` with `unwind` stops where the count *is* `max_depth`, so that a
  `max_depth` of 0 without skipped frames would not stop (`stacktrace_unwind-inl.h`); every
  caller skips one.
- A `Parse` function that fails does not always leave the state alone (`demangle.cc:425`,
  "Otherwise, don't change the state and returns false"): `ParseMangledName` has consumed
  `_Z`, `ParseAbiTag` the `B` and `ParseNumber` the `n` of a negative number. Their callers
  restore the state, or give up. `ParsePrefix` succeeds without having consumed anything.
  `ProgressOrRestore` excepts these by name.
- Nor are the demangler's levels restored where `ParseTemplateArg` (`demangle.cc:1106`),
  `ParseLocalName` or `ParseExpression` fail, nor in the functions that call `ParseLocalName`
  without saving the state (`ParseName` and its callers), and the alternative "st
  <type>" returns before `--expr_level`. The limit of five, which is there against deep
  recursion, therefore stops valid names: a function with seven parameters like `A<int>` is
  not demangled.
- `_ZNE` is demangled to nothing: `true` is returned and `out` never written
  (`demangle.h:78`). A nested name needs two bytes more than its text and NUL, for a
  separator that is then cancelled: `N::f` with seven.

## 6. Not modelled

*Components.* CHECK macros have no state: a CHECK that fails is a LOG(FATAL). Message
text, prefixes and time formatting, output of containers and flags are formatting or
plain variables; e-mail is compiled out; the Windows port and the
replacements of system headers are the system's side. Tests and build files are not part
of the library.

*Cases.* Seven hazards in `PROJECT.json` have no property:

- `WaitTillSent` that throws (2017): the exception is swallowed by `__FlushAndFailAtEnd`, for
  `LogMessageFatal` the base destructor flushes a second time (a message is logged twice,
  and the process does not end). In the model `WaitTillSent` does not throw.
- A `LOG()` nested in a send method (2307, without `syslog.h`) deadlocks on `log_mutex`; nested
  messages are not modelled.
- `DeleteLogDestinations` (1020) and the signal handler's flush (`signalhandler.cc:356`) work on
  the destinations and the files without any lock. What another thread finds then is
  undefined; the code documents both as for single-threaded moments.
- `next_cleanup_time_` (1589) is shared: that no overdue file is left behind does not hold,
  and what holds instead is only that the cleaner comes some time.
- A file continued after a restart with `file_length_` 0 (1357), and an open file of another
  process or object that the cleaner removes (1741): both do happen, see section 5. `FileSizeBounded`
  and `OpenFilesLinked` say what holds beside them.

The notes of other hazards say which part of the harm does happen, so that the property
stated there leaves it out.

Further: a null `out` of `Demangle` (nested names write before it), symbolic links to log
files, `posix_fadvise`, `GetSectionHeaderByName`.

## 7. Plan

Done: `LogMessage` with its abstract specification `LogStream` and the refinement, `LogFile`,
`VLog`, `Occasional`, `SignalHandler`, `Symbolize`, `Demangle`, `StackTrace`, `RawLog`, `Stderr`,
with the proofs of section 4. To come, the most important first:

1. `Logging`: LogMessage and LogFile composed, with `FlushLogFiles`, nested messages,
   `WaitTillSent` that throws, and shutdown.
2. The signal handler's unlocked flush against a `Write` in progress, on top of it.
