------------------------------ MODULE LogFile ------------------------------
(***************************************************************************)
(* The log files of one program: LogFileObject (one per severity), the     *)
(* pruning of old files, the LogCleaner and the global stop_writing flag   *)
(* (src/logging.cc), over the file system, the clock and the life of the   *)
(* process (forks, crashes, restarts).                                     *)
(*                                                                         *)
(* Every operation runs under lock_ and is one step.  The stages of Write  *)
(* (roll, reopen, create) are operators on a pair [r, d] of an object's    *)
(* fields and the disk; where the outside world decides, an operator is    *)
(* the set of the pairs it may result in.                                  *)
(***************************************************************************)
EXTENDS Integers, Sequences, FiniteSets, FiniteSetsExt, Functions

CONSTANTS
  Objects,                    \* the LogFileObjects
  NoFile,                     \* file_ is nullptr
  NoBase,                     \* the empty file name
  DefaultBases,               \* per object, default base names, one per directory
  BaseNames,                  \* arguments of SetLogDestination
  Extensions,                 \* arguments of SetLogFilenameExtension
  NoExtension,
  History,                    \* per object, the base names that start with
                              \* symlink_basename_.SEVERITY in the log directory
  log_rolling_policy,         \* "size", "day" or "hour"
  PeriodLength,               \* the length of a day (or an hour)
  UtcOffset,                  \* local time is UTC + UtcOffset
  log_utc_time,
  MB,                         \* 2^20 bytes
  MaxLogSize,                 \* MaxLogSize(), in MB
  HeaderLength,               \* length of the file header, 0 without header
  Lengths,                    \* lengths of messages
  FlushBytes,                 \* 1000000
  kRolloverAttemptFrequency,  \* 32
  logbufsecs,
  logcleansecs,
  INT_MAX,                    \* more files than the bounds allow
  stop_logging_if_full_disk,
  DiskMayFill,
  StartTime,
  Setups                      \* what a run varies, see Setup

\* The day (or hour) of a moment.
Period(time) == time \div PeriodLength
LocalPeriod(time) == Period(time + UtcOffset)

Bases == BaseNames \cup {NoBase} \cup UNION {Range(DefaultBases[o]) : o \in Objects}

\* Flags, what the program does, uninitialized values and bounds: a run may check
\* several of them.
Setup == [timestamp_in_logfile_name : BOOLEAN,
          max_logfile_num : Nat,
          rolling_file_number : Int,
          StartBase : [Objects -> Bases],  \* the base names selected at startup, or NoBase
          Renames : BOOLEAN,           \* are names and extensions changed later?
          OverdueTimes : SUBSET Nat,   \* arguments of EnableLogCleaner
          FatalFlushes : BOOLEAN,      \* does SendToLog flush for FATAL messages?
          GarbageCounts : SUBSET Int,  \* values of the uninitialized max_logfile_count
          GarbageTimes : SUBSET Int,   \* values of an uninitialized Filetime::time
          OpenMayFail : BOOLEAN,       \* may open() fail for a reason of its own?
          Forks : BOOLEAN,             \* may the program fork?
          MaxTime : Nat,               \* bound: the last moment
          MaxPid : Nat,                \* bound: processes
          MaxWrites : Nat]             \* bound: messages per process

\* <base><time>.<pid><extension>, followed by -<seq - 1> if seq > 0.
Name == [base : Bases, ext : Extensions, stamp : Nat, pid : Nat, seq : Nat]

Filetime == [name : Name, time : Int, id : Nat]

\* A file: holder is the process that has it open and locked, opens says how
\* often it has been opened for writing.
File == [length : Nat, mtime : Nat, holder : Nat, opens : Nat]

\* LogFileObject; stdio is the number of bytes in the buffer of file_.
Object == [file_ : Name \cup {NoFile}, stdio : Nat, base_filename_selected_ : BOOLEAN,
           base_filename_ : Bases, filename_extension_ : Extensions,
           bytes_since_flush_ : Nat, file_length_ : Nat,
           rollover_attempt_ : Nat,
           next_flush_time_ : Nat, file_list_ : SUBSET Filetime,
           initialized_ : BOOLEAN, tm_time_ : Int]

Cleaner == [enabled_ : BOOLEAN, overdue_days_ : Nat, next_cleanup_time_ : Nat]

ASSUME NamesAssumption ==
  /\ DefaultBases \in [Objects -> Seq(Bases) \ {<<>>}]
  /\ History \in [Objects -> SUBSET Bases]
  /\ NoExtension \in Extensions
  /\ NoFile \notin Name

ASSUME FlagsAssumption ==
  /\ log_rolling_policy \in {"size", "day", "hour"}
  /\ {log_utc_time, stop_logging_if_full_disk} \subseteq BOOLEAN
  /\ {PeriodLength, MB, MaxLogSize, FlushBytes, kRolloverAttemptFrequency} \subseteq Nat \ {0}
  /\ {UtcOffset, HeaderLength, logbufsecs, logcleansecs} \subseteq Nat
  /\ Lengths \subseteq Nat
  /\ INT_MAX \in Nat

ASSUME BoundsAssumption ==
  /\ DiskMayFill \in BOOLEAN
  /\ StartTime \in Nat
  /\ \A s \in Setups : s \in Setup

VARIABLES
  setup,              \* the element of Setups that holds, constant
  obj,                \* the LogFileObjects
  disk,               \* the files that exist, by name
  stop_writing,
  g_main_thread_pid,
  log_cleaner,
  now,                \* the clock
  pid,                \* getpid()
  alive,              \* the other processes that still run
  full,               \* is the disk full?
  writes,             \* messages this process has written
  \* What the properties remember of the past:
  skipped,            \* per object, messages dropped since it last tried to
                      \* create a file
  lost,               \* has a message been dropped?
  trouble             \* has the file system refused anything?

timestamp_in_logfile_name == setup.timestamp_in_logfile_name
max_logfile_num == setup.max_logfile_num
rolling_file_number == setup.rolling_file_number
StartBase == setup.StartBase
Renames == setup.Renames
OverdueTimes == setup.OverdueTimes
FatalFlushes == setup.FatalFlushes
GarbageCounts == setup.GarbageCounts
GarbageTimes == setup.GarbageTimes
OpenMayFail == setup.OpenMayFail
Forks == setup.Forks
MaxTime == setup.MaxTime
MaxPid == setup.MaxPid
MaxWrites == setup.MaxWrites

process == <<pid, alive, g_main_thread_pid>>
ghosts  == <<skipped, lost, trouble>>

vars == <<setup, obj, disk, stop_writing, log_cleaner, now, full, writes, process, ghosts>>

\* LogFileObject::LogFileObject.  tm_time_ is not initialized.
NewObject(base, garbage) ==
  [file_ |-> NoFile, stdio |-> 0, base_filename_selected_ |-> base # NoBase,
   base_filename_ |-> base, filename_extension_ |-> NoExtension,
   bytes_since_flush_ |-> 0, file_length_ |-> 0,
   rollover_attempt_ |-> kRolloverAttemptFrequency - 1,
   next_flush_time_ |-> 0, file_list_ |-> {}, initialized_ |-> FALSE,
   tm_time_ |-> garbage]

NewCleaner == [enabled_ |-> FALSE, overdue_days_ |-> 7, next_cleanup_time_ |-> 0]

Init ==
  /\ setup \in Setups
  /\ \E g \in [Objects -> GarbageTimes] :
       obj = [o \in Objects |-> NewObject(StartBase[o], g[o])]
  /\ disk = <<>>
  /\ stop_writing = FALSE
  /\ log_cleaner = NewCleaner
  /\ now = StartTime
  /\ pid = 1
  /\ alive = {}
  /\ g_main_thread_pid = 1
  /\ full = FALSE
  /\ writes = 0
  /\ skipped = [o \in Objects |-> 0]
  /\ lost = FALSE
  /\ trouble = FALSE

----------------------------------------------------------------------------
(* The disk and the stdio buffers *)

Unlink(d, names) == Restrict(d, DOMAIN d \ names)

\* What the buffer of r holds reaches its file, if that is still there.  A full
\* disk swallows it.
Drain(r, d) ==
  IF r.file_ \in DOMAIN d /\ r.stdio > 0 /\ ~full
    THEN [d EXCEPT ![r.file_].length = @ + r.stdio, ![r.file_].mtime = now]
    ELSE d

\* fclose; the fields that describe file_ are left to the caller.
Closed(r) == [r EXCEPT !.file_ = NoFile, !.stdio = 0]

\* Mutant: FlushUnlocked takes FlushBytes off the counter instead of clearing it.
Flushed_Subtract(r) ==
  [r EXCEPT !.stdio = 0, !.bytes_since_flush_ = @ - FlushBytes,
            !.next_flush_time_ = now + logbufsecs]

\* FlushUnlocked
Flushed(r) ==
  [r EXCEPT !.stdio = 0,
            !.bytes_since_flush_ = IF r.file_ = NoFile THEN @ ELSE 0,
            !.next_flush_time_ = now + logbufsecs]

\* A process that is alive holds a write lock on the file.
Locked(d, n) == n \in DOMAIN d /\ d[n].holder \in alive

\* open() and fcntl() of CreateLogfileInternal have succeeded for n.
OnOpen(d, n) ==
  [m \in DOMAIN d \cup {n} |->
    IF m # n THEN d[m]
    ELSE IF n \in DOMAIN d THEN [d[n] EXCEPT !.holder = pid, !.opens = @ + 1]
    ELSE [length |-> 0, mtime |-> now, holder |-> pid, opens |-> 1]]

----------------------------------------------------------------------------
(* Old files *)

\* The order of the multiset file_list_: by time, equal times as inserted.
Before(x, y) == x.time < y.time \/ (x.time = y.time /\ x.id < y.id)

\* Mutant: one file too many is kept.
Kept_OffByOne(list) ==
  IF max_logfile_num = 0 \/ Cardinality(list) <= max_logfile_num
    THEN {list}
    ELSE {k \in SUBSET list : Cardinality(k) = max_logfile_num}

\* What may be left of a file_list_ once entries have been erased from its front
\* until fewer than max_logfile_num remain.
Kept(list) ==
  IF max_logfile_num = 0 \/ Cardinality(list) < max_logfile_num
    THEN {list}
    ELSE {k \in SUBSET list :
           /\ Cardinality(k) = max_logfile_num - 1
           /\ \A x \in list \ k, y \in k : ~Before(y, x)}

\* Erase from file_list_ and unlink.
Pruned(s) ==
  {[r |-> [s.r EXCEPT !.file_list_ = k],
    d |-> Unlink(s.d, {x.name : x \in s.r.file_list_ \ k})] : k \in Kept(s.r.file_list_)}

\* The files in the log directory, in any order (id 0).
CheckHistoryFileNum(o, s) ==
  LET found == {n \in DOMAIN s.d : n.base \in History[o]}
  IN  Pruned([s EXCEPT !.r.file_list_ =
                {[name |-> n, time |-> s.d[n].mtime, id |-> 0] : n \in found}])

\* Mutant: a file is overdue from the very moment on.
Overdue_NotStrict(r, d, n) ==
  /\ n.base = r.base_filename_
  /\ now - d[n].mtime >= log_cleaner.overdue_days_

\* Is the file overdue for the LogCleaner, called by the object with fields r?
\* IsLogFromCurrentProject accepts names that end with the base name, or with
\* the stamp and pid of the size policy.
Overdue(r, d, n) ==
  /\ n.base = r.base_filename_ /\ n.ext = r.filename_extension_ /\ n.seq = 0
  /\ log_rolling_policy = "size" \/ ~timestamp_in_logfile_name
  /\ now - d[n].mtime > log_cleaner.overdue_days_

CleanerDue == log_cleaner.enabled_ /\ now >= log_cleaner.next_cleanup_time_

\* LogCleaner::Run, where the cleaner is enabled
Cleaned(r, d) ==
  IF CleanerDue THEN Unlink(d, {n \in DOMAIN d : Overdue(r, d, n)}) ELSE d

----------------------------------------------------------------------------
(* The stages of Write *)

\* Mutants: rolling one MB late, and rolling without PidHasChanged.
CheckNeedRollLogFiles_OffByOne(r, timestamp) ==
  IF log_rolling_policy = "size"
    THEN r.file_length_ \div MB > MaxLogSize \/ pid # g_main_thread_pid
    ELSE LocalPeriod(timestamp) # r.tm_time_

CheckNeedRollLogFiles_NoPid(r, timestamp) ==
  IF log_rolling_policy = "size"
    THEN r.file_length_ \div MB >= MaxLogSize
    ELSE LocalPeriod(timestamp) # r.tm_time_

CheckNeedRollLogFiles(r, timestamp) ==
  IF log_rolling_policy = "size"
    THEN r.file_length_ \div MB >= MaxLogSize \/ pid # g_main_thread_pid
    ELSE LocalPeriod(timestamp) # r.tm_time_

\* g_main_thread_pid after CheckNeedRollLogFiles, which calls PidHasChanged only
\* if the file is not too long.
MainThreadPid(o) ==
  IF log_rolling_policy = "size" /\ obj[o].file_length_ \div MB < MaxLogSize
    THEN pid ELSE g_main_thread_pid

\* Mutant: rollover_attempt_ is reset to a value the next ++ moves past the limit.
Rolled_PastLimit(r, timestamp) ==
  IF CheckNeedRollLogFiles(r, timestamp)
    THEN [r |-> [Closed(r) EXCEPT !.file_length_ = 0, !.bytes_since_flush_ = 0,
                                  !.rollover_attempt_ = kRolloverAttemptFrequency],
          d |-> Drain(r, disk)]
    ELSE [r |-> r, d |-> disk]

Rolled(r, timestamp) ==
  IF CheckNeedRollLogFiles(r, timestamp)
    THEN [r |-> [Closed(r) EXCEPT !.file_length_ = 0, !.bytes_since_flush_ = 0,
                                  !.rollover_attempt_ = kRolloverAttemptFrequency - 1],
          d |-> Drain(r, disk)]
    ELSE [r |-> r, d |-> disk]

\* The size policy continues with the newest file of an earlier run.
Reopened(o, s) ==
  IF s.r.file_ # NoFile \/ s.r.initialized_ \/ log_rolling_policy # "size"
    THEN {s}
    ELSE UNION {
      LET newest == {x \in h.r.file_list_ : \A y \in h.r.file_list_ : ~Before(x, y)}
          opened == {[r |-> [h.r EXCEPT !.file_ = x.name, !.initialized_ = TRUE],
                      d |-> OnOpen(h.d, x.name)] : x \in {y \in newest : ~Locked(h.d, y.name)}}
      IN  opened \cup
          (IF newest = {} \/ OpenMayFail \/ \E x \in newest : Locked(h.d, x.name)
             THEN {h} ELSE {})
      : h \in CheckHistoryFileNum(o, s)}

\* The message is dropped: there is no file, and it is not yet time to try again.
Skips(s) ==
  s.r.file_ = NoFile /\ s.r.rollover_attempt_ + 1 # kRolloverAttemptFrequency

\* max_logfile_count is set only for values of the flag out of range, and 0.  A
\* flag out of range becomes 10, so that the next call does not set it either.
LogfileCounts ==
  IF rolling_file_number < 0 \/ rolling_file_number > 100 THEN {10} \cup GarbageCounts
  ELSE IF rolling_file_number = 0 THEN {INT_MAX}
  ELSE GarbageCounts

\* Name n, or a numbered variant of it if n has outgrown MaxLogSize; the oldest
\* file makes room if all of them have.
GetSuitableFileName(n, d) ==
  LET Big(m) == d[m].length \div MB >= MaxLogSize
      Numbered(i) == [n EXCEPT !.seq = i + 1]
      Names(count) == {n} \cup {Numbered(i) : i \in 0 .. count - 1}
      Oldest(count) == CHOOSE m \in Names(count) : \A k \in Names(count) :
                         d[m].mtime < d[k].mtime
                         \/ (d[m].mtime = d[k].mtime /\ m.seq <= k.seq)
      Free(count) == {i \in 0 .. count - 1 : Numbered(i) \notin DOMAIN d \/ ~Big(Numbered(i))}
  IN  IF n \notin DOMAIN d \/ d[n].length \div MB <= MaxLogSize
        THEN {[name |-> n, d |-> d]}
        ELSE {IF Free(count) # {}
                THEN [name |-> Numbered(CHOOSE i \in Free(count) : \A j \in Free(count) : i <= j),
                      d |-> d]
                ELSE [name |-> Oldest(count), d |-> Unlink(d, {Oldest(count)})]
              : count \in LogfileCounts}

\* Mutant: the pid is not part of the name.
FileName_NoPid(o, r, base, timestamp) ==
  [base |-> base, ext |-> r.filename_extension_, seq |-> 0, pid |-> 0,
   stamp |-> IF log_rolling_policy = "size" THEN timestamp ELSE r.tm_time_]

\* The name CreateLogfile asks for.
FileName(o, r, base, timestamp) ==
  [base |-> base, ext |-> r.filename_extension_, seq |-> 0,
   stamp |-> IF ~timestamp_in_logfile_name THEN 0
             ELSE IF log_rolling_policy = "size" THEN timestamp
             ELSE r.tm_time_,
   pid |-> IF timestamp_in_logfile_name THEN MainThreadPid(o) ELSE 0]

\* CreateLogfile and the header.  The new entry of file_list_ has the name
\* without number and an uninitialized time.
CreateLogfile(o, s, base, timestamp) ==
  LET r == [s.r EXCEPT !.base_filename_ = base]
      n == FileName(o, r, base, timestamp)
      id == 1 + Max({0} \cup {x.id : x \in r.file_list_})
      Exists(f) == timestamp_in_logfile_name /\ f.name \in DOMAIN f.d
      Created(f, g) ==
        [result |-> "created", d |-> OnOpen(f.d, f.name),
         r |-> [r EXCEPT !.file_ = f.name, !.stdio = HeaderLength,
                         !.file_length_ = @ + HeaderLength,
                         !.bytes_since_flush_ = @ + HeaderLength,
                         !.file_list_ = @ \cup {[name |-> n, time |-> g, id |-> id]}]]
  IN  UNION {
        {Created(f, g) : g \in IF Exists(f) \/ Locked(f.d, f.name) THEN {} ELSE GarbageTimes}
        \cup {[result |-> x, d |-> f.d, r |-> r] :
                x \in (IF Exists(f) THEN {"exists"} ELSE {})
                      \cup (IF OpenMayFail \/ Locked(f.d, f.name) THEN {"failed"} ELSE {})}
        : f \in GetSuitableFileName(n, s.d)}

\* A new file in the first directory that accepts one, after old files have gone.
Attempted(o, s, timestamp) ==
  LET tried == [s EXCEPT !.r.rollover_attempt_ = 0]
      dirs  == IF s.r.base_filename_selected_ THEN <<s.r.base_filename_>> ELSE DefaultBases[o]
      tm    == IF log_utc_time THEN Period(timestamp) ELSE LocalPeriod(timestamp)
      Outcomes(h, i) == CreateLogfile(o, [h EXCEPT !.r.initialized_ = TRUE, !.r.tm_time_ = tm],
                                      dirs[i], timestamp)
      Fails(h, i) == \E c \in Outcomes(h, i) : c.result # "created"
  IN  UNION {UNION {
        {c \in Outcomes(h, i) :
           /\ \A j \in 1 .. i - 1 : Fails(h, j)
           /\ c.result = "created" \/ i = Len(dirs)}
        : i \in DOMAIN dirs}
        : h \in (IF s.r.initialized_ THEN Pruned(tried) ELSE CheckHistoryFileNum(o, tried))}

\* Write has found or made a file, or has failed to.
Ready(o, timestamp) ==
  UNION {IF s.r.file_ # NoFile
           THEN {[result |-> "created", r |-> s.r, d |-> s.d]}
           ELSE Attempted(o, s, timestamp)
         : s \in {x \in Reopened(o, Rolled(obj[o], timestamp)) : ~Skips(x)}}

----------------------------------------------------------------------------
(* Write: one action for each of its exits *)

\* Bounds: the messages of a process, and time enough for the next flush.
Busy == writes < MaxWrites /\ now + logbufsecs <= MaxTime

Writes(o) ==
  /\ ~(obj[o].base_filename_selected_ /\ obj[o].base_filename_ = NoBase)
  /\ Busy \/ stop_writing
  /\ writes' = IF stop_writing THEN writes ELSE writes + 1
  /\ g_main_thread_pid' = MainThreadPid(o)
  /\ UNCHANGED <<setup, now, full, pid, alive>>

Put(o, r, d) == obj' = [obj EXCEPT ![o] = r] /\ disk' = d

\* No file, and no attempt to make one.
WriteSkipped(o, len, timestamp) ==
  /\ Writes(o)
  /\ \E s \in Reopened(o, Rolled(obj[o], timestamp)) :
       /\ Skips(s)
       /\ Put(o, [s.r EXCEPT !.rollover_attempt_ = @ + 1], s.d)
  /\ skipped' = [skipped EXCEPT ![o] = @ + 1]
  /\ lost' = (lost \/ len > 0)
  /\ UNCHANGED <<stop_writing, log_cleaner, trouble>>

\* The file could not be created.
WriteNoFile(o, len, timestamp) ==
  /\ Writes(o)
  /\ \E c \in Ready(o, timestamp) :
       /\ c.result # "created"
       /\ Put(o, c.r, c.d)
       /\ trouble' = (trouble \/ c.result = "failed")
  /\ skipped' = [skipped EXCEPT ![o] = 0]
  /\ lost' = (lost \/ len > 0)
  /\ UNCHANGED <<stop_writing, log_cleaner>>

\* Mutant: nothing clears stop_writing.
WriteStopped_Forever(o, len, timestamp) ==
  /\ Writes(o)
  /\ stop_writing
  /\ \E c \in Ready(o, timestamp) : c.result = "created" /\ Put(o, c.r, c.d)
  /\ skipped' = [skipped EXCEPT ![o] = 0]
  /\ lost' = (lost \/ len > 0)
  /\ UNCHANGED <<stop_writing, log_cleaner, trouble>>

\* Writing is suspended; the message is dropped, and the next one is written if
\* a flush is due.
WriteStopped(o, len, timestamp) ==
  /\ Writes(o)
  /\ stop_writing
  /\ \E c \in Ready(o, timestamp) :
       /\ c.result = "created"
       /\ Put(o, c.r, c.d)
       /\ stop_writing' = (now < c.r.next_flush_time_)
  /\ skipped' = [skipped EXCEPT ![o] = 0]
  /\ lost' = (lost \/ len > 0)
  /\ UNCHANGED <<log_cleaner, trouble>>

\* fwrite reports ENOSPC.
WriteDiskFull(o, len, timestamp) ==
  /\ Writes(o)
  /\ ~stop_writing /\ stop_logging_if_full_disk /\ full /\ len > 0
  /\ \E c \in Ready(o, timestamp) :
       c.result = "created" /\ Put(o, [c.r EXCEPT !.stdio = 0], c.d)
  /\ stop_writing' = TRUE
  /\ skipped' = [skipped EXCEPT ![o] = 0]
  /\ lost' = TRUE
  /\ trouble' = TRUE
  /\ UNCHANGED log_cleaner

\* What fwrite leaves in the buffer: on a full disk the bytes may be gone.
Buffered(r, len) ==
  {r.stdio + len} \cup (IF full /\ ~stop_logging_if_full_disk THEN {0} ELSE {})

\* Mutant: one more byte than allowed is buffered.
FlushDue_OffByOne(r, force_flush) ==
  force_flush \/ r.bytes_since_flush_ > FlushBytes \/ now >= r.next_flush_time_

FlushDue(r, force_flush) ==
  force_flush \/ r.bytes_since_flush_ >= FlushBytes \/ now >= r.next_flush_time_

\* The message goes to the file; flush and clean up if it is time.
WriteDone(o, len, force_flush, timestamp) ==
  /\ Writes(o)
  /\ ~stop_writing
  /\ \E c \in Ready(o, timestamp) : \E b \in Buffered(c.r, len) :
       LET w == [c.r EXCEPT !.stdio = b, !.file_length_ = @ + len,
                            !.bytes_since_flush_ = @ + len]
           due == FlushDue(w, force_flush)
       IN  /\ c.result = "created"
           /\ Put(o, IF due THEN Flushed(w) ELSE w,
                     IF due THEN Cleaned(w, Drain(w, c.d)) ELSE c.d)
           /\ log_cleaner' = IF due /\ CleanerDue
                               THEN [log_cleaner EXCEPT !.next_cleanup_time_ = now + logcleansecs]
                               ELSE log_cleaner
  /\ skipped' = [skipped EXCEPT ![o] = 0]
  /\ UNCHANGED <<stop_writing, lost, trouble>>

Write(o, len, force_flush, timestamp) ==
  \/ WriteSkipped(o, len, timestamp)
  \/ WriteNoFile(o, len, timestamp)
  \/ WriteStopped(o, len, timestamp)
  \/ WriteDiskFull(o, len, timestamp)
  \/ WriteDone(o, len, force_flush, timestamp)

\* MaybeLogToLogfile; should_flush depends on the severity of the file.
Log(o) == \E len \in Lengths, should_flush \in BOOLEAN : Write(o, len, should_flush, now)

\* SendToLog has just written a FATAL message to the file and flushes it.
FatalFlush(o) ==
  /\ FatalFlushes
  /\ \/ stop_writing
     \/ obj[o].file_ = NoFile /\ skipped[o] = obj[o].rollover_attempt_
     \/ obj[o].stdio > 0
     \/ /\ obj[o].file_ # NoFile
        /\ obj[o].next_flush_time_ = now + logbufsecs
        /\ obj[o].file_ \in DOMAIN disk => disk[obj[o].file_].mtime = now
  /\ Write(o, 0, TRUE, 0)

----------------------------------------------------------------------------
(* The other operations, and the outside world *)

Flush(o) ==
  /\ now + logbufsecs <= MaxTime
  /\ Put(o, Flushed(obj[o]), Drain(obj[o], disk))
  /\ UNCHANGED <<setup, stop_writing, log_cleaner, now, full, writes, process, ghosts>>

\* The file is closed because its name changes.  file_length_ is kept.
Renamed(r) ==
  IF r.file_ = NoFile THEN r
  ELSE [Closed(r) EXCEPT !.rollover_attempt_ = kRolloverAttemptFrequency - 1]

SetBasename(o, basename) ==
  LET r == [obj[o] EXCEPT !.base_filename_selected_ = TRUE]
  IN  /\ IF r.base_filename_ = basename
           THEN Put(o, r, disk)
           ELSE Put(o, [Renamed(r) EXCEPT !.base_filename_ = basename], Drain(r, disk))
      /\ UNCHANGED <<setup, stop_writing, log_cleaner, now, full, writes, process, ghosts>>

SetExtension(o, ext) ==
  /\ obj[o].filename_extension_ # ext
  /\ Put(o, [Renamed(obj[o]) EXCEPT !.filename_extension_ = ext], Drain(obj[o], disk))
  /\ UNCHANGED <<setup, stop_writing, log_cleaner, now, full, writes, process, ghosts>>

EnableLogCleaner(overdue) ==
  /\ log_cleaner' = [log_cleaner EXCEPT !.enabled_ = TRUE, !.overdue_days_ = overdue]
  /\ UNCHANGED <<setup, obj, disk, stop_writing, now, full, writes, process, ghosts>>

DisableLogCleaner ==
  /\ OverdueTimes # {}
  /\ log_cleaner' = [log_cleaner EXCEPT !.enabled_ = FALSE]
  /\ UNCHANGED <<setup, obj, disk, stop_writing, now, full, writes, process, ghosts>>

Tick ==
  /\ now < MaxTime
  /\ now' = now + 1
  /\ UNCHANGED <<setup, obj, disk, stop_writing, log_cleaner, full, writes, process, ghosts>>

\* Other programs fill the disk, and free it again.
DiskFills ==
  /\ DiskMayFill
  /\ full' = ~full
  /\ UNCHANGED <<setup, obj, disk, stop_writing, log_cleaner, now, writes, process, ghosts>>

\* The program forks; from here on the model follows the child.
Fork ==
  /\ Forks /\ pid < MaxPid
  /\ pid' = pid + 1
  /\ alive' = alive \cup {pid}
  /\ UNCHANGED <<setup, obj, disk, stop_writing, g_main_thread_pid, log_cleaner, now, full, writes, ghosts>>

\* The process dies and another one starts.  What stdio held is lost; a regular
\* exit is a Flush of every object followed by this step.
Restart ==
  /\ ~Forks /\ pid < MaxPid
  /\ pid' = pid + 1
  /\ g_main_thread_pid' = pid + 1
  /\ \E g \in [Objects -> GarbageTimes] :
       obj' = [o \in Objects |-> NewObject(StartBase[o], g[o])]
  /\ stop_writing' = FALSE
  /\ log_cleaner' = NewCleaner
  /\ writes' = 0
  /\ skipped' = [o \in Objects |-> 0]
  /\ UNCHANGED <<setup, disk, now, full, alive, lost, trouble>>

Next ==
  \/ \E o \in Objects :
       \/ Log(o) \/ FatalFlush(o) \/ Flush(o)
       \/ Renames /\ \E b \in BaseNames : SetBasename(o, b)
       \/ Renames /\ \E e \in Extensions : SetExtension(o, e)
  \/ \E overdue \in OverdueTimes : EnableLogCleaner(overdue)
  \/ DisableLogCleaner \/ Tick \/ DiskFills \/ Fork \/ Restart

Spec == Init /\ [][Next]_vars

\* Messages keep coming, and time passes.
FairSpec == Spec /\ WF_vars(Tick) /\ \A o \in Objects : WF_vars(Log(o))

----------------------------------------------------------------------------
(* Properties *)

\* Type correctness of the objects, the disk, the cleaner and the clock.
TypeOK ==
  /\ setup \in Setup
  /\ obj \in [Objects -> Object]
  /\ DOMAIN disk \subseteq Name
  /\ \A n \in DOMAIN disk : disk[n] \in File
  /\ log_cleaner \in Cleaner
  /\ {stop_writing, full, lost, trouble} \subseteq BOOLEAN
  /\ {now, pid, g_main_thread_pid, writes} \subseteq Nat
  /\ alive \subseteq Nat
  /\ skipped \in [Objects -> Nat]

\* Write tries to create the missing file at least every
\* kRolloverAttemptFrequency messages, whatever rolls, renames and failures reset
\* rollover_attempt_ to in between: the counter, compared with != only, never
\* passes the value that triggers the attempt.
RetriedInTime ==
  \A o \in Objects :
    /\ obj[o].rollover_attempt_ < kRolloverAttemptFrequency
    /\ skipped[o] <= obj[o].rollover_attempt_

\* A crash costs an object fewer than FlushBytes bytes ("flush logs at least
\* every 10^6 chars"): bytes_since_flush_ never underestimates what stdio holds,
\* over rolls, renames, full disks and reopened files.
UnflushedBounded ==
  \A o \in Objects :
    /\ obj[o].stdio <= obj[o].bytes_since_flush_
    /\ obj[o].stdio < FlushBytes \/ obj[o].stdio = HeaderLength

\* The bytes in file n and in the buffers on top of it.
TotalLength(n) ==
  disk[n].length + MapThenSumSet(LAMBDA o : obj[o].stdio, {o \in Objects : obj[o].file_ = n})

SizeLimit == MaxLogSize * MB + HeaderLength + Max(Lengths \cup {0})

\* Rolling bounds what is appended each time a file has been opened: a file with a
\* time stamp in its name stays below max_log_size and one message, unless it is
\* the last one of a process that crashed, and is continued; one without is opened
\* again and again, but left for a numbered one before it is twice as long.
FileSizeBounded ==
  \A n \in DOMAIN disk :
    TotalLength(n) < IF timestamp_in_logfile_name
                       THEN disk[n].opens * SizeLimit
                       ELSE (MaxLogSize + 1) * MB + SizeLimit

\* Pruning leaves at most max_logfile_num files of each object on the disk.
FilesKept ==
  max_logfile_num > 0 => Cardinality(DOMAIN disk) <= max_logfile_num * Cardinality(Objects)

\* Neither pruning nor the cleaner takes away a file a LogFileObject of this
\* process has open: messages written to it would be lost.
OpenFilesLinked ==
  \A o \in Objects : obj[o].file_ # NoFile => obj[o].file_ \in DOMAIN disk

\* The object has no file, or one that no other process that is alive has open
\* and locked.
OwnFile(o) == ~Locked(disk, obj[o].file_)

\* PidHasChanged has told o of the fork; o has written while nobody was told.
Told(o) == obj'[o] # obj[o] /\ g_main_thread_pid' # g_main_thread_pid
WritesUntold(o) ==
  /\ log_rolling_policy = "size" /\ g_main_thread_pid # pid
  /\ obj'[o].file_length_ # obj[o].file_length_

\* A process shares only files it has inherited, and only with objects that ask
\* PidHasChanged too late: an object with a file of its own never comes by a file
\* of another process that is alive, not by pruning, rolling, names that recur or
\* files it continues; and the first object that writes after a fork, which takes
\* away the only answer, leaves what it has inherited.
SharesOnlyInherited ==
  [][\A o \in Objects :
       /\ pid' = pid /\ OwnFile(o) => OwnFile(o)'
       /\ Told(o) \/ WritesUntold(o) => OwnFile(o)']_vars

\* No message is dropped as long as the file system accepts everything: the
\* names of the files do not collide.
LostOnlyInTrouble == lost => trouble

\* After a full disk logging resumes, if messages keep coming.
WritingResumes == stop_writing ~> ~stop_writing
=============================================================================
