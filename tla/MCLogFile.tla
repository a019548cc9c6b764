----------------------------- MODULE MCLogFile -----------------------------
(***************************************************************************)
(* Instances of LogFile for TLC.                                           *)
(***************************************************************************)
EXTENDS LogFile

CONSTANTS info, error, app, other

\* Objects with the default base names in two directories, and with the base name a
\* program selects at startup.
OneDirectory == [o \in Objects |-> <<o>>]
TwoDirectories == [o \in Objects |-> <<o, other>>]
Unselected == [o \in Objects |-> NoBase]
Selected == [o \in Objects |-> app]

\* The default names do not start with <program>.<severity>; those of an
\* application may.
AppHistory == [o \in Objects |-> {app}]

\* Files with a time stamp in their name, in a program that forks.
StampedSetup ==
  [timestamp_in_logfile_name |-> TRUE,
   max_logfile_num |-> 2,
   rolling_file_number |-> 10,
   StartBase |-> Unselected,
   Renames |-> FALSE,
   OverdueTimes |-> {},
   FatalFlushes |-> FALSE,
   GarbageCounts |-> {1},
   GarbageTimes |-> {0, 9},
   OpenMayFail |-> TRUE,
   Forks |-> TRUE,
   MaxTime |-> 4,
   MaxPid |-> 3,
   MaxWrites |-> 6]

\* Files without, which are numbered; max_logfile_count is not initialized.
PlainSetup ==
  [StampedSetup EXCEPT !.timestamp_in_logfile_name = FALSE,
                       !.max_logfile_num = 0,
                       !.rolling_file_number = 2,
                       !.GarbageCounts = {0, 1, 2},
                       !.GarbageTimes = {0},
                       !.OpenMayFail = FALSE,
                       !.Forks = FALSE,
                       !.MaxTime = 3,
                       !.MaxPid = 1,
                       !.MaxWrites = 16]

\* A program that is restarted, changes the names of its files, and uses the cleaner.
RestartSetup ==
  [StampedSetup EXCEPT !.StartBase = Selected,
                       !.Renames = TRUE,
                       !.OverdueTimes = {0, 1},
                       !.FatalFlushes = TRUE,
                       !.GarbageTimes = {0},
                       !.OpenMayFail = FALSE,
                       !.Forks = FALSE,
                       !.MaxTime = 3,
                       !.MaxPid = 2,
                       !.MaxWrites = 4]

\* Files that roll with the day.
DaySetup ==
  [StampedSetup EXCEPT !.GarbageTimes = {0},
                       !.OpenMayFail = FALSE,
                       !.Forks = FALSE,
                       !.MaxTime = 3,
                       !.MaxPid = 2,
                       !.MaxWrites = 2]

\* Two log files, and two forks.
ForkSetup ==
  [StampedSetup EXCEPT !.GarbageTimes = {0},
                       !.MaxTime = 4,
                       !.MaxWrites = 5]

SizeSetups == {StampedSetup, PlainSetup, RestartSetup}
ForkSetups == {ForkSetup}
DaySetups == {DaySetup}

=============================================================================
