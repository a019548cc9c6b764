------------------------------ MODULE MCStderr ------------------------------
(***************************************************************************)
(* Instances of Stderr for TLC.                                            *)
(***************************************************************************)
EXTENDS Stderr

CONSTANTS t1, t2, custom

RAW_LOG(s, p, m) == [macro |-> "RAW_LOG", severity |-> s, prefix |-> p, message |-> m]
LOG_FATAL == [macro |-> "LOG", severity |-> GLOG_FATAL, prefix |-> 0, message |-> 1]

\* RAW_LOG(INFO) of every length, in a program that does nothing else.
LinesSetup ==
  [implementation |-> "unwind",
   ready_to_run |-> TRUE,
   callers |-> <<21>>,
   damaged |-> 0,
   link |-> 0,
   initialized |-> TRUE,
   stderrthreshold |-> 0,
   Statements |-> {RAW_LOG(0, p, m) : p \in {0, 1, 4, 5, 6, 7}, m \in -1 .. 7},
   MaxStatements |-> 2,
   MaxCalls |-> 0,
   MaxTruncations |-> 0,
   append |-> TRUE,
   limit |-> 3,
   keep |-> 3,
   logtostderr |-> FALSE,
   failures |-> FALSE]

\* Two threads fail, with a short or a long stack, each implementation, and a
\* frame that is linked to itself, back, to an odd address or far away; or before
\* static initialization has come to the library.
FatalSetup == [LinesSetup EXCEPT !.Statements = {RAW_LOG(GLOG_FATAL, 1, 1), LOG_FATAL}]

FatalSetups ==
  {[FatalSetup EXCEPT !.implementation = i, !.callers = c] :
     i \in Implementations, c \in {<<21>>, <<21, 22, 23>>}}
  \cup {[FatalSetup EXCEPT !.implementation = i, !.callers = <<21, 22, 23>>,
                           !.damaged = d, !.link = a] :
     i \in {"x86", "powerpc"}, d \in {1, 2, 3}, a \in {0, 1, 8, 9, 100}}
  \cup {[FatalSetup EXCEPT !.ready_to_run = FALSE, !.initialized = FALSE]}

\* The library is initialized and shut down around failures.
InitSetups ==
  {[FatalSetup EXCEPT !.Statements = {RAW_LOG(GLOG_FATAL, 1, 1), RAW_LOG(0, 1, 1)},
                      !.initialized = i, !.stderrthreshold = 1, !.MaxCalls = 3] :
     i \in BOOLEAN}

\* The file is truncated while lines of two lengths are written to it ...
TruncationSetup ==
  [LinesSetup EXCEPT !.Statements = {RAW_LOG(0, 0, 0), RAW_LOG(0, 0, 2)},
                     !.MaxStatements = 3, !.MaxTruncations = 1]

\* ... at its end or at an offset, twice, with a limit below
\* what is kept, or with system calls that fail.
TruncationSetups ==
  {[TruncationSetup EXCEPT !.keep = k, !.logtostderr = TRUE] : k \in {2, 3}}
  \cup {[TruncationSetup EXCEPT !.append = a, !.MaxTruncations = 2] : a \in BOOLEAN}
  \cup {[TruncationSetup EXCEPT !.failures = TRUE], [TruncationSetup EXCEPT !.limit = 1]}

AllSetups == {LinesSetup} \cup FatalSetups \cup InitSetups \cup TruncationSetups
============================================================================
