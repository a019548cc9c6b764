----------------------------- MODULE Occasional -----------------------------
(***************************************************************************)
(* One statement LOG_EVERY_N, LOG_IF_EVERY_N, LOG_FIRST_N or LOG_EVERY_T   *)
(* (glog/logging.h.in) that several threads execute.  Its static counters  *)
(* are atomic, the expansion of the macro is not: each access to a static  *)
(* is a step.  The LogMessage a thread makes at the end is a step "log"    *)
(* here and the subject of LogMessage.tla.  PLOG_EVERY_N, SYSLOG_EVERY_N   *)
(* and the DLOG forms expand to the same code, VLOG_EVERY_N and            *)
(* VLOG_IF_EVERY_N to LOG_IF_EVERY_N.                                      *)
(***************************************************************************)
EXTENDS Integers, FiniteSets

CONSTANTS
  Threads,   \* the threads that execute the statement
  Sites,     \* the statements considered: records [macro, n]
  Modulus,   \* 2^(bits of unsigned int)
  Period,    \* LOG_TIME_PERIOD
  StartTime, \* the steady clock when the program starts
  MaxTime,   \* bound of the clock
  NoTime     \* no time

ASSUME OccasionalAssumption ==
  /\ IsFiniteSet(Threads) /\ Threads # {}
  /\ \A s \in Sites : /\ s.macro \in {"EVERY_N", "IF_EVERY_N", "FIRST_N", "EVERY_T"}
                      /\ s.n \in 1 .. Modulus - 1 - Cardinality(Threads)
  /\ {Modulus, Period, StartTime, MaxTime} \subseteq Nat
  /\ NoTime \notin Nat

VARIABLES
  site,                  \* the statement: its macro and its argument n
  LOG_OCCURRENCES,
  LOG_OCCURRENCES_MOD_N,
  LOG_PREVIOUS_TIME_RAW,
  now,                   \* the steady clock
  pc,                    \* per thread, its place in the expansion
  value,                 \* per thread, the unsigned value it has computed
  LOG_CURRENT_TIME,      \* per thread, when it read the clock
  \* History: executions (as far as n) and messages (one more), whether another
  \* execution has overlapped that of a thread, executions in a row (as far as
  \* GapBound) that logged nothing and no other overlapped, the last message of an
  \* execution no other overlapped.
  executions, messages, gap, overlapped, lastAlone

counters == <<LOG_OCCURRENCES, LOG_OCCURRENCES_MOD_N, LOG_PREVIOUS_TIME_RAW>>
history  == <<executions, messages, gap, overlapped, lastAlone>>
vars == <<site, counters, now, pc, value, LOG_CURRENT_TIME, history>>

n == site.n
AtMost(x, bound) == IF x < bound THEN x ELSE bound

\* unsigned int
Unsigned(x) == x % Modulus

Init ==
  /\ site \in Sites
  /\ LOG_OCCURRENCES = 0
  /\ LOG_OCCURRENCES_MOD_N = 0
  /\ LOG_PREVIOUS_TIME_RAW = 0
  /\ now = StartTime
  /\ pc = [t \in Threads |-> "idle"]
  /\ value = [t \in Threads |-> 0]
  /\ LOG_CURRENT_TIME = [t \in Threads |-> 0]
  /\ executions = 0
  /\ messages = 0
  /\ gap = 0
  /\ overlapped = [t \in Threads |-> FALSE]
  /\ lastAlone = NoTime

----------------------------------------------------------------------------
(* The steps of the expansions *)

GapBound == 2 * n

Goto(t, label) == pc' = [pc EXCEPT ![t] = label]

\* An execution ends; the macro's local variables go out of scope.
Leave(t) ==
  /\ Goto(t, "idle")
  /\ value' = [value EXCEPT ![t] = 0]
  /\ LOG_CURRENT_TIME' = [LOG_CURRENT_TIME EXCEPT ![t] = 0]
  /\ overlapped' = [overlapped EXCEPT ![t] = FALSE]

\* It ends without a message.  (What LOG_IF_EVERY_N skips since the condition is
\* false does not count.)
End(t, counts) ==
  /\ Leave(t)
  /\ gap' = IF overlapped[t] THEN 0 ELSE IF counts THEN AtMost(gap + 1, GapBound) ELSE gap

GoOn(t, label) == Goto(t, label) /\ UNCHANGED <<value, LOG_CURRENT_TIME, overlapped, gap>>

\* A thread reaches the statement.
Execute(t) ==
  /\ pc[t] = "idle"
  /\ LET others == {u \in Threads \ {t} : pc[u] # "idle"}
     IN  overlapped' = [u \in Threads |-> IF u = t THEN others # {}
                                          ELSE overlapped[u] \/ u \in others]
  /\ Goto(t, CASE site.macro \in {"EVERY_N", "IF_EVERY_N"} -> "occurrences"
               [] site.macro = "FIRST_N" -> "first"
               [] site.macro = "EVERY_T" -> "clock")
  /\ executions' = AtMost(executions + 1, n)
  /\ UNCHANGED <<site, counters, now, value, LOG_CURRENT_TIME, messages, gap, lastAlone>>

\* ++LOG_OCCURRENCES.  LOG_IF_EVERY_N evaluates its condition next.
CountOccurrence(t) ==
  /\ pc[t] = "occurrences"
  /\ LOG_OCCURRENCES' = Unsigned(LOG_OCCURRENCES + 1)
  /\ \/ site.macro = "EVERY_N" /\ GoOn(t, "increment")
     \/ site.macro = "IF_EVERY_N" /\ GoOn(t, "load")
     \/ site.macro = "IF_EVERY_N" /\ End(t, FALSE)
  /\ UNCHANGED <<site, LOG_OCCURRENCES_MOD_N, LOG_PREVIOUS_TIME_RAW, now,
                 executions, messages, lastAlone>>

\* ++LOG_OCCURRENCES_MOD_N > n
Increment(t) ==
  /\ pc[t] = "increment"
  /\ LOG_OCCURRENCES_MOD_N' = Unsigned(LOG_OCCURRENCES_MOD_N + 1)
  /\ Goto(t, IF LOG_OCCURRENCES_MOD_N' > n THEN "subtract" ELSE "test")
  /\ UNCHANGED <<site, LOG_OCCURRENCES, LOG_PREVIOUS_TIME_RAW, now, value,
                 LOG_CURRENT_TIME, history>>

\* LOG_OCCURRENCES_MOD_N -= n
Subtract(t) ==
  /\ pc[t] = "subtract"
  /\ LOG_OCCURRENCES_MOD_N' = Unsigned(LOG_OCCURRENCES_MOD_N - n)
  /\ Goto(t, "test")
  /\ UNCHANGED <<site, LOG_OCCURRENCES, LOG_PREVIOUS_TIME_RAW, now, value,
                 LOG_CURRENT_TIME, history>>

\* LOG_OCCURRENCES_MOD_N == 1
Test(t) ==
  /\ pc[t] = "test"
  /\ \/ LOG_OCCURRENCES_MOD_N = 1 /\ GoOn(t, "log")
     \/ LOG_OCCURRENCES_MOD_N # 1 /\ End(t, TRUE)
  /\ UNCHANGED <<site, counters, now, executions, messages, lastAlone>>

Advanced(x) == Unsigned(x + 1) % n

\* The condition of LOG_IF_EVERY_N holds: (LOG_OCCURRENCES_MOD_N + 1) % n
Load(t) ==
  /\ pc[t] = "load"
  /\ value' = [value EXCEPT ![t] = Advanced(LOG_OCCURRENCES_MOD_N)]
  /\ Goto(t, "store")
  /\ UNCHANGED <<site, counters, now, LOG_CURRENT_TIME, history>>

\* Mutant: 1 instead of 1 % n.
Due_One(x) == x = 1

Due(x) == x = 1 % n

\* The value stored, not what another thread may have stored since, decides.
Store(t) ==
  /\ pc[t] = "store"
  /\ LOG_OCCURRENCES_MOD_N' = value[t]
  /\ \/ Due(value[t]) /\ GoOn(t, "log")
     \/ ~Due(value[t]) /\ End(t, TRUE)
  /\ UNCHANGED <<site, LOG_OCCURRENCES, LOG_PREVIOUS_TIME_RAW, now,
                 executions, messages, lastAlone>>

\* The first LOG_OCCURRENCES <= n of LOG_FIRST_N
First(t) ==
  /\ pc[t] = "first"
  /\ Goto(t, IF LOG_OCCURRENCES <= n THEN "another" ELSE "within")
  /\ UNCHANGED <<site, counters, now, value, LOG_CURRENT_TIME, history>>

\* ++LOG_OCCURRENCES of LOG_FIRST_N
Another(t) ==
  /\ pc[t] = "another"
  /\ LOG_OCCURRENCES' = Unsigned(LOG_OCCURRENCES + 1)
  /\ Goto(t, "within")
  /\ UNCHANGED <<site, LOG_OCCURRENCES_MOD_N, LOG_PREVIOUS_TIME_RAW, now, value,
                 LOG_CURRENT_TIME, history>>

\* Mutant: one message too few.
Within_Less == LOG_OCCURRENCES < n

\* The second LOG_OCCURRENCES <= n of LOG_FIRST_N
Within == LOG_OCCURRENCES <= n

TestWithin(t) ==
  /\ pc[t] = "within"
  /\ \/ Within /\ GoOn(t, "log")
     \/ ~Within /\ End(t, TRUE)
  /\ UNCHANGED <<site, counters, now, executions, messages, lastAlone>>

\* LOG_CURRENT_TIME of LOG_EVERY_T
ReadClock(t) ==
  /\ pc[t] = "clock"
  /\ LOG_CURRENT_TIME' = [LOG_CURRENT_TIME EXCEPT ![t] = now]
  /\ Goto(t, "previous")
  /\ UNCHANGED <<site, counters, now, value, history>>

\* LOG_PREVIOUS_TIME and LOG_TIME_DELTA of LOG_EVERY_T
LoadPrevious(t) ==
  /\ pc[t] = "previous"
  /\ \/ LOG_CURRENT_TIME[t] - LOG_PREVIOUS_TIME_RAW > Period /\ GoOn(t, "remember")
     \/ LOG_CURRENT_TIME[t] - LOG_PREVIOUS_TIME_RAW <= Period /\ End(t, TRUE)
  /\ UNCHANGED <<site, counters, now, executions, messages, lastAlone>>

\* Mutant: the end of the interval, not the time of the message, is kept.
Remembered_Interval(t) == LOG_PREVIOUS_TIME_RAW + Period

Remembered(t) == LOG_CURRENT_TIME[t]

\* LOG_PREVIOUS_TIME_RAW.store of LOG_EVERY_T
StorePrevious(t) ==
  /\ pc[t] = "remember"
  /\ LOG_PREVIOUS_TIME_RAW' = Remembered(t)
  /\ Goto(t, "log")
  /\ UNCHANGED <<site, LOG_OCCURRENCES, LOG_OCCURRENCES_MOD_N, now, value,
                 LOG_CURRENT_TIME, history>>

\* The LogMessage.
LogMessage(t) ==
  /\ pc[t] = "log"
  /\ Leave(t)
  /\ messages' = AtMost(messages + 1, n + 1)
  /\ gap' = 0
  /\ lastAlone' = IF site.macro = "EVERY_T" /\ ~overlapped[t] THEN LOG_CURRENT_TIME[t]
                  ELSE lastAlone
  /\ UNCHANGED <<site, counters, now, executions>>

Tick ==
  /\ site.macro = "EVERY_T" /\ now < MaxTime
  /\ now' = now + 1
  /\ UNCHANGED <<site, counters, pc, value, LOG_CURRENT_TIME, history>>

Continue(t) ==
  \/ CountOccurrence(t) \/ Increment(t) \/ Subtract(t) \/ Test(t)
  \/ Load(t) \/ Store(t)
  \/ First(t) \/ Another(t) \/ TestWithin(t)
  \/ ReadClock(t) \/ LoadPrevious(t) \/ StorePrevious(t)
  \/ LogMessage(t)

Next == Tick \/ \E t \in Threads : Execute(t) \/ Continue(t)

Spec == Init /\ [][Next]_vars

\* Every thread keeps executing the statement, and the condition of LOG_IF_EVERY_N
\* holds again and again.
FairSpec ==
  /\ Spec
  /\ \A t \in Threads : WF_vars(Execute(t) \/ Continue(t))
                        /\ SF_vars(CountOccurrence(t) /\ pc'[t] = "load")

----------------------------------------------------------------------------
(* Properties *)

Labels == {"idle", "occurrences", "increment", "subtract", "test", "load", "store",
           "first", "another", "within", "clock", "previous", "remember", "log"}

\* The counters are unsigned ints, and LOG_IF_EVERY_N keeps its own below n.
TypeOK ==
  /\ site \in Sites
  /\ {LOG_OCCURRENCES, LOG_OCCURRENCES_MOD_N} \subseteq 0 .. Modulus - 1
  /\ {LOG_PREVIOUS_TIME_RAW, now} \subseteq Nat
  /\ pc \in [Threads -> Labels]
  /\ value \in [Threads -> 0 .. Modulus - 1]
  /\ LOG_CURRENT_TIME \in [Threads -> Nat]
  /\ executions \in 0 .. n
  /\ messages \in 0 .. n + 1
  /\ gap \in 0 .. GapBound
  /\ overlapped \in [Threads -> BOOLEAN]
  /\ lastAlone \in Nat \cup {NoTime}
  /\ site.macro = "IF_EVERY_N" => LOG_OCCURRENCES_MOD_N < n

\* LOG_FIRST_N never logs more than n messages, although a thread that has counted
\* tests again only after others have counted too; and if threads pass n together it
\* loses no more than there are other threads.
FirstNLogsN ==
  site.macro = "FIRST_N" =>
    /\ messages <= n
    /\ (\A t \in Threads : pc[t] = "idle")
         => messages >= executions - (Cardinality(Threads) - 1)

\* After a message of LOG_EVERY_T that no other execution has overlapped there is
\* none for LOG_TIME_PERIOD, whatever threads store late from then on.
TimedApart ==
  [][\A t \in Threads :
       pc[t] = "log" /\ pc'[t] = "idle" /\ lastAlone # NoTime
         => LOG_CURRENT_TIME[t] > lastAlone + Period]_vars

\* LOG_IF_EVERY_N goes on logging, although threads overwrite each other's count.
KeepsLogging ==
  site.macro = "IF_EVERY_N" => []<><<\E t \in Threads : pc[t] = "log" /\ pc'[t] = "idle">>_vars

----------------------------------------------------------------------------
(* What the documentation says and the code does not do *)

\* "outputs a log messages on the 1st, 11th, 21st, ... times it is executed"
\* (LOG_EVERY_N with n = 10): also after executions that overlapped, of 2n in a row
\* that do not overlap one logs a message.
EveryNInterval == site.macro = "EVERY_N" => gap < GapBound
=============================================================================
