----------------------------- MODULE LogStream -----------------------------
(***************************************************************************)
(* What log_mutex is for: seen from the log files, the sinks and           *)
(* num_messages_, the messages of all threads come one after the other.    *)
(* A message is begun once, goes to its outputs, and is counted before the *)
(* next one is begun; a log file shows it once, and either all files up to *)
(* its severity show it or none.  LogMessage keeps this until FATAL        *)
(* messages make it give up log_mutex, or share a buffer.                  *)
(***************************************************************************)
EXTENDS Integers, Sequences

CONSTANTS
  Severities,     \* 0 .. n, one log file for each
  Sinks

VARIABLES
  current,        \* the message that is being logged, 0 if there is none
  logfile,        \* per severity, the messages in its log file
  received,       \* per sink, the messages it has been sent
  num_messages_,  \* per severity, the number of messages
  over            \* has the promise ended?

vars == <<current, logfile, received, num_messages_, over>>

Init ==
  /\ current = 0
  /\ logfile = [s \in Severities |-> << >>]
  /\ received = [s \in Sinks |-> << >>]
  /\ num_messages_ = [s \in Severities |-> 0]
  /\ over = FALSE

Shows(stream, m) == \E i \in 1 .. Len(stream) : stream[i] = m

\* Nobody has seen a message before it is begun.
Begin ==
  /\ current = 0
  /\ current' # 0
  /\ \A s \in Severities : ~Shows(logfile[s], current')
  /\ \A s \in Sinks : ~Shows(received[s], current')
  /\ UNCHANGED <<logfile, received, num_messages_, over>>

Write(s) ==
  /\ current # 0
  /\ ~Shows(logfile[s], current)
  /\ logfile' = [logfile EXCEPT ![s] = Append(@, current)]
  /\ UNCHANGED <<current, received, num_messages_, over>>

\* A sink that is registered, and named by the message, or registered twice,
\* gets the message twice.
Send(s) ==
  /\ current # 0
  /\ received' = [received EXCEPT ![s] = Append(@, current)]
  /\ UNCHANGED <<current, logfile, num_messages_, over>>

\* The end of a message with severity s.
Count(s) ==
  /\ current # 0
  /\ {f \in Severities : Shows(logfile[f], current)} \in {{}, 0 .. s}
  /\ num_messages_' = [num_messages_ EXCEPT ![s] = @ + 1]
  /\ current' = 0
  /\ UNCHANGED <<logfile, received, over>>

\* From here on anything may happen.
GiveUp == over'

Next ==
  \/ Begin
  \/ \E s \in Severities : Write(s) \/ Count(s)
  \/ \E s \in Sinks : Send(s)
  \/ GiveUp

Spec == Init /\ [][Next]_vars
=============================================================================
