---------------------------- MODULE MCLogMessage ----------------------------
(***************************************************************************)
(* Instances of LogMessage for TLC.  Severities are reduced to INFO, ERROR *)
(* and FATAL, or to INFO and FATAL.                                        *)
(***************************************************************************)
EXTENDS LogMessage, TLC

CONSTANTS t1, t2, helper, s1, s2

Log(c, sev, method, sink, out) ==
  [cls |-> c, severity_ |-> sev, send_method_ |-> method, sink_ |-> sink, out |-> out]

\* LOG(FATAL) and CHECK make a LogMessageFatal, the other FATAL forms (DFATAL,
\* SYSLOG, LOG_TO_SINK) a LogMessage.
LogInfo   == Log("LogMessage", 0, "SendToLog", NoSink, FALSE)
LogFatal  == Log("LogMessageFatal", GLOG_FATAL, "SendToLog", NoSink, FALSE)
LogToSink1(sev) == Log("LogMessage", sev, "SendToSinkAndLog", s1, FALSE)
LogToOnlySink1(sev) == Log("LogMessage", sev, "SendToSink", s1, FALSE)
LogToVector == Log("LogMessage", 0, "SaveOrSendToLog", NoSink, TRUE)
LogToString == Log("LogMessage", 0, "WriteToStringAndLog", NoSink, TRUE)

\* Messages of all severities to the files and the registered sinks (and a
\* string), to a sink they name, and to a vector only; FATAL messages of both
\* classes.
OutputStatements ==
  {LogToString, LogToVector, LogToSink1(1), LogToOnlySink1(1),
   LogToSink1(GLOG_FATAL), LogFatal}

InfoFatalStatements == {LogInfo, LogFatal}

OneSink == <<s1>>
OtherSink == <<s2>>

NoClients == [s \in Sinks |-> {}]
NoHelper == [s \in Sinks |-> NoThread]

\* The sink of the unit test (TestWaitingLogSink): it hands over the messages
\* of the program's threads and its writer thread logs about each.
WaitingClients == [s \in Sinks |-> Threads \ {helper}]
WaitingHelper == [s \in Sinks |-> helper]

\* t1 and t2 run the same program; sound for the runs without liveness.
ThreadSymmetry == Permutations({t1, t2})
=============================================================================
