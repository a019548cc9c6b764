-------------------------- MODULE MCSignalHandler --------------------------
(***************************************************************************)
(* Instances of SignalHandler for TLC.                                     *)
(***************************************************************************)
EXTENDS SignalHandler

CONSTANTS t1, t2, t3, SIGSEGV, SIGABRT, SIGTERM

TwoSignals == <<SIGSEGV, SIGTERM>>
ThreeSignals == <<SIGSEGV, SIGABRT, SIGTERM>>
=============================================================================
