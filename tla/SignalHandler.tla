--------------------------- MODULE SignalHandler ---------------------------
(***************************************************************************)
(* The failure signal handler (src/signalhandler.cc): threads of a program *)
(* that receive failure signals, while it is being installed and later.    *)
(* The first one dumps its state, flushes the log files and ends the       *)
(* process by the default handler; others wait.  What the kernel does with *)
(* signals is modelled as POSIX says for sigaction with an empty sa_mask   *)
(* and without SA_NODEFER: a signal is blocked in a thread while that      *)
(* thread handles it.                                                      *)
(***************************************************************************)
EXTENDS Integers, Sequences, FiniteSets

CONSTANTS
  Threads,
  NoThread,          \* g_entered_thread_id_pointer is nullptr
  kFailureSignals,   \* a sequence of signals
  NoSignal,
  Faults,            \* the signals an instruction of the handler may raise
  MaxSignals         \* bound: the signals raised or sent

Signals == {kFailureSignals[i] : i \in DOMAIN kFailureSignals}

ASSUME SignalAssumption ==
  /\ kFailureSignals \in Seq(Signals)
  /\ Threads # {}
  /\ NoSignal \notin Signals /\ NoThread \notin Threads
  /\ Faults \subseteq Signals
  /\ MaxSignals \in Nat

VARIABLES
  installed,                    \* how many of kFailureSignals have the handler
  disposition,                  \* per signal: "handler" or "default"
  pending,                      \* the signals pending for the process
  g_entered_thread_id_pointer,  \* the thread whose my_thread_id it points to
  frames,                       \* per thread, the calls of FailureSignalHandler,
                                \* the innermost last
  output,                       \* what g_failure_writer got, and the flush
  killedBy,                     \* the signal that ended the process, or NoSignal
  sent,                         \* the number of signals raised or sent
  interrupted                   \* history: has the thread that came first faulted in
                                \* the handler, or entered it again?

vars == <<installed, disposition, pending, g_entered_thread_id_pointer, frames,
          output, killedBy, sent, interrupted>>

\* The steps of the thread that came first; the others compare thread ids.
Dump == <<"DumpTimeInfo", "DumpStackFrameInfo", "DumpSignalInfo", "stack",
          "FlushLogFilesUnsafe">>
DumpSteps == {Dump[i] : i \in DOMAIN Dump}
Steps == DumpSteps \cup {"enter", "compare", "sigaction", "kill", "return", "sleep"}

\* reentered: is this InvokeDefaultSignalHandler that of a reentry?
Frame == [signal_number : Signals, step : Steps, reentered : BOOLEAN]

Init ==
  /\ installed = 0
  /\ disposition = [s \in Signals |-> "default"]
  /\ pending = {}
  /\ g_entered_thread_id_pointer = NoThread
  /\ frames = [t \in Threads |-> << >>]
  /\ output = << >>
  /\ killedBy = NoSignal
  /\ sent = 0
  /\ interrupted = FALSE

----------------------------------------------------------------------------
(* The kernel *)

Handling(t) == frames[t] # << >>
Top(t) == frames[t][Len(frames[t])]
Blocked(t) == {frames[t][i].signal_number : i \in DOMAIN frames[t]}

Hits(t) ==
  interrupted' = (interrupted \/ (Handling(t) /\ g_entered_thread_id_pointer = t))

\* Thread t gets signal s, which it does not block.
Receive(t, s) ==
  \/ /\ disposition[s] = "default"
     /\ killedBy' = s
     /\ UNCHANGED frames
  \/ /\ disposition[s] = "handler"
     /\ frames' = [frames EXCEPT ![t] =
          Append(@, [signal_number |-> s, step |-> "enter", reentered |-> FALSE])]
     /\ UNCHANGED killedBy

\* A thread faults or aborts; in the handler only its own instructions fault.
\* A fault whose signal is blocked ends the process.
Raise(t, s) ==
  /\ killedBy = NoSignal /\ sent < MaxSignals
  /\ Handling(t) => s \in Faults /\ Top(t).step \in DumpSteps
  /\ \/ s \notin Blocked(t) /\ Receive(t, s)
     \/ s \in Blocked(t) /\ killedBy' = s /\ UNCHANGED frames
  /\ sent' = sent + 1
  /\ Hits(t)
  /\ UNCHANGED <<installed, disposition, pending, g_entered_thread_id_pointer, output>>

\* Another process sends a signal.
Send(s) ==
  /\ killedBy = NoSignal /\ sent < MaxSignals
  /\ pending' = pending \cup {s}
  /\ sent' = sent + 1
  /\ UNCHANGED <<installed, disposition, g_entered_thread_id_pointer, frames, output, killedBy,
                 interrupted>>

\* Any thread that does not block a pending signal may get it.
Deliver(t, s) ==
  /\ killedBy = NoSignal
  /\ s \in pending \ Blocked(t)
  /\ pending' = pending \ {s}
  /\ Receive(t, s)
  /\ IF disposition[s] = "handler" THEN Hits(t) ELSE UNCHANGED interrupted
  /\ UNCHANGED <<installed, disposition, g_entered_thread_id_pointer, output, sent>>

----------------------------------------------------------------------------
(* InstallFailureSignalHandler and FailureSignalHandler *)

\* One sigaction of the loop in InstallFailureSignalHandler.
Install ==
  /\ killedBy = NoSignal
  /\ installed < Len(kFailureSignals)
  /\ installed' = installed + 1
  /\ disposition' = [disposition EXCEPT ![kFailureSignals[installed + 1]] = "handler"]
  /\ UNCHANGED <<pending, g_entered_thread_id_pointer, frames, output, killedBy, sent, interrupted>>

At(t, step) == killedBy = NoSignal /\ Handling(t) /\ Top(t).step = step

SetTop(t, frame) == frames' = [frames EXCEPT ![t][Len(frames[t])] = frame]
Goto(t, step) == SetTop(t, [Top(t) EXCEPT !.step = step])

\* Mutant: the naive method may have read the pointer before another thread wrote it.
OldPointers_Naive == {g_entered_thread_id_pointer, NoThread}

\* What sync_val_compare_and_swap may return.
OldPointers == {g_entered_thread_id_pointer}

\* sync_val_compare_and_swap
Enter(t) ==
  /\ At(t, "enter")
  /\ \/ /\ NoThread \in OldPointers
        /\ g_entered_thread_id_pointer' = t
        /\ Goto(t, Dump[1])
     \/ /\ \E old \in OldPointers : old # NoThread
        /\ Goto(t, "compare")
        /\ UNCHANGED g_entered_thread_id_pointer
  /\ UNCHANGED <<installed, disposition, pending, output, killedBy, sent, interrupted>>

\* Mutants: whoever comes second ends the process; a reentry waits, too.
Reenters_Always(t) == TRUE

Reenters_Never(t) == FALSE

\* pthread_equal(my_thread_id, *g_entered_thread_id_pointer)
Reenters(t) == g_entered_thread_id_pointer = t

\* A reentry invokes the default handler, other threads sleep.
Compare(t) ==
  /\ At(t, "compare")
  /\ \/ Reenters(t) /\ SetTop(t, [Top(t) EXCEPT !.step = "sigaction", !.reentered = TRUE])
     \/ ~Reenters(t) /\ Goto(t, "sleep")
  /\ UNCHANGED <<installed, disposition, pending, g_entered_thread_id_pointer, output,
                 killedBy, sent, interrupted>>

\* One part of the dump, or the flush after it.
DumpPart(t) ==
  \E i \in DOMAIN Dump :
    /\ At(t, Dump[i])
    /\ output' = Append(output, Dump[i])
    /\ Goto(t, IF i = Len(Dump) THEN "sigaction" ELSE Dump[i + 1])
    /\ UNCHANGED <<installed, disposition, pending, g_entered_thread_id_pointer,
                   killedBy, sent, interrupted>>

\* InvokeDefaultSignalHandler, first half
RestoreDefault(t) ==
  /\ At(t, "sigaction")
  /\ disposition' = [disposition EXCEPT ![Top(t).signal_number] = "default"]
  /\ Goto(t, "kill")
  /\ UNCHANGED <<installed, pending, g_entered_thread_id_pointer, output, killedBy,
                 sent, interrupted>>

\* Mutant: the signal goes to nobody.
Killed_Ignored(t) == {}

Killed(t) == {Top(t).signal_number}

\* InvokeDefaultSignalHandler, second half.  The reentered handler goes on to sleep.
Kill(t) ==
  /\ At(t, "kill")
  /\ pending' = pending \cup Killed(t)
  /\ Goto(t, IF Top(t).reentered THEN "sleep" ELSE "return")
  /\ UNCHANGED <<installed, disposition, g_entered_thread_id_pointer, output, killedBy,
                 sent, interrupted>>

\* The handler returns; the signal is no longer blocked.
Return(t) ==
  /\ At(t, "return")
  /\ frames' = [frames EXCEPT ![t] = SubSeq(@, 1, Len(@) - 1)]
  /\ UNCHANGED <<installed, disposition, pending, g_entered_thread_id_pointer, output,
                 killedBy, sent, interrupted>>

Handler(t) ==
  \/ Enter(t) \/ Compare(t) \/ DumpPart(t) \/ RestoreDefault(t) \/ Kill(t) \/ Return(t)

Next ==
  \/ Install
  \/ \E s \in Signals : Send(s) \/ \E t \in Threads : Raise(t, s) \/ Deliver(t, s)
  \/ \E t \in Threads : Handler(t)

Spec == Init /\ [][Next]_vars

\* Threads run, and the kernel delivers what some thread does not block.
FairSpec ==
  /\ Spec
  /\ \A t \in Threads : WF_vars(Handler(t))
  /\ \A s \in Signals : WF_vars(\E t \in Threads : Deliver(t, s))

----------------------------------------------------------------------------
(* Properties *)

\* Type correctness of dispositions, frames and output.
TypeOK ==
  /\ installed \in 0 .. Len(kFailureSignals)
  /\ disposition \in [Signals -> {"handler", "default"}]
  /\ pending \subseteq Signals
  /\ g_entered_thread_id_pointer \in Threads \cup {NoThread}
  /\ frames \in [Threads -> Seq(Frame)]
  /\ output \in Seq(DumpSteps)
  /\ killedBy \in Signals \cup {NoSignal}
  /\ sent \in Nat
  /\ interrupted \in BOOLEAN

\* "let the first thread dump stuff and let other threads wait": the output is one
\* dump, not interleaved with another and not begun twice, even if handlers nest.
OneDump == output = SubSeq(Dump, 1, Len(output))

\* A thread has found itself to have come first.
Reentered ==
  \E t \in Threads : \E i \in DOMAIN frames[t] : frames[t][i].reentered

\* Once the handler is installed, and unless the thread that dumps faults or has to
\* enter the handler again, the process does not end before the dump is complete and the
\* log files have been flushed, whatever signals other threads receive.
DumpedBeforeKilled ==
  killedBy # NoSignal /\ installed = Len(kFailureSignals) /\ ~interrupted
    /\ g_entered_thread_id_pointer # NoThread
    => output = Dump

\* The handler ends the process, unless all threads sleep in it.
Stuck == \A t \in Threads : Handling(t) /\ Top(t).step = "sleep"

CrashTerminates ==
  g_entered_thread_id_pointer # NoThread ~> killedBy # NoSignal \/ Stuck

\* All threads sleep only after a reentry.
StuckOnlyByReentry == Stuck => Reentered
=============================================================================
