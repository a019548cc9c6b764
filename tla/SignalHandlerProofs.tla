------------------------ MODULE SignalHandlerProofs ------------------------
(***************************************************************************)
(* Proofs about SignalHandler for any threads and signals and any number   *)
(* of signals, nested handlers included.                                   *)
(***************************************************************************)
EXTENDS SignalHandler, SequenceTheorems, TLAPS

\* A call of the handler that is in the dump or the flush.
InDump(frame) == frame.step \in DumpSteps

\* At most one call of the handler dumps, and the output is what it has dumped so far;
\* nobody dumps before g_entered_thread_id_pointer is set.
DumpInv ==
  /\ Len(output) <= Len(Dump)
  /\ \A k \in DOMAIN output : output[k] = Dump[k]
  /\ \A t \in Threads : \A i \in DOMAIN frames[t] : \A k \in DOMAIN Dump :
       frames[t][i].step = Dump[k] => Len(output) = k - 1
  /\ \A t, u \in Threads : \A i \in DOMAIN frames[t], j \in DOMAIN frames[u] :
       InDump(frames[t][i]) /\ InDump(frames[u][j]) => t = u /\ i = j
  /\ g_entered_thread_id_pointer = NoThread =>
       /\ output = << >>
       /\ \A t \in Threads : \A i \in DOMAIN frames[t] : ~InDump(frames[t][i])

\* Who compares thread ids or sleeps came second, and a thread that came first
\* sleeps only in a call it has reentered.
SleepInv ==
  \A t \in Threads : \A i \in DOMAIN frames[t] :
    /\ frames[t][i].step \in {"compare", "sleep"} \/ frames[t][i].reentered
         => g_entered_thread_id_pointer # NoThread
    /\ frames[t][i].step = "sleep" /\ ~frames[t][i].reentered
         => g_entered_thread_id_pointer # t

IInv == TypeOK /\ DumpInv /\ SleepInv

----------------------------------------------------------------------------
(* Facts about the data *)

\* The five steps of the dump are different from each other and from the others.
LEMMA DumpFacts ==
  /\ Len(Dump) = 5 /\ DOMAIN Dump = 1 .. 5
  /\ \A k \in 1 .. 5 : Dump[k] \in DumpSteps
  /\ \A j, k \in 1 .. 5 : Dump[j] = Dump[k] => j = k
  /\ DumpSteps \cap {"enter", "compare", "sigaction", "kill", "return", "sleep"} = {}
  /\ Dump \in Seq(DumpSteps)
<1>1. /\ Len(Dump) = 5 /\ DOMAIN Dump = 1 .. 5
      /\ Dump[1] = "DumpTimeInfo" /\ Dump[2] = "DumpStackFrameInfo"
      /\ Dump[3] = "DumpSignalInfo" /\ Dump[4] = "stack"
      /\ Dump[5] = "FlushLogFilesUnsafe"
  BY DEF Dump
<1>2. \A k \in 1 .. 5 : k = 1 \/ k = 2 \/ k = 3 \/ k = 4 \/ k = 5
  OBVIOUS
<1>3. \A k \in 1 .. 5 : Dump[k] \in DumpSteps
  BY <1>1 DEF DumpSteps
<1>4. \A j, k \in 1 .. 5 : Dump[j] = Dump[k] => j = k
  BY <1>1, <1>2
<1>5. DumpSteps \cap {"enter", "compare", "sigaction", "kill", "return", "sleep"} = {}
  BY <1>1, <1>2 DEF DumpSteps
<1>6. Dump \in Seq(DumpSteps)
  BY <1>3 DEF Dump
<1> QED
  BY <1>1, <1>3, <1>4, <1>5, <1>6

\* Changing the innermost call of a thread leaves all others alone.
LEMMA SetTopFacts ==
  ASSUME TypeOK, NEW t \in Threads, Handling(t), NEW frame \in Frame, SetTop(t, frame)
  PROVE  /\ frames' \in [Threads -> Seq(Frame)]
         /\ Len(frames[t]) \in DOMAIN frames[t]
         /\ Top(t) = frames[t][Len(frames[t])] /\ Top(t) \in Frame
         /\ \A u \in Threads : DOMAIN frames'[u] = DOMAIN frames[u]
         /\ \A u \in Threads : \A i \in DOMAIN frames[u] :
              frames'[u][i] = IF u = t /\ i = Len(frames[t]) THEN frame ELSE frames[u][i]
<1>1. frames[t] \in Seq(Frame) /\ frames[t] # << >>
  BY DEF TypeOK, Handling
<1>2. Len(frames[t]) \in Nat /\ Len(frames[t]) >= 1 /\ DOMAIN frames[t] = 1 .. Len(frames[t])
  BY <1>1
<1>3. frames' = [frames EXCEPT ![t] = [@ EXCEPT ![Len(frames[t])] = frame]]
  BY DEF SetTop
<1>4. [frames[t] EXCEPT ![Len(frames[t])] = frame] \in Seq(Frame)
  BY <1>1, <1>2
<1> QED
  BY <1>1, <1>2, <1>3, <1>4 DEF TypeOK, Top

\* A call of the handler begins: one more frame.
LEMMA PushFacts ==
  ASSUME TypeOK, NEW t \in Threads, NEW frame \in Frame,
         frames' = [frames EXCEPT ![t] = Append(@, frame)]
  PROVE  /\ frames' \in [Threads -> Seq(Frame)]
         /\ \A u \in Threads : DOMAIN frames[u] \subseteq DOMAIN frames'[u]
         /\ \A u \in Threads : \A i \in DOMAIN frames[u] : frames'[u][i] = frames[u][i]
         /\ \A u \in Threads : \A i \in DOMAIN frames'[u] \ DOMAIN frames[u] :
              frames'[u][i] = frame
<1>1. frames[t] \in Seq(Frame)
  BY DEF TypeOK
<1>2. /\ Append(frames[t], frame) \in Seq(Frame)
      /\ Len(Append(frames[t], frame)) = Len(frames[t]) + 1
      /\ \A i \in 1 .. Len(frames[t]) : Append(frames[t], frame)[i] = frames[t][i]
      /\ Append(frames[t], frame)[Len(frames[t]) + 1] = frame
  BY <1>1, AppendProperties
<1>3. \A u \in Threads : frames'[u] = IF u = t THEN Append(frames[t], frame) ELSE frames[u]
  BY DEF TypeOK
<1>4. DOMAIN frames[t] = 1 .. Len(frames[t]) /\ DOMAIN frames'[t] = 1 .. Len(frames[t]) + 1
  BY <1>1, <1>2, <1>3, LenProperties
<1>5. frames' \in [Threads -> Seq(Frame)]
  BY <1>1, <1>2 DEF TypeOK
<1> QED
  BY <1>1, <1>2, <1>3, <1>4, <1>5

\* A call of the handler returns: one frame less.
LEMMA PopFacts ==
  ASSUME TypeOK, NEW t \in Threads, Handling(t),
         frames' = [frames EXCEPT ![t] = SubSeq(@, 1, Len(@) - 1)]
  PROVE  /\ frames' \in [Threads -> Seq(Frame)]
         /\ \A u \in Threads : DOMAIN frames'[u] \subseteq DOMAIN frames[u]
         /\ \A u \in Threads : \A i \in DOMAIN frames'[u] : frames'[u][i] = frames[u][i]
<1>1. frames[t] \in Seq(Frame) /\ frames[t] # << >>
  BY DEF TypeOK, Handling
<1> DEFINE len == Len(frames[t])
<1>2. len \in Nat /\ len >= 1 /\ DOMAIN frames[t] = 1 .. len
  BY <1>1
<1>3. /\ SubSeq(frames[t], 1, len - 1) \in Seq(Frame)
      /\ Len(SubSeq(frames[t], 1, len - 1)) = len - 1
      /\ \A i \in 1 .. len - 1 : SubSeq(frames[t], 1, len - 1)[i] = frames[t][i]
  BY <1>1, <1>2
<1>4. \A u \in Threads :
        frames'[u] = IF u = t THEN SubSeq(frames[t], 1, len - 1) ELSE frames[u]
  BY DEF TypeOK
<1>5. DOMAIN frames'[t] = 1 .. len - 1
  BY <1>3, <1>4, LenProperties
<1>6. frames' \in [Threads -> Seq(Frame)]
  BY <1>1, <1>3 DEF TypeOK
<1> QED
  BY <1>1, <1>2, <1>3, <1>4, <1>5, <1>6

----------------------------------------------------------------------------
(* Type correctness *)

LEMMA InitType == Init => TypeOK
<1> SUFFICES ASSUME Init PROVE TypeOK
  OBVIOUS
<1>1. << >> \in Seq(Frame) /\ << >> \in Seq(DumpSteps)
  OBVIOUS
<1>2. installed \in 0 .. Len(kFailureSignals)
  BY SignalAssumption DEF Init
<1>3. frames \in [Threads -> Seq(Frame)] /\ output \in Seq(DumpSteps)
  BY <1>1 DEF Init
<1> QED
  BY <1>2, <1>3 DEF Init, TypeOK

\* A thread takes a signal.
LEMMA ReceiveType ==
  ASSUME TypeOK, NEW t \in Threads, NEW s \in Signals, Receive(t, s)
  PROVE  frames' \in [Threads -> Seq(Frame)] /\ killedBy' \in Signals \cup {NoSignal}
<1>1. [signal_number |-> s, step |-> "enter", reentered |-> FALSE] \in Frame
  BY DEF Frame, Steps
<1>2. CASE disposition[s] = "handler"
  BY <1>1, <1>2, PushFacts DEF Receive, TypeOK
<1>3. CASE disposition[s] # "handler"
  BY <1>3 DEF Receive, TypeOK
<1> QED
  BY <1>2, <1>3

\* A step of the handler changes the step of its innermost call.
LEMMA GotoType ==
  ASSUME TypeOK, NEW t \in Threads, Handling(t), NEW step \in Steps, Goto(t, step)
  PROVE  frames' \in [Threads -> Seq(Frame)]
<1>1. Top(t) \in Frame
  BY DEF TypeOK, Handling, Top
<1>2. [Top(t) EXCEPT !.step = step] \in Frame
  BY <1>1 DEF Frame
<1> QED
  BY <1>2, SetTopFacts DEF Goto

LEMMA HandlerType ==
  ASSUME TypeOK, NEW t \in Threads, Handler(t)
  PROVE  TypeOK'
<1>0. Handling(t) /\ Top(t) \in Frame
<2>1. Handling(t)
  BY DEF Handler, Enter, Compare, DumpPart, RestoreDefault, Kill, Return, At
<2> QED
  BY <2>1 DEF TypeOK, Handling, Top
<1>1. CASE Enter(t)
<2>1. Dump[1] \in Steps /\ "compare" \in Steps
  BY DumpFacts DEF Steps
<2>2. frames' \in [Threads -> Seq(Frame)]
  BY <1>0, <1>1, <2>1, GotoType DEF Enter
<2> QED
  BY <1>1, <2>2 DEF Enter, TypeOK
<1>2. CASE Compare(t)
<2> DEFINE reentered == [Top(t) EXCEPT !.step = "sigaction", !.reentered = TRUE]
<2>1. Goto(t, "sleep") => frames' \in [Threads -> Seq(Frame)]
  BY <1>0, GotoType DEF Steps
<2>2. SetTop(t, reentered) => frames' \in [Threads -> Seq(Frame)]
<3>1. reentered \in Frame
  BY <1>0 DEF Frame, Steps
<3> HIDE DEF reentered
<3> QED
  BY <1>0, <3>1, SetTopFacts
<2>3. frames' \in [Threads -> Seq(Frame)]
  BY <1>2, <2>1, <2>2 DEF Compare
<2> QED
  BY <1>2, <2>3 DEF Compare, TypeOK
<1>3. CASE DumpPart(t)
<2>1. PICK i \in 1 .. 5 :
        /\ output' = Append(output, Dump[i])
        /\ Goto(t, IF i = Len(Dump) THEN "sigaction" ELSE Dump[i + 1])
  BY <1>3, DumpFacts DEF DumpPart
<2>2. (IF i = Len(Dump) THEN "sigaction" ELSE Dump[i + 1]) \in Steps
  BY DumpFacts DEF Steps
<2> DEFINE next == IF i = Len(Dump) THEN "sigaction" ELSE Dump[i + 1]
<2>3. frames' \in [Threads -> Seq(Frame)]
  <3>1. next \in Steps /\ Goto(t, next)
    BY <2>1, <2>2
  <3> HIDE DEF next
  <3> QED
    BY <1>0, <3>1, GotoType
<2>4. output' \in Seq(DumpSteps)
  BY <2>1, DumpFacts DEF TypeOK
<2> QED
  BY <1>3, <2>3, <2>4 DEF DumpPart, TypeOK
<1>4. CASE RestoreDefault(t)
<2>1. frames' \in [Threads -> Seq(Frame)]
  BY <1>0, <1>4, GotoType DEF RestoreDefault, Steps
<2>2. disposition' \in [Signals -> {"handler", "default"}]
  BY <1>4 DEF RestoreDefault, TypeOK
<2> QED
  BY <1>4, <2>1, <2>2 DEF RestoreDefault, TypeOK
<1>5. CASE Kill(t)
<2>1. (IF Top(t).reentered THEN "sleep" ELSE "return") \in Steps
  BY DEF Steps
<2>2. frames' \in [Threads -> Seq(Frame)]
  BY <1>0, <1>5, <2>1, GotoType DEF Kill
<2>3. Killed(t) \subseteq Signals
  BY <1>0 DEF Killed, Frame
<2> QED
  BY <1>5, <2>2, <2>3 DEF Kill, TypeOK
<1>6. CASE Return(t)
<2>1. frames' \in [Threads -> Seq(Frame)]
  BY <1>0, <1>6, PopFacts DEF Return
<2> QED
  BY <1>6, <2>1 DEF Return, TypeOK
<1> QED
  BY <1>1, <1>2, <1>3, <1>4, <1>5, <1>6 DEF Handler

LEMMA NextType == TypeOK /\ [Next]_vars => TypeOK'
<1> SUFFICES ASSUME TypeOK, [Next]_vars PROVE TypeOK'
  OBVIOUS
<1>1. CASE Install
<2>1. installed + 1 \in 1 .. Len(kFailureSignals)
  BY <1>1, SignalAssumption DEF Install, TypeOK
<2>2. kFailureSignals[installed + 1] \in Signals
  BY <2>1, SignalAssumption
<2> QED
  BY <1>1, <2>1, <2>2 DEF Install, TypeOK
<1>2. ASSUME NEW s \in Signals, Send(s) PROVE TypeOK'
  BY <1>2 DEF Send, TypeOK
<1>3. ASSUME NEW s \in Signals, NEW t \in Threads, Raise(t, s) PROVE TypeOK'
<2>1. frames' \in [Threads -> Seq(Frame)] /\ killedBy' \in Signals \cup {NoSignal}
  BY <1>3, ReceiveType DEF Raise, TypeOK
<2> QED
  BY <1>3, <2>1 DEF Raise, Hits, TypeOK
<1>4. ASSUME NEW s \in Signals, NEW t \in Threads, Deliver(t, s) PROVE TypeOK'
<2>1. frames' \in [Threads -> Seq(Frame)] /\ killedBy' \in Signals \cup {NoSignal}
  BY <1>4, ReceiveType DEF Deliver
<2>2. interrupted' \in BOOLEAN
  BY <1>4 DEF Deliver, Hits, TypeOK
<2> QED
  BY <1>4, <2>1, <2>2 DEF Deliver, TypeOK
<1>5. ASSUME NEW t \in Threads, Handler(t) PROVE TypeOK'
  BY <1>5, HandlerType
<1>6. CASE UNCHANGED vars
  BY <1>6 DEF vars, TypeOK
<1> QED
  BY <1>1, <1>2, <1>3, <1>4, <1>5, <1>6 DEF Next

\* The types of dispositions, frames and output.
THEOREM TypeCorrect == Spec => []TypeOK
  BY InitType, NextType, PTL DEF Spec

----------------------------------------------------------------------------
(* One dump *)

\* A call of thread u that does not dump, and waits only for a reason.
Waits(u, frame) ==
  /\ ~InDump(frame)
  /\ frame.step \in {"compare", "sleep"} \/ frame.reentered
       => g_entered_thread_id_pointer # NoThread
  /\ frame.step = "sleep" /\ ~frame.reentered => g_entered_thread_id_pointer # u

\* Calls that begin, return, or do not dump next leave the one dump alone.
LEMMA DumpUnaffected ==
  ASSUME TypeOK, DumpInv, SleepInv, TypeOK',
         UNCHANGED <<g_entered_thread_id_pointer, output>>,
         \A u \in Threads : \A i \in DOMAIN frames'[u] :
           \/ i \in DOMAIN frames[u] /\ frames'[u][i] = frames[u][i]
           \/ Waits(u, frames'[u][i])
  PROVE  DumpInv' /\ SleepInv'
<1>1. \A u \in Threads : \A i \in DOMAIN frames'[u] :
        InDump(frames'[u][i]) => i \in DOMAIN frames[u] /\ frames'[u][i] = frames[u][i]
  BY DEF Waits
<1>2. \A k \in DOMAIN Dump : Dump[k] \in DumpSteps
  BY DumpFacts
<1>3. \A t \in Threads : \A i \in DOMAIN frames'[t] : \A k \in DOMAIN Dump :
        frames'[t][i].step = Dump[k] => Len(output') = k - 1
  BY <1>1, <1>2 DEF DumpInv, InDump
<1>4. \A t, u \in Threads : \A i \in DOMAIN frames'[t], j \in DOMAIN frames'[u] :
        InDump(frames'[t][i]) /\ InDump(frames'[u][j]) => t = u /\ i = j
<2> TAKE t, u \in Threads
<2> TAKE i \in DOMAIN frames'[t], j \in DOMAIN frames'[u]
<2> HAVE InDump(frames'[t][i]) /\ InDump(frames'[u][j])
<2>1. i \in DOMAIN frames[t] /\ InDump(frames[t][i])
  BY <1>1
<2>2. j \in DOMAIN frames[u] /\ InDump(frames[u][j])
  BY <1>1
<2> QED
  BY <2>1, <2>2 DEF DumpInv
<1>5. g_entered_thread_id_pointer' = NoThread =>
        /\ output' = << >>
        /\ \A t \in Threads : \A i \in DOMAIN frames'[t] : ~InDump(frames'[t][i])
  BY <1>1 DEF DumpInv
<1>6. DumpInv'
  BY <1>3, <1>4, <1>5 DEF DumpInv, InDump
<1>7. SleepInv'
  BY DEF SleepInv, Waits
<1> QED
  BY <1>6, <1>7

\* The innermost call of a thread goes on to a step outside of the dump.
LEMMA WaitsNext ==
  ASSUME TypeOK, DumpInv, SleepInv, TypeOK', NEW t \in Threads, Handling(t),
         UNCHANGED <<g_entered_thread_id_pointer, output>>,
         NEW frame \in Frame, Waits(t, frame), SetTop(t, frame)
  PROVE  DumpInv' /\ SleepInv'
<1>1. \A u \in Threads : \A i \in DOMAIN frames'[u] :
        \/ i \in DOMAIN frames[u] /\ frames'[u][i] = frames[u][i]
        \/ u = t /\ frames'[u][i] = frame
  BY SetTopFacts
<1>2. \A u \in Threads : \A i \in DOMAIN frames'[u] :
        \/ i \in DOMAIN frames[u] /\ frames'[u][i] = frames[u][i]
        \/ Waits(u, frames'[u][i])
  BY <1>1
<1> QED
  BY <1>2, DumpUnaffected

\* sync_val_compare_and_swap: the one thread that finds nullptr starts the dump.
LEMMA EnterKeepsInv ==
  ASSUME TypeOK, DumpInv, SleepInv, TypeOK', NEW t \in Threads, Enter(t)
  PROVE  DumpInv' /\ SleepInv'
<1>0. Handling(t) /\ Top(t) \in Frame /\ Top(t).step = "enter"
  BY DEF Enter, At, TypeOK, Handling, Top
<1> DEFINE first == [Top(t) EXCEPT !.step = Dump[1]]
           second == [Top(t) EXCEPT !.step = "compare"]
           top == Len(frames[t])
<1>1. CASE g_entered_thread_id_pointer # NoThread
<2>1. SetTop(t, second) /\ UNCHANGED <<g_entered_thread_id_pointer, output>>
  BY <1>1 DEF Enter, OldPointers, Goto
<2>2. second \in Frame
  BY <1>0 DEF Frame, Steps
<2>3. second.step = "compare"
  BY <1>0 DEF Frame
<2>4. Waits(t, second)
  BY <1>1, <2>3, DumpFacts DEF Waits, InDump
<2> HIDE DEF second
<2> QED
  BY <1>0, <2>1, <2>2, <2>4, WaitsNext
<1>2. CASE g_entered_thread_id_pointer = NoThread
<2>1. SetTop(t, first) /\ g_entered_thread_id_pointer' = t /\ output' = output
  BY <1>2 DEF Enter, OldPointers, Goto
<2>2. first \in Frame
  BY <1>0, DumpFacts DEF Frame, Steps
<2>3. first.step = Dump[1] /\ first.reentered = Top(t).reentered
  BY <1>0 DEF Frame
<2> HIDE DEF first
<2>4. /\ top \in DOMAIN frames[t] /\ Top(t) = frames[t][top]
      /\ \A u \in Threads : DOMAIN frames'[u] = DOMAIN frames[u]
      /\ \A u \in Threads : \A i \in DOMAIN frames[u] :
           frames'[u][i] = IF u = t /\ i = top THEN first ELSE frames[u][i]
  BY <1>0, <2>1, <2>2, SetTopFacts
<2>5. output = << >> /\ \A u \in Threads : \A i \in DOMAIN frames[u] : ~InDump(frames[u][i])
  BY <1>2 DEF DumpInv
<2>6. \A u \in Threads : \A i \in DOMAIN frames'[u] :
        InDump(frames'[u][i]) => u = t /\ i = top /\ frames'[u][i].step = Dump[1]
  BY <2>3, <2>4, <2>5
<2>7. Len(output') = 0 /\ DOMAIN output' = {}
  BY <2>1, <2>5
<2>8. \A u \in Threads : \A i \in DOMAIN frames'[u] : \A k \in DOMAIN Dump :
        frames'[u][i].step = Dump[k] => Len(output') = k - 1
  BY <2>6, <2>7, DumpFacts DEF InDump
<2>9. g_entered_thread_id_pointer' # NoThread
  BY <2>1, SignalAssumption
<2>10. DumpInv'
  BY <2>6, <2>7, <2>8, <2>9, DumpFacts DEF DumpInv, InDump
<2>11. \A u \in Threads : \A i \in DOMAIN frames[u] :
         frames[u][i].step # "sleep" /\ ~frames[u][i].reentered
  BY <1>2 DEF SleepInv
<2>12. \A u \in Threads : \A i \in DOMAIN frames'[u] : frames'[u][i].step # "sleep"
  BY <2>3, <2>4, <2>11, DumpFacts
<2>13. SleepInv'
  BY <2>9, <2>12 DEF SleepInv
<2> QED
  BY <2>10, <2>13
<1> QED
  BY <1>1, <1>2

\* The thread that dumps writes the next part.
LEMMA DumpPartKeepsInv ==
  ASSUME TypeOK, DumpInv, SleepInv, TypeOK', NEW t \in Threads, DumpPart(t)
  PROVE  DumpInv' /\ SleepInv'
<1>1. PICK p \in 1 .. 5 :
        /\ Handling(t) /\ Top(t).step = Dump[p]
        /\ output' = Append(output, Dump[p])
        /\ Goto(t, IF p = Len(Dump) THEN "sigaction" ELSE Dump[p + 1])
        /\ g_entered_thread_id_pointer' = g_entered_thread_id_pointer
  BY DumpFacts DEF DumpPart, At
<1> DEFINE next == IF p = 5 THEN "sigaction" ELSE Dump[p + 1]
           frame == [Top(t) EXCEPT !.step = next]
           top == Len(frames[t])
<1>2. Top(t) \in Frame
  BY <1>1 DEF TypeOK, Handling, Top
<1>3. SetTop(t, frame)
  BY <1>1, DumpFacts DEF Goto
<1>4. frame \in Frame /\ frame.step = next /\ frame.reentered = Top(t).reentered
  BY <1>2, DumpFacts DEF Frame, Steps
<1> HIDE DEF frame
<1>5. /\ top \in DOMAIN frames[t] /\ Top(t) = frames[t][top]
      /\ \A u \in Threads : DOMAIN frames'[u] = DOMAIN frames[u]
      /\ \A u \in Threads : \A i \in DOMAIN frames[u] :
           frames'[u][i] = IF u = t /\ i = top THEN frame ELSE frames[u][i]
  BY <1>1, <1>3, <1>4, SetTopFacts
<1>6. InDump(frames[t][top]) /\ Len(output) = p - 1
<2>1. frames[t][top].step = Dump[p] /\ p \in DOMAIN Dump
  BY <1>1, <1>5, DumpFacts
<2>2. Len(output) = p - 1
  BY <1>5, <2>1 DEF DumpInv
<2> QED
  BY <2>1, <2>2, DumpFacts DEF InDump
<1>7. g_entered_thread_id_pointer # NoThread
  BY <1>5, <1>6 DEF DumpInv
<1>8. \A u \in Threads : \A i \in DOMAIN frames'[u] :
        InDump(frames'[u][i]) => u = t /\ i = top /\ frames'[u][i].step = next
  BY <1>4, <1>5, <1>6 DEF DumpInv
<1>9. /\ Len(output') = p
      /\ \A k \in 1 .. p - 1 : output'[k] = output[k]
      /\ output'[p] = Dump[p]
      /\ DOMAIN output = 1 .. p - 1 /\ DOMAIN output' = 1 .. p
<2>1. output \in Seq(DumpSteps) /\ Dump[p] \in DumpSteps
  BY DumpFacts DEF TypeOK
<2>2. output' \in Seq(DumpSteps)
  BY DEF TypeOK
<2>3. DOMAIN output = 1 .. p - 1
  BY <1>6, <2>1, LenProperties
<2>4. Len(output') = p /\ output'[p] = Dump[p]
  BY <1>1, <1>6, <2>1, AppendProperties
<2>5. \A k \in 1 .. p - 1 : output'[k] = output[k]
  BY <1>1, <1>6, <2>1, AppendProperties
<2>6. DOMAIN output' = 1 .. p
  BY <2>2, <2>4, LenProperties
<2> QED
  BY <2>3, <2>4, <2>5, <2>6
<1>10. \A k \in DOMAIN output' : output'[k] = Dump[k]
<2>1. \A k \in 1 .. p : k = p \/ k \in 1 .. p - 1
  OBVIOUS
<2> QED
  BY <1>9, <2>1 DEF DumpInv
<1>11. \A u \in Threads : \A i \in DOMAIN frames'[u] : \A k \in DOMAIN Dump :
         frames'[u][i].step = Dump[k] => Len(output') = k - 1
<2> TAKE u \in Threads
<2> TAKE i \in DOMAIN frames'[u]
<2> TAKE k \in DOMAIN Dump
<2> HAVE frames'[u][i].step = Dump[k]
<2>1. Dump[k] = next /\ k \in 1 .. 5
  BY <1>8, DumpFacts DEF InDump
<2>2. p # 5
  BY <2>1, DumpFacts
<2>3. k = p + 1
  BY <2>1, <2>2, DumpFacts
<2> QED
  BY <1>9, <2>3
<1>12. DumpInv'
  BY <1>1, <1>7, <1>8, <1>9, <1>10, <1>11, DumpFacts DEF DumpInv, InDump
<1>13. next # "sleep" /\ next # "compare"
  BY DumpFacts
<1>14. SleepInv'
  BY <1>1, <1>4, <1>5, <1>7, <1>13 DEF SleepInv
<1> QED
  BY <1>12, <1>14

LEMMA HandlerKeepsInv ==
  ASSUME TypeOK, DumpInv, SleepInv, TypeOK', NEW t \in Threads, Handler(t)
  PROVE  DumpInv' /\ SleepInv'
<1>0. Handling(t)
  BY DEF Handler, Enter, Compare, DumpPart, RestoreDefault, Kill, Return, At
<1> DEFINE top == Len(frames[t])
<1>1. Top(t) \in Frame /\ top \in DOMAIN frames[t] /\ Top(t) = frames[t][top]
  BY <1>0 DEF TypeOK, Handling, Top
<1>2. Top(t).step \in {"compare", "sleep"} \/ Top(t).reentered
        => g_entered_thread_id_pointer # NoThread
  BY <1>1 DEF SleepInv
<1>3. CASE Enter(t)
  BY <1>3, EnterKeepsInv
<1>4. CASE Compare(t)
<2> DEFINE again == [Top(t) EXCEPT !.step = "sigaction", !.reentered = TRUE]
           sleeping == [Top(t) EXCEPT !.step = "sleep"]
<2>1. again \in Frame /\ again.step = "sigaction"
  BY <1>1 DEF Frame, Steps
<2>2. sleeping \in Frame /\ sleeping.step = "sleep"
  BY <1>1 DEF Frame, Steps
<2>3. g_entered_thread_id_pointer # NoThread
  BY <1>2, <1>4 DEF Compare, At
<2>4. Waits(t, again)
  BY <2>1, <2>3, DumpFacts DEF Waits, InDump
<2>5. ~Reenters(t) => Waits(t, sleeping)
  BY <2>2, <2>3, DumpFacts DEF Waits, InDump, Reenters
<2>6. \/ SetTop(t, again)
      \/ SetTop(t, sleeping) /\ ~Reenters(t)
  BY <1>4 DEF Compare, Goto
<2>7. UNCHANGED <<g_entered_thread_id_pointer, output>>
  BY <1>4 DEF Compare
<2> HIDE DEF again, sleeping
<2> QED
  BY <1>0, <2>1, <2>2, <2>4, <2>5, <2>6, <2>7, WaitsNext
<1>5. CASE DumpPart(t)
  BY <1>5, DumpPartKeepsInv
<1>6. CASE RestoreDefault(t)
<2> DEFINE killing == [Top(t) EXCEPT !.step = "kill"]
<2>1. killing \in Frame /\ killing.step = "kill" /\ killing.reentered = Top(t).reentered
  BY <1>1 DEF Frame, Steps
<2>2. Waits(t, killing)
  BY <1>2, <2>1, DumpFacts DEF Waits, InDump
<2>3. SetTop(t, killing) /\ UNCHANGED <<g_entered_thread_id_pointer, output>>
  BY <1>6 DEF RestoreDefault, Goto
<2> HIDE DEF killing
<2> QED
  BY <1>0, <2>1, <2>2, <2>3, WaitsNext
<1>7. CASE Kill(t)
<2> DEFINE step == IF Top(t).reentered THEN "sleep" ELSE "return"
           frame == [Top(t) EXCEPT !.step = step]
<2>1. frame \in Frame /\ frame.step = step /\ frame.reentered = Top(t).reentered
  BY <1>1 DEF Frame, Steps
<2>2. Waits(t, frame)
  BY <1>2, <2>1, DumpFacts DEF Waits, InDump
<2>3. SetTop(t, frame) /\ UNCHANGED <<g_entered_thread_id_pointer, output>>
  BY <1>7 DEF Kill, Goto
<2> HIDE DEF frame
<2> QED
  BY <1>0, <2>1, <2>2, <2>3, WaitsNext
<1>8. CASE Return(t)
<2>1. frames' = [frames EXCEPT ![t] = SubSeq(@, 1, Len(@) - 1)]
  BY <1>8 DEF Return
<2>2. UNCHANGED <<g_entered_thread_id_pointer, output>>
  BY <1>8 DEF Return
<2> QED
  BY <1>0, <2>1, <2>2, PopFacts, DumpUnaffected
<1> QED
  BY <1>3, <1>4, <1>5, <1>6, <1>7, <1>8 DEF Handler

\* Nor does it disturb the dump that a signal begins another call of the handler.
LEMMA ReceiveKeepsInv ==
  ASSUME TypeOK, DumpInv, SleepInv, TypeOK', NEW t \in Threads, NEW s \in Signals,
         Receive(t, s) \/ UNCHANGED frames,
         UNCHANGED <<g_entered_thread_id_pointer, output>>
  PROVE  DumpInv' /\ SleepInv'
<1> DEFINE frame == [signal_number |-> s, step |-> "enter", reentered |-> FALSE]
<1>1. frame \in Frame
  BY DEF Frame, Steps
<1>2. \A u \in Threads : Waits(u, frame)
  BY DumpFacts DEF Waits, InDump
<1>3. CASE UNCHANGED frames
  BY <1>3, DumpUnaffected
<1>4. CASE frames' = [frames EXCEPT ![t] = Append(@, frame)]
<2> HIDE DEF frame
<2>1. \A u \in Threads : \A i \in DOMAIN frames'[u] :
        \/ i \in DOMAIN frames[u] /\ frames'[u][i] = frames[u][i]
        \/ frames'[u][i] = frame
  BY <1>1, <1>4, PushFacts
<2> QED
  BY <1>2, <2>1, DumpUnaffected
<1> QED
  BY <1>3, <1>4 DEF Receive

LEMMA NextKeepsInv == IInv /\ [Next]_vars => IInv'
<1> SUFFICES ASSUME TypeOK, DumpInv, SleepInv, [Next]_vars PROVE IInv'
  BY DEF IInv
<1>0. TypeOK'
  BY NextType
<1>1. CASE Install
  BY <1>0, <1>1, DumpUnaffected DEF Install, IInv
<1>2. ASSUME NEW s \in Signals, Send(s) PROVE IInv'
  BY <1>0, <1>2, DumpUnaffected DEF Send, IInv
<1>3. ASSUME NEW s \in Signals, NEW t \in Threads, Raise(t, s) PROVE IInv'
  BY <1>0, <1>3, ReceiveKeepsInv DEF Raise, IInv
<1>4. ASSUME NEW s \in Signals, NEW t \in Threads, Deliver(t, s) PROVE IInv'
  BY <1>0, <1>4, ReceiveKeepsInv DEF Deliver, IInv
<1>5. ASSUME NEW t \in Threads, Handler(t) PROVE IInv'
  BY <1>0, <1>5, HandlerKeepsInv DEF IInv
<1>6. CASE UNCHANGED vars
  BY <1>0, <1>6, DumpUnaffected DEF vars, IInv
<1> QED
  BY <1>1, <1>2, <1>3, <1>4, <1>5, <1>6 DEF Next

LEMMA InitInv == Init => IInv
<1> SUFFICES ASSUME Init PROVE IInv
  OBVIOUS
<1>1. output = << >> /\ \A t \in Threads : frames[t] = << >>
  BY DEF Init
<1>2. Len(output) = 0 /\ DOMAIN output = {} /\ \A t \in Threads : DOMAIN frames[t] = {}
  BY <1>1
<1>3. DumpInv
  BY <1>1, <1>2, DumpFacts DEF DumpInv
<1>4. SleepInv
  BY <1>2 DEF SleepInv
<1> QED
  BY <1>3, <1>4, InitType DEF IInv

----------------------------------------------------------------------------
(* Theorems *)

\* The first thread dumps, once and without interruption by another dump, however
\* many threads enter FailureSignalHandler and however often.
THEOREM DumpsOnce == Spec => []OneDump
<1>1. IInv => OneDump
<2> SUFFICES ASSUME IInv PROVE OneDump
  OBVIOUS
<2> DEFINE len == Len(output)
<2>1. output \in Seq(DumpSteps) /\ len \in Nat /\ len <= 5 /\ DOMAIN output = 1 .. len
  BY DumpFacts DEF IInv, TypeOK, DumpInv
<2>2. /\ SubSeq(Dump, 1, len) \in Seq(DumpSteps)
      /\ Len(SubSeq(Dump, 1, len)) = len
      /\ \A k \in 1 .. len : SubSeq(Dump, 1, len)[k] = Dump[k]
  BY <2>1, DumpFacts
<2>3. \A k \in 1 .. len : output[k] = SubSeq(Dump, 1, len)[k]
  BY <2>1, <2>2 DEF IInv, DumpInv
<2> QED
  BY <2>1, <2>2, <2>3, SeqEqual DEF OneDump
<1> QED
  BY <1>1, InitInv, NextKeepsInv, PTL DEF Spec

\* Threads that wait in the handler wait for one that is not asleep, unless a thread has
\* reentered it.
THEOREM SleepsOnlyAfterReentry == Spec => []StuckOnlyByReentry
<1>1. IInv => StuckOnlyByReentry
<2> SUFFICES ASSUME IInv, Stuck PROVE Reentered
  BY DEF StuckOnlyByReentry
<2>1. \A t \in Threads : /\ Len(frames[t]) \in DOMAIN frames[t]
                        /\ frames[t][Len(frames[t])].step = "sleep"
  BY DEF IInv, TypeOK, Stuck, Handling, Top
<2>2. g_entered_thread_id_pointer # NoThread
  BY <2>1, SignalAssumption DEF IInv, SleepInv
<2>3. PICK t \in Threads : t = g_entered_thread_id_pointer
  BY <2>2 DEF IInv, TypeOK
<2>4. frames[t][Len(frames[t])].reentered
  BY <2>1, <2>3 DEF IInv, SleepInv
<2> QED
  BY <2>1, <2>4 DEF Reentered
<1> QED
  BY <1>1, InitInv, NextKeepsInv, PTL DEF Spec

-----------------------------------------------------------------------------
(* The dump is complete when the process ends *)

\* While the thread that came first is not done with its dump and has not been
\* interrupted in it, its innermost call dumps, nobody is about to end the process and
\* each handler that has been installed still is.
NotYetDumped == ~interrupted /\ output # Dump

KillInv ==
  NotYetDumped =>
    /\ \A t \in Threads : \A i \in DOMAIN frames[t] :
         frames[t][i].step \notin {"sigaction", "kill", "return"}
    /\ \A i \in 1 .. installed : disposition[kFailureSignals[i]] = "handler"
    /\ \A t \in Threads : g_entered_thread_id_pointer = t => Handling(t) /\ InDump(Top(t))

LEMMA FivePartsAreAll ==
  ASSUME NEW out \in Seq(DumpSteps), Len(out) = 5, \A k \in DOMAIN out : out[k] = Dump[k]
  PROVE  out = Dump
<1>1. DOMAIN out = 1 .. 5 /\ Dump \in Seq(DumpSteps) /\ Len(Dump) = 5
  BY DumpFacts
<1> QED
  BY <1>1, SeqEqual

\* When the dump is complete, no call dumps.
LEMMA CompleteDump ==
  ASSUME TypeOK, DumpInv, output = Dump,
         NEW t \in Threads, NEW i \in DOMAIN frames[t]
  PROVE  ~InDump(frames[t][i])
<1>1. \A k \in DOMAIN Dump : frames[t][i].step = Dump[k] => Len(output) = k - 1
  BY DEF DumpInv
<1>2. \A k \in 1 .. 5 : frames[t][i].step # Dump[k]
  BY <1>1, DumpFacts
<1> QED
  BY <1>2, DumpFacts DEF InDump, DumpSteps

\* The first two conjuncts of KillInv, and the third, survive a change of the innermost
\* call that does not lead to the end.
LEMMA TopKeepsKillInv ==
  ASSUME TypeOK, KillInv, NotYetDumped, NEW t \in Threads, Handling(t), NEW frame \in Frame,
         SetTop(t, frame), frame.step \notin {"sigaction", "kill", "return"},
         UNCHANGED <<disposition, installed>>,
         \A u \in Threads : g_entered_thread_id_pointer' = u =>
           IF u = t THEN InDump(frame) ELSE g_entered_thread_id_pointer = u
  PROVE  KillInv'
<1>1. /\ Len(frames[t]) \in DOMAIN frames[t]
      /\ \A u \in Threads : DOMAIN frames'[u] = DOMAIN frames[u]
      /\ \A u \in Threads : \A i \in DOMAIN frames[u] :
           frames'[u][i] = IF u = t /\ i = Len(frames[t]) THEN frame ELSE frames[u][i]
      /\ frames' \in [Threads -> Seq(Frame)]
  BY SetTopFacts
<1>2. /\ \A u \in Threads : \A i \in DOMAIN frames[u] :
           frames[u][i].step \notin {"sigaction", "kill", "return"}
      /\ \A i \in 1 .. installed : disposition[kFailureSignals[i]] = "handler"
      /\ \A u \in Threads : g_entered_thread_id_pointer = u => Handling(u) /\ InDump(Top(u))
  BY DEF KillInv
<1>3. \A u \in Threads : \A i \in DOMAIN frames'[u] :
        frames'[u][i].step \notin {"sigaction", "kill", "return"}
  BY <1>1, <1>2
<1>4. ASSUME NEW u \in Threads
      PROVE  /\ Len(frames'[u]) = Len(frames[u]) /\ (Handling(u)' <=> Handling(u))
             /\ Handling(u) => Top(u)' = IF u = t THEN frame ELSE Top(u)
  <2>1. frames[u] \in Seq(Frame) /\ frames'[u] \in Seq(Frame) /\ DOMAIN frames'[u] = DOMAIN frames[u]
    BY <1>1 DEF TypeOK
  <2>2. Len(frames'[u]) = Len(frames[u])
    BY <2>1
  <2>3. /\ frames[u] # << >> <=> Len(frames[u]) \in DOMAIN frames[u]
        /\ frames'[u] # << >> <=> Len(frames'[u]) \in DOMAIN frames'[u]
    BY <2>1
  <2>4. Handling(u)' <=> Handling(u)
    BY <2>1, <2>2, <2>3 DEF Handling
  <2>5. Handling(u) => Len(frames[u]) \in DOMAIN frames[u]
    BY <2>3 DEF Handling
  <2> QED
    BY <1>1, <2>2, <2>4, <2>5 DEF Top
<1>5. ASSUME NEW u \in Threads, g_entered_thread_id_pointer' = u
      PROVE  Handling(u)' /\ InDump(Top(u)')
  BY <1>2, <1>4, <1>5
<1>6. \A u \in Threads : g_entered_thread_id_pointer' = u => Handling(u)' /\ InDump(Top(u))'
  BY <1>5 DEF InDump
<1> QED
  BY <1>2, <1>3, <1>6 DEF KillInv

LEMMA HandlerKeepsKillInv ==
  ASSUME IInv, IInv', KillInv, NEW t \in Threads, Handler(t), NotYetDumped'
  PROVE  NotYetDumped /\ KillInv'
<1> USE DEF IInv
<1>0. Handling(t) /\ Top(t) \in Frame /\ Len(frames[t]) \in DOMAIN frames[t]
      /\ Top(t) = frames[t][Len(frames[t])]
<2>1. Handling(t)
  BY DEF Handler, Enter, Compare, DumpPart, RestoreDefault, Kill, Return, At
<2> QED
  BY <2>1 DEF TypeOK, Handling, Top
<1>1. NotYetDumped
<2>1. interrupted' = interrupted
  BY DEF Handler, Enter, Compare, DumpPart, RestoreDefault, Kill, Return
<2>2. ASSUME output = Dump PROVE output' = output
  <3>1. ~InDump(Top(t))
    BY <1>0, <2>2, CompleteDump
  <3>2. ~DumpPart(t)
    BY <3>1, DumpFacts DEF DumpPart, At, InDump
  <3> QED
    BY <3>2 DEF Handler, Enter, Compare, RestoreDefault, Kill, Return
<2> QED
  BY <2>1, <2>2 DEF NotYetDumped
<1>2. Top(t).step \notin {"sigaction", "kill", "return"}
  BY <1>0, <1>1 DEF KillInv
<1>3. \A u \in Threads : g_entered_thread_id_pointer = u => InDump(Top(u))
  BY <1>1 DEF KillInv
<1>4. CASE Enter(t)
<2>0. Top(t).step = "enter" /\ ~InDump(Top(t))
  BY <1>4, DumpFacts DEF Enter, At, InDump
<2> DEFINE first == [Top(t) EXCEPT !.step = Dump[1]]
           second == [Top(t) EXCEPT !.step = "compare"]
<2>1. /\ first \in Frame /\ first.step = Dump[1]
      /\ second \in Frame /\ second.step = "compare"
  BY <1>0, DumpFacts DEF Frame, Steps
<2>2. \/ SetTop(t, first) /\ g_entered_thread_id_pointer' = t
      \/ SetTop(t, second) /\ UNCHANGED g_entered_thread_id_pointer
  BY <1>4 DEF Enter, Goto
<2>3. UNCHANGED <<disposition, installed>>
  BY <1>4 DEF Enter
<2> HIDE DEF first, second
<2>4. CASE SetTop(t, first) /\ g_entered_thread_id_pointer' = t
  <3>1. InDump(first) /\ first.step \notin {"sigaction", "kill", "return"}
    BY <2>1, DumpFacts DEF InDump
  <3> QED
    BY <1>0, <1>1, <2>1, <2>3, <2>4, <3>1, TopKeepsKillInv
<2>5. CASE SetTop(t, second) /\ UNCHANGED g_entered_thread_id_pointer
  <3>1. g_entered_thread_id_pointer # t
    BY <1>3, <2>0
  <3> QED
    BY <1>0, <1>1, <2>1, <2>3, <2>5, <3>1, TopKeepsKillInv
<2> QED
  BY <2>2, <2>4, <2>5
<1>5. CASE Compare(t)
<2>0. Top(t).step = "compare" /\ ~InDump(Top(t))
  BY <1>5, DumpFacts DEF Compare, At, InDump
<2>1. g_entered_thread_id_pointer # t
  BY <1>3, <2>0
<2> DEFINE asleep == [Top(t) EXCEPT !.step = "sleep"]
<2>2. asleep \in Frame /\ asleep.step = "sleep"
  BY <1>0 DEF Frame, Steps
<2>3. SetTop(t, asleep) /\ UNCHANGED <<disposition, installed, g_entered_thread_id_pointer>>
  BY <1>5, <2>1 DEF Compare, Reenters, Goto
<2> HIDE DEF asleep
<2> QED
  BY <1>0, <1>1, <2>1, <2>2, <2>3, TopKeepsKillInv
<1>6. CASE DumpPart(t)
<2>1. PICK i \in 1 .. 5 :
        /\ At(t, Dump[i])
        /\ output' = Append(output, Dump[i])
        /\ Goto(t, IF i = Len(Dump) THEN "sigaction" ELSE Dump[i + 1])
        /\ UNCHANGED <<disposition, installed, g_entered_thread_id_pointer>>
  BY <1>6, DumpFacts DEF DumpPart
<2>2. Len(output) = i - 1
  BY <1>0, <2>1, DumpFacts DEF At, DumpInv
<2>3. Len(output') = i
  BY <2>1, <2>2, DumpFacts DEF TypeOK
<2>4. i # 5
  <3>1. output' \in Seq(DumpSteps) /\ \A k \in DOMAIN output' : output'[k] = Dump[k]
    BY DEF TypeOK, DumpInv
  <3> QED
    BY <2>3, <3>1, FivePartsAreAll DEF NotYetDumped
<2>5. Dump[i + 1] \in DumpSteps
  BY <2>4, DumpFacts
<2> DEFINE next == [Top(t) EXCEPT !.step = Dump[i + 1]]
<2>6. next \in Frame /\ next.step = Dump[i + 1]
  BY <1>0, <2>5 DEF Frame, Steps
<2>7. SetTop(t, next)
  BY <2>1, <2>4, DumpFacts DEF Goto
<2> HIDE DEF next
<2>8. InDump(next) /\ next.step \notin {"sigaction", "kill", "return"}
  BY <2>5, <2>6, DumpFacts DEF InDump
<2> QED
  BY <1>0, <1>1, <2>1, <2>6, <2>7, <2>8, TopKeepsKillInv
<1>7. CASE RestoreDefault(t) \/ Kill(t) \/ Return(t)
  BY <1>2, <1>7 DEF RestoreDefault, Kill, Return, At
<1> QED
  BY <1>1, <1>4, <1>5, <1>6, <1>7 DEF Handler

\* A signal begins a call of the handler, or ends the process.
LEMMA ReceiveKeepsKillInv ==
  ASSUME IInv, KillInv, NotYetDumped', NEW t \in Threads, NEW s \in Signals,
         \/ Receive(t, s) /\ (disposition[s] = "handler" => Hits(t))
         \/ s \in Blocked(t) /\ Handling(t) /\ InDump(Top(t)) /\ Hits(t)
             /\ killedBy' # NoSignal /\ UNCHANGED frames,
         interrupted => interrupted',
         UNCHANGED <<disposition, installed, g_entered_thread_id_pointer, output>>
  PROVE  /\ KillInv'
         /\ killedBy' # killedBy /\ installed = Len(kFailureSignals) =>
              g_entered_thread_id_pointer = NoThread
<1> USE DEF IInv
<1>0. NotYetDumped /\ ~interrupted'
  BY DEF NotYetDumped
<1>1. /\ \A u \in Threads : \A i \in DOMAIN frames[u] :
           frames[u][i].step \notin {"sigaction", "kill", "return"}
      /\ \A i \in 1 .. installed : disposition[kFailureSignals[i]] = "handler"
      /\ \A u \in Threads : g_entered_thread_id_pointer = u => Handling(u) /\ InDump(Top(u))
  BY <1>0 DEF KillInv
<1>2. CASE disposition[s] = "handler" /\ Receive(t, s) /\ Hits(t)
<2> DEFINE frame == [signal_number |-> s, step |-> "enter", reentered |-> FALSE]
<2>1. frame \in Frame /\ frame.step = "enter"
  BY DEF Frame, Steps
<2>2. frames' = [frames EXCEPT ![t] = Append(@, frame)] /\ killedBy' = killedBy
  BY <1>2 DEF Receive
<2> HIDE DEF frame
<2>3. /\ \A u \in Threads : \A i \in DOMAIN frames[u] : frames'[u][i] = frames[u][i]
      /\ \A u \in Threads : \A i \in DOMAIN frames'[u] \ DOMAIN frames[u] :
           frames'[u][i] = frame
  BY <2>1, <2>2, PushFacts
<2>4. \A u \in Threads : \A i \in DOMAIN frames'[u] :
        frames'[u][i].step \notin {"sigaction", "kill", "return"}
  BY <1>1, <2>1, <2>3
\* It cannot be the thread that came first.
<2>5. g_entered_thread_id_pointer # t
  BY <1>0, <1>1, <1>2 DEF Hits
<2>6. ASSUME NEW u \in Threads, g_entered_thread_id_pointer' = u
      PROVE  Handling(u)' /\ InDump(Top(u))'
  <3>1. g_entered_thread_id_pointer = u /\ u # t
    BY <2>5, <2>6
  <3>2. frames'[u] = frames[u]
    BY <2>2, <3>1 DEF TypeOK
  <3>3. Handling(u)' = Handling(u) /\ Top(u)' = Top(u)
    BY <3>2 DEF Handling, Top
  <3> QED
    BY <1>1, <3>1, <3>3 DEF InDump
<2> QED
  BY <1>1, <2>2, <2>4, <2>6 DEF KillInv
<1>3. CASE disposition[s] = "default" /\ Receive(t, s)
<2>1. UNCHANGED frames
  BY <1>3 DEF Receive
<2>2. ASSUME installed = Len(kFailureSignals) PROVE FALSE
  <3>1. PICK i \in DOMAIN kFailureSignals : s = kFailureSignals[i]
    BY DEF Signals
  <3>2. i \in 1 .. installed
    BY <2>2, <3>1, SignalAssumption
  <3> QED
    BY <1>1, <1>3, <3>1, <3>2
<2>3. KillInv'
  BY <1>1, <2>1 DEF KillInv, Handling, Top, InDump
<2> QED
  BY <2>2, <2>3
<1>4. CASE Handling(t) /\ InDump(Top(t)) /\ Hits(t) /\ UNCHANGED frames
\* Only the thread that came first dumps, and it is hit now.
<2>1. g_entered_thread_id_pointer # t
  BY <1>0, <1>4 DEF Hits
<2>2. Len(frames[t]) \in DOMAIN frames[t] /\ InDump(frames[t][Len(frames[t])])
  BY <1>4 DEF TypeOK, Handling, Top
<2>3. g_entered_thread_id_pointer # NoThread
  BY <2>2 DEF DumpInv
<2>4. PICK u \in Threads : g_entered_thread_id_pointer = u
  BY <2>3 DEF TypeOK
<2>5. Handling(u) /\ InDump(Top(u))
  BY <1>1, <2>4
<2>6. Len(frames[u]) \in DOMAIN frames[u] /\ InDump(frames[u][Len(frames[u])])
  BY <2>5 DEF TypeOK, Handling, Top
<2> QED
  BY <2>1, <2>2, <2>4, <2>6 DEF DumpInv
<1>5. disposition[s] \in {"handler", "default"}
  BY DEF TypeOK
<1> QED
  BY <1>2, <1>3, <1>4, <1>5

LEMMA InstallKeepsKillInv ==
  ASSUME IInv, KillInv, Install
  PROVE  KillInv'
<1> USE DEF IInv
<1>1. installed + 1 \in 1 .. Len(kFailureSignals) /\ installed \in Nat
  BY SignalAssumption DEF Install, TypeOK
<1>2. \A s \in Signals : disposition'[s] = "handler" \/ disposition'[s] = disposition[s]
  BY DEF Install, TypeOK
<1>3. kFailureSignals[installed + 1] \in Signals
  BY <1>1, SignalAssumption
<1>4. disposition'[kFailureSignals[installed + 1]] = "handler"
  BY <1>3 DEF Install, TypeOK
<1>5. \A i \in 1 .. installed' : i \in 1 .. installed \/ i = installed + 1
  BY <1>1 DEF Install
<1>6. \A i \in 1 .. installed : kFailureSignals[i] \in Signals
  BY <1>1, SignalAssumption
<1>7. ASSUME NotYetDumped, NEW i \in 1 .. installed'
      PROVE  disposition'[kFailureSignals[i]] = "handler"
  BY <1>2, <1>4, <1>5, <1>6, <1>7 DEF KillInv
<1> QED
  BY <1>7 DEF Install, KillInv, NotYetDumped, Handling, Top, InDump

LEMMA NextKeepsKillInv ==
  IInv /\ KillInv /\ DumpedBeforeKilled /\ [Next]_vars => KillInv' /\ DumpedBeforeKilled'
<1> SUFFICES ASSUME IInv, KillInv, DumpedBeforeKilled, [Next]_vars
             PROVE  KillInv' /\ DumpedBeforeKilled'
  OBVIOUS
<1>0. IInv'
  BY NextKeepsInv
<1>1. CASE Install
  BY <1>1, InstallKeepsKillInv DEF Install, DumpedBeforeKilled
<1>2. ASSUME NEW s \in Signals, Send(s) PROVE KillInv' /\ DumpedBeforeKilled'
  BY <1>2 DEF Send, KillInv, NotYetDumped, DumpedBeforeKilled, Handling, Top, InDump
<1>3. ASSUME NEW s \in Signals, NEW t \in Threads, Raise(t, s)
      PROVE  KillInv' /\ DumpedBeforeKilled'
<2>1. /\ UNCHANGED <<disposition, installed, g_entered_thread_id_pointer, output>>
      /\ killedBy = NoSignal /\ Hits(t) /\ (interrupted => interrupted')
      /\ \/ s \notin Blocked(t) /\ Receive(t, s)
         \/ s \in Blocked(t) /\ killedBy' = s /\ UNCHANGED frames
  BY <1>3 DEF Raise, Hits
<2>2. s \in Blocked(t) => Handling(t) /\ InDump(Top(t))
  BY <1>3 DEF Raise, Blocked, Handling, InDump
<2>3. s # NoSignal
  BY SignalAssumption
<2>4. ASSUME NotYetDumped'
      PROVE  /\ KillInv'
             /\ killedBy' # killedBy /\ installed = Len(kFailureSignals) =>
                  g_entered_thread_id_pointer = NoThread
  BY <2>1, <2>2, <2>3, <2>4, ReceiveKeepsKillInv
<2>5. KillInv'
  BY <2>4 DEF KillInv
<2> QED
  BY <2>1, <2>4, <2>5 DEF DumpedBeforeKilled, NotYetDumped
<1>4. ASSUME NEW s \in Signals, NEW t \in Threads, Deliver(t, s)
      PROVE  KillInv' /\ DumpedBeforeKilled'
<2>1. /\ UNCHANGED <<disposition, installed, g_entered_thread_id_pointer, output>>
      /\ killedBy = NoSignal /\ Receive(t, s)
      /\ disposition[s] = "handler" => Hits(t)
      /\ interrupted => interrupted'
  BY <1>4 DEF Deliver, Hits
<2>2. ASSUME NotYetDumped'
      PROVE  /\ KillInv'
             /\ killedBy' # killedBy /\ installed = Len(kFailureSignals) =>
                  g_entered_thread_id_pointer = NoThread
  BY <2>1, <2>2, ReceiveKeepsKillInv
<2>3. KillInv'
  BY <2>2 DEF KillInv
<2> QED
  BY <2>1, <2>2, <2>3 DEF DumpedBeforeKilled, NotYetDumped
<1>5. ASSUME NEW t \in Threads, Handler(t) PROVE KillInv' /\ DumpedBeforeKilled'
<2>1. killedBy' = NoSignal
  BY <1>5 DEF Handler, Enter, Compare, DumpPart, RestoreDefault, Kill, Return, At
<2>2. NotYetDumped' => KillInv'
  BY <1>0, <1>5, HandlerKeepsKillInv
<2>3. KillInv'
  BY <2>2 DEF KillInv
<2> QED
  BY <2>1, <2>3 DEF DumpedBeforeKilled
<1>6. CASE UNCHANGED vars
  BY <1>6 DEF vars, KillInv, NotYetDumped, DumpedBeforeKilled, Handling, Top, InDump
<1> QED
  BY <1>1, <1>2, <1>3, <1>4, <1>5, <1>6 DEF Next

LEMMA InitKillInv == Init => KillInv /\ DumpedBeforeKilled
<1> SUFFICES ASSUME Init PROVE KillInv /\ DumpedBeforeKilled
  OBVIOUS
<1>1. /\ \A t \in Threads : DOMAIN frames[t] = {} /\ g_entered_thread_id_pointer # t
      /\ 1 .. installed = {} /\ killedBy = NoSignal
  BY SignalAssumption DEF Init
<1> QED
  BY <1>1 DEF KillInv, DumpedBeforeKilled

\* The handler that has been installed for all failure signals does not let the process
\* end before the thread that came first has dumped everything and flushed the log
\* files, unless that thread itself faults or is hit in the handler.
THEOREM DumpsBeforeTheEnd == Spec => []DumpedBeforeKilled
BY InitInv, NextKeepsInv, InitKillInv, NextKeepsKillInv, PTL DEF Spec

=============================================================================
