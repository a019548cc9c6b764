----------------------------- MODULE StackTrace -----------------------------
(***************************************************************************)
(* GetStackTrace(result, max_depth, skip_count): one definition for each   *)
(* of the implementations that a build may select                          *)
(* (src/stacktrace_*-inl.h).                                               *)
(*                                                                         *)
(* ips is the truth: the addresses of the calls that are active, that in   *)
(* GetStackTrace itself first.  Two of the implementations follow the      *)
(* frame pointers through the words of the stack, which may be damaged;    *)
(* the others ask a library.                                               *)
(***************************************************************************)
EXTENDS Integers, Sequences, FiniteSets, FiniteSetsExt

CONSTANTS
  MaxFrame,       \* 100000, the size from which on a frame is taken for bogus
  WordSize,       \* sizeof(void *)
  kStackLength,   \* 64, the most that backtrace() and CaptureStackBackTrace are asked for
  Garbage         \* what the top frame of a PowerPC has as its return address

ASSUME StackTraceAssumption ==
  /\ WordSize \in Nat \ {0}
  /\ MaxFrame \in Nat
  /\ WordSize <= MaxFrame
  /\ kStackLength \in Nat

Implementations == {"x86", "powerpc", "unwind", "libunwind", "generic", "windows"}

nullptr == 0

----------------------------------------------------------------------------
(* The stack in memory *)

\* A frame has two words: the address of the next frame, which is its caller's,
\* and a return address.  Addr(k) is where the k-th frame lies.
Addr(k) == k * WordSize

\* The frames of the calls ips.  On x86 a frame has the return address of its
\* own call, and the outermost one has none; on PowerPC it has that of the
\* call it has made.
Memory(implementation, ips) ==
  [a \in {Addr(k) : k \in DOMAIN ips} |->
    LET k == a \div WordSize IN
    [next |-> IF k = Len(ips) THEN nullptr ELSE Addr(k + 1),
     ret  |-> IF implementation = "x86"
                THEN IF k = Len(ips) THEN nullptr ELSE ips[k + 1]
                ELSE IF k = 1 THEN Garbage ELSE ips[k]]]

\* The link of the frame at address a has been overwritten.
Damaged(memory, a, link) == [memory EXCEPT ![a].next = link]

\* NextStackFrame<true>
NextStackFrame(memory, old_sp) ==
  LET new_sp == memory[old_sp].next
  IN  IF \/ new_sp <= old_sp
         \/ new_sp - old_sp > MaxFrame
         \/ new_sp % WordSize # 0
        THEN nullptr ELSE new_sp

----------------------------------------------------------------------------
(* The implementations.  A loop has the state [result, skip_count, at], where  *)
(* at is its place in the stack; Iterate is the state in which it ends.        *)

\* (The set makes TLC evaluate each state only once.)
Iterate(Step(_), start, limit) ==
  LET state[k \in 0 .. limit] ==
        IF k = 0 THEN start ELSE CHOOSE s \in {Step(x) : x \in {state[k - 1]}} : TRUE
  IN  state[limit]

Loop(at, skip_count) == [result |-> <<>>, skip_count |-> skip_count, at |-> at]

\* Skip the frame, or add what it says to the result.
Visit(s, address) ==
  IF s.skip_count > 0 THEN [s EXCEPT !.skip_count = @ - 1]
                      ELSE [s EXCEPT !.result = Append(@, address)]

\* stacktrace_x86-inl.h and stacktrace_powerpc-inl.h
GetStackTrace_FramePointers(implementation, memory, max_depth, skip_count) ==
  LET Step(s) ==
        IF \/ s.at = nullptr \/ Len(s.result) >= max_depth
           \/ implementation = "x86" /\ memory[s.at].ret = nullptr
          THEN s
          ELSE [Visit(s, memory[s.at].ret) EXCEPT !.at = NextStackFrame(memory, s.at)]
      top == IF implementation = "x86" THEN 0 ELSE 1
  IN  Iterate(Step, Loop(Addr(1), skip_count + top), Cardinality(DOMAIN memory)).result

\* Mutant: the frame of GetStackTrace is not skipped.
GetStackTrace_unwind_OwnFrame(ready_to_run, ips, max_depth, skip_count) ==
  LET Step(s) == IF s.at > Len(ips) \/ (s.at > 1 /\ Len(s.result) = max_depth) THEN s
                 ELSE [Visit(s, ips[s.at]) EXCEPT !.at = @ + 1]
  IN  IF ready_to_run THEN Iterate(Step, Loop(1, skip_count), Len(ips)).result ELSE <<>>

\* stacktrace_unwind-inl.h: the library calls GetOneFrame for each frame, until
\* it returns _URC_END_OF_STACK, which it does if the count *is* max_depth.  There
\* are no frames before the static initializer of the file has run.
GetStackTrace_unwind(ready_to_run, ips, max_depth, skip_count) ==
  LET Step(s) == IF s.at > Len(ips) \/ (s.at > 1 /\ Len(s.result) = max_depth) THEN s
                 ELSE [Visit(s, ips[s.at]) EXCEPT !.at = @ + 1]
  IN  IF ready_to_run THEN Iterate(Step, Loop(1, skip_count + 1), Len(ips)).result ELSE <<>>

\* stacktrace_libunwind-inl.h; unw_step finds no more frames after the last one.
GetStackTrace_libunwind(ips, max_depth, skip_count) ==
  LET Step(s) == IF s.at > Len(ips) \/ Len(s.result) >= max_depth THEN s
                 ELSE [Visit(s, ips[s.at]) EXCEPT !.at = @ + 1]
  IN  Iterate(Step, Loop(1, skip_count + 1), Len(ips)).result

\* stacktrace_generic-inl.h
GetStackTrace_generic(ips, max_depth, skip_count) ==
  LET size == Min({Len(ips), kStackLength})
      result_count == Min({Max({size - (skip_count + 1), 0}), max_depth})
  IN  [i \in 1 .. result_count |-> ips[i + skip_count + 1]]

\* stacktrace_windows-inl.h
GetStackTrace_windows(ips, max_depth, skip_count) ==
  LET depth == Min({max_depth, kStackLength})
      first == skip_count + 2
  IN  SubSeq(ips, first, Min({Len(ips), first + depth - 1}))

\* memory is what the stack holds, as far as the implementation looks at it.
GetStackTrace(implementation, ready_to_run, ips, memory, max_depth, skip_count) ==
  CASE implementation \in {"x86", "powerpc"} ->
         GetStackTrace_FramePointers(implementation, memory, max_depth, skip_count)
    [] implementation = "unwind"    ->
         GetStackTrace_unwind(ready_to_run, ips, max_depth, skip_count)
    [] implementation = "libunwind" -> GetStackTrace_libunwind(ips, max_depth, skip_count)
    [] implementation = "generic"   -> GetStackTrace_generic(ips, max_depth, skip_count)
    [] implementation = "windows"   -> GetStackTrace_windows(ips, max_depth, skip_count)
============================================================================
