------------------------------- MODULE Stderr -------------------------------
(***************************************************************************)
(* TruncateStdoutStderr (src/logging.cc) on the file that is stderr, while *)
(* the threads of RawLog write to it.  The end of the file is copied to    *)
(* its front, block by block, and then the rest is cut off; nothing locks  *)
(* the file.  A step is a system call.                                     *)
(***************************************************************************)
EXTENDS RawLog, SequencesExt

CONSTANT kCopyBlockSize   \* 8 << 10

ASSUME StderrAssumption == kCopyBlockSize \in Nat \ {0}

VARIABLES
  at,             \* where TruncateLogFile is
  size,           \* statbuf.st_size
  copybuf,        \* what the last pread has returned
  read_offset,
  write_offset,
  truncations,    \* calls so far
  \* What the properties remember of the past:
  failed,         \* has a system call of a truncation failed?
  given_up        \* characters that a truncation may lose

locals == <<size, copybuf, read_offset, write_offset>>
truncVars == <<at, locals, truncations, failed, given_up>>

vars == <<rawVars, truncVars>>

Init ==
  /\ RawInit
  /\ at = "idle"
  /\ size = 0
  /\ copybuf = <<>>
  /\ read_offset = 0
  /\ write_offset = 0
  /\ truncations = 0
  /\ failed = FALSE
  /\ given_up = {}

At(from, to) == at = from /\ at' = to

\* A truncation leaves alone what belongs to the threads.
Aside == UNCHANGED <<setup, thread, failure, reason, exited, bounds>>

\* It changes the file, not the offset of the file descriptor 2.
InFile == Aside /\ UNCHANGED <<offset, written>>

----------------------------------------------------------------------------
(* TruncateLogFile(path, setup.limit, setup.keep) *)

\* open() of /proc/self/fd/2, which does not share the offset.
Open ==
  /\ At("idle", "fstat")
  /\ truncations < setup.MaxTruncations
  /\ truncations' = truncations + 1
  /\ Aside /\ UNCHANGED <<output, locals, failed, given_up>>

\* It fails; a file too big to be opened is truncated as a whole.
OpenFails ==
  /\ setup.failures
  /\ At("idle", "idle")
  /\ truncations < setup.MaxTruncations
  /\ truncations' = truncations + 1
  /\ failed' = TRUE
  /\ file' \in {file, <<>>}
  /\ InFile /\ UNCHANGED <<locals, given_up>>

\* Mutant: without the second test.
Fstat_LimitOnly ==
  /\ at = "fstat"
  /\ size' = Len(file)
  /\ IF Len(file) <= setup.limit
       THEN at' = "idle" /\ UNCHANGED given_up
       ELSE /\ at' = "log"
            /\ given_up' = given_up \cup Range(SubSeq(file, 1, Len(file) - setup.keep))
  /\ Aside /\ UNCHANGED <<output, copybuf, read_offset, write_offset, truncations, failed>>

\* fstat() and the tests of the size.  What is given up are the characters before
\* the last keep ones.
Fstat ==
  /\ at = "fstat"
  /\ size' = Len(file)
  /\ IF Len(file) <= setup.limit \/ Len(file) <= setup.keep
       THEN at' = "idle" /\ UNCHANGED given_up
       ELSE /\ at' = "log"
            /\ given_up' = given_up \cup Range(SubSeq(file, 1, Len(file) - setup.keep))
  /\ Aside /\ UNCHANGED <<output, copybuf, read_offset, write_offset, truncations, failed>>

FstatFails ==
  /\ setup.failures
  /\ At("fstat", "idle")
  /\ Aside /\ UNCHANGED <<output, locals, truncations, failed, given_up>>

\* LOG(INFO) << "Truncating ...".
LogTruncating ==
  /\ At("log", "read")
  /\ IF setup.logtostderr THEN Put(Text("truncating", Len(written) + 1, 1)) ELSE UNCHANGED output
  /\ read_offset' = size - setup.keep
  /\ write_offset' = 0
  /\ Aside /\ UNCHANGED <<size, copybuf, truncations, failed, given_up>>

\* pread() of a block, of what is there of it, or of nothing.
Pread ==
  /\ at = "read"
  /\ copybuf' = SubSeq(file, read_offset + 1, Min({Len(file), read_offset + kCopyBlockSize}))
  /\ at' = IF copybuf' = <<>> THEN "truncate" ELSE "write"
  /\ Aside /\ UNCHANGED <<output, size, read_offset, write_offset, truncations, failed, given_up>>

\* pwrite() of the block.
Pwrite ==
  /\ At("write", "read")
  /\ file' = Overwritten(file, write_offset, copybuf)
  /\ write_offset' = write_offset + Len(copybuf)
  /\ read_offset' = read_offset + Len(copybuf)
  /\ InFile /\ UNCHANGED <<size, copybuf, truncations, failed, given_up>>

\* Only a part is written, which does not stop the copying, ...
PwriteShort ==
  /\ setup.failures
  /\ At("write", "read")
  /\ \E bytesout \in 0 .. Len(copybuf) - 1 :
       /\ file' = Overwritten(file, write_offset, SubSeq(copybuf, 1, bytesout))
       /\ write_offset' = write_offset + bytesout
  /\ read_offset' = read_offset + Len(copybuf)
  /\ failed' = TRUE
  /\ InFile /\ UNCHANGED <<size, copybuf, truncations, given_up>>

\* ... or a call fails, which does; the rest of the file is cut off all the same.
CopyFails ==
  /\ setup.failures
  /\ at \in {"read", "write"}
  /\ at' = "truncate"
  /\ failed' = TRUE
  /\ Aside /\ UNCHANGED <<output, locals, truncations, given_up>>

\* Mutant: the file gets the size it was to have.
Ftruncate_Keep ==
  /\ At("truncate", "idle")
  /\ file' = SubSeq(file, 1, setup.keep)
  /\ InFile /\ UNCHANGED <<locals, truncations, failed, given_up>>

\* ftruncate(fd, write_offset) and close().
Ftruncate ==
  /\ At("truncate", "idle")
  /\ file' = SubSeq(file, 1, write_offset)
  /\ InFile /\ UNCHANGED <<locals, truncations, failed, given_up>>

FtruncateFails ==
  /\ setup.failures
  /\ At("truncate", "idle")
  /\ failed' = TRUE
  /\ Aside /\ UNCHANGED <<output, locals, truncations, given_up>>

Truncate ==
  \/ Open \/ OpenFails \/ Fstat \/ FstatFails \/ LogTruncating \/ Pread \/ Pwrite
  \/ PwriteShort \/ CopyFails \/ Ftruncate \/ FtruncateFails

----------------------------------------------------------------------------
\* A step of a thread.  What it writes after the last pread is given up, too.
Beside ==
  /\ given_up' = IF at = "truncate" THEN given_up \cup (Range(written') \ Range(written))
                 ELSE given_up
  /\ UNCHANGED <<at, locals, truncations, failed>>

Next == (RawNext /\ Beside) \/ (~exited /\ Truncate)

Spec == Init /\ [][Next]_vars

\* A thread that can run is scheduled.
Fairness == \A t \in Threads : WF_vars(~exited /\ Step(t) /\ Beside)

FairSpec == Spec /\ Fairness

----------------------------------------------------------------------------
(* Properties *)

\* Type correctness: of the threads, and of the variables of TruncateLogFile.
TypeOK ==
  /\ RawTypeOK
  /\ at \in {"idle", "fstat", "log", "read", "write", "truncate"}
  /\ {size, read_offset, write_offset, truncations} \subseteq Nat
  /\ copybuf \in Seq(Char \cup {Hole})
  /\ failed \in BOOLEAN
  /\ given_up \subseteq Char \cup {Hole}

\* The characters of s that are not in C, in their order.
Without(s, C) ==
  LET rest[n \in 0 .. Len(s)] ==
        IF n = 0 THEN <<>>
        ELSE IF s[n] \in C THEN rest[n - 1] ELSE Append(rest[n - 1], s[n])
  IN  rest[Len(s)]

\* "If someone else writes to the end of the file after our last read() above,
\* we lose their latest data": a truncation loses this, and what lies before the
\* last keep bytes, but nothing else, and keeps the order, although threads write
\* between any two of its steps (unless a call fails).
LostOnlyLate == at = "idle" /\ ~failed => Without(file, {Hole}) = Without(written, given_up)
============================================================================
