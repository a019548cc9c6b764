--------------------------- MODULE LogFileProofs ---------------------------
(***************************************************************************)
(* Proofs about LogFile for any flags, sizes, objects and file systems:    *)
(* what the stages of Write may result in; the retry counter of Write and  *)
(* the bytes that are not flushed; the types of the fields and the disk;   *)
(* the locks of other processes; the files that pruning and the cleaner    *)
(* leave alone; the messages that are dropped; how long the files get, and *)
(* how many there are.                                                     *)
(***************************************************************************)
EXTENDS LogFile, FiniteSetTheorems, WellFoundedInduction, TLAPS

-----------------------------------------------------------------------------
(***************************************************************************)
(* What the stages of Write may result in.                                 *)
(***************************************************************************)

\* Pruned and CheckHistoryFileNum leave part of a list and unlink the rest.
LEMMA PruneCases ==
  ASSUME NEW s, NEW p \in Pruned(s)
  PROVE  \E k \in SUBSET s.r.file_list_ :
           p = [r |-> [s.r EXCEPT !.file_list_ = k],
                d |-> Unlink(s.d, {x.name : x \in s.r.file_list_ \ k})]
<1>1. PICK k \in Kept(s.r.file_list_) :
        p = [r |-> [s.r EXCEPT !.file_list_ = k],
             d |-> Unlink(s.d, {x.name : x \in s.r.file_list_ \ k})]
  BY DEF Pruned
<1>2. k \subseteq s.r.file_list_
  BY DEF Kept
<1> QED
  BY <1>1, <1>2

\* The list CheckHistoryFileNum starts from.
Found(o, d) ==
  {[name |-> n, time |-> d[n].mtime, id |-> 0] : n \in {n \in DOMAIN d : n.base \in History[o]}}

\* CheckHistoryFileNum puts what it found into the list before it prunes it.
LEMMA HistoryCases ==
  ASSUME NEW o, NEW s, {"r", "d"} \subseteq DOMAIN s, "file_list_" \in DOMAIN s.r,
         NEW p \in CheckHistoryFileNum(o, s)
  PROVE  \E k \in SUBSET Found(o, s.d) :
           p = [r |-> [s.r EXCEPT !.file_list_ = k],
                d |-> Unlink(s.d, {x.name : x \in Found(o, s.d) \ k})]
<1> DEFINE list == Found(o, s.d)
           s2 == [s EXCEPT !.r.file_list_ = list]
<1>1. p \in Pruned(s2)
  BY DEF CheckHistoryFileNum, Found
<1>2. PICK k \in SUBSET s2.r.file_list_ :
        p = [r |-> [s2.r EXCEPT !.file_list_ = k],
             d |-> Unlink(s2.d, {x.name : x \in s2.r.file_list_ \ k})]
  BY <1>1, PruneCases
<1> HIDE DEF list
<1>3. s2.d = s.d /\ s2.r = [s.r EXCEPT !.file_list_ = list] /\ s2.r.file_list_ = list
  OBVIOUS
<1>4. [s2.r EXCEPT !.file_list_ = k] = [s.r EXCEPT !.file_list_ = k]
  <2> HIDE DEF s2
  <2> QED
    BY <1>3
<1> HIDE DEF s2
<1> QED
  BY <1>2, <1>3, <1>4 DEF list

\* The fields and the disk after file x of an earlier run has been opened again.
WithOldFile(h, x) ==
  [r |-> [h.r EXCEPT !.file_ = x.name, !.initialized_ = TRUE], d |-> OnOpen(h.d, x.name)]

\* The size policy goes on with an old file, if there is one it can lock.
LEMMA ReopenCases ==
  ASSUME NEW o, NEW s, NEW p \in Reopened(o, s)
  PROVE  \/ p = s
         \/ /\ s.r.file_ = NoFile
            /\ \E h \in CheckHistoryFileNum(o, s) :
                 p = h \/ \E x \in h.r.file_list_ : p = WithOldFile(h, x)
<1>1. CASE s.r.file_ # NoFile \/ s.r.initialized_ \/ log_rolling_policy # "size"
  BY <1>1 DEF Reopened
<1>2. CASE ~(s.r.file_ # NoFile \/ s.r.initialized_ \/ log_rolling_policy # "size")
  BY <1>2 DEF Reopened, WithOldFile
<1> QED
  BY <1>1, <1>2

\* The fields of an object that has created file n, and listed it as entry.
WithFile(r, n, entry) ==
  [r EXCEPT !.file_ = n, !.stdio = HeaderLength,
            !.file_length_ = @ + HeaderLength,
            !.bytes_since_flush_ = @ + HeaderLength,
            !.file_list_ = @ \cup {entry}]

NextId(r) == 1 + Max({0} \cup {x.id : x \in r.file_list_})

\* CreateLogfile changes the base name only, or opens a file and lists it; a file
\* with a time stamp must be a new one.
LEMMA CreateCases ==
  ASSUME NEW o, NEW s, NEW base, NEW timestamp, NEW c \in CreateLogfile(o, s, base, timestamp),
         NEW r, r = [s.r EXCEPT !.base_filename_ = base],
         NEW n, n = FileName(o, r, base, timestamp)
  PROVE  /\ {"r", "d"} \subseteq DOMAIN c
         /\ \E f \in GetSuitableFileName(n, s.d) :
              \/ c.r = r /\ c.d = f.d /\ c.result # "created"
              \/ /\ c.d = OnOpen(f.d, f.name)
                 /\ timestamp_in_logfile_name => f.name \notin DOMAIN f.d
                 /\ \E g \in GarbageTimes :
                      c.r = WithFile(r, f.name, [name |-> n, time |-> g, id |-> NextId(r)])
<1> DEFINE q == [s.r EXCEPT !.base_filename_ = base]
           m == FileName(o, q, base, timestamp)
           Created(f, g) ==
             [result |-> "created", d |-> OnOpen(f.d, f.name),
              r |-> [q EXCEPT !.file_ = f.name, !.stdio = HeaderLength,
                              !.file_length_ = @ + HeaderLength,
                              !.bytes_since_flush_ = @ + HeaderLength,
                              !.file_list_ = @ \cup {[name |-> m, time |-> g,
                                id |-> 1 + Max({0} \cup {x.id : x \in q.file_list_})]}]]
           Exists(f) == timestamp_in_logfile_name /\ f.name \in DOMAIN f.d
           Successes(f) ==
             {Created(f, g) : g \in IF Exists(f) \/ Locked(f.d, f.name) THEN {} ELSE GarbageTimes}
           Failures(f) ==
             {[result |-> x, d |-> f.d, r |-> q] :
                x \in (IF Exists(f) THEN {"exists"} ELSE {})
                      \cup (IF OpenMayFail \/ Locked(f.d, f.name) THEN {"failed"} ELSE {})}
<1>0. r = q /\ n = m
  OBVIOUS
<1>1. CreateLogfile(o, s, base, timestamp)
        = UNION {Successes(f) \cup Failures(f) : f \in GetSuitableFileName(m, s.d)}
  BY Zenon DEF CreateLogfile
<1>2. PICK f \in GetSuitableFileName(m, s.d) : c \in Successes(f) \/ c \in Failures(f)
  <2> HIDE DEF Successes, Failures
  <2> QED
    BY <1>1
<1>3. CASE c \in Failures(f)
  <2>1. PICK x \in {"exists", "failed"} : c = [result |-> x, d |-> f.d, r |-> q]
    BY <1>3
  <2>2. c.r = q /\ c.d = f.d /\ c.result # "created" /\ {"r", "d"} \subseteq DOMAIN c
    BY <2>1
  <2> HIDE DEF q, m
  <2> QED
    BY <1>2, <1>0, <2>2
<1>4. CASE c \in Successes(f)
  <2>1. PICK g \in GarbageTimes : c = Created(f, g) /\ ~Exists(f)
    BY <1>4
  <2>2. /\ c.r = WithFile(q, f.name, [name |-> m, time |-> g, id |-> NextId(q)])
        /\ c.d = OnOpen(f.d, f.name) /\ {"r", "d"} \subseteq DOMAIN c
        /\ timestamp_in_logfile_name => f.name \notin DOMAIN f.d
    BY <2>1 DEF WithFile, NextId
  <2> HIDE DEF q, m
  <2> QED
    BY <1>2, <1>0, <2>2
<1> HIDE DEF q, m, Successes, Failures
<1> QED
  BY <1>2, <1>3, <1>4

\* What an attempt prepares: fields and disk h, after old files have gone.
Prepared(h, timestamp) ==
  [h EXCEPT !.r.initialized_ = TRUE,
            !.r.tm_time_ = IF log_utc_time THEN Period(timestamp) ELSE LocalPeriod(timestamp)]

\* Every outcome of an attempt is one of CreateLogfile, after old files have gone.
LEMMA AttemptCases ==
  ASSUME NEW o \in Objects, NEW s, NEW timestamp, NEW c \in Attempted(o, s, timestamp)
  PROVE  \E h, base :
           /\ IF s.r.initialized_ THEN h \in Pruned([s EXCEPT !.r.rollover_attempt_ = 0])
              ELSE h \in CheckHistoryFileNum(o, [s EXCEPT !.r.rollover_attempt_ = 0])
           /\ IF s.r.base_filename_selected_ THEN base = s.r.base_filename_
              ELSE base \in Range(DefaultBases[o])
           /\ c \in CreateLogfile(o, Prepared(h, timestamp), base, timestamp)
<1> DEFINE tried == [s EXCEPT !.r.rollover_attempt_ = 0]
           dirs  == IF s.r.base_filename_selected_ THEN <<s.r.base_filename_>> ELSE DefaultBases[o]
           tm    == IF log_utc_time THEN Period(timestamp) ELSE LocalPeriod(timestamp)
           Outcomes(h, i) == CreateLogfile(o, [h EXCEPT !.r.initialized_ = TRUE, !.r.tm_time_ = tm],
                                           dirs[i], timestamp)
           Fails(h, i) == \E x \in Outcomes(h, i) : x.result # "created"
           Ends(h, i) ==
             {x \in Outcomes(h, i) :
                /\ \A j \in 1 .. i - 1 : Fails(h, j)
                /\ x.result = "created" \/ i = Len(dirs)}
           pruned == IF s.r.initialized_ THEN Pruned(tried) ELSE CheckHistoryFileNum(o, tried)
<1>1. Attempted(o, s, timestamp)
        = UNION {UNION {Ends(h, i) : i \in DOMAIN dirs} : h \in pruned}
  BY Zenon DEF Attempted
<1>2. \A h, i : Ends(h, i) \subseteq Outcomes(h, i)
  OBVIOUS
<1>3. PICK h \in pruned, i \in DOMAIN dirs : c \in Ends(h, i)
  <2> HIDE DEF pruned, Ends, dirs
  <2> QED
    BY <1>1
<1>4. c \in CreateLogfile(o, Prepared(h, timestamp), dirs[i], timestamp)
  <2>1. c \in Outcomes(h, i)
    <3> HIDE DEF Ends, Outcomes
    <3> QED
      BY <1>2, <1>3
  <2> QED
    BY <2>1 DEF Prepared
<1>5. IF s.r.base_filename_selected_ THEN dirs[i] = s.r.base_filename_
      ELSE dirs[i] \in Range(DefaultBases[o])
  BY <1>3 DEF Range
<1>6. IF s.r.initialized_ THEN h \in Pruned(tried) ELSE h \in CheckHistoryFileNum(o, tried)
  BY <1>3
<1> HIDE DEF dirs
<1> QED
  BY <1>4, <1>5, <1>6

\* Write goes on with the file it has or found, or attempts to create one.
LEMMA ReadyCases ==
  ASSUME NEW o, NEW timestamp, NEW c \in Ready(o, timestamp)
  PROVE  \E s \in Reopened(o, Rolled(obj[o], timestamp)) :
           \/ s.r.file_ # NoFile /\ c = [result |-> "created", r |-> s.r, d |-> s.d]
           \/ s.r.file_ = NoFile /\ c \in Attempted(o, s, timestamp)
<1> DEFINE found == {x \in Reopened(o, Rolled(obj[o], timestamp)) : ~Skips(x)}
           outcome(s) == IF s.r.file_ # NoFile
                           THEN {[result |-> "created", r |-> s.r, d |-> s.d]}
                           ELSE Attempted(o, s, timestamp)
<1>1. PICK s \in found : c \in outcome(s)
  <2>1. Ready(o, timestamp) = UNION {outcome(s) : s \in found}
    BY Zenon DEF Ready
  <2> HIDE DEF found, outcome
  <2> QED
    BY <2>1
<1> QED
  BY <1>1

\* The fields of a LogFileObject the retries and the buffer are about, and the list.
Fields == {"stdio", "bytes_since_flush_", "rollover_attempt_", "file_list_"}

\* What every stage of Write preserves.
Sound(r) ==
  /\ Fields \subseteq DOMAIN r
  /\ r.stdio \in Nat
  /\ r.bytes_since_flush_ \in Nat
  /\ r.rollover_attempt_ \in Nat
  /\ r.rollover_attempt_ < kRolloverAttemptFrequency
  /\ r.stdio <= r.bytes_since_flush_
  /\ r.stdio < FlushBytes \/ r.stdio = HeaderLength

\* A stage leaves these fields alone.
SameFields(q, r) ==
  /\ Fields \subseteq DOMAIN q
  /\ q.stdio = r.stdio
  /\ q.bytes_since_flush_ = r.bytes_since_flush_
  /\ q.rollover_attempt_ = r.rollover_attempt_

\* A pair of an object's fields and the disk, as the stages pass it on.
Pair(s) == {"r", "d"} \subseteq DOMAIN s /\ Sound(s.r)

\* The inductive invariant: every object is sound, and has skipped no more
\* messages than its counter says.
Inv ==
  /\ obj = [o \in Objects |-> obj[o]]
  /\ skipped \in [Objects -> Nat]
  /\ \A o \in Objects : Sound(obj[o]) /\ skipped[o] <= obj[o].rollover_attempt_

-----------------------------------------------------------------------------
(* The retries and the buffer: the stages of Write *)

\* Fields that are left alone stay sound.
LEMMA SameIsSound ==
  ASSUME NEW r, NEW q, Sound(r), SameFields(q, r)
  PROVE  Sound(q)
BY DEF Sound, SameFields

\* FlushUnlocked leaves an object sound, whatever it has been through before.
LEMMA FlushIsSound ==
  ASSUME NEW r, Fields \subseteq DOMAIN r, r.stdio \in Nat, r.bytes_since_flush_ \in Nat,
         r.rollover_attempt_ \in Nat, r.rollover_attempt_ < kRolloverAttemptFrequency
  PROVE  Sound(Flushed(r)) /\ Flushed(r).rollover_attempt_ = r.rollover_attempt_
BY FlagsAssumption DEF Flushed, Sound, Fields

\* Erasing from file_list_ and unlinking touches none of the fields.
LEMMA PruneKeeps ==
  ASSUME NEW s, Pair(s), NEW p \in Pruned(s)
  PROVE  {"r", "d"} \subseteq DOMAIN p /\ SameFields(p.r, s.r)
<1>1. PICK k : p = [r |-> [s.r EXCEPT !.file_list_ = k],
                    d |-> Unlink(s.d, {x.name : x \in s.r.file_list_ \ k})]
  BY DEF Pruned
<1>2. p.r = [s.r EXCEPT !.file_list_ = k] /\ {"r", "d"} \subseteq DOMAIN p
  BY <1>1
<1> QED
  BY <1>2 DEF Pair, Sound, SameFields, Fields

\* Neither does CheckHistoryFileNum.
LEMMA HistoryKeeps ==
  ASSUME NEW o, NEW s, Pair(s), NEW p \in CheckHistoryFileNum(o, s)
  PROVE  {"r", "d"} \subseteq DOMAIN p /\ SameFields(p.r, s.r)
<1>1. PICK k \in SUBSET Found(o, s.d) :
        p = [r |-> [s.r EXCEPT !.file_list_ = k],
             d |-> Unlink(s.d, {x.name : x \in Found(o, s.d) \ k})]
  BY HistoryCases DEF Pair, Sound, Fields
<1>2. p.r = [s.r EXCEPT !.file_list_ = k] /\ {"r", "d"} \subseteq DOMAIN p
  BY <1>1
<1> QED
  BY <1>2 DEF Pair, Sound, SameFields, Fields

\* A roll resets the counter to its last value before an attempt.
LEMMA RollIsSound ==
  ASSUME NEW r, NEW timestamp, Sound(r)
  PROVE  /\ Pair(Rolled(r, timestamp))
         /\ Rolled(r, timestamp).r.rollover_attempt_ >= r.rollover_attempt_
<1>1. CASE CheckNeedRollLogFiles(r, timestamp)
  <2> DEFINE q == [Closed(r) EXCEPT !.file_length_ = 0, !.bytes_since_flush_ = 0,
                                    !.rollover_attempt_ = kRolloverAttemptFrequency - 1]
  <2>1. Rolled(r, timestamp).r = q /\ {"r", "d"} \subseteq DOMAIN Rolled(r, timestamp)
    BY <1>1 DEF Rolled
  <2>2. /\ Fields \subseteq DOMAIN q
        /\ q.stdio = 0
        /\ q.bytes_since_flush_ = 0
        /\ q.rollover_attempt_ = kRolloverAttemptFrequency - 1
    BY DEF Closed, Sound, Fields
  <2> HIDE DEF q
  <2>3. Sound(q) /\ q.rollover_attempt_ >= r.rollover_attempt_
    BY <2>2, FlagsAssumption DEF Sound
  <2> QED
    BY <2>1, <2>3 DEF Pair
<1>2. CASE ~CheckNeedRollLogFiles(r, timestamp)
  BY <1>2 DEF Rolled, Pair, Sound
<1> QED
  BY <1>1, <1>2

\* Reopening a file of an earlier run does not touch the fields.
LEMMA ReopenIsSound ==
  ASSUME NEW o, NEW s, Pair(s), NEW p \in Reopened(o, s)
  PROVE  Pair(p) /\ p.r.rollover_attempt_ = s.r.rollover_attempt_
<1>1. CASE p = s
  BY <1>1
<1>2. ASSUME NEW h \in CheckHistoryFileNum(o, s),
             p = h \/ \E x \in h.r.file_list_ : p = WithOldFile(h, x)
      PROVE  Pair(p) /\ p.r.rollover_attempt_ = s.r.rollover_attempt_
  <2>1. {"r", "d"} \subseteq DOMAIN h /\ SameFields(h.r, s.r)
    BY HistoryKeeps
  <2>2. CASE p = h
    BY <2>1, <2>2, SameIsSound DEF Pair, SameFields
  <2>3. ASSUME NEW x, p = WithOldFile(h, x)
        PROVE  {"r", "d"} \subseteq DOMAIN p /\ SameFields(p.r, h.r)
    <3>1. /\ p.r = [h.r EXCEPT !.file_ = x.name, !.initialized_ = TRUE]
          /\ {"r", "d"} \subseteq DOMAIN p
      BY <2>3 DEF WithOldFile
    <3> QED
      BY <3>1, <2>1 DEF SameFields, Fields
  <2> QED
    BY <1>2, <2>1, <2>2, <2>3, SameIsSound DEF Pair, SameFields
<1> QED
  BY <1>1, <1>2, ReopenCases

\* CreateLogfile counts the header it puts into the buffer.
LEMMA CreateIsSound ==
  ASSUME NEW o, NEW s, NEW base, NEW timestamp, Pair(s),
         NEW c \in CreateLogfile(o, s, base, timestamp)
  PROVE  Pair(c) /\ c.r.rollover_attempt_ = s.r.rollover_attempt_
<1>1. PICK r : r = [s.r EXCEPT !.base_filename_ = base]
  OBVIOUS
<1>2. PICK n : n = FileName(o, r, base, timestamp)
  OBVIOUS
<1>3. SameFields(r, s.r)
  BY <1>1 DEF Pair, Sound, SameFields, Fields
<1>4. Sound(r) /\ r.rollover_attempt_ = s.r.rollover_attempt_
  BY <1>3, SameIsSound DEF Pair, SameFields
<1>5. {"r", "d"} \subseteq DOMAIN c
  BY <1>1, <1>2, CreateCases
<1>6. c.r = r \/ \E f, entry : c.r = WithFile(r, f, entry)
  <2>1. PICK f : \/ c.r = r
                 \/ \E g \in GarbageTimes :
                      c.r = WithFile(r, f.name, [name |-> n, time |-> g, id |-> NextId(r)])
    BY <1>1, <1>2, CreateCases
  <2> QED
    BY <2>1
<1>7. ASSUME NEW f, NEW entry, c.r = WithFile(r, f, entry)
      PROVE  Sound(c.r) /\ c.r.rollover_attempt_ = r.rollover_attempt_
  <2>1. PICK list : list = r.file_list_ \cup {entry}
    OBVIOUS
  <2>2. c.r = [r EXCEPT !.file_ = f, !.stdio = HeaderLength,
                        !.file_length_ = @ + HeaderLength,
                        !.bytes_since_flush_ = @ + HeaderLength,
                        !.file_list_ = list]
    BY <1>7, <2>1 DEF WithFile
  <2>3. /\ Fields \subseteq DOMAIN c.r
        /\ c.r.stdio = HeaderLength
        /\ c.r.bytes_since_flush_ = r.bytes_since_flush_ + HeaderLength
        /\ c.r.rollover_attempt_ = r.rollover_attempt_
    BY <1>4, <2>2 DEF Sound, Fields
  <2> QED
    BY <1>4, <2>3, FlagsAssumption DEF Sound
<1> QED
  BY <1>4, <1>5, <1>6, <1>7 DEF Pair

\* An attempt takes the counter to 0; after it every directory's CreateLogfile
\* starts from a sound object.
LEMMA AttemptIsSound ==
  ASSUME NEW o \in Objects, NEW s, NEW timestamp, Pair(s), NEW c \in Attempted(o, s, timestamp)
  PROVE  Pair(c)
<1>1. PICK tried : tried = [s EXCEPT !.r.rollover_attempt_ = 0]
  OBVIOUS
<1>2. PICK h, base : /\ h \in Pruned(tried) \/ h \in CheckHistoryFileNum(o, tried)
                     /\ c \in CreateLogfile(o, Prepared(h, timestamp), base, timestamp)
  BY <1>1, AttemptCases
<1>3. Pair(tried)
  BY <1>1, FlagsAssumption DEF Pair, Sound, Fields
<1>4. Pair(h)
  BY <1>2, <1>3, PruneKeeps, HistoryKeeps, SameIsSound DEF Pair
<1>5. /\ {"r", "d"} \subseteq DOMAIN Prepared(h, timestamp)
      /\ SameFields(Prepared(h, timestamp).r, h.r)
  BY <1>4 DEF Prepared, Pair, Sound, SameFields, Fields
<1>6. Pair(Prepared(h, timestamp))
  BY <1>4, <1>5, SameIsSound DEF Pair
<1> QED
  BY <1>2, <1>6, CreateIsSound


\* What Write has found or made is sound, whichever stages it took.
LEMMA ReadyIsSound ==
  ASSUME NEW o \in Objects, NEW timestamp, Sound(obj[o]), NEW c \in Ready(o, timestamp)
  PROVE  Pair(c)
<1>1. PICK s \in Reopened(o, Rolled(obj[o], timestamp)) :
        \/ s.r.file_ # NoFile /\ c = [result |-> "created", r |-> s.r, d |-> s.d]
        \/ s.r.file_ = NoFile /\ c \in Attempted(o, s, timestamp)
  BY ReadyCases
<1>2. Pair(s)
  BY RollIsSound, ReopenIsSound
<1> QED
  BY <1>1, <1>2, AttemptIsSound DEF Pair

-----------------------------------------------------------------------------
(* The retries and the buffer: the actions *)

\* An action that leaves its object sound, and no more messages skipped than
\* the counter says, preserves the invariant.
LEMMA PutKeepsInv ==
  ASSUME Inv, NEW o \in Objects, NEW r, NEW d, Put(o, r, d), Sound(r),
         NEW n \in Nat, n <= r.rollover_attempt_,
         skipped' = [skipped EXCEPT ![o] = n]
  PROVE  Inv'
<1>1. obj' = [p \in Objects |-> obj'[p]]
  BY DEF Inv, Put
<1>2. skipped' \in [Objects -> Nat]
  BY DEF Inv
<1>3. ASSUME NEW p \in Objects
      PROVE  Sound(obj'[p]) /\ skipped'[p] <= obj'[p].rollover_attempt_
  <2>1. CASE p = o
    <3>1. obj'[p] = r /\ skipped'[p] = n
      BY <2>1 DEF Inv, Put
    <3> QED
      BY <3>1
  <2>2. CASE p # o
    <3>1. obj'[p] = obj[p] /\ skipped'[p] = skipped[p]
      BY <2>2 DEF Inv, Put
    <3> QED
      BY <3>1 DEF Inv
  <2> QED
    BY <2>1, <2>2
<1> QED
  BY <1>1, <1>2, <1>3 DEF Inv, Sound

\* The same for the operations that are not messages.
LEMMA PutAloneKeepsInv ==
  ASSUME Inv, NEW o \in Objects, NEW r, NEW d, Put(o, r, d), Sound(r),
         obj[o].rollover_attempt_ <= r.rollover_attempt_, UNCHANGED skipped
  PROVE  Inv'
<1>1. /\ skipped[o] \in Nat
      /\ skipped' = [skipped EXCEPT ![o] = skipped[o]]
  BY DEF Inv
<1>2. skipped[o] <= r.rollover_attempt_
  BY <1>1 DEF Inv, Sound
<1> QED
  BY <1>1, <1>2, PutKeepsInv

\* A dropped message counts once on each side.
LEMMA SkipKeepsInv ==
  ASSUME Inv, NEW o \in Objects, NEW len, NEW timestamp, WriteSkipped(o, len, timestamp)
  PROVE  Inv'
<1>1. Sound(obj[o]) /\ skipped[o] \in Nat /\ skipped[o] <= obj[o].rollover_attempt_
  BY DEF Inv
<1>2. PICK s \in Reopened(o, Rolled(obj[o], timestamp)) :
        Skips(s) /\ Put(o, [s.r EXCEPT !.rollover_attempt_ = @ + 1], s.d)
  BY DEF WriteSkipped
<1>3. Pair(s) /\ s.r.rollover_attempt_ >= obj[o].rollover_attempt_
  BY <1>1, <1>2, RollIsSound, ReopenIsSound
<1> DEFINE r == [s.r EXCEPT !.rollover_attempt_ = @ + 1]
<1>4. /\ Fields \subseteq DOMAIN r
      /\ r.rollover_attempt_ = s.r.rollover_attempt_ + 1
      /\ r.stdio = s.r.stdio
      /\ r.bytes_since_flush_ = s.r.bytes_since_flush_
  BY <1>3 DEF Pair, Sound, Fields
<1> HIDE DEF r
<1>5. Sound(r) /\ skipped[o] + 1 <= r.rollover_attempt_
  BY <1>1, <1>2, <1>3, <1>4, FlagsAssumption DEF Pair, Sound, Skips
<1>6. skipped' = [skipped EXCEPT ![o] = skipped[o] + 1] /\ skipped[o] + 1 \in Nat
  BY <1>1 DEF WriteSkipped
<1>7. Put(o, r, s.d)
  BY <1>2 DEF r
<1> QED
  BY <1>5, <1>6, <1>7, PutKeepsInv
\* A message that is written, and the flush that may follow.
LEMMA DoneKeepsInv ==
  ASSUME Inv, NEW o \in Objects, NEW len \in Nat, NEW force_flush, NEW timestamp,
         WriteDone(o, len, force_flush, timestamp)
  PROVE  Inv'
<1> DEFINE w(c, b) == [c.r EXCEPT !.stdio = b, !.file_length_ = @ + len,
                                  !.bytes_since_flush_ = @ + len]
<1>1. PICK c \in Ready(o, timestamp) : \E b \in Buffered(c.r, len) : \E d :
        Put(o, IF FlushDue(w(c, b), force_flush) THEN Flushed(w(c, b)) ELSE w(c, b), d)
  BY DEF WriteDone
<1>2. PICK b \in Buffered(c.r, len) : \E d :
        Put(o, IF FlushDue(w(c, b), force_flush) THEN Flushed(w(c, b)) ELSE w(c, b), d)
  BY <1>1
<1>3. Sound(c.r)
  BY ReadyIsSound DEF Inv, Pair
<1> DEFINE q == w(c, b)
<1>4. /\ Fields \subseteq DOMAIN q
      /\ q.stdio = b
      /\ q.bytes_since_flush_ = c.r.bytes_since_flush_ + len
      /\ q.rollover_attempt_ = c.r.rollover_attempt_
  BY <1>3 DEF Sound, Fields
<1>5. b \in Nat /\ b <= c.r.bytes_since_flush_ + len
  BY <1>2, <1>3 DEF Buffered, Sound
<1>6. PICK d : Put(o, IF FlushDue(q, force_flush) THEN Flushed(q) ELSE q, d)
  BY <1>2
<1>7. 0 \in Nat /\ skipped' = [skipped EXCEPT ![o] = 0]
  BY DEF WriteDone
<1> HIDE DEF q
<1>8. CASE FlushDue(q, force_flush)
  <2>1. Sound(Flushed(q)) /\ Flushed(q).rollover_attempt_ = q.rollover_attempt_
    BY <1>3, <1>4, <1>5, FlushIsSound DEF Sound
  <2>2. Put(o, Flushed(q), d) /\ 0 <= Flushed(q).rollover_attempt_
    BY <1>3, <1>4, <1>6, <1>8, <2>1 DEF Sound
  <2> QED
    BY <1>7, <2>1, <2>2, PutKeepsInv
<1>9. CASE ~FlushDue(q, force_flush)
  <2>1. q.bytes_since_flush_ < FlushBytes
    BY <1>3, <1>4, <1>9, FlagsAssumption DEF FlushDue, Sound
  <2>2. Sound(q) /\ 0 <= q.rollover_attempt_
    BY <1>3, <1>4, <1>5, <2>1, FlagsAssumption DEF Sound
  <2> QED
    BY <1>6, <1>7, <1>9, <2>2, PutKeepsInv
<1> QED
  BY <1>8, <1>9

\* Every exit of Write preserves the invariant.
LEMMA WriteKeepsInv ==
  ASSUME Inv, NEW o \in Objects, NEW len \in Nat, NEW force_flush, NEW timestamp,
         Write(o, len, force_flush, timestamp)
  PROVE  Inv'
<1>1. ASSUME NEW c \in Ready(o, timestamp)
      PROVE  Sound(c.r) /\ 0 <= c.r.rollover_attempt_
  <2>1. Pair(c)
    BY ReadyIsSound DEF Inv
  <2> QED
    BY <2>1 DEF Pair, Sound
<1>2. CASE WriteSkipped(o, len, timestamp)
  BY <1>2, SkipKeepsInv
<1>3. CASE WriteNoFile(o, len, timestamp)
  <2>1. PICK c \in Ready(o, timestamp) : Put(o, c.r, c.d)
    BY <1>3 DEF WriteNoFile
  <2>2. skipped' = [skipped EXCEPT ![o] = 0]
    BY <1>3 DEF WriteNoFile
  <2> QED
    BY <1>1, <2>1, <2>2, PutKeepsInv
<1>4. CASE WriteStopped(o, len, timestamp)
  <2>1. PICK c \in Ready(o, timestamp) : Put(o, c.r, c.d)
    BY <1>4 DEF WriteStopped
  <2>2. skipped' = [skipped EXCEPT ![o] = 0]
    BY <1>4 DEF WriteStopped
  <2> QED
    BY <1>1, <2>1, <2>2, PutKeepsInv
<1>5. CASE WriteDiskFull(o, len, timestamp)
  <2>1. PICK c \in Ready(o, timestamp) : Put(o, [c.r EXCEPT !.stdio = 0], c.d)
    BY <1>5 DEF WriteDiskFull
  <2> DEFINE q == [c.r EXCEPT !.stdio = 0]
  <2>2. Sound(q) /\ 0 <= q.rollover_attempt_
    BY <1>1, FlagsAssumption DEF Sound, Fields
  <2>3. skipped' = [skipped EXCEPT ![o] = 0]
    BY <1>5 DEF WriteDiskFull
  <2> QED
    BY <2>1, <2>2, <2>3, PutKeepsInv
<1>6. CASE WriteDone(o, len, force_flush, timestamp)
  BY <1>6, DoneKeepsInv
<1> QED
  BY <1>2, <1>3, <1>4, <1>5, <1>6 DEF Write

\* Closing a file because its name changes leaves the object sound.
LEMMA RenameIsSound ==
  ASSUME NEW r, Sound(r)
  PROVE  Sound(Renamed(r)) /\ r.rollover_attempt_ <= Renamed(r).rollover_attempt_
<1>1. CASE r.file_ = NoFile
  BY <1>1 DEF Renamed, Sound
<1>2. CASE r.file_ # NoFile
  <2>1. /\ Fields \subseteq DOMAIN Renamed(r)
        /\ Renamed(r).stdio = 0
        /\ Renamed(r).bytes_since_flush_ = r.bytes_since_flush_
        /\ Renamed(r).rollover_attempt_ = kRolloverAttemptFrequency - 1
    BY <1>2 DEF Renamed, Closed, Sound, Fields
  <2> QED
    BY <2>1, FlagsAssumption DEF Sound
<1> QED
  BY <1>1, <1>2

\* The other operations of a LogFileObject.
LEMMA FlushKeepsInv ==
  ASSUME Inv, NEW o \in Objects, Flush(o)
  PROVE  Inv'
<1>1. Sound(obj[o])
  BY DEF Inv
<1>2. Sound(Flushed(obj[o])) /\ Flushed(obj[o]).rollover_attempt_ = obj[o].rollover_attempt_
  BY <1>1, FlushIsSound DEF Sound
<1>3. obj[o].rollover_attempt_ <= Flushed(obj[o]).rollover_attempt_
  BY <1>1, <1>2 DEF Sound
<1> QED
  BY <1>2, <1>3, PutAloneKeepsInv DEF Flush, ghosts

\* A new base name, and a new extension, close the file.
LEMMA SetBasenameKeepsInv ==
  ASSUME Inv, NEW o \in Objects, NEW basename, SetBasename(o, basename)
  PROVE  Inv'
<1> DEFINE r == [obj[o] EXCEPT !.base_filename_selected_ = TRUE]
           q == [Renamed(r) EXCEPT !.base_filename_ = basename]
<1>1. Sound(obj[o])
  BY DEF Inv
<1>2. Sound(r) /\ obj[o].rollover_attempt_ <= r.rollover_attempt_
  BY <1>1 DEF Sound, Fields
<1>3. Sound(Renamed(r)) /\ r.rollover_attempt_ <= Renamed(r).rollover_attempt_
  BY <1>2, RenameIsSound
<1>4. SameFields(q, Renamed(r))
  <2> HIDE DEF r
  <2> QED
    BY <1>3 DEF Sound, SameFields, Fields
<1>5. Sound(q) /\ obj[o].rollover_attempt_ <= q.rollover_attempt_
  <2> HIDE DEF r, q
  <2> QED
    BY <1>1, <1>2, <1>3, <1>4, SameIsSound DEF SameFields, Sound
<1>6. UNCHANGED skipped /\ \E d : Put(o, r, d) \/ Put(o, q, d)
  BY DEF SetBasename, ghosts
<1> QED
  <2> HIDE DEF r, q
  <2> QED
    BY <1>2, <1>5, <1>6, PutAloneKeepsInv

LEMMA SetExtensionKeepsInv ==
  ASSUME Inv, NEW o \in Objects, NEW ext, SetExtension(o, ext)
  PROVE  Inv'
<1> DEFINE r == Renamed(obj[o])
           q == [r EXCEPT !.filename_extension_ = ext]
<1>1. Sound(r) /\ obj[o].rollover_attempt_ <= r.rollover_attempt_
  BY RenameIsSound DEF Inv
<1>2. SameFields(q, r)
  <2> HIDE DEF r
  <2> QED
    BY <1>1 DEF Sound, SameFields, Fields
<1>3. Sound(q) /\ obj[o].rollover_attempt_ <= q.rollover_attempt_
  <2> HIDE DEF r, q
  <2> QED
    BY <1>1, <1>2, SameIsSound DEF SameFields
<1>4. Put(o, q, Drain(obj[o], disk)) /\ UNCHANGED skipped
  BY DEF SetExtension, ghosts
<1> QED
  <2> HIDE DEF q
  <2> QED
    BY <1>3, <1>4, PutAloneKeepsInv

\* A new object is sound; it attempts to create a file at its first message.
LEMMA NewIsSound ==
  ASSUME NEW g, obj' = [o \in Objects |-> NewObject(StartBase[o], g[o])],
         skipped' = [o \in Objects |-> 0]
  PROVE  Inv'
<1>1. ASSUME NEW o \in Objects
      PROVE  Sound(obj'[o]) /\ skipped'[o] <= obj'[o].rollover_attempt_
  BY FlagsAssumption DEF NewObject, Sound, Fields
<1> QED
  BY <1>1 DEF Inv, Sound

\* The retry counter and the buffer, in every reachable state.
LEMMA InvHolds == Spec => []Inv
<1>1. Init => Inv
  <2> SUFFICES ASSUME Init PROVE Inv
    OBVIOUS
  <2>1. PICK g \in [Objects -> GarbageTimes] :
          obj = [o \in Objects |-> NewObject(StartBase[o], g[o])]
    BY DEF Init
  <2>2. ASSUME NEW o \in Objects
        PROVE  Sound(obj[o]) /\ skipped[o] <= obj[o].rollover_attempt_
    BY <2>1, FlagsAssumption DEF Init, NewObject, Sound, Fields
  <2> QED
    BY <2>1, <2>2 DEF Init, Inv
<1>2. Inv /\ [Next]_vars => Inv'
  <2> SUFFICES ASSUME Inv, [Next]_vars PROVE Inv'
    OBVIOUS
  <2>1. ASSUME NEW o \in Objects, Log(o) PROVE Inv'
    BY <2>1, WriteKeepsInv, FlagsAssumption DEF Log
  <2>2. ASSUME NEW o \in Objects, FatalFlush(o) PROVE Inv'
    BY <2>2, WriteKeepsInv DEF FatalFlush
  <2>3. ASSUME NEW o \in Objects, Flush(o) PROVE Inv'
    BY <2>3, FlushKeepsInv
  <2>4. ASSUME NEW o \in Objects, NEW b \in BaseNames, SetBasename(o, b) PROVE Inv'
    BY <2>4, SetBasenameKeepsInv
  <2>5. ASSUME NEW o \in Objects, NEW e \in Extensions, SetExtension(o, e) PROVE Inv'
    BY <2>5, SetExtensionKeepsInv
  <2>6. CASE Restart
    BY <2>6, NewIsSound DEF Restart
  <2>7. ASSUME UNCHANGED <<obj, skipped>> PROVE Inv'
    BY <2>7 DEF Inv, Sound
  <2>8. ASSUME NEW overdue \in OverdueTimes, EnableLogCleaner(overdue) PROVE Inv'
    BY <2>7, <2>8 DEF EnableLogCleaner, ghosts
  <2>9. CASE DisableLogCleaner
    BY <2>7, <2>9 DEF DisableLogCleaner, ghosts
  <2>10. CASE Tick
    BY <2>7, <2>10 DEF Tick, ghosts
  <2>11. CASE DiskFills
    BY <2>7, <2>11 DEF DiskFills, ghosts
  <2>12. CASE Fork
    BY <2>7, <2>12 DEF Fork, ghosts
  <2>13. CASE UNCHANGED vars
    BY <2>7, <2>13 DEF vars, ghosts
  <2> QED
    BY <2>1, <2>2, <2>3, <2>4, <2>5, <2>6, <2>8, <2>9, <2>10, <2>11, <2>12, <2>13 DEF Next
<1> QED
  BY <1>1, <1>2, PTL DEF Spec

\* rollover_attempt_ never passes the value it is compared with by !=, so that
\* Write tries to create a missing file at least every
\* kRolloverAttemptFrequency messages.
THEOREM RetriesInTime == Spec => []RetriedInTime
<1>1. Inv => RetriedInTime
  BY DEF Inv, Sound, RetriedInTime
<1> QED
  BY <1>1, InvHolds, PTL

\* bytes_since_flush_ never underestimates what stdio buffers, and fewer than
\* FlushBytes bytes (or a file header) are buffered: a crash costs no more.
THEOREM BufferAccounted == Spec => []UnflushedBounded
<1>1. Inv => UnflushedBounded
  BY DEF Inv, Sound, UnflushedBounded
<1> QED
  BY <1>1, InvHolds, PTL

-----------------------------------------------------------------------------
(* Types *)

\* A set of naturals has a least element.
LEMMA LeastElement ==
  ASSUME NEW S \in SUBSET Nat, S # {}
  PROVE  \E m \in S : \A k \in S : m <= k
<1> DEFINE R == OpToRel(<, Nat)
<1>1. IsWellFoundedOn(R, Nat)
  BY NatLessThanWellFounded
<1>2. \A i, j \in Nat : <<i, j>> \in R <=> i < j
  BY DEF OpToRel
<1> HIDE DEF R
<1>3. PICK m \in S : \A k \in S : ~(<<k, m>> \in R)
  BY <1>1, WFMin
<1>4. ASSUME NEW k \in S PROVE m <= k
  <2>1. k \in Nat /\ m \in Nat
    OBVIOUS
  <2>2. ~(k < m)
    BY <2>1, <1>2, <1>3
  <2> QED
    BY <2>1, <2>2
<1> QED
  BY <1>4

\* A set of naturals with an upper bound has a greatest element.
LEMMA GreatestElement ==
  ASSUME NEW S \in SUBSET Nat, S # {}, NEW b \in Nat, \A x \in S : x <= b
  PROVE  Max(S) \in S /\ \A x \in S : x <= Max(S)
<1> DEFINE T == {n \in Nat : b - n \in S}
<1>1. T # {}
  <2>1. PICK x \in S : TRUE
    OBVIOUS
  <2>2. b - x \in Nat /\ b - (b - x) = x
    BY <2>1
  <2> QED
    BY <2>2
<1>2. PICK n \in T : \A k \in T : n <= k
  BY <1>1, LeastElement
<1>3. ASSUME NEW y \in S PROVE b - n >= y
  <2>1. b - y \in Nat /\ b - (b - y) = y
    OBVIOUS
  <2>2. n <= b - y
    BY <2>1, <1>2
  <2> QED
    BY <2>2
<1> QED
  BY <1>2, <1>3 DEF Max

\* The types of the disk, of the fields of an object and of a pair of both.  An
\* object's list has an upper bound for the ids in it, so that CreateLogfile finds
\* the next one.
Disk(d) ==
  /\ DOMAIN d \subseteq Name
  /\ \A n \in DOMAIN d : d[n] \in File

Bounded(list) == \E b \in Nat : \A x \in list : x.id <= b

TypedObject(r) == r \in Object /\ Bounded(r.file_list_)

Typed(s) == {"r", "d"} \subseteq DOMAIN s /\ TypedObject(s.r) /\ Disk(s.d)

\* The inductive invariant.
TypeInv == TypeOK /\ \A o \in Objects : Bounded(obj[o].file_list_)

\* An object stays typed when one of its fields changes to a value of its type.
LEMMA FieldTypes ==
  ASSUME NEW r, TypedObject(r)
  PROVE  /\ \A v \in Name \cup {NoFile} : TypedObject([r EXCEPT !.file_ = v])
         /\ \A v \in Nat : TypedObject([r EXCEPT !.stdio = v])
         /\ \A v \in BOOLEAN : TypedObject([r EXCEPT !.base_filename_selected_ = v])
         /\ \A v \in Bases : TypedObject([r EXCEPT !.base_filename_ = v])
         /\ \A v \in Extensions : TypedObject([r EXCEPT !.filename_extension_ = v])
         /\ \A v \in Nat : TypedObject([r EXCEPT !.bytes_since_flush_ = v])
         /\ \A v \in Nat : TypedObject([r EXCEPT !.file_length_ = v])
         /\ \A v \in Nat : TypedObject([r EXCEPT !.rollover_attempt_ = v])
         /\ \A v \in Nat : TypedObject([r EXCEPT !.next_flush_time_ = v])
         /\ \A v \in SUBSET Filetime :
              Bounded(v) => TypedObject([r EXCEPT !.file_list_ = v])
         /\ \A v \in BOOLEAN : TypedObject([r EXCEPT !.initialized_ = v])
         /\ \A v \in Int : TypedObject([r EXCEPT !.tm_time_ = v])
BY DEF TypedObject, Object

\* The types of what a setup says.
LEMMA SetupTypes ==
  ASSUME setup \in Setup
  PROVE  /\ timestamp_in_logfile_name \in BOOLEAN
         /\ max_logfile_num \in Nat
         /\ rolling_file_number \in Int
         /\ StartBase \in [Objects -> Bases]
         /\ OverdueTimes \subseteq Nat
         /\ GarbageCounts \subseteq Int
         /\ GarbageTimes \subseteq Int
BY DEF Setup, timestamp_in_logfile_name, max_logfile_num, rolling_file_number, StartBase,
       OverdueTimes, GarbageCounts, GarbageTimes

\* Days and hours are numbers.
LEMMA PeriodType ==
  ASSUME NEW time \in Nat
  PROVE  Period(time) \in Nat /\ LocalPeriod(time) \in Nat
BY FlagsAssumption DEF Period, LocalPeriod

\* The disk keeps its type: unlink, fwrite and open.
LEMMA UnlinkTyped ==
  ASSUME NEW d, Disk(d), NEW names
  PROVE  Disk(Unlink(d, names))
BY DEF Disk, Unlink, Restrict

LEMMA DrainTyped ==
  ASSUME NEW d, Disk(d), NEW r \in Object, now \in Nat
  PROVE  Disk(Drain(r, d))
<1> DEFINE e == [d EXCEPT ![r.file_].length = @ + r.stdio, ![r.file_].mtime = now]
<1>1. ASSUME r.file_ \in DOMAIN d
      PROVE  Disk(e)
  <2>1. DOMAIN e = DOMAIN d
    OBVIOUS
  <2>2. e[r.file_] = [d[r.file_] EXCEPT !.length = @ + r.stdio, !.mtime = now]
    BY <1>1
  <2>3. r.stdio \in Nat /\ d[r.file_] \in File
    BY <1>1 DEF Object, Disk
  <2>4. PICK v \in Nat : v = d[r.file_].length + r.stdio
    BY <2>3 DEF File
  <2>5. e[r.file_] = [d[r.file_] EXCEPT !.length = v, !.mtime = now]
    BY <2>2, <2>4
  <2>6. e[r.file_] \in File
    <3> HIDE DEF e
    <3> QED
      BY <2>3, <2>5 DEF File
  <2>7. \A n \in DOMAIN d \ {r.file_} : e[n] = d[n]
    OBVIOUS
  <2> HIDE DEF e
  <2> QED
    BY <2>1, <2>6, <2>7 DEF Disk
<1> QED
  BY <1>1 DEF Drain

LEMMA OpenTyped ==
  ASSUME NEW d, Disk(d), NEW n \in Name, now \in Nat, pid \in Nat
  PROVE  Disk(OnOpen(d, n))
<1>1. DOMAIN OnOpen(d, n) = DOMAIN d \cup {n}
  BY DEF OnOpen
<1>2. \A m \in DOMAIN d \ {n} : OnOpen(d, n)[m] = d[m]
  BY DEF OnOpen
<1>3. OnOpen(d, n)[n] \in File
  <2>1. CASE n \in DOMAIN d
    <3>1. d[n] \in File
      BY <2>1 DEF Disk
    <3>2. PICK v \in Nat : v = d[n].opens + 1
      BY <3>1 DEF File
    <3>3. OnOpen(d, n)[n] = [d[n] EXCEPT !.holder = pid, !.opens = v]
      BY <2>1, <3>2 DEF OnOpen
    <3> QED
      BY <3>1, <3>3 DEF File
  <2>2. CASE n \notin DOMAIN d
    <3>1. OnOpen(d, n)[n] = [length |-> 0, mtime |-> now, holder |-> pid, opens |-> 1]
      BY <2>2 DEF OnOpen
    <3> QED
      BY <3>1 DEF File
  <2> QED
    BY <2>1, <2>2
<1> QED
  BY <1>1, <1>2, <1>3 DEF Disk

\* FlushUnlocked and the cleaner that follows it.
LEMMA FlushTyped ==
  ASSUME NEW r, TypedObject(r), now \in Nat
  PROVE  TypedObject(Flushed(r))
<1>1. PICK b \in Nat : b = IF r.file_ = NoFile THEN r.bytes_since_flush_ ELSE 0
  BY DEF TypedObject, Object
<1>2. PICK t \in Nat : t = now + logbufsecs
  BY FlagsAssumption
<1>3. Flushed(r) = [r EXCEPT !.stdio = 0, !.bytes_since_flush_ = b, !.next_flush_time_ = t]
  BY <1>1, <1>2 DEF Flushed
<1>4. TypedObject([r EXCEPT !.stdio = 0])
  BY FieldTypes
<1>5. TypedObject([r EXCEPT !.stdio = 0, !.bytes_since_flush_ = b])
  BY <1>4, FieldTypes
<1>6. TypedObject([r EXCEPT !.stdio = 0, !.bytes_since_flush_ = b, !.next_flush_time_ = t])
  BY <1>5, FieldTypes
<1> QED
  BY <1>3, <1>6

LEMMA CleanTyped ==
  ASSUME NEW d, Disk(d), NEW r
  PROVE  Disk(Cleaned(r, d))
BY UnlinkTyped DEF Cleaned

-----------------------------------------------------------------------------
(* Types: the stages of Write *)

\* The stages of Write keep the types: pruning, rolling and reopening.
LEMMA PruneTyped ==
  ASSUME NEW s, Typed(s), NEW p \in Pruned(s)
  PROVE  Typed(p)
<1>1. PICK k \in SUBSET s.r.file_list_ :
        p = [r |-> [s.r EXCEPT !.file_list_ = k],
             d |-> Unlink(s.d, {x.name : x \in s.r.file_list_ \ k})]
  BY PruneCases
<1>2. s.r.file_list_ \in SUBSET Filetime /\ Bounded(s.r.file_list_)
  BY DEF Typed, TypedObject, Object
<1>3. k \in SUBSET Filetime /\ Bounded(k)
  BY <1>2 DEF Bounded
<1>4. TypedObject([s.r EXCEPT !.file_list_ = k])
  BY <1>3, FieldTypes DEF Typed
<1>5. Disk(Unlink(s.d, {x.name : x \in s.r.file_list_ \ k}))
  BY UnlinkTyped DEF Typed
<1> QED
  BY <1>1, <1>4, <1>5 DEF Typed

LEMMA HistoryTyped ==
  ASSUME NEW o, NEW s, Typed(s), NEW p \in CheckHistoryFileNum(o, s)
  PROVE  Typed(p)
<1>0. {"r", "d"} \subseteq DOMAIN s /\ "file_list_" \in DOMAIN s.r
  BY DEF Typed, TypedObject, Object
<1>1. PICK k \in SUBSET Found(o, s.d) :
        p = [r |-> [s.r EXCEPT !.file_list_ = k],
             d |-> Unlink(s.d, {x.name : x \in Found(o, s.d) \ k})]
  BY <1>0, HistoryCases
<1>2. Found(o, s.d) \in SUBSET Filetime
  <2>1. ASSUME NEW n \in DOMAIN s.d
        PROVE  [name |-> n, time |-> s.d[n].mtime, id |-> 0] \in Filetime
    <3>1. n \in Name /\ s.d[n].mtime \in Int
      BY DEF Typed, Disk, File
    <3> QED
      BY <3>1 DEF Filetime
  <2> QED
    BY <2>1 DEF Found
<1>3. \A x \in Found(o, s.d) : x.id = 0
  BY DEF Found
<1>4. k \in SUBSET Filetime /\ Bounded(k)
  BY <1>2, <1>3 DEF Bounded
<1>5. TypedObject([s.r EXCEPT !.file_list_ = k])
  BY <1>4, FieldTypes DEF Typed
<1>6. Disk(Unlink(s.d, {x.name : x \in Found(o, s.d) \ k}))
  BY UnlinkTyped DEF Typed
<1> QED
  BY <1>1, <1>5, <1>6 DEF Typed

LEMMA RollTyped ==
  ASSUME NEW r, TypedObject(r), Disk(disk), now \in Nat, NEW timestamp
  PROVE  Typed(Rolled(r, timestamp))
<1>1. CASE CheckNeedRollLogFiles(r, timestamp)
  <2>1. TypedObject([r EXCEPT !.file_ = NoFile])
    BY FieldTypes
  <2>2. TypedObject(Closed(r))
    BY <2>1, FieldTypes DEF Closed
  <2>3. TypedObject([Closed(r) EXCEPT !.file_length_ = 0])
    BY <2>2, FieldTypes
  <2>4. TypedObject([Closed(r) EXCEPT !.file_length_ = 0, !.bytes_since_flush_ = 0])
    BY <2>3, FieldTypes
  <2>5. PICK v \in Nat : v = kRolloverAttemptFrequency - 1
    BY FlagsAssumption
  <2>6. TypedObject([Closed(r) EXCEPT !.file_length_ = 0, !.bytes_since_flush_ = 0,
                                      !.rollover_attempt_ = v])
    BY <2>4, FieldTypes
  <2>7. Disk(Drain(r, disk))
    BY DrainTyped DEF TypedObject
  <2> QED
    BY <1>1, <2>5, <2>6, <2>7 DEF Rolled, Typed
<1>2. CASE ~CheckNeedRollLogFiles(r, timestamp)
  BY <1>2 DEF Rolled, Typed
<1> QED
  BY <1>1, <1>2

LEMMA ReopenTyped ==
  ASSUME NEW o, NEW s, Typed(s), now \in Nat, pid \in Nat, NEW p \in Reopened(o, s)
  PROVE  Typed(p)
<1>1. CASE p = s
  BY <1>1
<1>2. ASSUME NEW h \in CheckHistoryFileNum(o, s),
             p = h \/ \E x \in h.r.file_list_ : p = WithOldFile(h, x)
      PROVE  Typed(p)
  <2>1. Typed(h)
    BY HistoryTyped
  <2>2. ASSUME NEW x \in h.r.file_list_,
               p = WithOldFile(h, x)
        PROVE  Typed(p)
    <3>1. x \in Filetime
      BY <2>1 DEF Typed, TypedObject, Object
    <3>2. x.name \in Name
      BY <3>1 DEF Filetime
    <3>3. TypedObject([h.r EXCEPT !.file_ = x.name])
      BY <2>1, <3>2, FieldTypes DEF Typed
    <3>4. TypedObject([h.r EXCEPT !.file_ = x.name, !.initialized_ = TRUE])
      BY <3>3, FieldTypes
    <3>5. Disk(OnOpen(h.d, x.name))
      BY <2>1, <3>2, OpenTyped DEF Typed
    <3> QED
      BY <2>2, <3>4, <3>5 DEF Typed, WithOldFile
  <2> QED
    BY <1>2, <2>1, <2>2
<1> QED
  BY <1>1, <1>2, ReopenCases

\* The oldest of some names of files that exist, as GetSuitableFileName chooses it.
IsOldest(d, m, names) ==
  \A k \in names : d[m].mtime < d[k].mtime \/ (d[m].mtime = d[k].mtime /\ m.seq <= k.seq)

\* Of files that exist there is an oldest.
LEMMA OldestExists ==
  ASSUME NEW d, Disk(d), NEW names \in SUBSET DOMAIN d, names # {}
  PROVE  \E m \in names : IsOldest(d, m, names)
<1>1. \A k \in names : d[k].mtime \in Nat /\ k.seq \in Nat
  BY DEF Disk, File, Name
<1> DEFINE times == {d[k].mtime : k \in names}
<1>2. PICK t \in times : \A u \in times : t <= u
  <2>1. times \in SUBSET Nat /\ times # {}
    BY <1>1
  <2> QED
    BY <2>1, LeastElement
<1> DEFINE numbers == {k.seq : k \in {x \in names : d[x].mtime = t}}
<1>3. PICK i \in numbers : \A j \in numbers : i <= j
  <2>1. numbers \in SUBSET Nat /\ numbers # {}
    BY <1>1, <1>2
  <2> QED
    BY <2>1, LeastElement
<1>4. PICK m \in names : d[m].mtime = t /\ m.seq = i
  BY <1>3
<1>5. ASSUME NEW k \in names
      PROVE  d[m].mtime < d[k].mtime \/ (d[m].mtime = d[k].mtime /\ m.seq <= k.seq)
  <2>1. t <= d[k].mtime
    BY <1>2
  <2>2. CASE d[k].mtime = t
    BY <1>3, <1>4, <2>2
  <2>3. CASE d[k].mtime # t
    BY <1>1, <1>4, <2>1, <2>3
  <2> QED
    BY <2>2, <2>3
<1> QED
  BY <1>4, <1>5 DEF IsOldest

\* GetSuitableFileName returns a variant of the name it was given, and unlinks
\* nothing but such variants.
LEMMA SuitableNameTyped ==
  ASSUME NEW n \in Name, NEW d, Disk(d), setup \in Setup, NEW f \in GetSuitableFileName(n, d)
  PROVE  /\ {"name", "d"} \subseteq DOMAIN f
         /\ f.name \in Name /\ f.name.base = n.base
         /\ Disk(f.d)
         /\ \A m \in DOMAIN d : m.base # n.base => m \in DOMAIN f.d
<1> DEFINE Big(m) == d[m].length \div MB >= MaxLogSize
           Num(i) == [n EXCEPT !.seq = i + 1]
           Names(count) == {n} \cup {Num(i) : i \in 0 .. count - 1}
           Oldest(count) == CHOOSE m \in Names(count) : \A k \in Names(count) :
                              d[m].mtime < d[k].mtime
                              \/ (d[m].mtime = d[k].mtime /\ m.seq <= k.seq)
           Free(count) == {i \in 0 .. count - 1 : Num(i) \notin DOMAIN d \/ ~Big(Num(i))}
           First(count) == CHOOSE i \in Free(count) : \A j \in Free(count) : i <= j
<1>1. CASE n \notin DOMAIN d \/ d[n].length \div MB <= MaxLogSize
  <2>1. f = [name |-> n, d |-> d]
    BY <1>1 DEF GetSuitableFileName
  <2> QED
    BY <2>1
<1>2. CASE ~(n \notin DOMAIN d \/ d[n].length \div MB <= MaxLogSize)
  <2>1. PICK count \in LogfileCounts :
          f = IF Free(count) # {}
                THEN [name |-> Num(First(count)), d |-> d]
                ELSE [name |-> Oldest(count), d |-> Unlink(d, {Oldest(count)})]
    BY <1>2 DEF GetSuitableFileName
  <2>2. count \in Int
    BY SetupTypes, FlagsAssumption DEF LogfileCounts
  <2>3. ASSUME NEW i \in 0 .. count - 1
        PROVE  Num(i) \in Name /\ Num(i).base = n.base
    <3>1. PICK v \in Nat : v = i + 1
      BY <2>2
    <3>2. [n EXCEPT !.seq = v] \in Name /\ [n EXCEPT !.seq = v].base = n.base
      BY DEF Name
    <3> QED
      BY <3>1, <3>2
  <2>4. CASE Free(count) # {}
    <3>1. Free(count) \in SUBSET Nat
      BY <2>2
    <3>2. First(count) \in Free(count)
      <4> HIDE DEF Free
      <4> QED
        BY <2>4, <3>1, LeastElement
    <3>3. First(count) \in 0 .. count - 1
      <4> HIDE DEF First
      <4> QED
        BY <3>2
    <3>4. f = [name |-> Num(First(count)), d |-> d]
      BY <2>1, <2>4
    <3> HIDE DEF First, Num
    <3> QED
      BY <2>3, <3>3, <3>4
  <2>5. CASE Free(count) = {}
    <3>1. Names(count) \in SUBSET DOMAIN d
      BY <1>2, <2>5
    <3>2. \E m \in Names(count) : IsOldest(d, m, Names(count))
      <4> HIDE DEF Names
      <4>1. n \in Names(count)
        BY DEF Names
      <4> QED
        BY <3>1, <4>1, OldestExists
    <3>3. Oldest(count) \in Names(count)
      <4> HIDE DEF Names
      <4> QED
        BY <3>2 DEF IsOldest
    <3>4. f = [name |-> Oldest(count), d |-> Unlink(d, {Oldest(count)})]
      BY <2>1, <2>5
    <3>5. Oldest(count).base = n.base
      <4> HIDE DEF Oldest, Num
      <4> QED
        BY <2>3, <3>3
    <3> HIDE DEF Oldest, Names
    <3>6. Oldest(count) \in Name
      BY <3>1, <3>3 DEF Disk
    <3>7. \A m \in DOMAIN d : m.base # n.base => m \in DOMAIN Unlink(d, {Oldest(count)})
      BY <3>5 DEF Unlink, Restrict
    <3> QED
      BY <3>4, <3>5, <3>6, <3>7, UnlinkTyped
  <2> QED
    BY <2>4, <2>5
<1> QED
  BY <1>1, <1>2

\* The name CreateLogfile asks for is a name.
LEMMA FileNameTyped ==
  ASSUME NEW o, NEW r, TypedObject(r), r.tm_time_ \in Nat, NEW base \in Bases,
         NEW timestamp \in Nat, setup \in Setup, pid \in Nat, g_main_thread_pid \in Nat
  PROVE  FileName(o, r, base, timestamp) \in Name
<1>1. MainThreadPid(o) \in Nat
  BY DEF MainThreadPid
<1>2. r.filename_extension_ \in Extensions
  BY DEF TypedObject, Object
<1> QED
  BY <1>1, <1>2 DEF FileName, Name

\* An object that has created a file.
LEMMA WithFileTyped ==
  ASSUME NEW r, TypedObject(r), NEW f \in Name, NEW n \in Name, NEW g \in Int
  PROVE  TypedObject(WithFile(r, f, [name |-> n, time |-> g, id |-> NextId(r)]))
<1> DEFINE ids == {0} \cup {x.id : x \in r.file_list_}
           entry == [name |-> n, time |-> g, id |-> NextId(r)]
           list == r.file_list_ \cup {entry}
<1>1. /\ r.file_list_ \in SUBSET Filetime
      /\ r.file_length_ \in Nat
      /\ r.bytes_since_flush_ \in Nat
  BY DEF TypedObject, Object
<1>2. PICK b \in Nat : \A x \in r.file_list_ : x.id <= b
  BY DEF TypedObject, Bounded
<1>3. \A x \in r.file_list_ : x.id \in Nat
  BY <1>1 DEF Filetime
<1>4. NextId(r) \in Nat
  <2>1. ids \in SUBSET Nat /\ 0 \in ids /\ \A y \in ids : y <= b
    BY <1>2, <1>3
  <2> HIDE DEF ids
  <2>2. Max(ids) \in Nat
    BY <2>1, GreatestElement
  <2> QED
    BY <2>2 DEF ids, NextId
<1>5. entry \in Filetime /\ entry.id = NextId(r)
  BY <1>4 DEF Filetime
<1>6. list \in SUBSET Filetime /\ Bounded(list)
  <2> HIDE DEF entry
  <2>1. PICK v \in Nat : v = b + NextId(r)
    BY <1>4
  <2>2. \A x \in list : x.id <= v
    BY <1>2, <1>3, <1>4, <1>5, <2>1
  <2> QED
    BY <1>1, <1>5, <2>2 DEF Bounded
<1>7. PICK l \in Nat, k \in Nat :
        l = r.file_length_ + HeaderLength /\ k = r.bytes_since_flush_ + HeaderLength
  <2>1. r.file_length_ + HeaderLength \in Nat /\ r.bytes_since_flush_ + HeaderLength \in Nat
    BY <1>1, FlagsAssumption
  <2> QED
    BY <2>1
<1> HIDE DEF entry
<1>8. WithFile(r, f, entry)
        = [r EXCEPT !.file_ = f, !.stdio = HeaderLength, !.file_length_ = l,
                    !.bytes_since_flush_ = k, !.file_list_ = list]
  BY <1>7 DEF WithFile
<1> HIDE DEF list
<1>9. TypedObject([r EXCEPT !.file_ = f])
  BY FieldTypes
<1>10. TypedObject([r EXCEPT !.file_ = f, !.stdio = HeaderLength])
  BY <1>9, FieldTypes, FlagsAssumption
<1>11. TypedObject([r EXCEPT !.file_ = f, !.stdio = HeaderLength, !.file_length_ = l])
  BY <1>10, FieldTypes
<1>12. TypedObject([r EXCEPT !.file_ = f, !.stdio = HeaderLength, !.file_length_ = l,
                             !.bytes_since_flush_ = k])
  BY <1>11, FieldTypes
<1>13. TypedObject([r EXCEPT !.file_ = f, !.stdio = HeaderLength, !.file_length_ = l,
                             !.bytes_since_flush_ = k, !.file_list_ = list])
  BY <1>6, <1>12, FieldTypes
<1> QED
  BY <1>8, <1>13 DEF entry

\* CreateLogfile keeps the types, whether it succeeds or not.
LEMMA CreateTyped ==
  ASSUME NEW o, NEW s, Typed(s), s.r.tm_time_ \in Nat, NEW base \in Bases,
         NEW timestamp \in Nat, setup \in Setup, pid \in Nat, g_main_thread_pid \in Nat,
         now \in Nat, NEW c \in CreateLogfile(o, s, base, timestamp)
  PROVE  Typed(c)
<1>1. PICK r : r = [s.r EXCEPT !.base_filename_ = base]
  OBVIOUS
<1>2. TypedObject(r) /\ r.tm_time_ = s.r.tm_time_
  BY <1>1, FieldTypes DEF Typed, TypedObject, Object
<1>3. PICK n : n = FileName(o, r, base, timestamp)
  OBVIOUS
<1>4. n \in Name
  BY <1>2, <1>3, FileNameTyped
<1>5. /\ {"r", "d"} \subseteq DOMAIN c
      /\ \E f \in GetSuitableFileName(n, s.d) :
           \/ c.r = r /\ c.d = f.d /\ c.result # "created"
           \/ /\ c.d = OnOpen(f.d, f.name)
              /\ \E g \in GarbageTimes :
                   c.r = WithFile(r, f.name, [name |-> n, time |-> g, id |-> NextId(r)])
  BY <1>1, <1>3, CreateCases
<1>6. PICK f \in GetSuitableFileName(n, s.d) :
           \/ c.r = r /\ c.d = f.d /\ c.result # "created"
           \/ /\ c.d = OnOpen(f.d, f.name)
              /\ \E g \in GarbageTimes :
                   c.r = WithFile(r, f.name, [name |-> n, time |-> g, id |-> NextId(r)])
  BY <1>5
<1>7. f.name \in Name /\ Disk(f.d)
  BY <1>4, SuitableNameTyped DEF Typed
<1>8. GarbageTimes \subseteq Int
  BY SetupTypes
<1>9. TypedObject(c.r)
  BY <1>2, <1>4, <1>6, <1>7, <1>8, WithFileTyped
<1>10. Disk(c.d)
  BY <1>6, <1>7, OpenTyped
<1> QED
  BY <1>5, <1>9, <1>10 DEF Typed

\* What the stages need to know of the rest of the state.
Context ==
  setup \in Setup /\ now \in Nat /\ pid \in Nat /\ g_main_thread_pid \in Nat /\ Disk(disk)

\* So does an attempt, and Write as far as it has a file.
LEMMA PreparedTyped ==
  ASSUME NEW h, Typed(h), NEW timestamp \in Nat
  PROVE  Typed(Prepared(h, timestamp)) /\ Prepared(h, timestamp).r.tm_time_ \in Nat
<1> DEFINE tm == IF log_utc_time THEN Period(timestamp) ELSE LocalPeriod(timestamp)
<1>1. tm \in Nat /\ tm \in Int
  BY PeriodType
<1>2. Prepared(h, timestamp) = [h EXCEPT !.r = [h.r EXCEPT !.initialized_ = TRUE, !.tm_time_ = tm]]
  BY DEF Prepared, Typed, TypedObject, Object
<1> HIDE DEF tm
<1>3. TypedObject([h.r EXCEPT !.initialized_ = TRUE])
  BY FieldTypes DEF Typed
<1>4. TypedObject([h.r EXCEPT !.initialized_ = TRUE, !.tm_time_ = tm])
  BY <1>1, <1>3, FieldTypes
<1>5. [h.r EXCEPT !.initialized_ = TRUE, !.tm_time_ = tm].tm_time_ = tm
  BY DEF Typed, TypedObject, Object
<1> QED
  BY <1>1, <1>2, <1>4, <1>5 DEF Typed

LEMMA AttemptTyped ==
  ASSUME Context, NEW o \in Objects, NEW s, Typed(s), NEW timestamp \in Nat,
         NEW c \in Attempted(o, s, timestamp)
  PROVE  Typed(c)
<1>1. PICK t : t = [s EXCEPT !.r.rollover_attempt_ = 0]
  OBVIOUS
<1>2. PICK h, base :
        /\ h \in Pruned(t) \/ h \in CheckHistoryFileNum(o, t)
        /\ IF s.r.base_filename_selected_ THEN base = s.r.base_filename_
           ELSE base \in Range(DefaultBases[o])
        /\ c \in CreateLogfile(o, Prepared(h, timestamp), base, timestamp)
  BY <1>1, AttemptCases
<1>3. Typed(t)
  <2>1. TypedObject([s.r EXCEPT !.rollover_attempt_ = 0])
    BY FieldTypes DEF Typed
  <2> QED
    BY <1>1, <2>1 DEF Typed
<1>4. Typed(h)
  BY <1>2, <1>3, PruneTyped, HistoryTyped
<1>5. base \in Bases
  BY <1>2, NamesAssumption DEF Typed, TypedObject, Object, Bases, Range
<1> QED
  BY <1>2, <1>4, <1>5, PreparedTyped, CreateTyped DEF Context

LEMMA ReadyTyped ==
  ASSUME Context, NEW o \in Objects, TypedObject(obj[o]), NEW timestamp \in Nat,
         NEW c \in Ready(o, timestamp)
  PROVE  Typed(c)
<1>1. PICK s \in Reopened(o, Rolled(obj[o], timestamp)) :
        \/ s.r.file_ # NoFile /\ c = [result |-> "created", r |-> s.r, d |-> s.d]
        \/ s.r.file_ = NoFile /\ c \in Attempted(o, s, timestamp)
  BY ReadyCases
<1>2. Typed(s)
  BY RollTyped, ReopenTyped DEF Context
<1> QED
  BY <1>1, <1>2, AttemptTyped DEF Typed

-----------------------------------------------------------------------------
(* Types: the actions *)

\* Typed fields and a typed disk, put back, leave all objects and the disk typed.
LEMMA PutTyped ==
  ASSUME TypeInv, NEW o \in Objects, NEW r, NEW d, Put(o, r, d), TypedObject(r), Disk(d)
  PROVE  /\ obj' \in [Objects -> Object]
         /\ \A p \in Objects : Bounded(obj'[p].file_list_)
         /\ Disk(disk')
<1>1. obj \in [Objects -> Object]
  BY DEF TypeInv, TypeOK
<1>2. \A p \in Objects : obj'[p] = IF p = o THEN r ELSE obj[p]
  BY <1>1 DEF Put
<1>3. r \in Object /\ Bounded(r.file_list_)
  BY DEF TypedObject
<1>4. \A p \in Objects : Bounded(obj'[p].file_list_)
  BY <1>2, <1>3 DEF TypeInv
<1>5. obj' \in [Objects -> Object]
  BY <1>1, <1>3 DEF Put
<1> QED
  BY <1>4, <1>5 DEF Put

\* What WriteDone makes of the fields and the disk: b bytes are buffered, len more
\* have been written.
Appended(r, b, len) ==
  [r EXCEPT !.stdio = b, !.file_length_ = @ + len, !.bytes_since_flush_ = @ + len]
PutObject(w, force_flush) == IF FlushDue(w, force_flush) THEN Flushed(w) ELSE w
PutDisk(w, d, force_flush) ==
  IF FlushDue(w, force_flush) THEN Cleaned(w, Drain(w, d)) ELSE d

\* A message in the buffer.
LEMMA AppendTyped ==
  ASSUME NEW r, TypedObject(r), NEW b \in Nat, NEW len \in Nat
  PROVE  TypedObject(Appended(r, b, len)) /\ Appended(r, b, len).file_ = r.file_
<1>1. PICK l \in Nat, k \in Nat : l = r.file_length_ + len /\ k = r.bytes_since_flush_ + len
  <2>1. r.file_length_ + len \in Nat /\ r.bytes_since_flush_ + len \in Nat
    BY DEF TypedObject, Object
  <2> QED
    BY <2>1
<1>2. Appended(r, b, len) = [r EXCEPT !.stdio = b, !.file_length_ = l, !.bytes_since_flush_ = k]
  BY <1>1 DEF Appended
<1>3. TypedObject([r EXCEPT !.stdio = b])
  BY FieldTypes
<1>4. TypedObject([r EXCEPT !.stdio = b, !.file_length_ = l])
  BY <1>3, FieldTypes
<1>5. TypedObject([r EXCEPT !.stdio = b, !.file_length_ = l, !.bytes_since_flush_ = k])
  BY <1>4, FieldTypes
<1>6. [r EXCEPT !.stdio = b, !.file_length_ = l, !.bytes_since_flush_ = k].file_ = r.file_
  BY DEF TypedObject, Object
<1> QED
  BY <1>2, <1>5, <1>6

\* The exits of Write.
LEMMA WriteCases ==
  ASSUME NEW o, NEW len, NEW force_flush, NEW timestamp, Write(o, len, force_flush, timestamp)
  PROVE  /\ Writes(o)
         /\ \/ \E s \in Reopened(o, Rolled(obj[o], timestamp)) :
                 Put(o, [s.r EXCEPT !.rollover_attempt_ = @ + 1], s.d) /\ UNCHANGED log_cleaner
            \/ \E c \in Ready(o, timestamp) : Put(o, c.r, c.d) /\ UNCHANGED log_cleaner
            \/ \E c \in Ready(o, timestamp) :
                 Put(o, [c.r EXCEPT !.stdio = 0], c.d) /\ UNCHANGED log_cleaner
            \/ \E c \in Ready(o, timestamp) : \E b \in Buffered(c.r, len) :
                 /\ c.result = "created"
                 /\ Put(o, PutObject(Appended(c.r, b, len), force_flush),
                           PutDisk(Appended(c.r, b, len), c.d, force_flush))
                 /\ \/ UNCHANGED log_cleaner
                    \/ /\ log_cleaner.enabled_
                       /\ log_cleaner' =
                            [log_cleaner EXCEPT !.next_cleanup_time_ = now + logcleansecs]
<1>1. CASE WriteSkipped(o, len, timestamp)
  BY <1>1 DEF WriteSkipped
<1>2. CASE WriteNoFile(o, len, timestamp)
  BY <1>2 DEF WriteNoFile
<1>3. CASE WriteStopped(o, len, timestamp)
  BY <1>3 DEF WriteStopped
<1>4. CASE WriteDiskFull(o, len, timestamp)
  BY <1>4 DEF WriteDiskFull
<1>5. CASE WriteDone(o, len, force_flush, timestamp)
  BY <1>5 DEF WriteDone, Appended, PutObject, PutDisk, CleanerDue
<1> QED
  BY <1>1, <1>2, <1>3, <1>4, <1>5 DEF Write

\* Every exit of Write keeps the types.
LEMMA WriteTyped ==
  ASSUME TypeInv, NEW o \in Objects, NEW len \in Nat, NEW force_flush \in BOOLEAN,
         NEW timestamp \in Nat, Write(o, len, force_flush, timestamp)
  PROVE  TypeInv'
<1>1. Context /\ TypedObject(obj[o]) /\ log_cleaner \in Cleaner
  BY DEF TypeInv, TypeOK, Context, Disk, TypedObject
<1>2. \A c \in Ready(o, timestamp) : Typed(c)
  BY <1>1, ReadyTyped
<1>3. /\ setup' = setup /\ now' = now /\ full' = full /\ pid' = pid /\ alive' = alive
      /\ writes' \in Nat /\ g_main_thread_pid' \in Nat
  <2>1. writes' = (IF stop_writing THEN writes ELSE writes + 1) /\ writes \in Nat
    BY WriteCases DEF Writes, TypeInv, TypeOK
  <2> QED
    BY <1>1, <2>1, WriteCases DEF Writes, MainThreadPid, Context
<1>4. /\ {stop_writing', lost', trouble'} \subseteq BOOLEAN
      /\ skipped' \in [Objects -> Nat]
  <2>1. {stop_writing, lost, trouble} \subseteq BOOLEAN /\ skipped \in [Objects -> Nat]
    BY DEF TypeInv, TypeOK
  <2>2. CASE WriteSkipped(o, len, timestamp)
    BY <2>1, <2>2 DEF WriteSkipped
  <2>3. CASE WriteNoFile(o, len, timestamp)
    <3>1. PICK c \in Ready(o, timestamp) : trouble' = (trouble \/ c.result = "failed")
      BY <2>3 DEF WriteNoFile
    <3> QED
      BY <2>1, <2>3, <3>1 DEF WriteNoFile
  <2>4. CASE WriteStopped(o, len, timestamp)
    <3>1. PICK c \in Ready(o, timestamp) : stop_writing' = (now < c.r.next_flush_time_)
      BY <2>4 DEF WriteStopped
    <3> QED
      BY <2>1, <2>4, <3>1 DEF WriteStopped
  <2>5. CASE WriteDiskFull(o, len, timestamp)
    BY <2>1, <2>5 DEF WriteDiskFull
  <2>6. CASE WriteDone(o, len, force_flush, timestamp)
    BY <2>1, <2>6 DEF WriteDone
  <2> QED
    BY <2>2, <2>3, <2>4, <2>5, <2>6 DEF Write
<1>5. PICK r, d : Put(o, r, d) /\ TypedObject(r) /\ Disk(d)
  <2>1. ASSUME NEW s \in Reopened(o, Rolled(obj[o], timestamp)),
               Put(o, [s.r EXCEPT !.rollover_attempt_ = @ + 1], s.d)
        PROVE  \E r, d : Put(o, r, d) /\ TypedObject(r) /\ Disk(d)
    <3>1. Typed(s)
      BY <1>1, RollTyped, ReopenTyped DEF Context
    <3>2. PICK v \in Nat : v = s.r.rollover_attempt_ + 1
      BY <3>1 DEF Typed, TypedObject, Object
    <3>3. TypedObject([s.r EXCEPT !.rollover_attempt_ = v])
      BY <3>1, FieldTypes DEF Typed
    <3>4. [s.r EXCEPT !.rollover_attempt_ = @ + 1] = [s.r EXCEPT !.rollover_attempt_ = v]
      BY <3>2
    <3> QED
      BY <2>1, <3>1, <3>3, <3>4 DEF Typed
  <2>2. ASSUME NEW c \in Ready(o, timestamp), Put(o, c.r, c.d)
        PROVE  \E r, d : Put(o, r, d) /\ TypedObject(r) /\ Disk(d)
    BY <1>2, <2>2 DEF Typed
  <2>3. ASSUME NEW c \in Ready(o, timestamp), Put(o, [c.r EXCEPT !.stdio = 0], c.d)
        PROVE  \E r, d : Put(o, r, d) /\ TypedObject(r) /\ Disk(d)
    <3>1. TypedObject([c.r EXCEPT !.stdio = 0]) /\ Disk(c.d)
      BY <1>2, FieldTypes DEF Typed
    <3> QED
      BY <2>3, <3>1
  <2>4. ASSUME NEW c \in Ready(o, timestamp), NEW b \in Buffered(c.r, len),
               Put(o, PutObject(Appended(c.r, b, len), force_flush),
                      PutDisk(Appended(c.r, b, len), c.d, force_flush))
        PROVE  \E r, d : Put(o, r, d) /\ TypedObject(r) /\ Disk(d)
    <3>1. Typed(c) /\ b \in Nat
      BY <1>2 DEF Buffered, Typed, TypedObject, Object
    <3>2. PICK w : w = Appended(c.r, b, len)
      OBVIOUS
    <3>3. TypedObject(w) /\ w \in Object /\ Disk(c.d)
      BY <3>1, <3>2, AppendTyped DEF Typed, TypedObject
    <3>4. TypedObject(PutObject(w, force_flush))
      BY <1>1, <3>3, FlushTyped DEF PutObject, Context
    <3>5. Disk(PutDisk(w, c.d, force_flush))
      BY <1>1, <3>3, DrainTyped, CleanTyped DEF PutDisk, Context
    <3> QED
      BY <2>4, <3>2, <3>4, <3>5
  <2> QED
    BY <2>1, <2>2, <2>3, <2>4, WriteCases
<1>6. log_cleaner' \in Cleaner
  <2>1. PICK v \in Nat : v = now + logcleansecs
    BY <1>1, FlagsAssumption DEF Context
  <2>2. [log_cleaner EXCEPT !.next_cleanup_time_ = v] \in Cleaner
    BY <1>1 DEF Cleaner
  <2>3. log_cleaner' = log_cleaner
        \/ log_cleaner' = [log_cleaner EXCEPT !.next_cleanup_time_ = now + logcleansecs]
    BY WriteCases
  <2> QED
    BY <1>1, <2>1, <2>2, <2>3
<1>7. /\ obj' \in [Objects -> Object]
      /\ \A p \in Objects : Bounded(obj'[p].file_list_)
      /\ Disk(disk')
  BY <1>5, PutTyped
<1> QED
  BY <1>3, <1>4, <1>6, <1>7 DEF TypeInv, TypeOK, Disk, Bounded

\* Closing a file because its name changes keeps the types.
LEMMA RenameTyped ==
  ASSUME NEW r, TypedObject(r)
  PROVE  TypedObject(Renamed(r))
<1>1. CASE r.file_ = NoFile
  BY <1>1 DEF Renamed
<1>2. CASE r.file_ # NoFile
  <2>1. TypedObject([r EXCEPT !.file_ = NoFile])
    BY FieldTypes
  <2>2. TypedObject(Closed(r))
    BY <2>1, FieldTypes DEF Closed
  <2>3. PICK v \in Nat : v = kRolloverAttemptFrequency - 1
    BY FlagsAssumption
  <2>4. TypedObject([Closed(r) EXCEPT !.rollover_attempt_ = v])
    BY <2>2, FieldTypes
  <2> QED
    BY <1>2, <2>3, <2>4 DEF Renamed
<1> QED
  BY <1>1, <1>2

\* An operation that puts a typed object and disk and changes nothing else.
LEMMA PutAloneTyped ==
  ASSUME TypeInv, NEW o \in Objects, NEW r, NEW d, Put(o, r, d), TypedObject(r), Disk(d),
         UNCHANGED <<setup, stop_writing, log_cleaner, now, full, writes, process, ghosts>>
  PROVE  TypeInv'
<1>1. /\ obj' \in [Objects -> Object]
      /\ \A p \in Objects : Bounded(obj'[p].file_list_)
      /\ Disk(disk')
  BY PutTyped
<1> QED
  BY <1>1 DEF TypeInv, TypeOK, Disk, Bounded, process, ghosts

\* The operations besides Write.
LEMMA OperationTyped ==
  ASSUME TypeInv, NEW o \in Objects,
         \/ Flush(o)
         \/ \E b \in BaseNames : SetBasename(o, b)
         \/ \E e \in Extensions : SetExtension(o, e)
  PROVE  TypeInv'
<1>1. TypedObject(obj[o]) /\ Disk(disk) /\ now \in Nat
  BY DEF TypeInv, TypeOK, TypedObject, Disk
<1>2. obj[o] \in Object
  BY <1>1 DEF TypedObject
<1>3. CASE Flush(o)
  <2>1. TypedObject(Flushed(obj[o])) /\ Disk(Drain(obj[o], disk))
    BY <1>1, <1>2, FlushTyped, DrainTyped
  <2> QED
    BY <1>3, <2>1, PutAloneTyped DEF Flush
<1>4. ASSUME NEW b \in BaseNames, SetBasename(o, b)
      PROVE  TypeInv'
  <2> DEFINE r == [obj[o] EXCEPT !.base_filename_selected_ = TRUE]
  <2>1. TypedObject(r) /\ b \in Bases
    BY <1>1, FieldTypes DEF Bases
  <2>2. r \in Object
    BY <2>1 DEF TypedObject
  <2>3. /\ Put(o, r, disk) \/ Put(o, [Renamed(r) EXCEPT !.base_filename_ = b], Drain(r, disk))
        /\ UNCHANGED <<setup, stop_writing, log_cleaner, now, full, writes, process, ghosts>>
    BY <1>4 DEF SetBasename
  <2> HIDE DEF r
  <2>4. TypedObject(Renamed(r))
    BY <2>1, RenameTyped
  <2>5. TypedObject([Renamed(r) EXCEPT !.base_filename_ = b]) /\ Disk(Drain(r, disk))
    BY <1>1, <2>1, <2>2, <2>4, FieldTypes, DrainTyped
  <2> QED
    BY <1>1, <2>1, <2>3, <2>5, PutAloneTyped
<1>5. ASSUME NEW e \in Extensions, SetExtension(o, e)
      PROVE  TypeInv'
  <2>1. TypedObject(Renamed(obj[o]))
    BY <1>1, RenameTyped
  <2>2. TypedObject([Renamed(obj[o]) EXCEPT !.filename_extension_ = e])
    BY <2>1, FieldTypes
  <2>3. Disk(Drain(obj[o], disk))
    BY <1>1, <1>2, DrainTyped
  <2> QED
    BY <1>5, <2>2, <2>3, PutAloneTyped DEF SetExtension
<1> QED
  BY <1>3, <1>4, <1>5

\* New objects: at the start and after a restart.
LEMMA NewTyped ==
  ASSUME NEW base \in Bases, NEW garbage \in Int
  PROVE  TypedObject(NewObject(base, garbage))
<1>1. kRolloverAttemptFrequency - 1 \in Nat
  BY FlagsAssumption
<1>2. (base # NoBase) \in BOOLEAN /\ {} \in SUBSET Filetime /\ NoExtension \in Extensions
  BY NamesAssumption
<1>3. NewObject(base, garbage) \in Object
  BY <1>1, <1>2 DEF NewObject, Object
<1>4. Bounded(NewObject(base, garbage).file_list_)
  BY DEF NewObject, Bounded
<1> QED
  BY <1>3, <1>4 DEF TypedObject

LEMMA RestartTyped ==
  ASSUME TypeInv, Restart
  PROVE  TypeInv'
<1>1. PICK g \in [Objects -> GarbageTimes] :
        obj' = [o \in Objects |-> NewObject(StartBase[o], g[o])]
  BY DEF Restart
<1>2. setup \in Setup
  BY DEF TypeInv, TypeOK
<1>3. ASSUME NEW o \in Objects
      PROVE  TypedObject(NewObject(StartBase[o], g[o]))
  <2>1. StartBase[o] \in Bases /\ g[o] \in Int
    BY <1>2, SetupTypes
  <2> QED
    BY <2>1, NewTyped
<1>4. obj' \in [Objects -> Object] /\ \A p \in Objects : Bounded(obj'[p].file_list_)
  BY <1>1, <1>3 DEF TypedObject
<1>5. NewCleaner \in Cleaner
  BY DEF NewCleaner, Cleaner
<1>6. /\ setup \in Setup /\ Disk(disk) /\ {full, lost, trouble} \subseteq BOOLEAN
      /\ now \in Nat /\ pid \in Nat /\ alive \subseteq Nat
  BY DEF TypeInv, TypeOK, Disk
<1>7. /\ UNCHANGED <<setup, disk, now, full, alive, lost, trouble>>
      /\ log_cleaner' = NewCleaner /\ stop_writing' = FALSE
      /\ pid' = pid + 1 /\ g_main_thread_pid' = pid + 1 /\ writes' = 0
      /\ skipped' = [o \in Objects |-> 0]
  BY DEF Restart
<1>8. pid' \in Nat /\ g_main_thread_pid' \in Nat /\ writes' \in Nat
  BY <1>6, <1>7
<1>9. log_cleaner' \in Cleaner /\ stop_writing' \in BOOLEAN /\ skipped' \in [Objects -> Nat]
  BY <1>5, <1>7
<1> QED
  BY <1>4, <1>6, <1>7, <1>8, <1>9 DEF TypeInv, TypeOK, Disk, Bounded

LEMMA InitTyped ==
  ASSUME Init
  PROVE  TypeInv
<1>1. PICK g \in [Objects -> GarbageTimes] :
        obj = [o \in Objects |-> NewObject(StartBase[o], g[o])]
  BY DEF Init
<1>2. setup \in Setup
  BY BoundsAssumption DEF Init
<1>3. ASSUME NEW o \in Objects
      PROVE  TypedObject(NewObject(StartBase[o], g[o]))
  <2>1. StartBase[o] \in Bases /\ g[o] \in Int
    BY <1>2, SetupTypes
  <2> QED
    BY <2>1, NewTyped
<1>4. obj \in [Objects -> Object] /\ \A p \in Objects : Bounded(obj[p].file_list_)
  BY <1>1, <1>3 DEF TypedObject
<1>5. NewCleaner \in Cleaner
  BY DEF NewCleaner, Cleaner
<1>6. DOMAIN disk = {}
  BY DEF Init
<1>7. /\ log_cleaner = NewCleaner /\ stop_writing = FALSE /\ full = FALSE
      /\ lost = FALSE /\ trouble = FALSE /\ now = StartTime /\ pid = 1 /\ alive = {}
      /\ g_main_thread_pid = 1 /\ writes = 0 /\ skipped = [o \in Objects |-> 0]
  BY DEF Init
<1>8. now \in Nat /\ skipped \in [Objects -> Nat]
  BY <1>7, BoundsAssumption
<1>9. \A n \in DOMAIN disk : disk[n] \in File
  BY <1>6
<1>10. log_cleaner \in Cleaner /\ alive \subseteq Nat /\ DOMAIN disk \subseteq Name
  BY <1>5, <1>6, <1>7
<1>11. {stop_writing, full, lost, trouble} \subseteq BOOLEAN
  BY <1>7
<1>12. {now, pid, g_main_thread_pid, writes} \subseteq Nat
  BY <1>7, <1>8
<1> QED
  BY <1>2, <1>4, <1>8, <1>9, <1>10, <1>11, <1>12 DEF TypeInv, TypeOK

\* Every step keeps the types.
LEMMA TypeInvStep ==
  ASSUME TypeInv, [Next]_vars
  PROVE  TypeInv'
<1>1. ASSUME NEW o \in Objects, Log(o) PROVE TypeInv'
  <2>1. PICK len \in Lengths, should_flush \in BOOLEAN : Write(o, len, should_flush, now)
    BY <1>1 DEF Log
  <2>2. len \in Nat /\ now \in Nat
    BY FlagsAssumption DEF TypeInv, TypeOK
  <2> QED
    BY <2>1, <2>2, WriteTyped
<1>2. ASSUME NEW o \in Objects, FatalFlush(o) PROVE TypeInv'
  BY <1>2, WriteTyped DEF FatalFlush
<1>3. ASSUME NEW o \in Objects, Flush(o) PROVE TypeInv'
  BY <1>3, OperationTyped
<1>4. ASSUME NEW o \in Objects, NEW b \in BaseNames, SetBasename(o, b) PROVE TypeInv'
  BY <1>4, OperationTyped
<1>5. ASSUME NEW o \in Objects, NEW e \in Extensions, SetExtension(o, e) PROVE TypeInv'
  BY <1>5, OperationTyped
<1>6. CASE Restart
  BY <1>6, RestartTyped
<1>7. ASSUME UNCHANGED <<setup, obj, disk, stop_writing, full, writes, process, ghosts>>,
             now' \in Nat, log_cleaner' \in Cleaner
      PROVE  TypeInv'
  BY <1>7 DEF TypeInv, TypeOK, Bounded, process, ghosts
<1>8. ASSUME NEW overdue \in OverdueTimes, EnableLogCleaner(overdue) PROVE TypeInv'
  <2>1. overdue \in Nat /\ log_cleaner \in Cleaner /\ now \in Nat
    BY SetupTypes DEF TypeInv, TypeOK
  <2>2. log_cleaner' \in Cleaner
    BY <1>8, <2>1 DEF EnableLogCleaner, Cleaner
  <2> QED
    BY <1>7, <1>8, <2>1, <2>2 DEF EnableLogCleaner
<1>9. CASE DisableLogCleaner
  <2>1. log_cleaner' \in Cleaner /\ now \in Nat
    BY <1>9 DEF DisableLogCleaner, Cleaner, TypeInv, TypeOK
  <2> QED
    BY <1>7, <1>9, <2>1 DEF DisableLogCleaner
<1>10. CASE Tick
  BY <1>7, <1>10 DEF Tick, TypeInv, TypeOK
<1>11. CASE DiskFills
  BY <1>11 DEF DiskFills, TypeInv, TypeOK, Bounded, process, ghosts
<1>12. CASE Fork
  <2>1. pid \in Nat /\ alive \subseteq Nat
    BY DEF TypeInv, TypeOK
  <2>2. pid' \in Nat /\ alive' \subseteq Nat
    BY <1>12, <2>1 DEF Fork
  <2>3. UNCHANGED <<setup, obj, disk, stop_writing, g_main_thread_pid, log_cleaner, now, full,
                    writes, skipped, lost, trouble>>
    BY <1>12 DEF Fork, ghosts
  <2> QED
    BY <2>2, <2>3 DEF TypeInv, TypeOK, Bounded
<1>13. CASE UNCHANGED vars
  BY <1>7, <1>13 DEF vars, TypeInv, TypeOK
<1> QED
  BY <1>1, <1>2, <1>3, <1>4, <1>5, <1>6, <1>8, <1>9, <1>10, <1>11, <1>12, <1>13 DEF Next

LEMMA TypeInvHolds == Spec => []TypeInv
<1>1. Init => TypeInv
  BY InitTyped
<1>2. TypeInv /\ [Next]_vars => TypeInv'
  BY TypeInvStep
<1> QED
  BY <1>1, <1>2, PTL DEF Spec

\* Whatever the flags, sizes, bounds and names are, the objects, the disk, the cleaner
\* and the clock have their types in every reachable state: no stage of Write calls
\* for the maximum of an unbounded set, the oldest of no files or a file that is not
\* on the disk, and no counter goes below 0.
THEOREM TypeCorrect == Spec => []TypeOK
<1>1. TypeInv => TypeOK
  BY DEF TypeInv
<1> QED
  BY <1>1, TypeInvHolds, PTL

-----------------------------------------------------------------------------
(* Files of other processes *)

\* Locks: no file is not a locked file; unlink and fwrite lock nothing; what this
\* process opens it locks itself.
LEMMA NoFileUnlocked ==
  ASSUME NEW d, Disk(d)
  PROVE  ~Locked(d, NoFile)
BY NamesAssumption DEF Disk, Locked

LEMMA UnlinkUnlocked ==
  ASSUME NEW d, NEW n, ~Locked(d, n), NEW names
  PROVE  ~Locked(Unlink(d, names), n)
BY DEF Locked, Unlink, Restrict

LEMMA DrainUnlocked ==
  ASSUME NEW d, Disk(d), NEW n, ~Locked(d, n), NEW r \in Object
  PROVE  ~Locked(Drain(r, d), n)
<1> DEFINE e == [d EXCEPT ![r.file_].length = @ + r.stdio, ![r.file_].mtime = now]
<1>1. ASSUME r.file_ \in DOMAIN d
      PROVE  ~Locked(e, n)
  <2>1. DOMAIN e = DOMAIN d /\ \A m \in DOMAIN d \ {r.file_} : e[m] = d[m]
    OBVIOUS
  <2>2. e[r.file_] = [d[r.file_] EXCEPT !.length = @ + r.stdio, !.mtime = now]
    BY <1>1
  <2>3. d[r.file_] \in File
    BY <1>1 DEF Disk
  <2>4. e[r.file_].holder = d[r.file_].holder
    BY <2>2, <2>3 DEF File
  <2> HIDE DEF e
  <2> QED
    BY <2>1, <2>4 DEF Locked
<1> QED
  BY <1>1 DEF Drain

LEMMA OpenUnlocked ==
  ASSUME NEW d, Disk(d), NEW n, pid \notin alive, NEW m, ~Locked(d, m) \/ m = n
  PROVE  ~Locked(OnOpen(d, n), m)
<1>1. CASE m # n
  BY <1>1 DEF OnOpen, Locked
<1>2. CASE m = n /\ n \in DOMAIN d
  <2>1. OnOpen(d, n)[n] = [d[n] EXCEPT !.holder = pid, !.opens = @ + 1] /\ d[n] \in File
    BY <1>2 DEF OnOpen, Disk
  <2>2. OnOpen(d, n)[n].holder = pid
    BY <2>1 DEF File
  <2> QED
    BY <1>2, <2>2 DEF Locked
<1>3. CASE m = n /\ n \notin DOMAIN d
  <2>1. OnOpen(d, n)[n].holder = pid
    BY <1>3 DEF OnOpen
  <2> QED
    BY <1>3, <2>1 DEF Locked
<1> QED
  BY <1>1, <1>2, <1>3

LEMMA SuitableUnlocked ==
  ASSUME NEW n, NEW d, NEW f \in GetSuitableFileName(n, d), NEW m, ~Locked(d, m)
  PROVE  ~Locked(f.d, m)
<1> DEFINE Big(k) == d[k].length \div MB >= MaxLogSize
           Num(i) == [n EXCEPT !.seq = i + 1]
           Names(count) == {n} \cup {Num(i) : i \in 0 .. count - 1}
           Oldest(count) == CHOOSE j \in Names(count) : \A k \in Names(count) :
                              d[j].mtime < d[k].mtime
                              \/ (d[j].mtime = d[k].mtime /\ j.seq <= k.seq)
           Free(count) == {i \in 0 .. count - 1 : Num(i) \notin DOMAIN d \/ ~Big(Num(i))}
           First(count) == CHOOSE i \in Free(count) : \A j \in Free(count) : i <= j
<1>1. CASE n \notin DOMAIN d \/ d[n].length \div MB <= MaxLogSize
  <2>1. f = [name |-> n, d |-> d]
    BY <1>1 DEF GetSuitableFileName
  <2> QED
    BY <2>1
<1>2. CASE ~(n \notin DOMAIN d \/ d[n].length \div MB <= MaxLogSize)
  <2>1. PICK count \in LogfileCounts :
          f = IF Free(count) # {}
                THEN [name |-> Num(First(count)), d |-> d]
                ELSE [name |-> Oldest(count), d |-> Unlink(d, {Oldest(count)})]
    BY <1>2 DEF GetSuitableFileName
  <2> HIDE DEF Num, First, Oldest, Free
  <2>2. f.d = d \/ f.d = Unlink(d, {Oldest(count)})
    BY <2>1
  <2> QED
    BY <2>2, UnlinkUnlocked
<1> QED
  BY <1>1, <1>2

\* No process that is alive has the file n from d, nor has the object come by another
\* one that such a process has.
Own(s, n) == Typed(s) /\ ~Locked(s.d, n)
OwnOr(file, s) == s.r.file_ = file \/ ~Locked(s.d, s.r.file_)

\* The stages of Write, one by one, do not come by a file of another process.
LEMMA PruneOwn ==
  ASSUME NEW s, NEW n, Own(s, n), NEW p \in Pruned(s)
  PROVE  Own(p, n) /\ p.r.file_ = s.r.file_
<1>1. PICK k : p = [r |-> [s.r EXCEPT !.file_list_ = k],
                    d |-> Unlink(s.d, {x.name : x \in s.r.file_list_ \ k})]
  BY PruneCases
<1>2. p.r.file_ = s.r.file_
  BY <1>1 DEF Own, Typed, TypedObject, Object
<1> QED
  BY <1>1, <1>2, UnlinkUnlocked, PruneTyped DEF Own

LEMMA HistoryOwn ==
  ASSUME NEW o, NEW s, NEW n, Own(s, n), NEW p \in CheckHistoryFileNum(o, s)
  PROVE  Own(p, n) /\ p.r.file_ = s.r.file_
<1>1. {"r", "d"} \subseteq DOMAIN s /\ "file_list_" \in DOMAIN s.r
  BY DEF Own, Typed, TypedObject, Object
<1>2. PICK k \in SUBSET Found(o, s.d) :
        p = [r |-> [s.r EXCEPT !.file_list_ = k],
             d |-> Unlink(s.d, {x.name : x \in Found(o, s.d) \ k})]
  BY <1>1, HistoryCases
<1>3. p.r.file_ = s.r.file_
  BY <1>2 DEF Own, Typed, TypedObject, Object
<1> QED
  BY <1>2, <1>3, UnlinkUnlocked, HistoryTyped DEF Own

LEMMA ReopenOwn ==
  ASSUME Context, pid \notin alive, NEW o, NEW s, NEW n, Own(s, n), NEW p \in Reopened(o, s)
  PROVE  Own(p, n) /\ OwnOr(s.r.file_, p)
<1>1. Typed(p)
  BY ReopenTyped DEF Own, Context
<1>2. CASE p = s
  BY <1>2 DEF OwnOr
<1>3. ASSUME NEW h \in CheckHistoryFileNum(o, s), NEW x \in h.r.file_list_,
             p = WithOldFile(h, x)
      PROVE  Own(p, n) /\ OwnOr(s.r.file_, p)
  <2>1. Own(h, n)
    BY HistoryOwn
  <2>2. p.r.file_ = x.name /\ p.d = OnOpen(h.d, x.name)
    BY <1>3, <2>1 DEF WithOldFile, Own, Typed, TypedObject, Object
  <2> QED
    BY <1>1, <2>1, <2>2, OpenUnlocked DEF Own, OwnOr, Typed
<1>4. ASSUME NEW h \in CheckHistoryFileNum(o, s), p = h
      PROVE  Own(p, n) /\ OwnOr(s.r.file_, p)
  BY <1>4, HistoryOwn DEF OwnOr
<1> QED
  BY <1>2, <1>3, <1>4, ReopenCases

LEMMA CreateOwn ==
  ASSUME Context, pid \notin alive, NEW o, NEW s, NEW m, Own(s, m), s.r.tm_time_ \in Nat,
         s.r.file_ = NoFile, NEW base \in Bases, NEW timestamp \in Nat,
         NEW c \in CreateLogfile(o, s, base, timestamp)
  PROVE  Own(c, m) /\ ~Locked(c.d, c.r.file_)
<1>1. PICK r : r = [s.r EXCEPT !.base_filename_ = base]
  OBVIOUS
<1>2. TypedObject(r) /\ r.tm_time_ = s.r.tm_time_ /\ r.file_ = NoFile
  BY <1>1, FieldTypes DEF Own, Typed, TypedObject, Object
<1>3. PICK n : n = FileName(o, r, base, timestamp)
  OBVIOUS
<1>4. n \in Name
  BY <1>2, <1>3, FileNameTyped DEF Context
<1>5. PICK f \in GetSuitableFileName(n, s.d) :
        \/ c.r = r /\ c.d = f.d /\ c.result # "created"
        \/ /\ c.d = OnOpen(f.d, f.name)
           /\ \E g \in GarbageTimes :
                c.r = WithFile(r, f.name, [name |-> n, time |-> g, id |-> NextId(r)])
  BY <1>1, <1>3, CreateCases
<1>6. f.name \in Name /\ Disk(f.d)
  BY <1>4, SuitableNameTyped DEF Own, Typed, Context
<1>7. ~Locked(f.d, m)
  BY SuitableUnlocked DEF Own
<1>8. Typed(c)
  BY CreateTyped DEF Own, Context
<1>9. CASE c.r = r /\ c.d = f.d
  BY <1>2, <1>6, <1>7, <1>8, <1>9, NoFileUnlocked DEF Own
<1>10. ASSUME NEW g \in GarbageTimes, c.d = OnOpen(f.d, f.name),
              c.r = WithFile(r, f.name, [name |-> n, time |-> g, id |-> NextId(r)])
       PROVE  Own(c, m) /\ ~Locked(c.d, c.r.file_)
  <2>1. c.r.file_ = f.name
    BY <1>2, <1>10 DEF WithFile, TypedObject, Object
  <2> QED
    BY <1>6, <1>7, <1>8, <1>10, <2>1, OpenUnlocked DEF Own
<1> QED
  BY <1>5, <1>9, <1>10

LEMMA AttemptOwn ==
  ASSUME Context, pid \notin alive, NEW o \in Objects, NEW s, NEW n, Own(s, n),
         s.r.file_ = NoFile, NEW timestamp \in Nat, NEW c \in Attempted(o, s, timestamp)
  PROVE  Own(c, n) /\ ~Locked(c.d, c.r.file_)
<1>1. PICK t : t = [s EXCEPT !.r.rollover_attempt_ = 0]
  OBVIOUS
<1>2. PICK h, base :
        /\ h \in Pruned(t) \/ h \in CheckHistoryFileNum(o, t)
        /\ IF s.r.base_filename_selected_ THEN base = s.r.base_filename_
           ELSE base \in Range(DefaultBases[o])
        /\ c \in CreateLogfile(o, Prepared(h, timestamp), base, timestamp)
  BY <1>1, AttemptCases
<1>3. Own(t, n) /\ t.r.file_ = NoFile
  <2>1. /\ TypedObject([s.r EXCEPT !.rollover_attempt_ = 0])
        /\ [s.r EXCEPT !.rollover_attempt_ = 0].file_ = NoFile
    BY FieldTypes DEF Own, Typed, TypedObject, Object
  <2> QED
    BY <1>1, <2>1 DEF Own, Typed
<1>4. Own(h, n) /\ h.r.file_ = NoFile
  BY <1>2, <1>3, PruneOwn, HistoryOwn
<1>5. base \in Bases
  BY <1>2, NamesAssumption DEF Own, Typed, TypedObject, Object, Bases, Range
<1>6. Typed(Prepared(h, timestamp)) /\ Prepared(h, timestamp).r.tm_time_ \in Nat
  BY <1>4, PreparedTyped DEF Own
<1>7. Prepared(h, timestamp).r.file_ = NoFile /\ Prepared(h, timestamp).d = h.d
  BY <1>4 DEF Prepared, Own, Typed, TypedObject, Object
<1>8. Own(Prepared(h, timestamp), n)
  BY <1>4, <1>6, <1>7 DEF Own
<1> QED
  BY <1>2, <1>5, <1>6, <1>7, <1>8, CreateOwn

LEMMA ReadyOwn ==
  ASSUME Context, pid \notin alive, NEW o \in Objects, NEW timestamp \in Nat, NEW n,
         Own(Rolled(obj[o], timestamp), n), NEW c \in Ready(o, timestamp)
  PROVE  Own(c, n) /\ OwnOr(Rolled(obj[o], timestamp).r.file_, c)
<1>1. PICK s \in Reopened(o, Rolled(obj[o], timestamp)) :
        \/ s.r.file_ # NoFile /\ c = [result |-> "created", r |-> s.r, d |-> s.d]
        \/ s.r.file_ = NoFile /\ c \in Attempted(o, s, timestamp)
  BY ReadyCases
<1>2. Own(s, n) /\ OwnOr(Rolled(obj[o], timestamp).r.file_, s)
  BY ReopenOwn
<1> QED
  BY <1>1, <1>2, AttemptOwn DEF Own, OwnOr, Typed

-----------------------------------------------------------------------------
(* What a process shares with others is inherited *)

\* The inductive invariant: the pids of the processes that are alive are older.
OwnInv == TypeInv /\ \A p \in alive : p < pid

\* Write starts from the file that it has, or from none, after a fork that it is told of.
LEMMA RollOwn ==
  ASSUME OwnInv, NEW o \in Objects, NEW timestamp
  PROVE  /\ Typed(Rolled(obj[o], timestamp))
         /\ \A n : ~Locked(disk, n) => ~Locked(Rolled(obj[o], timestamp).d, n)
         /\ \/ Rolled(obj[o], timestamp).r.file_ = NoFile
            \/ /\ Rolled(obj[o], timestamp).r.file_ = obj[o].file_
               /\ ~(log_rolling_policy = "size" /\ g_main_thread_pid # pid)
<1> DEFINE r == obj[o]
<1>1. TypedObject(r) /\ Disk(disk) /\ now \in Nat
  BY DEF OwnInv, TypeInv, TypeOK, TypedObject, Disk
<1>2. Typed(Rolled(r, timestamp))
  BY <1>1, RollTyped
<1>3. CASE CheckNeedRollLogFiles(r, timestamp)
  <2>1. /\ Rolled(r, timestamp).d = Drain(r, disk)
        /\ Rolled(r, timestamp).r =
              [Closed(r) EXCEPT !.file_length_ = 0, !.bytes_since_flush_ = 0,
                                !.rollover_attempt_ = kRolloverAttemptFrequency - 1]
    BY <1>3 DEF Rolled
  <2> HIDE DEF r
  <2>2. Rolled(r, timestamp).r.file_ = NoFile
    BY <1>1, <2>1 DEF Closed, TypedObject, Object
  <2>3. \A n : ~Locked(disk, n) => ~Locked(Drain(r, disk), n)
    BY <1>1, DrainUnlocked DEF TypedObject
  <2> QED
    BY <1>2, <2>1, <2>2, <2>3 DEF r
<1>4. CASE ~CheckNeedRollLogFiles(r, timestamp)
  <2>1. ~(log_rolling_policy = "size" /\ g_main_thread_pid # pid)
    BY <1>4 DEF CheckNeedRollLogFiles
  <2>2. Rolled(r, timestamp).r = r /\ Rolled(r, timestamp).d = disk
    BY <1>4 DEF Rolled
  <2> QED
    BY <1>2, <2>1, <2>2
<1> QED
  BY <1>3, <1>4

\* A file n that is not another process's before Write is not one afterwards; and the
\* file of the object is the one it has started from, or one of its own.
LEMMA WriteKeeps ==
  ASSUME OwnInv, NEW o \in Objects, NEW len \in Nat, NEW force_flush \in BOOLEAN,
         NEW timestamp \in Nat, Write(o, len, force_flush, timestamp),
         NEW n, ~Locked(Rolled(obj[o], timestamp).d, n)
  PROVE  /\ ~Locked(disk', n)
         /\ \/ obj'[o].file_ = Rolled(obj[o], timestamp).r.file_
            \/ ~Locked(disk', obj'[o].file_)
<1> DEFINE start == Rolled(obj[o], timestamp)
           Goal == /\ ~Locked(disk', n)
                   /\ obj'[o].file_ = start.r.file_ \/ ~Locked(disk', obj'[o].file_)
<1>1. Context /\ pid \notin alive /\ obj \in [Objects -> Object]
  BY DEF OwnInv, TypeInv, TypeOK, Context, Disk
<1>2. Own(start, n)
  BY RollOwn DEF Own
<1> HIDE DEF start
<1>3. \A c \in Ready(o, timestamp) : Own(c, n) /\ OwnOr(start.r.file_, c)
  BY <1>1, <1>2, ReadyOwn DEF start
<1>4. ASSUME NEW r, NEW d, Put(o, r, d), ~Locked(d, n),
             r.file_ = start.r.file_ \/ ~Locked(d, r.file_)
      PROVE  Goal
  BY <1>1, <1>4 DEF Put
<1>5. ASSUME NEW s \in Reopened(o, start), Put(o, [s.r EXCEPT !.rollover_attempt_ = @ + 1], s.d)
      PROVE  Goal
  <2>1. Own(s, n) /\ OwnOr(start.r.file_, s)
    BY <1>1, <1>2, ReopenOwn
  <2>2. [s.r EXCEPT !.rollover_attempt_ = @ + 1].file_ = s.r.file_
    BY <2>1 DEF Own, Typed, TypedObject, Object
  <2> HIDE DEF Goal
  <2> QED
    BY <1>4, <1>5, <2>1, <2>2 DEF Own, OwnOr
<1>6. ASSUME NEW c \in Ready(o, timestamp), Put(o, c.r, c.d) PROVE Goal
  <2> HIDE DEF Goal
  <2> QED
    BY <1>3, <1>4, <1>6 DEF Own, OwnOr
<1>7. ASSUME NEW c \in Ready(o, timestamp), Put(o, [c.r EXCEPT !.stdio = 0], c.d) PROVE Goal
  <2>1. Own(c, n) /\ OwnOr(start.r.file_, c)
    BY <1>3
  <2>2. [c.r EXCEPT !.stdio = 0].file_ = c.r.file_
    BY <2>1 DEF Own, Typed, TypedObject, Object
  <2> HIDE DEF Goal
  <2> QED
    BY <1>4, <1>7, <2>1, <2>2 DEF Own, OwnOr
<1>8. ASSUME NEW c \in Ready(o, timestamp), NEW b \in Buffered(c.r, len),
             Put(o, PutObject(Appended(c.r, b, len), force_flush),
                    PutDisk(Appended(c.r, b, len), c.d, force_flush))
      PROVE  Goal
  <2>1. PICK w : w = Appended(c.r, b, len)
    OBVIOUS
  <2>2. Own(c, n) /\ OwnOr(start.r.file_, c) /\ b \in Nat
    BY <1>3 DEF Buffered, Own, Typed, TypedObject, Object
  <2>3. TypedObject(w) /\ w.file_ = c.r.file_ /\ w \in Object /\ Disk(c.d)
    BY <2>1, <2>2, AppendTyped DEF Own, Typed, TypedObject
  <2>4. PutObject(w, force_flush).file_ = w.file_
    BY <2>3 DEF PutObject, Flushed, Object
  <2>5. ASSUME NEW m, ~Locked(c.d, m)
        PROVE  ~Locked(PutDisk(w, c.d, force_flush), m)
    <3>1. ~Locked(Drain(w, c.d), m)
      BY <2>3, <2>5, DrainUnlocked
    <3>2. ~Locked(Cleaned(w, Drain(w, c.d)), m)
      BY <3>1, UnlinkUnlocked DEF Cleaned
    <3> QED
      BY <2>5, <3>2 DEF PutDisk
  <2>6. ~Locked(PutDisk(w, c.d, force_flush), n)
    BY <2>2, <2>5 DEF Own
  <2>7. w.file_ = start.r.file_ \/ ~Locked(PutDisk(w, c.d, force_flush), w.file_)
    BY <2>2, <2>3, <2>5 DEF OwnOr
  <2> HIDE DEF Goal
  <2> QED
    BY <1>4, <1>8, <2>1, <2>4, <2>6, <2>7
<1> QED
  BY <1>5, <1>6, <1>7, <1>8, WriteCases DEF start

LEMMA WriteOwn ==
  ASSUME OwnInv, NEW o \in Objects, NEW len \in Nat, NEW force_flush \in BOOLEAN,
         NEW timestamp \in Nat, Write(o, len, force_flush, timestamp)
  PROVE  /\ \A n : ~Locked(disk, n) => ~Locked(disk', n)
         /\ \/ ~Locked(disk, obj[o].file_)
            \/ log_rolling_policy = "size" /\ g_main_thread_pid # pid
            => ~Locked(disk', obj'[o].file_)
<1> DEFINE start == Rolled(obj[o], timestamp)
<1>1. /\ Typed(start)
      /\ \A n : ~Locked(disk, n) => ~Locked(start.d, n)
      /\ \/ start.r.file_ = NoFile
         \/ /\ start.r.file_ = obj[o].file_
            /\ ~(log_rolling_policy = "size" /\ g_main_thread_pid # pid)
  BY RollOwn
<1>2. \A n : ~Locked(start.d, n) =>
        /\ ~Locked(disk', n)
        /\ obj'[o].file_ = start.r.file_ \/ ~Locked(disk', obj'[o].file_)
  BY WriteKeeps
<1> HIDE DEF start
<1>3. ASSUME \/ ~Locked(disk, obj[o].file_)
             \/ log_rolling_policy = "size" /\ g_main_thread_pid # pid
      PROVE  ~Locked(start.d, start.r.file_)
  <2>1. CASE start.r.file_ = NoFile
    BY <1>1, <2>1, NoFileUnlocked DEF Typed
  <2>2. CASE start.r.file_ # NoFile
    BY <1>1, <1>3, <2>2
  <2> QED
    BY <2>1, <2>2
<1> QED
  BY <1>1, <1>2, <1>3

\* What a step promises of the files of other processes.
Inherits ==
  \A o \in Objects : /\ pid' = pid /\ OwnFile(o) => OwnFile(o)'
                     /\ Told(o) \/ WritesUntold(o) => OwnFile(o)'

\* Every exit of Write preserves the invariant.
LEMMA WriteInherits ==
  ASSUME OwnInv, NEW o \in Objects, NEW len \in Nat, NEW force_flush \in BOOLEAN,
         NEW timestamp \in Nat, Write(o, len, force_flush, timestamp)
  PROVE  OwnInv' /\ Inherits
<1>1. /\ \A n : ~Locked(disk, n) => ~Locked(disk', n)
      /\ \/ ~Locked(disk, obj[o].file_)
         \/ log_rolling_policy = "size" /\ g_main_thread_pid # pid
         => ~Locked(disk', obj'[o].file_)
  BY WriteOwn
<1>2. pid' = pid /\ alive' = alive /\ g_main_thread_pid' = MainThreadPid(o)
  BY WriteCases DEF Writes
<1>3. OwnInv'
  BY <1>2, WriteTyped DEF OwnInv
<1>4. \A p \in Objects \ {o} : obj'[p] = obj[p]
  BY WriteCases DEF Put, OwnInv, TypeInv, TypeOK
<1>5. \A p \in Objects : OwnFile(p)' <=> ~Locked(disk', obj'[p].file_)
  BY <1>2 DEF OwnFile, Locked
<1>6. Told(o) => log_rolling_policy = "size" /\ g_main_thread_pid # pid
  BY <1>2 DEF Told, MainThreadPid
<1>7. ASSUME NEW p \in Objects, p # o
      PROVE  ~Told(p) /\ ~WritesUntold(p) /\ (OwnFile(p) => OwnFile(p)')
  BY <1>1, <1>4, <1>5, <1>7 DEF Told, WritesUntold, OwnFile
<1>8. (OwnFile(o) => OwnFile(o)') /\ (Told(o) \/ WritesUntold(o) => OwnFile(o)')
  BY <1>1, <1>5, <1>6 DEF WritesUntold, OwnFile
<1> QED
  BY <1>3, <1>7, <1>8 DEF Inherits

\* The operations besides Write: the file stays as it is, or is closed.
LEMMA OperationOwn ==
  ASSUME OwnInv, NEW o \in Objects,
         \/ Flush(o)
         \/ \E b \in BaseNames : SetBasename(o, b)
         \/ \E e \in Extensions : SetExtension(o, e)
  PROVE  OwnInv' /\ Inherits
<1> DEFINE r == obj[o]
           selected == [r EXCEPT !.base_filename_selected_ = TRUE]
<1>1. /\ TypedObject(r) /\ Disk(disk) /\ r \in Object
      /\ obj \in [Objects -> Object] /\ now \in Nat
  BY DEF OwnInv, TypeInv, TypeOK, TypedObject, Disk
<1>2. TypeInv'
  BY OperationTyped DEF OwnInv
<1>3. UNCHANGED <<pid, alive, g_main_thread_pid>>
  BY DEF Flush, SetBasename, SetExtension, process
<1>4. PICK q, d : /\ Put(o, q, d)
                  /\ q.file_ \in {r.file_, NoFile}
                  /\ q.file_length_ = r.file_length_
                  /\ \E x \in Object : d = disk \/ d = Drain(x, disk)
  <2>1. CASE Flush(o)
    <3>1. Flushed(r).file_ = r.file_ /\ Flushed(r).file_length_ = r.file_length_
      <4> HIDE DEF r
      <4> QED
        BY <1>1 DEF Flushed, Object
    <3> QED
      BY <1>1, <2>1, <3>1 DEF Flush
  <2>2. ASSUME NEW x \in Object
        PROVE  Renamed(x).file_ \in {x.file_, NoFile} /\ Renamed(x).file_length_ = x.file_length_
    BY DEF Renamed, Closed, Object
  <2>3. ASSUME NEW b \in BaseNames, SetBasename(o, b)
        PROVE  \E q, d : /\ Put(o, q, d)
                         /\ q.file_ \in {r.file_, NoFile}
                         /\ q.file_length_ = r.file_length_
                         /\ \E x \in Object : d = disk \/ d = Drain(x, disk)
    <3>1. TypedObject(selected)
      <4> HIDE DEF r
      <4> QED
        BY <1>1, FieldTypes
    <3>2. selected.file_ = r.file_ /\ selected.file_length_ = r.file_length_
      <4> HIDE DEF r
      <4> QED
        BY <1>1 DEF Object
    <3>3. \/ Put(o, selected, disk)
          \/ Put(o, [Renamed(selected) EXCEPT !.base_filename_ = b], Drain(selected, disk))
      BY <2>3 DEF SetBasename
    <3> DEFINE q == [Renamed(selected) EXCEPT !.base_filename_ = b]
    <3>4. q.file_ = Renamed(selected).file_ /\ q.file_length_ = Renamed(selected).file_length_
      <4>1. Renamed(selected) \in Object
        BY <3>1, RenameTyped DEF TypedObject
      <4> HIDE DEF selected
      <4> QED
        BY <4>1 DEF Object
    <3>5. selected \in Object
      BY <3>1 DEF TypedObject
    <3> HIDE DEF r, selected, q
    <3>6. q.file_ \in {r.file_, NoFile} /\ q.file_length_ = r.file_length_
      BY <2>2, <3>2, <3>4, <3>5
    <3> QED
      BY <3>2, <3>3, <3>5, <3>6 DEF q
  <2>4. ASSUME NEW e \in Extensions, SetExtension(o, e)
        PROVE  \E q, d : /\ Put(o, q, d)
                         /\ q.file_ \in {r.file_, NoFile}
                         /\ q.file_length_ = r.file_length_
                         /\ \E x \in Object : d = disk \/ d = Drain(x, disk)
    <3> DEFINE q == [Renamed(r) EXCEPT !.filename_extension_ = e]
    <3>1. Put(o, q, Drain(r, disk))
      BY <2>4 DEF SetExtension
    <3> HIDE DEF r
    <3>2. q.file_ = Renamed(r).file_ /\ q.file_length_ = Renamed(r).file_length_
      <4>1. Renamed(r) \in Object
        BY <1>1, RenameTyped DEF TypedObject
      <4> QED
        BY <4>1 DEF Object
    <3> HIDE DEF q
    <3> QED
      BY <1>1, <2>2, <3>1, <3>2
  <2> QED
    BY <2>1, <2>3, <2>4
<1>5. ASSUME NEW n, ~Locked(disk, n) PROVE ~Locked(d, n)
  BY <1>1, <1>4, <1>5, DrainUnlocked
<1>6. Disk(d)
  BY <1>1, <1>4, DrainTyped
<1>7. ~Locked(disk, r.file_) => ~Locked(d, q.file_)
  BY <1>4, <1>5, <1>6, NoFileUnlocked
<1>8. \A p \in Objects : obj'[p] = (IF p = o THEN q ELSE obj[p]) /\ disk' = d
  BY <1>1, <1>4 DEF Put
<1>9. ASSUME NEW p \in Objects
      PROVE  /\ OwnFile(p) => OwnFile(p)'
             /\ ~Told(p) /\ ~WritesUntold(p)
  <2>1. OwnFile(p) => OwnFile(p)'
    BY <1>3, <1>5, <1>7, <1>8 DEF OwnFile, Locked
  <2>2. obj'[p].file_length_ = obj[p].file_length_
    BY <1>4, <1>8
  <2> QED
    BY <1>3, <2>1, <2>2 DEF Told, WritesUntold
<1> QED
  BY <1>2, <1>3, <1>9 DEF OwnInv, Inherits

\* Whatever rolls, prunes, renames, restarts and forks there are, and for any number of
\* log files: an object with a file of its own never comes by a file that another process
\* has, and the object that PidHasChanged tells of a fork, or that writes before any
\* has been told, leaves the file it has inherited.  So the files that two processes
\* write to are those from before the fork, of objects that ask too late.
THEOREM InheritsOnly == Spec => SharesOnlyInherited
<1>1. Init => OwnInv
  <2> SUFFICES ASSUME Init PROVE OwnInv
    OBVIOUS
  <2>1. TypeInv
    BY InitTyped
  <2>2. alive = {}
    BY DEF Init
  <2> QED
    BY <2>1, <2>2 DEF OwnInv
<1>2. OwnInv /\ [Next]_vars => OwnInv' /\ [Inherits]_vars
  <2> SUFFICES ASSUME OwnInv, [Next]_vars PROVE OwnInv' /\ Inherits
    OBVIOUS
  <2>1. ASSUME NEW o \in Objects, Log(o) PROVE OwnInv' /\ Inherits
    <3>1. PICK len \in Lengths, should_flush \in BOOLEAN : Write(o, len, should_flush, now)
      BY <2>1 DEF Log
    <3>2. len \in Nat /\ now \in Nat
      BY FlagsAssumption DEF OwnInv, TypeInv, TypeOK
    <3> QED
      BY <3>1, <3>2, WriteInherits
  <2>2. ASSUME NEW o \in Objects, FatalFlush(o) PROVE OwnInv' /\ Inherits
    BY <2>2, WriteInherits DEF FatalFlush
  <2>3. ASSUME NEW o \in Objects,
               \/ Flush(o)
               \/ \E b \in BaseNames : SetBasename(o, b)
               \/ \E e \in Extensions : SetExtension(o, e)
        PROVE  OwnInv' /\ Inherits
    BY <2>3, OperationOwn
  <2>4. CASE Restart
    <3>1. TypeInv'
      BY <2>4, RestartTyped DEF OwnInv
    <3>2. PICK g \in [Objects -> GarbageTimes] :
            obj' = [o \in Objects |-> NewObject(StartBase[o], g[o])]
      BY <2>4 DEF Restart
    <3>3. \A p \in Objects : obj'[p].file_ = NoFile
      BY <3>2 DEF NewObject
    <3>4. Disk(disk) /\ pid \in Nat /\ alive \subseteq Nat
      BY DEF OwnInv, TypeInv, TypeOK, Disk
    <3>5. pid' = pid + 1 /\ alive' = alive /\ disk' = disk
      BY <2>4 DEF Restart
    <3>6. \A p \in Objects : ~Locked(disk, obj'[p].file_)
      BY <3>3, <3>4, NoFileUnlocked
    <3>7. \A p \in Objects : OwnFile(p)'
      BY <3>5, <3>6 DEF OwnFile, Locked
    <3>8. \A p \in alive' : p < pid'
      BY <3>4, <3>5 DEF OwnInv
    <3> QED
      BY <3>1, <3>7, <3>8 DEF OwnInv, Inherits
  <2>5. ASSUME UNCHANGED <<obj, disk, pid, alive>>, TypeInv' PROVE OwnInv' /\ Inherits
    BY <2>5 DEF OwnInv, Inherits, OwnFile, Locked, Told, WritesUntold
  <2>6. TypeInv'
    BY TypeInvStep DEF OwnInv
  <2>7. ASSUME NEW overdue \in OverdueTimes, EnableLogCleaner(overdue)
        PROVE  OwnInv' /\ Inherits
    BY <2>5, <2>6, <2>7 DEF EnableLogCleaner, process
  <2>8. CASE DisableLogCleaner
    BY <2>5, <2>6, <2>8 DEF DisableLogCleaner, process
  <2>9. CASE Tick
    BY <2>5, <2>6, <2>9 DEF Tick, process
  <2>10. CASE DiskFills
    BY <2>5, <2>6, <2>10 DEF DiskFills, process
  <2>11. CASE Fork
    <3>1. obj' = obj /\ pid' = pid + 1 /\ alive' = alive \cup {pid}
      BY <2>11 DEF Fork
    <3>2. pid \in Nat /\ alive \subseteq Nat
      BY DEF OwnInv, TypeInv, TypeOK
    <3>3. pid' # pid /\ \A p \in alive' : p < pid'
      BY <3>1, <3>2 DEF OwnInv
    <3>4. \A o \in Objects : ~Told(o) /\ ~WritesUntold(o)
      BY <3>1 DEF Told, WritesUntold
    <3> QED
      BY <2>6, <3>3, <3>4 DEF OwnInv, Inherits
  <2>12. CASE UNCHANGED vars
    BY <2>5, <2>6, <2>12 DEF vars, process
  <2> QED
    BY <2>1, <2>2, <2>3, <2>4, <2>7, <2>8, <2>9, <2>10, <2>11, <2>12 DEF Next
<1> QED
  BY <1>1, <1>2, PTL DEF Spec, SharesOnlyInherited, Inherits

-----------------------------------------------------------------------------
(***************************************************************************)
(* Open files stay where they are.                                         *)
(***************************************************************************)

\* The log files of different objects have different base names: those an object
\* may use are in bases[o].  A program that selects names must not select one name
\* for two severities.
Separate(bases) ==
  /\ \A o, p \in Objects : o # p => bases[o] \cap (bases[p] \cup {NoBase}) = {}
  /\ \A o \in Objects : Range(DefaultBases[o]) \cup History[o] \subseteq bases[o]
  /\ \A s \in Setups, o \in Objects :
       /\ s.StartBase[o] \in bases[o] \cup {NoBase}
       /\ s.Renames => BaseNames \subseteq bases[o] \cup {NoBase}

\* The cleaner, if it is used, finds open files that have just been written to: the
\* disk takes what is written, every message has text, and so has the header if the
\* flush of a FATAL message is to write a new file.
CleanerSpares ==
  \A s \in Setups :
    s.OverdueTimes # {} =>
      /\ ~DiskMayFill
      /\ 0 \notin Lengths
      /\ s.FatalFlushes => HeaderLength > 0 /\ kRolloverAttemptFrequency > 1

\* An object uses names of base names B only, and has its file.
Held(r, d, B) ==
  /\ r.file_ # NoFile => r.file_ \in DOMAIN d /\ r.file_.base \in B /\ r.initialized_
  /\ \A x \in r.file_list_ : x.name.base \in B
  /\ r.base_filename_ \in B \cup {NoBase}
  /\ r.stdio > 0 => r.file_ # NoFile

\* An object that has not looked for old files attempts to create one.
Waiting(r) == ~r.initialized_ => r.rollover_attempt_ = kRolloverAttemptFrequency - 1

\* Files of other objects are still there.
Kept_(d, B) == \A n \in DOMAIN disk : n.base \notin B => n \in DOMAIN d

Linked(s, B) ==
  /\ Typed(s)
  /\ Held(s.r, s.d, B)
  /\ s.r.base_filename_selected_ => s.r.base_filename_ # NoBase
  /\ Kept_(s.d, B)

LinkInv(bases) ==
  /\ TypeInv
  /\ setup \in Setups
  /\ log_cleaner.enabled_ => OverdueTimes # {}
  /\ full => DiskMayFill
  /\ \A o \in Objects :
       /\ Held(obj[o], disk, bases[o])
       /\ Waiting(obj[o])
       /\ ~obj[o].initialized_ => skipped[o] = 0

\* The files that exist after fwrite, unlink and open.
LEMMA DrainDomain ==
  ASSUME NEW r, NEW d
  PROVE  DOMAIN Drain(r, d) = DOMAIN d
BY DEF Drain

LEMMA UnlinkDomain ==
  ASSUME NEW d, NEW names
  PROVE  DOMAIN Unlink(d, names) = DOMAIN d \ names
BY DEF Unlink, Restrict

LEMMA OpenDomain ==
  ASSUME NEW d, NEW n
  PROVE  DOMAIN OnOpen(d, n) = DOMAIN d \cup {n}
BY DEF OnOpen

\* The stages of Write, one by one, take away files of their own base names only,
\* and none that is open.
LEMMA PruneLinked ==
  ASSUME NEW B, NEW s, Linked(s, B), s.r.file_ = NoFile, NEW p \in Pruned(s)
  PROVE  /\ Linked(p, B) /\ p.r.file_ = NoFile
         /\ p.r.initialized_ = s.r.initialized_
         /\ p.r.rollover_attempt_ = s.r.rollover_attempt_
         /\ p.r.base_filename_selected_ = s.r.base_filename_selected_
<1>1. PICK k \in SUBSET s.r.file_list_ :
        p = [r |-> [s.r EXCEPT !.file_list_ = k],
             d |-> Unlink(s.d, {x.name : x \in s.r.file_list_ \ k})]
  BY PruneCases
<1>2. PICK names : names = {x.name : x \in s.r.file_list_ \ k}
  OBVIOUS
<1>3. \A n \in names : n.base \in B
  BY <1>2 DEF Linked, Held
<1>4. p.r = [s.r EXCEPT !.file_list_ = k] /\ p.d = Unlink(s.d, names)
  BY <1>1, <1>2
<1>5. s.r \in Object
  BY DEF Linked, Typed, TypedObject
<1>6. /\ p.r.file_ = NoFile
      /\ p.r.initialized_ = s.r.initialized_
      /\ p.r.rollover_attempt_ = s.r.rollover_attempt_
      /\ p.r.base_filename_ = s.r.base_filename_
      /\ p.r.base_filename_selected_ = s.r.base_filename_selected_
      /\ p.r.stdio = s.r.stdio
      /\ p.r.file_list_ = k
  BY <1>4, <1>5 DEF Linked, Object
<1>7. Kept_(p.d, B)
  <2>1. DOMAIN p.d = DOMAIN s.d \ names
    BY <1>4, UnlinkDomain
  <2> QED
    BY <1>3, <2>1 DEF Linked, Kept_
<1>8. Typed(p)
  BY PruneTyped DEF Linked
<1>9. Held(p.r, p.d, B)
  BY <1>6 DEF Linked, Held
<1> QED
  BY <1>6, <1>7, <1>8, <1>9 DEF Linked

LEMMA HistoryLinked ==
  ASSUME NEW B, NEW o, History[o] \subseteq B, NEW s, Linked(s, B), s.r.file_ = NoFile,
         NEW p \in CheckHistoryFileNum(o, s)
  PROVE  /\ Linked(p, B) /\ p.r.file_ = NoFile
         /\ p.r.initialized_ = s.r.initialized_
         /\ p.r.rollover_attempt_ = s.r.rollover_attempt_
         /\ p.r.base_filename_selected_ = s.r.base_filename_selected_
<1>1. {"r", "d"} \subseteq DOMAIN s /\ "file_list_" \in DOMAIN s.r
  BY DEF Linked, Typed, TypedObject, Object
<1>2. PICK k \in SUBSET Found(o, s.d) :
        p = [r |-> [s.r EXCEPT !.file_list_ = k],
             d |-> Unlink(s.d, {x.name : x \in Found(o, s.d) \ k})]
  BY <1>1, HistoryCases
<1>3. PICK names : names = {x.name : x \in Found(o, s.d) \ k}
  OBVIOUS
<1>4. \A x \in Found(o, s.d) : x.name.base \in B
  BY DEF Found
<1>5. \A n \in names : n.base \in B
  BY <1>3, <1>4
<1>6. p.r = [s.r EXCEPT !.file_list_ = k] /\ p.d = Unlink(s.d, names)
  BY <1>2, <1>3
<1>7. s.r \in Object
  BY DEF Linked, Typed, TypedObject
<1>8. /\ p.r.file_ = NoFile
      /\ p.r.initialized_ = s.r.initialized_
      /\ p.r.rollover_attempt_ = s.r.rollover_attempt_
      /\ p.r.base_filename_ = s.r.base_filename_
      /\ p.r.base_filename_selected_ = s.r.base_filename_selected_
      /\ p.r.stdio = s.r.stdio
      /\ p.r.file_list_ = k
  BY <1>6, <1>7 DEF Linked, Object
<1>9. Kept_(p.d, B)
  <2>1. DOMAIN p.d = DOMAIN s.d \ names
    BY <1>6, UnlinkDomain
  <2> QED
    BY <1>5, <2>1 DEF Linked, Kept_
<1>10. Typed(p)
  BY HistoryTyped DEF Linked
<1>11. Held(p.r, p.d, B)
  BY <1>4, <1>8 DEF Linked, Held
<1> QED
  BY <1>8, <1>9, <1>10, <1>11 DEF Linked

LEMMA ReopenLinked ==
  ASSUME Context, NEW B, NEW o, History[o] \subseteq B, NEW s, Linked(s, B), Waiting(s.r),
         NEW p \in Reopened(o, s)
  PROVE  Linked(p, B) /\ Waiting(p.r)
<1>1. CASE p = s
  BY <1>1
<1>2. ASSUME s.r.file_ = NoFile, NEW h \in CheckHistoryFileNum(o, s)
      PROVE  Linked(h, B) /\ h.r.file_ = NoFile /\ Waiting(h.r)
  BY <1>2, HistoryLinked DEF Waiting
<1>3. ASSUME s.r.file_ = NoFile, NEW h \in CheckHistoryFileNum(o, s), NEW x \in h.r.file_list_,
             p = WithOldFile(h, x)
      PROVE  Linked(p, B) /\ Waiting(p.r)
  <2>1. Linked(h, B) /\ h.r.file_ = NoFile /\ h.r \in Object
    BY <1>2, <1>3 DEF Linked, Typed, TypedObject
  <2>2. p.r = [h.r EXCEPT !.file_ = x.name, !.initialized_ = TRUE] /\ p.d = OnOpen(h.d, x.name)
    BY <1>3 DEF WithOldFile
  <2>3. /\ p.r.file_ = x.name
        /\ p.r.initialized_
        /\ p.r.base_filename_ = h.r.base_filename_
        /\ p.r.base_filename_selected_ = h.r.base_filename_selected_
        /\ p.r.stdio = h.r.stdio
        /\ p.r.file_list_ = h.r.file_list_
    BY <2>1, <2>2 DEF Object
  <2>4. x.name.base \in B /\ x.name # NoFile
    <3>1. x \in Filetime
      BY <2>1 DEF Object
    <3> QED
      BY <2>1, <3>1, NamesAssumption DEF Linked, Held, Filetime
  <2>5. Typed(p)
    BY ReopenTyped DEF Linked, Context
  <2>0. DOMAIN p.d = DOMAIN h.d \cup {x.name}
    BY <2>2, OpenDomain
  <2>6. Held(p.r, p.d, B)
    BY <2>0, <2>1, <2>3, <2>4 DEF Linked, Held
  <2>7. Kept_(p.d, B)
    BY <2>0, <2>1 DEF Linked, Kept_
  <2> QED
    BY <2>1, <2>3, <2>5, <2>6, <2>7 DEF Linked, Waiting
<1> QED
  BY <1>1, <1>2, <1>3, ReopenCases

\* CreateLogfile opens a file of the object's base names; the oldest numbered file
\* that makes room for it is one of them.
LEMMA CreateLinked ==
  ASSUME Context, NEW B, NEW o, NEW s, Linked(s, B), s.r.file_ = NoFile, s.r.initialized_,
         s.r.tm_time_ \in Nat, NEW base \in Bases, base \in B,
         s.r.base_filename_selected_ => base # NoBase,
         NEW timestamp \in Nat, NEW c \in CreateLogfile(o, s, base, timestamp)
  PROVE  /\ Linked(c, B) /\ c.r.initialized_
         /\ c.result = "created" => c.r.file_ # NoFile /\ c.r.stdio = HeaderLength
<1>1. PICK r : r = [s.r EXCEPT !.base_filename_ = base]
  OBVIOUS
<1>2. s.r \in Object /\ TypedObject(r) /\ r \in Object
  BY <1>1, FieldTypes DEF Linked, Typed, TypedObject
<1>3. /\ r.tm_time_ = s.r.tm_time_ /\ r.file_ = NoFile /\ r.base_filename_ = base
      /\ r.initialized_ /\ r.stdio = s.r.stdio /\ r.file_list_ = s.r.file_list_
      /\ r.base_filename_selected_ = s.r.base_filename_selected_
  BY <1>1, <1>2 DEF Object
<1>4. PICK n : n = FileName(o, r, base, timestamp)
  OBVIOUS
<1>5. n \in Name /\ n.base = base
  BY <1>2, <1>3, <1>4, FileNameTyped DEF Context, FileName
<1>6. PICK f \in GetSuitableFileName(n, s.d) :
        \/ c.r = r /\ c.d = f.d /\ c.result # "created"
        \/ /\ c.d = OnOpen(f.d, f.name)
           /\ \E g \in GarbageTimes :
                c.r = WithFile(r, f.name, [name |-> n, time |-> g, id |-> NextId(r)])
  BY <1>1, <1>4, CreateCases
<1>7. /\ f.name \in Name /\ f.name.base = base
      /\ \A m \in DOMAIN s.d : m.base # base => m \in DOMAIN f.d
  BY <1>5, SuitableNameTyped DEF Linked, Typed, Context
<1>8. Kept_(f.d, B)
  BY <1>7 DEF Kept_, Linked
<1>9. Typed(c)
  BY CreateTyped DEF Linked, Context
<1>10. CASE c.r = r /\ c.d = f.d /\ c.result # "created"
  <2>1. Held(c.r, c.d, B)
    BY <1>3, <1>10 DEF Held, Linked
  <2> QED
    BY <1>3, <1>8, <1>9, <1>10, <2>1 DEF Linked
<1>11. ASSUME NEW g \in GarbageTimes, c.d = OnOpen(f.d, f.name),
              c.r = WithFile(r, f.name, [name |-> n, time |-> g, id |-> NextId(r)])
       PROVE  /\ Linked(c, B) /\ c.r.initialized_
              /\ c.r.file_ # NoFile /\ c.r.stdio = HeaderLength
  <2>1. PICK entry : entry = [name |-> n, time |-> g, id |-> NextId(r)]
    OBVIOUS
  <2>2. PICK list : list = r.file_list_ \cup {entry}
    OBVIOUS
  <2>3. /\ c.r.file_ = f.name /\ c.r.initialized_ /\ c.r.stdio = HeaderLength
        /\ c.r.file_list_ = list /\ c.r.base_filename_ = base
        /\ c.r.base_filename_selected_ = s.r.base_filename_selected_
    BY <1>2, <1>3, <1>11, <2>1, <2>2 DEF WithFile, Object
  <2>4. \A x \in list : x.name.base \in B
    BY <1>3, <1>5, <2>1, <2>2 DEF Linked, Held
  <2>5. DOMAIN c.d = DOMAIN f.d \cup {f.name}
    BY <1>11, OpenDomain
  <2>6. f.name # NoFile
    BY <1>7, NamesAssumption
  <2>7. Held(c.r, c.d, B)
    BY <1>7, <2>3, <2>4, <2>5, <2>6 DEF Held
  <2>8. Kept_(c.d, B)
    BY <1>8, <2>5 DEF Kept_
  <2> QED
    BY <1>9, <2>3, <2>6, <2>7, <2>8 DEF Linked
<1> QED
  BY <1>6, <1>10, <1>11

LEMMA PreparedLinked ==
  ASSUME NEW B, NEW h, Linked(h, B), h.r.file_ = NoFile, NEW timestamp \in Nat,
         NEW p, p = Prepared(h, timestamp)
  PROVE  /\ Linked(p, B) /\ p.r.file_ = NoFile /\ p.r.initialized_ /\ p.r.tm_time_ \in Nat
         /\ p.r.base_filename_ = h.r.base_filename_
         /\ p.r.base_filename_selected_ = h.r.base_filename_selected_
<1>1. h.r \in Object
  BY DEF Linked, Typed, TypedObject
<1>2. Typed(p) /\ p.r.tm_time_ \in Nat
  BY PreparedTyped DEF Linked
<1>3. p.d = h.d
  BY DEF Prepared, Linked, Typed
<1>4. \E tm : p.r = [h.r EXCEPT !.initialized_ = TRUE, !.tm_time_ = tm]
  BY DEF Prepared, Linked, Typed, TypedObject, Object
<1>5. /\ p.r.file_ = NoFile /\ p.r.initialized_ /\ p.r.stdio = h.r.stdio
      /\ p.r.file_list_ = h.r.file_list_
      /\ p.r.base_filename_ = h.r.base_filename_
      /\ p.r.base_filename_selected_ = h.r.base_filename_selected_
  BY <1>1, <1>4 DEF Object
<1>6. Held(p.r, p.d, B)
  BY <1>3, <1>5 DEF Linked, Held
<1> QED
  BY <1>2, <1>3, <1>5, <1>6 DEF Linked

LEMMA AttemptLinked ==
  ASSUME Context, NEW bases, Separate(bases), NEW o \in Objects, NEW s, Linked(s, bases[o]),
         s.r.file_ = NoFile, NEW timestamp \in Nat, NEW c \in Attempted(o, s, timestamp)
  PROVE  /\ Linked(c, bases[o]) /\ c.r.initialized_
         /\ c.result = "created" => c.r.file_ # NoFile /\ c.r.stdio = HeaderLength
<1>1. PICK t : t = [s EXCEPT !.r.rollover_attempt_ = 0]
  OBVIOUS
<1>2. PICK h, base :
        /\ h \in Pruned(t) \/ h \in CheckHistoryFileNum(o, t)
        /\ IF s.r.base_filename_selected_ THEN base = s.r.base_filename_
           ELSE base \in Range(DefaultBases[o])
        /\ c \in CreateLogfile(o, Prepared(h, timestamp), base, timestamp)
  BY <1>1, AttemptCases
<1>3. PICK B : B = bases[o]
  OBVIOUS
<1>4. /\ Linked(t, B) /\ t.r.file_ = NoFile
      /\ t.r.base_filename_selected_ = s.r.base_filename_selected_
  <2>1. s.r \in Object
    BY DEF Linked, Typed, TypedObject
  <2>2. PICK q : q = [s.r EXCEPT !.rollover_attempt_ = 0]
    OBVIOUS
  <2>3. TypedObject(q)
    BY <2>2, FieldTypes DEF Linked, Typed
  <2>4. /\ q.file_ = NoFile /\ q.initialized_ = s.r.initialized_ /\ q.stdio = s.r.stdio
        /\ q.file_list_ = s.r.file_list_
        /\ q.base_filename_ = s.r.base_filename_
        /\ q.base_filename_selected_ = s.r.base_filename_selected_
    BY <2>1, <2>2 DEF Object
  <2>5. t.r = q /\ t.d = s.d /\ {"r", "d"} \subseteq DOMAIN t
    BY <1>1, <2>2 DEF Linked, Typed
  <2>6. Held(t.r, t.d, B)
    BY <1>3, <2>4, <2>5 DEF Linked, Held
  <2> QED
    BY <1>3, <2>3, <2>4, <2>5, <2>6 DEF Linked, Typed
<1>5. History[o] \subseteq B /\ Range(DefaultBases[o]) \subseteq B
  BY <1>3 DEF Separate
<1>6. /\ Linked(h, B) /\ h.r.file_ = NoFile
      /\ h.r.base_filename_selected_ = s.r.base_filename_selected_
  BY <1>2, <1>4, <1>5, PruneLinked, HistoryLinked
<1>7. base \in Bases
  BY <1>2, NamesAssumption DEF Linked, Typed, TypedObject, Object, Bases, Range
<1>8. base \in B /\ (s.r.base_filename_selected_ => base # NoBase)
  BY <1>2, <1>3, <1>5 DEF Linked, Held
<1>9. PICK p : p = Prepared(h, timestamp)
  OBVIOUS
<1>10. /\ Linked(p, B) /\ p.r.file_ = NoFile /\ p.r.initialized_ /\ p.r.tm_time_ \in Nat
       /\ p.r.base_filename_selected_ = s.r.base_filename_selected_
  BY <1>6, <1>9, PreparedLinked
<1> QED
  BY <1>2, <1>3, <1>7, <1>8, <1>9, <1>10, CreateLinked

\* Write starts from the fields of an object that may write.
MayWrite(o) == ~(obj[o].base_filename_selected_ /\ obj[o].base_filename_ = NoBase)

\* A roll closes the file, or leaves everything as it is.
LEMMA RollLinked ==
  ASSUME NEW bases, LinkInv(bases), NEW o \in Objects, MayWrite(o), NEW timestamp,
         NEW s, s = Rolled(obj[o], timestamp)
  PROVE  /\ Linked(s, bases[o]) /\ Waiting(s.r)
         /\ s.r.initialized_ = obj[o].initialized_
         /\ s = [r |-> obj[o], d |-> disk] \/ s.r.file_ = NoFile
<1>1. PICK r : r = obj[o]
  OBVIOUS
<1>2. TypedObject(r) /\ r \in Object /\ Disk(disk) /\ now \in Nat
  BY <1>1 DEF LinkInv, TypeInv, TypeOK, TypedObject, Disk
<1>3. Held(r, disk, bases[o]) /\ Waiting(r)
  BY <1>1 DEF LinkInv
<1>4. Typed(s)
  BY <1>1, <1>2, RollTyped
<1>5. CASE CheckNeedRollLogFiles(r, timestamp)
  <2>1. s.d = Drain(r, disk) /\
        s.r = [Closed(r) EXCEPT !.file_length_ = 0, !.bytes_since_flush_ = 0,
                                !.rollover_attempt_ = kRolloverAttemptFrequency - 1]
    BY <1>1, <1>5 DEF Rolled
  <2>2. /\ s.r.file_ = NoFile /\ s.r.initialized_ = r.initialized_ /\ s.r.stdio = 0
        /\ s.r.file_list_ = r.file_list_
        /\ s.r.base_filename_ = r.base_filename_
        /\ s.r.base_filename_selected_ = r.base_filename_selected_
        /\ s.r.rollover_attempt_ = kRolloverAttemptFrequency - 1
    BY <1>2, <2>1 DEF Closed, Object
  <2>3. DOMAIN s.d = DOMAIN disk
    BY <2>1, DrainDomain
  <2>4. Held(s.r, s.d, bases[o])
    BY <1>3, <2>2 DEF Held
  <2> QED
    BY <1>1, <1>4, <2>2, <2>3, <2>4 DEF Linked, Kept_, MayWrite, Waiting
<1>6. CASE ~CheckNeedRollLogFiles(r, timestamp)
  <2>1. s = [r |-> r, d |-> disk]
    BY <1>1, <1>6 DEF Rolled
  <2> QED
    BY <1>1, <1>3, <1>4, <2>1 DEF Linked, Kept_, MayWrite
<1> QED
  BY <1>5, <1>6

\* What Write has found or made is there.
LEMMA ReadyLinked ==
  ASSUME NEW bases, LinkInv(bases), Separate(bases), NEW o \in Objects, MayWrite(o),
         NEW timestamp \in Nat, NEW c \in Ready(o, timestamp)
  PROVE  /\ Linked(c, bases[o]) /\ c.r.initialized_
         /\ c.result = "created" => c.r.file_ # NoFile
         /\ obj[o].initialized_ /\ c.result = "created" =>
              \/ c.r.stdio = HeaderLength
              \/ c.r = obj[o] /\ c.d = disk /\ obj[o].file_ # NoFile
<1>1. PICK a : a = Rolled(obj[o], timestamp)
  OBVIOUS
<1>2. /\ Linked(a, bases[o]) /\ Waiting(a.r)
      /\ a.r.initialized_ = obj[o].initialized_
      /\ a = [r |-> obj[o], d |-> disk] \/ a.r.file_ = NoFile
  BY <1>1, RollLinked
<1>3. PICK s \in Reopened(o, a) :
        \/ s.r.file_ # NoFile /\ c = [result |-> "created", r |-> s.r, d |-> s.d]
        \/ s.r.file_ = NoFile /\ c \in Attempted(o, s, timestamp)
  BY <1>1, ReadyCases
<1>4. Context
  BY DEF LinkInv, TypeInv, TypeOK, Context, Disk
<1>5. History[o] \subseteq bases[o]
  BY DEF Separate
<1>6. Linked(s, bases[o])
  BY <1>2, <1>4, <1>5, ReopenLinked
<1>7. obj[o].initialized_ => s = a
  BY <1>2 DEF Reopened
<1>8. CASE s.r.file_ # NoFile /\ c = [result |-> "created", r |-> s.r, d |-> s.d]
  <2>1. c.r = s.r /\ c.d = s.d /\ {"r", "d"} \subseteq DOMAIN c
    BY <1>8
  <2>2. Linked(c, bases[o]) /\ c.r.initialized_ /\ c.r.file_ # NoFile
    BY <1>6, <1>8, <2>1 DEF Linked, Typed, Held
  <2> QED
    BY <1>2, <1>7, <1>8, <2>1, <2>2
<1>9. CASE s.r.file_ = NoFile /\ c \in Attempted(o, s, timestamp)
  <2>1. /\ Linked(c, bases[o]) /\ c.r.initialized_
        /\ c.result = "created" => c.r.file_ # NoFile /\ c.r.stdio = HeaderLength
    BY <1>4, <1>6, <1>9, AttemptLinked
  <2> QED
    BY <2>1
<1> QED
  BY <1>3, <1>8, <1>9

\* What a flush leaves in the disk: the cleaner spares the file of the object, which
\* has just been written to, and the files of the others.
LEMMA CleanLinked ==
  ASSUME NEW B, NEW w \in Object, NEW d, Disk(d), Kept_(d, B),
         w.file_ # NoFile, w.file_ \in DOMAIN d, w.base_filename_ \in B \cup {NoBase},
         now \in Nat, log_cleaner \in Cleaner,
         log_cleaner.enabled_ => ~full /\ (w.stdio > 0 \/ d[w.file_].mtime = now)
  PROVE  LET e == Cleaned(w, Drain(w, d)) IN w.file_ \in DOMAIN e /\ Kept_(e, B \cup {NoBase})
<1>1. PICK g : g = Drain(w, d)
  OBVIOUS
<1>2. DOMAIN g = DOMAIN d
  BY <1>1, DrainDomain
<1>3. ASSUME CleanerDue
      PROVE  ~Overdue(w, g, w.file_)
  <2>1. ~full /\ (w.stdio > 0 \/ d[w.file_].mtime = now)
    BY <1>3 DEF CleanerDue
  <2>2. g[w.file_].mtime = now
    <3>1. CASE w.stdio > 0
      <4>1. g = [d EXCEPT ![w.file_].length = @ + w.stdio, ![w.file_].mtime = now]
        BY <1>1, <2>1, <3>1 DEF Drain
      <4>2. g[w.file_] = [d[w.file_] EXCEPT !.length = @ + w.stdio, !.mtime = now]
        BY <4>1
      <4>3. d[w.file_] \in File
        BY DEF Disk
      <4> QED
        BY <4>2, <4>3 DEF File
    <3>2. CASE ~(w.stdio > 0)
      BY <1>1, <2>1, <3>2 DEF Drain
    <3> QED
      BY <3>1, <3>2
  <2>3. log_cleaner.overdue_days_ \in Nat
    BY DEF Cleaner
  <2> QED
    BY <2>2, <2>3 DEF Overdue
<1>4. PICK e : e = Cleaned(w, g)
  OBVIOUS
<1>5. DOMAIN e = IF CleanerDue THEN DOMAIN g \ {n \in DOMAIN g : Overdue(w, g, n)} ELSE DOMAIN g
  BY <1>4, UnlinkDomain DEF Cleaned
<1>6. w.file_ \in DOMAIN e
  BY <1>2, <1>3, <1>5
<1>7. \A n : Overdue(w, g, n) => n.base \in B \cup {NoBase}
  BY DEF Overdue
<1>8. Kept_(e, B \cup {NoBase})
  BY <1>2, <1>5, <1>7 DEF Kept_
<1> QED
  BY <1>1, <1>4, <1>6, <1>8

\* A message that is written, and the flush and cleaning that may follow.
LEMMA DoneLinked ==
  ASSUME NEW bases, LinkInv(bases), Separate(bases), NEW o \in Objects, MayWrite(o),
         NEW len \in Nat, NEW force_flush \in BOOLEAN, NEW timestamp \in Nat,
         NEW c \in Ready(o, timestamp), c.result = "created", NEW b \in Buffered(c.r, len),
         log_cleaner.enabled_ =>
           ~full /\ (len > 0 \/ c.r.stdio > 0 \/ c.d[c.r.file_].mtime = now),
         NEW w, w = Appended(c.r, b, len)
  PROVE  /\ Held(PutObject(w, force_flush), PutDisk(w, c.d, force_flush), bases[o])
         /\ Kept_(PutDisk(w, c.d, force_flush), bases[o] \cup {NoBase})
         /\ PutObject(w, force_flush).initialized_
<1>1. Linked(c, bases[o]) /\ c.r.initialized_ /\ c.r.file_ # NoFile
  BY ReadyLinked
<1>2. c.r \in Object /\ TypedObject(c.r) /\ Disk(c.d) /\ b \in Nat
  BY <1>1 DEF Linked, Typed, TypedObject, Buffered, Object
<1>3. w \in Object
  BY <1>2, AppendTyped DEF TypedObject
<1>4. /\ w.file_ = c.r.file_ /\ w.stdio = b /\ w.initialized_
      /\ w.file_list_ = c.r.file_list_ /\ w.base_filename_ = c.r.base_filename_
  BY <1>1, <1>2 DEF Appended, Object
<1>5. /\ w.file_ \in DOMAIN c.d /\ w.file_.base \in bases[o]
      /\ \A x \in w.file_list_ : x.name.base \in bases[o]
      /\ w.base_filename_ \in bases[o] \cup {NoBase}
  BY <1>1, <1>4 DEF Linked, Held
<1>6. CASE ~FlushDue(w, force_flush)
  <2>1. PutObject(w, force_flush) = w /\ PutDisk(w, c.d, force_flush) = c.d
    BY <1>6 DEF PutObject, PutDisk
  <2>2. Kept_(c.d, bases[o] \cup {NoBase})
    BY <1>1 DEF Linked, Kept_
  <2>3. Held(w, c.d, bases[o])
    BY <1>1, <1>4, <1>5 DEF Held
  <2> QED
    BY <1>4, <2>1, <2>2, <2>3
<1>7. CASE FlushDue(w, force_flush)
  <2>1. PICK q : q = PutObject(w, force_flush)
    OBVIOUS
  <2>2. PICK e : e = PutDisk(w, c.d, force_flush)
    OBVIOUS
  <2>3. q = Flushed(w) /\ e = Cleaned(w, Drain(w, c.d))
    BY <1>7, <2>1, <2>2 DEF PutObject, PutDisk
  <2>4. /\ q.file_ = w.file_ /\ q.stdio = 0 /\ q.initialized_
        /\ q.file_list_ = w.file_list_ /\ q.base_filename_ = w.base_filename_
    BY <1>3, <1>4, <2>3 DEF Flushed, Object
  <2>5. now \in Nat /\ log_cleaner \in Cleaner
    BY DEF LinkInv, TypeInv, TypeOK
  <2>6. log_cleaner.enabled_ => ~full /\ (w.stdio > 0 \/ c.d[w.file_].mtime = now)
    <3>1. c.r.stdio \in Nat
      BY <1>2 DEF Object
    <3>2. ~full => b = c.r.stdio + len
      BY DEF Buffered
    <3> QED
      BY <1>4, <3>1, <3>2
  <2>7. w.file_ \in DOMAIN e /\ Kept_(e, bases[o] \cup {NoBase})
    BY <1>1, <1>2, <1>3, <1>4, <1>5, <2>3, <2>5, <2>6, CleanLinked DEF Linked
  <2>8. Held(q, e, bases[o])
    BY <1>5, <2>4, <2>7 DEF Held
  <2> QED
    BY <2>1, <2>2, <2>4, <2>7, <2>8
<1> QED
  BY <1>6, <1>7

\* An object that puts its fields and the disk back leaves the others' files there.
LEMMA PutLinked ==
  ASSUME NEW bases, LinkInv(bases), Separate(bases), NEW o \in Objects, NEW r, NEW d,
         Put(o, r, d), Held(r, d, bases[o]), Kept_(d, bases[o] \cup {NoBase}), Waiting(r),
         ~r.initialized_ => skipped'[o] = 0,
         \A p \in Objects \ {o} : skipped'[p] = skipped[p],
         TypeInv', setup' = setup, full' = full,
         log_cleaner'.enabled_ = log_cleaner.enabled_
  PROVE  LinkInv(bases)'
<1>1. obj \in [Objects -> Object] /\ disk' = d
  BY DEF LinkInv, TypeInv, TypeOK, Put
<1>2. \A p \in Objects : obj'[p] = IF p = o THEN r ELSE obj[p]
  BY <1>1 DEF Put
<1>3. OverdueTimes' = OverdueTimes
  BY DEF OverdueTimes
<1>4. ASSUME NEW p \in Objects, p # o
      PROVE  Held(obj[p], d, bases[p])
  <2>1. Held(obj[p], disk, bases[p])
    BY DEF LinkInv
  <2>2. bases[p] \cap (bases[o] \cup {NoBase}) = {}
    BY <1>4 DEF Separate
  <2>3. \A n \in DOMAIN disk : n.base \in bases[p] => n \in DOMAIN d
    BY <2>2 DEF Kept_
  <2> QED
    BY <2>1, <2>3 DEF Held
<1>5. ASSUME NEW p \in Objects
      PROVE  /\ Held(obj[p], disk, bases[p])'
             /\ Waiting(obj[p])'
             /\ (~obj[p].initialized_ => skipped[p] = 0)'
  <2>1. CASE p = o
    <3>1. obj'[p] = r /\ disk' = d
      BY <1>1, <1>2, <2>1
    <3> QED
      BY <2>1, <3>1 DEF Held, Waiting
  <2>2. CASE p # o
    <3>1. obj'[p] = obj[p] /\ disk' = d /\ skipped'[p] = skipped[p]
      BY <1>1, <1>2, <2>2
    <3>2. /\ Held(obj[p], d, bases[p]) /\ Waiting(obj[p])
          /\ ~obj[p].initialized_ => skipped[p] = 0
      BY <1>4, <2>2 DEF LinkInv
    <3> QED
      BY <3>1, <3>2 DEF Held, Waiting
  <2> QED
    BY <2>1, <2>2
<1> QED
  BY <1>3, <1>5 DEF LinkInv

\* While the cleaner is enabled, a message finds the file written to at this moment,
\* or has text.
Fresh(o, len) ==
  log_cleaner.enabled_ /\ ~stop_writing =>
    \/ len > 0
    \/ /\ HeaderLength > 0 /\ obj[o].initialized_
       /\ obj[o].file_ # NoFile => obj[o].stdio > 0 \/ disk[obj[o].file_].mtime = now

\* Every exit of Write preserves the invariant.
LEMMA WriteLinked ==
  ASSUME NEW bases, LinkInv(bases), Separate(bases), CleanerSpares, NEW o \in Objects,
         NEW len \in Nat, NEW force_flush \in BOOLEAN, NEW timestamp \in Nat,
         Fresh(o, len), Write(o, len, force_flush, timestamp)
  PROVE  LinkInv(bases)'
<1>1. MayWrite(o) /\ setup' = setup /\ full' = full
  BY WriteCases DEF Writes, MayWrite
<1>2. TypeInv' /\ skipped \in [Objects -> Nat]
  BY WriteTyped DEF LinkInv, TypeInv, TypeOK
<1>3. ASSUME NEW r, NEW d, Put(o, r, d), Held(r, d, bases[o]),
             Kept_(d, bases[o] \cup {NoBase}), r.initialized_,
             \E k : skipped' = [skipped EXCEPT ![o] = k],
             log_cleaner'.enabled_ = log_cleaner.enabled_
      PROVE  LinkInv(bases)'
  <2>1. \A p \in Objects \ {o} : skipped'[p] = skipped[p]
    BY <1>2, <1>3
  <2>2. Waiting(r)
    BY <1>3 DEF Waiting
  <2> QED
    BY <1>1, <1>2, <1>3, <2>1, <2>2, PutLinked
<1>4. \A c \in Ready(o, timestamp) :
        /\ Held(c.r, c.d, bases[o]) /\ Kept_(c.d, bases[o] \cup {NoBase}) /\ c.r.initialized_
        /\ c.r \in Object
  BY <1>1, ReadyLinked DEF Linked, Kept_, Typed, TypedObject
<1>5. CASE WriteSkipped(o, len, timestamp)
  <2>1. PICK s \in Reopened(o, Rolled(obj[o], timestamp)) :
          Skips(s) /\ Put(o, [s.r EXCEPT !.rollover_attempt_ = @ + 1], s.d)
    BY <1>5 DEF WriteSkipped
  <2>2. Context /\ History[o] \subseteq bases[o]
    BY DEF LinkInv, TypeInv, TypeOK, Context, Disk, Separate
  <2>3. Linked(Rolled(obj[o], timestamp), bases[o]) /\ Waiting(Rolled(obj[o], timestamp).r)
    BY <1>1, RollLinked
  <2>4. Linked(s, bases[o]) /\ Waiting(s.r)
    BY <2>1, <2>2, <2>3, ReopenLinked
  <2>5. s.r \in Object /\ s.r.initialized_
    BY <2>1, <2>4, FlagsAssumption DEF Linked, Typed, TypedObject, Skips, Waiting, Object
  <2>6. PICK r : r = [s.r EXCEPT !.rollover_attempt_ = @ + 1]
    OBVIOUS
  <2>7. /\ r.file_ = s.r.file_ /\ r.initialized_ /\ r.stdio = s.r.stdio
        /\ r.file_list_ = s.r.file_list_ /\ r.base_filename_ = s.r.base_filename_
    BY <2>5, <2>6 DEF Object
  <2>8. Held(r, s.d, bases[o]) /\ Kept_(s.d, bases[o] \cup {NoBase})
    BY <2>4, <2>7 DEF Linked, Held, Kept_
  <2>9. skipped' = [skipped EXCEPT ![o] = @ + 1] /\ log_cleaner' = log_cleaner
    BY <1>5 DEF WriteSkipped
  <2> QED
    BY <1>3, <2>1, <2>6, <2>7, <2>8, <2>9
<1>6. CASE WriteNoFile(o, len, timestamp) \/ WriteStopped(o, len, timestamp)
  <2>1. PICK c \in Ready(o, timestamp) : Put(o, c.r, c.d)
    BY <1>6 DEF WriteNoFile, WriteStopped
  <2>2. skipped' = [skipped EXCEPT ![o] = 0] /\ log_cleaner' = log_cleaner
    BY <1>6 DEF WriteNoFile, WriteStopped
  <2> QED
    BY <1>3, <1>4, <2>1, <2>2
<1>7. CASE WriteDiskFull(o, len, timestamp)
  <2>1. PICK c \in Ready(o, timestamp) : Put(o, [c.r EXCEPT !.stdio = 0], c.d)
    BY <1>7 DEF WriteDiskFull
  <2>2. PICK r : r = [c.r EXCEPT !.stdio = 0]
    OBVIOUS
  <2>3. /\ r.file_ = c.r.file_ /\ r.initialized_ /\ r.stdio = 0
        /\ r.file_list_ = c.r.file_list_ /\ r.base_filename_ = c.r.base_filename_
    BY <1>4, <2>2 DEF Object
  <2>4. Held(r, c.d, bases[o])
    BY <1>4, <2>3 DEF Held
  <2>5. skipped' = [skipped EXCEPT ![o] = 0] /\ log_cleaner' = log_cleaner
    BY <1>7 DEF WriteDiskFull
  <2> QED
    BY <1>3, <1>4, <2>1, <2>2, <2>3, <2>4, <2>5
<1>8. CASE WriteDone(o, len, force_flush, timestamp)
  <2>1. PICK c \in Ready(o, timestamp) : \E b \in Buffered(c.r, len) :
          /\ c.result = "created"
          /\ Put(o, PutObject(Appended(c.r, b, len), force_flush),
                    PutDisk(Appended(c.r, b, len), c.d, force_flush))
    BY <1>8 DEF WriteDone, Appended, PutObject, PutDisk
  <2>2. PICK b \in Buffered(c.r, len) :
          Put(o, PutObject(Appended(c.r, b, len), force_flush),
                 PutDisk(Appended(c.r, b, len), c.d, force_flush))
    BY <2>1
  <2>3. PICK w : w = Appended(c.r, b, len)
    OBVIOUS
  <2>4. log_cleaner.enabled_ => ~full
    BY DEF CleanerSpares, LinkInv, OverdueTimes
  <2>5. log_cleaner.enabled_ => len > 0 \/ c.r.stdio > 0 \/ c.d[c.r.file_].mtime = now
    <3>1. ~stop_writing
      BY <1>8 DEF WriteDone
    <3>2. obj[o].initialized_ =>
            \/ c.r.stdio = HeaderLength
            \/ c.r = obj[o] /\ c.d = disk /\ obj[o].file_ # NoFile
      BY <1>1, <2>1, ReadyLinked
    <3> QED
      BY <3>1, <3>2 DEF Fresh
  <2>6. /\ Held(PutObject(w, force_flush), PutDisk(w, c.d, force_flush), bases[o])
        /\ Kept_(PutDisk(w, c.d, force_flush), bases[o] \cup {NoBase})
        /\ PutObject(w, force_flush).initialized_
    BY <1>1, <2>1, <2>3, <2>4, <2>5, DoneLinked
  <2>7. skipped' = [skipped EXCEPT ![o] = 0]
    BY <1>8 DEF WriteDone
  <2>8. log_cleaner'.enabled_ = log_cleaner.enabled_
    <3>1. \/ log_cleaner' = log_cleaner
          \/ log_cleaner' = [log_cleaner EXCEPT !.next_cleanup_time_ = now + logcleansecs]
      BY <1>8 DEF WriteDone
    <3>2. log_cleaner \in Cleaner
      BY DEF LinkInv, TypeInv, TypeOK
    <3> QED
      BY <3>1, <3>2 DEF Cleaner
  <2> QED
    BY <1>3, <2>2, <2>3, <2>6, <2>7, <2>8
<1> QED
  BY <1>5, <1>6, <1>7, <1>8 DEF Write

\* The operations besides Write.
LEMMA OperationLinked ==
  ASSUME NEW bases, LinkInv(bases), Separate(bases), NEW o \in Objects,
         \/ Flush(o)
         \/ Renames /\ \E b \in BaseNames : SetBasename(o, b)
         \/ \E e \in Extensions : SetExtension(o, e)
  PROVE  LinkInv(bases)'
<1>1. PICK r : r = obj[o]
  OBVIOUS
<1>2. TypedObject(r) /\ r \in Object /\ Held(r, disk, bases[o]) /\ Waiting(r)
  BY <1>1 DEF LinkInv, TypeInv, TypeOK, TypedObject
<1>3. TypeInv'
  BY OperationTyped DEF LinkInv
<1>4. UNCHANGED <<setup, full, log_cleaner, skipped>>
  BY DEF Flush, SetBasename, SetExtension, ghosts
<1>5. ASSUME NEW q, NEW d, Put(o, q, d), DOMAIN d = DOMAIN disk, Held(q, disk, bases[o]),
             Waiting(q), q.initialized_ = r.initialized_
      PROVE  LinkInv(bases)'
  <2>1. Held(q, d, bases[o]) /\ Kept_(d, bases[o] \cup {NoBase})
    BY <1>5 DEF Held, Kept_
  <2>2. ~q.initialized_ => skipped'[o] = 0
    BY <1>1, <1>4, <1>5 DEF LinkInv
  <2> QED
    BY <1>3, <1>4, <1>5, <2>1, <2>2, PutLinked
<1>6. ASSUME NEW x \in Object, Held(x, disk, bases[o]), Waiting(x)
      PROVE  /\ Held(Renamed(x), disk, bases[o]) /\ Waiting(Renamed(x))
             /\ Renamed(x).initialized_ = x.initialized_
  <2>1. CASE x.file_ = NoFile
    BY <1>6, <2>1 DEF Renamed
  <2>2. CASE x.file_ # NoFile
    <3>1. PICK y : y = Renamed(x)
      OBVIOUS
    <3>2. y = [Closed(x) EXCEPT !.rollover_attempt_ = kRolloverAttemptFrequency - 1]
      BY <2>2, <3>1 DEF Renamed
    <3>3. /\ y.file_ = NoFile /\ y.stdio = 0 /\ y.initialized_ = x.initialized_
          /\ y.file_list_ = x.file_list_ /\ y.base_filename_ = x.base_filename_
          /\ y.rollover_attempt_ = kRolloverAttemptFrequency - 1
      BY <3>2 DEF Closed, Object
    <3> QED
      BY <1>6, <3>1, <3>3 DEF Held, Waiting
  <2> QED
    BY <2>1, <2>2
<1>7. CASE Flush(o)
  <2>1. PICK q : q = Flushed(r)
    OBVIOUS
  <2>2. /\ q.file_ = r.file_ /\ q.stdio = 0 /\ q.initialized_ = r.initialized_
        /\ q.file_list_ = r.file_list_ /\ q.base_filename_ = r.base_filename_
        /\ q.rollover_attempt_ = r.rollover_attempt_
    BY <1>2, <2>1 DEF Flushed, Object
  <2>3. Held(q, disk, bases[o]) /\ Waiting(q)
    BY <1>2, <2>2 DEF Held, Waiting
  <2>4. Put(o, q, Drain(r, disk))
    BY <1>1, <1>7, <2>1 DEF Flush
  <2> QED
    BY <1>5, <2>2, <2>3, <2>4, DrainDomain
<1>8. ASSUME Renames, NEW b \in BaseNames, SetBasename(o, b)
      PROVE  LinkInv(bases)'
  <2>1. PICK a : a = [r EXCEPT !.base_filename_selected_ = TRUE]
    OBVIOUS
  <2>2. a \in Object
    BY <1>2, <2>1, FieldTypes DEF TypedObject
  <2>3. /\ a.file_ = r.file_ /\ a.stdio = r.stdio /\ a.initialized_ = r.initialized_
        /\ a.file_list_ = r.file_list_ /\ a.base_filename_ = r.base_filename_
        /\ a.rollover_attempt_ = r.rollover_attempt_
    BY <1>2, <2>1 DEF Object
  <2>4. Held(a, disk, bases[o]) /\ Waiting(a)
    BY <1>2, <2>3 DEF Held, Waiting
  <2>5. CASE Put(o, a, disk)
    BY <1>5, <2>3, <2>4, <2>5
  <2>6. CASE Put(o, [Renamed(a) EXCEPT !.base_filename_ = b], Drain(a, disk))
    <3>1. PICK x : x = Renamed(a)
      OBVIOUS
    <3>2. x \in Object
      <4>1. TypedObject(a)
        BY <1>2, <2>1, FieldTypes
      <4> QED
        BY <3>1, <4>1, RenameTyped DEF TypedObject
    <3>3. Held(x, disk, bases[o]) /\ Waiting(x) /\ x.initialized_ = r.initialized_
      BY <1>6, <2>2, <2>3, <2>4, <3>1
    <3>4. PICK q : q = [x EXCEPT !.base_filename_ = b]
      OBVIOUS
    <3>5. /\ q.file_ = x.file_ /\ q.stdio = x.stdio /\ q.initialized_ = x.initialized_
          /\ q.file_list_ = x.file_list_ /\ q.base_filename_ = b
          /\ q.rollover_attempt_ = x.rollover_attempt_
      BY <3>2, <3>4 DEF Object
    <3>6. b \in bases[o] \cup {NoBase}
      BY <1>8 DEF Separate, LinkInv, Renames
    <3>7. Held(q, disk, bases[o]) /\ Waiting(q)
      BY <3>3, <3>5, <3>6 DEF Held, Waiting
    <3>8. PICK d : d = Drain(a, disk)
      OBVIOUS
    <3>9. DOMAIN d = DOMAIN disk
      BY <3>8, DrainDomain
    <3>10. Put(o, q, d)
      BY <2>6, <3>1, <3>4, <3>8
    <3>11. q.initialized_ = r.initialized_
      BY <3>3, <3>5
    <3> QED
      BY <1>5, <3>7, <3>9, <3>10, <3>11
  <2> QED
    BY <1>1, <1>8, <2>1, <2>5, <2>6 DEF SetBasename
<1>9. ASSUME NEW ext \in Extensions, SetExtension(o, ext)
      PROVE  LinkInv(bases)'
  <2>1. PICK x : x = Renamed(r)
    OBVIOUS
  <2>2. x \in Object
    BY <1>2, <2>1, RenameTyped DEF TypedObject
  <2>3. Held(x, disk, bases[o]) /\ Waiting(x) /\ x.initialized_ = r.initialized_
    BY <1>2, <1>6, <2>1
  <2>4. PICK q : q = [x EXCEPT !.filename_extension_ = ext]
    OBVIOUS
  <2>5. /\ q.file_ = x.file_ /\ q.stdio = x.stdio /\ q.initialized_ = x.initialized_
        /\ q.file_list_ = x.file_list_ /\ q.base_filename_ = x.base_filename_
        /\ q.rollover_attempt_ = x.rollover_attempt_
    BY <2>2, <2>4 DEF Object
  <2>6. Held(q, disk, bases[o]) /\ Waiting(q)
    BY <2>3, <2>5 DEF Held, Waiting
  <2>7. Put(o, q, Drain(r, disk))
    BY <1>1, <1>9, <2>1, <2>4 DEF SetExtension
  <2> QED
    BY <1>5, <2>3, <2>5, <2>6, <2>7, DrainDomain
<1> QED
  BY <1>7, <1>8, <1>9

\* What FatalFlush flushes has just been written.
LEMMA FatalFresh ==
  ASSUME NEW bases, LinkInv(bases), CleanerSpares, NEW o \in Objects, FatalFlush(o)
  PROVE  Fresh(o, 0)
<1> SUFFICES ASSUME log_cleaner.enabled_, ~stop_writing
             PROVE  /\ HeaderLength > 0 /\ obj[o].initialized_
                    /\ obj[o].file_ # NoFile => obj[o].stdio > 0 \/ disk[obj[o].file_].mtime = now
  BY DEF Fresh
<1>1. HeaderLength > 0 /\ kRolloverAttemptFrequency > 1
  BY DEF FatalFlush, LinkInv, CleanerSpares, OverdueTimes, FatalFlushes
<1>2. /\ Held(obj[o], disk, bases[o]) /\ Waiting(obj[o])
      /\ ~obj[o].initialized_ => skipped[o] = 0
  BY DEF LinkInv
<1>3. CASE obj[o].file_ = NoFile /\ skipped[o] = obj[o].rollover_attempt_
  <2>1. kRolloverAttemptFrequency - 1 # 0
    BY <1>1, FlagsAssumption
  <2>2. obj[o].initialized_
    BY <1>2, <1>3, <2>1 DEF Waiting
  <2> QED
    BY <1>1, <1>3, <2>2
<1>4. CASE obj[o].stdio > 0
  BY <1>1, <1>2, <1>4 DEF Held
<1>5. CASE obj[o].file_ # NoFile /\ (obj[o].file_ \in DOMAIN disk => disk[obj[o].file_].mtime = now)
  BY <1>1, <1>2, <1>5 DEF Held
<1> QED
  BY <1>3, <1>4, <1>5 DEF FatalFlush

\* Objects as they are constructed.
LEMMA NewLinked ==
  ASSUME NEW bases, Separate(bases), setup \in Setups, NEW o \in Objects, NEW g, NEW d,
         NEW r, r = NewObject(StartBase[o], g)
  PROVE  Held(r, d, bases[o]) /\ Waiting(r)
<1>1. StartBase[o] \in bases[o] \cup {NoBase}
  BY DEF Separate, StartBase
<1> QED
  BY <1>1 DEF Held, Waiting, NewObject

\* No LogFileObject ever writes to a file that is gone: neither the pruning of old
\* files, nor the removal of the oldest numbered file, nor the cleaner takes away a
\* file that is open, whatever rolls, failures, renames, forks and restarts there
\* are, and although all objects and the cleaner share the directory.
THEOREM OpenFilesStay ==
  ASSUME NEW bases, Separate(bases), CleanerSpares
  PROVE  Spec => []OpenFilesLinked
<1> DEFINE I == LinkInv(bases)
<1>1. Init => I
  <2> SUFFICES ASSUME Init PROVE LinkInv(bases)
    OBVIOUS
  <2>1. PICK g \in [Objects -> GarbageTimes] :
          obj = [o \in Objects |-> NewObject(StartBase[o], g[o])]
    BY DEF Init
  <2>2. setup \in Setups /\ full = FALSE /\ log_cleaner = NewCleaner
        /\ skipped = [o \in Objects |-> 0]
    BY DEF Init
  <2>3. \A o \in Objects :
          /\ Held(obj[o], disk, bases[o]) /\ Waiting(obj[o]) /\ skipped[o] = 0
    BY <2>1, <2>2, NewLinked
  <2>4. TypeInv
    BY InitTyped
  <2> QED
    BY <2>2, <2>3, <2>4 DEF LinkInv, NewCleaner
<1>2. I /\ [Next]_vars => I'
  <2> SUFFICES ASSUME LinkInv(bases), [Next]_vars PROVE LinkInv(bases)'
    OBVIOUS
  <2>1. ASSUME NEW o \in Objects, Log(o) PROVE LinkInv(bases)'
    <3>1. PICK len \in Lengths, should_flush \in BOOLEAN : Write(o, len, should_flush, now)
      BY <2>1 DEF Log
    <3>2. len \in Nat /\ now \in Nat
      BY FlagsAssumption DEF LinkInv, TypeInv, TypeOK
    <3>3. log_cleaner.enabled_ => len > 0
      BY <3>2 DEF LinkInv, CleanerSpares, OverdueTimes
    <3>4. Fresh(o, len)
      BY <3>3 DEF Fresh
    <3> QED
      BY <3>1, <3>2, <3>4, WriteLinked
  <2>2. ASSUME NEW o \in Objects, FatalFlush(o) PROVE LinkInv(bases)'
    BY <2>2, FatalFresh, WriteLinked DEF FatalFlush
  <2>3. ASSUME NEW o \in Objects, Flush(o) PROVE LinkInv(bases)'
    BY <2>3, OperationLinked
  <2>4. ASSUME Renames, NEW o \in Objects, NEW b \in BaseNames, SetBasename(o, b)
        PROVE  LinkInv(bases)'
    BY <2>4, OperationLinked
  <2>5. ASSUME NEW o \in Objects, NEW e \in Extensions, SetExtension(o, e)
        PROVE  LinkInv(bases)'
    BY <2>5, OperationLinked
  <2>6. TypeInv'
    BY TypeInvStep DEF LinkInv
  <2>7. CASE Restart
    <3>1. PICK g \in [Objects -> GarbageTimes] :
            obj' = [o \in Objects |-> NewObject(StartBase[o], g[o])]
      BY <2>7 DEF Restart
    <3>2. /\ setup' = setup /\ full' = full /\ disk' = disk /\ log_cleaner' = NewCleaner
          /\ skipped' = [o \in Objects |-> 0]
      BY <2>7 DEF Restart
    <3>3. \A o \in Objects :
            /\ Held(obj'[o], disk, bases[o]) /\ Waiting(obj'[o]) /\ skipped'[o] = 0
      BY <3>1, <3>2, NewLinked DEF LinkInv
    <3>4. /\ setup' \in Setups /\ (full' => DiskMayFill)
          /\ ~log_cleaner'.enabled_
      BY <3>2 DEF LinkInv, NewCleaner
    <3> QED
      BY <2>6, <3>2, <3>3, <3>4 DEF LinkInv, Held, Waiting
  <2>8. ASSUME UNCHANGED <<setup, obj, disk, skipped>>, full' => DiskMayFill,
               log_cleaner'.enabled_ => OverdueTimes # {}
        PROVE  LinkInv(bases)'
    BY <2>6, <2>8 DEF LinkInv, Held, Waiting, OverdueTimes
  <2>9. ASSUME NEW overdue \in OverdueTimes, EnableLogCleaner(overdue) PROVE LinkInv(bases)'
    <3>1. OverdueTimes # {}
      OBVIOUS
    <3> QED
      BY <2>8, <2>9, <3>1 DEF EnableLogCleaner, ghosts, LinkInv
  <2>10. CASE DisableLogCleaner
    BY <2>8, <2>10 DEF DisableLogCleaner, ghosts, LinkInv
  <2>11. CASE Tick
    BY <2>8, <2>11 DEF Tick, ghosts, LinkInv
  <2>12. CASE DiskFills
    BY <2>8, <2>12 DEF DiskFills, ghosts, LinkInv
  <2>13. CASE Fork
    BY <2>8, <2>13 DEF Fork, ghosts, LinkInv
  <2>14. CASE UNCHANGED vars
    BY <2>8, <2>14 DEF vars, ghosts, LinkInv
  <2> QED
    BY <2>1, <2>2, <2>3, <2>4, <2>5, <2>7, <2>9, <2>10, <2>11, <2>12, <2>13, <2>14 DEF Next
<1>3. I => OpenFilesLinked
  BY DEF LinkInv, Held, OpenFilesLinked
<1> HIDE DEF I
<1> QED
  BY <1>1, <1>2, <1>3, PTL DEF Spec

-----------------------------------------------------------------------------
(***************************************************************************)
(* Messages are dropped only in trouble.                                   *)
(***************************************************************************)

\* The names of the files of one process do not recur: there is one for each day (or
\* hour), in which the names are not changed; the day is the one that a roll looks
\* at, and is never that of the timestamp 0 with which SendToLog flushes; and no other
\* process uses its pid.  After a fork two would: these policies do not ask
\* PidHasChanged, and of the two processes the model follows one.
NamesNeverRecur ==
  /\ log_rolling_policy # "size"
  /\ log_utc_time => UtcOffset = 0
  /\ \A s \in Setups :
       s.timestamp_in_logfile_name /\ ~s.Renames /\ ~s.FatalFlushes /\ ~s.Forks

\* What this process has created for an object with base names B is older than what
\* it will create next.
Stamped(r, d, B) ==
  /\ r.initialized_ => r.tm_time_ <= LocalPeriod(now)
  /\ \A n \in DOMAIN d : n.base \in B /\ n.pid = g_main_thread_pid =>
       r.initialized_ /\ n.stamp <= r.tm_time_
  /\ r.base_filename_ \in B \cup {NoBase}

\* An object without a file has not needed one yet.
Equipped(r) ==
  r.file_ = NoFile => ~r.initialized_ /\ r.rollover_attempt_ = kRolloverAttemptFrequency - 1

Orderly(bases) ==
  /\ ~lost /\ ~stop_writing
  /\ g_main_thread_pid <= pid
  /\ \A n \in DOMAIN disk : n.pid <= g_main_thread_pid
  /\ \A o \in Objects : Stamped(obj[o], disk, bases[o]) /\ Equipped(obj[o])

\* The inductive invariant: until there is trouble, everything is in order.
NameInv(bases) == TypeInv /\ setup \in Setups /\ (trouble \/ Orderly(bases))

\* Days follow each other.
LEMMA PeriodsGrow ==
  ASSUME NEW t \in Nat, NEW u \in Nat, t <= u
  PROVE  LocalPeriod(t) \in Nat /\ LocalPeriod(u) \in Nat /\ LocalPeriod(t) <= LocalPeriod(u)
<1>1. PICK p \in Nat \ {0} : p = PeriodLength
  BY FlagsAssumption
<1>2. PICK a \in Nat, b \in Nat : a = t + UtcOffset /\ b = u + UtcOffset /\ a <= b
  BY FlagsAssumption
<1>3. a \div p \in Nat /\ b \div p \in Nat
  OBVIOUS
<1>4. a \div p <= b \div p
  BY ONLY <1>2, a \in Nat, b \in Nat, p \in Nat \ {0}
<1> QED
  BY <1>1, <1>2, <1>3, <1>4 DEF LocalPeriod, Period

\* What the stages that take away old files leave as it is.
Thinned(p, s) ==
  /\ DOMAIN p.d \subseteq DOMAIN s.d
  /\ p.r.file_ = s.r.file_
  /\ p.r.initialized_ = s.r.initialized_
  /\ p.r.tm_time_ = s.r.tm_time_
  /\ p.r.base_filename_ = s.r.base_filename_

LEMMA PruneThins ==
  ASSUME NEW o, NEW s, Typed(s), NEW p, p \in Pruned(s) \/ p \in CheckHistoryFileNum(o, s)
  PROVE  Thinned(p, s)
<1>0. {"r", "d"} \subseteq DOMAIN s /\ "file_list_" \in DOMAIN s.r /\ s.r \in Object
  BY DEF Typed, TypedObject, Object
<1>1. PICK k, names : p = [r |-> [s.r EXCEPT !.file_list_ = k], d |-> Unlink(s.d, names)]
  <2>1. CASE p \in Pruned(s)
    <3>1. PICK k \in SUBSET s.r.file_list_ :
            p = [r |-> [s.r EXCEPT !.file_list_ = k],
                 d |-> Unlink(s.d, {x.name : x \in s.r.file_list_ \ k})]
      BY <2>1, PruneCases
    <3>2. PICK names : names = {x.name : x \in s.r.file_list_ \ k}
      OBVIOUS
    <3> QED
      BY <3>1, <3>2
  <2>2. CASE p \in CheckHistoryFileNum(o, s)
    <3>1. PICK k \in SUBSET Found(o, s.d) :
            p = [r |-> [s.r EXCEPT !.file_list_ = k],
                 d |-> Unlink(s.d, {x.name : x \in Found(o, s.d) \ k})]
      BY <1>0, <2>2, HistoryCases
    <3>2. PICK names : names = {x.name : x \in Found(o, s.d) \ k}
      OBVIOUS
    <3> QED
      BY <3>1, <3>2
  <2> QED
    BY <2>1, <2>2
<1>2. p.r = [s.r EXCEPT !.file_list_ = k] /\ p.d = Unlink(s.d, names)
  BY <1>1
<1>3. DOMAIN p.d \subseteq DOMAIN s.d
  <2>1. DOMAIN Unlink(s.d, names) = DOMAIN s.d \ names
    BY UnlinkDomain
  <2> QED
    BY <1>2, <2>1
<1> QED
  BY <1>0, <1>2, <1>3 DEF Thinned, Object

\* A name that is free is the one that is used; the file exists only afterwards.
LEMMA CreateFree ==
  ASSUME NEW o, NEW s, NEW base, NEW timestamp, NEW c \in CreateLogfile(o, s, base, timestamp),
         NEW r, r = [s.r EXCEPT !.base_filename_ = base],
         NEW n, n = FileName(o, r, base, timestamp), n \notin DOMAIN s.d
  PROVE  \/ c.result = "failed"
         \/ /\ c.result = "created"
            /\ c.d = OnOpen(s.d, n)
            /\ \E entry : c.r = WithFile(r, n, entry)
<1> DEFINE q == [s.r EXCEPT !.base_filename_ = base]
           m == FileName(o, q, base, timestamp)
           Created(f, g) ==
             [result |-> "created", d |-> OnOpen(f.d, f.name),
              r |-> [q EXCEPT !.file_ = f.name, !.stdio = HeaderLength,
                              !.file_length_ = @ + HeaderLength,
                              !.bytes_since_flush_ = @ + HeaderLength,
                              !.file_list_ = @ \cup {[name |-> m, time |-> g,
                                id |-> 1 + Max({0} \cup {x.id : x \in q.file_list_})]}]]
           Exists(f) == timestamp_in_logfile_name /\ f.name \in DOMAIN f.d
           Successes(f) ==
             {Created(f, g) : g \in IF Exists(f) \/ Locked(f.d, f.name) THEN {} ELSE GarbageTimes}
           Failures(f) ==
             {[result |-> x, d |-> f.d, r |-> q] :
                x \in (IF Exists(f) THEN {"exists"} ELSE {})
                      \cup (IF OpenMayFail \/ Locked(f.d, f.name) THEN {"failed"} ELSE {})}
<1>0. r = q /\ n = m
  OBVIOUS
<1>1. CreateLogfile(o, s, base, timestamp)
        = UNION {Successes(f) \cup Failures(f) : f \in GetSuitableFileName(m, s.d)}
  BY Zenon DEF CreateLogfile
<1>2. PICK f \in GetSuitableFileName(m, s.d) : c \in Successes(f) \/ c \in Failures(f)
  <2> HIDE DEF Successes, Failures
  <2> QED
    BY <1>1
<1>3. f = [name |-> m, d |-> s.d]
  <2> HIDE DEF m, q
  <2> QED
    BY <1>0, <1>2 DEF GetSuitableFileName
<1>4. f.name = m /\ f.d = s.d /\ ~Exists(f)
  <2> HIDE DEF m, q
  <2> QED
    BY <1>0, <1>3
<1>5. CASE c \in Failures(f)
  <2>1. PICK x \in {"failed"} : c = [result |-> x, d |-> f.d, r |-> q]
    <3> HIDE DEF Exists, q
    <3> QED
      BY <1>4, <1>5
  <2> QED
    BY <2>1
<1>6. CASE c \in Successes(f)
  <2>1. PICK g \in GarbageTimes : c = Created(f, g)
    BY <1>6
  <2>2. /\ c.r = WithFile(q, f.name, [name |-> m, time |-> g, id |-> NextId(q)])
        /\ c.d = OnOpen(f.d, f.name) /\ c.result = "created"
    BY <2>1 DEF WithFile, NextId
  <2> HIDE DEF q, m, Exists
  <2> QED
    BY <1>0, <1>4, <2>2
<1> HIDE DEF q, m, Successes, Failures
<1> QED
  BY <1>2, <1>5, <1>6

\* The file an object has made at time timestamp.
Made(c, s, B) ==
  /\ c.r.file_ # NoFile /\ c.r.initialized_
  /\ c.r.tm_time_ = LocalPeriod(now)
  /\ c.r.base_filename_ \in B
  /\ \A n \in DOMAIN c.d :
       n \in DOMAIN s.d
       \/ (n.base \in B /\ n.pid = g_main_thread_pid /\ n.stamp = LocalPeriod(now))

\* An attempt makes a file, or there is trouble: the name is free.
LEMMA AttemptFree ==
  ASSUME Context, NamesNeverRecur, setup \in Setups, NEW o \in Objects, NEW B,
         Range(DefaultBases[o]) \subseteq B, NEW s, Typed(s), s.r.file_ = NoFile,
         s.r.base_filename_selected_ => s.r.base_filename_ \in B,
         \A n \in DOMAIN s.d :
           n.base \in B /\ n.pid = g_main_thread_pid => n.stamp # LocalPeriod(now),
         NEW c \in Attempted(o, s, now)
  PROVE  c.result = "failed" \/ (c.result = "created" /\ Made(c, s, B))
<1>c. setup \in Setup /\ now \in Nat /\ pid \in Nat /\ g_main_thread_pid \in Nat
  BY DEF Context
<1>1. PICK t : t = [s EXCEPT !.r.rollover_attempt_ = 0]
  OBVIOUS
<1>2. PICK h, base :
        /\ h \in Pruned(t) \/ h \in CheckHistoryFileNum(o, t)
        /\ IF s.r.base_filename_selected_ THEN base = s.r.base_filename_
           ELSE base \in Range(DefaultBases[o])
        /\ c \in CreateLogfile(o, Prepared(h, now), base, now)
  BY <1>1, AttemptCases
<1>3. Typed(t) /\ t.d = s.d
  <2>1. TypedObject([s.r EXCEPT !.rollover_attempt_ = 0])
    BY FieldTypes DEF Typed
  <2> QED
    BY <1>1, <2>1 DEF Typed
<1>4. Typed(h) /\ Thinned(h, t)
  BY <1>2, <1>3, PruneTyped, HistoryTyped, PruneThins
<1>5. base \in B
  BY <1>2
<1>6. base \in Bases
  BY <1>2, NamesAssumption DEF Typed, TypedObject, Object, Bases, Range
<1>7. PICK p : p = Prepared(h, now)
  OBVIOUS
<1>8. PICK tm \in Nat : tm = LocalPeriod(now)
  BY <1>c, PeriodType
<1>9. Typed(p) /\ p.r.tm_time_ = tm /\ p.r.initialized_ /\ p.d = h.d
  <2>1. (IF log_utc_time THEN Period(now) ELSE LocalPeriod(now)) = tm
    BY <1>c, <1>8 DEF NamesNeverRecur, LocalPeriod
  <2>2. p = [h EXCEPT !.r.initialized_ = TRUE, !.r.tm_time_ = tm]
    BY <1>7, <2>1 DEF Prepared
  <2>3. p.r = [h.r EXCEPT !.initialized_ = TRUE, !.tm_time_ = tm] /\ p.d = h.d
    BY <1>4, <2>2 DEF Typed, TypedObject, Object
  <2>4. h.r \in Object
    BY <1>4 DEF Typed, TypedObject
  <2>5. p.r.tm_time_ = tm /\ p.r.initialized_
    BY <2>3, <2>4 DEF Object
  <2>6. Typed(p)
    BY <1>4, <1>7, <1>c, PreparedTyped
  <2> QED
    BY <2>3, <2>5, <2>6
<1>10. PICK r : r = [p.r EXCEPT !.base_filename_ = base]
  OBVIOUS
<1>11. /\ TypedObject(r) /\ r.tm_time_ = tm /\ r.initialized_
       /\ r.base_filename_ = base
  BY <1>6, <1>9, <1>10, FieldTypes DEF Typed, TypedObject, Object
<1>12. PICK n : n = FileName(o, r, base, now)
  OBVIOUS
<1>13. n \in Name
  BY <1>6, <1>8, <1>11, <1>12, <1>c, FileNameTyped
<1>14. n.base = base /\ n.stamp = tm /\ n.pid = g_main_thread_pid
  BY <1>11, <1>12 DEF FileName, MainThreadPid, NamesNeverRecur, timestamp_in_logfile_name
<1>15. n \notin DOMAIN p.d
  BY <1>3, <1>4, <1>5, <1>8, <1>9, <1>14 DEF Thinned
<1>16. CASE c.result = "failed"
  BY <1>16
<1>17. CASE c.result = "created" /\ c.d = OnOpen(p.d, n) /\ \E entry : c.r = WithFile(r, n, entry)
  <2>1. PICK entry : c.r = WithFile(r, n, entry)
    BY <1>17
  <2>2. n # NoFile
    BY <1>13, NamesAssumption
  <2>3. /\ c.r.file_ = n /\ c.r.initialized_ = r.initialized_ /\ c.r.tm_time_ = r.tm_time_
        /\ c.r.base_filename_ = r.base_filename_
    BY <1>11, <2>1 DEF WithFile, TypedObject, Object
  <2>4. DOMAIN c.d = DOMAIN p.d \cup {n}
    BY <1>17, OpenDomain
  <2>5. \A m \in DOMAIN c.d : m \in DOMAIN s.d \/ m = n
    BY <1>3, <1>4, <1>9, <2>4 DEF Thinned
  <2>6. Made(c, s, B)
    <3>1. c.r.initialized_
      BY <1>11, <2>3
    <3>2. c.r.tm_time_ = LocalPeriod(now) /\ c.r.base_filename_ \in B /\ c.r.file_ # NoFile
      BY <1>5, <1>8, <1>11, <2>2, <2>3
    <3>3. n.base \in B /\ n.pid = g_main_thread_pid /\ n.stamp = LocalPeriod(now)
      BY <1>5, <1>8, <1>14
    <3> QED
      BY <2>5, <3>1, <3>2, <3>3 DEF Made
  <2> QED
    BY <1>17, <2>6
<1> QED
  BY <1>2, <1>7, <1>10, <1>12, <1>15, <1>16, <1>17, CreateFree

\* A roll begins a new day.
LEMMA RollStarts ==
  ASSUME TypeInv, NamesNeverRecur, NEW bases, Orderly(bases), NEW o \in Objects,
         NEW s, s = Rolled(obj[o], now)
  PROVE  /\ Typed(s) /\ DOMAIN s.d = DOMAIN disk /\ ~Skips(s)
         /\ s.r.base_filename_ = obj[o].base_filename_
         /\ s.r.base_filename_selected_ = obj[o].base_filename_selected_
         /\ \/ s.r = obj[o] /\ s.r.file_ # NoFile
            \/ /\ s.r.file_ = NoFile
               /\ obj[o].initialized_ => obj[o].tm_time_ # LocalPeriod(now)
<1>1. PICK r : r = obj[o]
  OBVIOUS
<1>2. TypedObject(r) /\ r \in Object /\ Disk(disk) /\ now \in Nat
  BY <1>1 DEF TypeInv, TypeOK, TypedObject, Disk
<1>3. Stamped(r, disk, bases[o]) /\ Equipped(r)
  BY <1>1 DEF Orderly
<1>4. Typed(s)
  BY <1>1, <1>2, RollTyped
<1>k. kRolloverAttemptFrequency \in Nat
  BY FlagsAssumption
<1>5. CASE CheckNeedRollLogFiles(r, now)
  <2>1. s.d = Drain(r, disk) /\
        s.r = [Closed(r) EXCEPT !.file_length_ = 0, !.bytes_since_flush_ = 0,
                                !.rollover_attempt_ = kRolloverAttemptFrequency - 1]
    BY <1>1, <1>5 DEF Rolled
  <2>2. /\ s.r.file_ = NoFile
        /\ s.r.base_filename_ = r.base_filename_
        /\ s.r.base_filename_selected_ = r.base_filename_selected_
        /\ s.r.rollover_attempt_ = kRolloverAttemptFrequency - 1
    BY <1>2, <2>1 DEF Closed, Object
  <2>3. DOMAIN s.d = DOMAIN disk
    BY <2>1, DrainDomain
  <2>4. r.tm_time_ # LocalPeriod(now)
    BY <1>5 DEF CheckNeedRollLogFiles, NamesNeverRecur
  <2>5. ~Skips(s)
    BY <1>k, <2>2 DEF Skips
  <2> QED
    BY <1>1, <1>4, <2>2, <2>3, <2>4, <2>5
<1>6. CASE ~CheckNeedRollLogFiles(r, now)
  <2>1. s = [r |-> r, d |-> disk]
    BY <1>1, <1>6 DEF Rolled
  <2>2. s.r = r /\ s.d = disk
    BY <2>1
  <2>3. ~Skips(s)
    BY <1>3, <1>k, <2>2 DEF Skips, Equipped
  <2> QED
    BY <1>1, <1>3, <1>4, <2>2, <2>3 DEF Equipped
<1> QED
  BY <1>5, <1>6

\* An object has a file, which is of this day, and no others than its own are new.
Dated(r, d, B) ==
  /\ r.file_ # NoFile
  /\ Stamped(r, d, B)
  /\ \A n \in DOMAIN d : n \in DOMAIN disk \/ (n.base \in B /\ n.pid = g_main_thread_pid)

\* A Write that gets as far has a file of this day, or there is trouble.
LEMMA ReadyDated ==
  ASSUME TypeInv, setup \in Setups, NamesNeverRecur, NEW bases, Separate(bases), Orderly(bases),
         NEW o \in Objects, MayWrite(o), NEW c \in Ready(o, now)
  PROVE  c.result = "failed" \/ (c.result = "created" /\ Typed(c) /\ Dated(c.r, c.d, bases[o]))
<1>t. /\ Context /\ obj[o] \in Object /\ Disk(disk) /\ TypedObject(obj[o])
      /\ setup \in Setup /\ now \in Nat
  BY DEF TypeInv, TypeOK, Context, Disk, TypedObject
<1>1. PICK s : s = Rolled(obj[o], now)
  OBVIOUS
<1>2. /\ Typed(s) /\ DOMAIN s.d = DOMAIN disk
      /\ s.r.base_filename_ = obj[o].base_filename_
      /\ s.r.base_filename_selected_ = obj[o].base_filename_selected_
      /\ \/ s.r = obj[o] /\ s.r.file_ # NoFile
         \/ /\ s.r.file_ = NoFile
            /\ obj[o].initialized_ => obj[o].tm_time_ # LocalPeriod(now)
  BY <1>1, RollStarts
<1>3. Reopened(o, s) = {s}
  BY DEF Reopened, NamesNeverRecur
<1>4. \/ s.r.file_ # NoFile /\ c = [result |-> "created", r |-> s.r, d |-> s.d]
      \/ s.r.file_ = NoFile /\ c \in Attempted(o, s, now)
  BY <1>1, <1>3, ReadyCases
<1>5. PICK B : B = bases[o]
  OBVIOUS
<1>6. Stamped(obj[o], disk, B)
  BY <1>5 DEF Orderly
<1>7. CASE s.r.file_ # NoFile /\ c = [result |-> "created", r |-> s.r, d |-> s.d]
  <2>1. c.result = "created" /\ c.r = obj[o] /\ c.d = s.d /\ {"r", "d"} \subseteq DOMAIN c
    BY <1>2, <1>7
  <2>2. Dated(c.r, c.d, B)
    BY <1>2, <1>6, <1>7, <2>1 DEF Dated, Stamped
  <2>3. Typed(c)
    BY <1>2, <1>7, <2>1 DEF Typed
  <2> QED
    BY <1>5, <2>1, <2>2, <2>3
<1>8. CASE s.r.file_ = NoFile /\ c \in Attempted(o, s, now)
  <2>1. Range(DefaultBases[o]) \subseteq B
    BY <1>5 DEF Separate
  <2>2. s.r.base_filename_selected_ => s.r.base_filename_ \in B
    BY <1>2, <1>6 DEF Stamped, MayWrite
  <2>3. obj[o].initialized_ => obj[o].tm_time_ # LocalPeriod(now)
    BY <1>2, <1>8
  <2>4. PICK tm \in Nat : tm = LocalPeriod(now)
    BY <1>t, PeriodType
  <2>5. obj[o].tm_time_ \in Int
    BY <1>t DEF Object
  <2>6. ASSUME NEW n \in DOMAIN disk, n.base \in B, n.pid = g_main_thread_pid
        PROVE  n.stamp < tm
    <3>1. n.stamp \in Nat
      BY <1>t DEF Disk, Name
    <3>2. n.stamp <= obj[o].tm_time_ /\ obj[o].tm_time_ <= tm /\ obj[o].tm_time_ # tm
      BY <1>6, <2>3, <2>4, <2>6 DEF Stamped
    <3> QED
      BY <2>5, <3>1, <3>2
  <2>7. \A n \in DOMAIN s.d :
          n.base \in B /\ n.pid = g_main_thread_pid => n.stamp # LocalPeriod(now)
    <3> SUFFICES ASSUME NEW n \in DOMAIN s.d, n.base \in B, n.pid = g_main_thread_pid
                 PROVE  n.stamp # LocalPeriod(now)
      OBVIOUS
    <3>1. n.stamp < tm
      BY <1>2, <2>6
    <3> QED
      BY <2>4, <3>1
  <2>8. c.result = "failed" \/ (c.result = "created" /\ Made(c, s, B))
    BY <1>t, <1>2, <1>8, <2>1, <2>2, <2>7, AttemptFree
  <2>9. Typed(c)
    BY <1>t, <1>2, <1>8, AttemptTyped
  <2>10. ASSUME Made(c, s, B) PROVE Dated(c.r, c.d, B)
    <3>1. /\ c.r.file_ # NoFile /\ c.r.initialized_ /\ c.r.tm_time_ = tm
          /\ c.r.base_filename_ \in B
      BY <2>4, <2>10 DEF Made
    <3>2. \A n \in DOMAIN c.d :
            n \in DOMAIN disk
            \/ (n.base \in B /\ n.pid = g_main_thread_pid /\ n.stamp = tm)
      BY <1>2, <2>4, <2>10 DEF Made
    <3>3. ASSUME NEW n \in DOMAIN c.d, n.base \in B, n.pid = g_main_thread_pid
          PROVE  n.stamp <= tm
      <4>1. CASE n \in DOMAIN disk
        <5>1. n.stamp < tm /\ n.stamp \in Nat
          BY <1>t, <2>6, <3>3, <4>1 DEF Disk, Name
        <5> QED
          BY <5>1
      <4>2. CASE n.stamp = tm
        BY <4>2
      <4> QED
        BY <3>2, <4>1, <4>2
    <3>4. tm <= LocalPeriod(now)
      BY <2>4
    <3>5. Stamped(c.r, c.d, B)
      BY <3>1, <3>3, <3>4 DEF Stamped
    <3> QED
      BY <3>1, <3>2, <3>5 DEF Dated
  <2> QED
    BY <1>5, <2>8, <2>9, <2>10
<1> QED
  BY <1>4, <1>7, <1>8

\* An object with a file of this day leaves everything in order.
LEMMA PutOrderly ==
  ASSUME TypeInv, NEW bases, Separate(bases), Orderly(bases), NEW o \in Objects, NEW r, NEW d,
         Put(o, r, d), Dated(r, d, bases[o]),
         UNCHANGED <<now, pid, g_main_thread_pid, lost, stop_writing>>
  PROVE  Orderly(bases)'
<1>1. /\ \A p \in Objects : obj'[p] = IF p = o THEN r ELSE obj[p]
      /\ disk' = d
  BY DEF Put, TypeInv, TypeOK
<1>2. PICK g \in Nat : g = g_main_thread_pid
  BY DEF TypeInv, TypeOK
<1>3. \A n \in DOMAIN d : n.pid <= g
  BY <1>2 DEF Dated, Orderly
<1>4. ASSUME NEW p \in Objects PROVE (Stamped(obj[p], disk, bases[p]) /\ Equipped(obj[p]))'
  <2>1. CASE p = o
    <3>1. obj'[p] = r
      BY <1>1, <2>1
    <3>2. LocalPeriod(now)' = LocalPeriod(now)
      BY DEF LocalPeriod, Period
    <3> QED
      BY <1>1, <2>1, <3>1, <3>2 DEF Dated, Stamped, Equipped
  <2>2. CASE p # o
    <3>1. obj'[p] = obj[p]
      BY <1>1, <2>2
    <3>2. LocalPeriod(now)' = LocalPeriod(now)
      BY DEF LocalPeriod, Period
    <3>3. Stamped(obj[p], disk, bases[p]) /\ Equipped(obj[p])
      BY DEF Orderly
    <3>4. bases[o] \cap bases[p] = {}
      BY <2>2 DEF Separate
    <3>5. ASSUME NEW n \in DOMAIN d, n.base \in bases[p], n.pid = g_main_thread_pid
          PROVE  obj[p].initialized_ /\ n.stamp <= obj[p].tm_time_
      <4>1. n \in DOMAIN disk
        BY <3>4, <3>5 DEF Dated
      <4> QED
        BY <3>3, <3>5, <4>1 DEF Stamped
    <3>6. Stamped(obj[p], disk, bases[p])'
      BY <1>1, <3>1, <3>2, <3>3, <3>5 DEF Stamped
    <3>7. Equipped(obj[p])'
      BY <3>1, <3>3 DEF Equipped
    <3> QED
      BY <3>6, <3>7
  <2> QED
    BY <2>1, <2>2
<1>5. g_main_thread_pid' = g /\ pid' = pid /\ ~lost' /\ ~stop_writing' /\ g <= pid
  BY <1>2 DEF Orderly
<1> QED
  BY <1>1, <1>3, <1>4, <1>5 DEF Orderly

\* What is written to the file, and how it is flushed, changes nothing of that.
LEMMA AppendedDated ==
  ASSUME NEW B, NEW r \in Object, NEW d, Dated(r, d, B), NEW q, NEW e,
         DOMAIN e \subseteq DOMAIN d,
         q.file_ = r.file_, q.initialized_ = r.initialized_, q.tm_time_ = r.tm_time_,
         q.base_filename_ = r.base_filename_
  PROVE  Dated(q, e, B)
BY DEF Dated, Stamped

\* A message is dropped only if there is trouble.
LEMMA WriteOrderly ==
  ASSUME NEW bases, Separate(bases), NamesNeverRecur, TypeInv, setup \in Setups,
         Orderly(bases), ~trouble, NEW o \in Objects, NEW len \in Nat, NEW force_flush,
         Write(o, len, force_flush, now)
  PROVE  trouble' \/ Orderly(bases)'
<1>w. Writes(o)
  BY WriteCases
<1>1. MayWrite(o) /\ UNCHANGED <<now, pid, g_main_thread_pid>>
  BY <1>w DEF Writes, MayWrite, MainThreadPid, NamesNeverRecur
<1>2. CASE WriteSkipped(o, len, now)
  <2>1. PICK a : a = Rolled(obj[o], now)
    OBVIOUS
  <2>2. ~Skips(a)
    BY <2>1, RollStarts
  <2>3. Reopened(o, a) = {a}
    BY DEF Reopened, NamesNeverRecur
  <2> QED
    BY <1>2, <2>1, <2>2, <2>3 DEF WriteSkipped
<1>3. CASE WriteNoFile(o, len, now)
  <2>1. PICK c \in Ready(o, now) :
          c.result # "created" /\ trouble' = (trouble \/ c.result = "failed")
    BY <1>3 DEF WriteNoFile
  <2>2. c.result = "failed"
    BY <1>1, <2>1, ReadyDated
  <2> QED
    BY <2>1, <2>2
<1>4. CASE WriteStopped(o, len, now)
  BY <1>4 DEF WriteStopped, Orderly
<1>5. CASE WriteDiskFull(o, len, now)
  BY <1>5 DEF WriteDiskFull
<1>6. CASE WriteDone(o, len, force_flush, now)
  <2>1. PICK c, b :
          /\ c \in Ready(o, now)
          /\ c.result = "created"
          /\ Put(o, PutObject(Appended(c.r, b, len), force_flush),
                    PutDisk(Appended(c.r, b, len), c.d, force_flush))
          /\ UNCHANGED <<stop_writing, lost>>
    BY <1>6 DEF WriteDone, Appended, PutObject, PutDisk
  <2>2. Typed(c) /\ Dated(c.r, c.d, bases[o])
    BY <1>1, <2>1, ReadyDated
  <2>3. PICK r \in Object : r = c.r
    BY <2>2 DEF Typed, TypedObject
  <2>4. PICK w : w = Appended(r, b, len)
    OBVIOUS
  <2>5. /\ w.file_ = r.file_ /\ w.initialized_ = r.initialized_ /\ w.tm_time_ = r.tm_time_
        /\ w.base_filename_ = r.base_filename_
    BY <2>4 DEF Appended, Object
  <2>6. PICK q : q = PutObject(w, force_flush)
    OBVIOUS
  <2>7. /\ q.file_ = r.file_ /\ q.initialized_ = r.initialized_ /\ q.tm_time_ = r.tm_time_
        /\ q.base_filename_ = r.base_filename_
    <3>1. CASE q = w
      BY <2>5, <3>1
    <3>2. CASE q = Flushed(w)
      <4>1. \E x, y, z : q = [w EXCEPT !.stdio = x, !.bytes_since_flush_ = y,
                                       !.next_flush_time_ = z]
        BY <3>2 DEF Flushed
      <4>2. {"file_", "initialized_", "tm_time_", "base_filename_"} \subseteq DOMAIN w
        BY <2>4 DEF Appended, Object
      <4> QED
        BY <2>5, <4>1, <4>2
    <3> QED
      BY <2>6, <3>1, <3>2 DEF PutObject
  <2>8. PICK e : e = PutDisk(w, c.d, force_flush)
    OBVIOUS
  <2>9. DOMAIN e \subseteq DOMAIN c.d
    <3>1. PICK d : d = Drain(w, c.d)
      OBVIOUS
    <3>2. DOMAIN d = DOMAIN c.d
      BY <3>1, DrainDomain
    <3>3. PICK x : x = Cleaned(w, d)
      OBVIOUS
    <3>4. DOMAIN x \subseteq DOMAIN d
      <4>1. CASE x = d
        BY <4>1
      <4>2. ASSUME NEW names, x = Unlink(d, names) PROVE DOMAIN x \subseteq DOMAIN d
        <5>1. DOMAIN Unlink(d, names) = DOMAIN d \ names
          BY UnlinkDomain
        <5> QED
          BY <4>2, <5>1
      <4> QED
        BY <3>3, <4>1, <4>2 DEF Cleaned
    <3> QED
      BY <2>8, <3>1, <3>2, <3>3, <3>4 DEF PutDisk
  <2>10. Dated(q, e, bases[o])
    BY <2>2, <2>3, <2>7, <2>9, AppendedDated
  <2>11. Put(o, q, e)
    BY <2>1, <2>3, <2>4, <2>6, <2>8
  <2> QED
    BY <1>1, <2>1, <2>10, <2>11, PutOrderly
<1> QED
  BY <1>2, <1>3, <1>4, <1>5, <1>6 DEF Write

\* An object of a new process.
LEMMA NewOrderly ==
  ASSUME NEW bases, Separate(bases), setup \in Setups, NEW g,
         NEW o \in Objects, NEW r, r = NewObject(StartBase[o], g)
  PROVE  Equipped(r) /\ ~r.initialized_ /\ r.base_filename_ \in bases[o] \cup {NoBase}
<1>1. StartBase[o] \in bases[o] \cup {NoBase}
  BY DEF Separate, StartBase
<1>2. /\ r.file_ = NoFile /\ r.initialized_ = FALSE /\ r.base_filename_ = StartBase[o]
      /\ r.rollover_attempt_ = kRolloverAttemptFrequency - 1
  BY DEF NewObject
<1> QED
  BY <1>1, <1>2 DEF Equipped

\* As long as the file system accepts everything no message is dropped, if files roll by the
\* day (or hour) and the program neither changes their names nor shares them among
\* severities, and does not fork: what a Write creates never exists already, whatever days,
\* restarts and full disks there are, and stop_writing is set only on a full disk.
THEOREM NoMessageIsDropped ==
  ASSUME NEW bases, Separate(bases), NamesNeverRecur
  PROVE  Spec => []LostOnlyInTrouble
<1> DEFINE I == NameInv(bases)
<1>1. Init => I
  <2> SUFFICES ASSUME Init PROVE NameInv(bases)
    OBVIOUS
  <2>1. PICK g \in [Objects -> GarbageTimes] :
          obj = [o \in Objects |-> NewObject(StartBase[o], g[o])]
    BY DEF Init
  <2>2. setup \in Setups /\ ~lost /\ ~stop_writing /\ g_main_thread_pid = 1 /\ pid = 1
        /\ DOMAIN disk = {}
    BY DEF Init
  <2>3. \A o \in Objects : Stamped(obj[o], disk, bases[o]) /\ Equipped(obj[o])
    <3> SUFFICES ASSUME NEW o \in Objects
                 PROVE  Stamped(obj[o], disk, bases[o]) /\ Equipped(obj[o])
      OBVIOUS
    <3>1. obj[o] = NewObject(StartBase[o], g[o])
      BY <2>1
    <3>2. /\ Equipped(obj[o]) /\ ~obj[o].initialized_
          /\ obj[o].base_filename_ \in bases[o] \cup {NoBase}
      BY <2>2, <3>1, NewOrderly
    <3> QED
      BY <2>2, <3>2 DEF Stamped
  <2>4. TypeInv
    BY InitTyped
  <2> QED
    BY <2>2, <2>3, <2>4 DEF NameInv, Orderly
<1>2. I /\ [Next]_vars => I'
  <2> SUFFICES ASSUME NameInv(bases), [Next]_vars PROVE NameInv(bases)'
    OBVIOUS
  <2>1. TypeInv /\ TypeInv' /\ setup \in Setups
    BY TypeInvStep DEF NameInv
  <2>2. now \in Nat /\ pid \in Nat /\ g_main_thread_pid \in Nat /\ obj \in [Objects -> Object]
        /\ trouble \in BOOLEAN
    BY <2>1 DEF TypeInv, TypeOK
  <2>3. setup' = setup /\ (trouble => trouble')
    <3>1. ASSUME NEW o \in Objects, NEW len, NEW force_flush, NEW timestamp,
                 Write(o, len, force_flush, timestamp)
          PROVE  setup' = setup /\ (trouble => trouble')
      <4>1. Writes(o) => setup' = setup
        BY DEF Writes
      <4>2. CASE WriteSkipped(o, len, timestamp)
        BY <4>1, <4>2 DEF WriteSkipped
      <4>3. CASE WriteNoFile(o, len, timestamp)
        <5>1. Writes(o)
          BY <4>3 DEF WriteNoFile
        <5>2. PICK c : trouble' = (trouble \/ c.result = "failed")
          BY <4>3 DEF WriteNoFile
        <5>3. trouble => trouble'
          BY <5>2, Zenon
        <5> QED
          BY <4>1, <5>1, <5>3
      <4>4. CASE WriteStopped(o, len, timestamp)
        BY <4>1, <4>4 DEF WriteStopped
      <4>5. CASE WriteDiskFull(o, len, timestamp)
        BY <4>1, <4>5 DEF WriteDiskFull
      <4>6. CASE WriteDone(o, len, force_flush, timestamp)
        BY <4>1, <4>6 DEF WriteDone
      <4> QED
        BY <3>1, <4>2, <4>3, <4>4, <4>5, <4>6 DEF Write
    <3>2. ASSUME NEW o \in Objects, Log(o) \/ FatalFlush(o)
          PROVE  setup' = setup /\ (trouble => trouble')
      BY <3>1, <3>2 DEF Log, FatalFlush
    <3>3. ASSUME NEW o \in Objects, Flush(o) PROVE UNCHANGED <<setup, trouble>>
      BY <3>3 DEF Flush, ghosts
    <3>4. ASSUME NEW o \in Objects, NEW b, SetBasename(o, b) PROVE UNCHANGED <<setup, trouble>>
      BY <3>4 DEF SetBasename, ghosts
    <3>5. ASSUME NEW o \in Objects, NEW e, SetExtension(o, e) PROVE UNCHANGED <<setup, trouble>>
      BY <3>5 DEF SetExtension, ghosts
    <3>6. ASSUME NEW overdue, EnableLogCleaner(overdue) PROVE UNCHANGED <<setup, trouble>>
      BY <3>6 DEF EnableLogCleaner, ghosts
    <3>7. CASE DisableLogCleaner \/ Tick \/ DiskFills
      BY <3>7 DEF DisableLogCleaner, Tick, DiskFills, ghosts
    <3>8. CASE Fork \/ Restart
      BY <3>8 DEF Fork, Restart, ghosts
    <3>9. CASE UNCHANGED vars
      BY <3>9 DEF vars, ghosts
    <3> QED
      BY <3>2, <3>3, <3>4, <3>5, <3>6, <3>7, <3>8, <3>9 DEF Next
  <2>4. CASE trouble
    BY <2>1, <2>3, <2>4 DEF NameInv
  <2>5. CASE ~trouble
    <3>1. Orderly(bases)
      BY <2>5 DEF NameInv
    <3>2. SUFFICES trouble' \/ Orderly(bases)'
      BY <2>1, <2>3 DEF NameInv
    <3>3. ~Renames /\ ~FatalFlushes
      BY <2>1 DEF NamesNeverRecur, Renames, FatalFlushes
    <3>4. ASSUME NEW o \in Objects, Log(o) PROVE trouble' \/ Orderly(bases)'
      <4>1. PICK len \in Lengths, should_flush \in BOOLEAN : Write(o, len, should_flush, now)
        BY <3>4 DEF Log
      <4>2. len \in Nat
        BY FlagsAssumption
      <4> QED
        BY <2>1, <2>5, <3>1, <4>1, <4>2, WriteOrderly
    <3>5. ASSUME UNCHANGED <<obj, disk, lost, stop_writing, g_main_thread_pid>>,
                 now <= now', now' \in Nat, pid <= pid', pid' \in Nat
          PROVE  Orderly(bases)'
      <4>1. LocalPeriod(now) \in Nat /\ LocalPeriod(now') \in Nat
            /\ LocalPeriod(now) <= LocalPeriod(now')
        BY <2>2, <3>5, PeriodsGrow
      <4>2. PICK a \in Nat, b \in Nat : a = LocalPeriod(now) /\ b = LocalPeriod(now') /\ a <= b
        BY <4>1
      <4>3. LocalPeriod(now)' = b
        BY <4>2 DEF LocalPeriod, Period
      <4>4. ASSUME NEW o \in Objects PROVE Stamped(obj[o], disk, bases[o])'
        <5>1. Stamped(obj[o], disk, bases[o]) /\ obj[o].tm_time_ \in Int
          BY <2>2, <3>1 DEF Orderly, Object
        <5>2. obj[o].initialized_ => obj[o].tm_time_ <= b
          BY <4>2, <5>1 DEF Stamped
        <5> QED
          BY <3>5, <4>3, <5>1, <5>2 DEF Stamped
      <4>5. g_main_thread_pid' <= pid'
        BY <2>2, <3>1, <3>5 DEF Orderly
      <4>6. \A o \in Objects : Equipped(obj[o])'
        BY <3>1, <3>5 DEF Orderly, Equipped
      <4> QED
        BY <3>1, <3>5, <4>4, <4>5, <4>6 DEF Orderly
    <3>6. ASSUME NEW o \in Objects, Flush(o) PROVE Orderly(bases)'
      <4>1. PICK r \in Object : r = obj[o]
        BY <2>2
      <4>2. PICK q : q = Flushed(r)
        OBVIOUS
      <4>3. PICK e : e = Drain(r, disk)
        OBVIOUS
      <4>4. /\ q.file_ = r.file_ /\ q.initialized_ = r.initialized_ /\ q.tm_time_ = r.tm_time_
            /\ q.base_filename_ = r.base_filename_
            /\ q.rollover_attempt_ = r.rollover_attempt_
        BY <4>2 DEF Flushed, Object
      <4>5. DOMAIN e = DOMAIN disk
        BY <4>3, DrainDomain
      <4>6. /\ Put(o, q, e)
            /\ UNCHANGED <<now, pid, g_main_thread_pid, lost, stop_writing>>
        BY <3>6, <4>1, <4>2, <4>3 DEF Flush, process, ghosts
      <4>7. disk' = e /\ \A p \in Objects : obj'[p] = IF p = o THEN q ELSE obj[p]
        BY <2>2, <4>6 DEF Put
      <4>8. LocalPeriod(now)' = LocalPeriod(now)
        BY <4>6 DEF LocalPeriod, Period
      <4>9. ASSUME NEW p \in Objects
            PROVE  Stamped(obj[p], disk, bases[p])' /\ Equipped(obj[p])'
        <5>1. /\ obj'[p].file_ = obj[p].file_ /\ obj'[p].initialized_ = obj[p].initialized_
              /\ obj'[p].tm_time_ = obj[p].tm_time_
              /\ obj'[p].base_filename_ = obj[p].base_filename_
              /\ obj'[p].rollover_attempt_ = obj[p].rollover_attempt_
          BY <4>1, <4>4, <4>7
        <5>2. Stamped(obj[p], disk, bases[p]) /\ Equipped(obj[p])
          BY <3>1 DEF Orderly
        <5> QED
          BY <4>5, <4>6, <4>7, <4>8, <5>1, <5>2 DEF Stamped, Equipped
      <4> QED
        BY <3>1, <4>5, <4>6, <4>7, <4>9 DEF Orderly
    <3>7. CASE Restart
      <4>1. PICK g \in [Objects -> GarbageTimes] :
              obj' = [o \in Objects |-> NewObject(StartBase[o], g[o])]
        BY <3>7 DEF Restart
      <4>2. /\ disk' = disk /\ now' = now /\ lost' = lost /\ stop_writing' = FALSE
            /\ g_main_thread_pid' = pid + 1 /\ pid' = pid + 1
        BY <3>7 DEF Restart
      <4>3. \A n \in DOMAIN disk : n.pid < pid + 1 /\ n.pid <= pid + 1
        <5> SUFFICES ASSUME NEW n \in DOMAIN disk PROVE n.pid < pid + 1 /\ n.pid <= pid + 1
          OBVIOUS
        <5>1. n.pid \in Nat
          BY <2>1 DEF TypeInv, TypeOK, Name
        <5>2. n.pid <= g_main_thread_pid /\ g_main_thread_pid <= pid
          BY <3>1 DEF Orderly
        <5> QED
          BY <2>2, <5>1, <5>2
      <4>4. \A n \in DOMAIN disk : n.pid # pid + 1
        <5> SUFFICES ASSUME NEW n \in DOMAIN disk PROVE n.pid # pid + 1
          OBVIOUS
        <5>1. n.pid \in Nat /\ n.pid < pid + 1
          BY <2>1, <4>3 DEF TypeInv, TypeOK, Name
        <5> QED
          BY <2>2, <5>1
      <4>5. ASSUME NEW o \in Objects PROVE Stamped(obj[o], disk, bases[o])' /\ Equipped(obj[o])'
        <5>1. PICK r : r = obj'[o]
          OBVIOUS
        <5>2. r = NewObject(StartBase[o], g[o])
          BY <4>1, <5>1
        <5>3. Equipped(r) /\ ~r.initialized_ /\ r.base_filename_ \in bases[o] \cup {NoBase}
          BY <2>1, <5>2, NewOrderly
        <5> QED
          BY <4>2, <4>4, <5>1, <5>3 DEF Stamped, Equipped
      <4> QED
        BY <2>2, <3>1, <4>2, <4>3, <4>5 DEF Orderly
    <3>8. ASSUME NEW overdue, EnableLogCleaner(overdue) PROVE Orderly(bases)'
      BY <2>2, <3>5, <3>8 DEF EnableLogCleaner, process, ghosts
    <3>9. CASE DisableLogCleaner \/ DiskFills
      BY <2>2, <3>5, <3>9 DEF DisableLogCleaner, DiskFills, process, ghosts
    <3>10. CASE Tick
      <4>1. now' = now + 1
            /\ UNCHANGED <<obj, disk, lost, stop_writing, g_main_thread_pid, pid>>
        BY <3>10 DEF Tick, process, ghosts
      <4> QED
        BY <2>2, <3>5, <4>1
    <3>11. CASE Fork
      <4>1. pid' = pid + 1
            /\ UNCHANGED <<obj, disk, lost, stop_writing, g_main_thread_pid, now>>
        BY <3>11 DEF Fork, ghosts
      <4> QED
        BY <2>2, <3>5, <4>1
    <3>12. CASE UNCHANGED vars
      BY <2>2, <3>5, <3>12 DEF vars, process, ghosts
    <3> QED
      BY <3>3, <3>4, <3>6, <3>7, <3>8, <3>9, <3>10, <3>11, <3>12 DEF Next, FatalFlush
  <2> QED
    BY <2>2, <2>4, <2>5
<1>3. I => LostOnlyInTrouble
  BY DEF NameInv, Orderly, LostOnlyInTrouble
<1> HIDE DEF I
<1> QED
  BY <1>1, <1>2, <1>3, PTL DEF Spec

-----------------------------------------------------------------------------
(***************************************************************************)
(* How long the files get.                                                 *)
(***************************************************************************)

\* Without a time stamp in their names, files of earlier processes are not continued
\* by Reopened, which does not look at their length: no name the program uses starts
\* with <program>.<severity>.  (The default names do not.)
NoneContinued ==
  \A s \in Setups, o \in Objects :
    ~s.timestamp_in_logfile_name =>
      /\ Range(DefaultBases[o]) \cap History[o] = {}
      /\ s.StartBase[o] \notin History[o]
      /\ s.Renames => BaseNames \cap History[o] = {}

\* The base names of the files of an object.
OwnBases(bases, o) ==
  IF timestamp_in_logfile_name THEN bases[o] ELSE bases[o] \ History[o]

\* The length a file may get until it is closed: one limit each time it is opened,
\* if it has a time stamp.
Allowed(f) ==
  IF timestamp_in_logfile_name THEN f.opens * SizeLimit ELSE (MaxLogSize + 1) * MB + SizeLimit

\* A file that is not open is shorter.  What is still missing for the one that is
\* open, and the buffer, is more than file_length_ lacks.
Fits(r, n, f) ==
  IF n = r.file_ THEN f.length + r.stdio + SizeLimit <= Allowed(f) + r.file_length_
  ELSE f.length < Allowed(f)

\* The fields r of an object that uses base names of B only, and its files on disk d.
Sized(r, d, B) ==
  /\ r.file_ # NoFile => r.file_.base \in B
  /\ r.file_ = NoFile => r.stdio = 0
  /\ r.base_filename_ \in B \cup {NoBase}
  /\ \A n \in DOMAIN d : n.base \in B => Fits(r, n, d[n])

\* The inductive invariant: in addition, every file is one of some object.
SizeInv(bases) ==
  /\ TypeInv
  /\ setup \in Setups
  /\ \A n \in DOMAIN disk : \E o \in Objects : n.base \in OwnBases(bases, o)
  /\ \A o \in Objects :
       /\ Sized(obj[o], disk, OwnBases(bases, o))
       /\ obj[o].file_length_ < SizeLimit

\* A roll that is not needed finds the file below max_log_size; so does the search
\* for a suitable name.
LEMMA ShortOfMultiple ==
  ASSUME NEW a \in Nat, NEW m \in Nat \ {0}, NEW b \in Nat, a \div m < b
  PROVE  a < b * m
<1>1. PICK q \in Nat, k \in Nat : q = a \div m /\ k = a % m /\ a = q * m + k /\ k < m
  <2>1. a \div m \in Nat /\ a % m \in 0 .. m - 1 /\ a = m * (a \div m) + (a % m)
    OBVIOUS
  <2> QED
    BY <2>1
<1>2. PICK j \in Nat : b = q + 1 + j
  <2>1. b - q - 1 \in Nat /\ b = q + 1 + (b - q - 1)
    BY <1>1
  <2> QED
    BY <2>1
<1>3. b * m = q * m + m + j * m /\ j * m \in Nat /\ q * m \in Nat
  BY <1>2
<1> QED
  BY <1>1, <1>3

\* There is a longest message (kMaxLogMessageLen).
Longest(longest) == longest \in Nat /\ \A len \in Lengths : len <= longest

\* What SizeLimit leaves room for: a file too short to roll, a header and a message.
LEMMA LimitFacts ==
  ASSUME NEW longest, Longest(longest)
  PROVE  /\ SizeLimit \in Nat \ {0} /\ MaxLogSize * MB \in Nat \ {0}
         /\ \A k \in Nat, len \in Lengths \cup {0} :
              k < MaxLogSize * MB + HeaderLength => k + len < SizeLimit
<1>1. PICK all : all = Lengths \cup {0}
  OBVIOUS
<1>2. all \in SUBSET Nat /\ 0 \in all /\ \A len \in all : len <= longest
  BY <1>1, FlagsAssumption DEF Longest
<1>3. Max(all) \in Nat /\ \A len \in all : len <= Max(all)
  BY <1>2, GreatestElement DEF Longest
<1>4. PICK top \in Nat : top = Max(all)
  BY <1>3
<1>5. PICK size \in Nat \ {0} : size = MaxLogSize * MB
  BY FlagsAssumption
<1>6. SizeLimit = size + HeaderLength + top
  BY <1>1, <1>4, <1>5 DEF SizeLimit
<1>7. HeaderLength \in Nat
  BY FlagsAssumption
<1>8. \A k \in Nat, len \in all :
        k < size + HeaderLength => k + len < size + HeaderLength + top
  BY <1>2, <1>3, <1>4, <1>7
<1> QED
  BY <1>1, <1>5, <1>6, <1>7, <1>8

\* What a file may take depends on how often it has been opened.
LEMMA AllowedFacts ==
  ASSUME setup \in Setup, SizeLimit \in Nat, NEW f \in File
  PROVE  /\ Allowed(f) \in Nat
         /\ \A g \in File : g.opens = f.opens => Allowed(g) = Allowed(f)
         /\ \A g \in File :
              timestamp_in_logfile_name /\ g.opens = f.opens + 1 =>
                Allowed(g) = Allowed(f) + SizeLimit
         /\ f.opens = 1 => SizeLimit <= Allowed(f)
         /\ ~timestamp_in_logfile_name =>
              Allowed(f) = (MaxLogSize + 1) * MB + SizeLimit /\ (MaxLogSize + 1) * MB \in Nat
<1>1. PICK limit \in Nat : limit = SizeLimit
  OBVIOUS
<1>2. PICK plain \in Nat : plain = (MaxLogSize + 1) * MB
  BY FlagsAssumption
<1>3. \A g : Allowed(g) = IF timestamp_in_logfile_name THEN g.opens * limit ELSE plain + limit
  BY <1>1, <1>2 DEF Allowed
<1>4. \A g \in File : g.opens \in Nat
  BY DEF File
<1>5. \A i \in Nat : i * limit \in Nat /\ (i + 1) * limit = i * limit + limit
  OBVIOUS
<1>6. Allowed(f) \in Nat
  BY <1>2, <1>3, <1>4, <1>5
<1>7. ASSUME NEW g \in File, timestamp_in_logfile_name, g.opens = f.opens + 1
      PROVE  Allowed(g) = Allowed(f) + SizeLimit
  <2>1. Allowed(g) = (f.opens + 1) * limit /\ Allowed(f) = f.opens * limit
    BY <1>3, <1>7
  <2> QED
    BY <1>1, <1>4, <1>5, <2>1
<1>8. f.opens = 1 => SizeLimit <= Allowed(f)
  <2>1. 1 * limit = limit
    OBVIOUS
  <2> QED
    BY <1>1, <1>2, <1>3, <2>1
<1> QED
  BY <1>1, <1>2, <1>3, <1>6, <1>7, <1>8

\* The fields that count for the length of the file.
SameFile(q, r) ==
  /\ q.file_ = r.file_ /\ q.stdio = r.stdio /\ q.file_length_ = r.file_length_
  /\ q.base_filename_ = r.base_filename_
  /\ q.base_filename_selected_ = r.base_filename_selected_

\* Files have gone, the others have not changed.
Fewer(e, d) == \A n \in DOMAIN e : n \in DOMAIN d /\ e[n] = d[n]

\* The files of other objects have not changed, unless they have gone.
Leaves(d, B) == \A n \in DOMAIN d : n.base \notin B => n \in DOMAIN disk /\ d[n] = disk[n]

SizedPair(s, B) ==
  /\ Typed(s)
  /\ Sized(s.r, s.d, B)
  /\ s.r.base_filename_selected_ => s.r.base_filename_ # NoBase
  /\ Leaves(s.d, B)

\* Unlinking, the cleaner.
LEMMA UnlinkFewer ==
  ASSUME NEW d, NEW names
  PROVE  Fewer(Unlink(d, names), d)
BY DEF Fewer, Unlink, Restrict

LEMMA CleanFewer ==
  ASSUME NEW d, NEW r
  PROVE  Fewer(Cleaned(r, d), d)
BY UnlinkFewer DEF Cleaned, Fewer

\* Removing files and changing other fields keeps the sizes.
LEMMA FewerSized ==
  ASSUME NEW B, NEW s, SizedPair(s, B), NEW p, Typed(p), SameFile(p.r, s.r), Fewer(p.d, s.d)
  PROVE  SizedPair(p, B)
<1>1. \A n \in DOMAIN p.d : n.base \in B => Fits(p.r, n, p.d[n])
  BY DEF SizedPair, Sized, SameFile, Fewer, Fits
<1>2. Sized(p.r, p.d, B)
  BY <1>1 DEF SizedPair, Sized, SameFile
<1>3. Leaves(p.d, B)
  BY DEF SizedPair, Leaves, Fewer
<1> QED
  BY <1>2, <1>3 DEF SizedPair, SameFile

\* Pruning; looking for old files, which lists none but those of the history.
LEMMA PruneSized ==
  ASSUME NEW B, NEW s, SizedPair(s, B), NEW p \in Pruned(s)
  PROVE  SizedPair(p, B) /\ SameFile(p.r, s.r)
<1>1. PICK k \in SUBSET s.r.file_list_ :
        p = [r |-> [s.r EXCEPT !.file_list_ = k],
             d |-> Unlink(s.d, {x.name : x \in s.r.file_list_ \ k})]
  BY PruneCases
<1>2. Typed(p)
  BY PruneTyped DEF SizedPair
<1>3. Fewer(p.d, s.d)
  BY <1>1, UnlinkFewer
<1>4. SameFile(p.r, s.r)
  <2>1. s.r \in Object
    BY DEF SizedPair, Typed, TypedObject
  <2>2. p.r = [s.r EXCEPT !.file_list_ = k]
    BY <1>1
  <2> QED
    BY <2>1, <2>2 DEF SameFile, Object
<1> QED
  BY <1>2, <1>3, <1>4, FewerSized

LEMMA HistorySized ==
  ASSUME NEW B, NEW o, NEW s, SizedPair(s, B), NEW p \in CheckHistoryFileNum(o, s)
  PROVE  /\ SizedPair(p, B) /\ SameFile(p.r, s.r)
         /\ \A x \in p.r.file_list_ : x.name \in DOMAIN s.d /\ x.name.base \in History[o]
<1>0. {"r", "d"} \subseteq DOMAIN s /\ "file_list_" \in DOMAIN s.r
  BY DEF SizedPair, Typed, TypedObject, Object
<1>1. PICK k \in SUBSET Found(o, s.d) :
        p = [r |-> [s.r EXCEPT !.file_list_ = k],
             d |-> Unlink(s.d, {x.name : x \in Found(o, s.d) \ k})]
  BY <1>0, HistoryCases
<1>2. Typed(p)
  BY HistoryTyped DEF SizedPair
<1>3. Fewer(p.d, s.d)
  BY <1>1, UnlinkFewer
<1>4. SameFile(p.r, s.r) /\ p.r.file_list_ = k
  <2>1. s.r \in Object
    BY DEF SizedPair, Typed, TypedObject
  <2>2. p.r = [s.r EXCEPT !.file_list_ = k]
    BY <1>1
  <2> QED
    BY <2>1, <2>2 DEF SameFile, Object
<1>5. \A x \in Found(o, s.d) : x.name \in DOMAIN s.d /\ x.name.base \in History[o]
  BY DEF Found
<1> QED
  BY <1>2, <1>3, <1>4, <1>5, FewerSized

\* A file that is opened: one that is new, one with a time stamp that is continued, or
\* one without that is still short enough.
LEMMA OpenSized ==
  ASSUME Context, SizeLimit \in Nat, NEW B, NEW s, SizedPair(s, B), s.r.file_ = NoFile,
         NEW n \in Name, n.base \in B, NEW c, Typed(c), c.d = OnOpen(s.d, n), c.r.file_ = n,
         c.r.base_filename_ \in B \cup {NoBase},
         c.r.base_filename_selected_ => c.r.base_filename_ # NoBase,
         c.r.stdio <= c.r.file_length_,
         n \in DOMAIN s.d =>
           timestamp_in_logfile_name \/ s.d[n].length < (MaxLogSize + 1) * MB
  PROVE  SizedPair(c, B)
<1>1. \A m \in DOMAIN s.d : s.d[m] \in File
  BY DEF SizedPair, Typed, Disk
<1>2. c.r.stdio \in Nat /\ c.r.file_length_ \in Nat /\ setup \in Setup
  BY DEF Typed, TypedObject, Object, Context
<1>3. DOMAIN c.d = DOMAIN s.d \cup {n} /\ \A m \in DOMAIN s.d \ {n} : c.d[m] = s.d[m]
  BY DEF OnOpen
<1>4. c.d[n] \in File
  BY <1>3 DEF Typed, Disk
<1>5. PICK f \in File : f = c.d[n]
  BY <1>4
<1>6. f.length + c.r.stdio + SizeLimit <= Allowed(f) + c.r.file_length_
  <2>1. f.length \in Nat /\ Allowed(f) \in Nat
    BY <1>2, AllowedFacts DEF File
  <2>2. CASE n \notin DOMAIN s.d
    <3>1. f.length = 0 /\ f.opens = 1
      BY <1>5, <2>2 DEF OnOpen
    <3>2. SizeLimit <= Allowed(f)
      BY <1>2, <3>1, AllowedFacts
    <3> QED
      BY <1>2, <2>1, <3>1, <3>2
  <2>3. CASE n \in DOMAIN s.d
    <3>1. PICK e \in File : e = s.d[n]
      BY <1>1, <2>3
    <3>2. f = [e EXCEPT !.holder = pid, !.opens = @ + 1]
      BY <1>5, <2>3, <3>1 DEF OnOpen
    <3>3. f.length = e.length /\ f.opens = e.opens + 1
      BY <3>1, <3>2 DEF File
    <3>4. e.length \in Nat /\ Allowed(e) \in Nat
      BY <1>2, AllowedFacts DEF File
    <3>5. CASE timestamp_in_logfile_name
      <4>1. n # NoFile
        BY NamesAssumption
      <4>2. e.length < Allowed(e)
        BY <2>3, <3>1, <4>1 DEF SizedPair, Sized, Fits
      <4>3. Allowed(f) = Allowed(e) + SizeLimit
        BY <1>2, <3>3, <3>5, AllowedFacts
      <4> QED
        BY <1>2, <3>3, <3>4, <4>2, <4>3
    <3>6. CASE ~timestamp_in_logfile_name
      <4>1. PICK plain \in Nat : plain = (MaxLogSize + 1) * MB
        BY FlagsAssumption
      <4>2. Allowed(f) = plain + SizeLimit
        BY <1>2, <3>6, <4>1, AllowedFacts
      <4>3. f.length < plain
        BY <2>3, <3>1, <3>3, <3>6, <4>1
      <4> QED
        BY <1>2, <2>1, <4>2, <4>3
    <3> QED
      BY <3>5, <3>6
  <2> QED
    BY <2>2, <2>3
<1>7. Fits(c.r, n, c.d[n])
  BY <1>5, <1>6 DEF Fits
<1>8. ASSUME NEW m \in DOMAIN c.d, m.base \in B, m # n
      PROVE  Fits(c.r, m, c.d[m])
  <2>1. m \in DOMAIN s.d /\ c.d[m] = s.d[m] /\ Fits(s.r, m, s.d[m])
    BY <1>3, <1>8 DEF SizedPair, Sized
  <2>2. m # NoFile
    BY <2>1, NamesAssumption DEF SizedPair, Typed, Disk
  <2> QED
    BY <1>8, <2>1, <2>2 DEF Fits
<1>9. c.r.file_ # NoFile
  BY NamesAssumption
<1>10. Sized(c.r, c.d, B)
  BY <1>7, <1>8, <1>9 DEF Sized
<1>11. Leaves(c.d, B)
  BY <1>3 DEF SizedPair, Leaves
<1> QED
  BY <1>10, <1>11 DEF SizedPair

\* Files of earlier processes are the object's own.
LEMMA ReopenSized ==
  ASSUME Context, SizeLimit \in Nat, NEW bases, NEW o, NEW B, B = OwnBases(bases, o),
         NEW s, SizedPair(s, B), \A n \in DOMAIN s.d : n.base \in History[o] => n.base \in B,
         NEW p \in Reopened(o, s)
  PROVE  SizedPair(p, B) /\ p.r.file_length_ = s.r.file_length_
<1>1. ASSUME s.r.file_ = NoFile, NEW h \in CheckHistoryFileNum(o, s), NEW x \in h.r.file_list_,
             p = WithOldFile(h, x)
      PROVE  SizedPair(p, B) /\ p.r.file_length_ = s.r.file_length_
  <2>1. /\ SizedPair(h, B) /\ SameFile(h.r, s.r)
        /\ x.name \in DOMAIN s.d /\ x.name.base \in History[o]
    BY HistorySized
  <2>2. Typed(p)
    BY ReopenTyped DEF Context, SizedPair
  <2>3. h.r \in Object /\ x.name \in Name
    BY <2>1 DEF SizedPair, Typed, TypedObject, Disk
  <2>4. p.d = OnOpen(h.d, x.name) /\ p.r = [h.r EXCEPT !.file_ = x.name, !.initialized_ = TRUE]
    BY <1>1 DEF WithOldFile
  <2>5. /\ p.r.file_ = x.name /\ p.r.stdio = h.r.stdio /\ p.r.file_length_ = h.r.file_length_
        /\ p.r.base_filename_ = h.r.base_filename_
        /\ p.r.base_filename_selected_ = h.r.base_filename_selected_
    BY <2>3, <2>4 DEF Object
  <2>6. x.name.base \in B /\ timestamp_in_logfile_name
    BY <2>1 DEF OwnBases
  <2>7. h.r.file_ = NoFile /\ h.r.stdio = 0 /\ h.r.file_length_ \in Nat
    BY <1>1, <2>1, <2>3 DEF SizedPair, Sized, SameFile, Object
  <2>8. p.r.stdio <= p.r.file_length_
    BY <2>5, <2>7
  <2>9. /\ p.r.base_filename_ \in B \cup {NoBase}
        /\ p.r.base_filename_selected_ => p.r.base_filename_ # NoBase
    BY <2>1, <2>5 DEF SizedPair, Sized
  <2>10. PICK n : n = x.name
    OBVIOUS
  <2>11. /\ n \in Name /\ n.base \in B /\ p.d = OnOpen(h.d, n) /\ p.r.file_ = n
         /\ n \in DOMAIN h.d => timestamp_in_logfile_name \/ h.d[n].length < (MaxLogSize + 1) * MB
    BY <2>3, <2>4, <2>5, <2>6, <2>10
  <2>12. SizedPair(p, B)
    BY <2>1, <2>2, <2>7, <2>8, <2>9, <2>11, OpenSized
  <2> QED
    BY <2>1, <2>5, <2>12 DEF SameFile
<1>2. ASSUME NEW h \in CheckHistoryFileNum(o, s), p = h
      PROVE  SizedPair(p, B) /\ p.r.file_length_ = s.r.file_length_
  BY <1>2, HistorySized DEF SameFile
<1> QED
  BY <1>1, <1>2, ReopenCases

\* A suitable file is new, or short enough.
LEMMA SuitableNameShort ==
  ASSUME NEW n \in Name, NEW d, Disk(d), setup \in Setup, NEW f \in GetSuitableFileName(n, d)
  PROVE  /\ Fewer(f.d, d)
         /\ f.name \in DOMAIN f.d => f.d[f.name].length < (MaxLogSize + 1) * MB
<1> DEFINE Big(m) == d[m].length \div MB >= MaxLogSize
           Num(i) == [n EXCEPT !.seq = i + 1]
           Names(count) == {n} \cup {Num(i) : i \in 0 .. count - 1}
           Oldest(count) == CHOOSE m \in Names(count) : \A k \in Names(count) :
                              d[m].mtime < d[k].mtime
                              \/ (d[m].mtime = d[k].mtime /\ m.seq <= k.seq)
           Free(count) == {i \in 0 .. count - 1 : Num(i) \notin DOMAIN d \/ ~Big(Num(i))}
           First(count) == CHOOSE i \in Free(count) : \A j \in Free(count) : i <= j
<1>1. ASSUME NEW m \in DOMAIN d, d[m].length \div MB <= MaxLogSize
      PROVE  d[m].length < (MaxLogSize + 1) * MB
  <2>1. PICK a \in Nat : a = d[m].length
    BY DEF Disk, File
  <2>2. PICK mb \in Nat \ {0}, max \in Nat : mb = MB /\ max = MaxLogSize
    BY FlagsAssumption
  <2>3. a \div mb \in Nat
    OBVIOUS
  <2>4. a \div mb < max + 1
    BY <1>1, <2>1, <2>2, <2>3
  <2>5. a < (max + 1) * mb
    BY <2>4, ShortOfMultiple
  <2> QED
    BY <2>1, <2>2, <2>5
<1>2. CASE n \notin DOMAIN d \/ d[n].length \div MB <= MaxLogSize
  <2>1. f = [name |-> n, d |-> d]
    BY <1>2 DEF GetSuitableFileName
  <2> QED
    BY <1>1, <1>2, <2>1 DEF Fewer
<1>3. CASE ~(n \notin DOMAIN d \/ d[n].length \div MB <= MaxLogSize)
  <2>1. PICK count \in LogfileCounts :
          f = IF Free(count) # {}
                THEN [name |-> Num(First(count)), d |-> d]
                ELSE [name |-> Oldest(count), d |-> Unlink(d, {Oldest(count)})]
    BY <1>3 DEF GetSuitableFileName
  <2>2. count \in Int
    BY SetupTypes, FlagsAssumption DEF LogfileCounts
  <2>3. CASE Free(count) # {}
    <3>1. Free(count) \in SUBSET Nat
      BY <2>2
    <3>2. First(count) \in Free(count)
      <4> HIDE DEF Free
      <4> QED
        BY <2>3, <3>1, LeastElement
    <3>3. PICK m : m = Num(First(count))
      OBVIOUS
    <3>4. m \notin DOMAIN d \/ ~Big(m)
      <4> HIDE DEF First, Num, Big
      <4> QED
        BY <3>2, <3>3
    <3>5. f.name = m /\ f.d = d
      <4> HIDE DEF First, Num
      <4> QED
        BY <2>1, <2>3, <3>3
    <3>6. m \in DOMAIN d => d[m].length \div MB <= MaxLogSize
      <4>1. ASSUME m \in DOMAIN d
            PROVE  d[m].length \div MB <= MaxLogSize
        <5>1. PICK q \in Int : q = d[m].length \div MB
          <6>1. PICK a \in Nat, mb \in Nat \ {0} : a = d[m].length /\ mb = MB
            BY <4>1, FlagsAssumption DEF Disk, File
          <6>2. a \div mb \in Int
            OBVIOUS
          <6> QED
            BY <6>1, <6>2
        <5>2. ~(q >= MaxLogSize) /\ MaxLogSize \in Nat
          BY <3>4, <4>1, <5>1, FlagsAssumption
        <5> QED
          BY <5>1, <5>2
      <4> QED
        BY <4>1
    <3> QED
      BY <1>1, <3>5, <3>6 DEF Fewer
  <2>4. CASE Free(count) = {}
    <3>1. PICK m : m = Oldest(count)
      OBVIOUS
    <3>2. f.name = m /\ f.d = Unlink(d, {m})
      <4> HIDE DEF Oldest
      <4> QED
        BY <2>1, <2>4, <3>1
    <3>3. m \notin DOMAIN f.d
      <4>1. DOMAIN Unlink(d, {m}) = DOMAIN d \ {m}
        BY UnlinkDomain
      <4> QED
        BY <3>2, <4>1
    <3> QED
      BY <3>2, <3>3, UnlinkFewer
  <2> QED
    BY <2>3, <2>4
<1> QED
  BY <1>2, <1>3

\* CreateLogfile adds nothing to file_length_ but the header.
LEMMA CreateSized ==
  ASSUME Context, SizeLimit \in Nat, NEW B, NEW o, NEW s, SizedPair(s, B), s.r.file_ = NoFile,
         s.r.tm_time_ \in Nat, NEW base \in Bases, base \in B,
         s.r.base_filename_selected_ => base # NoBase,
         NEW timestamp \in Nat, NEW c \in CreateLogfile(o, s, base, timestamp)
  PROVE  /\ SizedPair(c, B)
         /\ c.r.file_length_ <= s.r.file_length_ + HeaderLength
         /\ c.result = "created" => c.r.file_ # NoFile
<1>1. PICK r : r = [s.r EXCEPT !.base_filename_ = base]
  OBVIOUS
<1>2. s.r \in Object /\ TypedObject(r) /\ r \in Object
  BY <1>1, FieldTypes DEF SizedPair, Typed, TypedObject
<1>3. /\ r.tm_time_ = s.r.tm_time_ /\ r.file_ = NoFile /\ r.base_filename_ = base
      /\ r.stdio = s.r.stdio /\ r.file_length_ = s.r.file_length_
      /\ r.base_filename_selected_ = s.r.base_filename_selected_
  BY <1>1, <1>2 DEF Object
<1>4. PICK n : n = FileName(o, r, base, timestamp)
  OBVIOUS
<1>5. n \in Name /\ n.base = base
  BY <1>2, <1>3, <1>4, FileNameTyped DEF Context, FileName
<1>6. PICK f \in GetSuitableFileName(n, s.d) :
        \/ c.r = r /\ c.d = f.d /\ c.result # "created"
        \/ /\ c.d = OnOpen(f.d, f.name)
           /\ timestamp_in_logfile_name => f.name \notin DOMAIN f.d
           /\ \E g \in GarbageTimes :
                c.r = WithFile(r, f.name, [name |-> n, time |-> g, id |-> NextId(r)])
  BY <1>1, <1>4, CreateCases
<1>7. /\ f.name \in Name /\ f.name.base = base /\ Disk(f.d)
      /\ Fewer(f.d, s.d)
      /\ f.name \in DOMAIN f.d => f.d[f.name].length < (MaxLogSize + 1) * MB
  BY <1>5, SuitableNameTyped, SuitableNameShort DEF SizedPair, Typed, Context
<1>8. PICK p : p = [r |-> r, d |-> f.d]
  OBVIOUS
<1>9. Typed(p) /\ Typed(c)
  BY <1>2, <1>7, <1>8, CreateTyped DEF SizedPair, Context, Typed
<1>10. SizedPair(p, B)
  <2>1. \A m \in DOMAIN p.d : m.base \in B => Fits(p.r, m, p.d[m])
    BY <1>3, <1>7, <1>8 DEF SizedPair, Sized, Fewer, Fits
  <2>2. Sized(p.r, p.d, B)
    BY <1>3, <1>8, <2>1 DEF SizedPair, Sized
  <2>3. Leaves(p.d, B)
    BY <1>7, <1>8 DEF SizedPair, Leaves, Fewer
  <2> QED
    BY <1>3, <1>8, <1>9, <2>2, <2>3 DEF SizedPair
<1>11. r.stdio = 0 /\ r.file_length_ \in Nat /\ HeaderLength \in Nat
  BY <1>2, <1>3, FlagsAssumption DEF SizedPair, Sized, Object
<1>12. CASE c.r = r /\ c.d = f.d /\ c.result # "created"
  <2>1. SizedPair(c, B)
    BY <1>8, <1>9, <1>10, <1>12 DEF SizedPair
  <2> QED
    BY <1>3, <1>11, <1>12, <2>1
<1>13. ASSUME NEW g \in GarbageTimes, c.d = OnOpen(f.d, f.name),
              timestamp_in_logfile_name => f.name \notin DOMAIN f.d,
              c.r = WithFile(r, f.name, [name |-> n, time |-> g, id |-> NextId(r)])
       PROVE  SizedPair(c, B) /\ c.r.file_length_ = r.file_length_ + HeaderLength
              /\ c.r.file_ # NoFile
  <2>1. PICK list : list = r.file_list_ \cup {[name |-> n, time |-> g, id |-> NextId(r)]}
    OBVIOUS
  <2>2. PICK m : m = f.name
    OBVIOUS
  <2>3. c.r = [r EXCEPT !.file_ = m, !.stdio = HeaderLength, !.file_length_ = @ + HeaderLength,
                        !.bytes_since_flush_ = @ + HeaderLength, !.file_list_ = list]
    BY <1>13, <2>1, <2>2 DEF WithFile
  <2>4. /\ c.r.file_ = m /\ c.r.stdio = HeaderLength
        /\ c.r.file_length_ = r.file_length_ + HeaderLength
        /\ c.r.base_filename_ = base
        /\ c.r.base_filename_selected_ = s.r.base_filename_selected_
    BY <1>2, <1>3, <2>3 DEF Object
  <2>5. /\ m \in Name /\ m.base \in B /\ m # NoFile /\ c.d = OnOpen(p.d, m)
        /\ m \in DOMAIN p.d =>
             timestamp_in_logfile_name \/ p.d[m].length < (MaxLogSize + 1) * MB
    BY <1>7, <1>8, <1>13, <2>2, NamesAssumption
  <2>6. p.r.file_ = NoFile
    BY <1>3, <1>8
  <2>7. c.r.stdio <= c.r.file_length_
    BY <1>11, <2>4
  <2>8. /\ c.r.base_filename_ \in B \cup {NoBase}
        /\ c.r.base_filename_selected_ => c.r.base_filename_ # NoBase
    BY <2>4
  <2>9. SizedPair(c, B)
    BY <1>9, <1>10, <2>4, <2>5, <2>6, <2>7, <2>8, OpenSized
  <2> QED
    BY <2>4, <2>5, <2>9
<1>14. CASE c.d = OnOpen(f.d, f.name)
            /\ (timestamp_in_logfile_name => f.name \notin DOMAIN f.d)
            /\ \E g \in GarbageTimes :
                 c.r = WithFile(r, f.name, [name |-> n, time |-> g, id |-> NextId(r)])
  <2>1. SizedPair(c, B) /\ c.r.file_length_ = r.file_length_ + HeaderLength
        /\ c.r.file_ # NoFile
    BY <1>13, <1>14
  <2> QED
    BY <1>3, <1>11, <2>1
<1> QED
  BY <1>6, <1>12, <1>14

\* The names of the object's files.
Named(bases, o) ==
  /\ Range(DefaultBases[o]) \subseteq OwnBases(bases, o)
  /\ StartBase[o] \in OwnBases(bases, o) \cup {NoBase}
  /\ Renames => BaseNames \subseteq OwnBases(bases, o) \cup {NoBase}

\* The names the program uses are own ones, and without time stamp no old ones.
LEMMA NamesOwn ==
  ASSUME NEW bases, Separate(bases), NoneContinued, setup \in Setups, NEW o \in Objects
  PROVE  Named(bases, o)
<1>1. /\ Range(DefaultBases[o]) \subseteq bases[o]
      /\ StartBase[o] \in bases[o] \cup {NoBase}
      /\ Renames => BaseNames \subseteq bases[o] \cup {NoBase}
  BY DEF Separate, StartBase, Renames
<1>2. ~timestamp_in_logfile_name =>
        /\ Range(DefaultBases[o]) \cap History[o] = {}
        /\ StartBase[o] \notin History[o]
        /\ Renames => BaseNames \cap History[o] = {}
  BY DEF NoneContinued, StartBase, Renames, timestamp_in_logfile_name
<1> QED
  BY <1>1, <1>2 DEF Named, OwnBases

\* An attempt to create a file, in any of the directories.
LEMMA AttemptSized ==
  ASSUME Context, SizeLimit \in Nat, NEW bases, NEW o \in Objects, Named(bases, o), NEW B,
         B = OwnBases(bases, o), NEW s, SizedPair(s, B), s.r.file_ = NoFile, NEW timestamp \in Nat,
         NEW c \in Attempted(o, s, timestamp)
  PROVE  /\ SizedPair(c, B)
         /\ c.r.file_length_ <= s.r.file_length_ + HeaderLength
         /\ c.result = "created" => c.r.file_ # NoFile
<1>1. PICK t : t = [s EXCEPT !.r.rollover_attempt_ = 0]
  OBVIOUS
<1>2. PICK h, base :
        /\ h \in Pruned(t) \/ h \in CheckHistoryFileNum(o, t)
        /\ IF s.r.base_filename_selected_ THEN base = s.r.base_filename_
           ELSE base \in Range(DefaultBases[o])
        /\ c \in CreateLogfile(o, Prepared(h, timestamp), base, timestamp)
  BY <1>1, AttemptCases
<1>3. s.r \in Object
  BY DEF SizedPair, Typed, TypedObject
<1>4. SizedPair(t, B) /\ SameFile(t.r, s.r)
  <2>1. PICK q : q = [s.r EXCEPT !.rollover_attempt_ = 0]
    OBVIOUS
  <2>2. TypedObject(q)
    BY <2>1, FieldTypes DEF SizedPair, Typed
  <2>3. t.r = q /\ t.d = s.d /\ {"r", "d"} \subseteq DOMAIN t
    BY <1>1, <2>1 DEF SizedPair, Typed
  <2>4. SameFile(t.r, s.r)
    BY <1>3, <2>1, <2>3 DEF SameFile, Object
  <2>5. Typed(t) /\ Fewer(t.d, s.d)
    BY <2>2, <2>3 DEF SizedPair, Typed, Fewer
  <2> QED
    BY <2>4, <2>5, FewerSized
<1>5. SizedPair(h, B) /\ SameFile(h.r, t.r)
  BY <1>2, <1>4, PruneSized, HistorySized
<1>6. PICK p : p = Prepared(h, timestamp)
  OBVIOUS
<1>7. SizedPair(p, B) /\ SameFile(p.r, h.r) /\ p.r.tm_time_ \in Nat
  <2>1. h.r \in Object
    BY <1>5 DEF SizedPair, Typed, TypedObject
  <2>2. Typed(p) /\ p.r.tm_time_ \in Nat
    BY <1>5, <1>6, PreparedTyped DEF SizedPair
  <2>3. p.d = h.d
    BY <1>5, <1>6 DEF Prepared, SizedPair, Typed
  <2>4. \E tm : p.r = [h.r EXCEPT !.initialized_ = TRUE, !.tm_time_ = tm]
    BY <1>5, <1>6 DEF Prepared, SizedPair, Typed, TypedObject, Object
  <2>5. SameFile(p.r, h.r)
    BY <2>1, <2>4 DEF SameFile, Object
  <2>6. Fewer(p.d, h.d)
    BY <2>3 DEF Fewer
  <2> QED
    BY <1>5, <2>2, <2>5, <2>6, FewerSized
<1>8. SameFile(p.r, s.r)
  BY <1>4, <1>5, <1>7 DEF SameFile
<1>9. base \in Bases
  BY <1>2, <1>3, NamesAssumption DEF Object, Bases, Range
<1>10. base \in B /\ (s.r.base_filename_selected_ => base # NoBase)
  BY <1>2 DEF SizedPair, Sized, Named
<1>11. p.r.file_ = NoFile /\ (p.r.base_filename_selected_ => base # NoBase)
       /\ p.r.file_length_ = s.r.file_length_
  BY <1>8, <1>10 DEF SameFile
<1> QED
  BY <1>2, <1>6, <1>7, <1>9, <1>10, <1>11, CreateSized

\* fwrite moves bytes from the buffer to the file of the object.
LEMMA DrainSized ==
  ASSUME NEW r \in Object, NEW d, Disk(d), NEW B, Sized(r, d, B), now \in Nat, setup \in Setup,
         SizeLimit \in Nat, NEW e, e = Drain(r, d)
  PROVE  /\ DOMAIN e = DOMAIN d
         /\ \A n \in DOMAIN d : n # r.file_ => e[n] = d[n]
         /\ r.file_ \in DOMAIN d => e[r.file_].length <= d[r.file_].length + r.stdio
         /\ \A n \in DOMAIN d : Allowed(e[n]) = Allowed(d[n])
<1>1. DOMAIN e = DOMAIN d
  BY DrainDomain
<1>2. \A n \in DOMAIN d : n # r.file_ => e[n] = d[n]
  BY DEF Drain
<1>3. ASSUME r.file_ \in DOMAIN d
      PROVE  /\ e[r.file_].length <= d[r.file_].length + r.stdio
             /\ e[r.file_].opens = d[r.file_].opens
  <2>1. d[r.file_] \in File /\ r.stdio \in Nat
    BY <1>3 DEF Disk, Object
  <2>2. CASE r.stdio > 0 /\ ~full
    <3>1. e[r.file_] = [d[r.file_] EXCEPT !.length = @ + r.stdio, !.mtime = now]
      BY <1>3, <2>2 DEF Drain
    <3>2. PICK f \in File : f = d[r.file_]
      BY <2>1
    <3>3. /\ e[r.file_].length = f.length + r.stdio
          /\ e[r.file_].opens = f.opens
      BY <3>1, <3>2 DEF File
    <3> QED
      BY <2>1, <3>2, <3>3 DEF File
  <2>3. CASE ~(r.stdio > 0 /\ ~full)
    <3>1. e = d
      BY <2>3 DEF Drain
    <3> QED
      BY <2>1, <3>1 DEF File
  <2> QED
    BY <2>2, <2>3
<1>4. \A n \in DOMAIN d : e[n] \in File /\ d[n] \in File
  BY <1>1, DrainTyped DEF Disk
<1>5. ASSUME NEW n \in DOMAIN d
      PROVE  Allowed(e[n]) = Allowed(d[n])
  <2>1. e[n].opens = d[n].opens
    BY <1>2, <1>3
  <2> QED
    BY <1>4, <2>1, AllowedFacts
<1> QED
  BY <1>1, <1>2, <1>3, <1>5

\* What a file is missing is more than SizeLimit lacks, so that it is short enough
\* once the buffer has gone to it, open or closed.
LEMMA DrainedSized ==
  ASSUME NEW r \in Object, NEW d, Disk(d), NEW B, Sized(r, d, B), r.file_length_ < SizeLimit,
         now \in Nat, setup \in Setup, SizeLimit \in Nat, NEW q, q.stdio = 0,
         q.base_filename_ \in B \cup {NoBase},
         \/ q.file_ = NoFile
         \/ q.file_ = r.file_ /\ q.file_length_ = r.file_length_
  PROVE  Sized(q, Drain(r, d), B)
<1>1. PICK e : e = Drain(r, d)
  OBVIOUS
<1>2. /\ DOMAIN e = DOMAIN d
      /\ \A n \in DOMAIN d : n # r.file_ => e[n] = d[n]
      /\ r.file_ \in DOMAIN d => e[r.file_].length <= d[r.file_].length + r.stdio
      /\ \A n \in DOMAIN d : Allowed(e[n]) = Allowed(d[n])
  BY <1>1, DrainSized
<1>3. Disk(e)
  BY <1>1, DrainTyped
<1>4. ASSUME NEW n \in DOMAIN e, n.base \in B
      PROVE  Fits(q, n, e[n])
  <2>1. n # NoFile
    BY <1>3, NamesAssumption DEF Disk
  <2>2. PICK l \in Nat, k \in Nat, a \in Nat :
          l = e[n].length /\ k = d[n].length /\ a = Allowed(d[n]) /\ a = Allowed(e[n])
    <3>1. e[n] \in File /\ d[n] \in File
      BY <1>2, <1>3, <1>4 DEF Disk
    <3> QED
      BY <1>2, <1>4, <3>1, AllowedFacts DEF File
  <2>3. r.stdio \in Nat /\ r.file_length_ \in Nat
    BY DEF Object
  <2>4. CASE n = r.file_
    <3>1. k + r.stdio + SizeLimit <= a + r.file_length_ /\ l <= k + r.stdio
      BY <1>2, <1>4, <2>2, <2>4 DEF Sized, Fits
    <3>2. l < a /\ l + SizeLimit <= a + r.file_length_
      BY <2>2, <2>3, <3>1
    <3>3. CASE n = q.file_
      BY <2>1, <2>2, <3>2, <3>3 DEF Fits
    <3>4. CASE n # q.file_
      BY <2>2, <3>2, <3>4 DEF Fits
    <3> QED
      BY <3>3, <3>4
  <2>5. CASE n # r.file_
    <3>1. k < a /\ l = k
      BY <1>2, <1>4, <2>2, <2>5 DEF Sized, Fits
    <3> QED
      BY <2>1, <2>2, <2>5, <3>1 DEF Fits
  <2> QED
    BY <2>4, <2>5
<1>5. q.file_ # NoFile => q.file_.base \in B
  BY DEF Sized
<1> QED
  BY <1>1, <1>4, <1>5 DEF Sized

\* The files of other objects are not written to.
LEMMA DrainLeaves ==
  ASSUME NEW r, NEW d, NEW B, Leaves(d, B), r.file_ # NoFile => r.file_.base \in B, Disk(d)
  PROVE  Leaves(Drain(r, d), B)
<1>1. DOMAIN Drain(r, d) = DOMAIN d
  BY DrainDomain
<1>2. \A n \in DOMAIN d : n # r.file_ => Drain(r, d)[n] = d[n]
  BY DEF Drain
<1>3. \A n \in DOMAIN d : n # NoFile
  BY NamesAssumption DEF Disk
<1> QED
  BY <1>1, <1>2, <1>3 DEF Leaves

\* After a roll the file is shorter than max_log_size.
LEMMA RollSized ==
  ASSUME log_rolling_policy = "size", NEW longest, Longest(longest),
         NEW bases, SizeInv(bases), NEW o \in Objects, MayWrite(o),
         NEW timestamp, NEW s, s = Rolled(obj[o], timestamp)
  PROVE  SizedPair(s, OwnBases(bases, o)) /\ s.r.file_length_ < MaxLogSize * MB
<1>1. PICK r : r = obj[o]
  OBVIOUS
<1>2. PICK B : B = OwnBases(bases, o)
  OBVIOUS
<1>3. /\ TypedObject(r) /\ r \in Object /\ Disk(disk) /\ now \in Nat /\ setup \in Setup
      /\ SizeLimit \in Nat
  BY <1>1, LimitFacts DEF SizeInv, TypeInv, TypeOK, TypedObject, Disk
<1>4. Sized(r, disk, B) /\ r.file_length_ < SizeLimit /\ Leaves(disk, B)
  BY <1>1, <1>2 DEF SizeInv, Leaves
<1>5. Typed(s)
  BY <1>1, <1>3, RollTyped
<1>6. CASE CheckNeedRollLogFiles(r, timestamp)
  <2>1. s.d = Drain(r, disk) /\
        s.r = [Closed(r) EXCEPT !.file_length_ = 0, !.bytes_since_flush_ = 0,
                                !.rollover_attempt_ = kRolloverAttemptFrequency - 1]
    BY <1>1, <1>6 DEF Rolled
  <2>2. /\ s.r.file_ = NoFile /\ s.r.stdio = 0 /\ s.r.file_length_ = 0
        /\ s.r.base_filename_ = r.base_filename_
        /\ s.r.base_filename_selected_ = r.base_filename_selected_
    BY <1>3, <2>1 DEF Closed, Object
  <2>3. PICK q : q = s.r
    OBVIOUS
  <2>4. q.stdio = 0 /\ q.file_ = NoFile /\ q.base_filename_ \in B \cup {NoBase}
    BY <1>4, <2>2, <2>3 DEF Sized
  <2>5. Sized(q, Drain(r, disk), B)
    BY <1>3, <1>4, <2>4, DrainedSized
  <2>6. Leaves(Drain(r, disk), B)
    BY <1>3, <1>4, DrainLeaves DEF Sized
  <2>7. 0 < MaxLogSize * MB
    BY LimitFacts
  <2> QED
    BY <1>1, <1>2, <1>5, <2>1, <2>2, <2>3, <2>5, <2>6, <2>7 DEF SizedPair, MayWrite
<1>7. CASE ~CheckNeedRollLogFiles(r, timestamp)
  <2>1. s.r = r /\ s.d = disk
    BY <1>1, <1>7 DEF Rolled
  <2>2. r.file_length_ < MaxLogSize * MB
    <3>1. PICK a \in Nat, mb \in Nat \ {0}, max \in Nat :
            a = r.file_length_ /\ mb = MB /\ max = MaxLogSize
      BY <1>3, FlagsAssumption DEF Object
    <3>2. a \div mb \in Nat
      OBVIOUS
    <3>3. a \div mb < max
      BY <1>7, <3>1, <3>2 DEF CheckNeedRollLogFiles
    <3>4. a < max * mb
      BY <3>3, ShortOfMultiple
    <3> QED
      BY <3>1, <3>4
  <2> QED
    BY <1>1, <1>2, <1>4, <1>5, <2>1, <2>2 DEF SizedPair, MayWrite
<1> QED
  BY <1>6, <1>7

\* Every file is one of some object, so that the files of earlier processes an object
\* finds are its own.
LEMMA HistoryOwned ==
  ASSUME NEW bases, SizeInv(bases), Separate(bases), NEW o \in Objects, NEW d,
         Leaves(d, OwnBases(bases, o)), NEW n \in DOMAIN d, n.base \in History[o]
  PROVE  n.base \in OwnBases(bases, o)
<1> SUFFICES ASSUME n.base \notin OwnBases(bases, o) PROVE FALSE
  OBVIOUS
<1>1. n \in DOMAIN disk
  BY DEF Leaves
<1>2. PICK p \in Objects : n.base \in OwnBases(bases, p)
  BY <1>1 DEF SizeInv
<1>3. n.base \in bases[p] /\ n.base \in bases[o]
  BY <1>2 DEF OwnBases, Separate
<1>4. p = o
  BY <1>3 DEF Separate
<1> QED
  BY <1>2, <1>4

\* What Write has found or made.
LEMMA ReadySized ==
  ASSUME log_rolling_policy = "size", NEW longest, Longest(longest),
         NEW bases, SizeInv(bases), Separate(bases), NEW o \in Objects, Named(bases, o),
         MayWrite(o), NEW timestamp \in Nat
  PROVE  /\ \A s \in Reopened(o, Rolled(obj[o], timestamp)) :
              SizedPair(s, OwnBases(bases, o)) /\ s.r.file_length_ < MaxLogSize * MB
         /\ \A c \in Ready(o, timestamp) :
              /\ SizedPair(c, OwnBases(bases, o))
              /\ c.r.file_length_ < MaxLogSize * MB + HeaderLength
              /\ c.result = "created" => c.r.file_ # NoFile
<1>1. PICK a : a = Rolled(obj[o], timestamp)
  OBVIOUS
<1>2. PICK B : B = OwnBases(bases, o)
  OBVIOUS
<1>3. SizedPair(a, B) /\ a.r.file_length_ < MaxLogSize * MB
  BY <1>1, <1>2, RollSized
<1>4. Context /\ SizeLimit \in Nat
  BY LimitFacts DEF SizeInv, TypeInv, TypeOK, Context, Disk
<1>5. ASSUME NEW s \in Reopened(o, a)
      PROVE  SizedPair(s, B) /\ s.r.file_length_ < MaxLogSize * MB
  <2>1. \A n \in DOMAIN a.d : n.base \in History[o] => n.base \in B
    BY <1>2, <1>3, HistoryOwned DEF SizedPair
  <2>2. SizedPair(s, B) /\ s.r.file_length_ = a.r.file_length_
    BY <1>2, <1>3, <1>4, <2>1, ReopenSized
  <2> QED
    BY <1>3, <2>2
<1>6. ASSUME NEW c \in Ready(o, timestamp)
      PROVE  /\ SizedPair(c, B)
             /\ c.r.file_length_ < MaxLogSize * MB + HeaderLength
             /\ c.result = "created" => c.r.file_ # NoFile
  <2>1. PICK s \in Reopened(o, a) :
          \/ s.r.file_ # NoFile /\ c = [result |-> "created", r |-> s.r, d |-> s.d]
          \/ s.r.file_ = NoFile /\ c \in Attempted(o, s, timestamp)
    BY <1>1, ReadyCases
  <2>2. SizedPair(s, B) /\ s.r.file_length_ < MaxLogSize * MB
    BY <1>5
  <2>3. PICK size \in Nat : size = MaxLogSize * MB
    BY LimitFacts
  <2>4. HeaderLength \in Nat /\ s.r.file_length_ \in Nat
    BY <2>2, FlagsAssumption DEF SizedPair, Typed, TypedObject, Object
  <2>5. CASE s.r.file_ # NoFile /\ c = [result |-> "created", r |-> s.r, d |-> s.d]
    <3>1. c.r = s.r /\ c.d = s.d /\ {"r", "d"} \subseteq DOMAIN c
      BY <2>5
    <3>2. SizedPair(c, B)
      BY <2>2, <3>1 DEF SizedPair, Typed
    <3> QED
      BY <2>2, <2>3, <2>4, <2>5, <3>1, <3>2
  <2>6. CASE s.r.file_ = NoFile /\ c \in Attempted(o, s, timestamp)
    <3>1. /\ SizedPair(c, B)
          /\ c.r.file_length_ <= s.r.file_length_ + HeaderLength
          /\ c.result = "created" => c.r.file_ # NoFile
      BY <1>2, <1>4, <2>2, <2>6, AttemptSized
    <3>2. c.r.file_length_ \in Nat
      BY <3>1 DEF SizedPair, Typed, TypedObject, Object
    <3> QED
      BY <2>2, <2>3, <2>4, <3>1, <3>2
  <2> QED
    BY <2>1, <2>5, <2>6
<1> QED
  BY <1>1, <1>2, <1>5, <1>6

\* A message that is written, and the flush and cleaning that may follow.
LEMMA DoneSized ==
  ASSUME NEW longest, Longest(longest), setup \in Setup, now \in Nat,
         NEW B, NEW c, SizedPair(c, B), c.r.file_ # NoFile,
         c.r.file_length_ < MaxLogSize * MB + HeaderLength,
         NEW len \in Lengths \cup {0}, NEW b \in Buffered(c.r, len), NEW force_flush \in BOOLEAN,
         NEW w, w = Appended(c.r, b, len)
  PROVE  /\ Sized(PutObject(w, force_flush), PutDisk(w, c.d, force_flush), B)
         /\ PutObject(w, force_flush).file_length_ < SizeLimit
         /\ Leaves(PutDisk(w, c.d, force_flush), B)
<1>1. /\ c.r \in Object /\ TypedObject(c.r) /\ Disk(c.d) /\ Sized(c.r, c.d, B)
      /\ Leaves(c.d, B)
  BY DEF SizedPair, Typed, TypedObject
<1>2. /\ len \in Nat /\ b \in Nat /\ b <= c.r.stdio + len
      /\ c.r.stdio \in Nat /\ c.r.file_length_ \in Nat /\ SizeLimit \in Nat
  <2>1. c.r.stdio \in Nat /\ c.r.file_length_ \in Nat /\ len \in Nat
    BY <1>1, FlagsAssumption DEF Object
  <2>2. b = c.r.stdio + len \/ b = 0
    BY DEF Buffered
  <2> QED
    BY <2>1, <2>2, LimitFacts
<1>3. w \in Object
  BY <1>1, <1>2, AppendTyped DEF TypedObject
<1>4. /\ w.file_ = c.r.file_ /\ w.stdio = b /\ w.file_length_ = c.r.file_length_ + len
      /\ w.base_filename_ = c.r.base_filename_
  BY <1>1 DEF Appended, Object
<1>5. w.file_length_ < SizeLimit
  BY <1>2, <1>4, LimitFacts
<1>6. Sized(w, c.d, B)
  <2>1. ASSUME NEW n \in DOMAIN c.d, n.base \in B
        PROVE  Fits(w, n, c.d[n])
    <3>1. PICK k \in Nat, a \in Nat : k = c.d[n].length /\ a = Allowed(c.d[n])
      BY <1>1, <1>2, AllowedFacts DEF Disk, File
    <3>2. Fits(c.r, n, c.d[n])
      BY <1>1, <2>1 DEF Sized
    <3>3. CASE n = w.file_
      <4>1. k + c.r.stdio + SizeLimit <= a + c.r.file_length_
        BY <1>4, <3>1, <3>2, <3>3 DEF Fits
      <4>2. k + w.stdio + SizeLimit <= a + w.file_length_
        BY <1>2, <1>4, <3>1, <4>1
      <4> QED
        BY <3>1, <3>3, <4>2 DEF Fits
    <3>4. CASE n # w.file_
      BY <1>4, <3>2, <3>4 DEF Fits
    <3> QED
      BY <3>3, <3>4
  <2> QED
    BY <1>1, <1>4, <2>1 DEF Sized
<1>7. CASE ~FlushDue(w, force_flush)
  <2>1. PutObject(w, force_flush) = w /\ PutDisk(w, c.d, force_flush) = c.d
    BY <1>7 DEF PutObject, PutDisk
  <2> QED
    BY <1>1, <1>5, <1>6, <2>1
<1>8. CASE FlushDue(w, force_flush)
  <2>1. PICK q : q = PutObject(w, force_flush)
    OBVIOUS
  <2>2. PICK g : g = Drain(w, c.d)
    OBVIOUS
  <2>3. PICK e : e = PutDisk(w, c.d, force_flush)
    OBVIOUS
  <2>4. q = Flushed(w) /\ e = Cleaned(w, g)
    BY <1>8, <2>1, <2>2, <2>3 DEF PutObject, PutDisk
  <2>5. /\ q.file_ = w.file_ /\ q.stdio = 0 /\ q.file_length_ = w.file_length_
        /\ q.base_filename_ = w.base_filename_
    BY <1>3, <2>4 DEF Flushed, Object
  <2>6. q.base_filename_ \in B \cup {NoBase}
    BY <1>6, <2>5 DEF Sized
  <2>7. Sized(q, g, B)
    BY <1>1, <1>2, <1>3, <1>5, <1>6, <2>2, <2>5, <2>6, DrainedSized
  <2>8. Leaves(g, B)
    BY <1>1, <1>6, <2>2, DrainLeaves DEF Sized
  <2>9. Fewer(e, g)
    BY <2>4, CleanFewer
  <2>10. Sized(q, e, B) /\ Leaves(e, B)
    BY <2>7, <2>8, <2>9 DEF Sized, Leaves, Fewer
  <2> QED
    BY <1>5, <2>1, <2>3, <2>5, <2>10
<1> QED
  BY <1>7, <1>8

\* Steps leave the setup alone, and with it what files are whose and may take.
LEMMA SetupKept ==
  ASSUME NEW bases, setup' = setup
  PROVE  /\ \A o \in Objects : OwnBases(bases, o)' = OwnBases(bases, o)
         /\ \A f : Allowed(f)' = Allowed(f)
BY DEF OwnBases, Allowed, timestamp_in_logfile_name

\* An object that puts its fields and the disk back leaves the files of the others
\* as they were.
LEMMA PutSized ==
  ASSUME NEW bases, SizeInv(bases), Separate(bases), NEW o \in Objects, NEW r, NEW d,
         Put(o, r, d), Sized(r, d, OwnBases(bases, o)), r.file_length_ < SizeLimit,
         Leaves(d, OwnBases(bases, o)), TypeInv', setup' = setup
  PROVE  SizeInv(bases)'
<1>1. obj \in [Objects -> Object] /\ disk' = d
  BY DEF SizeInv, TypeInv, TypeOK, Put
<1>2. \A p \in Objects : obj'[p] = IF p = o THEN r ELSE obj[p]
  BY <1>1 DEF Put
<1>3. ASSUME NEW p \in Objects, p # o
      PROVE  Sized(obj[p], d, OwnBases(bases, p))
  <2>1. Sized(obj[p], disk, OwnBases(bases, p))
    BY DEF SizeInv
  <2>2. OwnBases(bases, p) \cap OwnBases(bases, o) = {}
    BY <1>3 DEF Separate, OwnBases
  <2>3. \A n \in DOMAIN d : n.base \in OwnBases(bases, p) => n \in DOMAIN disk /\ d[n] = disk[n]
    BY <2>2 DEF Leaves
  <2> QED
    BY <2>1, <2>3 DEF Sized
<1>4. ASSUME NEW p \in Objects
      PROVE  Sized(obj[p], disk, OwnBases(bases, p))' /\ (obj[p].file_length_ < SizeLimit)'
  <2>1. PICK q : q = obj'[p]
    OBVIOUS
  <2>2. Sized(q, d, OwnBases(bases, p)) /\ q.file_length_ < SizeLimit
    <3>1. CASE p = o
      BY <1>2, <2>1, <3>1
    <3>2. CASE p # o
      BY <1>2, <1>3, <2>1, <3>2 DEF SizeInv
    <3> QED
      BY <3>1, <3>2
  <2>3. PICK B : B = OwnBases(bases, p) /\ B = OwnBases(bases, p)'
    BY SetupKept
  <2>4. \A n \in DOMAIN d : n.base \in B => Fits(q, n, d[n])
    BY <2>2, <2>3 DEF Sized
  <2>5. \A n \in DOMAIN d : n.base \in B => Fits(obj[p], n, disk[n])'
    BY <1>1, <2>1, <2>4, SetupKept DEF Fits
  <2> QED
    BY <1>1, <2>1, <2>2, <2>3, <2>5 DEF Sized
<1>5. \A n \in DOMAIN disk' : \E p \in Objects : n.base \in OwnBases(bases, p)'
  <2>1. ASSUME NEW n \in DOMAIN d
        PROVE  \E p \in Objects : n.base \in OwnBases(bases, p)
    BY DEF Leaves, SizeInv
  <2> QED
    BY <1>1, <2>1, SetupKept
<1> QED
  BY <1>4, <1>5 DEF SizeInv

\* Every exit of Write preserves the invariant.
LEMMA WriteSized ==
  ASSUME log_rolling_policy = "size", NEW longest, Longest(longest),
         NEW bases, SizeInv(bases), Separate(bases), NEW o \in Objects, Named(bases, o),
         NEW len \in Lengths \cup {0}, NEW force_flush \in BOOLEAN, NEW timestamp \in Nat,
         Write(o, len, force_flush, timestamp)
  PROVE  SizeInv(bases)'
<1>1. MayWrite(o) /\ setup' = setup
  BY WriteCases DEF Writes, MayWrite
<1>2. TypeInv' /\ setup \in Setup /\ now \in Nat
  <2>1. len \in Nat
    BY ONLY FlagsAssumption, len \in Lengths \cup {0}
  <2> QED
    BY <2>1, WriteTyped DEF SizeInv, TypeInv, TypeOK
<1>3. PICK B : B = OwnBases(bases, o)
  OBVIOUS
<1>4. /\ \A s \in Reopened(o, Rolled(obj[o], timestamp)) :
           SizedPair(s, B) /\ s.r.file_length_ < MaxLogSize * MB
      /\ \A c \in Ready(o, timestamp) :
           /\ SizedPair(c, B)
           /\ c.r.file_length_ < MaxLogSize * MB + HeaderLength
           /\ c.result = "created" => c.r.file_ # NoFile
  BY <1>1, <1>3, ReadySized
<1>5. /\ SizeLimit \in Nat /\ HeaderLength \in Nat /\ MaxLogSize * MB \in Nat
      /\ \A k \in Nat : k < MaxLogSize * MB + HeaderLength => k < SizeLimit
  <2>1. \A k \in Nat : k < MaxLogSize * MB + HeaderLength => k + 0 < SizeLimit
    BY LimitFacts
  <2> QED
    BY <2>1, LimitFacts, FlagsAssumption
<1>6. ASSUME NEW s, SizedPair(s, B), s.r.file_length_ < MaxLogSize * MB + HeaderLength,
             NEW r, Put(o, r, s.d), r.file_ = s.r.file_, r.stdio = s.r.stdio \/ r.stdio = 0,
             r.base_filename_ = s.r.base_filename_, r.file_length_ = s.r.file_length_
      PROVE  SizeInv(bases)'
  <2>1. s.r \in Object /\ Disk(s.d)
    BY <1>6 DEF SizedPair, Typed, TypedObject
  <2>2. r.file_length_ < SizeLimit
    BY <1>5, <1>6, <2>1 DEF Object
  <2>3. ASSUME NEW n \in DOMAIN s.d, n.base \in B
        PROVE  Fits(r, n, s.d[n])
    <3>1. Fits(s.r, n, s.d[n])
      BY <1>6, <2>3 DEF SizedPair, Sized
    <3>2. PICK k \in Nat, a \in Nat : k = s.d[n].length /\ a = Allowed(s.d[n])
      BY <1>2, <1>5, <2>1, AllowedFacts DEF Disk, File
    <3>3. s.r.stdio \in Nat /\ s.r.file_length_ \in Nat
      BY <2>1 DEF Object
    <3>4. CASE n = r.file_
      <4>1. k + s.r.stdio + SizeLimit <= a + s.r.file_length_
        BY <1>6, <3>1, <3>2, <3>4 DEF Fits
      <4>2. k + r.stdio + SizeLimit <= a + r.file_length_
        BY <1>5, <1>6, <3>2, <3>3, <4>1
      <4> QED
        BY <3>2, <3>4, <4>2 DEF Fits
    <3>5. CASE n # r.file_
      BY <1>6, <3>1, <3>5 DEF Fits
    <3> QED
      BY <3>4, <3>5
  <2>4. Sized(r, s.d, B)
    BY <1>6, <2>3 DEF SizedPair, Sized
  <2>5. Leaves(s.d, B)
    BY <1>6 DEF SizedPair
  <2> QED
    BY <1>1, <1>2, <1>3, <1>6, <2>2, <2>4, <2>5, PutSized
<1>7. ASSUME NEW s \in Reopened(o, Rolled(obj[o], timestamp)),
             Put(o, [s.r EXCEPT !.rollover_attempt_ = @ + 1], s.d)
      PROVE  SizeInv(bases)'
  <2>1. SizedPair(s, B) /\ s.r.file_length_ < MaxLogSize * MB /\ s.r \in Object
    BY <1>4, <1>7 DEF SizedPair, Typed, TypedObject
  <2>2. PICK r : r = [s.r EXCEPT !.rollover_attempt_ = @ + 1]
    OBVIOUS
  <2>3. /\ r.file_ = s.r.file_ /\ r.stdio = s.r.stdio
        /\ r.base_filename_ = s.r.base_filename_ /\ r.file_length_ = s.r.file_length_
    BY <2>1, <2>2 DEF Object
  <2>4. s.r.file_length_ < MaxLogSize * MB + HeaderLength
    <3>1. s.r.file_length_ \in Nat
      BY <2>1 DEF Object
    <3> QED
      BY <1>5, <2>1, <3>1
  <2> QED
    BY <1>6, <1>7, <2>1, <2>2, <2>3, <2>4
<1>8. ASSUME NEW c \in Ready(o, timestamp), Put(o, c.r, c.d)
      PROVE  SizeInv(bases)'
  BY <1>4, <1>6, <1>8
<1>9. ASSUME NEW c \in Ready(o, timestamp), Put(o, [c.r EXCEPT !.stdio = 0], c.d)
      PROVE  SizeInv(bases)'
  <2>1. c.r \in Object
    BY <1>4 DEF SizedPair, Typed, TypedObject
  <2>2. PICK r : r = [c.r EXCEPT !.stdio = 0]
    OBVIOUS
  <2>3. /\ r.file_ = c.r.file_ /\ r.stdio = 0
        /\ r.base_filename_ = c.r.base_filename_ /\ r.file_length_ = c.r.file_length_
    BY <2>1, <2>2 DEF Object
  <2> QED
    BY <1>4, <1>6, <1>9, <2>2, <2>3
<1>10. ASSUME NEW c \in Ready(o, timestamp), NEW b \in Buffered(c.r, len),
              c.result = "created",
              Put(o, PutObject(Appended(c.r, b, len), force_flush),
                     PutDisk(Appended(c.r, b, len), c.d, force_flush))
       PROVE  SizeInv(bases)'
  <2>1. PICK w : w = Appended(c.r, b, len)
    OBVIOUS
  <2>2. PICK q, e : q = PutObject(w, force_flush) /\ e = PutDisk(w, c.d, force_flush)
    OBVIOUS
  <2>3. Sized(q, e, B) /\ q.file_length_ < SizeLimit /\ Leaves(e, B)
    BY <1>2, <1>4, <1>10, <2>1, <2>2, DoneSized
  <2>4. Put(o, q, e)
    BY <1>10, <2>1, <2>2
  <2> QED
    BY <1>1, <1>2, <1>3, <2>3, <2>4, PutSized
<1>11. \/ \E s \in Reopened(o, Rolled(obj[o], timestamp)) :
            Put(o, [s.r EXCEPT !.rollover_attempt_ = @ + 1], s.d)
       \/ \E c \in Ready(o, timestamp) : Put(o, c.r, c.d)
       \/ \E c \in Ready(o, timestamp) : Put(o, [c.r EXCEPT !.stdio = 0], c.d)
       \/ \E c \in Ready(o, timestamp) : \E b \in Buffered(c.r, len) :
            /\ c.result = "created"
            /\ Put(o, PutObject(Appended(c.r, b, len), force_flush),
                      PutDisk(Appended(c.r, b, len), c.d, force_flush))
  BY WriteCases
<1> QED
  BY <1>7, <1>8, <1>9, <1>10, <1>11

\* The operations besides Write drain the buffer, and keep file_length_ and the file
\* or close it.
LEMMA OperationSized ==
  ASSUME NEW longest, Longest(longest),
         NEW bases, SizeInv(bases), Separate(bases), NEW o \in Objects, Named(bases, o),
         \/ Flush(o)
         \/ Renames /\ \E b \in BaseNames : SetBasename(o, b)
         \/ \E e \in Extensions : SetExtension(o, e)
  PROVE  SizeInv(bases)'
<1>1. PICK r : r = obj[o]
  OBVIOUS
<1>2. PICK B : B = OwnBases(bases, o)
  OBVIOUS
<1>3. /\ r \in Object /\ Sized(r, disk, B) /\ r.file_length_ < SizeLimit /\ Leaves(disk, B)
      /\ Disk(disk) /\ now \in Nat /\ setup \in Setup /\ SizeLimit \in Nat
  BY <1>1, <1>2, LimitFacts DEF SizeInv, TypeInv, TypeOK, Disk, Leaves
<1>4. TypeInv' /\ setup' = setup
  <2>1. TypeInv'
    BY OperationTyped DEF SizeInv
  <2> QED
    BY <2>1 DEF Flush, SetBasename, SetExtension
<1>5. ASSUME NEW q, NEW a \in Object, Put(o, q, Drain(a, disk)),
             a.file_ = r.file_, a.stdio = r.stdio, a.file_length_ = r.file_length_,
             q.stdio = 0, q.file_ = NoFile \/ q.file_ = r.file_,
             q.file_length_ = r.file_length_, q.base_filename_ \in B \cup {NoBase}
      PROVE  SizeInv(bases)'
  <2>1. Drain(a, disk) = Drain(r, disk)
    BY <1>5 DEF Drain
  <2>2. Sized(q, Drain(r, disk), B)
    BY <1>3, <1>5, DrainedSized
  <2>3. Leaves(Drain(r, disk), B)
    BY <1>3, DrainLeaves DEF Sized
  <2> QED
    BY <1>2, <1>3, <1>4, <1>5, <2>1, <2>2, <2>3, PutSized
<1>6. ASSUME NEW a \in Object, a.file_ = r.file_, a.stdio = r.stdio,
             a.file_length_ = r.file_length_
      PROVE  /\ Renamed(a).file_ = NoFile /\ Renamed(a).stdio = 0
             /\ Renamed(a).file_length_ = r.file_length_
             /\ Renamed(a).base_filename_ = a.base_filename_
  <2>1. CASE a.file_ = NoFile
    BY <1>3, <1>6, <2>1 DEF Renamed, Sized
  <2>2. CASE a.file_ # NoFile
    <3>1. PICK y : y = Renamed(a)
      OBVIOUS
    <3>2. y = [Closed(a) EXCEPT !.rollover_attempt_ = kRolloverAttemptFrequency - 1]
      BY <2>2, <3>1 DEF Renamed
    <3>3. /\ y.file_ = NoFile /\ y.stdio = 0 /\ y.file_length_ = a.file_length_
          /\ y.base_filename_ = a.base_filename_
      BY <3>2 DEF Closed, Object
    <3> QED
      BY <1>6, <3>1, <3>3
  <2> QED
    BY <2>1, <2>2
<1>7. CASE Flush(o)
  <2>1. PICK q : q = Flushed(r)
    OBVIOUS
  <2>2. /\ q.file_ = r.file_ /\ q.stdio = 0 /\ q.file_length_ = r.file_length_
        /\ q.base_filename_ = r.base_filename_
    BY <1>3, <2>1 DEF Flushed, Object
  <2>3. Put(o, q, Drain(r, disk))
    BY <1>1, <1>7, <2>1 DEF Flush
  <2>4. q.base_filename_ \in B \cup {NoBase}
    BY <1>3, <2>2 DEF Sized
  <2> QED
    BY <1>3, <1>5, <2>2, <2>3, <2>4
<1>8. ASSUME Renames, NEW b \in BaseNames, SetBasename(o, b)
      PROVE  SizeInv(bases)'
  <2>1. PICK a : a = [r EXCEPT !.base_filename_selected_ = TRUE]
    OBVIOUS
  <2>2. a \in Object
    <3>1. TypedObject(r)
      BY <1>1 DEF SizeInv, TypeInv, TypeOK, TypedObject
    <3> QED
      BY <2>1, <3>1, FieldTypes DEF TypedObject
  <2>3. /\ a.file_ = r.file_ /\ a.stdio = r.stdio /\ a.file_length_ = r.file_length_
        /\ a.base_filename_ = r.base_filename_
    BY <1>3, <2>1 DEF Object
  <2>4. CASE Put(o, a, disk)
    <3>1. Sized(a, disk, B)
      BY <1>3, <2>3 DEF Sized, Fits
    <3> QED
      BY <1>2, <1>3, <1>4, <2>3, <2>4, <3>1, PutSized
  <2>5. CASE Put(o, [Renamed(a) EXCEPT !.base_filename_ = b], Drain(a, disk))
    <3>1. PICK x : x = Renamed(a)
      OBVIOUS
    <3>2. x \in Object
      <4>1. TypedObject(a)
        <5>1. TypedObject(r)
          BY <1>1 DEF SizeInv, TypeInv, TypeOK, TypedObject
        <5> QED
          BY <2>1, <5>1, FieldTypes
      <4> QED
        BY <3>1, <4>1, RenameTyped DEF TypedObject
    <3>3. x.file_ = NoFile /\ x.stdio = 0 /\ x.file_length_ = r.file_length_
      BY <1>6, <2>2, <2>3, <3>1
    <3>4. PICK q : q = [x EXCEPT !.base_filename_ = b]
      OBVIOUS
    <3>5. /\ q.file_ = x.file_ /\ q.stdio = x.stdio /\ q.file_length_ = x.file_length_
          /\ q.base_filename_ = b
      BY <3>2, <3>4 DEF Object
    <3>6. b \in B \cup {NoBase}
      BY <1>2, <1>8 DEF Named
    <3>7. Put(o, q, Drain(a, disk))
      BY <2>5, <3>1, <3>4
    <3> QED
      BY <1>5, <2>2, <2>3, <3>3, <3>5, <3>6, <3>7
  <2> QED
    BY <1>1, <1>8, <2>1, <2>4, <2>5 DEF SetBasename
<1>9. ASSUME NEW ext \in Extensions, SetExtension(o, ext)
      PROVE  SizeInv(bases)'
  <2>1. PICK x : x = Renamed(r)
    OBVIOUS
  <2>2. x \in Object
    <3>1. TypedObject(r)
      BY <1>1 DEF SizeInv, TypeInv, TypeOK, TypedObject
    <3> QED
      BY <2>1, <3>1, RenameTyped DEF TypedObject
  <2>3. x.file_ = NoFile /\ x.stdio = 0 /\ x.file_length_ = r.file_length_
        /\ x.base_filename_ = r.base_filename_
    BY <1>3, <1>6, <2>1
  <2>4. PICK q : q = [x EXCEPT !.filename_extension_ = ext]
    OBVIOUS
  <2>5. /\ q.file_ = x.file_ /\ q.stdio = x.stdio /\ q.file_length_ = x.file_length_
        /\ q.base_filename_ = x.base_filename_
    BY <2>2, <2>4 DEF Object
  <2>6. Put(o, q, Drain(r, disk))
    BY <1>1, <1>9, <2>1, <2>4 DEF SetExtension
  <2>7. q.base_filename_ \in B \cup {NoBase}
    BY <1>3, <2>3, <2>5 DEF Sized
  <2> QED
    BY <1>3, <1>5, <2>3, <2>5, <2>6, <2>7
<1> QED
  BY <1>7, <1>8, <1>9

\* A process that dies leaves its files as a crash leaves them, and those are short
\* enough without their buffers.
LEMMA RestartSized ==
  ASSUME NEW longest, Longest(longest),
         NEW bases, SizeInv(bases), \A o \in Objects : Named(bases, o), Restart
  PROVE  SizeInv(bases)'
<1>1. PICK g \in [Objects -> GarbageTimes] :
        obj' = [o \in Objects |-> NewObject(StartBase[o], g[o])]
  BY DEF Restart
<1>2. disk' = disk /\ setup' = setup
  BY DEF Restart
<1>3. TypeInv'
  BY TypeInvStep DEF SizeInv, Next
<1>4. /\ SizeLimit \in Nat \ {0} /\ setup \in Setup /\ Disk(disk)
      /\ \A o \in Objects : obj[o] \in Object
  BY LimitFacts DEF SizeInv, TypeInv, TypeOK, Disk
<1>5. ASSUME NEW o \in Objects
      PROVE  Sized(obj[o], disk, OwnBases(bases, o))' /\ (obj[o].file_length_ < SizeLimit)'
  <2>1. PICK q : q = obj'[o]
    OBVIOUS
  <2>2. /\ q.file_ = NoFile /\ q.stdio = 0 /\ q.file_length_ = 0
        /\ q.base_filename_ = StartBase[o]
    BY <1>1, <2>1 DEF NewObject
  <2>3. PICK B : B = OwnBases(bases, o) /\ B = OwnBases(bases, o)'
    BY <1>2, SetupKept
  <2>4. q.base_filename_ \in B \cup {NoBase}
    BY <2>2, <2>3 DEF Named
  <2>5. ASSUME NEW n \in DOMAIN disk, n.base \in B
        PROVE  Fits(q, n, disk[n])
    <3>1. Fits(obj[o], n, disk[n]) /\ obj[o].file_length_ < SizeLimit
      BY <2>3, <2>5 DEF SizeInv, Sized
    <3>2. PICK k \in Nat, a \in Nat : k = disk[n].length /\ a = Allowed(disk[n])
      BY <1>4, AllowedFacts DEF Disk, File
    <3>3. n # NoFile
      BY <1>4, NamesAssumption DEF Disk
    <3>4. obj[o].stdio \in Nat /\ obj[o].file_length_ \in Nat
      BY <1>4 DEF Object
    <3>5. k < a
      <4>1. CASE n = obj[o].file_
        <5>1. k + obj[o].stdio + SizeLimit <= a + obj[o].file_length_
          BY <3>1, <3>2, <4>1 DEF Fits
        <5> QED
          BY <1>4, <3>1, <3>2, <3>4, <5>1
      <4>2. CASE n # obj[o].file_
        BY <3>1, <3>2, <4>2 DEF Fits
      <4> QED
        BY <4>1, <4>2
    <3> QED
      BY <2>2, <3>2, <3>3, <3>5 DEF Fits
  <2>6. \A n \in DOMAIN disk : n.base \in B => Fits(obj[o], n, disk[n])'
    BY <1>2, <2>1, <2>5, SetupKept DEF Fits
  <2>7. 0 < SizeLimit
    BY <1>4
  <2> QED
    BY <1>2, <2>1, <2>2, <2>3, <2>4, <2>6, <2>7 DEF Sized
<1>6. \A n \in DOMAIN disk' : \E p \in Objects : n.base \in OwnBases(bases, p)'
  BY <1>2, SetupKept DEF SizeInv
<1> QED
  BY <1>2, <1>3, <1>5, <1>6 DEF SizeInv

\* The sum of the buffers on top of a file: no object has it open, or one.
LEMMA TotalOfNone ==
  ASSUME NEW n, {o \in Objects : obj[o].file_ = n} = {}, disk[n].length \in Nat
  PROVE  TotalLength(n) = disk[n].length
<1> DEFINE Sums(g) ==
             g = [s \in SUBSET {} |->
                    IF s = {} THEN 0
                    ELSE LET x == CHOOSE x \in s : TRUE IN obj[x].stdio + g[s \ {x}]]
<1>1. Sums([s \in SUBSET {} |-> 0])
  OBVIOUS
<1>2. \A g : Sums(g) => g[{}] = 0
  OBVIOUS
<1>3. TotalLength(n) = disk[n].length + (CHOOSE g : Sums(g))[{}]
  BY Zenon DEF TotalLength, MapThenSumSet, MapThenFoldSet
<1> HIDE DEF Sums
<1>4. (CHOOSE g : Sums(g))[{}] = 0
  BY <1>1, <1>2
<1> QED
  BY <1>3, <1>4

LEMMA TotalOfOne ==
  ASSUME NEW n, NEW p, {o \in Objects : obj[o].file_ = n} = {p},
         disk[n].length \in Nat, obj[p].stdio \in Nat
  PROVE  TotalLength(n) = disk[n].length + obj[p].stdio
<1> DEFINE Sums(g) ==
             g = [s \in SUBSET {p} |->
                    IF s = {} THEN 0
                    ELSE LET x == CHOOSE y \in s : TRUE IN obj[x].stdio + g[s \ {x}]]
<1>1. \E g : Sums(g)
  <2>1. PICK g : g = [s \in SUBSET {p} |-> IF s = {} THEN 0 ELSE obj[p].stdio]
    OBVIOUS
  <2>2. \A s \in SUBSET {p} : s # {} => s = {p} /\ (CHOOSE y \in s : TRUE) = p /\ s \ {p} = {}
    OBVIOUS
  <2>3. g[{}] = 0
    BY <2>1
  <2>4. ASSUME NEW s \in SUBSET {p}
        PROVE  g[s] = IF s = {} THEN 0
                      ELSE LET x == CHOOSE y \in s : TRUE IN obj[x].stdio + g[s \ {x}]
    <3>1. CASE s = {}
      BY <2>3, <3>1
    <3>2. CASE s # {}
      <4>1. PICK x : x = CHOOSE y \in s : TRUE
        OBVIOUS
      <4>2. x = p /\ s \ {x} = {}
        BY <2>2, <3>2, <4>1
      <4>3. g[s] = obj[p].stdio
        BY <2>1, <3>2
      <4>4. obj[x].stdio = obj[p].stdio /\ g[s \ {x}] = 0
        BY <2>3, <4>2
      <4>5. obj[x].stdio + g[s \ {x}] = g[s]
        BY <4>3, <4>4
      <4> QED
        BY <3>2, <4>1, <4>5
    <3> QED
      BY <3>1, <3>2
  <2>5. Sums(g)
    BY <2>1, <2>4
  <2> QED
    BY <2>5
<1>2. ASSUME NEW g, Sums(g)
      PROVE  g[{p}] = obj[p].stdio
  <2>1. g[{}] = 0
    BY <1>2
  <2>2. g[{p}] = LET x == CHOOSE x \in {p} : TRUE IN obj[x].stdio + g[{p} \ {x}]
    BY <1>2
  <2>3. (CHOOSE x \in {p} : TRUE) = p /\ {p} \ {p} = {}
    OBVIOUS
  <2> HIDE DEF Sums
  <2>4. g[{p}] = obj[p].stdio + g[{}]
    BY <2>2, <2>3
  <2> QED
    BY <2>1, <2>4
<1>3. TotalLength(n) = disk[n].length + (CHOOSE g : Sums(g))[{p}]
  BY Zenon DEF TotalLength, MapThenSumSet, MapThenFoldSet
<1> HIDE DEF Sums
<1>4. (CHOOSE g : Sums(g))[{p}] = obj[p].stdio
  BY <1>1, <1>2
<1> QED
  BY <1>3, <1>4

\* The files of different objects are different, so that the buffer of one object at
\* most adds to a file.
LEMMA SizesFollow ==
  ASSUME NEW longest, Longest(longest), NEW bases, SizeInv(bases), Separate(bases)
  PROVE  FileSizeBounded
<1> SUFFICES ASSUME NEW n \in DOMAIN disk
             PROVE  TotalLength(n) < Allowed(disk[n])
  BY DEF FileSizeBounded, Allowed
<1>1. /\ setup \in Setup /\ Disk(disk) /\ SizeLimit \in Nat
      /\ \A o \in Objects : obj[o] \in Object
  BY LimitFacts DEF SizeInv, TypeInv, TypeOK, Disk
<1>2. PICK p \in Objects : n.base \in OwnBases(bases, p)
  BY DEF SizeInv
<1>3. PICK k \in Nat, a \in Nat : k = disk[n].length /\ a = Allowed(disk[n])
  BY <1>1, AllowedFacts DEF Disk, File
<1>4. n # NoFile
  BY <1>1, NamesAssumption DEF Disk
<1>5. ASSUME NEW o \in Objects, obj[o].file_ = n
      PROVE  o = p
  <2>1. n.base \in OwnBases(bases, o)
    BY <1>4, <1>5 DEF SizeInv, Sized
  <2> QED
    BY <1>2, <2>1 DEF Separate, OwnBases
<1>6. Fits(obj[p], n, disk[n]) /\ obj[p].file_length_ < SizeLimit
  BY <1>2 DEF SizeInv, Sized
<1>7. CASE obj[p].file_ = n
  <2>1. {o \in Objects : obj[o].file_ = n} = {p}
    BY <1>5, <1>7
  <2>2. obj[p].stdio \in Nat /\ obj[p].file_length_ \in Nat
    BY <1>1 DEF Object
  <2>3. TotalLength(n) = k + obj[p].stdio
    BY <1>3, <2>1, <2>2, TotalOfOne
  <2>4. k + obj[p].stdio + SizeLimit <= a + obj[p].file_length_
    BY <1>3, <1>6, <1>7 DEF Fits
  <2> QED
    BY <1>1, <1>3, <1>6, <2>2, <2>3, <2>4
<1>8. CASE obj[p].file_ # n
  <2>1. {o \in Objects : obj[o].file_ = n} = {}
    BY <1>5, <1>8
  <2>2. TotalLength(n) = k
    BY <1>3, <2>1, TotalOfNone
  <2> QED
    BY <1>3, <1>6, <1>8, <2>2 DEF Fits
<1> QED
  BY <1>7, <1>8

\* The sizes are right in the beginning, and every step keeps them so.
LEMMA SizeInit ==
  ASSUME NEW longest, Longest(longest), NEW bases, Init, \A o \in Objects : Named(bases, o)
  PROVE  SizeInv(bases)
<1>1. PICK g \in [Objects -> GarbageTimes] :
        obj = [o \in Objects |-> NewObject(StartBase[o], g[o])]
  BY DEF Init
<1>2. setup \in Setups /\ DOMAIN disk = {}
  BY DEF Init
<1>3. TypeInv
  BY InitTyped
<1>4. ASSUME NEW o \in Objects
      PROVE  Sized(obj[o], disk, OwnBases(bases, o)) /\ obj[o].file_length_ < SizeLimit
  <2>1. /\ obj[o].file_ = NoFile /\ obj[o].stdio = 0 /\ obj[o].file_length_ = 0
        /\ obj[o].base_filename_ = StartBase[o]
    BY <1>1 DEF NewObject
  <2>2. StartBase[o] \in OwnBases(bases, o) \cup {NoBase}
    BY DEF Named
  <2>3. 0 < SizeLimit
    BY LimitFacts
  <2> QED
    BY <1>2, <2>1, <2>2, <2>3 DEF Sized
<1> QED
  BY <1>2, <1>3, <1>4 DEF SizeInv

LEMMA SizeStep ==
  ASSUME log_rolling_policy = "size", NEW longest, Longest(longest), NEW bases, SizeInv(bases),
         Separate(bases), \A o \in Objects : Named(bases, o), [Next]_vars
  PROVE  SizeInv(bases)'
<1>1. ASSUME NEW o \in Objects, Log(o) PROVE SizeInv(bases)'
  <2>1. PICK len \in Lengths, should_flush \in BOOLEAN : Write(o, len, should_flush, now)
    BY <1>1 DEF Log
  <2>2. len \in Lengths \cup {0} /\ now \in Nat
    BY DEF SizeInv, TypeInv, TypeOK
  <2> QED
    BY <2>1, <2>2, WriteSized
<1>2. ASSUME NEW o \in Objects, FatalFlush(o) PROVE SizeInv(bases)'
  BY <1>2, WriteSized DEF FatalFlush
<1>3. ASSUME NEW o \in Objects, Flush(o) PROVE SizeInv(bases)'
  BY <1>3, OperationSized
<1>4. ASSUME Renames, NEW o \in Objects, NEW b \in BaseNames, SetBasename(o, b)
      PROVE  SizeInv(bases)'
  BY <1>4, OperationSized
<1>5. ASSUME NEW o \in Objects, NEW e \in Extensions, SetExtension(o, e)
      PROVE  SizeInv(bases)'
  BY <1>5, OperationSized
<1>6. CASE Restart
  BY <1>6, RestartSized
<1>7. TypeInv'
  BY TypeInvStep DEF SizeInv
<1>8. ASSUME UNCHANGED <<setup, obj, disk>>
      PROVE  SizeInv(bases)'
  <2>1. \A o \in Objects : OwnBases(bases, o)' = OwnBases(bases, o)
    BY <1>8, SetupKept
  <2>2. ASSUME NEW o \in Objects
        PROVE  Sized(obj[o], disk, OwnBases(bases, o))' /\ (obj[o].file_length_ < SizeLimit)'
    <3>1. PICK B : B = OwnBases(bases, o) /\ B = OwnBases(bases, o)'
      BY <2>1
    <3>2. \A n \in DOMAIN disk : n.base \in B => Fits(obj[o], n, disk[n])
      BY <3>1 DEF SizeInv, Sized
    <3>3. \A n \in DOMAIN disk : n.base \in B => Fits(obj[o], n, disk[n])'
      BY <1>8, <3>2, SetupKept DEF Fits
    <3> QED
      BY <1>8, <3>1, <3>3 DEF SizeInv, Sized
  <2> QED
    BY <1>7, <1>8, <2>1, <2>2 DEF SizeInv
<1>9. ASSUME NEW overdue \in OverdueTimes, EnableLogCleaner(overdue) PROVE SizeInv(bases)'
  BY <1>8, <1>9 DEF EnableLogCleaner
<1>10. CASE DisableLogCleaner
  BY <1>8, <1>10 DEF DisableLogCleaner
<1>11. CASE Tick
  BY <1>8, <1>11 DEF Tick
<1>12. CASE DiskFills
  BY <1>8, <1>12 DEF DiskFills
<1>13. CASE Fork
  BY <1>8, <1>13 DEF Fork
<1>14. CASE UNCHANGED vars
  BY <1>8, <1>14 DEF vars
<1> QED
  BY <1>1, <1>2, <1>3, <1>4, <1>5, <1>6, <1>9, <1>10, <1>11, <1>12, <1>13, <1>14 DEF Next

\* With the size policy no log file outgrows its limit, whatever the flags, the sizes,
\* the names, the messages, the rolls, the failures, the forks, crashes and restarts
\* are: a file with a time stamp takes less than max_log_size and one message each time
\* it is opened, one without less than twice that.  Not what file_length_ says counts,
\* which is 0 for a file that is continued and remains after a rename, but what the
\* disk and the buffer really hold.
THEOREM SizesStayBounded ==
  ASSUME log_rolling_policy = "size", NEW longest, Longest(longest),
         NEW bases, Separate(bases), NoneContinued
  PROVE  Spec => []FileSizeBounded
<1> DEFINE I == SizeInv(bases)
<1>1. Init => I
  <2> SUFFICES ASSUME Init PROVE SizeInv(bases)
    OBVIOUS
  <2>1. setup \in Setup /\ setup \in Setups
    BY BoundsAssumption DEF Init
  <2> QED
    BY <2>1, NamesOwn, SizeInit
<1>2. I /\ [Next]_vars => I'
  <2> SUFFICES ASSUME SizeInv(bases), [Next]_vars PROVE SizeInv(bases)'
    OBVIOUS
  <2>1. \A o \in Objects : Named(bases, o)
    BY NamesOwn DEF SizeInv
  <2> QED
    BY <2>1, SizeStep
<1>3. I => FileSizeBounded
  BY SizesFollow
<1> HIDE DEF I
<1> QED
  BY <1>1, <1>2, <1>3, PTL DEF Spec

-----------------------------------------------------------------------------
(***************************************************************************)
(* How many files are kept.                                                *)
(***************************************************************************)

\* The base names the program gives to the files of an object.
UsedBases(s, o) ==
  (IF s.StartBase[o] = NoBase THEN Range(DefaultBases[o]) ELSE {s.StartBase[o]})
  \cup (IF s.Renames THEN BaseNames \ {NoBase} ELSE {})

\* A program that limits the number of its files has time stamps in their names, and
\* recognizes its files when it is started again: the names start with
\* <program>.<severity> (or it forks, and is not started again).
Recognized ==
  \A s \in Setups :
    s.max_logfile_num > 0 =>
      /\ s.timestamp_in_logfile_name
      /\ s.Forks \/ \A o \in Objects : UsedBases(s, o) \subseteq History[o]

\* The files with base names of B.
FilesOf(d, B) == {n \in DOMAIN d : n.base \in B}

\* A file of object o: it has been opened once or is of an earlier process, and it
\* can be recognized.
Familiar(o, n, f) ==
  /\ f.opens = 1 \/ (~Forks /\ n.pid < pid)
  /\ ~Forks => n.pid <= pid /\ n.base \in History[o]

\* The fields r of object o and its files on disk d: there are not too many files, and
\* all of them are in the list, or of an earlier process if the object has not looked
\* for them.
Listed(o, r, d, B) ==
  /\ IsFiniteSet(r.file_list_) /\ Cardinality(r.file_list_) <= max_logfile_num
  /\ IsFiniteSet(FilesOf(d, B)) /\ Cardinality(FilesOf(d, B)) <= max_logfile_num
  /\ \A n \in FilesOf(d, B) :
       /\ Familiar(o, n, d[n])
       /\ IF r.initialized_ THEN \E x \in r.file_list_ : x.name = n ELSE ~Forks /\ n.pid < pid
  /\ ~Forks => r.base_filename_ \in History[o] \cup {NoBase}
  /\ StartBase[o] # NoBase => r.base_filename_selected_

\* The inductive invariant.
KeepInv(bases) ==
  /\ TypeInv
  /\ setup \in Setups
  /\ max_logfile_num > 0 =>
       /\ SizeInv(bases)
       /\ ~Forks => g_main_thread_pid = pid
       /\ \A o \in Objects : Listed(o, obj[o], disk, bases[o])

\* What the list and the files depend on.
SameList(q, r) ==
  /\ q.file_list_ = r.file_list_ /\ q.initialized_ = r.initialized_
  /\ q.base_filename_ = r.base_filename_
  /\ q.base_filename_selected_ = r.base_filename_selected_

\* Files with base names of B have gone, the others have been opened as often.
FewerOf(e, d, B) == \A n \in FilesOf(e, B) : n \in DOMAIN d /\ e[n].opens = d[n].opens

\* An object that has looked for its files: it has all of them in its list.
Complete(o, r, d, B) ==
  /\ IsFiniteSet(r.file_list_)
  /\ \A n \in FilesOf(d, B) :
       Familiar(o, n, d[n]) /\ \E x \in r.file_list_ : x.name = n
  /\ ~Forks => r.base_filename_ \in History[o] \cup {NoBase}
  /\ StartBase[o] # NoBase => r.base_filename_selected_

\* There are at most as many files as entries in a list that has all of them.
LEMMA NamesBound ==
  ASSUME NEW list, IsFiniteSet(list), NEW files, \A n \in files : \E x \in list : x.name = n
  PROVE  IsFiniteSet(files) /\ Cardinality(files) <= Cardinality(list)
<1> DEFINE names == {x.name : x \in list}
           f == [x \in list |-> x.name]
<1>1. f \in Surjection(list, names)
  BY DEF Surjection
<1>2. IsFiniteSet(names) /\ Cardinality(names) <= Cardinality(list)
  <2> HIDE DEF f, names
  <2> QED
    BY <1>1, FS_Surjection
<1>3. files \in SUBSET names
  OBVIOUS
<1>4. IsFiniteSet(files) /\ Cardinality(files) <= Cardinality(names)
  <2> HIDE DEF names
  <2> QED
    BY <1>2, <1>3, FS_Subset
<1>5. PICK a \in Int, b \in Int, c \in Int :
        a = Cardinality(files) /\ b = Cardinality(names) /\ c = Cardinality(list)
  <2> HIDE DEF names
  <2> QED
    BY <1>2, <1>4, FS_CardinalityType
<1> HIDE DEF names
<1> QED
  BY <1>2, <1>4, <1>5

\* Pruning leaves fewer than max_logfile_num entries.
LEMMA PruneCounts ==
  ASSUME max_logfile_num \in Nat \ {0}, NEW s, IsFiniteSet(s.r.file_list_), NEW p \in Pruned(s)
  PROVE  \E k \in SUBSET s.r.file_list_ :
           /\ IsFiniteSet(k) /\ Cardinality(k) < max_logfile_num
           /\ p = [r |-> [s.r EXCEPT !.file_list_ = k],
                   d |-> Unlink(s.d, {x.name : x \in s.r.file_list_ \ k})]
<1>1. PICK k \in Kept(s.r.file_list_) :
        p = [r |-> [s.r EXCEPT !.file_list_ = k],
             d |-> Unlink(s.d, {x.name : x \in s.r.file_list_ \ k})]
  BY DEF Pruned
<1>2. k \in SUBSET s.r.file_list_
  BY DEF Kept
<1>3. IsFiniteSet(k)
  BY <1>2, FS_Subset
<1>4. Cardinality(k) < max_logfile_num
  <2>1. CASE Cardinality(s.r.file_list_) < max_logfile_num
    BY <2>1 DEF Kept
  <2>2. CASE ~(Cardinality(s.r.file_list_) < max_logfile_num)
    <3>1. Cardinality(k) = max_logfile_num - 1
      BY <2>2 DEF Kept
    <3> QED
      BY <3>1
  <2> QED
    BY <2>1, <2>2
<1> QED
  BY <1>1, <1>2, <1>3, <1>4

LEMMA HistoryCounts ==
  ASSUME max_logfile_num \in Nat \ {0}, NEW o, NEW s, {"r", "d"} \subseteq DOMAIN s,
         "file_list_" \in DOMAIN s.r, IsFiniteSet(Found(o, s.d)),
         NEW p \in CheckHistoryFileNum(o, s)
  PROVE  \E k \in SUBSET Found(o, s.d) :
           /\ IsFiniteSet(k) /\ Cardinality(k) < max_logfile_num
           /\ p = [r |-> [s.r EXCEPT !.file_list_ = k],
                   d |-> Unlink(s.d, {x.name : x \in Found(o, s.d) \ k})]
<1> DEFINE list == Found(o, s.d)
           s2 == [s EXCEPT !.r.file_list_ = list]
<1>1. p \in Pruned(s2)
  BY DEF CheckHistoryFileNum, Found
<1> HIDE DEF list
<1>2. s2.d = s.d /\ s2.r = [s.r EXCEPT !.file_list_ = list] /\ s2.r.file_list_ = list
  OBVIOUS
<1>3. IsFiniteSet(list)
  BY DEF list
<1> HIDE DEF s2
<1>4. PICK k \in SUBSET list :
        /\ IsFiniteSet(k) /\ Cardinality(k) < max_logfile_num
        /\ p = [r |-> [s2.r EXCEPT !.file_list_ = k],
                d |-> Unlink(s2.d, {x.name : x \in list \ k})]
  BY <1>1, <1>2, <1>3, PruneCounts
<1>5. [s2.r EXCEPT !.file_list_ = k] = [s.r EXCEPT !.file_list_ = k]
  BY <1>2
<1> QED
  BY <1>2, <1>4, <1>5 DEF list

\* What keeps list and files, or takes files away, keeps them in order.
LEMMA FewerListed ==
  ASSUME max_logfile_num \in Nat, NEW o, NEW B, NEW r, NEW d, Listed(o, r, d, B),
         NEW q, SameList(q, r), NEW e, FewerOf(e, d, B)
  PROVE  Listed(o, q, e, B)
<1>1. FilesOf(e, B) \in SUBSET FilesOf(d, B)
  BY DEF FewerOf, FilesOf
<1>2. IsFiniteSet(FilesOf(d, B)) /\ Cardinality(FilesOf(d, B)) <= max_logfile_num
  BY DEF Listed
<1>3. IsFiniteSet(FilesOf(e, B)) /\ Cardinality(FilesOf(e, B)) <= max_logfile_num
  <2>1. IsFiniteSet(FilesOf(e, B)) /\ Cardinality(FilesOf(e, B)) <= Cardinality(FilesOf(d, B))
    BY <1>1, <1>2, FS_Subset
  <2>2. Cardinality(FilesOf(e, B)) \in Nat /\ Cardinality(FilesOf(d, B)) \in Nat
    BY <1>2, <2>1, FS_CardinalityType
  <2> QED
    BY <1>2, <2>1, <2>2
<1>4. ASSUME NEW n \in FilesOf(e, B)
      PROVE  /\ Familiar(o, n, e[n])
             /\ IF q.initialized_ THEN \E x \in q.file_list_ : x.name = n ELSE ~Forks /\ n.pid < pid
  <2>1. n \in FilesOf(d, B) /\ e[n].opens = d[n].opens
    BY <1>1, <1>4 DEF FewerOf
  <2> QED
    BY <2>1 DEF Listed, Familiar, SameList
<1> QED
  BY <1>3, <1>4 DEF Listed, SameList

\* A complete list, if it is not too long, is in order.
LEMMA CompleteListed ==
  ASSUME max_logfile_num \in Nat, NEW o, NEW B, NEW r, NEW d, Complete(o, r, d, B),
         Cardinality(r.file_list_) <= max_logfile_num, r.initialized_
  PROVE  Listed(o, r, d, B)
<1>1. \A n \in FilesOf(d, B) : \E x \in r.file_list_ : x.name = n
  BY DEF Complete
<1>2. /\ IsFiniteSet(FilesOf(d, B))
      /\ Cardinality(FilesOf(d, B)) <= Cardinality(r.file_list_)
  BY <1>1, NamesBound DEF Complete
<1>3. Cardinality(FilesOf(d, B)) \in Nat /\ Cardinality(r.file_list_) \in Nat
  BY <1>2, FS_CardinalityType DEF Complete
<1>4. Cardinality(FilesOf(d, B)) <= max_logfile_num
  BY <1>2, <1>3
<1> QED
  BY <1>2, <1>4 DEF Complete, Listed

\* The files an object finds when it looks for old ones are its own.
LEMMA FoundFinite ==
  ASSUME NEW o, NEW d, NEW B, IsFiniteSet(FilesOf(d, B)),
         \A n \in DOMAIN d : n.base \in History[o] => n.base \in B
  PROVE  IsFiniteSet(Found(o, d))
<1> DEFINE names == {n \in DOMAIN d : n.base \in History[o]}
           entry(n) == [name |-> n, time |-> d[n].mtime, id |-> 0]
           f == [n \in names |-> entry(n)]
<1>1. names \in SUBSET FilesOf(d, B)
  BY DEF FilesOf
<1>2. IsFiniteSet(names)
  BY <1>1, FS_Subset
<1>3. Found(o, d) = {entry(n) : n \in names}
  BY DEF Found
<1>4. f \in Surjection(names, {entry(n) : n \in names})
  <2> HIDE DEF names, entry
  <2> QED
    BY DEF Surjection
<1> HIDE DEF names, f, entry
<1> QED
  BY <1>2, <1>3, <1>4, FS_Surjection

\* An object that looks for its files finds all, and makes room for another one.
LEMMA HistoryComplete ==
  ASSUME max_logfile_num \in Nat \ {0}, NEW o, NEW s, Typed(s), ~s.r.initialized_,
         NEW B, Listed(o, s.r, s.d, B), \A n \in DOMAIN s.d : n.base \in History[o] => n.base \in B,
         NEW p \in CheckHistoryFileNum(o, s)
  PROVE  /\ Complete(o, p.r, p.d, B) /\ Cardinality(p.r.file_list_) < max_logfile_num
         /\ ~p.r.initialized_
         /\ \A n \in FilesOf(p.d, B) : ~Forks /\ n.pid < pid
         /\ \A x \in p.r.file_list_ : x.name \in FilesOf(s.d, B)
<1>1. IsFiniteSet(Found(o, s.d))
  BY FoundFinite DEF Listed
<1>2. {"r", "d"} \subseteq DOMAIN s /\ s.r \in Object /\ "file_list_" \in DOMAIN s.r
  BY DEF Typed, TypedObject, Object
<1>3. PICK k \in SUBSET Found(o, s.d) :
        /\ IsFiniteSet(k) /\ Cardinality(k) < max_logfile_num
        /\ p = [r |-> [s.r EXCEPT !.file_list_ = k],
                d |-> Unlink(s.d, {x.name : x \in Found(o, s.d) \ k})]
  BY <1>1, <1>2, HistoryCounts
<1>4. /\ p.r.file_list_ = k /\ p.r.initialized_ = s.r.initialized_
      /\ p.r.base_filename_ = s.r.base_filename_
      /\ p.r.base_filename_selected_ = s.r.base_filename_selected_
  <2>1. p.r = [s.r EXCEPT !.file_list_ = k]
    BY <1>3
  <2> QED
    BY <1>2, <2>1 DEF Object
<1>5. /\ \A n \in FilesOf(p.d, B) : n \in FilesOf(s.d, B) /\ p.d[n] = s.d[n]
      /\ \A n \in FilesOf(p.d, B) :
           (\E x \in Found(o, s.d) : x.name = n) => \E x \in k : x.name = n
  <2>1. PICK e, list : e = p.d /\ list = Found(o, s.d)
    OBVIOUS
  <2>2. k \in SUBSET list /\ e = Unlink(s.d, {x.name : x \in list \ k})
    BY <1>3, <2>1
  <2>3. /\ \A n \in FilesOf(e, B) : n \in FilesOf(s.d, B) /\ e[n] = s.d[n]
        /\ \A n \in FilesOf(e, B) :
             (\E x \in list : x.name = n) => \E x \in k : x.name = n
    BY <2>2 DEF Unlink, Restrict, FilesOf
  <2> QED
    BY <2>1, <2>3
<1>6. \A n \in FilesOf(s.d, B) : Familiar(o, n, s.d[n]) /\ ~Forks /\ n.pid < pid
  BY DEF Listed
<1>7. \A n \in FilesOf(s.d, B) : \E x \in Found(o, s.d) : x.name = n
  <2>1. ASSUME NEW n \in FilesOf(s.d, B)
        PROVE  \E x \in Found(o, s.d) : x.name = n
    <3>1. n \in DOMAIN s.d /\ n.base \in History[o]
      BY <1>6, <2>1 DEF Familiar, FilesOf
    <3>2. PICK x : x = [name |-> n, time |-> s.d[n].mtime, id |-> 0]
      OBVIOUS
    <3>3. x \in Found(o, s.d) /\ x.name = n
      BY <3>1, <3>2 DEF Found
    <3> QED
      BY <3>3
  <2> QED
    BY <2>1
<1>8. \A x \in Found(o, s.d) : x.name \in FilesOf(s.d, B)
  BY DEF Found, FilesOf
<1>9. \A n \in FilesOf(p.d, B) : Familiar(o, n, p.d[n]) /\ \E x \in k : x.name = n
  BY <1>5, <1>6, <1>7
<1>10. Complete(o, p.r, p.d, B)
  BY <1>3, <1>4, <1>9 DEF Complete, Listed
<1> QED
  BY <1>3, <1>4, <1>5, <1>6, <1>8, <1>10

\* So does one that has looked for its files before.
LEMMA PruneComplete ==
  ASSUME max_logfile_num \in Nat \ {0}, NEW o, NEW s, Typed(s), s.r.initialized_,
         NEW B, Listed(o, s.r, s.d, B), NEW p \in Pruned(s)
  PROVE  Complete(o, p.r, p.d, B) /\ Cardinality(p.r.file_list_) < max_logfile_num
<1>1. PICK k \in SUBSET s.r.file_list_ :
        /\ IsFiniteSet(k) /\ Cardinality(k) < max_logfile_num
        /\ p = [r |-> [s.r EXCEPT !.file_list_ = k],
                d |-> Unlink(s.d, {x.name : x \in s.r.file_list_ \ k})]
  BY PruneCounts DEF Listed
<1>2. /\ p.r.file_list_ = k
      /\ p.r.base_filename_ = s.r.base_filename_
      /\ p.r.base_filename_selected_ = s.r.base_filename_selected_
  <2>1. p.r = [s.r EXCEPT !.file_list_ = k]
    BY <1>1
  <2> QED
    BY <2>1 DEF Typed, TypedObject, Object
<1>3. /\ \A n \in FilesOf(p.d, B) : n \in FilesOf(s.d, B) /\ p.d[n] = s.d[n]
      /\ \A n \in FilesOf(p.d, B) :
           (\E x \in s.r.file_list_ : x.name = n) => \E x \in k : x.name = n
  <2>1. PICK e, list : e = p.d /\ list = s.r.file_list_
    OBVIOUS
  <2>2. k \in SUBSET list /\ e = Unlink(s.d, {x.name : x \in list \ k})
    BY <1>1, <2>1
  <2>3. /\ \A n \in FilesOf(e, B) : n \in FilesOf(s.d, B) /\ e[n] = s.d[n]
        /\ \A n \in FilesOf(e, B) :
             (\E x \in list : x.name = n) => \E x \in k : x.name = n
    BY <2>2 DEF Unlink, Restrict, FilesOf
  <2> QED
    BY <2>1, <2>3
<1>4. \A n \in FilesOf(s.d, B) : Familiar(o, n, s.d[n]) /\ \E x \in s.r.file_list_ : x.name = n
  BY DEF Listed
<1>5. \A n \in FilesOf(p.d, B) : Familiar(o, n, p.d[n]) /\ \E x \in k : x.name = n
  BY <1>3, <1>4
<1>6. Complete(o, p.r, p.d, B)
  BY <1>1, <1>2, <1>5 DEF Complete, Listed
<1> QED
  BY <1>1, <1>2, <1>6

\* What stdio writes does not open files.
LEMMA DrainOpens ==
  ASSUME NEW r, NEW d, Disk(d), NEW B
  PROVE  FewerOf(Drain(r, d), d, B)
<1>1. DOMAIN Drain(r, d) = DOMAIN d
  BY DrainDomain
<1>2. ASSUME NEW n \in DOMAIN d
      PROVE  Drain(r, d)[n].opens = d[n].opens
  <2>1. CASE n = r.file_ /\ r.stdio > 0 /\ ~full
    <3>1. Drain(r, d)[n] = [d[n] EXCEPT !.length = @ + r.stdio, !.mtime = now]
      BY <1>2, <2>1 DEF Drain
    <3>2. d[n] \in File
      BY <1>2 DEF Disk
    <3> QED
      BY <3>1, <3>2 DEF File
  <2>2. CASE ~(n = r.file_ /\ r.stdio > 0 /\ ~full)
    BY <1>2, <2>2 DEF Drain
  <2> QED
    BY <2>1, <2>2
<1> QED
  BY <1>1, <1>2 DEF FewerOf, FilesOf

\* A roll closes the file, which stays in the list.
LEMMA RollListed ==
  ASSUME max_logfile_num \in Nat, NEW o, obj[o] \in Object, Disk(disk),
         NEW B, Listed(o, obj[o], disk, B), NEW timestamp, NEW s, s = Rolled(obj[o], timestamp)
  PROVE  Listed(o, s.r, s.d, B)
<1>1. SameList(s.r, obj[o])
  BY DEF Rolled, Closed, SameList, Object
<1>2. FewerOf(s.d, disk, B)
  <2>1. s.d = Drain(obj[o], disk) \/ s.d = disk
    BY DEF Rolled
  <2> QED
    BY <2>1, DrainOpens DEF FewerOf, FilesOf
<1> QED
  BY <1>1, <1>2, FewerListed

\* An old file that is continued is listed, and of an earlier process.
LEMMA ReopenListed ==
  ASSUME max_logfile_num \in Nat \ {0}, NEW o, NEW s, Typed(s),
         NEW B, Listed(o, s.r, s.d, B), \A n \in DOMAIN s.d : n.base \in History[o] => n.base \in B,
         NEW p \in Reopened(o, s)
  PROVE  Listed(o, p.r, p.d, B)
<1>1. CASE p = s
  BY <1>1
<1>2. ASSUME p # s, NEW h \in CheckHistoryFileNum(o, s)
      PROVE  /\ Complete(o, h.r, h.d, B) /\ Cardinality(h.r.file_list_) < max_logfile_num
             /\ ~h.r.initialized_
             /\ \A n \in FilesOf(h.d, B) : ~Forks /\ n.pid < pid
             /\ \A x \in h.r.file_list_ : x.name \in FilesOf(s.d, B)
             /\ ~s.r.initialized_
  <2>1. ~s.r.initialized_
    BY <1>2 DEF Reopened
  <2> QED
    BY <1>2, <2>1, HistoryComplete
<1>3. ASSUME p # s, NEW h \in CheckHistoryFileNum(o, s), p = h
      PROVE  Listed(o, p.r, p.d, B)
  <2>1. /\ IsFiniteSet(FilesOf(h.d, B))
        /\ Cardinality(FilesOf(h.d, B)) <= Cardinality(h.r.file_list_)
    <3>1. /\ IsFiniteSet(h.r.file_list_)
          /\ \A n \in FilesOf(h.d, B) : \E x \in h.r.file_list_ : x.name = n
      BY <1>2, <1>3 DEF Complete
    <3> QED
      BY <3>1, NamesBound
  <2>2. Cardinality(FilesOf(h.d, B)) \in Nat /\ Cardinality(h.r.file_list_) \in Nat
    BY <1>2, <1>3, <2>1, FS_CardinalityType DEF Complete
  <2>3. /\ Cardinality(FilesOf(h.d, B)) <= max_logfile_num
        /\ Cardinality(h.r.file_list_) <= max_logfile_num
    BY <1>2, <1>3, <2>1, <2>2
  <2> QED
    BY <1>2, <1>3, <2>1, <2>3 DEF Complete, Listed
<1>4. ASSUME p # s, NEW h \in CheckHistoryFileNum(o, s), NEW x \in h.r.file_list_,
             p = WithOldFile(h, x)
      PROVE  Listed(o, p.r, p.d, B)
  <2>1. /\ Complete(o, h.r, h.d, B) /\ Cardinality(h.r.file_list_) < max_logfile_num
        /\ x.name \in FilesOf(s.d, B) /\ ~s.r.initialized_
    BY <1>2, <1>4
  <2>2. PICK n : n = x.name
    OBVIOUS
  <2>3. ~Forks /\ n.pid < pid /\ Familiar(o, n, s.d[n])
    BY <2>1, <2>2 DEF Listed
  <2>4. h.r \in Object
    BY <1>4, HistoryTyped DEF Typed, TypedObject
  <2>5. p.d = OnOpen(h.d, n) /\ p.r = [h.r EXCEPT !.file_ = n, !.initialized_ = TRUE]
    BY <1>4, <2>2 DEF WithOldFile
  <2>6. /\ p.r.file_list_ = h.r.file_list_ /\ p.r.initialized_
        /\ p.r.base_filename_ = h.r.base_filename_
        /\ p.r.base_filename_selected_ = h.r.base_filename_selected_
    BY <2>4, <2>5 DEF Object
  <2>7. ASSUME NEW m \in FilesOf(p.d, B)
        PROVE  Familiar(o, m, p.d[m]) /\ \E y \in p.r.file_list_ : y.name = m
    <3>1. CASE m = n
      BY <1>4, <2>2, <2>3, <2>6, <3>1 DEF Familiar
    <3>2. CASE m # n
      <4>1. m \in FilesOf(h.d, B) /\ p.d[m] = h.d[m]
        BY <2>5, <2>7, <3>2 DEF OnOpen, FilesOf
      <4> QED
        BY <2>1, <2>6, <4>1 DEF Complete
    <3> QED
      BY <3>1, <3>2
  <2>8. Complete(o, p.r, p.d, B)
    BY <2>1, <2>6, <2>7 DEF Complete
  <2>9. Cardinality(p.r.file_list_) <= max_logfile_num
    <3>1. Cardinality(h.r.file_list_) \in Nat
      BY <2>1, FS_CardinalityType DEF Complete
    <3> QED
      BY <2>1, <2>6, <3>1
  <2> QED
    BY <2>6, <2>8, <2>9, CompleteListed
<1>5. CASE p # s
  BY <1>3, <1>4, <1>5, ReopenCases
<1> QED
  BY <1>1, <1>5

\* The pid in the name of a new file, if the program does not fork.
LEMMA OwnPid ==
  ASSUME NEW o, NEW r, NEW base, NEW timestamp, timestamp_in_logfile_name,
         ~Forks => g_main_thread_pid = pid
  PROVE  ~Forks => FileName(o, r, base, timestamp).pid = pid
BY DEF FileName, MainThreadPid

\* Below one limit, the next MB has not been reached.
LEMMA BelowLimit ==
  ASSUME NEW longest, Longest(longest), HeaderLength + longest <= MB, NEW a \in Nat, a < SizeLimit
  PROVE  a \div MB <= MaxLogSize
<1>1. PICK m \in Nat \ {0}, b \in Nat \ {0}, h \in Nat :
        m = MaxLogSize /\ b = MB /\ h = HeaderLength
  BY FlagsAssumption
<1>2. PICK all : all = Lengths \cup {0}
  OBVIOUS
<1>3. all \in SUBSET Nat /\ 0 \in all /\ \A len \in all : len <= longest
  BY <1>2, FlagsAssumption DEF Longest
<1>4. Max(all) \in all
  BY <1>3, GreatestElement DEF Longest
<1>5. PICK top \in Nat : top = Max(all) /\ top <= longest
  BY <1>3, <1>4
<1>6. h + top <= b
  BY <1>1, <1>5 DEF Longest
<1>7. PICK mb \in Nat : mb = m * b
  OBVIOUS
<1>8. SizeLimit = mb + h + top
  BY <1>1, <1>2, <1>5, <1>7 DEF SizeLimit
<1>9. a < mb + b
  BY <1>6, <1>8
<1>10. (m + 1) * b = mb + b
  BY <1>7
<1>11. a < (m + 1) * b
  BY <1>9, <1>10
<1>12. PICK q \in Nat : q = a \div b
  BY <1>1
<1>13. q * b <= a
  BY <1>1, <1>12
<1>14. q <= m
  <2> SUFFICES ASSUME q >= m + 1 PROVE FALSE
    BY <1>1, <1>12
  <2>1. PICK j \in Nat : q = m + 1 + j
    <3>1. q - m - 1 \in Nat /\ q = m + 1 + (q - m - 1)
      BY <1>1, <1>12
    <3> QED
      BY <3>1
  <2>2. q * b = (m + 1) * b + j * b /\ j * b \in Nat
    BY <1>1, <2>1
  <2>3. PICK x \in Nat, y \in Nat, z \in Nat : x = q * b /\ y = (m + 1) * b /\ z = j * b
    BY <1>1, <2>1, <2>2
  <2> QED
    BY <1>11, <1>13, <2>2, <2>3
<1> QED
  BY <1>1, <1>12, <1>14

\* A new file has the name CreateLogfile asks for: if there is a file of that name, it
\* has been opened once and is not long enough for a numbered one.
LEMMA UnnumberedName ==
  ASSUME NEW longest, Longest(longest), HeaderLength + longest <= MB, setup \in Setup,
         timestamp_in_logfile_name, NEW o, NEW B, NEW s, SizedPair(s, B), s.r.file_ = NoFile,
         \A m \in FilesOf(s.d, B) : Familiar(o, m, s.d[m]),
         NEW n, n.base \in B, ~Forks => n.pid = pid, pid \in Nat,
         NEW f \in GetSuitableFileName(n, s.d)
  PROVE  f.name = n /\ f.d = s.d
<1>1. CASE n \notin DOMAIN s.d
  BY <1>1 DEF GetSuitableFileName
<1>2. CASE n \in DOMAIN s.d
  <2>1. PICK e : e = s.d[n]
    OBVIOUS
  <2>2. Familiar(o, n, e)
    BY <1>2, <2>1 DEF FilesOf
  <2>3. e.opens = 1
    BY <2>2 DEF Familiar
  <2>4. e \in File /\ n # NoFile
    BY <1>2, <2>1, NamesAssumption DEF SizedPair, Typed, Disk
  <2>5. e.length < Allowed(e)
    BY <1>2, <2>1, <2>4 DEF SizedPair, Sized, Fits
  <2>6. PICK limit \in Nat : limit = SizeLimit
    BY LimitFacts
  <2>7. Allowed(e) = limit
    <3>1. Allowed(e) = 1 * limit
      BY <2>3, <2>6 DEF Allowed
    <3> QED
      BY <3>1
  <2>8. e.length \div MB <= MaxLogSize
    BY <2>4, <2>5, <2>6, <2>7, BelowLimit DEF File
  <2> QED
    BY <2>1, <2>8 DEF GetSuitableFileName
<1> QED
  BY <1>1, <1>2

\* A new file is listed.
LEMMA CreateListed ==
  ASSUME Context, max_logfile_num \in Nat \ {0}, timestamp_in_logfile_name,
         NEW longest, Longest(longest), HeaderLength + longest <= MB,
         ~Forks => g_main_thread_pid = pid,
         NEW o, NEW B, NEW s, SizedPair(s, B), s.r.file_ = NoFile, s.r.initialized_,
         s.r.tm_time_ \in Nat, Complete(o, s.r, s.d, B),
         Cardinality(s.r.file_list_) < max_logfile_num,
         NEW base \in Bases, base \in B, ~Forks => base \in History[o],
         NEW timestamp \in Nat, NEW c \in CreateLogfile(o, s, base, timestamp)
  PROVE  Listed(o, c.r, c.d, B)
<1>1. PICK r : r = [s.r EXCEPT !.base_filename_ = base]
  OBVIOUS
<1>2. s.r \in Object /\ r \in Object
  BY <1>1, FieldTypes DEF SizedPair, Typed, TypedObject
<1>3. /\ r.base_filename_ = base /\ r.initialized_ /\ r.file_list_ = s.r.file_list_
      /\ r.base_filename_selected_ = s.r.base_filename_selected_
  BY <1>1, <1>2 DEF Object
<1>4. PICK n : n = FileName(o, r, base, timestamp)
  OBVIOUS
<1>5. n.base = base /\ (~Forks => n.pid = pid) /\ pid \in Nat /\ setup \in Setup
  BY <1>4, OwnPid DEF FileName, Context
<1>6. PICK f \in GetSuitableFileName(n, s.d) :
        \/ c.r = r /\ c.d = f.d /\ c.result # "created"
        \/ /\ c.d = OnOpen(f.d, f.name)
           /\ timestamp_in_logfile_name => f.name \notin DOMAIN f.d
           /\ \E g \in GarbageTimes :
                c.r = WithFile(r, f.name, [name |-> n, time |-> g, id |-> NextId(r)])
  BY <1>1, <1>4, CreateCases
<1>7. f.name = n /\ f.d = s.d
  <2>1. n.base \in B /\ \A m \in FilesOf(s.d, B) : Familiar(o, m, s.d[m])
    BY <1>5 DEF Complete
  <2> QED
    BY <1>5, <1>6, <2>1, UnnumberedName
<1>8. /\ IsFiniteSet(r.file_list_) /\ Cardinality(r.file_list_) \in Nat
      /\ Cardinality(r.file_list_) < max_logfile_num
  BY <1>3, FS_CardinalityType DEF Complete
<1>9. ~Forks => base \in History[o] \cup {NoBase}
  OBVIOUS
<1>10. CASE c.r = r /\ c.d = f.d /\ c.result # "created"
  <2>1. Complete(o, r, s.d, B)
    BY <1>3, <1>9 DEF Complete
  <2>2. Cardinality(r.file_list_) <= max_logfile_num
    BY <1>8
  <2> QED
    BY <1>3, <1>7, <1>10, <2>1, <2>2, CompleteListed
<1>11. ASSUME c.d = OnOpen(f.d, f.name), f.name \notin DOMAIN f.d, NEW g \in GarbageTimes,
              c.r = WithFile(r, f.name, [name |-> n, time |-> g, id |-> NextId(r)])
       PROVE  Listed(o, c.r, c.d, B)
  <2>1. PICK x : x = [name |-> n, time |-> g, id |-> NextId(r)]
    OBVIOUS
  <2>2. PICK list : list = r.file_list_ \cup {x}
    OBVIOUS
  <2>3. c.r = [r EXCEPT !.file_ = n, !.stdio = HeaderLength, !.file_length_ = @ + HeaderLength,
                        !.bytes_since_flush_ = @ + HeaderLength, !.file_list_ = list]
    BY <1>7, <1>11, <2>1, <2>2 DEF WithFile
  <2>4. /\ c.r.file_list_ = list /\ c.r.initialized_ /\ c.r.base_filename_ = base
        /\ c.r.base_filename_selected_ = s.r.base_filename_selected_
    BY <1>2, <1>3, <2>3 DEF Object
  <2>5. IsFiniteSet(list) /\ Cardinality(list) <= max_logfile_num
    <3>1. IsFiniteSet(list) /\ Cardinality(list) <= Cardinality(r.file_list_) + 1
      <4>1. /\ IsFiniteSet(r.file_list_ \cup {x})
            /\ Cardinality(r.file_list_ \cup {x}) =
                 IF x \in r.file_list_ THEN Cardinality(r.file_list_)
                 ELSE Cardinality(r.file_list_) + 1
        BY <1>8, FS_AddElement
      <4> QED
        BY <1>8, <2>2, <4>1
    <3>2. Cardinality(list) \in Nat
      BY <3>1, FS_CardinalityType
    <3> QED
      BY <1>8, <3>1, <3>2
  <2>6. ASSUME NEW m \in FilesOf(c.d, B)
        PROVE  Familiar(o, m, c.d[m]) /\ \E y \in list : y.name = m
    <3>1. CASE m = n
      <4>1. c.d[n].opens = 1
        BY <1>7, <1>11 DEF OnOpen
      <4>2. x \in list /\ x.name = n
        BY <2>1, <2>2
      <4>3. ~Forks => n.pid <= pid /\ n.base \in History[o]
        BY <1>5
      <4> QED
        BY <3>1, <4>1, <4>2, <4>3 DEF Familiar
    <3>2. CASE m # n
      <4>1. m \in FilesOf(s.d, B) /\ c.d[m] = s.d[m]
        BY <1>7, <1>11, <2>6, <3>2 DEF OnOpen, FilesOf
      <4> QED
        BY <1>3, <2>2, <4>1 DEF Complete
    <3> QED
      BY <3>1, <3>2
  <2>7. Complete(o, c.r, c.d, B)
    BY <1>9, <2>4, <2>5, <2>6 DEF Complete
  <2> QED
    BY <2>4, <2>5, <2>7, CompleteListed
<1> QED
  BY <1>6, <1>10, <1>11

\* What the program gives to its files is recognized.
LEMMA NamesRecognized ==
  ASSUME Recognized, setup \in Setups, max_logfile_num > 0, NEW o \in Objects
  PROVE  /\ timestamp_in_logfile_name
         /\ ~Forks =>
              /\ StartBase[o] = NoBase => Range(DefaultBases[o]) \subseteq History[o]
              /\ StartBase[o] \in History[o] \cup {NoBase}
              /\ Renames => BaseNames \subseteq History[o] \cup {NoBase}
BY DEF Recognized, UsedBases, max_logfile_num, timestamp_in_logfile_name, Forks, StartBase, Renames

\* An attempt makes room before it creates a file, with a name that is recognized.
LEMMA AttemptListed ==
  ASSUME Context, SizeLimit \in Nat, max_logfile_num \in Nat \ {0}, timestamp_in_logfile_name,
         NEW longest, Longest(longest), HeaderLength + longest <= MB,
         ~Forks => g_main_thread_pid = pid, NEW bases, NEW o \in Objects, Named(bases, o),
         ~Forks /\ StartBase[o] = NoBase => Range(DefaultBases[o]) \subseteq History[o],
         NEW B, B = OwnBases(bases, o), NEW s, SizedPair(s, B), s.r.file_ = NoFile,
         Listed(o, s.r, s.d, B), \A n \in DOMAIN s.d : n.base \in History[o] => n.base \in B,
         NEW timestamp \in Nat, NEW c \in Attempted(o, s, timestamp)
  PROVE  Listed(o, c.r, c.d, B)
<1>1. PICK t : t = [s EXCEPT !.r.rollover_attempt_ = 0]
  OBVIOUS
<1>2. PICK h, base :
        /\ IF s.r.initialized_ THEN h \in Pruned(t) ELSE h \in CheckHistoryFileNum(o, t)
        /\ IF s.r.base_filename_selected_ THEN base = s.r.base_filename_
           ELSE base \in Range(DefaultBases[o])
        /\ c \in CreateLogfile(o, Prepared(h, timestamp), base, timestamp)
  BY <1>1, AttemptCases
<1>3. s.r \in Object
  BY DEF SizedPair, Typed, TypedObject
<1>4. SizedPair(t, B) /\ SameFile(t.r, s.r) /\ SameList(t.r, s.r) /\ t.d = s.d
  <2>1. PICK q : q = [s.r EXCEPT !.rollover_attempt_ = 0]
    OBVIOUS
  <2>2. TypedObject(q)
    BY <2>1, FieldTypes DEF SizedPair, Typed
  <2>3. t.r = q /\ t.d = s.d /\ {"r", "d"} \subseteq DOMAIN t
    BY <1>1, <2>1 DEF SizedPair, Typed
  <2>4. SameFile(t.r, s.r) /\ SameList(t.r, s.r)
    BY <1>3, <2>1, <2>3 DEF SameFile, SameList, Object
  <2>5. Typed(t) /\ Fewer(t.d, s.d)
    BY <2>2, <2>3 DEF SizedPair, Typed, Fewer
  <2> QED
    BY <2>3, <2>4, <2>5, FewerSized
<1>5. Listed(o, t.r, t.d, B) /\ Typed(t) /\ t.r.initialized_ = s.r.initialized_
  BY <1>4, FewerListed DEF SameList, FewerOf, FilesOf, SizedPair
<1>6. SizedPair(h, B) /\ SameFile(h.r, t.r)
  BY <1>2, <1>4, PruneSized, HistorySized
<1>7. Complete(o, h.r, h.d, B) /\ Cardinality(h.r.file_list_) < max_logfile_num
  <2>1. CASE s.r.initialized_
    BY <1>2, <1>5, <2>1, PruneComplete
  <2>2. CASE ~s.r.initialized_
    BY <1>2, <1>4, <1>5, <2>2, HistoryComplete
  <2> QED
    BY <2>1, <2>2
<1>8. PICK p : p = Prepared(h, timestamp)
  OBVIOUS
<1>9. /\ SizedPair(p, B) /\ SameFile(p.r, h.r) /\ p.r.tm_time_ \in Nat
      /\ p.d = h.d /\ p.r.file_list_ = h.r.file_list_ /\ p.r.initialized_
  <2>1. h.r \in Object
    BY <1>6 DEF SizedPair, Typed, TypedObject
  <2>2. Typed(p) /\ p.r.tm_time_ \in Nat
    BY <1>6, <1>8, PreparedTyped DEF SizedPair
  <2>3. p.d = h.d
    BY <1>6, <1>8 DEF Prepared, SizedPair, Typed
  <2>4. \E tm : p.r = [h.r EXCEPT !.initialized_ = TRUE, !.tm_time_ = tm]
    BY <1>6, <1>8 DEF Prepared, SizedPair, Typed, TypedObject, Object
  <2>5. SameFile(p.r, h.r) /\ p.r.file_list_ = h.r.file_list_ /\ p.r.initialized_
    BY <2>1, <2>4 DEF SameFile, Object
  <2>6. Fewer(p.d, h.d)
    BY <2>3 DEF Fewer
  <2> QED
    BY <1>6, <2>2, <2>3, <2>5, <2>6, FewerSized
<1>10. Complete(o, p.r, p.d, B) /\ Cardinality(p.r.file_list_) < max_logfile_num
  BY <1>7, <1>9 DEF Complete, SameFile
<1>11. base \in Bases
  BY <1>2, <1>3, NamesAssumption DEF Object, Bases, Range
<1>12. base \in B /\ (s.r.base_filename_selected_ => base # NoBase)
  BY <1>2 DEF SizedPair, Sized, Named
<1>13. ~Forks => base \in History[o]
  BY <1>2, <1>12 DEF Listed
<1>14. p.r.file_ = NoFile
  BY <1>4, <1>6, <1>9 DEF SameFile
<1> QED
  BY <1>2, <1>8, <1>9, <1>10, <1>11, <1>12, <1>13, <1>14, CreateListed

\* What the list of an object needs to know of the program.
Watched(bases) ==
  /\ SizeInv(bases) /\ Separate(bases) /\ Recognized
  /\ max_logfile_num \in Nat \ {0}
  /\ ~Forks => g_main_thread_pid = pid

\* Whatever Write has found or made is listed.
LEMMA ReadyListed ==
  ASSUME log_rolling_policy = "size", NEW longest, Longest(longest),
         HeaderLength + longest <= MB, NEW bases, Watched(bases), NEW o \in Objects,
         Named(bases, o), Listed(o, obj[o], disk, OwnBases(bases, o)), MayWrite(o),
         NEW timestamp \in Nat
  PROVE  /\ \A s \in Reopened(o, Rolled(obj[o], timestamp)) :
              Listed(o, s.r, s.d, OwnBases(bases, o))
         /\ \A c \in Ready(o, timestamp) : Listed(o, c.r, c.d, OwnBases(bases, o))
<1>1. PICK a : a = Rolled(obj[o], timestamp)
  OBVIOUS
<1>2. PICK B : B = OwnBases(bases, o)
  OBVIOUS
<1>3. SizeInv(bases) /\ Separate(bases) /\ max_logfile_num \in Nat \ {0}
  BY DEF Watched
<1>4. /\ SizedPair(a, B)
      /\ \A s \in Reopened(o, a) : SizedPair(s, B)
  BY <1>1, <1>2, <1>3, RollSized, ReadySized
<1>5. /\ Context /\ SizeLimit \in Nat /\ obj[o] \in Object /\ Disk(disk)
      /\ setup \in Setups
  BY <1>3, LimitFacts DEF SizeInv, TypeInv, TypeOK, Context, Disk
<1>6. /\ timestamp_in_logfile_name
      /\ ~Forks /\ StartBase[o] = NoBase => Range(DefaultBases[o]) \subseteq History[o]
      /\ ~Forks => g_main_thread_pid = pid
  BY <1>3, <1>5, NamesRecognized DEF Watched
<1>7. Listed(o, a.r, a.d, B)
  BY <1>1, <1>2, <1>3, <1>5, RollListed
<1>8. \A d : Leaves(d, B) => \A n \in DOMAIN d : n.base \in History[o] => n.base \in B
  BY <1>2, <1>3, HistoryOwned
<1>9. ASSUME NEW s \in Reopened(o, a)
      PROVE  Listed(o, s.r, s.d, B)
  BY <1>3, <1>4, <1>7, <1>8, ReopenListed DEF SizedPair
<1>10. ASSUME NEW c \in Ready(o, timestamp)
       PROVE  Listed(o, c.r, c.d, B)
  <2>1. PICK s \in Reopened(o, a) :
          \/ s.r.file_ # NoFile /\ c = [result |-> "created", r |-> s.r, d |-> s.d]
          \/ s.r.file_ = NoFile /\ c \in Attempted(o, s, timestamp)
    BY <1>1, ReadyCases
  <2>2. CASE s.r.file_ # NoFile /\ c = [result |-> "created", r |-> s.r, d |-> s.d]
    <3>1. c.r = s.r /\ c.d = s.d
      BY <2>2
    <3> QED
      BY <1>9, <3>1
  <2>3. CASE s.r.file_ = NoFile /\ c \in Attempted(o, s, timestamp)
    <3>1. SizedPair(s, B) /\ Listed(o, s.r, s.d, B)
      BY <1>4, <1>9
    <3>2. \A n \in DOMAIN s.d : n.base \in History[o] => n.base \in B
      BY <1>8, <3>1 DEF SizedPair
    <3> QED
      BY <1>2, <1>3, <1>5, <1>6, <2>3, <3>1, <3>2, AttemptListed
  <2> QED
    BY <2>1, <2>2, <2>3
<1> QED
  BY <1>1, <1>2, <1>9, <1>10

\* What the files of an object may be depends on nothing that a step of an object
\* changes.
LEMMA ListedNext ==
  ASSUME setup' = setup, pid' = pid, NEW o, NEW B, NEW q, q = obj'[o], NEW e, e = disk',
         Listed(o, q, e, B)
  PROVE  Listed(o, obj[o], disk, B)'
BY DEF Listed, Familiar, FilesOf, max_logfile_num, Forks, StartBase

\* An object that puts its fields and the disk back leaves the files of the others
\* as they were.
LEMMA PutListed ==
  ASSUME NEW bases, Separate(bases), max_logfile_num \in Nat, obj \in [Objects -> Object],
         \A p \in Objects : Listed(p, obj[p], disk, bases[p]), NEW o \in Objects, NEW r, NEW d,
         Put(o, r, d), Listed(o, r, d, bases[o]), Leaves(d, bases[o]),
         setup' = setup, pid' = pid
  PROVE  \A p \in Objects : Listed(p, obj[p], disk, bases[p])'
<1> SUFFICES ASSUME NEW p \in Objects
             PROVE  Listed(p, obj[p], disk, bases[p])'
  OBVIOUS
<1>1. disk' = d /\ obj'[p] = IF p = o THEN r ELSE obj[p]
  BY DEF Put
<1>2. Listed(p, IF p = o THEN r ELSE obj[p], d, bases[p])
  <2>1. CASE p = o
    BY <2>1
  <2>2. CASE p # o
    <3>1. bases[p] \cap bases[o] = {}
      BY <2>2 DEF Separate
    <3>2. FewerOf(d, disk, bases[p])
      BY <3>1 DEF Leaves, FewerOf, FilesOf
    <3>3. SameList(obj[p], obj[p])
      BY DEF SameList
    <3>4. Listed(p, obj[p], d, bases[p])
      BY <3>2, <3>3, FewerListed
    <3> QED
      BY <2>2, <3>4
  <2> QED
    BY <2>1, <2>2
<1> QED
  BY <1>1, <1>2, ListedNext

\* A message that is written, and the flush and cleaning that may follow, at most take
\* files away.
LEMMA DoneListed ==
  ASSUME max_logfile_num \in Nat, NEW o, NEW B, NEW c, SizedPair(c, B), Listed(o, c.r, c.d, B),
         NEW b, NEW len, NEW force_flush, NEW w, w = Appended(c.r, b, len)
  PROVE  Listed(o, PutObject(w, force_flush), PutDisk(w, c.d, force_flush), B)
<1>1. c.r \in Object /\ Disk(c.d)
  BY DEF SizedPair, Typed, TypedObject
<1>2. SameList(w, c.r) /\ SameList(Flushed(w), c.r)
  BY <1>1 DEF SameList, Appended, Flushed, Object
<1>3. FewerOf(Cleaned(w, Drain(w, c.d)), c.d, B)
  <2>1. FewerOf(Drain(w, c.d), c.d, B)
    BY <1>1, DrainOpens
  <2>2. PICK g, e : g = Drain(w, c.d) /\ e = Cleaned(w, g)
    OBVIOUS
  <2>3. Fewer(e, g)
    BY <2>2, CleanFewer
  <2> QED
    BY <2>1, <2>2, <2>3 DEF FewerOf, FilesOf, Fewer
<1>4. FewerOf(c.d, c.d, B)
  BY DEF FewerOf, FilesOf
<1>5. CASE FlushDue(w, force_flush)
  BY <1>2, <1>3, <1>5, FewerListed DEF PutObject, PutDisk
<1>6. CASE ~FlushDue(w, force_flush)
  BY <1>2, <1>4, <1>6, FewerListed DEF PutObject, PutDisk
<1> QED
  BY <1>5, <1>6

\* Every exit of Write keeps the lists in order.
LEMMA WriteListed ==
  ASSUME log_rolling_policy = "size", NEW longest, Longest(longest),
         HeaderLength + longest <= MB, NEW bases, Watched(bases), NEW o \in Objects,
         Named(bases, o), \A p \in Objects : Listed(p, obj[p], disk, bases[p]),
         NEW len \in Lengths \cup {0}, NEW force_flush \in BOOLEAN, NEW timestamp \in Nat,
         Write(o, len, force_flush, timestamp)
  PROVE  /\ \A p \in Objects : Listed(p, obj[p], disk, bases[p])'
         /\ ~Forks => g_main_thread_pid' = pid'
<1>1. /\ MayWrite(o) /\ setup' = setup /\ pid' = pid
      /\ g_main_thread_pid' = MainThreadPid(o)
  BY WriteCases DEF Writes, MayWrite
<1>2. ~Forks => g_main_thread_pid' = pid'
  BY <1>1 DEF MainThreadPid, Watched
<1>3. /\ SizeInv(bases) /\ Separate(bases) /\ max_logfile_num \in Nat
      /\ obj \in [Objects -> Object] /\ setup \in Setup /\ now \in Nat /\ setup \in Setups
      /\ max_logfile_num > 0
  BY DEF Watched, SizeInv, TypeInv, TypeOK
<1>4. timestamp_in_logfile_name
  BY <1>3, NamesRecognized DEF Watched
<1>5. PICK B : B = OwnBases(bases, o) /\ B = bases[o]
  BY <1>4 DEF OwnBases
<1>6. /\ \A s \in Reopened(o, Rolled(obj[o], timestamp)) : SizedPair(s, B)
      /\ \A c \in Ready(o, timestamp) :
           /\ SizedPair(c, B) /\ c.r.file_length_ < MaxLogSize * MB + HeaderLength
           /\ c.result = "created" => c.r.file_ # NoFile
  BY <1>1, <1>3, <1>5, ReadySized
<1>7. /\ \A s \in Reopened(o, Rolled(obj[o], timestamp)) : Listed(o, s.r, s.d, B)
      /\ \A c \in Ready(o, timestamp) : Listed(o, c.r, c.d, B)
  BY <1>1, <1>5, ReadyListed
<1>8. ASSUME NEW s, SizedPair(s, B), Listed(o, s.r, s.d, B), NEW r, Put(o, r, s.d),
             SameList(r, s.r)
      PROVE  \A p \in Objects : Listed(p, obj[p], disk, bases[p])'
  <2>1. FewerOf(s.d, s.d, B)
    BY DEF FewerOf, FilesOf
  <2>2. Listed(o, r, s.d, B)
    BY <1>3, <1>8, <2>1, FewerListed
  <2>3. Leaves(s.d, B)
    BY <1>8 DEF SizedPair
  <2> QED
    BY <1>1, <1>3, <1>5, <1>8, <2>2, <2>3, PutListed
<1>9. ASSUME NEW s \in Reopened(o, Rolled(obj[o], timestamp)),
             Put(o, [s.r EXCEPT !.rollover_attempt_ = @ + 1], s.d)
      PROVE  \A p \in Objects : Listed(p, obj[p], disk, bases[p])'
  <2>1. PICK r : r = [s.r EXCEPT !.rollover_attempt_ = @ + 1]
    OBVIOUS
  <2>2. s.r \in Object
    BY <1>6, <1>9 DEF SizedPair, Typed, TypedObject
  <2>3. SameList(r, s.r)
    BY <2>1, <2>2 DEF SameList, Object
  <2> QED
    BY <1>6, <1>7, <1>8, <1>9, <2>1, <2>3
<1>10. ASSUME NEW c \in Ready(o, timestamp), Put(o, c.r, c.d)
       PROVE  \A p \in Objects : Listed(p, obj[p], disk, bases[p])'
  <2>1. SameList(c.r, c.r)
    BY DEF SameList
  <2> QED
    BY <1>6, <1>7, <1>8, <1>10, <2>1
<1>11. ASSUME NEW c \in Ready(o, timestamp), Put(o, [c.r EXCEPT !.stdio = 0], c.d)
       PROVE  \A p \in Objects : Listed(p, obj[p], disk, bases[p])'
  <2>1. PICK r : r = [c.r EXCEPT !.stdio = 0]
    OBVIOUS
  <2>2. c.r \in Object
    BY <1>6, <1>11 DEF SizedPair, Typed, TypedObject
  <2>3. SameList(r, c.r)
    BY <2>1, <2>2 DEF SameList, Object
  <2> QED
    BY <1>6, <1>7, <1>8, <1>11, <2>1, <2>3
<1>12. ASSUME NEW c \in Ready(o, timestamp), NEW b \in Buffered(c.r, len),
              c.result = "created",
              Put(o, PutObject(Appended(c.r, b, len), force_flush),
                     PutDisk(Appended(c.r, b, len), c.d, force_flush))
       PROVE  \A p \in Objects : Listed(p, obj[p], disk, bases[p])'
  <2>1. PICK w : w = Appended(c.r, b, len)
    OBVIOUS
  <2>2. PICK q, e : q = PutObject(w, force_flush) /\ e = PutDisk(w, c.d, force_flush)
    OBVIOUS
  <2>3. Leaves(e, B)
    BY <1>3, <1>6, <1>12, <2>1, <2>2, DoneSized
  <2>4. Listed(o, q, e, B)
    BY <1>3, <1>6, <1>7, <1>12, <2>1, <2>2, DoneListed
  <2>5. Put(o, q, e)
    BY <1>12, <2>1, <2>2
  <2> QED
    BY <1>1, <1>3, <1>5, <2>3, <2>4, <2>5, PutListed
<1>13. \/ \E s \in Reopened(o, Rolled(obj[o], timestamp)) :
            Put(o, [s.r EXCEPT !.rollover_attempt_ = @ + 1], s.d)
       \/ \E c \in Ready(o, timestamp) : Put(o, c.r, c.d)
       \/ \E c \in Ready(o, timestamp) : Put(o, [c.r EXCEPT !.stdio = 0], c.d)
       \/ \E c \in Ready(o, timestamp) : \E b \in Buffered(c.r, len) :
            /\ c.result = "created"
            /\ Put(o, PutObject(Appended(c.r, b, len), force_flush),
                      PutDisk(Appended(c.r, b, len), c.d, force_flush))
  BY WriteCases
<1> QED
  BY <1>2, <1>9, <1>10, <1>11, <1>12, <1>13

\* The operations besides Write leave the list alone; names that are given are
\* recognized.
LEMMA OperationListed ==
  ASSUME NEW bases, Watched(bases), NEW o \in Objects,
         \A p \in Objects : Listed(p, obj[p], disk, bases[p]),
         \/ Flush(o)
         \/ Renames /\ \E b \in BaseNames : SetBasename(o, b)
         \/ \E e \in Extensions : SetExtension(o, e)
  PROVE  \A p \in Objects : Listed(p, obj[p], disk, bases[p])'
<1>1. PICK r : r = obj[o]
  OBVIOUS
<1>2. PICK B : B = bases[o]
  OBVIOUS
<1>3. /\ SizeInv(bases) /\ Separate(bases) /\ max_logfile_num \in Nat /\ max_logfile_num > 0
      /\ obj \in [Objects -> Object] /\ r \in Object /\ Disk(disk) /\ setup \in Setups
  BY <1>1 DEF Watched, SizeInv, TypeInv, TypeOK, Disk
<1>4. /\ timestamp_in_logfile_name
      /\ ~Forks /\ Renames => BaseNames \subseteq History[o] \cup {NoBase}
  BY <1>3, NamesRecognized DEF Watched
<1>5. B = OwnBases(bases, o) /\ Listed(o, r, disk, B) /\ Leaves(disk, B)
  BY <1>1, <1>2, <1>4 DEF OwnBases, Leaves
<1>6. r.file_ # NoFile => r.file_.base \in B
  BY <1>1, <1>3, <1>5 DEF SizeInv, Sized
<1>7. setup' = setup /\ pid' = pid
  BY DEF Flush, SetBasename, SetExtension, process
<1>8. ASSUME NEW q, NEW d, Put(o, q, d), d = disk \/ d = Drain(r, disk),
             q.file_list_ = r.file_list_, q.initialized_ = r.initialized_,
             ~Forks => q.base_filename_ \in History[o] \cup {NoBase},
             r.base_filename_selected_ => q.base_filename_selected_
      PROVE  \A p \in Objects : Listed(p, obj[p], disk, bases[p])'
  <2>1. FewerOf(d, disk, B)
    BY <1>3, <1>8, DrainOpens DEF FewerOf, FilesOf
  <2>2. Leaves(d, B)
    BY <1>3, <1>5, <1>6, <1>8, DrainLeaves
  <2>3. SameList(r, r)
    BY DEF SameList
  <2>4. Listed(o, r, d, B)
    BY <1>3, <1>5, <2>1, <2>3, FewerListed
  <2>5. Listed(o, q, d, B)
    BY <1>8, <2>4 DEF Listed
  <2> QED
    BY <1>2, <1>3, <1>7, <1>8, <2>2, <2>5, PutListed
<1>9. ~Forks => r.base_filename_ \in History[o] \cup {NoBase}
  BY <1>5 DEF Listed
<1>10. CASE Flush(o)
  <2>1. PICK q : q = Flushed(r)
    OBVIOUS
  <2>2. /\ q.file_list_ = r.file_list_ /\ q.initialized_ = r.initialized_
        /\ q.base_filename_ = r.base_filename_
        /\ q.base_filename_selected_ = r.base_filename_selected_
    BY <1>3, <2>1 DEF Flushed, Object
  <2>3. Put(o, q, Drain(r, disk))
    BY <1>1, <1>10, <2>1 DEF Flush
  <2> QED
    BY <1>8, <1>9, <2>2, <2>3
<1>11. ASSUME NEW a \in Object
       PROVE  /\ Renamed(a).file_list_ = a.file_list_ /\ Renamed(a).initialized_ = a.initialized_
              /\ Renamed(a).base_filename_ = a.base_filename_
              /\ Renamed(a).base_filename_selected_ = a.base_filename_selected_
              /\ DOMAIN Renamed(a) = DOMAIN a
  BY DEF Renamed, Closed, Object
<1>12. ASSUME Renames, NEW b \in BaseNames, SetBasename(o, b)
       PROVE  \A p \in Objects : Listed(p, obj[p], disk, bases[p])'
  <2>1. PICK a : a = [r EXCEPT !.base_filename_selected_ = TRUE]
    OBVIOUS
  <2>2. /\ a \in Object /\ a.file_list_ = r.file_list_ /\ a.initialized_ = r.initialized_
        /\ a.base_filename_ = r.base_filename_ /\ a.base_filename_selected_
        /\ a.file_ = r.file_ /\ a.stdio = r.stdio
    BY <1>3, <2>1 DEF Object
  <2>3. CASE Put(o, a, disk)
    BY <1>8, <1>9, <2>2, <2>3
  <2>4. CASE Put(o, [Renamed(a) EXCEPT !.base_filename_ = b], Drain(a, disk))
    <3>1. PICK x : x = Renamed(a)
      OBVIOUS
    <3>2. /\ x.file_list_ = r.file_list_ /\ x.initialized_ = r.initialized_
          /\ x.base_filename_selected_ /\ DOMAIN x = DOMAIN a
      BY <1>11, <2>2, <3>1
    <3>3. PICK q : q = [x EXCEPT !.base_filename_ = b]
      OBVIOUS
    <3>4. "base_filename_" \in DOMAIN x
      BY <2>2, <3>2 DEF Object
    <3>5. /\ q.file_list_ = r.file_list_ /\ q.initialized_ = r.initialized_
          /\ q.base_filename_ = b /\ q.base_filename_selected_
      BY <3>2, <3>3, <3>4
    <3>6. Drain(a, disk) = Drain(r, disk)
      BY <2>2 DEF Drain
    <3>7. Put(o, q, Drain(r, disk))
      BY <2>4, <3>1, <3>3, <3>6
    <3>8. ~Forks => b \in History[o] \cup {NoBase}
      BY <1>4, <1>12
    <3> QED
      BY <1>8, <3>5, <3>7, <3>8
  <2> QED
    BY <1>1, <1>12, <2>1, <2>3, <2>4 DEF SetBasename
<1>13. ASSUME NEW ext \in Extensions, SetExtension(o, ext)
       PROVE  \A p \in Objects : Listed(p, obj[p], disk, bases[p])'
  <2>1. PICK x : x = Renamed(r)
    OBVIOUS
  <2>2. PICK q : q = [x EXCEPT !.filename_extension_ = ext]
    OBVIOUS
  <2>3. /\ q.file_list_ = r.file_list_ /\ q.initialized_ = r.initialized_
        /\ q.base_filename_ = r.base_filename_
        /\ q.base_filename_selected_ = r.base_filename_selected_
    BY <1>3, <1>11, <2>1, <2>2
  <2>4. Put(o, q, Drain(r, disk))
    BY <1>1, <1>13, <2>1, <2>2 DEF SetExtension
  <2> QED
    BY <1>8, <1>9, <2>3, <2>4
<1> QED
  BY <1>10, <1>12, <1>13

\* Another process starts: all files are of an earlier one then.
LEMMA RestartListed ==
  ASSUME NEW bases, Watched(bases), \A p \in Objects : Listed(p, obj[p], disk, bases[p]),
         Restart
  PROVE  \A p \in Objects : Listed(p, obj[p], disk, bases[p])'
<1> SUFFICES ASSUME NEW p \in Objects
             PROVE  Listed(p, obj[p], disk, bases[p])'
  OBVIOUS
<1>1. PICK g \in [Objects -> GarbageTimes] :
        obj' = [o \in Objects |-> NewObject(StartBase[o], g[o])]
  BY DEF Restart
<1>2. disk' = disk /\ setup' = setup /\ pid' = pid + 1 /\ ~Forks
  BY DEF Restart
<1>3. max_logfile_num \in Nat /\ max_logfile_num > 0 /\ setup \in Setups /\ pid \in Nat
  BY DEF Watched, SizeInv, TypeInv, TypeOK
<1>4. StartBase[p] \in History[p] \cup {NoBase}
  BY <1>2, <1>3, NamesRecognized DEF Watched
<1>5. /\ max_logfile_num' = max_logfile_num /\ StartBase' = StartBase /\ ~Forks'
  BY <1>2 DEF max_logfile_num, StartBase, Forks
<1>6. PICK B : B = bases[p]
  OBVIOUS
<1>7. PICK q : q = obj'[p]
  OBVIOUS
<1>8. /\ q.file_list_ = {} /\ ~q.initialized_ /\ q.base_filename_ = StartBase[p]
      /\ q.base_filename_selected_ = (StartBase[p] # NoBase)
  BY <1>1, <1>7 DEF NewObject
<1>9. IsFiniteSet({}) /\ Cardinality({}) = 0
  BY FS_EmptySet
<1>10. /\ IsFiniteSet(FilesOf(disk, B)) /\ Cardinality(FilesOf(disk, B)) <= max_logfile_num
       /\ \A n \in FilesOf(disk, B) : Familiar(p, n, disk[n])
  BY <1>6 DEF Listed
<1>11. \A n \in FilesOf(disk, B) : n.pid \in Nat
  BY DEF FilesOf, Watched, SizeInv, TypeInv, TypeOK, Name
<1>12. \A n \in FilesOf(disk, B) : n.pid < pid + 1
  BY <1>2, <1>3, <1>10, <1>11 DEF Familiar
<1>13. FilesOf(disk, B)' = FilesOf(disk, B)
  BY <1>2 DEF FilesOf
<1>14. \A n \in FilesOf(disk, B) : Familiar(p, n, disk[n])'
  <2>1. ASSUME NEW n \in FilesOf(disk, B)
        PROVE  Familiar(p, n, disk[n])'
    <3>1. n.pid < pid' /\ n.pid <= pid' /\ n.base \in History[p]
      BY <1>2, <1>3, <1>10, <1>11, <1>12 DEF Familiar
    <3> QED
      BY <1>5, <3>1 DEF Familiar
  <2> QED
    BY <2>1
<1>15. /\ IsFiniteSet(q.file_list_) /\ Cardinality(q.file_list_) <= max_logfile_num
  BY <1>3, <1>8, <1>9
<1> QED
  BY <1>2, <1>4, <1>5, <1>6, <1>7, <1>8, <1>10, <1>12, <1>13, <1>14, <1>15 DEF Listed

\* A child that goes on has the files of its parent in its lists.
LEMMA ForkListed ==
  ASSUME NEW bases, \A p \in Objects : Listed(p, obj[p], disk, bases[p]), Fork
  PROVE  /\ \A p \in Objects : Listed(p, obj[p], disk, bases[p])'
         /\ Forks'
<1>1. disk' = disk /\ setup' = setup /\ obj' = obj /\ Forks
  BY DEF Fork
<1>2. /\ max_logfile_num' = max_logfile_num /\ StartBase' = StartBase /\ Forks'
  BY <1>1 DEF max_logfile_num, StartBase, Forks
<1>3. ASSUME NEW p \in Objects
      PROVE  Listed(p, obj[p], disk, bases[p])'
  <2>1. \A n \in FilesOf(disk, bases[p]) : Familiar(p, n, disk[n])'
    BY <1>1, <1>2 DEF Listed, Familiar
  <2>2. FilesOf(disk, bases[p])' = FilesOf(disk, bases[p])
    BY <1>1 DEF FilesOf
  <2> QED
    BY <1>1, <1>2, <2>1, <2>2 DEF Listed
<1> QED
  BY <1>2, <1>3

\* What the invariant says of a program that limits the number of files.
LEMMA LimitWatched ==
  ASSUME NEW bases, KeepInv(bases), Separate(bases), Recognized, max_logfile_num > 0
  PROVE  /\ Watched(bases) /\ \A o \in Objects : Named(bases, o)
         /\ \A o \in Objects : Listed(o, obj[o], disk, bases[o])
         /\ timestamp_in_logfile_name
<1>1. max_logfile_num \in Nat \ {0}
  <2>1. setup \in Setup
    BY DEF KeepInv, TypeInv, TypeOK
  <2>2. max_logfile_num \in Nat
    BY <2>1 DEF Setup, max_logfile_num
  <2> QED
    BY <2>2
<1>2. Watched(bases) /\ \A o \in Objects : Listed(o, obj[o], disk, bases[o])
  BY <1>1 DEF KeepInv, Watched
<1>3. timestamp_in_logfile_name /\ setup \in Setups
  BY DEF KeepInv, Recognized, max_logfile_num, timestamp_in_logfile_name
<1>4. \A o \in Objects : Named(bases, o)
  BY <1>3 DEF Separate, Named, OwnBases, StartBase, Renames
<1> QED
  BY <1>2, <1>3, <1>4

\* A step keeps the lists in order.
LEMMA KeepStep ==
  ASSUME log_rolling_policy = "size", NEW longest, Longest(longest),
         HeaderLength + longest <= MB, NEW bases, KeepInv(bases), Separate(bases), Recognized,
         [Next]_vars
  PROVE  KeepInv(bases)'
<1> DEFINE All == \A p \in Objects : Listed(p, obj[p], disk, bases[p])
           Main == ~Forks => g_main_thread_pid = pid
<1>1. TypeInv' /\ setup' = setup
  <2>1. TypeInv'
    BY TypeInvStep DEF KeepInv
  <2>2. setup' = setup
    <3>1. CASE UNCHANGED vars
      BY <3>1 DEF vars
    <3>2. ASSUME NEW o \in Objects, Log(o) \/ FatalFlush(o)
          PROVE  setup' = setup
      <4>1. PICK len, force_flush, timestamp : Write(o, len, force_flush, timestamp)
        BY <3>2 DEF Log, FatalFlush
      <4> QED
        BY <4>1, WriteCases DEF Writes
    <3>3. ASSUME NEW o \in Objects,
                 Flush(o) \/ (\E b \in BaseNames : SetBasename(o, b))
                 \/ (\E e \in Extensions : SetExtension(o, e))
          PROVE  setup' = setup
      BY <3>3 DEF Flush, SetBasename, SetExtension
    <3>4. CASE \/ \E overdue \in OverdueTimes : EnableLogCleaner(overdue)
               \/ DisableLogCleaner \/ Tick \/ DiskFills \/ Fork \/ Restart
      BY <3>4 DEF EnableLogCleaner, DisableLogCleaner, Tick, DiskFills, Fork, Restart
    <3> QED
      BY <3>1, <3>2, <3>3, <3>4 DEF Next
  <2> QED
    BY <2>1, <2>2
<1>2. CASE ~(max_logfile_num > 0)
  <2>1. ~(max_logfile_num' > 0)
    BY <1>1, <1>2 DEF max_logfile_num
  <2> QED
    BY <1>1, <2>1 DEF KeepInv
<1>3. CASE max_logfile_num > 0
  <2>1. /\ Watched(bases) /\ All /\ \A o \in Objects : Named(bases, o)
        /\ SizeInv(bases) /\ Main
    BY <1>3, LimitWatched DEF Watched
  <2>2. SizeInv(bases)'
    BY <2>1, SizeStep
  <2>3. All' /\ Main'
    <3>1. ASSUME NEW o \in Objects, NEW len \in Lengths \cup {0}, NEW force_flush \in BOOLEAN,
                 NEW timestamp \in Nat, Write(o, len, force_flush, timestamp)
          PROVE  All' /\ Main'
      <4>1. All' /\ (~Forks => g_main_thread_pid' = pid')
        BY <2>1, <3>1, WriteListed
      <4> QED
        BY <1>1, <4>1 DEF Forks
    <3>2. ASSUME NEW o \in Objects, Log(o) PROVE All' /\ Main'
      <4>1. PICK len \in Lengths, should_flush \in BOOLEAN : Write(o, len, should_flush, now)
        BY <3>2 DEF Log
      <4>2. len \in Lengths \cup {0} /\ now \in Nat
        BY DEF KeepInv, TypeInv, TypeOK
      <4> HIDE DEF All, Main
      <4> QED
        BY <3>1, <4>1, <4>2
    <3>3. ASSUME NEW o \in Objects, FatalFlush(o) PROVE All' /\ Main'
      <4> HIDE DEF All, Main
      <4> QED
        BY <3>1, <3>3 DEF FatalFlush
    <3>4. ASSUME UNCHANGED <<pid, g_main_thread_pid>> PROVE Main'
      BY <1>1, <2>1, <3>4 DEF Forks
    <3>5. ASSUME NEW o \in Objects,
                 \/ Flush(o)
                 \/ Renames /\ \E b \in BaseNames : SetBasename(o, b)
                 \/ \E e \in Extensions : SetExtension(o, e)
          PROVE  All' /\ Main'
      <4>1. All'
        BY <2>1, <3>5, OperationListed
      <4>2. UNCHANGED <<pid, g_main_thread_pid>>
        BY <3>5 DEF Flush, SetBasename, SetExtension, process
      <4> QED
        BY <3>4, <4>1, <4>2
    <3>6. CASE Restart
      <4>1. All'
        BY <2>1, <3>6, RestartListed
      <4> QED
        BY <3>6, <4>1 DEF Restart
    <3>7. CASE Fork
      BY <2>1, <3>7, ForkListed
    <3>8. ASSUME UNCHANGED <<obj, disk, process>> PROVE All' /\ Main'
      <4>1. pid' = pid /\ g_main_thread_pid' = g_main_thread_pid
        BY <3>8 DEF process
      <4>2. \A p \in Objects : Listed(p, obj[p], disk, bases[p])'
        <5>1. ASSUME NEW p \in Objects
              PROVE  Listed(p, obj[p], disk, bases[p])'
          BY <1>1, <2>1, <3>8, <4>1, ListedNext
        <5> QED
          BY <5>1
      <4> QED
        BY <3>4, <4>1, <4>2
    <3>9. CASE \/ \E overdue \in OverdueTimes : EnableLogCleaner(overdue)
               \/ DisableLogCleaner \/ Tick \/ DiskFills \/ UNCHANGED vars
      <4>1. UNCHANGED <<obj, disk, process>>
        BY <3>9 DEF EnableLogCleaner, DisableLogCleaner, Tick, DiskFills, vars
      <4> HIDE DEF All, Main
      <4> QED
        BY <3>8, <4>1
    <3> HIDE DEF All, Main
    <3> QED
      BY <3>2, <3>3, <3>5, <3>6, <3>7, <3>9 DEF Next
  <2> QED
    BY <1>1, <2>2, <2>3 DEF KeepInv
<1> QED
  BY <1>2, <1>3

\* The numbers of files of the objects add up to the number of all files.
LEMMA KeptFollows ==
  ASSUME NEW bases, KeepInv(bases), Separate(bases), Recognized, IsFiniteSet(Objects)
  PROVE  FilesKept
<1> SUFFICES ASSUME max_logfile_num > 0
             PROVE  Cardinality(DOMAIN disk) <= max_logfile_num * Cardinality(Objects)
  BY DEF FilesKept
<1>1. /\ max_logfile_num \in Nat \ {0} /\ SizeInv(bases) /\ timestamp_in_logfile_name
      /\ \A o \in Objects : Listed(o, obj[o], disk, bases[o])
  BY LimitWatched DEF Watched
<1>2. PICK max \in Nat : max = max_logfile_num
  BY <1>1
<1>3. PICK files : files = [o \in Objects |-> FilesOf(disk, bases[o])]
  OBVIOUS
<1>4. \A o \in Objects : IsFiniteSet(files[o]) /\ Cardinality(files[o]) <= max
  BY <1>1, <1>2, <1>3 DEF Listed
<1>5. \A n \in DOMAIN disk : \E o \in Objects : n \in files[o]
  BY <1>1, <1>3 DEF SizeInv, OwnBases, FilesOf
<1>6. \A o \in Objects : files[o] \subseteq DOMAIN disk
  BY <1>3 DEF FilesOf
<1>7. \A o \in Objects :
        /\ Cardinality(files[o]) \in Nat
        /\ \E g \in [1 .. Cardinality(files[o]) -> files[o]] :
             \A n \in files[o] : \E i \in 1 .. Cardinality(files[o]) : g[i] = n
  <2>1. ASSUME NEW o \in Objects
        PROVE  /\ Cardinality(files[o]) \in Nat
               /\ \E g \in [1 .. Cardinality(files[o]) -> files[o]] :
                    \A n \in files[o] : \E i \in 1 .. Cardinality(files[o]) : g[i] = n
    <3>1. Cardinality(files[o]) \in Nat /\ ExistsBijection(1 .. Cardinality(files[o]), files[o])
      BY <1>4, FS_CardinalityType
    <3> QED
      BY <3>1 DEF ExistsBijection, Bijection, Surjection
  <2> QED
    BY <2>1
<1> DEFINE count(o) == Cardinality(files[o])
           nth(o) == CHOOSE g \in [1 .. count(o) -> files[o]] :
                       \A n \in files[o] : \E i \in 1 .. count(o) : g[i] = n
           places == {x \in Objects \X (1 .. max) : x[2] \in 1 .. count(x[1])}
           f == [x \in places |-> nth(x[1])[x[2]]]
<1>8. \A o \in Objects :
        /\ nth(o) \in [1 .. count(o) -> files[o]]
        /\ \A n \in files[o] : \E i \in 1 .. count(o) : nth(o)[i] = n
  BY <1>7
<1>9. \A o \in Objects : count(o) \in Nat /\ count(o) <= max
  BY <1>4, <1>7
<1> HIDE DEF nth, count
<1>10. \A x \in places : nth(x[1])[x[2]] \in DOMAIN disk
  BY <1>6, <1>8
<1>11. \A n \in DOMAIN disk : \E x \in places : nth(x[1])[x[2]] = n
  <2>1. ASSUME NEW n \in DOMAIN disk
        PROVE  \E x \in places : nth(x[1])[x[2]] = n
    <3>1. PICK o \in Objects : n \in files[o]
      BY <1>5
    <3>2. PICK i \in 1 .. count(o) : nth(o)[i] = n
      BY <1>8, <3>1
    <3>3. i \in 1 .. max
      BY <1>9, <3>2
    <3>4. <<o, i>> \in places
      BY <3>2, <3>3
    <3> QED
      BY <3>2, <3>4
  <2> QED
    BY <2>1
<1> HIDE DEF places
<1>12. f \in Surjection(places, DOMAIN disk)
  BY <1>10, <1>11 DEF Surjection
<1> HIDE DEF f
<1>13. IsFiniteSet(1 .. max) /\ Cardinality(1 .. max) = max
  BY FS_Interval
<1>14. /\ IsFiniteSet(Objects \X (1 .. max))
       /\ Cardinality(Objects \X (1 .. max)) = Cardinality(Objects) * max
  BY <1>13, FS_Product
<1>15. /\ IsFiniteSet(places)
       /\ Cardinality(places) <= Cardinality(Objects \X (1 .. max))
  <2>1. places \in SUBSET (Objects \X (1 .. max))
    BY DEF places
  <2> QED
    BY <1>14, <2>1, FS_Subset
<1>16. IsFiniteSet(DOMAIN disk) /\ Cardinality(DOMAIN disk) <= Cardinality(places)
  BY <1>12, <1>15, FS_Surjection
<1>17. PICK a \in Nat, b \in Nat, c \in Nat :
         /\ a = Cardinality(DOMAIN disk) /\ b = Cardinality(places) /\ c = Cardinality(Objects)
  BY <1>15, <1>16, FS_CardinalityType
<1>18. a <= b /\ b <= c * max
  BY <1>14, <1>15, <1>16, <1>17
<1>19. PICK y \in Nat : y = c * max /\ y = max * c
  OBVIOUS
<1> QED
  BY <1>2, <1>17, <1>18, <1>19

\* Pruning works, whatever the flags, the failures to open files, the rolls, renames,
\* forks, crashes and restarts are: with the size policy an object never has more than
\* max_logfile_num files on the disk.  The list it prunes has all of its files, those
\* of earlier processes included as soon as it may write another one, and none of them
\* is a numbered one, whose name would not be in the list.
THEOREM OldFilesGo ==
  ASSUME log_rolling_policy = "size", NEW longest, Longest(longest),
         HeaderLength + longest <= MB, IsFiniteSet(Objects),
         NEW bases, Separate(bases), Recognized
  PROVE  Spec => []FilesKept
<1> DEFINE I == KeepInv(bases)
<1>1. Init => I
  <2> SUFFICES ASSUME Init PROVE KeepInv(bases)
    OBVIOUS
  <2>1. TypeInv /\ setup \in Setups
    BY InitTyped DEF Init
  <2> SUFFICES ASSUME max_logfile_num > 0
               PROVE  /\ SizeInv(bases)
                      /\ ~Forks => g_main_thread_pid = pid
                      /\ \A o \in Objects : Listed(o, obj[o], disk, bases[o])
    BY <2>1 DEF KeepInv
  <2>2. timestamp_in_logfile_name
    BY <2>1 DEF Recognized, max_logfile_num, timestamp_in_logfile_name
  <2>3. \A o \in Objects : Named(bases, o)
    BY <2>1, <2>2 DEF Separate, Named, OwnBases, StartBase, Renames
  <2>4. SizeInv(bases)
    BY <2>3, SizeInit
  <2>5. g_main_thread_pid = pid
    BY DEF Init
  <2>6. PICK g \in [Objects -> GarbageTimes] :
          obj = [o \in Objects |-> NewObject(StartBase[o], g[o])]
    BY DEF Init
  <2>7. ASSUME NEW o \in Objects
        PROVE  Listed(o, obj[o], disk, bases[o])
    <3>1. /\ obj[o].file_list_ = {} /\ obj[o].base_filename_ = StartBase[o]
          /\ obj[o].base_filename_selected_ = (StartBase[o] # NoBase)
      BY <2>6 DEF NewObject
    <3>2. FilesOf(disk, bases[o]) = {}
      BY DEF Init, FilesOf
    <3>3. IsFiniteSet({}) /\ Cardinality({}) = 0
      BY FS_EmptySet
    <3>4. ~Forks => StartBase[o] \in History[o] \cup {NoBase}
      BY <2>1, NamesRecognized
    <3>5. 0 <= max_logfile_num
      <4>1. max_logfile_num \in Nat
        BY <2>1 DEF TypeInv, TypeOK, Setup, max_logfile_num
      <4> QED
        BY <4>1
    <3> QED
      BY <3>1, <3>2, <3>3, <3>4, <3>5 DEF Listed
  <2> QED
    BY <2>4, <2>5, <2>7
<1>2. I /\ [Next]_vars => I'
  BY KeepStep
<1>3. I => FilesKept
  BY KeptFollows
<1> HIDE DEF I
<1> QED
  BY <1>1, <1>2, <1>3, PTL DEF Spec
=============================================================================
