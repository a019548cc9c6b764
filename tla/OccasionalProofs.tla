-------------------------- MODULE OccasionalProofs --------------------------
(***************************************************************************)
(* Proofs about Occasional for any number of threads, any n and any width  *)
(* of the counters.                                                        *)
(***************************************************************************)
EXTENDS Occasional, FiniteSetTheorems, TLAPS

\* What LOG_IF_EVERY_N stores is below n.
ValueInv == site.macro = "IF_EVERY_N" => \A t \in Threads : value[t] < n

\* The labels of each macro.
LabelsOf(macro) ==
  {"idle", "log"} \cup
    CASE macro = "EVERY_N" -> {"occurrences", "increment", "subtract", "test"}
      [] macro = "IF_EVERY_N" -> {"occurrences", "load", "store"}
      [] macro = "FIRST_N" -> {"first", "another", "within"}
      [] macro = "EVERY_T" -> {"clock", "previous", "remember"}

LabelInv == \A t \in Threads : pc[t] \in LabelsOf(site.macro)

TypeInv == TypeOK /\ LabelInv /\ ValueInv

\* The number of threads at a label.
Count(f, label) == Cardinality({t \in Threads : f[t] = label})

\* The counter of LOG_FIRST_N never gets far enough to wrap around.
CountedInv == LOG_OCCURRENCES + Count(pc, "another") <= n + Cardinality(Threads)

\* While the counter is at most n, it is the number of messages made or due ...
BelowInv ==
  LOG_OCCURRENCES <= n =>
    /\ messages + Count(pc, "within") + Count(pc, "log") = LOG_OCCURRENCES
    /\ executions <= LOG_OCCURRENCES + Count(pc, "first") + Count(pc, "another")

\* ... and when it has passed n, all threads but one may have lost a message.
AboveInv ==
  LOG_OCCURRENCES > n =>
    messages + Count(pc, "log") \in n - (Cardinality(Threads) - 1) .. n

FirstInv ==
  site.macro = "FIRST_N" => CountedInv /\ BelowInv /\ AboveInv

IInv == TypeInv /\ FirstInv

----------------------------------------------------------------------------
(* Facts about the constants and about counting *)

LEMMA SiteFacts ==
  ASSUME site \in Sites
  PROVE  /\ n \in Nat /\ n >= 1 /\ Cardinality(Threads) \in Nat /\ Cardinality(Threads) >= 1
         /\ n + Cardinality(Threads) < Modulus /\ Modulus \in Nat
         /\ site.macro \in {"EVERY_N", "IF_EVERY_N", "FIRST_N", "EVERY_T"}
<1>1. Cardinality(Threads) \in Nat /\ Cardinality(Threads) # 0
  BY OccasionalAssumption, FS_CardinalityType, FS_EmptySet
<1>2. n \in 1 .. Modulus - 1 - Cardinality(Threads) /\ Modulus \in Nat
  BY OccasionalAssumption DEF n
<1>3. site.macro \in {"EVERY_N", "IF_EVERY_N", "FIRST_N", "EVERY_T"}
  BY OccasionalAssumption
<1> QED
  BY <1>1, <1>2, <1>3

LEMMA UnsignedType ==
  ASSUME site \in Sites, NEW x \in Int
  PROVE  /\ Unsigned(x) \in 0 .. Modulus - 1
         /\ x \in 0 .. Modulus - 1 => Unsigned(x) = x
<1>1. Modulus \in Nat /\ Modulus > 0
  BY SiteFacts
<1> QED
  BY <1>1 DEF Unsigned

LEMMA AdvancedType ==
  ASSUME site \in Sites, NEW x \in Int
  PROVE  Advanced(x) \in 0 .. n - 1
<1>1. Unsigned(x + 1) \in Nat /\ n \in Nat /\ n >= 1
  BY UnsignedType, SiteFacts
<1> QED
  BY <1>1 DEF Advanced

LEMMA AtMostType ==
  ASSUME NEW bound \in Nat, NEW x \in 0 .. bound
  PROVE  /\ AtMost(x + 1, bound) \in 0 .. bound /\ AtMost(x + 1, bound) <= x + 1
         /\ x + 1 <= bound => AtMost(x + 1, bound) = x + 1
  BY DEF AtMost

LEMMA CountType ==
  ASSUME NEW f, NEW label
  PROVE  /\ Count(f, label) \in Nat /\ Count(f, label) <= Cardinality(Threads)
         /\ \A t \in Threads : f[t] # label => Count(f, label) <= Cardinality(Threads) - 1
         /\ \A t \in Threads : f[t] = label => Count(f, label) >= 1
<1> DEFINE S == {t \in Threads : f[t] = label}
<1>1. IsFiniteSet(S) /\ Cardinality(S) <= Cardinality(Threads)
  BY OccasionalAssumption, FS_Subset
<1>2. Cardinality(S) \in Nat /\ Cardinality(Threads) \in Nat
  BY <1>1, OccasionalAssumption, FS_CardinalityType
<1>3. ASSUME NEW t \in Threads, f[t] # label
      PROVE  Cardinality(S) <= Cardinality(Threads) - 1
<2>1. /\ IsFiniteSet(Threads \ {t})
      /\ Cardinality(Threads \ {t}) = Cardinality(Threads) - 1
  BY OccasionalAssumption, FS_RemoveElement
<2>2. S \in SUBSET (Threads \ {t})
  BY <1>3
<2> QED
  BY <2>1, <2>2, FS_Subset
<1>4. ASSUME NEW t \in Threads, f[t] = label
      PROVE  Cardinality(S) >= 1
<2>1. S # {}
  BY <1>4
<2> QED
  BY <1>1, <1>2, <2>1, FS_EmptySet
<1> QED
  BY <1>1, <1>2, <1>3, <1>4 DEF Count

----------------------------------------------------------------------------
(* Type correctness *)

LEMMA InitType == Init => TypeInv
<1> SUFFICES ASSUME Init PROVE TypeInv
  OBVIOUS
<1>1. site \in Sites
  BY DEF Init
<1>2. GapBound \in Nat
  BY <1>1, SiteFacts DEF GapBound
<1>3. StartTime \in Nat
  BY OccasionalAssumption
<1>4. TypeOK
  BY <1>1, <1>2, <1>3, SiteFacts DEF Init, TypeOK, Labels
<1>5. LabelInv /\ ValueInv
  BY <1>1, SiteFacts DEF Init, LabelInv, LabelsOf, ValueInv
<1> QED
  BY <1>4, <1>5 DEF TypeInv

\* A thread goes to another label of its macro.
LEMMA GotoType ==
  ASSUME TypeInv, NEW t \in Threads, site' = site, NEW label \in LabelsOf(site.macro),
         Goto(t, label)
  PROVE  pc' \in [Threads -> Labels] /\ LabelInv'
<1>1. LabelsOf(site.macro) \subseteq Labels
  BY SiteFacts DEF LabelsOf, Labels, TypeInv, TypeOK
<1> QED
  BY <1>1 DEF Goto, TypeInv, TypeOK, LabelInv

\* How an execution ends or goes on.
LEMMA EndType ==
  ASSUME TypeInv, NEW t \in Threads, site' = site,
         \/ End(t, TRUE) \/ End(t, FALSE)
         \/ \E label \in LabelsOf(site.macro) : GoOn(t, label)
  PROVE  /\ pc' \in [Threads -> Labels]
         /\ value' \in [Threads -> 0 .. Modulus - 1]
         /\ LOG_CURRENT_TIME' \in [Threads -> Nat]
         /\ overlapped' \in [Threads -> BOOLEAN]
         /\ gap' \in 0 .. GapBound
         /\ LabelInv' /\ ValueInv'
<1> USE DEF TypeInv
<1>1. GapBound \in Nat /\ n \in Nat /\ n >= 1 /\ Modulus \in Nat /\ Modulus >= 1
  BY SiteFacts DEF TypeOK, GapBound
<1>2. gap \in 0 .. GapBound /\ AtMost(gap + 1, GapBound) \in 0 .. GapBound
  BY <1>1, AtMostType DEF TypeOK
<1>3. "idle" \in LabelsOf(site.macro) /\ 0 \in 0 .. Modulus - 1 /\ 0 < n
  BY <1>1 DEF LabelsOf
<1>4. /\ \E label \in LabelsOf(site.macro) : Goto(t, label)
      /\ \/ UNCHANGED <<value, LOG_CURRENT_TIME, overlapped, gap>>
         \/ Leave(t) /\ gap' \in {0, gap, AtMost(gap + 1, GapBound)}
  BY <1>3 DEF End, Leave, GoOn
<1>5. pc' \in [Threads -> Labels] /\ LabelInv'
  BY <1>4, GotoType
<1>6. gap' \in 0 .. GapBound
  BY <1>1, <1>2, <1>4
<1>7. /\ value' \in [Threads -> 0 .. Modulus - 1]
      /\ LOG_CURRENT_TIME' \in [Threads -> Nat]
      /\ overlapped' \in [Threads -> BOOLEAN]
  <2>1. CASE UNCHANGED <<value, LOG_CURRENT_TIME, overlapped, gap>>
    BY <2>1 DEF TypeOK
  <2>2. CASE Leave(t)
    BY <1>3, <2>2 DEF Leave, TypeOK
  <2> QED
    BY <1>4, <2>1, <2>2
<1>8. ValueInv'
  BY <1>1, <1>4 DEF Leave, ValueInv, TypeOK, n
<1> QED
  BY <1>5, <1>6, <1>7, <1>8

LEMMA ExecuteType ==
  ASSUME TypeInv, NEW t \in Threads, Execute(t)
  PROVE  TypeInv'
<1> USE DEF TypeInv
<1>1. n \in Nat /\ n >= 1
  BY SiteFacts DEF TypeOK
<1>2. executions' \in 0 .. n
  BY <1>1, AtMostType DEF Execute, TypeOK
<1>3. pc' \in [Threads -> Labels] /\ LabelInv'
<2>1. PICK label : Goto(t, label) /\ label \in LabelsOf(site.macro)
  BY SiteFacts DEF Execute, TypeOK, LabelsOf
<2> QED
  BY <2>1, GotoType DEF Execute
<1>4. overlapped' \in [Threads -> BOOLEAN]
<2> DEFINE others == {u \in Threads \ {t} : pc[u] # "idle"}
<2>1. overlapped' = [u \in Threads |-> IF u = t THEN others # {}
                                       ELSE overlapped[u] \/ u \in others]
  BY DEF Execute
<2> HIDE DEF others
<2>2. \A u \in Threads : overlapped'[u] \in BOOLEAN
  BY <2>1 DEF TypeOK
<2> QED
  BY <2>1, <2>2
<1>5. UNCHANGED <<site, counters, now, value, LOG_CURRENT_TIME, messages, gap, lastAlone>>
  BY DEF Execute
<1>6. TypeOK'
  BY <1>2, <1>3, <1>4, <1>5 DEF TypeOK, n, GapBound, counters
<1>7. ValueInv'
  BY <1>5 DEF ValueInv, n
<1> QED
  BY <1>3, <1>6, <1>7

LEMMA ContinueType ==
  ASSUME TypeInv, NEW t \in Threads, Continue(t)
  PROVE  TypeInv'
<1> USE DEF TypeInv, n, GapBound, counters, history
<1>0. /\ site \in Sites /\ n \in Nat /\ n >= 1 /\ Modulus \in Nat /\ n < Modulus
      /\ LOG_OCCURRENCES \in 0 .. Modulus - 1 /\ LOG_OCCURRENCES_MOD_N \in 0 .. Modulus - 1
      /\ LOG_OCCURRENCES \in Int /\ LOG_OCCURRENCES_MOD_N \in Int
      /\ LOG_PREVIOUS_TIME_RAW \in Nat /\ now \in Nat /\ LOG_CURRENT_TIME[t] \in Nat
  BY SiteFacts DEF TypeOK
<1>m. /\ pc[t] \in {"increment", "subtract", "test"} => site.macro = "EVERY_N"
      /\ pc[t] \in {"load", "store"} => site.macro = "IF_EVERY_N"
      /\ pc[t] \in {"first", "another", "within"} => site.macro = "FIRST_N"
      /\ pc[t] \in {"clock", "previous", "remember"} => site.macro = "EVERY_T"
  BY <1>0, SiteFacts DEF LabelInv, LabelsOf
<1>1. CASE CountOccurrence(t)
<2>1. LOG_OCCURRENCES' \in 0 .. Modulus - 1
  BY <1>0, <1>1, UnsignedType DEF CountOccurrence
<2>2. \/ End(t, TRUE) \/ End(t, FALSE)
      \/ \E label \in LabelsOf(site.macro) : GoOn(t, label)
  BY <1>1 DEF CountOccurrence, LabelsOf
<2> QED
  BY <1>1, <2>1, <2>2, EndType DEF CountOccurrence, TypeOK
<1>2. CASE Increment(t)
<2>1. LOG_OCCURRENCES_MOD_N' \in 0 .. Modulus - 1 /\ site.macro = "EVERY_N"
  BY <1>0, <1>2, <1>m, UnsignedType DEF Increment
<2>2. \E label \in LabelsOf(site.macro) : Goto(t, label)
  BY <1>2, <2>1 DEF Increment, LabelsOf
<2>3. pc' \in [Threads -> Labels] /\ LabelInv'
  BY <1>2, <2>2, GotoType DEF Increment
<2> QED
  BY <1>2, <2>1, <2>3 DEF Increment, TypeOK, ValueInv
<1>3. CASE Subtract(t)
<2>1. LOG_OCCURRENCES_MOD_N' \in 0 .. Modulus - 1 /\ site.macro = "EVERY_N"
  BY <1>0, <1>3, <1>m, UnsignedType DEF Subtract
<2>2. "test" \in LabelsOf(site.macro)
  BY <2>1 DEF LabelsOf
<2>3. pc' \in [Threads -> Labels] /\ LabelInv'
  BY <1>3, <2>2, GotoType DEF Subtract
<2> QED
  BY <1>3, <2>1, <2>3 DEF Subtract, TypeOK, ValueInv
<1>4. CASE Test(t)
<2>1. \/ End(t, TRUE) \/ End(t, FALSE)
      \/ \E label \in LabelsOf(site.macro) : GoOn(t, label)
  BY <1>4 DEF Test, LabelsOf
<2> QED
  BY <1>4, <2>1, EndType DEF Test, TypeOK
<1>5. CASE Load(t)
<2>1. site.macro = "IF_EVERY_N" /\ Advanced(LOG_OCCURRENCES_MOD_N) \in 0 .. n - 1
  BY <1>0, <1>5, <1>m, AdvancedType DEF Load
<2>2. "store" \in LabelsOf(site.macro)
  BY <2>1 DEF LabelsOf
<2>3. pc' \in [Threads -> Labels] /\ LabelInv'
  BY <1>5, <2>2, GotoType DEF Load
<2>4. Advanced(LOG_OCCURRENCES_MOD_N) \in 0 .. Modulus - 1 /\ Advanced(LOG_OCCURRENCES_MOD_N) < n
  BY <1>0, <2>1
<2>5. value' \in [Threads -> 0 .. Modulus - 1] /\ ValueInv'
  BY <1>5, <2>4 DEF Load, TypeOK, ValueInv
<2> QED
  BY <1>5, <2>3, <2>5 DEF Load, TypeOK
<1>6. CASE Store(t)
<2>1. \/ End(t, TRUE) \/ End(t, FALSE)
      \/ \E label \in LabelsOf(site.macro) : GoOn(t, label)
  BY <1>6 DEF Store, LabelsOf
<2>2. LOG_OCCURRENCES_MOD_N' \in 0 .. Modulus - 1 /\ LOG_OCCURRENCES_MOD_N' < n
  BY <1>6, <1>m DEF Store, TypeOK, ValueInv
<2> QED
  BY <1>6, <2>1, <2>2, EndType DEF Store, TypeOK
<1>7. CASE First(t)
<2>1. \E label \in LabelsOf(site.macro) : Goto(t, label)
  BY <1>7, <1>m DEF First, LabelsOf
<2>2. pc' \in [Threads -> Labels] /\ LabelInv'
  BY <1>7, <2>1, GotoType DEF First
<2> QED
  BY <1>7, <2>2 DEF First, TypeOK, ValueInv
<1>8. CASE Another(t)
<2>1. LOG_OCCURRENCES' \in 0 .. Modulus - 1
  BY <1>0, <1>8, UnsignedType DEF Another
<2>2. "within" \in LabelsOf(site.macro)
  BY <1>8, <1>m DEF Another, LabelsOf
<2>3. pc' \in [Threads -> Labels] /\ LabelInv'
  BY <1>8, <2>2, GotoType DEF Another
<2> QED
  BY <1>8, <2>1, <2>3 DEF Another, TypeOK, ValueInv
<1>9. CASE TestWithin(t)
<2>1. \/ End(t, TRUE) \/ End(t, FALSE)
      \/ \E label \in LabelsOf(site.macro) : GoOn(t, label)
  BY <1>9 DEF TestWithin, LabelsOf
<2> QED
  BY <1>9, <2>1, EndType DEF TestWithin, TypeOK
<1>10. CASE ReadClock(t)
<2>1. "previous" \in LabelsOf(site.macro)
  BY <1>10, <1>m DEF ReadClock, LabelsOf
<2>2. pc' \in [Threads -> Labels] /\ LabelInv'
  BY <1>10, <2>1, GotoType DEF ReadClock
<2> QED
  BY <1>0, <1>10, <2>2 DEF ReadClock, TypeOK, ValueInv
<1>11. CASE LoadPrevious(t)
<2>1. \/ End(t, TRUE) \/ End(t, FALSE)
      \/ \E label \in LabelsOf(site.macro) : GoOn(t, label)
  BY <1>11, <1>m DEF LoadPrevious, LabelsOf
<2> QED
  BY <1>11, <2>1, EndType DEF LoadPrevious, TypeOK
<1>12. CASE StorePrevious(t)
<2>1. "log" \in LabelsOf(site.macro)
  BY DEF LabelsOf
<2>2. pc' \in [Threads -> Labels] /\ LabelInv'
  BY <1>12, <2>1, GotoType DEF StorePrevious
<2>3. LOG_PREVIOUS_TIME_RAW' \in Nat
  BY <1>0, <1>12 DEF StorePrevious, Remembered
<2> QED
  BY <1>12, <2>2, <2>3 DEF StorePrevious, TypeOK, ValueInv
<1>13. CASE LogMessage(t)
<2>1. messages' \in 0 .. n + 1 /\ lastAlone' \in Nat \cup {NoTime} /\ 0 \in 0 .. GapBound
  BY <1>0, <1>13, AtMostType DEF LogMessage, TypeOK
<2>2. pc' \in [Threads -> Labels] /\ LabelInv'
  BY <1>13, GotoType DEF LogMessage, Leave, LabelsOf
<2>3. ValueInv'
  BY <1>0, <1>13 DEF LogMessage, Leave, ValueInv, TypeOK
<2>4. /\ value' \in [Threads -> 0 .. Modulus - 1]
      /\ LOG_CURRENT_TIME' \in [Threads -> Nat]
      /\ overlapped' \in [Threads -> BOOLEAN]
  BY <1>0, <1>13 DEF LogMessage, Leave, TypeOK
<2>5. gap' \in 0 .. GapBound
  BY <1>13, <2>1 DEF LogMessage
<2> QED
  BY <1>13, <2>1, <2>2, <2>3, <2>4, <2>5 DEF LogMessage, TypeOK
<1> QED
  BY <1>1, <1>2, <1>3, <1>4, <1>5, <1>6, <1>7, <1>8, <1>9, <1>10, <1>11, <1>12, <1>13
     DEF Continue

LEMMA NextType == TypeInv /\ [Next]_vars => TypeInv'
<1> SUFFICES ASSUME TypeInv, [Next]_vars PROVE TypeInv'
  OBVIOUS
<1>1. CASE Tick
  BY <1>1 DEF Tick, TypeInv, TypeOK, LabelInv, ValueInv, counters, history, n, GapBound
<1>2. ASSUME NEW t \in Threads, Execute(t) PROVE TypeInv'
  BY <1>2, ExecuteType
<1>3. ASSUME NEW t \in Threads, Continue(t) PROVE TypeInv'
  BY <1>3, ContinueType
<1>4. CASE UNCHANGED vars
  BY <1>4 DEF vars, TypeInv, TypeOK, LabelInv, ValueInv, counters, history, n, GapBound
<1> QED
  BY <1>1, <1>2, <1>3, <1>4 DEF Next

\* The counters keep their widths, and that of LOG_IF_EVERY_N stays below n.
THEOREM TypeCorrect == Spec => []TypeOK
<1>1. TypeInv => TypeOK
  BY DEF TypeInv
<1> QED
  BY <1>1, InitType, NextType, PTL DEF Spec

----------------------------------------------------------------------------
(* LOG_FIRST_N *)

\* A step of thread t from a label to another one.
Moves(t, from, to) == pc[t] = from /\ Goto(t, to)

LEMMA MovedCounts ==
  ASSUME TypeOK, NEW t \in Threads, NEW from, NEW to, from # to, Moves(t, from, to)
  PROVE  /\ Count(pc', from) = Count(pc, from) - 1
         /\ Count(pc', to) = Count(pc, to) + 1
         /\ \A label : label # from /\ label # to => Count(pc', label) = Count(pc, label)
<1> DEFINE S(label) == {u \in Threads : pc[u] = label}
           R(label) == {u \in Threads : pc'[u] = label}
<1>0. pc[t] = from /\ pc'[t] = to /\ \A u \in Threads \ {t} : pc'[u] = pc[u]
  BY DEF Moves, Goto, TypeOK
<1>1. \A label : IsFiniteSet(S(label))
  BY OccasionalAssumption, FS_Subset
<1>2. R(from) = S(from) \ {t} /\ t \in S(from)
  BY <1>0
<1>3. R(to) = S(to) \cup {t} /\ t \notin S(to)
  BY <1>0
<1>4. ASSUME NEW label, label # from, label # to
      PROVE  R(label) = S(label)
  BY <1>0, <1>4
<1>5. Cardinality(R(from)) = Cardinality(S(from)) - 1
<2> HIDE DEF R, S
<2> QED
  BY <1>1, <1>2, FS_RemoveElement
<1>6. Cardinality(R(to)) = Cardinality(S(to)) + 1
<2> HIDE DEF R, S
<2> QED
  BY <1>1, <1>3, FS_AddElement
<1> QED
  BY <1>4, <1>5, <1>6 DEF Count

\* Each step of LOG_FIRST_N moves one thread and keeps the account of messages.
LEMMA FirstStepKeepsInv ==
  ASSUME TypeInv, FirstInv, site.macro = "FIRST_N", site' = site, NEW t \in Threads,
         Execute(t) \/ First(t) \/ Another(t) \/ TestWithin(t) \/ LogMessage(t)
  PROVE  CountedInv' /\ BelowInv' /\ AboveInv'
<1> DEFINE T == Cardinality(Threads)
           first == Count(pc, "first")
           another == Count(pc, "another")
           within == Count(pc, "within")
           log == Count(pc, "log")
<1>1. /\ n \in Nat /\ n >= 1 /\ T \in Nat /\ T >= 1 /\ n + T < Modulus /\ Modulus \in Nat
      /\ n' = n /\ LOG_OCCURRENCES \in Nat /\ messages \in 0 .. n + 1
      /\ executions \in 0 .. n
  BY SiteFacts DEF TypeInv, TypeOK, n
<1>2. /\ first \in Nat /\ another \in Nat /\ within \in Nat /\ log \in Nat
      /\ first <= T /\ another <= T
  BY CountType
<1>3. /\ LOG_OCCURRENCES + another <= n + T
      /\ LOG_OCCURRENCES <= n => /\ messages + within + log = LOG_OCCURRENCES
                                 /\ executions <= LOG_OCCURRENCES + first + another
      /\ LOG_OCCURRENCES > n => /\ messages + log >= n - (T - 1)
                                /\ messages + log <= n
  BY <1>1, <1>2 DEF FirstInv, CountedInv, BelowInv, AboveInv
<1> HIDE DEF T, first, another, within, log
<1>4. executions' \in Int /\ messages' \in Int
<2>1. executions' = executions \/ executions' = AtMost(executions + 1, n)
  BY DEF Execute, First, Another, TestWithin, LogMessage, history
<2>2. messages' = messages \/ messages' = AtMost(messages + 1, n + 1)
  BY DEF Execute, First, Another, TestWithin, LogMessage, history
<2> QED
  BY <1>1, <2>1, <2>2 DEF AtMost
<1>5. CASE Execute(t)
<2>1. /\ Moves(t, "idle", "first") /\ executions' <= executions + 1
      /\ LOG_OCCURRENCES' = LOG_OCCURRENCES /\ messages' = messages
  BY <1>1, <1>5, AtMostType DEF Execute, Moves, counters
<2>2. /\ Count(pc', "first") = first + 1 /\ Count(pc', "another") = another
      /\ Count(pc', "within") = within /\ Count(pc', "log") = log
  BY <2>1, MovedCounts DEF TypeInv, first, another, within, log
<2> QED
  BY <1>1, <1>2, <1>3, <1>4, <2>1, <2>2 DEF CountedInv, BelowInv, AboveInv, T
<1>6. CASE First(t)
<2>1. /\ executions' = executions
      /\ LOG_OCCURRENCES' = LOG_OCCURRENCES /\ messages' = messages
  BY <1>6 DEF First, counters, history
<2>2. CASE LOG_OCCURRENCES <= n
  <3>1. Moves(t, "first", "another")
    BY <1>6, <2>2 DEF First, Moves
  <3>2. /\ Count(pc', "first") = first - 1 /\ Count(pc', "another") = another + 1
        /\ Count(pc', "within") = within /\ Count(pc', "log") = log
        /\ Count(pc', "another") <= T
    BY <3>1, MovedCounts, CountType DEF TypeInv, first, another, within, log, T
  <3> QED
    BY <1>1, <1>2, <1>3, <1>4, <2>1, <2>2, <3>2 DEF CountedInv, BelowInv, AboveInv, T
<2>3. CASE LOG_OCCURRENCES > n
  <3>1. Moves(t, "first", "within")
    BY <1>1, <1>6, <2>3 DEF First, Moves
  <3>2. Count(pc', "another") = another /\ Count(pc', "log") = log
    BY <3>1, MovedCounts DEF TypeInv, another, log
  <3> QED
    BY <1>1, <1>2, <1>3, <1>4, <2>1, <2>3, <3>2 DEF CountedInv, BelowInv, AboveInv, T
<2> QED
  BY <1>1, <2>2, <2>3
<1>7. CASE Another(t)
<2>1. /\ Moves(t, "another", "within") /\ executions' = executions /\ messages' = messages
      /\ LOG_OCCURRENCES' = Unsigned(LOG_OCCURRENCES + 1)
  BY <1>7 DEF Another, Moves, history
<2>2. /\ Count(pc', "first") = first /\ Count(pc', "another") = another - 1
      /\ Count(pc', "within") = within + 1 /\ Count(pc', "log") = log
  BY <2>1, MovedCounts DEF TypeInv, first, another, within, log
<2>3. another >= 1 /\ within <= T - 1
  BY <2>1, CountType DEF Moves, another, within, T
<2>4. LOG_OCCURRENCES' = LOG_OCCURRENCES + 1
<3>1. LOG_OCCURRENCES + 1 \in 0 .. Modulus - 1
  BY <1>1, <1>2, <1>3, <2>3
<3> QED
  BY <2>1, <3>1, UnsignedType DEF TypeInv, TypeOK
<2> QED
  BY <1>1, <1>2, <1>3, <1>4, <2>1, <2>2, <2>3, <2>4 DEF CountedInv, BelowInv, AboveInv, T
<1>8. CASE TestWithin(t)
<2>1. /\ executions' = executions
      /\ LOG_OCCURRENCES' = LOG_OCCURRENCES /\ messages' = messages
  BY <1>8 DEF TestWithin, counters
<2>2. CASE LOG_OCCURRENCES <= n
  <3>1. Moves(t, "within", "log")
    BY <1>8, <2>2 DEF TestWithin, Within, GoOn, Moves
  <3>2. /\ Count(pc', "first") = first /\ Count(pc', "another") = another
        /\ Count(pc', "within") = within - 1 /\ Count(pc', "log") = log + 1
    BY <3>1, MovedCounts DEF TypeInv, first, another, within, log
  <3> QED
    BY <1>1, <1>2, <1>3, <1>4, <2>1, <2>2, <3>2 DEF CountedInv, BelowInv, AboveInv, T
<2>3. CASE LOG_OCCURRENCES > n
  <3>1. Moves(t, "within", "idle")
    BY <1>1, <1>8, <2>3 DEF TestWithin, Within, End, Leave, Moves
  <3>2. Count(pc', "another") = another /\ Count(pc', "log") = log
    BY <3>1, MovedCounts DEF TypeInv, another, log
  <3> QED
    BY <1>1, <1>2, <1>3, <1>4, <2>1, <2>3, <3>2 DEF CountedInv, BelowInv, AboveInv, T
<2> QED
  BY <1>1, <2>2, <2>3
<1>9. CASE LogMessage(t)
<2>1. /\ Moves(t, "log", "idle") /\ executions' = executions
      /\ LOG_OCCURRENCES' = LOG_OCCURRENCES
      /\ messages' = AtMost(messages + 1, n + 1)
  BY <1>9 DEF LogMessage, Leave, Moves, counters
<2>2. /\ Count(pc', "first") = first /\ Count(pc', "another") = another
      /\ Count(pc', "within") = within /\ Count(pc', "log") = log - 1
  BY <2>1, MovedCounts DEF TypeInv, first, another, within, log
<2>3. log >= 1
  BY <2>1, CountType DEF Moves, log
<2>4. messages' = messages + 1
<3>1. messages + 1 <= n + 1
  BY <1>1, <1>2, <1>3, <2>3
<3> QED
  BY <1>1, <2>1, <3>1, AtMostType
<2> QED
  BY <1>1, <1>2, <1>3, <1>4, <2>1, <2>2, <2>3, <2>4 DEF CountedInv, BelowInv, AboveInv, T
<1> QED
  BY <1>5, <1>6, <1>7, <1>8, <1>9

LEMMA NextKeepsInv == IInv /\ [Next]_vars => IInv'
<1> SUFFICES ASSUME TypeInv, FirstInv, [Next]_vars PROVE FirstInv'
  BY NextType DEF IInv
<1> SUFFICES ASSUME site'.macro = "FIRST_N" PROVE CountedInv' /\ BelowInv' /\ AboveInv'
  BY DEF FirstInv
<1>1. site' = site
  BY DEF Next, vars, Tick, Execute, Continue, CountOccurrence, Increment, Subtract, Test,
         Load, Store, First, Another, TestWithin, ReadClock, LoadPrevious, StorePrevious,
         LogMessage
<1>2. \A t \in Threads : pc[t] \in {"idle", "log", "first", "another", "within"}
  BY <1>1 DEF TypeInv, LabelInv, LabelsOf
<1>3. CASE UNCHANGED vars
  BY <1>1, <1>3 DEF vars, counters, history, FirstInv, CountedInv, BelowInv, AboveInv, n
<1>4. CASE Next
<2>1. \E t \in Threads :
        Execute(t) \/ First(t) \/ Another(t) \/ TestWithin(t) \/ LogMessage(t)
  BY <1>1, <1>2, <1>4 DEF Next, Tick, Continue, CountOccurrence, Increment, Subtract, Test,
         Load, Store, ReadClock, LoadPrevious, StorePrevious
<2> QED
  BY <1>1, <2>1, FirstStepKeepsInv
<1> QED
  BY <1>3, <1>4

LEMMA InitInv == Init => IInv
<1> SUFFICES ASSUME Init PROVE FirstInv
  BY InitType DEF IInv
<1>1. \A label : label # "idle" => Count(pc, label) = 0
<2> SUFFICES ASSUME NEW label, label # "idle" PROVE Count(pc, label) = 0
  OBVIOUS
<2>1. {t \in Threads : pc[t] = label} = {}
  BY DEF Init
<2> QED
  BY <2>1, FS_EmptySet DEF Count
<1>2. LOG_OCCURRENCES = 0 /\ messages = 0 /\ executions = 0 /\ site \in Sites
  BY DEF Init
<1> QED
  BY <1>1, <1>2, SiteFacts DEF FirstInv, CountedInv, BelowInv, AboveInv

----------------------------------------------------------------------------
(* LOG_EVERY_T *)

\* Only LOG_EVERY_T sets lastAlone.
OnlyTimedInv == lastAlone # NoTime => site.macro = "EVERY_T"

\* An execution that no other has overlapped is the only one.
AloneInv ==
  \A t, u \in Threads : t # u /\ pc[t] # "idle" /\ pc[u] # "idle" => overlapped[t]

\* Since the last message of an execution no other overlapped, what threads load is not
\* older than that message, so that they log after more than a period only.
SinceInv ==
  lastAlone # NoTime =>
    /\ LOG_PREVIOUS_TIME_RAW >= lastAlone
    /\ \A t \in Threads :
         pc[t] \in {"remember", "log"} => LOG_CURRENT_TIME[t] > lastAlone + Period

TimedInv ==
  site.macro = "EVERY_T" =>
    /\ SinceInv
    /\ \A t \in Threads :
         pc[t] = "log" /\ ~overlapped[t] => LOG_PREVIOUS_TIME_RAW = LOG_CURRENT_TIME[t]

\* In a step of an execution the others stay where they are.
LEMMA ContinueFacts ==
  ASSUME TypeInv, NEW t \in Threads, Continue(t)
  PROVE  /\ pc[t] # "idle"
         /\ \A u \in Threads \ {t} : /\ pc'[u] = pc[u] /\ overlapped'[u] = overlapped[u]
                                     /\ LOG_CURRENT_TIME'[u] = LOG_CURRENT_TIME[u]
         /\ pc'[t] = "idle" \/ overlapped'[t] = overlapped[t]
<1> USE DEF TypeInv, TypeOK, history
<1>1. CASE CountOccurrence(t)
  BY <1>1 DEF CountOccurrence, GoOn, End, Leave, Goto
<1>2. CASE Increment(t)
  BY <1>2 DEF Increment, Goto
<1>3. CASE Subtract(t)
  BY <1>3 DEF Subtract, Goto
<1>4. CASE Test(t)
  BY <1>4 DEF Test, GoOn, End, Leave, Goto
<1>5. CASE Load(t)
  BY <1>5 DEF Load, Goto
<1>6. CASE Store(t)
  BY <1>6 DEF Store, GoOn, End, Leave, Goto
<1>7. CASE First(t)
  BY <1>7 DEF First, Goto
<1>8. CASE Another(t)
  BY <1>8 DEF Another, Goto
<1>9. CASE TestWithin(t)
  BY <1>9 DEF TestWithin, GoOn, End, Leave, Goto
<1>10. CASE ReadClock(t)
  BY <1>10 DEF ReadClock, Goto
<1>11. CASE LoadPrevious(t)
  BY <1>11 DEF LoadPrevious, GoOn, End, Leave, Goto
<1>12. CASE StorePrevious(t)
  BY <1>12 DEF StorePrevious, Goto
<1>13. CASE LogMessage(t)
  BY <1>13 DEF LogMessage, Leave, Goto
<1> QED
  BY <1>1, <1>2, <1>3, <1>4, <1>5, <1>6, <1>7, <1>8, <1>9, <1>10, <1>11, <1>12, <1>13
     DEF Continue

LEMMA AloneKept == TypeInv /\ AloneInv /\ [Next]_vars => AloneInv'
<1> SUFFICES ASSUME TypeInv, AloneInv, [Next]_vars PROVE AloneInv'
  OBVIOUS
<1>1. CASE Tick \/ UNCHANGED vars
  BY <1>1 DEF Tick, vars, history, AloneInv
<1>2. ASSUME NEW t \in Threads, Execute(t) PROVE AloneInv'
<2> DEFINE others == {u \in Threads \ {t} : pc[u] # "idle"}
<2>1. overlapped' = [u \in Threads |-> IF u = t THEN others # {}
                                       ELSE overlapped[u] \/ u \in others]
  BY <1>2 DEF Execute
<2>2. \A u \in Threads \ {t} : pc'[u] = pc[u]
  BY <1>2 DEF Execute, Goto, TypeInv, TypeOK
<2>3. \A u \in Threads \ {t} : pc'[u] # "idle" => u \in others
  BY <2>2
<2> HIDE DEF others
<2> SUFFICES ASSUME NEW u \in Threads, NEW v \in Threads, u # v,
                    pc'[u] # "idle", pc'[v] # "idle"
             PROVE  overlapped'[u]
  BY DEF AloneInv
<2>4. CASE u = t
  BY <2>1, <2>3, <2>4
<2>5. CASE u # t
  BY <2>1, <2>3, <2>5
<2> QED
  BY <2>4, <2>5
<1>3. ASSUME NEW t \in Threads, Continue(t) PROVE AloneInv'
  BY <1>3, ContinueFacts DEF AloneInv
<1> QED
  BY <1>1, <1>2, <1>3 DEF Next

LEMMA OnlyTimedKept == OnlyTimedInv /\ [Next]_vars => OnlyTimedInv'
  BY DEF OnlyTimedInv, Next, vars, history, Tick, Execute, Continue, CountOccurrence,
         Increment, Subtract, Test, Load, Store, First, Another, TestWithin, ReadClock,
         LoadPrevious, StorePrevious, LogMessage

\* A message comes later than the last lone one by more than a period.
LEMMA TimedKept ==
  ASSUME TypeInv, AloneInv, TimedInv, [Next]_vars
  PROVE  TimedInv'
<1> SUFFICES ASSUME site'.macro = "EVERY_T"
             PROVE  /\ SinceInv'
                    /\ \A t \in Threads :
                         pc'[t] = "log" /\ ~overlapped'[t]
                           => LOG_PREVIOUS_TIME_RAW' = LOG_CURRENT_TIME'[t]
  BY DEF TimedInv
<1> USE DEF TypeInv
<1>1. site' = site
  BY DEF Next, vars, Tick, Execute, Continue, CountOccurrence, Increment, Subtract, Test,
         Load, Store, First, Another, TestWithin, ReadClock, LoadPrevious, StorePrevious,
         LogMessage
<1>2. \A t \in Threads : pc[t] \in {"idle", "log", "clock", "previous", "remember"}
  BY <1>1 DEF LabelInv, LabelsOf
<1>3. /\ SinceInv
      /\ \A t \in Threads :
           pc[t] = "log" /\ ~overlapped[t] => LOG_PREVIOUS_TIME_RAW = LOG_CURRENT_TIME[t]
  BY <1>1 DEF TimedInv
<1>4. /\ LOG_PREVIOUS_TIME_RAW \in Nat /\ now \in Nat /\ Period \in Nat
      /\ lastAlone # NoTime => lastAlone \in Nat
      /\ \A t \in Threads : LOG_CURRENT_TIME[t] \in Nat
  BY OccasionalAssumption DEF TypeOK
<1>5. CASE Tick \/ UNCHANGED vars
  BY <1>3, <1>5 DEF Tick, vars, history, counters, SinceInv
<1>6. ASSUME NEW t \in Threads, Execute(t)
      PROVE  /\ SinceInv'
             /\ \A u \in Threads :
                  pc'[u] = "log" /\ ~overlapped'[u]
                    => LOG_PREVIOUS_TIME_RAW' = LOG_CURRENT_TIME'[u]
<2>1. pc'[t] = "clock" /\ \A u \in Threads \ {t} : pc'[u] = pc[u]
  BY <1>1, <1>6 DEF Execute, Goto, TypeOK
<2>2. UNCHANGED <<LOG_CURRENT_TIME, lastAlone, LOG_PREVIOUS_TIME_RAW>>
  BY <1>6 DEF Execute, counters
<2>3. \A u \in Threads \ {t} : overlapped[u] => overlapped'[u]
  BY <1>6 DEF Execute
<2> QED
  BY <1>3, <2>1, <2>2, <2>3 DEF SinceInv
<1>7. ASSUME NEW t \in Threads, Continue(t)
      PROVE  /\ SinceInv'
             /\ \A u \in Threads :
                  pc'[u] = "log" /\ ~overlapped'[u]
                    => LOG_PREVIOUS_TIME_RAW' = LOG_CURRENT_TIME'[u]
<2>1. ReadClock(t) \/ LoadPrevious(t) \/ StorePrevious(t) \/ LogMessage(t)
  BY <1>2, <1>7 DEF Continue, CountOccurrence, Increment, Subtract, Test, Load, Store,
         First, Another, TestWithin
<2>2. /\ pc[t] # "idle"
      /\ \A u \in Threads \ {t} : /\ pc'[u] = pc[u] /\ overlapped'[u] = overlapped[u]
                                  /\ LOG_CURRENT_TIME'[u] = LOG_CURRENT_TIME[u]
  BY <1>7, ContinueFacts
<2>3. CASE ReadClock(t)
<3>1. pc'[t] = "previous" /\ UNCHANGED <<lastAlone, LOG_PREVIOUS_TIME_RAW>>
  BY <2>3 DEF ReadClock, Goto, TypeOK, counters, history
<3> QED
  BY <1>3, <2>2, <3>1 DEF SinceInv
<2>4. CASE LoadPrevious(t)
<3>1. /\ UNCHANGED <<lastAlone, LOG_PREVIOUS_TIME_RAW>>
      /\ \/ /\ LOG_CURRENT_TIME[t] - LOG_PREVIOUS_TIME_RAW > Period
            /\ pc'[t] = "remember" /\ LOG_CURRENT_TIME'[t] = LOG_CURRENT_TIME[t]
         \/ pc'[t] = "idle"
  BY <2>4 DEF LoadPrevious, GoOn, End, Leave, Goto, TypeOK, counters
<3> QED
  BY <1>3, <1>4, <2>2, <3>1 DEF SinceInv
<2>5. CASE StorePrevious(t)
<3>1. /\ pc[t] = "remember" /\ pc'[t] = "log" /\ lastAlone' = lastAlone
      /\ LOG_PREVIOUS_TIME_RAW' = LOG_CURRENT_TIME[t]
      /\ LOG_CURRENT_TIME'[t] = LOG_CURRENT_TIME[t]
  BY <2>5 DEF StorePrevious, Remembered, Goto, TypeOK, history
<3>2. \A u \in Threads \ {t} : pc'[u] # "idle" => overlapped'[u]
  BY <2>2 DEF AloneInv
<3> QED
  BY <1>3, <1>4, <2>2, <3>1, <3>2 DEF SinceInv
<2>6. CASE LogMessage(t)
<3>1. /\ pc[t] = "log" /\ pc'[t] = "idle"
      /\ LOG_PREVIOUS_TIME_RAW' = LOG_PREVIOUS_TIME_RAW
      /\ lastAlone' = IF ~overlapped[t] THEN LOG_CURRENT_TIME[t] ELSE lastAlone
  BY <1>1, <2>6 DEF LogMessage, Leave, Goto, TypeOK, counters
<3>2. CASE overlapped[t]
  BY <1>3, <2>2, <3>1, <3>2 DEF SinceInv
<3>3. CASE ~overlapped[t]
  <4>1. \A u \in Threads \ {t} : pc'[u] = "idle"
    BY <2>2, <3>3 DEF AloneInv
  <4>2. LOG_PREVIOUS_TIME_RAW' = lastAlone' /\ lastAlone' \in Nat
    BY <1>3, <1>4, <3>1, <3>3
  <4> QED
    BY <3>1, <4>1, <4>2 DEF SinceInv
<3> QED
  BY <3>2, <3>3
<2> QED
  BY <2>1, <2>3, <2>4, <2>5, <2>6
<1> QED
  BY <1>5, <1>6, <1>7 DEF Next

----------------------------------------------------------------------------
(* Theorems *)

\* LOG_FIRST_N logs at most n messages, however threads race for them.
LEMMA FirstNBounded ==
  ASSUME TypeInv, FirstInv, site.macro = "FIRST_N"
  PROVE  messages <= n
<1>1. n \in Nat /\ messages \in Nat /\ LOG_OCCURRENCES \in Nat /\ Cardinality(Threads) \in Nat
  BY SiteFacts DEF TypeInv, TypeOK
<1>2. Count(pc, "within") \in Nat /\ Count(pc, "log") \in Nat
  BY CountType
<1> QED
  BY <1>1, <1>2 DEF FirstInv, BelowInv, AboveInv

\* LOG_FIRST_N loses at most as many of the first n as there are other threads.
LEMMA FirstNComplete ==
  ASSUME TypeInv, FirstInv, site.macro = "FIRST_N", \A t \in Threads : pc[t] = "idle"
  PROVE  messages >= executions - (Cardinality(Threads) - 1)
<1>1. /\ n \in Nat /\ messages \in Nat /\ LOG_OCCURRENCES \in Nat /\ executions \in 0 .. n
      /\ Cardinality(Threads) \in Nat /\ Cardinality(Threads) >= 1
  BY SiteFacts DEF TypeInv, TypeOK
<1>2. \A label : label # "idle" => Count(pc, label) = 0
<2> SUFFICES ASSUME NEW label, label # "idle" PROVE Count(pc, label) = 0
  OBVIOUS
<2>1. {t \in Threads : pc[t] = label} = {}
  OBVIOUS
<2> QED
  BY <2>1, FS_EmptySet DEF Count
<1>3. /\ Count(pc, "first") = 0 /\ Count(pc, "another") = 0
      /\ Count(pc, "within") = 0 /\ Count(pc, "log") = 0
  BY <1>2
<1> QED
  BY <1>1, <1>3 DEF FirstInv, BelowInv, AboveInv

\* LOG_FIRST_N logs n messages, or fewer by no more than there are other threads.
THEOREM FirstNIsLogged == Spec => []FirstNLogsN
<1>1. IInv => FirstNLogsN
  BY FirstNBounded, FirstNComplete DEF IInv, FirstNLogsN
<1> QED
  BY <1>1, InitInv, NextKeepsInv, PTL DEF Spec

\* After a lone message of LOG_EVERY_T no thread logs for LOG_TIME_PERIOD, whenever it
\* has read the clock.
THEOREM TimedMessagesApart == Spec => TimedApart
<1> DEFINE TInv == TypeInv /\ OnlyTimedInv /\ AloneInv /\ TimedInv
           Apart == \A t \in Threads :
                      pc[t] = "log" /\ pc'[t] = "idle" /\ lastAlone # NoTime
                        => LOG_CURRENT_TIME[t] > lastAlone + Period
<1>1. Init => TInv
  BY InitType DEF Init, OnlyTimedInv, AloneInv, TimedInv, SinceInv
<1>2. TInv /\ [Next]_vars => TInv'
  BY NextType, OnlyTimedKept, AloneKept, TimedKept
<1>3. TInv => Apart
  BY DEF OnlyTimedInv, TimedInv, SinceInv
<1>4. TInv /\ [Next]_vars => [Apart]_vars
  BY <1>3
<1>5. Spec => [][Apart]_vars
  <2> HIDE DEF TInv, Apart
  <2> QED
    BY <1>1, <1>2, <1>4, PTL DEF Spec
<1> QED
  BY <1>5 DEF TimedApart

=============================================================================
